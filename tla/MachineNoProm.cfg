\* As Machine.cfg; the property is what docs/prom.md says of the PROM.
CONSTANTS
    Machines = {m1, m2, m3}
    Types = {R10000}
    Sizes = {64, 256}
    Targets = {0}
    Images = {disk, moved}
    OnDisk = {disk}
    None = None
SPECIFICATION Spec
CHECK_DEADLOCK FALSE
INVARIANT
    PromFirst
