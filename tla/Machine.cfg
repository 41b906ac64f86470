\* Three identities: the machine, one the widgets remember, and a new one.
CONSTANTS
    Machines = {m1, m2, m3}
    Types = {R10000}
    Sizes = {64, 256}
    Targets = {0}
    Images = {disk, moved}
    OnDisk = {disk}
    None = None
SPECIFICATION Spec
SYMMETRY Identities
CHECK_DEADLOCK FALSE
INVARIANTS
    TypeOK
    OneMachine
    WidgetsFollowProm
    ConfigApplied
PROPERTIES
    LoadRestores
