--------------------------- MODULE InterruptLatch ---------------------------
(***************************************************************************)
(* What an interrupt status register promises the software: an interrupt   *)
(* that was raised stays until the software names it, in an access that    *)
(* clears or overwrites it, or the device is reset.                        *)
(***************************************************************************)
CONSTANT Interrupts

VARIABLES
    pending,  \* The interrupts that are raised.
    named     \* Those the last access named.

Init == pending = {} /\ named = {}

Raise ==
    /\ pending \subseteq pending' /\ pending' \subseteq Interrupts
    /\ named' = {}

Acknowledge ==
    /\ named' \subseteq Interrupts
    /\ pending' \subseteq Interrupts
    /\ pending \ pending' \subseteq named'

Next == Raise \/ Acknowledge

Spec == Init /\ [][Next]_<<pending, named>>
=============================================================================
