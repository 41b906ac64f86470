--------------------------- MODULE InterruptGate ---------------------------
(***************************************************************************)
(* What a CPU core promises a device that raises an interrupt line and the *)
(* software that masks it.  After every instruction the core looks at the  *)
(* gate once.  It delivers an interrupt exactly when software has left the *)
(* gate open and something is waiting, and delivering closes the gate.     *)
(***************************************************************************)

VARIABLES
    phase,     \* "check" between an instruction and the look at the gate.
    open,      \* Interrupts are enabled, and no handler holds them off.
    waiting,   \* A line that is not masked is raised.
    delivered  \* The last look at the gate delivered an interrupt.

vars == <<phase, open, waiting, delivered>>

Init ==
    /\ phase = "run"
    /\ open = FALSE
    /\ waiting = FALSE
    /\ delivered = FALSE

(* An instruction may open and close the gate, raise and clear lines.      *)
Instruction ==
    /\ phase = "run"
    /\ phase' = "check"
    /\ open' \in BOOLEAN
    /\ waiting' \in BOOLEAN
    /\ UNCHANGED delivered

Deliver ==
    /\ phase = "check" /\ open /\ waiting
    /\ phase' = "run"
    /\ open' = FALSE
    /\ delivered' = TRUE
    /\ UNCHANGED waiting

Pass ==
    /\ phase = "check" /\ ~(open /\ waiting)
    /\ phase' = "run"
    /\ delivered' = FALSE
    /\ UNCHANGED <<open, waiting>>

(* The timer line goes up between two instructions.                        *)
Raise ==
    /\ phase = "run"
    /\ waiting' = TRUE
    /\ UNCHANGED <<phase, open, delivered>>

Reset ==
    /\ phase = "run"
    /\ phase' = "run"
    /\ open' = FALSE
    /\ waiting' = FALSE
    /\ delivered' = FALSE

Next == Instruction \/ Deliver \/ Pass \/ Raise \/ Reset

Spec == Init /\ [][Next]_vars
=============================================================================
