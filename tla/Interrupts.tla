----------------------------- MODULE Interrupts -----------------------------
(***************************************************************************)
(* The interrupt controller (system/interrupts.cpp). No machine the front  *)
(* ends build has one. The handlers that process calls may call the        *)
(* controller themselves, so that its loop is taken call by call; that     *)
(* they call process again is left out.                                    *)
(***************************************************************************)
EXTENDS Naturals

CONSTANT LineCount  \* Lines are 0 to this less one.

ASSUME LineAssumption == LineCount \in Nat

IrqLines == 0..(LineCount - 1)

VARIABLES
    linesPending,  \* pending_
    linesOpen,     \* mask_: all ones, or zero.
    handlers,      \* The lines with a handler.
    masked,        \* masked of process: the lines it has still to visit.
    linesNamed     \* Auxiliary: the lines the last call named.

linesVars == <<linesPending, linesOpen, handlers, masked, linesNamed>>

InterruptsTypeOK ==
    /\ linesPending \subseteq IrqLines /\ handlers \subseteq IrqLines
    /\ masked \subseteq IrqLines /\ linesNamed \subseteq IrqLines
    /\ linesOpen \in BOOLEAN

-----------------------------------------------------------------------------
InterruptsInit ==
    /\ linesPending = {} /\ linesOpen = TRUE
    /\ handlers = {} /\ masked = {} /\ linesNamed = {}

(* reset: the mask is zero from then on, and nothing sets it. *)
InterruptsReset ==
    /\ linesPending' = {} /\ linesOpen' = FALSE /\ handlers' = {}
    /\ linesNamed' = IrqLines
    /\ UNCHANGED masked

(* raise *)
RaiseLine(l) ==
    /\ linesPending' = linesPending \union {l}
    /\ linesNamed' = {}
    /\ UNCHANGED <<linesOpen, handlers, masked>>

(* clear *)
ClearLine(l) ==
    /\ linesPending' = linesPending \ {l}
    /\ linesNamed' = {l}
    /\ UNCHANGED <<linesOpen, handlers, masked>>

(* set_handler *)
SetHandler(l, present) ==
    /\ handlers' = IF present THEN handlers \union {l} ELSE handlers \ {l}
    /\ linesNamed' = {}
    /\ UNCHANGED <<linesPending, linesOpen, masked>>

(* process: what is pending is looked at once, ... *)
Process ==
    /\ masked = {} /\ linesOpen
    /\ masked' = linesPending
    /\ linesNamed' = {}
    /\ UNCHANGED <<linesPending, linesOpen, handlers>>

(* ... and the handlers are called from the highest line down, also those  *)
(* of lines an earlier one has cleared. No line is cleared by the call.    *)
CallHandler ==
    /\ \E l \in masked : /\ \A k \in masked : k <= l
                         /\ masked' = masked \ {l}
    /\ linesNamed' = {}
    /\ UNCHANGED <<linesPending, linesOpen, handlers>>

InterruptsNext ==
    \/ InterruptsReset \/ Process \/ CallHandler
    \/ \E l \in IrqLines :
           \/ RaiseLine(l) \/ ClearLine(l)
           \/ \E present \in BOOLEAN : SetHandler(l, present)

InterruptsSpec == InterruptsInit /\ [][InterruptsNext]_linesVars

-----------------------------------------------------------------------------
(* A line stays raised until somebody clears it or all are reset: the call *)
(* of its handler, or of another's, does not take it back.                 *)
LinesLatch ==
    INSTANCE InterruptLatch WITH
        Interrupts <- IrqLines, pending <- linesPending, named <- linesNamed
LinesHold == LinesLatch!Spec
=============================================================================
