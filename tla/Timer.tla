-------------------------------- MODULE Timer --------------------------------
(***************************************************************************)
(* The system timers (system/timer.cpp). No machine the front ends build   *)
(* has them. A counter passes its compare value and goes on; it is 64 bits *)
(* wide and never wraps.                                                   *)
(***************************************************************************)
EXTENDS Naturals

CONSTANTS
    TimerIds,   \* Timers.
    TimerBound  \* Bound on counters and compare values.

ASSUME TimerAssumption == TimerBound \in Nat

VARIABLES
    timers,     \* timers_; frequency only as whether it is 0.
    timerNamed  \* Auxiliary: the timers the last call named.

timerVars == <<timers, timerNamed>>

Counts == 0..TimerBound
TimerStates ==
    [clocked : BOOLEAN, running : BOOLEAN, pending : BOOLEAN,
     counter : Counts, compare : Counts]

TimerTypeOK ==
    /\ timers \in [TimerIds -> TimerStates]
    /\ timerNamed \subseteq TimerIds

Unused == [clocked |-> FALSE, running |-> FALSE, pending |-> FALSE,
           counter |-> 0, compare |-> 0]

-----------------------------------------------------------------------------
(* The constructor. *)
TimerInit == timers = [t \in TimerIds |-> Unused] /\ timerNamed = {}

(* reset *)
TimerReset ==
    /\ timers' = [t \in TimerIds |-> Unused]
    /\ timerNamed' = TimerIds

(* init *)
InitTimer(t, clocked) ==
    /\ timers' = [timers EXCEPT ![t] = [Unused EXCEPT !.clocked = clocked]]
    /\ timerNamed' = {t}

(* start: from 0, whether it ran before or not. *)
StartTimer(t) ==
    /\ timers' = [timers EXCEPT ![t].running = TRUE, ![t].counter = 0]
    /\ timerNamed' = {}

(* stop *)
StopTimer(t) ==
    /\ timers' = [timers EXCEPT ![t].running = FALSE]
    /\ timerNamed' = {}

(* set_compare *)
SetCompare(t, n) ==
    /\ timers' = [timers EXCEPT ![t].compare = n]
    /\ timerNamed' = {}

(* tick: raises at each tick from the compare value on. *)
TickTimerOf(t, cycles) ==
    LET count == timers[t].counter + cycles
    IN  /\ timers[t].running /\ timers[t].clocked
        /\ count <= TimerBound
        /\ timers' = [timers EXCEPT
                         ![t].counter = count,
                         ![t].pending = @ \/ count >= timers[t].compare]
        /\ timerNamed' = {}

(* clear_interrupt *)
ClearTimer(t) ==
    /\ timers' = [timers EXCEPT ![t].pending = FALSE]
    /\ timerNamed' = {t}

TimerNext ==
    \/ TimerReset
    \/ \E t \in TimerIds :
           \/ \E clocked \in BOOLEAN : InitTimer(t, clocked)
           \/ StartTimer(t) \/ StopTimer(t) \/ ClearTimer(t)
           \/ \E n \in Counts : SetCompare(t, n)
           \/ \E cycles \in 1..TimerBound : TickTimerOf(t, cycles)

TimerSpec == TimerInit /\ [][TimerNext]_timerVars

-----------------------------------------------------------------------------
(* A timer's interrupt stays until that timer is cleared or set up anew:   *)
(* stopping it, starting it again or a later compare value do not take it. *)
TimerLatch ==
    INSTANCE InterruptLatch WITH
        Interrupts <- TimerIds, named <- timerNamed,
        pending <- {t \in TimerIds : timers[t].pending}
TimerHolds == TimerLatch!Spec
=============================================================================
