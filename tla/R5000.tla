------------------------------- MODULE R5000 -------------------------------
(***************************************************************************)
(* The in-order core MIPSR5000 (emu/src/cpu/mips_r5000.cpp): where the     *)
(* program counter goes, exceptions, and the timer interrupt.              *)
(*                                                                         *)
(* tick runs a batch of instructions and compares COUNT with COMPARE once, *)
(* at its end.  step fetches, executes, and looks for interrupts; each of  *)
(* the three is a step here.  An instruction is what it does to the state  *)
(* below, chosen when it is executed; the registers, the memory and the    *)
(* LL/SC link are left out, and so are ERROREPC, BADVADDR and the          *)
(* exception code, which nothing but MFC0 reads.                           *)
(*                                                                         *)
(* Addresses count words and wrap, as u32 does.  TI stands for all eight   *)
(* interrupt lines: software can raise and clear any of them in CAUSE.     *)
(***************************************************************************)
EXTENDS Integers

CONSTANTS
    AddrSize,       \* Words in the address space: 2^30 in the source.
    ResetVector,    \* 0xBFC00000
    BootVector,     \* 0xBFC00200, while BEV is set.
    GeneralVector,  \* 0x80000000
    Targets,        \* Where jumps go, and what software writes to EPC.
    StatusWrites,   \* What software writes to STATUS.
    CountSize,      \* Values of COUNT: 2^32 in the source.
    Batch           \* The longest batch of instructions in one tick.

Addr == 0 .. AddrSize - 1
Counts == 0 .. CountSize - 1
None == -1

Statuses ==
    [ie : BOOLEAN, im : BOOLEAN, exl : BOOLEAN, erl : BOOLEAN, bev : BOOLEAN]

ASSUME SizeAssumption ==
    {AddrSize, CountSize, Batch} \subseteq Nat \ {0}

ASSUME AddressAssumption ==
    Targets \union {ResetVector, BootVector, GeneralVector} \subseteq Addr

ASSUME StatusAssumption == StatusWrites \subseteq Statuses

VARIABLES
    stage,        \* Where tick is; "idle" between two calls.
    left,         \* Instructions left in the batch.
    pc,           \* pc_, the instruction fetched last.
    nextPc,       \* next_pc_
    branchDelay,  \* branch_delay_
    status,       \* CP0 STATUS.
    cause,        \* CP0 CAUSE: [ti, bd].
    epc,          \* CP0 EPC
    cycles,       \* cycles_, modulo what COUNT can tell apart.
    compare,      \* CP0 COMPARE
    delivered,    \* Auxiliary: the last check_interrupts took an interrupt.
    resume        \* Auxiliary: the instruction an interrupt put off.

flowVars == <<pc, nextPc, branchDelay>>
timerVars == <<cycles, compare>>
auxVars == <<delivered, resume>>
vars == <<stage, left, flowVars, status, cause, epc, timerVars, auxVars>>

Succ(a) == (a + 1) % AddrSize

-----------------------------------------------------------------------------
(* STATUS is 0x00400004: BEV and ERL set. *)
ResetStatus ==
    [ie |-> FALSE, im |-> FALSE, exl |-> FALSE, erl |-> TRUE, bev |-> TRUE]

(* MIPSR5000::reset.  next_pc_ is already past the reset vector. *)
Init ==
    /\ stage = "idle" /\ left = 0
    /\ pc = ResetVector /\ nextPc = Succ(ResetVector) /\ branchDelay = FALSE
    /\ status = ResetStatus
    /\ cause = [ti |-> FALSE, bd |-> FALSE]
    /\ epc = 0
    /\ cycles = 0 /\ compare = 0
    /\ delivered = FALSE /\ resume = None

(* reset from the front end, between two calls of tick. *)
HostReset ==
    /\ stage = "idle"
    /\ pc' = ResetVector /\ nextPc' = Succ(ResetVector) /\ branchDelay' = FALSE
    /\ status' = ResetStatus
    /\ cause' = [ti |-> FALSE, bd |-> FALSE]
    /\ epc' = 0
    /\ cycles' = 0 /\ compare' = 0
    /\ delivered' = FALSE /\ resume' = None
    /\ UNCHANGED <<stage, left>>

-----------------------------------------------------------------------------
(* tick and step *)

(* Mutant of Tick: COUNT is wider than the register. *)
TickNoWrap(n) ==
    /\ stage = "idle"
    /\ cycles < 2 * CountSize
    /\ left' = n
    /\ cycles' = cycles + n
    /\ stage' = "fetch"
    /\ UNCHANGED <<flowVars, status, cause, epc, compare, auxVars>>

(* A batch begins; its cycles are counted at once. *)
Tick(n) ==
    /\ stage = "idle"
    /\ left' = n
    /\ cycles' = (cycles + n) % (2 * CountSize)
    /\ stage' = "fetch"
    /\ UNCHANGED <<flowVars, status, cause, epc, compare, auxVars>>

(* step: after a taken branch next_pc_ stays on the target.                *)
Fetch ==
    /\ stage = "fetch"
    /\ pc' = nextPc
    /\ nextPc' = IF branchDelay THEN nextPc ELSE Succ(nextPc)
    /\ branchDelay' = FALSE
    /\ stage' = "execute"
    /\ UNCHANGED <<left, status, cause, epc, timerVars, auxVars>>

Executed == stage = "execute" /\ stage' = "check"

(* Everything that falls through to the next word: arithmetic, loads and   *)
(* stores, branches not taken, MFC0, MTC0 to any other register (COUNT is  *)
(* overwritten before it is compared), the TLB operations, WAIT.           *)
Plain ==
    /\ Executed
    /\ UNCHANGED <<left, flowVars, status, cause, epc, timerVars, auxVars>>

(* J, JAL, JR, JALR and the branches that are taken. *)
Jump ==
    /\ Executed
    /\ nextPc' \in Targets
    /\ branchDelay' = TRUE
    /\ UNCHANGED <<left, pc, status, cause, epc, timerVars, auxVars>>

Vector == IF status.bev THEN BootVector ELSE GeneralVector

(* Mutant of Exception: EPC is saved however deep the core is. *)
ExceptionAlwaysSaves ==
    /\ epc' = pc
    /\ status' = [status EXCEPT !.exl = TRUE]
    /\ cause' = [cause EXCEPT !.bd = @ \/ branchDelay]
    /\ pc' = Vector /\ nextPc' = Succ(Vector)
    /\ branchDelay' = FALSE

(* exception: with EXL set the program counter goes to ERROREPC instead.   *)
Exception ==
    /\ epc' = IF status.exl THEN epc ELSE pc
    /\ status' = [status EXCEPT !.exl = TRUE]
    /\ cause' = [cause EXCEPT !.bd = @ \/ branchDelay]
    /\ pc' = Vector /\ nextPc' = Succ(Vector)
    /\ branchDelay' = FALSE

(* SYSCALL, BREAK and everything unknown. *)
Trap ==
    /\ Executed
    /\ Exception
    /\ resume' = IF status.exl THEN resume ELSE None
    /\ UNCHANGED <<left, timerVars, delivered>>

(* ERET: back to EPC, whose successor is fetched; EXL stays set. *)
Eret ==
    /\ Executed
    /\ pc' = epc /\ nextPc' = Succ(epc)
    /\ status' = [status EXCEPT !.erl = FALSE]
    /\ UNCHANGED <<left, branchDelay, cause, epc, timerVars, auxVars>>

(* MTC0 writes any value to any register. *)
Mtc0Status ==
    /\ Executed
    /\ status' \in StatusWrites
    /\ UNCHANGED <<left, flowVars, cause, epc, timerVars, auxVars>>

Mtc0Cause ==
    /\ Executed
    /\ cause' \in [ti : BOOLEAN, bd : BOOLEAN]
    /\ UNCHANGED <<left, flowVars, status, epc, timerVars, auxVars>>

Mtc0Epc ==
    /\ Executed
    /\ epc' \in Targets
    /\ resume' = None
    /\ UNCHANGED <<left, flowVars, status, cause, timerVars, delivered>>

Mtc0Compare ==
    /\ Executed
    /\ compare' \in Counts
    /\ UNCHANGED <<left, flowVars, status, cause, epc, cycles, auxVars>>

-----------------------------------------------------------------------------
(* check_interrupts *)

(* Mutant of Open: EXL is not looked at. *)
OpenIgnoresExl == status.ie /\ ~status.erl

Open == status.ie /\ ~status.exl /\ ~status.erl
Waiting == cause.ti /\ status.im

EndStep ==
    /\ stage = "check"
    /\ left' = left - 1
    /\ stage' = IF left = 1 THEN "count" ELSE "fetch"

(* The interrupt is taken after the instruction, whose address EPC gets.   *)
(* A branch that was taken and not yet followed is forgotten.              *)
TakeInterrupt ==
    /\ EndStep
    /\ Open /\ Waiting
    /\ Exception
    /\ delivered' = TRUE
    /\ resume' = IF nextPc = Succ(pc) THEN nextPc ELSE None
    /\ UNCHANGED timerVars

NoInterrupt ==
    /\ EndStep
    /\ ~(Open /\ Waiting)
    /\ delivered' = FALSE
    /\ UNCHANGED <<flowVars, status, cause, epc, timerVars, resume>>

(* Mutant of UpdateCount: COUNT has to meet COMPARE exactly. *)
UpdateCountExact ==
    /\ stage = "count"
    /\ cause' = [cause EXCEPT !.ti = @ \/ cycles \div 2 = compare]
    /\ stage' = "idle"
    /\ UNCHANGED <<left, flowVars, status, epc, timerVars, auxVars>>

(* The end of tick: COUNT is half the cycles. *)
UpdateCount ==
    /\ stage = "count"
    /\ cause' = [cause EXCEPT !.ti = @ \/ cycles \div 2 >= compare]
    /\ stage' = "idle"
    /\ UNCHANGED <<left, flowVars, status, epc, timerVars, auxVars>>

-----------------------------------------------------------------------------
Execute ==
    Plain \/ Jump \/ Trap \/ Eret
          \/ Mtc0Status \/ Mtc0Cause \/ Mtc0Epc \/ Mtc0Compare

Run ==
    \/ \E n \in 1 .. Batch : Tick(n)
    \/ Fetch
    \/ Execute
    \/ TakeInterrupt \/ NoInterrupt
    \/ UpdateCount

Next == Run \/ HostReset

Spec == Init /\ [][Next]_vars

(* The emulation loop keeps calling tick while the machine runs. *)
FairSpec == Spec /\ WF_vars(Run)

-----------------------------------------------------------------------------
TypeOK ==
    /\ stage \in {"idle", "fetch", "execute", "check", "count"}
    /\ left \in 0 .. Batch
    /\ stage \in {"fetch", "execute", "check"} => left > 0
    /\ pc \in Addr /\ nextPc \in Addr /\ branchDelay \in BOOLEAN
    /\ status \in Statuses
    /\ cause \in [ti : BOOLEAN, bd : BOOLEAN]
    /\ epc \in Addr
    /\ cycles \in 0 .. 2 * CountSize - 1
    /\ compare \in Counts
    /\ delivered \in BOOLEAN
    /\ resume \in Addr \union {None}

(* The core keeps the gate's promise: an interrupt is taken after an       *)
(* instruction if and only if IE is set, EXL and ERL are clear and a line  *)
(* that is not masked is up at that moment, and taking it closes the gate  *)
(* (check_interrupts, exception, and every instruction that writes STATUS  *)
(* or CAUSE).                                                              *)
Gate == INSTANCE InterruptGate
           WITH phase <- IF stage = "check" THEN "check" ELSE "run",
                open <- Open, waiting <- Waiting, delivered <- delivered

ImplementsGate == Gate!Spec

(* An interrupt that falls between two consecutive words is transparent:   *)
(* ERET goes on with the second, whatever exceptions the handler meets, as *)
(* long as the handler stays at exception level and leaves EPC alone       *)
(* (exception saves the instruction already executed, ERET skips it).      *)
EretResumes == [][Eret /\ resume # None => nextPc' = resume]_vars

(* COMPARE is met even though COUNT is looked at only between batches and  *)
(* jumps by up to half a batch: unless COMPARE is within a batch of the    *)
(* wrap of COUNT, the timer line goes up again and again (tick), however   *)
(* often software clears it, if the front end stops resetting the core.    *)
Reachable == {c \in Counts : 2 * (CountSize - c) >= Batch}

TimerRecurs ==
    <>[](compare \in Reachable) /\ <>[][~HostReset]_vars => []<>cause.ti

(* What exception tests for when it sets BD, and the VR series manual, say *)
(* of a branch: the instruction after it, its delay slot, is executed next.*)
DelaySlotRuns ==
    [][stage = "fetch" /\ branchDelay => pc' = Succ(pc)]_vars
=============================================================================
