---------------------------- MODULE R5000Proofs ----------------------------
(***************************************************************************)
(* What holds of the in-order core for every address space, batch size and *)
(* program: types, the promise of the interrupt gate, and the return from  *)
(* an interrupt.                                                           *)
(***************************************************************************)
EXTENDS R5000, TLAPS

LEMMA InRange ==
    ASSUME NEW R \in Nat \ {0}, NEW c \in Nat
    PROVE  c % R \in 0 .. R - 1
    OBVIOUS

LEMMA SuccType == \A a \in Addr : Succ(a) \in Addr
<1> SUFFICES ASSUME NEW a \in Addr PROVE Succ(a) \in Addr
    OBVIOUS
<1>1. AddrSize \in Nat \ {0} /\ a + 1 \in Nat
    BY SizeAssumption DEF Addr
<1> QED
    BY <1>1, InRange DEF Succ, Addr

(* What a saved return address is worth: EPC is the word before it. *)
Resumable == resume # None => resume = Succ(epc)

Inv == TypeOK /\ Resumable

-----------------------------------------------------------------------------
LEMMA VectorType == TypeOK => Vector \in Addr
    BY AddressAssumption DEF Vector

LEMMA InitInv == Init => Inv
<1> SUFFICES ASSUME Init PROVE Inv
    OBVIOUS
<1>1. 0 \in Addr /\ ResetVector \in Addr /\ Succ(ResetVector) \in Addr
    BY SuccType, SizeAssumption, AddressAssumption DEF Addr
<1>2. 0 \in 0 .. Batch /\ 0 \in 0 .. 2 * CountSize - 1 /\ 0 \in Counts
    BY SizeAssumption DEF Counts
<1>3. TypeOK
    BY <1>1, <1>2 DEF Init, TypeOK, ResetStatus, Statuses
<1>4. Resumable
    BY DEF Init, Resumable
<1> QED
    BY <1>3, <1>4 DEF Inv

(* An exception keeps the types, and EPC as long as EXL is set. *)
LEMMA ExceptionType ==
    ASSUME TypeOK, Exception
    PROVE  /\ epc' \in Addr /\ pc' \in Addr /\ nextPc' \in Addr
           /\ branchDelay' \in BOOLEAN
           /\ status' \in Statuses
           /\ cause' \in [ti : BOOLEAN, bd : BOOLEAN]
<1>1. epc' \in Addr /\ branchDelay' \in BOOLEAN
    BY DEF TypeOK, Exception
<1>2. pc' \in Addr /\ nextPc' \in Addr
    BY VectorType, SuccType DEF Exception
<1>3. status' \in Statuses
    BY DEF TypeOK, Exception, Statuses
<1>4. cause' \in [ti : BOOLEAN, bd : BOOLEAN]
    BY DEF TypeOK, Exception
<1> QED
    BY <1>1, <1>2, <1>3, <1>4

LEMMA EndStepType ==
    ASSUME TypeOK, EndStep
    PROVE  /\ stage' \in {"fetch", "count"}
           /\ left' \in 0 .. Batch
           /\ stage' = "fetch" => left' > 0
    BY SizeAssumption DEF TypeOK, EndStep

LEMMA ExecuteInv == Inv /\ Execute => Inv'
<1> SUFFICES ASSUME Inv, Execute PROVE Inv'
    OBVIOUS
<1> USE DEF Inv
<1>0. stage = "execute" /\ stage' = "check"
    BY DEF Execute, Executed, Plain, Jump, Trap, Eret, Mtc0Status, Mtc0Cause,
           Mtc0Epc, Mtc0Compare
<1>1. CASE Plain
    BY <1>0, <1>1 DEF Plain, TypeOK, Resumable, flowVars, timerVars, auxVars
<1>2. CASE Jump
  <2>1. nextPc' \in Addr
      BY <1>2, AddressAssumption DEF Jump
  <2> QED
      BY <1>0, <1>2, <2>1 DEF Jump, TypeOK, Resumable, timerVars, auxVars
<1>3. CASE Trap
  <2>1. Exception
      BY <1>3 DEF Trap
  <2>2. TypeOK'
    <3>1. resume' \in Addr \union {None}
        BY <1>3 DEF Trap, TypeOK
    <3> QED
        BY <1>0, <1>3, <2>1, <3>1, ExceptionType DEF Trap, TypeOK, timerVars
  <2>3. Resumable'
    <3>1. CASE status.exl
        BY <1>3, <2>1, <3>1 DEF Trap, Exception, Resumable
    <3>2. CASE ~status.exl
        BY <1>3, <3>2 DEF Trap, Resumable
    <3> QED
        BY <3>1, <3>2
  <2> QED
      BY <2>2, <2>3
<1>4. CASE Eret
  <2>1. pc' \in Addr /\ nextPc' \in Addr
      BY <1>4, SuccType DEF Eret, TypeOK
  <2>2. status' \in Statuses
      BY <1>4 DEF Eret, TypeOK, Statuses
  <2> QED
      BY <1>0, <1>4, <2>1, <2>2 DEF Eret, TypeOK, Resumable, timerVars, auxVars
<1>5. CASE Mtc0Status
  <2>1. status' \in Statuses
      BY <1>5, StatusAssumption DEF Mtc0Status
  <2> QED
      BY <1>0, <1>5, <2>1
      DEF Mtc0Status, TypeOK, Resumable, flowVars, timerVars, auxVars
<1>6. CASE Mtc0Cause
    BY <1>0, <1>6 DEF Mtc0Cause, TypeOK, Resumable, flowVars, timerVars, auxVars
<1>7. CASE Mtc0Epc
  <2>1. epc' \in Addr
      BY <1>7, AddressAssumption DEF Mtc0Epc
  <2> QED
      BY <1>0, <1>7, <2>1 DEF Mtc0Epc, TypeOK, Resumable, flowVars, timerVars
<1>8. CASE Mtc0Compare
    BY <1>0, <1>8 DEF Mtc0Compare, TypeOK, Resumable, flowVars, auxVars
<1> QED
    BY <1>1, <1>2, <1>3, <1>4, <1>5, <1>6, <1>7, <1>8 DEF Execute

LEMMA NextInv == Inv /\ [Next]_vars => Inv'
<1> SUFFICES ASSUME Inv, [Next]_vars PROVE Inv'
    OBVIOUS
<1> USE DEF Inv
<1>1. ASSUME NEW n \in 1 .. Batch, Tick(n) PROVE Inv'
  <2>1. n \in Nat /\ n \in 0 .. Batch /\ n > 0 /\ 2 * CountSize \in Nat \ {0}
      BY <1>1, SizeAssumption
  <2>2. cycles + n \in Nat
      BY <2>1, SizeAssumption DEF TypeOK
  <2>3. cycles' \in 0 .. 2 * CountSize - 1
      BY <1>1, <2>1, <2>2, InRange DEF Tick
  <2> QED
      BY <1>1, <2>1, <2>3 DEF Tick, TypeOK, Resumable, flowVars, auxVars
<1>2. CASE Fetch
  <2>1. pc' \in Addr /\ nextPc' \in Addr
      BY <1>2, SuccType DEF Fetch, TypeOK
  <2> QED
      BY <1>2, <2>1 DEF Fetch, TypeOK, Resumable, timerVars, auxVars
<1>3. CASE Execute
    BY <1>3, ExecuteInv
<1>4. CASE TakeInterrupt
  <2>1. EndStep /\ Exception /\ ~status.exl
      BY <1>4 DEF TakeInterrupt, Open
  <2>2. resume' \in Addr \union {None} /\ delivered' \in BOOLEAN
      BY <1>4 DEF TakeInterrupt, TypeOK
  <2>3. TypeOK'
      BY <1>4, <2>1, <2>2, ExceptionType, EndStepType
      DEF TakeInterrupt, TypeOK, timerVars
  <2>4. epc' = pc
      BY <2>1 DEF Exception
  <2>5. Resumable'
      BY <1>4, <2>4 DEF TakeInterrupt, Resumable
  <2> QED
      BY <2>3, <2>5
<1>5. CASE NoInterrupt
    BY <1>5, EndStepType DEF NoInterrupt, TypeOK, Resumable, flowVars, timerVars
<1>6. CASE UpdateCount
    BY <1>6 DEF UpdateCount, TypeOK, Resumable, flowVars, timerVars, auxVars
<1>7. CASE HostReset
  <2>1. 0 \in Addr /\ ResetVector \in Addr /\ Succ(ResetVector) \in Addr
      BY SuccType, SizeAssumption, AddressAssumption DEF Addr
  <2>2. 0 \in 0 .. 2 * CountSize - 1 /\ 0 \in Counts
      BY SizeAssumption DEF Counts
  <2> QED
      BY <1>7, <2>1, <2>2 DEF HostReset, TypeOK, Resumable, ResetStatus, Statuses
<1>8. CASE UNCHANGED vars
    BY <1>8 DEF vars, flowVars, timerVars, auxVars, TypeOK, Resumable
<1> QED
    BY <1>1, <1>2, <1>3, <1>4, <1>5, <1>6, <1>7, <1>8 DEF Next, Run

LEMMA Invariance == Spec => []Inv
    BY InitInv, NextInv, PTL DEF Spec

(* The variables of the core (reset, tick, exception, MTC0) keep their     *)
(* types; a batch that is running has instructions left.                   *)
THEOREM TypeCorrect == Spec => []TypeOK
<1>1. Inv => TypeOK
    BY DEF Inv
<1> QED
    BY <1>1, Invariance, PTL

-----------------------------------------------------------------------------
(* The return from an interrupt *)

LEMMA StepResumes == Inv => (Eret /\ resume # None => nextPc' = resume)
    BY DEF Inv, Resumable, Eret

(* ERET goes on with the word after the one the interrupt followed, for    *)
(* every handler that stays at exception level and leaves EPC alone        *)
(* (exception, execute_cop0).                                              *)
THEOREM InterruptReturns == Spec => EretResumes
<1>1. Inv /\ [Next]_vars => [Eret /\ resume # None => nextPc' = resume]_vars
    BY StepResumes
<1> QED
    BY <1>1, Invariance, PTL DEF Spec, EretResumes

-----------------------------------------------------------------------------
(* The interrupt gate *)

LEMMA InitRefines == Init => Gate!Init
    BY DEF Init, Gate!Init, ResetStatus, Open, Waiting

LEMMA NextRefines == Inv /\ [Next]_vars => [Gate!Next]_Gate!vars
<1> SUFFICES ASSUME Inv, [Next]_vars PROVE [Gate!Next]_Gate!vars
    OBVIOUS
<1> USE DEF Inv
<1>0. /\ Open \in BOOLEAN /\ Waiting \in BOOLEAN /\ delivered \in BOOLEAN
      /\ Open' \in BOOLEAN /\ Waiting' \in BOOLEAN
    BY NextInv DEF TypeOK, Open, Waiting, Statuses
<1>1. ASSUME NEW n \in 1 .. Batch, Tick(n) PROVE UNCHANGED Gate!vars
    BY <1>1 DEF Tick, Gate!vars, Open, Waiting, auxVars
<1>2. CASE Fetch
    BY <1>2 DEF Fetch, Gate!vars, Open, Waiting, auxVars
<1>3. CASE Execute
  <2>1. stage = "execute" /\ stage' = "check" /\ UNCHANGED delivered
      BY <1>3 DEF Execute, Executed, Plain, Jump, Trap, Eret, Mtc0Status, Mtc0Cause,
                  Mtc0Epc, Mtc0Compare, auxVars
  <2> QED
      BY <1>0, <2>1 DEF Gate!Next, Gate!Instruction
<1>4. CASE TakeInterrupt
  <2>1. /\ stage = "check" /\ stage' # "check"
        /\ Open /\ Waiting /\ delivered' = TRUE
      BY <1>4 DEF TakeInterrupt, EndStep
  <2>2. Exception
      BY <1>4 DEF TakeInterrupt
  <2>3. ~Open'
      BY <2>2 DEF Exception, Open, TypeOK, Statuses
  <2>4. Waiting' = Waiting
      BY <2>2 DEF Exception, Waiting, TypeOK, Statuses
  <2>5. Open' = FALSE
      BY <1>0, <2>3
  <2>6. Gate!Deliver
      BY <2>1, <2>4, <2>5 DEF Gate!Deliver
  <2> QED
      BY <2>6 DEF Gate!Next
<1>5. CASE NoInterrupt
  <2>1. /\ stage = "check" /\ stage' # "check"
        /\ ~(Open /\ Waiting) /\ delivered' = FALSE
        /\ UNCHANGED <<status, cause>>
      BY <1>5 DEF NoInterrupt, EndStep
  <2>2. UNCHANGED <<Open, Waiting>>
      BY <2>1 DEF Open, Waiting
  <2>3. Gate!Pass
      BY <2>1, <2>2 DEF Gate!Pass
  <2> QED
      BY <2>3 DEF Gate!Next
<1>6. CASE UpdateCount
  <2>1. /\ stage = "count" /\ stage' = "idle" /\ UNCHANGED <<status, delivered>>
        /\ cause.ti => cause'.ti
      BY <1>6 DEF UpdateCount, TypeOK, auxVars
  <2>2. UNCHANGED Open /\ (Waiting => Waiting')
      BY <2>1 DEF Open, Waiting
  <2>3. Waiting' = Waiting \/ Waiting' = TRUE
      BY <1>0, <2>2
  <2> QED
      BY <2>1, <2>2, <2>3 DEF Gate!Next, Gate!Raise, Gate!vars
<1>7. CASE HostReset
    BY <1>7 DEF HostReset, ResetStatus, Open, Waiting, Gate!Next, Gate!Reset
<1>8. CASE UNCHANGED vars
    BY <1>8 DEF vars, auxVars, Gate!vars, Open, Waiting
<1> QED
    BY <1>1, <1>2, <1>3, <1>4, <1>5, <1>6, <1>7, <1>8 DEF Next, Run

(* The core implements the interrupt gate (check_interrupts).              *)
THEOREM R5000ImplementsGate == Spec => ImplementsGate
    BY Invariance, InitRefines, NextRefines, PTL DEF Spec, ImplementsGate, Gate!Spec
=============================================================================
