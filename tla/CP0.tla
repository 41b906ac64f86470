--------------------------------- MODULE CP0 ---------------------------------
(***************************************************************************)
(* The system coprocessor as a class of its own (cpu/cp0.cpp). The cores   *)
(* keep their own registers; the adapters of the CPU factory hand this out *)
(* as a view. Registers that only hold what is written, the exception's    *)
(* code and the counter's width are left out.                              *)
(***************************************************************************)
CONSTANTS
    Pcs,    \* Addresses of instructions.
    ZeroPc  \* The address 0.

ASSUME PcsAssumption == ZeroPc \in Pcs

(* Bits of STATUS, and of CAUSE.IP: a software and the timer's interrupt. *)
StatusFlags == {"IE", "EXL", "ERL", "BEV"}
Lines == {"IP0", "IP7"}
Vectors == {"bootstrap", "normal"}

VARIABLES
    cpStatus,          \* regs_[STATUS]
    cpPending,         \* regs_[CAUSE], its bits IP
    cpEpc, cpErrorEpc, \* regs_[EPC], regs_[ERROREPC]
    cpPc,              \* pc of the state that is passed in.
    cpNamed            \* Auxiliary: the interrupts the last access named.

cpVars == <<cpStatus, cpPending, cpEpc, cpErrorEpc, cpPc, cpNamed>>

CP0TypeOK ==
    /\ cpStatus \subseteq StatusFlags
    /\ cpPending \subseteq Lines /\ cpNamed \subseteq Lines
    /\ cpEpc \in Pcs /\ cpErrorEpc \in Pcs \union Vectors
    /\ cpPc \in Pcs \union Vectors

-----------------------------------------------------------------------------
(* reset: STATUS gets bit 10, which is an interrupt's mask and not BEV. *)
CP0Init ==
    /\ cpStatus = {} /\ cpPending = {} /\ cpNamed = {}
    /\ cpEpc = ZeroPc /\ cpErrorEpc = ZeroPc
    /\ cpPc = ZeroPc

CP0Reset ==
    /\ cpStatus' = {} /\ cpPending' = {} /\ cpNamed' = Lines
    /\ cpEpc' = ZeroPc /\ cpErrorEpc' = ZeroPc
    /\ UNCHANGED cpPc

(* write, and the setters of single registers. *)
WriteStatus(flags) ==
    /\ cpStatus' = flags
    /\ cpNamed' = {}
    /\ UNCHANGED <<cpPending, cpEpc, cpErrorEpc, cpPc>>

WriteEpc(a) ==
    /\ \/ cpEpc' = a /\ UNCHANGED cpErrorEpc
       \/ cpErrorEpc' = a /\ UNCHANGED cpEpc
    /\ cpNamed' = {}
    /\ UNCHANGED <<cpStatus, cpPending, cpPc>>

(* Mutant of WriteCause: the whole register is replaced. *)
WriteCauseAll(lines) ==
    /\ cpPending' = lines
    /\ cpNamed' = {"IP0"}
    /\ UNCHANGED <<cpStatus, cpEpc, cpErrorEpc, cpPc>>

(* write of CAUSE: only the software interrupts can be written. *)
WriteCause(lines) ==
    /\ cpPending' = (cpPending \ {"IP0"}) \union (lines \intersect {"IP0"})
    /\ cpNamed' = {"IP0"}
    /\ UNCHANGED <<cpStatus, cpEpc, cpErrorEpc, cpPc>>

(* set_cause *)
SetCause(lines) ==
    /\ cpPending' = lines
    /\ cpNamed' = Lines
    /\ UNCHANGED <<cpStatus, cpEpc, cpErrorEpc, cpPc>>

(* tick: COUNT has reached COMPARE or not. A write of COMPARE does not     *)
(* take the interrupt back.                                                *)
TickCount ==
    /\ cpPending' \in {cpPending, cpPending \union {"IP7"}}
    /\ cpNamed' = {}
    /\ UNCHANGED <<cpStatus, cpEpc, cpErrorEpc, cpPc>>

(* exception: EXL is set before it is tested, so that EPC is never saved. *)
Exception ==
    /\ cpStatus' = cpStatus \union {"EXL"}
    /\ cpErrorEpc' = cpPc
    /\ cpPc' = IF "BEV" \in cpStatus THEN "bootstrap" ELSE "normal"
    /\ cpNamed' = {}
    /\ UNCHANGED <<cpPending, cpEpc>>

(* rfe *)
Rfe ==
    /\ cpStatus' = cpStatus \ {"EXL"}
    /\ cpNamed' = {}
    /\ UNCHANGED <<cpPending, cpEpc, cpErrorEpc, cpPc>>

(* eret *)
Eret ==
    /\ IF "ERL" \in cpStatus
       THEN cpPc' = cpErrorEpc /\ cpStatus' = cpStatus \ {"ERL"}
       ELSE cpPc' = cpEpc /\ cpStatus' = cpStatus \ {"EXL"}
    /\ cpNamed' = {}
    /\ UNCHANGED <<cpPending, cpEpc, cpErrorEpc>>

(* The owner of the state goes on to the next instruction. *)
Advance ==
    /\ cpPc' \in Pcs
    /\ cpNamed' = {}
    /\ UNCHANGED <<cpStatus, cpPending, cpEpc, cpErrorEpc>>

CP0Next ==
    \/ CP0Reset
    \/ \E flags \in SUBSET StatusFlags : WriteStatus(flags)
    \/ \E a \in Pcs : WriteEpc(a)
    \/ \E lines \in SUBSET Lines : WriteCause(lines) \/ SetCause(lines)
    \/ TickCount \/ Exception \/ Rfe \/ Eret \/ Advance

CP0Spec == CP0Init /\ [][CP0Next]_cpVars

-----------------------------------------------------------------------------
(* A pending interrupt stays until the software writes that very bit: a    *)
(* write of CAUSE for the software interrupts does not lose the timer's.   *)
CP0Latch ==
    INSTANCE InterruptLatch WITH
        Interrupts <- Lines, pending <- cpPending, named <- cpNamed
CP0Holds == CP0Latch!Spec
=============================================================================
