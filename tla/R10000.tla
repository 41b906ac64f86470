------------------------------- MODULE R10000 -------------------------------
(***************************************************************************)
(* The superscalar core MIPSR10000 (emu/src/cpu/mips_r10000.cpp), the CPU  *)
(* the front end builds by default.  tick runs the stages in reverse order *)
(* (flush if one is due, commit, writeback, execute, issue, decode, fetch, *)
(* then the interrupt check); here every turn of a stage's loop is a step, *)
(* and stage says which loop is running.                                   *)
(*                                                                         *)
(* Words in memory are chosen when they are fetched, from Words, with      *)
(* BusError for the value 0xFFFFFFFF the bus returns for an unmapped       *)
(* address.  An instruction is what renaming and issue look at: the field  *)
(* in the rd position, the sources, and the functional unit it asks for.   *)
(* Register values are left out: no executor is ever called.  So is the    *)
(* branch predictor, which is trained at commit and never redirects fetch. *)
(*                                                                         *)
(* The free list is a stack of registers; FreeList shows that the threaded *)
(* list of the source is one.                                              *)
(***************************************************************************)
EXTENDS Integers, Sequences, FiniteSets

CONSTANTS
    NumArch,     \* Architectural registers: 32 in the source.
    NumPhys,     \* NUM_PHYS_REGS: 128.
    RobSize,     \* ROB_SIZE: 64.
    IssueSize,   \* ISSUE_QUEUE_SIZE: 32.
    FetchSize,   \* FETCH_QUEUE_SIZE: 16.
    Width,       \* Instructions per cycle in fetch, issue and commit: 4.
    ALU1, ALU2,  \* The two integer units.
    OtherUnits,  \* MULT, LOAD, STORE, FPU1, FPU2, BRANCH.
    Words,       \* What memory can hold.
    BusError,    \* The bus-error word, if Words has it.
    HostActs     \* Whether the host resets the core and writes STATUS and CAUSE.

None == -1

Arch == 0 .. NumArch - 1
Phys == 0 .. NumPhys - 1
Renamable == NumArch .. NumPhys - 1
Slots == 0 .. RobSize - 1
Units == {ALU1, ALU2} \union OtherUnits

Instructions ==
    [rd : Arch, src : SUBSET (Arch \ {0}), unit : Units \ {ALU2}]

ASSUME SizeAssumption ==
    /\ {NumArch, NumPhys, RobSize, IssueSize, FetchSize, Width} \subseteq Nat \ {0}
    /\ NumArch < NumPhys
    /\ HostActs \in BOOLEAN

ASSUME UnitAssumption ==
    /\ ALU1 # ALU2 /\ {ALU1, ALU2} \intersect OtherUnits = {}
    /\ IsFiniteSet(OtherUnits)

ASSUME WordAssumption ==
    BusError \notin Instructions /\ Words \subseteq Instructions \union {BusError}

VARIABLES
    stage,    \* The loop tick is in, or "idle" between two cycles.
    turn,     \* Turns this loop has taken (fetched, issued, committed, i).
    scan,     \* The issue-queue index issue_stage looks at.
    from,     \* Where pc_ was last set: "reset", "ibe" or "int" vector.
    pc,       \* pc_, in instructions from there; next_pc_ is always pc + 1.
    fetchQ,   \* fetch_queue_: records [pc, word].
    issueQ,   \* issue_queue_: records [deps, unit], deps the awaited slots.
    rob,      \* rob_: [Slots -> [pc, dest, completed, exception]].
    robHead, robTail, robCount,
    map,      \* gpr_rename_map_: [Arch -> [phys, rob]].
    valid,    \* phys_gpr_valid_
    free,     \* The free list, the next register to hand out first.
    fu,       \* fu_status_: [Units -> [busy, rob]].
    flush,    \* flush_pipeline_ and flush_target_: a vector, or "none".
    status,   \* CP0 STATUS: [ie, im, exl, erl].
    cause,    \* CP0 CAUSE: [ti, exc].
    epc,      \* CP0 EPC: [from, pc].
    retired   \* Whether committed_count_ has left zero.

robVars == <<rob, robHead, robTail, robCount>>
renameVars == <<map, valid, free>>
fetchVars == <<from, pc, fetchQ>>
cp0Vars == <<flush, status, cause, epc>>
vars == <<stage, turn, scan, fetchVars, issueQ, robVars, renameVars, fu,
          cp0Vars, retired>>

-----------------------------------------------------------------------------
(* Initial values *)

EmptySlot == [pc |-> 0, dest |-> None,
              completed |-> FALSE, exception |-> FALSE]

EmptyRob == [i \in Slots |-> EmptySlot]

(* Each architectural register in the physical register of its number. *)
IdentityMap == [a \in Arch |-> [phys |-> a, rob |-> None]]

FreeUnit == [busy |-> FALSE, rob |-> None]

IdleUnits == [u \in Units |-> FreeUnit]

ResetValid == [p \in Phys |-> p < NumArch]

(* init_free_lists *)
FullList == [i \in 1 .. NumPhys - NumArch |-> NumArch + i - 1]

(* STATUS is 0x00400004: ERL set, interrupts off. *)
ResetStatus == [ie |-> FALSE, im |-> FALSE, exl |-> FALSE, erl |-> TRUE]
ResetCause == [ti |-> FALSE, exc |-> "INT"]
ResetEpc == [from |-> "reset", pc |-> 0]

(* MIPSR10000::reset, called by the constructor. *)
Init ==
    /\ stage = "idle" /\ turn = 0 /\ scan = 1
    /\ from = "reset" /\ pc = 0
    /\ fetchQ = << >> /\ issueQ = << >>
    /\ rob = EmptyRob /\ robHead = 0 /\ robTail = 0 /\ robCount = 0
    /\ map = IdentityMap
    /\ valid = ResetValid
    /\ free = FullList
    /\ fu = IdleUnits
    /\ flush = "none"
    /\ status = ResetStatus
    /\ cause = ResetCause
    /\ epc = ResetEpc
    /\ retired = FALSE

-----------------------------------------------------------------------------
Slot(j) == (robHead + j) % RobSize

Goto(s) == stage' = s /\ turn' = 0 /\ scan' = 1

(* handle_exception: EPC is the fetch pc, because branch_delay_ is never   *)
(* set.  The caller schedules the flush.                                   *)
RaiseException(code) ==
    /\ epc' = [from |-> from, pc |-> pc]
    /\ cause' = [cause EXCEPT !.exc = code]
    /\ status' = [status EXCEPT !.exl = TRUE]

(* tick, one cycle: a flush left by the previous cycle comes first. *)
StartCycle ==
    /\ stage = "idle"
    /\ Goto(IF flush = "none" THEN "commit" ELSE "flush")
    /\ UNCHANGED <<fetchVars, issueQ, robVars, renameVars, fu, cp0Vars, retired>>

-----------------------------------------------------------------------------
(* flush_pipeline *)

(* Mutant of FlushEntry: free_phys_gpr without its range check. *)
FlushEntryUnchecked ==
    /\ stage = "flush" /\ turn < robCount
    /\ free' = <<rob[Slot(turn)].dest>> \o free
    /\ turn' = turn + 1
    /\ UNCHANGED <<stage, scan, fetchVars, issueQ, robVars, map, valid, fu, cp0Vars, retired>>

(* Mutant of FlushEntry: only entries that have completed give back. *)
FlushEntryCompletedOnly ==
    /\ stage = "flush" /\ turn < robCount
    /\ LET e == rob[Slot(turn)] IN
       IF e.completed /\ e.dest \in Renamable
       THEN free' = <<e.dest>> \o free /\ valid' = [valid EXCEPT ![e.dest] = FALSE]
       ELSE UNCHANGED <<free, valid>>
    /\ turn' = turn + 1
    /\ UNCHANGED <<stage, scan, fetchVars, issueQ, robVars, map, fu, cp0Vars, retired>>

(* free_phys_gpr for the next of the rob_count_ entries from the head. *)
FlushEntry ==
    /\ stage = "flush" /\ turn < robCount
    /\ LET p == rob[Slot(turn)].dest IN
       IF p \in Renamable
       THEN free' = <<p>> \o free /\ valid' = [valid EXCEPT ![p] = FALSE]
       ELSE UNCHANGED <<free, valid>>
    /\ turn' = turn + 1
    /\ UNCHANGED <<stage, scan, fetchVars, issueQ, robVars, map, fu, cp0Vars, retired>>

(* Mutant of FlushEnd: the rename map survives. *)
FlushEndKeepsMap ==
    /\ stage = "flush" /\ turn = robCount
    /\ fetchQ' = << >> /\ issueQ' = << >>
    /\ rob' = EmptyRob /\ robHead' = 0 /\ robTail' = 0 /\ robCount' = 0
    /\ fu' = IdleUnits
    /\ from' = flush /\ pc' = 0
    /\ flush' = "none"
    /\ Goto("commit")
    /\ UNCHANGED <<map, valid, free, status, cause, epc, retired>>

(* Mutant of FlushEnd: the functional units stay busy. *)
FlushEndKeepsUnits ==
    /\ stage = "flush" /\ turn = robCount
    /\ fetchQ' = << >> /\ issueQ' = << >>
    /\ rob' = EmptyRob /\ robHead' = 0 /\ robTail' = 0 /\ robCount' = 0
    /\ map' = IdentityMap
    /\ from' = flush /\ pc' = 0
    /\ flush' = "none"
    /\ Goto("commit")
    /\ UNCHANGED <<fu, valid, free, status, cause, epc, retired>>

FlushEnd ==
    /\ stage = "flush" /\ turn = robCount
    /\ fetchQ' = << >> /\ issueQ' = << >>
    /\ rob' = EmptyRob /\ robHead' = 0 /\ robTail' = 0 /\ robCount' = 0
    /\ map' = IdentityMap
    /\ fu' = IdleUnits
    /\ from' = flush /\ pc' = 0
    /\ flush' = "none"
    /\ Goto("commit")
    /\ UNCHANGED <<valid, free, status, cause, epc, retired>>

-----------------------------------------------------------------------------
(* commit_stage *)

CommitStop ==
    /\ stage = "commit"
    /\ \/ robCount = 0
       \/ turn = Width
       \/ ~rob[robHead].completed
    /\ Goto("writeback")
    /\ UNCHANGED <<fetchVars, issueQ, robVars, renameVars, fu, cp0Vars, retired>>

(* Mutant of CommitHead: the exception does not schedule a flush. *)
CommitHeadNoFlush ==
    /\ stage = "commit" /\ robCount > 0 /\ turn < Width
    /\ rob[robHead].completed
    /\ RaiseException("IBE")
    /\ Goto("writeback")
    /\ UNCHANGED <<fetchVars, issueQ, robVars, renameVars, fu, flush, retired>>

(* The oldest entry is complete.  An exception leaves it in place, and the *)
(* target 0x80000000 | (code << 2) replaces the one handle_exception chose;*)
(* any other entry retires.  Its old physical register is not freed.       *)
CommitHead ==
    /\ stage = "commit" /\ robCount > 0 /\ turn < Width
    /\ rob[robHead].completed
    /\ IF rob[robHead].exception
       THEN /\ RaiseException("IBE")
            /\ flush' = "ibe"
            /\ Goto("writeback")
            /\ UNCHANGED <<robHead, robCount, retired>>
       ELSE /\ robHead' = (robHead + 1) % RobSize
            /\ robCount' = robCount - 1
            /\ retired' = TRUE
            /\ turn' = turn + 1
            /\ UNCHANGED <<stage, scan, cp0Vars>>
    /\ UNCHANGED <<fetchVars, issueQ, rob, robTail, renameVars, fu>>

(* writeback_stage: every slot of the ring, in the window or not. *)
Writeback ==
    /\ stage = "writeback"
    /\ valid' = [p \in Phys |->
                    valid[p] \/ \E i \in Slots :
                                   /\ rob[i].completed
                                   /\ ~rob[i].exception
                                   /\ rob[i].dest = p]
    /\ Goto("execute")
    /\ UNCHANGED <<fetchVars, issueQ, robVars, map, free, fu, cp0Vars, retired>>

(* execute_stage: a busy unit that knows its slot completes it. *)
Execute ==
    /\ stage = "execute"
    /\ LET done == {u \in Units : fu[u].busy /\ fu[u].rob # None} IN
       /\ rob' = [i \in Slots |->
                    [rob[i] EXCEPT !.completed =
                        @ \/ \E u \in done : fu[u].rob = i]]
       /\ fu' = [u \in Units |-> IF u \in done THEN FreeUnit ELSE fu[u]]
    /\ Goto("issue")
    /\ UNCHANGED <<fetchVars, issueQ, robHead, robTail, robCount, renameVars,
                   cp0Vars, retired>>

-----------------------------------------------------------------------------
(* issue_stage *)

(* Mutant of StillAwaited: the oldest entry is taken to be done. *)
StillAwaitedHeadDone(deps) ==
    {d \in deps \ {robHead} : d = None \/ ~rob[d].completed}

(* The slots this entry still waits for; -1 is never completed. *)
StillAwaited(deps) == {d \in deps : d = None \/ ~rob[d].completed}

(* allocate_fu: the unit the opcode asks for, ALU2 standing in for ALU1.   *)
Candidates(unit) ==
    LET choices == IF unit = ALU1 THEN {ALU1, ALU2} ELSE {unit} IN
    {u \in choices : ~fu[u].busy /\ (u = ALU2 => fu[ALU1].busy)}

RemoveAt(s, i) == SubSeq(s, 1, i - 1) \o SubSeq(s, i + 1, Len(s))

Ready(e) == StillAwaited(e.deps) = {} /\ Candidates(e.unit) # {}

(* The unit is marked {busy, rob_index -1}: the slot is not recorded. *)
IssueEntry ==
    /\ stage = "issue" /\ scan <= Len(issueQ) /\ turn < Width
    /\ Ready(issueQ[scan])
    /\ \E u \in Candidates(issueQ[scan].unit) :
          fu' = [fu EXCEPT ![u] = [busy |-> TRUE, rob |-> None]]
    /\ issueQ' = RemoveAt(issueQ, scan)
    /\ turn' = turn + 1
    /\ UNCHANGED <<stage, scan, fetchVars, robVars, renameVars, cp0Vars, retired>>

(* An operand or the unit is missing; a completed producer is remembered. *)
IssueSkip ==
    /\ stage = "issue" /\ scan <= Len(issueQ) /\ turn < Width
    /\ ~Ready(issueQ[scan])
    /\ issueQ' = [issueQ EXCEPT ![scan].deps = StillAwaited(@)]
    /\ scan' = scan + 1
    /\ UNCHANGED <<stage, turn, fetchVars, robVars, renameVars, fu, cp0Vars, retired>>

IssueStop ==
    /\ stage = "issue"
    /\ scan > Len(issueQ) \/ turn = Width
    /\ Goto("decode")
    /\ UNCHANGED <<fetchVars, issueQ, robVars, renameVars, fu, cp0Vars, retired>>

-----------------------------------------------------------------------------
(* decode_stage *)

DecodeHasWork == fetchQ # << >> /\ Len(issueQ) < IssueSize

DecodeStop ==
    /\ stage = "decode"
    /\ ~DecodeHasWork
    /\ Goto("fetch")
    /\ UNCHANGED <<fetchVars, issueQ, robVars, renameVars, fu, cp0Vars, retired>>

AppendRob(entry) ==
    /\ rob' = [rob EXCEPT ![robTail] = entry]
    /\ robTail' = (robTail + 1) % RobSize
    /\ robCount' = robCount + 1
    /\ UNCHANGED robHead

(* Mutant of DecodeBusError: the slot keeps the register it held. *)
DecodeBusErrorKeepsDest ==
    /\ stage = "decode" /\ DecodeHasWork
    /\ Head(fetchQ).word = BusError
    /\ AppendRob([pc |-> Head(fetchQ).pc, dest |-> rob[robTail].dest,
                  completed |-> TRUE, exception |-> TRUE])
    /\ fetchQ' = Tail(fetchQ)
    /\ UNCHANGED <<stage, turn, scan, from, pc, issueQ, renameVars, fu, cp0Vars, retired>>

(* Mutant of DecodeBusError: the entry waits to be completed. *)
DecodeBusErrorIncomplete ==
    /\ stage = "decode" /\ DecodeHasWork
    /\ Head(fetchQ).word = BusError
    /\ AppendRob([pc |-> Head(fetchQ).pc, dest |-> None,
                  completed |-> FALSE, exception |-> TRUE])
    /\ fetchQ' = Tail(fetchQ)
    /\ UNCHANGED <<stage, turn, scan, from, pc, issueQ, renameVars, fu, cp0Vars, retired>>

(* A fetch error is appended complete, whether or not the ring has room. *)
DecodeBusError ==
    /\ stage = "decode" /\ DecodeHasWork
    /\ Head(fetchQ).word = BusError
    /\ AppendRob([pc |-> Head(fetchQ).pc, dest |-> None,
                  completed |-> TRUE, exception |-> TRUE])
    /\ fetchQ' = Tail(fetchQ)
    /\ UNCHANGED <<stage, turn, scan, from, pc, issueQ, renameVars, fu, cp0Vars, retired>>

(* allocate_phys_gpr *)
Allocated == IF free = << >> THEN None ELSE Head(free)

(* phys_gpr_valid_ at -1, the byte before the array, which is never set. *)
IsValid(p) == p # None /\ valid[p]

(* The slots an instruction waits for: rename_registers, sources. *)
Awaited(ins) == {map[s].rob : s \in {s \in ins.src : ~IsValid(map[s].phys)}}

(* rename_registers, destination: instructions with rd = 0 take none. *)
RenameDest(ins) ==
    IF ins.rd = 0
    THEN UNCHANGED renameVars
    ELSE /\ map' = [map EXCEPT ![ins.rd] = [phys |-> Allocated, rob |-> robTail]]
         /\ free' = IF free = << >> THEN free ELSE Tail(free)
         /\ valid' = [p \in Phys |-> valid[p] /\ p # Allocated]

DecodeInstruction ==
    /\ stage = "decode" /\ DecodeHasWork
    /\ Head(fetchQ).word # BusError
    /\ robCount < RobSize
    /\ LET ins == Head(fetchQ).word IN
       /\ RenameDest(ins)
       /\ AppendRob([pc |-> Head(fetchQ).pc,
                     dest |-> IF ins.rd = 0 THEN None ELSE Allocated,
                     completed |-> FALSE, exception |-> FALSE])
       /\ issueQ' = Append(issueQ, [deps |-> Awaited(ins), unit |-> ins.unit])
    /\ fetchQ' = Tail(fetchQ)
    /\ UNCHANGED <<stage, turn, scan, from, pc, fu, cp0Vars, retired>>

(* Mutant of DecodeStall: the stalled instruction is not put back. *)
DecodeStallDrops ==
    /\ stage = "decode" /\ DecodeHasWork
    /\ Head(fetchQ).word # BusError
    /\ robCount >= RobSize
    /\ RenameDest(Head(fetchQ).word)
    /\ fetchQ' = Tail(fetchQ)
    /\ Goto("fetch")
    /\ UNCHANGED <<from, pc, issueQ, robVars, fu, cp0Vars, retired>>

(* No slot: the instruction goes back to the fetch queue, but its renaming *)
(* stands, and the register it took is on no list.                         *)
DecodeStall ==
    /\ stage = "decode" /\ DecodeHasWork
    /\ Head(fetchQ).word # BusError
    /\ robCount >= RobSize
    /\ RenameDest(Head(fetchQ).word)
    /\ Goto("fetch")
    /\ UNCHANGED <<fetchVars, issueQ, robVars, fu, cp0Vars, retired>>

-----------------------------------------------------------------------------
(* fetch_stage *)

FetchHasRoom == turn < Width /\ Len(fetchQ) < FetchSize

Fetch ==
    /\ stage = "fetch" /\ FetchHasRoom
    /\ \E w \in Words : fetchQ' = Append(fetchQ, [pc |-> pc, word |-> w])
    /\ pc' = pc + 1
    /\ turn' = turn + 1
    /\ UNCHANGED <<stage, scan, from, issueQ, robVars, renameVars, fu, cp0Vars, retired>>

FetchStop ==
    /\ stage = "fetch" /\ ~FetchHasRoom
    /\ Goto("interrupts")
    /\ UNCHANGED <<fetchVars, issueQ, robVars, renameVars, fu, cp0Vars, retired>>

(* Mutant of EndCycle: check_interrupts does not look at EXL. *)
EndCycleIgnoresExl ==
    /\ stage = "interrupts"
    /\ \E due \in IF HostActs THEN BOOLEAN ELSE {TRUE} :
          LET ti == cause.ti \/ due IN
          IF ti /\ status.im /\ status.ie /\ ~status.erl
          THEN /\ epc' = [from |-> from, pc |-> pc]
               /\ cause' = [ti |-> ti, exc |-> "INT"]
               /\ status' = [status EXCEPT !.exl = TRUE]
               /\ flush' = "int"
          ELSE /\ cause' = [cause EXCEPT !.ti = ti]
               /\ UNCHANGED <<epc, status, flush>>
    /\ Goto("idle")
    /\ UNCHANGED <<fetchVars, issueQ, robVars, renameVars, fu, retired>>

(* The end of a cycle: COUNT reaching COMPARE sets CAUSE_TI, which stays.  *)
(* Both registers are 0 after a reset, so only a host that wrote them sees *)
(* COUNT below COMPARE.  Then check_interrupts.                            *)
EndCycle ==
    /\ stage = "interrupts"
    /\ \E due \in IF HostActs THEN BOOLEAN ELSE {TRUE} :
          LET ti == cause.ti \/ due IN
          IF ti /\ status.im /\ status.ie /\ ~status.exl /\ ~status.erl
          THEN /\ epc' = [from |-> from, pc |-> pc]
               /\ cause' = [ti |-> ti, exc |-> "INT"]
               /\ status' = [status EXCEPT !.exl = TRUE]
               /\ flush' = "int"
          ELSE /\ cause' = [cause EXCEPT !.ti = ti]
               /\ UNCHANGED <<epc, status, flush>>
    /\ Goto("idle")
    /\ UNCHANGED <<fetchVars, issueQ, robVars, renameVars, fu, retired>>

-----------------------------------------------------------------------------
(* The host, between two calls of tick *)

(* set_cp0_reg for STATUS and CAUSE: values that open the interrupt gate   *)
(* or close it without EXL, and that clear or keep the pending bit.        *)
HostWriteCp0 ==
    /\ HostActs /\ stage = "idle"
    /\ \E on, ti \in BOOLEAN :
          /\ status' = [ie |-> on, im |-> on, exl |-> FALSE, erl |-> FALSE]
          /\ cause' = [cause EXCEPT !.ti = ti]
    /\ UNCHANGED <<stage, turn, scan, fetchVars, issueQ, robVars, renameVars, fu,
                   flush, epc, retired>>

(* reset from the front end. *)
HostReset ==
    /\ HostActs /\ stage = "idle"
    /\ Goto("idle")
    /\ from' = "reset" /\ pc' = 0
    /\ fetchQ' = << >> /\ issueQ' = << >>
    /\ rob' = EmptyRob /\ robHead' = 0 /\ robTail' = 0 /\ robCount' = 0
    /\ map' = IdentityMap
    /\ valid' = ResetValid
    /\ free' = FullList
    /\ fu' = IdleUnits
    /\ flush' = "none"
    /\ status' = ResetStatus
    /\ cause' = ResetCause
    /\ epc' = ResetEpc
    /\ retired' = FALSE

-----------------------------------------------------------------------------
Cycle ==
    \/ StartCycle
    \/ FlushEntry \/ FlushEnd
    \/ CommitStop \/ CommitHead
    \/ Writeback
    \/ Execute
    \/ IssueEntry \/ IssueSkip \/ IssueStop
    \/ DecodeStop \/ DecodeBusError \/ DecodeInstruction \/ DecodeStall
    \/ Fetch \/ FetchStop
    \/ EndCycle

Next == Cycle \/ HostWriteCp0 \/ HostReset

Spec == Init /\ [][Next]_vars

(* The emulation loop keeps calling tick while the machine runs. *)
FairSpec == Spec /\ WF_vars(Cycle)

-----------------------------------------------------------------------------
Contents(s) == {s[i] : i \in DOMAIN s}

Stages == {"idle", "flush", "commit", "writeback", "execute", "issue",
           "decode", "fetch", "interrupts"}

TypeOK ==
    /\ stage \in Stages
    /\ turn \in Nat /\ scan \in Nat \ {0}
    /\ from \in {"reset", "ibe", "int"} /\ pc \in Nat
    /\ fetchQ \in Seq([pc : Nat, word : Words])
    /\ issueQ \in Seq([deps : SUBSET (Slots \union {None}), unit : Units \ {ALU2}])
    /\ rob \in [Slots -> [pc : Nat, dest : Renamable \union {None},
                          completed : BOOLEAN, exception : BOOLEAN]]
    /\ robHead \in Slots /\ robTail \in Slots /\ robCount \in Nat
    /\ map \in [Arch -> [phys : Phys \union {None}, rob : Slots \union {None}]]
    /\ valid \in [Phys -> BOOLEAN]
    /\ free \in Seq(Renamable)
    /\ fu \in [Units -> [busy : BOOLEAN, rob : Slots \union {None}]]
    /\ flush \in {"none", "ibe", "int"}
    /\ status \in [ie : BOOLEAN, im : BOOLEAN, exl : BOOLEAN, erl : BOOLEAN]
    /\ cause \in [ti : BOOLEAN, exc : {"INT", "IBE"}]
    /\ epc \in [from : {"reset", "ibe", "int"}, pc : Nat]
    /\ retired \in BOOLEAN

(* The slots whose register flush_pipeline has yet to give back: in the    *)
(* middle of a flush, those it has not passed.                             *)
Unreleased(i) == stage = "flush" => \E j \in turn .. robCount - 1 : Slot(j) = i

(* A physical register is in at most one place: once on the free list, or  *)
(* in one slot of the ring.  The ring can hold more than ROB_SIZE entries, *)
(* flush_pipeline then visits some slots twice, and free_phys_gpr does not *)
(* notice a register it already has: the list would become a cycle and two *)
(* instructions would share a register (flush_pipeline, rename_registers). *)
HeldOnce ==
    /\ \A i, j \in DOMAIN free : free[i] = free[j] => i = j
    /\ \A i \in Slots :
          rob[i].dest # None /\ Unreleased(i) => rob[i].dest \notin Contents(free)
    /\ \A i, j \in Slots :
          rob[i].dest = rob[j].dest /\ rob[i].dest # None => i = j

(* The entries of the ring that have not been overwritten, and then the    *)
(* fetch queue, are the instructions up to pc in program order, none lost, *)
(* none twice: the un-pop of a stalled instruction, the wrap of the ring   *)
(* and the entries appended past its capacity included.                    *)
InOrder ==
    LET oldest == pc - Len(fetchQ) - robCount
        first == IF robCount > RobSize THEN robCount - RobSize ELSE 0
    IN  /\ \A j \in first .. robCount - 1 : rob[Slot(j)].pc = oldest + j
        /\ \A k \in DOMAIN fetchQ : fetchQ[k].pc = oldest + robCount + k - 1

(* Every entry of the ring that has not completed is waiting in the issue  *)
(* queue or occupies a functional unit, and nothing else does (issue_stage *)
(* shifting the queue, flush_pipeline clearing all three).                 *)
WorkAccounted ==
    robCount <= RobSize =>
        Cardinality({j \in 0 .. robCount - 1 : ~rob[Slot(j)].completed})
            = Len(issueQ) + Cardinality({u \in Units : fu[u].busy})

(* Until the ring has been full, an architectural register that is renamed *)
(* points to a slot of the window, which names the same physical register  *)
(* (rename_registers, decode_stage, flush_pipeline).                       *)
MapAgreesWithRob ==
    robCount < RobSize =>
        \A a \in Arch : map[a].rob # None =>
            /\ \E j \in 0 .. robCount - 1 : Slot(j) = map[a].rob
            /\ rob[map[a].rob].dest = map[a].phys

(* decode_stage appends fetch errors to a full ring, but not for long: the *)
(* first one lands on the oldest entry, which commit_stage then takes for  *)
(* an exception, and the flush comes one cycle later.                      *)
RobBound == robCount <= RobSize + FetchSize + Width

(* The renamable registers that are on no list and in no slot. *)
Lost == Renamable \ (Contents(free) \union {rob[i].dest : i \in Slots})

(* A register is lost only by a decode that finds the ring full: taken by  *)
(* an instruction that then stalls, or overwritten with its slot.          *)
LostOnlyWhenFull == [][~(Lost' \subseteq Lost) => robCount >= RobSize]_vars

(* The handler a pending flush will enter is never exchanged for another:  *)
(* an interrupt does not override the exception of the same cycle          *)
(* (commit_stage, check_interrupts).                                       *)
FlushTargetKept == [][flush # "none" => flush' \in {flush, "none"}]_vars

(* An instruction that was waiting for a producer leaves the issue queue   *)
(* only in a cycle that is about to be flushed: its producer's slot is     *)
(* complete only because a fetch error has overwritten it (issue_stage     *)
(* looks at the slot by its index).                                        *)
StaleIssueIsFlushed ==
    [][/\ stage = "issue" /\ Len(issueQ') < Len(issueQ)
       /\ issueQ[scan].deps # {}
       => flush # "none"]_vars

(* A ring past its capacity is emptied again. *)
OverflowRecovers == robCount > RobSize ~> robCount = 0

(* ROADMAP.md and the header say the core runs programs: some instruction  *)
(* eventually commits.                                                     *)
SomethingRetires == <>retired

(* allocate_phys_gpr returning -1 "Should not happen with 128 registers".  *)
RenameNeverFails == \A a \in Arch : map[a].phys # None
=============================================================================
