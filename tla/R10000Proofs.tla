---------------------------- MODULE R10000Proofs ----------------------------
(***************************************************************************)
(* What holds of the superscalar core for every size of its tables and     *)
(* every program.  IInv is enough for the types, for a physical register   *)
(* never being in two places, for no instruction ever retiring and, with   *)
(* Counted, for the balance of the work; SInv adds what bounds the ring,   *)
(* keeps program order, and gives back what a flush passes.                *)
(***************************************************************************)
EXTENDS R10000, SequenceTheorems, FiniteSetTheorems, TLAPS

USE DEF None

(* No unit knows its slot, so only fetch errors are ever complete, so the  *)
(* head of the ring never moves.                                           *)
Stuck ==
    /\ \A u \in Units : fu[u].rob = None
    /\ \A i \in Slots : rob[i].completed => rob[i].exception
    /\ robHead = 0
    /\ robCount < RobSize => robTail = robCount
    /\ RobSize <= robCount /\ robCount < 2 * RobSize => robTail = robCount - RobSize
    /\ ~retired
    /\ stage = "flush" => flush # "none"

(* A slot that names a register has not been overwritten since its entry   *)
(* was appended: it is visited once by a flush.                            *)
Ownership ==
    /\ \A i, j \in DOMAIN free : free[i] = free[j] => i = j
    /\ \A i \in Slots : rob[i].dest # None => i < robCount /\ robCount <= i + RobSize
    /\ \A i \in Slots :
          rob[i].dest # None /\ (stage = "flush" => turn <= i)
             => rob[i].dest \notin Contents(free)
    /\ \A i, j \in Slots :
          rob[i].dest = rob[j].dest /\ rob[i].dest # None => i = j

IInv == TypeOK /\ Stuck /\ Ownership

-----------------------------------------------------------------------------
(* Sequences and modular arithmetic *)

LEMMA WrapsOnce ==
    ASSUME NEW R \in Nat \ {0}, NEW i \in 0 .. R - 1
    PROVE  i % R = i /\ (i + R) % R = i
<1>1. i % R = i
    OBVIOUS
<1>2. (i + R) % R = i
    OBVIOUS
<1> QED
    BY <1>1, <1>2

LEMMA InRing ==
    ASSUME NEW R \in Nat \ {0}, NEW c \in Nat
    PROVE  c % R \in 0 .. R - 1
    OBVIOUS

LEMMA PushDistinct ==
    ASSUME NEW S, NEW s \in Seq(S), NEW e \in S, e \notin Contents(s),
           \A i, j \in DOMAIN s : s[i] = s[j] => i = j
    PROVE  /\ <<e>> \o s \in Seq(S)
           /\ Contents(<<e>> \o s) = Contents(s) \union {e}
           /\ \A i, j \in DOMAIN (<<e>> \o s) : (<<e>> \o s)[i] = (<<e>> \o s)[j] => i = j
<1> DEFINE t == <<e>> \o s
<1>1. /\ t \in Seq(S)
      /\ Len(s) \in Nat
      /\ DOMAIN s = 1 .. Len(s)
      /\ DOMAIN t = 1 .. Len(s) + 1
      /\ t[1] = e
      /\ \A i \in 2 .. Len(s) + 1 : t[i] = s[i - 1]
    OBVIOUS
<1> HIDE DEF t
<1>2. \A i \in 2 .. Len(s) + 1 : i - 1 \in DOMAIN s /\ t[i] \in Contents(s)
    BY <1>1 DEF Contents
<1>3. Contents(t) = Contents(s) \union {e}
  <2>1. ASSUME NEW i \in DOMAIN s PROVE s[i] \in Contents(t)
    <3>1. i + 1 \in 2 .. Len(s) + 1 /\ i + 1 - 1 = i
        BY <1>1
    <3>2. t[i + 1] = s[i]
        BY <1>1, <3>1
    <3> QED
        BY <1>1, <3>1, <3>2 DEF Contents
  <2>2. e \in Contents(t)
    BY <1>1 DEF Contents
  <2>3. Contents(s) \union {e} \subseteq Contents(t)
    BY <2>1, <2>2 DEF Contents
  <2>4. ASSUME NEW i \in DOMAIN t PROVE t[i] \in Contents(s) \union {e}
    BY <1>1, <1>2
  <2>5. Contents(t) \subseteq Contents(s) \union {e}
    BY <2>4 DEF Contents
  <2> QED
    BY <2>3, <2>5
<1>4. ASSUME NEW i \in DOMAIN t, NEW j \in DOMAIN t, t[i] = t[j] PROVE i = j
  <2>1. CASE i = 1 \/ j = 1
    BY <1>1, <1>2, <1>4, <2>1
  <2>2. CASE i # 1 /\ j # 1
    <3>1. i \in 2 .. Len(s) + 1 /\ j \in 2 .. Len(s) + 1
        BY <1>1, <2>2
    <3>2. s[i - 1] = s[j - 1] /\ i - 1 \in DOMAIN s /\ j - 1 \in DOMAIN s
        BY <1>1, <1>2, <1>4, <3>1
    <3>3. i - 1 = j - 1
        BY <3>2
    <3> QED
        BY <3>1, <3>3
  <2> QED
    BY <2>1, <2>2
<1> QED
    BY <1>1, <1>3, <1>4 DEF t

LEMMA PopDistinct ==
    ASSUME NEW S, NEW s \in Seq(S), s # << >>,
           \A i, j \in DOMAIN s : s[i] = s[j] => i = j
    PROVE  /\ Head(s) \in S
           /\ Tail(s) \in Seq(S)
           /\ Contents(Tail(s)) \subseteq Contents(s)
           /\ Head(s) \notin Contents(Tail(s))
           /\ Head(s) \in Contents(s)
           /\ \A i, j \in DOMAIN Tail(s) : Tail(s)[i] = Tail(s)[j] => i = j
<1> DEFINE t == Tail(s)
<1>1. /\ t \in Seq(S)
      /\ Len(s) \in Nat \ {0}
      /\ DOMAIN s = 1 .. Len(s)
      /\ DOMAIN t = 1 .. Len(s) - 1
      /\ Head(s) = s[1]
      /\ s[1] \in S
      /\ \A i \in 1 .. Len(s) - 1 : t[i] = s[i + 1]
    OBVIOUS
<1> HIDE DEF t
<1>2. \A i \in DOMAIN t : i + 1 \in DOMAIN s /\ i + 1 # 1 /\ t[i] = s[i + 1]
    BY <1>1
<1>3. Contents(t) \subseteq Contents(s)
    BY <1>2 DEF Contents
<1>4. s[1] \notin Contents(t) /\ s[1] \in Contents(s)
    BY <1>1, <1>2 DEF Contents
<1>5. ASSUME NEW i \in DOMAIN t, NEW j \in DOMAIN t, t[i] = t[j] PROVE i = j
  <2>1. i + 1 = j + 1
    BY <1>2, <1>5
  <2> QED
    BY <1>1, <2>1
<1> QED
    BY <1>1, <1>3, <1>4, <1>5 DEF t

LEMMA RemoveAtType ==
    ASSUME NEW S, NEW s \in Seq(S), NEW i \in 1 .. Len(s)
    PROVE  RemoveAt(s, i) \in Seq(S)
<1>1. Len(s) \in Nat /\ \A k \in 1 .. Len(s) : s[k] \in S
    BY LenProperties, ElementOfSeq
<1>2. SubSeq(s, 1, i - 1) \in Seq(S)
    BY <1>1, SubSeqProperties
<1>3. SubSeq(s, i + 1, Len(s)) \in Seq(S)
    BY <1>1, SubSeqProperties
<1> QED
    BY <1>2, <1>3, ConcatProperties DEF RemoveAt

-----------------------------------------------------------------------------
(* Initial state *)

LEMMA Sizes ==
    /\ NumArch \in Nat \ {0} /\ NumPhys \in Nat \ {0} /\ NumArch < NumPhys
    /\ RobSize \in Nat \ {0}
    /\ Renamable \subseteq Phys /\ Arch \subseteq Phys
    /\ 0 \in Slots /\ None \notin Phys /\ None \notin Slots
    BY SizeAssumption DEF Renamable, Phys, Arch, Slots

LEMMA FullListSound ==
    /\ FullList \in Seq(Renamable)
    /\ \A i, j \in DOMAIN FullList : FullList[i] = FullList[j] => i = j
<1>1. \A i \in 1 .. NumPhys - NumArch : FullList[i] \in Renamable
    BY Sizes DEF FullList, Renamable
<1>2. NumPhys - NumArch \in Nat
    BY Sizes
<1>3. FullList \in [1 .. NumPhys - NumArch -> Renamable]
    BY <1>1 DEF FullList
<1>4. FullList \in Seq(Renamable)
    BY <1>2, <1>3
<1>5. \A i, j \in DOMAIN FullList : FullList[i] = FullList[j] => i = j
    BY Sizes DEF FullList
<1> QED
    BY <1>4, <1>5

LEMMA EmptyTables ==
    /\ EmptyRob \in [Slots -> [pc : Nat, dest : Renamable \union {None},
                              completed : BOOLEAN, exception : BOOLEAN]]
    /\ \A i \in Slots : EmptyRob[i].dest = None /\ ~EmptyRob[i].completed
    /\ IdentityMap \in [Arch -> [phys : Phys \union {None}, rob : Slots \union {None}]]
    /\ IdleUnits \in [Units -> [busy : BOOLEAN, rob : Slots \union {None}]]
    /\ \A u \in Units : IdleUnits[u].rob = None
    BY Sizes DEF EmptyRob, EmptySlot, IdentityMap, IdleUnits, FreeUnit

LEMMA InitIInv == Init => IInv
<1> SUFFICES ASSUME Init PROVE IInv
    OBVIOUS
<1>1. TypeOK
  <2>1. stage \in Stages /\ turn \in Nat /\ scan \in Nat \ {0}
    BY DEF Init, Stages
  <2>2. /\ from \in {"reset", "ibe", "int"} /\ pc \in Nat
        /\ fetchQ \in Seq([pc : Nat, word : Words])
        /\ issueQ \in Seq([deps : SUBSET (Slots \union {None}), unit : Units \ {ALU2}])
    BY DEF Init
  <2>3. /\ rob \in [Slots -> [pc : Nat, dest : Renamable \union {None},
                              completed : BOOLEAN, exception : BOOLEAN]]
        /\ robHead \in Slots /\ robTail \in Slots /\ robCount \in Nat
    BY Sizes, EmptyTables DEF Init
  <2>4. /\ map \in [Arch -> [phys : Phys \union {None}, rob : Slots \union {None}]]
        /\ valid \in [Phys -> BOOLEAN]
        /\ free \in Seq(Renamable)
        /\ fu \in [Units -> [busy : BOOLEAN, rob : Slots \union {None}]]
    BY EmptyTables, FullListSound DEF Init, ResetValid
  <2>5. /\ flush \in {"none", "ibe", "int"}
        /\ status \in [ie : BOOLEAN, im : BOOLEAN, exl : BOOLEAN, erl : BOOLEAN]
        /\ cause \in [ti : BOOLEAN, exc : {"INT", "IBE"}]
        /\ epc \in [from : {"reset", "ibe", "int"}, pc : Nat]
        /\ retired \in BOOLEAN
    BY DEF Init, ResetStatus, ResetCause, ResetEpc
  <2> QED
    BY <2>1, <2>2, <2>3, <2>4, <2>5 DEF TypeOK
<1>2. Stuck
    BY Sizes, EmptyTables DEF Init, Stuck
<1>3. Ownership
    BY FullListSound, EmptyTables DEF Init, Ownership
<1> QED
    BY <1>1, <1>2, <1>3 DEF IInv

-----------------------------------------------------------------------------
(* Steps that move between stages and at most write CP0 *)

Cp0TypeOK ==
    /\ flush \in {"none", "ibe", "int"}
    /\ status \in [ie : BOOLEAN, im : BOOLEAN, exl : BOOLEAN, erl : BOOLEAN]
    /\ cause \in [ti : BOOLEAN, exc : {"INT", "IBE"}]
    /\ epc \in [from : {"reset", "ibe", "int"}, pc : Nat]

LEMMA ControlStep ==
    ASSUME IInv, stage # "flush",
           stage' \in Stages, turn' \in Nat, scan' \in Nat \ {0},
           stage' = "flush" => turn' = 0 /\ flush' # "none",
           Cp0TypeOK',
           UNCHANGED <<fetchVars, issueQ, robVars, renameVars, fu, retired>>
    PROVE  IInv'
<1>1. TypeOK'
    BY DEF IInv, TypeOK, Cp0TypeOK, fetchVars, robVars, renameVars
<1>2. Stuck'
    BY DEF IInv, Stuck, robVars
<1>3. Ownership'
    BY DEF IInv, Ownership, robVars, renameVars
<1> QED
    BY <1>1, <1>2, <1>3 DEF IInv

LEMMA ControlSteps ==
    ASSUME IInv,
           \/ StartCycle \/ CommitStop \/ IssueStop \/ DecodeStop \/ FetchStop
           \/ EndCycle \/ HostWriteCp0
    PROVE  IInv'
<1>1. Cp0TypeOK
    BY DEF IInv, TypeOK, Cp0TypeOK
<1>2. CASE StartCycle
  <2>1. /\ stage # "flush" /\ stage' \in Stages
        /\ turn' \in Nat /\ scan' \in Nat \ {0} /\ turn' = 0
        /\ stage' = "flush" => flush' # "none"
    BY <1>2 DEF StartCycle, Goto, Stages, cp0Vars
  <2> QED
    BY <1>1, <1>2, <2>1, ControlStep DEF StartCycle, cp0Vars, Cp0TypeOK
<1>3. CASE CommitStop \/ IssueStop \/ DecodeStop \/ FetchStop
  <2>1. /\ stage # "flush" /\ stage' \in Stages
        /\ turn' \in Nat /\ scan' \in Nat \ {0} /\ stage' # "flush"
    BY <1>3 DEF CommitStop, IssueStop, DecodeStop, FetchStop, Goto, Stages
  <2>2. UNCHANGED <<fetchVars, issueQ, robVars, renameVars, fu, cp0Vars, retired>>
    BY <1>3 DEF CommitStop, IssueStop, DecodeStop, FetchStop
  <2> QED
    BY <1>1, <2>1, <2>2, ControlStep DEF cp0Vars, Cp0TypeOK
<1>4. CASE EndCycle
  <2>1. /\ stage # "flush" /\ stage' \in Stages
        /\ turn' \in Nat /\ scan' \in Nat \ {0} /\ stage' # "flush"
        /\ UNCHANGED <<fetchVars, issueQ, robVars, renameVars, fu, retired>>
    BY <1>4 DEF EndCycle, Goto, Stages
  <2>2. Cp0TypeOK'
    <3>1. pc \in Nat /\ from \in {"reset", "ibe", "int"}
        BY DEF IInv, TypeOK
    <3>2. PICK due \in BOOLEAN :
            LET ti == cause.ti \/ due IN
            \/ /\ epc' = [from |-> from, pc |-> pc]
               /\ cause' = [ti |-> ti, exc |-> "INT"]
               /\ status' = [status EXCEPT !.exl = TRUE]
               /\ flush' = "int"
            \/ /\ cause' = [cause EXCEPT !.ti = ti]
               /\ UNCHANGED <<epc, status, flush>>
        BY <1>4 DEF EndCycle
    <3>3. cause.ti \in BOOLEAN /\ cause.exc \in {"INT", "IBE"}
        BY <1>1 DEF Cp0TypeOK
    <3>4. (cause.ti \/ due) \in BOOLEAN
        BY <3>3
    <3>5. cause' \in [ti : BOOLEAN, exc : {"INT", "IBE"}]
        BY <1>1, <3>2, <3>4 DEF Cp0TypeOK
    <3>6. /\ flush' \in {"none", "ibe", "int"}
          /\ epc' \in [from : {"reset", "ibe", "int"}, pc : Nat]
        BY <1>1, <3>1, <3>2 DEF Cp0TypeOK
    <3>7. status' \in [ie : BOOLEAN, im : BOOLEAN, exl : BOOLEAN, erl : BOOLEAN]
        BY <1>1, <3>2 DEF Cp0TypeOK
    <3> QED
        BY <3>5, <3>6, <3>7 DEF Cp0TypeOK
  <2> QED
    BY <2>1, <2>2, ControlStep
<1>5. CASE HostWriteCp0
  <2>1. /\ stage # "flush" /\ stage' \in Stages
        /\ turn' \in Nat /\ scan' \in Nat \ {0} /\ stage' # "flush"
        /\ UNCHANGED <<fetchVars, issueQ, robVars, renameVars, fu, retired>>
    BY <1>5 DEF HostWriteCp0, Stages, IInv, TypeOK
  <2>2. Cp0TypeOK'
    BY <1>1, <1>5 DEF HostWriteCp0, Cp0TypeOK
  <2> QED
    BY <2>1, <2>2, ControlStep
<1> QED
    BY <1>2, <1>3, <1>4, <1>5

-----------------------------------------------------------------------------
(* Flush and reset *)

(* The slot a flush looks at in its turn-th step, if it names a register,  *)
(* is the turn-th slot: slots visited again hold nothing.                  *)
LEMMA FlushVisit ==
    ASSUME IInv, turn < robCount, rob[Slot(turn)].dest # None
    PROVE  Slot(turn) = turn /\ turn \in Slots
<1> DEFINE i == Slot(turn)
<1>1. RobSize \in Nat \ {0} /\ turn \in Nat /\ robCount \in Nat /\ robHead = 0
    BY Sizes DEF IInv, TypeOK, Stuck
<1>2. i = turn % RobSize
    BY <1>1 DEF Slot
<1>3. i \in Slots
    BY <1>1, <1>2, InRing DEF Slots
<1>4. robCount <= i + RobSize
    BY <1>3 DEF IInv, Ownership
<1>5. turn < RobSize
  <2> SUFFICES ASSUME turn >= RobSize PROVE FALSE
    BY <1>1
  <2>1. i \in 0 .. RobSize - 1
    BY <1>3 DEF Slots
  <2>2. turn - RobSize \in 0 .. RobSize - 1
    BY <1>1, <1>4, <2>1
  <2>3. (turn - RobSize + RobSize) % RobSize = turn - RobSize
    BY <1>1, <2>2, WrapsOnce
  <2>4. i = turn - RobSize
    BY <1>1, <1>2, <2>3
  <2> QED
    BY <1>1, <1>4, <2>4
<1>6. turn \in 0 .. RobSize - 1
    BY <1>1, <1>5
<1> QED
    BY <1>1, <1>2, <1>6, WrapsOnce DEF Slots

LEMMA FlushEntryInv ==
    ASSUME IInv, FlushEntry
    PROVE  IInv'
<1> DEFINE p == rob[Slot(turn)].dest
<1>1. /\ stage = "flush" /\ turn < robCount
      /\ turn' = turn + 1
      /\ IF p \in Renamable
         THEN free' = <<p>> \o free /\ valid' = [valid EXCEPT ![p] = FALSE]
         ELSE UNCHANGED <<free, valid>>
      /\ UNCHANGED <<stage, scan, fetchVars, issueQ, robVars, map, fu, cp0Vars, retired>>
    BY DEF FlushEntry
<1>2. /\ turn \in Nat /\ turn' \in Nat
      /\ free \in Seq(Renamable)
      /\ valid \in [Phys -> BOOLEAN]
      /\ \A k, l \in DOMAIN free : free[k] = free[l] => k = l
    BY <1>1 DEF IInv, TypeOK, Ownership
<1>5. \A i \in Slots : rob[i].dest # None => i < robCount /\ robCount <= i + RobSize
    BY DEF IInv, Ownership
<1>6. \A i \in Slots : rob[i].dest # None /\ turn <= i => rob[i].dest \notin Contents(free)
    BY DEF IInv, Ownership
<1>7. \A i, j \in Slots : rob[i].dest = rob[j].dest /\ rob[i].dest # None => i = j
    BY DEF IInv, Ownership
<1>8. /\ UNCHANGED <<stage, scan, from, pc, fetchQ, issueQ, rob, robHead, robTail,
                      robCount, map, fu, flush, status, cause, epc, retired>>
      /\ Contents(free)' = Contents(free')
      /\ stage = "flush" /\ turn' = turn + 1
    BY <1>1 DEF fetchVars, robVars, cp0Vars, Contents
<1> HIDE DEF p
<1>3. CASE p \in Renamable
  <2>1. p # None
    BY <1>3, Sizes
  <2>2. Slot(turn) = turn /\ turn \in Slots /\ p = rob[turn].dest
    BY <1>1, <2>1, FlushVisit DEF p
  <2>3. p \notin Contents(free)
    BY <1>2, <1>6, <2>1, <2>2
  <2>4. /\ free' \in Seq(Renamable)
        /\ Contents(free') = Contents(free) \union {p}
        /\ \A k, l \in DOMAIN free' : free'[k] = free'[l] => k = l
    <3>1. free' = <<p>> \o free
        BY <1>1, <1>3
    <3>2. /\ <<p>> \o free \in Seq(Renamable)
          /\ Contents(<<p>> \o free) = Contents(free) \union {p}
          /\ \A k, l \in DOMAIN (<<p>> \o free) :
                (<<p>> \o free)[k] = (<<p>> \o free)[l] => k = l
        BY <1>2, <1>3, <2>3, PushDistinct
    <3> QED
        BY <3>1, <3>2
  <2>5. valid' \in [Phys -> BOOLEAN]
    BY <1>1, <1>2, <1>3
  <2>6. ASSUME NEW k \in Slots, rob[k].dest # None, turn' <= k
        PROVE  rob[k].dest \notin Contents(free')
    <3>1. turn <= k /\ k # turn
        BY <1>2, <1>8, <2>6, Sizes DEF Slots
    <3>2. rob[k].dest \notin Contents(free)
        BY <1>6, <2>6, <3>1
    <3>3. rob[k].dest # p
        BY <1>7, <2>2, <2>6, <3>1
    <3> QED
        BY <2>4, <3>2, <3>3
  <2>7. TypeOK'
    BY <1>2, <1>8, <2>4, <2>5 DEF IInv, TypeOK
  <2>8. Ownership'
    BY <1>5, <1>7, <1>8, <2>4, <2>6 DEF Ownership
  <2>9. Stuck'
    BY <1>8 DEF IInv, Stuck
  <2> QED
    BY <2>7, <2>8, <2>9 DEF IInv
<1>4. CASE p \notin Renamable
  <2>1. UNCHANGED <<free, valid>>
    BY <1>1, <1>4
  <2>2. TypeOK'
    BY <1>2, <1>8, <2>1 DEF IInv, TypeOK
  <2>3. \A k \in Slots : rob[k].dest # None /\ turn' <= k => rob[k].dest \notin Contents(free)
    BY <1>2, <1>6, <1>8, Sizes DEF Slots
  <2>4. Ownership'
    BY <1>2, <1>5, <1>7, <1>8, <2>1, <2>3 DEF Ownership
  <2>5. Stuck'
    BY <1>8 DEF IInv, Stuck
  <2> QED
    BY <2>2, <2>4, <2>5 DEF IInv
<1> QED
    BY <1>3, <1>4

LEMMA FlushEndInv ==
    ASSUME IInv, FlushEnd
    PROVE  IInv'
<1>1. /\ stage' \in Stages /\ stage' # "flush" /\ turn' \in Nat /\ scan' \in Nat \ {0}
      /\ fetchQ' = << >> /\ issueQ' = << >>
      /\ rob' = EmptyRob /\ robHead' = 0 /\ robTail' = 0 /\ robCount' = 0
      /\ map' = IdentityMap
      /\ fu' = IdleUnits
      /\ from' = flush /\ pc' = 0
      /\ flush' = "none"
      /\ UNCHANGED <<valid, free, status, cause, epc, retired>>
    BY DEF FlushEnd, Goto, Stages
<1>2. flush \in {"ibe", "int"}
    BY DEF FlushEnd, IInv, TypeOK, Stuck
<1>3. TypeOK'
  <2>1. /\ stage' \in Stages /\ turn' \in Nat /\ scan' \in Nat \ {0}
        /\ from' \in {"reset", "ibe", "int"} /\ pc' \in Nat
        /\ fetchQ' \in Seq([pc : Nat, word : Words])
        /\ issueQ' \in Seq([deps : SUBSET (Slots \union {None}), unit : Units \ {ALU2}])
        /\ flush' \in {"none", "ibe", "int"}
    BY <1>1, <1>2
  <2>2. /\ rob' \in [Slots -> [pc : Nat, dest : Renamable \union {None},
                               completed : BOOLEAN, exception : BOOLEAN]]
        /\ robHead' \in Slots /\ robTail' \in Slots /\ robCount' \in Nat
        /\ map' \in [Arch -> [phys : Phys \union {None}, rob : Slots \union {None}]]
        /\ fu' \in [Units -> [busy : BOOLEAN, rob : Slots \union {None}]]
    BY <1>1, Sizes, EmptyTables
  <2>3. /\ valid' \in [Phys -> BOOLEAN]
        /\ free' \in Seq(Renamable)
        /\ status' \in [ie : BOOLEAN, im : BOOLEAN, exl : BOOLEAN, erl : BOOLEAN]
        /\ cause' \in [ti : BOOLEAN, exc : {"INT", "IBE"}]
        /\ epc' \in [from : {"reset", "ibe", "int"}, pc : Nat]
        /\ retired' \in BOOLEAN
    BY <1>1 DEF IInv, TypeOK
  <2> QED
    BY <2>1, <2>2, <2>3 DEF TypeOK
<1>4. Stuck'
    BY <1>1, Sizes, EmptyTables DEF IInv, Stuck
<1>5. Ownership'
    BY <1>1, EmptyTables DEF IInv, Ownership
<1> QED
    BY <1>3, <1>4, <1>5 DEF IInv

(* reset leads to the initial state from anywhere. *)
LEMMA HostResetInv ==
    ASSUME HostReset
    PROVE  IInv'
<1>1. Init'
    BY DEF HostReset, Init, Goto
<1> QED
    BY <1>1, InitIInv, PTL

-----------------------------------------------------------------------------
(* Commit, writeback, execute and issue *)

(* What is complete is a fetch error: commit_stage raises it. *)
LEMMA CommitHeadInv ==
    ASSUME IInv, CommitHead
    PROVE  IInv'
<1>1. robHead \in Slots
    BY DEF IInv, TypeOK
<1>2. rob[robHead].exception
    BY <1>1 DEF CommitHead, IInv, Stuck
<1>3. /\ stage # "flush" /\ stage' \in Stages /\ stage' # "flush"
      /\ turn' \in Nat /\ scan' \in Nat \ {0}
      /\ RaiseException("IBE")
      /\ flush' = "ibe"
      /\ UNCHANGED <<fetchVars, issueQ, robVars, renameVars, fu, retired>>
    BY <1>2 DEF CommitHead, Goto, Stages, robVars
<1>4. Cp0TypeOK'
    BY <1>3 DEF IInv, TypeOK, Cp0TypeOK, RaiseException
<1> QED
    BY <1>3, <1>4, ControlStep

(* Steps that leave the ring and the free list alone. *)
LEMMA QueueStep ==
    ASSUME IInv, stage # "flush", stage' # "flush",
           stage' \in Stages, turn' \in Nat, scan' \in Nat \ {0},
           issueQ' \in Seq([deps : SUBSET (Slots \union {None}), unit : Units \ {ALU2}]),
           valid' \in [Phys -> BOOLEAN],
           fu' \in [Units -> [busy : BOOLEAN, rob : Slots \union {None}]],
           \A u \in Units : fu'[u].rob = None,
           UNCHANGED <<fetchVars, robVars, map, free, cp0Vars, retired>>
    PROVE  IInv'
<1>1. TypeOK'
    BY DEF IInv, TypeOK, fetchVars, robVars, cp0Vars
<1>2. Stuck'
    BY DEF IInv, Stuck, robVars
<1>3. Ownership'
    BY DEF IInv, Ownership, robVars
<1> QED
    BY <1>1, <1>2, <1>3 DEF IInv

LEMMA WritebackInv ==
    ASSUME IInv, Writeback
    PROVE  IInv'
<1>1. valid' \in [Phys -> BOOLEAN]
    BY DEF Writeback, IInv, TypeOK
<1>2. /\ stage # "flush" /\ stage' # "flush"
      /\ stage' \in Stages /\ turn' \in Nat /\ scan' \in Nat \ {0}
      /\ UNCHANGED <<fetchVars, issueQ, robVars, map, free, fu, cp0Vars, retired>>
    BY DEF Writeback, Goto, Stages
<1>3. /\ issueQ \in Seq([deps : SUBSET (Slots \union {None}), unit : Units \ {ALU2}])
      /\ fu \in [Units -> [busy : BOOLEAN, rob : Slots \union {None}]]
      /\ \A u \in Units : fu[u].rob = None
    BY DEF IInv, TypeOK, Stuck
<1> QED
    BY <1>1, <1>2, <1>3, QueueStep

(* Every unit skips its turn. *)
LEMMA ExecuteInv ==
    ASSUME IInv, Execute
    PROVE  IInv'
<1>1. /\ rob \in [Slots -> [pc : Nat, dest : Renamable \union {None},
                            completed : BOOLEAN, exception : BOOLEAN]]
      /\ issueQ \in Seq([deps : SUBSET (Slots \union {None}), unit : Units \ {ALU2}])
      /\ fu \in [Units -> [busy : BOOLEAN, rob : Slots \union {None}]]
      /\ valid \in [Phys -> BOOLEAN]
      /\ \A u \in Units : fu[u].rob = None
    BY DEF IInv, TypeOK, Stuck
<1>2. {u \in Units : fu[u].busy /\ fu[u].rob # None} = {}
    BY <1>1
<1>3. /\ rob' = [i \in Slots |-> [rob[i] EXCEPT !.completed = @ \/ FALSE]]
      /\ fu' = [u \in Units |-> fu[u]]
    BY <1>2 DEF Execute
<1>4. fu' = fu
    BY <1>1, <1>3
<1>5. rob' = rob
  <2>1. ASSUME NEW r \in [pc : Nat, dest : Renamable \union {None},
                         completed : BOOLEAN, exception : BOOLEAN]
        PROVE  [r EXCEPT !.completed = @ \/ FALSE] = r
    <3>1. (r.completed \/ FALSE) = r.completed
        BY <2>1
    <3> QED
        BY <2>1, <3>1
  <2> QED
    BY <1>1, <1>3, <2>1
<1>6. /\ stage # "flush" /\ stage' # "flush"
      /\ stage' \in Stages /\ turn' \in Nat /\ scan' \in Nat \ {0}
      /\ UNCHANGED <<fetchVars, issueQ, robHead, robTail, robCount, renameVars,
                     cp0Vars, retired>>
    BY DEF Execute, Goto, Stages
<1> QED
    BY <1>1, <1>4, <1>5, <1>6, QueueStep DEF robVars, renameVars

LEMMA IssueEntryInv ==
    ASSUME IInv, IssueEntry
    PROVE  IInv'
<1> DEFINE Entries == [deps : SUBSET (Slots \union {None}), unit : Units \ {ALU2}]
<1>1. /\ issueQ \in Seq(Entries)
      /\ fu \in [Units -> [busy : BOOLEAN, rob : Slots \union {None}]]
      /\ valid \in [Phys -> BOOLEAN]
      /\ \A u \in Units : fu[u].rob = None
      /\ turn \in Nat /\ scan \in Nat \ {0} /\ stage \in Stages
    BY DEF IInv, TypeOK, Stuck
<1>2. /\ stage = "issue" /\ stage' = stage /\ scan' = scan /\ turn' = turn + 1
      /\ scan <= Len(issueQ)
      /\ issueQ' = RemoveAt(issueQ, scan)
      /\ UNCHANGED <<fetchVars, robVars, renameVars, cp0Vars, retired>>
    BY DEF IssueEntry
<1>5. \E u \in Units : fu' = [fu EXCEPT ![u] = [busy |-> TRUE, rob |-> None]]
  <2>1. \A unit \in Units : Candidates(unit) \subseteq Units
    BY DEF Candidates, Units
  <2>2. issueQ[scan].unit \in Units
    <3>1. scan \in 1 .. Len(issueQ)
        BY <1>1, <1>2, LenProperties
    <3>2. issueQ[scan] \in Entries
        BY <1>1, <3>1, ElementOfSeq
    <3> QED
        BY <3>2
  <2> QED
    BY <2>1, <2>2 DEF IssueEntry
<1>3. /\ fu' \in [Units -> [busy : BOOLEAN, rob : Slots \union {None}]]
      /\ \A u \in Units : fu'[u].rob = None
    BY <1>1, <1>5
<1>4. issueQ' \in Seq(Entries)
  <2>1. scan \in 1 .. Len(issueQ)
    BY <1>1, <1>2, LenProperties
  <2> QED
    BY <1>1, <1>2, <2>1, RemoveAtType
<1> QED
    BY <1>1, <1>2, <1>3, <1>4, QueueStep DEF renameVars

LEMMA IssueSkipInv ==
    ASSUME IInv, IssueSkip
    PROVE  IInv'
<1> DEFINE Entries == [deps : SUBSET (Slots \union {None}), unit : Units \ {ALU2}]
<1>1. /\ issueQ \in Seq(Entries)
      /\ fu \in [Units -> [busy : BOOLEAN, rob : Slots \union {None}]]
      /\ valid \in [Phys -> BOOLEAN]
      /\ \A u \in Units : fu[u].rob = None
      /\ turn \in Nat /\ scan \in Nat \ {0} /\ stage \in Stages
    BY DEF IInv, TypeOK, Stuck
<1>2. /\ stage = "issue" /\ stage' = stage /\ scan' = scan + 1 /\ turn' = turn
      /\ scan <= Len(issueQ)
      /\ issueQ' = [issueQ EXCEPT ![scan].deps = StillAwaited(@)]
      /\ UNCHANGED <<fetchVars, robVars, renameVars, fu, cp0Vars, retired>>
    BY DEF IssueSkip
<1>3. issueQ' \in Seq(Entries)
  <2>1. scan \in 1 .. Len(issueQ)
    BY <1>1, <1>2, LenProperties
  <2>2. issueQ[scan] \in Entries
    BY <1>1, <2>1, ElementOfSeq
  <2>3. StillAwaited(issueQ[scan].deps) \in SUBSET (Slots \union {None})
    BY <2>2 DEF StillAwaited
  <2>4. [issueQ[scan] EXCEPT !.deps = StillAwaited(@)] \in Entries
    BY <2>2, <2>3
  <2>5. issueQ' = [issueQ EXCEPT ![scan] = [issueQ[scan] EXCEPT !.deps = StillAwaited(@)]]
    BY <1>2, <2>1
  <2> QED
    BY <1>1, <2>1, <2>4, <2>5, ExceptSeq
<1> QED
    BY <1>1, <1>2, <1>3, QueueStep DEF renameVars

-----------------------------------------------------------------------------
(* Decode and fetch *)

LEMMA RobAppended ==
    ASSUME IInv, NEW e \in [pc : Nat, dest : Renamable \union {None},
                           completed : BOOLEAN, exception : BOOLEAN],
           AppendRob(e)
    PROVE  /\ rob' \in [Slots -> [pc : Nat, dest : Renamable \union {None},
                                completed : BOOLEAN, exception : BOOLEAN]]
           /\ robTail \in Slots /\ rob'[robTail] = e
           /\ \A i \in Slots \ {robTail} : rob'[i] = rob[i]
           /\ robHead' = robHead
           /\ robTail' \in Slots
           /\ robCount \in Nat /\ robCount' = robCount + 1
           /\ robCount' < RobSize => robTail' = robCount'
           /\ RobSize <= robCount' /\ robCount' < 2 * RobSize
                  => robTail' = robCount' - RobSize
<1>1. /\ rob \in [Slots -> [pc : Nat, dest : Renamable \union {None},
                            completed : BOOLEAN, exception : BOOLEAN]]
      /\ robTail \in Slots /\ robCount \in Nat
      /\ robCount < RobSize => robTail = robCount
      /\ RobSize <= robCount /\ robCount < 2 * RobSize => robTail = robCount - RobSize
    BY DEF IInv, TypeOK, Stuck
<1>2. /\ rob' = [rob EXCEPT ![robTail] = e]
      /\ robTail' = (robTail + 1) % RobSize
      /\ robCount' = robCount + 1
      /\ robHead' = robHead
    BY DEF AppendRob
<1>3. RobSize \in Nat \ {0} /\ robTail \in 0 .. RobSize - 1
    BY <1>1, Sizes DEF Slots
<1>4. robTail' = IF robTail = RobSize - 1 THEN 0 ELSE robTail + 1
  <2>1. CASE robTail = RobSize - 1
    <3>1. (0 + RobSize) % RobSize = 0
        BY <1>3, WrapsOnce
    <3> QED
        BY <1>2, <1>3, <2>1, <3>1
  <2>2. CASE robTail # RobSize - 1
    <3>1. robTail + 1 \in 0 .. RobSize - 1
        BY <1>3, <2>2
    <3>2. (robTail + 1) % RobSize = robTail + 1
        BY <1>3, <3>1, WrapsOnce
    <3> QED
        BY <1>2, <2>2, <3>2
  <2> QED
    BY <2>1, <2>2
<1>5. robTail' \in Slots
    BY <1>3, <1>4 DEF Slots
<1>6. robCount' < RobSize => robTail' = robCount'
    BY <1>1, <1>2, <1>3, <1>4
<1>7. RobSize <= robCount' /\ robCount' < 2 * RobSize => robTail' = robCount' - RobSize
    BY <1>1, <1>2, <1>3, <1>4
<1> QED
    BY <1>1, <1>2, <1>5, <1>6, <1>7

(* The slot an entry is appended to is the only one the window passes over. *)
LEMMA NotOverwritten ==
    ASSUME IInv, NEW i \in Slots \ {robTail}, rob[i].dest # None
    PROVE  i < robCount + 1 /\ robCount + 1 <= i + RobSize
<1>1. /\ RobSize \in Nat \ {0} /\ robCount \in Nat /\ i \in 0 .. RobSize - 1
      /\ i < robCount /\ robCount <= i + RobSize
      /\ RobSize <= robCount /\ robCount < 2 * RobSize => robTail = robCount - RobSize
    BY Sizes DEF IInv, TypeOK, Stuck, Ownership, Slots
<1>2. robCount # i + RobSize
    BY <1>1
<1> QED
    BY <1>1, <1>2

(* Renaming takes its register off the free list. *)
LEMMA Renamed ==
    ASSUME IInv, NEW ins \in Instructions, RenameDest(ins)
    PROVE  /\ map' \in [Arch -> [phys : Phys \union {None}, rob : Slots \union {None}]]
           /\ valid' \in [Phys -> BOOLEAN]
           /\ free' \in Seq(Renamable)
           /\ \A i, j \in DOMAIN free' : free'[i] = free'[j] => i = j
           /\ Contents(free') \subseteq Contents(free)
           /\ Allocated \in Renamable \union {None}
           /\ ins.rd # 0 /\ Allocated # None
                  => Allocated \in Contents(free) \ Contents(free')
<1>1. /\ map \in [Arch -> [phys : Phys \union {None}, rob : Slots \union {None}]]
      /\ valid \in [Phys -> BOOLEAN]
      /\ free \in Seq(Renamable)
      /\ robTail \in Slots
      /\ \A i, j \in DOMAIN free : free[i] = free[j] => i = j
    BY DEF IInv, TypeOK, Ownership
<1>2. free # << >> => /\ Head(free) \in Renamable
                      /\ Tail(free) \in Seq(Renamable)
                      /\ Contents(Tail(free)) \subseteq Contents(free)
                      /\ Head(free) \notin Contents(Tail(free))
                      /\ Head(free) \in Contents(free)
                      /\ \A i, j \in DOMAIN Tail(free) :
                            Tail(free)[i] = Tail(free)[j] => i = j
    BY <1>1, PopDistinct
<1>3. Allocated \in Renamable \union {None}
    BY <1>2 DEF Allocated
<1>4. CASE ins.rd = 0
  <2>1. map' = map /\ valid' = valid /\ free' = free
    BY <1>4 DEF RenameDest, renameVars
  <2> QED
    BY <1>1, <1>3, <1>4, <2>1
<1>5. CASE ins.rd # 0
  <2>1. /\ map' = [map EXCEPT ![ins.rd] = [phys |-> Allocated, rob |-> robTail]]
        /\ free' = IF free = << >> THEN free ELSE Tail(free)
        /\ valid' = [p \in Phys |-> valid[p] /\ p # Allocated]
    BY <1>5 DEF RenameDest
  <2>2. [phys |-> Allocated, rob |-> robTail] \in [phys : Phys \union {None}, rob : Slots \union {None}]
    BY <1>1, <1>3, Sizes
  <2>3. map' \in [Arch -> [phys : Phys \union {None}, rob : Slots \union {None}]]
    BY <1>1, <2>1, <2>2
  <2>4. valid' \in [Phys -> BOOLEAN]
    BY <2>1
  <2>5. CASE free = << >>
    BY <1>1, <1>3, <2>1, <2>3, <2>4, <2>5 DEF Allocated
  <2>6. CASE free # << >>
    BY <1>1, <1>2, <1>3, <2>1, <2>3, <2>4, <2>6 DEF Allocated
  <2> QED
    BY <2>5, <2>6
<1> QED
    BY <1>4, <1>5

LEMMA AppendedOwnership ==
    ASSUME IInv, stage # "flush", stage' # "flush",
           NEW e \in [pc : Nat, dest : Renamable \union {None},
                     completed : BOOLEAN, exception : BOOLEAN],
           AppendRob(e),
           \A i, j \in DOMAIN free' : free'[i] = free'[j] => i = j,
           Contents(free') \subseteq Contents(free),
           e.dest # None => /\ e.dest \in Contents(free) \ Contents(free')
                            /\ robCount < RobSize
    PROVE  Ownership'
<1>1. /\ robTail \in Slots /\ rob'[robTail] = e
      /\ \A i \in Slots \ {robTail} : rob'[i] = rob[i]
      /\ robCount \in Nat /\ robCount' = robCount + 1
    BY RobAppended
<1>2. /\ \A i \in Slots : rob[i].dest # None => rob[i].dest \notin Contents(free)
      /\ \A i, j \in Slots :
            rob[i].dest = rob[j].dest /\ rob[i].dest # None => i = j
      /\ robCount < RobSize => robTail = robCount
    BY DEF IInv, Ownership, Stuck
<1>3. ASSUME NEW i \in Slots, rob'[i].dest # None
      PROVE  i < robCount' /\ robCount' <= i + RobSize
  <2>1. CASE i = robTail
    BY <1>1, <1>2, <1>3, <2>1, Sizes
  <2>2. CASE i # robTail
    BY <1>1, <1>3, <2>2, NotOverwritten
  <2> QED
    BY <2>1, <2>2
<1>4. ASSUME NEW i \in Slots, rob'[i].dest # None
      PROVE  rob'[i].dest \notin Contents(free')
  <2>1. CASE i = robTail
    BY <1>1, <1>4, <2>1
  <2>2. CASE i # robTail
    BY <1>1, <1>2, <1>4, <2>2
  <2> QED
    BY <2>1, <2>2
<1>5. ASSUME NEW i \in Slots, NEW j \in Slots,
             rob'[i].dest = rob'[j].dest, rob'[i].dest # None
      PROVE  i = j
    BY <1>1, <1>2, <1>5
<1>6. Contents(free)' = Contents(free')
    BY DEF Contents
<1> QED
    BY <1>3, <1>4, <1>5, <1>6 DEF Ownership

(* The types of what decode and fetch leave alone. *)
RestTypeOK ==
    /\ from \in {"reset", "ibe", "int"} /\ pc \in Nat
    /\ fu \in [Units -> [busy : BOOLEAN, rob : Slots \union {None}]]
    /\ Cp0TypeOK
    /\ retired \in BOOLEAN
    /\ turn \in Nat /\ scan \in Nat \ {0}

(* The head of the fetch queue and the rest of it. *)
LEMMA FetchQueue ==
    ASSUME IInv, fetchQ # << >>
    PROVE  /\ Head(fetchQ) \in [pc : Nat, word : Words]
           /\ Tail(fetchQ) \in Seq([pc : Nat, word : Words])
           /\ Head(fetchQ).word # BusError => Head(fetchQ).word \in Instructions
<1>1. fetchQ \in Seq([pc : Nat, word : Words])
    BY DEF IInv, TypeOK
<1>2. /\ Head(fetchQ) \in [pc : Nat, word : Words]
      /\ Tail(fetchQ) \in Seq([pc : Nat, word : Words])
    BY <1>1, HeadTailProperties
<1>3. Head(fetchQ).word \in Words
    BY <1>2
<1> QED
    BY <1>2, <1>3, WordAssumption

LEMMA DecodeBusErrorInv ==
    ASSUME IInv, DecodeBusError
    PROVE  IInv'
<1> DEFINE e == [pc |-> Head(fetchQ).pc, dest |-> None,
                 completed |-> TRUE, exception |-> TRUE]
<1>1. /\ stage = "decode" /\ stage' = stage
      /\ fetchQ # << >>
      /\ AppendRob(e)
      /\ fetchQ' = Tail(fetchQ)
      /\ UNCHANGED <<turn, scan, from, pc, issueQ, map, valid, free, fu,
                     flush, status, cause, epc, retired>>
    BY DEF DecodeBusError, DecodeHasWork, renameVars, cp0Vars
<1>2. fetchQ' \in Seq([pc : Nat, word : Words]) /\ Head(fetchQ).pc \in Nat
    BY <1>1, FetchQueue
<1>3. e \in [pc : Nat, dest : Renamable \union {None},
            completed : BOOLEAN, exception : BOOLEAN]
    BY <1>2
<1>4. /\ rob' \in [Slots -> [pc : Nat, dest : Renamable \union {None},
                            completed : BOOLEAN, exception : BOOLEAN]]
      /\ robTail \in Slots /\ rob'[robTail] = e
      /\ \A i \in Slots \ {robTail} : rob'[i] = rob[i]
      /\ robHead' = robHead
      /\ robTail' \in Slots
      /\ robCount \in Nat /\ robCount' = robCount + 1
      /\ robCount' < RobSize => robTail' = robCount'
      /\ RobSize <= robCount' /\ robCount' < 2 * RobSize
             => robTail' = robCount' - RobSize
  <2> HIDE DEF e
  <2> QED
    BY <1>1, <1>3, RobAppended
<1>5. TypeOK'
    BY <1>1, <1>2, <1>4 DEF IInv, TypeOK
<1>6. Stuck'
    BY <1>1, <1>4 DEF IInv, Stuck
<1>7. Ownership'
  <2>1. /\ \A i, j \in DOMAIN free' : free'[i] = free'[j] => i = j
        /\ Contents(free') \subseteq Contents(free)
    BY <1>1 DEF IInv, Ownership
  <2>2. e.dest = None
    OBVIOUS
  <2> HIDE DEF e
  <2> QED
    BY <1>1, <1>3, <2>1, <2>2, AppendedOwnership
<1> QED
    BY <1>5, <1>6, <1>7 DEF IInv

LEMMA DecodeInstructionInv ==
    ASSUME IInv, DecodeInstruction
    PROVE  IInv'
<1> DEFINE ins == Head(fetchQ).word
           e == [pc |-> Head(fetchQ).pc,
                 dest |-> IF ins.rd = 0 THEN None ELSE Allocated,
                 completed |-> FALSE, exception |-> FALSE]
           item == [deps |-> Awaited(ins), unit |-> ins.unit]
<1>1. /\ stage = "decode" /\ stage' = stage
      /\ fetchQ # << >> /\ ins # BusError
      /\ robCount < RobSize
      /\ RenameDest(ins)
      /\ AppendRob(e)
      /\ issueQ' = Append(issueQ, item)
      /\ fetchQ' = Tail(fetchQ)
      /\ UNCHANGED <<turn, scan, from, pc, fu, flush, status, cause, epc, retired>>
    BY DEF DecodeInstruction, DecodeHasWork, cp0Vars
<1>2. /\ fetchQ' \in Seq([pc : Nat, word : Words])
      /\ Head(fetchQ).pc \in Nat
      /\ ins \in Instructions
    BY <1>1, FetchQueue
<1>3. /\ map' \in [Arch -> [phys : Phys \union {None}, rob : Slots \union {None}]]
      /\ valid' \in [Phys -> BOOLEAN]
      /\ free' \in Seq(Renamable)
      /\ \A i, j \in DOMAIN free' : free'[i] = free'[j] => i = j
      /\ Contents(free') \subseteq Contents(free)
      /\ Allocated \in Renamable \union {None}
      /\ ins.rd # 0 /\ Allocated # None
             => Allocated \in Contents(free) \ Contents(free')
  <2> HIDE DEF ins
  <2> QED
    BY <1>1, <1>2, Renamed
<1>4. e \in [pc : Nat, dest : Renamable \union {None},
            completed : BOOLEAN, exception : BOOLEAN]
    BY <1>2, <1>3
<1>5. e.dest # None => e.dest \in Contents(free) \ Contents(free')
    BY <1>3
<1>6. item \in [deps : SUBSET (Slots \union {None}), unit : Units \ {ALU2}]
  <2>1. map \in [Arch -> [phys : Phys \union {None}, rob : Slots \union {None}]]
    BY DEF IInv, TypeOK
  <2>2. ins.src \subseteq Arch /\ ins.unit \in Units \ {ALU2}
    BY <1>2 DEF Instructions
  <2>3. Awaited(ins) \subseteq Slots \union {None}
    BY <2>1, <2>2 DEF Awaited
  <2> QED
    BY <2>2, <2>3
<1>7. issueQ' \in Seq([deps : SUBSET (Slots \union {None}), unit : Units \ {ALU2}])
  <2> HIDE DEF item
  <2>1. issueQ \in Seq([deps : SUBSET (Slots \union {None}), unit : Units \ {ALU2}])
    BY DEF IInv, TypeOK
  <2> QED
    BY <1>1, <1>6, <2>1, AppendProperties
<1>8. ~e.completed
    OBVIOUS
<1> HIDE DEF e, ins, item
<1>9. /\ rob' \in [Slots -> [pc : Nat, dest : Renamable \union {None},
                            completed : BOOLEAN, exception : BOOLEAN]]
      /\ robTail \in Slots /\ rob'[robTail] = e
      /\ \A i \in Slots \ {robTail} : rob'[i] = rob[i]
      /\ robHead' = robHead
      /\ robTail' \in Slots
      /\ robCount \in Nat /\ robCount' = robCount + 1
      /\ robCount' < RobSize => robTail' = robCount'
      /\ RobSize <= robCount' /\ robCount' < 2 * RobSize
             => robTail' = robCount' - RobSize
    BY <1>1, <1>4, RobAppended
<1>10. TypeOK'
  <2>1. /\ stage' \in Stages /\ RestTypeOK'
    BY <1>1 DEF IInv, TypeOK, RestTypeOK, Cp0TypeOK
  <2>2. robHead' \in Slots /\ robTail' \in Slots /\ robCount' \in Nat
    BY <1>9 DEF IInv, TypeOK
  <2> QED
    BY <1>2, <1>3, <1>7, <1>9, <2>1, <2>2 DEF TypeOK, RestTypeOK, Cp0TypeOK
<1>11. Stuck'
    BY <1>1, <1>8, <1>9 DEF IInv, Stuck
<1>12. Ownership'
    BY <1>1, <1>3, <1>4, <1>5, AppendedOwnership
<1> QED
    BY <1>10, <1>11, <1>12 DEF IInv

LEMMA DecodeStallInv ==
    ASSUME IInv, DecodeStall
    PROVE  IInv'
<1> DEFINE ins == Head(fetchQ).word
<1>1. /\ stage # "flush" /\ stage' # "flush" /\ stage' \in Stages
      /\ turn' \in Nat /\ scan' \in Nat \ {0}
      /\ fetchQ # << >> /\ ins # BusError
      /\ RenameDest(ins)
      /\ UNCHANGED <<from, pc, fetchQ, issueQ, rob, robHead, robTail, robCount, fu,
                     flush, status, cause, epc, retired>>
    BY DEF DecodeStall, DecodeHasWork, Goto, Stages, fetchVars, robVars, cp0Vars
<1>2. ins \in Instructions
    BY <1>1, FetchQueue
<1> HIDE DEF ins
<1>3. /\ map' \in [Arch -> [phys : Phys \union {None}, rob : Slots \union {None}]]
      /\ valid' \in [Phys -> BOOLEAN]
      /\ free' \in Seq(Renamable)
      /\ \A i, j \in DOMAIN free' : free'[i] = free'[j] => i = j
      /\ Contents(free') \subseteq Contents(free)
    BY <1>1, <1>2, Renamed
<1>4. TypeOK'
    BY <1>1, <1>3 DEF IInv, TypeOK
<1>5. Stuck'
    BY <1>1 DEF IInv, Stuck
<1>6. Ownership'
  <2>1. Contents(free)' = Contents(free')
    BY DEF Contents
  <2> QED
    BY <1>1, <1>3, <2>1 DEF IInv, Ownership
<1> QED
    BY <1>4, <1>5, <1>6 DEF IInv

LEMMA FetchInv ==
    ASSUME IInv, Fetch
    PROVE  IInv'
<1>1. /\ stage = "fetch" /\ turn' = turn + 1 /\ pc' = pc + 1
      /\ UNCHANGED <<stage, scan, from, issueQ, rob, robHead, robTail, robCount,
                     map, valid, free, fu, flush, status, cause, epc, retired>>
    BY DEF Fetch, robVars, renameVars, cp0Vars
<1>2. fetchQ' \in Seq([pc : Nat, word : Words])
  <2>1. PICK w \in Words : fetchQ' = Append(fetchQ, [pc |-> pc, word |-> w])
    BY DEF Fetch
  <2>2. /\ fetchQ \in Seq([pc : Nat, word : Words])
        /\ [pc |-> pc, word |-> w] \in [pc : Nat, word : Words]
    BY DEF IInv, TypeOK
  <2> QED
    BY <2>1, <2>2, AppendProperties
<1>3. TypeOK'
    BY <1>1, <1>2 DEF IInv, TypeOK
<1>4. Stuck'
    BY <1>1 DEF IInv, Stuck
<1>5. Ownership'
    BY <1>1 DEF IInv, Ownership
<1> QED
    BY <1>3, <1>4, <1>5 DEF IInv

-----------------------------------------------------------------------------
(* The invariant and what follows from it *)

LEMMA NextIInv == IInv /\ [Next]_vars => IInv'
<1> SUFFICES ASSUME IInv, [Next]_vars PROVE IInv'
    OBVIOUS
<1>1. CASE \/ StartCycle \/ CommitStop \/ IssueStop \/ DecodeStop \/ FetchStop
           \/ EndCycle \/ HostWriteCp0
    BY <1>1, ControlSteps
<1>2. CASE FlushEntry
    BY <1>2, FlushEntryInv
<1>3. CASE FlushEnd
    BY <1>3, FlushEndInv
<1>4. CASE CommitHead
    BY <1>4, CommitHeadInv
<1>5. CASE Writeback
    BY <1>5, WritebackInv
<1>6. CASE Execute
    BY <1>6, ExecuteInv
<1>7. CASE IssueEntry
    BY <1>7, IssueEntryInv
<1>8. CASE IssueSkip
    BY <1>8, IssueSkipInv
<1>9. CASE DecodeBusError
    BY <1>9, DecodeBusErrorInv
<1>10. CASE DecodeInstruction
    BY <1>10, DecodeInstructionInv
<1>11. CASE DecodeStall
    BY <1>11, DecodeStallInv
<1>12. CASE Fetch
    BY <1>12, FetchInv
<1>13. CASE HostReset
    BY <1>13, HostResetInv
<1>14. CASE UNCHANGED vars
    BY <1>14 DEF vars, fetchVars, robVars, renameVars, cp0Vars,
                 IInv, TypeOK, Stuck, Ownership
<1> QED
    BY <1>1, <1>2, <1>3, <1>4, <1>5, <1>6, <1>7, <1>8, <1>9, <1>10, <1>11,
       <1>12, <1>13, <1>14 DEF Next, Cycle

LEMMA HeldOnceFollows == IInv => HeldOnce
<1> SUFFICES ASSUME IInv PROVE HeldOnce
    OBVIOUS
<1>1. ASSUME NEW i \in Slots, rob[i].dest # None, Unreleased(i)
      PROVE  rob[i].dest \notin Contents(free)
  <2>1. stage = "flush" => turn <= i
    <3> SUFFICES ASSUME stage = "flush" PROVE turn <= i
        OBVIOUS
    <3>1. PICK j \in turn .. robCount - 1 : Slot(j) = i
        BY <1>1 DEF Unreleased
    <3>2. /\ RobSize \in Nat \ {0} /\ turn \in Nat /\ robCount \in Nat /\ robHead = 0
          /\ i \in 0 .. RobSize - 1
          /\ robCount <= i + RobSize
        BY <1>1, Sizes DEF IInv, TypeOK, Stuck, Ownership, Slots
    <3>3. j % RobSize = i /\ j \in Nat /\ turn <= j /\ j < i + RobSize
        BY <3>1, <3>2 DEF Slot
    <3>4. CASE j < RobSize
        <4>1. j \in 0 .. RobSize - 1
            BY <3>2, <3>3, <3>4
        <4>2. j % RobSize = j
            BY <3>2, <4>1, WrapsOnce
        <4> QED
            BY <3>3, <4>2
    <3>5. CASE j >= RobSize
        <4>1. j - RobSize \in 0 .. RobSize - 1
            BY <3>2, <3>3, <3>5
        <4>2. (j - RobSize + RobSize) % RobSize = j - RobSize
            BY <3>2, <4>1, WrapsOnce
        <4>3. i = j - RobSize
            BY <3>2, <3>3, <4>2
        <4> QED
            BY <3>2, <3>3, <4>3
    <3> QED
        BY <3>2, <3>3, <3>4, <3>5
  <2> QED
    BY <1>1, <2>1 DEF IInv, Ownership
<1> QED
    BY <1>1 DEF IInv, Ownership, HeldOnce

(* The core keeps its types: in particular no index into the ring, the     *)
(* free list or the rename map is ever out of range but for the -1 that    *)
(* allocate_phys_gpr returns when the list is empty.                       *)
THEOREM TypeCorrect == Spec => []TypeOK
<1>1. IInv => TypeOK
    BY DEF IInv
<1> QED
    BY <1>1, InitIInv, NextIInv, PTL DEF Spec

(* A physical register is on the free list once or in one slot of the ring *)
(* once, whatever the sizes and the program, although the ring overflows:  *)
(* flush_pipeline never gives a register back twice.                       *)
THEOREM RegistersHeldOnce == Spec => []HeldOnce
    BY InitIInv, NextIInv, HeldOnceFollows, PTL DEF Spec

(* No instruction ever retires: committed_count_ stays 0 for every program *)
(* and every size, because allocate_fu never records a ring slot.          *)
THEOREM NothingRetires == Spec => []~retired
<1>1. IInv => ~retired
    BY DEF IInv, Stuck
<1> QED
    BY <1>1, InitIInv, NextIInv, PTL DEF Spec

-----------------------------------------------------------------------------
(* The order of a cycle: a flush that is due is taken before anything      *)
(* else, so commit begins without one, and until it is taken EXL keeps     *)
(* interrupts out.                                                         *)
Scheduled ==
    /\ stage = "commit" => flush = "none" /\ turn = 0
    /\ flush # "none" /\ stage \notin {"idle", "flush"} => status.exl

LEMMA InitScheduled == Init => Scheduled
    BY DEF Init, Scheduled

LEMMA ScheduledKept ==
    ASSUME IInv, Scheduled, [Next]_vars
    PROVE  Scheduled' /\ (flush # "none" => flush' \in {flush, "none"})
<1> DEFINE Kept == Scheduled' /\ (flush # "none" => flush' \in {flush, "none"})
<1>1. /\ status \in [ie : BOOLEAN, im : BOOLEAN, exl : BOOLEAN, erl : BOOLEAN]
      /\ 0 \in Slots /\ robHead = 0
      /\ \A i \in Slots : rob[i].completed => rob[i].exception
    BY Sizes DEF IInv, TypeOK, Stuck
<1>2. CASE StartCycle \/ FlushEntry
    BY <1>2 DEF StartCycle, FlushEntry, Goto, Scheduled, cp0Vars
<1>3. CASE FlushEnd
    BY <1>3 DEF FlushEnd, Goto, Scheduled
<1>4. CASE CommitHead
  <2>1. stage = "commit" /\ rob[robHead].exception
    BY <1>1, <1>4 DEF CommitHead
  <2>2. flush = "none" /\ stage' = "writeback" /\ status'.exl
    BY <1>1, <1>4, <2>1 DEF CommitHead, RaiseException, Goto, Scheduled
  <2> QED
    BY <2>2 DEF Scheduled
<1>5. CASE CommitStop \/ Writeback \/ Execute \/ IssueEntry \/ IssueSkip \/ IssueStop
    BY <1>5 DEF CommitStop, Writeback, Execute, IssueEntry, IssueSkip, IssueStop,
                Goto, Scheduled, cp0Vars
<1>6. CASE DecodeStop \/ DecodeBusError \/ DecodeInstruction \/ DecodeStall
    BY <1>6 DEF DecodeStop, DecodeBusError, DecodeInstruction, DecodeStall,
                Goto, Scheduled, cp0Vars
<1>7. CASE Fetch \/ FetchStop
    BY <1>7 DEF Fetch, FetchStop, Goto, Scheduled, cp0Vars
<1>8. CASE EndCycle
  <2>1. stage = "interrupts" /\ stage' = "idle"
    BY <1>8 DEF EndCycle, Goto
  <2>2. flush' = flush \/ ~status.exl
    BY <1>8 DEF EndCycle
  <2> QED
    BY <2>1, <2>2 DEF Scheduled
<1>9. CASE HostWriteCp0 \/ HostReset
    BY <1>9 DEF HostWriteCp0, HostReset, Goto, Scheduled
<1>10. CASE UNCHANGED vars
    BY <1>10 DEF vars, cp0Vars, Scheduled
<1> QED
    BY <1>2, <1>3, <1>4, <1>5, <1>6, <1>7, <1>8, <1>9, <1>10 DEF Next, Cycle

(* Decode moves the fetch queue into the ring, so what bounds the ring is  *)
(* the sum of both. A ring past its capacity has a fetch error in slot 0:  *)
(* commit cannot pass it, and what fetch adds behind it is flushed in the  *)
(* next cycle.                                                             *)
InFlight == robCount + Len(fetchQ)

Room ==
    /\ Len(fetchQ) <= FetchSize
    /\ robCount > RobSize => rob[0].completed
    /\ robCount <= RobSize + FetchSize + Width
    /\ stage = "fetch" => turn <= Width
    /\ flush = "none" /\ stage \in {"writeback", "execute", "issue"} => robCount <= RobSize
    /\ flush = "none" /\ stage = "decode" => InFlight <= RobSize + FetchSize
    /\ flush = "none" /\ stage = "fetch" => InFlight <= RobSize + FetchSize + turn
    /\ flush = "none" /\ stage \in {"interrupts", "idle", "commit"}
           => InFlight <= RobSize + FetchSize + Width
    /\ flush # "none" /\ stage \in {"writeback", "execute", "issue", "decode"}
           => InFlight <= RobSize + FetchSize + Width

LEMMA QueueSizes ==
    /\ FetchSize \in Nat \ {0} /\ Width \in Nat \ {0} /\ RobSize \in Nat \ {0}
    /\ IInv => Len(fetchQ) \in Nat /\ robCount \in Nat /\ turn \in Nat /\ robHead = 0
<1>1. FetchSize \in Nat \ {0} /\ Width \in Nat \ {0} /\ RobSize \in Nat \ {0}
    BY SizeAssumption
<1>2. IInv => Len(fetchQ) \in Nat /\ robCount \in Nat /\ turn \in Nat /\ robHead = 0
    BY LenProperties DEF IInv, TypeOK, Stuck
<1> QED
    BY <1>1, <1>2

LEMMA InitRoom == Init => Room
    BY QueueSizes DEF Init, Room, InFlight

(* A step that leaves the ring and the fetch queue alone. *)
LEMMA RoomWaits ==
    ASSUME IInv, Room, UNCHANGED <<fetchQ, robCount>>,
           rob[0].completed => rob'[0].completed,
           \/ stage' = stage /\ UNCHANGED <<flush, turn>>
           \/ /\ stage' = "flush"
           \/ /\ stage \in {"commit", "idle"} /\ stage' = "commit" /\ flush = "none" /\ flush' = flush
           \/ /\ stage \in {"commit", "writeback", "execute"}
              /\ stage' \in {"writeback", "execute", "issue"}
              /\ \/ flush' = "none" /\ robCount <= RobSize
                 \/ flush' # "none" /\ InFlight <= RobSize + FetchSize + Width
           \/ /\ stage = "issue" /\ stage' = "decode" /\ UNCHANGED flush
           \/ /\ stage = "decode" /\ stage' = "fetch" /\ turn' = 0 /\ UNCHANGED flush
           \/ /\ stage = "fetch" /\ stage' = "interrupts" /\ UNCHANGED flush
           \/ /\ stage \in {"interrupts", "idle"} /\ stage' = "idle"
              /\ flush' = "none" => flush = "none"
    PROVE  Room'
    BY QueueSizes DEF Room, InFlight

LEMMA RoomKept ==
    ASSUME IInv, Scheduled, Room, [Next]_vars
    PROVE  Room'
<1>1. /\ FetchSize \in Nat \ {0} /\ Width \in Nat \ {0} /\ RobSize \in Nat \ {0}
      /\ Len(fetchQ) \in Nat /\ robCount \in Nat /\ turn \in Nat /\ robHead = 0
    BY QueueSizes
<1>2. CASE StartCycle
  <2>1. /\ stage = "idle"
        /\ stage' = (IF flush = "none" THEN "commit" ELSE "flush")
        /\ UNCHANGED <<fetchQ, rob, robCount, flush>>
    BY <1>2 DEF StartCycle, Goto, fetchVars, robVars, cp0Vars
  <2> QED
    BY <2>1, RoomWaits
<1>3. CASE FlushEntry
  <2>1. stage' = "flush" /\ UNCHANGED <<fetchQ, rob, robCount>>
    BY <1>3 DEF FlushEntry, fetchVars, robVars
  <2> QED
    BY <2>1, RoomWaits
<1>4. CASE FlushEnd \/ HostReset
  <2>1. /\ fetchQ' = << >> /\ robCount' = 0 /\ flush' = "none"
        /\ stage' \in {"commit", "idle"}
    BY <1>4 DEF FlushEnd, HostReset, Goto
  <2>2. Len(fetchQ') = 0
    BY <2>1
  <2> QED
    BY <1>1, <2>1, <2>2 DEF Room, InFlight
<1>5. CASE CommitStop
  <2>1. /\ stage = "commit" /\ stage' = "writeback"
        /\ UNCHANGED <<fetchQ, rob, robCount, flush>>
        /\ robCount = 0 \/ turn = Width \/ ~rob[0].completed
    BY <1>1, <1>5 DEF CommitStop, Goto, fetchVars, robVars, cp0Vars
  <2>2. flush' = "none" /\ robCount <= RobSize
    BY <1>1, <2>1 DEF Scheduled, Room
  <2> QED
    BY <2>1, <2>2, RoomWaits
<1>6. CASE CommitHead
  <2>1. stage = "commit" /\ rob[robHead].exception
    BY <1>1, <1>6, Sizes DEF CommitHead, IInv, Stuck
  <2>2. /\ stage' = "writeback" /\ flush' = "ibe"
        /\ UNCHANGED <<fetchQ, rob, robCount>>
    BY <1>6, <2>1 DEF CommitHead, Goto, fetchVars
  <2>3. InFlight <= RobSize + FetchSize + Width
    BY <2>1 DEF Scheduled, Room
  <2> QED
    BY <2>1, <2>2, <2>3, RoomWaits
<1>7. CASE Writeback
  <2>1. /\ stage = "writeback" /\ stage' = "execute"
        /\ UNCHANGED <<fetchQ, rob, robCount, flush>>
    BY <1>7 DEF Writeback, Goto, fetchVars, robVars, cp0Vars
  <2> QED
    BY <2>1, RoomWaits DEF Room
<1>8. CASE Execute
  <2>1. /\ stage = "execute" /\ stage' = "issue"
        /\ UNCHANGED <<fetchQ, robCount, flush>>
    BY <1>8 DEF Execute, Goto, fetchVars, cp0Vars
  <2>2. rob[0].completed => rob'[0].completed
    BY <1>8, Sizes DEF Execute, IInv, TypeOK
  <2> QED
    BY <2>1, <2>2, RoomWaits DEF Room
<1>9. CASE IssueEntry \/ IssueSkip
  <2>1. stage' = stage /\ stage = "issue" /\ UNCHANGED <<fetchQ, rob, robCount, flush>>
    BY <1>9 DEF IssueEntry, IssueSkip, fetchVars, robVars, cp0Vars
  <2> QED
    BY <1>1, <2>1 DEF Room, InFlight
<1>10. CASE IssueStop
  <2>1. /\ stage = "issue" /\ stage' = "decode"
        /\ UNCHANGED <<fetchQ, rob, robCount, flush>>
    BY <1>10 DEF IssueStop, Goto, fetchVars, robVars, cp0Vars
  <2> QED
    BY <2>1, RoomWaits
<1>11. CASE DecodeStop \/ DecodeStall
  <2>1. /\ stage = "decode" /\ stage' = "fetch" /\ turn' = 0
        /\ UNCHANGED <<fetchQ, rob, robCount, flush>>
    BY <1>11 DEF DecodeStop, DecodeStall, Goto, fetchVars, robVars, cp0Vars
  <2> QED
    BY <2>1, RoomWaits
<1>12. ASSUME NEW e \in [pc : Nat, dest : Renamable \union {None},
                        completed : BOOLEAN, exception : BOOLEAN],
              stage = "decode", DecodeHasWork, AppendRob(e),
              robCount >= RobSize => e.completed,
              fetchQ' = Tail(fetchQ), UNCHANGED <<stage, turn, flush>>
       PROVE  Room'
  <2>1. Len(fetchQ') = Len(fetchQ) - 1 /\ Len(fetchQ) >= 1
    BY <1>1, <1>12 DEF DecodeHasWork, IInv, TypeOK
  <2>2. /\ robCount' = robCount + 1
        /\ rob'[robTail] = e
        /\ \A i \in Slots \ {robTail} : rob'[i] = rob[i]
    BY <1>12, RobAppended
  <2>3. InFlight' = InFlight
    BY <1>1, <2>1, <2>2 DEF InFlight
  <2>4. robCount' > RobSize => rob'[0].completed
    <3>1. CASE robCount < RobSize
        BY <1>1, <2>2, <3>1
    <3>2. CASE robCount = RobSize
        <4>1. robTail = 0
            BY <1>1, <3>2 DEF IInv, Stuck
        <4> QED
            BY <1>1, <1>12, <2>2, <3>2, <4>1
    <3>3. CASE robCount > RobSize
        BY <1>1, <1>12, <2>2, <3>3, Sizes DEF Room
    <3> QED
        BY <1>1, <3>1, <3>2, <3>3
  <2>5. InFlight <= RobSize + FetchSize + Width
    BY <1>1, <1>12 DEF Room, InFlight
  <2>6. robCount' <= RobSize + FetchSize + Width
    BY <1>1, <2>1, <2>2, <2>5 DEF InFlight
  <2> QED
    BY <1>1, <1>12, <2>1, <2>2, <2>3, <2>4, <2>5, <2>6 DEF Room
<1>13. CASE DecodeBusError
  <2> DEFINE e == [pc |-> Head(fetchQ).pc, dest |-> None,
                   completed |-> TRUE, exception |-> TRUE]
  <2>1. /\ stage = "decode" /\ DecodeHasWork /\ AppendRob(e)
        /\ fetchQ' = Tail(fetchQ) /\ UNCHANGED <<stage, turn, flush>>
    BY <1>13 DEF DecodeBusError, cp0Vars
  <2>2. e \in [pc : Nat, dest : Renamable \union {None},
              completed : BOOLEAN, exception : BOOLEAN]
    BY <2>1, FetchQueue DEF DecodeHasWork
  <2>3. e.completed
    OBVIOUS
  <2> HIDE DEF e
  <2> QED
    BY <1>12, <2>1, <2>2, <2>3
<1>14. CASE DecodeInstruction
  <2> DEFINE ins == Head(fetchQ).word
             e == [pc |-> Head(fetchQ).pc,
                   dest |-> IF ins.rd = 0 THEN None ELSE Allocated,
                   completed |-> FALSE, exception |-> FALSE]
  <2>1. /\ stage = "decode" /\ DecodeHasWork /\ AppendRob(e)
        /\ robCount < RobSize /\ ins # BusError /\ RenameDest(ins)
        /\ fetchQ' = Tail(fetchQ) /\ UNCHANGED <<stage, turn, flush>>
    BY <1>14 DEF DecodeInstruction, cp0Vars
  <2>2. ins \in Instructions /\ Head(fetchQ).pc \in Nat
    BY <2>1, FetchQueue DEF DecodeHasWork
  <2>3. Allocated \in Renamable \union {None}
    <3> HIDE DEF ins
    <3> QED
        BY <2>1, <2>2, Renamed
  <2>4. e \in [pc : Nat, dest : Renamable \union {None},
              completed : BOOLEAN, exception : BOOLEAN]
    BY <2>2, <2>3
  <2> HIDE DEF e
  <2> QED
    BY <1>1, <1>12, <2>1, <2>4
<1>15. CASE Fetch
  <2>1. /\ stage = "fetch" /\ turn < Width /\ Len(fetchQ) < FetchSize
        /\ turn' = turn + 1
        /\ UNCHANGED <<stage, rob, robCount, flush>>
    BY <1>15 DEF Fetch, FetchHasRoom, robVars, cp0Vars
  <2>2. Len(fetchQ') = Len(fetchQ) + 1
    BY <1>15 DEF Fetch, IInv, TypeOK
  <2> QED
    BY <1>1, <2>1, <2>2 DEF Room, InFlight
<1>16. CASE FetchStop
  <2>1. /\ stage = "fetch" /\ stage' = "interrupts"
        /\ UNCHANGED <<fetchQ, rob, robCount, flush>>
    BY <1>16 DEF FetchStop, Goto, fetchVars, robVars, cp0Vars
  <2> QED
    BY <2>1, RoomWaits
<1>17. CASE EndCycle
  <2>1. /\ stage = "interrupts" /\ stage' = "idle"
        /\ UNCHANGED <<fetchQ, rob, robCount>>
        /\ flush' = "int" \/ flush' = flush
    BY <1>17 DEF EndCycle, Goto, fetchVars, robVars
  <2> QED
    BY <2>1, RoomWaits
<1>18. CASE HostWriteCp0
  <2>1. UNCHANGED <<stage, turn, fetchQ, rob, robCount, flush>>
    BY <1>18 DEF HostWriteCp0, fetchVars, robVars
  <2> QED
    BY <2>1, RoomWaits
<1>19. CASE UNCHANGED vars
  <2>1. UNCHANGED <<stage, turn, fetchQ, rob, robCount, flush>>
    BY <1>19 DEF vars, fetchVars, robVars, cp0Vars
  <2> QED
    BY <2>1, RoomWaits
<1> QED
    BY <1>2, <1>3, <1>4, <1>5, <1>6, <1>7, <1>8, <1>9, <1>10, <1>11, <1>13,
       <1>14, <1>15, <1>16, <1>17, <1>18, <1>19 DEF Next, Cycle

-----------------------------------------------------------------------------
(* Program order: the tail of the ring follows from the count, so an entry *)
(* is overwritten by the one RobSize later.                                *)
Oldest == pc - Len(fetchQ) - robCount
First == IF robCount > RobSize THEN robCount - RobSize ELSE 0

Ordered ==
    /\ robTail = robCount % RobSize
    /\ \A j \in First .. robCount - 1 : rob[j % RobSize].pc = Oldest + j
    /\ \A k \in DOMAIN fetchQ : fetchQ[k].pc = Oldest + robCount + k - 1

LEMMA ModUnique ==
    ASSUME NEW R \in Nat \ {0}, NEW q \in Int, NEW r \in 0 .. R - 1
    PROVE  (q * R + r) % R = r
    OBVIOUS

LEMMA ModSplit ==
    ASSUME NEW R \in Nat \ {0}, NEW c \in Nat
    PROVE  c % R \in 0 .. R - 1 /\ c \div R \in Int /\ c = ((c \div R) * R) + (c % R)
<1>1. c % R \in 0 .. R - 1
    OBVIOUS
<1>2. c \div R \in Int
    OBVIOUS
<1>3. c = (R * (c \div R)) + (c % R)
    OBVIOUS
<1> QED
    BY <1>1, <1>2, <1>3

LEMMA NextSlot ==
    ASSUME NEW R \in Nat \ {0}, NEW c \in Nat
    PROVE  ((c % R) + 1) % R = (c + 1) % R
<1> DEFINE q == c \div R
           r == c % R
<1>1. r \in 0 .. R - 1 /\ q \in Int /\ c = q * R + r
    BY ModSplit
<1> HIDE DEF q, r
<1>2. CASE r + 1 < R
  <2>1. r + 1 \in 0 .. R - 1
    BY <1>1, <1>2
  <2>2. (r + 1) % R = r + 1
    BY <2>1, WrapsOnce
  <2>3. (q * R + (r + 1)) % R = r + 1
    BY <1>1, <2>1, ModUnique
  <2>4. q * R + (r + 1) = c + 1
    BY <1>1
  <2> QED
    BY <2>2, <2>3, <2>4 DEF r
<1>3. CASE r + 1 = R
  <2>1. 0 \in 0 .. R - 1
    OBVIOUS
  <2>2. (0 + R) % R = 0
    BY <2>1, WrapsOnce
  <2>3. ((q + 1) * R + 0) % R = 0
    BY <1>1, <2>1, ModUnique
  <2>4. (q + 1) * R + 0 = c + 1
    BY <1>1, <1>3
  <2> QED
    BY <1>3, <2>2, <2>3, <2>4 DEF r
<1> QED
    BY <1>1, <1>2, <1>3

LEMMA OtherSlot ==
    ASSUME NEW R \in Nat \ {0}, NEW j \in Nat, NEW c \in Nat, j < c, c - j < R
    PROVE  j % R # c % R
<1> SUFFICES ASSUME j % R = c % R PROVE FALSE
    OBVIOUS
<1> DEFINE p == j \div R
           q == c \div R
<1>1. p \in Int /\ q \in Int /\ c - j = q * R - p * R
    BY ModSplit
<1> HIDE DEF p, q
<1>2. q * R - p * R = (q - p) * R
    BY <1>1
<1>3. q - p <= 0 \/ q - p >= 1
    BY <1>1
<1>4. \A d \in Int : (d <= 0 => d * R <= 0) /\ (d >= 1 => d * R >= R)
    OBVIOUS
<1> QED
    BY <1>1, <1>2, <1>3, <1>4

LEMMA InitOrdered == Init => Ordered
<1> SUFFICES ASSUME Init PROVE Ordered
    OBVIOUS
<1>1. /\ robCount = 0 /\ robTail = 0 /\ fetchQ = << >> /\ pc = 0
      /\ RobSize \in Nat \ {0}
    BY SizeAssumption DEF Init
<1>2. 0 % RobSize = 0
    BY <1>1
<1> QED
    BY <1>1, <1>2 DEF Ordered, First

(* A step that leaves the fetch queue, the counters and the entries' pcs.  *)
LEMMA OrderedWaits ==
    ASSUME Ordered, UNCHANGED <<pc, fetchQ, robTail, robCount>>,
           IInv, \A i \in Slots : rob'[i].pc = rob[i].pc
    PROVE  Ordered'
<1>1. RobSize \in Nat \ {0} /\ robCount \in Nat
    BY QueueSizes
<1>2. Oldest' = Oldest /\ First' = First
    BY DEF Oldest, First
<1>3. \A j \in First .. robCount - 1 : j % RobSize \in Slots
    BY <1>1, InRing DEF First, Slots
<1> QED
    BY <1>2, <1>3 DEF Ordered

LEMMA FirstMoves ==
    ASSUME NEW R \in Nat \ {0}, NEW c \in Nat, NEW f, NEW g,
           f = IF c > R THEN c - R ELSE 0,
           g = IF c + 1 > R THEN c + 1 - R ELSE 0
    PROVE  /\ g \in Nat /\ f \in Nat /\ f <= g
           /\ \A j \in Nat : g <= j => c - j < R
<1>1. CASE c + 1 > R
    BY <1>1
<1>2. CASE c + 1 <= R
    BY <1>2
<1> QED
    BY <1>1, <1>2

(* Appending the head of the fetch queue to the ring. *)
LEMMA OrderedAppend ==
    ASSUME IInv, Ordered, fetchQ # << >>, fetchQ' = Tail(fetchQ), pc' = pc,
           NEW e \in [pc : Nat, dest : Renamable \union {None},
                     completed : BOOLEAN, exception : BOOLEAN],
           e.pc = Head(fetchQ).pc, AppendRob(e)
    PROVE  Ordered'
<1>1. /\ RobSize \in Nat \ {0} /\ robCount \in Nat /\ Len(fetchQ) \in Nat /\ pc \in Nat
    BY QueueSizes DEF IInv, TypeOK
<1>2. /\ Len(fetchQ) >= 1 /\ DOMAIN fetchQ = 1 .. Len(fetchQ)
      /\ Len(fetchQ') = Len(fetchQ) - 1 /\ DOMAIN fetchQ' = 1 .. Len(fetchQ) - 1
      /\ \A k \in 1 .. Len(fetchQ) - 1 : fetchQ'[k] = fetchQ[k + 1]
      /\ Head(fetchQ) = fetchQ[1]
    BY DEF IInv, TypeOK
<1>3. /\ rob'[robTail] = e
      /\ \A i \in Slots \ {robTail} : rob'[i] = rob[i]
      /\ robCount' = robCount + 1
    BY RobAppended
<1>4. robTail = robCount % RobSize
    BY DEF Ordered
<1>5. robTail' = robCount' % RobSize
  <2>1. robTail' = (robTail + 1) % RobSize
    BY DEF AppendRob
  <2> QED
    BY <1>1, <1>3, <1>4, <2>1, NextSlot
<1>6. Oldest' = Oldest /\ Oldest \in Int
    BY <1>1, <1>2, <1>3 DEF Oldest
<1>7. ASSUME NEW k \in DOMAIN fetchQ'
      PROVE  fetchQ'[k].pc = Oldest + robCount' + k - 1
  <2>1. k \in 1 .. Len(fetchQ) - 1 /\ k + 1 \in DOMAIN fetchQ
    BY <1>1, <1>2, <1>7
  <2>2. fetchQ[k + 1].pc = Oldest + robCount + (k + 1) - 1
    BY <2>1 DEF Ordered
  <2> QED
    BY <1>1, <1>2, <1>3, <1>6, <2>1, <2>2
<1> DEFINE f == IF robCount + 1 > RobSize THEN robCount + 1 - RobSize ELSE 0
<1>11. First' = f
  <2>1. robCount' = robCount + 1
    BY <1>3
  <2>2. First' = IF robCount' > RobSize THEN robCount' - RobSize ELSE 0
    BY DEF First
  <2> QED
    BY <1>1, <2>1, <2>2
<1> HIDE DEF f
<1>8. /\ f \in Nat /\ First \in Nat /\ First <= f
      /\ \A j \in Nat : f <= j => robCount - j < RobSize
    BY <1>1, FirstMoves DEF First, f
<1>9. ASSUME NEW j \in Int, f <= j, j <= robCount
      PROVE  rob'[j % RobSize].pc = Oldest + j
  <2>0. j \in Nat
    BY <1>8, <1>9
  <2>1. j \in Nat /\ j % RobSize \in Slots
    BY <1>1, <2>0, InRing DEF Slots
  <2>2. CASE j = robCount
    <3>1. e.pc = Oldest + robCount
        BY <1>1, <1>2, <1>6 DEF Ordered
    <3> QED
        BY <1>3, <1>4, <2>2, <3>1
  <2>3. CASE j < robCount
    <3>1. robCount - j < RobSize
        BY <1>8, <1>9, <2>0
    <3>2. j % RobSize # robTail
        BY <1>1, <1>4, <2>1, <2>3, <3>1, OtherSlot
    <3>3. rob'[j % RobSize] = rob[j % RobSize]
        BY <1>3, <2>1, <3>2
    <3>4. j \in First .. robCount - 1
        BY <1>1, <1>8, <1>9, <2>0, <2>3
    <3> QED
        BY <3>3, <3>4 DEF Ordered
  <2> QED
    BY <1>1, <1>3, <1>8, <1>9, <2>1, <2>2, <2>3
<1>10. \A j \in First' .. robCount' - 1 : rob'[j % RobSize].pc = Oldest + j
  <2>1. \A j \in f .. robCount' - 1 : j \in Int /\ f <= j /\ j <= robCount
    BY <1>1, <1>3, <1>8
  <2> QED
    BY <2>1, <1>9, <1>11
<1> QED
    BY <1>5, <1>6, <1>7, <1>10 DEF Ordered

LEMMA OrderedKept ==
    ASSUME IInv, Ordered, [Next]_vars
    PROVE  Ordered'
<1>1. CASE \/ StartCycle \/ FlushEntry \/ CommitStop \/ Writeback \/ IssueEntry
           \/ IssueSkip \/ IssueStop \/ DecodeStop \/ DecodeStall \/ FetchStop
           \/ EndCycle \/ HostWriteCp0 \/ UNCHANGED vars
  <2>1. UNCHANGED <<pc, fetchQ, rob, robTail, robCount>>
    BY <1>1 DEF StartCycle, FlushEntry, CommitStop, Writeback, IssueEntry,
                IssueSkip, IssueStop, DecodeStop, DecodeStall, FetchStop,
                EndCycle, HostWriteCp0, vars, fetchVars, robVars
  <2> QED
    BY <2>1, OrderedWaits
<1>2. CASE CommitHead
  <2>1. rob[robHead].exception
    BY <1>2, Sizes DEF CommitHead, IInv, Stuck
  <2>2. UNCHANGED <<pc, fetchQ, rob, robTail, robCount>>
    BY <1>2, <2>1 DEF CommitHead, fetchVars
  <2> QED
    BY <2>2, OrderedWaits
<1>3. CASE Execute
  <2>1. UNCHANGED <<pc, fetchQ, robTail, robCount>>
    BY <1>3 DEF Execute, fetchVars
  <2>2. \A i \in Slots : rob'[i].pc = rob[i].pc
    BY <1>3 DEF Execute, IInv, TypeOK
  <2> QED
    BY <2>1, <2>2, OrderedWaits
<1>4. CASE FlushEnd \/ HostReset
  <2>1. /\ pc' = 0 /\ fetchQ' = << >> /\ robTail' = 0 /\ robCount' = 0
        /\ RobSize \in Nat \ {0}
    BY <1>4, SizeAssumption DEF FlushEnd, HostReset
  <2>2. 0 % RobSize = 0
    BY <2>1
  <2> QED
    BY <2>1, <2>2 DEF Ordered, First
<1>5. CASE DecodeBusError
  <2> DEFINE e == [pc |-> Head(fetchQ).pc, dest |-> None,
                   completed |-> TRUE, exception |-> TRUE]
  <2>1. /\ fetchQ # << >> /\ AppendRob(e)
        /\ fetchQ' = Tail(fetchQ) /\ pc' = pc
    BY <1>5 DEF DecodeBusError, DecodeHasWork
  <2>2. /\ e \in [pc : Nat, dest : Renamable \union {None},
                 completed : BOOLEAN, exception : BOOLEAN]
        /\ e.pc = Head(fetchQ).pc
    BY <2>1, FetchQueue
  <2> HIDE DEF e
  <2> QED
    BY <2>1, <2>2, OrderedAppend
<1>6. CASE DecodeInstruction
  <2> DEFINE ins == Head(fetchQ).word
             e == [pc |-> Head(fetchQ).pc,
                   dest |-> IF ins.rd = 0 THEN None ELSE Allocated,
                   completed |-> FALSE, exception |-> FALSE]
  <2>1. /\ fetchQ # << >> /\ AppendRob(e) /\ ins # BusError /\ RenameDest(ins)
        /\ fetchQ' = Tail(fetchQ) /\ pc' = pc
    BY <1>6 DEF DecodeInstruction, DecodeHasWork
  <2>2. ins \in Instructions /\ Head(fetchQ).pc \in Nat
    BY <2>1, FetchQueue
  <2>3. Allocated \in Renamable \union {None}
    <3> HIDE DEF ins
    <3> QED
        BY <2>1, <2>2, Renamed
  <2>4. /\ e \in [pc : Nat, dest : Renamable \union {None},
                 completed : BOOLEAN, exception : BOOLEAN]
        /\ e.pc = Head(fetchQ).pc
    BY <2>2, <2>3
  <2> HIDE DEF e
  <2> QED
    BY <2>1, <2>4, OrderedAppend
<1>7. CASE Fetch
  <2>1. /\ pc' = pc + 1 /\ UNCHANGED <<rob, robTail, robCount>>
    BY <1>7 DEF Fetch, robVars
  <2>2. PICK w \in Words : fetchQ' = Append(fetchQ, [pc |-> pc, word |-> w])
    BY <1>7 DEF Fetch
  <2>3. /\ pc \in Nat /\ robCount \in Nat /\ Len(fetchQ) \in Nat
        /\ fetchQ \in Seq([pc : Nat, word : Words])
    BY QueueSizes DEF IInv, TypeOK
  <2>4. /\ Len(fetchQ') = Len(fetchQ) + 1
        /\ DOMAIN fetchQ' = 1 .. Len(fetchQ) + 1 /\ DOMAIN fetchQ = 1 .. Len(fetchQ)
        /\ \A k \in 1 .. Len(fetchQ) : fetchQ'[k] = fetchQ[k]
        /\ fetchQ'[Len(fetchQ) + 1] = [pc |-> pc, word |-> w]
    BY <2>2, <2>3
  <2>5. Oldest' = Oldest /\ Oldest \in Int
    BY <2>1, <2>3, <2>4 DEF Oldest
  <2>6. ASSUME NEW k \in DOMAIN fetchQ'
        PROVE  fetchQ'[k].pc = Oldest + robCount + k - 1
    <3>1. CASE k = Len(fetchQ) + 1
        BY <2>3, <2>4, <3>1 DEF Oldest
    <3>2. CASE k \in 1 .. Len(fetchQ)
        BY <2>4, <3>2 DEF Ordered
    <3> QED
        BY <2>3, <2>4, <2>6, <3>1, <3>2
  <2>7. First' = First
    BY <2>1 DEF First
  <2> QED
    BY <2>1, <2>5, <2>6, <2>7 DEF Ordered
<1> QED
    BY <1>1, <1>2, <1>3, <1>4, <1>5, <1>6, <1>7 DEF Next, Cycle

-----------------------------------------------------------------------------
(* What the rename map and the issue queue point to is there and waits to  *)
(* be executed, as long as nothing of the ring has been overwritten.       *)
Pending(d) == d < robCount /\ ~rob[d].completed

MapLive ==
    robCount < RobSize =>
        \A a \in Arch : map[a].rob # None =>
            Pending(map[a].rob) /\ rob[map[a].rob].dest = map[a].phys

IssueLive ==
    robCount <= RobSize =>
        \A k \in DOMAIN issueQ : \A d \in issueQ[k].deps : d # None => Pending(d)

Live == MapLive /\ IssueLive

LEMMA InitLive == Init => Live
<1> SUFFICES ASSUME Init PROVE Live
    OBVIOUS
<1>1. map = IdentityMap /\ issueQ = << >>
    BY DEF Init
<1> QED
    BY <1>1 DEF Live, MapLive, IssueLive, IdentityMap

LEMMA Pointers ==
    ASSUME IInv
    PROVE  /\ \A a \in Arch : map[a].rob # None => map[a].rob \in Slots
           /\ \A k \in DOMAIN issueQ : issueQ[k].deps \subseteq Slots \union {None}
<1>1. \A a \in Arch : map[a].rob # None => map[a].rob \in Slots
    BY DEF IInv, TypeOK
<1> DEFINE Waiting == [deps : SUBSET (Slots \union {None}), unit : Units \ {ALU2}]
<1>2. issueQ \in Seq(Waiting)
    BY DEF IInv, TypeOK
<1>3. \A k \in DOMAIN issueQ : issueQ[k] \in Waiting
  <2> HIDE DEF Waiting
  <2> QED
    BY <1>2, LenProperties, ElementOfSeq
<1>4. \A k \in DOMAIN issueQ : issueQ[k].deps \in SUBSET (Slots \union {None})
    BY <1>3
<1> QED
    BY <1>1, <1>4

(* A step that leaves the ring, and forgets awaited slots at most. *)
LEMMA LiveWaits ==
    ASSUME IInv, Live, UNCHANGED robCount, \A i \in Slots : rob'[i] = rob[i],
           map' = map \/ robCount >= RobSize,
           \A k \in DOMAIN issueQ' : \E l \in DOMAIN issueQ :
               issueQ'[k].deps \subseteq issueQ[l].deps
    PROVE  Live'
<1>1. /\ \A a \in Arch : map[a].rob # None => map[a].rob \in Slots
      /\ \A k \in DOMAIN issueQ : issueQ[k].deps \subseteq Slots \union {None}
    BY Pointers
<1>2. \A d \in Slots : Pending(d) => Pending(d)'
    BY DEF Pending
<1>3. MapLive'
  <2> SUFFICES ASSUME robCount' < RobSize, NEW a \in Arch, map'[a].rob # None
      PROVE  Pending(map[a].rob)' /\ rob'[map'[a].rob].dest = map'[a].phys
    BY DEF MapLive
  <2> QED
    BY <1>1, <1>2, QueueSizes DEF Live, MapLive
<1>4. IssueLive'
  <2> SUFFICES ASSUME robCount' <= RobSize, NEW k \in DOMAIN issueQ',
                      NEW d \in issueQ'[k].deps, d # None
      PROVE  Pending(d)'
    BY DEF IssueLive
  <2>1. PICK l \in DOMAIN issueQ : d \in issueQ[l].deps
    OBVIOUS
  <2>2. Pending(d) /\ d \in Slots
    BY <1>1, <2>1 DEF Live, IssueLive
  <2> QED
    BY <1>2, <2>2
<1> QED
    BY <1>3, <1>4 DEF Live

(* What was pending before an entry is appended to a ring with room still is. *)
LEMMA PendingAppend ==
    ASSUME IInv, NEW e \in [pc : Nat, dest : Renamable \union {None},
                           completed : BOOLEAN, exception : BOOLEAN],
           AppendRob(e), robCount < RobSize,
           NEW d \in Slots, Pending(d)
    PROVE  Pending(d)' /\ rob'[d] = rob[d]
<1>1. /\ robTail \in Slots
      /\ \A i \in Slots \ {robTail} : rob'[i] = rob[i]
      /\ robCount \in Nat /\ robCount' = robCount + 1
    BY RobAppended
<1>2. robTail = robCount
    BY DEF IInv, Stuck
<1>3. d < robCount /\ d # robTail
    BY <1>1, <1>2, Sizes DEF Pending, Slots
<1>4. d < robCount + 1
    BY <1>1, <1>3, Sizes DEF Slots
<1> QED
    BY <1>1, <1>3, <1>4 DEF Pending

LEMMA RemoveAtElements ==
    ASSUME NEW S, NEW s \in Seq(S), NEW i \in 1 .. Len(s)
    PROVE  \A k \in DOMAIN RemoveAt(s, i) : \E l \in DOMAIN s : RemoveAt(s, i)[k] = s[l]
<1> DEFINE n == Len(s)
           a == SubSeq(s, 1, i - 1)
           b == SubSeq(s, i + 1, n)
<1>1. /\ n \in Nat /\ DOMAIN s = 1 .. n /\ \A k \in 1 .. n : s[k] \in S
      /\ i \in Int /\ 1 <= i /\ i <= n
    BY LenProperties, ElementOfSeq
<1>2. a \in Seq(S) /\ Len(a) = i - 1 /\ \A k \in 1 .. i - 1 : a[k] = s[k]
    BY <1>1, SubSeqProperties
<1> HIDE DEF n
<1>3. b \in Seq(S) /\ Len(b) = n - i /\ \A k \in 1 .. n - i : b[k] = s[k + i]
  <2>1. /\ b \in Seq(S)
        /\ Len(b) = IF i + 1 <= n THEN n - (i + 1) + 1 ELSE 0
        /\ \A k \in 1 .. n - (i + 1) + 1 : b[k] = s[(i + 1) + k - 1]
    BY <1>1, SubSeqProperties
  <2> HIDE DEF b
  <2>2. n - (i + 1) + 1 = n - i /\ (i + 1 <= n \/ n - i = 0)
    BY <1>1
  <2>3. \A k \in 1 .. n - i : (i + 1) + k - 1 = k + i
    BY <1>1
  <2> QED
    BY <2>1, <2>2, <2>3
<1> HIDE DEF a, b
<1>4. /\ DOMAIN (a \o b) = 1 .. n - 1
      /\ \A k \in 1 .. n - 1 :
            (a \o b)[k] = IF k <= i - 1 THEN a[k] ELSE b[k - (i - 1)]
  <2>1. /\ a \o b \in Seq(S) /\ Len(a \o b) = Len(a) + Len(b)
        /\ \A k \in 1 .. Len(a) + Len(b) :
              (a \o b)[k] = IF k <= Len(a) THEN a[k] ELSE b[k - Len(a)]
    BY <1>2, <1>3, ConcatProperties
  <2>2. Len(a) + Len(b) = n - 1
    BY <1>1, <1>2, <1>3
  <2>3. DOMAIN (a \o b) = 1 .. Len(a \o b)
    BY <2>1, LenProperties
  <2> QED
    BY <1>2, <2>1, <2>2, <2>3
<1>5. ASSUME NEW k \in 1 .. n - 1
      PROVE  \E l \in DOMAIN s : (a \o b)[k] = s[l]
  <2>1. k \in 1 .. n /\ k + 1 \in 1 .. n
    BY <1>1, <1>5
  <2>2. CASE k <= i - 1
    <3>1. k \in 1 .. i - 1
        BY <1>1, <2>1, <2>2
    <3>2. (a \o b)[k] = s[k]
        BY <1>2, <1>4, <1>5, <2>2, <3>1
    <3> QED
        BY <1>1, <2>1, <3>2
  <2>3. CASE ~(k <= i - 1)
    <3> DEFINE j == k - (i - 1)
    <3>1. j \in 1 .. n - i /\ j + i = k + 1
        BY <1>1, <1>5, <2>3
    <3>2. (a \o b)[k] = b[j]
        BY <1>4, <1>5, <2>3
    <3> HIDE DEF j
    <3>3. b[j] = s[k + 1]
        BY <1>3, <3>1
    <3> QED
        BY <1>1, <2>1, <3>2, <3>3
  <2> QED
    BY <2>2, <2>3
<1> QED
    BY <1>4, <1>5 DEF RemoveAt, a, b, n

LEMMA LiveKept ==
    ASSUME IInv, Live, [Next]_vars
    PROVE  Live'
<1>0. /\ issueQ \in Seq([deps : SUBSET (Slots \union {None}), unit : Units \ {ALU2}])
      /\ Len(issueQ) \in Nat /\ DOMAIN issueQ = 1 .. Len(issueQ)
      /\ scan \in Nat \ {0}
    BY DEF IInv, TypeOK
<1>1. CASE \/ StartCycle \/ FlushEntry \/ CommitStop \/ Writeback \/ IssueStop
           \/ DecodeStop \/ Fetch \/ FetchStop
           \/ EndCycle \/ HostWriteCp0 \/ UNCHANGED vars
  <2>1. UNCHANGED <<map, issueQ, rob, robCount>>
    BY <1>1 DEF StartCycle, FlushEntry, CommitStop, Writeback, IssueStop,
                DecodeStop, Fetch, FetchStop, EndCycle, HostWriteCp0,
                vars, renameVars, robVars
  <2> QED
    BY <2>1, LiveWaits
<1>2. CASE CommitHead
  <2>1. rob[robHead].exception
    BY <1>2, Sizes DEF CommitHead, IInv, Stuck
  <2>2. UNCHANGED <<map, issueQ, rob, robCount>>
    BY <1>2, <2>1 DEF CommitHead, renameVars
  <2> QED
    BY <2>2, LiveWaits
<1>3. CASE Execute
  <2>1. UNCHANGED <<map, issueQ, robCount>>
    BY <1>3 DEF Execute, renameVars
  <2>2. \A i \in Slots : rob'[i] = rob[i]
    BY <1>3 DEF Execute, IInv, TypeOK, Stuck
  <2> QED
    BY <2>1, <2>2, LiveWaits
<1>4. CASE DecodeStall
  <2>1. UNCHANGED <<issueQ, rob, robCount>> /\ robCount >= RobSize
    BY <1>4 DEF DecodeStall, robVars
  <2> QED
    BY <2>1, LiveWaits
<1>5. CASE FlushEnd \/ HostReset
  <2>1. map' = IdentityMap /\ issueQ' = << >>
    BY <1>5 DEF FlushEnd, HostReset
  <2>2. \A a \in Arch : map'[a].rob = None
    BY <2>1 DEF IdentityMap
  <2> QED
    BY <2>1, <2>2 DEF Live, MapLive, IssueLive
<1>6. CASE IssueEntry
  <2>1. /\ scan \in 1 .. Len(issueQ) /\ issueQ' = RemoveAt(issueQ, scan)
        /\ UNCHANGED <<map, rob, robCount>>
    BY <1>0, <1>6 DEF IssueEntry, renameVars, robVars
  <2>2. \A k \in DOMAIN issueQ' : \E l \in DOMAIN issueQ : issueQ'[k] = issueQ[l]
    BY <1>0, <2>1, RemoveAtElements
  <2> QED
    BY <2>1, <2>2, LiveWaits
<1>7. CASE IssueSkip
  <2>1. /\ scan \in 1 .. Len(issueQ)
        /\ issueQ' = [issueQ EXCEPT ![scan].deps = StillAwaited(@)]
        /\ UNCHANGED <<map, rob, robCount>>
    BY <1>0, <1>7 DEF IssueSkip, renameVars, robVars
  <2>2. \A k \in DOMAIN issueQ' : issueQ'[k].deps \subseteq issueQ[k].deps
    BY <1>0, <2>1 DEF StillAwaited
  <2>3. DOMAIN issueQ' = DOMAIN issueQ
    BY <1>0, <2>1
  <2> QED
    BY <2>1, <2>2, <2>3, LiveWaits
<1>8. CASE DecodeBusError
  <2> DEFINE e == [pc |-> Head(fetchQ).pc, dest |-> None,
                   completed |-> TRUE, exception |-> TRUE]
  <2>1. fetchQ # << >> /\ AppendRob(e) /\ UNCHANGED <<map, issueQ>>
    BY <1>8 DEF DecodeBusError, DecodeHasWork, renameVars
  <2>2. e \in [pc : Nat, dest : Renamable \union {None},
              completed : BOOLEAN, exception : BOOLEAN]
    BY <2>1, FetchQueue
  <2> HIDE DEF e
  <2>3. robCount \in Nat /\ robCount' = robCount + 1 /\ RobSize \in Nat
    BY <2>1, <2>2, RobAppended, Sizes
  <2>4. robCount < RobSize => \A d \in Slots : Pending(d) => Pending(d)' /\ rob'[d] = rob[d]
    BY <2>1, <2>2, PendingAppend
  <2>5. /\ \A a \in Arch : map[a].rob # None => map[a].rob \in Slots
        /\ \A k \in DOMAIN issueQ : issueQ[k].deps \subseteq Slots \union {None}
    BY Pointers
  <2>6. MapLive'
    <3> SUFFICES ASSUME robCount' < RobSize, NEW a \in Arch, map[a].rob # None
        PROVE  Pending(map[a].rob)' /\ rob'[map[a].rob].dest = map[a].phys
        BY <2>1 DEF MapLive, Pending
    <3>1. robCount < RobSize
        BY <2>3
    <3> QED
        BY <2>1, <2>4, <2>5, <3>1 DEF Live, MapLive
  <2>7. IssueLive'
    <3> SUFFICES ASSUME robCount' <= RobSize, NEW k \in DOMAIN issueQ,
                        NEW d \in issueQ[k].deps, d # None
        PROVE  Pending(d)'
        BY <2>1 DEF IssueLive
    <3>1. robCount < RobSize /\ robCount <= RobSize
        BY <2>3
    <3> QED
        BY <2>4, <2>5, <3>1 DEF Live, IssueLive
  <2> QED
    BY <2>6, <2>7 DEF Live
<1>9. CASE DecodeInstruction
  <2> DEFINE ins == Head(fetchQ).word
             e == [pc |-> Head(fetchQ).pc,
                   dest |-> IF ins.rd = 0 THEN None ELSE Allocated,
                   completed |-> FALSE, exception |-> FALSE]
  <2>1. /\ fetchQ # << >> /\ AppendRob(e) /\ ins # BusError /\ RenameDest(ins)
        /\ robCount < RobSize
        /\ issueQ' = Append(issueQ, [deps |-> Awaited(ins), unit |-> ins.unit])
    BY <1>9 DEF DecodeInstruction, DecodeHasWork
  <2>2. ins \in Instructions /\ Head(fetchQ).pc \in Nat
    BY <2>1, FetchQueue
  <2>3. ~e.completed /\ (ins.rd # 0 => e.dest = Allocated)
    OBVIOUS
  <2> HIDE DEF ins
  <2>4. Allocated \in Renamable \union {None}
    BY <2>1, <2>2, Renamed
  <2>5. e \in [pc : Nat, dest : Renamable \union {None},
              completed : BOOLEAN, exception : BOOLEAN]
    BY <2>2, <2>4
  <2> HIDE DEF e
  <2>6. /\ robCount \in Nat /\ robCount' = robCount + 1 /\ RobSize \in Nat
        /\ robTail \in Slots /\ rob'[robTail] = e /\ robTail = robCount
    BY <2>1, <2>5, RobAppended, Sizes DEF IInv, Stuck
  <2>7. \A d \in Slots : Pending(d) => Pending(d)' /\ rob'[d] = rob[d]
    BY <2>1, <2>5, PendingAppend
  <2>8. \A d \in Slots : d = robTail => Pending(d)'
    <3>1. robTail < robCount' /\ ~rob'[robTail].completed
        BY <2>3, <2>6
    <3> QED
        BY <3>1 DEF Pending
  <2>9. /\ \A a \in Arch : map[a].rob # None =>
              /\ map[a].rob \in Slots /\ Pending(map[a].rob)
              /\ rob[map[a].rob].dest = map[a].phys
        /\ \A k \in DOMAIN issueQ : \A d \in issueQ[k].deps :
              d # None => d \in Slots /\ Pending(d)
    <3>1. robCount <= RobSize
        BY <2>1, <2>6
    <3> QED
        BY <2>1, <3>1, Pointers DEF Live, MapLive, IssueLive
  <2>10. MapLive'
    <3> SUFFICES ASSUME NEW a \in Arch, map'[a].rob # None
        PROVE  Pending(map[a].rob)' /\ rob'[map'[a].rob].dest = map'[a].phys
        BY DEF MapLive
    <3>1. CASE ins.rd # 0 /\ a = ins.rd
        <4>1. map'[a] = [phys |-> Allocated, rob |-> robTail]
            BY <2>1, <2>2, <3>1 DEF RenameDest, IInv, TypeOK, Instructions
        <4> QED
            BY <2>3, <2>6, <2>8, <3>1, <4>1
    <3>2. CASE ins.rd = 0 \/ a # ins.rd
        <4>1. map'[a] = map[a]
            BY <2>1, <2>2, <3>2 DEF RenameDest, renameVars, IInv, TypeOK, Instructions
        <4> QED
            BY <2>7, <2>9, <4>1
    <3> QED
        BY <3>1, <3>2
  <2>11. IssueLive'
    <3> SUFFICES ASSUME NEW k \in DOMAIN issueQ', NEW d \in issueQ'[k].deps, d # None
        PROVE  Pending(d)'
        BY DEF IssueLive
    <3>1. CASE k \in DOMAIN issueQ
        <4>1. issueQ'[k] = issueQ[k]
            BY <1>0, <2>1, <3>1
        <4> QED
            BY <2>7, <2>9, <3>1, <4>1
    <3>2. CASE k = Len(issueQ) + 1
        <4>1. issueQ'[k].deps = Awaited(ins)
            BY <1>0, <2>1, <3>2
        <4>2. PICK s \in ins.src : d = map[s].rob
            BY <4>1 DEF Awaited
        <4>3. s \in Arch
            BY <2>2 DEF Instructions
        <4> QED
            BY <2>7, <2>9, <4>2, <4>3
    <3>3. k \in DOMAIN issueQ \/ k = Len(issueQ) + 1
        BY <1>0, <2>1
    <3> QED
        BY <3>1, <3>2, <3>3
  <2> QED
    BY <2>10, <2>11 DEF Live
<1> QED
    BY <1>1, <1>2, <1>3, <1>4, <1>5, <1>6, <1>7, <1>8, <1>9 DEF Next, Cycle

LEMMA PushContents ==
    ASSUME NEW S, NEW s \in Seq(S), NEW e \in S
    PROVE  Contents(s) \subseteq Contents(<<e>> \o s) /\ e \in Contents(<<e>> \o s)
<1> DEFINE t == <<e>> \o s
<1>1. /\ Len(s) \in Nat /\ DOMAIN s = 1 .. Len(s) /\ DOMAIN t = 1 .. Len(s) + 1
      /\ t[1] = e /\ \A i \in 2 .. Len(s) + 1 : t[i] = s[i - 1]
    OBVIOUS
<1> HIDE DEF t
<1>2. e \in Contents(t)
    BY <1>1 DEF Contents
<1>3. ASSUME NEW i \in DOMAIN s PROVE s[i] \in Contents(t)
  <2>1. i + 1 \in 2 .. Len(s) + 1 /\ i + 1 - 1 = i
    BY <1>1
  <2>2. t[i + 1] = s[i]
    BY <1>1, <2>1
  <2> QED
    BY <1>1, <2>1, <2>2 DEF Contents
<1> QED
    BY <1>2, <1>3 DEF Contents, t

LEMMA PopContents ==
    ASSUME NEW S, NEW s \in Seq(S), s # << >>
    PROVE  Contents(s) \subseteq Contents(Tail(s)) \union {Head(s)}
<1> DEFINE t == Tail(s)
<1>1. /\ Len(s) \in Nat \ {0} /\ DOMAIN s = 1 .. Len(s) /\ DOMAIN t = 1 .. Len(s) - 1
      /\ Head(s) = s[1] /\ \A i \in 1 .. Len(s) - 1 : t[i] = s[i + 1]
    OBVIOUS
<1> HIDE DEF t
<1>2. ASSUME NEW i \in DOMAIN s PROVE s[i] \in Contents(t) \union {Head(s)}
  <2>1. CASE i = 1
    BY <1>1, <2>1
  <2>2. CASE i # 1
    <3>1. i - 1 \in 1 .. Len(s) - 1 /\ i - 1 + 1 = i
        BY <1>1, <2>2
    <3>2. t[i - 1] = s[i]
        BY <1>1, <3>1
    <3> QED
        BY <1>1, <3>1, <3>2 DEF Contents
  <2> QED
    BY <2>1, <2>2
<1> QED
    BY <1>2 DEF Contents, t

(* While the ring has room the slot that is appended to names no register. *)
LEMMA TailHoldsNothing ==
    ASSUME IInv, NEW e \in [pc : Nat, dest : Renamable \union {None},
                           completed : BOOLEAN, exception : BOOLEAN],
           AppendRob(e), robCount < RobSize
    PROVE  \A i \in Slots : rob[i].dest # None => rob'[i] = rob[i]
<1>1. robTail = robCount /\ robCount \in Nat /\ RobSize \in Nat
    BY Sizes DEF IInv, Stuck, TypeOK
<1>2. \A i \in Slots : rob[i].dest # None => i # robTail
    BY <1>1, Sizes DEF IInv, Ownership, Slots
<1> QED
    BY <1>2, RobAppended

-----------------------------------------------------------------------------
(* A flush has given back the registers of the slots it has passed. *)
Released ==
    stage = "flush" =>
        \A i \in Slots : rob[i].dest # None /\ i < turn
            => rob[i].dest \in Contents(free)

LEMMA InitReleased == Init => Released
    BY DEF Init, Released

LEMMA ReleasedKept ==
    ASSUME IInv, Released, [Next]_vars
    PROVE  Released'
<1>1. CASE StartCycle
  <2>1. turn' = 0
    BY <1>1 DEF StartCycle, Goto
  <2> QED
    BY <2>1, Sizes DEF Released, Slots
<1>2. CASE FlushEntry
  <2> SUFFICES ASSUME NEW i \in Slots, rob[i].dest # None, i < turn'
      PROVE  rob[i].dest \in Contents(free')
    BY <1>2 DEF Released, FlushEntry, robVars, Contents
  <2>1. /\ turn \in Nat /\ turn' = turn + 1 /\ turn < robCount /\ stage = "flush"
        /\ rob[Slot(turn)].dest \in Renamable => free' = <<rob[Slot(turn)].dest>> \o free
        /\ rob[Slot(turn)].dest \notin Renamable => free' = free
    BY <1>2 DEF FlushEntry, IInv, TypeOK
  <2>2. /\ Contents(free) \subseteq Contents(free')
        /\ rob[Slot(turn)].dest \in Renamable => rob[Slot(turn)].dest \in Contents(free')
    <3>1. free \in Seq(Renamable)
        BY DEF IInv, TypeOK
    <3>2. CASE rob[Slot(turn)].dest \in Renamable
        BY <2>1, <3>1, <3>2, PushContents
    <3> QED
        BY <2>1, <3>2
  <2>3. CASE i < turn
    BY <2>1, <2>2, <2>3 DEF Released
  <2>4. CASE i = turn
    <3>1. Slot(turn) = i
        <4>1. /\ RobSize \in Nat \ {0} /\ robHead = 0 /\ i \in 0 .. RobSize - 1
              /\ i \in Nat
            BY Sizes DEF IInv, Stuck, Slots
        <4>2. Slot(turn) = i % RobSize
            BY <2>4, <4>1 DEF Slot
        <4> QED
            BY <4>1, <4>2, WrapsOnce
    <3>2. rob[i].dest \in Renamable
        BY DEF IInv, TypeOK
    <3> QED
        BY <2>2, <3>1, <3>2
  <2> QED
    BY <2>1, <2>3, <2>4, Sizes DEF Slots
<1>3. CASE stage' # "flush"
    BY <1>3 DEF Released
<1>4. CASE UNCHANGED vars
    BY <1>4 DEF vars, robVars, renameVars, Released, Contents
<1>5. \/ FlushEnd \/ CommitStop \/ CommitHead \/ Writeback \/ Execute \/ IssueEntry
      \/ IssueSkip \/ IssueStop \/ DecodeStop \/ DecodeBusError \/ DecodeInstruction
      \/ DecodeStall \/ Fetch \/ FetchStop \/ EndCycle \/ HostWriteCp0 \/ HostReset
      => stage' # "flush"
  <2>1. FlushEnd \/ CommitStop \/ Writeback \/ Execute \/ IssueStop => stage' # "flush"
    BY DEF FlushEnd, CommitStop, Writeback, Execute, IssueStop, Goto
  <2>2. CommitHead => stage' # "flush"
    BY DEF CommitHead, Goto
  <2>3. IssueEntry \/ IssueSkip => stage' # "flush"
    BY DEF IssueEntry, IssueSkip
  <2>4. DecodeStop \/ DecodeBusError \/ DecodeInstruction \/ DecodeStall => stage' # "flush"
    BY DEF DecodeStop, DecodeBusError, DecodeInstruction, DecodeStall, Goto
  <2>5. Fetch \/ FetchStop \/ EndCycle \/ HostWriteCp0 \/ HostReset => stage' # "flush"
    BY DEF Fetch, FetchStop, EndCycle, HostWriteCp0, HostReset, Goto
  <2> QED
    BY <2>1, <2>2, <2>3, <2>4, <2>5
<1> QED
    BY <1>1, <1>2, <1>3, <1>4, <1>5 DEF Next, Cycle

LEMMA FullListComplete == Contents(FullList) = Renamable
<1>1. \A i \in 1 .. NumPhys - NumArch : NumArch + i - 1 \in Renamable
    BY Sizes DEF Renamable
<1>2. \A p \in Renamable : /\ p - NumArch + 1 \in 1 .. NumPhys - NumArch
                           /\ NumArch + (p - NumArch + 1) - 1 = p
    BY Sizes DEF Renamable
<1> QED
    BY <1>1, <1>2 DEF Contents, FullList

(* With room in the ring, no register that was held somewhere is let go. *)
LEMMA HeldStaysHeld ==
    ASSUME IInv, Released, Next, robCount < RobSize,
           NEW p \in Renamable,
           p \in Contents(free) \/ \E i \in Slots : rob[i].dest = p
    PROVE  p \in Contents(free') \/ \E i \in Slots : rob'[i].dest = p
<1>0. p # None
    BY Sizes
<1>1. CASE \/ StartCycle \/ CommitStop \/ Writeback \/ IssueEntry \/ IssueSkip
           \/ IssueStop \/ DecodeStop \/ Fetch \/ FetchStop \/ EndCycle \/ HostWriteCp0
  <2>1. UNCHANGED <<free, rob>>
    BY <1>1 DEF StartCycle, CommitStop, Writeback, IssueEntry, IssueSkip,
                IssueStop, DecodeStop, Fetch, FetchStop, EndCycle, HostWriteCp0,
                renameVars, robVars
  <2> QED
    BY <2>1
<1>2. CASE CommitHead
    BY <1>2 DEF CommitHead, renameVars
<1>3. CASE Execute
  <2>1. free' = free
    BY <1>3 DEF Execute, renameVars
  <2>2. \A i \in Slots : rob'[i].dest = rob[i].dest
    BY <1>3 DEF Execute, IInv, TypeOK
  <2> QED
    BY <2>1, <2>2
<1>4. CASE FlushEntry
  <2>1. rob' = rob
    BY <1>4 DEF FlushEntry, robVars
  <2>2. Contents(free) \subseteq Contents(free')
    <3>1. free \in Seq(Renamable)
        BY DEF IInv, TypeOK
    <3>2. \/ free' = free
          \/ \E r \in Renamable : free' = <<r>> \o free
        BY <1>4 DEF FlushEntry
    <3> QED
        BY <3>1, <3>2, PushContents
  <2> QED
    BY <2>1, <2>2
<1>5. CASE FlushEnd
  <2>1. stage = "flush" /\ turn = robCount /\ free' = free
    BY <1>5 DEF FlushEnd
  <2>2. \A i \in Slots : rob[i].dest = p => rob[i].dest \in Contents(free)
    BY <1>0, <2>1 DEF Released, IInv, Ownership
  <2> QED
    BY <2>1, <2>2
<1>6. CASE HostReset
    BY <1>6, FullListComplete DEF HostReset
<1>7. CASE DecodeBusError
  <2> DEFINE e == [pc |-> Head(fetchQ).pc, dest |-> None,
                   completed |-> TRUE, exception |-> TRUE]
  <2>1. fetchQ # << >> /\ AppendRob(e) /\ free' = free
    BY <1>7 DEF DecodeBusError, DecodeHasWork, renameVars
  <2>2. e \in [pc : Nat, dest : Renamable \union {None},
              completed : BOOLEAN, exception : BOOLEAN]
    BY <2>1, FetchQueue
  <2> HIDE DEF e
  <2>3. \A i \in Slots : rob[i].dest = p => rob'[i].dest = p
    BY <1>0, <2>1, <2>2, TailHoldsNothing
  <2> QED
    BY <2>1, <2>3
<1>8. CASE DecodeInstruction
  <2> DEFINE ins == Head(fetchQ).word
             e == [pc |-> Head(fetchQ).pc,
                   dest |-> IF ins.rd = 0 THEN None ELSE Allocated,
                   completed |-> FALSE, exception |-> FALSE]
  <2>1. fetchQ # << >> /\ AppendRob(e) /\ ins # BusError /\ RenameDest(ins)
    BY <1>8 DEF DecodeInstruction, DecodeHasWork
  <2>2. ins \in Instructions /\ Head(fetchQ).pc \in Nat
    BY <2>1, FetchQueue
  <2>3. ins.rd # 0 => e.dest = Allocated
    OBVIOUS
  <2> HIDE DEF ins
  <2>4. Allocated \in Renamable \union {None}
    BY <2>1, <2>2, Renamed
  <2>5. e \in [pc : Nat, dest : Renamable \union {None},
              completed : BOOLEAN, exception : BOOLEAN]
    BY <2>2, <2>4
  <2> HIDE DEF e
  <2>6. \A i \in Slots : rob[i].dest = p => rob'[i].dest = p
    BY <1>0, <2>1, <2>5, TailHoldsNothing
  <2>7. robTail \in Slots /\ rob'[robTail] = e
    BY <2>1, <2>5, RobAppended
  <2>8. p \in Contents(free) => p \in Contents(free') \/ (ins.rd # 0 /\ p = Allocated)
    <3>1. CASE ins.rd = 0
        BY <2>1, <3>1 DEF RenameDest, renameVars
    <3>2. CASE ins.rd # 0
        <4>1. /\ free \in Seq(Renamable)
              /\ free' = IF free = << >> THEN free ELSE Tail(free)
            BY <2>1, <3>2 DEF RenameDest, IInv, TypeOK
        <4> QED
            BY <3>2, <4>1, PopContents DEF Allocated
    <3> QED
        BY <3>1, <3>2
  <2> QED
    BY <2>3, <2>6, <2>7, <2>8
<1>9. CASE DecodeStall
    BY <1>9, QueueSizes DEF DecodeStall
<1> QED
    BY <1>1, <1>2, <1>3, <1>4, <1>5, <1>6, <1>7, <1>8, <1>9 DEF Next, Cycle

-----------------------------------------------------------------------------
(* Every entry that waits is in the issue queue or in a unit: while        *)
(* nothing has been overwritten, the window is the first robCount slots.   *)
Waiting == {j \in 0 .. robCount - 1 : ~rob[j].completed}
Busy == {u \in Units : fu[u].busy}

Counted == robCount <= RobSize => Cardinality(Waiting) = Len(issueQ) + Cardinality(Busy)

LEMMA SetsFinite ==
    ASSUME IInv
    PROVE  /\ IsFiniteSet(Waiting) /\ Cardinality(Waiting) \in Nat
           /\ IsFiniteSet(Busy) /\ Cardinality(Busy) \in Nat
           /\ Len(issueQ) \in Nat
<1>1. robCount \in Nat /\ Len(issueQ) \in Nat
    BY LenProperties DEF IInv, TypeOK
<1>2. IsFiniteSet(0 .. robCount - 1)
    BY <1>1, FS_Interval
<1>3. IsFiniteSet(Units)
  <2>1. Units = (OtherUnits \union {ALU1}) \union {ALU2}
    BY DEF Units
  <2>2. IsFiniteSet(OtherUnits \union {ALU1})
    BY UnitAssumption, FS_AddElement
  <2> QED
    BY <2>1, <2>2, FS_AddElement
<1>4. Waiting \in SUBSET (0 .. robCount - 1) /\ Busy \in SUBSET Units
    BY DEF Waiting, Busy
<1>5. IsFiniteSet(Waiting) /\ IsFiniteSet(Busy)
    BY <1>2, <1>3, <1>4, FS_Subset
<1> QED
    BY <1>1, <1>5, FS_CardinalityType

LEMMA InitCounted == Init => Counted
<1> SUFFICES ASSUME Init PROVE Counted
    OBVIOUS
<1>1. Waiting = {} /\ Busy = {} /\ Len(issueQ) = 0
    BY DEF Init, Waiting, Busy, IdleUnits, FreeUnit
<1> QED
    BY <1>1, FS_EmptySet DEF Counted

(* A step that leaves the ring's entries, the queue's length and the units. *)
LEMMA CountedWaits ==
    ASSUME IInv, Counted, UNCHANGED robCount, Len(issueQ') = Len(issueQ), fu' = fu,
           \A i \in Slots : rob'[i].completed = rob[i].completed
    PROVE  Counted'
<1> SUFFICES ASSUME robCount <= RobSize
    PROVE  Cardinality(Waiting') = Len(issueQ') + Cardinality(Busy')
    BY DEF Counted
<1>1. robCount \in Nat /\ RobSize \in Nat /\ 0 .. robCount - 1 \subseteq Slots
    BY Sizes DEF IInv, TypeOK, Slots
<1>2. Waiting' = Waiting /\ Busy' = Busy
    BY <1>1 DEF Waiting, Busy
<1> QED
    BY <1>2 DEF Counted

(* Appending an entry adds the slot robCount to those that wait, or none. *)
LEMMA WindowGrows ==
    ASSUME IInv, NEW e \in [pc : Nat, dest : Renamable \union {None},
                           completed : BOOLEAN, exception : BOOLEAN],
           AppendRob(e), robCount < RobSize
    PROVE  /\ robCount \notin Waiting
           /\ Waiting' = IF e.completed THEN Waiting ELSE Waiting \union {robCount}
<1>1. /\ robTail = robCount /\ robCount \in Nat /\ RobSize \in Nat
      /\ robCount' = robCount + 1 /\ rob'[robCount] = e
      /\ \A i \in Slots \ {robCount} : rob'[i] = rob[i]
    BY RobAppended, Sizes DEF IInv, Stuck
<1>2. robCount \notin 0 .. robCount - 1
    BY <1>1
<1>3. \A j \in 0 .. robCount - 1 : rob'[j] = rob[j]
    BY <1>1, <1>2 DEF Slots
<1>4. 0 .. robCount' - 1 = (0 .. robCount - 1) \union {robCount}
    BY <1>1
<1>5. Waiting' = {j \in (0 .. robCount - 1) \union {robCount} : ~rob'[j].completed}
    BY <1>4 DEF Waiting
<1> QED
    BY <1>1, <1>2, <1>3, <1>5 DEF Waiting

LEMMA UnitsTyped ==
    ASSUME IInv, NEW k \in 1 .. Len(issueQ)
    PROVE  issueQ[k].unit \in Units
<1> DEFINE Queued == [deps : SUBSET (Slots \union {None}), unit : Units \ {ALU2}]
<1>1. issueQ \in Seq(Queued)
    BY DEF IInv, TypeOK
<1>2. issueQ[k] \in Queued
  <2> HIDE DEF Queued
  <2> QED
    BY <1>1, ElementOfSeq
<1> QED
    BY <1>2

LEMMA RemoveAtLength ==
    ASSUME NEW S, NEW s \in Seq(S), NEW i \in 1 .. Len(s)
    PROVE  Len(RemoveAt(s, i)) = Len(s) - 1
<1> DEFINE n == Len(s)
           a == SubSeq(s, 1, i - 1)
           b == SubSeq(s, i + 1, n)
<1>1. /\ n \in Nat /\ \A k \in 1 .. n : s[k] \in S
      /\ i \in Int /\ 1 <= i /\ i <= n
    BY LenProperties, ElementOfSeq
<1>2. a \in Seq(S) /\ Len(a) = i - 1
    BY <1>1, SubSeqProperties
<1> HIDE DEF n
<1>3. b \in Seq(S) /\ Len(b) = n - i
  <2>1. b \in Seq(S) /\ Len(b) = IF i + 1 <= n THEN n - (i + 1) + 1 ELSE 0
    BY <1>1, SubSeqProperties
  <2> HIDE DEF b
  <2>2. n - (i + 1) + 1 = n - i /\ (i + 1 <= n \/ n - i = 0)
    BY <1>1
  <2> QED
    BY <2>1, <2>2
<1> HIDE DEF a, b
<1>4. Len(a \o b) = Len(a) + Len(b)
    BY <1>2, <1>3, ConcatProperties
<1>5. Len(a) + Len(b) = n - 1
    BY <1>1, <1>2, <1>3
<1> QED
    BY <1>4, <1>5 DEF RemoveAt, a, b, n

LEMMA CountedKept ==
    ASSUME IInv, Counted, [Next]_vars
    PROVE  Counted'
<1>0. /\ issueQ \in Seq([deps : SUBSET (Slots \union {None}), unit : Units \ {ALU2}])
      /\ Len(issueQ) \in Nat /\ robCount \in Nat /\ RobSize \in Nat \ {0}
      /\ scan \in Nat \ {0}
    BY LenProperties, Sizes DEF IInv, TypeOK
<1>1. CASE \/ StartCycle \/ FlushEntry \/ CommitStop \/ Writeback \/ IssueStop
           \/ DecodeStop \/ DecodeStall \/ Fetch \/ FetchStop
           \/ EndCycle \/ HostWriteCp0 \/ UNCHANGED vars
  <2>1. UNCHANGED <<issueQ, rob, robCount, fu>>
    BY <1>1 DEF StartCycle, FlushEntry, CommitStop, Writeback, IssueStop,
                DecodeStop, DecodeStall, Fetch, FetchStop, EndCycle, HostWriteCp0,
                vars, robVars
  <2> QED
    BY <2>1, CountedWaits
<1>2. CASE CommitHead
  <2>1. rob[robHead].exception
    BY <1>2, Sizes DEF CommitHead, IInv, Stuck
  <2>2. UNCHANGED <<issueQ, rob, robCount, fu>>
    BY <1>2, <2>1 DEF CommitHead
  <2> QED
    BY <2>2, CountedWaits
<1>3. CASE Execute
  <2>1. UNCHANGED <<issueQ, robCount>>
    BY <1>3 DEF Execute
  <2>2. \A i \in Slots : rob'[i].completed = rob[i].completed
    BY <1>3 DEF Execute, IInv, TypeOK, Stuck
  <2>3. fu' = fu
    <3>1. fu \in [Units -> [busy : BOOLEAN, rob : Slots \union {None}]]
        BY DEF IInv, TypeOK
    <3>2. \A u \in Units : fu'[u] = fu[u]
        BY <1>3 DEF Execute, IInv, Stuck
    <3>3. fu' = [u \in Units |-> fu'[u]]
        BY <1>3 DEF Execute
    <3> QED
        BY <3>1, <3>2, <3>3
  <2> QED
    BY <2>1, <2>2, <2>3, CountedWaits
<1>4. CASE IssueSkip
  <2>1. UNCHANGED <<rob, robCount, fu>>
    BY <1>4 DEF IssueSkip, robVars
  <2>2. Len(issueQ') = Len(issueQ)
    BY <1>0, <1>4 DEF IssueSkip
  <2> QED
    BY <2>1, <2>2, CountedWaits
<1>5. CASE FlushEnd \/ HostReset
  <2>1. /\ issueQ' = << >> /\ robCount' = 0 /\ fu' = IdleUnits
    BY <1>5 DEF FlushEnd, HostReset
  <2>2. Waiting' = {} /\ Busy' = {} /\ Len(issueQ') = 0
    BY <2>1 DEF Waiting, Busy, IdleUnits, FreeUnit
  <2> QED
    BY <2>2, FS_EmptySet DEF Counted
<1>6. CASE IssueEntry
  <2>1. /\ scan \in 1 .. Len(issueQ) /\ issueQ' = RemoveAt(issueQ, scan)
        /\ UNCHANGED <<rob, robCount>>
    BY <1>0, <1>6 DEF IssueEntry, robVars
  <2>2. Len(issueQ') = Len(issueQ) - 1
    BY <1>0, <2>1, RemoveAtLength
  <2>3. PICK u \in Candidates(issueQ[scan].unit) :
            fu' = [fu EXCEPT ![u] = [busy |-> TRUE, rob |-> None]]
    BY <1>6 DEF IssueEntry
  <2>4. u \in Units /\ ~fu[u].busy
    <3>1. issueQ[scan].unit \in Units
        BY <2>1, UnitsTyped
    <3> QED
        BY <2>3, <3>1 DEF Candidates, Units
  <2>5. Busy' = Busy \union {u} /\ u \notin Busy
    BY <2>3, <2>4 DEF Busy, IInv, TypeOK
  <2>6. Cardinality(Busy') = Cardinality(Busy) + 1
    BY <2>5, SetsFinite, FS_AddElement
  <2>7. Waiting' = Waiting
    BY <2>1 DEF Waiting
  <2> QED
    BY <2>1, <2>2, <2>6, <2>7, SetsFinite DEF Counted
<1>7. CASE DecodeBusError
  <2> DEFINE e == [pc |-> Head(fetchQ).pc, dest |-> None,
                   completed |-> TRUE, exception |-> TRUE]
  <2>1. fetchQ # << >> /\ AppendRob(e) /\ UNCHANGED <<issueQ, fu>>
    BY <1>7 DEF DecodeBusError, DecodeHasWork
  <2>2. /\ e \in [pc : Nat, dest : Renamable \union {None},
                 completed : BOOLEAN, exception : BOOLEAN]
        /\ e.completed
    BY <2>1, FetchQueue
  <2> HIDE DEF e
  <2> SUFFICES ASSUME robCount' <= RobSize PROVE Counted'
    BY DEF Counted
  <2>3. robCount' = robCount + 1 /\ robCount < RobSize
    BY <1>0, <2>1, <2>2, RobAppended
  <2>4. Waiting' = Waiting
    BY <2>1, <2>2, <2>3, WindowGrows
  <2>5. Busy' = Busy
    BY <2>1 DEF Busy
  <2> QED
    BY <1>0, <2>1, <2>3, <2>4, <2>5 DEF Counted
<1>8. CASE DecodeInstruction
  <2> DEFINE ins == Head(fetchQ).word
             e == [pc |-> Head(fetchQ).pc,
                   dest |-> IF ins.rd = 0 THEN None ELSE Allocated,
                   completed |-> FALSE, exception |-> FALSE]
             entry == [deps |-> Awaited(ins), unit |-> ins.unit]
  <2>1. /\ fetchQ # << >> /\ AppendRob(e) /\ ins # BusError /\ RenameDest(ins)
        /\ robCount < RobSize /\ fu' = fu
        /\ issueQ' = Append(issueQ, entry)
    BY <1>8 DEF DecodeInstruction, DecodeHasWork
  <2>2. ins \in Instructions /\ Head(fetchQ).pc \in Nat
    BY <2>1, FetchQueue
  <2>3. ~e.completed
    OBVIOUS
  <2> HIDE DEF ins, entry
  <2>4. Allocated \in Renamable \union {None}
    BY <2>1, <2>2, Renamed
  <2>5. e \in [pc : Nat, dest : Renamable \union {None},
              completed : BOOLEAN, exception : BOOLEAN]
    BY <2>2, <2>4
  <2> HIDE DEF e
  <2>6. Len(issueQ') = Len(issueQ) + 1
    BY <1>0, <2>1
  <2>7. Waiting' = Waiting \union {robCount} /\ robCount \notin Waiting
    BY <2>1, <2>3, <2>5, WindowGrows
  <2>8. Cardinality(Waiting') = Cardinality(Waiting) + 1
    BY <2>7, SetsFinite, FS_AddElement
  <2>9. Busy' = Busy
    BY <2>1 DEF Busy
  <2>10. Cardinality(Waiting) = Len(issueQ) + Cardinality(Busy)
    BY <1>0, <2>1 DEF Counted
  <2> QED
    BY <2>6, <2>8, <2>9, <2>10, SetsFinite DEF Counted
<1> QED
    BY <1>1, <1>2, <1>3, <1>4, <1>5, <1>6, <1>7, <1>8 DEF Next, Cycle

LEMMA WorkAccountedFollows == IInv /\ Counted => WorkAccounted
<1> SUFFICES ASSUME IInv, Counted, robCount <= RobSize
    PROVE  Cardinality({j \in 0 .. robCount - 1 : ~rob[Slot(j)].completed})
              = Len(issueQ) + Cardinality({u \in Units : fu[u].busy})
    BY DEF WorkAccounted
<1>1. robHead = 0 /\ robCount \in Nat /\ RobSize \in Nat \ {0}
    BY Sizes DEF IInv, Stuck, TypeOK
<1>2. ASSUME NEW j \in 0 .. robCount - 1 PROVE Slot(j) = j
  <2>1. j \in 0 .. RobSize - 1
    BY <1>1, <1>2
  <2> QED
    BY <1>1, <2>1, WrapsOnce DEF Slot
<1>3. {j \in 0 .. robCount - 1 : ~rob[Slot(j)].completed} = Waiting
    BY <1>2 DEF Waiting
<1> QED
    BY <1>3 DEF Counted, Busy

-----------------------------------------------------------------------------
(* The inductive invariant of the theorems below. *)
SInv == IInv /\ Scheduled /\ Room /\ Ordered /\ Live /\ Released

LEMMA InitSInv == Init => SInv
    BY InitIInv, InitScheduled, InitRoom, InitOrdered, InitLive, InitReleased DEF SInv

LEMMA NextSInv == SInv /\ [Next]_vars => SInv'
<1> SUFFICES ASSUME SInv, [Next]_vars PROVE SInv'
    OBVIOUS
<1>1. IInv /\ Scheduled /\ Room /\ Ordered /\ Live /\ Released
    BY DEF SInv
<1>2. IInv'
    BY <1>1, NextIInv
<1>3. Scheduled' /\ Room'
    BY <1>1, ScheduledKept, RoomKept
<1>4. Ordered' /\ Live' /\ Released'
    BY <1>1, OrderedKept, LiveKept, ReleasedKept
<1> QED
    BY <1>2, <1>3, <1>4 DEF SInv

LEMMA InOrderFollows == SInv => InOrder
<1> SUFFICES ASSUME SInv PROVE InOrder
    OBVIOUS
<1>1. robHead = 0 /\ robCount \in Nat /\ RobSize \in Nat \ {0}
    BY Sizes DEF SInv, IInv, Stuck, TypeOK
<1>2. \A j \in First .. robCount - 1 : Slot(j) = j % RobSize
    BY <1>1 DEF Slot, First
<1>3. /\ \A j \in First .. robCount - 1 : rob[Slot(j)].pc = Oldest + j
      /\ \A k \in DOMAIN fetchQ : fetchQ[k].pc = Oldest + robCount + k - 1
    BY <1>2 DEF SInv, Ordered
<1> QED
    BY <1>3 DEF InOrder, Oldest, First

LEMMA MapAgreesFollows == SInv => MapAgreesWithRob
<1> SUFFICES ASSUME SInv, robCount < RobSize, NEW a \in Arch, map[a].rob # None
    PROVE  /\ \E j \in 0 .. robCount - 1 : Slot(j) = map[a].rob
           /\ rob[map[a].rob].dest = map[a].phys
    BY DEF MapAgreesWithRob
<1> DEFINE d == map[a].rob
<1>1. d \in Slots /\ d < robCount /\ rob[d].dest = map[a].phys
    BY Pointers DEF SInv, Live, MapLive, Pending
<1> HIDE DEF d
<1>2. /\ robHead = 0 /\ robCount \in Nat /\ RobSize \in Nat \ {0}
      /\ d \in 0 .. RobSize - 1 /\ d \in 0 .. robCount - 1
    BY <1>1, Sizes DEF SInv, IInv, Stuck, TypeOK, Slots
<1>3. Slot(d) = d
    BY <1>2, WrapsOnce DEF Slot
<1> QED
    BY <1>1, <1>2, <1>3 DEF d

LEMMA StaleIssueStep ==
    ASSUME SInv, [Next]_vars, stage = "issue", Len(issueQ') < Len(issueQ),
           issueQ[scan].deps # {}
    PROVE  flush # "none"
<1>0. Len(issueQ) \in Nat
    BY LenProperties DEF SInv, IInv, TypeOK
<1>1. IssueEntry
  <2>1. \/ IssueEntry \/ IssueSkip \/ UNCHANGED issueQ
    BY DEF Next, Cycle, StartCycle, FlushEntry, FlushEnd, CommitStop, CommitHead,
           Writeback, Execute, IssueStop, DecodeStop, DecodeBusError,
           DecodeInstruction, DecodeStall, Fetch, FetchStop, EndCycle,
           HostWriteCp0, HostReset, vars
  <2>2. IssueSkip => Len(issueQ') = Len(issueQ)
    BY DEF IssueSkip, SInv, IInv, TypeOK
  <2> QED
    BY <1>0, <2>1, <2>2
<1>2. scan \in DOMAIN issueQ /\ StillAwaited(issueQ[scan].deps) = {}
    BY <1>1 DEF IssueEntry, Ready, SInv, IInv, TypeOK
<1>3. PICK d \in issueQ[scan].deps : d # None /\ rob[d].completed
    BY <1>2 DEF StillAwaited
<1>4. ~(robCount <= RobSize)
    BY <1>2, <1>3 DEF SInv, Live, IssueLive, Pending
<1> QED
    BY <1>4 DEF SInv, Room

LEMMA LostStep ==
    ASSUME SInv, [Next]_vars, ~(Lost' \subseteq Lost)
    PROVE  robCount >= RobSize
<1> SUFFICES ASSUME robCount < RobSize PROVE Lost' \subseteq Lost
    BY QueueSizes DEF SInv
<1>1. CASE Next
  <2>1. \A p \in Renamable :
            p \in Contents(free) \/ (\E i \in Slots : rob[i].dest = p)
            => p \in Contents(free') \/ \E i \in Slots : rob'[i].dest = p
    BY <1>1, HeldStaysHeld DEF SInv
  <2>2. Contents(free)' = Contents(free')
    BY DEF Contents
  <2> QED
    BY <2>1, <2>2 DEF Lost
<1>2. CASE UNCHANGED vars
    BY <1>2 DEF vars, renameVars, robVars, Lost, Contents
<1> QED
    BY <1>1, <1>2

(* The ring never holds more than its capacity, a fetch queue and one      *)
(* cycle's fetch, although decode_stage appends fetch errors to a full     *)
(* ring: the first of them is flushed in the next cycle.                   *)
THEOREM OverflowBounded == Spec => []RobBound
<1>1. SInv => RobBound
    BY DEF SInv, Room, RobBound
<1> QED
    BY <1>1, InitSInv, NextSInv, PTL DEF Spec

(* What has not been overwritten in the ring, then the fetch queue, are    *)
(* the instructions up to pc_ in program order, whatever the sizes and the *)
(* program (fetch_stage, decode_stage's un-pop, the wrap of rob_tail_).    *)
THEOREM ProgramOrder == Spec => []InOrder
    BY InOrderFollows, InitSInv, NextSInv, PTL DEF Spec

(* A renamed architectural register points to the slot of the window that  *)
(* names its physical register, until the ring has been full               *)
(* (rename_registers, flush_pipeline).                                     *)
THEOREM RenamingAgrees == Spec => []MapAgreesWithRob
    BY MapAgreesFollows, InitSInv, NextSInv, PTL DEF Spec

(* A pending flush keeps its handler: an interrupt does not override the   *)
(* exception of the same cycle, because of EXL (check_interrupts).         *)
THEOREM TargetKept == Spec => FlushTargetKept
<1>1. SInv /\ [Next]_vars => [flush # "none" => flush' \in {flush, "none"}]_vars
    BY ScheduledKept DEF SInv
<1> QED
    BY <1>1, InitSInv, NextSInv, PTL DEF Spec, FlushTargetKept

(* issue_stage takes an entry that was waiting only when a fetch error has *)
(* overwritten its producer, in a cycle that is about to be flushed.       *)
THEOREM StaleIssueFlushed == Spec => StaleIssueIsFlushed
<1>1. SInv /\ [Next]_vars
      => [/\ stage = "issue" /\ Len(issueQ') < Len(issueQ)
          /\ issueQ[scan].deps # {}
          => flush # "none"]_vars
    BY StaleIssueStep
<1> QED
    BY <1>1, InitSInv, NextSInv, PTL DEF Spec, StaleIssueIsFlushed

(* A physical register leaves the free list and the ring for good only     *)
(* when a decode finds the ring full (decode_stage, flush_pipeline).       *)
THEOREM LossNeedsFullRing == Spec => LostOnlyWhenFull
<1>1. SInv /\ [Next]_vars => [~(Lost' \subseteq Lost) => robCount >= RobSize]_vars
    BY LostStep
<1> QED
    BY <1>1, InitSInv, NextSInv, PTL DEF Spec, LostOnlyWhenFull

(* Every entry of the ring that has not completed is in the issue queue or *)
(* in a functional unit, and nothing else is, while the ring is within its *)
(* capacity (decode_stage, issue_stage, flush_pipeline).                   *)
THEOREM WorkIsAccounted == Spec => []WorkAccounted
    BY InitIInv, NextIInv, InitCounted, CountedKept, WorkAccountedFollows, PTL DEF Spec
-----------------------------------------------------------------------------
(* A register that is lost is not found again by anything but a reset.     *)
LostForGood == [][Lost \subseteq Lost' \/ HostReset]_vars

(* An instruction that finds the ring full takes a register with it.       *)
StallLoses ==
    [][DecodeStall /\ Head(fetchQ).word.rd # 0 /\ free # << >>
         => Head(free) \in Lost' \ Lost]_vars

(* Whatever a slot is appended with, no other register appears in one.     *)
LEMMA AppendedDests ==
    ASSUME NEW e, AppendRob(e), rob \in [Slots -> [pc : Nat,
               dest : Renamable \union {None}, completed : BOOLEAN, exception : BOOLEAN]],
           NEW i \in Slots
    PROVE  rob'[i].dest \in {rob[i].dest, e.dest}
    BY DEF AppendRob

(* A register that is in no slot and on no list stays away.                *)
LEMMA LostStaysLost ==
    ASSUME IInv, Next, ~HostReset, NEW p \in Lost
    PROVE  p \notin Contents(free') /\ \A i \in Slots : rob'[i].dest # p
<1>0. /\ p # None /\ p \in Renamable /\ p \notin Contents(free)
      /\ \A i \in Slots : rob[i].dest # p
      /\ free \in Seq(Renamable)
      /\ rob \in [Slots -> [pc : Nat, dest : Renamable \union {None},
                             completed : BOOLEAN, exception : BOOLEAN]]
    BY Sizes DEF Lost, IInv, TypeOK
<1>1. CASE \/ StartCycle \/ CommitStop \/ CommitHead \/ Writeback \/ IssueEntry
           \/ IssueSkip \/ IssueStop \/ DecodeStop \/ Fetch \/ FetchStop
           \/ EndCycle \/ HostWriteCp0
  <2>1. UNCHANGED <<free, rob>>
    BY <1>1 DEF StartCycle, CommitStop, CommitHead, Writeback, IssueEntry,
                IssueSkip, IssueStop, DecodeStop, Fetch, FetchStop, EndCycle,
                HostWriteCp0, renameVars, robVars
  <2> QED
    BY <1>0, <2>1
<1>2. CASE Execute
  <2>1. free' = free
    BY <1>2 DEF Execute, renameVars
  <2>2. \A i \in Slots : rob'[i].dest = rob[i].dest
    BY <1>0, <1>2 DEF Execute
  <2> QED
    BY <1>0, <2>1, <2>2
<1>3. CASE FlushEntry
  <2>1. /\ rob' = rob /\ turn \in Nat
        /\ \/ free' = free
           \/ rob[Slot(turn)].dest \in Renamable /\ free' = <<rob[Slot(turn)].dest>> \o free
    BY <1>3 DEF FlushEntry, robVars, IInv, TypeOK
  <2>2. Slot(turn) \in Slots
    <3>1. RobSize \in Nat \ {0} /\ robHead = 0
      BY Sizes DEF IInv, Stuck
    <3>2. Slot(turn) = turn % RobSize
      BY <2>1, <3>1 DEF Slot
    <3> QED
      BY <2>1, <3>1, <3>2, InRing DEF Slots
  <2>3. ASSUME NEW r \in Renamable, r # p PROVE p \notin Contents(<<r>> \o free)
    <3>1. /\ DOMAIN (<<r>> \o free) = 1 .. Len(free) + 1 /\ Len(free) \in Nat
          /\ (<<r>> \o free)[1] = r
          /\ \A i \in 2 .. Len(free) + 1 :
                i - 1 \in DOMAIN free /\ (<<r>> \o free)[i] = free[i - 1]
      BY <1>0
    <3> QED
      BY <1>0, <2>3, <3>1 DEF Contents
  <2> QED
    BY <1>0, <2>1, <2>2, <2>3
<1>4. CASE FlushEnd
  <2>1. free' = free /\ rob' = EmptyRob
    BY <1>4 DEF FlushEnd
  <2>2. \A i \in Slots : EmptyRob[i].dest = None
    BY DEF EmptyRob, EmptySlot
  <2> QED
    BY <1>0, <2>1, <2>2
<1>5. CASE DecodeBusError
  <2>1. /\ free' = free
        /\ AppendRob([pc |-> Head(fetchQ).pc, dest |-> None,
                      completed |-> TRUE, exception |-> TRUE])
    BY <1>5 DEF DecodeBusError, renameVars
  <2>2. \A i \in Slots : rob'[i].dest \in {rob[i].dest, None}
    BY <1>0, <2>1, AppendedDests
  <2> QED
    BY <1>0, <2>1, <2>2
<1>6. ASSUME fetchQ # << >>, Head(fetchQ).word # BusError, RenameDest(Head(fetchQ).word)
      PROVE  p \notin Contents(free') /\ Allocated # p
  <2> DEFINE ins == Head(fetchQ).word
  <2>1. ins \in Instructions
    BY <1>6, FetchQueue
  <2>2. Contents(free') \subseteq Contents(free)
    BY <1>6, <2>1, Renamed
  <2>3. free # << >> => Head(free) \in Contents(free)
    BY <1>0 DEF Contents
  <2> QED
    BY <1>0, <2>2, <2>3 DEF Allocated
<1>7. CASE DecodeInstruction
  <2> DEFINE ins == Head(fetchQ).word
  <2>1. /\ fetchQ # << >> /\ ins # BusError /\ RenameDest(ins)
        /\ AppendRob([pc |-> Head(fetchQ).pc,
                      dest |-> IF ins.rd = 0 THEN None ELSE Allocated,
                      completed |-> FALSE, exception |-> FALSE])
    BY <1>7 DEF DecodeInstruction, DecodeHasWork
  <2>2. \A i \in Slots : rob'[i].dest \in {rob[i].dest, None, Allocated}
    BY <1>0, <2>1, AppendedDests
  <2> QED
    BY <1>0, <1>6, <2>1, <2>2
<1>8. CASE DecodeStall
  <2>1. /\ fetchQ # << >> /\ Head(fetchQ).word # BusError
        /\ RenameDest(Head(fetchQ).word) /\ rob' = rob
    BY <1>8 DEF DecodeStall, DecodeHasWork, robVars
  <2> QED
    BY <1>0, <1>6, <2>1
<1> QED
    BY <1>1, <1>2, <1>3, <1>4, <1>5, <1>7, <1>8 DEF Next, Cycle

(* A register that a stalled instruction has taken is nowhere.             *)
LEMMA StallTakes ==
    ASSUME IInv, DecodeStall, Head(fetchQ).word.rd # 0, free # << >>
    PROVE  /\ Head(free) \in Renamable /\ Head(free) \in Contents(free)
           /\ Head(free) \notin Contents(free')
           /\ \A i \in Slots : rob'[i].dest # Head(free)
<1>1. /\ fetchQ # << >> /\ Head(fetchQ).word # BusError
      /\ RenameDest(Head(fetchQ).word) /\ rob' = rob /\ stage # "flush"
    BY DEF DecodeStall, DecodeHasWork, robVars
<1>2. /\ free \in Seq(Renamable)
      /\ \A i, j \in DOMAIN free : free[i] = free[j] => i = j
      /\ \A i \in Slots : rob[i].dest # None => rob[i].dest \notin Contents(free)
    BY <1>1 DEF IInv, TypeOK, Ownership
<1>3. Head(free) \in Renamable /\ Head(free) \in Contents(free)
      /\ Head(free) \notin Contents(Tail(free)) /\ Head(free) # None
    BY <1>2, PopDistinct, Sizes
<1>4. free' = Tail(free)
    BY <1>1 DEF RenameDest
<1> QED
    BY <1>1, <1>2, <1>3, <1>4

(* A register that left the list and the ring never comes back, however    *)
(* many flushes follow: flush_pipeline gives back what slots name and      *)
(* nothing else does.                                                      *)
THEOREM LostNeverFound == Spec => LostForGood
<1>1. ASSUME IInv, [Next]_vars PROVE [Lost \subseteq Lost' \/ HostReset]_vars
  <2>1. CASE Next /\ ~HostReset
    <3>1. \A p \in Lost : p \notin Contents(free') /\ \A i \in Slots : rob'[i].dest # p
      BY <1>1, <2>1, LostStaysLost
    <3>2. Contents(free)' = Contents(free')
      BY DEF Contents
    <3> QED
      BY <3>1, <3>2 DEF Lost
  <2> QED
    BY <1>1, <2>1
<1> QED
    BY <1>1, InitIInv, NextIInv, PTL DEF Spec, LostForGood

(* Each time decode_stage finds the ring full, an instruction with a       *)
(* destination costs a register that was free: with LostNeverFound, after  *)
(* as many of these cycles as there were registers, renaming fails.        *)
THEOREM StallLosesRegister == Spec => StallLoses
<1>1. ASSUME IInv, [Next]_vars
      PROVE  [DecodeStall /\ Head(fetchQ).word.rd # 0 /\ free # << >>
                => Head(free) \in Lost' \ Lost]_vars
  <2>1. Contents(free)' = Contents(free')
    BY DEF Contents
  <2> QED
    BY <1>1, <2>1, StallTakes DEF Lost
<1> QED
    BY <1>1, InitIInv, NextIInv, PTL DEF Spec, StallLoses
=============================================================================
