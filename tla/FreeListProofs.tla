--------------------------- MODULE FreeListProofs ---------------------------
(***************************************************************************)
(* The threaded free list is a stack of free registers, for every number   *)
(* of architectural and physical registers.                                *)
(***************************************************************************)
EXTENDS FreeList, TLAPS

Inv == TypeOK /\ Threaded

(* Popping the first element of a sequence shifts the rest down by one. *)
LEMMA PopShifts ==
    ASSUME NEW S, NEW s \in Seq(S), s # << >>
    PROVE  /\ Tail(s) \in Seq(S)
           /\ Len(s) \in Nat \ {0}
           /\ Len(Tail(s)) = Len(s) - 1
           /\ DOMAIN s = 1 .. Len(s)
           /\ DOMAIN Tail(s) = 1 .. Len(s) - 1
           /\ \A i \in 1 .. Len(s) - 1 : Tail(s)[i] = s[i + 1]
    OBVIOUS

(* Pushing an element shifts the sequence up by one. *)
LEMMA PushShifts ==
    ASSUME NEW S, NEW s \in Seq(S), NEW e \in S
    PROVE  /\ <<e>> \o s \in Seq(S)
           /\ Len(s) \in Nat
           /\ Len(<<e>> \o s) = Len(s) + 1
           /\ DOMAIN s = 1 .. Len(s)
           /\ DOMAIN (<<e>> \o s) = 1 .. Len(s) + 1
           /\ (<<e>> \o s)[1] = e
           /\ \A i \in 2 .. Len(s) + 1 : (<<e>> \o s)[i] = s[i - 1]
    OBVIOUS

(* A fresh list spells out all the renamable registers. *)
LEMMA InitInv == Init => Inv
<1> SUFFICES ASSUME Init PROVE Inv
    OBVIOUS
<1> USE SizeAssumption DEF Init, None, Arch, Phys, Renamable
<1>1. TypeOK
  <2>1. chain \in Seq(Renamable)
    <3>1. \A i \in 1 .. NumPhys - NumArch : chain[i] \in Renamable
        OBVIOUS
    <3>2. NumPhys - NumArch \in Nat
        OBVIOUS
    <3> QED
        BY <3>1, <3>2
  <2>2. archMap \in [Phys -> Phys \union {None}]
    OBVIOUS
  <2> QED
    BY <2>1, <2>2 DEF TypeOK
<1>2. Threaded
  <2>1. /\ DOMAIN chain = 1 .. NumPhys - NumArch
        /\ Len(chain) = NumPhys - NumArch
        /\ \A i \in 1 .. NumPhys - NumArch : chain[i] = NumArch + i - 1
    OBVIOUS
  <2>2. \A i, j \in DOMAIN chain : chain[i] = chain[j] => i = j
    BY <2>1
  <2>3. freeHead = IF chain = << >> THEN None ELSE chain[1]
    <3>1. chain # << >> /\ chain[1] = NumArch
        BY <2>1
    <3> QED
        BY <3>1
  <2>4. ASSUME NEW i \in DOMAIN chain
        PROVE  archMap[chain[i]] = IF i = Len(chain) THEN None ELSE chain[i + 1]
    <3>1. i \in 1 .. NumPhys - NumArch /\ chain[i] = NumArch + i - 1
        BY <2>1
    <3>2. CASE i = NumPhys - NumArch
        BY <2>1, <3>1, <3>2
    <3>3. CASE i # NumPhys - NumArch
        BY <2>1, <3>1, <3>3
    <3> QED
        BY <3>2, <3>3
  <2> QED
    BY <2>2, <2>3, <2>4 DEF Threaded
<1> QED
    BY <1>1, <1>2 DEF Inv

(* Taking the head keeps the links of the others. *)
LEMMA AllocateInv ==
    ASSUME Inv, NEW a \in Arch \ {0}, Allocate(a)
    PROVE  Inv'
<1>1. /\ freeHead # None
      /\ result' = freeHead
      /\ freeHead' = archMap[freeHead]
      /\ archMap' = [archMap EXCEPT ![freeHead] = a]
      /\ chain' = Tail(chain)
    BY DEF Allocate
<1>2. /\ freeHead \in Renamable
      /\ archMap \in [Phys -> Phys \union {None}]
      /\ chain \in Seq(Renamable)
      /\ \A i, j \in DOMAIN chain : chain[i] = chain[j] => i = j
      /\ \A i \in DOMAIN chain :
            archMap[chain[i]] = IF i = Len(chain) THEN None ELSE chain[i + 1]
    BY <1>1 DEF Inv, TypeOK, Threaded
<1>3. chain # << >> /\ freeHead = chain[1]
    BY <1>1 DEF Inv, Threaded
<1>4. Renamable \subseteq Phys /\ a \in Phys
    BY SizeAssumption DEF Renamable, Phys, Arch
<1>5. /\ Len(chain) \in Nat \ {0}
      /\ DOMAIN chain = 1 .. Len(chain)
      /\ chain' \in Seq(Renamable)
      /\ Len(chain') = Len(chain) - 1
      /\ DOMAIN chain' = 1 .. Len(chain) - 1
      /\ \A i \in 1 .. Len(chain) - 1 : chain'[i] = chain[i + 1]
    BY <1>1, <1>2, <1>3, PopShifts
<1>6. freeHead' = IF Len(chain) = 1 THEN None ELSE chain[2]
  <2>1. 1 \in DOMAIN chain
    BY <1>5
  <2>2. archMap[chain[1]] = IF 1 = Len(chain) THEN None ELSE chain[1 + 1]
    BY <1>2, <2>1
  <2> QED
    BY <1>1, <1>3, <2>2
<1>7. TypeOK'
  <2>1. freeHead' \in Renamable \union {None}
    <3>1. CASE Len(chain) = 1
        BY <1>6, <3>1
    <3>2. CASE Len(chain) # 1
        <4>1. 2 \in 1 .. Len(chain)
            BY <1>5, <3>2
        <4>2. chain[2] \in Renamable
            BY <1>2, <1>5, <4>1
        <4> QED
            BY <1>6, <3>2, <4>2
    <3> QED
        BY <3>1, <3>2
  <2>2. archMap' \in [Phys -> Phys \union {None}]
    BY <1>1, <1>2, <1>4
  <2> QED
    BY <2>1, <2>2, <1>1, <1>2, <1>5 DEF TypeOK
<1>8. \A i, j \in DOMAIN chain' : chain'[i] = chain'[j] => i = j
  <2> SUFFICES ASSUME NEW i \in 1 .. Len(chain) - 1, NEW j \in 1 .. Len(chain) - 1,
                      chain'[i] = chain'[j]
               PROVE  i = j
    BY <1>5
  <2>1. i + 1 \in DOMAIN chain /\ j + 1 \in DOMAIN chain
    BY <1>5
  <2>2. chain[i + 1] = chain[j + 1]
    BY <1>5
  <2>3. i + 1 = j + 1
    BY <1>2, <2>1, <2>2
  <2> QED
    BY <1>5, <2>3
<1>9. freeHead' = IF chain' = << >> THEN None ELSE chain'[1]
  <2>1. CASE Len(chain) = 1
    BY <1>5, <1>6, <2>1
  <2>2. CASE Len(chain) # 1
    BY <1>5, <1>6, <2>2
  <2> QED
    BY <2>1, <2>2
<1>10. ASSUME NEW i \in DOMAIN chain'
       PROVE  archMap'[chain'[i]] = IF i = Len(chain') THEN None ELSE chain'[i + 1]
  <2>1. /\ i \in 1 .. Len(chain) - 1
        /\ i + 1 \in DOMAIN chain
        /\ 1 \in DOMAIN chain
        /\ i + 1 # 1
        /\ chain'[i] = chain[i + 1]
    BY <1>5
  <2>2. chain[i + 1] # freeHead
    BY <1>2, <1>3, <2>1
  <2>3. chain[i + 1] \in Phys
    BY <1>2, <1>4, <2>1
  <2>4. archMap'[chain'[i]] = archMap[chain[i + 1]]
    BY <1>1, <1>2, <2>1, <2>2, <2>3
  <2>5. archMap[chain[i + 1]]
            = IF i + 1 = Len(chain) THEN None ELSE chain[i + 1 + 1]
    BY <1>2, <2>1
  <2>6. CASE i + 1 = Len(chain)
    BY <1>5, <2>1, <2>4, <2>5, <2>6
  <2>7. CASE i + 1 # Len(chain)
    <3>1. i + 1 \in 1 .. Len(chain) - 1
        BY <1>5, <2>1, <2>7
    <3> QED
        BY <1>5, <2>1, <2>4, <2>5, <2>7, <3>1
  <2> QED
    BY <2>6, <2>7
<1> QED
    BY <1>7, <1>8, <1>9, <1>10 DEF Inv, Threaded

(* A held register goes in front of the list it was not on. *)
LEMMA FreeInv ==
    ASSUME Inv, NEW p \in Phys, Free(p)
    PROVE  Inv'
<1>1. CASE p < NumArch
    BY <1>1 DEF Free, Inv, TypeOK, Threaded
<1>2. CASE ~(p < NumArch)
  <2>1. /\ archMap' = [archMap EXCEPT ![p] = freeHead]
        /\ freeHead' = p
        /\ chain' = <<p>> \o chain
        /\ result' = result
    BY <1>2 DEF Free
  <2>2. p \in Renamable /\ \A i \in DOMAIN chain : chain[i] # p
    BY <1>2, SizeAssumption DEF Free, Held, Arch, Phys
  <2>3. /\ freeHead \in Renamable \union {None}
        /\ archMap \in [Phys -> Phys \union {None}]
        /\ result \in Renamable \union {None}
        /\ chain \in Seq(Renamable)
        /\ \A i, j \in DOMAIN chain : chain[i] = chain[j] => i = j
        /\ freeHead = IF chain = << >> THEN None ELSE chain[1]
        /\ \A i \in DOMAIN chain :
              archMap[chain[i]] = IF i = Len(chain) THEN None ELSE chain[i + 1]
    BY DEF Inv, TypeOK, Threaded
  <2>4. /\ chain' \in Seq(Renamable)
        /\ Len(chain) \in Nat
        /\ Len(chain') = Len(chain) + 1
        /\ DOMAIN chain = 1 .. Len(chain)
        /\ DOMAIN chain' = 1 .. Len(chain) + 1
        /\ chain'[1] = p
        /\ \A i \in 2 .. Len(chain) + 1 : chain'[i] = chain[i - 1]
    BY <2>1, <2>2, <2>3, PushShifts
  <2>5. Renamable \subseteq Phys
    BY SizeAssumption DEF Renamable, Phys
  <2>6. TypeOK'
    BY <2>1, <2>2, <2>3, <2>4, <2>5 DEF TypeOK
  <2>7. \A i, j \in DOMAIN chain' : chain'[i] = chain'[j] => i = j
    <3> SUFFICES ASSUME NEW i \in 1 .. Len(chain) + 1, NEW j \in 1 .. Len(chain) + 1,
                        chain'[i] = chain'[j]
                 PROVE  i = j
        BY <2>4
    <3>1. \A k \in 2 .. Len(chain) + 1 : k - 1 \in DOMAIN chain /\ chain'[k] # p
        BY <2>2, <2>4
    <3>2. CASE i = 1 \/ j = 1
        BY <2>4, <3>1, <3>2
    <3>3. CASE i # 1 /\ j # 1
        <4>1. i \in 2 .. Len(chain) + 1 /\ j \in 2 .. Len(chain) + 1
            BY <2>4, <3>3
        <4>2. i - 1 \in DOMAIN chain /\ j - 1 \in DOMAIN chain
            BY <3>1, <4>1
        <4>3. chain[i - 1] = chain[j - 1]
            BY <2>4, <4>1
        <4>4. i - 1 = j - 1
            BY <2>3, <4>2, <4>3
        <4> QED
            BY <4>1, <4>4
    <3> QED
        BY <3>2, <3>3
  <2>8. freeHead' = IF chain' = << >> THEN None ELSE chain'[1]
    BY <2>1, <2>4
  <2>9. ASSUME NEW i \in DOMAIN chain'
        PROVE  archMap'[chain'[i]] = IF i = Len(chain') THEN None ELSE chain'[i + 1]
    <3>1. CASE i = 1
        <4>1. archMap'[chain'[1]] = freeHead
            BY <2>1, <2>3, <2>4
        <4>2. CASE Len(chain) = 0
            BY <2>3, <2>4, <3>1, <4>1, <4>2
        <4>3. CASE Len(chain) # 0
            <5>1. 2 \in 2 .. Len(chain) + 1 /\ chain # << >>
                BY <2>4, <4>3
            <5>2. chain'[2] = chain[1]
                BY <2>4, <5>1
            <5> QED
                BY <2>3, <2>4, <3>1, <4>1, <4>3, <5>1, <5>2
        <4> QED
            BY <4>2, <4>3
    <3>2. CASE i # 1
        <4>1. /\ i \in 2 .. Len(chain) + 1
              /\ i - 1 \in DOMAIN chain
              /\ chain'[i] = chain[i - 1]
            BY <2>4, <3>2
        <4>2. chain[i - 1] # p /\ chain[i - 1] \in Phys
            BY <2>2, <2>3, <2>5, <4>1
        <4>3. archMap'[chain'[i]] = archMap[chain[i - 1]]
            BY <2>1, <2>3, <4>1, <4>2
        <4>4. archMap[chain[i - 1]]
                  = IF i - 1 = Len(chain) THEN None ELSE chain[i - 1 + 1]
            BY <2>3, <4>1
        <4>5. CASE i = Len(chain) + 1
            BY <2>4, <4>3, <4>4, <4>5
        <4>6. CASE i # Len(chain) + 1
            <5>1. i + 1 \in 2 .. Len(chain) + 1 /\ i - 1 + 1 = i /\ i + 1 - 1 = i
                BY <2>4, <4>1, <4>6
            <5>2. chain'[i + 1] = chain[i]
                BY <2>4, <5>1
            <5> QED
                BY <2>4, <4>1, <4>3, <4>4, <4>6, <5>1, <5>2
        <4> QED
            BY <4>5, <4>6
    <3> QED
        BY <3>1, <3>2
  <2> QED
    BY <2>6, <2>7, <2>8, <2>9 DEF Inv, Threaded
<1> QED
    BY <1>1, <1>2

(* Every step keeps the links in order. *)
LEMMA NextInv == Inv /\ [Next]_vars => Inv'
<1> SUFFICES ASSUME Inv, [Next]_vars PROVE Inv'
    OBVIOUS
<1>1. ASSUME NEW a \in Arch \ {0}, Allocate(a) PROVE Inv'
    BY <1>1, AllocateInv
<1>2. CASE AllocateNone
    BY <1>2 DEF AllocateNone, Inv, TypeOK, Threaded
<1>3. ASSUME NEW p \in Phys, Free(p) PROVE Inv'
    BY <1>3, FreeInv
<1>4. CASE UNCHANGED vars
    BY <1>4 DEF vars, Inv, TypeOK, Threaded
<1> QED
    BY <1>1, <1>2, <1>3, <1>4 DEF Next

(* The free list of the renaming logic is well formed in every reachable   *)
(* state: following phys_gpr_arch_map_ from free_phys_gpr_head_ visits each *)
(* free register exactly once and ends at -1.                              *)
THEOREM FreeListSound == Spec => [](TypeOK /\ Threaded)
    BY InitInv, NextInv, PTL DEF Spec, Inv

(* The links, the head and the last answer are registers or -1.            *)
THEOREM FreeListTypeCorrect == Spec => []TypeOK
    BY FreeListSound, PTL

(* init_free_lists starts from a full stack. *)
LEMMA InitRefines == Init => Stack!Init
<1> SUFFICES ASSUME Init PROVE Stack!Init
    OBVIOUS
<1>1. chain \in Seq(Renamable)
    BY InitInv DEF Inv, TypeOK
<1>2. Stack!Distinct(chain)
    BY InitInv DEF Inv, Threaded, Stack!Distinct
<1>3. Stack!Contents(chain) = Renamable
  <2> USE SizeAssumption DEF Init, Renamable, Stack!Contents
  <2>1. ASSUME NEW r \in Renamable PROVE r \in Stack!Contents(chain)
    <3>1. r - NumArch + 1 \in DOMAIN chain /\ chain[r - NumArch + 1] = r
        OBVIOUS
    <3> QED
        BY <3>1
  <2>2. Stack!Contents(chain) \subseteq Renamable
    OBVIOUS
  <2> QED
    BY <2>1, <2>2
<1> QED
    BY <1>1, <1>2, <1>3 DEF Stack!Init, Init

(* Each call is one stack operation, or none. *)
LEMMA NextRefines == Inv /\ [Next]_vars => [Stack!Next]_(Stack!vars)
<1> SUFFICES ASSUME Inv, [Next]_vars PROVE [Stack!Next]_(Stack!vars)
    OBVIOUS
<1> USE DEF Stack!vars
<1>1. ASSUME NEW a \in Arch \ {0}, Allocate(a) PROVE Stack!Next
    BY <1>1 DEF Inv, Threaded, Allocate, Stack!Next, Stack!Allocate
<1>2. CASE AllocateNone
  <2>1. chain = << >>
    BY <1>2, SizeAssumption DEF AllocateNone, Inv, TypeOK, Threaded, Renamable, None
  <2> QED
    BY <1>2, <2>1 DEF AllocateNone, Stack!Next, Stack!AllocateNone
<1>3. ASSUME NEW p \in Phys, Free(p) PROVE [Stack!Next]_(Stack!vars)
  <2>1. CASE p < NumArch
    BY <1>3, <2>1 DEF Free
  <2>2. CASE ~(p < NumArch)
    <3>1. p \in Held
        BY <1>3, <2>2, SizeAssumption DEF Free, Arch, Phys
    <3>2. p \in Renamable /\ p \in Renamable \ Stack!Contents(chain)
        BY <3>1 DEF Held, Stack!Contents
    <3> QED
        BY <1>3, <2>2, <3>2 DEF Free, Stack!Next, Stack!Free
  <2> QED
    BY <2>1, <2>2
<1>4. CASE UNCHANGED vars
    BY <1>4 DEF vars
<1> QED
    BY <1>1, <1>2, <1>3, <1>4 DEF Next

(* allocate_phys_gpr and free_phys_gpr implement a stack of the registers  *)
(* nobody holds: a register is handed out once until it is given back, and *)
(* -1 is returned only when every renamable register is held.              *)
THEOREM FreeListImplementsStack == Spec => ImplementsStack
<1>1. Init => Stack!Init
    BY InitRefines
<1>2. Inv /\ [Next]_vars => [Stack!Next]_(Stack!vars)
    BY NextRefines
<1> QED
    BY <1>1, <1>2, FreeListSound, PTL DEF Spec, Inv, ImplementsStack, Stack!Spec
=============================================================================
