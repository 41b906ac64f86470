---------------------------- MODULE BoardProofs ----------------------------
(***************************************************************************)
(* What holds of the board for every set of addresses, files and memory    *)
(* sizes: an address reaches the device whose window is the innermost      *)
(* around it, memory gives back what was stored, and the reset vector      *)
(* shows the image that was loaded last. The search's loop is a recursive  *)
(* function; where an induction is needed, over its turns or over the bits *)
(* of an address, the least counterexample is led to a contradiction.      *)
(***************************************************************************)
EXTENDS Board, TLAPS, WellFoundedInduction

-----------------------------------------------------------------------------
(* Steps of the PROM.                                                      *)
LEMMA PROMTypeStep ==
    ASSUME PROMTypeOK, [PROMNext]_promVars PROVE PROMTypeOK'
<1> USE DEF PROMTypeOK
<1>1. ASSUME NEW file \in Files, LoadImage(file) \/ LoadFails(file)
      PROVE  PROMTypeOK'
  BY <1>1 DEF LoadImage, LoadFails, MapToMemory
<1>2. CASE Execute \/ ResetPROM
  BY <1>2 DEF Execute, ResetPROM, MapToMemory
<1>3. CASE UNCHANGED promVars
  BY <1>3 DEF promVars
<1> QED
  BY <1>1, <1>2, <1>3 DEF PROMNext

(* The image, the ROM and the two marks keep their types. *)
THEOREM PROMTypeCorrect == PROMSpec => []PROMTypeOK
<1>1. PROMInit => PROMTypeOK
    BY DEF PROMInit, PROMTypeOK
<1> QED
    BY <1>1, PROMTypeStep, PTL DEF PROMSpec

LEMMA RomIsImageStep ==
    ASSUME RomIsImage, [PROMNext]_promVars PROVE RomIsImage'
<1> USE DEF RomIsImage
<1>1. ASSUME NEW file \in Files, LoadImage(file) PROVE RomIsImage'
  <2>1. file # NoImage
    BY <1>1 DEF LoadImage, Loads, NoImage
  <2> QED
    BY <1>1, <2>1 DEF LoadImage, MapToMemory
<1>2. ASSUME NEW file \in Files, LoadFails(file) PROVE RomIsImage'
  BY <1>2 DEF LoadFails
<1>3. CASE Execute
  BY <1>3 DEF Execute
<1>4. CASE ResetPROM
  BY <1>4 DEF ResetPROM, MapToMemory
<1>5. CASE UNCHANGED promVars
  BY <1>5 DEF promVars
<1> QED
  BY <1>1, <1>2, <1>3, <1>4, <1>5 DEF PROMNext

(* The ROM shows the image that was loaded last, a file that does not load *)
(* leaves it alone, and the CPU is only started into a ROM that shows one. *)
THEOREM PROMRomIsImage == PROMSpec => []RomIsImage
<1>1. PROMInit => RomIsImage
    BY DEF PROMInit, RomIsImage
<1> QED
    BY <1>1, RomIsImageStep, PTL DEF PROMSpec

-----------------------------------------------------------------------------
(* A set of numbers that is not empty has a least member.                  *)
LEMMA Least ==
    ASSUME NEW T \in SUBSET Nat, T # {}
    PROVE  \E x \in T : \A y \in T : x <= y
<1>1. PICK x \in T : \A y \in T : ~(<<y, x>> \in OpToRel(<, Nat))
    BY WFMin, NatLessThanWellFounded
<1>2. \A y \in T : ~(y < x)
    BY <1>1 DEF OpToRel
<1> QED
    BY <1>2

(* What a number is made of, divided by n, is its quotient and remainder.  *)
LEMMA DivisionUnique ==
    ASSUME NEW n \in Nat, n > 0, NEW a \in Nat, NEW b \in 0..(n - 1)
    PROVE  (a * n + b) \div n = a /\ (a * n + b) % n = b
<1> DEFINE x == a * n + b
           c == x \div n
           d == x % n
<1>1. x \in Nat /\ c \in Nat /\ d \in 0..(n - 1) /\ x = c * n + d
    OBVIOUS
<1>2. a * n + b = c * n + d
    BY <1>1 DEF x
<1> HIDE DEF c, d, x
<1>3. \A u, v \in Nat : u < v => u * n + n <= v * n
  <2> SUFFICES ASSUME NEW u \in Nat, NEW v \in Nat, u < v
               PROVE  u * n + n <= v * n
    OBVIOUS
  <2>1. PICK e \in Nat : v = u + 1 + e
    <3>1. v - u - 1 \in Nat /\ v = u + 1 + (v - u - 1)
      OBVIOUS
    <3> QED
      BY <3>1
  <2>2. v * n = u * n + n + e * n
    BY <2>1
  <2>3. e * n >= 0 /\ e * n \in Nat /\ u * n \in Nat
    OBVIOUS
  <2> QED
    BY <2>2, <2>3
<1>4. a * n \in Nat /\ c * n \in Nat
    BY <1>1
<1>5. a < c => a * n + n <= c * n
    BY <1>1, <1>3
<1>6. c < a => c * n + n <= a * n
    BY <1>1, <1>3
<1>7. a = c
    BY <1>1, <1>2, <1>4, <1>5, <1>6
<1>8. b = d
    BY <1>1, <1>2, <1>4, <1>7
<1> QED
    BY <1>7, <1>8 DEF c, d, x

(* The remainder by twice q is that by q and one bit more.                 *)
LEMMA OneBitMore ==
    ASSUME NEW q \in Nat, q > 0, NEW x \in Nat
    PROVE  x % (2 * q) = q * ((x \div q) % 2) + (x % q)
<1> DEFINE d == x \div q
           r == x % q
           e == d \div 2
           f == d % 2
<1>1. d \in Nat /\ r \in 0..(q - 1) /\ x = d * q + r
    OBVIOUS
<1> HIDE DEF d, r
<1>2. e \in Nat /\ f \in 0..1 /\ d = 2 * e + f
    BY <1>1
<1> HIDE DEF e, f
<1>3. x = e * (2 * q) + (q * f + r)
  <2>1. d * q = e * (2 * q) + q * f
    BY <1>2
  <2> QED
    BY <1>1, <1>2, <2>1
<1>4. q * f + r \in 0..(2 * q - 1)
  <2>1. f = 0 \/ f = 1
    BY <1>2
  <2> QED
    BY <1>1, <2>1
<1>5. 2 * q \in Nat /\ 2 * q > 0
    OBVIOUS
<1>6. x % (2 * q) = q * f + r
  <2> DEFINE n == 2 * q
             b == q * f + r
  <2>1. n \in Nat /\ n > 0 /\ b \in 0..(n - 1) /\ x = e * n + b
    BY <1>3, <1>4, <1>5
  <2> HIDE DEF n, b
  <2>2. x % n = b
    BY <1>2, <2>1, DivisionUnique
  <2> QED
    BY <2>2 DEF n, b
<1> QED
    BY <1>6 DEF f, r, d

(* Each weight but the first is twice another.                             *)
LEMMA WeightsHalve ==
    \A p \in Weights : p \in Nat /\ p > 0 /\ (p = 1 \/ \E q \in Weights : p = 2 * q)
    BY SMTT(60) DEF Weights

LEMMA WeightsDivide ==
    \A p, q \in Weights : p < q => q % (2 * p) = 0
    BY SMTT(120) DEF Weights

(* The mask of a size that is a weight has all the lower weights.          *)
LEMMA MaskOnes ==
    ASSUME NEW size \in Weights, NEW p \in Weights, p < size
    PROVE  p \in Ones(size - 1)
<1>1. p \in Nat /\ p > 0 /\ size \in Nat /\ size % (2 * p) = 0
    BY WeightsHalve, WeightsDivide
<1> DEFINE m == size \div (2 * p)
<1>2. m \in Nat /\ size = m * (2 * p)
  <2> DEFINE n == 2 * p
  <2>1. n \in Nat /\ n > 0 /\ size % n = 0
    BY <1>1
  <2> HIDE DEF n
  <2>2. size \div n \in Nat /\ size = (size \div n) * n
    BY <1>1, <2>1
  <2> QED
    BY <2>2 DEF n
<1> HIDE DEF m
<1>3. m >= 1
  <2>1. m = 0 => size = 0
    BY <1>2
  <2> QED
    BY <1>1, <1>2, <2>1
<1>4. size - 1 = (2 * m - 1) * p + (p - 1)
    BY <1>1, <1>2
<1>5. 2 * m - 1 \in Nat /\ p - 1 \in 0..(p - 1)
    BY <1>1, <1>2, <1>3
<1>6. (size - 1) \div p = 2 * m - 1
    BY <1>1, <1>4, <1>5, DivisionUnique
<1>7. (2 * m - 1) % 2 = 1
    BY <1>2
<1> QED
    BY <1>6, <1>7 DEF Ones

(* A memory whose size is a power of two has a cell for each of its words. *)
LEMMA CellsDiffer ==
    ASSUME PowerOfTwo(ramSize), NEW v \in Nat, NEW w \in Nat,
           v < ramSize, w < ramSize, Masked(v) = Masked(w)
    PROVE  v = w
<1>1. ramSize \in Weights /\ Weights \subseteq Nat
    BY WeightsHalve DEF PowerOfTwo
<1> DEFINE T == {p \in Weights : p <= ramSize /\ v % p # w % p}
<1>2. CASE T = {}
  <2>1. v % ramSize = w % ramSize
    BY <1>1, <1>2
  <2> QED
    BY <1>1, <2>1
<1>3. CASE T # {}
  <2>1. PICK p \in T : \A q \in T : p <= q
    BY <1>1, <1>3, Least
  <2>2. p \in Weights /\ p <= ramSize /\ v % p # w % p
    OBVIOUS
  <2>3. p # 1
    BY <2>2
  <2>4. PICK q \in Weights : p = 2 * q
    BY <2>2, <2>3, WeightsHalve
  <2>5. q \in Nat /\ q > 0 /\ q < p /\ q < ramSize
    BY <1>1, <2>2, <2>4, WeightsHalve
  <2>6. v % q = w % q
    BY <1>1, <2>1, <2>5
  <2>7. (v \div q) % 2 = (w \div q) % 2
    <3>1. q \in Ones(ramSize - 1)
      BY <1>1, <2>5, MaskOnes
    <3>2. q \in Ones(v) <=> q \in Ones(w)
      BY <3>1 DEF Masked
    <3>3. v \div q \in Nat /\ w \div q \in Nat
      BY <2>5
    <3>4. (v \div q) % 2 \in {0, 1} /\ (w \div q) % 2 \in {0, 1}
      BY <3>3
    <3> QED
      BY <3>2, <3>4 DEF Ones
  <2>8. v % (2 * q) = w % (2 * q)
    BY <2>5, <2>6, <2>7, OneBitMore
  <2> QED
    BY <2>2, <2>4, <2>8
<1> QED
    BY <1>2, <1>3

-----------------------------------------------------------------------------
(* What may be attached to the bus: the places differ, and none is in a    *)
(* segment that shows another.                                             *)
Attached == {Wiring[i] : i \in 1..10} \union {PromEntry}

LEMMA WiringFacts ==
    /\ Len(Wiring) = 10
    /\ \A i \in 1..10 :
          /\ Wiring[i].base \in Nat /\ Wiring[i].size \in Nat
          /\ Wiring[i].size > 0
          /\ DOMAIN Wiring[i] = {"name", "base", "size"}
          /\ Wiring[i].base < Kseg0 \/ Wiring[i].base >= Kseg2
          /\ Wiring[i].base # PromEntry.base
    /\ \A i, j \in 1..10 : Wiring[i].base = Wiring[j].base => i = j
<1>1. Len(Wiring) = 10
    BY SMT DEF Wiring
<1>2. \A i \in 1..10 :
        /\ Wiring[i].base \in Nat /\ Wiring[i].size \in Nat
        /\ Wiring[i].size > 0
    BY SMT DEF Wiring, Entry
<1>3. \A i \in 1..10 : DOMAIN Wiring[i] = {"name", "base", "size"}
    BY SMT DEF Wiring, Entry
<1>4. \A i \in 1..10 :
        /\ Wiring[i].base < \h20000000 \/ Wiring[i].base >= \h30000000
        /\ Wiring[i].base # PromEntry.base
    BY SMT DEF Wiring, Entry, PromEntry
<1>5. \A i, j \in 1..10 : Wiring[i].base = Wiring[j].base => i = j
    BY SMTT(30) DEF Wiring, Entry
<1> QED
    BY <1>1, <1>2, <1>3, <1>4, <1>5 DEF Kseg0, Kseg2

LEMMA PromFacts ==
    /\ PromEntry.base = \h07F00000 /\ PromEntry.size = \h100000
    /\ DOMAIN PromEntry = {"name", "base", "size"}
    BY SMT DEF PromEntry, Entry

LEMMA AttachedFacts ==
    /\ \A e \in Attached :
          /\ e.base \in Nat /\ e.size \in Nat /\ e.size > 0
          /\ DOMAIN e = {"name", "base", "size"}
          /\ ToPhysical(e.base) = e.base
    /\ \A e, f \in Attached : e.base = f.base => e = f
    /\ NoDevice \notin Attached
<1>1. \A e \in Attached :
        /\ e.base \in Nat /\ e.size \in Nat /\ e.size > 0
        /\ DOMAIN e = {"name", "base", "size"}
        /\ e.base < Kseg0 \/ e.base >= Kseg2
    BY WiringFacts, PromFacts, SMT DEF Attached, Kseg0, Kseg2
<1>2. \A e \in Attached : ToPhysical(e.base) = e.base
    BY <1>1, SMT DEF ToPhysical, Kseg0, Kseg2
<1>3. \A e, f \in Attached : e.base = f.base => e = f
    BY WiringFacts, SMT DEF Attached
<1>4. NoDevice \notin Attached
  <2>1. NoDevice.size = 0
    BY DEF NoDevice, Entry
  <2> QED
    BY <1>1, <2>1
<1> QED
    BY <1>1, <1>2, <1>3, <1>4

-----------------------------------------------------------------------------
(* One turn of find_device's loop, at entry i, with the best match before. *)
Turn(best, i, physical) ==
    IF /\ Covers(entries[i], physical)
       /\ best = NoDevice \/ entries[i].base >= best.base
    THEN entries[i] ELSE best

(* The turns of the loop over the first n entries.                         *)
Turns(f, n, physical) ==
    /\ f = [i \in 0..n |-> f[i]]
    /\ f[0] = NoDevice
    /\ \A i \in 1..n : f[i] = Turn(f[i - 1], i, physical)

(* The loop can be run over any number of entries.                         *)
LEMMA LoopRuns ==
    ASSUME entries \in Seq(Attached), NEW physical
    PROVE  \A n \in 0..Len(entries) : \E f : Turns(f, n, physical)
<1> DEFINE T == {n \in 0..Len(entries) : ~(\E f : Turns(f, n, physical))}
<1>1. Len(entries) \in Nat /\ \A i \in 1..Len(entries) : entries[i] \in Attached
    OBVIOUS
<1>2. CASE T = {}
  <2>1. \A n \in 0..Len(entries) : n \notin T => \E f : Turns(f, n, physical)
    OBVIOUS
  <2> HIDE DEF T
  <2> QED
    BY <1>2, <2>1
<1>3. CASE T # {}
  <2>1. PICK n \in T : \A m \in T : n <= m
    <3>1. T \in SUBSET Nat
      BY <1>1
    <3> HIDE DEF T
    <3> QED
      BY <1>3, <3>1, Least
  <2>2. n \in 0..Len(entries) /\ ~(\E f : Turns(f, n, physical))
    OBVIOUS
  <2>3. CASE n = 0
    <3>1. Turns([i \in 0..0 |-> NoDevice], 0, physical)
      BY DEF Turns
    <3> QED
      BY <2>2, <2>3, <3>1
  <2>4. CASE n # 0
    <3>1. n - 1 \in 0..Len(entries) /\ n - 1 \notin T
      BY <1>1, <2>1, <2>2, <2>4
    <3>2. PICK f : Turns(f, n - 1, physical)
      BY <3>1
    <3> DEFINE g == [i \in 0..n |->
                        IF i = n THEN Turn(f[n - 1], n, physical) ELSE f[i]]
    <3>3. g = [i \in 0..n |-> g[i]]
      OBVIOUS
    <3>4. g[0] = NoDevice
      BY <2>2, <2>4, <3>2 DEF Turns
    <3>5. ASSUME NEW i \in 1..n PROVE g[i] = Turn(g[i - 1], i, physical)
      <4>1. CASE i = n
        BY <2>2, <2>4, <4>1
      <4>2. CASE i # n
        <5>1. i \in 1..(n - 1) /\ i - 1 \in 0..(n - 1)
          BY <2>2, <4>2
        <5>2. g[i] = f[i] /\ g[i - 1] = f[i - 1]
          BY <2>2, <4>2
        <5> QED
          BY <3>2, <5>1, <5>2 DEF Turns
      <4> QED
        BY <4>1, <4>2
    <3>6. Turns(g, n, physical)
      BY <3>3, <3>4, <3>5 DEF Turns
    <3> QED
      BY <2>2, <3>6
  <2> QED
    BY <2>3, <2>4
<1> QED
    BY <1>2, <1>3

(* After each turn the best match is the one with the highest base of the  *)
(* entries seen so far that cover the address.                             *)
LEMMA LoopFinds ==
    ASSUME entries \in Seq(Attached), NEW physical \in Nat,
           NEW f, Turns(f, Len(entries), physical)
    PROVE  \A n \in 0..Len(entries) :
             \/ /\ f[n] = NoDevice
                /\ \A j \in 1..n : ~Covers(entries[j], physical)
             \/ \E k \in 1..n :
                  /\ f[n] = entries[k] /\ Covers(entries[k], physical)
                  /\ \A j \in 1..n : Covers(entries[j], physical) =>
                                       entries[j].base <= entries[k].base
<1> DEFINE None(n) == /\ f[n] = NoDevice
                      /\ \A j \in 1..n : ~Covers(entries[j], physical)
           Some(n, k) ==
               /\ f[n] = entries[k] /\ Covers(entries[k], physical)
               /\ \A j \in 1..n : Covers(entries[j], physical) =>
                                    entries[j].base <= entries[k].base
           T == {n \in 0..Len(entries) : ~(None(n) \/ \E k \in 1..n : Some(n, k))}
<1>1. /\ Len(entries) \in Nat
      /\ \A i \in 1..Len(entries) :
           /\ entries[i] \in Attached /\ entries[i] # NoDevice
           /\ entries[i].base \in Nat
    BY AttachedFacts
<1>2. CASE T = {}
  <2>1. \A n \in 0..Len(entries) :
          n \notin T => None(n) \/ \E k \in 1..n : Some(n, k)
    OBVIOUS
  <2>2. \A n \in 0..Len(entries) : None(n) \/ \E k \in 1..n : Some(n, k)
    <3> HIDE DEF T, None, Some
    <3> QED
      BY <1>2, <2>1
  <2> QED
    BY <2>2
<1>3. CASE T # {}
  <2>1. PICK n \in T : \A m \in T : n <= m
    <3>1. T \in SUBSET Nat
      BY <1>1
    <3> HIDE DEF T
    <3> QED
      BY <1>3, <3>1, Least
  <2>2. n \in 0..Len(entries) /\ ~None(n) /\ ~(\E k \in 1..n : Some(n, k))
    OBVIOUS
  <2>3. n # 0
    BY <2>2 DEF Turns
  <2> DEFINE m == n - 1
  <2>4. m \in 0..Len(entries) /\ m \notin T /\ n \in 1..Len(entries)
    BY <1>1, <2>1, <2>2, <2>3
  <2>5. f[n] = Turn(f[m], n, physical)
    BY <2>4 DEF Turns
  <2>6. 1..n = (1..m) \union {n}
    BY <1>1, <2>4
  <2>7. CASE ~Covers(entries[n], physical)
    <3>1. f[n] = f[m]
      BY <2>5, <2>7 DEF Turn
    <3>2. None(m) \/ \E k \in 1..m : Some(m, k)
      BY <2>4
    <3>3. None(m) => None(n)
      BY <2>6, <2>7, <3>1
    <3>4. ASSUME NEW k \in 1..m, Some(m, k) PROVE k \in 1..n /\ Some(n, k)
      BY <2>6, <2>7, <3>1, <3>4
    <3> QED
      BY <2>2, <3>2, <3>3, <3>4
  <2>8. CASE Covers(entries[n], physical)
    <3>1. CASE None(m)
      <4>1. f[n] = entries[n]
        BY <2>5, <2>8, <3>1 DEF Turn
      <4>2. Some(n, n)
        BY <1>1, <2>4, <2>6, <2>8, <3>1, <4>1
      <4> QED
        BY <2>2, <2>6, <4>2
    <3>2. ASSUME NEW k \in 1..m, Some(m, k) PROVE FALSE
      <4>1. k \in 1..Len(entries) /\ f[m] = entries[k] /\ f[m] # NoDevice
        BY <1>1, <2>4, <3>2
      <4>2. CASE entries[n].base >= entries[k].base
        <5>1. f[n] = entries[n]
          BY <2>5, <2>8, <4>1, <4>2 DEF Turn
        <5>2. \A j \in 1..m : Covers(entries[j], physical) =>
                                entries[j].base <= entries[n].base
          <6> TAKE j \in 1..m
          <6> HAVE Covers(entries[j], physical)
          <6>1. entries[j].base <= entries[k].base
            BY <3>2
          <6>2. j \in 1..Len(entries)
            BY <1>1, <2>4
          <6> QED
            BY <1>1, <2>4, <4>1, <4>2, <6>1, <6>2
        <5>3. Some(n, n)
          BY <1>1, <2>4, <2>6, <2>8, <5>1, <5>2
        <5> QED
          BY <2>2, <2>6, <5>3
      <4>3. CASE ~(entries[n].base >= entries[k].base)
        <5>1. f[n] = entries[k]
          BY <2>5, <4>1, <4>3 DEF Turn
        <5>2. entries[n].base <= entries[k].base
          BY <1>1, <2>4, <4>1, <4>3
        <5>3. Some(n, k) /\ k \in 1..n
          BY <2>6, <3>2, <5>1, <5>2
        <5> QED
          BY <2>2, <5>3
      <4> QED
        BY <4>2, <4>3
    <3> QED
      BY <2>4, <3>1, <3>2
  <2> QED
    BY <2>7, <2>8
<1> QED
    BY <1>2, <1>3

(* What find_device answers: of the entries that cover the address, one    *)
(* with the highest base, and no device if there is none.                  *)
LEMMA FindDeviceIs ==
    ASSUME entries \in Seq(Attached), NEW a, ToPhysical(a) \in Nat
    PROVE  \/ /\ FindDevice(a) = NoDevice
              /\ \A e \in Range(entries) : ~Covers(e, ToPhysical(a))
           \/ /\ FindDevice(a) \in Range(entries)
              /\ Covers(FindDevice(a), ToPhysical(a))
              /\ \A e \in Range(entries) :
                   Covers(e, ToPhysical(a)) => e.base <= FindDevice(a).base
<1> DEFINE physical == ToPhysical(a)
           Equation(f) ==
               f = [i \in 0..Len(entries) |->
                      IF i = 0 THEN NoDevice
                      ELSE IF /\ Covers(entries[i], physical)
                              /\ \/ f[i - 1] = NoDevice
                                 \/ entries[i].base >= f[i - 1].base
                      THEN entries[i] ELSE f[i - 1]]
           best == CHOOSE f : Equation(f)
<1>1. FindDevice(a) = best[Len(entries)]
    BY DEF FindDevice
<1>2. Len(entries) \in Nat
    OBVIOUS
<1>3. \A f : Equation(f) <=> Turns(f, Len(entries), physical)
  <2> TAKE f
  <2>1. Equation(f) => Turns(f, Len(entries), physical)
    <3> HAVE Equation(f)
    <3>1. \A i \in 0..Len(entries) :
            f[i] = IF i = 0 THEN NoDevice
                   ELSE IF /\ Covers(entries[i], physical)
                           /\ \/ f[i - 1] = NoDevice
                              \/ entries[i].base >= f[i - 1].base
                   THEN entries[i] ELSE f[i - 1]
      OBVIOUS
    <3>2. f = [i \in 0..Len(entries) |-> f[i]]
      OBVIOUS
    <3>3. 0 \in 0..Len(entries) /\ \A i \in 1..Len(entries) : i \in 0..Len(entries) /\ i # 0
      BY <1>2
    <3> HIDE DEF Equation, physical
    <3> QED
      BY <3>1, <3>2, <3>3 DEF Turns, Turn
  <2>2. Turns(f, Len(entries), physical) => Equation(f)
    <3> HAVE Turns(f, Len(entries), physical)
    <3>1. \A i \in 0..Len(entries) :
            f[i] = IF i = 0 THEN NoDevice
                   ELSE IF /\ Covers(entries[i], physical)
                           /\ \/ f[i - 1] = NoDevice
                              \/ entries[i].base >= f[i - 1].base
                   THEN entries[i] ELSE f[i - 1]
      BY <1>2 DEF Turns, Turn
    <3>2. f = [i \in 0..Len(entries) |-> f[i]]
      BY DEF Turns
    <3> QED
      BY <3>1, <3>2
  <2> QED
    BY <2>1, <2>2
<1>4. Turns(best, Len(entries), physical)
  <2>1. PICK f : Turns(f, Len(entries), physical)
    <3>1. Len(entries) \in 0..Len(entries)
      BY <1>2
    <3> HIDE DEF physical
    <3> QED
      BY <3>1, LoopRuns
  <2>2. Equation(f)
    BY <1>3, <2>1
  <2>3. Equation(best)
    <3>1. \E g : Equation(g)
      BY <2>2
    <3> HIDE DEF Equation
    <3> QED
      BY <3>1
  <2> QED
    BY <1>3, <2>3
<1> HIDE DEF best, Equation
<1>5. \/ /\ best[Len(entries)] = NoDevice
         /\ \A j \in 1..Len(entries) : ~Covers(entries[j], physical)
      \/ \E k \in 1..Len(entries) :
           /\ best[Len(entries)] = entries[k] /\ Covers(entries[k], physical)
           /\ \A j \in 1..Len(entries) : Covers(entries[j], physical) =>
                                            entries[j].base <= entries[k].base
    BY <1>2, <1>4, LoopFinds
<1>6. Range(entries) = {entries[j] : j \in 1..Len(entries)}
    BY DEF Range
<1> QED
    BY <1>1, <1>5, <1>6

-----------------------------------------------------------------------------
(* Physical addresses of what the software may use are numbers, and those  *)
(* of the words that are kept.                                             *)
LEMMA ProbesPhysical ==
    /\ \A a \in Probes : ToPhysical(a) \in Words /\ ToPhysical(a) \in Nat
    /\ Words \subseteq Nat
    /\ ToPhysical(FirmwareTarget) \in Nat
<1>1. \A a \in Nat : ToPhysical(a) \in Nat
    BY SMT DEF ToPhysical, Kseg0, Kseg2, Segment
<1>2. FirmwareTarget \in Nat
    BY SMT DEF FirmwareTarget
<1> QED
    BY <1>1, <1>2, BoardAssumption, SMT

(* The table of devices holds what may be attached, in the order of the    *)
(* bases, and the ROM since there is one.                                  *)
BusInv ==
    /\ entries \in Seq(Attached)
    /\ \A i, j \in 1..Len(entries) : i < j => entries[i].base <= entries[j].base
    /\ rom # NoImage => PromEntry \in Range(entries)

LEMMA AttachKeeps ==
    ASSUME NEW device \in Attached, Attach(device), entries \in Seq(Attached),
           \A i, j \in 1..Len(entries) : i < j => entries[i].base <= entries[j].base
    PROVE  /\ entries' \in Seq(Attached)
           /\ \A i, j \in 1..Len(entries') :
                i < j => entries'[i].base <= entries'[j].base
           /\ Range(entries') = Range(entries) \union {device}
<1> DEFINE l == Len(entries)
<1>1. PICK n \in 1..(l + 1) :
        /\ \A i \in 1..l : IF i < n THEN entries[i].base <= device.base
                                    ELSE device.base <= entries[i].base
        /\ entries' = InsertAt(entries, n, device)
    BY DEF Attach
<1>2. l \in Nat /\ \A i \in 1..l : entries[i] \in Attached /\ entries[i].base \in Nat
    BY AttachedFacts
<1>3. device.base \in Nat
    BY AttachedFacts
<1>4. /\ entries' \in Seq(Attached) /\ Len(entries') = l + 1
      /\ \A i \in 1..(l + 1) :
           entries'[i] = IF i < n THEN entries[i]
                         ELSE IF i = n THEN device ELSE entries[i - 1]
  <2> DEFINE p == SubSeq(entries, 1, n - 1)
             q == SubSeq(entries, n, l)
  <2>1. /\ p \in Seq(Attached) /\ Len(p) = n - 1
        /\ \A i \in 1..(n - 1) : p[i] = entries[i]
    BY <1>1, <1>2
  <2>2. /\ q \in Seq(Attached) /\ Len(q) = l + 1 - n
        /\ \A i \in 1..(l + 1 - n) : q[i] = entries[n + i - 1]
    BY <1>1, <1>2
  <2>3. entries' = p \o <<device>> \o q
    BY <1>1 DEF InsertAt
  <2> HIDE DEF p, q, l
  <2>4. <<device>> \in Seq(Attached) /\ Len(<<device>>) = 1
    OBVIOUS
  <2>5. /\ p \o <<device>> \in Seq(Attached) /\ Len(p \o <<device>>) = n
        /\ \A i \in 1..n : (p \o <<device>>)[i] =
                             IF i < n THEN entries[i] ELSE device
    BY <1>1, <1>2, <2>1, <2>4
  <2>6. entries' \in Seq(Attached) /\ Len(entries') = l + 1
    <3> DEFINE r == p \o <<device>>
    <3>1. r \in Seq(Attached) /\ Len(r) = n /\ entries' = r \o q
      BY <2>3, <2>5
    <3> HIDE DEF r
    <3>2. entries' \in Seq(Attached) /\ Len(entries') = n + (l + 1 - n)
      BY <2>2, <3>1
    <3> QED
      BY <1>1, <1>2, <3>2
  <2>7. ASSUME NEW i \in 1..(l + 1)
        PROVE  entries'[i] = IF i < n THEN entries[i]
                             ELSE IF i = n THEN device ELSE entries[i - 1]
    <3>1. CASE i <= n
      BY <1>1, <1>2, <2>2, <2>3, <2>5, <3>1
    <3>2. CASE i > n
      <4>1. entries'[i] = q[i - n]
        BY <1>1, <1>2, <2>2, <2>3, <2>5, <3>2
      <4>2. i - n \in 1..(l + 1 - n) /\ n + (i - n) - 1 = i - 1
        BY <1>1, <1>2, <3>2
      <4> QED
        BY <1>1, <1>2, <2>2, <3>2, <4>1, <4>2
    <3> QED
      BY <1>1, <1>2, <3>1, <3>2
  <2> QED
    BY <2>6, <2>7 DEF l
<1>5. ASSUME NEW i \in 1..(l + 1), NEW j \in 1..(l + 1), i < j
      PROVE  entries'[i].base <= entries'[j].base
  <2> DEFINE base == [m \in 1..l |-> entries[m].base]
             moved(m) == IF m < n THEN base[m]
                         ELSE IF m = n THEN device.base ELSE base[m - 1]
  <2>5. ASSUME NEW m \in 1..(l + 1) PROVE entries'[m].base = moved(m)
    <3>1. CASE m < n
      <4>1. m \in 1..l
        BY <1>1, <1>2, <3>1
      <4> QED
        BY <1>4, <3>1, <4>1
    <3>2. CASE m = n
      BY <1>1, <1>2, <1>4, <3>2
    <3>3. CASE m > n
      <4>1. m - 1 \in 1..l /\ ~(m < n) /\ m # n
        BY <1>1, <1>2, <3>3
      <4> QED
        BY <1>4, <4>1
    <3> QED
      BY <1>1, <1>2, <3>1, <3>2, <3>3
  <2> SUFFICES moved(i) <= moved(j)
    BY <2>5
  <2>6. /\ \A m \in 1..l : base[m] \in Nat
        /\ \A m \in 1..l : IF m < n THEN base[m] <= device.base
                                    ELSE device.base <= base[m]
        /\ \A m, o \in 1..l : m < o => base[m] <= base[o]
    BY <1>1, <1>2
  <2> HIDE DEF base, l
  <2>1. CASE j < n
    <3>1. i \in 1..l /\ j \in 1..l /\ i < n
      BY <1>1, <1>2, <1>5, <2>1
    <3> QED
      BY <1>5, <2>1, <2>6, <3>1
  <2>2. CASE j = n
    <3>1. i \in 1..l /\ i < n
      BY <1>1, <1>2, <1>5, <2>2
    <3> QED
      BY <2>2, <2>6, <3>1
  <2>3. CASE j > n
    <3>1. j - 1 \in 1..l /\ ~(j - 1 < n) /\ ~(j < n) /\ j # n
      BY <1>1, <1>2, <2>3
    <3>2. CASE i < n
      <4>1. i \in 1..l /\ i < j - 1
        BY <1>1, <1>2, <2>3, <3>2
      <4> QED
        BY <2>6, <3>1, <3>2, <4>1
    <3>3. CASE i = n
      BY <2>6, <3>1, <3>3
    <3>4. CASE i > n
      <4>1. i - 1 \in 1..l /\ i - 1 < j - 1 /\ ~(i < n) /\ i # n
        BY <1>1, <1>2, <1>5, <3>4
      <4> QED
        BY <2>6, <3>1, <4>1
    <3> QED
      BY <1>1, <1>2, <3>2, <3>3, <3>4
  <2> QED
    BY <1>1, <1>2, <2>1, <2>2, <2>3
<1>6. Range(entries') = Range(entries) \union {device}
  <2>1. /\ Range(entries') = {entries'[i] : i \in 1..(l + 1)}
        /\ Range(entries) = {entries[i] : i \in 1..l}
    <3>1. DOMAIN entries' = 1..(l + 1) /\ DOMAIN entries = 1..l
      BY <1>4
    <3> QED
      BY <3>1 DEF Range
  <2>2. ASSUME NEW i \in 1..(l + 1)
        PROVE  entries'[i] \in Range(entries) \union {device}
    <3>1. CASE i < n
      <4>1. i \in 1..l /\ entries'[i] = entries[i]
        BY <1>1, <1>2, <1>4, <3>1
      <4> QED
        BY <2>1, <4>1
    <3>2. CASE i = n
      BY <1>1, <1>4, <3>2
    <3>3. CASE i > n
      <4>1. i - 1 \in 1..l /\ entries'[i] = entries[i - 1]
        BY <1>1, <1>2, <1>4, <3>3
      <4> QED
        BY <2>1, <4>1
    <3> QED
      BY <1>1, <1>2, <3>1, <3>2, <3>3
  <2>3. entries'[n] = device
    BY <1>1, <1>4
  <2>4. ASSUME NEW i \in 1..l PROVE entries[i] \in Range(entries')
    <3>1. CASE i < n
      BY <1>2, <1>4, <2>1, <3>1
    <3>2. CASE i >= n
      <4>1. i + 1 \in 1..(l + 1) /\ entries'[i + 1] = entries[i]
        BY <1>1, <1>2, <1>4, <3>2
      <4> QED
        BY <2>1, <4>1
    <3> QED
      BY <1>1, <1>2, <3>1, <3>2
  <2> QED
    BY <1>1, <2>1, <2>2, <2>3, <2>4
<1> QED
    BY <1>4, <1>5, <1>6

(* A cell for each word that is kept, and as long as no two words share    *)
(* one, it holds what was last stored to its word.                         *)
MemoryInv ==
    /\ ramSize \in Nat
    /\ DOMAIN ram = {Masked(w) : w \in {v \in Words : v < ramSize}}
    /\ \A c \in DOMAIN ram : ram[c] \in Values
    /\ stored \in [Words -> Values]
    /\ PowerOfTwo(ramSize) =>
          \A w \in Words : w < ramSize => ram[Masked(w)] = stored[w]

LEMMA StoreKeeps ==
    ASSUME MemoryInv, NEW words, \A a \in words : ToPhysical(a) \in Nat,
           NEW value \in Values, StoreWords(words, value), UNCHANGED ramSize
    PROVE  MemoryInv'
<1> DEFINE S == {ToPhysical(a) : a \in {b \in words : InRam(b)}}
<1>1. \A s \in S : s \in Nat /\ s < ramSize
    BY DEF InRam
<1>2. /\ ram' = [c \in DOMAIN ram |->
                    IF \E s \in S : c = Masked(s) THEN value ELSE ram[c]]
      /\ stored' = [w \in Words |-> IF w \in S THEN value ELSE stored[w]]
    BY DEF StoreWords, WriteWords
<1> HIDE DEF S
<1>3. \A w : Masked(w)' = Masked(w)
    BY DEF Masked, Ones
<1>4. DOMAIN ram' = DOMAIN ram /\ \A c \in DOMAIN ram' : ram'[c] \in Values
    BY <1>2 DEF MemoryInv
<1>5. stored' \in [Words -> Values]
    BY <1>2 DEF MemoryInv
<1>6. ASSUME PowerOfTwo(ramSize), NEW w \in Words, w < ramSize
      PROVE  ram'[Masked(w)] = stored'[w]
  <2>1. Masked(w) \in DOMAIN ram /\ w \in Nat
    BY <1>6, ProbesPhysical DEF MemoryInv
  <2>2. ram[Masked(w)] = stored[w]
    BY <1>6 DEF MemoryInv
  <2>3. (\E s \in S : Masked(w) = Masked(s)) <=> w \in S
    BY <1>1, <1>6, <2>1, CellsDiffer
  <2>4. ram'[Masked(w)] = IF w \in S THEN value ELSE ram[Masked(w)]
    BY <1>2, <2>1, <2>3
  <2> QED
    BY <1>2, <2>2, <2>4
<1>7. PowerOfTwo(ramSize)' <=> PowerOfTwo(ramSize)
    BY DEF PowerOfTwo, Weights
<1>8. {Masked(w)' : w \in {v \in Words : v < ramSize'}}
        = {Masked(w) : w \in {v \in Words : v < ramSize}}
    BY <1>3
<1> QED
    BY <1>3, <1>4, <1>5, <1>6, <1>7, <1>8 DEF MemoryInv

(* Steps that leave the memory alone.                                      *)
LEMMA MemoryKeeps ==
    ASSUME MemoryInv, UNCHANGED <<ramSize, ram, stored>> PROVE MemoryInv'
    BY DEF MemoryInv, Masked, Ones, PowerOfTwo

-----------------------------------------------------------------------------
(* The steps of the board are steps of the PROM, or leave it alone.        *)
LEMMA BoardStepsPROM == [BoardNext]_boardVars => [PROMNext]_promVars
<1> SUFFICES ASSUME [BoardNext]_boardVars PROVE [PROMNext]_promVars
    OBVIOUS
<1>1. CASE AttachNext
    BY <1>1 DEF AttachNext
<1>2. CASE ExecuteBootstrap \/ PROMReset
    BY <1>2 DEF ExecuteBootstrap, PROMReset, PROMNext
<1>3. ASSUME NEW file \in Files, LoadPROM(file) \/ LoadPROMFails(file)
      PROVE  [PROMNext]_promVars
    BY <1>3 DEF LoadPROM, LoadPROMFails, PROMNext
<1>4. ASSUME NEW words, WriteBus(words) PROVE [PROMNext]_promVars
    BY <1>4 DEF WriteBus
<1>5. ASSUME NEW a, AccessNull(a) PROVE [PROMNext]_promVars
    BY <1>5 DEF AccessNull
<1>6. CASE UNCHANGED boardVars
    BY <1>6 DEF boardVars
<1> QED
    BY <1>1, <1>2, <1>3, <1>4, <1>5, <1>6 DEF BoardNext

(* The PROM on the board, which also attaches its ROM to the bus and       *)
(* stores its firmware over it, is the PROM on its own.                    *)
THEOREM BoardImplementsPROM == BoardSpec => PROMSpec
<1>1. BoardInit => PROMInit
    BY DEF BoardInit
<1> QED
    BY <1>1, BoardStepsPROM, PTL DEF BoardSpec, PROMSpec

(* The inductive invariant of the board.                                   *)
BoardInv ==
    /\ BusInv /\ MemoryInv /\ PROMTypeOK /\ RomIsImage
    /\ crashed \in BOOLEAN

LEMMA BoardInitInv == BoardInit => BoardInv
<1> SUFFICES ASSUME BoardInit PROVE BoardInv
    OBVIOUS
<1>1. BusInv
    BY DEF BoardInit, BusInit, PROMInit, BusInv
<1>2. PROMTypeOK /\ RomIsImage
    BY DEF BoardInit, PROMInit, PROMTypeOK, RomIsImage
<1>3. MemoryInv
  <2>1. PICK megabytes \in MemorySizes : MemoryInit(megabytes)
    BY DEF BoardInit
  <2>2. ramSize \in Nat
    <3>1. SizeOf(megabytes) \in Nat
      <4>1. CASE megabytes \in 1..1024
        BY <4>1, SMT DEF SizeOf, Megabyte
      <4>2. CASE megabytes \notin 1..1024
        BY <4>2, SMT DEF SizeOf
      <4> QED
        BY <4>1, <4>2
    <3> QED
      BY <2>1, <3>1 DEF MemoryInit
  <2>3. ram = [c \in {Masked(w) : w \in {v \in Words : v < ramSize}} |-> "zero"]
    BY <2>1 DEF MemoryInit
  <2>4. "zero" \in Values
    BY DEF Values
  <2>5. stored = [w \in Words |-> "zero"]
    BY DEF BoardInit
  <2>6. \A w \in Words : w < ramSize => ram[Masked(w)] = "zero"
    BY <2>3
  <2> QED
    BY <2>2, <2>3, <2>4, <2>5, <2>6 DEF MemoryInv
<1> QED
    BY <1>1, <1>2, <1>3 DEF BoardInit, BoardInv

LEMMA BoardNextInv == BoardInv /\ [BoardNext]_boardVars => BoardInv'
<1> SUFFICES ASSUME BoardInv, [BoardNext]_boardVars PROVE BoardInv'
    OBVIOUS
<1>1. PROMTypeOK' /\ RomIsImage'
    BY BoardStepsPROM, PROMTypeStep, RomIsImageStep DEF BoardInv
<1>2. ASSUME NEW device \in Attached, Attach(device),
             rom' # NoImage => rom # NoImage \/ device = PromEntry
      PROVE  BusInv'
    BY <1>2, AttachKeeps DEF BoardInv, BusInv
<1>3. ASSUME UNCHANGED entries, rom' # NoImage => rom # NoImage PROVE BusInv'
    BY <1>3 DEF BoardInv, BusInv
<1>4. ASSUME NEW words, \A a \in words : ToPhysical(a) \in Nat,
             StoreWords(words, "data"), UNCHANGED ramSize
      PROVE  MemoryInv'
  <2>1. "data" \in Values
    BY DEF Values
  <2> QED
    BY <1>4, <2>1, StoreKeeps DEF BoardInv
<1>5. ASSUME \/ StoreWords({FirmwareTarget}, "firmware")
             \/ UNCHANGED <<ram, stored>>,
             UNCHANGED ramSize
      PROVE  MemoryInv'
  <2>1. "firmware" \in Values
    BY DEF Values
  <2>2. \A a \in {FirmwareTarget} : ToPhysical(a) \in Nat
    BY ProbesPhysical
  <2> QED
    BY <1>5, <2>1, <2>2, StoreKeeps, MemoryKeeps DEF BoardInv
<1>6. CASE AttachNext
  <2>1. Wiring[Len(entries) + 1] \in Attached
    <3>1. Len(entries) \in Nat /\ Len(entries) < 10
      <4>1. Len(entries) \in Nat /\ ~(Len(entries) >= Len(Wiring))
        BY <1>6 DEF AttachNext, Built, BoardInv, BusInv
      <4>2. Len(Wiring) = 10
        BY WiringFacts
      <4> QED
        BY <4>1, <4>2
    <3> QED
      BY <3>1 DEF Attached
  <2>2. BusInv'
    BY <1>2, <1>6, <2>1 DEF AttachNext, promVars
  <2>3. MemoryInv'
    BY <1>6, MemoryKeeps DEF AttachNext, BoardInv
  <2> QED
    BY <1>1, <1>6, <2>2, <2>3 DEF AttachNext, BoardInv
<1>7. CASE ExecuteBootstrap
  <2>1. BusInv'
    BY <1>3, <1>7 DEF ExecuteBootstrap, Execute
  <2>2. MemoryInv'
    BY <1>7, MemoryKeeps DEF ExecuteBootstrap, BoardInv
  <2> QED
    BY <1>1, <1>7, <2>1, <2>2 DEF ExecuteBootstrap, BoardInv
<1>8. CASE PROMReset
  <2>1. rom # NoImage
    BY <1>8 DEF PROMReset, ResetPROM, BoardInv, RomIsImage
  <2>2. BusInv'
    BY <1>3, <1>8, <2>1 DEF PROMReset
  <2>3. MemoryInv'
    BY <1>5, <1>8 DEF PROMReset
  <2> QED
    BY <1>1, <1>8, <2>2, <2>3 DEF PROMReset, BoardInv
<1>9. ASSUME NEW file \in Files, LoadPROM(file) PROVE BoardInv'
  <2>1. BusInv'
    <3>1. CASE rom = NoImage
      <4>1. PromEntry \in Attached /\ Attach(PromEntry)
        BY <1>9, <3>1 DEF LoadPROM, Attached
      <4> QED
        BY <1>2, <4>1
    <3>2. CASE rom # NoImage
      BY <1>3, <1>9, <3>2 DEF LoadPROM
    <3> QED
      BY <3>1, <3>2
  <2>2. MemoryInv'
    BY <1>5, <1>9 DEF LoadPROM
  <2> QED
    BY <1>1, <1>9, <2>1, <2>2 DEF LoadPROM, BoardInv
<1>10. ASSUME NEW file \in Files, LoadPROMFails(file) PROVE BoardInv'
  <2>1. BusInv'
    BY <1>3, <1>10 DEF LoadPROMFails, LoadFails
  <2>2. MemoryInv'
    BY <1>10, MemoryKeeps DEF LoadPROMFails, BoardInv
  <2> QED
    BY <1>1, <1>10, <2>1, <2>2 DEF LoadPROMFails, BoardInv
<1>11. ASSUME NEW words \in SUBSET Probes, WriteBus(words) PROVE BoardInv'
  <2>1. BusInv'
    BY <1>3, <1>11 DEF WriteBus, promVars
  <2>2. MemoryInv'
    BY <1>4, <1>11, ProbesPhysical DEF WriteBus
  <2> QED
    BY <1>1, <1>11, <2>1, <2>2 DEF WriteBus, BoardInv
<1>12. ASSUME NEW a \in Probes, AccessNull(a) PROVE BoardInv'
  <2>1. BusInv'
    BY <1>3, <1>12 DEF AccessNull, promVars
  <2>2. MemoryInv'
    BY <1>12, MemoryKeeps DEF AccessNull, BoardInv
  <2> QED
    BY <1>1, <1>12, <2>1, <2>2 DEF AccessNull, BoardInv
<1>13. CASE UNCHANGED boardVars
  <2>1. BusInv'
    BY <1>3, <1>13 DEF boardVars, promVars
  <2>2. MemoryInv'
    BY <1>13, MemoryKeeps DEF boardVars, BoardInv
  <2> QED
    BY <1>1, <1>13, <2>1, <2>2 DEF boardVars, BoardInv
<1> QED
  <2>1. ASSUME NEW a \in Probes, WriteBus({a}) PROVE BoardInv'
    BY <1>11, <2>1
  <2>2. ASSUME NEW a \in {b \in Probes : b + 1 \in Probes}, WriteBus({a, a + 1})
        PROVE  BoardInv'
    BY <1>11, <2>2
  <2> QED
    BY <1>6, <1>7, <1>8, <1>9, <1>10, <1>12, <1>13, <2>1, <2>2 DEF BoardNext

LEMMA BoardInvariant == BoardSpec => []BoardInv
    BY BoardInitInv, BoardNextInv, PTL DEF BoardSpec

(* The table, the memory and the PROM keep their types, and the table is   *)
(* in the order of the bases.                                              *)
THEOREM BoardTypeCorrect == BoardSpec => []BoardTypeOK
<1>1. BoardInv => BoardTypeOK
  <2> SUFFICES ASSUME BoardInv PROVE BoardTypeOK
    OBVIOUS
  <2>1. BusTypeOK
    <3>1. DOMAIN NoDevice = {"name", "base", "size"}
      BY DEF NoDevice, Entry
    <3>2. entries \in Seq(Attached) /\ DOMAIN entries = 1..Len(entries)
      BY DEF BoardInv, BusInv
    <3>3. \A i \in DOMAIN entries : entries[i] \in Attached
      BY <3>2
    <3> QED
      BY <3>1, <3>2, <3>3, AttachedFacts DEF BusTypeOK, BoardInv, BusInv
  <2>2. MemoryTypeOK
    BY DEF MemoryTypeOK, BoardInv, MemoryInv, Masked
  <2> QED
    BY <2>1, <2>2 DEF BoardTypeOK, BoardInv, MemoryInv
<1> QED
    BY <1>1, BoardInvariant, PTL

(* An address belongs to the innermost window around it, and each device   *)
(* to its own base, whatever the order of attachment (find_device).        *)
THEOREM BoardDecodesInnermost == BoardSpec => []DecodesInnermost
<1>1. BoardInv => DecodesInnermost
  <2> SUFFICES ASSUME BoardInv PROVE DecodesInnermost
    OBVIOUS
  <2>1. entries \in Seq(Attached) /\ Range(entries) \subseteq Attached
    BY DEF BoardInv, BusInv, Range
  <2>2. ASSUME NEW a \in Probes
        PROVE  LET around == {e \in Range(entries) : Covers(e, ToPhysical(a))}
               IN  IF around = {} THEN FindDevice(a) = NoDevice
                   ELSE /\ FindDevice(a) \in around
                        /\ \A e \in around : e.base <= FindDevice(a).base
    BY <2>1, FindDeviceIs, ProbesPhysical
  <2>3. ASSUME NEW e \in Range(entries) PROVE FindDevice(e.base) = e
    <3>1. /\ ToPhysical(e.base) = e.base /\ e.base \in Nat
          /\ Covers(e, e.base)
      BY <2>1, AttachedFacts DEF Covers
    <3>2. /\ FindDevice(e.base) \in Attached
          /\ Covers(FindDevice(e.base), e.base)
          /\ e.base <= FindDevice(e.base).base
      BY <2>1, <3>1, FindDeviceIs
    <3>3. FindDevice(e.base).base = e.base
      BY <3>1, <3>2, AttachedFacts DEF Covers
    <3> QED
      BY <2>1, <3>2, <3>3, AttachedFacts
  <2> QED
    BY <2>2, <2>3 DEF DecodesInnermost
<1> QED
    BY <1>1, BoardInvariant, PTL

(* With a size that is a power of two, a word of memory no device covers   *)
(* reads as what was last stored to it: no two words share a cell.         *)
THEOREM BoardRamReads == BoardSpec => []RamReads
<1>1. BoardInv => RamReads
  <2> SUFFICES ASSUME BoardInv, PowerOfTwo(ramSize), NEW a \in Probes, InRam(a)
               PROVE  Answer(a) = stored[ToPhysical(a)]
    BY DEF RamReads
  <2>1. NoDevice # PromEntry
    BY AttachedFacts DEF Attached
  <2>2. Answer(a) = ram[Masked(ToPhysical(a))]
    BY <2>1 DEF Answer, InRam, ReadWord
  <2> QED
    BY <2>2, ProbesPhysical DEF BoardInv, MemoryInv, InRam
<1> QED
    BY <1>1, BoardInvariant, PTL

(* Once the CPU was started into the PROM, the reset vector belongs to the *)
(* ROM and shows the image that was loaded last.                           *)
THEOREM BoardRomAnswers == BoardSpec => []RomAnswers
<1>1. BoardInv => RomAnswers
  <2> SUFFICES ASSUME BoardInv, started
               PROVE  /\ FindDevice(ResetVector) = PromEntry
                      /\ Answer(ResetVector) = rom
    BY DEF RomAnswers
  <2>1. ToPhysical(ResetVector) = PromEntry.base
    BY PromFacts, SMT DEF ToPhysical, ResetVector, Kseg0, Kseg2, Segment
  <2>2. PromEntry \in Range(entries) /\ entries \in Seq(Attached)
    BY DEF BoardInv, BusInv, RomIsImage
  <2>3. Range(entries) \subseteq Attached /\ PromEntry \in Attached
    BY <2>2 DEF Range, Attached
  <2>4. PromEntry.base \in Nat /\ Covers(PromEntry, PromEntry.base)
    BY <2>3, AttachedFacts DEF Covers
  <2>5. /\ FindDevice(ResetVector) \in Attached
        /\ Covers(FindDevice(ResetVector), PromEntry.base)
        /\ PromEntry.base <= FindDevice(ResetVector).base
    BY <2>1, <2>2, <2>3, <2>4, FindDeviceIs
  <2>6. FindDevice(ResetVector) = PromEntry
    BY <2>3, <2>4, <2>5, AttachedFacts DEF Covers
  <2>7. PromEntry.base < PromEntry.base + PromEntry.size - 1
    BY PromFacts, SMT
  <2> QED
    BY <2>1, <2>6, <2>7 DEF Answer, RomWord
<1> QED
    BY <1>1, BoardInvariant, PTL
=============================================================================
