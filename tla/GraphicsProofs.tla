--------------------------- MODULE GraphicsProofs ---------------------------
(***************************************************************************)
(* What holds of the graphics devices for every size of their tables and   *)
(* every set of addresses: the geometry processor's ring is a queue whose  *)
(* flags tell the truth, the display engine's switches agree with their    *)
(* bits, the picture moves at a swap, and drawing lands in the store.      *)
(***************************************************************************)
EXTENDS Display, Microprocessor, DisplayEngine, Framebuffer, TLAPS

-----------------------------------------------------------------------------
(* Remainders of what is less than twice the divisor. *)
LEMMA Remainder ==
    ASSUME NEW n \in Nat, n > 0, NEW x \in Nat, x < 2 * n
    PROVE  x % n = IF x < n THEN x ELSE x - n
<1>1. CASE x < n
    BY <1>1
<1>2. CASE x >= n
  <2>1. x % n = (x - n) % n
    OBVIOUS
  <2> QED
    BY <1>2, <2>1
<1> QED
    BY <1>1, <1>2

-----------------------------------------------------------------------------
(* Types of the geometry processor: its stack and its ring are indexed     *)
(* within their bounds.                                                    *)
LEMMA MicroInitType == MicroInit => MicroTypeOK
<1> SUFFICES ASSUME MicroInit PROVE MicroTypeOK
    OBVIOUS
<1>1. drawn \in Seq(MicroCommands)
    BY DEF MicroInit
<1> QED
    BY <1>1, MicroAssumption DEF MicroInit, MicroTypeOK, MicroCommands, MicroBits

(* The number of commands that wait, without a remainder. *)
Count == IF head >= tail THEN head - tail ELSE head - tail + FifoSize

LEMMA CountIs ==
    MicroTypeOK =>
        /\ Count \in 0..(FifoSize - 1)
        /\ Waiting = [i \in 1..Count |-> cells[(tail + i - 1) % FifoSize]]
<1> HAVE MicroTypeOK
<1> USE MicroAssumption DEF MicroTypeOK
<1>1. Count \in 0..(FifoSize - 1)
    BY DEF Count
<1>2. (head - tail + FifoSize) % FifoSize = Count
  <2> DEFINE x == head - tail + FifoSize
  <2>1. x \in Nat /\ x < 2 * FifoSize /\ FifoSize \in Nat /\ FifoSize > 0
    OBVIOUS
  <2> HIDE DEF x
  <2>2. x % FifoSize = IF x < FifoSize THEN x ELSE x - FifoSize
    BY <2>1, Remainder
  <2> QED
    BY <2>2 DEF x, Count
<1> QED
    BY <1>1, <1>2 DEF Waiting

(* The cell a waiting command is in, without a remainder. *)
LEMMA CellIs ==
    ASSUME MicroTypeOK, NEW i \in 1..FifoSize
    PROVE  (tail + i - 1) % FifoSize =
               IF tail + i - 1 < FifoSize THEN tail + i - 1
                                          ELSE tail + i - 1 - FifoSize
<1> USE MicroAssumption DEF MicroTypeOK
<1> DEFINE x == tail + i - 1
<1>1. x \in Nat /\ x < 2 * FifoSize /\ FifoSize \in Nat /\ FifoSize > 0
    OBVIOUS
<1> HIDE DEF x
<1>2. x % FifoSize = IF x < FifoSize THEN x ELSE x - FifoSize
    BY <1>1, Remainder
<1> QED
    BY <1>2 DEF x

LEMMA WaitingType ==
    MicroTypeOK => Waiting \in Seq(MicroCommands) /\ Len(Waiting) = Count
<1> HAVE MicroTypeOK
<1>1. ASSUME NEW i \in 1..Count
      PROVE  cells[(tail + i - 1) % FifoSize] \in MicroCommands
    BY CountIs, CellIs, MicroAssumption DEF MicroTypeOK
<1>2. Waiting \in [1..Count -> MicroCommands]
    BY <1>1, CountIs
<1>3. Count \in Nat
    BY CountIs, MicroAssumption
<1> QED
    BY <1>2, <1>3

(* The ring's own tests tell how many commands wait. *)
LEMMA RingTests ==
    MicroTypeOK =>
        /\ FifoEmpty <=> Waiting = <<>>
        /\ FifoFull(head) <=> Len(Waiting) = FifoSize - 1
<1> HAVE MicroTypeOK
<1> USE MicroAssumption DEF MicroTypeOK
<1>1. FifoEmpty <=> Count = 0
    BY DEF FifoEmpty, Count
<1>2. (head + 1) % FifoSize = IF head + 1 < FifoSize THEN head + 1 ELSE 0
  <2> DEFINE x == head + 1
  <2>1. x \in Nat /\ x < 2 * FifoSize /\ FifoSize \in Nat /\ FifoSize > 0
    OBVIOUS
  <2> HIDE DEF x
  <2>2. x % FifoSize = IF x < FifoSize THEN x ELSE x - FifoSize
    BY <2>1, Remainder
  <2> QED
    BY <2>2 DEF x
<1>3. FifoFull(head) <=> Count = FifoSize - 1
    BY <1>2 DEF FifoFull, Count
<1> QED
    BY <1>1, <1>3, WaitingType

LEMMA MicroNextType == MicroTypeOK /\ [MicroNext]_microVars => MicroTypeOK'
<1> SUFFICES ASSUME MicroTypeOK, [MicroNext]_microVars PROVE MicroTypeOK'
    OBVIOUS
<1> USE MicroAssumption DEF MicroTypeOK
<1>1. CASE MicroReset
  <2>1. drawn' \in Seq(MicroCommands)
    BY <1>1 DEF MicroReset
  <2> QED
    BY <1>1, <2>1 DEF MicroReset, MicroBits
<1>2. CASE DrawPrimitive
  <2>1. drawn' \in Seq(MicroCommands)
    BY <1>2, WaitingType DEF DrawPrimitive
  <2>2. microStatus' \subseteq MicroBits
    BY <1>2 DEF DrawPrimitive, MicroBits
  <2> QED
    BY <1>2, <2>1, <2>2 DEF DrawPrimitive
<1>3. CASE ProcessVertex \/ Flush
    BY <1>3 DEF ProcessVertex, Flush, ringVars, MicroBits
<1>4. ASSUME NEW c \in MicroCommands, PushCommand(c) PROVE MicroTypeOK'
  <2>1. head' \in 0..(FifoSize - 1)
    BY <1>4 DEF PushCommand
  <2>2. microStatus' \subseteq MicroBits
    BY <1>4 DEF PushCommand, MicroBits
  <2> QED
    BY <1>4, <2>1, <2>2 DEF PushCommand
<1>5. ASSUME NEW m \in Matrices, LoadMatrix(m) PROVE MicroTypeOK'
    BY <1>5 DEF LoadMatrix, ringVars
<1>6. CASE PushMatrix
    BY <1>6 DEF PushMatrix, ringVars
<1>7. CASE PopMatrix
    BY <1>7 DEF PopMatrix, ringVars
<1>8. CASE UNCHANGED microVars
    BY <1>8 DEF microVars, ringVars
<1> QED
    BY <1>1, <1>2, <1>3, <1>4, <1>5, <1>6, <1>7, <1>8 DEF MicroNext

(* The ring, the status word and the stack keep their types and bounds. *)
THEOREM MicroTypeCorrect == MicroSpec => []MicroTypeOK
    BY MicroInitType, MicroNextType, PTL DEF MicroSpec

-----------------------------------------------------------------------------
(* A command that is written is the last of those that wait. *)
LEMMA PushAppends ==
    ASSUME MicroTypeOK, NEW c \in MicroCommands, PushCommand(c)
    PROVE  Waiting' = Append(Waiting, c) /\ Len(Waiting) < FifoSize - 1
<1> USE MicroAssumption
<1>1. /\ Waiting' \in Seq(MicroCommands) /\ Len(Waiting') = Count'
      /\ Waiting' = [i \in 1..Count' |-> cells'[(tail' + i - 1) % FifoSize]]
  <2>1. MicroTypeOK'
    BY MicroNextType DEF MicroNext
  <2>2. (MicroTypeOK => Waiting \in Seq(MicroCommands) /\ Len(Waiting) = Count)'
    BY WaitingType, PTL
  <2>3. (MicroTypeOK => Waiting = [i \in 1..Count |-> cells[(tail + i - 1) % FifoSize]])'
    BY CountIs, PTL
  <2> QED
    BY <2>1, <2>2, <2>3
<1>2. Count < FifoSize - 1
    BY RingTests, WaitingType, CountIs DEF PushCommand, MicroTypeOK
<1>3. head' = (IF head + 1 < FifoSize THEN head + 1 ELSE 0) /\ tail' = tail
  <2> DEFINE x == head + 1
  <2>1. x \in Nat /\ x < 2 * FifoSize /\ FifoSize \in Nat /\ FifoSize > 0
    BY DEF MicroTypeOK
  <2> HIDE DEF x
  <2>2. x % FifoSize = IF x < FifoSize THEN x ELSE x - FifoSize
    BY <2>1, Remainder
  <2> QED
    BY <2>2 DEF x, PushCommand, MicroTypeOK
<1>4. Count' = Count + 1
    BY <1>2, <1>3 DEF Count, MicroTypeOK
<1>5. Waiting' = [i \in 1..(Count + 1) |-> cells'[(tail + i - 1) % FifoSize]]
    BY <1>1, <1>3, <1>4
<1>6. Count \in Nat /\ Count + 1 \in 1..FifoSize
    BY <1>2, CountIs
<1>7. ASSUME NEW i \in 1..Count
      PROVE  cells'[(tail + i - 1) % FifoSize] = cells[(tail + i - 1) % FifoSize]
  <2> DEFINE k == (tail + i - 1) % FifoSize
  <2>1. k = IF tail + i - 1 < FifoSize THEN tail + i - 1
                                      ELSE tail + i - 1 - FifoSize
    BY <1>6, CellIs
  <2>2. k \in 0..(FifoSize - 1) /\ k # head
    BY <2>1, <1>6 DEF MicroTypeOK, Count
  <2> HIDE DEF k
  <2>3. cells'[k] = cells[k]
    BY <2>2 DEF PushCommand, MicroTypeOK
  <2> QED
    BY <2>3 DEF k
<1>8. (tail + (Count + 1) - 1) % FifoSize = head
    BY <1>6, CellIs DEF Count, MicroTypeOK
<1>9. cells'[head] = c
    BY DEF PushCommand, MicroTypeOK
<1>10. Waiting' = Append(Waiting, c)
  <2>1. Waiting \in Seq(MicroCommands) /\ Len(Waiting) = Count
    BY WaitingType
  <2>2. Waiting' \in Seq(MicroCommands) /\ Len(Waiting') = Count + 1
    BY <1>1, <1>4
  <2>3. ASSUME NEW i \in 1..Count PROVE Waiting'[i] = Waiting[i]
    BY <1>5, <1>6, <1>7, CountIs
  <2>4. Waiting'[Count + 1] = c
    BY <1>5, <1>6, <1>8, <1>9
  <2> QED
    BY <2>1, <2>2, <2>3, <2>4, <1>6
<1> QED
    BY <1>2, <1>10, WaitingType

(* The flags in the status word agree with the ring after each step. *)
LEMMA FlagsStep ==
    MicroTypeOK /\ FlagsTellFifo /\ [MicroNext]_microVars => FlagsTellFifo'
<1> SUFFICES ASSUME MicroTypeOK, FlagsTellFifo, [MicroNext]_microVars
             PROVE  FlagsTellFifo'
    OBVIOUS
<1> USE MicroAssumption DEF FlagsTellFifo, FifoEmpty
<1>0. (/\ FifoEmpty <=> Waiting = <<>>
       /\ FifoFull(head) <=> Len(Waiting) = FifoSize - 1)'
  <2>1. MicroTypeOK'
    BY MicroNextType
  <2>2. (MicroTypeOK => /\ FifoEmpty <=> Waiting = <<>>
                        /\ FifoFull(head) <=> Len(Waiting) = FifoSize - 1)'
    BY RingTests, PTL
  <2> QED
    BY <2>1, <2>2
<1>1. CASE MicroReset
    BY <1>1, Remainder DEF MicroReset, FifoFull
<1>2. CASE DrawPrimitive
  <2>1. head' = tail' /\ "EMPTY" \in microStatus' /\ "FULL" \notin microStatus'
    BY <1>2 DEF DrawPrimitive
  <2>2. Waiting' = <<>>
    BY <2>1, <1>0
  <2>3. ~FifoFull(head)'
    BY <2>2, <1>0
  <2> QED
    BY <2>1, <2>3
<1>3. CASE ProcessVertex \/ Flush
    BY <1>3 DEF ProcessVertex, Flush, ringVars, FifoFull
<1>4. ASSUME NEW c \in MicroCommands, PushCommand(c) PROVE FlagsTellFifo'
  <2>1. Waiting \in Seq(MicroCommands) /\ Waiting' = Append(Waiting, c)
    BY <1>4, PushAppends, WaitingType
  <2>2. Waiting' # <<>>
    BY <2>1
  <2>3. head' # tail'
    BY <2>2, <1>0
  <2>4. "EMPTY" \notin microStatus'
    BY <1>4 DEF PushCommand
  <2>5. "FULL" \notin microStatus
    BY <1>4 DEF PushCommand
  <2>6. "FULL" \in microStatus' <=> FifoFull(head)'
    BY <1>4, <2>5 DEF PushCommand, FifoFull
  <2> QED
    BY <2>3, <2>4, <2>6
<1>5. CASE UNCHANGED <<ringVars, microStatus>>
    BY <1>5 DEF ringVars, FifoFull
<1>6. (\E m \in Matrices : LoadMatrix(m)) \/ PushMatrix \/ PopMatrix
        \/ UNCHANGED microVars => UNCHANGED <<ringVars, microStatus>>
    BY DEF LoadMatrix, PushMatrix, PopMatrix, microVars
<1> QED
    BY <1>1, <1>2, <1>3, <1>4, <1>5, <1>6 DEF MicroNext

LEMMA MicroInitFlags == MicroInit => FlagsTellFifo
    BY MicroAssumption, Remainder
       DEF MicroInit, FlagsTellFifo, FifoEmpty, FifoFull

(* The full and the empty flag always agree with the ring's two ends. *)
THEOREM MicroFlagsTellFifo == MicroSpec => []FlagsTellFifo
    BY MicroInitFlags, MicroTypeCorrect, FlagsStep, PTL DEF MicroSpec

(* The flags are what the queue's say, in any state with the right types.  *)
LEMMA FlagsOfQueue ==
    MicroTypeOK /\ FlagsTellFifo =>
        /\ ("FULL" \in microStatus) = (Len(Waiting) = FifoSize - 1)
        /\ ("EMPTY" \in microStatus) = (Waiting = <<>>)
    BY RingTests DEF FlagsTellFifo

LEMMA QueueInit == MicroInit => Fifo!Init
<1> SUFFICES ASSUME MicroInit PROVE Fifo!Init
    OBVIOUS
<1>1. Waiting = <<>>
    BY MicroInitType, RingTests DEF MicroInit, FifoEmpty
<1> QED
    BY <1>1 DEF MicroInit, Fifo!Init

(* Each step of the processor is one of the queue, or none. *)
LEMMA QueueStep ==
    /\ MicroTypeOK /\ FlagsTellFifo
    /\ [MicroNext]_microVars
    => [Fifo!Next]_<<Waiting, drawn, "FULL" \in microStatus, "EMPTY" \in microStatus>>
<1> SUFFICES ASSUME MicroTypeOK, FlagsTellFifo, [MicroNext]_microVars
             PROVE  [Fifo!Next]_<<Waiting, drawn,
                                  "FULL" \in microStatus, "EMPTY" \in microStatus>>
    OBVIOUS
<1>1. Fifo!Flagged
  <2>1. MicroTypeOK' /\ FlagsTellFifo'
    BY MicroNextType, FlagsStep
  <2>2. (MicroTypeOK /\ FlagsTellFifo =>
            /\ ("FULL" \in microStatus) = (Len(Waiting) = FifoSize - 1)
            /\ ("EMPTY" \in microStatus) = (Waiting = <<>>))'
    BY FlagsOfQueue, PTL
  <2>3. /\ ("FULL" \in microStatus') = (Len(Waiting') = FifoSize - 1)
        /\ ("EMPTY" \in microStatus') = (Waiting' = <<>>)
    BY <2>1, <2>2
  <2> QED
    BY <2>3 DEF Fifo!Flagged
<1>2. ASSUME head' = tail' PROVE Waiting' = <<>>
  <2>1. MicroTypeOK'
    BY MicroNextType
  <2>2. (MicroTypeOK => (FifoEmpty <=> Waiting = <<>>))'
    BY RingTests, PTL
  <2> QED
    BY <1>2, <2>1, <2>2 DEF FifoEmpty
<1>3. CASE MicroReset
  <2>1. Waiting' = <<>> /\ drawn' = <<>>
    BY <1>2, <1>3 DEF MicroReset
  <2> QED
    BY <1>1, <2>1 DEF Fifo!Next, Fifo!Clear
<1>4. CASE DrawPrimitive
  <2>1. Waiting' = <<>> /\ drawn' = Waiting
    BY <1>2, <1>4 DEF DrawPrimitive
  <2> QED
    BY <1>1, <2>1 DEF Fifo!Next, Fifo!Run
<1>5. ASSUME NEW c \in MicroCommands, PushCommand(c) PROVE Fifo!Next
  <2>1. Waiting' = Append(Waiting, c) /\ Len(Waiting) < FifoSize - 1
    BY <1>5, PushAppends
  <2>2. UNCHANGED drawn
    BY <1>5 DEF PushCommand
  <2> QED
    BY <1>1, <2>1, <2>2 DEF Fifo!Next, Fifo!Put
<1>6. CASE ProcessVertex \/ Flush
  <2>1. UNCHANGED <<Waiting, drawn>>
    BY <1>6 DEF ProcessVertex, Flush, ringVars, Waiting
  <2>2. /\ "FULL" \in microStatus' <=> "FULL" \in microStatus
        /\ "EMPTY" \in microStatus' <=> "EMPTY" \in microStatus
    BY <1>6 DEF ProcessVertex, Flush
  <2> QED
    BY <2>1, <2>2
<1>7. CASE UNCHANGED <<ringVars, microStatus>>
    BY <1>7 DEF ringVars, Waiting
<1>8. (\E m \in Matrices : LoadMatrix(m)) \/ PushMatrix \/ PopMatrix
        \/ UNCHANGED microVars => UNCHANGED <<ringVars, microStatus>>
    BY DEF LoadMatrix, PushMatrix, PopMatrix, microVars
<1> QED
    BY <1>3, <1>4, <1>5, <1>6, <1>7, <1>8 DEF MicroNext

(* Commands are run in the order they were written, each once, over any    *)
(* number of rounds of the ring, and the status word tells whether any     *)
(* waits and whether there is room.                                        *)
THEOREM MicroImplementsQueue == MicroSpec => FifoIsQueue
    BY QueueInit, QueueStep, MicroTypeCorrect, MicroFlagsTellFifo, PTL
       DEF MicroSpec, FifoIsQueue, Fifo!Spec

-----------------------------------------------------------------------------
(* Types of the display engine: its modes are rows of the table. *)
LEMMA FirstIsMode == 1 \in DOMAIN Modes
    BY DEF Modes

LEMMA EngineInitType == EngineInit => EngineTypeOK
    BY FirstIsMode, AddrsAssumption DEF EngineInit, EngineTypeOK

LEMMA SwitchType ==
    ASSUME EngineTypeOK, NEW s \in Switches, NEW enable \in BOOLEAN,
           Switch(s, enable)
    PROVE  on' \subseteq Switches /\ control' \subseteq Switches
             /\ split' \subseteq Switches
    BY DEF EngineTypeOK, Switch

LEMMA EngineNextType == EngineTypeOK /\ [EngineNext]_engineVars => EngineTypeOK'
<1> SUFFICES ASSUME EngineTypeOK, [EngineNext]_engineVars PROVE EngineTypeOK'
    OBVIOUS
<1> USE DEF EngineTypeOK
<1>1. CASE EngineReset
    BY <1>1, FirstIsMode, AddrsAssumption DEF EngineReset
<1>2. ASSUME NEW bits \in SUBSET Switches, WriteControl(bits) PROVE EngineTypeOK'
    BY <1>2 DEF WriteControl
<1>3. CASE WriteCursorControl
    BY <1>3 DEF WriteCursorControl, Switches
<1>4. CASE WriteTiming
    BY <1>4 DEF WriteTiming
<1>5. ASSUME NEW a \in Addrs, WriteFbAddr(a) \/ SetFramebuffer(a)
      PROVE  EngineTypeOK'
    BY <1>5 DEF WriteFbAddr, SetFramebuffer
<1>6. CASE Enable
  <2>1. on' \subseteq Switches /\ control' \subseteq Switches
          /\ split' \subseteq Switches
    BY <1>6, SwitchType DEF Enable, Switches
  <2> QED
    BY <1>6, <2>1 DEF Enable
<1>7. CASE SetTiming
  <2>1. on' \subseteq Switches /\ control' \subseteq Switches
          /\ split' \subseteq Switches
    BY <1>7, SwitchType DEF SetTiming, Switches
  <2> QED
    BY <1>7, <2>1 DEF SetTiming
<1>8. CASE SetVideoMode
  <2>1. on' \subseteq Switches /\ control' \subseteq Switches
          /\ split' \subseteq Switches
    BY <1>8, SwitchType DEF SetVideoMode, Switches
  <2> QED
    BY <1>8, <2>1 DEF SetVideoMode
<1>9. CASE UNCHANGED engineVars
    BY <1>9 DEF engineVars
<1> QED
    BY <1>1, <1>2, <1>3, <1>4, <1>5, <1>6, <1>7, <1>8, <1>9 DEF EngineNext

(* The switches a register write has not set apart agree with their bits,  *)
(* and scan-out starts where the software reads that it does.              *)
THEOREM EngineSwitchesAgree == EngineSpec => []SwitchesAgree
<1>1. EngineInit => SwitchesAgree
    BY DEF EngineInit, SwitchesAgree
<1>2. SwitchesAgree /\ [EngineNext]_engineVars => SwitchesAgree'
  <2> SUFFICES ASSUME SwitchesAgree, [EngineNext]_engineVars
               PROVE  SwitchesAgree'
      OBVIOUS
  <2> USE DEF SwitchesAgree
  <2>1. CASE EngineReset
      BY <2>1 DEF EngineReset
  <2>2. ASSUME NEW bits \in SUBSET Switches, WriteControl(bits)
        PROVE  SwitchesAgree'
      BY <2>2 DEF WriteControl
  <2>3. CASE WriteCursorControl
      BY <2>3 DEF WriteCursorControl
  <2>4. CASE UNCHANGED <<control, on, split, fbAddr, line>>
      BY <2>4
  <2>5. ASSUME NEW a \in Addrs, WriteFbAddr(a) \/ SetFramebuffer(a)
        PROVE  SwitchesAgree'
      BY <2>5 DEF WriteFbAddr, SetFramebuffer
  <2>6. ASSUME NEW s \in Switches, NEW enable \in BOOLEAN, Switch(s, enable),
               UNCHANGED <<fbAddr, line>>
        PROVE  SwitchesAgree'
      BY <2>6 DEF Switch
  <2>7. CASE Enable \/ SetTiming \/ SetVideoMode
      BY <2>6, <2>7 DEF Enable, SetTiming, SetVideoMode, Switches
  <2>8. WriteTiming \/ UNCHANGED engineVars
          => UNCHANGED <<control, on, split, fbAddr, line>>
      BY DEF WriteTiming, engineVars
  <2> QED
      BY <2>1, <2>2, <2>3, <2>4, <2>5, <2>7, <2>8 DEF EngineNext
<1> QED
    BY <1>1, <1>2, PTL DEF EngineSpec

-----------------------------------------------------------------------------
(* Products grow with their factors. *)
LEMMA ProductType ==
    ASSUME NEW a \in Nat, NEW b \in Nat
    PROVE  a * b \in Nat
    OBVIOUS

LEMMA ProductGrows ==
    ASSUME NEW a \in Nat, NEW b \in Nat, NEW c \in Nat, a <= b
    PROVE  a * c <= b * c
<1>1. (b - a) * c >= 0
    OBVIOUS
<1> QED
    BY <1>1

(* Quotient and remainder. *)
LEMMA Division ==
    ASSUME NEW n \in Nat, n > 0, NEW x \in Nat
    PROVE  /\ x \div n \in Nat /\ x % n \in 0..(n - 1)
           /\ x = (x \div n) * n + (x % n)
    OBVIOUS

LEMMA WordSizeType ==
    /\ WordSize \in Nat /\ WordSize >= 1 /\ Words \subseteq Nat
    /\ \A a \in Nat : a \in Words <=> a < WordSize
    BY FramebufferAssumption DEF Words

(* A word is what is left of a number after some whole turns, and it is    *)
(* the only word that is: no two words are turns apart.                    *)
LEMMA WordTurns ==
    ASSUME NEW n \in Int
    PROVE  Word(n) \in Words /\ \E k \in Int : Word(n) = n + k * WordSize
<1>1. /\ n % WordSize \in 0..(WordSize - 1) /\ n \div WordSize \in Int
      /\ n % WordSize = n + (-(n \div WordSize)) * WordSize
    BY FramebufferAssumption
<1>2. -(n \div WordSize) \in Int
    BY <1>1
<1> QED
    BY <1>1, <1>2 DEF Word, Words

LEMMA WordUnique ==
    ASSUME NEW a \in Words, NEW k \in Int
    PROVE  Word(a + k * WordSize) = a
<1> DEFINE r == Word(a + k * WordSize)
<1>1. a \in Nat /\ a < WordSize
    BY WordSizeType
<1>2. a + k * WordSize \in Int
    BY <1>1, WordSizeType
<1>3. r \in Words /\ \E j \in Int : r = a + k * WordSize + j * WordSize
    BY <1>2, WordTurns
<1> HIDE DEF r
<1>4. PICK j \in Int : r = a + k * WordSize + j * WordSize
    BY <1>3
<1>5. r \in Nat /\ r < WordSize
    BY <1>3, WordSizeType
<1> DEFINE m == k + j
<1>6. m \in Int /\ r = a + m * WordSize
    BY <1>1, <1>4, WordSizeType
<1> HIDE DEF m
<1>7. CASE m >= 1
  <2>1. 1 * WordSize <= m * WordSize
    BY <1>6, <1>7, ProductGrows, WordSizeType
  <2> QED
    BY <1>1, <1>5, <1>6, <2>1, WordSizeType
<1>8. CASE m <= -1
  <2>1. -m \in Nat /\ 1 <= -m
    BY <1>6, <1>8
  <2>2. 1 * WordSize <= (-m) * WordSize
    BY <2>1, ProductGrows, WordSizeType
  <2>3. (-m) * WordSize = -(m * WordSize) /\ m * WordSize \in Int
    BY <1>6, WordSizeType
  <2> QED
    BY <1>1, <1>5, <1>6, <2>2, <2>3, WordSizeType
<1>9. CASE m = 0
    BY <1>1, <1>6, <1>9, WordSizeType DEF r
<1> QED
    BY <1>6, <1>7, <1>8, <1>9

LEMMA WordIs ==
    ASSUME NEW a \in Nat, a < WordSize
    PROVE  Word(a) = a
<1>1. a \in Words /\ a = a + 0 * WordSize
    BY WordSizeType
<1> QED
    BY <1>1, WordUnique

LEMMA GeometryType ==
    ASSUME NEW g \in Geometries
    PROVE  /\ g.width \in Nat /\ g.width < WordSize
           /\ g.height \in Nat /\ g.height < WordSize
           /\ g.depth \in Nat /\ g.depth >= 1 /\ g.stride \in Nat
           /\ g.tileWidth \in Nat /\ g.tileHeight \in Nat
           /\ g.tileDepth \in Nat /\ g.across \in Nat /\ g.down \in Nat
<1>1. /\ g.width \in Words /\ g.height \in Words /\ g.stride \in Words
      /\ g.depth \in Words \ {0} /\ g.tileWidth \in Words
      /\ g.tileHeight \in Words /\ g.tileDepth \in Words
      /\ g.across \in Words /\ g.down \in Words
    BY DEF Geometries
<1>2. \A a \in Words : a \in Nat /\ a < WordSize /\ (a # 0 => a >= 1)
    BY WordSizeType
<1> QED
    BY <1>1, <1>2

(* Types of the frame buffer: the geometry is made of words, whatever      *)
(* order its registers and its setters are used in.                        *)
LEMMA RestridedType ==
    ASSUME NEW g \in Geometries
    PROVE  Restrided(g) \in Geometries
<1>1. g.width * g.depth \in Int
    BY ProductType, GeometryType
<1>2. Word(g.width * g.depth) \in Words
    BY <1>1, WordTurns
<1> QED
    BY <1>2 DEF Restrided, Geometries

LEMMA QuotientType ==
    ASSUME NEW a \in Words, NEW b \in Nat \ {0}
    PROVE  a \div b \in Words
<1> DEFINE q == a \div b
<1>1. a \in Nat /\ b \in Nat /\ b > 0
    BY WordSizeType
<1>2. q \in Nat /\ a % b \in Nat /\ a = q * b + (a % b)
    BY <1>1, Division
<1> HIDE DEF q
<1>3. 1 * q <= b * q
    BY <1>1, <1>2, ProductGrows
<1>4. q <= a
    BY <1>1, <1>2, <1>3
<1> QED
    BY <1>2, <1>4, WordSizeType DEF q

LEMMA RetiledType ==
    ASSUME NEW g \in Geometries
    PROVE  Retiled(g) \in Geometries
<1>1. /\ g.side \in Nat \ {0} /\ g.side \in Words
      /\ g.width \in Nat /\ g.height \in Nat
    BY FramebufferAssumption, WordSizeType DEF Geometries, Sides
<1>2. /\ Word(g.width + g.side - 1) \in Words
      /\ Word(g.height + g.side - 1) \in Words
    BY <1>1, WordTurns
<1>3. /\ Word(g.width + g.side - 1) \div g.side \in Words
      /\ Word(g.height + g.side - 1) \div g.side \in Words
    BY <1>1, <1>2, QuotientType
<1> QED
    BY <1>1, <1>3 DEF Retiled, Geometries

LEMMA SmallRemainder ==
    ASSUME NEW n \in Nat, NEW m \in Nat, m > 0
    PROVE  n % m \in Nat /\ (n < m => n % m = n)
    OBVIOUS

LEMMA RequiredType ==
    ASSUME NEW g \in Geometries
    PROVE  /\ TilePixels(g) \in Nat /\ TilePixels(g) * g.tileDepth \in Nat
           /\ g.across * g.down \in Nat
           /\ LinearSize(g) \in Nat /\ TilesSize(g) \in Nat
           /\ Required(g) \in Nat
           /\ LinearSize(g) <= Required(g)
           /\ TilesSize(g) < WordSize => TilesSize(g) <= Required(g)
<1>1. TilePixels(g) \in Nat
    BY ProductType, GeometryType DEF TilePixels
<1>2. TilePixels(g) * g.tileDepth \in Nat
    BY <1>1, ProductType, GeometryType
<1>3. LinearSize(g) \in Nat /\ g.across * g.down \in Nat
    BY ProductType, GeometryType DEF LinearSize
<1>4. TilesSize(g) \in Nat
    BY <1>2, <1>3, ProductType DEF TilesSize
<1> DEFINE m == WordSize * WordSize
<1>5. m \in Nat /\ WordSize <= m
  <2>1. 1 * WordSize <= WordSize * WordSize
    BY ProductGrows, WordSizeType
  <2> QED
    BY <2>1, ProductType, WordSizeType
<1>6. Required(g) = Larger(LinearSize(g), TilesSize(g) % m)
    BY DEF Required
<1> HIDE DEF m
<1>7. /\ TilesSize(g) % m \in Nat
      /\ TilesSize(g) < WordSize => TilesSize(g) % m = TilesSize(g)
    BY <1>4, <1>5, SmallRemainder, WordSizeType
<1> QED
    BY <1>1, <1>2, <1>3, <1>4, <1>6, <1>7 DEF Larger

LEMMA FirstGeometryType == FirstGeometry \in Geometries
<1> DEFINE g == [width |-> FirstLength, height |-> FirstLength,
                 depth |-> FirstDepth, stride |-> 0,
                 side |-> SmallTile, tileWidth |-> 0, tileHeight |-> 0,
                 tileDepth |-> FirstDepth, across |-> 0, down |-> 0]
<1>1. g \in Geometries
    BY FramebufferAssumption DEF Geometries, Sides, Words
<1>2. FirstGeometry = Retiled(Restrided(g))
    BY DEF FirstGeometry
<1> HIDE DEF g
<1> QED
    BY <1>1, <1>2, RestridedType, RetiledType

(* Each setter leaves a geometry, whose store is large enough; a register  *)
(* write leaves a geometry and says that it did not look.                  *)
StoreEnough == ~raw => Required(geometry) <= memory

LEMMA SizedKeeps ==
    ASSUME FramebufferTypeOK, NEW g \in Geometries, Sized(g)
    PROVE  FramebufferTypeOK' /\ StoreEnough'
<1>1. Larger(memory, Required(g)) \in Nat
        /\ Required(g) <= Larger(memory, Required(g))
    BY RequiredType DEF Larger, FramebufferTypeOK
<1> QED
    BY <1>1 DEF Sized, FramebufferTypeOK, StoreEnough, bufferVars

LEMMA UnsizedKeeps ==
    ASSUME FramebufferTypeOK, NEW g \in Geometries, Unsized(g)
    PROVE  FramebufferTypeOK' /\ StoreEnough'
    BY DEF Unsized, FramebufferTypeOK, StoreEnough, bufferVars

LEMMA ResetStore ==
    /\ Larger(FirstMemory, Required(FirstGeometry)) \in Nat
    /\ Required(FirstGeometry) <= Larger(FirstMemory, Required(FirstGeometry))
    BY FirstGeometryType, RequiredType, FramebufferAssumption DEF Larger

LEMMA FramebufferInitKeeps ==
    FramebufferInit => FramebufferTypeOK /\ StoreEnough
    BY FirstGeometryType, ResetStore, FramebufferAssumption
       DEF FramebufferInit, FramebufferTypeOK, StoreEnough

LEMMA WriteRegisterKeeps ==
    ASSUME FramebufferTypeOK, WriteLineRegister \/ WriteTileRegister
    PROVE  FramebufferTypeOK' /\ StoreEnough'
<1>1. PICK g \in Geometries : Unsized(g)
  <2>1. geometry \in Geometries
    BY DEF FramebufferTypeOK
  <2>2. /\ RawLengths \subseteq Words /\ TileDepths \subseteq Words
        /\ Depths \subseteq Words \ {0}
    BY FramebufferAssumption
  <2>3. ASSUME NEW n \in Words
        PROVE  /\ [geometry EXCEPT !.width = n] \in Geometries
               /\ [geometry EXCEPT !.height = n] \in Geometries
               /\ [geometry EXCEPT !.stride = n] \in Geometries
               /\ [geometry EXCEPT !.tileWidth = n] \in Geometries
               /\ [geometry EXCEPT !.tileHeight = n] \in Geometries
               /\ n # 0 => [geometry EXCEPT !.depth = n] \in Geometries
               /\ [geometry EXCEPT !.tileDepth = n] \in Geometries
    BY <2>1 DEF Geometries
  <2>4. CASE WriteLineRegister
    BY <2>2, <2>3, <2>4 DEF WriteLineRegister
  <2>5. CASE WriteTileRegister
    BY <2>2, <2>3, <2>5 DEF WriteTileRegister
  <2> QED
    BY <2>4, <2>5
<1> QED
    BY <1>1, UnsizedKeeps

LEMMA SetGeometryKeeps ==
    ASSUME FramebufferTypeOK, SetGeometry
    PROVE  FramebufferTypeOK' /\ StoreEnough'
<1>1. geometry \in Geometries
    BY DEF FramebufferTypeOK
<1>2. ASSUME NEW d \in Depths, SetFormat(d)
      PROVE  FramebufferTypeOK' /\ StoreEnough'
  <2>1. [geometry EXCEPT !.depth = d] \in Geometries
    BY <1>1, FramebufferAssumption DEF Geometries
  <2> QED
    BY <1>2, <2>1, RestridedType, SizedKeeps DEF SetFormat
<1>3. ASSUME NEW w \in Lengths, NEW h \in Lengths, SetDimensions(w, h)
      PROVE  FramebufferTypeOK' /\ StoreEnough'
  <2>1. [geometry EXCEPT !.width = w, !.height = h] \in Geometries
    BY <1>1, FramebufferAssumption DEF Geometries
  <2> QED
    BY <1>3, <2>1, RestridedType, RetiledType, SizedKeeps DEF SetDimensions
<1>4. ASSUME NEW n \in Lengths, SetStride(n)
      PROVE  FramebufferTypeOK' /\ StoreEnough'
  <2>1. [geometry EXCEPT !.stride = n] \in Geometries
    BY <1>1, FramebufferAssumption DEF Geometries
  <2> QED
    BY <1>4, <2>1, SizedKeeps DEF SetStride
<1>5. ASSUME NEW side \in Sides, NEW d \in TileDepths, SetTileConfig(side, d)
      PROVE  FramebufferTypeOK' /\ StoreEnough'
  <2>1. [geometry EXCEPT !.side = side, !.tileDepth = d] \in Geometries
    BY <1>1, FramebufferAssumption DEF Geometries
  <2> QED
    BY <1>5, <2>1, RetiledType, SizedKeeps DEF SetTileConfig
<1>6. ASSUME NEW side \in Sides, WriteTileConfig(side)
      PROVE  FramebufferTypeOK' /\ StoreEnough'
  <2>1. [geometry EXCEPT !.side = side] \in Geometries
    BY <1>1 DEF Geometries
  <2> QED
    BY <1>6, <2>1, RetiledType, SizedKeeps DEF WriteTileConfig
<1> QED
    BY <1>2, <1>3, <1>4, <1>5, <1>6 DEF SetGeometry

LEMMA StoreNextKeeps ==
    ASSUME FramebufferTypeOK, StoreNext
    PROVE  FramebufferTypeOK' /\ StoreEnough'
    BY SetGeometryKeeps, WriteRegisterKeeps DEF StoreNext

LEMMA BufferNextKeeps ==
    ASSUME FramebufferTypeOK, StoreEnough, BufferNext
    PROVE  FramebufferTypeOK' /\ StoreEnough'
<1>1. UNCHANGED storeVars
    BY DEF BufferNext, FramebufferControl, ControlAndSwap, Swap, SetBase,
           SetFront, SetBack
<1>2. /\ double' \in BOOLEAN /\ base' \in Bases /\ front' \in Bases
      /\ back' \in Bases /\ current' \in Bases
    BY DEF BufferNext, FramebufferControl, ControlAndSwap, Swap, SetBase,
           SetFront, SetBack, FramebufferTypeOK
<1> QED
    BY <1>1, <1>2 DEF storeVars, FramebufferTypeOK, StoreEnough

LEMMA FramebufferNextKeeps ==
    FramebufferTypeOK /\ StoreEnough /\ [FramebufferNext]_framebufferVars
        => FramebufferTypeOK' /\ StoreEnough'
<1> SUFFICES ASSUME FramebufferTypeOK, StoreEnough,
                    [FramebufferNext]_framebufferVars
             PROVE  FramebufferTypeOK' /\ StoreEnough'
    OBVIOUS
<1>1. CASE FramebufferReset
    BY <1>1, FirstGeometryType, ResetStore, FramebufferAssumption
       DEF FramebufferReset, FramebufferTypeOK, StoreEnough
<1>2. CASE UNCHANGED framebufferVars
    BY <1>2 DEF framebufferVars, bufferVars, storeVars, FramebufferTypeOK,
                StoreEnough
<1> QED
    BY <1>1, <1>2, StoreNextKeeps, BufferNextKeeps DEF FramebufferNext

(* The frame buffer's addresses and geometry keep their types. *)
THEOREM FramebufferTypeCorrect == FramebufferSpec => []FramebufferTypeOK
    BY FramebufferInitKeeps, FramebufferNextKeeps, PTL DEF FramebufferSpec

(* The store is as large as the geometry that was checked last asks for.   *)
THEOREM FramebufferStoreEnough == FramebufferSpec => []StoreEnough
    BY FramebufferInitKeeps, FramebufferNextKeeps, PTL DEF FramebufferSpec

(* A run that ends within a word is checked where it is. *)
LEMMA ShortRun ==
    ASSUME memory \in Nat, NEW run, run.end \in Nat, run.end < WordSize
    PROVE  ~Strays(run) /\ (run.end <= memory => Lands(run))
<1>1. Word(run.end) = run.end
    BY WordIs
<1> QED
    BY <1>1 DEF Strays, Lands, Passes, Inside

(* Tiles are numbered by row and column below the product of their numbers.*)
LEMMA TileNumber ==
    ASSUME NEW g \in Geometries,
           NEW x \in 0..(g.across - 1), NEW y \in 0..(g.down - 1)
    PROVE  /\ y * g.across + x \in Nat
           /\ y * g.across + x + 1 <= g.across * g.down
<1> DEFINE a == g.across
           d == g.down
<1>1. a \in Nat /\ d \in Nat /\ x \in Nat /\ y \in Nat
        /\ x + 1 <= a /\ y + 1 <= d
    BY GeometryType
<1> HIDE DEF a, d
<1>2. y * a \in Nat /\ (y + 1) * a \in Nat /\ (y + 1) * a <= d * a
    BY <1>1, ProductType, ProductGrows
<1>3. (y + 1) * a = y * a + a /\ d * a = a * d
    BY <1>1
<1>4. y * a + x \in Nat /\ y * a + x + 1 <= a * d
    BY <1>1, <1>2, <1>3
<1> QED
    BY <1>4 DEF a, d

(* When the store of all tiles fits a word, a tile starts after the tiles  *)
(* before it, and its pixels are counted without wrapping.                 *)
LEMMA TileStarts ==
    ASSUME NEW g \in Geometries, TilesSize(g) < WordSize,
           NEW x \in 0..(g.across - 1), NEW y \in 0..(g.down - 1)
    PROVE  /\ TileFirst(g, x, y) \in Nat
           /\ TileFirst(g, x, y) + TilePixels(g) * g.tileDepth <= TilesSize(g)
           /\ Word(TilePixels(g)) * g.tileDepth = TilePixels(g) * g.tileDepth
<1> DEFINE k == y * g.across + x
           p == TilePixels(g)
           b == g.tileDepth
           t == p * b
           c == g.across * g.down
<1>1. p \in Nat /\ b \in Nat /\ t \in Nat /\ c \in Nat /\ TilesSize(g) \in Nat
    BY RequiredType, GeometryType
<1>2. k \in Nat /\ k + 1 <= c
    BY TileNumber
<1>3. TilesSize(g) = c * t
    BY DEF TilesSize
<1>4. TileFirst(g, x, y) = Word(Word(k) * t)
    BY DEF TileFirst, TileIndex
<1>5. t = p * b
    OBVIOUS
<1> HIDE DEF k, p, b, t, c
<1>6. (k + 1) * t <= c * t /\ (k + 1) * t = k * t + t /\ k * t \in Nat
    BY <1>1, <1>2, ProductGrows, ProductType
<1>7. k * t + t < WordSize
    BY <1>1, <1>3, <1>6, ProductType, WordSizeType
<1>8. Word(k) * t = k * t
  <2>1. CASE t = 0
    <3>1. Word(k) \in Nat
      BY <1>2, WordTurns, WordSizeType
    <3> QED
      BY <1>2, <2>1, <3>1
  <2>2. CASE t >= 1
    <3>1. 1 * k <= t * k
      BY <1>1, <1>2, <2>2, ProductGrows
    <3>2. k * t = t * k
      BY <1>1, <1>2
    <3>3. k < WordSize
      BY <1>1, <1>2, <1>6, <1>7, <3>1, <3>2, WordSizeType
    <3>4. Word(k) = k
      BY <1>2, <3>3, WordIs
    <3> QED
      BY <3>4
  <2> QED
    BY <1>1, <2>1, <2>2
<1>9. Word(k * t) = k * t
    BY <1>1, <1>6, <1>7, WordIs, WordSizeType
<1>10. Word(p) * b = p * b
  <2>1. CASE b = 0
    <3>1. Word(p) \in Nat
      BY <1>1, WordTurns, WordSizeType
    <3> QED
      BY <1>1, <2>1, <3>1
  <2>2. CASE b >= 1
    <3>1. 1 * p <= b * p
      BY <1>1, <2>2, ProductGrows
    <3>2. b * p = t
      BY <1>1, <1>5
    <3>3. p < WordSize
      BY <1>1, <1>6, <1>7, <3>1, <3>2, WordSizeType
    <3>4. Word(p) = p
      BY <1>1, <3>3, WordIs
    <3> QED
      BY <3>4
  <2> QED
    BY <1>1, <2>1, <2>2
<1>11. TileFirst(g, x, y) = k * t
    BY <1>4, <1>8, <1>9
<1> QED
    BY <1>3, <1>5, <1>6, <1>10, <1>11 DEF p, b

LEMMA TilesLandIn ==
    FramebufferTypeOK /\ StoreEnough => TilesLand(geometry)
<1> DEFINE g == geometry
<1> SUFFICES ASSUME FramebufferTypeOK, StoreEnough, TilesSize(g) < WordSize,
                    NEW x \in 0..(g.across - 1), NEW y \in 0..(g.down - 1),
                    NEW run \in {ClearTileRun(g, x, y)} \union
                        {WriteTileRun(g, x, y, size) :
                            size \in 0..(TilePixels(g) * g.tileDepth)}
             PROVE  ~Strays(run) /\ (raw \/ Lands(run))
    BY DEF TilesLand
<1>1. g \in Geometries /\ memory \in Nat /\ raw \in BOOLEAN
    BY DEF FramebufferTypeOK
<1>2. ~raw => Required(g) <= memory
    BY DEF StoreEnough
<1> HIDE DEF g
<1> DEFINE t == TilePixels(g) * g.tileDepth
           f == TileFirst(g, x, y)
           c == run.end - f
<1>3. /\ f \in Nat /\ f + t <= TilesSize(g)
      /\ Word(TilePixels(g)) * g.tileDepth = t
    BY <1>1, TileStarts
<1>4. /\ t \in Nat /\ TilesSize(g) \in Nat /\ Required(g) \in Nat
      /\ TilesSize(g) <= Required(g)
    BY <1>1, RequiredType
<1>5. \E size \in 0..t : run.end = f + size
  <2>1. CASE run = ClearTileRun(g, x, y)
    BY <1>3, <1>4, <2>1 DEF ClearTileRun, Run
  <2>2. ASSUME NEW size \in 0..t, run = WriteTileRun(g, x, y, size)
        PROVE  run.end = f + size
    BY <2>2 DEF WriteTileRun, Run
  <2> QED
    BY <2>1, <2>2
<1> HIDE DEF t, f
<1>6. run.end \in Nat /\ run.end <= TilesSize(g)
    BY <1>3, <1>4, <1>5
<1>7. run.end < WordSize
    BY <1>4, <1>6, WordSizeType
<1>8. ~raw => run.end <= memory
    BY <1>1, <1>2, <1>4, <1>6
<1>9. ~Strays(run) /\ (run.end <= memory => Lands(run))
    BY <1>1, <1>6, <1>7, ShortRun
<1> QED
    BY <1>8, <1>9

(* A picture has a tile whose number is that of the entries as soon as it  *)
(* has more tiles than there are entries.                                  *)
LEMMA EntriesFitIn ==
    ASSUME NEW g \in Geometries
    PROVE  EntriesFit(g)
<1> DEFINE a == g.across
           d == g.down
           e == DirectoryEntries
<1>1. a \in Nat /\ d \in Nat /\ e \in Nat /\ e < WordSize
    BY FramebufferAssumption, WordSizeType, GeometryType
<1>2. ASSUME a * d <= e, NEW x \in 0..(a - 1), NEW y \in 0..(d - 1)
      PROVE  TileIndex(g, x, y) < e
  <2> DEFINE k == y * a + x
  <2>1. k \in Nat /\ k + 1 <= a * d /\ a * d \in Nat
    BY TileNumber, RequiredType
  <2>2. TileIndex(g, x, y) = Word(k)
    BY DEF TileIndex
  <2> HIDE DEF a, d, e, k
  <2>3. k < WordSize /\ k < e
    BY <1>1, <1>2, <2>1, WordSizeType
  <2> QED
    BY <2>1, <2>2, <2>3, WordIs
<1>3. ASSUME ~(a * d <= e)
      PROVE  \E x \in 0..(a - 1), y \in 0..(d - 1) : TileIndex(g, x, y) = e
  <2> DEFINE x == e % a
             y == e \div a
  <2>1. a > 0
    <3>1. a = 0 => a * d = 0
      BY <1>1
    <3> QED
      BY <1>1, <1>3, <3>1
  <2>2. y \in Nat /\ x \in 0..(a - 1) /\ e = y * a + x
    BY <1>1, <2>1, Division
  <2>3. TileIndex(g, x, y) = Word(y * a + x)
    BY DEF TileIndex
  <2> HIDE DEF a, d, e, x, y
  <2>4. y < d
    <3>1. CASE d <= y
      <4>1. d * a <= y * a /\ d * a = a * d /\ y * a \in Nat /\ a * d \in Nat
        BY <1>1, <2>2, <3>1, ProductGrows, ProductType
      <4> QED
        BY <1>1, <1>3, <2>2, <4>1
    <3> QED
      BY <1>1, <2>2, <3>1
  <2>5. TileIndex(g, x, y) = e
    BY <1>1, <2>2, <2>3, WordIs
  <2> QED
    BY <1>1, <2>2, <2>4, <2>5
<1> QED
    BY <1>1, <1>2, <1>3 DEF EntriesFit

(* Within the picture, lines whose last pixel fits a word are written      *)
(* without wrapping, and when they fit their stride they are in the store. *)
LEMMA LineEnds ==
    ASSUME NEW g \in Geometries, FitsWord(g),
           NEW y \in 0..(g.height - 1), NEW x \in Nat, NEW m \in Nat,
           x + m <= g.width
    PROVE  /\ PixelFirst(g, x, y) \in Nat
           /\ PixelFirst(g, x, y) = y * g.stride + x * g.depth
           /\ m * g.depth \in Nat /\ m * g.depth < WordSize
           /\ PixelFirst(g, x, y) + m * g.depth = y * g.stride + (x + m) * g.depth
           /\ PixelFirst(g, x, y) + m * g.depth < WordSize
           /\ FitsStride(g) => PixelFirst(g, x, y) + m * g.depth <= Required(g)
<1> DEFINE w == g.width
           b == g.depth
           s == g.stride
           h == g.height
<1>1. w \in Nat /\ b \in Nat /\ s \in Nat /\ h \in Nat /\ y \in Nat /\ y + 1 <= h
    BY GeometryType
<1>2. s * h <= Required(g) /\ Required(g) \in Nat
    BY RequiredType DEF LinearSize
<1>3. (h - 1) * s + w * b < WordSize /\ x + m <= w
    BY DEF FitsWord
<1>4. FitsStride(g) <=> w * b <= s
    BY DEF FitsStride
<1>5. PixelFirst(g, x, y) = Word(y * s + x * b)
    BY DEF PixelFirst
<1> HIDE DEF w, b, s, h
<1>6. (x + m) * b <= w * b /\ y * s <= (h - 1) * s /\ (y + 1) * s <= h * s
    BY <1>1, <1>3, ProductGrows
<1>7. (x + m) * b = x * b + m * b /\ (y + 1) * s = y * s + s /\ h * s = s * h
    BY <1>1
<1>8. /\ x * b \in Nat /\ m * b \in Nat /\ y * s \in Nat /\ w * b \in Nat
      /\ s * h \in Nat /\ (h - 1) * s \in Nat
    BY <1>1, ProductType
<1>9. y * s + x * b + m * b < WordSize
    BY <1>3, <1>6, <1>7, <1>8, WordSizeType
<1>10. Word(y * s + x * b) = y * s + x * b /\ m * b < WordSize
    BY <1>8, <1>9, WordIs, WordSizeType
<1>11. w * b <= s => y * s + x * b + m * b <= Required(g)
    BY <1>1, <1>2, <1>6, <1>7, <1>8
<1> QED
    BY <1>4, <1>5, <1>7, <1>8, <1>9, <1>10, <1>11 DEF b, s

LEMMA LinesLandIn ==
    FramebufferTypeOK /\ StoreEnough => LinesLand(geometry)
<1> DEFINE g == geometry
<1> SUFFICES ASSUME FramebufferTypeOK, StoreEnough, FitsWord(g),
                    NEW y \in 0..(g.height - 1), NEW x \in 0..g.width,
                    NEW n \in 0..(WordSize - 1 - x),
                    NEW run \in DrawnInside(g, x, y, n)
             PROVE  ~Strays(run) /\ (FitsStride(g) => raw \/ Lands(run))
    BY DEF LinesLand
<1>1. g \in Geometries /\ memory \in Nat /\ raw \in BOOLEAN
    BY DEF FramebufferTypeOK
<1>2. ~raw => Required(g) <= memory
    BY DEF StoreEnough
<1> HIDE DEF g
<1>3. g.width \in Nat /\ g.depth \in Nat /\ Required(g) \in Nat
        /\ x \in Nat /\ n \in Nat /\ x <= g.width /\ x + n < WordSize
    BY <1>1, RequiredType, GeometryType, WordSizeType
<1>4. \E m \in Nat :
          x + m <= g.width /\ run.end = PixelFirst(g, x, y) + m * g.depth
  <2>1. CASE run = RectRun(g, x, y, n)
    <3> DEFINE m == RectEnd(g, x, n) - x
    <3>1. Word(x + n) = x + n
      BY <1>3, WordIs
    <3>2. m \in Nat /\ x + m <= g.width
      BY <1>3, <3>1 DEF RectEnd, Smaller
    <3>3. m < WordSize
      BY <1>1, <1>3, <3>2, GeometryType, WordSizeType
    <3>4. run.end = PixelFirst(g, x, y) + Word(m) * g.depth
      BY <2>1 DEF RectRun, Run
    <3> QED
      BY <3>2, <3>3, <3>4, WordIs
  <2>2. CASE x < g.width /\ run = PixelRun(g, x, y)
    <3>1. run.end = PixelFirst(g, x, y) + g.depth /\ g.depth = 1 * g.depth
      BY <1>3, <2>2 DEF PixelRun, Run
    <3>2. x + 1 <= g.width
      BY <1>3, <2>2
    <3> QED
      BY <3>1, <3>2
  <2>3. CASE x + n <= g.width /\ run = SpanRun(g, x, y, n)
    BY <1>3, <2>3 DEF SpanRun, Run
  <2>4. CASE x + n <= g.width /\ run = BlitRun(g, x, y, n)
    <3>1. n * g.depth \in Nat /\ n * g.depth < WordSize
      BY <1>1, <1>3, <2>4, LineEnds
    <3>2. Word(n * g.depth) = n * g.depth
      BY <3>1, WordIs
    <3> QED
      BY <1>3, <2>4, <3>2 DEF BlitRun, Run
  <2> QED
    BY <2>1, <2>2, <2>3, <2>4 DEF DrawnInside
<1>5. PICK m \in Nat :
          x + m <= g.width /\ run.end = PixelFirst(g, x, y) + m * g.depth
    BY <1>4
<1>6. /\ run.end \in Nat /\ run.end < WordSize
      /\ FitsStride(g) => run.end <= Required(g)
    BY <1>1, <1>3, <1>5, LineEnds
<1>7. FitsStride(g) /\ ~raw => run.end <= memory
    BY <1>1, <1>2, <1>3, <1>6
<1>8. ~Strays(run) /\ (run.end <= memory => Lands(run))
    BY <1>1, <1>6, ShortRun
<1> QED
    BY <1>7, <1>8

(* A run of more pixels than the store has bytes strays when a whole turn  *)
(* of u32 makes its end that of a column within the picture.               *)
LEMMA WrappedStrays ==
    ASSUME FramebufferTypeOK, StoreEnough, ~raw,
           FitsWord(geometry), FitsStride(geometry),
           NEW y \in 0..(geometry.height - 1), NEW x \in Nat, NEW m \in Nat,
           m > memory, x + m >= WordSize, x + m - WordSize <= geometry.width
    PROVE  Strays(Run(PixelFirst(geometry, x, y), m * geometry.depth))
<1> DEFINE g == geometry
           b == g.depth
           f == PixelFirst(g, x, y)
           e == x + m - WordSize
           l == y * g.stride
           t == l + e * b
<1>1. g \in Geometries /\ memory \in Nat /\ Required(g) <= memory
        /\ Required(g) \in Nat
    BY RequiredType DEF FramebufferTypeOK, StoreEnough
<1>2. b \in Nat /\ b >= 1 /\ l \in Nat
    BY <1>1, ProductType, GeometryType
<1>3. e \in Nat
    BY WordSizeType
<1>4. t < WordSize /\ t <= Required(g) /\ t \in Nat
  <2>1. 0 + e <= g.width /\ 0 \in Nat
    BY <1>3
  <2>2. /\ PixelFirst(g, 0, y) = l + 0 * b
        /\ PixelFirst(g, 0, y) + e * b < WordSize
        /\ PixelFirst(g, 0, y) + e * b <= Required(g)
        /\ e * b \in Nat
    BY <1>1, <1>3, <2>1, LineEnds
  <2>3. PixelFirst(g, 0, y) = l
    BY <1>2, <2>2
  <2> QED
    BY <1>2, <2>2, <2>3
<1>5. f = Word(l + x * b)
    BY DEF PixelFirst
<1>6. Run(f, m * b).end = f + m * b
    BY DEF Run
<1>7. e = x + m - WordSize /\ t = l + e * b
    OBVIOUS
<1> HIDE DEF g, b, f, e, l, t
<1>8. x * b \in Nat /\ m * b \in Nat /\ l + x * b \in Int
    BY <1>2, ProductType
<1>9. f \in Words /\ \E k \in Int : f = l + x * b + k * WordSize
    BY <1>5, <1>8, WordTurns
<1>10. PICK k \in Int : f = l + x * b + k * WordSize
    BY <1>9
<1>11. f + m * b = t + (k + b) * WordSize
  <2>1. x + m = e + WordSize
    BY <1>3, <1>7, WordSizeType
  <2>2. (x + m) * b = x * b + m * b
    BY <1>2
  <2>3. (e + WordSize) * b = e * b + WordSize * b
    BY <1>2, <1>3, WordSizeType
  <2>4. (k + b) * WordSize = k * WordSize + WordSize * b
    BY <1>2, WordSizeType
  <2>5. e * b \in Nat /\ WordSize * b \in Nat /\ k * WordSize \in Int
    BY <1>2, <1>3, ProductType, WordSizeType
  <2> QED
    BY <1>2, <1>7, <1>8, <1>10, <2>1, <2>2, <2>3, <2>4, <2>5
<1>12. Word(f + m * b) = t
  <2>1. t \in Words /\ k + b \in Int
    BY <1>2, <1>4, WordSizeType
  <2> QED
    BY <1>11, <2>1, WordUnique
<1>13. f + m * b > memory
  <2>1. 1 * m <= b * m /\ b * m = m * b
    BY <1>2, ProductGrows
  <2>2. f \in Nat
    BY <1>9, WordSizeType
  <2> QED
    BY <1>1, <1>8, <2>1, <2>2
<1>14. t <= memory /\ f + m * b \in Nat
    BY <1>1, <1>4, <1>8, <1>9, WordSizeType
<1>15. Strays(Run(f, m * b))
    BY <1>1, <1>6, <1>12, <1>13, <1>14 DEF Strays, Passes, Inside
<1> QED
    BY <1>15 DEF f, b, g

LEMMA CutsExactIn ==
    FramebufferTypeOK /\ StoreEnough => CutsExact(geometry)
<1> DEFINE g == geometry
<1> SUFFICES ASSUME FramebufferTypeOK, StoreEnough, ~raw,
                    FitsWord(g), FitsStride(g),
                    NEW y \in 0..(g.height - 1),
                    NEW x \in 0..(WordSize - 1 - memory), NEW n \in Words
             PROVE  /\ SpanDrawn(g, x, y, n) =>
                         (Strays(SpanRun(g, x, y, n)) <=> x + n >= WordSize)
                    /\ Strays(RectRun(g, x, y, n)) <=>
                         x > g.width \/ x + n >= WordSize
    BY DEF CutsExact
<1>1. /\ g \in Geometries /\ memory \in Nat /\ g.width \in Nat
      /\ g.width < WordSize /\ x \in Nat /\ n \in Nat /\ n < WordSize
      /\ x + memory < WordSize
  <2>1. g \in Geometries /\ memory \in Nat
    BY DEF FramebufferTypeOK
  <2> HIDE DEF g
  <2> QED
    BY <2>1, GeometryType, WordSizeType
<1>2. x + n < WordSize => Word(x + n) = x + n
    BY <1>1, WordIs
<1>3. x + n >= WordSize => Word(x + n) = x + n - WordSize
  <2> SUFFICES ASSUME x + n >= WordSize PROVE Word(x + n) = x + n - WordSize
    OBVIOUS
  <2>1. x + n - WordSize \in Words
    BY <1>1, WordSizeType
  <2>2. x + n = (x + n - WordSize) + 1 * WordSize
    BY <1>1, WordSizeType
  <2> HIDE DEF g
  <2> QED
    BY <2>1, <2>2, WordUnique
<1>4. LinesLand(g)
    BY LinesLandIn
<1>5. ASSUME x <= g.width, x + n < WordSize
      PROVE  \A run \in DrawnInside(g, x, y, n) : ~Strays(run)
  <2>1. x \in 0..g.width /\ n \in 0..(WordSize - 1 - x)
    BY <1>1, <1>5, WordSizeType
  <2> QED
    BY <1>4, <2>1 DEF LinesLand
<1>6. ASSUME SpanDrawn(g, x, y, n)
      PROVE  Strays(SpanRun(g, x, y, n)) <=> x + n >= WordSize
  <2>1. CASE x + n < WordSize
    <3>1. x + n <= g.width /\ x <= g.width
      BY <1>1, <1>2, <1>6, <2>1 DEF SpanDrawn
    <3>2. ~Strays(SpanRun(g, x, y, n))
      BY <1>5, <2>1, <3>1 DEF DrawnInside
    <3> QED
      BY <1>1, <2>1, <3>2, WordSizeType
  <2>2. CASE x + n >= WordSize
    <3>1. x + n - WordSize <= g.width /\ n > memory
      BY <1>1, <1>3, <1>6, <2>2, WordSizeType DEF SpanDrawn
    <3> QED
      BY <1>1, <2>2, <3>1, WrappedStrays DEF SpanRun
  <2> QED
    BY <1>1, <2>1, <2>2, WordSizeType
<1>7. Strays(RectRun(g, x, y, n)) <=> x > g.width \/ x + n >= WordSize
  <2>1. CASE x <= g.width /\ x + n < WordSize
    <3>1. ~Strays(RectRun(g, x, y, n))
      BY <1>5, <2>1 DEF DrawnInside
    <3> QED
      BY <1>1, <2>1, <3>1, WordSizeType
  <2>2. CASE x > g.width \/ x + n >= WordSize
    <3> DEFINE e == RectEnd(g, x, n)
               m == e - x + WordSize
    <3>1. e \in Nat /\ e <= g.width /\ e < x
      <4>1. Word(x + n) \in Nat
        BY <1>1, WordTurns, WordSizeType
      <4>2. x + n >= WordSize => Word(x + n) < x
        BY <1>1, <1>3, WordSizeType
      <4> HIDE DEF g
      <4> QED
        BY <1>1, <2>2, <4>1, <4>2 DEF RectEnd, Smaller
    <3>2. RectRun(g, x, y, n) = Run(PixelFirst(g, x, y), Word(e - x) * g.depth)
      BY DEF RectRun
    <3> HIDE DEF e
    <3>3. m \in Nat /\ m < WordSize /\ m > memory /\ x + m >= WordSize
            /\ x + m - WordSize <= g.width
      BY <1>1, <3>1, WordSizeType
    <3>4. Word(e - x) = m
      <4>1. m \in Words /\ e - x = m + (-1) * WordSize
        BY <1>1, <3>1, <3>3, WordSizeType
      <4> HIDE DEF m, g
      <4> QED
        BY <4>1, WordUnique
    <3> HIDE DEF m
    <3>5. Strays(Run(PixelFirst(g, x, y), m * g.depth))
      BY <1>1, <3>3, WrappedStrays
    <3> QED
      BY <2>2, <3>2, <3>4, <3>5
  <2> QED
    BY <1>1, <2>1, <2>2, WordSizeType
<1> QED
    BY <1>6, <1>7

LEMMA DrawingLandsIn ==
    FramebufferTypeOK /\ StoreEnough => DrawingLands
<1>1. FramebufferTypeOK => EntriesFit(geometry)
    BY EntriesFitIn DEF FramebufferTypeOK
<1> QED
    BY <1>1, TilesLandIn, LinesLandIn, CutsExactIn DEF DrawingLands

(* Whatever is drawn inside the picture lies in the store, for every       *)
(* picture, depth and tile, every size of a word and of the directory, and *)
(* in whatever order they were set; after a register write it may be       *)
(* dropped, but not stray. A picture has an entry for each of its tiles    *)
(* just when it has no more tiles than there are entries, and spans and    *)
(* rectangles stray just when their end wraps or lies left of their start. *)
THEOREM FramebufferDrawingLands == FramebufferSpec => []DrawingLands
    BY FramebufferTypeCorrect, FramebufferStoreEnough, DrawingLandsIn, PTL

(* So the setters alone lead to a tile whose data lands in the store, and  *)
(* whose entry is written past the directory.                              *)
DirectoryOverrun ==
    LET g == geometry
    IN ~raw /\ TilesSize(g) < WordSize /\ g.across * g.down > DirectoryEntries =>
           \E x \in 0..(g.across - 1), y \in 0..(g.down - 1) :
               /\ Lands(ClearTileRun(g, x, y))
               /\ TileIndex(g, x, y) >= DirectoryEntries

(* In every picture of more tiles than the directory has entries that was  *)
(* set by the setters and fits a word, clear_tile gets past its check and  *)
(* past the directory.                                                     *)
THEOREM FramebufferDirectoryOverrun == FramebufferSpec => []DirectoryOverrun
<1>1. FramebufferTypeOK /\ DrawingLands => DirectoryOverrun
  <2> DEFINE g == geometry
  <2> SUFFICES ASSUME FramebufferTypeOK, TilesLand(g), EntriesFit(g), ~raw,
                      TilesSize(g) < WordSize,
                      g.across * g.down > DirectoryEntries
               PROVE  \E x \in 0..(g.across - 1), y \in 0..(g.down - 1) :
                          /\ Lands(ClearTileRun(g, x, y))
                          /\ TileIndex(g, x, y) >= DirectoryEntries
      BY DEF DrawingLands, DirectoryOverrun
  <2>1. g \in Geometries
      BY DEF FramebufferTypeOK
  <2> HIDE DEF g
  <2>2. g.across * g.down \in Nat /\ DirectoryEntries \in Nat
      BY <2>1, RequiredType, FramebufferAssumption, WordSizeType
  <2>3. PICK x \in 0..(g.across - 1), y \in 0..(g.down - 1) :
            ~(TileIndex(g, x, y) < DirectoryEntries)
      BY <2>2 DEF EntriesFit
  <2>4. TileIndex(g, x, y) \in Nat
    <3>1. y * g.across + x \in Nat
        BY <2>1, TileNumber
    <3> QED
        BY <3>1, WordTurns, WordSizeType DEF TileIndex
  <2>5. Lands(ClearTileRun(g, x, y))
      BY DEF TilesLand
  <2> QED
      BY <2>2, <2>3, <2>4, <2>5
<1> QED
    BY <1>1, FramebufferTypeCorrect, FramebufferDrawingLands, PTL

(* With double buffering the picture moves only at a swap or to a new base *)
(* address.                                                                *)
THEOREM FramebufferScanout == FramebufferSpec => ScanoutChangesAtSwap
<1>1. ASSUME [FramebufferNext]_framebufferVars, double', current' # current
      PROVE  \/ <<front', back', current'>> = <<back, front, back>>
             \/ current' = base'
  <2>1. CASE FramebufferReset
    BY <1>1, <2>1 DEF FramebufferReset
  <2>2. CASE BufferNext
    BY <1>1, <2>2 DEF BufferNext, FramebufferControl, ControlAndSwap, Swap,
       SetBase, SetFront, SetBack
  <2>3. StoreNext \/ UNCHANGED framebufferVars => UNCHANGED current
    BY DEF StoreNext, SetGeometry, SetFormat, SetDimensions, SetStride,
       SetTileConfig, WriteTileConfig, WriteLineRegister, WriteTileRegister,
       Sized, Unsized, bufferVars, framebufferVars
  <2> QED
    BY <1>1, <2>1, <2>2, <2>3 DEF FramebufferNext
<1>2. [FramebufferNext]_framebufferVars =>
        [double' /\ current' # current =>
           \/ <<front', back', current'>> = <<back, front, back>>
           \/ current' = base']_framebufferVars
    BY <1>1
<1> QED
    BY <1>2, PTL DEF FramebufferSpec, ScanoutChangesAtSwap

-----------------------------------------------------------------------------
(* The surface of the display controller's plane. *)
LEMMA DerivedType ==
    ASSUME NEW tiles \in 0..MaxTiles, NEW code \in 0..3,
           NEW rows \in 0..MaxHeight, NEW linear \in BOOLEAN,
           NEW ptr \in 0..MaxTilePtr
    PROVE  Derived(tiles, code, rows, linear, ptr) \in Surfaces
<1> USE DisplayAssumption
<1> DEFINE bytes == BytesPerPixel[code]
           width == IF tiles > 0 THEN tiles * (RowBytes \div bytes) ELSE NoWidth
<1>1. bytes \in {1, 2, 4}
    BY DEF BytesPerPixel
<1>2. RowBytes \div bytes \in Nat
    BY <1>1
<1>3. width \in Nat
    BY <1>2, ProductType
<1>4. width * bytes \in Nat
    BY <1>1, <1>3, ProductType
<1>5. ptr * RowBytes \in Nat
    BY ProductType
<1> HIDE DEF bytes, width
<1>6. Derived(tiles, code, rows, linear, ptr) =
        [width |-> width, height |-> IF rows > 0 THEN rows ELSE NoHeight,
         bytes |-> bytes, stride |-> width * bytes,
         base |-> ptr * RowBytes, linear |-> linear]
    BY DEF Derived, bytes, width
<1> QED
    BY <1>1, <1>3, <1>4, <1>5, <1>6 DEF Surfaces

LEMMA ZeroInRanges ==
    0 \in 0..MaxTiles /\ 0 \in 0..3 /\ 0 \in 0..MaxHeight /\ 0 \in 0..MaxTilePtr
    BY DisplayAssumption

LEMMA DisplayInitKeeps ==
    DisplayInit => DisplayTypeOK /\ SurfaceFollowsRegisters
<1> SUFFICES ASSUME DisplayInit PROVE DisplayTypeOK /\ SurfaceFollowsRegisters
    OBVIOUS
<1>1. Derived(0, 0, 0, FALSE, 0) \in Surfaces
    BY ZeroInRanges, DerivedType
<1> QED
    BY <1>1, ZeroInRanges DEF DisplayInit, DisplayTypeOK, SurfaceFollowsRegisters

LEMMA DisplayNextKeeps ==
    DisplayTypeOK /\ SurfaceFollowsRegisters /\ [DisplayNext]_displayVars
        => DisplayTypeOK' /\ SurfaceFollowsRegisters'
<1> SUFFICES ASSUME DisplayTypeOK, SurfaceFollowsRegisters,
                    [DisplayNext]_displayVars
             PROVE  DisplayTypeOK' /\ SurfaceFollowsRegisters'
    OBVIOUS
<1>1. CASE DisplayNext
  <2>1. UpdateDerived
    BY <1>1 DEF DisplayNext, DisplayReset, WriteSizeTile, WriteSizePixel,
       WriteFrmControl
  <2>2. /\ frmTiles' \in 0..MaxTiles /\ frmDepth' \in 0..3
        /\ frmHeight' \in 0..MaxHeight
        /\ frmLinear' \in BOOLEAN /\ frmTilePtr' \in 0..MaxTilePtr
    <3>1. CASE DisplayReset
      BY <3>1, ZeroInRanges DEF DisplayReset
    <3>2. CASE ~DisplayReset
      BY <1>1, <3>2 DEF DisplayNext, WriteSizeTile, WriteSizePixel,
         WriteFrmControl, DisplayTypeOK
    <3> QED
      BY <3>1, <3>2
  <2> QED
    BY <2>1, <2>2, DerivedType
       DEF UpdateDerived, DisplayTypeOK, SurfaceFollowsRegisters
<1>2. CASE UNCHANGED displayVars
    BY <1>2 DEF displayVars, frmVars, DisplayTypeOK, SurfaceFollowsRegisters
<1> QED
    BY <1>1, <1>2

(* The plane's registers keep their types. *)
THEOREM DisplayTypeCorrect == DisplaySpec => []DisplayTypeOK
    BY DisplayInitKeeps, DisplayNextKeeps, PTL DEF DisplaySpec

(* The surface the widget reads is the one the registers describe. *)
THEOREM DisplaySurface == DisplaySpec => []SurfaceFollowsRegisters
    BY DisplayInitKeeps, DisplayNextKeeps, PTL DEF DisplaySpec

-----------------------------------------------------------------------------
(* A place in a table of rows of n is its row and its column: the number   *)
(* of the place tells both, and the rows that are there bound it.          *)
LEMMA Places ==
    ASSUME NEW n \in Nat, NEW a \in Nat, NEW c \in Nat,
           NEW b \in 0..(n - 1), NEW d \in 0..(n - 1)
    PROVE  /\ a * n + b = c * n + d => a = c /\ b = d
           /\ a < c => a * n + b < c * n
           /\ a * n + b \in Nat
<1>1. \A u, v \in Nat : u < v => u * n + n <= v * n
  <2> SUFFICES ASSUME NEW u \in Nat, NEW v \in Nat, u < v
               PROVE  u * n + n <= v * n
    OBVIOUS
  <2>1. PICK e \in Nat : v = u + 1 + e
    <3>1. v - u - 1 \in Nat /\ v = u + 1 + (v - u - 1)
      OBVIOUS
    <3> QED
      BY <3>1
  <2>2. v * n = u * n + n + e * n
    BY <2>1
  <2>3. e * n >= 0 /\ e * n \in Nat /\ u * n \in Nat
    OBVIOUS
  <2> QED
    BY <2>2, <2>3
<1>2. a * n \in Nat /\ c * n \in Nat
    OBVIOUS
<1>3. a < c => a * n + n <= c * n
    BY <1>1
<1>4. c < a => c * n + n <= a * n
    BY <1>1
<1>5. a = c \/ a < c \/ c < a
    OBVIOUS
<1>6. a < c => a * n + b < c * n
    BY <1>2, <1>3
<1>7. ASSUME a * n + b = c * n + d PROVE a = c /\ b = d
  <2>1. a = c
    BY <1>2, <1>3, <1>4, <1>5, <1>7
  <2> QED
    BY <1>2, <1>7, <2>1
<1> QED
    BY <1>2, <1>6, <1>7

(* Pixels that are numbered apart and below a bound lie apart in memory    *)
(* and below the end of as many pixels.                                    *)
LEMMA Spaced ==
    ASSUME NEW origin \in Nat, NEW bytes \in Nat, bytes > 0,
           NEW k \in Nat, NEW l \in Nat
    PROVE  /\ k < l => origin + k * bytes + bytes <= origin + l * bytes
           /\ origin + k * bytes = origin + l * bytes => k = l
           /\ origin + k * bytes < origin + l * bytes => k < l
<1>1. \A u, v \in Nat : u < v => u * bytes + bytes <= v * bytes
  <2> SUFFICES ASSUME NEW u \in Nat, NEW v \in Nat, u < v
               PROVE  u * bytes + bytes <= v * bytes
    OBVIOUS
  <2>1. 0 \in 0..(bytes - 1) /\ (bytes - 1) \in 0..(bytes - 1)
    OBVIOUS
  <2>2. u * bytes + (bytes - 1) < v * bytes
    BY <2>1, Places
  <2>3. u * bytes \in Nat /\ v * bytes \in Nat
    OBVIOUS
  <2> QED
    BY <2>2, <2>3
<1>2. k * bytes \in Nat /\ l * bytes \in Nat
    OBVIOUS
<1>3. k = l \/ k < l \/ l < k
    OBVIOUS
<1>4. k < l => k * bytes + bytes <= l * bytes
    BY <1>1
<1>5. l < k => l * bytes + bytes <= k * bytes
    BY <1>1
<1> QED
    BY <1>2, <1>3, <1>4, <1>5

(* The tiles across or down are enough for each pixel. *)
LEMMA EnoughTiles ==
    ASSUME NEW n \in Nat, n > 0, NEW side \in Nat, NEW x \in 0..(side - 1)
    PROVE  /\ x \div n < (side + n - 1) \div n
           /\ (side + n - 1) \div n \in Nat
<1> DEFINE s == side + n - 1
           i == x \div n
           j == s \div n
<1>1. s \in Nat /\ s >= x + n
    OBVIOUS
<1> HIDE DEF s
<1>2. i \in Nat /\ x % n \in 0..(n - 1) /\ x = i * n + (x % n)
    BY Division
<1>3. j \in Nat /\ s % n \in 0..(n - 1) /\ s = j * n + (s % n)
    BY <1>1, Division
<1> HIDE DEF i, j
<1>4. CASE j <= i
  <2>1. j * n <= i * n
    <3>1. j = i => j * n = i * n
      OBVIOUS
    <3>2. j < i => j * n + 0 < i * n
      BY <1>2, <1>3, Places
    <3> QED
      BY <1>2, <1>3, <1>4, <3>1, <3>2
  <2>2. i * n \in Nat /\ j * n \in Nat
    BY <1>2, <1>3
  <2>3. x % n \in Nat /\ s % n \in Nat /\ s % n < n
    BY <1>2, <1>3
  <2> QED
    BY <1>1, <1>2, <1>3, <2>1, <2>2, <2>3
<1> QED
    BY <1>2, <1>3, <1>4 DEF i, j, s

-----------------------------------------------------------------------------
(* A surface whose rows of pixels follow each other without a gap: what    *)
(* the plane describes and what the widget falls back to.                  *)
Gapless(s) ==
    /\ s.width \in Nat /\ s.height \in Nat /\ s.base \in Nat
    /\ s.bytes \in {1, 2, 4} /\ s.stride = s.width * s.bytes
    /\ s.linear \in BOOLEAN

(* The pixels of a tile's row, which fill it.                              *)
Across(s) == RowBytes \div s.bytes

LEMMA AcrossFills ==
    ASSUME NEW s, Gapless(s)
    PROVE  Across(s) \in Nat /\ Across(s) > 0 /\ Across(s) * s.bytes = RowBytes
<1>1. PICK n \in Nat : RowBytes = 4 * n /\ n > 0
  <2>1. RowBytes \div 4 \in Nat /\ RowBytes = 4 * (RowBytes \div 4) /\ RowBytes > 0
    BY DisplayAssumption
  <2>2. RowBytes \div 4 > 0
    BY <2>1
  <2> QED
    BY <2>1, <2>2
<1>2. CASE s.bytes = 1
    BY <1>1, <1>2 DEF Across
<1>3. CASE s.bytes = 2
    BY <1>1, <1>3 DEF Across
<1>4. CASE s.bytes = 4
    BY <1>1, <1>4 DEF Across
<1> QED
    BY <1>2, <1>3, <1>4 DEF Gapless

(* The pixel's place among those of the surface, and the places there are. *)
Tile(s, p) == (p[2] \div TileRows) * TilesAcross(s) + p[1] \div Across(s)
RowOfTiles(s, p) == Tile(s, p) * TileRows + (p[2] % TileRows)
Place(s, p) ==
    IF s.linear THEN p[2] * s.width + p[1]
                ELSE RowOfTiles(s, p) * Across(s) + (p[1] % Across(s))

TilesDown(s) == (s.height + TileRows - 1) \div TileRows
PlacesIn(s) ==
    IF s.linear THEN s.height * s.width
    ELSE ((TilesDown(s) * TilesAcross(s)) * TileRows) * Across(s)

(* The parts of a pixel's coordinates and the tables they index.           *)
LEMMA PixelParts ==
    ASSUME NEW s, Gapless(s), NEW p \in Pixels(s)
    PROVE  /\ p = <<p[1], p[2]>>
           /\ p[1] \in Nat /\ p[1] < s.width
           /\ p[2] \in Nat /\ p[2] < s.height
           /\ TilesAcross(s) \in Nat /\ TilesDown(s) \in Nat
           /\ p[1] \div Across(s) \in 0..(TilesAcross(s) - 1)
           /\ p[2] \div TileRows \in 0..(TilesDown(s) - 1)
           /\ p[1] % Across(s) \in 0..(Across(s) - 1)
           /\ p[2] % TileRows \in 0..(TileRows - 1)
           /\ p[1] = (p[1] \div Across(s)) * Across(s) + (p[1] % Across(s))
           /\ p[2] = (p[2] \div TileRows) * TileRows + (p[2] % TileRows)
<1> DEFINE n == Across(s)
<1>1. n \in Nat /\ n > 0 /\ TileRows \in Nat /\ TileRows > 0
    BY AcrossFills, DisplayAssumption
<1>2. s.width \in Nat /\ s.height \in Nat
    BY DEF Gapless
<1>3. /\ p = <<p[1], p[2]>>
      /\ p[1] \in 0..(s.width - 1) /\ p[2] \in 0..(s.height - 1)
    BY <1>2 DEF Pixels
<1>4. TilesAcross(s) = (s.width + n - 1) \div n
    BY DEF TilesAcross, Across
<1> HIDE DEF n
<1>5. /\ p[1] \div n < TilesAcross(s) /\ TilesAcross(s) \in Nat
      /\ p[1] \div n \in Nat /\ p[1] % n \in 0..(n - 1)
      /\ p[1] = (p[1] \div n) * n + (p[1] % n)
  <2>1. p[1] \in Nat
    BY <1>3
  <2>2. /\ p[1] \div n < (s.width + n - 1) \div n
        /\ (s.width + n - 1) \div n \in Nat
    BY <1>1, <1>2, <1>3, EnoughTiles
  <2>3. /\ p[1] \div n \in Nat /\ p[1] % n \in 0..(n - 1)
        /\ p[1] = (p[1] \div n) * n + (p[1] % n)
    BY <1>1, <2>1, Division
  <2> QED
    BY <1>4, <2>2, <2>3
<1>6. /\ p[2] \div TileRows < TilesDown(s) /\ TilesDown(s) \in Nat
      /\ p[2] \div TileRows \in Nat /\ p[2] % TileRows \in 0..(TileRows - 1)
      /\ p[2] = (p[2] \div TileRows) * TileRows + (p[2] % TileRows)
  <2>1. p[2] \in Nat
    BY <1>3
  <2> QED
    BY <1>1, <1>2, <1>3, <2>1, EnoughTiles, Division DEF TilesDown
<1> QED
    BY <1>2, <1>3, <1>5, <1>6 DEF n

(* The place is a number below the number of places and gives the address. *)
LEMMA PlaceGivesAddress ==
    ASSUME NEW s, Gapless(s), NEW p \in Pixels(s)
    PROVE  /\ Place(s, p) \in Nat /\ PlacesIn(s) \in Nat
           /\ Place(s, p) < PlacesIn(s)
           /\ PixelAddress(s, p) = s.base + Place(s, p) * s.bytes
           /\ SurfaceEnd(s) = s.base + PlacesIn(s) * s.bytes
<1> DEFINE n == Across(s)
           i == p[1] \div n
           j == p[2] \div TileRows
           x == p[1] % n
           y == p[2] % TileRows
           c == TilesAcross(s)
           d == TilesDown(s)
<1>1. /\ n \in Nat /\ n > 0 /\ n * s.bytes = RowBytes /\ TileRows \in Nat
      /\ s.base \in Nat /\ s.bytes \in Nat /\ s.width \in Nat /\ s.height \in Nat
    BY AcrossFills, DisplayAssumption DEF Gapless
<1>2. /\ p[1] \in 0..(s.width - 1) /\ p[2] \in Nat /\ p[2] < s.height
      /\ c \in Nat /\ d \in Nat /\ i \in 0..(c - 1) /\ j \in Nat /\ j < d
      /\ x \in 0..(n - 1) /\ y \in 0..(TileRows - 1)
    BY <1>1, PixelParts
<1>3. CASE s.linear
  <2>1. /\ p[2] * s.width + p[1] < s.height * s.width
        /\ p[2] * s.width + p[1] \in Nat
    BY <1>1, <1>2, Places
  <2>2. s.stride = s.width * s.bytes
    BY DEF Gapless
  <2>3. PixelAddress(s, p) = s.base + p[2] * s.stride + p[1] * s.bytes
    BY <1>3 DEF PixelAddress
  <2>4. SurfaceEnd(s) = s.base + s.height * s.stride
    BY <1>3 DEF SurfaceEnd
  <2>5. Place(s, p) = p[2] * s.width + p[1] /\ PlacesIn(s) = s.height * s.width
    BY <1>3 DEF Place, PlacesIn
  <2>6. p[2] * s.stride + p[1] * s.bytes = (p[2] * s.width + p[1]) * s.bytes
    BY <1>1, <1>2, <2>2
  <2>7. s.height * s.stride = (s.height * s.width) * s.bytes
    BY <1>1, <2>2
  <2>8. s.height * s.width \in Nat
    BY <1>1
  <2>9. s.base + p[2] * s.stride + p[1] * s.bytes
          = s.base + (p[2] * s.stride + p[1] * s.bytes)
    BY <1>1, <1>2, <2>2
  <2> QED
    BY <2>1, <2>3, <2>4, <2>5, <2>6, <2>7, <2>8, <2>9
<1>4. CASE ~s.linear
  <2> HIDE DEF i, j, x, y, c, d, n
  <2> DEFINE t == j * c + i
             r == t * TileRows + y
             k == r * n + x
  <2>1. t \in Nat /\ t < d * c /\ d * c \in Nat
    BY <1>2, Places
  <2> HIDE DEF t
  <2>2. r \in Nat /\ r < (d * c) * TileRows /\ (d * c) * TileRows \in Nat
    BY <1>1, <1>2, <2>1, Places
  <2> HIDE DEF r
  <2>3. /\ k \in Nat /\ k < ((d * c) * TileRows) * n
        /\ ((d * c) * TileRows) * n \in Nat
    BY <1>1, <1>2, <2>2, Places
  <2>4. k * s.bytes = t * RowBytes * TileRows + y * RowBytes + x * s.bytes
    <3>1. x \in Nat /\ y \in Nat /\ n \in Nat /\ s.bytes \in Nat
      BY <1>1, <1>2
    <3>2. k * s.bytes = (t * TileRows + y) * n * s.bytes + x * s.bytes
      BY <1>1, <2>1, <3>1 DEF r
    <3>3. (t * TileRows + y) * n * s.bytes = (t * TileRows + y) * RowBytes
      BY <1>1, <2>1, <3>1
    <3>4. RowBytes \in Nat
      BY DisplayAssumption
    <3>5. (t * TileRows + y) * RowBytes = t * RowBytes * TileRows + y * RowBytes
      BY <1>1, <2>1, <3>1, <3>4
    <3> QED
      BY <1>1, <2>1, <3>1, <3>2, <3>3, <3>4, <3>5
  <2>5. (((d * c) * TileRows) * n) * s.bytes = c * d * RowBytes * TileRows
    <3>1. (((d * c) * TileRows) * n) * s.bytes = ((d * c) * TileRows) * RowBytes
      BY <1>1, <1>2
    <3>2. RowBytes \in Nat
      BY DisplayAssumption
    <3> QED
      BY <1>1, <1>2, <3>1, <3>2
  <2>6. PixelAddress(s, p) =
          s.base + t * RowBytes * TileRows + y * RowBytes + x * s.bytes
    BY <1>4 DEF PixelAddress, TiledAddress, t, i, j, x, y, c, n, Across
  <2>7. SurfaceEnd(s) = s.base + c * d * RowBytes * TileRows
    BY <1>4 DEF SurfaceEnd, TilesDown, c, d
  <2>8. Place(s, p) = k /\ PlacesIn(s) = ((d * c) * TileRows) * n
    BY <1>4 DEF Place, RowOfTiles, Tile, PlacesIn, r, t, i, j, x, y, c, d, n
  <2>9. s.base + t * RowBytes * TileRows + y * RowBytes + x * s.bytes
          = s.base + (t * RowBytes * TileRows + y * RowBytes + x * s.bytes)
    <3>1. /\ t * RowBytes * TileRows \in Nat /\ y * RowBytes \in Nat
          /\ x * s.bytes \in Nat
      BY <1>1, <1>2, <2>1, DisplayAssumption
    <3> QED
      BY <1>1, <3>1
  <2> QED
    BY <2>3, <2>4, <2>5, <2>6, <2>7, <2>8, <2>9
<1> QED
    BY <1>3, <1>4 DEF Gapless

(* Different pixels have different places.                                 *)
LEMMA PlaceTellsPixel ==
    ASSUME NEW s, Gapless(s), NEW p \in Pixels(s), NEW q \in Pixels(s),
           Place(s, p) = Place(s, q)
    PROVE  p = q
<1>1. Across(s) \in Nat /\ TileRows \in Nat /\ s.width \in Nat
    BY AcrossFills, DisplayAssumption DEF Gapless
<1>2. CASE s.linear
  <2>1. /\ p[2] \in Nat /\ p[1] \in 0..(s.width - 1) /\ p = <<p[1], p[2]>>
        /\ q[2] \in Nat /\ q[1] \in 0..(s.width - 1) /\ q = <<q[1], q[2]>>
    BY PixelParts, <1>1
  <2>2. p[2] * s.width + p[1] = q[2] * s.width + q[1]
    BY <1>2 DEF Place
  <2>3. p[2] = q[2] /\ p[1] = q[1]
    BY <1>1, <2>1, <2>2, Places
  <2> QED
    BY <2>1, <2>3
<1>3. CASE ~s.linear
  <2>1. /\ p[1] % Across(s) \in 0..(Across(s) - 1)
        /\ q[1] % Across(s) \in 0..(Across(s) - 1)
        /\ p[2] % TileRows \in 0..(TileRows - 1)
        /\ q[2] % TileRows \in 0..(TileRows - 1)
        /\ p[1] \div Across(s) \in 0..(TilesAcross(s) - 1)
        /\ q[1] \div Across(s) \in 0..(TilesAcross(s) - 1)
        /\ p[2] \div TileRows \in Nat /\ q[2] \div TileRows \in Nat
        /\ TilesAcross(s) \in Nat
    BY PixelParts
  <2>2. Tile(s, p) \in Nat /\ Tile(s, q) \in Nat
    BY <2>1 DEF Tile
  <2>3. RowOfTiles(s, p) \in Nat /\ RowOfTiles(s, q) \in Nat
    BY <1>1, <2>1, <2>2 DEF RowOfTiles
  <2>4. RowOfTiles(s, p) * Across(s) + (p[1] % Across(s))
          = RowOfTiles(s, q) * Across(s) + (q[1] % Across(s))
    BY <1>3 DEF Place
  <2>5. RowOfTiles(s, p) = RowOfTiles(s, q) /\ p[1] % Across(s) = q[1] % Across(s)
    <3> DEFINE n == Across(s)
               a == RowOfTiles(s, p)
               c == RowOfTiles(s, q)
               b == p[1] % n
               d == q[1] % n
    <3>1. /\ n \in Nat /\ a \in Nat /\ c \in Nat
          /\ b \in 0..(n - 1) /\ d \in 0..(n - 1) /\ a * n + b = c * n + d
      BY <1>1, <2>1, <2>3, <2>4
    <3> HIDE DEF n, a, b, c, d
    <3>2. a = c /\ b = d
      BY <3>1, Places
    <3> QED
      BY <3>2 DEF n, a, b, c, d
  <2>6. Tile(s, p) = Tile(s, q) /\ p[2] % TileRows = q[2] % TileRows
    <3> DEFINE a == Tile(s, p)
               c == Tile(s, q)
               b == p[2] % TileRows
               d == q[2] % TileRows
    <3>1. /\ a \in Nat /\ c \in Nat
          /\ b \in 0..(TileRows - 1) /\ d \in 0..(TileRows - 1)
          /\ a * TileRows + b = c * TileRows + d
      BY <2>1, <2>2, <2>5 DEF RowOfTiles
    <3> HIDE DEF a, b, c, d
    <3>2. a = c /\ b = d
      BY <1>1, <3>1, Places
    <3> QED
      BY <3>2 DEF a, b, c, d
  <2>7. /\ p[2] \div TileRows = q[2] \div TileRows
        /\ p[1] \div Across(s) = q[1] \div Across(s)
    <3> DEFINE n == TilesAcross(s)
               a == p[2] \div TileRows
               c == q[2] \div TileRows
               b == p[1] \div Across(s)
               d == q[1] \div Across(s)
    <3>1. /\ n \in Nat /\ a \in Nat /\ c \in Nat
          /\ b \in 0..(n - 1) /\ d \in 0..(n - 1) /\ a * n + b = c * n + d
      BY <2>1, <2>6 DEF Tile
    <3> HIDE DEF n, a, b, c, d
    <3>2. a = c /\ b = d
      BY <3>1, Places
    <3> QED
      BY <3>2 DEF a, b, c, d
  <2>8. /\ p = <<p[1], p[2]>> /\ q = <<q[1], q[2]>>
        /\ p[1] = (p[1] \div Across(s)) * Across(s) + (p[1] % Across(s))
        /\ q[1] = (q[1] \div Across(s)) * Across(s) + (q[1] % Across(s))
        /\ p[2] = (p[2] \div TileRows) * TileRows + (p[2] % TileRows)
        /\ q[2] = (q[2] \div TileRows) * TileRows + (q[2] % TileRows)
    BY PixelParts
  <2>9. p[1] = q[1] /\ p[2] = q[2]
    BY <2>5, <2>6, <2>7, <2>8
  <2> QED
    BY <2>8, <2>9
<1> QED
    BY <1>2, <1>3 DEF Gapless

(* The widget shows a gapless surface.                                     *)
LEMMA ShownGapless ==
    DisplayTypeOK /\ SurfaceFollowsRegisters => Gapless(Shown)
<1> SUFFICES ASSUME DisplayTypeOK, SurfaceFollowsRegisters PROVE Gapless(Shown)
    OBVIOUS
<1>1. surface \in Surfaces /\ surface.stride = surface.width * surface.bytes
    BY DEF DisplayTypeOK, SurfaceFollowsRegisters, Derived
<1>2. FallbackWidth \in Nat /\ FallbackHeight \in Nat
    BY DisplayAssumption
<1>3. CASE surface.width > MaxSide \/ surface.height > MaxSide
    BY <1>1, <1>2, <1>3 DEF Shown, Gapless, Surfaces
<1>4. CASE ~(surface.width > MaxSide \/ surface.height > MaxSide)
    BY <1>1, <1>4 DEF Shown, Gapless, Surfaces
<1> QED
    BY <1>3, <1>4

LEMMA GaplessPixelsDistinct ==
    ASSUME Gapless(Shown) PROVE PixelsDistinct
<1> SUFFICES ASSUME NEW p \in Pixels(Shown)
             PROVE  /\ PixelAddress(Shown, p) + Shown.bytes <= SurfaceEnd(Shown)
                    /\ \A q \in Pixels(Shown) :
                          PixelAddress(Shown, p) < PixelAddress(Shown, q) =>
                            PixelAddress(Shown, p) + Shown.bytes
                              <= PixelAddress(Shown, q)
                    /\ \A q \in Pixels(Shown) :
                          PixelAddress(Shown, p) = PixelAddress(Shown, q) => p = q
    BY DEF PixelsDistinct
<1>1. Shown.base \in Nat /\ Shown.bytes \in Nat /\ Shown.bytes > 0
    BY DEF Gapless
<1>2. \A q \in Pixels(Shown) :
        /\ Place(Shown, q) \in Nat /\ PlacesIn(Shown) \in Nat
        /\ Place(Shown, q) < PlacesIn(Shown)
        /\ PixelAddress(Shown, q) = Shown.base + Place(Shown, q) * Shown.bytes
        /\ SurfaceEnd(Shown) = Shown.base + PlacesIn(Shown) * Shown.bytes
    BY PlaceGivesAddress
<1>3. PixelAddress(Shown, p) + Shown.bytes <= SurfaceEnd(Shown)
    BY <1>1, <1>2, Spaced
<1>4. ASSUME NEW q \in Pixels(Shown)
      PROVE  /\ PixelAddress(Shown, p) < PixelAddress(Shown, q) =>
                   PixelAddress(Shown, p) + Shown.bytes <= PixelAddress(Shown, q)
             /\ PixelAddress(Shown, p) = PixelAddress(Shown, q) => p = q
  <2> DEFINE k == Place(Shown, p)
             l == Place(Shown, q)
             origin == Shown.base
             bytes == Shown.bytes
  <2>1. /\ k \in Nat /\ l \in Nat /\ origin \in Nat /\ bytes \in Nat /\ bytes > 0
        /\ PixelAddress(Shown, p) = origin + k * bytes
        /\ PixelAddress(Shown, q) = origin + l * bytes
    BY <1>1, <1>2
  <2>2. k = l => p = q
    BY PlaceTellsPixel
  <2> HIDE DEF k, l, origin
  <2>3. /\ origin + k * bytes < origin + l * bytes => k < l
        /\ k < l => origin + k * bytes + bytes <= origin + l * bytes
        /\ origin + k * bytes = origin + l * bytes => k = l
    BY <2>1, Spaced
  <2> QED
    BY <2>1, <2>2, <2>3
<1> QED
    BY <1>3, <1>4

(* The widget draws an image of the surface the registers describe: its    *)
(* pixels lie apart in memory and within the surface, for every tile, side *)
(* and address the plane may be given, so also those the runs do not reach.*)
THEOREM DisplayPixelsDistinct == DisplaySpec => []PixelsDistinct
<1>1. DisplayTypeOK /\ SurfaceFollowsRegisters => PixelsDistinct
    BY ShownGapless, GaplessPixelsDistinct
<1> QED
    BY <1>1, DisplayTypeCorrect, DisplaySurface, PTL

(* The display engine's registers keep their types, and its modes are rows *)
(* of the table.                                                           *)
THEOREM EngineTypeCorrect == EngineSpec => []EngineTypeOK
    BY EngineInitType, EngineNextType, PTL DEF EngineSpec
=============================================================================
