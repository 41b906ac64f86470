----------------------------- MODULE PortProofs -----------------------------
(***************************************************************************)
(* What holds of the serial port and of the keyboard and mouse controller  *)
(* for every set of characters and keys and every bound: types, the        *)
(* streams their software reads, and that a key is not left pressed.       *)
(***************************************************************************)
EXTENDS UART, PS2, TLAPS

(* Appending is concatenating a sequence of one. *)
LEMMA AppendConcatenates ==
    ASSUME NEW S, NEW s \in Seq(S), NEW e \in S
    PROVE  Append(s, e) = s \o <<e>>
    OBVIOUS

LEMMA TailType ==
    ASSUME NEW S, NEW s \in Seq(S), s # <<>>
    PROVE  Tail(s) \in Seq(S)
    OBVIOUS

LEMMA ConcatType ==
    ASSUME NEW S, NEW s \in Seq(S), NEW t \in Seq(S)
    PROVE  s \o t \in Seq(S)
    OBVIOUS

-----------------------------------------------------------------------------
(* Types of the serial port: each access keeps the registers what they are. *)
LEMMA UARTInitType == UARTInit => UARTTypeOK
<1> SUFFICES ASSUME UARTInit PROVE UARTTypeOK
    OBVIOUS
<1>1. rx \in Seq(Chars)
    BY DEF UARTInit
<1>2. lsr \subseteq LsrBits
    BY Zenon DEF UARTInit, LsrBits
<1> QED
    BY <1>1, <1>2 DEF UARTInit, UARTTypeOK, Iirs

LEMMA UARTNextType == UARTTypeOK /\ [UARTNext]_uartVars => UARTTypeOK'
<1> SUFFICES ASSUME UARTTypeOK, [UARTNext]_uartVars PROVE UARTTypeOK'
    OBVIOUS
<1> USE DEF UARTTypeOK
<1>1. CASE UARTReset
  <2>1. lsr' \subseteq LsrBits
    BY <1>1, Zenon DEF UARTReset, LsrBits
  <2>2. rx' \in Seq(Chars)
    BY <1>1 DEF UARTReset
  <2> QED
    BY <1>1, <2>1, <2>2 DEF UARTReset, Iirs
<1>2. CASE ReadRBR
    BY <1>2, TailType DEF ReadRBR
<1>3. CASE WriteFCR
    BY <1>3 DEF WriteFCR, Iirs
<1>4. CASE WriteLCR
    BY <1>4 DEF WriteLCR
<1>5. CASE \E c \in Chars : WriteTHR(c)
    BY <1>5 DEF WriteTHR, LsrBits, Iirs
<1>6. CASE \E c \in Chars : PushRxChar(c)
    BY <1>6 DEF PushRxChar, LsrBits, Iirs
<1>7. CASE \E enabled \in SUBSET IerBits : WriteIER(enabled)
    BY <1>7 DEF WriteIER, Identified, Iirs
<1>8. CASE UNCHANGED uartVars
    BY <1>8 DEF uartVars
<1> QED
    BY <1>1, <1>2, <1>3, <1>4, <1>5, <1>6, <1>7, <1>8 DEF UARTNext

(* The serial port's registers and its buffer keep their types. *)
THEOREM UARTTypeCorrect == UARTSpec => []UARTTypeOK
    BY UARTInitType, UARTNextType, PTL DEF UARTSpec

(* Each access is a step of the stream of received characters, or none. *)
LEMMA UARTStreamStep ==
    UARTTypeOK /\ [UARTNext]_uartVars => [ReceiveStream!Next]_rx
<1> SUFFICES ASSUME UARTTypeOK, [UARTNext]_uartVars
             PROVE  [ReceiveStream!Next]_rx
    OBVIOUS
<1> USE DEF ReceiveStream!Next
<1>1. CASE UARTReset
    BY <1>1 DEF UARTReset, ReceiveStream!Clear
<1>2. CASE ReadRBR
    BY <1>2 DEF ReadRBR, ReceiveStream!Take
<1>3. CASE \E c \in Chars : PushRxChar(c)
  <2>1. PICK c \in Chars : PushRxChar(c)
    BY <1>3
  <2>2. rx' = rx \o <<c>>
    BY <2>1, AppendConcatenates DEF PushRxChar, UARTTypeOK
  <2> QED
    BY <2>2 DEF ReceiveStream!Arrive
<1>4. CASE WriteFCR \/ WriteLCR \/ UNCHANGED uartVars
    BY <1>4 DEF WriteFCR, WriteLCR, uartVars
<1>5. CASE \E c \in Chars : WriteTHR(c)
    BY <1>5 DEF WriteTHR
<1>6. CASE \E enabled \in SUBSET IerBits : WriteIER(enabled)
    BY <1>6 DEF WriteIER
<1> QED
    BY <1>1, <1>2, <1>3, <1>4, <1>5, <1>6 DEF UARTNext

(* Received characters are read once each and in order, until a reset. *)
THEOREM UARTImplementsStream == UARTSpec => UARTIsStream
<1>1. UARTInit => ReceiveStream!Init
    BY DEF UARTInit, ReceiveStream!Init
<1> QED
    BY <1>1, UARTStreamStep, UARTTypeCorrect, PTL
       DEF UARTSpec, UARTIsStream, ReceiveStream!Spec

-----------------------------------------------------------------------------
(* What goes into the two buffers at once is made of bytes. *)
LEMMA FrameType ==
    /\ \A k \in Keys : <<k>> \in Seq(Bytes) /\ <<"break", k>> \in Seq(Bytes)
    /\ \A n \in Nat : Reply(n) \in Seq(Bytes)
    /\ Packet \in Seq(Bytes)
<1>1. ASSUME NEW k \in Keys
      PROVE  <<k>> \in Seq(Bytes) /\ <<"break", k>> \in Seq(Bytes)
    BY DEF Bytes
<1>2. ASSUME NEW n \in Nat PROVE Reply(n) \in Seq(Bytes)
  <2>1. Reply(n) \in [1..n -> Bytes]
    BY DEF Reply, Bytes
  <2> QED
    BY <2>1
<1>3. Packet \in Seq(Bytes)
    BY DEF Packet, Bytes
<1> QED
    BY <1>1, <1>2, <1>3

LEMMA ReplyLengths == KeyboardReplies \subseteq Nat /\ MouseReplies \subseteq Nat
    BY DEF KeyboardReplies, MouseReplies

(* Types of the controller and of the widget that feeds it. *)
LEMMA PS2InitType == PS2Init => PS2TypeOK
<1> SUFFICES ASSUME PS2Init PROVE PS2TypeOK
    OBVIOUS
<1>1. kbd \in Seq(Bytes) /\ mouse \in Seq(Bytes)
    BY DEF PS2Init
<1> QED
    BY <1>1 DEF PS2Init, PS2TypeOK

LEMMA PushKeyboardType ==
    ASSUME PS2TypeOK, NEW frame \in Seq(Bytes), PushKeyboard(frame)
    PROVE  kbd' \in Seq(Bytes) /\ status' \subseteq StatusBits
<1>1. kbd \o frame \in Seq(Bytes)
    BY ConcatType DEF PS2TypeOK
<1> QED
    BY <1>1 DEF PushKeyboard, PS2TypeOK, StatusBits

LEMMA PushMouseType ==
    ASSUME PS2TypeOK, PushMouse
    PROVE  mouse' \in Seq(Bytes) /\ status' \subseteq StatusBits
<1>1. mouse \o Packet \in Seq(Bytes)
    BY ConcatType, FrameType DEF PS2TypeOK
<1> QED
    BY <1>1 DEF PushMouse, PS2TypeOK, StatusBits

LEMMA WriteDataType ==
    ASSUME PS2TypeOK, WriteData
    PROVE  PS2TypeOK'
<1>1. kbd' \in Seq(Bytes)
    BY ConcatType, FrameType, ReplyLengths DEF WriteData, PS2TypeOK
<1>2. mouse' \in Seq(Bytes)
    BY ConcatType, FrameType, ReplyLengths DEF WriteData, PS2TypeOK
<1>3. status' \subseteq StatusBits
    BY DEF WriteData, PS2TypeOK, StatusBits
<1> QED
    BY <1>1, <1>2, <1>3 DEF WriteData, PS2TypeOK, keyVars

LEMMA PS2NextType == PS2TypeOK /\ [PS2Next]_ps2Vars => PS2TypeOK'
<1> SUFFICES ASSUME PS2TypeOK, [PS2Next]_ps2Vars PROVE PS2TypeOK'
    OBVIOUS
<1>1. CASE PS2Reset
  <2>1. kbd' \in Seq(Bytes) /\ mouse' \in Seq(Bytes)
    BY <1>1 DEF PS2Reset
  <2> QED
    BY <1>1, <2>1 DEF PS2Reset, PS2TypeOK, keyVars
<1>2. CASE ReadData
  <2>1. kbd' \in Seq(Bytes) /\ mouse' \in Seq(Bytes)
    BY <1>2, TailType DEF ReadData, PS2TypeOK
  <2> QED
    BY <1>2, <2>1 DEF ReadData, PS2TypeOK, keyVars
<1>3. CASE ControllerCommand
  <2>1. status' \subseteq StatusBits /\ kbdOn' \in BOOLEAN /\ mouseOn' \in BOOLEAN
    BY <1>3 DEF ControllerCommand, PS2TypeOK, StatusBits
  <2> QED
    BY <1>3, <2>1 DEF ControllerCommand, PS2TypeOK, keyVars
<1>4. CASE WriteData
    BY <1>4, WriteDataType
<1>5. ASSUME NEW k \in Keys, PressKey(k) PROVE PS2TypeOK'
  <2>1. kbd' \in Seq(Bytes) /\ status' \subseteq StatusBits
    BY <1>5, PushKeyboardType, FrameType DEF PressKey, PS2TypeOK
  <2> QED
    BY <1>5, <2>1 DEF PressKey, PS2TypeOK
<1>6. ASSUME NEW k \in Keys, ReleaseKey(k) PROVE PS2TypeOK'
  <2>1. kbd' \in Seq(Bytes) /\ status' \subseteq StatusBits
    BY <1>6, PushKeyboardType, FrameType DEF ReleaseKey, PS2TypeOK
  <2> QED
    BY <1>6, <2>1 DEF ReleaseKey, PS2TypeOK
<1>7. CASE ReleaseInput
    BY <1>7 DEF ReleaseInput, PS2TypeOK, keyVars
<1>8. CASE Click
    BY <1>8, PushMouseType DEF Click, PS2TypeOK, keyVars
<1>9. CASE Move
    BY <1>9, PushMouseType DEF Move, PS2TypeOK, keyVars
<1>10. CASE UNCHANGED ps2Vars
    BY <1>10 DEF ps2Vars, keyVars, PS2TypeOK
<1> QED
    BY <1>1, <1>2, <1>3, <1>4, <1>5, <1>6, <1>7, <1>8, <1>9, <1>10 DEF PS2Next

(* The controller's buffers and flags and the widget keep their types. *)
THEOREM PS2TypeCorrect == PS2Spec => []PS2TypeOK
    BY PS2InitType, PS2NextType, PTL DEF PS2Spec

-----------------------------------------------------------------------------
(* Each step of the controller is one of each device's stream, or none.    *)
LEMMA PushKeyboardArrives ==
    ASSUME NEW k \in Keys, NEW frame \in {<<k>>, <<"break", k>>},
           PushKeyboard(frame)
    PROVE  [KeyboardStream!Next]_kbd
<1>1. CASE kbdOn
  <2>1. kbd' = kbd \o frame
    BY <1>1 DEF PushKeyboard
  <2> QED
    BY <2>1 DEF KeyboardStream!Next, KeyboardStream!Arrive
<1>2. CASE ~kbdOn
    BY <1>2 DEF PushKeyboard
<1> QED
    BY <1>1, <1>2

LEMMA KeyboardStreamStep == [PS2Next]_ps2Vars => [KeyboardStream!Next]_kbd
<1> SUFFICES ASSUME [PS2Next]_ps2Vars PROVE [KeyboardStream!Next]_kbd
    OBVIOUS
<1> USE DEF KeyboardStream!Next
<1>1. CASE PS2Reset
    BY <1>1 DEF PS2Reset, KeyboardStream!Clear
<1>2. CASE ReadData
    BY <1>2 DEF ReadData, KeyboardStream!Take
<1>3. CASE WriteData
    BY <1>3 DEF WriteData, KeyboardStream!Arrive
<1>4. ASSUME NEW k \in Keys, PressKey(k) PROVE [KeyboardStream!Next]_kbd
  <2>1. UNCHANGED kbd \/ PushKeyboard(<<k>>)
    BY <1>4 DEF PressKey
  <2> QED
    BY <2>1, PushKeyboardArrives
<1>5. ASSUME NEW k \in Keys, ReleaseKey(k) PROVE [KeyboardStream!Next]_kbd
  <2>1. UNCHANGED kbd \/ PushKeyboard(<<"break", k>>)
    BY <1>5 DEF ReleaseKey
  <2> QED
    BY <2>1, PushKeyboardArrives
<1>6. CASE UNCHANGED kbd
    BY <1>6
<1>7. ControllerCommand \/ ReleaseInput \/ Click \/ Move \/ UNCHANGED ps2Vars
        => UNCHANGED kbd
    BY DEF ControllerCommand, ReleaseInput, Click, Move, ps2Vars
<1> QED
    BY <1>1, <1>2, <1>3, <1>4, <1>5, <1>6, <1>7 DEF PS2Next

LEMMA PushMouseArrives ==
    ASSUME PushMouse
    PROVE  [MouseStream!Next]_mouse
<1>1. mouse' = mouse \o Packet \/ UNCHANGED mouse
    BY DEF PushMouse
<1> QED
    BY <1>1 DEF MouseStream!Next, MouseStream!Arrive

LEMMA MouseStreamStep == [PS2Next]_ps2Vars => [MouseStream!Next]_mouse
<1> SUFFICES ASSUME [PS2Next]_ps2Vars PROVE [MouseStream!Next]_mouse
    OBVIOUS
<1> USE DEF MouseStream!Next
<1>1. CASE PS2Reset
    BY <1>1 DEF PS2Reset, MouseStream!Clear
<1>2. CASE ReadData
    BY <1>2 DEF ReadData, MouseStream!Take
<1>3. CASE WriteData
    BY <1>3 DEF WriteData, MouseStream!Arrive
<1>4. CASE Click \/ Move
    BY <1>4, PushMouseArrives DEF Click, Move
<1>5. CASE UNCHANGED mouse
    BY <1>5
<1>6. ControllerCommand \/ ReleaseInput \/ UNCHANGED ps2Vars
        \/ (\E k \in Keys : PressKey(k) \/ ReleaseKey(k)) => UNCHANGED mouse
    BY DEF ControllerCommand, ReleaseInput, PressKey, ReleaseKey, ps2Vars
<1> QED
    BY <1>1, <1>2, <1>3, <1>4, <1>5, <1>6 DEF PS2Next

(* What the keyboard and the mouse send is read whole and in order, until  *)
(* a reset, whatever the host and the software do in between.              *)
THEOREM PS2ImplementsStreams == PS2Spec => PS2IsStream
<1>1. PS2Init => KeyboardStream!Init /\ MouseStream!Init
    BY DEF PS2Init, KeyboardStream!Init, MouseStream!Init
<1> QED
    BY <1>1, KeyboardStreamStep, MouseStreamStep, PTL
       DEF PS2Spec, PS2IsStream, KeyboardStream!Spec, MouseStream!Spec

(* A key the guest takes for pressed is down, or its release came when it  *)
(* could not be sent.                                                      *)
THEOREM PS2StuckOnlyUnsent == PS2Spec => []StuckOnlyUnsent
<1>1. PS2Init => StuckOnlyUnsent
    BY DEF PS2Init, StuckOnlyUnsent
<1>2. StuckOnlyUnsent /\ [PS2Next]_ps2Vars => StuckOnlyUnsent'
  <2> SUFFICES ASSUME StuckOnlyUnsent, [PS2Next]_ps2Vars
               PROVE  StuckOnlyUnsent'
    OBVIOUS
  <2>1. ASSUME NEW k \in Keys, PressKey(k) PROVE StuckOnlyUnsent'
      BY <2>1 DEF PressKey, StuckOnlyUnsent
  <2>2. ASSUME NEW k \in Keys, ReleaseKey(k) PROVE StuckOnlyUnsent'
      BY <2>2 DEF ReleaseKey, StuckOnlyUnsent
  <2>3. CASE UNCHANGED keyVars
      BY <2>3 DEF keyVars, StuckOnlyUnsent
  <2>4. PS2Reset \/ ReadData \/ ControllerCommand \/ WriteData \/ ReleaseInput
          \/ Click \/ Move \/ UNCHANGED ps2Vars => UNCHANGED keyVars
      BY DEF PS2Reset, ReadData, ControllerCommand, WriteData, ReleaseInput,
             Click, Move, ps2Vars
  <2> QED
      BY <2>1, <2>2, <2>3, <2>4 DEF PS2Next
<1> QED
    BY <1>1, <1>2, PTL DEF PS2Spec

=============================================================================
