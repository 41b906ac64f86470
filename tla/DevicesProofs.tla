---------------------------- MODULE DevicesProofs ----------------------------
(***************************************************************************)
(* What holds of the devices with interrupts, for every set of lines,      *)
(* timers and cells and every bound: their types, that no interrupt they   *)
(* have raised is lost, and that a buffer is played once. The ports and    *)
(* the graphics are in modules of their own; their results are joined to   *)
(* these at the end.                                                       *)
(***************************************************************************)
EXTENDS Devices, PortProofs, GraphicsProofs

-----------------------------------------------------------------------------
(* Words and their parts. *)
LEMMA LaneBits == 0 \in Bits /\ 1 \in Bits /\ \A lane \in Lanes : lane \subseteq Bits
    BY DEF Bits, Low, High, Lanes

LEMMA MergedType ==
    ASSUME NEW word \in SUBSET Bits, NEW lane \in Lanes, NEW value \in SUBSET lane
    PROVE  /\ Merged(word, lane, value) \subseteq Bits
           /\ word \ Merged(word, lane, value) \subseteq lane
           /\ Merged({}, lane, value) = value
           /\ value \subseteq Bits /\ lane \subseteq Bits
    BY LaneBits DEF Merged

-----------------------------------------------------------------------------
(* The interrupt registers of the I/O controller hold interrupts, and the  *)
(* word that is kept for narrow acknowledgements holds only some that were *)
(* acknowledged.                                                           *)
ClearWasAcked == maceClear \subseteq acked

LEMMA MACEKeeps ==
    MACETypeOK /\ ClearWasAcked /\ [MACENext]_maceVars
        => MACETypeOK' /\ ClearWasAcked'
<1> SUFFICES ASSUME MACETypeOK, ClearWasAcked, [MACENext]_maceVars
             PROVE  MACETypeOK' /\ ClearWasAcked'
    OBVIOUS
<1> USE DEF MACETypeOK, ClearWasAcked
<1>1. CASE MACEReset
    BY <1>1 DEF MACEReset
<1>2. ASSUME NEW irq \in Bits, NEW asserted \in BOOLEAN,
             SetInterrupt(irq, asserted)
      PROVE  MACETypeOK' /\ ClearWasAcked'
    BY <1>2 DEF SetInterrupt
<1>3. ASSUME NEW mask \in SUBSET Bits, ClearInterrupt(mask)
      PROVE  MACETypeOK' /\ ClearWasAcked'
    BY <1>3 DEF ClearInterrupt
<1>4. ASSUME NEW lane \in Lanes, NEW value \in SUBSET lane,
             WriteIntClear(lane, value)
      PROVE  MACETypeOK' /\ ClearWasAcked'
  <2>1. Merged(maceClear, lane, value) \subseteq Bits /\ value \subseteq Bits
    BY MergedType
  <2>2. Merged(maceClear, lane, value) \subseteq acked \union value
    BY DEF Merged
  <2> QED
    BY <1>4, <2>1, <2>2 DEF WriteIntClear
<1>5. ASSUME NEW lane \in Lanes, NEW value \in SUBSET lane,
             WriteIntStatus(lane, value)
      PROVE  MACETypeOK' /\ ClearWasAcked'
    BY <1>5, MergedType DEF WriteIntStatus
<1>6. CASE UNCHANGED maceVars
    BY <1>6 DEF maceVars
<1> QED
    BY <1>1, <1>2, <1>3, <1>4, <1>5, <1>6 DEF MACENext

LEMMA MACEInvariant == MACESpec => [](MACETypeOK /\ ClearWasAcked)
<1>1. MACEInit => MACETypeOK /\ ClearWasAcked
    BY DEF MACEInit, MACETypeOK, ClearWasAcked
<1> QED
    BY <1>1, MACEKeeps, PTL DEF MACESpec

(* The controller's interrupt registers keep their types. *)
THEOREM MACETypeCorrect == MACESpec => []MACETypeOK
    BY MACEInvariant, PTL

(* An interrupt goes away only if its device lowers it, the controller is  *)
(* reset, or the software has acknowledged that very interrupt: a byte     *)
(* write repeats old acknowledgements and invents none.                    *)
THEOREM MACEInterruptsHeld == MACESpec => MACEHoldsInterrupts
<1> DEFINE Held ==
        \/ maceStatus \ maceStatus' \subseteq acked'
        \/ \E irq \in Bits : SetInterrupt(irq, FALSE)
        \/ \E mask \in SUBSET Bits : ClearInterrupt(mask)
        \/ MACEReset
<1>1. ASSUME ClearWasAcked, MACENext PROVE Held
  <2>1. ASSUME NEW irq \in Bits, NEW asserted \in BOOLEAN,
               SetInterrupt(irq, asserted)
        PROVE  Held
    <3>1. CASE asserted
      BY <2>1, <3>1 DEF SetInterrupt
    <3>2. CASE ~asserted
      BY <2>1, <3>2
    <3> QED
      BY <3>1, <3>2
  <2>2. ASSUME NEW lane \in Lanes, NEW value \in SUBSET lane,
               WriteIntClear(lane, value)
        PROVE  Held
    <3>1. Merged(maceClear, lane, value) \subseteq acked'
      BY <1>1, <2>2 DEF Merged, WriteIntClear, ClearWasAcked
    <3> QED
      BY <2>2, <3>1 DEF WriteIntClear
  <2>3. ASSUME NEW lane \in Lanes, NEW value \in SUBSET lane,
               WriteIntStatus(lane, value)
        PROVE  Held
    BY <2>3 DEF WriteIntStatus
  <2> QED
    BY <1>1, <2>1, <2>2, <2>3 DEF MACENext
<1>2. ClearWasAcked /\ [MACENext]_maceVars => [Held]_maceVars
    BY <1>1
<1> QED
    BY <1>2, MACEInvariant, PTL DEF MACESpec, MACEHoldsInterrupts

-----------------------------------------------------------------------------
(* The ISA block: each access raises interrupts or takes away the ones it  *)
(* names.                                                                  *)
LEMMA ISAWriteKeeps ==
    ASSUME ISATypeOK, NEW lane \in Lanes, NEW value \in SUBSET lane,
           \/ WriteISADma(lane, value) \/ WriteISAClear(lane, value)
           \/ WriteISAStatus(lane, value)
    PROVE  ISATypeOK' /\ [ISALatch!Next]_<<isaPending, isaNamed>>
<1> USE DEF ISATypeOK, ISALatch!Next
<1>1. CASE WriteISADma(lane, value)
    BY <1>1, LaneBits DEF WriteISADma, ISALatch!Raise
<1>2. CASE WriteISAClear(lane, value)
    BY <1>2, MergedType DEF WriteISAClear, ISALatch!Acknowledge
<1>3. CASE WriteISAStatus(lane, value)
    BY <1>3, MergedType DEF WriteISAStatus, ISALatch!Acknowledge
<1> QED
    BY <1>1, <1>2, <1>3

LEMMA ISAKeeps ==
    ISATypeOK /\ [ISANext]_isaVars
        => ISATypeOK' /\ [ISALatch!Next]_<<isaPending, isaNamed>>
<1> SUFFICES ASSUME ISATypeOK, [ISANext]_isaVars
             PROVE  ISATypeOK' /\ [ISALatch!Next]_<<isaPending, isaNamed>>
    OBVIOUS
<1>0. 0 \in 0..(ISAWord - 1)
    BY ISAAssumption
<1>1. CASE ISAReset
    BY <1>0, <1>1 DEF ISAReset, ISATypeOK, ISALatch!Next, ISALatch!Acknowledge
<1>2. CASE WriteISATimer
    BY <1>2 DEF WriteISATimer, ISATypeOK, ISALatch!Next, ISALatch!Raise
<1>3. ASSUME NEW cycles \in 1..ISAPeriod, ISATick(cycles)
      PROVE  ISATypeOK' /\ [ISALatch!Next]_<<isaPending, isaNamed>>
  <2>1. (isaCount + cycles) % ISAWord \in 0..(ISAWord - 1)
    BY ISAAssumption DEF ISATypeOK
  <2>2. isaCount' \in 0..(ISAWord - 1)
    BY <1>0, <1>3, <2>1 DEF ISATick
  <2>3. isaPending \subseteq isaPending' /\ isaPending' \subseteq Bits
    BY <1>3, LaneBits DEF ISATick, ISATypeOK
  <2> QED
    BY <1>3, <2>2, <2>3 DEF ISATick, ISATypeOK, ISALatch!Next, ISALatch!Raise
<1>4. CASE UNCHANGED isaVars
    BY <1>4 DEF isaVars, ISATypeOK
<1> QED
    BY <1>1, <1>2, <1>3, <1>4, ISAWriteKeeps DEF ISANext

(* The ISA block's registers keep their types, and its interrupts stay.    *)
THEOREM ISACorrect == ISASpec => []ISATypeOK /\ ISAHolds
<1>1. 0 \in 0..(ISAWord - 1)
    BY ISAAssumption
<1>2. ISAInit => ISATypeOK /\ ISALatch!Init
    BY <1>1 DEF ISAInit, ISATypeOK, ISALatch!Init
<1> QED
    BY <1>2, ISAKeeps, PTL DEF ISASpec, ISAHolds, ISALatch!Spec

-----------------------------------------------------------------------------
(* The Ethernet block, likewise. *)
LEMMA EthernetWriteKeeps ==
    ASSUME EthernetTypeOK, NEW lane \in Lanes, NEW value \in SUBSET lane,
           \/ WriteTxCtrl(lane, value) \/ WriteRxCtrl(lane, value)
           \/ WriteEtherClear(lane, value) \/ WriteEtherIntStatus(lane, value)
    PROVE  EthernetTypeOK' /\ [EthernetLatch!Next]_<<etherPending, etherNamed>>
<1> USE DEF EthernetTypeOK, EthernetLatch!Next
<1>1. CASE WriteTxCtrl(lane, value)
    BY <1>1, LaneBits DEF WriteTxCtrl, EthernetLatch!Raise
<1>2. CASE WriteRxCtrl(lane, value)
    BY <1>2, LaneBits DEF WriteRxCtrl, EthernetLatch!Raise
<1>3. CASE WriteEtherClear(lane, value)
    BY <1>3, MergedType DEF WriteEtherClear, EthernetLatch!Acknowledge
<1>4. CASE WriteEtherIntStatus(lane, value)
    BY <1>4, MergedType DEF WriteEtherIntStatus, EthernetLatch!Acknowledge
<1> QED
    BY <1>1, <1>2, <1>3, <1>4

LEMMA EthernetKeeps ==
    EthernetTypeOK /\ [EthernetNext]_etherVars
        => EthernetTypeOK' /\ [EthernetLatch!Next]_<<etherPending, etherNamed>>
<1> SUFFICES ASSUME EthernetTypeOK, [EthernetNext]_etherVars
             PROVE  /\ EthernetTypeOK'
                    /\ [EthernetLatch!Next]_<<etherPending, etherNamed>>
    OBVIOUS
<1>1. CASE EthernetReset
    BY <1>1 DEF EthernetReset, EthernetTypeOK, EthernetLatch!Next,
                EthernetLatch!Acknowledge
<1>2. CASE WriteEtherStatus \/ \E enabled \in BOOLEAN : SetNetworkEnabled(enabled)
    BY <1>2 DEF WriteEtherStatus, SetNetworkEnabled, EthernetTypeOK,
                EthernetLatch!Next, EthernetLatch!Raise
<1>3. CASE UNCHANGED etherVars
    BY <1>3 DEF etherVars, EthernetTypeOK
<1> QED
    BY <1>1, <1>2, <1>3, EthernetWriteKeeps DEF EthernetNext

(* The Ethernet block's registers keep their types, and its interrupts     *)
(* stay.                                                                   *)
THEOREM EthernetCorrect == EthernetSpec => []EthernetTypeOK /\ EthernetHolds
<1>1. EthernetInit => EthernetTypeOK /\ EthernetLatch!Init
    BY DEF EthernetInit, EthernetTypeOK, EthernetLatch!Init
<1> QED
    BY <1>1, EthernetKeeps, PTL DEF EthernetSpec, EthernetHolds, EthernetLatch!Spec

-----------------------------------------------------------------------------
(* The audio block, whose two directions share the registers. *)
AudioInv == AudioTypeOK /\ PlayedIsBehind

LEMMA ZeroAddress == 0 \in Addresses
    BY AudioAssumption DEF Addresses

LEMMA StartPlaybackKeeps ==
    ASSUME AudioInv, StartPlayback
    PROVE  /\ playPtr' = playEnd
           /\ audioPending \subseteq audioPending' /\ audioPending' \subseteq Bits
           /\ burst' \in BOOLEAN /\ aimed' \in BOOLEAN
    BY LaneBits DEF StartPlayback, AudioInv, AudioTypeOK

LEMMA AudioWriteKeeps ==
    ASSUME AudioInv, NEW lane \in Lanes, NEW value \in SUBSET lane,
           \/ WritePlayCtrl(lane, value) \/ WriteRecCtrl(lane, value)
           \/ WriteAudioClear(lane, value) \/ WriteAudioStatus(lane, value)
    PROVE  AudioInv' /\ [AudioLatch!Next]_<<audioPending, audioNamed>>
<1> USE DEF AudioInv, AudioTypeOK, PlayedIsBehind, AudioLatch!Next
<1>1. CASE WritePlayCtrl(lane, value)
  <2>1. CASE 0 \in playCtrl'
    BY <1>1, <2>1, StartPlaybackKeeps DEF WritePlayCtrl, AudioLatch!Raise
  <2>2. CASE 0 \notin playCtrl'
    BY <1>1, <2>2 DEF WritePlayCtrl, AudioLatch!Raise
  <2> QED
    BY <2>1, <2>2
<1>2. CASE WriteRecCtrl(lane, value)
    BY <1>2, LaneBits DEF WriteRecCtrl, playVars, AudioLatch!Raise
<1>3. CASE WriteAudioClear(lane, value)
    BY <1>3, MergedType DEF WriteAudioClear, playVars, AudioLatch!Acknowledge
<1>4. CASE WriteAudioStatus(lane, value)
    BY <1>4, MergedType DEF WriteAudioStatus, playVars, AudioLatch!Acknowledge
<1> QED
    BY <1>1, <1>2, <1>3, <1>4

LEMMA AudioAimKeeps ==
    ASSUME AudioInv, NEW a \in Addresses,
           WritePlayBase(a) \/ WritePlayPtr(a) \/ WritePlayEnd(a),
           audioNamed' = {}, UNCHANGED <<recCtrl, audioPending>>
    PROVE  AudioInv' /\ [AudioLatch!Next]_<<audioPending, audioNamed>>
    BY DEF AudioInv, AudioTypeOK, PlayedIsBehind, AudioLatch!Next,
           AudioLatch!Raise, WritePlayBase, WritePlayPtr, WritePlayEnd

LEMMA AudioKeeps ==
    AudioInv /\ [AudioNext]_audioVars
        => AudioInv' /\ [AudioLatch!Next]_<<audioPending, audioNamed>>
<1> SUFFICES ASSUME AudioInv, [AudioNext]_audioVars
             PROVE  AudioInv' /\ [AudioLatch!Next]_<<audioPending, audioNamed>>
    OBVIOUS
<1> USE DEF AudioInv, AudioTypeOK, PlayedIsBehind
<1>1. CASE AudioReset
    BY <1>1, ZeroAddress DEF AudioReset, AudioLatch!Next, AudioLatch!Acknowledge
<1>2. CASE AudioTick
    BY <1>2, StartPlaybackKeeps DEF AudioTick, AudioLatch!Next, AudioLatch!Raise
<1>3. CASE UNCHANGED audioVars
    BY <1>3 DEF audioVars, playVars
<1> QED
    BY <1>1, <1>2, <1>3, AudioWriteKeeps, AudioAimKeeps DEF AudioNext

LEMMA AudioInvariant == AudioSpec => []AudioInv
<1>1. AudioInit => AudioInv
    BY ZeroAddress DEF AudioInit, AudioInv, AudioTypeOK, PlayedIsBehind
<1> QED
    BY <1>1, AudioKeeps, PTL DEF AudioSpec

(* The audio block's registers keep their types, and its interrupts stay.  *)
THEOREM AudioCorrect == AudioSpec => []AudioTypeOK /\ AudioHolds
<1>1. AudioInit => AudioLatch!Init
    BY DEF AudioInit, AudioLatch!Init
<1>2. AudioInv => AudioTypeOK
    BY DEF AudioInv
<1> QED
    BY <1>1, <1>2, AudioInvariant, AudioKeeps, PTL
       DEF AudioSpec, AudioHolds, AudioLatch!Spec

(* A buffer is played once: as what was played is behind the pointer until *)
(* the software moves it or the end, no start and no tick plays it again.  *)
THEOREM AudioPlayedOnce == AudioSpec => PlayedOnce
<1>1. ASSUME AudioInv, AudioNext PROVE burst' # burst => aimed
  <2> SUFFICES ASSUME burst' # burst PROVE aimed
    OBVIOUS
  <2>1. ASSUME StartPlayback PROVE aimed
    <3>1. playPtr < playEnd
      BY <2>1 DEF StartPlayback
    <3>2. playPtr \in Int /\ playEnd \in Int
      BY <1>1, AudioAssumption DEF AudioInv, AudioTypeOK, Addresses
    <3>3. playPtr # playEnd
      BY <3>1, <3>2
    <3> QED
      BY <1>1, <3>3 DEF AudioInv, PlayedIsBehind
  <2>2. StartPlayback
    BY <1>1 DEF AudioNext, AudioReset, AudioTick, WritePlayBase, WritePlayPtr,
       WritePlayEnd, WritePlayCtrl, WriteRecCtrl, WriteAudioClear,
       WriteAudioStatus, playVars
  <2> QED
    BY <2>1, <2>2
<1>2. AudioInv /\ [AudioNext]_audioVars => [burst' # burst => aimed]_audioVars
    BY <1>1
<1> QED
    BY <1>2, AudioInvariant, PTL DEF AudioSpec, PlayedOnce

-----------------------------------------------------------------------------
(* The imaging engine. *)
LEMMA ICEKeeps ==
    ICETypeOK /\ [ICENext]_iceVars
        => ICETypeOK' /\ [ICELatch!Next]_<<icePending, iceNamed>>
<1> SUFFICES ASSUME ICETypeOK, [ICENext]_iceVars
             PROVE  ICETypeOK' /\ [ICELatch!Next]_<<icePending, iceNamed>>
    OBVIOUS
<1> USE DEF ICETypeOK, ICELatch!Next
<1>1. CASE ICEReset
    BY <1>1 DEF ICEReset, ICELatch!Acknowledge
<1>2. CASE WriteSwInt
    BY <1>2, LaneBits DEF WriteSwInt, ICELatch!Raise
<1>3. ASSUME NEW lane \in Lanes, NEW value \in SUBSET lane,
             WriteIntReset(lane, value)
      PROVE  ICETypeOK' /\ [ICELatch!Next]_<<icePending, iceNamed>>
    BY <1>3, MergedType DEF WriteIntReset, ICELatch!Acknowledge
<1>4. ASSUME NEW lane \in Lanes, NEW value \in SUBSET lane,
             WriteIntEn(lane, value)
      PROVE  ICETypeOK' /\ [ICELatch!Next]_<<icePending, iceNamed>>
    BY <1>4, MergedType DEF WriteIntEn, ICELatch!Raise
<1>5. CASE UNCHANGED iceVars
    BY <1>5 DEF iceVars
<1> QED
    BY <1>1, <1>2, <1>3, <1>4, <1>5 DEF ICENext

(* The engine's registers keep their types, and its interrupt stays.       *)
THEOREM ICECorrect == ICESpec => []ICETypeOK /\ ICEHolds
<1>1. ICEInit => ICETypeOK /\ ICELatch!Init
    BY DEF ICEInit, ICETypeOK, ICELatch!Init
<1> QED
    BY <1>1, ICEKeeps, PTL DEF ICESpec, ICEHolds, ICELatch!Spec

-----------------------------------------------------------------------------
(* The SCSI controller: two registers and one acknowledgement of both.     *)
LEMMA SCSIKeeps ==
    SCSITypeOK /\ [SCSINext]_scsiVars
        => /\ SCSITypeOK'
           /\ [SequencerLatch!Next]_<<seqInt, scsiNamed>>
           /\ [CommandLatch!Next]_<<scsiInt, scsiNamed>>
<1> SUFFICES ASSUME SCSITypeOK, [SCSINext]_scsiVars
             PROVE  /\ SCSITypeOK'
                    /\ [SequencerLatch!Next]_<<seqInt, scsiNamed>>
                    /\ [CommandLatch!Next]_<<scsiInt, scsiNamed>>
    OBVIOUS
<1> USE DEF SCSITypeOK, SequencerLatch!Next, CommandLatch!Next,
            SequencerLatch!Raise, CommandLatch!Raise,
            SequencerLatch!Acknowledge, CommandLatch!Acknowledge
<1>1. CASE SCSIReset
    BY <1>1 DEF SCSIReset
<1>2. CASE StartSequencer
    BY <1>2 DEF StartSequencer, Flags
<1>3. CASE ExecuteScb
    BY <1>3 DEF ExecuteScb, Flags
<1>4. ASSUME NEW value \in SUBSET Flags, WriteClrInt(value)
      PROVE  /\ SCSITypeOK'
             /\ [SequencerLatch!Next]_<<seqInt, scsiNamed>>
             /\ [CommandLatch!Next]_<<scsiInt, scsiNamed>>
    BY <1>4 DEF WriteClrInt
<1>5. ASSUME NEW value \in SUBSET Flags, WriteIntRegister(value)
      PROVE  /\ SCSITypeOK'
             /\ [SequencerLatch!Next]_<<seqInt, scsiNamed>>
             /\ [CommandLatch!Next]_<<scsiInt, scsiNamed>>
    BY <1>5 DEF WriteIntRegister
<1>6. ASSUME NEW slot \in Slots, AttachDevice(slot)
      PROVE  /\ SCSITypeOK'
             /\ [SequencerLatch!Next]_<<seqInt, scsiNamed>>
             /\ [CommandLatch!Next]_<<scsiInt, scsiNamed>>
    BY <1>6 DEF AttachDevice
<1>7. CASE UNCHANGED scsiVars
    BY <1>7 DEF scsiVars
<1> QED
    BY <1>1, <1>2, <1>3, <1>4, <1>5, <1>6, <1>7 DEF SCSINext

(* The SCSI controller's registers keep their types, and completions stay. *)
THEOREM SCSICorrect == SCSISpec => []SCSITypeOK /\ SCSIHolds
<1>1. SCSIInit => SCSITypeOK /\ SequencerLatch!Init /\ CommandLatch!Init
    BY DEF SCSIInit, SCSITypeOK, SequencerLatch!Init, CommandLatch!Init
<1> QED
    BY <1>1, SCSIKeeps, PTL
       DEF SCSISpec, SCSIHolds, SequencerLatch!Spec, CommandLatch!Spec

-----------------------------------------------------------------------------
(* The memory controller. *)
LEMMA CRIMEKeeps ==
    CRIMETypeOK /\ [CRIMENext]_crimeVars
        => CRIMETypeOK' /\ [CRIMELatch!Next]_<<intstat, crimeNamed>>
<1> SUFFICES ASSUME CRIMETypeOK, [CRIMENext]_crimeVars
             PROVE  CRIMETypeOK' /\ [CRIMELatch!Next]_<<intstat, crimeNamed>>
    OBVIOUS
<1> USE DEF CRIMETypeOK, CRIMELatch!Next
<1>0. 0 \in 0..CRIMEBound
    BY CRIMEAssumption
<1>1. CASE CRIMEReset
    BY <1>0, <1>1 DEF CRIMEReset, CRIMELatch!Acknowledge
<1>2. ASSUME NEW value \in SUBSET CRIMEInterrupts,
             WriteSoftInt(value) \/ WriteIntStat(value)
      PROVE  CRIMETypeOK' /\ [CRIMELatch!Next]_<<intstat, crimeNamed>>
    BY <1>2 DEF WriteSoftInt, WriteIntStat, CRIMELatch!Acknowledge
<1>3. ASSUME NEW value \in SUBSET DmaBits, WriteDmaCtrl(value)
      PROVE  CRIMETypeOK' /\ [CRIMELatch!Next]_<<intstat, crimeNamed>>
    BY <1>3 DEF WriteDmaCtrl, CRIMEInterrupts, CRIMELatch!Raise
<1>4. CASE WriteTimer
    BY <1>4 DEF WriteTimer, CRIMELatch!Raise
<1>5. ASSUME NEW cycles \in 1..CRIMEBound, TickTimer(cycles)
      PROVE  CRIMETypeOK' /\ [CRIMELatch!Next]_<<intstat, crimeNamed>>
  <2>1. timerCount' \in 0..CRIMEBound
    BY <1>0, <1>5, CRIMEAssumption DEF TickTimer
  <2>2. intstat \subseteq intstat' /\ intstat' \subseteq CRIMEInterrupts
    BY <1>5 DEF TickTimer, CRIMEInterrupts
  <2>3. timerCtrl' \subseteq TimerBits
    BY <1>5 DEF TickTimer
  <2> QED
    BY <1>5, <2>1, <2>2, <2>3 DEF TickTimer, CRIMELatch!Raise
<1>6. CASE UNCHANGED crimeVars
    BY <1>6 DEF crimeVars
<1> QED
    BY <1>1, <1>2, <1>3, <1>4, <1>5, <1>6 DEF CRIMENext

(* The controller's registers keep their types, and its interrupts stay.   *)
THEOREM CRIMECorrect == CRIMESpec => []CRIMETypeOK /\ CRIMEHolds
<1>1. 0 \in 0..CRIMEBound
    BY CRIMEAssumption
<1>2. CRIMEInit => CRIMETypeOK /\ CRIMELatch!Init
    BY <1>1 DEF CRIMEInit, CRIMETypeOK, CRIMELatch!Init
<1> QED
    BY <1>2, CRIMEKeeps, PTL DEF CRIMESpec, CRIMEHolds, CRIMELatch!Spec

-----------------------------------------------------------------------------
(* The clock: what it shows is what was raised and is enabled. *)
LEMMA TimedType ==
    /\ \A old \in [Cells -> Contents] : Timed(old) \in [Cells -> Contents]
    /\ Timed([c \in Cells |-> "zero"]) \in [Cells -> Contents]
    BY DEF Timed, Contents

LEMMA RTCKeeps ==
    RTCTypeOK /\ [RTCNext]_rtcVars
        => RTCTypeOK' /\ [RTCLatch!Next]_<<rtcFlags \intersect rtcEnabled, rtcNamed>>
<1> SUFFICES ASSUME RTCTypeOK, [RTCNext]_rtcVars
             PROVE  /\ RTCTypeOK'
                    /\ [RTCLatch!Next]_<<rtcFlags \intersect rtcEnabled, rtcNamed>>
    OBVIOUS
<1> USE DEF RTCTypeOK, RTCLatch!Next
<1>1. CASE RTCReset
    BY <1>1, TimedType DEF RTCReset, RTCLatch!Acknowledge
<1>2. CASE TickRTC
  <2>1. elapsed' \in 0..(Second - 1)
    BY <1>2, RTCAssumption DEF TickRTC
  <2>2. cmos' \in [Cells -> Contents]
    BY <1>2, TimedType DEF TickRTC
  <2>3. rtcFlags \subseteq rtcFlags' /\ rtcFlags' \subseteq RTCFlags
    BY <1>2 DEF TickRTC
  <2> QED
    BY <1>2, <2>1, <2>2, <2>3 DEF TickRTC, RTCLatch!Raise
<1>3. ASSUME NEW enabled \in SUBSET RTCFlags, WriteRegB(enabled)
      PROVE  /\ RTCTypeOK'
             /\ [RTCLatch!Next]_<<rtcFlags \intersect rtcEnabled, rtcNamed>>
    BY <1>3 DEF WriteRegB, RTCLatch!Acknowledge
<1>4. ASSUME NEW c \in Cells, WriteCmos(c)
      PROVE  /\ RTCTypeOK'
             /\ [RTCLatch!Next]_<<rtcFlags \intersect rtcEnabled, rtcNamed>>
    BY <1>4 DEF WriteCmos, Contents, RTCLatch!Raise
<1>5. CASE UNCHANGED rtcVars
    BY <1>5 DEF rtcVars
<1> QED
    BY <1>1, <1>2, <1>3, <1>4, <1>5 DEF RTCNext

(* The clock's registers keep their types, and what it shows stays until   *)
(* the enabling register is written.                                       *)
THEOREM RTCCorrect == RTCSpec => []RTCTypeOK /\ RTCHolds
<1>1. 0 \in 0..(Second - 1)
    BY RTCAssumption
<1>2. RTCInit => RTCTypeOK /\ RTCLatch!Init
    BY <1>1, TimedType DEF RTCInit, RTCTypeOK, RTCLatch!Init
<1> QED
    BY <1>2, RTCKeeps, PTL DEF RTCSpec, RTCHolds, RTCLatch!Spec

-----------------------------------------------------------------------------
(* The coprocessor's view. *)
LEMMA CP0Keeps ==
    CP0TypeOK /\ [CP0Next]_cpVars
        => CP0TypeOK' /\ [CP0Latch!Next]_<<cpPending, cpNamed>>
<1> SUFFICES ASSUME CP0TypeOK, [CP0Next]_cpVars
             PROVE  CP0TypeOK' /\ [CP0Latch!Next]_<<cpPending, cpNamed>>
    OBVIOUS
<1> USE DEF CP0TypeOK, CP0Latch!Next
<1>1. CASE CP0Reset
    BY <1>1, PcsAssumption DEF CP0Reset, CP0Latch!Acknowledge
<1>2. ASSUME NEW flags \in SUBSET StatusFlags, WriteStatus(flags)
      PROVE  CP0TypeOK' /\ [CP0Latch!Next]_<<cpPending, cpNamed>>
    BY <1>2 DEF WriteStatus, CP0Latch!Raise
<1>3. ASSUME NEW a \in Pcs, WriteEpc(a)
      PROVE  CP0TypeOK' /\ [CP0Latch!Next]_<<cpPending, cpNamed>>
    BY <1>3 DEF WriteEpc, CP0Latch!Raise
<1>4. ASSUME NEW lines \in SUBSET Lines, WriteCause(lines) \/ SetCause(lines)
      PROVE  CP0TypeOK' /\ [CP0Latch!Next]_<<cpPending, cpNamed>>
    BY <1>4 DEF WriteCause, SetCause, Lines, CP0Latch!Acknowledge
<1>5. CASE TickCount
    BY <1>5 DEF TickCount, Lines, CP0Latch!Raise
<1>6. CASE Exception \/ Rfe \/ Eret \/ Advance
    BY <1>6 DEF Exception, Rfe, Eret, Advance, Vectors, StatusFlags,
                CP0Latch!Raise
<1>7. CASE UNCHANGED cpVars
    BY <1>7 DEF cpVars
<1> QED
    BY <1>1, <1>2, <1>3, <1>4, <1>5, <1>6, <1>7 DEF CP0Next

(* The coprocessor's registers keep their types, and a pending interrupt   *)
(* stays until its own bit is written.                                     *)
THEOREM CP0Correct == CP0Spec => []CP0TypeOK /\ CP0Holds
<1>1. CP0Init => CP0TypeOK /\ CP0Latch!Init
    BY PcsAssumption DEF CP0Init, CP0TypeOK, CP0Latch!Init
<1> QED
    BY <1>1, CP0Keeps, PTL DEF CP0Spec, CP0Holds, CP0Latch!Spec

-----------------------------------------------------------------------------
(* The system timers. A step changes one of them, or resets all. *)
LEMMA UnusedType ==
    ASSUME NEW clocked \in BOOLEAN
    PROVE  /\ Unused \in TimerStates /\ ~Unused.pending
           /\ [Unused EXCEPT !.clocked = clocked] \in TimerStates
           /\ ~[Unused EXCEPT !.clocked = clocked].pending
<1>1. 0 \in Counts
    BY TimerAssumption DEF Counts
<1> QED
    BY <1>1 DEF Unused, TimerStates

Raised == {t \in TimerIds : timers[t].pending}

LEMMA OneTimerKeeps ==
    ASSUME TimerTypeOK, NEW t \in TimerIds, NEW state \in TimerStates,
           timers' = [timers EXCEPT ![t] = state],
           \/ timerNamed' = {t}
           \/ timerNamed' = {} /\ (timers[t].pending => state.pending)
    PROVE  TimerTypeOK' /\ [TimerLatch!Next]_<<Raised, timerNamed>>
<1> USE DEF TimerTypeOK, Raised
<1>1. TimerTypeOK'
    BY DEF TimerTypeOK
<1>2. Raised' \subseteq TimerIds /\ timerNamed' \subseteq TimerIds
    OBVIOUS
<1>3. Raised \ {t} \subseteq Raised'
    OBVIOUS
<1>4. CASE timerNamed' = {t}
    BY <1>1, <1>2, <1>3, <1>4 DEF TimerLatch!Next, TimerLatch!Acknowledge
<1>5. CASE timerNamed' = {} /\ (timers[t].pending => state.pending)
    BY <1>1, <1>2, <1>3, <1>5 DEF TimerLatch!Next, TimerLatch!Raise
<1> QED
    BY <1>4, <1>5

LEMMA TimerActionKeeps ==
    ASSUME TimerTypeOK, NEW t \in TimerIds,
           \/ \E clocked \in BOOLEAN : InitTimer(t, clocked)
           \/ StartTimer(t) \/ StopTimer(t) \/ ClearTimer(t)
           \/ \E n \in Counts : SetCompare(t, n)
           \/ \E cycles \in 1..TimerBound : TickTimerOf(t, cycles)
    PROVE  TimerTypeOK' /\ [TimerLatch!Next]_<<Raised, timerNamed>>
<1> DEFINE old == timers[t]
<1>1. old \in TimerStates
    BY DEF TimerTypeOK
<1>2. 0 \in Counts
    BY TimerAssumption DEF Counts
<1>3. CASE \E clocked \in BOOLEAN : InitTimer(t, clocked)
    BY <1>3, OneTimerKeeps, UnusedType DEF InitTimer
<1>4. CASE StartTimer(t)
  <2> DEFINE new == [old EXCEPT !.running = TRUE, !.counter = 0]
  <2>1. new \in TimerStates /\ (old.pending => new.pending)
    BY <1>1, <1>2 DEF TimerStates
  <2>2. timers' = [timers EXCEPT ![t] = new] /\ timerNamed' = {}
    BY <1>4 DEF StartTimer, TimerTypeOK
  <2> QED
    BY <2>1, <2>2, OneTimerKeeps
<1>5. CASE StopTimer(t)
  <2> DEFINE new == [old EXCEPT !.running = FALSE]
  <2>1. new \in TimerStates /\ (old.pending => new.pending)
    BY <1>1 DEF TimerStates
  <2>2. timers' = [timers EXCEPT ![t] = new] /\ timerNamed' = {}
    BY <1>5 DEF StopTimer, TimerTypeOK
  <2> QED
    BY <2>1, <2>2, OneTimerKeeps
<1>6. CASE ClearTimer(t)
  <2> DEFINE new == [old EXCEPT !.pending = FALSE]
  <2>1. new \in TimerStates
    BY <1>1 DEF TimerStates
  <2>2. timers' = [timers EXCEPT ![t] = new] /\ timerNamed' = {t}
    BY <1>6 DEF ClearTimer, TimerTypeOK
  <2> QED
    BY <2>1, <2>2, OneTimerKeeps
<1>7. ASSUME NEW n \in Counts, SetCompare(t, n)
      PROVE  TimerTypeOK' /\ [TimerLatch!Next]_<<Raised, timerNamed>>
  <2> DEFINE new == [old EXCEPT !.compare = n]
  <2>1. new \in TimerStates /\ (old.pending => new.pending)
    BY <1>1 DEF TimerStates
  <2>2. timers' = [timers EXCEPT ![t] = new] /\ timerNamed' = {}
    BY <1>7 DEF SetCompare, TimerTypeOK
  <2> QED
    BY <2>1, <2>2, OneTimerKeeps
<1>8. ASSUME NEW cycles \in 1..TimerBound, TickTimerOf(t, cycles)
      PROVE  TimerTypeOK' /\ [TimerLatch!Next]_<<Raised, timerNamed>>
  <2> DEFINE count == old.counter + cycles
             new == [old EXCEPT !.counter = count,
                                !.pending = @ \/ count >= old.compare]
  <2>1. count \in Counts
    BY <1>1, <1>8, TimerAssumption DEF TickTimerOf, Counts, TimerStates
  <2> HIDE DEF count
  <2>2. new \in TimerStates /\ (old.pending => new.pending)
    BY <1>1, <2>1 DEF TimerStates
  <2>3. timers' = [timers EXCEPT ![t] = new] /\ timerNamed' = {}
    BY <1>8 DEF TickTimerOf, TimerTypeOK, count
  <2> QED
    BY <2>2, <2>3, OneTimerKeeps
<1> QED
    BY <1>3, <1>4, <1>5, <1>6, <1>7, <1>8

LEMMA TimerKeeps ==
    TimerTypeOK /\ [TimerNext]_timerVars
        => TimerTypeOK' /\ [TimerLatch!Next]_<<Raised, timerNamed>>
<1> SUFFICES ASSUME TimerTypeOK, [TimerNext]_timerVars
             PROVE  TimerTypeOK' /\ [TimerLatch!Next]_<<Raised, timerNamed>>
    OBVIOUS
<1>1. CASE TimerReset
  <2>1. timers' \in [TimerIds -> TimerStates] /\ Raised' = {}
    BY <1>1, UnusedType DEF TimerReset, Raised
  <2> QED
    BY <1>1, <2>1 DEF TimerReset, TimerTypeOK, Raised, TimerLatch!Next,
                      TimerLatch!Acknowledge
<1>2. CASE UNCHANGED timerVars
    BY <1>2 DEF timerVars, TimerTypeOK, Raised
<1> QED
    BY <1>1, <1>2, TimerActionKeeps DEF TimerNext

(* The timers keep their types, and a timer's interrupt stays until that   *)
(* timer is cleared or set up anew.                                        *)
THEOREM TimerCorrect == TimerSpec => []TimerTypeOK /\ TimerHolds
<1>1. TimerInit => TimerTypeOK /\ TimerLatch!Init
    BY UnusedType DEF TimerInit, TimerTypeOK, TimerLatch!Init
<1>2. TimerTypeOK /\ [TimerNext]_timerVars
        => TimerTypeOK' /\ [TimerLatch!Next]_<<{t \in TimerIds : timers[t].pending}, timerNamed>>
    BY TimerKeeps DEF Raised
<1> QED
    BY <1>1, <1>2, PTL DEF TimerSpec, TimerHolds, TimerLatch!Spec

-----------------------------------------------------------------------------
(* The interrupt controller. *)
LEMMA InterruptsKeeps ==
    InterruptsTypeOK /\ [InterruptsNext]_linesVars
        => InterruptsTypeOK' /\ [LinesLatch!Next]_<<linesPending, linesNamed>>
<1> SUFFICES ASSUME InterruptsTypeOK, [InterruptsNext]_linesVars
             PROVE  /\ InterruptsTypeOK'
                    /\ [LinesLatch!Next]_<<linesPending, linesNamed>>
    OBVIOUS
<1> USE DEF InterruptsTypeOK, LinesLatch!Next
<1>1. CASE InterruptsReset
    BY <1>1 DEF InterruptsReset, LinesLatch!Acknowledge
<1>2. CASE Process \/ CallHandler
    BY <1>2 DEF Process, CallHandler, LinesLatch!Raise
<1>3. ASSUME NEW l \in IrqLines,
             \/ RaiseLine(l) \/ ClearLine(l)
             \/ \E given \in BOOLEAN : SetHandler(l, given)
      PROVE  /\ InterruptsTypeOK'
             /\ [LinesLatch!Next]_<<linesPending, linesNamed>>
  <2>1. CASE RaiseLine(l)
    BY <2>1 DEF RaiseLine, LinesLatch!Raise
  <2>2. CASE ClearLine(l)
    BY <2>2 DEF ClearLine, LinesLatch!Acknowledge
  <2>3. CASE \E given \in BOOLEAN : SetHandler(l, given)
    BY <2>3 DEF SetHandler, LinesLatch!Raise
  <2> QED
    BY <1>3, <2>1, <2>2, <2>3
<1>4. CASE UNCHANGED linesVars
    BY <1>4 DEF linesVars
<1> QED
    BY <1>1, <1>2, <1>3, <1>4 DEF InterruptsNext

(* The controller's sets keep their types, and a line stays raised until   *)
(* it is cleared, whatever handlers are called.                            *)
THEOREM InterruptsCorrect == InterruptsSpec => []InterruptsTypeOK /\ LinesHold
<1>1. InterruptsInit => InterruptsTypeOK /\ LinesLatch!Init
    BY DEF InterruptsInit, InterruptsTypeOK, LinesLatch!Init
<1> QED
    BY <1>1, InterruptsKeeps, PTL DEF InterruptsSpec, LinesHold, LinesLatch!Spec

-----------------------------------------------------------------------------
(* Each mode of the table can be shown and has the rate of its name.       *)
LEMMA ModesTimed ==
    \A i \in DOMAIN Modes :
       LET m == Modes[i]
       IN  /\ \A t \in {m.line, m.frame} :
                 t.display <= t.start /\ t.start < t.end /\ t.end <= t.total
           /\ (m.khz * 1000) \div (m.line.total * m.frame.total)
                \in {m.hz - 1, m.hz}
<1> SUFFICES ASSUME NEW i \in 1..10
             PROVE  LET m == Modes[i]
                    IN  /\ \A t \in {m.line, m.frame} :
                             /\ t.display <= t.start
                             /\ t.start < t.end /\ t.end <= t.total
                        /\ (m.khz * 1000) \div (m.line.total * m.frame.total)
                             \in {m.hz - 1, m.hz}
    BY DEF Modes
<1> QED
    BY SMTT(30) DEF Modes, Mode

(* Its size and its rate together are those of no other mode.              *)
LEMMA ModesDiffer ==
    /\ DOMAIN Modes = 1..10
    /\ \A i \in 1..10 : Modes[i].size = <<Modes[i].size[1], Modes[i].size[2]>>
    /\ \A i, j \in 1..10 :
         Modes[i].size = Modes[j].size /\ Modes[i].hz = Modes[j].hz => i = j
    BY SMTT(30) DEF Modes, Mode

(* The first five modes differ in size, and the others repeat them.        *)
LEMMA SizesRepeat ==
    /\ \A i, j \in 1..5 : Modes[i].size = Modes[j].size => i = j
    /\ \A i \in 6..10 : Modes[i].size = Modes[i - 5].size
    BY SMTT(30) DEF Modes, Mode

(* The searches find the first mode that fits.                             *)
LEMMA SearchesFind ==
    ASSUME NEW i \in DOMAIN Modes
    PROVE  LET w == Modes[i].size[1]
               h == Modes[i].size[2]
           IN  /\ EngineModeNamed(w, h, Modes[i].hz) = i
               /\ BufferModeNamed(w, h, Modes[i].hz) = i
               /\ BufferModeOfSize(w, h, Modes[i].hz) = i
               /\ EngineModeOfSize(w, h, Modes[i].hz) <= i
<1> DEFINE w == Modes[i].size[1]
           h == Modes[i].size[2]
           hz == Modes[i].hz
           Named(m) == m.size = <<w, h>> /\ m.hz = hz
           OfSize(m) == m.size = <<w, h>>
           NamedFirst(j) ==
               Named(Modes[j]) /\ \A k \in 1..(j - 1) : ~Named(Modes[k])
           OfSizeFirst(j) ==
               OfSize(Modes[j]) /\ \A k \in 1..(j - 1) : ~OfSize(Modes[k])
<1>1. \A j \in DOMAIN Modes : Named(Modes[j]) <=> j = i
    BY ModesDiffer
<1>2. OfSize(Modes[i]) /\ i \in 1..10
    BY ModesDiffer
<1>3. NamedFirst(i) /\ \A j \in DOMAIN Modes : NamedFirst(j) => j = i
  <2>1. 1..(i - 1) \subseteq DOMAIN Modes \ {i}
    BY ModesDiffer
  <2> QED
    BY <1>1, <2>1
<1>4. (IF \E j \in DOMAIN Modes : Named(Modes[j])
       THEN CHOOSE j \in DOMAIN Modes :
              Named(Modes[j]) /\ \A k \in 1..(j - 1) : ~Named(Modes[k])
       ELSE NoMode) = i
  <2>1. \E j \in DOMAIN Modes : Named(Modes[j])
    BY <1>1
  <2>2. (CHOOSE j \in DOMAIN Modes : NamedFirst(j)) = i
    BY <1>3
  <2> QED
    BY <2>1, <2>2
<1>5. EngineModeNamed(w, h, hz) = i
    BY <1>4 DEF EngineModeNamed, FirstMode
<1>6. BufferModeNamed(w, h, hz) = i
    BY <1>4 DEF BufferModeNamed, FirstMode
<1>7. BufferModeOfSize(w, h, hz) = i
    BY <1>4 DEF BufferModeOfSize, FirstMode
<1>8. \E j \in DOMAIN Modes : OfSizeFirst(j)
  <2> DEFINE first == IF i <= 5 THEN i ELSE i - 5
  <2>1. first \in 1..5 /\ OfSize(Modes[first])
    BY <1>2, SizesRepeat
  <2>2. \A k \in 1..(first - 1) : k \in 1..5 /\ ~OfSize(Modes[k])
    BY <2>1, SizesRepeat
  <2> QED
    BY <2>1, <2>2, ModesDiffer
<1>9. (IF \E j \in DOMAIN Modes : OfSize(Modes[j])
       THEN CHOOSE j \in DOMAIN Modes :
              OfSize(Modes[j]) /\ \A k \in 1..(j - 1) : ~OfSize(Modes[k])
       ELSE NoMode) <= i
  <2>1. \E j \in DOMAIN Modes : OfSize(Modes[j])
    BY <1>2
  <2> DEFINE c == CHOOSE j \in DOMAIN Modes : OfSizeFirst(j)
  <2>2. c \in DOMAIN Modes /\ OfSizeFirst(c)
    BY <1>8
  <2> HIDE DEF c
  <2>3. c <= i
    <3>1. ASSUME i < c PROVE FALSE
      <4>1. i \in 1..(c - 1)
        BY <1>2, <2>2, <3>1, ModesDiffer
      <4> QED
        BY <1>2, <2>2, <4>1
    <3> QED
      BY <1>2, <2>2, <3>1, ModesDiffer
  <2> QED
    BY <2>1, <2>3 DEF c
<1>10. EngineModeOfSize(w, h, hz) <= i
    BY <1>9 DEF EngineModeOfSize, FirstMode
<1> QED
    BY <1>5, <1>6, <1>7, <1>10

(* A mode the display engine is set to can be shown by a monitor, and the  *)
(* searches of both tables that name it find it.                           *)
THEOREM EngineModesHonest == EngineSpec => []ModesHonest
<1>1. EngineTypeOK => ModesHonest
    BY ModesTimed, SearchesFind DEF EngineTypeOK, ModesHonest
<1> QED
    BY <1>1, EngineTypeCorrect, PTL

-----------------------------------------------------------------------------
(* All devices keep their types. *)
THEOREM DevicesTypeCorrect == DevicesSpec => []DevicesTypeOK
    BY UARTTypeCorrect, PS2TypeCorrect, MACETypeCorrect, ISACorrect,
       EthernetCorrect, AudioCorrect, ICECorrect, SCSICorrect, CRIMECorrect,
       RTCCorrect, CP0Correct, TimerCorrect, InterruptsCorrect,
       DisplayTypeCorrect, MicroTypeCorrect, EngineTypeCorrect,
       FramebufferTypeCorrect, PTL
       DEF DevicesSpec, DevicesTypeOK

(* No device loses an interrupt: what it has raised stays until the        *)
(* software names that interrupt or the device is reset.                   *)
THEOREM DevicesHoldInterrupts == DevicesSpec => InterruptsHeld
    BY ISACorrect, EthernetCorrect, AudioCorrect, ICECorrect, SCSICorrect,
       CRIMECorrect, RTCCorrect, CP0Correct, TimerCorrect, InterruptsCorrect
       DEF DevicesSpec, InterruptsHeld
=============================================================================
