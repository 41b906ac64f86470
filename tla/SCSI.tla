-------------------------------- MODULE SCSI --------------------------------
(***************************************************************************)
(* The SCSI controller (devices/scsicontroller.cpp): the sequencer, the    *)
(* command blocks and the script memory's window complete what they are    *)
(* told without doing it. The other registers only hold what is written.   *)
(* An access of any width writes a whole register.                         *)
(***************************************************************************)
EXTENDS Naturals

CONSTANTS Slots  \* Pairs of a target and a unit that attach_device accepts.

Flags == {0, 1}  \* Bits of the interrupt registers; only 0 is ever raised.

VARIABLES
    seqInt, scsiInt, intStat,  \* regs_[REG_SEQINT], _SCSIINT, _INTSTAT
    present,    \* The slots whose device is present.
    scsiNamed   \* Auxiliary: the flags the last access named.

scsiVars == <<seqInt, scsiInt, intStat, present, scsiNamed>>

SCSITypeOK ==
    /\ seqInt \subseteq Flags /\ scsiInt \subseteq Flags
    /\ intStat \subseteq Flags /\ scsiNamed \subseteq Flags
    /\ present \subseteq Slots

SCSIInit ==
    /\ seqInt = {} /\ scsiInt = {} /\ intStat = {}
    /\ present = {} /\ scsiNamed = {}

(* reset, also by write_reg of REG_GCTRL: the devices stay attached. *)
SCSIReset ==
    /\ seqInt' = {} /\ scsiInt' = {} /\ intStat' = {}
    /\ scsiNamed' = Flags
    /\ UNCHANGED present

(* write_reg of REG_SEQCTL, and start_sequencer. *)
StartSequencer ==
    /\ seqInt' = seqInt \union {0}
    /\ scsiNamed' = {}
    /\ UNCHANGED <<scsiInt, intStat, present>>

(* write_reg of REG_SCBCTL, and execute_scb: it succeeds whether a device  *)
(* is there or not.                                                        *)
ExecuteScb ==
    /\ scsiInt' = scsiInt \union {0}
    /\ scsiNamed' = {}
    /\ UNCHANGED <<seqInt, intStat, present>>

(* write_reg of REG_CLRINT. *)
WriteClrInt(value) ==
    /\ intStat' = intStat \ value
    /\ seqInt' = seqInt \ value
    /\ scsiInt' = scsiInt \ value
    /\ scsiNamed' = value
    /\ UNCHANGED present

(* write_reg, its default, of the interrupt registers. *)
WriteIntRegister(value) ==
    /\ \/ seqInt' = value /\ UNCHANGED <<scsiInt, intStat>>
       \/ scsiInt' = value /\ UNCHANGED <<seqInt, intStat>>
       \/ intStat' = value /\ UNCHANGED <<seqInt, scsiInt>>
    /\ scsiNamed' = Flags
    /\ UNCHANGED present

(* attach_device, of a file that exists or not, and detach_device. *)
AttachDevice(slot) ==
    /\ present' \in {present \union {slot}, present \ {slot}}
    /\ scsiNamed' = {}
    /\ UNCHANGED <<seqInt, scsiInt, intStat>>

SCSINext ==
    \/ SCSIReset \/ StartSequencer \/ ExecuteScb
    \/ \E value \in SUBSET Flags : WriteClrInt(value) \/ WriteIntRegister(value)
    \/ \E slot \in Slots : AttachDevice(slot)

SCSISpec == SCSIInit /\ [][SCSINext]_scsiVars

-----------------------------------------------------------------------------
(* Completions of the sequencer and of command blocks stay until they are  *)
(* cleared; they share one clear register, and clearing one clears both.   *)
SequencerLatch ==
    INSTANCE InterruptLatch WITH
        Interrupts <- Flags, pending <- seqInt, named <- scsiNamed
CommandLatch ==
    INSTANCE InterruptLatch WITH
        Interrupts <- Flags, pending <- scsiInt, named <- scsiNamed
SCSIHolds == SequencerLatch!Spec /\ CommandLatch!Spec
=============================================================================
