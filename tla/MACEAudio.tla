----------------------------- MODULE MACEAudio -----------------------------
(***************************************************************************)
(* The audio block of the I/O controller (devices/mace/mace_audio.cpp).    *)
(* Starting a transfer hands all the samples between the pointer and the   *)
(* end to the host at once, and a tick does so again while some are left.  *)
(* What the samples are and how they are decoded is left out, and so are   *)
(* the registers that only hold what is written.                           *)
(***************************************************************************)
EXTENDS Registers, Naturals

CONSTANT AudioEnd  \* Addresses of samples are 0 to this.

ASSUME AudioAssumption == AudioEnd \in Nat

Addresses == 0..AudioEnd

VARIABLES
    playBase, playPtr, playEnd,  \* regs_[REG_PLAY_BASE], _PTR, _END
    playCtrl,      \* regs_[REG_PLAY_CTRL]: bit 0 enables, bit 1 is for PAUSE.
    recCtrl,       \* regs_[REG_REC_CTRL]: bit 0 enables. Others do nothing.
    audioPending,  \* regs_[REG_INT_STATUS]
    audioNamed,    \* Auxiliary: the interrupts the last access named.
    burst,         \* Auxiliary: changes when sample_cb_ is called.
    aimed          \* Auxiliary: the pointer or the end was written since.

playVars == <<playBase, playPtr, playEnd, playCtrl, burst, aimed>>
audioVars == <<playVars, recCtrl, audioPending, audioNamed>>

AudioTypeOK ==
    /\ playBase \in Addresses /\ playPtr \in Addresses /\ playEnd \in Addresses
    /\ playCtrl \subseteq {0, 1} /\ recCtrl \subseteq {0}
    /\ audioPending \subseteq Bits /\ audioNamed \subseteq Bits
    /\ burst \in BOOLEAN /\ aimed \in BOOLEAN

(* reset *)
AudioInit ==
    /\ playBase = 0 /\ playPtr = 0 /\ playEnd = 0
    /\ playCtrl = {} /\ recCtrl = {}
    /\ audioPending = {} /\ audioNamed = {}
    /\ burst = FALSE /\ aimed = FALSE

AudioReset ==
    /\ playBase' = 0 /\ playPtr' = 0 /\ playEnd' = 0
    /\ playCtrl' = {} /\ recCtrl' = {}
    /\ audioPending' = {} /\ audioNamed' = Bits
    /\ UNCHANGED burst /\ aimed' = FALSE

(* Mutant of StartPlayback: the pointer stays where it was. *)
StartPlaybackStays ==
    /\ audioPending' = audioPending \union {0}
    /\ \/ /\ playBase < playEnd /\ playPtr < playEnd
          /\ burst' = ~burst /\ aimed' = FALSE
       \/ UNCHANGED <<burst, aimed>>
    /\ UNCHANGED playPtr

(* start_playback. There may be no callback, or less than one frame. *)
StartPlayback ==
    /\ playPtr' = playEnd
    /\ audioPending' = audioPending \union {0}
    /\ \/ /\ playBase < playEnd /\ playPtr < playEnd
          /\ burst' = ~burst /\ aimed' = FALSE
       \/ UNCHANGED <<burst, aimed>>

(* write_reg of REG_PLAY_BASE, REG_PLAY_PTR and REG_PLAY_END. *)
WritePlayBase(a) ==
    /\ playBase' = a
    /\ UNCHANGED <<playPtr, playEnd, playCtrl, burst, aimed>>

WritePlayPtr(a) ==
    /\ playPtr' = a /\ aimed' = TRUE
    /\ UNCHANGED <<playBase, playEnd, playCtrl, burst>>

WritePlayEnd(a) ==
    /\ playEnd' = a /\ aimed' = TRUE
    /\ UNCHANGED <<playBase, playPtr, playCtrl, burst>>

(* write_reg of REG_PLAY_CTRL. A start does not look at the pause bit, and *)
(* a write to another byte of the register is a start if it was enabled.   *)
WritePlayCtrl(lane, value) ==
    /\ playCtrl' = Merged(playCtrl, lane, value) \intersect {0, 1}
    /\ IF 0 \in playCtrl'
       THEN StartPlayback
       ELSE UNCHANGED <<playPtr, audioPending, burst, aimed>>
    /\ audioNamed' = {}
    /\ UNCHANGED <<playBase, playEnd, recCtrl>>

(* write_reg of REG_REC_CTRL, and start_record, which completes at once. *)
WriteRecCtrl(lane, value) ==
    /\ recCtrl' = Merged(recCtrl, lane, value) \intersect {0}
    /\ audioPending' =
           IF 0 \in recCtrl' THEN audioPending \union {1} ELSE audioPending
    /\ audioNamed' = {}
    /\ UNCHANGED playVars

(* write_reg of REG_INT_CLEAR, which is not stored, and REG_INT_STATUS. *)
WriteAudioClear(lane, value) ==
    /\ audioPending' = audioPending \ Merged({}, lane, value)
    /\ audioNamed' = value
    /\ UNCHANGED <<playVars, recCtrl>>

WriteAudioStatus(lane, value) ==
    /\ audioPending' = Merged(audioPending, lane, value)
    /\ audioNamed' = lane
    /\ UNCHANGED <<playVars, recCtrl>>

(* tick *)
AudioTick ==
    /\ 0 \in playCtrl /\ 1 \notin playCtrl
    /\ playPtr < playEnd
    /\ StartPlayback
    /\ audioNamed' = {}
    /\ UNCHANGED <<playBase, playEnd, playCtrl, recCtrl>>

AudioNext ==
    \/ AudioReset
    \/ AudioTick
    \/ \E a \in Addresses :
           /\ WritePlayBase(a) \/ WritePlayPtr(a) \/ WritePlayEnd(a)
           /\ audioNamed' = {}
           /\ UNCHANGED <<recCtrl, audioPending>>
    \/ \E lane \in Lanes : \E value \in SUBSET lane :
           \/ WritePlayCtrl(lane, value) \/ WriteRecCtrl(lane, value)
           \/ WriteAudioClear(lane, value) \/ WriteAudioStatus(lane, value)

AudioSpec == AudioInit /\ [][AudioNext]_audioVars

-----------------------------------------------------------------------------
(* A buffer is played once: between two calls of the host's callback the   *)
(* software has written the pointer or the end, although the buffer stays  *)
(* enabled, ticks look at it again and any write to its control register   *)
(* is another start.                                                       *)
PlayedOnce == [][burst' # burst => aimed]_audioVars

(* A completion is not lost to another start, to the other direction or to *)
(* a byte access to the clear register.                                    *)
AudioLatch ==
    INSTANCE InterruptLatch WITH
        Interrupts <- Bits, pending <- audioPending, named <- audioNamed
AudioHolds == AudioLatch!Spec

(* The inductive form of PlayedOnce: what was played is behind the         *)
(* pointer until the software moves it or the end.                         *)
PlayedIsBehind == ~aimed => playPtr = playEnd
=============================================================================
