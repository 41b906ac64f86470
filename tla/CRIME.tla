-------------------------------- MODULE CRIME --------------------------------
(***************************************************************************)
(* The memory controller (memory/crime.cpp, and the adapter that gives the *)
(* bus its parts, memory/crime_device.cpp): one of its two timers and one  *)
(* of its eight DMA channels, which complete at once, and the interrupts   *)
(* they raise. Other registers only hold what is written.                  *)
(***************************************************************************)
EXTENDS Naturals

CONSTANT CRIMEBound  \* Bound on the timer's registers.

ASSUME CRIMEAssumption == CRIMEBound \in Nat

CRIMEInterrupts == {"timer", "dma"}

(* Bits of TIMER_CTRL, and of DMA_CTRL. *)
TimerBits == {"enable", "periodic", "interrupt"}
DmaBits == {"enable", "interrupt"}

VARIABLES
    intstat,     \* regs_[REG_INTSTAT / 4]
    timerCtrl, timerCount, timerCompare,  \* The timer's registers.
    dmaCtrl,     \* regs_[base + 3] of the channel
    crimeNamed   \* Auxiliary: the interrupts the last access named.

crimeVars ==
    <<intstat, timerCtrl, timerCount, timerCompare, dmaCtrl, crimeNamed>>

CRIMETypeOK ==
    /\ intstat \subseteq CRIMEInterrupts /\ crimeNamed \subseteq CRIMEInterrupts
    /\ timerCtrl \subseteq TimerBits /\ dmaCtrl \subseteq DmaBits
    /\ timerCount \in 0..CRIMEBound /\ timerCompare \in 0..CRIMEBound

-----------------------------------------------------------------------------
(* reset *)
CRIMEInit ==
    /\ intstat = {} /\ crimeNamed = {}
    /\ timerCtrl = {} /\ timerCount = 0 /\ timerCompare = 0
    /\ dmaCtrl = {}

CRIMEReset ==
    /\ intstat' = {} /\ crimeNamed' = CRIMEInterrupts
    /\ timerCtrl' = {} /\ timerCount' = 0 /\ timerCompare' = 0
    /\ dmaCtrl' = {}

(* write of REG_SOFTINT, which clears and reads as zero; clear_interrupt. *)
WriteSoftInt(value) ==
    /\ intstat' = intstat \ value
    /\ crimeNamed' = value
    /\ UNCHANGED <<timerCtrl, timerCount, timerCompare, dmaCtrl>>

(* write of REG_INTSTAT, by the default: the word is replaced. *)
WriteIntStat(value) ==
    /\ intstat' = value
    /\ crimeNamed' = CRIMEInterrupts
    /\ UNCHANGED <<timerCtrl, timerCount, timerCompare, dmaCtrl>>

(* write of DMA_CTRL, handle_dma_write and start_dma. The bit that starts  *)
(* a transfer is stored, so a write to another byte of the register, which *)
(* the adapter merges into the word, starts it again.                      *)
WriteDmaCtrl(value) ==
    /\ dmaCtrl' = value
    /\ intstat' = IF DmaBits \subseteq value THEN intstat \union {"dma"}
                                             ELSE intstat
    /\ crimeNamed' = {}
    /\ UNCHANGED <<timerCtrl, timerCount, timerCompare>>

(* write of the timer's registers: they take effect at the next tick. *)
WriteTimer ==
    /\ \/ timerCtrl' \in SUBSET TimerBits
          /\ UNCHANGED <<timerCount, timerCompare>>
       \/ timerCount' \in 0..CRIMEBound
          /\ UNCHANGED <<timerCtrl, timerCompare>>
       \/ timerCompare' \in 0..CRIMEBound
          /\ UNCHANGED <<timerCtrl, timerCount>>
    /\ crimeNamed' = {}
    /\ UNCHANGED <<intstat, dmaCtrl>>

(* tick: the timer fires at the first tick on or after its compare value,  *)
(* which is periodic from 0 on, or once.                                   *)
TickTimer(cycles) ==
    LET count == timerCount + cycles
        fires == count >= timerCompare
        periodic == "periodic" \in timerCtrl
    IN  /\ "enable" \in timerCtrl
        /\ timerCount' = IF fires /\ periodic THEN 0 ELSE count
        /\ timerCount' <= CRIMEBound
        /\ timerCtrl' = IF fires /\ ~periodic THEN timerCtrl \ {"enable"}
                                              ELSE timerCtrl
        /\ intstat' = IF fires /\ "interrupt" \in timerCtrl
                      THEN intstat \union {"timer"} ELSE intstat
        /\ crimeNamed' = {}
        /\ UNCHANGED <<timerCompare, dmaCtrl>>

CRIMENext ==
    \/ CRIMEReset
    \/ \E value \in SUBSET CRIMEInterrupts :
           WriteSoftInt(value) \/ WriteIntStat(value)
    \/ \E value \in SUBSET DmaBits : WriteDmaCtrl(value)
    \/ WriteTimer
    \/ \E cycles \in 1..CRIMEBound : TickTimer(cycles)

CRIMESpec == CRIMEInit /\ [][CRIMENext]_crimeVars

-----------------------------------------------------------------------------
(* A timer's or a channel's interrupt stays until it is cleared or the     *)
(* status register is written over.                                        *)
CRIMELatch ==
    INSTANCE InterruptLatch WITH
        Interrupts <- CRIMEInterrupts, pending <- intstat, named <- crimeNamed
CRIMEHolds == CRIMELatch!Spec
=============================================================================
