------------------------------ MODULE MACEISA ------------------------------
(***************************************************************************)
(* The ISA block of the I/O controller (devices/mace/mace_isa.cpp): its    *)
(* DMA, which completes when it is started, its timer and its interrupts.  *)
(* The registers that only hold what is written are left out, the ones of  *)
(* the keyboard, the serial and the parallel ports among them.             *)
(***************************************************************************)
EXTENDS Registers, Naturals

CONSTANTS
    ISAWord,   \* A word counts modulo this: 2^32.
    ISAPeriod  \* The timer's period: 0x10000.

ASSUME ISAAssumption == ISAWord \in Nat /\ ISAPeriod \in 1..(ISAWord - 1)

VARIABLES
    isaDma,      \* regs_[REG_DMA_CTRL]: bit 0 starts it.
    isaTimerOn,  \* Bit 0 of regs_[REG_TIMER_CTRL].
    isaCount,    \* regs_[REG_TIMER_COUNT]
    isaPending,  \* regs_[REG_INT_STATUS]
    isaNamed     \* Auxiliary: the interrupts the last access named.

isaVars == <<isaDma, isaTimerOn, isaCount, isaPending, isaNamed>>

ISATypeOK ==
    /\ isaDma \subseteq {0}
    /\ isaTimerOn \in BOOLEAN
    /\ isaCount \in 0..(ISAWord - 1)
    /\ isaPending \subseteq Bits /\ isaNamed \subseteq Bits

(* reset *)
ISAInit ==
    /\ isaDma = {} /\ isaTimerOn = FALSE /\ isaCount = 0
    /\ isaPending = {} /\ isaNamed = {}

ISAReset ==
    /\ isaDma' = {} /\ isaTimerOn' = FALSE /\ isaCount' = 0
    /\ isaPending' = {} /\ isaNamed' = Bits

(* write_reg of REG_DMA_CTRL, and start_dma. The start bit is stored, so a *)
(* write to another byte of the register starts the transfer again.        *)
WriteISADma(lane, value) ==
    /\ isaDma' = Merged(isaDma, lane, value) \intersect {0}
    /\ isaPending' = IF 0 \in isaDma' THEN isaPending \union {0} ELSE isaPending
    /\ isaNamed' = {}
    /\ UNCHANGED <<isaTimerOn, isaCount>>

(* write_reg of REG_INT_CLEAR. It is not stored, so a narrow write puts    *)
(* zeros around its part.                                                  *)
WriteISAClear(lane, value) ==
    /\ isaPending' = isaPending \ Merged({}, lane, value)
    /\ isaNamed' = value
    /\ UNCHANGED <<isaDma, isaTimerOn, isaCount>>

(* write_reg of REG_INT_STATUS, which software may overwrite. *)
WriteISAStatus(lane, value) ==
    /\ isaPending' = Merged(isaPending, lane, value)
    /\ isaNamed' = lane
    /\ UNCHANGED <<isaDma, isaTimerOn, isaCount>>

(* write_reg of REG_TIMER_CTRL and REG_TIMER_COUNT. *)
WriteISATimer ==
    /\ \/ isaTimerOn' \in BOOLEAN /\ UNCHANGED isaCount
       \/ isaCount' \in 0..(ISAWord - 1) /\ UNCHANGED isaTimerOn
    /\ isaNamed' = {}
    /\ UNCHANGED <<isaDma, isaPending>>

(* tick: a count that wraps around restarts without an interrupt. *)
ISATick(cycles) ==
    LET count == (isaCount + cycles) % ISAWord
    IN  /\ isaTimerOn
        /\ \/ /\ count >= ISAPeriod
              /\ isaCount' = 0
              /\ isaPending' = isaPending \union {1}
           \/ /\ count < ISAPeriod
              /\ isaCount' = count
              /\ UNCHANGED isaPending
        /\ isaNamed' = {}
        /\ UNCHANGED <<isaDma, isaTimerOn>>

ISANext ==
    \/ ISAReset
    \/ \E lane \in Lanes : \E value \in SUBSET lane :
           \/ WriteISADma(lane, value)
           \/ WriteISAClear(lane, value)
           \/ WriteISAStatus(lane, value)
    \/ WriteISATimer
    \/ \E cycles \in 1..ISAPeriod : ISATick(cycles)

ISASpec == ISAInit /\ [][ISANext]_isaVars

-----------------------------------------------------------------------------
(* A DMA or timer interrupt is not lost: not by byte accesses to the clear *)
(* register, by another start, or by the timer.                            *)
ISALatch ==
    INSTANCE InterruptLatch WITH
        Interrupts <- Bits, pending <- isaPending, named <- isaNamed
ISAHolds == ISALatch!Spec
=============================================================================
