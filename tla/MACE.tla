-------------------------------- MODULE MACE --------------------------------
(***************************************************************************)
(* The core of the I/O controller (devices/mace/mace.cpp): its interrupt   *)
(* registers. The blocks it routes other accesses to are MACEISA,          *)
(* MACEAudio and MACEEthernet; the PCI block only holds what is written.   *)
(***************************************************************************)
EXTENDS Registers

VARIABLES
    maceStatus,  \* interrupt_status_
    maceCopy,    \* regs_[REG_INT_STATUS], which is what the software reads.
    maceClear,   \* regs_[REG_INT_CLEAR]
    acked        \* Auxiliary: what the software wrote there since a reset.

maceVars == <<maceStatus, maceCopy, maceClear, acked>>

MACETypeOK ==
    /\ maceStatus \subseteq Bits /\ maceCopy \subseteq Bits
    /\ maceClear \subseteq Bits /\ acked \subseteq Bits

MACEInit == maceStatus = {} /\ maceCopy = {} /\ maceClear = {} /\ acked = {}

(* reset *)
MACEReset ==
    /\ maceStatus' = {} /\ maceCopy' = {} /\ maceClear' = {} /\ acked' = {}

(* set_interrupt *)
SetInterrupt(line, asserted) ==
    /\ maceStatus' = IF asserted THEN maceStatus \union {line}
                                 ELSE maceStatus \ {line}
    /\ maceCopy' = maceStatus'
    /\ UNCHANGED <<maceClear, acked>>

(* clear_interrupt: the copy stays. *)
ClearInterrupt(mask) ==
    /\ maceStatus' = maceStatus \ mask
    /\ UNCHANGED <<maceCopy, maceClear, acked>>

(* Mutant of WriteIntClear: the rest of the word is read from the status. *)
WriteIntClearOfStatus(lane, value) ==
    LET word == Merged(maceStatus, lane, value)
    IN  /\ maceClear' = word
        /\ maceStatus' = maceStatus \ word
        /\ maceCopy' = maceStatus'
        /\ acked' = acked \union value

(* write32, write16 and write8 of REG_INT_CLEAR. The word is stored, so    *)
(* what a narrow write does not replace acknowledges again.                *)
WriteIntClear(lane, value) ==
    LET word == Merged(maceClear, lane, value)
    IN  /\ maceClear' = word
        /\ maceStatus' = maceStatus \ word
        /\ maceCopy' = maceStatus'
        /\ acked' = acked \union value

(* The same of REG_INT_STATUS: only the copy changes. *)
WriteIntStatus(lane, value) ==
    /\ maceCopy' = Merged(maceCopy, lane, value)
    /\ UNCHANGED <<maceStatus, maceClear, acked>>

MACENext ==
    \/ MACEReset
    \/ \E line \in Bits, asserted \in BOOLEAN : SetInterrupt(line, asserted)
    \/ \E mask \in SUBSET Bits : ClearInterrupt(mask)
    \/ \E lane \in Lanes : \E value \in SUBSET lane :
           WriteIntClear(lane, value) \/ WriteIntStatus(lane, value)

MACESpec == MACEInit /\ [][MACENext]_maceVars

-----------------------------------------------------------------------------
(* An interrupt goes away only if its device lowers it, the controller is  *)
(* reset, or the software has acknowledged that very interrupt at some     *)
(* time: a byte write may repeat an old acknowledgement, never invent one. *)
MACEHoldsInterrupts ==
    [][ \/ maceStatus \ maceStatus' \subseteq acked'
        \/ \E irq \in Bits : SetInterrupt(irq, FALSE)
        \/ \E mask \in SUBSET Bits : ClearInterrupt(mask)
        \/ MACEReset ]_maceVars
=============================================================================
