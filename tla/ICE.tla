-------------------------------- MODULE ICE --------------------------------
(***************************************************************************)
(* The imaging and compression engine (graphics/ice.cpp): its interrupt    *)
(* registers. The others only hold what is written or a default.           *)
(***************************************************************************)
EXTENDS Registers

VARIABLES
    icePending,  \* interrupt_status_
    iceEnable,   \* interrupt_enable_
    iceNamed     \* Auxiliary: the interrupts the last access named.

iceVars == <<icePending, iceEnable, iceNamed>>

ICETypeOK ==
    /\ icePending \subseteq Bits /\ iceEnable \subseteq Bits
    /\ iceNamed \subseteq Bits

(* reset *)
ICEInit == icePending = {} /\ iceEnable = {} /\ iceNamed = {}

ICEReset == icePending' = {} /\ iceEnable' = {} /\ iceNamed' = Bits

(* write32 of BSP_SW_INT and MSP_SW_INT: both raise the same interrupt. *)
WriteSwInt ==
    /\ icePending' = icePending \union {0}
    /\ iceNamed' = {}
    /\ UNCHANGED iceEnable

(* VICE_INT_RESET is written; it reads as zero. *)
WriteIntReset(lane, value) ==
    /\ icePending' = icePending \ Merged({}, lane, value)
    /\ iceNamed' = value
    /\ UNCHANGED iceEnable

(* VICE_INT_EN is written; it reads as zero, so that a narrow write turns  *)
(* every interrupt off that is not in its part.                            *)
WriteIntEn(lane, value) ==
    /\ iceEnable' = Merged({}, lane, value)
    /\ iceNamed' = {}
    /\ UNCHANGED icePending

ICENext ==
    \/ ICEReset \/ WriteSwInt
    \/ \E lane \in Lanes : \E value \in SUBSET lane :
           WriteIntReset(lane, value) \/ WriteIntEn(lane, value)

ICESpec == ICEInit /\ [][ICENext]_iceVars

-----------------------------------------------------------------------------
(* A software interrupt stays until the software resets it. *)
ICELatch ==
    INSTANCE InterruptLatch WITH
        Interrupts <- Bits, pending <- icePending, named <- iceNamed
ICEHolds == ICELatch!Spec
=============================================================================
