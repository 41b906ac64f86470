---------------------------- MODULE MACEEthernet ----------------------------
(***************************************************************************)
(* The Ethernet block of the I/O controller                                *)
(* (devices/mace/mace_ethernet.cpp). Transfers complete when they are      *)
(* started and move nothing. Descriptor registers and addresses, which     *)
(* only hold what is written or a default, are left out.                   *)
(***************************************************************************)
EXTENDS Registers

VARIABLES
    netEnabled,    \* network_enabled_
    etherLink,     \* STATUS_LINK_UP in regs_[REG_STATUS].
    etherTx,       \* regs_[REG_TX_CTRL] and regs_[REG_RX_CTRL]: bit 0 starts
    etherRx,       \* a transfer, and the others do nothing.
    etherPending,  \* regs_[REG_INT_STATUS]
    etherNamed     \* Auxiliary: the interrupts the last access named.

etherVars == <<netEnabled, etherLink, etherTx, etherRx, etherPending, etherNamed>>

EthernetTypeOK ==
    /\ netEnabled \in BOOLEAN /\ etherLink \in BOOLEAN
    /\ etherTx \subseteq {0} /\ etherRx \subseteq {0}
    /\ etherPending \subseteq Bits /\ etherNamed \subseteq Bits

EthernetInit ==
    /\ netEnabled = FALSE /\ etherLink = FALSE
    /\ etherTx = {} /\ etherRx = {} /\ etherPending = {} /\ etherNamed = {}

(* reset; also handle_ctrl_write with the bit that CtrlBit calls 100 Mbps: *)
(* the software's reset takes the host's network away.                     *)
EthernetReset ==
    /\ netEnabled' = FALSE /\ etherLink' = FALSE
    /\ etherTx' = {} /\ etherRx' = {} /\ etherPending' = {} /\ etherNamed' = Bits

(* set_network_enabled *)
SetNetworkEnabled(enabled) ==
    /\ netEnabled' = enabled /\ etherLink' = enabled
    /\ etherNamed' = {}
    /\ UNCHANGED <<etherTx, etherRx, etherPending>>

(* write_reg of REG_STATUS: the link is what the software says. *)
WriteEtherStatus ==
    /\ etherLink' \in BOOLEAN
    /\ etherNamed' = {}
    /\ UNCHANGED <<netEnabled, etherTx, etherRx, etherPending>>

(* write_reg of REG_TX_CTRL with start_tx, network or not. *)
WriteTxCtrl(lane, value) ==
    /\ etherTx' = Merged(etherTx, lane, value) \intersect {0}
    /\ etherPending' =
           IF 0 \in etherTx' THEN etherPending \union {0} ELSE etherPending
    /\ etherNamed' = {}
    /\ UNCHANGED <<netEnabled, etherLink, etherRx>>

(* write_reg of REG_RX_CTRL with start_rx. *)
WriteRxCtrl(lane, value) ==
    /\ etherRx' = Merged(etherRx, lane, value) \intersect {0}
    /\ etherPending' =
           IF 0 \in etherRx' THEN etherPending \union {1} ELSE etherPending
    /\ etherNamed' = {}
    /\ UNCHANGED <<netEnabled, etherLink, etherTx>>

(* write_reg of REG_INT_CLEAR, which is not stored. *)
WriteEtherClear(lane, value) ==
    /\ etherPending' = etherPending \ Merged({}, lane, value)
    /\ etherNamed' = value
    /\ UNCHANGED <<netEnabled, etherLink, etherTx, etherRx>>

(* write_reg of REG_INT_STATUS. *)
WriteEtherIntStatus(lane, value) ==
    /\ etherPending' = Merged(etherPending, lane, value)
    /\ etherNamed' = lane
    /\ UNCHANGED <<netEnabled, etherLink, etherTx, etherRx>>

EthernetNext ==
    \/ EthernetReset \/ WriteEtherStatus
    \/ \E enabled \in BOOLEAN : SetNetworkEnabled(enabled)
    \/ \E lane \in Lanes : \E value \in SUBSET lane :
           \/ WriteTxCtrl(lane, value) \/ WriteRxCtrl(lane, value)
           \/ WriteEtherClear(lane, value) \/ WriteEtherIntStatus(lane, value)

EthernetSpec == EthernetInit /\ [][EthernetNext]_etherVars

-----------------------------------------------------------------------------
(* A completion is not lost to another start or to a byte access to the    *)
(* clear register.                                                         *)
EthernetLatch ==
    INSTANCE InterruptLatch WITH
        Interrupts <- Bits, pending <- etherPending, named <- etherNamed
EthernetHolds == EthernetLatch!Spec
=============================================================================
