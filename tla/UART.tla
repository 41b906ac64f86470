-------------------------------- MODULE UART --------------------------------
(***************************************************************************)
(* A serial port (devices/uart.cpp). Characters come from the host with    *)
(* push_rx_char and go to it through tx_cb_; the software reads and writes *)
(* the eight registers. Flag registers are sets of the flags that can be   *)
(* set at all; a value written to the FIFO control register is a set of    *)
(* bits, and one of them is the bit that means "nothing pending".          *)
(***************************************************************************)
EXTENDS Sequences, Naturals

CONSTANTS
    Chars,      \* Characters.
    UARTBound   \* Bound on the characters that wait to be read.

ASSUME UARTAssumption == UARTBound \in Nat \ {0}

(* IerBit, LsrBit; the line and modem status flags are never raised. *)
IerBits == {"RDA", "THRE", "RLS", "MS"}
LsrBits == {"DR", "THRE", "TEMT"}

(* IirBit: the identification register. It shares its cell with the FIFO   *)
(* control register: "fcr" is a value the software has written there with  *)
(* bit 0 clear, which reads as an interrupt, and "fcrNone" one with it set. *)
Iirs == {"none", "thre", "rda", "fcr", "fcrNone"}

VARIABLES
    rx,      \* rx_buffer_
    lsr,     \* regs_[REG_LSR]
    ier,     \* regs_[REG_IER]
    iir,     \* regs_[REG_IIR] and regs_[REG_FCR]
    dlab,    \* Bit 7 of regs_[REG_LCR].
    sent     \* Auxiliary: the last character given to tx_cb_.

uartVars == <<rx, lsr, ier, iir, dlab, sent>>

UARTTypeOK ==
    /\ rx \in Seq(Chars)
    /\ lsr \subseteq LsrBits
    /\ ier \subseteq IerBits
    /\ iir \in Iirs
    /\ dlab \in BOOLEAN
    /\ sent \in Chars \union {"nothing"}

-----------------------------------------------------------------------------
(* UART::reset *)
UARTInit ==
    /\ rx = <<>> /\ lsr = {"THRE", "TEMT"} /\ ier = {} /\ iir = "none"
    /\ dlab = FALSE
    /\ sent = "nothing"

UARTReset ==
    /\ rx' = <<>> /\ lsr' = {"THRE", "TEMT"} /\ ier' = {} /\ iir' = "none"
    /\ dlab' = FALSE
    /\ sent' = "nothing"

(* read_reg, offset 0: data-ready goes out whatever else is buffered. The  *)
(* other registers, and this one with DLAB set, only show what they hold.  *)
ReadRBR ==
    /\ ~dlab
    /\ lsr' = lsr \ {"DR"}
    /\ rx' = IF rx = <<>> THEN rx ELSE Tail(rx)
    /\ UNCHANGED <<ier, iir, dlab, sent>>

(* write_reg, offset 0: the character is gone at once, and an interrupt is *)
(* raised whether it is enabled or not. With DLAB set it is the divisor.   *)
WriteTHR(c) ==
    /\ ~dlab
    /\ sent' = c
    /\ lsr' = lsr \union {"TEMT", "THRE"}
    /\ iir' = "thre"
    /\ UNCHANGED <<rx, ier, dlab>>

(* update_interrupts *)
Identified(enabled) ==
    IF "THRE" \in enabled \intersect lsr THEN "thre"
    ELSE IF "RDA" \in enabled /\ "DR" \in lsr THEN "rda"
    ELSE "none"

(* write_reg, offset 1. *)
WriteIER(enabled) ==
    /\ ~dlab
    /\ ier' = enabled
    /\ iir' = Identified(enabled)
    /\ UNCHANGED <<rx, lsr, dlab, sent>>

(* write_reg, offset 2: the buffers are not touched. *)
WriteFCR ==
    /\ iir' \in {"fcr", "fcrNone"}
    /\ UNCHANGED <<rx, lsr, ier, dlab, sent>>

(* write_reg, offset 3; only DLAB has an effect. *)
WriteLCR ==
    /\ dlab' \in BOOLEAN
    /\ UNCHANGED <<rx, lsr, ier, iir, sent>>

(* Mutant of PushRxChar: a character overtakes those that wait. *)
PushRxCharFirst(c) ==
    /\ Len(rx) < UARTBound
    /\ rx' = <<c>> \o rx
    /\ lsr' = lsr \union {"DR"}
    /\ iir' = IF "RDA" \in ier THEN "rda" ELSE iir
    /\ UNCHANGED <<ier, dlab, sent>>

(* push_rx_char *)
PushRxChar(c) ==
    /\ Len(rx) < UARTBound
    /\ rx' = Append(rx, c)
    /\ lsr' = lsr \union {"DR"}
    /\ iir' = IF "RDA" \in ier THEN "rda" ELSE iir
    /\ UNCHANGED <<ier, dlab, sent>>

UARTNext ==
    \/ UARTReset \/ ReadRBR \/ WriteFCR \/ WriteLCR
    \/ \E c \in Chars : WriteTHR(c) \/ PushRxChar(c)
    \/ \E enabled \in SUBSET IerBits : WriteIER(enabled)

UARTSpec == UARTInit /\ [][UARTNext]_uartVars

-----------------------------------------------------------------------------
(* The status and identification registers do not lie: data-ready means    *)
(* that a character waits (the converse fails after one of several was     *)
(* read), and a receive interrupt is identified only while the software    *)
(* has it enabled, though nothing but a new setting identifies anew when   *)
(* the character is read.                                                  *)
UARTHonest ==
    /\ "DR" \in lsr => rx # <<>>
    /\ iir = "rda" => "RDA" \in ier

(* Received characters are a stream: whatever else is done to the port,    *)
(* they are read once each and in order, until a reset.                    *)
ReceiveStream ==
    INSTANCE InputStream WITH Frames <- {<<c>> : c \in Chars}, waiting <- rx
UARTIsStream == ReceiveStream!Spec
=============================================================================
