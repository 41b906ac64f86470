--------------------------------- MODULE RTC ---------------------------------
(***************************************************************************)
(* The real-time clock (devices/rtc.cpp): its interrupt flags, and the     *)
(* cells of the battery-backed memory the host's time is written to. The   *)
(* clock's own registers only hold what the software writes there.         *)
(***************************************************************************)
EXTENDS Naturals

CONSTANTS
    Cells,       \* Cells of cmos_ram_.
    ClockCells,  \* Those update_time writes.
    Second       \* Ticks until it does.

ASSUME RTCAssumption ==
    /\ ClockCells \subseteq Cells
    /\ Second \in Nat \ {0}

(* The flags of register C, and the enabling bits of register B. *)
RTCFlags == {"periodic", "update", "alarm"}
Contents == {"zero", "host", "guest"}

VARIABLES
    rtcFlags,    \* regs_[REG_C]
    rtcEnabled,  \* regs_[REG_B]
    cmos,        \* cmos_ram_
    elapsed,     \* cycle_counter of tick
    rtcNamed     \* Auxiliary: the flags the last access named.

rtcVars == <<rtcFlags, rtcEnabled, cmos, elapsed, rtcNamed>>

RTCTypeOK ==
    /\ rtcFlags \subseteq RTCFlags /\ rtcEnabled \subseteq RTCFlags
    /\ rtcNamed \subseteq RTCFlags
    /\ cmos \in [Cells -> Contents]
    /\ elapsed \in 0..(Second - 1)

(* update_time *)
Timed(cells) ==
    [c \in Cells |-> IF c \in ClockCells THEN "host" ELSE cells[c]]

(* reset *)
RTCInit ==
    /\ rtcFlags = {} /\ rtcEnabled = {} /\ rtcNamed = {}
    /\ cmos = Timed([c \in Cells |-> "zero"])
    /\ elapsed = 0

(* The counter is a static variable, which a reset does not reach. *)
RTCReset ==
    /\ rtcFlags' = {} /\ rtcEnabled' = {} /\ rtcNamed' = RTCFlags
    /\ cmos' = Timed([c \in Cells |-> "zero"])
    /\ UNCHANGED elapsed

(* write_reg of register B. A, C and D do not matter: C cannot be written, *)
(* and reading it does not clear it.                                       *)
WriteRegB(enabled) ==
    /\ rtcEnabled' = enabled
    /\ rtcNamed' = RTCFlags
    /\ UNCHANGED <<rtcFlags, cmos, elapsed>>

(* write_reg from CMOS_BASE on. *)
WriteCmos(c) ==
    /\ cmos' = [cmos EXCEPT ![c] = "guest"]
    /\ rtcNamed' = {}
    /\ UNCHANGED <<rtcFlags, rtcEnabled, elapsed>>

(* tick: all that is enabled is raised together, whatever the alarm says, *)
(* and the time is written though the software may have stopped updates.  *)
TickRTC ==
    /\ IF elapsed + 1 = Second
       THEN /\ elapsed' = 0
            /\ cmos' = Timed(cmos)
            /\ rtcFlags' = rtcFlags \union rtcEnabled
       ELSE /\ elapsed' = elapsed + 1
            /\ UNCHANGED <<cmos, rtcFlags>>
    /\ rtcNamed' = {}
    /\ UNCHANGED rtcEnabled

RTCNext ==
    \/ RTCReset \/ TickRTC
    \/ \E enabled \in SUBSET RTCFlags : WriteRegB(enabled)
    \/ \E c \in Cells : WriteCmos(c)

RTCSpec == RTCInit /\ [][RTCNext]_rtcVars

-----------------------------------------------------------------------------
(* What interrupt_status shows stays until the software writes register B. *)
RTCLatch ==
    INSTANCE InterruptLatch WITH
        Interrupts <- RTCFlags, pending <- rtcFlags \intersect rtcEnabled,
        named <- rtcNamed
RTCHolds == RTCLatch!Spec
=============================================================================
