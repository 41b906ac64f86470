------------------------------- MODULE Devices -------------------------------
(***************************************************************************)
(* The devices that are on the bus (Board says where) or in the machine    *)
(* without being connected to anything: each keeps its state to itself,    *)
(* and in the machine as it is built no device calls another. Their steps  *)
(* are the software's accesses, the host's calls and ticks.                *)
(***************************************************************************)
EXTENDS UART, PS2, MACE, MACEISA, MACEEthernet, MACEAudio, ICE, SCSI, CRIME,
        RTC, CP0, Timer, Interrupts, Display, Microprocessor, DisplayEngine,
        Framebuffer

DevicesInit ==
    /\ UARTInit /\ PS2Init
    /\ MACEInit /\ ISAInit /\ EthernetInit /\ AudioInit
    /\ ICEInit /\ SCSIInit /\ CRIMEInit /\ RTCInit /\ CP0Init
    /\ TimerInit /\ InterruptsInit
    /\ DisplayInit /\ MicroInit /\ EngineInit /\ FramebufferInit

(* Each device is on its own. *)
DevicesSpec ==
    /\ UARTSpec /\ PS2Spec
    /\ MACESpec /\ ISASpec /\ EthernetSpec /\ AudioSpec
    /\ ICESpec /\ SCSISpec /\ CRIMESpec /\ RTCSpec /\ CP0Spec
    /\ TimerSpec /\ InterruptsSpec
    /\ DisplaySpec /\ MicroSpec /\ EngineSpec /\ FramebufferSpec

(* The devices by name, for the models that pick one, and the step of all  *)
(* of them but one.                                                        *)
DeviceNames ==
    {"uart", "ps2", "mace", "isa", "ethernet", "audio", "ice", "scsi", "crime",
     "rtc", "cp0", "timer", "lines", "display", "micro", "engine",
     "framebuffer"}

Others(d) ==
    /\ d # "uart" => UNCHANGED uartVars
    /\ d # "ps2" => UNCHANGED ps2Vars
    /\ d # "mace" => UNCHANGED maceVars
    /\ d # "isa" => UNCHANGED isaVars
    /\ d # "ethernet" => UNCHANGED etherVars
    /\ d # "audio" => UNCHANGED audioVars
    /\ d # "ice" => UNCHANGED iceVars
    /\ d # "scsi" => UNCHANGED scsiVars
    /\ d # "crime" => UNCHANGED crimeVars
    /\ d # "rtc" => UNCHANGED rtcVars
    /\ d # "cp0" => UNCHANGED cpVars
    /\ d # "timer" => UNCHANGED timerVars
    /\ d # "lines" => UNCHANGED linesVars
    /\ d # "display" => UNCHANGED displayVars
    /\ d # "micro" => UNCHANGED microVars
    /\ d # "engine" => UNCHANGED engineVars
    /\ d # "framebuffer" => UNCHANGED framebufferVars

-----------------------------------------------------------------------------
DevicesTypeOK ==
    /\ UARTTypeOK /\ PS2TypeOK
    /\ MACETypeOK /\ ISATypeOK /\ EthernetTypeOK /\ AudioTypeOK
    /\ ICETypeOK /\ SCSITypeOK /\ CRIMETypeOK /\ RTCTypeOK /\ CP0TypeOK
    /\ TimerTypeOK /\ InterruptsTypeOK
    /\ DisplayTypeOK /\ MicroTypeOK /\ EngineTypeOK /\ FramebufferTypeOK

(* No device loses an interrupt: what one has raised stays until the       *)
(* software names that interrupt or the device is reset. Byte accesses to  *)
(* word registers, completions of other transfers, ticks, and narrow       *)
(* writes to the register that clears do not take it away.                 *)
InterruptsHeld ==
    /\ ISAHolds /\ EthernetHolds /\ AudioHolds
    /\ ICEHolds /\ SCSIHolds /\ CRIMEHolds /\ RTCHolds /\ CP0Holds
    /\ TimerHolds /\ LinesHold

(* A video mode the display engine has been set to is one a monitor can    *)
(* show: the sync pulse lies behind the picture and within the line or     *)
(* frame, and the clock divided by the totals is the rate of the mode's    *)
(* name to within one frame a second. Each search that is given that size  *)
(* and rate finds that mode; only the display engine's search by size may  *)
(* find one of another rate, earlier in the table.                         *)
ModesHonest ==
    \A i \in {picture, area} \ {NoMode} :
        LET m == Modes[i]
            w == m.size[1]
            h == m.size[2]
        IN  /\ \A t \in {m.line, m.frame} :
                   t.display <= t.start /\ t.start < t.end /\ t.end <= t.total
            /\ (m.khz * 1000) \div (m.line.total * m.frame.total) \in {m.hz - 1, m.hz}
            /\ EngineModeNamed(w, h, m.hz) = i
            /\ BufferModeNamed(w, h, m.hz) = i
            /\ BufferModeOfSize(w, h, m.hz) = i
            /\ EngineModeOfSize(w, h, m.hz) <= i
=============================================================================
