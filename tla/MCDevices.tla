------------------------------ MODULE MCDevices ------------------------------
(* The devices one at a time: which one moves is chosen at the start, as no  *)
(* device sees another and their states would only multiply.                 *)
EXTENDS Devices

VARIABLES
    focus,  \* The device that moves,
    half    \* and of the frame buffer, which part: the buffers, or the store
            \* with the registers of the lines or of the tiles.

MCInit ==
    /\ DevicesInit
    /\ focus \in DeviceNames
    /\ half \in (IF focus = "framebuffer" THEN {"buffers", "lines", "tiles"} ELSE {"none"})

On(d) == focus = d /\ Others(d) /\ UNCHANGED <<focus, half>>

MCNext ==
    \/ On("uart") /\ UARTNext
    \/ On("ps2") /\ PS2Next
    \/ On("mace") /\ MACENext
    \/ On("isa") /\ ISANext
    \/ On("ethernet") /\ EthernetNext
    \/ On("audio") /\ AudioNext
    \/ On("ice") /\ ICENext
    \/ On("scsi") /\ SCSINext
    \/ On("crime") /\ CRIMENext
    \/ On("rtc") /\ RTCNext
    \/ On("cp0") /\ CP0Next
    \/ On("timer") /\ TimerNext
    \/ On("lines") /\ InterruptsNext
    \/ On("display") /\ DisplayNext
    \/ On("micro") /\ MicroNext
    \/ On("engine") /\ EngineNext
    \/ On("framebuffer") /\ half = "buffers" /\ (FramebufferReset \/ BufferNext)
    \/ On("framebuffer") /\ half = "lines"
          /\ (FramebufferReset \/ SetGeometry \/ WriteLineRegister)
    \/ On("framebuffer") /\ half = "tiles"
          /\ (FramebufferReset \/ SetGeometry \/ WriteTileRegister)

MCSpec == MCInit /\ [][MCNext]_<<focus, half, uartVars, ps2Vars, maceVars, isaVars,
    etherVars, audioVars, iceVars, scsiVars, crimeVars, rtcVars, cpVars,
    timerVars, linesVars, displayVars, microVars, engineVars, framebufferVars>>
=============================================================================
