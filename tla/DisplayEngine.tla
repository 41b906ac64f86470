---------------------------- MODULE DisplayEngine ----------------------------
(***************************************************************************)
(* The display engine (graphics/display_engine.cpp): switches that are     *)
(* kept twice, as bits of the control register and as members of their     *)
(* own, the address scan-out starts from, and the video modes. Registers   *)
(* that only hold what was written, the cursor's pattern and the gamma     *)
(* ramps are left out.                                                     *)
(***************************************************************************)
EXTENDS VideoModes

CONSTANT Addrs  \* Frame-buffer addresses; 0 is one.

ASSUME AddrsAssumption == 0 \in Addrs

(* ControlBit, the bits something in the engine follows. *)
Switches == {"ENABLE", "INTERLACE", "CURSOR", "GAMMA"}

VARIABLES
    control,  \* control_
    on,       \* enabled_, interlaced_, cursor_enabled_ and gamma_enabled_
    fbAddr,   \* fb_addr_
    line,     \* current_line_
    picture,  \* The mode the timing was set for, by set_video_mode ...
    area,     \* ... and that of fb_width_ and fb_height_; NoMode if neither.
    split     \* Auxiliary: the switches last changed one way only.

engineVars == <<control, on, fbAddr, line, picture, area, split>>

EngineTypeOK ==
    /\ control \subseteq Switches /\ on \subseteq Switches
    /\ split \subseteq Switches
    /\ fbAddr \in Addrs /\ line \in Addrs
    /\ picture \in {NoMode} \union DOMAIN Modes
    /\ area \in {NoMode} \union DOMAIN Modes

-----------------------------------------------------------------------------
(* DisplayEngine::reset: the first mode of the table. *)
EngineInit ==
    /\ control = {} /\ on = {} /\ split = {}
    /\ fbAddr = 0 /\ line = 0
    /\ picture = 1 /\ area = 1

EngineReset ==
    /\ control' = {} /\ on' = {} /\ split' = {}
    /\ fbAddr' = 0 /\ line' = 0
    /\ picture' = 1 /\ area' = 1

(* write, DE_CONTROL without CTRL_RESET: only the enabling is followed, so *)
(* the other bits may part from what they stand for.                       *)
WriteControl(bits) ==
    /\ control' = bits
    /\ on' = (on \ {"ENABLE"}) \union (bits \intersect {"ENABLE"})
    /\ split' = (Switches \ {"ENABLE"})
    /\ UNCHANGED <<fbAddr, line, picture, area>>

(* write, DE_CURSOR_CONTROL *)
WriteCursorControl ==
    /\ on' \in {on \ {"CURSOR"}, on \union {"CURSOR"}}
    /\ split' = split \union {"CURSOR"}
    /\ UNCHANGED <<control, fbAddr, line, picture, area>>

(* write, the timing registers and the size of the frame buffer. *)
WriteTiming ==
    /\ \/ picture' = NoMode /\ UNCHANGED area
       \/ area' = NoMode /\ UNCHANGED picture
    /\ UNCHANGED <<control, on, fbAddr, line, split>>

(* write, DE_FB_ADDR *)
WriteFbAddr(a) ==
    /\ fbAddr' = a /\ line' = a
    /\ UNCHANGED <<control, on, picture, area, split>>

(* enable_cursor, enable_gamma, and the end of set_timing. *)
Switch(s, enable) ==
    /\ on' = IF enable THEN on \union {s} ELSE on \ {s}
    /\ control' = IF enable THEN control \union {s} ELSE control \ {s}
    /\ split' = split \ {s}

Enable ==
    /\ \E s \in {"CURSOR", "GAMMA"}, enable \in BOOLEAN : Switch(s, enable)
    /\ UNCHANGED <<fbAddr, line, picture, area>>

(* set_timing *)
SetTiming ==
    /\ \E interlaced \in BOOLEAN : Switch("INTERLACE", interlaced)
    /\ picture' = NoMode
    /\ UNCHANGED <<fbAddr, line, area>>

(* Mutant of SetVideoMode: the bit of the control register is forgotten. *)
SetVideoModeNoBit ==
    \E mode \in DOMAIN Modes :
        /\ on' = on \ {"INTERLACE"}
        /\ split' = split \ {"INTERLACE"}
        /\ picture' = mode /\ area' = mode
        /\ UNCHANGED <<control, fbAddr, line>>

(* set_video_mode: no mode is interlaced. *)
SetVideoMode ==
    \E mode \in DOMAIN Modes :
        /\ Switch("INTERLACE", FALSE)
        /\ picture' = mode /\ area' = mode
        /\ UNCHANGED <<fbAddr, line>>

(* set_framebuffer *)
SetFramebuffer(a) ==
    /\ fbAddr' = a /\ line' = a
    /\ area' = NoMode
    /\ UNCHANGED <<control, on, picture, split>>

EngineNext ==
    \/ EngineReset
    \/ \E bits \in SUBSET Switches : WriteControl(bits)
    \/ WriteCursorControl \/ WriteTiming
    \/ \E a \in Addrs : WriteFbAddr(a) \/ SetFramebuffer(a)
    \/ Enable \/ SetTiming \/ SetVideoMode

EngineSpec == EngineInit /\ [][EngineNext]_engineVars

-----------------------------------------------------------------------------
(* get_video_mode and get_video_mode_by_resolution, which does not look at *)
(* the rate it is given.                                                   *)
EngineModeNamed(w, h, hz) ==
    FirstMode(LAMBDA m : m.size = <<w, h>> /\ m.hz = hz)
EngineModeOfSize(w, h, hz) == FirstMode(LAMBDA m : m.size = <<w, h>>)

(* A switch that no register write set on its own is on exactly when the   *)
(* control register reads so, the engine is enabled by its bit, and        *)
(* scan-out starts at the address the software reads back.                 *)
SwitchesAgree ==
    /\ \A s \in Switches \ split : s \in on <=> s \in control
    /\ line = fbAddr
=============================================================================
