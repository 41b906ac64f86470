----------------------------- MODULE VideoModes -----------------------------
(***************************************************************************)
(* The table of video modes, which graphics/display_engine.cpp and         *)
(* graphics/framebuffer.cpp each hold twice. The former has no refresh     *)
(* rate of its own; hz is the number in the mode's name.                   *)
(***************************************************************************)
EXTENDS Sequences, Naturals

(* A mode: its picture, then the total, the start and the end of the sync  *)
(* pulse of a line and of a frame, the pixel clock in kHz and the rate. No *)
(* mode is interlaced, and each shows the whole of its picture.            *)
Mode(w, h, hz, ht, hs, he, vt, vs, ve, khz) ==
    [size |-> <<w, h>>, hz |-> hz, khz |-> khz,
     line |-> [total |-> ht, display |-> w, start |-> hs, end |-> he],
     frame |-> [total |-> vt, display |-> h, start |-> vs, end |-> ve]]

(* Mutant of Modes: the sync of a mode's line ends where it begins. *)
ModesSwapped == << Mode(640, 480, 60, 800, 752, 656, 525, 490, 492, 25175) >>

Modes == <<
    Mode(640, 480, 60, 800, 656, 752, 525, 490, 492, 25175),
    Mode(800, 600, 60, 1056, 840, 968, 628, 601, 605, 40000),
    Mode(1024, 768, 60, 1344, 1048, 1184, 806, 771, 777, 65000),
    Mode(1280, 1024, 60, 1688, 1328, 1440, 1066, 1025, 1028, 108000),
    Mode(1600, 1200, 60, 2160, 1664, 1856, 1250, 1201, 1204, 162000),
    Mode(640, 480, 72, 832, 656, 752, 520, 490, 492, 31500),
    Mode(800, 600, 72, 1040, 824, 968, 666, 601, 605, 50000),
    Mode(1024, 768, 70, 1328, 1048, 1184, 806, 771, 777, 75000),
    Mode(1280, 1024, 75, 1688, 1328, 1440, 1066, 1025, 1028, 135000),
    Mode(1600, 1200, 65, 2160, 1664, 1856, 1250, 1201, 1204, 175500) >>

(* The first mode of the table that a search accepts, or none. *)
NoMode == 0
FirstMode(Accepted(_)) ==
    IF \E i \in DOMAIN Modes : Accepted(Modes[i])
    THEN CHOOSE i \in DOMAIN Modes :
            Accepted(Modes[i]) /\ \A j \in 1..(i - 1) : ~Accepted(Modes[j])
    ELSE NoMode
=============================================================================
