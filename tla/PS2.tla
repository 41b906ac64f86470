--------------------------------- MODULE PS2 ---------------------------------
(***************************************************************************)
(* The keyboard and mouse controller (devices/ps2.cpp) and the widget that *)
(* feeds it (gui/framebufferwidget.cpp). The widget turns the host's keys  *)
(* and mouse into bytes while it has grabbed the input; the software reads *)
(* both devices through one data port and sends them commands.             *)
(*                                                                         *)
(* Bytes are "break" (0xF0), a key's scan code (the key), "move" (of a     *)
(* mouse packet) and "reply" (of a device to a command).                   *)
(***************************************************************************)
EXTENDS Sequences, Naturals

CONSTANTS
    Keys,      \* Keys with a scan code other than 0 in set2_scancode.
    PS2Bound   \* Bound on the bytes that wait, of both devices together.

ASSUME PS2Assumption ==
    /\ PS2Bound \in Nat \ {0}
    /\ {"break", "move", "reply"} \intersect Keys = {}

(* StatusBit; the others stay clear. *)
StatusBits == {"OBF", "IBF", "MOUSE"}

VARIABLES
    status,       \* regs_[REG_STATUS]
    kbd, mouse,   \* kbd_buffer_, mouse_buffer_
    kbdOn,        \* kbd_enabled_
    mouseOn,      \* mouse_enabled_
    grabbed,      \* input_grabbed_
    down,         \* Auxiliary: the keys that are down.
    guestDown,    \* Auxiliary: those that are down by what was sent.
    unsent        \* Auxiliary: those whose release was not sent.

keyVars == <<down, guestDown, unsent>>
ps2Vars == <<status, kbd, mouse, kbdOn, mouseOn, grabbed, keyVars>>

Bytes == Keys \union {"break", "move", "reply"}

PS2TypeOK ==
    /\ status \subseteq StatusBits
    /\ kbd \in Seq(Bytes) /\ mouse \in Seq(Bytes)
    /\ kbdOn \in BOOLEAN /\ mouseOn \in BOOLEAN /\ grabbed \in BOOLEAN
    /\ down \subseteq Keys /\ guestDown \subseteq Keys /\ unsent \subseteq Keys

Room(n) == Len(kbd) + Len(mouse) + n <= PS2Bound

-----------------------------------------------------------------------------
(* PS2::reset, and the widget as it is made. *)
PS2Init ==
    /\ status = {} /\ kbd = <<>> /\ mouse = <<>>
    /\ kbdOn = TRUE /\ mouseOn = TRUE
    /\ grabbed = FALSE
    /\ down = {} /\ guestDown = {} /\ unsent = {}

PS2Reset ==
    /\ status' = {} /\ kbd' = <<>> /\ mouse' = <<>>
    /\ kbdOn' = TRUE /\ mouseOn' = TRUE
    /\ UNCHANGED <<grabbed, keyVars>>

(* read_reg, the data port: the keyboard first, and output-buffer-full goes *)
(* out whatever else is buffered. An empty port changes nothing.            *)
ReadData ==
    /\ kbd # <<>> \/ mouse # <<>>
    /\ status' = status \ {"OBF"}
    /\ kbd' = IF kbd # <<>> THEN Tail(kbd) ELSE kbd
    /\ mouse' = IF kbd = <<>> THEN Tail(mouse) ELSE mouse
    /\ UNCHANGED <<kbdOn, mouseOn, grabbed, keyVars>>

(* handle_controller_command. A byte that should follow goes to a device   *)
(* like any other, and nothing takes input-buffer-full out again; a result *)
(* is announced and cannot be read.                                        *)
ControllerCommand ==
    /\ \/ /\ status' \in {status \union {"OBF"}, status \union {"IBF"}}
          /\ UNCHANGED <<kbdOn, mouseOn>>
       \/ /\ kbdOn' \in BOOLEAN
          /\ UNCHANGED <<status, mouseOn>>
       \/ /\ mouseOn' \in BOOLEAN
          /\ UNCHANGED <<status, kbdOn>>
    /\ UNCHANGED <<kbd, mouse, grabbed, keyVars>>

(* handle_keyboard_command and handle_mouse_command: the lengths of the    *)
(* replies they give. A command with a parameter gets none.                *)
KeyboardReplies == 1..3
MouseReplies == 1..4

Reply(n) == [i \in 1..n |-> "reply"]

(* write_reg, the data port: the device is the one the host has heard last, *)
(* whatever the software means.                                             *)
WriteData ==
    /\ \/ /\ status' = status \union {"IBF"}
          /\ UNCHANGED <<kbd, mouse>>
       \/ /\ "MOUSE" \notin status
          /\ \E n \in KeyboardReplies : Room(n) /\ kbd' = kbd \o Reply(n)
          /\ status' = status \union {"OBF"}
          /\ UNCHANGED mouse
       \/ /\ "MOUSE" \in status
          /\ \E n \in MouseReplies : Room(n) /\ mouse' = mouse \o Reply(n)
          /\ status' = status \union {"OBF"}
          /\ UNCHANGED kbd
    /\ UNCHANGED <<kbdOn, mouseOn, grabbed, keyVars>>

-----------------------------------------------------------------------------
(* push_keyboard_scancode, for each of a frame's bytes. *)
PushKeyboard(frame) ==
    IF kbdOn
    THEN /\ Room(Len(frame))
         /\ kbd' = kbd \o frame
         /\ status' = (status \union {"OBF"}) \ {"MOUSE"}
    ELSE UNCHANGED <<kbd, status>>

(* keyPressEvent and sendKey, without the repeats the host makes. *)
PressKey(k) ==
    /\ k \notin down
    /\ down' = down \union {k}
    /\ IF grabbed
       THEN /\ PushKeyboard(<<k>>)
            /\ guestDown' = IF kbdOn THEN guestDown \union {k} ELSE guestDown
       ELSE UNCHANGED <<kbd, status, guestDown>>
    /\ unsent' = unsent \ {k}
    /\ UNCHANGED <<mouse, kbdOn, mouseOn, grabbed>>

(* Mutant of ReleaseKey: the prefix is not sent. *)
ReleaseKeyNoPrefix(k) ==
    /\ k \in down
    /\ down' = down \ {k}
    /\ IF grabbed
       THEN PushKeyboard(<<k>>)
       ELSE UNCHANGED <<kbd, status>>
    /\ guestDown' = guestDown
    /\ unsent' = IF grabbed /\ kbdOn THEN unsent ELSE unsent \union {k}
    /\ UNCHANGED <<mouse, kbdOn, mouseOn, grabbed>>

(* keyReleaseEvent and sendKey: nothing is sent once the grab is gone. *)
ReleaseKey(k) ==
    /\ k \in down
    /\ down' = down \ {k}
    /\ IF grabbed
       THEN PushKeyboard(<<"break", k>>)
       ELSE UNCHANGED <<kbd, status>>
    /\ guestDown' = IF grabbed /\ kbdOn THEN guestDown \ {k} ELSE guestDown
    /\ unsent' = IF grabbed /\ kbdOn THEN unsent ELSE unsent \union {k}
    /\ UNCHANGED <<mouse, kbdOn, mouseOn, grabbed>>

(* The right control key, and focusOutEvent. *)
ReleaseInput ==
    /\ grabbed
    /\ grabbed' = FALSE
    /\ UNCHANGED <<status, kbd, mouse, kbdOn, mouseOn, keyVars>>

Packet == <<"move", "move", "move">>

(* Mutant of PushMouse: the packet stops where the buffer is full. *)
PushMouseCut ==
    IF mouseOn
    THEN /\ Room(1)
         /\ mouse' = mouse \o (IF Room(3) THEN Packet ELSE <<"move">>)
         /\ status' = status \union {"OBF", "MOUSE"}
    ELSE UNCHANGED <<mouse, status>>

(* push_mouse_data *)
PushMouse ==
    IF mouseOn
    THEN /\ Room(3)
         /\ mouse' = mouse \o Packet
         /\ status' = status \union {"OBF", "MOUSE"}
    ELSE UNCHANGED <<mouse, status>>

(* mousePressEvent: the first click grabs the input, and is sent as well. *)
Click ==
    /\ grabbed' = TRUE
    /\ PushMouse
    /\ UNCHANGED <<kbd, kbdOn, mouseOn, keyVars>>

(* mouseMoveEvent *)
Move ==
    /\ grabbed
    /\ PushMouse
    /\ UNCHANGED <<kbd, kbdOn, mouseOn, grabbed, keyVars>>

PS2Next ==
    \/ PS2Reset \/ ReadData \/ ControllerCommand \/ WriteData
    \/ \E k \in Keys : PressKey(k) \/ ReleaseKey(k)
    \/ ReleaseInput \/ Click \/ Move

PS2Spec == PS2Init /\ [][PS2Next]_ps2Vars

-----------------------------------------------------------------------------
(* Key codes with their prefix, mouse packets and replies are read whole   *)
(* and in order from each device, whatever the host and the software do in *)
(* between, until a reset.                                                 *)
KeyboardStream ==
    INSTANCE InputStream WITH
        Frames <- {<<k>> : k \in Keys} \union {<<"break", k>> : k \in Keys}
                  \union {Reply(n) : n \in KeyboardReplies},
        waiting <- kbd
MouseStream ==
    INSTANCE InputStream WITH
        Frames <- {Packet} \union {Reply(n) : n \in MouseReplies},
        waiting <- mouse
PS2IsStream == KeyboardStream!Spec /\ MouseStream!Spec

(* A key the guest takes for pressed is down, unless its release came when *)
(* the window had lost the grab or the guest had the keyboard disabled.    *)
StuckOnlyUnsent == guestDown \subseteq down \union unsent
=============================================================================
