---------------------------- MODULE CommandQueue ----------------------------
(***************************************************************************)
(* A queue of commands with room for so many: one that finds no room is    *)
(* dropped, those that wait are taken out all together, in order, and two  *)
(* flags tell whether there is room and whether any command waits.         *)
(***************************************************************************)
EXTENDS Sequences, Naturals

CONSTANTS Commands, Capacity

VARIABLES
    queue,       \* The commands that wait.
    ran,         \* Those that were taken out last.
    full, empty  \* The flags.

Init == queue = <<>> /\ ran = <<>> /\ full = FALSE /\ empty = TRUE

Flagged ==
    /\ full' = (Len(queue') = Capacity)
    /\ empty' = (queue' = <<>>)

Put(c) ==
    /\ queue' = IF Len(queue) < Capacity THEN Append(queue, c) ELSE queue
    /\ Flagged
    /\ UNCHANGED ran

Run == ran' = queue /\ queue' = <<>> /\ Flagged

Clear == queue' = <<>> /\ ran' = <<>> /\ Flagged

Next == (\E c \in Commands : Put(c)) \/ Run \/ Clear

Spec == Init /\ [][Next]_<<queue, ran, full, empty>>
=============================================================================
