----------------------------- MODULE InputStream -----------------------------
(***************************************************************************)
(* What a port promises the software that reads it: bytes come out in the  *)
(* order in which they went in, none is lost or doubled, and those that    *)
(* belong together (a key with its prefix, a mouse packet, a reply to a    *)
(* command) go in together.                                                *)
(***************************************************************************)
EXTENDS Sequences

CONSTANT Frames  \* What may go in at once: non-empty sequences of bytes.

VARIABLE waiting  \* The bytes that have not been read.

Init == waiting = <<>>

Arrive == \E f \in Frames : waiting' = waiting \o f

Take == waiting # <<>> /\ waiting' = Tail(waiting)

Clear == waiting' = <<>>

Next == Arrive \/ Take \/ Clear

Spec == Init /\ [][Next]_waiting
=============================================================================
