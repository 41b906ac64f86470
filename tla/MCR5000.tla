------------------------------ MODULE MCR5000 ------------------------------
(* What the software under the core writes to STATUS.                      *)
EXTENDS R5000

Off == [ie |-> FALSE, im |-> FALSE, exl |-> FALSE, erl |-> FALSE, bev |-> TRUE]

On == [ie |-> TRUE, im |-> TRUE, exl |-> FALSE, erl |-> FALSE, bev |-> FALSE]

(* Enabled, but held off: at exception level, and at error level.          *)
Writes == {Off, On, [On EXCEPT !.exl = TRUE], [On EXCEPT !.erl = TRUE]}
=============================================================================
