------------------------------ MODULE MCR10000 ------------------------------
(* Programs for the core: the words its memory is filled with.             *)
EXTENDS R10000

Word(rd, src, unit) == [rd |-> rd, src |-> src, unit |-> unit]

Nop == Word(0, {}, ALU1)

(* Each instruction waits for the one before it. *)
ChainWords == {BusError, Word(1, {1}, ALU1)}

(* Independent writers, and readers of the last one on another unit.       *)
MixedWords ==
    {BusError, Word(1, {}, ALU1)} \union {Word(1, {1}, u) : u \in OtherUnits}

(* A program without fetch errors and without dependences. *)
NopWords == {Nop}
=============================================================================
