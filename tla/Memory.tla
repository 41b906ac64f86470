------------------------------- MODULE Memory -------------------------------
(***************************************************************************)
(* The main memory (memory/memory.cpp), in 32-bit words: accesses to parts *)
(* of a word work like those to a whole one. Only the words that accesses  *)
(* to the addresses of Words reach are kept.                               *)
(***************************************************************************)
EXTENDS Integers

CONSTANT Words  \* Word addresses that are used.

VARIABLES
    ramSize,  \* ram_size_
    ram       \* ram_, at the words that can be reached.

Megabyte == \h40000
Values == {"zero", "data", "firmware"}

(* init: the size is refused, and stays 0, unless it is in range. *)
SizeOf(megabytes) ==
    IF megabytes \in 1..1024 THEN megabytes * Megabyte ELSE 0

(* The weights of the bits of a size or of an address below one. *)
Weights == {\h1, \h2, \h4, \h8, \h10, \h20, \h40, \h80, \h100, \h200, \h400,
            \h800, \h1000, \h2000, \h4000, \h8000, \h10000, \h20000, \h40000,
            \h80000, \h100000, \h200000, \h400000, \h800000, \h1000000,
            \h2000000, \h4000000, \h8000000, \h10000000}

Ones(n) == {p \in Weights : (n \div p) % 2 = 1}

(* Mutant of Masked: the mask is the size itself. *)
MaskedBySize(a) == Ones(a) \intersect Ones(ramSize)

(* An address under ram_mask_, as the bits that are left. The mask is the  *)
(* size less one, whether that is a mask or not.                           *)
Masked(a) == Ones(a) \intersect Ones(ramSize - 1)

PowerOfTwo(n) == n \in Weights

MemoryTypeOK ==
    /\ ramSize \in Nat
    /\ \A c \in DOMAIN ram : c \subseteq Ones(ramSize - 1) /\ ram[c] \in Values

(* init, with the words cleared. *)
MemoryInit(megabytes) ==
    /\ ramSize = SizeOf(megabytes)
    /\ ram = [c \in {Masked(w) : w \in {v \in Words : v < ramSize}} |-> "zero"]

(* read32, and write32 of the words of a set, given that the bus found     *)
(* them below the size.                                                    *)
ReadWord(a) == ram[Masked(a)]

WriteWords(words, value) ==
    ram' = [c \in DOMAIN ram |->
               IF \E a \in words : c = Masked(a) THEN value ELSE ram[c]]
=============================================================================
