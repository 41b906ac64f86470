----------------------------- MODULE Registers -----------------------------
(***************************************************************************)
(* Words, as the sets of their bits that are set, and accesses to a part   *)
(* of one. The devices on the bus are made of 32-bit registers; a byte or  *)
(* half-word write reads the register, replaces the part and writes the    *)
(* whole word back.                                                        *)
(***************************************************************************)

(* Bits of two bytes are enough to tell the parts of a word apart.         *)
Low == {0, 1}
High == {8}
Bits == Low \union High
Lanes == {Low, High, Bits}

(* write8 and write16, before write32 is called with the result. value has *)
(* only bits of its lane.                                                  *)
Merged(word, lane, value) == (word \ lane) \union value
=============================================================================
