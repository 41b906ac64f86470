------------------------------- MODULE FreeList -------------------------------
(***************************************************************************)
(* The free list of physical registers of the R10000 core                  *)
(* (emu/src/cpu/mips_r10000.cpp).  The list has no storage of its own: it  *)
(* is threaded through phys_gpr_arch_map_, the table that says which       *)
(* architectural register a held physical register stands for.  A free     *)
(* register's slot holds the number of the next free register instead.     *)
(* The floating-point list (phys_fpr_arch_map_) is the same code again.    *)
(*                                                                         *)
(* chain is auxiliary: the sequence the links are meant to spell out.      *)
(* FreeListProofs shows that they do, and that the list is a RegisterStack.*)
(***************************************************************************)
EXTENDS Integers, Sequences

CONSTANTS
    NumArch,  \* Architectural registers: 32 in the source.
    NumPhys   \* NUM_PHYS_REGS: 128 in the source.

ASSUME SizeAssumption ==
    /\ NumArch \in Nat \ {0}
    /\ NumPhys \in Nat
    /\ NumArch < NumPhys

None == -1

Arch == 0 .. NumArch - 1
Phys == 0 .. NumPhys - 1
Renamable == NumArch .. NumPhys - 1

VARIABLES
    freeHead,  \* free_phys_gpr_head_
    archMap,   \* phys_gpr_arch_map_
    result,    \* The value the last allocate_phys_gpr returned.
    chain      \* Auxiliary: the free registers, in list order.

vars == <<freeHead, archMap, result, chain>>

-----------------------------------------------------------------------------
(* MIPSR10000::reset and init_free_lists *)

Init ==
    /\ freeHead = NumArch
    /\ archMap = [p \in Phys |->
                    IF p < NumArch THEN p
                    ELSE IF p < NumPhys - 1 THEN p + 1 ELSE None]
    /\ result = None
    /\ chain = [i \in 1 .. NumPhys - NumArch |-> NumArch + i - 1]

(* Mutant of Allocate: the slot is overwritten before the link is read. *)
AllocateLinkLost(a) ==
    /\ freeHead # None
    /\ result' = freeHead
    /\ freeHead' = a
    /\ archMap' = [archMap EXCEPT ![freeHead] = a]
    /\ chain' = Tail(chain)

(* Mutant of Allocate: the head is handed out and left on the list. *)
AllocateStuckHead(a) ==
    /\ freeHead # None
    /\ result' = freeHead
    /\ archMap' = [archMap EXCEPT ![freeHead] = a]
    /\ UNCHANGED <<freeHead, chain>>

(* allocate_phys_gpr: the head of the list, or -1 when there is none. *)
Allocate(a) ==
    /\ freeHead # None
    /\ result' = freeHead
    /\ freeHead' = archMap[freeHead]
    /\ archMap' = [archMap EXCEPT ![freeHead] = a]
    /\ chain' = Tail(chain)

AllocateNone ==
    /\ freeHead = None
    /\ result' = None
    /\ UNCHANGED <<freeHead, archMap, chain>>

(* Callers give back what they hold; R10000!HeldOnce is that obligation.   *)
Held == Renamable \ {chain[i] : i \in DOMAIN chain}

(* Mutant of Free: the range check lets architectural registers in. *)
FreeAnything(p) ==
    /\ p \in Held \union Arch
    /\ archMap' = [archMap EXCEPT ![p] = freeHead]
    /\ freeHead' = p
    /\ chain' = <<p>> \o chain
    /\ UNCHANGED result

(* free_phys_gpr: a register that is not renamable is left alone. *)
Free(p) ==
    /\ p \in Held \union Arch
    /\ IF p < NumArch
       THEN UNCHANGED <<freeHead, archMap, chain>>
       ELSE /\ archMap' = [archMap EXCEPT ![p] = freeHead]
            /\ freeHead' = p
            /\ chain' = <<p>> \o chain
    /\ UNCHANGED result

Next ==
    \/ \E a \in Arch \ {0} : Allocate(a)
    \/ AllocateNone
    \/ \E p \in Phys : Free(p)

Spec == Init /\ [][Next]_vars

-----------------------------------------------------------------------------
TypeOK ==
    /\ freeHead \in Renamable \union {None}
    /\ archMap \in [Phys -> Phys \union {None}]
    /\ result \in Renamable \union {None}
    /\ chain \in Seq(Renamable)

(* The links spell out one finite list without repetition: following them  *)
(* from the head visits each free register once and stops at -1.  A link   *)
(* overwritten by an allocation, or a register given back twice, would     *)
(* leave a cycle or lose the tail (allocate_phys_gpr, free_phys_gpr).      *)
Threaded ==
    /\ \A i, j \in DOMAIN chain : chain[i] = chain[j] => i = j
    /\ freeHead = IF chain = << >> THEN None ELSE chain[1]
    /\ \A i \in DOMAIN chain :
          archMap[chain[i]] = IF i = Len(chain) THEN None ELSE chain[i + 1]

(* The threaded list implements the stack of free registers that renaming  *)
(* assumes: allocate_phys_gpr returns a register nobody holds, and -1 only *)
(* when every renamable register is held.                                  *)
Stack == INSTANCE RegisterStack
            WITH Regs <- Renamable, None <- None,
                 stack <- chain, result <- result

ImplementsStack == Stack!Spec
=============================================================================
