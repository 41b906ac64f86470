---------------------------- MODULE RegisterStack ----------------------------
(***************************************************************************)
(* What the renaming logic of the R10000 core relies on when it asks for a *)
(* physical register: a stack of registers nobody holds.  A register comes *)
(* out once, and goes back in only while it is out.                        *)
(***************************************************************************)
EXTENDS Integers, Sequences

CONSTANTS
    Regs,   \* The registers the stack hands out.
    None    \* What the caller gets when there is none.

VARIABLES
    stack,  \* The registers nobody holds, the next one to hand out first.
    result  \* What the last allocation returned.

vars == <<stack, result>>

Contents(s) == {s[i] : i \in DOMAIN s}

Distinct(s) == \A i, j \in DOMAIN s : s[i] = s[j] => i = j

Init ==
    /\ stack \in Seq(Regs)
    /\ Distinct(stack)
    /\ Contents(stack) = Regs
    /\ result = None

Allocate ==
    /\ stack # << >>
    /\ result' = Head(stack)
    /\ stack' = Tail(stack)

AllocateNone ==
    /\ stack = << >>
    /\ result' = None
    /\ UNCHANGED stack

Free(p) ==
    /\ p \in Regs \ Contents(stack)
    /\ stack' = <<p>> \o stack
    /\ UNCHANGED result

Next ==
    \/ Allocate
    \/ AllocateNone
    \/ \E p \in Regs : Free(p)

Spec == Init /\ [][Next]_vars
=============================================================================
