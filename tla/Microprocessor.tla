--------------------------- MODULE Microprocessor ---------------------------
(***************************************************************************)
(* The geometry processor (graphics/microprocessor.cpp): its ring of       *)
(* commands, its status word and its matrix stack. Vertices, lights,       *)
(* material, viewport and clip planes only hold what is given; so does the *)
(* control word, whose enable bit nothing looks at. A matrix is a value    *)
(* that a load or a product makes.                                         *)
(***************************************************************************)
EXTENDS Sequences, Naturals

CONSTANTS
    FifoSize,   \* Cells of cmd_fifo_: 256.
    StackSize,  \* Matrices of matrix_stack_: 32.
    Matrices    \* Matrices other than the zero one.

ASSUME MicroAssumption ==
    FifoSize \in Nat \ {0, 1} /\ StackSize \in Nat \ {0} /\ 0 \notin Matrices

(* A command that flushes, and any other; the cells are zero at first.     *)
MicroCommands == {"flush", "other"}

(* StatusBit; STATUS_ERROR is never set. *)
MicroBits == {"BUSY", "FULL", "EMPTY", "INTERRUPT"}

VARIABLES
    cells,       \* cmd_fifo_
    head, tail,  \* fifo_head_, fifo_tail_
    microStatus, \* status_
    stack,       \* matrix_stack_
    depth,       \* matrix_stack_depth_
    drawn        \* Auxiliary: the commands the last draw_primitive ran.

ringVars == <<cells, head, tail, drawn>>
microVars == <<ringVars, microStatus, stack, depth>>

MicroTypeOK ==
    /\ cells \in [0..(FifoSize - 1) -> MicroCommands]
    /\ head \in 0..(FifoSize - 1) /\ tail \in 0..(FifoSize - 1)
    /\ microStatus \subseteq MicroBits
    /\ stack \in [0..(StackSize - 1) -> Matrices \union {0}]
    /\ depth \in 0..(StackSize - 1)
    /\ drawn \in Seq(MicroCommands)

(* fifo_full, fifo_empty *)
FifoFull(h) == (h + 1) % FifoSize = tail
FifoEmpty == head = tail

(* The commands that wait. *)
Waiting ==
    [i \in 1..((head - tail + FifoSize) % FifoSize) |->
        cells[(tail + i - 1) % FifoSize]]

-----------------------------------------------------------------------------
(* reset, which leaves the ring's cells as they are. *)
MicroInit ==
    /\ cells = [i \in 0..(FifoSize - 1) |-> "other"]
    /\ head = 0 /\ tail = 0
    /\ microStatus = {"EMPTY"}
    /\ stack = [i \in 0..(StackSize - 1) |-> 0] /\ depth = 0
    /\ drawn = <<>>

(* Also through MICRO_RESET and MICRO_CONTROL. *)
MicroReset ==
    /\ UNCHANGED cells
    /\ head' = 0 /\ tail' = 0
    /\ microStatus' = {"EMPTY"}
    /\ stack' = [i \in 0..(StackSize - 1) |-> 0] /\ depth' = 0
    /\ drawn' = <<>>

(* push_command, by a write of MICRO_CMD_FIFO. *)
PushCommand(c) ==
    /\ ~FifoFull(head)
    /\ cells' = [cells EXCEPT ![head] = c]
    /\ head' = (head + 1) % FifoSize
    /\ microStatus' = (microStatus \ {"EMPTY"})
                        \union (IF FifoFull(head') THEN {"FULL"} ELSE {})
    /\ UNCHANGED <<tail, stack, depth, drawn>>

(* Mutant of DrawPrimitive: the full flag is left. *)
DrawPrimitiveStaysFull ==
    LET flushed == \E i \in DOMAIN Waiting : Waiting[i] = "flush"
    IN  /\ tail' = head
        /\ microStatus' = (IF flushed THEN (microStatus \ {"BUSY"}) \union {"INTERRUPT"}
                                      ELSE microStatus) \union {"EMPTY"}
        /\ drawn' = Waiting
        /\ UNCHANGED <<cells, head, stack, depth>>

(* draw_primitive empties the ring; flush, for each such command in it. *)
DrawPrimitive ==
    LET flushed == \E i \in DOMAIN Waiting : Waiting[i] = "flush"
        flush == IF flushed THEN (microStatus \ {"BUSY"}) \union {"INTERRUPT"}
                            ELSE microStatus
    IN  /\ tail' = head
        /\ microStatus' = (flush \ {"FULL"}) \union {"EMPTY"}
        /\ drawn' = Waiting
        /\ UNCHANGED <<cells, head, stack, depth>>

(* process_vertex, and flush when it is called from outside. *)
ProcessVertex ==
    /\ microStatus' = microStatus \union {"BUSY"}
    /\ UNCHANGED <<ringVars, stack, depth>>

Flush ==
    /\ microStatus' = (microStatus \ {"BUSY"}) \union {"INTERRUPT"}
    /\ UNCHANGED <<ringVars, stack, depth>>

(* load_matrix and multiply_matrix *)
LoadMatrix(m) ==
    /\ stack' = [stack EXCEPT ![depth] = m]
    /\ UNCHANGED <<ringVars, microStatus, depth>>

(* Mutant of PushMatrix: the last push goes past the stack. *)
PushMatrixPast ==
    /\ depth < StackSize
    /\ stack' = [stack EXCEPT ![depth + 1] = stack[depth]]
    /\ depth' = depth + 1
    /\ UNCHANGED <<ringVars, microStatus>>

(* push_matrix: the one that finds no room is ignored. *)
PushMatrix ==
    /\ depth < StackSize - 1
    /\ stack' = [stack EXCEPT ![depth + 1] = stack[depth]]
    /\ depth' = depth + 1
    /\ UNCHANGED <<ringVars, microStatus>>

(* pop_matrix *)
PopMatrix ==
    /\ depth > 0
    /\ depth' = depth - 1
    /\ UNCHANGED <<ringVars, microStatus, stack>>

MicroNext ==
    \/ MicroReset \/ DrawPrimitive \/ ProcessVertex \/ Flush
    \/ \E c \in MicroCommands : PushCommand(c)
    \/ \E m \in Matrices : LoadMatrix(m)
    \/ PushMatrix \/ PopMatrix

MicroSpec == MicroInit /\ [][MicroNext]_microVars

-----------------------------------------------------------------------------
(* Commands run in the order they were written, each once, over however    *)
(* many rounds of the ring; the ring holds one less than it has cells, and *)
(* the full and empty flags in the status word, which are kept apart from  *)
(* the ring, tell the software how it is.                                  *)
Fifo ==
    INSTANCE CommandQueue WITH
        Commands <- MicroCommands, Capacity <- FifoSize - 1,
        queue <- Waiting, ran <- drawn,
        full <- ("FULL" \in microStatus), empty <- ("EMPTY" \in microStatus)
FifoIsQueue == Fifo!Spec

(* The flags agree with the ring's two ends. *)
FlagsTellFifo ==
    /\ "EMPTY" \in microStatus <=> FifoEmpty
    /\ "FULL" \in microStatus <=> FifoFull(head)
=============================================================================
