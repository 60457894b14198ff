------------------------------- MODULE Malloc -------------------------------
(***************************************************************************)
(* malloc: syscall_malloc, syscall_free (syscall.c) and malloc_tree        *)
(* (paging.c), a buddy allocator over MALLOC_PD_SIZE big pages that all    *)
(* programs share.  malloc_metadata[pd] is a binary tree in an array.      *)
(*                                                                         *)
(* System calls run with interrupts enabled, so the calls of different     *)
(* programs interleave: here at each node of the tree.  What is left of a  *)
(* call of malloc_tree after its inner call returns depends only on the    *)
(* node, so the recursion needs no stack.                                  *)
(***************************************************************************)
EXTENDS Integers, FiniteSets

CONSTANTS Procs, Sizes,
          MALLOC_PD_START, MALLOC_PD_SIZE, MAX_ORDER, PAGE_SIZE,
          FRAMES,      \* what the pt_base_addr bits of a PDE can hold (2^20)
          MAX_CALLS,   \* bound: how many blocks are granted or being asked for
          MAX_FREED    \* bound: how many blocks are given to free

ASSUME PdAssumption == MALLOC_PD_SIZE \in Nat \ {0} /\ MALLOC_PD_START \in Nat
ASSUME OrderAssumption == MAX_ORDER \in Nat
ASSUME PageAssumption == PAGE_SIZE \in Nat \ {0} /\ FRAMES \in Nat \ {0}
ASSUME SizesAssumption == Sizes \subseteq Int
\* Arithmetic, for proofs: the provers know nothing of powers.
ASSUME PowersAssumption == 2 ^ 0 = 1 /\ \A n \in 0 .. MAX_ORDER : 2 ^ (n + 1) = 2 * 2 ^ n
ASSUME BoundAssumption == MAX_CALLS \in Nat /\ MAX_FREED \in Nat

NUM_PT == 2 ^ MAX_ORDER
BIG_PAGE_SIZE == PAGE_SIZE * NUM_PT
MMAP_SIZE == 2 ^ (MAX_ORDER + 1) - 1

Pds == 0 .. MALLOC_PD_SIZE - 1
Nodes == 0 .. MMAP_SIZE - 1
Orders == 0 .. MAX_ORDER

VARIABLES
    malloc_metadata,  \* [Pds -> [Nodes -> [unavail, split]]]
    present,          \* the PDEs that are present
    call,             \* where each program is in its call of malloc
    granted,          \* history: the blocks malloc has returned
    freed             \* history: those given to free since

vars == <<malloc_metadata, present, call, granted, freed>>

Blocks == [proc : Procs, pd : Pds, pt : 0 .. NUM_PT - 1, order : Orders, size : Sizes]

NotCalling == [at |-> "none"]
Calls == [at : {"visit", "take", "return"}, size : Sizes, pd : Pds, tree_idx : Nodes,
          curr_order : Orders, target_order : Orders, pt : -1 .. NUM_PT - 1,
          before : SUBSET Blocks,        \* history: what was granted before the call
          alone : BOOLEAN]               \* history: has no other call overlapped it?

Init == /\ malloc_metadata = [pd \in Pds |-> [i \in Nodes |-> [unavail |-> FALSE,
                                                               split   |-> FALSE]]]
        /\ present = {}
        /\ call = [p \in Procs |-> NotCalling]
        /\ granted = {}
        /\ freed = {}

Left(i) == 2 * i + 1
Right(i) == 2 * i + 2
Parent(i) == (i - 1) \div 2
IsLeft(i) == i % 2 = 1

\* The largest order whose block is not larger than size.
TargetOrder(size) ==
    LET fits == {o \in Orders : PAGE_SIZE * 2 ^ o <= size}
    IN  IF fits = {} THEN 0 ELSE CHOOSE o \in fits : \A q \in fits : q <= o

Node(c) == malloc_metadata[c.pd][c.tree_idx]

\* tree_idx, curr_order times to the left, as the number of a page table entry.
PtOf(c) == 2 ^ c.curr_order * (c.tree_idx + 1) - 1 - (MMAP_SIZE - NUM_PT)

BlockOf(p) == [proc |-> p, pd |-> call[p].pd, pt |-> call[p].pt,
               order |-> call[p].target_order, size |-> call[p].size]

-----------------------------------------------------------------------------
Idle == {p \in Procs : call[p] = NotCalling}

Malloc(p) ==
    /\ p \in Idle
    /\ Cardinality(granted) + Cardinality(Procs \ Idle) < MAX_CALLS
    /\ \E size \in Sizes :
          /\ size > 0 /\ size <= BIG_PAGE_SIZE
          /\ call' = [q \in Procs |->
                IF q = p THEN [at |-> "visit", size |-> size, pd |-> 0, tree_idx |-> 0,
                               curr_order |-> MAX_ORDER, target_order |-> TargetOrder(size),
                               pt |-> -1, before |-> granted, alone |-> Idle = Procs]
                ELSE IF q \in Idle THEN NotCalling ELSE [call[q] EXCEPT !.alone = FALSE]]
    /\ UNCHANGED <<malloc_metadata, present, granted, freed>>

\* malloc_tree is called: the tests of line 127 and the descent to the left.
Visit_IgnoresSplit(p) ==
    /\ call[p].at = "visit"
    /\ LET c == call[p]
       IN  call' = [call EXCEPT ![p] =
              IF Node(c).unavail
              THEN [c EXCEPT !.at = "return", !.pt = -1]
              ELSE IF c.curr_order = c.target_order THEN [c EXCEPT !.at = "take"]
              ELSE [c EXCEPT !.tree_idx = Left(@), !.curr_order = @ - 1]]
    /\ UNCHANGED <<malloc_metadata, present, granted, freed>>

Visit(p) ==
    /\ call[p].at = "visit"
    /\ LET c == call[p]
       IN  call' = [call EXCEPT ![p] =
              IF Node(c).unavail \/ (Node(c).split /\ c.curr_order = c.target_order)
              THEN [c EXCEPT !.at = "return", !.pt = -1]
              ELSE IF c.curr_order = c.target_order THEN [c EXCEPT !.at = "take"]
              ELSE [c EXCEPT !.tree_idx = Left(@), !.curr_order = @ - 1]]
    /\ UNCHANGED <<malloc_metadata, present, granted, freed>>

\* The block is taken, some time after the tests.
Take(p) ==
    /\ call[p].at = "take"
    /\ LET c == call[p]
       IN  /\ malloc_metadata' = [malloc_metadata EXCEPT ![c.pd][c.tree_idx].unavail = TRUE]
           /\ call' = [call EXCEPT ![p] = [c EXCEPT !.at = "return", !.pt = PtOf(c)]]
    /\ UNCHANGED <<present, granted, freed>>

\* An inner call returns to the call for the parent node, which tries the right
\* subtree after the left one and marks itself split if a block was found.
Return_NoSplit(p) ==
    /\ call[p].at = "return" /\ call[p].tree_idx # 0
    /\ LET c  == call[p]
           up == [c EXCEPT !.tree_idx = Parent(@), !.curr_order = @ + 1]
       IN  /\ malloc_metadata' = malloc_metadata
           /\ call' = [call EXCEPT ![p] =
                 IF c.pt = -1 /\ IsLeft(c.tree_idx)
                 THEN [c EXCEPT !.at = "visit", !.tree_idx = Right(Parent(@))] ELSE up]
    /\ UNCHANGED <<present, granted, freed>>

Return_LeftOnly(p) ==
    /\ call[p].at = "return" /\ call[p].tree_idx # 0
    /\ LET c  == call[p]
           up == [c EXCEPT !.tree_idx = Parent(@), !.curr_order = @ + 1]
       IN  /\ malloc_metadata' = IF c.pt = -1 THEN malloc_metadata
                    ELSE [malloc_metadata EXCEPT ![c.pd][up.tree_idx].split = TRUE]
           /\ call' = [call EXCEPT ![p] = up]
    /\ UNCHANGED <<present, granted, freed>>

Return(p) ==
    /\ call[p].at = "return" /\ call[p].tree_idx # 0
    /\ LET c  == call[p]
           up == [c EXCEPT !.tree_idx = Parent(@), !.curr_order = @ + 1]
       IN  IF c.pt # -1
           THEN /\ malloc_metadata' = [malloc_metadata EXCEPT ![c.pd][up.tree_idx].split = TRUE]
                /\ call' = [call EXCEPT ![p] = up]
           ELSE /\ call' = [call EXCEPT ![p] =
                      IF IsLeft(c.tree_idx)
                      THEN [c EXCEPT !.at = "visit", !.tree_idx = Right(Parent(@))] ELSE up]
                /\ UNCHANGED malloc_metadata
    /\ UNCHANGED <<present, granted, freed>>

\* The outermost call returns to syscall_malloc.
Rooted(p) == call[p].at = "return" /\ call[p].tree_idx = 0

Grant(p) == /\ Rooted(p) /\ call[p].pt # -1
            /\ present' = present \cup {call[p].pd}
            /\ granted' = granted \cup {BlockOf(p)}
            /\ call' = [call EXCEPT ![p] = NotCalling]
            /\ UNCHANGED <<malloc_metadata, freed>>

NextPd(p) == /\ Rooted(p) /\ call[p].pt = -1 /\ call[p].pd + 1 \in Pds
             /\ call' = [call EXCEPT ![p].at = "visit", ![p].pd = @ + 1]
             /\ UNCHANGED <<malloc_metadata, present, granted, freed>>

\* malloc returns NULL.
Fail(p) == /\ Rooted(p) /\ call[p].pt = -1 /\ call[p].pd + 1 \notin Pds
           /\ call' = [call EXCEPT ![p] = NotCalling]
           /\ UNCHANGED <<malloc_metadata, present, granted, freed>>

\* syscall_free does nothing.
Free(p) == /\ p \in Idle
           /\ Cardinality(freed) < MAX_FREED
           /\ \E b \in granted \ freed : b.proc = p /\ freed' = freed \cup {b}
           /\ UNCHANGED <<malloc_metadata, present, call, granted>>

Next == \E p \in Procs : \/ Malloc(p) \/ Visit(p) \/ Take(p) \/ Return(p)
                         \/ Grant(p) \/ NextPd(p) \/ Fail(p) \/ Free(p)

Spec == Init /\ [][Next]_vars
=============================================================================
