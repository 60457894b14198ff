---------------------------- MODULE MallocProps ----------------------------
(***************************************************************************)
(* What must be true of the blocks malloc hands out.                       *)
(***************************************************************************)
EXTENDS Malloc

\* Type invariant; it bounds every index into the tree.
TypeOK == /\ malloc_metadata \in [Pds -> [Nodes -> [unavail : BOOLEAN, split : BOOLEAN]]]
          /\ present \subseteq Pds
          /\ \A p \in Procs : p \in Idle \/ call[p] \in Calls
          /\ granted \subseteq Blocks
          /\ freed \subseteq granted

Pages(b) == {<<b.pd, b.pt + k>> : k \in 0 .. 2 ^ b.order - 1}
Disjoint(b, c) == Pages(b) \cap Pages(c) = {}

\* No two blocks overlap, whoever asked for them: a node that is taken, or that has
\* been split, is passed over ("No block can be allocated from this node",
\* paging.c:126).
NoOverlap == \A b, c \in granted : b # c => Disjoint(b, c)

\* A call never hands out pages of a block that was granted before the call began,
\* whatever other calls do at the same time.
LaterCallsDisjoint ==
    [][\A p \in Procs : Grant(p) => \A b \in call[p].before : Disjoint(b, BlockOf(p))]_vars

\* A taken leaf of the tree is never reached through a node that looks free: while
\* no call is under way, exactly the ancestors of the blocks granted are split.
SplitAboveGranted ==
    Idle = Procs =>
        \A pd \in Pds, i \in Nodes :
            malloc_metadata[pd][i].split <=>
                \E j \in Nodes : malloc_metadata[pd][j].unavail /\ i # j /\
                    \E o \in Orders : (j + 1) \div 2 ^ o = i + 1

\* A block is at least as large as what was asked for ("Allocate memory with passed
\* size", syscall.c:444).
BlockHoldsRequest == \A b \in granted : PAGE_SIZE * 2 ^ b.order >= b.size

\* What the page directory maps a page of a block to: paging_init stores the address
\* of the big page in the field that holds its upper bits.
PtBaseAddr(pd) == ((MALLOC_PD_START + pd) * BIG_PAGE_SIZE) % FRAMES
Frame(page) == PtBaseAddr(page[1]) + page[2]

\* Different pages are different memory, so that blocks do not overlap there either.
OwnMemory ==
    \A b, c \in granted : b # c =>
        {Frame(x) : x \in Pages(b)} \cap {Frame(x) : x \in Pages(c)} = {}

\* malloc fails only while programs hold on to the memory ("Free memory with passed
\* pointer and de-allocate buddy blocks", syscall.c:478).
FailsOnlyWhenHeld ==
    [][\A p \in Procs : Fail(p) =>
          \A pd \in Pds : \E b \in granted \ freed : b.pd = pd]_vars

Requests == {s \in Sizes : s > 0 /\ s <= BIG_PAGE_SIZE}

A == INSTANCE Allocator WITH
        Sizes <- Requests,
        Order <- TargetOrder,
        asked <- [p \in Procs |-> IF p \in Idle THEN 0 ELSE call[p].size]

Overlapped(p) == p \notin Idle /\ ~call[p].alone

\* Calls that no other overlaps implement the allocator, whatever was granted before:
\* a free block of the order is found if there is one in any of the trees, and it
\* overlaps no other.
Allocates == A!Init /\ [][A!Next \/ \E p \in Procs : /\ Overlapped(p)
                                                     /\ Grant(p) \/ Fail(p)]_(A!vars)
=============================================================================
