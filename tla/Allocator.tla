----------------------------- MODULE Allocator -----------------------------
(***************************************************************************)
(* What malloc promises while it serves one call at a time: a request gets *)
(* an aligned block of pages that overlaps no other, and is refused only   *)
(* when there is none.                                                     *)
(***************************************************************************)
EXTENDS Integers

CONSTANTS Procs, Sizes, Pds, MAX_ORDER,
          Order(_)     \* the order of the block that a size asks for

VARIABLES asked,       \* [Procs -> a size, or 0]
          granted      \* the blocks handed out

vars == <<asked, granted>>

Init == asked = [p \in Procs |-> 0] /\ granted = {}

Pages(b) == {<<b.pd, b.pt + k>> : k \in 0 .. 2 ^ b.order - 1}

\* The places where a block of an order is still to be had.
Places(o) == {l \in [pd : Pds, pt : {k * 2 ^ o : k \in 0 .. 2 ^ (MAX_ORDER - o) - 1}, order : {o}] :
                 \A b \in granted : Pages(b) \cap Pages(l) = {}}

Ask(p) == /\ asked[p] = 0
          /\ \E size \in Sizes : asked' = [asked EXCEPT ![p] = size]
          /\ UNCHANGED granted

Grant(p) == /\ asked[p] # 0
            /\ \E l \in Places(Order(asked[p])) :
                  granted' = granted \cup {[proc |-> p, pd |-> l.pd, pt |-> l.pt,
                                            order |-> l.order, size |-> asked[p]]}
            /\ asked' = [asked EXCEPT ![p] = 0]

Refuse(p) == /\ asked[p] # 0
             /\ Places(Order(asked[p])) = {}
             /\ asked' = [asked EXCEPT ![p] = 0]
             /\ UNCHANGED granted

Next == \E p \in Procs : Ask(p) \/ Grant(p) \/ Refuse(p)

Spec == Init /\ [][Next]_vars
=============================================================================
