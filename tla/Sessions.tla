------------------------------ MODULE Sessions ------------------------------
(***************************************************************************)
(* What the process core promises, with pages, contexts, descriptors and   *)
(* PCBs left out: every terminal holds a stack of processes, its base      *)
(* shell at the bottom and its foreground process on top; the terminals    *)
(* take turns; only the foreground process of the terminal whose turn it   *)
(* is starts a child or ends; and a base shell that ends is replaced, so   *)
(* that a terminal that has a process never loses its last.                *)
(***************************************************************************)
EXTENDS Integers, Sequences, SequencesExt

CONSTANTS PidSet, Terminals

VARIABLES turn,   \* the terminal whose turn it is
          stack   \* terminal -> its processes, base shell first

vars == <<turn, stack>>

TypeOK == /\ turn \in Terminals
          /\ stack \in [Terminals -> Seq(PidSet)]

Used == UNION {ToSet(stack[t]) : t \in Terminals}
After(t) == (t + 1) % (1 + CHOOSE m \in Terminals : \A u \in Terminals : u <= m)

Init == /\ \A t \in Terminals : After(turn) <= t
        /\ turn \in Terminals
        /\ stack = [t \in Terminals |-> <<>>]

\* The turn passes to a terminal that has processes, or that gets its shell now.
Rotate == /\ turn' = After(turn)
          /\ stack[After(turn)] # <<>>
          /\ UNCHANGED stack

Start == /\ turn' = After(turn)
         /\ stack[After(turn)] = <<>>
         /\ \E p \in PidSet \ Used : stack' = [stack EXCEPT ![After(turn)] = <<p>>]

Push == /\ stack[turn] # <<>>
        /\ \E p \in PidSet \ Used : stack' = [stack EXCEPT ![turn] = Append(@, p)]
        /\ UNCHANGED turn

Pop == /\ Len(stack[turn]) > 1
       /\ stack' = [stack EXCEPT ![turn] = Front(@)]
       /\ UNCHANGED turn

Restart == /\ Len(stack[turn]) = 1
           /\ \E p \in (PidSet \ Used) \cup ToSet(stack[turn]) :
                 stack' = [stack EXCEPT ![turn] = <<p>>]
           /\ UNCHANGED turn

Next == Rotate \/ Start \/ Push \/ Pop \/ Restart

Spec == Init /\ [][Next]_vars
=============================================================================
