-------------------------- MODULE ProcessesRefine --------------------------
(***************************************************************************)
(* The process core implements Sessions: a terminal's stack is read off    *)
(* the parent pointers, from its foreground process up to its base shell.  *)
(***************************************************************************)
EXTENDS ProcessesProps, Sequences, FiniteSets

\* up[n] is n parents above the foreground process, or NoPid above the base shell.
Lineage(t) ==
    LET up[n \in 0 .. PID_NUM] ==
          IF n = 0 THEN active_processes[t]
          ELSE IF up[n - 1] = NoPid THEN NoPid ELSE parent_pid[up[n - 1]]
        depth == Cardinality({n \in 0 .. PID_NUM : up[n] # NoPid})
    IN  [i \in 1 .. depth |-> up[depth - i]]

Abstract == INSTANCE Sessions
              WITH PidSet <- Pids, Terminals <- Terms, turn <- terminal_active,
                   stack <- [t \in Terms |-> Lineage(t)]

(***************************************************************************)
(* schedule, execute and halt move the terminals' stacks as Sessions says, *)
(* and nothing else does: a child returns to the process that executed it, *)
(* a pid is never in two stacks, and no process is left behind.            *)
(***************************************************************************)
ImplementsSessions == Abstract!Spec
=============================================================================
