------------------------------ MODULE FdTable ------------------------------
(***************************************************************************)
(* The file-descriptor table of one process: the row fda_spaces[pid] of    *)
(* taken slots and the flag fda_full[pid] (pid.h, syscall.c).  A table is  *)
(* a record [spaces, full]; the operators below are the table's part of    *)
(* syscall_open, syscall_close, clear_pcb and terminal_open, as functions  *)
(* of a table, so that the process model and the kernel's own open/close   *)
(* inside execute and halt share them.                                     *)
(***************************************************************************)
EXTENDS Integers

CONSTANT FD_ARRAY_SIZE

ASSUME FdAssumption == FD_ARRAY_SIZE \in Nat /\ FD_ARRAY_SIZE > 2

Fds == 0 .. FD_ARRAY_SIZE - 1
Stdio == {0, 1}          \* FD_STDIN_IDX, FD_STDOUT_IDX

FdTables == [spaces : SUBSET Fds, full : BOOLEAN]

\* clear_pcb followed by terminal_open: only stdin and stdout are taken.
FreshTable == [spaces |-> Stdio, full |-> FALSE]
EmptyTable == [spaces |-> {}, full |-> FALSE]

FreeSlots(f) == (2 .. FD_ARRAY_SIZE - 1) \ f.spaces

\* syscall_open scans slots upwards and takes the first one it finds empty.
FirstFree(f, fd) == fd \in FreeSlots(f) /\ \A i \in FreeSlots(f) : fd <= i

\* The two ways open fails on a name that exists: the early return on
\* fda_full, and the scan that finds nothing.
OpenFails(f) == f.full \/ FreeSlots(f) = {}

\* fda_full is set only when the slot taken is the last of the array.
AfterOpen_Unmarked(f, fd) == [spaces |-> f.spaces,
                              full |-> f.full \/ fd = FD_ARRAY_SIZE - 1]
AfterOpen(f, fd) == [spaces |-> f.spaces \cup {fd},
                     full |-> f.full \/ fd = FD_ARRAY_SIZE - 1]

CloseFails(f, fd) == fd < 2 \/ fd >= FD_ARRAY_SIZE \/ fd \notin f.spaces

AfterClose_KeepFull(f, fd) == [spaces |-> f.spaces \ {fd}, full |-> f.full]
AfterClose(f, fd) == [spaces |-> f.spaces \ {fd}, full |-> FALSE]
=============================================================================
