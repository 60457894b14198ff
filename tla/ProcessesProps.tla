--------------------------- MODULE ProcessesProps ---------------------------
(***************************************************************************)
(* What the process core promises.  The invariants are conjunctions of     *)
(* named parts.  SessionTree and ImageFdHeld hold without the edge case    *)
(* "boot", whatever the other edge cases do; with it, KeptButByStrays      *)
(* says which steps break the tree.                                        *)
(***************************************************************************)
EXTENDS Processes

Live(p)      == p \in Pids /\ in_use[p]
ChildOf(c, p) == Live(c) /\ parent_pid[c] = p
IsActive(p)  == \E t \in Terms : active_processes[t] = p
Suspended(p) == Live(p) /\ ~IsActive(p)     \* waiting in execute for a child

(***************************************************************************)
(* Every variable has its type (scheduler.c, pid.h).                       *)
(***************************************************************************)
TypeOK ==
    /\ terminal_active \in Terms
    /\ base_processes \in [Terms -> Pids \cup {NoPid}]
    /\ active_processes \in [Terms -> Pids \cup {NoPid}]
    /\ curr_pid \in Pids
    /\ in_use \in [Pids -> BOOLEAN]
    /\ parent_pid \in [Pids -> Pids \cup {NoPid}]
    /\ terminal \in [Pids -> Terms]
    /\ vidmap \in [Pids -> BOOLEAN]
    /\ exception \in [Pids -> BOOLEAN]
    /\ curr_executable_fd \in [Pids -> Fds \cup {NoPid}]
    /\ regs \in [Pids -> Ctx]
    /\ fda \in [Pids -> FdTables]
    /\ usr_page \in Pids
    /\ esp0 \in Pids
    /\ vid_present \in BOOLEAN
    /\ cpu \in [at : Places, stack : Pids]
    /\ ret \in Results

(***************************************************************************)
(* The tables of the scheduler and the parent pointers of the PCBs agree:  *)
(* each terminal is empty, or holds one chain of processes from its base   *)
(* shell (parent -1) to its foreground process, each the parent of the     *)
(* next; and no pid is in use outside those chains.                        *)
(***************************************************************************)
TerminalEnds ==
    \A t \in Terms :
        /\ base_processes[t] = NoPid <=> active_processes[t] = NoPid
        /\ base_processes[t] # NoPid =>
             /\ Live(base_processes[t])
             /\ terminal[base_processes[t]] = t
             /\ parent_pid[base_processes[t]] = NoPid
             /\ Live(active_processes[t])
             /\ terminal[active_processes[t]] = t

Ancestry ==
    \A p \in Pids : in_use[p] =>
        IF parent_pid[p] = NoPid
        THEN base_processes[terminal[p]] = p
        ELSE Live(parent_pid[p]) /\ terminal[parent_pid[p]] = terminal[p]

OneChild ==
    \A p \in Pids, c \in Pids, d \in Pids : ChildOf(c, p) /\ ChildOf(d, p) => c = d

ForegroundIsLeaf ==
    \A p \in Pids : in_use[p] =>
        (active_processes[terminal[p]] = p <=> \A c \in Pids : ~ChildOf(c, p))

SessionTree == TerminalEnds /\ Ancestry /\ OneChild /\ ForegroundIsLeaf

(***************************************************************************)
(* The CPU runs the foreground process of the terminal being scheduled, in *)
(* that process's own page and with the TSS on its own kernel stack.       *)
(* Screen, keyboard buffer and RTC are chosen by terminal_active, memory   *)
(* and files by curr_pid: they must belong together.                       *)
(***************************************************************************)
RunningIsForeground ==
    cpu.at # "idle" => /\ curr_pid = active_processes[terminal_active]
                       /\ usr_page = curr_pid
                       /\ esp0 = curr_pid

(***************************************************************************)
(* Whoever is not running can be continued: a preempted foreground process *)
(* from a frame schedule left, a process waiting in execute from the       *)
(* context execute left, each on its own kernel stack and nobody else's;   *)
(* and control is never lost.                                              *)
(***************************************************************************)
OwnFrame(p, kind, places) == /\ regs[p].kind = kind
                             /\ regs[p].at \in places
                             /\ regs[p].stack = p

Resumable ==
    /\ \A t \in Terms :
         LET p == active_processes[t]
         IN  p # NoPid /\ p # curr_pid => OwnFrame(p, "switch", {"user", "fault"})
    /\ \A p \in Pids :
         Suspended(p) \/ (p = curr_pid /\ cpu.at = "window")
           => OwnFrame(p, "execute", {"user"})
    /\ cpu.at \in {"user", "fault"} => cpu.stack = curr_pid
    /\ cpu.at # "lost"

(***************************************************************************)
(* A process waiting in execute still holds the descriptor of the image it *)
(* executed, so the close in its child's halt closes that one and the      *)
(* descriptor is not leaked (syscall.c:44-45, 221).                        *)
(***************************************************************************)
ImageFdHeld ==
    \A p \in Pids : Suspended(p) => ~CloseFails(fda[p], curr_executable_fd[p])

(***************************************************************************)
(* When execute fails inside schedule (scheduler.c:38), the process that   *)
(* was interrupted goes on under the next terminal, a stray.  Neither that *)
(* tick nor any other breaks the tree or loses an image, nor does any call *)
(* or fault of a process under its own terminal: only a stray's execute    *)
(* and halt do, which write entries of a terminal that is not its own      *)
(* (syscall.c:36,42,45,178,230).                                           *)
(***************************************************************************)
IsStray == curr_pid # active_processes[terminal_active]

KeptButByStrays ==
    [][ SessionTree /\ (Tick \/ ~IsStray)
          => SessionTree' /\ (ImageFdHeld => ImageFdHeld') ]_vars

(***************************************************************************)
(* fda_full never claims that a table with room is full: open would refuse *)
(* a file it could open.  Stdin and stdout of a live process stay taken.   *)
(***************************************************************************)
FullIsFull ==
    \A p \in Pids : in_use[p] => /\ Stdio \subseteq fda[p].spaces
                                 /\ fda[p].full => FreeSlots(fda[p]) = {}

(***************************************************************************)
(* The user page of video memory is present only while some live process   *)
(* has asked for it (pid.h:85 pcb.vidmap, syscall.c:47-59, 422-426).       *)
(***************************************************************************)
VidmapOwned == vid_present => \E p \in Pids : in_use[p] /\ vidmap[p]

(***************************************************************************)
(* A parent is told 256 exactly when its child faulted: the exception flag *)
(* of an earlier process with the same pid is never taken for the child's  *)
(* (syscall.c:64-66, idt.c:80, pid.c:142).                                 *)
(***************************************************************************)
FaultReported ==
    [][ /\ Halt => regs'[curr_pid'].ebx # FaultStatus
        /\ Exception /\ ~IsBase => regs'[curr_pid'].ebx = FaultStatus ]_vars

(***************************************************************************)
(* A step changes only the process it runs in and the one it switches to;  *)
(* every other live process keeps its PCB, its saved context and its open  *)
(* files.  A tick does not even change the process it interrupts, but for  *)
(* the saved context, although execute("shell") borrows its table.         *)
(***************************************************************************)
Kept(p) == /\ in_use'[p]
           /\ parent_pid'[p] = parent_pid[p]
           /\ terminal'[p] = terminal[p]
           /\ vidmap'[p] = vidmap[p]
           /\ curr_executable_fd'[p] = curr_executable_fd[p]
           /\ fda'[p] = fda[p]

OthersUntouched ==
    [][ \A p \in Pids : in_use[p] =>
          /\ p # curr_pid /\ p # curr_pid' => Kept(p) /\ regs'[p] = regs[p]
          /\ Tick => Kept(p) ]_vars

(***************************************************************************)
(* The scheduler gives every terminal the CPU again and again, whatever    *)
(* the programs do (scheduler.c:15-17).                                    *)
(***************************************************************************)
EveryTerminalRuns ==
    \A t \in Terms : []<>(/\ terminal_active = t
                          /\ cpu.at = "user"
                          /\ curr_pid = active_processes[t])

\* A halt never loses the parent it returns to (switch.S:116): the parent's context is
\* still there when halt_context_switch loads it.  The edge case "window" breaks it.
ControlKept == cpu.at # "lost"

\* execute returns 0, -1 or a child's status (syscall.c:81); it returns 1, which becomes
\* the address of the command, when no pid is free or the image cannot be read.
ExecuteResult == ret # CommandPtr

\* A base shell that exits is relaunched under the pid it had (syscall.c:22).  With the
\* edge case "boot" a lower pid may be free by then.
BasePidKept ==
    [][ \A t \in Terms : base_processes[t] # NoPid =>
                           base_processes'[t] = base_processes[t] ]_vars

\* The video page is there for every foreground process that has it (syscall.c:49).
\* halt does not look at processes that wait for a child, so they may lose it.
VidmapServed ==
    \A t \in Terms : LET p == active_processes[t]
                     IN  p # NoPid /\ vidmap[p] => vid_present
=============================================================================
