----------------------------- MODULE Processes -----------------------------
(***************************************************************************)
(* The process and scheduler core of the kernel: schedule() run by the PIT *)
(* interrupt, the system calls execute, halt, open, close and vidmap, and  *)
(* the exception handlers, which all change the same tables: PCBs,         *)
(* file-descriptor tables, base_processes, active_processes, the user page *)
(* and the TSS (scheduler.c, syscall.c, pid.c, switch.S, idt.c).           *)
(*                                                                         *)
(* There is one CPU.  schedule, execute, halt and the exception handlers   *)
(* run with interrupts disabled from their first change of state to their  *)
(* last, so each is one action, with one exception: halt_context_switch    *)
(* restores the parent's flags, interrupts enabled, two instructions       *)
(* before it restores the parent's stack (switch.S:165-170).  The CPU is   *)
(* then in the "window", an interruptible place of its own.  The other     *)
(* calls run with interrupts enabled but touch only the caller's own       *)
(* table, so an interrupt inside them is indistinguishable from one before *)
(* or after: they are one action too.                                      *)
(***************************************************************************)
EXTENDS FdTable

CONSTANTS PID_NUM,          \* processes the kernel has room for
          TERMINAL_COUNT,   \* terminals
          Statuses,         \* the exit statuses programs use
          Edges             \* which of the edge cases below may happen

(***************************************************************************)
(* Three things the hardware and the programs may do that the kernel does  *)
(* not withstand.  A run names the ones it admits:                         *)
(*   "boot"    a program runs before every terminal has its base shell, so *)
(*             that execute("shell") in schedule may find no slot or pid   *)
(*   "window"  the PIT fires inside halt_context_switch's window           *)
(*   "vidmap"  vidmap is given the address one past the program page       *)
(***************************************************************************)
EdgeCases == {"boot", "window", "vidmap"}

Pids  == 0 .. PID_NUM - 1
Terms == 0 .. TERMINAL_COUNT - 1
NoPid == -1
FaultStatus == 256          \* what a parent gets for a child that faulted
Failure     == -1
CommandPtr  == 512          \* a user-space address: no status and no errno

ASSUME PidAssumption  == PID_NUM \in Nat /\ PID_NUM > 0
ASSUME TermAssumption == TERMINAL_COUNT \in Nat /\ TERMINAL_COUNT > 0
ASSUME StatusAssumption == Statuses \subseteq 0 .. 255
ASSUME EdgeAssumption == Edges \subseteq EdgeCases

VARIABLES
    terminal_active,  \* terminal being scheduled
    base_processes,   \* terminal -> pid of its base shell, or -1
    active_processes, \* terminal -> pid of its foreground process, or -1
    curr_pid,
    in_use, parent_pid, terminal, vidmap, exception,  \* pcb_t, by pid
    curr_executable_fd,
    regs,             \* pcb_t.curr_regs, by pid
    fda,              \* fda_spaces and fda_full, by pid
    usr_page,         \* pid whose 4MB frame is mapped at 128MB
    esp0,             \* pid whose kernel stack the TSS names
    vid_present,      \* is the user page of video memory present?
    cpu,              \* where the CPU is, and on whose kernel stack
    ret               \* what the running program's last system call returned

schedVars == <<terminal_active, base_processes, active_processes>>
pcbVars   == <<in_use, parent_pid, terminal, exception>>
pageVars  == <<usr_page, esp0>>
vars == <<schedVars, curr_pid, pcbVars, vidmap, curr_executable_fd, regs, fda,
          pageVars, vid_present, cpu, ret>>

(***************************************************************************)
(* A saved context.  "execute": saved by exec_context_switch, eflags taken *)
(* by syscall_execute with interrupts enabled.  "switch": saved by         *)
(* halt_context_switch or save_ctx_regs with interrupts disabled, to be    *)
(* continued inside the PIT handler that interrupted the process at "at".  *)
(* "stack" is the kernel stack that holds the frame, "ebx" the register a  *)
(* child's status comes back in.  A context that leads where the kernel    *)
(* was not meant to go on is at "lost" when its frame is one already left, *)
(* and at "dead" when no interrupt is served there any more: a handler's   *)
(* endless loop with interrupts off, or an access to pcbs[-1].             *)
(***************************************************************************)
Kinds  == {"none", "execute", "switch"}
Places == {"idle", "user", "fault", "window", "lost", "dead"}
Ctx == [kind : Kinds, at : Places, stack : Pids, ebx : Statuses \cup {0, FaultStatus}]

ClearedRegs(p)  == [kind |-> "none", at |-> "idle", stack |-> p, ebx |-> 0]
FrameAt(place)  == [kind |-> "switch", at |-> place, stack |-> cpu.stack, ebx |-> 0]
SwitchFrame     == FrameAt(cpu.at)
ExecuteFrame_Stale == regs[curr_pid]
ExecuteFrame    == [kind |-> "execute", at |-> "user", stack |-> cpu.stack, ebx |-> 0]

Results == Statuses \cup Fds \cup {Failure, 0, FaultStatus, CommandPtr}

(***************************************************************************)
(* get_avail_pid: the lowest pid not in use.                               *)
(***************************************************************************)
AvailPid_AnyPid(c, used) == c \in Pids
AvailPid(c, used) == /\ c \in Pids
                     /\ ~used[c]
                     /\ \A p \in Pids : p < c => used[p]

NoPidLeft(used) == \A p \in Pids : used[p]

(***************************************************************************)
(* Boot: init_pids has zeroed the PCBs, the CPU halts with interrupts on,  *)
(* terminal_active is the last terminal so that the first tick takes 0.    *)
(***************************************************************************)
Init ==
    /\ terminal_active = TERMINAL_COUNT - 1
    /\ base_processes = [t \in Terms |-> NoPid]
    /\ active_processes = [t \in Terms |-> NoPid]
    /\ curr_pid = 0
    /\ in_use = [p \in Pids |-> FALSE]
    /\ parent_pid = [p \in Pids |-> 0]
    /\ terminal = [p \in Pids |-> 0]
    /\ vidmap = [p \in Pids |-> FALSE]
    /\ exception = [p \in Pids |-> FALSE]
    /\ curr_executable_fd = [p \in Pids |-> 0]
    /\ regs = [p \in Pids |-> ClearedRegs(p)]
    /\ fda = [p \in Pids |-> EmptyTable]
    /\ usr_page = 0
    /\ esp0 = 0
    /\ vid_present = FALSE
    /\ cpu = [at |-> "idle", stack |-> 0]
    /\ ret = 0

-----------------------------------------------------------------------------
(***************************************************************************)
(* Pieces shared by schedule, execute and halt.  Those that run after      *)
(* schedule has advanced terminal_active read its new value.               *)
(***************************************************************************)

\* page_user_program(p); tss.esp0 = get_pstack_loc(p)
EnterSpace_NextFrame(p) == usr_page' = p + 1 /\ esp0' = p
EnterSpace_OldStack(p) == usr_page' = p /\ esp0' = esp0
EnterSpace(p) == usr_page' = p /\ esp0' = p

\* clear_pcb zeroes the exception flag with the rest of the PCB.
ExceptionAfterInit_Stale(flags, p) == flags[p]
ExceptionAfterInit(flags, p) == FALSE

\* init_pcb(c) and what execute fills in after it.  used and flags are in_use and
\* exception as the handler has changed them so far, exe and saved what it makes
\* of curr_executable_fd and regs.
InitPcb(c, parent, used, flags, exe, saved) ==
    /\ curr_pid' = c
    /\ in_use' = [used EXCEPT ![c] = TRUE]
    /\ parent_pid' = [parent_pid EXCEPT ![c] = parent]
    /\ terminal' = [terminal EXCEPT ![c] = terminal_active']
    /\ vidmap' = [vidmap EXCEPT ![c] = FALSE]
    /\ exception' = [flags EXCEPT ![c] = ExceptionAfterInit(flags, c)]
    /\ curr_executable_fd' = exe
    /\ regs' = saved

\* iret into the new program on its own kernel stack.
EnterProgram(c, place) == /\ EnterSpace(c)
                          /\ cpu' = [at |-> place, stack |-> c]
                          /\ ret' = 0

\* execute("shell") for a terminal without a base shell.  The image is opened
\* and closed again in the table of curr_pid, whoever that is.
LaunchFails(used) == OpenFails(fda[curr_pid]) \/ NoPidLeft(used)

CloseImage_Leak(f, fd) == f
CloseImage(f, fd) == AfterClose(f, fd)

LaunchBase(used, flags, saved) ==
    /\ ~OpenFails(fda[curr_pid])
    /\ \E c \in Pids, fd \in Fds :
         /\ FirstFree(fda[curr_pid], fd)
         /\ AvailPid(c, used)
         /\ InitPcb(c, NoPid, used, flags, [curr_executable_fd EXCEPT ![c] = NoPid],
                    [saved EXCEPT ![c] = ClearedRegs(c)])
         /\ base_processes' = [base_processes EXCEPT ![terminal_active'] = c]
         /\ active_processes' = [active_processes EXCEPT ![terminal_active'] = c]
         /\ fda' = [fda EXCEPT ![curr_pid] = CloseImage(AfterOpen(@, fd), fd),
                               ![c] = FreshTable]
         /\ EnterProgram(c, "user")
    /\ UNCHANGED vid_present

\* The end of halt_context_switch: popfl, then the stack of the context.
Resumed(ctx) ==
    IF ctx.kind = "switch" THEN [at |-> ctx.at, stack |-> ctx.stack]
    ELSE IF ctx.kind = "execute" THEN [at |-> "window", stack |-> cpu.stack]
    ELSE [at |-> "lost", stack |-> cpu.stack]

-----------------------------------------------------------------------------
(***************************************************************************)
(* schedule(), called by pit_handler: three outcomes.                      *)
(***************************************************************************)
NextTerm_SkipsLast == (terminal_active + 1) % (TERMINAL_COUNT - 1)
NextTerm == (terminal_active + 1) % TERMINAL_COUNT

TickLands == /\ cpu.at # "dead"
             /\ cpu.at = "window" => "window" \in Edges

\* The next terminal has no shell yet: start one.
TickStart ==
    /\ TickLands
    /\ base_processes[NextTerm] = NoPid
    /\ terminal_active' = NextTerm
    /\ LaunchBase(in_use, exception, [regs EXCEPT ![curr_pid] = SwitchFrame])

\* It has none, and execute fails: schedule returns to the process it
\* interrupted, with terminal_active already advanced.
TickStartFails ==
    /\ TickLands
    /\ base_processes[NextTerm] = NoPid
    /\ LaunchFails(in_use)
    /\ terminal_active' = NextTerm
    /\ regs' = [regs EXCEPT ![curr_pid] = SwitchFrame]
    /\ UNCHANGED <<base_processes, active_processes, curr_pid, pcbVars, vidmap,
                   curr_executable_fd, fda, pageVars, vid_present, cpu, ret>>

\* It has one: switch to its foreground process.
TickSwitch ==
    /\ TickLands
    /\ base_processes[NextTerm] # NoPid
    /\ terminal_active' = NextTerm
    /\ LET to    == active_processes[NextTerm]
           saved == [regs EXCEPT ![curr_pid] = SwitchFrame]
       IN  /\ curr_pid' = to
           /\ EnterSpace(to)
           /\ regs' = saved
           /\ cpu' = Resumed(saved[to])
    /\ ret' = 0
    /\ UNCHANGED <<base_processes, active_processes, pcbVars, vidmap,
                   curr_executable_fd, fda, vid_present>>

Tick == TickStart \/ TickStartFails \/ TickSwitch

-----------------------------------------------------------------------------
(***************************************************************************)
(* What a program can do.  A base shell (syscalls/ece391shell.c) only      *)
(* reads, writes, executes and halts.  Without the "boot" edge, no program *)
(* does anything before every terminal has its shell.  Nothing checks that *)
(* the process running belongs to terminal_active: a "stray" one, left     *)
(* running by TickStartFails, makes its calls in that terminal's entries.  *)
(***************************************************************************)
Booted == \A t \in Terms : base_processes[t] # NoPid
IsBase == curr_pid = base_processes[terminal_active]

Started == Booted \/ "boot" \in Edges
ProgramRuns == cpu.at = "user" /\ Started

\* execute of a program that exists, from a process with a free slot and a
\* free pid: the child starts, its parent keeps the image's descriptor.  The
\* pid of a program that is running and no longer in use (HaltBaseFails) may be
\* the one it gets: then its own context is saved over the child's, and iret
\* goes to a kernel address in user mode.
SysExecute ==
    /\ ProgramRuns
    /\ ~OpenFails(fda[curr_pid])
    /\ UNCHANGED <<terminal_active, base_processes, vid_present>>
    /\ \E c \in Pids, fd \in Fds :
         /\ FirstFree(fda[curr_pid], fd)
         /\ AvailPid(c, in_use)
         /\ InitPcb(c, curr_pid, in_use, exception,
                    [curr_executable_fd EXCEPT ![c] = 0, ![curr_pid] = fd],
                    [regs EXCEPT ![c] = ClearedRegs(c), ![curr_pid] = ExecuteFrame])
         /\ active_processes' = [active_processes EXCEPT ![terminal_active] = c]
         /\ fda' = [fda EXCEPT ![curr_pid] = AfterOpen(@, fd), ![c] = FreshTable]
         /\ EnterProgram(c, IF c = curr_pid THEN "fault" ELSE "user")

\* execute("shell") by a program under a terminal that has no base shell makes
\* it one.  The caller's registers are not saved: its context stays the one of
\* a call or an interrupt that it has since returned from.
SysExecuteBase ==
    /\ ProgramRuns
    /\ base_processes[terminal_active] = NoPid
    /\ UNCHANGED terminal_active
    /\ LaunchBase(in_use, exception, [regs EXCEPT ![curr_pid].at = "lost"])

\* execute that returns: a bad name, type or image, or no descriptor (-1); or
\* no pid, or an image that cannot be read to its end, where the caller's page
\* is put back.  Then execute returns 1, and sys_execute hands the program its
\* own ebx, the address of the command.
SysExecuteFails ==
    /\ ProgramRuns
    /\ \/ ret' = Failure /\ UNCHANGED usr_page
       \/ /\ ~OpenFails(fda[curr_pid])
          /\ ret' = CommandPtr
          /\ IF NoPidLeft(in_use) THEN UNCHANGED usr_page ELSE usr_page' = curr_pid
    /\ UNCHANGED <<schedVars, curr_pid, pcbVars, vidmap, curr_executable_fd, regs,
                   fda, esp0, vid_present, cpu>>

(***************************************************************************)
(* halt, and the exception handlers, which set the process's flag and call *)
(* halt(0).  flags is the exception array as the handler has left it.      *)
(***************************************************************************)

Freed(p) == [in_use EXCEPT ![p] = FALSE]

\* A base shell gives up its pid and its terminal, and launches another.
HaltBase(flags) ==
    /\ IsBase
    /\ UNCHANGED terminal_active
    /\ LaunchBase(Freed(curr_pid), flags, regs)

\* It cannot: halt returns to the program, which has no pid any more.  "back" is
\* where halt returns to: a system call to the program, an exception handler to
\* its endless loop.
HaltBaseFails(flags, back) ==
    /\ IsBase
    /\ LaunchFails(Freed(curr_pid))
    /\ in_use' = Freed(curr_pid)
    /\ base_processes' = [base_processes EXCEPT ![terminal_active] = NoPid]
    /\ active_processes' = [active_processes EXCEPT ![terminal_active] = NoPid]
    /\ exception' = flags
    /\ cpu' = [cpu EXCEPT !.at = back]
    /\ ret' = 0
    /\ UNCHANGED <<terminal_active, curr_pid, parent_pid, terminal, vidmap,
                   curr_executable_fd, regs, fda, pageVars, vid_present>>

\* The user page of video memory goes when no foreground process asked for it.
VidmapAfterHalt_Kept(child) == vid_present
VidmapAfterHalt(child) ==
    /\ vid_present
    /\ vidmap[child] => \E t \in Terms : /\ active_processes'[t] # NoPid
                                         /\ vidmap[active_processes'[t]]

HaltTarget_Base(child) == base_processes[terminal_active]
HaltTarget(child) == parent_pid[child]

\* Any other process: back to its parent, which closes the descriptor of the
\* image it executed and gets the status in the ebx of its saved context.
HaltToParent(status, flags, back) ==
    /\ ~IsBase
    /\ parent_pid[curr_pid] # NoPid
    /\ LET child == curr_pid
           par   == HaltTarget(child)
           fd    == curr_executable_fd[par]
           told  == IF flags[child] THEN FaultStatus ELSE status
           saved == [regs EXCEPT ![par].ebx = told, ![child] = FrameAt(back)]
       IN  /\ curr_pid' = par
           /\ in_use' = Freed(child)
           /\ active_processes' = [active_processes EXCEPT ![terminal_active] = par]
           /\ fda' = IF CloseFails(fda[par], fd) THEN fda
                     ELSE [fda EXCEPT ![par] = AfterClose(@, fd)]
           /\ vid_present' = VidmapAfterHalt(child)
           /\ EnterSpace(par)
           /\ regs' = saved
           /\ cpu' = Resumed(saved[par])
           /\ exception' = flags
    /\ ret' = 0
    /\ UNCHANGED <<terminal_active, base_processes, parent_pid, terminal, vidmap,
                   curr_executable_fd>>

\* A base shell under a terminal that is not its own has no parent to go back to:
\* halt takes to_pid = -1 and indexes pcbs, fda_spaces and the kernel stacks with
\* it.  What the CPU does from there on is not the kernel's any more.
HaltOrphan(flags) ==
    /\ ~IsBase
    /\ parent_pid[curr_pid] = NoPid
    /\ in_use' = Freed(curr_pid)
    /\ active_processes' = [active_processes EXCEPT ![terminal_active] = NoPid]
    /\ exception' = flags
    /\ cpu' = [cpu EXCEPT !.at = "dead"]
    /\ UNCHANGED <<terminal_active, base_processes, curr_pid, parent_pid, terminal,
                   vidmap, curr_executable_fd, regs, fda, pageVars, vid_present, ret>>

syscall_halt(status, flags, back) ==
    \/ HaltBase(flags)
    \/ HaltBaseFails(flags, back)
    \/ HaltToParent(status, flags, back)
    \/ HaltOrphan(flags)

SysHalt(status) == ProgramRuns /\ syscall_halt(status, exception, "user")

Exception ==
    /\ cpu.at \in {"user", "fault"}
    /\ Started
    /\ syscall_halt(0, [exception EXCEPT ![curr_pid] = TRUE], "dead")

\* Past the window: halt_context_switch loads ebp and esp from the parent's
\* saved context.  If a tick has overwritten it meanwhile, that context leads
\* back into the frame of an interrupt already served, on the kernel stack of
\* the process that halted; execute is never returned from.
HaltReturn ==
    /\ cpu.at = "window"
    /\ IF regs[curr_pid].kind = "execute"
       THEN /\ cpu' = [at |-> regs[curr_pid].at, stack |-> regs[curr_pid].stack]
            /\ ret' = regs[curr_pid].ebx
       ELSE /\ cpu' = [cpu EXCEPT !.at = "lost"]
            /\ ret' = ret
    /\ UNCHANGED <<schedVars, curr_pid, pcbVars, vidmap, curr_executable_fd, regs,
                   fda, pageVars, vid_present>>

-----------------------------------------------------------------------------
(***************************************************************************)
(* open, close and vidmap.  The base shells make none of these calls.      *)
(***************************************************************************)
OtherProgram == ProgramRuns /\ parent_pid[curr_pid] # NoPid

SysOpen ==
    /\ OtherProgram
    /\ IF OpenFails(fda[curr_pid])
       THEN ret' = Failure /\ UNCHANGED fda
       ELSE \E fd \in Fds :
              /\ FirstFree(fda[curr_pid], fd)
              /\ fda' = [fda EXCEPT ![curr_pid] = AfterOpen(@, fd)]
              /\ ret' = fd
    /\ UNCHANGED <<schedVars, curr_pid, pcbVars, vidmap, curr_executable_fd, regs,
                   pageVars, vid_present, cpu>>

SysClose(fd) ==
    /\ OtherProgram
    /\ IF CloseFails(fda[curr_pid], fd)
       THEN ret' = Failure /\ UNCHANGED fda
       ELSE ret' = 0 /\ fda' = [fda EXCEPT ![curr_pid] = AfterClose(@, fd)]
    /\ UNCHANGED <<schedVars, curr_pid, pcbVars, vidmap, curr_executable_fd, regs,
                   pageVars, vid_present, cpu>>

\* A pointer outside the program page is refused.  The bound is inclusive: the
\* first address past the page gets the mapping and then faults when the call
\* stores the result, before the PCB says that the process has it.
SysVidmap ==
    /\ OtherProgram
    /\ \/ vidmap' = [vidmap EXCEPT ![curr_pid] = TRUE] /\ vid_present' = TRUE
          /\ ret' = 0 /\ cpu' = cpu
       \/ ret' = Failure /\ UNCHANGED <<vidmap, vid_present, cpu>>
       \/ "vidmap" \in Edges /\ vid_present' = TRUE
          /\ cpu' = [cpu EXCEPT !.at = "fault"] /\ UNCHANGED <<vidmap, ret>>
    /\ UNCHANGED <<schedVars, curr_pid, pcbVars, curr_executable_fd, regs, fda,
                   pageVars>>

-----------------------------------------------------------------------------
Halt == \E status \in Statuses : SysHalt(status)
Close == \E fd \in Fds : SysClose(fd)

Next == \/ Tick
        \/ SysExecute
        \/ SysExecuteBase
        \/ SysExecuteFails
        \/ Halt
        \/ Exception
        \/ HaltReturn
        \/ SysOpen
        \/ Close
        \/ SysVidmap

Spec == Init /\ [][Next]_vars

(***************************************************************************)
(* Fairness.  The PIT keeps firing and the 8259 latches a request raised   *)
(* while interrupts are disabled, so a tick that is possible again and     *)
(* again happens (SF; without the "window" edge it is not possible inside  *)
(* the window).  The CPU executes on: the window is left.                  *)
(***************************************************************************)
Fairness == SF_vars(Tick) /\ WF_vars(HaltReturn)

FairSpec == Spec /\ Fairness
=============================================================================
