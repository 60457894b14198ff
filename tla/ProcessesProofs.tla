-------------------------- MODULE ProcessesProofs --------------------------
(***************************************************************************)
(* Proofs about the process core, for every number of pids, terminals and  *)
(* descriptors.  What holds for every set of edge cases comes first: types *)
(* and descriptor tables, and that only strays break the process tree.     *)
(* Without the edge case "boot" there are no strays once programs run: the *)
(* tree, and what rests on it, then holds in every reachable state.        *)
(***************************************************************************)
EXTENDS ProcessesRefine, FiniteSetTheorems, SequenceTheorems, WellFoundedInduction, TLAPS

\* The process running is the foreground process of the terminal scheduled.
Attributed == curr_pid = active_processes[terminal_active]

\* schedule switches to a pid: TypeOK is not inductive without this.
ForegroundThere ==
    cpu.at # "dead" =>
      \A t \in Terms : base_processes[t] # NoPid => active_processes[t] # NoPid

TInv == TypeOK /\ ForegroundThere

USE PidAssumption, TermAssumption, StatusAssumption, FdAssumption

(***************************************************************************)
(* Helpers.                                                                *)
(***************************************************************************)

\* schedule's (terminal_active + 1) % TERMINAL_COUNT is a terminal.
LEMMA NextTermType == terminal_active \in Terms => NextTerm \in Terms
BY DEF Terms, NextTerm

\* Opening and closing yields a table again (syscall_open, syscall_close).
LEMMA TableTypes ==
    ASSUME NEW f \in FdTables, NEW fd \in Fds
    PROVE  AfterOpen(f, fd) \in FdTables /\ AfterClose(f, fd) \in FdTables
BY DEF FdTables, AfterOpen, AfterClose

LEMMA FreshTypes == FreshTable \in FdTables /\ EmptyTable \in FdTables
BY DEF FdTables, FreshTable, EmptyTable, Stdio, Fds

LEMMA CtxTypes ==
    ASSUME TypeOK
    PROVE  /\ \A p \in Pids : ClearedRegs(p) \in Ctx
           /\ SwitchFrame \in Ctx
           /\ \A place \in Places : FrameAt(place) \in Ctx
           /\ ExecuteFrame \in Ctx
           /\ \A ctx \in Ctx : Resumed(ctx) \in [at : Places, stack : Pids]
BY DEF TypeOK, Ctx, Kinds, Places, ClearedRegs, SwitchFrame, FrameAt, ExecuteFrame, Resumed

-----------------------------------------------------------------------------
(***************************************************************************)
(* Types, for every set of edge cases.  One lemma per action.              *)
(***************************************************************************)
LEMMA InitTypes == Init => TInv
<1> SUFFICES ASSUME Init PROVE TInv
  OBVIOUS
<1>1. /\ 0 \in Pids
      /\ TERMINAL_COUNT - 1 \in Terms
      /\ 0 \in Terms
      /\ 0 \in Fds
  BY DEF Pids, Terms, Fds
<1>2. TypeOK
  BY <1>1, FreshTypes
     DEF Init, TypeOK, Ctx, Kinds, Places, ClearedRegs, Results, NoPid
<1>3. ForegroundThere
  BY DEF Init, ForegroundThere
<1>4. QED
  BY <1>2, <1>3 DEF TInv

\* A step that changes no terminal's processes and does not revive the CPU.
LEMMA SameForeground ==
    ASSUME ForegroundThere, UNCHANGED <<base_processes, active_processes>>,
           cpu'.at # "dead" => cpu.at # "dead"
    PROVE  ForegroundThere'
BY DEF ForegroundThere

\* What LaunchBase changes keeps its type.
LEMMA LaunchTypes ==
    ASSUME TInv, cpu.at # "dead", terminal_active' \in Terms,
           NEW used \in [Pids -> BOOLEAN], NEW flags \in [Pids -> BOOLEAN],
           NEW saved \in [Pids -> Ctx],
           LaunchBase(used, flags, saved)
    PROVE  TInv'
<1>1. PICK c \in Pids, fd \in Fds :
         /\ AvailPid(c, used)
         /\ InitPcb(c, NoPid, used, flags, [curr_executable_fd EXCEPT ![c] = NoPid],
                    [saved EXCEPT ![c] = ClearedRegs(c)])
         /\ base_processes' = [base_processes EXCEPT ![terminal_active'] = c]
         /\ active_processes' = [active_processes EXCEPT ![terminal_active'] = c]
         /\ fda' = [fda EXCEPT ![curr_pid] = CloseImage(AfterOpen(@, fd), fd),
                               ![c] = FreshTable]
         /\ EnterProgram(c, "user")
         /\ UNCHANGED vid_present
  BY DEF LaunchBase
<1>2. /\ ClearedRegs(c) \in Ctx
      /\ FreshTable \in FdTables
      /\ CloseImage(AfterOpen(fda[curr_pid], fd), fd) \in FdTables
  BY CtxTypes, FreshTypes, TableTypes DEF TInv, TypeOK, CloseImage
<1>3. [at |-> "user", stack |-> c] \in [at : Places, stack : Pids] /\ 0 \in Results
  BY DEF Places, Results
<1>4. TypeOK'
  BY <1>1, <1>2, <1>3
     DEF TInv, TypeOK, InitPcb, EnterProgram, EnterSpace, ExceptionAfterInit, NoPid
<1>5. ForegroundThere'
  <2>1. c # NoPid
    BY DEF Pids, NoPid
  <2>2. QED
    BY <1>1, <2>1 DEF TInv, TypeOK, ForegroundThere
<1>6. QED
  BY <1>4, <1>5 DEF TInv

LEMMA TickStartTypes == ASSUME TInv, TickStart PROVE TInv'
<1>1. NextTerm \in Terms /\ terminal_active' = NextTerm /\ cpu.at # "dead"
  BY NextTermType DEF TInv, TypeOK, TickStart, TickLands
<1> DEFINE saved == [regs EXCEPT ![curr_pid] = SwitchFrame]
<1>2. saved \in [Pids -> Ctx]
  BY CtxTypes DEF TInv, TypeOK
<1>3. LaunchBase(in_use, exception, saved)
  BY DEF TickStart
<1> HIDE DEF saved
<1>4. QED
  BY <1>1, <1>2, <1>3, LaunchTypes DEF TInv, TypeOK

LEMMA TickStartFailsTypes == ASSUME TInv, TickStartFails PROVE TInv'
<1>1. TypeOK'
  BY NextTermType, CtxTypes DEF TInv, TypeOK, TickStartFails, pcbVars, pageVars
<1>2. ForegroundThere'
  BY SameForeground DEF TInv, TickStartFails
<1>3. QED
  BY <1>1, <1>2 DEF TInv

LEMMA TickSwitchTypes == ASSUME TInv, TickSwitch PROVE TInv'
<1> DEFINE saved == [regs EXCEPT ![curr_pid] = SwitchFrame]
           to == active_processes[NextTerm]
<1>1. NextTerm \in Terms /\ cpu.at # "dead" /\ base_processes[NextTerm] # NoPid
  BY NextTermType DEF TInv, TypeOK, TickSwitch, TickLands
<1>2. to \in Pids
  BY <1>1 DEF TInv, TypeOK, ForegroundThere
<1>3. saved \in [Pids -> Ctx]
  BY CtxTypes DEF TInv, TypeOK
<1>4. /\ terminal_active' = NextTerm
      /\ curr_pid' = to
      /\ usr_page' = to /\ esp0' = to
      /\ regs' = saved
      /\ cpu' = Resumed(saved[to])
      /\ ret' = 0
      /\ UNCHANGED <<base_processes, active_processes, pcbVars, vidmap,
                     curr_executable_fd, fda, vid_present>>
  BY DEF TickSwitch, EnterSpace
<1>5. cpu' \in [at : Places, stack : Pids]
  BY <1>2, <1>3, <1>4, CtxTypes DEF TInv
<1> HIDE DEF saved, to
<1>6. TypeOK'
  BY <1>1, <1>2, <1>3, <1>4, <1>5 DEF TInv, TypeOK, pcbVars, Results
<1>7. ForegroundThere'
  BY <1>1, <1>4, SameForeground DEF TInv
<1>8. QED
  BY <1>6, <1>7 DEF TInv

LEMMA ExecuteTypes == ASSUME TInv, SysExecute PROVE TInv'
<1>1. PICK c \in Pids, fd \in Fds :
         /\ FirstFree(fda[curr_pid], fd)
         /\ AvailPid(c, in_use)
         /\ InitPcb(c, curr_pid, in_use, exception,
                    [curr_executable_fd EXCEPT ![c] = 0, ![curr_pid] = fd],
                    [regs EXCEPT ![c] = ClearedRegs(c), ![curr_pid] = ExecuteFrame])
         /\ active_processes' = [active_processes EXCEPT ![terminal_active] = c]
         /\ fda' = [fda EXCEPT ![curr_pid] = AfterOpen(@, fd), ![c] = FreshTable]
         /\ EnterProgram(c, IF c = curr_pid THEN "fault" ELSE "user")
  BY DEF SysExecute
<1> DEFINE place == IF c = curr_pid THEN "fault" ELSE "user"
<1>2. UNCHANGED <<terminal_active, base_processes, vid_present>> /\ cpu.at = "user"
  BY DEF SysExecute, ProgramRuns
<1>3. /\ ClearedRegs(c) \in Ctx /\ ExecuteFrame \in Ctx
      /\ FreshTable \in FdTables /\ AfterOpen(fda[curr_pid], fd) \in FdTables
      /\ [at |-> place, stack |-> c] \in [at : Places, stack : Pids]
      /\ 0 \in Results /\ 0 \in Fds
  BY CtxTypes, FreshTypes, TableTypes DEF TInv, TypeOK, Places, Results, Fds
<1> HIDE DEF place
<1>4. EnterProgram(c, place)
  BY <1>1 DEF place
<1>5. TypeOK'
  BY <1>1, <1>2, <1>3, <1>4
     DEF TInv, TypeOK, InitPcb, EnterProgram, EnterSpace, ExceptionAfterInit
<1>6. ForegroundThere'
  <2>1. c # NoPid
    BY DEF Pids, NoPid
  <2>2. QED
    BY <1>1, <1>2, <2>1 DEF TInv, TypeOK, ForegroundThere
<1>7. QED
  BY <1>5, <1>6 DEF TInv

LEMMA ExecuteBaseTypes == ASSUME TInv, SysExecuteBase PROVE TInv'
<1> DEFINE saved == [regs EXCEPT ![curr_pid].at = "lost"]
<1>1. saved \in [Pids -> Ctx]
  <2>1. \A ctx \in Ctx : [ctx EXCEPT !.at = "lost"] \in Ctx
    BY DEF Ctx, Places
  <2>2. regs \in [Pids -> Ctx] /\ curr_pid \in Pids
    BY DEF TInv, TypeOK
  <2>3. PICK ctx : ctx = [regs[curr_pid] EXCEPT !.at = "lost"]
    OBVIOUS
  <2>4. ctx \in Ctx /\ saved = [regs EXCEPT ![curr_pid] = ctx]
    BY <2>1, <2>2, <2>3
  <2>5. QED
    BY <2>2, <2>4
<1>2. LaunchBase(in_use, exception, saved)
  BY DEF SysExecuteBase
<1> HIDE DEF saved
<1>3. cpu.at # "dead" /\ terminal_active' \in Terms
  BY DEF SysExecuteBase, ProgramRuns, TInv, TypeOK
<1>4. QED
  BY <1>1, <1>2, <1>3, LaunchTypes DEF TInv, TypeOK

\* The ways a process ends, for the flags halt or an exception passes on.
LEMMA HaltBaseTypes ==
    ASSUME TInv, cpu.at # "dead", NEW flags \in [Pids -> BOOLEAN], HaltBase(flags)
    PROVE  TInv'
<1> DEFINE used == [in_use EXCEPT ![curr_pid] = FALSE]
<1>1. used \in [Pids -> BOOLEAN] /\ terminal_active' \in Terms
  BY DEF TInv, TypeOK, HaltBase
<1>2. LaunchBase(used, flags, regs)
  BY DEF HaltBase, Freed
<1> HIDE DEF used
<1>3. QED
  BY <1>1, <1>2, LaunchTypes DEF TInv, TypeOK

LEMMA HaltBaseFailsTypes ==
    ASSUME TInv, cpu.at # "dead", NEW flags \in [Pids -> BOOLEAN],
           NEW back \in {"user", "dead"}, HaltBaseFails(flags, back)
    PROVE  TInv'
<1>1. TypeOK'
  BY DEF TInv, TypeOK, HaltBaseFails, Freed, pageVars, Places, Results
<1>2. ForegroundThere'
  BY DEF TInv, TypeOK, ForegroundThere, HaltBaseFails
<1>3. QED
  BY <1>1, <1>2 DEF TInv

LEMMA HaltToParentTypes ==
    ASSUME TInv, cpu.at # "dead", NEW status \in Statuses \cup {0},
           NEW flags \in [Pids -> BOOLEAN], NEW back \in {"user", "dead"},
           HaltToParent(status, flags, back)
    PROVE  TInv'
<1> DEFINE par  == parent_pid[curr_pid]
           fd   == curr_executable_fd[par]
           told == IF flags[curr_pid] THEN FaultStatus ELSE status
           saved == [regs EXCEPT ![par].ebx = told, ![curr_pid] = FrameAt(back)]
<1>1. /\ par # NoPid
      /\ curr_pid' = par
      /\ in_use' = [in_use EXCEPT ![curr_pid] = FALSE]
      /\ active_processes' = [active_processes EXCEPT ![terminal_active] = par]
      /\ fda' = IF CloseFails(fda[par], fd) THEN fda
                ELSE [fda EXCEPT ![par] = AfterClose(@, fd)]
      /\ vid_present' = VidmapAfterHalt(curr_pid)
      /\ usr_page' = par /\ esp0' = par
      /\ regs' = saved
      /\ cpu' = Resumed(saved[par])
      /\ exception' = flags
      /\ ret' = 0
      /\ UNCHANGED <<terminal_active, base_processes, parent_pid, terminal, vidmap,
                     curr_executable_fd>>
  BY DEF HaltToParent, HaltTarget, Freed, EnterSpace
<1>2. par \in Pids
  BY <1>1 DEF TInv, TypeOK
<1>3. fda' \in [Pids -> FdTables]
  <2>1. CASE CloseFails(fda[par], fd)
    BY <1>1, <2>1 DEF TInv, TypeOK
  <2>2. CASE ~CloseFails(fda[par], fd)
    <3>1. fd \in Fds
      BY <1>2, <2>2 DEF TInv, TypeOK, CloseFails, Fds, NoPid
    <3>2. AfterClose(fda[par], fd) \in FdTables
      BY <1>2, <3>1, TableTypes DEF TInv, TypeOK
    <3>3. QED
      BY <1>1, <1>2, <2>2, <3>2 DEF TInv, TypeOK
  <2>3. QED
    BY <2>1, <2>2
<1>4. saved \in [Pids -> Ctx]
  <2>1. told \in Statuses \cup {0, FaultStatus}
    OBVIOUS
  <2>2. FrameAt(back) \in Ctx
    BY CtxTypes DEF TInv, Places
  <2> HIDE DEF told
  <2>3. [regs EXCEPT ![par].ebx = told] \in [Pids -> Ctx]
    BY <1>2, <2>1 DEF TInv, TypeOK, Ctx
  <2>4. \A r \in [Pids -> Ctx] : [r EXCEPT ![curr_pid] = FrameAt(back)] \in [Pids -> Ctx]
    BY <2>2
  <2>5. QED
    BY <2>3, <2>4
<1> HIDE DEF saved
<1>5. cpu' \in [at : Places, stack : Pids]
  BY <1>1, <1>2, <1>4, CtxTypes DEF TInv
<1>6. vid_present' \in BOOLEAN /\ ret' \in Results
  BY <1>1 DEF VidmapAfterHalt, TInv, TypeOK, Results
<1>7. TypeOK'
  BY <1>1, <1>2, <1>3, <1>4, <1>5, <1>6 DEF TInv, TypeOK
<1>8. ForegroundThere'
  BY <1>1 DEF TInv, TypeOK, ForegroundThere
<1>9. QED
  BY <1>7, <1>8 DEF TInv

LEMMA HaltOrphanTypes ==
    ASSUME TInv, NEW flags \in [Pids -> BOOLEAN], HaltOrphan(flags)
    PROVE  TInv'
<1>1. TypeOK'
  BY DEF TInv, TypeOK, HaltOrphan, Freed, pageVars, Places
<1>2. ForegroundThere'
  BY DEF TInv, TypeOK, ForegroundThere, HaltOrphan
<1>3. QED
  BY <1>1, <1>2 DEF TInv

LEMMA HaltTypes == ASSUME TInv, Halt PROVE TInv'
<1>1. PICK status \in Statuses : syscall_halt(status, exception, "user")
  BY DEF Halt, SysHalt
<1>2. cpu.at # "dead" /\ exception \in [Pids -> BOOLEAN]
  BY DEF Halt, SysHalt, ProgramRuns, TInv, TypeOK
<1>3. QED
  BY <1>1, <1>2, HaltBaseTypes, HaltBaseFailsTypes, HaltToParentTypes, HaltOrphanTypes
     DEF syscall_halt

LEMMA ExceptionTypes == ASSUME TInv, Exception PROVE TInv'
<1>1. PICK flags : flags = [exception EXCEPT ![curr_pid] = TRUE]
  OBVIOUS
<1>2. flags \in [Pids -> BOOLEAN] /\ cpu.at # "dead"
  BY <1>1 DEF TInv, TypeOK, Exception
<1>3. syscall_halt(0, flags, "dead")
  BY <1>1 DEF Exception
<1>4. QED
  BY <1>2, <1>3, HaltBaseTypes, HaltBaseFailsTypes, HaltToParentTypes, HaltOrphanTypes
     DEF syscall_halt

LEMMA HaltReturnTypes == ASSUME TInv, HaltReturn PROVE TInv'
<1>1. TypeOK'
  <2>0. PICK r \in Ctx : r = regs[curr_pid]
    BY DEF TInv, TypeOK
  <2>5. cpu \in [at : Places, stack : Pids] /\ ret \in Results
    BY DEF TInv, TypeOK
  <2>1. cpu' \in [at : Places, stack : Pids]
    <3>1. CASE r.kind = "execute"
      BY <2>0, <3>1 DEF HaltReturn, Ctx
    <3>2. CASE r.kind # "execute"
      BY <2>0, <2>5, <3>2 DEF HaltReturn, Places
    <3>3. QED
      BY <3>1, <3>2
  <2>2. ret' \in Results
    <3>1. r.ebx \in Results
      BY <2>0 DEF Ctx, Results
    <3>2. QED
      BY <2>0, <2>5, <3>1 DEF HaltReturn
  <2>3. UNCHANGED <<schedVars, curr_pid, pcbVars, vidmap, curr_executable_fd, regs, fda,
                    pageVars, vid_present>>
    BY DEF HaltReturn
  <2>4. QED
    BY <2>1, <2>2, <2>3 DEF TInv, TypeOK, schedVars, pcbVars, pageVars
<1>2. ForegroundThere'
  BY SameForeground DEF TInv, HaltReturn, schedVars
<1>3. QED
  BY <1>1, <1>2 DEF TInv

\* The calls that start and end no process.
LEMMA CallTypes ==
    ASSUME TInv, SysOpen \/ Close \/ SysVidmap \/ SysExecuteFails PROVE TInv'
<1>1. CASE SysOpen
  <2>1. fda' \in [Pids -> FdTables]
    BY <1>1, TableTypes DEF TInv, TypeOK, SysOpen
  <2>2. ret' \in Results
    BY <1>1 DEF SysOpen, Results
  <2>3. UNCHANGED <<schedVars, curr_pid, pcbVars, vidmap, curr_executable_fd, regs,
                    pageVars, vid_present, cpu>>
    BY <1>1 DEF SysOpen
  <2>4. TypeOK'
    BY <2>1, <2>2, <2>3 DEF TInv, TypeOK, schedVars, pcbVars, pageVars
  <2>5. QED
    BY <2>3, <2>4, SameForeground DEF TInv, schedVars
<1>2. CASE Close
  <2>1. fda' \in [Pids -> FdTables]
    BY <1>2, TableTypes DEF TInv, TypeOK, Close, SysClose
  <2>2. ret' \in Results
    BY <1>2 DEF Close, SysClose, Results
  <2>3. UNCHANGED <<schedVars, curr_pid, pcbVars, vidmap, curr_executable_fd, regs,
                    pageVars, vid_present, cpu>>
    BY <1>2 DEF Close, SysClose
  <2>4. TypeOK'
    BY <2>1, <2>2, <2>3 DEF TInv, TypeOK, schedVars, pcbVars, pageVars
  <2>5. QED
    BY <2>3, <2>4, SameForeground DEF TInv, schedVars
<1>3. CASE SysVidmap
  <2>1. TypeOK'
    BY <1>3 DEF TInv, TypeOK, SysVidmap, schedVars, pcbVars, pageVars, Places, Results
  <2>2. cpu.at # "dead"
    BY <1>3 DEF SysVidmap, OtherProgram, ProgramRuns
  <2>3. QED
    BY <1>3, <2>1, <2>2, SameForeground DEF TInv, SysVidmap, schedVars
<1>4. CASE SysExecuteFails
  <2>1. TypeOK'
    BY <1>4 DEF TInv, TypeOK, SysExecuteFails, schedVars, pcbVars, pageVars, Results
  <2>2. QED
    BY <1>4, <2>1, SameForeground DEF TInv, SysExecuteFails, schedVars
<1>5. QED
  BY <1>1, <1>2, <1>3, <1>4

LEMMA TypesStep == TInv /\ [Next]_vars => TInv'
<1> SUFFICES ASSUME TInv, [Next]_vars PROVE TInv'
  OBVIOUS
<1>1. CASE UNCHANGED vars
  <2>1. TypeOK'
    BY <1>1 DEF TInv, TypeOK, vars, schedVars, pcbVars, pageVars
  <2>2. QED
    BY <1>1, <2>1, SameForeground DEF TInv, vars, schedVars
<1>2. QED
  BY <1>1, TickStartTypes, TickStartFailsTypes, TickSwitchTypes, ExecuteTypes,
     ExecuteBaseTypes, HaltTypes, ExceptionTypes, HaltReturnTypes, CallTypes
     DEF Next, Tick

(***************************************************************************)
(* Every variable of the process core keeps its type (pid.h, scheduler.h), *)
(* strays, lost contexts and ended machines included.                      *)
(***************************************************************************)
LEMMA TypesInvariant == Spec => []TInv
BY InitTypes, TypesStep, PTL DEF Spec

THEOREM TypeCorrect == Spec => []TypeOK
<1>1. TInv => TypeOK
  BY DEF TInv
<1>2. QED
  BY <1>1, TypesInvariant, PTL

-----------------------------------------------------------------------------
(***************************************************************************)
(* The process tree.  A tick keeps it, and so does every step of a process *)
(* under its own terminal.                                                 *)
(***************************************************************************)

(***************************************************************************)
(* Launching a base shell keeps the tree: from a terminal that has none    *)
(* (schedule), or in the place of one that has just freed its pid (halt).  *)
(***************************************************************************)
LEMMA LaunchTree ==
    ASSUME TypeOK, SessionTree,
           NEW t \in Terms, NEW c \in Pids, NEW used \in [Pids -> BOOLEAN],
           \/ used = in_use /\ base_processes[t] = NoPid
           \/ /\ used = [in_use EXCEPT ![curr_pid] = FALSE]
              /\ curr_pid = base_processes[t]
              /\ curr_pid = active_processes[t],
           ~used[c],
           in_use' = [used EXCEPT ![c] = TRUE],
           parent_pid' = [parent_pid EXCEPT ![c] = NoPid],
           terminal' = [terminal EXCEPT ![c] = t],
           base_processes' = [base_processes EXCEPT ![t] = c],
           active_processes' = [active_processes EXCEPT ![t] = c]
    PROVE  SessionTree'
<1> USE DEF Live, ChildOf, NoPid
<1>0. NoPid \notin Pids
  BY DEF Pids
<1>1. \A p \in Pids : p # c /\ in_use'[p] =>
         /\ in_use[p]
         /\ base_processes[t] # p
         /\ parent_pid[p] # c
         /\ parent_pid'[p] = parent_pid[p]
         /\ terminal'[p] = terminal[p]
  BY <1>0 DEF TypeOK, SessionTree, TerminalEnds, Ancestry, ForegroundIsLeaf
<1>2. TerminalEnds'
  BY <1>0, <1>1 DEF TypeOK, SessionTree, TerminalEnds, Ancestry
<1>3. Ancestry'
  BY <1>0, <1>1 DEF TypeOK, SessionTree, TerminalEnds, Ancestry, ForegroundIsLeaf
<1>4. OneChild'
  BY <1>0, <1>1 DEF TypeOK, SessionTree, OneChild
<1>5. ForegroundIsLeaf'
  BY <1>0, <1>1 DEF TypeOK, SessionTree, TerminalEnds, Ancestry, OneChild, ForegroundIsLeaf
<1>6. QED
  BY <1>2, <1>3, <1>4, <1>5 DEF SessionTree

(***************************************************************************)
(* Executing a child keeps the tree: the child is put below the foreground *)
(* process and becomes the foreground process itself.                      *)
(***************************************************************************)
LEMMA ExecuteTree ==
    ASSUME TypeOK, SessionTree,
           NEW c \in Pids,
           curr_pid = active_processes[terminal_active],
           ~in_use[c],
           in_use' = [in_use EXCEPT ![c] = TRUE],
           parent_pid' = [parent_pid EXCEPT ![c] = curr_pid],
           terminal' = [terminal EXCEPT ![c] = terminal_active],
           base_processes' = base_processes,
           active_processes' = [active_processes EXCEPT ![terminal_active] = c]
    PROVE  SessionTree'
<1> USE DEF Live, ChildOf, NoPid
<1>0. NoPid \notin Pids
  BY DEF Pids
<1>1. /\ in_use[curr_pid]
      /\ terminal[curr_pid] = terminal_active
      /\ \A p \in Pids : ~ChildOf(p, curr_pid)
  BY <1>0 DEF TypeOK, SessionTree, TerminalEnds, ForegroundIsLeaf
<1>2. \A p \in Pids : p # c /\ in_use'[p] =>
         /\ in_use[p]
         /\ parent_pid[p] # c
         /\ parent_pid'[p] = parent_pid[p]
         /\ terminal'[p] = terminal[p]
  BY <1>0 DEF TypeOK, SessionTree, Ancestry
<1>3. TerminalEnds'
  BY <1>0, <1>1 DEF TypeOK, SessionTree, TerminalEnds
<1>4. Ancestry'
  BY <1>0, <1>1, <1>2 DEF TypeOK, SessionTree, Ancestry
<1>5. OneChild'
  BY <1>0, <1>1, <1>2 DEF TypeOK, SessionTree, OneChild
<1>6. ForegroundIsLeaf'
  BY <1>0, <1>1, <1>2 DEF TypeOK, SessionTree, TerminalEnds, Ancestry, ForegroundIsLeaf
<1>7. QED
  BY <1>3, <1>4, <1>5, <1>6 DEF SessionTree

(***************************************************************************)
(* Halting a child keeps the tree: its parent has no other child, so it    *)
(* becomes a leaf and the foreground process.                              *)
(***************************************************************************)
LEMMA HaltTree ==
    ASSUME TypeOK, SessionTree,
           curr_pid = active_processes[terminal_active],
           curr_pid # base_processes[terminal_active],
           in_use' = [in_use EXCEPT ![curr_pid] = FALSE],
           parent_pid' = parent_pid,
           terminal' = terminal,
           base_processes' = base_processes,
           active_processes' = [active_processes EXCEPT
                                  ![terminal_active] = parent_pid[curr_pid]]
    PROVE  SessionTree' /\ parent_pid[curr_pid] \in Pids
<1> USE DEF Live, ChildOf, NoPid
<1> DEFINE par == parent_pid[curr_pid]
<1>0. NoPid \notin Pids
  BY DEF Pids
<1>1. /\ in_use[curr_pid]
      /\ terminal[curr_pid] = terminal_active
      /\ \A p \in Pids : ~ChildOf(p, curr_pid)
  BY <1>0 DEF TypeOK, SessionTree, TerminalEnds, ForegroundIsLeaf
<1>2. /\ par \in Pids
      /\ in_use[par]
      /\ par # curr_pid
      /\ terminal[par] = terminal_active
  BY <1>0, <1>1 DEF TypeOK, SessionTree, Ancestry
<1>3. \A p \in Pids : in_use'[p] => p # curr_pid /\ in_use[p] /\ parent_pid[p] # curr_pid
  BY <1>1 DEF TypeOK
<1>4. TerminalEnds'
  BY <1>0, <1>1, <1>2, <1>3 DEF TypeOK, SessionTree, TerminalEnds
<1>5. Ancestry'
  BY <1>0, <1>2, <1>3 DEF TypeOK, SessionTree, Ancestry
<1>6. OneChild'
  BY <1>3 DEF TypeOK, SessionTree, OneChild
<1>7. ForegroundIsLeaf'
  <2> SUFFICES ASSUME NEW p \in Pids, in_use'[p]
               PROVE  (active_processes'[terminal[p]] = p
                         <=> \A c \in Pids : ~(in_use'[c] /\ parent_pid[c] = p))
    BY DEF ForegroundIsLeaf
  <2>1. CASE p = par
    BY <1>1, <1>2, <1>3, <2>1 DEF TypeOK, SessionTree, OneChild
  <2>2. CASE p # par
    BY <1>1, <1>2, <1>3, <2>2 DEF TypeOK, SessionTree, TerminalEnds, ForegroundIsLeaf
  <2>3. QED
    BY <2>1, <2>2
<1>8. QED
  BY <1>2, <1>4, <1>5, <1>6, <1>7 DEF SessionTree

\* A step that leaves the tables of the tree alone keeps it.
LEMMA SameTree ==
    ASSUME SessionTree,
           UNCHANGED <<base_processes, active_processes, in_use, parent_pid, terminal>>
    PROVE  SessionTree'
BY DEF SessionTree, TerminalEnds, Ancestry, OneChild, ForegroundIsLeaf, Live, ChildOf

\* ... and the tree, under the conditions of LaunchTree.
LEMMA LaunchKeepsTree ==
    ASSUME TypeOK, SessionTree, terminal_active' \in Terms,
           NEW used \in [Pids -> BOOLEAN], NEW flags, NEW saved,
           \/ used = in_use /\ base_processes[terminal_active'] = NoPid
           \/ /\ used = [in_use EXCEPT ![curr_pid] = FALSE]
              /\ curr_pid = base_processes[terminal_active']
              /\ curr_pid = active_processes[terminal_active'],
           LaunchBase(used, flags, saved)
    PROVE  SessionTree'
<1>1. PICK c \in Pids :
         /\ ~used[c]
         /\ in_use' = [used EXCEPT ![c] = TRUE]
         /\ parent_pid' = [parent_pid EXCEPT ![c] = NoPid]
         /\ terminal' = [terminal EXCEPT ![c] = terminal_active']
         /\ base_processes' = [base_processes EXCEPT ![terminal_active'] = c]
         /\ active_processes' = [active_processes EXCEPT ![terminal_active'] = c]
  BY DEF LaunchBase, AvailPid, InitPcb
<1> DEFINE t == terminal_active'
<1>2. t \in Terms
  OBVIOUS
<1> HIDE DEF t
<1>3. /\ terminal' = [terminal EXCEPT ![c] = t]
      /\ base_processes' = [base_processes EXCEPT ![t] = c]
      /\ active_processes' = [active_processes EXCEPT ![t] = c]
      /\ \/ used = in_use /\ base_processes[t] = NoPid
         \/ /\ used = [in_use EXCEPT ![curr_pid] = FALSE]
            /\ curr_pid = base_processes[t]
            /\ curr_pid = active_processes[t]
  BY <1>1 DEF t
<1>4. QED
  BY <1>1, <1>2, <1>3, LaunchTree

LEMMA TickTree == ASSUME TypeOK, SessionTree, Tick PROVE SessionTree'
<1>1. CASE TickStart
  <2>1. /\ NextTerm \in Terms /\ terminal_active' = NextTerm
        /\ base_processes[NextTerm] = NoPid /\ in_use \in [Pids -> BOOLEAN]
    BY <1>1, NextTermType DEF TypeOK, TickStart
  <2>2. PICK saved : LaunchBase(in_use, exception, saved)
    BY <1>1 DEF TickStart
  <2>3. QED
    BY <2>1, <2>2, LaunchKeepsTree
<1>2. CASE TickStartFails \/ TickSwitch
  BY <1>2, SameTree DEF TickStartFails, TickSwitch, pcbVars
<1>3. QED
  BY <1>1, <1>2 DEF Tick

\* What the tree says of the process running.
LEMMA Running ==
    ASSUME TypeOK, SessionTree, Attributed
    PROVE  /\ curr_pid \in Pids /\ curr_pid # NoPid
           /\ in_use[curr_pid]
           /\ terminal[curr_pid] = terminal_active
           /\ base_processes[terminal_active] # NoPid
           /\ IsBase <=> parent_pid[curr_pid] = NoPid
<1>0. NoPid \notin Pids
  BY DEF Pids, NoPid
<1>1. /\ curr_pid \in Pids /\ curr_pid # NoPid
      /\ in_use[curr_pid]
      /\ terminal[curr_pid] = terminal_active
      /\ base_processes[terminal_active] # NoPid
  BY <1>0 DEF TypeOK, SessionTree, TerminalEnds, Attributed, Live
<1>2. IsBase <=> parent_pid[curr_pid] = NoPid
  BY <1>0, <1>1 DEF TypeOK, SessionTree, TerminalEnds, Ancestry, IsBase, Live
<1>3. QED
  BY <1>1, <1>2

LEMMA ParentOfRunning ==
    ASSUME TypeOK, SessionTree, Attributed, ~IsBase
    PROVE  /\ in_use[curr_pid]
           /\ terminal[curr_pid] = terminal_active
           /\ parent_pid[curr_pid] \in Pids
           /\ parent_pid[curr_pid] # curr_pid
           /\ in_use[parent_pid[curr_pid]]
           /\ terminal[parent_pid[curr_pid]] = terminal_active
           /\ \A c \in Pids : in_use[c] /\ parent_pid[c] = parent_pid[curr_pid] => c = curr_pid
           /\ Suspended(parent_pid[curr_pid])
<1> USE DEF Live, ChildOf, NoPid
<1>0. NoPid \notin Pids
  BY DEF Pids
<1>1. /\ in_use[curr_pid]
      /\ terminal[curr_pid] = terminal_active
      /\ \A p \in Pids : ~ChildOf(p, curr_pid)
      /\ curr_pid = active_processes[terminal_active]
      /\ curr_pid # base_processes[terminal_active]
  BY <1>0 DEF TypeOK, SessionTree, TerminalEnds, ForegroundIsLeaf, Attributed, IsBase
<1>2. /\ parent_pid[curr_pid] \in Pids
      /\ parent_pid[curr_pid] # curr_pid
      /\ in_use[parent_pid[curr_pid]]
      /\ terminal[parent_pid[curr_pid]] = terminal_active
  BY <1>0, <1>1 DEF TypeOK, SessionTree, Ancestry
<1>3. \A c \in Pids : in_use[c] /\ parent_pid[c] = parent_pid[curr_pid] => c = curr_pid
  BY <1>1, <1>2 DEF TypeOK, SessionTree, OneChild
<1>4. Suspended(parent_pid[curr_pid])
  BY <1>0, <1>1, <1>2 DEF TypeOK, SessionTree, TerminalEnds, ForegroundIsLeaf,
                    Suspended, IsActive
<1>5. QED
  BY <1>1, <1>2, <1>3, <1>4

LEMMA ExecuteKeepsTree ==
    ASSUME TypeOK, SessionTree, Attributed, SysExecute PROVE SessionTree'
<1>1. PICK c \in Pids :
         /\ ~in_use[c]
         /\ in_use' = [in_use EXCEPT ![c] = TRUE]
         /\ parent_pid' = [parent_pid EXCEPT ![c] = curr_pid]
         /\ terminal' = [terminal EXCEPT ![c] = terminal_active]
         /\ active_processes' = [active_processes EXCEPT ![terminal_active] = c]
  BY DEF SysExecute, AvailPid, InitPcb
<1>2. base_processes' = base_processes
  BY DEF SysExecute
<1>3. QED
  BY <1>1, <1>2, ExecuteTree DEF Attributed

LEMMA HaltBaseTree ==
    ASSUME TypeOK, SessionTree, Attributed, NEW flags, HaltBase(flags)
    PROVE  SessionTree'
<1>1. /\ terminal_active' = terminal_active
      /\ curr_pid = base_processes[terminal_active]
      /\ curr_pid = active_processes[terminal_active]
  BY DEF HaltBase, IsBase, Attributed
<1>2. PICK used : used = [in_use EXCEPT ![curr_pid] = FALSE]
  OBVIOUS
<1>3. used \in [Pids -> BOOLEAN] /\ LaunchBase(used, flags, regs)
  BY <1>2 DEF TypeOK, HaltBase, Freed
<1>4. QED
  BY <1>1, <1>2, <1>3, LaunchKeepsTree DEF TypeOK

\* A base shell that cannot be replaced leaves its terminal empty.
LEMMA HaltBaseFailsTree ==
    ASSUME TypeOK, SessionTree, Attributed, NEW flags, NEW back, HaltBaseFails(flags, back)
    PROVE  SessionTree'
<1> USE DEF Live, ChildOf, NoPid
<1> DEFINE t == terminal_active
<1>0. NoPid \notin Pids
  BY DEF Pids
<1>1. /\ curr_pid = base_processes[t]
      /\ curr_pid = active_processes[t]
      /\ in_use' = [in_use EXCEPT ![curr_pid] = FALSE]
      /\ base_processes' = [base_processes EXCEPT ![t] = NoPid]
      /\ active_processes' = [active_processes EXCEPT ![t] = NoPid]
      /\ parent_pid' = parent_pid /\ terminal' = terminal
  BY DEF HaltBaseFails, IsBase, Attributed, Freed
<1>2. /\ in_use[curr_pid] /\ terminal[curr_pid] = t /\ parent_pid[curr_pid] = NoPid
      /\ \A p \in Pids : ~ChildOf(p, curr_pid)
      /\ \A p \in Pids : in_use[p] /\ p # curr_pid => terminal[p] # t \/ parent_pid[p] # NoPid
  <2>1. t \in Terms /\ curr_pid \in Pids
    BY DEF TypeOK
  <2>2. in_use[curr_pid] /\ terminal[curr_pid] = t /\ parent_pid[curr_pid] = NoPid
    BY <1>0, <1>1, <2>1 DEF SessionTree, TerminalEnds
  <2>3. \A p \in Pids : ~ChildOf(p, curr_pid)
    BY <1>1, <2>1, <2>2 DEF SessionTree, ForegroundIsLeaf
  <2>4. ASSUME NEW p \in Pids, in_use[p], p # curr_pid
        PROVE  terminal[p] # t \/ parent_pid[p] # NoPid
    BY <1>1, <2>1, <2>4 DEF SessionTree, Ancestry
  <2>5. QED
    BY <2>2, <2>3, <2>4
<1>3. \A p \in Pids : in_use'[p] => p # curr_pid /\ in_use[p] /\ parent_pid[p] # curr_pid
  BY <1>1, <1>2 DEF TypeOK
<1>4. TerminalEnds'
  BY <1>0, <1>1, <1>2, <1>3 DEF TypeOK, SessionTree, TerminalEnds
<1>5. Ancestry'
  BY <1>0, <1>1, <1>2, <1>3 DEF TypeOK, SessionTree, Ancestry
<1>6. OneChild'
  BY <1>1, <1>3 DEF TypeOK, SessionTree, OneChild
<1>7. ForegroundIsLeaf'
  <2> SUFFICES ASSUME NEW p \in Pids, in_use'[p]
               PROVE  (active_processes'[terminal[p]] = p
                         <=> \A c \in Pids : ~(in_use'[c] /\ parent_pid[c] = p))
    BY <1>1 DEF ForegroundIsLeaf
  <2>1. p # curr_pid /\ in_use[p]
    BY <1>3
  <2>2. (\E c \in Pids : in_use'[c] /\ parent_pid[c] = p)
          <=> (\E c \in Pids : in_use[c] /\ parent_pid[c] = p)
    BY <1>0, <1>1, <1>2, <2>1 DEF TypeOK
  <2>3. active_processes'[terminal[p]] = p <=> active_processes[terminal[p]] = p
    BY <1>0, <1>1, <2>1 DEF TypeOK
  <2>4. QED
    BY <2>1, <2>2, <2>3 DEF SessionTree, ForegroundIsLeaf
<1>8. QED
  BY <1>4, <1>5, <1>6, <1>7 DEF SessionTree

LEMMA HaltToParentTree ==
    ASSUME TypeOK, SessionTree, Attributed, NEW status, NEW flags, NEW back,
           HaltToParent(status, flags, back)
    PROVE  SessionTree'
BY HaltTree DEF HaltToParent, IsBase, Attributed, HaltTarget, Freed

\* A process under its own terminal always has somewhere to return to.
LEMMA NoOrphan ==
    ASSUME TypeOK, SessionTree, Attributed, NEW flags PROVE ~HaltOrphan(flags)
BY Running DEF HaltOrphan

\* Nor does it ever start another base shell.
LEMMA NoExecuteBase ==
    ASSUME TypeOK, SessionTree, Attributed PROVE ~SysExecuteBase
BY Running DEF SysExecuteBase

LEMMA EndTree ==
    ASSUME TypeOK, SessionTree, Attributed, NEW status, NEW flags, NEW back,
           syscall_halt(status, flags, back)
    PROVE  SessionTree'
BY HaltBaseTree, HaltBaseFailsTree, HaltToParentTree, NoOrphan DEF syscall_halt

LEMMA TreeKept ==
    ASSUME TypeOK, SessionTree, Tick \/ Attributed, [Next]_vars PROVE SessionTree'
<1>1. CASE Tick
  BY <1>1, TickTree
<1>2. CASE SysExecute /\ Attributed
  BY <1>2, ExecuteKeepsTree
<1>3. CASE SysExecuteBase /\ Attributed
  BY <1>3, NoExecuteBase
<1>4. CASE SysExecuteFails
  BY <1>4, SameTree DEF SysExecuteFails, schedVars, pcbVars
<1>5. CASE Halt /\ Attributed
  BY <1>5, EndTree DEF Halt, SysHalt
<1>6. CASE Exception /\ Attributed
  BY <1>6, EndTree DEF Exception
<1>7. CASE HaltReturn
  BY <1>7, SameTree DEF HaltReturn, schedVars, pcbVars
<1>8. CASE SysOpen
  BY <1>8, SameTree DEF SysOpen, schedVars, pcbVars
<1>9. CASE Close
  BY <1>9, SameTree DEF Close, SysClose, schedVars, pcbVars
<1>10. CASE SysVidmap
  BY <1>10, SameTree DEF SysVidmap, schedVars, pcbVars
<1>11. CASE UNCHANGED vars
  BY <1>11, SameTree DEF vars, schedVars, pcbVars
<1>12. QED
  BY <1>1, <1>2, <1>3, <1>4, <1>5, <1>6, <1>7, <1>8, <1>9, <1>10, <1>11 DEF Next

-----------------------------------------------------------------------------
(***************************************************************************)
(* Without the edge case "boot", programs run once every terminal has its  *)
(* shell, and then schedule has none to start: there are no strays.  A     *)
(* base shell that could not be replaced (ForegroundRuns shows that it can *)
(* be, without an edge case) would take that back.                         *)
(***************************************************************************)
IInv == TInv /\ SessionTree /\ (Booted => Attributed)

LEMMA InitIInv == Init => IInv
<1> SUFFICES ASSUME Init PROVE IInv
  OBVIOUS
<1>1. SessionTree
  BY DEF Init, SessionTree, TerminalEnds, Ancestry, OneChild, ForegroundIsLeaf,
         Live, ChildOf, NoPid, Pids
<1>2. ~Booted
  BY DEF Init, Booted, Terms
<1>3. QED
  BY <1>1, <1>2, InitTypes DEF IInv

\* Whoever makes a call is the foreground process of the terminal scheduled.
LEMMA CallerAttributed ==
    ASSUME IInv, "boot" \notin Edges,
           SysExecute \/ SysExecuteBase \/ SysExecuteFails \/ Halt \/ Exception
             \/ SysOpen \/ Close \/ SysVidmap
    PROVE  Booted /\ Attributed
BY DEF IInv, SysExecute, SysExecuteBase, SysExecuteFails, Halt, SysHalt, Exception, SysOpen,
       Close, SysClose, SysVidmap, OtherProgram, ProgramRuns, Started

\* A launch makes the program it starts the foreground process.
LEMMA LaunchAttributed ==
    ASSUME TypeOK, terminal_active' \in Terms,
           NEW used, NEW flags, NEW saved, LaunchBase(used, flags, saved)
    PROVE  Attributed'
<1>1. PICK c \in Pids :
         /\ curr_pid' = c
         /\ active_processes' = [active_processes EXCEPT ![terminal_active'] = c]
  BY DEF LaunchBase, InitPcb
<1>2. QED
  BY <1>1 DEF Attributed, TypeOK

LEMMA EndAttributed ==
    ASSUME TypeOK, NEW status, NEW flags, NEW back, syscall_halt(status, flags, back),
           SessionTree, Attributed
    PROVE  Booted' => Attributed'
<1>1. CASE HaltBase(flags)
  BY <1>1, LaunchAttributed DEF HaltBase, TypeOK
<1>2. CASE HaltBaseFails(flags, back)
  BY <1>2 DEF HaltBaseFails, Booted, TypeOK
<1>3. CASE HaltToParent(status, flags, back)
  BY <1>3 DEF HaltToParent, HaltTarget, Attributed, TypeOK
<1>4. QED
  BY <1>1, <1>2, <1>3, NoOrphan DEF syscall_halt

LEMMA TreeStep == "boot" \notin Edges /\ IInv /\ [Next]_vars => IInv'
<1> SUFFICES ASSUME "boot" \notin Edges, IInv, [Next]_vars PROVE IInv'
  OBVIOUS
<1>0. TypeOK /\ SessionTree /\ (Booted => Attributed)
  BY DEF IInv, TInv
<1>1. TInv'
  BY TypesStep DEF IInv
<1>2. Tick \/ HaltReturn \/ UNCHANGED vars \/ (Booted /\ Attributed)
  BY CallerAttributed DEF Next
<1>3. SessionTree'
  <2>1. CASE Tick \/ Attributed
    BY <1>0, <2>1, TreeKept
  <2>2. CASE HaltReturn
    BY <1>0, <2>2, SameTree DEF HaltReturn, schedVars, pcbVars
  <2>3. CASE UNCHANGED vars
    BY <1>0, <2>3, SameTree DEF vars, schedVars, pcbVars
  <2>4. QED
    BY <1>2, <2>1, <2>2, <2>3
<1>4. Booted' => Attributed'
  <2>1. CASE TickStart
    BY <1>0, <2>1, NextTermType, LaunchAttributed DEF TickStart, TypeOK
  <2>2. CASE TickStartFails
    BY <1>0, <2>2, NextTermType DEF TickStartFails, TypeOK, Booted
  <2>3. CASE TickSwitch
    BY <2>3 DEF TickSwitch, Attributed
  <2>4. CASE SysExecute
    BY <1>0, <2>4 DEF SysExecute, InitPcb, Attributed, TypeOK
  <2>5. CASE Halt
    <3>1. Attributed
      BY <2>5, CallerAttributed
    <3>2. QED
      BY <1>0, <2>5, <3>1, EndAttributed DEF Halt, SysHalt
  <2>6. CASE Exception
    <3>1. Attributed
      BY <2>6, CallerAttributed
    <3>2. QED
      BY <1>0, <2>6, <3>1, EndAttributed DEF Exception
  <2>7. CASE SysExecuteBase
    BY <1>0, <2>7, CallerAttributed, NoExecuteBase
  <2>8. CASE SysExecuteFails \/ HaltReturn \/ SysOpen \/ Close \/ SysVidmap \/ UNCHANGED vars
    BY <1>0, <2>8 DEF Attributed, Booted, SysExecuteFails, HaltReturn, SysOpen, Close,
       SysClose, SysVidmap, vars, schedVars
  <2>9. QED
    BY <2>1, <2>2, <2>3, <2>4, <2>5, <2>6, <2>7, <2>8 DEF Next, Tick
<1>5. QED
  BY <1>1, <1>3, <1>4 DEF IInv

\* The scheduler's tables and the parent pointers always describe one chain of
\* processes for each terminal (scheduler.c:26-60, syscall.c:20-72, 149-240).
THEOREM TreeCorrect ==
    ASSUME "boot" \notin Edges
    PROVE  Spec => []SessionTree
<1>1. IInv => SessionTree
  BY DEF IInv
<1>2. QED
  BY <1>1, InitIInv, TreeStep, PTL DEF Spec

-----------------------------------------------------------------------------
(***************************************************************************)
(* Descriptors.  Whatever the edge cases: a table that claims to be full   *)
(* is, and stdin and stdout stay.                                          *)
(***************************************************************************)
TableKept(f) == /\ Stdio \subseteq f.spaces
                /\ f.full => FreeSlots(f) = {}

LEMMA OpenKeepsTable ==
    ASSUME NEW f \in FdTables, NEW fd \in Fds, ~OpenFails(f), FirstFree(f, fd)
    PROVE  /\ TableKept(f) => TableKept(AfterOpen(f, fd))
           /\ ~CloseFails(AfterOpen(f, fd), fd)
           /\ CloseImage(AfterOpen(f, fd), fd) = [spaces |-> f.spaces, full |-> FALSE]
<1>1. fd \in 2 .. FD_ARRAY_SIZE - 1 /\ fd \notin f.spaces
  BY DEF FirstFree, FreeSlots
<1>2. fd = FD_ARRAY_SIZE - 1 => FreeSlots(AfterOpen(f, fd)) = {}
  BY <1>1 DEF FirstFree, FreeSlots, AfterOpen, FdTables
<1>3. ~f.full
  BY DEF OpenFails
<1>4. CloseImage(AfterOpen(f, fd), fd) = [spaces |-> f.spaces, full |-> FALSE]
  BY <1>1 DEF CloseImage, AfterClose, AfterOpen, FdTables
<1>5. AfterOpen(f, fd).full => fd = FD_ARRAY_SIZE - 1
  BY <1>3 DEF AfterOpen
<1>6. TableKept(f) => TableKept(AfterOpen(f, fd))
  BY <1>2, <1>5 DEF TableKept, AfterOpen
<1>7. ~CloseFails(AfterOpen(f, fd), fd)
  BY <1>1 DEF AfterOpen, CloseFails
<1>8. QED
  BY <1>4, <1>6, <1>7

LEMMA CloseKeepsTable ==
    ASSUME NEW f \in FdTables, NEW fd \in Fds, ~CloseFails(f, fd), TableKept(f)
    PROVE  TableKept(AfterClose(f, fd))
BY DEF CloseFails, TableKept, AfterClose, Stdio, Fds, FdTables

LEMMA FreshTableKept == TableKept(FreshTable)
BY DEF TableKept, FreshTable

LEMMA SameFull ==
    ASSUME FullIsFull, UNCHANGED <<in_use, fda>> PROVE FullIsFull'
BY DEF FullIsFull, FreeSlots

\* Launching a base shell borrows a slot of the running process's table.
LEMMA LaunchTables ==
    ASSUME TypeOK, NEW used \in [Pids -> BOOLEAN], NEW flags, NEW saved,
           LaunchBase(used, flags, saved)
    PROVE  \E c \in Pids :
             /\ ~used[c] /\ in_use' = [used EXCEPT ![c] = TRUE]
             /\ curr_executable_fd' = [curr_executable_fd EXCEPT ![c] = NoPid]
             /\ active_processes' = [active_processes EXCEPT ![terminal_active'] = c]
             /\ fda'[c] = FreshTable
             /\ \A p \in Pids \ {c} : /\ fda'[p].spaces = fda[p].spaces
                                      /\ fda'[p].full => fda[p].full
                                      /\ curr_executable_fd'[p] = curr_executable_fd[p]
                                      /\ in_use'[p] = used[p]
<1>1. PICK c \in Pids, fd \in Fds :
         /\ FirstFree(fda[curr_pid], fd)
         /\ ~used[c]
         /\ in_use' = [used EXCEPT ![c] = TRUE]
         /\ curr_executable_fd' = [curr_executable_fd EXCEPT ![c] = NoPid]
         /\ active_processes' = [active_processes EXCEPT ![terminal_active'] = c]
         /\ fda' = [fda EXCEPT ![curr_pid] = CloseImage(AfterOpen(@, fd), fd),
                               ![c] = FreshTable]
  BY DEF LaunchBase, AvailPid, InitPcb
<1>2. PICK borrowed : borrowed = [spaces |-> fda[curr_pid].spaces, full |-> FALSE]
  OBVIOUS
<1>3. fda' = [fda EXCEPT ![curr_pid] = borrowed, ![c] = FreshTable]
  <2>1. fda[curr_pid] \in FdTables /\ ~OpenFails(fda[curr_pid])
    BY DEF TypeOK, LaunchBase
  <2>2. QED
    BY <1>1, <1>2, <2>1, OpenKeepsTable
<1>4. fda'[c] = FreshTable
  BY <1>3 DEF TypeOK
<1>5. \A p \in Pids \ {c} : /\ fda'[p].spaces = fda[p].spaces
                            /\ fda'[p].full => fda[p].full
  BY <1>2, <1>3 DEF TypeOK
<1>6. \A p \in Pids \ {c} : /\ curr_executable_fd'[p] = curr_executable_fd[p]
                            /\ in_use'[p] = used[p]
  BY <1>1 DEF TypeOK
<1>7. QED
  BY <1>1, <1>4, <1>5, <1>6

LEMMA LaunchFull ==
    ASSUME TypeOK, FullIsFull, NEW used \in [Pids -> BOOLEAN], NEW flags, NEW saved,
           \A p \in Pids : used[p] => in_use[p],
           LaunchBase(used, flags, saved)
    PROVE  FullIsFull'
<1>1. PICK c \in Pids :
         /\ fda'[c] = FreshTable
         /\ \A p \in Pids \ {c} : /\ fda'[p].spaces = fda[p].spaces
                                  /\ fda'[p].full => fda[p].full
                                  /\ in_use'[p] = used[p]
  BY LaunchTables
<1>2. QED
  BY <1>1 DEF FullIsFull, FreshTable, FreeSlots

\* What an execute leaves of the tables.
LEMMA ExecuteTables ==
    ASSUME TypeOK, SysExecute
    PROVE  \E c \in Pids, fd \in Fds :
             /\ ~in_use[c] /\ in_use' = [in_use EXCEPT ![c] = TRUE]
             /\ active_processes' = [active_processes EXCEPT ![terminal_active] = c]
             /\ fda'[c] = FreshTable
             /\ c # curr_pid => /\ TableKept(fda[curr_pid]) => TableKept(fda'[curr_pid])
                                /\ ~CloseFails(fda'[curr_pid], fd)
                                /\ curr_executable_fd'[curr_pid] = fd
             /\ \A p \in Pids : p # c /\ p # curr_pid =>
                  /\ fda'[p] = fda[p]
                  /\ curr_executable_fd'[p] = curr_executable_fd[p]
<1>1. PICK c \in Pids, fd \in Fds :
         /\ FirstFree(fda[curr_pid], fd)
         /\ ~in_use[c]
         /\ in_use' = [in_use EXCEPT ![c] = TRUE]
         /\ curr_executable_fd' = [curr_executable_fd EXCEPT ![c] = 0, ![curr_pid] = fd]
         /\ active_processes' = [active_processes EXCEPT ![terminal_active] = c]
         /\ fda' = [fda EXCEPT ![curr_pid] = AfterOpen(@, fd), ![c] = FreshTable]
  BY DEF SysExecute, AvailPid, InitPcb
<1>2. ~OpenFails(fda[curr_pid]) /\ fda[curr_pid] \in FdTables
  BY DEF SysExecute, TypeOK
<1>3. PICK opened : opened = AfterOpen(fda[curr_pid], fd)
  OBVIOUS
<1>4. /\ TableKept(fda[curr_pid]) => TableKept(opened)
      /\ ~CloseFails(opened, fd)
  BY <1>1, <1>2, <1>3, OpenKeepsTable
<1>5. fda' = [fda EXCEPT ![curr_pid] = opened, ![c] = FreshTable]
  BY <1>1, <1>3
<1>6. /\ fda'[c] = FreshTable
      /\ c # curr_pid => fda'[curr_pid] = opened /\ curr_executable_fd'[curr_pid] = fd
      /\ \A p \in Pids : p # c /\ p # curr_pid =>
           /\ fda'[p] = fda[p]
           /\ curr_executable_fd'[p] = curr_executable_fd[p]
  BY <1>1, <1>5 DEF TypeOK
<1>7. QED
  BY <1>1, <1>4, <1>6

LEMMA ExecuteFull == ASSUME TypeOK, FullIsFull, SysExecute PROVE FullIsFull'
<1>1. PICK c \in Pids :
         /\ in_use' = [in_use EXCEPT ![c] = TRUE]
         /\ fda'[c] = FreshTable
         /\ c # curr_pid => (TableKept(fda[curr_pid]) => TableKept(fda'[curr_pid]))
         /\ \A p \in Pids : p # c /\ p # curr_pid => fda'[p] = fda[p]
  BY ExecuteTables
<1>2. \A p \in Pids : in_use'[p] => p = c \/ in_use[p]
  BY <1>1 DEF TypeOK
<1>3. ASSUME NEW p \in Pids, in_use'[p] PROVE TableKept(fda'[p])
  BY <1>1, <1>2, <1>3, FreshTableKept DEF FullIsFull, TableKept
<1>4. QED
  BY <1>3 DEF FullIsFull, TableKept, FreeSlots

\* ... and a halt of those of a parent.
LEMMA HaltTables ==
    ASSUME TypeOK, NEW status, NEW flags, NEW back, HaltToParent(status, flags, back)
    PROVE  /\ parent_pid[curr_pid] \in Pids
           /\ TableKept(fda[parent_pid[curr_pid]]) => TableKept(fda'[parent_pid[curr_pid]])
           /\ \A p \in Pids : p # parent_pid[curr_pid] => fda'[p] = fda[p]
           /\ \A p \in Pids : in_use'[p] => in_use[p] /\ p # curr_pid
           /\ curr_executable_fd' = curr_executable_fd
           /\ active_processes' = [active_processes EXCEPT
                                     ![terminal_active] = parent_pid[curr_pid]]
<1> DEFINE par == parent_pid[curr_pid]
           fd  == curr_executable_fd[par]
<1>1. /\ par # NoPid
      /\ in_use' = [in_use EXCEPT ![curr_pid] = FALSE]
      /\ active_processes' = [active_processes EXCEPT ![terminal_active] = par]
      /\ fda' = IF CloseFails(fda[par], fd) THEN fda
                ELSE [fda EXCEPT ![par] = AfterClose(@, fd)]
      /\ curr_executable_fd' = curr_executable_fd
  BY DEF HaltToParent, HaltTarget, Freed
<1>2. par \in Pids
  BY <1>1 DEF TypeOK
<1>3. TableKept(fda[par]) => TableKept(fda'[par])
  <2>1. CASE CloseFails(fda[par], fd)
    BY <1>1, <2>1
  <2>2. CASE ~CloseFails(fda[par], fd)
    <3>1. fd \in Fds
      BY <1>2, <2>2 DEF TypeOK, CloseFails, Fds, NoPid
    <3>2. QED
      BY <1>1, <1>2, <2>2, <3>1, CloseKeepsTable DEF TypeOK
  <2>3. QED
    BY <2>1, <2>2
<1>4. \A p \in Pids : p # par => fda'[p] = fda[p]
  BY <1>1 DEF TypeOK
<1>5. \A p \in Pids : in_use'[p] => in_use[p] /\ p # curr_pid
  BY <1>1 DEF TypeOK
<1>6. QED
  BY <1>1, <1>2, <1>3, <1>4, <1>5

LEMMA EndFull ==
    ASSUME TypeOK, FullIsFull, NEW status, NEW flags, NEW back,
           syscall_halt(status, flags, back)
    PROVE  FullIsFull'
<1>1. CASE HaltBase(flags)
  <2>1. PICK used : used = [in_use EXCEPT ![curr_pid] = FALSE]
    OBVIOUS
  <2>2. used \in [Pids -> BOOLEAN] /\ \A p \in Pids : used[p] => in_use[p]
    BY <2>1 DEF TypeOK
  <2>3. LaunchBase(used, flags, regs)
    BY <1>1, <2>1 DEF HaltBase, Freed
  <2>4. QED
    BY <2>2, <2>3, LaunchFull
<1>2. CASE HaltToParent(status, flags, back)
  <2>1. PICK par \in Pids :
          /\ TableKept(fda[par]) => TableKept(fda'[par])
          /\ \A p \in Pids : p # par => fda'[p] = fda[p]
          /\ \A p \in Pids : in_use'[p] => in_use[p]
    BY <1>2, HaltTables
  <2>2. QED
    BY <2>1 DEF FullIsFull, TableKept, FreeSlots
<1>3. CASE HaltBaseFails(flags, back) \/ HaltOrphan(flags)
  <2>1. fda' = fda /\ \A p \in Pids : in_use'[p] => in_use[p]
    BY <1>3 DEF HaltBaseFails, HaltOrphan, Freed, TypeOK
  <2>2. QED
    BY <2>1 DEF FullIsFull, FreeSlots
<1>4. QED
  BY <1>1, <1>2, <1>3 DEF syscall_halt

\* A program opens and closes files in its own table only.
LEMMA OpenTables ==
    ASSUME TypeOK, SysOpen
    PROVE  /\ TableKept(fda[curr_pid]) => TableKept(fda'[curr_pid])
           /\ \A i : ~CloseFails(fda[curr_pid], i) => ~CloseFails(fda'[curr_pid], i)
           /\ \A p \in Pids : p # curr_pid => fda'[p] = fda[p]
           /\ UNCHANGED <<active_processes, in_use, curr_executable_fd>>
<1>1. UNCHANGED <<active_processes, in_use, curr_executable_fd>>
  BY DEF SysOpen, schedVars, pcbVars
<1>2. CASE OpenFails(fda[curr_pid])
  BY <1>1, <1>2 DEF SysOpen
<1>3. CASE ~OpenFails(fda[curr_pid])
  <2>1. PICK fd \in Fds : /\ FirstFree(fda[curr_pid], fd)
                          /\ fda' = [fda EXCEPT ![curr_pid] = AfterOpen(@, fd)]
    BY <1>3 DEF SysOpen
  <2>2. QED
    BY <1>1, <1>3, <2>1, OpenKeepsTable DEF TypeOK, CloseFails, AfterOpen
<1>4. QED
  BY <1>2, <1>3

LEMMA CloseTables ==
    ASSUME TypeOK, NEW fd \in Fds, SysClose(fd)
    PROVE  /\ TableKept(fda[curr_pid]) => TableKept(fda'[curr_pid])
           /\ \A p \in Pids : p # curr_pid => fda'[p] = fda[p]
           /\ UNCHANGED <<active_processes, in_use, curr_executable_fd>>
<1>1. UNCHANGED <<active_processes, in_use, curr_executable_fd>>
  BY DEF SysClose, schedVars, pcbVars
<1>2. CASE CloseFails(fda[curr_pid], fd)
  BY <1>1, <1>2 DEF SysClose
<1>3. CASE ~CloseFails(fda[curr_pid], fd)
  BY <1>1, <1>3, CloseKeepsTable DEF TypeOK, SysClose
<1>4. QED
  BY <1>2, <1>3

LEMMA FullStep == TypeOK /\ FullIsFull /\ [Next]_vars => FullIsFull'
<1> SUFFICES ASSUME TypeOK, FullIsFull, [Next]_vars PROVE FullIsFull'
  OBVIOUS
<1>0. in_use \in [Pids -> BOOLEAN]
  BY DEF TypeOK
<1>1. CASE TickStart
  BY <1>0, <1>1, LaunchFull DEF TickStart
<1>2. CASE TickStartFails \/ TickSwitch
  BY <1>2, SameFull DEF TickStartFails, TickSwitch, pcbVars
<1>3. CASE SysExecute
  BY <1>3, ExecuteFull
<1>4. CASE SysExecuteBase
  BY <1>0, <1>4, LaunchFull DEF SysExecuteBase
<1>5. CASE SysExecuteFails
  BY <1>5, SameFull DEF SysExecuteFails, pcbVars
<1>6. CASE Halt
  BY <1>6, EndFull DEF Halt, SysHalt
<1>7. CASE Exception
  BY <1>7, EndFull DEF Exception
<1>8. CASE HaltReturn \/ SysVidmap
  BY <1>8, SameFull DEF HaltReturn, SysVidmap, pcbVars
<1>9. CASE SysOpen
  BY <1>9, OpenTables DEF FullIsFull, TableKept, FreeSlots
<1>10. CASE Close
  BY <1>10, CloseTables DEF Close, FullIsFull, TableKept, FreeSlots
<1>11. CASE UNCHANGED vars
  BY <1>11, SameFull DEF vars, pcbVars
<1>12. QED
  BY <1>1, <1>2, <1>3, <1>4, <1>5, <1>6, <1>7, <1>8, <1>9, <1>10, <1>11 DEF Next, Tick

(***************************************************************************)
(* open never refuses a file that a table has room for, whatever programs  *)
(* and the kernel itself open and close (syscall.c:282-345, pid.c:142).    *)
(***************************************************************************)
THEOREM FullTablesAreFull == Spec => []FullIsFull
<1>1. TInv => TypeOK
  BY DEF TInv
<1>2. Init => FullIsFull
  BY DEF Init, FullIsFull
<1>3. QED
  BY <1>1, <1>2, InitTypes, TypesStep, FullStep, PTL DEF Spec

-----------------------------------------------------------------------------
(***************************************************************************)
(* Images.  A tick keeps them, and so does every step of a process under   *)
(* its own terminal.                                                       *)
(***************************************************************************)
LEMMA SameImages ==
    ASSUME ImageFdHeld, UNCHANGED <<active_processes, in_use, curr_executable_fd, fda>>
    PROVE  ImageFdHeld'
BY DEF ImageFdHeld, Suspended, Live, IsActive, CloseFails

LEMMA LaunchImages ==
    ASSUME TypeOK, SessionTree, ImageFdHeld, terminal_active' \in Terms,
           NEW used \in [Pids -> BOOLEAN], NEW flags, NEW saved,
           \/ used = in_use /\ base_processes[terminal_active'] = NoPid
           \/ /\ used = [in_use EXCEPT ![curr_pid] = FALSE]
              /\ curr_pid = active_processes[terminal_active'],
           LaunchBase(used, flags, saved)
    PROVE  ImageFdHeld'
<1>1. PICK t \in Terms : t = terminal_active'
  OBVIOUS
<1>2. PICK c \in Pids :
         /\ active_processes' = [active_processes EXCEPT ![t] = c]
         /\ \A p \in Pids \ {c} : /\ fda'[p].spaces = fda[p].spaces
                                  /\ curr_executable_fd'[p] = curr_executable_fd[p]
                                  /\ in_use'[p] = used[p]
  BY <1>1, LaunchTables
<1>3. /\ active_processes[t] \in {NoPid, curr_pid}
      /\ \A p \in Pids : used[p] => in_use[p] /\ active_processes[t] # p
  BY <1>1 DEF TypeOK, SessionTree, TerminalEnds, NoPid, Pids
<1>4. \A p \in Pids : Suspended(p)' => p # c /\ Suspended(p)
  BY <1>2, <1>3 DEF Suspended, Live, IsActive, TypeOK
<1>5. QED
  BY <1>2, <1>4 DEF ImageFdHeld, CloseFails

LEMMA ExecuteImages ==
    ASSUME TypeOK, SessionTree, Attributed, ImageFdHeld, SysExecute PROVE ImageFdHeld'
<1>1. PICK c \in Pids, fd \in Fds :
         /\ ~in_use[c] /\ in_use' = [in_use EXCEPT ![c] = TRUE]
         /\ active_processes' = [active_processes EXCEPT ![terminal_active] = c]
         /\ c # curr_pid => /\ ~CloseFails(fda'[curr_pid], fd)
                            /\ curr_executable_fd'[curr_pid] = fd
         /\ \A p \in Pids : p # c /\ p # curr_pid =>
              /\ fda'[p] = fda[p]
              /\ curr_executable_fd'[p] = curr_executable_fd[p]
  BY ExecuteTables
<1>2. c # curr_pid /\ curr_pid = active_processes[terminal_active]
  BY <1>1, Running DEF Attributed
<1>3. \A p \in Pids : Suspended(p)' => p = curr_pid \/ (p # c /\ Suspended(p))
  BY <1>1, <1>2 DEF Suspended, Live, IsActive, TypeOK
<1>4. QED
  BY <1>1, <1>2, <1>3 DEF ImageFdHeld, CloseFails

LEMMA EndImages ==
    ASSUME TypeOK, SessionTree, Attributed, ImageFdHeld,
           NEW status, NEW flags, NEW back, syscall_halt(status, flags, back)
    PROVE  ImageFdHeld'
<1>1. CASE HaltBase(flags)
  <2>1. PICK used : used = [in_use EXCEPT ![curr_pid] = FALSE]
    OBVIOUS
  <2>2. used \in [Pids -> BOOLEAN] /\ terminal_active' \in Terms
    BY <1>1, <2>1 DEF TypeOK, HaltBase
  <2>3. curr_pid = active_processes[terminal_active'] /\ LaunchBase(used, flags, regs)
    BY <1>1, <2>1 DEF HaltBase, Freed, Attributed
  <2>4. QED
    BY <2>1, <2>2, <2>3, LaunchImages
<1>2. CASE HaltBaseFails(flags, back)
  <2>1. /\ fda' = fda /\ curr_executable_fd' = curr_executable_fd
        /\ in_use' = [in_use EXCEPT ![curr_pid] = FALSE]
        /\ active_processes' = [active_processes EXCEPT ![terminal_active] = NoPid]
    BY <1>2 DEF HaltBaseFails, Freed
  <2>2. \A p \in Pids : Suspended(p)' => Suspended(p)
    BY <2>1 DEF Suspended, Live, IsActive, Attributed, TypeOK
  <2>3. QED
    BY <2>1, <2>2 DEF ImageFdHeld, CloseFails
<1>3. CASE HaltToParent(status, flags, back)
  <2>1. PICK par \in Pids :
          /\ \A p \in Pids : p # par => fda'[p] = fda[p]
          /\ \A p \in Pids : in_use'[p] => in_use[p] /\ p # curr_pid
          /\ curr_executable_fd' = curr_executable_fd
          /\ active_processes' = [active_processes EXCEPT ![terminal_active] = par]
    BY <1>3, HaltTables
  <2>2. \A p \in Pids : Suspended(p)' => p # par /\ Suspended(p)
    BY <2>1 DEF Suspended, Live, IsActive, Attributed, TypeOK
  <2>3. QED
    BY <2>1, <2>2 DEF ImageFdHeld, CloseFails
<1>4. QED
  BY <1>1, <1>2, <1>3, NoOrphan DEF syscall_halt

\* The process that closes a file waits for nobody.
LEMMA CloseImages ==
    ASSUME TypeOK, Attributed, ImageFdHeld, NEW fd \in Fds, SysClose(fd)
    PROVE  ImageFdHeld'
<1>1. ~Suspended(curr_pid)
  BY DEF Suspended, IsActive, Attributed, TypeOK
<1>2. QED
  BY <1>1, CloseTables DEF ImageFdHeld, Suspended, Live, IsActive, CloseFails

LEMMA ImagesKept ==
    ASSUME TypeOK, SessionTree, ImageFdHeld, Tick \/ Attributed, [Next]_vars
    PROVE  ImageFdHeld'
<1>0. in_use \in [Pids -> BOOLEAN]
  BY DEF TypeOK
<1>1. CASE TickStart
  <2>1. terminal_active' \in Terms /\ base_processes[terminal_active'] = NoPid
    BY <1>1, NextTermType DEF TypeOK, TickStart
  <2>2. QED
    BY <1>0, <1>1, <2>1, LaunchImages DEF TickStart
<1>2. CASE TickStartFails \/ TickSwitch
  BY <1>2, SameImages DEF TickStartFails, TickSwitch, pcbVars
<1>3. CASE SysExecute /\ Attributed
  BY <1>3, ExecuteImages
<1>4. CASE SysExecuteBase /\ Attributed
  BY <1>4, NoExecuteBase
<1>5. CASE SysExecuteFails
  BY <1>5, SameImages DEF SysExecuteFails, schedVars, pcbVars
<1>6. CASE Halt /\ Attributed
  BY <1>6, EndImages DEF Halt, SysHalt
<1>7. CASE Exception /\ Attributed
  BY <1>7, EndImages DEF Exception
<1>8. CASE HaltReturn \/ SysVidmap
  BY <1>8, SameImages DEF HaltReturn, SysVidmap, schedVars, pcbVars
<1>9. CASE SysOpen
  BY <1>9, OpenTables DEF ImageFdHeld, Suspended, Live, IsActive, CloseFails
<1>10. CASE Close /\ Attributed
  BY <1>10, CloseImages DEF Close
<1>11. CASE UNCHANGED vars
  BY <1>11, SameImages DEF vars, schedVars, pcbVars
<1>12. QED
  BY <1>1, <1>2, <1>3, <1>4, <1>5, <1>6, <1>7, <1>8, <1>9, <1>10, <1>11 DEF Next, Tick

(***************************************************************************)
(* For every set of edge cases, only a stray's own calls and faults break  *)
(* the tree or lose an image: the failed launch that made it a stray does  *)
(* not, nor does any other tick (scheduler.c:33-39, syscall.c:16-72, 83).  *)
(***************************************************************************)
THEOREM OnlyStraysBreak == Spec => KeptButByStrays
<1>1. TInv /\ [Next]_vars
        => [ SessionTree /\ (Tick \/ ~IsStray)
               => SessionTree' /\ (ImageFdHeld => ImageFdHeld') ]_vars
  BY TreeKept, ImagesKept DEF TInv, IsStray, Attributed
<1>2. QED
  BY <1>1, TypesInvariant, PTL DEF Spec, KeptButByStrays

LEMMA ImagesStep ==
    "boot" \notin Edges /\ IInv /\ ImageFdHeld /\ [Next]_vars => ImageFdHeld'
<1> SUFFICES ASSUME "boot" \notin Edges, IInv, ImageFdHeld, [Next]_vars PROVE ImageFdHeld'
  OBVIOUS
<1>1. Tick \/ HaltReturn \/ UNCHANGED vars \/ Attributed
  BY CallerAttributed DEF Next
<1>2. CASE Tick \/ Attributed
  BY <1>2, ImagesKept DEF IInv, TInv
<1>3. CASE HaltReturn \/ UNCHANGED vars
  BY <1>3, SameImages DEF HaltReturn, vars, schedVars, pcbVars
<1>4. QED
  BY <1>1, <1>2, <1>3

\* The descriptor of an executed image is still there when its program halts, so the
\* close in halt never misses it (syscall.c:44-45, 221).
THEOREM ImagesHeld ==
    ASSUME "boot" \notin Edges
    PROVE  Spec => []ImageFdHeld
<1>1. Init => ImageFdHeld
  BY DEF Init, ImageFdHeld, Suspended, Live
<1>2. QED
  BY <1>1, InitIInv, TreeStep, ImagesStep, PTL DEF Spec

-----------------------------------------------------------------------------
(***************************************************************************)
(* Base shells open no files: without the edge case "boot" their tables    *)
(* hold the image they executed and nothing else, so that schedule and     *)
(* halt can always open the next shell's image in them.                    *)
(***************************************************************************)
ShellTable(b, t) ==
    IF active_processes[t] = b
    THEN fda[b].spaces = Stdio /\ ~fda[b].full
    ELSE fda[b].spaces = Stdio \cup {2} /\ curr_executable_fd[b] = 2

ShellInv ==
    \A t \in Terms : base_processes[t] # NoPid => ShellTable(base_processes[t], t)

LEMMA NoBaseFails ==
    ASSUME IInv, ShellInv, Attributed, NEW flags, NEW back
    PROVE  ~HaltBaseFails(flags, back)
<1> SUFFICES ASSUME IsBase, LaunchFails(Freed(curr_pid)) PROVE FALSE
  BY DEF HaltBaseFails
<1>1. curr_pid \in Pids /\ ~Freed(curr_pid)[curr_pid]
  BY DEF IInv, TInv, TypeOK, Freed
<1>2. OpenFails(fda[curr_pid])
  BY <1>1 DEF LaunchFails, NoPidLeft
<1>3. fda[curr_pid].spaces = Stdio /\ ~fda[curr_pid].full
  <2>1. base_processes[terminal_active] = curr_pid /\ curr_pid # NoPid
        /\ active_processes[terminal_active] = curr_pid /\ terminal_active \in Terms
    BY DEF IsBase, Attributed, IInv, TInv, TypeOK, NoPid, Pids
  <2>2. QED
    BY <2>1 DEF ShellInv, ShellTable
<1>4. 2 \in FreeSlots(fda[curr_pid])
  BY <1>3 DEF FreeSlots, Stdio
<1>5. QED
  BY <1>2, <1>3, <1>4 DEF OpenFails

\* Steps that leave the base shells' entries alone.
LEMMA SameShells ==
    ASSUME ShellInv, UNCHANGED <<base_processes, active_processes>>,
           \A t \in Terms : base_processes[t] # NoPid =>
             /\ fda'[base_processes[t]] = fda[base_processes[t]]
             /\ curr_executable_fd'[base_processes[t]] = curr_executable_fd[base_processes[t]]
    PROVE  ShellInv'
BY DEF ShellInv, ShellTable

\* The base shell of a terminal is nobody else.
LEMMA BaseOf ==
    ASSUME IInv, NEW t \in Terms, base_processes[t] # NoPid
    PROVE  /\ base_processes[t] \in Pids /\ in_use[base_processes[t]]
           /\ terminal[base_processes[t]] = t
           /\ parent_pid[base_processes[t]] = NoPid
BY DEF IInv, SessionTree, TerminalEnds, Live, TInv, TypeOK

LEMMA LaunchShells ==
    ASSUME IInv, ShellInv, NEW t \in Terms, terminal_active' = t,
           NEW used \in [Pids -> BOOLEAN], NEW flags, NEW saved,
           \/ used = in_use /\ base_processes[t] = NoPid
           \/ used = [in_use EXCEPT ![curr_pid] = FALSE] /\ curr_pid = base_processes[t],
           LaunchBase(used, flags, saved)
    PROVE  ShellInv'
<1>1. PICK c \in Pids :
         /\ ~used[c]
         /\ active_processes' = [active_processes EXCEPT ![t] = c]
         /\ fda'[c] = FreshTable
         /\ \A p \in Pids \ {c} : /\ fda'[p].spaces = fda[p].spaces
                                  /\ fda'[p].full => fda[p].full
                                  /\ curr_executable_fd'[p] = curr_executable_fd[p]
                                  /\ in_use'[p] = used[p]
         /\ in_use' = [used EXCEPT ![c] = TRUE]
  BY LaunchTables DEF IInv, TInv
<1>2. base_processes' = [base_processes EXCEPT ![t] = active_processes'[t]]
  BY DEF LaunchBase, IInv, TInv, TypeOK
<1>3. active_processes'[t] = c /\ base_processes'[t] = c
  BY <1>1, <1>2 DEF IInv, TInv, TypeOK
<1>4. ShellTable(base_processes[t], t)'
  BY <1>1, <1>3 DEF ShellTable, FreshTable
<1>5. ASSUME NEW u \in Terms, u # t, base_processes[u] # NoPid
      PROVE  base_processes'[u] = base_processes[u] /\ ShellTable(base_processes[u], u)'
  <2>1. /\ base_processes'[u] = base_processes[u]
        /\ active_processes'[u] = active_processes[u]
    BY <1>1, <1>2, <1>5 DEF IInv, TInv, TypeOK
  <2>2. PICK b : b = base_processes[u]
    OBVIOUS
  <2>3. b \in Pids /\ in_use[b] /\ terminal[b] = u
    BY <1>5, <2>1, <2>2, BaseOf
  <2>4. used[b]
    <3>1. CASE used = in_use
      BY <2>3, <3>1
    <3>2. CASE used = [in_use EXCEPT ![curr_pid] = FALSE] /\ curr_pid = base_processes[t]
      <4>1. curr_pid # NoPid
        BY DEF IInv, TInv, TypeOK, NoPid, Pids
      <4>2. b # curr_pid
        BY <1>5, <2>3, <3>2, <4>1, BaseOf
      <4>3. QED
        BY <2>3, <3>2, <4>2 DEF IInv, TInv, TypeOK
    <3>3. QED
      BY <3>1, <3>2
  <2>5. b # c
    BY <1>1, <2>4
  <2>6. ShellTable(b, u)
    BY <1>5, <2>1, <2>2 DEF ShellInv
  <2>7. QED
    BY <1>1, <2>1, <2>2, <2>3, <2>5, <2>6 DEF ShellTable
<1>6. \A u \in Terms : u # t => base_processes'[u] = base_processes[u]
  BY <1>2 DEF IInv, TInv, TypeOK
<1>7. QED
  BY <1>4, <1>5, <1>6 DEF ShellInv

\* The slot that a shell's image takes in its table.
LEMMA ShellSlot ==
    ASSUME NEW f, f.spaces = Stdio, NEW fd, FirstFree(f, fd)
    PROVE  fd = 2
<1>1. 2 \in FreeSlots(f) /\ \A i \in FreeSlots(f) : i >= 2 /\ i \in Int
  BY DEF FreeSlots, Stdio
<1>2. fd \in FreeSlots(f) /\ fd <= 2
  BY <1>1 DEF FirstFree
<1>3. QED
  BY <1>1, <1>2

LEMMA ExecuteShells ==
    ASSUME IInv, ShellInv, Attributed, SysExecute
    PROVE  ShellInv'
<1>1. PICK c \in Pids, fd \in Fds :
         /\ FirstFree(fda[curr_pid], fd)
         /\ ~in_use[c]
         /\ curr_executable_fd' = [curr_executable_fd EXCEPT ![c] = 0, ![curr_pid] = fd]
         /\ active_processes' = [active_processes EXCEPT ![terminal_active] = c]
         /\ fda' = [fda EXCEPT ![curr_pid] = AfterOpen(@, fd), ![c] = FreshTable]
  BY DEF SysExecute, AvailPid, InitPcb
<1>2. base_processes' = base_processes
  BY DEF SysExecute
<1>3. /\ c # curr_pid /\ curr_pid = active_processes[terminal_active]
      /\ terminal[curr_pid] = terminal_active
  BY <1>1, Running DEF Attributed, IInv, TInv
<1>4. fda'[curr_pid].spaces = fda[curr_pid].spaces \cup {fd} /\ curr_executable_fd'[curr_pid] = fd
  BY <1>1, <1>3 DEF AfterOpen, IInv, TInv, TypeOK
<1>5. \A p \in Pids : p # c /\ p # curr_pid =>
         fda'[p] = fda[p] /\ curr_executable_fd'[p] = curr_executable_fd[p]
  BY <1>1 DEF IInv, TInv, TypeOK
<1>6. ASSUME NEW t \in Terms, base_processes[t] # NoPid
      PROVE  ShellTable(base_processes[t], t)'
  <2>1. PICK b : b = base_processes[t]
    OBVIOUS
  <2>2. b \in Pids /\ b # c /\ terminal[b] = t
    BY <1>1, <1>6, <2>1, BaseOf
  <2>3. ShellTable(b, t)
    BY <1>6, <2>1 DEF ShellInv
  <2>4. base_processes'[t] = b /\ active_processes'[t] = IF t = terminal_active THEN c
                                                          ELSE active_processes[t]
    BY <1>1, <1>2, <2>1 DEF IInv, TInv, TypeOK
  <2>5. CASE b = curr_pid
    <3>1. t = terminal_active /\ active_processes[t] = b
      BY <1>3, <2>2, <2>5
    <3>2. fda[curr_pid].spaces = Stdio
      BY <2>3, <2>5, <3>1 DEF ShellTable
    <3>3. fd = 2
      BY <1>1, <3>2, ShellSlot
    <3>4. QED
      BY <1>4, <2>1, <2>2, <2>4, <2>5, <3>1, <3>2, <3>3 DEF ShellTable
  <2>6. CASE b # curr_pid
    <3>1. active_processes[t] # b \/ t # terminal_active
      BY <1>3, <2>6
    <3>2. active_processes'[t] = b <=> active_processes[t] = b
      <4>1. t = terminal_active => active_processes[t] # b /\ active_processes'[t] # b
        BY <1>3, <2>2, <2>4, <2>6
      <4>2. QED
        BY <2>4, <4>1
    <3>3. fda'[b] = fda[b] /\ curr_executable_fd'[b] = curr_executable_fd[b]
      BY <1>5, <2>2, <2>6
    <3>4. QED
      BY <2>1, <2>3, <2>4, <3>2, <3>3 DEF ShellTable
  <2>7. QED
    BY <2>5, <2>6
<1>7. QED
  BY <1>2, <1>6 DEF ShellInv

LEMMA HaltToParentShells ==
    ASSUME IInv, ShellInv, Attributed, NEW status, NEW flags, NEW back,
           HaltToParent(status, flags, back)
    PROVE  ShellInv'
<1>1. PICK par : par = parent_pid[curr_pid]
  OBVIOUS
<1>2. /\ par \in Pids /\ par # curr_pid /\ terminal[par] = terminal_active
      /\ curr_pid = active_processes[terminal_active]
      /\ curr_pid # base_processes[terminal_active]
  BY <1>1, ParentOfRunning DEF HaltToParent, IInv, TInv, Attributed, IsBase
<1>3. PICK fd : fd = curr_executable_fd[par]
  OBVIOUS
<1>4. /\ active_processes' = [active_processes EXCEPT ![terminal_active] = par]
      /\ fda' = IF CloseFails(fda[par], fd) THEN fda
                ELSE [fda EXCEPT ![par] = AfterClose(@, fd)]
      /\ UNCHANGED <<base_processes, curr_executable_fd>>
  BY <1>1, <1>3 DEF HaltToParent, HaltTarget
<1>5. ASSUME NEW t \in Terms, base_processes[t] # NoPid
      PROVE  ShellTable(base_processes[t], t)'
  <2>1. PICK b : b = base_processes[t]
    OBVIOUS
  <2>2. b \in Pids /\ terminal[b] = t /\ ShellTable(b, t)
    BY <1>5, <2>1, BaseOf DEF ShellInv
  <2>3. base_processes'[t] = b /\ active_processes'[t] = IF t = terminal_active THEN par
                                                          ELSE active_processes[t]
    BY <1>4, <2>1 DEF IInv, TInv, TypeOK
  <2>4. CASE b = par
    <3>1. t = terminal_active /\ active_processes[t] # b
      BY <1>2, <2>2, <2>4
    <3>2. fda[par].spaces = Stdio \cup {2} /\ fd = 2
      BY <1>3, <2>2, <2>4, <3>1 DEF ShellTable
    <3>3. ~CloseFails(fda[par], fd)
      BY <3>2, FdAssumption DEF CloseFails
    <3>4. fda'[par] = AfterClose(fda[par], fd)
      BY <1>2, <1>4, <3>3 DEF IInv, TInv, TypeOK
    <3>5. fda'[par].spaces = Stdio /\ ~fda'[par].full
      BY <3>2, <3>4 DEF AfterClose, Stdio
    <3>6. QED
      BY <2>1, <2>3, <2>4, <3>1, <3>5 DEF ShellTable
  <2>5. CASE b # par
    <3>1. fda'[b] = fda[b] /\ curr_executable_fd'[b] = curr_executable_fd[b]
      BY <1>4, <2>2, <2>5 DEF IInv, TInv, TypeOK
    <3>2. t = terminal_active => active_processes[t] # b /\ active_processes'[t] # b
      BY <1>2, <2>1, <2>3, <2>5
    <3>3. active_processes'[t] = b <=> active_processes[t] = b
      BY <2>3, <3>2
    <3>4. QED
      BY <2>1, <2>2, <2>3, <3>1, <3>3 DEF ShellTable
  <2>6. QED
    BY <2>4, <2>5
<1>6. QED
  BY <1>4, <1>5 DEF ShellInv

LEMMA EndShells ==
    ASSUME IInv, ShellInv, Attributed, NEW status, NEW flags, NEW back,
           syscall_halt(status, flags, back)
    PROVE  ShellInv'
<1>1. CASE HaltBase(flags)
  <2>1. PICK used : used = [in_use EXCEPT ![curr_pid] = FALSE]
    OBVIOUS
  <2>2. used \in [Pids -> BOOLEAN] /\ LaunchBase(used, flags, regs)
    BY <1>1, <2>1 DEF HaltBase, Freed, IInv, TInv, TypeOK
  <2>3. PICK t \in Terms : t = terminal_active
    BY DEF IInv, TInv, TypeOK
  <2>4. terminal_active' = t /\ curr_pid = base_processes[t]
    BY <1>1, <2>3 DEF HaltBase, IsBase
  <2>5. QED
    BY <2>1, <2>2, <2>4, LaunchShells
<1>2. CASE HaltToParent(status, flags, back)
  BY <1>2, HaltToParentShells
<1>3. ~HaltBaseFails(flags, back) /\ ~HaltOrphan(flags)
  BY NoBaseFails, NoOrphan DEF IInv, TInv
<1>4. QED
  BY <1>1, <1>2, <1>3 DEF syscall_halt

\* What a program that is no base shell opens and closes.
LEMMA FilesShells ==
    ASSUME IInv, ShellInv, OtherProgram, Attributed,
           \A p \in Pids : p # curr_pid => fda'[p] = fda[p],
           UNCHANGED <<base_processes, active_processes, curr_executable_fd>>
    PROVE  ShellInv'
<1>1. \A t \in Terms : base_processes[t] # NoPid =>
         base_processes[t] \in Pids /\ base_processes[t] # curr_pid
  BY BaseOf DEF OtherProgram
<1>2. QED
  BY <1>1, SameShells

LEMMA ShellStep == "boot" \notin Edges /\ IInv /\ ShellInv /\ [Next]_vars => ShellInv'
<1> SUFFICES ASSUME "boot" \notin Edges, IInv, ShellInv, [Next]_vars PROVE ShellInv'
  OBVIOUS
<1>1. CASE TickStart
  <2>1. PICK t \in Terms : t = NextTerm
    BY NextTermType DEF IInv, TInv, TypeOK
  <2>2. PICK saved : saved = [regs EXCEPT ![curr_pid] = SwitchFrame]
    OBVIOUS
  <2>3. /\ terminal_active' = t /\ base_processes[t] = NoPid
        /\ in_use \in [Pids -> BOOLEAN]
        /\ LaunchBase(in_use, exception, saved)
    BY <1>1, <2>1, <2>2 DEF TickStart, IInv, TInv, TypeOK
  <2>4. QED
    BY <2>3, LaunchShells
<1>2. CASE SysExecute
  BY <1>2, CallerAttributed, ExecuteShells
<1>3. CASE SysExecuteBase
  BY <1>3, CallerAttributed, NoExecuteBase DEF IInv, TInv
<1>4. CASE Halt
  <2>1. Attributed
    BY <1>4, CallerAttributed
  <2>2. QED
    BY <1>4, <2>1, EndShells DEF Halt, SysHalt
<1>5. CASE Exception
  <2>1. Attributed
    BY <1>5, CallerAttributed
  <2>2. QED
    BY <1>5, <2>1, EndShells DEF Exception
<1>6. CASE SysOpen
  <2>1. Attributed /\ OtherProgram /\ base_processes' = base_processes
    BY <1>6, CallerAttributed DEF SysOpen, schedVars
  <2>2. QED
    BY <1>6, <2>1, OpenTables, FilesShells DEF IInv, TInv
<1>7. CASE Close
  <2>1. Attributed /\ OtherProgram /\ base_processes' = base_processes
    BY <1>7, CallerAttributed DEF Close, SysClose, schedVars
  <2>2. QED
    BY <1>7, <2>1, CloseTables, FilesShells DEF Close, IInv, TInv
<1>8. CASE TickStartFails \/ TickSwitch
  BY <1>8, SameShells DEF TickStartFails, TickSwitch
<1>9. CASE SysExecuteFails \/ HaltReturn \/ SysVidmap \/ UNCHANGED vars
  BY <1>9, SameShells DEF SysExecuteFails, HaltReturn, SysVidmap, vars, schedVars
<1>10. QED
  BY <1>1, <1>2, <1>3, <1>4, <1>5, <1>6, <1>7, <1>8, <1>9 DEF Next, Tick

LEMMA ShellsInvariant ==
    ASSUME "boot" \notin Edges
    PROVE  Spec => [](IInv /\ ShellInv)
<1>1. Init => ShellInv
  BY DEF Init, ShellInv
<1>2. IInv /\ ShellInv /\ [Next]_vars => (IInv /\ ShellInv)'
  BY TreeStep, ShellStep
<1>3. QED
  BY <1>1, <1>2, InitIInv, PTL DEF Spec

-----------------------------------------------------------------------------
(***************************************************************************)
(* Contexts and pages, without an edge case.  Two more things have to be   *)
(* known: whoever was preempted was in its program, and execute("shell")   *)
(* never fails in the timer's interrupt, since the terminals are booted in *)
(* their order with the pids in theirs, and there are enough of them.      *)
(***************************************************************************)
Frame(saved, p, kind) == saved[p].kind = kind /\ saved[p].at = "user" /\ saved[p].stack = p

ContextInv ==
    /\ cpu.at \in {"idle", "user", "window"}
    /\ RunningIsForeground
    /\ \A t \in Terms : LET p == active_processes[t]
                        IN  p # NoPid /\ p # curr_pid => Frame(regs, p, "switch")
    /\ \A p \in Pids : Suspended(p) \/ (p = curr_pid /\ cpu.at = "window")
                        => Frame(regs, p, "execute")
    /\ cpu.at = "user" => cpu.stack = curr_pid

BootInv ==
    /\ cpu.at = "idle" => /\ terminal_active = TERMINAL_COUNT - 1
                          /\ \A t \in Terms : base_processes[t] = NoPid
                          /\ \A p \in Pids : ~in_use[p]
    /\ cpu.at = "window" => Booted
    /\ cpu.at # "idle" /\ ~Booted =>
         /\ \A t \in Terms : base_processes[t] # NoPid <=> t <= terminal_active
         /\ \A p \in Pids : in_use[p] <=> p <= terminal_active
    /\ ~Booted => ~OpenFails(fda[curr_pid])

RunInv == ContextInv /\ BootInv

LEMMA FreshTableOpens == ~OpenFails(FreshTable) /\ ~OpenFails(EmptyTable)
<1>1. 2 \in FreeSlots(FreshTable) /\ 2 \in FreeSlots(EmptyTable)
  BY DEF FreeSlots, FreshTable, EmptyTable, Stdio
<1>2. QED
  BY <1>1 DEF OpenFails, FreshTable, EmptyTable

\* No child is another terminal's foreground process, and who is in the foreground of a
\* terminal is in no other's.
LEMMA OneForeground ==
    ASSUME IInv, NEW t \in Terms, NEW u \in Terms,
           active_processes[t] # NoPid, active_processes[t] = active_processes[u]
    PROVE  t = u
BY DEF IInv, TInv, TypeOK, SessionTree, TerminalEnds, Live, NoPid, Pids

\* Where a launch leaves the CPU and the contexts.
LEMMA LaunchContexts ==
    ASSUME IInv, terminal_active' \in Terms,
           NEW used \in [Pids -> BOOLEAN], NEW flags, NEW saved \in [Pids -> Ctx],
           \/ used = in_use /\ base_processes[terminal_active'] = NoPid
           \/ /\ used = [in_use EXCEPT ![curr_pid] = FALSE]
              /\ curr_pid = active_processes[terminal_active'],
           \A p \in Pids : used[p] /\ IsActive(p) => Frame(saved, p, "switch"),
           \A p \in Pids : used[p] /\ Suspended(p) => Frame(saved, p, "execute"),
           LaunchBase(used, flags, saved)
    PROVE  ContextInv' /\ cpu'.at = "user"
<1>1. PICK c \in Pids :
         /\ ~used[c]
         /\ curr_pid' = c
         /\ in_use' = [used EXCEPT ![c] = TRUE]
         /\ regs' = [saved EXCEPT ![c] = ClearedRegs(c)]
         /\ active_processes' = [active_processes EXCEPT ![terminal_active'] = c]
         /\ usr_page' = c /\ esp0' = c
         /\ cpu' = [at |-> "user", stack |-> c]
  BY DEF LaunchBase, AvailPid, InitPcb, EnterProgram, EnterSpace
<1> DEFINE t == terminal_active'
<1>2. /\ t \in Terms
      /\ active_processes' = [active_processes EXCEPT ![t] = c]
      /\ active_processes[t] \in {NoPid, curr_pid}
      /\ \A p \in Pids : used[p] => in_use[p] /\ active_processes[t] # p
  BY <1>1 DEF IInv, TInv, TypeOK, SessionTree, TerminalEnds, NoPid, Pids
<1> HIDE DEF t
<1>3. \A u \in Terms : u # t /\ active_processes[u] # NoPid =>
         active_processes[u] \in Pids /\ used[active_processes[u]]
  <2> SUFFICES ASSUME NEW u \in Terms, u # t, active_processes[u] # NoPid
               PROVE  active_processes[u] \in Pids /\ used[active_processes[u]]
    OBVIOUS
  <2>1. active_processes[u] \in Pids /\ in_use[active_processes[u]]
    BY DEF IInv, TInv, TypeOK, SessionTree, TerminalEnds, Live
  <2>2. active_processes[u] # active_processes[t]
    BY <1>2, <2>1, OneForeground
  <2>3. QED
    BY <1>2, <2>1, <2>2 DEF IInv, TInv, TypeOK, t
<1>4. \A u \in Terms : active_processes'[u] # NoPid /\ active_processes'[u] # curr_pid' =>
         Frame(regs', active_processes'[u], "switch")
  <2> SUFFICES ASSUME NEW u \in Terms, active_processes'[u] # NoPid,
                      active_processes'[u] # c
               PROVE  Frame(regs', active_processes'[u], "switch")
    BY <1>1
  <2>1. u # t /\ active_processes'[u] = active_processes[u]
    BY <1>2 DEF IInv, TInv, TypeOK
  <2>2. Frame(saved, active_processes[u], "switch")
    BY <1>3, <2>1 DEF IsActive
  <2>3. QED
    BY <1>1, <1>3, <2>1, <2>2 DEF Frame
<1>5. \A p \in Pids : Suspended(p)' => p # c /\ used[p] /\ Suspended(p)
  BY <1>1, <1>2 DEF Suspended, Live, IsActive, IInv, TInv, TypeOK
<1>6. \A p \in Pids : Suspended(p)' => Frame(regs', p, "execute")
  BY <1>1, <1>5 DEF Frame
<1>7. RunningIsForeground'
  BY <1>1, <1>2 DEF RunningIsForeground, IInv, TInv, TypeOK, t
<1>8. QED
  BY <1>1, <1>4, <1>6, <1>7 DEF ContextInv

LEMMA BootNoFail ==
    ASSUME IInv, RunInv, TERMINAL_COUNT <= PID_NUM, base_processes[NextTerm] = NoPid
    PROVE  /\ ~LaunchFails(in_use)
           /\ \A c \in Pids : AvailPid(c, in_use) => c = NextTerm
           /\ cpu.at = "idle" => NextTerm = 0
           /\ cpu.at # "idle" => NextTerm = terminal_active + 1
<1>1. NextTerm \in Terms /\ NextTerm \in Pids
  BY NextTermType DEF IInv, TInv, TypeOK, Terms, Pids
<1>2. ~Booted
  BY <1>1 DEF Booted
<1>3. CASE cpu.at = "idle"
  <2>1. NextTerm = 0 /\ \A p \in Pids : ~in_use[p]
    BY <1>3 DEF RunInv, BootInv, NextTerm
  <2>2. 0 \in Pids
    BY DEF Pids
  <2>3. QED
    BY <1>2, <1>3, <2>1, <2>2
       DEF RunInv, BootInv, LaunchFails, NoPidLeft, AvailPid, Pids
<1>4. CASE cpu.at # "idle"
  <2>1. /\ \A t \in Terms : base_processes[t] # NoPid <=> t <= terminal_active
        /\ \A p \in Pids : in_use[p] <=> p <= terminal_active
        /\ ~OpenFails(fda[curr_pid])
    BY <1>2, <1>4 DEF RunInv, BootInv
  <2>2. terminal_active \in Terms /\ NextTerm > terminal_active
    BY <1>1, <2>1 DEF IInv, TInv, TypeOK, Terms
  <2>3. NextTerm = terminal_active + 1
    BY <1>1, <2>2 DEF NextTerm, Terms
  <2>4. ~in_use[NextTerm]
    BY <1>1, <2>1, <2>2 DEF IInv, TInv, TypeOK, Terms
  <2>5. \A c \in Pids : AvailPid(c, in_use) => c = NextTerm
    BY <1>1, <2>1, <2>2, <2>3, <2>4 DEF AvailPid, Pids, Terms
  <2>6. QED
    BY <1>1, <1>4, <2>1, <2>3, <2>4, <2>5 DEF LaunchFails, NoPidLeft
<1>5. QED
  BY <1>3, <1>4

LEMMA TickStartRuns ==
    ASSUME IInv, RunInv, Edges = {}, TERMINAL_COUNT <= PID_NUM, TickStart
    PROVE  RunInv'
<1> DEFINE saved == [regs EXCEPT ![curr_pid] = SwitchFrame]
<1>1. /\ terminal_active' = NextTerm /\ NextTerm \in Terms
      /\ base_processes[NextTerm] = NoPid
      /\ cpu.at # "window"
      /\ LaunchBase(in_use, exception, saved)
  BY NextTermType DEF TickStart, TickLands, IInv, TInv, TypeOK
<1>2. saved \in [Pids -> Ctx] /\ in_use \in [Pids -> BOOLEAN]
  BY CtxTypes DEF IInv, TInv, TypeOK
<1>3. \A p \in Pids : in_use[p] /\ IsActive(p) => Frame(saved, p, "switch")
  <2> SUFFICES ASSUME NEW p \in Pids, in_use[p], IsActive(p)
               PROVE  Frame(saved, p, "switch")
    OBVIOUS
  <2>1. p # NoPid
    BY DEF Pids, NoPid
  <2>2. CASE p # curr_pid
    BY <2>1, <2>2 DEF RunInv, ContextInv, IsActive, Frame, IInv, TInv, TypeOK
  <2>3. CASE p = curr_pid
    <3>1. cpu.at = "user" /\ cpu.stack = curr_pid
      BY <1>1 DEF RunInv, ContextInv, BootInv
    <3>2. QED
      BY <2>3, <3>1 DEF Frame, SwitchFrame, FrameAt, IInv, TInv, TypeOK
  <2>4. QED
    BY <2>2, <2>3
<1>4. \A p \in Pids : in_use[p] /\ Suspended(p) => Frame(saved, p, "execute")
  <2>1. \A p \in Pids : in_use[p] /\ Suspended(p) => p # curr_pid
    BY DEF RunInv, ContextInv, BootInv, RunningIsForeground, Suspended, IsActive, IInv, TInv, TypeOK
  <2>2. QED
    BY <2>1 DEF RunInv, ContextInv, Frame, IInv, TInv, TypeOK
<1> HIDE DEF saved
<1>5. ContextInv' /\ cpu'.at = "user"
  BY <1>1, <1>2, <1>3, <1>4, LaunchContexts
<1>6. PICK c \in Pids :
         /\ AvailPid(c, in_use)
         /\ in_use' = [in_use EXCEPT ![c] = TRUE]
         /\ curr_pid' = c
         /\ base_processes' = [base_processes EXCEPT ![NextTerm] = c]
         /\ \E f : fda' = [fda EXCEPT ![curr_pid] = f, ![c] = FreshTable]
  BY <1>1 DEF LaunchBase, InitPcb
<1>7. c = NextTerm /\ c # NoPid
  BY <1>1, <1>6, BootNoFail DEF NoPid, Pids
<1>8. fda'[curr_pid'] = FreshTable
  BY <1>6 DEF IInv, TInv, TypeOK
<1>9. /\ \A t \in Terms : base_processes'[t] # NoPid <=> t <= NextTerm
      /\ \A p \in Pids : in_use'[p] <=> p <= NextTerm
  <2>1. ~Booted
    BY <1>1 DEF Booted
  <2>2. CASE cpu.at = "idle"
    <3>1. /\ NextTerm = 0
          /\ \A t \in Terms : base_processes[t] = NoPid
          /\ \A p \in Pids : ~in_use[p]
      BY <1>1, <2>2, BootNoFail DEF RunInv, BootInv
    <3>2. \A t \in Terms : base_processes'[t] # NoPid <=> t = 0
      BY <1>1, <1>6, <1>7, <3>1 DEF IInv, TInv, TypeOK
    <3>3. \A p \in Pids : in_use'[p] <=> p = 0
      BY <1>6, <1>7, <3>1 DEF IInv, TInv, TypeOK
    <3>4. QED
      BY <3>1, <3>2, <3>3 DEF Terms, Pids
  <2>3. CASE cpu.at # "idle"
    <3>1. NextTerm = terminal_active + 1 /\ terminal_active \in Terms
      BY <1>1, <2>3, BootNoFail DEF IInv, TInv, TypeOK
    <3>2. /\ \A t \in Terms : base_processes[t] # NoPid <=> t <= terminal_active
          /\ \A p \in Pids : in_use[p] <=> p <= terminal_active
      BY <2>1, <2>3 DEF RunInv, BootInv
    <3>3. \A t \in Terms : base_processes'[t] # NoPid <=> (t = NextTerm \/ base_processes[t] # NoPid)
      BY <1>1, <1>6, <1>7 DEF IInv, TInv, TypeOK
    <3>4. \A p \in Pids : in_use'[p] <=> (p = NextTerm \/ in_use[p])
      BY <1>6, <1>7 DEF IInv, TInv, TypeOK
    <3>5. QED
      BY <3>1, <3>2, <3>3, <3>4 DEF Terms, Pids
  <2>4. QED
    BY <2>2, <2>3
<1>10. BootInv'
  BY <1>1, <1>5, <1>8, <1>9, FreshTableOpens DEF BootInv
<1>11. QED
  BY <1>5, <1>10 DEF RunInv

\* A terminal that has a shell keeps one; before the last has its own, nothing but the
\* timer's interrupt does anything.
LEMMA StaysBooted ==
    ASSUME BootInv, Booted, Booted', cpu'.at # "idle"
    PROVE  BootInv'
BY DEF BootInv

LEMMA TickSwitchRuns ==
    ASSUME IInv, RunInv, Edges = {}, TickSwitch
    PROVE  RunInv'
<1> DEFINE to == active_processes[NextTerm]
           saved == [regs EXCEPT ![curr_pid] = SwitchFrame]
<1>1. /\ NextTerm \in Terms /\ terminal_active' = NextTerm
      /\ base_processes[NextTerm] # NoPid
      /\ cpu.at # "window"
      /\ curr_pid' = to /\ usr_page' = to /\ esp0' = to
      /\ regs' = saved /\ cpu' = Resumed(saved[to])
      /\ UNCHANGED <<base_processes, active_processes, in_use, fda>>
  BY NextTermType DEF TickSwitch, TickLands, IInv, TInv, TypeOK, EnterSpace, pcbVars
<1>2. cpu.at = "user" /\ cpu.stack = curr_pid /\ curr_pid = active_processes[terminal_active]
  BY <1>1 DEF RunInv, BootInv, ContextInv, RunningIsForeground
<1>3. to \in Pids /\ to # NoPid
  BY <1>1 DEF IInv, TInv, TypeOK, SessionTree, TerminalEnds, Live, NoPid, Pids
<1>4. Frame(saved, curr_pid, "switch")
  BY <1>2 DEF Frame, SwitchFrame, FrameAt, IInv, TInv, TypeOK
<1>5. \A p \in Pids : p # curr_pid => saved[p] = regs[p]
  BY DEF IInv, TInv, TypeOK
<1> HIDE DEF saved
<1>6. \A t \in Terms : active_processes[t] # NoPid => Frame(saved, active_processes[t], "switch")
  BY <1>4, <1>5 DEF RunInv, ContextInv, Frame, IInv, TInv, TypeOK
<1>7. Frame(saved, to, "switch")
  BY <1>1, <1>3, <1>6
<1>8. cpu' = [at |-> "user", stack |-> to]
  BY <1>1, <1>7 DEF Resumed, Frame
<1>9. \A p \in Pids : Suspended(p) => p # curr_pid /\ Frame(saved, p, "execute")
  <2>1. ~Suspended(curr_pid)
    BY <1>2 DEF Suspended, IsActive, IInv, TInv, TypeOK
  <2>2. QED
    BY <1>5, <2>1 DEF RunInv, ContextInv, Frame
<1>10. ContextInv'
  BY <1>1, <1>6, <1>8, <1>9
     DEF ContextInv, RunningIsForeground, Suspended, Live, IsActive, Frame
<1>11. Booted /\ Booted'
  <2>1. ASSUME ~Booted PROVE FALSE
    <3>1. \A t \in Terms : base_processes[t] # NoPid <=> t <= terminal_active
      BY <1>2, <2>1 DEF RunInv, BootInv
    <3>2. NextTerm <= terminal_active /\ terminal_active \in Terms
      BY <1>1, <3>1 DEF IInv, TInv, TypeOK
    <3>3. terminal_active = TERMINAL_COUNT - 1
      BY <3>2 DEF NextTerm, Terms
    <3>4. QED
      BY <2>1, <3>1, <3>3 DEF Booted, Terms
  <2>2. QED
    BY <1>1, <2>1 DEF Booted
<1>12. QED
  BY <1>8, <1>10, <1>11, StaysBooted DEF RunInv

LEMMA ExecuteRuns ==
    ASSUME IInv, RunInv, Edges = {}, SysExecute
    PROVE  RunInv'
<1>1. PICK c \in Pids :
         /\ ~in_use[c]
         /\ curr_pid' = c
         /\ in_use' = [in_use EXCEPT ![c] = TRUE]
         /\ active_processes' = [active_processes EXCEPT ![terminal_active] = c]
         /\ regs' = [regs EXCEPT ![c] = ClearedRegs(c), ![curr_pid] = ExecuteFrame]
         /\ usr_page' = c /\ esp0' = c
         /\ cpu' = [at |-> IF c = curr_pid THEN "fault" ELSE "user", stack |-> c]
  BY DEF SysExecute, AvailPid, InitPcb, EnterProgram, EnterSpace
<1>2. /\ cpu.at = "user" /\ cpu.stack = curr_pid
      /\ curr_pid = active_processes[terminal_active]
      /\ Booted
      /\ UNCHANGED <<terminal_active, base_processes>>
  BY CallerAttributed DEF SysExecute, ProgramRuns, Attributed, RunInv, ContextInv
<1>3. /\ in_use[curr_pid] /\ curr_pid # c
      /\ \A t \in Terms : active_processes[t] # c
  <2>1. \A t \in Terms : active_processes[t] # NoPid => in_use[active_processes[t]]
    BY DEF IInv, TInv, TypeOK, SessionTree, TerminalEnds, Live
  <2>2. curr_pid # NoPid /\ c # NoPid /\ terminal_active \in Terms
    BY DEF IInv, TInv, TypeOK, NoPid, Pids
  <2>3. QED
    BY <1>1, <1>2, <2>1, <2>2
<1>4. \A t \in Terms : active_processes[t] = curr_pid => t = terminal_active
  BY <1>2, OneForeground DEF IInv, TInv, TypeOK, NoPid, Pids
<1>5. /\ Frame(regs', curr_pid, "execute")
      /\ \A p \in Pids : p # c /\ p # curr_pid => regs'[p] = regs[p]
  BY <1>1, <1>2, <1>3 DEF IInv, TInv, TypeOK, Frame, ExecuteFrame
<1>6. \A t \in Terms : active_processes'[t] # NoPid /\ active_processes'[t] # c =>
         Frame(regs', active_processes'[t], "switch")
  <2> SUFFICES ASSUME NEW t \in Terms, active_processes'[t] # NoPid, active_processes'[t] # c
               PROVE  Frame(regs', active_processes'[t], "switch")
    OBVIOUS
  <2>1. t # terminal_active /\ active_processes'[t] = active_processes[t]
    BY <1>1 DEF IInv, TInv, TypeOK
  <2>2. active_processes[t] # curr_pid /\ active_processes[t] \in Pids
    BY <1>4, <2>1 DEF IInv, TInv, TypeOK
  <2>3. Frame(regs, active_processes[t], "switch")
    BY <2>1, <2>2 DEF RunInv, ContextInv
  <2>4. QED
    BY <1>5, <2>1, <2>2, <2>3 DEF Frame
<1>7. \A p \in Pids : Suspended(p)' => p # c /\ (p = curr_pid \/ Suspended(p))
  BY <1>1, <1>2 DEF Suspended, Live, IsActive, IInv, TInv, TypeOK
<1>8. \A p \in Pids : Suspended(p)' => Frame(regs', p, "execute")
  BY <1>5, <1>7 DEF RunInv, ContextInv, Frame
<1>9. RunningIsForeground'
  BY <1>1, <1>2 DEF RunningIsForeground, IInv, TInv, TypeOK
<1>10. ContextInv'
  BY <1>1, <1>3, <1>6, <1>8, <1>9 DEF ContextInv
<1>11. Booted'
  BY <1>2 DEF Booted
<1>12. QED
  BY <1>1, <1>2, <1>10, <1>11, StaysBooted DEF RunInv

LEMMA HaltBaseRuns ==
    ASSUME IInv, RunInv, Edges = {}, NEW flags, cpu.at = "user", Attributed, Booted,
           HaltBase(flags)
    PROVE  RunInv'
<1> DEFINE used == [in_use EXCEPT ![curr_pid] = FALSE]
<1>1. /\ used \in [Pids -> BOOLEAN] /\ regs \in [Pids -> Ctx]
      /\ terminal_active' \in Terms
  BY DEF IInv, TInv, TypeOK, HaltBase
<1>2. curr_pid = active_processes[terminal_active'] /\ Booted
  BY DEF HaltBase, Attributed
<1>3. LaunchBase(used, flags, regs)
  BY DEF HaltBase, Freed
<1>4. /\ \A p \in Pids : used[p] /\ IsActive(p) => Frame(regs, p, "switch")
      /\ \A p \in Pids : used[p] /\ Suspended(p) => Frame(regs, p, "execute")
  BY DEF IInv, TInv, TypeOK, RunInv, ContextInv, IsActive, NoPid, Pids
<1> HIDE DEF used
<1>5. used = [in_use EXCEPT ![curr_pid] = FALSE]
  BY DEF used
<1>6. ContextInv' /\ cpu'.at = "user"
  BY <1>1, <1>2, <1>3, <1>4, <1>5, LaunchContexts
<1>7. Booted'
  <2>1. PICK c \in Pids : base_processes' = [base_processes EXCEPT ![terminal_active'] = c]
    BY <1>3 DEF LaunchBase
  <2>2. QED
    BY <1>1, <1>2, <2>1 DEF Booted, IInv, TInv, TypeOK, NoPid, Pids
<1>8. QED
  BY <1>2, <1>6, <1>7, StaysBooted DEF RunInv

LEMMA HaltToParentRuns ==
    ASSUME IInv, RunInv, Edges = {}, NEW status, NEW flags, NEW back, cpu.at = "user",
           Attributed, Booted, HaltToParent(status, flags, back)
    PROVE  RunInv'
<1> DEFINE par == parent_pid[curr_pid]
           ebx == IF flags[curr_pid] THEN FaultStatus ELSE status
           saved == [regs EXCEPT ![par].ebx = ebx, ![curr_pid] = FrameAt(back)]
<1>1. /\ ~IsBase /\ Booted
      /\ curr_pid = active_processes[terminal_active]
      /\ curr_pid' = par
      /\ in_use' = [in_use EXCEPT ![curr_pid] = FALSE]
      /\ active_processes' = [active_processes EXCEPT ![terminal_active] = par]
      /\ usr_page' = par /\ esp0' = par
      /\ regs' = saved
      /\ cpu' = Resumed(saved[par])
      /\ UNCHANGED <<terminal_active, base_processes>>
  BY DEF HaltToParent, Attributed, HaltTarget, Freed, EnterSpace
<1>2. par \in Pids /\ par # curr_pid /\ in_use[par] /\ Suspended(par)
  BY <1>1, ParentOfRunning DEF IInv, TInv
<1>3. \A p \in Pids : p # curr_pid => /\ saved[p].kind = regs[p].kind
                                      /\ saved[p].at = regs[p].at
                                      /\ saved[p].stack = regs[p].stack
  <2>1. PICK frame : frame = FrameAt(back)
    OBVIOUS
  <2>2. PICK told : told = ebx
    OBVIOUS
  <2>3. saved = [regs EXCEPT ![par].ebx = told, ![curr_pid] = frame]
    BY <2>1, <2>2
  <2>4. regs \in [Pids -> Ctx]
    BY DEF IInv, TInv, TypeOK
  <2> HIDE DEF saved, ebx
  <2>5. QED
    BY <1>2, <2>3, <2>4 DEF Ctx
<1> HIDE DEF saved, ebx
<1>b. Frame(regs, par, "execute")
  BY <1>2 DEF RunInv, ContextInv
<1>4. cpu'.at = "window"
  BY <1>1, <1>2, <1>3, <1>b DEF Resumed, Frame
<1>5. \A t \in Terms : active_processes[t] = curr_pid => t = terminal_active
  BY <1>1, OneForeground DEF IInv, TInv, TypeOK, NoPid, Pids
<1>6. \A t \in Terms : active_processes'[t] # NoPid /\ active_processes'[t] # par =>
         Frame(regs', active_processes'[t], "switch")
  <2> SUFFICES ASSUME NEW t \in Terms, active_processes'[t] # NoPid, active_processes'[t] # par
               PROVE  Frame(regs', active_processes'[t], "switch")
    OBVIOUS
  <2>1. t # terminal_active /\ active_processes'[t] = active_processes[t]
    BY <1>1 DEF IInv, TInv, TypeOK
  <2>2. active_processes[t] # curr_pid /\ active_processes[t] \in Pids
    BY <1>5, <2>1 DEF IInv, TInv, TypeOK
  <2>3. Frame(regs, active_processes[t], "switch")
    BY <2>1, <2>2 DEF RunInv, ContextInv
  <2>4. QED
    BY <1>1, <1>3, <2>1, <2>2, <2>3 DEF Frame
<1>7. \A p \in Pids : Suspended(p)' => p # curr_pid /\ Suspended(p)
  BY <1>1, <1>2 DEF Suspended, Live, IsActive, IInv, TInv, TypeOK
<1>8. \A p \in Pids : Suspended(p)' \/ p = par => Frame(regs', p, "execute")
  BY <1>1, <1>2, <1>3, <1>b, <1>7 DEF RunInv, ContextInv, Frame
<1>9. RunningIsForeground'
  BY <1>1 DEF RunningIsForeground, IInv, TInv, TypeOK
<1>10. ContextInv'
  BY <1>1, <1>4, <1>6, <1>8, <1>9 DEF ContextInv
<1>11. Booted'
  BY <1>1 DEF Booted
<1>12. QED
  BY <1>1, <1>4, <1>10, <1>11, StaysBooted DEF RunInv

LEMMA HaltReturnRuns ==
    ASSUME IInv, RunInv, HaltReturn
    PROVE  RunInv'
<1>1. /\ cpu.at = "window"
      /\ UNCHANGED <<terminal_active, base_processes, active_processes, curr_pid, in_use,
                     regs, fda, usr_page, esp0>>
  BY DEF HaltReturn, schedVars, pcbVars, pageVars
<1>2. Frame(regs, curr_pid, "execute")
  BY <1>1 DEF RunInv, ContextInv, IInv, TInv, TypeOK
<1>3. cpu' = [at |-> "user", stack |-> curr_pid]
  BY <1>2 DEF HaltReturn, Frame
<1>4. ContextInv'
  BY <1>1, <1>3 DEF RunInv, ContextInv, RunningIsForeground, Suspended, Live, IsActive, Frame
<1>5. Booted /\ Booted'
  BY <1>1 DEF RunInv, BootInv, Booted
<1>6. QED
  BY <1>3, <1>4, <1>5, StaysBooted DEF RunInv

\* The calls that leave the process where it is.
LEMMA StaysRunning ==
    ASSUME RunInv, ProgramRuns, Edges = {},
           UNCHANGED <<terminal_active, base_processes, active_processes, curr_pid, in_use,
                       regs, esp0, cpu>>,
           usr_page' \in {usr_page, curr_pid}
    PROVE  RunInv'
<1>1. Booted /\ Booted'
  BY DEF ProgramRuns, Started, Booted
<1>2. ContextInv'
  BY DEF ProgramRuns, RunInv, ContextInv, RunningIsForeground, Suspended, Live, IsActive, Frame
<1>3. cpu'.at # "idle"
  BY DEF ProgramRuns
<1>4. QED
  BY <1>1, <1>2, <1>3, StaysBooted DEF RunInv

LEMMA EndRuns ==
    ASSUME IInv, ShellInv, RunInv, Edges = {}, NEW status, NEW flags, NEW back,
           cpu.at = "user", Attributed, Booted, syscall_halt(status, flags, back)
    PROVE  RunInv'
<1>1. ~HaltBaseFails(flags, back) /\ ~HaltOrphan(flags)
  BY NoBaseFails, NoOrphan DEF IInv, TInv
<1>2. QED
  BY <1>1, HaltBaseRuns, HaltToParentRuns DEF syscall_halt

LEMMA RunStep ==
    ASSUME Edges = {}, TERMINAL_COUNT <= PID_NUM
    PROVE  IInv /\ ShellInv /\ RunInv /\ [Next]_vars => RunInv'
<1> SUFFICES ASSUME IInv, ShellInv, RunInv, [Next]_vars PROVE RunInv'
  OBVIOUS
<1>0. "boot" \notin Edges
  OBVIOUS
<1>1. CASE TickStart
  BY <1>1, TickStartRuns
<1>2. CASE TickStartFails
  BY <1>2, BootNoFail DEF TickStartFails
<1>3. CASE TickSwitch
  BY <1>3, TickSwitchRuns
<1>4. CASE SysExecute
  BY <1>4, ExecuteRuns
<1>5. CASE SysExecuteFails
  BY <1>5, StaysRunning DEF SysExecuteFails, schedVars, pcbVars
<1>6. CASE Halt
  <2>1. Booted /\ Attributed
    BY <1>0, <1>6, CallerAttributed
  <2>2. QED
    BY <1>6, <2>1, EndRuns DEF Halt, SysHalt, ProgramRuns
<1>7. CASE Exception
  <2>1. Booted /\ Attributed
    BY <1>0, <1>7, CallerAttributed
  <2>2. cpu.at = "user"
    BY <1>7 DEF Exception, RunInv, ContextInv
  <2>3. QED
    BY <1>7, <2>1, <2>2, EndRuns DEF Exception
<1>8. CASE HaltReturn
  BY <1>8, HaltReturnRuns
<1>9. CASE SysOpen
  BY <1>9, StaysRunning DEF SysOpen, OtherProgram, schedVars, pcbVars, pageVars
<1>10. CASE Close
  BY <1>10, StaysRunning DEF Close, SysClose, OtherProgram, schedVars, pcbVars, pageVars
<1>11. CASE SysVidmap
  BY <1>11, StaysRunning DEF SysVidmap, OtherProgram, schedVars, pcbVars, pageVars
<1>12. CASE UNCHANGED vars
  BY <1>12 DEF vars, schedVars, pcbVars, pageVars, RunInv, ContextInv, BootInv, Booted,
               RunningIsForeground, Suspended, Live, IsActive, Frame, OpenFails, FreeSlots
<1>13. CASE SysExecuteBase
  BY <1>0, <1>13, CallerAttributed, NoExecuteBase DEF IInv, TInv
<1>14. QED
  BY <1>1, <1>2, <1>3, <1>4, <1>5, <1>6, <1>7, <1>8, <1>9, <1>10, <1>11, <1>12, <1>13
     DEF Next, Tick

LEMMA RunInvariant ==
    ASSUME Edges = {}, TERMINAL_COUNT <= PID_NUM
    PROVE  Spec => [](IInv /\ ShellInv /\ RunInv)
<1>0. "boot" \notin Edges
  OBVIOUS
<1>1. Init => RunInv
  <2> SUFFICES ASSUME Init PROVE RunInv
    OBVIOUS
  <2>1. ContextInv
    BY DEF Init, ContextInv, RunningIsForeground, Suspended, Live
  <2>2. fda[curr_pid] = EmptyTable
    BY DEF Init, Pids
  <2>3. BootInv
    BY <2>2, FreshTableOpens DEF Init, BootInv
  <2>4. QED
    BY <2>1, <2>3 DEF RunInv
<1>2. Spec => [](IInv /\ ShellInv)
  BY <1>0, ShellsInvariant
<1>3. QED
  BY <1>1, <1>2, RunStep, PTL DEF Spec

(***************************************************************************)
(* With a pid for every terminal and no edge case: whatever is executed,   *)
(* halted and preempted, the CPU runs the foreground process of the        *)
(* terminal being scheduled, in its own page and kernel stack              *)
(* (scheduler.c:26-60, syscall.c:20-72, switch.S).                         *)
(***************************************************************************)
THEOREM ForegroundRuns ==
    ASSUME Edges = {}, TERMINAL_COUNT <= PID_NUM
    PROVE  Spec => []RunningIsForeground
<1>1. RunInv => RunningIsForeground
  BY DEF RunInv, ContextInv
<1>2. QED
  BY <1>1, RunInvariant, PTL

\* ... and every process that does not run can be continued, the preempted ones and the
\* ones that wait in execute, each on its own kernel stack (switch.S:116, 165-170).
THEOREM AllResumable ==
    ASSUME Edges = {}, TERMINAL_COUNT <= PID_NUM
    PROVE  Spec => []Resumable
<1>1. RunInv => Resumable
  BY DEF RunInv, ContextInv, Resumable, OwnFrame, Frame
<1>2. QED
  BY <1>1, RunInvariant, PTL

-----------------------------------------------------------------------------
(***************************************************************************)
(* The page of video memory.  Every argument but the one vidmap's bound    *)
(* lets through is admitted.  Base shells never ask for the page, so it    *)
(* does not go with them.                                                  *)
(***************************************************************************)
VidmapInv == /\ VidmapOwned
             /\ \A p \in Pids : in_use[p] /\ parent_pid[p] = NoPid => ~vidmap[p]

LEMMA SameVidmap ==
    ASSUME VidmapInv, UNCHANGED <<in_use, parent_pid, vidmap, vid_present>>
    PROVE  VidmapInv'
BY DEF VidmapInv, VidmapOwned

\* A new process has not asked; who has is in use and not the base shell that ended.
LEMMA NewcomerVidmap ==
    ASSUME IInv, VidmapInv, NEW used \in [Pids -> BOOLEAN], NEW c \in Pids, NEW parent,
           ~used[c],
           \/ used = in_use
           \/ used = [in_use EXCEPT ![curr_pid] = FALSE] /\ parent_pid[curr_pid] = NoPid,
           in_use' = [used EXCEPT ![c] = TRUE],
           parent_pid' = [parent_pid EXCEPT ![c] = parent],
           vidmap' = [vidmap EXCEPT ![c] = FALSE],
           vid_present' = vid_present
    PROVE  VidmapInv'
<1>1. \A p \in Pids : in_use[p] /\ vidmap[p] => used[p]
  BY DEF IInv, TInv, TypeOK, VidmapInv
<1>2. \A p \in Pids : used[p] => in_use[p] /\ p # c
  BY DEF IInv, TInv, TypeOK
<1>3. VidmapOwned'
  BY <1>1, <1>2 DEF IInv, TInv, TypeOK, VidmapInv, VidmapOwned
<1>4. \A p \in Pids : in_use'[p] /\ parent_pid'[p] = NoPid => ~vidmap'[p]
  BY <1>2 DEF IInv, TInv, TypeOK, VidmapInv
<1>5. QED
  BY <1>3, <1>4 DEF VidmapInv

LEMMA LaunchVidmap ==
    ASSUME IInv, VidmapInv, NEW used \in [Pids -> BOOLEAN], NEW flags, NEW saved,
           \/ used = in_use
           \/ used = [in_use EXCEPT ![curr_pid] = FALSE] /\ parent_pid[curr_pid] = NoPid,
           LaunchBase(used, flags, saved)
    PROVE  VidmapInv'
<1>1. PICK c \in Pids :
         /\ AvailPid(c, used)
         /\ InitPcb(c, NoPid, used, flags, [curr_executable_fd EXCEPT ![c] = NoPid],
                    [saved EXCEPT ![c] = ClearedRegs(c)])
  BY DEF LaunchBase
<1>2. vid_present' = vid_present
  BY DEF LaunchBase
<1>3. QED
  BY <1>1, <1>2, NewcomerVidmap DEF AvailPid, InitPcb

LEMMA HaltBaseVidmap ==
    ASSUME IInv, VidmapInv, NEW flags, HaltBase(flags)
    PROVE  VidmapInv'
<1> DEFINE used == [in_use EXCEPT ![curr_pid] = FALSE]
<1>1. used \in [Pids -> BOOLEAN]
  BY DEF IInv, TInv, TypeOK
<1>2. parent_pid[curr_pid] = NoPid
  <2>1. base_processes[terminal_active] # NoPid /\ terminal_active \in Terms
    BY DEF HaltBase, IsBase, IInv, TInv, TypeOK, NoPid, Pids
  <2>2. QED
    BY <2>1 DEF HaltBase, IsBase, IInv, SessionTree, TerminalEnds
<1>3. LaunchBase(used, flags, regs)
  BY DEF HaltBase, Freed
<1> HIDE DEF used
<1>4. used = [in_use EXCEPT ![curr_pid] = FALSE]
  BY DEF used
<1>5. QED
  BY <1>1, <1>2, <1>3, <1>4, LaunchVidmap

\* halt takes the page away, or a foreground process that has it is still there.
LEMMA HaltToParentVidmap ==
    ASSUME IInv, IInv', VidmapInv, NEW status, NEW flags, NEW back,
           HaltToParent(status, flags, back)
    PROVE  VidmapInv'
<1>1. /\ in_use' = [in_use EXCEPT ![curr_pid] = FALSE]
      /\ vid_present' = VidmapAfterHalt(curr_pid)
      /\ UNCHANGED <<parent_pid, vidmap>>
  BY DEF HaltToParent, Freed
<1>2. \A t \in Terms : active_processes'[t] # NoPid =>
         active_processes'[t] \in Pids /\ in_use'[active_processes'[t]]
  BY DEF IInv, SessionTree, TerminalEnds, Live
<1>3. \A p \in Pids : in_use'[p] <=> in_use[p] /\ p # curr_pid
  BY <1>1 DEF IInv, TInv, TypeOK
<1>4. VidmapOwned'
  <2> SUFFICES ASSUME vid_present' PROVE \E p \in Pids : in_use'[p] /\ vidmap[p]
    BY <1>1 DEF VidmapOwned
  <2>1. CASE vidmap[curr_pid]
    BY <1>1, <1>2, <2>1 DEF VidmapAfterHalt
  <2>2. CASE ~vidmap[curr_pid]
    BY <1>1, <1>3, <2>2 DEF VidmapAfterHalt, VidmapInv, VidmapOwned
  <2>3. QED
    BY <2>1, <2>2
<1>5. QED
  BY <1>1, <1>3, <1>4 DEF VidmapInv

LEMMA EndVidmap ==
    ASSUME IInv, IInv', ShellInv, Attributed, VidmapInv, NEW status, NEW flags, NEW back,
           syscall_halt(status, flags, back)
    PROVE  VidmapInv'
<1>1. ~HaltBaseFails(flags, back) /\ ~HaltOrphan(flags)
  BY NoBaseFails, NoOrphan DEF IInv, TInv
<1>2. QED
  BY <1>1, HaltBaseVidmap, HaltToParentVidmap DEF syscall_halt

LEMMA VidmapStepOwned ==
    ASSUME "boot" \notin Edges, "vidmap" \notin Edges
    PROVE  IInv /\ ShellInv /\ VidmapInv /\ [Next]_vars => VidmapInv'
<1> SUFFICES ASSUME IInv, ShellInv, VidmapInv, [Next]_vars PROVE VidmapInv'
  OBVIOUS
<1>0. IInv'
  BY TreeStep
<1>1. CASE TickStart
  <2>1. in_use \in [Pids -> BOOLEAN]
    BY DEF IInv, TInv, TypeOK
  <2>2. QED
    BY <1>1, <2>1, LaunchVidmap DEF TickStart
<1>2. CASE TickStartFails \/ TickSwitch
  BY <1>2, SameVidmap DEF TickStartFails, TickSwitch, pcbVars
<1>3. CASE SysExecute
  <2>1. in_use \in [Pids -> BOOLEAN]
    BY DEF IInv, TInv, TypeOK
  <2>2. PICK c \in Pids, fd \in Fds :
           /\ AvailPid(c, in_use)
           /\ InitPcb(c, curr_pid, in_use, exception,
                      [curr_executable_fd EXCEPT ![c] = 0, ![curr_pid] = fd],
                      [regs EXCEPT ![c] = ClearedRegs(c), ![curr_pid] = ExecuteFrame])
    BY <1>3 DEF SysExecute
  <2>3. vid_present' = vid_present
    BY <1>3 DEF SysExecute
  <2>4. QED
    BY <2>1, <2>2, <2>3, NewcomerVidmap DEF AvailPid, InitPcb
<1>4. CASE SysExecuteFails
  BY <1>4, SameVidmap DEF SysExecuteFails, schedVars, pcbVars
<1>5. CASE Halt
  <2>1. Attributed
    BY <1>5, CallerAttributed
  <2>2. QED
    BY <1>0, <1>5, <2>1, EndVidmap DEF Halt, SysHalt
<1>6. CASE Exception
  <2>1. Attributed
    BY <1>6, CallerAttributed
  <2>2. QED
    BY <1>0, <1>6, <2>1, EndVidmap DEF Exception
<1>7. CASE HaltReturn \/ SysOpen \/ Close
  BY <1>7, SameVidmap DEF HaltReturn, SysOpen, Close, SysClose, schedVars, pcbVars, pageVars
<1>8. CASE SysVidmap
  <2>1. in_use[curr_pid] /\ parent_pid[curr_pid] # NoPid
    BY <1>8, CallerAttributed, Running DEF SysVidmap, OtherProgram, IInv, TInv
  <2>2. UNCHANGED <<in_use, parent_pid>>
    BY <1>8 DEF SysVidmap, pcbVars
  <2>3. CASE vidmap' = [vidmap EXCEPT ![curr_pid] = TRUE] /\ vid_present' = TRUE
    BY <2>1, <2>2, <2>3 DEF VidmapInv, VidmapOwned, IInv, TInv, TypeOK
  <2>4. CASE UNCHANGED <<vidmap, vid_present>>
    BY <2>2, <2>4, SameVidmap
  <2>5. QED
    BY <1>8, <2>3, <2>4 DEF SysVidmap
<1>9. CASE UNCHANGED vars
  BY <1>9, SameVidmap DEF vars, schedVars, pcbVars
<1>10. CASE SysExecuteBase
  BY <1>10, CallerAttributed, NoExecuteBase DEF IInv, TInv
<1>11. QED
  BY <1>1, <1>2, <1>3, <1>4, <1>5, <1>6, <1>7, <1>8, <1>9, <1>10 DEF Next, Tick

(***************************************************************************)
(* The video page is never left to programs that did not ask for it, also  *)
(* with ticks in the window (syscall.c:47-59, 422-426).                    *)
(***************************************************************************)
THEOREM VidmapAlwaysOwned ==
    ASSUME "boot" \notin Edges, "vidmap" \notin Edges
    PROVE  Spec => []VidmapOwned
<1>1. Init => VidmapInv
  BY DEF Init, VidmapInv, VidmapOwned
<1>2. VidmapInv => VidmapOwned
  BY DEF VidmapInv
<1>3. QED
  BY <1>1, <1>2, ShellsInvariant, VidmapStepOwned, PTL DEF Spec

-----------------------------------------------------------------------------
(***************************************************************************)
(* What one step may do, whatever the edge cases.                          *)
(***************************************************************************)
LEMMA LaunchKeeps ==
    ASSUME TypeOK, NEW used \in [Pids -> BOOLEAN], NEW flags, NEW saved \in [Pids -> Ctx],
           LaunchBase(used, flags, saved),
           NEW p \in Pids, used[p]
    PROVE  /\ in_use'[p]
           /\ p # curr_pid'
           /\ parent_pid'[p] = parent_pid[p]
           /\ terminal'[p] = terminal[p]
           /\ vidmap'[p] = vidmap[p]
           /\ curr_executable_fd'[p] = curr_executable_fd[p]
           /\ p # curr_pid => fda'[p] = fda[p]
           /\ regs'[p] = saved[p]
<1>1. PICK c \in Pids, fd \in Fds :
         /\ AvailPid(c, used)
         /\ InitPcb(c, NoPid, used, flags, [curr_executable_fd EXCEPT ![c] = NoPid],
                    [saved EXCEPT ![c] = ClearedRegs(c)])
         /\ fda' = [fda EXCEPT ![curr_pid] = CloseImage(AfterOpen(@, fd), fd), ![c] = FreshTable]
  BY DEF LaunchBase
<1>2. p # c
  BY <1>1 DEF AvailPid
<1>3. p # curr_pid => fda'[p] = fda[p]
  BY <1>1, <1>2 DEF TypeOK
<1>4. QED
  BY <1>1, <1>2, <1>3 DEF InitPcb, TypeOK

\* The slot that a launch borrows from the running process is back as it was.
LEMMA LaunchKeepsTable ==
    ASSUME TypeOK, NEW used \in [Pids -> BOOLEAN], NEW flags, NEW saved,
           LaunchBase(used, flags, saved), used[curr_pid]
    PROVE  fda'[curr_pid] = fda[curr_pid]
<1>1. PICK c \in Pids, fd \in Fds :
         /\ FirstFree(fda[curr_pid], fd)
         /\ ~used[c]
         /\ fda' = [fda EXCEPT ![curr_pid] = CloseImage(AfterOpen(@, fd), fd),
                               ![c] = FreshTable]
  BY DEF LaunchBase, AvailPid
<1>2. fda[curr_pid] \in FdTables /\ ~OpenFails(fda[curr_pid])
  BY DEF TypeOK, LaunchBase
<1>3. CloseImage(AfterOpen(fda[curr_pid], fd), fd) = [spaces |-> fda[curr_pid].spaces, full |-> FALSE]
  BY <1>1, <1>2, OpenKeepsTable
<1>4. fda'[curr_pid] = [spaces |-> fda[curr_pid].spaces, full |-> FALSE]
  BY <1>1, <1>3 DEF TypeOK
<1>5. fda[curr_pid].full = FALSE
  BY <1>2 DEF OpenFails, FdTables
<1>6. QED
  BY <1>2, <1>4, <1>5 DEF FdTables

LEMMA HaltBaseKeeps ==
    ASSUME TypeOK, NEW flags, HaltBase(flags), NEW p \in Pids, in_use[p], p # curr_pid
    PROVE  Kept(p) /\ regs'[p] = regs[p]
<1> DEFINE used == [in_use EXCEPT ![curr_pid] = FALSE]
<1>1. used \in [Pids -> BOOLEAN] /\ used[p] /\ regs \in [Pids -> Ctx]
  BY DEF TypeOK
<1>2. LaunchBase(used, flags, regs)
  BY DEF HaltBase, Freed
<1> HIDE DEF used
<1>3. QED
  BY <1>1, <1>2, LaunchKeeps DEF Kept

LEMMA EndKeeps ==
    ASSUME TypeOK, NEW status, NEW flags, NEW back, syscall_halt(status, flags, back),
           NEW p \in Pids, in_use[p], p # curr_pid, p # curr_pid'
    PROVE  Kept(p) /\ regs'[p] = regs[p]
<1>1. CASE HaltBase(flags)
  BY <1>1, HaltBaseKeeps
<1>2. CASE HaltToParent(status, flags, back)
  <2>1. PICK par, fd, told, frame :
          /\ curr_pid' = par
          /\ in_use' = [in_use EXCEPT ![curr_pid] = FALSE]
          /\ fda' = IF CloseFails(fda[par], fd) THEN fda
                    ELSE [fda EXCEPT ![par] = AfterClose(@, fd)]
          /\ regs' = [regs EXCEPT ![par].ebx = told, ![curr_pid] = frame]
          /\ UNCHANGED <<parent_pid, terminal, vidmap, curr_executable_fd>>
    BY <1>2 DEF HaltToParent, Freed
  <2>2. QED
    BY <2>1 DEF Kept, TypeOK
<1>3. CASE HaltBaseFails(flags, back) \/ HaltOrphan(flags)
  BY <1>3 DEF HaltBaseFails, HaltOrphan, Freed, Kept, TypeOK
<1>4. QED
  BY <1>1, <1>2, <1>3 DEF syscall_halt

LEMMA ExecuteBaseKeeps ==
    ASSUME TypeOK, SysExecuteBase, NEW p \in Pids, in_use[p], p # curr_pid
    PROVE  Kept(p) /\ regs'[p] = regs[p]
<1>1. PICK saved : saved = [regs EXCEPT ![curr_pid].at = "lost"]
  OBVIOUS
<1>2. saved \in [Pids -> Ctx] /\ saved[p] = regs[p] /\ in_use \in [Pids -> BOOLEAN]
  <2>1. PICK ctx : ctx = [regs[curr_pid] EXCEPT !.at = "lost"]
    OBVIOUS
  <2>2. \A r \in Ctx : [r EXCEPT !.at = "lost"] \in Ctx
    BY DEF Ctx, Places
  <2>3. ctx \in Ctx /\ saved = [regs EXCEPT ![curr_pid] = ctx]
    BY <1>1, <2>1, <2>2 DEF TypeOK
  <2>4. QED
    BY <2>3 DEF TypeOK
<1>3. LaunchBase(in_use, exception, saved)
  BY <1>1 DEF SysExecuteBase
<1>4. QED
  BY <1>2, <1>3, LaunchKeeps DEF Kept

LEMMA TickStartKeeps ==
    ASSUME TypeOK, TickStart, NEW p \in Pids, in_use[p]
    PROVE  Kept(p) /\ (p # curr_pid => regs'[p] = regs[p])
<1> DEFINE saved == [regs EXCEPT ![curr_pid] = SwitchFrame]
<1>1. saved \in [Pids -> Ctx] /\ in_use \in [Pids -> BOOLEAN]
  BY CtxTypes DEF TypeOK
<1>2. p # curr_pid => saved[p] = regs[p]
  BY DEF TypeOK
<1>3. LaunchBase(in_use, exception, saved)
  BY DEF TickStart
<1> HIDE DEF saved
<1>4. fda'[p] = fda[p]
  BY <1>1, <1>3, LaunchKeeps, LaunchKeepsTable
<1>5. QED
  BY <1>1, <1>2, <1>3, <1>4, LaunchKeeps DEF Kept

LEMMA StepKeeps ==
    ASSUME TypeOK, Next, NEW p \in Pids, in_use[p]
    PROVE  /\ p # curr_pid /\ p # curr_pid' => Kept(p) /\ regs'[p] = regs[p]
           /\ Tick => Kept(p)
<1>1. ASSUME Tick PROVE Kept(p) /\ (p # curr_pid => regs'[p] = regs[p])
  <2>1. CASE TickStart
    BY <2>1, TickStartKeeps
  <2>2. CASE TickStartFails \/ TickSwitch
    BY <2>2 DEF TickStartFails, TickSwitch, pcbVars, Kept, TypeOK
  <2>3. QED
    BY <1>1, <2>1, <2>2 DEF Tick
<1>2. ASSUME SysExecute, p # curr_pid, p # curr_pid'
      PROVE  Kept(p) /\ regs'[p] = regs[p]
  BY <1>2 DEF SysExecute, AvailPid, InitPcb, Kept, TypeOK
<1>3. ASSUME Halt, p # curr_pid, p # curr_pid'
      PROVE  Kept(p) /\ regs'[p] = regs[p]
  BY <1>3, EndKeeps DEF Halt, SysHalt
<1>4. ASSUME Exception, p # curr_pid, p # curr_pid'
      PROVE  Kept(p) /\ regs'[p] = regs[p]
  BY <1>4, EndKeeps DEF Exception
<1>5. ASSUME SysExecuteFails \/ HaltReturn PROVE Kept(p) /\ regs'[p] = regs[p]
  BY <1>5 DEF SysExecuteFails, HaltReturn, schedVars, pcbVars, pageVars, Kept
<1>6. ASSUME SysOpen \/ Close \/ SysVidmap, p # curr_pid
      PROVE  Kept(p) /\ regs'[p] = regs[p]
  BY <1>6 DEF SysOpen, Close, SysClose, SysVidmap, schedVars, pcbVars, pageVars, Kept,
              TypeOK
<1>7. ASSUME SysExecuteBase, p # curr_pid PROVE Kept(p) /\ regs'[p] = regs[p]
  BY <1>7, ExecuteBaseKeeps
<1>8. QED
  BY <1>1, <1>2, <1>3, <1>4, <1>5, <1>6, <1>7 DEF Next

(***************************************************************************)
(* Whatever one step does, every other process keeps its PCB, its context  *)
(* and its open files, and a tick leaves even the interrupted process's    *)
(* table as it was (scheduler.c, pid.c, syscall.c).                        *)
(***************************************************************************)
THEOREM OthersKept == Spec => OthersUntouched
<1>1. TInv /\ [Next]_vars => [ \A p \in Pids : in_use[p] =>
          /\ p # curr_pid /\ p # curr_pid' => Kept(p) /\ regs'[p] = regs[p]
          /\ Tick => Kept(p) ]_vars
  BY StepKeeps DEF TInv
<1>2. QED
  BY <1>1, TypesInvariant, PTL DEF Spec, OthersUntouched

-----------------------------------------------------------------------------
(***************************************************************************)
(* The status of a child.  A flag that is set belongs to a pid that is not *)
(* in use, until init_pcb clears it.                                       *)
(***************************************************************************)
FlagsClear == \A p \in Pids : in_use[p] => ~exception[p]

LEMMA NewcomerFlags ==
    ASSUME IInv, NEW flags \in [Pids -> BOOLEAN], NEW used \in [Pids -> BOOLEAN],
           NEW c \in Pids, \A p \in Pids : used[p] => ~flags[p],
           in_use' = [used EXCEPT ![c] = TRUE],
           exception' = [flags EXCEPT ![c] = FALSE]
    PROVE  FlagsClear'
BY DEF FlagsClear

LEMMA LaunchFlags ==
    ASSUME IInv, NEW flags \in [Pids -> BOOLEAN], NEW used \in [Pids -> BOOLEAN], NEW saved,
           \A p \in Pids : used[p] => ~flags[p],
           LaunchBase(used, flags, saved)
    PROVE  FlagsClear'
BY NewcomerFlags DEF LaunchBase, InitPcb, ExceptionAfterInit

\* halt, for flags that differ from the PCBs' at most in the process that ends.
LEMMA HaltFlags ==
    ASSUME IInv, NEW status, NEW flags \in [Pids -> BOOLEAN], NEW back,
           \A p \in Pids : in_use[p] /\ p # curr_pid => ~flags[p],
           syscall_halt(status, flags, back)
    PROVE  FlagsClear'
<1> DEFINE used == [in_use EXCEPT ![curr_pid] = FALSE]
<1>1. used \in [Pids -> BOOLEAN] /\ \A p \in Pids : used[p] => ~flags[p]
  BY DEF IInv, TInv, TypeOK
<1>2. CASE HaltBase(flags)
  <2>1. LaunchBase(used, flags, regs)
    BY <1>2 DEF HaltBase, Freed
  <2> HIDE DEF used
  <2>2. QED
    BY <1>1, <2>1, LaunchFlags
<1>3. CASE HaltToParent(status, flags, back) \/ HaltBaseFails(flags, back) \/ HaltOrphan(flags)
  <2>1. in_use' = used /\ exception' = flags
    BY <1>3 DEF HaltToParent, HaltBaseFails, HaltOrphan, Freed
  <2>2. QED
    BY <1>1, <2>1 DEF FlagsClear
<1>4. QED
  BY <1>2, <1>3 DEF syscall_halt

LEMMA FlagsStep == IInv /\ FlagsClear /\ [Next]_vars => FlagsClear'
<1> SUFFICES ASSUME IInv, FlagsClear, [Next]_vars PROVE FlagsClear'
  OBVIOUS
<1>1. /\ exception \in [Pids -> BOOLEAN] /\ in_use \in [Pids -> BOOLEAN]
      /\ \A p \in Pids : in_use[p] => ~exception[p]
  BY DEF IInv, TInv, TypeOK, FlagsClear
<1>2. CASE TickStart \/ SysExecuteBase
  BY <1>1, <1>2, LaunchFlags DEF TickStart, SysExecuteBase
<1>3. CASE SysExecute
  BY <1>1, <1>3, NewcomerFlags DEF SysExecute, InitPcb, ExceptionAfterInit
<1>4. CASE Halt
  BY <1>1, <1>4, HaltFlags DEF Halt, SysHalt
<1>5. CASE Exception
  <2> DEFINE flags == [exception EXCEPT ![curr_pid] = TRUE]
  <2>1. /\ flags \in [Pids -> BOOLEAN]
        /\ \A p \in Pids : in_use[p] /\ p # curr_pid => ~flags[p]
        /\ syscall_halt(0, flags, "dead")
    BY <1>1, <1>5 DEF Exception
  <2> HIDE DEF flags
  <2>2. QED
    BY <2>1, HaltFlags
<1>6. CASE UNCHANGED <<in_use, exception>>
  BY <1>6 DEF FlagsClear
<1>7. QED
  BY <1>2, <1>3, <1>4, <1>5, <1>6
     DEF Next, Tick, TickStartFails, TickSwitch, SysExecuteFails, HaltReturn, SysOpen, Close,
         SysClose, SysVidmap, vars, schedVars, pcbVars, pageVars

\* The context that a halt leaves its parent.
LEMMA HaltTells ==
    ASSUME IInv, Attributed, NEW status, NEW flags, NEW back,
           HaltToParent(status, flags, back)
    PROVE  regs'[curr_pid'].ebx = IF flags[curr_pid] THEN FaultStatus ELSE status
<1>1. PICK par : par = parent_pid[curr_pid]
  OBVIOUS
<1>2. PICK told : told = IF flags[curr_pid] THEN FaultStatus ELSE status
  OBVIOUS
<1>3. PICK frame : frame = FrameAt(back)
  OBVIOUS
<1>4. curr_pid' = par /\ regs' = [regs EXCEPT ![par].ebx = told, ![curr_pid] = frame]
  BY <1>1, <1>2, <1>3 DEF HaltToParent, HaltTarget
<1>5. par \in Pids /\ par # curr_pid
  BY <1>1, ParentOfRunning DEF HaltToParent, IInv, TInv
<1>6. QED
  BY <1>2, <1>4, <1>5 DEF IInv, TInv, TypeOK, Ctx

LEMMA HaltStatus ==
    ASSUME "boot" \notin Edges, IInv, ShellInv, FlagsClear, Halt
    PROVE  regs'[curr_pid'].ebx # FaultStatus
<1>0. Attributed
  BY CallerAttributed
<1>1. PICK status \in Statuses : HaltBase(exception) \/ HaltToParent(status, exception, "user")
  BY <1>0, NoBaseFails, NoOrphan DEF Halt, SysHalt, syscall_halt, IInv, TInv
<1>2. CASE HaltBase(exception)
  <2>1. PICK c \in Pids : curr_pid' = c /\ regs' = [regs EXCEPT ![c] = ClearedRegs(c)]
    BY <1>2 DEF HaltBase, LaunchBase, InitPcb
  <2>2. QED
    BY <2>1 DEF IInv, TInv, TypeOK, ClearedRegs, FaultStatus
<1>3. CASE HaltToParent(status, exception, "user")
  <2>1. ~exception[curr_pid]
    BY <1>0, Running DEF FlagsClear, IInv, TInv
  <2>2. regs'[curr_pid'].ebx = status
    BY <1>0, <1>3, <2>1, HaltTells
  <2>3. QED
    BY <2>2 DEF FaultStatus
<1>4. QED
  BY <1>1, <1>2, <1>3

LEMMA FaultedStatus ==
    ASSUME "boot" \notin Edges, IInv, Exception, ~IsBase
    PROVE  regs'[curr_pid'].ebx = FaultStatus
<1>0. Attributed
  BY CallerAttributed
<1>1. PICK flags : flags = [exception EXCEPT ![curr_pid] = TRUE]
  OBVIOUS
<1>2. flags[curr_pid] = TRUE
  BY <1>1 DEF IInv, TInv, TypeOK
<1>3. HaltToParent(0, flags, "dead")
  BY <1>0, <1>1, NoOrphan DEF Exception, syscall_halt, HaltBase, HaltBaseFails, IInv, TInv
<1>4. QED
  BY <1>0, <1>2, <1>3, HaltTells

(***************************************************************************)
(* A parent is told 256 exactly when its child faulted, however pids are   *)
(* used again (syscall.c:64-66, idt.c:80, pid.c:142).                      *)
(***************************************************************************)
THEOREM FaultsReported ==
    ASSUME "boot" \notin Edges
    PROVE  Spec => FaultReported
<1>1. Init => FlagsClear
  BY DEF Init, FlagsClear
<1>2. IInv /\ ShellInv /\ FlagsClear /\ [Next]_vars =>
        [ /\ Halt => regs'[curr_pid'].ebx # FaultStatus
          /\ Exception /\ ~IsBase => regs'[curr_pid'].ebx = FaultStatus ]_vars
  BY HaltStatus, FaultedStatus
<1>3. QED
  BY <1>1, <1>2, ShellsInvariant, FlagsStep, PTL DEF Spec, FaultReported

-----------------------------------------------------------------------------
(***************************************************************************)
(* The stacks of Sessions.  That every terminal has a sequence of live     *)
(* processes in which each is the parent of the next is kept by every      *)
(* step, and there is only one such sequence: the one that is read off     *)
(* the parent pointers.                                                    *)
(***************************************************************************)
\* A set of numbers up to n that has 0, and with each the next, has all of them.
LEMMA UpTo ==
    ASSUME NEW n \in Nat, NEW T, 0 \in T, \A k \in 0 .. n - 1 : k \in T => k + 1 \in T
    PROVE  \A k \in 0 .. n : k \in T
<1> DEFINE U == {k \in 0 .. n : k \notin T}
           R == OpToRel(<, Nat)
<1>1. SUFFICES ASSUME U # {} PROVE FALSE
  OBVIOUS
<1>2. U \in SUBSET Nat
  OBVIOUS
<1>3. IsWellFoundedOn(R, Nat) /\ \A x \in Nat, y \in Nat : <<y, x>> \in R <=> y < x
  BY NatLessThanWellFounded DEF OpToRel
<1> HIDE DEF U, R
<1>4. PICK k \in U : \A m \in U : ~ (<<m, k>> \in R)
  BY <1>1, <1>2, <1>3, WFMin
<1>5. \A m \in U : ~ (m < k)
  BY <1>2, <1>3, <1>4
<1>6. k \in 0 .. n /\ k # 0 /\ k - 1 \in 0 .. n - 1 /\ k - 1 \notin U /\ k \notin T
  BY <1>5 DEF U
<1>7. (k - 1) + 1 \in T
  BY <1>6 DEF U
<1>8. QED
  BY <1>6, <1>7

\* The stack of a terminal.
IsLineage(s, t) ==
    /\ s \in Seq(Pids)
    /\ s = <<>> <=> active_processes[t] = NoPid
    /\ s # <<>> => s[Len(s)] = active_processes[t] /\ parent_pid[s[1]] = NoPid
    /\ \A i \in 1 .. Len(s) - 1 : parent_pid[s[i + 1]] = s[i]
    /\ \A i \in 1 .. Len(s) : in_use[s[i]] /\ terminal[s[i]] = t
    /\ \A i, j \in 1 .. Len(s) : s[i] = s[j] => i = j

LEMMA LineageShort ==
    ASSUME NEW s \in Seq(Pids), \A i, j \in 1 .. Len(s) : s[i] = s[j] => i = j
    PROVE  Len(s) <= PID_NUM
<1>1. s \in Injection(1 .. Len(s), Pids)
  BY DEF Injection, IsInjective
<1>2. IsFiniteSet(Pids) /\ Cardinality(Pids) = PID_NUM
  BY FS_Interval DEF Pids
<1>3. Cardinality(1 .. Len(s)) <= Cardinality(Pids)
  BY <1>1, <1>2, FS_Injection
<1>4. Cardinality(1 .. Len(s)) = Len(s)
  BY FS_Interval
<1>5. QED
  BY <1>2, <1>3, <1>4

LEMMA LineageIs ==
    ASSUME NEW t, NEW s, IsLineage(s, t)
    PROVE  Lineage(t) = s
<1> DEFINE N == PID_NUM
           Up(f) == [n \in 0 .. N |->
                        IF n = 0 THEN active_processes[t]
                        ELSE IF f[n - 1] = NoPid THEN NoPid ELSE parent_pid[f[n - 1]]]
           up == CHOOSE f : f = Up(f)
           g == [n \in 0 .. N |-> IF n < Len(s) THEN s[Len(s) - n] ELSE NoPid]
           depth == Cardinality({n \in 0 .. N : up[n] # NoPid})
<1>0. /\ s \in Seq(Pids) /\ Len(s) \in Nat /\ Len(s) <= N /\ N \in Nat
      /\ \A i \in 1 .. Len(s) : s[i] \in Pids /\ s[i] # NoPid
  BY LineageShort DEF IsLineage, Pids, NoPid
<1>1. g = Up(g)
  <2>1. ASSUME NEW n \in 0 .. N
        PROVE  g[n] = IF n = 0 THEN active_processes[t]
                      ELSE IF g[n - 1] = NoPid THEN NoPid ELSE parent_pid[g[n - 1]]
    <3>1. CASE n = 0
      BY <1>0, <3>1 DEF IsLineage
    <3>2. CASE n # 0 /\ n < Len(s)
      <4>1. n - 1 \in 0 .. N /\ g[n - 1] = s[Len(s) - n + 1] /\ Len(s) - n \in 1 .. Len(s) - 1
        BY <1>0, <3>2
      <4>2. g[n - 1] # NoPid /\ parent_pid[g[n - 1]] = s[Len(s) - n]
        BY <1>0, <4>1 DEF IsLineage
      <4>3. QED
        BY <3>2, <4>2
    <3>3. CASE n # 0 /\ n = Len(s)
      <4>1. n - 1 \in 0 .. N /\ g[n - 1] = s[1] /\ 1 \in 1 .. Len(s) /\ s # <<>>
        BY <1>0, <3>3
      <4>2. g[n - 1] # NoPid /\ parent_pid[g[n - 1]] = NoPid
        BY <1>0, <4>1 DEF IsLineage
      <4>3. QED
        BY <3>3, <4>2
    <3>4. CASE n # 0 /\ n > Len(s)
      BY <1>0, <3>4
    <3>5. QED
      BY <1>0, <3>1, <3>2, <3>3, <3>4
  <2>2. QED
    BY <2>1
<1>2. up = Up(up)
  <2> HIDE DEF g
  <2>1. \E f : f = Up(f)
    BY <1>1
  <2>2. QED
    BY <2>1
<1>3. \A n \in 0 .. N : up[n] = g[n]
  <2> HIDE DEF up, g
  <2> DEFINE T == {n \in 0 .. N : up[n] = g[n]}
  <2>1. 0 \in T
    BY <1>0, <1>1, <1>2
  <2>2. \A k \in 0 .. N - 1 : k \in T => k + 1 \in T
    <3> SUFFICES ASSUME NEW k \in 0 .. N - 1, up[k] = g[k] PROVE up[k + 1] = g[k + 1]
      BY <1>0
    <3>1. k + 1 \in 0 .. N /\ k + 1 # 0 /\ (k + 1) - 1 = k
      BY <1>0
    <3>2. up[k + 1] = (IF up[k] = NoPid THEN NoPid ELSE parent_pid[up[k]])
      BY <1>2, <3>1
    <3>3. g[k + 1] = (IF g[k] = NoPid THEN NoPid ELSE parent_pid[g[k]])
      BY <1>1, <3>1
    <3>4. QED
      BY <3>2, <3>3
  <2> HIDE DEF T
  <2>3. \A k \in 0 .. N : k \in T
    BY <1>0, <2>1, <2>2, UpTo
  <2>4. QED
    BY <2>3 DEF T
<1>4. depth = Len(s)
  <2> HIDE DEF up
  <2>1. {n \in 0 .. N : up[n] # NoPid} = 0 .. Len(s) - 1
    BY <1>0, <1>3
  <2>2. Len(s) - 1 \in Int /\ 0 \in Int /\ Len(s) = IF 0 > Len(s) - 1 THEN 0 ELSE (Len(s) - 1) - 0 + 1
    BY <1>0
  <2>3. Cardinality(0 .. Len(s) - 1) = Len(s)
    BY <2>2, FS_Interval
  <2>4. QED
    BY <2>1, <2>3
<1>5. Lineage(t) = [i \in 1 .. depth |-> up[depth - i]]
  BY DEF Lineage
<1>6. [i \in 1 .. depth |-> up[depth - i]] = s
  <2> HIDE DEF up, depth
  <2>1. \A i \in 1 .. Len(s) : Len(s) - i \in 0 .. N /\ up[Len(s) - i] = s[i]
    BY <1>0, <1>3
  <2>2. QED
    BY <1>0, <1>4, <2>1
<1>7. QED
  BY <1>5, <1>6

StackNow == [t \in Terms |-> Lineage(t)]
StacksInv == \A t \in Terms : IsLineage(StackNow[t], t)

LEMMA StacksAre ==
    ASSUME NEW st, st = [t \in Terms |-> st[t]], \A t \in Terms : IsLineage(st[t], t)
    PROVE  StackNow = st /\ StacksInv
<1>1. \A t \in Terms : Lineage(t) = st[t]
  BY LineageIs
<1>2. StackNow = st
  BY <1>1 DEF StackNow
<1>3. QED
  BY <1>2 DEF StacksInv

\* What a step makes of the stacks.
LEMMA StacksMove ==
    ASSUME NEW st, st = [t \in Terms |-> st[t]], (\A t \in Terms : IsLineage(st[t], t))'
    PROVE  StackNow' = st /\ StacksInv'
<1>1. (st = [t \in Terms |-> st[t]] /\ (\A t \in Terms : IsLineage(st[t], t))
          => StackNow = st /\ StacksInv)'
  BY StacksAre, PTL
<1>2. QED
  BY <1>1

\* Of terminals that a step does not concern.
LEMMA LineageStays ==
    ASSUME NEW t, NEW s, IsLineage(s, t), active_processes'[t] = active_processes[t],
           \A p \in Pids : in_use[p] /\ terminal[p] = t =>
               in_use'[p] /\ parent_pid'[p] = parent_pid[p] /\ terminal'[p] = terminal[p]
    PROVE  IsLineage(s, t)'
<1>1. s \in Seq(Pids) /\ \A i \in 1 .. Len(s) : s[i] \in Pids /\ in_use[s[i]] /\ terminal[s[i]] = t
  BY DEF IsLineage
<1>2. \A i \in 1 .. Len(s) - 1 : parent_pid'[s[i + 1]] = s[i]
  BY <1>1 DEF IsLineage
<1>3. s # <<>> => parent_pid'[s[1]] = NoPid
  BY <1>1 DEF IsLineage
<1>4. QED
  BY <1>1, <1>2, <1>3 DEF IsLineage

LEMMA StacksStay ==
    ASSUME StacksInv,
           UNCHANGED <<active_processes, in_use, parent_pid, terminal>>
    PROVE  StackNow' = StackNow /\ StacksInv'
<1>1. PICK old : old = StackNow
  OBVIOUS
<1>2. old = [t \in Terms |-> old[t]]
  BY <1>1 DEF StackNow
<1>3. \A t \in Terms : IsLineage(old[t], t)
  BY <1>1 DEF StacksInv
<1>4. (\A t \in Terms : IsLineage(old[t], t))'
  BY <1>3 DEF IsLineage
<1>5. QED
  BY <1>1, <1>2, <1>4, StacksMove

\* A process that is not in a stack.
LEMMA NotStacked ==
    ASSUME StacksInv, NEW c \in Pids, ~in_use[c]
    PROVE  c \notin Abstract!Used
<1>1. \A t \in Terms : \A i \in 1 .. Len(StackNow[t]) : StackNow[t][i] # c
  BY DEF StacksInv, IsLineage
<1>2. \A t \in Terms : StackNow[t] \in Seq(Pids)
  BY DEF StacksInv, IsLineage
<1>3. \A t \in Terms : DOMAIN StackNow[t] = 1 .. Len(StackNow[t])
  BY <1>2
<1>4. QED
  BY <1>1, <1>3 DEF Abstract!Used, Abstract!ToSet, StackNow

LEMMA AfterIs == ASSUME NEW t PROVE Abstract!After(t) = (t + 1) % TERMINAL_COUNT
<1> DEFINE m == CHOOSE n \in Terms : \A u \in Terms : u <= n
<1>1. TERMINAL_COUNT - 1 \in Terms /\ \A u \in Terms : u <= TERMINAL_COUNT - 1
  BY DEF Terms
<1>2. m \in Terms /\ \A u \in Terms : u <= m
  BY <1>1
<1>3. m = TERMINAL_COUNT - 1
  BY <1>1, <1>2 DEF Terms
<1> HIDE DEF m
<1>4. 1 + m = TERMINAL_COUNT
  BY <1>3
<1>5. Abstract!After(t) = (t + 1) % (1 + m)
  BY DEF Abstract!After, m
<1>6. QED
  BY <1>4, <1>5

\* A terminal gets a shell, its first or in the place of the one that ends.
LEMMA LaunchStack ==
    ASSUME IInv, StacksInv, NEW old, old = StackNow, NEW t \in Terms, terminal_active' = t,
           NEW used \in [Pids -> BOOLEAN], NEW flags, NEW saved,
           \/ used = in_use /\ base_processes[t] = NoPid
           \/ /\ used = [in_use EXCEPT ![curr_pid] = FALSE]
              /\ curr_pid = base_processes[t]
              /\ curr_pid = active_processes[t],
           LaunchBase(used, flags, saved)
    PROVE  /\ StacksInv'
           /\ \E c \in Pids : ~used[c] /\ StackNow' = [old EXCEPT ![t] = <<c>>]
<1>1. PICK c \in Pids :
         /\ ~used[c]
         /\ in_use' = [used EXCEPT ![c] = TRUE]
         /\ parent_pid' = [parent_pid EXCEPT ![c] = NoPid]
         /\ terminal' = [terminal EXCEPT ![c] = t]
         /\ active_processes' = [active_processes EXCEPT ![t] = c]
  BY DEF LaunchBase, AvailPid, InitPcb
<1> DEFINE st == [old EXCEPT ![t] = <<c>>]
<1>2. st = [u \in Terms |-> st[u]] /\ st[t] = <<c>>
      /\ \A u \in Terms \ {t} : st[u] = old[u]
  BY DEF StackNow
<1>3. IsLineage(<<c>>, t)'
  BY <1>1 DEF IsLineage, IInv, TInv, TypeOK, Pids, NoPid
<1>4. ASSUME NEW u \in Terms \ {t} PROVE IsLineage(old[u], u)'
  <2>1. active_processes'[u] = active_processes[u]
    BY <1>1 DEF IInv, TInv, TypeOK
  <2>2. \A p \in Pids : in_use[p] /\ terminal[p] = u =>
            in_use'[p] /\ parent_pid'[p] = parent_pid[p] /\ terminal'[p] = terminal[p]
    BY <1>1 DEF IInv, TInv, TypeOK, SessionTree, TerminalEnds, Live, NoPid, Pids
  <2>3. IsLineage(old[u], u)
    BY DEF StacksInv
  <2>4. QED
    BY <2>1, <2>2, <2>3, LineageStays
<1> HIDE DEF st
<1>5. (\A u \in Terms : IsLineage(st[u], u))'
  BY <1>2, <1>3, <1>4
<1>6. StackNow' = st /\ StacksInv'
  BY <1>2, <1>5, StacksMove
<1>7. QED
  BY <1>1, <1>6 DEF st

\* A sequence with one more at its end.
LEMMA AppendIs ==
    ASSUME NEW s \in Seq(Pids), NEW c \in Pids
    PROVE  /\ Append(s, c) \in Seq(Pids) /\ Len(Append(s, c)) = Len(s) + 1
           /\ \A i \in 1 .. Len(s) : Append(s, c)[i] = s[i]
           /\ Append(s, c)[Len(s) + 1] = c
OBVIOUS

\* Executing puts a child on top.
LEMMA ExecuteStack ==
    ASSUME IInv, StacksInv, NEW old, old = StackNow, Attributed, SysExecute
    PROVE  /\ StacksInv' /\ terminal_active' = terminal_active
           /\ old[terminal_active] # <<>>
           /\ \E c \in Pids : /\ ~in_use[c]
                              /\ StackNow' = [old EXCEPT ![terminal_active] = Append(@, c)]
<1>1. PICK c \in Pids :
         /\ ~in_use[c]
         /\ in_use' = [in_use EXCEPT ![c] = TRUE]
         /\ parent_pid' = [parent_pid EXCEPT ![c] = curr_pid]
         /\ terminal' = [terminal EXCEPT ![c] = terminal_active]
         /\ active_processes' = [active_processes EXCEPT ![terminal_active] = c]
         /\ terminal_active' = terminal_active
         /\ curr_pid = active_processes[terminal_active]
  BY DEF SysExecute, Attributed, AvailPid, InitPcb
<1>2. PICK t \in Terms : t = terminal_active
  BY DEF IInv, TInv, TypeOK
<1>3. PICK s : s = old[t]
  OBVIOUS
<1>4. /\ IsLineage(s, t) /\ s \in Seq(Pids) /\ Len(s) \in Nat /\ s # <<>>
      /\ curr_pid \in Pids /\ curr_pid = s[Len(s)] /\ NoPid \notin Pids /\ Len(s) \in 1 .. Len(s)
      /\ \A i \in 1 .. Len(s) : s[i] \in Pids /\ s[i] # c
  <2>1. IsLineage(s, t)
    BY <1>3 DEF StacksInv
  <2>2. curr_pid \in Pids /\ NoPid \notin Pids
    BY DEF IInv, TInv, TypeOK, Pids, NoPid
  <2>3. s \in Seq(Pids) /\ s # <<>> /\ s[Len(s)] = curr_pid
    BY <1>1, <1>2, <2>1, <2>2 DEF IsLineage
  <2>4. \A i \in 1 .. Len(s) : s[i] \in Pids /\ s[i] # c
    BY <1>1, <2>1, <2>3 DEF IsLineage
  <2>5. QED
    BY <2>1, <2>2, <2>3, <2>4
<1>5. PICK new : new = Append(s, c)
  OBVIOUS
<1>6. /\ new \in Seq(Pids) /\ Len(new) = Len(s) + 1
      /\ \A i \in 1 .. Len(s) : new[i] = s[i]
      /\ new[Len(s) + 1] = c
  BY <1>4, <1>5, AppendIs
<1>7. IsLineage(new, t)'
  <2>1. new # <<>> /\ active_processes'[t] # NoPid /\ new[Len(new)] = active_processes'[t]
    BY <1>1, <1>2, <1>4, <1>6 DEF IInv, TInv, TypeOK
  <2>2. parent_pid'[new[1]] = NoPid
    <3>1. new[1] = s[1] /\ s[1] # c /\ s[1] \in Pids /\ parent_pid[s[1]] = NoPid
      BY <1>4, <1>6 DEF IsLineage
    <3>2. QED
      BY <1>1, <3>1 DEF IInv, TInv, TypeOK
  <2>3. ASSUME NEW i \in 1 .. Len(new) - 1 PROVE parent_pid'[new[i + 1]] = new[i]
    <3>1. i \in 1 .. Len(s) /\ new[i] = s[i]
      BY <1>4, <1>6
    <3>2. CASE i = Len(s)
      BY <1>1, <1>4, <1>6, <3>1, <3>2 DEF IInv, TInv, TypeOK
    <3>3. CASE i # Len(s)
      <4>1. i \in 1 .. Len(s) - 1 /\ i + 1 \in 1 .. Len(s) /\ new[i + 1] = s[i + 1]
        BY <1>4, <1>6, <3>1, <3>3
      <4>2. parent_pid[s[i + 1]] = s[i] /\ s[i + 1] # c /\ s[i + 1] \in Pids
        BY <1>4, <4>1 DEF IsLineage
      <4>3. QED
        BY <1>1, <3>1, <4>1, <4>2 DEF IInv, TInv, TypeOK
    <3>4. QED
      BY <3>2, <3>3
  <2>4. \A i \in 1 .. Len(new) : in_use'[new[i]] /\ terminal'[new[i]] = t
    BY <1>1, <1>2, <1>4, <1>6 DEF IInv, TInv, TypeOK, IsLineage
  <2>5. \A i, j \in 1 .. Len(new) : new[i] = new[j] => i = j
    BY <1>4, <1>6 DEF IsLineage
  <2>6. QED
    BY <1>6, <2>1, <2>2, <2>3, <2>4, <2>5 DEF IsLineage
<1> DEFINE st == [old EXCEPT ![t] = new]
<1>8. st = [u \in Terms |-> st[u]] /\ st[t] = new
      /\ \A u \in Terms \ {t} : st[u] = old[u]
  BY DEF StackNow
<1>9. ASSUME NEW u \in Terms \ {t} PROVE IsLineage(old[u], u)'
  <2>1. active_processes'[u] = active_processes[u]
    BY <1>1, <1>2 DEF IInv, TInv, TypeOK
  <2>2. \A p \in Pids : in_use[p] /\ terminal[p] = u =>
            in_use'[p] /\ parent_pid'[p] = parent_pid[p] /\ terminal'[p] = terminal[p]
    BY <1>1 DEF IInv, TInv, TypeOK
  <2>3. IsLineage(old[u], u)
    BY DEF StacksInv
  <2>4. QED
    BY <2>1, <2>2, <2>3, LineageStays
<1> HIDE DEF st
<1>10. (\A u \in Terms : IsLineage(st[u], u))'
  BY <1>7, <1>8, <1>9
<1>11. StackNow' = st /\ StacksInv'
  BY <1>8, <1>10, StacksMove
<1>12. st = [old EXCEPT ![terminal_active] = Append(@, c)]
  BY <1>2, <1>3, <1>5 DEF st
<1>13. QED
  BY <1>1, <1>2, <1>3, <1>4, <1>11, <1>12

\* Halting takes the child from the top.
LEMMA HaltStack ==
    ASSUME IInv, StacksInv, NEW old, old = StackNow, Attributed,
           NEW status, NEW flags, NEW back, HaltToParent(status, flags, back)
    PROVE  /\ StacksInv' /\ terminal_active' = terminal_active
           /\ Len(old[terminal_active]) > 1
           /\ StackNow' = [old EXCEPT ![terminal_active] = Abstract!Front(@)]
<1>1. /\ in_use' = [in_use EXCEPT ![curr_pid] = FALSE]
      /\ parent_pid' = parent_pid /\ terminal' = terminal
      /\ active_processes' = [active_processes EXCEPT ![terminal_active] = parent_pid[curr_pid]]
      /\ terminal_active' = terminal_active
      /\ curr_pid = active_processes[terminal_active]
  BY DEF HaltToParent, HaltTarget, Freed, Attributed
<1>a. parent_pid[curr_pid] \in Pids /\ terminal[curr_pid] = terminal_active
  BY ParentOfRunning DEF HaltToParent, IInv, TInv
<1>2. PICK t \in Terms : t = terminal_active
  BY DEF IInv, TInv, TypeOK
<1>3. PICK s : s = old[t]
  OBVIOUS
<1>4. /\ IsLineage(s, t) /\ s \in Seq(Pids) /\ Len(s) \in Nat
      /\ curr_pid \in Pids /\ curr_pid = s[Len(s)] /\ NoPid \notin Pids
      /\ Len(s) > 1 /\ parent_pid[curr_pid] = s[Len(s) - 1]
  <2>1. IsLineage(s, t)
    BY <1>3 DEF StacksInv
  <2>2. curr_pid \in Pids /\ NoPid \notin Pids
    BY DEF IInv, TInv, TypeOK, Pids, NoPid
  <2>3. s \in Seq(Pids) /\ s # <<>> /\ s[Len(s)] = curr_pid /\ Len(s) \in Nat /\ Len(s) >= 1
    BY <1>1, <1>2, <2>1, <2>2 DEF IsLineage
  <2>4. Len(s) # 1
    BY <1>a, <2>1, <2>2, <2>3 DEF IsLineage
  <2>a. PICK k : k = Len(s) - 1
    OBVIOUS
  <2>b. k \in 1 .. Len(s) - 1 /\ k + 1 = Len(s)
    BY <2>3, <2>4, <2>a
  <2>5. parent_pid[s[Len(s)]] = s[Len(s) - 1]
    BY <2>1, <2>a, <2>b DEF IsLineage
  <2>6. Len(s) > 1
    <3>1. \A n \in Nat : n >= 1 /\ n # 1 => n > 1
      OBVIOUS
    <3>2. Len(s) \in Nat /\ Len(s) >= 1
      BY <2>3
    <3>3. QED
      BY <2>4, <3>1, <3>2
  <2>7. parent_pid[curr_pid] = s[Len(s) - 1]
    BY <2>3, <2>5
  <2>8. QED
    BY <2>1, <2>2, <2>3, <2>6, <2>7
<1>5. PICK new : new = Abstract!Front(s)
  OBVIOUS
<1>6. /\ new \in Seq(Pids) /\ Len(new) = Len(s) - 1
      /\ \A i \in 1 .. Len(s) - 1 : new[i] = s[i]
  BY <1>4, <1>5 DEF Abstract!Front
<1>7. IsLineage(new, t)'
  <2>1. new # <<>> /\ active_processes'[t] # NoPid /\ new[Len(new)] = active_processes'[t]
    <3>1. active_processes'[t] = parent_pid[curr_pid]
      BY <1>1, <1>2 DEF IInv, TInv, TypeOK
    <3>2. parent_pid[curr_pid] # NoPid
      BY <1>a, <1>4
    <3>3. Len(new) \in 1 .. Len(s) - 1 /\ new # <<>>
      BY <1>4, <1>6
    <3>4. new[Len(new)] = s[Len(s) - 1]
      BY <1>6, <3>3
    <3>5. QED
      BY <1>4, <3>1, <3>2, <3>3, <3>4
  <2>2. parent_pid'[new[1]] = NoPid
    BY <1>1, <1>4, <1>6 DEF IsLineage
  <2>3. \A i \in 1 .. Len(new) - 1 : parent_pid'[new[i + 1]] = new[i]
    BY <1>1, <1>4, <1>6 DEF IsLineage
  <2>4. \A i \in 1 .. Len(new) : new[i] \in Pids /\ new[i] # curr_pid
    BY <1>4, <1>6 DEF IsLineage
  <2>5. \A i \in 1 .. Len(new) : in_use'[new[i]] /\ terminal'[new[i]] = t
    BY <1>1, <1>4, <1>6, <2>4 DEF IInv, TInv, TypeOK, IsLineage
  <2>6. \A i, j \in 1 .. Len(new) : new[i] = new[j] => i = j
    BY <1>4, <1>6 DEF IsLineage
  <2>7. QED
    BY <1>6, <2>1, <2>2, <2>3, <2>5, <2>6 DEF IsLineage
<1> DEFINE st == [old EXCEPT ![t] = new]
<1>8. st = [u \in Terms |-> st[u]] /\ st[t] = new
      /\ \A u \in Terms \ {t} : st[u] = old[u]
  BY DEF StackNow
<1>9. ASSUME NEW u \in Terms \ {t} PROVE IsLineage(old[u], u)'
  <2>1. active_processes'[u] = active_processes[u]
    BY <1>1, <1>2 DEF IInv, TInv, TypeOK
  <2>2. \A p \in Pids : in_use[p] /\ terminal[p] = u =>
            in_use'[p] /\ parent_pid'[p] = parent_pid[p] /\ terminal'[p] = terminal[p]
    BY <1>1, <1>a, <1>2 DEF IInv, TInv, TypeOK
  <2>3. IsLineage(old[u], u)
    BY DEF StacksInv
  <2>4. QED
    BY <2>1, <2>2, <2>3, LineageStays
<1> HIDE DEF st
<1>10. (\A u \in Terms : IsLineage(st[u], u))'
  BY <1>7, <1>8, <1>9
<1>11. StackNow' = st /\ StacksInv'
  BY <1>8, <1>10, StacksMove
<1>12. st = [old EXCEPT ![terminal_active] = Abstract!Front(@)]
  BY <1>2, <1>3, <1>5 DEF st
<1>13. QED
  BY <1>1, <1>2, <1>3, <1>4, <1>11, <1>12

LEMMA SessionsStep ==
    ASSUME Edges = {}, TERMINAL_COUNT <= PID_NUM, IInv, ShellInv, RunInv, StacksInv,
           [Next]_vars
    PROVE  StacksInv' /\ [Abstract!Next]_Abstract!vars
<1>0. PICK old : old = StackNow
  OBVIOUS
<1>a. "boot" \notin Edges
  OBVIOUS
<1>1. /\ terminal_active \in Terms /\ NextTerm \in Terms
      /\ NextTerm = Abstract!After(terminal_active)
  BY NextTermType, AfterIs DEF IInv, TInv, TypeOK, NextTerm
<1>2. \A t \in Terms : /\ base_processes[t] = NoPid <=> active_processes[t] = NoPid
                       /\ old[t] = <<>> <=> active_processes[t] = NoPid
  BY <1>0 DEF IInv, SessionTree, TerminalEnds, StacksInv, IsLineage
<1>3. ASSUME UNCHANGED <<active_processes, in_use, parent_pid, terminal, terminal_active>>
      PROVE  StacksInv' /\ [Abstract!Next]_Abstract!vars
  <2>1. StackNow' = StackNow /\ StacksInv'
    BY <1>3, StacksStay
  <2>2. QED
    BY <1>3, <2>1 DEF Abstract!vars, StackNow
<1>4. CASE TickStart
  <2>1. LaunchBase(in_use, exception, [regs EXCEPT ![curr_pid] = SwitchFrame])
        /\ terminal_active' = NextTerm /\ base_processes[NextTerm] = NoPid
    BY <1>4 DEF TickStart
  <2> DEFINE saved == [regs EXCEPT ![curr_pid] = SwitchFrame]
  <2> HIDE DEF saved
  <2>2. PICK t \in Terms : t = NextTerm
    BY <1>1
  <2>3. terminal_active' = t /\ base_processes[t] = NoPid /\ in_use \in [Pids -> BOOLEAN]
        /\ LaunchBase(in_use, exception, saved)
    BY <2>1, <2>2 DEF IInv, TInv, TypeOK, saved
  <2>4. StacksInv' /\ \E c \in Pids : ~in_use[c] /\ StackNow' = [old EXCEPT ![t] = <<c>>]
    BY <1>0, <2>3, LaunchStack
  <2>5. PICK c \in Pids : ~in_use[c] /\ StackNow' = [old EXCEPT ![t] = <<c>>]
    BY <2>4
  <2>6. old[t] = <<>> /\ c \in Pids \ Abstract!Used
    BY <1>2, <2>3, <2>5, NotStacked
  <2>7. Abstract!Start
    BY <1>0, <1>1, <2>2, <2>3, <2>5, <2>6 DEF Abstract!Start, StackNow
  <2>8. QED
    BY <2>4, <2>7 DEF Abstract!Next
<1>5. CASE TickStartFails
  BY <1>5, BootNoFail DEF TickStartFails
<1>6. CASE TickSwitch
  <2>1. UNCHANGED <<active_processes, in_use, parent_pid, terminal>>
        /\ terminal_active' = NextTerm /\ base_processes[NextTerm] # NoPid
    BY <1>6 DEF TickSwitch, pcbVars
  <2>2. StackNow' = StackNow /\ StacksInv'
    BY <2>1, StacksStay
  <2>3. old[NextTerm] # <<>>
    BY <1>1, <1>2, <2>1
  <2>4. Abstract!Rotate
    BY <1>0, <1>1, <2>1, <2>2, <2>3 DEF Abstract!Rotate, StackNow
  <2>5. QED
    BY <2>2, <2>4 DEF Abstract!Next
<1>7. CASE SysExecute
  <2>1. StacksInv' /\ terminal_active' = terminal_active /\ old[terminal_active] # <<>>
    BY <1>0, <1>a, <1>7, CallerAttributed, ExecuteStack
  <2>2. PICK c \in Pids : ~in_use[c] /\ StackNow' = [old EXCEPT ![terminal_active] = Append(@, c)]
    BY <1>0, <1>a, <1>7, CallerAttributed, ExecuteStack
  <2>3. c \in Pids \ Abstract!Used
    BY <2>2, NotStacked
  <2>4. Abstract!Push
    BY <1>0, <2>1, <2>2, <2>3 DEF Abstract!Push, StackNow
  <2>5. QED
    BY <2>1, <2>4 DEF Abstract!Next
<1>8. ASSUME NEW flags, HaltBase(flags), Attributed
      PROVE  StacksInv' /\ [Abstract!Next]_Abstract!vars
  <2>1. LaunchBase(Freed(curr_pid), flags, regs) /\ terminal_active' = terminal_active
        /\ curr_pid = base_processes[terminal_active]
        /\ curr_pid = active_processes[terminal_active]
    BY <1>8 DEF HaltBase, Attributed, IsBase
  <2>2. PICK t \in Terms : t = terminal_active
    BY <1>1
  <2>3. PICK used \in [Pids -> BOOLEAN] : used = [in_use EXCEPT ![curr_pid] = FALSE]
    BY DEF IInv, TInv, TypeOK
  <2>4. LaunchBase(used, flags, regs)
    BY <2>1, <2>3 DEF Freed
  <2>5. StacksInv' /\ \E c \in Pids : ~used[c] /\ StackNow' = [old EXCEPT ![t] = <<c>>]
    BY <1>0, <2>1, <2>2, <2>3, <2>4, LaunchStack
  <2>6. PICK c \in Pids : ~used[c] /\ StackNow' = [old EXCEPT ![t] = <<c>>]
    BY <2>5
  <2>7. old[t] = <<curr_pid>>
    <3>1. PICK s : s = old[t]
      OBVIOUS
    <3>a. IsLineage(s, t)
      BY <1>0, <3>1 DEF StacksInv
    <3>b. curr_pid \in Pids /\ NoPid \notin Pids
      BY DEF IInv, TInv, TypeOK, Pids, NoPid
    <3>c. parent_pid[curr_pid] = NoPid
      <4>1. base_processes[t] # NoPid /\ base_processes[t] = curr_pid
        BY <2>1, <2>2, <3>b
      <4>2. TerminalEnds
        BY DEF IInv, SessionTree
      <4>3. QED
        BY <4>1, <4>2 DEF TerminalEnds
    <3>2. IsLineage(s, t) /\ curr_pid \in Pids /\ NoPid \notin Pids /\ parent_pid[curr_pid] = NoPid
      BY <3>a, <3>b, <3>c
    <3>d. s \in Seq(Pids) /\ s # <<>> /\ s[Len(s)] = curr_pid
      BY <2>1, <2>2, <3>2 DEF IsLineage
    <3>3. s \in Seq(Pids) /\ s # <<>> /\ s[Len(s)] = curr_pid /\ Len(s) \in Nat /\ Len(s) >= 1
      <4>1. Len(s) \in Nat /\ Len(s) # 0
        BY <3>d
      <4>2. QED
        BY <3>d, <4>1
    <3>4. Len(s) = 1
      <4>1. PICK k : k = Len(s) - 1
        OBVIOUS
      <4>2. Len(s) # 1 => k \in 1 .. Len(s) - 1 /\ k + 1 = Len(s) /\ s[k] \in Pids
        BY <3>3, <4>1
      <4>3. Len(s) # 1 => parent_pid[s[Len(s)]] = s[k]
        BY <3>2, <4>2 DEF IsLineage
      <4>4. QED
        BY <3>2, <3>3, <4>2, <4>3
    <3>5. QED
      BY <3>1, <3>3, <3>4
  <2>8. c \in (Pids \ Abstract!Used) \cup Abstract!ToSet(old[t])
    <3>1. CASE c = curr_pid
      BY <2>7, <3>1 DEF Abstract!ToSet
    <3>2. CASE c # curr_pid
      BY <2>3, <2>6, <3>2, NotStacked DEF IInv, TInv, TypeOK
    <3>3. QED
      BY <3>1, <3>2
  <2>9. Len(old[t]) = 1
    BY <2>7
  <2>10. Abstract!Restart
    BY <1>0, <2>1, <2>2, <2>6, <2>8, <2>9 DEF Abstract!Restart, StackNow
  <2>11. QED
    BY <2>5, <2>10 DEF Abstract!Next
<1>9. ASSUME NEW status, NEW flags, NEW back, HaltToParent(status, flags, back), Attributed
      PROVE  StacksInv' /\ [Abstract!Next]_Abstract!vars
  <2>1. /\ StacksInv' /\ terminal_active' = terminal_active
        /\ Len(old[terminal_active]) > 1
        /\ StackNow' = [old EXCEPT ![terminal_active] = Abstract!Front(@)]
    BY <1>0, <1>9, HaltStack
  <2>2. Abstract!Pop
    BY <1>0, <2>1 DEF Abstract!Pop, StackNow
  <2>3. QED
    BY <2>1, <2>2 DEF Abstract!Next
<1>b. ASSUME NEW status, NEW flags, NEW back, syscall_halt(status, flags, back), Attributed
      PROVE  StacksInv' /\ [Abstract!Next]_Abstract!vars
  BY <1>8, <1>9, <1>b, NoBaseFails, NoOrphan DEF syscall_halt, IInv, TInv
<1>10. CASE Halt
  <2>1. Attributed
    BY <1>a, <1>10, CallerAttributed
  <2>2. PICK status \in Statuses : syscall_halt(status, exception, "user")
    BY <1>10 DEF Halt, SysHalt
  <2>3. QED
    BY <1>b, <2>1, <2>2
<1>11. CASE Exception
  <2>1. Attributed
    BY <1>a, <1>11, CallerAttributed
  <2>2. PICK flags : syscall_halt(0, flags, "dead")
    BY <1>11 DEF Exception
  <2>3. QED
    BY <1>b, <2>1, <2>2
<1>12. CASE SysExecuteFails \/ HaltReturn \/ SysOpen \/ Close \/ SysVidmap \/ UNCHANGED vars
  BY <1>3, <1>12 DEF SysExecuteFails, HaltReturn, SysOpen, Close, SysClose, SysVidmap, vars,
                     schedVars, pcbVars
<1>13. CASE SysExecuteBase
  BY <1>a, <1>13, CallerAttributed, NoExecuteBase DEF IInv, TInv
<1>14. QED
  BY <1>4, <1>5, <1>6, <1>7, <1>10, <1>11, <1>12, <1>13 DEF Next, Tick

\* With a pid for every terminal and no edge case, the parent pointers, base_processes and
\* active_processes implement one stack of programs for each terminal: schedule, execute
\* and halt push, pop and restart, and no other step moves a stack.
THEOREM StacksImplemented ==
    ASSUME Edges = {}, TERMINAL_COUNT <= PID_NUM
    PROVE  Spec => ImplementsSessions
<1>1. Init => StacksInv /\ Abstract!Init
  <2> SUFFICES ASSUME Init PROVE StacksInv /\ Abstract!Init
    OBVIOUS
  <2> DEFINE st == [t \in Terms |-> <<>>]
  <2>1. \A t \in Terms : IsLineage(st[t], t)
    BY DEF Init, IsLineage
  <2>2. StackNow = st /\ StacksInv
    <3>1. st = [t \in Terms |-> st[t]]
      OBVIOUS
    <3> HIDE DEF st
    <3>2. QED
      BY <2>1, <3>1, StacksAre
  <2>3. terminal_active \in Terms /\ Abstract!After(terminal_active) = 0
    <3>1. terminal_active = TERMINAL_COUNT - 1 /\ (terminal_active + 1) % TERMINAL_COUNT = 0
      BY DEF Init
    <3>2. QED
      BY <3>1, AfterIs DEF Terms
  <2>4. QED
    BY <2>2, <2>3 DEF Abstract!Init, StackNow, Terms
<1>2. IInv /\ ShellInv /\ RunInv /\ StacksInv /\ [Next]_vars => StacksInv' /\ [Abstract!Next]_Abstract!vars
  BY SessionsStep
<1>3. QED
  BY <1>1, <1>2, RunInvariant, PTL DEF Spec, ImplementsSessions, Abstract!Spec
=============================================================================
