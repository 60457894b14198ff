# Verification of the 391 OS kernel

TLA+ models of the kernel in `src/student-distrib` and of the user programs in
`src/syscalls` and `src/fish` that read its files, TLC configurations that check them
on small instances, and TLAPS proofs for any size of the system. File names and line
numbers below are those of `src/student-distrib` unless they name a program.

    tlc -config processes.cfg MCProcesses.tla          # a run: see section 4
    tlapm MallocProofs.tla                             # the proofs: see section 6

Contents: 1 the system, 2 the plan, 3 the modules and the code, 4 the runs,
5 fairness and atomicity, 6 the proofs, 7 known divergences, 8 what is not modelled.

## 1. The system

The kernel runs on one x86 CPU, in 32-bit protected mode. Three terminals share
the screen and the keyboard; up to six programs run in them; the PIT's interrupt
rotates between the terminals, so that one program of each is running at a time.

| component | files | state | operations |
|---|---|---|---|
| processes and scheduler | scheduler.c, pid.c, syscall.c, switch.S, idt.c | `terminal_active`, `base_processes`, `active_processes`, `curr_pid`, the PCBs, `tss.esp0`, the user page | `schedule`, `execute`, `halt`, the exception handlers |
| descriptor tables | syscall.c, pid.c | `fda_spaces`, `fda_full`, `fd_array` of each PCB | `open`, `close`, `read`, `write` |
| virtual RTC | rtc.c, x86_inter.c | `terminal_rtc_data` of each terminal | `rtc_open`, `rtc_read`, `rtc_write`, `rtc_handler` |
| virtual screens | lib.c, scheduler.c, paging.c, x86_inter.c | video memory, a backing page for each terminal, `video_mem`, `cursor_change`, the cursors, the vidmap page and its translation | `putc`, `clear`, `switch_screen`, `terminal_switch`, `change_vidmap`, `vidmap` |
| terminal line and history | terminal.c, kboard.c, x86_inter.c | `terminal_ctx`: line buffer, `enter_flag`, saved commands | the keys, `terminal_read`, `terminal_write` |
| keyboard | kboard.c, x86_inter.c | the state keys, the scancode prefix | `update_state_keys`, `check_states`, `check_keys` |
| commands and arguments | syscall.c, terminal.c, user programs | the shell's buffer, `args` of each PCB | the parsing of `execute`, `getargs` |
| file system | filesystem.c | the boot block and inodes (read-only), `file_pos` | `read_dentry_*`, `read_data`, `file_read`, `directory_read`, program loading |
| system calls | x86_interrupts.S, syscall.c | the jump tables of descriptors, EAX | the check of the number, of descriptors and pointers, the dispatch |
| user programs | cat, ls, grep, counter, syserr, fish | their buffers and counts | their loops over `open`, `read`, `write` |
| allocator | syscall.c, paging.c | `malloc_metadata`: one tree of buddies for each 4 MB page | `malloc`, `malloc_tree`, `free` |
| interrupts and boot | i8259.c, idt.c, kernel.c, pit.c, kboard.c | the masks and their copies, in-service bits, the flag IF | `entry`, `enable_irq`, `send_eoi`, the handlers |
| paging set-up, GDT/LDT/TSS, rest of the library, tests, other programs, host tools | paging.c, x86_desc.S, lib.c, tests.c, `src/syscalls`, `src/fish` | - | - |

How they interact. The interrupt handlers run with interrupts disabled on the
kernel stack of whatever process they interrupt. The PIT's handler calls
`schedule`, which saves that process's context *inside* the handler and goes on
inside the handler of another one, or starts a shell and never returns. The
keyboard's handler borrows the globals of the screen (`video_mem`,
`cursor_change`, the cursor) for the terminal on the monitor while another
terminal's program may be half-way through drawing. System calls enter through a
trap gate with interrupts enabled, so every one of them is interruptible where
it does not use `cli`. What a call works on is chosen by two globals, `curr_pid`
for memory and files and `terminal_active` for screen, keyboard buffer and RTC.

What is hard, and the property that makes each component right:

| component | hard | correct when |
|---|---|---|
| processes | one step changes six tables that must agree; contexts saved in one handler are resumed in another; `execute("shell")` inside `schedule` borrows the interrupted process's descriptors; base shells restart in `halt` | the tables describe one stack of programs per terminal (`SessionTree`, `ImplementsSessions`), the CPU runs the right one in its own memory (`RunningIsForeground`), everything suspended can be resumed (`Resumable`), nothing else is touched (`OthersUntouched`) |
| descriptors | `fda_full` caches what `fda_spaces` says; image descriptors are closed by the child's `halt` | `FullIsFull`, `ImageFdHeld` |
| virtual RTC | the reader polls with interrupts enabled and takes afterwards; counters of terminals that are not running | no tick lost or invented (`AccurateClock`, `TickStillThere`), reads return |
| screens | swapping globals, copying pages, stale mappings | every terminal has a screen of its own (`OwnScreens`) |
| terminal line | keys between two steps of the reader; buffer, screen and history changed by different functions | what is shown is what is read (`DisplayMatches`, `EditsLines`) |
| keyboard | chords, caps lock, prefixes | `StatesFollowKeys`, `TypesAsHeld`, `ShowsAsAsked` |
| commands | boundaries of two string copies | `RunsFirstWord`, `GetsArgument` |
| file system, system calls | block boundaries, ends of files, bad blocks; any call with any descriptor | reads form a stream and nothing else moves it (`ReadsStreams`), what must be refused is (`SyserrPasses`) |
| user programs | pieces that end inside lines, lines that end inside pieces; numerals; ends of files | what is shown is what the files hold (`GrepShows`, `ProgramsShow`), and they end (`ProgramsEnd`) |
| allocator | a recursive search that sets bits on its way down and up, interruptible everywhere | `Allocates`, `LaterCallsDisjoint`, `SplitAboveGranted` |
| interrupts | EOI before a context switch that does not return; RTC silent until register C is read; boot waits for interrupts | `ServiceMatchesHandler`, `EnabledStay`, `NoLineFallsSilent` |

## 2. The plan

In order of importance; each component has a module for the code, one for its
properties or its abstract specification, and a small `MC` module with instances.

1. Processes and scheduler with the descriptor tables. *Done; every safety property
   of its runs is proved, the refinement too.*
2. The virtual RTC. *Done, proved.*
3. Virtual screens. *Done, proved with its refinement.*
4. Terminal line and history. *Done, proved with its refinement.*
5. Allocator. *Done, proved with its refinement.*
6. File system, system calls and the programs over them. *Done, proved: the file system
   with its refinement, what each program shows, and syserr's tests.*
7. Interrupts and boot order. *Done, safety proved.*
8. Commands and arguments, and the keyboard's state. *Done, proved.*

Left, for whoever goes on:

- A module that composes `Processes` with `Rtc` and the vidmap page of `Screen`, so
  that the clocks and mappings of real process trees are seen together.
- The keyboard handler's whole chain: `Keys` driving `Terminal` and `Screen`.

## 3. The modules and the code

`FdTable` and `Processes` — the descriptor table of one process, and the core. State
variables have the names of the globals and PCB fields. `Tick` is `pit_handler` with
all of `schedule`, the first launches of shells included; `SysExecute`, `SysExecuteBase`,
`SysExecuteFails`, `Halt`, `Exception`, `SysOpen`, `Close` and `SysVidmap` are the calls, and
`HaltReturn` the end of `halt_context_switch`. `regs[p]` is a saved
context: what kind of frame, on which kernel stack, to be resumed where. `cpu` says
what the CPU runs and on which stack. Three things the kernel does not withstand are
*edges* that a run admits by name (`boot`, `window`, `vidmap`; section 7).

With the edge `boot`, a launch that fails inside `schedule` leaves the interrupted process
running under the next terminal, a *stray* (`IsStray`). Nothing in the kernel notices: it
executes, halts and faults with that terminal's entries of the tables, and so it does in the
model. It makes `active_processes` of a terminal without a base shell (`SysExecute`), becomes
the ancestor of that terminal's base shell (`SysExecuteBase`), gives its parent back to a
terminal that is not the parent's (`HaltToParent`), or, if it is a base shell, indexes the PCBs
with its parent -1 (`HaltOrphan`; the CPU is then `dead` to the model). A base shell whose
relaunch fails is returned to without a pid (`HaltBaseFails`): from a system call it runs on,
from an exception handler it stays in the handler's endless loop with interrupts off, `dead`.
`ProcessesProps` has the invariants; `Sessions` the abstract specification, stacks of
processes that take turns; `ProcessesRefine` the mapping.

`Rtc`, `RtcClock` — `terminal_rtc_data` is `rtc`; `pc` is where the program of each
terminal is inside `rtc_read`; `DEPTH` bounds the programs a terminal nests and
`MAX_COUNT` the flag. `RtcClock` adds the account `owed` of the interrupts that
still have to show up as ticks.

`Text`, `Screen`, `VirtualScreens`, `ScreenRefine` — `Text` is what `putc`, `clear` and
`scroll_up` do to one screen. In `Screen` the console `con` holds the pages, the
globals of the running terminal (`con.regs`) and the saved ones (`con.ctx`).
`VirtualScreens` promises a screen to each terminal.

`Terminal`, `TerminalProps`, `LineEditor` — `term` is one `terminal_ctx` with its part
of the screen; `Press` is what one key does in `keyboard_handler`; reading is two
steps, `ReadStarts` and `ReadReturns`, with keys in between. `LineEditor` promises
that a read returns the edited line, and that what is recalled stood there before.

`Malloc`, `MallocProps`, `Allocator` — `call[p]` is the recursion of `malloc_tree`: the
node it visits and whether it comes or returns; every visit and return is a step, so
calls of two programs interleave. `Allocator` is an allocator of aligned blocks.

`FileSystem`, `FileSystemProps`, `Streams` — the disk image is constant; `VisitBlock`
is one turn of `read_data`'s loop, folded over the blocks; a byte is known by its place
in the image. `fd_array` and `table` are those of one process; `result` is what the last
call returned and stored. `Streams` promises that reads take consecutive parts of a
sequence, and that a call that fails takes nothing.

`Strings`, `Syscalls`, `Syserr` — `Strings` has the string functions of lib.c and of
ece391support.c. `SystemCall(eax, args)` in `Syscalls` is INT 0x80: the range check
and table of x86_interrupts.S, the checks of syscall.c, then the function that the
descriptor's jump table names. `Syserr` is ece391syserr.c: its eight tests as sequences
of calls that must fail; `CallTested` makes the next one and keeps `fail` and `cnt`.

`Programs`, `ProgramsProps` — one program runs: cat, ls, grep, counter, fish's
`add_frames`, syserr, or any calls at all (`AnyProgram`). `p` has its variables and the
place `at` where it goes on; a system call is a step, and so is what grep computes
between two. `letters` says what the bytes of the image are, any text of a given length;
`output` is what was shown. `junk` is the byte of grep's stack after its buffer.

`Interrupts`, `InterruptsProps` — `irr`, `isr`, `imr` are the controllers, `mask` the
kernel's copies, `boot` the statement of `entry` that is next, `handler` the handler
that runs, `ctx` whether a terminal's shell was started. The three devices interrupt.

`Commands` — the line typed, through the shell's buffer, `execute`'s parsing and
`getargs`. `Keys` — a keyboard whose user holds and releases keys, and the handler's
tests in their order.

`PROJECT.json`, "map", names the lines of each definition.

## 4. The runs

State counts are distinct states. Every run explores its whole state space, except
that the two with a known violation stop at it.

| run | instance | what it shows |
|---|---|---|
| `processes` | 4 pids, 2 terminals, 3 descriptors, no edges; 72,290 states | the tables describe one chain per terminal (`SessionTree`), every waiting parent holds the descriptor its child will close (`ImageFdHeld`); `TypeOK`, `RunningIsForeground`, `Resumable`, `VidmapOwned`, `FaultReported`; implements `Sessions` (`ImplementsSessions`); `EveryTerminalRuns` under fairness |
| `processes_edges` | 3 pids, 2 terminals, 4 descriptors, edges `boot` and `vidmap`; 2,010,840 | a failed launch in `schedule` breaks the tree and loses image descriptors only through what strays execute and halt (`KeptButByStrays`); whatever they do, `FullIsFull` and `OthersUntouched` |
| `processes_window` | 3 pids, edge `window` | **violation** of `ControlKept`: the parent's context is lost if the PIT fires in `halt_context_switch` |
| `rtc` | 2 terminals, master rate 4, 3 programs deep, opens that may fail; 863,298 | `TickStillThere`, `AccurateClock`; `ReadReturns` under fairness |
| `screen` | 2 terminals of 2x1 cells, one uses vidmap, one stroke of each kind at a time; 256,758 | `DrawsHome`, `CursorOfShown`, `NeverAnothersPage`; implements `VirtualScreens` (`OwnScreens`) |
| `terminal` | buffer of 6, history of 2, 3x3 cells, all keys, one letter or tab a line; 777,617 | `DisplayMatches`, `LatestIsViewable`; implements `LineEditor` (`EditsLines`) |
| `malloc` | 2 programs, 2 trees of 4 pages, requests below a page, of 2, of 4 pages and above; at most 4 calls; 235,330 (symmetric) | `SplitAboveGranted`, `LaterCallsDisjoint`; calls that do not overlap implement `Allocator` (`Allocates`) |
| `malloc_race` | 2 programs, 1 tree | **violation** of `NoOverlap`: two calls at once get overlapping blocks |
| `fs` | a directory of 5 entries (itself, a program, a text of 5 bytes with any of three letters each, the RTC, a hidden file with a bad block); blocks of 2 bytes, buffers of 3, 4 descriptors; reads of -1 to 3 bytes; 54,468 | `TypeOK` (positions stay inside files), implements `Streams` (`ReadsStreams`) whatever is called; `GrepShows`, `ProgramsShow` and `SyserrPasses` for the programs; `ProgramsEnd` under fairness |
| `int` | 3 terminals, 3 devices; 1,048 | `ServiceMatchesHandler`, `EnabledStay`; no line falls silent (`NoLineFallsSilent`) under fairness |
| `cmd` | 2 letters, lines with single spaces of up to 5 characters, which fill the buffer of 6; 371,907 | `RunsFirstWord`, `GetsArgument` |
| `keys` | 2 letters, a symbol, all modifiers, 2 function keys, held in any combination; 93,953 | `StatesFollowKeys`, `TypesAsHeld`, `ShowsAsAsked` |

Why these bounds are enough for the cases that matter:

- *processes*: four pids on two terminals give two base shells, a child and a
  grandchild, or a child on each; pids run out; three descriptors leave one for
  files, so that images and files fill the table. Each execute, halt, fault, relaunch
  and tick happens in each of these. With `processes_edges` two descriptors are free,
  so an image may take either of them, and a program that starts during the boot can take
  the last pid or fill its table before a terminal has its shell.
- *rtc*: master rate 4 and default rate 2; a request for 1 Hz gives rate 4, so that a counter
  left from it would be above the default's. 3 is no power of two and 16 above the maximum of
  8: both are refused. 0 passes the checks and the division faults. Below the base shell of a
  terminal there is room for a program and its child, both with the device. `MAX_COUNT` 4
  bounds a flag that nobody reads.
- *screen*: one row makes every line feed scroll, two columns make every second
  character wrap, two terminals give a shown and a hidden one that alternate as the
  running one. `Lines` has one stroke of each kind; `MAX_LINE` bounds what is drawn
  before `terminal_x` is reset.
- *terminal*: the kernel's buffer has 128 bytes; with 6, a tab (4 bytes) just fits,
  and both full-buffer rules are reached. A history of 2 wraps around, is full, and
  has the recalled and the newest command in the same and in different slots.
  `Patient` and `ErasesTabs` are the user's habits; section 7 has what the others do.
- *malloc*: order 2 has inner nodes at two levels; with two trees a request moves on
  to the second when the first is full, and with four calls both can be.
- *fs*: offsets and lengths below, at and above a block; blocks out of order, a file
  that ends in the middle of a block, one with a block out of range. Buffers of 3 over
  files of 5 and blocks of 2 make every piece end at another place of block and line;
  grep's lines are shorter than, as long as, and longer than its buffer, and patterns of
  0, 1 and 2 letters match inside, at the ends of and across pieces. counter counts past
  one and two digits in base 3; fish has frames with lines of unequal number and length.
  Two descriptors beyond stdin and stdout run out when a program keeps them.
- *int*: nothing is bounded but the terminals.

Counters that the code leaves unbounded are bounded by a named constant in a guard:
`MAX_COUNT`, `MAX_LINE`, `MAX_LETTERS`, `MAX_PRINTED`, `MAX_CALLS`, `MAX_FREED`, `MAX_DEPTH`,
`DEPTH`. Deadlock is checked everywhere but in `malloc`, where `MAX_CALLS` ends the run, in
`fs`, where the programs end, and in `processes_edges`, where the CPU may end in a handler's
endless loop with interrupts off.

## 5. Atomicity and fairness

There is one CPU, so what runs with interrupts disabled is one action: the handlers
(interrupt gates, idt.c), `schedule`, `execute` and `halt` after their `cli`. What runs
with interrupts enabled is split wherever an interrupt makes a difference:

- `halt_context_switch` between `popfl` and the switch of stacks (switch.S:165-170) is
  the place `window` of the CPU;
- `rtc_read` polls, then takes under `cli` (rtc.c:144); `terminal_read` clears the
  buffer, waits and copies (terminal.c:114);
- `malloc_tree` is one step for each node it visits and returns from (paging.c:124);
- `syscall_vidmap` checks which terminal is shown, then writes the entry
  (syscall.c:414, paging.c:117);
- characters are drawn one `Lines` element at a time;
- in `Programs` every system call is a step: the files are read-only and the descriptors
  the program's own, so that other programs change nothing it could see.

Calls that change only the caller's own PCB are one action, since an interrupt inside
cannot be told from one before or after.

Fairness is given only to hardware that keeps going and a CPU that executes on:

- `processes`: strong fairness of `Tick` (the 8259 latches a request that comes while
  interrupts are off), weak fairness of `HaltReturn` (two more instructions). Programs
  have none: they may loop or never call. The run has no edge `window`; what a tick there
  does is `processes_window`'s question.
- `rtc`: weak fairness of the RTC's and PIT's interrupts, and strong fairness of the poll
  of a terminal's reader while it has the CPU: its time slice is longer than its loop.
- `fs`: weak fairness of the program's next step, which is the CPU's going on and, for a
  read of the keyboard or the RTC, somebody typing and the clock ticking.
- `int`: weak fairness of each interrupt's delivery, each handler and of the devices PIT
  and RTC, strong fairness of `entry`'s statements and of critical sections (they can
  be put off by interrupts again and again), strong fairness of the keyboard's answer
  to a command. `served` states that a device is slower than the processor: between two
  interrupts of one line the other lines get their turn.

## 6. The proofs

Eight modules; `tlapm` proves all their obligations for every value of the constants
that the named assumptions admit. Leaves are kept small enough to be found in about half of
the provers' default time (5 s for SMT, 10 s for Zenon; `--stretch 0.5` tries it), so that they do
not depend on the speed of a machine: sums and indices are done on plain naturals, away from
the records and texts they come from.

**`ProcessesProofs`** begins with `TypeCorrect` (every set of edges) and `TreeCorrect`
(`"boot" \notin Edges`). The invariant behind types is `TInv`: `TypeOK`, and, as long as
interrupts are served, that a terminal with a base shell has a foreground process. The one behind the tree, `IInv`, adds
`SessionTree` and, once every terminal has its shell, that the process that runs is the
foreground one of the scheduled terminal (`Attributed`): that is what the kernel takes for
granted, and what a stray breaks. `SessionTree` cannot be proved alone: that `halt` leaves a
chain needs that the running process is a leaf with a live parent on the same terminal, so
its four parts (ends, ancestry, one child, the foreground is the leaf) carry each
other; and types bound the indices. There is a lemma for each kind of change: a chain
that gets a new leaf, one that loses it, a terminal that gets or replaces its shell.
Without the edge `boot` programs run only while every terminal has its shell, so that
`schedule` has none to launch and leaves no stray. Assumptions: at least one pid, terminal and descriptor beyond stdio.

On top of that tree, the other properties of the process core:
- `OnlyStraysBreak`, with every edge: from any state in which the tree holds, a tick, or a
  step of a process under its own terminal, leaves it and every recorded image descriptor in
  place. It is the part of `TreeCorrect` and `ImagesHeld` that survives a failed launch.
- `FullTablesAreFull`, with every edge: a table kept by `open` and `close` has its flag set
  exactly when it is full. A base shell's launch inside `schedule` borrows a slot of the
  interrupted process and gives it back.
- `ImagesHeld`, without the edge `boot`: the slot of a parent's image is taken from the
  child's start to its halt.
- `ForegroundRuns` and `AllResumable`, with no edge (`Edges = {}`) and a pid for every
  terminal's shell (`TERMINAL_COUNT <= PID_NUM`); both are needed, section 7 has what
  happens otherwise. The invariant says whose frame is where: a foreground process that
  does not run is suspended in `schedule` on its own stack, an ancestor in `execute`;
  and until the last terminal has its shell, terminals and pids are given out in step
  (`BootInv`), which is why the launches of the boot cannot fail.
- `VidmapAlwaysOwned`, without the edges `boot` and `vidmap`: base shells never ask, so that
  relaunching one cannot strand a mapping.
- `OthersKept` and `FaultsReported` are action properties: with every edge, a step leaves alone
  every process that runs neither before nor after it; without `boot`, 256 is returned for a
  process that faulted and for no other.
- `StacksImplemented`, under the assumptions of `ForegroundRuns`: the core implements
  `Sessions`. A terminal's stack is read off the parent pointers from its foreground
  process upwards; the tree invariant says that they are as many as the terminal has
  processes and end at its base shell, which makes the stack the only sequence of its kind
  (`LineageIs`). Then execute appends to one stack, halt takes its last away, a
  launch makes one of one process, and no other step moves any.

**`RtcProofs`**: `Accurate` and `NeverNegative`. The invariant adds to `TypeOK`
that the account is an integer, that a base shell has not asked for a rate
(`BaseNeverAsked`), that a reader past its poll has a tick (only the reader itself takes
one, although other terminals' readers run in between) and the account itself.

**`ScreenProofs`**: `GlobalsHome`, `CursorKept`, `PagesKept` and `ScreensImplemented`. The
invariant says where the console is between handlers: `cursor_change` tells whether the
running terminal is shown, `video_mem` is its home page, the cursor is the shown
terminal's; and which pages the entry and the translation of vidmap may name: the
monitor or the running terminal's own, so that even a stale one is no third terminal's.
`ScreensImplemented` maps each step to one of `VirtualScreens` or a stutter; a store
through a stale mapping is excepted by name (`Astray`).

**`InputProofs`** extends `Interrupts`, `Keys` and `Commands` together (which is why the
specifications of the last two have names of their own, `KeysSpec` and `CommandsSpec`).
- `ServiceMatchesHandlerTheorem` and `EnabledStayTheorem`. The invariant adds that the copies
  of the masks are the masks (`imr = mask`), without which an enable could mask another
  line.
- `StatesFollow` for any keyboard on which no two keys send the same code (`OneKeyEach`),
  `TypedAsHeld` and `ShownAsAsked` for one without arrows or right-hand twins (`Plain`). The
  invariant relates the bytes that still wait to the event they stand for: between a
  key's going down and the handler, the states are those from *before* the event. Both
  assumptions exclude known divergences (section 7).
- `StartsFirstWord` and `GivesSecondWord` for every size of the keyboard buffer and every line
  that it takes (`LineAssumption`), the full one included, which terminal_read gets without
  an end of string, if the line is tidy: single spaces between words, none at the end, a name
  that fits (section 7 has the others). `SizeAssumption` says that names are much shorter than
  lines (32 and 128 in the code), so that a tidy line's first name ends inside the buffer. The
  places where the words start and end (`First`, `AfterFirst`, `AfterSecond`) are least
  members of sets; that the property's words, the sets of places that `Words` counts, are the
  ones between them takes most of the proof. The invariant says that every buffer is a
  line followed by nulls only (`BufferOf`), whatever it held before, and that every
  program has the name and the arguments of the line that executed it.

**`TerminalProofs`**, for any sizes of buffer, history and screen:
- `LatestRecalled`, for every user. The invariant keeps the indices of the
  history inside its array, the newest command where `top` says, and shows on the way
  that Down's search for a saved command always ends (`DownStops`).
- `LinesEdited`, that the buffer, its index, the flag of Enter and the history implement
  `LineEditor`, for a user who waits for the read before typing on and erases no tabs
  (`Patient`, `ErasesTabs`; section 7 has the others). The buffer has one of three shapes:
  an open line of which all is before `buf_idx`; a line closed by Enter that waits for
  its reader; one that was lost to a read that cleared it. Every saved command is a line
  that ends within the buffer. Each key maps to an edit, to Enter, or to a stutter.
- `ShownAsTyped`, for a user who waits for the read and may erase tabs. The invariant
  says that the last `buf_idx` cells before the cursor are the line (`Told`), that
  `terminal_x` is at least `buf_idx`, so that `putc` never refuses the backspace of a
  character of the line, and that until Enter neither the buffer nor a saved
  command has a newline, its last byte is free and a tab has room for its spaces
  (`Tidy`). A stroke is a lemma (`GlyphTells`, `BackspaceTells`, `ClearTells`; the screen
  may move up and the cursor may stand above it), and `DrawAllIn` carries what each stroke
  keeps through a row of them.

**`MallocProofs`**: `LaterBlocksApart`, `SplitsAreRight` and `MallocAllocates`, for any number
of programs, trees and orders. All that the proofs need of the tree is that a node
covers a range of pages, and that two ranges are nested or apart; node *i* of order *o*
covers those from `2^o (i + 1)` on, counted from `2^MAX_ORDER`.
- While a call descends it has checked that no block from before covers a proper
  ancestor of its node (`Uncovered`); a node that is neither taken nor split is therefore
  apart from all of them, and stays so although other calls go on marking. On the way up
  the call has marked the ancestors of its block as far as it is (`Taken`).
- Every taken node is a granted block's or that of a call on its way up (`Owned`), and
  under every split node there is a taken one (`SplitUsed`): with no call under way,
  split is exactly what it should be.
- An undisturbed call that comes back with nothing has passed, from left to right, only
  places that a granted block overlaps (`Searched`), so that when it fails `Allocator` has
  no place to offer; and it grants one when it does not.

**`FileSystemProofs`**, for every image, block size, number of descriptors and size of the
programs' buffers: `PositionsStayInside`, `FilesAreStreams` and `TestsPass`.
- The kernel's part of the invariant (`KernelOK`) ties the descriptors in use to files that
  the directory names, with positions inside them. `read_data`'s loop is a recursive
  function of the number of blocks visited; its value after each block is known by least
  counterexample (what is skipped and taken so far are the bytes from the offset on), so
  that the whole loop returns the piece of the file that `Streams` returns, or fails
  where a block is bad. Lengths are unsigned: a negative one asks for more than any
  file holds, and the clipping to what is left is what `Streams` promises.
- The programs' parts (`CopierOK`, `GrepOK`, `CounterOK`, `FishOK`, `SyserrOK`) say which
  descriptors they hold where they are, and that their indices stay inside their buffers;
  the refinement needs them because a program may only read into what it has. Syserr's
  has what its tests have opened so far (`LotsOpened`): the test that opens until
  it fails fills the table exactly.

**`ProgramsProofs`** extends `FileSystemProofs`, for any program and any letters in the files:
- `ShowsFiles` (`ProgramsShow`) needs what was shown tied to what was read, at each place of
  each program: `CopierShown` says that what cat or ls has shown, with the piece it holds,
  is the file or the names up to the position; `CounterShown` that the lines shown are the
  numerals up to `p.i`; `FishShown` that of two frames without bad blocks fish has shown
  what is before its row and column, that its ends of lines and files are theirs, and which
  characters it holds. When a read returns 0 the position is the end, and what was
  shown is all.
- `ShowsLines` (`GrepShows`) is about lines that pieces of a fixed size cut anywhere. The
  lines of a text are given by marks, the places where they end (`IsMarks`).
  Before a piece is read the buffer holds the beginning of the line that is open
  (`LineOpen`), or nothing if only the newline of a line that just filled it is to come
  (`LineOver`, `GrepReads`). While lines are looked at (`GrepLooks`), what is shown is what
  the entries before and the lines before the one at hand give (`FoundTo`, `FoundIn`);
  moving the rest of the buffer to its front leads from the second back to the first.
  `GrepShows` itself excludes lines longer than the buffer or with a NUL, and the newline
  behind the buffer (section 7); that an excluded entry spoils no later one is not claimed.

Assumptions of both: names fit the entries' fields, what is called "." is a directory, the
only one, and is there; files, headers, buffers and typed lines are smaller than a
machine's word counts; syserr's near misses are no names on the disk; fish's frames are
files on the disk and there are descriptors for both (`FramesAssumption`); counter's digits
differ from each other and from a newline (`RadixAssumption`); `letters` stands for bytes of
files only, not for characters of names (`LetteringAssumption`); buffers have room for
names and grep's for a byte (`BufferAssumption`); NUL is no newline and what grep is given
is a string (`PatternAssumption`).

The provers have no axioms for powers; `PowersAssumption` (2^0 = 1 and 2^(n+1) = 2 * 2^n
for the orders there are) gives the two they need, and TLC evaluates it. That sums of
exponents are products of powers, and that larger powers are multiples of smaller
ones, are lemmas proved from it by a least counterexample.

Only model-checked: the liveness properties (`EveryTerminalRuns`, `ReadReturns`, `ProgramsEnd`, `NoLineFallsSilent`), since fairness and `ENABLED` are out of the
prover's reach. Every invariant and every safety property of a passing run is a theorem,
under the assumptions named here. Induction over data is out of reach as a principle; where
it is needed (`read_data`'s blocks, a terminal's stack, strokes on the screen, lines and
numerals, powers of two) it is replaced by the least counterexample to the one statement.

## 7. Known divergences

Two are runs, with a finding each in `PROJECT.json`:

- switch.S:166. `halt_context_switch` says it restores the parent's context; `popfl`
  enables interrupts two instructions before the parent's stack is restored, and a
  PIT interrupt there overwrites the parent's saved registers (`processes_window`).
- paging.c:127. "No block can be allocated from this node" if it is taken or split; but
  a call that has passed a node may be interrupted before it marks it, and another
  program's call gets the node as a whole (`malloc_race`).

The others are stated as properties that no listed run checks, because they fail. Each
was reproduced with the run's configuration changed as in the second column.

| property | change | what happens |
|---|---|---|
| `RunningIsForeground` | `processes_edges`, `Edges <- BootEdge` | `execute("shell")` can fail inside `schedule` when the running programs left no pid or descriptor; `terminal_active` has moved on, and the old program continues as another terminal's (scheduler.c:38) |
| `SessionTree`, `Resumable`, `VidmapOwned`, `FaultReported` | same | what that stray process executes becomes the foreground of a terminal without a base shell (syscall.c:230), or its base shell (syscall.c:178); what it halts leaves a dead pid in the foreground of the terminal it belonged to (syscall.c:42), and a base shell that halts there has no parent to return to (syscall.c:36) |
| `ImageFdHeld` | same | a stray's halt closes the image of a shell that then executes the other terminal's base shell and waits (syscall.c:45, syscall.c:178) |
| `BasePidKept` | same | a relaunched base shell takes the lowest free pid, which may not be the one it had (syscall.c:22) |
| `ExecuteResult` | `processes_edges`, `Edges <- NoEdges` | with no pid free, or an image that cannot be read, `execute` returns 1 (syscall.c:158, 169), not -1 (syscall.c:81) |
| `VidmapOwned` | `processes_edges`, `Edges <- VidmapEdge` | the bound of `vidmap` is inclusive (syscall.c:414): it faults on the store after it has made the page present |
| `VidmapServed` | `processes_edges`, `PID_NUM = 5`, `Edges <- NoEdges` | `halt` looks for users of the video page among foreground processes only (syscall.c:52); one that waits for a child loses its mapping |
| `RateAsAsked` | `rtc`; also with only one of `DEPTH = 3` and `OpenMayFail = TRUE` | rtc.c:172 sets "the RTC rate of the current process", but the rate is kept per terminal: a child's open and write change its parent's (rtc.c:176), and an open that then finds no descriptor has reset it (syscall.c:314) |
| `NoTickSkipped` | `rtc`, `Frequencies <- AllFrequencies` | 1024 Hz is accepted and gives rate 0, which the counter passes: reads then never return (rtc.c:165, rtc.c:176) |
| `VidmapFollows` | `screen` | an Alt+F_n between the two steps of `syscall_vidmap` leaves the entry on the wrong page (paging.c:117) |
| `TlbFresh` | `screen` | `terminal_switch` changes the entry without a flush (scheduler.c:81) |
| `ReadWaits` | `terminal` | an Enter from before the read makes it return at once with nothing (terminal.c:118) |
| `ReadIsALine` | `terminal`, `ReadSizes = {6}`, `Patient = FALSE` | keys after Enter change the line before it is read (terminal.c:122) |
| `ReadIsALine`, `EditsLines` | `terminal`, `ErasesTabs = TRUE`, `BUF_SIZE = 7`, `NUM_ROWS = 4`, `ReadSizes = {7}` | erasing a tab can leave bytes of it behind (kboard.c:281) |
| `DisplayMatches` | `terminal`, `Patient = FALSE` | an arrow pressed after Enter saves the line with its newline; when it is recalled the newline is echoed, but stays in the buffer (kboard.c:419) |
| `DownMovesForward` | `terminal` | with the newest command in the last slot, Down goes round to the oldest (kboard.c:443) |
| `CursorOnScreen` | `terminal` | Ctrl+L moves the cursor home and keeps `terminal_x`; backspaces then walk off the screen (lib.c:35, lib.c:230) |
| `BlockHoldsRequest` | `malloc_race`, `Sizes = {12}` | the order is rounded down: one page and a half gets one (syscall.c:456) |
| `OwnMemory` | `malloc_race` | an address is stored in a bit field without its shift: all entries of the area map the same memory (paging.c:72) |
| `FailsOnlyWhenHeld` | `malloc_race`, `MAX_FREED = 1` | `free` does nothing, nor does `halt` give memory back (syscall.c:479) |
| `LoadsOnlyExecutables` | `fs`, `MAGIC = 6`, `HEADER = 6` | a file shorter than the magic number is compared with what was on the stack (filesystem.c:421) |
| `ReturnsWhatItStored` | `fs` | `directory_read` returns the length of the name, not of what it stored (filesystem.c:177) |
| `GrepShows` | `fs`, without its exclusion of `p.junk = NEWLINE` | grep looks for the end of a line one byte past what it has read; a newline that happens to be on the stack after its full buffer ends a line in its middle (ece391grep.c:33) |
| `GrepShows` | `fs`, without its exclusion of `AnyUnfit` | a line longer than the buffer is looked at in parts, and one with a NUL is shown only up to it (ece391grep.c:33) |
| `ProgramsEnd` | `fs`, a frame of fish in the file with the bad block | fish takes -1 for no end of file and goes on forever, a column further each time, so that the run itself does not end (fish.c:103) |
| `InterruptsOffUntilReady` | `int` | `rtc_init` enables interrupts before `entry` has finished (rtc.c:34, kernel.c:196) |
| `ShellsStart` | `int`, `Resends = TRUE` | a keyboard that answers "resend" is waited for forever (kboard.c:146) |
| `TimesliceAsAsked` | `int` | the milliseconds are divided first, so the divisor is 0 (pit.h:22) |
| `GetsArgument` | `cmd`, `TypedLines <- AnyLines` | `getargs` stops at a space, so a second one before the argument hides it (syscall.c:399) |
| `StoresAtMost` | `cmd`, `ArgSizes <- NegativeSize` | a negative size passes the check of `getargs` (syscall.c:394) |
| `ReleasesAreQuiet` | `keys`, `Keyboard <- Arrows`, `Repeating <- NoKeys` | the prefix byte of an arrow's release recalls a command (x86_inter.c:120) |
| `StatesFollowKeys` | `keys`, `Keyboard <- Controls`, `Repeating <- NoKeys` | two Ctrl keys share a state: releasing one releases both (kboard.c:171) |
| `CapsOnlyOnPress` | `keys`, `Keyboard <- CapsKeys`, `Repeating <- CapsKeys` | a held caps lock toggles with each repetition (kboard.c:166) |

`BasePidKept` without the edge, `LineIntact`, `ShellsStart` without resends, and the type
invariants of `Rtc`, `Screen`, `Terminal`, `Malloc`, `Interrupts`, `Commands` and `Keys` hold
on the runs' instances; they are not listed because stronger properties of the same run
imply or need them.

## 8. What is not modelled, and limits

- *Boot and tables*: the multiboot structure, GDT/LDT/TSS contents and the page
  directory's set-up are constant after boot. The order of `entry` is in `Interrupts`.
- *Library*: what draws on the screen is in `Text` and `Screen`, strings are in
  `Strings`. `printf` is wording; `memset`, `memcpy` and `memmove` are loops over the bytes
  of one call, and appear as the assignments they make.
- *System call entry*: registers are saved and restored by straight-line code; only EAX,
  the number and the result, is modelled. `Syscalls` calls what other modules model
  (`halt`, `getargs`, `vidmap`, the RTC) as answers; the calls that start and end
  programs are in `Processes`.
- *User programs*: messages of failures are left out of `Programs`, and fish from where it
  has its frames (a loop around the RTC that blinks what `add_frames` collected). hello,
  testprint, sigtest, pingpong and the allocator's test make their calls in a fixed
  order, which the callers in the other modules make in any order; `ece391emulate.c`
  stands in for the kernel on a host, and is no part of the system.
- *Tests, host tools, disk images*: test code that `entry` does not call, and binaries.
- *Composition*: components that meet in `schedule` are modelled with the part of it
  that concerns them, not in one module; the product would be out of TLC's reach.
  `Processes` leaves out `terminal_switch` and `getargs`, `Rtc` and `Screen` know a
  program only by its terminal and depth.
- `Terminal` recalls one command for each press of an arrow, though the prefix bytes make
  the handler recall twice (`Keys`, `ReleasesAreQuiet`); the `keys` run has no arrows, no
  second Ctrl, Alt or Shift-like twin beyond the two shifts, and no repeating caps lock.
- Data is abstract: characters, bytes and names are a few values; the disk, the tree and
  the screen are small. Times are orders of events, not durations.
