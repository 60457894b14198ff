---------------------------- MODULE ScreenRefine ----------------------------
(***************************************************************************)
(* Where each terminal's screen is at any moment, and what must be true of *)
(* the console for every terminal to have a screen of its own.             *)
(***************************************************************************)
EXTENDS Screen

RegsOf(k, active, t) == IF t = active THEN k.regs ELSE k.ctx[t]

\* The globals hold the cursor of the running terminal, the page on the
\* monitor holds the text of the shown one.
ScreenOf(k, active, t) ==
    LET r == RegsOf(k, active, t)
    IN  [x |-> r.x, y |-> r.y, tx |-> r.tx, cell |-> k.page[Home(k, t)]]

\* Before its first turn a terminal has no screen: the kernel's messages and
\* the keys typed until then are cleared when its shell starts.
View(t) == IF t \in started THEN ScreenOf(con, terminal_active, t) ELSE EmptyScreen

VS == INSTANCE VirtualScreens WITH screen <- [t \in Terms |-> View(t)],
                                   shown  <- con.shown,
                                   active <- terminal_active

(***************************************************************************)
(* Properties.                                                             *)
(***************************************************************************)
\* Type invariant.
TypeOK == /\ con \in Consoles
          /\ terminal_active \in Terms
          /\ started \in SUBSET Terms
          /\ tlb \in Pages \cup {None}
          /\ vidmap \in [Terms -> {"none", "on_screen", "in_back", "mapped"}]

\* Whenever a program runs, putc draws on the page that belongs to its terminal
\* and moves the monitor's cursor only if that terminal is shown: every handler
\* that swapped the globals swapped them back (x86_inter.c:92-164, scheduler.c:25).
DrawsHome == terminal_active \in started =>
                 /\ con.video_mem = Home(con, terminal_active)
                 /\ con.cursor_change = (con.shown = terminal_active)

\* The cursor on the monitor is where the shown terminal will draw next, whoever
\* is running (update_cursor, lib.c:554).
CursorOfShown == LET s == RegsOf(con, terminal_active, con.shown)
                 IN  con.cursor = NUM_COLS * s.y + s.x

\* A store through vidmap would not reach the screen of the running terminal: its
\* page table entry or its translation is out of date.
Astray == /\ vidmap[terminal_active] = "mapped"
          /\ Translated # Home(con, terminal_active)

\* The handlers' swapping and copying gives every terminal a screen of its own; only
\* a store that goes astray is not a step of such screens (scheduler.c:18-83,
\* x86_inter.c:77-168, syscall.c:411-433).
OwnScreens == VS!Init /\ [][VS!Next \/ (UserStore /\ Astray)]_(VS!vars)

\* Whatever the interleaving of syscall_vidmap, keys and time slices, a program's
\* store through vidmap reaches its terminal's backing page or the monitor, never
\* the page that backs another terminal.
NeverAnothersPage ==
    vidmap[terminal_active] = "mapped" => Translated \in {VIDEO, terminal_active}

\* The vidmap page is the monitor if the running terminal is shown and its backing
\* page if it is not (the comments of change_vidmap, paging.c:117-120).
VidmapFollows ==
    vidmap[terminal_active] = "mapped" => con.pte = Home(con, terminal_active)

\* A translation in the TLB agrees with the page table: the entry is flushed when it
\* changes ("Don't forget to flush", paging.c:87 and syscall.c:428).
TlbFresh == tlb \in {None, con.pte}
=============================================================================
