------------------------------- MODULE Screen -------------------------------
(***************************************************************************)
(* The three virtual screens: switch_screen, update_cursor (lib.c),        *)
(* terminal_switch and schedule (scheduler.c), keyboard_handler            *)
(* (x86_inter.c), copy_term_vmem and change_vidmap (paging.c), and         *)
(* syscall_vidmap (syscall.c).                                             *)
(*                                                                         *)
(* There is one set of globals for drawing (the cursor, terminal_x,        *)
(* video_mem, cursor_change) and one page of video memory on the monitor.  *)
(* A terminal that does not run keeps its cursor in terminal_ctx, one that *)
(* is not shown keeps its text in a page of its own, and the interrupt     *)
(* handlers swap all of it.  The handlers run with interrupts disabled, a  *)
(* system call does not.                                                   *)
(***************************************************************************)
EXTENDS Text

CONSTANTS TERMINAL_COUNT,
          Lines,          \* the sequences of strokes a call or a key draws
          VidmapUsers,    \* terminals with a program that calls vidmap
          MAX_LINE        \* bound: terminal_x

Terms == 0 .. TERMINAL_COUNT - 1

ASSUME TermAssumption == TERMINAL_COUNT \in Nat /\ TERMINAL_COUNT > 1
ASSUME VidmapAssumption == VidmapUsers \subseteq Terms
ASSUME BoundAssumption == MAX_LINE \in Nat

VIDEO == -1               \* the page on the monitor; page t backs terminal t
None == -2                \* no page
Pages == Terms \cup {VIDEO}

VARIABLES
    con,              \* the console: the globals and the pages, see Consoles
    terminal_active,
    started,          \* terminals with a base process
    tlb,              \* the page the TLB translates the vidmap address to
    vidmap            \* terminal -> how far its program is in syscall_vidmap

vars == <<con, terminal_active, started, tlb, vidmap>>

Regs == [x : Int, y : Int, tx : Nat]

Consoles == [shown         : Terms,
             regs          : Regs,             \* screen_x, screen_y, terminal_x
             ctx           : [Terms -> Regs],  \* the same, saved in terminal_ctx
             video_mem     : Pages,
             cursor_change : BOOLEAN,
             cursor        : Int,              \* the cursor on the monitor
             page          : [Pages -> [Cells -> Glyphs]],
             pte           : Pages \cup {None}]

Start == [x |-> 0, y |-> 0, tx |-> 0]

Init == /\ con = [shown |-> 0, regs |-> Start, ctx |-> [t \in Terms |-> Start],
                  video_mem |-> VIDEO, cursor_change |-> FALSE, cursor |-> 0,
                  page |-> [p \in Pages |-> EmptyCells], pte |-> None]
        /\ terminal_active = TERMINAL_COUNT - 1
        /\ started = {}
        /\ tlb = None
        /\ vidmap = [t \in Terms |-> "none"]

-----------------------------------------------------------------------------
(***************************************************************************)
(* The functions the handlers call, from console to console.               *)
(***************************************************************************)
Home(k, t) == IF k.shown = t THEN VIDEO ELSE t

UpdateCursor(k) == IF k.cursor_change
                   THEN [k EXCEPT !.cursor = NUM_COLS * k.regs.y + k.regs.x]
                   ELSE k

SwitchScreen(k, old, cur) ==
    LET saved == [k.ctx EXCEPT ![old] = k.regs]
    IN  [k EXCEPT !.ctx = saved,
                  !.regs = saved[cur],
                  !.video_mem = Home(k, cur),
                  !.cursor_change = (k.shown = cur)]

OnScreen(k) == [x |-> k.regs.x, y |-> k.regs.y, tx |-> k.regs.tx,
                cell |-> k.page[k.video_mem]]

Redrawn(k, s) == UpdateCursor([k EXCEPT !.regs = [x |-> s.x, y |-> s.y, tx |-> s.tx],
                                        !.page[k.video_mem] = s.cell])

Drawn(k, cs) == Redrawn(k, DrawAll(OnScreen(k), cs))

CopyTermVmem(k, from, to) == [k EXCEPT !.page[to] = k.page[from]]

ChangeVidmap(k, active) == [k EXCEPT !.pte = Home(k, active)]

TerminalSwitch_CopyOrder(k, new, active) ==
    IF new = k.shown THEN k
    ELSE LET copied == CopyTermVmem(CopyTermVmem(k, new, VIDEO), VIDEO, k.shown)
         IN  ChangeVidmap(UpdateCursor(SwitchScreen([copied EXCEPT !.shown = new],
                                                    k.shown, new)), active)

TerminalSwitch_NoCursor(k, new, active) ==
    IF new = k.shown THEN k
    ELSE LET copied == CopyTermVmem(CopyTermVmem(k, VIDEO, k.shown), new, VIDEO)
         IN  ChangeVidmap(SwitchScreen([copied EXCEPT !.shown = new], k.shown, new), active)

TerminalSwitch(k, new, active) ==
    IF new = k.shown THEN k
    ELSE LET copied == CopyTermVmem(CopyTermVmem(k, VIDEO, k.shown), new, VIDEO)
         IN  ChangeVidmap(UpdateCursor(SwitchScreen([copied EXCEPT !.shown = new],
                                                    k.shown, new)), active)

-----------------------------------------------------------------------------
(***************************************************************************)
(* Interrupts.                                                             *)
(***************************************************************************)
NextTerm == (terminal_active + 1) % TERMINAL_COUNT

Switched_OldVidmap ==
    SwitchScreen(ChangeVidmap(con, terminal_active), terminal_active, NextTerm)

\* change_vidmap reads terminal_active, which schedule has already advanced.
Switched == SwitchScreen(ChangeVidmap(con, NextTerm), terminal_active, NextTerm)

Started == Redrawn(Switched, Clear(OnScreen(Switched)))

Tick == /\ terminal_active' = NextTerm
        /\ con' = IF NextTerm \in started THEN Switched ELSE Started
        /\ started' = started \cup {NextTerm}
        /\ tlb' = None
        /\ UNCHANGED vidmap

KeyboardHandler_NoReturn(new, cs) ==
    LET into     == SwitchScreen(con, terminal_active, con.shown)
        switched == TerminalSwitch(into, new, terminal_active)
        typed    == IF cs = << >> THEN switched ELSE Drawn(switched, cs)
    IN  /\ typed.regs.tx <= MAX_LINE
        /\ con' = IF cs = << >> THEN typed
                  ELSE SwitchScreen(typed, typed.shown, terminal_active)
        /\ UNCHANGED <<terminal_active, started, tlb, vidmap>>

\* The line cs is what the key types or erases; Alt+F_n changes the terminal first.
KeyboardHandler(new, cs) ==
    LET into     == SwitchScreen(con, terminal_active, con.shown)
        switched == TerminalSwitch(into, new, terminal_active)
        typed    == IF cs = << >> THEN switched ELSE Drawn(switched, cs)
    IN  /\ typed.regs.tx <= MAX_LINE
        /\ con' = SwitchScreen(typed, typed.shown, terminal_active)
        /\ UNCHANGED <<terminal_active, started, tlb, vidmap>>

Key == \E cs \in Lines \cup {<< >>} : KeyboardHandler(con.shown, cs)

AltKey == \E new \in Terms, cs \in Lines \cup {<< >>} :
             /\ new # con.shown
             /\ KeyboardHandler(new, cs)

-----------------------------------------------------------------------------
(***************************************************************************)
(* The running program.                                                    *)
(***************************************************************************)
AtUser == vidmap[terminal_active] \in {"none", "mapped"}

\* putc, printf and clear; the kernel's own messages before the first shell.
Putc == /\ AtUser
         /\ \E cs \in Lines : /\ con' = Drawn(con, cs)
                              /\ con'.regs.tx <= MAX_LINE
         /\ UNCHANGED <<terminal_active, started, tlb, vidmap>>

\* The end of terminal_write.
EndWrite == /\ AtUser
            /\ terminal_active \in started
            /\ con' = [con EXCEPT !.regs = [x |-> @.x, y |-> @.y, tx |-> 0]]
            /\ UNCHANGED <<terminal_active, started, tlb, vidmap>>

\* change_vidmap, called by syscall_vidmap with interrupts enabled: it compares
\* terminal_active with terminal_shown, and then writes the page table entry.
VidmapChecks ==
    /\ AtUser
    /\ terminal_active \in started \cap VidmapUsers
    /\ vidmap' = [vidmap EXCEPT ![terminal_active] =
                     IF terminal_active = con.shown THEN "on_screen" ELSE "in_back"]
    /\ UNCHANGED <<con, terminal_active, started, tlb>>

VidmapMaps ==
    /\ vidmap[terminal_active] \in {"on_screen", "in_back"}
    /\ con' = [con EXCEPT !.pte = IF vidmap[terminal_active] = "on_screen"
                                  THEN VIDEO ELSE terminal_active]
    /\ vidmap' = [vidmap EXCEPT ![terminal_active] = "mapped"]
    /\ tlb' = None
    /\ UNCHANGED <<terminal_active, started>>

\* The page a store to the vidmap address reaches.
Translated == IF tlb = None THEN con.pte ELSE tlb

UserStore == /\ vidmap[terminal_active] = "mapped"
             /\ \E i \in Cells, g \in Glyphs :
                   con' = [con EXCEPT !.page[Translated][i] = g]
             /\ tlb' = Translated
             /\ UNCHANGED <<terminal_active, started, vidmap>>

\* The processor may drop a translation at any time.
TlbEvicts == /\ tlb # None
             /\ tlb' = None
             /\ UNCHANGED <<con, terminal_active, started, vidmap>>

Next == \/ Tick \/ Key \/ AltKey
        \/ Putc \/ EndWrite
        \/ VidmapChecks \/ VidmapMaps \/ UserStore \/ TlbEvicts

Spec == Init /\ [][Next]_vars
=============================================================================
