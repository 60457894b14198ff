---------------------------- MODULE ScreenProofs ----------------------------
(***************************************************************************)
(* Proofs about Screen, for any number of terminals, any screen size and   *)
(* anything drawn: DrawsHome, CursorOfShown, NeverAnothersPage, and that   *)
(* every step of Screen but a store gone astray is one of VirtualScreens.  *)
(*                                                                         *)
(* The argument: each function from console to console is described by     *)
(* what it does to the screens of the terminals (ScreenOf), and a handler  *)
(* is a composition of these descriptions.                                 *)
(***************************************************************************)
EXTENDS ScreenRefine, TLAPS

Fields == {"shown", "regs", "ctx", "video_mem", "cursor_change", "cursor", "page", "pte"}

\* The shape of a console; what the cursors and pages hold does not matter here.
IsConsole(k) == /\ DOMAIN k = Fields
                /\ DOMAIN k.ctx = Terms
                /\ DOMAIN k.page = Pages
                /\ k.shown \in Terms
                /\ k.video_mem \in Pages

\* The globals are those of terminal a.
DrawsFor(k, a) == /\ k.video_mem = Home(k, a)
                  /\ k.cursor_change = (k.shown = a)

Position(r) == NUM_COLS * r.y + r.x
CursorAt(k, a) == k.cursor = Position(RegsOf(k, a, k.shown))

-----------------------------------------------------------------------------
(***************************************************************************)
(* The functions from console to console.                                  *)
(***************************************************************************)
\* Console s, with the globals of cur, shows what k showed with those of old.
SwitchedFrom(k, old, s, cur) ==
    /\ IsConsole(s) /\ DrawsFor(s, cur)
    /\ s.shown = k.shown /\ s.pte = k.pte /\ s.cursor = k.cursor
    /\ \A t \in Terms : /\ RegsOf(s, cur, t) = RegsOf(k, old, t)
                        /\ ScreenOf(s, cur, t) = ScreenOf(k, old, t)

\* switch_screen changes no terminal's screen, and leaves the globals of cur.
LEMMA SwitchScreenKeeps ==
    ASSUME NEW k, IsConsole(k), NEW old \in Terms, NEW cur \in Terms
    PROVE  SwitchedFrom(k, old, SwitchScreen(k, old, cur), cur)
<1> DEFINE s == SwitchScreen(k, old, cur)
<1>1. /\ IsConsole(s) /\ DrawsFor(s, cur)
      /\ s.shown = k.shown /\ s.pte = k.pte /\ s.cursor = k.cursor /\ s.page = k.page
  BY DEF IsConsole, SwitchScreen, Fields, DrawsFor, Home, Pages
<1>2. ASSUME NEW t \in Terms PROVE RegsOf(s, cur, t) = RegsOf(k, old, t)
  BY DEF IsConsole, SwitchScreen, Fields, RegsOf
<1>3. ASSUME NEW t \in Terms PROVE ScreenOf(s, cur, t) = ScreenOf(k, old, t)
  <2>1. Home(s, t) = Home(k, t)
    BY <1>1 DEF Home
  <2>. QED BY <1>1, <1>2, <2>1 DEF ScreenOf
<1>. QED BY <1>1, <1>2, <1>3 DEF SwitchedFrom

\* Console d shows s on the screen of terminal a, and otherwise what k showed.
RedrawnFrom(k, a, d, s) ==
    /\ IsConsole(d) /\ CursorAt(d, a)
    /\ d.shown = k.shown /\ d.pte = k.pte /\ d.video_mem = k.video_mem
    /\ d.cursor_change = k.cursor_change
    /\ k.video_mem = Home(k, a) =>
          /\ ScreenOf(d, a, a) = [x |-> s.x, y |-> s.y, tx |-> s.tx, cell |-> s.cell]
          /\ \A t \in Terms \ {a} : ScreenOf(d, a, t) = ScreenOf(k, a, t)

\* Drawing with the globals of terminal a changes the screen of a alone.
LEMMA RedrawnDraws ==
    ASSUME NEW k, IsConsole(k), NEW a \in Terms, NEW s,
           k.cursor_change = (k.shown = a), CursorAt(k, a)
    PROVE  RedrawnFrom(k, a, Redrawn(k, s), s)
<1> DEFINE e == [k EXCEPT !.regs = [x |-> s.x, y |-> s.y, tx |-> s.tx],
                          !.page[k.video_mem] = s.cell]
           d == Redrawn(k, s)
<1>1. /\ IsConsole(e) /\ e.shown = k.shown /\ e.pte = k.pte
      /\ e.video_mem = k.video_mem /\ e.cursor_change = k.cursor_change
      /\ e.ctx = k.ctx /\ e.cursor = k.cursor
      /\ e.regs = [x |-> s.x, y |-> s.y, tx |-> s.tx]
      /\ e.page = [k.page EXCEPT ![k.video_mem] = s.cell]
  BY DEF IsConsole, Fields
<1> HIDE DEF e
<1>2. d = IF e.cursor_change THEN [e EXCEPT !.cursor = Position(e.regs)] ELSE e
  BY DEF Redrawn, UpdateCursor, Position, e
<1> HIDE DEF d
<1>3. /\ IsConsole(d) /\ d.shown = e.shown /\ d.pte = e.pte
      /\ d.video_mem = e.video_mem /\ d.cursor_change = e.cursor_change
      /\ d.ctx = e.ctx /\ d.regs = e.regs /\ d.page = e.page
      /\ d.cursor = IF e.cursor_change THEN Position(e.regs) ELSE e.cursor
  BY <1>1, <1>2 DEF IsConsole, Fields
<1>4. CursorAt(d, a)
  BY <1>1, <1>3 DEF CursorAt, RegsOf
<1>5. ASSUME k.video_mem = Home(k, a)
      PROVE  ScreenOf(d, a, a) = [x |-> s.x, y |-> s.y, tx |-> s.tx, cell |-> s.cell]
  BY <1>1, <1>3, <1>5 DEF ScreenOf, RegsOf, Home, IsConsole
<1>6. ASSUME k.video_mem = Home(k, a), NEW t \in Terms \ {a}
      PROVE  ScreenOf(d, a, t) = ScreenOf(k, a, t)
  <2>1. Home(k, t) # Home(k, a) /\ Home(d, t) = Home(k, t)
    BY <1>1, <1>3, TermAssumption DEF Home, Terms, VIDEO
  <2>2. Home(k, t) \in Pages
    BY DEF Home, Pages
  <2>3. d.page[Home(d, t)] = k.page[Home(k, t)]
    BY <1>1, <1>3, <1>6, <2>1, <2>2 DEF IsConsole
  <2>. QED BY <1>1, <1>3, <2>3 DEF ScreenOf, RegsOf
<1>. QED BY <1>1, <1>3, <1>4, <1>5, <1>6 DEF d, RedrawnFrom

\* The copies of terminal_switch exchange the roles of the pages: the text of
\* every terminal is found where it belongs once new is shown.
LEMMA CopiesKeep ==
    ASSUME NEW k, IsConsole(k), NEW new \in Terms, new # k.shown
    PROVE  LET c == CopyTermVmem(CopyTermVmem(k, VIDEO, k.shown), new, VIDEO)
               m == [c EXCEPT !.shown = new]
           IN  /\ IsConsole(m) /\ m.shown = new
               /\ \A t \in Terms : ScreenOf(m, k.shown, t) = ScreenOf(k, k.shown, t)
<1> DEFINE b == CopyTermVmem(k, VIDEO, k.shown)
           c == CopyTermVmem(b, new, VIDEO)
           m == [c EXCEPT !.shown = new]
<1>1. VIDEO \in Pages /\ new \in Pages /\ k.shown \in Pages /\ VIDEO \notin Terms
  BY TermAssumption DEF Pages, Terms, VIDEO, IsConsole
<1>2. /\ IsConsole(b) /\ b.shown = k.shown /\ b.regs = k.regs /\ b.ctx = k.ctx
      /\ b.page = [k.page EXCEPT ![k.shown] = k.page[VIDEO]]
  BY DEF CopyTermVmem, IsConsole, Fields
<1> HIDE DEF b
<1>3. /\ IsConsole(c) /\ c.regs = b.regs /\ c.ctx = b.ctx
      /\ c.page = [b.page EXCEPT ![VIDEO] = b.page[new]]
  BY <1>2 DEF CopyTermVmem, IsConsole, Fields
<1> HIDE DEF c
<1>4. /\ IsConsole(m) /\ m.shown = new /\ m.regs = k.regs /\ m.ctx = k.ctx
      /\ m.page = c.page
  BY <1>2, <1>3 DEF IsConsole, Fields
<1> HIDE DEF m
<1>5. ASSUME NEW t \in Terms
      PROVE  m.page[Home(m, t)] = k.page[Home(k, t)]
  <2>0. t \in Pages
    BY DEF Pages
  <2>1. CASE t = new
    BY <1>1, <1>2, <1>3, <1>4, <2>1 DEF Home, IsConsole
  <2>2. CASE t = k.shown
    BY <1>1, <1>2, <1>3, <1>4, <2>2 DEF Home, IsConsole
  <2>3. CASE t # new /\ t # k.shown
    BY <1>1, <1>2, <1>3, <1>4, <2>0, <2>3 DEF Home, IsConsole
  <2>. QED BY <2>1, <2>2, <2>3
<1>6. ASSUME NEW t \in Terms
      PROVE  ScreenOf(m, k.shown, t) = ScreenOf(k, k.shown, t)
  BY <1>4, <1>5 DEF ScreenOf, RegsOf
<1>. QED BY <1>4, <1>6 DEF m, c, b

\* terminal_switch shows another terminal and changes no terminal's screen.
LEMMA TerminalSwitchShows ==
    ASSUME NEW k, IsConsole(k), DrawsFor(k, k.shown), CursorAt(k, k.shown),
           NEW new \in Terms, NEW act \in Terms,
           NEW s, s = TerminalSwitch(k, new, act)
    PROVE  /\ IsConsole(s) /\ s.shown = new
           /\ DrawsFor(s, new) /\ CursorAt(s, new)
           /\ s.pte = k.pte \/ s.pte = Home(s, act)
           /\ \A t \in Terms : ScreenOf(s, new, t) = ScreenOf(k, k.shown, t)
<1>1. CASE new = k.shown
  BY <1>1 DEF TerminalSwitch
<1>2. CASE new # k.shown
  <2> DEFINE c == CopyTermVmem(CopyTermVmem(k, VIDEO, k.shown), new, VIDEO)
             m == [c EXCEPT !.shown = new]
             w == SwitchScreen(m, k.shown, new)
             u == UpdateCursor(w)
  <2>1. /\ IsConsole(m) /\ m.shown = new
        /\ \A t \in Terms : ScreenOf(m, k.shown, t) = ScreenOf(k, k.shown, t)
    BY <1>2, CopiesKeep
  <2> HIDE DEF m
  <2>2. /\ IsConsole(w) /\ DrawsFor(w, new) /\ w.shown = new
        /\ \A t \in Terms : ScreenOf(w, new, t) = ScreenOf(m, k.shown, t)
    <3>1. k.shown \in Terms
      BY DEF IsConsole
    <3>2. SwitchedFrom(m, k.shown, w, new)
      BY <2>1, <3>1, SwitchScreenKeeps
    <3>. QED BY <2>1, <3>2 DEF SwitchedFrom
  <2> HIDE DEF w
  <2>3. s = ChangeVidmap(u, act)
    BY <1>2 DEF TerminalSwitch, m, w
  <2>4. /\ IsConsole(s) /\ s.shown = new /\ s.pte = Home(u, act) /\ u.shown = new
        /\ s.regs = w.regs /\ s.ctx = w.ctx /\ s.page = w.page
        /\ s.video_mem = w.video_mem /\ s.cursor_change = w.cursor_change
        /\ s.cursor = Position(w.regs)
    BY <2>2, <2>3 DEF UpdateCursor, ChangeVidmap, IsConsole, Fields, DrawsFor, Position
  <2>5. DrawsFor(s, new) /\ CursorAt(s, new) /\ s.pte = Home(s, act)
    BY <2>2, <2>4 DEF DrawsFor, CursorAt, RegsOf, Home
  <2>6. ASSUME NEW t \in Terms PROVE ScreenOf(s, new, t) = ScreenOf(w, new, t)
    BY <2>2, <2>4 DEF ScreenOf, RegsOf, Home
  <2>. QED BY <2>1, <2>2, <2>4, <2>5, <2>6
<1>. QED BY <1>1, <1>2

\* What is drawn on a screen is a screen.
LEMMA DrawAllIsScreen ==
    ASSUME NEW k, NEW cs, NEW s, s = DrawAll(OnScreen(k), cs)
    PROVE  s = [x |-> s.x, y |-> s.y, tx |-> s.tx, cell |-> s.cell]
<1>1. \E last : s = [OnScreen(k) EXCEPT !.x = last.x, !.y = last.y,
                                        !.tx = last.tx, !.cell = last.cell]
  BY Zenon DEF DrawAll
<1>. QED BY <1>1 DEF OnScreen

\* Console s shows terminal new, with the line cs drawn on its screen, and otherwise
\* what k showed, and the globals are those of terminal a in both.
TypedFrom(k, a, s, new, cs) ==
    /\ IsConsole(s) /\ s.shown = new
    /\ DrawsFor(s, a) /\ CursorAt(s, a)
    /\ s.pte = k.pte \/ s.pte = Home(s, a)
    /\ \A t \in Terms \ {new} : ScreenOf(s, a, t) = ScreenOf(k, a, t)
    /\ ScreenOf(s, a, new) = IF cs = << >> THEN ScreenOf(k, a, new)
                             ELSE DrawAll(ScreenOf(k, a, new), cs)

\* What a key draws lands on the terminal that is shown, and when the handler
\* returns the globals are the running program's again.
LEMMA HandlerTypes ==
    ASSUME NEW k, IsConsole(k), NEW a \in Terms, CursorAt(k, a),
           NEW new \in Terms, NEW cs,
           NEW into, into = SwitchScreen(k, a, k.shown),
           NEW switched, switched = TerminalSwitch(into, new, a),
           NEW typed, typed = IF cs = << >> THEN switched ELSE Drawn(switched, cs),
           NEW s, s = SwitchScreen(typed, typed.shown, a)
    PROVE  TypedFrom(k, a, s, new, cs)
<1>0. k.shown \in Terms
  BY DEF IsConsole
<1>1. /\ IsConsole(into) /\ DrawsFor(into, k.shown) /\ into.shown = k.shown
      /\ into.pte = k.pte /\ into.cursor = k.cursor
      /\ \A t \in Terms : /\ RegsOf(into, k.shown, t) = RegsOf(k, a, t)
                          /\ ScreenOf(into, k.shown, t) = ScreenOf(k, a, t)
  <2>1. SwitchedFrom(k, a, into, k.shown)
    BY <1>0, SwitchScreenKeeps
  <2>. QED BY <2>1 DEF SwitchedFrom
<1>2. CursorAt(into, into.shown)
  BY <1>0, <1>1 DEF CursorAt
<1>3. /\ IsConsole(switched) /\ switched.shown = new
      /\ DrawsFor(switched, new) /\ CursorAt(switched, new)
      /\ switched.pte = into.pte \/ switched.pte = Home(switched, a)
      /\ \A t \in Terms : ScreenOf(switched, new, t) = ScreenOf(into, into.shown, t)
  BY <1>1, <1>2, TerminalSwitchShows
<1>4. OnScreen(switched) = ScreenOf(switched, new, new)
  BY <1>3 DEF OnScreen, ScreenOf, RegsOf, DrawsFor
<1>5. DrawAll(OnScreen(switched), cs) =
         [x |-> DrawAll(OnScreen(switched), cs).x, y |-> DrawAll(OnScreen(switched), cs).y,
          tx |-> DrawAll(OnScreen(switched), cs).tx,
          cell |-> DrawAll(OnScreen(switched), cs).cell]
  BY DrawAllIsScreen
<1>6. /\ IsConsole(typed) /\ typed.shown = new /\ CursorAt(typed, new)
      /\ typed.pte = switched.pte
      /\ \A t \in Terms \ {new} : ScreenOf(typed, new, t) = ScreenOf(switched, new, t)
      /\ ScreenOf(typed, new, new) = IF cs = << >> THEN ScreenOf(switched, new, new)
                                     ELSE DrawAll(ScreenOf(switched, new, new), cs)
  <2>1. CASE cs = << >>
    BY <1>3, <2>1
  <2>2. CASE cs # << >>
    <3>1. typed = Redrawn(switched, DrawAll(OnScreen(switched), cs))
      BY <2>2 DEF Drawn
    <3>2. switched.video_mem = Home(switched, new) /\ switched.cursor_change = (switched.shown = new)
      BY <1>3 DEF DrawsFor
    <3>3. RedrawnFrom(switched, new, typed, DrawAll(OnScreen(switched), cs))
      BY <1>3, <3>1, <3>2, RedrawnDraws
    <3>. QED BY <1>3, <1>4, <1>5, <2>2, <3>2, <3>3 DEF RedrawnFrom
  <2>. QED BY <2>1, <2>2
<1>7. /\ IsConsole(s) /\ DrawsFor(s, a) /\ s.shown = new /\ s.pte = typed.pte
      /\ s.cursor = typed.cursor
      /\ \A t \in Terms : /\ RegsOf(s, a, t) = RegsOf(typed, new, t)
                          /\ ScreenOf(s, a, t) = ScreenOf(typed, new, t)
  <2>1. SwitchedFrom(typed, new, s, a)
    BY <1>6, SwitchScreenKeeps
  <2>. QED BY <1>6, <2>1 DEF SwitchedFrom
<1>8. CursorAt(s, a)
  BY <1>6, <1>7 DEF CursorAt
<1>9. s.pte = k.pte \/ s.pte = Home(s, a)
  BY <1>1, <1>3, <1>6, <1>7 DEF Home
<1>10. \A t \in Terms \ {new} : ScreenOf(s, a, t) = ScreenOf(k, a, t)
  BY <1>1, <1>3, <1>6, <1>7
<1>11. ScreenOf(s, a, new) = IF cs = << >> THEN ScreenOf(k, a, new)
                             ELSE DrawAll(ScreenOf(k, a, new), cs)
  BY <1>1, <1>3, <1>6, <1>7
<1>. QED BY <1>7, <1>8, <1>9, <1>10, <1>11 DEF TypedFrom

-----------------------------------------------------------------------------
(***************************************************************************)
(* The inductive invariant.  Before the first shell the kernel draws       *)
(* wherever video_mem was last left; afterwards the running terminal is    *)
(* one that has a shell, and the globals are its own.                      *)
(***************************************************************************)
Running == /\ terminal_active \in started
           /\ con.video_mem = Home(con, terminal_active)
           /\ con.pte \in {VIDEO, terminal_active}

IInv == /\ IsConsole(con)
        /\ terminal_active \in Terms
        /\ started \subseteq Terms
        /\ con.cursor_change = (con.shown = terminal_active)
        /\ CursorAt(con, terminal_active)
        /\ started = {} \/ Running
        /\ vidmap \in [Terms -> {"none", "on_screen", "in_back", "mapped"}]
        /\ started = {} => \A t \in Terms : vidmap[t] = "none"
        /\ tlb \in {None, VIDEO, terminal_active}

LEMMA NextTermInTerms == ASSUME terminal_active \in Terms PROVE NextTerm \in Terms
BY TermAssumption DEF Terms, NextTerm

\* What one slice of the scheduler does to the console.
LEMMA SwitchedShows ==
    ASSUME IInv
    PROVE  /\ IsConsole(Switched) /\ DrawsFor(Switched, NextTerm)
           /\ Switched.shown = con.shown /\ Switched.pte = Home(con, NextTerm)
           /\ CursorAt(Switched, NextTerm)
           /\ \A t \in Terms : ScreenOf(Switched, NextTerm, t)
                               = ScreenOf(con, terminal_active, t)
<1> DEFINE c == ChangeVidmap(con, NextTerm)
<1>1. /\ IsConsole(c) /\ c.shown = con.shown /\ c.regs = con.regs /\ c.ctx = con.ctx
      /\ c.page = con.page /\ c.cursor = con.cursor /\ c.pte = Home(con, NextTerm)
  BY DEF IInv, ChangeVidmap, IsConsole, Fields
<1> HIDE DEF c
<1>2. SwitchedFrom(c, terminal_active, Switched, NextTerm)
  <2>1. Switched = SwitchScreen(c, terminal_active, NextTerm)
    BY DEF Switched, c
  <2>. QED BY <1>1, <2>1, NextTermInTerms, SwitchScreenKeeps DEF IInv
<1>3. con.shown \in Terms
  BY DEF IInv, IsConsole
<1>4. \A t \in Terms : /\ RegsOf(c, terminal_active, t) = RegsOf(con, terminal_active, t)
                      /\ ScreenOf(c, terminal_active, t) = ScreenOf(con, terminal_active, t)
  BY <1>1 DEF ScreenOf, RegsOf, Home
<1>5. CursorAt(Switched, NextTerm)
  BY <1>1, <1>2, <1>3, <1>4 DEF SwitchedFrom, CursorAt, IInv
<1>. QED BY <1>1, <1>2, <1>4, <1>5 DEF SwitchedFrom

LEMMA StartedShows ==
    ASSUME IInv
    PROVE  /\ IsConsole(Started) /\ DrawsFor(Started, NextTerm)
           /\ Started.shown = con.shown /\ Started.pte = Home(con, NextTerm)
           /\ CursorAt(Started, NextTerm)
           /\ \A t \in Terms \ {NextTerm} : ScreenOf(Started, NextTerm, t)
                                           = ScreenOf(con, terminal_active, t)
           /\ ScreenOf(Started, NextTerm, NextTerm) =
                 [EmptyScreen EXCEPT !.tx = ScreenOf(Started, NextTerm, NextTerm).tx]
<1> DEFINE s == Clear(OnScreen(Switched))
<1>1. RedrawnFrom(Switched, NextTerm, Started, s)
  <2>1. /\ IsConsole(Switched) /\ Switched.cursor_change = (Switched.shown = NextTerm)
        /\ CursorAt(Switched, NextTerm) /\ Started = Redrawn(Switched, s)
    BY SwitchedShows DEF DrawsFor, Started
  <2>. QED BY <2>1, NextTermInTerms, RedrawnDraws DEF IInv
<1>2. s.x = 0 /\ s.y = 0 /\ s.cell = EmptyCells
  BY DEF Clear, OnScreen
<1> HIDE DEF s
<1>3. Switched.video_mem = Home(Switched, NextTerm)
  BY SwitchedShows DEF DrawsFor
<1>4. ScreenOf(Started, NextTerm, NextTerm)
         = [x |-> 0, y |-> 0, tx |-> s.tx, cell |-> EmptyCells]
  BY <1>1, <1>2, <1>3 DEF RedrawnFrom
<1>5. ScreenOf(Started, NextTerm, NextTerm) =
         [EmptyScreen EXCEPT !.tx = ScreenOf(Started, NextTerm, NextTerm).tx]
  BY <1>4 DEF EmptyScreen
<1>6. DrawsFor(Started, NextTerm)
  BY <1>1, SwitchedShows DEF RedrawnFrom, DrawsFor, Home
<1>. QED BY <1>1, <1>3, <1>5, <1>6, SwitchedShows DEF RedrawnFrom

LEMMA InitIInv == Init => IInv
<1> SUFFICES ASSUME Init PROVE IInv
  OBVIOUS
<1>1. 0 \in Terms /\ TERMINAL_COUNT - 1 \in Terms /\ TERMINAL_COUNT - 1 # 0
  BY TermAssumption DEF Terms
<1>2. IsConsole(con)
  BY <1>1 DEF Init, IsConsole, Fields, Pages
<1>3. con.cursor_change = (con.shown = terminal_active)
  BY <1>1 DEF Init
<1>4. CursorAt(con, terminal_active)
  BY <1>1, SizeAssumption DEF Init, CursorAt, RegsOf, Position, Start
<1>. QED BY <1>1, <1>2, <1>3, <1>4 DEF Init, IInv

LEMMA TickIInv == IInv /\ Tick => IInv'
<1> SUFFICES ASSUME IInv, Tick PROVE IInv'
  OBVIOUS
<1>1. /\ IsConsole(con') /\ DrawsFor(con', NextTerm)
      /\ con'.pte = Home(con, NextTerm) /\ CursorAt(con', NextTerm)
  <2>1. CASE NextTerm \in started
    BY <2>1, SwitchedShows DEF Tick
  <2>2. CASE NextTerm \notin started
    BY <2>2, StartedShows DEF Tick
  <2>. QED BY <2>1, <2>2
<1>2. NextTerm \in Terms
  BY NextTermInTerms DEF IInv
<1>3. /\ terminal_active' = NextTerm /\ started' = started \cup {NextTerm}
      /\ vidmap' = vidmap /\ tlb' = None
  BY DEF Tick
<1>4. Running'
  BY <1>1, <1>3 DEF Running, DrawsFor, Home
<1>. QED BY <1>1, <1>2, <1>3, <1>4 DEF IInv, DrawsFor

\* What a key does to the invariant, and to the screens.
LEMMA KeyShows ==
    ASSUME IInv, NEW new \in Terms, NEW cs, KeyboardHandler(new, cs)
    PROVE  TypedFrom(con, terminal_active, con', new, cs)
BY HandlerTypes DEF KeyboardHandler, IInv

LEMMA KeyIInv ==
    ASSUME IInv, NEW new \in Terms, NEW cs, KeyboardHandler(new, cs)
    PROVE  IInv'
<1>1. /\ IsConsole(con') /\ DrawsFor(con', terminal_active)
      /\ CursorAt(con', terminal_active)
      /\ con'.pte = con.pte \/ con'.pte = Home(con', terminal_active)
  BY KeyShows DEF TypedFrom
<1>2. UNCHANGED <<terminal_active, started, tlb, vidmap>>
  BY DEF KeyboardHandler
<1>3. Running => Running'
  BY <1>1, <1>2 DEF Running, DrawsFor, Home
<1>. QED BY <1>1, <1>2, <1>3 DEF IInv, DrawsFor

\* What printing does to the invariant, and to the screens.
LEMMA PrintShows ==
    ASSUME IInv, NEW cs, con' = Drawn(con, cs)
    PROVE  RedrawnFrom(con, terminal_active, con', DrawAll(OnScreen(con), cs))
BY RedrawnDraws DEF IInv, Drawn

LEMMA PrintIInv == IInv /\ Putc => IInv'
<1> SUFFICES ASSUME IInv, Putc PROVE IInv'
  OBVIOUS
<1>1. PICK cs \in Lines : con' = Drawn(con, cs)
  BY DEF Putc
<1>2. /\ IsConsole(con') /\ CursorAt(con', terminal_active)
      /\ con'.shown = con.shown /\ con'.pte = con.pte
      /\ con'.video_mem = con.video_mem /\ con'.cursor_change = con.cursor_change
  BY <1>1, PrintShows DEF RedrawnFrom
<1>3. UNCHANGED <<terminal_active, started, tlb, vidmap>>
  BY DEF Putc
<1>. QED BY <1>2, <1>3 DEF IInv, Running, Home

LEMMA EndWriteIInv == IInv /\ EndWrite => IInv'
<1> SUFFICES ASSUME IInv, EndWrite PROVE IInv'
  OBVIOUS
<1>1. /\ IsConsole(con') /\ con'.shown = con.shown /\ con'.pte = con.pte
      /\ con'.video_mem = con.video_mem /\ con'.cursor_change = con.cursor_change
      /\ con'.cursor = con.cursor /\ con'.ctx = con.ctx
      /\ con'.regs = [x |-> con.regs.x, y |-> con.regs.y, tx |-> 0]
  BY DEF EndWrite, IInv, IsConsole, Fields
<1>2. UNCHANGED <<terminal_active, started, tlb, vidmap>>
  BY DEF EndWrite
<1>3. CursorAt(con', terminal_active)
  BY <1>1 DEF IInv, CursorAt, RegsOf, Position
<1>. QED BY <1>1, <1>2, <1>3 DEF IInv, Running, Home

LEMMA VidmapChecksIInv == IInv /\ VidmapChecks => IInv'
<1> SUFFICES ASSUME IInv, VidmapChecks PROVE IInv'
  OBVIOUS
<1>1. /\ UNCHANGED <<con, terminal_active, started, tlb>> /\ started # {}
      /\ vidmap' \in [Terms -> {"none", "on_screen", "in_back", "mapped"}]
  BY DEF VidmapChecks, IInv
<1>. QED BY <1>1 DEF IInv, Running

LEMMA VidmapMapsIInv == IInv /\ VidmapMaps => IInv'
<1> SUFFICES ASSUME IInv, VidmapMaps PROVE IInv'
  OBVIOUS
<1>1. started # {}
  BY DEF VidmapMaps, IInv
<1>2. /\ IsConsole(con') /\ con'.shown = con.shown /\ con'.pte \in {VIDEO, terminal_active}
      /\ con'.video_mem = con.video_mem /\ con'.cursor_change = con.cursor_change
      /\ con'.cursor = con.cursor /\ con'.ctx = con.ctx /\ con'.regs = con.regs
  BY DEF VidmapMaps, IInv, IsConsole, Fields
<1>3. /\ UNCHANGED <<terminal_active, started>> /\ tlb' = None
      /\ vidmap' \in [Terms -> {"none", "on_screen", "in_back", "mapped"}]
  BY DEF VidmapMaps, IInv
<1>. QED BY <1>1, <1>2, <1>3 DEF IInv, Running, Home, CursorAt, RegsOf

LEMMA UserStoreIInv == IInv /\ UserStore => IInv'
<1> SUFFICES ASSUME IInv, UserStore PROVE IInv'
  OBVIOUS
<1>1. started # {}
  BY DEF UserStore, IInv
<1>2. PICK i \in Cells, g \in Glyphs : con' = [con EXCEPT !.page[Translated][i] = g]
  BY DEF UserStore
<1>3. /\ IsConsole(con') /\ con'.shown = con.shown /\ con'.pte = con.pte
      /\ con'.video_mem = con.video_mem /\ con'.cursor_change = con.cursor_change
      /\ con'.cursor = con.cursor /\ con'.ctx = con.ctx /\ con'.regs = con.regs
  BY <1>2 DEF IInv, IsConsole, Fields
<1>4. UNCHANGED <<terminal_active, started, vidmap>> /\ tlb' = Translated
  BY DEF UserStore
<1>5. Translated \in {VIDEO, terminal_active}
  BY <1>1 DEF Translated, IInv, Running
<1>. QED BY <1>1, <1>3, <1>4, <1>5 DEF IInv, Running, Home, CursorAt, RegsOf

LEMMA NextIInv == IInv /\ [Next]_vars => IInv'
<1> SUFFICES ASSUME IInv, [Next]_vars PROVE IInv'
  OBVIOUS
<1>1. CASE Tick
  BY <1>1, TickIInv
<1>2. CASE Key
  <2>1. con.shown \in Terms
    BY DEF IInv, IsConsole
  <2>. QED BY <1>2, <2>1, KeyIInv DEF Key
<1>3. CASE AltKey
  BY <1>3, KeyIInv DEF AltKey
<1>4. CASE Putc
  BY <1>4, PrintIInv
<1>5. CASE EndWrite
  BY <1>5, EndWriteIInv
<1>6. CASE VidmapChecks
  BY <1>6, VidmapChecksIInv
<1>7. CASE VidmapMaps
  BY <1>7, VidmapMapsIInv
<1>8. CASE UserStore
  BY <1>8, UserStoreIInv
<1>9. CASE TlbEvicts
  BY <1>9 DEF TlbEvicts, IInv, Running
<1>10. CASE UNCHANGED vars
  BY <1>10 DEF vars, IInv, Running
<1>. QED BY <1>1, <1>2, <1>3, <1>4, <1>5, <1>6, <1>7, <1>8, <1>9, <1>10 DEF Next

LEMMA Invariance == Spec => []IInv
BY InitIInv, NextIInv, PTL DEF Spec

-----------------------------------------------------------------------------
(***************************************************************************)
(* The theorems.                                                           *)
(***************************************************************************)
\* Whatever terminals are switched to, typed into and scheduled, in whatever order,
\* a program finds the drawing globals to be its own terminal's.
THEOREM GlobalsHome == Spec => []DrawsHome
<1>1. IInv => DrawsHome
  BY DEF IInv, Running, DrawsHome
<1>. QED BY <1>1, Invariance, PTL

\* The cursor on the monitor is the shown terminal's.
THEOREM CursorKept == Spec => []CursorOfShown
<1>1. IInv => CursorOfShown
  BY DEF IInv, CursorAt, Position, CursorOfShown
<1>. QED BY <1>1, Invariance, PTL

\* A store through vidmap never reaches a page that backs another terminal, even
\* when the page table entry or the TLB is out of date.
THEOREM PagesKept == Spec => []NeverAnothersPage
<1>1. IInv => NeverAnothersPage
  <2> SUFFICES ASSUME IInv, vidmap[terminal_active] = "mapped"
               PROVE  Translated \in {VIDEO, terminal_active}
    BY DEF NeverAnothersPage
  <2>1. started # {}
    BY DEF IInv
  <2>. QED BY <2>1 DEF IInv, Running, Translated
<1>. QED BY <1>1, Invariance, PTL

-----------------------------------------------------------------------------
(***************************************************************************)
(* Refinement.  The views of the console are what VirtualScreens says,     *)
(* step by step.                                                           *)
(***************************************************************************)
LEMMA SameScreens ==
    /\ VS!EmptyScreen = EmptyScreen
    /\ \A s, cs : VS!DrawAll(s, cs) = DrawAll(s, cs)
BY DEF VS!EmptyScreen, EmptyScreen, VS!EmptyCells, EmptyCells, VS!Cells, Cells,
       VS!Blank, Blank, VS!DrawAll, DrawAll, VS!Draw, Draw, VS!NewLine, NewLine,
       VS!NextRow, NextRow, VS!Scrolled, Scrolled, VS!Backspace, Backspace,
       VS!Erase, Erase, VS!Stored, Stored, VS!At, At, VS!Clear, Clear,
       VS!Glyph, Glyph

LEMMA InitRefines == Init => VS!Init
<1> SUFFICES ASSUME Init PROVE VS!Init
  OBVIOUS
<1>1. \A t \in Terms : View(t) = VS!EmptyScreen
  BY SameScreens DEF Init, View
<1>. QED BY <1>1 DEF Init, VS!Init, VS!Terms, Terms

LEMMA TickRefines == ASSUME IInv, Tick PROVE VS!Resume \/ VS!Start
<1>1. /\ terminal_active' = NextTerm /\ started' = started \cup {NextTerm}
      /\ NextTerm = VS!NextTerm
  BY DEF Tick, NextTerm, VS!NextTerm
<1>2. NextTerm \in Terms
  BY NextTermInTerms DEF IInv
<1>3. CASE NextTerm \in started
  <2>1. con' = Switched /\ started' = started
    BY <1>1, <1>3 DEF Tick
  <2>2. \A t \in Terms : View(t)' = View(t)
    BY <1>1, <2>1, SwitchedShows DEF View
  <2>3. con'.shown = con.shown
    BY <2>1, SwitchedShows
  <2>. QED BY <1>1, <1>3, <2>1, <2>2, <2>3 DEF VS!Resume
<1>4. CASE NextTerm \notin started
  <2>1. con' = Started
    BY <1>4 DEF Tick
  <2>2. PICK n \in Terms : n = NextTerm
    BY <1>2
  <2>3. \A t \in Terms \ {n} : View(t)' = View(t)
    BY <1>1, <2>1, <2>2, StartedShows DEF View
  <2>4. n \in started'
    BY <1>1, <2>2
  <2>5. View(n)' = ScreenOf(Started, n, n)
    BY <1>1, <2>1, <2>2, <2>4 DEF View
  <2>6. View(n)' = [EmptyScreen EXCEPT !.tx = View(n)'.tx]
    BY <2>2, <2>5, StartedShows
  <2>7. con'.shown = con.shown
    BY <2>1, StartedShows
  <2>8. [t \in Terms |-> View(t)]' =
           [[t \in Terms |-> View(t)] EXCEPT ![n] =
               [VS!EmptyScreen EXCEPT !.tx = [t \in Terms |-> View(t)]'[n].tx]]
    BY <2>3, <2>6, SameScreens
  <2>. QED BY <1>1, <1>4, <2>2, <2>7, <2>8 DEF VS!Start
<1>. QED BY <1>3, <1>4

LEMMA KeyRefines ==
    ASSUME IInv, NEW new \in Terms, NEW cs \in Lines \cup {<< >>},
           KeyboardHandler(new, cs)
    PROVE  VS!Type
<1>1. TypedFrom(con, terminal_active, con', new, cs)
  BY KeyShows
<1>2. UNCHANGED <<terminal_active, started>> /\ con'.shown = new
  BY <1>1 DEF KeyboardHandler, TypedFrom
<1>3. \A t \in Terms \ {new} : View(t)' = View(t)
  BY <1>1, <1>2 DEF TypedFrom, View
<1>4. CASE new \notin started \/ cs = << >>
  <2>1. \A t \in Terms : View(t)' = View(t)
    BY <1>1, <1>2, <1>3, <1>4 DEF TypedFrom, View
  <2>. QED BY <1>2, <2>1 DEF VS!Type, VS!Terms, Terms
<1>5. CASE new \in started /\ cs # << >>
  <2>1. cs \in Lines
    BY <1>5
  <2>2. View(new)' = VS!DrawAll(View(new), cs)
    BY <1>1, <1>2, <1>5, SameScreens DEF TypedFrom, View
  <2>3. [t \in Terms |-> View(t)]' =
           [[t \in Terms |-> View(t)] EXCEPT ![new] = VS!DrawAll(@, cs)]
    BY <1>3, <2>2
  <2>4. new \in VS!Terms
    BY DEF VS!Terms, Terms
  <2>5. /\ con'.shown \in started
        /\ [t \in Terms |-> View(t)]' =
             [[t \in Terms |-> View(t)] EXCEPT ![con'.shown] = VS!DrawAll(@, cs)]
    BY <1>2, <1>5, <2>3
  <2>. QED BY <1>2, <2>1, <2>4, <2>5 DEF VS!Type
<1>. QED BY <1>4, <1>5

LEMMA PrintRefines ==
    ASSUME IInv, Putc \/ EndWrite
    PROVE  VS!Putc \/ UNCHANGED VS!vars
<1>1. UNCHANGED <<terminal_active, started>>
  BY DEF Putc, EndWrite
<1>2. con.shown = con'.shown /\ IsConsole(con')
  <2>1. CASE Putc
    BY <2>1, PrintShows DEF Putc, RedrawnFrom
  <2>2. CASE EndWrite
    BY <2>2 DEF EndWrite, IInv, IsConsole, Fields
  <2>. QED BY <2>1, <2>2
<1>3. CASE started = {}
  <2>1. \A t \in Terms : View(t)' = View(t)
    BY <1>1, <1>3 DEF View
  <2>. QED BY <1>1, <1>2, <2>1 DEF VS!vars
<1>4. CASE terminal_active \in started /\ con.video_mem = Home(con, terminal_active)
  <2>0. PICK a \in Terms : a = terminal_active
    BY DEF IInv
  <2>1. CASE Putc
    <3>1. PICK cs \in Lines : con' = Drawn(con, cs)
      BY <2>1 DEF Putc
    <3> DEFINE d == DrawAll(OnScreen(con), cs)
    <3>2. RedrawnFrom(con, a, con', d)
      BY <2>0, <3>1, PrintShows
    <3>3. OnScreen(con) = ScreenOf(con, a, a)
      BY <1>4, <2>0 DEF OnScreen, ScreenOf, RegsOf
    <3>4. d = [x |-> d.x, y |-> d.y, tx |-> d.tx, cell |-> d.cell]
      BY DrawAllIsScreen
    <3>6. d = VS!DrawAll(View(a), cs)
      BY <1>4, <2>0, <3>3, SameScreens DEF View
    <3> HIDE DEF d
    <3>5. View(a)' = d
      BY <1>1, <1>4, <2>0, <3>2, <3>4 DEF View, RedrawnFrom
    <3>7. \A t \in Terms \ {a} : View(t)' = View(t)
      BY <1>1, <1>4, <2>0, <3>2 DEF View, RedrawnFrom
    <3>8. [t \in Terms |-> View(t)]' =
             [[t \in Terms |-> View(t)] EXCEPT ![a] = VS!DrawAll(@, cs)]
      BY <2>0, <3>5, <3>6, <3>7
    <3>. QED BY <1>1, <1>2, <1>4, <2>0, <3>8 DEF VS!Putc
  <2>2. CASE EndWrite
    <3>1. /\ con'.ctx = con.ctx /\ con'.page = con.page
          /\ con'.regs = [x |-> con.regs.x, y |-> con.regs.y, tx |-> 0]
      BY <2>2 DEF EndWrite, IInv, IsConsole, Fields
    <3>2. View(a)' = [View(a) EXCEPT !.tx = 0]
      BY <1>1, <1>2, <1>4, <2>0, <3>1 DEF View, ScreenOf, RegsOf, Home
    <3>3. \A t \in Terms \ {a} : View(t)' = View(t)
      BY <1>1, <1>2, <2>0, <3>1 DEF View, ScreenOf, RegsOf, Home
    <3>4. [t \in Terms |-> View(t)]' = [[t \in Terms |-> View(t)] EXCEPT ![a].tx = 0]
      BY <2>0, <3>2, <3>3
    <3>. QED BY <1>1, <1>2, <1>4, <2>0, <3>4 DEF VS!Putc
  <2>. QED BY <2>1, <2>2
<1>. QED BY <1>3, <1>4 DEF IInv, Running

\* A store that does not go astray is one on the running terminal's own screen.
LEMMA StoreRefines == ASSUME IInv, UserStore, ~Astray PROVE VS!Store
<1>0. PICK a \in Terms : a = terminal_active
  BY DEF IInv
<1>1. UNCHANGED <<terminal_active, started>> /\ a \in started
      /\ Translated = Home(con, a)
  BY <1>0 DEF UserStore, Astray, IInv, Running
<1>2. PICK i \in Cells, g \in Glyphs : con' = [con EXCEPT !.page[Home(con, a)][i] = g]
  BY <1>1 DEF UserStore
<1>3. Home(con, a) \in Pages
  BY DEF Home, Pages
<1>4. /\ con'.shown = con.shown /\ con'.regs = con.regs /\ con'.ctx = con.ctx
      /\ con'.page = [con.page EXCEPT ![Home(con, a)][i] = g]
  BY <1>2 DEF IInv, IsConsole, Fields
<1>5. View(a)' = [View(a) EXCEPT !.cell[i] = g]
  BY <1>0, <1>1, <1>3, <1>4 DEF View, ScreenOf, RegsOf, Home, IInv, IsConsole
<1>6. ASSUME NEW t \in Terms \ {a} PROVE View(t)' = View(t)
  <2>1. Home(con, t) # Home(con, a) /\ Home(con, t) \in Pages
    BY TermAssumption DEF Home, Terms, VIDEO, Pages
  <2>2. con'.page[Home(con, t)] = con.page[Home(con, t)]
    BY <1>3, <1>4, <2>1 DEF IInv, IsConsole
  <2>. QED BY <1>1, <1>4, <2>2 DEF View, ScreenOf, RegsOf, Home
<1>7. [t \in Terms |-> View(t)]' = [[t \in Terms |-> View(t)] EXCEPT ![a].cell[i] = g]
  BY <1>0, <1>5, <1>6
<1>8. i \in VS!Cells /\ g \in VS!Glyphs
  BY DEF Cells, VS!Cells, Glyphs, VS!Glyphs, Blank, VS!Blank
<1>. QED BY <1>0, <1>1, <1>4, <1>7, <1>8 DEF VS!Store

LEMMA StepRefines ==
    ASSUME IInv, [Next]_vars
    PROVE  [VS!Next \/ (UserStore /\ Astray)]_(VS!vars)
<1>1. CASE Tick
  BY <1>1, TickRefines DEF VS!Next
<1>2. CASE Key
  <2>1. con.shown \in Terms
    BY DEF IInv, IsConsole
  <2>. QED BY <1>2, <2>1, KeyRefines DEF Key, VS!Next
<1>3. CASE AltKey
  BY <1>3, KeyRefines DEF AltKey, VS!Next
<1>4. CASE Putc \/ EndWrite
  BY <1>4, PrintRefines DEF VS!Next
<1>5. CASE UserStore
  BY <1>5, StoreRefines DEF VS!Next
<1>6. CASE VidmapMaps
  <2>1. /\ UNCHANGED <<terminal_active, started>> /\ con'.shown = con.shown
        /\ con'.regs = con.regs /\ con'.ctx = con.ctx /\ con'.page = con.page
    BY <1>6 DEF VidmapMaps, IInv, IsConsole, Fields
  <2>2. \A t \in Terms : View(t)' = View(t)
    BY <2>1 DEF View, ScreenOf, RegsOf, Home
  <2>. QED BY <2>1, <2>2 DEF VS!vars
<1>7. CASE UNCHANGED <<con, terminal_active, started>>
  BY <1>7 DEF VS!vars, View
<1>. QED BY <1>1, <1>2, <1>3, <1>4, <1>5, <1>6, <1>7
         DEF Next, vars, VidmapChecks, TlbEvicts

\* The globals, the pages and the handlers that swap and copy them give every
\* terminal a screen of its own, up to the stores of programs whose vidmap page is
\* out of date.
THEOREM ScreensImplemented == Spec => OwnScreens
<1>1. IInv /\ [Next]_vars => [VS!Next \/ (UserStore /\ Astray)]_(VS!vars)
  BY StepRefines
<1>. QED BY <1>1, InitRefines, Invariance, PTL DEF Spec, OwnScreens
=============================================================================
