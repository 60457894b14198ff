--------------------------- MODULE TerminalProps ---------------------------
(***************************************************************************)
(* What must be true of a terminal's line, history and display.            *)
(***************************************************************************)
EXTENDS Terminal, Sequences, SequencesExt

Buf(i) == term.keyboard_buf[i]

\* Type invariant; it bounds every index into the line buffer and the history.
TypeOK == /\ term \in Terminals
          /\ program \in {"running", "reading"}
          /\ result \in Seq(Bytes) /\ Len(result) <= BUF_SIZE

\* Until Enter, the line is the bytes before buf_idx: none of them is null and a tab
\* has its three spaces; nothing follows but spaces left by erased tabs.
LineIntact ==
    ~term.enter_flag =>
        /\ \A i \in 0 .. term.buf_idx - 1 :
              /\ Buf(i) # Nul
              /\ Buf(i) = Tab => i >= 3 /\ \A j \in i - 3 .. i - 1 : Buf(j) = Space
        /\ \A i \in Idx : i >= term.buf_idx => Buf(i) \in {Nul, Space}

Shows(g, b) == g = GlyphOf(b) \/ (b = Tab /\ g = Blank)

\* While a program reads and nothing has been entered, what stands before the cursor
\* is what the program will get: keys, tabs, erasures and recalled commands change
\* the buffer and the screen alike.
DisplayMatches ==
    program = "reading" /\ ~term.enter_flag =>
        \A k \in 1 .. term.buf_idx :
            At(term.scr) - k >= 0 =>
                Shows(term.scr.cell[At(term.scr) - k], Buf(term.buf_idx - k))

\* Erasing never moves the cursor off the screen ("check for bounds", lib.c:229).
CursorOnScreen == At(term.scr) \in Cells /\ term.scr.x \in 0 .. NUM_COLS - 1

\* Once something was entered, Up on a new line finds the last command entered.
LatestIsViewable ==
    (\E i \in Saved : Viewable(term, i)) => Viewable(term, Up(term.top, 1))

ToTop(t) == (t.top + SAVED_COMMANDS_SIZE - t.curr) % SAVED_COMMANDS_SIZE

\* Down comes nearer to the line being typed, and stops there ("Return in case we
\* hit top scommand", kboard.c:444).
DownMovesForward ==
    [][DownKey /\ term.curr # term.top => ToTop(term') < ToTop(term)]_vars

\* A read waits until the user has pressed Enter, so it returns at least that
\* ("wait to see if user has pressed enter", terminal.c:117).
ReadWaits == [][ReadReturns => result' # << >>]_vars

\* What a read returns is a line, up to Enter ("should read input from user after
\* pressing enter", terminal.h:36).
ReadIsALine == [][ReadReturns /\ result' # << >> =>
                      /\ result'[Len(result')] = NL
                      /\ \A i \in 1 .. Len(result') - 1 : result'[i] # NL]_vars

-----------------------------------------------------------------------------
(***************************************************************************)
(* The buffer as a line, and what the history holds.                       *)
(***************************************************************************)
LineOf(b, n) == [k \in 1 .. n |-> b[k - 1]]

LineLength == LET n == term.buf_idx
              IN  IF n > 0 /\ Buf(n - 1) = NL THEN n - 1 ELSE n

CommandOf(b) == LineOf(b, Length(b, BUF_SIZE))

Entered == IF ~term.enter_flag THEN "no"
           ELSE IF \E i \in Idx : Buf(i) = NL THEN "yes" ELSE "early"

LE == INSTANCE LineEditor WITH Letters  <- Letters \ {Tab},
                               CAPACITY <- BUF_SIZE,
                               line     <- LineOf(term.keyboard_buf, LineLength),
                               entered  <- Entered,
                               stored   <- {CommandOf(term.saved_commands[i].command) : i \in Saved}

\* Keys, overflow, tabs, the history and reads implement the line editor: a read returns
\* the line entered, and Up and Down bring back nothing that was not typed.
EditsLines == LE!Spec
=============================================================================
