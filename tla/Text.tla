-------------------------------- MODULE Text --------------------------------
(***************************************************************************)
(* Text mode (lib.c): what putc, scroll_up and clear do to one screen, a   *)
(* record of the cursor (screen_x, screen_y), of terminal_x, the length of *)
(* the line typed so far, and of the characters in video memory.  putc and *)
(* clear run with interrupts disabled.                                     *)
(***************************************************************************)
EXTENDS Integers, Sequences

CONSTANTS NUM_COLS, NUM_ROWS,
          Letters         \* the characters that show

ASSUME SizeAssumption == NUM_COLS \in Nat \ {0} /\ NUM_ROWS \in Nat \ {0}

Blank == "blank"          \* ' ' and 0 look the same
Glyphs == Letters \cup {Blank}
Cells == 0 .. NUM_ROWS * NUM_COLS - 1

EmptyCells == [i \in Cells |-> Blank]
EmptyScreen == [x |-> 0, y |-> 0, tx |-> 0, cell |-> EmptyCells]

Screens == [x : Int, y : Int, tx : Nat, cell : [Cells -> Glyphs]]

At(s) == NUM_COLS * s.y + s.x

\* A store outside the screen hits other memory.
Stored(s, g) ==
    [s EXCEPT !.cell = [i \in Cells |-> IF i = At(s) THEN g ELSE s.cell[i]]]

Scrolled(s) ==
    [s EXCEPT !.cell = [i \in Cells |-> IF i + NUM_COLS \in Cells
                                        THEN s.cell[i + NUM_COLS] ELSE Blank]]

NextRow(s) == IF s.y + 1 = NUM_ROWS THEN [Scrolled(s) EXCEPT !.x = 0]
                                    ELSE [s EXCEPT !.x = 0, !.y = @ + 1]

NewLine(s) == [NextRow(s) EXCEPT !.tx = 0]

Erase(s) == IF s.x = 0
            THEN Stored([s EXCEPT !.x = NUM_COLS - 1, !.y = @ - 1, !.tx = @ - 1], Blank)
            ELSE Stored([s EXCEPT !.x = @ - 1, !.tx = @ - 1], Blank)

Backspace(s) == IF s.tx = 0 THEN s ELSE Erase(s)

Glyph(s, g) == LET p == [Stored(s, g) EXCEPT !.x = @ + 1, !.tx = @ + 1]
               IN  IF p.x = NUM_COLS THEN NextRow(p) ELSE p

Clear(s) == [s EXCEPT !.x = 0, !.y = 0, !.cell = EmptyCells]

\* A stroke is a character (tabs are echoed as blanks), a new line, a backspace or
\* a call of clear.
Draw(s, c) ==
    CASE c = "newline"   -> NewLine(s)
      [] c = "backspace" -> Backspace(s)
      [] c = "clear"     -> Clear(s)
      [] OTHER           -> Glyph(s, c)

DrawAll(s, cs) ==
    LET drawn[n \in 0 .. Len(cs)] == IF n = 0 THEN s ELSE Draw(drawn[n - 1], cs[n])
        last == drawn[Len(cs)]
    IN  [s EXCEPT !.x = last.x, !.y = last.y, !.tx = last.tx, !.cell = last.cell]
=============================================================================
