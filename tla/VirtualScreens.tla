--------------------------- MODULE VirtualScreens ---------------------------
(***************************************************************************)
(* What the terminals promise: every terminal has a screen of its own.     *)
(* The program that runs draws on its terminal's screen, the keyboard on   *)
(* the screen of the terminal that is shown, whichever program runs, and   *)
(* Alt+F_n changes only which screen is shown.                             *)
(***************************************************************************)
EXTENDS Text

CONSTANTS TERMINAL_COUNT,
          Lines           \* the sequences of strokes that are drawn at once

Terms == 0 .. TERMINAL_COUNT - 1

VARIABLES screen,   \* terminal -> its screen
          shown,    \* the terminal on the monitor
          active,   \* the terminal whose program runs
          started   \* the terminals that have a shell

vars == <<screen, shown, active, started>>

Init == /\ screen = [t \in Terms |-> EmptyScreen]
        /\ shown = 0
        /\ active = TERMINAL_COUNT - 1
        /\ started = {}

NextTerm == (active + 1) % TERMINAL_COUNT

\* The next terminal's turn.
Resume == /\ NextTerm \in started
          /\ active' = NextTerm
          /\ UNCHANGED <<screen, shown, started>>

\* Its first turn: its shell starts on an empty screen, its line in whatever column.
Start == /\ NextTerm \notin started
         /\ active' = NextTerm
         /\ started' = started \cup {NextTerm}
         /\ screen' = [screen EXCEPT ![NextTerm] =
                          [EmptyScreen EXCEPT !.tx = screen'[NextTerm].tx]]
         /\ UNCHANGED shown

\* The running program draws, or starts a new line of input.
Putc == /\ active \in started
         /\ \/ \E cs \in Lines : screen' = [screen EXCEPT ![active] = DrawAll(@, cs)]
            \/ screen' = [screen EXCEPT ![active].tx = 0]
         /\ UNCHANGED <<shown, active, started>>

\* It stores a character into the page that vidmap gave it.
Store == /\ active \in started
         /\ \E i \in Cells, g \in Glyphs :
               screen' = [screen EXCEPT ![active].cell[i] = g]
         /\ UNCHANGED <<shown, active, started>>

\* The user types, and may change the terminal shown with the same key.
Type == /\ shown' \in Terms
        /\ \/ screen' = screen
           \/ /\ shown' \in started
              /\ \E cs \in Lines : screen' = [screen EXCEPT ![shown'] = DrawAll(@, cs)]
        /\ UNCHANGED <<active, started>>

Next == Resume \/ Start \/ Putc \/ Store \/ Type

Spec == Init /\ [][Next]_vars
=============================================================================
