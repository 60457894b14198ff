------------------------------ MODULE Terminal ------------------------------
(***************************************************************************)
(* The line buffer and command history of one terminal: the keys           *)
(* (keyboard_handler and the functions of kboard.c), and terminal_read and *)
(* terminal_write (terminal.c).                                            *)
(*                                                                         *)
(* Keys are interrupts: they come at any point of what the program does.   *)
(* terminal_read clears the buffer, polls enter_flag with interrupts       *)
(* enabled, and copies and clears the buffer with interrupts disabled.     *)
(* Screen shows that the terminals do not disturb each other, so one is    *)
(* enough here.                                                            *)
(***************************************************************************)
EXTENDS Text, FiniteSets

CONSTANTS BUF_SIZE, SAVED_COMMANDS_SIZE,
          Keys,        \* the keys that are pressed
          MAX_LETTERS, \* bound: how many of them are letters of one line
          Prints,      \* what programs print
          MAX_PRINTED, \* bound: how many characters they print before a newline
          ReadSizes,   \* how many bytes programs ask for
          Patient,     \* does the user wait after Enter until the line is read?
          ErasesTabs   \* does the user erase tabs?

ASSUME BufAssumption == BUF_SIZE \in Nat /\ BUF_SIZE > 1
ASSUME FitsAssumption == /\ MAX_PRINTED \in Nat
                         /\ BUF_SIZE + MAX_PRINTED <= (NUM_ROWS - 1) * NUM_COLS
ASSUME SavedAssumption == SAVED_COMMANDS_SIZE \in Nat \ {0}
ASSUME SizesAssumption == ReadSizes \subseteq Nat \ {0}
ASSUME UserAssumption == Patient \in BOOLEAN /\ ErasesTabs \in BOOLEAN
ASSUME PrintsAssumption == Prints \subseteq Letters \cup {"newline"}
ASSUME LettersAssumption ==
    Letters \cap {"nul", "space", "newline", "backspace", "enter", "clear", "blank"} = {}

Nul == "nul"
Space == "space"
Tab == "tab"        \* as a glyph, what putc draws for '\t'
NL == "newline"
Bytes == Letters \cup {Nul, Space, Tab, NL}

VARIABLES
    term,      \* the terminal, see Terminals
    program,   \* "running", or "reading": in terminal_read
    result     \* what the last terminal_read returned

vars == <<term, program, result>>

Idx == 0 .. BUF_SIZE - 1
Saved == 0 .. SAVED_COMMANDS_SIZE - 1
Buffers == [Idx -> Bytes]
EmptyBuffer == [i \in Idx |-> Nul]

Terminals == [keyboard_buf   : Buffers,
              buf_idx        : 0 .. BUF_SIZE,
              enter_flag     : BOOLEAN,
              saved_commands : [Saved -> [command : Buffers, history : BOOLEAN]],
              curr           : Saved,       \* curr_scommands_idx
              top            : Saved,       \* top_scommands_idx
              scr            : Screens]

Init == /\ term = [keyboard_buf   |-> EmptyBuffer,
                   buf_idx        |-> 0,
                   enter_flag     |-> FALSE,
                   saved_commands |-> [i \in Saved |-> [command |-> EmptyBuffer,
                                                        history |-> FALSE]],
                   curr           |-> 0,
                   top            |-> 0,
                   scr            |-> EmptyScreen]
        /\ program = "running"
        /\ result = << >>

-----------------------------------------------------------------------------
(***************************************************************************)
(* The functions the handler calls, from terminal to terminal.             *)
(***************************************************************************)
Put(t, i, b) == [t EXCEPT !.keyboard_buf = [j \in Idx |-> IF j = i THEN b ELSE @[j]]]

Echo(t, cs) == [t EXCEPT !.scr = DrawAll(@, cs)]

GlyphOf(b) == IF b = Space THEN Blank ELSE b

Type(t, b) == Echo([Put(t, t.buf_idx, b) EXCEPT !.buf_idx = @ + 1], <<GlyphOf(b)>>)

Erased(t, n) == Echo(t, [i \in 1 .. n |-> "backspace"])

\* clear_keyboard_buf and clear_keyboard_buf_scommand.
ClearBuf(t) ==
    [Erased(t, Cardinality({i \in Idx : t.keyboard_buf[i] # Nul}))
        EXCEPT !.keyboard_buf = EmptyBuffer, !.buf_idx = 0]

\* A tab takes four bytes.  Three are erased; the first of its spaces stays at buf_idx.
BackspacePressed(t) ==
    LET i == t.buf_idx - 1
    IN  IF t.buf_idx = 0 THEN t
        ELSE IF t.keyboard_buf[i] = Tab
             THEN [Put(Put(Put(Erased(t, 3), i, Nul), i - 1, Nul), i - 2, Nul)
                      EXCEPT !.buf_idx = i - 3]
             ELSE [Put(t, i, Nul) EXCEPT !.buf_idx = i]

AddTab_OffByOne(t) ==
    IF t.buf_idx + 3 >= BUF_SIZE - 1 THEN t
    ELSE Echo([Put(Type(Type(Type(t, Space), Space), Space), t.buf_idx + 3, Tab)
                  EXCEPT !.buf_idx = t.buf_idx + 4], <<Blank>>)

AddTab(t) ==
    IF t.buf_idx + 4 >= BUF_SIZE - 1 THEN t
    ELSE Echo([Put(Type(Type(Type(t, Space), Space), Space), t.buf_idx + 3, Tab)
                  EXCEPT !.buf_idx = t.buf_idx + 4], <<Blank>>)

SaveCommand_Swapped(t) ==
    IF t.buf_idx = 0 THEN t
    ELSE LET next == (t.top + 1) % SAVED_COMMANDS_SIZE
         IN  [t EXCEPT !.saved_commands[t.top] = [command |-> t.keyboard_buf, history |-> TRUE],
                       !.saved_commands[t.curr].history = FALSE,
                       !.top = next, !.curr = next]

\* The command that was recalled gives up its place to the one entered.
SaveCommand(t) ==
    IF t.buf_idx = 0 THEN t
    ELSE LET next == (t.top + 1) % SAVED_COMMANDS_SIZE
         IN  [t EXCEPT !.saved_commands[t.curr].history = FALSE,
                       !.saved_commands[t.top] = [command |-> t.keyboard_buf, history |-> TRUE],
                       !.top = next, !.curr = next]

AddEnter(t) == IF t.enter_flag THEN t
               ELSE [Type(SaveCommand(t), NL) EXCEPT !.enter_flag = TRUE]

AddToBuffer(t, key) ==
    CASE key = "tab"       -> AddTab(t)
      [] key = "backspace" -> Echo(t, <<"backspace">>)
      [] key = "enter"     -> AddEnter(t)
      [] OTHER             -> Type(t, key)

Overflows(t) == t.buf_idx >= BUF_SIZE - 1

\* check_buffer_overflow: in a full buffer only Enter does anything.
FullBuffer(t, key) ==
    IF key = "enter"
    THEN Echo([Put(t, BUF_SIZE - 1, NL) EXCEPT !.enter_flag = TRUE], <<NL>>)
    ELSE t

Printable(t, key) ==
    LET u == IF key = "backspace" THEN BackspacePressed(t) ELSE t
    IN  IF Overflows(u) THEN FullBuffer(u, key) ELSE AddToBuffer(u, key)

-----------------------------------------------------------------------------
(***************************************************************************)
(* The command history: type_command.                                      *)
(***************************************************************************)
\* What is in the buffer replaces the command that is being viewed.
Kept(t) == [t EXCEPT !.saved_commands[t.curr].command = t.keyboard_buf]

Viewable(t, i) == t.saved_commands[i].history

Down(i, k) == (i + k) % SAVED_COMMANDS_SIZE
Up(i, k) == (i + SAVED_COMMANDS_SIZE - k) % SAVED_COMMANDS_SIZE

\* The bytes of a saved command up to the first null.
Length(b, max) == CHOOSE n \in 0 .. max : /\ n = max \/ b[n] = Nul
                                          /\ \A i \in 0 .. n - 1 : b[i] # Nul

TypeSaved_NoEcho(t) ==
    LET command == t.saved_commands[t.curr].command
    IN  [t EXCEPT !.keyboard_buf = command, !.buf_idx = Length(command, BUF_SIZE)]

\* The bytes are typed into the buffer that ClearBuf has emptied.
TypeSaved(t) ==
    LET command == t.saved_commands[t.curr].command
        n       == Length(command, BUF_SIZE)
    IN  Echo([t EXCEPT !.keyboard_buf = [i \in Idx |-> IF i < n THEN command[i] ELSE @[i]],
                       !.buf_idx = n],
             [i \in 1 .. n |-> GlyphOf(command[i - 1])])

\* Up looks back for a viewable command, once around.
TypeCommandUp(t) ==
    LET u     == ClearBuf(Kept(t))
        found == {k \in 1 .. SAVED_COMMANDS_SIZE : Viewable(u, Up(t.curr, k))}
    IN  IF found = {} THEN [u EXCEPT !.curr = Up(t.curr, 1)]
        ELSE LET k == CHOOSE k \in found : \A j \in found : k <= j
             IN  TypeSaved([u EXCEPT !.curr = Up(t.curr, k)])

\* Down looks ahead, and stops without a command at top, except that it does not
\* notice top in the last slot of the array: the index wraps before the test.
Stops(t, i) == i = t.top /\ i # SAVED_COMMANDS_SIZE - 1

TypeCommandDown(t) ==
    LET u    == ClearBuf(Kept(t))
        next == Down(t.curr, 1)
        ends == {k \in 1 .. SAVED_COMMANDS_SIZE :
                    LET i == Down(t.curr, k) IN Viewable(u, i) \/ Stops(u, i)}
        k    == CHOOSE k \in ends : \A j \in ends : k <= j
        d    == [u EXCEPT !.curr = Down(t.curr, k)]
    IN  IF t.curr = t.top THEN Kept(t)
        ELSE IF ends = {}     \* once around and one more, already wrapped
             THEN [u EXCEPT !.curr = IF next = SAVED_COMMANDS_SIZE - 1 THEN -1 ELSE next]
        ELSE IF Viewable(u, d.curr) THEN TypeSaved(d) ELSE d

-----------------------------------------------------------------------------
(***************************************************************************)
(* Keyboard interrupts.                                                    *)
(***************************************************************************)
Press(key, after) == /\ key \in Keys
                     /\ Patient => ~term.enter_flag
                     /\ term' = after
                     /\ UNCHANGED <<program, result>>

LettersOnLine(t) == Cardinality({i \in Idx : t.keyboard_buf[i] \in Letters \ {Tab}})

LetterKey == \E c \in Letters \ {Tab} : /\ LettersOnLine(term) < MAX_LETTERS
                                        /\ Press(c, Printable(term, c))
TabKey == Press("tab", Printable(term, "tab"))
BackspaceKey ==
    /\ Press("backspace", Printable(term, "backspace"))
    /\ ErasesTabs \/ term.buf_idx = 0 \/ term.keyboard_buf[term.buf_idx - 1] # Tab
EnterKey == Press("enter", Printable(term, "enter"))
CtrlL == Press("ctrl_l", Echo(term, <<"clear">>))
UpKey == Press("up", TypeCommandUp(term))
DownKey == Press("down", TypeCommandDown(term))

-----------------------------------------------------------------------------
(***************************************************************************)
(* The program.                                                            *)
(***************************************************************************)
\* One putc of terminal_write, and its end.
Putc == /\ program = "running"
        /\ \E c \in Prints : term' = Echo(term, <<c>>)
        /\ term'.scr.tx <= MAX_PRINTED
        /\ UNCHANGED <<program, result>>

EndWrite == /\ program = "running"
            /\ term' = [term EXCEPT !.scr.tx = 0]
            /\ UNCHANGED <<program, result>>

ReadStarts == /\ program = "running"
              /\ term' = ClearBuf(term)
              /\ program' = "reading"
              /\ result' = << >>

ReadReturns ==
    /\ program = "reading"
    /\ term.enter_flag
    /\ \E n \in ReadSizes :
          LET max == IF n > BUF_SIZE THEN BUF_SIZE ELSE n
          IN  result' = [i \in 1 .. Length(term.keyboard_buf, max) |-> term.keyboard_buf[i - 1]]
    /\ term' = [ClearBuf(term) EXCEPT !.enter_flag = FALSE]
    /\ program' = "running"

Next == \/ LetterKey \/ TabKey \/ BackspaceKey \/ EnterKey
        \/ CtrlL \/ UpKey \/ DownKey
        \/ Putc \/ EndWrite \/ ReadStarts \/ ReadReturns

Spec == Init /\ [][Next]_vars
=============================================================================
