------------------------------ MODULE Commands ------------------------------
(***************************************************************************)
(* From the line that is typed to the argument that the program gets: the  *)
(* shell's buffer as terminal_read fills it, the parsing of the command by *)
(* execute, the arguments kept in the PCBs, and getargs, in one terminal.  *)
(***************************************************************************)
EXTENDS Integers, Sequences, FiniteSets

CONSTANTS BUF_SIZE, MAX_FILE_NAME_LENGTH,
          Letters,      \* the characters of names and arguments
          Programs,     \* the names of the executables
          TypedLines,   \* what may be typed before Enter
          ArgSizes,     \* what programs pass getargs as nbytes
          MAX_DEPTH     \* of programs executed by programs

SPACE == " "
TAB == "tab"
NEWLINE == "newline"
NUL == "nul"
Chars == Letters \cup {SPACE, TAB, NEWLINE, NUL}
Strings == Seq(Chars \ {NUL})

\* Names are much shorter than lines (32 and 128 characters): the first name of a line
\* ends, with the character after it, inside the buffer.
ASSUME SizeAssumption == /\ BUF_SIZE \in Nat \ {0}
                         /\ MAX_FILE_NAME_LENGTH \in 1 .. BUF_SIZE - 3
                         /\ MAX_DEPTH \in Nat \ {0}
ASSUME LetterAssumption == Letters \cap {SPACE, TAB, NEWLINE, NUL} = {}
\* check_buffer_overflow leaves room for Enter and for nothing else: a full line has its
\* newline in the last byte, and no end of string.
ASSUME LineAssumption ==
    \A line \in TypedLines : line \in Seq(Letters \cup {SPACE}) /\ Len(line) <= BUF_SIZE - 1

VARIABLES procs,    \* the programs, each waiting for the next: [line, buf, name, args]
          answer    \* what getargs returned to the last one, or NoAnswer

commandsVars == <<procs, answer>>

NoAnswer == [ret |-> 1, nbytes |-> 0, text |-> << >>]
NewBuf == [i \in 1 .. BUF_SIZE |-> NUL]
Process(line, name, args) == [line |-> line, buf |-> NewBuf, name |-> name, args |-> args]

\* The base shell, which no line executed.
CommandsInit == /\ procs = <<Process(<< >>, << >>, << >>)>>
                /\ answer = NoAnswer

Current == procs[Len(procs)]
Least(S) == CHOOSE i \in S : \A j \in S : i <= j

\* The string that starts at a place of the buffer.  Only untidy lines (below) lead past
\* what terminal_read wrote: the shell's own buffer is longer, the model's ends there.
StringAt(buf, i) == SubSeq(buf, i, Least({j \in i .. Len(buf) : buf[j] = NUL} \cup
                                         {Len(buf) + 1}) - 1)

-----------------------------------------------------------------------------
(***************************************************************************)
(* terminal_read, then the shell, which takes the newline away.            *)
(***************************************************************************)
Line(line) == Append(line, NEWLINE)

TerminalRead_NoNulls(buf, line) ==
    [i \in 1 .. BUF_SIZE |-> IF i <= Len(Line(line)) THEN Line(line)[i] ELSE buf[i]]
TerminalRead(buf, line) ==
    [i \in 1 .. BUF_SIZE |-> IF i <= Len(Line(line)) THEN Line(line)[i] ELSE NUL]

ReadLine(line) ==
    /\ procs' = [procs EXCEPT ![Len(procs)].buf =
                     [TerminalRead(@, line) EXCEPT ![Len(line) + 1] = NUL]]
    /\ answer' = NoAnswer

-----------------------------------------------------------------------------
(***************************************************************************)
(* execute: the name ends at a blank, at the end of the string or when it  *)
(* is as long as a name can be; one character after it is skipped.         *)
(***************************************************************************)
Start(buf) == Least({i \in DOMAIN buf : buf[i] \notin {SPACE, TAB}})
Stop_Early(buf) ==
    Least({i \in Start(buf) .. Len(buf) : \/ buf[i] \in {NUL, SPACE, NEWLINE}
                                          \/ i - Start(buf) = 1 /\ 1 < MAX_FILE_NAME_LENGTH})
Stop(buf) ==
    Least({i \in Start(buf) .. Len(buf) : \/ buf[i] \in {NUL, SPACE, NEWLINE}
                                          \/ i - Start(buf) = MAX_FILE_NAME_LENGTH})

CommandName(buf) == SubSeq(buf, Start(buf), Stop(buf) - 1)

CommandArgs(buf) == StringAt(buf, Stop(buf) + 1)

\* The shell executes no empty line.
Execute == /\ Current.buf[1] # NUL
           /\ Len(procs) < MAX_DEPTH
           /\ CommandName(Current.buf) \in Programs
           /\ procs' = Append(procs, Process(StringAt(Current.buf, 1),
                                             CommandName(Current.buf),
                                             CommandArgs(Current.buf)))
           /\ answer' = NoAnswer

\* Back to the parent, whose buffer and arguments are as they were.
Halt == /\ Len(procs) > 1
        /\ procs' = SubSeq(procs, 1, Len(procs) - 1)
        /\ answer' = NoAnswer

-----------------------------------------------------------------------------
\* min(nbytes, strlen(arg)), which compares them as unsigned numbers.
Copied(nbytes, args) == IF nbytes < 0 \/ nbytes > Len(args) THEN Len(args) ELSE nbytes

UpToBlank(args) ==
    SubSeq(args, 1, Least({i \in DOMAIN args : args[i] \in {SPACE, NEWLINE}} \cup
                          {Len(args) + 1}) - 1)

Getargs(nbytes) ==
    /\ answer' = IF Current.args = << >>
                 THEN [ret |-> -1, nbytes |-> nbytes, text |-> << >>]
                 ELSE [ret |-> 0, nbytes |-> nbytes,
                       text |-> UpToBlank(SubSeq(Current.args, 1,
                                                 Copied(nbytes, Current.args)))]
    /\ UNCHANGED procs

CommandsNext == \/ \E line \in TypedLines : ReadLine(line)
                \/ Execute
                \/ Halt
                \/ \E nbytes \in ArgSizes : Getargs(nbytes)

CommandsSpec == CommandsInit /\ [][CommandsNext]_commandsVars

-----------------------------------------------------------------------------
(***************************************************************************)
(* What users and programs expect.                                         *)
(***************************************************************************)

\* The type invariant of buffers, arguments and answers: arguments fit args of the PCB.
CommandsTypeOK == /\ procs \in Seq([line : Strings, buf : Seq(Chars), name : Strings, args : Strings])
                  /\ Len(procs) \in 1 .. MAX_DEPTH
                  /\ \A k \in DOMAIN procs : Len(procs[k].buf) = BUF_SIZE /\ Len(procs[k].args) < BUF_SIZE
                  /\ answer \in [ret : {-1, 0, 1}, nbytes : Int, text : Strings]

\* The words of a line: where they start and end, and the n-th.
Words(line) ==
    {w \in (DOMAIN line) \X (DOMAIN line) :
        /\ w[1] <= w[2]
        /\ \A i \in w[1] .. w[2] : line[i] # SPACE
        /\ w[1] = 1 \/ line[w[1] - 1] = SPACE
        /\ w[2] = Len(line) \/ line[w[2] + 1] = SPACE}
Word(line, n) ==
    LET w == CHOOSE w \in Words(line) :
                 Cardinality({v \in Words(line) : v[1] <= w[1]}) = n
    IN  SubSeq(line, w[1], w[2])
Lesser(m, n) == IF m < n THEN m ELSE n

\* One space between words, none after the last, and a name that is no longer than names
\* can be.
NextToSpace(line, i) == line[i] = SPACE /\ (i = Len(line) \/ line[i + 1] = SPACE)
Tidy(line) == /\ \A i \in DOMAIN line : ~NextToSpace(line, i)
              /\ line # << >> => Len(Word(line, 1)) <= MAX_FILE_NAME_LENGTH

\* The program that execute starts is the one that the line names first.
RunsFirstWord == \A k \in 2 .. Len(procs) : procs[k].name = Word(procs[k].line, 1)

\* getargs "reads arguments from the command line" (syscall.c): it gives a program the
\* word after its name on the line that executed it, whatever was typed before that or
\* executed since, and fails if there is none.
GetsArgument ==
    answer # NoAnswer =>
        IF Cardinality(Words(Current.line)) < 2
        THEN answer.ret = -1
        ELSE LET word == Word(Current.line, 2)
             IN  /\ answer.ret = 0
                 /\ answer.text = SubSeq(word, 1, Lesser(answer.nbytes, Len(word)))

\* nbytes is the "number of bytes to store into buffer" (syscall.c).
StoresAtMost == answer.ret = 0 => Len(answer.text) <= answer.nbytes
=============================================================================
