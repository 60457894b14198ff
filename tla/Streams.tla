------------------------------ MODULE Streams ------------------------------
(***************************************************************************)
(* What the file system promises a program: what it opens is a sequence of *)
(* which each read takes the next part, until none is left; no descriptor  *)
(* disturbs another, and a read that fails takes nothing.                  *)
(***************************************************************************)
EXTENDS Integers, Sequences

CONSTANTS Fds, Names, ReadSizes,
          IsProgram(_),
          Typed,         \* the lines that may come from the keyboard
          Content(_),    \* what a name is a name of: [kind, items]
          Failed(_)      \* is this a byte that cannot be read?

VARIABLES stream,   \* [Fds -> what is left to be read there, or Closed]
          outcome,  \* of the last call: "ok" or "error"
          taken     \* what it read or loaded

vars == <<stream, outcome, taken>>

Closed == [kind |-> "closed", items |-> << >>]

Init == /\ stream = [fd \in Fds |-> Closed]
        /\ outcome = "ok"
        /\ taken = << >>

Open(name) == /\ \E fd \in Fds : /\ stream[fd] = Closed
                                 /\ stream' = [stream EXCEPT ![fd] = Content(name)]
              /\ taken' = << >>

Close(fd) == /\ stream[fd] # Closed
             /\ stream' = [stream EXCEPT ![fd] = Closed]
             /\ taken' = << >>

\* What a call asking for n gets of a sequence; a negative n asks for everything.
Part(seq, n) == IF n < 0 \/ n > Len(seq) THEN seq ELSE SubSeq(seq, 1, n)

\* Of a file the bytes asked for, or all that are left.
ReadFile(fd) == LET items == stream[fd].items
                IN  /\ stream[fd].kind = "file"
                    /\ \E n \in ReadSizes : taken' = Part(items, n)
                    /\ \A i \in 1 .. Len(taken') : ~Failed(taken'[i])
                    /\ stream' = [stream EXCEPT ![fd].items =
                                      SubSeq(items, Len(taken') + 1, Len(items))]

\* Of a directory the next name, as much of it as was asked for.
ReadName(fd) == LET items == stream[fd].items
                IN  /\ stream[fd].kind = "dir"
                    /\ IF items = << >> THEN taken' = << >>
                       ELSE \E n \in ReadSizes : taken' = Part(Head(items), n)
                    /\ stream' = [stream EXCEPT ![fd].items =
                                      IF items = << >> THEN items ELSE Tail(items)]

Load(name) == /\ IsProgram(name)
              /\ taken' = Content(name).items
              /\ UNCHANGED stream

\* A call on anything else: a line or a part of one is typed, a screen is written.
Elsewhere == /\ UNCHANGED stream
             /\ \/ taken' = << >>
                \/ \E line \in Typed, n \in ReadSizes : taken' = Part(line, n)

Succeed == /\ outcome' = "ok"
           /\ \/ Elsewhere
              \/ \E fd \in Fds : ReadFile(fd) \/ ReadName(fd) \/ Close(fd)
              \/ \E name \in Names : Open(name) \/ Load(name)

Fail == outcome' = "error" /\ taken' = << >> /\ UNCHANGED stream

Next == Fail \/ Succeed

Spec == Init /\ [][Next]_vars
=============================================================================
