------------------------------ MODULE Programs ------------------------------
(***************************************************************************)
(* User programs over the system calls: cat, ls, grep, counter and the     *)
(* reading of frames in fish, each alone on its terminal, and a program    *)
(* that makes any call.  A system call is a step; what a program computes  *)
(* between two of them is part of the step or a step of its own.           *)
(***************************************************************************)
EXTENDS Syserr

CONSTANTS NEWLINE, NUL, SPACE, DOT,
          lookup,               \* the characters of digits
          CAT_SIZE, SBUFSIZE, BUFSIZE,  \* of buffers
          RADIX, Counts,        \* the base of counter's numerals, what it counts to
          Patterns,             \* what grep is given to look for
          Frames,               \* the two files that fish shows
          Letterings(_),        \* what the bytes of files are: [places -> characters]
          Junk                  \* what the stack may hold before grep writes to it

ASSUME BufferAssumption == /\ SBUFSIZE \in MAX_FILE_NAME_LENGTH + 1 .. WORD - 1
                           /\ CAT_SIZE \in MAX_FILE_NAME_LENGTH .. WORD - 1
                           /\ BUFSIZE \in 1 .. WORD - 1
\* There is one directory, and every file is in it.
ASSUME DirectoryAssumption ==
    /\ \E k \in 1 .. Len(Dentries) : Dentries[k].name = <<DOT>>
    /\ \A k \in 1 .. Len(Dentries) : Dentries[k].name = <<DOT>> <=> Dentries[k].file_type = "dir"
\* fish finds its frames on the disk and has descriptors for both.
ASSUME FramesAssumption ==
    /\ FD_ARRAY_SIZE > 3
    /\ \A k \in {1, 2} : /\ IsString(Frames[k]) /\ Found(Frames[k])
                          /\ Dentries[Lookup(Frames[k])].file_type = "file"
\* Digits differ from each other and from what ends a line.
ASSUME RadixAssumption ==
    /\ IsString(lookup) /\ RADIX \in 2 .. Len(lookup)
    /\ \A i \in 1 .. Len(lookup) : /\ lookup[i] # NEWLINE
                                   /\ \A j \in 1 .. Len(lookup) : lookup[i] = lookup[j] => i = j
\* What grep is given is a string; a newline does not end one.
ASSUME PatternAssumption == NUL # NEWLINE /\ \A s \in Patterns : IsString(s)
\* The characters of names are characters already, and not places of the image.
ASSUME LetteringAssumption ==
    \A prog \in {"any", "cat", "ls", "grep", "counter", "fish", "syserr"} :
        \A f \in Letterings(prog) : \A k \in 1 .. Len(Dentries) :
            \A i \in 1 .. Len(Dentries[k].name) : Dentries[k].name[i] \notin DOMAIN f

VARIABLES output,       \* what the program has shown
          letters

vars == <<kernel, p, output, letters>>

Text(bytes) == [i \in DOMAIN bytes |-> IF bytes[i] \in DOMAIN letters
                                       THEN letters[bytes[i]] ELSE bytes[i]]
Directory == <<DOT>>

Ended(status) == [p EXCEPT !.at = "ended", !.status = status]
At(prog, at) == p.prog = prog /\ p.at = at
Silent == UNCHANGED <<output, letters>>
NoCall == UNCHANGED kernel

\* getargs: cat and grep end when they have no argument (see Commands).
ReadArgument(prog, next) ==
    /\ At(prog, "argument")
    /\ p' = IF p.arg = << >> THEN Ended(3) ELSE [p EXCEPT !.at = next]
    /\ NoCall /\ Silent

-----------------------------------------------------------------------------
(***************************************************************************)
(* cat and ls: what is read is written, by ls with a newline after it.     *)
(***************************************************************************)
Copier(prog, at, arg, size, ending) ==
    [prog |-> prog, at |-> at, arg |-> arg, size |-> size, ending |-> ending,
     fd |-> 0, data |-> << >>, status |-> 0]
CatStates == {Copier("cat", "argument", name, CAT_SIZE, << >>) : name \in Names \cup OtherNames}
LsState == Copier("ls", "open", Directory, SBUFSIZE - 1, <<NEWLINE>>)

CopyOpen(prog) ==
    /\ At(prog, "open")
    /\ Opening(p.arg)
    /\ p' = IF result'.ret = -1 THEN Ended(2)
            ELSE [p EXCEPT !.at = "read", !.fd = result'.ret]
    /\ Silent

CopyRead(prog) ==
    /\ At(prog, "read")
    /\ Reading(p.fd, p.size)
    /\ p' = CASE result'.ret = 0  -> Ended(0)
              [] result'.ret = -1 -> Ended(3)
              [] OTHER -> [p EXCEPT !.at = "write", !.data = Text(result'.bytes)]
    /\ Silent

CopyWrite(prog) ==
    /\ At(prog, "write")
    /\ Writing(1, Len(p.data \o p.ending))
    /\ output' = output \o p.data \o p.ending
    /\ p' = IF result'.ret = -1 THEN Ended(3) ELSE [p EXCEPT !.at = "read"]
    /\ UNCHANGED letters

Copy(prog) == CopyOpen(prog) \/ CopyRead(prog) \/ CopyWrite(prog)

-----------------------------------------------------------------------------
(***************************************************************************)
(* grep: for every entry of the directory that is no directory,            *)
(* do_one_file reads the file into data by pieces; a line that a piece     *)
(* does not end is moved to the front, and the next piece put behind it.   *)
(***************************************************************************)
GrepStates == {[prog |-> "grep", at |-> "argument", status |-> 0, arg |-> s, dir |-> 0,
                fd |-> 0, fname |-> << >>, data |-> [i \in 0 .. BUFSIZE |-> junk],
                last |-> 0, cnt |-> 0, line_start |-> 0, junk |-> junk] :
                  s \in Patterns, junk \in Junk}

GrepOpenDirectory ==
    /\ At("grep", "directory")
    /\ Opening(Directory)
    /\ p' = IF result'.ret = -1 THEN Ended(2)
            ELSE [p EXCEPT !.at = "entry", !.dir = result'.ret]
    /\ Silent

GrepReadEntry ==
    /\ At("grep", "entry")
    /\ Reading(p.dir, SBUFSIZE - 1)
    /\ p' = CASE result'.ret = 0  -> Ended(0)
              [] result'.ret = -1 -> Ended(3)
              [] OTHER -> IF result'.bytes[1] = DOT THEN p
                          ELSE [p EXCEPT !.at = "file", !.fname = result'.bytes]
    /\ Silent

GrepOpen ==
    /\ At("grep", "file")
    /\ Opening(p.fname)
    /\ p' = IF result'.ret = -1 THEN Ended(3)
            ELSE [p EXCEPT !.at = "read", !.fd = result'.ret, !.last = 0,
                           !.data = [i \in 0 .. BUFSIZE |-> p.junk]]
    /\ Silent

GrepRead ==
    /\ At("grep", "read")
    /\ Reading(p.fd, BUFSIZE - p.last)
    /\ LET cnt  == result'.ret
           read == Text(result'.bytes)
       IN  p' = IF cnt = -1 THEN Ended(3)
                ELSE [p EXCEPT !.at = "line", !.cnt = cnt, !.last = @ + cnt, !.line_start = 0,
                               !.data = [i \in 0 .. BUFSIZE |->
                                            IF i \in p.last .. p.last + cnt - 1
                                            THEN read[i - p.last + 1] ELSE @[i]]]
    /\ Silent

\* The first newline from a place on, or where the data ends.
LineEnd(start) == CHOOSE i \in start .. p.last :
                      /\ i = p.last \/ p.data[i] = NEWLINE
                      /\ \A j \in start .. i - 1 : p.data[j] # NEWLINE
Terminated(end) == [p.data EXCEPT ![end] = NUL]
MovedToFront(string) == [i \in 0 .. BUFSIZE |-> IF i < Len(string) THEN string[i + 1]
                                               ELSE IF i = Len(string) THEN NUL ELSE p.data[i]]

\* ece391_strncmp at every place of the line.
Holds(data, start, end) == \E check \in start .. end - 1 :
                               Alike(StringFrom(data, check, NUL), p.arg, Len(p.arg))

\* What is left of the data when what comes before a line is gone.
Kept_All(start) == p.last
Kept(start) == p.last - start

\* One round of the inner loop: a line that goes on in the next piece, or one to search.
GrepLine ==
    /\ At("grep", "line")
    /\ LET start == p.line_start
           end   == LineEnd(start)
           data  == Terminated(end)
           line  == StringFrom(data, start, NUL)
       IN  IF p.data[end] # NEWLINE /\ p.cnt # 0 /\ start # 0
           THEN /\ p' = [p EXCEPT !.at = "read", !.data = MovedToFront(line),
                                  !.last = Kept(start)]
                /\ UNCHANGED output
           ELSE /\ p' = [p EXCEPT !.data = data, !.line_start = end + 1,
                                  !.last = IF end + 1 >= p.last THEN 0 ELSE @,
                                  !.at = IF end + 1 < p.last THEN "line"
                                         ELSE IF p.cnt = 0 THEN "close" ELSE "read"]
                /\ output' = IF Holds(data, start, end)
                             THEN Append(output, <<p.fname, line>>) ELSE output
    /\ NoCall /\ UNCHANGED letters

GrepClose ==
    /\ At("grep", "close")
    /\ Closing(p.fd)
    /\ p' = IF result'.ret = -1 THEN Ended(3) ELSE [p EXCEPT !.at = "entry"]
    /\ Silent

Grep == \/ GrepOpenDirectory \/ GrepReadEntry \/ GrepOpen
        \/ GrepRead \/ GrepLine \/ GrepClose

-----------------------------------------------------------------------------
(***************************************************************************)
(* counter: what is typed chooses how far it counts.                       *)
(***************************************************************************)
CounterState == [prog |-> "counter", at |-> "ask", status |-> 0, i |-> 0, max |-> 0]

CounterAsk ==
    /\ At("counter", "ask")
    /\ Reading(0, BUFSIZE - 1)
    /\ LET buf   == result'.bytes
           wrong == Len(buf) > 2 \/ (Len(buf) = 2 /\ buf[1] \notin DOMAIN Counts)
           max   == IF buf[1] \in DOMAIN Counts THEN Counts[buf[1]] ELSE 0
       IN  p' = IF result'.ret = -1 THEN Ended(3)
                ELSE IF wrong THEN Ended(0)
                ELSE [p EXCEPT !.at = "count", !.max = max]
    /\ Silent

CounterCount ==
    /\ At("counter", "count")
    /\ IF p.i < p.max
       THEN /\ output' = Append(output \o Itoa(p.i + 1, RADIX, lookup), NEWLINE)
            /\ p' = [p EXCEPT !.i = @ + 1]
       ELSE p' = Ended(0) /\ UNCHANGED output
    /\ NoCall /\ UNCHANGED letters

Counter == CounterAsk \/ CounterCount

-----------------------------------------------------------------------------
(***************************************************************************)
(* fish, add_frames: two files are read side by side, a byte of each in    *)
(* turn, until both are at the end of a line.  What mp1_ioctl is given to  *)
(* show is output: [row, col, on, off].                                    *)
(***************************************************************************)
FishState == [prog |-> "fish", at |-> "open", status |-> 0, k |-> 1, fd |-> <<0, 0>>,
              c |-> <<lookup[1], lookup[1]>>, eof |-> <<FALSE, FALSE>>, row |-> 0, col |-> 0]

\* The same is done for one file, then for the other.
Second(at, next) == [p EXCEPT !.k = 3 - @, !.at = IF p.k = 1 THEN at ELSE next]

FishOpen ==
    /\ At("fish", "open")
    /\ Opening(Frames[p.k])
    /\ p' = IF result'.ret = -1 THEN Ended(-1)
            ELSE [Second("open", "read") EXCEPT !.fd[p.k] = result'.ret]
    /\ Silent

FishRead ==
    /\ At("fish", "read")
    /\ IF p.c[p.k] = NEWLINE
       THEN p' = Second("read", "show") /\ NoCall
       ELSE /\ Reading(p.fd[p.k], 1)
            /\ LET c == Text(result'.bytes)
                   next == Second("read", "show")
               IN  p' = CASE result'.ret = 0 -> [next EXCEPT !.c[p.k] = NEWLINE, !.eof[p.k] = TRUE]
                          [] result'.ret = 1 -> [next EXCEPT !.c[p.k] = c[1]]
                          [] OTHER -> next
    /\ Silent

Shown(c) == IF c = NEWLINE THEN SPACE ELSE c

FishShow ==
    /\ At("fish", "show")
    /\ LET on == Shown(p.c[1])
           off == Shown(p.c[2])
       IN  IF p.c = <<NEWLINE, NEWLINE>>
           THEN p' = [p EXCEPT !.at = "row"] /\ UNCHANGED output
           ELSE /\ output' = IF on = SPACE /\ off = SPACE THEN output
                             ELSE Append(output, [row |-> p.row, col |-> p.col,
                                                  on |-> on, off |-> off])
                /\ p' = [p EXCEPT !.at = "read", !.col = @ + 1]
    /\ NoCall /\ UNCHANGED letters

\* At its end a file is closed, for every row that follows again.
FishRow ==
    /\ At("fish", "row")
    /\ IF p.eof[p.k] THEN Closing(p.fd[p.k]) ELSE NoCall
    /\ LET next == [Second("row", "read") EXCEPT
                        !.c[p.k] = IF p.eof[p.k] THEN NEWLINE ELSE lookup[1]]
       IN  p' = IF p.k = 1 THEN next
                ELSE IF p.eof = <<TRUE, TRUE>> THEN [next EXCEPT !.at = "ended"]
                ELSE [next EXCEPT !.row = @ + 1, !.col = 0]
    /\ Silent

Fish == FishOpen \/ FishRead \/ FishShow \/ FishRow

-----------------------------------------------------------------------------
AnyProgram == p.prog = "any" /\ AnyCall /\ UNCHANGED p /\ Silent

Init == /\ FileSystemInit
        /\ p \in {[prog |-> "any"], LsState, CounterState, FishState}
                  \cup SyserrStates \cup CatStates \cup GrepStates
        /\ letters \in Letterings(p.prog)
        /\ output = << >>

Step == \/ CallTested(Directory) /\ Silent
        \/ ReadArgument("cat", "open") \/ Copy("cat") \/ Copy("ls")
        \/ ReadArgument("grep", "directory") \/ Grep
        \/ Counter
        \/ Fish

Next == AnyProgram \/ Step

Spec == Init /\ [][Next]_vars

\* A program goes on, and what is typed or ticks while it waits comes.
FairSpec == Spec /\ WF_vars(Step)
=============================================================================
