--------------------------- MODULE ProgramsProps ---------------------------
(***************************************************************************)
(* What users expect of the programs, and their authors of the system.     *)
(***************************************************************************)
EXTENDS FileSystemProps

\* What is in a file, and what a program that reads a name to its end has read.
InFile(inode) == Text(Bytes[inode])
InEntry(k) == LET d == Dentries[k]
              IN  CASE d.file_type = "file" -> InFile(d.inode)
                    [] d.file_type = "dir"  -> FlattenSeq(NamesInOrder)
                    [] OTHER                -> << >>
HasBadBlock(k) == /\ Dentries[k].file_type = "file"
                  /\ LET bytes == Bytes[Dentries[k].inode]
                     IN  \E i \in DOMAIN bytes : Bad(bytes[i])

\* cat shows a file, and ls the names of the directory one on a line: from the first on,
\* and all of it unless they end with an error.
CopyShows ==
    /\ p.prog = "cat" /\ Found(p.arg) =>
          LET k == Lookup(p.arg)
          IN  IF p.at # "ended" THEN IsPrefix(output, InEntry(k))
              ELSE IF p.status = 0 THEN output = InEntry(k)
              ELSE HasBadBlock(k)
    /\ p.prog = "ls" /\ p.at = "ended" =>
          /\ p.status = 0
          /\ output = FlattenSeq([k \in DOMAIN Dentries |-> Append(Dentries[k].name, NEWLINE)])

-----------------------------------------------------------------------------
\* The lines of a text: what is between newlines.
LinesOf(text) ==
    LET ends   == {i \in DOMAIN text : text[i] = NEWLINE} \cup {Len(text) + 1}
        end(n) == CHOOSE i \in ends : Cardinality({j \in ends : j <= i}) = n
    IN  [n \in 1 .. Cardinality(ends) |->
            SubSeq(text, IF n = 1 THEN 1 ELSE end(n - 1) + 1, end(n) - 1)]

HoldsAt(line, s) == {i \in 1 .. Len(line) - Len(s) + 1 : SubSeq(line, i, i + Len(s) - 1) = s}

LinesIn(k) == IF Dentries[k].file_type = "file" THEN LinesOf(InFile(Dentries[k].inode)) ELSE << >>
\* Those of the file that the name of an entry finds.
LinesNamed(k) == LinesIn(Lookup(Dentries[k].name))
\* What grep shows of a line, and of a file whose name does not make it a directory.
LineFound(k, n) == IF HoldsAt(LinesNamed(k)[n], p.arg) = {} THEN << >>
                   ELSE <<<<Dentries[k].name, LinesNamed(k)[n]>>>>
LinesFound(k) == IF Dentries[k].name[1] = DOT THEN << >>
                 ELSE FlattenSeq([n \in DOMAIN LinesNamed(k) |-> LineFound(k, n)])

\* A line that grep's buffer has no room for, or that a null character ends early.
Unfit(line) == Len(line) > BUFSIZE \/ \E i \in DOMAIN line : line[i] = NUL
AnyUnfit(k) == \E n \in DOMAIN LinesNamed(k) : Unfit(LinesNamed(k)[n])

\* Of the entries that it is done with, grep has shown every line that holds the pattern,
\* whole and once, wherever the pieces it reads end, unless a line is longer than its
\* buffer or no text, or the byte after its buffer happens to be a newline.
GrepShows ==
    p.prog = "grep" /\ (p.at = "entry" \/ (p.at = "ended" /\ p.status = 0)) =>
        LET done == IF p.at = "ended" THEN Len(Dentries) ELSE fd_array[p.dir].file_pos
        IN  \/ p.junk = NEWLINE
            \/ \E k \in 1 .. done : AnyUnfit(k)
            \/ output = FlattenSeq([k \in 1 .. done |-> LinesFound(k)])

-----------------------------------------------------------------------------
\* The numeral of a number: no leading zero, and worth the number.
IsNumeral(s, n) ==
    LET value[i \in 0 .. Len(s)] ==
            IF i = 0 THEN 0
            ELSE RADIX * value[i - 1] +
                     (CHOOSE d \in 0 .. RADIX - 1 : lookup[d + 1] = s[i])
    IN  s # << >> /\ (Len(s) = 1 \/ s[1] # lookup[1]) /\ value[Len(s)] = n

\* counter counts from 1, a number to a line.
CounterShows ==
    p.prog = "counter" =>
        LET lines == LinesOf(output)
        IN  /\ Len(lines) = p.i + 1 /\ lines[p.i + 1] = << >>
            /\ \A n \in 1 .. p.i : IsNumeral(lines[n], n)

\* Every place where one of the two frames of fish has something to show gets what both
\* have there, once.
FrameChar(lines, r, c) == IF r \in DOMAIN lines /\ c \in DOMAIN lines[r] THEN lines[r][c] ELSE SPACE
FishShows ==
    p.prog = "fish" /\ p.at = "ended" =>
        LET first  == LinesIn(Lookup(Frames[1]))
            second == LinesIn(Lookup(Frames[2]))
            rows   == DOMAIN first \cup DOMAIN second
            cols   == UNION ({DOMAIN first[r] : r \in DOMAIN first} \cup
                             {DOMAIN second[r] : r \in DOMAIN second})
            blinks == {[row |-> r - 1, col |-> c - 1, on |-> FrameChar(first, r, c),
                        off |-> FrameChar(second, r, c)] : r \in rows, c \in cols}
        IN  /\ ToSet(output) = {b \in blinks : b.on # SPACE \/ b.off # SPACE}
            /\ IsInjective(output)

\* What the programs show is what the files hold (the comments and names of the programs
\* in src/syscalls and src/fish).
ProgramsShow == CopyShows /\ CounterShows /\ FishShows

\* ece391syserr.c prints PASS for each of its tests, alone or after the others ("prints
\* [TEST_NAME]: PASS if behavior is EXPECTED", ece391syserr.c:31).
SyserrPasses == p.prog = "syserr" => ~p.fail

\* Every program ends: no loop of cat, ls, grep or fish waits for an end of file that
\* does not come.
Over == CASE p.prog = "any"    -> TRUE
          [] p.prog = "syserr" -> p.tests = << >>
          [] OTHER             -> p.at = "ended"
ProgramsEnd == <>Over
=============================================================================
