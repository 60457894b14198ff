---------------------------- MODULE MCFileSystem ----------------------------
(***************************************************************************)
(* Instances of the file system and of the programs for TLC: five entries, *)
(* blocks of two bytes, and buffers of three, so that pieces end inside    *)
(* lines and blocks inside pieces.                                         *)
(***************************************************************************)
EXTENDS ProgramsProps

CONSTANTS a, b, zero, one, two

Name(x) == <<x>>

Three(x, y, z) == [k \in 0 .. 2 |-> <<x, y, z>>[k + 1]]

\* Seven data blocks.  Block 9 does not exist; grep does not look at the file that has it.
Disk == <<[name |-> Name(DOT), file_type |-> "dir",  inode |-> 0],
          [name |-> <<a, b>>,  file_type |-> "file", inode |-> 0],
          [name |-> Name(b),   file_type |-> "file", inode |-> 1],
          [name |-> Name(one), file_type |-> "rtc",  inode |-> 0],
          [name |-> <<DOT, a>>, file_type |-> "file", inode |-> 2]>>
DiskInodes == [i \in 0 .. 2 |-> CASE i = 0 -> [length |-> 5, data_blocks |-> Three(4, 0, 2)]
                                  [] i = 1 -> [length |-> 5, data_blocks |-> Three(1, 3, 6)]
                                  [] i = 2 -> [length |-> 4, data_blocks |-> Three(5, 9, 0)]]
Near == <<<<a, b, b>>, <<a>>, << >>>>
Others == ToSet(Near)

\* The text in blocks 1, 3 and 6 is anything; the program in 4, 0 and 2 reads the same
\* every time.
Places == (0 .. 6) \X (1 .. 2)
TextPlaces == {<<1, 1>>, <<1, 2>>, <<3, 1>>, <<3, 2>>, <<6, 1>>}
Fixed == [x \in Places |-> IF x \in {<<0, 1>>, <<5, 2>>} THEN NEWLINE
                           ELSE IF x = <<4, 2>> THEN SPACE ELSE a]
Written(chars) == {[x \in Places |-> IF x \in TextPlaces THEN f[x] ELSE Fixed[x]] :
                      f \in [TextPlaces -> chars]}
DiskLetterings(prog) == CASE prog = "grep" -> Written({a, b, NEWLINE})
                          [] prog = "fish" -> Written({a, SPACE, NEWLINE})
                          [] OTHER         -> {Fixed}

Sought == {<< >>, <<a>>, <<a, b>>}
FramePair == <<<<b>>, <<a, b>>>>
TwoDigits == <<zero, one, two>>
CountTo == [x \in {zero, one} |-> IF x = zero THEN 2 ELSE 10]
Keyed == {<<NEWLINE>>, <<zero, NEWLINE>>, <<one, NEWLINE>>, <<a, NEWLINE>>, <<one, one, NEWLINE>>}
Garbage == {NUL, NEWLINE}
AskedFor == {-1, 0, 1, 2, 3}
=============================================================================
