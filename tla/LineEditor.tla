----------------------------- MODULE LineEditor -----------------------------
(***************************************************************************)
(* What a terminal promises its programs: the user edits a line, or        *)
(* recalls one that stood there before, and a read returns the line that   *)
(* was entered since the read began.  An Enter pressed before that is not  *)
(* lost, but the line it ended is: the read returns nothing.               *)
(***************************************************************************)
EXTENDS Integers, Sequences, FiniteSets, SequencesExt

CONSTANTS Letters, Space, Tab, NL,
          CAPACITY,    \* bytes in a line, with its newline
          ReadSizes

VARIABLES line,        \* the line as it is edited
          entered,     \* "no", "yes", or "early": before the read began
          stored,      \* the lines that can be recalled
          program, result

vars == <<line, entered, stored, program, result>>

Init == /\ line = << >>
        /\ entered = "no"
        /\ stored = {<< >>}
        /\ program = "running"
        /\ result = << >>

\* Only what stands on the line is stored; an old line may have to go.
Stores == stored' \subseteq stored \cup {line}

\* A tab is four bytes: three spaces and itself.
TabBytes == <<Space, Space, Space, Tab>>

Edit == /\ entered = "no"
        /\ \/ \E c \in Letters : Len(line) < CAPACITY - 1 /\ line' = Append(line, c)
           \/ Len(line) + 4 < CAPACITY - 1 /\ line' = line \o TabBytes
           \/ line # << >> /\ LET n == IF Last(line) = Tab THEN 4 ELSE 1
                              IN  line' = SubSeq(line, 1, Len(line) - n)
        /\ UNCHANGED <<entered, stored, program, result>>

\* Up and Down: the line is a stored one, or empty.
Recall == /\ entered = "no"
          /\ Stores
          /\ line' \in stored' \cup {<< >>}
          /\ UNCHANGED <<entered, program, result>>

Enter == /\ entered = "no"
         /\ entered' = "yes"
         /\ Stores
         /\ UNCHANGED <<line, program, result>>

ReadStarts == /\ program = "running"
              /\ program' = "reading"
              /\ line' = << >>
              /\ entered' = IF entered = "no" THEN "no" ELSE "early"
              /\ result' = << >>
              /\ UNCHANGED stored

ReadReturns == /\ program = "reading"
               /\ entered # "no"
               /\ \E n \in ReadSizes :
                     LET all == IF entered = "yes" THEN Append(line, NL) ELSE << >>
                     IN  result' = SubSeq(all, 1, IF n < Len(all) THEN n ELSE Len(all))
               /\ program' = "running"
               /\ line' = << >>
               /\ entered' = "no"
               /\ UNCHANGED stored

Next == Edit \/ Recall \/ Enter \/ ReadStarts \/ ReadReturns

Spec == Init /\ [][Next]_vars
=============================================================================
