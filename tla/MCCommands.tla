----------------------------- MODULE MCCommands -----------------------------
(***************************************************************************)
(* Instances of Commands for TLC: two letters, two programs, one of which  *)
(* has a name as long as a name can be.                                    *)
(***************************************************************************)
EXTENDS Commands

TwoLetters == {"a", "b"}
TwoPrograms == {<<"a">>, <<"a", "b">>}

Typed(n) == UNION {[1 .. k -> TwoLetters \cup {SPACE}] : k \in 0 .. n}

TidyLines == {line \in Typed(BUF_SIZE - 1) : Tidy(line)}
AnyLines == Typed(3)
Sizes == {1, BUF_SIZE}
OneSize == {BUF_SIZE}
NegativeSize == {-1}
=============================================================================
