------------------------------- MODULE MCKeys -------------------------------
(***************************************************************************)
(* Instances of Keys for TLC: a few keys of each kind, held in any         *)
(* combination.                                                            *)
(***************************************************************************)
EXTENDS Keys

SomeLetters == {"a", "l"}
SomeSymbols == {"1"}
PlainKeys == SomeLetters \cup SomeSymbols \cup
             {"lshift", "rshift", "ctrl", "caps", "alt", "f1", "f2"}
PlainRepeating == PlainKeys \ {"caps"}

Arrows == {"a", "arrow_up"}
Controls == {"a", "ctrl", "rctrl"}
CapsKeys == {"a", "caps"}
NoKeys == {}
=============================================================================
