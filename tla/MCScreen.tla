------------------------------ MODULE MCScreen ------------------------------
EXTENDS ScreenRefine

\* A character, an erased one, a new line, a cleared screen.
MCLines == {<<"a">>, <<"backspace">>, <<"newline">>, <<"clear">>}
=============================================================================
