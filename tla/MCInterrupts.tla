---------------------------- MODULE MCInterrupts ----------------------------
(***************************************************************************)
(* Instances of Interrupts for TLC: all three interrupt lines; two or three*)
(* terminals.                                                              *)
(***************************************************************************)
EXTENDS InterruptsProps
=============================================================================
