----------------------------- MODULE MCRtcClock -----------------------------
(***************************************************************************)
(* Values for checking RtcClock.  The master rate is 4, so that the        *)
(* frequencies 1 and 2 (the default) divide it by 4 and 2; 3 is no power   *)
(* of two, 16 is above the maximum, and 0 ends the program that writes it. *)
(* 8 stands for 1024 Hz, which is accepted although it is above the master *)
(* rate.                                                                   *)
(***************************************************************************)
EXTENDS RtcClock

ServedFrequencies == {0, 1, 3, 16}
AllFrequencies    == ServedFrequencies \cup {8}
=============================================================================
