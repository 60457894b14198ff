----------------------------- MODULE RtcClock -----------------------------
(***************************************************************************)
(* The virtual clock of module Rtc with a history variable that keeps the  *)
(* account of each terminal: the interrupts since its rate was last set,   *)
(* less a rate's worth of them for every tick that was read.               *)
(***************************************************************************)
EXTENDS Rtc

\* A rate is below the value where the counters stop counting.
ASSUME CountAssumption == RTC_MASTER_RATE <= MAX_COUNT

VARIABLE owed

clockVars == <<vars, owed>>

Settled == owed' = [owed EXCEPT ![terminal_active] = 0]

ClockInit == Init /\ owed = [t \in Terms |-> 0]

\* A tick that read_flag has no room for (MAX_COUNT) is written off.
Charged(d, n) ==
    IF d.rate = Closed THEN 0
    ELSE IF d.counter + 1 = d.rate /\ d.read_flag = MAX_COUNT THEN n + 1 - d.rate
    ELSE n + 1

ClockHandler == /\ RtcHandler
                /\ owed' = [t \in Terms |-> Charged(rtc[t], owed[t])]

ClockOpen == Open /\ Settled

ClockWrite(freq) ==
    /\ Write(freq)
    /\ IF Rejected(freq) \/ freq = 0 THEN UNCHANGED owed ELSE Settled

ClockReadTakes ==
    /\ ReadTakes
    /\ owed' = [owed EXCEPT ![terminal_active] = @ - rtc[terminal_active].rate]

ClockTick     == Tick /\ UNCHANGED owed
ClockReadSees == ReadSees /\ UNCHANGED owed
Quiet == (ReadStart \/ Execute \/ Halt) /\ UNCHANGED owed

ClockNext == \/ ClockHandler
             \/ ClockTick
             \/ ClockOpen
             \/ \E freq \in Frequencies : ClockWrite(freq)
             \/ ClockReadSees
             \/ ClockReadTakes
             \/ Quiet

ClockSpec == ClockInit /\ [][ClockNext]_clockVars

(***************************************************************************)
(* The RTC and the PIT keep interrupting, and a time slice is long enough  *)
(* for the process of that terminal to go round its loop at least once; it *)
(* may find the CPU taken away in between any number of times, hence SF.   *)
(***************************************************************************)
FairClockSpec == /\ ClockSpec
                 /\ WF_clockVars(ClockHandler)
                 /\ WF_clockVars(ClockTick)
                 /\ \A t \in Terms : SF_clockVars(terminal_active = t /\ ClockReadSees)

(***************************************************************************)
(* Every interrupt is accounted for: since a terminal's rate was set, one  *)
(* tick has become readable for every rtc_rate interrupts, no more and no  *)
(* less, whether its programs have read it yet or not and whichever        *)
(* terminal was running (x86_inter.c:49-59, rtc.c:142-181).                *)
(***************************************************************************)
AccurateClock ==
    \A t \in Terms :
        rtc[t].rate > 0 =>
            /\ owed[t] = rtc[t].rate * rtc[t].read_flag + rtc[t].counter
            /\ rtc[t].counter < rtc[t].rate
=============================================================================
