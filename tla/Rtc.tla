-------------------------------- MODULE Rtc --------------------------------
(***************************************************************************)
(* The virtual real-time clock (rtc.c, rtc_handler in x86_inter.c).  The   *)
(* device interrupts at RTC_MASTER_RATE; each terminal divides that rate   *)
(* by its own rtc_rate and counts the ticks its programs have not read.    *)
(*                                                                         *)
(* The handler and the updates under cli are atomic.  rtc_read is not: it  *)
(* polls the flag with interrupts enabled, disables them, and only then    *)
(* takes the tick; RTC and PIT interrupts fall in between.                 *)
(***************************************************************************)
EXTENDS Integers, Sequences

CONSTANTS TERMINAL_COUNT,
          RTC_MASTER_RATE, RTC_DEFAULT_RATE, RTC_MAX_FREQUENCY,
          Frequencies,   \* what programs write to the device
          OpenMayFail,   \* may open find no free descriptor in a process
                         \* that has the device already?
          DEPTH,         \* bound: processes of one terminal
          MAX_COUNT      \* bound: where the 32-bit counters stop counting

Terms == 0 .. TERMINAL_COUNT - 1
Closed == -1             \* the rate of a terminal that never opened the device

ASSUME TermAssumption == TERMINAL_COUNT \in Nat \ {0}
ASSUME RateAssumption == /\ RTC_MASTER_RATE \in Nat \ {0}
                         /\ RTC_DEFAULT_RATE \in 1 .. RTC_MASTER_RATE
                         /\ RTC_MAX_FREQUENCY \in Nat
ASSUME FrequencyAssumption == Frequencies \subseteq Nat
ASSUME OpenAssumption == OpenMayFail \in BOOLEAN
ASSUME BoundAssumption == DEPTH \in Nat \ {0} /\ MAX_COUNT \in Nat \ {0}

VARIABLES
    terminal_active,
    rtc,     \* terminal_rtc_data: rate, counter and read_flag of each terminal
    asked,   \* terminal -> the frequency each of its processes last asked for
    pc       \* terminal -> where its foreground process is

vars == <<terminal_active, rtc, asked, pc>>

NeverAsked == 0
Running == asked[terminal_active][Len(asked[terminal_active])]

Init == /\ terminal_active = TERMINAL_COUNT - 1
        /\ rtc = [t \in Terms |-> [rate |-> Closed, counter |-> 0, read_flag |-> 0]]
        /\ asked = [t \in Terms |-> <<NeverAsked>>]
        /\ pc = [t \in Terms |-> "user"]

-----------------------------------------------------------------------------
(***************************************************************************)
(* Interrupts.                                                             *)
(***************************************************************************)
Increment(n) == IF n < MAX_COUNT THEN n + 1 ELSE n

Divided(d) ==
    IF d.rate = Closed THEN d
    ELSE IF Increment(d.counter) = d.rate
         THEN [d EXCEPT !.counter = 0, !.read_flag = Increment(@)]
         ELSE [d EXCEPT !.counter = Increment(@)]

RtcHandler == /\ rtc' = [t \in Terms |-> Divided(rtc[t])]
              /\ UNCHANGED <<terminal_active, asked, pc>>

\* The PIT: the next terminal's process runs.
Tick == /\ terminal_active' = (terminal_active + 1) % TERMINAL_COUNT
        /\ UNCHANGED <<rtc, asked, pc>>

-----------------------------------------------------------------------------
(***************************************************************************)
(* The calls of the process that runs.                                     *)
(***************************************************************************)
UserRuns == pc[terminal_active] = "user"
HasDevice == UserRuns /\ Running # NeverAsked

Fresh_KeepCounter(d, r) == [d EXCEPT !.rate = r, !.read_flag = 0]
Fresh(d, r) == [rate |-> r, counter |-> 0, read_flag |-> 0]

SetRate(freq) ==
    rtc' = [rtc EXCEPT ![terminal_active] = Fresh(@, RTC_MASTER_RATE \div freq)]

Ask(freq) ==
    asked' = [asked EXCEPT ![terminal_active][Len(asked[terminal_active])] = freq]

\* open("rtc").  syscall_open calls rtc_open before it looks for a free
\* descriptor, so a call that fails for want of one resets the clock too.  A
\* base shell, alone in its terminal, opens nothing.
Open == /\ UserRuns
        /\ Len(asked[terminal_active]) > 1
        /\ SetRate(RTC_DEFAULT_RATE)
        /\ \/ Ask(RTC_DEFAULT_RATE)
           \/ (Running = NeverAsked \/ OpenMayFail) /\ UNCHANGED asked
        /\ UNCHANGED <<terminal_active, pc>>

PowerOfTwo(n) == \E k \in 0 .. n : n = 2 ^ k
Rejected(freq) == freq > RTC_MAX_FREQUENCY \/ (freq # 0 /\ ~PowerOfTwo(freq))

Pop(t) == asked' = [asked EXCEPT ![t] = SubSeq(@, 1, Len(@) - 1)]

\* write: a frequency of 0 passes the checks and divides by zero, and the
\* exception handler ends the process.
Write(freq) == /\ HasDevice
               /\ \/ /\ Rejected(freq)
                     /\ UNCHANGED <<rtc, asked>>
                  \/ /\ ~Rejected(freq)
                     /\ freq # 0
                     /\ SetRate(freq)
                     /\ Ask(freq)
                  \/ /\ freq = 0
                     /\ Pop(terminal_active)
                     /\ UNCHANGED rtc
               /\ UNCHANGED <<terminal_active, pc>>

ReadStart == /\ HasDevice
             /\ pc' = [pc EXCEPT ![terminal_active] = "polling"]
             /\ UNCHANGED <<terminal_active, rtc, asked>>

\* The loop re-reads terminal_active each time round.
FlagSeen_Shared == \E t \in Terms : rtc[t].read_flag # 0
FlagSeen_OneOnly == rtc[terminal_active].read_flag = 1
FlagSeen == rtc[terminal_active].read_flag # 0

ReadSees == /\ pc[terminal_active] = "polling"
            /\ FlagSeen
            /\ pc' = [pc EXCEPT ![terminal_active] = "taking"]
            /\ UNCHANGED <<terminal_active, rtc, asked>>

Taken(d) == [d EXCEPT !.read_flag = @ - 1]

ReadTakes == /\ pc[terminal_active] = "taking"
             /\ rtc' = [rtc EXCEPT ![terminal_active] = Taken(@)]
             /\ pc' = [pc EXCEPT ![terminal_active] = "user"]
             /\ UNCHANGED <<terminal_active, asked>>

\* A child starts without the device; halt gives the terminal back to the
\* parent.  Neither touches the clock, and close does not either: nothing
\* calls rtc_close.
Execute == /\ UserRuns
           /\ Len(asked[terminal_active]) < DEPTH
           /\ asked' = [asked EXCEPT ![terminal_active] = Append(@, NeverAsked)]
           /\ UNCHANGED <<terminal_active, rtc, pc>>

Halt == /\ UserRuns
        /\ Len(asked[terminal_active]) > 1
        /\ Pop(terminal_active)
        /\ UNCHANGED <<terminal_active, rtc, pc>>

-----------------------------------------------------------------------------
Next == \/ RtcHandler
        \/ Tick
        \/ Open
        \/ \E freq \in Frequencies : Write(freq)
        \/ ReadStart
        \/ ReadSees
        \/ ReadTakes
        \/ Execute
        \/ Halt

Spec == Init /\ [][Next]_vars

-----------------------------------------------------------------------------
RtcData == [rate : {Closed} \cup 0 .. RTC_MASTER_RATE,
            counter : 0 .. MAX_COUNT, read_flag : 0 .. MAX_COUNT]

TypeOK ==
    /\ terminal_active \in Terms
    /\ rtc \in [Terms -> RtcData]
    /\ asked \in [Terms -> Seq(Nat)]
    /\ \A t \in Terms : Len(asked[t]) \in 1 .. DEPTH
    /\ pc \in [Terms -> {"user", "polling", "taking"}]

(***************************************************************************)
(* Between the poll that saw a tick and the instruction that takes it, any *)
(* number of interrupts and time slices of other terminals go by; the tick *)
(* is still there, so read_flag, unsigned, never goes below zero           *)
(* (rtc.c:144-151).                                                        *)
(***************************************************************************)
TickStillThere == \A t \in Terms : pc[t] = "taking" => rtc[t].read_flag > 0

(***************************************************************************)
(* The foreground process of a terminal, if it has the device, is given    *)
(* ticks at the frequency it asked for last: "set the current process's    *)
(* RTC rate" (rtc.c:107).  The code keeps one rate per terminal: this does *)
(* not hold once a program with the device executes another that opens it  *)
(* (DEPTH > 2), nor when an open fails for want of a descriptor after it   *)
(* has reset the rate (OpenMayFail).                                       *)
(***************************************************************************)
RateAsAsked ==
    \A t \in Terms :
        LET freq == asked[t][Len(asked[t])]
        IN  freq # NeverAsked => rtc[t].rate = RTC_MASTER_RATE \div freq

(***************************************************************************)
(* A terminal's counter never passes its rate: no tick is skipped          *)
(* (x86_inter.c:54), whatever frequency up to RTC_MAX_FREQUENCY was asked  *)
(* for (rtc.c:165).                                                        *)
(***************************************************************************)
NoTickSkipped == \A t \in Terms : rtc[t].rate # Closed => rtc[t].counter <= rtc[t].rate

(***************************************************************************)
(* A read returns (rtc.c:140: "blocks a single RTC interrupt and           *)
(* returns"): whatever the other terminals do, the poll sees a tick.       *)
(***************************************************************************)
ReadReturns == \A t \in Terms : pc[t] = "polling" ~> pc[t] # "polling"
=============================================================================
