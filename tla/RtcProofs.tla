----------------------------- MODULE RtcProofs -----------------------------
(***************************************************************************)
(* Theorems about the virtual clock, for every number of terminals, every  *)
(* master rate and every bound.                                            *)
(***************************************************************************)
EXTENDS RtcClock, SequenceTheorems, TLAPS

(***************************************************************************)
(* The inductive invariant.  AccurateClock alone is not inductive: a read  *)
(* may take a tick only because the one its poll saw is still there, and   *)
(* the counter has to stay below the value where it stops counting, which  *)
(* follows from its being below the rate.                                  *)
(***************************************************************************)
ClockTypeOK == owed \in [Terms -> Int]

\* The base shell of a terminal never opens the device, so the process that
\* a write of frequency 0 ends is not the last one.
BaseNeverAsked == \A t \in Terms : asked[t][1] = NeverAsked

IInv == /\ TypeOK /\ ClockTypeOK /\ BaseNeverAsked
        /\ TickStillThere /\ AccurateClock

(***************************************************************************)
(* Lemmas about the operators.                                             *)
(***************************************************************************)

LEMMA OneMore ==
  ASSUME NEW r \in Nat, NEW k \in Nat
  PROVE  r * (k + 1) = r * k + r /\ r * k \in Nat
  OBVIOUS

\* The rate of an accepted frequency is a rate.
LEMMA RateType ==
  ASSUME NEW freq \in Nat, freq # 0
  PROVE  RTC_MASTER_RATE \div freq \in 0 .. RTC_MASTER_RATE
  BY RateAssumption, SMT

\* One step of the divider: it keeps the type, it never takes a tick back, and
\* below the bound it counts exactly.
LEMMA DividedType ==
  ASSUME NEW d \in RtcData
  PROVE  /\ Divided(d) \in RtcData
         /\ Divided(d).rate = d.rate
         /\ d.read_flag > 0 => Divided(d).read_flag > 0
<1>1. CASE d.rate = Closed
  BY <1>1 DEF Divided
<1>2. CASE d.rate # Closed /\ Increment(d.counter) = d.rate
  <2>1. Divided(d) = [rate |-> d.rate, counter |-> 0, read_flag |-> Increment(d.read_flag)]
    BY <1>2 DEF Divided, RtcData
  <2> QED BY <2>1, BoundAssumption DEF RtcData, Increment
<1>3. CASE d.rate # Closed /\ Increment(d.counter) # d.rate
  <2>1. Divided(d) = [rate |-> d.rate, counter |-> Increment(d.counter), read_flag |-> d.read_flag]
    BY <1>3 DEF Divided, RtcData
  <2> QED BY <2>1, BoundAssumption DEF RtcData, Increment
<1> QED BY <1>1, <1>2, <1>3

LEMMA DividedCounts ==
  ASSUME NEW d \in RtcData, d.rate > 0, d.counter < d.rate
  PROVE  IF d.counter + 1 = d.rate
         THEN Divided(d).counter = 0 /\ Divided(d).read_flag = Increment(d.read_flag)
         ELSE Divided(d).counter = d.counter + 1 /\ Divided(d).read_flag = d.read_flag
<1>1. Increment(d.counter) = d.counter + 1 /\ d.rate # Closed
  BY BoundAssumption, RateAssumption, CountAssumption DEF RtcData, Increment, Closed
<1>2. CASE d.counter + 1 = d.rate
  <2>1. Divided(d) = [rate |-> d.rate, counter |-> 0, read_flag |-> Increment(d.read_flag)]
    BY <1>1, <1>2 DEF Divided, RtcData
  <2> QED BY <1>1, <1>2, <2>1
<1>3. CASE d.counter + 1 # d.rate
  <2>1. Divided(d) = [rate |-> d.rate, counter |-> Increment(d.counter), read_flag |-> d.read_flag]
    BY <1>1, <1>3 DEF Divided, RtcData
  <2> QED BY <1>1, <1>3, <2>1
<1> QED BY <1>2, <1>3

\* The stacks of frequencies after a process asks for one, ends or starts.
AskedOK(f) == /\ f \in [Terms -> Seq(Nat)]
              /\ \A t \in Terms : Len(f[t]) \in 1 .. DEPTH /\ f[t][1] = NeverAsked

\* One terminal's stack is replaced by another that is as good.
LEMMA StackReplaced ==
  ASSUME NEW f, AskedOK(f), NEW t \in Terms, NEW n \in Seq(Nat),
         Len(n) \in 1 .. DEPTH, n[1] = NeverAsked
  PROVE  AskedOK([f EXCEPT ![t] = n])
<1> DEFINE g == [f EXCEPT ![t] = n]
<1>1. f \in [Terms -> Seq(Nat)]
  BY DEF AskedOK
<1>2. g \in [Terms -> Seq(Nat)]
  BY <1>1
<1>3. ASSUME NEW u \in Terms
      PROVE  Len(g[u]) \in 1 .. DEPTH /\ g[u][1] = NeverAsked
  <2>1. CASE u = t
    <3>1. g[u] = n
      BY <1>1, <2>1
    <3> HIDE DEF g
    <3> QED BY <3>1
  <2>2. CASE u # t
    <3>1. g[u] = f[u]
      BY <1>1, <2>2
    <3> HIDE DEF g
    <3> QED BY <3>1 DEF AskedOK
  <2> QED BY <2>1, <2>2
<1> HIDE DEF g
<1>4. AskedOK(g)
  BY <1>2, <1>3 DEF AskedOK
<1> QED BY <1>4 DEF g

LEMMA AskedTyped == TypeOK /\ BaseNeverAsked => AskedOK(asked) /\ terminal_active \in Terms
  BY DEF TypeOK, BaseNeverAsked, AskedOK

LEMMA AskType ==
  ASSUME TypeOK, BaseNeverAsked, NEW freq \in Nat, Ask(freq), Len(asked[terminal_active]) > 1
  PROVE  AskedOK(asked')
<1> DEFINE s == asked[terminal_active]
<1>1. s \in Seq(Nat) /\ Len(s) \in 2 .. DEPTH /\ s[1] = NeverAsked
  BY BoundAssumption DEF TypeOK, BaseNeverAsked
<1> DEFINE n == [s EXCEPT ![Len(s)] = freq]
<1>2. asked' = [asked EXCEPT ![terminal_active] = n]
  BY DEF Ask
<1>3. n \in Seq(Nat) /\ Len(n) = Len(s) /\ n[1] = NeverAsked
  BY <1>1, ExceptSeq
<1>4. Len(n) \in 1 .. DEPTH
  BY <1>1, <1>3, BoundAssumption
<1> HIDE DEF n, s
<1> QED BY <1>2, <1>3, <1>4, StackReplaced, AskedTyped

LEMMA PopType ==
  ASSUME TypeOK, BaseNeverAsked, Pop(terminal_active), Len(asked[terminal_active]) > 1
  PROVE  AskedOK(asked')
<1> DEFINE s == asked[terminal_active]
           n == SubSeq(s, 1, Len(s) - 1)
<1>1. s \in Seq(Nat) /\ Len(s) \in 2 .. DEPTH /\ s[1] = NeverAsked
  BY BoundAssumption DEF TypeOK, BaseNeverAsked
<1>2. n \in Seq(Nat) /\ Len(n) = Len(s) - 1 /\ n[1] = NeverAsked
  BY <1>1, SubSeqProperties
<1>3. asked' = [asked EXCEPT ![terminal_active] = n]
  BY DEF Pop
<1>4. Len(n) \in 1 .. DEPTH
  BY <1>1, <1>2, BoundAssumption
<1> HIDE DEF n, s
<1> QED BY <1>2, <1>3, <1>4, StackReplaced, AskedTyped

LEMMA PushType ==
  ASSUME TypeOK, BaseNeverAsked, Execute
  PROVE  AskedOK(asked')
<1> DEFINE s == asked[terminal_active]
           n == Append(s, NeverAsked)
<1>1. s \in Seq(Nat) /\ Len(s) \in 1 .. DEPTH - 1 /\ s[1] = NeverAsked
  BY BoundAssumption DEF TypeOK, BaseNeverAsked, Execute
<1>2. n \in Seq(Nat) /\ Len(n) = Len(s) + 1 /\ n[1] = NeverAsked
  BY <1>1, AppendProperties DEF NeverAsked
<1>3. asked' = [asked EXCEPT ![terminal_active] = n]
  BY DEF Execute
<1>4. Len(n) \in 1 .. DEPTH
  BY <1>1, <1>2, BoundAssumption
<1> HIDE DEF n, s
<1> QED BY <1>2, <1>3, <1>4, StackReplaced, AskedTyped

\* A terminal that has just been given a rate: nothing owed.
LEMMA ResetKeepsInv ==
  ASSUME IInv, UserRuns, NEW freq \in Nat, freq # 0, SetRate(freq),
         Settled, terminal_active' = terminal_active, pc' = pc, AskedOK(asked')
  PROVE  IInv'
<1> DEFINE r     == RTC_MASTER_RATE \div freq
           fresh == [rate |-> r, counter |-> 0, read_flag |-> 0]
<1>1. r \in 0 .. RTC_MASTER_RATE  BY RateType
<1>2. rtc' = [rtc EXCEPT ![terminal_active] = fresh]
  BY DEF SetRate, Fresh
<1> HIDE DEF r
<1>3. TypeOK'
  <2>1. fresh \in RtcData
    BY <1>1, BoundAssumption DEF RtcData
  <2> HIDE DEF fresh
  <2>2. rtc' \in [Terms -> RtcData]
    BY <1>2, <2>1 DEF IInv, TypeOK
  <2> QED BY <2>2 DEF IInv, TypeOK, AskedOK
<1>4. ClockTypeOK' /\ BaseNeverAsked'
  BY DEF IInv, TypeOK, ClockTypeOK, Settled, BaseNeverAsked, AskedOK
<1>5. TickStillThere'
  BY <1>2 DEF IInv, TypeOK, TickStillThere, UserRuns
<1>6. AccurateClock'
  <2> SUFFICES ASSUME NEW t \in Terms, rtc'[t].rate > 0
               PROVE  /\ owed'[t] = rtc'[t].rate * rtc'[t].read_flag + rtc'[t].counter
                      /\ rtc'[t].counter < rtc'[t].rate
    BY DEF AccurateClock
  <2>1. CASE t = terminal_active
    <3>1. rtc'[t] = fresh /\ owed'[t] = 0
      BY <1>2, <2>1 DEF IInv, TypeOK, ClockTypeOK, Settled
    <3>2. r * 0 = 0  BY <1>1, RateAssumption
    <3> QED BY <3>1, <3>2, <1>1
  <2>2. CASE t # terminal_active
    <3>1. rtc'[t] = rtc[t] /\ owed'[t] = owed[t]
      BY <1>2, <2>2 DEF IInv, TypeOK, ClockTypeOK, Settled
    <3> QED BY <3>1 DEF IInv, AccurateClock
  <2> QED BY <2>1, <2>2
<1> QED BY <1>3, <1>4, <1>5, <1>6 DEF IInv

-----------------------------------------------------------------------------
\* The account after one interrupt, for one terminal that has a rate.
LEMMA ChargedCounts ==
  ASSUME NEW d \in RtcData, d.rate > 0, NEW n \in Int,
         n = d.rate * d.read_flag + d.counter, d.counter < d.rate
  PROVE  /\ Charged(d, n) = d.rate * Divided(d).read_flag + Divided(d).counter
         /\ Divided(d).counter < d.rate
<1> DEFINE r == d.rate
           c == d.counter
           k == d.read_flag
<1>1. /\ r \in Nat /\ r > 0 /\ c \in Nat /\ c < r /\ k \in 0 .. MAX_COUNT
      /\ r # Closed
  BY BoundAssumption, RateAssumption DEF RtcData, Closed
<1>2. n = r * k + c
  OBVIOUS
<1>3. /\ Charged(d, n) = IF c + 1 = r /\ k = MAX_COUNT THEN n + 1 - r ELSE n + 1
      /\ IF c + 1 = r
         THEN Divided(d).counter = 0 /\ Divided(d).read_flag = Increment(k)
         ELSE Divided(d).counter = c + 1 /\ Divided(d).read_flag = k
  BY <1>1, DividedCounts DEF Charged
<1> HIDE DEF r, c, k
<1>4. Increment(k) = IF k = MAX_COUNT THEN k ELSE k + 1
  BY <1>1, BoundAssumption DEF Increment
<1>5. r * (k + 1) = r * k + r /\ r * k \in Nat
  BY <1>1, OneMore, BoundAssumption
<1> DEFINE f == Divided(d).read_flag
           p == r * k
           q == r * f
<1>6. p \in Nat /\ n = p + c
  BY <1>2, <1>5
<1>7. q = IF c + 1 = r /\ k # MAX_COUNT THEN p + r ELSE p
  <2>1. f = IF c + 1 = r /\ k # MAX_COUNT THEN k + 1 ELSE k
    BY <1>3, <1>4
  <2> HIDE DEF f
  <2> QED BY <1>5, <2>1
<1>8. /\ Charged(d, n) = q + Divided(d).counter
      /\ Divided(d).counter < r
  <2> HIDE DEF f, p, q
  <2> QED BY <1>1, <1>3, <1>6, <1>7
<1> QED BY <1>8 DEF r

\* One RTC interrupt.
LEMMA HandlerKeepsInv == IInv /\ ClockHandler => IInv'
<1> SUFFICES ASSUME IInv, ClockHandler PROVE IInv'
  OBVIOUS
<1>1. \A t \in Terms : rtc'[t] = Divided(rtc[t]) /\ owed'[t] = Charged(rtc[t], owed[t])
  BY DEF ClockHandler, RtcHandler
<1>2. UNCHANGED <<terminal_active, asked, pc>>
  BY DEF ClockHandler, RtcHandler
<1>3. TypeOK'
  <2>1. \A t \in Terms : Divided(rtc[t]) \in RtcData
    BY DividedType DEF IInv, TypeOK
  <2> QED BY <1>1, <1>2, <2>1 DEF IInv, TypeOK, ClockHandler, RtcHandler
<1>4. ClockTypeOK'
  <2>1. \A t \in Terms : owed[t] \in Int /\ (rtc[t].rate # Closed => rtc[t].rate \in Int)
    BY RateAssumption DEF IInv, TypeOK, ClockTypeOK, RtcData, Closed
  <2>2. \A t \in Terms : Charged(rtc[t], owed[t]) \in Int
    BY <2>1 DEF Charged
  <2> QED BY <1>1, <2>2 DEF ClockHandler, ClockTypeOK
<1>5. TickStillThere'
  BY <1>1, <1>2, DividedType DEF IInv, TypeOK, TickStillThere
<1>6. AccurateClock'
  <2> SUFFICES ASSUME NEW t \in Terms, rtc'[t].rate > 0
               PROVE  /\ owed'[t] = rtc'[t].rate * rtc'[t].read_flag + rtc'[t].counter
                      /\ rtc'[t].counter < rtc'[t].rate
    BY DEF AccurateClock
  <2>1. rtc[t] \in RtcData /\ owed[t] \in Int /\ rtc'[t].rate = rtc[t].rate
    BY <1>1, DividedType DEF IInv, TypeOK, ClockTypeOK
  <2>2. /\ owed[t] = rtc[t].rate * rtc[t].read_flag + rtc[t].counter
        /\ rtc[t].counter < rtc[t].rate
    BY <2>1 DEF IInv, AccurateClock
  <2> QED BY <1>1, <2>1, <2>2, ChargedCounts
<1>7. BaseNeverAsked'
  BY <1>2 DEF IInv, BaseNeverAsked
<1> QED BY <1>3, <1>4, <1>5, <1>6, <1>7 DEF IInv

\* A read takes one tick, and pays for it.
LEMMA TakeKeepsInv == IInv /\ ClockReadTakes => IInv'
<1> SUFFICES ASSUME IInv, ClockReadTakes PROVE IInv'
  OBVIOUS
<1> DEFINE a == terminal_active
           d == rtc[a]
           n == [rate |-> d.rate, counter |-> d.counter, read_flag |-> d.read_flag - 1]
<1>1. a \in Terms /\ pc[a] = "taking" /\ d.read_flag > 0
  BY DEF IInv, TypeOK, TickStillThere, ClockReadTakes, ReadTakes
<1>2. /\ rtc' = [rtc EXCEPT ![a] = Taken(d)]
      /\ owed' = [owed EXCEPT ![a] = owed[a] - d.rate]
      /\ pc' = [pc EXCEPT ![a] = "user"]
      /\ UNCHANGED <<terminal_active, asked>>
  BY DEF ClockReadTakes, ReadTakes
<1>3. /\ rtc \in [Terms -> RtcData] /\ d \in RtcData
      /\ d.rate \in Int /\ d.counter \in Nat /\ d.read_flag \in Nat /\ owed[a] \in Int
  BY <1>1, RateAssumption, BoundAssumption DEF IInv, TypeOK, ClockTypeOK, RtcData, Closed
<1>4. Taken(d) = n /\ n \in RtcData
  <2> HIDE DEF d
  <2>1. Taken(d) = n
    BY <1>3 DEF Taken, RtcData
  <2> QED BY <1>1, <1>3, <2>1, BoundAssumption DEF RtcData
<1> HIDE DEF n
<1>5. rtc' = [rtc EXCEPT ![a] = n] /\ rtc' \in [Terms -> RtcData]
  BY <1>1, <1>2, <1>3, <1>4
<1>6. TypeOK' /\ ClockTypeOK' /\ BaseNeverAsked'
  <2>1. ClockTypeOK'
    BY <1>1, <1>2, <1>3 DEF IInv, ClockTypeOK
  <2> QED BY <1>2, <1>5, <2>1 DEF IInv, TypeOK, BaseNeverAsked
<1>7. TickStillThere'
  BY <1>1, <1>2 DEF IInv, TypeOK, TickStillThere
<1>8. AccurateClock'
  <2> SUFFICES ASSUME NEW t \in Terms, rtc'[t].rate > 0
               PROVE  /\ owed'[t] = rtc'[t].rate * rtc'[t].read_flag + rtc'[t].counter
                      /\ rtc'[t].counter < rtc'[t].rate
    BY DEF AccurateClock
  <2>1. CASE t = a
    <3>1. rtc'[t] = n /\ owed'[t] = owed[a] - d.rate
      BY <1>1, <1>2, <1>3, <1>5, <2>1 DEF IInv, ClockTypeOK
    <3>2. d.rate > 0
      BY <3>1 DEF n
    <3>3. owed[a] = d.rate * d.read_flag + d.counter /\ d.counter < d.rate
      BY <1>1, <3>2 DEF IInv, AccurateClock
    <3> DEFINE r == d.rate
               k == d.read_flag - 1
               c == d.counter
               p == r * k
    <3>4. r \in Nat /\ k \in Nat /\ d.read_flag = k + 1 /\ c \in Nat
      BY <1>1, <1>3, <3>2
    <3>5. owed[a] = r * (k + 1) + c
      BY <3>3, <3>4
    <3> HIDE DEF r, k, c
    <3>6. r * (k + 1) = p + r /\ p \in Nat
      BY <3>4, OneMore
    <3>7. owed[a] - r = p + c
      <4> HIDE DEF p
      <4> QED BY <3>4, <3>5, <3>6
    <3> QED BY <3>1, <3>3, <3>7 DEF n, r, k, c
  <2>2. CASE t # a
    <3>1. rtc'[t] = rtc[t] /\ owed'[t] = owed[t]
      BY <1>2, <1>5, <2>2 DEF IInv, TypeOK, ClockTypeOK
    <3> QED BY <3>1 DEF IInv, AccurateClock
  <2> QED BY <2>1, <2>2
<1> QED BY <1>6, <1>7, <1>8 DEF IInv

LEMMA OpenKeepsInv == IInv /\ ClockOpen => IInv'
<1> SUFFICES ASSUME IInv, ClockOpen PROVE IInv'
  OBVIOUS
<1>1. /\ UserRuns /\ SetRate(RTC_DEFAULT_RATE) /\ Settled
      /\ terminal_active' = terminal_active /\ pc' = pc
      /\ Ask(RTC_DEFAULT_RATE) \/ asked' = asked
      /\ Len(asked[terminal_active]) > 1
  BY DEF ClockOpen, Open
<1>2. RTC_DEFAULT_RATE \in Nat /\ RTC_DEFAULT_RATE # 0
  BY RateAssumption
<1>3. AskedOK(asked')
  <2>1. CASE Ask(RTC_DEFAULT_RATE)  BY <1>1, <1>2, <2>1, AskType DEF IInv
  <2>2. CASE asked' = asked  BY <2>2 DEF IInv, TypeOK, BaseNeverAsked, AskedOK
  <2> QED BY <1>1, <2>1, <2>2
<1> QED BY <1>1, <1>2, <1>3, ResetKeepsInv

LEMMA WriteKeepsInv ==
  ASSUME NEW freq \in Frequencies, IInv, ClockWrite(freq)
  PROVE  IInv'
<1>1. freq \in Nat  BY FrequencyAssumption
<1>2. /\ UserRuns /\ terminal_active' = terminal_active /\ pc' = pc
      /\ Len(asked[terminal_active]) > 1
  BY DEF ClockWrite, Write, HasDevice, Running, IInv, TypeOK, BaseNeverAsked
<1>3. CASE Rejected(freq) \/ freq = 0
  <2>1. UNCHANGED owed
    BY <1>3 DEF ClockWrite
  <2>2. CASE Rejected(freq) /\ UNCHANGED <<rtc, asked>>
    BY <1>2, <2>1, <2>2
       DEF IInv, TypeOK, ClockTypeOK, BaseNeverAsked, TickStillThere, AccurateClock
  <2>3. CASE freq = 0 /\ Pop(terminal_active) /\ UNCHANGED rtc
    <3>1. AskedOK(asked')
      BY <1>2, <2>3, PopType DEF IInv
    <3> QED BY <1>2, <2>1, <2>3, <3>1
            DEF IInv, TypeOK, ClockTypeOK, BaseNeverAsked, TickStillThere,
                AccurateClock, AskedOK
  <2> QED BY <1>3, <2>2, <2>3 DEF ClockWrite, Write
<1>4. CASE ~Rejected(freq) /\ freq # 0
  <2>1. SetRate(freq) /\ Ask(freq) /\ Settled
    BY <1>4 DEF ClockWrite, Write
  <2>2. AskedOK(asked')
    BY <1>1, <1>2, <2>1, AskType DEF IInv
  <2> QED BY <1>1, <1>2, <1>4, <2>1, <2>2, ResetKeepsInv
<1> QED BY <1>3, <1>4

LEMMA QuietKeepsInv == IInv /\ (ClockTick \/ ClockReadSees \/ Quiet) => IInv'
<1> SUFFICES ASSUME IInv, ClockTick \/ ClockReadSees \/ Quiet PROVE IInv'
  OBVIOUS
<1>1. UNCHANGED <<rtc, owed>>
  BY DEF ClockTick, ClockReadSees, Quiet, Tick, ReadStart, ReadSees, Execute, Halt
<1>2. terminal_active' \in Terms
  <2>1. terminal_active \in Terms
    BY DEF IInv, TypeOK
  <2>2. (terminal_active + 1) % TERMINAL_COUNT \in Terms
    BY <2>1, TermAssumption DEF Terms
  <2>3. CASE terminal_active' = terminal_active
    BY <2>1, <2>3
  <2>4. CASE terminal_active' = (terminal_active + 1) % TERMINAL_COUNT
    BY <2>2, <2>4
  <2> QED BY <2>3, <2>4 DEF ClockTick, ClockReadSees, Quiet, Tick, ReadStart, ReadSees, Execute, Halt
<1>3. AskedOK(asked')
  <2>1. CASE Execute  BY <2>1, PushType DEF IInv
  <2>2. CASE Halt  BY <2>2, PopType DEF IInv, Halt
  <2>3. CASE UNCHANGED asked  BY <2>3 DEF IInv, TypeOK, BaseNeverAsked, AskedOK
  <2> QED BY <2>1, <2>2, <2>3 DEF ClockTick, ClockReadSees, Quiet, Tick, ReadStart, ReadSees
<1>4. /\ pc' \in [Terms -> {"user", "polling", "taking"}]
      /\ \A t \in Terms : pc'[t] = "taking" => rtc[t].read_flag > 0
  <2>1. CASE UNCHANGED pc
    BY <2>1 DEF IInv, TypeOK, TickStillThere
  <2>2. CASE ReadStart
    BY <2>2 DEF IInv, TypeOK, TickStillThere, ReadStart
  <2>3. CASE ReadSees
    <3>1. rtc[terminal_active].read_flag > 0
      BY <2>3, BoundAssumption DEF IInv, TypeOK, RtcData, ReadSees, FlagSeen
    <3> QED BY <2>3, <3>1 DEF IInv, TypeOK, TickStillThere, ReadSees
  <2> QED BY <2>1, <2>2, <2>3 DEF ClockTick, ClockReadSees, Quiet, Tick, Execute, Halt
<1> QED BY <1>1, <1>2, <1>3, <1>4
        DEF IInv, TypeOK, ClockTypeOK, BaseNeverAsked, TickStillThere,
            AccurateClock, AskedOK

-----------------------------------------------------------------------------
\* The state of the clock at boot satisfies the invariant, and every step
\* keeps it.
THEOREM ClockInvariant == ClockSpec => []IInv
<1>1. ClockInit => IInv
  <2> SUFFICES ASSUME ClockInit PROVE IInv
    OBVIOUS
  <2>1. terminal_active \in Terms
    BY TermAssumption DEF ClockInit, Init, Terms
  <2>2. rtc \in [Terms -> RtcData] /\ \A t \in Terms : rtc[t].rate = Closed
    BY BoundAssumption DEF ClockInit, Init, RtcData
  <2>3. /\ asked \in [Terms -> Seq(Nat)]
        /\ \A t \in Terms : Len(asked[t]) \in 1 .. DEPTH /\ asked[t][1] = NeverAsked
    BY BoundAssumption DEF ClockInit, Init, NeverAsked
  <2>4. pc = [t \in Terms |-> "user"]
    BY DEF ClockInit, Init
  <2>5. ClockTypeOK
    BY DEF ClockInit, ClockTypeOK
  <2> QED BY <2>1, <2>2, <2>3, <2>4, <2>5
          DEF IInv, TypeOK, BaseNeverAsked, TickStillThere, AccurateClock, Closed
<1>2. IInv /\ [ClockNext]_clockVars => IInv'
  <2> SUFFICES ASSUME IInv, [ClockNext]_clockVars PROVE IInv'
    OBVIOUS
  <2>1. CASE ClockHandler  BY <2>1, HandlerKeepsInv
  <2>2. CASE ClockOpen  BY <2>2, OpenKeepsInv
  <2>3. ASSUME NEW freq \in Frequencies, ClockWrite(freq) PROVE IInv'
    BY <2>3, WriteKeepsInv
  <2>4. CASE ClockReadTakes  BY <2>4, TakeKeepsInv
  <2>5. CASE ClockTick \/ ClockReadSees \/ Quiet  BY <2>5, QuietKeepsInv
  <2>6. CASE UNCHANGED clockVars
    BY <2>6 DEF clockVars, vars, IInv, TypeOK, ClockTypeOK, BaseNeverAsked,
                TickStillThere, AccurateClock
  <2> QED BY <2>1, <2>2, <2>3, <2>4, <2>5, <2>6 DEF ClockNext
<1> QED BY <1>1, <1>2, PTL DEF ClockSpec

(***************************************************************************)
(* Every interrupt since a terminal's rate was set is accounted for by a   *)
(* tick read, a tick still to be read or the counter (rtc_handler).        *)
(***************************************************************************)
THEOREM Accurate == ClockSpec => []AccurateClock
<1>1. IInv => AccurateClock
  BY DEF IInv
<1> QED BY <1>1, ClockInvariant, PTL

(***************************************************************************)
(* rtc_read never takes a tick that is not there, however many interrupts  *)
(* and time slices fall between its poll and its cli.                      *)
(***************************************************************************)
THEOREM NeverNegative == ClockSpec => []TickStillThere
<1>1. IInv => TickStillThere
  BY DEF IInv
<1> QED BY <1>1, ClockInvariant, PTL
=============================================================================
