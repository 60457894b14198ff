--------------------------- MODULE TerminalProofs ---------------------------
(***************************************************************************)
(* Proofs about the line buffer, the command history and the screen, of    *)
(* any size: the history's indices; that the buffer, its overflow, the     *)
(* history and the reads implement the line editor; and that the screen    *)
(* shows what is in the buffer.                                            *)
(***************************************************************************)
EXTENDS TerminalProps, SequenceTheorems, FiniteSetTheorems, WellFoundedInduction, TLAPS

USE BufAssumption, SavedAssumption

\* The record of a terminal; any screen will do.
TermRecord(t) ==
    t \in [keyboard_buf   : Buffers,
           buf_idx        : Int,
           enter_flag     : BOOLEAN,
           saved_commands : [Saved -> [command : Buffers, history : BOOLEAN]],
           curr           : Saved,
           top            : Saved,
           scr            : {t.scr}]

SameHistory(t, u) == /\ u.saved_commands = t.saved_commands
                     /\ u.curr = t.curr
                     /\ u.top = t.top

-----------------------------------------------------------------------------
(***************************************************************************)
(* What the handler's functions leave in the buffer.                       *)
(***************************************************************************)
LEMMA EchoDoes ==
    ASSUME NEW t, TermRecord(t), NEW cs
    PROVE  /\ TermRecord(Echo(t, cs))
           /\ Echo(t, cs).keyboard_buf = t.keyboard_buf
           /\ Echo(t, cs).buf_idx = t.buf_idx
           /\ Echo(t, cs).enter_flag = t.enter_flag
           /\ SameHistory(t, Echo(t, cs))
<1>1. Echo(t, cs) = [t EXCEPT !.scr = DrawAll(t.scr, cs)]
  BY DEF Echo, TermRecord
<1>2. \A s : LET u == [t EXCEPT !.scr = s]
             IN  /\ TermRecord(u)
                 /\ u.keyboard_buf = t.keyboard_buf
                 /\ u.buf_idx = t.buf_idx
                 /\ u.enter_flag = t.enter_flag
                 /\ SameHistory(t, u)
  BY DEF TermRecord, SameHistory
<1>3. QED
  BY <1>1, <1>2

LEMMA PutDoes ==
    ASSUME NEW t, TermRecord(t), NEW i \in Int, NEW b \in Bytes
    PROVE  /\ TermRecord(Put(t, i, b))
           /\ Put(t, i, b).keyboard_buf = [j \in Idx |-> IF j = i THEN b ELSE t.keyboard_buf[j]]
           /\ Put(t, i, b).buf_idx = t.buf_idx
           /\ Put(t, i, b).enter_flag = t.enter_flag
           /\ SameHistory(t, Put(t, i, b))
BY DEF TermRecord, Put, Buffers, SameHistory

LEMMA TypeDoes ==
    ASSUME NEW t, TermRecord(t), NEW b \in Bytes
    PROVE  /\ TermRecord(Type(t, b))
           /\ Type(t, b).keyboard_buf =
                  [j \in Idx |-> IF j = t.buf_idx THEN b ELSE t.keyboard_buf[j]]
           /\ Type(t, b).buf_idx = t.buf_idx + 1
           /\ Type(t, b).enter_flag = t.enter_flag
           /\ SameHistory(t, Type(t, b))
<1> DEFINE p == Put(t, t.buf_idx, b)
           u == [p EXCEPT !.buf_idx = @ + 1]
<1>1. t.buf_idx \in Int
  BY DEF TermRecord
<1>2. /\ TermRecord(p) /\ SameHistory(t, p)
      /\ p.keyboard_buf = [j \in Idx |-> IF j = t.buf_idx THEN b ELSE t.keyboard_buf[j]]
      /\ p.buf_idx = t.buf_idx /\ p.enter_flag = t.enter_flag
  BY <1>1, PutDoes
<1> HIDE DEF p
<1>3. /\ TermRecord(u) /\ SameHistory(t, u)
      /\ u.keyboard_buf = p.keyboard_buf
      /\ u.buf_idx = t.buf_idx + 1 /\ u.enter_flag = t.enter_flag
  BY <1>1, <1>2 DEF TermRecord, SameHistory
<1>4. Type(t, b) = Echo(u, <<GlyphOf(b)>>)
  BY DEF Type, p
<1> HIDE DEF u
<1>5. QED
  BY <1>2, <1>3, <1>4, EchoDoes DEF SameHistory

\* clear_keyboard_buf without the erasing.
Emptied(t) == [t EXCEPT !.keyboard_buf = EmptyBuffer, !.buf_idx = 0]

LEMMA EmptiedDoes ==
    ASSUME NEW t, TermRecord(t)
    PROVE  /\ TermRecord(Emptied(t))
           /\ Emptied(t).keyboard_buf = EmptyBuffer
           /\ Emptied(t).buf_idx = 0
           /\ Emptied(t).enter_flag = t.enter_flag
           /\ SameHistory(t, Emptied(t))
<1>1. EmptyBuffer \in Buffers /\ 0 \in Int
  BY DEF EmptyBuffer, Buffers, Bytes
<1>2. /\ Emptied(t).keyboard_buf = EmptyBuffer /\ Emptied(t).buf_idx = 0
      /\ Emptied(t).enter_flag = t.enter_flag /\ SameHistory(t, Emptied(t))
      /\ Emptied(t).scr = t.scr
  BY DEF TermRecord, SameHistory, Emptied
<1>3. TermRecord(Emptied(t))
  BY <1>1, <1>2, Zenon DEF TermRecord, Emptied
<1>4. QED
  BY <1>2, <1>3

LEMMA ClearDoes ==
    ASSUME NEW t, TermRecord(t)
    PROVE  /\ TermRecord(ClearBuf(t))
           /\ ClearBuf(t).keyboard_buf = EmptyBuffer
           /\ ClearBuf(t).buf_idx = 0
           /\ ClearBuf(t).enter_flag = t.enter_flag
           /\ SameHistory(t, ClearBuf(t))
<1>1. PICK n : ClearBuf(t) = Emptied(Erased(t, n))
  BY DEF ClearBuf, Emptied
<1>2. /\ TermRecord(Erased(t, n)) /\ Erased(t, n).enter_flag = t.enter_flag
      /\ SameHistory(t, Erased(t, n))
  BY EchoDoes DEF Erased
<1>3. QED
  BY <1>1, <1>2, EmptiedDoes DEF SameHistory

\* The line that ends at n: nothing follows it.
Ended(b, n) == \A i \in Idx : IF i < n THEN b[i] \notin {Nul, NL} ELSE b[i] = Nul

\* A set of numbers has a least one.
LEMMA LeastOf ==
    ASSUME NEW T \in SUBSET Nat, T # {}
    PROVE  \E n \in T : \A m \in T : n <= m
<1> DEFINE R == OpToRel(<, Nat)
<1>1. IsWellFoundedOn(R, Nat)
  BY NatLessThanWellFounded
<1>2. \A x \in Nat, y \in Nat : <<y, x>> \in R <=> y < x
  BY DEF OpToRel
<1> HIDE DEF R
<1>3. PICK x \in T : \A y \in T : ~ (<<y, x>> \in R)
  BY <1>1, WFMin
<1>4. \A y \in T : ~ (y < x)
  <2> SUFFICES ASSUME NEW y \in T, y < x PROVE FALSE
    OBVIOUS
  <2>1. x \in Nat /\ y \in Nat
    OBVIOUS
  <2>2. <<y, x>> \in R
    BY <1>2, <2>1
  <2>3. QED
    BY <1>3, <2>2
<1>5. QED
  BY <1>4

LEMMA FirstNul ==
    ASSUME NEW b \in Buffers
    PROVE  \E n \in 0 .. BUF_SIZE : /\ \A i \in 0 .. n - 1 : b[i] # Nul
                                    /\ n = BUF_SIZE \/ b[n] = Nul
<1> DEFINE T == {n \in 0 .. BUF_SIZE : n = BUF_SIZE \/ b[n] = Nul}
<1>1. T \in SUBSET Nat /\ BUF_SIZE \in T
  OBVIOUS
<1>2. PICK n \in T : \A m \in T : n <= m
  <2> HIDE DEF T
  <2>1. QED
    BY <1>1, LeastOf
<1>3. \A i \in 0 .. n - 1 : b[i] # Nul
  <2> SUFFICES ASSUME NEW i \in 0 .. n - 1, b[i] = Nul PROVE FALSE
    OBVIOUS
  <2>1. i \in T
    OBVIOUS
  <2>2. QED
    BY <1>2, <2>1
<1>4. QED
  BY <1>3

\* The buffer keeps a command's bytes up to the first null.
LEMMA LengthIs ==
    ASSUME NEW b \in Buffers, NEW n \in 0 .. BUF_SIZE, NEW max \in 0 .. BUF_SIZE,
           \A i \in 0 .. n - 1 : b[i] # Nul, n = BUF_SIZE \/ b[n] = Nul
    PROVE  Length(b, max) = IF n < max THEN n ELSE max
<1> DEFINE m == IF n < max THEN n ELSE max
<1>1. m \in 0 .. max /\ (m = max \/ b[m] = Nul) /\ \A i \in 0 .. m - 1 : b[i] # Nul
  OBVIOUS
<1>2. \A k \in 0 .. max : (k = max \/ b[k] = Nul) /\ (\A i \in 0 .. k - 1 : b[i] # Nul) => k = m
  OBVIOUS
<1> HIDE DEF m
<1>3. Length(b, max) = m
  BY <1>1, <1>2 DEF Length
<1>4. QED
  BY <1>3 DEF m

-----------------------------------------------------------------------------
(***************************************************************************)
(* The history.  curr and top stay in it, and the slot before top holds    *)
(* the last command: so TypeCommandDown never gets around the array        *)
(* without finding a place to stop.                                        *)
(***************************************************************************)
Hist(t) == (\E i \in Saved : Viewable(t, i)) \/ t.top # 0 => Viewable(t, Up(t.top, 1))

LEMMA Slots ==
    ASSUME NEW i \in Saved, NEW k \in 1 .. SAVED_COMMANDS_SIZE
    PROVE  Up(i, k) \in Saved /\ Down(i, k) \in Saved
BY DEF Up, Down, Saved

LEMMA Around ==
    ASSUME NEW i \in Saved
    PROVE  Up(Down(i, 1), 1) = i
<1>1. CASE i + 1 = SAVED_COMMANDS_SIZE
  <2>1. Down(i, 1) = 0
    BY <1>1 DEF Down, Saved
  <2>2. Up(0, 1) = SAVED_COMMANDS_SIZE - 1
    BY DEF Up
  <2>3. QED
    BY <1>1, <2>1, <2>2 DEF Saved
<1>2. CASE i + 1 < SAVED_COMMANDS_SIZE
  <2>1. Down(i, 1) = i + 1
    BY <1>2 DEF Down, Saved
  <2>2. (i + SAVED_COMMANDS_SIZE) % SAVED_COMMANDS_SIZE = i
    BY DEF Saved
  <2>3. Up(i + 1, 1) = i
    BY <2>2 DEF Up, Saved
  <2>4. QED
    BY <2>1, <2>3
<1>3. QED
  BY <1>1, <1>2 DEF Saved

LEMMA Reaches ==
    ASSUME NEW i \in Saved, NEW j \in Saved
    PROVE  \E k \in 1 .. SAVED_COMMANDS_SIZE : Down(i, k) = j
<1>1. CASE i < j
  <2>1. j - i \in 1 .. SAVED_COMMANDS_SIZE /\ Down(i, j - i) = j
    BY <1>1 DEF Down, Saved
  <2>2. QED
    BY <2>1
<1>2. CASE j <= i
  <2> DEFINE k == SAVED_COMMANDS_SIZE + j - i
  <2>1. k \in 1 .. SAVED_COMMANDS_SIZE
    BY <1>2 DEF Saved
  <2>2. (j + SAVED_COMMANDS_SIZE) % SAVED_COMMANDS_SIZE = j
    BY DEF Saved
  <2>3. Down(i, k) = j
    BY <2>2 DEF Down, Saved
  <2>4. QED
    BY <2>1, <2>3
<1>3. QED
  BY <1>1, <1>2 DEF Saved

\* Every function but SaveCommand keeps what Hist is about.
LEMMA HistKept ==
    ASSUME NEW t, TermRecord(t), NEW u, Hist(t), u.top = t.top,
           \A i \in Saved : Viewable(u, i) = Viewable(t, i)
    PROVE  Hist(u)
<1>1. t.top \in Saved /\ 1 \in 1 .. SAVED_COMMANDS_SIZE
  BY DEF TermRecord
<1>2. Up(t.top, 1) \in Saved
  BY <1>1, Slots
<1>3. QED
  BY <1>2 DEF Hist

LEMMA SaveDoes ==
    ASSUME NEW t, TermRecord(t), Hist(t)
    PROVE  LET u == SaveCommand(t)
           IN  /\ TermRecord(u) /\ Hist(u)
               /\ u.keyboard_buf = t.keyboard_buf
               /\ u.buf_idx = t.buf_idx
               /\ u.enter_flag = t.enter_flag
               /\ \A i \in Saved : \/ u.saved_commands[i].command = t.saved_commands[i].command
                                   \/ u.saved_commands[i].command = t.keyboard_buf
<1>1. CASE t.buf_idx = 0
  BY <1>1 DEF SaveCommand
<1>2. CASE t.buf_idx # 0
  <2> DEFINE next == (t.top + 1) % SAVED_COMMANDS_SIZE
             saved == [[t.saved_commands EXCEPT ![t.curr].history = FALSE]
                          EXCEPT ![t.top] = [command |-> t.keyboard_buf, history |-> TRUE]]
             u == [t EXCEPT !.saved_commands = saved, !.top = next, !.curr = next]
  <2>1. t.top \in Saved /\ t.curr \in Saved /\ next = Down(t.top, 1)
    BY DEF TermRecord, Down
  <2>2. next \in Saved
    BY <2>1, Slots
  <2>3. /\ saved \in [Saved -> [command : Buffers, history : BOOLEAN]]
        /\ saved[t.top].history = TRUE
        /\ \A i \in Saved : \/ saved[i].command = t.saved_commands[i].command
                            \/ saved[i].command = t.keyboard_buf
    BY <2>1 DEF TermRecord
  <2>4. SaveCommand(t) = u
    BY <1>2, <2>1, <2>3 DEF SaveCommand, TermRecord
  <2> HIDE DEF saved, next
  <2>5. /\ u.saved_commands = saved /\ u.top = next /\ u.curr = next /\ u.scr = t.scr
        /\ u.keyboard_buf = t.keyboard_buf /\ u.buf_idx = t.buf_idx
        /\ u.enter_flag = t.enter_flag
    BY DEF TermRecord
  <2>6. TermRecord(u)
    BY <2>2, <2>3, <2>5 DEF TermRecord
  <2>7. Hist(u)
    BY <2>1, <2>3, <2>5, Around DEF Hist, Viewable
  <2>8. QED
    BY <2>3, <2>4, <2>5, <2>6, <2>7
<1>3. QED
  BY <1>1, <1>2

LEMMA KeptDoes ==
    ASSUME NEW t, TermRecord(t)
    PROVE  LET u == Kept(t)
           IN  /\ TermRecord(u)
               /\ u.keyboard_buf = t.keyboard_buf
               /\ u.buf_idx = t.buf_idx
               /\ u.enter_flag = t.enter_flag
               /\ u.curr = t.curr /\ u.top = t.top
               /\ \A i \in Saved :
                     /\ Viewable(u, i) = Viewable(t, i)
                     /\ u.saved_commands[i].command =
                           IF i = t.curr THEN t.keyboard_buf ELSE t.saved_commands[i].command
<1> DEFINE saved == [t.saved_commands EXCEPT ![t.curr].command = t.keyboard_buf]
           u == [t EXCEPT !.saved_commands = saved]
<1>1. /\ saved \in [Saved -> [command : Buffers, history : BOOLEAN]]
      /\ \A i \in Saved : /\ saved[i].history = t.saved_commands[i].history
                          /\ saved[i].command = IF i = t.curr THEN t.keyboard_buf
                                                ELSE t.saved_commands[i].command
  BY DEF TermRecord
<1>2. Kept(t) = u
  BY DEF Kept, TermRecord
<1> HIDE DEF saved
<1>3. /\ u.saved_commands = saved /\ u.top = t.top /\ u.curr = t.curr /\ u.scr = t.scr
      /\ u.keyboard_buf = t.keyboard_buf /\ u.buf_idx = t.buf_idx
      /\ u.enter_flag = t.enter_flag
  BY DEF TermRecord
<1>4. TermRecord(u)
  BY <1>1, <1>3 DEF TermRecord
<1>5. QED
  BY <1>1, <1>2, <1>3, <1>4 DEF Viewable

\* The cursor in the history is all that moves.
LEMMA MovedDoes ==
    ASSUME NEW t, TermRecord(t), NEW i \in Saved
    PROVE  LET u == [t EXCEPT !.curr = i]
           IN  /\ TermRecord(u)
               /\ u.keyboard_buf = t.keyboard_buf
               /\ u.buf_idx = t.buf_idx
               /\ u.enter_flag = t.enter_flag
               /\ u.saved_commands = t.saved_commands
               /\ u.curr = i /\ u.top = t.top
BY DEF TermRecord

LEMMA TypeSavedDoes ==
    ASSUME NEW t, TermRecord(t)
    PROVE  LET u == TypeSaved(t)
               c == t.saved_commands[t.curr].command
               n == Length(c, BUF_SIZE)
           IN  /\ TermRecord(u)
               /\ u.keyboard_buf = [i \in Idx |-> IF i < n THEN c[i] ELSE t.keyboard_buf[i]]
               /\ u.buf_idx = n
               /\ u.enter_flag = t.enter_flag
               /\ SameHistory(t, u)
<1> DEFINE c == t.saved_commands[t.curr].command
           n == Length(c, BUF_SIZE)
           b == [i \in Idx |-> IF i < n THEN c[i] ELSE t.keyboard_buf[i]]
           u == [t EXCEPT !.keyboard_buf = b, !.buf_idx = n]
<1>1. c \in Buffers
  BY DEF TermRecord
<1>2. n \in Int
  <2>1. BUF_SIZE \in 0 .. BUF_SIZE
    OBVIOUS
  <2>2. PICK m \in 0 .. BUF_SIZE : (\A i \in 0 .. m - 1 : c[i] # Nul)
                                   /\ (m = BUF_SIZE \/ c[m] = Nul)
    BY <1>1, FirstNul
  <2>3. QED
    BY <1>1, <2>1, <2>2, LengthIs
<1>3. b \in Buffers
  BY <1>1 DEF TermRecord, Buffers
<1>4. TypeSaved(t) = Echo(u, [i \in 1 .. n |-> GlyphOf(c[i - 1])])
  BY DEF TypeSaved, TermRecord
<1> HIDE DEF b, n
<1>5. /\ u.keyboard_buf = b /\ u.buf_idx = n /\ u.scr = t.scr
      /\ u.enter_flag = t.enter_flag /\ SameHistory(t, u)
  BY DEF TermRecord, SameHistory
<1>6. TermRecord(u)
  BY <1>2, <1>3, <1>5, Zenon DEF TermRecord
<1> HIDE DEF u
<1>7. QED
  BY <1>4, <1>5, <1>6, EchoDoes DEF SameHistory, b, n

-----------------------------------------------------------------------------
(***************************************************************************)
(* What the keys that print do.                                            *)
(***************************************************************************)
\* Setting buf_idx or enter_flag changes nothing else.
LEMMA IndexDoes ==
    ASSUME NEW t, TermRecord(t), NEW n \in Int
    PROVE  LET u == [t EXCEPT !.buf_idx = n]
           IN  /\ TermRecord(u) /\ SameHistory(t, u)
               /\ u.keyboard_buf = t.keyboard_buf
               /\ u.buf_idx = n
               /\ u.enter_flag = t.enter_flag
BY DEF TermRecord, SameHistory

LEMMA FlagDoes ==
    ASSUME NEW t, TermRecord(t), NEW f \in BOOLEAN
    PROVE  LET u == [t EXCEPT !.enter_flag = f]
           IN  /\ TermRecord(u) /\ SameHistory(t, u)
               /\ u.keyboard_buf = t.keyboard_buf
               /\ u.buf_idx = t.buf_idx
               /\ u.enter_flag = f
BY DEF TermRecord, SameHistory

LEMMA BackspaceDoes ==
    ASSUME NEW t, TermRecord(t)
    PROVE  LET u == BackspacePressed(t)
               i == t.buf_idx - 1
           IN  /\ TermRecord(u) /\ SameHistory(t, u)
               /\ u.enter_flag = t.enter_flag
               /\ t.buf_idx = 0 => u = t
               /\ t.buf_idx # 0 /\ t.keyboard_buf[i] # Tab =>
                     /\ u.keyboard_buf = [j \in Idx |-> IF j = i THEN Nul ELSE t.keyboard_buf[j]]
                     /\ u.buf_idx = i
<1> DEFINE i == t.buf_idx - 1
<1>1. /\ t.buf_idx \in Int /\ i \in Int /\ i - 1 \in Int /\ i - 2 \in Int /\ i - 3 \in Int
      /\ Nul \in Bytes
  BY DEF TermRecord, Bytes
<1>2. CASE t.buf_idx = 0
  BY <1>2 DEF BackspacePressed, SameHistory
<1>3. CASE t.buf_idx # 0 /\ t.keyboard_buf[i] # Tab
  <2> DEFINE p == Put(t, i, Nul)
  <2>1. BackspacePressed(t) = [p EXCEPT !.buf_idx = i]
    BY <1>3 DEF BackspacePressed
  <2>2. /\ TermRecord(p) /\ SameHistory(t, p) /\ p.enter_flag = t.enter_flag
        /\ p.keyboard_buf = [j \in Idx |-> IF j = i THEN Nul ELSE t.keyboard_buf[j]]
    BY <1>1, PutDoes
  <2> HIDE DEF p
  <2>3. QED
    BY <1>1, <1>3, <2>1, <2>2, IndexDoes DEF SameHistory
<1>4. CASE t.buf_idx # 0 /\ t.keyboard_buf[i] = Tab
  <2> DEFINE e == Erased(t, 3)
             p == Put(e, i, Nul)
             q == Put(p, i - 1, Nul)
             r == Put(q, i - 2, Nul)
  <2>1. BackspacePressed(t) = [r EXCEPT !.buf_idx = i - 3]
    BY <1>4 DEF BackspacePressed
  <2>2. TermRecord(e) /\ SameHistory(t, e) /\ e.enter_flag = t.enter_flag
    BY EchoDoes DEF Erased
  <2> HIDE DEF e
  <2>3. TermRecord(p) /\ SameHistory(e, p) /\ p.enter_flag = e.enter_flag
    BY <1>1, <2>2, PutDoes
  <2> HIDE DEF p
  <2>4. TermRecord(q) /\ SameHistory(p, q) /\ q.enter_flag = p.enter_flag
    BY <1>1, <2>3, PutDoes
  <2> HIDE DEF q
  <2>5. TermRecord(r) /\ SameHistory(q, r) /\ r.enter_flag = q.enter_flag
    BY <1>1, <2>4, PutDoes
  <2> HIDE DEF r
  <2>6. LET u == [r EXCEPT !.buf_idx = i - 3]
        IN  TermRecord(u) /\ SameHistory(r, u) /\ u.enter_flag = r.enter_flag
    BY <1>1, <2>5, IndexDoes
  <2>7. QED
    BY <1>4, <2>1, <2>2, <2>3, <2>4, <2>5, <2>6 DEF SameHistory
<1>5. QED
  BY <1>2, <1>3, <1>4

TabFits(t) == t.buf_idx + 4 < BUF_SIZE - 1

LEMMA TabDoes ==
    ASSUME NEW t, TermRecord(t)
    PROVE  LET u == AddTab(t)
               n == t.buf_idx
           IN  /\ TermRecord(u) /\ SameHistory(t, u)
               /\ u.enter_flag = t.enter_flag
               /\ ~TabFits(t) => u = t
               /\ TabFits(t) =>
                     /\ u.keyboard_buf =
                           [j \in Idx |-> IF j \in n .. n + 2 THEN Space
                                          ELSE IF j = n + 3 THEN Tab ELSE t.keyboard_buf[j]]
                     /\ u.buf_idx = n + 4
<1> DEFINE n == t.buf_idx
<1>1. n \in Int /\ n + 4 \in Int /\ n + 3 \in Int /\ Space \in Bytes /\ Tab \in Bytes
  BY DEF TermRecord, Bytes
<1>2. CASE ~TabFits(t)
  BY <1>1, <1>2 DEF AddTab, SameHistory, TabFits
<1>3. CASE TabFits(t)
  <2> DEFINE a == Type(t, Space)
             b == Type(a, Space)
             c == Type(b, Space)
             p == Put(c, n + 3, Tab)
             q == [p EXCEPT !.buf_idx = n + 4]
  <2>1. AddTab(t) = Echo(q, <<Blank>>)
    BY <1>1, <1>3 DEF AddTab, TabFits
  <2>2. /\ TermRecord(a) /\ SameHistory(t, a) /\ a.enter_flag = t.enter_flag
        /\ a.buf_idx = n + 1
        /\ a.keyboard_buf = [j \in Idx |-> IF j = n THEN Space ELSE t.keyboard_buf[j]]
    BY <1>1, TypeDoes
  <2> HIDE DEF a
  <2>3. /\ TermRecord(b) /\ SameHistory(a, b) /\ b.enter_flag = a.enter_flag
        /\ b.buf_idx = n + 2
        /\ b.keyboard_buf = [j \in Idx |-> IF j = n + 1 THEN Space ELSE a.keyboard_buf[j]]
    BY <1>1, <2>2, TypeDoes
  <2> HIDE DEF b
  <2>4. /\ TermRecord(c) /\ SameHistory(b, c) /\ c.enter_flag = b.enter_flag
        /\ c.keyboard_buf = [j \in Idx |-> IF j = n + 2 THEN Space ELSE b.keyboard_buf[j]]
    BY <1>1, <2>3, TypeDoes
  <2> HIDE DEF c
  <2>5. /\ TermRecord(p) /\ SameHistory(c, p) /\ p.enter_flag = c.enter_flag
        /\ p.keyboard_buf = [j \in Idx |-> IF j = n + 3 THEN Tab ELSE c.keyboard_buf[j]]
    BY <1>1, <2>4, PutDoes
  <2> HIDE DEF p
  <2>6. /\ TermRecord(q) /\ SameHistory(p, q) /\ q.enter_flag = p.enter_flag
        /\ q.buf_idx = n + 4 /\ q.keyboard_buf = p.keyboard_buf
    BY <1>1, <2>5, IndexDoes
  <2> HIDE DEF q
  <2>7. /\ TermRecord(AddTab(t)) /\ SameHistory(q, AddTab(t))
        /\ AddTab(t).enter_flag = q.enter_flag
        /\ AddTab(t).buf_idx = q.buf_idx /\ AddTab(t).keyboard_buf = q.keyboard_buf
    BY <2>1, <2>6, EchoDoes
  <2>8. p.keyboard_buf = [j \in Idx |-> IF j \in n .. n + 2 THEN Space
                                        ELSE IF j = n + 3 THEN Tab ELSE t.keyboard_buf[j]]
    <3>1. \A j \in Idx : j \in n .. n + 2 <=> j = n \/ j = n + 1 \/ j = n + 2
      BY <1>1 DEF Idx
    <3>2. n + 3 # n /\ n + 3 # n + 1 /\ n + 3 # n + 2
      BY <1>1
    <3>3. \A j \in Idx : p.keyboard_buf[j] = IF j \in n .. n + 2 THEN Space
                                             ELSE IF j = n + 3 THEN Tab ELSE t.keyboard_buf[j]
      <4> SUFFICES ASSUME NEW j \in Idx
                   PROVE  p.keyboard_buf[j] = IF j \in n .. n + 2 THEN Space
                                              ELSE IF j = n + 3 THEN Tab ELSE t.keyboard_buf[j]
        OBVIOUS
      <4> HIDE DEF n
      <4>1. /\ a.keyboard_buf[j] = IF j = n THEN Space ELSE t.keyboard_buf[j]
            /\ b.keyboard_buf[j] = IF j = n + 1 THEN Space ELSE a.keyboard_buf[j]
            /\ c.keyboard_buf[j] = IF j = n + 2 THEN Space ELSE b.keyboard_buf[j]
            /\ p.keyboard_buf[j] = IF j = n + 3 THEN Tab ELSE c.keyboard_buf[j]
        BY <2>2, <2>3, <2>4, <2>5, Zenon
      <4>2. QED
        BY <3>1, <3>2, <4>1
    <3>4. QED
      BY <2>5, <3>3
  <2>9. QED
    BY <1>3, <2>2, <2>3, <2>4, <2>5, <2>6, <2>7, <2>8 DEF SameHistory
<1>4. QED
  BY <1>2, <1>3

LEMMA FullDoes ==
    ASSUME NEW t, TermRecord(t), NEW key
    PROVE  LET u == FullBuffer(t, key)
           IN  /\ TermRecord(u) /\ SameHistory(t, u)
               /\ key # "enter" => u = t
               /\ key = "enter" =>
                     /\ u.keyboard_buf =
                           [j \in Idx |-> IF j = BUF_SIZE - 1 THEN NL ELSE t.keyboard_buf[j]]
                     /\ u.buf_idx = t.buf_idx
                     /\ u.enter_flag = TRUE
<1>1. BUF_SIZE - 1 \in Int /\ NL \in Bytes
  BY DEF Bytes
<1>2. CASE key # "enter"
  BY <1>2 DEF FullBuffer, SameHistory
<1>3. CASE key = "enter"
  <2> DEFINE p == Put(t, BUF_SIZE - 1, NL)
             q == [p EXCEPT !.enter_flag = TRUE]
  <2>1. FullBuffer(t, key) = Echo(q, <<NL>>)
    BY <1>3 DEF FullBuffer
  <2>2. /\ TermRecord(p) /\ SameHistory(t, p) /\ p.buf_idx = t.buf_idx
        /\ p.keyboard_buf = [j \in Idx |-> IF j = BUF_SIZE - 1 THEN NL ELSE t.keyboard_buf[j]]
    BY <1>1, PutDoes
  <2> HIDE DEF p
  <2>3. /\ TermRecord(q) /\ SameHistory(p, q) /\ q.buf_idx = p.buf_idx
        /\ q.keyboard_buf = p.keyboard_buf /\ q.enter_flag = TRUE
    BY <2>2, FlagDoes
  <2> HIDE DEF q
  <2>4. QED
    BY <1>3, <2>1, <2>2, <2>3, EchoDoes DEF SameHistory
<1>4. QED
  BY <1>2, <1>3

LEMMA EnterDoes ==
    ASSUME NEW t, TermRecord(t), Hist(t)
    PROVE  LET u == AddEnter(t)
           IN  /\ TermRecord(u) /\ Hist(u)
               /\ ~t.enter_flag =>
                     /\ u.keyboard_buf =
                           [j \in Idx |-> IF j = t.buf_idx THEN NL ELSE t.keyboard_buf[j]]
                     /\ u.buf_idx = t.buf_idx + 1
                     /\ u.enter_flag = TRUE
                     /\ \A i \in Saved :
                           \/ u.saved_commands[i].command = t.saved_commands[i].command
                           \/ u.saved_commands[i].command = t.keyboard_buf
<1>1. CASE t.enter_flag
  BY <1>1 DEF AddEnter
<1>2. CASE ~t.enter_flag
  <2> DEFINE p == SaveCommand(t)
             q == Type(p, NL)
             u == [q EXCEPT !.enter_flag = TRUE]
  <2>1. AddEnter(t) = u
    BY <1>2 DEF AddEnter
  <2>2. /\ TermRecord(p) /\ Hist(p)
        /\ p.keyboard_buf = t.keyboard_buf /\ p.buf_idx = t.buf_idx
        /\ \A i \in Saved : \/ p.saved_commands[i].command = t.saved_commands[i].command
                            \/ p.saved_commands[i].command = t.keyboard_buf
    BY SaveDoes
  <2> HIDE DEF p
  <2>3. NL \in Bytes
    BY DEF Bytes
  <2>4. /\ TermRecord(q) /\ SameHistory(p, q) /\ q.buf_idx = p.buf_idx + 1
        /\ q.keyboard_buf = [j \in Idx |-> IF j = p.buf_idx THEN NL ELSE p.keyboard_buf[j]]
    BY <2>2, <2>3, TypeDoes
  <2> HIDE DEF q
  <2>5. /\ TermRecord(u) /\ SameHistory(q, u) /\ u.buf_idx = q.buf_idx
        /\ u.keyboard_buf = q.keyboard_buf /\ u.enter_flag = TRUE
    BY <2>4, FlagDoes
  <2> HIDE DEF u
  <2>6. Hist(u)
    BY <2>2, <2>4, <2>5, HistKept DEF SameHistory, Viewable
  <2>7. QED
    BY <2>1, <2>2, <2>4, <2>5, <2>6 DEF SameHistory
<1>3. QED
  BY <1>1, <1>2

-----------------------------------------------------------------------------
(***************************************************************************)
(* What Up and Down do: they put the line where the cursor is, and the     *)
(* line becomes empty or the command where the cursor comes.               *)
(***************************************************************************)
Recalls(t, u) ==
    LET c == u.saved_commands[u.curr].command
        n == Length(c, BUF_SIZE)
    IN  \/ u.keyboard_buf = EmptyBuffer /\ u.buf_idx = 0
        \/ /\ u.keyboard_buf = [i \in Idx |-> IF i < n THEN c[i] ELSE Nul]
           /\ u.buf_idx = n

SavedFrom(t, u) == \A i \in Saved : u.saved_commands[i].command =
                   IF i = t.curr THEN t.keyboard_buf ELSE t.saved_commands[i].command

LEMMA ViewDoes ==
    ASSUME NEW t, TermRecord(t), Hist(t), NEW i \in Saved
    PROVE  LET d == [ClearBuf(Kept(t)) EXCEPT !.curr = i]
               s == TypeSaved(d)
           IN  /\ TermRecord(d) /\ Hist(d) /\ d.enter_flag = t.enter_flag
               /\ Recalls(t, d) /\ SavedFrom(t, d)
               /\ TermRecord(s) /\ Hist(s) /\ s.enter_flag = t.enter_flag
               /\ Recalls(t, s) /\ SavedFrom(t, s)
<1> DEFINE k == Kept(t)
           u == ClearBuf(k)
           d == [u EXCEPT !.curr = i]
           s == TypeSaved(d)
<1>1. /\ TermRecord(k) /\ k.enter_flag = t.enter_flag /\ k.top = t.top /\ SavedFrom(t, k)
      /\ \A j \in Saved : Viewable(k, j) = Viewable(t, j)
  BY KeptDoes DEF SavedFrom
<1> HIDE DEF k
<1>2. /\ TermRecord(u) /\ u.enter_flag = k.enter_flag /\ SameHistory(k, u)
      /\ u.keyboard_buf = EmptyBuffer /\ u.buf_idx = 0
  BY <1>1, ClearDoes
<1> HIDE DEF u
<1>3. /\ TermRecord(d) /\ d.enter_flag = u.enter_flag /\ d.top = u.top
      /\ d.keyboard_buf = u.keyboard_buf /\ d.buf_idx = u.buf_idx
      /\ d.saved_commands = u.saved_commands
  BY <1>2, MovedDoes
<1> HIDE DEF d
<1>4. d.top = t.top /\ \A j \in Saved : Viewable(d, j) = Viewable(t, j)
  BY <1>1, <1>2, <1>3 DEF SameHistory, Viewable
<1>5. Hist(d) /\ SavedFrom(t, d)
  BY <1>1, <1>2, <1>3, <1>4, HistKept DEF SameHistory, SavedFrom
<1> DEFINE c == d.saved_commands[d.curr].command
           n == Length(c, BUF_SIZE)
<1>6. /\ TermRecord(s) /\ s.enter_flag = d.enter_flag /\ SameHistory(d, s)
      /\ s.keyboard_buf = [j \in Idx |-> IF j < n THEN c[j] ELSE d.keyboard_buf[j]]
      /\ s.buf_idx = n
  BY <1>3, TypeSavedDoes
<1>7. [j \in Idx |-> IF j < n THEN c[j] ELSE d.keyboard_buf[j]]
         = [j \in Idx |-> IF j < n THEN c[j] ELSE Nul]
  BY <1>2, <1>3 DEF EmptyBuffer
<1> HIDE DEF s
<1>8. s.top = d.top /\ \A j \in Saved : Viewable(s, j) = Viewable(d, j)
  BY <1>6 DEF SameHistory, Viewable
<1>9. Hist(s) /\ SavedFrom(t, s) /\ Recalls(t, s)
  <2>1. Hist(s)
    BY <1>3, <1>5, <1>8, HistKept
  <2>2. SavedFrom(t, s)
    BY <1>5, <1>6 DEF SameHistory, SavedFrom
  <2>3. s.saved_commands[s.curr].command = c
    BY <1>6 DEF SameHistory
  <2>4. Recalls(t, s)
    BY <1>6, <1>7, <2>3 DEF Recalls
  <2>5. QED
    BY <2>1, <2>2, <2>4
<1>10. QED
  BY <1>1, <1>2, <1>3, <1>5, <1>6, <1>9 DEF Recalls, d, u, k, s

\* Both visit a command, or a place without one.
Visits(t, u) == \E i \in Saved : LET d == [ClearBuf(Kept(t)) EXCEPT !.curr = i]
                                 IN  u \in {d, TypeSaved(d)}

LEMMA UpVisits ==
    ASSUME NEW t, TermRecord(t)
    PROVE  Visits(t, TypeCommandUp(t))
<1> DEFINE u == ClearBuf(Kept(t))
           found == {k \in 1 .. SAVED_COMMANDS_SIZE : Viewable(u, Up(t.curr, k))}
           k == CHOOSE k \in found : \A j \in found : k <= j
<1>1. t.curr \in Saved
  BY DEF TermRecord
<1>2. CASE found = {}
  <2>1. Up(t.curr, 1) \in Saved
    BY <1>1, Slots
  <2>2. TypeCommandUp(t) = [u EXCEPT !.curr = Up(t.curr, 1)]
    BY <1>2 DEF TypeCommandUp
  <2>3. QED
    BY <2>1, <2>2 DEF Visits
<1>3. CASE found # {}
  <2>1. k \in found
    <3>1. \E m \in found : \A j \in found : m <= j
      <4>1. found \in SUBSET Nat
        OBVIOUS
      <4> HIDE DEF found
      <4>2. QED
        BY <1>3, <4>1, LeastOf
    <3> HIDE DEF found
    <3>2. QED
      BY <3>1
  <2>2. Up(t.curr, k) \in Saved
    <3>1. k \in 1 .. SAVED_COMMANDS_SIZE
      BY <2>1
    <3> HIDE DEF k
    <3>2. QED
      BY <1>1, <3>1, Slots
  <2>3. TypeCommandUp(t) = TypeSaved([u EXCEPT !.curr = Up(t.curr, k)])
    BY <1>3 DEF TypeCommandUp
  <2> HIDE DEF k
  <2>4. QED
    BY <2>2, <2>3 DEF Visits
<1>4. QED
  BY <1>2, <1>3

\* What either leaves: the recalled command, or nothing, and the history as it was kept.
LEMMA VisitDoes ==
    ASSUME NEW t, TermRecord(t), Hist(t), NEW u, Visits(t, u)
    PROVE  /\ TermRecord(u) /\ Hist(u) /\ u.enter_flag = t.enter_flag
           /\ Recalls(t, u) /\ SavedFrom(t, u)
<1>1. PICK i \in Saved : LET d == [ClearBuf(Kept(t)) EXCEPT !.curr = i]
                         IN  u \in {d, TypeSaved(d)}
  BY DEF Visits
<1>2. PICK d : d = [ClearBuf(Kept(t)) EXCEPT !.curr = i]
  OBVIOUS
<1>3. /\ TermRecord(d) /\ Hist(d) /\ d.enter_flag = t.enter_flag
      /\ Recalls(t, d) /\ SavedFrom(t, d)
      /\ TermRecord(TypeSaved(d)) /\ Hist(TypeSaved(d)) /\ TypeSaved(d).enter_flag = t.enter_flag
      /\ Recalls(t, TypeSaved(d)) /\ SavedFrom(t, TypeSaved(d))
  BY <1>2, ViewDoes
<1>4. u = d \/ u = TypeSaved(d)
  BY <1>1, <1>2
<1>5. QED
  BY <1>3, <1>4

LEMMA UpDoes ==
    ASSUME NEW t, TermRecord(t), Hist(t)
    PROVE  LET u == TypeCommandUp(t)
           IN  /\ TermRecord(u) /\ Hist(u) /\ u.enter_flag = t.enter_flag
               /\ Recalls(t, u) /\ SavedFrom(t, u)
<1>1. Visits(t, TypeCommandUp(t))
  BY UpVisits
<1>2. QED
  BY <1>1, VisitDoes

\* The search ends: at top, or at the last command, which stands before it.
LEMMA DownStops ==
    ASSUME NEW t, TermRecord(t), Hist(t), t.curr # t.top,
           NEW u, u.top = t.top, \A i \in Saved : Viewable(u, i) = Viewable(t, i)
    PROVE  \E k \in 1 .. SAVED_COMMANDS_SIZE :
               Viewable(u, Down(t.curr, k)) \/ Stops(u, Down(t.curr, k))
<1>1. t.top \in Saved /\ t.curr \in Saved
  BY DEF TermRecord
<1>2. CASE t.top # SAVED_COMMANDS_SIZE - 1
  <2>1. PICK k \in 1 .. SAVED_COMMANDS_SIZE : Down(t.curr, k) = t.top
    BY <1>1, Reaches
  <2>2. QED
    BY <1>2, <2>1 DEF Stops
<1>3. CASE t.top = SAVED_COMMANDS_SIZE - 1
  <2>1. t.top # 0
    BY <1>1, <1>3 DEF Saved
  <2>2. Up(t.top, 1) \in Saved /\ Viewable(t, Up(t.top, 1))
    BY <1>1, <2>1, Slots DEF Hist
  <2>3. PICK k \in 1 .. SAVED_COMMANDS_SIZE : Down(t.curr, k) = Up(t.top, 1)
    BY <1>1, <2>2, Reaches
  <2>4. QED
    BY <2>2, <2>3
<1>4. QED
  BY <1>2, <1>3

LEMMA DownVisits ==
    ASSUME NEW t, TermRecord(t), Hist(t)
    PROVE  Visits(t, TypeCommandDown(t)) \/ TypeCommandDown(t) = Kept(t)
<1> DEFINE u == ClearBuf(Kept(t))
           ends == {k \in 1 .. SAVED_COMMANDS_SIZE :
                       LET i == Down(t.curr, k) IN Viewable(u, i) \/ Stops(u, i)}
           k == CHOOSE k \in ends : \A j \in ends : k <= j
           d == [u EXCEPT !.curr = Down(t.curr, k)]
<1>1. t.curr \in Saved
  BY DEF TermRecord
<1>2. CASE t.curr = t.top
  BY <1>2 DEF TypeCommandDown
<1>3. CASE t.curr # t.top
  <2>1. u.top = t.top /\ \A i \in Saved : Viewable(u, i) = Viewable(t, i)
    BY KeptDoes, ClearDoes DEF SameHistory, Viewable
  <2>2. ends # {}
    <3> HIDE DEF u
    <3>1. QED
      BY <1>3, <2>1, DownStops
  <2>3. k \in ends
    <3>1. \E m \in ends : \A j \in ends : m <= j
      <4>1. ends \in SUBSET Nat
        OBVIOUS
      <4> HIDE DEF ends
      <4>2. QED
        BY <2>2, <4>1, LeastOf
    <3> HIDE DEF ends
    <3>2. QED
      BY <3>1
  <2>4. Down(t.curr, k) \in Saved
    <3>1. k \in 1 .. SAVED_COMMANDS_SIZE
      BY <2>3
    <3> HIDE DEF k
    <3>2. QED
      BY <1>1, <3>1, Slots
  <2>5. TypeCommandDown(t) = IF Viewable(u, d.curr) THEN TypeSaved(d) ELSE d
    BY <1>3, <2>2 DEF TypeCommandDown
  <2> HIDE DEF k
  <2>6. QED
    BY <2>4, <2>5 DEF Visits
<1>4. QED
  BY <1>2, <1>3

LEMMA DownDoes ==
    ASSUME NEW t, TermRecord(t), Hist(t)
    PROVE  LET u == TypeCommandDown(t)
           IN  /\ TermRecord(u) /\ Hist(u) /\ u.enter_flag = t.enter_flag
               /\ SavedFrom(t, u)
               /\ \/ Recalls(t, u)
                  \/ u.keyboard_buf = t.keyboard_buf /\ u.buf_idx = t.buf_idx
<1>1. CASE Visits(t, TypeCommandDown(t))
  BY <1>1, VisitDoes
<1>2. CASE TypeCommandDown(t) = Kept(t)
  <2>1. Hist(Kept(t))
    BY KeptDoes, HistKept
  <2>2. QED
    BY <1>2, <2>1, KeptDoes DEF SavedFrom
<1>3. QED
  BY <1>1, <1>2, DownVisits

-----------------------------------------------------------------------------
(***************************************************************************)
(* The history's invariant.                                                *)
(***************************************************************************)
LEMMA HistSame ==
    ASSUME NEW t, TermRecord(t), Hist(t), NEW u, SameHistory(t, u)
    PROVE  Hist(u)
BY HistKept DEF SameHistory, Viewable

LEMMA PrintableHist ==
    ASSUME NEW t, TermRecord(t), Hist(t), NEW key \in Letters \cup {"tab", "backspace", "enter"}
    PROVE  TermRecord(Printable(t, key)) /\ Hist(Printable(t, key))
<1> DEFINE u == IF key = "backspace" THEN BackspacePressed(t) ELSE t
<1>1. TermRecord(u) /\ Hist(u)
  BY BackspaceDoes, HistSame
<1>2. Printable(t, key) = IF Overflows(u) THEN FullBuffer(u, key) ELSE AddToBuffer(u, key)
  BY DEF Printable
<1> HIDE DEF u
<1>3. TermRecord(FullBuffer(u, key)) /\ Hist(FullBuffer(u, key))
  BY <1>1, FullDoes, HistSame
<1>4. TermRecord(AddToBuffer(u, key)) /\ Hist(AddToBuffer(u, key))
  <2>1. CASE key = "tab"
    BY <1>1, <2>1, TabDoes, HistSame DEF AddToBuffer
  <2>2. CASE key = "backspace"
    BY <1>1, <2>2, EchoDoes, HistSame DEF AddToBuffer
  <2>3. CASE key = "enter"
    BY <1>1, <2>3, EnterDoes DEF AddToBuffer
  <2>4. CASE key \notin {"tab", "backspace", "enter"}
    <3>1. AddToBuffer(u, key) = Type(u, key) /\ key \in Bytes
      BY <2>4 DEF AddToBuffer, Bytes
    <3>2. TermRecord(Type(u, key)) /\ SameHistory(u, Type(u, key))
      BY <1>1, <3>1, TypeDoes
    <3>3. Hist(Type(u, key))
      BY <1>1, <3>2, HistSame
    <3>4. QED
      BY <3>1, <3>2, <3>3
  <2>5. QED
    BY <2>1, <2>2, <2>3, <2>4
<1>5. QED
  BY <1>2, <1>3, <1>4

HistInv == TermRecord(term) /\ Hist(term)

LEMMA HistStart == Init => HistInv
<1> SUFFICES ASSUME Init PROVE HistInv
  OBVIOUS
<1>1. EmptyBuffer \in Buffers
  BY DEF EmptyBuffer, Buffers, Bytes
<1>2. TermRecord(term)
  BY <1>1 DEF Init, TermRecord, Saved
<1>3. Hist(term)
  BY DEF Init, Hist, Viewable
<1>4. QED
  BY <1>2, <1>3 DEF HistInv

LEMMA ReadKeepsHist ==
    ASSUME HistInv, ReadReturns
    PROVE  HistInv'
<1> DEFINE c == ClearBuf(term)
           u == [c EXCEPT !.enter_flag = FALSE]
<1>1. TermRecord(c) /\ SameHistory(term, c)
  BY ClearDoes DEF HistInv
<1>2. term' = u
  BY DEF ReadReturns
<1> HIDE DEF c
<1>3. TermRecord(u) /\ SameHistory(c, u)
  BY <1>1, FlagDoes
<1> HIDE DEF u
<1>4. TermRecord(term') /\ SameHistory(term, term')
  BY <1>1, <1>2, <1>3 DEF SameHistory
<1>5. Hist(term')
  BY <1>4, HistSame DEF HistInv
<1>6. QED
  BY <1>4, <1>5 DEF HistInv, TermRecord, Hist, Viewable

LEMMA WriteKeepsHist ==
    ASSUME HistInv, EndWrite
    PROVE  HistInv'
<1>1. term' = [term EXCEPT !.scr.tx = 0]
  BY DEF EndWrite
<1>2. TermRecord(term') /\ SameHistory(term, term')
  BY <1>1 DEF HistInv, TermRecord, SameHistory
<1>3. Hist(term')
  BY <1>2, HistSame DEF HistInv
<1>4. QED
  BY <1>2, <1>3 DEF HistInv, TermRecord, Hist, Viewable

LEMMA HistStep == HistInv /\ [Next]_vars => HistInv'
<1> SUFFICES ASSUME HistInv, [Next]_vars PROVE HistInv'
  OBVIOUS
<1>1. SUFFICES TermRecord(term') /\ Hist(term')
  BY DEF HistInv, TermRecord, Hist, Viewable
<1>2. TermRecord(term) /\ Hist(term)
  BY DEF HistInv
<1>3. \A key \in Letters \cup {"tab", "backspace", "enter"} :
          term' = Printable(term, key) => TermRecord(term') /\ Hist(term')
  BY <1>2, PrintableHist
<1>4. CASE LetterKey
  BY <1>3, <1>4 DEF LetterKey, Press
<1>5. CASE TabKey
  BY <1>3, <1>5 DEF TabKey, Press
<1>6. CASE BackspaceKey
  BY <1>3, <1>6 DEF BackspaceKey, Press
<1>7. CASE EnterKey
  BY <1>3, <1>7 DEF EnterKey, Press
<1>8. CASE CtrlL
  BY <1>2, <1>8, EchoDoes, HistSame DEF CtrlL, Press
<1>9. CASE UpKey
  BY <1>2, <1>9, UpDoes DEF UpKey, Press
<1>10. CASE DownKey
  BY <1>2, <1>10, DownDoes DEF DownKey, Press
<1>11. CASE Putc
  BY <1>2, <1>11, EchoDoes, HistSame DEF Putc
<1>12. CASE EndWrite
  BY <1>12, WriteKeepsHist DEF HistInv, TermRecord, Hist, Viewable
<1>13. CASE ReadStarts
  BY <1>2, <1>13, ClearDoes, HistSame DEF ReadStarts
<1>14. CASE ReadReturns
  BY <1>14, ReadKeepsHist DEF HistInv, TermRecord, Hist, Viewable
<1>15. CASE UNCHANGED vars
  BY <1>2, <1>15 DEF vars
<1>16. QED
  BY <1>4, <1>5, <1>6, <1>7, <1>8, <1>9, <1>10, <1>11, <1>12, <1>13, <1>14, <1>15 DEF Next

\* However many commands the history holds and in whatever order the keys come, once
\* something was entered Up on a new line finds the last command entered (kboard.c).
THEOREM LatestRecalled == Spec => []LatestIsViewable
<1>1. HistInv => LatestIsViewable
  BY DEF HistInv, Hist, LatestIsViewable
<1>2. QED
  BY <1>1, HistStart, HistStep, PTL DEF Spec

-----------------------------------------------------------------------------
(***************************************************************************)
(* The buffer as a line.  While the user waits for reads and erases no     *)
(* tabs, the buffer is in one of three shapes, and every saved command is  *)
(* a line that ends within it.                                             *)
(***************************************************************************)
\* The line is edited: it stands before buf_idx.
Open(t) == ~t.enter_flag /\ t.buf_idx \in Idx /\ Ended(t.keyboard_buf, t.buf_idx)

\* Enter stands at n.
EntersAt(b, n) == /\ b[n] = NL
                  /\ \A i \in Idx : /\ i < n => b[i] \notin {Nul, NL}
                                    /\ i > n => b[i] = Nul

\* It was entered: AddEnter moves buf_idx past the newline, FullBuffer does not.
ClosedAt(t, n) == t.enter_flag /\ EntersAt(t.keyboard_buf, n) /\ t.buf_idx \in {n, n + 1}

\* It was entered, and cleared by a read that started later.
Lost(t) == t.enter_flag /\ t.keyboard_buf = EmptyBuffer /\ t.buf_idx = 0

Shaped(t) == /\ Open(t) \/ (\E n \in Idx : ClosedAt(t, n)) \/ Lost(t)
             /\ \A i \in Saved : \E n \in Idx : Ended(t.saved_commands[i].command, n)

\* What the refinement makes of a terminal.
LineAt(t) == LET n == t.buf_idx
             IN  LineOf(t.keyboard_buf,
                        IF n > 0 /\ t.keyboard_buf[n - 1] = NL THEN n - 1 ELSE n)

EnteredAt(t) == IF ~t.enter_flag THEN "no"
                ELSE IF \E i \in Idx : t.keyboard_buf[i] = NL THEN "yes" ELSE "early"

StoredAt(t) == {CommandOf(t.saved_commands[i].command) : i \in Saved}

LEMMA Mapped ==
    /\ LineOf(term.keyboard_buf, LineLength) = LineAt(term)
    /\ Entered = EnteredAt(term)
    /\ LineOf(term.keyboard_buf, LineLength)' = LineAt(term')
    /\ Entered' = EnteredAt(term')
BY DEF LineLength, Buf, LineAt, Entered, EnteredAt, LineOf

LEMMA LineOfIs ==
    ASSUME NEW b \in Buffers, NEW n \in 0 .. BUF_SIZE
    PROVE  /\ LineOf(b, n) \in Seq(Bytes)
           /\ Len(LineOf(b, n)) = n
           /\ \A k \in 1 .. n : LineOf(b, n)[k] = b[k - 1]
BY DEF LineOf, Buffers, Idx

LEMMA LineSame ==
    ASSUME NEW b \in Buffers, NEW c \in Buffers, NEW n \in 0 .. BUF_SIZE,
           \A i \in 0 .. n - 1 : b[i] = c[i]
    PROVE  LineOf(b, n) = LineOf(c, n)
BY DEF LineOf

LEMMA LineEmpty ==
    ASSUME NEW b \in Buffers
    PROVE  LineOf(b, 0) = << >>
<1>1. LineOf(b, 0) \in Seq(Bytes) /\ Len(LineOf(b, 0)) = 0
  BY LineOfIs
<1>2. QED
  BY <1>1, EmptySeq

LEMMA LineAppend ==
    ASSUME NEW b \in Buffers, NEW n \in Idx, NEW x \in Bytes, NEW c \in Buffers,
           \A j \in Idx : c[j] = IF j = n THEN x ELSE b[j]
    PROVE  LineOf(c, n + 1) = Append(LineOf(b, n), x)
<1> DEFINE l == LineOf(b, n)
           m == LineOf(c, n + 1)
<1>1. /\ l \in Seq(Bytes) /\ Len(l) = n /\ \A k \in 1 .. n : l[k] = b[k - 1]
      /\ m \in Seq(Bytes) /\ Len(m) = n + 1 /\ \A k \in 1 .. n + 1 : m[k] = c[k - 1]
  <2>1. n \in 0 .. BUF_SIZE /\ n + 1 \in 0 .. BUF_SIZE
    BY DEF Idx
  <2> HIDE DEF l, m
  <2>2. QED
    BY <2>1, LineOfIs DEF l, m
<1> HIDE DEF l, m
<1>2. /\ Append(l, x) \in Seq(Bytes) /\ Len(Append(l, x)) = n + 1
      /\ \A k \in 1 .. n : Append(l, x)[k] = l[k]
      /\ Append(l, x)[n + 1] = x
  BY <1>1 DEF Idx
<1>3. \A k \in 1 .. n + 1 : m[k] = Append(l, x)[k]
  <2> SUFFICES ASSUME NEW k \in 1 .. n + 1 PROVE m[k] = Append(l, x)[k]
    OBVIOUS
  <2>1. k - 1 \in Idx /\ n \in Nat
    BY DEF Idx
  <2>2. m[k] = IF k - 1 = n THEN x ELSE b[k - 1]
    BY <1>1, <2>1
  <2>3. CASE k = n + 1
    BY <1>2, <2>1, <2>2, <2>3
  <2>4. CASE k \in 1 .. n
    BY <1>1, <1>2, <2>1, <2>2, <2>4
  <2>5. k = n + 1 \/ k \in 1 .. n
    BY <2>1
  <2>6. QED
    BY <2>3, <2>4, <2>5
<1>4. m = Append(l, x)
  BY <1>1, <1>2, <1>3, SeqEqual
<1>5. QED
  BY <1>4 DEF l, m

LEMMA Joined ==
    ASSUME NEW S, NEW l \in Seq(S), NEW w \in Seq(S), NEW m \in Seq(S),
           Len(m) = Len(l) + Len(w),
           \A k \in 1 .. Len(l) : m[k] = l[k],
           \A k \in 1 .. Len(w) : m[Len(l) + k] = w[k]
    PROVE  m = l \o w
<1>1. /\ l \o w \in Seq(S) /\ Len(l \o w) = Len(l) + Len(w)
      /\ \A k \in 1 .. Len(l) + Len(w) :
            (l \o w)[k] = IF k <= Len(l) THEN l[k] ELSE w[k - Len(l)]
  BY ConcatProperties
<1>2. Len(l) \in Nat /\ Len(w) \in Nat
  BY LenProperties
<1>3. \A k \in 1 .. Len(m) : m[k] = (l \o w)[k]
  <2> SUFFICES ASSUME NEW k \in 1 .. Len(l) + Len(w) PROVE m[k] = (l \o w)[k]
    OBVIOUS
  <2>1. CASE k <= Len(l)
    BY <1>1, <1>2, <2>1
  <2>2. CASE ~(k <= Len(l))
    <3>1. k - Len(l) \in 1 .. Len(w) /\ Len(l) + (k - Len(l)) = k
      BY <1>2, <2>2
    <3>2. QED
      BY <1>1, <2>2, <3>1
  <2>3. QED
    BY <2>1, <2>2
<1>4. QED
  BY <1>1, <1>3, SeqEqual

LEMMA LineTab ==
    ASSUME NEW b \in Buffers, NEW n \in Idx, n + 3 \in Idx, NEW c \in Buffers,
           c = [j \in Idx |-> IF j \in n .. n + 2 THEN Space
                              ELSE IF j = n + 3 THEN Tab ELSE b[j]]
    PROVE  LineOf(c, n + 4) = LineOf(b, n) \o LE!TabBytes
<1> DEFINE l == LineOf(b, n)
           m == LineOf(c, n + 4)
           w == <<Space, Space, Space, Tab>>
<1>1. /\ l \in Seq(Bytes) /\ Len(l) = n /\ \A k \in 1 .. n : l[k] = b[k - 1]
      /\ m \in Seq(Bytes) /\ Len(m) = n + 4 /\ \A k \in 1 .. n + 4 : m[k] = c[k - 1]
  <2>1. n \in 0 .. BUF_SIZE /\ n + 4 \in 0 .. BUF_SIZE
    BY DEF Idx
  <2> HIDE DEF l, m
  <2>2. QED
    BY <2>1, LineOfIs DEF l, m
<1>2. /\ w \in Seq(Bytes) /\ Len(w) = 4
      /\ w[1] = Space /\ w[2] = Space /\ w[3] = Space /\ w[4] = Tab
  BY DEF Bytes
<1> HIDE DEF l, m, w
<1>3. n \in Nat /\ \A k \in 1 .. n + 4 : k - 1 \in Idx
  BY DEF Idx
<1>4. \A k \in 1 .. n : m[k] = l[k]
  <2> SUFFICES ASSUME NEW k \in 1 .. n PROVE m[k] = l[k]
    OBVIOUS
  <2>1. k \in 1 .. n + 4 /\ k - 1 \notin n .. n + 2 /\ k - 1 # n + 3
    BY <1>3
  <2>2. k - 1 \in Idx
    BY <1>3, <2>1
  <2>3. c[k - 1] = b[k - 1]
    BY <2>1, <2>2
  <2>4. QED
    BY <1>1, <2>1, <2>3
<1>5. \A k \in 1 .. 4 : m[n + k] = w[k]
  <2>1. /\ m[n + 1] = c[n] /\ m[n + 2] = c[n + 1]
        /\ m[n + 3] = c[n + 2] /\ m[n + 4] = c[n + 3]
    BY <1>1, <1>3
  <2>2. n \in Idx /\ n + 1 \in Idx /\ n + 2 \in Idx /\ n + 3 \in Idx
    BY <1>3 DEF Idx
  <2>3. c[n] = Space /\ c[n + 1] = Space /\ c[n + 2] = Space /\ c[n + 3] = Tab
    BY <1>3, <2>2
  <2>4. \A k \in 1 .. 4 : k = 1 \/ k = 2 \/ k = 3 \/ k = 4
    OBVIOUS
  <2>5. QED
    BY <1>2, <2>1, <2>3, <2>4
<1>6. m = l \o w
  <2>1. Len(m) = Len(l) + Len(w)
    BY <1>1, <1>2
  <2>2. (\A k \in 1 .. Len(l) : m[k] = l[k]) /\ (\A k \in 1 .. Len(w) : m[Len(l) + k] = w[k])
    BY <1>1, <1>2, <1>4, <1>5, Zenon
  <2>3. l \in Seq(Bytes) /\ w \in Seq(Bytes) /\ m \in Seq(Bytes)
    BY <1>1, <1>2
  <2>4. QED
    BY <2>1, <2>2, <2>3, Joined, Zenon
<1>7. QED
  BY <1>6 DEF l, m, w, LE!TabBytes

LEMMA LineCut ==
    ASSUME NEW b \in Buffers, NEW n \in Idx, n > 0, NEW c \in Buffers,
           \A j \in Idx : c[j] = IF j = n - 1 THEN Nul ELSE b[j]
    PROVE  LineOf(c, n - 1) = SubSeq(LineOf(b, n), 1, n - 1)
<1> DEFINE l == LineOf(b, n)
           m == LineOf(c, n - 1)
<1>1. /\ l \in Seq(Bytes) /\ Len(l) = n /\ \A k \in 1 .. n : l[k] = b[k - 1]
      /\ m \in Seq(Bytes) /\ Len(m) = n - 1 /\ \A k \in 1 .. n - 1 : m[k] = c[k - 1]
  <2>1. n \in 0 .. BUF_SIZE /\ n - 1 \in 0 .. BUF_SIZE
    BY DEF Idx
  <2> HIDE DEF l, m
  <2>2. QED
    BY <2>1, LineOfIs DEF l, m
<1> HIDE DEF l, m
<1>2. /\ SubSeq(l, 1, n - 1) \in Seq(Bytes) /\ Len(SubSeq(l, 1, n - 1)) = n - 1
      /\ \A k \in 1 .. n - 1 : SubSeq(l, 1, n - 1)[k] = l[k]
  BY <1>1 DEF Idx
<1>3. \A k \in 1 .. n - 1 : m[k] = SubSeq(l, 1, n - 1)[k]
  <2> SUFFICES ASSUME NEW k \in 1 .. n - 1 PROVE m[k] = SubSeq(l, 1, n - 1)[k]
    OBVIOUS
  <2>1. n \in Nat /\ k \in 1 .. n /\ k - 1 \in Idx /\ k - 1 # n - 1
    BY DEF Idx
  <2>2. c[k - 1] = b[k - 1]
    BY <2>1
  <2>3. QED
    BY <1>1, <1>2, <2>1, <2>2
<1>4. m = SubSeq(l, 1, n - 1)
  BY <1>1, <1>2, <1>3, SeqEqual
<1>5. QED
  BY <1>4 DEF l, m

LEMMA CommandIs ==
    ASSUME NEW b \in Buffers, NEW n \in Idx, Ended(b, n)
    PROVE  Length(b, BUF_SIZE) = n /\ CommandOf(b) = LineOf(b, n)
<1>1. n \in 0 .. BUF_SIZE /\ BUF_SIZE \in 0 .. BUF_SIZE /\ n < BUF_SIZE
  BY DEF Idx
<1>2. (\A i \in 0 .. n - 1 : b[i] # Nul) /\ b[n] = Nul
  BY DEF Ended, Idx
<1>3. Length(b, BUF_SIZE) = n
  BY <1>1, <1>2, LengthIs
<1>4. QED
  BY <1>3 DEF CommandOf

LEMMA OpenIs ==
    ASSUME NEW t, TermRecord(t), Open(t)
    PROVE  /\ LineAt(t) = LineOf(t.keyboard_buf, t.buf_idx)
           /\ EnteredAt(t) = "no"
           /\ CommandOf(t.keyboard_buf) = LineAt(t)
<1>1. t.keyboard_buf \in Buffers /\ t.buf_idx \in Idx
  BY DEF TermRecord, Open
<1>2. t.buf_idx > 0 => t.keyboard_buf[t.buf_idx - 1] # NL
  BY <1>1 DEF Open, Ended, Idx
<1>3. QED
  BY <1>1, <1>2, CommandIs DEF Open, LineAt, EnteredAt

LEMMA ClosedIs ==
    ASSUME NEW t, TermRecord(t), NEW n \in Idx, ClosedAt(t, n)
    PROVE  /\ LineAt(t) = LineOf(t.keyboard_buf, n)
           /\ EnteredAt(t) = "yes"
<1>1. n > 0 => t.keyboard_buf[n - 1] # NL
  BY DEF ClosedAt, EntersAt, Idx
<1>2. CASE t.buf_idx = n
  BY <1>1, <1>2 DEF LineAt, EnteredAt, ClosedAt, EntersAt
<1>3. CASE t.buf_idx = n + 1
  <2>1. t.buf_idx > 0 /\ t.buf_idx - 1 = n
    BY <1>3 DEF Idx
  <2>2. QED
    BY <2>1 DEF LineAt, EnteredAt, ClosedAt, EntersAt
<1>4. QED
  BY <1>2, <1>3 DEF ClosedAt

LEMMA LostIs ==
    ASSUME NEW t, TermRecord(t), Lost(t)
    PROVE  LineAt(t) = << >> /\ EnteredAt(t) = "early"
<1>1. \A i \in Idx : t.keyboard_buf[i] # NL
  BY DEF Lost, EmptyBuffer, Nul, NL
<1>2. LineAt(t) = LineOf(t.keyboard_buf, 0)
  BY DEF LineAt, Lost
<1>3. QED
  BY <1>1, <1>2, LineEmpty DEF EnteredAt, Lost, TermRecord

-----------------------------------------------------------------------------
(***************************************************************************)
(* What each key does to the line, from terminal t to terminal u.          *)
(***************************************************************************)
SameLine(t, u) == /\ LineAt(u) = LineAt(t)
                  /\ EnteredAt(u) = EnteredAt(t)
                  /\ StoredAt(u) = StoredAt(t)

EditsLine(t, u) ==
    /\ EnteredAt(t) = "no" /\ EnteredAt(u) = "no"
    /\ StoredAt(u) = StoredAt(t)
    /\ \/ \E c \in Letters \ {Tab} : /\ Len(LineAt(t)) < BUF_SIZE - 1
                                     /\ LineAt(u) = Append(LineAt(t), c)
       \/ Len(LineAt(t)) + 4 < BUF_SIZE - 1 /\ LineAt(u) = LineAt(t) \o LE!TabBytes
       \/ /\ LineAt(t) # << >>
          /\ LET n == IF Last(LineAt(t)) = Tab THEN 4 ELSE 1
             IN  LineAt(u) = SubSeq(LineAt(t), 1, Len(LineAt(t)) - n)

RecallsLine(t, u) == /\ EnteredAt(t) = "no" /\ EnteredAt(u) = "no"
                     /\ StoredAt(u) \subseteq StoredAt(t) \cup {LineAt(t)}
                     /\ LineAt(u) \in StoredAt(u) \cup {<< >>}

EntersLine(t, u) == /\ EnteredAt(t) = "no" /\ EnteredAt(u) = "yes"
                    /\ StoredAt(u) \subseteq StoredAt(t) \cup {LineAt(t)}
                    /\ LineAt(u) = LineAt(t)

LEMMA SameShape ==
    ASSUME NEW t, Shaped(t), NEW u, SameHistory(t, u)
    PROVE  /\ StoredAt(u) = StoredAt(t)
           /\ \A i \in Saved : \E n \in Idx : Ended(u.saved_commands[i].command, n)
BY DEF SameHistory, StoredAt, Shaped

LEMMA OnlyOpen == \A t : Shaped(t) /\ ~t.enter_flag => Open(t)
BY DEF Shaped, ClosedAt, Lost

\* An echo changes neither the line nor its shape.
LEMMA EchoLine ==
    ASSUME NEW t, TermRecord(t), Shaped(t), NEW u,
           u.keyboard_buf = t.keyboard_buf, u.buf_idx = t.buf_idx,
           u.enter_flag = t.enter_flag, SameHistory(t, u)
    PROVE  Shaped(u) /\ SameLine(t, u)
<1>1. /\ StoredAt(u) = StoredAt(t)
      /\ \A i \in Saved : \E n \in Idx : Ended(u.saved_commands[i].command, n)
  BY SameShape
<1>2. LineAt(u) = LineAt(t) /\ EnteredAt(u) = EnteredAt(t)
  BY DEF LineAt, EnteredAt
<1>3. Open(u) \/ (\E n \in Idx : ClosedAt(u, n)) \/ Lost(u)
  BY DEF Shaped, Open, ClosedAt, Lost
<1>4. QED
  BY <1>1, <1>2, <1>3 DEF Shaped, SameLine

LEMMA LetterLine ==
    ASSUME NEW t, TermRecord(t), Shaped(t), Open(t), NEW c \in Letters \ {Tab}
    PROVE  LET u == Printable(t, c)
           IN  Shaped(u) /\ (SameLine(t, u) \/ EditsLine(t, u))
<1> DEFINE u == Printable(t, c)
           n == t.buf_idx
<1>1. /\ c \notin {"tab", "backspace", "enter", Nul, NL} /\ c \in Bytes
      /\ n \in Idx /\ t.keyboard_buf \in Buffers
  BY LettersAssumption DEF Tab, Nul, NL, Bytes, Open, TermRecord
<1>2. CASE Overflows(t)
  <2>1. u = FullBuffer(t, c)
    BY <1>1, <1>2 DEF Printable
  <2>2. u = t
    BY <1>1, <2>1, FullDoes
  <2>3. QED
    BY <2>2 DEF SameLine
<1>3. CASE ~Overflows(t)
  <2>1. u = Type(t, c)
    BY <1>1, <1>3 DEF Printable, AddToBuffer
  <2> HIDE DEF u
  <2>2. /\ TermRecord(u) /\ SameHistory(t, u) /\ u.enter_flag = t.enter_flag
        /\ u.keyboard_buf = [j \in Idx |-> IF j = n THEN c ELSE t.keyboard_buf[j]]
        /\ u.buf_idx = n + 1
    BY <1>1, <2>1, TypeDoes
  <2>3. n + 1 \in Idx /\ n < BUF_SIZE - 1
    BY <1>1, <1>3 DEF Overflows, Idx
  <2>4. Open(u)
    <3>1. Ended(u.keyboard_buf, n + 1)
      <4>1. \A j \in Idx : j < n + 1 <=> j < n \/ j = n
        BY <1>1 DEF Idx
      <4>2. \A j \in Idx : IF j < n THEN t.keyboard_buf[j] \notin {Nul, NL}
                           ELSE t.keyboard_buf[j] = Nul
        BY DEF Open, Ended
      <4>3. QED
        BY <1>1, <2>2, <4>1, <4>2 DEF Ended
    <3>2. QED
      BY <2>2, <2>3, <3>1 DEF Open
  <2>5. LineAt(u) = LineOf(u.keyboard_buf, n + 1) /\ EnteredAt(u) = "no"
    BY <2>2, <2>4, OpenIs
  <2>6. LineAt(t) = LineOf(t.keyboard_buf, n) /\ EnteredAt(t) = "no"
    BY OpenIs
  <2>7. u.keyboard_buf \in Buffers /\ n \in 0 .. BUF_SIZE
    <3>1. u.keyboard_buf \in Buffers
      BY <2>2 DEF TermRecord
    <3>2. n \in 0 .. BUF_SIZE
      BY <1>1 DEF Idx
    <3>3. QED
      BY <3>1, <3>2
  <2>8. LineAt(u) = Append(LineAt(t), c) /\ Len(LineAt(t)) = n
    <3> HIDE DEF n
    <3>1. LineOf(u.keyboard_buf, n + 1) = Append(LineOf(t.keyboard_buf, n), c)
      <4>1. \A j \in Idx : u.keyboard_buf[j] = IF j = n THEN c ELSE t.keyboard_buf[j]
        BY <2>2
      <4>2. c \in Bytes /\ n \in Idx /\ t.keyboard_buf \in Buffers /\ u.keyboard_buf \in Buffers
        BY <1>1, <2>7
      <4>3. QED
        BY <4>1, <4>2, LineAppend
    <3>2. Len(LineOf(t.keyboard_buf, n)) = n
      BY <1>1, <2>7, LineOfIs
    <3>3. QED
      BY <2>5, <2>6, <3>1, <3>2
  <2>9. EditsLine(t, u)
    BY <2>2, <2>3, <2>5, <2>6, <2>8, SameShape DEF EditsLine
  <2>10. Shaped(u)
    BY <2>2, <2>4, SameShape DEF Shaped
  <2>11. QED
    BY <2>9, <2>10 DEF u
<1>4. QED
  BY <1>2, <1>3

LEMMA TabLine ==
    ASSUME NEW t, TermRecord(t), Shaped(t), Open(t)
    PROVE  LET u == Printable(t, "tab")
           IN  Shaped(u) /\ (SameLine(t, u) \/ EditsLine(t, u))
<1> DEFINE u == Printable(t, "tab")
           n == t.buf_idx
<1>1. n \in Idx /\ t.keyboard_buf \in Buffers
  BY DEF Open, TermRecord
<1>2. CASE Overflows(t)
  <2>1. u = FullBuffer(t, "tab")
    BY <1>2 DEF Printable
  <2>2. u = t
    BY <2>1, FullDoes
  <2>3. QED
    BY <2>2 DEF SameLine
<1>3. CASE ~Overflows(t)
  <2>1. u = AddTab(t)
    BY <1>3 DEF Printable, AddToBuffer
  <2> HIDE DEF u
  <2>2. CASE ~TabFits(t)
    BY <2>1, <2>2, TabDoes DEF SameLine, u
  <2>3. CASE TabFits(t)
    <3>1. /\ TermRecord(u) /\ SameHistory(t, u) /\ u.enter_flag = t.enter_flag
          /\ u.keyboard_buf = [j \in Idx |-> IF j \in n .. n + 2 THEN Space
                                             ELSE IF j = n + 3 THEN Tab ELSE t.keyboard_buf[j]]
          /\ u.buf_idx = n + 4
      BY <2>1, <2>3, TabDoes
    <3>2. n + 4 \in Idx /\ n + 3 \in Idx /\ n + 4 < BUF_SIZE - 1
      BY <1>1, <2>3 DEF TabFits, Idx
    <3>3. Open(u)
      <4>1. Ended(u.keyboard_buf, n + 4)
        <5>1. \A j \in Idx : j < n + 4 <=> j < n \/ j \in n .. n + 2 \/ j = n + 3
          BY <1>1 DEF Idx
        <5>2. \A j \in Idx : IF j < n THEN t.keyboard_buf[j] \notin {Nul, NL}
                             ELSE t.keyboard_buf[j] = Nul
          BY DEF Open, Ended
        <5>3. Space \notin {Nul, NL} /\ Tab \notin {Nul, NL}
          BY DEF Space, Tab, Nul, NL
        <5> HIDE DEF n
        <5>4. \A j \in Idx : u.keyboard_buf[j] =
                  IF j \in n .. n + 2 THEN Space
                  ELSE IF j = n + 3 THEN Tab ELSE t.keyboard_buf[j]
          BY <3>1, Zenon
        <5>5. \A j \in Idx : IF j < n + 4 THEN u.keyboard_buf[j] \notin {Nul, NL}
                             ELSE u.keyboard_buf[j] = Nul
          <6> SUFFICES ASSUME NEW j \in Idx
                       PROVE  IF j < n + 4 THEN u.keyboard_buf[j] \notin {Nul, NL}
                              ELSE u.keyboard_buf[j] = Nul
            OBVIOUS
          <6>1. CASE j \in n .. n + 2 \/ j = n + 3
            BY <5>1, <5>3, <5>4, <6>1
          <6>2. CASE ~(j \in n .. n + 2 \/ j = n + 3)
            <7>1. u.keyboard_buf[j] = t.keyboard_buf[j] /\ (j < n + 4 <=> j < n)
              BY <5>1, <5>4, <6>2
            <7>2. QED
              BY <5>2, <7>1
          <6>3. QED
            BY <6>1, <6>2
        <5>6. QED
          BY <5>5 DEF Ended
      <4>2. QED
        BY <3>1, <3>2, <4>1 DEF Open
    <3>4. LineAt(u) = LineOf(u.keyboard_buf, n + 4) /\ EnteredAt(u) = "no"
      BY <3>1, <3>3, OpenIs
    <3>5. LineAt(t) = LineOf(t.keyboard_buf, n) /\ EnteredAt(t) = "no"
      BY OpenIs
    <3>6. u.keyboard_buf \in Buffers /\ n \in 0 .. BUF_SIZE
      <4>1. u.keyboard_buf \in Buffers
        BY <3>1 DEF TermRecord
      <4>2. QED
        BY <1>1, <4>1 DEF Idx
    <3>7. LineAt(u) = LineAt(t) \o LE!TabBytes /\ Len(LineAt(t)) = n
      <4>1. LineOf(u.keyboard_buf, n + 4) = LineOf(t.keyboard_buf, n) \o LE!TabBytes
        BY <1>1, <3>1, <3>2, <3>6, LineTab
      <4>2. QED
        BY <1>1, <3>4, <3>5, <3>6, <4>1, LineOfIs
    <3>8. EditsLine(t, u)
      BY <3>1, <3>2, <3>4, <3>5, <3>7, SameShape DEF EditsLine
    <3>9. Shaped(u)
      BY <3>1, <3>3, SameShape DEF Shaped
    <3>10. QED
      BY <3>8, <3>9 DEF u
  <2>4. QED
    BY <2>2, <2>3
<1>4. QED
  BY <1>2, <1>3

LEMMA ErasesOne ==
    ASSUME NEW t, TermRecord(t), Shaped(t), Open(t),
           t.buf_idx # 0, t.keyboard_buf[t.buf_idx - 1] # Tab
    PROVE  LET u == BackspacePressed(t)
           IN  Shaped(u) /\ EditsLine(t, u)
<1> DEFINE u == BackspacePressed(t)
           n == t.buf_idx
<1>1. /\ n \in Idx /\ t.keyboard_buf \in Buffers
      /\ n - 1 \in Idx /\ n \in 0 .. BUF_SIZE /\ n > 0
  BY DEF Open, TermRecord, Idx
<1>2. /\ TermRecord(u) /\ SameHistory(t, u) /\ u.enter_flag = t.enter_flag
      /\ \A j \in Idx : u.keyboard_buf[j] = IF j = n - 1 THEN Nul ELSE t.keyboard_buf[j]
      /\ u.buf_idx = n - 1
  <2>1. u.keyboard_buf = [j \in Idx |-> IF j = n - 1 THEN Nul ELSE t.keyboard_buf[j]]
    BY BackspaceDoes
  <2>2. QED
    BY <2>1, BackspaceDoes
<1> HIDE DEF u
<1>3. Open(u)
  <2>1. Ended(u.keyboard_buf, n - 1)
    <3>1. \A j \in Idx : j < n <=> j < n - 1 \/ j = n - 1
      BY <1>1 DEF Idx
    <3>2. \A j \in Idx : IF j < n THEN t.keyboard_buf[j] \notin {Nul, NL}
                         ELSE t.keyboard_buf[j] = Nul
      BY DEF Open, Ended
    <3>3. ~(n - 1 < n - 1)
      BY <1>1 DEF Idx
    <3> HIDE DEF n
    <3>4. QED
      BY <1>2, <3>1, <3>2, <3>3 DEF Ended
  <2>2. QED
    BY <1>1, <1>2, <2>1 DEF Open
<1>4. LineAt(u) = LineOf(u.keyboard_buf, n - 1) /\ EnteredAt(u) = "no"
  BY <1>2, <1>3, OpenIs
<1>5. LineAt(t) = LineOf(t.keyboard_buf, n) /\ EnteredAt(t) = "no"
  BY OpenIs
<1>6. u.keyboard_buf \in Buffers
  BY <1>2 DEF TermRecord
<1> HIDE DEF n
<1>7. LineAt(u) = SubSeq(LineAt(t), 1, n - 1)
  <2>1. LineOf(u.keyboard_buf, n - 1) = SubSeq(LineOf(t.keyboard_buf, n), 1, n - 1)
    BY <1>1, <1>2, <1>6, LineCut
  <2>2. QED
    BY <1>4, <1>5, <2>1
<1>8. /\ LineAt(t) \in Seq(Bytes) /\ Len(LineAt(t)) = n
      /\ \A k \in 1 .. n : LineAt(t)[k] = t.keyboard_buf[k - 1]
  BY <1>1, <1>5, LineOfIs
<1>9. LineAt(t) # << >>
  BY <1>1, <1>8
<1>10. Last(LineAt(t)) # Tab
  <2>1. n \in 1 .. n
    BY <1>1 DEF Idx
  <2>2. Last(LineAt(t)) = t.keyboard_buf[n - 1]
    BY <1>8, <2>1 DEF Last
  <2>3. QED
    BY <2>2 DEF n
<1>11. EditsLine(t, u)
  BY <1>2, <1>4, <1>5, <1>7, <1>8, <1>9, <1>10, SameShape DEF EditsLine
<1>12. Shaped(u)
  BY <1>2, <1>3, SameShape DEF Shaped
<1>13. QED
  BY <1>11, <1>12 DEF u

LEMMA BackspaceLine ==
    ASSUME NEW t, TermRecord(t), Shaped(t), Open(t),
           t.buf_idx = 0 \/ t.keyboard_buf[t.buf_idx - 1] # Tab
    PROVE  LET u == Printable(t, "backspace")
           IN  Shaped(u) /\ (SameLine(t, u) \/ EditsLine(t, u))
<1> DEFINE u == Printable(t, "backspace")
           v == BackspacePressed(t)
<1>1. /\ TermRecord(v)
      /\ Shaped(v)
      /\ SameLine(t, v) \/ EditsLine(t, v)
  <2>1. CASE t.buf_idx = 0
    BY <2>1, BackspaceDoes DEF SameLine
  <2>2. CASE t.buf_idx # 0
    BY <2>2, BackspaceDoes, ErasesOne
  <2>3. QED
    BY <2>1, <2>2
<1>2. u = IF Overflows(v) THEN FullBuffer(v, "backspace") ELSE Echo(v, <<"backspace">>)
  BY DEF Printable, AddToBuffer
<1> HIDE DEF u, v
<1>3. Shaped(u) /\ SameLine(v, u)
  <2>1. CASE Overflows(v)
    BY <1>1, <1>2, <2>1, FullDoes DEF SameLine
  <2>2. CASE ~Overflows(v)
    BY <1>1, <1>2, <2>2, EchoDoes, EchoLine
  <2>3. QED
    BY <2>1, <2>2
<1>4. QED
  BY <1>1, <1>3 DEF SameLine, EditsLine, u

\* Commands that stood on the line, or were there before, are lines.
LEMMA StoresLine ==
    ASSUME NEW t, TermRecord(t), Shaped(t), Open(t), NEW u,
           \A i \in Saved : \/ u.saved_commands[i].command = t.saved_commands[i].command
                            \/ u.saved_commands[i].command = t.keyboard_buf
    PROVE  /\ StoredAt(u) \subseteq StoredAt(t) \cup {LineAt(t)}
           /\ \A i \in Saved : \E n \in Idx : Ended(u.saved_commands[i].command, n)
<1>1. CommandOf(t.keyboard_buf) = LineAt(t)
  BY OpenIs
<1>2. \A i \in Saved : CommandOf(u.saved_commands[i].command)
                           \in {CommandOf(t.saved_commands[i].command), LineAt(t)}
  BY <1>1
<1>3. QED
  BY <1>2 DEF StoredAt, Shaped, Open

LEMMA EnterLine ==
    ASSUME NEW t, TermRecord(t), Hist(t), Shaped(t), Open(t)
    PROVE  LET u == Printable(t, "enter")
           IN  Shaped(u) /\ EntersLine(t, u)
<1> DEFINE u == Printable(t, "enter")
           n == t.buf_idx
<1>1. n \in Idx /\ t.keyboard_buf \in Buffers /\ ~t.enter_flag
  BY DEF Open, TermRecord
<1>2. /\ TermRecord(u) /\ u.enter_flag = TRUE
      /\ \A j \in Idx : u.keyboard_buf[j] = IF j = n THEN NL ELSE t.keyboard_buf[j]
      /\ u.buf_idx \in {n, n + 1}
      /\ \A i \in Saved : \/ u.saved_commands[i].command = t.saved_commands[i].command
                          \/ u.saved_commands[i].command = t.keyboard_buf
  <2>1. CASE Overflows(t)
    <3>1. u = FullBuffer(t, "enter")
      BY <2>1 DEF Printable
    <3>2. n = BUF_SIZE - 1
      BY <1>1, <2>1 DEF Overflows, Idx
    <3> HIDE DEF u
    <3>3. /\ TermRecord(u) /\ SameHistory(t, u) /\ u.enter_flag = TRUE /\ u.buf_idx = n
          /\ u.keyboard_buf = [j \in Idx |-> IF j = BUF_SIZE - 1 THEN NL ELSE t.keyboard_buf[j]]
      BY <3>1, FullDoes
    <3>4. QED
      BY <3>2, <3>3 DEF SameHistory
  <2>2. CASE ~Overflows(t)
    <3>1. u = AddEnter(t)
      BY <2>2 DEF Printable, AddToBuffer
    <3> HIDE DEF u
    <3>2. /\ TermRecord(u) /\ u.enter_flag = TRUE /\ u.buf_idx = n + 1
          /\ u.keyboard_buf = [j \in Idx |-> IF j = n THEN NL ELSE t.keyboard_buf[j]]
          /\ \A i \in Saved : \/ u.saved_commands[i].command = t.saved_commands[i].command
                              \/ u.saved_commands[i].command = t.keyboard_buf
      BY <1>1, <3>1, EnterDoes
    <3>3. QED
      BY <3>2
  <2>3. QED
    BY <2>1, <2>2
<1> HIDE DEF u
<1>3. ClosedAt(u, n)
  <2>1. \A j \in Idx : (j < n => j # n /\ t.keyboard_buf[j] \notin {Nul, NL})
                       /\ (j > n => j # n /\ t.keyboard_buf[j] = Nul)
    BY <1>1 DEF Open, Ended, Idx
  <2> HIDE DEF n
  <2>2. EntersAt(u.keyboard_buf, n)
    BY <1>1, <1>2, <2>1 DEF EntersAt
  <2>3. QED
    BY <1>2, <2>2 DEF ClosedAt
<1>4. LineAt(u) = LineOf(u.keyboard_buf, n) /\ EnteredAt(u) = "yes"
  BY <1>1, <1>2, <1>3, ClosedIs
<1>5. LineAt(t) = LineOf(t.keyboard_buf, n) /\ EnteredAt(t) = "no"
  BY OpenIs
<1>6. LineAt(u) = LineAt(t)
  <2>1. u.keyboard_buf \in Buffers
    BY <1>2 DEF TermRecord
  <2>2. n \in 0 .. BUF_SIZE /\ \A i \in 0 .. n - 1 : i \in Idx /\ i # n
    BY <1>1 DEF Idx
  <2> HIDE DEF n
  <2>3. \A i \in 0 .. n - 1 : u.keyboard_buf[i] = t.keyboard_buf[i]
    BY <1>2, <2>2
  <2>4. QED
    BY <1>1, <1>4, <1>5, <2>1, <2>2, <2>3, LineSame
<1>7. /\ StoredAt(u) \subseteq StoredAt(t) \cup {LineAt(t)}
      /\ \A i \in Saved : \E m \in Idx : Ended(u.saved_commands[i].command, m)
  BY <1>2, StoresLine
<1>8. EntersLine(t, u)
  BY <1>4, <1>5, <1>6, <1>7 DEF EntersLine
<1>9. Shaped(u)
  BY <1>1, <1>3, <1>7 DEF Shaped
<1>10. QED
  BY <1>8, <1>9 DEF u

LEMMA RecallLine ==
    ASSUME NEW t, TermRecord(t), Shaped(t), Open(t),
           NEW u, TermRecord(u), ~u.enter_flag, SavedFrom(t, u),
           \/ Recalls(t, u)
           \/ u.keyboard_buf = t.keyboard_buf /\ u.buf_idx = t.buf_idx
    PROVE  Shaped(u) /\ RecallsLine(t, u)
<1> DEFINE c == u.saved_commands[u.curr].command
<1>1. u.keyboard_buf \in Buffers /\ u.curr \in Saved /\ t.curr \in Saved /\ c \in Buffers
  BY DEF TermRecord
<1>2. /\ StoredAt(u) \subseteq StoredAt(t) \cup {LineAt(t)}
      /\ \A i \in Saved : \E n \in Idx : Ended(u.saved_commands[i].command, n)
  BY StoresLine DEF SavedFrom
<1>3. EnteredAt(t) = "no"
  BY OpenIs
<1>4. Open(u) /\ LineAt(u) \in StoredAt(u) \cup {<< >>}
  <2>1. CASE u.keyboard_buf = EmptyBuffer /\ u.buf_idx = 0
    <3>1. Open(u)
      BY <2>1 DEF Open, Ended, EmptyBuffer, Idx
    <3>2. LineAt(u) = LineOf(u.keyboard_buf, 0)
      BY <2>1, <3>1, OpenIs
    <3>3. QED
      BY <1>1, <3>1, <3>2, LineEmpty
  <2>2. CASE /\ u.keyboard_buf = [i \in Idx |-> IF i < Length(c, BUF_SIZE) THEN c[i] ELSE Nul]
             /\ u.buf_idx = Length(c, BUF_SIZE)
    <3>1. PICK n \in Idx : Ended(c, n)
      BY <1>1, <1>2
    <3>2. Length(c, BUF_SIZE) = n
      BY <1>1, <3>1, CommandIs
    <3>3. u.keyboard_buf = c /\ u.buf_idx = n
      <4>1. \A i \in Idx : u.keyboard_buf[i] = c[i]
        BY <2>2, <3>1, <3>2 DEF Ended
      <4> HIDE DEF c
      <4>2. QED
        BY <1>1, <2>2, <3>2, <4>1 DEF Buffers
    <3>4. Open(u)
      BY <3>1, <3>3 DEF Open
    <3>5. LineAt(u) = CommandOf(c)
      BY <3>3, <3>4, OpenIs
    <3>6. QED
      BY <1>1, <3>4, <3>5 DEF StoredAt
  <2>3. CASE u.keyboard_buf = t.keyboard_buf /\ u.buf_idx = t.buf_idx
    <3>1. Open(u)
      BY <2>3 DEF Open
    <3>2. LineAt(u) = CommandOf(u.saved_commands[t.curr].command)
      BY <1>1, <2>3, <3>1, OpenIs DEF SavedFrom
    <3>3. QED
      BY <1>1, <3>1, <3>2 DEF StoredAt
  <2>4. QED
    BY <2>1, <2>2, <2>3 DEF Recalls
<1>5. EnteredAt(u) = "no"
  BY <1>4, OpenIs
<1>6. QED
  BY <1>2, <1>3, <1>4, <1>5 DEF Shaped, RecallsLine

LEMMA ClearLine ==
    ASSUME NEW t, TermRecord(t), Shaped(t),
           NEW u, TermRecord(u), SameHistory(t, u),
           u.keyboard_buf = EmptyBuffer, u.buf_idx = 0
    PROVE  /\ LineAt(u) = << >>
           /\ StoredAt(u) = StoredAt(t)
           /\ EnteredAt(u) = IF u.enter_flag THEN "early" ELSE "no"
           /\ Shaped(u)
<1>1. /\ StoredAt(u) = StoredAt(t)
      /\ \A i \in Saved : \E n \in Idx : Ended(u.saved_commands[i].command, n)
  BY SameShape
<1>2. CASE u.enter_flag
  BY <1>1, <1>2, LostIs DEF Lost, Shaped
<1>3. CASE ~u.enter_flag
  <2>1. Open(u)
    BY <1>3 DEF Open, Ended, EmptyBuffer, Idx
  <2>2. LineAt(u) = LineOf(u.keyboard_buf, 0) /\ EnteredAt(u) = "no"
    BY <2>1, OpenIs
  <2>3. LineAt(u) = << >>
    BY <2>2, LineEmpty DEF TermRecord
  <2>4. QED
    BY <1>1, <1>3, <2>1, <2>2, <2>3 DEF Shaped
<1>4. QED
  BY <1>2, <1>3

LEMMA EnteredIs ==
    ASSUME NEW t, TermRecord(t), Shaped(t)
    PROVE  /\ EnteredAt(t) = "no" <=> ~t.enter_flag
           /\ t.enter_flag => (\E n \in Idx : ClosedAt(t, n)) \/ Lost(t)
<1>1. CASE Open(t)
  BY <1>1, OpenIs DEF Open
<1>2. CASE \E n \in Idx : ClosedAt(t, n)
  BY <1>2, ClosedIs DEF ClosedAt
<1>3. CASE Lost(t)
  BY <1>3, LostIs DEF Lost
<1>4. QED
  BY <1>1, <1>2, <1>3 DEF Shaped

\* What terminal_read copies.
Copied(b, n) == LET max == IF n > BUF_SIZE THEN BUF_SIZE ELSE n
                IN  [i \in 1 .. Length(b, max) |-> b[i - 1]]

LEMMA CopiesLine ==
    ASSUME NEW t, TermRecord(t), NEW m \in Idx, ClosedAt(t, m), NEW n \in Nat
    PROVE  LET all == Append(LineAt(t), NL)
           IN  Copied(t.keyboard_buf, n)
                  = SubSeq(all, 1, IF n < Len(all) THEN n ELSE Len(all))
<1> DEFINE b == t.keyboard_buf
           all == Append(LineAt(t), NL)
           max == IF n > BUF_SIZE THEN BUF_SIZE ELSE n
           k == IF n < m + 1 THEN n ELSE m + 1
<1>1. /\ b \in Buffers /\ m \in 0 .. BUF_SIZE /\ m + 1 \in 0 .. BUF_SIZE /\ m \in Nat
      /\ max \in 0 .. BUF_SIZE /\ k \in 0 .. m + 1 /\ k \in 0 .. BUF_SIZE
      /\ k = IF m + 1 < max THEN m + 1 ELSE max
      /\ NL \in Bytes
  BY DEF TermRecord, Idx, Bytes
<1>2. /\ \A i \in 0 .. m : b[i] # Nul
      /\ m + 1 = BUF_SIZE \/ b[m + 1] = Nul
      /\ b[m] = NL
  <2>1. \A i \in 0 .. m : i \in Idx /\ (i < m \/ i = m)
    BY <1>1 DEF Idx
  <2>2. m + 1 = BUF_SIZE \/ (m + 1 \in Idx /\ m + 1 > m)
    BY <1>1 DEF Idx
  <2>3. NL # Nul
    BY DEF NL, Nul
  <2>4. QED
    BY <2>1, <2>2, <2>3 DEF ClosedAt, EntersAt
<1>3. Length(b, max) = k
  <2>1. \A i \in 0 .. (m + 1) - 1 : b[i] # Nul
    BY <1>1, <1>2
  <2> HIDE DEF b, max, k
  <2>2. Length(b, max) = IF m + 1 < max THEN m + 1 ELSE max
    BY <1>1, <1>2, <2>1, LengthIs
  <2>3. QED
    BY <1>1, <2>2
<1>4. Copied(b, n) = LineOf(b, k)
  BY <1>3 DEF Copied, LineOf
<1>5. /\ LineAt(t) \in Seq(Bytes) /\ Len(LineAt(t)) = m
      /\ \A i \in 1 .. m : LineAt(t)[i] = b[i - 1]
  BY <1>1, ClosedIs, LineOfIs
<1> HIDE DEF k, b
<1>6. /\ all \in Seq(Bytes) /\ Len(all) = m + 1
      /\ \A i \in 1 .. m + 1 : all[i] = b[i - 1]
  <2> HIDE DEF all
  <2>1. /\ all \in Seq(Bytes) /\ Len(all) = m + 1 /\ all[m + 1] = NL
        /\ \A i \in 1 .. m : all[i] = LineAt(t)[i]
    BY <1>1, <1>5 DEF all
  <2>2. \A i \in 1 .. m + 1 : i \in 1 .. m \/ i = m + 1
    BY <1>1
  <2>3. m + 1 - 1 = m
    BY <1>1
  <2>4. QED
    BY <1>2, <1>5, <2>1, <2>2, <2>3
<1> HIDE DEF all
<1>7. /\ SubSeq(all, 1, k) \in Seq(Bytes) /\ Len(SubSeq(all, 1, k)) = k
      /\ \A i \in 1 .. k : SubSeq(all, 1, k)[i] = all[i]
  BY <1>1, <1>6
<1>8. /\ LineOf(b, k) \in Seq(Bytes) /\ Len(LineOf(b, k)) = k
      /\ \A i \in 1 .. k : LineOf(b, k)[i] = b[i - 1]
  BY <1>1, LineOfIs
<1>9. \A i \in 1 .. k : i \in 1 .. m + 1
  BY <1>1
<1>10. LineOf(b, k) = SubSeq(all, 1, k)
  <2>1. \A i \in 1 .. Len(LineOf(b, k)) : LineOf(b, k)[i] = SubSeq(all, 1, k)[i]
    BY <1>6, <1>7, <1>8, <1>9
  <2>2. QED
    BY <1>7, <1>8, <2>1, SeqEqual
<1>11. QED
  BY <1>4, <1>6, <1>10 DEF k, all, b

LEMMA CopiesNothing ==
    ASSUME NEW n \in Nat \ {0}
    PROVE  Copied(EmptyBuffer, n) = << >> /\ SubSeq(<< >>, 1, 0) = << >>
<1> DEFINE max == IF n > BUF_SIZE THEN BUF_SIZE ELSE n
<1>1. max \in 0 .. BUF_SIZE /\ 0 < max
  OBVIOUS
<1>2. /\ EmptyBuffer \in Buffers
      /\ \A i \in 0 .. 0 - 1 : EmptyBuffer[i] # Nul
      /\ EmptyBuffer[0] = Nul
  BY DEF EmptyBuffer, Buffers, Bytes, Idx
<1> HIDE DEF max
<1>3. Length(EmptyBuffer, max) = 0
  BY <1>1, <1>2, LengthIs
<1>4. Copied(EmptyBuffer, n) = LineOf(EmptyBuffer, 0)
  BY <1>3 DEF Copied, LineOf, max
<1>5. QED
  BY <1>2, <1>4, LineEmpty

-----------------------------------------------------------------------------
(***************************************************************************)
(* The refinement.                                                         *)
(***************************************************************************)
LineInv == HistInv /\ Shaped(term)

LEMMA MappedStored ==
    /\ {CommandOf(term.saved_commands[i].command) : i \in Saved} = StoredAt(term)
    /\ {CommandOf(term.saved_commands[i].command) : i \in Saved}' = StoredAt(term')
BY DEF StoredAt, CommandOf, LineOf, Length

LEMMA LineStart == Init => LineInv /\ LE!Init
<1> SUFFICES ASSUME Init PROVE LineInv /\ LE!Init
  OBVIOUS
<1>1. HistInv
  BY HistStart
<1>2. TermRecord(term)
  BY <1>1 DEF HistInv
<1>3. Open(term) /\ term.keyboard_buf = EmptyBuffer /\ term.buf_idx = 0 /\ ~term.enter_flag
  BY DEF Init, Open, Ended, EmptyBuffer, Idx
<1>4. 0 \in Idx /\ Ended(EmptyBuffer, 0) /\ EmptyBuffer \in Buffers
  BY DEF Ended, EmptyBuffer, Idx, Buffers, Bytes
<1>5. \A i \in Saved : term.saved_commands[i].command = EmptyBuffer
  BY DEF Init
<1>6. Shaped(term)
  BY <1>3, <1>4, <1>5 DEF Shaped
<1>7. LineAt(term) = << >> /\ EnteredAt(term) = "no"
  BY <1>2, <1>3, <1>4, OpenIs, LineEmpty
<1>8. CommandOf(EmptyBuffer) = << >>
  BY <1>4, CommandIs, LineEmpty
<1>9. StoredAt(term) = {<< >>}
  <2>1. 0 \in Saved
    BY DEF Saved
  <2>2. QED
    BY <1>5, <1>8, <2>1 DEF StoredAt
<1>10. LE!Init
  BY <1>7, <1>9, Mapped, MappedStored DEF LE!Init, Init
<1>11. QED
  BY <1>1, <1>6, <1>10 DEF LineInv

\* A key.
LEMMA KeyMaps ==
    ASSUME UNCHANGED <<program, result>>,
           \/ SameLine(term, term') \/ EditsLine(term, term')
           \/ RecallsLine(term, term') \/ EntersLine(term, term')
    PROVE  [LE!Next]_(LE!vars)
<1>1. CASE SameLine(term, term')
  BY <1>1, Mapped, MappedStored DEF SameLine, LE!vars
<1>2. CASE EditsLine(term, term')
  <2> DEFINE l == LineAt(term)
             m == LineAt(term')
  <2>1. /\ Entered = "no" /\ UNCHANGED <<Entered, program, result>>
        /\ {CommandOf(term.saved_commands[i].command) : i \in Saved}'
              = {CommandOf(term.saved_commands[i].command) : i \in Saved}
    BY <1>2, Mapped, MappedStored DEF EditsLine
  <2>2. ASSUME \E c \in Letters \ {Tab} : Len(l) < BUF_SIZE - 1 /\ m = Append(l, c)
        PROVE  LE!Edit
    BY <2>1, <2>2, Mapped DEF LE!Edit
  <2>3. ASSUME Len(l) + 4 < BUF_SIZE - 1 /\ m = l \o LE!TabBytes
        PROVE  LE!Edit
    BY <2>1, <2>3, Mapped DEF LE!Edit
  <2>4. ASSUME /\ l # << >>
               /\ LET n == IF Last(l) = Tab THEN 4 ELSE 1
                  IN  m = SubSeq(l, 1, Len(l) - n)
        PROVE  LE!Edit
    BY <2>1, <2>4, Mapped DEF LE!Edit, Last, LE!Last
  <2>5. LE!Edit
    BY <1>2, <2>2, <2>3, <2>4 DEF EditsLine
  <2>6. QED
    BY <2>5 DEF LE!Next
<1>3. CASE RecallsLine(term, term')
  <2>1. LE!Recall
    BY <1>3, Mapped, MappedStored DEF RecallsLine, LE!Recall, LE!Stores
  <2>2. QED
    BY <2>1 DEF LE!Next
<1>4. CASE EntersLine(term, term')
  <2>1. LE!Enter
    BY <1>4, Mapped, MappedStored DEF EntersLine, LE!Enter, LE!Stores
  <2>2. QED
    BY <2>1 DEF LE!Next
<1>5. QED
  BY <1>1, <1>2, <1>3, <1>4

LEMMA ReadStartsMaps ==
    ASSUME LineInv, ReadStarts
    PROVE  Shaped(term') /\ [LE!Next]_(LE!vars)
<1>1. TermRecord(term) /\ Shaped(term) /\ term' = ClearBuf(term)
  BY DEF LineInv, HistInv, ReadStarts
<1>2. /\ TermRecord(term') /\ SameHistory(term, term')
      /\ term'.keyboard_buf = EmptyBuffer /\ term'.buf_idx = 0
      /\ term'.enter_flag = term.enter_flag
  BY <1>1, ClearDoes
<1>3. /\ LineAt(term') = << >> /\ StoredAt(term') = StoredAt(term)
      /\ EnteredAt(term') = IF term'.enter_flag THEN "early" ELSE "no"
      /\ Shaped(term')
  BY <1>1, <1>2, ClearLine
<1>4. EnteredAt(term) = "no" <=> ~term.enter_flag
  BY <1>1, EnteredIs
<1>5. LE!ReadStarts
  BY <1>2, <1>3, <1>4, Mapped, MappedStored DEF LE!ReadStarts, ReadStarts
<1>6. QED
  BY <1>3, <1>5 DEF LE!Next

LEMMA ReadReturnsMaps ==
    ASSUME LineInv, ReadReturns
    PROVE  Shaped(term') /\ [LE!Next]_(LE!vars)
<1> DEFINE c == ClearBuf(term)
<1>1. TermRecord(term) /\ Shaped(term) /\ term.enter_flag
  BY DEF LineInv, HistInv, ReadReturns
<1>2. /\ TermRecord(c) /\ SameHistory(term, c)
      /\ c.keyboard_buf = EmptyBuffer /\ c.buf_idx = 0
  BY <1>1, ClearDoes
<1>3. term' = [c EXCEPT !.enter_flag = FALSE]
  BY DEF ReadReturns
<1> HIDE DEF c
<1>4. /\ TermRecord(term') /\ SameHistory(term, term')
      /\ term'.keyboard_buf = EmptyBuffer /\ term'.buf_idx = 0
      /\ ~term'.enter_flag
  BY <1>2, <1>3, FlagDoes DEF SameHistory
<1>5. /\ LineAt(term') = << >> /\ StoredAt(term') = StoredAt(term)
      /\ EnteredAt(term') = "no" /\ Shaped(term')
  BY <1>1, <1>4, ClearLine
<1>6. EnteredAt(term) # "no"
  BY <1>1, EnteredIs
<1>7. PICK n \in ReadSizes : result' = Copied(term.keyboard_buf, n)
  BY DEF ReadReturns, Copied
<1>8. n \in Nat \ {0}
  BY SizesAssumption
<1>9. LET all == IF EnteredAt(term) = "yes" THEN Append(LineAt(term), NL) ELSE << >>
      IN  result' = SubSeq(all, 1, IF n < Len(all) THEN n ELSE Len(all))
  <2>1. CASE \E m \in Idx : ClosedAt(term, m)
    <3>1. PICK m \in Idx : ClosedAt(term, m)
      BY <2>1
    <3>2. EnteredAt(term) = "yes"
      BY <1>1, <3>1, ClosedIs
    <3>3. QED
      BY <1>1, <1>7, <1>8, <3>1, <3>2, CopiesLine
  <2>2. CASE Lost(term)
    <3>1. EnteredAt(term) = "early" /\ term.keyboard_buf = EmptyBuffer
      BY <1>1, <2>2, LostIs DEF Lost
    <3>2. Len(<< >>) = 0 /\ ~(n < 0)
      BY <1>8
    <3>3. QED
      BY <1>7, <1>8, <3>1, <3>2, CopiesNothing
  <2>3. QED
    BY <1>1, <2>1, <2>2, EnteredIs
<1>10. LE!ReadReturns
  BY <1>5, <1>6, <1>9, Mapped, MappedStored DEF LE!ReadReturns, ReadReturns
<1>11. QED
  BY <1>5, <1>10 DEF LE!Next

LEMMA LineStep ==
    ASSUME Patient = TRUE, ErasesTabs = FALSE
    PROVE  LineInv /\ [Next]_vars => Shaped(term') /\ [LE!Next]_(LE!vars)
<1> SUFFICES ASSUME LineInv, [Next]_vars
             PROVE  Shaped(term') /\ [LE!Next]_(LE!vars)
  OBVIOUS
<1>1. TermRecord(term) /\ Hist(term) /\ Shaped(term)
  BY DEF LineInv, HistInv
<1>2. ASSUME NEW key, NEW after, Press(key, after)
      PROVE  Open(term) /\ term' = after /\ UNCHANGED <<program, result>>
  BY <1>1, <1>2, OnlyOpen DEF Press
<1>3. CASE LetterKey
  <2>1. PICK c \in Letters \ {Tab} : Press(c, Printable(term, c))
    BY <1>3 DEF LetterKey
  <2>2. QED
    BY <1>1, <1>2, <2>1, LetterLine, KeyMaps
<1>4. CASE TabKey
  BY <1>1, <1>2, <1>4, TabLine, KeyMaps DEF TabKey
<1>5. CASE BackspaceKey
  <2>1. Press("backspace", Printable(term, "backspace"))
    BY <1>5 DEF BackspaceKey
  <2>2. term.buf_idx = 0 \/ term.keyboard_buf[term.buf_idx - 1] # Tab
    BY <1>5 DEF BackspaceKey
  <2>3. QED
    BY <1>1, <1>2, <2>1, <2>2, BackspaceLine, KeyMaps
<1>6. CASE EnterKey
  BY <1>1, <1>2, <1>6, EnterLine, KeyMaps DEF EnterKey
<1>7. CASE CtrlL
  <2>1. Open(term) /\ term' = Echo(term, <<"clear">>) /\ UNCHANGED <<program, result>>
    BY <1>2, <1>7 DEF CtrlL
  <2>2. QED
    BY <1>1, <2>1, EchoDoes, EchoLine, KeyMaps
<1>8. CASE UpKey
  <2>1. Open(term) /\ term' = TypeCommandUp(term) /\ UNCHANGED <<program, result>>
    BY <1>2, <1>8 DEF UpKey
  <2>2. /\ TermRecord(term') /\ ~term'.enter_flag
        /\ Recalls(term, term') /\ SavedFrom(term, term')
    BY <1>1, <2>1, UpDoes DEF Open
  <2>3. QED
    BY <1>1, <2>1, <2>2, RecallLine, KeyMaps
<1>9. CASE DownKey
  <2>1. Open(term) /\ term' = TypeCommandDown(term) /\ UNCHANGED <<program, result>>
    BY <1>2, <1>9 DEF DownKey
  <2>2. /\ TermRecord(term') /\ ~term'.enter_flag /\ SavedFrom(term, term')
        /\ \/ Recalls(term, term')
           \/ term'.keyboard_buf = term.keyboard_buf /\ term'.buf_idx = term.buf_idx
    BY <1>1, <2>1, DownDoes DEF Open
  <2>3. QED
    BY <1>1, <2>1, <2>2, RecallLine, KeyMaps
<1>10. CASE Putc
  <2>1. PICK c : term' = Echo(term, <<c>>)
    BY <1>10 DEF Putc
  <2>2. UNCHANGED <<program, result>>
    BY <1>10 DEF Putc
  <2>3. QED
    BY <1>1, <2>1, <2>2, EchoDoes, EchoLine, KeyMaps
<1>11. CASE EndWrite
  <2>1. term' = [term EXCEPT !.scr.tx = 0] /\ UNCHANGED <<program, result>>
    BY <1>11 DEF EndWrite
  <2>2. /\ term'.keyboard_buf = term.keyboard_buf /\ term'.buf_idx = term.buf_idx
        /\ term'.enter_flag = term.enter_flag /\ SameHistory(term, term')
    BY <1>1, <2>1 DEF TermRecord, SameHistory
  <2>3. QED
    BY <1>1, <2>1, <2>2, EchoLine, KeyMaps
<1>12. CASE ReadStarts
  BY <1>12, ReadStartsMaps
<1>13. CASE ReadReturns
  BY <1>13, ReadReturnsMaps
<1>14. CASE UNCHANGED vars
  BY <1>1, <1>14, KeyMaps DEF vars, SameLine
<1>15. QED
  BY <1>3, <1>4, <1>5, <1>6, <1>7, <1>8, <1>9, <1>10, <1>11, <1>12, <1>13, <1>14 DEF Next

\* Whatever the sizes of the buffer, of the history and of reads: for a user who waits for
\* reads and erases no tabs, the handlers of kboard.c and terminal_read implement the line
\* editor, so a read returns the line entered and the history only lines that were typed.
THEOREM LinesEdited ==
    ASSUME Patient = TRUE, ErasesTabs = FALSE
    PROVE  Spec => EditsLines
<1>1. LineInv /\ [Next]_vars => LineInv' /\ [LE!Next]_(LE!vars)
  <2> SUFFICES ASSUME LineInv, [Next]_vars PROVE LineInv' /\ [LE!Next]_(LE!vars)
    OBVIOUS
  <2>1. HistInv'
    BY HistStep DEF LineInv
  <2>2. Shaped(term') /\ [LE!Next]_(LE!vars)
    BY LineStep
  <2>3. Shaped(term)'
    BY <2>2 DEF Shaped, Open, ClosedAt, Lost
  <2>4. QED
    BY <2>1, <2>2, <2>3 DEF LineInv
<1>2. QED
  BY <1>1, LineStart, PTL DEF Spec, EditsLines, LE!Spec

-----------------------------------------------------------------------------
(***************************************************************************)
(* What the screen shows: strokes one by one.                              *)
(***************************************************************************)
\* What keys and recalled commands draw, and the screens they leave.
Seen == Letters \cup {Blank, Tab}
Strokes == Seen \cup {"newline", "backspace", "clear"}
Shown == [x : 0 .. NUM_COLS - 1, y : {i \in Int : i < NUM_ROWS}, tx : Nat, cell : [Cells -> Seen]]

\* The n characters of b are what stands before the cursor.
Tells(s, b, n) == /\ n <= s.tx
                  /\ \A k \in 1 .. n :
                        At(s) - k >= 0 => Shows(s.cell[At(s) - k], b[n - k])

LEMMA Rows ==
    ASSUME NEW y \in Int
    PROVE  /\ NUM_COLS \in Nat \ {0} /\ NUM_ROWS \in Nat \ {0}
           /\ NUM_COLS * y \in Int
           /\ NUM_COLS * (y + 1) = NUM_COLS * y + NUM_COLS
           /\ NUM_COLS * (y - 1) = NUM_COLS * y - NUM_COLS
           /\ y < NUM_ROWS => NUM_COLS * y + NUM_COLS <= NUM_ROWS * NUM_COLS
           /\ y + 1 = NUM_ROWS => NUM_COLS * y + NUM_COLS = NUM_ROWS * NUM_COLS
           /\ NUM_ROWS * NUM_COLS \in Nat
<1>1. NUM_COLS \in Nat \ {0} /\ NUM_ROWS \in Nat \ {0}
  BY SizeAssumption
<1>2. NUM_COLS * y \in Int /\ NUM_ROWS * NUM_COLS \in Nat
  BY <1>1
<1>3. NUM_COLS * (y + 1) = NUM_COLS * y + NUM_COLS /\ NUM_COLS * (y - 1) = NUM_COLS * y - NUM_COLS
  BY <1>1
<1>4. ASSUME y < NUM_ROWS PROVE NUM_COLS * (y + 1) <= NUM_ROWS * NUM_COLS
  <2>1. PICK d \in Nat : NUM_ROWS = y + 1 + d
    <3>1. NUM_ROWS - (y + 1) \in Nat /\ NUM_ROWS = y + 1 + (NUM_ROWS - (y + 1))
      BY <1>1, <1>4
    <3>2. QED
      BY <3>1
  <2>2. NUM_ROWS * NUM_COLS = NUM_COLS * (y + 1) + NUM_COLS * d /\ NUM_COLS * d \in Nat
    BY <1>1, <2>1
  <2>3. QED
    BY <1>1, <2>2
<1>5. y + 1 = NUM_ROWS => NUM_COLS * (y + 1) = NUM_ROWS * NUM_COLS
  BY <1>1
<1>6. QED
  BY <1>1, <1>2, <1>3, <1>4, <1>5

LEMMA AtIs ==
    ASSUME NEW s \in Shown
    PROVE  /\ At(s) \in Int /\ At(s) < NUM_ROWS * NUM_COLS
           /\ \A p \in Int : p >= 0 /\ p <= At(s) => p \in Cells
           /\ NUM_COLS \in Nat \ {0}
<1>1. s.x \in 0 .. NUM_COLS - 1 /\ s.y \in Int /\ s.y < NUM_ROWS
  BY DEF Shown
<1> DEFINE m == NUM_COLS * s.y
           all == NUM_ROWS * NUM_COLS
<1>2. m \in Int /\ m + NUM_COLS <= all /\ all \in Nat /\ NUM_COLS \in Nat \ {0}
  BY <1>1, Rows
<1>3. At(s) = m + s.x /\ Cells = 0 .. all - 1
  BY DEF At, Cells
<1> HIDE DEF m, all
<1>4. At(s) \in Int /\ At(s) < all
  BY <1>1, <1>2, <1>3
<1>5. \A p \in Int : p >= 0 /\ p <= At(s) => p \in Cells
  BY <1>2, <1>3, <1>4
<1>6. QED
  BY <1>2, <1>4, <1>5 DEF all

\* The cell under the cursor is set.
LEMMA StoredIs ==
    ASSUME NEW s \in Shown, NEW g \in Seen
    PROVE  /\ Stored(s, g) \in Shown
           /\ Stored(s, g).x = s.x /\ Stored(s, g).y = s.y /\ Stored(s, g).tx = s.tx
           /\ \A i \in Cells : Stored(s, g).cell[i] = IF i = At(s) THEN g ELSE s.cell[i]
BY DEF Stored, Shown

\* Going on to the next row moves the cursor by one, on a screen that may move up.
LEMMA NextRowIs ==
    ASSUME NEW s, NEW p \in Shown, s = [p EXCEPT !.x = NUM_COLS]
    PROVE  /\ NextRow(s) \in Shown /\ NextRow(s).tx = p.tx
           /\ \E d \in Nat :
                 /\ At(NextRow(s)) = NUM_COLS * p.y + NUM_COLS - d
                 /\ \A i \in Cells : i + d <= NUM_COLS * p.y + NUM_COLS - 1 =>
                                        NextRow(s).cell[i] = p.cell[i + d]
<1> DEFINE m == NUM_COLS * p.y
           all == NUM_ROWS * NUM_COLS
<1>1. /\ p.x \in 0 .. NUM_COLS - 1 /\ p.y \in Int /\ p.y < NUM_ROWS /\ p.tx \in Nat
      /\ p.cell \in [Cells -> Seen]
  BY DEF Shown
<1>2. /\ m \in Int /\ m + NUM_COLS <= all /\ all \in Nat /\ NUM_COLS \in Nat \ {0}
      /\ NUM_ROWS \in Nat \ {0}
      /\ NUM_COLS * (p.y + 1) = m + NUM_COLS /\ (p.y + 1 = NUM_ROWS => m + NUM_COLS = all)
  BY <1>1, Rows
<1>3. Cells = 0 .. all - 1
  BY DEF Cells
<1>4. s.x = NUM_COLS /\ s.y = p.y /\ s.tx = p.tx /\ s.cell = p.cell
  BY DEF Shown
<1> DEFINE u == NextRow(s)
<1>5. CASE p.y + 1 = NUM_ROWS
  <2> DEFINE cells == [i \in Cells |-> IF i + NUM_COLS \in Cells
                                       THEN s.cell[i + NUM_COLS] ELSE Blank]
  <2>1. u = [[s EXCEPT !.cell = cells] EXCEPT !.x = 0]
    BY <1>4, <1>5 DEF NextRow, Scrolled
  <2>2. cells \in [Cells -> Seen]
    BY <1>1, <1>4 DEF Seen
  <2> HIDE DEF cells
  <2>3. u.x = 0 /\ u.y = p.y /\ u.tx = p.tx /\ u.cell = cells
    BY <2>1 DEF Shown
  <2>4. u \in Shown
    <3>1. 0 \in 0 .. NUM_COLS - 1
      BY <1>2
    <3>2. u = [p EXCEPT !.x = 0, !.cell = cells]
      BY <2>1 DEF Shown
    <3>3. QED
      BY <2>2, <3>1, <3>2 DEF Shown
  <2>5. At(u) = m
    BY <1>2, <2>3 DEF At
  <2>6. \A i \in Cells : i + NUM_COLS <= m + NUM_COLS - 1 => u.cell[i] = p.cell[i + NUM_COLS]
    <3> SUFFICES ASSUME NEW i \in Cells, i + NUM_COLS <= m + NUM_COLS - 1
                 PROVE  u.cell[i] = p.cell[i + NUM_COLS]
      OBVIOUS
    <3> HIDE DEF m, all, u
    <3>1. i + NUM_COLS \in Cells
      BY <1>2, <1>3
    <3>2. QED
      BY <1>4, <2>3, <3>1 DEF cells
  <2>7. NUM_COLS \in Nat /\ At(u) = m + NUM_COLS - NUM_COLS
    BY <1>2, <2>5
  <2>8. QED
    BY <2>3, <2>4, <2>6, <2>7
<1>6. CASE p.y + 1 # NUM_ROWS
  <2>1. u = [s EXCEPT !.x = 0, !.y = p.y + 1]
    BY <1>4, <1>6 DEF NextRow
  <2>2. u.x = 0 /\ u.y = p.y + 1 /\ u.tx = p.tx /\ u.cell = p.cell
    BY <2>1 DEF Shown
  <2>3. u \in Shown
    <3>1. 0 \in 0 .. NUM_COLS - 1
      BY <1>2
    <3>2. p.y + 1 \in Int /\ p.y + 1 < NUM_ROWS
      <4> HIDE DEF m, all
      <4>1. QED
        BY <1>1, <1>2, <1>6
    <3>3. p.y + 1 \in {i \in Int : i < NUM_ROWS}
      BY <3>2
    <3>4. u = [p EXCEPT !.x = 0, !.y = p.y + 1]
      BY <2>1 DEF Shown
    <3>5. QED
      BY <3>1, <3>3, <3>4 DEF Shown
  <2>4. At(u) = m + NUM_COLS - 0
    BY <1>2, <2>2 DEF At
  <2>5. \A i \in Cells : u.cell[i] = p.cell[i + 0]
    BY <1>2, <1>3, <2>2
  <2>6. QED
    BY <2>2, <2>3, <2>4, <2>5
<1>7. QED
  BY <1>5, <1>6

\* The cell before the cursor, on either side of a step.
LEMMA GlyphIs ==
    ASSUME NEW s \in Shown, NEW g \in Seen
    PROVE  LET u == Glyph(s, g)
           IN  /\ u \in Shown /\ u.tx = s.tx + 1
               /\ \E d \in Nat :
                     /\ At(u) = At(s) + 1 - d
                     /\ \A i \in Cells : i + d <= At(s) =>
                           u.cell[i] = IF i + d = At(s) THEN g ELSE s.cell[i + d]
<1> DEFINE st == Stored(s, g)
           q == [st EXCEPT !.tx = @ + 1]
           p == [st EXCEPT !.x = @ + 1, !.tx = @ + 1]
           u == Glyph(s, g)
           m == NUM_COLS * s.y
<1>1. /\ st \in Shown /\ st.x = s.x /\ st.y = s.y /\ st.tx = s.tx
      /\ \A i \in Cells : st.cell[i] = IF i = At(s) THEN g ELSE s.cell[i]
  BY StoredIs
<1>2. u = IF p.x = NUM_COLS THEN NextRow(p) ELSE p
  BY DEF Glyph
<1>3. /\ s.x \in 0 .. NUM_COLS - 1 /\ s.tx \in Nat /\ m \in Int /\ NUM_COLS \in Nat \ {0}
      /\ At(s) = m + s.x /\ At(s) \in Int
      /\ \A i \in Int : i >= 0 /\ i <= At(s) => i \in Cells
      /\ \A i \in Cells : i \in Nat
  <2>1. s.x \in 0 .. NUM_COLS - 1 /\ s.tx \in Nat /\ s.y \in Int
    BY DEF Shown
  <2>2. m \in Int /\ NUM_COLS \in Nat \ {0} /\ NUM_ROWS * NUM_COLS \in Nat
    BY <2>1, Rows
  <2>3. At(s) = m + s.x
    BY DEF At
  <2>4. \A i \in Cells : i \in Nat
    BY <2>2 DEF Cells
  <2>5. QED
    BY <2>1, <2>2, <2>3, <2>4, AtIs
<1> HIDE DEF st
<1>4. q \in Shown /\ q.tx = s.tx + 1 /\ q.x = s.x /\ q.y = s.y /\ q.cell = st.cell
  BY <1>1, <1>3 DEF Shown
<1>5. p = [q EXCEPT !.x = s.x + 1] /\ p.x = s.x + 1 /\ p.y = s.y /\ p.tx = q.tx /\ p.cell = st.cell
  BY <1>1, <1>4 DEF Shown
<1> HIDE DEF q, p
<1>6. CASE p.x = NUM_COLS
  <2>1. u = NextRow(p) /\ p = [q EXCEPT !.x = NUM_COLS]
    BY <1>2, <1>5, <1>6
  <2>2. /\ u \in Shown /\ u.tx = q.tx
        /\ \E d \in Nat :
              /\ At(u) = NUM_COLS * q.y + NUM_COLS - d
              /\ \A i \in Cells : i + d <= NUM_COLS * q.y + NUM_COLS - 1 =>
                                     u.cell[i] = q.cell[i + d]
    BY <1>4, <2>1, NextRowIs
  <2> HIDE DEF u
  <2>3. PICK d \in Nat : /\ At(u) = m + NUM_COLS - d
                         /\ \A i \in Cells : i + d <= m + NUM_COLS - 1 => u.cell[i] = q.cell[i + d]
    BY <1>4, <2>2
  <2> HIDE DEF m
  <2>4. At(s) + 1 = m + NUM_COLS
    BY <1>3, <1>5, <1>6
  <2>5. At(u) = At(s) + 1 - d
    BY <1>3, <2>3, <2>4
  <2>6. ASSUME NEW i \in Cells, i + d <= At(s)
        PROVE  u.cell[i] = IF i + d = At(s) THEN g ELSE s.cell[i + d]
    <3>1. i + d \in Cells
      BY <1>3, <2>6
    <3>2. u.cell[i] = q.cell[i + d]
      BY <1>3, <2>3, <2>4, <2>6
    <3>3. QED
      BY <1>1, <1>4, <3>1, <3>2
  <2>7. QED
    BY <1>4, <2>2, <2>5, <2>6 DEF u
<1>7. CASE p.x # NUM_COLS
  <2>1. u = p
    BY <1>2, <1>7
  <2>2. s.x + 1 \in 0 .. NUM_COLS - 1
    <3> HIDE DEF m
    <3>1. QED
      BY <1>3, <1>5, <1>7
  <2>3. u \in Shown
    BY <1>4, <1>5, <2>1, <2>2 DEF Shown
  <2>4. At(u) = At(s) + 1 - 0
    <3>1. At(u) = m + (s.x + 1)
      BY <1>5, <2>1 DEF At
    <3> HIDE DEF m, u
    <3>2. QED
      BY <1>3, <3>1
  <2>5. \A i \in Cells : i + 0 <= At(s) =>
                            u.cell[i] = IF i + 0 = At(s) THEN g ELSE s.cell[i + 0]
    BY <1>1, <1>3, <1>5, <2>1
  <2>6. QED
    BY <1>4, <1>5, <2>1, <2>3, <2>4, <2>5
<1>8. QED
  BY <1>6, <1>7

\* A character typed is shown after the others.
LEMMA GlyphTells ==
    ASSUME NEW s \in Shown, NEW g \in Seen, NEW b, NEW n \in Nat, Tells(s, b, n), Shows(g, b[n])
    PROVE  Tells(Glyph(s, g), b, n + 1)
<1> DEFINE u == Glyph(s, g)
<1>1. u.tx = s.tx + 1 /\ s.tx \in Nat /\ n <= s.tx
  BY GlyphIs DEF Shown, Tells
<1>2. PICK d \in Nat :
          /\ At(u) = At(s) + 1 - d
          /\ \A i \in Cells : i + d <= At(s) =>
                u.cell[i] = IF i + d = At(s) THEN g ELSE s.cell[i + d]
  BY GlyphIs
<1>3. At(s) \in Int /\ At(u) \in Int /\ \A p \in Int : p >= 0 /\ p <= At(u) => p \in Cells
  BY GlyphIs, AtIs
<1> HIDE DEF u
<1>4. ASSUME NEW k \in 1 .. n + 1, At(u) - k >= 0
      PROVE  Shows(u.cell[At(u) - k], b[n + 1 - k])
  <2> DEFINE i == At(u) - k
  <2>1. i \in Cells /\ i + d = At(s) - (k - 1)
    BY <1>2, <1>3, <1>4
  <2>2. CASE k = 1
    <3>1. i + d = At(s) /\ n + 1 - k = n
      BY <1>3, <2>1, <2>2
    <3>2. u.cell[i] = g
      BY <1>2, <1>3, <2>1, <3>1
    <3>3. QED
      BY <3>1, <3>2
  <2>3. CASE k # 1
    <3>1. k - 1 \in 1 .. n /\ i + d <= At(s) /\ i + d # At(s) /\ n + 1 - k = n - (k - 1)
          /\ At(s) - (k - 1) >= 0
      BY <1>2, <1>3, <1>4, <2>1, <2>3
    <3>2. u.cell[i] = s.cell[At(s) - (k - 1)]
      BY <1>2, <2>1, <3>1
    <3>3. Shows(s.cell[At(s) - (k - 1)], b[n - (k - 1)])
      BY <3>1 DEF Tells
    <3>4. QED
      BY <3>1, <3>2, <3>3
  <2>4. QED
    BY <2>2, <2>3
<1>5. n + 1 <= u.tx
  BY <1>1
<1>6. QED
  BY <1>4, <1>5 DEF Tells, u

\* A backspace takes the last character away, as long as there is one.
LEMMA BackspaceTells ==
    ASSUME NEW s \in Shown
    PROVE  /\ Backspace(s) \in Shown
           /\ \A b : \A n \in Nat : Tells(s, b, n) =>
                 Tells(Backspace(s), b, IF n = 0 THEN 0 ELSE n - 1)
<1>1. CASE s.tx = 0
  <2>1. Backspace(s) = s
    BY <1>1 DEF Backspace
  <2>2. ASSUME NEW b, NEW n \in Nat, Tells(s, b, n)
        PROVE  Tells(s, b, IF n = 0 THEN 0 ELSE n - 1)
    <3>1. n = 0
      BY <1>1, <2>2 DEF Tells
    <3>2. QED
      BY <2>2, <3>1
  <2>3. QED
    BY <2>1, <2>2
<1>2. CASE s.tx # 0
  <2> DEFINE p == IF s.x = 0 THEN [s EXCEPT !.x = NUM_COLS - 1, !.y = @ - 1, !.tx = @ - 1]
                  ELSE [s EXCEPT !.x = @ - 1, !.tx = @ - 1]
             u == Stored(p, Blank)
  <2>1. Backspace(s) = u
    BY <1>2 DEF Backspace, Erase
  <2>2. /\ s.x \in 0 .. NUM_COLS - 1 /\ s.tx \in Nat /\ s.y \in Int /\ s.y < NUM_ROWS
        /\ NUM_COLS \in Nat \ {0} /\ NUM_ROWS \in Nat \ {0}
    BY Rows DEF Shown
  <2>3. p \in Shown /\ p.tx = s.tx - 1 /\ p.cell = s.cell
    <3>1. NUM_COLS - 1 \in 0 .. NUM_COLS - 1 /\ s.tx - 1 \in Nat /\ s.y - 1 \in Int
          /\ s.y - 1 < NUM_ROWS /\ (s.x # 0 => s.x - 1 \in 0 .. NUM_COLS - 1)
      BY <1>2, <2>2
    <3>2. s.y - 1 \in {i \in Int : i < NUM_ROWS}
      BY <3>1
    <3>3. QED
      BY <3>1, <3>2 DEF Shown
  <2>4. At(p) = At(s) - 1
    <3> DEFINE m == NUM_COLS * s.y
    <3>1. m \in Int /\ NUM_COLS * (s.y - 1) = m - NUM_COLS /\ At(s) = m + s.x
      BY <2>2, Rows DEF At
    <3>2. CASE s.x = 0
      <4>1. p.x = NUM_COLS - 1 /\ p.y = s.y - 1
        BY <3>2 DEF Shown
      <4>2. At(p) = NUM_COLS * (s.y - 1) + (NUM_COLS - 1)
        BY <4>1 DEF At
      <4> HIDE DEF m, p
      <4>3. QED
        BY <2>2, <3>1, <3>2, <4>2
    <3>3. CASE s.x # 0
      <4>1. p.x = s.x - 1 /\ p.y = s.y
        BY <3>3 DEF Shown
      <4>2. At(p) = m + (s.x - 1)
        BY <4>1 DEF At
      <4> HIDE DEF m, p
      <4>3. QED
        BY <2>2, <3>1, <4>2
    <3>4. QED
      BY <3>2, <3>3
  <2> HIDE DEF p
  <2>5. /\ u \in Shown /\ u.tx = p.tx /\ At(u) = At(p)
        /\ \A i \in Cells : u.cell[i] = IF i = At(p) THEN Blank ELSE p.cell[i]
    BY <2>3, StoredIs DEF Seen, At
  <2>6. At(s) \in Int /\ \A i \in Int : i >= 0 /\ i <= At(s) => i \in Cells
    BY AtIs
  <2> HIDE DEF u
  <2>7. ASSUME NEW b, NEW n \in Nat, Tells(s, b, n)
        PROVE  Tells(u, b, IF n = 0 THEN 0 ELSE n - 1)
    <3>1. n <= s.tx
      BY <2>7 DEF Tells
    <3>2. ASSUME NEW k \in 1 .. n - 1, At(u) - k >= 0
          PROVE  Shows(u.cell[At(u) - k], b[n - 1 - k])
      <4>1. /\ k + 1 \in 1 .. n /\ At(u) - k = At(s) - (k + 1) /\ At(s) - (k + 1) >= 0
            /\ n - 1 - k = n - (k + 1) /\ At(s) - (k + 1) \in Int
        BY <2>4, <2>5, <2>6, <3>2
      <4>2. At(s) - (k + 1) \in Cells /\ At(s) - (k + 1) # At(p)
        BY <2>4, <2>6, <4>1
      <4>3. u.cell[At(u) - k] = s.cell[At(s) - (k + 1)]
        BY <2>3, <2>5, <4>1, <4>2
      <4>4. Shows(s.cell[At(s) - (k + 1)], b[n - (k + 1)])
        BY <2>7, <4>1 DEF Tells
      <4>5. QED
        BY <4>1, <4>3, <4>4
    <3>3. CASE n = 0
      BY <1>2, <2>2, <2>3, <2>5, <3>3 DEF Tells
    <3>4. CASE n # 0
      <4>1. n - 1 <= u.tx
        BY <2>2, <2>3, <2>5, <3>1
      <4>2. Tells(u, b, n - 1)
        BY <3>2, <4>1 DEF Tells
      <4>3. QED
        BY <3>4, <4>2
    <3>5. QED
      BY <3>3, <3>4
  <2>8. QED
    BY <2>1, <2>5, <2>7
<1>3. QED
  BY <1>1, <1>2

LEMMA NewLineShown ==
    ASSUME NEW s \in Shown
    PROVE  NewLine(s) \in Shown
<1>1. NextRow([s EXCEPT !.x = NUM_COLS]) \in Shown
  BY NextRowIs
<1>2. NextRow([s EXCEPT !.x = NUM_COLS]) = NextRow(s)
  BY DEF NextRow, Scrolled, Shown
<1>3. QED
  BY <1>1, <1>2 DEF NewLine, Shown

\* Ctrl+L leaves nothing before the cursor, and what is typed on is shown from there.
LEMMA ClearTells ==
    ASSUME NEW s \in Shown
    PROVE  /\ Clear(s) \in Shown
           /\ \A b : \A n \in Nat : Tells(s, b, n) => Tells(Clear(s), b, n)
<1>1. NUM_COLS \in Nat \ {0} /\ NUM_ROWS \in Nat \ {0} /\ NUM_COLS * 0 = 0
  BY Rows
<1>2. 0 \in 0 .. NUM_COLS - 1 /\ 0 \in {i \in Int : i < NUM_ROWS} /\ EmptyCells \in [Cells -> Seen]
  BY <1>1 DEF EmptyCells, Seen
<1>3. Clear(s) = [s EXCEPT !.x = 0, !.y = 0, !.cell = EmptyCells]
  BY DEF Clear
<1>4. Clear(s) \in Shown /\ Clear(s).x = 0 /\ Clear(s).y = 0 /\ Clear(s).tx = s.tx
  BY <1>2, <1>3 DEF Shown
<1>5. At(Clear(s)) = 0
  BY <1>1, <1>4 DEF At
<1>6. QED
  BY <1>4, <1>5 DEF Tells

LEMMA DrawShown ==
    ASSUME NEW s \in Shown, NEW c \in Strokes
    PROVE  /\ Draw(s, c) \in Shown
           /\ c \in Seen => Draw(s, c) = Glyph(s, c)
           /\ c = "backspace" => Draw(s, c) = Backspace(s)
           /\ c = "clear" => Draw(s, c) = Clear(s)
<1>1. Seen \cap {"newline", "backspace", "clear"} = {}
  BY LettersAssumption DEF Seen, Blank, Tab
<1>2. QED
  BY <1>1, NewLineShown, BackspaceTells, ClearTells, GlyphIs DEF Draw, Strokes

-----------------------------------------------------------------------------
(***************************************************************************)
(* Strokes in a row: what is true before the first and kept by each is     *)
(* true after the last.                                                    *)
(***************************************************************************)
LEMMA UpTo ==
    ASSUME NEW n \in Nat, NEW T, 0 \in T,
           \A k \in 0 .. n - 1 : k \in T => k + 1 \in T
    PROVE  \A k \in 0 .. n : k \in T
<1> DEFINE U == {k \in 0 .. n : k \notin T}
<1>1. SUFFICES ASSUME U # {} PROVE FALSE
  OBVIOUS
<1>2. PICK k \in U : \A j \in U : k <= j
  <2>1. U \in SUBSET Nat
    OBVIOUS
  <2> HIDE DEF U
  <2>2. QED
    BY <1>1, <2>1, LeastOf
<1>3. k # 0 /\ k - 1 \in 0 .. n - 1 /\ k - 1 \notin U
  BY <1>2
<1>4. k - 1 \in T /\ k = k - 1 + 1
  BY <1>3
<1>5. QED
  BY <1>2, <1>3, <1>4

\* The screens after each stroke.
Drawn(f, s, cs) == f = [n \in 0 .. Len(cs) |-> IF n = 0 THEN s ELSE Draw(f[n - 1], cs[n])]

LEMMA DrawnIs ==
    ASSUME NEW s \in Shown, NEW cs, Len(cs) \in Nat, \A k \in 1 .. Len(cs) : cs[k] \in Strokes
    PROVE  \E f : Drawn(f, s, cs)
<1> DEFINE N == Len(cs)
           Good(m, f) == /\ f \in [0 .. m -> Shown] /\ f[0] = s
                         /\ \A k \in 1 .. m : f[k] = Draw(f[k - 1], cs[k])
           T == {m \in 0 .. N : \E f : Good(m, f)}
<1>1. 0 \in T
  <2>1. PICK f : f = [k \in 0 .. 0 |-> s]
    OBVIOUS
  <2>2. f \in [0 .. 0 -> Shown] /\ f[0] = s
    BY <2>1
  <2>3. Good(0, f)
    BY <2>2
  <2>4. QED
    BY <2>3
<1>2. ASSUME NEW m \in 0 .. N - 1, m \in T PROVE m + 1 \in T
  <2>1. PICK f : Good(m, f)
    BY <1>2
  <2> DEFINE d == Draw(f[m], cs[m + 1])
             g == [k \in 0 .. m + 1 |-> IF k = m + 1 THEN d ELSE f[k]]
  <2>2. f[m] \in Shown /\ d \in Shown
    <3>1. f[m] \in Shown /\ cs[m + 1] \in Strokes
      BY <2>1
    <3>2. QED
      BY <3>1, DrawShown
  <2> HIDE DEF d
  <2>3. g \in [0 .. m + 1 -> Shown] /\ g[0] = s /\ g[m + 1] = d
    BY <2>1, <2>2
  <2>4. \A k \in 0 .. m : g[k] = f[k]
    OBVIOUS
  <2> HIDE DEF g
  <2>5. ASSUME NEW k \in 1 .. m + 1 PROVE g[k] = Draw(g[k - 1], cs[k])
    <3>1. CASE k = m + 1
      <4>1. k - 1 = m /\ m \in 0 .. m
        BY <3>1
      <4>2. g[k - 1] = f[m]
        BY <4>1, <2>4
      <4>3. QED
        BY <3>1, <4>2, <2>3 DEF d
    <3>2. CASE k \in 1 .. m
      <4>1. g[k] = f[k] /\ g[k - 1] = f[k - 1] /\ f[k] = Draw(f[k - 1], cs[k])
        BY <3>2, <2>4, <2>1
      <4>2. QED
        BY <4>1
    <3>3. QED
      BY <3>1, <3>2
  <2>6. Good(m + 1, g)
    BY <2>3, <2>5
  <2>7. QED
    BY <2>6
<1>3. N \in T
  <2>1. \A k \in 0 .. N : k \in T
    <3> HIDE DEF T
    <3>1. QED
      BY <1>1, <1>2, UpTo
  <2>2. QED
    BY <2>1
<1>4. PICK f : Good(N, f)
  BY <1>3
<1>5. f = [n \in 0 .. N |-> IF n = 0 THEN s ELSE Draw(f[n - 1], cs[n])]
  <2>1. \A n \in 0 .. N : f[n] = IF n = 0 THEN s ELSE Draw(f[n - 1], cs[n])
    BY <1>4
  <2>2. f = [n \in 0 .. N |-> f[n]]
    BY <1>4
  <2>3. QED
    BY <2>1, <2>2
<1>6. QED
  BY <1>5 DEF Drawn

LEMMA DrawAllIn ==
    ASSUME NEW cs, Len(cs) \in Nat, \A k \in 1 .. Len(cs) : cs[k] \in Strokes,
           NEW W \in [0 .. Len(cs) -> SUBSET Shown], NEW s \in W[0],
           \A k \in 1 .. Len(cs) : \A u \in W[k - 1] : Draw(u, cs[k]) \in W[k]
    PROVE  DrawAll(s, cs) \in W[Len(cs)]
<1> DEFINE N == Len(cs)
           drawn == CHOOSE f : f = [n \in 0 .. N |-> IF n = 0 THEN s ELSE Draw(f[n - 1], cs[n])]
<1>1. s \in Shown
  OBVIOUS
<1>2. \E f : f = [n \in 0 .. N |-> IF n = 0 THEN s ELSE Draw(f[n - 1], cs[n])]
  BY <1>1, DrawnIs DEF Drawn
<1>3. drawn = [n \in 0 .. N |-> IF n = 0 THEN s ELSE Draw(drawn[n - 1], cs[n])]
  BY <1>2
<1>4. DrawAll(s, cs) = [s EXCEPT !.x = drawn[N].x, !.y = drawn[N].y, !.tx = drawn[N].tx,
                                 !.cell = drawn[N].cell]
  BY DEF DrawAll
<1> HIDE DEF drawn
<1>5. drawn[0] = s /\ \A n \in 1 .. N : drawn[n] = Draw(drawn[n - 1], cs[n])
  BY <1>3
<1> DEFINE T == {n \in 0 .. N : drawn[n] \in W[n]}
<1>6. \A n \in 0 .. N : n \in T
  <2>1. 0 \in T
    BY <1>5
  <2>2. \A k \in 0 .. N - 1 : k \in T => k + 1 \in T
    <3> SUFFICES ASSUME NEW k \in 0 .. N - 1, k \in T PROVE k + 1 \in T
      OBVIOUS
    <3>1. k + 1 \in 1 .. N /\ k + 1 - 1 = k /\ k + 1 \in 0 .. N
      OBVIOUS
    <3>2. drawn[k + 1] = Draw(drawn[k], cs[k + 1]) /\ drawn[k] \in W[k]
      BY <1>5, <3>1
    <3>3. drawn[k + 1] \in W[k + 1]
      BY <3>1, <3>2
    <3>4. QED
      BY <3>1, <3>3
  <2> HIDE DEF T
  <2>3. QED
    BY <2>1, <2>2, UpTo
<1>7. drawn[N] \in W[N] /\ W[N] \subseteq Shown
  BY <1>6
<1>8. DrawAll(s, cs) = drawn[N]
  BY <1>1, <1>4, <1>7 DEF Shown
<1>9. QED
  BY <1>7, <1>8

LEMMA DrawAllShown ==
    ASSUME NEW s \in Shown, NEW cs, Len(cs) \in Nat, \A k \in 1 .. Len(cs) : cs[k] \in Strokes
    PROVE  DrawAll(s, cs) \in Shown
<1> DEFINE W == [n \in 0 .. Len(cs) |-> Shown]
<1>1. W \in [0 .. Len(cs) -> SUBSET Shown] /\ s \in W[0] /\ W[Len(cs)] = Shown
  OBVIOUS
<1>2. \A k \in 1 .. Len(cs) : \A u \in W[k - 1] : Draw(u, cs[k]) \in W[k]
  BY DrawShown
<1> HIDE DEF W
<1>3. QED
  BY <1>1, <1>2, DrawAllIn

LEMMA DrawOne ==
    ASSUME NEW s \in Shown, NEW c \in Strokes
    PROVE  DrawAll(s, <<c>>) = Draw(s, c)
<1> DEFINE W == [n \in 0 .. 1 |-> IF n = 0 THEN {s} ELSE {Draw(s, c)}]
<1>1. Len(<<c>>) = 1 /\ <<c>>[1] = c
  OBVIOUS
<1>2. W \in [0 .. 1 -> SUBSET Shown] /\ W[0] = {s} /\ W[1] = {Draw(s, c)}
  BY DrawShown
<1>3. \A k \in 1 .. 1 : \A u \in W[k - 1] : Draw(u, <<c>>[k]) \in W[k]
  BY <1>1, <1>2
<1> HIDE DEF W
<1>4. DrawAll(s, <<c>>) \in W[1]
  <2>1. \A k \in 1 .. Len(<<c>>) : <<c>>[k] \in Strokes
    BY <1>1
  <2>2. QED
    BY <1>1, <1>2, <1>3, <2>1, DrawAllIn
<1>5. QED
  BY <1>2, <1>4

LEMMA LenIs == ASSUME NEW n \in Nat, NEW f, DOMAIN f = 1 .. n PROVE Len(f) = n
BY DEF Len

\* Erasing n characters, and drawing n characters.
LEMMA ErasedTells ==
    ASSUME NEW s \in Shown, NEW m \in Nat
    PROVE  LET u == DrawAll(s, [i \in 1 .. m |-> "backspace"])
           IN  /\ u \in Shown
               /\ \A b : \A n \in Nat : m <= n /\ Tells(s, b, n) => Tells(u, b, n - m)
<1> DEFINE cs == [i \in 1 .. m |-> "backspace"]
<1>1. Len(cs) = m /\ \A k \in 1 .. m : cs[k] = "backspace"
  BY LenIs
<1>2. "backspace" \in Strokes
  BY DEF Strokes
<1> HIDE DEF cs
<1>3. DrawAll(s, cs) \in Shown
  BY <1>1, <1>2, DrawAllShown
<1>4. ASSUME NEW b, NEW n \in Nat, m <= n, Tells(s, b, n)
      PROVE  Tells(DrawAll(s, cs), b, n - m)
  <2> DEFINE W == [k \in 0 .. m |-> {u \in Shown : Tells(u, b, n - k)}]
  <2>1. /\ W \in [0 .. m -> SUBSET Shown]
        /\ \A k \in 0 .. m : W[k] = {u \in Shown : Tells(u, b, n - k)}
    OBVIOUS
  <2> HIDE DEF W
  <2>2. s \in W[0]
    BY <1>4, <2>1
  <2>3. ASSUME NEW k \in 1 .. m, NEW u \in W[k - 1] PROVE Draw(u, cs[k]) \in W[k]
    <3>1. k - 1 \in 0 .. m /\ n - (k - 1) \in Nat \ {0} /\ n - k = n - (k - 1) - 1
      BY <1>4
    <3>2. u \in Shown /\ Tells(u, b, n - (k - 1))
      BY <2>1, <3>1
    <3>3. Backspace(u) \in Shown /\ Tells(Backspace(u), b, n - k)
      BY <3>1, <3>2, BackspaceTells
    <3>4. Draw(u, cs[k]) = Backspace(u)
      BY <1>1, <1>2, <3>2, DrawShown
    <3>5. QED
      BY <2>1, <3>3, <3>4
  <2>4. DrawAll(s, cs) \in W[m]
    BY <1>1, <1>2, <2>1, <2>2, <2>3, DrawAllIn
  <2>5. QED
    BY <2>1, <2>4
<1>5. QED
  BY <1>3, <1>4 DEF cs

LEMMA GlyphOfSeen ==
    ASSUME NEW c \in Letters \cup {Space, Tab}
    PROVE  /\ GlyphOf(c) \in Seen /\ GlyphOf(c) \in Strokes
           /\ Shows(GlyphOf(c), c)
BY DEF GlyphOf, Seen, Strokes, Shows

LEMMA TypedTells ==
    ASSUME NEW s \in Shown, NEW b, NEW m \in Nat,
           \A i \in 0 .. m - 1 : b[i] \in Letters \cup {Space, Tab}
    PROVE  LET u == DrawAll(s, [i \in 1 .. m |-> GlyphOf(b[i - 1])])
           IN  u \in Shown /\ Tells(u, b, m)
<1> DEFINE cs == [i \in 1 .. m |-> GlyphOf(b[i - 1])]
           W == [k \in 0 .. m |-> {u \in Shown : Tells(u, b, k)}]
<1>1. Len(cs) = m /\ \A k \in 1 .. m : cs[k] = GlyphOf(b[k - 1])
  BY LenIs
<1>2. \A k \in 1 .. m : cs[k] \in Seen /\ cs[k] \in Strokes /\ Shows(cs[k], b[k - 1])
  <2> SUFFICES ASSUME NEW k \in 1 .. m
               PROVE  cs[k] \in Seen /\ cs[k] \in Strokes /\ Shows(cs[k], b[k - 1])
    OBVIOUS
  <2>1. k - 1 \in 0 .. m - 1
    OBVIOUS
  <2>2. b[k - 1] \in Letters \cup {Space, Tab}
    BY <2>1
  <2> HIDE DEF cs
  <2>3. QED
    BY <1>1, <2>2, GlyphOfSeen
<1> HIDE DEF cs
<1>3. /\ W \in [0 .. m -> SUBSET Shown]
      /\ \A k \in 0 .. m : W[k] = {u \in Shown : Tells(u, b, k)}
  OBVIOUS
<1> HIDE DEF W
<1>4. s \in W[0]
  BY <1>3 DEF Tells, Shown
<1>5. ASSUME NEW k \in 1 .. m, NEW u \in W[k - 1] PROVE Draw(u, cs[k]) \in W[k]
  <2>1. k - 1 \in 0 .. m /\ k - 1 \in Nat /\ k - 1 + 1 = k
    OBVIOUS
  <2>2. u \in Shown /\ Tells(u, b, k - 1)
    BY <1>3, <2>1
  <2>3. Glyph(u, cs[k]) \in Shown /\ Tells(Glyph(u, cs[k]), b, k - 1 + 1)
    BY <1>2, <2>1, <2>2, GlyphTells, GlyphIs
  <2>4. Draw(u, cs[k]) = Glyph(u, cs[k])
    BY <1>2, <2>2, DrawShown
  <2>5. QED
    BY <1>3, <2>1, <2>3, <2>4
<1>6. DrawAll(s, cs) \in W[m]
  BY <1>1, <1>2, <1>3, <1>4, <1>5, DrawAllIn
<1>7. QED
  BY <1>3, <1>6 DEF cs

-----------------------------------------------------------------------------
(***************************************************************************)
(* The terminal's screen.  Until Enter, nothing in the buffer is a         *)
(* newline, its last place is free, and a tab has its spaces before it;    *)
(* so is what the history holds.                                           *)
(***************************************************************************)
Clean(b) == /\ b[BUF_SIZE - 1] = Nul
            /\ \A i \in Idx : b[i] # NL /\ (b[i] = Tab => i >= 3)

Tidy(t) == /\ TermRecord(t) /\ t.scr \in Shown
           /\ ~t.enter_flag => Clean(t.keyboard_buf) /\ t.buf_idx \in Idx
           /\ \A i \in Saved : Clean(t.saved_commands[i].command)

Told(t) == Tells(t.scr, t.keyboard_buf, t.buf_idx)

\* A change of what is behind the cursor does not matter.
LEMMA TellsSame ==
    ASSUME NEW s, NEW b, NEW c, NEW n \in Nat, Tells(s, b, n), \A i \in 0 .. n - 1 : c[i] = b[i]
    PROVE  Tells(s, c, n)
<1>1. \A k \in 1 .. n : n - k \in 0 .. n - 1
  OBVIOUS
<1>2. QED
  BY <1>1 DEF Tells

LEMMA EchoScr ==
    ASSUME NEW t, TermRecord(t), NEW cs
    PROVE  Echo(t, cs).scr = DrawAll(t.scr, cs)
BY DEF Echo, TermRecord

LEMMA PutScr ==
    ASSUME NEW t, TermRecord(t), NEW i, NEW b
    PROVE  Put(t, i, b).scr = t.scr
BY DEF Put, TermRecord

LEMMA FieldsScr ==
    ASSUME NEW t, TermRecord(t)
    PROVE  /\ \A n : [t EXCEPT !.buf_idx = n].scr = t.scr
           /\ \A f : [t EXCEPT !.enter_flag = f].scr = t.scr
           /\ \A i : [t EXCEPT !.curr = i].scr = t.scr
BY DEF TermRecord

LEMMA TypeScr ==
    ASSUME NEW t, TermRecord(t), t.scr \in Shown, NEW b \in Bytes \ {Nul}
    PROVE  /\ Type(t, b).scr \in Shown
           /\ b # NL /\ t.buf_idx \in Idx /\ Told(t) => Told(Type(t, b))
<1> DEFINE p == [Put(t, t.buf_idx, b) EXCEPT !.buf_idx = @ + 1]
           u == Type(t, b)
<1>1. TermRecord(p) /\ p.scr = t.scr
  <2> DEFINE q == Put(t, t.buf_idx, b)
  <2>1. t.buf_idx \in Int /\ t.buf_idx + 1 \in Int
    BY DEF TermRecord
  <2>2. TermRecord(q) /\ q.buf_idx = t.buf_idx
    BY <2>1, PutDoes
  <2>3. q.scr = t.scr
    BY PutScr
  <2> HIDE DEF q
  <2>4. [q EXCEPT !.buf_idx = @ + 1] = [q EXCEPT !.buf_idx = t.buf_idx + 1]
    BY <2>2
  <2>5. QED
    BY <2>1, <2>2, <2>3, <2>4, IndexDoes, FieldsScr DEF q
<1>2. u = Echo(p, <<GlyphOf(b)>>)
  BY DEF Type
<1> HIDE DEF p
<1>3. u.scr = DrawAll(t.scr, <<GlyphOf(b)>>)
  BY <1>1, <1>2, EchoScr
<1>4. GlyphOf(b) \in Strokes
  BY GlyphOfSeen DEF Bytes, GlyphOf, Strokes, Seen, NL
<1>5. u.scr = Draw(t.scr, GlyphOf(b)) /\ u.scr \in Shown
  BY <1>3, <1>4, DrawOne, DrawShown
<1>6. ASSUME b # NL, t.buf_idx \in Idx, Told(t) PROVE Told(u)
  <2> DEFINE n == t.buf_idx
  <2>1. n \in Nat /\ n \in Idx
    BY <1>6 DEF Idx
  <2>2. /\ u.keyboard_buf = [j \in Idx |-> IF j = n THEN b ELSE t.keyboard_buf[j]]
        /\ u.buf_idx = n + 1
    BY TypeDoes
  <2> HIDE DEF u
  <2>3. u.keyboard_buf[n] = b /\ \A i \in 0 .. n - 1 : u.keyboard_buf[i] = t.keyboard_buf[i]
    BY <2>1, <2>2 DEF Idx
  <2>4. Tells(t.scr, u.keyboard_buf, n)
    BY <1>6, <2>1, <2>3, TellsSame DEF Told
  <2>5. b \in Letters \cup {Space, Tab}
    BY <1>6 DEF Bytes
  <2>6. Tells(Glyph(t.scr, GlyphOf(b)), u.keyboard_buf, n + 1)
    BY <2>1, <2>3, <2>4, <2>5, GlyphOfSeen, GlyphTells
  <2>7. u.scr = Glyph(t.scr, GlyphOf(b))
    BY <1>5, <2>5, GlyphOfSeen, DrawShown
  <2>8. QED
    BY <2>2, <2>6, <2>7 DEF Told
<1>7. QED
  BY <1>5, <1>6

\* What ClearBuf erases is as much as the buffer holds, whatever was shown.
LEMMA ClearScr ==
    ASSUME NEW t, TermRecord(t), t.scr \in Shown
    PROVE  ClearBuf(t).scr \in Shown /\ Told(ClearBuf(t))
<1> DEFINE n == Cardinality({i \in Idx : t.keyboard_buf[i] # Nul})
           e == Erased(t, n)
           u == ClearBuf(t)
<1>1. n \in Nat
  <2>1. IsFiniteSet(Idx)
    BY FS_Interval DEF Idx
  <2>2. IsFiniteSet({i \in Idx : t.keyboard_buf[i] # Nul})
    BY <2>1, FS_Subset
  <2>3. QED
    BY <2>2, FS_CardinalityType
<1>2. u = Emptied(e)
  BY DEF ClearBuf, Emptied
<1> HIDE DEF n
<1>3. TermRecord(e) /\ e.scr \in Shown
  BY <1>1, EchoDoes, EchoScr, ErasedTells DEF Erased
<1> HIDE DEF e
<1>4. u.scr = e.scr /\ u.buf_idx = 0
  BY <1>2, <1>3 DEF Emptied, TermRecord
<1> HIDE DEF u
<1>5. u.scr \in Shown /\ Told(u)
  BY <1>3, <1>4 DEF Told, Tells, Shown
<1>6. QED
  BY <1>5 DEF u

\* A tidy command is one whose bytes are drawn, and which ends within the buffer.
LEMMA CleanLength ==
    ASSUME NEW b \in Buffers, Clean(b)
    PROVE  /\ Length(b, BUF_SIZE) \in Idx
           /\ \A i \in 0 .. Length(b, BUF_SIZE) - 1 :
                 i \in Idx /\ b[i] \in Letters \cup {Space, Tab}
<1>1. BUF_SIZE \in 0 .. BUF_SIZE
  OBVIOUS
<1>2. PICK m \in 0 .. BUF_SIZE : /\ \A i \in 0 .. m - 1 : b[i] # Nul
                                 /\ m = BUF_SIZE \/ b[m] = Nul
  BY FirstNul
<1>3. Length(b, BUF_SIZE) = m
  BY <1>1, <1>2, LengthIs
<1>4. m # BUF_SIZE
  <2>1. b[BUF_SIZE - 1] = Nul
    BY DEF Clean
  <2>2. QED
    BY <1>2, <2>1
<1>5. ASSUME NEW i \in 0 .. m - 1
      PROVE  i \in Idx /\ b[i] \in Letters \cup {Space, Tab}
  <2>1. i \in Idx
    BY <1>2 DEF Idx
  <2>2. b[i] # Nul /\ b[i] # NL /\ b[i] \in Bytes
    BY <1>2, <2>1 DEF Clean, Buffers
  <2>3. QED
    BY <2>1, <2>2 DEF Bytes
<1>6. QED
  BY <1>2, <1>3, <1>4, <1>5 DEF Idx

LEMMA TypeSavedScr ==
    ASSUME NEW t, TermRecord(t), t.scr \in Shown, t.keyboard_buf = EmptyBuffer,
           Clean(t.saved_commands[t.curr].command)
    PROVE  LET u == TypeSaved(t)
           IN  /\ u.scr \in Shown /\ Told(u)
               /\ Clean(u.keyboard_buf) /\ u.buf_idx \in Idx
<1> DEFINE c == t.saved_commands[t.curr].command
           n == Length(c, BUF_SIZE)
           cs == [i \in 1 .. n |-> GlyphOf(c[i - 1])]
           b == [i \in Idx |-> IF i < n THEN c[i] ELSE t.keyboard_buf[i]]
           p == [t EXCEPT !.keyboard_buf = b, !.buf_idx = n]
           u == TypeSaved(t)
<1>1. c \in Buffers /\ Clean(c)
  BY DEF TermRecord
<1>2. n \in Idx /\ \A i \in 0 .. n - 1 : i \in Idx /\ c[i] \in Letters \cup {Space, Tab}
  BY <1>1, CleanLength
<1>3. u.keyboard_buf = b /\ u.buf_idx = n
  BY TypeSavedDoes
<1>4. u = Echo(p, cs)
  BY DEF TypeSaved, TermRecord
<1>5. b \in Buffers
  BY <1>1 DEF TermRecord, Buffers
<1> HIDE DEF n, b, c
<1>6. TermRecord(p) /\ p.scr = t.scr
  <2>1. /\ p.keyboard_buf = b /\ p.buf_idx = n /\ p.scr = t.scr
        /\ p.enter_flag = t.enter_flag /\ SameHistory(t, p)
    BY DEF TermRecord, SameHistory
  <2>2. n \in Int
    BY <1>2 DEF Idx
  <2>3. TermRecord(p)
    BY <1>5, <2>1, <2>2, Zenon DEF TermRecord
  <2>4. QED
    BY <2>1, <2>3
<1> HIDE DEF p
<1>7. u.scr = DrawAll(t.scr, cs)
  BY <1>4, <1>6, EchoScr
<1> HIDE DEF u
<1>8. n \in Nat
  BY <1>2 DEF Idx
<1>9. u.scr \in Shown /\ Tells(u.scr, c, n)
  BY <1>2, <1>7, <1>8, TypedTells
<1>10. \A i \in 0 .. n - 1 : b[i] = c[i]
  <2> SUFFICES ASSUME NEW i \in 0 .. n - 1 PROVE b[i] = c[i]
    OBVIOUS
  <2>1. i \in Idx /\ i < n
    BY <1>2, <1>8
  <2>2. QED
    BY <2>1 DEF b
<1>11. Told(u)
  BY <1>3, <1>8, <1>9, <1>10, TellsSame DEF Told
<1>12. Clean(b)
  <2>1. \A i \in Idx : b[i] = c[i] \/ b[i] = Nul
    BY DEF b, EmptyBuffer
  <2>2. BUF_SIZE - 1 \in Idx
    BY DEF Idx
  <2>3. QED
    BY <1>1, <2>1, <2>2 DEF Clean, Nul, NL, Tab
<1>13. QED
  BY <1>2, <1>3, <1>9, <1>11, <1>12 DEF u

LEMMA EmptyClean == Clean(EmptyBuffer) /\ 0 \in Idx
BY DEF Clean, EmptyBuffer, Idx, Nul, NL, Tab

LEMMA ViewScr ==
    ASSUME NEW t, Tidy(t), Hist(t), ~t.enter_flag, NEW i \in Saved
    PROVE  LET d == [ClearBuf(Kept(t)) EXCEPT !.curr = i]
               s == TypeSaved(d)
           IN  Tidy(d) /\ Told(d) /\ Tidy(s) /\ Told(s)
<1> DEFINE k == Kept(t)
           u == ClearBuf(k)
           d == [u EXCEPT !.curr = i]
           s == TypeSaved(d)
<1>1. TermRecord(t) /\ t.scr \in Shown
  BY DEF Tidy
<1>2. /\ TermRecord(d) /\ d.enter_flag = t.enter_flag /\ SavedFrom(t, d)
      /\ TermRecord(s) /\ s.enter_flag = t.enter_flag /\ SavedFrom(t, s)
  BY <1>1, ViewDoes
<1>3. TermRecord(k) /\ k.scr = t.scr
  BY <1>1, KeptDoes DEF Kept, TermRecord
<1> HIDE DEF k
<1>4. /\ TermRecord(u) /\ u.scr \in Shown /\ Told(u) /\ u.keyboard_buf = EmptyBuffer
      /\ u.buf_idx = 0
  BY <1>1, <1>3, ClearDoes, ClearScr
<1> HIDE DEF u
<1>5. /\ d.scr = u.scr /\ d.keyboard_buf = EmptyBuffer /\ d.buf_idx = 0
  BY <1>4, MovedDoes, FieldsScr
<1> HIDE DEF d
<1>6. \A j \in Saved : Clean(d.saved_commands[j].command) /\ Clean(s.saved_commands[j].command)
  BY <1>2 DEF SavedFrom, Tidy
<1>7. Tidy(d) /\ Told(d)
  BY <1>2, <1>4, <1>5, <1>6, EmptyClean DEF Tidy, Told
<1>8. Clean(d.saved_commands[d.curr].command)
  BY <1>2, <1>6 DEF TermRecord
<1>9. s.scr \in Shown /\ Told(s) /\ Clean(s.keyboard_buf) /\ s.buf_idx \in Idx
  BY <1>2, <1>4, <1>5, <1>8, TypeSavedScr
<1>10. Tidy(s)
  BY <1>2, <1>6, <1>9 DEF Tidy
<1>11. QED
  BY <1>7, <1>9, <1>10 DEF d, u, k

LEMMA KeptScr ==
    ASSUME NEW t, Tidy(t), ~t.enter_flag
    PROVE  Tidy(Kept(t)) /\ (Told(t) => Told(Kept(t)))
<1> DEFINE k == Kept(t)
<1>1. TermRecord(t) /\ t.scr \in Shown
  BY DEF Tidy
<1>2. k.scr = t.scr
  BY <1>1 DEF Kept, TermRecord
<1>3. /\ TermRecord(k) /\ k.keyboard_buf = t.keyboard_buf /\ k.buf_idx = t.buf_idx
      /\ k.enter_flag = t.enter_flag
      /\ \A i \in Saved : k.saved_commands[i].command =
                             IF i = t.curr THEN t.keyboard_buf ELSE t.saved_commands[i].command
  BY <1>1, KeptDoes
<1> HIDE DEF k
<1>4. QED
  BY <1>2, <1>3 DEF Tidy, Told, k

\* Up and Down: what is recalled is drawn where the line was erased.
LEMMA ArrowScr ==
    ASSUME NEW t, Tidy(t), Hist(t), ~t.enter_flag, NEW u,
           u = TypeCommandUp(t) \/ u = TypeCommandDown(t)
    PROVE  Tidy(u) /\ (Told(t) => Told(u))
<1>1. TermRecord(t)
  BY DEF Tidy
<1>2. Visits(t, u) \/ u = Kept(t)
  BY <1>1, UpVisits, DownVisits
<1>3. CASE Visits(t, u)
  <2>1. PICK i \in Saved : LET d == [ClearBuf(Kept(t)) EXCEPT !.curr = i]
                           IN  u \in {d, TypeSaved(d)}
    BY <1>3 DEF Visits
  <2>2. PICK d : d = [ClearBuf(Kept(t)) EXCEPT !.curr = i]
    OBVIOUS
  <2>3. Tidy(d) /\ Told(d) /\ Tidy(TypeSaved(d)) /\ Told(TypeSaved(d))
    BY <2>2, ViewScr
  <2>4. u = d \/ u = TypeSaved(d)
    BY <2>1, <2>2
  <2>5. QED
    BY <2>3, <2>4
<1>4. CASE u = Kept(t)
  BY <1>4, KeptScr
<1>5. QED
  BY <1>2, <1>3, <1>4

LEMMA TabScr ==
    ASSUME NEW t, Tidy(t), ~t.enter_flag
    PROVE  LET u == AddTab(t) IN Tidy(u) /\ (Told(t) => Told(u))
<1> DEFINE n == t.buf_idx
           u == AddTab(t)
<1>1. TermRecord(t) /\ t.scr \in Shown /\ n \in Idx /\ Clean(t.keyboard_buf)
  BY DEF Tidy
<1>2. /\ TermRecord(u) /\ SameHistory(t, u) /\ u.enter_flag = t.enter_flag
      /\ ~TabFits(t) => u = t
      /\ TabFits(t) =>
            /\ u.keyboard_buf = [j \in Idx |-> IF j \in n .. n + 2 THEN Space
                                               ELSE IF j = n + 3 THEN Tab ELSE t.keyboard_buf[j]]
            /\ u.buf_idx = n + 4
  BY <1>1, TabDoes
<1>3. CASE ~TabFits(t)
  <2>1. u = t
    BY <1>2, <1>3
  <2>2. QED
    BY <2>1
<1>4. CASE TabFits(t)
  <2> DEFINE a == Type(t, Space)
             b == Type(a, Space)
             c == Type(b, Space)
             p == Put(c, n + 3, Tab)
             q == [p EXCEPT !.buf_idx = n + 4]
  <2>1. n \in Int /\ n \in Nat /\ n + 4 < BUF_SIZE - 1 /\ n + 1 \in Idx /\ n + 2 \in Idx
        /\ n + 3 \in Idx /\ n + 4 \in Idx /\ n + 3 \in Int /\ n + 4 \in Int
    BY <1>1, <1>4 DEF TabFits, Idx
  <2>2. Space \in Bytes /\ Tab \in Bytes /\ Space # NL /\ Space # Nul
    BY DEF Bytes, Space, NL, Nul
  <2>3. AddTab(t) = Echo(q, <<Blank>>)
    BY <1>4, <2>1 DEF AddTab
  <2>4. /\ TermRecord(a) /\ a.buf_idx = n + 1 /\ a.scr \in Shown
        /\ (Told(t) => Told(a))
    BY <1>1, <2>1, <2>2, TypeDoes, TypeScr
  <2> HIDE DEF a
  <2>5. /\ TermRecord(b) /\ b.buf_idx = n + 2 /\ b.scr \in Shown
        /\ (Told(t) => Told(b))
    <3>1. TermRecord(b) /\ b.buf_idx = a.buf_idx + 1
      BY <2>2, <2>4, TypeDoes
    <3>2. b.scr \in Shown /\ (Told(a) => Told(b))
      BY <2>1, <2>2, <2>4, TypeScr
    <3>3. QED
      BY <2>1, <2>4, <3>1, <3>2
  <2> HIDE DEF b
  <2>6. /\ TermRecord(c) /\ c.buf_idx = n + 3 /\ c.scr \in Shown
        /\ (Told(t) => Told(c))
    <3>1. TermRecord(c) /\ c.buf_idx = b.buf_idx + 1
      BY <2>2, <2>5, TypeDoes
    <3>2. c.scr \in Shown /\ (Told(b) => Told(c))
      BY <2>1, <2>2, <2>5, TypeScr
    <3>3. QED
      BY <2>1, <2>5, <3>1, <3>2
  <2> HIDE DEF c
  <2>7. /\ TermRecord(p) /\ p.scr = c.scr /\ p.buf_idx = n + 3
        /\ p.keyboard_buf = [j \in Idx |-> IF j = n + 3 THEN Tab ELSE c.keyboard_buf[j]]
    BY <2>1, <2>2, <2>6, PutDoes, PutScr
  <2> HIDE DEF p
  <2>8. /\ TermRecord(q) /\ q.scr = c.scr /\ q.buf_idx = n + 4
        /\ q.keyboard_buf = p.keyboard_buf
    BY <2>1, <2>7, IndexDoes, FieldsScr
  <2> HIDE DEF q
  <2>9. Blank \in Strokes /\ Blank \in Seen /\ Shows(Blank, Tab)
    BY DEF Strokes, Seen, Shows
  <2>10. u.scr = Glyph(c.scr, Blank) /\ u.keyboard_buf = p.keyboard_buf
    <3>1. u.scr = DrawAll(c.scr, <<Blank>>)
      BY <2>3, <2>8, EchoScr
    <3>2. DrawAll(c.scr, <<Blank>>) = Draw(c.scr, Blank) /\ Draw(c.scr, Blank) = Glyph(c.scr, Blank)
      BY <2>6, <2>9, DrawOne, DrawShown
    <3>3. u.keyboard_buf = q.keyboard_buf
      BY <2>3, <2>8, EchoDoes
    <3>4. QED
      BY <2>8, <3>1, <3>2, <3>3
  <2>11. u.scr \in Shown
    BY <2>6, <2>9, <2>10, GlyphIs
  <2>12. Told(t) => Told(u)
    <3> SUFFICES ASSUME Told(t) PROVE Told(u)
      OBVIOUS
    <3>1. PICK m \in Nat : m = n + 3
      BY <2>1
    <3>2. Tells(c.scr, c.keyboard_buf, m)
      BY <2>6, <3>1 DEF Told
    <3>3. u.keyboard_buf[m] = Tab /\ \A i \in 0 .. m - 1 : u.keyboard_buf[i] = c.keyboard_buf[i]
      <4>1. m \in Idx /\ \A i \in 0 .. m - 1 : i \in Idx /\ i # m
        BY <2>1, <3>1 DEF Idx
      <4>2. \A j \in Idx : u.keyboard_buf[j] = IF j = m THEN Tab ELSE c.keyboard_buf[j]
        BY <2>7, <2>10, <3>1
      <4>3. QED
        BY <4>1, <4>2
    <3>4. Tells(c.scr, u.keyboard_buf, m)
      BY <3>2, <3>3, TellsSame
    <3>5. Tells(u.scr, u.keyboard_buf, m + 1)
      BY <2>6, <2>9, <2>10, <3>3, <3>4, GlyphTells
    <3>6. u.buf_idx = m + 1
      BY <1>2, <1>4, <2>1, <3>1
    <3>7. QED
      BY <3>5, <3>6 DEF Told
  <2>13. Clean(u.keyboard_buf)
    <3> DEFINE ub == u.keyboard_buf
    <3>1. \A j \in Idx : \/ j \in n .. n + 2 /\ ub[j] = Space
                         \/ j = n + 3 /\ ub[j] = Tab
                         \/ j \notin n .. n + 3 /\ ub[j] = t.keyboard_buf[j]
      <4>1. \A j \in Idx : j \notin n .. n + 2 /\ j # n + 3 => j \notin n .. n + 3
        BY <2>1 DEF Idx
      <4>2. ub = [j \in Idx |-> IF j \in n .. n + 2 THEN Space
                                ELSE IF j = n + 3 THEN Tab ELSE t.keyboard_buf[j]]
        BY <1>2, <1>4
      <4> HIDE DEF ub
      <4>3. QED
        BY <4>1, <4>2
    <3> HIDE DEF ub
    <3>2. BUF_SIZE - 1 \in Idx /\ BUF_SIZE - 1 \notin n .. n + 3
      BY <2>1 DEF Idx
    <3>3. ub[BUF_SIZE - 1] = Nul
      <4>1. ub[BUF_SIZE - 1] = t.keyboard_buf[BUF_SIZE - 1]
        BY <2>1, <3>1, <3>2
      <4>2. QED
        BY <1>1, <4>1 DEF Clean
    <3>4. \A j \in Idx : ub[j] # NL /\ (ub[j] = Tab => j >= 3)
      BY <1>1, <2>1, <3>1 DEF Clean, Space, Tab, NL
    <3>5. QED
      BY <3>3, <3>4 DEF Clean, ub
  <2>14. Tidy(u)
    BY <1>2, <1>4, <2>1, <2>11, <2>13 DEF Tidy, SameHistory
  <2>15. QED
    BY <2>12, <2>14
<1>5. QED
  BY <1>3, <1>4

LEMMA EchoBackspace ==
    ASSUME NEW t, TermRecord(t), t.scr \in Shown, NEW n \in Nat
    PROVE  LET u == Echo(t, <<"backspace">>)
           IN  /\ u.scr \in Shown
               /\ \A b : Tells(t.scr, b, n) => Tells(u.scr, b, IF n = 0 THEN 0 ELSE n - 1)
<1>1. "backspace" \in Strokes
  BY DEF Strokes
<1>2. Echo(t, <<"backspace">>).scr = Backspace(t.scr)
  BY <1>1, EchoScr, DrawOne, DrawShown
<1>3. QED
  BY <1>2, BackspaceTells

LEMMA BackspaceScr ==
    ASSUME NEW t, Tidy(t), ~t.enter_flag
    PROVE  LET u == Echo(BackspacePressed(t), <<"backspace">>)
           IN  /\ ~Overflows(BackspacePressed(t))
               /\ Tidy(u) /\ (Told(t) => Told(u))
<1> DEFINE n == t.buf_idx
           i == n - 1
           v == BackspacePressed(t)
           u == Echo(v, <<"backspace">>)
<1>1. TermRecord(t) /\ t.scr \in Shown /\ n \in Idx /\ Clean(t.keyboard_buf)
  BY DEF Tidy
<1>2. /\ TermRecord(v) /\ SameHistory(t, v) /\ v.enter_flag = t.enter_flag
      /\ t.buf_idx = 0 => v = t
      /\ t.buf_idx # 0 /\ t.keyboard_buf[t.buf_idx - 1] # Tab =>
            /\ v.keyboard_buf = [j \in Idx |-> IF j = t.buf_idx - 1 THEN Nul ELSE t.keyboard_buf[j]]
            /\ v.buf_idx = t.buf_idx - 1
  BY <1>1, BackspaceDoes
<1>3. /\ TermRecord(u) /\ SameHistory(v, u) /\ u.enter_flag = v.enter_flag
      /\ u.keyboard_buf = v.keyboard_buf /\ u.buf_idx = v.buf_idx
  BY <1>2, EchoDoes
<1>4. n \in Nat /\ n \in Int /\ n < BUF_SIZE
  BY <1>1 DEF Idx
\* All that the cases have to show.
<1> DEFINE Aim == /\ v.buf_idx \in Idx /\ v.buf_idx < BUF_SIZE - 1 /\ u.scr \in Shown
                  /\ \A j \in Idx : v.keyboard_buf[j] \in {Nul, t.keyboard_buf[j]}
                  /\ Told(t) => Told(u)
<1>5. Aim => ~Overflows(v) /\ Tidy(u) /\ (Told(t) => Told(u))
  <2> SUFFICES ASSUME Aim PROVE ~Overflows(v) /\ Tidy(u)
    OBVIOUS
  <2>1. ~Overflows(v)
    BY DEF Overflows, Idx
  <2> HIDE DEF u, v
  <2>2. BUF_SIZE - 1 \in Idx
    BY DEF Idx
  <2>3. Clean(v.keyboard_buf)
    BY <1>1, <2>2 DEF Clean, Nul, NL, Tab
  <2>4. Tidy(u)
    BY <1>2, <1>3, <2>3 DEF Tidy, SameHistory
  <2>5. QED
    BY <2>1, <2>4
<1>6. CASE n = 0
  <2>1. v = t
    BY <1>2, <1>6
  <2>2. u.scr \in Shown /\ \A b : Tells(v.scr, b, 0) => Tells(u.scr, b, 0)
    BY <1>1, <2>1, EchoBackspace
  <2>3. v.buf_idx < BUF_SIZE - 1
    BY <1>6, <2>1
  <2> HIDE DEF u, v
  <2>4. Told(t) => Told(u)
    BY <1>3, <1>6, <2>1, <2>2 DEF Told
  <2>5. Aim
    BY <1>1, <2>1, <2>2, <2>3, <2>4
  <2>6. QED
    BY <1>5, <2>5 DEF u, v
<1>7. CASE n # 0 /\ t.keyboard_buf[i] # Tab
  <2>1. /\ v.keyboard_buf = [j \in Idx |-> IF j = i THEN Nul ELSE t.keyboard_buf[j]]
        /\ v.buf_idx = i
    BY <1>2, <1>7
  <2>2. v.scr = t.scr
    <3>1. v = [Put(t, i, Nul) EXCEPT !.buf_idx = i]
      BY <1>7 DEF BackspacePressed
    <3>2. i \in Int /\ Nul \in Bytes
      BY <1>4 DEF Bytes
    <3>3. TermRecord(Put(t, i, Nul))
      BY <1>1, <3>2, PutDoes
    <3>4. Put(t, i, Nul).scr = t.scr
      BY <1>1, PutScr
    <3>5. QED
      BY <3>1, <3>3, <3>4, FieldsScr
  <2>3. u.scr \in Shown /\ \A b : Tells(t.scr, b, n) => Tells(u.scr, b, IF n = 0 THEN 0 ELSE n - 1)
    BY <1>1, <1>2, <1>4, <2>2, EchoBackspace
  <2> HIDE DEF u, v
  <2>4. i \in Nat /\ i \in Idx /\ i < BUF_SIZE - 1
    BY <1>4, <1>7 DEF Idx
  <2>5. Told(t) => Told(u)
    <3> SUFFICES ASSUME Told(t) PROVE Told(u)
      OBVIOUS
    <3>1. Tells(u.scr, t.keyboard_buf, i)
      BY <1>7, <2>3 DEF Told
    <3>2. \A j \in 0 .. i - 1 : v.keyboard_buf[j] = t.keyboard_buf[j]
      BY <2>1, <2>4 DEF Idx
    <3>3. Tells(u.scr, v.keyboard_buf, i)
      BY <2>4, <3>1, <3>2, TellsSame
    <3>4. QED
      BY <1>3, <2>1, <3>3 DEF Told
  <2>6. \A j \in Idx : v.keyboard_buf[j] \in {Nul, t.keyboard_buf[j]}
    BY <2>1
  <2>7. Aim
    BY <2>1, <2>3, <2>4, <2>5, <2>6
  <2>8. QED
    BY <1>5, <2>7 DEF u, v
<1>8. CASE n # 0 /\ t.keyboard_buf[i] = Tab
  <2> DEFINE e == Erased(t, 3)
             p == Put(e, i, Nul)
             q == Put(p, i - 1, Nul)
             r == Put(q, i - 2, Nul)
  <2>1. v = [r EXCEPT !.buf_idx = i - 3]
    BY <1>8 DEF BackspacePressed
  <2>2. /\ i \in Int /\ i - 1 \in Int /\ i - 2 \in Int /\ i - 3 \in Int /\ Nul \in Bytes
        /\ i \in Idx
    BY <1>4, <1>8 DEF Bytes, Idx
  <2>3. i >= 3 /\ i - 3 \in Nat /\ i - 3 \in Idx /\ i - 3 < BUF_SIZE - 1
    BY <1>1, <1>4, <1>8, <2>2 DEF Clean, Idx
  <2>4. /\ TermRecord(e) /\ e.scr \in Shown /\ e.keyboard_buf = t.keyboard_buf
        /\ Told(t) => Tells(e.scr, t.keyboard_buf, n - 3)
    <3>1. TermRecord(e) /\ e.scr = DrawAll(t.scr, [k \in 1 .. 3 |-> "backspace"])
          /\ e.keyboard_buf = t.keyboard_buf
      BY <1>1, EchoDoes, EchoScr DEF Erased
    <3>2. 3 \in Nat /\ 3 <= n
      BY <1>4, <2>3
    <3> HIDE DEF e
    <3>3. QED
      BY <1>1, <1>4, <3>1, <3>2, ErasedTells DEF Told
  <2> HIDE DEF e
  <2>5. /\ TermRecord(p) /\ p.scr = e.scr
        /\ p.keyboard_buf = [j \in Idx |-> IF j = i THEN Nul ELSE e.keyboard_buf[j]]
    BY <2>2, <2>4, PutDoes, PutScr
  <2> HIDE DEF p
  <2>6. /\ TermRecord(q) /\ q.scr = e.scr
        /\ q.keyboard_buf = [j \in Idx |-> IF j = i - 1 THEN Nul ELSE p.keyboard_buf[j]]
    BY <2>2, <2>5, PutDoes, PutScr
  <2> HIDE DEF q
  <2>7. /\ TermRecord(r) /\ r.scr = e.scr
        /\ r.keyboard_buf = [j \in Idx |-> IF j = i - 2 THEN Nul ELSE q.keyboard_buf[j]]
    BY <2>2, <2>6, PutDoes, PutScr
  <2> HIDE DEF r
  <2>8. /\ v.scr = e.scr /\ v.keyboard_buf = r.keyboard_buf /\ v.buf_idx = i - 3
    BY <2>1, <2>2, <2>7, IndexDoes, FieldsScr
  <2>9. n - 3 \in Nat /\ n - 3 # 0 /\ n - 3 - 1 = i - 3
    BY <1>4, <2>3
  <2>10. PICK m \in Nat : m = n - 3
    BY <2>9
  <2>11. u.scr \in Shown /\ \A b : Tells(e.scr, b, m) => Tells(u.scr, b, IF m = 0 THEN 0 ELSE m - 1)
    BY <1>2, <2>4, <2>8, EchoBackspace
  <2> HIDE DEF u, v
  <2>12. \A j \in Idx : v.keyboard_buf[j] \in {Nul, t.keyboard_buf[j]}
    BY <2>4, <2>5, <2>6, <2>7, <2>8
  <2>13. Told(t) => Told(u)
    <3> SUFFICES ASSUME Told(t) PROVE Told(u)
      OBVIOUS
    <3>1. PICK k \in Nat : k = i - 3
      BY <2>3
    <3>2. Tells(u.scr, t.keyboard_buf, k)
      BY <2>4, <2>9, <2>10, <2>11, <3>1
    <3>3. \A j \in 0 .. k - 1 : v.keyboard_buf[j] = t.keyboard_buf[j]
      <4> SUFFICES ASSUME NEW j \in 0 .. k - 1 PROVE v.keyboard_buf[j] = t.keyboard_buf[j]
        OBVIOUS
      <4>1. j \in Idx /\ j # i /\ j # i - 1 /\ j # i - 2
        BY <1>4, <2>3, <3>1 DEF Idx
      <4>2. QED
        BY <4>1, <2>4, <2>5, <2>6, <2>7, <2>8
    <3>4. Tells(u.scr, v.keyboard_buf, k)
      BY <3>2, <3>3, TellsSame
    <3>5. QED
      BY <1>3, <2>8, <3>1, <3>4 DEF Told
  <2>14. Aim
    BY <2>3, <2>8, <2>11, <2>12, <2>13
  <2>15. QED
    BY <1>5, <2>14 DEF u, v
<1>9. QED
  BY <1>6, <1>7, <1>8

\* Enter: the line is saved as it stands, and the newline goes to the next row.
LEMMA EnterScr ==
    ASSUME NEW t, Tidy(t), Hist(t), ~t.enter_flag
    PROVE  /\ Tidy(AddEnter(t)) /\ AddEnter(t).enter_flag
           /\ Tidy(FullBuffer(t, "enter")) /\ FullBuffer(t, "enter").enter_flag
<1>1. TermRecord(t) /\ t.scr \in Shown /\ Clean(t.keyboard_buf)
  BY DEF Tidy
<1>2. NL \in Bytes \ {Nul} /\ NL \in Strokes /\ BUF_SIZE - 1 \in Int
  BY DEF Bytes, Nul, NL, Strokes
<1>3. Tidy(AddEnter(t)) /\ AddEnter(t).enter_flag
  <2> DEFINE p == SaveCommand(t)
             q == Type(p, NL)
             u == AddEnter(t)
  <2>1. /\ TermRecord(u) /\ u.enter_flag
        /\ \A i \in Saved : \/ u.saved_commands[i].command = t.saved_commands[i].command
                            \/ u.saved_commands[i].command = t.keyboard_buf
    BY <1>1, EnterDoes
  <2>2. u = [q EXCEPT !.enter_flag = TRUE]
    BY DEF AddEnter
  <2>3. TermRecord(p)
    BY <1>1, SaveDoes
  <2>4. p.scr = t.scr
    BY <1>1 DEF SaveCommand, TermRecord
  <2> HIDE DEF p
  <2>5. TermRecord(q)
    BY <1>2, <2>3, TypeDoes
  <2>6. q.scr \in Shown
    BY <1>1, <1>2, <2>3, <2>4, TypeScr
  <2> HIDE DEF q
  <2>7. u.scr = q.scr
    BY <2>2, <2>5, FieldsScr
  <2> HIDE DEF u
  <2>8. Tidy(u)
    BY <1>1, <2>1, <2>6, <2>7 DEF Tidy
  <2>9. QED
    BY <2>1, <2>8 DEF u
<1>4. Tidy(FullBuffer(t, "enter")) /\ FullBuffer(t, "enter").enter_flag
  <2> DEFINE p == Put(t, BUF_SIZE - 1, NL)
             q == [p EXCEPT !.enter_flag = TRUE]
             u == FullBuffer(t, "enter")
  <2>1. u = Echo(q, <<NL>>)
    BY DEF FullBuffer
  <2>2. TermRecord(p)
    BY <1>1, <1>2, PutDoes
  <2>3. p.scr = t.scr
    BY <1>1, PutScr
  <2> HIDE DEF p
  <2>4. TermRecord(q) /\ q.scr = t.scr
    BY <2>2, <2>3, FlagDoes, FieldsScr
  <2> HIDE DEF q
  <2>5. u.scr \in Shown
    BY <1>1, <1>2, <2>1, <2>4, EchoScr, DrawOne, DrawShown
  <2>6. TermRecord(u) /\ SameHistory(t, u) /\ u.enter_flag
    BY <1>1, FullDoes
  <2> HIDE DEF u
  <2>7. Tidy(u)
    BY <2>5, <2>6 DEF Tidy, SameHistory
  <2>8. QED
    BY <2>6, <2>7 DEF u
<1>5. QED
  BY <1>3, <1>4

LEMMA LetterScr ==
    ASSUME NEW t, Tidy(t), ~t.enter_flag, ~Overflows(t), NEW b \in Letters \ {Tab}
    PROVE  Tidy(Type(t, b)) /\ (Told(t) => Told(Type(t, b)))
<1> DEFINE n == t.buf_idx
           u == Type(t, b)
<1>1. TermRecord(t) /\ t.scr \in Shown /\ n \in Idx /\ Clean(t.keyboard_buf)
  BY DEF Tidy
<1>2. b \in Bytes \ {Nul} /\ b # NL /\ b # Tab
  BY LettersAssumption DEF Bytes, Nul, NL
<1>3. u.scr \in Shown /\ (Told(t) => Told(u))
  BY <1>1, <1>2, TypeScr
<1>4. /\ TermRecord(u) /\ SameHistory(t, u) /\ u.enter_flag = t.enter_flag
      /\ u.keyboard_buf = [j \in Idx |-> IF j = n THEN b ELSE t.keyboard_buf[j]]
      /\ u.buf_idx = n + 1
  BY <1>1, <1>2, TypeDoes
<1> HIDE DEF u
<1>5. n + 1 \in Idx /\ BUF_SIZE - 1 \in Idx /\ n # BUF_SIZE - 1
  BY <1>1 DEF Overflows, Idx
<1>6. Clean(u.keyboard_buf)
  BY <1>1, <1>2, <1>4, <1>5 DEF Clean
<1>7. Tidy(u)
  BY <1>3, <1>4, <1>5, <1>6 DEF Tidy, SameHistory
<1>8. QED
  BY <1>3, <1>7 DEF u

LEMMA PrintableScr ==
    ASSUME NEW t, Tidy(t), Hist(t), ~t.enter_flag,
           NEW key \in (Letters \ {Tab}) \cup {"tab", "backspace", "enter"}
    PROVE  LET u == Printable(t, key)
           IN  Tidy(u) /\ (~u.enter_flag /\ Told(t) => Told(u))
<1>1. CASE key = "backspace"
  <2>1. Printable(t, key) = Echo(BackspacePressed(t), <<"backspace">>)
    BY <1>1, BackspaceScr DEF Printable, AddToBuffer
  <2>2. QED
    BY <2>1, BackspaceScr
<1>2. CASE key # "backspace" /\ Overflows(t)
  <2>1. Printable(t, key) = IF key = "enter" THEN FullBuffer(t, "enter") ELSE t
    BY <1>2 DEF Printable, FullBuffer
  <2>2. QED
    BY <2>1, EnterScr
<1>3. CASE key \notin {"backspace", "tab", "enter"} /\ ~Overflows(t)
  <2>1. Printable(t, key) = Type(t, key) /\ key \in Letters \ {Tab}
    BY <1>3 DEF Printable, AddToBuffer
  <2>2. QED
    BY <1>3, <2>1, LetterScr
<1>4. CASE key = "tab" /\ ~Overflows(t)
  <2>1. Printable(t, key) = AddTab(t)
    BY <1>4 DEF Printable, AddToBuffer
  <2>2. QED
    BY <2>1, TabScr
<1>5. CASE key = "enter" /\ ~Overflows(t)
  <2>1. Printable(t, key) = AddEnter(t)
    BY <1>5 DEF Printable, AddToBuffer
  <2>2. QED
    BY <2>1, EnterScr
<1>6. QED
  BY <1>1, <1>2, <1>3, <1>4, <1>5

-----------------------------------------------------------------------------
(***************************************************************************)
(* The invariant: what is typed during a read stands before the cursor.    *)
(***************************************************************************)
DisplayInv == /\ HistInv /\ Tidy(term)
              /\ program = "reading" /\ ~term.enter_flag => Told(term)

LEMMA DisplayStart == Init => DisplayInv
<1> SUFFICES ASSUME Init PROVE DisplayInv
  OBVIOUS
<1>1. HistInv
  BY HistStart
<1>2. NUM_COLS \in Nat \ {0} /\ NUM_ROWS \in Nat \ {0}
  BY SizeAssumption
<1>3. EmptyScreen \in Shown
  <2>1. 0 \in 0 .. NUM_COLS - 1 /\ 0 \in {i \in Int : i < NUM_ROWS} /\ 0 \in Nat
        /\ EmptyCells \in [Cells -> Seen]
    BY <1>2 DEF EmptyCells, Seen
  <2>2. QED
    BY <2>1 DEF EmptyScreen, Shown
<1>4. Tidy(term)
  BY <1>1, <1>3, EmptyClean DEF Init, HistInv, Tidy
<1>5. QED
  BY <1>1, <1>4 DEF Init, DisplayInv

LEMMA DisplayStep ==
    ASSUME Patient
    PROVE  DisplayInv /\ [Next]_vars => DisplayInv'
<1> SUFFICES ASSUME DisplayInv, [Next]_vars PROVE DisplayInv'
  OBVIOUS
<1>1. HistInv'
  BY HistStep DEF DisplayInv
<1>2. Tidy(term) /\ Hist(term) /\ TermRecord(term) /\ term.scr \in Shown
      /\ (program = "reading" /\ ~term.enter_flag => Told(term))
  BY DEF DisplayInv, HistInv, Tidy
<1>3. SUFFICES Tidy(term') /\ (program' = "reading" /\ ~term'.enter_flag => Told(term'))
  BY <1>1 DEF DisplayInv, Tidy, Told, Tells, TermRecord
<1>4. \A key : LetterKey \/ TabKey \/ BackspaceKey \/ EnterKey \/ CtrlL \/ UpKey \/ DownKey
               => ~term.enter_flag /\ UNCHANGED program
  BY DEF LetterKey, TabKey, BackspaceKey, EnterKey, CtrlL, UpKey, DownKey, Press
<1>5. CASE LetterKey \/ TabKey \/ BackspaceKey \/ EnterKey
  <2>1. PICK key \in (Letters \ {Tab}) \cup {"tab", "backspace", "enter"} :
            term' = Printable(term, key)
    BY <1>5 DEF LetterKey, TabKey, BackspaceKey, EnterKey, Press
  <2>2. QED
    BY <1>2, <1>4, <1>5, <2>1, PrintableScr
<1>6. CASE CtrlL
  <2>1. term' = Echo(term, <<"clear">>)
    BY <1>6 DEF CtrlL, Press
  <2>2. /\ TermRecord(term') /\ SameHistory(term, term')
        /\ term'.keyboard_buf = term.keyboard_buf /\ term'.buf_idx = term.buf_idx
        /\ term'.enter_flag = term.enter_flag
    BY <1>2, <2>1, EchoDoes
  <2>3. "clear" \in Strokes
    BY DEF Strokes
  <2>4. term'.scr = Clear(term.scr)
    BY <1>2, <2>1, <2>3, EchoScr, DrawOne, DrawShown
  <2>5. term.buf_idx \in Nat
    BY <1>2, <1>4, <1>6 DEF Tidy, Idx
  <2>6. Tidy(term')
    BY <1>2, <2>2, <2>4, ClearTells DEF Tidy, SameHistory
  <2>7. Told(term) => Told(term')
    BY <1>2, <2>2, <2>4, <2>5, ClearTells DEF Told
  <2>8. QED
    BY <1>2, <1>4, <1>6, <2>2, <2>6, <2>7
<1>7. CASE UpKey \/ DownKey
  <2>1. term' = TypeCommandUp(term) \/ term' = TypeCommandDown(term)
    BY <1>7 DEF UpKey, DownKey, Press
  <2>2. QED
    BY <1>2, <1>4, <1>7, <2>1, ArrowScr
<1>8. CASE Putc
  <2>1. PICK c \in Prints : term' = Echo(term, <<c>>)
    BY <1>8 DEF Putc
  <2>2. c \in Strokes
    BY PrintsAssumption DEF Strokes, Seen
  <2>3. /\ TermRecord(term') /\ SameHistory(term, term')
        /\ term'.keyboard_buf = term.keyboard_buf /\ term'.buf_idx = term.buf_idx
        /\ term'.enter_flag = term.enter_flag
    BY <1>2, <2>1, EchoDoes
  <2>4. term'.scr \in Shown
    BY <1>2, <2>1, <2>2, EchoScr, DrawOne, DrawShown
  <2>5. Tidy(term')
    BY <1>2, <2>3, <2>4 DEF Tidy, SameHistory
  <2>6. QED
    BY <1>8, <2>5 DEF Putc
<1>9. CASE EndWrite
  <2>1. term' = [term EXCEPT !.scr.tx = 0]
    BY <1>9 DEF EndWrite
  <2>2. /\ SameHistory(term, term') /\ term'.scr = [term.scr EXCEPT !.tx = 0]
        /\ term'.keyboard_buf = term.keyboard_buf /\ term'.buf_idx = term.buf_idx
        /\ term'.enter_flag = term.enter_flag
    BY <1>2, <2>1 DEF TermRecord, SameHistory
  <2>3. TermRecord(term')
    BY <1>1 DEF HistInv, TermRecord
  <2>4. term'.scr \in Shown
    BY <1>2, <2>2 DEF Shown
  <2>5. Tidy(term')
    BY <1>2, <2>2, <2>3, <2>4 DEF Tidy, SameHistory
  <2>6. QED
    BY <1>9, <2>5 DEF EndWrite
<1>10. ASSUME NEW u, u = ClearBuf(term)
       PROVE  /\ TermRecord(u) /\ SameHistory(term, u) /\ u.enter_flag = term.enter_flag
              /\ u.keyboard_buf = EmptyBuffer /\ u.buf_idx = 0
              /\ Tidy(u) /\ Told(u)
  <2>1. /\ TermRecord(u) /\ SameHistory(term, u) /\ u.enter_flag = term.enter_flag
        /\ u.keyboard_buf = EmptyBuffer /\ u.buf_idx = 0
        /\ u.scr \in Shown /\ Told(u)
    BY <1>2, <1>10, ClearDoes, ClearScr
  <2>2. Tidy(u)
    BY <1>2, <2>1, EmptyClean DEF Tidy, SameHistory
  <2>3. QED
    BY <2>1, <2>2
<1>11. CASE ReadStarts
  BY <1>10, <1>11 DEF ReadStarts
<1>12. CASE ReadReturns
  <2>1. PICK u : u = ClearBuf(term)
    OBVIOUS
  <2>2. term' = [u EXCEPT !.enter_flag = FALSE] /\ program' = "running"
    BY <1>12, <2>1 DEF ReadReturns
  <2>3. /\ TermRecord(term') /\ SameHistory(u, term') /\ term'.scr = u.scr
        /\ term'.keyboard_buf = EmptyBuffer /\ term'.buf_idx = 0
    <3> DEFINE w == [u EXCEPT !.enter_flag = FALSE]
    <3>1. TermRecord(u) /\ u.keyboard_buf = EmptyBuffer /\ u.buf_idx = 0
      BY <1>10, <2>1
    <3>2. /\ TermRecord(w) /\ SameHistory(u, w)
          /\ w.keyboard_buf = u.keyboard_buf /\ w.buf_idx = u.buf_idx
      BY <3>1, FlagDoes
    <3>3. w.scr = u.scr
      BY <3>1, FieldsScr
    <3>4. term' = w
      BY <2>2
    <3> HIDE DEF w
    <3>5. QED
      BY <3>1, <3>2, <3>3, <3>4
  <2>4. Tidy(term')
    BY <1>10, <2>1, <2>3, EmptyClean DEF Tidy, SameHistory
  <2>5. QED
    BY <2>2, <2>4
<1>13. CASE UNCHANGED vars
  BY <1>2, <1>13 DEF vars
<1>14. QED
  BY <1>5, <1>6, <1>7, <1>8, <1>9, <1>11, <1>12, <1>13 DEF Next

\* While a program reads and the user, who waits for it, has not pressed Enter, what stands
\* before the cursor is what the program will get: keys, tabs and their erasure, lines
\* longer than a row, scrolling, Ctrl+L and recalled commands change the buffer
\* (kboard.c) and the screen (lib.c) alike.
THEOREM ShownAsTyped ==
    ASSUME Patient
    PROVE  Spec => []DisplayMatches
<1>1. DisplayInv => DisplayMatches
  BY DEF DisplayInv, Told, Tells, DisplayMatches, Buf
<1>2. DisplayInv /\ [Next]_vars => DisplayInv'
  BY DisplayStep
<1>3. QED
  BY <1>1, <1>2, DisplayStart, PTL DEF Spec
=============================================================================
