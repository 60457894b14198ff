-------------------------- MODULE FileSystemProofs --------------------------
(***************************************************************************)
(* Proofs about the file system and the programs over it, for any disk     *)
(* image, any number of descriptors and any sizes of blocks and buffers:   *)
(* facts about sequences; the kernel's streams; what programs hold; and    *)
(* that syserr's tests pass.  What programs show is in ProgramsProofs.     *)
(***************************************************************************)
EXTENDS ProgramsProps, SequenceTheorems, FiniteSetTheorems,
        WellFoundedInduction, TLAPS

(***************************************************************************)
(* Induction over numbers, and functions defined by recursion on them.     *)
(***************************************************************************)
\* A set of numbers has a least one.
LEMMA LeastOf ==
    ASSUME NEW T \in SUBSET Nat, T # {}
    PROVE  \E n \in T : \A m \in T : n <= m
<1> DEFINE R == OpToRel(<, Nat)
<1>1. IsWellFoundedOn(R, Nat)
  BY NatLessThanWellFounded
<1>2. \A x \in Nat, y \in Nat : <<y, x>> \in R <=> y < x
  BY DEF OpToRel
<1> HIDE DEF R
<1>3. PICK x \in T : \A y \in T : ~ (<<y, x>> \in R)
  BY <1>1, WFMin
<1>4. \A y \in T : ~ (y < x)
  <2> SUFFICES ASSUME NEW y \in T, y < x PROVE FALSE
    OBVIOUS
  <2>1. x \in Nat /\ y \in Nat
    OBVIOUS
  <2>2. <<y, x>> \in R
    BY <1>2, <2>1
  <2>3. QED
    BY <1>3, <2>2
<1>5. QED
  BY <1>4

\* A set of numbers up to n that has 0, and with each the next, has all of them.
LEMMA UpTo ==
    ASSUME NEW n \in Nat, NEW T, 0 \in T,
           \A k \in 0 .. n - 1 : k \in T => k + 1 \in T
    PROVE  \A k \in 0 .. n : k \in T
<1> DEFINE U == {k \in 0 .. n : k \notin T}
<1>1. SUFFICES ASSUME U # {} PROVE FALSE
  OBVIOUS
<1>2. U \in SUBSET Nat
  OBVIOUS
<1>3. PICK k \in U : \A m \in U : k <= m
  <2> HIDE DEF U
  <2>1. QED
    BY <1>1, <1>2, LeastOf
<1>4. k # 0 /\ k - 1 \in 0 .. n - 1
  OBVIOUS
<1>5. k - 1 \in T
  BY <1>3, <1>4
<1>6. (k - 1) + 1 \in T
  BY <1>4, <1>5
<1>7. QED
  BY <1>3, <1>6

\* A first value and a step from each value to the next define a function.
Follows(f, n, Vals, base, F) == /\ f \in [0 .. n -> Vals]
                             /\ f[0] = base
                             /\ \A k \in 1 .. n : f[k] = F[<<k, f[k - 1]>>]

LEMMA Recursion ==
    ASSUME NEW n \in Nat, NEW Vals, NEW base \in Vals, NEW F \in [(1 .. n) \X Vals -> Vals]
    PROVE  \E f : Follows(f, n, Vals, base, F)
<1> USE DEF Follows
<1> DEFINE Good(m, f) == Follows(f, m, Vals, base, F)
           T == {m \in 0 .. n : \E f : Good(m, f)}
<1>1. 0 \in T
  <2>1. Good(0, [k \in 0 .. 0 |-> base])
    OBVIOUS
  <2>2. \E f : Good(0, f)
    BY <2>1
  <2>3. QED
    BY <2>2
<1>2. ASSUME NEW m \in 0 .. n - 1, m \in T PROVE m + 1 \in T
  <2>1. PICK f : Good(m, f)
    BY <1>2
  <2> DEFINE g == [k \in 0 .. m + 1 |-> IF k = m + 1 THEN F[<<m + 1, f[m]>>] ELSE f[k]]
  <2>2. f[m] \in Vals /\ F[<<m + 1, f[m]>>] \in Vals
    BY <2>1
  <2>3. g \in [0 .. m + 1 -> Vals] /\ g[0] = base /\ g[m + 1] = F[<<m + 1, f[m]>>]
    BY <2>1, <2>2
  <2>4. \A k \in 0 .. m : g[k] = f[k]
    OBVIOUS
  <2> HIDE DEF g
  <2>5. ASSUME NEW k \in 1 .. m + 1 PROVE g[k] = F[<<k, g[k - 1]>>]
    <3>1. CASE k = m + 1
      <4>1. k - 1 = m /\ m \in 0 .. m
        BY <3>1
      <4>2. g[k - 1] = f[m]
        BY <4>1, <2>4
      <4>3. QED
        BY <3>1, <4>2, <2>3
    <3>2. CASE k \in 1 .. m
      <4>1. g[k] = f[k] /\ g[k - 1] = f[k - 1] /\ f[k] = F[<<k, f[k - 1]>>]
        BY <3>2, <2>4, <2>1
      <4>2. QED
        BY <4>1
    <3>3. QED
      BY <3>1, <3>2
  <2>6. Good(m + 1, g)
    BY <2>3, <2>5
  <2>7. QED
    BY <2>6
<1>3. \A k \in 0 .. n : k \in T
  <2> HIDE DEF T
  <2>1. QED
    BY <1>1, <1>2, UpTo
<1>4. n \in T
  BY <1>3
<1>5. QED
  BY <1>4


(***************************************************************************)
(* Sequences as functions.                                                 *)
(***************************************************************************)
LEMMA SubSeqIs ==
    ASSUME NEW s, NEW m \in Int, NEW n \in Int
    PROVE  SubSeq(s, m, n) = [i \in 1 .. n - m + 1 |-> s[m + i - 1]]
OBVIOUS

LEMMA SeqIs ==
    ASSUME NEW Vals, NEW s \in Seq(Vals)
    PROVE  /\ Len(s) \in Nat /\ DOMAIN s = 1 .. Len(s)
           /\ s = [i \in 1 .. Len(s) |-> s[i]]
OBVIOUS

LEMMA TailIs ==
    ASSUME NEW Vals, NEW s \in Seq(Vals), s # << >>
    PROVE  Len(s) >= 1 /\ Tail(s) = [i \in 1 .. Len(s) - 1 |-> s[i + 1]] /\ Head(s) = s[1]
<1>1. Len(s) \in Nat /\ Len(s) >= 1 /\ Head(s) = s[1]
  OBVIOUS
<1> DEFINE t == Tail(s)
<1>2. t \in Seq(Vals) /\ Len(t) = Len(s) - 1 /\ \A i \in 1 .. Len(t) : t[i] = s[i + 1]
  BY HeadTailProperties
<1> HIDE DEF t
<1>3. t = [i \in 1 .. Len(t) |-> t[i]]
  BY <1>2, SeqIs
<1>4. t = [i \in 1 .. Len(s) - 1 |-> s[i + 1]]
  BY <1>2, <1>3
<1>5. QED
  BY <1>1, <1>4 DEF t

\* A function on the numbers from 1 to n is a sequence.
LEMMA FunctionIsSeq ==
    ASSUME NEW n \in Nat, NEW Vals, NEW s \in [1 .. n -> Vals]
    PROVE  s \in Seq(Vals) /\ Len(s) = n
OBVIOUS

LEMMA ConcatIs ==
    ASSUME NEW Vals, NEW s \in Seq(Vals), NEW t \in Seq(Vals)
    PROVE  /\ s \o t \in Seq(Vals) /\ Len(s \o t) = Len(s) + Len(t)
           /\ s \o t = [i \in 1 .. Len(s) + Len(t) |-> IF i <= Len(s) THEN s[i] ELSE t[i - Len(s)]]
<1>1. /\ s \o t \in Seq(Vals) /\ Len(s \o t) = Len(s) + Len(t)
      /\ \A i \in 1 .. Len(s) + Len(t) :
            (s \o t)[i] = IF i <= Len(s) THEN s[i] ELSE t[i - Len(s)]
  BY ConcatProperties
<1> DEFINE c == s \o t
<1>2. c \in Seq(Vals) /\ Len(c) = Len(s) + Len(t)
  BY <1>1
<1>3. \A i \in 1 .. Len(s) + Len(t) : c[i] = IF i <= Len(s) THEN s[i] ELSE t[i - Len(s)]
  BY <1>1
<1> HIDE DEF c
<1>4. c = [i \in 1 .. Len(c) |-> c[i]]
  BY <1>2, SeqIs
<1>5. c = [i \in 1 .. Len(s) + Len(t) |-> IF i <= Len(s) THEN s[i] ELSE t[i - Len(s)]]
  BY <1>2, <1>3, <1>4
<1>6. QED
  BY <1>2, <1>5 DEF c

-----------------------------------------------------------------------------
(***************************************************************************)
(* read_data.                                                              *)
(***************************************************************************)
Disk == 0 .. num_inodes - 1
Blocks == 0 .. NUM_DATA_BLOCKS - 1
Capacity == BLOCK_SIZE * NUM_DATA_BLOCKS

LEMMA CapacityNat == Capacity \in Nat /\ BLOCK_SIZE \in Nat \ {0} /\ NUM_DATA_BLOCKS \in Nat \ {0}
BY BlockAssumption DEF Capacity

LEMMA InodeTypes ==
    ASSUME NEW i \in Disk
    PROVE  /\ Inodes[i].length \in Nat /\ Inodes[i].length <= Capacity
           /\ \A k \in Blocks : Inodes[i].data_blocks[k] \in Nat
BY ImageAssumption, CapacityNat DEF Disk, Blocks, Capacity

ReadStates(length) ==
    {s \in [offset : Nat, bytes : Seq(Nat \X Nat), done : BOOLEAN, failed : BOOLEAN] :
        Len(s.bytes) <= length}

\* The bytes that are taken of a block.
Piece(b, offset, n) == [j \in 1 .. n |-> <<b, offset + j>>]

LEMMA PieceType ==
    ASSUME NEW b \in Nat, NEW offset \in Nat, NEW n \in Nat
    PROVE  Piece(b, offset, n) \in Seq(Nat \X Nat) /\ Len(Piece(b, offset, n)) = n
BY DEF Piece

LEMMA PartIsPiece ==
    ASSUME NEW b \in Nat, NEW offset \in Nat, offset < BLOCK_SIZE, NEW room \in Nat
    PROVE  /\ Lesser(BLOCK_SIZE - offset, room) \in Nat
           /\ Lesser(BLOCK_SIZE - offset, room) <= room
           /\ Len(SubSeq(Block(b), offset + 1, BLOCK_SIZE)) = BLOCK_SIZE - offset
           /\ SubSeq(SubSeq(Block(b), offset + 1, BLOCK_SIZE), 1, Lesser(BLOCK_SIZE - offset, room))
                 = Piece(b, offset, Lesser(BLOCK_SIZE - offset, room))
<1> DEFINE rest == SubSeq(Block(b), offset + 1, BLOCK_SIZE)
           n == Lesser(BLOCK_SIZE - offset, room)
<1>1. BLOCK_SIZE \in Nat /\ n \in Nat /\ n <= room /\ n <= BLOCK_SIZE - offset
  BY BlockAssumption DEF Lesser
<1>2. rest = [j \in 1 .. BLOCK_SIZE - offset |-> <<b, offset + j>>]
  <2>1. rest = [j \in 1 .. BLOCK_SIZE - (offset + 1) + 1 |-> Block(b)[offset + 1 + j - 1]]
    BY <1>1, SubSeqIs
  <2>2. BLOCK_SIZE - (offset + 1) + 1 = BLOCK_SIZE - offset
    BY <1>1
  <2>3. \A j \in 1 .. BLOCK_SIZE - offset : Block(b)[offset + 1 + j - 1] = <<b, offset + j>>
    <3> SUFFICES ASSUME NEW j \in 1 .. BLOCK_SIZE - offset
                 PROVE  Block(b)[offset + 1 + j - 1] = <<b, offset + j>>
      OBVIOUS
    <3>1. offset + 1 + j - 1 = offset + j /\ offset + j \in 1 .. BLOCK_SIZE
      BY <1>1
    <3>2. QED
      BY <3>1 DEF Block
  <2> HIDE DEF rest
  <2>4. QED
    BY <2>1, <2>2, <2>3
<1> HIDE DEF rest, n
<1>3. SubSeq(rest, 1, n) = Piece(b, offset, n)
  <2>1. SubSeq(rest, 1, n) = [j \in 1 .. n |-> rest[j]]
    BY <1>1, SubSeqIs
  <2>2. \A j \in 1 .. n : rest[j] = <<b, offset + j>>
    BY <1>1, <1>2
  <2>3. QED
    BY <2>1, <2>2, <1>1 DEF Piece
<1>4. Len(rest) = BLOCK_SIZE - offset
  BY <1>1, <1>2
<1>5. QED
  BY <1>1, <1>3, <1>4 DEF rest, n

\* What a visit of a block does.
Sent(s, b, length) == Lesser(BLOCK_SIZE - s.offset, length - Len(s.bytes))

After(s, b, n, length) == [offset |-> 0, bytes |-> s.bytes \o Piece(b, s.offset, n),
                           done |-> Len(s.bytes) + n = length, failed |-> s.failed]
VisitIs(s, b, length, v) ==
    /\ b >= num_data_blocks => v = [s EXCEPT !.failed = TRUE, !.done = TRUE]
    /\ b < num_data_blocks /\ s.offset >= BLOCK_SIZE =>
          v = [s EXCEPT !.offset = s.offset - BLOCK_SIZE]
    /\ b < num_data_blocks /\ s.offset < BLOCK_SIZE =>
          /\ Sent(s, b, length) \in Nat
          /\ Len(s.bytes) + Sent(s, b, length) <= length
          /\ v = After(s, b, Sent(s, b, length), length)

LEMMA VisitType ==
    ASSUME NEW length \in Nat, NEW s \in ReadStates(length), NEW b \in Nat
    PROVE  /\ VisitBlock(s, b, length) \in ReadStates(length)
           /\ VisitIs(s, b, length, VisitBlock(s, b, length))
<1> DEFINE room == length - Len(s.bytes)
           n == Sent(s, b, length)
           part == Piece(b, s.offset, n)
<1>1. /\ s \in [offset : Nat, bytes : Seq(Nat \X Nat), done : BOOLEAN, failed : BOOLEAN]
      /\ s.offset \in Nat /\ s.bytes \in Seq(Nat \X Nat) /\ Len(s.bytes) \in Nat
      /\ Len(s.bytes) <= length
      /\ room \in Nat /\ BLOCK_SIZE \in Nat \ {0} /\ num_data_blocks \in Nat
  BY BlockAssumption, CountAssumption DEF ReadStates
<1>2. CASE b >= num_data_blocks
  <2>1. VisitBlock(s, b, length) = [s EXCEPT !.failed = TRUE, !.done = TRUE]
    BY <1>1, <1>2 DEF VisitBlock
  <2>2. [s EXCEPT !.failed = TRUE, !.done = TRUE] \in ReadStates(length)
    BY <1>1 DEF ReadStates
  <2>3. QED
    BY <1>1, <1>2, <2>1, <2>2 DEF VisitIs
<1>3. CASE b < num_data_blocks /\ s.offset >= BLOCK_SIZE
  <2>1. VisitBlock(s, b, length) = [s EXCEPT !.offset = s.offset - BLOCK_SIZE]
    BY <1>1, <1>3 DEF VisitBlock
  <2>2. [s EXCEPT !.offset = s.offset - BLOCK_SIZE] \in ReadStates(length)
    <3>1. s.offset - BLOCK_SIZE \in Nat
      BY <1>1, <1>3
    <3>2. QED
      BY <1>1, <3>1 DEF ReadStates
  <2>3. QED
    BY <1>1, <1>3, <2>1, <2>2 DEF VisitIs
<1>4. CASE b < num_data_blocks /\ s.offset < BLOCK_SIZE
  <2>1. n = Lesser(BLOCK_SIZE - s.offset, room) /\ n \in Nat /\ n <= room
        /\ Len(SubSeq(Block(b), s.offset + 1, BLOCK_SIZE)) = BLOCK_SIZE - s.offset
        /\ SubSeq(SubSeq(Block(b), s.offset + 1, BLOCK_SIZE), 1, n) = part
    <3>1. PICK at \in Nat, left \in Nat : at = s.offset /\ left = room /\ at < BLOCK_SIZE
      BY <1>1, <1>4
    <3>2. PICK m : m = Lesser(BLOCK_SIZE - at, left)
      OBVIOUS
    <3>3. n = m
      BY <3>1, <3>2 DEF Sent
    <3> HIDE DEF room, n
    <3>4. /\ m \in Nat /\ m <= left
          /\ Len(SubSeq(Block(b), at + 1, BLOCK_SIZE)) = BLOCK_SIZE - at
          /\ SubSeq(SubSeq(Block(b), at + 1, BLOCK_SIZE), 1, m) = Piece(b, at, m)
      BY <3>1, <3>2, PartIsPiece
    <3>5. QED
      BY <3>1, <3>2, <3>3, <3>4
  <2>2. part \in Seq(Nat \X Nat) /\ Len(part) = n
    BY <1>1, <2>1, PieceType
  <2> HIDE DEF part, n
  <2>3. s.bytes \o part \in Seq(Nat \X Nat) /\ Len(s.bytes \o part) = Len(s.bytes) + n
    <3>1. PICK Pairs : Pairs = Nat \X Nat
      OBVIOUS
    <3>2. PICK c \in Seq(Pairs) : c = s.bytes
      BY <1>1, <3>1
    <3>3. PICK d \in Seq(Pairs) : d = part
      BY <2>2, <3>1
    <3>4. c \o d \in Seq(Pairs) /\ Len(c \o d) = Len(c) + Len(d)
      BY ConcatIs
    <3>5. QED
      BY <2>2, <3>1, <3>2, <3>3, <3>4
  <2>4. VisitBlock(s, b, length) =
            [s EXCEPT !.offset = 0, !.bytes = s.bytes \o part,
                      !.done = (Len(s.bytes \o part) = length)]
    <3> DEFINE rest == SubSeq(Block(b), s.offset + 1, BLOCK_SIZE)
               taken == SubSeq(rest, 1, Lesser(Len(rest), room))
    <3>1. ~(b >= num_data_blocks) /\ ~(s.offset >= BLOCK_SIZE)
      BY <1>1, <1>4
    <3>2. VisitBlock(s, b, length) = [s EXCEPT !.offset = 0, !.bytes = s.bytes \o taken,
                                               !.done = (Len(s.bytes \o taken) = length)]
      BY <3>1 DEF VisitBlock
    <3>3. taken = part
      BY <2>1
    <3> HIDE DEF taken
    <3>4. QED
      BY <3>2, <3>3
  <2>5. VisitBlock(s, b, length) = [offset |-> 0, bytes |-> s.bytes \o part,
                                    done |-> Len(s.bytes) + n = length, failed |-> s.failed]
    BY <1>1, <2>3, <2>4
  <2>6. Len(s.bytes) + n <= length
    BY <1>1, <2>1
  <2>7. VisitBlock(s, b, length) \in ReadStates(length)
    BY <1>1, <2>3, <2>5, <2>6 DEF ReadStates
  <2>8. VisitBlock(s, b, length) = After(s, b, n, length)
    BY <2>5 DEF After, part
  <2>9. VisitIs(s, b, length, VisitBlock(s, b, length))
    <3>1. ~(b >= num_data_blocks) /\ ~(s.offset >= BLOCK_SIZE)
      BY <1>1, <1>4
    <3>2. QED
      BY <2>1, <2>6, <2>8, <3>1 DEF VisitIs, n
  <2>10. QED
    BY <2>7, <2>9
<1>5. QED
  BY <1>1, <1>2, <1>3, <1>4

\* The states that read_data's loop passes through.
Visited(inode, offset, length) ==
    CHOOSE visited :
        visited = [k \in 0 .. NUM_DATA_BLOCKS |->
                      IF k = 0
                      THEN [offset |-> offset, bytes |-> << >>, done |-> FALSE, failed |-> FALSE]
                      ELSE IF visited[k - 1].done THEN visited[k - 1]
                      ELSE VisitBlock(visited[k - 1], Inodes[inode].data_blocks[k - 1], length)]
FirstVisit(offset) == [offset |-> offset, bytes |-> << >>, done |-> FALSE, failed |-> FALSE]

LEMMA VisitedIs ==
    ASSUME NEW inode \in Disk, NEW offset \in Nat, NEW length \in Nat
    PROVE  LET v == Visited(inode, offset, length)
           IN  /\ v \in [0 .. NUM_DATA_BLOCKS -> ReadStates(length)]
               /\ v[0] = FirstVisit(offset)
               /\ \A k \in 1 .. NUM_DATA_BLOCKS :
                     v[k] = IF v[k - 1].done THEN v[k - 1]
                            ELSE VisitBlock(v[k - 1], Inodes[inode].data_blocks[k - 1], length)
<1> DEFINE N == NUM_DATA_BLOCKS
           Vals == ReadStates(length)
           base == FirstVisit(offset)
           Go(k, s) == IF s.done THEN s ELSE VisitBlock(s, Inodes[inode].data_blocks[k - 1], length)
           F == [x \in (1 .. N) \X Vals |-> Go(x[1], x[2])]
           v == Visited(inode, offset, length)
<1>1. N \in Nat /\ base \in Vals
  BY BlockAssumption DEF ReadStates, FirstVisit
<1>2. \A k \in 1 .. N, s \in Vals : Go(k, s) \in Vals
  <2> SUFFICES ASSUME NEW k \in 1 .. N, NEW s \in Vals PROVE Go(k, s) \in Vals
    OBVIOUS
  <2>1. Inodes[inode].data_blocks[k - 1] \in Nat
    BY <1>1, InodeTypes DEF Blocks
  <2>2. QED
    BY <2>1, VisitType
<1>3. F \in [(1 .. N) \X Vals -> Vals]
  BY <1>2
<1>4. PICK f : Follows(f, N, Vals, base, F)
  <2>1. N \in Nat
    BY <1>1
  <2>2. base \in Vals
    BY <1>1
  <2> HIDE DEF F, Vals, base, N, Go, v
  <2>3. QED
    BY <1>3, <2>1, <2>2, Recursion
<1>5. \A k \in 1 .. N : f[k - 1] \in Vals /\ f[k] = Go(k, f[k - 1])
  <2> SUFFICES ASSUME NEW k \in 1 .. N PROVE f[k - 1] \in Vals /\ f[k] = Go(k, f[k - 1])
    OBVIOUS
  <2>1. f[k - 1] \in Vals
    BY <1>1, <1>4 DEF Follows
  <2> HIDE DEF Go, Vals
  <2>2. F[<<k, f[k - 1]>>] = Go(k, f[k - 1])
    BY <2>1
  <2>3. QED
    BY <1>4, <2>1, <2>2 DEF Follows
<1>6. f = [k \in 0 .. N |-> IF k = 0 THEN base ELSE Go(k, f[k - 1])]
  <2> HIDE DEF Go, Vals, base
  <2>1. \A k \in 0 .. N : f[k] = IF k = 0 THEN base ELSE Go(k, f[k - 1])
    BY <1>4, <1>5 DEF Follows
  <2>2. QED
    BY <1>4, <2>1 DEF Follows
<1>7. v = [k \in 0 .. N |-> IF k = 0 THEN base ELSE Go(k, v[k - 1])]
  BY <1>6 DEF Visited, FirstVisit
<1>8. ASSUME NEW k \in 1 .. N PROVE v[k] = Go(k, v[k - 1])
  <2> HIDE DEF Go, base, v
  <2>1. k \in 0 .. N /\ k # 0
    BY <1>1
  <2>2. QED
    BY <1>7, <2>1
<1>9. v[0] = base
  <2> HIDE DEF Go, base, v
  <2>1. QED
    BY <1>1, <1>7
<1>10. \A k \in 0 .. N : v[k] = f[k]
  <2> DEFINE T == {k \in 0 .. N : v[k] = f[k]}
  <2>1. 0 \in T
    BY <1>1, <1>4, <1>9 DEF Follows
  <2>2. ASSUME NEW k \in 0 .. N - 1, k \in T PROVE k + 1 \in T
    <3> HIDE DEF Go, v
    <3>1. k + 1 \in 1 .. N /\ (k + 1) - 1 = k /\ k + 1 \in 0 .. N
      BY <1>1
    <3>2. v[k + 1] = Go(k + 1, v[k]) /\ f[k + 1] = Go(k + 1, f[k])
      BY <3>1, <1>5, <1>8
    <3>3. QED
      BY <2>2, <3>1, <3>2
  <2> HIDE DEF T, N
  <2>3. \A k \in 0 .. N : k \in T
    BY <1>1, <2>1, <2>2, UpTo
  <2>4. QED
    BY <2>3 DEF T
<1>11. v \in [0 .. N -> Vals]
  <2> HIDE DEF Go, Vals, base, v
  <2>1. \A k \in 0 .. N : v[k] \in Vals
    BY <1>4, <1>10 DEF Follows
  <2>2. QED
    BY <1>7, <2>1
<1>12. QED
  BY <1>8, <1>9, <1>11

LEMMA ReadDataIs ==
    ASSUME NEW inode \in Disk, NEW offset, NEW length
    PROVE  LET last == Visited(inode, offset, length)[NUM_DATA_BLOCKS]
           IN  ReadData(inode, offset, length) =
                  IF length = 0 THEN Returned(0)
                  ELSE IF last.failed THEN [ret |-> -1, bytes |-> last.bytes]
                  ELSE [ret |-> Len(last.bytes), bytes |-> last.bytes]
<1>1. ~(inode >= num_inodes)
  BY CountAssumption DEF Disk
<1>2. QED
  BY <1>1 DEF ReadData, Visited

-----------------------------------------------------------------------------
\* Where block k of a file starts, and what is at a place of it.
BlockStart(k) == k * BLOCK_SIZE

LEMMA BlockStarts ==
    /\ BlockStart(0) = 0
    /\ BlockStart(NUM_DATA_BLOCKS) = Capacity
    /\ \A k \in Nat : BlockStart(k) \in Nat /\ BlockStart(k + 1) = BlockStart(k) + BLOCK_SIZE
BY BlockAssumption DEF BlockStart, Capacity

LEMMA InBlock ==
    ASSUME NEW inode \in Disk, NEW k \in Nat, NEW j \in 1 .. BLOCK_SIZE
    PROVE  ByteAt(inode, BlockStart(k) + j - 1) = <<Inodes[inode].data_blocks[k], j>>
<1> DEFINE n == BlockStart(k) + j - 1
           q == n \div BLOCK_SIZE
           r == n % BLOCK_SIZE
<1>1. BLOCK_SIZE \in Nat /\ BLOCK_SIZE > 0 /\ j \in Nat /\ BlockStart(k) \in Nat /\ n \in Nat
  BY CapacityNat, BlockStarts
<1>2. q \in Int /\ r \in 0 .. BLOCK_SIZE - 1 /\ n = BLOCK_SIZE * q + r
  <2> HIDE DEF n
  <2>1. QED
    BY <1>1
<1>3. n = BLOCK_SIZE * k + (j - 1)
  BY <1>1 DEF BlockStart
<1> HIDE DEF n, q, r
<1>4. q = k
  <2>1. BLOCK_SIZE * (q - k) = (j - 1) - r
    BY <1>1, <1>2, <1>3
  <2>2. (j - 1) - r < BLOCK_SIZE /\ -BLOCK_SIZE < (j - 1) - r
    BY <1>1, <1>2
  <2>3. q - k < 1
    BY <1>1, <1>2, <2>1, <2>2 DEF VisitIs
  <2>4. q - k > -1
    BY <1>1, <1>2, <2>1, <2>2 DEF VisitIs
  <2>5. QED
    BY <1>2, <2>3, <2>4
<1>5. r = j - 1
  BY <1>1, <1>2, <1>3, <1>4
<1>6. QED
  BY <1>4, <1>5, <1>1 DEF ByteAt, n, q, r


\* The part of a file that a read takes.
Run(inode, offset, n) == [i \in 1 .. n |-> ByteAt(inode, offset + i - 1)]

Joined(r, q, n, m) == [i \in 1 .. n + m |-> IF i <= n THEN r[i] ELSE q[i - n]]

LEMMA RunGrows ==
    ASSUME NEW inode \in Disk, NEW k \in Nat, NEW n \in Nat, NEW m \in Nat,
           NEW offset \in Nat, NEW at \in Nat, at + m <= BLOCK_SIZE,
           offset + n = BlockStart(k) + at,
           NEW b, b = Inodes[inode].data_blocks[k]
    PROVE  Joined(Run(inode, offset, n), Piece(b, at, m), n, m) = Run(inode, offset, n + m)
<1>1. ASSUME NEW i \in 1 .. n + m
      PROVE  (IF i <= n THEN Run(inode, offset, n)[i]
              ELSE Piece(b, at, m)[i - n])
                = ByteAt(inode, offset + i - 1)
  <2>1. CASE i <= n
    BY <2>1 DEF Run
  <2>2. CASE ~(i <= n)
    <3>1. i - n \in 1 .. m /\ BLOCK_SIZE \in Nat
      BY <2>2, CapacityNat
    <3>2. at + (i - n) \in 1 .. BLOCK_SIZE
      BY <3>1
    <3>3. offset + i - 1 = BlockStart(k) + (at + (i - n)) - 1
      <4>1. BlockStart(k) \in Nat /\ i \in Nat
        BY BlockStarts
      <4>2. QED
        BY <4>1
    <3>4. ByteAt(inode, offset + i - 1) = <<Inodes[inode].data_blocks[k], at + (i - n)>>
      BY <3>2, <3>3, InBlock
    <3>5. QED
      BY <2>2, <3>1, <3>4 DEF Piece
  <2>3. QED
    BY <2>1, <2>2
<1>2. QED
  BY <1>1 DEF Run, Joined

\* What is true after k blocks: what was taken is the part of the file from the offset on,
\* none of it from a bad block; the next byte is where the offset says.
SoFar(inode, offset, length, k, s) ==
    /\ s.bytes = Run(inode, offset, Len(s.bytes))
    /\ \A i \in 1 .. Len(s.bytes) : ~Bad(s.bytes[i])
    /\ s.failed => /\ s.done
                   /\ \E j \in Blocks : /\ Inodes[inode].data_blocks[j] >= num_data_blocks
                                        /\ BlockStart(j) < offset + length
    /\ s.done /\ ~s.failed => Len(s.bytes) = length
    /\ ~s.done => /\ Len(s.bytes) < length
                  /\ s.offset + BlockStart(k) = offset + Len(s.bytes)
                  /\ s.offset # 0 => s.bytes = << >>

LEMMA VisitKeeps ==
    ASSUME NEW inode \in Disk, NEW offset \in Nat, NEW length \in Nat,
           NEW k \in Blocks, NEW s \in ReadStates(length),
           SoFar(inode, offset, length, k, s), ~s.done,
           NEW b, b = Inodes[inode].data_blocks[k],
           NEW v, v = VisitBlock(s, b, length)
    PROVE  SoFar(inode, offset, length, k + 1, v)
<1> DEFINE n == Sent(s, b, length)
           size == Len(s.bytes)
<1>1. /\ k \in Nat /\ b \in Nat /\ num_data_blocks \in Nat /\ BLOCK_SIZE \in Nat \ {0}
      /\ BlockStart(k) \in Nat /\ BlockStart(k + 1) = BlockStart(k) + BLOCK_SIZE
  BY CapacityNat, InodeTypes, BlockStarts, CountAssumption DEF Blocks
<1>2. /\ s \in [offset : Nat, bytes : Seq(Nat \X Nat), done : BOOLEAN, failed : BOOLEAN]
      /\ s.offset \in Nat /\ s.bytes \in Seq(Nat \X Nat) /\ size \in Nat /\ size < length
      /\ s.bytes = Run(inode, offset, size) /\ ~s.failed
      /\ \A i \in 1 .. size : ~Bad(s.bytes[i])
      /\ s.offset + BlockStart(k) = offset + size
      /\ s.offset # 0 => s.bytes = << >>
  BY DEF SoFar, ReadStates
<1>0. /\ b >= num_data_blocks => v = [s EXCEPT !.failed = TRUE, !.done = TRUE]
      /\ b < num_data_blocks /\ s.offset >= BLOCK_SIZE =>
            v = [s EXCEPT !.offset = s.offset - BLOCK_SIZE]
      /\ b < num_data_blocks /\ s.offset < BLOCK_SIZE =>
            /\ n \in Nat
            /\ size + n <= length
            /\ v = [offset |-> 0, bytes |-> s.bytes \o Piece(b, s.offset, n),
                    done |-> size + n = length, failed |-> s.failed]
  <2>1. b \in Nat
    BY <1>1
  <2>2. VisitIs(s, b, length, v)
    BY <2>1, VisitType
  <2>3. QED
    BY <2>2 DEF VisitIs, After
<1> HIDE DEF size, n
<1>3. CASE b >= num_data_blocks
  <2>1. v = [s EXCEPT !.failed = TRUE, !.done = TRUE]
    BY <1>3, <1>0
  <2>2. v.bytes = s.bytes /\ v.failed = TRUE /\ v.done = TRUE
    BY <1>2, <2>1
  <2>3. BlockStart(k) < offset + length
    BY <1>1, <1>2
  <2>4. QED
    BY <1>1, <1>2, <1>3, <2>2, <2>3 DEF SoFar, size
<1>4. CASE b < num_data_blocks /\ s.offset >= BLOCK_SIZE
  <2>1. v = [s EXCEPT !.offset = s.offset - BLOCK_SIZE]
    BY <1>4, <1>0
  <2>2. v.bytes = s.bytes /\ v.failed = FALSE /\ v.done = FALSE
        /\ v.offset = s.offset - BLOCK_SIZE
    BY <1>2, <2>1
  <2>3. s.bytes = << >> /\ v.offset + BlockStart(k + 1) = offset + size
    BY <1>1, <1>2, <1>4, <2>2
  <2>4. QED
    BY <1>2, <2>2, <2>3 DEF SoFar, size
<1>5. CASE b < num_data_blocks /\ s.offset < BLOCK_SIZE
  <2> DEFINE part == Piece(b, s.offset, n)
  <2>0. n \in Nat /\ size + n <= length
    BY <1>5, <1>0
  <2>a. /\ n \in Nat /\ b \in Nat /\ s.offset \in Nat /\ size \in Nat /\ k \in Nat
        /\ BlockStart(k) \in Nat /\ BLOCK_SIZE \in Nat
        /\ BlockStart(k + 1) = BlockStart(k) + BLOCK_SIZE
        /\ s.offset + BlockStart(k) = offset + size
    BY <1>1, <1>2, <2>0
  <2>1. /\ v = [offset |-> 0, bytes |-> s.bytes \o part,
                done |-> size + n = length, failed |-> s.failed]
    BY <1>5, <1>0
  <2>2. s.offset + n <= BLOCK_SIZE /\ (size + n # length => s.offset + n = BLOCK_SIZE)
    <3>1. n = IF BLOCK_SIZE - s.offset < length - size THEN BLOCK_SIZE - s.offset ELSE length - size
      BY DEF n, Sent, size, Lesser
    <3>2. QED
      BY <2>0, <2>a, <1>5, <3>1
  <2>3. part \in Seq(Nat \X Nat) /\ Len(part) = n /\ \A i \in 1 .. n : ~Bad(part[i])
    <3>1. part \in Seq(Nat \X Nat) /\ Len(part) = n
      BY <2>a, PieceType
    <3>2. \A i \in 1 .. n : part[i][1] = b
      BY DEF Piece
    <3>3. ~(b >= num_data_blocks)
      BY <1>1, <1>5
    <3> HIDE DEF part
    <3>4. QED
      BY <3>1, <3>2, <3>3 DEF Bad
  <2>c. s.bytes \in Seq(Nat \X Nat) /\ s.bytes = Run(inode, offset, size)
        /\ \A i \in 1 .. size : ~Bad(s.bytes[i])
    BY <1>2
  <2>4. Len(s.bytes \o part) = size + n
        /\ s.bytes \o part = [i \in 1 .. size + n |-> IF i <= size THEN s.bytes[i]
                                                      ELSE part[i - size]]
    <3>1. PICK Pairs : Pairs = Nat \X Nat
      OBVIOUS
    <3>2. PICK c \in Seq(Pairs) : c = s.bytes
      BY <2>c, <3>1
    <3>3. PICK d \in Seq(Pairs) : d = part
      BY <2>3, <3>1
    <3>4. Len(c) = size /\ Len(d) = n
      BY <2>3, <3>2, <3>3 DEF size
    <3> HIDE DEF part, size
    <3>5. /\ Len(c \o d) = Len(c) + Len(d)
          /\ c \o d = [i \in 1 .. Len(c) + Len(d) |-> IF i <= Len(c) THEN c[i] ELSE d[i - Len(c)]]
      BY ConcatIs
    <3>6. QED
      BY <3>2, <3>3, <3>4, <3>5
  <2>5. s.bytes \o part = Run(inode, offset, size + n)
    <3>1. offset + size = BlockStart(k) + s.offset
      BY <2>a
    <3>2. [i \in 1 .. size + n |-> IF i <= size THEN Run(inode, offset, size)[i]
                                   ELSE part[i - size]] = Run(inode, offset, size + n)
      <4> DEFINE at == s.offset
      <4>1. at \in Nat /\ at + n <= BLOCK_SIZE /\ offset + size = BlockStart(k) + at
            /\ k \in Nat /\ size \in Nat /\ n \in Nat
        BY <2>a, <2>2, <3>1
      <4> HIDE DEF at
      <4>2. Joined(Run(inode, offset, size), Piece(b, at, n), size, n) = Run(inode, offset, size + n)
        BY <4>1, RunGrows
      <4>3. QED
        BY <4>2 DEF at, Joined
    <3> HIDE DEF part
    <3>3. QED
      BY <2>c, <2>4, <3>2
  <2>6. \A i \in 1 .. size + n : ~Bad((s.bytes \o part)[i])
    <3> SUFFICES ASSUME NEW i \in 1 .. size + n PROVE ~Bad((s.bytes \o part)[i])
      OBVIOUS
    <3> HIDE DEF part
    <3>1. (s.bytes \o part)[i] = IF i <= size THEN s.bytes[i] ELSE part[i - size]
      BY <2>4
    <3>2. i <= size => i \in 1 .. size
      BY <2>a
    <3>3. ~(i <= size) => i - size \in 1 .. n
      BY <2>a
    <3>4. QED
      BY <2>c, <2>3, <3>1, <3>2, <3>3
  <2>7. size + n # length => 0 + BlockStart(k + 1) = offset + (size + n)
    BY <2>a, <2>2
  <2>8. v.bytes = s.bytes \o part /\ v.offset = 0 /\ v.failed = FALSE
        /\ v.done = (size + n = length)
    BY <1>2, <2>1
  <2> HIDE DEF part
  <2>9. Len(v.bytes) = size + n
    BY <2>4, <2>8
  <2>10. size + n # length => size + n < length
    BY <2>0, <2>a
  <2>11. QED
    BY <2>5, <2>6, <2>7, <2>8, <2>9, <2>10 DEF SoFar
<1>6. QED
  BY <1>1, <1>2, <1>3, <1>4, <1>5


\* A file that a bad block is in.
HasBad(inode) == \E i \in 1 .. Inodes[inode].length : Bad(ByteAt(inode, i - 1))

LEMMA BadBlockInFile ==
    ASSUME NEW inode \in Disk, NEW j \in Blocks,
           Inodes[inode].data_blocks[j] >= num_data_blocks,
           BlockStart(j) < Inodes[inode].length
    PROVE  HasBad(inode)
<1> DEFINE i == BlockStart(j) + 1
<1>1. /\ j \in Nat /\ BLOCK_SIZE \in Nat \ {0} /\ BlockStart(j) \in Nat
      /\ Inodes[inode].length \in Nat
  BY CapacityNat, BlockStarts, InodeTypes DEF Blocks
<1>2. i \in 1 .. Inodes[inode].length /\ i - 1 = BlockStart(j) + 1 - 1 /\ 1 \in 1 .. BLOCK_SIZE
  BY <1>1
<1>3. ByteAt(inode, i - 1) = <<Inodes[inode].data_blocks[j], 1>>
  BY <1>1, <1>2, InBlock
<1>4. Bad(ByteAt(inode, i - 1))
  BY <1>3 DEF Bad
<1> HIDE DEF i
<1>5. QED
  BY <1>2, <1>4 DEF HasBad

\* What a read of a part of a file may give: all of it, or an error when a block is bad.
IsReadOf(r, inode, offset, length) ==
    \/ r.ret = -1 /\ HasBad(inode)
    \/ /\ r.ret = length /\ r.bytes = Run(inode, offset, length)
       /\ \A i \in 1 .. length : ~Bad(ByteAt(inode, offset + i - 1))

\* read_data gives the bytes that were asked for, from the offset on, wherever blocks end.
LEMMA ReadDataGives ==
    ASSUME NEW inode \in Disk, NEW offset \in Nat, NEW length \in Nat,
           offset + length <= Inodes[inode].length
    PROVE  IsReadOf(ReadData(inode, offset, length), inode, offset, length)
<1> DEFINE N == NUM_DATA_BLOCKS
           v == Visited(inode, offset, length)
           T == {k \in 0 .. N : SoFar(inode, offset, length, k, v[k])}
           last == v[N]
           r == ReadData(inode, offset, length)
<1>0. N \in Nat /\ Inodes[inode].length \in Nat /\ Inodes[inode].length <= Capacity
      /\ Capacity \in Nat
  BY CapacityNat, InodeTypes
<1>1. CASE length = 0
  <2>1. r = Returned(0)
    BY <1>1, ReadDataIs
  <2>2. r.ret = 0 /\ r.bytes = << >>
    BY <2>1 DEF Returned
  <2>3. Run(inode, offset, 0) = << >>
    BY DEF Run
  <2>4. QED
    BY <1>1, <2>2, <2>3 DEF IsReadOf
<1>2. CASE length # 0
  <2>1. v \in [0 .. N -> ReadStates(length)] /\ v[0] = FirstVisit(offset)
        /\ \A k \in 1 .. N : v[k] = IF v[k - 1].done THEN v[k - 1]
                                    ELSE VisitBlock(v[k - 1], Inodes[inode].data_blocks[k - 1], length)
    BY VisitedIs
  <2> HIDE DEF v
  <2>2. 0 \in T
    <3>1. SoFar(inode, offset, length, 0, FirstVisit(offset))
      <4>1. Run(inode, offset, 0) = << >>
        BY DEF Run
      <4>2. QED
        BY <1>2, <4>1, BlockStarts DEF SoFar, FirstVisit
    <3>2. QED
      BY <1>0, <2>1, <3>1
  <2>3. ASSUME NEW k \in 0 .. N - 1, k \in T PROVE k + 1 \in T
    <3> DEFINE s == v[k]
               b == Inodes[inode].data_blocks[k]
    <3>1. k \in Blocks /\ k + 1 \in 1 .. N /\ k + 1 \in 0 .. N /\ (k + 1) - 1 = k
      BY <1>0 DEF Blocks
    <3>2. s \in ReadStates(length) /\ SoFar(inode, offset, length, k, s)
      BY <1>0, <2>1, <2>3
    <3>3. v[k + 1] = IF s.done THEN s ELSE VisitBlock(s, b, length)
      BY <2>1, <3>1
    <3>4. CASE s.done
      <4>1. v[k + 1] = s
        BY <3>3, <3>4
      <4>2. SoFar(inode, offset, length, k + 1, s)
        BY <3>2, <3>4 DEF SoFar
      <4>3. QED
        BY <3>1, <4>1, <4>2
    <3>5. CASE ~s.done
      <4> DEFINE w == VisitBlock(s, b, length)
      <4>1. v[k + 1] = w
        BY <3>3, <3>5
      <4> HIDE DEF w, s, b
      <4>2. SoFar(inode, offset, length, k + 1, w)
        BY <3>1, <3>2, <3>5, VisitKeeps DEF w, b
      <4>3. QED
        BY <3>1, <4>1, <4>2
    <3>6. QED
      BY <3>4, <3>5
  <2>4. N \in T
    <3> HIDE DEF T, N
    <3>1. \A k \in 0 .. N : k \in T
      BY <1>0, <2>2, <2>3, UpTo
    <3>2. QED
      BY <1>0, <3>1
  <2>5. last \in ReadStates(length) /\ SoFar(inode, offset, length, N, last)
    BY <1>0, <2>1, <2>4
  <2>6. r = IF last.failed THEN [ret |-> -1, bytes |-> last.bytes]
            ELSE [ret |-> Len(last.bytes), bytes |-> last.bytes]
    BY <1>2, ReadDataIs DEF v
  <2> HIDE DEF last, r
  <2>7. last.done
    <3>1. SUFFICES ASSUME ~last.done PROVE FALSE
      OBVIOUS
    <3>2. last.offset \in Nat /\ Len(last.bytes) \in Nat
      BY <2>5 DEF ReadStates
    <3>3. Len(last.bytes) < length /\ last.offset + Capacity = offset + Len(last.bytes)
      BY <2>5, <3>1, BlockStarts DEF SoFar
    <3>4. QED
      BY <1>0, <3>2, <3>3
  <2>8. ASSUME last.failed PROVE IsReadOf(r, inode, offset, length)
    <3>1. PICK j \in Blocks : /\ Inodes[inode].data_blocks[j] >= num_data_blocks
                              /\ BlockStart(j) < offset + length
      BY <2>5, <2>8 DEF SoFar
    <3>2. BlockStart(j) \in Nat
      BY BlockStarts, <1>0 DEF Blocks
    <3>3. BlockStart(j) < Inodes[inode].length
      BY <1>0, <3>1, <3>2
    <3>4. HasBad(inode)
      BY <3>1, <3>3, BadBlockInFile
    <3>5. r.ret = -1
      BY <2>6, <2>8
    <3>6. QED
      BY <3>4, <3>5 DEF IsReadOf
  <2>9. ASSUME ~last.failed PROVE IsReadOf(r, inode, offset, length)
    <3>1. Len(last.bytes) = length /\ last.bytes = Run(inode, offset, length)
          /\ \A i \in 1 .. length : ~Bad(last.bytes[i])
      BY <2>5, <2>7, <2>9 DEF SoFar
    <3>2. r.ret = length /\ r.bytes = Run(inode, offset, length)
      BY <2>6, <2>9, <3>1
    <3>3. \A i \in 1 .. length : ~Bad(ByteAt(inode, offset + i - 1))
      BY <3>1 DEF Run
    <3>4. QED
      BY <3>2, <3>3 DEF IsReadOf
  <2>10. QED
    BY <2>8, <2>9 DEF r
<1>3. QED
  BY <1>1, <1>2


-----------------------------------------------------------------------------
(***************************************************************************)
(* Numbers of bytes, strings and parts of streams.                         *)
(***************************************************************************)
LEMMA RemainderIs ==
    ASSUME NEW w \in Nat, w > 0, NEW q \in Int, NEW r \in 0 .. w - 1, NEW n \in Int, n = w * q + r
    PROVE  n % w = r
<1> DEFINE s == n % w
           p2 == n \div w
<1>1. p2 \in Int /\ s \in 0 .. w - 1 /\ n = w * p2 + s
  OBVIOUS
<1> HIDE DEF s, p2
<1>2. w * (p2 - q) = r - s
  BY <1>1
<1>3. r - s < w /\ -w < r - s
  BY <1>1
<1>4. p2 - q < 1
  BY <1>1, <1>2, <1>3
<1>5. p2 - q > -1
  BY <1>1, <1>2, <1>3
<1>6. p2 = q
  BY <1>1, <1>4, <1>5
<1>7. QED
  BY <1>1, <1>6 DEF s

\* What a program asks for, as the file system takes it: a negative size is more than
\* any file has.
LEMMA UnsignedIs ==
    ASSUME NEW n \in Asked
    PROVE  /\ n \in Int /\ Unsigned(n) \in Nat
           /\ n >= 0 => Unsigned(n) = n
           /\ n < 0 => Unsigned(n) >= Capacity
<1>1. WORD \in Nat /\ WORD > 0 /\ WORD > Capacity /\ Capacity \in Nat
  BY WordAssumption, CapacityNat DEF Capacity
<1>2. n \in Int /\ n < WORD /\ (n < 0 => Capacity - n <= WORD)
  <2>1. MAX_FILE_NAME_LENGTH \in Nat
    BY NameAssumption
  <2>2. CASE n \in ReadSizes
    BY <2>2, WordAssumption DEF Capacity
  <2>3. CASE n \in 0 .. BUFSIZE
    BY <1>1, <2>1, <2>3, BufferAssumption
  <2>4. CASE n \in {READ_SIZE, CAT_SIZE, SBUFSIZE - 1}
    <3>1. READ_SIZE = 31 /\ READ_SIZE < WORD
      BY SyserrAssumption DEF READ_SIZE
    <3>2. CAT_SIZE \in Nat /\ CAT_SIZE < WORD /\ SBUFSIZE - 1 \in Nat /\ SBUFSIZE - 1 < WORD
      BY <1>1, <2>1, BufferAssumption
    <3> HIDE DEF READ_SIZE
    <3>3. QED
      BY <1>1, <2>4, <3>1, <3>2
  <2>5. QED
    BY <2>2, <2>3, <2>4 DEF Asked
<1>3. CASE n >= 0
  <2>1. n \in 0 .. WORD - 1 /\ n = WORD * 0 + n
    BY <1>1, <1>2, <1>3
  <2>2. n % WORD = n
    BY <1>1, <1>2, <2>1, RemainderIs
  <2>3. QED
    BY <1>2, <1>3, <2>2 DEF Unsigned
<1>4. CASE n < 0
  <2>1. n + WORD \in 0 .. WORD - 1 /\ n = WORD * (-1) + (n + WORD) /\ -1 \in Int
    BY <1>1, <1>2, <1>4
  <2>2. n % WORD = n + WORD
    BY <1>1, <1>2, <2>1, RemainderIs
  <2>3. QED
    BY <1>1, <1>2, <1>4, <2>1, <2>2 DEF Unsigned
<1>5. QED
  BY <1>2, <1>3, <1>4

\* What a read of n bytes takes of the left bytes of a file.
LEMMA LengthTaken ==
    ASSUME NEW left \in Nat, left <= Capacity, NEW n \in Asked
    PROVE  LET length == Lesser(left, Unsigned(n))
           IN  /\ length \in 0 .. left
               /\ n < 0 \/ n > left => length = left
               /\ ~(n < 0 \/ n > left) => length = n
               /\ n >= 0 => length <= n
<1>1. n \in Int /\ Unsigned(n) \in Nat /\ Capacity \in Nat
  BY UnsignedIs, CapacityNat
<1>2. n >= 0 => Unsigned(n) = n
  BY UnsignedIs
<1>3. n < 0 => Unsigned(n) >= Capacity
  BY UnsignedIs
<1>4. QED
  BY <1>1, <1>2, <1>3 DEF Lesser

LEMMA RunParts ==
    ASSUME NEW inode, NEW offset \in Nat, NEW n \in Nat, NEW m \in 0 .. n
    PROVE  /\ Len(Run(inode, offset, n)) = n
           /\ SubSeq(Run(inode, offset, n), 1, m) = Run(inode, offset, m)
           /\ SubSeq(Run(inode, offset, n), m + 1, n) = Run(inode, offset + m, n - m)
<1> DEFINE r == Run(inode, offset, n)
<1>1. Len(r) = n
  BY DEF Run
<1>2. SubSeq(r, 1, m) = Run(inode, offset, m)
  <2>1. SubSeq(r, 1, m) = [i \in 1 .. m |-> r[i]]
    BY SubSeqIs
  <2>2. \A i \in 1 .. m : r[i] = ByteAt(inode, offset + i - 1)
    BY DEF Run
  <2> HIDE DEF r
  <2>3. QED
    BY <2>1, <2>2 DEF Run
<1>3. SubSeq(r, m + 1, n) = Run(inode, offset + m, n - m)
  <2>1. SubSeq(r, m + 1, n) = [i \in 1 .. n - (m + 1) + 1 |-> r[m + 1 + i - 1]]
    BY SubSeqIs
  <2>2. n - (m + 1) + 1 = n - m
    OBVIOUS
  <2>3. \A i \in 1 .. n - m : r[m + 1 + i - 1] = ByteAt(inode, (offset + m) + i - 1)
    <3> SUFFICES ASSUME NEW i \in 1 .. n - m
                 PROVE  r[m + 1 + i - 1] = ByteAt(inode, (offset + m) + i - 1)
      OBVIOUS
    <3>1. m + 1 + i - 1 \in 1 .. n /\ offset + (m + 1 + i - 1) - 1 = (offset + m) + i - 1
      OBVIOUS
    <3>2. QED
      BY <3>1 DEF Run
  <2> HIDE DEF r
  <2>4. QED
    BY <2>1, <2>2, <2>3 DEF Run
<1>4. QED
  BY <1>1, <1>2, <1>3 DEF r

\* What is left of an open file, or of a directory.
LEMMA FileStream ==
    ASSUME NEW inode \in Disk, NEW pos \in 0 .. Inodes[inode].length
    PROVE  From(Bytes[inode], pos) = Run(inode, pos, Inodes[inode].length - pos)
<1> DEFINE n == Inodes[inode].length
<1>1. n \in Nat
  BY InodeTypes
<1>2. Bytes[inode] = Run(inode, 0, n)
  <2>1. Bytes[inode] = [j \in 1 .. n |-> ByteAt(inode, j - 1)]
    BY DEF Bytes, Disk
  <2>2. \A j \in 1 .. n : 0 + j - 1 = j - 1
    OBVIOUS
  <2> HIDE DEF n
  <2>3. QED
    BY <2>1, <2>2 DEF Run
<1> HIDE DEF n
<1>3. Len(Run(inode, 0, n)) = n /\ SubSeq(Run(inode, 0, n), pos + 1, n) = Run(inode, 0 + pos, n - pos)
  <2>1. PICK zero \in Nat, last \in Nat : zero = 0 /\ last = n
    BY <1>1
  <2>2. PICK at \in 0 .. last : at = pos
    BY <2>1 DEF n
  <2>3. /\ Len(Run(inode, zero, last)) = last
        /\ SubSeq(Run(inode, zero, last), at + 1, last) = Run(inode, zero + at, last - at)
    BY RunParts
  <2>4. QED
    BY <2>1, <2>2, <2>3
<1>4. 0 + pos = pos
  BY <1>1 DEF n
<1>5. QED
  BY <1>2, <1>3, <1>4 DEF From, n

LEMMA DentriesSeq == Len(Dentries) \in Nat /\ DOMAIN Dentries = 1 .. Len(Dentries)
BY DentryAssumption DEF IsString

NamesFrom(pos) == [i \in 1 .. Len(Dentries) - pos |-> Dentries[pos + i].name]

LEMMA DirectoryStream ==
    ASSUME NEW pos \in 0 .. Len(Dentries)
    PROVE  /\ From(NamesInOrder, pos) = NamesFrom(pos)
           /\ pos < Len(Dentries) => /\ NamesFrom(pos) # << >>
                                     /\ Head(NamesFrom(pos)) = Dentries[pos + 1].name
                                     /\ Tail(NamesFrom(pos)) = NamesFrom(pos + 1)
           /\ pos = Len(Dentries) => NamesFrom(pos) = << >>
<1> DEFINE n == Len(Dentries)
<1>1. n \in Nat
  BY DentriesSeq
<1>2. Len(NamesInOrder) = n
  BY <1>1 DEF NamesInOrder
<1> HIDE DEF n
<1>3. SubSeq(NamesInOrder, pos + 1, n) = [i \in 1 .. n - (pos + 1) + 1 |-> NamesInOrder[pos + 1 + i - 1]]
  BY <1>1, SubSeqIs
<1>4. n - (pos + 1) + 1 = n - pos
  BY <1>1
<1>5. \A i \in 1 .. n - pos : NamesInOrder[pos + 1 + i - 1] = Dentries[pos + i].name
  <2> SUFFICES ASSUME NEW i \in 1 .. n - pos
               PROVE  NamesInOrder[pos + 1 + i - 1] = Dentries[pos + i].name
    OBVIOUS
  <2>1. pos + 1 + i - 1 = pos + i /\ pos + i \in 1 .. n
    BY <1>1 DEF n
  <2>2. QED
    BY <2>1 DEF NamesInOrder, n
<1>6. From(NamesInOrder, pos) = NamesFrom(pos)
  BY <1>2, <1>3, <1>4, <1>5 DEF From, NamesFrom, n
<1>7. ASSUME pos < n
      PROVE  /\ NamesFrom(pos) # << >>
             /\ Head(NamesFrom(pos)) = Dentries[pos + 1].name
             /\ Tail(NamesFrom(pos)) = NamesFrom(pos + 1)
  <2>1. n - pos \in Nat /\ n - pos >= 1 /\ n - pos - 1 = n - (pos + 1)
    BY <1>1, <1>7
  <2>2. Len(NamesFrom(pos)) = n - pos /\ 1 \in 1 .. n - pos
    BY <2>1 DEF NamesFrom, n
  <2>3. NamesFrom(pos)[1] = Dentries[pos + 1].name
    BY <2>2 DEF NamesFrom, n
  <2>4. Tail(NamesFrom(pos)) = [i \in 1 .. n - (pos + 1) |-> NamesFrom(pos)[i + 1]]
    <3>1. NamesFrom(pos) \in [1 .. n - pos -> Names]
      BY <1>1 DEF NamesFrom, Names, n
    <3>2. NamesFrom(pos) \in Seq(Names) /\ NamesFrom(pos) # << >>
      BY <2>1, <2>2, <3>1, FunctionIsSeq
    <3>3. QED
      BY <2>1, <2>2, <3>2, TailIs
  <2>5. \A i \in 1 .. n - (pos + 1) : NamesFrom(pos)[i + 1] = Dentries[(pos + 1) + i].name
    <3> SUFFICES ASSUME NEW i \in 1 .. n - (pos + 1)
                 PROVE  NamesFrom(pos)[i + 1] = Dentries[(pos + 1) + i].name
      OBVIOUS
    <3>1. i + 1 \in 1 .. n - pos /\ pos + (i + 1) = (pos + 1) + i
      BY <1>1
    <3>2. QED
      BY <3>1 DEF NamesFrom, n
  <2>6. Tail(NamesFrom(pos)) = NamesFrom(pos + 1)
    BY <2>4, <2>5 DEF NamesFrom, n
  <2>7. Head(NamesFrom(pos)) = NamesFrom(pos)[1] /\ NamesFrom(pos) # << >>
    BY <2>1, <2>2
  <2>8. QED
    BY <2>3, <2>6, <2>7
<1>8. pos = n => NamesFrom(pos) = << >>
  BY <1>1 DEF NamesFrom, n
<1>9. QED
  BY <1>6, <1>7, <1>8 DEF n


-----------------------------------------------------------------------------
(***************************************************************************)
(* The streams that descriptors stand for, and what a step of them is.     *)
(***************************************************************************)
Openable == Fds \ Stdio
ClosedStream == [kind |-> "closed", items |-> << >>]
StreamNow == [fd \in Openable |-> IF fd \in table.spaces THEN StreamOf(fd_array[fd])
                                  ELSE ClosedStream]
OutcomeNow == IF result.ret = -1 THEN "error" ELSE "ok"
TakenNow == IF result.ret = -1 THEN << >> ELSE result.bytes

LEMMA StreamsFail ==
    ASSUME OutcomeNow' = "error", TakenNow' = << >>, StreamNow' = StreamNow
    PROVE  S!Next
BY DEF S!Next, S!Fail, StreamNow, OutcomeNow, TakenNow, Openable, ClosedStream

LEMMA StreamsElsewhere ==
    ASSUME OutcomeNow' = "ok", StreamNow' = StreamNow,
           TakenNow' = << >> \/ \E line \in Typed, n \in Asked : TakenNow' = S!Part(line, n)
    PROVE  S!Next
BY DEF S!Next, S!Succeed, S!Elsewhere, StreamNow, OutcomeNow, TakenNow, Openable, ClosedStream

LEMMA StreamsReadFile ==
    ASSUME OutcomeNow' = "ok", NEW fd \in Openable, StreamNow[fd].kind = "file",
           NEW n \in Asked, TakenNow' = S!Part(StreamNow[fd].items, n),
           \A i \in 1 .. Len(TakenNow') : ~Bad(TakenNow'[i]),
           StreamNow' = [StreamNow EXCEPT ![fd].items =
                            SubSeq(StreamNow[fd].items, Len(TakenNow') + 1, Len(StreamNow[fd].items))]
    PROVE  S!Next
<1>1. S!ReadFile(fd)
  BY DEF S!ReadFile, StreamNow, TakenNow, Openable, ClosedStream
<1>2. QED
  BY <1>1 DEF S!Next, S!Succeed, OutcomeNow, Openable

LEMMA StreamsReadName ==
    ASSUME OutcomeNow' = "ok", NEW fd \in Openable, StreamNow[fd].kind = "dir",
           IF StreamNow[fd].items = << >> THEN TakenNow' = << >> /\ StreamNow' = StreamNow
           ELSE /\ \E n \in Asked : TakenNow' = S!Part(Head(StreamNow[fd].items), n)
                /\ StreamNow' = [StreamNow EXCEPT ![fd].items = Tail(StreamNow[fd].items)]
    PROVE  S!Next
<1>1. S!ReadName(fd)
  <2>1. CASE StreamNow[fd].items = << >>
    <3>1. StreamNow' = [StreamNow EXCEPT ![fd].items = StreamNow[fd].items]
      <4>1. PICK kind, items : StreamNow[fd] = [kind |-> kind, items |-> items]
        BY DEF StreamNow, StreamOf, ClosedStream
      <4>2. [StreamNow[fd] EXCEPT !.items = StreamNow[fd].items] = StreamNow[fd]
        BY <4>1
      <4>3. StreamNow = [g \in Openable |-> StreamNow[g]]
        BY DEF StreamNow
      <4>4. [StreamNow EXCEPT ![fd].items = StreamNow[fd].items] = StreamNow
        BY <4>2, <4>3
      <4>5. QED
        BY <2>1, <4>4
    <3>2. QED
      BY <2>1, <3>1 DEF S!ReadName, StreamNow, TakenNow, Openable, ClosedStream
  <2>2. CASE StreamNow[fd].items # << >>
    BY <2>2 DEF S!ReadName, StreamNow, TakenNow, Openable, ClosedStream
  <2>3. QED
    BY <2>1, <2>2
<1>2. QED
  BY <1>1 DEF S!Next, S!Succeed, OutcomeNow, Openable

LEMMA StreamsClose ==
    ASSUME OutcomeNow' = "ok", NEW fd \in Openable, StreamNow[fd] # ClosedStream, TakenNow' = << >>,
           StreamNow' = [StreamNow EXCEPT ![fd] = ClosedStream]
    PROVE  S!Next
<1>1. S!Close(fd)
  BY DEF S!Close, S!Closed, StreamNow, TakenNow, Openable, ClosedStream
<1>2. QED
  BY <1>1 DEF S!Next, S!Succeed, OutcomeNow, Openable

LEMMA StreamsOpen ==
    ASSUME OutcomeNow' = "ok", NEW fd \in Openable, StreamNow[fd] = ClosedStream, TakenNow' = << >>,
           NEW name \in Names, StreamNow' = [StreamNow EXCEPT ![fd] = StreamNamed(name)]
    PROVE  S!Next
<1>1. S!Open(name)
  BY DEF S!Open, S!Closed, StreamNow, TakenNow, Openable, ClosedStream
<1>2. QED
  BY <1>1 DEF S!Next, S!Succeed, OutcomeNow

LEMMA StreamsLoad ==
    ASSUME OutcomeNow' = "ok", NEW name \in Names, IsExecutable(name),
           TakenNow' = StreamNamed(name).items, StreamNow' = StreamNow
    PROVE  S!Next
<1>1. S!Load(name)
  BY DEF S!Load, StreamNow, TakenNow, Openable, ClosedStream
<1>2. QED
  BY <1>1 DEF S!Next, S!Succeed, OutcomeNow


-----------------------------------------------------------------------------
(***************************************************************************)
(* The kernel's part of the invariant, and what each system call makes of  *)
(* it.  Every call is a step of the streams.                               *)
(***************************************************************************)
\* An open descriptor, with its position.
OpenFile(f) ==
    /\ f.file_type \in {"rtc", "dir", "file"}
    /\ f.file_type = "file" => f.inode \in Disk /\ f.file_pos \in 0 .. Inodes[f.inode].length
    /\ f.file_type = "dir"  => f.file_pos \in 0 .. Len(Dentries)
    /\ f.file_type = "rtc"  => f.file_pos = 0

KernelOK == /\ table \in FdTables /\ Stdio \subseteq table.spaces
            /\ fd_array \in [Fds -> FdFiles]
            /\ result.ret \in Int
            /\ fd_array[0].file_type = "stdin" /\ fd_array[1].file_type = "stdout"
            /\ \A fd \in table.spaces \ Stdio : OpenFile(fd_array[fd])

LEMMA KernelTypes ==
    ASSUME KernelOK
    PROVE  TypeOK
<1>1. ASSUME NEW fd \in table.spaces \ Stdio
      PROVE  LET f == fd_array[fd]
             IN  /\ f.file_type # "none"
                 /\ CASE f.file_type = "file" -> f.file_pos <= Inodes[f.inode].length
                      [] f.file_type = "dir"  -> f.file_pos <= Len(Dentries)
                      [] OTHER                -> f.file_pos = 0
  <2> DEFINE f == fd_array[fd]
  <2>1. OpenFile(f)
    BY DEF KernelOK
  <2> HIDE DEF f
  <2>2. CASE f.file_type = "file"
    <3>1. Inodes[f.inode].length \in Nat
      BY <2>1, <2>2, InodeTypes DEF OpenFile
    <3>2. QED
      BY <2>1, <2>2, <3>1 DEF OpenFile, f
  <2>3. CASE f.file_type = "dir"
    BY <2>1, <2>3, DentriesSeq DEF OpenFile, f
  <2>4. CASE f.file_type = "rtc"
    BY <2>1, <2>4 DEF OpenFile, f
  <2>5. QED
    BY <2>1, <2>2, <2>3, <2>4 DEF OpenFile
<1>2. PositionsInside
  BY <1>1 DEF PositionsInside
<1>3. QED
  BY <1>1, <1>2 DEF TypeOK, KernelOK

LEMMA FdFacts ==
    /\ FD_ARRAY_SIZE \in Nat /\ FD_ARRAY_SIZE > 2
    /\ 0 \in Fds /\ 1 \in Fds /\ Stdio \subseteq Fds
    /\ \A fd \in Openable : fd \in Fds /\ fd \in Nat /\ fd >= 2
    /\ \A fd \in Fds : fd \in Openable <=> fd \notin Stdio
BY FdAssumption DEF Fds, Stdio, Openable

\* A call that only answers.
LEMMA AnswerKeeps ==
    ASSUME KernelOK, NEW r, Answer(r), r.ret \in Int
    PROVE  KernelOK' /\ StreamNow' = StreamNow
<1>1. result' = r /\ table' = table /\ fd_array' = fd_array
  BY DEF Answer
<1>2. QED
  BY <1>1 DEF KernelOK, StreamNow

LEMMA RefuseStep ==
    ASSUME KernelOK, Refuse
    PROVE  KernelOK' /\ result'.ret = -1 /\ S!Next
<1>1. Answer(Error) /\ Error.ret = -1 /\ result' = Error
  BY DEF Refuse, Answer, Error, Returned
<1>2. KernelOK' /\ StreamNow' = StreamNow
  BY <1>1, AnswerKeeps
<1>3. OutcomeNow' = "error" /\ TakenNow' = << >>
  BY <1>1 DEF OutcomeNow, TakenNow
<1>4. QED
  BY <1>1, <1>2, <1>3, StreamsFail

LEMMA ReturnStep ==
    ASSUME KernelOK, NEW n \in Int, Answer(Returned(n))
    PROVE  KernelOK' /\ result' = Returned(n) /\ S!Next
<1>1. Returned(n).ret = n /\ Returned(n).bytes = << >> /\ result' = Returned(n)
  BY DEF Answer, Returned
<1>2. KernelOK' /\ StreamNow' = StreamNow
  BY <1>1, AnswerKeeps
<1>3. TakenNow' = << >>
  BY <1>1 DEF TakenNow
<1>4. CASE n = -1
  <2>1. OutcomeNow' = "error"
    BY <1>1, <1>4 DEF OutcomeNow
  <2>2. QED
    BY <1>1, <1>2, <1>3, <2>1, StreamsFail
<1>5. CASE n # -1
  <2>1. OutcomeNow' = "ok"
    BY <1>1, <1>5 DEF OutcomeNow
  <2>2. QED
    BY <1>1, <1>2, <1>3, <2>1, StreamsElsewhere
<1>6. QED
  BY <1>4, <1>5

-----------------------------------------------------------------------------
\* open and close.
LEMMA OpenTypes ==
    ASSUME NEW f \in FdTables, NEW fd, FirstFree(f, fd)
    PROVE  /\ fd \in Openable /\ fd \notin f.spaces
           /\ AfterOpen(f, fd) \in FdTables /\ AfterOpen(f, fd).spaces = f.spaces \cup {fd}
BY FdAssumption DEF FirstFree, FreeSlots, FdTables, AfterOpen, Openable, Fds, Stdio

LEMMA CloseTypes ==
    ASSUME NEW f \in FdTables, NEW fd, ~CloseFails(f, fd)
    PROVE  /\ fd \in Openable /\ fd \in f.spaces
           /\ AfterClose(f, fd) \in FdTables /\ AfterClose(f, fd).spaces = f.spaces \ {fd}
BY FdAssumption DEF CloseFails, FdTables, AfterClose, Openable, Fds, Stdio

\* The first entry with a name: what a name that is found is a name of.
LEMMA LookupFinds ==
    ASSUME NEW name, Found(name)
    PROVE  /\ Lookup(name) \in 1 .. Len(Dentries)
           /\ Matches(name, Lookup(name))
<1> DEFINE T == {k \in 1 .. Len(Dentries) : Matches(name, k)}
<1>1. T \in SUBSET Nat /\ T # {}
  BY DEF Found
<1>2. PICK k \in T : \A m \in T : k <= m
  <2> HIDE DEF T
  <2>1. QED
    BY <1>1, LeastOf
<1>3. \A j \in 1 .. k - 1 : ~Matches(name, j)
  <2> SUFFICES ASSUME NEW j \in 1 .. k - 1, Matches(name, j) PROVE FALSE
    OBVIOUS
  <2>1. k \in Nat /\ k <= Len(Dentries) /\ Len(Dentries) \in Nat
    BY DentriesSeq
  <2>2. j \in T
    BY <2>1
  <2>3. QED
    BY <1>2, <2>1, <2>2
<1>4. \E l \in 1 .. Len(Dentries) : Matches(name, l) /\ \A j \in 1 .. l - 1 : ~Matches(name, j)
  BY <1>2, <1>3
<1>5. QED
  BY <1>4 DEF Lookup

\* A name is found where the entry has it: neither is longer than names may be.
LEMMA CutWhole ==
    ASSUME NEW s, IsString(s), NEW n \in Nat, Len(s) <= n
    PROVE  Cut(s, n) = s
<1> DEFINE S0 == ToSet(s)
<1>1. s \in Seq(S0)
  BY DEF IsString
<1> HIDE DEF S0
<1>2. Len(s) \in Nat /\ s = [i \in 1 .. Len(s) |-> s[i]]
  BY <1>1, SeqIs
<1>3. Lesser(Len(s), n) = Len(s)
  BY <1>2 DEF Lesser
<1>4. SubSeq(s, 1, Len(s)) = [i \in 1 .. Len(s) |-> s[i]]
  BY <1>2, SubSeqIs
<1>5. QED
  BY <1>2, <1>3, <1>4 DEF Cut

LEMMA LookupNamed ==
    ASSUME NEW name, IsString(name), Found(name)
    PROVE  /\ Dentries[Lookup(name)].name = name
           /\ name \in Names /\ Len(name) <= MAX_FILE_NAME_LENGTH
<1> DEFINE k == Lookup(name)
           n == MAX_FILE_NAME_LENGTH
           entry == Dentries[k].name
<1>1. k \in 1 .. Len(Dentries) /\ Matches(name, k)
  BY LookupFinds
<1> HIDE DEF k
<1>2. IsString(entry) /\ Len(entry) <= n /\ n \in Nat
  BY <1>1, NameAssumption
<1> HIDE DEF n
<1>3. Len(name) <= n /\ Cut(name, n) = Cut(entry, n)
  BY <1>1 DEF Matches, Alike, n
<1> HIDE DEF entry
<1>4. Cut(name, n) = name /\ Cut(entry, n) = entry
  BY <1>2, <1>3, CutWhole
<1>5. entry = name
  BY <1>3, <1>4
<1>6. QED
  BY <1>1, <1>3, <1>5 DEF Names, entry, k, n

LEMMA NewFileOK ==
    ASSUME NEW name, Found(name)
    PROVE  NewFile(name) \in FdFiles /\ OpenFile(NewFile(name))
<1> DEFINE d == Dentries[Lookup(name)]
           i == IF d.file_type = "file" THEN d.inode ELSE 0
<1>1. d.file_type \in {"rtc", "dir", "file"} /\ (d.file_type = "file" => d.inode \in 0 .. num_inodes - 1)
  BY LookupFinds, DentryAssumption
<1> HIDE DEF d
<1>2. i \in 0 .. num_inodes
  BY <1>1, CountAssumption
<1>3. NewFile(name) = [file_type |-> d.file_type, inode |-> i, file_pos |-> 0]
  BY DEF NewFile, File, d
<1>4. d.file_type = "file" => i \in Disk /\ 0 \in 0 .. Inodes[i].length
  BY <1>1, InodeTypes DEF Disk
<1>5. 0 \in 0 .. Len(Dentries)
  BY DentriesSeq
<1> HIDE DEF i
<1>6. QED
  BY <1>1, <1>2, <1>3, <1>4, <1>5 DEF OpenFile, FdFiles

LEMMA OpenStep ==
    ASSUME KernelOK, NEW name, IsString(name), Open(name)
    PROVE  /\ KernelOK' /\ S!Next
           /\ result'.ret \in Openable \ table.spaces
           /\ table'.spaces = table.spaces \cup {result'.ret}
           /\ fd_array' = [fd_array EXCEPT ![result'.ret] = NewFile(name)]
<1>1. PICK fd \in Fds : /\ FirstFree(table, fd)
                        /\ table' = AfterOpen(table, fd)
                        /\ fd_array' = [fd_array EXCEPT ![fd] = NewFile(name)]
                        /\ result' = Returned(fd)
  BY DEF Open
<1>2. Found(name)
  BY DEF Open
<1>3. /\ fd \in Openable /\ fd \notin table.spaces /\ fd >= 2 /\ fd \in Nat /\ fd \notin Stdio
      /\ table' \in FdTables /\ table'.spaces = table.spaces \cup {fd}
  BY <1>1, OpenTypes, FdFacts DEF KernelOK
<1>4. NewFile(name) \in FdFiles /\ OpenFile(NewFile(name))
  BY <1>2, NewFileOK
<1>5. result'.ret = fd /\ result'.bytes = << >>
  BY <1>1 DEF Returned
<1>6. KernelOK'
  <2>1. fd_array' \in [Fds -> FdFiles] /\ fd_array'[fd] = NewFile(name)
        /\ \A g \in Fds \ {fd} : fd_array'[g] = fd_array[g]
    BY <1>1, <1>4 DEF KernelOK
  <2>2. fd_array'[0].file_type = "stdin" /\ fd_array'[1].file_type = "stdout"
    BY <1>3, <2>1, FdFacts DEF KernelOK
  <2>3. ASSUME NEW g \in table'.spaces \ Stdio PROVE OpenFile(fd_array'[g])
    <3>1. CASE g = fd
      BY <1>4, <2>1, <3>1
    <3>2. CASE g # fd
      <4>1. g \in table.spaces \ Stdio /\ g \in Fds
        BY <1>3, <2>3, <3>2 DEF KernelOK, FdTables
      <4>2. QED
        BY <2>1, <3>2, <4>1 DEF KernelOK
    <3>3. QED
      BY <3>1, <3>2
  <2>4. result'.ret \in Int /\ Stdio \subseteq table'.spaces
    BY <1>3, <1>5 DEF KernelOK
  <2>5. QED
    BY <1>3, <2>1, <2>2, <2>3, <2>4 DEF KernelOK
<1>7. S!Next
  <2>1. OutcomeNow' = "ok" /\ TakenNow' = << >>
    BY <1>3, <1>5 DEF OutcomeNow, TakenNow
  <2>2. StreamNow[fd] = ClosedStream
    BY <1>3 DEF StreamNow
  <2>3. name \in Names /\ StreamNamed(name) = StreamOf(NewFile(name))
    BY <1>2, LookupNamed DEF StreamNamed, Opened
  <2>4. StreamNow' = [StreamNow EXCEPT ![fd] = StreamNamed(name)]
    <3>1. ASSUME NEW g \in Openable
          PROVE  (IF g \in table'.spaces THEN StreamOf(fd_array'[g]) ELSE ClosedStream) =
                    IF g = fd THEN StreamOf(NewFile(name))
                    ELSE IF g \in table.spaces THEN StreamOf(fd_array[g]) ELSE ClosedStream
      <4>1. g \in Fds
        BY FdFacts
      <4>2. fd_array'[g] = IF g = fd THEN NewFile(name) ELSE fd_array[g]
        BY <1>1, <4>1 DEF KernelOK
      <4>3. QED
        BY <1>3, <4>2
    <3>2. QED
      BY <1>3, <2>3, <3>1 DEF StreamNow
  <2>5. QED
    BY <1>3, <2>1, <2>2, <2>3, <2>4, StreamsOpen
<1>8. QED
  BY <1>1, <1>3, <1>5, <1>6, <1>7

LEMMA OpenFailingStep ==
    ASSUME KernelOK, NEW name, OpenFailing(name)
    PROVE  /\ KernelOK' /\ S!Next
           /\ result'.ret = -1 /\ UNCHANGED <<table, fd_array>>
<1>1. Refuse /\ UNCHANGED <<table, fd_array>>
  BY DEF OpenFailing, Refuse, Answer
<1>2. QED
  BY <1>1, RefuseStep


LEMMA CloseStep ==
    ASSUME KernelOK, NEW fd, Close(fd)
    PROVE  /\ KernelOK' /\ S!Next
           /\ \/ result'.ret = -1 /\ CloseFails(table, fd) /\ UNCHANGED <<table, fd_array>>
              \/ /\ result'.ret = 0 /\ fd \in Openable /\ fd \in table.spaces
                 /\ table'.spaces = table.spaces \ {fd}
                 /\ fd_array' = [fd_array EXCEPT ![fd] = NoFile]
<1>1. CASE CloseFails(table, fd)
  <2>1. Refuse /\ UNCHANGED <<table, fd_array>>
    BY <1>1 DEF Close, Refuse, Answer
  <2>2. QED
    BY <1>1, <2>1, RefuseStep
<1>2. CASE ~CloseFails(table, fd)
  <2>1. /\ result' = Returned(0) /\ table' = AfterClose(table, fd)
        /\ fd_array' = [fd_array EXCEPT ![fd] = NoFile]
    BY <1>2 DEF Close
  <2>2. /\ fd \in Openable /\ fd \in table.spaces /\ fd \in Fds /\ fd >= 2 /\ fd \in Nat
        /\ fd \notin Stdio
        /\ table' \in FdTables /\ table'.spaces = table.spaces \ {fd}
    BY <1>2, <2>1, CloseTypes, FdFacts DEF KernelOK
  <2>3. result'.ret = 0 /\ result'.bytes = << >>
    BY <2>1 DEF Returned
  <2>4. fd_array' \in [Fds -> FdFiles] /\ \A g \in Fds \ {fd} : fd_array'[g] = fd_array[g]
    <3>1. NoFile \in FdFiles
      BY CountAssumption DEF NoFile, File, FdFiles
    <3>2. QED
      BY <2>1, <2>2, <3>1 DEF KernelOK
  <2>5. KernelOK'
    <3>1. fd_array'[0].file_type = "stdin" /\ fd_array'[1].file_type = "stdout"
      BY <2>2, <2>4, FdFacts DEF KernelOK
    <3>2. \A g \in table'.spaces \ Stdio : OpenFile(fd_array'[g])
      BY <2>2, <2>4 DEF KernelOK, FdTables
    <3>3. Stdio \subseteq table'.spaces
      BY <2>2 DEF KernelOK
    <3>4. QED
      BY <2>2, <2>3, <2>4, <3>1, <3>2, <3>3 DEF KernelOK
  <2>6. S!Next
    <3>1. OutcomeNow' = "ok" /\ TakenNow' = << >>
      BY <2>3 DEF OutcomeNow, TakenNow
    <3>2. StreamNow[fd] = StreamOf(fd_array[fd]) /\ OpenFile(fd_array[fd])
      BY <2>2 DEF StreamNow, KernelOK
    <3>3. StreamNow[fd] # ClosedStream
      BY <3>2 DEF StreamOf, ClosedStream, OpenFile
    <3>4. ASSUME NEW g \in Openable
          PROVE  (IF g \in table'.spaces THEN StreamOf(fd_array'[g]) ELSE ClosedStream) =
                    IF g = fd THEN ClosedStream
                    ELSE IF g \in table.spaces THEN StreamOf(fd_array[g]) ELSE ClosedStream
      <4>1. g \in Fds
        BY FdFacts
      <4>2. QED
        BY <2>2, <2>4, <4>1
    <3>5. StreamNow' = [StreamNow EXCEPT ![fd] = ClosedStream]
      BY <2>2, <3>4 DEF StreamNow
    <3>6. QED
      BY <2>2, <3>1, <3>3, <3>5, StreamsClose
  <2>7. QED
    BY <2>1, <2>2, <2>3, <2>5, <2>6
<1>3. QED
  BY <1>1, <1>2

-----------------------------------------------------------------------------
\* What reads give of a file, and of a directory.
At_(f, pos) == [file_type |-> f.file_type, inode |-> f.inode, file_pos |-> pos]

LEMMA FileTypes ==
    ASSUME KernelOK, NEW fd \in Fds, fd \in table.spaces,
           NEW type \in {"dir", "file", "rtc"}, Reads(fd, type)
    PROVE  /\ fd \in Openable /\ fd \in table.spaces \ Stdio
           /\ fd_array[fd] \in FdFiles /\ fd_array[fd].file_type = type
           /\ OpenFile(fd_array[fd])
           /\ StreamNow[fd] = StreamOf(fd_array[fd])
           /\ At_(fd_array[fd], fd_array[fd].file_pos) = fd_array[fd]
<1>1. fd_array[fd].file_type = type /\ fd_array[fd] \in FdFiles
  BY DEF Reads, KernelOK
<1>2. fd \notin Stdio
  BY <1>1 DEF Stdio, KernelOK
<1>3. At_(fd_array[fd], fd_array[fd].file_pos) = fd_array[fd]
  BY <1>1 DEF At_, FdFiles
<1>4. QED
  BY <1>1, <1>2, <1>3, FdFacts DEF KernelOK, StreamNow

\* A step that moves the position of one descriptor.
LEMMA PositionMoves ==
    ASSUME KernelOK, NEW fd \in Openable, fd \in table.spaces, NEW pos \in Nat,
           OpenFile(At_(fd_array[fd], pos)),
           table' = table, fd_array' = [fd_array EXCEPT ![fd] = At_(fd_array[fd], pos)],
           result'.ret \in Int
    PROVE  /\ KernelOK'
           /\ StreamNow' = [StreamNow EXCEPT ![fd] = StreamOf(At_(fd_array[fd], pos))]
<1> DEFINE f2 == At_(fd_array[fd], pos)
<1>1. fd \in Fds /\ fd \notin Stdio /\ fd_array[fd] \in FdFiles
  BY FdFacts DEF KernelOK
<1>2. f2 \in FdFiles /\ OpenFile(f2)
  BY <1>1 DEF At_, FdFiles
<1> HIDE DEF f2
<1>3. fd_array' \in [Fds -> FdFiles] /\ fd_array'[fd] = f2
      /\ \A g \in Fds \ {fd} : fd_array'[g] = fd_array[g]
  BY <1>1, <1>2 DEF KernelOK, f2
<1>4. KernelOK'
  <2>1. fd_array'[0].file_type = "stdin" /\ fd_array'[1].file_type = "stdout"
    BY <1>1, <1>3, FdFacts DEF KernelOK, Stdio
  <2>2. \A g \in table'.spaces \ Stdio : OpenFile(fd_array'[g])
    BY <1>1, <1>2, <1>3 DEF KernelOK, FdTables
  <2>3. QED
    BY <1>3, <2>1, <2>2 DEF KernelOK
<1>5. ASSUME NEW g \in Openable
      PROVE  (IF g \in table'.spaces THEN StreamOf(fd_array'[g]) ELSE ClosedStream) =
                IF g = fd THEN StreamOf(f2)
                ELSE IF g \in table.spaces THEN StreamOf(fd_array[g]) ELSE ClosedStream
  <2>1. g \in Fds
    BY FdFacts
  <2>2. QED
    BY <1>3, <2>1
<1>6. StreamNow' = [StreamNow EXCEPT ![fd] = StreamOf(f2)]
  BY <1>5 DEF StreamNow
<1>7. QED
  BY <1>4, <1>6 DEF f2

FileGives(fd, n) ==
    LET f    == fd_array[fd]
        left == Inodes[f.inode].length - f.file_pos
    IN  /\ table' = table
        /\ \/ result'.ret = -1 /\ HasBad(f.inode) /\ fd_array' = fd_array
           \/ \E m \in 0 .. left :
                 /\ result'.ret = m /\ result'.bytes = Run(f.inode, f.file_pos, m)
                 /\ \A i \in 1 .. m : ~Bad(ByteAt(f.inode, f.file_pos + i - 1))
                 /\ m = IF n < 0 \/ n > left THEN left ELSE n
                 /\ fd_array' = [fd_array EXCEPT ![fd] = At_(f, f.file_pos + m)]

LEMMA FileReadGives ==
    ASSUME KernelOK, NEW fd \in Fds, NEW n \in Asked, FileRead(fd, n)
    PROVE  FileGives(fd, n)
<1> DEFINE f == fd_array[fd]
           left == Inodes[f.inode].length - f.file_pos
           length == Lesser(left, Unsigned(n))
           read == ReadData(f.inode, f.file_pos, length)
<1>1. /\ Reads(fd, "file") /\ table' = table
      /\ IF left <= 0 THEN result' = Returned(0) /\ fd_array' = fd_array
         ELSE /\ result' = read
              /\ fd_array' = IF read.ret = -1 THEN fd_array
                             ELSE [fd_array EXCEPT ![fd].file_pos = @ + read.ret]
  BY DEF FileRead
<1>2. fd \in table.spaces
  BY <1>1 DEF Reads
<1>3. f \in FdFiles /\ f.file_type = "file" /\ OpenFile(f) /\ At_(f, f.file_pos) = f
  BY <1>1, <1>2, FileTypes
<1>4. f.inode \in Disk /\ f.file_pos \in 0 .. Inodes[f.inode].length /\ fd_array \in [Fds -> FdFiles]
  BY <1>3 DEF OpenFile, KernelOK
<1>5. Inodes[f.inode].length \in Nat /\ Inodes[f.inode].length <= Capacity /\ Capacity \in Nat
      /\ left \in Nat /\ left <= Capacity /\ f.file_pos \in Nat
      /\ f.file_pos + left = Inodes[f.inode].length
  BY <1>4, InodeTypes, CapacityNat
<1>a. n \in Int
  BY UnsignedIs
<1> HIDE DEF left
<1>6. CASE left = 0
  <2>1. result'.ret = 0 /\ result'.bytes = << >> /\ fd_array' = fd_array
    BY <1>1, <1>5, <1>6 DEF Returned
  <2>2. Run(f.inode, f.file_pos, 0) = << >>
    BY DEF Run
  <2>3. f.file_pos + 0 = f.file_pos
    BY <1>5
  <2>4. fd_array' = [fd_array EXCEPT ![fd] = At_(f, f.file_pos + 0)]
    BY <1>3, <1>4, <2>1, <2>3
  <2>5. 0 \in 0 .. left /\ 0 = IF n < 0 \/ n > left THEN left ELSE n
    BY <1>5, <1>6, <1>a
  <2>6. \A i \in 1 .. 0 : ~Bad(ByteAt(f.inode, f.file_pos + i - 1))
    OBVIOUS
  <2>7. result'.bytes = Run(f.inode, f.file_pos, 0) /\ table' = table
    BY <1>1, <2>1, <2>2
  <2>8. QED
    BY <2>1, <2>4, <2>5, <2>6, <2>7, Zenon DEF FileGives, left
<1>7. CASE left # 0
  <2>1. /\ length \in 0 .. left
        /\ n < 0 \/ n > left => length = left
        /\ ~(n < 0 \/ n > left) => length = n
    BY <1>5, LengthTaken
  <2>2. result' = read /\ fd_array' = IF read.ret = -1 THEN fd_array
                                      ELSE [fd_array EXCEPT ![fd].file_pos = @ + read.ret]
    BY <1>1, <1>5, <1>7
  <2> HIDE DEF length
  <2>3. IsReadOf(read, f.inode, f.file_pos, length)
    <3>1. length \in Nat /\ f.file_pos + length <= Inodes[f.inode].length
      BY <1>5, <2>1
    <3>2. QED
      BY <1>4, <1>5, <3>1, ReadDataGives
  <2> HIDE DEF read
  <2>4. CASE read.ret = -1 /\ HasBad(f.inode)
    <3>1. result'.ret = -1
      BY <2>2, <2>4
    <3>2. fd_array' = fd_array /\ table' = table /\ HasBad(f.inode)
      BY <1>1, <2>2, <2>4
    <3>3. QED
      BY <3>1, <3>2, Zenon DEF FileGives
  <2>5. CASE /\ read.ret = length /\ read.bytes = Run(f.inode, f.file_pos, length)
             /\ \A i \in 1 .. length : ~Bad(ByteAt(f.inode, f.file_pos + i - 1))
    <3>1. length # -1 /\ read.ret # -1
      BY <2>1, <2>5
    <3>2. [f EXCEPT !.file_pos = @ + length] = At_(f, f.file_pos + length)
      BY <1>3 DEF At_, FdFiles
    <3>3. fd_array' = [fd_array EXCEPT ![fd] = At_(f, f.file_pos + length)]
      BY <2>2, <2>5, <3>1, <3>2
    <3>4. length = IF n < 0 \/ n > left THEN left ELSE n
      BY <2>1
    <3>5. QED
      BY <1>1, <2>1, <2>2, <2>5, <3>3, <3>4 DEF FileGives, left
  <2>6. QED
    BY <2>3, <2>4, <2>5 DEF IsReadOf
<1>8. QED
  BY <1>6, <1>7


\* A read of a file is a step of its stream.
LEMMA FileReadStep ==
    ASSUME KernelOK, NEW fd \in Fds, NEW n \in Asked, FileRead(fd, n)
    PROVE  KernelOK' /\ S!Next
<1> DEFINE f == fd_array[fd]
           left == Inodes[f.inode].length - f.file_pos
<1>1. FileGives(fd, n) /\ Reads(fd, "file") /\ fd \in table.spaces
  BY FileReadGives DEF FileRead, Reads
<1>2. /\ fd \in Openable /\ f \in FdFiles /\ f.file_type = "file" /\ OpenFile(f)
      /\ StreamNow[fd] = StreamOf(f)
  BY <1>1, FileTypes
<1>3. f.inode \in Disk /\ f.file_pos \in 0 .. Inodes[f.inode].length
  BY <1>2 DEF OpenFile
<1>4. Inodes[f.inode].length \in Nat /\ left \in Nat /\ f.file_pos \in Nat
      /\ f.file_pos + left = Inodes[f.inode].length
  BY <1>3, InodeTypes
<1>a. n \in Int
  BY UnsignedIs
<1> DEFINE items == Run(f.inode, f.file_pos, left)
<1>5. StreamNow[fd] = [kind |-> "file", items |-> items]
  <2>1. From(Bytes[f.inode], f.file_pos) = items
    BY <1>3, FileStream
  <2>2. QED
    BY <1>2, <2>1 DEF StreamOf
<1>6. CASE result'.ret = -1 /\ HasBad(f.inode) /\ fd_array' = fd_array
  <2>1. Refuse \/ (KernelOK' /\ StreamNow' = StreamNow)
    BY <1>1, <1>6 DEF KernelOK, StreamNow, FileGives
  <2>2. KernelOK' /\ StreamNow' = StreamNow
    <3>1. table' = table /\ fd_array' = fd_array /\ result'.ret \in Int
      BY <1>1, <1>6 DEF FileGives
    <3>2. QED
      BY <3>1 DEF KernelOK, StreamNow
  <2>3. OutcomeNow' = "error" /\ TakenNow' = << >>
    BY <1>6 DEF OutcomeNow, TakenNow
  <2>4. QED
    BY <2>2, <2>3, StreamsFail
<1>7. ASSUME NEW m \in 0 .. left,
             result'.ret = m, result'.bytes = Run(f.inode, f.file_pos, m),
             \A i \in 1 .. m : ~Bad(ByteAt(f.inode, f.file_pos + i - 1)),
             m = IF n < 0 \/ n > left THEN left ELSE n,
             fd_array' = [fd_array EXCEPT ![fd] = At_(f, f.file_pos + m)]
      PROVE  KernelOK' /\ S!Next
  <2>1. f.file_pos + m \in 0 .. Inodes[f.inode].length /\ m \in Nat /\ m # -1 /\ left - m \in Nat
        /\ Inodes[f.inode].length - (f.file_pos + m) = left - m
    BY <1>4
  <2>2. OpenFile(At_(f, f.file_pos + m)) /\ table' = table
    BY <1>1, <1>2, <1>3, <2>1 DEF OpenFile, At_, FileGives
  <2>3. KernelOK' /\ StreamNow' = [StreamNow EXCEPT ![fd] = StreamOf(At_(f, f.file_pos + m))]
    <3>1. f.file_pos + m \in Nat /\ result'.ret \in Int
      BY <1>4, <1>7, <2>1
    <3> DEFINE pos == f.file_pos + m
    <3>2. fd_array' = [fd_array EXCEPT ![fd] = At_(fd_array[fd], pos)]
      BY <1>7
    <3>3. OpenFile(At_(fd_array[fd], pos))
      BY <2>2
    <3>4. pos \in Nat
      BY <3>1
    <3> HIDE DEF pos
    <3>5. KernelOK' /\ StreamNow' = [StreamNow EXCEPT ![fd] = StreamOf(At_(fd_array[fd], pos))]
      BY <1>1, <1>2, <2>2, <3>1, <3>2, <3>3, <3>4, PositionMoves
    <3>6. QED
      BY <3>5 DEF pos
  <2>4. OutcomeNow' = "ok" /\ TakenNow' = Run(f.inode, f.file_pos, m)
    BY <1>7, <2>1 DEF OutcomeNow, TakenNow
  <2>5. /\ Len(items) = left /\ Len(Run(f.inode, f.file_pos, m)) = m
        /\ SubSeq(items, 1, m) = Run(f.inode, f.file_pos, m)
        /\ SubSeq(items, m + 1, left) = Run(f.inode, f.file_pos + m, left - m)
    <3> DEFINE inode == f.inode
               pos == f.file_pos
    <3>1. m \in Nat /\ m \in 0 .. m /\ pos \in Nat /\ left \in Nat /\ m \in 0 .. left
      BY <1>4, <2>1
    <3> HIDE DEF inode, pos, left
    <3>2. Len(Run(inode, pos, m)) = m
      BY <3>1, RunParts
    <3>3. /\ Len(Run(inode, pos, left)) = left
          /\ SubSeq(Run(inode, pos, left), 1, m) = Run(inode, pos, m)
          /\ SubSeq(Run(inode, pos, left), m + 1, left) = Run(inode, pos + m, left - m)
      BY <3>1, RunParts
    <3>4. QED
      BY <3>2, <3>3 DEF inode, pos
  <2>6. TakenNow' = S!Part(items, n)
    <3>1. CASE n < 0 \/ n > left
      <4>1. m = left
        BY <1>7, <3>1
      <4>2. QED
        BY <2>4, <2>5, <3>1, <4>1 DEF S!Part
    <3>2. CASE ~(n < 0 \/ n > left)
      <4>1. m = n
        BY <1>7, <3>2
      <4>2. QED
        BY <2>4, <2>5, <3>2, <4>1 DEF S!Part
    <3>3. QED
      BY <3>1, <3>2
  <2>7. \A i \in 1 .. Len(TakenNow') : ~Bad(TakenNow'[i])
    BY <1>7, <2>4, <2>5 DEF Run
  <2>8. StreamOf(At_(f, f.file_pos + m)) = [kind |-> "file", items |-> SubSeq(items, m + 1, left)]
    <3>1. From(Bytes[f.inode], f.file_pos + m) =
             Run(f.inode, f.file_pos + m, Inodes[f.inode].length - (f.file_pos + m))
      BY <1>3, <2>1, FileStream
    <3>2. From(Bytes[f.inode], f.file_pos + m) = SubSeq(items, m + 1, left)
      BY <2>1, <2>5, <3>1
    <3>3. QED
      BY <1>2, <3>2 DEF StreamOf, At_
  <2> HIDE DEF items
  <2>9. StreamNow' = [StreamNow EXCEPT ![fd].items = SubSeq(items, m + 1, left)]
    <3> DEFINE after == SubSeq(items, m + 1, left)
    <3>1. StreamNow' = [StreamNow EXCEPT ![fd] = [kind |-> "file", items |-> after]]
      BY <2>3, <2>8
    <3> HIDE DEF after
    <3>2. [StreamNow[fd] EXCEPT !.items = after] = [kind |-> "file", items |-> after]
      BY <1>5
    <3>3. [StreamNow EXCEPT ![fd].items = after] = [StreamNow EXCEPT ![fd] = [kind |-> "file", items |-> after]]
      BY <3>2
    <3>4. QED
      BY <3>1, <3>3 DEF after
  <2>10. StreamNow[fd].items = items /\ StreamNow[fd].kind = "file"
         /\ Len(TakenNow') = m
    BY <1>5, <2>4, <2>5
  <2>11. StreamNow' = [StreamNow EXCEPT ![fd].items =
                          SubSeq(StreamNow[fd].items, Len(TakenNow') + 1, Len(StreamNow[fd].items))]
    BY <2>5, <2>9, <2>10
  <2>12. TakenNow' = S!Part(StreamNow[fd].items, n)
    BY <2>6, <2>10
  <2>13. QED
    BY <1>2, <2>3, <2>4, <2>7, <2>10, <2>11, <2>12, StreamsReadFile
<1>8. QED
  BY <1>1, <1>6, <1>7 DEF FileGives


DirectoryGives(fd, n) ==
    LET f    == fd_array[fd]
        name == Dentries[f.file_pos + 1].name
    IN  /\ table' = table
        /\ \/ /\ f.file_pos = Len(Dentries)
              /\ result' = Returned(0) /\ fd_array' = fd_array
           \/ /\ f.file_pos \in 0 .. Len(Dentries) - 1
              /\ result'.ret = Len(name) /\ result'.bytes = Cut(name, n)
              /\ fd_array' = [fd_array EXCEPT ![fd] = At_(f, f.file_pos + 1)]

LEMMA DirectoryReadGives ==
    ASSUME KernelOK, NEW fd \in Fds, NEW n \in Int, DirectoryRead(fd, n)
    PROVE  DirectoryGives(fd, n)
<1> DEFINE f == fd_array[fd]
           name == Dentries[f.file_pos + 1].name
<1>1. /\ Reads(fd, "dir") /\ table' = table
      /\ IF f.file_pos >= Len(Dentries) THEN result' = Returned(0) /\ fd_array' = fd_array
         ELSE /\ result' = [ret |-> Len(name), bytes |-> Cut(name, n)]
              /\ fd_array' = [fd_array EXCEPT ![fd].file_pos = @ + 1]
  BY DEF DirectoryRead
<1>2. fd \in table.spaces
  BY <1>1 DEF Reads
<1>3. f \in FdFiles /\ f.file_type = "dir" /\ OpenFile(f)
  BY <1>1, <1>2, FileTypes
<1>4. f.file_pos \in 0 .. Len(Dentries) /\ Len(Dentries) \in Nat
  BY <1>3, DentriesSeq DEF OpenFile
<1>5. CASE f.file_pos >= Len(Dentries)
  <2>1. f.file_pos = Len(Dentries) /\ result' = Returned(0) /\ fd_array' = fd_array /\ table' = table
    BY <1>1, <1>4, <1>5
  <2>2. QED
    BY <2>1, Zenon DEF DirectoryGives
<1>6. CASE ~(f.file_pos >= Len(Dentries))
  <2>1. f.file_pos \in 0 .. Len(Dentries) - 1
    BY <1>4, <1>6
  <2>2. result'.ret = Len(name) /\ result'.bytes = Cut(name, n) /\ table' = table
    BY <1>1, <1>6
  <2>3. [f EXCEPT !.file_pos = @ + 1] = At_(f, f.file_pos + 1)
    BY <1>3 DEF At_, FdFiles
  <2>4. fd_array' = [fd_array EXCEPT ![fd] = At_(f, f.file_pos + 1)]
    BY <1>1, <1>6, <2>3
  <2>5. QED
    BY <2>1, <2>2, <2>4, Zenon DEF DirectoryGives
<1>7. QED
  BY <1>5, <1>6

LEMMA PartIsCut ==
    ASSUME NEW s, IsString(s), NEW n \in Nat
    PROVE  /\ S!Part(s, n) = Cut(s, n)
           /\ IsString(Cut(s, n)) /\ Len(Cut(s, n)) \in Nat /\ Len(Cut(s, n)) <= n
<1> DEFINE S0 == ToSet(s)
<1>1. s \in Seq(S0)
  BY DEF IsString
<1> HIDE DEF S0
<1>2. Len(s) \in Nat /\ \A i \in 1 .. Len(s) : s[i] \in S0
  BY <1>1
<1> DEFINE m == Lesser(Len(s), n)
           c == Cut(s, n)
<1>3. m \in Nat /\ m <= n /\ m <= Len(s)
  BY <1>2 DEF Lesser
<1>4. c = [i \in 1 .. m |-> s[i]]
  <2> HIDE DEF m
  <2>1. SubSeq(s, 1, m) = [i \in 1 .. m |-> s[i]]
    BY <1>3, SubSeqIs
  <2>2. QED
    BY <2>1 DEF Cut, m
<1>5. S!Part(s, n) = c
  <2>1. CASE n > Len(s)
    <3>1. c = s
      BY <1>2, <2>1, CutWhole
    <3>2. QED
      BY <2>1, <3>1 DEF S!Part
  <2>2. CASE ~(n > Len(s))
    <3>1. m = n
      BY <1>2, <2>2 DEF Lesser
    <3>2. QED
      BY <1>2, <2>2, <3>1 DEF S!Part, Cut
  <2>3. QED
    BY <2>1, <2>2
<1> HIDE DEF m, c
<1>6. Len(c) = m /\ DOMAIN c = 1 .. m
  BY <1>3, <1>4
<1>7. IsString(c)
  <2>1. ToSet(c) = {c[i] : i \in 1 .. m}
    BY <1>6 DEF ToSet
  <2>2. c \in [1 .. m -> ToSet(c)]
    BY <1>4, <2>1
  <2>3. QED
    BY <1>3, <2>2, FunctionIsSeq DEF IsString
<1>8. QED
  BY <1>3, <1>5, <1>6, <1>7 DEF c

LEMMA AskedSizes == ReadSizes \subseteq Asked /\ 0 .. BUFSIZE \subseteq Asked /\ 1 \in Asked
                    /\ READ_SIZE \in Asked /\ CAT_SIZE \in Asked /\ SBUFSIZE - 1 \in Asked
                    /\ BUFSIZE \in Nat /\ BUFSIZE >= 1
                    /\ READ_SIZE \in Nat /\ CAT_SIZE \in Nat /\ SBUFSIZE - 1 \in Nat
                    /\ MAX_FILE_NAME_LENGTH \in Nat
                    /\ MAX_FILE_NAME_LENGTH <= CAT_SIZE /\ MAX_FILE_NAME_LENGTH <= SBUFSIZE - 1
<1>1. WORD \in Nat /\ MAX_FILE_NAME_LENGTH \in Nat
  BY WordAssumption, NameAssumption
<1>2. /\ BUFSIZE \in Nat /\ BUFSIZE >= 1 /\ CAT_SIZE \in Nat /\ SBUFSIZE - 1 \in Nat
      /\ MAX_FILE_NAME_LENGTH <= CAT_SIZE /\ MAX_FILE_NAME_LENGTH <= SBUFSIZE - 1
  BY <1>1, BufferAssumption
<1>3. READ_SIZE \in Nat
  BY DEF READ_SIZE
<1>4. QED
  BY <1>1, <1>2, <1>3 DEF Asked

\* A read of a directory is a step of its stream.
LEMMA DirectoryReadStep ==
    ASSUME KernelOK, NEW fd \in Fds, NEW n \in Asked, n >= 0, DirectoryRead(fd, n)
    PROVE  KernelOK' /\ S!Next
<1> DEFINE f == fd_array[fd]
           pos == f.file_pos
           name == Dentries[pos + 1].name
<1>0. n \in Nat
  BY UnsignedIs
<1>1. DirectoryGives(fd, n) /\ Reads(fd, "dir") /\ fd \in table.spaces
  BY <1>0, DirectoryReadGives DEF DirectoryRead, Reads
<1>2. /\ fd \in Openable /\ f \in FdFiles /\ f.file_type = "dir" /\ OpenFile(f)
      /\ StreamNow[fd] = StreamOf(f)
  BY <1>1, FileTypes
<1>3. pos \in 0 .. Len(Dentries) /\ Len(Dentries) \in Nat
  BY <1>2, DentriesSeq DEF OpenFile
<1>4. StreamNow[fd] = [kind |-> "dir", items |-> NamesFrom(pos)]
  <2>1. From(NamesInOrder, pos) = NamesFrom(pos)
    BY <1>3, DirectoryStream
  <2>2. QED
    BY <1>2, <2>1 DEF StreamOf
<1>5. ASSUME pos = Len(Dentries), result' = Returned(0), fd_array' = fd_array
      PROVE  KernelOK' /\ S!Next
  <2>1. result'.ret = 0 /\ result'.bytes = << >> /\ table' = table
    BY <1>1, <1>5 DEF Returned, DirectoryGives
  <2>2. KernelOK' /\ StreamNow' = StreamNow
    BY <1>5, <2>1 DEF KernelOK, StreamNow
  <2>3. OutcomeNow' = "ok" /\ TakenNow' = << >>
    BY <2>1 DEF OutcomeNow, TakenNow
  <2>4. QED
    BY <2>2, <2>3, StreamsElsewhere
<1>6. ASSUME pos \in 0 .. Len(Dentries) - 1,
             result'.ret = Len(name), result'.bytes = Cut(name, n),
             fd_array' = [fd_array EXCEPT ![fd] = At_(f, pos + 1)]
      PROVE  KernelOK' /\ S!Next
  <2>1. pos \in Nat /\ pos < Len(Dentries) /\ pos + 1 \in 1 .. Len(Dentries) /\ pos + 1 \in 0 .. Len(Dentries)
    BY <1>3, <1>6
  <2>2. IsString(name) /\ Len(name) \in Nat
    BY <2>1, NameAssumption
  <2>3. OpenFile(At_(f, pos + 1)) /\ table' = table
    BY <1>1, <1>2, <2>1 DEF OpenFile, At_, DirectoryGives
  <2>4. KernelOK' /\ StreamNow' = [StreamNow EXCEPT ![fd] = StreamOf(At_(f, pos + 1))]
    <3> DEFINE next == pos + 1
    <3>1. next \in Nat /\ result'.ret \in Int /\ fd_array' = [fd_array EXCEPT ![fd] = At_(fd_array[fd], next)]
          /\ OpenFile(At_(fd_array[fd], next))
      BY <1>6, <2>1, <2>2, <2>3
    <3> HIDE DEF next
    <3>2. KernelOK' /\ StreamNow' = [StreamNow EXCEPT ![fd] = StreamOf(At_(fd_array[fd], next))]
      BY <1>1, <1>2, <2>3, <3>1, PositionMoves
    <3>3. QED
      BY <3>2 DEF next
  <2>5. OutcomeNow' = "ok" /\ TakenNow' = Cut(name, n)
    BY <1>6, <2>2 DEF OutcomeNow, TakenNow
  <2>6. /\ NamesFrom(pos) # << >> /\ Head(NamesFrom(pos)) = name
        /\ Tail(NamesFrom(pos)) = NamesFrom(pos + 1)
    BY <1>3, <2>1, DirectoryStream
  <2>7. StreamOf(At_(f, pos + 1)) = [kind |-> "dir", items |-> NamesFrom(pos + 1)]
    <3>1. From(NamesInOrder, pos + 1) = NamesFrom(pos + 1)
      BY <2>1, DirectoryStream
    <3>2. QED
      BY <1>2, <3>1 DEF StreamOf, At_
  <2>8. S!Part(name, n) = Cut(name, n)
    <3> HIDE DEF name
    <3>1. QED
      BY <1>0, <2>2, PartIsCut
  <2> HIDE DEF name
  <2>9. StreamNow[fd].items = NamesFrom(pos) /\ StreamNow[fd].kind = "dir"
    BY <1>4
  <2> DEFINE after == NamesFrom(pos + 1)
  <2>10. StreamNow' = [StreamNow EXCEPT ![fd].items = Tail(StreamNow[fd].items)]
    <3>1. StreamNow' = [StreamNow EXCEPT ![fd] = [kind |-> "dir", items |-> after]]
      BY <2>4, <2>7
    <3>2. Tail(StreamNow[fd].items) = after
      BY <2>6, <2>9
    <3> HIDE DEF after
    <3>3. [StreamNow[fd] EXCEPT !.items = after] = [kind |-> "dir", items |-> after]
      BY <1>4
    <3>4. [StreamNow EXCEPT ![fd].items = after] = [StreamNow EXCEPT ![fd] = [kind |-> "dir", items |-> after]]
      BY <3>3
    <3>5. QED
      BY <3>1, <3>2, <3>4
  <2>11. StreamNow[fd].items # << >> /\ TakenNow' = S!Part(Head(StreamNow[fd].items), n)
    BY <2>5, <2>6, <2>8, <2>9
  <2>12. QED
    BY <1>2, <2>4, <2>5, <2>9, <2>10, <2>11, StreamsReadName
<1>7. QED
  BY <1>1, <1>5, <1>6 DEF DirectoryGives


-----------------------------------------------------------------------------
\* Other reads and writes.
LEMMA TerminalReadStep ==
    ASSUME KernelOK, NEW fd, NEW n \in Asked, TerminalRead(fd, n)
    PROVE  KernelOK' /\ S!Next
<1>0. n \in Int
  BY UnsignedIs
<1> DEFINE m == IF n < 0 THEN 0 ELSE n
<1>1. PICK line \in Typed : Answer([ret |-> Len(Cut(line, m)), bytes |-> Cut(line, m)])
  BY DEF TerminalRead
<1>2. IsString(line) /\ m \in Nat
  BY <1>0, TypedAssumption
<1>3. n >= 0 => m = n
  BY <1>0
<1>4. n < 0 => m = 0
  BY <1>0
<1> HIDE DEF m
<1> DEFINE c == Cut(line, m)
<1>5. IsString(c) /\ Len(c) \in Nat /\ S!Part(line, m) = c /\ Len(c) <= m
  BY <1>2, PartIsCut
<1> HIDE DEF c
<1>6. result' = [ret |-> Len(c), bytes |-> c]
  BY <1>1 DEF Answer, c
<1>7. KernelOK' /\ StreamNow' = StreamNow
  <2> DEFINE r == [ret |-> Len(c), bytes |-> c]
  <2>1. Answer(r) /\ r.ret \in Int
    BY <1>1, <1>5 DEF c
  <2> HIDE DEF r
  <2>2. QED
    BY <2>1, AnswerKeeps
<1>8. OutcomeNow' = "ok" /\ TakenNow' = c
  BY <1>5, <1>6 DEF OutcomeNow, TakenNow
<1>9. c = << >> \/ c = S!Part(line, n)
  <2>1. CASE n >= 0
    BY <1>3, <1>5, <2>1
  <2>2. CASE n < 0
    <3>1. Len(c) = 0
      BY <1>4, <1>5, <2>2
    <3>2. c \in Seq(ToSet(c))
      BY <1>5 DEF IsString
    <3>3. c = << >>
      BY <3>1, <3>2, EmptySeq
    <3>4. QED
      BY <3>3
  <2>3. QED
    BY <1>0, <2>1, <2>2
<1>10. TakenNow' = << >> \/ \E l \in Typed, k \in Asked : TakenNow' = S!Part(l, k)
  BY <1>8, <1>9
<1>11. QED
  BY <1>7, <1>8, <1>10, StreamsElsewhere

\* What a read may ask for: the loop of directory_read is never given a negative size.
Readable(fd, n) == n \in Asked /\ (n >= 0 \/ ~Reads(fd, "dir"))

LEMMA ReadStep ==
    ASSUME KernelOK, NEW fd, NEW buf, NEW n, Readable(fd, n), Read(fd, buf, n)
    PROVE  KernelOK' /\ S!Next
<1>0. n \in Asked /\ n \in Int
  BY UnsignedIs DEF Readable
<1>1. CASE ~Usable(fd, buf)
  <2>1. Refuse
    BY <1>1 DEF Read
  <2>2. QED
    BY <2>1, RefuseStep
<1>2. CASE Usable(fd, buf)
  <2>0. fd \in Fds
    BY <1>2 DEF Usable, KernelOK, FdTables
  <2>1. CASE TerminalRead(fd, n)
    BY <1>0, <2>1, TerminalReadStep
  <2>2. CASE BadRead(fd)
    <3>1. Refuse
      BY <2>2 DEF BadRead
    <3>2. QED
      BY <3>1, RefuseStep
  <2>3. CASE RtcRead(fd)
    <3>1. Answer(Returned(0)) /\ 0 \in Int
      BY <2>3 DEF RtcRead
    <3>2. QED
      BY <3>1, ReturnStep
  <2>4. CASE DirectoryRead(fd, n)
    <3>1. n >= 0
      BY <2>4 DEF Readable, DirectoryRead
    <3>2. QED
      BY <1>0, <2>0, <2>4, <3>1, DirectoryReadStep
  <2>5. CASE FileRead(fd, n)
    BY <1>0, <2>0, <2>5, FileReadStep
  <2>6. QED
    BY <1>2, <2>1, <2>2, <2>3, <2>4, <2>5 DEF Read
<1>3. QED
  BY <1>1, <1>2

LEMMA WriteStep ==
    ASSUME KernelOK, NEW fd, NEW buf, NEW n \in Int, Write(fd, buf, n)
    PROVE  /\ KernelOK' /\ S!Next /\ UNCHANGED <<table, fd_array>>
           /\ fd = 1 /\ buf # "null" /\ n >= 0 => result'.ret # -1
<1>0. UNCHANGED <<table, fd_array>>
  BY DEF Write, TerminalWrite, BadWrite, RtcWrite, Refuse, Answer
<1>1. CASE ~Usable(fd, buf)
  <2>1. Refuse
    BY <1>1 DEF Write
  <2>2. ~(fd = 1 /\ buf # "null")
    BY <1>1 DEF Usable, KernelOK, Stdio
  <2>3. QED
    BY <1>0, <2>1, <2>2, RefuseStep
<1>2. CASE Usable(fd, buf)
  <2>1. CASE TerminalWrite(fd, n)
    <3> DEFINE m == IF n < 0 THEN 0 ELSE n
    <3>1. Answer(Returned(m)) /\ m \in Int /\ m # -1
      BY <2>1 DEF TerminalWrite
    <3> HIDE DEF m
    <3>2. KernelOK' /\ S!Next /\ result' = Returned(m)
      BY <3>1, ReturnStep
    <3>3. QED
      BY <1>0, <3>1, <3>2 DEF Returned
  <2>2. CASE BadWrite(fd)
    <3>1. Refuse /\ fd # 1
      BY <2>2 DEF BadWrite, Reads, KernelOK
    <3>2. QED
      BY <1>0, <3>1, RefuseStep
  <2>3. CASE RtcWrite(fd)
    <3>1. PICK ret \in {-1, 0} : Answer(Returned(ret))
      BY <2>3 DEF RtcWrite
    <3>2. ret \in Int /\ fd # 1
      BY <2>3 DEF RtcWrite, Reads, KernelOK
    <3>3. QED
      BY <1>0, <3>1, <3>2, ReturnStep
  <2>4. QED
    BY <1>2, <2>1, <2>2, <2>3 DEF Write
<1>3. QED
  BY <1>1, <1>2

LEMMA VidmapStep ==
    ASSUME KernelOK, NEW buf, Vidmap(buf)
    PROVE  /\ KernelOK' /\ S!Next /\ UNCHANGED <<table, fd_array>>
           /\ buf # "user" => result'.ret = -1
<1>1. CASE buf = "user"
  <2>1. Answer(Returned(0)) /\ 0 \in Int
    BY <1>1 DEF Vidmap
  <2>2. QED
    BY <1>1, <2>1, ReturnStep DEF Answer
<1>2. CASE buf # "user"
  <2>1. Refuse
    BY <1>2 DEF Vidmap
  <2>2. QED
    BY <1>2, <2>1, RefuseStep DEF Refuse, Answer
<1>3. QED
  BY <1>1, <1>2

\* Numbers and handlers.
LEMMA Handlers ==
    /\ Handler(SYS_READ) = "read" /\ Handler(SYS_WRITE) = "write" /\ Handler(SYS_OPEN) = "open"
    /\ Handler(SYS_CLOSE) = "close" /\ Handler(SYS_VIDMAP) = "vidmap"
    /\ \A eax : eax \notin 1 .. 12 => Handler(eax) = "error"
BY DEF Handler, syscall_table, SYS_READ, SYS_WRITE, SYS_OPEN, SYS_CLOSE, SYS_VIDMAP

\* What programs give to calls.
Permitted(handler, a) ==
    /\ handler = "read"  => Readable(a.fd, a.nbytes)
    /\ handler = "write" => a.nbytes \in Int
    /\ handler = "open"  => IsString(a.name)

LEMMA CallStep ==
    ASSUME KernelOK, NEW eax, NEW a, Permitted(Handler(eax), a), SystemCall(eax, a)
    PROVE  KernelOK' /\ S!Next
<1> DEFINE handler == Handler(eax)
<1>1. CASE handler = "error" /\ Refuse
  BY <1>1, RefuseStep
<1>2. CASE handler = "read" /\ Read(a.fd, a.buf, a.nbytes)
  <2>1. Readable(a.fd, a.nbytes)
    BY <1>2 DEF Permitted
  <2>2. QED
    BY <1>2, <2>1, ReadStep
<1>3. CASE handler = "write" /\ Write(a.fd, a.buf, a.nbytes)
  <2>1. a.nbytes \in Int
    BY <1>3 DEF Permitted
  <2>2. QED
    BY <1>3, <2>1, WriteStep
<1>4. CASE handler = "open" /\ (Open(a.name) \/ OpenFailing(a.name))
  <2>1. IsString(a.name)
    BY <1>4 DEF Permitted
  <2>2. QED
    BY <1>4, <2>1, OpenStep, OpenFailingStep
<1>5. CASE handler = "close" /\ Close(a.fd)
  BY <1>5, CloseStep
<1>6. CASE handler = "vidmap" /\ Vidmap(a.buf)
  BY <1>6, VidmapStep
<1>7. CASE handler \in {"set_handler", "sigreturn"} /\ Answer(Returned(0))
  BY <1>7, ReturnStep
<1>8. QED
  BY <1>1, <1>2, <1>3, <1>4, <1>5, <1>6, <1>7 DEF SystemCall


-----------------------------------------------------------------------------
\* Loading a program: what an executable file holds, or nothing of an empty one.
LEMMA NoPosGives ==
    ASSUME NEW inode \in Disk, NEW n \in 0 .. WORD - 1
    PROVE  LET m == Lesser(Inodes[inode].length, n)
           IN  m \in 0 .. Inodes[inode].length /\ IsReadOf(ReadNoPos(inode, n), inode, 0, m)
<1> DEFINE m == Lesser(Inodes[inode].length, n)
<1>1. WORD \in Nat /\ WORD > 0
  BY WordAssumption, CapacityNat DEF Capacity
<1>2. Unsigned(n) = n
  <2>1. n = WORD * 0 + n /\ 0 \in Int /\ n \in Int
    BY <1>1
  <2>2. QED
    BY <1>1, <2>1, RemainderIs DEF Unsigned
<1>3. m \in Nat /\ m <= Inodes[inode].length /\ 0 + m <= Inodes[inode].length
      /\ m \in 0 .. Inodes[inode].length
  BY <1>1, InodeTypes DEF Lesser
<1>4. ReadNoPos(inode, n) = ReadData(inode, 0, m)
  BY <1>2 DEF ReadNoPos
<1> HIDE DEF m
<1>5. IsReadOf(ReadData(inode, 0, m), inode, 0, m)
  BY <1>3, ReadDataGives
<1>6. QED
  BY <1>3, <1>4, <1>5 DEF m

LEMMA ExecuteStep ==
    ASSUME KernelOK, NEW name, IsString(name), Execute(name)
    PROVE  KernelOK' /\ S!Next
<1> DEFINE inode == Dentries[Lookup(name)].inode
           length == Inodes[inode].length
           loaded == LoadProgramImage(inode)
<1>1. CASE result' = Error
  <2>1. Refuse
    BY <1>1 DEF Execute, Refuse, Answer
  <2>2. QED
    BY <2>1, RefuseStep
<1>2. ASSUME Found(name), Dentries[Lookup(name)].file_type = "file",
             NEW garbage \in BOOLEAN, CheckProgramImage(inode, garbage),
             loaded.ret # -1, result' = [ret |-> 0, bytes |-> loaded.bytes],
             UNCHANGED <<table, fd_array>>
      PROVE  KernelOK' /\ S!Next
  <2>0. Lookup(name) \in 1 .. Len(Dentries)
    BY <1>2, LookupFinds
  <2>1. inode \in Disk
    BY <1>2, <2>0, DentryAssumption DEF Disk
  <2>2. length \in Nat /\ length <= Capacity /\ WORD \in Nat /\ Capacity < WORD
    BY <2>1, InodeTypes, WordAssumption DEF Capacity
  <2>3. KernelOK' /\ StreamNow' = StreamNow
    <3>1. result'.ret = 0
      BY <1>2
    <3>2. QED
      BY <1>2, <3>1 DEF KernelOK, StreamNow
  <2>4. loaded.bytes = Run(inode, 0, length)
    <3>1. length \in 0 .. WORD - 1
      <4> HIDE DEF length
      <4>1. QED
        BY <2>2, CapacityNat
    <3> DEFINE m == Lesser(length, length)
    <3>2. m = length
      BY DEF Lesser
    <3>3. IsReadOf(ReadNoPos(inode, length), inode, 0, m)
      <4> HIDE DEF inode
      <4>1. QED
        BY <2>1, <3>1, NoPosGives
    <3>4. QED
      BY <1>2, <3>2, <3>3 DEF IsReadOf, LoadProgramImage
  <2>5. OutcomeNow' = "ok" /\ TakenNow' = Run(inode, 0, length)
    <3>1. result'.ret = 0 /\ result'.bytes = loaded.bytes
      BY <1>2
    <3>2. QED
      BY <2>4, <3>1 DEF OutcomeNow, TakenNow
  <2>6. length = 0 \/ inode \in Elf
    <3> DEFINE m == Lesser(length, MAGIC)
               read == ReadNoPos(inode, MAGIC)
    <3>1. MAGIC \in 0 .. WORD - 1 /\ MAGIC >= 1
      BY <2>2, ProgramAssumption
    <3>2. IsReadOf(read, inode, 0, m)
      <4> HIDE DEF inode
      <4>1. QED
        BY <2>1, <3>1, NoPosGives
    <3>3. read.ret # -1 /\ (read.bytes = << >> \/ inode \in Elf)
      BY <1>2 DEF CheckProgramImage, Checks
    <3>4. m \in Nat /\ (m = 0 => length = 0)
      BY <2>2, <3>1 DEF Lesser
    <3> HIDE DEF m, read
    <3>5. read.bytes = Run(inode, 0, m) \/ inode \in Elf
      BY <3>2, <3>3 DEF IsReadOf
    <3>6. Len(Run(inode, 0, m)) = m
      BY <3>4 DEF Run
    <3>7. Run(inode, 0, m) = << >> => m = 0
      BY <3>4, <3>6
    <3>8. QED
      BY <3>3, <3>4, <3>5, <3>7
  <2>7. CASE length = 0
    <3>1. TakenNow' = << >>
      BY <2>5, <2>7 DEF Run
    <3>2. QED
      BY <2>3, <2>5, <3>1, StreamsElsewhere
  <2>8. CASE inode \in Elf
    <3>1. name \in Names
      BY <1>2, LookupNamed
    <3>2. IsExecutable(name)
      BY <1>2, <2>8, <3>1 DEF IsExecutable, Executables
    <3>3. NewFile(name) = [file_type |-> "file", inode |-> inode, file_pos |-> 0]
      BY <1>2 DEF NewFile, File
    <3>4. From(Bytes[inode], 0) = Run(inode, 0, length)
      <4>1. 0 \in 0 .. length /\ length - 0 = length
        BY <2>2
      <4> DEFINE i == inode
      <4>2. i \in Disk /\ 0 \in 0 .. Inodes[i].length /\ Inodes[i].length - 0 = length
        BY <2>1, <4>1
      <4> HIDE DEF i, length
      <4>3. From(Bytes[i], 0) = Run(i, 0, Inodes[i].length - 0)
        BY <4>2, FileStream
      <4>4. QED
        BY <4>2, <4>3 DEF i
    <3>5. StreamNamed(name).items = Run(inode, 0, length)
      BY <3>1, <3>3, <3>4 DEF StreamNamed, Opened, StreamOf
    <3>6. QED
      BY <2>3, <2>5, <3>1, <3>2, <3>5, StreamsLoad
  <2>9. QED
    BY <2>6, <2>7, <2>8
<1>3. QED
  BY <1>1, <1>2 DEF Execute


-----------------------------------------------------------------------------
(***************************************************************************)
(* The programs: what is true of their variables between calls.            *)
(***************************************************************************)
\* A descriptor that a program has opened.
Holding(fd) == fd \in table.spaces \ Stdio

CopierOK ==
    /\ p \in [prog : {"cat", "ls"}, at : {"argument", "open", "read", "write", "ended"},
              arg : {p.arg}, size : Asked \cap Nat, ending : {p.ending}, fd : Nat,
              data : {p.data}, status : {p.status}]
    /\ IsString(p.arg) /\ IsString(p.ending) /\ IsString(p.data)
    /\ p.at \in {"read", "write"} => Holding(p.fd)

GrepOK ==
    /\ p \in [prog : {"grep"},
              at : {"argument", "directory", "entry", "file", "read", "line", "close", "ended"},
              status : {p.status}, arg : {p.arg}, dir : Nat, fd : Nat, fname : {p.fname},
              data : {p.data}, last : 0 .. BUFSIZE, cnt : 0 .. BUFSIZE, line_start : Nat,
              junk : {p.junk}]
    /\ p.at \in {"entry", "file", "read", "line", "close"} =>
          Holding(p.dir) /\ fd_array[p.dir].file_type = "dir"
    /\ p.at \in {"file", "read", "line", "close"} => IsString(p.fname) /\ p.fname # Directory
    /\ p.at \in {"read", "line", "close"} =>
          Holding(p.fd) /\ fd_array[p.fd].file_type \in {"rtc", "file"}
    /\ p.at = "line" => p.line_start <= p.last

CounterOK == p \in [prog : {"counter"}, at : {"ask", "count", "ended"}, status : {p.status},
                    i : {p.i}, max : {p.max}]

FishOK == p \in [prog : {"fish"}, at : {"open", "read", "show", "row", "ended"},
                 status : {p.status}, k : {1, 2}, fd : {p.fd}, c : {p.c}, eof : {p.eof},
                 row : {p.row}, col : {p.col}]

\* Before call k of the third test fds 0 .. k are taken, until no descriptor is left and one
\* open fails; then they are closed again, those from k - FD_ARRAY_SIZE + 2 on still open.
LotsOpened(t, k) ==
    LET n == FD_ARRAY_SIZE
    IN  IF k < n THEN t.spaces = 0 .. k /\ (t.full <=> k = n - 1)
        ELSE t.spaces = Stdio \cup (k - n + 2 .. n - 1) /\ (t.full <=> k = n)

InOpenLots(k) == LotsOpened(table, k) /\ p.cnt = IF k < FD_ARRAY_SIZE THEN 0 ELSE 1

\* Outside of it only stdin and stdout are open.
SyserrOK ==
    /\ p \in [prog : {"syserr"}, tests : Seq(1 .. 8), next : Nat, cnt : Nat, fail : {FALSE}]
    /\ p.tests # << >> => p.next \in 1 .. Len(Calls(Directory)[Head(p.tests)])
    /\ IF p.tests # << >> /\ Head(p.tests) = OPEN_LOTS THEN InOpenLots(p.next)
       ELSE p.cnt = 0 /\ table = FreshTable

ProgramOK == CopierOK \/ GrepOK \/ CounterOK \/ FishOK \/ SyserrOK \/ p.prog = "any"

Inv == KernelOK /\ ProgramOK

\* A call of a program.
LEMMA Callings ==
    ASSUME KernelOK
    PROVE  /\ \A fd, n : Reading(fd, n) /\ Readable(fd, n) =>
                 KernelOK' /\ S!Next /\ Read(fd, "user", n)
           /\ \A fd, n \in Int : Writing(fd, n) =>
                 KernelOK' /\ S!Next /\ Write(fd, "user", n)
           /\ \A name : Opening(name) /\ IsString(name) =>
                 KernelOK' /\ S!Next /\ (Open(name) \/ OpenFailing(name))
           /\ \A fd : Closing(fd) => KernelOK' /\ S!Next /\ Close(fd)
<1>1. ASSUME NEW fd, NEW n, Reading(fd, n), Readable(fd, n)
      PROVE  KernelOK' /\ S!Next /\ Read(fd, "user", n)
  <2> DEFINE a == [NoArguments EXCEPT !.fd = fd, !.nbytes = n]
  <2>1. a.fd = fd /\ a.nbytes = n /\ a.buf = "user"
    BY DEF NoArguments
  <2>2. SystemCall(SYS_READ, a)
    BY <1>1 DEF Reading
  <2> HIDE DEF a
  <2>3. Read(fd, "user", n)
    BY <2>1, <2>2, Handlers DEF SystemCall
  <2>4. QED
    BY <1>1, <2>3, ReadStep
<1>2. ASSUME NEW fd, NEW n \in Int, Writing(fd, n)
      PROVE  KernelOK' /\ S!Next /\ Write(fd, "user", n)
  <2> DEFINE a == [NoArguments EXCEPT !.fd = fd, !.nbytes = n]
  <2>1. a.fd = fd /\ a.nbytes = n /\ a.buf = "user"
    BY DEF NoArguments
  <2>2. SystemCall(SYS_WRITE, a)
    BY <1>2 DEF Writing
  <2> HIDE DEF a
  <2>3. Write(fd, "user", n)
    BY <2>1, <2>2, Handlers DEF SystemCall
  <2>4. QED
    BY <2>3, WriteStep
<1>3. ASSUME NEW name, Opening(name), IsString(name)
      PROVE  KernelOK' /\ S!Next /\ (Open(name) \/ OpenFailing(name))
  <2> DEFINE a == [NoArguments EXCEPT !.name = name]
  <2>1. a.name = name
    BY DEF NoArguments
  <2>2. SystemCall(SYS_OPEN, a)
    BY <1>3 DEF Opening
  <2> HIDE DEF a
  <2>3. Open(name) \/ OpenFailing(name)
    BY <2>1, <2>2, Handlers DEF SystemCall
  <2>4. QED
    BY <1>3, <2>3, OpenStep, OpenFailingStep
<1>4. ASSUME NEW fd, Closing(fd)
      PROVE  KernelOK' /\ S!Next /\ Close(fd)
  <2> DEFINE a == [NoArguments EXCEPT !.fd = fd]
  <2>1. a.fd = fd
    BY DEF NoArguments
  <2>2. SystemCall(SYS_CLOSE, a)
    BY <1>4 DEF Closing
  <2> HIDE DEF a
  <2>3. Close(fd)
    BY <2>1, <2>2, Handlers DEF SystemCall
  <2>4. QED
    BY <2>3, CloseStep
<1>5. QED
  BY <1>1, <1>2, <1>3, <1>4

\* Reading what a program has opened.
LEMMA HeldReadGives ==
    ASSUME KernelOK, NEW fd, Holding(fd), NEW n \in Asked, n >= 0, Reading(fd, n)
    PROVE  /\ KernelOK' /\ S!Next
           /\ \/ fd_array[fd].file_type = "file" /\ FileGives(fd, n)
              \/ fd_array[fd].file_type = "dir" /\ DirectoryGives(fd, n)
              \/ fd_array[fd].file_type = "rtc" /\ result' = Returned(0)
                 /\ table' = table /\ fd_array' = fd_array
<1>0. n \in Int /\ Readable(fd, n)
  BY UnsignedIs DEF Readable
<1>1. KernelOK' /\ S!Next /\ Read(fd, "user", n)
  BY <1>0, Callings
<1>2. fd \in Fds /\ Usable(fd, "user") /\ OpenFile(fd_array[fd])
  BY DEF Holding, Usable, KernelOK, FdTables
<1>3. fd_array[fd].file_type \in {"rtc", "dir", "file"}
  BY <1>2 DEF OpenFile
<1>4. RtcRead(fd) \/ DirectoryRead(fd, n) \/ FileRead(fd, n)
  BY <1>1, <1>2, <1>3 DEF Read, TerminalRead, BadRead, Reads
<1>5. CASE RtcRead(fd)
  BY <1>1, <1>5 DEF RtcRead, Reads, Answer
<1>6. CASE DirectoryRead(fd, n)
  BY <1>0, <1>1, <1>2, <1>6, DirectoryReadGives DEF DirectoryRead, Reads
<1>7. CASE FileRead(fd, n)
  BY <1>1, <1>2, <1>7, FileReadGives DEF FileRead, Reads
<1>8. QED
  BY <1>4, <1>5, <1>6, <1>7


\* Strings.
LEMMA StringIs ==
    ASSUME NEW n \in Nat, NEW s, DOMAIN s = 1 .. n, s = [i \in 1 .. n |-> s[i]]
    PROVE  IsString(s) /\ Len(s) = n
<1>1. ToSet(s) = {s[i] : i \in 1 .. n}
  BY DEF ToSet
<1>2. s \in [1 .. n -> ToSet(s)]
  BY <1>1
<1>3. QED
  BY <1>2, FunctionIsSeq DEF IsString

LEMMA StringFacts ==
    ASSUME NEW s, IsString(s)
    PROVE  /\ Len(s) \in Nat /\ DOMAIN s = 1 .. Len(s) /\ s = [i \in 1 .. Len(s) |-> s[i]]
           /\ Len(s) = 0 => s = << >>
<1> DEFINE S0 == ToSet(s)
<1>1. s \in Seq(S0)
  BY DEF IsString
<1> HIDE DEF S0
<1>2. QED
  BY <1>1, SeqIs

LEMMA EmptyString == IsString(<< >>) /\ Len(<< >>) = 0
<1>1. << >> \in Seq(ToSet(<< >>)) /\ Len(<< >>) = 0
  OBVIOUS
<1>2. QED
  BY <1>1 DEF IsString

LEMMA OneString == ASSUME NEW c PROVE IsString(<<c>>) /\ Len(<<c>>) = 1
<1>1. DOMAIN <<c>> = 1 .. 1 /\ <<c>> = [i \in 1 .. 1 |-> <<c>>[i]]
  OBVIOUS
<1>2. QED
  BY <1>1, StringIs

LEMMA RunString ==
    ASSUME NEW inode, NEW pos, NEW n \in Nat
    PROVE  IsString(Run(inode, pos, n)) /\ Len(Run(inode, pos, n)) = n
<1>1. DOMAIN Run(inode, pos, n) = 1 .. n
      /\ Run(inode, pos, n) = [i \in 1 .. n |-> Run(inode, pos, n)[i]]
  BY DEF Run
<1>2. QED
  BY <1>1, StringIs

LEMMA TextString ==
    ASSUME NEW s, IsString(s)
    PROVE  IsString(Text(s)) /\ Len(Text(s)) = Len(s)
<1>1. Len(s) \in Nat /\ DOMAIN s = 1 .. Len(s)
  BY StringFacts
<1>2. DOMAIN Text(s) = 1 .. Len(s) /\ Text(s) = [i \in 1 .. Len(s) |-> Text(s)[i]]
  BY <1>1 DEF Text
<1>3. QED
  BY <1>1, <1>2, StringIs

LEMMA JoinString ==
    ASSUME NEW s, IsString(s), NEW t, IsString(t)
    PROVE  /\ IsString(s \o t) /\ Len(s \o t) = Len(s) + Len(t)
           /\ s \o t = [i \in 1 .. Len(s) + Len(t) |-> IF i <= Len(s) THEN s[i] ELSE t[i - Len(s)]]
<1> DEFINE S0 == ToSet(s) \cup ToSet(t)
           c == s \o t
           n == Len(s) + Len(t)
<1>0. Len(s) \in Nat /\ Len(t) \in Nat
  BY StringFacts
<1>1. s \in Seq(S0) /\ t \in Seq(S0)
  <2>1. s \in Seq(ToSet(s)) /\ t \in Seq(ToSet(t))
    BY DEF IsString
  <2>2. QED
    BY <2>1
<1> HIDE DEF S0
<1>2. Len(c) = n /\ c = [i \in 1 .. n |-> IF i <= Len(s) THEN s[i] ELSE t[i - Len(s)]]
  BY <1>1, ConcatIs
<1> HIDE DEF c
<1>3. DOMAIN c = 1 .. n /\ c = [i \in 1 .. n |-> c[i]] /\ n \in Nat
  BY <1>0, <1>2
<1> HIDE DEF n
<1>4. IsString(c)
  BY <1>3, StringIs
<1>5. QED
  BY <1>2, <1>4 DEF c, n

\* What reading leaves as it was, and what it gives.
LEMMA HeldReadKeeps ==
    ASSUME KernelOK, NEW fd, Holding(fd), NEW n \in Asked, n >= 0, Reading(fd, n)
    PROVE  /\ KernelOK' /\ S!Next
           /\ table' = table
           /\ \A g \in Fds : fd_array'[g].file_type = fd_array[g].file_type
           /\ result'.ret # -1 => result'.ret \in Nat /\ IsString(result'.bytes)
           /\ result'.ret # -1 /\ fd_array[fd].file_type # "dir" => result'.ret <= n
<1>0. fd \in Fds /\ fd_array \in [Fds -> FdFiles] /\ OpenFile(fd_array[fd]) /\ n \in Nat
  BY UnsignedIs DEF Holding, KernelOK, FdTables
<1>1. KernelOK' /\ S!Next
  BY HeldReadGives
<1>2. ASSUME NEW pos, fd_array' = [fd_array EXCEPT ![fd] = At_(fd_array[fd], pos)]
      PROVE  \A g \in Fds : fd_array'[g].file_type = fd_array[g].file_type
  BY <1>0, <1>2 DEF At_
<1>3. CASE fd_array[fd].file_type = "file" /\ FileGives(fd, n)
  <2> DEFINE f == fd_array[fd]
             left == Inodes[f.inode].length - f.file_pos
  <2>1. left \in Nat
    BY <1>0, <1>3, InodeTypes DEF OpenFile
  <2>2. CASE result'.ret = -1 /\ table' = table /\ fd_array' = fd_array
    BY <1>1, <2>2
  <2>3. ASSUME NEW m \in 0 .. left, table' = table,
               result'.ret = m, result'.bytes = Run(f.inode, f.file_pos, m),
               m = IF n < 0 \/ n > left THEN left ELSE n,
               fd_array' = [fd_array EXCEPT ![fd] = At_(f, f.file_pos + m)]
        PROVE  /\ \A g \in Fds : fd_array'[g].file_type = fd_array[g].file_type
               /\ result'.ret \in Nat /\ result'.ret <= n /\ IsString(result'.bytes)
    <3>1. \A g \in Fds : fd_array'[g].file_type = fd_array[g].file_type
      BY <1>2, <2>3
    <3>2. m \in Nat /\ m <= n
      BY <1>0, <2>1, <2>3
    <3>3. IsString(Run(f.inode, f.file_pos, m))
      BY <3>2, RunString
    <3>4. QED
      BY <2>3, <3>1, <3>2, <3>3
  <2>4. QED
    BY <1>1, <1>3, <2>2, <2>3 DEF FileGives
<1>4. CASE fd_array[fd].file_type = "dir" /\ DirectoryGives(fd, n)
  <2> DEFINE f == fd_array[fd]
             name == Dentries[f.file_pos + 1].name
  <2>1. CASE result' = Returned(0) /\ table' = table /\ fd_array' = fd_array
    <3>1. result'.ret = 0 /\ result'.bytes = << >>
      BY <2>1 DEF Returned
    <3>2. QED
      BY <1>1, <1>4, <2>1, <3>1, EmptyString
  <2>2. ASSUME table' = table, f.file_pos \in 0 .. Len(Dentries) - 1,
               result'.ret = Len(name), result'.bytes = Cut(name, n),
               fd_array' = [fd_array EXCEPT ![fd] = At_(f, f.file_pos + 1)]
        PROVE  /\ \A g \in Fds : fd_array'[g].file_type = fd_array[g].file_type
               /\ result'.ret \in Nat /\ IsString(result'.bytes)
    <3>1. \A g \in Fds : fd_array'[g].file_type = fd_array[g].file_type
      BY <1>2, <2>2
    <3>2. f.file_pos + 1 \in 1 .. Len(Dentries)
      BY <2>2, DentriesSeq
    <3>3. IsString(name) /\ Len(name) \in Nat
      BY <3>2, NameAssumption
    <3> HIDE DEF name
    <3>4. IsString(Cut(name, n))
      BY <1>0, <3>3, PartIsCut
    <3>5. QED
      BY <2>2, <3>1, <3>3, <3>4
  <2>3. QED
    BY <1>1, <1>4, <2>1, <2>2 DEF DirectoryGives
<1>5. CASE result' = Returned(0) /\ table' = table /\ fd_array' = fd_array
  <2>1. result'.ret = 0 /\ result'.bytes = << >>
    BY <1>5 DEF Returned
  <2>2. QED
    BY <1>0, <1>1, <1>5, <2>1, EmptyString
<1>6. QED
  BY <1>3, <1>4, <1>5, HeldReadGives


LEMMA NoCallStep ==
    ASSUME KernelOK, NoCall
    PROVE  KernelOK' /\ UNCHANGED S!vars
BY DEF NoCall, kernel, KernelOK, S!vars

LEMMA CopierTypes ==
    ASSUME CopierOK
    PROVE  /\ \A status : Ended(status) \in [prog : {"cat", "ls"}, at : {"ended"}, arg : {p.arg},
                   size : Asked \cap Nat, ending : {p.ending}, fd : Nat, data : {p.data}, status : {status}]
           /\ p.size \in Asked /\ p.size >= 0
<1>1. p.size \in Asked \cap Nat
  BY DEF CopierOK
<1> DEFINE sizes == Asked \cap Nat
<1>2. p \in [prog : {"cat", "ls"}, at : {"argument", "open", "read", "write", "ended"},
             arg : {p.arg}, size : sizes, ending : {p.ending}, fd : Nat,
             data : {p.data}, status : {p.status}]
  BY DEF CopierOK
<1> HIDE DEF sizes
<1>3. \A status : Ended(status) \in [prog : {"cat", "ls"}, at : {"ended"}, arg : {p.arg},
          size : sizes, ending : {p.ending}, fd : Nat, data : {p.data}, status : {status}]
  BY <1>2 DEF Ended
<1>4. QED
  BY <1>1, <1>3 DEF sizes

\* When a copier ends, or waits for its next call.
CopierNext(q, at) ==
    /\ q \in [prog : {"cat", "ls"}, at : {at}, arg : {p.arg}, size : Asked \cap Nat,
              ending : {p.ending}, fd : Nat, data : {q.data}, status : {q.status}]
    /\ IsString(q.data)

LEMMA CopierGoesOn ==
    ASSUME CopierOK, NEW at \in {"argument", "open", "read", "write", "ended"},
           CopierNext(p', at), at \in {"read", "write"} => Holding(p.fd)'
    PROVE  CopierOK'
BY DEF CopierOK, CopierNext

LEMMA CopierStep ==
    ASSUME KernelOK, CopierOK, NEW prog, ReadArgument(prog, "open") \/ Copy(prog)
    PROVE  KernelOK' /\ CopierOK' /\ [S!Next]_S!vars
<1>1. ASSUME NEW status, p' = Ended(status)
      PROVE  CopierOK'
  <2>1. CopierNext(p', "ended")
    BY <1>1, CopierTypes DEF CopierNext, CopierOK
  <2>2. QED
    BY <2>1, CopierGoesOn
<1>2. CASE ReadArgument(prog, "open")
  <2>1. KernelOK' /\ UNCHANGED S!vars
    BY <1>2, NoCallStep DEF ReadArgument
  <2>2. CASE p.arg = << >>
    BY <1>1, <1>2, <2>1, <2>2 DEF ReadArgument
  <2>3. CASE p.arg # << >>
    <3>1. p' = [p EXCEPT !.at = "open"]
      BY <1>2, <2>3 DEF ReadArgument
    <3>2. CopierNext(p', "open")
      BY <3>1 DEF CopierOK, CopierNext
    <3>3. QED
      BY <2>1, <3>2, CopierGoesOn
  <2>4. QED
    BY <2>2, <2>3
<1>3. CASE CopyOpen(prog)
  <2>1. Opening(p.arg) /\ IsString(p.arg)
    BY <1>3 DEF CopyOpen, CopierOK
  <2>2. KernelOK' /\ S!Next /\ (Open(p.arg) \/ OpenFailing(p.arg))
    BY <2>1, Callings
  <2>3. p' = IF result'.ret = -1 THEN Ended(2) ELSE [p EXCEPT !.at = "read", !.fd = result'.ret]
    BY <1>3 DEF CopyOpen
  <2>4. CASE result'.ret = -1
    BY <1>1, <2>2, <2>3, <2>4
  <2>5. CASE result'.ret # -1
    <3>1. Open(p.arg)
      BY <2>2, <2>5, OpenFailingStep
    <3>2. result'.ret \in Openable /\ table'.spaces = table.spaces \cup {result'.ret}
      BY <2>1, <3>1, OpenStep
    <3> DEFINE fd == result'.ret
    <3>3. fd \in table'.spaces \ Stdio /\ fd \in Nat
      BY <3>2, FdFacts DEF Openable
    <3>4. p' = [p EXCEPT !.at = "read", !.fd = fd]
      BY <2>3, <2>5
    <3> HIDE DEF fd
    <3>5. CopierNext(p', "read") /\ p'.fd = fd
      BY <3>3, <3>4 DEF CopierOK, CopierNext
    <3>6. Holding(p.fd)'
      BY <3>3, <3>5 DEF Holding
    <3>7. QED
      BY <2>2, <3>5, <3>6, CopierGoesOn
  <2>6. QED
    BY <2>4, <2>5
<1>4. CASE CopyRead(prog)
  <2>1. Reading(p.fd, p.size) /\ Holding(p.fd) /\ p.size \in Asked /\ p.size >= 0
    BY <1>4, CopierTypes DEF CopyRead, At, CopierOK
  <2>2. KernelOK' /\ S!Next /\ table' = table
        /\ (result'.ret # -1 => IsString(result'.bytes))
    BY <2>1, HeldReadKeeps
  <2>3. p' = CASE result'.ret = 0  -> Ended(0)
              [] result'.ret = -1 -> Ended(3)
              [] OTHER -> [p EXCEPT !.at = "write", !.data = Text(result'.bytes)]
    BY <1>4 DEF CopyRead
  <2>4. letters' = letters
    BY <1>4 DEF CopyRead, Silent
  <2>5. CASE result'.ret \in {0, -1}
    BY <1>1, <2>2, <2>3, <2>5
  <2>6. CASE result'.ret \notin {0, -1}
    <3> DEFINE data == Text(result'.bytes)
    <3>1. IsString(data)
      BY <2>2, <2>6, TextString
    <3>2. p' = [p EXCEPT !.at = "write", !.data = data]
      BY <2>3, <2>6
    <3> HIDE DEF data
    <3>3. CopierNext(p', "write") /\ p'.fd = p.fd
      BY <3>1, <3>2 DEF CopierOK, CopierNext
    <3>4. Holding(p.fd)'
      BY <2>1, <2>2, <3>3 DEF Holding
    <3>5. QED
      BY <2>2, <3>3, <3>4, CopierGoesOn
  <2>7. QED
    BY <2>5, <2>6
<1>5. CASE CopyWrite(prog)
  <2>1. Writing(1, Len(p.data \o p.ending)) /\ Holding(p.fd)
    BY <1>5 DEF CopyWrite, At, CopierOK
  <2>2. Len(p.data \o p.ending) \in Int
    <3>1. IsString(p.data \o p.ending)
      BY JoinString DEF CopierOK
    <3> DEFINE s == p.data \o p.ending
    <3> HIDE DEF s
    <3>2. Len(s) \in Nat
      BY <3>1, StringFacts DEF s
    <3>3. QED
      BY <3>2 DEF s
  <2> DEFINE n == Len(p.data \o p.ending)
  <2>3. KernelOK' /\ S!Next /\ Write(1, "user", n)
    <3>1. Writing(1, n) /\ n \in Int
      BY <2>1, <2>2
    <3> HIDE DEF n
    <3>2. QED
      BY <3>1, Callings
  <2>4. table' = table
    <3>1. n \in Int
      BY <2>2
    <3> HIDE DEF n
    <3>2. QED
      BY <2>3, <3>1, WriteStep
  <2>5. p' = IF result'.ret = -1 THEN Ended(3) ELSE [p EXCEPT !.at = "read"]
    BY <1>5 DEF CopyWrite
  <2>6. CASE result'.ret = -1
    BY <1>1, <2>3, <2>5, <2>6
  <2>7. CASE result'.ret # -1
    <3>1. CopierNext(p', "read") /\ p'.fd = p.fd
      BY <2>5, <2>7 DEF CopierOK, CopierNext
    <3>2. Holding(p.fd)'
      BY <2>1, <2>4, <3>1 DEF Holding
    <3>3. QED
      BY <2>3, <3>1, <3>2, CopierGoesOn
  <2>8. QED
    BY <2>6, <2>7
<1>6. QED
  BY <1>2, <1>3, <1>4, <1>5 DEF Copy


-----------------------------------------------------------------------------
\* grep keeps its buffer, its directory and its file apart.
LEMMA LineEndIs ==
    ASSUME NEW start \in Nat, p.last \in Nat, start <= p.last
    PROVE  LineEnd(start) \in start .. p.last
<1> DEFINE T == {i \in start .. p.last : i = p.last \/ p.data[i] = NEWLINE}
<1>1. T \in SUBSET Nat /\ p.last \in T
  OBVIOUS
<1>2. PICK i \in T : \A m \in T : i <= m
  <2> HIDE DEF T
  <2>1. QED
    BY <1>1, LeastOf
<1>3. \A j \in start .. i - 1 : p.data[j] # NEWLINE
  <2> SUFFICES ASSUME NEW j \in start .. i - 1, p.data[j] = NEWLINE PROVE FALSE
    OBVIOUS
  <2>1. i \in Nat /\ i <= p.last
    BY <1>1
  <2>2. j \in T
    BY <2>1
  <2>3. QED
    BY <1>2, <2>1, <2>2
<1>4. \E k \in start .. p.last : /\ k = p.last \/ p.data[k] = NEWLINE
                                 /\ \A j \in start .. k - 1 : p.data[j] # NEWLINE
  BY <1>2, <1>3
<1>5. QED
  BY <1>4 DEF LineEnd

GrepShape(q, at) ==
    q \in [prog : {"grep"}, at : {at}, status : {q.status}, arg : {q.arg}, dir : Nat, fd : Nat,
           fname : {q.fname}, data : {q.data}, last : 0 .. BUFSIZE, cnt : 0 .. BUFSIZE,
           line_start : Nat, junk : {q.junk}]

GrepAts == {"argument", "directory", "entry", "file", "read", "line", "close", "ended"}

\* What grep holds when it is somewhere.
GrepHolds(at) ==
    /\ at \in {"entry", "file", "read", "line", "close"} =>
          Holding(p.dir) /\ fd_array[p.dir].file_type = "dir"
    /\ at \in {"file", "read", "line", "close"} => IsString(p.fname) /\ p.fname # Directory
    /\ at \in {"read", "line", "close"} =>
          Holding(p.fd) /\ fd_array[p.fd].file_type \in {"rtc", "file"}
    /\ at = "line" => p.line_start <= p.last

LEMMA GrepGoesOn ==
    ASSUME NEW at \in GrepAts, GrepShape(p', at), GrepHolds(at)'
    PROVE  GrepOK'
<1>1. p'.at = at
  BY DEF GrepShape
<1>2. p' \in [prog : {"grep"}, at : GrepAts,
              status : {p'.status}, arg : {p'.arg}, dir : Nat, fd : Nat, fname : {p'.fname},
              data : {p'.data}, last : 0 .. BUFSIZE, cnt : 0 .. BUFSIZE, line_start : Nat,
              junk : {p'.junk}]
  BY DEF GrepShape
<1>3. QED
  BY <1>1, <1>2 DEF GrepOK, GrepHolds, GrepAts

LEMMA GrepTypes ==
    ASSUME GrepOK
    PROVE  /\ GrepShape(p, p.at) /\ GrepHolds(p.at) /\ p.at \in GrepAts
           /\ p.last \in Nat /\ p.last <= BUFSIZE /\ p.cnt \in Nat /\ p.cnt <= BUFSIZE
           /\ p.line_start \in Nat /\ p.dir \in Nat /\ p.fd \in Nat
           /\ \A status : GrepShape(Ended(status), "ended")
<1>1. p \in [prog : {"grep"}, at : GrepAts,
             status : {p.status}, arg : {p.arg}, dir : Nat, fd : Nat, fname : {p.fname},
             data : {p.data}, last : 0 .. BUFSIZE, cnt : 0 .. BUFSIZE, line_start : Nat,
             junk : {p.junk}]
  BY DEF GrepOK, GrepAts
<1>2. GrepShape(p, p.at)
  BY <1>1 DEF GrepShape
<1>3. \A status : GrepShape(Ended(status), "ended")
  BY <1>1 DEF GrepShape, Ended
<1>4. GrepHolds(p.at)
  BY DEF GrepOK, GrepHolds
<1>5. p.last \in 0 .. BUFSIZE /\ p.cnt \in 0 .. BUFSIZE /\ p.line_start \in Nat
      /\ p.dir \in Nat /\ p.fd \in Nat /\ p.at \in GrepAts
  BY <1>1
<1>6. QED
  BY <1>2, <1>3, <1>4, <1>5, AskedSizes

LEMMA GrepEnds ==
    ASSUME GrepOK, NEW status, p' = Ended(status)
    PROVE  GrepOK'
<1>1. GrepShape(p', "ended")
  BY GrepTypes
<1>2. GrepHolds("ended")'
  BY DEF GrepHolds
<1>3. QED
  BY <1>1, <1>2, GrepGoesOn DEF GrepAts

\* The directory has an entry for itself.
LEMMA DirectoryIsFound ==
    /\ IsString(Directory)
    /\ Found(Directory) => NewFile(Directory).file_type = "dir"
    /\ \A name : IsString(name) /\ Found(name) /\ name # Directory =>
          NewFile(name).file_type \in {"rtc", "file"}
<1>1. IsString(Directory)
  BY OneString DEF Directory
<1>2. ASSUME NEW name, IsString(name), Found(name)
      PROVE  NewFile(name).file_type = "dir" <=> name = Directory
  <2>1. Dentries[Lookup(name)].name = name /\ Lookup(name) \in 1 .. Len(Dentries)
    BY <1>2, LookupNamed, LookupFinds
  <2>2. Dentries[Lookup(name)].file_type = "dir" <=> name = Directory
    BY <2>1, DirectoryAssumption DEF Directory
  <2>3. NewFile(name).file_type = Dentries[Lookup(name)].file_type
    BY DEF NewFile, File
  <2>4. QED
    BY <2>2, <2>3
<1>3. \A name : Found(name) => NewFile(name).file_type \in {"rtc", "dir", "file"}
  BY NewFileOK DEF OpenFile
<1>4. QED
  BY <1>1, <1>2, <1>3

\* Opening and reading leave what grep holds as it was.
LEMMA OpenHolds ==
    ASSUME KernelOK, NEW name, IsString(name), Open(name)
    PROVE  /\ result'.ret \in Nat /\ result'.ret \in table'.spaces \ Stdio
           /\ fd_array'[result'.ret] = NewFile(name)
           /\ \A fd \in table.spaces \ Stdio : /\ fd \in table'.spaces \ Stdio
                                              /\ fd_array'[fd] = fd_array[fd]
<1> DEFINE new == result'.ret
<1>1. /\ new \in Openable /\ new \notin table.spaces /\ table'.spaces = table.spaces \cup {new}
      /\ fd_array' = [fd_array EXCEPT ![new] = NewFile(name)]
  BY OpenStep
<1>2. fd_array \in [Fds -> FdFiles] /\ table.spaces \subseteq Fds /\ new \in Fds /\ new \in Nat
      /\ new \notin Stdio
  BY <1>1, FdFacts DEF KernelOK, FdTables, Openable
<1> HIDE DEF new
<1>3. fd_array'[new] = NewFile(name) /\ \A fd \in Fds \ {new} : fd_array'[fd] = fd_array[fd]
  BY <1>1, <1>2
<1>4. \A fd \in table.spaces \ Stdio : fd \in table'.spaces \ Stdio /\ fd \in Fds \ {new}
  BY <1>1, <1>2
<1>5. QED
  BY <1>1, <1>2, <1>3, <1>4 DEF new

LEMMA GrepOpenings ==
    ASSUME KernelOK, GrepOK, GrepOpenDirectory \/ GrepOpen
    PROVE  KernelOK' /\ GrepOK' /\ [S!Next]_S!vars
<1>1. CASE GrepOpenDirectory
  <2>1. KernelOK' /\ S!Next /\ (Open(Directory) \/ OpenFailing(Directory))
    BY <1>1, Callings, DirectoryIsFound DEF GrepOpenDirectory
  <2>2. CASE result'.ret = -1
    <3>1. p' = Ended(2)
      BY <1>1, <2>2 DEF GrepOpenDirectory
    <3>2. QED
      BY <2>1, <3>1, GrepEnds
  <2>3. CASE result'.ret # -1
    <3> DEFINE fd == result'.ret
    <3>1. Open(Directory) /\ Found(Directory)
      BY <2>1, <2>3, OpenFailingStep DEF Open
    <3>2. fd \in Nat /\ fd \in table'.spaces \ Stdio /\ fd_array'[fd].file_type = "dir"
      BY <3>1, OpenHolds, DirectoryIsFound
    <3>3. p' = [p EXCEPT !.at = "entry", !.dir = fd]
      BY <1>1, <2>3 DEF GrepOpenDirectory
    <3> HIDE DEF fd
    <3>4. GrepShape(p', "entry") /\ p'.dir = fd
      BY <3>2, <3>3, GrepTypes DEF GrepShape
    <3>5. GrepHolds("entry")'
      BY <3>2, <3>4 DEF GrepHolds, Holding
    <3>6. QED
      BY <2>1, <3>4, <3>5, GrepGoesOn DEF GrepAts
  <2>4. QED
    BY <2>2, <2>3
<1>2. CASE GrepOpen
  <2>0. /\ IsString(p.fname) /\ p.fname # Directory
        /\ Holding(p.dir) /\ fd_array[p.dir].file_type = "dir"
    BY <1>2 DEF GrepOpen, At, GrepOK
  <2>1. KernelOK' /\ S!Next /\ (Open(p.fname) \/ OpenFailing(p.fname))
    BY <1>2, <2>0, Callings DEF GrepOpen
  <2>2. CASE result'.ret = -1
    <3>1. p' = Ended(3)
      BY <1>2, <2>2 DEF GrepOpen
    <3>2. QED
      BY <2>1, <3>1, GrepEnds
  <2>3. CASE result'.ret # -1
    <3> DEFINE fd == result'.ret
               data == [i \in 0 .. BUFSIZE |-> p.junk]
    <3>1. Open(p.fname) /\ Found(p.fname)
      BY <2>1, <2>3, OpenFailingStep DEF Open
    <3>2. fd \in Nat /\ fd \in table'.spaces \ Stdio /\ fd_array'[fd].file_type \in {"rtc", "file"}
          /\ p.dir \in table'.spaces \ Stdio /\ fd_array'[p.dir] = fd_array[p.dir]
      <4>1. /\ fd \in Nat /\ fd \in table'.spaces \ Stdio /\ fd_array'[fd] = NewFile(p.fname)
            /\ \A g \in table.spaces \ Stdio : /\ g \in table'.spaces \ Stdio
                                              /\ fd_array'[g] = fd_array[g]
        BY <2>0, <3>1, OpenHolds
      <4>2. NewFile(p.fname).file_type \in {"rtc", "file"}
        BY <2>0, <3>1, DirectoryIsFound
      <4>3. p.dir \in table'.spaces \ Stdio /\ fd_array'[p.dir] = fd_array[p.dir]
        BY <2>0, <4>1 DEF Holding
      <4>4. QED
        BY <4>1, <4>2, <4>3
    <3>3. p' = [p EXCEPT !.at = "read", !.fd = fd, !.last = 0, !.data = data]
      BY <1>2, <2>3 DEF GrepOpen
    <3> HIDE DEF fd, data
    <3>4. GrepShape(p', "read") /\ p'.fd = fd /\ p'.dir = p.dir /\ p'.fname = p.fname
      <4>1. 0 \in 0 .. BUFSIZE /\ GrepShape(p, p.at)
        BY GrepTypes, AskedSizes
      <4>2. QED
        BY <3>2, <3>3, <4>1 DEF GrepShape
    <3>5. GrepHolds("read")'
      BY <2>0, <3>2, <3>4 DEF GrepHolds, Holding
    <3>6. QED
      BY <2>1, <3>4, <3>5, GrepGoesOn DEF GrepAts
  <2>4. QED
    BY <2>2, <2>3
<1>3. QED
  BY <1>1, <1>2


LEMMA GrepReadings ==
    ASSUME KernelOK, GrepOK, GrepReadEntry \/ GrepRead
    PROVE  KernelOK' /\ GrepOK' /\ [S!Next]_S!vars
<1>0. /\ GrepShape(p, p.at) /\ p.last \in Nat /\ p.last <= BUFSIZE /\ BUFSIZE \in Nat
      /\ Holding(p.dir) /\ p.dir \in Fds /\ fd_array[p.dir].file_type = "dir"
  <2>1. Holding(p.dir) /\ fd_array[p.dir].file_type = "dir"
    BY DEF GrepReadEntry, GrepRead, At, GrepOK
  <2>2. QED
    BY <2>1, GrepTypes, AskedSizes DEF Holding, KernelOK, FdTables
<1>1. CASE GrepReadEntry
  <2>1. Reading(p.dir, SBUFSIZE - 1) /\ SBUFSIZE - 1 \in Asked /\ SBUFSIZE - 1 >= 0
    BY <1>1, AskedSizes DEF GrepReadEntry
  <2>2. /\ KernelOK' /\ S!Next /\ table' = table
        /\ \A g \in Fds : fd_array'[g].file_type = fd_array[g].file_type
        /\ result'.ret # -1 => IsString(result'.bytes)
    BY <1>0, <2>1, HeldReadKeeps
  <2>3. p' = CASE result'.ret = 0  -> Ended(0)
              [] result'.ret = -1 -> Ended(3)
              [] OTHER -> IF result'.bytes[1] = DOT THEN p
                          ELSE [p EXCEPT !.at = "file", !.fname = result'.bytes]
    BY <1>1 DEF GrepReadEntry
  <2>4. CASE result'.ret \in {0, -1}
    <3>1. p' = Ended(0) \/ p' = Ended(3)
      BY <2>3, <2>4
    <3>2. QED
      BY <2>2, <3>1, GrepEnds
  <2>5. CASE result'.ret \notin {0, -1} /\ result'.bytes[1] = DOT
    <3>1. p' = p
      BY <2>3, <2>5
    <3>2. GrepShape(p', "entry") /\ p.at = "entry"
      BY <1>0, <1>1, <3>1 DEF GrepReadEntry, At
    <3>3. GrepHolds("entry")'
      BY <1>0, <2>2, <3>1 DEF GrepHolds, Holding
    <3>4. QED
      BY <2>2, <3>2, <3>3, GrepGoesOn DEF GrepAts
  <2>6. CASE result'.ret \notin {0, -1} /\ result'.bytes[1] # DOT
    <3> DEFINE fname == result'.bytes
    <3>1. p' = [p EXCEPT !.at = "file", !.fname = fname]
      BY <2>3, <2>6
    <3>2. IsString(fname) /\ fname # Directory
      BY <2>2, <2>6 DEF Directory
    <3> HIDE DEF fname
    <3>3. GrepShape(p', "file") /\ p'.dir = p.dir /\ p'.fname = fname
      BY <1>0, <3>1 DEF GrepShape
    <3>4. GrepHolds("file")'
      BY <1>0, <2>2, <3>2, <3>3 DEF GrepHolds, Holding
    <3>5. QED
      BY <2>2, <3>3, <3>4, GrepGoesOn DEF GrepAts
  <2>7. QED
    BY <2>4, <2>5, <2>6
<1>2. CASE GrepRead
  <2>0. /\ IsString(p.fname) /\ p.fname # Directory /\ Holding(p.fd) /\ p.fd \in Fds
        /\ fd_array[p.fd].file_type \in {"rtc", "file"}
    <3>1. /\ IsString(p.fname) /\ p.fname # Directory /\ Holding(p.fd)
          /\ fd_array[p.fd].file_type \in {"rtc", "file"}
      BY <1>2 DEF GrepRead, At, GrepOK
    <3>2. QED
      BY <3>1 DEF Holding, KernelOK, FdTables
  <2> DEFINE room == BUFSIZE - p.last
             cnt == result'.ret
             data == [i \in 0 .. BUFSIZE |-> IF i \in p.last .. p.last + cnt - 1
                                             THEN Text(result'.bytes)[i - p.last + 1] ELSE p.data[i]]
  <2>1. Reading(p.fd, room) /\ room \in 0 .. BUFSIZE
    BY <1>0, <1>2 DEF GrepRead
  <2>2. room \in Asked /\ room >= 0
    BY <1>0, <2>1, AskedSizes
  <2> HIDE DEF room
  <2>3. /\ KernelOK' /\ S!Next /\ table' = table
        /\ \A g \in Fds : fd_array'[g].file_type = fd_array[g].file_type
        /\ result'.ret # -1 => result'.ret \in Nat /\ result'.ret <= room
    BY <2>0, <2>1, <2>2, HeldReadKeeps
  <2>4. p' = IF cnt = -1 THEN Ended(3)
             ELSE [p EXCEPT !.at = "line", !.cnt = cnt, !.last = p.last + cnt, !.line_start = 0,
                            !.data = data]
    BY <1>2 DEF GrepRead
  <2> HIDE DEF data
  <2>5. CASE cnt = -1
    <3>1. p' = Ended(3)
      BY <2>4, <2>5
    <3>2. QED
      BY <2>3, <3>1, GrepEnds
  <2>6. CASE cnt # -1
    <3>1. cnt \in 0 .. BUFSIZE /\ p.last + cnt \in 0 .. BUFSIZE
      BY <1>0, <2>1, <2>3, <2>6 DEF room
    <3> HIDE DEF cnt
    <3>2. p' = [p EXCEPT !.at = "line", !.cnt = cnt, !.last = p.last + cnt, !.line_start = 0,
                         !.data = data]
      BY <2>4, <2>6
    <3> DEFINE last == p.last + cnt
    <3>3. last \in 0 .. BUFSIZE
      BY <3>1
    <3>4. p' = [p EXCEPT !.at = "line", !.cnt = cnt, !.last = last, !.line_start = 0, !.data = data]
      BY <3>2
    <3> HIDE DEF last
    <3>5. /\ GrepShape(p', "line") /\ p'.dir = p.dir /\ p'.fd = p.fd /\ p'.fname = p.fname
          /\ p'.line_start = 0 /\ p'.last = last
      BY <1>0, <3>1, <3>3, <3>4 DEF GrepShape
    <3>6. GrepHolds("line")'
      BY <1>0, <2>0, <2>3, <3>3, <3>5 DEF GrepHolds, Holding
    <3>7. QED
      BY <2>3, <3>5, <3>6, GrepGoesOn DEF GrepAts
  <2>7. QED
    BY <2>5, <2>6
<1>3. QED
  BY <1>1, <1>2

LEMMA GrepLines ==
    ASSUME KernelOK, GrepOK, GrepLine
    PROVE  KernelOK' /\ GrepOK' /\ [S!Next]_S!vars
<1> DEFINE start == p.line_start
           end == LineEnd(start)
           data == Terminated(end)
           line == StringFrom(data, start, NUL)
<1>0. /\ GrepShape(p, p.at) /\ p.last \in Nat /\ p.last <= BUFSIZE /\ BUFSIZE \in Nat
      /\ start \in Nat /\ start <= p.last
  BY GrepTypes, AskedSizes DEF GrepLine, At, GrepOK
<1>1. end \in start .. p.last
  BY <1>0, LineEndIs
<1>2. KernelOK' /\ UNCHANGED S!vars /\ table' = table /\ fd_array' = fd_array
  BY NoCallStep DEF GrepLine, NoCall, kernel
<1>3. /\ Holding(p.dir) /\ fd_array[p.dir].file_type = "dir"
      /\ IsString(p.fname) /\ p.fname # Directory
      /\ Holding(p.fd) /\ fd_array[p.fd].file_type \in {"rtc", "file"}
  BY DEF GrepLine, At, GrepOK
<1>4. ASSUME NEW at \in {"read", "line", "close"}, GrepShape(p', at),
             p'.dir = p.dir, p'.fd = p.fd, p'.fname = p.fname,
             at = "line" => p'.line_start <= p'.last
      PROVE  GrepOK'
  <2>1. GrepHolds(at)'
    BY <1>2, <1>3, <1>4 DEF GrepHolds, Holding
  <2>2. QED
    BY <1>4, <2>1, GrepGoesOn DEF GrepAts
<1>5. CASE p.data[end] # NEWLINE /\ p.cnt # 0 /\ start # 0
  <2> DEFINE moved == MovedToFront(line)
             left == p.last - start
  <2>1. p' = [p EXCEPT !.at = "read", !.data = moved, !.last = left]
    BY <1>5 DEF GrepLine, Kept
  <2>2. left \in 0 .. BUFSIZE
    BY <1>0
  <2> HIDE DEF moved, left
  <2>3. GrepShape(p', "read") /\ p'.dir = p.dir /\ p'.fd = p.fd /\ p'.fname = p.fname
    BY <1>0, <2>1, <2>2 DEF GrepShape
  <2>4. QED
    BY <1>2, <1>4, <2>3
<1>6. CASE ~(p.data[end] # NEWLINE /\ p.cnt # 0 /\ start # 0)
  <2> DEFINE next == end + 1
             last == IF next >= p.last THEN 0 ELSE p.last
             at == IF next < p.last THEN "line" ELSE IF p.cnt = 0 THEN "close" ELSE "read"
  <2>1. p' = [p EXCEPT !.data = data, !.line_start = next, !.last = last, !.at = at]
    BY <1>6 DEF GrepLine
  <2>2. next \in Nat /\ last \in 0 .. BUFSIZE /\ at \in {"read", "line", "close"}
        /\ (at = "line" => next <= last)
    <3> HIDE DEF end
    <3>1. next \in Nat
      BY <1>0, <1>1
    <3> HIDE DEF next
    <3>2. last \in 0 .. BUFSIZE
      BY <1>0
    <3>3. at \in {"read", "line", "close"}
      OBVIOUS
    <3>4. at = "line" => next <= last
      BY <1>0, <3>1
    <3>5. QED
      BY <3>1, <3>2, <3>3, <3>4
  <2> HIDE DEF data, next, last, at
  <2>3. GrepShape(p', at) /\ p'.dir = p.dir /\ p'.fd = p.fd /\ p'.fname = p.fname
        /\ p'.line_start = next /\ p'.last = last
    BY <1>0, <2>1, <2>2 DEF GrepShape
  <2>4. QED
    BY <1>2, <1>4, <2>2, <2>3
<1>7. QED
  BY <1>5, <1>6

LEMMA GrepStep ==
    ASSUME KernelOK, GrepOK, ReadArgument("grep", "directory") \/ Grep
    PROVE  KernelOK' /\ GrepOK' /\ [S!Next]_S!vars
<1>0. GrepShape(p, p.at)
  BY GrepTypes
<1>1. CASE ReadArgument("grep", "directory")
  <2>1. KernelOK' /\ UNCHANGED S!vars
    BY <1>1, NoCallStep DEF ReadArgument
  <2>2. CASE p.arg = << >>
    <3>1. p' = Ended(3)
      BY <1>1, <2>2 DEF ReadArgument
    <3>2. QED
      BY <2>1, <3>1, GrepEnds
  <2>3. CASE p.arg # << >>
    <3>1. p' = [p EXCEPT !.at = "directory"]
      BY <1>1, <2>3 DEF ReadArgument
    <3>2. GrepShape(p', "directory")
      BY <1>0, <3>1 DEF GrepShape
    <3>3. GrepHolds("directory")'
      BY DEF GrepHolds
    <3>4. QED
      BY <2>1, <3>2, <3>3, GrepGoesOn DEF GrepAts
  <2>4. QED
    BY <2>2, <2>3
<1>2. CASE GrepClose
  <2>1. KernelOK' /\ S!Next /\ Close(p.fd)
    BY <1>2, Callings DEF GrepClose
  <2>2. CASE result'.ret = -1
    <3>1. p' = Ended(3)
      BY <1>2, <2>2 DEF GrepClose
    <3>2. QED
      BY <2>1, <3>1, GrepEnds
  <2>3. CASE result'.ret # -1
    <3>1. p' = [p EXCEPT !.at = "entry"]
      BY <1>2, <2>3 DEF GrepClose
    <3>2. GrepShape(p', "entry") /\ p'.dir = p.dir
      BY <1>0, <3>1 DEF GrepShape
    <3>3. /\ Holding(p.dir) /\ fd_array[p.dir].file_type = "dir"
          /\ fd_array[p.fd].file_type \in {"rtc", "file"}
      BY <1>2 DEF GrepClose, At, GrepOK
    <3>4. /\ p.fd \in Openable /\ table'.spaces = table.spaces \ {p.fd}
          /\ fd_array' = [fd_array EXCEPT ![p.fd] = NoFile]
      BY <2>1, <2>3, CloseStep
    <3>5. p.dir # p.fd /\ fd_array \in [Fds -> FdFiles] /\ p.dir \in Fds
      BY <3>3 DEF KernelOK, FdTables, Holding
    <3>6. GrepHolds("entry")'
      BY <3>2, <3>3, <3>4, <3>5 DEF GrepHolds, Holding
    <3>7. QED
      BY <2>1, <3>2, <3>6, GrepGoesOn DEF GrepAts
  <2>4. QED
    BY <2>2, <2>3
<1>3. QED
  BY <1>1, <1>2, GrepOpenings, GrepReadings, GrepLines DEF Grep


-----------------------------------------------------------------------------
\* counter and fish.
LEMMA CounterStep ==
    ASSUME KernelOK, CounterOK, Counter
    PROVE  KernelOK' /\ CounterOK' /\ [S!Next]_S!vars
<1>1. CASE CounterAsk
  <2>1. Reading(0, BUFSIZE - 1) /\ BUFSIZE - 1 \in 0 .. BUFSIZE
    BY <1>1, AskedSizes DEF CounterAsk
  <2>2. Readable(0, BUFSIZE - 1)
    BY <2>1, AskedSizes DEF Readable
  <2>3. KernelOK' /\ S!Next
    BY <2>1, <2>2, Callings
  <2>4. PICK max : p' \in {Ended(3), Ended(0), [p EXCEPT !.at = "count", !.max = max]}
    BY <1>1 DEF CounterAsk
  <2>5. CounterOK'
    BY <2>4 DEF CounterOK, Ended
  <2>6. QED
    BY <2>3, <2>5
<1>2. CASE CounterCount
  <2>1. KernelOK' /\ UNCHANGED S!vars
    BY <1>2, NoCallStep DEF CounterCount
  <2>2. p' = [p EXCEPT !.i = p.i + 1] \/ p' = Ended(0)
    BY <1>2 DEF CounterCount
  <2>3. CounterOK'
    <3> DEFINE i == p.i + 1
    <3>1. p' = [p EXCEPT !.i = i] \/ p' = Ended(0)
      BY <2>2
    <3> HIDE DEF i
    <3>2. QED
      BY <3>1 DEF CounterOK, Ended
  <2>4. QED
    BY <2>1, <2>3
<1>3. QED
  BY <1>1, <1>2 DEF Counter

FishAts == {"open", "read", "show", "row", "ended"}
FishShape(q) == q \in [prog : {"fish"}, at : FishAts, status : {q.status}, k : {1, 2},
                       fd : {q.fd}, c : {q.c}, eof : {q.eof}, row : {q.row}, col : {q.col}]

LEMMA FishShapes ==
    /\ FishOK <=> FishShape(p)
    /\ FishOK' <=> FishShape(p')
    /\ \A status : FishShape(p) => FishShape(Ended(status))
    /\ \A at \in FishAts, next \in FishAts : FishShape(p) => FishShape(Second(at, next))
<1>1. FishOK <=> FishShape(p)
  BY DEF FishOK, FishShape, FishAts
<1>2. FishOK' <=> FishShape(p')
  BY DEF FishOK, FishShape, FishAts
<1>3. ASSUME NEW status, FishShape(p) PROVE FishShape(Ended(status))
  BY <1>3 DEF FishShape, Ended, FishAts
<1>4. ASSUME NEW at \in FishAts, NEW next \in FishAts, FishShape(p)
      PROVE  FishShape(Second(at, next))
  <2>1. 3 - p.k \in {1, 2}
    BY <1>4 DEF FishShape
  <2> DEFINE k == 3 - p.k
             go == IF p.k = 1 THEN at ELSE next
  <2>2. Second(at, next) = [p EXCEPT !.k = k, !.at = go]
    BY DEF Second
  <2>3. k \in {1, 2} /\ go \in FishAts
    BY <2>1
  <2> HIDE DEF k, go
  <2>4. QED
    BY <1>4, <2>2, <2>3 DEF FishShape
<1>5. QED
  BY <1>1, <1>2, <1>3, <1>4

LEMMA FishStep ==
    ASSUME KernelOK, FishOK, Fish
    PROVE  KernelOK' /\ FishOK' /\ [S!Next]_S!vars
<1>0. FishShape(p) /\ p.k \in {1, 2}
  BY FishShapes DEF FishOK
<1>1. CASE FishOpen
  <2>1. Opening(Frames[p.k]) /\ IsString(Frames[p.k])
    BY <1>0, <1>1, FramesAssumption DEF FishOpen
  <2>2. KernelOK' /\ S!Next
    BY <2>1, Callings
  <2> DEFINE q == Second("open", "read")
             fds == [q.fd EXCEPT ![p.k] = result'.ret]
  <2>3. p' = Ended(-1) \/ p' = [q EXCEPT !.fd = fds]
    BY <1>1 DEF FishOpen
  <2>4. FishShape(q)
    BY <1>0, FishShapes DEF FishAts
  <2> HIDE DEF q, fds
  <2>5. FishShape(p')
    <3>1. CASE p' = Ended(-1)
      BY <1>0, <3>1, FishShapes
    <3>2. CASE p' = [q EXCEPT !.fd = fds]
      BY <2>4, <3>2 DEF FishShape
    <3>3. QED
      BY <2>3, <3>1, <3>2
  <2>6. QED
    BY <2>2, <2>5, FishShapes
<1>2. CASE FishRead
  <2> DEFINE q == Second("read", "show")
             c == Text(result'.bytes)
             cs == [q.c EXCEPT ![p.k] = NEWLINE]
             eofs == [q.eof EXCEPT ![p.k] = TRUE]
             c1 == [q.c EXCEPT ![p.k] = c[1]]
  <2>1. FishShape(q)
    BY <1>0, FishShapes DEF FishAts
  <2>2. CASE p.c[p.k] = NEWLINE
    <3>1. p' = q /\ NoCall
      BY <1>2, <2>2 DEF FishRead
    <3>2. QED
      BY <2>1, <3>1, NoCallStep, FishShapes
  <2>3. CASE p.c[p.k] # NEWLINE
    <3>1. Reading(p.fd[p.k], 1) /\ Readable(p.fd[p.k], 1)
      BY <1>2, <2>3, AskedSizes DEF FishRead, Readable
    <3>2. KernelOK' /\ S!Next
      BY <3>1, Callings
    <3>3. p' \in {[[q EXCEPT !.c = cs] EXCEPT !.eof = eofs], [q EXCEPT !.c = c1], q}
      BY <1>2, <2>3 DEF FishRead
    <3> HIDE DEF q, cs, eofs, c1
    <3>4. FishShape(p')
      <4>1. CASE p' = [[q EXCEPT !.c = cs] EXCEPT !.eof = eofs]
        BY <2>1, <4>1 DEF FishShape
      <4>2. CASE p' = [q EXCEPT !.c = c1]
        BY <2>1, <4>2 DEF FishShape
      <4>3. QED
        BY <2>1, <3>3, <4>1, <4>2
    <3>5. QED
      BY <3>2, <3>4, FishShapes
  <2>4. QED
    BY <2>2, <2>3
<1>3. CASE FishShow
  <2>1. KernelOK' /\ UNCHANGED S!vars
    BY <1>3, NoCallStep DEF FishShow
  <2> DEFINE col == p.col + 1
  <2>2. p' = [p EXCEPT !.at = "row"] \/ p' = [[p EXCEPT !.at = "read"] EXCEPT !.col = col]
    BY <1>3, <1>0 DEF FishShow, FishShape
  <2> HIDE DEF col
  <2>3. FishShape(p')
    BY <1>0, <2>2 DEF FishShape, FishAts
  <2>4. QED
    BY <2>1, <2>3, FishShapes
<1>4. CASE FishRow
  <2>1. KernelOK' /\ [S!Next]_S!vars
    <3>1. CASE p.eof[p.k]
      BY <1>4, <3>1, Callings DEF FishRow
    <3>2. CASE ~p.eof[p.k]
      BY <1>4, <3>2, NoCallStep DEF FishRow
    <3>3. QED
      BY <3>1, <3>2
  <2> DEFINE second == Second("row", "read")
             cs == [second.c EXCEPT ![p.k] = IF p.eof[p.k] THEN NEWLINE ELSE lookup[1]]
             next == [second EXCEPT !.c = cs]
             row == next.row + 1
  <2>2. p' \in {next, [next EXCEPT !.at = "ended"], [[next EXCEPT !.row = row] EXCEPT !.col = 0]}
    <3>1. p' = IF p.k = 1 THEN next
               ELSE IF p.eof = <<TRUE, TRUE>> THEN [next EXCEPT !.at = "ended"]
               ELSE [next EXCEPT !.row = row, !.col = 0]
      BY <1>4 DEF FishRow
    <3> HIDE DEF next, row
    <3>2. [next EXCEPT !.row = row, !.col = 0] = [[next EXCEPT !.row = row] EXCEPT !.col = 0]
      OBVIOUS
    <3>3. QED
      BY <3>1, <3>2
  <2>3. FishShape(next)
    <3>1. FishShape(second)
      BY <1>0, FishShapes DEF FishAts
    <3> HIDE DEF second, cs
    <3>2. QED
      BY <3>1 DEF FishShape
  <2> HIDE DEF next, row
  <2>4. FishShape(p')
    <3>1. CASE p' = [next EXCEPT !.at = "ended"]
      BY <2>3, <3>1 DEF FishShape, FishAts
    <3>2. CASE p' = [[next EXCEPT !.row = row] EXCEPT !.col = 0]
      BY <2>3, <3>2 DEF FishShape
    <3>3. QED
      BY <2>2, <2>3, <3>1, <3>2
  <2>5. QED
    BY <2>1, <2>4, FishShapes
<1>5. QED
  BY <1>1, <1>2, <1>3, <1>4 DEF Fish


-----------------------------------------------------------------------------
(***************************************************************************)
(* syserr: the calls of its tests.                                         *)
(***************************************************************************)
Listed(test) == Calls(Directory)[test]

LEMMA OnFdsIs ==
    ASSUME NEW eax, NEW first \in 0 .. 2
    PROVE  /\ IsString(OnFds(eax, first)) /\ Len(OnFds(eax, first)) = FD_ARRAY_SIZE - first
           /\ \A k \in 1 .. FD_ARRAY_SIZE - first : OnFds(eax, first)[k] = Fd(eax, first + k - 1)
<1> DEFINE n == FD_ARRAY_SIZE - first
           s == OnFds(eax, first)
<1>1. n \in Nat
  BY FdAssumption
<1>2. s = [k \in 1 .. n |-> Fd(eax, first + k - 1)]
  BY DEF OnFds
<1> HIDE DEF n, s
<1>3. DOMAIN s = 1 .. n /\ s = [k \in 1 .. n |-> s[k]] /\ \A k \in 1 .. n : s[k] = Fd(eax, first + k - 1)
  BY <1>2
<1>4. IsString(s) /\ Len(s) = n
  BY <1>1, <1>3, StringIs
<1>5. QED
  BY <1>3, <1>4 DEF n, s

LEMMA OpenLots ==
    /\ Len(Listed(3)) = 2 * FD_ARRAY_SIZE - 3
    /\ \A k \in 1 .. Len(Listed(3)) :
          Listed(3)[k] = IF k <= FD_ARRAY_SIZE - 1 THEN Named(Directory)
                         ELSE Fd(SYS_CLOSE, k - FD_ARRAY_SIZE + 2)
<1> DEFINE n == FD_ARRAY_SIZE - 1
           s == [k \in 1 .. n |-> Named(Directory)]
           t == OnFds(SYS_CLOSE, 2)
<1>0. n \in Nat /\ FD_ARRAY_SIZE \in Nat
  BY FdAssumption
<1>1. Listed(3) = s \o t
  BY DEF Listed, Calls
<1>2. IsString(t) /\ Len(t) = FD_ARRAY_SIZE - 2
      /\ \A k \in 1 .. FD_ARRAY_SIZE - 2 : t[k] = Fd(SYS_CLOSE, 2 + k - 1)
  BY OnFdsIs
<1>3. DOMAIN s = 1 .. n /\ s = [k \in 1 .. n |-> s[k]] /\ \A k \in 1 .. n : s[k] = Named(Directory)
  OBVIOUS
<1> HIDE DEF s, t
<1>4. IsString(s) /\ Len(s) = n
  BY <1>0, <1>3, StringIs
<1> DEFINE c == s \o t
           m == Len(s) + Len(t)
<1>5. Len(c) = m
      /\ c = [i \in 1 .. m |-> IF i <= Len(s) THEN s[i] ELSE t[i - Len(s)]]
  BY <1>2, <1>4, JoinString
<1>6. m = 2 * FD_ARRAY_SIZE - 3
  BY <1>0, <1>2, <1>4
<1> HIDE DEF c, m
<1>7. ASSUME NEW k \in 1 .. m
      PROVE  c[k] = IF k <= FD_ARRAY_SIZE - 1 THEN Named(Directory)
                    ELSE Fd(SYS_CLOSE, k - FD_ARRAY_SIZE + 2)
  <2>1. c[k] = IF k <= n THEN s[k] ELSE t[k - n]
    BY <1>4, <1>5
  <2>2. CASE k <= n
    <3>1. k \in 1 .. n
      BY <1>0, <1>6, <2>2
    <3>2. QED
      BY <1>3, <2>1, <2>2, <3>1
  <2>3. CASE ~(k <= n)
    <3>1. k - n \in 1 .. FD_ARRAY_SIZE - 2 /\ 2 + (k - n) - 1 = k - FD_ARRAY_SIZE + 2
      BY <1>0, <1>6, <2>3
    <3>2. QED
      BY <1>2, <2>1, <2>3, <3>1
  <2>4. QED
    BY <2>2, <2>3
<1>8. QED
  BY <1>1, <1>5, <1>6, <1>7 DEF c

LEMMA NotOpened ==
    /\ Len(Listed(5)) = 3 * FD_ARRAY_SIZE - 4
    /\ \A k \in 1 .. Len(Listed(5)) :
          \/ \E fd \in Fds : Listed(5)[k] = Fd(SYS_CLOSE, fd)
          \/ \E fd \in Openable : Listed(5)[k] \in {Fd(SYS_READ, fd), Fd(SYS_WRITE, fd)}
<1> DEFINE s == OnFds(SYS_CLOSE, 0)
           t == OnFds(SYS_READ, 2)
           u == OnFds(SYS_WRITE, 2)
           a == FD_ARRAY_SIZE
           b == FD_ARRAY_SIZE - 2
<1>0. a \in Nat /\ b \in Nat /\ a > 2 /\ b = a - 2 /\ FD_ARRAY_SIZE = a
  BY FdAssumption
<1>1. Listed(5) = (s \o t) \o u
  BY DEF Listed, Calls
<1>2. IsString(s) /\ Len(s) = a - 0 /\ \A k \in 1 .. a - 0 : s[k] = Fd(SYS_CLOSE, 0 + k - 1)
  BY OnFdsIs
<1>3. IsString(t) /\ Len(t) = b /\ \A k \in 1 .. b : t[k] = Fd(SYS_READ, 2 + k - 1)
  BY OnFdsIs
<1>4. IsString(u) /\ Len(u) = b /\ \A k \in 1 .. b : u[k] = Fd(SYS_WRITE, 2 + k - 1)
  BY OnFdsIs
<1>5. \A k \in 1 .. a : 0 + k - 1 \in Fds
  BY <1>0 DEF Fds
<1>6. \A k \in 1 .. b : 2 + k - 1 \in Openable
  BY <1>0 DEF Fds, Openable, Stdio
<1>a. a - 0 = a
  BY <1>0
<1> HIDE DEF s, t, u, a, b
<1> DEFINE st == s \o t
<1>7. IsString(st) /\ Len(st) = a + b
      /\ st = [i \in 1 .. a + b |-> IF i <= a THEN s[i] ELSE t[i - a]]
  <2>1. /\ IsString(st) /\ Len(st) = Len(s) + Len(t)
        /\ st = [i \in 1 .. Len(s) + Len(t) |-> IF i <= Len(s) THEN s[i] ELSE t[i - Len(s)]]
    BY <1>2, <1>3, JoinString
  <2>2. QED
    BY <1>2, <1>3, <1>a, <2>1
<1> HIDE DEF st
<1> DEFINE stu == st \o u
<1>8. Len(stu) = (a + b) + b
      /\ stu = [i \in 1 .. (a + b) + b |-> IF i <= a + b THEN st[i] ELSE u[i - (a + b)]]
  <2>1. /\ Len(stu) = Len(st) + Len(u)
        /\ stu = [i \in 1 .. Len(st) + Len(u) |-> IF i <= Len(st) THEN st[i] ELSE u[i - Len(st)]]
    <3>1. IsString(st) /\ IsString(u)
      BY <1>4, <1>7
    <3>2. QED
      BY <3>1, JoinString
  <2>2. Len(st) = a + b /\ Len(u) = b
    BY <1>4, <1>7
  <2> HIDE DEF stu
  <2>3. QED
    BY <2>1, <2>2
<1> HIDE DEF stu
<1>9. ASSUME NEW k \in 1 .. (a + b) + b
      PROVE  \/ \E fd \in Fds : stu[k] = Fd(SYS_CLOSE, fd)
             \/ \E fd \in Openable : stu[k] \in {Fd(SYS_READ, fd), Fd(SYS_WRITE, fd)}
  <2>1. CASE k <= a
    <3>1. k \in 1 .. a /\ k <= a + b /\ k \in 1 .. a + b
      BY <1>0, <2>1
    <3>2. stu[k] = s[k]
      BY <1>7, <1>8, <2>1, <3>1
    <3>3. QED
      BY <1>2, <1>5, <1>a, <3>1, <3>2
  <2>2. CASE ~(k <= a) /\ k <= a + b
    <3>1. k - a \in 1 .. b /\ k \in 1 .. a + b
      BY <1>0, <2>2
    <3>2. stu[k] = t[k - a]
      BY <1>7, <1>8, <2>2, <3>1
    <3>3. QED
      BY <1>3, <1>6, <3>1, <3>2
  <2>3. CASE ~(k <= a + b)
    <3>1. k - (a + b) \in 1 .. b
      BY <1>0, <2>3
    <3>2. stu[k] = u[k - (a + b)]
      BY <1>8, <2>3
    <3>3. QED
      BY <1>4, <1>6, <3>1, <3>2
  <2>4. QED
    BY <1>0, <2>1, <2>2, <2>3
<1>10. (a + b) + b = 3 * FD_ARRAY_SIZE - 4
  BY <1>0
<1>11. QED
  BY <1>1, <1>8, <1>9, <1>10 DEF st, stu

\* The other tests.
LEMMA OtherTests ==
    /\ Listed(1) = OnAny(NEG_FD) /\ Listed(2) = OnAny(BIG_FD)
    /\ Len(Listed(1)) = 3 /\ Len(Listed(2)) = 3
    /\ \A test \in {1, 2} : \A k \in 1 .. 3 : \E fd \in {NEG_FD, BIG_FD} :
          Listed(test)[k] \in {Fd(SYS_READ, fd), Fd(SYS_WRITE, fd), Fd(SYS_CLOSE, fd)}
    /\ Len(Listed(4)) = Len(NearMisses) /\ Len(Listed(4)) \in Nat \ {0}
    /\ \A k \in 1 .. Len(NearMisses) : Listed(4)[k] = Named(NearMisses[k])
    /\ Len(Listed(6)) = 2 /\ Listed(6)[1] = Pointer("null") /\ Listed(6)[2] = Pointer("kernel")
    /\ Len(Listed(7)) = 2 /\ Listed(7)[1] = Fd(SYS_WRITE, 0) /\ Listed(7)[2] = Fd(SYS_READ, 1)
    /\ Len(Listed(8)) = 3
    /\ Listed(8)[1] = Number(BIG_FD) /\ Listed(8)[2] = Number(NEG_FD) /\ Listed(8)[3] = Number(0)
<1>1. /\ Listed(1) = OnAny(NEG_FD) /\ Listed(2) = OnAny(BIG_FD)
      /\ Listed(4) = [k \in 1 .. Len(NearMisses) |-> Named(NearMisses[k])]
      /\ Listed(6) = <<Pointer("null"), Pointer("kernel")>>
      /\ Listed(7) = <<Fd(SYS_WRITE, 0), Fd(SYS_READ, 1)>>
      /\ Listed(8) = <<Number(BIG_FD), Number(NEG_FD), Number(0)>>
  BY DEF Listed, Calls
<1>2. \A fd : /\ Len(OnAny(fd)) = 3 /\ OnAny(fd)[1] = Fd(SYS_READ, fd)
              /\ OnAny(fd)[2] = Fd(SYS_WRITE, fd) /\ OnAny(fd)[3] = Fd(SYS_CLOSE, fd)
  BY DEF OnAny
<1>3. \A k \in 1 .. 3 : k = 1 \/ k = 2 \/ k = 3
  OBVIOUS
<1>4. \A test \in {1, 2} : \A k \in 1 .. 3 : \E fd \in {NEG_FD, BIG_FD} :
          Listed(test)[k] \in {Fd(SYS_READ, fd), Fd(SYS_WRITE, fd), Fd(SYS_CLOSE, fd)}
  BY <1>1, <1>2, <1>3
<1>5. Len(NearMisses) \in Nat \ {0}
  BY SyserrAssumption, StringFacts
<1>6. Len(Listed(4)) = Len(NearMisses)
  BY <1>1, <1>5
<1>7. QED
  BY <1>1, <1>2, <1>4, <1>5, <1>6


LEMMA ListedLen ==
    \A test \in 1 .. 8 : Len(Listed(test)) \in Nat \ {0}
<1>1. \A test \in 1 .. 8 : test \in {1, 2, 4, 6, 7, 8} \/ test = 3 \/ test = 5
  OBVIOUS
<1>2. 2 * FD_ARRAY_SIZE - 3 \in Nat \ {0} /\ 3 * FD_ARRAY_SIZE - 4 \in Nat \ {0}
  BY FdAssumption
<1>3. \A test \in {1, 2, 4, 6, 7, 8} : Len(Listed(test)) \in Nat \ {0}
  BY OtherTests
<1>4. Len(Listed(3)) \in Nat \ {0} /\ Len(Listed(5)) \in Nat \ {0}
  BY <1>2, OpenLots, NotOpened
<1>5. QED
  BY <1>1, <1>3, <1>4

LEMMA FdCall ==
    ASSUME NEW eax, NEW fd
    PROVE  LET call == Fd(eax, fd)
           IN  /\ call.eax = eax /\ call.args.fd = fd /\ call.args.nbytes = READ_SIZE
               /\ call.args.buf = "user"
BY DEF Fd, NoArguments

\* With stdin and stdout open, nothing else can be read, written or closed.
LEMMA FdRefused ==
    ASSUME KernelOK, table = FreshTable, NEW fd \in Int,
           NEW eax \in {SYS_READ, SYS_WRITE, SYS_CLOSE},
           fd \notin Stdio \/ eax = SYS_CLOSE \/ (fd = 0 /\ eax = SYS_WRITE)
              \/ (fd = 1 /\ eax = SYS_READ),
           NEW a, a.fd = fd, a.nbytes = READ_SIZE, SystemCall(eax, a)
    PROVE  KernelOK' /\ S!Next /\ result'.ret = -1 /\ table' = table
<1>0. READ_SIZE \in Asked /\ READ_SIZE \in Int /\ READ_SIZE >= 0 /\ table.spaces = Stdio
  BY AskedSizes DEF FreshTable
<1>1. CASE eax = SYS_READ
  <2>1. Read(fd, a.buf, READ_SIZE) /\ (fd \notin Stdio \/ fd = 1)
    BY <1>1, Handlers DEF SystemCall, SYS_READ, SYS_CLOSE, SYS_WRITE
  <2>2. Refuse
    <3>1. CASE ~Usable(fd, a.buf)
      BY <2>1, <3>1 DEF Read
    <3>2. CASE Usable(fd, a.buf)
      <4>1. fd = 1
        BY <1>0, <2>1, <3>2 DEF Usable
      <4>2. BadRead(fd)
        BY <2>1, <3>2, <4>1 DEF Read, TerminalRead, RtcRead, DirectoryRead, FileRead, Reads, KernelOK
      <4>3. QED
        BY <4>2 DEF BadRead
    <3>3. QED
      BY <3>1, <3>2
  <2>3. QED
    BY <2>2, RefuseStep DEF Refuse, Answer
<1>2. CASE eax = SYS_WRITE
  <2>1. Write(fd, a.buf, READ_SIZE) /\ (fd \notin Stdio \/ fd = 0)
    BY <1>2, Handlers DEF SystemCall, SYS_READ, SYS_CLOSE, SYS_WRITE
  <2>2. Refuse
    <3>1. CASE ~Usable(fd, a.buf)
      BY <2>1, <3>1 DEF Write
    <3>2. CASE Usable(fd, a.buf)
      <4>1. fd = 0
        BY <1>0, <2>1, <3>2 DEF Usable
      <4>2. BadWrite(fd)
        BY <2>1, <3>2, <4>1 DEF Write, TerminalWrite, RtcWrite, Reads, KernelOK
      <4>3. QED
        BY <4>2 DEF BadWrite
    <3>3. QED
      BY <3>1, <3>2
  <2>3. QED
    BY <2>2, RefuseStep DEF Refuse, Answer
<1>3. CASE eax = SYS_CLOSE
  <2>1. Close(fd)
    BY <1>3, Handlers DEF SystemCall
  <2>2. CloseFails(table, fd)
    BY <1>0 DEF CloseFails, Stdio
  <2>3. Refuse
    BY <2>1, <2>2 DEF Close, Refuse, Answer
  <2>4. QED
    BY <2>3, RefuseStep DEF Refuse, Answer
<1>4. QED
  BY <1>1, <1>2, <1>3

\* Every call of the tests but the third must return -1, and does.
LEMMA TestsRefused ==
    ASSUME KernelOK, table = FreshTable, NEW test \in 1 .. 8, test # 3,
           NEW k \in 1 .. Len(Listed(test)),
           SystemCall(Listed(test)[k].eax, Listed(test)[k].args)
    PROVE  KernelOK' /\ S!Next /\ result'.ret = -1 /\ table' = table
<1> DEFINE call == Listed(test)[k]
           Goal == KernelOK' /\ S!Next /\ result'.ret = -1 /\ table' = table
<1>1. ASSUME NEW fd \in Int, NEW eax \in {SYS_READ, SYS_WRITE, SYS_CLOSE},
             fd \notin Stdio \/ eax = SYS_CLOSE \/ (fd = 0 /\ eax = SYS_WRITE)
                \/ (fd = 1 /\ eax = SYS_READ),
             call = Fd(eax, fd)
      PROVE  Goal
  <2> HIDE DEF call
  <2>1. call.eax = eax /\ call.args.fd = fd /\ call.args.nbytes = READ_SIZE
    BY <1>1, FdCall
  <2>2. SystemCall(eax, call.args)
    BY <2>1 DEF call
  <2>3. QED
    BY <1>1, <2>1, <2>2, FdRefused
<1>2. CASE test \in {1, 2}
  <2>1. PICK fd \in {NEG_FD, BIG_FD} : call \in {Fd(SYS_READ, fd), Fd(SYS_WRITE, fd), Fd(SYS_CLOSE, fd)}
    BY <1>2, OtherTests
  <2>2. fd \in Int /\ fd \notin Stdio
    BY DEF NEG_FD, BIG_FD, Stdio
  <2>3. QED
    BY <1>1, <2>1, <2>2
<1>3. CASE test = 4
  <2>1. k \in 1 .. Len(NearMisses) /\ call = Named(NearMisses[k])
    BY <1>3, OtherTests
  <2> HIDE DEF call
  <2>2. call.eax = SYS_OPEN /\ call.args.name = NearMisses[k]
    BY <2>1 DEF Named, NoArguments
  <2>3. SystemCall(SYS_OPEN, call.args)
    BY <2>2 DEF call
  <2>4. Open(NearMisses[k]) \/ OpenFailing(NearMisses[k])
    BY <2>2, <2>3, Handlers DEF SystemCall
  <2>5. OpenFailing(NearMisses[k])
    BY <2>1, <2>4, SyserrAssumption, LookupNamed DEF Open
  <2>6. QED
    BY <2>5, OpenFailingStep
<1>4. CASE test = 5
  <2>1. \/ \E fd \in Fds : call = Fd(SYS_CLOSE, fd)
        \/ \E fd \in Openable : call \in {Fd(SYS_READ, fd), Fd(SYS_WRITE, fd)}
    BY <1>4, NotOpened
  <2>2. CASE \E fd \in Fds : call = Fd(SYS_CLOSE, fd)
    <3>1. PICK fd \in Fds : call = Fd(SYS_CLOSE, fd)
      BY <2>2
    <3>2. fd \in Int
      BY DEF Fds
    <3>3. QED
      BY <1>1, <3>1, <3>2
  <2>3. CASE \E fd \in Openable : call \in {Fd(SYS_READ, fd), Fd(SYS_WRITE, fd)}
    <3>1. PICK fd \in Openable : call \in {Fd(SYS_READ, fd), Fd(SYS_WRITE, fd)}
      BY <2>3
    <3>2. fd \in Int /\ fd \notin Stdio
      BY FdFacts DEF Openable
    <3>3. QED
      BY <1>1, <3>1, <3>2
  <2>4. QED
    BY <2>1, <2>2, <2>3
<1>5. CASE test = 6
  <2>1. call \in {Pointer("null"), Pointer("kernel")}
    BY <1>5, OtherTests
  <2> HIDE DEF call
  <2>2. call.eax = SYS_VIDMAP /\ call.args.buf # "user"
    BY <2>1 DEF Pointer, NoArguments
  <2>3. SystemCall(SYS_VIDMAP, call.args)
    BY <2>2 DEF call
  <2>4. Vidmap(call.args.buf)
    BY <2>3, Handlers DEF SystemCall
  <2>5. QED
    BY <2>2, <2>4, VidmapStep
<1>6. CASE test = 7
  <2>1. call = Fd(SYS_WRITE, 0) \/ call = Fd(SYS_READ, 1)
    BY <1>6, OtherTests
  <2>2. PICK zero, one : zero = 0 /\ one = 1 /\ zero \in Int /\ one \in Int
    OBVIOUS
  <2>3. call = Fd(SYS_WRITE, zero) \/ call = Fd(SYS_READ, one)
    BY <2>1, <2>2
  <2> HIDE DEF call
  <2>4. QED
    BY <1>1, <2>2, <2>3, Zenon
<1>7. CASE test = 8
  <2>1. call \in {Number(BIG_FD), Number(NEG_FD), Number(0)}
    BY <1>7, OtherTests
  <2> HIDE DEF call
  <2>2. call.eax \notin 1 .. 12
    BY <2>1 DEF Number, BIG_FD, NEG_FD
  <2>3. Handler(call.eax) = "error" /\ SystemCall(call.eax, call.args)
    BY <2>2, Handlers DEF call
  <2>4. Refuse
    BY <2>3 DEF SystemCall
  <2>5. QED
    BY <2>4, RefuseStep DEF Refuse, Answer
<1>8. test \in {1, 2} \/ test = 4 \/ test = 5 \/ test = 6 \/ test = 7 \/ test = 8
  OBVIOUS
<1>9. QED
  BY <1>2, <1>3, <1>4, <1>5, <1>6, <1>7, <1>8

LEMMA DirectoryThere == Found(Directory)
<1>1. PICK k \in 1 .. Len(Dentries) : Dentries[k].name = Directory
  BY DirectoryAssumption DEF Directory
<1>2. Len(Directory) <= MAX_FILE_NAME_LENGTH
  BY <1>1, NameAssumption
<1>3. Matches(Directory, k)
  BY <1>1, <1>2 DEF Matches, Alike
<1>4. QED
  BY <1>1, <1>3 DEF Found

LEMMA LotsStep ==
    ASSUME KernelOK, NEW k \in 1 .. 2 * FD_ARRAY_SIZE - 3, LotsOpened(table, k),
           NEW eax, NEW args, SystemCall(eax, args),
           IF k <= FD_ARRAY_SIZE - 1 THEN eax = SYS_OPEN /\ args.name = Directory
           ELSE eax = SYS_CLOSE /\ args.fd = k - FD_ARRAY_SIZE + 2
    PROVE  /\ KernelOK' /\ S!Next
           /\ LotsOpened(table', k + 1)
           /\ result'.ret = -1 <=> k = FD_ARRAY_SIZE - 1
<1> DEFINE n == FD_ARRAY_SIZE
<1>0. n \in Nat /\ n > 2 /\ k \in Nat /\ k >= 1 /\ k <= 2 * n - 3
  BY FdAssumption
<1>1. CASE k < n - 1
  <2>1. table.spaces = 0 .. k /\ ~table.full
    BY <1>0, <1>1 DEF LotsOpened
  <2>2. FirstFree(table, k + 1) /\ \A fd : FirstFree(table, fd) => fd = k + 1
    BY <1>0, <1>1, <2>1 DEF FirstFree, FreeSlots
  <2>3. ~OpenFails(table)
    BY <2>1, <2>2 DEF OpenFails, FirstFree
  <2>4. Open(Directory) \/ OpenFailing(Directory)
    BY <1>0, <1>1, Handlers DEF SystemCall
  <2>5. Open(Directory)
    BY <2>3, <2>4, DirectoryThere DEF OpenFailing
  <2>6. table' = AfterOpen(table, k + 1) /\ result' = Returned(k + 1)
    BY <2>2, <2>5 DEF Open
  <2>7. LotsOpened(table', k + 1)
    <3>1. table'.spaces = (0 .. k) \cup {k + 1} /\ (table'.full <=> k + 1 = n - 1)
      BY <2>1, <2>6 DEF AfterOpen
    <3>2. (0 .. k) \cup {k + 1} = 0 .. k + 1 /\ k + 1 < n
      BY <1>0, <1>1
    <3>3. QED
      BY <3>1, <3>2 DEF LotsOpened
  <2>8. result'.ret = k + 1
    BY <2>6 DEF Returned
  <2>9. QED
    BY <1>0, <1>1, <2>5, <2>7, <2>8, OneString, OpenStep DEF Directory
<1>2. CASE k = n - 1
  <2>1. table.spaces = 0 .. k /\ table.full
    BY <1>0, <1>2 DEF LotsOpened
  <2>2. Open(Directory) \/ OpenFailing(Directory)
    BY <1>0, <1>2, Handlers DEF SystemCall
  <2>3. OpenFailing(Directory)
    BY <2>1, <2>2 DEF Open, OpenFails
  <2>4. KernelOK' /\ S!Next /\ result'.ret = -1 /\ table' = table
    BY <2>3, OpenFailingStep
  <2>5. k + 1 - n + 2 = 2 /\ 0 .. k = Stdio \cup (2 .. n - 1) /\ k + 1 = n
    BY <1>0, <1>2 DEF Stdio
  <2>6. LotsOpened(table', k + 1)
    BY <1>0, <2>1, <2>4, <2>5 DEF LotsOpened
  <2>7. QED
    BY <1>2, <2>4, <2>6
<1>3. CASE k >= n
  <2> DEFINE fd == k - n + 2
  <2>0. fd \in 2 .. n - 1
    BY <1>0, <1>3
  <2>1. table.spaces = Stdio \cup (fd .. n - 1)
    BY <1>0, <1>3 DEF LotsOpened
  <2>2. Close(fd)
    BY <1>0, <1>3, Handlers DEF SystemCall
  <2>3. ~CloseFails(table, fd)
    BY <1>0, <2>0, <2>1 DEF CloseFails
  <2>4. table' = AfterClose(table, fd) /\ result' = Returned(0)
    BY <2>2, <2>3 DEF Close
  <2>5. table'.spaces = (Stdio \cup (fd .. n - 1)) \ {fd} /\ ~table'.full /\ result'.ret = 0
    BY <2>1, <2>4 DEF AfterClose, Returned
  <2>6. (Stdio \cup (fd .. n - 1)) \ {fd} = Stdio \cup (k + 1 - n + 2 .. n - 1)
    BY <1>0, <2>0 DEF Stdio
  <2>7. LotsOpened(table', k + 1)
    BY <1>0, <1>3, <2>5, <2>6 DEF LotsOpened
  <2>8. QED
    BY <1>0, <1>3, <2>2, <2>5, <2>7, CloseStep
<1>4. QED
  BY <1>0, <1>1, <1>2, <1>3


\* The third test fails to open a descriptor once, and closes all that it opened.
LEMMA LotsTested ==
    ASSUME KernelOK, SyserrOK, p.tests # << >>, Head(p.tests) = OPEN_LOTS, CallTested(Directory)
    PROVE  /\ KernelOK' /\ S!Next
           /\ p'.prog = "syserr" /\ p'.fail = FALSE
           /\ IF p.next = Len(Listed(OPEN_LOTS))
              THEN p' = [p EXCEPT !.tests = Tail(@), !.next = 1, !.cnt = 0, !.fail = FALSE]
                   /\ table' = FreshTable
              ELSE /\ p'.tests = p.tests /\ p'.next = p.next + 1
                   /\ p'.cnt = (IF p.next + 1 < FD_ARRAY_SIZE THEN 0 ELSE 1)
                   /\ \E c : p' = [p EXCEPT !.tests = p.tests, !.next = p.next + 1, !.cnt = c,
                                           !.fail = FALSE]
                   /\ InOpenLots(p.next)'
<1> DEFINE n == FD_ARRAY_SIZE
           k == p.next
           m == 2 * n - 3
           call == Listed(OPEN_LOTS)[k]
           failed == call.eax = SYS_OPEN /\ result'.ret = -1
           cnt == IF failed THEN p.cnt + 1 ELSE p.cnt
           last == k = Len(Listed(OPEN_LOTS))
<1>0. n \in Nat /\ n > 2 /\ Len(Listed(OPEN_LOTS)) = m
  BY FdAssumption, OpenLots DEF OPEN_LOTS
<1>1. k \in 1 .. m /\ InOpenLots(k) /\ p.fail = FALSE
  BY <1>0 DEF SyserrOK, Listed
<1>2. /\ SystemCall(call.eax, call.args)
      /\ p' = [p EXCEPT !.tests = IF last THEN Tail(@) ELSE @, !.next = IF last THEN 1 ELSE @ + 1,
                        !.cnt = IF last THEN 0 ELSE cnt, !.fail = @ \/ (last /\ cnt # 1)]
  BY DEF CallTested, Listed
<1>3. call = IF k <= n - 1 THEN Named(Directory) ELSE Fd(SYS_CLOSE, k - n + 2)
  BY <1>0, <1>1, OpenLots DEF OPEN_LOTS
<1> HIDE DEF call
<1>4. IF k <= n - 1 THEN call.eax = SYS_OPEN /\ call.args.name = Directory
      ELSE call.eax = SYS_CLOSE /\ call.args.fd = k - n + 2
  BY <1>3, FdCall DEF Named, NoArguments
<1>5. /\ KernelOK' /\ S!Next /\ LotsOpened(table', k + 1)
      /\ result'.ret = -1 <=> k = n - 1
  BY <1>1, <1>2, <1>4, LotsStep DEF InOpenLots
<1>6. failed <=> k = n - 1
  BY <1>0, <1>1, <1>4, <1>5 DEF SYS_OPEN, SYS_CLOSE
<1>7. cnt = IF k + 1 < n THEN 0 ELSE 1
  BY <1>0, <1>1, <1>6 DEF InOpenLots
<1> HIDE DEF cnt
<1>8. p' = [p EXCEPT !.tests = IF last THEN Tail(@) ELSE @, !.next = IF last THEN 1 ELSE @ + 1,
                     !.cnt = IF last THEN 0 ELSE cnt, !.fail = FALSE]
  <2>1. (p.fail \/ (last /\ cnt # 1)) = FALSE
    BY <1>0, <1>1, <1>7
  <2>2. QED
    BY <1>2, <2>1
<1>9. p.prog = "syserr" /\ DOMAIN p = {"prog", "tests", "next", "cnt", "fail"}
  BY DEF SyserrOK
<1>10. CASE last
  <2>1. p' = [p EXCEPT !.tests = Tail(@), !.next = 1, !.cnt = 0, !.fail = FALSE]
    BY <1>8, <1>10
  <2>2. k + 1 - n + 2 = n /\ ~(k + 1 < n) /\ k + 1 # n /\ n .. n - 1 = {}
    BY <1>0, <1>10
  <2>a. table'.spaces = Stdio \cup (k + 1 - n + 2 .. n - 1) /\ ~table'.full
    <3> DEFINE j == k + 1
    <3>1. LotsOpened(table', j) /\ ~(j < n) /\ ~(j = n)
      BY <1>5, <2>2
    <3> HIDE DEF j
    <3>2. table'.spaces = Stdio \cup (j - n + 2 .. n - 1) /\ ~table'.full
      BY <3>1 DEF LotsOpened
    <3>3. QED
      BY <1>0, <1>1, <3>2 DEF j
  <2>3. table'.spaces = Stdio /\ ~table'.full
    BY <2>2, <2>a
  <2>4. table' = FreshTable
    BY <1>5, <2>3 DEF FreshTable, KernelOK, FdTables
  <2>5. QED
    BY <1>5, <1>9, <1>10, <2>1, <2>4
<1>11. CASE ~last
  <2>1. /\ p'.tests = p.tests /\ p'.next = k + 1 /\ p'.cnt = cnt
        /\ p'.fail = FALSE /\ p'.prog = p.prog
        /\ p' = [p EXCEPT !.tests = p.tests, !.next = k + 1, !.cnt = cnt, !.fail = FALSE]
    BY <1>8, <1>9, <1>11
  <2>2. InOpenLots(p.next)'
    BY <1>5, <1>7, <2>1 DEF InOpenLots
  <2>3. QED
    BY <1>5, <1>7, <1>9, <1>11, <2>1, <2>2
<1>12. QED
  BY <1>10, <1>11


\* A test starts, and what follows it, with stdin and stdout open.
LEMMA SyserrStarts ==
    ASSUME NEW tests \in Seq(1 .. 8),
           p = [prog |-> "syserr", tests |-> tests, next |-> 1, cnt |-> 0, fail |-> FALSE],
           table = FreshTable
    PROVE  SyserrOK
<1>1. p \in [prog : {"syserr"}, tests : Seq(1 .. 8), next : Nat, cnt : Nat, fail : {FALSE}]
      /\ p.tests = tests /\ p.next = 1 /\ p.cnt = 0
  OBVIOUS
<1>2. tests # << >> => p.next \in 1 .. Len(Calls(Directory)[Head(tests)])
  <2>1. tests # << >> => Head(tests) \in 1 .. 8
    OBVIOUS
  <2>2. tests # << >> => Len(Listed(Head(tests))) \in Nat \ {0}
    BY <2>1, ListedLen
  <2>3. QED
    BY <1>1, <2>2 DEF Listed
<1>3. InOpenLots(p.next)
  <2>1. Stdio = 0 .. 1 /\ 1 < FD_ARRAY_SIZE /\ 1 # FD_ARRAY_SIZE - 1
    BY FdAssumption DEF Stdio
  <2>2. LotsOpened(FreshTable, 1)
    BY <2>1 DEF LotsOpened, FreshTable
  <2>3. QED
    BY <1>1, <2>1, <2>2 DEF InOpenLots
<1>4. QED
  BY <1>1, <1>2, <1>3 DEF SyserrOK

LEMMA TestStarts ==
    ASSUME NEW tests \in Seq(1 .. 8),
           p' = [prog |-> "syserr", tests |-> tests, next |-> 1, cnt |-> 0, fail |-> FALSE],
           table' = FreshTable
    PROVE  SyserrOK'
<1>1. (p = [prog |-> "syserr", tests |-> tests, next |-> 1, cnt |-> 0, fail |-> FALSE]
       /\ table = FreshTable => SyserrOK)'
  BY SyserrStarts, PTL
<1>2. QED
  BY <1>1

LEMMA SyserrShape ==
    ASSUME SyserrOK, NEW t, NEW k, NEW c
    PROVE  [p EXCEPT !.tests = t, !.next = k, !.cnt = c, !.fail = FALSE] =
               [prog |-> "syserr", tests |-> t, next |-> k, cnt |-> c, fail |-> FALSE]
<1> DEFINE q == [p EXCEPT !.tests = t, !.next = k, !.cnt = c, !.fail = FALSE]
<1>1. q \in [prog : {"syserr"}, tests : {t}, next : {k}, cnt : {c}, fail : {FALSE}]
  BY DEF SyserrOK
<1> HIDE DEF q
<1>2. q = [prog |-> "syserr", tests |-> t, next |-> k, cnt |-> c, fail |-> FALSE]
  BY <1>1
<1>3. QED
  BY <1>2 DEF q

LEMMA SyserrStep ==
    ASSUME KernelOK, SyserrOK, CallTested(Directory)
    PROVE  KernelOK' /\ SyserrOK' /\ S!Next
<1> DEFINE test == Head(p.tests)
           k == p.next
           call == Listed(test)[k]
           last == k = Len(Listed(test))
<1>0. /\ p.tests # << >> /\ p.tests \in Seq(1 .. 8) /\ test \in 1 .. 8
      /\ k \in 1 .. Len(Listed(test))
      /\ Tail(p.tests) \in Seq(1 .. 8) /\ Len(Listed(test)) \in Nat
      /\ p.fail = FALSE
  <2>1. p.tests # << >> /\ p.tests \in Seq(1 .. 8)
    BY DEF CallTested, SyserrOK
  <2>2. test \in 1 .. 8 /\ Tail(p.tests) \in Seq(1 .. 8)
    BY <2>1
  <2>3. k \in 1 .. Len(Listed(test)) /\ Len(Listed(test)) \in Nat
    BY <2>1, <2>2, ListedLen DEF Listed, SyserrOK
  <2>4. p.fail = FALSE
    BY DEF SyserrOK
  <2>5. QED
    BY <2>1, <2>2, <2>3, <2>4
<1>1. CASE test = OPEN_LOTS
  <2>0. KernelOK' /\ S!Next
    BY <1>0, <1>1, LotsTested
  <2>1. CASE last
    <3>1. p' = [p EXCEPT !.tests = Tail(@), !.next = 1, !.cnt = 0, !.fail = FALSE]
          /\ table' = FreshTable
      BY <1>0, <1>1, <2>1, LotsTested
    <3>2. p' = [prog |-> "syserr", tests |-> Tail(p.tests), next |-> 1, cnt |-> 0, fail |-> FALSE]
      BY <3>1, SyserrShape
    <3>3. QED
      BY <1>0, <2>0, <3>1, <3>2, TestStarts
  <2>2. CASE ~last
    <3>1. /\ p'.prog = "syserr" /\ p'.fail = FALSE
          /\ p'.tests = p.tests /\ p'.next = k + 1
          /\ p'.cnt = (IF k + 1 < FD_ARRAY_SIZE THEN 0 ELSE 1)
          /\ InOpenLots(p.next)'
      BY <1>0, <1>1, <2>2, LotsTested
    <3>2. k + 1 \in 1 .. Len(Listed(test)) /\ k + 1 \in Nat
      BY <1>0, <2>2
    <3>3. p' \in [prog : {"syserr"}, tests : Seq(1 .. 8), next : Nat, cnt : Nat, fail : {FALSE}]
      <4>1. PICK c : p' = [p EXCEPT !.tests = p.tests, !.next = k + 1, !.cnt = c, !.fail = FALSE]
        BY <1>0, <1>1, <2>2, LotsTested
      <4>2. p' = [prog |-> "syserr", tests |-> p.tests, next |-> k + 1, cnt |-> c, fail |-> FALSE]
        BY <4>1, SyserrShape
      <4>3. c \in Nat
        BY <3>1, <4>2
      <4>4. QED
        BY <1>0, <3>2, <4>2, <4>3
    <3>4. QED
      BY <1>0, <1>1, <2>0, <3>1, <3>2, <3>3 DEF SyserrOK, Listed
  <2>3. QED
    BY <2>1, <2>2
<1>2. CASE test # OPEN_LOTS
  <2>1. table = FreshTable /\ p.cnt = 0
    BY <1>0, <1>2 DEF SyserrOK
  <2>2. SystemCall(call.eax, call.args)
    BY DEF CallTested, Listed
  <2>3. KernelOK' /\ S!Next /\ result'.ret = -1 /\ table' = table
    BY <1>0, <1>2, <2>1, <2>2, TestsRefused DEF OPEN_LOTS
  <2>a. (p.fail \/ result'.ret # -1) = FALSE
    BY <1>0, <2>3
  <2>b. p' = [p EXCEPT !.tests = IF last THEN Tail(p.tests) ELSE p.tests,
                       !.next = IF last THEN 1 ELSE k + 1,
                       !.cnt = IF last THEN 0 ELSE p.cnt, !.fail = p.fail \/ result'.ret # -1]
    BY <1>2 DEF CallTested, Listed
  <2>4. p' = [p EXCEPT !.tests = IF last THEN Tail(p.tests) ELSE p.tests,
                       !.next = IF last THEN 1 ELSE k + 1, !.cnt = 0, !.fail = FALSE]
    BY <2>1, <2>a, <2>b
  <2>5. CASE last
    <3>1. p' = [prog |-> "syserr", tests |-> Tail(p.tests), next |-> 1, cnt |-> 0, fail |-> FALSE]
      BY <2>4, <2>5, SyserrShape
    <3>2. QED
      BY <1>0, <2>1, <2>3, <3>1, TestStarts
  <2>6. CASE ~last
    <3>1. p' = [prog |-> "syserr", tests |-> p.tests, next |-> k + 1, cnt |-> 0, fail |-> FALSE]
      BY <2>4, <2>6, SyserrShape
    <3>2. k + 1 \in 1 .. Len(Listed(test)) /\ k + 1 \in Nat
      BY <1>0, <2>6
    <3>3. QED
      BY <1>0, <1>2, <2>1, <2>3, <3>1, <3>2 DEF SyserrOK, Listed
  <2>7. QED
    BY <2>5, <2>6
<1>3. QED
  BY <1>1, <1>2



-----------------------------------------------------------------------------
(***************************************************************************)
(* Every step, and the theorems.                                           *)
(***************************************************************************)
LEMMA AskedNames == \A name \in Names \cup OtherNames : IsString(name)
BY NameAssumption DEF Names

LEMMA AnyStep ==
    ASSUME KernelOK, AnyCall
    PROVE  KernelOK' /\ S!Next
<1>1. ASSUME NEW fd \in Fds \cup {-1, FD_ARRAY_SIZE}, NEW nbytes \in ReadSizes,
             nbytes >= 0 \/ ~Reads(fd, "dir"), Reading(fd, nbytes)
      PROVE  KernelOK' /\ S!Next
  <2>1. Readable(fd, nbytes)
    BY <1>1, AskedSizes DEF Readable
  <2>2. QED
    BY <1>1, <2>1, Callings
<1>2. ASSUME NEW fd \in Fds \cup {-1, FD_ARRAY_SIZE}, Writing(fd, -1) \/ Writing(fd, 1)
      PROVE  KernelOK' /\ S!Next
  <2>1. -1 \in Int /\ 1 \in Int /\ fd \in Int
    BY FdAssumption DEF Fds
  <2>2. QED
    BY <1>2, <2>1, Callings
<1>3. ASSUME NEW fd, NEW eax \in {SYS_READ, SYS_WRITE},
             SystemCall(eax, [NoArguments EXCEPT !.fd = fd, !.buf = "null"])
      PROVE  KernelOK' /\ S!Next
  <2> DEFINE a == [NoArguments EXCEPT !.fd = fd, !.buf = "null"]
  <2>1. a.buf = "null" /\ SystemCall(eax, a)
    BY <1>3 DEF NoArguments
  <2> HIDE DEF a
  <2>2. Read(a.fd, a.buf, a.nbytes) \/ Write(a.fd, a.buf, a.nbytes)
    BY <2>1, Handlers DEF SystemCall
  <2>3. Refuse
    BY <2>1, <2>2 DEF Read, Write, Usable
  <2>4. QED
    BY <2>3, RefuseStep
<1>4. ASSUME NEW fd, Closing(fd)
      PROVE  KernelOK' /\ S!Next
  BY <1>4, Callings
<1>5. ASSUME NEW name \in Names \cup OtherNames, Opening(name) \/ Execute(name)
      PROVE  KernelOK' /\ S!Next
  BY <1>5, AskedNames, Callings, ExecuteStep
<1>6. ASSUME NEW buf, SystemCall(SYS_VIDMAP, [NoArguments EXCEPT !.buf = buf])
      PROVE  KernelOK' /\ S!Next
  <2> DEFINE a == [NoArguments EXCEPT !.buf = buf]
  <2>1. SystemCall(SYS_VIDMAP, a)
    BY <1>6
  <2> HIDE DEF a
  <2>2. Vidmap(a.buf)
    BY <2>1, Handlers DEF SystemCall
  <2>3. QED
    BY <2>2, VidmapStep
<1>7. ASSUME NEW eax \in {-1, 0, SYS_SET_HANDLER, SYS_SIGRETURN, Len(syscall_table) + 1},
             SystemCall(eax, NoArguments)
      PROVE  KernelOK' /\ S!Next
  <2>1. Handler(eax) \in {"error", "set_handler", "sigreturn"}
    BY DEF Handler, syscall_table, SYS_SET_HANDLER, SYS_SIGRETURN
  <2>2. Permitted(Handler(eax), NoArguments)
    BY <2>1 DEF Permitted
  <2>3. QED
    BY <1>7, <2>2, CallStep
<1>8. QED
  BY <1>1, <1>2, <1>3, <1>4, <1>5, <1>6, <1>7 DEF AnyCall

LEMMA InitKeeps ==
    ASSUME Init
    PROVE  Inv /\ S!Init
<1>1. KernelOK /\ StreamNow = [fd \in Openable |-> ClosedStream]
      /\ table = FreshTable /\ result = Returned(0)
  <2>1. /\ table = FreshTable /\ result = Returned(0) /\ table.spaces = Stdio
        /\ fd_array = [fd \in Fds |-> CASE fd = 0 -> File("stdin", 0)
                                        [] fd = 1 -> File("stdout", 0)
                                        [] OTHER  -> NoFile]
    BY DEF Init, FileSystemInit, FreshTable
  <2>2. FreshTable \in FdTables
    BY FdFacts DEF FreshTable, FdTables
  <2>3. \A type \in {"stdin", "stdout", "none"} : File(type, 0) \in FdFiles
    BY CountAssumption DEF File, FdFiles
  <2>4. fd_array \in [Fds -> FdFiles] /\ fd_array[0] = File("stdin", 0)
        /\ fd_array[1] = File("stdout", 0)
    BY <2>1, <2>3, FdFacts DEF NoFile
  <2>5. result.ret \in Int
    BY <2>1 DEF Returned
  <2>6. KernelOK
    BY <2>1, <2>2, <2>4, <2>5 DEF KernelOK, File
  <2>7. StreamNow = [fd \in Openable |-> ClosedStream]
    BY <2>1 DEF StreamNow, Openable
  <2>8. QED
    BY <2>1, <2>6, <2>7
<1>2. S!Init
  <2>1. OutcomeNow = "ok" /\ TakenNow = << >>
    BY <1>1 DEF OutcomeNow, TakenNow, Returned
  <2>2. QED
    BY <1>1, <2>1 DEF S!Init, S!Closed, StreamNow, OutcomeNow, TakenNow, Openable, ClosedStream
<1>3. ProgramOK
  <2>1. ASSUME NEW prog \in {"cat", "ls"}, NEW at \in {"argument", "open"}, NEW arg,
               IsString(arg), NEW size \in Asked \cap Nat, NEW ending, IsString(ending),
               p = Copier(prog, at, arg, size, ending)
        PROVE  CopierOK
    BY <2>1, EmptyString DEF Copier, CopierOK
  <2>2. CASE p = LsState
    <3>1. IsString(Directory) /\ IsString(<<NEWLINE>>) /\ SBUFSIZE - 1 \in Asked \cap Nat
      BY OneString, AskedSizes DEF Directory
    <3>2. CopierOK
      BY <2>1, <2>2, <3>1 DEF LsState
    <3>3. QED
      BY <3>2 DEF ProgramOK
  <2>3. CASE p \in CatStates
    <3>1. PICK name \in Names \cup OtherNames : p = Copier("cat", "argument", name, CAT_SIZE, << >>)
      BY <2>3 DEF CatStates
    <3>2. CAT_SIZE \in Asked \cap Nat
      BY AskedSizes
    <3>3. CopierOK
      BY <2>1, <3>1, <3>2, AskedNames, EmptyString
    <3>4. QED
      BY <3>3 DEF ProgramOK
  <2>4. CASE p = CounterState
    BY <2>4 DEF CounterState, CounterOK, ProgramOK
  <2>5. CASE p = FishState
    BY <2>5 DEF FishState, FishOK, ProgramOK
  <2>6. CASE p \in GrepStates
    <3>1. GrepOK
      BY <2>6, AskedSizes DEF GrepStates, GrepOK
    <3>2. QED
      BY <3>1 DEF ProgramOK
  <2>7. CASE p \in SyserrStates
    <3>1. PICK select \in 0 .. 8 : p = [prog |-> "syserr", tests |-> Selected(select), next |-> 1,
                                        cnt |-> 0, fail |-> FALSE]
      BY <2>7 DEF SyserrStates
    <3>2. Selected(select) \in Seq(1 .. 8)
      <4>1. [k \in 1 .. 8 |-> k] \in Seq(1 .. 8)
        OBVIOUS
      <4>2. select # 0 => <<select>> \in Seq(1 .. 8)
        OBVIOUS
      <4>3. QED
        BY <4>1, <4>2 DEF Selected
    <3>3. SyserrOK
      BY <1>1, <3>1, <3>2, SyserrStarts
    <3>4. QED
      BY <3>3 DEF ProgramOK
  <2>8. CASE p.prog = "any"
    BY <2>8 DEF ProgramOK
  <2>9. QED
    BY <2>2, <2>3, <2>4, <2>5, <2>6, <2>7, <2>8 DEF Init
<1>4. QED
  BY <1>1, <1>2, <1>3 DEF Inv

LEMMA StepKeeps ==
    ASSUME Inv, [Next]_vars
    PROVE  Inv' /\ [S!Next]_S!vars
<1>0. /\ CopierOK => p.prog \in {"cat", "ls"}
      /\ GrepOK => p.prog = "grep"
      /\ CounterOK => p.prog = "counter"
      /\ FishOK => p.prog = "fish"
      /\ SyserrOK => p.prog = "syserr"
  BY DEF CopierOK, GrepOK, CounterOK, FishOK, SyserrOK
<1>1. CASE AnyProgram
  BY <1>1, AnyStep DEF AnyProgram, Inv, ProgramOK
<1>2. CASE CallTested(Directory)
  <2>1. SyserrOK
    BY <1>0, <1>2 DEF CallTested, Inv, ProgramOK
  <2>2. QED
    BY <1>2, <2>1, SyserrStep DEF Inv, ProgramOK
<1>3. CASE ReadArgument("cat", "open") \/ Copy("cat") \/ Copy("ls")
  <2>1. CopierOK
    BY <1>0, <1>3 DEF ReadArgument, Copy, CopyOpen, CopyRead, CopyWrite, At, Inv, ProgramOK
  <2>2. QED
    BY <1>3, <2>1, CopierStep DEF Inv, ProgramOK
<1>4. CASE ReadArgument("grep", "directory") \/ Grep
  <2>1. GrepOK
    BY <1>0, <1>4 DEF ReadArgument, Grep, GrepOpenDirectory, GrepReadEntry, GrepOpen, GrepRead,
                      GrepLine, GrepClose, At, Inv, ProgramOK
  <2>2. QED
    BY <1>4, <2>1, GrepStep DEF Inv, ProgramOK
<1>5. CASE Counter
  <2>1. CounterOK
    BY <1>0, <1>5 DEF Counter, CounterAsk, CounterCount, At, Inv, ProgramOK
  <2>2. QED
    BY <1>5, <2>1, CounterStep DEF Inv, ProgramOK
<1>6. CASE Fish
  <2>1. FishOK
    BY <1>0, <1>6 DEF Fish, FishOpen, FishRead, FishShow, FishRow, At, Inv, ProgramOK
  <2>2. QED
    BY <1>6, <2>1, FishStep DEF Inv, ProgramOK
<1>7. CASE UNCHANGED vars
  <2>1. UNCHANGED <<table, fd_array, result, p>>
    BY <1>7 DEF vars, kernel
  <2>2. Inv'
    <3>1. KernelOK'
      BY <2>1 DEF KernelOK, Inv
    <3>2. ProgramOK'
      <4>1. CopierOK => CopierOK'
        BY <2>1 DEF CopierOK, Holding
      <4>2. GrepOK => GrepOK'
        BY <2>1 DEF GrepOK, Holding
      <4>3. CounterOK => CounterOK'
        BY <2>1 DEF CounterOK
      <4>4. FishOK => FishOK'
        BY <2>1 DEF FishOK
      <4>5. SyserrOK => SyserrOK'
        BY <2>1 DEF SyserrOK, InOpenLots
      <4>6. QED
        BY <2>1, <4>1, <4>2, <4>3, <4>4, <4>5 DEF Inv, ProgramOK
    <3>3. QED
      BY <3>1, <3>2 DEF Inv
  <2>3. UNCHANGED S!vars
    BY <2>1 DEF S!vars
  <2>4. QED
    BY <2>2, <2>3
<1>8. QED
  BY <1>1, <1>2, <1>3, <1>4, <1>5, <1>6, <1>7 DEF Next, Step

\* The kernel's part (descriptors, streams and results hold together) and each program's,
\* with what it has in its buffers, hold in every reachable state.
THEOREM InvHolds == Spec => []Inv
<1>1. Init => Inv
  BY InitKeeps
<1>2. Inv /\ [Next]_vars => Inv'
  BY StepKeeps
<1>3. QED
  BY <1>1, <1>2, PTL DEF Spec

\* The type invariant: descriptors have types, positions stay inside files and the directory.
THEOREM PositionsStayInside == Spec => []TypeOK
<1>1. Inv => TypeOK
  BY KernelTypes DEF Inv
<1>2. QED
  BY <1>1, InvHolds, PTL

\* read_data's loop over blocks, the positions of descriptors and the clipping of what is
\* asked for implement the streams: every image, every descriptor, every program.
THEOREM FilesAreStreams == Spec => ReadsStreams
<1>1. Init => S!Init
  BY InitKeeps
<1>2. Inv /\ [Next]_vars => [S!Next]_S!vars
  BY StepKeeps
<1>3. QED
  BY <1>1, <1>2, InvHolds, PTL DEF Spec, ReadsStreams, S!Spec

\* ece391syserr passes each of its tests, whatever is on the disk.
THEOREM TestsPass == Spec => []SyserrPasses
<1>1. Inv => SyserrPasses
  BY DEF Inv, ProgramOK, CopierOK, GrepOK, CounterOK, FishOK, SyserrOK, SyserrPasses
<1>2. QED
  BY <1>1, InvHolds, PTL
=============================================================================
