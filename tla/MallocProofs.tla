---------------------------- MODULE MallocProofs ----------------------------
(***************************************************************************)
(* Proofs about malloc, for any number of programs, trees and orders.      *)
(*                                                                         *)
(* A node of the tree and its order cover a range of pages, counted from   *)
(* 2 ^ MAX_ORDER.  Ranges of two nodes are nested or apart, which is all   *)
(* that the proofs need of the tree.                                       *)
(***************************************************************************)
EXTENDS MallocProps, WellFoundedInduction, TLAPS

USE PdAssumption, OrderAssumption

Lo(i, o) == 2 ^ o * (i + 1)
Hi(i, o) == 2 ^ o * (i + 2)

Within(j, q, i, o) == Lo(i, o) <= Lo(j, q) /\ Hi(j, q) <= Hi(i, o)
Apart(j, q, i, o) == Hi(j, q) <= Lo(i, o) \/ Hi(i, o) <= Lo(j, q)

\* Node i is a node of the tree, and o is its order.
OnTree(i, o) == i \in Nat /\ o \in Orders /\ Within(i, o, 0, MAX_ORDER)

-----------------------------------------------------------------------------
(***************************************************************************)
(* Powers of two.                                                          *)
(***************************************************************************)
Exps == 0 .. MAX_ORDER + 1

\* A set of numbers has a least one.
LEMMA LeastOf ==
    ASSUME NEW T \in SUBSET Nat, T # {}
    PROVE  \E n \in T : \A m \in T : n <= m
<1> DEFINE R == OpToRel(<, Nat)
<1>1. IsWellFoundedOn(R, Nat)
  BY NatLessThanWellFounded
<1>2. \A x \in Nat, y \in Nat : <<y, x>> \in R <=> y < x
  BY DEF OpToRel
<1> HIDE DEF R
<1>3. PICK x \in T : \A y \in T : ~ (<<y, x>> \in R)
  BY <1>1, WFMin
<1>4. \A y \in T : ~ (y < x)
  <2> SUFFICES ASSUME NEW y \in T, y < x PROVE FALSE
    OBVIOUS
  <2>1. x \in Nat /\ y \in Nat
    OBVIOUS
  <2>2. <<y, x>> \in R
    BY <1>2, <2>1
  <2>3. QED
    BY <1>3, <2>2
<1>5. QED
  BY <1>4

\* What holds at zero and goes on to the next number holds of every exponent.
LEMMA ExpInduction ==
    ASSUME NEW T \in SUBSET Exps, 0 \in T,
           \A n \in T : n + 1 \in Exps => n + 1 \in T
    PROVE  T = Exps
<1> DEFINE U == Exps \ T
<1>1. SUFFICES ASSUME U # {} PROVE FALSE
  OBVIOUS
<1>2. U \in SUBSET Nat
  BY DEF Exps
<1>3. PICK n \in U : \A m \in U : n <= m
  <2> HIDE DEF U
  <2>1. QED
    BY <1>1, <1>2, LeastOf
<1>4. n \in Nat /\ n # 0 /\ n - 1 \in Exps
  BY <1>2 DEF Exps
<1>5. n - 1 \in T
  BY <1>3, <1>4
<1>6. QED
  BY <1>4, <1>5

LEMMA NextPow == ASSUME NEW n \in Exps, n + 1 \in Exps PROVE 2 ^ (n + 1) = 2 * 2 ^ n
<1>1. n \in 0 .. MAX_ORDER
  BY DEF Exps
<1>2. QED
  BY <1>1, PowersAssumption

LEMMA PowNat == \A n \in Exps : 2 ^ n \in Nat \ {0}
<1> DEFINE T == {n \in Exps : 2 ^ n \in Nat \ {0}}
<1>1. 0 \in T
  BY PowersAssumption DEF Exps
<1>2. ASSUME NEW n \in T, n + 1 \in Exps PROVE n + 1 \in T
  <2>1. 2 ^ (n + 1) = 2 * 2 ^ n
    BY <1>2, NextPow
  <2>2. QED
    BY <1>2, <2>1
<1>3. T = Exps
  <2>1. T \in SUBSET Exps
    OBVIOUS
  <2> HIDE DEF T
  <2>2. QED
    BY <1>1, <1>2, <2>1, ExpInduction
<1>4. QED
  BY <1>3

LEMMA PowAdd ==
    ASSUME NEW a \in Exps, NEW b \in Exps, a + b \in Exps
    PROVE  2 ^ (a + b) = 2 ^ a * 2 ^ b
<1> DEFINE T == {n \in Exps : a + n \in Exps => 2 ^ (a + n) = 2 ^ a * 2 ^ n}
<1>1. 0 \in T
  BY PowNat, PowersAssumption DEF Exps
<1>2. ASSUME NEW n \in T, n + 1 \in Exps PROVE n + 1 \in T
  <2> SUFFICES ASSUME a + (n + 1) \in Exps PROVE 2 ^ (a + (n + 1)) = 2 ^ a * 2 ^ (n + 1)
    BY <1>2
  <2>1. a \in Nat /\ n \in Nat /\ n \in Exps /\ a + n \in Exps /\ (a + n) + 1 \in Exps
        /\ a + (n + 1) = (a + n) + 1
    BY DEF Exps
  <2>2. 2 ^ ((a + n) + 1) = 2 * 2 ^ (a + n) /\ 2 ^ (n + 1) = 2 * 2 ^ n
    BY <1>2, <2>1, NextPow
  <2>3. 2 ^ (a + n) = 2 ^ a * 2 ^ n
    BY <2>1
  <2>4. 2 ^ a \in Nat /\ 2 ^ n \in Nat
    BY <2>1, PowNat
  <2>5. 2 * (2 ^ a * 2 ^ n) = 2 ^ a * (2 * 2 ^ n)
    BY <2>4
  <2>6. QED
    BY <2>1, <2>2, <2>3, <2>5
<1>3. T = Exps
  <2>1. T \in SUBSET Exps
    OBVIOUS
  <2> HIDE DEF T
  <2>2. QED
    BY <1>1, <1>2, <2>1, ExpInduction
<1>4. QED
  BY <1>3

\* A larger power is a multiple of a smaller one, and at least twice as large.
LEMMA PowDivides ==
    ASSUME NEW q \in Exps, NEW o \in Exps, q <= o
    PROVE  \E k \in Nat \ {0} : 2 ^ o = 2 ^ q * k /\ (q < o => k >= 2)
<1>1. o - q \in Exps /\ q + (o - q) = o
  BY DEF Exps
<1>2. 2 ^ o = 2 ^ q * 2 ^ (o - q)
  BY <1>1, PowAdd
<1>3. 2 ^ (o - q) \in Nat \ {0}
  BY <1>1, PowNat
<1>4. q < o => 2 ^ (o - q) >= 2
  <2> SUFFICES ASSUME q < o PROVE 2 ^ (o - q) >= 2
    OBVIOUS
  <2> DEFINE n == o - q - 1
  <2>1. n \in Exps /\ n + 1 = o - q /\ n + 1 \in Exps
    BY DEF Exps
  <2> HIDE DEF n
  <2>2. 2 ^ (n + 1) = 2 * 2 ^ n /\ 2 ^ n \in Nat \ {0}
    BY <2>1, NextPow, PowNat
  <2>3. QED
    BY <2>1, <2>2
<1>5. QED
  BY <1>2, <1>3, <1>4

LEMMA TimesMono ==
    ASSUME NEW w \in Nat \ {0}, NEW s \in Int, NEW t \in Int
    PROVE  /\ s <= t <=> w * s <= w * t
           /\ s < t <=> w * s < w * t
           /\ s < t <=> w * (s + 1) <= w * t
<1>1. w * (t - s) = w * t - w * s /\ w * (s + 1) = w * s + w
  OBVIOUS
<1>2. \A d \in Int : (d >= 1 => w * d >= w) /\ (d <= 0 => w * d <= 0)
  OBVIOUS
<1>3. t - s \in Int
  OBVIOUS
<1>4. (t - s >= 1 => w * (t - s) >= w) /\ (t - s <= 0 => w * (t - s) <= 0)
  BY <1>2, <1>3
<1>5. s = t => w * s = w * t
  OBVIOUS
<1>6. w * s \in Int /\ w * t \in Int
  OBVIOUS
<1>7. QED
  BY <1>1, <1>4, <1>5, <1>6

-----------------------------------------------------------------------------
(***************************************************************************)
(* The ranges of nodes.                                                    *)
(***************************************************************************)
LEMMA OrdersAreExps == Orders \subseteq Exps /\ MAX_ORDER + 1 \in Exps
BY DEF Orders, Exps

LEMMA RangeIs ==
    ASSUME NEW i \in Nat, NEW o \in Orders
    PROVE  /\ 2 ^ o \in Nat \ {0} /\ Lo(i, o) \in Nat /\ Hi(i, o) \in Nat
           /\ Hi(i, o) = Lo(i, o) + 2 ^ o
<1>1. 2 ^ o \in Nat \ {0}
  BY OrdersAreExps, PowNat
<1>2. \A w \in Nat : w * (i + 1) \in Nat /\ w * (i + 2) \in Nat /\ w * (i + 2) = w * (i + 1) + w
  OBVIOUS
<1>3. QED
  BY <1>1, <1>2 DEF Lo, Hi

\* Two ranges are nested or apart.
LEMMA NestedOrApart ==
    ASSUME NEW j \in Nat, NEW q \in Orders, NEW i \in Nat, NEW o \in Orders, q <= o
    PROVE  Within(j, q, i, o) \/ Apart(j, q, i, o)
<1>1. q \in Exps /\ o \in Exps
  BY OrdersAreExps
<1>2. PICK k \in Nat \ {0} : 2 ^ o = 2 ^ q * k
  BY <1>1, PowDivides
<1> DEFINE w == 2 ^ q
           s == k * (i + 1)
           t == k * (i + 2)
<1>3. w \in Nat \ {0}
  BY <1>1, PowNat
<1>4. s \in Int /\ t \in Int /\ j + 1 \in Int /\ j + 2 \in Int
  OBVIOUS
<1>5. Lo(i, o) = w * s /\ Hi(i, o) = w * t
  BY <1>2, <1>3 DEF Lo, Hi
<1>6. Lo(j, q) = w * (j + 1) /\ Hi(j, q) = w * (j + 2)
  BY DEF Lo, Hi
<1> HIDE DEF w, s, t
<1>7. CASE s <= j + 1 /\ j + 2 <= t
  BY <1>3, <1>4, <1>5, <1>6, <1>7, TimesMono DEF Within
<1>8. CASE j + 1 < s
  <2>1. j + 2 <= s
    BY <1>4, <1>8
  <2>2. w * (j + 2) <= w * s
    BY <1>3, <1>4, <2>1, TimesMono
  <2>3. QED
    BY <1>5, <1>6, <2>2 DEF Apart
<1>9. CASE t < j + 2
  <2>1. t <= j + 1
    BY <1>4, <1>9
  <2>2. w * t <= w * (j + 1)
    BY <1>3, <1>4, <2>1, TimesMono
  <2>3. QED
    BY <1>5, <1>6, <2>2 DEF Apart
<1>10. QED
  BY <1>4, <1>7, <1>8, <1>9

LEMMA WithinIsNotApart ==
    ASSUME NEW j \in Nat, NEW q \in Orders, NEW i \in Nat, NEW o \in Orders, Within(j, q, i, o)
    PROVE  ~Apart(j, q, i, o) /\ q <= o
<1>1. /\ Lo(i, o) \in Nat /\ Hi(i, o) \in Nat /\ Hi(i, o) = Lo(i, o) + 2 ^ o
      /\ Lo(j, q) \in Nat /\ Hi(j, q) \in Nat /\ Hi(j, q) = Lo(j, q) + 2 ^ q
      /\ 2 ^ o \in Nat \ {0} /\ 2 ^ q \in Nat \ {0}
  BY RangeIs
<1>2. 2 ^ q <= 2 ^ o
  BY <1>1 DEF Within
<1>3. q <= o
  <2> SUFFICES ASSUME o < q PROVE FALSE
    BY DEF Orders
  <2>1. o \in Exps /\ q \in Exps /\ o <= q
    BY OrdersAreExps DEF Orders
  <2>2. PICK k \in Nat \ {0} : 2 ^ q = 2 ^ o * k /\ k >= 2
    BY <2>1, PowDivides
  <2>3. \A w \in Nat \ {0}, n \in Nat : n >= 2 => w * n > w
    OBVIOUS
  <2>4. QED
    BY <1>1, <1>2, <2>2, <2>3
<1>4. QED
  BY <1>1, <1>3 DEF Within, Apart

LEMMA SameOrderSameNode ==
    ASSUME NEW i \in Nat, NEW j \in Nat, NEW o \in Orders, ~Apart(i, o, j, o)
    PROVE  i = j
<1>1. 2 ^ o \in Nat \ {0}
  BY RangeIs
<1>2. /\ i + 1 \in Int /\ i + 2 \in Int /\ j + 1 \in Int /\ j + 2 \in Int
      /\ i + 1 + 1 = i + 2 /\ j + 1 + 1 = j + 2
  OBVIOUS
<1>3. ~(i < j)
  BY <1>1, <1>2, TimesMono DEF Apart, Lo, Hi
<1>4. ~(j < i)
  BY <1>1, <1>2, TimesMono DEF Apart, Lo, Hi
<1>5. QED
  BY <1>3, <1>4

LEMMA WithinTransitive ==
    ASSUME NEW i \in Nat, NEW o \in Orders, NEW j \in Nat, NEW q \in Orders,
           NEW k \in Nat, NEW r \in Orders, Within(k, r, j, q), Within(j, q, i, o)
    PROVE  Within(k, r, i, o)
BY RangeIs DEF Within

\* What is within a range is apart from what that is apart from.
LEMMA ApartWithin ==
    ASSUME NEW i \in Nat, NEW o \in Orders, NEW j \in Nat, NEW q \in Orders,
           NEW k \in Nat, NEW r \in Orders, Within(k, r, j, q), Apart(j, q, i, o)
    PROVE  Apart(k, r, i, o)
BY RangeIs DEF Within, Apart

\* The two halves of a node.
LEMMA Halves ==
    ASSUME NEW i \in Nat, NEW o \in Orders, o # 0
    PROVE  /\ o - 1 \in Orders /\ Left(i) \in Nat /\ Right(i) \in Nat
           /\ Lo(Left(i), o - 1) = Lo(i, o)
           /\ Hi(Left(i), o - 1) = Lo(Right(i), o - 1)
           /\ Hi(Right(i), o - 1) = Hi(i, o)
           /\ Within(Left(i), o - 1, i, o) /\ Within(Right(i), o - 1, i, o)
           /\ Apart(Left(i), o - 1, Right(i), o - 1)
<1>1. o - 1 \in Orders /\ o - 1 \in Exps /\ (o - 1) + 1 = o /\ o \in Exps
  BY DEF Orders, Exps
<1>2. 2 ^ o = 2 * 2 ^ (o - 1) /\ 2 ^ (o - 1) \in Nat \ {0}
  BY <1>1, NextPow, PowNat
<1>3. Left(i) \in Nat /\ Right(i) \in Nat /\ Left(i) = 2 * i + 1 /\ Right(i) = 2 * i + 2
  BY DEF Left, Right
<1>4. \A w \in Nat : /\ w * ((2 * i + 1) + 1) = (2 * w) * (i + 1)
                     /\ w * ((2 * i + 1) + 2) = w * ((2 * i + 2) + 1)
                     /\ w * ((2 * i + 2) + 2) = (2 * w) * (i + 2)
  OBVIOUS
<1>5. /\ Lo(Left(i), o - 1) = Lo(i, o)
      /\ Hi(Left(i), o - 1) = Lo(Right(i), o - 1)
      /\ Hi(Right(i), o - 1) = Hi(i, o)
  BY <1>2, <1>3, <1>4 DEF Lo, Hi
<1>6. QED
  BY <1>1, <1>3, <1>5, RangeIs DEF Within, Apart

LEMMA ParentOf ==
    ASSUME NEW i \in Nat, i # 0
    PROVE  /\ Parent(i) \in Nat
           /\ IsLeft(i) => i = Left(Parent(i))
           /\ ~IsLeft(i) => i = Right(Parent(i))
BY DEF Parent, IsLeft, Left, Right

LEMMA ChildOf ==
    ASSUME NEW i \in Nat
    PROVE  /\ Left(i) # 0 /\ Parent(Left(i)) = i
           /\ Right(i) # 0 /\ Parent(Right(i)) = i
<1>1. \A n \in Int : (2 * n) \div 2 = n /\ (2 * n + 1) \div 2 = n
  OBVIOUS
<1>2. Left(i) = 2 * i + 1 /\ Right(i) = 2 * i + 2
  BY DEF Left, Right
<1>3. Left(i) - 1 = 2 * i /\ Right(i) - 1 = 2 * i + 1 /\ Left(i) # 0 /\ Right(i) # 0
  BY <1>2
<1>4. QED
  BY <1>1, <1>3 DEF Parent

LEMMA RootIs ==
    /\ OnTree(0, MAX_ORDER)
    /\ Lo(0, MAX_ORDER) = 2 ^ MAX_ORDER /\ Hi(0, MAX_ORDER) = 2 ^ (MAX_ORDER + 1)
    /\ MAX_ORDER \in Orders
<1>1. MAX_ORDER \in Orders /\ MAX_ORDER \in Exps /\ MAX_ORDER + 1 \in Exps /\ 0 \in Nat
  BY DEF Orders, Exps
<1>2. 2 ^ MAX_ORDER \in Nat /\ 2 ^ (MAX_ORDER + 1) = 2 * 2 ^ MAX_ORDER
  BY <1>1, PowNat, NextPow
<1>3. Lo(0, MAX_ORDER) = 2 ^ MAX_ORDER /\ Hi(0, MAX_ORDER) = 2 ^ (MAX_ORDER + 1)
  BY <1>2 DEF Lo, Hi
<1>4. OnTree(0, MAX_ORDER)
  BY <1>1, RangeIs DEF OnTree, Within
<1>5. QED
  BY <1>1, <1>3, <1>4

LEMMA OnTreeIs ==
    ASSUME NEW i, NEW o, OnTree(i, o)
    PROVE  /\ i \in Nat /\ o \in Orders /\ i \in Nodes
           /\ i = 0 <=> o = MAX_ORDER
<1>1. i \in Nat /\ o \in Orders /\ Within(i, o, 0, MAX_ORDER)
  BY DEF OnTree
<1>2. 2 ^ o \in Nat \ {0} /\ 2 ^ (MAX_ORDER + 1) \in Nat
  BY <1>1, OrdersAreExps, PowNat
<1>3. i \in Nodes
  <2>1. 2 ^ o * (i + 2) <= 2 ^ (MAX_ORDER + 1)
    BY <1>1, RootIs DEF Within, Hi
  <2>2. \A w \in Nat \ {0}, n \in Nat : w * n >= n
    OBVIOUS
  <2>3. i + 2 <= 2 ^ (MAX_ORDER + 1)
    <3>1. i + 2 \in Nat /\ 2 ^ o * (i + 2) \in Nat
      BY <1>1, <1>2
    <3>2. 2 ^ o * (i + 2) >= i + 2
      BY <1>2, <2>2, <3>1
    <3>3. QED
      BY <1>2, <2>1, <3>1, <3>2
  <2>4. QED
    BY <1>1, <1>2, <2>3 DEF Nodes, MMAP_SIZE
<1>4. i = 0 => o = MAX_ORDER
  <2> SUFFICES ASSUME i = 0 PROVE o = MAX_ORDER
    OBVIOUS
  <2>1. Within(0, MAX_ORDER, 0, o)
    <3>1. 2 ^ o >= 2 ^ MAX_ORDER
      BY <1>1, <1>2, RootIs DEF Within, Lo
    <3>2. o <= MAX_ORDER
      BY <1>1 DEF Orders
    <3>3. CASE o < MAX_ORDER
      <4>1. o \in Exps /\ MAX_ORDER \in Exps
        BY <1>1, OrdersAreExps, RootIs
      <4>2. PICK k \in Nat \ {0} : 2 ^ MAX_ORDER = 2 ^ o * k /\ k >= 2
        BY <3>2, <3>3, <4>1, PowDivides
      <4>3. \A w \in Nat \ {0}, n \in Nat : n >= 2 => w * n > w
        OBVIOUS
      <4>4. QED
        BY <1>2, <3>1, <4>2, <4>3
    <3>4. CASE o = MAX_ORDER
      BY <3>4, RootIs, RangeIs DEF Within
    <3>5. QED
      BY <1>1, <3>2, <3>3, <3>4 DEF Orders
  <2>2. MAX_ORDER <= o
    BY <1>1, <2>1, RootIs, WithinIsNotApart
  <2>3. QED
    BY <1>1, <2>2 DEF Orders
<1>5. o = MAX_ORDER => i = 0
  BY <1>1, RootIs, WithinIsNotApart, SameOrderSameNode
<1>6. QED
  BY <1>1, <1>3, <1>4, <1>5

LEMMA ChildrenOnTree ==
    ASSUME NEW i, NEW o, OnTree(i, o), o # 0
    PROVE  OnTree(Left(i), o - 1) /\ OnTree(Right(i), o - 1)
BY Halves, RootIs, WithinTransitive DEF OnTree

LEMMA ParentOnTree ==
    ASSUME NEW i, NEW o, OnTree(i, o), i # 0
    PROVE  /\ o + 1 \in Orders /\ OnTree(Parent(i), o + 1)
           /\ Within(i, o, Parent(i), o + 1)
<1>1. i \in Nat /\ o \in Orders /\ o # MAX_ORDER
  BY OnTreeIs
<1>2. o + 1 \in Orders /\ o + 1 # 0 /\ (o + 1) - 1 = o /\ o + 1 <= MAX_ORDER
  BY <1>1 DEF Orders
<1>3. Parent(i) \in Nat /\ (i = Left(Parent(i)) \/ i = Right(Parent(i)))
  BY <1>1, ParentOf
<1>4. Within(i, o, Parent(i), o + 1)
  <2>1. /\ Within(Left(Parent(i)), (o + 1) - 1, Parent(i), o + 1)
        /\ Within(Right(Parent(i)), (o + 1) - 1, Parent(i), o + 1)
    BY <1>2, <1>3, Halves
  <2>2. QED
    BY <1>2, <1>3, <2>1
<1>5. Within(Parent(i), o + 1, 0, MAX_ORDER) \/ Apart(Parent(i), o + 1, 0, MAX_ORDER)
  BY <1>2, <1>3, RootIs, NestedOrApart
<1>6. ~Apart(i, o, 0, MAX_ORDER)
  BY <1>1, RootIs, WithinIsNotApart DEF OnTree
<1>7. ~Apart(Parent(i), o + 1, 0, MAX_ORDER)
  BY <1>1, <1>2, <1>3, <1>4, <1>6, RootIs, ApartWithin
<1>8. QED
  BY <1>2, <1>3, <1>4, <1>5, <1>7 DEF OnTree

\* What a proper ancestor of a node covers, covers its parent.
LEMMA AncestorOfParent ==
    ASSUME NEW i, NEW o, OnTree(i, o), i # 0,
           NEW a, NEW r, OnTree(a, r), o < r, Within(i, o, a, r)
    PROVE  Within(Parent(i), o + 1, a, r)
<1>1. /\ i \in Nat /\ o \in Orders /\ a \in Nat /\ r \in Orders
      /\ Parent(i) \in Nat /\ o + 1 \in Orders /\ o + 1 <= r
      /\ Within(i, o, Parent(i), o + 1)
  BY ParentOnTree, OnTreeIs DEF OnTree, Orders
<1>2. ~Apart(i, o, a, r)
  BY <1>1, WithinIsNotApart
<1>3. ~Apart(Parent(i), o + 1, a, r)
  BY <1>1, <1>2, ApartWithin
<1>4. QED
  BY <1>1, <1>3, NestedOrApart

-----------------------------------------------------------------------------
(***************************************************************************)
(* What holds of the trees M, the blocks G that were granted and a call c  *)
(* in every reachable state.                                               *)
(***************************************************************************)
\* Node j, of order o, is where the block at pt is.
At(pt, o, j) == OnTree(j, o) /\ pt + NUM_PT = Lo(j, o)

\* The ancestors of node j up to those of order lim are marked.
Above(M, pd, o, j, lim) ==
    \A a \in Nodes, r \in Orders :
        OnTree(a, r) /\ o < r /\ r <= lim /\ Within(j, o, a, r) => M[pd][a].split

\* A block that was granted stands in the tree.
GrantInv(M, G) ==
    /\ G \subseteq Blocks
    /\ \A b \in G : \E j \in Nodes : /\ At(b.pt, b.order, j)
                                     /\ M[b.pd][j].unavail
                                     /\ Above(M, b.pd, b.order, j, MAX_ORDER)

\* The blocks that were there before the call are apart from a node.
ApartFromBefore(c, i, o) ==
    \A b \in c.before, j \in Nodes :
        b.pd = c.pd /\ At(b.pt, b.order, j) => Apart(j, b.order, i, o)

\* None of them covers a proper ancestor of the node that the call is at.
Uncovered(c) ==
    \A b \in c.before, j \in Nodes, a \in Nodes, r \in Orders :
        /\ b.pd = c.pd /\ At(b.pt, b.order, j)
        /\ OnTree(a, r) /\ c.curr_order < r /\ Within(c.tree_idx, c.curr_order, a, r)
        => ~Within(a, r, j, b.order)

\* The call has taken a block.
Taken(M, c, m) == /\ At(c.pt, c.target_order, m)
                  /\ Within(m, c.target_order, c.tree_idx, c.curr_order)
                  /\ M[c.pd][m].unavail
                  /\ Above(M, c.pd, c.target_order, m, c.curr_order)
                  /\ ApartFromBefore(c, m, c.target_order)

CallInv(M, G, c) ==
    /\ c \in Calls
    /\ c.before \subseteq G
    /\ OnTree(c.tree_idx, c.curr_order)
    /\ c.target_order <= c.curr_order
    /\ c.at = "visit" => c.pt = -1 /\ Uncovered(c)
    /\ c.at = "take" => /\ c.pt = -1 /\ c.curr_order = c.target_order
                        /\ ApartFromBefore(c, c.tree_idx, c.curr_order)
    /\ c.at = "return" => IF c.pt = -1 THEN Uncovered(c) ELSE \E m \in Nodes : Taken(M, c, m)

Trees == [Pds -> [Nodes -> [unavail : BOOLEAN, split : BOOLEAN]]]

Grows(M, N) == \A pd \in Pds, i \in Nodes : /\ M[pd][i].unavail => N[pd][i].unavail
                                            /\ M[pd][i].split => N[pd][i].split

MallocInv == /\ malloc_metadata \in Trees
             /\ call \in [Procs -> Calls \cup {NotCalling}]
             /\ GrantInv(malloc_metadata, granted)
             /\ \A p \in Procs \ Idle : CallInv(malloc_metadata, granted, call[p])

LEMMA AtUnique ==
    ASSUME NEW pt \in Int, NEW o, NEW i, NEW j, At(pt, o, i), At(pt, o, j)
    PROVE  i = j
<1>1. /\ i \in Nat /\ j \in Nat /\ o \in Orders /\ Lo(i, o) = Lo(j, o)
      /\ i \in Nodes /\ j \in Nodes
  BY OnTreeIs DEF At
<1>2. ~Apart(i, o, j, o)
  BY <1>1, RangeIs DEF Apart
<1>3. QED
  BY <1>1, <1>2, SameOrderSameNode

LEMMA PtIs ==
    ASSUME NEW pt \in Int, NEW o, NEW j, At(pt, o, j)
    PROVE  pt \in 0 .. NUM_PT - 1
<1>1. j \in Nat /\ o \in Orders /\ Within(j, o, 0, MAX_ORDER) /\ MAX_ORDER \in Exps
  BY OrdersAreExps, RootIs DEF At, OnTree
<1>2. /\ Lo(j, o) \in Nat /\ Hi(j, o) \in Nat /\ Lo(j, o) < Hi(j, o)
  BY <1>1, RangeIs
<1>3. NUM_PT \in Nat /\ NUM_PT <= Lo(j, o) /\ Hi(j, o) <= 2 * NUM_PT
  BY <1>1, RootIs, PowNat, NextPow, OrdersAreExps DEF Within, NUM_PT
<1>4. QED
  BY <1>2, <1>3 DEF At

LEMMA ApartBlocks ==
    ASSUME NEW b \in Blocks, NEW c \in Blocks, NEW i, NEW j,
           At(b.pt, b.order, i), At(c.pt, c.order, j),
           b.pd # c.pd \/ Apart(i, b.order, j, c.order)
    PROVE  Disjoint(b, c)
<1> SUFFICES ASSUME NEW k \in 0 .. 2 ^ b.order - 1, NEW l \in 0 .. 2 ^ c.order - 1,
                    <<b.pd, b.pt + k>> = <<c.pd, c.pt + l>>
             PROVE  FALSE
  BY DEF Disjoint, Pages
<1>1. b.pd = c.pd /\ b.pt + k = c.pt + l
  OBVIOUS
<1>2. /\ i \in Nat /\ b.order \in Orders /\ j \in Nat /\ c.order \in Orders
      /\ b.pt + NUM_PT = Lo(i, b.order) /\ c.pt + NUM_PT = Lo(j, c.order)
  BY OnTreeIs DEF At
<1>3. b.pt \in Int /\ c.pt \in Int /\ NUM_PT \in Int
  <2>1. NUM_PT \in Int
    BY PowNat, OrdersAreExps, RootIs DEF NUM_PT
  <2>2. QED
    BY <2>1 DEF Blocks
<1>4. /\ Hi(i, b.order) = Lo(i, b.order) + 2 ^ b.order /\ 2 ^ b.order \in Nat
      /\ Hi(j, c.order) = Lo(j, c.order) + 2 ^ c.order /\ 2 ^ c.order \in Nat
      /\ Lo(i, b.order) \in Nat /\ Lo(j, c.order) \in Nat
  BY <1>2, RangeIs
<1>5. QED
  BY <1>1, <1>2, <1>3, <1>4 DEF Apart

\* Trees only fill, and blocks are only granted.
LEMMA AboveKept ==
    ASSUME NEW M, NEW N, Grows(M, N), NEW pd \in Pds, NEW o, NEW j, NEW lim,
           Above(M, pd, o, j, lim)
    PROVE  Above(N, pd, o, j, lim)
BY DEF Above, Grows

LEMMA CallKept ==
    ASSUME NEW M, NEW N, Grows(M, N), NEW G, NEW H, G \subseteq H,
           NEW c, CallInv(M, G, c)
    PROVE  CallInv(N, H, c)
<1>1. c \in Calls /\ c.pd \in Pds
  BY DEF CallInv, Calls
<1>2. \A m \in Nodes : Taken(M, c, m) => Taken(N, c, m)
  BY <1>1, AboveKept DEF Taken, Grows
<1>3. QED
  BY <1>2 DEF CallInv

LEMMA GrantKept ==
    ASSUME NEW M, NEW N, Grows(M, N), NEW G, GrantInv(M, G)
    PROVE  GrantInv(N, G)
<1> SUFFICES ASSUME NEW b \in G
             PROVE  \E j \in Nodes : /\ At(b.pt, b.order, j)
                                     /\ N[b.pd][j].unavail
                                     /\ Above(N, b.pd, b.order, j, MAX_ORDER)
  BY DEF GrantInv
<1>1. b.pd \in Pds
  BY DEF GrantInv, Blocks
<1>2. QED
  BY <1>1, AboveKept DEF GrantInv, Grows

-----------------------------------------------------------------------------
(***************************************************************************)
(* The steps of a call.                                                    *)
(***************************************************************************)
LEMMA TargetIs == ASSUME NEW size \in Int PROVE TargetOrder(size) \in Orders
<1> DEFINE fits == {o \in Orders : PAGE_SIZE * 2 ^ o <= size}
<1>1. CASE fits = {}
  BY <1>1 DEF TargetOrder, Orders
<1>2. CASE fits # {}
  <2> DEFINE T == {n \in Nat : MAX_ORDER - n \in fits}
  <2>1. T \in SUBSET Nat /\ T # {}
    <3>1. PICK o \in fits : TRUE
      BY <1>2
    <3>2. MAX_ORDER - o \in T
      BY DEF Orders
    <3>3. QED
      BY <3>2
  <2>2. PICK n \in T : \A m \in T : n <= m
    <3> HIDE DEF T
    <3>1. QED
      BY <2>1, LeastOf
  <2>3. \A q \in fits : q <= MAX_ORDER - n
    <3> SUFFICES ASSUME NEW q \in fits PROVE q <= MAX_ORDER - n
      OBVIOUS
    <3>1. q \in 0 .. MAX_ORDER /\ MAX_ORDER - (MAX_ORDER - q) = q
      BY DEF Orders
    <3>2. MAX_ORDER - q \in T
      BY <3>1
    <3>3. n <= MAX_ORDER - q /\ n \in Nat
      BY <2>2, <3>2
    <3>4. QED
      BY <3>1, <3>3
  <2>4. \E o \in fits : \A q \in fits : q <= o
    BY <2>2, <2>3
  <2>5. TargetOrder(size) = CHOOSE o \in fits : \A q \in fits : q <= o
    BY <1>2 DEF TargetOrder
  <2>6. TargetOrder(size) \in fits
    <3> HIDE DEF fits
    <3>1. QED
      BY <2>4, <2>5
  <2>7. QED
    BY <2>6
<1>3. QED
  BY <1>1, <1>2

LEMMA AloneKept ==
    ASSUME NEW M, NEW G, NEW c, CallInv(M, G, c)
    PROVE  CallInv(M, G, [c EXCEPT !.alone = FALSE])
<1> DEFINE d == [c EXCEPT !.alone = FALSE]
<1>1. c \in Calls
  BY DEF CallInv
<1>2. d \in Calls
  BY <1>1, Zenon DEF Calls
<1>3. /\ d.at = c.at /\ d.pd = c.pd /\ d.tree_idx = c.tree_idx /\ d.curr_order = c.curr_order
      /\ d.target_order = c.target_order /\ d.pt = c.pt /\ d.before = c.before
  BY <1>1 DEF Calls
<1> HIDE DEF d
<1>4. \A m : Taken(M, c, m) => Taken(M, d, m)
  BY <1>3 DEF Taken, ApartFromBefore
<1>5. Uncovered(c) => Uncovered(d)
  BY <1>3 DEF Uncovered
<1>6. \A i, o : ApartFromBefore(c, i, o) => ApartFromBefore(d, i, o)
  BY <1>3 DEF ApartFromBefore
<1>7. CallInv(M, G, d)
  BY <1>2, <1>3, <1>4, <1>5, <1>6 DEF CallInv
<1>8. QED
  BY <1>7 DEF d

\* A node that can be visited and is not taken, is in no block granted before.
LEMMA NodeFree ==
    ASSUME NEW M, NEW G, GrantInv(M, G), NEW c, CallInv(M, G, c), Uncovered(c),
           ~M[c.pd][c.tree_idx].unavail,
           NEW b \in c.before, NEW j \in Nodes, b.pd = c.pd, At(b.pt, b.order, j)
    PROVE  ~Within(c.tree_idx, c.curr_order, j, b.order)
<1> SUFFICES ASSUME Within(c.tree_idx, c.curr_order, j, b.order) PROVE FALSE
  OBVIOUS
<1>1. b \in G /\ b \in Blocks /\ b.pt \in Int
  BY DEF CallInv, GrantInv, Blocks
<1>2. /\ j \in Nat /\ b.order \in Orders /\ OnTree(j, b.order)
      /\ c.tree_idx \in Nat /\ c.curr_order \in Orders
  BY OnTreeIs DEF At, CallInv
<1>3. PICK k \in Nodes : At(b.pt, b.order, k) /\ M[b.pd][k].unavail
  BY <1>1 DEF GrantInv
<1>4. M[c.pd][j].unavail
  BY <1>1, <1>3, AtUnique
<1>5. c.curr_order <= b.order /\ ~Apart(c.tree_idx, c.curr_order, j, b.order)
  BY <1>2, WithinIsNotApart
<1>6. CASE c.curr_order = b.order
  BY <1>2, <1>4, <1>5, <1>6, SameOrderSameNode
<1>7. CASE c.curr_order < b.order
  <2>1. Within(j, b.order, j, b.order)
    BY <1>2, RangeIs DEF Within
  <2>2. QED
    BY <1>2, <1>7, <2>1 DEF Uncovered
<1>8. QED
  BY <1>2, <1>5, <1>6, <1>7 DEF Orders

\* If it is not split either, it is apart from all of them.
LEMMA TakesApart ==
    ASSUME NEW M, NEW G, GrantInv(M, G), NEW c, CallInv(M, G, c), Uncovered(c),
           ~M[c.pd][c.tree_idx].unavail, ~M[c.pd][c.tree_idx].split
    PROVE  ApartFromBefore(c, c.tree_idx, c.curr_order)
<1> SUFFICES ASSUME NEW b \in c.before, NEW j \in Nodes,
                    b.pd = c.pd, At(b.pt, b.order, j)
             PROVE  Apart(j, b.order, c.tree_idx, c.curr_order)
  BY DEF ApartFromBefore
<1>1. b \in G /\ b \in Blocks /\ b.pt \in Int
  BY DEF CallInv, GrantInv, Blocks
<1>2. /\ j \in Nat /\ b.order \in Orders /\ OnTree(j, b.order)
      /\ c.tree_idx \in Nat /\ c.tree_idx \in Nodes /\ c.curr_order \in Orders
      /\ OnTree(c.tree_idx, c.curr_order)
  BY OnTreeIs DEF At, CallInv
<1>3. ~Within(c.tree_idx, c.curr_order, j, b.order)
  BY NodeFree
<1>4. CASE c.curr_order <= b.order
  <2>1. Apart(c.tree_idx, c.curr_order, j, b.order)
    BY <1>2, <1>3, <1>4, NestedOrApart
  <2>2. QED
    BY <2>1 DEF Apart
<1>5. CASE b.order < c.curr_order
  <2>1. PICK k \in Nodes : At(b.pt, b.order, k) /\ Above(M, b.pd, b.order, k, MAX_ORDER)
    BY <1>1 DEF GrantInv
  <2>2. k = j
    BY <1>1, <2>1, AtUnique
  <2>3. b.order <= c.curr_order /\ c.curr_order <= MAX_ORDER
    BY <1>2, <1>5 DEF Orders
  <2>4. ~Within(j, b.order, c.tree_idx, c.curr_order)
    BY <1>2, <1>5, <2>1, <2>2, <2>3 DEF Above
  <2>5. QED
    BY <1>2, <2>3, <2>4, NestedOrApart
<1>6. QED
  BY <1>2, <1>4, <1>5 DEF Orders

\* The call goes to another node of the same tree, or to the next tree, having
\* found nothing.
LEMMA MovesTo ==
    ASSUME NEW M, NEW G, NEW c, CallInv(M, G, c), NEW at \in {"visit", "return"}, NEW pd \in Pds,
           NEW i, NEW o, OnTree(i, o), c.target_order <= o,
           NEW d, d \in Calls, d.at = at, d.pd = pd, d.tree_idx = i, d.curr_order = o,
           d.target_order = c.target_order, d.pt = -1, d.before = c.before,
           Uncovered(d)
    PROVE  CallInv(M, G, d)
BY DEF CallInv

\* The ancestors of a child are the node and the node's ancestors.
LEMMA UncoveredBelow ==
    ASSUME NEW M, NEW G, NEW c, CallInv(M, G, c), Uncovered(c), c.curr_order # 0,
           \A b \in c.before, j \in Nodes :
               b.pd = c.pd /\ At(b.pt, b.order, j) =>
                   ~Within(c.tree_idx, c.curr_order, j, b.order),
           NEW d, d.pd = c.pd, d.before = c.before, d.curr_order = c.curr_order - 1,
           d.tree_idx = Left(c.tree_idx) \/ d.tree_idx = Right(c.tree_idx)
    PROVE  Uncovered(d)
<1> SUFFICES ASSUME NEW b \in c.before, NEW j \in Nodes, NEW a \in Nodes, NEW r \in Orders,
                    b.pd = c.pd, At(b.pt, b.order, j), OnTree(a, r),
                    d.curr_order < r, Within(d.tree_idx, d.curr_order, a, r),
                    Within(a, r, j, b.order)
             PROVE  FALSE
  BY DEF Uncovered
<1>1. /\ OnTree(c.tree_idx, c.curr_order) /\ OnTree(d.tree_idx, d.curr_order)
      /\ c.tree_idx \in Nat /\ c.curr_order \in Orders /\ d.tree_idx \in Nat
      /\ d.curr_order \in Orders /\ a \in Nat /\ j \in Nat /\ b.order \in Orders
  BY ChildrenOnTree, OnTreeIs DEF CallInv, At
<1>2. d.tree_idx # 0 /\ Parent(d.tree_idx) = c.tree_idx /\ d.curr_order + 1 = c.curr_order
  BY <1>1, ChildOf DEF Orders
<1>3. Within(c.tree_idx, c.curr_order, a, r)
  BY <1>1, <1>2, AncestorOfParent
<1>4. CASE r = c.curr_order
  <2>1. a = c.tree_idx
    BY <1>1, <1>3, <1>4, WithinIsNotApart, SameOrderSameNode
  <2>2. QED
    BY <1>4, <2>1
<1>5. CASE c.curr_order < r
  BY <1>3, <1>5 DEF Uncovered
<1>6. QED
  BY <1>1, <1>2, <1>4, <1>5 DEF Orders

\* The ancestors of the parent, and those of the sibling, are the node's.
LEMMA UncoveredAbove ==
    ASSUME NEW M, NEW G, NEW c, CallInv(M, G, c), Uncovered(c), c.tree_idx # 0,
           NEW d, d.pd = c.pd, d.before = c.before,
           \/ d.tree_idx = Parent(c.tree_idx) /\ d.curr_order = c.curr_order + 1
           \/ d.tree_idx = Right(Parent(c.tree_idx)) /\ d.curr_order = c.curr_order
    PROVE  Uncovered(d)
<1> SUFFICES ASSUME NEW b \in c.before, NEW j \in Nodes, NEW a \in Nodes, NEW r \in Orders,
                    b.pd = c.pd, At(b.pt, b.order, j), OnTree(a, r),
                    d.curr_order < r, Within(d.tree_idx, d.curr_order, a, r)
             PROVE  ~Within(a, r, j, b.order)
  BY DEF Uncovered
<1> DEFINE i == Parent(c.tree_idx)
           o == c.curr_order + 1
<1>1. /\ OnTree(c.tree_idx, c.curr_order) /\ OnTree(i, o)
      /\ Within(c.tree_idx, c.curr_order, i, o)
      /\ c.tree_idx \in Nat /\ c.curr_order \in Orders /\ i \in Nat /\ o \in Orders
      /\ a \in Nat /\ o # 0 /\ o - 1 = c.curr_order
  BY ParentOnTree, OnTreeIs DEF CallInv, Orders
<1>2. c.curr_order < r
  BY <1>1 DEF Orders
<1>3. Within(i, o, a, r)
  <2>1. CASE d.tree_idx = i /\ d.curr_order = o
    BY <2>1
  <2>2. CASE d.tree_idx = Right(i) /\ d.curr_order = c.curr_order
    <3>1. OnTree(d.tree_idx, d.curr_order) /\ d.tree_idx # 0 /\ Parent(d.tree_idx) = i
      <4> HIDE DEF i, o
      <4>1. OnTree(Right(i), o - 1)
        BY <1>1, ChildrenOnTree
      <4>2. QED
        BY <1>1, <2>2, <4>1, ChildOf
    <3>2. QED
      BY <2>2, <3>1, AncestorOfParent
  <2>3. QED
    BY <2>1, <2>2
<1>4. Within(c.tree_idx, c.curr_order, a, r)
  BY <1>1, <1>3, WithinTransitive
<1>5. QED
  BY <1>2, <1>4 DEF Uncovered

LEMMA PtOfIs ==
    ASSUME NEW c, OnTree(c.tree_idx, c.curr_order)
    PROVE  At(PtOf(c), c.curr_order, c.tree_idx) /\ PtOf(c) \in 0 .. NUM_PT - 1
<1>1. /\ c.tree_idx \in Nat /\ c.curr_order \in Orders
      /\ 2 ^ c.curr_order * (c.tree_idx + 1) \in Nat
  BY RangeIs DEF OnTree, Lo
<1>2. NUM_PT \in Nat /\ MMAP_SIZE = 2 * NUM_PT - 1
  BY PowNat, NextPow, RootIs, OrdersAreExps DEF NUM_PT, MMAP_SIZE
<1>3. PtOf(c) + NUM_PT = Lo(c.tree_idx, c.curr_order) /\ PtOf(c) \in Int
  BY <1>1, <1>2 DEF PtOf, Lo
<1>4. At(PtOf(c), c.curr_order, c.tree_idx)
  BY <1>3 DEF At
<1>5. QED
  BY <1>3, <1>4, PtIs

\* The block is taken.
LEMMA TakenHere ==
    ASSUME NEW M, NEW N, Grows(M, N), NEW G, NEW c, CallInv(M, G, c), c.at = "take",
           N[c.pd][c.tree_idx].unavail,
           NEW d, d \in Calls, d.at = "return", d.pd = c.pd, d.tree_idx = c.tree_idx,
           d.curr_order = c.curr_order, d.target_order = c.target_order,
           d.pt = PtOf(c), d.before = c.before
    PROVE  CallInv(N, G, d)
<1>1. /\ OnTree(c.tree_idx, c.curr_order) /\ c.tree_idx \in Nodes
      /\ c.tree_idx \in Nat /\ c.curr_order \in Orders /\ c.curr_order = c.target_order
  BY OnTreeIs DEF CallInv
<1>2. At(PtOf(c), c.curr_order, c.tree_idx) /\ PtOf(c) # -1
  <2>1. NUM_PT \in Int
    BY PowNat, RootIs, OrdersAreExps DEF NUM_PT
  <2>2. QED
    BY <1>1, <2>1, PtOfIs
<1>3. Within(c.tree_idx, c.curr_order, c.tree_idx, c.curr_order)
  BY <1>1, RangeIs DEF Within
<1>4. Above(N, d.pd, d.target_order, c.tree_idx, d.curr_order)
  BY <1>1 DEF Above, Orders
<1>5. ApartFromBefore(d, c.tree_idx, d.target_order)
  BY <1>1 DEF CallInv, ApartFromBefore
<1>6. Taken(N, d, c.tree_idx)
  BY <1>1, <1>2, <1>3, <1>4, <1>5 DEF Taken
<1>7. QED
  BY <1>1, <1>2, <1>6 DEF CallInv

\* It is passed up, and the parent is marked.
LEMMA TakenAbove ==
    ASSUME NEW M, NEW N, Grows(M, N), NEW G, NEW c, CallInv(M, G, c), c.at = "return", c.pt # -1,
           c.tree_idx # 0, N[c.pd][Parent(c.tree_idx)].split,
           NEW d, d \in Calls, d.at = "return", d.pd = c.pd, d.tree_idx = Parent(c.tree_idx),
           d.curr_order = c.curr_order + 1, d.target_order = c.target_order,
           d.pt = c.pt, d.before = c.before
    PROVE  CallInv(N, G, d)
<1> DEFINE i == Parent(c.tree_idx)
           o == c.curr_order + 1
<1>1. /\ OnTree(c.tree_idx, c.curr_order) /\ OnTree(i, o) /\ c.pd \in Pds
      /\ Within(c.tree_idx, c.curr_order, i, o)
      /\ c.tree_idx \in Nat /\ c.curr_order \in Orders /\ i \in Nat /\ o \in Orders
      /\ c.target_order <= c.curr_order
  BY ParentOnTree, OnTreeIs DEF CallInv, Calls
<1>2. PICK m \in Nodes : Taken(M, c, m)
  BY DEF CallInv
<1>3. OnTree(m, c.target_order) /\ m \in Nat /\ c.target_order \in Orders
  BY <1>2, OnTreeIs DEF Taken, At
<1>4. Within(m, c.target_order, i, o)
  BY <1>1, <1>2, <1>3, WithinTransitive DEF Taken
<1>5. Above(N, d.pd, d.target_order, m, d.curr_order)
  <2> SUFFICES ASSUME NEW a \in Nodes, NEW r \in Orders, OnTree(a, r), c.target_order < r,
                      r <= o, Within(m, c.target_order, a, r)
               PROVE  N[c.pd][a].split
    BY DEF Above
  <2>1. CASE r <= c.curr_order
    BY <1>1, <1>2, <2>1 DEF Taken, Above, Grows
  <2>2. CASE r = o
    <3>1. a \in Nat
      BY OnTreeIs
    <3>2. ~Apart(m, c.target_order, i, o)
      BY <1>1, <1>3, <1>4, WithinIsNotApart
    <3>3. ~Apart(a, o, i, o)
      BY <1>1, <1>3, <2>2, <3>1, <3>2, ApartWithin
    <3>4. a = i
      BY <1>1, <3>1, <3>3, SameOrderSameNode
    <3>5. QED
      BY <3>4
  <2>3. QED
    BY <1>1, <2>1, <2>2 DEF Orders
<1>6. Taken(N, d, m)
  BY <1>1, <1>2, <1>4, <1>5 DEF Taken, ApartFromBefore, Grows
<1>7. c.target_order <= o
  BY <1>1, <1>3 DEF Orders
<1>8. QED
  BY <1>1, <1>6, <1>7 DEF CallInv

-----------------------------------------------------------------------------
(***************************************************************************)
(* The steps of the program.                                               *)
(***************************************************************************)
LEMMA InitMalloc == Init => MallocInv
BY DEF Init, MallocInv, Trees, GrantInv, Idle

\* A step of the call of p.
LEMMA CallStep ==
    ASSUME MallocInv, NEW p \in Procs, malloc_metadata' \in Trees,
           Grows(malloc_metadata, malloc_metadata'), granted' = granted,
           NEW d, CallInv(malloc_metadata', granted, d), call' = [call EXCEPT ![p] = d]
    PROVE  MallocInv'
<1>1. call' \in [Procs -> Calls \cup {NotCalling}]
  BY DEF MallocInv, CallInv
<1>2. GrantInv(malloc_metadata', granted')
  BY GrantKept DEF MallocInv
<1>3. ASSUME NEW q \in Procs, call'[q] # NotCalling
      PROVE  CallInv(malloc_metadata', granted', call'[q])
  <2>1. CASE q = p
    BY <2>1 DEF MallocInv
  <2>2. CASE q # p
    <3>1. call'[q] = call[q] /\ q \notin Idle
      BY <1>3, <2>2 DEF Idle, MallocInv
    <3>2. CallInv(malloc_metadata, granted, call[q])
      BY <3>1 DEF MallocInv
    <3>3. QED
      BY <3>1, <3>2, CallKept
  <2>3. QED
    BY <2>1, <2>2
<1>4. QED
  BY <1>1, <1>2, <1>3 DEF MallocInv, Idle

LEMMA CallingIs ==
    ASSUME MallocInv, NEW p \in Procs, call[p].at \in {"visit", "take", "return"}
    PROVE  CallInv(malloc_metadata, granted, call[p]) /\ p \notin Idle
<1>1. p \notin Idle
  BY DEF Idle, NotCalling
<1>2. QED
  BY <1>1 DEF MallocInv

LEMMA SameTrees ==
    ASSUME MallocInv, malloc_metadata' = malloc_metadata
    PROVE  malloc_metadata' \in Trees /\ Grows(malloc_metadata, malloc_metadata')
BY DEF MallocInv, Grows

LEMMA MallocStep ==
    ASSUME MallocInv, NEW p \in Procs, Malloc(p)
    PROVE  MallocInv'
<1>1. PICK size \in Sizes :
        /\ size > 0 /\ size <= BIG_PAGE_SIZE
        /\ call' = [q \in Procs |->
              IF q = p THEN [at |-> "visit", size |-> size, pd |-> 0, tree_idx |-> 0,
                             curr_order |-> MAX_ORDER, target_order |-> TargetOrder(size),
                             pt |-> -1, before |-> granted, alone |-> Idle = Procs]
              ELSE IF q \in Idle THEN NotCalling ELSE [call[q] EXCEPT !.alone = FALSE]]
  BY DEF Malloc
<1>2. malloc_metadata' = malloc_metadata /\ granted' = granted
  BY DEF Malloc
<1> DEFINE d == [at |-> "visit", size |-> size, pd |-> 0, tree_idx |-> 0,
                 curr_order |-> MAX_ORDER, target_order |-> TargetOrder(size),
                 pt |-> -1, before |-> granted, alone |-> Idle = Procs]
<1>3. CallInv(malloc_metadata, granted, d)
  <2>1. TargetOrder(size) \in Orders /\ size \in Int
    BY TargetIs, SizesAssumption
  <2>2. OnTree(0, MAX_ORDER) /\ 0 \in Nodes /\ MAX_ORDER \in Orders /\ 0 \in Pds
    BY RootIs, OnTreeIs DEF Pds
  <2>3. granted \in SUBSET Blocks
    BY DEF MallocInv, GrantInv
  <2>4. -1 \in -1 .. NUM_PT - 1
    BY PowNat, RootIs, OrdersAreExps DEF NUM_PT
  <2>5. d \in Calls
    BY <2>1, <2>2, <2>3, <2>4 DEF Calls
  <2>6. Uncovered(d)
    BY <2>2 DEF Uncovered, Orders
  <2>7. QED
    BY <2>1, <2>2, <2>5, <2>6 DEF CallInv, Orders
<1>4. ASSUME NEW q \in Procs \ Idle
      PROVE  CallInv(malloc_metadata, granted, [call[q] EXCEPT !.alone = FALSE])
  BY AloneKept DEF MallocInv
<1> HIDE DEF d
<1>5. \A q \in Procs : call'[q] = IF q = p THEN d ELSE IF q \in Idle THEN NotCalling
                                  ELSE [call[q] EXCEPT !.alone = FALSE]
  BY <1>1 DEF d
<1>6. \A q \in Procs : call'[q] = NotCalling \/ CallInv(malloc_metadata, granted, call'[q])
  BY <1>3, <1>4, <1>5
<1>7. call' \in [Procs -> Calls \cup {NotCalling}]
  <2>1. \A q \in Procs : call'[q] \in Calls \cup {NotCalling}
    BY <1>6 DEF CallInv
  <2>2. \E f : call' = [q \in Procs |-> f[q]]
    <3>1. call' = [q \in Procs |-> call'[q]]
      BY <1>1
    <3>2. QED
      BY <3>1
  <2>3. QED
    BY <2>1, <2>2
<1>8. QED
  BY <1>2, <1>6, <1>7 DEF MallocInv, Idle

LEMMA VisitStep ==
    ASSUME MallocInv, NEW p \in Procs, Visit(p)
    PROVE  MallocInv'
<1> DEFINE c == call[p]
           M == malloc_metadata
<1>1. CallInv(M, granted, c) /\ c.at = "visit" /\ c \in Calls
  BY CallingIs DEF Visit, CallInv
<1>2. /\ c.pt = -1 /\ Uncovered(c) /\ OnTree(c.tree_idx, c.curr_order) /\ c.pd \in Pds
      /\ c.target_order \in Orders /\ c.curr_order \in Orders /\ c.target_order <= c.curr_order
  BY <1>1 DEF CallInv, Calls
<1>3. GrantInv(M, granted)
  BY DEF MallocInv
<1>4. M' = M /\ granted' = granted
  BY DEF Visit
<1>5. CASE M[c.pd][c.tree_idx].unavail
           \/ (M[c.pd][c.tree_idx].split /\ c.curr_order = c.target_order)
  <2> DEFINE d == [c EXCEPT !.at = "return", !.pt = -1]
  <2>1. call' = [call EXCEPT ![p] = d]
    BY <1>5 DEF Visit, Node
  <2>2. d \in Calls
    BY <1>1, <1>2 DEF Calls
  <2>3. /\ d.at = "return" /\ d.pd = c.pd /\ d.tree_idx = c.tree_idx /\ d.pt = -1
        /\ d.curr_order = c.curr_order /\ d.target_order = c.target_order /\ d.before = c.before
    BY <1>1 DEF Calls
  <2> HIDE DEF d
  <2>4. Uncovered(d)
    BY <1>2, <2>3 DEF Uncovered
  <2>5. CallInv(M, granted, d)
    BY <1>1, <2>2, <2>3, <2>4 DEF CallInv
  <2>6. QED
    BY <1>4, <2>1, <2>5, SameTrees, CallStep
<1>6. CASE /\ ~M[c.pd][c.tree_idx].unavail
           /\ ~(M[c.pd][c.tree_idx].split /\ c.curr_order = c.target_order)
           /\ c.curr_order = c.target_order
  <2> DEFINE d == [c EXCEPT !.at = "take"]
  <2>1. call' = [call EXCEPT ![p] = d]
    BY <1>6 DEF Visit, Node
  <2>2. d \in Calls
    BY <1>1 DEF Calls
  <2>3. /\ d.at = "take" /\ d.pd = c.pd /\ d.tree_idx = c.tree_idx /\ d.pt = -1
        /\ d.curr_order = c.curr_order /\ d.target_order = c.target_order /\ d.before = c.before
    BY <1>1, <1>2 DEF Calls
  <2> HIDE DEF d
  <2>4. ApartFromBefore(c, c.tree_idx, c.curr_order)
    BY <1>1, <1>2, <1>3, <1>6, TakesApart
  <2>5. ApartFromBefore(d, d.tree_idx, d.curr_order)
    BY <2>3, <2>4 DEF ApartFromBefore
  <2>6. CallInv(M, granted, d)
    BY <1>1, <1>6, <2>2, <2>3, <2>5 DEF CallInv
  <2>7. QED
    BY <1>4, <2>1, <2>6, SameTrees, CallStep
<1>7. CASE ~M[c.pd][c.tree_idx].unavail /\ c.curr_order # c.target_order
  <2> DEFINE d == [c EXCEPT !.tree_idx = Left(@), !.curr_order = @ - 1]
  <2>1. call' = [call EXCEPT ![p] = d]
    BY <1>7 DEF Visit, Node
  <2>2. /\ c.curr_order # 0 /\ c.curr_order - 1 \in Orders
        /\ c.target_order <= c.curr_order - 1
    BY <1>2, <1>7 DEF Orders
  <2>3. OnTree(Left(c.tree_idx), c.curr_order - 1) /\ Left(c.tree_idx) \in Nodes
    BY <1>2, <2>2, ChildrenOnTree, OnTreeIs
  <2>4. d \in Calls
    BY <1>1, <2>2, <2>3 DEF Calls
  <2>5. /\ d.at = "visit" /\ d.pd = c.pd /\ d.tree_idx = Left(c.tree_idx) /\ d.pt = -1
        /\ d.curr_order = c.curr_order - 1 /\ d.target_order = c.target_order
        /\ d.before = c.before
    BY <1>1, <1>2 DEF Calls
  <2> HIDE DEF d
  <2>6. \A b \in c.before, j \in Nodes :
            b.pd = c.pd /\ At(b.pt, b.order, j) =>
                ~Within(c.tree_idx, c.curr_order, j, b.order)
    BY <1>1, <1>2, <1>3, <1>7, NodeFree
  <2>7. Uncovered(d)
    <3> HIDE DEF c, M
    <3>1. QED
      BY <1>1, <1>2, <2>2, <2>5, <2>6, UncoveredBelow
  <2>8. CallInv(M, granted, d)
    BY <1>1, <1>2, <2>2, <2>3, <2>4, <2>5, <2>7, MovesTo
  <2>9. QED
    BY <1>4, <2>1, <2>8, SameTrees, CallStep
<1>8. QED
  BY <1>5, <1>6, <1>7

\* A node is marked.
LEMMA Marked ==
    ASSUME NEW M \in Trees, NEW pd \in Pds, NEW i \in Nodes, NEW N,
           \/ N = [M EXCEPT ![pd][i].unavail = TRUE]
           \/ N = [M EXCEPT ![pd][i].split = TRUE]
    PROVE  N \in Trees /\ Grows(M, N)
<1> DEFINE R == [unavail : BOOLEAN, split : BOOLEAN]
<1>1. M[pd][i] \in R /\ M[pd] \in [Nodes -> R] /\ M \in [Pds -> [Nodes -> R]]
  BY DEF Trees
<1>2. PICK s \in R : /\ N = [M EXCEPT ![pd] = [M[pd] EXCEPT ![i] = s]]
                     /\ M[pd][i].unavail => s.unavail
                     /\ M[pd][i].split => s.split
  <2>1. CASE N = [M EXCEPT ![pd][i].unavail = TRUE]
    <3> DEFINE s == [M[pd][i] EXCEPT !.unavail = TRUE]
    <3>1. s \in R /\ s.unavail /\ (M[pd][i].split => s.split)
      BY <1>1
    <3>2. N = [M EXCEPT ![pd] = [M[pd] EXCEPT ![i] = s]]
      BY <2>1
    <3> HIDE DEF s, R
    <3>3. QED
      BY <3>1, <3>2
  <2>2. CASE N = [M EXCEPT ![pd][i].split = TRUE]
    <3> DEFINE s == [M[pd][i] EXCEPT !.split = TRUE]
    <3>1. s \in R /\ s.split /\ (M[pd][i].unavail => s.unavail)
      BY <1>1
    <3>2. N = [M EXCEPT ![pd] = [M[pd] EXCEPT ![i] = s]]
      BY <2>2
    <3> HIDE DEF s, R
    <3>3. QED
      BY <3>1, <3>2
  <2>3. QED
    BY <2>1, <2>2
<1> HIDE DEF R
<1>3. N \in [Pds -> [Nodes -> R]]
  BY <1>1, <1>2
<1>4. Grows(M, N)
  BY <1>1, <1>2 DEF Grows
<1>5. QED
  BY <1>3, <1>4 DEF Trees, R

LEMMA TakeStep ==
    ASSUME MallocInv, NEW p \in Procs, Take(p)
    PROVE  MallocInv'
<1> DEFINE c == call[p]
           M == malloc_metadata
           d == [c EXCEPT !.at = "return", !.pt = PtOf(c)]
<1>1. CallInv(M, granted, c) /\ c.at = "take" /\ c \in Calls /\ M \in Trees
  BY CallingIs DEF Take, CallInv, MallocInv
<1>2. c.pd \in Pds /\ c.tree_idx \in Nodes /\ OnTree(c.tree_idx, c.curr_order)
  BY <1>1 DEF CallInv, Calls
<1>3. /\ M' = [M EXCEPT ![c.pd][c.tree_idx].unavail = TRUE]
      /\ call' = [call EXCEPT ![p] = d] /\ granted' = granted
  BY DEF Take
<1>4. M' \in Trees /\ Grows(M, M')
  BY <1>1, <1>2, <1>3, Marked
<1>5. M'[c.pd][c.tree_idx].unavail
  BY <1>1, <1>2, <1>3 DEF Trees
<1>6. PtOf(c) \in -1 .. NUM_PT - 1
  <2>1. NUM_PT \in Int
    BY PowNat, RootIs, OrdersAreExps DEF NUM_PT
  <2>2. PtOf(c) \in 0 .. NUM_PT - 1
    BY <1>2, PtOfIs
  <2>3. QED
    BY <2>1, <2>2
<1>7. d \in Calls
  BY <1>1, <1>6 DEF Calls
<1>8. /\ d.at = "return" /\ d.pd = c.pd /\ d.tree_idx = c.tree_idx /\ d.pt = PtOf(c)
      /\ d.curr_order = c.curr_order /\ d.target_order = c.target_order /\ d.before = c.before
  BY <1>1 DEF Calls
<1>9. CallInv(M', granted, d)
  <2> HIDE DEF d
  <2>1. QED
    BY <1>1, <1>4, <1>5, <1>7, <1>8, TakenHere
<1>10. QED
  BY <1>3, <1>4, <1>9, CallStep

LEMMA ReturnStep ==
    ASSUME MallocInv, NEW p \in Procs, Return(p)
    PROVE  MallocInv'
<1> DEFINE c == call[p]
           M == malloc_metadata
           i == Parent(c.tree_idx)
           up == [c EXCEPT !.tree_idx = i, !.curr_order = @ + 1]
           over == [c EXCEPT !.at = "visit", !.tree_idx = Right(i)]
<1>1. CallInv(M, granted, c) /\ c.at = "return" /\ c.tree_idx # 0 /\ c \in Calls /\ M \in Trees
  BY CallingIs DEF Return, CallInv, MallocInv
<1>2. /\ OnTree(c.tree_idx, c.curr_order) /\ OnTree(i, c.curr_order + 1)
      /\ c.pd \in Pds /\ i \in Nodes /\ i \in Nat /\ c.curr_order + 1 \in Orders
      /\ c.tree_idx \in Nat /\ c.curr_order \in Orders
      /\ c.target_order <= c.curr_order /\ c.target_order <= c.curr_order + 1
  <2>1. OnTree(c.tree_idx, c.curr_order) /\ c.target_order <= c.curr_order
        /\ c.target_order \in Orders /\ c.pd \in Pds
    BY <1>1 DEF CallInv, Calls
  <2>2. OnTree(i, c.curr_order + 1)
    BY <1>1, <2>1, ParentOnTree
  <2>3. QED
    BY <2>1, <2>2, OnTreeIs DEF Orders
<1>3. /\ up \in Calls /\ up.at = "return" /\ up.pd = c.pd /\ up.tree_idx = i /\ up.pt = c.pt
      /\ up.curr_order = c.curr_order + 1 /\ up.target_order = c.target_order
      /\ up.before = c.before
  BY <1>1, <1>2 DEF Calls
<1>4. granted' = granted
  BY DEF Return
<1>5. CASE c.pt # -1
  <2>1. M' = [M EXCEPT ![c.pd][i].split = TRUE] /\ call' = [call EXCEPT ![p] = up]
    BY <1>5 DEF Return
  <2>2. M' \in Trees /\ Grows(M, M')
    BY <1>1, <1>2, <2>1, Marked
  <2>3. M'[c.pd][i].split
    BY <1>1, <1>2, <2>1 DEF Trees
  <2>4. CallInv(M', granted, up)
    <3> HIDE DEF up
    <3>1. QED
      BY <1>1, <1>3, <1>5, <2>2, <2>3, TakenAbove
  <2>5. QED
    BY <1>4, <2>1, <2>2, <2>4, CallStep
<1>6. CASE c.pt = -1 /\ ~IsLeft(c.tree_idx)
  <2>1. M' = M /\ call' = [call EXCEPT ![p] = up]
    BY <1>6 DEF Return
  <2>2. CallInv(M, granted, up)
    <3> HIDE DEF up
    <3>1. Uncovered(c)
      BY <1>1, <1>6 DEF CallInv
    <3>2. Uncovered(up)
      BY <1>1, <1>3, <3>1, UncoveredAbove
    <3>3. QED
      BY <1>1, <1>2, <1>3, <1>6, <3>2, MovesTo
  <2>3. QED
    BY <1>4, <2>1, <2>2, SameTrees, CallStep
<1>7. CASE c.pt = -1 /\ IsLeft(c.tree_idx)
  <2>1. M' = M /\ call' = [call EXCEPT ![p] = over]
    BY <1>7 DEF Return
  <2>2. OnTree(Right(i), c.curr_order) /\ Right(i) \in Nodes
    <3> HIDE DEF i
    <3>1. (c.curr_order + 1) - 1 = c.curr_order /\ c.curr_order + 1 # 0
      BY <1>2 DEF Orders
    <3>2. OnTree(Right(i), c.curr_order)
      BY <1>2, <3>1, ChildrenOnTree
    <3>3. QED
      BY <3>2, OnTreeIs
  <2>3. /\ over \in Calls /\ over.at = "visit" /\ over.pd = c.pd /\ over.tree_idx = Right(i)
        /\ over.pt = -1 /\ over.curr_order = c.curr_order
        /\ over.target_order = c.target_order /\ over.before = c.before
    BY <1>1, <1>7, <2>2 DEF Calls
  <2>4. CallInv(M, granted, over)
    <3> HIDE DEF over
    <3>1. Uncovered(c)
      BY <1>1, <1>7 DEF CallInv
    <3>2. Uncovered(over)
      BY <1>1, <2>3, <3>1, UncoveredAbove
    <3>3. QED
      BY <1>1, <1>2, <2>2, <2>3, <3>2, MovesTo
  <2>5. QED
    BY <1>4, <2>1, <2>4, SameTrees, CallStep
<1>8. QED
  BY <1>5, <1>6, <1>7

\* The call has a block, marked up to the root.
LEMMA Granting ==
    ASSUME MallocInv, NEW p \in Procs, Rooted(p), call[p].pt # -1
    PROVE  /\ call[p] \in Calls /\ BlockOf(p) \in Blocks
           /\ CallInv(malloc_metadata, granted, call[p])
           /\ \E m \in Nodes : /\ Taken(malloc_metadata, call[p], m)
                               /\ Above(malloc_metadata, call[p].pd, call[p].target_order, m,
                                        MAX_ORDER)
<1> DEFINE c == call[p]
           M == malloc_metadata
<1>1. CallInv(M, granted, c) /\ c.at = "return" /\ c \in Calls /\ c.tree_idx = 0
  BY CallingIs DEF Rooted, CallInv
<1>2. PICK m \in Nodes : Taken(M, c, m)
  BY <1>1 DEF CallInv
<1>3. c.curr_order = MAX_ORDER
  BY <1>1, OnTreeIs DEF CallInv
<1>4. Above(M, c.pd, c.target_order, m, MAX_ORDER)
  BY <1>2, <1>3 DEF Taken
<1>5. c.pt \in 0 .. NUM_PT - 1
  <2>1. c.pt \in Int /\ At(c.pt, c.target_order, m)
    BY <1>1, <1>2 DEF Taken, Calls
  <2>2. QED
    BY <2>1, PtIs
<1>6. BlockOf(p) \in Blocks
  BY <1>1, <1>5 DEF BlockOf, Blocks, Calls
<1>7. QED
  BY <1>1, <1>2, <1>4, <1>6

LEMMA GrantStep ==
    ASSUME MallocInv, NEW p \in Procs, Grant(p)
    PROVE  MallocInv'
<1> DEFINE c == call[p]
           M == malloc_metadata
<1>1. /\ Rooted(p) /\ c.pt # -1 /\ M' = M /\ granted' = granted \cup {BlockOf(p)}
      /\ call' = [call EXCEPT ![p] = NotCalling]
  BY DEF Grant
<1>2. PICK m \in Nodes : Taken(M, c, m) /\ Above(M, c.pd, c.target_order, m, MAX_ORDER)
  BY <1>1, Granting
<1>3. BlockOf(p) \in Blocks
  BY <1>1, Granting
<1>4. GrantInv(M', granted')
  <2>1. /\ BlockOf(p).pt = c.pt /\ BlockOf(p).order = c.target_order /\ BlockOf(p).pd = c.pd
    BY DEF BlockOf
  <2>2. GrantInv(M, granted)
    BY DEF MallocInv
  <2>3. QED
    BY <1>1, <1>2, <1>3, <2>1, <2>2 DEF GrantInv, Taken
<1>5. call' \in [Procs -> Calls \cup {NotCalling}] /\ M' \in Trees
  BY <1>1 DEF MallocInv
<1>6. ASSUME NEW q \in Procs, call'[q] # NotCalling
      PROVE  CallInv(M', granted', call'[q])
  <2>1. call'[q] = call[q] /\ q \notin Idle
    BY <1>1, <1>6 DEF Idle, MallocInv
  <2>2. CallInv(M, granted, call[q]) /\ granted \subseteq granted' /\ Grows(M, M')
    BY <1>1, <2>1, SameTrees DEF MallocInv
  <2>3. QED
    BY <2>1, <2>2, CallKept
<1>7. QED
  BY <1>4, <1>5, <1>6 DEF MallocInv, Idle

LEMMA NextPdStep ==
    ASSUME MallocInv, NEW p \in Procs, NextPd(p)
    PROVE  MallocInv'
<1> DEFINE c == call[p]
           M == malloc_metadata
           d == [c EXCEPT !.at = "visit", !.pd = @ + 1]
<1>1. CallInv(M, granted, c) /\ c.at = "return" /\ c \in Calls /\ c.tree_idx = 0 /\ c.pt = -1
      /\ c.pd + 1 \in Pds
  BY CallingIs DEF NextPd, Rooted, CallInv
<1>2. /\ M' = M /\ granted' = granted /\ call' = [call EXCEPT ![p] = d]
  <2>1. call' = [call EXCEPT ![p].at = "visit", ![p].pd = @ + 1] /\ call \in [Procs -> Calls \cup {NotCalling}]
    BY DEF NextPd, MallocInv
  <2>2. QED
    BY <2>1 DEF NextPd
<1>3. /\ d \in Calls /\ d.at = "visit" /\ d.pd = c.pd + 1 /\ d.tree_idx = 0 /\ d.pt = -1
      /\ d.curr_order = c.curr_order /\ d.target_order = c.target_order /\ d.before = c.before
  BY <1>1 DEF Calls
<1>4. c.curr_order = MAX_ORDER /\ OnTree(c.tree_idx, c.curr_order) /\ c.target_order <= c.curr_order
  BY <1>1, OnTreeIs DEF CallInv
<1> HIDE DEF d
<1>5. Uncovered(d)
  BY <1>3, <1>4 DEF Uncovered, Orders
<1>6. CallInv(M, granted, d)
  BY <1>1, <1>3, <1>4, <1>5, MovesTo
<1>7. QED
  BY <1>2, <1>6, SameTrees, CallStep

LEMMA FailStep ==
    ASSUME MallocInv, NEW p \in Procs, Fail(p)
    PROVE  MallocInv'
<1>1. /\ call' = [call EXCEPT ![p] = NotCalling] /\ malloc_metadata' = malloc_metadata
      /\ granted' = granted
  BY DEF Fail
<1>2. \A q \in Procs : call'[q] = NotCalling \/ (call'[q] = call[q] /\ q \notin Idle)
  BY <1>1 DEF MallocInv, Idle
<1>3. QED
  BY <1>1, <1>2 DEF MallocInv, Idle

LEMMA MallocInvKept == MallocInv /\ [Next]_vars => MallocInv'
<1> SUFFICES ASSUME MallocInv, [Next]_vars PROVE MallocInv'
  OBVIOUS
<1>1. CASE UNCHANGED vars
  BY <1>1 DEF vars, MallocInv, Idle
<1>2. ASSUME NEW p \in Procs, Free(p) PROVE MallocInv'
  BY <1>2 DEF Free, MallocInv, Idle
<1>3. QED
  BY <1>1, <1>2, MallocStep, VisitStep, TakeStep, ReturnStep, GrantStep, NextPdStep, FailStep
     DEF Next

-----------------------------------------------------------------------------
\* A call never hands out pages of a block granted before it began: a node that was
\* passed, not taken and not split, contains none of them and is in none, and the
\* node that is taken in the end is apart from all (malloc_tree, paging.c:118).
THEOREM LaterBlocksApart == Spec => LaterCallsDisjoint
<1>1. MallocInv => [\A p \in Procs : Grant(p) =>
                        \A b \in call[p].before : Disjoint(b, BlockOf(p))]_vars
  <2> SUFFICES ASSUME MallocInv, NEW p \in Procs, Grant(p), NEW b \in call[p].before
               PROVE  Disjoint(b, BlockOf(p))
    OBVIOUS
  <2> DEFINE c == call[p]
             g == BlockOf(p)
             M == malloc_metadata
  <2>1. /\ g \in Blocks /\ CallInv(M, granted, c)
        /\ g.pt = c.pt /\ g.order = c.target_order /\ g.pd = c.pd
    BY Granting DEF Grant, BlockOf
  <2>2. PICK m \in Nodes : Taken(M, c, m)
    BY Granting DEF Grant
  <2>3. b \in granted /\ b \in Blocks
    BY <2>1 DEF CallInv, MallocInv, GrantInv
  <2>4. PICK j \in Nodes : At(b.pt, b.order, j)
    BY <2>3 DEF MallocInv, GrantInv
  <2>5. b.pd # g.pd \/ Apart(j, b.order, m, g.order)
    BY <2>1, <2>2, <2>4 DEF Taken, ApartFromBefore
  <2>6. At(g.pt, g.order, m)
    BY <2>1, <2>2 DEF Taken
  <2> HIDE DEF g
  <2>7. Disjoint(b, g)
    BY <2>1, <2>3, <2>4, <2>5, <2>6, ApartBlocks
  <2>8. QED
    BY <2>7 DEF g
<1>2. QED
  BY <1>1, InitMalloc, MallocInvKept, PTL DEF Spec, LaterCallsDisjoint

-----------------------------------------------------------------------------
(***************************************************************************)
(* What the marks of the tree mean.                                        *)
(***************************************************************************)
LEMMA DivIs ==
    ASSUME NEW d \in Nat \ {0}, NEW n \in Nat, NEW k \in Nat
    PROVE  n \div d = k <=> d * k <= n /\ n < d * (k + 1)
<1> DEFINE u == n \div d
           v == n % d
<1>1. u \in Int /\ v \in 0 .. d - 1 /\ n = d * u + v
  OBVIOUS
<1> HIDE DEF u, v
<1>2. /\ u <= k <=> d * u <= d * k
      /\ u < k <=> d * (u + 1) <= d * k
      /\ k < u <=> d * (k + 1) <= d * u
      /\ d * (u + 1) = d * u + d /\ d * u \in Int /\ d * k \in Int /\ d * (k + 1) \in Int
      /\ d * (k + 1) = d * k + d
  BY <1>1, TimesMono
<1>3. u = k => d * k <= n /\ n < d * (k + 1)
  BY <1>1, <1>2
<1>4. d * k <= n /\ n < d * (k + 1) => u = k
  BY <1>1, <1>2
<1>5. QED
  BY <1>3, <1>4 DEF u

\* An ancestor is found by dividing, each node counted from one.
LEMMA AncestorIs ==
    ASSUME NEW j \in Nat, NEW q \in Orders, NEW i \in Nat, NEW r \in Orders, q <= r
    PROVE  Within(j, q, i, r) <=> (j + 1) \div 2 ^ (r - q) = i + 1
<1> DEFINE w == 2 ^ q
           d == 2 ^ (r - q)
<1>1. q \in Exps /\ r \in Exps /\ r - q \in Exps /\ q + (r - q) = r
  BY DEF Orders, Exps
<1>2. w \in Nat \ {0} /\ d \in Nat \ {0} /\ 2 ^ r = w * d
  BY <1>1, PowNat, PowAdd
<1> HIDE DEF w, d
<1>3. Lo(i, r) = w * (d * (i + 1)) /\ Hi(i, r) = w * (d * (i + 2))
  BY <1>2 DEF Lo, Hi
<1>4. Lo(j, q) = w * (j + 1) /\ Hi(j, q) = w * (j + 2)
  BY DEF Lo, Hi, w
<1>5. d * (i + 1) \in Int /\ d * (i + 2) \in Int /\ j + 1 \in Int /\ j + 2 \in Int
  BY <1>2
<1>6. Within(j, q, i, r) <=> d * (i + 1) <= j + 1 /\ j + 2 <= d * (i + 2)
  BY <1>2, <1>3, <1>4, <1>5, TimesMono DEF Within
<1>7. j + 1 \in Nat /\ i + 1 \in Nat /\ (i + 1) + 1 = i + 2
  OBVIOUS
<1>8. (j + 1) \div d = i + 1 <=> d * (i + 1) <= j + 1 /\ j + 1 < d * (i + 2)
  BY <1>2, <1>7, DivIs
<1>9. QED
  BY <1>5, <1>6, <1>8 DEF d

\* A node found by dividing is on the tree.
LEMMA AncestorOnTree ==
    ASSUME NEW j, NEW q, OnTree(j, q), NEW i \in Nat, NEW o \in Orders,
           (j + 1) \div 2 ^ o = i + 1
    PROVE  q + o \in Orders /\ OnTree(i, q + o) /\ Within(j, q, i, q + o)
<1>1. /\ j \in Nat /\ q \in Orders /\ q \in Exps /\ o \in Exps /\ MAX_ORDER + 1 - q \in Exps
      /\ q + (MAX_ORDER + 1 - q) = MAX_ORDER + 1 /\ MAX_ORDER + 1 \in Exps
  BY OnTreeIs, OrdersAreExps DEF Orders, Exps
<1> DEFINE e == MAX_ORDER + 1 - q
           w == 2 ^ q
           d == 2 ^ o
<1>2. w \in Nat \ {0} /\ d \in Nat \ {0} /\ 2 ^ e \in Nat \ {0} /\ 2 ^ (MAX_ORDER + 1) = w * 2 ^ e
  BY <1>1, PowNat, PowAdd
<1>3. d <= j + 1
  <2>1. d * (i + 1) <= j + 1
    <3> HIDE DEF d
    <3>1. (j + 1) \div d = i + 1 /\ j + 1 \in Nat /\ i + 1 \in Nat
      BY <1>1 DEF d
    <3>2. QED
      BY <1>2, <3>1, DivIs
  <2>2. \A x \in Nat, n \in Nat : x * (n + 1) >= x
    OBVIOUS
  <2>3. d * (i + 1) >= d /\ d * (i + 1) \in Nat /\ d \in Nat
    BY <1>2, <2>2
  <2>4. QED
    BY <1>1, <2>1, <2>3
<1>4. j + 2 <= 2 ^ e
  <2>1. w * (j + 2) <= w * 2 ^ e
    BY <1>2, RootIs DEF OnTree, Within, Hi
  <2>2. j + 2 \in Int /\ 2 ^ e \in Int
    BY <1>1, <1>2
  <2>3. QED
    BY <1>2, <2>1, <2>2, TimesMono
<1>5. o < e
  <2> SUFFICES ASSUME e <= o PROVE FALSE
    BY <1>1 DEF Orders
  <2>1. PICK k \in Nat \ {0} : d = 2 ^ e * k
    BY <1>1, PowDivides
  <2>2. \A x \in Nat, n \in Nat \ {0} : x * n >= x
    OBVIOUS
  <2>3. d >= 2 ^ e
    BY <1>2, <2>1, <2>2
  <2>4. QED
    BY <1>1, <1>2, <1>3, <1>4, <2>3
<1>6. q + o \in Orders /\ q <= q + o /\ (q + o) - q = o
  BY <1>1, <1>5 DEF Orders
<1>7. Within(j, q, i, q + o)
  BY <1>1, <1>6, AncestorIs
<1>8. ~Apart(i, q + o, 0, MAX_ORDER)
  <2>1. ~Apart(j, q, 0, MAX_ORDER)
    BY <1>1, RootIs, WithinIsNotApart DEF OnTree
  <2>2. QED
    BY <1>1, <1>6, <1>7, <2>1, RootIs, ApartWithin
<1>9. Within(i, q + o, 0, MAX_ORDER)
  BY <1>6, <1>8, RootIs, NestedOrApart DEF Orders
<1>10. QED
  BY <1>6, <1>7, <1>9 DEF OnTree

\* A node that is taken is a block's, granted or on its way to be.
Owned ==
    \A pd \in Pds, j \in Nodes : malloc_metadata[pd][j].unavail =>
        \/ \E b \in granted : b.pd = pd /\ At(b.pt, b.order, j)
        \/ \E p \in Procs : /\ call[p].at = "return" /\ call[p].pt # -1 /\ call[p].pd = pd
                            /\ At(call[p].pt, call[p].target_order, j)

\* A node that is split has a taken node below it.
SplitUsed ==
    \A pd \in Pds, i \in Nodes : malloc_metadata[pd][i].split =>
        \E j \in Nodes, q \in Orders, r \in Orders :
            /\ OnTree(i, r) /\ OnTree(j, q) /\ q < r /\ Within(j, q, i, r)
            /\ malloc_metadata[pd][j].unavail

MarksInv == Owned /\ SplitUsed

LEMMA InitMarks == Init => MarksInv
BY DEF Init, MarksInv, Owned, SplitUsed

\* Steps that mark nothing, by calls that have no block.
LEMMA MarksUnchanged ==
    ASSUME MarksInv, malloc_metadata' = malloc_metadata, granted \subseteq granted',
           \A q \in Procs : call[q].at = "return" /\ call[q].pt # -1 =>
               /\ call'[q].at = "return" /\ call'[q].pt # -1 /\ call'[q].pd = call[q].pd
               /\ call'[q].pt = call[q].pt /\ call'[q].target_order = call[q].target_order
    PROVE  MarksInv'
<1>1. Owned'
  <2> SUFFICES ASSUME NEW pd \in Pds, NEW j \in Nodes, malloc_metadata[pd][j].unavail
               PROVE  \/ \E b \in granted' : b.pd = pd /\ At(b.pt, b.order, j)
                      \/ \E p \in Procs : /\ call'[p].at = "return" /\ call'[p].pt # -1
                                          /\ call'[p].pd = pd
                                          /\ At(call'[p].pt, call'[p].target_order, j)
    BY DEF Owned
  <2>1. CASE \E b \in granted : b.pd = pd /\ At(b.pt, b.order, j)
    BY <2>1
  <2>2. CASE \E p \in Procs : /\ call[p].at = "return" /\ call[p].pt # -1 /\ call[p].pd = pd
                              /\ At(call[p].pt, call[p].target_order, j)
    BY <2>2
  <2>3. QED
    BY <2>1, <2>2 DEF MarksInv, Owned
<1>2. SplitUsed'
  BY DEF MarksInv, SplitUsed
<1>3. QED
  BY <1>1, <1>2 DEF MarksInv

\* Only the call of p changes, and it had no block.
LEMMA MarksOneCall ==
    ASSUME MallocInv, MarksInv, malloc_metadata' = malloc_metadata, granted \subseteq granted',
           NEW p \in Procs, call[p].at = "return" => call[p].pt = -1,
           \A q \in Procs : q # p => call'[q] = call[q]
    PROVE  MarksInv'
BY MarksUnchanged

LEMMA MarksMalloc ==
    ASSUME MallocInv, MarksInv, NEW p \in Procs, Malloc(p)
    PROVE  MarksInv'
<1>1. malloc_metadata' = malloc_metadata /\ granted' = granted
  BY DEF Malloc
<1>2. ASSUME NEW q \in Procs, call[q].at = "return" /\ call[q].pt # -1
      PROVE  /\ call'[q].at = "return" /\ call'[q].pt # -1 /\ call'[q].pd = call[q].pd
             /\ call'[q].pt = call[q].pt /\ call'[q].target_order = call[q].target_order
  <2>1. q \notin Idle /\ q # p /\ call[q] \in Calls
    BY <1>2, CallingIs DEF Malloc, CallInv
  <2>2. call'[q] = [call[q] EXCEPT !.alone = FALSE]
    BY <2>1 DEF Malloc
  <2>3. QED
    BY <1>2, <2>1, <2>2 DEF Calls
<1>3. QED
  BY <1>1, <1>2, MarksUnchanged

LEMMA MarksTake ==
    ASSUME MallocInv, MarksInv, NEW p \in Procs, Take(p)
    PROVE  MarksInv'
<1> DEFINE c == call[p]
           M == malloc_metadata
<1>1. CallInv(M, granted, c) /\ c.at = "take" /\ c \in Calls /\ M \in Trees
  BY CallingIs DEF Take, CallInv, MallocInv
<1>2. /\ c.pd \in Pds /\ c.tree_idx \in Nodes /\ OnTree(c.tree_idx, c.curr_order)
      /\ c.curr_order = c.target_order
  BY <1>1 DEF CallInv, Calls
<1>3. /\ M' = [M EXCEPT ![c.pd][c.tree_idx].unavail = TRUE] /\ granted' = granted
      /\ call' = [call EXCEPT ![p] = [c EXCEPT !.at = "return", !.pt = PtOf(c)]]
  BY DEF Take
<1>4. /\ call'[p].at = "return" /\ call'[p].pt = PtOf(c) /\ call'[p].pd = c.pd
      /\ call'[p].target_order = c.target_order
      /\ \A q \in Procs : q # p => call'[q] = call[q]
  BY <1>1, <1>3 DEF MallocInv, Calls
<1>5. At(PtOf(c), c.target_order, c.tree_idx) /\ PtOf(c) # -1
  <2>1. NUM_PT \in Int
    BY PowNat, RootIs, OrdersAreExps DEF NUM_PT
  <2>2. QED
    BY <1>2, <2>1, PtOfIs
<1>6. \A pd \in Pds, j \in Nodes : /\ M'[pd][j].split = M[pd][j].split
                                   /\ M[pd][j].unavail => M'[pd][j].unavail
                                   /\ M'[pd][j].unavail =>
                                        M[pd][j].unavail \/ (pd = c.pd /\ j = c.tree_idx)
  <2> SUFFICES ASSUME NEW pd \in Pds, NEW j \in Nodes
               PROVE  /\ M'[pd][j].split = M[pd][j].split
                      /\ M[pd][j].unavail => M'[pd][j].unavail
                      /\ M'[pd][j].unavail => M[pd][j].unavail \/ (pd = c.pd /\ j = c.tree_idx)
    OBVIOUS
  <2>1. M[pd][j] \in [unavail : BOOLEAN, split : BOOLEAN]
    BY <1>1 DEF Trees
  <2>2. CASE pd = c.pd /\ j = c.tree_idx
    <3>1. M'[pd][j] = [M[pd][j] EXCEPT !.unavail = TRUE]
      BY <1>1, <1>2, <1>3, <2>2 DEF Trees
    <3>2. QED
      BY <2>1, <2>2, <3>1
  <2>3. CASE ~(pd = c.pd /\ j = c.tree_idx)
    BY <1>1, <1>2, <1>3, <2>3 DEF Trees
  <2>4. QED
    BY <2>2, <2>3
<1>7. Owned'
  <2> SUFFICES ASSUME NEW pd \in Pds, NEW j \in Nodes, M'[pd][j].unavail
               PROVE  \/ \E b \in granted : b.pd = pd /\ At(b.pt, b.order, j)
                      \/ \E q \in Procs : /\ call'[q].at = "return" /\ call'[q].pt # -1
                                          /\ call'[q].pd = pd
                                          /\ At(call'[q].pt, call'[q].target_order, j)
    BY <1>3 DEF Owned
  <2>1. CASE pd = c.pd /\ j = c.tree_idx
    BY <1>2, <1>4, <1>5, <2>1
  <2>2. CASE \E b \in granted : b.pd = pd /\ At(b.pt, b.order, j)
    BY <2>2
  <2>3. ASSUME NEW q \in Procs, call[q].at = "return", call[q].pt # -1, call[q].pd = pd,
               At(call[q].pt, call[q].target_order, j)
        PROVE  \E s \in Procs : /\ call'[s].at = "return" /\ call'[s].pt # -1
                                /\ call'[s].pd = pd
                                /\ At(call'[s].pt, call'[s].target_order, j)
    <3>1. q # p
      BY <1>1, <2>3
    <3>2. QED
      BY <1>4, <2>3, <3>1
  <2>4. QED
    BY <1>6, <2>1, <2>2, <2>3 DEF MarksInv, Owned
<1>8. SplitUsed'
  BY <1>6 DEF MarksInv, SplitUsed
<1>9. QED
  BY <1>7, <1>8 DEF MarksInv

LEMMA MarksReturn ==
    ASSUME MallocInv, MarksInv, NEW p \in Procs, Return(p)
    PROVE  MarksInv'
<1> DEFINE c == call[p]
           M == malloc_metadata
           i == Parent(c.tree_idx)
<1>1. CallInv(M, granted, c) /\ c.at = "return" /\ c.tree_idx # 0 /\ c \in Calls /\ M \in Trees
  BY CallingIs DEF Return, CallInv, MallocInv
<1>2. granted' = granted
  BY DEF Return
<1>3. CASE c.pt = -1
  <2>1. M' = M /\ \A q \in Procs : q # p => call'[q] = call[q]
    BY <1>3 DEF Return, MallocInv
  <2>2. QED
    BY <1>2, <1>3, <2>1, MarksOneCall
<1>4. CASE c.pt # -1
  <2>1. /\ M' = [M EXCEPT ![c.pd][i].split = TRUE]
        /\ call' = [call EXCEPT ![p] = [c EXCEPT !.tree_idx = i, !.curr_order = @ + 1]]
    BY <1>4 DEF Return
  <2>2. /\ OnTree(c.tree_idx, c.curr_order) /\ OnTree(i, c.curr_order + 1) /\ c.pd \in Pds
        /\ Within(c.tree_idx, c.curr_order, i, c.curr_order + 1) /\ i \in Nodes /\ i \in Nat
        /\ c.curr_order \in Orders /\ c.curr_order + 1 \in Orders
        /\ c.target_order \in Orders /\ c.target_order < c.curr_order + 1 /\ c.tree_idx \in Nat
    <3>1. /\ OnTree(c.tree_idx, c.curr_order) /\ c.target_order <= c.curr_order
          /\ c.target_order \in Orders /\ c.pd \in Pds
      BY <1>1 DEF CallInv, Calls
    <3>2. /\ OnTree(i, c.curr_order + 1)
          /\ Within(c.tree_idx, c.curr_order, i, c.curr_order + 1)
      BY <1>1, <3>1, ParentOnTree
    <3>3. QED
      BY <3>1, <3>2, OnTreeIs DEF Orders
  <2>3. \A q \in Procs : call[q].at = "return" /\ call[q].pt # -1 =>
            /\ call'[q].at = "return" /\ call'[q].pt # -1 /\ call'[q].pd = call[q].pd
            /\ call'[q].pt = call[q].pt /\ call'[q].target_order = call[q].target_order
    <3>1. \A q \in Procs : q # p => call'[q] = call[q]
      BY <2>1 DEF MallocInv
    <3>2. /\ call'[p].at = c.at /\ call'[p].pt = c.pt /\ call'[p].pd = c.pd
          /\ call'[p].target_order = c.target_order
      BY <1>1, <2>1 DEF MallocInv, Calls
    <3>3. QED
      BY <3>1, <3>2
  <2>4. \A pd \in Pds, j \in Nodes : /\ M'[pd][j].unavail = M[pd][j].unavail
                                     /\ M'[pd][j].split =>
                                          M[pd][j].split \/ (pd = c.pd /\ j = i)
    <3> SUFFICES ASSUME NEW pd \in Pds, NEW j \in Nodes
                 PROVE  /\ M'[pd][j].unavail = M[pd][j].unavail
                        /\ M'[pd][j].split => M[pd][j].split \/ (pd = c.pd /\ j = i)
      OBVIOUS
    <3>1. M[pd][j] \in [unavail : BOOLEAN, split : BOOLEAN]
      BY <1>1 DEF Trees
    <3>2. CASE pd = c.pd /\ j = i
      <4>1. M'[pd][j] = [M[pd][j] EXCEPT !.split = TRUE]
        BY <1>1, <2>1, <2>2, <3>2 DEF Trees
      <4>2. QED
        BY <3>1, <3>2, <4>1
    <3>3. CASE ~(pd = c.pd /\ j = i)
      BY <1>1, <2>1, <2>2, <3>3 DEF Trees
    <3>4. QED
      BY <3>2, <3>3
  <2>5. Owned'
    <3> SUFFICES ASSUME NEW pd \in Pds, NEW j \in Nodes, M[pd][j].unavail
                 PROVE  \/ \E b \in granted : b.pd = pd /\ At(b.pt, b.order, j)
                        \/ \E q \in Procs : /\ call'[q].at = "return" /\ call'[q].pt # -1
                                            /\ call'[q].pd = pd
                                            /\ At(call'[q].pt, call'[q].target_order, j)
      BY <1>2, <2>4 DEF Owned
    <3>1. CASE \E b \in granted : b.pd = pd /\ At(b.pt, b.order, j)
      BY <3>1
    <3>2. CASE \E q \in Procs : /\ call[q].at = "return" /\ call[q].pt # -1 /\ call[q].pd = pd
                                /\ At(call[q].pt, call[q].target_order, j)
      BY <2>3, <3>2
    <3>3. QED
      BY <3>1, <3>2 DEF MarksInv, Owned
  <2>6. \E j \in Nodes, q \in Orders, r \in Orders :
            /\ OnTree(i, r) /\ OnTree(j, q) /\ q < r /\ Within(j, q, i, r)
            /\ M[c.pd][j].unavail
    <3>1. PICK m \in Nodes : Taken(M, c, m)
      BY <1>1, <1>4 DEF CallInv
    <3>2. OnTree(m, c.target_order) /\ m \in Nat
      BY <3>1, OnTreeIs DEF Taken, At
    <3>3. Within(m, c.target_order, i, c.curr_order + 1)
      BY <2>2, <3>1, <3>2, WithinTransitive DEF Taken
    <3>4. QED
      BY <2>2, <3>1, <3>2, <3>3 DEF Taken
  <2>7. SplitUsed'
    <3> SUFFICES ASSUME NEW pd \in Pds, NEW k \in Nodes, M'[pd][k].split
                 PROVE  \E j \in Nodes, q \in Orders, r \in Orders :
                            /\ OnTree(k, r) /\ OnTree(j, q) /\ q < r /\ Within(j, q, k, r)
                            /\ M'[pd][j].unavail
      BY DEF SplitUsed
    <3>1. CASE M[pd][k].split
      BY <2>4, <3>1 DEF MarksInv, SplitUsed
    <3>2. CASE pd = c.pd /\ k = i
      BY <2>2, <2>4, <2>6, <3>2
    <3>3. QED
      BY <2>4, <3>1, <3>2
  <2>8. QED
    BY <2>5, <2>7 DEF MarksInv
<1>5. QED
  BY <1>3, <1>4

LEMMA MarksGrant ==
    ASSUME MallocInv, MarksInv, NEW p \in Procs, Grant(p)
    PROVE  MarksInv'
<1> DEFINE g == BlockOf(p)
           M == malloc_metadata
<1>1. /\ M' = M /\ granted' = granted \cup {g} /\ call' = [call EXCEPT ![p] = NotCalling]
  BY DEF Grant
<1>2. g.pd = call[p].pd /\ g.pt = call[p].pt /\ g.order = call[p].target_order
  BY DEF BlockOf
<1> HIDE DEF g
<1>3. ASSUME NEW pd \in Pds, NEW j \in Nodes, M[pd][j].unavail
      PROVE  \/ \E b \in granted' : b.pd = pd /\ At(b.pt, b.order, j)
             \/ \E q \in Procs : /\ call'[q].at = "return" /\ call'[q].pt # -1
                                 /\ call'[q].pd = pd
                                 /\ At(call'[q].pt, call'[q].target_order, j)
  <2>1. CASE \E b \in granted : b.pd = pd /\ At(b.pt, b.order, j)
    BY <1>1, <2>1
  <2>2. ASSUME NEW q \in Procs, call[q].at = "return", call[q].pt # -1, call[q].pd = pd,
               At(call[q].pt, call[q].target_order, j)
        PROVE  \/ \E b \in granted' : b.pd = pd /\ At(b.pt, b.order, j)
               \/ \E s \in Procs : /\ call'[s].at = "return" /\ call'[s].pt # -1
                                   /\ call'[s].pd = pd
                                   /\ At(call'[s].pt, call'[s].target_order, j)
    <3>1. CASE q = p
      BY <1>1, <1>2, <2>2, <3>1
    <3>2. CASE q # p
      <4>1. call'[q] = call[q]
        BY <1>1, <3>2 DEF MallocInv
      <4>2. QED
        BY <2>2, <4>1
    <3>3. QED
      BY <3>1, <3>2
  <2>3. QED
    BY <1>3, <2>1, <2>2 DEF MarksInv, Owned
<1>4. Owned'
  BY <1>1, <1>3 DEF Owned
<1>5. SplitUsed'
  BY <1>1 DEF MarksInv, SplitUsed
<1>6. QED
  BY <1>4, <1>5 DEF MarksInv

LEMMA MarksKept == MallocInv /\ MarksInv /\ [Next]_vars => MarksInv'
<1> SUFFICES ASSUME MallocInv, MarksInv, [Next]_vars PROVE MarksInv'
  OBVIOUS
<1>1. CASE UNCHANGED vars
  BY <1>1, MarksUnchanged DEF vars
<1>2. ASSUME NEW p \in Procs, Visit(p) PROVE MarksInv'
  <2>1. /\ call[p].at = "visit" /\ malloc_metadata' = malloc_metadata /\ granted' = granted
        /\ \A q \in Procs : q # p => call'[q] = call[q]
    BY <1>2 DEF Visit, MallocInv
  <2>2. QED
    BY <2>1, MarksOneCall
<1>3. ASSUME NEW p \in Procs, NextPd(p) \/ Fail(p) PROVE MarksInv'
  <2>1. /\ call[p].pt = -1 /\ malloc_metadata' = malloc_metadata /\ granted' = granted
        /\ \A q \in Procs : q # p => call'[q] = call[q]
    BY <1>3 DEF NextPd, Fail, MallocInv
  <2>2. QED
    BY <2>1, MarksOneCall
<1>4. ASSUME NEW p \in Procs, Free(p) PROVE MarksInv'
  BY <1>4, MarksUnchanged DEF Free
<1>5. QED
  BY <1>1, <1>2, <1>3, <1>4, MarksMalloc, MarksTake, MarksReturn, MarksGrant DEF Next

LEMMA MarksAreRight == MallocInv /\ MarksInv => SplitAboveGranted
<1> SUFFICES ASSUME MallocInv, MarksInv, Idle = Procs, NEW pd \in Pds, NEW i \in Nodes
             PROVE  malloc_metadata[pd][i].split <=>
                      \E j \in Nodes : malloc_metadata[pd][j].unavail /\ i # j /\
                          \E o \in Orders : (j + 1) \div 2 ^ o = i + 1
  BY DEF SplitAboveGranted
<1> DEFINE M == malloc_metadata
<1>1. ASSUME M[pd][i].split
      PROVE  \E j \in Nodes : M[pd][j].unavail /\ i # j /\
                 \E o \in Orders : (j + 1) \div 2 ^ o = i + 1
  <2>1. PICK j \in Nodes, q \in Orders, r \in Orders :
            /\ OnTree(i, r) /\ OnTree(j, q) /\ q < r /\ Within(j, q, i, r)
            /\ M[pd][j].unavail
    BY <1>1 DEF MarksInv, SplitUsed
  <2>2. i \in Nat /\ j \in Nat /\ r - q \in Orders /\ q <= r
    BY <2>1, OnTreeIs DEF Orders
  <2>3. (j + 1) \div 2 ^ (r - q) = i + 1
    BY <2>1, <2>2, AncestorIs
  <2>4. i # j
    <3> SUFFICES ASSUME i = j PROVE FALSE
      OBVIOUS
    <3>1. Within(i, r, i, q) \/ ~Within(i, r, i, q)
      OBVIOUS
    <3>2. 2 ^ q * (i + 1) < 2 ^ r * (i + 1)
      <4>1. PICK k \in Nat \ {0} : 2 ^ r = 2 ^ q * k /\ k >= 2
        BY <2>1, <2>2, OrdersAreExps, PowDivides
      <4>2. 2 ^ q \in Nat \ {0}
        BY OrdersAreExps, PowNat
      <4>3. \A w \in Nat \ {0}, n \in Nat, e \in Nat \ {0} : n >= 2 => w * e < (w * n) * e
        <5> SUFFICES ASSUME NEW w \in Nat \ {0}, NEW n \in Nat, NEW e \in Nat \ {0}, n >= 2
                     PROVE  w * e < (w * n) * e
          OBVIOUS
        <5>1. w * e \in Nat \ {0} /\ (w * n) * e = (w * e) * n
          OBVIOUS
        <5>2. \A x \in Nat \ {0} : x * n >= x * 2
          OBVIOUS
        <5>3. QED
          BY <5>1, <5>2
      <4>4. i + 1 \in Nat \ {0}
        BY <2>2
      <4>5. QED
        BY <4>1, <4>2, <4>3, <4>4
    <3>3. Lo(i, r) <= Lo(i, q) /\ Lo(i, r) \in Nat /\ Lo(i, q) \in Nat
      BY <2>1, <2>2, RangeIs DEF Within
    <3>4. QED
      BY <3>2, <3>3 DEF Lo
  <2>5. QED
    BY <2>1, <2>2, <2>3, <2>4
<1>2. ASSUME NEW j \in Nodes, M[pd][j].unavail, i # j, NEW o \in Orders,
             (j + 1) \div 2 ^ o = i + 1
      PROVE  M[pd][i].split
  <2>1. \A p \in Procs : call[p].at = "none"
    BY DEF Idle, NotCalling
  <2>2. PICK b \in granted : b.pd = pd /\ At(b.pt, b.order, j)
    BY <1>2, <2>1 DEF MarksInv, Owned
  <2>3. b \in Blocks /\ b.pt \in Int
    BY DEF MallocInv, GrantInv, Blocks
  <2>4. PICK k \in Nodes : At(b.pt, b.order, k) /\ Above(M, b.pd, b.order, k, MAX_ORDER)
    BY DEF MallocInv, GrantInv
  <2>5. k = j
    BY <2>2, <2>3, <2>4, AtUnique
  <2>6. OnTree(j, b.order) /\ j \in Nat /\ b.order \in Orders /\ i \in Nat
    BY <2>2, OnTreeIs DEF At, Nodes
  <2>7. /\ b.order + o \in Orders /\ OnTree(i, b.order + o)
        /\ Within(j, b.order, i, b.order + o)
    BY <1>2, <2>6, AncestorOnTree
  <2>8. o # 0
    <3> SUFFICES ASSUME o = 0 PROVE FALSE
      OBVIOUS
    <3>1. (j + 1) \div 1 = i + 1
      BY <1>2, PowersAssumption
    <3>2. \A n \in Nat : n \div 1 = n
      OBVIOUS
    <3>3. QED
      BY <1>2, <2>6, <3>1, <3>2
  <2>9. b.order < b.order + o /\ b.order + o <= MAX_ORDER
    BY <2>6, <2>7, <2>8 DEF Orders
  <2>10. QED
    BY <2>2, <2>4, <2>5, <2>7, <2>9 DEF Above
<1>3. QED
  BY <1>1, <1>2

\* While no call is under way, exactly the ancestors of the blocks granted are split,
\* so that no block is cut off from the root, and no free one is passed over
\* (malloc_tree, paging.c:118).
THEOREM SplitsAreRight == Spec => []SplitAboveGranted
BY InitMalloc, MallocInvKept, InitMarks, MarksKept, MarksAreRight, PTL DEF Spec

-----------------------------------------------------------------------------
(***************************************************************************)
(* A call that no other overlaps is a step of the allocator.               *)
(***************************************************************************)
LEMMA OrderUnique ==
    ASSUME NEW i, NEW o, OnTree(i, o), NEW r, OnTree(i, r)
    PROVE  o = r
<1>1. i \in Nat /\ o \in Orders /\ r \in Orders
  BY DEF OnTree
<1>2. ASSUME NEW q \in Orders, NEW s \in Orders, OnTree(i, q), OnTree(i, s), q < s
      PROVE  FALSE
  <2> DEFINE w == 2 ^ q
  <2>1. PICK k \in Nat \ {0} : 2 ^ s = w * k /\ k >= 2
    <3>1. q \in Exps /\ s \in Exps /\ q <= s
      BY <1>2, OrdersAreExps DEF Orders
    <3>2. QED
      BY <1>2, <3>1, PowDivides
  <2>2. w \in Nat \ {0} /\ MAX_ORDER \in Exps /\ q \in Exps /\ q <= MAX_ORDER
    BY OrdersAreExps, PowNat, RootIs DEF Orders
  <2>3. PICK n \in Nat \ {0} : 2 ^ MAX_ORDER = w * n
    BY <2>2, PowDivides
  <2> HIDE DEF w
  <2>4. w * n <= w * (i + 1) /\ w * (i + 2) <= 2 * (w * n)
    <3>1. 2 ^ (MAX_ORDER + 1) = 2 * 2 ^ MAX_ORDER
      BY <2>2, NextPow, RootIs, OrdersAreExps
    <3>2. QED
      BY <1>2, <2>3, <3>1, RootIs DEF OnTree, Within, Lo, Hi, w
  <2>5. w * n <= (w * k) * (i + 1) /\ (w * k) * (i + 2) <= 2 * (w * n)
    <3>1. 2 ^ (MAX_ORDER + 1) = 2 * 2 ^ MAX_ORDER
      BY <2>2, NextPow, RootIs, OrdersAreExps
    <3>2. QED
      BY <1>2, <2>1, <2>3, <3>1, RootIs DEF OnTree, Within, Lo, Hi
  <2>6. n <= i + 1
    BY <1>1, <2>2, <2>4, TimesMono
  <2>7. k * (i + 2) <= 2 * n
    <3>1. (w * k) * (i + 2) = w * (k * (i + 2)) /\ 2 * (w * n) = w * (2 * n)
      BY <1>1, <2>2
    <3>2. k * (i + 2) \in Int /\ 2 * n \in Int
      BY <1>1
    <3>3. QED
      BY <2>2, <2>5, <3>1, <3>2, TimesMono
  <2>8. \A x \in Nat, y \in Nat : x >= 2 => x * y >= 2 * y
    OBVIOUS
  <2>9. k * (i + 2) >= 2 * (i + 2) /\ k * (i + 2) \in Nat
    BY <1>1, <2>1, <2>8
  <2>10. QED
    BY <1>1, <2>6, <2>7, <2>9
<1>3. QED
  BY <1>1, <1>2 DEF Orders

\* A block of G stands where a node does.
Blocked(G, pd, j, o) == \E b \in G, k \in Nodes : /\ b.pd = pd /\ At(b.pt, b.order, k)
                                                  /\ ~Apart(k, b.order, j, o)

\* So it is wherever a block could be in tree pd, up to page x.
Passed(G, pd, o, x) == \A j \in Nodes : OnTree(j, o) /\ Hi(j, o) <= x => Blocked(G, pd, j, o)

\* A call has passed no node at which it could have had a block.
Searched(G, c) ==
    /\ \A pd \in Pds : pd < c.pd => Passed(G, pd, c.target_order, Hi(0, MAX_ORDER))
    /\ c.at = "visit" => Passed(G, c.pd, c.target_order, Lo(c.tree_idx, c.curr_order))
    /\ c.at = "return" /\ c.pt = -1 =>
         Passed(G, c.pd, c.target_order, Hi(c.tree_idx, c.curr_order))

AloneInv ==
    \A p \in Procs \ Idle :
        /\ call[p].target_order = TargetOrder(call[p].size)
        /\ call[p].size \in Requests
        /\ call[p].alone => /\ Idle = Procs \ {p}
                            /\ call[p].before = granted
                            /\ Searched(granted, call[p])

LEMMA InitAlone == Init => AloneInv
BY DEF Init, AloneInv, Idle

LEMMA AtRoot ==
    ASSUME NEW G, NEW pd, NEW o \in Orders
    PROVE  Passed(G, pd, o, Lo(0, MAX_ORDER))
<1> SUFFICES ASSUME NEW j \in Nodes, OnTree(j, o), Hi(j, o) <= Lo(0, MAX_ORDER) PROVE FALSE
  BY DEF Passed
<1>1. j \in Nat /\ Lo(0, MAX_ORDER) <= Lo(j, o)
  BY DEF OnTree, Within
<1>2. QED
  BY <1>1, RangeIs, RootIs

LEMMA AtAll ==
    ASSUME NEW G, NEW pd, NEW o, Passed(G, pd, o, Hi(0, MAX_ORDER)), NEW j, OnTree(j, o)
    PROVE  Blocked(G, pd, j, o)
BY OnTreeIs DEF Passed, OnTree, Within

\* A node that a block overlaps is passed.
LEMMA PassOver ==
    ASSUME NEW G, NEW pd, NEW o \in Orders, NEW i, NEW q, OnTree(i, q), o <= q,
           Passed(G, pd, o, Lo(i, q)),
           NEW b \in G, NEW k \in Nodes, b.pd = pd, At(b.pt, b.order, k),
           \/ k = i /\ b.order = q
           \/ o = q /\ Within(k, b.order, i, q)
    PROVE  Passed(G, pd, o, Hi(i, q))
<1> SUFFICES ASSUME NEW j \in Nodes, OnTree(j, o), Hi(j, o) <= Hi(i, q)
             PROVE  Blocked(G, pd, j, o)
  BY DEF Passed
<1>1. i \in Nat /\ q \in Orders /\ j \in Nat /\ k \in Nat /\ b.order \in Orders
  BY OnTreeIs DEF At
<1>2. CASE Hi(j, o) <= Lo(i, q)
  BY <1>2 DEF Passed
<1>3. CASE ~(Hi(j, o) <= Lo(i, q))
  <2>1. ~Apart(j, o, i, q)
    <3>1. Lo(j, o) < Hi(j, o) /\ Lo(j, o) \in Nat /\ Hi(j, o) \in Nat /\ Hi(i, q) \in Nat
      BY <1>1, RangeIs
    <3>2. QED
      BY <1>3, <3>1 DEF Apart
  <2>2. CASE k = i /\ b.order = q
    <3>1. ~Apart(k, b.order, j, o)
      BY <2>1, <2>2 DEF Apart
    <3>2. QED
      BY <3>1 DEF Blocked
  <2>3. CASE o = q /\ Within(k, b.order, i, q)
    <3>1. i = j
      BY <1>1, <2>1, <2>3, SameOrderSameNode
    <3>2. ~Apart(k, b.order, j, o)
      BY <1>1, <2>3, <3>1, WithinIsNotApart
    <3>3. QED
      BY <3>2 DEF Blocked
  <2>4. QED
    BY <2>2, <2>3
<1>4. QED
  BY <1>2, <1>3

\* A call that is alone: what is marked belongs to the blocks granted.
LEMMA TakenAlone ==
    ASSUME MallocInv, MarksInv, AloneInv, NEW p \in Procs, call[p].at = "visit", call[p].alone,
           NEW j \in Nodes, malloc_metadata[call[p].pd][j].unavail
    PROVE  \E b \in granted : b.pd = call[p].pd /\ At(b.pt, b.order, j)
<1>1. p \notin Idle /\ Idle = Procs \ {p} /\ call[p].pd \in Pds
  BY CallingIs DEF AloneInv, CallInv, Calls
<1>2. \A q \in Procs : call[q].at # "return"
  BY <1>1 DEF Idle, NotCalling
<1>3. QED
  BY <1>1, <1>2 DEF MarksInv, Owned

LEMMA SearchVisit ==
    ASSUME MallocInv, MarksInv, AloneInv, NEW p \in Procs, Visit(p), call[p].alone
    PROVE  Searched(granted, call'[p])
<1> DEFINE c == call[p]
           d == call'[p]
           M == malloc_metadata
           t == c.target_order
<1>1. CallInv(M, granted, c) /\ c.at = "visit" /\ c \in Calls /\ p \in Procs \ Idle
  BY CallingIs DEF Visit, CallInv
<1>2. /\ OnTree(c.tree_idx, c.curr_order) /\ c.pd \in Pds /\ c.tree_idx \in Nodes
      /\ c.tree_idx \in Nat
      /\ t \in Orders /\ c.curr_order \in Orders /\ t <= c.curr_order
  BY <1>1, OnTreeIs DEF CallInv, Calls
<1>3. /\ \A pd \in Pds : pd < c.pd => Passed(granted, pd, t, Hi(0, MAX_ORDER))
      /\ Passed(granted, c.pd, t, Lo(c.tree_idx, c.curr_order))
  BY <1>1 DEF AloneInv, Searched
<1>4. d = IF M[c.pd][c.tree_idx].unavail
             \/ (M[c.pd][c.tree_idx].split /\ c.curr_order = c.target_order)
          THEN [c EXCEPT !.at = "return", !.pt = -1]
          ELSE IF c.curr_order = c.target_order THEN [c EXCEPT !.at = "take"]
          ELSE [c EXCEPT !.tree_idx = Left(@), !.curr_order = @ - 1]
  BY DEF Visit, Node, MallocInv
<1>5. CASE M[c.pd][c.tree_idx].unavail
           \/ (M[c.pd][c.tree_idx].split /\ c.curr_order = c.target_order)
  <2>1. /\ d.at = "return" /\ d.pd = c.pd /\ d.tree_idx = c.tree_idx /\ d.pt = -1
        /\ d.curr_order = c.curr_order /\ d.target_order = t
    BY <1>1, <1>4, <1>5 DEF Calls
  <2>2. Passed(granted, c.pd, t, Hi(c.tree_idx, c.curr_order))
    <3>1. CASE M[c.pd][c.tree_idx].unavail
      <4>1. PICK b \in granted : b.pd = c.pd /\ At(b.pt, b.order, c.tree_idx)
        BY <1>1, <1>2, <3>1, TakenAlone
      <4>2. b.order = c.curr_order
        BY <1>2, <4>1, OrderUnique DEF At
      <4>3. QED
        BY <1>2, <1>3, <4>1, <4>2, PassOver
    <3>2. CASE M[c.pd][c.tree_idx].split /\ c.curr_order = c.target_order
      <4>1. PICK j \in Nodes, q \in Orders, r \in Orders :
                /\ OnTree(c.tree_idx, r) /\ OnTree(j, q) /\ q < r /\ Within(j, q, c.tree_idx, r)
                /\ M[c.pd][j].unavail
        BY <1>2, <3>2 DEF MarksInv, SplitUsed
      <4>2. PICK b \in granted : b.pd = c.pd /\ At(b.pt, b.order, j)
        BY <1>1, <4>1, TakenAlone
      <4>3. r = c.curr_order /\ q = b.order
        BY <1>2, <4>1, <4>2, OrderUnique DEF At
      <4>4. QED
        BY <1>2, <1>3, <3>2, <4>1, <4>2, <4>3, PassOver
    <3>3. QED
      BY <1>5, <3>1, <3>2
  <2>3. QED
    BY <1>3, <2>1, <2>2 DEF Searched
<1>6. CASE /\ ~M[c.pd][c.tree_idx].unavail
           /\ ~(M[c.pd][c.tree_idx].split /\ c.curr_order = c.target_order)
           /\ c.curr_order = c.target_order
  <2>1. d.at = "take" /\ d.pd = c.pd /\ d.target_order = t
    BY <1>1, <1>4, <1>6 DEF Calls
  <2>2. QED
    BY <1>3, <2>1 DEF Searched
<1>7. CASE ~M[c.pd][c.tree_idx].unavail /\ c.curr_order # c.target_order
  <2>1. /\ d.at = "visit" /\ d.pd = c.pd /\ d.tree_idx = Left(c.tree_idx)
        /\ d.curr_order = c.curr_order - 1 /\ d.target_order = t
    BY <1>1, <1>4, <1>7 DEF Calls
  <2>2. c.curr_order # 0
    BY <1>2, <1>7 DEF Orders
  <2>3. Lo(Left(c.tree_idx), c.curr_order - 1) = Lo(c.tree_idx, c.curr_order)
    BY <1>2, <2>2, Halves
  <2>4. Passed(granted, d.pd, t, Lo(d.tree_idx, d.curr_order))
    BY <1>3, <2>1, <2>3
  <2>5. QED
    BY <1>3, <2>1, <2>4 DEF Searched
<1>8. QED
  BY <1>5, <1>6, <1>7

LEMMA SearchReturn ==
    ASSUME MallocInv, AloneInv, NEW p \in Procs, Return(p), call[p].alone
    PROVE  Searched(granted, call'[p])
<1> DEFINE c == call[p]
           d == call'[p]
           t == c.target_order
           i == Parent(c.tree_idx)
           o == c.curr_order + 1
<1>1. /\ CallInv(malloc_metadata, granted, c) /\ c.at = "return" /\ c \in Calls /\ c.tree_idx # 0
      /\ p \in Procs \ Idle
  BY CallingIs DEF Return, CallInv
<1>2. OnTree(c.tree_idx, c.curr_order) /\ OnTree(i, o)
  BY <1>1, ParentOnTree DEF CallInv
<1>3. i \in Nat /\ o \in Orders /\ o # 0 /\ o - 1 = c.curr_order /\ c.tree_idx \in Nat
  BY <1>2, OnTreeIs DEF Orders
<1>4. /\ Hi(Left(i), c.curr_order) = Lo(Right(i), c.curr_order)
      /\ Hi(Right(i), c.curr_order) = Hi(i, o)
  <2> HIDE DEF i, o
  <2>1. /\ Hi(Left(i), o - 1) = Lo(Right(i), o - 1)
        /\ Hi(Right(i), o - 1) = Hi(i, o)
    BY <1>3, Halves
  <2>2. QED
    BY <1>3, <2>1
<1>5. /\ \A pd \in Pds : pd < c.pd => Passed(granted, pd, t, Hi(0, MAX_ORDER))
      /\ c.pt = -1 => Passed(granted, c.pd, t, Hi(c.tree_idx, c.curr_order))
  BY <1>1 DEF AloneInv, Searched
<1>6. CASE c.pt = -1 /\ IsLeft(c.tree_idx)
  <2>1. d = [c EXCEPT !.at = "visit", !.tree_idx = Right(i)]
    BY <1>6 DEF Return, MallocInv
  <2>2. /\ d.at = "visit" /\ d.pd = c.pd /\ d.tree_idx = Right(i)
        /\ d.curr_order = c.curr_order /\ d.target_order = t
    BY <1>1, <2>1 DEF Calls
  <2>3. c.tree_idx = Left(i)
    BY <1>1, <1>3, <1>6, ParentOf
  <2>4. Passed(granted, d.pd, t, Lo(d.tree_idx, d.curr_order))
    BY <1>4, <1>5, <1>6, <2>2, <2>3
  <2>5. QED
    BY <1>5, <2>2, <2>4 DEF Searched
<1>7. CASE ~(c.pt = -1 /\ IsLeft(c.tree_idx))
  <2>1. d = [c EXCEPT !.tree_idx = i, !.curr_order = @ + 1]
    BY <1>7 DEF Return, MallocInv
  <2>2. /\ d.at = "return" /\ d.pd = c.pd /\ d.tree_idx = i /\ d.pt = c.pt
        /\ d.curr_order = o /\ d.target_order = t
    BY <1>1, <2>1 DEF Calls
  <2>3. c.pt = -1 => Passed(granted, d.pd, t, Hi(d.tree_idx, d.curr_order))
    <3> SUFFICES ASSUME c.pt = -1 PROVE Passed(granted, d.pd, t, Hi(d.tree_idx, d.curr_order))
      OBVIOUS
    <3>1. c.tree_idx = Right(i)
      BY <1>1, <1>3, <1>7, ParentOf
    <3>2. QED
      BY <1>4, <1>5, <2>2, <3>1
  <2>4. QED
    BY <1>5, <2>2, <2>3 DEF Searched
<1>8. QED
  BY <1>6, <1>7

LEMMA SearchNextPd ==
    ASSUME MallocInv, AloneInv, NEW p \in Procs, NextPd(p), call[p].alone
    PROVE  Searched(granted, call'[p])
<1> DEFINE c == call[p]
           d == call'[p]
           t == c.target_order
<1>1. /\ CallInv(malloc_metadata, granted, c) /\ c.at = "return" /\ c \in Calls
      /\ c.tree_idx = 0 /\ c.pt = -1 /\ p \in Procs \ Idle
  BY CallingIs DEF NextPd, Rooted, CallInv
<1>2. c.curr_order = MAX_ORDER /\ t \in Orders /\ c.pd \in Nat
  BY <1>1, OnTreeIs DEF CallInv, Calls, Pds
<1>3. d = [c EXCEPT !.at = "visit", !.pd = @ + 1]
  <2>1. /\ call' = [call EXCEPT ![p].at = "visit", ![p].pd = @ + 1]
        /\ call \in [Procs -> Calls \cup {NotCalling}]
    BY DEF NextPd, MallocInv
  <2>2. QED
    BY <2>1
<1>4. /\ d.at = "visit" /\ d.pd = c.pd + 1 /\ d.tree_idx = 0
      /\ d.curr_order = MAX_ORDER /\ d.target_order = t
  BY <1>1, <1>2, <1>3 DEF Calls
<1>5. /\ \A pd \in Pds : pd < c.pd => Passed(granted, pd, t, Hi(0, MAX_ORDER))
      /\ Passed(granted, c.pd, t, Hi(0, MAX_ORDER))
  BY <1>1, <1>2 DEF AloneInv, Searched
<1>6. \A pd \in Pds : pd < d.pd => pd < c.pd \/ pd = c.pd
  BY <1>2, <1>4 DEF Pds
<1>7. Passed(granted, d.pd, t, Lo(0, MAX_ORDER))
  BY <1>2, AtRoot
<1>8. QED
  BY <1>4, <1>5, <1>6, <1>7 DEF Searched

LEMMA AloneCall ==
    ASSUME MallocInv, AloneInv, NEW p \in Procs \ Idle, granted' = granted,
           \A q \in Procs : q # p => call'[q] = call[q],
           call'[p] # NotCalling, call'[p].size = call[p].size,
           call'[p].target_order = call[p].target_order, call'[p].alone = call[p].alone,
           call'[p].before = call[p].before,
           call[p].alone => Searched(granted, call'[p])
    PROVE  AloneInv'
<1>1. Idle' = Idle
  BY DEF Idle
<1>2. ASSUME NEW q \in Procs \ Idle
      PROVE  /\ call'[q].target_order = TargetOrder(call'[q].size)
             /\ call'[q].size \in Requests
             /\ call'[q].alone => /\ Idle = Procs \ {q}
                                  /\ call'[q].before = granted
                                  /\ Searched(granted, call'[q])
  <2>1. CASE q = p
    BY <2>1 DEF AloneInv
  <2>2. CASE q # p
    <3>1. call'[q] = call[q]
      BY <2>2
    <3>2. QED
      BY <3>1 DEF AloneInv
  <2>3. QED
    BY <2>1, <2>2
<1>3. QED
  BY <1>1, <1>2 DEF AloneInv

\* A call that is alone ends, or another begins while it is under way.
LEMMA AloneEnds ==
    ASSUME MallocInv, AloneInv, NEW p \in Procs \ Idle, call' = [call EXCEPT ![p] = NotCalling]
    PROVE  AloneInv'
<1>1. \A q \in Procs : q # p => call'[q] = call[q]
  BY DEF MallocInv
<1>2. \A q \in Procs : call'[q] # NotCalling => q # p /\ q \in Procs \ Idle
  BY <1>1 DEF MallocInv, Idle
<1>3. \A q \in Procs \ Idle : q # p => ~call[q].alone
  BY DEF AloneInv
<1>4. ASSUME NEW q \in Procs, call'[q] # NotCalling
      PROVE  /\ call'[q].target_order = TargetOrder(call'[q].size)
             /\ call'[q].size \in Requests
             /\ ~call'[q].alone
  BY <1>1, <1>2, <1>3, <1>4 DEF AloneInv
<1>5. QED
  BY <1>4 DEF AloneInv, Idle

LEMMA AloneMalloc ==
    ASSUME MallocInv, AloneInv, NEW p \in Procs, Malloc(p)
    PROVE  AloneInv'
<1>1. PICK size \in Sizes :
        /\ size > 0 /\ size <= BIG_PAGE_SIZE
        /\ call' = [q \in Procs |->
              IF q = p THEN [at |-> "visit", size |-> size, pd |-> 0, tree_idx |-> 0,
                             curr_order |-> MAX_ORDER, target_order |-> TargetOrder(size),
                             pt |-> -1, before |-> granted, alone |-> Idle = Procs]
              ELSE IF q \in Idle THEN NotCalling ELSE [call[q] EXCEPT !.alone = FALSE]]
  BY DEF Malloc
<1>2. granted' = granted
  BY DEF Malloc
<1> DEFINE d == [at |-> "visit", size |-> size, pd |-> 0, tree_idx |-> 0,
                 curr_order |-> MAX_ORDER, target_order |-> TargetOrder(size),
                 pt |-> -1, before |-> granted, alone |-> Idle = Procs]
<1>3. /\ d.at = "visit" /\ d.pd = 0 /\ d.tree_idx = 0 /\ d.curr_order = MAX_ORDER
      /\ d.target_order = TargetOrder(size) /\ d.size = size /\ d.before = granted
      /\ d.alone => Idle = Procs
  OBVIOUS
<1> HIDE DEF d
<1>4. \A q \in Procs : call'[q] = IF q = p THEN d ELSE IF q \in Idle THEN NotCalling
                                  ELSE [call[q] EXCEPT !.alone = FALSE]
  BY <1>1 DEF d
<1>5. ASSUME NEW q \in Procs, q # p, call'[q] # NotCalling
      PROVE  /\ call'[q].target_order = TargetOrder(call'[q].size)
             /\ call'[q].size \in Requests
             /\ ~call'[q].alone
  <2>1. q \in Procs \ Idle /\ call'[q] = [call[q] EXCEPT !.alone = FALSE]
    BY <1>4, <1>5
  <2>2. call[q] \in Calls
    BY <2>1 DEF MallocInv, CallInv
  <2>3. /\ call'[q].target_order = call[q].target_order /\ call'[q].size = call[q].size
        /\ ~call'[q].alone
    BY <2>1, <2>2 DEF Calls
  <2>4. QED
    BY <2>1, <2>3 DEF AloneInv
<1>6. Searched(granted, d)
  <2>1. TargetOrder(size) \in Orders
    BY TargetIs, SizesAssumption
  <2>2. \A pd \in Pds : ~(pd < 0)
    BY DEF Pds
  <2>3. Passed(granted, d.pd, d.target_order, Lo(d.tree_idx, d.curr_order))
    BY <1>3, <2>1, AtRoot
  <2>4. QED
    BY <1>3, <2>2, <2>3 DEF Searched
<1>7. d.alone => Idle' = Procs \ {p}
  <2> SUFFICES ASSUME Idle = Procs PROVE Idle' = Procs \ {p}
    BY <1>3
  <2>1. d # NotCalling
    BY <1>3 DEF NotCalling
  <2>2. \A q \in Procs : call'[q] = NotCalling <=> q # p
    BY <1>4, <2>1
  <2>3. QED
    BY <2>2 DEF Idle
<1>8. size \in Requests
  BY <1>1 DEF Requests
<1>9. ASSUME NEW q \in Procs, call'[q] # NotCalling
      PROVE  /\ call'[q].target_order = TargetOrder(call'[q].size)
             /\ call'[q].size \in Requests
             /\ call'[q].alone => /\ Idle' = Procs \ {q}
                                  /\ call'[q].before = granted'
                                  /\ Searched(granted', call'[q])
  <2>1. CASE q = p
    BY <1>2, <1>3, <1>4, <1>6, <1>7, <1>8, <2>1
  <2>2. CASE q # p
    BY <1>5, <1>9, <2>2
  <2>3. QED
    BY <2>1, <2>2
<1>10. QED
  BY <1>9 DEF AloneInv, Idle

LEMMA AloneKeptAlways == MallocInv /\ MarksInv /\ AloneInv /\ [Next]_vars => AloneInv'
<1> SUFFICES ASSUME MallocInv, MarksInv, AloneInv, [Next]_vars PROVE AloneInv'
  OBVIOUS
<1>1. CASE UNCHANGED vars
  BY <1>1 DEF vars, AloneInv, Idle
<1>2. ASSUME NEW p \in Procs, Visit(p) PROVE AloneInv'
  <2>1. /\ p \in Procs \ Idle /\ call[p] \in Calls /\ granted' = granted
        /\ \A q \in Procs : q # p => call'[q] = call[q]
    BY <1>2, CallingIs DEF Visit, CallInv, MallocInv
  <2>2. \/ call'[p] = [call[p] EXCEPT !.at = "return", !.pt = -1]
        \/ call'[p] = [call[p] EXCEPT !.at = "take"]
        \/ call'[p] = [call[p] EXCEPT !.tree_idx = Left(@), !.curr_order = @ - 1]
    BY <1>2 DEF Visit, MallocInv
  <2>3. /\ call'[p].at # "none" /\ call'[p].size = call[p].size
        /\ call'[p].target_order = call[p].target_order /\ call'[p].alone = call[p].alone
        /\ call'[p].before = call[p].before
    BY <1>2, <2>1, <2>2 DEF Calls, Visit
  <2>4. call'[p] # NotCalling
    BY <2>3 DEF NotCalling
  <2>5. QED
    BY <1>2, <2>1, <2>3, <2>4, SearchVisit, AloneCall
<1>3. ASSUME NEW p \in Procs, Take(p) PROVE AloneInv'
  <2>1. /\ p \in Procs \ Idle /\ call[p] \in Calls /\ granted' = granted
        /\ \A q \in Procs : q # p => call'[q] = call[q]
        /\ OnTree(call[p].tree_idx, call[p].curr_order)
    BY <1>3, CallingIs DEF Take, CallInv, MallocInv
  <2>2. call'[p] = [call[p] EXCEPT !.at = "return", !.pt = PtOf(call[p])]
    BY <1>3 DEF Take, MallocInv
  <2>3. /\ call'[p].at = "return" /\ call'[p].size = call[p].size /\ call'[p].pd = call[p].pd
        /\ call'[p].target_order = call[p].target_order /\ call'[p].alone = call[p].alone
        /\ call'[p].before = call[p].before /\ call'[p].pt = PtOf(call[p])
    BY <2>1, <2>2 DEF Calls
  <2>4. call'[p] # NotCalling
    BY <2>3 DEF NotCalling
  <2>5. call'[p].pt # -1
    <3>1. NUM_PT \in Int
      BY PowNat, RootIs, OrdersAreExps DEF NUM_PT
    <3>2. QED
      BY <2>1, <2>3, <3>1, PtOfIs
  <2>6. call[p].alone => Searched(granted, call'[p])
    <3>1. call[p].alone => Searched(granted, call[p])
      BY <2>1 DEF AloneInv
    <3>2. QED
      BY <2>3, <2>5, <3>1 DEF Searched
  <2>7. QED
    BY <2>1, <2>3, <2>4, <2>6, AloneCall
<1>4. ASSUME NEW p \in Procs, Return(p) PROVE AloneInv'
  <2>1. /\ p \in Procs \ Idle /\ call[p] \in Calls /\ granted' = granted
        /\ \A q \in Procs : q # p => call'[q] = call[q]
    BY <1>4, CallingIs DEF Return, CallInv, MallocInv
  <2>2. \/ call'[p] = [call[p] EXCEPT !.at = "visit", !.tree_idx = Right(Parent(@))]
        \/ call'[p] = [call[p] EXCEPT !.tree_idx = Parent(@), !.curr_order = @ + 1]
    BY <1>4 DEF Return, MallocInv
  <2>3. /\ call'[p].at # "none" /\ call'[p].size = call[p].size
        /\ call'[p].target_order = call[p].target_order /\ call'[p].alone = call[p].alone
        /\ call'[p].before = call[p].before
    BY <1>4, <2>1, <2>2 DEF Calls, Return
  <2>4. call'[p] # NotCalling
    BY <2>3 DEF NotCalling
  <2>5. QED
    BY <1>4, <2>1, <2>3, <2>4, SearchReturn, AloneCall
<1>5. ASSUME NEW p \in Procs, NextPd(p) PROVE AloneInv'
  <2>1. /\ p \in Procs \ Idle /\ call[p] \in Calls /\ granted' = granted
        /\ \A q \in Procs : q # p => call'[q] = call[q]
    BY <1>5, CallingIs DEF NextPd, Rooted, CallInv, MallocInv
  <2>2. call'[p] = [call[p] EXCEPT !.at = "visit", !.pd = @ + 1]
    <3>1. /\ call' = [call EXCEPT ![p].at = "visit", ![p].pd = @ + 1]
          /\ call \in [Procs -> Calls \cup {NotCalling}]
      BY <1>5 DEF NextPd, MallocInv
    <3>2. QED
      BY <3>1
  <2>3. /\ call'[p].at # "none" /\ call'[p].size = call[p].size
        /\ call'[p].target_order = call[p].target_order /\ call'[p].alone = call[p].alone
        /\ call'[p].before = call[p].before
    BY <2>1, <2>2 DEF Calls
  <2>4. call'[p] # NotCalling
    BY <2>3 DEF NotCalling
  <2>5. QED
    BY <1>5, <2>1, <2>3, <2>4, SearchNextPd, AloneCall
<1>6. ASSUME NEW p \in Procs, Grant(p) \/ Fail(p) PROVE AloneInv'
  <2>1. p \in Procs \ Idle /\ call' = [call EXCEPT ![p] = NotCalling]
    BY <1>6, CallingIs DEF Grant, Fail, Rooted
  <2>2. QED
    BY <2>1, AloneEnds
<1>7. ASSUME NEW p \in Procs, Free(p) PROVE AloneInv'
  BY <1>7 DEF Free, AloneInv, Idle
<1>8. QED
  BY <1>1, <1>2, <1>3, <1>4, <1>5, <1>6, <1>7, AloneMalloc DEF Next

\* The places of an order in a tree are its nodes of that order.
LEMMA PlaceIs ==
    ASSUME NEW o \in Orders, NEW k \in 0 .. 2 ^ (MAX_ORDER - o) - 1
    PROVE  At(k * 2 ^ o, o, 2 ^ (MAX_ORDER - o) + k - 1)
<1> DEFINE w == 2 ^ o
           n == 2 ^ (MAX_ORDER - o)
           j == n + k - 1
<1>1. o \in Exps /\ MAX_ORDER - o \in Exps /\ o + (MAX_ORDER - o) = MAX_ORDER /\ MAX_ORDER \in Exps
  BY DEF Orders, Exps
<1>2. w \in Nat \ {0} /\ n \in Nat \ {0} /\ 2 ^ MAX_ORDER = w * n
      /\ 2 ^ (MAX_ORDER + 1) = 2 * (w * n)
  BY <1>1, PowNat, PowAdd, NextPow, OrdersAreExps
<1>3. j \in Nat /\ k \in Int /\ j + 1 = n + k /\ j + 2 = n + (k + 1) /\ k + 1 <= n /\ k >= 0
  BY <1>2
<1>4. \A x \in Int : w * (n + x) = w * n + x * w /\ w * n \in Int /\ x * w \in Int
  BY <1>2
<1>5. Lo(j, o) = w * n + k * w
  BY <1>3, <1>4 DEF Lo
<1>6. Hi(j, o) = w * n + (k + 1) * w
  BY <1>3, <1>4 DEF Hi
<1>7. (k + 1) * w <= w * n /\ k * w >= 0 /\ k * w \in Int /\ w * n \in Int /\ (k + 1) * w \in Int
  <2>1. w * (k + 1) <= w * n /\ w * 0 <= w * k
    BY <1>2, <1>3, TimesMono
  <2>2. (k + 1) * w = w * (k + 1) /\ k * w = w * k /\ w * 0 = 0
    BY <1>2, <1>3
  <2>3. QED
    BY <1>2, <1>3, <2>1, <2>2
<1>8. OnTree(j, o)
  <2> HIDE DEF w, n, j
  <2>1. QED
    BY <1>2, <1>3, <1>5, <1>6, <1>7, RootIs DEF OnTree, Within
<1>9. QED
  BY <1>2, <1>5, <1>7, <1>8 DEF At, NUM_PT

LEMMA NodePlace ==
    ASSUME NEW pt \in Int, NEW o, NEW j, At(pt, o, j)
    PROVE  \E k \in 0 .. 2 ^ (MAX_ORDER - o) - 1 : pt = k * 2 ^ o
<1> DEFINE w == 2 ^ o
           n == 2 ^ (MAX_ORDER - o)
           k == j + 1 - n
<1>1. /\ j \in Nat /\ o \in Orders /\ o \in Exps /\ MAX_ORDER - o \in Exps
      /\ o + (MAX_ORDER - o) = MAX_ORDER /\ MAX_ORDER \in Exps
  BY OnTreeIs DEF At, Orders, Exps
<1>2. w \in Nat \ {0} /\ n \in Nat \ {0} /\ 2 ^ MAX_ORDER = w * n
      /\ 2 ^ (MAX_ORDER + 1) = 2 * (w * n)
  BY <1>1, PowNat, PowAdd, NextPow, OrdersAreExps
<1>3. w * n <= w * (j + 1) /\ w * (j + 2) <= w * (2 * n)
  BY <1>2, RootIs DEF At, OnTree, Within, Lo, Hi
<1>4. n <= j + 1 /\ j + 2 <= 2 * n
  BY <1>1, <1>2, <1>3, TimesMono
<1>5. k \in 0 .. n - 1
  BY <1>1, <1>2, <1>4
<1>6. pt = w * (j + 1) - w * n
  BY <1>1, <1>2 DEF At, Lo, NUM_PT
<1>7. pt = k * w
  BY <1>1, <1>2, <1>6
<1>8. QED
  BY <1>5, <1>7

LEMMA TouchingBlocks ==
    ASSUME NEW b, NEW l, NEW i, NEW j, b.pt \in Int, l.pt \in Int,
           At(b.pt, b.order, i), At(l.pt, l.order, j), b.pd = l.pd,
           ~Apart(i, b.order, j, l.order)
    PROVE  Pages(b) \cap Pages(l) # {}
<1>1. /\ i \in Nat /\ b.order \in Orders /\ j \in Nat /\ l.order \in Orders
      /\ b.pt + NUM_PT = Lo(i, b.order) /\ l.pt + NUM_PT = Lo(j, l.order)
      /\ NUM_PT \in Int
  BY OnTreeIs, PowNat, OrdersAreExps, RootIs DEF At, NUM_PT
<1>2. /\ Hi(i, b.order) = Lo(i, b.order) + 2 ^ b.order /\ 2 ^ b.order \in Nat \ {0}
      /\ Hi(j, l.order) = Lo(j, l.order) + 2 ^ l.order /\ 2 ^ l.order \in Nat \ {0}
  BY <1>1, RangeIs
<1>3. b.pt < l.pt + 2 ^ l.order /\ l.pt < b.pt + 2 ^ b.order
  BY <1>1, <1>2 DEF Apart
<1>4. CASE b.pt <= l.pt
  <2>1. l.pt - b.pt \in 0 .. 2 ^ b.order - 1 /\ 0 \in 0 .. 2 ^ l.order - 1
        /\ l.pt = b.pt + (l.pt - b.pt) /\ l.pt = l.pt + 0
    BY <1>2, <1>3, <1>4
  <2>2. <<b.pd, l.pt>> \in Pages(b) /\ <<l.pd, l.pt>> \in Pages(l)
    BY <2>1 DEF Pages
  <2>3. QED
    BY <2>2
<1>5. CASE l.pt <= b.pt
  <2>1. b.pt - l.pt \in 0 .. 2 ^ l.order - 1 /\ 0 \in 0 .. 2 ^ b.order - 1
        /\ b.pt = l.pt + (b.pt - l.pt) /\ b.pt = b.pt + 0
    BY <1>2, <1>3, <1>5
  <2>2. <<b.pd, b.pt>> \in Pages(b) /\ <<l.pd, b.pt>> \in Pages(l)
    BY <2>1 DEF Pages
  <2>3. QED
    BY <2>2
<1>6. QED
  BY <1>4, <1>5

LEMMA GrantedTo ==
    ASSUME MallocInv, AloneInv, NEW p \in Procs, Grant(p), call[p].alone
    PROVE  A!Grant(p)
<1> DEFINE c == call[p]
           g == BlockOf(p)
           l == [pd |-> c.pd, pt |-> c.pt, order |-> c.target_order]
           o == c.target_order
<1>1. /\ p \in Procs \ Idle /\ c \in Calls /\ g \in Blocks
      /\ CallInv(malloc_metadata, granted, c)
  BY Granting, CallingIs DEF Grant, Rooted
<1>2. /\ o = TargetOrder(c.size) /\ c.size \in Requests /\ c.before = granted
  BY <1>1 DEF AloneInv
<1>3. PICK m \in Nodes : Taken(malloc_metadata, c, m)
  BY Granting DEF Grant
<1>4. /\ g.pt = c.pt /\ g.order = o /\ g.pd = c.pd /\ At(c.pt, o, m) /\ c.pt \in Int /\ c.pd \in Pds
  BY <1>1, <1>3 DEF Taken, BlockOf, Calls
<1>5. \A b \in granted : Pages(b) \cap Pages(l) = {}
  <2> SUFFICES ASSUME NEW b \in granted PROVE Pages(b) \cap Pages(l) = {}
    OBVIOUS
  <2>1. b \in Blocks
    BY DEF MallocInv, GrantInv
  <2>2. PICK j \in Nodes : At(b.pt, b.order, j)
    BY DEF MallocInv, GrantInv
  <2>3. b.pd # g.pd \/ Apart(j, b.order, m, g.order)
    BY <1>2, <1>3, <1>4, <2>2 DEF Taken, ApartFromBefore
  <2>4. Pages(g) = Pages(l)
    BY <1>4 DEF Pages
  <2> HIDE DEF g, l
  <2>5. Disjoint(b, g)
    BY <1>1, <1>4, <2>1, <2>2, <2>3, ApartBlocks
  <2>6. QED
    BY <2>4, <2>5 DEF Disjoint
<1>6. l \in A!Places(TargetOrder(c.size))
  <2>1. PICK k \in 0 .. 2 ^ (MAX_ORDER - o) - 1 : c.pt = k * 2 ^ o
    BY <1>4, NodePlace
  <2>2. \A b : A!Pages(b) = Pages(b)
    BY DEF A!Pages, Pages
  <2>3. l \in [pd : Pds, pt : {n * 2 ^ o : n \in 0 .. 2 ^ (MAX_ORDER - o) - 1}, order : {o}]
    BY <1>4, <2>1
  <2> HIDE DEF l
  <2>4. QED
    BY <1>2, <1>5, <2>2, <2>3 DEF A!Places
<1>7. granted' = granted \cup {[proc |-> p, pd |-> l.pd, pt |-> l.pt,
                                order |-> l.order, size |-> c.size]}
  BY DEF Grant, BlockOf
<1>8. call' = [call EXCEPT ![p] = NotCalling]
  BY DEF Grant
<1>9. c.size # 0 /\ c # NotCalling
  BY <1>1, <1>2 DEF Requests, Idle
<1>10. QED
  <2> DEFINE asked == [q \in Procs |-> IF q \in Idle THEN 0 ELSE call[q].size]
  <2>1. asked[p] = c.size
    BY <1>1
  <2>2. asked' = [asked EXCEPT ![p] = 0]
    BY <1>8 DEF Idle, MallocInv
  <2> HIDE DEF l
  <2>3. QED
    BY <1>6, <1>7, <1>9, <2>1, <2>2 DEF A!Grant

LEMMA RefusedTo ==
    ASSUME MallocInv, AloneInv, NEW p \in Procs, Fail(p), call[p].alone
    PROVE  A!Refuse(p)
<1> DEFINE c == call[p]
           o == c.target_order
<1>1. /\ p \in Procs \ Idle /\ c \in Calls /\ c.at = "return" /\ c.pt = -1 /\ c.tree_idx = 0
      /\ CallInv(malloc_metadata, granted, c) /\ c.pd + 1 \notin Pds
  BY CallingIs DEF Fail, Rooted, CallInv
<1>2. /\ o = TargetOrder(c.size) /\ c.size \in Requests /\ Searched(granted, c)
      /\ o \in Orders /\ c.curr_order = MAX_ORDER
  BY <1>1, OnTreeIs DEF AloneInv, CallInv, Calls
<1>3. ASSUME NEW pd \in Pds PROVE Passed(granted, pd, o, Hi(0, MAX_ORDER))
  <2>1. pd < c.pd \/ pd = c.pd
    BY <1>1 DEF Pds, Calls
  <2>2. QED
    BY <1>1, <1>2, <2>1 DEF Searched
<1>4. A!Places(TargetOrder(c.size)) = {}
  <2> SUFFICES ASSUME NEW l \in [pd : Pds, pt : {n * 2 ^ o : n \in 0 .. 2 ^ (MAX_ORDER - o) - 1},
                                 order : {o}]
               PROVE  \E b \in granted : A!Pages(b) \cap A!Pages(l) # {}
    BY <1>2 DEF A!Places
  <2>1. PICK n \in 0 .. 2 ^ (MAX_ORDER - o) - 1 : l.pt = n * 2 ^ o
    OBVIOUS
  <2>2. At(l.pt, o, 2 ^ (MAX_ORDER - o) + n - 1)
    BY <1>2, <2>1, PlaceIs
  <2> DEFINE j == 2 ^ (MAX_ORDER - o) + n - 1
  <2>3. At(l.pt, l.order, j) /\ l.order = o /\ l.pd \in Pds
    BY <2>2
  <2> HIDE DEF j
  <2>4. Blocked(granted, l.pd, j, o)
    BY <1>3, <2>3, AtAll DEF At
  <2>5. PICK b \in granted, k \in Nodes : /\ b.pd = l.pd /\ At(b.pt, b.order, k)
                                          /\ ~Apart(k, b.order, j, o)
    BY <2>4 DEF Blocked
  <2>6. b.pt \in Int
    BY DEF MallocInv, GrantInv, Blocks
  <2>7. l.pt \in Int
    <3>1. 2 ^ o \in Int
      BY <1>2, OrdersAreExps, PowNat
    <3>2. QED
      BY <2>1, <3>1
  <2>8. Pages(b) \cap Pages(l) # {}
    BY <2>3, <2>5, <2>6, <2>7, TouchingBlocks
  <2>9. \A x : A!Pages(x) = Pages(x)
    BY DEF A!Pages, Pages
  <2>10. QED
    BY <2>8, <2>9
<1>5. call' = [call EXCEPT ![p] = NotCalling] /\ granted' = granted
  BY DEF Fail
<1>6. c.size # 0
  BY <1>2 DEF Requests
<1>7. QED
  <2> DEFINE asked == [q \in Procs |-> IF q \in Idle THEN 0 ELSE call[q].size]
  <2>1. asked[p] = c.size
    BY <1>1
  <2>2. asked' = [asked EXCEPT ![p] = 0]
    BY <1>5 DEF Idle, MallocInv
  <2>3. QED
    BY <1>4, <1>5, <1>6, <2>1, <2>2 DEF A!Refuse

LEMMA AllocatorStep ==
    MallocInv /\ AloneInv /\ [Next]_vars =>
        [A!Next \/ \E p \in Procs : /\ Overlapped(p)
                                    /\ Grant(p) \/ Fail(p)]_(A!vars)
<1> SUFFICES ASSUME MallocInv, AloneInv, [Next]_vars
             PROVE  \/ A!Next
                    \/ \E p \in Procs : Overlapped(p) /\ (Grant(p) \/ Fail(p))
                    \/ UNCHANGED A!vars
  OBVIOUS
<1> DEFINE asked == [q \in Procs |-> IF q \in Idle THEN 0 ELSE call[q].size]
<1>1. ASSUME granted' = granted,
             \A q \in Procs : \/ call'[q] = call[q]
                              \/ q \notin Idle /\ call'[q].at # "none" /\ call'[q].size = call[q].size
      PROVE  UNCHANGED A!vars
  <2>1. \A q \in Procs : q \in Idle' <=> q \in Idle
    BY <1>1 DEF Idle, NotCalling
  <2>2. asked' = asked
    BY <1>1, <2>1
  <2>3. QED
    BY <1>1, <2>2 DEF A!vars
<1>2. ASSUME NEW p \in Procs, NEW d, p \notin Idle, granted' = granted,
             call' = [call EXCEPT ![p] = d], d.at # "none", d.size = call[p].size
      PROVE  UNCHANGED A!vars
  <2>1. \A q \in Procs : \/ call'[q] = call[q]
                         \/ q \notin Idle /\ call'[q].at # "none" /\ call'[q].size = call[q].size
    BY <1>2 DEF MallocInv
  <2>2. QED
    BY <1>1, <1>2, <2>1
<1>3. CASE UNCHANGED vars
  BY <1>1, <1>3 DEF vars
<1>4. ASSUME NEW p \in Procs, Malloc(p) PROVE A!Ask(p)
  <2>1. PICK size \in Sizes :
          /\ size > 0 /\ size <= BIG_PAGE_SIZE
          /\ call' = [q \in Procs |->
                IF q = p THEN [at |-> "visit", size |-> size, pd |-> 0, tree_idx |-> 0,
                               curr_order |-> MAX_ORDER, target_order |-> TargetOrder(size),
                               pt |-> -1, before |-> granted, alone |-> Idle = Procs]
                ELSE IF q \in Idle THEN NotCalling ELSE [call[q] EXCEPT !.alone = FALSE]]
    BY <1>4 DEF Malloc
  <2>2. size \in Requests /\ p \in Idle /\ granted' = granted
    BY <1>4, <2>1 DEF Malloc, Requests
  <2>3. call'[p].at # "none" /\ call'[p].size = size
    BY <2>1
  <2>4. ASSUME NEW q \in Procs, q # p
        PROVE  /\ q \in Idle => call'[q] = NotCalling
               /\ q \notin Idle => call'[q].at # "none" /\ call'[q].size = call[q].size
    <3>1. q \notin Idle => call[q] \in Calls
      BY DEF MallocInv, CallInv
    <3>2. call'[q] = IF q \in Idle THEN NotCalling ELSE [call[q] EXCEPT !.alone = FALSE]
      BY <2>1, <2>4
    <3>3. QED
      BY <3>1, <3>2 DEF Calls
  <2>5. \A q \in Procs : asked'[q] = IF q = p THEN size ELSE asked[q]
    BY <2>3, <2>4 DEF Idle, NotCalling
  <2>6. asked' = [asked EXCEPT ![p] = size]
    BY <2>5
  <2>7. asked[p] = 0
    BY <2>2
  <2>8. QED
    BY <2>2, <2>6, <2>7 DEF A!Ask
<1>5. ASSUME NEW p \in Procs, Visit(p) PROVE UNCHANGED A!vars
  <2>1. /\ p \notin Idle /\ call[p] \in Calls /\ call[p].at = "visit" /\ granted' = granted
    BY <1>5, CallingIs DEF Visit, CallInv
  <2>2. PICK d : /\ call' = [call EXCEPT ![p] = d]
                 /\ \/ d = [call[p] EXCEPT !.at = "return", !.pt = -1]
                    \/ d = [call[p] EXCEPT !.at = "take"]
                    \/ d = [call[p] EXCEPT !.tree_idx = Left(@), !.curr_order = @ - 1]
    BY <1>5 DEF Visit
  <2>3. d.at # "none" /\ d.size = call[p].size
    BY <2>1, <2>2 DEF Calls
  <2>4. QED
    BY <1>2, <2>1, <2>2, <2>3
<1>6. ASSUME NEW p \in Procs, Take(p) PROVE UNCHANGED A!vars
  <2>1. /\ p \notin Idle /\ call[p] \in Calls /\ granted' = granted
    BY <1>6, CallingIs DEF Take, CallInv
  <2>2. call' = [call EXCEPT ![p] = [call[p] EXCEPT !.at = "return", !.pt = PtOf(call[p])]]
    BY <1>6 DEF Take
  <2>3. [call[p] EXCEPT !.at = "return", !.pt = PtOf(call[p])].at # "none"
        /\ [call[p] EXCEPT !.at = "return", !.pt = PtOf(call[p])].size = call[p].size
    BY <2>1 DEF Calls
  <2>4. QED
    BY <1>2, <2>1, <2>2, <2>3
<1>7. ASSUME NEW p \in Procs, Return(p) PROVE UNCHANGED A!vars
  <2>1. /\ p \notin Idle /\ call[p] \in Calls /\ call[p].at = "return" /\ granted' = granted
    BY <1>7, CallingIs DEF Return, CallInv
  <2>2. PICK d : /\ call' = [call EXCEPT ![p] = d]
                 /\ \/ d = [call[p] EXCEPT !.at = "visit", !.tree_idx = Right(Parent(@))]
                    \/ d = [call[p] EXCEPT !.tree_idx = Parent(@), !.curr_order = @ + 1]
    BY <1>7 DEF Return
  <2>3. d.at # "none" /\ d.size = call[p].size
    BY <2>1, <2>2 DEF Calls
  <2>4. QED
    BY <1>2, <2>1, <2>2, <2>3
<1>8. ASSUME NEW p \in Procs, NextPd(p) PROVE UNCHANGED A!vars
  <2>1. /\ p \notin Idle /\ call[p] \in Calls /\ granted' = granted
    BY <1>8, CallingIs DEF NextPd, Rooted, CallInv
  <2>2. call' = [call EXCEPT ![p] = [call[p] EXCEPT !.at = "visit", !.pd = @ + 1]]
    <3>1. /\ call' = [call EXCEPT ![p].at = "visit", ![p].pd = @ + 1]
          /\ call \in [Procs -> Calls \cup {NotCalling}]
      BY <1>8 DEF NextPd, MallocInv
    <3>2. QED
      BY <3>1
  <2>3. [call[p] EXCEPT !.at = "visit", !.pd = @ + 1].at # "none"
        /\ [call[p] EXCEPT !.at = "visit", !.pd = @ + 1].size = call[p].size
    BY <2>1 DEF Calls
  <2>4. QED
    BY <1>2, <2>1, <2>2, <2>3
<1>9. ASSUME NEW p \in Procs, Free(p) PROVE UNCHANGED A!vars
  BY <1>1, <1>9 DEF Free
<1>10. ASSUME NEW p \in Procs, Grant(p) \/ Fail(p)
       PROVE  A!Grant(p) \/ A!Refuse(p) \/ Overlapped(p)
  <2>1. p \notin Idle
    BY <1>10, CallingIs DEF Grant, Fail, Rooted
  <2>2. QED
    BY <1>10, <2>1, GrantedTo, RefusedTo DEF Overlapped
<1>11. QED
  BY <1>3, <1>4, <1>5, <1>6, <1>7, <1>8, <1>9, <1>10 DEF Next, A!Next

\* For any number of programs, trees and orders, a call of malloc that no other call
\* overlaps implements the allocator: it gets an aligned block that is apart from all
\* that were granted, and fails only if every place for one is taken (syscall_malloc,
\* syscall.c:449).
THEOREM MallocAllocates == Spec => Allocates
<1>1. Init => A!Init
  BY DEF Init, A!Init, Idle
<1>2. QED
  BY <1>1, InitMalloc, MallocInvKept, InitMarks, MarksKept, InitAlone, AloneKeptAlways,
     AllocatorStep, PTL DEF Spec, Allocates
=============================================================================
