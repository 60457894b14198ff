--------------------------- MODULE ProgramsProofs ---------------------------
(***************************************************************************)
(* Proofs about what programs show, for any disk image and any sizes of    *)
(* blocks and buffers: strings and lines; what cat, ls, counter and fish   *)
(* have shown, place by place; and the lines that grep has found.          *)
(***************************************************************************)
EXTENDS FileSystemProofs

(***************************************************************************)
(* Strings put together, and the beginnings of strings.                    *)
(***************************************************************************)
LEMMA SameStrings ==
    ASSUME NEW s, IsString(s), NEW t, IsString(t), Len(s) = Len(t),
           \A i \in 1 .. Len(s) : s[i] = t[i]
    PROVE  s = t
BY StringFacts

LEMMA JoinEmpty ==
    ASSUME NEW s, IsString(s)
    PROVE  s \o << >> = s /\ << >> \o s = s
<1> DEFINE n == Len(s)
<1>1. n \in Nat /\ s = [i \in 1 .. n |-> s[i]]
  BY StringFacts
<1>2. s \o << >> = [i \in 1 .. n + 0 |-> IF i <= n THEN s[i] ELSE << >>[i - n]]
  <2>1. PICK z : z = << >>
    OBVIOUS
  <2>2. IsString(z) /\ Len(z) = 0
    BY <2>1, EmptyString
  <2>3. s \o z = [i \in 1 .. n + 0 |-> IF i <= n THEN s[i] ELSE z[i - n]]
    BY <2>2, JoinString DEF n
  <2>4. QED
    BY <2>1, <2>3
<1> HIDE DEF n
<1> DEFINE e == << >>
<1>6. IsString(e) /\ Len(e) = 0
  BY EmptyString
<1> HIDE DEF e
<1>3. e \o s = [i \in 1 .. 0 + n |-> IF i <= 0 THEN e[i] ELSE s[i - 0]]
  BY <1>6, JoinString DEF n
<1>4. [i \in 1 .. n + 0 |-> IF i <= n THEN s[i] ELSE << >>[i - n]] = [i \in 1 .. n |-> s[i]]
  BY <1>1
<1>5. [i \in 1 .. 0 + n |-> IF i <= 0 THEN e[i] ELSE s[i - 0]] = [i \in 1 .. n |-> s[i]]
  BY <1>1
<1>7. QED
  BY <1>1, <1>2, <1>3, <1>4, <1>5 DEF e

LEMMA JoinThree ==
    ASSUME NEW s, IsString(s), NEW t, IsString(t), NEW u, IsString(u)
    PROVE  (s \o t) \o u = s \o (t \o u)
<1> DEFINE A == ToSet(s) \cup ToSet(t) \cup ToSet(u)
<1>1. s \in Seq(ToSet(s)) /\ t \in Seq(ToSet(t)) /\ u \in Seq(ToSet(u))
  BY DEF IsString
<1>2. s \in Seq(A) /\ t \in Seq(A) /\ u \in Seq(A)
  BY <1>1
<1> HIDE DEF A
<1>3. QED
  BY <1>2, ConcatAssociative

LEMMA PrefixIs ==
    ASSUME NEW s, IsString(s), NEW t, IsString(t)
    PROVE  IsPrefix(s, t) <=> Len(s) <= Len(t) /\ \A i \in 1 .. Len(s) : s[i] = t[i]
<1> DEFINE n == Len(s)
<1>1. n \in Nat /\ s = [i \in 1 .. n |-> s[i]] /\ DOMAIN s = 1 .. n
  BY StringFacts
<1> HIDE DEF n
<1>2. SubSeq(s, 1, n) = [i \in 1 .. n |-> s[i]] /\ SubSeq(t, 1, n) = [i \in 1 .. n |-> t[i]]
  BY <1>1, SubSeqIs
<1>3. IsPrefix(s, t) <=> n <= Len(t) /\ SubSeq(s, 1, n) = SubSeq(t, 1, n)
  BY DEF IsPrefix, n
<1>4. QED
  BY <1>1, <1>2, <1>3 DEF n

LEMMA PrefixOfJoin ==
    ASSUME NEW s, IsString(s), NEW t, IsString(t)
    PROVE  IsPrefix(s, s \o t)
<1> DEFINE c == s \o t
<1>1. IsString(c) /\ Len(c) = Len(s) + Len(t)
      /\ c = [i \in 1 .. Len(s) + Len(t) |-> IF i <= Len(s) THEN s[i] ELSE t[i - Len(s)]]
  BY JoinString
<1>2. Len(s) \in Nat /\ Len(t) \in Nat
  BY StringFacts
<1> HIDE DEF c
<1>3. Len(s) <= Len(c) /\ \A i \in 1 .. Len(s) : s[i] = c[i]
  BY <1>1, <1>2
<1>4. QED
  BY <1>1, <1>3, PrefixIs DEF c

LEMMA PrefixOfPrefix ==
    ASSUME NEW s, IsString(s), NEW t, IsString(t), NEW u, IsString(u),
           IsPrefix(s, t), IsPrefix(t, u)
    PROVE  IsPrefix(s, u)
<1>1. Len(s) \in Nat /\ Len(t) \in Nat /\ Len(u) \in Nat
  BY StringFacts
<1>2. Len(s) <= Len(t) /\ \A i \in 1 .. Len(s) : s[i] = t[i]
  BY PrefixIs
<1>3. Len(t) <= Len(u) /\ \A i \in 1 .. Len(t) : t[i] = u[i]
  BY PrefixIs
<1>4. Len(s) <= Len(u) /\ \A i \in 1 .. Len(s) : s[i] = u[i]
  BY <1>1, <1>2, <1>3
<1>5. QED
  BY <1>4, PrefixIs

-----------------------------------------------------------------------------
\* FlattenSeq: the strings of a sequence one after the other.
StringsOf(s, n) == /\ DOMAIN s = 1 .. n /\ s = [k \in 1 .. n |-> s[k]]
                   /\ \A k \in 1 .. n : IsString(s[k])

\* What the first strings make.
Gathers(g, s, n) == /\ DOMAIN g = 0 .. n
                    /\ g[0] = << >>
                    /\ \A k \in 1 .. n : g[k] = g[k - 1] \o s[k]
                    /\ \A k \in 0 .. n : IsString(g[k])

LEMMA GathersSome ==
    ASSUME NEW n \in Nat, NEW s, StringsOf(s, n)
    PROVE  \E g : Gathers(g, s, n)
<1> DEFINE A == UNION {ToSet(s[k]) : k \in 1 .. n}
           Vals == Seq(A)
           F == [x \in (1 .. n) \X Vals |-> x[2] \o s[x[1]]]
<1>1. \A k \in 1 .. n : s[k] \in Vals
  <2> SUFFICES ASSUME NEW k \in 1 .. n PROVE s[k] \in Vals
    OBVIOUS
  <2>1. s[k] \in Seq(ToSet(s[k])) /\ ToSet(s[k]) \subseteq A
    BY DEF StringsOf, IsString
  <2> HIDE DEF A
  <2>2. QED
    BY <2>1
<1>2. << >> \in Vals
  OBVIOUS
<1>3. F \in [(1 .. n) \X Vals -> Vals]
  <2> HIDE DEF A
  <2>1. \A x \in (1 .. n) \X Vals : x[2] \o s[x[1]] \in Vals
    BY <1>1
  <2>2. QED
    BY <2>1
<1>4. PICK g : Follows(g, n, Vals, << >>, F)
  <2> HIDE DEF Vals, F
  <2>1. QED
    BY <1>2, <1>3, Recursion
<1>5. g \in [0 .. n -> Vals] /\ g[0] = << >> /\ \A k \in 1 .. n : g[k] = F[<<k, g[k - 1]>>]
  BY <1>4 DEF Follows
<1>6. \A k \in 1 .. n : g[k] = g[k - 1] \o s[k]
  <2> SUFFICES ASSUME NEW k \in 1 .. n PROVE g[k] = g[k - 1] \o s[k]
    OBVIOUS
  <2>1. k - 1 \in 0 .. n
    OBVIOUS
  <2>2. g[k - 1] \in Vals
    BY <1>5, <2>1
  <2> HIDE DEF Vals
  <2>3. QED
    BY <1>5, <2>2
<1>7. \A k \in 0 .. n : IsString(g[k])
  <2> SUFFICES ASSUME NEW k \in 0 .. n PROVE IsString(g[k])
    OBVIOUS
  <2>1. g[k] \in Seq(A)
    BY <1>5
  <2> HIDE DEF A
  <2>2. Len(g[k]) \in Nat /\ DOMAIN g[k] = 1 .. Len(g[k]) /\ g[k] = [i \in 1 .. Len(g[k]) |-> g[k][i]]
    BY <2>1, SeqIs
  <2>3. QED
    BY <2>2, StringIs
<1>8. QED
  BY <1>5, <1>6, <1>7 DEF Gathers

LEMMA FlattenGathers ==
    ASSUME NEW n \in Nat, NEW s, StringsOf(s, n), NEW g, Gathers(g, s, n)
    PROVE  FlattenSeq(s) = g[n]
<1>0. s \in Seq({s[k] : k \in 1 .. n}) /\ Len(s) = n
  <2>1. s \in [1 .. n -> {s[k] : k \in 1 .. n}]
    BY DEF StringsOf
  <2>2. QED
    BY <2>1, FunctionIsSeq
<1>1. CASE n = 0
  <2>1. s = << >>
    BY <1>0, <1>1 DEF StringsOf
  <2>2. QED
    BY <1>0, <1>1, <2>1 DEF FlattenSeq, Gathers
<1>2. CASE n # 0
  <2> DEFINE Eq(f) == f = [i \in 1 .. Len(s) |-> IF i = 1 THEN s[i] ELSE f[i - 1] \o s[i]]
             f0 == CHOOSE f : Eq(f)
             h == [i \in 1 .. n |-> g[i]]
  <2>1. Eq(h)
    <3>1. \A i \in 1 .. n : h[i] = IF i = 1 THEN s[i] ELSE h[i - 1] \o s[i]
      <4> SUFFICES ASSUME NEW i \in 1 .. n
                   PROVE  h[i] = IF i = 1 THEN s[i] ELSE h[i - 1] \o s[i]
        OBVIOUS
      <4>1. g[i] = g[i - 1] \o s[i] /\ IsString(s[i])
        BY DEF Gathers, StringsOf
      <4>2. CASE i = 1
        <5>1. i - 1 = 0 /\ g[0] = << >>
          BY <4>2 DEF Gathers
        <5>2. g[i] = << >> \o s[i]
          BY <4>1, <5>1
        <5>3. QED
          BY <4>1, <4>2, <5>2, JoinEmpty
      <4>3. CASE i # 1
        <5>1. i - 1 \in 1 .. n
          BY <4>3
        <5>2. h[i - 1] = g[i - 1]
          BY <5>1
        <5>3. QED
          BY <4>1, <4>3, <5>2
      <4>4. QED
        BY <4>2, <4>3
    <3>2. h = [i \in 1 .. n |-> h[i]]
      OBVIOUS
    <3> HIDE DEF h
    <3>3. h = [i \in 1 .. n |-> IF i = 1 THEN s[i] ELSE h[i - 1] \o s[i]]
      BY <3>1, <3>2
    <3>4. QED
      BY <3>3, <1>0
  <2>2. Eq(f0)
    <3> HIDE DEF h
    <3>1. QED
      BY <2>1
  <2>3. FlattenSeq(s) = f0[n]
    BY <1>0, <1>2 DEF FlattenSeq
  <2> HIDE DEF f0, h
  <2>4. \A i \in 1 .. n : f0[i] = IF i = 1 THEN s[i] ELSE f0[i - 1] \o s[i]
    BY <2>2, <1>0
  <2> DEFINE T == {i \in 0 .. n : i = 0 \/ f0[i] = g[i]}
  <2>5. 0 \in T
    OBVIOUS
  <2>6. ASSUME NEW i \in 0 .. n - 1, i \in T PROVE i + 1 \in T
    <3>1. i + 1 \in 1 .. n /\ (i + 1) - 1 = i
      OBVIOUS
    <3>2. g[i + 1] = g[i] \o s[i + 1] /\ IsString(s[i + 1])
      BY <3>1 DEF Gathers, StringsOf
    <3>3. f0[i + 1] = IF i + 1 = 1 THEN s[i + 1] ELSE f0[i] \o s[i + 1]
      BY <2>4, <3>1
    <3>4. CASE i = 0
      <4>1. i + 1 = 1 /\ g[i] = << >>
        BY <3>4 DEF Gathers
      <4>2. g[i + 1] = << >> \o s[i + 1] /\ f0[i + 1] = s[i + 1]
        BY <3>2, <3>3, <4>1
      <4>3. f0[i + 1] = g[i + 1]
        BY <3>2, <4>2, JoinEmpty
      <4>4. QED
        BY <3>1, <4>3
    <3>5. CASE i # 0
      <4>1. f0[i] = g[i]
        BY <2>6, <3>5
      <4>3. i + 1 # 1
        BY <3>5
      <4>4. f0[i + 1] = f0[i] \o s[i + 1]
        BY <3>3, <4>3
      <4>2. f0[i + 1] = g[i + 1]
        BY <3>2, <4>1, <4>4
      <4>5. QED
        BY <3>1, <4>2
    <3>6. QED
      BY <3>4, <3>5
  <2>7. \A i \in 0 .. n : i \in T
    <3> HIDE DEF T
    <3>1. QED
      BY <2>5, <2>6, UpTo
  <2>8. n \in T
    BY <2>7
  <2>9. QED
    BY <1>2, <2>3, <2>8
<1>3. QED
  BY <1>1, <1>2

LEMMA FlattenGrows ==
    ASSUME NEW n \in Nat, NEW s, StringsOf(s, n + 1), NEW t, StringsOf(t, n),
           \A k \in 1 .. n : t[k] = s[k]
    PROVE  /\ FlattenSeq(s) = FlattenSeq(t) \o s[n + 1]
           /\ IsString(FlattenSeq(s)) /\ IsString(FlattenSeq(t))
<1>1. PICK g : Gathers(g, s, n + 1)
  <2>1. n + 1 \in Nat
    OBVIOUS
  <2>2. QED
    BY <2>1, GathersSome
<1>2. FlattenSeq(s) = g[n + 1]
  <2>1. n + 1 \in Nat
    OBVIOUS
  <2>2. QED
    BY <1>1, <2>1, FlattenGathers
<1> DEFINE h == [k \in 0 .. n |-> g[k]]
<1>3. Gathers(h, t, n)
  <2>1. DOMAIN h = 0 .. n /\ h[0] = << >>
    BY <1>1 DEF Gathers
  <2>2. \A k \in 0 .. n : h[k] = g[k] /\ IsString(h[k])
    <3>1. \A k \in 0 .. n : k \in 0 .. n + 1
      OBVIOUS
    <3>2. QED
      BY <1>1, <3>1 DEF Gathers
  <2> HIDE DEF h
  <2>3. \A k \in 1 .. n : h[k] = h[k - 1] \o t[k]
    <3> SUFFICES ASSUME NEW k \in 1 .. n PROVE h[k] = h[k - 1] \o t[k]
      OBVIOUS
    <3>1. k \in 0 .. n /\ k - 1 \in 0 .. n /\ k \in 1 .. n + 1
      OBVIOUS
    <3>2. g[k] = g[k - 1] \o s[k]
      BY <1>1, <3>1 DEF Gathers
    <3>3. QED
      BY <2>2, <3>1, <3>2
  <2>4. QED
    BY <2>1, <2>2, <2>3 DEF Gathers
<1>4. FlattenSeq(t) = g[n]
  <2>1. h[n] = g[n]
    OBVIOUS
  <2> HIDE DEF h
  <2>2. QED
    BY <1>3, <2>1, FlattenGathers
<1>5. g[n + 1] = g[n] \o s[n + 1] /\ IsString(g[n]) /\ IsString(g[n + 1])
  <2>1. n + 1 \in 1 .. n + 1 /\ (n + 1) - 1 = n /\ n \in 0 .. n + 1 /\ n + 1 \in 0 .. n + 1
    OBVIOUS
  <2>2. g[n + 1] = g[(n + 1) - 1] \o s[n + 1]
    BY <1>1, <2>1 DEF Gathers
  <2>3. IsString(g[n]) /\ IsString(g[n + 1])
    BY <1>1, <2>1 DEF Gathers
  <2>4. QED
    BY <2>1, <2>2, <2>3
<1>6. QED
  BY <1>2, <1>4, <1>5

LEMMA FlattenNone == FlattenSeq(<< >>) = << >>
BY DEF FlattenSeq

-----------------------------------------------------------------------------
(***************************************************************************)
(* cat and ls: what they have shown is what they have read.                *)
(***************************************************************************)
\* No character of a name is written for a byte of the image.
NamesPlain == \A k \in 1 .. Len(Dentries) :
                 \A i \in 1 .. Len(Dentries[k].name) : Dentries[k].name[i] \notin DOMAIN letters

\* Names of entries, each with what the program writes after it.
NameWith(k, ending) == Dentries[k].name \o ending
NamesListed(n, ending) == FlattenSeq([k \in 1 .. n |-> NameWith(k, ending)])

\* What a program has got from a descriptor that is where f is, and whether that is all.
ReadSoFar(f, ending) == CASE f.file_type = "file" -> Text(Run(f.inode, 0, f.file_pos))
                          [] f.file_type = "dir"  -> NamesListed(f.file_pos, ending)
                          [] OTHER                -> << >>
AtEnd(f) == CASE f.file_type = "file" -> f.file_pos = Inodes[f.inode].length
              [] f.file_type = "dir"  -> f.file_pos = Len(Dentries)
              [] OTHER                -> TRUE

\* The two programs that CopierOK does not tell apart.
CopierKind == \/ p.prog = "cat" /\ p.ending = << >> /\ p.size = CAT_SIZE
              \/ /\ p.prog = "ls" /\ p.ending = <<NEWLINE>> /\ p.size = SBUFSIZE - 1
                 /\ p.arg = Directory /\ p.at # "argument"

\* f is the file with the name, at some position.
IsFileNamed(f, name) == Found(name) /\ \E pos : f = At_(NewFile(name), pos)

\* All that there is to be read under the name.
IsWhole(shown, name, ending) ==
    \E f : IsFileNamed(f, name) /\ AtEnd(f) /\ shown = ReadSoFar(f, ending)

\* What cat and ls have written is what they have read, and what they hold comes next.
CopierShown ==
    /\ CopierKind /\ IsString(output)
    /\ p.at \in {"argument", "open"} => table = FreshTable /\ output = << >>
    /\ p.at \in {"read", "write"} =>
          /\ IsFileNamed(fd_array[p.fd], p.arg)
          /\ ReadSoFar(fd_array[p.fd], p.ending) =
                IF p.at = "write" THEN output \o (p.data \o p.ending) ELSE output
    /\ p.at = "ended" /\ Found(p.arg) =>
          IF p.status = 0
          THEN IsWhole(output, p.arg, p.ending)
          ELSE NewFile(p.arg).file_type = "file" /\ HasBad(NewFile(p.arg).inode)

LEMMA NamedString ==
    ASSUME NEW k \in 1 .. Len(Dentries), NEW ending, IsString(ending)
    PROVE  /\ IsString(Dentries[k].name) /\ Len(Dentries[k].name) \in Nat \ {0}
           /\ IsString(NameWith(k, ending))
           /\ Len(Dentries[k].name) <= MAX_FILE_NAME_LENGTH
<1>1. /\ IsString(Dentries[k].name) /\ Len(Dentries[k].name) \in Nat \ {0}
      /\ Len(Dentries[k].name) <= MAX_FILE_NAME_LENGTH
  BY NameAssumption
<1>2. IsString(NameWith(k, ending))
  BY <1>1, JoinString DEF NameWith
<1>3. QED
  BY <1>1, <1>2

LEMMA ListedStrings ==
    ASSUME NEW n \in 0 .. Len(Dentries), NEW ending, IsString(ending)
    PROVE  StringsOf([k \in 1 .. n |-> NameWith(k, ending)], n)
<1>1. \A k \in 1 .. n : IsString(NameWith(k, ending))
  BY NamedString, DentriesSeq
<1> DEFINE s == [k \in 1 .. n |-> NameWith(k, ending)]
<1>2. DOMAIN s = 1 .. n /\ s = [k \in 1 .. n |-> s[k]] /\ \A k \in 1 .. n : s[k] = NameWith(k, ending)
  OBVIOUS
<1> HIDE DEF s
<1>3. StringsOf(s, n)
  BY <1>1, <1>2 DEF StringsOf
<1>4. QED
  BY <1>3 DEF s

LEMMA ListedGrows ==
    ASSUME NEW ending, IsString(ending)
    PROVE  /\ NamesListed(0, ending) = << >>
           /\ \A n \in 0 .. Len(Dentries) : IsString(NamesListed(n, ending))
           /\ \A n \in 0 .. Len(Dentries) - 1 :
                 NamesListed(n + 1, ending) = NamesListed(n, ending) \o NameWith(n + 1, ending)
<1>1. NamesListed(0, ending) = << >>
  <2>1. [k \in 1 .. 0 |-> NameWith(k, ending)] = << >>
    OBVIOUS
  <2>2. QED
    BY <2>1, FlattenNone DEF NamesListed
<1>2. ASSUME NEW n \in 0 .. Len(Dentries) - 1
      PROVE  /\ NamesListed(n + 1, ending) = NamesListed(n, ending) \o NameWith(n + 1, ending)
             /\ IsString(NamesListed(n + 1, ending))
  <2> DEFINE s == [k \in 1 .. n + 1 |-> NameWith(k, ending)]
             t == [k \in 1 .. n |-> NameWith(k, ending)]
  <2>1. n \in Nat /\ n \in 0 .. Len(Dentries) /\ n + 1 \in 0 .. Len(Dentries) /\ n + 1 \in 1 .. n + 1
    BY DentriesSeq
  <2>2. StringsOf(s, n + 1) /\ StringsOf(t, n)
    BY <2>1, ListedStrings
  <2>3. (\A k \in 1 .. n : t[k] = s[k]) /\ s[n + 1] = NameWith(n + 1, ending)
    BY <2>1
  <2> HIDE DEF s, t
  <2>4. FlattenSeq(s) = FlattenSeq(t) \o s[n + 1] /\ IsString(FlattenSeq(s))
    BY <2>1, <2>2, <2>3, FlattenGrows
  <2>5. QED
    BY <2>3, <2>4 DEF NamesListed, s, t
<1>3. \A n \in 0 .. Len(Dentries) : IsString(NamesListed(n, ending))
  <2> SUFFICES ASSUME NEW n \in 0 .. Len(Dentries) PROVE IsString(NamesListed(n, ending))
    OBVIOUS
  <2>1. CASE n = 0
    BY <1>1, <2>1, EmptyString
  <2>2. CASE n # 0
    <3>1. PICK m \in 0 .. Len(Dentries) - 1 : n = m + 1
      <4>1. n - 1 \in 0 .. Len(Dentries) - 1 /\ n = (n - 1) + 1
        BY <2>2, DentriesSeq
      <4>2. QED
        BY <4>1
    <3>2. QED
      BY <1>2, <3>1
  <2>3. QED
    BY <2>1, <2>2
<1>4. QED
  BY <1>1, <1>2, <1>3

LEMMA ListedPrefix ==
    ASSUME NEW ending, IsString(ending), NEW m \in 0 .. Len(Dentries)
    PROVE  IsPrefix(NamesListed(m, ending), NamesListed(Len(Dentries), ending))
<1> DEFINE n == Len(Dentries)
           T == {j \in 0 .. n - m : IsPrefix(NamesListed(m, ending), NamesListed(m + j, ending))}
<1>0. n \in Nat /\ m \in Nat /\ n - m \in Nat
  BY DentriesSeq
<1>1. \A j \in 0 .. n - m : IsString(NamesListed(m + j, ending)) /\ IsString(NamesListed(m, ending))
  <2> SUFFICES ASSUME NEW j \in 0 .. n - m
               PROVE  IsString(NamesListed(m + j, ending)) /\ IsString(NamesListed(m, ending))
    OBVIOUS
  <2>1. m + j \in 0 .. n
    BY <1>0
  <2>2. QED
    BY <2>1, ListedGrows
<1>2. 0 \in T
  <2>1. IsPrefix(NamesListed(m, ending), NamesListed(m, ending) \o << >>)
    BY <1>0, <1>1, ListedGrows, PrefixOfJoin, EmptyString
  <2>2. NamesListed(m, ending) \o << >> = NamesListed(m, ending)
    BY ListedGrows, JoinEmpty
  <2>3. m + 0 = m /\ 0 \in 0 .. n - m
    BY <1>0
  <2>4. QED
    BY <2>1, <2>2, <2>3
<1>3. ASSUME NEW j \in 0 .. (n - m) - 1, j \in T PROVE j + 1 \in T
  <2>1. PICK i \in 0 .. n - 1 : i = m + j
    BY <1>0
  <2>2. /\ NamesListed(i + 1, ending) = NamesListed(i, ending) \o NameWith(i + 1, ending)
        /\ IsString(NamesListed(i, ending)) /\ IsString(NamesListed(i + 1, ending))
        /\ IsString(NameWith(i + 1, ending))
    <3>1. i \in 0 .. n /\ i + 1 \in 0 .. n /\ i + 1 \in 1 .. n
      BY <1>0
    <3>2. QED
      BY <3>1, ListedGrows, NamedString
  <2>3. IsPrefix(NamesListed(i, ending), NamesListed(i + 1, ending))
    BY <2>2, PrefixOfJoin
  <2>4. IsPrefix(NamesListed(m, ending), NamesListed(i, ending)) /\ IsString(NamesListed(m, ending))
    BY <1>3, <2>1, ListedGrows
  <2>5. IsPrefix(NamesListed(m, ending), NamesListed(i + 1, ending))
    BY <2>2, <2>3, <2>4, PrefixOfPrefix
  <2>6. i + 1 = m + (j + 1) /\ j + 1 \in 0 .. n - m
    BY <1>0, <2>1
  <2>7. QED
    BY <2>5, <2>6
<1>4. \A j \in 0 .. n - m : j \in T
  <2> HIDE DEF T, n
  <2>1. QED
    BY <1>0, <1>2, <1>3, UpTo
<1>5. n - m \in T /\ m + (n - m) = n
  BY <1>0, <1>4
<1>6. QED
  BY <1>5

-----------------------------------------------------------------------------
\* The text of a run of bytes, of two in a row, and of a name.
LEMMA TextRuns ==
    ASSUME NEW inode, NEW n \in Nat, NEW m \in Nat
    PROVE  /\ IsString(Text(Run(inode, 0, n))) /\ Len(Text(Run(inode, 0, n))) = n
           /\ Text(Run(inode, 0, 0)) = << >>
           /\ Text(Run(inode, 0, n + m)) = Text(Run(inode, 0, n)) \o Text(Run(inode, n, m))
           /\ IsPrefix(Text(Run(inode, 0, n)), Text(Run(inode, 0, n + m)))
<1> DEFINE a == Text(Run(inode, 0, n))
           b == Text(Run(inode, n, m))
           c == Text(Run(inode, 0, n + m))
<1>0. n + m \in Nat /\ 0 \in Nat
  OBVIOUS
<1>1. /\ IsString(a) /\ Len(a) = n /\ IsString(b) /\ Len(b) = m /\ IsString(c) /\ Len(c) = n + m
  BY <1>0, RunString, TextString
<1>2. Text(Run(inode, 0, 0)) = << >>
  BY <1>0, RunString, TextString, StringFacts
<1>3. c = a \o b
  <2>1. /\ IsString(a \o b) /\ Len(a \o b) = n + m
        /\ a \o b = [i \in 1 .. n + m |-> IF i <= n THEN a[i] ELSE b[i - n]]
    <3> HIDE DEF a, b, c
    <3>1. /\ IsString(a \o b) /\ Len(a \o b) = Len(a) + Len(b)
          /\ a \o b = [i \in 1 .. Len(a) + Len(b) |-> IF i <= Len(a) THEN a[i] ELSE b[i - Len(a)]]
      BY <1>1, JoinString
    <3>2. Len(a) = n /\ Len(b) = m
      BY <1>1
    <3>3. QED
      BY <3>1, <3>2
  <2>2. \A i \in 1 .. n + m : c[i] = IF i <= n THEN a[i] ELSE b[i - n]
    <3> SUFFICES ASSUME NEW i \in 1 .. n + m PROVE c[i] = IF i <= n THEN a[i] ELSE b[i - n]
      OBVIOUS
    <3> DEFINE Char(x) == IF x \in DOMAIN letters THEN letters[x] ELSE x
    <3>1. c[i] = Char(ByteAt(inode, 0 + i - 1))
      BY DEF Text, Run
    <3>2. CASE i <= n
      <4>1. i \in 1 .. n
        BY <3>2
      <4>2. a[i] = Char(ByteAt(inode, 0 + i - 1))
        BY <4>1 DEF Text, Run
      <4>3. QED
        BY <3>1, <3>2, <4>2
    <3>3. CASE ~(i <= n)
      <4>1. i - n \in 1 .. m /\ n + (i - n) - 1 = 0 + i - 1
        BY <3>3
      <4>2. b[i - n] = Char(ByteAt(inode, n + (i - n) - 1))
        BY <4>1 DEF Text, Run
      <4>3. QED
        BY <3>1, <3>3, <4>1, <4>2
    <3>4. QED
      BY <3>2, <3>3
  <2>3. \A i \in 1 .. n + m : c[i] = (a \o b)[i]
    <3> HIDE DEF a, b, c
    <3>1. QED
      BY <2>1, <2>2
  <2>4. QED
    <3> DEFINE d == a \o b
    <3>1. IsString(d) /\ Len(d) = n + m /\ \A i \in 1 .. n + m : c[i] = d[i]
      BY <2>1, <2>3
    <3> HIDE DEF a, b, c, d
    <3>2. c = d
      BY <1>1, <3>1, SameStrings
    <3>3. QED
      BY <3>2 DEF d
<1>4. IsPrefix(a, c)
  <2> HIDE DEF a, b, c
  <2>1. QED
    BY <1>1, <1>3, PrefixOfJoin
<1>5. QED
  BY <1>1, <1>2, <1>3, <1>4

LEMMA TextOfName ==
    ASSUME NamesPlain, NEW k \in 1 .. Len(Dentries)
    PROVE  Text(Dentries[k].name) = Dentries[k].name
<1> DEFINE s == Dentries[k].name
<1>1. IsString(s) /\ \A i \in 1 .. Len(s) : s[i] \notin DOMAIN letters
  BY NameAssumption DEF NamesPlain
<1> HIDE DEF s
<1>2. DOMAIN s = 1 .. Len(s) /\ s = [i \in 1 .. Len(s) |-> s[i]]
  BY <1>1, StringFacts
<1>3. QED
  BY <1>1, <1>2 DEF Text, s

LEMMA FoundNames ==
    ASSUME NEW name, IsString(name), Found(name)
    PROVE  /\ name # << >>
           /\ NewFile(name).file_pos = 0
           /\ LET d == Dentries[Lookup(name)]
              IN  /\ NewFile(name).file_type = d.file_type
                  /\ d.file_type = "file" => NewFile(name).inode = d.inode
<1>1. /\ Dentries[Lookup(name)].name = name
      /\ Lookup(name) \in 1 .. Len(Dentries)
  BY LookupNamed, LookupFinds
<1>2. Len(name) \in 1 .. MAX_FILE_NAME_LENGTH
  BY <1>1, NameAssumption
<1>3. name # << >>
  BY <1>2, EmptyString
<1>4. QED
  BY <1>3 DEF NewFile, File

LEMMA FreshOpens ==
    ASSUME table = FreshTable
    PROVE  ~OpenFails(table)
<1>1. 2 \in FreeSlots(table) /\ table.full = FALSE
  BY FdAssumption DEF FreeSlots, FreshTable, Stdio
<1>2. QED
  BY <1>1 DEF OpenFails

LEMMA AtStart ==
    ASSUME NEW name, IsString(name), Found(name), NEW ending, IsString(ending)
    PROVE  /\ IsFileNamed(NewFile(name), name)
           /\ ReadSoFar(NewFile(name), ending) = << >>
<1> DEFINE f == NewFile(name)
<1>1. f.file_pos = 0
  BY FoundNames
<1>2. f = At_(f, 0)
  BY <1>1 DEF NewFile, File, At_
<1> HIDE DEF f
<1>3. ReadSoFar(f, ending) = << >>
  <2>1. CASE f.file_type = "file"
    <3>1. Text(Run(f.inode, 0, 0)) = << >>
      BY TextRuns
    <3>2. QED
      BY <1>1, <2>1, <3>1 DEF ReadSoFar
  <2>2. CASE f.file_type = "dir"
    BY <1>1, <2>2, ListedGrows DEF ReadSoFar
  <2>3. CASE f.file_type \notin {"file", "dir"}
    BY <2>3 DEF ReadSoFar
  <2>4. QED
    BY <2>1, <2>2, <2>3
<1>4. QED
  BY <1>2, <1>3 DEF IsFileNamed, f

\* How a copier's variables change.
LEMMA CopierFields ==
    ASSUME CopierOK
    PROVE  /\ \A status : LET q == Ended(status)
                          IN  /\ q.at = "ended" /\ q.status = status /\ q.arg = p.arg
                              /\ q.ending = p.ending /\ q.prog = p.prog /\ q.size = p.size
           /\ \A at : LET q == [p EXCEPT !.at = at]
                      IN  /\ q.at = at /\ q.arg = p.arg /\ q.fd = p.fd
                          /\ q.ending = p.ending /\ q.prog = p.prog /\ q.size = p.size
           /\ \A fd : LET q == [p EXCEPT !.at = "read", !.fd = fd]
                      IN  /\ q.at = "read" /\ q.arg = p.arg /\ q.fd = fd
                          /\ q.ending = p.ending /\ q.prog = p.prog /\ q.size = p.size
           /\ \A data : LET q == [p EXCEPT !.at = "write", !.data = data]
                        IN  /\ q.at = "write" /\ q.arg = p.arg /\ q.fd = p.fd /\ q.data = data
                            /\ q.ending = p.ending /\ q.prog = p.prog /\ q.size = p.size
           /\ IsString(p.arg) /\ IsString(p.ending) /\ IsString(p.data)
           /\ p.prog \in {"cat", "ls"}
<1> DEFINE sizes == Asked \cap Nat
<1>2. /\ p \in [prog : {"cat", "ls"}, at : {"argument", "open", "read", "write", "ended"},
                arg : {p.arg}, size : sizes, ending : {p.ending}, fd : Nat,
                data : {p.data}, status : {p.status}]
      /\ IsString(p.arg) /\ IsString(p.ending) /\ IsString(p.data)
  BY DEF CopierOK
<1> HIDE DEF sizes
<1>3. QED
  BY <1>2 DEF Ended

LEMMA CopierOpens ==
    ASSUME KernelOK, CopierOK, CopierShown, NEW prog, CopyOpen(prog)
    PROVE  CopierShown'
<1>0. /\ p.at = "open" /\ IsString(p.arg) /\ IsString(p.ending) /\ table = FreshTable
      /\ output = << >> /\ output' = output /\ CopierKind
  BY CopierFields DEF CopyOpen, At, CopierShown, Silent
<1>1. /\ KernelOK' /\ (Open(p.arg) \/ OpenFailing(p.arg))
      /\ p' = IF result'.ret = -1 THEN Ended(2) ELSE [p EXCEPT !.at = "read", !.fd = result'.ret]
  BY <1>0, Callings DEF CopyOpen
<1>2. CASE OpenFailing(p.arg)
  <2>1. ~Found(p.arg)
    BY <1>0, <1>2, FreshOpens DEF OpenFailing
  <2>2. result'.ret = -1
    BY <1>2, OpenFailingStep
  <2>3. p' = Ended(2)
    BY <1>1, <2>2
  <2>4. /\ p'.at = "ended" /\ p'.arg = p.arg /\ p'.ending = p.ending /\ p'.prog = p.prog
        /\ p'.size = p.size
    BY <2>3, CopierFields
  <2>5. QED
    BY <1>0, <2>1, <2>4, EmptyString DEF CopierShown, CopierKind, Found, Matches
<1>3. CASE Open(p.arg)
  <2> DEFINE fd == result'.ret
  <2>1. Found(p.arg) /\ fd \in Nat /\ fd_array'[fd] = NewFile(p.arg)
    BY <1>0, <1>3, OpenHolds DEF Open
  <2>2. p' = [p EXCEPT !.at = "read", !.fd = fd]
    BY <1>1, <2>1
  <2> HIDE DEF fd
  <2>3. /\ p'.at = "read" /\ p'.arg = p.arg /\ p'.fd = fd
        /\ p'.ending = p.ending /\ p'.prog = p.prog /\ p'.size = p.size
    BY <2>2, CopierFields
  <2>4. /\ IsFileNamed(NewFile(p.arg), p.arg)
        /\ ReadSoFar(NewFile(p.arg), p.ending) = << >>
    BY <1>0, <2>1, AtStart
  <2>5. CopierKind'
    BY <1>0, <2>3 DEF CopierKind
  <2>6. letters' = letters
    BY DEF CopyOpen, Silent
  <2>7. /\ IsFileNamed(fd_array'[p'.fd], p'.arg)
        /\ ReadSoFar(fd_array'[p'.fd], p'.ending) = output
    BY <1>0, <2>1, <2>3, <2>4
  <2>8. ReadSoFar(fd_array[p.fd], p.ending)' = output'
    BY <1>0, <2>6, <2>7 DEF ReadSoFar, Text, NamesListed, NameWith, Run, ByteAt
  <2>9. IsFileNamed(fd_array[p.fd], p.arg)'
    BY <2>7 DEF IsFileNamed, NewFile, Found, Lookup, Matches
  <2>10. QED
    BY <1>0, <2>3, <2>5, <2>8, <2>9, EmptyString DEF CopierShown
<1>4. QED
  BY <1>1, <1>2, <1>3

\* What is read where a copier is, and where it is then.
LEMMA CopierGets ==
    ASSUME KernelOK, NamesPlain, NEW fd, Holding(fd), NEW name, IsString(name),
           IsFileNamed(fd_array[fd], name), NEW ending, IsString(ending),
           NEW n \in Asked, n >= MAX_FILE_NAME_LENGTH, Reading(fd, n), ending # << >> => name = Directory
    PROVE  /\ IsFileNamed(fd_array'[fd], name)
           /\ CASE result'.ret = 0  -> AtEnd(fd_array[fd])
                [] result'.ret = -1 -> fd_array[fd].file_type = "file" /\ HasBad(fd_array[fd].inode)
                [] OTHER -> /\ IsString(Text(result'.bytes)) /\ IsString(ReadSoFar(fd_array[fd], ending))
                            /\ ReadSoFar(fd_array'[fd], ending) =
                                  ReadSoFar(fd_array[fd], ending) \o (Text(result'.bytes) \o ending)
<1> DEFINE f == fd_array[fd]
<1>0. /\ n \in Nat /\ n >= 1 /\ OpenFile(f) /\ fd \in Fds /\ f \in FdFiles
      /\ f.file_type = NewFile(name).file_type /\ Found(name)
      /\ fd_array \in [Fds -> FdFiles]
  <2>1. MAX_FILE_NAME_LENGTH \in Nat /\ MAX_FILE_NAME_LENGTH >= 1
    <3>1. PICK k \in 1 .. Len(Dentries) : Dentries[k].name = <<DOT>>
      BY DirectoryAssumption
    <3>2. QED
      BY <3>1, NameAssumption
  <2>2. fd \in Fds /\ OpenFile(f) /\ f \in FdFiles /\ fd_array \in [Fds -> FdFiles]
    BY DEF Holding, KernelOK, FdTables
  <2>3. n \in Int
    BY UnsignedIs
  <2>4. QED
    BY <2>1, <2>2, <2>3 DEF IsFileNamed, At_
<1>1. \/ f.file_type = "file" /\ FileGives(fd, n)
      \/ f.file_type = "dir" /\ DirectoryGives(fd, n)
      \/ f.file_type = "rtc" /\ result' = Returned(0) /\ table' = table /\ fd_array' = fd_array
  BY <1>0, HeldReadGives
<1>2. ASSUME NEW pos, fd_array' = [fd_array EXCEPT ![fd] = At_(f, pos)]
      PROVE  fd_array'[fd] = At_(f, pos) /\ IsFileNamed(fd_array'[fd], name)
  <2>1. fd_array'[fd] = At_(f, pos)
    BY <1>0, <1>2
  <2>2. PICK old : f = At_(NewFile(name), old)
    BY DEF IsFileNamed
  <2>3. At_(f, pos) = At_(NewFile(name), pos)
    BY <2>2 DEF At_
  <2>4. QED
    BY <1>0, <2>1, <2>3 DEF IsFileNamed
<1>3. CASE f.file_type = "file" /\ FileGives(fd, n)
  <2> DEFINE left == Inodes[f.inode].length - f.file_pos
  <2>1. left \in Nat /\ f.file_pos \in Nat /\ Inodes[f.inode].length \in Nat
    BY <1>0, <1>3, InodeTypes DEF OpenFile
  <2>2. CASE result'.ret = -1 /\ HasBad(f.inode) /\ fd_array' = fd_array
    BY <1>3, <2>2
  <2>3. ASSUME NEW m \in 0 .. left, result'.ret = m, result'.bytes = Run(f.inode, f.file_pos, m),
               m = IF n < 0 \/ n > left THEN left ELSE n,
               fd_array' = [fd_array EXCEPT ![fd] = At_(f, f.file_pos + m)]
        PROVE  /\ IsFileNamed(fd_array'[fd], name)
               /\ IF m = 0 THEN AtEnd(f)
                  ELSE /\ IsString(Text(result'.bytes)) /\ IsString(ReadSoFar(f, ending))
                       /\ ReadSoFar(fd_array'[fd], ending) =
                             ReadSoFar(f, ending) \o (Text(result'.bytes) \o ending)
    <3> DEFINE g == At_(f, f.file_pos + m)
    <3>1. fd_array'[fd] = g /\ IsFileNamed(fd_array'[fd], name)
      BY <1>2, <2>3
    <3>2. m = 0 => AtEnd(f)
      <4>1. m = 0 => f.file_pos = Inodes[f.inode].length
        BY <1>0, <2>1, <2>3
      <4>2. QED
        BY <1>3, <4>1 DEF AtEnd
    <3>3. m \in Nat
      BY <2>1
    <3>4. ending = << >>
      BY <1>0, <1>3, DirectoryIsFound
    <3> DEFINE data == Text(Run(f.inode, f.file_pos, m))
               a == Text(Run(f.inode, 0, f.file_pos))
               b == Text(Run(f.inode, 0, f.file_pos + m))
    <3>5. IsString(a) /\ IsString(data) /\ b = a \o data
      <4>1. IsString(data)
        BY <3>3, RunString, TextString
      <4>2. QED
        BY <2>1, <3>3, <4>1, TextRuns
    <3>6. ReadSoFar(f, ending) = a
      BY <1>3 DEF ReadSoFar
    <3>7. ReadSoFar(g, ending) = b
      BY <1>3 DEF ReadSoFar, At_
    <3>8. data \o ending = data
      BY <3>4, <3>5, JoinEmpty
    <3>9. Text(result'.bytes) = data
      BY <2>3
    <3> HIDE DEF data, a, b, g
    <3>10. QED
      BY <3>1, <3>2, <3>5, <3>6, <3>7, <3>8, <3>9
  <2>4. QED
    <3>1. CASE \E m \in 0 .. left : /\ result'.ret = m /\ result'.bytes = Run(f.inode, f.file_pos, m)
                                    /\ m = IF n < 0 \/ n > left THEN left ELSE n
                                    /\ fd_array' = [fd_array EXCEPT ![fd] = At_(f, f.file_pos + m)]
      <4>1. PICK m \in 0 .. left : /\ result'.ret = m /\ result'.bytes = Run(f.inode, f.file_pos, m)
                                   /\ m = IF n < 0 \/ n > left THEN left ELSE n
                                   /\ fd_array' = [fd_array EXCEPT ![fd] = At_(f, f.file_pos + m)]
        BY <3>1
      <4>2. m \in Nat /\ m # -1
        BY <2>1
      <4> HIDE DEF left
      <4>3. QED
        BY <2>3, <4>1, <4>2
    <3>2. QED
      BY <1>3, <2>2, <3>1 DEF FileGives
<1>4. CASE f.file_type = "dir" /\ DirectoryGives(fd, n)
  <2> DEFINE k == f.file_pos + 1
             entry == Dentries[k].name
  <2>1. CASE f.file_pos = Len(Dentries) /\ result' = Returned(0) /\ fd_array' = fd_array
    BY <1>4, <2>1 DEF AtEnd, Returned
  <2>2. CASE /\ f.file_pos \in 0 .. Len(Dentries) - 1
             /\ result'.ret = Len(entry) /\ result'.bytes = Cut(entry, n)
             /\ fd_array' = [fd_array EXCEPT ![fd] = At_(f, f.file_pos + 1)]
    <3> DEFINE g == At_(f, f.file_pos + 1)
    <3>1. k \in 1 .. Len(Dentries)
      BY <2>2, DentriesSeq
    <3>2. /\ IsString(entry) /\ Len(entry) \in Nat \ {0} /\ Len(entry) <= n
          /\ Text(entry) = entry
      <4>1. /\ IsString(entry) /\ Len(entry) \in Nat \ {0} /\ Len(entry) <= MAX_FILE_NAME_LENGTH
        BY <3>1, NamedString, EmptyString
      <4>2. Text(entry) = entry
        BY <3>1, TextOfName
      <4>3. QED
        BY <1>0, <4>1, <4>2, NameAssumption
    <3>3. result'.bytes = entry
      <4> HIDE DEF entry
      <4>1. Cut(entry, n) = entry
        BY <1>0, <3>2, CutWhole
      <4>2. QED
        BY <2>2, <4>1
    <3>4. result'.ret \notin {0, -1}
      BY <2>2, <3>2
    <3>5. fd_array'[fd] = g /\ IsFileNamed(fd_array'[fd], name)
      BY <1>2, <2>2
    <3>6. ReadSoFar(f, ending) = NamesListed(f.file_pos, ending)
      BY <1>4 DEF ReadSoFar
    <3>7. ReadSoFar(g, ending) = NamesListed(f.file_pos + 1, ending)
      BY <1>4 DEF ReadSoFar, At_
    <3>8. NamesListed(f.file_pos + 1, ending) = NamesListed(f.file_pos, ending) \o NameWith(f.file_pos + 1, ending)
          /\ IsString(NamesListed(f.file_pos, ending))
      <4>1. PICK pos \in 0 .. Len(Dentries) - 1 : pos = f.file_pos
        BY <2>2
      <4>2. pos \in 0 .. Len(Dentries)
        BY DentriesSeq
      <4>3. NamesListed(pos + 1, ending) = NamesListed(pos, ending) \o NameWith(pos + 1, ending)
            /\ IsString(NamesListed(pos, ending))
        BY <4>2, ListedGrows
      <4>4. QED
        BY <4>1, <4>3
    <3>9. NameWith(f.file_pos + 1, ending) = Text(result'.bytes) \o ending
      BY <3>2, <3>3 DEF NameWith
    <3>10. IsString(Text(result'.bytes))
      BY <3>2, <3>3
    <3> HIDE DEF g, k, entry
    <3>11. QED
      BY <3>4, <3>5, <3>6, <3>7, <3>8, <3>9, <3>10
  <2>3. QED
    BY <1>4, <2>1, <2>2 DEF DirectoryGives
<1>5. CASE f.file_type = "rtc" /\ result' = Returned(0) /\ table' = table /\ fd_array' = fd_array
  BY <1>5 DEF AtEnd, Returned
<1>6. QED
  BY <1>1, <1>3, <1>4, <1>5

LEMMA CopierReads ==
    ASSUME KernelOK, CopierOK, CopierShown, NamesPlain, NEW prog, CopyRead(prog)
    PROVE  CopierShown'
<1> DEFINE f == fd_array[p.fd]
           g == fd_array'[p.fd]
           data == Text(result'.bytes)
<1>0. /\ p.at = "read" /\ IsString(p.arg) /\ IsString(p.ending)
      /\ output' = output /\ letters' = letters /\ CopierKind /\ IsString(output)
      /\ IsFileNamed(f, p.arg) /\ ReadSoFar(f, p.ending) = output
  BY CopierFields DEF CopyRead, At, CopierShown, Silent
<1>1. /\ Reading(p.fd, p.size) /\ Holding(p.fd) /\ p.size \in Asked
      /\ p.size >= MAX_FILE_NAME_LENGTH /\ (p.ending # << >> => p.arg = Directory)
  <2>1. Reading(p.fd, p.size) /\ Holding(p.fd)
    BY <1>0 DEF CopyRead, CopierOK
  <2>2. p.size \in {CAT_SIZE, SBUFSIZE - 1} /\ (p.ending # << >> => p.arg = Directory)
    BY <1>0 DEF CopierKind
  <2>3. QED
    BY <2>1, <2>2, AskedSizes
<1>2. /\ IsFileNamed(g, p.arg)
      /\ CASE result'.ret = 0  -> AtEnd(f)
           [] result'.ret = -1 -> f.file_type = "file" /\ HasBad(f.inode)
           [] OTHER -> /\ IsString(data) /\ IsString(ReadSoFar(f, p.ending))
                       /\ ReadSoFar(g, p.ending) = ReadSoFar(f, p.ending) \o (data \o p.ending)
  BY <1>0, <1>1, CopierGets
<1>3. p' = CASE result'.ret = 0  -> Ended(0)
             [] result'.ret = -1 -> Ended(3)
             [] OTHER -> [p EXCEPT !.at = "write", !.data = data]
  BY DEF CopyRead
<1>4. \A name, h : IsFileNamed(h, name)' <=> IsFileNamed(h, name)
  BY DEF IsFileNamed, NewFile, Found, Lookup, Matches
<1>5. /\ \A h : AtEnd(h)' <=> AtEnd(h)
      /\ \A h, ending : ReadSoFar(h, ending)' = ReadSoFar(h, ending)
      /\ \A inode : HasBad(inode)' <=> HasBad(inode)
  BY <1>0 DEF ReadSoFar, Text, NamesListed, NameWith, Run, ByteAt, AtEnd, HasBad, Bad
<1>6. ASSUME NEW status, p' = Ended(status),
             IF status = 0 THEN AtEnd(f) ELSE f.file_type = "file" /\ HasBad(f.inode)
      PROVE  CopierShown'
  <2>1. /\ p'.at = "ended" /\ p'.status = status /\ p'.arg = p.arg
        /\ p'.ending = p.ending /\ p'.prog = p.prog /\ p'.size = p.size
    BY <1>6, CopierFields
  <2>2. CopierKind'
    BY <1>0, <2>1 DEF CopierKind
  <2>3. CASE status = 0
    <3>1. IsFileNamed(f, p.arg) /\ AtEnd(f) /\ output = ReadSoFar(f, p.ending)
      BY <1>0, <1>6, <2>3
    <3> HIDE DEF f
    <3>2. IsWhole(output', p'.arg, p'.ending)
      BY <1>0, <2>1, <3>1 DEF IsWhole
    <3>3. IsWhole(output, p.arg, p.ending)'
      BY <1>4, <1>5, <3>2 DEF IsWhole
    <3>4. QED
      BY <1>0, <2>1, <2>2, <2>3, <3>3 DEF CopierShown
  <2>4. CASE status # 0
    <3>1. f.file_type = NewFile(p.arg).file_type /\ f.inode = NewFile(p.arg).inode
      BY <1>0 DEF IsFileNamed, At_
    <3>2. NewFile(p.arg).file_type = "file" /\ HasBad(NewFile(p.arg).inode)
      BY <1>6, <2>4, <3>1
    <3>3. NewFile(p'.arg).file_type = "file" /\ HasBad(NewFile(p'.arg).inode)
      BY <2>1, <3>2
    <3>4. (NewFile(p.arg).file_type = "file" /\ HasBad(NewFile(p.arg).inode))'
      BY <3>3 DEF HasBad, NewFile, Lookup, Matches, Bad, ByteAt
    <3>5. QED
      BY <1>0, <2>1, <2>2, <2>4, <3>4 DEF CopierShown
  <2>5. QED
    BY <2>3, <2>4
<1>7. CASE result'.ret = 0
  BY <1>2, <1>3, <1>6, <1>7
<1>8. CASE result'.ret = -1
  BY <1>2, <1>3, <1>6, <1>8
<1>9. CASE result'.ret \notin {0, -1}
  <2>1. p' = [p EXCEPT !.at = "write", !.data = data]
    BY <1>3, <1>9
  <2> HIDE DEF data
  <2>2. /\ p'.at = "write" /\ p'.arg = p.arg /\ p'.fd = p.fd /\ p'.data = data
        /\ p'.ending = p.ending /\ p'.prog = p.prog /\ p'.size = p.size
    BY <2>1, CopierFields
  <2>3. IsFileNamed(g, p'.arg) /\ ReadSoFar(g, p'.ending) = output' \o (p'.data \o p'.ending)
    BY <1>0, <1>2, <1>9, <2>2
  <2>4. (IsFileNamed(fd_array[p.fd], p.arg) /\ ReadSoFar(fd_array[p.fd], p.ending) = output \o (p.data \o p.ending))'
    BY <1>4, <1>5, <2>2, <2>3
  <2>5. CopierKind'
    BY <1>0, <2>2 DEF CopierKind
  <2>6. QED
    BY <1>0, <2>2, <2>4, <2>5 DEF CopierShown
<1>10. QED
  BY <1>7, <1>8, <1>9

LEMMA CopierWrites ==
    ASSUME KernelOK, CopierOK, CopierShown, NEW prog, CopyWrite(prog)
    PROVE  CopierShown'
<1> DEFINE f == fd_array[p.fd]
           n == Len(p.data \o p.ending)
<1>0. /\ p.at = "write" /\ IsString(p.arg) /\ IsString(p.ending) /\ IsString(p.data)
      /\ letters' = letters /\ CopierKind /\ IsString(output)
      /\ output' = output \o p.data \o p.ending
      /\ IsFileNamed(f, p.arg) /\ ReadSoFar(f, p.ending) = output \o (p.data \o p.ending)
  BY CopierFields DEF CopyWrite, At, CopierShown
<1>1. n \in Nat /\ IsString(p.data \o p.ending)
  <2> DEFINE s == p.data \o p.ending
  <2>1. IsString(s)
    BY <1>0, JoinString
  <2> HIDE DEF s
  <2>2. Len(s) \in Nat
    BY <2>1, StringFacts
  <2>3. QED
    BY <2>1, <2>2 DEF s
<1>2. output' = output \o (p.data \o p.ending) /\ IsString(output')
  <2>0. (output \o p.data) \o p.ending = output \o (p.data \o p.ending)
    <3> DEFINE a == output
               b == p.data
               c == p.ending
    <3>1. IsString(a) /\ IsString(b) /\ IsString(c)
      BY <1>0
    <3> HIDE DEF a, b, c
    <3>2. (a \o b) \o c = a \o (b \o c)
      BY <3>1, JoinThree
    <3>3. QED
      BY <3>2 DEF a, b, c
  <2>1. output' = output \o (p.data \o p.ending)
    BY <1>0, <2>0
  <2> DEFINE s == p.data \o p.ending
  <2> HIDE DEF s
  <2>2. IsString(output \o s)
    BY <1>0, <1>1, JoinString DEF s
  <2>3. QED
    BY <2>1, <2>2 DEF s
<1>3. Write(1, "user", n) /\ KernelOK'
  <2>1. Writing(1, n)
    BY DEF CopyWrite
  <2> HIDE DEF n
  <2>2. QED
    BY <1>1, <2>1, Callings
<1>4. UNCHANGED <<table, fd_array>> /\ result'.ret # -1
  <2> HIDE DEF n
  <2>1. n \in Int /\ n >= 0 /\ "user" # "null"
    BY <1>1
  <2>2. QED
    BY <1>3, <2>1, WriteStep
<1>5. p' = [p EXCEPT !.at = "read"]
  BY <1>4 DEF CopyWrite
<1>6. /\ p'.at = "read" /\ p'.arg = p.arg /\ p'.fd = p.fd
      /\ p'.ending = p.ending /\ p'.prog = p.prog /\ p'.size = p.size
  BY <1>5, CopierFields
<1>7. CopierKind'
  BY <1>0, <1>6 DEF CopierKind
<1>8. IsFileNamed(fd_array'[p'.fd], p'.arg) /\ ReadSoFar(fd_array'[p'.fd], p'.ending) = output'
  BY <1>0, <1>2, <1>4, <1>6
<1>9. (IsFileNamed(fd_array[p.fd], p.arg) /\ ReadSoFar(fd_array[p.fd], p.ending) = output)'
  BY <1>0, <1>8 DEF IsFileNamed, NewFile, Found, Lookup, Matches,
                    ReadSoFar, Text, NamesListed, NameWith, Run, ByteAt
<1>10. QED
  BY <1>2, <1>6, <1>7, <1>9 DEF CopierShown

LEMMA CopierAsks ==
    ASSUME KernelOK, CopierOK, CopierShown, NEW prog, ReadArgument(prog, "open")
    PROVE  CopierShown'
<1>0. /\ p.at = "argument" /\ IsString(p.arg) /\ CopierKind /\ IsString(output)
      /\ output' = output /\ output = << >> /\ table = FreshTable /\ table' = table
  BY CopierFields DEF ReadArgument, At, CopierShown, Silent, NoCall, kernel
<1>1. CASE p.arg = << >>
  <2>1. p' = Ended(3)
    BY <1>1 DEF ReadArgument
  <2>2. /\ p'.at = "ended" /\ p'.arg = p.arg /\ p'.ending = p.ending /\ p'.prog = p.prog
        /\ p'.size = p.size
    BY <2>1, CopierFields
  <2>3. ~Found(p'.arg)
    BY <1>0, <1>1, <2>2, FoundNames
  <2>4. CopierKind'
    BY <1>0, <2>2 DEF CopierKind
  <2>5. ~Found(p.arg)'
    BY <2>3 DEF Found, Matches
  <2>6. QED
    BY <1>0, <2>2, <2>4, <2>5 DEF CopierShown
<1>2. CASE p.arg # << >>
  <2>1. p' = [p EXCEPT !.at = "open"]
    BY <1>2 DEF ReadArgument
  <2>2. /\ p'.at = "open" /\ p'.arg = p.arg /\ p'.ending = p.ending /\ p'.prog = p.prog
        /\ p'.size = p.size
    BY <2>1, CopierFields
  <2>3. CopierKind'
    BY <1>0, <2>2 DEF CopierKind
  <2>4. QED
    BY <1>0, <2>2, <2>3 DEF CopierShown
<1>3. QED
  BY <1>1, <1>2

LEMMA CopierShowsOn ==
    ASSUME KernelOK, CopierOK, CopierShown, NamesPlain, NEW prog,
           ReadArgument(prog, "open") \/ Copy(prog)
    PROVE  CopierShown'
BY CopierAsks, CopierOpens, CopierReads, CopierWrites DEF Copy

-----------------------------------------------------------------------------
LEMMA BytesAreRun ==
    ASSUME NEW inode \in Disk
    PROVE  Bytes[inode] = Run(inode, 0, Inodes[inode].length)
<1> DEFINE n == Inodes[inode].length
<1>1. Bytes[inode] = [j \in 1 .. n |-> ByteAt(inode, j - 1)]
  BY DEF Bytes, Disk
<1>2. n \in Nat
  BY InodeTypes
<1>3. \A j \in 1 .. n : 0 + j - 1 = j - 1
  OBVIOUS
<1> HIDE DEF n
<1>4. QED
  BY <1>1, <1>3 DEF Run, n

\* The entries of the directory, as cat and as ls show them.
LEMMA DirectoryShown ==
    /\ FlattenSeq(NamesInOrder) = NamesListed(Len(Dentries), << >>)
    /\ FlattenSeq([k \in DOMAIN Dentries |-> Append(Dentries[k].name, NEWLINE)]) =
          NamesListed(Len(Dentries), <<NEWLINE>>)
<1>1. ASSUME NEW k \in 1 .. Len(Dentries)
      PROVE  /\ NameWith(k, << >>) = Dentries[k].name
             /\ NameWith(k, <<NEWLINE>>) = Append(Dentries[k].name, NEWLINE)
  <2> DEFINE s == Dentries[k].name
  <2>1. IsString(s)
    BY NameAssumption
  <2> HIDE DEF s
  <2>2. s \o << >> = s
    BY <2>1, JoinEmpty
  <2>3. s \o <<NEWLINE>> = Append(s, NEWLINE)
    <3>1. s \in Seq(ToSet(s) \cup {NEWLINE})
      <4>1. s \in Seq(ToSet(s))
        BY <2>1 DEF IsString
      <4>2. QED
        BY <4>1
    <3>2. QED
      BY <3>1
  <2>4. QED
    BY <2>2, <2>3 DEF NameWith, s
<1>2. [k \in 1 .. Len(Dentries) |-> NameWith(k, << >>)] = NamesInOrder
  BY <1>1 DEF NamesInOrder
<1>3. [k \in 1 .. Len(Dentries) |-> NameWith(k, <<NEWLINE>>)] =
      [k \in DOMAIN Dentries |-> Append(Dentries[k].name, NEWLINE)]
  BY <1>1, DentriesSeq
<1>4. QED
  BY <1>2, <1>3 DEF NamesListed

LEMMA EndsInEntry ==
    ASSUME NEW name, IsString(name), NEW f, IsFileNamed(f, name), AtEnd(f), OpenFile(NewFile(name))
    PROVE  InEntry(Lookup(name)) = ReadSoFar(f, << >>)
<1> DEFINE k == Lookup(name)
           d == Dentries[k]
<1>1. /\ Found(name) /\ f.file_type = NewFile(name).file_type /\ f.inode = NewFile(name).inode
  BY DEF IsFileNamed, At_
<1>2. /\ f.file_type = d.file_type /\ (d.file_type = "file" => f.inode = d.inode)
  BY <1>1, FoundNames
<1>3. CASE d.file_type = "file"
  <2>1. f.inode \in Disk /\ f.file_pos = Inodes[f.inode].length
    BY <1>1, <1>2, <1>3 DEF OpenFile, AtEnd
  <2>2. Bytes[f.inode] = Run(f.inode, 0, f.file_pos)
    BY <2>1, BytesAreRun
  <2>3. ReadSoFar(f, << >>) = Text(Bytes[f.inode])
    BY <1>2, <1>3, <2>2 DEF ReadSoFar
  <2>4. InEntry(k) = Text(Bytes[f.inode])
    BY <1>2, <1>3 DEF InEntry, InFile
  <2>5. QED
    BY <2>3, <2>4
<1>4. CASE d.file_type = "dir"
  BY <1>2, <1>4, DirectoryShown DEF ReadSoFar, AtEnd, InEntry
<1>5. CASE d.file_type \notin {"file", "dir"}
  BY <1>2, <1>5 DEF ReadSoFar, InEntry
<1>6. QED
  BY <1>3, <1>4, <1>5

\* Before the end, a beginning.
LEMMA PartInEntry ==
    ASSUME NEW name, IsString(name), NEW f, IsFileNamed(f, name), OpenFile(f)
    PROVE  /\ IsString(ReadSoFar(f, << >>)) /\ IsString(InEntry(Lookup(name)))
           /\ IsPrefix(ReadSoFar(f, << >>), InEntry(Lookup(name)))
<1> DEFINE k == Lookup(name)
           d == Dentries[k]
<1>1. /\ Found(name) /\ f.file_type = NewFile(name).file_type /\ f.inode = NewFile(name).inode
  BY DEF IsFileNamed, At_
<1>2. /\ f.file_type = d.file_type /\ (d.file_type = "file" => f.inode = d.inode)
  BY <1>1, FoundNames
<1>3. CASE d.file_type = "file"
  <2> DEFINE n == Inodes[f.inode].length
             m == n - f.file_pos
  <2>1. f.inode \in Disk /\ f.file_pos \in Nat /\ m \in Nat /\ f.file_pos + m = n /\ n \in Nat
    BY <1>1, <1>2, <1>3, InodeTypes DEF OpenFile
  <2> HIDE DEF n, m
  <2>2. /\ IsString(Text(Run(f.inode, 0, f.file_pos)))
        /\ IsPrefix(Text(Run(f.inode, 0, f.file_pos)), Text(Run(f.inode, 0, f.file_pos + m)))
        /\ IsString(Text(Run(f.inode, 0, f.file_pos + m)))
    <3>1. f.file_pos + m \in Nat
      BY <2>1
    <3>2. QED
      BY <2>1, <3>1, TextRuns
  <2>3. Bytes[f.inode] = Run(f.inode, 0, n)
    BY <2>1, BytesAreRun DEF n
  <2>4. ReadSoFar(f, << >>) = Text(Run(f.inode, 0, f.file_pos))
    BY <1>2, <1>3 DEF ReadSoFar
  <2>5. InEntry(k) = Text(Bytes[f.inode])
    BY <1>2, <1>3 DEF InEntry, InFile
  <2>6. QED
    BY <2>1, <2>2, <2>3, <2>4, <2>5
<1>4. CASE d.file_type = "dir"
  <2>1. PICK m \in 0 .. Len(Dentries) : m = f.file_pos
    BY <1>2, <1>4 DEF OpenFile
  <2>2. Len(Dentries) \in 0 .. Len(Dentries)
    BY DentriesSeq
  <2>3. /\ IsString(NamesListed(m, << >>)) /\ IsString(NamesListed(Len(Dentries), << >>))
        /\ IsPrefix(NamesListed(m, << >>), NamesListed(Len(Dentries), << >>))
    BY <2>2, EmptyString, ListedGrows, ListedPrefix
  <2>4. ReadSoFar(f, << >>) = NamesListed(m, << >>)
    BY <1>2, <1>4, <2>1 DEF ReadSoFar
  <2>5. InEntry(k) = NamesListed(Len(Dentries), << >>)
    BY <1>4, DirectoryShown DEF InEntry
  <2>6. QED
    BY <2>3, <2>4, <2>5
<1>5. CASE d.file_type \notin {"file", "dir"}
  <2>1. ReadSoFar(f, << >>) = << >> /\ InEntry(k) = << >>
    BY <1>2, <1>5 DEF ReadSoFar, InEntry
  <2>2. QED
    BY <2>1, EmptyString, PrefixIs
<1>6. QED
  BY <1>3, <1>4, <1>5

LEMMA BadInEntry ==
    ASSUME NEW name, IsString(name), Found(name), NewFile(name).file_type = "file",
           HasBad(NewFile(name).inode)
    PROVE  HasBadBlock(Lookup(name))
<1> DEFINE inode == NewFile(name).inode
           bytes == Bytes[inode]
<1>1. /\ Dentries[Lookup(name)].file_type = "file" /\ Dentries[Lookup(name)].inode = inode
      /\ inode \in Disk
  <2>1. OpenFile(NewFile(name))
    BY NewFileOK
  <2>2. QED
    BY <2>1, FoundNames DEF OpenFile
<1>2. PICK i \in 1 .. Inodes[inode].length : Bad(ByteAt(inode, i - 1))
  BY DEF HasBad
<1>3. i \in DOMAIN bytes /\ bytes[i] = ByteAt(inode, i - 1)
  BY <1>1 DEF Bytes, Disk
<1>4. QED
  BY <1>1, <1>2, <1>3 DEF HasBadBlock

LEMMA CopierShowsAll ==
    ASSUME KernelOK, CopierOK, CopierShown
    PROVE  CopyShows
<1>0. /\ IsString(p.arg) /\ IsString(p.data) /\ IsString(output)
      /\ p.at \in {"argument", "open", "read", "write", "ended"}
  BY DEF CopierOK, CopierShown
<1>1. ASSUME p.prog = "cat", Found(p.arg)
      PROVE  LET k == Lookup(p.arg)
             IN  IF p.at # "ended" THEN IsPrefix(output, InEntry(k))
                 ELSE IF p.status = 0 THEN output = InEntry(k)
                 ELSE HasBadBlock(k)
  <2> DEFINE k == Lookup(p.arg)
  <2>0. p.ending = << >>
    BY <1>1 DEF CopierShown, CopierKind
  <2>1. CASE p.at = "ended" /\ p.status = 0
    <3>1. PICK f : IsFileNamed(f, p.arg) /\ AtEnd(f) /\ output = ReadSoFar(f, << >>)
      BY <1>1, <2>0, <2>1 DEF CopierShown, IsWhole
    <3>2. OpenFile(NewFile(p.arg))
      BY <1>1, NewFileOK
    <3>3. QED
      BY <1>0, <2>1, <3>1, <3>2, EndsInEntry
  <2>2. CASE p.at = "ended" /\ p.status # 0
    <3>1. NewFile(p.arg).file_type = "file" /\ HasBad(NewFile(p.arg).inode)
      BY <1>1, <2>2 DEF CopierShown
    <3>2. QED
      BY <1>0, <1>1, <2>2, <3>1, BadInEntry
  <2>3. CASE p.at # "ended"
    <3>1. CASE p.at \in {"argument", "open"}
      <4>1. output = << >>
        BY <3>1 DEF CopierShown
      <4>2. IsString(InEntry(k))
        <5>1. IsFileNamed(NewFile(p.arg), p.arg) /\ OpenFile(NewFile(p.arg))
          BY <1>0, <1>1, AtStart, EmptyString, NewFileOK
        <5>2. QED
          BY <1>0, <5>1, PartInEntry
      <4> HIDE DEF k
      <4>3. IsPrefix(output, InEntry(k))
        <5>1. Len(output) = 0 /\ Len(InEntry(k)) \in Nat
          BY <4>1, <4>2, EmptyString, StringFacts
        <5>2. QED
          BY <1>0, <4>2, <5>1, PrefixIs
      <4>4. QED
        BY <2>3, <4>3 DEF k
    <3>2. CASE p.at \in {"read", "write"}
      <4> DEFINE f == fd_array[p.fd]
                 so == ReadSoFar(f, << >>)
      <4>1. /\ IsFileNamed(f, p.arg)
            /\ so = IF p.at = "write" THEN output \o (p.data \o << >>) ELSE output
        BY <2>0, <3>2 DEF CopierShown
      <4>2. OpenFile(f)
        BY <3>2 DEF CopierOK, Holding, KernelOK
      <4>3. IsString(so) /\ IsString(InEntry(k)) /\ IsPrefix(so, InEntry(k))
        BY <1>0, <4>1, <4>2, PartInEntry
      <4>4. p.data \o << >> = p.data
        BY <1>0, JoinEmpty
      <4> HIDE DEF so, k
      <4>5. so = output \/ so = output \o p.data
        BY <4>1, <4>4
      <4>6. IsPrefix(output, so)
        <5>1. CASE so = output
          <6>1. Len(output) \in Nat
            BY <1>0, StringFacts
          <6>2. QED
            BY <1>0, <5>1, <6>1, PrefixIs
        <5>2. CASE so = output \o p.data
          BY <1>0, <5>2, PrefixOfJoin
        <5>3. QED
          BY <4>5, <5>1, <5>2
      <4>7. IsPrefix(output, InEntry(k))
        BY <1>0, <4>3, <4>6, PrefixOfPrefix
      <4>8. QED
        BY <2>3, <4>7 DEF k
    <3>3. QED
      BY <1>0, <2>3, <3>1, <3>2
  <2>4. QED
    BY <2>1, <2>2, <2>3
<1>2. ASSUME p.prog = "ls", p.at = "ended"
      PROVE  /\ p.status = 0
             /\ output = FlattenSeq([k \in DOMAIN Dentries |-> Append(Dentries[k].name, NEWLINE)])
  <2>1. p.arg = Directory /\ p.ending = <<NEWLINE>>
    BY <1>2 DEF CopierShown, CopierKind
  <2>2. Found(Directory) /\ NewFile(Directory).file_type = "dir"
    BY DirectoryThere, DirectoryIsFound
  <2>3. p.status = 0 /\ IsWhole(output, Directory, <<NEWLINE>>)
    BY <1>2, <2>1, <2>2 DEF CopierShown
  <2>4. PICK f : IsFileNamed(f, Directory) /\ AtEnd(f) /\ output = ReadSoFar(f, <<NEWLINE>>)
    BY <2>3 DEF IsWhole
  <2>5. f.file_type = "dir"
    BY <2>2, <2>4 DEF IsFileNamed, At_
  <2>6. output = NamesListed(Len(Dentries), <<NEWLINE>>)
    BY <2>4, <2>5 DEF AtEnd, ReadSoFar
  <2>7. QED
    BY <2>3, <2>6, DirectoryShown
<1>3. QED
  BY <1>1, <1>2 DEF CopyShows

-----------------------------------------------------------------------------
(***************************************************************************)
(* The lines of a text, by the places where they end.                      *)
(***************************************************************************)
EndsIn(text) == {i \in DOMAIN text : text[i] = NEWLINE} \cup {Len(text) + 1}

\* Where lines 1 .. n end, with 0 in front of the first.
IsMarks(e, n, text) == /\ e \in [0 .. n -> Nat] /\ e[0] = 0
                       /\ \A k \in 1 .. n : e[k - 1] < e[k]
                       /\ {e[k] : k \in 1 .. n} = EndsIn(text)

LEMMA MarksIncrease ==
    ASSUME NEW n \in Nat, NEW e \in [0 .. n -> Nat], \A k \in 1 .. n : e[k - 1] < e[k]
    PROVE  /\ \A i, j \in 0 .. n : i < j => e[i] < e[j]
           /\ \A i, j \in 0 .. n : i <= j => e[i] <= e[j]
<1> DEFINE T == {j \in 0 .. n : \A i \in 0 .. j - 1 : e[i] < e[j]}
<1>1. 0 \in T
  OBVIOUS
<1>2. ASSUME NEW j \in 0 .. n - 1, j \in T PROVE j + 1 \in T
  <2> SUFFICES ASSUME NEW i \in 0 .. (j + 1) - 1 PROVE e[i] < e[j + 1]
    OBVIOUS
  <2>1. j + 1 \in 1 .. n /\ (j + 1) - 1 = j
    OBVIOUS
  <2>2. e[j] < e[j + 1] /\ e[j] \in Nat /\ e[j + 1] \in Nat /\ e[i] \in Nat
    BY <2>1
  <2>3. CASE i = j
    BY <2>2, <2>3
  <2>4. CASE i # j
    <3>1. i \in 0 .. j - 1
      BY <2>4
    <3>2. e[i] < e[j]
      BY <1>2, <3>1
    <3>3. QED
      BY <2>2, <3>2
  <2>5. QED
    BY <2>3, <2>4
<1>3. \A j \in 0 .. n : j \in T
  <2> HIDE DEF T
  <2>1. QED
    BY <1>1, <1>2, UpTo
<1>4. \A i, j \in 0 .. n : i < j => e[i] < e[j]
  BY <1>3
<1>5. ASSUME NEW i \in 0 .. n, NEW j \in 0 .. n, i <= j PROVE e[i] <= e[j]
  <2>1. e[i] \in Nat /\ e[j] \in Nat
    OBVIOUS
  <2>2. CASE i = j
    BY <2>1, <2>2
  <2>3. CASE i < j
    BY <1>4, <2>1, <2>3
  <2>4. QED
    BY <1>5, <2>2, <2>3
<1>6. QED
  BY <1>4, <1>5

LEMMA MarksCount ==
    ASSUME NEW text, NEW n \in Nat, NEW e, IsMarks(e, n, text)
    PROVE  /\ \A k \in 0 .. n : Cardinality({j \in EndsIn(text) : j <= e[k]}) = k
           /\ Cardinality(EndsIn(text)) = n
<1> DEFINE ends == EndsIn(text)
           upto(k) == {j \in ends : j <= e[k]}
           T == {k \in 0 .. n : IsFiniteSet(upto(k)) /\ Cardinality(upto(k)) = k}
<1>0. /\ e \in [0 .. n -> Nat] /\ e[0] = 0 /\ ends = {e[k] : k \in 1 .. n}
      /\ \A k \in 1 .. n : e[k - 1] < e[k]
  BY DEF IsMarks
<1>1. /\ \A i, j \in 0 .. n : i < j => e[i] < e[j]
      /\ \A i, j \in 0 .. n : i <= j => e[i] <= e[j]
  BY <1>0, MarksIncrease
<1> HIDE DEF ends
<1>2. 0 \in T
  <2>1. upto(0) = {}
    <3> SUFFICES ASSUME NEW k \in 1 .. n, e[k] <= e[0] PROVE FALSE
      BY <1>0
    <3>1. k \in 0 .. n /\ 0 \in 0 .. n /\ 0 < k
      OBVIOUS
    <3>2. e[0] < e[k] /\ e[0] \in Nat /\ e[k] \in Nat
      BY <1>0, <1>1, <3>1
    <3>3. QED
      BY <3>2
  <2>2. QED
    BY <2>1, FS_EmptySet
<1>3. ASSUME NEW k \in 0 .. n - 1, k \in T PROVE k + 1 \in T
  <2>0. k + 1 \in 1 .. n /\ k + 1 \in 0 .. n /\ k \in 0 .. n
    OBVIOUS
  <2>1. e[k] < e[k + 1] /\ e[k] \in Nat /\ e[k + 1] \in Nat
    BY <1>0, <1>1, <2>0
  <2>2. upto(k + 1) = upto(k) \cup {e[k + 1]}
    <3>1. ASSUME NEW j \in ends, j <= e[k + 1] PROVE j <= e[k] \/ j = e[k + 1]
      <4>1. PICK i \in 1 .. n : j = e[i]
        BY <1>0
      <4>2. i \in 0 .. n
        OBVIOUS
      <4>3. CASE i <= k
        <5>2. e[i] <= e[k]
          BY <1>1, <2>0, <4>2, <4>3
        <5>3. QED
          BY <4>1, <5>2
      <4>4. CASE i = k + 1
        BY <4>1, <4>4
      <4>5. CASE i > k + 1
        <5>1. e[k + 1] < e[i] /\ e[i] \in Nat
          BY <1>0, <1>1, <2>0, <4>2, <4>5
        <5>2. QED
          BY <2>1, <3>1, <4>1, <5>1
      <4>6. QED
        BY <4>3, <4>4, <4>5
    <3>2. e[k + 1] \in ends /\ \A j \in ends : j \in Nat
      BY <1>0, <2>0
    <3>3. QED
      BY <2>1, <3>1, <3>2
  <2>3. e[k + 1] \notin upto(k)
    BY <2>1
  <2>4. IsFiniteSet(upto(k)) /\ Cardinality(upto(k)) = k
    BY <1>3
  <2> HIDE DEF upto
  <2>5. IsFiniteSet(upto(k + 1)) /\ Cardinality(upto(k + 1)) = k + 1
    BY <2>2, <2>3, <2>4, FS_AddElement
  <2>6. QED
    BY <2>0, <2>5 DEF upto
<1>4. \A k \in 0 .. n : k \in T
  <2> HIDE DEF T
  <2>1. QED
    BY <1>2, <1>3, UpTo
<1>5. ends = upto(n)
  <2> SUFFICES ASSUME NEW k \in 1 .. n PROVE e[k] <= e[n]
    BY <1>0
  <2>1. k \in 0 .. n /\ n \in 0 .. n /\ (k = n \/ k < n)
    OBVIOUS
  <2>2. e[k] \in Nat /\ e[n] \in Nat
    BY <1>0, <2>1
  <2>3. QED
    BY <1>1, <2>1, <2>2
<1>6. n \in T
  BY <1>4
<1>7. Cardinality(ends) = n
  BY <1>5, <1>6
<1>8. QED
  BY <1>4, <1>7 DEF ends

\* Line k of a text whose lines end at e.
LineAt(text, e, k) == SubSeq(text, e[k - 1] + 1, e[k] - 1)

LEMMA MarksGive ==
    ASSUME NEW text, NEW n \in Nat, NEW e, IsMarks(e, n, text)
    PROVE  LinesOf(text) = [k \in 1 .. n |-> LineAt(text, e, k)]
<1> DEFINE ends == EndsIn(text)
           Is(i, k) == i \in ends /\ Cardinality({j \in ends : j <= i}) = k
           End(k) == CHOOSE i \in ends : Cardinality({j \in ends : j <= i}) = k
<1>0. /\ e \in [0 .. n -> Nat] /\ e[0] = 0 /\ ends = {e[k] : k \in 1 .. n}
  BY DEF IsMarks
<1>1. /\ \A k \in 0 .. n : Cardinality({j \in ends : j <= e[k]}) = k
      /\ Cardinality(ends) = n
  BY MarksCount
<1>2. LinesOf(text) = [k \in 1 .. Cardinality(ends) |->
                          SubSeq(text, IF k = 1 THEN 1 ELSE End(k - 1) + 1, End(k) - 1)]
  BY DEF LinesOf, EndsIn
<1> HIDE DEF ends
<1>3. ASSUME NEW k \in 1 .. n PROVE End(k) = e[k]
  <2>1. k \in 0 .. n /\ Is(e[k], k)
    BY <1>0, <1>1
  <2>2. \A i \in ends : Is(i, k) => i = e[k]
    <3> SUFFICES ASSUME NEW i \in ends, Is(i, k) PROVE i = e[k]
      OBVIOUS
    <3>1. PICK m \in 1 .. n : i = e[m]
      BY <1>0
    <3>2. m \in 0 .. n
      OBVIOUS
    <3>3. Cardinality({j \in ends : j <= i}) = m
      BY <1>1, <3>1, <3>2
    <3>4. m = k
      BY <3>3
    <3>5. QED
      BY <3>1, <3>4
  <2>3. QED
    BY <2>1, <2>2
<1> HIDE DEF End
<1>4. ASSUME NEW k \in 1 .. n
      PROVE  SubSeq(text, IF k = 1 THEN 1 ELSE End(k - 1) + 1, End(k) - 1) = LineAt(text, e, k)
  <2>1. CASE k = 1
    <3>1. k - 1 = 0 /\ e[k - 1] + 1 = 1
      BY <1>0, <2>1
    <3>2. QED
      BY <1>3, <2>1, <3>1 DEF LineAt
  <2>2. CASE k # 1
    <3>1. k - 1 \in 1 .. n
      BY <2>2
    <3>2. QED
      BY <1>3, <2>2, <3>1 DEF LineAt
  <2>3. QED
    BY <2>1, <2>2
<1>5. QED
  BY <1>1, <1>2, <1>4

\* The last line ends where the text does, and there is no newline inside of a line.
LEMMA MarksFacts ==
    ASSUME NEW text, IsString(text), NEW n \in Nat, NEW e, IsMarks(e, n, text)
    PROVE  /\ n >= 1 /\ e[n] = Len(text) + 1 /\ Len(text) \in Nat
           /\ \A k \in 1 .. n : /\ e[k - 1] \in Nat /\ e[k] \in Nat
                                /\ e[k - 1] < e[k] /\ e[k] <= Len(text) + 1
           /\ \A k \in 1 .. n - 1 : e[k] \in 1 .. Len(text) /\ text[e[k]] = NEWLINE
           /\ \A k \in 1 .. n : \A i \in e[k - 1] + 1 .. e[k] - 1 :
                 i \in 1 .. Len(text) /\ text[i] # NEWLINE
           /\ \A i, j \in 0 .. n : i < j => e[i] < e[j]
           /\ \A i, j \in 0 .. n : i <= j => e[i] <= e[j]
<1> DEFINE L == Len(text)
<1>0. /\ e \in [0 .. n -> Nat] /\ e[0] = 0 /\ \A k \in 1 .. n : e[k - 1] < e[k]
      /\ {e[k] : k \in 1 .. n} = {i \in 1 .. L : text[i] = NEWLINE} \cup {L + 1}
      /\ L \in Nat
  BY StringFacts DEF IsMarks, EndsIn
<1>1. /\ \A i, j \in 0 .. n : i < j => e[i] < e[j]
      /\ \A i, j \in 0 .. n : i <= j => e[i] <= e[j]
  BY <1>0, MarksIncrease
<1> HIDE DEF L
<1>2. PICK m \in 1 .. n : e[m] = L + 1
  BY <1>0
<1>3. \A k \in 1 .. n : k \in 0 .. n /\ k - 1 \in 0 .. n
  OBVIOUS
<1>4. \A k \in 1 .. n : e[k] <= L + 1
  <2> SUFFICES ASSUME NEW k \in 1 .. n PROVE e[k] <= L + 1
    OBVIOUS
  <2>1. e[k] \in {i \in 1 .. L : text[i] = NEWLINE} \cup {L + 1}
    BY <1>0
  <2>2. e[k] \in 1 .. L \/ e[k] = L + 1
    BY <2>1
  <2>3. QED
    BY <1>0, <2>2
<1>5. n >= 1 /\ e[n] = L + 1
  <2>1. n \in 1 .. n
    OBVIOUS
  <2>2. CASE m = n
    BY <1>2, <2>2
  <2>3. CASE m # n
    <3>1. m < n /\ e[m] < e[n] /\ e[n] \in Nat
      BY <1>0, <1>1, <1>3, <2>1, <2>3
    <3>2. QED
      BY <1>0, <1>2, <1>4, <2>1, <3>1
  <2>4. QED
    BY <2>2, <2>3
<1>6. \A k \in 1 .. n : /\ e[k - 1] \in Nat /\ e[k] \in Nat
                        /\ e[k - 1] < e[k] /\ e[k] <= L + 1
  BY <1>0, <1>3, <1>4
<1>7. \A k \in 1 .. n - 1 : e[k] \in 1 .. L /\ text[e[k]] = NEWLINE
  <2> SUFFICES ASSUME NEW k \in 1 .. n - 1 PROVE e[k] \in 1 .. L /\ text[e[k]] = NEWLINE
    OBVIOUS
  <2>1. k \in 1 .. n /\ k \in 0 .. n /\ n \in 0 .. n /\ k < n
    OBVIOUS
  <2>2. e[k] < e[n] /\ e[k] \in Nat
    BY <1>0, <1>1, <2>1
  <2>3. e[k] # L + 1
    BY <1>0, <1>5, <2>2
  <2>4. QED
    BY <1>0, <2>1, <2>3
<1>8. \A k \in 1 .. n : \A i \in e[k - 1] + 1 .. e[k] - 1 : i \in 1 .. L /\ text[i] # NEWLINE
  <2> SUFFICES ASSUME NEW k \in 1 .. n, NEW i \in e[k - 1] + 1 .. e[k] - 1
               PROVE  i \in 1 .. L /\ text[i] # NEWLINE
    OBVIOUS
  <2>1. e[k - 1] \in Nat /\ e[k] \in Nat /\ e[k] <= L + 1
    BY <1>6
  <2>2. i \in 1 .. L
    BY <1>0, <2>1
  <2>3. ASSUME text[i] = NEWLINE PROVE FALSE
    <3>1. PICK j \in 1 .. n : e[j] = i
      BY <1>0, <2>2, <2>3
    <3>2. j \in 0 .. n /\ k \in 0 .. n /\ k - 1 \in 0 .. n /\ (j <= k - 1 \/ j >= k)
      OBVIOUS
    <3>3. CASE j <= k - 1
      <4>1. e[j] <= e[k - 1]
        BY <1>1, <3>2, <3>3
      <4>2. QED
        BY <2>1, <3>1, <4>1
    <3>4. CASE j >= k
      <4>1. e[k] <= e[j]
        BY <1>1, <3>2, <3>4
      <4>2. QED
        BY <2>1, <3>1, <4>1
    <3>5. QED
      BY <3>2, <3>3, <3>4
  <2>4. QED
    BY <2>2, <2>3
<1>9. QED
  BY <1>0, <1>1, <1>5, <1>6, <1>7, <1>8 DEF L

\* e lists the places in rising order, from e[0] = 0.
Marks(e, n, places) ==
    /\ e \in [0 .. n -> Nat]
    /\ e[0] = 0
    /\ \A k \in 1 .. n : e[k - 1] < e[k]
    /\ {e[j] : j \in 1 .. n} = places

LEMMA AddMark ==
    ASSUME NEW n \in Nat, NEW e, NEW places, Marks(e, n, places), NEW x \in Nat, e[n] < x
    PROVE  Marks([k \in 0 .. n + 1 |-> IF k = n + 1 THEN x ELSE e[k]], n + 1, places \cup {x})
<1> DEFINE g == [k \in 0 .. n + 1 |-> IF k = n + 1 THEN x ELSE e[k]]
<1>0. /\ e \in [0 .. n -> Nat] /\ e[0] = 0 /\ places = {e[k] : k \in 1 .. n}
      /\ \A k \in 1 .. n : e[k - 1] < e[k]
  BY DEF Marks
<1>1. g \in [0 .. n + 1 -> Nat] /\ g[n + 1] = x /\ g[0] = 0
  BY <1>0
<1>2. \A k \in 0 .. n : g[k] = e[k] /\ k # n + 1
  OBVIOUS
<1> HIDE DEF g
<1>3. ASSUME NEW k \in 1 .. n + 1 PROVE g[k - 1] < g[k]
  <2>1. CASE k = n + 1
    <3>1. k - 1 = n /\ n \in 0 .. n
      BY <2>1
    <3>2. QED
      BY <1>1, <1>2, <2>1, <3>1
  <2>2. CASE k # n + 1
    <3>1. k - 1 \in 0 .. n /\ k \in 0 .. n /\ k \in 1 .. n
      BY <2>2
    <3>2. QED
      BY <1>0, <1>2, <3>1
  <2>3. QED
    BY <2>1, <2>2
<1>4. {g[k] : k \in 1 .. n + 1} = places \cup {x}
  <2>1. \A k \in 1 .. n : g[k] = e[k] /\ k \in 1 .. n + 1
    BY <1>2
  <2>2. n + 1 \in 1 .. n + 1 /\ \A k \in 1 .. n + 1 : k = n + 1 \/ k \in 1 .. n
    OBVIOUS
  <2>3. QED
    BY <1>0, <1>1, <2>1, <2>2
<1>5. QED
  BY <1>1, <1>3, <1>4 DEF Marks, g

\* Every text has its lines.
LEMMA MarksSome ==
    ASSUME NEW text, IsString(text)
    PROVE  \E n \in Nat : \E e : IsMarks(e, n, text)
<1> DEFINE L == Len(text)
           Ends(m) == {i \in 1 .. m : text[i] = NEWLINE}
           Good(m, n, e) == Marks(e, n, Ends(m)) /\ e[n] <= m
           T == {m \in 0 .. L : \E n \in Nat : \E e : Good(m, n, e)}
<1>0. L \in Nat /\ DOMAIN text = 1 .. L
  BY StringFacts
<1> HIDE DEF L
<1>1. 0 \in T
  <2> DEFINE e0 == [k \in 0 .. 0 |-> 0]
  <2>1. Good(0, 0, e0)
    BY DEF Marks
  <2>2. QED
    BY <1>0, <2>1
<1>2. ASSUME NEW m \in 0 .. L - 1, m \in T PROVE m + 1 \in T
  <2>0. m \in Nat /\ m + 1 \in 0 .. L
    BY <1>0
  <2>1. PICK n \in Nat : \E e : Good(m, n, e)
    BY <1>2
  <2>2. PICK e : Good(m, n, e)
    BY <2>1
  <2>3. CASE text[m + 1] = NEWLINE
    <3> DEFINE g == [k \in 0 .. n + 1 |-> IF k = n + 1 THEN m + 1 ELSE e[k]]
    <3>1. e[n] \in Nat
      BY <2>2 DEF Marks
    <3>2. m + 1 \in Nat /\ e[n] < m + 1 /\ Marks(e, n, Ends(m))
      BY <2>0, <2>2, <3>1
    <3>3. Ends(m + 1) = Ends(m) \cup {m + 1}
      BY <2>0, <2>3
    <3> HIDE DEF Ends
    <3>4. Marks(g, n + 1, Ends(m) \cup {m + 1})
      BY <3>2, AddMark
    <3>5. g[n + 1] = m + 1
      OBVIOUS
    <3> HIDE DEF g
    <3>6. Marks(g, n + 1, Ends(m + 1)) /\ n + 1 \in Nat
      BY <3>3, <3>4
    <3>7. g[n + 1] <= m + 1
      BY <2>0, <3>5
    <3>8. QED
      BY <2>0, <3>6, <3>7
  <2>4. CASE text[m + 1] # NEWLINE
    <3>1. Ends(m + 1) = Ends(m)
      BY <2>0, <2>4
    <3>2. e[n] \in Nat
      BY <2>2 DEF Marks
    <3>3. Good(m + 1, n, e)
      BY <2>0, <2>2, <3>1, <3>2
    <3>4. QED
      BY <2>0, <3>3
  <2>5. QED
    BY <2>3, <2>4
<1>3. \A m \in 0 .. L : m \in T
  <2> HIDE DEF T
  <2>1. QED
    BY <1>0, <1>1, <1>2, UpTo
<1>4. L \in T
  BY <1>0, <1>3
<1>5. PICK n \in Nat : \E e : Good(L, n, e)
  BY <1>4
<1>6. PICK e : Good(L, n, e)
  BY <1>5
<1> DEFINE g == [k \in 0 .. n + 1 |-> IF k = n + 1 THEN L + 1 ELSE e[k]]
<1>7. e[n] \in Nat
  BY <1>6 DEF Marks
<1>8. L + 1 \in Nat /\ e[n] < L + 1 /\ Marks(e, n, Ends(L))
  BY <1>0, <1>6, <1>7
<1>9. EndsIn(text) = Ends(L) \cup {L + 1}
  BY <1>0 DEF EndsIn, L
<1> HIDE DEF Ends
<1>10. Marks(g, n + 1, Ends(L) \cup {L + 1})
  BY <1>8, AddMark
<1> HIDE DEF g
<1>11. n + 1 \in Nat /\ Marks(g, n + 1, EndsIn(text))
  BY <1>9, <1>10
<1>12. IsMarks(g, n + 1, text)
  BY <1>11 DEF Marks, IsMarks
<1>13. QED
  BY <1>11, <1>12

LEMMA SubSeqLen ==
    ASSUME NEW s, NEW i \in Nat, NEW j \in Int, i <= j + 1
    PROVE  IsString(SubSeq(s, i, j)) /\ Len(SubSeq(s, i, j)) = j - i + 1
<1> DEFINE n == j - i + 1
           u == SubSeq(s, i, j)
<1>1. n \in Nat
  OBVIOUS
<1>2. u = [k \in 1 .. n |-> s[i + k - 1]]
  BY SubSeqIs
<1>3. DOMAIN u = 1 .. n /\ u = [k \in 1 .. n |-> u[k]]
  <2> HIDE DEF n, u
  <2>1. QED
    BY <1>2
<1> HIDE DEF n, u
<1>4. IsString(u) /\ Len(u) = n
  BY <1>1, <1>3, StringIs
<1>5. QED
  BY <1>4 DEF u, n

\* A string and a newline after a text that ends with one: the string is a line more.
LEMMA LinesGrow ==
    ASSUME NEW text, IsString(text), NEW t, IsString(t), \A i \in 1 .. Len(t) : t[i] # NEWLINE,
           NEW n \in Nat, n >= 1, Len(LinesOf(text)) = n, LinesOf(text)[n] = << >>
    PROVE  LET new == LinesOf(Append(text \o t, NEWLINE))
           IN  /\ Len(new) = n + 1 /\ new[n + 1] = << >> /\ new[n] = t
               /\ \A k \in 1 .. n - 1 : new[k] = LinesOf(text)[k]
               /\ IsString(Append(text \o t, NEWLINE))
<1> DEFINE L == Len(text)
           m == Len(t)
           w == Append(text \o t, NEWLINE)
<1>0. L \in Nat /\ m \in Nat
  BY StringFacts
<1>1. /\ IsString(w) /\ Len(w) = L + m + 1
      /\ \A i \in 1 .. L : w[i] = text[i]
      /\ \A i \in 1 .. m : w[L + i] = t[i]
      /\ w[L + m + 1] = NEWLINE
  <2> DEFINE u == text \o t
  <2>1. /\ IsString(u) /\ Len(u) = L + m
        /\ u = [i \in 1 .. L + m |-> IF i <= L THEN text[i] ELSE t[i - L]]
    BY JoinString
  <2>2. \A i \in 1 .. L : i \in 1 .. L + m /\ i <= L
    BY <1>0
  <2>3. \A i \in 1 .. m : L + i \in 1 .. L + m /\ ~(L + i <= L) /\ (L + i) - L = i
    BY <1>0
  <2> HIDE DEF u, L, m
  <2>4. /\ \A i \in 1 .. L : u[i] = text[i]
        /\ \A i \in 1 .. m : u[L + i] = t[i]
    BY <2>1, <2>2, <2>3
  <2>5. u \in Seq(ToSet(u) \cup {NEWLINE})
    <3>1. u \in Seq(ToSet(u))
      BY <2>1 DEF IsString
    <3>2. QED
      BY <3>1
  <2> DEFINE v == Append(u, NEWLINE)
  <2>6. /\ DOMAIN v = 1 .. Len(u) + 1 /\ v \in Seq(ToSet(u) \cup {NEWLINE})
        /\ \A i \in 1 .. Len(u) : v[i] = u[i]
        /\ v[Len(u) + 1] = NEWLINE
    BY <2>5
  <2> HIDE DEF v
  <2>7. v = [i \in 1 .. Len(v) |-> v[i]] /\ Len(v) = Len(u) + 1
    <3>1. Len(v) \in Nat /\ DOMAIN v = 1 .. Len(v) /\ v = [i \in 1 .. Len(v) |-> v[i]]
      BY <2>6, SeqIs
    <3>2. Len(v) = Len(u) + 1
      BY <1>0, <2>1, <2>6, <3>1
    <3>3. QED
      BY <3>1, <3>2
  <2>8. L + m + 1 \in Nat
    BY <1>0
  <2>9. IsString(v) /\ Len(v) = L + m + 1
    BY <2>1, <2>6, <2>7, <2>8, StringIs
  <2>10. /\ \A i \in 1 .. L : v[i] = text[i]
         /\ \A i \in 1 .. m : v[L + i] = t[i]
         /\ v[L + m + 1] = NEWLINE
    BY <2>1, <2>2, <2>3, <2>4, <2>6
  <2>11. QED
    BY <2>9, <2>10 DEF v, u, L, m
<1>2. PICK nn \in Nat : \E e : IsMarks(e, nn, text)
  BY MarksSome
<1>3. PICK e : IsMarks(e, nn, text)
  BY <1>2
<1>4. LinesOf(text) = [k \in 1 .. nn |-> LineAt(text, e, k)]
  BY <1>3, MarksGive
<1>5. nn = n
  <2>1. Len([k \in 1 .. nn |-> LineAt(text, e, k)]) = nn
    OBVIOUS
  <2>2. QED
    BY <1>4, <2>1
<1>6. IsMarks(e, n, text) /\ LinesOf(text) = [k \in 1 .. n |-> LineAt(text, e, k)]
  BY <1>3, <1>4, <1>5
<1>7. /\ e[n] = L + 1
      /\ \A k \in 1 .. n : e[k - 1] \in Nat /\ e[k] \in Nat /\ e[k - 1] < e[k] /\ e[k] <= L + 1
  BY <1>6, MarksFacts
<1> HIDE DEF w
<1>8. e[n - 1] = L
  <2>1. n \in 1 .. n
    OBVIOUS
  <2>2. LineAt(text, e, n) = << >>
    BY <1>6, <2>1
  <2>3. e[n - 1] \in Nat /\ e[n - 1] < L + 1
    BY <1>7, <2>1
  <2> DEFINE i == e[n - 1] + 1
             j == e[n] - 1
  <2>4. i \in Nat /\ j \in Int /\ i <= j + 1 /\ j = L
    BY <1>0, <1>7, <2>3
  <2>5. Len(SubSeq(text, i, j)) = j - i + 1
    <3> HIDE DEF i, j
    <3>1. QED
      BY <2>4, SubSeqLen
  <2>6. Len(<< >>) = j - i + 1
    BY <2>2, <2>5 DEF LineAt
  <2>7. j - i + 1 = 0
    BY <2>6, EmptyString
  <2>8. QED
    BY <1>0, <2>3, <2>4, <2>7
<1> DEFINE g == [k \in 0 .. n + 1 |-> IF k = n + 1 THEN L + m + 2
                                      ELSE IF k = n THEN L + m + 1 ELSE e[k]]
<1>9. /\ e \in [0 .. n -> Nat] /\ e[0] = 0 /\ \A k \in 1 .. n : e[k - 1] < e[k]
      /\ {e[k] : k \in 1 .. n} = {i \in 1 .. L : text[i] = NEWLINE} \cup {L + 1}
  BY <1>6, StringFacts DEF IsMarks, EndsIn
<1>10. /\ g \in [0 .. n + 1 -> Nat] /\ g[n + 1] = L + m + 2 /\ g[n] = L + m + 1
       /\ \A k \in 0 .. n - 1 : g[k] = e[k]
  <2> HIDE DEF L, m
  <2>1. g \in [0 .. n + 1 -> Nat]
    BY <1>0, <1>9
  <2>2. n \in 0 .. n + 1 /\ n # n + 1 /\ n + 1 \in 0 .. n + 1
    OBVIOUS
  <2>3. g[n + 1] = L + m + 2 /\ g[n] = L + m + 1
    BY <2>2
  <2>4. ASSUME NEW k \in 0 .. n - 1 PROVE g[k] = e[k]
    <3>1. k # n /\ k # n + 1 /\ k \in 0 .. n + 1
      OBVIOUS
    <3>2. QED
      BY <3>1
  <2>5. QED
    BY <2>1, <2>3, <2>4
<1> HIDE DEF g, L, m
<1>11. ASSUME NEW k \in 1 .. n + 1 PROVE g[k - 1] < g[k]
  <2>1. CASE k = n + 1
    <3>1. k - 1 = n
      BY <2>1
    <3>2. QED
      BY <1>0, <1>10, <2>1, <3>1
  <2>2. CASE k = n
    <3>1. k - 1 \in 0 .. n - 1 /\ k - 1 = n - 1
      BY <2>2
    <3>2. g[k - 1] = L
      BY <1>8, <1>10, <3>1
    <3>3. QED
      BY <1>0, <1>10, <2>2, <3>2
  <2>3. CASE k < n
    <3>1. k - 1 \in 0 .. n - 1 /\ k \in 0 .. n - 1 /\ k \in 1 .. n
      BY <2>3
    <3>2. QED
      BY <1>9, <1>10, <3>1
  <2>4. QED
    BY <2>1, <2>2, <2>3
<1>12. {g[k] : k \in 1 .. n + 1} = EndsIn(w)
  <2>1. EndsIn(w) = {i \in 1 .. L + m + 1 : w[i] = NEWLINE} \cup {L + m + 2}
    <3>1. DOMAIN w = 1 .. L + m + 1 /\ (L + m + 1) + 1 = L + m + 2
      BY <1>0, <1>1, StringFacts
    <3>2. QED
      BY <1>1, <3>1 DEF EndsIn
  <2>2. ASSUME NEW k \in 1 .. n + 1 PROVE g[k] \in EndsIn(w)
    <3>1. CASE k = n + 1
      BY <1>10, <2>1, <3>1
    <3>2. CASE k = n
      BY <1>0, <1>1, <1>10, <2>1, <3>2
    <3>3. CASE k < n
      <4>1. k \in 0 .. n - 1 /\ k \in 1 .. n /\ k \in 0 .. n /\ n - 1 \in 0 .. n
        BY <3>3
      <4>2. e[k] \in {i \in 1 .. L : text[i] = NEWLINE} \cup {L + 1}
        BY <1>9, <4>1
      <4>3. e[k] <= L
        <5>1. k <= n - 1
          BY <3>3
        <5>2. e[k] <= e[n - 1]
          BY <1>6, <4>1, <5>1, MarksFacts
        <5>3. QED
          BY <1>8, <5>2
      <4>4. e[k] \in 1 .. L /\ text[e[k]] = NEWLINE
        BY <1>0, <4>2, <4>3
      <4>5. g[k] = e[k]
        BY <1>10, <4>1
      <4>6. e[k] \in 1 .. L + m + 1 /\ w[e[k]] = NEWLINE
        BY <1>0, <1>1, <4>4
      <4>7. QED
        BY <2>1, <4>5, <4>6
    <3>4. QED
      BY <3>1, <3>2, <3>3
  <2>3. ASSUME NEW i \in EndsIn(w) PROVE \E k \in 1 .. n + 1 : g[k] = i
    <3>1. CASE i = L + m + 2
      BY <1>10, <3>1
    <3>2. CASE i = L + m + 1
      BY <1>10, <3>2
    <3>3. CASE i \in 1 .. L
      <4>1. w[i] = NEWLINE /\ text[i] = NEWLINE
        BY <1>0, <1>1, <2>1, <3>3
      <4>2. PICK k \in 1 .. n : e[k] = i
        BY <1>9, <3>3, <4>1
      <4>3. k # n
        BY <1>0, <1>7, <3>3, <4>2
      <4>4. k \in 0 .. n - 1 /\ k \in 1 .. n + 1
        BY <4>3
      <4>5. QED
        BY <1>10, <4>2, <4>4
    <3>4. CASE i \in L + 1 .. L + m
      <4>1. PICK j \in 1 .. m : i = L + j
        <5>1. i - L \in 1 .. m /\ i = L + (i - L)
          BY <1>0, <3>4
        <5>2. QED
          BY <5>1
      <4>2. w[i] = t[j] /\ t[j] # NEWLINE
        BY <1>1, <4>1 DEF m
      <4>3. QED
        BY <1>0, <2>1, <3>4, <4>2
    <3>5. i \in 1 .. L + m + 1 \/ i = L + m + 2
      BY <2>1
    <3>6. QED
      BY <1>0, <3>1, <3>2, <3>3, <3>4, <3>5
  <2>4. QED
    BY <2>2, <2>3
<1>13. IsMarks(g, n + 1, w)
  <2>1. g[0] = 0
    <3>1. 0 \in 0 .. n - 1
      OBVIOUS
    <3>2. QED
      BY <1>9, <1>10, <3>1
  <2>2. QED
    BY <1>10, <1>11, <1>12, <2>1 DEF IsMarks
<1>14. LinesOf(w) = [k \in 1 .. n + 1 |-> LineAt(w, g, k)]
  <2>1. n + 1 \in Nat
    OBVIOUS
  <2>2. QED
    BY <1>13, <2>1, MarksGive
<1>15. LineAt(w, g, n + 1) = << >>
  <2>1. (n + 1) - 1 = n
    OBVIOUS
  <2>2. LineAt(w, g, n + 1) = SubSeq(w, g[n] + 1, g[n + 1] - 1)
    BY <2>1 DEF LineAt
  <2>3. PICK i \in Nat : i = L + m + 2
    BY <1>0
  <2>4. i \in Nat /\ i - 1 \in Int /\ i <= (i - 1) + 1 /\ (i - 1) - i + 1 = 0
        /\ g[n] + 1 = i /\ g[n + 1] - 1 = i - 1
    BY <1>0, <1>10, <2>3
  <2> DEFINE u == SubSeq(w, i, i - 1)
  <2>5. u = [k \in 1 .. (i - 1) - i + 1 |-> w[i + k - 1]]
    BY SubSeqIs
  <2>6. u = << >>
    <3> HIDE DEF u
    <3>1. u = [k \in 1 .. 0 |-> w[i + k - 1]]
      BY <2>4, <2>5
    <3>2. QED
      BY <3>1
  <2>7. QED
    BY <2>2, <2>4, <2>6
<1>16. LineAt(w, g, n) = t
  <2>1. g[n - 1] = L
    <3>1. n - 1 \in 0 .. n - 1
      OBVIOUS
    <3>2. QED
      BY <1>8, <1>10, <3>1
  <2>2. PICK i \in Nat : i = L + 1
    BY <1>0
  <2>3. PICK j \in Nat : j = L + m
    BY <1>0
  <2>4. g[n - 1] + 1 = i /\ g[n] - 1 = j
    BY <1>0, <1>10, <2>1, <2>2, <2>3
  <2> DEFINE u == SubSeq(w, i, j)
  <2>5. u = [k \in 1 .. j - i + 1 |-> w[i + k - 1]]
    BY SubSeqIs
  <2>6. j - i + 1 = m /\ \A k \in 1 .. m : i + k - 1 = L + k
    BY <1>0, <2>2, <2>3
  <2>7. u = [k \in 1 .. m |-> t[k]]
    <3>1. \A k \in 1 .. m : w[i + k - 1] = t[k]
      BY <1>1, <2>6
    <3> HIDE DEF u
    <3>2. QED
      BY <2>5, <2>6, <3>1
  <2>8. t = [k \in 1 .. m |-> t[k]]
    BY StringFacts DEF m
  <2>9. QED
    BY <2>4, <2>7, <2>8 DEF LineAt
<1>17. ASSUME NEW k \in 1 .. n - 1 PROVE LineAt(w, g, k) = LineAt(text, e, k)
  <2>1. k - 1 \in 0 .. n - 1 /\ k \in 0 .. n - 1 /\ k \in 1 .. n /\ k \in 0 .. n /\ n - 1 \in 0 .. n
        /\ k <= n - 1
    OBVIOUS
  <2>2. g[k - 1] = e[k - 1] /\ g[k] = e[k]
    BY <1>10, <2>1
  <2>3. e[k - 1] \in Nat /\ e[k] \in Nat /\ e[k - 1] < e[k]
    BY <1>7, <2>1
  <2>4. e[k] <= L
    <3>1. e[k] <= e[n - 1]
      BY <1>6, <2>1, MarksFacts
    <3>2. QED
      BY <1>8, <3>1
  <2>5. PICK i \in Nat : i = e[k - 1] + 1
    BY <2>3
  <2>6. PICK j \in Nat : j = e[k] - 1
    BY <2>3
  <2>11. i \in Int /\ j \in Int /\ i >= 1 /\ j <= L
    BY <1>0, <2>3, <2>4, <2>5, <2>6
  <2>12. SubSeq(w, i, j) = [x \in 1 .. j - i + 1 |-> w[i + x - 1]]
    BY <2>11, SubSeqIs
  <2>13. SubSeq(text, i, j) = [x \in 1 .. j - i + 1 |-> text[i + x - 1]]
    BY <2>11, SubSeqIs
  <2>7. SubSeq(w, i, j) = [x \in 1 .. j - i + 1 |-> w[i + x - 1]]
        /\ SubSeq(text, i, j) = [x \in 1 .. j - i + 1 |-> text[i + x - 1]]
    BY <2>12, <2>13
  <2>8. \A x \in 1 .. j - i + 1 : i + x - 1 \in 1 .. L
    BY <1>0, <2>11
  <2>9. SubSeq(w, i, j) = SubSeq(text, i, j)
    BY <1>1, <2>7, <2>8
  <2>10. QED
    BY <2>2, <2>5, <2>6, <2>9 DEF LineAt
<1>18. /\ Len(LinesOf(w)) = n + 1 /\ LinesOf(w)[n + 1] = << >> /\ LinesOf(w)[n] = t
       /\ \A k \in 1 .. n - 1 : LinesOf(w)[k] = LinesOf(text)[k]
  <2>1. n + 1 \in 1 .. n + 1 /\ n \in 1 .. n + 1
        /\ \A k \in 1 .. n - 1 : k \in 1 .. n + 1 /\ k \in 1 .. n
    OBVIOUS
  <2>2. LinesOf(w)[n + 1] = << >> /\ LinesOf(w)[n] = t
    BY <1>14, <1>15, <1>16, <2>1
  <2>3. \A k \in 1 .. n - 1 : LinesOf(w)[k] = LinesOf(text)[k]
    BY <1>6, <1>14, <1>17, <2>1
  <2>4. Len(LinesOf(w)) = n + 1
    <3> DEFINE s == LinesOf(w)
    <3>1. s = [k \in 1 .. n + 1 |-> LineAt(w, g, k)]
      BY <1>14
    <3> HIDE DEF s
    <3>2. DOMAIN s = 1 .. n + 1 /\ n + 1 \in Nat /\ s = [k \in 1 .. n + 1 |-> s[k]]
      BY <3>1
    <3>3. Len(s) = n + 1
      BY <3>2, StringIs
    <3>4. QED
      BY <3>3 DEF s
  <2>5. QED
    BY <2>2, <2>3, <2>4
<1>19. QED
  BY <1>1, <1>18 DEF w

-----------------------------------------------------------------------------
(***************************************************************************)
(* Numerals.                                                               *)
(***************************************************************************)
LEMMA Division ==
    ASSUME NEW n \in Nat
    PROVE  /\ n \div RADIX \in Nat /\ n % RADIX \in 0 .. RADIX - 1
           /\ n = RADIX * (n \div RADIX) + (n % RADIX)
           /\ n > 0 => n \div RADIX < n
           /\ n \div RADIX = 0 => n % RADIX = n
<1> DEFINE q == n \div RADIX
           r == n % RADIX
           R == RADIX
<1>0. R \in Nat /\ R >= 2
  <2>1. Len(lookup) \in Nat
    BY RadixAssumption, StringFacts
  <2>2. QED
    BY <2>1, RadixAssumption
<1> HIDE DEF R
<1>1. n \div R \in Int /\ n % R \in 0 .. R - 1 /\ n = R * (n \div R) + (n % R)
  BY <1>0
<1>2. q \in Int /\ r \in 0 .. R - 1 /\ n = R * q + r
  BY <1>1 DEF R
<1> HIDE DEF q, r
<1>3. q >= 0
  BY <1>0, <1>2
<1>4. n > 0 => q < n
  BY <1>0, <1>2, <1>3
<1>5. q = 0 => r = n
  BY <1>0, <1>2
<1>6. QED
  BY <1>2, <1>3, <1>4, <1>5 DEF q, r, R

LEMMA DigitFacts ==
    ASSUME NEW d \in 0 .. RADIX - 1
    PROVE  /\ lookup[d + 1] # NEWLINE
           /\ d # 0 => lookup[d + 1] # lookup[1]
           /\ (CHOOSE c \in 0 .. RADIX - 1 : lookup[c + 1] = lookup[d + 1]) = d
<1>1. Len(lookup) \in Nat /\ RADIX \in 2 .. Len(lookup)
  BY RadixAssumption, StringFacts
<1>2. \A c \in 0 .. RADIX - 1 : c + 1 \in 1 .. Len(lookup)
  BY <1>1
<1>3. \A i, j \in 1 .. Len(lookup) : lookup[i] = lookup[j] => i = j
  BY RadixAssumption
<1>4. lookup[d + 1] # NEWLINE
  BY <1>2, RadixAssumption
<1>5. \A c \in 0 .. RADIX - 1 : lookup[c + 1] = lookup[d + 1] => c = d
  <2> SUFFICES ASSUME NEW c \in 0 .. RADIX - 1, lookup[c + 1] = lookup[d + 1] PROVE c = d
    OBVIOUS
  <2>1. c + 1 = d + 1
    BY <1>2, <1>3
  <2>2. QED
    BY <1>1, <2>1
<1>6. 0 \in 0 .. RADIX - 1 /\ 0 + 1 = 1
  BY <1>1
<1>7. d # 0 => lookup[d + 1] # lookup[1]
  BY <1>5, <1>6
<1>8. QED
  BY <1>4, <1>5, <1>7

\* The digits of a number from the lowest on, for all numbers up to n.
DigitsUpTo(f, n) == f = [i \in 0 .. n |-> IF i = 0 THEN << >>
                                        ELSE <<lookup[(i % RADIX) + 1]>> \o f[i \div RADIX]]

LEMMA DigitsSome ==
    ASSUME NEW n \in Nat
    PROVE  \E f : DigitsUpTo(f, n)
<1> DEFINE T == {m \in 0 .. n : \E f : DigitsUpTo(f, m)}
           Low(i) == <<lookup[(i % RADIX) + 1]>>
<1>1. 0 \in T
  <2> DEFINE f == [i \in 0 .. 0 |-> << >>]
  <2>1. DigitsUpTo(f, 0)
    BY DEF DigitsUpTo
  <2>2. QED
    BY <2>1
<1>2. ASSUME NEW m \in 0 .. n - 1, m \in T PROVE m + 1 \in T
  <2>1. PICK f : DigitsUpTo(f, m)
    BY <1>2
  <2> DEFINE g == [i \in 0 .. m + 1 |-> IF i = 0 THEN << >> ELSE Low(i) \o f[i \div RADIX]]
  <2> HIDE DEF Low
  <2>2. f = [i \in 0 .. m |-> IF i = 0 THEN << >> ELSE Low(i) \o f[i \div RADIX]]
    BY <2>1 DEF DigitsUpTo, Low
  <2>3. \A i \in 0 .. m : g[i] = f[i]
    <3> SUFFICES ASSUME NEW i \in 0 .. m PROVE g[i] = f[i]
      OBVIOUS
    <3>1. i \in 0 .. m + 1
      OBVIOUS
    <3>2. g[i] = IF i = 0 THEN << >> ELSE Low(i) \o f[i \div RADIX]
      BY <3>1
    <3>3. f[i] = IF i = 0 THEN << >> ELSE Low(i) \o f[i \div RADIX]
      BY <2>2
    <3> HIDE DEF g
    <3>4. QED
      BY <3>2, <3>3
  <2>4. \A i \in 1 .. m + 1 : i \div RADIX \in 0 .. m
    <3> SUFFICES ASSUME NEW i \in 1 .. m + 1 PROVE i \div RADIX \in 0 .. m
      OBVIOUS
    <3> DEFINE q == i \div RADIX
    <3>1. i \in Nat /\ i > 0
      OBVIOUS
    <3>2. q \in Nat /\ q < i
      BY <3>1, Division
    <3> HIDE DEF q
    <3>3. q \in 0 .. m
      BY <3>2
    <3>4. QED
      BY <3>3 DEF q
  <2>5. g = [i \in 0 .. m + 1 |-> IF i = 0 THEN << >> ELSE Low(i) \o g[i \div RADIX]]
    <3>1. \A i \in 0 .. m + 1 : i # 0 => g[i \div RADIX] = f[i \div RADIX]
      <4> SUFFICES ASSUME NEW i \in 0 .. m + 1, i # 0 PROVE g[i \div RADIX] = f[i \div RADIX]
        OBVIOUS
      <4>1. i \in 1 .. m + 1
        OBVIOUS
      <4> HIDE DEF g
      <4>2. QED
        BY <2>3, <2>4, <4>1
    <3>2. \A i \in 0 .. m + 1 : g[i] = IF i = 0 THEN << >> ELSE Low(i) \o f[i \div RADIX]
      OBVIOUS
    <3>3. g = [i \in 0 .. m + 1 |-> g[i]]
      OBVIOUS
    <3> HIDE DEF g
    <3>4. QED
      BY <3>1, <3>2, <3>3
  <2> HIDE DEF g
  <2>6. DigitsUpTo(g, m + 1)
    BY <2>5 DEF DigitsUpTo, Low
  <2>7. m + 1 \in 0 .. n
    OBVIOUS
  <2>8. QED
    BY <2>6, <2>7
<1>3. \A m \in 0 .. n : m \in T
  <2> HIDE DEF T
  <2>1. QED
    BY <1>1, <1>2, UpTo
<1>4. n \in T
  BY <1>3
<1>5. QED
  BY <1>4

LEMMA DigitsAre ==
    ASSUME NEW n \in Nat
    PROVE  \E f : DigitsUpTo(f, n) /\ Digits(n, RADIX, lookup) = f[n]
<1> DEFINE f == CHOOSE f : DigitsUpTo(f, n)
<1>1. DigitsUpTo(f, n)
  BY DigitsSome
<1>2. Digits(n, RADIX, lookup) = f[n]
  BY DEF Digits, DigitsUpTo
<1>3. QED
  BY <1>1, <1>2

-----------------------------------------------------------------------------
\* What the first characters of a numeral are worth.
Worths(v, s) == /\ v \in [0 .. Len(s) -> Nat] /\ v[0] = 0
                /\ \A i \in 1 .. Len(s) : \E d \in 0 .. RADIX - 1 :
                      s[i] = lookup[d + 1] /\ v[i] = RADIX * v[i - 1] + d

\* Digits that are worth n, the first no zero.
IsDigits(s, n) == /\ IsString(s)
                  /\ n > 0 => Len(s) >= 1 /\ s[1] # lookup[1]
                  /\ \E v : Worths(v, s) /\ v[Len(s)] = n

LEMMA ReverseIs ==
    ASSUME NEW s, IsString(s), NEW c
    PROVE  /\ IsString(Reverse(s)) /\ Len(Reverse(s)) = Len(s)
           /\ Reverse(<<c>> \o s) = Reverse(s) \o <<c>>
<1> DEFINE n == Len(s)
           r == Reverse(s)
           e == <<c>>
           t == e \o s
<1>0. n \in Nat
  BY StringFacts
<1>1. IsString(r) /\ Len(r) = n /\ r = [i \in 1 .. n |-> s[(n - i) + 1]]
  <2>1. r = [i \in 1 .. n |-> s[(n - i) + 1]]
    BY DEF Reverse
  <2> HIDE DEF n, r
  <2>2. DOMAIN r = 1 .. n /\ r = [i \in 1 .. n |-> r[i]]
    BY <2>1
  <2>3. QED
    BY <1>0, <2>1, <2>2, StringIs
<1>2. IsString(e) /\ Len(e) = 1 /\ e[1] = c
  BY OneString
<1> HIDE DEF e
<1>3. IsString(t) /\ Len(t) = 1 + n /\ t = [i \in 1 .. 1 + n |-> IF i <= 1 THEN e[i] ELSE s[i - 1]]
  <2> HIDE DEF n, t
  <2>1. /\ IsString(e \o s) /\ Len(e \o s) = Len(e) + Len(s)
        /\ e \o s = [i \in 1 .. Len(e) + Len(s) |-> IF i <= Len(e) THEN e[i] ELSE s[i - Len(e)]]
    BY <1>2, JoinString
  <2>2. Len(e) = 1 /\ Len(s) = n
    BY <1>2 DEF n
  <2>3. QED
    BY <2>1, <2>2 DEF t
<1>4. IsString(r \o e) /\ Len(r \o e) = n + 1
      /\ r \o e = [i \in 1 .. n + 1 |-> IF i <= n THEN r[i] ELSE e[i - n]]
  <2> HIDE DEF r, n
  <2>1. PICK u, v : u = r /\ v = e
    OBVIOUS
  <2>2. IsString(u) /\ Len(u) = n /\ IsString(v) /\ Len(v) = 1
    BY <1>1, <1>2, <2>1
  <2>3. /\ IsString(u \o v) /\ Len(u \o v) = Len(u) + Len(v)
        /\ u \o v = [i \in 1 .. Len(u) + Len(v) |-> IF i <= Len(u) THEN u[i] ELSE v[i - Len(u)]]
    BY <2>2, JoinString
  <2>4. QED
    BY <2>1, <2>2, <2>3
<1> HIDE DEF n, t, r
<1> DEFINE l == n + 1
           x == r \o e
<1>5. Reverse(t) = [i \in 1 .. l |-> t[(l - i) + 1]]
  <2>1. Len(t) = l
    BY <1>0, <1>3
  <2>2. Reverse(t) = [i \in 1 .. Len(t) |-> t[(Len(t) - i) + 1]]
    BY DEF Reverse
  <2> HIDE DEF l
  <2>3. QED
    BY <2>1, <2>2
<1>9. l = n + 1 /\ x = [i \in 1 .. l |-> IF i <= n THEN r[i] ELSE e[i - n]]
  BY <1>4
<1> HIDE DEF x, l
<1>6. ASSUME NEW i \in 1 .. l
      PROVE  t[(l - i) + 1] = IF i <= n THEN r[i] ELSE e[i - n]
  <2>0. l \in Nat /\ i \in Nat /\ i >= 1 /\ i <= l
    BY <1>0, <1>9
  <2>3. PICK j \in Nat : j = (l - i) + 1
    BY <2>0
  <2>1. CASE i = l
    <3>1. j = 1 /\ 1 \in 1 .. 1 + n /\ i - n = 1 /\ ~(i <= n)
      BY <1>0, <1>9, <2>1, <2>3
    <3>2. t[1] = e[1]
      BY <1>3, <3>1
    <3>3. QED
      BY <2>3, <3>1, <3>2
  <2>2. CASE i # l
    <3>1. i <= n /\ i \in 1 .. n
      BY <1>0, <1>9, <2>0, <2>2
    <3>2. j \in 1 .. 1 + n /\ ~(j <= 1) /\ j - 1 = (n - i) + 1
      BY <1>0, <1>9, <3>1, <2>3
    <3>4. t[j] = s[(n - i) + 1]
      BY <1>3, <3>2
    <3>5. QED
      BY <1>1, <2>3, <3>1, <3>4
  <2>4. QED
    BY <2>1, <2>2
<1>7. Reverse(t) = r \o e
  <2>1. Reverse(t) = x
    BY <1>5, <1>6, <1>9
  <2>2. QED
    BY <2>1 DEF x
<1>8. QED
  BY <1>1, <1>7 DEF t, e, r, n

LEMMA OneDigitMore ==
    ASSUME NEW q \in Nat, NEW d \in 0 .. RADIX - 1, NEW s, IsDigits(s, q), q = 0 => s = << >>,
           NEW n \in Nat, n > 0, n = RADIX * q + d
    PROVE  IsDigits(s \o <<lookup[d + 1]>>, n)
<1> DEFINE c == lookup[d + 1]
           e == <<c>>
           m == Len(s)
           w == s \o e
<1>0. IsString(s) /\ (q > 0 => m >= 1 /\ s[1] # lookup[1]) /\ m \in Nat
  BY StringFacts DEF IsDigits
<1>1. PICK v : Worths(v, s) /\ v[m] = q
  BY DEF IsDigits
<1>2. IsString(e) /\ Len(e) = 1 /\ e[1] = c
  BY OneString
<1> HIDE DEF e, m
<1>3. /\ IsString(w) /\ Len(w) = m + 1
      /\ (\A i \in 1 .. m : w[i] = s[i]) /\ w[m + 1] = c
  <2>1. /\ IsString(w) /\ Len(w) = m + 1
        /\ w = [i \in 1 .. m + 1 |-> IF i <= m THEN s[i] ELSE e[i - m]]
    <3> HIDE DEF w
    <3>1. /\ IsString(s \o e) /\ Len(s \o e) = Len(s) + Len(e)
          /\ s \o e = [i \in 1 .. Len(s) + Len(e) |-> IF i <= Len(s) THEN s[i] ELSE e[i - Len(s)]]
      BY <1>0, <1>2, JoinString
    <3>2. Len(e) = 1 /\ Len(s) = m
      BY <1>2 DEF m
    <3>3. QED
      BY <3>1, <3>2 DEF w
  <2> HIDE DEF w
  <2>2. \A i \in 1 .. m : i \in 1 .. m + 1 /\ i <= m
    BY <1>0
  <2>3. m + 1 \in 1 .. m + 1 /\ ~(m + 1 <= m) /\ (m + 1) - m = 1
    BY <1>0
  <2>4. QED
    BY <1>2, <2>1, <2>2, <2>3
<1> HIDE DEF w
<1> DEFINE u == [i \in 0 .. m + 1 |-> IF i = m + 1 THEN n ELSE v[i]]
<1>4. /\ v \in [0 .. m -> Nat] /\ v[0] = 0
      /\ \A i \in 1 .. m : \E x \in 0 .. RADIX - 1 :
            s[i] = lookup[x + 1] /\ v[i] = RADIX * v[i - 1] + x
  BY <1>1 DEF Worths, m
<1>5. u \in [0 .. m + 1 -> Nat] /\ u[m + 1] = n /\ \A i \in 0 .. m : u[i] = v[i]
  <2>1. m + 1 \in 0 .. m + 1 /\ \A i \in 0 .. m : i \in 0 .. m + 1 /\ i # m + 1
    BY <1>0
  <2>2. QED
    BY <1>0, <1>4, <2>1
<1> HIDE DEF u
<1>6. ASSUME NEW i \in 1 .. m + 1
      PROVE  \E x \in 0 .. RADIX - 1 : w[i] = lookup[x + 1] /\ u[i] = RADIX * u[i - 1] + x
  <2>1. CASE i = m + 1
    <3>1. i - 1 = m /\ m \in 0 .. m
      BY <1>0, <2>1
    <3>2. u[i - 1] = q
      BY <1>1, <1>5, <3>1
    <3>3. w[i] = lookup[d + 1] /\ u[i] = RADIX * u[i - 1] + d
      BY <1>3, <1>5, <2>1, <3>2
    <3>4. QED
      BY <3>3
  <2>2. CASE i # m + 1
    <3>1. i \in 1 .. m /\ i \in 0 .. m /\ i - 1 \in 0 .. m
      BY <1>0, <2>2
    <3>2. PICK x \in 0 .. RADIX - 1 : s[i] = lookup[x + 1] /\ v[i] = RADIX * v[i - 1] + x
      BY <1>4, <3>1
    <3>3. w[i] = s[i] /\ u[i] = v[i] /\ u[i - 1] = v[i - 1]
      BY <1>3, <1>5, <3>1
    <3>4. QED
      BY <3>2, <3>3
  <2>3. QED
    BY <2>1, <2>2
<1>7. Worths(u, w) /\ u[Len(w)] = n
  <2>1. u[0] = 0
    <3>1. 0 \in 0 .. m
      BY <1>0
    <3>2. QED
      BY <1>4, <1>5, <3>1
  <2>2. QED
    BY <1>3, <1>5, <1>6, <2>1 DEF Worths
<1>8. Len(w) >= 1 /\ w[1] # lookup[1]
  <2>1. CASE q = 0
    <3>1. s = << >> /\ m = 0
      BY <2>1, EmptyString DEF m
    <3>2. d # 0
      <4>1. RADIX \in Int
        BY RadixAssumption, StringFacts
      <4>2. RADIX * q = 0
        BY <2>1, <4>1
      <4>3. QED
        BY <4>1, <4>2
    <3>3. w[1] = c /\ 0 + 1 = 1
      BY <1>3, <3>1
    <3>4. QED
      BY <1>3, <3>1, <3>2, <3>3, DigitFacts
  <2>2. CASE q > 0
    <3>1. m >= 1 /\ 1 \in 1 .. m
      BY <1>0, <2>2
    <3>2. QED
      BY <1>0, <1>3, <2>2, <3>1
  <2>3. QED
    BY <2>1, <2>2
<1>9. QED
  BY <1>3, <1>7, <1>8 DEF IsDigits, w, e

LEMMA DigitsWorth ==
    ASSUME NEW n \in Nat
    PROVE  /\ IsDigits(Reverse(Digits(n, RADIX, lookup)), n)
           /\ n = 0 => Digits(n, RADIX, lookup) = << >>
<1>1. PICK f : DigitsUpTo(f, n) /\ Digits(n, RADIX, lookup) = f[n]
  BY DigitsAre
<1> DEFINE Low(i) == <<lookup[(i % RADIX) + 1]>>
           Good(i) == IsString(f[i]) /\ IsDigits(Reverse(f[i]), i)
           T == {m \in 0 .. n : \A i \in 0 .. m : Good(i)}
<1>2. f[0] = << >> /\ \A i \in 1 .. n : f[i] = Low(i) \o f[i \div RADIX]
  <2>1. f = [i \in 0 .. n |-> IF i = 0 THEN << >> ELSE Low(i) \o f[i \div RADIX]]
    BY <1>1 DEF DigitsUpTo
  <2> HIDE DEF Low
  <2>2. \A i \in 0 .. n : f[i] = IF i = 0 THEN << >> ELSE Low(i) \o f[i \div RADIX]
    BY <2>1
  <2>3. f[0] = << >>
    BY <2>2
  <2>4. ASSUME NEW i \in 1 .. n PROVE f[i] = Low(i) \o f[i \div RADIX]
    <3>1. i \in 0 .. n /\ i # 0
      OBVIOUS
    <3>2. QED
      BY <2>2, <3>1
  <2>5. QED
    BY <2>3, <2>4
<1>3. 0 \in T
  <2> DEFINE e == << >>
             v == [i \in 0 .. 0 |-> 0]
  <2>1. IsString(e) /\ Len(e) = 0
    BY EmptyString
  <2>2. Reverse(e) = e
    BY DEF Reverse
  <2> HIDE DEF e
  <2>3. v \in [0 .. 0 -> Nat] /\ v[0] = 0
    OBVIOUS
  <2>4. Worths(v, e) /\ v[Len(e)] = 0
    BY <2>1, <2>3 DEF Worths
  <2> HIDE DEF v
  <2>5. IsDigits(e, 0)
    BY <2>1, <2>4 DEF IsDigits
  <2>6. Good(0)
    BY <1>2, <2>1, <2>2, <2>5 DEF e
  <2> HIDE DEF Good
  <2>7. QED
    BY <2>6
<1>4. ASSUME NEW m \in 0 .. n - 1, m \in T PROVE m + 1 \in T
  <2> DEFINE i == m + 1
             q == i \div RADIX
             d == i % RADIX
  <2>1. i \in Nat /\ i > 0 /\ i \in 1 .. n
    OBVIOUS
  <2> HIDE DEF i
  <2>2. /\ q \in Nat /\ d \in 0 .. RADIX - 1 /\ i = RADIX * q + d /\ q < i
    BY <2>1, Division
  <2>3. f[i] = <<lookup[d + 1]>> \o f[q]
    BY <1>2, <2>1
  <2> HIDE DEF q, d
  <2>4. q \in 0 .. m
    BY <2>1, <2>2 DEF i
  <2>5. IsString(f[q]) /\ IsDigits(Reverse(f[q]), q)
    BY <1>4, <2>4
  <2> DEFINE c == lookup[d + 1]
             r == Reverse(f[q])
  <2>6. Reverse(<<c>> \o f[q]) = r \o <<c>>
    BY <2>5, ReverseIs
  <2>7. q = 0 => r = << >>
    <3>1. Reverse(<< >>) = << >>
      BY DEF Reverse
    <3>2. QED
      BY <1>2, <3>1
  <2>8. IsDigits(r \o <<c>>, i)
    <3> HIDE DEF r
    <3>1. IsDigits(r, q)
      BY <2>5 DEF r
    <3>2. QED
      BY <2>1, <2>2, <2>7, <3>1, OneDigitMore
  <2>9. IsString(<<c>> \o f[q])
    BY <2>5, OneString, JoinString
  <2>10. Good(i)
    BY <2>3, <2>6, <2>8, <2>9
  <2>11. m + 1 \in 0 .. n /\ \A x \in 0 .. m + 1 : x = i \/ x \in 0 .. m
    BY DEF i
  <2> HIDE DEF Good
  <2>12. QED
    BY <1>4, <2>10, <2>11
<1>5. \A m \in 0 .. n : m \in T
  <2> HIDE DEF T
  <2>1. QED
    BY <1>3, <1>4, UpTo
<1>6. n \in T /\ n \in 0 .. n
  BY <1>5
<1>7. Good(n)
  BY <1>6
<1>8. QED
  BY <1>1, <1>2, <1>7

LEMMA NumeralIs ==
    ASSUME NEW n \in Nat, n > 0, NEW s, IsDigits(s, n)
    PROVE  IsNumeral(s, n) /\ \A i \in 1 .. Len(s) : s[i] # NEWLINE
<1> DEFINE m == Len(s)
           Worth(c) == CHOOSE d \in 0 .. RADIX - 1 : lookup[d + 1] = c
           Eq(f) == f = [i \in 0 .. m |-> IF i = 0 THEN 0 ELSE RADIX * f[i - 1] + Worth(s[i])]
           value == CHOOSE f : Eq(f)
<1>0. IsString(s) /\ m \in Nat /\ m >= 1 /\ s[1] # lookup[1]
  BY StringFacts DEF IsDigits
<1>1. PICK v : Worths(v, s) /\ v[m] = n
  BY DEF IsDigits
<1> HIDE DEF m
<1>2. /\ v \in [0 .. m -> Nat] /\ v[0] = 0
      /\ \A i \in 1 .. m : \E d \in 0 .. RADIX - 1 :
            s[i] = lookup[d + 1] /\ v[i] = RADIX * v[i - 1] + d
  BY <1>1 DEF Worths, m
<1>3. ASSUME NEW i \in 1 .. m
      PROVE  s[i] # NEWLINE /\ v[i] = RADIX * v[i - 1] + Worth(s[i])
  <2>1. PICK d \in 0 .. RADIX - 1 : s[i] = lookup[d + 1] /\ v[i] = RADIX * v[i - 1] + d
    BY <1>2
  <2>2. lookup[d + 1] # NEWLINE /\ Worth(lookup[d + 1]) = d
    BY DigitFacts
  <2> HIDE DEF Worth
  <2>3. QED
    BY <2>1, <2>2
<1> HIDE DEF Worth
<1>4. Eq(v)
  <2>1. \A i \in 0 .. m : v[i] = IF i = 0 THEN 0 ELSE RADIX * v[i - 1] + Worth(s[i])
    BY <1>2, <1>3
  <2>2. v = [i \in 0 .. m |-> v[i]]
    BY <1>2
  <2>3. QED
    BY <2>1, <2>2
<1>5. Eq(value)
  BY <1>4
<1> HIDE DEF value
<1>6. \A i \in 0 .. m : value[i] = IF i = 0 THEN 0 ELSE RADIX * value[i - 1] + Worth(s[i])
  BY <1>5
<1> DEFINE T == {i \in 0 .. m : value[i] = v[i]}
<1>7. 0 \in T
  BY <1>0, <1>2, <1>6
<1>8. ASSUME NEW i \in 0 .. m - 1, i \in T PROVE i + 1 \in T
  <2>1. i + 1 \in 1 .. m /\ i + 1 \in 0 .. m /\ (i + 1) - 1 = i /\ i + 1 # 0
    BY <1>0
  <2>2. value[i + 1] = RADIX * value[i] + Worth(s[i + 1])
    BY <1>6, <2>1
  <2>3. v[i + 1] = RADIX * v[i] + Worth(s[i + 1])
    BY <1>3, <2>1
  <2>4. QED
    BY <1>8, <2>1, <2>2, <2>3
<1>9. \A i \in 0 .. m : i \in T
  <2> HIDE DEF T
  <2>1. QED
    BY <1>0, <1>7, <1>8, UpTo
<1>10. value[m] = n
  BY <1>0, <1>1, <1>9
<1>11. s # << >>
  BY <1>0, EmptyString DEF m
<1>12. IsNumeral(s, n)
  <2>1. IsNumeral(s, n) <=> s # << >> /\ (m = 1 \/ s[1] # lookup[1]) /\ value[m] = n
    BY DEF IsNumeral, value, m, Worth
  <2>2. QED
    BY <1>0, <1>10, <1>11, <2>1
<1>13. QED
  BY <1>3, <1>12 DEF m

LEMMA ItoaIs ==
    ASSUME NEW n \in Nat, n > 0
    PROVE  LET s == Itoa(n, RADIX, lookup)
           IN  IsString(s) /\ IsNumeral(s, n) /\ \A i \in 1 .. Len(s) : s[i] # NEWLINE
<1> DEFINE s == Reverse(Digits(n, RADIX, lookup))
<1>1. Itoa(n, RADIX, lookup) = s
  BY DEF Itoa
<1>2. IsDigits(s, n)
  BY DigitsWorth
<1> HIDE DEF s
<1>3. IsString(s) /\ IsNumeral(s, n) /\ \A i \in 1 .. Len(s) : s[i] # NEWLINE
  BY <1>2, NumeralIs DEF IsDigits
<1>4. QED
  BY <1>1, <1>3

-----------------------------------------------------------------------------
(***************************************************************************)
(* counter: each step that shows something adds the line of a number.      *)
(***************************************************************************)
\* All lines but an open, empty one are the numerals up to i.
CounterShown == /\ IsString(output) /\ p.i \in Nat
                /\ Len(LinesOf(output)) = p.i + 1 /\ LinesOf(output)[p.i + 1] = << >>
                /\ \A n \in 1 .. p.i : IsNumeral(LinesOf(output)[n], n)

LEMMA NothingShown == Len(LinesOf(<< >>)) = 1 /\ LinesOf(<< >>)[1] = << >>
<1> DEFINE t == << >>
           e == [k \in 0 .. 1 |-> k]
<1>0. IsString(t) /\ Len(t) = 0 /\ DOMAIN t = {}
  BY EmptyString
<1> HIDE DEF t
<1>1. EndsIn(t) = {1}
  BY <1>0 DEF EndsIn
<1>2. e \in [0 .. 1 -> Nat] /\ e[0] = 0 /\ e[1] = 1
  OBVIOUS
<1> HIDE DEF e
<1>3. IsMarks(e, 1, t)
  <2>1. {e[k] : k \in 1 .. 1} = {1}
    BY <1>2
  <2>2. \A k \in 1 .. 1 : e[k - 1] < e[k]
    BY <1>2
  <2>3. QED
    BY <1>1, <1>2, <2>1, <2>2 DEF IsMarks
<1>4. LinesOf(t) = [k \in 1 .. 1 |-> LineAt(t, e, k)]
  BY <1>3, MarksGive
<1>5. LineAt(t, e, 1) = << >>
  <2>1. 1 - 1 = 0 /\ e[0] + 1 = 1 /\ e[1] - 1 = 0
    BY <1>2
  <2>2. LineAt(t, e, 1) = SubSeq(t, 1, 0)
    BY <2>1 DEF LineAt
  <2>3. QED
    BY <2>2
<1> DEFINE s == LinesOf(t)
<1>6. s = [k \in 1 .. 1 |-> LineAt(t, e, k)]
  BY <1>4
<1> HIDE DEF s
<1>7. s[1] = << >> /\ DOMAIN s = 1 .. 1 /\ s = [k \in 1 .. 1 |-> s[k]]
  BY <1>5, <1>6
<1>8. Len(s) = 1
  BY <1>7, StringIs
<1>9. QED
  BY <1>7, <1>8 DEF s, t

LEMMA CounterNow ==
    ASSUME IsString(output'), p'.i \in Nat,
           Len(LinesOf(output')) = p'.i + 1, LinesOf(output')[p'.i + 1] = << >>,
           \A k \in 1 .. p'.i : IsNumeral(LinesOf(output')[k], k)
    PROVE  CounterShown'
<1>1. LinesOf(output)' = LinesOf(output')
  BY DEF LinesOf
<1>2. ASSUME NEW k \in 1 .. p'.i PROVE IsNumeral(LinesOf(output)[k], k)'
  <2>1. IsNumeral(LinesOf(output')[k], k)
    OBVIOUS
  <2>2. IsNumeral(LinesOf(output)[k], k)' <=> IsNumeral(LinesOf(output')[k], k)
    BY <1>1 DEF IsNumeral
  <2>3. QED
    BY <2>1, <2>2
<1>3. (IsString(output) /\ p.i \in Nat)'
  BY DEF IsString
<1>4. (Len(LinesOf(output)) = p.i + 1 /\ LinesOf(output)[p.i + 1] = << >>)'
  BY <1>1
<1>5. QED
  BY <1>2, <1>3, <1>4 DEF CounterShown

LEMMA CounterCounts ==
    ASSUME CounterOK, CounterShown, Counter
    PROVE  CounterShown'
<1> DEFINE i == p.i
<1>0. /\ p \in [prog : {"counter"}, at : {"ask", "count", "ended"}, status : {p.status},
                i : {p.i}, max : {p.max}]
  BY DEF CounterOK
<1>5. ASSUME /\ IsString(output') /\ p'.i \in Nat
             /\ Len(LinesOf(output')) = p'.i + 1 /\ LinesOf(output')[p'.i + 1] = << >>
             /\ \A k \in 1 .. p'.i : IsNumeral(LinesOf(output')[k], k)
      PROVE  CounterShown'
  BY <1>5, CounterNow
<1>1. CASE output' = output /\ p'.i = p.i
  BY <1>1, <1>5 DEF CounterShown
<1>2. CASE CounterAsk
  <2>1. output' = output /\ p'.i = p.i
    BY <1>0, <1>2 DEF CounterAsk, Silent, Ended
  <2>2. QED
    BY <1>1, <2>1
<1>3. CASE CounterCount
  <2>1. CASE p.i < p.max
    <3> DEFINE t == Itoa(i + 1, RADIX, lookup)
               lines == LinesOf(output)
               w == Append(output \o t, NEWLINE)
               new == LinesOf(w)
    <3>1. p' = [p EXCEPT !.i = p.i + 1] /\ output' = w
      BY <1>3, <2>1 DEF CounterCount
    <3>2. p'.i = i + 1 /\ i \in Nat
      BY <1>0, <3>1 DEF CounterShown
    <3> HIDE DEF i
    <3>3. IsString(t) /\ IsNumeral(t, i + 1) /\ \A j \in 1 .. Len(t) : t[j] # NEWLINE
      <4>1. i + 1 \in Nat /\ i + 1 > 0
        BY <3>2
      <4> HIDE DEF t
      <4> DEFINE n == i + 1
      <4> HIDE DEF n
      <4>2. LET s == Itoa(n, RADIX, lookup)
            IN  IsString(s) /\ IsNumeral(s, n) /\ \A j \in 1 .. Len(s) : s[j] # NEWLINE
        BY <4>1, ItoaIs DEF n
      <4>3. QED
        BY <4>2 DEF t, n
    <3>4. /\ IsString(output) /\ Len(lines) = i + 1 /\ lines[i + 1] = << >>
          /\ \A n \in 1 .. i : IsNumeral(lines[n], n)
      BY DEF CounterShown, i
    <3> HIDE DEF t
    <3> DEFINE n == i + 1
    <3>5. n \in Nat /\ n >= 1 /\ n - 1 = i
      BY <3>2
    <3>6. Len(lines) = n /\ lines[n] = << >>
      BY <3>4
    <3> HIDE DEF n
    <3>7. /\ Len(new) = n + 1 /\ new[n + 1] = << >> /\ new[n] = t
          /\ \A k \in 1 .. n - 1 : new[k] = lines[k]
          /\ IsString(w)
      BY <3>3, <3>4, <3>5, <3>6, LinesGrow
    <3> HIDE DEF new, w, lines
    <3>8. \A k \in 1 .. n : IsNumeral(new[k], k)
      <4>1. IsNumeral(new[n], n)
        BY <3>3, <3>7 DEF n
      <4>2. ASSUME NEW k \in 1 .. n - 1 PROVE IsNumeral(new[k], k)
        BY <3>4, <3>5, <3>7
      <4>3. \A k \in 1 .. n : k = n \/ k \in 1 .. n - 1
        BY <3>5
      <4>4. QED
        BY <4>1, <4>2, <4>3
    <3>9. p'.i = n
      BY <3>2 DEF n
    <3>10. LinesOf(output') = new
      BY <3>1 DEF new
    <3>11. /\ IsString(output') /\ p'.i \in Nat
           /\ Len(LinesOf(output')) = p'.i + 1 /\ LinesOf(output')[p'.i + 1] = << >>
           /\ \A k \in 1 .. p'.i : IsNumeral(LinesOf(output')[k], k)
      BY <3>1, <3>5, <3>7, <3>8, <3>9, <3>10
    <3>12. QED
      BY <3>11, <1>5
  <2>2. CASE ~(p.i < p.max)
    <3>1. output' = output /\ p'.i = p.i
      BY <1>0, <1>3, <2>2 DEF CounterCount, Ended
    <3>2. QED
      BY <1>1, <3>1
  <2>3. QED
    BY <2>1, <2>2
<1>4. QED
  BY <1>2, <1>3 DEF Counter

LEMMA CounterStarts ==
    ASSUME p = CounterState, output = << >>
    PROVE  CounterShown
BY NothingShown, EmptyString DEF CounterShown, CounterState

LEMMA CounterShowsAll == CounterShown => CounterShows
BY DEF CounterShown, CounterShows

-----------------------------------------------------------------------------
(***************************************************************************)
(* fish: a frame that is read a place at a time.                           *)
(***************************************************************************)
\* Where a frame with the text t is when m places of its line j are read: within the line,
\* or over it; pos bytes are read of the file.
FrameAt(t, e, n, c, eof, pos, j, m) ==
    IF j <= n /\ m < e[j] - e[j - 1]
    THEN /\ c # NEWLINE /\ eof = FALSE /\ pos = e[j - 1] + m
         /\ m > 0 => c = t[e[j - 1] + m]
    ELSE /\ c = NEWLINE /\ eof = (j >= n)
         /\ j < n => pos = e[j]

LEMMA FrameReads ==
    ASSUME NEW t, IsString(t), NEW n \in Nat, NEW e, IsMarks(e, n, t),
           NEW j \in Nat, j >= 1, NEW m \in Nat, NEW c, NEW eof, NEW pos,
           FrameAt(t, e, n, c, eof, pos, j, m)
    PROVE  /\ c = NEWLINE => FrameAt(t, e, n, c, eof, pos, j, m + 1)
           /\ c # NEWLINE /\ pos = Len(t) => FrameAt(t, e, n, NEWLINE, TRUE, pos, j, m + 1)
           /\ c # NEWLINE /\ pos # Len(t) =>
                 FrameAt(t, e, n, t[pos + 1], FALSE, pos + 1, j, m + 1)
<1> DEFINE L == Len(t)
           a == e[j - 1]
           b == e[j]
<1>0. /\ e[n] = L + 1 /\ L \in Nat /\ n >= 1
      /\ \A k \in 1 .. n : /\ e[k - 1] \in Nat /\ e[k] \in Nat
                           /\ e[k - 1] < e[k] /\ e[k] <= L + 1
      /\ \A k \in 1 .. n - 1 : e[k] \in 1 .. L /\ t[e[k]] = NEWLINE
      /\ \A k \in 1 .. n : \A i \in e[k - 1] + 1 .. e[k] - 1 : i \in 1 .. L /\ t[i] # NEWLINE
  BY MarksFacts
<1>1. CASE c = NEWLINE
  <2>1. ~(j <= n /\ m < b - a) /\ eof = (j >= n) /\ (j < n => pos = b)
    BY <1>1 DEF FrameAt
  <2>2. ~(j <= n /\ m + 1 < b - a)
    <3>1. CASE j <= n
      <4>1. j \in 1 .. n
        BY <3>1
      <4>2. a \in Nat /\ b \in Nat
        BY <1>0, <4>1
      <4> HIDE DEF a, b
      <4>3. QED
        BY <2>1, <3>1, <4>2
    <3>2. CASE ~(j <= n)
      BY <3>2
    <3>3. QED
      BY <3>1, <3>2
  <2>3. FrameAt(t, e, n, c, eof, pos, j, m + 1)
    BY <1>1, <2>1, <2>2 DEF FrameAt
  <2>4. QED
    BY <1>1, <2>3
<1>2. CASE c # NEWLINE
  <2>1. j <= n /\ m < b - a /\ pos = a + m
    BY <1>2 DEF FrameAt
  <2>2. j \in 1 .. n /\ (j < n => j \in 1 .. n - 1) /\ (j = n \/ j < n)
    BY <2>1
  <2>3. a \in Nat /\ b \in Nat /\ a < b /\ b <= L + 1
    BY <1>0, <2>2
  <2>4. /\ j < n => b \in 1 .. L /\ t[b] = NEWLINE
        /\ \A i \in a + 1 .. b - 1 : i \in 1 .. L /\ t[i] # NEWLINE
        /\ j = n => b = L + 1
    BY <1>0, <2>2
  <2> HIDE DEF a, b, L
  <2>5. pos + 1 = a + (m + 1) /\ m + 1 > 0 /\ pos + 1 <= b /\ pos \in Nat
    BY <2>1, <2>3
  <2>6. CASE pos = L
    <3>1. b = L + 1 /\ ~(m + 1 < b - a)
      BY <1>0, <2>1, <2>3, <2>5, <2>6
    <3>2. j = n
      BY <1>0, <2>2, <2>4, <3>1
    <3>3. FrameAt(t, e, n, NEWLINE, TRUE, pos, j, m + 1)
      BY <3>1, <3>2 DEF FrameAt, a, b
    <3>4. QED
      BY <1>2, <2>6, <3>3 DEF L
  <2>7. CASE pos # L /\ pos + 1 < b
    <3>1. m + 1 < b - a /\ pos + 1 \in a + 1 .. b - 1
      BY <2>1, <2>3, <2>5, <2>7
    <3>2. t[pos + 1] # NEWLINE
      BY <2>4, <3>1
    <3>3. FrameAt(t, e, n, t[pos + 1], FALSE, pos + 1, j, m + 1)
      BY <2>1, <2>5, <3>1, <3>2 DEF FrameAt, a, b
    <3>4. QED
      BY <1>2, <2>7, <3>3 DEF L
  <2>8. CASE pos # L /\ pos + 1 = b
    <3>1. ~(m + 1 < b - a)
      BY <2>1, <2>3, <2>5, <2>8
    <3>2. j < n
      <4>1. b # L + 1
        BY <1>0, <2>5, <2>8
      <4>2. QED
        BY <2>2, <2>4, <4>1
    <3>3. t[pos + 1] = NEWLINE /\ pos + 1 = b /\ ~(j >= n)
      BY <2>4, <2>8, <3>2
    <3>4. FrameAt(t, e, n, t[pos + 1], FALSE, pos + 1, j, m + 1)
      BY <3>1, <3>2, <3>3 DEF FrameAt, a, b
    <3>5. QED
      BY <1>2, <2>8, <3>4 DEF L
  <2>9. pos + 1 < b \/ pos + 1 = b
    BY <2>3, <2>5
  <2>10. QED
    BY <2>6, <2>7, <2>8, <2>9
<1>3. QED
  BY <1>1, <1>2

LEMMA FrameCharIs ==
    ASSUME NEW t, IsString(t), NEW n \in Nat, NEW e, IsMarks(e, n, t),
           NEW j \in Nat, j >= 1, NEW m \in Nat, m >= 1
    PROVE  FrameChar(LinesOf(t), j, m) =
              IF j <= n /\ m < e[j] - e[j - 1] THEN t[e[j - 1] + m] ELSE SPACE
<1> DEFINE lines == LinesOf(t)
<1>1. lines = [k \in 1 .. n |-> LineAt(t, e, k)]
  BY MarksGive
<1>2. DOMAIN lines = 1 .. n
  BY <1>1
<1>3. CASE j <= n
  <2>1. j \in 1 .. n
    BY <1>3
  <2>2. lines[j] = LineAt(t, e, j)
    BY <1>1, <2>1
  <2>3. e[j - 1] \in Nat /\ e[j] \in Nat
    BY <2>1, MarksFacts
  <2>4. PICK a \in Nat : a = e[j - 1]
    BY <2>3
  <2>5. PICK b \in Nat : b = e[j]
    BY <2>3
  <2> DEFINE i == a + 1
             k == b - 1
             u == SubSeq(t, i, k)
  <2>6. i \in Int /\ k \in Int
    OBVIOUS
  <2> HIDE DEF i, k
  <2>7. u = [x \in 1 .. k - i + 1 |-> t[i + x - 1]]
    BY <2>6, SubSeqIs
  <2>8. lines[j] = u
    BY <2>2, <2>4, <2>5 DEF LineAt, i, k
  <2> HIDE DEF u, lines
  <2>9. m \in DOMAIN lines[j] <=> m < b - a
    <3>1. DOMAIN u = 1 .. k - i + 1
      BY <2>7
    <3>2. k - i + 1 = b - a - 1
      BY DEF k, i
    <3>3. QED
      BY <2>8, <3>1, <3>2
  <2>10. ASSUME m < b - a PROVE lines[j][m] = t[a + m]
    <3>1. m \in 1 .. k - i + 1 /\ i + m - 1 = a + m
      BY <2>10 DEF k, i
    <3>2. u[m] = t[i + m - 1]
      BY <2>7, <3>1
    <3>3. QED
      BY <2>8, <3>1, <3>2
  <2>11. FrameChar(lines, j, m) = IF m < b - a THEN t[a + m] ELSE SPACE
    BY <1>2, <2>1, <2>9, <2>10 DEF FrameChar
  <2>12. QED
    BY <1>3, <2>4, <2>5, <2>11 DEF lines
<1>4. CASE ~(j <= n)
  <2>1. j \notin DOMAIN lines
    BY <1>2, <1>4
  <2>2. QED
    BY <1>4, <2>1 DEF FrameChar
<1>5. QED
  BY <1>3, <1>4

\* What is shown of a frame is what its file has there.
LEMMA FrameShows ==
    ASSUME NEW t, IsString(t), NEW n \in Nat, NEW e, IsMarks(e, n, t),
           NEW j \in Nat, j >= 1, NEW m \in Nat, m >= 1, NEW c, NEW eof, NEW pos,
           FrameAt(t, e, n, c, eof, pos, j, m)
    PROVE  /\ Shown(c) = FrameChar(LinesOf(t), j, m)
           /\ c = NEWLINE => \A x \in Nat : x >= m => FrameChar(LinesOf(t), j, x) = SPACE
<1>1. FrameChar(LinesOf(t), j, m) =
         IF j <= n /\ m < e[j] - e[j - 1] THEN t[e[j - 1] + m] ELSE SPACE
  BY FrameCharIs
<1>2. Shown(c) = FrameChar(LinesOf(t), j, m)
  BY <1>1 DEF FrameAt, Shown
<1>3. ASSUME c = NEWLINE, NEW x \in Nat, x >= m PROVE FrameChar(LinesOf(t), j, x) = SPACE
  <2>1. ~(j <= n /\ m < e[j] - e[j - 1])
    BY <1>3 DEF FrameAt
  <2>2. ~(j <= n /\ x < e[j] - e[j - 1])
    <3>1. CASE j <= n
      <4>1. j \in 1 .. n
        BY <3>1
      <4>2. e[j - 1] \in Nat /\ e[j] \in Nat
        BY <4>1, MarksFacts
      <4>3. PICK d \in Int : d = e[j] - e[j - 1]
        BY <4>2
      <4>4. QED
        BY <1>3, <2>1, <4>3
    <3>2. QED
      BY <3>1
  <2>3. x >= 1
    BY <1>3
  <2>4. QED
    BY <2>2, <2>3, FrameCharIs
<1>4. QED
  BY <1>2, <1>3

LEMMA FrameGoesOn ==
    ASSUME NEW t, IsString(t), NEW n \in Nat, NEW e, IsMarks(e, n, t),
           NEW j \in Nat, j >= 1, NEW m \in Nat, NEW eof, NEW pos,
           FrameAt(t, e, n, NEWLINE, eof, pos, j, m)
    PROVE  FrameAt(t, e, n, IF eof THEN NEWLINE ELSE lookup[1], eof, pos, j + 1, 0)
<1>1. ~(j <= n /\ m < e[j] - e[j - 1]) /\ eof = (j >= n) /\ (j < n => pos = e[j])
  BY DEF FrameAt
<1>2. (j + 1) - 1 = j
  OBVIOUS
<1>3. CASE j >= n
  <2>1. ~(j + 1 <= n) /\ j + 1 >= n /\ ~(j + 1 < n)
    BY <1>3
  <2>2. eof = TRUE
    BY <1>1, <1>3, Zenon
  <2>3. QED
    BY <2>1, <2>2 DEF FrameAt
<1>4. CASE ~(j >= n)
  <2>8. j + 1 <= n /\ j + 1 \in 1 .. n /\ pos = e[j]
    BY <1>1, <1>4
  <2>10. (j >= n) = FALSE
    BY <1>4
  <2>9. eof = FALSE
    BY <1>1, <2>10, Zenon
  <2>1. j + 1 <= n /\ j + 1 \in 1 .. n /\ eof = FALSE /\ pos = e[j]
    BY <2>8, <2>9
  <2>2. e[(j + 1) - 1] \in Nat /\ e[j + 1] \in Nat /\ e[(j + 1) - 1] < e[j + 1]
    BY <2>1, MarksFacts
  <2>3. e[j] \in Nat /\ e[j] < e[j + 1]
    BY <1>2, <2>2
  <2>4. 0 < e[j + 1] - e[(j + 1) - 1]
    BY <1>2, <2>2, <2>3
  <2>5. pos = e[(j + 1) - 1] + 0
    BY <1>2, <2>1, <2>3
  <2>6. lookup[1] # NEWLINE
    <3>1. Len(lookup) \in Nat /\ RADIX \in 2 .. Len(lookup)
      BY RadixAssumption, StringFacts
    <3>2. 1 \in 1 .. Len(lookup)
      BY <3>1
    <3>3. QED
      BY <3>2, RadixAssumption
  <2>7. QED
    BY <2>1, <2>4, <2>5, <2>6 DEF FrameAt
<1>5. QED
  BY <1>3, <1>4

LEMMA FrameStarts ==
    ASSUME NEW t, IsString(t), NEW n \in Nat, NEW e, IsMarks(e, n, t)
    PROVE  FrameAt(t, e, n, lookup[1], FALSE, 0, 1, 0)
<1>1. n >= 1 /\ e[0] = 0 /\ 1 \in 1 .. n /\ 1 - 1 = 0
  BY MarksFacts DEF IsMarks
<1>2. e[1] \in Nat /\ e[1 - 1] < e[1]
  BY <1>1, MarksFacts
<1>3. 0 < e[1] - e[1 - 1] /\ 0 = e[1 - 1] + 0
  BY <1>1, <1>2
<1>4. lookup[1] # NEWLINE
  <2>1. Len(lookup) \in Nat /\ RADIX \in 2 .. Len(lookup)
    BY RadixAssumption, StringFacts
  <2>2. 1 \in 1 .. Len(lookup)
    BY <2>1
  <2>3. QED
    BY <2>2, RadixAssumption
<1>5. QED
  BY <1>1, <1>3, <1>4 DEF FrameAt

\* At the end of its file a frame has nothing more to show.
LEMMA FrameEnds ==
    ASSUME NEW t, IsString(t), NEW n \in Nat, NEW e, IsMarks(e, n, t),
           NEW j \in Nat, j >= 1, NEW c, NEW pos, FrameAt(t, e, n, c, TRUE, pos, j, 0),
           NEW r \in Nat, r >= j, NEW x \in Nat, x >= 1
    PROVE  FrameChar(LinesOf(t), r, x) = SPACE
<1>1. ~(j <= n /\ 0 < e[j] - e[j - 1])
  BY DEF FrameAt
<1>2. ASSUME j <= n PROVE FALSE
  <2>1. j \in 1 .. n
    BY <1>2
  <2>2. e[j - 1] \in Nat /\ e[j] \in Nat /\ e[j - 1] < e[j]
    BY <2>1, MarksFacts
  <2>3. QED
    BY <1>1, <1>2, <2>2
<1>3. ~(r <= n)
  BY <1>2
<1>4. r >= 1
  OBVIOUS
<1>5. QED
  BY <1>3, <1>4, FrameCharIs

-----------------------------------------------------------------------------
(***************************************************************************)
(* fish: what is shown, place by place.                                    *)
(***************************************************************************)
\* What fish shows at a place, whether it does, and the order in which it comes to them.
Place(first, second, r, c) == [row |-> r, col |-> c, on |-> FrameChar(first, r + 1, c + 1),
                               off |-> FrameChar(second, r + 1, c + 1)]
Visible(b) == b.on # SPACE \/ b.off # SPACE
Before(r, c, row, col) == r < row \/ (r = row /\ c < col)

\* The places before (row, col) are shown, and each once.
ShownTo(out, first, second, row, col) ==
    /\ IsString(out) /\ IsInjective(out)
    /\ \A i \in DOMAIN out : \E r \in Nat : \E c \in Nat :
          Before(r, c, row, col) /\ out[i] = Place(first, second, r, c) /\ Visible(out[i])
    /\ \A r \in Nat : \A c \in Nat :
          Before(r, c, row, col) /\ Visible(Place(first, second, r, c)) =>
              \E i \in DOMAIN out : out[i] = Place(first, second, r, c)

LEMMA ShownFirst ==
    ASSUME NEW first, NEW second
    PROVE  ShownTo(<< >>, first, second, 0, 0)
<1> DEFINE e == << >>
<1>1. IsString(e) /\ DOMAIN e = {}
  BY EmptyString
<1>2. \A r \in Nat : \A c \in Nat : ~Before(r, c, 0, 0)
  BY DEF Before
<1> HIDE DEF e
<1>3. IsInjective(e)
  BY <1>1 DEF IsInjective
<1>4. ShownTo(e, first, second, 0, 0)
  BY <1>1, <1>2, <1>3 DEF ShownTo
<1>5. QED
  BY <1>4 DEF e

\* A place is shown, or need not be.
LEMMA ShownNext ==
    ASSUME NEW first, NEW second, NEW row \in Nat, NEW col \in Nat, NEW out,
           ShownTo(out, first, second, row, col)
    PROVE  LET b == Place(first, second, row, col)
           IN  ShownTo(IF Visible(b) THEN Append(out, b) ELSE out, first, second, row, col + 1)
<1> DEFINE b == Place(first, second, row, col)
           n == Len(out)
<1>0. /\ IsString(out) /\ IsInjective(out)
      /\ n \in Nat /\ DOMAIN out = 1 .. n
      /\ \A i \in DOMAIN out : \E r \in Nat : \E c \in Nat :
            Before(r, c, row, col) /\ out[i] = Place(first, second, r, c) /\ Visible(out[i])
      /\ \A r \in Nat : \A c \in Nat :
            Before(r, c, row, col) /\ Visible(Place(first, second, r, c)) =>
                \E i \in DOMAIN out : out[i] = Place(first, second, r, c)
  BY StringFacts DEF ShownTo
<1>1. \A r \in Nat : \A c \in Nat :
         Before(r, c, row, col + 1) <=> (Before(r, c, row, col) \/ (r = row /\ c = col))
  BY DEF Before
<1>2. CASE ~Visible(b)
  <2>1. \A i \in DOMAIN out : \E r \in Nat : \E c \in Nat :
            Before(r, c, row, col + 1) /\ out[i] = Place(first, second, r, c) /\ Visible(out[i])
    BY <1>0, <1>1
  <2>2. \A r \in Nat : \A c \in Nat :
            Before(r, c, row, col + 1) /\ Visible(Place(first, second, r, c)) =>
                \E i \in DOMAIN out : out[i] = Place(first, second, r, c)
    BY <1>0, <1>1, <1>2
  <2>3. QED
    BY <1>0, <1>2, <2>1, <2>2 DEF ShownTo
<1>3. CASE Visible(b)
  <2> HIDE DEF b, n
  <2> DEFINE w == Append(out, b)
  <2>1. /\ IsString(w) /\ DOMAIN w = 1 .. n + 1 /\ w[n + 1] = b
        /\ \A i \in 1 .. n : w[i] = out[i]
    <3>1. out \in Seq(ToSet(out) \cup {b})
      <4>1. out \in Seq(ToSet(out))
        BY <1>0 DEF IsString
      <4>2. QED
        BY <4>1
    <3>2. /\ w \in Seq(ToSet(out) \cup {b}) /\ DOMAIN w = 1 .. n + 1 /\ w[n + 1] = b
          /\ \A i \in 1 .. n : w[i] = out[i]
      BY <3>1 DEF n
    <3> HIDE DEF w
    <3>3. DOMAIN w = 1 .. Len(w) /\ w = [i \in 1 .. Len(w) |-> w[i]] /\ Len(w) \in Nat
      BY <3>2, SeqIs
    <3>4. IsString(w)
      BY <3>3, StringIs
    <3>5. QED
      BY <3>2, <3>4
  <2> HIDE DEF w
  <2>2. ASSUME NEW i \in DOMAIN out PROVE out[i] # b
    <3>1. PICK r \in Nat : \E c \in Nat :
              Before(r, c, row, col) /\ out[i] = Place(first, second, r, c)
      BY <1>0
    <3>2. PICK c \in Nat : Before(r, c, row, col) /\ out[i] = Place(first, second, r, c)
      BY <3>1
    <3>3. out[i].row = r /\ out[i].col = c /\ b.row = row /\ b.col = col
      BY <3>2 DEF Place, b
    <3>4. ~(r = row /\ c = col)
      BY <3>2 DEF Before
    <3>5. QED
      BY <3>3, <3>4
  <2>3. \A i \in 1 .. n + 1 : i \in 1 .. n \/ i = n + 1
    BY <1>0
  <2>4. n + 1 \in 1 .. n + 1 /\ \A i \in 1 .. n : i \in 1 .. n + 1
    BY <1>0
  <2>5. IsInjective(w)
    <3> SUFFICES ASSUME NEW i \in 1 .. n + 1, NEW k \in 1 .. n + 1, w[i] = w[k] PROVE i = k
      BY <2>1 DEF IsInjective
    <3>1. CASE i \in 1 .. n /\ k \in 1 .. n
      BY <1>0, <2>1, <3>1 DEF IsInjective
    <3>2. CASE i = n + 1 /\ k \in 1 .. n
      BY <1>0, <2>1, <2>2, <3>2
    <3>3. CASE i \in 1 .. n /\ k = n + 1
      BY <1>0, <2>1, <2>2, <3>3
    <3>4. QED
      BY <2>3, <3>1, <3>2, <3>3
  <2>6. \A i \in DOMAIN w : \E r \in Nat : \E c \in Nat :
            Before(r, c, row, col + 1) /\ w[i] = Place(first, second, r, c) /\ Visible(w[i])
    <3> SUFFICES ASSUME NEW i \in 1 .. n + 1
                 PROVE  \E r \in Nat : \E c \in Nat :
                           Before(r, c, row, col + 1) /\ w[i] = Place(first, second, r, c)
                           /\ Visible(w[i])
      BY <2>1
    <3>1. CASE i \in 1 .. n
      <4>1. i \in DOMAIN out /\ w[i] = out[i]
        BY <1>0, <2>1, <3>1
      <4>2. PICK r \in Nat : \E c \in Nat :
                Before(r, c, row, col) /\ out[i] = Place(first, second, r, c) /\ Visible(out[i])
        BY <1>0, <4>1
      <4>3. PICK c \in Nat :
                Before(r, c, row, col) /\ out[i] = Place(first, second, r, c) /\ Visible(out[i])
        BY <4>2
      <4>4. Before(r, c, row, col + 1) /\ w[i] = Place(first, second, r, c) /\ Visible(w[i])
        BY <1>1, <4>1, <4>3
      <4>5. QED
        BY <4>4
    <3>2. CASE i = n + 1
      <4>1. Before(row, col, row, col + 1) /\ w[i] = Place(first, second, row, col) /\ Visible(w[i])
        BY <1>1, <1>3, <2>1, <3>2 DEF b
      <4>2. QED
        BY <4>1
    <3>3. QED
      BY <2>3, <3>1, <3>2
  <2>7. \A r \in Nat : \A c \in Nat :
            Before(r, c, row, col + 1) /\ Visible(Place(first, second, r, c)) =>
                \E i \in DOMAIN w : w[i] = Place(first, second, r, c)
    <3> SUFFICES ASSUME NEW r \in Nat, NEW c \in Nat, Before(r, c, row, col + 1),
                        Visible(Place(first, second, r, c))
                 PROVE  \E i \in 1 .. n + 1 : w[i] = Place(first, second, r, c)
      BY <2>1
    <3>1. CASE Before(r, c, row, col)
      <4>1. PICK i \in 1 .. n : out[i] = Place(first, second, r, c)
        BY <1>0, <3>1
      <4>2. QED
        BY <2>1, <2>4, <4>1
    <3>2. CASE r = row /\ c = col
      <4>1. w[n + 1] = Place(first, second, r, c)
        BY <2>1, <3>2 DEF b
      <4>2. QED
        BY <2>4, <4>1
    <3>3. QED
      BY <1>1, <3>1, <3>2
  <2>8. ShownTo(w, first, second, row, col + 1)
    BY <2>1, <2>5, <2>6, <2>7 DEF ShownTo
  <2>9. QED
    BY <1>3, <2>8 DEF w, b
<1>4. QED
  BY <1>2, <1>3

\* A row is over when nothing is left to show in it.
LEMMA ShownRow ==
    ASSUME NEW first, NEW second, NEW row \in Nat, NEW col \in Nat, NEW out,
           ShownTo(out, first, second, row, col),
           \A c \in Nat : c >= col => ~Visible(Place(first, second, row, c))
    PROVE  ShownTo(out, first, second, row + 1, 0)
<1>1. /\ \A r \in Nat : \A c \in Nat : Before(r, c, row, col) => Before(r, c, row + 1, 0)
      /\ \A r \in Nat : \A c \in Nat :
            Before(r, c, row + 1, 0) => Before(r, c, row, col) \/ (r = row /\ c >= col)
  BY DEF Before
<1>2. \A i \in DOMAIN out : \E r \in Nat : \E c \in Nat :
         Before(r, c, row + 1, 0) /\ out[i] = Place(first, second, r, c) /\ Visible(out[i])
  BY <1>1 DEF ShownTo
<1>3. \A r \in Nat : \A c \in Nat :
         Before(r, c, row + 1, 0) /\ Visible(Place(first, second, r, c)) =>
             \E i \in DOMAIN out : out[i] = Place(first, second, r, c)
  BY <1>1 DEF ShownTo
<1>4. QED
  BY <1>2, <1>3 DEF ShownTo

\* The rows and columns of the two frames, and what FishShows counts as shown in them.
Rows(first, second) == DOMAIN first \cup DOMAIN second
ColsOf(lines) == UNION {DOMAIN lines[r] : r \in DOMAIN lines}
Cols(first, second) == ColsOf(first) \cup ColsOf(second)
Blink(first, second, r, c) == [row |-> r - 1, col |-> c - 1, on |-> FrameChar(first, r, c),
                               off |-> FrameChar(second, r, c)]
Blinks(first, second) ==
    {b \in {Blink(first, second, r, c) : r \in Rows(first, second), c \in Cols(first, second)} :
        Visible(b)}

LEMMA FrameRange ==
    ASSUME NEW text, IsString(text)
    PROVE  /\ \A r \in DOMAIN LinesOf(text) :
                 r \in Nat /\ r >= 1 /\ \A c \in DOMAIN LinesOf(text)[r] : c \in Nat /\ c >= 1
<1> DEFINE lines == LinesOf(text)
<1>1. PICK n \in Nat : \E e : IsMarks(e, n, text)
  BY MarksSome
<1>2. PICK e : IsMarks(e, n, text)
  BY <1>1
<1>3. lines = [k \in 1 .. n |-> LineAt(text, e, k)]
  BY <1>2, MarksGive
<1>4. ASSUME NEW r \in 1 .. n, NEW c \in DOMAIN LineAt(text, e, r) PROVE c \in Nat /\ c >= 1
  <2>1. e[r - 1] \in Nat /\ e[r] \in Nat
    BY <1>2, MarksFacts
  <2>2. PICK i \in Int : i = e[r - 1] + 1
    BY <2>1
  <2>3. PICK j \in Int : j = e[r] - 1
    BY <2>1
  <2>4. SubSeq(text, i, j) = [x \in 1 .. j - i + 1 |-> text[i + x - 1]]
    BY SubSeqIs
  <2>5. DOMAIN LineAt(text, e, r) = 1 .. j - i + 1
    BY <2>2, <2>3, <2>4 DEF LineAt
  <2>6. QED
    BY <2>5
<1> HIDE DEF lines
<1>5. DOMAIN lines = 1 .. n /\ \A r \in 1 .. n : lines[r] = LineAt(text, e, r)
  BY <1>3
<1>6. \A r \in DOMAIN lines :
         r \in Nat /\ r >= 1 /\ \A c \in DOMAIN lines[r] : c \in Nat /\ c >= 1
  BY <1>4, <1>5
<1>7. QED
  BY <1>6 DEF lines

LEMMA ColsAre ==
    ASSUME NEW lines, NEW c
    PROVE  c \in ColsOf(lines) <=> \E r \in DOMAIN lines : c \in DOMAIN lines[r]
BY DEF ColsOf

LEMMA ShownAll ==
    ASSUME NEW t, IsString(t), NEW u, IsString(u), NEW row \in Nat, NEW out,
           ShownTo(out, LinesOf(t), LinesOf(u), row, 0),
           \A r \in Nat : \A c \in Nat :
              r >= row => ~Visible(Place(LinesOf(t), LinesOf(u), r, c))
    PROVE  ToSet(out) = Blinks(LinesOf(t), LinesOf(u)) /\ IsInjective(out)
<1> DEFINE first == LinesOf(t)
           second == LinesOf(u)
           rows == Rows(first, second)
           cols == Cols(first, second)
<1>1. /\ \A r \in DOMAIN first :
            r \in Nat /\ r >= 1 /\ \A c \in DOMAIN first[r] : c \in Nat /\ c >= 1
      /\ \A r \in DOMAIN second :
            r \in Nat /\ r >= 1 /\ \A c \in DOMAIN second[r] : c \in Nat /\ c >= 1
  BY FrameRange
<1> HIDE DEF first, second
<1>c. /\ \A r : r \in rows <=> r \in DOMAIN first \/ r \in DOMAIN second
      /\ \A c : c \in cols <=> (\E r \in DOMAIN first : c \in DOMAIN first[r]) \/
                               (\E r \in DOMAIN second : c \in DOMAIN second[r])
  BY ColsAre DEF Rows, Cols
<1> HIDE DEF rows, cols
<1>2. (\A r \in rows : r \in Nat /\ r >= 1) /\ \A c \in cols : c \in Nat /\ c >= 1
  <2>1. \A r \in rows : r \in Nat /\ r >= 1
    BY <1>1, <1>c
  <2>2. ASSUME NEW c \in cols PROVE c \in Nat /\ c >= 1
    <3>1. (\E r \in DOMAIN first : c \in DOMAIN first[r]) \/
          (\E r \in DOMAIN second : c \in DOMAIN second[r])
      BY <1>c, Zenon
    <3>2. CASE \E r \in DOMAIN first : c \in DOMAIN first[r]
      <4>1. PICK r \in DOMAIN first : c \in DOMAIN first[r]
        BY <3>2
      <4>2. QED
        BY <1>1, <4>1
    <3>3. CASE \E r \in DOMAIN second : c \in DOMAIN second[r]
      <4>1. PICK r \in DOMAIN second : c \in DOMAIN second[r]
        BY <3>3
      <4>2. QED
        BY <1>1, <4>1
    <3>4. QED
      BY <3>1, <3>2, <3>3
  <2>3. QED
    BY <2>1, <2>2
<1>3. ASSUME NEW r \in Nat, NEW c \in Nat, Visible(Place(first, second, r, c))
      PROVE  r + 1 \in rows /\ c + 1 \in cols
  <2> DEFINE j == r + 1
             m == c + 1
  <2> HIDE DEF j, m
  <2>1. FrameChar(first, j, m) # SPACE \/ FrameChar(second, j, m) # SPACE
    BY <1>3 DEF Visible, Place, j, m
  <2>2. CASE FrameChar(first, j, m) # SPACE
    <3>1. j \in DOMAIN first /\ m \in DOMAIN first[j]
      BY <2>2 DEF FrameChar
    <3>2. j \in rows /\ m \in cols
      BY <1>c, <3>1, Zenon
    <3>3. QED
      BY <3>2 DEF j, m
  <2>3. CASE FrameChar(second, j, m) # SPACE
    <3>1. j \in DOMAIN second /\ m \in DOMAIN second[j]
      BY <2>3 DEF FrameChar
    <3>2. j \in rows /\ m \in cols
      BY <1>c, <3>1, Zenon
    <3>3. QED
      BY <3>2 DEF j, m
  <2>4. QED
    BY <2>1, <2>2, <2>3
<1>4. \A b : b \in Blinks(first, second) <=>
         \E r \in rows : \E c \in cols : b = Blink(first, second, r, c) /\ Visible(b)
  BY DEF Blinks, rows, cols
<1>5. ToSet(out) = {out[i] : i \in DOMAIN out}
  BY DEF ToSet
<1>6. ASSUME NEW i \in DOMAIN out PROVE out[i] \in Blinks(first, second)
  <2>1. PICK r \in Nat : \E c \in Nat : out[i] = Place(first, second, r, c) /\ Visible(out[i])
    BY DEF ShownTo, first, second
  <2>2. PICK c \in Nat : out[i] = Place(first, second, r, c) /\ Visible(out[i])
    BY <2>1
  <2>3. r + 1 \in rows /\ c + 1 \in cols
    BY <1>3, <2>2
  <2>4. Place(first, second, r, c) = Blink(first, second, r + 1, c + 1)
    <3>1. (r + 1) - 1 = r /\ (c + 1) - 1 = c
      OBVIOUS
    <3>2. QED
      BY <3>1 DEF Place, Blink
  <2>5. QED
    BY <1>4, <2>2, <2>3, <2>4
<1>7. ASSUME NEW b \in Blinks(first, second) PROVE \E i \in DOMAIN out : out[i] = b
  <2>0. PICK r \in rows : \E c \in cols : b = Blink(first, second, r, c) /\ Visible(b)
    BY <1>4
  <2>1. PICK c \in cols : b = Blink(first, second, r, c) /\ Visible(b)
    BY <2>0
  <2>2. r \in Nat /\ r >= 1 /\ c \in Nat /\ c >= 1
    BY <1>2
  <2>3. PICK x \in Nat : r = x + 1
    <3>1. r - 1 \in Nat /\ r = (r - 1) + 1
      BY <2>2
    <3>2. QED
      BY <3>1
  <2>4. PICK y \in Nat : c = y + 1
    <3>1. c - 1 \in Nat /\ c = (c - 1) + 1
      BY <2>2
    <3>2. QED
      BY <3>1
  <2>5. b = Place(first, second, x, y)
    <3>1. r - 1 = x /\ c - 1 = y
      BY <2>3, <2>4
    <3>2. Blink(first, second, r, c) = Place(first, second, x, y)
      BY <2>3, <2>4, <3>1 DEF Place, Blink
    <3>3. QED
      BY <2>1, <3>2
  <2>6. Visible(Place(first, second, x, y))
    BY <2>1, <2>5
  <2>7. x < row
    BY <2>6 DEF first, second
  <2>8. Before(x, y, row, 0)
    BY <2>7 DEF Before
  <2>9. QED
    BY <2>5, <2>6, <2>8 DEF ShownTo, first, second
<1>8. ToSet(out) = Blinks(first, second)
  BY <1>5, <1>6, <1>7
<1>9. QED
  BY <1>8 DEF ShownTo, first, second

-----------------------------------------------------------------------------
(***************************************************************************)
(* fish: the frames it reads.                                              *)
(***************************************************************************)
\* How many lines a text has and where they end.
LineCount(text) == CHOOSE n \in Nat : \E e : IsMarks(e, n, text)
LineEnds(text) == CHOOSE e : IsMarks(e, LineCount(text), text)

LEMMA TextMarked ==
    ASSUME NEW text, IsString(text)
    PROVE  LineCount(text) \in Nat /\ IsMarks(LineEnds(text), LineCount(text), text)
<1>1. \E n \in Nat : \E e : IsMarks(e, n, text)
  BY MarksSome
<1>2. LineCount(text) \in Nat /\ \E e : IsMarks(e, LineCount(text), text)
  BY <1>1 DEF LineCount
<1>3. QED
  BY <1>2 DEF LineEnds

\* The file of a frame, its length and its text.
FrameInode(k) == NewFile(Frames[k]).inode
FrameLen(k) == Inodes[FrameInode(k)].length
FrameText(k) == InFile(FrameInode(k))
\* A descriptor is at a place of a frame, and what is before it is not bad.
FrameHeld(k, f) == \E pos \in 0 .. FrameLen(k) :
                      /\ f = At_(NewFile(Frames[k]), pos)
                      /\ \A i \in 1 .. pos : ~Bad(ByteAt(FrameInode(k), i - 1))

LEMMA FrameFacts ==
    ASSUME NEW k \in {1, 2}
    PROVE  /\ IsString(Frames[k]) /\ Found(Frames[k])
           /\ NewFile(Frames[k]).file_type = "file" /\ NewFile(Frames[k]).file_pos = 0
           /\ FrameInode(k) \in Disk /\ FrameLen(k) \in Nat
           /\ IsString(FrameText(k)) /\ Len(FrameText(k)) = FrameLen(k)
           /\ FrameText(k) = Text(Run(FrameInode(k), 0, FrameLen(k)))
           /\ LinesIn(Lookup(Frames[k])) = LinesOf(FrameText(k))
<1> DEFINE d == Dentries[Lookup(Frames[k])]
           f == NewFile(Frames[k])
           inode == FrameInode(k)
           n == FrameLen(k)
<1>1. IsString(Frames[k]) /\ Found(Frames[k]) /\ d.file_type = "file"
  BY FramesAssumption
<1>2. f.file_type = "file" /\ f.file_pos = 0 /\ f.inode = d.inode
  BY <1>1, FoundNames
<1>3. OpenFile(f)
  BY <1>1, NewFileOK
<1>4. inode \in Disk
  BY <1>2, <1>3 DEF OpenFile, FrameInode
<1>5. n \in Nat
  BY <1>4, InodeTypes DEF FrameLen
<1>6. Bytes[inode] = Run(inode, 0, n)
  BY <1>4, BytesAreRun DEF FrameLen
<1>7. FrameText(k) = Text(Run(inode, 0, n))
  BY <1>6 DEF FrameText, InFile
<1>8. IsString(FrameText(k)) /\ Len(FrameText(k)) = n
  BY <1>5, <1>7, TextRuns
<1>9. LinesIn(Lookup(Frames[k])) = LinesOf(FrameText(k))
  BY <1>1, <1>2 DEF LinesIn, FrameText, FrameInode
<1>10. QED
  BY <1>1, <1>2, <1>4, <1>5, <1>7, <1>8, <1>9

LEMMA FrameBytes ==
    ASSUME NEW k \in {1, 2}, NEW pos \in Nat, pos < FrameLen(k)
    PROVE  Text(Run(FrameInode(k), pos, 1))[1] = FrameText(k)[pos + 1]
<1> DEFINE inode == FrameInode(k)
           n == FrameLen(k)
           r == Run(inode, 0, n)
           s == Run(inode, pos, 1)
<1>1. n \in Nat /\ FrameText(k) = Text(r)
  BY FrameFacts
<1>2. DOMAIN r = 1 .. n /\ r[pos + 1] = ByteAt(inode, pos)
  <2>1. pos + 1 \in 1 .. n /\ 0 + (pos + 1) - 1 = pos
    BY <1>1
  <2>2. QED
    BY <2>1 DEF Run
<1>3. DOMAIN s = 1 .. 1 /\ s[1] = ByteAt(inode, pos)
  BY DEF Run
<1>4. pos + 1 \in 1 .. n /\ 1 \in 1 .. 1
  BY <1>1
<1> HIDE DEF r, s, n
<1>5. QED
  BY <1>1, <1>2, <1>3, <1>4 DEF Text, s

\* A byte of a frame is read, or its end is met, or a block that is bad.
LEMMA FrameByteRead ==
    ASSUME KernelOK, NEW k \in {1, 2}, NEW fd, Holding(fd), FrameHeld(k, fd_array[fd]),
           Reading(fd, 1)
    PROVE  /\ KernelOK' /\ table' = table /\ FrameHeld(k, fd_array'[fd])
           /\ \A g \in Fds : g # fd => fd_array'[g] = fd_array[g]
           /\ LET pos == fd_array[fd].file_pos
              IN  \/ result'.ret = -1 /\ HasBad(FrameInode(k))
                  \/ /\ result'.ret = 0 /\ pos = FrameLen(k) /\ ~HasBad(FrameInode(k))
                     /\ fd_array'[fd].file_pos = pos
                  \/ /\ result'.ret = 1 /\ pos \in Nat /\ pos # FrameLen(k)
                     /\ Text(result'.bytes)[1] = FrameText(k)[pos + 1]
                     /\ fd_array'[fd].file_pos = pos + 1
<1> DEFINE f == fd_array[fd]
           n == FrameLen(k)
           new == NewFile(Frames[k])
           left == Inodes[f.inode].length - f.file_pos
<1>1. PICK pos \in 0 .. n : /\ f = At_(new, pos)
                            /\ \A i \in 1 .. pos : ~Bad(ByteAt(FrameInode(k), i - 1))
  BY DEF FrameHeld
<1>2. /\ f.file_type = "file" /\ f.file_pos = pos /\ f.inode = FrameInode(k)
      /\ pos \in Nat /\ n \in Nat /\ left = n - pos /\ left \in Nat
  BY <1>1, FrameFacts DEF At_, FrameInode, FrameLen
<1>3. KernelOK' /\ FileGives(fd, 1)
  <2>1. 1 \in Asked /\ 1 >= 0
    BY AskedSizes
  <2>2. QED
    BY <1>2, <2>1, HeldReadGives
<1>4. /\ table' = table
      /\ \/ result'.ret = -1 /\ HasBad(f.inode) /\ fd_array' = fd_array
         \/ \E m \in 0 .. left :
               /\ result'.ret = m /\ result'.bytes = Run(f.inode, f.file_pos, m)
               /\ \A i \in 1 .. m : ~Bad(ByteAt(f.inode, f.file_pos + i - 1))
               /\ m = IF 1 < 0 \/ 1 > left THEN left ELSE 1
               /\ fd_array' = [fd_array EXCEPT ![fd] = At_(f, f.file_pos + m)]
  BY <1>3 DEF FileGives
<1>5. DOMAIN fd_array = Fds /\ fd \in Fds
  BY DEF Holding, KernelOK, FdTables
<1>6. CASE result'.ret = -1 /\ HasBad(f.inode) /\ fd_array' = fd_array
  BY <1>2, <1>3, <1>4, <1>6
<1>7. ASSUME NEW m \in 0 .. left, result'.ret = m, result'.bytes = Run(f.inode, f.file_pos, m),
             \A i \in 1 .. m : ~Bad(ByteAt(f.inode, f.file_pos + i - 1)),
             m = IF 1 < 0 \/ 1 > left THEN left ELSE 1,
             fd_array' = [fd_array EXCEPT ![fd] = At_(f, f.file_pos + m)]
      PROVE  /\ FrameHeld(k, fd_array'[fd])
             /\ \A g \in Fds : g # fd => fd_array'[g] = fd_array[g]
             /\ \/ /\ result'.ret = 0 /\ pos = n /\ ~HasBad(FrameInode(k))
                   /\ fd_array'[fd].file_pos = pos
                \/ /\ result'.ret = 1 /\ pos # n
                   /\ Text(result'.bytes)[1] = FrameText(k)[pos + 1]
                   /\ fd_array'[fd].file_pos = pos + 1
  <2>1. fd_array'[fd] = At_(new, pos + m) /\ fd_array'[fd].file_pos = pos + m
    BY <1>1, <1>2, <1>5, <1>7 DEF At_
  <2>2. \A g \in Fds : g # fd => fd_array'[g] = fd_array[g]
    BY <1>5, <1>7
  <2>3. CASE pos = n
    <3>1. left = 0 /\ m = 0 /\ pos + m = pos
      BY <1>2, <1>7, <2>3
    <3>2. \A i \in 1 .. n : ~Bad(ByteAt(FrameInode(k), i - 1))
      BY <1>1, <2>3
    <3>3. ~HasBad(FrameInode(k))
      BY <3>2 DEF HasBad, FrameLen
    <3>4. FrameHeld(k, fd_array'[fd])
      BY <1>1, <2>1, <3>1 DEF FrameHeld
    <3>5. QED
      BY <1>7, <2>1, <2>2, <2>3, <3>1, <3>3, <3>4
  <2>4. CASE pos # n
    <3>1. m = 1 /\ pos + m = pos + 1 /\ pos < n /\ pos + 1 \in 0 .. n
      BY <1>2, <1>7, <2>4
    <3>2. result'.bytes = Run(FrameInode(k), pos, 1)
      BY <1>2, <1>7, <3>1
    <3>3. Text(result'.bytes)[1] = FrameText(k)[pos + 1]
      BY <1>2, <3>1, <3>2, FrameBytes
    <3>4. \A i \in 1 .. pos + 1 : ~Bad(ByteAt(FrameInode(k), i - 1))
      <4>1. ~Bad(ByteAt(FrameInode(k), pos))
        <5>1. 1 \in 1 .. m /\ f.file_pos + 1 - 1 = pos
          BY <1>2, <3>1
        <5>2. QED
          BY <1>2, <1>7, <5>1
      <4>2. \A i \in 1 .. pos + 1 : i \in 1 .. pos \/ i - 1 = pos
        BY <1>2
      <4>3. QED
        BY <1>1, <4>1, <4>2
    <3>5. FrameHeld(k, fd_array'[fd])
      <4>1. fd_array'[fd] = At_(new, pos + 1)
        BY <2>1, <3>1
      <4> DEFINE next == pos + 1
      <4> HIDE DEF next
      <4>2. next \in 0 .. n /\ fd_array'[fd] = At_(new, next)
            /\ \A i \in 1 .. next : ~Bad(ByteAt(FrameInode(k), i - 1))
        BY <3>1, <3>4, <4>1 DEF next
      <4>3. QED
        BY <4>2 DEF FrameHeld
    <3>6. QED
      BY <1>7, <2>1, <2>2, <2>4, <3>1, <3>3, <3>5
  <2>5. QED
    BY <2>3, <2>4
<1>8. CASE \E m \in 0 .. left :
               /\ result'.ret = m /\ result'.bytes = Run(f.inode, f.file_pos, m)
               /\ \A i \in 1 .. m : ~Bad(ByteAt(f.inode, f.file_pos + i - 1))
               /\ m = IF 1 < 0 \/ 1 > left THEN left ELSE 1
               /\ fd_array' = [fd_array EXCEPT ![fd] = At_(f, f.file_pos + m)]
  <2> HIDE DEF left
  <2>1. PICK m \in 0 .. left :
               /\ result'.ret = m /\ result'.bytes = Run(f.inode, f.file_pos, m)
               /\ \A i \in 1 .. m : ~Bad(ByteAt(f.inode, f.file_pos + i - 1))
               /\ m = IF 1 < 0 \/ 1 > left THEN left ELSE 1
               /\ fd_array' = [fd_array EXCEPT ![fd] = At_(f, f.file_pos + m)]
    BY <1>8
  <2>2. /\ FrameHeld(k, fd_array'[fd])
        /\ \A g \in Fds : g # fd => fd_array'[g] = fd_array[g]
        /\ \/ /\ result'.ret = 0 /\ pos = n /\ ~HasBad(FrameInode(k))
              /\ fd_array'[fd].file_pos = pos
           \/ /\ result'.ret = 1 /\ pos # n
              /\ Text(result'.bytes)[1] = FrameText(k)[pos + 1]
              /\ fd_array'[fd].file_pos = pos + 1
    BY <1>7, <2>1
  <2>3. QED
    BY <1>2, <1>3, <1>4, <2>2
<1>9. QED
  BY <1>4, <1>6, <1>8

\* A function of the two frames.
Pair(s) == DOMAIN s = {1, 2} /\ s = [i \in {1, 2} |-> s[i]]

LEMMA Pairs ==
    /\ \A a, b : Pair(<<a, b>>) /\ <<a, b>>[1] = a /\ <<a, b>>[2] = b
    /\ \A s, k, x : Pair(s) /\ k \in {1, 2} =>
          /\ Pair([s EXCEPT ![k] = x])
          /\ [s EXCEPT ![k] = x][k] = x /\ [s EXCEPT ![k] = x][3 - k] = s[3 - k]
    /\ \A s, a, b : Pair(s) => (s = <<a, b>> <=> s[1] = a /\ s[2] = b)
<1>1. ASSUME NEW a, NEW b PROVE Pair(<<a, b>>) /\ <<a, b>>[1] = a /\ <<a, b>>[2] = b
  <2>1. <<a, b>>[1] = a /\ <<a, b>>[2] = b /\ DOMAIN <<a, b>> = {1, 2}
    OBVIOUS
  <2>2. <<a, b>> = [i \in {1, 2} |-> <<a, b>>[i]]
    BY <2>1
  <2>3. QED
    BY <2>1, <2>2 DEF Pair
<1>2. ASSUME NEW s, NEW k \in {1, 2}, NEW x, Pair(s)
      PROVE  /\ Pair([s EXCEPT ![k] = x])
             /\ [s EXCEPT ![k] = x][k] = x /\ [s EXCEPT ![k] = x][3 - k] = s[3 - k]
  <2>1. 3 - k \in {1, 2} /\ 3 - k # k
    OBVIOUS
  <2>2. QED
    BY <1>2, <2>1 DEF Pair
<1>3. ASSUME NEW s, NEW a, NEW b, Pair(s) PROVE s = <<a, b>> <=> s[1] = a /\ s[2] = b
  <2>1. ASSUME s[1] = a, s[2] = b PROVE s = <<a, b>>
    <3> DEFINE t == <<a, b>>
    <3>1. Pair(t) /\ t[1] = a /\ t[2] = b
      BY <1>1
    <3> HIDE DEF t
    <3>2. s = t
      BY <1>3, <2>1, <3>1 DEF Pair
    <3>3. QED
      BY <3>2 DEF t
  <2>2. QED
    BY <1>1, <2>1
<1>4. QED
  BY <1>1, <1>2, <1>3

-----------------------------------------------------------------------------
\* FrameAt, with the frame's own lines.
FrameIs(t, c, eof, pos, j, m) == FrameAt(t, LineEnds(t), LineCount(t), c, eof, pos, j, m)

\* How far fish is with frames none of whose blocks is bad, and what it has shown of them.
FishExact(q, t, u, x, y, out) ==
    LET First(j, m)  == FrameIs(t, q.c[1], q.eof[1], x, j, m)
        Later(j, m) == FrameIs(u, q.c[2], q.eof[2], y, j, m)
        To(row, col) == ShownTo(out, LinesOf(t), LinesOf(u), row, col)
    IN  /\ q.at = "read" => /\ First(q.row + 1, IF q.k = 1 THEN q.col ELSE q.col + 1)
                            /\ Later(q.row + 1, q.col) /\ To(q.row, q.col)
        /\ q.at = "show" => /\ First(q.row + 1, q.col + 1) /\ Later(q.row + 1, q.col + 1)
                            /\ To(q.row, q.col)
        /\ q.at = "row"  => /\ IF q.k = 1 THEN First(q.row + 1, q.col + 1) /\ q.c[1] = NEWLINE
                               ELSE First(q.row + 2, 0)
                            /\ Later(q.row + 1, q.col + 1) /\ q.c[2] = NEWLINE
                            /\ To(q.row + 1, 0)
        /\ q.at = "ended" => /\ q.eof[1] = TRUE /\ q.eof[2] = TRUE
                             /\ First(q.row + 2, 0) /\ Later(q.row + 2, 0) /\ To(q.row + 1, 0)

\* Both frames can be read to their ends.
NoneBad == ~HasBad(FrameInode(1)) /\ ~HasBad(FrameInode(2))

\* Before both frames are open.
FishOpens ==
    /\ p.eof[1] = FALSE /\ p.eof[2] = FALSE /\ p.c[1] = lookup[1] /\ p.c[2] = lookup[1]
    /\ p.row = 0 /\ p.col = 0 /\ output = << >>
    /\ p.k = 1 => table = FreshTable
    /\ p.k = 2 => /\ table = AfterOpen(FreshTable, 2) /\ p.fd[1] = 2
                  /\ fd_array[2] = NewFile(Frames[1])

\* A frame is open as long as it has not been read to its end.
FishHolds ==
    /\ p.fd[1] \in Fds /\ p.fd[2] \in Fds /\ p.fd[1] # p.fd[2]
    /\ \A k \in {1, 2} : IF p.eof[k] THEN p.c[k] = NEWLINE /\ ~HasBad(FrameInode(k))
                         ELSE Holding(p.fd[k]) /\ FrameHeld(k, fd_array[p.fd[k]])
    /\ p.at = "show" => p.k = 1
    /\ p.at = "ended" => p.eof[1] /\ p.eof[2]

\* FishExact for the state as it is.
FishExactly == FishExact(p, FrameText(1), FrameText(2), fd_array[p.fd[1]].file_pos,
                         fd_array[p.fd[2]].file_pos, output)

\* Types of fish's variables that FishOK leaves open.
FishTypes(q) == /\ q.row \in Nat /\ q.col \in Nat /\ Pair(q.fd) /\ Pair(q.c) /\ Pair(q.eof)
                /\ q.eof[1] \in BOOLEAN /\ q.eof[2] \in BOOLEAN

\* Of frames that can be read, fish has shown what comes before the place where it is.
FishShown ==
    /\ FishTypes(p)
    /\ IF p.at = "open" THEN FishOpens ELSE FishHolds /\ (NoneBad => FishExactly)

\* What does not change while the letters do not.
LEMMA FramesStay ==
    ASSUME letters' = letters
    PROVE  /\ \A k : FrameText(k)' = FrameText(k)
           /\ \A k, f : FrameHeld(k, f)' <=> FrameHeld(k, f)
           /\ \A k : HasBad(FrameInode(k))' <=> HasBad(FrameInode(k))
           /\ \A q, t, u, x, y, out : FishExact(q, t, u, x, y, out)' <=> FishExact(q, t, u, x, y, out)
<1>1. \A k : FrameText(k)' = FrameText(k)
  BY DEF FrameText, InFile, Text, Bytes, ByteAt, FrameInode, NewFile, Lookup, Matches
<1>2. \A k, f : FrameHeld(k, f)' <=> FrameHeld(k, f)
  BY DEF FrameHeld, FrameLen, FrameInode, NewFile, Lookup, Matches, Bad, ByteAt
<1>3. \A k : HasBad(FrameInode(k))' <=> HasBad(FrameInode(k))
  BY DEF HasBad, FrameInode, NewFile, Lookup, Matches, Bad, ByteAt
<1>4. /\ \A t, c, eof, pos, j, m :
            FrameIs(t, c, eof, pos, j, m)' <=> FrameIs(t, c, eof, pos, j, m)
      /\ \A t : LinesOf(t)' = LinesOf(t)
  BY DEF FrameIs, FrameAt, LineEnds, LineCount, IsMarks, EndsIn, LinesOf
<1>5. \A out, first, second, row, col :
         ShownTo(out, first, second, row, col)' <=> ShownTo(out, first, second, row, col)
  BY DEF ShownTo, Before, Place, Visible, FrameChar, IsString, IsInjective, ToSet
<1>6. ASSUME NEW q, NEW t, NEW u, NEW x, NEW y, NEW out
      PROVE  FishExact(q, t, u, x, y, out)' <=> FishExact(q, t, u, x, y, out)
  BY <1>4, <1>5 DEF FishExact
<1>7. QED
  BY <1>1, <1>2, <1>3, <1>6

\* The variables of fish, as an action leaves them.
FishIs(q, at, k, fd, c, eof, row, col) ==
    /\ q.at = at /\ q.k = k /\ q.fd = fd /\ q.c = c /\ q.eof = eof /\ q.row = row /\ q.col = col

LEMMA FishSets ==
    ASSUME NEW q, FishShape(q)
    PROVE  /\ FishIs(q, q.at, q.k, q.fd, q.c, q.eof, q.row, q.col) /\ q.k \in {1, 2}
           /\ \A x \in FishAts : LET r == [q EXCEPT !.at = x]
                                 IN  FishShape(r) /\ FishIs(r, x, q.k, q.fd, q.c, q.eof, q.row, q.col)
           /\ \A x : LET r == [q EXCEPT !.fd = x]
                     IN  FishShape(r) /\ FishIs(r, q.at, q.k, x, q.c, q.eof, q.row, q.col)
           /\ \A x : LET r == [q EXCEPT !.c = x]
                     IN  FishShape(r) /\ FishIs(r, q.at, q.k, q.fd, x, q.eof, q.row, q.col)
           /\ \A x : LET r == [q EXCEPT !.eof = x]
                     IN  FishShape(r) /\ FishIs(r, q.at, q.k, q.fd, q.c, x, q.row, q.col)
           /\ \A x : LET r == [q EXCEPT !.row = x]
                     IN  FishShape(r) /\ FishIs(r, q.at, q.k, q.fd, q.c, q.eof, x, q.col)
           /\ \A x : LET r == [q EXCEPT !.col = x]
                     IN  FishShape(r) /\ FishIs(r, q.at, q.k, q.fd, q.c, q.eof, q.row, x)
BY DEF FishShape, FishIs

LEMMA SecondIs ==
    ASSUME FishShape(p), NEW at \in FishAts, NEW next \in FishAts
    PROVE  /\ FishShape(Second(at, next))
           /\ FishIs(Second(at, next), IF p.k = 1 THEN at ELSE next, 3 - p.k, p.fd, p.c, p.eof,
                     p.row, p.col)
<1> DEFINE k == 3 - p.k
           go == IF p.k = 1 THEN at ELSE next
           q == [p EXCEPT !.k = k]
<1>1. Second(at, next) = [q EXCEPT !.at = go]
  BY DEF Second, FishShape
<1>2. p.k \in {1, 2}
  BY DEF FishShape
<1>3. k \in {1, 2} /\ go \in FishAts
  BY <1>2
<1> HIDE DEF k, go
<1>4. FishShape(q) /\ FishIs(q, p.at, k, p.fd, p.c, p.eof, p.row, p.col)
  BY <1>3 DEF FishShape, FishIs
<1> HIDE DEF q
<1>5. FishShape([q EXCEPT !.at = go])
      /\ FishIs([q EXCEPT !.at = go], go, q.k, q.fd, q.c, q.eof, q.row, q.col)
  BY <1>3, <1>4, FishSets
<1>6. QED
  BY <1>1, <1>4, <1>5 DEF FishIs, k, go

\* What an action that does not open anything has to leave.
LEMMA FishNow ==
    ASSUME letters' = letters, FishTypes(p'), p'.at # "open",
           p'.fd[1] \in Fds, p'.fd[2] \in Fds, p'.fd[1] # p'.fd[2],
           \A k \in {1, 2} : IF p'.eof[k] THEN p'.c[k] = NEWLINE /\ ~HasBad(FrameInode(k))
                             ELSE /\ p'.fd[k] \in table'.spaces \ Stdio
                                  /\ FrameHeld(k, fd_array'[p'.fd[k]]),
           p'.at = "show" => p'.k = 1, p'.at = "ended" => p'.eof[1] /\ p'.eof[2],
           NoneBad => FishExact(p', FrameText(1), FrameText(2), fd_array'[p'.fd[1]].file_pos,
                                fd_array'[p'.fd[2]].file_pos, output')
    PROVE  FishShown'
<1>1. FishHolds'
  BY FramesStay DEF FishHolds, Holding, Fds
<1>2. (NoneBad => FishExactly)'
  BY FramesStay DEF NoneBad, FishExactly
<1>3. FishTypes(p)'
  BY DEF FishTypes, Pair
<1>4. QED
  BY <1>1, <1>2, <1>3 DEF FishShown

-----------------------------------------------------------------------------
LEMMA FrameOpens ==
    ASSUME NEW k \in {1, 2}
    PROVE  /\ FrameHeld(k, NewFile(Frames[k])) /\ NewFile(Frames[k]).file_pos = 0
           /\ FrameIs(FrameText(k), lookup[1], FALSE, 0, 1, 0)
<1>1. /\ NewFile(Frames[k]).file_pos = 0 /\ FrameLen(k) \in Nat /\ IsString(FrameText(k))
  BY FrameFacts
<1>2. NewFile(Frames[k]) = At_(NewFile(Frames[k]), 0)
  BY <1>1 DEF At_, NewFile, File
<1>3. 0 \in 0 .. FrameLen(k)
  BY <1>1
<1>4. FrameHeld(k, NewFile(Frames[k]))
  BY <1>2, <1>3 DEF FrameHeld
<1>5. FrameIs(FrameText(k), lookup[1], FALSE, 0, 1, 0)
  BY <1>1, TextMarked, FrameStarts DEF FrameIs
<1>6. QED
  BY <1>1, <1>4, <1>5

LEMMA FramesOpen ==
    ASSUME FishOpens, p.k \in {1, 2}
    PROVE  ~OpenFails(table) /\ (p.k = 1 => FirstFree(table, 2) /\ \A fd : FirstFree(table, fd) => fd = 2)
<1>1. FD_ARRAY_SIZE > 3 /\ FD_ARRAY_SIZE \in Nat
  BY FramesAssumption, FdAssumption
<1>2. CASE p.k = 1
  <2>1. table = FreshTable
    BY <1>2 DEF FishOpens
  <2>2. FreeSlots(table) = 2 .. FD_ARRAY_SIZE - 1
    BY <2>1 DEF FreeSlots, FreshTable, Stdio
  <2>3. 2 \in FreeSlots(table) /\ \A i \in FreeSlots(table) : 2 <= i /\ i \in Int
    BY <1>1, <2>2
  <2>4. FirstFree(table, 2) /\ \A fd : FirstFree(table, fd) => fd = 2
    BY <2>3 DEF FirstFree
  <2>5. QED
    BY <2>1, <2>4, FreshOpens
<1>3. CASE p.k = 2
  <2>1. ~table.full /\ table.spaces = Stdio \cup {2}
    <3>1. table = AfterOpen(FreshTable, 2)
      BY <1>3 DEF FishOpens
    <3>2. 2 # FD_ARRAY_SIZE - 1
      BY <1>1
    <3>3. FreshTable.spaces = Stdio /\ FreshTable.full = FALSE
      BY DEF FreshTable
    <3>4. table.spaces = Stdio \cup {2} /\ table.full = (FreshTable.full \/ 2 = FD_ARRAY_SIZE - 1)
      BY <3>1, <3>3 DEF AfterOpen
    <3>5. QED
      BY <3>2, <3>3, <3>4
  <2>2. 3 \in FreeSlots(table)
    BY <1>1, <2>1 DEF FreeSlots, Stdio
  <2>3. QED
    BY <1>3, <2>1, <2>2 DEF OpenFails
<1>4. QED
  BY <1>2, <1>3

LEMMA FishOpensFrames ==
    ASSUME KernelOK, FishOK, FishShown, FishOpen
    PROVE  FishShown'
<1> DEFINE k == p.k
           new == result'.ret
           fds == [p.fd EXCEPT ![k] = new]
<1>0. /\ FishShape(p) /\ k \in {1, 2} /\ p.at = "open" /\ FishOpens /\ FishTypes(p)
      /\ letters' = letters /\ output' = output
  BY FishShapes, FishSets DEF FishOpen, At, FishShown, Silent
<1>1. IsString(Frames[k]) /\ Found(Frames[k])
  BY <1>0, FrameFacts
<1>2. Open(Frames[k])
  <2>1. ~OpenFails(table)
    BY <1>0, FramesOpen
  <2>2. Open(Frames[k]) \/ OpenFailing(Frames[k])
    BY <1>1, Callings DEF FishOpen
  <2>3. QED
    BY <1>1, <2>1, <2>2 DEF OpenFailing
<1>3. /\ new \in Nat /\ new \in table'.spaces \ Stdio /\ new \notin table.spaces
      /\ fd_array'[new] = NewFile(Frames[k])
      /\ \A fd \in table.spaces \ Stdio : fd \in table'.spaces \ Stdio /\ fd_array'[fd] = fd_array[fd]
  BY <1>1, <1>2, OpenHolds, OpenStep
<1>4. FishIs(p', IF k = 1 THEN "open" ELSE "read", 3 - k, fds, p.c, p.eof, p.row, p.col)
  <2> DEFINE q == Second("open", "read")
             fd2 == [q.fd EXCEPT ![k] = new]
  <2>1. p' = [q EXCEPT !.fd = fd2]
    BY <1>3 DEF FishOpen
  <2>2. FishShape(q) /\ FishIs(q, IF k = 1 THEN "open" ELSE "read", 3 - k, p.fd, p.c, p.eof, p.row, p.col)
    BY <1>0, SecondIs DEF FishAts
  <2>3. fd2 = fds
    BY <2>2 DEF FishIs
  <2> HIDE DEF q, fd2, fds
  <2>4. FishIs(p', q.at, q.k, fds, q.c, q.eof, q.row, q.col)
    BY <2>1, <2>2, <2>3, FishSets
  <2>5. QED
    BY <2>2, <2>4 DEF FishIs
<1>5. Pair(fds) /\ fds[k] = new /\ fds[3 - k] = p.fd[3 - k]
  <2>1. PICK s : s = p.fd
    OBVIOUS
  <2>2. Pair(s)
    BY <1>0, <2>1 DEF FishTypes
  <2> DEFINE x == new
  <2> HIDE DEF x
  <2>3. Pair([s EXCEPT ![k] = x]) /\ [s EXCEPT ![k] = x][k] = x /\ [s EXCEPT ![k] = x][3 - k] = s[3 - k]
    BY <1>0, <2>2, Pairs
  <2>4. QED
    BY <2>1, <2>3 DEF x
<1> HIDE DEF fds
<1>6. FishTypes(p')
  BY <1>0, <1>4, <1>5 DEF FishTypes, FishIs
<1>7. CASE k = 1
  <2>1. PICK fd : FirstFree(table, fd) /\ table' = AfterOpen(table, fd) /\ result' = Returned(fd)
    BY <1>2 DEF Open
  <2>2. fd = 2 /\ new = 2
    BY <1>0, <1>7, <2>1, FramesOpen DEF Returned
  <2>3. table' = AfterOpen(FreshTable, 2)
    BY <1>0, <1>7, <2>1, <2>2 DEF FishOpens
  <2>4. /\ p'.at = "open" /\ p'.k = 2 /\ p'.fd[1] = 2 /\ fd_array'[2] = NewFile(Frames[1])
        /\ p'.c = p.c /\ p'.eof = p.eof /\ p'.row = p.row /\ p'.col = p.col
    BY <1>3, <1>4, <1>5, <1>7, <2>2 DEF FishIs
  <2>5. FishOpens'
    BY <1>0, <2>3, <2>4 DEF FishOpens, NewFile, Lookup, Matches, AfterOpen, FreshTable
  <2>6. FishTypes(p)'
    BY <1>6 DEF FishTypes, Pair
  <2>7. QED
    BY <2>4, <2>5, <2>6 DEF FishShown
<1>8. CASE k = 2
  <2>1. /\ p'.at = "read" /\ p'.k = 1 /\ p'.fd = fds
        /\ p'.c = p.c /\ p'.eof = p.eof /\ p'.row = 0 /\ p'.col = 0
    BY <1>0, <1>4, <1>8 DEF FishIs, FishOpens
  <2>2. p'.fd[1] = 2 /\ p'.fd[2] = new
    BY <1>0, <1>5, <1>8, <2>1 DEF FishOpens
  <2>3. 2 \in table.spaces \ Stdio /\ fd_array[2] = NewFile(Frames[1])
    BY <1>0, <1>8 DEF FishOpens, AfterOpen, FreshTable, Stdio
  <2>4. /\ 2 \in table'.spaces \ Stdio /\ fd_array'[2] = NewFile(Frames[1])
        /\ new \in table'.spaces \ Stdio /\ fd_array'[new] = NewFile(Frames[2]) /\ new # 2
        /\ 2 \in Fds /\ new \in Fds
    BY <1>1, <1>2, <1>3, <1>8, <2>3, OpenStep DEF KernelOK, FdTables
  <2>5. /\ p'.c[1] = lookup[1] /\ p'.c[2] = lookup[1]
        /\ p'.eof[1] = FALSE /\ p'.eof[2] = FALSE
    BY <1>0, <2>1 DEF FishOpens
  <2>6. /\ FrameHeld(1, fd_array'[p'.fd[1]]) /\ FrameHeld(2, fd_array'[p'.fd[2]])
        /\ fd_array'[p'.fd[1]].file_pos = 0 /\ fd_array'[p'.fd[2]].file_pos = 0
    BY <2>2, <2>4, FrameOpens
  <2>7. \A j \in {1, 2} : /\ p'.eof[j] = FALSE /\ p'.fd[j] \in table'.spaces \ Stdio
                          /\ FrameHeld(j, fd_array'[p'.fd[j]])
    BY <2>2, <2>4, <2>5, <2>6
  <2>8. FishExact(p', FrameText(1), FrameText(2), 0, 0, output')
    <3>1. ShownTo(output', LinesOf(FrameText(1)), LinesOf(FrameText(2)), 0, 0)
      BY <1>0, ShownFirst DEF FishOpens
    <3>2. FrameIs(FrameText(1), lookup[1], FALSE, 0, 1, 0) /\ FrameIs(FrameText(2), lookup[1], FALSE, 0, 1, 0)
      BY FrameOpens
    <3>3. 0 + 1 = 1
      OBVIOUS
    <3>4. QED
      BY <2>1, <2>5, <3>1, <3>2, <3>3 DEF FishExact
  <2>9. QED
    BY <1>0, <1>6, <2>1, <2>2, <2>4, <2>6, <2>7, <2>8, FishNow
<1>9. QED
  BY <1>0, <1>7, <1>8

\* A column on, where the frame has one, and where its line is over.
LEMMA FrameNext ==
    ASSUME NEW t, IsString(t), NEW j \in Nat, j >= 1, NEW m \in Nat, NEW c, NEW eof, NEW pos,
           FrameIs(t, c, eof, pos, j, m), NEW c2, NEW eof2, NEW pos2,
           \/ c = NEWLINE /\ c2 = NEWLINE /\ eof2 = eof /\ pos2 = pos
           \/ c # NEWLINE /\ pos = Len(t) /\ c2 = NEWLINE /\ eof2 = TRUE /\ pos2 = pos
           \/ c # NEWLINE /\ pos # Len(t) /\ c2 = t[pos + 1] /\ eof2 = FALSE /\ pos2 = pos + 1
    PROVE  FrameIs(t, c2, eof2, pos2, j, m + 1)
<1> DEFINE e == LineEnds(t)
           n == LineCount(t)
<1>1. n \in Nat /\ IsMarks(e, n, t)
  BY TextMarked
<1>2. FrameAt(t, e, n, c, eof, pos, j, m)
  BY DEF FrameIs
<1> HIDE DEF e, n
<1>3. /\ c = NEWLINE => FrameAt(t, e, n, c, eof, pos, j, m + 1)
      /\ c # NEWLINE /\ pos = Len(t) => FrameAt(t, e, n, NEWLINE, TRUE, pos, j, m + 1)
      /\ c # NEWLINE /\ pos # Len(t) => FrameAt(t, e, n, t[pos + 1], FALSE, pos + 1, j, m + 1)
  BY <1>1, <1>2, FrameReads
<1>4. FrameAt(t, e, n, c2, eof2, pos2, j, m + 1)
  BY <1>3
<1>5. QED
  BY <1>4 DEF FrameIs, e, n

\* What reading does to one frame, and leaves of the other.
LEMMA FishReadsOne ==
    ASSUME KernelOK, FishOK, FishShown, FishRead
    PROVE  LET k == p.k
               o == 3 - p.k
               pos == fd_array[p.fd[k]].file_pos
               c2 == p'.c[k]
               eof2 == p'.eof[k]
               pos2 == fd_array'[p'.fd[k]].file_pos
           IN  /\ p'.at = (IF k = 1 THEN "read" ELSE "show") /\ p'.k = o /\ p'.fd = p.fd
               /\ p'.row = p.row /\ p'.col = p.col /\ Pair(p'.c) /\ Pair(p'.eof)
               /\ p'.c[o] = p.c[o] /\ p'.eof[o] = p.eof[o] /\ eof2 \in BOOLEAN
               /\ table' = table /\ fd_array'[p.fd[o]] = fd_array[p.fd[o]]
               /\ IF eof2 THEN c2 = NEWLINE /\ ~HasBad(FrameInode(k))
                  ELSE Holding(p.fd[k]) /\ FrameHeld(k, fd_array'[p.fd[k]])
               /\ NoneBad =>
                     \/ p.c[k] = NEWLINE /\ c2 = NEWLINE /\ eof2 = p.eof[k] /\ pos2 = pos
                     \/ /\ p.c[k] # NEWLINE /\ pos = Len(FrameText(k))
                        /\ c2 = NEWLINE /\ eof2 = TRUE /\ pos2 = pos
                     \/ /\ p.c[k] # NEWLINE /\ pos # Len(FrameText(k))
                        /\ c2 = FrameText(k)[pos + 1] /\ eof2 = FALSE /\ pos2 = pos + 1
<1> DEFINE k == p.k
           o == 3 - p.k
           fd == p.fd[k]
           pos == fd_array[fd].file_pos
           q == Second("read", "show")
           at == IF k = 1 THEN "read" ELSE "show"
<1>0. /\ FishShape(p) /\ k \in {1, 2} /\ o \in {1, 2} /\ k # o
      /\ p.at = "read" /\ FishHolds /\ FishTypes(p)
  <2>1. FishShape(p) /\ k \in {1, 2}
    BY FishShapes, FishSets
  <2>2. QED
    BY <2>1 DEF FishRead, At, FishShown
<1>1. FishShape(q) /\ FishIs(q, at, o, p.fd, p.c, p.eof, p.row, p.col)
  BY <1>0, SecondIs DEF FishAts
<1>2. /\ p.fd[k] # p.fd[o] /\ p.fd[o] \in Fds /\ p.eof[k] \in BOOLEAN
      /\ IF p.eof[k] THEN p.c[k] = NEWLINE /\ ~HasBad(FrameInode(k))
         ELSE Holding(fd) /\ FrameHeld(k, fd_array[fd])
  BY <1>0 DEF FishHolds, FishTypes
<1>3. Pair(p.c) /\ Pair(p.eof)
  BY <1>0 DEF FishTypes
<1> DEFINE Goal == /\ p'.at = at /\ p'.k = o /\ p'.fd = p.fd
                   /\ p'.row = p.row /\ p'.col = p.col /\ Pair(p'.c) /\ Pair(p'.eof)
                   /\ p'.c[o] = p.c[o] /\ p'.eof[o] = p.eof[o] /\ p'.eof[k] \in BOOLEAN
                   /\ table' = table /\ fd_array'[p.fd[o]] = fd_array[p.fd[o]]
                   /\ IF p'.eof[k] THEN p'.c[k] = NEWLINE /\ ~HasBad(FrameInode(k))
                      ELSE Holding(fd) /\ FrameHeld(k, fd_array'[fd])
                   /\ NoneBad =>
                        \/ /\ p.c[k] = NEWLINE /\ p'.c[k] = NEWLINE /\ p'.eof[k] = p.eof[k]
                           /\ fd_array'[fd].file_pos = pos
                        \/ /\ p.c[k] # NEWLINE /\ pos = Len(FrameText(k))
                           /\ p'.c[k] = NEWLINE /\ p'.eof[k] = TRUE /\ fd_array'[fd].file_pos = pos
                        \/ /\ p.c[k] # NEWLINE /\ pos # Len(FrameText(k))
                           /\ p'.c[k] = FrameText(k)[pos + 1] /\ p'.eof[k] = FALSE
                           /\ fd_array'[fd].file_pos = pos + 1
<1>4. CASE p.c[k] = NEWLINE
  <2>1. p' = q /\ UNCHANGED <<table, fd_array>>
    BY <1>4 DEF FishRead, NoCall, kernel
  <2>2. FishIs(p', at, o, p.fd, p.c, p.eof, p.row, p.col)
    BY <1>1, <2>1
  <2>3. Goal
    BY <1>2, <1>3, <1>4, <2>1, <2>2 DEF FishIs
  <2>4. QED
    BY <2>2, <2>3 DEF FishIs
<1>5. CASE p.c[k] # NEWLINE
  <2> DEFINE c == Text(result'.bytes)
             cs == [q.c EXCEPT ![k] = NEWLINE]
             eofs == [q.eof EXCEPT ![k] = TRUE]
             c1 == [q.c EXCEPT ![k] = c[1]]
  <2>1. /\ Reading(fd, 1)
        /\ p' = CASE result'.ret = 0 -> [[q EXCEPT !.c = cs] EXCEPT !.eof = eofs]
                  [] result'.ret = 1 -> [q EXCEPT !.c = c1]
                  [] OTHER -> q
    BY <1>5 DEF FishRead
  <2>2. p.eof[k] = FALSE /\ Holding(fd) /\ FrameHeld(k, fd_array[fd])
    BY <1>2, <1>5
  <2>3. /\ table' = table /\ FrameHeld(k, fd_array'[fd])
        /\ \A g \in Fds : g # fd => fd_array'[g] = fd_array[g]
        /\ \/ result'.ret = -1 /\ HasBad(FrameInode(k))
           \/ /\ result'.ret = 0 /\ pos = FrameLen(k) /\ ~HasBad(FrameInode(k))
              /\ fd_array'[fd].file_pos = pos
           \/ /\ result'.ret = 1 /\ pos \in Nat /\ pos # FrameLen(k)
              /\ c[1] = FrameText(k)[pos + 1]
              /\ fd_array'[fd].file_pos = pos + 1
    BY <1>0, <2>1, <2>2, FrameByteRead
  <2>4. Len(FrameText(k)) = FrameLen(k) /\ fd_array'[p.fd[o]] = fd_array[p.fd[o]]
    BY <1>0, <1>2, <2>3, FrameFacts
  <2>5. q.c = p.c /\ q.eof = p.eof
    BY <1>1 DEF FishIs
  <2>6. NoneBad => ~HasBad(FrameInode(k))
    BY <1>0 DEF NoneBad
  <2>7. CASE result'.ret = -1 /\ HasBad(FrameInode(k))
    <3>1. p' = q
      BY <2>1, <2>7
    <3>2. FishIs(p', at, o, p.fd, p.c, p.eof, p.row, p.col)
      BY <1>1, <3>1
    <3>3. Goal
      BY <1>2, <1>3, <2>2, <2>3, <2>4, <2>6, <2>7, <3>2 DEF FishIs
    <3>4. QED
      BY <3>2, <3>3 DEF FishIs
  <2>8. CASE /\ result'.ret = 0 /\ pos = FrameLen(k) /\ ~HasBad(FrameInode(k))
             /\ fd_array'[fd].file_pos = pos
    <3>1. p' = [[q EXCEPT !.c = cs] EXCEPT !.eof = eofs]
      BY <2>1, <2>8
    <3>2. /\ Pair(cs) /\ cs[k] = NEWLINE /\ cs[o] = p.c[o]
          /\ Pair(eofs) /\ eofs[k] = TRUE /\ eofs[o] = p.eof[o]
      <4>1. PICK s : s = p.c
        OBVIOUS
      <4>2. PICK r : r = p.eof
        OBVIOUS
      <4>3. /\ Pair([s EXCEPT ![k] = NEWLINE]) /\ [s EXCEPT ![k] = NEWLINE][k] = NEWLINE
            /\ [s EXCEPT ![k] = NEWLINE][o] = s[o]
        BY <1>0, <1>3, <4>1, Pairs
      <4>4. /\ Pair([r EXCEPT ![k] = TRUE]) /\ [r EXCEPT ![k] = TRUE][k] = TRUE
            /\ [r EXCEPT ![k] = TRUE][o] = r[o]
        <5>1. Pair(r)
          BY <1>3, <4>2
        <5>2. DOMAIN r = {1, 2} /\ k \in {1, 2} /\ o \in {1, 2} /\ k # o
          BY <1>0, <5>1 DEF Pair
        <5> HIDE DEF k, o
        <5>3. QED
          BY <5>1, <5>2 DEF Pair
      <4>5. QED
        BY <2>5, <4>1, <4>2, <4>3, <4>4
    <3> HIDE DEF cs, eofs, q
    <3>3. FishIs(p', at, o, p.fd, cs, eofs, p.row, p.col)
      <4>1. FishShape([q EXCEPT !.c = cs])
            /\ FishIs([q EXCEPT !.c = cs], q.at, q.k, q.fd, cs, q.eof, q.row, q.col)
        BY <1>1, FishSets
      <4>2. PICK r : r = [q EXCEPT !.c = cs]
        OBVIOUS
      <4>3. FishIs([r EXCEPT !.eof = eofs], r.at, r.k, r.fd, r.c, eofs, r.row, r.col)
        BY <4>1, <4>2, FishSets
      <4>4. QED
        BY <1>1, <3>1, <4>1, <4>2, <4>3 DEF FishIs
    <3>4. Goal
      BY <1>5, <2>3, <2>4, <2>8, <3>2, <3>3 DEF FishIs
    <3>5. QED
      BY <3>3, <3>4 DEF FishIs
  <2>9. CASE /\ result'.ret = 1 /\ pos \in Nat /\ pos # FrameLen(k)
             /\ c[1] = FrameText(k)[pos + 1]
             /\ fd_array'[fd].file_pos = pos + 1
    <3>1. p' = [q EXCEPT !.c = c1]
      BY <2>1, <2>9
    <3>2. Pair(c1) /\ c1[k] = c[1] /\ c1[o] = p.c[o]
      <4>1. PICK s : s = p.c
        OBVIOUS
      <4>2. PICK x : x = c[1]
        OBVIOUS
      <4>3. Pair([s EXCEPT ![k] = x]) /\ [s EXCEPT ![k] = x][k] = x /\ [s EXCEPT ![k] = x][o] = s[o]
        BY <1>0, <1>3, <4>1, Pairs
      <4>4. QED
        BY <2>5, <4>1, <4>2, <4>3
    <3> HIDE DEF c1, q
    <3>3. FishIs(p', at, o, p.fd, c1, p.eof, p.row, p.col)
      <4>1. FishIs([q EXCEPT !.c = c1], q.at, q.k, q.fd, c1, q.eof, q.row, q.col)
        BY <1>1, FishSets
      <4>2. QED
        BY <1>1, <3>1, <4>1 DEF FishIs
    <3>4. Goal
      BY <1>3, <1>5, <2>2, <2>3, <2>4, <2>9, <3>2, <3>3 DEF FishIs
    <3>5. QED
      BY <3>3, <3>4 DEF FishIs
  <2>10. QED
    BY <2>3, <2>7, <2>8, <2>9
<1>6. QED
  BY <1>4, <1>5

LEMMA FishReadsFrames ==
    ASSUME KernelOK, FishOK, FishShown, FishRead
    PROVE  FishShown'
<1> DEFINE k == p.k
           o == 3 - p.k
           pos == fd_array[p.fd[k]].file_pos
           c2 == p'.c[k]
           eof2 == p'.eof[k]
           pos2 == fd_array'[p'.fd[k]].file_pos
           j == p.row + 1
           col == p.col
<1>0. /\ k \in {1, 2} /\ o \in {1, 2} /\ k # o /\ (k = 1 => o = 2) /\ (k = 2 => o = 1)
      /\ p.at = "read" /\ FishHolds /\ FishTypes(p) /\ (NoneBad => FishExactly)
      /\ letters' = letters /\ output' = output
  <2>1. k \in {1, 2}
    BY FishShapes, FishSets
  <2>2. QED
    BY <2>1 DEF FishRead, At, FishShown, Silent
<1>1. /\ p'.at = (IF k = 1 THEN "read" ELSE "show") /\ p'.k = o /\ p'.fd = p.fd
      /\ p'.row = p.row /\ p'.col = p.col /\ Pair(p'.c) /\ Pair(p'.eof)
      /\ p'.c[o] = p.c[o] /\ p'.eof[o] = p.eof[o] /\ eof2 \in BOOLEAN
      /\ table' = table /\ fd_array'[p.fd[o]] = fd_array[p.fd[o]]
      /\ IF eof2 THEN c2 = NEWLINE /\ ~HasBad(FrameInode(k))
         ELSE Holding(p.fd[k]) /\ FrameHeld(k, fd_array'[p.fd[k]])
      /\ NoneBad =>
            \/ p.c[k] = NEWLINE /\ c2 = NEWLINE /\ eof2 = p.eof[k] /\ pos2 = pos
            \/ /\ p.c[k] # NEWLINE /\ pos = Len(FrameText(k))
               /\ c2 = NEWLINE /\ eof2 = TRUE /\ pos2 = pos
            \/ /\ p.c[k] # NEWLINE /\ pos # Len(FrameText(k))
               /\ c2 = FrameText(k)[pos + 1] /\ eof2 = FALSE /\ pos2 = pos + 1
  BY FishReadsOne
<1>2. FishTypes(p')
  BY <1>0, <1>1 DEF FishTypes
<1>3. \A i \in {1, 2} : i = k \/ i = o
  BY <1>0
<1>4. ASSUME NEW i \in {1, 2}
      PROVE  IF p'.eof[i] THEN p'.c[i] = NEWLINE /\ ~HasBad(FrameInode(i))
             ELSE p'.fd[i] \in table'.spaces \ Stdio /\ FrameHeld(i, fd_array'[p'.fd[i]])
  <2>1. CASE i = k
    BY <1>1, <2>1 DEF Holding
  <2>2. CASE i = o
    <3>1. IF p.eof[i] THEN p.c[i] = NEWLINE /\ ~HasBad(FrameInode(i))
          ELSE Holding(p.fd[i]) /\ FrameHeld(i, fd_array[p.fd[i]])
      BY <1>0 DEF FishHolds
    <3>2. QED
      BY <1>1, <2>2, <3>1 DEF Holding
  <2>3. QED
    BY <1>3, <2>1, <2>2
<1>5. ASSUME NoneBad
      PROVE  FishExact(p', FrameText(1), FrameText(2), fd_array'[p'.fd[1]].file_pos,
                       fd_array'[p'.fd[2]].file_pos, output')
  <2> DEFINE t == FrameText(1)
             u == FrameText(2)
  <2>1. FishExact(p, t, u, fd_array[p.fd[1]].file_pos, fd_array[p.fd[2]].file_pos, output)
    BY <1>0, <1>5 DEF FishExactly
  <2>2. /\ FrameIs(t, p.c[1], p.eof[1], fd_array[p.fd[1]].file_pos, j, IF k = 1 THEN col ELSE col + 1)
        /\ FrameIs(u, p.c[2], p.eof[2], fd_array[p.fd[2]].file_pos, j, col)
        /\ ShownTo(output, LinesOf(t), LinesOf(u), p.row, col)
    BY <1>0, <2>1 DEF FishExact
  <2>3. j \in Nat /\ j >= 1 /\ col \in Nat
    BY <1>0 DEF FishTypes
  <2>4. FrameIs(FrameText(k), p.c[k], p.eof[k], pos, j, col)
    BY <1>0, <2>2
  <2>5. FrameIs(FrameText(k), c2, eof2, pos2, j, col + 1)
    <3>1. IsString(FrameText(k))
      BY <1>0, FrameFacts
    <3>2. PICK text : text = FrameText(k)
      OBVIOUS
    <3>3. IsString(text) /\ FrameIs(text, p.c[k], p.eof[k], pos, j, col)
      BY <2>4, <3>1, <3>2
    <3>4. \/ p.c[k] = NEWLINE /\ c2 = NEWLINE /\ eof2 = p.eof[k] /\ pos2 = pos
          \/ p.c[k] # NEWLINE /\ pos = Len(text) /\ c2 = NEWLINE /\ eof2 = TRUE /\ pos2 = pos
          \/ p.c[k] # NEWLINE /\ pos # Len(text) /\ c2 = text[pos + 1] /\ eof2 = FALSE /\ pos2 = pos + 1
      BY <1>1, <1>5, <3>2
    <3> HIDE DEF c2, eof2, pos2, pos, j, col
    <3>5. FrameIs(text, c2, eof2, pos2, j, col + 1)
      BY <2>3, <3>3, <3>4, FrameNext
    <3>6. QED
      BY <3>2, <3>5
  <2>6. CASE k = 1
    <3>1. FrameIs(t, p'.c[1], p'.eof[1], fd_array'[p'.fd[1]].file_pos, j, col + 1)
      BY <2>5, <2>6
    <3>2. FrameIs(u, p'.c[2], p'.eof[2], fd_array'[p'.fd[2]].file_pos, j, col)
      BY <1>0, <1>1, <2>2, <2>6
    <3>3. p'.at = "read" /\ p'.k = 2 /\ p'.row = p.row /\ p'.col = col
      BY <1>0, <1>1, <2>6
    <3>4. QED
      BY <1>0, <2>2, <3>1, <3>2, <3>3 DEF FishExact
  <2>7. CASE k = 2
    <3>1. FrameIs(u, p'.c[2], p'.eof[2], fd_array'[p'.fd[2]].file_pos, j, col + 1)
      BY <2>5, <2>7
    <3>2. FrameIs(t, p'.c[1], p'.eof[1], fd_array'[p'.fd[1]].file_pos, j, col + 1)
      BY <1>0, <1>1, <2>2, <2>7
    <3>3. p'.at = "show" /\ p'.row = p.row /\ p'.col = col
      BY <1>0, <1>1, <2>7
    <3>4. QED
      BY <1>0, <2>2, <3>1, <3>2, <3>3 DEF FishExact
  <2>8. QED
    BY <1>0, <2>6, <2>7
<1>6. p'.at # "open" /\ p'.at # "ended" /\ (p'.at = "show" => p'.k = 1)
      /\ p'.fd[1] \in Fds /\ p'.fd[2] \in Fds /\ p'.fd[1] # p'.fd[2]
  BY <1>0, <1>1 DEF FishHolds
<1>7. QED
  BY <1>0, <1>2, <1>4, <1>5, <1>6, FishNow

\* What a frame shows where it is.
LEMMA FrameShown ==
    ASSUME NEW t, IsString(t), NEW j \in Nat, j >= 1, NEW m \in Nat, m >= 1, NEW c, NEW eof, NEW pos,
           FrameIs(t, c, eof, pos, j, m)
    PROVE  /\ Shown(c) = FrameChar(LinesOf(t), j, m)
           /\ c = NEWLINE => \A x \in Nat : x >= m => FrameChar(LinesOf(t), j, x) = SPACE
BY TextMarked, FrameShows DEF FrameIs

\* The next line of a frame, wherever its descriptor is once its end is met.
LEMMA FrameLine ==
    ASSUME NEW t, IsString(t), NEW j \in Nat, j >= 1, NEW m \in Nat, NEW eof \in BOOLEAN, NEW pos, NEW pos2,
           FrameIs(t, NEWLINE, eof, pos, j, m), eof \/ pos2 = pos
    PROVE  FrameIs(t, IF eof THEN NEWLINE ELSE lookup[1], eof, pos2, j + 1, 0)
<1> DEFINE e == LineEnds(t)
           n == LineCount(t)
           c == IF eof THEN NEWLINE ELSE lookup[1]
           l == j + 1
<1>1. n \in Nat /\ IsMarks(e, n, t) /\ FrameAt(t, e, n, NEWLINE, eof, pos, j, m)
  BY TextMarked DEF FrameIs
<1> HIDE DEF e, n
<1>2. FrameAt(t, e, n, c, eof, pos, l, 0)
  BY <1>1, FrameGoesOn
<1> HIDE DEF c, l
<1>3. FrameAt(t, e, n, c, eof, pos2, l, 0)
  <2>1. CASE eof
    <3>1. ~(l <= n /\ 0 < e[l] - e[l - 1])
      BY <1>2, <2>1 DEF FrameAt
    <3>2. c = NEWLINE /\ eof = (l >= n)
      BY <1>2, <3>1 DEF FrameAt
    <3>3. l >= n
      BY <2>1, <3>2
    <3>4. ~(l < n)
      BY <1>1, <3>3 DEF l
    <3>5. QED
      BY <3>1, <3>2, <3>4 DEF FrameAt
  <2>2. CASE ~eof
    BY <1>2, <2>2
  <2>3. QED
    BY <2>1, <2>2
<1>4. QED
  BY <1>3 DEF FrameIs, e, n, c, l

LEMMA FrameOver ==
    ASSUME NEW t, IsString(t), NEW j \in Nat, j >= 1, NEW c, NEW pos, FrameIs(t, c, TRUE, pos, j, 0),
           NEW r \in Nat, r >= j, NEW x \in Nat, x >= 1
    PROVE  FrameChar(LinesOf(t), r, x) = SPACE
BY TextMarked, FrameEnds DEF FrameIs

-----------------------------------------------------------------------------
LEMMA FishShowsFrames ==
    ASSUME KernelOK, FishOK, FishShown, FishShow
    PROVE  FishShown'
<1> DEFINE t == FrameText(1)
           u == FrameText(2)
           first == LinesOf(t)
           second == LinesOf(u)
           x == fd_array[p.fd[1]].file_pos
           y == fd_array[p.fd[2]].file_pos
           row == p.row
           col == p.col
           on == Shown(p.c[1])
           off == Shown(p.c[2])
           over == p.c[1] = NEWLINE /\ p.c[2] = NEWLINE
           b == Place(first, second, row, col)
<1>0. /\ FishShape(p) /\ p.at = "show" /\ p.k = 1 /\ FishHolds /\ FishTypes(p)
      /\ (NoneBad => FishExactly) /\ letters' = letters
      /\ table' = table /\ fd_array' = fd_array
  BY FishShapes DEF FishShow, At, FishShown, NoCall, kernel, FishHolds
<1>1. /\ over => p' = [p EXCEPT !.at = "row"] /\ output' = output
      /\ ~over => /\ output' = IF on = SPACE /\ off = SPACE THEN output
                               ELSE Append(output, [row |-> row, col |-> col, on |-> on, off |-> off])
                  /\ p' = [p EXCEPT !.at = "read", !.col = @ + 1]
  <2>1. p.c = <<NEWLINE, NEWLINE>> <=> over
    BY <1>0, Pairs DEF FishTypes
  <2>2. QED
    BY <2>1 DEF FishShow
<1>2. /\ over => FishIs(p', "row", 1, p.fd, p.c, p.eof, row, col)
      /\ ~over => FishIs(p', "read", 1, p.fd, p.c, p.eof, row, col + 1)
  <2>1. CASE over
    <3>1. p' = [p EXCEPT !.at = "row"]
      BY <1>1, <2>1
    <3>2. FishIs([p EXCEPT !.at = "row"], "row", p.k, p.fd, p.c, p.eof, p.row, p.col)
      BY <1>0, FishSets DEF FishAts
    <3>3. QED
      BY <1>0, <2>1, <3>1, <3>2
  <2>2. CASE ~over
    <3> DEFINE next == p.col + 1
    <3>1. p' = [[p EXCEPT !.at = "read"] EXCEPT !.col = next]
      BY <1>0, <1>1, <2>2 DEF FishShape
    <3> HIDE DEF next
    <3>2. PICK q : q = [p EXCEPT !.at = "read"]
      OBVIOUS
    <3>3. FishShape(q) /\ FishIs(q, "read", p.k, p.fd, p.c, p.eof, p.row, p.col)
      BY <1>0, <3>2, FishSets DEF FishAts
    <3>4. FishIs([q EXCEPT !.col = next], q.at, q.k, q.fd, q.c, q.eof, q.row, next)
      BY <3>3, FishSets
    <3>5. QED
      BY <1>0, <2>2, <3>1, <3>2, <3>3, <3>4 DEF FishIs, next
  <2>3. QED
    BY <2>1, <2>2
<1>3. /\ FishTypes(p') /\ p'.at \in {"row", "read"} /\ p'.fd = p.fd /\ p'.c = p.c /\ p'.eof = p.eof
  BY <1>0, <1>2 DEF FishTypes, FishIs
<1>4. ASSUME NoneBad PROVE FishExact(p', t, u, x, y, output')
  <2>1. FishExact(p, t, u, x, y, output)
    BY <1>0, <1>4 DEF FishExactly
  <2> DEFINE j == row + 1
             m == col + 1
  <2>2. /\ FrameIs(t, p.c[1], p.eof[1], x, j, m) /\ FrameIs(u, p.c[2], p.eof[2], y, j, m)
        /\ ShownTo(output, first, second, row, col)
    BY <1>0, <2>1 DEF FishExact
  <2>3. row \in Nat /\ col \in Nat /\ j \in Nat /\ j >= 1 /\ m \in Nat /\ m >= 1
    BY <1>0 DEF FishTypes
  <2>4. IsString(t) /\ IsString(u)
    BY FrameFacts
  <2> HIDE DEF t, u, j, m
  <2>5. /\ on = FrameChar(first, j, m) /\ off = FrameChar(second, j, m)
        /\ p.c[1] = NEWLINE => \A z \in Nat : z >= m => FrameChar(first, j, z) = SPACE
        /\ p.c[2] = NEWLINE => \A z \in Nat : z >= m => FrameChar(second, j, z) = SPACE
    BY <2>2, <2>3, <2>4, FrameShown
  <2> HIDE DEF first, second, on, off, row, col, x, y
  <2>6. CASE over
    <3>1. ASSUME NEW z \in Nat, z >= col PROVE ~Visible(Place(first, second, row, z))
      <4>1. z + 1 \in Nat /\ z + 1 >= m
        BY <2>3, <3>1 DEF m
      <4>2. FrameChar(first, j, z + 1) = SPACE /\ FrameChar(second, j, z + 1) = SPACE
        BY <2>5, <2>6, <4>1
      <4>3. QED
        BY <4>2 DEF Visible, Place, j
    <3>2. ShownTo(output, first, second, row + 1, 0)
      BY <2>2, <2>3, <3>1, ShownRow
    <3>3. output' = output /\ FishIs(p', "row", 1, p.fd, p.c, p.eof, row, col)
      BY <1>1, <1>2, <2>6
    <3>4. QED
      BY <2>2, <2>6, <3>2, <3>3 DEF FishExact, FishIs, first, second, j, m
  <2>7. CASE ~over
    <3>1. b = [row |-> row, col |-> col, on |-> on, off |-> off]
      BY <2>5 DEF Place, j, m
    <3>2. Visible(b) <=> ~(on = SPACE /\ off = SPACE)
      BY <3>1 DEF Visible
    <3>3. ShownTo(IF Visible(b) THEN Append(output, b) ELSE output, first, second, row, col + 1)
      BY <2>2, <2>3, ShownNext
    <3>4. output' = IF Visible(b) THEN Append(output, b) ELSE output
      BY <1>1, <2>7, <3>1, <3>2
    <3>5. FishIs(p', "read", 1, p.fd, p.c, p.eof, row, col + 1)
      BY <1>2, <2>7
    <3>6. ShownTo(output', first, second, row, col + 1)
      BY <3>3, <3>4
    <3>7. QED
      BY <2>2, <3>5, <3>6 DEF FishExact, FishIs, first, second, j, m
  <2>8. QED
    BY <2>6, <2>7
<1>5. ASSUME NEW k \in {1, 2}
      PROVE  IF p'.eof[k] THEN p'.c[k] = NEWLINE /\ ~HasBad(FrameInode(k))
             ELSE p'.fd[k] \in table'.spaces \ Stdio /\ FrameHeld(k, fd_array'[p'.fd[k]])
  BY <1>0, <1>3 DEF FishHolds, Holding
<1>6. p'.at \notin {"open", "show", "ended"} /\ p'.fd[1] \in Fds /\ p'.fd[2] \in Fds /\ p'.fd[1] # p'.fd[2]
  BY <1>0, <1>3 DEF FishHolds
<1>7. NoneBad => FishExact(p', FrameText(1), FrameText(2), fd_array'[p'.fd[1]].file_pos,
                           fd_array'[p'.fd[2]].file_pos, output')
  BY <1>0, <1>3, <1>4
<1>8. QED
  BY <1>0, <1>3, <1>5, <1>6, <1>7, FishNow

\* What the end of a row does to one frame, and leaves of the other.
LEMMA FishTurnsOne ==
    ASSUME KernelOK, FishOK, FishShown, FishRow
    PROVE  LET k == p.k
               o == 3 - p.k
               both == p.eof[1] /\ p.eof[2]
           IN  /\ p'.k = o /\ p'.fd = p.fd /\ p'.eof = p.eof /\ Pair(p'.c)
               /\ p'.c[k] = (IF p.eof[k] THEN NEWLINE ELSE lookup[1]) /\ p'.c[o] = p.c[o]
               /\ k = 1 => p'.at = "row" /\ p'.row = p.row /\ p'.col = p.col
               /\ k = 2 /\ both => p'.at = "ended" /\ p'.row = p.row /\ p'.col = p.col
               /\ k = 2 /\ ~both => p'.at = "read" /\ p'.row = p.row + 1 /\ p'.col = 0
               /\ ~p.eof[k] => table' = table /\ fd_array' = fd_array
               /\ fd_array'[p.fd[o]] = fd_array[p.fd[o]]
               /\ Holding(p.fd[o]) => p.fd[o] \in table'.spaces \ Stdio
<1> DEFINE k == p.k
           o == 3 - p.k
           both == p.eof[1] /\ p.eof[2]
           fd == p.fd[k]
           q == Second("row", "read")
           ch == IF p.eof[k] THEN NEWLINE ELSE lookup[1]
           cs == [q.c EXCEPT ![k] = ch]
           at == IF k = 1 THEN "row" ELSE "read"
           next == [q EXCEPT !.c = cs]
           row == next.row + 1
<1>0. /\ FishShape(p) /\ k \in {1, 2} /\ o \in {1, 2} /\ k # o
      /\ p.at = "row" /\ FishHolds /\ FishTypes(p)
  <2>1. FishShape(p) /\ k \in {1, 2}
    BY FishShapes, FishSets
  <2>2. QED
    BY <2>1 DEF FishRow, At, FishShown
<1>1. FishShape(q) /\ FishIs(q, at, o, p.fd, p.c, p.eof, p.row, p.col)
  BY <1>0, SecondIs DEF FishAts
<1>2. Pair(cs) /\ cs[k] = ch /\ cs[o] = p.c[o]
  <2>1. PICK s : s = p.c
    OBVIOUS
  <2>2. PICK x : x = ch
    OBVIOUS
  <2>s. Pair(s)
    BY <1>0, <2>1 DEF FishTypes
  <2>3. Pair([s EXCEPT ![k] = x]) /\ [s EXCEPT ![k] = x][k] = x /\ [s EXCEPT ![k] = x][o] = s[o]
    BY <1>0, <2>s, Pairs
  <2>4. q.c = s
    BY <1>1, <2>1 DEF FishIs
  <2>5. QED
    BY <2>1, <2>2, <2>3, <2>4
<1>3. p' = IF k = 1 THEN next
           ELSE IF p.eof = <<TRUE, TRUE>> THEN [next EXCEPT !.at = "ended"]
           ELSE [next EXCEPT !.row = row, !.col = 0]
  BY DEF FishRow
<1>4. p.eof = <<TRUE, TRUE>> <=> both
  <2>1. PICK x : x = TRUE
    OBVIOUS
  <2>2. PICK s : s = p.eof
    OBVIOUS
  <2>3. Pair(s) /\ s[1] \in BOOLEAN /\ s[2] \in BOOLEAN
    BY <1>0, <2>2 DEF FishTypes
  <2>4. s = <<x, x>> <=> s[1] = x /\ s[2] = x
    BY <2>3, Pairs
  <2>5. s[1] = x /\ s[2] = x <=> s[1] /\ s[2]
    BY <2>1, <2>3
  <2>6. QED
    BY <2>1, <2>2, <2>4, <2>5, Zenon
<1> HIDE DEF q, cs, ch
<1>5. FishShape(next) /\ FishIs(next, at, o, p.fd, cs, p.eof, p.row, p.col)
  <2>1. FishShape([q EXCEPT !.c = cs])
        /\ FishIs([q EXCEPT !.c = cs], q.at, q.k, q.fd, cs, q.eof, q.row, q.col)
    BY <1>1, FishSets
  <2>2. QED
    BY <1>1, <2>1 DEF FishIs
<1> HIDE DEF next
<1>6. /\ k = 1 => FishIs(p', "row", o, p.fd, cs, p.eof, p.row, p.col)
      /\ k = 2 /\ both => FishIs(p', "ended", o, p.fd, cs, p.eof, p.row, p.col)
      /\ k = 2 /\ ~both => FishIs(p', "read", o, p.fd, cs, p.eof, p.row + 1, 0)
  <2>1. CASE k = 1
    BY <1>3, <1>5, <2>1
  <2>2. CASE k = 2 /\ both
    <3>1. p' = [next EXCEPT !.at = "ended"]
      BY <1>3, <1>4, <2>2
    <3>2. FishIs([next EXCEPT !.at = "ended"], "ended", next.k, next.fd, next.c, next.eof, next.row, next.col)
      BY <1>5, FishSets DEF FishAts
    <3>3. QED
      BY <1>5, <2>2, <3>1, <3>2 DEF FishIs
  <2>3. CASE k = 2 /\ ~both
    <3> HIDE DEF row
    <3>1. p' = [[next EXCEPT !.row = row] EXCEPT !.col = 0]
      <4>1. p' = [next EXCEPT !.row = row, !.col = 0]
        <5>0. k # 1
          BY <2>3
        <5>1. k # 1 /\ ~(p.eof = <<TRUE, TRUE>>)
          BY <1>4, <2>3, <5>0, Zenon
        <5>2. QED
          BY <1>3, <5>1, Zenon
      <4>2. [next EXCEPT !.row = row, !.col = 0] = [[next EXCEPT !.row = row] EXCEPT !.col = 0]
        OBVIOUS
      <4>3. QED
        BY <4>1, <4>2
    <3>2. PICK r : r = [next EXCEPT !.row = row]
      OBVIOUS
    <3>3. FishShape(r) /\ FishIs(r, next.at, next.k, next.fd, next.c, next.eof, row, next.col)
      BY <1>5, <3>2, FishSets
    <3>4. FishIs([r EXCEPT !.col = 0], r.at, r.k, r.fd, r.c, r.eof, r.row, 0)
      BY <3>3, FishSets
    <3>5. QED
      BY <1>5, <2>3, <3>1, <3>2, <3>3, <3>4 DEF FishIs, row
  <2>4. QED
    BY <1>0, <2>1, <2>2, <2>3
<1>7. /\ p'.k = o /\ p'.fd = p.fd /\ p'.eof = p.eof /\ p'.c = cs
  BY <1>0, <1>6 DEF FishIs
<1>8. /\ ~p.eof[k] => table' = table /\ fd_array' = fd_array
      /\ fd_array'[p.fd[o]] = fd_array[p.fd[o]]
      /\ Holding(p.fd[o]) => p.fd[o] \in table'.spaces \ Stdio
  <2>1. CASE ~p.eof[k]
    <3>1. table' = table /\ fd_array' = fd_array
      BY <2>1 DEF FishRow, NoCall, kernel
    <3>2. QED
      BY <3>1 DEF Holding
  <2>2. CASE p.eof[k]
    <3>1. Close(fd)
      BY <2>2, Callings DEF FishRow
    <3>2. p.fd[o] # fd /\ p.fd[o] \in Fds /\ DOMAIN fd_array = Fds
      BY <1>0 DEF FishHolds, KernelOK
    <3>3. \/ UNCHANGED <<table, fd_array>>
          \/ /\ table'.spaces = table.spaces \ {fd}
             /\ fd_array' = [fd_array EXCEPT ![fd] = NoFile]
      BY <3>1, CloseStep
    <3> HIDE DEF fd
    <3>4. fd_array'[p.fd[o]] = fd_array[p.fd[o]]
      BY <3>2, <3>3
    <3>5. Holding(p.fd[o]) => p.fd[o] \in table'.spaces \ Stdio
      BY <3>2, <3>3 DEF Holding
    <3>6. QED
      BY <2>2, <3>4, <3>5
  <2>3. QED
    BY <2>1, <2>2
<1>9. QED
  BY <1>2, <1>6, <1>7, <1>8 DEF FishIs, ch

LEMMA FishTurnsRows ==
    ASSUME KernelOK, FishOK, FishShown, FishRow
    PROVE  FishShown'
<1> DEFINE k == p.k
           o == 3 - p.k
           both == p.eof[1] /\ p.eof[2]
           t == FrameText(1)
           u == FrameText(2)
           x == fd_array[p.fd[1]].file_pos
           y == fd_array[p.fd[2]].file_pos
           x2 == fd_array'[p'.fd[1]].file_pos
           y2 == fd_array'[p'.fd[2]].file_pos
<1>0. /\ k \in {1, 2} /\ o \in {1, 2} /\ k # o /\ (k = 1 => o = 2) /\ (k = 2 => o = 1)
      /\ p.at = "row" /\ FishHolds /\ FishTypes(p) /\ (NoneBad => FishExactly)
      /\ letters' = letters /\ output' = output
  <2>1. k \in {1, 2}
    BY FishShapes, FishSets
  <2>2. QED
    BY <2>1 DEF FishRow, At, FishShown, Silent
<1>1. /\ p'.k = o /\ p'.fd = p.fd /\ p'.eof = p.eof /\ Pair(p'.c)
      /\ p'.c[k] = (IF p.eof[k] THEN NEWLINE ELSE lookup[1]) /\ p'.c[o] = p.c[o]
      /\ k = 1 => p'.at = "row" /\ p'.row = p.row /\ p'.col = p.col
      /\ k = 2 /\ both => p'.at = "ended" /\ p'.row = p.row /\ p'.col = p.col
      /\ k = 2 /\ ~both => p'.at = "read" /\ p'.row = p.row + 1 /\ p'.col = 0
      /\ ~p.eof[k] => table' = table /\ fd_array' = fd_array
      /\ fd_array'[p.fd[o]] = fd_array[p.fd[o]]
      /\ Holding(p.fd[o]) => p.fd[o] \in table'.spaces \ Stdio
  BY FishTurnsOne
<1>2. p.row \in Nat /\ p.col \in Nat /\ p.eof[1] \in BOOLEAN /\ p.eof[2] \in BOOLEAN
  BY <1>0 DEF FishTypes
<1>3. FishTypes(p')
  <2>1. p'.row \in Nat /\ p'.col \in Nat
    BY <1>0, <1>1, <1>2
  <2>2. QED
    BY <1>0, <1>1, <2>1 DEF FishTypes
<1>4. \A i \in {1, 2} : i = k \/ i = o
  BY <1>0
<1>5. ASSUME NEW i \in {1, 2}
      PROVE  IF p'.eof[i] THEN p'.c[i] = NEWLINE /\ ~HasBad(FrameInode(i))
             ELSE p'.fd[i] \in table'.spaces \ Stdio /\ FrameHeld(i, fd_array'[p'.fd[i]])
  <2>1. IF p.eof[i] THEN p.c[i] = NEWLINE /\ ~HasBad(FrameInode(i))
        ELSE Holding(p.fd[i]) /\ FrameHeld(i, fd_array[p.fd[i]])
    BY <1>0 DEF FishHolds
  <2>2. CASE i = k
    BY <1>1, <2>1, <2>2 DEF Holding
  <2>3. CASE i = o
    BY <1>1, <2>1, <2>3
  <2>4. QED
    BY <1>4, <2>2, <2>3
<1>6. ASSUME NoneBad PROVE FishExact(p', t, u, x2, y2, output')
  <2>1. FishExact(p, t, u, x, y, output)
    BY <1>0, <1>6 DEF FishExactly
  <2> DEFINE j == p.row + 1
             m == p.col + 1
             l == p.row + 2
  <2>2. /\ k = 1 => FrameIs(t, p.c[1], p.eof[1], x, j, m) /\ p.c[1] = NEWLINE
        /\ k = 2 => FrameIs(t, p.c[1], p.eof[1], x, l, 0)
        /\ FrameIs(u, p.c[2], p.eof[2], y, j, m) /\ p.c[2] = NEWLINE
        /\ ShownTo(output, LinesOf(t), LinesOf(u), j, 0)
    BY <1>0, <2>1 DEF FishExact
  <2>3. j \in Nat /\ j >= 1 /\ m \in Nat /\ j + 1 = l
    BY <1>2
  <2>4. IsString(t) /\ IsString(u)
    BY FrameFacts
  <2>5. CASE k = 1
    <3>1. /\ p'.at = "row" /\ p'.k = 2 /\ p'.row = p.row /\ p'.col = p.col
          /\ p'.c[1] = (IF p.eof[1] THEN NEWLINE ELSE lookup[1]) /\ p'.c[2] = p.c[2]
          /\ y2 = y /\ (p.eof[1] \/ x2 = x)
      BY <1>0, <1>1, <2>5
    <3>2. FrameIs(t, NEWLINE, p.eof[1], x, j, m)
      BY <2>2, <2>5
    <3>3. FrameIs(t, p'.c[1], p.eof[1], x2, l, 0)
      <4> HIDE DEF t, x, x2, j, m
      <4>1. PICK eof \in BOOLEAN : eof = p.eof[1]
        BY <1>2
      <4>2. FrameIs(t, NEWLINE, eof, x, j, m) /\ (eof \/ x2 = x)
        BY <3>1, <3>2, <4>1
      <4>3. FrameIs(t, IF eof THEN NEWLINE ELSE lookup[1], eof, x2, j + 1, 0)
        BY <2>3, <2>4, <4>2, FrameLine
      <4>4. QED
        BY <2>3, <3>1, <4>1, <4>3
    <3>4. FrameIs(u, p'.c[2], p'.eof[2], y2, j, m) /\ p'.c[2] = NEWLINE /\ p'.eof[1] = p.eof[1]
      BY <1>1, <2>2, <3>1
    <3>5. QED
      BY <1>0, <2>2, <3>1, <3>3, <3>4 DEF FishExact
  <2>6. CASE k = 2
    <3>1. /\ p'.c[2] = (IF p.eof[2] THEN NEWLINE ELSE lookup[1]) /\ p'.c[1] = p.c[1]
          /\ x2 = x /\ (p.eof[2] \/ y2 = y)
      BY <1>0, <1>1, <2>6
    <3>2. FrameIs(u, NEWLINE, p.eof[2], y, j, m)
      BY <2>2
    <3>3. FrameIs(u, p'.c[2], p.eof[2], y2, l, 0)
      <4> HIDE DEF u, y, y2, j, m
      <4>1. PICK eof \in BOOLEAN : eof = p.eof[2]
        BY <1>2
      <4>2. FrameIs(u, NEWLINE, eof, y, j, m) /\ (eof \/ y2 = y)
        BY <3>1, <3>2, <4>1
      <4>3. FrameIs(u, IF eof THEN NEWLINE ELSE lookup[1], eof, y2, j + 1, 0)
        BY <2>3, <2>4, <4>2, FrameLine
      <4>4. QED
        BY <2>3, <3>1, <4>1, <4>3
    <3>4. FrameIs(t, p'.c[1], p'.eof[1], x2, l, 0) /\ p'.eof[2] = p.eof[2]
      BY <1>1, <2>2, <2>6, <3>1
    <3>5. CASE both
      <4>1. p'.at = "ended" /\ p'.row = p.row /\ p'.eof[1] = TRUE /\ p'.eof[2] = TRUE
        BY <1>1, <1>2, <2>6, <3>5
      <4>2. QED
        BY <1>0, <1>1, <2>2, <3>3, <3>4, <4>1 DEF FishExact
    <3>6. CASE ~both
      <4>1. p'.at = "read" /\ p'.k = 1 /\ p'.row = p.row + 1 /\ p'.col = 0
        BY <1>0, <1>1, <2>6, <3>6
      <4>2. p'.row + 1 = l
        BY <1>2, <4>1
      <4>3. QED
        BY <1>0, <1>1, <2>2, <3>3, <3>4, <4>1, <4>2 DEF FishExact
    <3>7. QED
      BY <3>5, <3>6
  <2>7. QED
    BY <1>0, <2>5, <2>6
<1>7. /\ p'.at \notin {"open", "show"} /\ p'.fd[1] \in Fds /\ p'.fd[2] \in Fds /\ p'.fd[1] # p'.fd[2]
      /\ (p'.at = "ended" => p'.eof[1] /\ p'.eof[2])
  BY <1>0, <1>1 DEF FishHolds
<1>8. QED
  BY <1>0, <1>3, <1>5, <1>6, <1>7, FishNow

LEMMA FishShowsOn ==
    ASSUME KernelOK, FishOK, FishShown, Fish
    PROVE  FishShown'
BY FishOpensFrames, FishReadsFrames, FishShowsFrames, FishTurnsRows DEF Fish

LEMMA FishStarts ==
    ASSUME p = FishState, output = << >>, table = FreshTable
    PROVE  FishShown
<1>1. /\ p.at = "open" /\ p.k = 1 /\ p.c = <<lookup[1], lookup[1]>> /\ p.eof = <<FALSE, FALSE>>
      /\ p.fd = <<0, 0>> /\ p.row = 0 /\ p.col = 0
  BY DEF FishState
<1>2. Pair(p.c) /\ p.c[1] = lookup[1] /\ p.c[2] = lookup[1]
  BY <1>1, Pairs
<1>3. Pair(p.eof) /\ p.eof[1] = FALSE /\ p.eof[2] = FALSE
  <2>1. PICK x : x = FALSE
    OBVIOUS
  <2>2. p.eof = <<x, x>>
    BY <1>1, <2>1
  <2>3. QED
    BY <2>1, <2>2, Pairs
<1>4. Pair(p.fd)
  BY <1>1, Pairs
<1>5. QED
  BY <1>1, <1>2, <1>3, <1>4 DEF FishShown, FishTypes, FishOpens

LEMMA BlinksAre ==
    ASSUME NEW first, NEW second
    PROVE  LET rows == DOMAIN first \cup DOMAIN second
               cols == UNION ({DOMAIN first[r] : r \in DOMAIN first} \cup
                              {DOMAIN second[r] : r \in DOMAIN second})
               blinks == {[row |-> r - 1, col |-> c - 1, on |-> FrameChar(first, r, c),
                           off |-> FrameChar(second, r, c)] : r \in rows, c \in cols}
           IN  {b \in blinks : b.on # SPACE \/ b.off # SPACE} = Blinks(first, second)
<1> DEFINE firsts == {DOMAIN first[r] : r \in DOMAIN first}
           seconds == {DOMAIN second[r] : r \in DOMAIN second}
           rows == DOMAIN first \cup DOMAIN second
           cols == UNION (firsts \cup seconds)
           blinks == {[row |-> r - 1, col |-> c - 1, on |-> FrameChar(first, r, c),
                       off |-> FrameChar(second, r, c)] : r \in rows, c \in cols}
<1>1. UNION firsts = ColsOf(first)
  BY DEF ColsOf
<1>2. UNION seconds = ColsOf(second)
  BY DEF ColsOf
<1> HIDE DEF firsts, seconds
<1>3. cols = Cols(first, second) /\ rows = Rows(first, second)
  <2>1. cols = (UNION firsts) \cup (UNION seconds)
    OBVIOUS
  <2>2. QED
    BY <1>1, <1>2, <2>1 DEF Cols, Rows
<1> HIDE DEF rows, cols
<1>4. \A b : b \in blinks <=> \E r \in rows : \E c \in cols : b = Blink(first, second, r, c)
  BY DEF Blink
<1> HIDE DEF blinks
<1>5. {b \in blinks : b.on # SPACE \/ b.off # SPACE} = Blinks(first, second)
  BY <1>3, <1>4 DEF Blinks, Visible
<1>6. QED
  BY <1>5 DEF blinks, rows, cols, firsts, seconds

LEMMA FishShowsAll ==
    ASSUME KernelOK, FishShown
    PROVE  FishShows
<1> DEFINE first == LinesIn(Lookup(Frames[1]))
           second == LinesIn(Lookup(Frames[2]))
<1> SUFFICES ASSUME p.prog = "fish", p.at = "ended"
             PROVE  ToSet(output) = Blinks(first, second) /\ IsInjective(output)
  BY BlinksAre DEF FishShows
<1> HIDE DEF first, second
<1> DEFINE t == FrameText(1)
           u == FrameText(2)
           x == fd_array[p.fd[1]].file_pos
           y == fd_array[p.fd[2]].file_pos
           row == p.row + 1
           l == p.row + 2
<1>1. FishHolds /\ FishTypes(p) /\ (NoneBad => FishExactly)
  BY DEF FishShown
<1>2. NoneBad
  BY <1>1 DEF FishHolds, NoneBad
<1>3. FishExact(p, t, u, x, y, output)
  BY <1>1, <1>2 DEF FishExactly
<1>4. /\ FrameIs(t, p.c[1], TRUE, x, l, 0) /\ FrameIs(u, p.c[2], TRUE, y, l, 0)
      /\ ShownTo(output, LinesOf(t), LinesOf(u), row, 0)
  BY <1>3 DEF FishExact
<1>5. row \in Nat /\ l \in Nat /\ l >= 1 /\ row + 1 = l
  BY <1>1 DEF FishTypes
<1>6. IsString(t) /\ IsString(u)
  BY FrameFacts
<1>7. first = LinesOf(t) /\ second = LinesOf(u)
  BY FrameFacts DEF first, second
<1> HIDE DEF t, u, x, y, row, l
<1>8. ASSUME NEW r \in Nat, NEW c \in Nat, r >= row
      PROVE  ~Visible(Place(LinesOf(t), LinesOf(u), r, c))
  <2>1. r + 1 \in Nat /\ r + 1 >= l /\ c + 1 \in Nat /\ c + 1 >= 1
    BY <1>5, <1>8
  <2>2. FrameChar(LinesOf(t), r + 1, c + 1) = SPACE /\ FrameChar(LinesOf(u), r + 1, c + 1) = SPACE
    BY <1>4, <1>5, <1>6, <2>1, FrameOver
  <2>3. QED
    BY <2>2 DEF Visible, Place
<1>9. QED
  BY <1>4, <1>5, <1>6, <1>7, <1>8, ShownAll

-----------------------------------------------------------------------------
(***************************************************************************)
(* grep: lines of a file and lines in its buffer.                          *)
(***************************************************************************)
\* A concatenation of the first strings of a function.
LEMMA FlattenOf ==
    ASSUME NEW N \in Nat, NEW f, StringsOf(f, N)
    PROVE  /\ FlattenSeq([k \in 1 .. 0 |-> f[k]]) = << >>
           /\ \A n \in 0 .. N : IsString(FlattenSeq([k \in 1 .. n |-> f[k]]))
           /\ \A n \in 0 .. N - 1 : FlattenSeq([k \in 1 .. n + 1 |-> f[k]]) =
                                       FlattenSeq([k \in 1 .. n |-> f[k]]) \o f[n + 1]
<1>0. \A k \in 1 .. N : IsString(f[k])
  BY DEF StringsOf
<1>1. FlattenSeq([k \in 1 .. 0 |-> f[k]]) = << >>
  <2>1. [k \in 1 .. 0 |-> f[k]] = << >>
    OBVIOUS
  <2>2. QED
    BY <2>1, FlattenNone
<1>2. ASSUME NEW n \in 0 .. N - 1
      PROVE  /\ FlattenSeq([k \in 1 .. n + 1 |-> f[k]]) =
                   FlattenSeq([k \in 1 .. n |-> f[k]]) \o f[n + 1]
             /\ IsString(FlattenSeq([k \in 1 .. n + 1 |-> f[k]]))
  <2> DEFINE s == [k \in 1 .. n + 1 |-> f[k]]
             t == [k \in 1 .. n |-> f[k]]
  <2>1. n \in Nat /\ n + 1 \in 1 .. n + 1 /\ \A k \in 1 .. n + 1 : k \in 1 .. N
    OBVIOUS
  <2>2. /\ DOMAIN s = 1 .. n + 1 /\ s = [k \in 1 .. n + 1 |-> s[k]]
        /\ DOMAIN t = 1 .. n /\ t = [k \in 1 .. n |-> t[k]]
        /\ \A k \in 1 .. n + 1 : s[k] = f[k]
        /\ \A k \in 1 .. n : t[k] = f[k] /\ k \in 1 .. n + 1
    BY <2>1
  <2> HIDE DEF s, t
  <2>3. StringsOf(s, n + 1) /\ StringsOf(t, n) /\ (\A k \in 1 .. n : t[k] = s[k]) /\ s[n + 1] = f[n + 1]
    BY <1>0, <2>1, <2>2 DEF StringsOf
  <2>4. FlattenSeq(s) = FlattenSeq(t) \o s[n + 1] /\ IsString(FlattenSeq(s))
    BY <2>1, <2>3, FlattenGrows
  <2>5. QED
    BY <2>3, <2>4 DEF s, t
<1>3. ASSUME NEW n \in 0 .. N PROVE IsString(FlattenSeq([k \in 1 .. n |-> f[k]]))
  <2>1. CASE n = 0
    BY <1>1, <2>1, EmptyString
  <2>2. CASE n # 0
    <3>1. PICK m \in 0 .. N - 1 : n = m + 1
      <4>1. n - 1 \in 0 .. N - 1 /\ n = (n - 1) + 1
        BY <2>2
      <4>2. QED
        BY <4>1
    <3>2. QED
      BY <1>2, <3>1
  <2>3. QED
    BY <2>1, <2>2
<1>4. QED
  BY <1>1, <1>2, <1>3

\* What is to be shown of the first lines of an entry, and of the first entries.
FoundIn(k, m) == FlattenSeq([n \in 1 .. m |-> LineFound(k, n)])
FoundTo(d) == FlattenSeq([k \in 1 .. d |-> LinesFound(k)])

\* What the name of an entry finds, and the lines of it.
LEMMA NamedFile ==
    ASSUME NEW k \in 1 .. Len(Dentries)
    PROVE  LET name == Dentries[k].name
               f    == NewFile(name)
               text == InFile(f.inode)
           IN  /\ IsString(name) /\ Found(name) /\ name # << >> /\ Len(name) <= SBUFSIZE - 1
               /\ f.file_pos = 0 /\ f.file_type \in {"rtc", "dir", "file"}
               /\ f.file_type = "file" =>
                     /\ f.inode \in Disk /\ Inodes[f.inode].length \in Nat
                     /\ IsString(text) /\ Len(text) = Inodes[f.inode].length
                     /\ text = Text(Run(f.inode, 0, Inodes[f.inode].length))
                     /\ LinesNamed(k) = LinesOf(text)
               /\ f.file_type # "file" => LinesNamed(k) = << >>
<1> DEFINE name == Dentries[k].name
           j == Lookup(name)
           f == NewFile(name)
           n == Inodes[f.inode].length
<1>1. IsString(name) /\ Found(name) /\ Len(name) <= SBUFSIZE - 1
  <2>1. IsString(name) /\ Len(name) \in 1 .. MAX_FILE_NAME_LENGTH
    BY NameAssumption
  <2>2. Matches(name, k)
    BY <2>1 DEF Matches, Alike
  <2>3. Len(name) <= SBUFSIZE - 1
    BY <2>1, AskedSizes
  <2>4. QED
    BY <2>1, <2>2, <2>3 DEF Found
<1>2. /\ name # << >> /\ f.file_pos = 0
      /\ f.file_type = Dentries[j].file_type
      /\ Dentries[j].file_type = "file" => f.inode = Dentries[j].inode
  BY <1>1, FoundNames
<1>3. OpenFile(f)
  BY <1>1, NewFileOK
<1>4. ASSUME f.file_type = "file"
      PROVE  /\ f.inode \in Disk /\ n \in Nat
             /\ IsString(InFile(f.inode)) /\ Len(InFile(f.inode)) = n
             /\ InFile(f.inode) = Text(Run(f.inode, 0, n))
             /\ LinesNamed(k) = LinesOf(InFile(f.inode))
  <2>1. f.inode \in Disk
    BY <1>3, <1>4 DEF OpenFile
  <2>2. n \in Nat
    BY <2>1, InodeTypes
  <2>3. InFile(f.inode) = Text(Run(f.inode, 0, n))
    BY <2>1, BytesAreRun DEF InFile
  <2>4. IsString(Text(Run(f.inode, 0, n))) /\ Len(Text(Run(f.inode, 0, n))) = n
    BY <2>2, TextRuns
  <2>5. LinesNamed(k) = LinesOf(InFile(f.inode))
    BY <1>2, <1>4 DEF LinesNamed, LinesIn
  <2>6. QED
    BY <2>1, <2>2, <2>3, <2>4, <2>5
<1>5. f.file_type # "file" => LinesNamed(k) = << >>
  BY <1>2 DEF LinesNamed, LinesIn
<1>6. f.file_type \in {"rtc", "dir", "file"}
  BY <1>3 DEF OpenFile
<1>7. QED
  BY <1>1, <1>2, <1>4, <1>5, <1>6

LEMMA NamedLines ==
    ASSUME NEW k \in 1 .. Len(Dentries)
    PROVE  Len(LinesNamed(k)) \in Nat /\ DOMAIN LinesNamed(k) = 1 .. Len(LinesNamed(k))
<1> DEFINE f == NewFile(Dentries[k].name)
           text == InFile(f.inode)
<1>1. CASE f.file_type = "file"
  <2>1. IsString(text) /\ LinesNamed(k) = LinesOf(text)
    BY <1>1, NamedFile
  <2>2. PICK n \in Nat : \E e : IsMarks(e, n, text)
    BY <2>1, MarksSome
  <2>3. PICK e : IsMarks(e, n, text)
    BY <2>2
  <2>4. LinesOf(text) = [i \in 1 .. n |-> LineAt(text, e, i)]
    BY <2>3, MarksGive
  <2> HIDE DEF text
  <2>5. PICK s : s = LinesNamed(k)
    OBVIOUS
  <2>6. s = [i \in 1 .. n |-> LineAt(text, e, i)]
    BY <2>1, <2>4, <2>5
  <2>7. s \in Seq({LineAt(text, e, i) : i \in 1 .. n})
    BY <2>6
  <2>8. Len(s) \in Nat /\ DOMAIN s = 1 .. Len(s)
    BY <2>7, SeqIs
  <2>9. QED
    BY <2>5, <2>8
<1>2. CASE f.file_type # "file"
  <2>1. LinesNamed(k) = << >>
    BY <1>2, NamedFile
  <2>2. QED
    BY <2>1
<1>3. QED
  BY <1>1, <1>2

LEMMA FoundGrows ==
    ASSUME NEW k \in 1 .. Len(Dentries)
    PROVE  /\ FoundIn(k, 0) = << >>
           /\ \A m \in 0 .. Len(LinesNamed(k)) : IsString(FoundIn(k, m))
           /\ \A m \in 0 .. Len(LinesNamed(k)) - 1 :
                 FoundIn(k, m + 1) = FoundIn(k, m) \o LineFound(k, m + 1)
           /\ IsString(LinesFound(k))
           /\ LinesFound(k) = IF Dentries[k].name[1] = DOT THEN << >>
                              ELSE FoundIn(k, Len(LinesNamed(k)))
<1> DEFINE N == Len(LinesNamed(k))
<1>1. N \in Nat /\ DOMAIN LinesNamed(k) = 1 .. N
  BY NamedLines
<1> HIDE DEF N
<1>2. \A n : IsString(LineFound(k, n))
  BY EmptyString, OneString DEF LineFound
<1> DEFINE f == [n \in 1 .. N |-> LineFound(k, n)]
<1>3. StringsOf(f, N)
  <2>1. DOMAIN f = 1 .. N /\ f = [n \in 1 .. N |-> f[n]] /\ \A n \in 1 .. N : f[n] = LineFound(k, n)
    BY <1>1
  <2> HIDE DEF f
  <2>2. QED
    BY <1>2, <2>1 DEF StringsOf
<1>4. \A n \in 1 .. N : f[n] = LineFound(k, n)
  OBVIOUS
<1> HIDE DEF f
<1>5. \A m \in 0 .. N : FoundIn(k, m) = FlattenSeq([n \in 1 .. m |-> f[n]])
  <2> SUFFICES ASSUME NEW m \in 0 .. N PROVE FoundIn(k, m) = FlattenSeq([n \in 1 .. m |-> f[n]])
    OBVIOUS
  <2>1. \A n \in 1 .. m : n \in 1 .. N
    BY <1>1
  <2>2. [n \in 1 .. m |-> f[n]] = [n \in 1 .. m |-> LineFound(k, n)]
    BY <1>4, <2>1
  <2>3. QED
    BY <2>2 DEF FoundIn
<1>6. /\ FlattenSeq([n \in 1 .. 0 |-> f[n]]) = << >>
      /\ \A m \in 0 .. N : IsString(FlattenSeq([n \in 1 .. m |-> f[n]]))
      /\ \A m \in 0 .. N - 1 : FlattenSeq([n \in 1 .. m + 1 |-> f[n]]) =
                                  FlattenSeq([n \in 1 .. m |-> f[n]]) \o f[m + 1]
  BY <1>1, <1>3, FlattenOf
<1>7. FoundIn(k, 0) = << >> /\ \A m \in 0 .. N : IsString(FoundIn(k, m))
  <2>1. \A m \in 0 .. N : IsString(FoundIn(k, m))
    BY <1>5, <1>6
  <2>2. 0 \in 0 .. N
    BY <1>1
  <2>3. FoundIn(k, 0) = FlattenSeq([n \in 1 .. 0 |-> f[n]])
    BY <1>5, <2>2
  <2>4. QED
    BY <1>6, <2>1, <2>3
<1>8. \A m \in 0 .. N - 1 : FoundIn(k, m + 1) = FoundIn(k, m) \o LineFound(k, m + 1)
  <2> SUFFICES ASSUME NEW m \in 0 .. N - 1
               PROVE  FoundIn(k, m + 1) = FoundIn(k, m) \o LineFound(k, m + 1)
    OBVIOUS
  <2>1. m \in 0 .. N /\ m + 1 \in 0 .. N /\ m + 1 \in 1 .. N
    BY <1>1
  <2>2. QED
    BY <1>4, <1>5, <1>6, <2>1
<1>9. LinesFound(k) = IF Dentries[k].name[1] = DOT THEN << >> ELSE FoundIn(k, N)
  BY <1>1 DEF LinesFound, FoundIn
<1>10. IsString(LinesFound(k))
  BY <1>1, <1>7, <1>9, EmptyString
<1>11. QED
  BY <1>7, <1>8, <1>9, <1>10 DEF N

LEMMA FoundToGrows ==
    /\ FoundTo(0) = << >>
    /\ \A d \in 0 .. Len(Dentries) : IsString(FoundTo(d))
    /\ \A d \in 0 .. Len(Dentries) - 1 : FoundTo(d + 1) = FoundTo(d) \o LinesFound(d + 1)
<1> DEFINE N == Len(Dentries)
<1>1. N \in Nat
  BY DentriesSeq
<1> DEFINE f == [k \in 1 .. N |-> LinesFound(k)]
<1>2. StringsOf(f, N) /\ \A k \in 1 .. N : f[k] = LinesFound(k)
  <2>1. DOMAIN f = 1 .. N /\ f = [k \in 1 .. N |-> f[k]] /\ \A k \in 1 .. N : f[k] = LinesFound(k)
    BY <1>1
  <2>2. \A k \in 1 .. N : IsString(LinesFound(k))
    BY FoundGrows
  <2> HIDE DEF f, N
  <2>3. QED
    BY <2>1, <2>2 DEF StringsOf
<1> HIDE DEF f, N
<1>3. \A d \in 0 .. N : FoundTo(d) = FlattenSeq([k \in 1 .. d |-> f[k]])
  <2> SUFFICES ASSUME NEW d \in 0 .. N PROVE FoundTo(d) = FlattenSeq([k \in 1 .. d |-> f[k]])
    OBVIOUS
  <2>1. \A k \in 1 .. d : k \in 1 .. N
    BY <1>1
  <2>2. [k \in 1 .. d |-> f[k]] = [k \in 1 .. d |-> LinesFound(k)]
    BY <1>2, <2>1
  <2>3. QED
    BY <2>2 DEF FoundTo
<1>4. /\ FlattenSeq([k \in 1 .. 0 |-> f[k]]) = << >>
      /\ \A d \in 0 .. N : IsString(FlattenSeq([k \in 1 .. d |-> f[k]]))
      /\ \A d \in 0 .. N - 1 : FlattenSeq([k \in 1 .. d + 1 |-> f[k]]) =
                                  FlattenSeq([k \in 1 .. d |-> f[k]]) \o f[d + 1]
  BY <1>1, <1>2, FlattenOf
<1>5. FoundTo(0) = << >> /\ \A d \in 0 .. N : IsString(FoundTo(d))
  <2>1. \A d \in 0 .. N : IsString(FoundTo(d))
    BY <1>3, <1>4
  <2>2. 0 \in 0 .. N
    BY <1>1
  <2>3. FoundTo(0) = FlattenSeq([k \in 1 .. 0 |-> f[k]])
    BY <1>3, <2>2
  <2>4. QED
    BY <1>4, <2>1, <2>3
<1>6. \A d \in 0 .. N - 1 : FoundTo(d + 1) = FoundTo(d) \o LinesFound(d + 1)
  <2> SUFFICES ASSUME NEW d \in 0 .. N - 1 PROVE FoundTo(d + 1) = FoundTo(d) \o LinesFound(d + 1)
    OBVIOUS
  <2>1. d \in 0 .. N /\ d + 1 \in 0 .. N /\ d + 1 \in 1 .. N
    BY <1>1
  <2>2. QED
    BY <1>2, <1>3, <1>4, <2>1
<1>7. QED
  BY <1>5, <1>6 DEF N

\* Where a line ends in the buffer: at the first newline, if there is one.
LEMMA LineEndAt ==
    ASSUME p.last \in Nat, NEW start \in Nat, NEW end \in start .. p.last,
           end = p.last \/ p.data[end] = NEWLINE,
           \A j \in start .. end - 1 : p.data[j] # NEWLINE
    PROVE  LineEnd(start) = end
<1> DEFINE End(i) == /\ i = p.last \/ p.data[i] = NEWLINE
                     /\ \A j \in start .. i - 1 : p.data[j] # NEWLINE
<1>1. LineEnd(start) = CHOOSE i \in start .. p.last : End(i)
  BY DEF LineEnd
<1>2. End(end)
  OBVIOUS
<1>3. \A i \in start .. p.last : End(i) => i = end
  <2> SUFFICES ASSUME NEW i \in start .. p.last, End(i) PROVE i = end
    OBVIOUS
  <2>1. i \in Nat /\ end \in Nat /\ i >= start /\ end >= start /\ i <= p.last /\ end <= p.last
    OBVIOUS
  <2>2. ~(i < end)
    <3> SUFFICES ASSUME i < end PROVE FALSE
      OBVIOUS
    <3>1. i \in start .. end - 1 /\ i # p.last
      BY <2>1
    <3>2. QED
      BY <3>1
  <2>3. ~(end < i)
    <3> SUFFICES ASSUME end < i PROVE FALSE
      OBVIOUS
    <3>1. end \in start .. i - 1 /\ end # p.last
      BY <2>1
    <3>2. QED
      BY <3>1
  <2>4. QED
    BY <2>1, <2>2, <2>3
<1> HIDE DEF End
<1>4. QED
  BY <1>1, <1>2, <1>3

\* Characters of the buffer from one place to another.
Slice(data, start, end) == [j \in 1 .. end - start |-> data[start + j - 1]]

LEMMA SliceIs ==
    ASSUME NEW data, NEW start \in Nat, NEW end \in Nat, start <= end
    PROVE  IsString(Slice(data, start, end)) /\ Len(Slice(data, start, end)) = end - start
<1> DEFINE n == end - start
           s == Slice(data, start, end)
<1>1. n \in Nat
  OBVIOUS
<1>2. DOMAIN s = 1 .. n /\ s = [j \in 1 .. n |-> s[j]]
  BY DEF Slice
<1> HIDE DEF n, s
<1>3. IsString(s) /\ Len(s) = n
  BY <1>1, <1>2, StringIs
<1>4. QED
  BY <1>3 DEF s, n

LEMMA StringUpTo ==
    ASSUME NEW B \in Nat, NEW data, DOMAIN data = 0 .. B,
           NEW start \in Nat, NEW end \in start .. B, data[end] = NUL,
           \A j \in start .. end - 1 : data[j] # NUL
    PROVE  StringFrom(data, start, NUL) = Slice(data, start, end)
<1> DEFINE nulls == {j \in DOMAIN data : j >= start /\ data[j] = NUL}
           First(j) == \A k \in nulls : j <= k
<1>1. end \in nulls
  OBVIOUS
<1>2. First(end)
  <2> SUFFICES ASSUME NEW k \in nulls, ~(end <= k) PROVE FALSE
    OBVIOUS
  <2>1. k \in start .. end - 1
    OBVIOUS
  <2>2. QED
    BY <2>1
<1>3. \A j \in nulls : j \in Int
  OBVIOUS
<1> HIDE DEF nulls
<1>4. (CHOOSE j \in nulls : First(j)) = end
  <2>1. \A j \in nulls : First(j) => j = end
    BY <1>1, <1>2, <1>3
  <2> HIDE DEF First
  <2>2. QED
    BY <1>1, <1>2, <2>1
<1>5. StringFrom(data, start, NUL) =
         [j \in 1 .. ((CHOOSE j \in nulls : First(j)) - 1) - start + 1 |-> data[start + j - 1]]
  BY DEF StringFrom, nulls
<1>6. (end - 1) - start + 1 = end - start
  OBVIOUS
<1>7. QED
  BY <1>4, <1>5, <1>6 DEF Slice

\* The search of a line compares what the pattern would be compared with anywhere in it.
LEMMA HoldsIs ==
    ASSUME NEW B \in Nat, NEW data, DOMAIN data = 0 .. B,
           NEW start \in Nat, NEW end \in start .. B, data[end] = NUL,
           \A j \in start .. end - 1 : data[j] # NUL,
           IsString(p.arg), Len(p.arg) >= 1
    PROVE  Holds(data, start, end) <=> HoldsAt(Slice(data, start, end), p.arg) # {}
<1> DEFINE s == p.arg
           n == Len(p.arg)
           line == Slice(data, start, end)
           Same(check) == \A x \in 1 .. n : data[check + x - 1] = s[x]
<1>0. n \in Nat /\ n >= 1 /\ s = [i \in 1 .. n |-> s[i]] /\ end \in Nat /\ start <= end /\ end <= B
  BY StringFacts
<1>1. IsString(line) /\ Len(line) = end - start
      /\ \A j \in 1 .. end - start : line[j] = data[start + j - 1]
  <2>1. IsString(line) /\ Len(line) = end - start
    BY <1>0, SliceIs
  <2>2. \A j \in 1 .. end - start : line[j] = data[start + j - 1]
    BY DEF Slice
  <2>3. QED
    BY <2>1, <2>2
<1> HIDE DEF s, n, line
<1>2. ASSUME NEW check \in start .. end - 1
      PROVE  Alike(StringFrom(data, check, NUL), s, n) <=> n <= end - check /\ Same(check)
  <2> DEFINE rest == Slice(data, check, end)
  <2>1. check \in Nat /\ check <= end /\ end \in check .. B
        /\ \A j \in check .. end - 1 : j \in start .. end - 1
    BY <1>0
  <2>2. StringFrom(data, check, NUL) = rest
    BY <2>1, StringUpTo
  <2>3. IsString(rest) /\ Len(rest) = end - check
    BY <1>0, <2>1, SliceIs
  <2>4. \A x \in 1 .. end - check : rest[x] = data[check + x - 1]
    BY DEF Slice
  <2> HIDE DEF rest
  <2>5. Cut(s, n) = s
    BY <1>0, CutWhole DEF s, n
  <2>6. CASE n <= end - check
    <3>1. Lesser(Len(rest), n) = n
      BY <1>0, <2>1, <2>3, <2>6 DEF Lesser
    <3>2. Cut(rest, n) = [i \in 1 .. n |-> rest[i]]
      <4>0. 1 \in Int /\ n \in Int
        BY <1>0
      <4>1. SubSeq(rest, 1, n) = [i \in 1 .. n - 1 + 1 |-> rest[1 + i - 1]]
        BY <4>0, SubSeqIs
      <4>2. [i \in 1 .. n - 1 + 1 |-> rest[1 + i - 1]] = [i \in 1 .. n |-> rest[i]]
        BY <1>0
      <4>3. QED
        BY <3>1, <4>1, <4>2 DEF Cut
    <3>3. \A x \in 1 .. n : rest[x] = data[check + x - 1]
      BY <1>0, <2>1, <2>4, <2>6
    <3>4. [i \in 1 .. n |-> rest[i]] = s <=> Same(check)
      <4>1. ASSUME [i \in 1 .. n |-> rest[i]] = s PROVE Same(check)
        <5> SUFFICES ASSUME NEW x \in 1 .. n PROVE data[check + x - 1] = s[x]
          OBVIOUS
        <5>1. s[x] = rest[x]
          BY <4>1
        <5>2. QED
          BY <3>3, <5>1
      <4>2. ASSUME Same(check) PROVE [i \in 1 .. n |-> rest[i]] = s
        <5>1. \A x \in 1 .. n : rest[x] = s[x]
          BY <3>3, <4>2
        <5>2. [i \in 1 .. n |-> rest[i]] = [i \in 1 .. n |-> s[i]]
          BY <5>1
        <5>3. QED
          BY <1>0, <5>2
      <4>3. QED
        BY <4>1, <4>2
    <3>5. QED
      BY <2>2, <2>5, <2>6, <3>2, <3>4 DEF Alike
  <2>7. CASE ~(n <= end - check)
    <3>1. Cut(rest, n) = rest
      BY <1>0, <2>1, <2>3, <2>7, CutWhole
    <3>2. rest # s
      BY <1>0, <2>1, <2>3, <2>7 DEF n, s
    <3>3. QED
      BY <2>2, <2>5, <2>7, <3>1, <3>2 DEF Alike
  <2>8. QED
    BY <2>6, <2>7
<1>3. ASSUME NEW i \in 1 .. Len(line) - n + 1
      PROVE  SubSeq(line, i, i + n - 1) = s <=> Same(start + i - 1)
  <2>1. i \in Nat /\ i >= 1 /\ i + n - 1 <= end - start /\ i + n - 1 \in Int
    BY <1>0, <1>1
  <2>2. SubSeq(line, i, i + n - 1) = [x \in 1 .. (i + n - 1) - i + 1 |-> line[i + x - 1]]
    BY <2>1, SubSeqIs
  <2>3. (i + n - 1) - i + 1 = n
    BY <1>0, <2>1
  <2>4. \A x \in 1 .. n : line[i + x - 1] = data[(start + i - 1) + x - 1]
    <3> SUFFICES ASSUME NEW x \in 1 .. n PROVE line[i + x - 1] = data[(start + i - 1) + x - 1]
      OBVIOUS
    <3>a. x \in Nat /\ x >= 1 /\ x <= n /\ n \in Nat /\ end - start \in Int
      BY <1>0
    <3>b. i + x - 1 \in 1 .. end - start
      BY <2>1, <3>a
    <3>c. start + (i + x - 1) - 1 = (start + i - 1) + x - 1
      BY <2>1, <3>a
    <3>1. i + x - 1 \in 1 .. end - start /\ start + (i + x - 1) - 1 = (start + i - 1) + x - 1
      BY <3>b, <3>c
    <3>2. QED
      BY <1>1, <3>1
  <2>5. PICK sub : sub = SubSeq(line, i, i + n - 1)
    OBVIOUS
  <2>6. sub = [x \in 1 .. n |-> line[i + x - 1]]
    BY <2>2, <2>3, <2>5
  <2>7. sub = s <=> \A x \in 1 .. n : line[i + x - 1] = s[x]
    <3>1. ASSUME sub = s PROVE \A x \in 1 .. n : line[i + x - 1] = s[x]
      BY <2>6, <3>1
    <3>2. ASSUME \A x \in 1 .. n : line[i + x - 1] = s[x] PROVE sub = s
      <4>1. sub = [x \in 1 .. n |-> s[x]]
        BY <2>6, <3>2
      <4>2. QED
        BY <1>0, <4>1
    <3>3. QED
      BY <3>1, <3>2
  <2>8. QED
    BY <2>4, <2>5, <2>7
<1>4. Holds(data, start, end) <=>
         \E check \in start .. end - 1 : n <= end - check /\ Same(check)
  <2>1. Holds(data, start, end) <=>
           \E check \in start .. end - 1 : Alike(StringFrom(data, check, NUL), s, n)
    BY DEF Holds, s, n
  <2> HIDE DEF Same
  <2>2. QED
    BY <1>2, <2>1
<1>5. HoldsAt(line, s) # {} <=> \E i \in 1 .. Len(line) - n + 1 : Same(start + i - 1)
  <2>1. HoldsAt(line, s) = {i \in 1 .. Len(line) - n + 1 : SubSeq(line, i, i + n - 1) = s}
    BY DEF HoldsAt, s, n
  <2> HIDE DEF Same
  <2>2. QED
    BY <1>3, <2>1
<1>6. (\E check \in start .. end - 1 : n <= end - check /\ Same(check)) <=>
      (\E i \in 1 .. Len(line) - n + 1 : Same(start + i - 1))
  <2> HIDE DEF Same
  <2>1. ASSUME NEW check \in start .. end - 1, n <= end - check, Same(check)
        PROVE  \E i \in 1 .. Len(line) - n + 1 : Same(start + i - 1)
    <3>1. check - start + 1 \in 1 .. Len(line) - n + 1 /\ start + (check - start + 1) - 1 = check
      <4>1. PICK a \in Nat, b \in Nat, l \in Nat, w \in Nat :
               a = start /\ b = end /\ l = Len(line) /\ w = n
        BY <1>0, <1>1
      <4>2. PICK c \in Nat : c = check /\ a <= c /\ w <= b - c /\ l = b - a
        BY <1>0, <1>1, <2>1, <4>1
      <4> HIDE DEF line, n
      <4>3. c - a + 1 \in 1 .. l - w + 1 /\ a + (c - a + 1) - 1 = c
        BY <4>2
      <4>4. QED
        BY <4>1, <4>2, <4>3
    <3>2. QED
      BY <2>1, <3>1
  <2>2. ASSUME NEW i \in 1 .. Len(line) - n + 1, Same(start + i - 1)
        PROVE  \E check \in start .. end - 1 : n <= end - check /\ Same(check)
    <3>1. start + i - 1 \in start .. end - 1 /\ n <= end - (start + i - 1)
      BY <1>0, <1>1
    <3>2. QED
      BY <2>2, <3>1
  <2>3. QED
    BY <2>1, <2>2
<1>7. QED
  BY <1>4, <1>5, <1>6 DEF line, s

\* The fields of grep that a step leaves alone.
GrepSame(q) == /\ q.prog = p.prog /\ q.arg = p.arg /\ q.dir = p.dir /\ q.junk = p.junk
GrepFile(q) == q.fname = p.fname /\ q.fd = p.fd

LEMMA GrepSets ==
    ASSUME GrepOK
    PROVE  /\ p.prog = "grep"
           /\ \A status : LET q == Ended(status)
                          IN  q.at = "ended" /\ q.status = status /\ GrepSame(q)
           /\ \A at : LET q == [p EXCEPT !.at = at] IN q.at = at /\ GrepSame(q)
           /\ \A dir : LET q == [p EXCEPT !.at = "entry", !.dir = dir]
                       IN  q.at = "entry" /\ q.dir = dir /\ q.arg = p.arg /\ q.junk = p.junk
           /\ \A s : LET q == [p EXCEPT !.at = "file", !.fname = s]
                     IN  q.at = "file" /\ q.fname = s /\ GrepSame(q)
           /\ \A fd, data : LET q == [p EXCEPT !.at = "read", !.fd = fd, !.last = 0, !.data = data]
                            IN  /\ q.at = "read" /\ q.fd = fd /\ q.last = 0 /\ q.data = data
                                /\ q.fname = p.fname /\ GrepSame(q)
           /\ \A cnt, last, data :
                 LET q == [p EXCEPT !.at = "line", !.cnt = cnt, !.last = last, !.line_start = 0,
                                    !.data = data]
                 IN  /\ q.at = "line" /\ q.cnt = cnt /\ q.last = last /\ q.line_start = 0
                     /\ q.data = data /\ GrepSame(q) /\ GrepFile(q)
           /\ \A data, last :
                 LET q == [p EXCEPT !.at = "read", !.data = data, !.last = last]
                 IN  /\ q.at = "read" /\ q.last = last /\ q.data = data
                     /\ GrepSame(q) /\ GrepFile(q)
           /\ \A data, start, last, at :
                 LET q == [p EXCEPT !.data = data, !.line_start = start, !.last = last, !.at = at]
                 IN  /\ q.at = at /\ q.last = last /\ q.line_start = start /\ q.data = data
                     /\ q.cnt = p.cnt /\ GrepSame(q) /\ GrepFile(q)
<1>1. PICK at : GrepShape(p, at)
  BY GrepTypes
<1>2. QED
  BY <1>1 DEF GrepShape, Ended, GrepSame, GrepFile

\* What grep's buffer holds of a text, pos of which are read, when lines 1 .. m are done and
\* the next starts at a place of the buffer.
InBuffer(q, t, pos, start) ==
    \A i \in start .. q.last - 1 : q.data[i] = t[(pos - q.last) + i + 1]
LineOpen(q, t, e, n, pos, m, start) ==
    /\ m < n /\ e[m] = (pos - q.last) + start /\ InBuffer(q, t, pos, start)
\* The same when only the newline of line m is still to come.
LineOver(q, t, e, pos, m) ==
    /\ m >= 1 /\ e[m] = (pos - q.last) + 1 /\ InBuffer(q, t, pos, 0)

\* The byte after the buffer is no newline.
DataOK(q) == /\ q.data = [i \in 0 .. BUFSIZE |-> q.data[i]] /\ q.data[BUFSIZE] # NEWLINE

\* Before a piece is read, and while its lines are looked at; the last piece ends the file.
GrepReads(q, t, e, n, pos, m) ==
    \/ LineOpen(q, t, e, n, pos, m, 0) /\ pos < e[m + 1] /\ q.last < BUFSIZE
    \/ LineOver(q, t, e, pos, m) /\ q.last = 0
GrepLooks(q, t, e, n, pos, m) ==
    /\ pos = Len(t) \/ (q.last = BUFSIZE /\ q.cnt # 0)
    /\ \/ LineOpen(q, t, e, n, pos, m, q.line_start) /\ (q.cnt = 0 => m + 1 = n)
       \/ LineOver(q, t, e, pos, m) /\ q.line_start = 0 /\ (q.cnt = 0 => m = n)

\* What is shown of a line.
ShowsOf(line) == IF HoldsAt(line, p.arg) = {} THEN << >> ELSE <<<<p.fname, line>>>>

\* One round of the inner loop, where end is the end of a line.
LEMMA GrepRound ==
    ASSUME GrepOK, GrepLine
    PROVE  LET start == p.line_start
               end   == LineEnd(start)
               data  == Terminated(end)
               line  == StringFrom(data, start, NUL)
           IN  /\ letters' = letters /\ GrepSame(p') /\ GrepFile(p')
               /\ IF p.data[end] # NEWLINE /\ p.cnt # 0 /\ start # 0
                  THEN /\ p'.at = "read" /\ p'.data = MovedToFront(line)
                       /\ p'.last = p.last - start /\ output' = output
                  ELSE /\ p'.data = data /\ p'.line_start = end + 1 /\ p'.cnt = p.cnt
                       /\ p'.last = IF end + 1 >= p.last THEN 0 ELSE p.last
                       /\ p'.at = IF end + 1 < p.last THEN "line"
                                  ELSE IF p.cnt = 0 THEN "close" ELSE "read"
                       /\ output' = IF Holds(data, start, end)
                                    THEN Append(output, <<p.fname, line>>) ELSE output
<1> DEFINE start == p.line_start
           end   == LineEnd(start)
           data  == Terminated(end)
           line  == StringFrom(data, start, NUL)
           moves == p.data[end] # NEWLINE /\ p.cnt # 0 /\ start # 0
<1>0. PICK old : GrepShape(p, old)
  BY GrepTypes
<1>1. letters' = letters
  BY DEF GrepLine
<1>2. CASE moves
  <2> DEFINE moved == MovedToFront(line)
             left == p.last - start
  <2>1. p' = [p EXCEPT !.at = "read", !.data = moved, !.last = left] /\ output' = output
    BY <1>2 DEF GrepLine, Kept
  <2> HIDE DEF moved, left
  <2>2. p'.at = "read" /\ p'.data = moved /\ p'.last = left /\ GrepSame(p') /\ GrepFile(p')
    BY <1>0, <2>1 DEF GrepShape, GrepSame, GrepFile
  <2>3. QED
    BY <1>1, <1>2, <2>1, <2>2 DEF moved, left
<1>3. CASE ~moves
  <2> DEFINE next == end + 1
             last == IF next >= p.last THEN 0 ELSE p.last
             at == IF next < p.last THEN "line" ELSE IF p.cnt = 0 THEN "close" ELSE "read"
  <2>1. /\ p' = [p EXCEPT !.data = data, !.line_start = next, !.last = last, !.at = at]
        /\ output' = IF Holds(data, start, end)
                     THEN Append(output, <<p.fname, line>>) ELSE output
    BY <1>3 DEF GrepLine
  <2> HIDE DEF data, next, last, at
  <2>2. /\ p'.data = data /\ p'.line_start = next /\ p'.last = last /\ p'.at = at
        /\ p'.cnt = p.cnt /\ GrepSame(p') /\ GrepFile(p')
    BY <1>0, <2>1 DEF GrepShape, GrepSame, GrepFile
  <2>3. QED
    BY <1>1, <1>3, <2>1, <2>2 DEF data, next, last, at
<1>4. QED
  BY <1>2, <1>3

LEMMA TerminatedIs ==
    ASSUME DataOK(p), NEW end \in 0 .. BUFSIZE
    PROVE  /\ DataOK([data |-> Terminated(end)]) /\ DOMAIN Terminated(end) = 0 .. BUFSIZE
           /\ Terminated(end)[end] = NUL
           /\ \A i \in 0 .. BUFSIZE : i # end => Terminated(end)[i] = p.data[i]
<1> DEFINE data == Terminated(end)
<1>0. PICK old : old = p.data
  OBVIOUS
<1>1. old = [i \in 0 .. BUFSIZE |-> old[i]] /\ old[BUFSIZE] # NEWLINE /\ NUL # NEWLINE
      /\ BUFSIZE \in 0 .. BUFSIZE
  BY <1>0, PatternAssumption, AskedSizes DEF DataOK
<1>2. data = [old EXCEPT ![end] = NUL]
  BY <1>0 DEF Terminated
<1>3. /\ DOMAIN data = 0 .. BUFSIZE /\ data[end] = NUL
      /\ \A i \in 0 .. BUFSIZE : i # end => data[i] = old[i]
      /\ data = [i \in 0 .. BUFSIZE |-> data[i]]
  BY <1>1, <1>2
<1> HIDE DEF data
<1>4. data[BUFSIZE] # NEWLINE
  BY <1>1, <1>3
<1>5. DataOK([data |-> data])
  BY <1>3, <1>4 DEF DataOK
<1>6. QED
  BY <1>0, <1>3, <1>5 DEF data

LEMMA MovedIs ==
    ASSUME DataOK(p), NEW line, IsString(line), Len(line) <= BUFSIZE
    PROVE  /\ DataOK([data |-> MovedToFront(line)])
           /\ \A i \in 0 .. Len(line) - 1 : MovedToFront(line)[i] = line[i + 1]
<1> DEFINE data == MovedToFront(line)
           n == Len(line)
<1>1. n \in Nat /\ n <= BUFSIZE /\ BUFSIZE \in Nat /\ NUL # NEWLINE /\ p.data[BUFSIZE] # NEWLINE
  BY PatternAssumption, AskedSizes, StringFacts DEF DataOK
<1> HIDE DEF n
<1>2. data = [i \in 0 .. BUFSIZE |-> IF i < n THEN line[i + 1] ELSE IF i = n THEN NUL ELSE p.data[i]]
  BY DEF MovedToFront, n
<1> HIDE DEF data
<1>3. \A i \in 0 .. n - 1 : data[i] = line[i + 1]
  BY <1>1, <1>2
<1>4. data[BUFSIZE] # NEWLINE /\ data = [i \in 0 .. BUFSIZE |-> data[i]]
  <2>1. BUFSIZE \in 0 .. BUFSIZE /\ ~(BUFSIZE < n)
    BY <1>1
  <2>2. data[BUFSIZE] = NUL \/ data[BUFSIZE] = p.data[BUFSIZE]
    BY <1>2, <2>1
  <2>3. data = [i \in 0 .. BUFSIZE |-> data[i]]
    BY <1>2
  <2>4. QED
    BY <1>1, <2>2, <2>3
<1>5. QED
  BY <1>3, <1>4 DEF DataOK, data, n

\* A line that grep has room for.
LEMMA FitLine ==
    ASSUME NEW t, IsString(t), NEW n \in Nat, NEW e, IsMarks(e, n, t), NEW k \in 1 .. n,
           ~Unfit(LineAt(t, e, k))
    PROVE  /\ LineAt(t, e, k) = [j \in 1 .. e[k] - e[k - 1] - 1 |-> t[e[k - 1] + j]]
           /\ e[k] - e[k - 1] - 1 <= BUFSIZE
           /\ \A i \in e[k - 1] + 1 .. e[k] - 1 : t[i] # NUL /\ t[i] # NEWLINE
<1> DEFINE a == e[k - 1]
           b == e[k]
           len == b - a - 1
           line == LineAt(t, e, k)
<1>1. a \in Nat /\ b \in Nat /\ a < b /\ \A i \in a + 1 .. b - 1 : t[i] # NEWLINE
  BY MarksFacts
<1> HIDE DEF a, b
<1>2. len \in Nat
  BY <1>1
<1>3. line = [j \in 1 .. len |-> t[a + j]]
  <2>1. line = SubSeq(t, a + 1, b - 1)
    BY DEF LineAt, a, b
  <2>2. SubSeq(t, a + 1, b - 1) = [i \in 1 .. (b - 1) - (a + 1) + 1 |-> t[(a + 1) + i - 1]]
    <3>1. a + 1 \in Int /\ b - 1 \in Int
      BY <1>1
    <3>2. QED
      BY <3>1, SubSeqIs
  <2>3. (b - 1) - (a + 1) + 1 = len /\ \A i \in 1 .. len : (a + 1) + i - 1 = a + i
    BY <1>1
  <2> HIDE DEF line, len
  <2>4. [i \in 1 .. len |-> t[(a + 1) + i - 1]] = [j \in 1 .. len |-> t[a + j]]
    BY <2>3
  <2>5. QED
    BY <2>1, <2>2, <2>3, <2>4
<1> HIDE DEF len, line
<1>4. DOMAIN line = 1 .. len /\ line = [j \in 1 .. len |-> line[j]] /\ \A j \in 1 .. len : line[j] = t[a + j]
  BY <1>3
<1>5. Len(line) = len
  BY <1>2, <1>4, StringIs
<1>6. len <= BUFSIZE /\ \A j \in 1 .. len : t[a + j] # NUL
  <2>1. ~Unfit(line)
    BY DEF line
  <2>2. ~(len > BUFSIZE) /\ \A j \in 1 .. len : line[j] # NUL
    BY <1>4, <1>5, <2>1 DEF Unfit
  <2>3. QED
    BY <1>2, <1>4, <2>2, AskedSizes
<1>7. \A i \in a + 1 .. b - 1 : t[i] # NUL
  <2> SUFFICES ASSUME NEW i \in a + 1 .. b - 1 PROVE t[i] # NUL
    OBVIOUS
  <2>1. i - a \in 1 .. len /\ a + (i - a) = i
    BY <1>1 DEF len
  <2>2. t[a + (i - a)] # NUL
    BY <1>6, <2>1
  <2>3. QED
    BY <2>1, <2>2
<1>8. QED
  BY <1>1, <1>3, <1>6, <1>7 DEF a, b, len, line

\* A line that the buffer holds as a whole is shown as it is in the text.
\* An index of a stretch of the buffer.
LEMMA IndexWithin ==
    ASSUME NEW a \in Nat, NEW b \in Nat, NEW c \in Nat, b <= c, NEW i \in a .. b - 1
    PROVE  i \in 0 .. c /\ i # b /\ i \in Nat
  OBVIOUS
LEMMA IndexMoved ==
    ASSUME NEW a \in Nat, NEW b \in Nat, NEW s \in Nat, NEW u \in Nat, u - s = b - a - 1,
           NEW i \in s .. u - 1
    PROVE  a + 1 + (i - s) \in a + 1 .. b - 1
  OBVIOUS
LEMMA ShowsLine ==
    ASSUME GrepOK, DataOK(p), IsString(p.arg), Len(p.arg) >= 1,
           NEW t, IsString(t), NEW n \in Nat, NEW e, IsMarks(e, n, t), NEW k \in 1 .. n,
           ~Unfit(LineAt(t, e, k)),
           NEW start \in Nat, NEW end \in start .. BUFSIZE, end - start = e[k] - e[k - 1] - 1,
           \A i \in start .. end - 1 : p.data[i] = t[e[k - 1] + 1 + (i - start)]
    PROVE  /\ StringFrom(Terminated(end), start, NUL) = LineAt(t, e, k)
           /\ Holds(Terminated(end), start, end) <=> HoldsAt(LineAt(t, e, k), p.arg) # {}
<1> DEFINE data == Terminated(end)
           a == e[k - 1]
           len == end - start
<1>1. a \in Nat /\ e[k] \in Nat
  BY MarksFacts
<1>2. /\ LineAt(t, e, k) = [j \in 1 .. len |-> t[a + j]]
      /\ \A i \in a + 1 .. e[k] - 1 : t[i] # NUL
  BY FitLine
<1>3. BUFSIZE \in Nat /\ end \in 0 .. BUFSIZE /\ start <= end /\ end \in Nat /\ len \in Nat
  BY AskedSizes
<1>4. /\ DOMAIN data = 0 .. BUFSIZE /\ data[end] = NUL
      /\ \A i \in 0 .. BUFSIZE : i # end => data[i] = p.data[i]
  BY <1>3, TerminatedIs
<1> HIDE DEF data, a
<1>5. \A i \in start .. end - 1 : data[i] = t[a + 1 + (i - start)] /\ data[i] # NUL
  <2> SUFFICES ASSUME NEW i \in start .. end - 1
               PROVE  data[i] = t[a + 1 + (i - start)] /\ data[i] # NUL
    OBVIOUS
  <2>1. i \in 0 .. BUFSIZE /\ i # end /\ a + 1 + (i - start) \in a + 1 .. e[k] - 1
    <3>1. end <= BUFSIZE
      BY <1>3
    <3>2. i \in 0 .. BUFSIZE /\ i # end
      BY <1>3, <3>1, IndexWithin, Zenon
    <3>3. a \in Nat /\ e[k] \in Nat /\ end - start = e[k] - a - 1
      BY <1>1 DEF a
    <3>4. a + 1 + (i - start) \in a + 1 .. e[k] - 1
      BY <1>3, <3>3, IndexMoved, Zenon
    <3>5. QED
      BY <3>2, <3>4
  <2>2. data[i] = p.data[i]
    BY <1>4, <2>1
  <2>3. p.data[i] = t[a + 1 + (i - start)]
    BY DEF a
  <2>4. QED
    BY <1>2, <2>1, <2>2, <2>3
<1>6. Slice(data, start, end) = LineAt(t, e, k)
  <2>1. \A j \in 1 .. len : data[start + j - 1] = t[a + j]
    <3> SUFFICES ASSUME NEW j \in 1 .. len PROVE data[start + j - 1] = t[a + j]
      OBVIOUS
    <3>1. start + j - 1 \in start .. end - 1 /\ a + 1 + ((start + j - 1) - start) = a + j
      BY <1>1, <1>3
    <3>2. data[start + j - 1] = t[a + 1 + ((start + j - 1) - start)]
      BY <1>5, <3>1
    <3>3. QED
      BY <3>1, <3>2
  <2>2. Slice(data, start, end) = [j \in 1 .. len |-> data[start + j - 1]]
    BY DEF Slice
  <2> HIDE DEF len
  <2>3. QED
    BY <1>2, <2>1, <2>2
<1>7. StringFrom(data, start, NUL) = Slice(data, start, end)
  BY <1>3, <1>4, <1>5, StringUpTo
<1>8. Holds(data, start, end) <=> HoldsAt(Slice(data, start, end), p.arg) # {}
  BY <1>3, <1>4, <1>5, HoldsIs
<1>9. QED
  BY <1>6, <1>7, <1>8 DEF data

\* What a round of the inner loop does with a line: it is kept for the next piece, or shown,
\* or was shown before.
GrepNext(t, e, n, pos, m) ==
    \/ p'.at = "line" /\ GrepLooks(p', t, e, n, pos, m)
    \/ p'.at = "read" /\ GrepReads(p', t, e, n, pos, m)
    \/ p'.at = "close" /\ m = n

\* The marks of a text that is read as far as pos.
LEMMA NextMark ==
    ASSUME NEW t, IsString(t), NEW n \in Nat, NEW e, IsMarks(e, n, t), NEW m \in 0 .. n - 1
    PROVE  /\ m \in Nat /\ m + 1 \in 1 .. n /\ e[m] \in Nat /\ e[m + 1] \in Nat
           /\ e[m] < e[m + 1] /\ e[m + 1] <= Len(t) + 1 /\ Len(t) \in Nat /\ (m + 1) - 1 = m
           /\ e[m + 1] <= Len(t) => m + 1 < n /\ t[e[m + 1]] = NEWLINE
           /\ e[m + 1] = Len(t) + 1 => m + 1 = n
           /\ \A i \in e[m] + 1 .. e[m + 1] - 1 : t[i] # NEWLINE
<1> DEFINE k == m + 1
<1>1. k \in 1 .. n /\ k - 1 = m /\ m \in Nat
  OBVIOUS
<1>2. /\ n >= 1 /\ e[n] = Len(t) + 1 /\ Len(t) \in Nat
      /\ \A j \in 1 .. n : /\ e[j - 1] \in Nat /\ e[j] \in Nat
                           /\ e[j - 1] < e[j] /\ e[j] <= Len(t) + 1
      /\ \A j \in 1 .. n - 1 : e[j] \in 1 .. Len(t) /\ t[e[j]] = NEWLINE
      /\ \A j \in 1 .. n : \A i \in e[j - 1] + 1 .. e[j] - 1 :
            i \in 1 .. Len(t) /\ t[i] # NEWLINE
  BY MarksFacts
<1>3. /\ e[m] \in Nat /\ e[k] \in Nat /\ e[m] < e[k] /\ e[k] <= Len(t) + 1
      /\ \A i \in e[m] + 1 .. e[k] - 1 : t[i] # NEWLINE
  BY <1>1, <1>2
<1>4. k # n => e[k] <= Len(t) /\ t[e[k]] = NEWLINE
  <2>1. k # n => k \in 1 .. n - 1
    BY <1>1
  <2>2. QED
    BY <1>2, <2>1
<1>5. k = n => e[k] = Len(t) + 1
  BY <1>2
<1> HIDE DEF k
<1>6. e[k] <= Len(t) => k < n /\ t[e[k]] = NEWLINE
  BY <1>1, <1>2, <1>3, <1>4, <1>5
<1>7. e[k] = Len(t) + 1 => k = n
  BY <1>1, <1>2, <1>3, <1>4
<1>8. QED
  BY <1>1, <1>2, <1>3, <1>6, <1>7 DEF k

LEMMA AppendJoins ==
    ASSUME NEW s, IsString(s), NEW x
    PROVE  Append(s, x) = s \o <<x>>
<1> DEFINE A == ToSet(s) \cup {x}
<1>1. s \in Seq(A) /\ x \in A
  BY DEF IsString
<1> HIDE DEF A
<1>2. Append(s, x) = s \o <<x>>
  BY <1>1
<1>3. QED
  BY <1>2

LEMMA ShowsOrNot ==
    ASSUME IsString(output), NEW line, NEW holds, holds <=> HoldsAt(line, p.arg) # {},
           output' = IF holds THEN Append(output, <<p.fname, line>>) ELSE output
    PROVE  output' = output \o ShowsOf(line)
<1>1. CASE HoldsAt(line, p.arg) = {}
  BY <1>1, JoinEmpty DEF ShowsOf
<1>2. CASE HoldsAt(line, p.arg) # {}
  <2>1. output' = Append(output, <<p.fname, line>>)
    BY <1>2
  <2>2. QED
    BY <1>2, <2>1, AppendJoins DEF ShowsOf
<1>3. QED
  BY <1>1, <1>2

\* The line that comes next, when its newline is in the buffer.
LEMMA WholeLine ==
    ASSUME GrepOK, GrepLine, DataOK(p), IsString(p.arg), Len(p.arg) >= 1, IsString(output),
           NEW t, IsString(t), NEW n \in Nat, NEW e, IsMarks(e, n, t),
           NEW pos \in 0 .. Len(t), NEW m \in 0 .. n - 1,
           ~Unfit(LineAt(t, e, m + 1)),
           LineOpen(p, t, e, n, pos, m, p.line_start), p.cnt = 0 => m + 1 = n,
           pos = Len(t) \/ (p.last = BUFSIZE /\ p.cnt # 0),
           e[m + 1] <= pos
    PROVE  /\ DataOK(p') /\ output' = output \o ShowsOf(LineAt(t, e, m + 1))
           /\ GrepNext(t, e, n, pos, m + 1)
<1> DEFINE k == m + 1
           start == p.line_start
           last == p.last
           end == start + (e[k] - 1 - e[m])
           base == pos - last
           data == Terminated(end)
<1>1. /\ m \in Nat /\ k \in 1 .. n /\ e[m] \in Nat /\ e[k] \in Nat /\ k - 1 = m
      /\ e[m] < e[k] /\ e[k] <= Len(t) + 1 /\ Len(t) \in Nat
      /\ e[k] <= Len(t) => k < n /\ t[e[k]] = NEWLINE
      /\ \A i \in e[m] + 1 .. e[k] - 1 : t[i] # NEWLINE
  <2>1. PICK l \in 0 .. n - 1 : l = m
    OBVIOUS
  <2>2. /\ l \in Nat /\ l + 1 \in 1 .. n /\ e[l] \in Nat /\ e[l + 1] \in Nat /\ (l + 1) - 1 = l
        /\ e[l] < e[l + 1] /\ e[l + 1] <= Len(t) + 1 /\ Len(t) \in Nat
        /\ e[l + 1] <= Len(t) => l + 1 < n /\ t[e[l + 1]] = NEWLINE
        /\ \A i \in e[l] + 1 .. e[l + 1] - 1 : t[i] # NEWLINE
    BY NextMark
  <2>3. QED
    BY <2>1, <2>2, Zenon
<1>2. /\ start \in Nat /\ last \in Nat /\ last <= BUFSIZE /\ BUFSIZE \in Nat
      /\ start <= last /\ base \in Int /\ pos \in Nat
  <2>1. start \in Nat /\ last \in Nat /\ last <= BUFSIZE /\ BUFSIZE \in Nat
    BY GrepTypes, AskedSizes
  <2>2. start <= last
    BY DEF GrepLine, At, GrepOK
  <2>3. pos \in Nat
    BY <1>1
  <2> HIDE DEF start, last
  <2>4. base \in Int
    BY <2>1, <2>3 DEF base
  <2>5. QED
    BY <2>1, <2>2, <2>3, <2>4
<1>3. e[m] = base + start /\ \A i \in start .. last - 1 : p.data[i] = t[base + i + 1]
  BY DEF LineOpen, InBuffer
<1> HIDE DEF k, start, last, base
<1>4. /\ end \in Nat /\ start <= end /\ end < last /\ end \in start .. last /\ end \in 0 .. BUFSIZE
      /\ base + end + 1 = e[k] /\ end \in start .. last - 1 /\ end \in start .. BUFSIZE
      /\ end - start = e[k] - e[m] - 1
  <2>1. base + last = pos
    BY <1>2 DEF base, last
  <2>2. PICK a \in Nat, b \in Nat : a = e[m] /\ b = e[k] /\ a < b /\ b <= pos
    BY <1>1 DEF k
  <2>3. end = start + (b - 1 - a)
    BY <2>2
  <2> HIDE DEF end
  <2>4. a = base + start
    BY <1>3, <2>2
  <2>5. end \in Nat /\ start <= end /\ end < last /\ base + end + 1 = b /\ end - start = b - a - 1
    <3>1. PICK x \in Nat, y \in Nat, z \in Int : x = start /\ y = last /\ z = base /\ z + y = pos /\ a = z + x
      BY <1>2, <2>1, <2>4
    <3>2. end = x + (b - 1 - a) /\ b <= pos /\ pos \in Nat /\ a < b
      BY <1>2, <2>2, <2>3, <3>1
    <3>3. end \in Nat
      BY <3>1, <3>2
    <3>4. x <= end /\ end < y /\ z + end + 1 = b
      BY <3>1, <3>2
    <3>5. end - x = b - a - 1
      BY <3>1, <3>2
    <3>6. QED
      BY <3>1, <3>3, <3>4, <3>5
  <2>6. QED
    BY <1>2, <2>2, <2>5
<1>5. k < n /\ t[e[k]] = NEWLINE /\ p.cnt # 0
  <2>1. e[k] <= Len(t)
    BY <1>1, <1>2 DEF k
  <2>2. p.cnt = 0 => k = n
    BY DEF k
  <2>3. QED
    BY <1>1, <2>1, <2>2
<1> HIDE DEF end
<1>6. LineEnd(start) = end
  <2>1. p.data[end] = NEWLINE
    BY <1>3, <1>4, <1>5
  <2>2. \A j \in start .. end - 1 : p.data[j] # NEWLINE
    <3> SUFFICES ASSUME NEW j \in start .. end - 1 PROVE p.data[j] # NEWLINE
      OBVIOUS
    <3>1. j \in start .. last - 1 /\ base + j + 1 \in e[m] + 1 .. e[k] - 1
      BY <1>1, <1>2, <1>3, <1>4
    <3>2. QED
      BY <1>1, <1>3, <3>1
  <2>3. QED
    BY <1>2, <1>4, <2>1, <2>2, LineEndAt DEF last
<1> HIDE DEF data
<1>7. /\ StringFrom(data, start, NUL) = LineAt(t, e, k)
      /\ Holds(data, start, end) <=> HoldsAt(LineAt(t, e, k), p.arg) # {}
  <2>1. \A i \in start .. end - 1 : p.data[i] = t[e[k - 1] + 1 + (i - start)]
    <3> SUFFICES ASSUME NEW i \in start .. end - 1
                 PROVE  p.data[i] = t[e[k - 1] + 1 + (i - start)]
      OBVIOUS
    <3>1. i \in start .. last - 1 /\ base + i + 1 = e[m] + 1 + (i - start)
      BY <1>2, <1>3, <1>4
    <3>2. QED
      BY <1>1, <1>3, <3>1
  <2>2. ~Unfit(LineAt(t, e, k)) /\ end - start = e[k] - e[k - 1] - 1
    BY <1>1, <1>4 DEF k
  <2>3. QED
    <3>1. PICK l \in 1 .. n, x \in Nat : l = k /\ x = start
      BY <1>1, <1>2
    <3>2. PICK y \in x .. BUFSIZE : y = end
      BY <1>4, <3>1
    <3>3. \A i \in x .. y - 1 : p.data[i] = t[e[l - 1] + 1 + (i - x)]
      BY <2>1, <3>1, <3>2
    <3>4. ~Unfit(LineAt(t, e, l)) /\ y - x = e[l] - e[l - 1] - 1
      BY <2>2, <3>1, <3>2
    <3>5. /\ StringFrom(Terminated(y), x, NUL) = LineAt(t, e, l)
          /\ Holds(Terminated(y), x, y) <=> HoldsAt(LineAt(t, e, l), p.arg) # {}
      BY <3>3, <3>4, ShowsLine
    <3>6. QED
      BY <3>1, <3>2, <3>5 DEF data
<1>8. /\ p'.data = data /\ p'.line_start = end + 1 /\ p'.cnt = p.cnt
      /\ p'.last = IF end + 1 >= last THEN 0 ELSE last
      /\ p'.at = IF end + 1 < last THEN "line" ELSE "read"
      /\ output' = IF Holds(data, start, end)
                   THEN Append(output, <<p.fname, LineAt(t, e, k)>>) ELSE output
  <2>1. p.data[end] = NEWLINE
    BY <1>3, <1>4, <1>5
  <2>2. QED
    BY <1>5, <1>6, <1>7, <2>1, GrepRound DEF start, last, data
<1>9. /\ DataOK(p') /\ \A i \in 0 .. BUFSIZE : i # end => p'.data[i] = p.data[i]
  BY <1>4, <1>8, TerminatedIs DEF DataOK, data
<1>10. output' = output \o ShowsOf(LineAt(t, e, k))
  BY <1>7, <1>8, ShowsOrNot
<1>11. GrepNext(t, e, n, pos, k)
  <2>1. CASE end + 1 < last
    <3>1. p'.last = last /\ p'.line_start = end + 1 /\ p'.at = "line"
      BY <1>2, <1>4, <1>8, <2>1
    <3>2. \A i \in end + 1 .. last - 1 : p'.data[i] = t[base + i + 1]
      <4> SUFFICES ASSUME NEW i \in end + 1 .. last - 1 PROVE p'.data[i] = t[base + i + 1]
        OBVIOUS
      <4>1. i \in 0 .. BUFSIZE /\ i # end /\ i \in start .. last - 1
        <5>1. PICK a \in Nat, b \in Nat, x \in Nat, size \in Nat :
                 /\ a = start /\ b = last /\ x = end /\ size = BUFSIZE
                 /\ a <= x /\ b <= size
          BY <1>2, <1>4
        <5>2. i \in Int /\ x + 1 <= i /\ i <= b - 1
          BY <5>1
        <5>3. i \in 0 .. size /\ i # x /\ i \in a .. b - 1
          BY <5>1, <5>2
        <5>4. QED
          BY <5>1, <5>3
      <4>2. QED
        BY <1>3, <1>9, <4>1
    <3>3. e[k] = base + (end + 1)
      BY <1>1, <1>2, <1>4
    <3>4. LineOpen(p', t, e, n, pos, k, p'.line_start)
      BY <1>5, <3>1, <3>2, <3>3 DEF LineOpen, InBuffer, base, last
    <3>5. pos = Len(t) \/ (p'.last = BUFSIZE /\ p'.cnt # 0)
      BY <1>8, <3>1 DEF last
    <3>6. QED
      BY <1>5, <1>8, <3>1, <3>4, <3>5 DEF GrepNext, GrepLooks
  <2>2. CASE ~(end + 1 < last)
    <3>1. p'.last = 0 /\ p'.at = "read"
      BY <1>2, <1>4, <1>8, <2>2
    <3>2. e[k] = pos
      <4>1. base + last = pos
        BY <1>2 DEF base, last
      <4>2. PICK x \in Nat, y \in Nat, z \in Int, b \in Nat :
               x = end /\ y = last /\ z = base /\ b = e[k]
        BY <1>1, <1>2, <1>4
      <4>3. x < y /\ ~(x + 1 < y) /\ z + x + 1 = b /\ z + y = pos
        BY <1>4, <2>2, <4>1, <4>2
      <4>4. x + 1 = y
        BY <4>3
      <4>5. QED
        BY <4>2, <4>3, <4>4
    <3>3. \A i \in 0 .. 0 - 1 : p'.data[i] = t[(pos - 0) + i + 1]
      OBVIOUS
    <3>4. e[k] = (pos - 0) + 0
      BY <1>2, <3>2
    <3>5. LineOpen(p', t, e, n, pos, k, 0)
      BY <1>5, <3>1, <3>3, <3>4 DEF LineOpen, InBuffer
    <3>6. k \in 0 .. n - 1
      BY <1>1, <1>5
    <3>7. e[k] < e[k + 1]
      BY <3>6, NextMark
    <3>8. p'.last < BUFSIZE
      BY <3>1, AskedSizes
    <3>9. QED
      BY <3>1, <3>2, <3>5, <3>7, <3>8 DEF GrepNext, GrepReads
  <2>3. QED
    BY <2>1, <2>2
<1>12. QED
  BY <1>9, <1>10, <1>11 DEF k

\* A line that goes on where the buffer ends.
LEMMA LineGoesOn ==
    ASSUME GrepOK, GrepLine, DataOK(p),
           NEW t, IsString(t), NEW n \in Nat, NEW e, IsMarks(e, n, t),
           NEW pos \in 0 .. Len(t), NEW m \in 0 .. n - 1,
           ~Unfit(LineAt(t, e, m + 1)),
           LineOpen(p, t, e, n, pos, m, p.line_start), pos < e[m + 1]
    PROVE  /\ LineEnd(p.line_start) = p.last /\ e[m] = (pos - p.last) + p.line_start
           /\ p.line_start \in Nat /\ p.last \in p.line_start .. BUFSIZE /\ p.last \in Nat
           /\ \A i \in p.line_start .. p.last - 1 :
                 p.data[i] = t[e[m] + 1 + (i - p.line_start)] /\ p.data[i] # NUL
<1>1. /\ e[m] \in Nat /\ e[m + 1] \in Nat /\ (m + 1) - 1 = m /\ m + 1 \in 1 .. n
      /\ \A i \in e[m] + 1 .. e[m + 1] - 1 : t[i] # NEWLINE
      /\ Len(t) \in Nat
  BY NextMark
<1>2. \A i \in e[m] + 1 .. e[m + 1] - 1 : t[i] # NUL
  <2>1. PICK k \in 1 .. n : k = m + 1
    BY <1>1
  <2>2. \A i \in e[k - 1] + 1 .. e[k] - 1 : t[i] # NUL
    BY <2>1, FitLine
  <2>3. k - 1 = m
    BY <1>1, <2>1
  <2>4. QED
    BY <2>1, <2>2, <2>3
<1>3. PICK start \in Nat, last \in Nat : start = p.line_start /\ last = p.last
  BY GrepTypes
<1>4. start <= last /\ last <= BUFSIZE /\ BUFSIZE \in Nat
  BY <1>3, GrepTypes, AskedSizes DEF GrepLine, At, GrepOK
<1>5. PICK a \in Nat, b \in Nat : a = e[m] /\ b = e[m + 1]
  BY <1>1
<1>6. /\ pos \in Nat /\ pos < b /\ a = (pos - last) + start
      /\ \A i \in start .. last - 1 : p.data[i] = t[(pos - last) + i + 1]
  BY <1>1, <1>3, <1>5 DEF LineOpen, InBuffer
<1>7. \A i \in start .. last - 1 : /\ p.data[i] = t[a + 1 + (i - start)] /\ p.data[i] # NUL
                                   /\ p.data[i] # NEWLINE
  <2> SUFFICES ASSUME NEW i \in start .. last - 1
               PROVE  p.data[i] = t[a + 1 + (i - start)] /\ p.data[i] # NUL /\ p.data[i] # NEWLINE
    OBVIOUS
  <2>1. (pos - last) + i + 1 = a + 1 + (i - start) /\ a + 1 + (i - start) \in a + 1 .. b - 1
    BY <1>4, <1>6
  <2>2. p.data[i] = t[a + 1 + (i - start)]
    BY <1>6, <2>1
  <2>3. QED
    BY <1>1, <1>2, <1>5, <2>1, <2>2
<1>8. LineEnd(start) = last
  <2>1. last \in start .. p.last /\ p.last \in Nat
    BY <1>3, <1>4
  <2>2. QED
    BY <1>3, <1>7, <2>1, LineEndAt
<1>9. last \in start .. BUFSIZE /\ last \in Nat /\ start \in Nat
  BY <1>4
<1>10. LineEnd(start) = last /\ a = (pos - last) + start
  BY <1>6, <1>8
<1>11. \A i \in start .. last - 1 : p.data[i] = t[a + 1 + (i - start)] /\ p.data[i] # NUL
  BY <1>7
<1>12. QED
  BY <1>3, <1>5, <1>9, <1>10, <1>11

\* It is moved to the front,
LEMMA LineKept ==
    ASSUME GrepOK, GrepLine, DataOK(p),
           NEW t, IsString(t), NEW n \in Nat, NEW e, IsMarks(e, n, t),
           NEW pos \in 0 .. Len(t), NEW m \in 0 .. n - 1,
           ~Unfit(LineAt(t, e, m + 1)),
           LineOpen(p, t, e, n, pos, m, p.line_start), pos < e[m + 1],
           p.data[p.last] # NEWLINE, p.cnt # 0, p.line_start # 0
    PROVE  DataOK(p') /\ output' = output /\ GrepNext(t, e, n, pos, m)
<1>1. /\ LineEnd(p.line_start) = p.last /\ e[m] = (pos - p.last) + p.line_start
      /\ p.line_start \in Nat /\ p.last \in p.line_start .. BUFSIZE /\ p.last \in Nat
      /\ \A i \in p.line_start .. p.last - 1 :
            p.data[i] = t[e[m] + 1 + (i - p.line_start)] /\ p.data[i] # NUL
  BY LineGoesOn
<1>2. PICK start \in Nat, last \in Nat : start = p.line_start /\ last = p.last
  BY <1>1
<1>3. PICK data : data = Terminated(last)
  OBVIOUS
<1>4. /\ p'.at = "read" /\ p'.data = MovedToFront(StringFrom(data, start, NUL))
      /\ p'.last = last - start /\ output' = output
  BY <1>1, <1>2, <1>3, GrepRound
<1>5. BUFSIZE \in Nat /\ last <= BUFSIZE /\ start <= last /\ start >= 1 /\ last \in start .. BUFSIZE
      /\ last \in 0 .. BUFSIZE
  <2>1. BUFSIZE \in Nat /\ last \in start .. BUFSIZE /\ start # 0
    BY <1>1, <1>2, AskedSizes, Zenon
  <2>2. last <= BUFSIZE /\ start <= last /\ start >= 1 /\ last \in 0 .. BUFSIZE
    BY <2>1
  <2>3. QED
    BY <2>1, <2>2
<1>6. /\ DOMAIN data = 0 .. BUFSIZE /\ data[last] = NUL
      /\ \A i \in 0 .. BUFSIZE : i # last => data[i] = p.data[i]
  BY <1>3, <1>5, TerminatedIs
<1>7. \A i \in start .. last - 1 : data[i] = t[e[m] + 1 + (i - start)] /\ data[i] # NUL
  <2> SUFFICES ASSUME NEW i \in start .. last - 1
               PROVE  data[i] = t[e[m] + 1 + (i - start)] /\ data[i] # NUL
    OBVIOUS
  <2>1. i \in 0 .. BUFSIZE /\ i # last
    BY <1>5
  <2>2. QED
    BY <1>1, <1>2, <1>6, <2>1
<1>8. StringFrom(data, start, NUL) = Slice(data, start, last)
  BY <1>5, <1>6, <1>7, StringUpTo
<1>9. PICK line : line = Slice(data, start, last)
  OBVIOUS
<1>10. IsString(line) /\ Len(line) = last - start /\ Len(line) <= BUFSIZE
  BY <1>5, <1>9, SliceIs
<1>11. \A j \in 1 .. last - start : line[j] = data[start + j - 1]
  BY <1>9 DEF Slice
<1>12. p'.data = MovedToFront(line)
  BY <1>4, <1>8, <1>9
<1>13. DataOK(p') /\ \A i \in 0 .. Len(line) - 1 : p'.data[i] = line[i + 1]
  BY <1>10, <1>12, MovedIs DEF DataOK
<1>14. PICK a \in Nat : a = e[m]
  BY NextMark
<1>15. \A i \in 0 .. (last - start) - 1 : p'.data[i] = t[(pos - (last - start)) + i + 1]
  <2> SUFFICES ASSUME NEW i \in 0 .. (last - start) - 1
               PROVE  p'.data[i] = t[(pos - (last - start)) + i + 1]
    OBVIOUS
  <2>1. i \in 0 .. Len(line) - 1 /\ i + 1 \in 1 .. last - start /\ start + (i + 1) - 1 = start + i
        /\ start + i \in start .. last - 1
    BY <1>5, <1>10
  <2>2. p'.data[i] = data[start + i]
    BY <1>11, <1>13, <2>1
  <2>3. data[start + i] = t[a + 1 + ((start + i) - start)]
    BY <1>7, <1>14, <2>1
  <2>4. a = (pos - last) + start /\ pos \in Int
    BY <1>1, <1>2, <1>14, StringFacts
  <2>5. a + 1 + ((start + i) - start) = (pos - (last - start)) + i + 1
    <3>1. PICK x \in Nat, y \in Nat, z \in Int, j \in Int :
             x = start /\ y = last /\ z = pos /\ j = i /\ a = (z - y) + x
      BY <1>5, <2>4
    <3>2. a + 1 + ((x + j) - x) = (z - (y - x)) + j + 1
      BY <3>1
    <3>3. QED
      BY <3>1, <3>2
  <2>6. QED
    BY <2>2, <2>3, <2>5
<1>16. e[m] = (pos - (last - start)) + 0
  <2>1. a = (pos - last) + start /\ pos \in Int
    BY <1>1, <1>2, <1>14, StringFacts
  <2>2. QED
    BY <1>5, <1>14, <2>1
<1>17. m < n /\ last - start < BUFSIZE
  BY <1>5
<1>18. LineOpen(p', t, e, n, pos, m, 0)
  BY <1>4, <1>15, <1>16, <1>17 DEF LineOpen, InBuffer
<1>19. QED
  BY <1>4, <1>13, <1>17, <1>18 DEF GrepNext, GrepReads

\* or the text ends there, or the buffer is full with it, and it is shown.
LEMMA LineLast ==
    ASSUME GrepOK, GrepLine, DataOK(p), IsString(p.arg), Len(p.arg) >= 1, IsString(output),
           NEW t, IsString(t), NEW n \in Nat, NEW e, IsMarks(e, n, t),
           NEW pos \in 0 .. Len(t), NEW m \in 0 .. n - 1,
           ~Unfit(LineAt(t, e, m + 1)),
           LineOpen(p, t, e, n, pos, m, p.line_start), p.cnt = 0 => m + 1 = n,
           pos = Len(t) \/ (p.last = BUFSIZE /\ p.cnt # 0),
           pos < e[m + 1],
           ~(p.data[p.last] # NEWLINE /\ p.cnt # 0 /\ p.line_start # 0)
    PROVE  /\ DataOK(p') /\ output' = output \o ShowsOf(LineAt(t, e, m + 1))
           /\ GrepNext(t, e, n, pos, m + 1)
<1>1. /\ LineEnd(p.line_start) = p.last /\ e[m] = (pos - p.last) + p.line_start
      /\ p.line_start \in Nat /\ p.last \in p.line_start .. BUFSIZE /\ p.last \in Nat
      /\ \A i \in p.line_start .. p.last - 1 :
            p.data[i] = t[e[m] + 1 + (i - p.line_start)] /\ p.data[i] # NUL
  BY LineGoesOn
<1>2. PICK start \in Nat, last \in Nat : start = p.line_start /\ last = p.last
  BY <1>1
<1>3. PICK k \in 1 .. n : k = m + 1 /\ k - 1 = m
  BY NextMark
<1>4. PICK a \in Nat, b \in Nat : a = e[m] /\ b = e[k]
  BY <1>3, NextMark
<1>5. /\ BUFSIZE \in Nat /\ start <= last /\ last <= BUFSIZE /\ pos \in Nat /\ pos < b
      /\ a = (pos - last) + start /\ last \in start .. BUFSIZE /\ last \in 0 .. BUFSIZE
      /\ Len(t) \in Nat /\ pos <= Len(t)
  BY <1>1, <1>2, <1>3, <1>4, AskedSizes, StringFacts
<1>6. b = pos + 1
  <2>1. b <= Len(t) + 1
    BY <1>3, <1>4, NextMark
  <2>2. CASE pos = Len(t)
    BY <1>5, <2>1, <2>2
  <2>3. CASE last = BUFSIZE /\ p.cnt # 0
    <3>1. p.data[last] # NEWLINE
      BY <2>3 DEF DataOK
    <3>2. start = 0
      BY <1>2, <2>3, <3>1
    <3>3. b - a - 1 <= BUFSIZE
      <4>1. ~Unfit(LineAt(t, e, k))
        BY <1>3
      <4>2. e[k] - e[k - 1] - 1 <= BUFSIZE
        BY <4>1, FitLine
      <4>3. QED
        BY <1>3, <1>4, <4>2
    <3>4. QED
      BY <1>5, <2>3, <3>2, <3>3
  <2>4. QED
    BY <1>2, <2>2, <2>3
<1>7. /\ StringFrom(Terminated(last), start, NUL) = LineAt(t, e, k)
      /\ Holds(Terminated(last), start, last) <=> HoldsAt(LineAt(t, e, k), p.arg) # {}
  <2>1. ~Unfit(LineAt(t, e, k))
    BY <1>3
  <2>2. last - start = e[k] - e[k - 1] - 1
    <3>1. last - start = b - a - 1
      BY <1>5, <1>6
    <3>2. QED
      BY <1>3, <1>4, <3>1
  <2>3. \A i \in start .. last - 1 : p.data[i] = t[e[k - 1] + 1 + (i - start)]
    BY <1>1, <1>2, <1>3
  <2>4. PICK y \in start .. BUFSIZE : y = last
    BY <1>5
  <2>5. y - start = e[k] - e[k - 1] - 1
    BY <2>2, <2>4
  <2>6. \A i \in start .. y - 1 : p.data[i] = t[e[k - 1] + 1 + (i - start)]
    BY <2>3, <2>4
  <2>7. /\ StringFrom(Terminated(y), start, NUL) = LineAt(t, e, k)
        /\ Holds(Terminated(y), start, y) <=> HoldsAt(LineAt(t, e, k), p.arg) # {}
    <3>1. PICK x \in Nat : x = start
      OBVIOUS
    <3>2. y \in x .. BUFSIZE /\ y - x = e[k] - e[k - 1] - 1
      BY <2>5, <3>1
    <3>3. \A i \in x .. y - 1 : p.data[i] = t[e[k - 1] + 1 + (i - x)]
      BY <2>6, <3>1
    <3>4. /\ StringFrom(Terminated(y), x, NUL) = LineAt(t, e, k)
          /\ Holds(Terminated(y), x, y) <=> HoldsAt(LineAt(t, e, k), p.arg) # {}
      BY <2>1, <3>2, <3>3, ShowsLine
    <3>5. QED
      BY <3>1, <3>4
  <2>8. QED
    BY <2>4, <2>7
<1>8. /\ p'.data = Terminated(last)
      /\ p'.last = IF last + 1 >= last THEN 0 ELSE last
      /\ p'.at = IF last + 1 < last THEN "line" ELSE IF p.cnt = 0 THEN "close" ELSE "read"
      /\ output' = IF Holds(Terminated(last), start, last)
                   THEN Append(output, <<p.fname, StringFrom(Terminated(last), start, NUL)>>)
                   ELSE output
  BY <1>1, <1>2, GrepRound
<1>9. last + 1 >= last /\ ~(last + 1 < last)
  OBVIOUS
<1>10. p'.last = 0 /\ p'.at = IF p.cnt = 0 THEN "close" ELSE "read"
  BY <1>8, <1>9
<1>11. DataOK(p')
  BY <1>5, <1>8, TerminatedIs DEF DataOK
<1>12. output' = output \o ShowsOf(LineAt(t, e, k))
  BY <1>7, <1>8, ShowsOrNot
<1>13. LineOver(p', t, e, pos, k)
  <2>1. \A i \in 0 .. 0 - 1 : p'.data[i] = t[(pos - 0) + i + 1]
    OBVIOUS
  <2>2. k >= 1 /\ e[k] = (pos - 0) + 1
    BY <1>4, <1>5, <1>6
  <2>3. QED
    BY <1>10, <2>1, <2>2 DEF LineOver, InBuffer
<1>14. GrepNext(t, e, n, pos, k)
  <2>1. CASE p.cnt = 0
    BY <1>3, <1>10, <2>1 DEF GrepNext
  <2>2. CASE p.cnt # 0
    BY <1>10, <1>13, <2>2 DEF GrepNext, GrepReads
  <2>3. QED
    BY <2>1, <2>2
<1>15. QED
  BY <1>3, <1>11, <1>12, <1>14

\* When only the newline of a line was to come, nothing is shown.
LEMMA LineWasOver ==
    ASSUME GrepOK, GrepLine, DataOK(p),
           NEW t, IsString(t), NEW n \in Nat, NEW e, IsMarks(e, n, t),
           NEW pos \in 0 .. Len(t), NEW m \in 0 .. n,
           pos = Len(t) \/ (p.last = BUFSIZE /\ p.cnt # 0),
           LineOver(p, t, e, pos, m), p.line_start = 0, p.cnt = 0 => m = n
    PROVE  DataOK(p') /\ output' = output /\ GrepNext(t, e, n, pos, m)
<1>1. PICK last \in Nat : last = p.last /\ last <= BUFSIZE /\ BUFSIZE \in Nat /\ BUFSIZE >= 1
  BY GrepTypes, AskedSizes
<1>2. PICK a \in Nat : a = e[m]
  BY DEF IsMarks
<1>3. /\ m >= 1 /\ m \in 1 .. n /\ m \in Nat /\ a = (pos - last) + 1
      /\ \A i \in 0 .. last - 1 : p.data[i] = t[(pos - last) + i + 1]
  <2>1. m >= 1 /\ e[m] = (pos - p.last) + 1 /\ InBuffer(p, t, pos, 0)
    BY DEF LineOver
  <2>2. m \in 1 .. n /\ m \in Nat
    BY <2>1
  <2>3. a = (pos - last) + 1
    BY <1>1, <1>2, <2>1
  <2>4. \A i \in 0 .. last - 1 : p.data[i] = t[(pos - last) + i + 1]
    BY <1>1, <2>1 DEF InBuffer
  <2>5. QED
    BY <2>1, <2>2, <2>3, <2>4
<1>4. /\ Len(t) \in Nat /\ a <= Len(t) + 1 /\ pos \in Nat /\ pos <= Len(t)
      /\ m # n => a <= Len(t) /\ t[a] = NEWLINE
      /\ m = n => a = Len(t) + 1
  <2>1. /\ n >= 1 /\ e[n] = Len(t) + 1 /\ Len(t) \in Nat
        /\ \A k \in 1 .. n - 1 : e[k] \in 1 .. Len(t) /\ t[e[k]] = NEWLINE
    BY MarksFacts
  <2>2. m # n => m \in 1 .. n - 1
    BY <1>3
  <2>3. QED
    BY <1>2, <2>1, <2>2
<1>5. 0 \in 0 .. last /\ LineEnd(0) = 0 /\ ~(p.data[0] # NEWLINE /\ p.cnt # 0 /\ 0 # 0)
  <2>1. 0 = last \/ p.data[0] = NEWLINE
    <3>1. CASE last = 0
      BY <3>1
    <3>2. CASE last # 0
      <4>1. a <= Len(t)
        BY <1>3, <1>4, <3>2
      <4>2. m # n
        BY <1>4, <4>1
      <4>3. t[a] = NEWLINE /\ 0 \in 0 .. last - 1 /\ (pos - last) + 0 + 1 = a
        BY <1>3, <1>4, <3>2, <4>2
      <4>4. p.data[0] = t[(pos - last) + 0 + 1]
        BY <1>3, <4>3
      <4>5. QED
        BY <4>3, <4>4
    <3>3. QED
      BY <3>1, <3>2
  <2>2. 0 \in 0 .. p.last /\ p.last \in Nat /\ (0 = p.last \/ p.data[0] = NEWLINE)
    BY <1>1, <2>1
  <2>3. \A j \in 0 .. 0 - 1 : p.data[j] # NEWLINE
    OBVIOUS
  <2>4. QED
    BY <1>1, <2>1, <2>2, <2>3, LineEndAt
<1>6. /\ p'.data = Terminated(0) /\ p'.line_start = 0 + 1 /\ p'.cnt = p.cnt
      /\ p'.last = IF 0 + 1 >= last THEN 0 ELSE last
      /\ p'.at = IF 0 + 1 < last THEN "line" ELSE IF p.cnt = 0 THEN "close" ELSE "read"
      /\ output' = IF Holds(Terminated(0), 0, 0)
                   THEN Append(output, <<p.fname, StringFrom(Terminated(0), 0, NUL)>>)
                   ELSE output
  BY <1>1, <1>5, GrepRound
<1>7. ~Holds(Terminated(0), 0, 0)
  BY DEF Holds
<1>8. /\ DataOK(p') /\ \A i \in 0 .. BUFSIZE : i # 0 => p'.data[i] = p.data[i]
  <2>1. 0 \in 0 .. BUFSIZE
    BY <1>1
  <2>2. QED
    BY <1>6, <2>1, TerminatedIs DEF DataOK
<1>9. GrepNext(t, e, n, pos, m)
  <2>1. CASE last = 0
    <3>1. p'.last = 0 /\ p'.at = IF p.cnt = 0 THEN "close" ELSE "read"
      BY <1>6, <2>1
    <3>2. LineOver(p', t, e, pos, m)
      <4>1. \A i \in 0 .. 0 - 1 : p'.data[i] = t[(pos - 0) + i + 1]
        OBVIOUS
      <4>2. e[m] = (pos - 0) + 1
        BY <1>2, <1>3, <1>4, <2>1
      <4>3. QED
        BY <1>3, <3>1, <4>1, <4>2 DEF LineOver, InBuffer
    <3>3. QED
      BY <3>1, <3>2 DEF GrepNext, GrepReads
  <2>2. CASE last # 0
    <3>1. m < n /\ p.cnt # 0 /\ a = (pos - last) + 1 /\ m \in 0 .. n - 1
      <4>1. a <= Len(t)
        BY <1>3, <1>4, <2>2
      <4>2. m # n
        BY <1>4, <4>1
      <4>3. QED
        BY <1>3, <4>2
    <3>2. CASE last = 1
      <4>1. p'.last = 0 /\ p'.at = "read"
        BY <1>6, <3>1, <3>2
      <4>2. e[m] = (pos - 0) + 0 /\ pos < e[m + 1]
        <5>1. a = pos
          BY <1>4, <3>1, <3>2
        <5>2. e[m] < e[m + 1]
          BY <3>1, NextMark
        <5>3. QED
          BY <1>2, <1>4, <5>1, <5>2
      <4>3. \A i \in 0 .. 0 - 1 : p'.data[i] = t[(pos - 0) + i + 1]
        OBVIOUS
      <4>4. LineOpen(p', t, e, n, pos, m, 0)
        BY <3>1, <4>1, <4>2, <4>3 DEF LineOpen, InBuffer
      <4>5. QED
        BY <1>1, <4>1, <4>2, <4>4 DEF GrepNext, GrepReads
    <3>3. CASE last # 1
      <4>1. p'.last = last /\ p'.at = "line" /\ p'.line_start = 1
        BY <1>6, <2>2, <3>3
      <4>2. \A i \in 1 .. last - 1 : p'.data[i] = t[(pos - last) + i + 1]
        <5> SUFFICES ASSUME NEW i \in 1 .. last - 1 PROVE p'.data[i] = t[(pos - last) + i + 1]
          OBVIOUS
        <5>1. i \in 0 .. BUFSIZE /\ i # 0 /\ i \in 0 .. last - 1
          BY <1>1
        <5>2. QED
          BY <1>3, <1>8, <5>1
      <4>3. LineOpen(p', t, e, n, pos, m, p'.line_start)
        BY <1>2, <3>1, <4>1, <4>2 DEF LineOpen, InBuffer
      <4>4. QED
        BY <1>1, <1>6, <3>1, <4>1, <4>3 DEF GrepNext, GrepLooks
    <3>4. QED
      BY <3>2, <3>3
  <2>3. QED
    BY <2>1, <2>2
<1>10. QED
  BY <1>6, <1>7, <1>8, <1>9

\* A round of the inner loop: it shows the next line, or is not yet through with it.
LEMMA GrepLooked ==
    ASSUME GrepOK, GrepLine, DataOK(p), IsString(p.arg), Len(p.arg) >= 1, IsString(output),
           NEW t, IsString(t), NEW n \in Nat, NEW e, IsMarks(e, n, t),
           NEW pos \in 0 .. Len(t), NEW m \in 0 .. n,
           \A k \in 1 .. n : ~Unfit(LineAt(t, e, k)),
           GrepLooks(p, t, e, n, pos, m)
    PROVE  /\ DataOK(p')
           /\ \/ output' = output /\ GrepNext(t, e, n, pos, m)
              \/ /\ m < n /\ output' = output \o ShowsOf(LineAt(t, e, m + 1))
                 /\ GrepNext(t, e, n, pos, m + 1)
<1>1. pos = Len(t) \/ (p.last = BUFSIZE /\ p.cnt # 0)
  BY DEF GrepLooks
<1>2. CASE LineOver(p, t, e, pos, m) /\ p.line_start = 0 /\ (p.cnt = 0 => m = n)
  <2>1. DataOK(p') /\ output' = output /\ GrepNext(t, e, n, pos, m)
    BY <1>1, <1>2, LineWasOver
  <2>2. QED
    BY <2>1
<1>3. CASE LineOpen(p, t, e, n, pos, m, p.line_start) /\ (p.cnt = 0 => m + 1 = n)
  <2>1. m < n /\ m \in 0 .. n - 1 /\ m + 1 \in 1 .. n
    BY <1>3 DEF LineOpen
  <2>2. ~Unfit(LineAt(t, e, m + 1))
    BY <2>1
  <2>3. e[m + 1] \in Nat /\ pos \in Nat
    <3>1. e[m + 1] \in Nat
      BY <2>1, NextMark
    <3>2. pos \in Nat
      BY StringFacts
    <3>3. QED
      BY <3>1, <3>2
  <2>4. CASE e[m + 1] <= pos
    <3>1. /\ DataOK(p') /\ output' = output \o ShowsOf(LineAt(t, e, m + 1))
          /\ GrepNext(t, e, n, pos, m + 1)
      BY <1>1, <1>3, <2>1, <2>2, <2>4, WholeLine
    <3>2. QED
      BY <2>1, <3>1
  <2>5. CASE pos < e[m + 1]
    <3>1. CASE p.data[p.last] # NEWLINE /\ p.cnt # 0 /\ p.line_start # 0
      <4>1. DataOK(p') /\ output' = output /\ GrepNext(t, e, n, pos, m)
        BY <1>3, <2>1, <2>2, <2>5, <3>1, LineKept
      <4>2. QED
        BY <4>1
    <3>2. CASE ~(p.data[p.last] # NEWLINE /\ p.cnt # 0 /\ p.line_start # 0)
      <4>1. /\ DataOK(p') /\ output' = output \o ShowsOf(LineAt(t, e, m + 1))
            /\ GrepNext(t, e, n, pos, m + 1)
        BY <1>1, <1>3, <2>1, <2>2, <2>5, <3>2, LineLast
      <4>2. QED
        BY <2>1, <4>1
    <3>3. QED
      BY <3>1, <3>2
  <2>6. QED
    BY <2>3, <2>4, <2>5
<1>4. QED
  BY <1>2, <1>3 DEF GrepLooks

\* Where an index of a buffer that is filled behind what it holds lies: in the old part, or
\* in the piece.
LEMMA IndexPlace ==
    ASSUME NEW last \in Nat, NEW cnt \in Nat, NEW size \in Nat, NEW pos \in Nat,
           cnt <= size - last, NEW i \in 0 .. last + cnt - 1
    PROVE  /\ i \in 0 .. size
           /\ i < last => i \in 0 .. last - 1 /\ i \notin last .. last + cnt - 1
           /\ ~(i < last) => /\ i \in last .. last + cnt - 1 /\ i - last + 1 \in 1 .. cnt
                             /\ pos + (i - last + 1) = (pos - last) + i + 1
  OBVIOUS

\* A text of which a buffer holds the last letters, and the next piece of it behind them.
LEMMA PieceJoins ==
    ASSUME NEW last \in Nat, NEW cnt \in Nat, NEW size \in Nat, NEW pos \in Nat,
           cnt <= size - last, NEW data, NEW piece, NEW old, NEW t,
           \A i \in 0 .. size : data[i] = IF i \in last .. last + cnt - 1
                                         THEN piece[i - last + 1] ELSE old[i],
           \A i \in 1 .. cnt : piece[i] = t[pos + i],
           \A i \in 0 .. last - 1 : old[i] = t[(pos - last) + i + 1]
    PROVE  \A i \in 0 .. last + cnt - 1 : data[i] = t[(pos - last) + i + 1]
<1> TAKE i \in 0 .. last + cnt - 1
<1>1. /\ i \in 0 .. size
      /\ i < last => i \in 0 .. last - 1 /\ i \notin last .. last + cnt - 1
      /\ ~(i < last) => /\ i \in last .. last + cnt - 1 /\ i - last + 1 \in 1 .. cnt
                        /\ pos + (i - last + 1) = (pos - last) + i + 1
  BY IndexPlace
<1>2. CASE i < last
  BY <1>1, <1>2, Zenon
<1>3. CASE ~(i < last)
  <2>1. data[i] = piece[i - last + 1]
    BY <1>1, <1>3, Zenon
  <2>2. piece[i - last + 1] = t[pos + (i - last + 1)]
    BY <1>1, <1>3, Zenon
  <2>3. QED
    BY <1>1, <1>3, <2>1, <2>2, Zenon
<1>4. QED
  BY <1>2, <1>3

\* A piece is read behind what the buffer holds.
LEMMA PieceRead ==
    ASSUME GrepOK, GrepRead, DataOK(p),
           NEW t, IsString(t), NEW n \in Nat, NEW e, IsMarks(e, n, t),
           NEW pos \in 0 .. Len(t), NEW m \in 0 .. n,
           NEW cnt \in Nat, result'.ret = cnt, cnt <= Len(t) - pos, cnt <= BUFSIZE - p.last,
           cnt = Len(t) - pos \/ cnt = BUFSIZE - p.last,
           \A i \in 1 .. cnt : Text(result'.bytes)[i] = t[pos + i],
           GrepReads(p, t, e, n, pos, m)
    PROVE  /\ p'.at = "line" /\ DataOK(p') /\ GrepSame(p') /\ GrepFile(p')
           /\ output' = output /\ letters' = letters
           /\ pos + cnt \in 0 .. Len(t) /\ GrepLooks(p', t, e, n, pos + cnt, m)
<1>1. PICK last \in Nat : last = p.last /\ last <= BUFSIZE /\ BUFSIZE \in Nat /\ BUFSIZE >= 1
  BY GrepTypes, AskedSizes
<1>2. /\ Len(t) \in Nat /\ pos \in Nat /\ pos <= Len(t) /\ last < BUFSIZE
      /\ cnt <= Len(t) - pos /\ cnt <= BUFSIZE - last
      /\ cnt = Len(t) - pos \/ cnt = BUFSIZE - last
  <2>1. Len(t) \in Nat
    BY StringFacts
  <2>2. last < BUFSIZE
    BY <1>1 DEF GrepReads
  <2>3. QED
    BY <1>1, <2>1, <2>2
<1> DEFINE data == [i \in 0 .. BUFSIZE |-> IF i \in p.last .. p.last + cnt - 1
                                           THEN Text(result'.bytes)[i - p.last + 1] ELSE p.data[i]]
           next == p.last + cnt
<1>3. p' = [p EXCEPT !.at = "line", !.cnt = cnt, !.last = next, !.line_start = 0, !.data = data]
  <2>1. cnt # -1
    OBVIOUS
  <2>2. QED
    BY <2>1 DEF GrepRead
<1>4. data = [i \in 0 .. BUFSIZE |-> data[i]]
      /\ \A i \in 0 .. BUFSIZE : data[i] = IF i \in last .. last + cnt - 1
                                          THEN Text(result'.bytes)[i - last + 1] ELSE p.data[i]
  BY <1>1
<1>5. next = last + cnt /\ next \in Nat
  BY <1>1
<1> HIDE DEF data, next
<1>6. /\ p'.at = "line" /\ p'.cnt = cnt /\ p'.last = next /\ p'.line_start = 0
      /\ p'.data = data /\ GrepSame(p') /\ GrepFile(p')
  <2>1. PICK old : GrepShape(p, old)
    BY GrepTypes
  <2>2. QED
    BY <1>3, <2>1 DEF GrepShape, GrepSame, GrepFile
<1>7. DataOK(p')
  <2>1. BUFSIZE \in 0 .. BUFSIZE /\ BUFSIZE \notin last .. last + cnt - 1
    BY <1>1, <1>2
  <2>2. data[BUFSIZE] = p.data[BUFSIZE]
    BY <1>4, <2>1
  <2>3. QED
    BY <1>4, <1>6, <2>2 DEF DataOK
<1>8. /\ pos + cnt \in 0 .. Len(t) /\ (pos + cnt) - next = pos - last
      /\ pos + cnt = Len(t) \/ (next = BUFSIZE /\ cnt # 0)
      /\ cnt = 0 => pos = Len(t)
  <2>1. PICK len \in Nat, size \in Nat : len = Len(t) /\ size = BUFSIZE /\ last < size
    <3>1. Len(t) \in Nat /\ BUFSIZE \in Nat /\ last < BUFSIZE
      BY <1>1, <1>2
    <3>2. QED
      BY <3>1
  <2>2. pos + cnt \in 0 .. len
    BY <1>2, <2>1
  <2>3. (pos + cnt) - next = pos - last
    BY <1>1, <1>2, <1>5
  <2>4. CASE cnt = len - pos
    <3>1. pos + cnt = len /\ (cnt = 0 => pos = len)
      BY <1>2, <2>1, <2>4
    <3>2. QED
      BY <2>1, <2>2, <2>3, <3>1
  <2>5. CASE cnt = size - last
    <3>1. last + cnt = size /\ cnt # 0
      BY <2>1, <2>5
    <3>2. QED
      BY <1>5, <2>1, <2>2, <2>3, <3>1
  <2>6. QED
    BY <1>2, <2>1, <2>4, <2>5
<1>9. ASSUME \A i \in 0 .. last - 1 : p.data[i] = t[(pos - last) + i + 1]
      PROVE  InBuffer(p', t, pos + cnt, 0)
  <2>1. PICK piece, old : piece = Text(result'.bytes) /\ old = p.data
    OBVIOUS
  <2>2. PICK size \in Nat : size = BUFSIZE /\ cnt <= size - last
    BY <1>1, <1>2
  <2>3. /\ \A i \in 0 .. size : data[i] = IF i \in last .. last + cnt - 1
                                         THEN piece[i - last + 1] ELSE old[i]
        /\ \A i \in 1 .. cnt : piece[i] = t[pos + i]
        /\ \A i \in 0 .. last - 1 : old[i] = t[(pos - last) + i + 1]
    BY <1>4, <1>9, <2>1, <2>2, Zenon
  <2>4. \A i \in 0 .. last + cnt - 1 : data[i] = t[(pos - last) + i + 1]
    BY <1>2, <2>2, <2>3, PieceJoins
  <2>5. PICK upto : upto = last + cnt /\ upto = p'.last
    BY <1>5, <1>6
  <2>6. \A i \in 0 .. upto - 1 : p'.data[i] = t[(pos - last) + i + 1]
    <3>1. p'.data = data
      BY <1>6
    <3>2. \A i \in 0 .. upto - 1 : data[i] = t[(pos - last) + i + 1]
      BY <2>4, <2>5
    <3>3. QED
      BY <3>1, <3>2, Zenon
  <2>7. (pos + cnt) - p'.last = pos - last
    BY <1>6, <1>8, Zenon
  <2>8. \A i \in 0 .. p'.last - 1 : p'.data[i] = t[((pos + cnt) - p'.last) + i + 1]
    BY <2>5, <2>6, <2>7, Zenon
  <2>9. QED
    BY <2>8, Zenon DEF InBuffer
<1>10. /\ n >= 1 /\ e[n] = Len(t) + 1
       /\ \A j \in 1 .. n - 1 : e[j] <= Len(t)
  <2>1. /\ n >= 1 /\ e[n] = Len(t) + 1
        /\ \A j \in 1 .. n - 1 : e[j] \in 1 .. Len(t) /\ t[e[j]] = NEWLINE
    BY MarksFacts
  <2>2. QED
    BY <1>2, <2>1
<1>11. GrepLooks(p', t, e, n, pos + cnt, m)
  <2>1. CASE LineOpen(p, t, e, n, pos, m, 0) /\ pos < e[m + 1]
    <3>1. m < n /\ e[m] = (pos - last) + 0
          /\ \A i \in 0 .. last - 1 : p.data[i] = t[(pos - last) + i + 1]
      BY <1>1, <2>1 DEF LineOpen, InBuffer
    <3>2. LineOpen(p', t, e, n, pos + cnt, m, 0)
      BY <1>6, <1>8, <1>9, <3>1 DEF LineOpen
    <3>3. cnt = 0 => m + 1 = n
      <4>1. m \in 0 .. n - 1
        BY <3>1
      <4>2. e[m + 1] <= Len(t) + 1 /\ e[m + 1] \in Nat /\ (e[m + 1] = Len(t) + 1 => m + 1 = n)
        BY <4>1, NextMark
      <4>3. pos = Len(t) => e[m + 1] = Len(t) + 1
        BY <1>2, <2>1, <4>2
      <4>4. QED
        BY <1>8, <4>2, <4>3
    <3>4. QED
      BY <1>6, <1>8, <3>2, <3>3 DEF GrepLooks
  <2>2. CASE LineOver(p, t, e, pos, m) /\ p.last = 0
    <3>1. m >= 1 /\ e[m] = (pos - last) + 1 /\ last = 0
          /\ \A i \in 0 .. last - 1 : p.data[i] = t[(pos - last) + i + 1]
      BY <1>1, <2>2 DEF LineOver, InBuffer
    <3>2. LineOver(p', t, e, pos + cnt, m)
      BY <1>6, <1>8, <1>9, <3>1 DEF LineOver
    <3>3. cnt = 0 => m = n
      <4>1. m # n => m \in 1 .. n - 1
        BY <3>1
      <4>2. m # n => e[m] <= Len(t)
        BY <1>10, <4>1
      <4>3. pos = Len(t) => e[m] = Len(t) + 1
        BY <1>2, <3>1
      <4>4. QED
        BY <1>2, <1>8, <4>2, <4>3
    <3>4. QED
      BY <1>6, <1>8, <3>2, <3>3 DEF GrepLooks
  <2>3. QED
    BY <2>1, <2>2 DEF GrepReads
<1>12. output' = output /\ letters' = letters
  BY DEF GrepRead, Silent
<1>13. QED
  BY <1>6, <1>7, <1>8, <1>11, <1>12

\* What grep has shown: all that is to be found in the entries it is done with, and in the
\* lines of the file it is in.
Excused(d) == p.junk = NEWLINE \/ \E k \in 1 .. d : AnyUnfit(k)
EntriesDone(q, files) == files[q.dir].file_pos

GrepThrough(q, t, e, n, pos, m) ==
    /\ q.at = "read" => GrepReads(q, t, e, n, pos, m)
    /\ q.at = "line" => GrepLooks(q, t, e, n, pos, m)
    /\ q.at = "close" => m = n
ShownInText(q, out, f, d, t, e, n, m) ==
    /\ f.file_type = "file" /\ t = InFile(f.inode) /\ IsMarks(e, n, t)
    /\ DataOK(q) /\ out = FoundTo(d - 1) \o FoundIn(d, m)
    /\ GrepThrough(q, t, e, n, f.file_pos, m)
ShownInClock(q, out, f, d) ==
    /\ f.file_type = "rtc" /\ out = FoundTo(d - 1)
    /\ q.at \in {"read", "line"} => q.last = 0
    /\ q.at = "line" => q.cnt = 0 /\ q.line_start = 0
ShownIn(q, out, f, d) ==
    \/ ShownInClock(q, out, f, d)
    \/ \E t, e : \E n \in Nat : \E m \in 0 .. n : ShownInText(q, out, f, d, t, e, n, m)

InEntryFile(q, d) == /\ d \in 1 .. Len(Dentries) /\ q.fname = Dentries[d].name
                     /\ Dentries[d].name[1] # DOT
GrepIs(q, out, files) ==
    /\ IsString(out) /\ IsString(q.arg)
    /\ q.at \notin {"argument", "ended"} => q.arg # << >>
    /\ q.at \in {"argument", "directory"} => out = << >>
    /\ q.at = "entry" => LET d == EntriesDone(q, files)
                         IN  d \in 0 .. Len(Dentries) /\ (Excused(d) \/ out = FoundTo(d))
    /\ q.at \in {"file", "read", "line", "close"} => InEntryFile(q, EntriesDone(q, files))
    /\ q.at = "file" => LET d == EntriesDone(q, files) IN Excused(d) \/ out = FoundTo(d - 1)
    /\ q.at \in {"read", "line", "close"} =>
          LET d == EntriesDone(q, files)
          IN  /\ IsFileNamed(files[q.fd], q.fname)
              /\ Excused(d) \/ ShownIn(q, out, files[q.fd], d)
    /\ q.at = "ended" /\ q.status = 0 =>
          Excused(Len(Dentries)) \/ out = FoundTo(Len(Dentries))
GrepShown == GrepIs(p, output, fd_array)

LEMMA GrepNow ==
    ASSUME letters' = letters, p'.arg = p.arg, p'.junk = p.junk
    PROVE  \A q, out, files : GrepIs(q, out, files)' <=> GrepIs(q, out, files)
<1>0. (p.arg)' = p.arg /\ (p.junk)' = p.junk
  OBVIOUS
<1>1. \A inode : InFile(inode)' = InFile(inode)
  BY DEF InFile, Text
<1>2. \A k : LinesNamed(k)' = LinesNamed(k)
  <2>1. \A inode : LinesOf(InFile(inode))' = LinesOf(InFile(inode))
    BY <1>1
  <2>2. QED
    BY <2>1 DEF LinesNamed, LinesIn, Lookup, Matches
<1>3. \A k, n : LineFound(k, n)' = LineFound(k, n)
  BY <1>0, <1>2 DEF LineFound, HoldsAt
<1>4. \A k, m : FoundIn(k, m)' = FoundIn(k, m)
  BY <1>3 DEF FoundIn
<1>5. \A k : LinesFound(k)' = LinesFound(k)
  BY <1>2, <1>3 DEF LinesFound
<1>6. \A d : FoundTo(d)' = FoundTo(d)
  BY <1>5 DEF FoundTo
<1>7. \A d : Excused(d)' <=> Excused(d)
  BY <1>0, <1>2 DEF Excused, AnyUnfit
<1>8. \A q, out, f, d : ShownIn(q, out, f, d)' <=> ShownIn(q, out, f, d)
  <2>1. \A q, out, f, d : ShownInClock(q, out, f, d)' <=> ShownInClock(q, out, f, d)
    BY <1>6 DEF ShownInClock
  <2>2. \A q, out, f, d, t, e, n, m : ShownInText(q, out, f, d, t, e, n, m)' <=>
                                      ShownInText(q, out, f, d, t, e, n, m)
    BY <1>1, <1>4, <1>6 DEF ShownInText
  <2>3. QED
    BY <2>1, <2>2 DEF ShownIn
<1>9. QED
  BY <1>6, <1>7, <1>8 DEF GrepIs

LEMMA ExcusedGrows ==
    ASSUME NEW d \in Nat, NEW k \in Nat, d <= k, Excused(d)
    PROVE  Excused(k)
<1>1. 1 .. d \subseteq 1 .. k
  OBVIOUS
<1>2. QED
  BY <1>1 DEF Excused

\* The file that grep is in, and its lines.
LEMMA EntryText ==
    ASSUME NEW k \in 1 .. Len(Dentries), NEW f, OpenFile(f), IsFileNamed(f, Dentries[k].name)
    PROVE  /\ f.file_type \in {"rtc", "file", "dir"}
           /\ f.file_type # "file" => LinesNamed(k) = << >>
           /\ f.file_type = "file" =>
                 LET t == InFile(f.inode)
                 IN  /\ f.inode \in Disk /\ Inodes[f.inode].length \in Nat
                     /\ IsString(t) /\ Len(t) = Inodes[f.inode].length
                     /\ t = Text(Run(f.inode, 0, Inodes[f.inode].length))
                     /\ f.file_pos \in 0 .. Len(t) /\ LinesNamed(k) = LinesOf(t)
<1>1. PICK pos : f = At_(NewFile(Dentries[k].name), pos)
  BY DEF IsFileNamed
<1>2. /\ f.file_type = NewFile(Dentries[k].name).file_type
      /\ f.inode = NewFile(Dentries[k].name).inode
  BY <1>1 DEF At_
<1>3. f.file_type = "file" => f.file_pos \in 0 .. Inodes[f.inode].length
  BY DEF OpenFile
<1>4. QED
  BY <1>2, <1>3, NamedFile

LEMMA EntryLines ==
    ASSUME NEW k \in 1 .. Len(Dentries), NEW t, IsString(t), LinesNamed(k) = LinesOf(t),
           NEW n \in Nat, NEW e, IsMarks(e, n, t)
    PROVE  /\ Len(LinesNamed(k)) = n
           /\ ~AnyUnfit(k) => \A i \in 1 .. n : ~Unfit(LineAt(t, e, i))
           /\ p.fname = Dentries[k].name =>
                 \A i \in 1 .. n : ShowsOf(LineAt(t, e, i)) = LineFound(k, i)
<1>1. LinesNamed(k) = [i \in 1 .. n |-> LineAt(t, e, i)]
  BY MarksGive
<1>2. PICK s : s = LinesNamed(k)
  OBVIOUS
<1>3. s = [i \in 1 .. n |-> LineAt(t, e, i)]
  BY <1>1, <1>2
<1>4. DOMAIN s = 1 .. n /\ s = [i \in 1 .. n |-> s[i]] /\ \A i \in 1 .. n : s[i] = LineAt(t, e, i)
  BY <1>3
<1>5. Len(s) = n
  BY <1>4, StringIs
<1>6. ~AnyUnfit(k) => \A i \in 1 .. n : ~Unfit(LineAt(t, e, i))
  BY <1>2, <1>4 DEF AnyUnfit
<1>7. p.fname = Dentries[k].name => \A i \in 1 .. n : ShowsOf(LineAt(t, e, i)) = LineFound(k, i)
  BY <1>2, <1>4 DEF ShowsOf, LineFound
<1>8. QED
  BY <1>2, <1>5, <1>6, <1>7

LEMMA NotExcused ==
    ASSUME NEW d \in Nat, ~Excused(d)
    PROVE  p.junk # NEWLINE /\ \A k \in 1 .. d : ~AnyUnfit(k)
BY DEF Excused

\* The first steps: nothing is shown before an entry is read.
LEMMA GrepStarts ==
    ASSUME p \in GrepStates, output = << >>
    PROVE  GrepShown
<1>1. p.at = "argument" /\ IsString(p.arg)
  BY PatternAssumption DEF GrepStates
<1>2. QED
  BY <1>1, EmptyString DEF GrepShown, GrepIs

LEMMA GrepArgued ==
    ASSUME GrepOK, GrepShown, ReadArgument("grep", "directory")
    PROVE  GrepIs(p', output', fd_array')
<1>1. p.at = "argument" /\ output' = output /\ output = << >> /\ IsString(output) /\ IsString(p.arg)
  BY DEF ReadArgument, At, Silent, GrepShown, GrepIs
<1>2. CASE p.arg = << >>
  <2>1. p' = Ended(3)
    BY <1>2 DEF ReadArgument
  <2>2. p'.at = "ended" /\ p'.status = 3 /\ p'.arg = p.arg
    BY <2>1, GrepSets DEF GrepSame
  <2>3. QED
    BY <1>1, <2>2 DEF GrepIs
<1>3. CASE p.arg # << >>
  <2>1. p' = [p EXCEPT !.at = "directory"]
    BY <1>3 DEF ReadArgument
  <2>2. p'.at = "directory" /\ p'.arg = p.arg
    BY <2>1, GrepSets DEF GrepSame
  <2>3. QED
    BY <1>1, <1>3, <2>2 DEF GrepIs
<1>4. QED
  BY <1>2, <1>3

LEMMA GrepEnters ==
    ASSUME KernelOK, GrepOK, GrepShown, GrepOpenDirectory
    PROVE  GrepIs(p', output', fd_array')
<1>1. /\ p.at = "directory" /\ output' = output /\ output = << >>
      /\ IsString(output) /\ IsString(p.arg) /\ p.arg # << >>
  BY DEF GrepOpenDirectory, At, Silent, GrepShown, GrepIs
<1>2. KernelOK' /\ S!Next /\ (Open(Directory) \/ OpenFailing(Directory))
  BY Callings, DirectoryIsFound DEF GrepOpenDirectory
<1>3. CASE result'.ret = -1
  <2>1. p' = Ended(2)
    BY <1>3 DEF GrepOpenDirectory
  <2>2. p'.at = "ended" /\ p'.status = 2 /\ p'.arg = p.arg
    BY <2>1, GrepSets DEF GrepSame
  <2>3. QED
    BY <1>1, <2>2 DEF GrepIs
<1>4. CASE result'.ret # -1
  <2> DEFINE fd == result'.ret
  <2>1. Open(Directory) /\ Found(Directory)
    BY <1>2, <1>4, OpenFailingStep DEF Open
  <2>2. fd_array'[fd] = NewFile(Directory)
    BY <2>1, OpenHolds, DirectoryIsFound
  <2>3. NewFile(Directory).file_pos = 0
    BY <2>1, FoundNames, DirectoryIsFound
  <2>4. p' = [p EXCEPT !.at = "entry", !.dir = fd]
    BY <1>4 DEF GrepOpenDirectory
  <2> HIDE DEF fd
  <2>5. p'.at = "entry" /\ p'.dir = fd /\ p'.arg = p.arg
    BY <2>4, GrepSets
  <2>6. EntriesDone(p', fd_array') = 0 /\ 0 \in 0 .. Len(Dentries)
    BY <2>2, <2>3, <2>5, DentriesSeq DEF EntriesDone
  <2>7. output' = FoundTo(0)
    BY <1>1, FoundToGrows
  <2>8. QED
    BY <1>1, <2>5, <2>6, <2>7 DEF GrepIs
<1>5. QED
  BY <1>3, <1>4

\* The next entry: one whose name begins with a dot is passed over.
LEMMA GrepEntry ==
    ASSUME KernelOK, GrepOK, GrepShown, GrepReadEntry
    PROVE  GrepIs(p', output', fd_array')
<1> DEFINE d == EntriesDone(p, fd_array)
           k == d + 1
<1>1. /\ p.at = "entry" /\ output' = output /\ IsString(output) /\ IsString(p.arg) /\ p.arg # << >>
      /\ d \in 0 .. Len(Dentries) /\ (Excused(d) \/ output = FoundTo(d))
      /\ Reading(p.dir, SBUFSIZE - 1)
  BY DEF GrepReadEntry, At, Silent, GrepShown, GrepIs
<1>2. Holding(p.dir) /\ fd_array[p.dir].file_type = "dir"
  BY <1>1 DEF GrepOK
<1>3. DirectoryGives(p.dir, SBUFSIZE - 1)
  <2>1. SBUFSIZE - 1 \in Asked /\ SBUFSIZE - 1 >= 0
    BY AskedSizes
  <2>2. QED
    BY <1>1, <1>2, <2>1, HeldReadGives
<1>4. p' = CASE result'.ret = 0  -> Ended(0)
            [] result'.ret = -1 -> Ended(3)
            [] OTHER -> IF result'.bytes[1] = DOT THEN p
                        ELSE [p EXCEPT !.at = "file", !.fname = result'.bytes]
  BY DEF GrepReadEntry
<1>5. CASE d = Len(Dentries) /\ result' = Returned(0)
  <2>1. result'.ret = 0
    BY <1>5 DEF Returned
  <2>2. p' = Ended(0)
    BY <1>4, <2>1
  <2>3. p'.at = "ended" /\ p'.arg = p.arg
    BY <2>2, GrepSets DEF GrepSame
  <2>4. QED
    BY <1>1, <1>5, <2>3 DEF GrepIs
<1>6. CASE /\ d \in 0 .. Len(Dentries) - 1
           /\ result'.ret = Len(Dentries[k].name)
           /\ result'.bytes = Cut(Dentries[k].name, SBUFSIZE - 1)
           /\ fd_array' = [fd_array EXCEPT ![p.dir] = At_(fd_array[p.dir], k)]
  <2> DEFINE name == Dentries[k].name
  <2>1. k \in 1 .. Len(Dentries) /\ d \in Nat /\ d <= k /\ k - 1 = d /\ k \in 0 .. Len(Dentries)
    BY <1>6
  <2>2. IsString(name) /\ name # << >> /\ Len(name) <= SBUFSIZE - 1 /\ Len(name) \in Nat \ {0}
    <3>1. Len(name) \in Nat \ {0}
      BY <2>1, NamedString, EmptyString
    <3>2. QED
      BY <2>1, <3>1, NamedFile
  <2>3. Cut(name, SBUFSIZE - 1) = name
    BY <2>2, AskedSizes, CutWhole
  <2>4. fd_array'[p.dir].file_pos = k
    <3>1. p.dir \in DOMAIN fd_array
      BY <1>2 DEF Holding, KernelOK, FdTables
    <3>2. fd_array'[p.dir] = At_(fd_array[p.dir], k)
      BY <1>6, <3>1
    <3>3. QED
      BY <3>2 DEF At_
  <2>5. Excused(k) \/ output = FoundTo(d)
    BY <1>1, <2>1, ExcusedGrows
  <2>6. result'.ret # 0 /\ result'.ret # -1 /\ result'.bytes = name
    BY <1>6, <2>2, <2>3
  <2> HIDE DEF k
  <2>7. CASE name[1] = DOT
    <3>1. p' = p
      BY <1>4, <2>6, <2>7
    <3>2. LinesFound(k) = << >>
      BY <2>1, <2>7, FoundGrows
    <3>3. FoundTo(k) = FoundTo(d) \o LinesFound(k) /\ IsString(FoundTo(d))
      <4>1. PICK j \in 0 .. Len(Dentries) - 1 : j = d
        BY <1>6
      <4>2. FoundTo(j + 1) = FoundTo(j) \o LinesFound(j + 1)
        BY FoundToGrows
      <4>3. j \in 0 .. Len(Dentries)
        BY <2>1, <4>1
      <4>4. IsString(FoundTo(j))
        BY <4>3, FoundToGrows
      <4>5. QED
        BY <4>1, <4>2, <4>4 DEF k
    <3>4. FoundTo(k) = FoundTo(d)
      BY <3>2, <3>3, JoinEmpty
    <3>5. EntriesDone(p', fd_array') = k
      BY <2>4, <3>1 DEF EntriesDone
    <3>6. Excused(k) \/ output' = FoundTo(k)
      BY <1>1, <2>5, <3>4
    <3>7. p'.at = "entry" /\ p'.arg = p.arg
      BY <1>1, <3>1
    <3>8. QED
      BY <1>1, <2>1, <3>5, <3>6, <3>7 DEF GrepIs
  <2>8. CASE name[1] # DOT
    <3>1. p' = [p EXCEPT !.at = "file", !.fname = name]
      BY <1>4, <2>6, <2>8
    <3> HIDE DEF name
    <3>2. p'.at = "file" /\ p'.fname = name /\ p'.arg = p.arg /\ p'.dir = p.dir
      <4>1. PICK old : GrepShape(p, old)
        BY GrepTypes
      <4>2. QED
        BY <3>1, <4>1 DEF GrepShape
    <3>3. EntriesDone(p', fd_array') = k
      BY <2>4, <3>2 DEF EntriesDone
    <3>4. InEntryFile(p', k)
      BY <2>1, <2>8, <3>2 DEF InEntryFile, name
    <3>5. Excused(k) \/ output' = FoundTo(k - 1)
      BY <1>1, <2>1, <2>5
    <3>6. QED
      BY <1>1, <3>2, <3>3, <3>4, <3>5 DEF GrepIs
  <2>9. QED
    BY <2>7, <2>8
<1>7. QED
  BY <1>3, <1>5, <1>6 DEF DirectoryGives, EntriesDone

\* The file of an entry is opened.
LEMMA GrepOpensFile ==
    ASSUME KernelOK, GrepOK, GrepShown, GrepOpen
    PROVE  GrepIs(p', output', fd_array')
<1> DEFINE d == EntriesDone(p, fd_array)
           data == [i \in 0 .. BUFSIZE |-> p.junk]
<1>1. /\ p.at = "file" /\ output' = output /\ IsString(output) /\ IsString(p.arg) /\ p.arg # << >>
      /\ InEntryFile(p, d) /\ (Excused(d) \/ output = FoundTo(d - 1))
      /\ Opening(p.fname)
  BY DEF GrepOpen, At, Silent, GrepShown, GrepIs
<1>2. Holding(p.dir) /\ fd_array[p.dir].file_type = "dir" /\ IsString(p.fname)
      /\ p.fname # Directory
  BY <1>1 DEF GrepOK
<1>3. KernelOK' /\ (Open(p.fname) \/ OpenFailing(p.fname))
  BY <1>1, <1>2, Callings
<1> HIDE DEF d
<1>4. CASE result'.ret = -1
  <2>1. p' = Ended(3)
    BY <1>4 DEF GrepOpen
  <2>2. p'.at = "ended" /\ p'.status = 3 /\ p'.arg = p.arg
    BY <2>1, GrepSets DEF GrepSame
  <2>3. QED
    BY <1>1, <2>2 DEF GrepIs
<1>5. CASE result'.ret # -1
  <2> DEFINE fd == result'.ret
             f == NewFile(p.fname)
  <2>1. Open(p.fname) /\ Found(p.fname)
    BY <1>3, <1>5, OpenFailingStep DEF Open
  <2>2. fd_array'[fd] = f /\ fd_array'[p.dir] = fd_array[p.dir]
    <3>1. /\ fd_array'[fd] = f
          /\ \A g \in table.spaces \ Stdio : fd_array'[g] = fd_array[g]
      BY <1>2, <2>1, OpenHolds
    <3>2. QED
      BY <1>2, <3>1 DEF Holding
  <2>3. p' = [p EXCEPT !.at = "read", !.fd = fd, !.last = 0, !.data = data]
    BY <1>5 DEF GrepOpen
  <2>4. data = [i \in 0 .. BUFSIZE |-> data[i]] /\ data[BUFSIZE] = p.junk
    <3>1. BUFSIZE \in 0 .. BUFSIZE
      BY AskedSizes
    <3>2. QED
      BY <3>1
  <2> HIDE DEF fd, f, data
  <2>5. /\ p'.at = "read" /\ p'.fd = fd /\ p'.last = 0 /\ p'.data = data /\ p'.fname = p.fname
        /\ p'.arg = p.arg /\ p'.dir = p.dir
    <3>1. PICK old : GrepShape(p, old)
      BY GrepTypes
    <3>2. QED
      BY <2>3, <3>1 DEF GrepShape
  <2>6. EntriesDone(p', fd_array') = d
    BY <2>2, <2>5 DEF EntriesDone, d
  <2>7. InEntryFile(p', d)
    BY <1>1, <2>5 DEF InEntryFile
  <2>8. d \in 1 .. Len(Dentries) /\ p.fname = Dentries[d].name /\ d \in Nat
    BY <1>1, DentriesSeq DEF InEntryFile
  <2>9. IsFileNamed(f, p.fname) /\ f.file_pos = 0 /\ OpenFile(f)
    BY <1>2, <2>1, AtStart, FoundNames, NewFileOK, EmptyString DEF f
  <2>10. f.file_type \in {"rtc", "file"}
    BY <1>2, <2>1, DirectoryIsFound DEF f
  <2>11. ASSUME ~Excused(d) PROVE ShownIn(p', output', f, d)
    <3>1. output' = FoundTo(d - 1) /\ p.junk # NEWLINE
      BY <1>1, <2>11 DEF Excused
    <3>2. CASE f.file_type = "rtc"
      BY <2>5, <3>1, <3>2 DEF ShownIn, ShownInClock
    <3>3. CASE f.file_type = "file"
      <4>1. PICK t : t = InFile(f.inode)
        OBVIOUS
      <4>2. IsString(t) /\ LinesNamed(d) = LinesOf(t)
        BY <2>8, <2>9, <3>3, <4>1, EntryText
      <4>a. PICK n \in Nat : n = LineCount(t)
        BY <4>2, TextMarked
      <4>3. PICK e : n = LineCount(t) /\ e = LineEnds(t)
        BY <4>a
      <4>4. IsMarks(e, n, t)
        BY <4>2, <4>3, TextMarked
      <4>5. n >= 1 /\ e[0] = 0 /\ Len(t) \in Nat
        BY <4>2, <4>4, MarksFacts DEF IsMarks
      <4>6. 0 \in 0 .. n - 1 /\ 0 \in 0 .. n
        BY <4>5
      <4>7. 0 < e[0 + 1]
        BY <4>2, <4>4, <4>5, <4>6, NextMark
      <4>8. DataOK(p')
        BY <2>4, <2>5, <3>1 DEF DataOK
      <4>9. GrepReads(p', t, e, n, 0, 0)
        <5>1. \A i \in 0 .. 0 - 1 : p'.data[i] = t[(0 - 0) + i + 1]
          OBVIOUS
        <5>2. 0 < n /\ e[0] = (0 - 0) + 0
          BY <4>5
        <5>3. LineOpen(p', t, e, n, 0, 0, 0)
          BY <2>5, <5>1, <5>2 DEF LineOpen, InBuffer
        <5>4. p'.last < BUFSIZE
          BY <2>5, AskedSizes
        <5>5. QED
          BY <4>7, <5>3, <5>4 DEF GrepReads
      <4>10. output' = FoundTo(d - 1) \o FoundIn(d, 0)
        <5>1. FoundIn(d, 0) = << >>
          BY <2>8, FoundGrows
        <5>2. IsString(FoundTo(d - 1))
          BY <1>1, <3>1
        <5>3. QED
          BY <3>1, <5>1, <5>2, JoinEmpty
      <4>11. GrepThrough(p', t, e, n, f.file_pos, 0)
        BY <2>5, <2>9, <4>9 DEF GrepThrough
      <4>12. ShownInText(p', output', f, d, t, e, n, 0)
        BY <3>3, <4>1, <4>4, <4>8, <4>10, <4>11 DEF ShownInText
      <4>13. QED
        BY <4>6, <4>12 DEF ShownIn
    <3>4. QED
      BY <2>10, <3>2, <3>3
  <2>12. fd_array'[p'.fd] = f
    BY <2>2, <2>5
  <2>13. QED
    BY <1>1, <2>5, <2>6, <2>7, <2>9, <2>11, <2>12 DEF GrepIs
<1>6. QED
  BY <1>4, <1>5

\* What grep is in the middle of a file.
GrepIn(q, out, f, d) == /\ IsString(out) /\ IsString(q.arg) /\ q.arg # << >>
                        /\ InEntryFile(q, d) /\ IsFileNamed(f, q.fname)
                        /\ Excused(d) \/ ShownIn(q, out, f, d)

LEMMA GrepInFile ==
    ASSUME KernelOK, GrepOK, GrepShown, p.at \in {"read", "line", "close"}
    PROVE  LET d == EntriesDone(p, fd_array)
               f == fd_array[p.fd]
           IN  /\ GrepIn(p, output, f, d)
               /\ d \in 1 .. Len(Dentries) /\ d \in Nat /\ OpenFile(f)
               /\ f.file_type \in {"rtc", "file"}
               /\ Holding(p.dir) /\ Holding(p.fd) /\ p.dir # p.fd
               /\ p.dir \in Fds /\ p.fd \in Fds
<1> DEFINE d == EntriesDone(p, fd_array)
           f == fd_array[p.fd]
<1>1. GrepIn(p, output, f, d) /\ d \in 1 .. Len(Dentries) /\ d \in Nat
  BY DentriesSeq DEF GrepShown, GrepIs, GrepIn, InEntryFile
<1>2. /\ Holding(p.dir) /\ fd_array[p.dir].file_type = "dir"
      /\ Holding(p.fd) /\ f.file_type \in {"rtc", "file"}
  BY DEF GrepOK
<1>3. p.dir # p.fd
  BY <1>2
<1>4. OpenFile(f) /\ p.dir \in Fds /\ p.fd \in Fds
  BY <1>2 DEF Holding, KernelOK, FdTables
<1>5. QED
  BY <1>1, <1>2, <1>3, <1>4

LEMMA GrepInNext ==
    ASSUME p'.at \in {"read", "line", "close"}, NEW d, NEW f,
           GrepIn(p', output', f, d), fd_array'[p'.fd] = f, EntriesDone(p', fd_array') = d
    PROVE  GrepIs(p', output', fd_array')
BY DEF GrepIs, GrepIn

\* A piece of the file is read.
LEMMA GrepReadsPiece ==
    ASSUME KernelOK, GrepOK, GrepShown, GrepRead
    PROVE  GrepIs(p', output', fd_array')
<1> DEFINE d == EntriesDone(p, fd_array)
           f == fd_array[p.fd]
           room == BUFSIZE - p.last
           cnt == result'.ret
           data == [i \in 0 .. BUFSIZE |-> IF i \in p.last .. p.last + cnt - 1
                                           THEN Text(result'.bytes)[i - p.last + 1] ELSE p.data[i]]
           last == p.last + cnt
<1>1. p.at = "read" /\ output' = output /\ letters' = letters /\ Reading(p.fd, room)
  BY DEF GrepRead, At, Silent
<1>2. /\ GrepIn(p, output, f, d)
      /\ d \in 1 .. Len(Dentries) /\ d \in Nat /\ OpenFile(f) /\ f.file_type \in {"rtc", "file"}
      /\ Holding(p.dir) /\ Holding(p.fd) /\ p.dir # p.fd /\ p.dir \in Fds /\ p.fd \in Fds
  BY <1>1, GrepInFile
<1>3. /\ room \in Asked /\ room >= 0 /\ room \in Nat /\ p.last \in Nat /\ p.last <= BUFSIZE
      /\ BUFSIZE \in Nat
  <2>1. p.last \in Nat /\ p.last <= BUFSIZE /\ BUFSIZE \in Nat
    BY GrepTypes, AskedSizes
  <2>2. room \in 0 .. BUFSIZE
    BY <2>1
  <2>3. QED
    BY <2>1, <2>2, AskedSizes
<1>4. \/ f.file_type = "file" /\ FileGives(p.fd, room)
      \/ f.file_type = "rtc" /\ result' = Returned(0) /\ fd_array' = fd_array
  BY <1>1, <1>2, <1>3, HeldReadGives
<1>5. CASE cnt = -1
  <2>1. p' = Ended(3)
    BY <1>5 DEF GrepRead
  <2>2. p'.at = "ended" /\ p'.status = 3 /\ p'.arg = p.arg
    BY <2>1, GrepSets DEF GrepSame
  <2>3. QED
    BY <1>1, <1>2, <2>2 DEF GrepIs, GrepIn
<1>6. CASE cnt # -1
  <2>1. p' = [p EXCEPT !.at = "line", !.cnt = cnt, !.last = last, !.line_start = 0, !.data = data]
    BY <1>6 DEF GrepRead
  <2>2. PICK old : GrepShape(p, old)
    BY GrepTypes
  <2> HIDE DEF cnt, last, data
  <2>3. /\ p'.at = "line" /\ p'.cnt = cnt /\ p'.last = last /\ p'.line_start = 0
        /\ p'.fname = p.fname /\ p'.fd = p.fd /\ p'.dir = p.dir /\ p'.arg = p.arg
    BY <2>1, <2>2 DEF GrepShape
  <2>4. InEntryFile(p', d)
    BY <1>2, <2>3 DEF GrepIn, InEntryFile
  <2>5. fd_array'[p.dir] = fd_array[p.dir]
    <3>1. fd_array' = fd_array \/ \E new : fd_array' = [fd_array EXCEPT ![p.fd] = new]
      BY <1>4 DEF FileGives
    <3>2. p.dir \in DOMAIN fd_array
      BY <1>2 DEF KernelOK
    <3>3. QED
      BY <1>2, <3>1, <3>2
  <2>6. EntriesDone(p', fd_array') = d
    BY <2>3, <2>5 DEF EntriesDone
  <2>7. CASE f.file_type = "rtc"
    <3>1. cnt = 0 /\ fd_array' = fd_array
      BY <1>4, <2>7 DEF Returned, cnt
    <3>2. ASSUME ~Excused(d) PROVE ShownIn(p', output', f, d)
      <4>1. ShownInClock(p, output, f, d)
        BY <1>2, <2>7, <3>2 DEF GrepIn, ShownIn, ShownInText
      <4>2. p'.last = 0
        BY <1>1, <2>3, <3>1, <4>1 DEF ShownInClock, last
      <4>3. ShownInClock(p', output', f, d)
        BY <1>1, <2>3, <3>1, <4>1, <4>2 DEF ShownInClock
      <4>4. QED
        BY <4>3 DEF ShownIn
    <3>3. GrepIn(p', output', f, d)
      BY <1>1, <1>2, <2>3, <2>4, <3>2 DEF GrepIn
    <3>4. QED
      BY <2>3, <2>6, <3>1, <3>3, GrepInNext
  <2>8. CASE f.file_type = "file"
    <3> DEFINE left == Inodes[f.inode].length - f.file_pos
               g == At_(f, f.file_pos + cnt)
    <3>1. /\ cnt \in 0 .. left /\ result'.bytes = Run(f.inode, f.file_pos, cnt)
          /\ cnt = IF room < 0 \/ room > left THEN left ELSE room
          /\ fd_array' = [fd_array EXCEPT ![p.fd] = g]
      BY <1>4, <1>6, <2>8 DEF FileGives, cnt
    <3>2. fd_array'[p.fd] = g
      BY <1>2, <3>1 DEF KernelOK
    <3>3. PICK t : t = InFile(f.inode)
      OBVIOUS
    <3>4. /\ f.inode \in Disk /\ Inodes[f.inode].length \in Nat
          /\ IsString(t) /\ Len(t) = Inodes[f.inode].length
          /\ t = Text(Run(f.inode, 0, Inodes[f.inode].length))
          /\ f.file_pos \in 0 .. Len(t) /\ LinesNamed(d) = LinesOf(t)
      <4>1. /\ f.file_type = "file" /\ IsFileNamed(f, p.fname) /\ InEntryFile(p, d)
            /\ OpenFile(f)
        BY <1>2, <2>8, Zenon DEF GrepIn
      <4> HIDE DEF f
      <4>2. QED
        BY <3>3, <4>1, EntryText DEF InEntryFile
    <3>5. PICK pos \in Nat : pos = f.file_pos /\ pos <= Len(t) /\ left = Len(t) - pos
      <4>1. PICK len \in Nat : len = Len(t) /\ len = Inodes[f.inode].length
        BY <3>4
      <4>2. f.file_pos \in 0 .. len
        BY <3>4, <4>1, Zenon
      <4>3. f.file_pos \in Nat /\ f.file_pos <= len
        BY <4>2
      <4>4. QED
        BY <4>1, <4>3
    <3>6. /\ cnt \in Nat /\ cnt <= Len(t) - pos /\ cnt <= room
          /\ cnt = Len(t) - pos \/ cnt = room
      <4> HIDE DEF room, left
      <4>1. left \in Nat
        BY <3>4, <3>5
      <4>2. CASE room > left
        BY <1>3, <3>1, <3>5, <4>1, <4>2
      <4>3. CASE ~(room > left)
        BY <1>3, <3>1, <3>5, <4>1, <4>3
      <4>4. QED
        BY <4>2, <4>3
    <3>7. \A i \in 1 .. cnt : Text(result'.bytes)[i] = t[pos + i]
      <4> SUFFICES ASSUME NEW i \in 1 .. cnt PROVE Text(result'.bytes)[i] = t[pos + i]
        OBVIOUS
      <4>1. pos + i \in 1 .. Len(t) /\ Len(t) \in Nat
        BY <3>4, <3>5, <3>6
      <4>2. Run(f.inode, 0, Len(t))[pos + i] = ByteAt(f.inode, pos + i - 1)
        <5>1. 0 + (pos + i) - 1 = pos + i - 1
          BY <3>5
        <5>2. QED
          BY <4>1, <5>1 DEF Run
      <4>3. Run(f.inode, pos, cnt)[i] = ByteAt(f.inode, pos + i - 1)
        BY DEF Run
      <4>4. /\ DOMAIN Run(f.inode, 0, Len(t)) = 1 .. Len(t)
            /\ DOMAIN Run(f.inode, pos, cnt) = 1 .. cnt
        BY DEF Run
      <4>5. PICK u, v : u = Run(f.inode, 0, Len(t)) /\ v = Run(f.inode, pos, cnt)
        OBVIOUS
      <4>6. t = Text(u) /\ result'.bytes = v
        BY <3>1, <3>4, <3>5, <4>5
      <4>7. u[pos + i] = v[i] /\ pos + i \in DOMAIN u /\ i \in DOMAIN v
        BY <4>1, <4>2, <4>3, <4>4, <4>5
      <4>8. QED
        BY <4>6, <4>7 DEF Text
    <3>8. ASSUME ~Excused(d) PROVE ShownIn(p', output', g, d)
      <4>a. PICK s, e : \E n \in Nat : \E m \in 0 .. n : ShownInText(p, output, f, d, s, e, n, m)
        BY <1>2, <2>8, <3>8 DEF GrepIn, ShownIn, ShownInClock
      <4>b. PICK n \in Nat : \E m \in 0 .. n : ShownInText(p, output, f, d, s, e, n, m)
        BY <4>a
      <4>1. PICK m \in 0 .. n : ShownInText(p, output, f, d, s, e, n, m)
        BY <4>b
      <4>2. /\ s = t /\ IsMarks(e, n, t) /\ DataOK(p)
            /\ output = FoundTo(d - 1) \o FoundIn(d, m) /\ GrepReads(p, t, e, n, pos, m)
        BY <1>1, <3>3, <3>5, <4>1 DEF ShownInText, GrepThrough
      <4>3. result'.ret = cnt /\ cnt <= BUFSIZE - p.last
            /\ (cnt = Len(t) - pos \/ cnt = BUFSIZE - p.last)
        BY <3>6 DEF cnt, room
      <4>4. pos \in 0 .. Len(t)
        BY <3>4, <3>5
      <4>5. PICK c \in Nat : c = cnt
        BY <3>6
      <4>6. /\ result'.ret = c /\ c <= Len(t) - pos /\ c <= BUFSIZE - p.last
            /\ c = Len(t) - pos \/ c = BUFSIZE - p.last
            /\ \A i \in 1 .. c : Text(result'.bytes)[i] = t[pos + i]
        BY <3>6, <3>7, <4>3, <4>5
      <4>7. DataOK(p') /\ GrepLooks(p', t, e, n, pos + c, m)
        BY <3>4, <4>2, <4>4, <4>6, PieceRead
      <4>8. g.file_type = "file" /\ g.inode = f.inode /\ g.file_pos = pos + c
        BY <2>8, <3>5, <4>5 DEF At_
      <4> HIDE DEF g
      <4>9. GrepThrough(p', t, e, n, g.file_pos, m)
        BY <2>3, <4>7, <4>8 DEF GrepThrough
      <4>10. ShownInText(p', output', g, d, t, e, n, m)
        BY <1>1, <3>3, <4>2, <4>7, <4>8, <4>9 DEF ShownInText
      <4>11. QED
        BY <4>10 DEF ShownIn
    <3>9. IsFileNamed(g, p'.fname)
      <4>1. IsFileNamed(f, p.fname)
        BY <1>2 DEF GrepIn
      <4>2. PICK at : f = At_(NewFile(p.fname), at)
        BY <4>1 DEF IsFileNamed
      <4>3. PICK x, z : x = NewFile(p.fname) /\ z = f.file_pos + cnt
        OBVIOUS
      <4>4. f = At_(x, at) /\ g = At_(f, z)
        BY <4>2, <4>3
      <4> HIDE DEF f, g
      <4>5. g = At_(x, z)
        BY <4>4 DEF At_
      <4>6. QED
        BY <2>3, <4>1, <4>3, <4>5 DEF IsFileNamed
    <3> HIDE DEF g
    <3>10. GrepIn(p', output', g, d)
      BY <1>1, <1>2, <2>3, <2>4, <3>8, <3>9 DEF GrepIn
    <3>11. fd_array'[p'.fd] = g
      BY <2>3, <3>2
    <3>12. QED
      BY <2>3, <2>6, <3>10, <3>11, GrepInNext
  <2>9. QED
    BY <1>2, <2>7, <2>8
<1>7. QED
  BY <1>5, <1>6

\* A line is looked at.
LEMMA GrepLooksOn ==
    ASSUME KernelOK, GrepOK, GrepShown, GrepLine
    PROVE  GrepIs(p', output', fd_array')
<1> DEFINE d == EntriesDone(p, fd_array)
           f == fd_array[p.fd]
<1>1. p.at = "line" /\ fd_array' = fd_array
  BY DEF GrepLine, At, NoCall, kernel
<1>2. /\ GrepIn(p, output, f, d)
      /\ d \in 1 .. Len(Dentries) /\ d \in Nat /\ OpenFile(f) /\ f.file_type \in {"rtc", "file"}
  BY <1>1, GrepInFile
<1>3. letters' = letters /\ GrepSame(p') /\ GrepFile(p')
  BY GrepRound
<1>4. /\ IsString(output) /\ IsString(p.arg) /\ Len(p.arg) >= 1 /\ p.fname = Dentries[d].name
      /\ p'.fname = p.fname /\ p'.fd = p.fd /\ p'.dir = p.dir /\ p'.arg = p.arg
  <2>1. IsString(output) /\ IsString(p.arg) /\ p.arg # << >> /\ p.fname = Dentries[d].name
    BY <1>2 DEF GrepIn, InEntryFile
  <2>2. Len(p.arg) \in Nat /\ (Len(p.arg) = 0 => p.arg = << >>)
    BY <2>1, StringFacts
  <2>3. QED
    BY <1>3, <2>1, <2>2 DEF GrepSame, GrepFile
<1>5. p'.at \in {"read", "line", "close"}
  <2> DEFINE end == LineEnd(p.line_start)
  <2>1. CASE p.data[end] # NEWLINE /\ p.cnt # 0 /\ p.line_start # 0
    BY <2>1, GrepRound
  <2>2. CASE ~(p.data[end] # NEWLINE /\ p.cnt # 0 /\ p.line_start # 0)
    BY <2>2, GrepRound
  <2>3. QED
    BY <2>1, <2>2
<1>6. EntriesDone(p', fd_array') = d /\ fd_array'[p'.fd] = f
  BY <1>1, <1>4 DEF EntriesDone
<1>7. InEntryFile(p', d) /\ IsFileNamed(f, p'.fname)
  BY <1>2, <1>4 DEF GrepIn, InEntryFile
<1>8. IsString(output')
  <2> DEFINE data == Terminated(LineEnd(p.line_start))
             line == StringFrom(data, p.line_start, NUL)
  <2>1. output' = output \/ output' = Append(output, <<p.fname, line>>)
    BY DEF GrepLine
  <2> HIDE DEF line
  <2>2. IsString(output \o <<<<p.fname, line>>>>)
    BY <1>4, OneString, JoinString
  <2>3. QED
    BY <1>4, <2>1, <2>2, AppendJoins
<1>9. ASSUME ~Excused(d) PROVE ShownIn(p', output', f, d)
  <2>0. ShownIn(p, output, f, d)
    BY <1>2, <1>9 DEF GrepIn
  <2>1. CASE f.file_type = "rtc"
    <3>1. p.last = 0 /\ p.cnt = 0 /\ p.line_start = 0 /\ output = FoundTo(d - 1)
      BY <1>1, <2>0, <2>1 DEF ShownIn, ShownInText, ShownInClock
    <3>2. LineEnd(0) = 0
      <4>1. 0 \in 0 .. 0 /\ \A j \in 0 .. 0 - 1 : p.data[j] # NEWLINE
        OBVIOUS
      <4>2. QED
        BY <3>1, <4>1, LineEndAt
    <3>3. /\ p'.last = IF 0 + 1 >= 0 THEN 0 ELSE 0
          /\ p'.at = IF 0 + 1 < 0 THEN "line" ELSE "close"
          /\ output' = IF Holds(Terminated(0), 0, 0)
                       THEN Append(output, <<p.fname, StringFrom(Terminated(0), 0, NUL)>>)
                       ELSE output
      BY <3>1, <3>2, GrepRound
    <3>4. ~Holds(Terminated(0), 0, 0)
      BY DEF Holds
    <3>5. p'.at = "close" /\ output' = output
      BY <3>3, <3>4
    <3>6. QED
      BY <2>1, <3>1, <3>5 DEF ShownIn, ShownInClock
  <2>2. CASE f.file_type = "file"
    <3>1. PICK t, e : \E n \in Nat : \E m \in 0 .. n : ShownInText(p, output, f, d, t, e, n, m)
      BY <2>0, <2>2 DEF ShownIn, ShownInClock
    <3>2. PICK n \in Nat : \E m \in 0 .. n : ShownInText(p, output, f, d, t, e, n, m)
      BY <3>1
    <3>3. PICK m \in 0 .. n : ShownInText(p, output, f, d, t, e, n, m)
      BY <3>2
    <3>4. PICK pos : pos = f.file_pos
      OBVIOUS
    <3>5. /\ t = InFile(f.inode) /\ IsMarks(e, n, t) /\ DataOK(p)
          /\ output = FoundTo(d - 1) \o FoundIn(d, m) /\ GrepLooks(p, t, e, n, pos, m)
      BY <1>1, <3>3, <3>4 DEF ShownInText, GrepThrough
    <3>6. IsString(t) /\ pos \in 0 .. Len(t) /\ LinesNamed(d) = LinesOf(t)
      BY <1>2, <2>2, <3>4, <3>5, EntryText DEF GrepIn, InEntryFile
    <3>7. /\ Len(LinesNamed(d)) = n
          /\ \A i \in 1 .. n : ~Unfit(LineAt(t, e, i))
          /\ \A i \in 1 .. n : ShowsOf(LineAt(t, e, i)) = LineFound(d, i)
      <4>1. ~AnyUnfit(d)
        <5>1. d \in 1 .. d
          BY <1>2
        <5>2. QED
          BY <1>9, <5>1 DEF Excused
      <4>2. QED
        BY <1>2, <1>4, <3>5, <3>6, <4>1, EntryLines
    <3>8. /\ DataOK(p')
          /\ \/ output' = output /\ GrepNext(t, e, n, pos, m)
             \/ /\ m < n /\ output' = output \o ShowsOf(LineAt(t, e, m + 1))
                /\ GrepNext(t, e, n, pos, m + 1)
      BY <1>4, <3>5, <3>6, <3>7, GrepLooked
    <3>9. ASSUME NEW k \in 0 .. n, output' = FoundTo(d - 1) \o FoundIn(d, k),
                 GrepNext(t, e, n, pos, k)
          PROVE  ShownIn(p', output', f, d)
      <4>1. GrepThrough(p', t, e, n, pos, k)
        BY <3>9 DEF GrepNext, GrepThrough
      <4>2. ShownInText(p', output', f, d, t, e, n, k)
        BY <2>2, <3>4, <3>5, <3>8, <3>9, <4>1 DEF ShownInText
      <4>3. QED
        BY <4>2 DEF ShownIn
    <3>10. CASE output' = output /\ GrepNext(t, e, n, pos, m)
      BY <3>5, <3>9, <3>10
    <3>11. CASE /\ m < n /\ output' = output \o ShowsOf(LineAt(t, e, m + 1))
                /\ GrepNext(t, e, n, pos, m + 1)
      <4>1. m + 1 \in 1 .. n /\ m + 1 \in 0 .. n /\ m \in 0 .. n - 1
        BY <3>11
      <4>2. output' = (FoundTo(d - 1) \o FoundIn(d, m)) \o LineFound(d, m + 1)
        BY <3>5, <3>7, <3>11, <4>1
      <4>3. FoundIn(d, m + 1) = FoundIn(d, m) \o LineFound(d, m + 1) /\ IsString(FoundIn(d, m))
        <5>1. FoundIn(d, m + 1) = FoundIn(d, m) \o LineFound(d, m + 1)
          BY <1>2, <3>7, <4>1, FoundGrows
        <5>2. IsString(FoundIn(d, m))
          BY <1>2, <3>7, FoundGrows
        <5>3. QED
          BY <5>1, <5>2
      <4>4. IsString(FoundTo(d - 1))
        <5>1. d - 1 \in 0 .. Len(Dentries)
          BY <1>2, DentriesSeq
        <5>2. QED
          BY <5>1, FoundToGrows
      <4>5. IsString(LineFound(d, m + 1))
        BY EmptyString, OneString DEF LineFound
      <4>6. output' = FoundTo(d - 1) \o FoundIn(d, m + 1)
        <5>1. PICK a, b, c : a = FoundTo(d - 1) /\ b = FoundIn(d, m) /\ c = LineFound(d, m + 1)
          OBVIOUS
        <5>2. (a \o b) \o c = a \o (b \o c)
          BY <4>3, <4>4, <4>5, <5>1, JoinThree
        <5>3. QED
          BY <4>2, <4>3, <5>1, <5>2
      <4>7. PICK k \in 0 .. n : k = m + 1
        BY <4>1
      <4>8. output' = FoundTo(d - 1) \o FoundIn(d, k) /\ GrepNext(t, e, n, pos, k)
        BY <3>11, <4>6, <4>7
      <4>9. QED
        BY <3>9, <4>8
    <3>12. QED
      BY <3>8, <3>10, <3>11
  <2>3. QED
    BY <1>2, <2>1, <2>2
<1>10. GrepIn(p', output', f, d)
  BY <1>2, <1>4, <1>7, <1>8, <1>9 DEF GrepIn
<1>11. QED
  BY <1>5, <1>6, <1>10, GrepInNext

\* The file is closed: all that is to be found in it is shown.
LEMMA GrepClosesFile ==
    ASSUME KernelOK, GrepOK, GrepShown, GrepClose
    PROVE  GrepIs(p', output', fd_array')
<1> DEFINE d == EntriesDone(p, fd_array)
           f == fd_array[p.fd]
<1>1. p.at = "close" /\ output' = output /\ Closing(p.fd)
  BY DEF GrepClose, At, Silent
<1>2. /\ GrepIn(p, output, f, d)
      /\ d \in 1 .. Len(Dentries) /\ d \in Nat /\ OpenFile(f) /\ f.file_type \in {"rtc", "file"}
      /\ Holding(p.dir) /\ Holding(p.fd) /\ p.dir # p.fd /\ p.dir \in Fds /\ p.fd \in Fds
  BY <1>1, GrepInFile
<1>3. IsString(output) /\ IsString(p.arg) /\ p.arg # << >> /\ Dentries[d].name[1] # DOT
  BY <1>2 DEF GrepIn, InEntryFile
<1>4. fd_array'[p.dir] = fd_array[p.dir]
  <2>1. KernelOK' /\ Close(p.fd)
    BY <1>1, Callings
  <2>2. fd_array' = fd_array \/ fd_array' = [fd_array EXCEPT ![p.fd] = NoFile]
    BY <2>1, CloseStep
  <2>3. p.dir \in DOMAIN fd_array
    BY <1>2 DEF KernelOK
  <2>4. QED
    BY <1>2, <2>2, <2>3
<1>5. CASE result'.ret = -1
  <2>1. p' = Ended(3)
    BY <1>5 DEF GrepClose
  <2>2. p'.at = "ended" /\ p'.status = 3 /\ p'.arg = p.arg
    BY <2>1, GrepSets DEF GrepSame
  <2>3. QED
    BY <1>1, <1>3, <2>2 DEF GrepIs
<1>6. CASE result'.ret # -1
  <2>1. p' = [p EXCEPT !.at = "entry"]
    BY <1>6 DEF GrepClose
  <2>2. p'.at = "entry" /\ p'.arg = p.arg /\ p'.dir = p.dir
    BY <2>1, GrepSets DEF GrepSame
  <2>3. EntriesDone(p', fd_array') = d
    BY <1>4, <2>2 DEF EntriesDone
  <2>4. ASSUME ~Excused(d) PROVE output' = FoundTo(d)
    <3>1. PICK j \in 0 .. Len(Dentries) - 1 : j = d - 1 /\ j + 1 = d
      BY <1>2, DentriesSeq
    <3>2. FoundTo(d) = FoundTo(d - 1) \o LinesFound(d) /\ IsString(FoundTo(d - 1))
      <4>1. FoundTo(j + 1) = FoundTo(j) \o LinesFound(j + 1)
        BY FoundToGrows
      <4>2. j \in 0 .. Len(Dentries)
        BY DentriesSeq
      <4>3. IsString(FoundTo(j))
        BY <4>2, FoundToGrows
      <4>4. QED
        BY <3>1, <4>1, <4>3
    <3>3. LinesFound(d) = FoundIn(d, Len(LinesNamed(d))) /\ FoundIn(d, 0) = << >>
      BY <1>2, <1>3, FoundGrows
    <3>4. ShownIn(p, output, f, d)
      BY <1>2, <2>4 DEF GrepIn
    <3>5. CASE f.file_type = "rtc"
      <4>1. output = FoundTo(d - 1)
        BY <3>4, <3>5 DEF ShownIn, ShownInText, ShownInClock
      <4>2. LinesNamed(d) = << >>
        BY <1>2, <3>5, EntryText DEF GrepIn, InEntryFile
      <4>3. LinesFound(d) = << >>
        BY <3>3, <4>2, EmptyString
      <4>4. QED
        BY <1>1, <3>2, <4>1, <4>3, JoinEmpty
    <3>6. CASE f.file_type = "file"
      <4>1. PICK t, e : \E n \in Nat : \E m \in 0 .. n : ShownInText(p, output, f, d, t, e, n, m)
        BY <3>4, <3>6 DEF ShownIn, ShownInClock
      <4>2. PICK n \in Nat : \E m \in 0 .. n : ShownInText(p, output, f, d, t, e, n, m)
        BY <4>1
      <4>3. PICK m \in 0 .. n : ShownInText(p, output, f, d, t, e, n, m)
        BY <4>2
      <4>4. t = InFile(f.inode) /\ IsMarks(e, n, t) /\ m = n
            /\ output = FoundTo(d - 1) \o FoundIn(d, m)
        BY <1>1, <4>3 DEF ShownInText, GrepThrough
      <4>5. IsString(t) /\ LinesNamed(d) = LinesOf(t)
        BY <1>2, <3>6, <4>4, EntryText DEF GrepIn, InEntryFile
      <4>6. Len(LinesNamed(d)) = n
        BY <1>2, <4>4, <4>5, EntryLines
      <4>7. QED
        BY <1>1, <3>2, <3>3, <4>4, <4>6
    <3>7. QED
      BY <1>2, <3>5, <3>6
  <2>5. d \in 0 .. Len(Dentries)
    BY <1>2, DentriesSeq
  <2> HIDE DEF d
  <2>6. QED
    BY <1>1, <1>3, <2>2, <2>3, <2>4, <2>5 DEF GrepIs
<1>7. QED
  BY <1>5, <1>6

\* Every step of grep: what it shows is what the lines of the files hold.
LEMMA GrepShowsOn ==
    ASSUME KernelOK, GrepOK, GrepShown, ReadArgument("grep", "directory") \/ Grep
    PROVE  GrepShown'
<1>1. GrepIs(p', output', fd_array')
  <2>1. CASE ReadArgument("grep", "directory")
    BY <2>1, GrepArgued
  <2>2. CASE GrepOpenDirectory
    BY <2>2, GrepEnters
  <2>3. CASE GrepReadEntry
    BY <2>3, GrepEntry
  <2>4. CASE GrepOpen
    BY <2>4, GrepOpensFile
  <2>5. CASE GrepRead
    BY <2>5, GrepReadsPiece
  <2>6. CASE GrepLine
    BY <2>6, GrepLooksOn
  <2>7. CASE GrepClose
    BY <2>7, GrepClosesFile
  <2>8. QED
    BY <2>1, <2>2, <2>3, <2>4, <2>5, <2>6, <2>7 DEF Grep
<1>2. letters' = letters
  BY DEF ReadArgument, Grep, GrepOpenDirectory, GrepReadEntry, GrepOpen, GrepRead, GrepLine,
         GrepClose, Silent
<1>3. p'.arg = p.arg /\ p'.junk = p.junk
  <2>1. PICK old : GrepShape(p, old)
    BY GrepTypes
  <2>2. CASE GrepLine
    BY <2>2, GrepRound DEF GrepSame
  <2>3. CASE GrepRead
    <3> DEFINE cnt == result'.ret
               last == p.last + cnt
               data == [i \in 0 .. BUFSIZE |-> IF i \in p.last .. p.last + cnt - 1
                                               THEN Text(result'.bytes)[i - p.last + 1]
                                               ELSE p.data[i]]
    <3>1. p' = IF cnt = -1 THEN Ended(3)
               ELSE [p EXCEPT !.at = "line", !.cnt = cnt, !.last = last, !.line_start = 0,
                              !.data = data]
      BY <2>3 DEF GrepRead
    <3> HIDE DEF cnt, last, data
    <3>2. QED
      BY <2>1, <3>1 DEF GrepShape, Ended
  <2>4. CASE GrepOpen
    <3> DEFINE fd == result'.ret
               data == [i \in 0 .. BUFSIZE |-> p.junk]
    <3>1. p' = IF fd = -1 THEN Ended(3)
               ELSE [p EXCEPT !.at = "read", !.fd = fd, !.last = 0, !.data = data]
      BY <2>4 DEF GrepOpen
    <3> HIDE DEF fd, data
    <3>2. QED
      BY <2>1, <3>1 DEF GrepShape, Ended
  <2>5. CASE GrepReadEntry
    <3>1. \/ \E status : p' = Ended(status)
          \/ p' = p
          \/ \E name : p' = [p EXCEPT !.at = "file", !.fname = name]
      <4>1. p' = CASE result'.ret = 0  -> Ended(0)
                  [] result'.ret = -1 -> Ended(3)
                  [] OTHER -> IF result'.bytes[1] = DOT THEN p
                              ELSE [p EXCEPT !.at = "file", !.fname = result'.bytes]
        BY <2>5 DEF GrepReadEntry
      <4>2. CASE result'.ret = 0
        <5>1. p' = Ended(0)
          BY <4>1, <4>2
        <5>2. QED
          BY <5>1
      <4>3. CASE result'.ret = -1
        <5>1. p' = Ended(3)
          BY <4>1, <4>3
        <5>2. QED
          BY <5>1
      <4>4. CASE result'.ret # 0 /\ result'.ret # -1
        BY <4>1, <4>4
      <4>5. QED
        BY <4>2, <4>3, <4>4
    <3>2. QED
      BY <2>1, <3>1 DEF GrepShape, Ended
  <2>6. CASE ReadArgument("grep", "directory") \/ GrepOpenDirectory \/ GrepClose
    <3>1. \/ \E status : p' = Ended(status)
          \/ \E at : p' = [p EXCEPT !.at = at]
          \/ \E dir : p' = [p EXCEPT !.at = "entry", !.dir = dir]
      BY <2>6 DEF ReadArgument, GrepOpenDirectory, GrepClose
    <3>2. QED
      BY <2>1, <3>1 DEF GrepShape, Ended
  <2>7. QED
    BY <2>2, <2>3, <2>4, <2>5, <2>6 DEF Grep
<1>5. QED
  BY <1>1, <1>2, <1>3, GrepNow DEF GrepShown

LEMMA GrepShowsAll ==
    ASSUME GrepShown
    PROVE  GrepShows
<1> DEFINE d == IF p.at = "ended" THEN Len(Dentries) ELSE fd_array[p.dir].file_pos
<1> SUFFICES ASSUME p.at = "entry" \/ (p.at = "ended" /\ p.status = 0)
             PROVE  \/ p.junk = NEWLINE \/ \E k \in 1 .. d : AnyUnfit(k)
                    \/ output = FlattenSeq([k \in 1 .. d |-> LinesFound(k)])
  BY DEF GrepShows
<1>1. Excused(d) \/ output = FoundTo(d)
  BY DEF GrepShown, GrepIs, EntriesDone
<1>2. QED
  BY <1>1 DEF Excused, FoundTo

-----------------------------------------------------------------------------
(***************************************************************************)
(* The programs together.                                                  *)
(***************************************************************************)
\* The invariant from which ProgramsShow follows.
ShownOK == /\ p.prog \in {"cat", "ls"} => CopierShown
           /\ p.prog = "grep" => GrepShown
           /\ p.prog = "counter" => CounterShown
           /\ p.prog = "fish" => FishShown
ShowInv == Inv /\ NamesPlain /\ ShownOK

LEMMA ProgramKinds ==
    /\ CopierOK => p.prog \in {"cat", "ls"}
    /\ GrepOK => p.prog = "grep"
    /\ CounterOK => p.prog = "counter"
    /\ FishOK => p.prog = "fish"
    /\ SyserrOK => p.prog = "syserr"
BY DEF CopierOK, GrepOK, CounterOK, FishOK, SyserrOK

LEMMA ShownStarts ==
    ASSUME Init
    PROVE  ShowInv
<1>0. /\ table = FreshTable /\ output = << >> /\ letters \in Letterings(p.prog)
      /\ p \in {[prog |-> "any"], LsState, CounterState, FishState}
               \cup SyserrStates \cup CatStates \cup GrepStates
  BY DEF Init, FileSystemInit
<1>1. Inv
  BY InitKeeps
<1>2. p.prog \in {"any", "cat", "ls", "grep", "counter", "fish", "syserr"}
  BY <1>1, ProgramKinds DEF Inv, ProgramOK
<1>3. NamesPlain
  BY <1>0, <1>2, LetteringAssumption DEF NamesPlain
<1>k. /\ p \in SyserrStates => p.prog = "syserr"
      /\ p \in CatStates => p.prog = "cat"
      /\ p \in GrepStates => p.prog = "grep"
      /\ p = [prog |-> "any"] => p.prog = "any"
      /\ p = LsState => p.prog = "ls"
      /\ p = CounterState => p.prog = "counter"
      /\ p = FishState => p.prog = "fish"
  <2>1. p \in SyserrStates => p.prog = "syserr"
    BY DEF SyserrStates
  <2>2. p \in CatStates => p.prog = "cat"
    BY DEF CatStates, Copier
  <2>3. p \in GrepStates => p.prog = "grep"
    BY DEF GrepStates
  <2>4. p = LsState => p.prog = "ls"
    BY DEF LsState, Copier
  <2>5. p = CounterState => p.prog = "counter"
    BY DEF CounterState
  <2>6. p = FishState => p.prog = "fish"
    BY DEF FishState
  <2>7. QED
    BY <2>1, <2>2, <2>3, <2>4, <2>5, <2>6
<1>4. ASSUME p.prog \in {"cat", "ls"} PROVE CopierShown
  <2>1. p = LsState \/ p \in CatStates
    BY <1>0, <1>4, <1>k
  <2>2. CASE p = LsState
    BY <1>0, <2>2, EmptyString DEF LsState, Copier, CopierShown, CopierKind
  <2>3. CASE p \in CatStates
    <3>1. PICK name : p = Copier("cat", "argument", name, CAT_SIZE, << >>)
      BY <2>3 DEF CatStates
    <3>2. QED
      BY <1>0, <3>1, EmptyString DEF Copier, CopierShown, CopierKind
  <2>4. QED
    BY <2>1, <2>2, <2>3
<1>5. ASSUME p.prog = "counter" PROVE CounterShown
  <2>1. p = CounterState
    BY <1>0, <1>5, <1>k
  <2>2. QED
    BY <1>0, <2>1, CounterStarts
<1>6. ASSUME p.prog = "fish" PROVE FishShown
  <2>1. p = FishState
    BY <1>0, <1>6, <1>k
  <2>2. QED
    BY <1>0, <2>1, FishStarts
<1>7. ASSUME p.prog = "grep" PROVE GrepShown
  <2>1. p \in GrepStates
    BY <1>0, <1>7, <1>k
  <2>2. QED
    BY <1>0, <2>1, GrepStarts
<1>8. QED
  BY <1>1, <1>3, <1>4, <1>5, <1>6, <1>7 DEF ShowInv, ShownOK

LEMMA ShownStays ==
    ASSUME ShownOK, UNCHANGED vars
    PROVE  ShownOK'
<1>0. table' = table /\ fd_array' = fd_array /\ p' = p /\ output' = output /\ letters' = letters
  BY DEF vars, kernel
<1>1. ASSUME CopierShown PROVE CopierShown'
  <2>1. CopierKind'
    BY <1>0, <1>1 DEF CopierShown, CopierKind
  <2>2. \A name, f : IsFileNamed(f, name)' <=> IsFileNamed(f, name)
    BY DEF IsFileNamed, NewFile, Found, Lookup, Matches
  <2>3. /\ \A f : AtEnd(f)' <=> AtEnd(f)
        /\ \A f, ending : ReadSoFar(f, ending)' = ReadSoFar(f, ending)
        /\ \A inode : HasBad(inode)' <=> HasBad(inode)
    BY <1>0 DEF ReadSoFar, Text, NamesListed, NameWith, Run, ByteAt, AtEnd, HasBad, Bad
  <2>4. \A shown, name, ending : IsWhole(shown, name, ending)' <=> IsWhole(shown, name, ending)
    BY <2>2, <2>3 DEF IsWhole
  <2>5. QED
    BY <1>0, <1>1, <2>1, <2>2, <2>3, <2>4 DEF CopierShown
<1>2. ASSUME CounterShown PROVE CounterShown'
  BY <1>0, <1>2, CounterNow DEF CounterShown
<1>3. ASSUME FishShown PROVE FishShown'
  <2>1. FishTypes(p)'
    BY <1>0, <1>3 DEF FishShown, FishTypes, Pair
  <2>2. CASE p.at = "open"
    <3>1. FishOpens'
      BY <1>0, <1>3, <2>2 DEF FishShown, FishOpens, NewFile, Lookup, Matches, AfterOpen, FreshTable
    <3>2. QED
      BY <1>0, <2>1, <2>2, <3>1 DEF FishShown
  <2>3. CASE p.at # "open"
    <3>1. FishHolds /\ FishTypes(p) /\ (NoneBad => FishExactly)
      BY <1>3, <2>3 DEF FishShown
    <3>2. FishTypes(p')
      BY <1>0, <3>1
    <3>3. QED
      BY <1>0, <2>3, <3>1, <3>2, FishNow DEF FishHolds, Holding, FishExactly
  <2>4. QED
    BY <2>2, <2>3
<1>4. ASSUME GrepShown PROVE GrepShown'
  <2>1. GrepIs(p', output', fd_array')
    BY <1>0, <1>4 DEF GrepShown
  <2>2. QED
    BY <1>0, <2>1, GrepNow DEF GrepShown
<1>5. QED
  BY <1>0, <1>1, <1>2, <1>3, <1>4 DEF ShownOK

LEMMA ShownKeeps ==
    ASSUME ShowInv, [Next]_vars
    PROVE  ShowInv'
<1>0. Inv /\ NamesPlain /\ ShownOK /\ KernelOK
  BY DEF ShowInv, Inv
<1>1. Inv'
  BY <1>0, StepKeeps
<1>2. letters' = letters
  BY DEF Next, Step, AnyProgram, Silent, ReadArgument, Copy, CopyOpen, CopyRead, CopyWrite, Grep,
         GrepOpenDirectory, GrepReadEntry, GrepOpen, GrepRead, GrepLine, GrepClose, Counter,
         CounterAsk, CounterCount, Fish, FishOpen, FishRead, FishShow, FishRow, vars
<1>3. NamesPlain'
  BY <1>0, <1>2 DEF NamesPlain
<1> SUFFICES ShownOK'
  BY <1>1, <1>3 DEF ShowInv
<1>4. CASE AnyProgram
  BY <1>4 DEF AnyProgram, ShownOK
<1>5. CASE CallTested(Directory) /\ Silent
  <2>1. SyserrOK
    BY <1>0, <1>5, ProgramKinds DEF CallTested, Inv, ProgramOK
  <2>2. p'.prog = "syserr"
    BY <1>0, <1>5, <2>1, SyserrStep DEF SyserrOK
  <2>3. QED
    BY <2>2 DEF ShownOK
<1>6. CASE ReadArgument("cat", "open") \/ Copy("cat") \/ Copy("ls")
  <2>1. CopierOK
    BY <1>0, <1>6, ProgramKinds
       DEF ReadArgument, Copy, CopyOpen, CopyRead, CopyWrite, At, Inv, ProgramOK
  <2>2. CopierShown
    BY <1>0, <2>1, ProgramKinds DEF ShownOK
  <2>3. CopierShown'
    BY <1>0, <1>6, <2>1, <2>2, CopierShowsOn
  <2>4. p'.prog \in {"cat", "ls"}
    BY <1>0, <1>6, <2>1, CopierStep DEF CopierOK
  <2>5. QED
    BY <2>3, <2>4 DEF ShownOK
<1>7. CASE ReadArgument("grep", "directory") \/ Grep
  <2>1. GrepOK
    BY <1>0, <1>7, ProgramKinds
       DEF ReadArgument, Grep, GrepOpenDirectory, GrepReadEntry, GrepOpen, GrepRead,
           GrepLine, GrepClose, At, Inv, ProgramOK
  <2>2. GrepShown'
    BY <1>0, <1>7, <2>1, ProgramKinds, GrepShowsOn DEF ShownOK
  <2>3. p'.prog = "grep"
    BY <1>0, <1>7, <2>1, GrepStep DEF GrepOK
  <2>4. QED
    BY <2>2, <2>3 DEF ShownOK
<1>8. CASE Counter
  <2>1. CounterOK
    BY <1>0, <1>8, ProgramKinds DEF Counter, CounterAsk, CounterCount, At, Inv, ProgramOK
  <2>2. CounterShown'
    BY <1>0, <1>8, <2>1, ProgramKinds, CounterCounts DEF ShownOK
  <2>3. p'.prog = "counter"
    BY <1>0, <1>8, <2>1, CounterStep DEF CounterOK
  <2>4. QED
    BY <2>2, <2>3 DEF ShownOK
<1>9. CASE Fish
  <2>1. FishOK
    BY <1>0, <1>9, ProgramKinds DEF Fish, FishOpen, FishRead, FishShow, FishRow, At, Inv, ProgramOK
  <2>2. FishShown'
    BY <1>0, <1>9, <2>1, ProgramKinds, FishShowsOn DEF ShownOK
  <2>3. p'.prog = "fish"
    BY <1>0, <1>9, <2>1, FishStep DEF FishOK
  <2>4. QED
    BY <2>2, <2>3 DEF ShownOK
<1>10. CASE UNCHANGED vars
  BY <1>0, <1>10, ShownStays
<1>11. QED
  BY <1>4, <1>5, <1>6, <1>7, <1>8, <1>9, <1>10 DEF Next, Step

LEMMA AllIsShown ==
    ASSUME ShowInv
    PROVE  ProgramsShow
<1>0. KernelOK /\ ProgramOK /\ ShownOK
  BY DEF ShowInv, Inv
<1>1. CopyShows
  <2>1. CASE CopierOK
    BY <1>0, <2>1, ProgramKinds, CopierShowsAll DEF ShownOK
  <2>2. CASE ~CopierOK
    BY <1>0, <2>2, ProgramKinds DEF ProgramOK, CopyShows
  <2>3. QED
    BY <2>1, <2>2
<1>2. CounterShows
  BY <1>0, CounterShowsAll DEF ShownOK, CounterShows
<1>3. FishShows
  BY <1>0, FishShowsAll DEF ShownOK, FishShows
<1>4. QED
  BY <1>1, <1>2, <1>3 DEF ProgramsShow

\* What cat, ls, counter and fish show is what the files hold, on every disk and with every
\* size of their buffers that a name fits in.
THEOREM ShowsFiles == Spec => []ProgramsShow
<1>1. Init => ShowInv
  BY ShownStarts
<1>2. ShowInv /\ [Next]_vars => ShowInv'
  BY ShownKeeps
<1>3. ShowInv => ProgramsShow
  BY AllIsShown
<1>4. QED
  BY <1>1, <1>2, <1>3, PTL DEF Spec

\* grep shows every line that holds the pattern, whole and once and in the order of the
\* directory, wherever the pieces that it reads end, on every disk and with a buffer of any
\* size, as long as the lines fit in it and hold no null character.
THEOREM ShowsLines == Spec => []GrepShows
<1>1. Init => ShowInv
  BY ShownStarts
<1>2. ShowInv /\ [Next]_vars => ShowInv'
  BY ShownKeeps
<1>3. ShowInv => GrepShows
  <2>1. ASSUME ShowInv, p.prog = "grep" PROVE GrepShows
    BY <2>1, GrepShowsAll DEF ShowInv, ShownOK
  <2>2. ASSUME p.prog # "grep" PROVE GrepShows
    BY <2>2 DEF GrepShows
  <2>3. QED
    BY <2>1, <2>2
<1>4. QED
  BY <1>1, <1>2, <1>3, PTL DEF Spec
=============================================================================
