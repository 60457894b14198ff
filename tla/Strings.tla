------------------------------ MODULE Strings ------------------------------
(***************************************************************************)
(* The string functions of the kernel (lib.c) and of the programs          *)
(* (ece391support.c).  A string is the sequence of its characters up to    *)
(* the null that ends it.                                                  *)
(***************************************************************************)
EXTENDS Integers, Sequences, SequencesExt

\* Characters are of any kind.
IsString(s) == s \in Seq(ToSet(s))

Lesser(m, n) == IF m < n THEN m ELSE n

\* What strncpy and strncmp see of a string: its first n characters.
Cut(s, n) == SubSeq(s, 1, Lesser(Len(s), n))

\* strncmp returns 0 when the strings are the same as far as n characters.
Alike(s, t, n) == Cut(s, n) = Cut(t, n)

\* The string that strlen, strcpy and puts find at a place of memory.
StringFrom(mem, i, nul) ==
    LET nulls == {j \in DOMAIN mem : j >= i /\ mem[j] = nul}
        last  == (CHOOSE j \in nulls : \A k \in nulls : j <= k) - 1
    IN  [j \in 1 .. last - i + 1 |-> mem[i + j - 1]]

\* itoa writes the digits from the lowest to the highest, then strrev turns them round.
Digits(value, radix, lookup) ==
    LET rest[n \in 0 .. value] ==
            IF n = 0 THEN << >>
            ELSE <<lookup[(n % radix) + 1]>> \o rest[n \div radix]
    IN  rest[value]

Itoa_LowFirst(value, radix, lookup) ==
    IF value = 0 THEN <<lookup[1]>> ELSE Digits(value, radix, lookup)
Itoa(value, radix, lookup) ==
    IF value = 0 THEN <<lookup[1]>> ELSE Reverse(Digits(value, radix, lookup))
=============================================================================
