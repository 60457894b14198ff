----------------------------- MODULE MCMalloc -----------------------------
EXTENDS MallocProps, TLC

CONSTANTS p1, p2

TwoPrograms == {p1, p2}
Programs == Permutations(TwoPrograms)

\* With four pages of eight bytes: less than a page, two pages, all, too large.
AllSizes == {5, 16, 32, 33}
PageSizes == {8, 16}
=============================================================================
