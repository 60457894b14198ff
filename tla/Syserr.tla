------------------------------- MODULE Syserr -------------------------------
(***************************************************************************)
(* The test program ece391syserr.c: eight tests that call the system in    *)
(* ways that must fail, one of them or all in a row.  The descriptors are  *)
(* those of the model, FD_ARRAY_SIZE in place of 8.                        *)
(***************************************************************************)
EXTENDS Syscalls

CONSTANTS NearMisses    \* names that are nearly those of files

VARIABLE p      \* the variables of the program that runs; of this one prog, the tests
                \* that are left, the next call, opens that failed in cnt, and fail

\* Of the buffer that the tests read into and write from.
READ_SIZE == 31

ASSUME SyserrAssumption ==
    /\ READ_SIZE < WORD
    /\ NearMisses # << >> /\ IsString(NearMisses)
    /\ \A k \in 1 .. Len(NearMisses) : IsString(NearMisses[k]) /\ NearMisses[k] \notin Names

NEG_FD == -1073741823
BIG_FD == 1073741823

Fd(eax, fd) == [eax |-> eax, args |-> [NoArguments EXCEPT !.fd = fd, !.nbytes = READ_SIZE]]
Named(name) == [eax |-> SYS_OPEN, args |-> [NoArguments EXCEPT !.name = name]]
Pointer(buf) == [eax |-> SYS_VIDMAP, args |-> [NoArguments EXCEPT !.buf = buf]]
Number(eax) == [eax |-> eax, args |-> NoArguments]

OnFds(eax, first) == [k \in 1 .. FD_ARRAY_SIZE - first |-> Fd(eax, first + k - 1)]
OnAny(fd) == <<Fd(SYS_READ, fd), Fd(SYS_WRITE, fd), Fd(SYS_CLOSE, fd)>>

\* The calls of the tests, all of which must return -1, but for the third, which must
\* fail to open a directory exactly once.
OPEN_LOTS == 3
Calls(dot) ==
    <<OnAny(NEG_FD),
      OnAny(BIG_FD),
      [k \in 1 .. FD_ARRAY_SIZE - 1 |-> Named(dot)] \o OnFds(SYS_CLOSE, 2),
      [k \in 1 .. Len(NearMisses) |-> Named(NearMisses[k])],
      OnFds(SYS_CLOSE, 0) \o OnFds(SYS_READ, 2) \o OnFds(SYS_WRITE, 2),
      <<Pointer("null"), Pointer("kernel")>>,
      <<Fd(SYS_WRITE, 0), Fd(SYS_READ, 1)>>,
      <<Number(BIG_FD), Number(NEG_FD), Number(0)>>>>

\* main: what is selected is one test, or with 0 all of them.
Selected(select) == IF select = 0 THEN [k \in 1 .. 8 |-> k] ELSE <<select>>

SyserrStates == {[prog |-> "syserr", tests |-> Selected(select), next |-> 1, cnt |-> 0,
                  fail |-> FALSE] : select \in 0 .. 8}

CallTested(dot) ==
    /\ p.prog = "syserr" /\ p.tests # << >>
    /\ LET test == Head(p.tests)
           call == Calls(dot)[test][p.next]
           last == p.next = Len(Calls(dot)[test])
           lots == test = OPEN_LOTS
           cnt  == IF lots /\ call.eax = SYS_OPEN /\ result'.ret = -1 THEN p.cnt + 1
                   ELSE p.cnt
           fail == IF lots THEN last /\ cnt # 1 ELSE result'.ret # -1
       IN  /\ SystemCall(call.eax, call.args)
           /\ p' = [p EXCEPT !.tests = IF last THEN Tail(@) ELSE @,
                             !.next  = IF last THEN 1 ELSE @ + 1,
                             !.cnt   = IF last THEN 0 ELSE cnt,
                             !.fail  = @ \/ fail]
=============================================================================
