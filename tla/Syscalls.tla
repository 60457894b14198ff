------------------------------ MODULE Syscalls ------------------------------
(***************************************************************************)
(* System calls as a program makes them: INT 0x80 with a number in EAX     *)
(* (x86_interrupts.S), the checks of syscall.c and the jump table of the   *)
(* descriptor.  What execute, halt, getargs and malloc do is in Processes, *)
(* Commands and Malloc, what vidmap maps and what the RTC does in Screen   *)
(* and Rtc: here they answer.                                              *)
(***************************************************************************)
EXTENDS FileSystem

CONSTANT Typed          \* the lines that are typed when stdin is read

ASSUME TypedAssumption == \A line \in Typed : IsString(line) /\ Len(line) < WORD

\* ece391sysnum.h
SYS_READ == 3
SYS_WRITE == 4
SYS_OPEN == 5
SYS_CLOSE == 6
SYS_VIDMAP == 8
SYS_SET_HANDLER == 9
SYS_SIGRETURN == 10

syscall_table == <<"halt", "execute", "read", "write", "open", "close", "getargs",
                   "vidmap", "set_handler", "sigreturn", "malloc", "free">>

\* sys_call_handler_link lets no other number into the table.
Handler(eax) == IF eax \in 1 .. Len(syscall_table) THEN syscall_table[eax] ELSE "error"

\* Where a pointer argument points: read, write and open look at it only for 0.
Pointers == {"null", "kernel", "user"}

Arguments == [fd : Int, buf : Pointers, nbytes : Int, name : Names \cup OtherNames]
NoArguments == [fd |-> 0, buf |-> "user", nbytes |-> 0, name |-> << >>]

Answer(r) == /\ result' = r
             /\ UNCHANGED <<table, fd_array>>
Refuse == Answer(Error)

-----------------------------------------------------------------------------
(***************************************************************************)
(* read and write, and what the jump tables of a descriptor send them to.  *)
(***************************************************************************)
\* terminal_read: the line, or as much of it as nbytes allows.
TerminalRead(fd, nbytes) ==
    /\ Reads(fd, "stdin")
    /\ \E line \in Typed :
          LET copied == Cut(line, IF nbytes < 0 THEN 0 ELSE nbytes)
          IN  Answer([ret |-> Len(copied), bytes |-> copied])

\* bad_read
BadRead(fd) == Reads(fd, "stdout") /\ Refuse

\* rtc_read returns after a tick.
RtcRead(fd) == Reads(fd, "rtc") /\ Answer(Returned(0))

TerminalWrite(fd, nbytes) == /\ Reads(fd, "stdout")
                             /\ Answer(Returned(IF nbytes < 0 THEN 0 ELSE nbytes))

\* bad_read, directory_write and file_write
BadWrite(fd) == \E type \in {"stdin", "dir", "file"} : Reads(fd, type) /\ Refuse

\* rtc_write returns -1 for what is no rate it can have.
RtcWrite(fd) == /\ Reads(fd, "rtc")
                /\ \E ret \in {-1, 0} : Answer(Returned(ret))

Usable(fd, buf) == fd \in table.spaces /\ buf # "null"

Read(fd, buf, nbytes) ==
    IF ~Usable(fd, buf) THEN Refuse
    ELSE \/ TerminalRead(fd, nbytes)
         \/ BadRead(fd)
         \/ RtcRead(fd)
         \/ DirectoryRead(fd, nbytes)
         \/ FileRead(fd, nbytes)

Write(fd, buf, nbytes) ==
    IF ~Usable(fd, buf) THEN Refuse
    ELSE TerminalWrite(fd, nbytes) \/ BadWrite(fd) \/ RtcWrite(fd)

\* vidmap checks that the pointer is in the page of the program.
Vidmap(screen_start) == IF screen_start = "user" THEN Answer(Returned(0)) ELSE Refuse

-----------------------------------------------------------------------------
SystemCall(eax, a) ==
    LET handler == Handler(eax)
    IN  \/ handler = "error" /\ Refuse
        \/ handler = "read"  /\ Read(a.fd, a.buf, a.nbytes)
        \/ handler = "write" /\ Write(a.fd, a.buf, a.nbytes)
        \/ handler = "open"  /\ (Open(a.name) \/ OpenFailing(a.name))
        \/ handler = "close" /\ Close(a.fd)
        \/ handler = "vidmap" /\ Vidmap(a.buf)
        \/ handler \in {"set_handler", "sigreturn"} /\ Answer(Returned(0))

Reading(fd, nbytes) ==
    SystemCall(SYS_READ, [NoArguments EXCEPT !.fd = fd, !.nbytes = nbytes])
Writing(fd, nbytes) ==
    SystemCall(SYS_WRITE, [NoArguments EXCEPT !.fd = fd, !.nbytes = nbytes])
Opening(name) == SystemCall(SYS_OPEN, [NoArguments EXCEPT !.name = name])
Closing(fd) == SystemCall(SYS_CLOSE, [NoArguments EXCEPT !.fd = fd])

\* A program that makes any system call at all.
AnyCall ==
    \/ \E fd \in Fds \cup {-1, FD_ARRAY_SIZE} :
          \/ \E nbytes \in ReadSizes :
                /\ nbytes >= 0 \/ ~Reads(fd, "dir")
                /\ Reading(fd, nbytes)
          \/ Writing(fd, -1) \/ Writing(fd, 1)
          \/ \E eax \in {SYS_READ, SYS_WRITE} :
                SystemCall(eax, [NoArguments EXCEPT !.fd = fd, !.buf = "null"])
          \/ Closing(fd)
    \/ \E name \in Names \cup OtherNames : Opening(name) \/ Execute(name)
    \/ \E buf \in Pointers : SystemCall(SYS_VIDMAP, [NoArguments EXCEPT !.buf = buf])
    \/ \E eax \in {-1, 0, SYS_SET_HANDLER, SYS_SIGRETURN, Len(syscall_table) + 1} :
          SystemCall(eax, NoArguments)
=============================================================================
