--------------------------- MODULE InterruptsProps ---------------------------
(***************************************************************************)
(* What interrupt delivery has to guarantee.                               *)
(***************************************************************************)
EXTENDS Interrupts, FiniteSets

\* The type invariant of the interrupt controllers, the boot sequence and the devices.
TypeOK == /\ irr \subseteq Lines
          /\ isr \subseteq Lines \cup {SLAVE_IRQ}
          /\ imr \subseteq Lines \cup {SLAVE_IRQ} /\ mask \subseteq Lines \cup {SLAVE_IRQ}
          /\ if \in BOOLEAN
          /\ handler \in Lines \cup {NO_IRQ}
          /\ boot \in {Statements[i] : i \in 1 .. Len(Statements)}
          /\ ctx \in [0 .. TERMINAL_COUNT - 1 -> {"new", "started"}]
          /\ terminal_active \in 0 .. TERMINAL_COUNT - 1
          /\ port \in {"empty", "key", "ack", "resend"}
          /\ command \in BOOLEAN /\ kboard_ack \in BOOLEAN /\ rtc_c \in BOOLEAN
          /\ divisor \in 0 .. 2^16 - 1 /\ served \subseteq Lines

\* What is in service is what is being handled: no handler, and no first start of a
\* shell that never returns to its handler, leaves an interrupt without its EOI
\* (x86_inter.c, pit_handler before schedule; i8259.c, send_eoi).
ServiceMatchesHandler ==
    isr = IF handler = NO_IRQ THEN {} ELSE {handler, MasterLine(handler)}

\* A line that the kernel has enabled is never masked by a later enable_irq, although
\* no mask is read back from the controllers (i8259.c, enable_irq).
EnabledStay == [][boot # "i8259_init" => imr' \subseteq imr]_vars

\* "Our scheduler will start a shell in each terminal" (kernel.c): the boot sequence
\* gets past its waits for the keyboard to the timer, and the timer to every terminal.
ShellsStart == \A t \in 0 .. TERMINAL_COUNT - 1 : <>(ctx[t] = "started")

\* No handler, and no context that the timer's interrupt leaves for another, stops one
\* of the three devices: every byte of the keyboard is taken, the RTC keeps
\* interrupting, and the timer gives every terminal its turn (x86_inter.c:33-182).
KeysServed == port # "empty" ~> port = "empty"
RtcKeepsTicking == []<>(handler = RTC_IRQ)
SchedulerRuns == \A t \in 0 .. TERMINAL_COUNT - 1 : []<>(terminal_active = t)
NoLineFallsSilent == KeysServed /\ RtcKeepsTicking /\ SchedulerRuns

\* Interrupts are enabled "after initiailizing all devices, paging, and PID's" (the
\* comment on entry's sti, kernel.c).
InterruptsOffUntilReady == if => At(boot) > At("sti") \/ ~Booting

\* The timer runs at the interval that pit_init asks for, "DIVISOR = PIT_RATE * T" with T
\* given in milliseconds (pit.h).
TimesliceAsAsked ==
    PIT_IRQ \notin imr => divisor = (TIME_SLICE * PIT_RATE_CONSTANT) \div 1000
=============================================================================
