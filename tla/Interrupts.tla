----------------------------- MODULE Interrupts -----------------------------
(***************************************************************************)
(* Interrupt delivery: the two 8259s and send_eoi (i8259.c), the handlers  *)
(* (x86_inter.c), the order in which entry (kernel.c) starts devices and   *)
(* enables interrupts, and the handshake of kboard_init with the keyboard. *)
(*                                                                         *)
(* A handler runs with interrupts disabled; the timer's handler returns in *)
(* another context, by schedule.  What handlers do is in Terminal, Rtc and *)
(* Processes.                                                              *)
(***************************************************************************)
EXTENDS Integers, Sequences

CONSTANTS TERMINAL_COUNT,
          Resends      \* does the keyboard ask for commands to be sent again?

ASSUME TermAssumption == TERMINAL_COUNT \in Nat \ {0}
ASSUME ResendAssumption == Resends \in BOOLEAN

PIT_IRQ == 0
KEYBOARD_IRQ == 1
SLAVE_IRQ == 2
RTC_IRQ == 8
NO_IRQ == -1
PIT_RATE_CONSTANT == 1193182
PIT_DIVISOR(ms) == (ms \div 1000) * PIT_RATE_CONSTANT
TIME_SLICE == 20    \* milliseconds
Lines == {PIT_IRQ, KEYBOARD_IRQ, RTC_IRQ}
OnSlave(irq) == irq >= 8

VARIABLES
    irr, isr,       \* interrupts requested and in service, on both 8259s
    imr,            \* interrupts masked in the 8259s
    mask,           \* the same as master_mask and slave_mask remember it
    if,             \* does the processor take interrupts?
    handler,        \* the interrupt being handled, or NO_IRQ
    boot,           \* the next statement of entry
    ctx,            \* [0 .. TERMINAL_COUNT - 1 -> is its shell "new" or "started"]
    terminal_active,
    port,           \* what the keyboard's data port holds
    command,        \* was the keyboard sent a command that it has not answered?
    kboard_ack,
    rtc_c,          \* must register C be read before the RTC interrupts again?
    divisor,        \* what the timer's channel 0 counts down from; 0 is 2^16
    served          \* the lines served since the program last ran

vars == <<irr, isr, imr, mask, if, handler, boot, ctx, terminal_active, port, command,
          kboard_ack, rtc_c, divisor, served>>
cpu == <<if, handler, boot, ctx, terminal_active>>
pic == <<irr, isr, imr, mask>>
keyboard == <<port, command, kboard_ack>>
devices == <<keyboard, rtc_c, divisor>>

\* entry, from i8259_init on; interrupts are disabled until rtc_init's sti.
Statements == <<"i8259_init", "enable_kboard", "rtc_init", "rtc_update_rate", "enable_rtc",
                "init_pids", "send_1", "wait_1", "send_2", "wait_2", "pit_cli", "pit_sti",
                "enable_pit", "sti", "hlt">>
At(s) == CHOOSE i \in 1 .. Len(Statements) : Statements[i] = s
Following(s) == Statements[At(s) + 1]

Init == /\ irr = {} /\ isr = {}
        /\ imr = Lines \cup {SLAVE_IRQ} /\ mask = imr
        /\ if = FALSE
        /\ handler = NO_IRQ
        /\ boot = "i8259_init"
        /\ ctx = [t \in 0 .. TERMINAL_COUNT - 1 |-> "new"]
        /\ terminal_active = TERMINAL_COUNT - 1
        /\ port = "empty" /\ command = FALSE /\ kboard_ack = FALSE
        /\ rtc_c = FALSE /\ divisor = 0 /\ served = {}

-----------------------------------------------------------------------------
(***************************************************************************)
(* The 8259s: the lowest number has priority; in-service interrupts block  *)
(* those that do not come before them; the slave is behind IRQ 2.          *)
(***************************************************************************)
MasterLine(irq) == IF OnSlave(irq) THEN SLAVE_IRQ ELSE irq

CanInterrupt(irq) == /\ irq \in irr
                     /\ irq \notin imr /\ MasterLine(irq) \notin imr
                     /\ \A i \in isr : MasterLine(irq) < MasterLine(i)

Taken(irq) == /\ if /\ handler = NO_IRQ
              /\ CanInterrupt(irq)
              /\ \A i \in Lines : CanInterrupt(i) => irq <= i

\* The processor runs the program only while no interrupt is to be taken.
Runs == handler = NO_IRQ /\ \A irq \in Lines : ~Taken(irq)

Interrupt(irq) == /\ Taken(irq)
                  /\ irr' = irr \ {irq}
                  /\ isr' = isr \cup {irq, MasterLine(irq)}
                  /\ if' = FALSE
                  /\ handler' = irq
                  /\ served' = served \cup {irq}
                  /\ UNCHANGED <<imr, mask, boot, ctx, terminal_active, devices>>

SendEoi_SlaveOnly(irq) == isr' = isr \ {irq}
SendEoi(irq) == isr' = isr \ {irq, MasterLine(irq)}

EnableIrq_NoCache(irq) == /\ imr' = mask \ {irq}
                          /\ mask' = mask
                          /\ UNCHANGED <<irr, isr>>
EnableIrq(irq) == /\ imr' = mask \ {irq}
                  /\ mask' = mask \ {irq}
                  /\ UNCHANGED <<irr, isr>>

-----------------------------------------------------------------------------
(***************************************************************************)
(* Handlers.  iret restores the flag.                                      *)
(***************************************************************************)
Iret == if' = TRUE /\ handler' = NO_IRQ

RtcHandler == /\ handler = RTC_IRQ
              /\ rtc_c' = FALSE
              /\ SendEoi(RTC_IRQ)
              /\ Iret
              /\ UNCHANGED <<irr, imr, mask, boot, ctx, terminal_active, keyboard, divisor,
                             served>>

KeyboardHandler_AckNoEoi ==
    /\ handler = KEYBOARD_IRQ
    /\ port' = "empty"
    /\ kboard_ack' = (kboard_ack \/ port = "ack")
    /\ IF port = "ack" THEN isr' = isr ELSE SendEoi(KEYBOARD_IRQ)
    /\ Iret
    /\ UNCHANGED <<irr, imr, mask, boot, ctx, terminal_active, command, rtc_c, divisor,
                   served>>

KeyboardHandler == /\ handler = KEYBOARD_IRQ
                   /\ port' = "empty"
                   /\ kboard_ack' = (kboard_ack \/ port = "ack")
                   /\ SendEoi(KEYBOARD_IRQ)
                   /\ Iret
                   /\ UNCHANGED <<irr, imr, mask, boot, ctx, terminal_active, command, rtc_c,
                                  divisor, served>>

\* schedule does not return here: the next terminal's shell starts, or returns from
\* the interrupt that suspended it.
Schedule == /\ terminal_active' = (terminal_active + 1) % TERMINAL_COUNT
            /\ ctx' = [ctx EXCEPT ![terminal_active'] = "started"]

PitHandler == /\ handler = PIT_IRQ
              /\ SendEoi(PIT_IRQ)
              /\ Schedule
              /\ Iret
              /\ UNCHANGED <<irr, imr, mask, boot, devices, served>>

-----------------------------------------------------------------------------
(***************************************************************************)
(* entry, until the first tick takes the processor away from it.           *)
(***************************************************************************)
Booting == \A t \in DOMAIN ctx : ctx[t] = "new"

Step(s) == /\ Runs /\ Booting
           /\ boot = s
           /\ boot' = Following(s)
           /\ served' = {}
           /\ UNCHANGED <<handler, ctx, terminal_active>>

InitPic == /\ Step("i8259_init")
           /\ mask' = Lines
           /\ imr' = Lines
           /\ UNCHANGED <<irr, isr, if, devices>>

Enable(s, irq) == Step(s) /\ EnableIrq(irq) /\ UNCHANGED <<if, devices>>

EnableKeyboard == Enable("enable_kboard", KEYBOARD_IRQ)
EnableRtc == Enable("enable_rtc", RTC_IRQ)
EnablePit == Enable("enable_pit", PIT_IRQ)

InitPids == Step("init_pids") /\ UNCHANGED <<if, pic, devices>>

\* Both rtc_init and rtc_update_rate end with sti.
StartRtc == /\ Step("rtc_init") \/ Step("rtc_update_rate")
            /\ if' = TRUE
            /\ UNCHANGED <<pic, devices>>

SendCommand == /\ Step("send_1") \/ Step("send_2")
               /\ command' = TRUE
               /\ UNCHANGED <<if, pic, port, kboard_ack, rtc_c, divisor>>

WaitAck == /\ Step("wait_1") \/ Step("wait_2")
           /\ kboard_ack
           /\ kboard_ack' = FALSE
           /\ UNCHANGED <<if, pic, port, command, rtc_c, divisor>>

PitInit == \/ /\ Step("pit_cli")
              /\ if' = FALSE
              /\ divisor' = PIT_DIVISOR(TIME_SLICE) % 2^16
              /\ UNCHANGED <<pic, keyboard, rtc_c>>
           \/ /\ Step("pit_sti")
              /\ if' = TRUE
              /\ UNCHANGED <<pic, devices>>

Sti == Step("sti") /\ if' = TRUE /\ UNCHANGED <<pic, devices>>

Entry == \/ InitPic \/ EnableKeyboard \/ EnableRtc \/ EnablePit \/ InitPids
         \/ StartRtc \/ SendCommand \/ WaitAck \/ PitInit \/ Sti

\* Programs, with the critical sections of their system calls; wait_ack's loop; hlt.
Run == /\ Runs
       /\ served' = {}
       /\ UNCHANGED <<handler, boot, ctx, terminal_active, pic, devices>>

CriticalSection == Run /\ ~Booting /\ if' = ~if
Compute == Run /\ if' = if

-----------------------------------------------------------------------------
(***************************************************************************)
(* Devices.  They are slower than the processor: the program runs between  *)
(* an interrupt and the next of the same device.                           *)
(***************************************************************************)
Raise(irq) == /\ irq \notin irr \cup served
              /\ irr' = irr \cup {irq}
              /\ UNCHANGED <<isr, imr, mask, cpu, served>>

PitFires == Raise(PIT_IRQ) /\ UNCHANGED devices

RtcFires == /\ At(boot) > At("rtc_init")
            /\ ~rtc_c
            /\ rtc_c' = TRUE
            /\ Raise(RTC_IRQ)
            /\ UNCHANGED <<keyboard, divisor>>

Sends(byte) == /\ port = "empty"
               /\ port' = byte
               /\ Raise(KEYBOARD_IRQ)
               /\ UNCHANGED <<kboard_ack, rtc_c, divisor>>

KeyTyped == Sends("key") /\ UNCHANGED command

Answer == /\ command
          /\ command' = FALSE
          /\ \/ Sends("ack")
             \/ Resends /\ Sends("resend")

Next == \/ \E irq \in Lines : Interrupt(irq)
        \/ RtcHandler \/ KeyboardHandler \/ PitHandler
        \/ Entry \/ CriticalSection \/ Compute
        \/ PitFires \/ RtcFires \/ KeyTyped \/ Answer

Spec == Init /\ [][Next]_vars

\* The processor does not stop, and gets on between the interrupts; system calls leave
\* their critical sections, the timer and the RTC go on, and the keyboard answers what
\* it is sent, between keys.
Fairness == /\ \A irq \in Lines : WF_vars(Interrupt(irq))
            /\ WF_vars(RtcHandler) /\ WF_vars(KeyboardHandler) /\ WF_vars(PitHandler)
            /\ WF_vars(Compute) /\ SF_vars(Entry) /\ SF_vars(CriticalSection /\ ~if)
            /\ WF_vars(PitFires) /\ WF_vars(RtcFires) /\ SF_vars(Answer)

LiveSpec == Spec /\ Fairness
=============================================================================
