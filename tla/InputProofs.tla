----------------------------- MODULE InputProofs -----------------------------
(***************************************************************************)
(* Proofs about what goes in, on its way from the controllers to the       *)
(* programs: that interrupts are served and masks kept (Interrupts); what  *)
(* the keyboard's handler knows and does (Keys); and which program and     *)
(* argument a line gives (Commands).                                       *)
(***************************************************************************)
EXTENDS InterruptsProps, Keys, Commands,
        SequenceTheorems, FiniteSetTheorems, WellFoundedInduction, TLAPS

-----------------------------------------------------------------------------
(***************************************************************************)
(* Interrupts: the controllers and the masks, for every number of          *)
(* terminals and every keyboard.                                           *)
(***************************************************************************)
\* The controllers have in service what is being handled, and their masks are what the
\* kernel remembers of them.
ServiceInv == /\ handler \in Lines \cup {NO_IRQ}
              /\ ServiceMatchesHandler
              /\ imr = mask

\* The numbers of the lines are different from each other and from no line.
LEMMA LineNumbers == /\ NO_IRQ \notin Lines
                     /\ Lines = {PIT_IRQ, KEYBOARD_IRQ, RTC_IRQ}
                     /\ SLAVE_IRQ \notin Lines
                     /\ MasterLine(PIT_IRQ) = PIT_IRQ
                     /\ MasterLine(KEYBOARD_IRQ) = KEYBOARD_IRQ
                     /\ MasterLine(RTC_IRQ) = SLAVE_IRQ
BY DEF NO_IRQ, Lines, PIT_IRQ, KEYBOARD_IRQ, RTC_IRQ, SLAVE_IRQ, MasterLine, OnSlave

\* The end of a handler: its own interrupt leaves the service, and no other is in it.
LEMMA HandlerEnds ==
    ASSUME NEW irq \in Lines, ServiceInv, handler = irq, SendEoi(irq), Iret,
           imr' = imr, mask' = mask
    PROVE  ServiceInv'
<1>1. isr = {irq, MasterLine(irq)}
  BY LineNumbers DEF ServiceInv, ServiceMatchesHandler
<1>2. isr' = {}
  BY <1>1 DEF SendEoi
<1>3. handler' = NO_IRQ
  BY DEF Iret
<1> QED
  BY <1>2, <1>3 DEF ServiceInv, ServiceMatchesHandler

\* What neither a handler nor a change of the masks touches.
LEMMA Elsewhere ==
    ASSUME ServiceInv, handler' = handler, isr' = isr, imr' = mask'
    PROVE  ServiceInv'
BY DEF ServiceInv, ServiceMatchesHandler, MasterLine, OnSlave, SLAVE_IRQ, Lines, NO_IRQ,
       PIT_IRQ, KEYBOARD_IRQ, RTC_IRQ

LEMMA InitService == Init => ServiceInv
BY DEF Init, ServiceInv, ServiceMatchesHandler

LEMMA InterruptService ==
    ASSUME ServiceInv, NEW irq \in Lines, Interrupt(irq)
    PROVE  ServiceInv'
<1>1. handler = NO_IRQ /\ isr = {}
  BY DEF Interrupt, Taken, ServiceInv, ServiceMatchesHandler
<1>2. isr' = {irq, MasterLine(irq)} /\ handler' = irq
  BY <1>1 DEF Interrupt
<1>3. imr' = mask'
  BY DEF Interrupt, ServiceInv
<1> QED
  BY <1>2, <1>3, LineNumbers DEF ServiceInv, ServiceMatchesHandler

LEMMA EntryService ==
    ASSUME ServiceInv, Entry
    PROVE  ServiceInv'
<1>1. handler' = handler
  BY DEF Entry, InitPic, EnableKeyboard, EnableRtc, EnablePit, Enable, InitPids, StartRtc,
         SendCommand, WaitAck, PitInit, Sti, Step
<1>2. isr' = isr
  BY DEF Entry, InitPic, EnableKeyboard, EnableRtc, EnablePit, Enable, EnableIrq, InitPids,
         StartRtc, SendCommand, WaitAck, PitInit, Sti, pic
<1>3. imr' = mask'
  BY DEF Entry, InitPic, EnableKeyboard, EnableRtc, EnablePit, Enable, EnableIrq, InitPids,
         StartRtc, SendCommand, WaitAck, PitInit, Sti, pic, ServiceInv
<1> QED
  BY <1>1, <1>2, <1>3, Elsewhere

LEMMA NextService ==
    ASSUME ServiceInv, [Next]_vars
    PROVE  ServiceInv'
<1>1. ASSUME NEW irq \in Lines, Interrupt(irq) PROVE ServiceInv'
  BY <1>1, InterruptService
<1>2. CASE RtcHandler
  BY <1>2, HandlerEnds, LineNumbers DEF RtcHandler
<1>3. CASE KeyboardHandler
  BY <1>3, HandlerEnds, LineNumbers DEF KeyboardHandler
<1>4. CASE PitHandler
  BY <1>4, HandlerEnds, LineNumbers DEF PitHandler
<1>5. CASE Entry
  BY <1>5, EntryService
<1>6. CASE CriticalSection \/ Compute
  BY <1>6, Elsewhere DEF CriticalSection, Compute, Run, pic, ServiceInv
<1>7. CASE PitFires \/ RtcFires \/ KeyTyped \/ Answer
  BY <1>7, Elsewhere DEF PitFires, RtcFires, KeyTyped, Answer, Sends, Raise, cpu, ServiceInv
<1>8. CASE UNCHANGED vars
  BY <1>8, Elsewhere DEF vars, ServiceInv
<1> QED
  BY <1>1, <1>2, <1>3, <1>4, <1>5, <1>6, <1>7, <1>8 DEF Next

LEMMA ServiceInvariance == Spec => []ServiceInv
<1>1. ServiceInv /\ [Next]_vars => ServiceInv'
  BY NextService
<1> QED
  BY InitService, <1>1, PTL DEF Spec

\* No interrupt stays in service without its handler, whatever shells start in between.
THEOREM ServiceMatchesHandlerTheorem == Spec => []ServiceMatchesHandler
<1>1. ServiceInv => ServiceMatchesHandler
  BY DEF ServiceInv
<1> QED
  BY <1>1, ServiceInvariance, PTL

\* enable_irq masks nothing: what it takes its mask from is what the controllers have.
THEOREM EnabledStayTheorem == Spec => EnabledStay
<1>1. ServiceInv /\ [Next]_vars => [boot # "i8259_init" => imr' \subseteq imr]_vars
  <2> SUFFICES ASSUME ServiceInv, Next, boot # "i8259_init"
               PROVE  imr' \subseteq imr
    OBVIOUS
  <2>1. CASE Entry
    BY <2>1 DEF Entry, InitPic, Step, EnableKeyboard, EnableRtc, EnablePit, Enable, EnableIrq,
                InitPids, StartRtc, SendCommand, WaitAck, PitInit, Sti, pic, ServiceInv
  <2>2. CASE ~Entry
    <3>1. imr' = imr
      BY <2>2 DEF Next, Interrupt, RtcHandler, KeyboardHandler, PitHandler, CriticalSection,
                  Compute, Run, pic, PitFires, RtcFires, KeyTyped, Answer, Sends, Raise
    <3> QED
      BY <3>1
  <2> QED
    BY <2>1, <2>2
<1> QED
  BY <1>1, ServiceInvariance, PTL DEF Spec, EnabledStay

-----------------------------------------------------------------------------
(***************************************************************************)
(* The keyboard's state keys, for any printable keys and any keyboard.     *)
(* The invariant says what the handler knows while the bytes of an event   *)
(* wait: the state keys are those of the keys held before it.              *)
(***************************************************************************)
\* No two keys send the same code: a keyboard with one control and one alt key, and the
\* arrows of one block.
OneKeyEach == \A k \in Keyboard, l \in Keyboard : Code(k) = Code(l) => k = l

\* Keys that send a byte of their own, without the arrows.
Plain == Keyboard \subseteq Printable \cup (StateKeys \ {"up", "down"})

Pressed == StateKeys \ {"caps"}
HeldBy(keys) == {Code(k) : k \in keys} \cap Pressed

\* The keys that were held before the event whose bytes wait.
Before == CASE event.kind = "press"   -> down \ {event.key}
            [] event.kind = "release" -> down \cup {event.key}
            [] OTHER                  -> down

LastByte == Byte(Code(event.key), event.kind = "release")

Waiting == /\ sent \in {<<LastByte>>, <<E0, LastByte>>}
           /\ event.key \in Keyboard
           /\ event.kind \in {"press", "release", "repeat"}
           /\ event.kind = "release" <=> event.key \notin down

KeysInv == /\ down \subseteq Keyboard
           /\ sent # << >> => Waiting
           /\ event.kind # "none" => event.key \in Keyboard
           /\ key_state \subseteq StateKeys
           /\ key_state \cap Pressed = HeldBy(IF sent = << >> THEN down ELSE Before)

LEMMA E0Type == E0.code \notin StateKeys /\ ~CheckKeys(E0) /\ E0.code = "e0"
BY DEF E0, Byte, StateKeys, CheckKeys

LEMMA JoinTwo == \A a, b : << >> \o <<b>> = <<b>> /\ <<a>> \o <<b>> = <<a, b>>
<1> SUFFICES ASSUME NEW a, NEW b PROVE << >> \o <<b>> = <<b>> /\ <<a>> \o <<b>> = <<a, b>>
  OBVIOUS
<1> DEFINE S == {a, b}
           joined == <<a>> \o <<b>>
           pair == <<a, b>>
<1>1. <<a>> \in Seq(S) /\ <<b>> \in Seq(S)
  OBVIOUS
<1>2. joined \in Seq(S) /\ Len(joined) = 2 /\ joined[1] = a /\ joined[2] = b
  BY <1>1
<1>3. pair \in Seq(S) /\ Len(pair) = 2 /\ pair[1] = a /\ pair[2] = b
  OBVIOUS
<1> HIDE DEF S, joined, pair
<1>4. joined = pair
  <2>1. \A i \in 1 .. Len(joined) : joined[i] = pair[i]
    BY <1>2, <1>3
  <2>2. QED
    BY <1>2, <1>3, <2>1, SeqEqual
<1>5. QED
  BY <1>4 DEF joined, pair

\* What is sent for a key, and that it is sent only when nothing waits.
LEMMA SendsWaiting ==
    ASSUME NEW kind \in {"press", "release", "repeat"}, NEW k \in Keyboard, SendsBytes(kind, k),
           kind = "release" <=> k \notin down'
    PROVE  Waiting' /\ sent' # << >>
<1>1. event' = [kind |-> kind, key |-> k]
  BY DEF SendsBytes
<1>2. LastByte' = Byte(Code(k), kind = "release")
  BY <1>1 DEF LastByte
<1>3. sent' \in {<<LastByte'>>, <<E0, LastByte'>>}
  <2>1. sent' \in {<< >> \o <<LastByte'>>, <<E0>> \o <<LastByte'>>}
    BY <1>2 DEF SendsBytes
  <2>2. << >> \o <<LastByte'>> = <<LastByte'>> /\ <<E0>> \o <<LastByte'>> = <<E0, LastByte'>>
    BY JoinTwo
  <2>3. QED
    BY <2>1, <2>2
<1>4. QED
  BY <1>1, <1>3 DEF Waiting

LEMMA SendsKeeps ==
    ASSUME KeysInv, NEW kind \in {"press", "release", "repeat"}, NEW k \in Keyboard,
           SendsBytes(kind, k),
           \/ kind = "press" /\ k \notin down /\ down' = down \cup {k}
           \/ kind = "release" /\ k \in down /\ down' = down \ {k}
           \/ kind = "repeat" /\ k \in down /\ down' = down
    PROVE  KeysInv'
<1>1. Waiting' /\ sent' # << >>
  BY SendsWaiting
<1>2. event' = [kind |-> kind, key |-> k] /\ sent = << >> /\ key_state' = key_state
  BY DEF SendsBytes
<1>3. Before' = down
  BY <1>2 DEF Before
<1>4. QED
  BY <1>1, <1>2, <1>3 DEF KeysInv, HeldBy, Waiting

\* The handler has the last byte of an event: it knows the keys that are held.
LEMMA LastByteKeeps ==
    ASSUME OneKeyEach, KeysInv, sent # << >>,
           NEW ks, ks = UpdateStateKeys(key_state, LastByte)
    PROVE  ks \subseteq StateKeys /\ ks \cap Pressed = HeldBy(down)
<1> DEFINE code == Code(event.key)
<1>1. /\ Waiting
      /\ key_state \cap Pressed = HeldBy(Before)
      /\ key_state \subseteq StateKeys /\ down \subseteq Keyboard
  BY DEF KeysInv
<1>2. LastByte.code = code /\ LastByte.released = (event.kind = "release")
  BY DEF LastByte, Byte
<1>3. CASE code \notin StateKeys \/ code = "caps"
  <2>1. ks \subseteq StateKeys /\ ks \cap Pressed = key_state \cap Pressed
    BY <1>1, <1>2, <1>3 DEF UpdateStateKeys, Toggled, Pressed, StateKeys
  <2>2. HeldBy(Before) = HeldBy(down)
    BY <1>1, <1>3 DEF HeldBy, Before, Pressed, Waiting
  <2>3. QED
    BY <1>1, <2>1, <2>2
<1>4. CASE code \in Pressed
  <2>1. code \in StateKeys /\ code # "caps"
    BY <1>4 DEF Pressed
  <2>2. CASE event.kind = "release"
    <3>1. ks = key_state \ {code}
      BY <1>2, <2>1, <2>2 DEF UpdateStateKeys
    <3>2. Before = down \cup {event.key} /\ event.key \notin down
      BY <1>1, <2>2 DEF Before, Waiting
    <3>3. \A k \in down : Code(k) # code
      BY <1>1, <3>2 DEF OneKeyEach, Waiting
    <3>4. HeldBy(down) = HeldBy(Before) \ {code}
      BY <3>2, <3>3 DEF HeldBy
    <3>5. QED
      BY <1>1, <3>1, <3>4
  <2>3. CASE event.kind # "release"
    <3>1. ks = key_state \cup {code}
      BY <1>2, <2>1, <2>3 DEF UpdateStateKeys
    <3>2. event.key \in down /\ Before \in {down, down \ {event.key}}
      BY <1>1, <2>3 DEF Before, Waiting
    <3>3. HeldBy(down) = HeldBy(Before) \cup {code}
      BY <1>4, <3>2 DEF HeldBy
    <3>4. QED
      BY <1>1, <2>1, <3>1, <3>3, <1>4
  <2>4. QED
    BY <2>2, <2>3
<1>5. QED
  BY <1>3, <1>4 DEF Pressed

LEMMA HandlerKeeps ==
    ASSUME OneKeyEach, KeysInv, HandleByte
    PROVE  KeysInv'
<1> DEFINE ks == UpdateStateKeys(key_state, Head(sent))
<1>1. /\ Waiting /\ sent # << >>
      /\ sent' = Tail(sent) /\ key_state' = ks
      /\ UNCHANGED <<down, event>>
  BY DEF KeysInv, HandleByte, Handle
<1>2. Before' = Before /\ LastByte' = LastByte
  BY <1>1 DEF Before, LastByte
<1>3. CASE sent = <<LastByte>>
  <2>1. ks = UpdateStateKeys(key_state, LastByte) /\ sent' = << >>
    BY <1>1, <1>3
  <2> HIDE DEF ks
  <2>2. ks \subseteq StateKeys /\ ks \cap Pressed = HeldBy(down)
    BY <1>1, <2>1, LastByteKeeps
  <2>3. QED
    BY <1>1, <2>1, <2>2 DEF KeysInv, HeldBy
<1>4. CASE sent = <<E0, LastByte>>
  <2>1. ks = key_state /\ sent' = <<LastByte>>
    BY <1>1, <1>4, E0Type DEF UpdateStateKeys
  <2>2. Waiting'
    BY <1>1, <1>2, <2>1 DEF Waiting
  <2>3. QED
    BY <1>1, <1>2, <2>1, <2>2 DEF KeysInv, HeldBy
<1>5. QED
  BY <1>1, <1>3, <1>4 DEF Waiting

LEMMA KeysStep ==
    ASSUME OneKeyEach
    PROVE  KeysInv /\ [KeysNext]_keysVars => KeysInv'
<1> SUFFICES ASSUME KeysInv, [KeysNext]_keysVars PROVE KeysInv'
  OBVIOUS
<1>1. ASSUME NEW k \in Keyboard, Press(k) PROVE KeysInv'
  BY <1>1, SendsKeeps DEF Press
<1>2. ASSUME NEW k \in Keyboard, Release(k) PROVE KeysInv'
  BY <1>2, SendsKeeps DEF Release
<1>3. ASSUME NEW k \in Repeating, Repeat(k) PROVE KeysInv'
  BY <1>3, KeysAssumption, SendsKeeps DEF Repeat
<1>4. CASE HandleByte
  BY <1>4, HandlerKeeps
<1>5. CASE UNCHANGED keysVars
  BY <1>5 DEF keysVars, KeysInv, Waiting, LastByte, Before, HeldBy
<1>6. QED
  BY <1>1, <1>2, <1>3, <1>4, <1>5 DEF KeysNext

LEMMA KeysStart == KeysInit => KeysInv
BY DEF KeysInit, KeysInv, HeldBy, Pressed

(***************************************************************************)
(* However keys are pressed, released and held until they repeat, also     *)
(* several at once, the handler knows which state keys are held, on every  *)
(* keyboard with one key for each code (kboard.h, update_state_keys).      *)
(***************************************************************************)
THEOREM StatesFollow ==
    ASSUME OneKeyEach
    PROVE  KeysSpec => []StatesFollowKeys
<1>1. KeysInv => StatesFollowKeys
  BY DEF KeysInv, StatesFollowKeys, Handled, HeldBy, Pressed
<1>2. QED
  BY <1>1, KeysStart, KeysStep, PTL DEF KeysSpec

-----------------------------------------------------------------------------
(***************************************************************************)
(* What the handler does with what it knows, on a plain keyboard: there    *)
(* every event is one byte.                                                *)
(***************************************************************************)
PlainInv == /\ sent # << >> => sent = <<LastByte>> /\ effects = << >>
            /\ TypesAsHeld
            /\ ShowsAsAsked

LEMMA PlainKeyboard ==
    ASSUME Plain
    PROVE  /\ OneKeyEach
           /\ \A k \in Keyboard : Code(k) = k /\ k \notin DOMAIN Twin
           /\ Keyboard \cap {"up", "down"} = {}
<1>1. DOMAIN Twin = {"rctrl", "ralt", "arrow_up", "arrow_down"}
  BY DEF Twin
<1>2. \A k \in Keyboard : k \notin DOMAIN Twin
  BY <1>1, KeysAssumption DEF Plain, StateKeys
<1>3. \A k \in Keyboard : Code(k) = k
  BY <1>2 DEF Code
<1>4. Keyboard \cap {"up", "down"} = {}
  BY KeysAssumption DEF Plain, StateKeys
<1>5. QED
  BY <1>2, <1>3, <1>4 DEF OneKeyEach

LEMMA SendsPlain ==
    ASSUME Plain, NEW kind, NEW k \in Keyboard, SendsBytes(kind, k)
    PROVE  PlainInv'
<1>1. sent' = << >> \o <<Byte(Code(k), kind = "release")>> /\ effects' = << >>
  BY PlainKeyboard DEF SendsBytes
<1>2. event' = [kind |-> kind, key |-> k]
  BY DEF SendsBytes
<1>3. LastByte' = Byte(Code(k), kind = "release")
  BY <1>2 DEF LastByte
<1>4. sent' = <<LastByte'>> /\ sent' # << >>
  BY <1>1, <1>3, JoinTwo
<1>5. QED
  BY <1>1, <1>4 DEF PlainInv, TypesAsHeld, ShowsAsAsked, Handled

\* The F key that counts is the first that is held.
LEMMA FirstFKey ==
    ASSUME NEW keys, NEW i \in DOMAIN FKeys, FKeys[i] \in keys,
           \A j \in 1 .. i - 1 : FKeys[j] \notin keys
    PROVE  FKey(keys) = i
<1>1. DOMAIN FKeys = 1 .. 3
  BY DEF FKeys
<1>2. \A j \in DOMAIN FKeys : FKeys[j] \in keys => i <= j
  BY <1>1
<1>3. \A n \in DOMAIN FKeys :
         FKeys[n] \in keys /\ (\A j \in DOMAIN FKeys : FKeys[j] \in keys => n <= j) => n = i
  BY <1>1, <1>2
<1>4. QED
  BY <1>2, <1>3 DEF FKey

LEMMA HandlerPlain ==
    ASSUME Plain, KeysInv, PlainInv, HandleByte
    PROVE  PlainInv'
<1> DEFINE ks == UpdateStateKeys(key_state, LastByte)
<1>0. /\ Waiting /\ sent = <<LastByte>> /\ effects = << >> /\ down \subseteq Keyboard
      /\ Head(sent) = LastByte /\ Tail(sent) = << >>
  BY DEF KeysInv, PlainInv, HandleByte
<1>1. /\ Waiting /\ sent = <<LastByte>> /\ effects = << >>
      /\ sent' = << >>
      /\ Handle(ks, LastByte)
      /\ UNCHANGED <<down, event>>
      /\ down \subseteq Keyboard
  <2>1. sent' = << >> /\ UNCHANGED <<down, event>>
    BY <1>0 DEF HandleByte
  <2>2. Handle(UpdateStateKeys(key_state, Head(sent)), Head(sent))
    BY DEF HandleByte
  <2>3. Handle(ks, LastByte)
    BY <1>0, <2>2, SMT DEF Handle
  <2>4. QED
    BY <1>0, <2>1, <2>3
<1>2. OneKeyEach /\ event.key \in Keyboard /\ Code(event.key) = event.key
  BY <1>1, PlainKeyboard DEF Waiting
<1>3. ks \cap Pressed = HeldBy(down)
  BY <1>1, <1>2, LastByteKeeps
<1>4. HeldBy(down) = down \cap Pressed
  BY <1>1, PlainKeyboard DEF HeldBy
<1> HIDE DEF ks
<1>5. /\ "up" \notin ks /\ "down" \notin ks
      /\ "ctrl" \in ks <=> "ctrl" \in down
      /\ "alt" \in ks <=> "alt" \in down
      /\ ks \cap {"lshift", "rshift"} = down \cap {"lshift", "rshift"}
      /\ \A i \in DOMAIN FKeys : FKeys[i] \in ks <=> FKeys[i] \in down
  <2>1. \A k \in Pressed : k \in ks <=> k \in down
    BY <1>3, <1>4
  <2>2. {"up", "down", "ctrl", "alt", "lshift", "rshift", "f1", "f2", "f3"} \subseteq Pressed
    BY DEF Pressed, StateKeys
  <2>3. \A i \in DOMAIN FKeys : FKeys[i] \in {"f1", "f2", "f3"}
    BY DEF FKeys
  <2>4. "up" \notin down /\ "down" \notin down
    BY <1>1, PlainKeyboard
  <2>5. QED
    BY <2>1, <2>2, <2>3, <2>4
<1>6. LastByte.code = event.key /\ LastByte.released = (event.kind = "release")
  BY <1>2 DEF LastByte, Byte
<1>7. key_state' = ks
  BY <1>1 DEF Handle
<1>8. TypesAsHeld'
  <2> SUFFICES ASSUME event.key \in Printable, event.kind # "release",
                      ~("ctrl" \in down /\ event.key = CtrlL)
               PROVE  effects' = <<[key |-> event.key,
                                    shifted |-> IF event.key \in KeyLetters
                                      THEN (down \cap {"lshift", "rshift"} # {}) # ("caps" \in ks)
                                      ELSE down \cap {"lshift", "rshift"} # {}]>>
    BY <1>1, <1>7 DEF TypesAsHeld
  <2>1. Early(ks, LastByte) = << >>
    BY <1>5, <1>6 DEF Early
  <2>2. CheckKeys(LastByte)
    BY <1>6 DEF CheckKeys
  <2>3. effects' = <<CheckStates(ks, event.key)>>
    BY <1>1, <1>6, <2>1, <2>2 DEF Handle
  <2>4. QED
    BY <1>5, <2>3 DEF CheckStates, Shift
<1>9. ShowsAsAsked'
  <2> SUFFICES ASSUME NEW i \in DOMAIN FKeys, event = [kind |-> "press", key |-> FKeys[i]],
                      "alt" \in down, \A j \in 1 .. i - 1 : FKeys[j] \notin down
               PROVE  terminal_shown' = i - 1
    BY <1>1 DEF ShowsAsAsked
  <2>1. event.key = FKeys[i] /\ event.kind = "press"
    OBVIOUS
  <2>2. FKeys[i] \in {"f1", "f2", "f3"} /\ \A j \in 1 .. i - 1 : j \in DOMAIN FKeys
    BY DEF FKeys
  <2>3. FKeys[i] \in down
    BY <1>1, <2>1 DEF Waiting
  <2>4. FKeys[i] \in ks /\ \A j \in 1 .. i - 1 : FKeys[j] \notin ks
    BY <1>5, <2>2, <2>3
  <2>5. FKey(ks) = i
    BY <2>4, FirstFKey
  <2>6. Early(ks, LastByte) = << >>
    BY <1>5, <1>6, <2>1, <2>2 DEF Early, CtrlL
  <2>7. QED
    BY <1>1, <1>5, <2>4, <2>5, <2>6 DEF Handle
<1>10. QED
  BY <1>1, <1>8, <1>9 DEF PlainInv

LEMMA PlainInvariant ==
    ASSUME Plain
    PROVE  KeysSpec => [](KeysInv /\ PlainInv)
<1>1. KeysInit => PlainInv
  BY DEF KeysInit, PlainInv, TypesAsHeld, ShowsAsAsked, Handled
<1>2. KeysInv /\ PlainInv /\ [KeysNext]_keysVars => PlainInv'
  <2> SUFFICES ASSUME KeysInv, PlainInv, [KeysNext]_keysVars PROVE PlainInv'
    OBVIOUS
  <2>1. CASE \E k \in Keyboard : Press(k) \/ Release(k)
    BY <2>1, SendsPlain DEF Press, Release
  <2>2. CASE \E k \in Repeating : Repeat(k)
    BY <2>2, KeysAssumption, SendsPlain DEF Repeat
  <2>3. CASE HandleByte
    BY <2>3, HandlerPlain
  <2>4. CASE UNCHANGED keysVars
    BY <2>4 DEF keysVars, PlainInv, LastByte, TypesAsHeld, ShowsAsAsked, Handled
  <2>5. QED
    BY <2>1, <2>2, <2>3, <2>4 DEF KeysNext
<1>3. OneKeyEach
  BY PlainKeyboard
<1>4. QED
  BY <1>1, <1>2, <1>3, KeysStart, KeysStep, PTL DEF KeysSpec

(***************************************************************************)
(* A printable key types one character, in the case that the shift keys    *)
(* held and caps lock give it, and nothing else (check_states, kboard.c).  *)
(***************************************************************************)
THEOREM TypedAsHeld ==
    ASSUME Plain
    PROVE  KeysSpec => []TypesAsHeld
<1>1. PlainInv => TypesAsHeld
  BY DEF PlainInv
<1>2. QED
  BY <1>1, PlainInvariant, PTL

\* An F key pressed while alt is held shows its terminal, unless one before it is held
\* too (keyboard_handler, kboard.c).
THEOREM ShownAsAsked ==
    ASSUME Plain
    PROVE  KeysSpec => []ShowsAsAsked
<1>1. PlainInv => ShowsAsAsked
  BY DEF PlainInv
<1>2. QED
  BY <1>1, PlainInvariant, PTL

-----------------------------------------------------------------------------
(***************************************************************************)
(* Commands: where a line's words are, and what execute and getargs read.  *)
(***************************************************************************)
\* A line of words with single spaces between them; Single is the first half of Tidy.
Single(line) == /\ line \in Seq(Letters \cup {SPACE})
                /\ \A i \in DOMAIN line : ~NextToSpace(line, i)

\* The first place from s on at which a word ends: a space, or the place after the line.
Ends(line, s) == {i \in s .. Len(line) : line[i] = SPACE} \cup {Len(line) + 1}
End(line, s) == Least(Ends(line, s))
\* Where the first word starts, where it ends, and where the second does.
First(line) == IF line[1] = SPACE THEN 2 ELSE 1
AfterFirst(line) == End(line, First(line))
AfterSecond(line) == End(line, AfterFirst(line) + 1)

-----------------------------------------------------------------------------
LEMMA LeastOf ==
    ASSUME NEW T \in SUBSET Nat, T # {}
    PROVE  /\ Least(T) \in T
           /\ \A m \in T : Least(T) <= m
<1> DEFINE R == OpToRel(<, Nat)
<1>1. IsWellFoundedOn(R, Nat)
  BY NatLessThanWellFounded
<1>2. \A x \in Nat, y \in Nat : <<y, x>> \in R <=> y < x
  BY DEF OpToRel
<1> HIDE DEF R
<1>3. PICK x \in T : \A y \in T : ~ (<<y, x>> \in R)
  BY <1>1, WFMin
<1>4. \A y \in T : ~ (y < x)
  <2> SUFFICES ASSUME NEW y \in T, y < x PROVE FALSE
    OBVIOUS
  <2>1. x \in Nat /\ y \in Nat
    OBVIOUS
  <2>2. <<y, x>> \in R
    BY <1>2, <2>1
  <2> QED
    BY <1>3, <2>2
<1>5. \E i \in T : \A j \in T : i <= j
  BY <1>4
<1> QED
  BY <1>5 DEF Least

\* The least of a set is the member that is below all others.
LEMMA LeastIs ==
    ASSUME NEW T \in SUBSET Nat, NEW n \in T, \A m \in T : n <= m
    PROVE  Least(T) = n
<1>1. PICK l : l = Least(T)
  OBVIOUS
<1>2. l \in T /\ l <= n /\ n <= l
  BY <1>1, LeastOf
<1>3. l \in Nat /\ n \in Nat
  BY <1>2
<1>4. l = n
  BY <1>2, <1>3
<1> QED
  BY <1>1, <1>4

LEMMA EndIs ==
    ASSUME NEW line \in Seq(Letters \cup {SPACE}), NEW s \in Nat \ {0}, s <= Len(line) + 1
    PROVE  /\ End(line, s) \in s .. Len(line) + 1
           /\ End(line, s) # Len(line) + 1 => line[End(line, s)] = SPACE
           /\ \A i \in s .. End(line, s) - 1 : line[i] # SPACE
<1>0. Len(line) \in Nat
  OBVIOUS
<1>1. Ends(line, s) \in SUBSET Nat /\ Ends(line, s) # {}
  BY <1>0 DEF Ends
<1>2. PICK e : e = End(line, s)
  OBVIOUS
<1>3. e \in Ends(line, s) /\ \A m \in Ends(line, s) : e <= m
  BY <1>1, <1>2, LeastOf DEF End
<1>4. e \in s .. Len(line) + 1 /\ (e # Len(line) + 1 => line[e] = SPACE)
  BY <1>0, <1>3 DEF Ends
<1>5. ASSUME NEW i \in s .. e - 1
      PROVE  line[i] # SPACE
  <2>1. i \in s .. Len(line) /\ ~ (e <= i)
    BY <1>0, <1>4
  <2>2. i \notin Ends(line, s)
    BY <1>3, <2>1
  <2> QED
    BY <2>1, <2>2 DEF Ends
<1> QED
  BY <1>2, <1>4, <1>5

-----------------------------------------------------------------------------
\* The places of the words of a line that has any.
LEMMA Places ==
    ASSUME NEW line, Single(line), line # << >>
    PROVE  /\ Len(line) \in Nat \ {0}
           /\ First(line) \in 1 .. Len(line)
           /\ line[First(line)] # SPACE
           /\ \A i \in 1 .. First(line) - 1 : line[i] = SPACE
           /\ AfterFirst(line) \in First(line) + 1 .. Len(line) + 1
           /\ AfterFirst(line) # Len(line) + 1 => /\ line[AfterFirst(line)] = SPACE
                                                  /\ AfterFirst(line) < Len(line)
                                                  /\ line[AfterFirst(line) + 1] # SPACE
           /\ \A i \in First(line) .. AfterFirst(line) - 1 : line[i] # SPACE
<1> DEFINE n == Len(line)
<1>1. line \in Seq(Letters \cup {SPACE}) /\ n \in Nat \ {0} /\ DOMAIN line = 1 .. n
  BY DEF Single
<1>2. \A i \in 1 .. n : line[i] = SPACE => i < n /\ line[i + 1] # SPACE
  BY <1>1 DEF Single, NextToSpace
<1>3. PICK a : a = First(line)
  OBVIOUS
<1>4. a \in 1 .. n /\ line[a] # SPACE /\ \A i \in 1 .. a - 1 : line[i] = SPACE
  <2>1. CASE line[1] = SPACE
    BY <1>1, <1>2, <1>3, <2>1 DEF First
  <2>2. CASE line[1] # SPACE
    BY <1>1, <1>3, <2>2 DEF First
  <2> QED
    BY <2>1, <2>2
<1>5. PICK b : b = End(line, a)
  OBVIOUS
<1>6. /\ b \in a .. n + 1
      /\ b # n + 1 => line[b] = SPACE
      /\ \A i \in a .. b - 1 : line[i] # SPACE
  <2>1. a \in Nat \ {0} /\ a <= n + 1
    BY <1>1, <1>4
  <2> QED
    BY <1>1, <1>5, <2>1, EndIs
<1>7. b \in a + 1 .. n + 1
  BY <1>1, <1>4, <1>6
<1>8. b # n + 1 => b < n /\ line[b + 1] # SPACE
  BY <1>1, <1>2, <1>4, <1>6
<1>9. b = AfterFirst(line)
  BY <1>3, <1>5 DEF AfterFirst
<1> QED
  BY <1>1, <1>3, <1>4, <1>6, <1>7, <1>8, <1>9

LEMMA SecondPlace ==
    ASSUME NEW line, Single(line), line # << >>, AfterFirst(line) # Len(line) + 1
    PROVE  /\ AfterSecond(line) \in AfterFirst(line) + 2 .. Len(line) + 1
           /\ AfterSecond(line) # Len(line) + 1 => line[AfterSecond(line)] = SPACE
           /\ \A i \in AfterFirst(line) + 1 .. AfterSecond(line) - 1 : line[i] # SPACE
<1>1. line \in Seq(Letters \cup {SPACE})
  BY DEF Single
<1>2. PICK b : b = AfterFirst(line)
  OBVIOUS
<1>3. b \in 2 .. Len(line) - 1 /\ line[b + 1] # SPACE /\ Len(line) \in Nat
  BY <1>2, Places
<1>4. PICK s \in Nat \ {0} : s = b + 1
  BY <1>3
<1>5. PICK c : c = End(line, s)
  OBVIOUS
<1>6. /\ c \in s .. Len(line) + 1
      /\ c # Len(line) + 1 => line[c] = SPACE
      /\ \A i \in s .. c - 1 : line[i] # SPACE
  BY <1>1, <1>3, <1>4, <1>5, EndIs
<1>7. c # s
  BY <1>3, <1>4, <1>6
<1>8. c = AfterSecond(line)
  BY <1>2, <1>4, <1>5 DEF AfterSecond
<1> QED
  BY <1>2, <1>3, <1>4, <1>6, <1>7, <1>8

\* A word that starts at a place without a space before it ends before the next space,
\* and no word starts between the two.
LEMMA WordFrom ==
    ASSUME NEW line \in Seq(Letters \cup {SPACE}),
           NEW s \in 1 .. Len(line), NEW e \in s + 1 .. Len(line) + 1,
           s = 1 \/ line[s - 1] = SPACE,
           e # Len(line) + 1 => line[e] = SPACE,
           \A i \in s .. e - 1 : line[i] # SPACE
    PROVE  /\ <<s, e - 1>> \in Words(line)
           /\ \A v \in Words(line) : v[1] = s => v = <<s, e - 1>>
           /\ \A v \in Words(line) : ~ (v[1] > s /\ v[1] <= e)
<1> DEFINE n == Len(line)
<1>1. n \in Nat /\ DOMAIN line = 1 .. n
  OBVIOUS
<1>2. s \in Nat /\ e \in Nat /\ s < e /\ e <= n + 1 /\ 1 <= s
  BY <1>1
<1>3. e # n + 1 => line[e] = SPACE
  OBVIOUS
<1> HIDE DEF n
<1>4. <<s, e - 1>> \in Words(line)
  <2>1. PICK d : d = e - 1
    OBVIOUS
  <2>2. d \in 1 .. n /\ s <= d /\ d + 1 = e
    BY <1>1, <1>2, <1>3, <2>1
  <2>3. d = n \/ line[d + 1] = SPACE
    BY <1>1, <1>2, <1>3, <2>2
  <2>4. \A i \in s .. d : line[i] # SPACE
    BY <1>1, <1>2, <1>3, <2>1
  <2> QED
    BY <1>1, <1>2, <1>3, <2>1, <2>2, <2>3, <2>4 DEF Words, n
<1>5. ASSUME NEW v \in Words(line)
      PROVE  /\ v = <<v[1], v[2]>>
             /\ v[1] \in 1 .. n /\ v[2] \in 1 .. n /\ v[1] <= v[2]
             /\ \A i \in v[1] .. v[2] : line[i] # SPACE
             /\ v[1] = 1 \/ line[v[1] - 1] = SPACE
             /\ v[2] = n \/ line[v[2] + 1] = SPACE
  BY <1>1, <1>2, <1>3 DEF Words, n
<1>6. ASSUME NEW v \in Words(line), v[1] = s
      PROVE  v = <<s, e - 1>>
  <2>1. PICK x, y : v = <<x, y>> /\ x = v[1] /\ y = v[2]
    BY <1>5
  <2>2. /\ x = s /\ y \in s .. n
        /\ \A i \in s .. y : line[i] # SPACE
        /\ y = n \/ line[y + 1] = SPACE
    BY <1>1, <1>2, <1>3, <1>5, <1>6, <2>1
  <2>3. ASSUME y >= e
        PROVE  FALSE
    <3>1. e \in s .. y /\ e # n + 1
      BY <1>1, <1>2, <2>2, <2>3
    <3> QED
      BY <1>3, <2>2, <3>1
  <2>4. ASSUME y < e - 1
        PROVE  FALSE
    <3>1. y # n /\ y + 1 \in s .. e - 1
      BY <1>1, <1>2, <1>3, <2>2, <2>4
    <3> QED
      BY <2>2, <3>1
  <2>5. y = e - 1
    BY <1>1, <1>2, <1>3, <2>2, <2>3, <2>4
  <2> QED
    BY <2>1, <2>2, <2>5
<1>7. ASSUME NEW v \in Words(line), v[1] > s, v[1] <= e
      PROVE  FALSE
  <2>1. PICK x : x = v[1] - 1
    OBVIOUS
  <2>2. x \in s .. e - 1 /\ line[x] = SPACE
    BY <1>1, <1>2, <1>3, <1>5, <1>7, <2>1
  <2> QED
    BY <1>1, <1>2, <1>3, <2>2
<1> QED
  BY <1>4, <1>6, <1>7

-----------------------------------------------------------------------------
(***************************************************************************)
(* The words of a line: the first, the second, and those after them.       *)
(***************************************************************************)
Word1(line) == <<First(line), AfterFirst(line) - 1>>
Word2(line) == <<AfterFirst(line) + 1, AfterSecond(line) - 1>>

LEMMA WordsFinite ==
    ASSUME NEW line \in Seq(Letters \cup {SPACE}), NEW T \in SUBSET Words(line)
    PROVE  IsFiniteSet(T)
<1>1. PICK n \in Nat : n = Len(line) /\ DOMAIN line = 1 .. n
  OBVIOUS
<1>2. IsFiniteSet(1 .. n)
  BY FS_Interval
<1>3. IsFiniteSet((1 .. n) \X (1 .. n))
  BY <1>2, FS_Product
<1>4. T \in SUBSET ((1 .. n) \X (1 .. n))
  BY <1>1 DEF Words
<1> QED
  BY <1>3, <1>4, FS_Subset

\* Nothing comes before the first word, and the others start after it.
LEMMA FirstWord ==
    ASSUME NEW line, Single(line), line # << >>
    PROVE  /\ Word1(line) \in Words(line)
           /\ Word1(line)[1] = First(line) /\ Word1(line)[2] = AfterFirst(line) - 1
           /\ \A v \in Words(line) : v[1] \in Nat /\ v[1] <= Len(line)
           /\ \A v \in Words(line) : v = Word1(line) \/ v[1] > AfterFirst(line)
<1>1. line \in Seq(Letters \cup {SPACE})
  BY DEF Single
<1>2. PICK n \in Nat : n = Len(line) /\ DOMAIN line = 1 .. n
  BY <1>1
<1>3. PICK a \in 1 .. n : a = First(line)
  BY <1>2, Places
<1>4. PICK b \in a + 1 .. n + 1 : b = AfterFirst(line)
  BY <1>2, <1>3, Places
<1>5. /\ \A i \in 1 .. a - 1 : line[i] = SPACE
      /\ b # n + 1 => line[b] = SPACE
      /\ \A i \in a .. b - 1 : line[i] # SPACE
  BY <1>2, <1>3, <1>4, Places
<1>6. a = 1 \/ line[a - 1] = SPACE
  BY <1>3, <1>5
<1>7. /\ <<a, b - 1>> \in Words(line)
      /\ \A v \in Words(line) : v[1] = a => v = <<a, b - 1>>
      /\ \A v \in Words(line) : ~ (v[1] > a /\ v[1] <= b)
  BY <1>1, <1>2, <1>5, <1>6, WordFrom
<1>8. \A v \in Words(line) : v[1] \in 1 .. n /\ v[2] \in 1 .. n /\ v[1] <= v[2] /\ line[v[1]] # SPACE
  BY <1>2 DEF Words
<1>9. \A v \in Words(line) : v = <<a, b - 1>> \/ v[1] > b
  <2> SUFFICES ASSUME NEW v \in Words(line), v[1] <= b PROVE v[1] = a
    BY <1>7, <1>8
  <2>1. PICK x \in 1 .. n : x = v[1] /\ line[x] # SPACE
    BY <1>8
  <2>2. ~ (x > a)
    BY <1>7, <2>1
  <2>3. ~ (x < a)
    BY <1>5, <2>1
  <2> QED
    BY <2>1, <2>2, <2>3
<1> QED
  BY <1>2, <1>3, <1>4, <1>7, <1>8, <1>9 DEF Word1

\* A line without a space after the first word has no second.
LEMMA OneWord ==
    ASSUME NEW line, Single(line), line # << >>, AfterFirst(line) = Len(line) + 1
    PROVE  Words(line) = {Word1(line)}
<1>1. Len(line) \in Nat
  BY Places
<1>2. \A v \in Words(line) : v[1] \in Nat /\ v[1] <= Len(line)
  BY FirstWord
<1>3. \A v \in Words(line) : ~ (v[1] > AfterFirst(line))
  BY <1>1, <1>2
<1> QED
  BY <1>3, FirstWord

LEMMA SecondWord ==
    ASSUME NEW line, Single(line), line # << >>, AfterFirst(line) # Len(line) + 1
    PROVE  /\ Word2(line) \in Words(line)
           /\ Word2(line)[1] = AfterFirst(line) + 1 /\ Word2(line)[2] = AfterSecond(line) - 1
           /\ \A v \in Words(line) : \/ v = Word1(line) \/ v = Word2(line)
                                     \/ v[1] > AfterFirst(line) + 1
<1>1. line \in Seq(Letters \cup {SPACE})
  BY DEF Single
<1>2. PICK n \in Nat : n = Len(line)
  BY <1>1
<1>3. PICK b \in 1 .. n - 1 : b = AfterFirst(line) /\ line[b] = SPACE
  BY <1>2, Places
<1>4. PICK s \in 1 .. n : s = b + 1 /\ s - 1 = b
  BY <1>3
<1>5. PICK c \in s + 1 .. n + 1 : c = AfterSecond(line)
  BY <1>2, <1>3, <1>4, SecondPlace
<1>6. /\ c # n + 1 => line[c] = SPACE
      /\ \A i \in s .. c - 1 : line[i] # SPACE
  BY <1>2, <1>3, <1>4, <1>5, SecondPlace
<1>7. /\ <<s, c - 1>> \in Words(line)
      /\ \A v \in Words(line) : v[1] = s => v = <<s, c - 1>>
  <2>1. s \in 1 .. Len(line) /\ c \in s + 1 .. Len(line) + 1
    BY <1>2
  <2>2. s = 1 \/ line[s - 1] = SPACE
    BY <1>3, <1>4
  <2>3. c # Len(line) + 1 => line[c] = SPACE
    BY <1>2, <1>6
  <2> QED
    BY <1>1, <1>6, <2>1, <2>2, <2>3, WordFrom
<1>8. \A v \in Words(line) : v = Word1(line) \/ (v[1] \in Nat /\ v[1] > b)
  BY <1>3, FirstWord
<1>9. \A v \in Words(line) : v = Word1(line) \/ v = <<s, c - 1>> \/ v[1] > b + 1
  BY <1>4, <1>7, <1>8
<1>10. Word2(line) = <<s, c - 1>>
  <2>1. AfterFirst(line) + 1 = s
    BY <1>3, <1>4
  <2>2. AfterSecond(line) - 1 = c - 1
    BY <1>5
  <2> QED
    BY <2>1, <2>2 DEF Word2
<1>11. Word2(line)[1] = AfterFirst(line) + 1 /\ Word2(line)[2] = AfterSecond(line) - 1
  BY DEF Word2
<1>12. Word2(line) \in Words(line)
  BY <1>7, <1>10
<1>13. \A v \in Words(line) : v = Word1(line) \/ v = Word2(line) \/ v[1] > AfterFirst(line) + 1
  BY <1>3, <1>9, <1>10
<1> QED
  BY <1>11, <1>12, <1>13

-----------------------------------------------------------------------------
\* How many words start no later than a word.
NotAfter(line, w) == {v \in Words(line) : v[1] <= w[1]}

LEMMA WordIs ==
    ASSUME NEW line, NEW k, NEW u \in Words(line),
           \A w \in Words(line) : Cardinality(NotAfter(line, w)) = k <=> w = u
    PROVE  Word(line, k) = SubSeq(line, u[1], u[2])
<1>1. (CHOOSE w \in Words(line) : Cardinality(NotAfter(line, w)) = k) = u
  OBVIOUS
<1> QED
  BY <1>1 DEF Word, NotAfter

LEMMA Word1Is ==
    ASSUME NEW line, Single(line), line # << >>
    PROVE  Word(line, 1) = SubSeq(line, First(line), AfterFirst(line) - 1)
<1>1. line \in Seq(Letters \cup {SPACE})
  BY DEF Single
<1>2. PICK a \in Nat : a = First(line)
  BY Places
<1>3. PICK b \in Nat : b = AfterFirst(line) /\ a < b
  BY <1>2, Places
<1>4. PICK u : u = Word1(line)
  OBVIOUS
<1>5. /\ u \in Words(line) /\ u[1] = a /\ u[2] = b - 1
      /\ \A v \in Words(line) : v[1] \in Nat /\ (v = u \/ v[1] > b)
  BY <1>2, <1>3, <1>4, FirstWord
<1>6. NotAfter(line, u) = {u}
  BY <1>3, <1>5 DEF NotAfter
<1>7. ASSUME NEW w \in Words(line), Cardinality(NotAfter(line, w)) = 1
      PROVE  w = u
  <2>1. u \in NotAfter(line, w) /\ w \in NotAfter(line, w)
    BY <1>3, <1>5 DEF NotAfter
  <2>2. IsFiniteSet(NotAfter(line, w))
    BY <1>1, WordsFinite DEF NotAfter
  <2>3. PICK x : NotAfter(line, w) = {x}
    BY <1>7, <2>2, FS_Singleton
  <2> QED
    BY <2>1, <2>3
<1>8. Cardinality(NotAfter(line, u)) = 1
  BY <1>6, FS_Singleton
<1>9. \A w \in Words(line) : Cardinality(NotAfter(line, w)) = 1 <=> w = u
  BY <1>7, <1>8
<1>10. Word(line, 1) = SubSeq(line, u[1], u[2])
  BY <1>5, <1>9, WordIs
<1> QED
  BY <1>2, <1>3, <1>5, <1>10

LEMMA TwoThree ==
    ASSUME NEW x, NEW y, NEW z, x # y, x # z, y # z
    PROVE  /\ IsFiniteSet({x, y}) /\ Cardinality({x, y}) = 2
           /\ IsFiniteSet({x, y, z}) /\ Cardinality({x, y, z}) = 3
<1>1. IsFiniteSet({x}) /\ Cardinality({x}) = 1
  BY FS_Singleton
<1>2. {x, y} = {x} \cup {y} /\ {x, y, z} = {x, y} \cup {z} /\ y \notin {x} /\ z \notin {x, y}
  OBVIOUS
<1>3. IsFiniteSet({x, y}) /\ Cardinality({x, y}) = 1 + 1
  BY <1>1, <1>2, FS_AddElement
<1>4. IsFiniteSet({x, y, z}) /\ Cardinality({x, y, z}) = 2 + 1
  BY <1>2, <1>3, FS_AddElement
<1> QED
  BY <1>3, <1>4

LEMMA Word2Is ==
    ASSUME NEW line, Single(line), line # << >>, AfterFirst(line) # Len(line) + 1
    PROVE  /\ Word(line, 2) = SubSeq(line, AfterFirst(line) + 1, AfterSecond(line) - 1)
           /\ ~ (Cardinality(Words(line)) < 2)
<1>1. line \in Seq(Letters \cup {SPACE})
  BY DEF Single
<1>2. PICK a \in Nat : a = First(line)
  BY Places
<1>3. PICK b \in Nat : b = AfterFirst(line) /\ a < b
  BY <1>2, Places
<1>4. PICK u : u = Word1(line)
  OBVIOUS
<1>5. PICK t : t = Word2(line)
  OBVIOUS
<1>6. /\ u \in Words(line) /\ u[1] = a
      /\ \A v \in Words(line) : v[1] \in Nat /\ (v = u \/ v[1] > b)
  BY <1>2, <1>3, <1>4, FirstWord
<1>7. /\ t \in Words(line) /\ t[1] = b + 1 /\ t[2] = AfterSecond(line) - 1
      /\ \A v \in Words(line) : v = u \/ v = t \/ v[1] > b + 1
  BY <1>3, <1>4, <1>5, SecondWord
<1>8. u # t
  BY <1>3, <1>6, <1>7
<1>9. IsFiniteSet({u, t}) /\ Cardinality({u, t}) = 2
  <2>1. Cardinality({u}) = 1 /\ IsFiniteSet({u}) /\ {u, t} = {u} \cup {t} /\ t \notin {u}
    BY <1>8, FS_Singleton
  <2>2. IsFiniteSet({u, t}) /\ Cardinality({u, t}) = 1 + 1
    BY <2>1, FS_AddElement
  <2> QED
    BY <2>2
<1>10. NotAfter(line, t) = {u, t}
  BY <1>3, <1>6, <1>7 DEF NotAfter
<1>11. Cardinality(NotAfter(line, u)) = 1
  <2>1. NotAfter(line, u) = {u}
    BY <1>3, <1>6, <1>7 DEF NotAfter
  <2> QED
    BY <2>1, FS_Singleton
<1>12. ASSUME NEW w \in Words(line), Cardinality(NotAfter(line, w)) = 2
       PROVE  w = t
  <2> SUFFICES ASSUME w # t PROVE FALSE
    OBVIOUS
  <2>1. w # u
    BY <1>11, <1>12
  <2>2. w[1] \in Nat /\ w[1] > b + 1
    BY <1>6, <1>7, <2>1
  <2>3. PICK T : T = NotAfter(line, w)
    OBVIOUS
  <2>4. u \in T /\ t \in T /\ w \in T
    BY <1>3, <1>6, <1>7, <2>2, <2>3 DEF NotAfter
  <2>5. IsFiniteSet(T)
    BY <1>1, <2>3, WordsFinite DEF NotAfter
  <2>6. PICK R : R = {u, t, w}
    OBVIOUS
  <2>7. IsFiniteSet(R) /\ Cardinality(R) = 3
    BY <1>8, <2>1, <2>6, TwoThree
  <2>8. R \in SUBSET T
    BY <2>4, <2>6
  <2>9. Cardinality(R) <= Cardinality(T)
    BY <2>5, <2>8, FS_Subset
  <2> QED
    BY <1>12, <2>3, <2>7, <2>9
<1>13. \A w \in Words(line) : Cardinality(NotAfter(line, w)) = 2 <=> w = t
  BY <1>9, <1>10, <1>12
<1>14. Word(line, 2) = SubSeq(line, t[1], t[2])
  BY <1>7, <1>13, WordIs
<1>15. ~ (Cardinality(Words(line)) < 2)
  <2>1. PICK W : W = Words(line)
    OBVIOUS
  <2>2. IsFiniteSet(W) /\ {u, t} \in SUBSET W
    BY <1>1, <1>6, <1>7, <2>1, WordsFinite
  <2>3. 2 <= Cardinality(W) /\ Cardinality(W) \in Nat
    BY <1>9, <2>2, FS_Subset, FS_CardinalityType
  <2> QED
    BY <2>1, <2>3
<1> QED
  BY <1>3, <1>7, <1>14, <1>15

-----------------------------------------------------------------------------
(***************************************************************************)
(* The shell's buffer with a line, and what execute reads in it.           *)
(***************************************************************************)
BufferOf(line) == [i \in 1 .. BUF_SIZE |-> IF i <= Len(line) THEN line[i] ELSE NUL]
NameIn(line) == SubSeq(line, First(line), AfterFirst(line) - 1)
ArgsIn(line) == SubSeq(line, AfterFirst(line) + 1, Len(line))

\* What a shell's buffer may hold: a line, or nothing.
Known(line) == /\ line = << >> \/ (line \in TypedLines /\ Tidy(line))

LEMMA Distinct == /\ SPACE # NUL /\ SPACE # NEWLINE /\ SPACE # TAB /\ NEWLINE # NUL
                  /\ \A c \in Letters : c \notin {SPACE, TAB, NEWLINE, NUL}
BY LetterAssumption DEF SPACE, TAB, NEWLINE, NUL

LEMMA KnownIs ==
    ASSUME NEW line, Known(line)
    PROVE  /\ Single(line) /\ Len(line) \in Nat /\ Len(line) <= BUF_SIZE - 1
           /\ line # << >> => AfterFirst(line) - First(line) <= MAX_FILE_NAME_LENGTH
<1>1. CASE line = << >>
  BY <1>1, SizeAssumption DEF Single
<1>2. CASE line # << >>
  <2>1. line \in Seq(Letters \cup {SPACE}) /\ Len(line) <= BUF_SIZE - 1 /\ Tidy(line)
    BY <1>2, LineAssumption DEF Known
  <2>2. Single(line)
    BY <2>1 DEF Single, Tidy
  <2>3. PICK a \in Nat, b \in Nat : a = First(line) /\ b = AfterFirst(line) /\ a < b
                                    /\ b <= Len(line) + 1 /\ a >= 1
    BY <1>2, <2>2, Places
  <2>4. Len(SubSeq(line, a, b - 1)) = b - a
    BY <2>1, <2>3
  <2>5. Len(SubSeq(line, a, b - 1)) <= MAX_FILE_NAME_LENGTH
    BY <1>2, <2>1, <2>2, <2>3, Word1Is DEF Tidy
  <2> QED
    BY <1>2, <2>1, <2>2, <2>3, <2>4, <2>5, SizeAssumption
<1> QED
  BY <1>1, <1>2

\* A part of the buffer within the line is that part of the line.
LEMMA PartOfBuffer ==
    ASSUME NEW line, Known(line), NEW i \in Nat \ {0}, NEW j \in Int, j <= Len(line), i <= j + 1
    PROVE  SubSeq(BufferOf(line), i, j) = SubSeq(line, i, j)
<1>1. Len(line) \in Nat /\ BUF_SIZE \in Nat /\ Len(line) <= BUF_SIZE
  BY KnownIs, SizeAssumption
<1>2. \A k \in i .. j : BufferOf(line)[k] = line[k]
  BY <1>1 DEF BufferOf
<1>3. BufferOf(line) \in Seq({BufferOf(line)[k] : k \in 1 .. BUF_SIZE}) /\ Len(BufferOf(line)) = BUF_SIZE
  BY <1>1 DEF BufferOf
<1>4. SubSeq(BufferOf(line), i, j) = [k \in 1 .. j - i + 1 |-> BufferOf(line)[i + k - 1]]
  BY <1>1, <1>3
<1> QED
  BY <1>1, <1>2, <1>4

\* The buffer, place by place.
LEMMA BufferIs ==
    ASSUME NEW line, Known(line)
    PROVE  /\ BUF_SIZE \in Nat /\ Len(BufferOf(line)) = BUF_SIZE
           /\ DOMAIN BufferOf(line) = 1 .. BUF_SIZE
           /\ \A i \in 1 .. BUF_SIZE :
                  BufferOf(line)[i] = IF i <= Len(line) THEN line[i] ELSE NUL
           /\ \A i \in 1 .. Len(line) : line[i] \in Letters \cup {SPACE}
<1>1. BUF_SIZE \in Nat
  BY SizeAssumption
<1>2. \A i \in 1 .. Len(line) : line[i] \in Letters \cup {SPACE}
  BY KnownIs DEF Single
<1> QED
  BY <1>1, <1>2 DEF BufferOf

LEMMA StringIs ==
    ASSUME NEW line, Known(line), NEW i \in 1 .. BUF_SIZE
    PROVE  StringAt(BufferOf(line), i) = SubSeq(line, i, Len(line))
<1>1. PICK n \in Nat : n = Len(line) /\ n <= BUF_SIZE - 1
  BY KnownIs
<1>2. PICK buf : buf = BufferOf(line)
  OBVIOUS
<1>3. /\ BUF_SIZE \in Nat /\ i \in Nat /\ 1 <= i /\ i <= BUF_SIZE
      /\ Len(buf) = BUF_SIZE
      /\ \A j \in 1 .. BUF_SIZE : buf[j] = IF j <= n THEN line[j] ELSE NUL
      /\ \A j \in 1 .. n : line[j] # NUL
  BY <1>1, <1>2, BufferIs, Distinct
<1> DEFINE T == {j \in i .. Len(buf) : buf[j] = NUL} \cup {Len(buf) + 1}
<1>4. T \in SUBSET Nat
  BY <1>3
<1>5. CASE i <= n + 1
  <2>1. n + 1 \in T
    BY <1>1, <1>3, <1>5
  <2>2. \A m \in T : n + 1 <= m
    <3> SUFFICES ASSUME NEW m \in T, m <= n PROVE FALSE
      BY <1>1, <1>4
    <3>1. m \in 1 .. n /\ buf[m] = NUL
      BY <1>1, <1>3
    <3> QED
      BY <1>1, <1>3, <3>1
  <2> HIDE DEF T
  <2>3. PICK m \in T : m = n + 1
    BY <2>1
  <2>4. Least(T) = m
    BY <1>4, <2>2, <2>3, LeastIs
  <2>5. StringAt(buf, i) = SubSeq(buf, i, m - 1)
    BY <2>4 DEF StringAt, T
  <2>7. m - 1 = n
    BY <1>1, <2>3
  <2>6. SubSeq(buf, i, n) = SubSeq(line, i, n)
    BY <1>1, <1>2, <1>3, <1>5, PartOfBuffer
  <2> QED
    BY <1>1, <1>2, <2>5, <2>6, <2>7
<1>6. CASE i > n + 1
  <2>1. i \in T /\ \A m \in T : i <= m
    BY <1>1, <1>3, <1>6
  <2> HIDE DEF T
  <2>2. Least(T) = i
    BY <1>4, <2>1, LeastIs
  <2>3. StringAt(buf, i) = SubSeq(buf, i, i - 1)
    BY <2>2 DEF StringAt, T
  <2>4. SubSeq(buf, i, i - 1) = << >> /\ SubSeq(line, i, n) = << >>
    BY <1>1, <1>3, <1>6, SubSeqEmpty
  <2> QED
    BY <1>1, <1>2, <2>3, <2>4
<1> QED
  BY <1>1, <1>3, <1>5, <1>6

\* What execute takes for name and arguments.
LEMMA ExecuteReads ==
    ASSUME NEW line, Known(line), line # << >>
    PROVE  /\ StringAt(BufferOf(line), 1) = line
           /\ CommandName(BufferOf(line)) = NameIn(line)
           /\ CommandArgs(BufferOf(line)) = ArgsIn(line)
<1>1. PICK n \in Nat : n = Len(line) /\ n <= BUF_SIZE - 1
  BY KnownIs
<1>2. PICK buf : buf = BufferOf(line)
  OBVIOUS
<1>3. /\ BUF_SIZE \in Nat
      /\ Len(buf) = BUF_SIZE /\ DOMAIN buf = 1 .. BUF_SIZE
      /\ \A j \in 1 .. BUF_SIZE : buf[j] = IF j <= n THEN line[j] ELSE NUL
      /\ \A j \in 1 .. n : line[j] \in Letters \cup {SPACE}
  BY <1>1, <1>2, BufferIs
<1>4. Single(line) /\ line \in Seq(Letters \cup {SPACE})
  BY KnownIs DEF Single
<1>5. PICK a \in 1 .. n : a = First(line)
  BY <1>1, <1>4, Places
<1>6. PICK b \in a + 1 .. n + 1 : b = AfterFirst(line)
  BY <1>1, <1>4, <1>5, Places
<1>7. /\ line[a] # SPACE
      /\ \A i \in 1 .. a - 1 : line[i] = SPACE
      /\ b # n + 1 => line[b] = SPACE
      /\ \A i \in a .. b - 1 : line[i] # SPACE
  BY <1>1, <1>4, <1>5, <1>6, Places
<1>8. b - a <= MAX_FILE_NAME_LENGTH /\ MAX_FILE_NAME_LENGTH \in 1 .. BUF_SIZE - 3
  BY <1>5, <1>6, KnownIs, SizeAssumption
<1>9. Start(buf) = a
  <2> DEFINE T == {i \in DOMAIN buf : buf[i] \notin {SPACE, TAB}}
  <2>1. T \in SUBSET Nat
    BY <1>3
  <2>2. a \in T
    BY <1>1, <1>3, <1>5, <1>7, Distinct
  <2>3. \A m \in T : a <= m
    <3> SUFFICES ASSUME NEW m \in T, m < a PROVE FALSE
      BY <1>5, <2>1
    <3>1. m \in 1 .. a - 1 /\ m <= n /\ m \in 1 .. BUF_SIZE
      BY <1>1, <1>3, <1>5
    <3>2. buf[m] = SPACE
      BY <1>3, <1>7, <3>1
    <3> QED
      BY <3>2
  <2> HIDE DEF T
  <2>4. Least(T) = a
    BY <2>1, <2>2, <2>3, LeastIs
  <2> QED
    BY <2>4 DEF Start, T
<1>10. Stop(buf) = b
  <2> DEFINE T == {i \in a .. Len(buf) : \/ buf[i] \in {NUL, SPACE, NEWLINE}
                                         \/ i - a = MAX_FILE_NAME_LENGTH}
  <2>1. T \in SUBSET Nat
    BY <1>3, <1>5
  <2>2. b \in T
    BY <1>1, <1>3, <1>5, <1>6, <1>7
  <2>3. \A m \in T : b <= m
    <3> SUFFICES ASSUME NEW m \in T, m < b PROVE FALSE
      BY <1>6, <2>1
    <3>1. m \in a .. b - 1 /\ m \in 1 .. n /\ m \in 1 .. BUF_SIZE
      BY <1>1, <1>3, <1>5, <1>6
    <3>2. buf[m] = line[m] /\ line[m] \in Letters
      BY <1>1, <1>3, <1>7, <3>1
    <3>3. buf[m] \notin {NUL, SPACE, NEWLINE}
      BY <3>2, Distinct
    <3>4. m - a # MAX_FILE_NAME_LENGTH
      BY <1>5, <1>6, <1>8, <3>1
    <3> QED
      BY <3>3, <3>4
  <2> HIDE DEF T
  <2>4. Least(T) = b
    BY <1>6, <2>1, <2>2, <2>3, LeastIs
  <2> QED
    BY <1>9, <2>4 DEF Stop, T
<1>11. CommandName(buf) = NameIn(line)
  <2>1. PICK j \in Int : j = b - 1
    BY <1>6
  <2>2. a \in Nat \ {0} /\ j <= Len(line) /\ a <= j + 1
    BY <1>1, <1>5, <1>6, <2>1
  <2>3. SubSeq(buf, a, j) = SubSeq(line, a, j)
    BY <1>2, <2>2, PartOfBuffer
  <2> QED
    BY <1>5, <1>6, <1>9, <1>10, <2>1, <2>3 DEF CommandName, NameIn
<1>12. CommandArgs(buf) = ArgsIn(line)
  <2>1. a <= 2
    BY <1>5 DEF First
  <2>3. PICK s \in 1 .. BUF_SIZE : s = b + 1
    BY <1>3, <1>5, <1>6, <1>8, <2>1
  <2>2. StringAt(buf, s) = SubSeq(line, s, Len(line))
    BY <1>2, StringIs
  <2> QED
    BY <1>6, <1>10, <2>3, <2>2 DEF CommandArgs, ArgsIn
<1>13. StringAt(buf, 1) = line
  <2>1. 1 \in 1 .. BUF_SIZE
    BY <1>1, <1>3
  <2>2. StringAt(buf, 1) = SubSeq(line, 1, Len(line))
    BY <1>2, <2>1, StringIs
  <2> QED
    BY <1>4, <2>2, SubSeqFull
<1> QED
  BY <1>2, <1>11, <1>12, <1>13

-----------------------------------------------------------------------------
\* A line of one word leaves no arguments.
LEMMA NoArgs ==
    ASSUME NEW line, Known(line), line # << >>, AfterFirst(line) = Len(line) + 1
    PROVE  ArgsIn(line) = << >> /\ Cardinality(Words(line)) < 2
<1>1. Len(line) \in Nat /\ Single(line)
  BY KnownIs
<1>2. ArgsIn(line) = << >>
  BY <1>1, SubSeqEmpty DEF ArgsIn
<1>3. Cardinality(Words(line)) = 1
  BY <1>1, OneWord, FS_Singleton
<1> QED
  BY <1>2, <1>3

LEMMA NoWords == Cardinality(Words(<< >>)) < 2
<1>1. Words(<< >>) = {}
  BY DEF Words
<1> QED
  BY <1>1, FS_EmptySet

\* getargs stops where the second word of the line does.
LEMMA ArgIsSecondWord ==
    ASSUME NEW line, Known(line), line # << >>, AfterFirst(line) # Len(line) + 1,
           NEW nbytes \in Nat
    PROVE  /\ ArgsIn(line) # << >>
           /\ UpToBlank(SubSeq(ArgsIn(line), 1, Copied(nbytes, ArgsIn(line))))
              = SubSeq(Word(line, 2), 1, Lesser(nbytes, Len(Word(line, 2))))
<1>1. PICK n \in Nat : n = Len(line)
  BY KnownIs
<1>2. Single(line) /\ line \in Seq(Letters \cup {SPACE})
  BY KnownIs DEF Single
<1>3. PICK b \in 2 .. n - 1 : b = AfterFirst(line)
  BY <1>1, <1>2, Places
<1>4. PICK c \in b + 2 .. n + 1 : c = AfterSecond(line)
  BY <1>1, <1>2, <1>3, SecondPlace
<1>5. /\ c # n + 1 => line[c] = SPACE
      /\ \A i \in b + 1 .. c - 1 : line[i] # SPACE
  BY <1>1, <1>2, <1>3, <1>4, SecondPlace
<1>6. \A i \in 1 .. n : line[i] \in Letters \cup {SPACE}
  BY <1>1, <1>2
<1>7. PICK args : args = ArgsIn(line)
  OBVIOUS
<1>8. /\ args \in Seq(Letters \cup {SPACE}) /\ Len(args) = n - b
      /\ \A i \in 1 .. n - b : args[i] = line[b + i]
  <2>1. PICK s \in Int : s = b + 1
    OBVIOUS
  <2>2. \A i \in s .. n : line[i] \in Letters \cup {SPACE}
    BY <1>3, <1>6, <2>1
  <2>3. args = SubSeq(line, s, n)
    BY <1>1, <1>3, <1>7, <2>1 DEF ArgsIn
  <2>4. /\ args \in Seq(Letters \cup {SPACE})
        /\ Len(args) = IF s <= n THEN n - s + 1 ELSE 0
        /\ \A i \in 1 .. n - s + 1 : args[i] = line[s + i - 1]
    BY <2>2, <2>3, SubSeqProperties
  <2>5. s <= n /\ n - s + 1 = n - b
    BY <1>3, <2>1
  <2>6. \A i \in 1 .. n - b : s + i - 1 = b + i
    BY <1>3, <2>1
  <2>7. \A i \in 1 .. n - b : args[i] = line[b + i]
    BY <2>4, <2>5, <2>6
  <2> QED
    BY <2>4, <2>5, <2>7
<1>9. PICK word : word = Word(line, 2)
  OBVIOUS
<1>10. PICK w \in Nat : w = c - 1 - b /\ 1 <= w /\ w <= n - b /\ b + w + 1 = c
  <2>1. /\ b \in Nat /\ c \in Nat /\ n \in Nat
        /\ b + 2 <= c /\ c <= n + 1
    BY <1>3, <1>4
  <2>2. c - 1 - b \in Nat
    BY <2>1
  <2> QED
    BY <2>1, <2>2
<1>11. /\ Len(word) = w /\ w \in 1 .. n - b
       /\ word = [i \in 1 .. w |-> line[b + i]]
  <2>1. PICK s \in Int : s = b + 1
    OBVIOUS
  <2>2. PICK e \in Int : e = c - 1
    OBVIOUS
  <2>3. word = SubSeq(line, s, e)
    BY <1>1, <1>2, <1>3, <1>4, <1>9, <2>1, <2>2, Word2Is
  <2>4. word = [i \in 1 .. e - s + 1 |-> line[s + i - 1]]
    BY <1>2, <2>3
  <2>5. e - s + 1 = w /\ w \in 1 .. n - b
    <3>1. b \in Nat /\ c \in Nat
      BY <1>3, <1>4
    <3> QED
      BY <1>10, <2>1, <2>2, <3>1
  <2>6. \A i \in 1 .. w : s + i - 1 = b + i
    BY <1>3, <2>1
  <2>7. word = [i \in 1 .. w |-> line[b + i]]
    BY <2>4, <2>5, <2>6
  <2> QED
    BY <2>5, <2>7
<1>12. PICK k \in Nat : k = Copied(nbytes, args) /\ k = Lesser(nbytes, n - b)
  BY <1>3, <1>8 DEF Copied, Lesser
<1>13. k <= n - b
  BY <1>3, <1>12 DEF Lesser
<1>14. PICK text : text = SubSeq(args, 1, k)
  OBVIOUS
<1>15. Len(text) = k /\ text = [i \in 1 .. k |-> line[b + i]]
  <2>1. b \in Nat /\ n - b \in Nat /\ k \in 0 .. n - b
    BY <1>3, <1>13
  <2> QED
    BY <1>8, <1>14, <2>1
<1> DEFINE T == {i \in DOMAIN text : text[i] \in {SPACE, NEWLINE}} \cup {Len(text) + 1}
<1>16. T \in SUBSET Nat
  BY <1>15
<1>17. PICK m \in Nat : m = Lesser(k, w)
  BY <1>12, <1>10 DEF Lesser
<1>18. m + 1 \in T
  <2>1. CASE k <= w
    BY <1>15, <1>17, <2>1 DEF Lesser
  <2>2. CASE w < k
    <3>1. m = w
      BY <1>10, <1>12, <1>17, <2>2 DEF Lesser
    <3>2. PICK j \in Int : j = m + 1
      BY <1>17
    <3>3. j \in 1 .. k /\ b + j = c /\ c # n + 1
      <4>1. j \in 1 .. k
        <5>1. w \in Nat /\ k \in Nat /\ j = w + 1
          BY <1>10, <1>12, <3>1, <3>2
        <5> QED
          BY <2>2, <5>1
      <4>2. b + j = c
        BY <1>3, <1>10, <3>1, <3>2
      <4>3. c # n + 1
        <5>1. b \in Nat /\ w \in Nat /\ k \in Nat /\ n \in Nat /\ c = b + w + 1
          BY <1>3, <1>10, <1>12
        <5> QED
          BY <1>13, <2>2, <5>1
      <4> QED
        BY <4>1, <4>2, <4>3
    <3>4. text[j] = SPACE
      BY <1>5, <1>15, <3>3
    <3>5. j \in DOMAIN text
      BY <1>15, <3>3
    <3> QED
      BY <3>2, <3>4, <3>5
  <2> QED
    BY <1>10, <1>12, <2>1, <2>2
<1>19. \A i \in T : m + 1 <= i
  <2> SUFFICES ASSUME NEW i \in T, ~ (m + 1 <= i) PROVE FALSE
    OBVIOUS
  <2>1. i \in Nat /\ i <= m
    BY <1>16, <1>17
  <2>2. m <= k /\ m <= w
    BY <1>10, <1>12, <1>17 DEF Lesser
  <2>3. i \in 1 .. k /\ i \in 1 .. w /\ text[i] \in {SPACE, NEWLINE}
    BY <1>15, <1>17, <1>10, <2>1, <2>2
  <2>4. b + i \in b + 1 .. c - 1 /\ b + i \in 1 .. n
    <3>1. b \in Nat /\ c \in Nat /\ i \in Nat /\ 1 <= i /\ i <= w
      BY <1>3, <1>4, <2>3
    <3> QED
      BY <1>10, <3>1
  <2>5. text[i] \in Letters
    BY <1>5, <1>6, <1>15, <2>3, <2>4
  <2> QED
    BY <2>3, <2>5, Distinct
<1> HIDE DEF T
<1>20. Least(T) = m + 1
  BY <1>16, <1>18, <1>19, LeastIs
<1>21. UpToBlank(text) = SubSeq(text, 1, m)
  <2>1. UpToBlank(text) = SubSeq(text, 1, Least(T) - 1)
    BY DEF UpToBlank, T
  <2>2. (m + 1) - 1 = m
    BY <1>17
  <2> QED
    BY <1>20, <2>1, <2>2
<1>22. m = Lesser(nbytes, w) /\ m <= k /\ m <= w
  <2>1. PICK r \in Int : r = n - b
    BY <1>3
  <2>2. w <= r /\ k = IF nbytes < r THEN nbytes ELSE r
    BY <1>10, <1>12, <2>1 DEF Lesser
  <2> QED
    BY <1>17, <2>1, <2>2 DEF Lesser
<1>23. SubSeq(text, 1, m) = [i \in 1 .. m |-> line[b + i]]
  BY <1>15, <1>22
<1>24. SubSeq(word, 1, m) = [i \in 1 .. m |-> line[b + i]]
  BY <1>11, <1>22
<1>25. args # << >>
  BY <1>3, <1>8
<1> QED
  BY <1>7, <1>9, <1>11, <1>12, <1>14, <1>21, <1>22, <1>23, <1>24, <1>25

-----------------------------------------------------------------------------
(***************************************************************************)
(* The programs.                                                           *)
(***************************************************************************)
KnownLines == {<< >>} \cup {line \in TypedLines : Known(line)}

\* The program that a line executed, with what its buffer holds.
ProcessOf(line, typed) ==
    [line |-> line, buf  |-> BufferOf(typed),
                    name |-> IF line = << >> THEN << >> ELSE NameIn(line),
                    args |-> IF line = << >> THEN << >> ELSE ArgsIn(line)]
Processes == {ProcessOf(line, typed) : line \in KnownLines, typed \in KnownLines}

\* Every program has a known line's name and arguments, and a known line in its buffer.
CommandsInv == /\ procs \in Seq(Processes) /\ procs # << >>
               /\ \A k \in 2 .. Len(procs) : procs[k].line # << >>
               /\ GetsArgument

\* What users type, in these theorems: the others are a known divergence of getargs.
TidyTyping == \A line \in TypedLines : Tidy(line)

LEMMA KnownLinesAre == \A line \in KnownLines : Known(line)
BY DEF KnownLines, Known

LEMMA ProcessIs ==
    ASSUME NEW proc \in Processes
    PROVE  \E line \in KnownLines, typed \in KnownLines : proc = ProcessOf(line, typed)
BY DEF Processes

\* A step that forgets the last answer keeps what is promised of answers.
LEMMA NoAnswerYet ==
    ASSUME procs' \in Seq(Processes), procs' # << >>,
           \A k \in 2 .. Len(procs') : procs'[k].line # << >>,
           answer' = NoAnswer
    PROVE  CommandsInv'
BY DEF CommandsInv, GetsArgument

LEMMA CommandsStart == CommandsInit => CommandsInv
<1> SUFFICES ASSUME CommandsInit PROVE CommandsInv
  OBVIOUS
<1>1. BufferOf(<< >>) = NewBuf
  BY SizeAssumption DEF BufferOf, NewBuf
<1>2. Process(<< >>, << >>, << >>) = ProcessOf(<< >>, << >>)
  BY <1>1 DEF Process, ProcessOf
<1>3. PICK proc \in Processes : proc = Process(<< >>, << >>, << >>)
  BY <1>2 DEF Processes, KnownLines
<1>4. procs = <<proc>> /\ answer = NoAnswer
  BY <1>3 DEF CommandsInit
<1>5. procs \in Seq(Processes) /\ Len(procs) = 1
  BY <1>4
<1> QED
  BY <1>4, <1>5 DEF CommandsInv, GetsArgument

LEMMA ReadLineKeeps ==
    ASSUME CommandsInv, TidyTyping, NEW line \in TypedLines, ReadLine(line)
    PROVE  CommandsInv'
<1>1. PICK n \in Nat \ {0} : n = Len(procs)
  BY DEF CommandsInv
<1>2. PICK proc \in Processes : proc = procs[n]
  BY <1>1 DEF CommandsInv
<1>3. PICK l \in KnownLines, typed \in KnownLines : proc = ProcessOf(l, typed)
  BY ProcessIs
<1>4. Known(line) /\ line \in KnownLines
  BY DEF TidyTyping, Known, KnownLines
<1>5. Len(line) \in Nat /\ Len(line) <= BUF_SIZE - 1 /\ BUF_SIZE \in Nat /\ line \in Seq(Letters \cup {SPACE})
  BY <1>4, KnownIs, SizeAssumption DEF Single
<1>6. [TerminalRead(proc.buf, line) EXCEPT ![Len(line) + 1] = NUL] = BufferOf(line)
  <2>1. PICK k \in Nat : k = Len(line) /\ k + 1 \in 1 .. BUF_SIZE
    BY <1>5
  <2>2. Len(Line(line)) = k + 1 /\ \A i \in 1 .. k : Line(line)[i] = line[i]
    BY <1>5, <2>1 DEF Line
  <2>3. TerminalRead(proc.buf, line) =
            [i \in 1 .. BUF_SIZE |-> IF i <= k + 1 THEN Line(line)[i] ELSE NUL]
    BY <2>2 DEF TerminalRead
  <2>4. [TerminalRead(proc.buf, line) EXCEPT ![k + 1] = NUL] =
            [i \in 1 .. BUF_SIZE |-> IF i = k + 1 THEN NUL
                                     ELSE IF i <= k + 1 THEN Line(line)[i] ELSE NUL]
    BY <2>1, <2>3
  <2>5. \A i \in 1 .. BUF_SIZE : (IF i = k + 1 THEN NUL
                                  ELSE IF i <= k + 1 THEN Line(line)[i] ELSE NUL) =
                                 (IF i <= k THEN line[i] ELSE NUL)
    BY <2>1, <2>2
  <2> QED
    BY <2>1, <2>4, <2>5 DEF BufferOf
<1>7. PICK new : new = ProcessOf(l, line)
  OBVIOUS
<1>8. new \in Processes
  BY <1>4, <1>7 DEF Processes
<1>9. procs' = [procs EXCEPT ![n] = new] /\ answer' = NoAnswer
  <2>1. procs' = [procs EXCEPT ![n] = [proc EXCEPT !.buf = BufferOf(line)]]
    BY <1>1, <1>2, <1>6 DEF ReadLine
  <2>2. [proc EXCEPT !.buf = BufferOf(line)] = new
    BY <1>3, <1>7 DEF ProcessOf
  <2> QED
    BY <2>1, <2>2 DEF ReadLine
<1>10. procs' \in Seq(Processes) /\ Len(procs') = n
  BY <1>1, <1>8, <1>9 DEF CommandsInv
<1>11. new.line = proc.line
  BY <1>3, <1>7 DEF ProcessOf
<1>12. \A k \in 2 .. Len(procs') : procs'[k].line # << >>
  BY <1>1, <1>2, <1>9, <1>10, <1>11 DEF CommandsInv
<1>13. procs' # << >>
  BY <1>10
<1> QED
  BY <1>9, <1>10, <1>12, <1>13, NoAnswerYet

LEMMA ExecuteKeeps ==
    ASSUME CommandsInv, Execute
    PROVE  CommandsInv'
<1>1. PICK n \in Nat \ {0} : n = Len(procs)
  BY DEF CommandsInv
<1>2. PICK proc \in Processes : proc = procs[n]
  BY <1>1 DEF CommandsInv
<1>3. PICK l \in KnownLines, typed \in KnownLines : proc = ProcessOf(l, typed)
  BY ProcessIs
<1>4. Known(typed) /\ Current.buf = BufferOf(typed)
  BY <1>1, <1>2, <1>3, KnownLinesAre DEF Current, ProcessOf
<1>5. typed # << >>
  <2>1. CASE typed = << >>
    <3>1. BUF_SIZE \in Nat /\ 1 \in 1 .. BUF_SIZE
      BY SizeAssumption
    <3>2. BufferOf(typed)[1] = NUL
      BY <2>1, <3>1 DEF BufferOf
    <3> QED
      BY <1>4, <3>2 DEF Execute
  <2> QED
    BY <2>1
<1>6. PICK new : new = ProcessOf(typed, << >>)
  OBVIOUS
<1>7. new \in Processes
  BY <1>6 DEF Processes, KnownLines
<1>8. BufferOf(<< >>) = NewBuf
  BY SizeAssumption DEF BufferOf, NewBuf
<1>9. procs' = Append(procs, new) /\ answer' = NoAnswer
  BY <1>4, <1>5, <1>6, <1>8, ExecuteReads DEF Execute, Process, ProcessOf
<1>10. procs' \in Seq(Processes) /\ Len(procs') = n + 1
       /\ procs'[n + 1] = new /\ \A k \in 1 .. n : procs'[k] = procs[k]
  BY <1>1, <1>7, <1>9 DEF CommandsInv
<1>11. new.line # << >>
  BY <1>5, <1>6 DEF ProcessOf
<1>12. \A k \in 2 .. Len(procs') : procs'[k].line # << >>
  BY <1>1, <1>10, <1>11 DEF CommandsInv
<1>13. procs' # << >>
  BY <1>10
<1> QED
  BY <1>9, <1>10, <1>12, <1>13, NoAnswerYet

LEMMA HaltKeeps ==
    ASSUME CommandsInv, Halt
    PROVE  CommandsInv'
<1>1. PICK n \in Nat \ {0} : n = Len(procs) /\ n > 1
  BY DEF CommandsInv, Halt
<1>2. PICK m \in Nat : m = n - 1 /\ m >= 1
  BY <1>1
<1>3. procs' = SubSeq(procs, 1, m) /\ answer' = NoAnswer
  BY <1>1, <1>2 DEF Halt
<1>4. procs' \in Seq(Processes) /\ Len(procs') = m /\ \A k \in 1 .. m : procs'[k] = procs[k]
  BY <1>1, <1>2, <1>3 DEF CommandsInv
<1>5. \A k \in 2 .. Len(procs') : procs'[k].line # << >>
  BY <1>1, <1>2, <1>4 DEF CommandsInv
<1>6. procs' # << >>
  BY <1>2, <1>4
<1> QED
  BY <1>3, <1>4, <1>5, <1>6, NoAnswerYet

LEMMA GetargsKeeps ==
    ASSUME CommandsInv, NEW nbytes \in Nat, Getargs(nbytes)
    PROVE  CommandsInv'
<1>1. PICK proc \in Processes : proc = Current
  BY DEF CommandsInv, Current
<1>2. PICK line \in KnownLines, typed \in KnownLines : proc = ProcessOf(line, typed)
  BY ProcessIs
<1>3. Known(line) /\ proc.line = line
  BY <1>2, KnownLinesAre DEF ProcessOf
<1>4. proc.args = IF line = << >> THEN << >> ELSE ArgsIn(line)
  BY <1>2 DEF ProcessOf
<1>5. procs' = procs
  BY DEF Getargs
<1>6. CASE line = << >> \/ AfterFirst(line) = Len(line) + 1
  <2>1. proc.args = << >> /\ Cardinality(Words(line)) < 2
    BY <1>3, <1>4, <1>6, NoArgs, NoWords
  <2>2. answer'.ret = -1
    BY <1>1, <2>1 DEF Getargs
  <2>3. GetsArgument'
    BY <1>1, <1>3, <1>5, <2>1, <2>2 DEF GetsArgument, Current
  <2> QED
    BY <1>5, <2>3 DEF CommandsInv
<1>7. CASE line # << >> /\ AfterFirst(line) # Len(line) + 1
  <2>1. PICK args : args = proc.args /\ args = ArgsIn(line) /\ args # << >>
    BY <1>3, <1>4, <1>7, ArgIsSecondWord
  <2>2. /\ answer'.ret = 0 /\ answer'.nbytes = nbytes
        /\ answer'.text = UpToBlank(SubSeq(args, 1, Copied(nbytes, args)))
    BY <1>1, <2>1 DEF Getargs
  <2>3. answer'.text = SubSeq(Word(line, 2), 1, Lesser(answer'.nbytes, Len(Word(line, 2))))
    BY <1>3, <1>7, <2>1, <2>2, ArgIsSecondWord
  <2>4. ~ (Cardinality(Words(line)) < 2)
    BY <1>3, <1>7, KnownIs, Word2Is
  <2>5. GetsArgument'
    BY <1>1, <1>3, <1>5, <2>2, <2>3, <2>4 DEF GetsArgument, Current
  <2> QED
    BY <1>5, <2>5 DEF CommandsInv
<1> QED
  BY <1>6, <1>7

LEMMA CommandsInvariance ==
    ASSUME TidyTyping, ArgSizes \subseteq Nat
    PROVE  CommandsSpec => []CommandsInv
<1>1. ASSUME CommandsInv, [CommandsNext]_commandsVars
      PROVE  CommandsInv'
  <2>1. ASSUME NEW line \in TypedLines, ReadLine(line) PROVE CommandsInv'
    BY <1>1, <2>1, ReadLineKeeps
  <2>2. CASE Execute
    BY <1>1, <2>2, ExecuteKeeps
  <2>3. CASE Halt
    BY <1>1, <2>3, HaltKeeps
  <2>4. ASSUME NEW nbytes \in ArgSizes, Getargs(nbytes) PROVE CommandsInv'
    BY <1>1, <2>4, GetargsKeeps
  <2>5. CASE UNCHANGED commandsVars
    BY <1>1, <2>5 DEF commandsVars, CommandsInv, GetsArgument, Current
  <2> QED
    BY <1>1, <2>1, <2>2, <2>3, <2>4, <2>5 DEF CommandsNext
<1> QED
  BY CommandsStart, <1>1, PTL DEF CommandsSpec

\* execute parses the name out of the shell's buffer: the program it starts is the one that
\* the line names first, whatever line the buffer had before.
THEOREM StartsFirstWord ==
    ASSUME TidyTyping, ArgSizes \subseteq Nat
    PROVE  CommandsSpec => []RunsFirstWord
<1>1. CommandsInv => RunsFirstWord
  <2> SUFFICES ASSUME CommandsInv, NEW k \in 2 .. Len(procs)
               PROVE  procs[k].name = Word(procs[k].line, 1)
    BY DEF RunsFirstWord
  <2>1. procs[k] \in Processes /\ procs[k].line # << >>
    BY DEF CommandsInv
  <2>2. PICK line \in KnownLines, typed \in KnownLines : procs[k] = ProcessOf(line, typed)
    BY <2>1, ProcessIs
  <2>3. line # << >> /\ procs[k].line = line /\ procs[k].name = NameIn(line)
    BY <2>1, <2>2 DEF ProcessOf
  <2>4. Known(line) /\ Single(line)
    BY KnownLinesAre, KnownIs
  <2>5. Word(line, 1) = NameIn(line)
    BY <2>3, <2>4, Word1Is DEF NameIn
  <2> QED
    BY <2>3, <2>5
<1> QED
  BY <1>1, CommandsInvariance, PTL

\* getargs gives the program, whatever has been executed since, the beginning of the word
\* after its name, and fails if there is none.
THEOREM GivesSecondWord ==
    ASSUME TidyTyping, ArgSizes \subseteq Nat
    PROVE  CommandsSpec => []GetsArgument
<1>1. CommandsInv => GetsArgument
  BY DEF CommandsInv
<1> QED
  BY <1>1, CommandsInvariance, PTL
=============================================================================
