-------------------------------- MODULE Keys --------------------------------
(***************************************************************************)
(* From the keys that are held to what keyboard_handler does: the bytes    *)
(* that the keyboard sends, the state keys, caps lock and shift, and the   *)
(* order in which the handler asks what an interrupt is about.  What the   *)
(* effects do is in Terminal and Screen.                                   *)
(***************************************************************************)
EXTENDS Integers, Sequences

CONSTANTS KeyLetters, Symbols,  \* the printable keys
          Keyboard,             \* the keys that are used
          Repeating             \* those that are held until they repeat

CtrlL == "l"
StateKeys == {"lshift", "rshift", "ctrl", "caps", "alt", "f1", "f2", "f3", "up", "down"}
Printable == KeyLetters \cup Symbols

\* Keys that send the code of another, most of them after a byte that says so.
Twin == [rctrl |-> "ctrl", ralt |-> "alt", arrow_up |-> "up", arrow_down |-> "down"]
Code(k) == IF k \in DOMAIN Twin THEN Twin[k] ELSE k
FKeys == <<"f1", "f2", "f3">>

ASSUME KeysAssumption ==
    /\ Printable \cap StateKeys = {}
    /\ Printable \cap DOMAIN Twin = {}
    /\ KeyLetters \cap Symbols = {}
    /\ Keyboard \subseteq Printable \cup StateKeys \cup DOMAIN Twin
    /\ Repeating \subseteq Keyboard

VARIABLES down,             \* the keys that are held
          event,            \* what was last done to a key, and to which
          sent,             \* the bytes that wait for their interrupts
          key_state,        \* the state keys whose state is 1
          terminal_shown,
          effects           \* of the interrupts since event

keysVars == <<down, event, sent, key_state, terminal_shown, effects>>

Byte(code, released) == [code |-> code, released |-> released]
E0 == Byte("e0", TRUE)      \* bit 7 is set in it

KeysInit == /\ down = {}
            /\ event = [kind |-> "none", key |-> "none"]
            /\ sent = << >>
            /\ key_state = {}
            /\ terminal_shown = 0
            /\ effects = << >>

-----------------------------------------------------------------------------
(***************************************************************************)
(* The keyboard.  Users are slower than the handler.                       *)
(***************************************************************************)
SendsBytes(kind, k) ==
    /\ sent = << >>
    /\ sent' = (IF k \in DOMAIN Twin THEN <<E0>> ELSE << >>)
               \o <<Byte(Code(k), kind = "release")>>
    /\ event' = [kind |-> kind, key |-> k]
    /\ effects' = << >>
    /\ UNCHANGED <<key_state, terminal_shown>>

Press(k) == k \notin down /\ down' = down \cup {k} /\ SendsBytes("press", k)
Release(k) == k \in down /\ down' = down \ {k} /\ SendsBytes("release", k)

\* The key that was pressed last repeats.
Repeat(k) == /\ k \in down
             /\ event.key = k /\ event.kind \in {"press", "repeat"}
             /\ SendsBytes("repeat", k)
             /\ UNCHANGED down

-----------------------------------------------------------------------------
(***************************************************************************)
(* keyboard_handler.                                                       *)
(***************************************************************************)
Toggled(ks, k) == (ks \cup {k}) \ (ks \cap {k})

UpdateStateKeys_KeepsAlt(ks, b) ==
    CASE b.code \notin StateKeys -> ks
      [] b.code = "caps"         -> IF b.released THEN ks ELSE Toggled(ks, "caps")
      [] OTHER -> IF b.released /\ b.code # "alt" THEN ks \ {b.code} ELSE ks \cup {b.code}

\* Caps lock toggles when its byte is not a release; other state keys follow theirs.
UpdateStateKeys(ks, b) ==
    CASE b.code \notin StateKeys -> ks
      [] b.code = "caps"         -> IF b.released THEN ks ELSE Toggled(ks, "caps")
      [] OTHER                   -> IF b.released THEN ks \ {b.code} ELSE ks \cup {b.code}

CheckKeys(b) == b.code \in Printable /\ ~b.released

Shift(ks) == ks \cap {"lshift", "rshift"} # {}

CheckStates_CapsSymbols(ks, k) == [key |-> k, shifted |-> Shift(ks) # ("caps" \in ks)]
CheckStates(ks, k) == [key |-> k, shifted |-> IF k \in KeyLetters
                                              THEN Shift(ks) # ("caps" \in ks)
                                              ELSE Shift(ks)]

\* The first of the F keys that are held.
FKey_Last(ks) == CHOOSE i \in DOMAIN FKeys :
                     FKeys[i] \in ks /\ \A j \in DOMAIN FKeys : FKeys[j] \in ks => j <= i
FKey(ks) == CHOOSE i \in DOMAIN FKeys :
                FKeys[i] \in ks /\ \A j \in DOMAIN FKeys : FKeys[j] \in ks => i <= j

Early(ks, b) == IF "ctrl" \in ks /\ b.code = CtrlL /\ CheckKeys(b) THEN <<"clear">>
                ELSE IF ks \cap {"up", "down"} # {} THEN <<"recall">> ELSE << >>

Handle(ks, b) ==
    /\ key_state' = ks
    /\ IF Early(ks, b) # << >>
       THEN /\ effects' = effects \o Early(ks, b)
            /\ UNCHANGED terminal_shown
       ELSE /\ terminal_shown' = IF "alt" \in ks /\ \E i \in DOMAIN FKeys : FKeys[i] \in ks
                                 THEN FKey(ks) - 1
                                 ELSE terminal_shown
            /\ effects' = IF CheckKeys(b) THEN Append(effects, CheckStates(ks, b.code))
                          ELSE effects

HandleByte == /\ sent # << >>
              /\ sent' = Tail(sent)
              /\ Handle(UpdateStateKeys(key_state, Head(sent)), Head(sent))
              /\ UNCHANGED <<down, event>>

KeysNext == \/ \E k \in Keyboard : Press(k) \/ Release(k)
            \/ \E k \in Repeating : Repeat(k)
            \/ HandleByte

KeysSpec == KeysInit /\ [][KeysNext]_keysVars

-----------------------------------------------------------------------------
(***************************************************************************)
(* What the user expects, once an event has been handled.                  *)
(***************************************************************************)
Handled == sent = << >> /\ event.kind # "none"

\* The type invariant: of the keys, the bytes on their way and the handler's state.
KeysTypeOK == /\ down \subseteq Keyboard
              /\ event.kind \in {"none", "press", "release", "repeat"}
              /\ Len(sent) <= 2
              /\ key_state \subseteq StateKeys
              /\ terminal_shown \in 0 .. Len(FKeys) - 1
              /\ Len(effects) <= 2

\* "state 1 means it has been pressed and 0 it has not" (kboard.h): no order of presses
\* and releases leaves a state key on that is not held, or off that is.
StatesFollowKeys ==
    Handled => key_state \ {"caps"} = {Code(k) : k \in down} \cap (StateKeys \ {"caps"})

\* A printable key types one character: a letter's case is shift's with caps lock turned
\* round, a symbol's shift's alone (check_states, kboard.c; and the symbols that "would pop
\* up when pressing number keys", buglogs/cp2).
TypesAsHeld ==
    Handled /\ event.key \in Printable /\ event.kind # "release"
            /\ ~("ctrl" \in down /\ event.key = CtrlL) =>
        effects = <<[key |-> event.key,
                     shifted |-> IF event.key \in KeyLetters
                                 THEN (down \cap {"lshift", "rshift"} # {}) # ("caps" \in key_state)
                                 ELSE down \cap {"lshift", "rshift"} # {}]>>

\* Letting a key go types nothing, clears nothing and recalls no command: type_command is
\* for when the "user pressed up" or down (kboard.c).
ReleasesAreQuiet == Handled /\ event.kind = "release" => effects = << >>

\* Pressing an F key while alt is held shows its terminal.
ShowsAsAsked ==
    \A i \in DOMAIN FKeys :
        (/\ Handled /\ event = [kind |-> "press", key |-> FKeys[i]]
         /\ "alt" \in down
         /\ \A j \in 1 .. i - 1 : FKeys[j] \notin down) => terminal_shown = i - 1

\* Caps lock toggles "only [...] when we press" (kboard.c), not while it is held.
CapsOnlyOnPress ==
    [][("caps" \in key_state') # ("caps" \in key_state) => event.kind = "press"]_keysVars
=============================================================================
