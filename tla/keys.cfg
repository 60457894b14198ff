SPECIFICATION KeysSpec
CONSTANTS
    KeyLetters <- SomeLetters
    Symbols <- SomeSymbols
    Keyboard <- PlainKeys
    Repeating <- PlainRepeating
INVARIANTS
    StatesFollowKeys
    TypesAsHeld
    ShowsAsAsked
