\* Two arguments that fit or do not; three calls of Go, nested two deep; words
\* of two bits.
SPECIFICATION Spec
CONSTANTS
    Argc = 2
    Lengths <- Arguments
    Base = 8
    Limit = 72
    Word = 4
    Second = 2
    Times <- Clock
    Texts <- Pieces
    Newline = "n"
    Lead = "l"
    Trail = "t"
    Bom = "b"
    Replacement = "?"
    MaxWrites = 6
    MaxEvents = 3
    MaxDepth = 5
    MaxMoves = 1
INVARIANTS ArgumentsIntact GoDataUntouched WalltimeExact OutputInOrder
    OwnEventTaken OwnResultReturned ResultsReachGo
PROPERTIES KeepsCallOrder
CHECK_DEADLOCK FALSE
