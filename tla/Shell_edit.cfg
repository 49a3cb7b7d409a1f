\* Two lines of up to two characters, then a third being edited; keys pressed
\* while a program runs pile up in a queue of three bytes.
SPECIFICATION Spec
CONSTANTS
    QueueCap = 3
    MaxLine = 2
    MaxEntered = 2
    Ahead = 0
    Keys <- MCKeys
    Meaning <- MCMeaning
INVARIANTS
    EditsAsTyped
    PanicNeedsWide
    CwdIsWalk
CHECK_DEADLOCK FALSE
