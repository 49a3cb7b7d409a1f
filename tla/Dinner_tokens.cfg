\* The normal mode and the deadlock demo (mode 2 differs from 0 in delays only).
SPECIFICATION Spec
CONSTANTS
    Demos = {0, 1}
    EatTimes = 2
INVARIANTS
    TokensConserved
    ChopsticksExclusive
    StuckIsCircular
CHECK_DEADLOCK FALSE
