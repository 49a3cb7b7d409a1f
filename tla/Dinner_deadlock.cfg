\* The normal mode.
SPECIFICATION Spec
CONSTANTS
    Demos = {0}
    EatTimes = 1
INVARIANTS
    NoDeadlock
CHECK_DEADLOCK FALSE
