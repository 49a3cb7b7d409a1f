\* Two rounds of both blocks: like 400, the end of a round.
SPECIFICATION Spec
CONSTANTS
    TOTAL_PRINTS = 16
INVARIANTS
    OutputInOrder
    StaticsExclusive
PROPERTIES
    EverybodyLeaves
CHECK_DEADLOCK FALSE
