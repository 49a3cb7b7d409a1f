\* A small rack: the maker and the customers both come to wait.
SPECIFICATION Spec
CONSTANTS
    CUP_CAPACITY = 2
    TOTAL_CUSTOMERS = 3
    CONSUME_PER_CUSTOMER = 2
INVARIANTS
    TokensMatchCups
    FreedUnused
PROPERTIES
    CoffeeServed
CHECK_DEADLOCK FALSE
