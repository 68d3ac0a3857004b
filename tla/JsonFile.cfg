SPECIFICATION Spec
CONSTANTS
    MAX_ACCTS = 2
    MIN_BALANCE = 4
    MIN_DEPOSIT = 2
    MIN_WITHDRAW = 2
    TRANS_KEEP = 2
    FIRST_NUMBER = 1
    INT_MAX = 15
    Pins = {7}
    Names <- MCNames
    Heaps <- MCHeaps
    NameSize = 7
INVARIANTS TypeOK LoadsFile NamesKept NamesSettle
CHECK_DEADLOCK FALSE
