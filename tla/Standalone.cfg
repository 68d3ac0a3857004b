SPECIFICATION Spec
CONSTANTS
    MAX_ACCTS = 2
    MIN_BALANCE = 4
    MIN_DEPOSIT = 2
    MIN_WITHDRAW = 2
    TRANS_KEEP = 2
    FIRST_NUMBER = 1
    INT_MAX = 15
    Pins = {7}
    Names = {"holder"}
    Asked = {0, 1, 2, 3}
    AskedPins = {0, 7}
    Amounts <- MCAmounts
    MaxOpens = 3
    MaxPostings = 3
    MaxStarts = 2
INVARIANTS TypeOK FileCurrent
PROPERTIES RestartKeeps JamEnds
CHECK_DEADLOCK FALSE
