SPECIFICATION OrderlySpec
CONSTANTS
    MAX_ACCTS = 2
    MIN_BALANCE = 4
    MIN_DEPOSIT = 2
    MIN_WITHDRAW = 2
    TRANS_KEEP = 2
    FIRST_NUMBER = 1
    INT_MAX = 15
    Pins = {7}
    Names = {"holder"}
    Amounts <- MCAmounts
    FirstFiles <- MCFirstFiles
    MaxOpens = 3
    MaxPostings = 3
    MaxStarts = 1
INVARIANTS TypeOK OperationDone FileCurrent NumbersUnique
PROPERTIES RestartKeepsAnswers TornKeepsPrefix ImplementsAtomic
CHECK_DEADLOCK FALSE
