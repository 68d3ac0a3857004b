SPECIFICATION Spec
CONSTANTS
    MAX_ACCTS = 2
    MIN_BALANCE = 4
    MIN_DEPOSIT = 2
    MIN_WITHDRAW = 2
    TRANS_KEEP = 2
    FIRST_NUMBER = 1
    INT_MAX = 15
    Pins = {7, 8}
    Names = {"holder"}
    Children = {c1, c2}
    Amounts <- MCAmounts
    MaxRequests = 2
    MaxForks = 2
    MaxBoots = 1
PROPERTY KnownLater
SYMMETRY Alike
CHECK_DEADLOCK FALSE
