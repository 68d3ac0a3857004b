SPECIFICATION Spec
CONSTANTS
    Pids = {p1, p2, p3}
    NoPid = NoPid
    FIRST_SIZE = 2
    MaxForks = 3
PROPERTY ShutdownSaves
CHECK_DEADLOCK FALSE
