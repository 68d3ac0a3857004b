SPECIFICATION Spec
CONSTANTS
    Pids = {p1, p2, p3}
    NoPid = NoPid
    FIRST_SIZE = 1
    MaxForks = 3
INVARIANTS TypeOK NeverUndercounted CalmTracks
PROPERTY ZombiesReaped
CHECK_DEADLOCK FALSE
