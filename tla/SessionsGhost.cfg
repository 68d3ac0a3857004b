SPECIFICATION Spec
CONSTANTS
    c1 = c1
    c2 = c2
    Clients = {c1, c2}
    Modes = {"iterative", "concurrent"}
    QueueLimit = 1
    MaxRequests <- MCRequests
    MaxSplits = 1
INVARIANT ShownWasSent
