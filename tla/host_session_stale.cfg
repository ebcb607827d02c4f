SPECIFICATION Spec
CONSTANTS
    Host = {a, b}
    Senders = {a}
    Restarting = {a}
    Conn = {c1}
    MaxExec = 2
    MaxId = 2
    MaxBreaks = 1
SYMMETRY Symmetry
INVARIANTS AgreedNoLoss
CHECK_DEADLOCK FALSE
