SPECIFICATION Spec
CONSTANTS
    Host = {a, b}
    Senders = {a, b}
    Restarting = {b}
    Conn = {c1}
    MaxExec = 3
    MaxId = 2
    MaxBreaks = 2
SYMMETRY Symmetry
INVARIANTS SessionsPair StableHostNoLoss
PROPERTIES PeerNeverGoesBack
CHECK_DEADLOCK FALSE
