SPECIFICATION Spec
CONSTANTS
    Prio = {p1}
    Conn = {c1, c2}
    NoConn = NoConn
    MaxId = 2
    MaxBreaks = 1
PROPERTIES RefinesOrderedDelivery RecoveredAtKnownPriority
CHECK_DEADLOCK FALSE
