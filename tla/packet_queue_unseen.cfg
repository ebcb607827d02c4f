SPECIFICATION NoRetrySpec
CONSTANTS
    Prio = {p1}
    Conn = {c1, c2}
    NoConn = NoConn
    MaxId = 1
    MaxBreaks = 1
PROPERTIES RecoveredOnSurvivor
CHECK_DEADLOCK FALSE
