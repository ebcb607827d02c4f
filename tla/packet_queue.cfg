SPECIFICATION Spec
CONSTANTS
    Prio = {p1}
    Conn = {c1, c2}
    NoConn = NoConn
    MaxId = 2
    MaxBreaks = 2
SYMMETRY Symmetry
INVARIANTS NoLoss AcksAreProcessed BufferedOnce LastSendIsActive NoStalledPacket NoStalledArrival NoEarlyAck
CHECK_DEADLOCK FALSE
PROPERTIES DeliversInOrder
