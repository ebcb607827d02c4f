SPECIFICATION Spec
CONSTANTS
    Caller = {c1, c2}
    Worker = {w1, w2}
    Local = {}
    Self = Self
    MaxCalls = 1
    MaxYields = 1
SYMMETRY Symmetry
INVARIANTS OneThreadAtATime NoLostWakeup CalledOrder
CHECK_DEADLOCK FALSE
