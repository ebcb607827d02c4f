SPECIFICATION Spec
CONSTANTS
    Caller = {c1}
    Worker = {w1}
    Local = {w1}
    Self = Self
    MaxCalls = 2
    MaxYields = 1
SYMMETRY Symmetry
INVARIANTS CalledOrder
CHECK_DEADLOCK FALSE
