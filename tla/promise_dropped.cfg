SPECIFICATION Spec
CONSTANTS
    Owners = {o1, o2}
    First = o1
INVARIANTS DroppedIsAnswered
CHECK_DEADLOCK FALSE
