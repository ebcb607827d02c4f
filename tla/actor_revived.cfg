SPECIFICATION Spec
CONSTANTS
    Users = {u1, u2}
INVARIANTS AnsweredIsGone
CHECK_DEADLOCK FALSE
