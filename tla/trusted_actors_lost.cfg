SPECIFICATION Spec
CONSTANTS
    Hosts = {h1}
    Subscribers = {s1, s2}
    OfSecond = {}
    MaxChanges = 2
INVARIANT AllTrustedAreSeen
CHECK_DEADLOCK FALSE
