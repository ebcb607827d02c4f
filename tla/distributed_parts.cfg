SPECIFICATION Spec
CONSTANTS
    RemoteCallers = {r1, r2}
    MaxSession = 3
    Actors = {a1}
    Subscribers = {s1, s2}
    MaxChanges = 4
    MaxSequence = 3
    Hosts = {h1}
    TrustSubscribers = {t1, t2, t3}
    OfSecond = {t2}
    MaxTrustChanges = 3
    MaxReports = 3
    MaxFaults = 2
    FirstUser = u1
    SecondUser = u2
    Checkers = {c1}
    MaxGrants = 1
    MaxAsks = 2
    MaxClock = 2
INVARIANTS TypeOK KeptWhileUsed SubscribersFollow KeepsTrying NamespaceIsKept UpstreamAgrees ReadersFollow AuthenticationsFollow
PROPERTIES EveryCallEnds PublishedIsKnown SubscribersSee CaughtUp
\* Callers, subscribers and connections end, and reports run out.
CHECK_DEADLOCK FALSE
