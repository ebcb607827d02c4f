SPECIFICATION Spec
CONSTANTS
    Owners = {o1, o2, o3}
    First = o1
    SequencerCalls = {c1, c2, c3}
    MaxConcurrency = 1
    Users = {u1, u2}
    Queues = {q1, q2}
    FixedQueues = {q1}
    Outside = outside
    InvalidQueue = none
    NJobs = 3
    Target = 1
    Caller = {k1}
    Worker = {w1}
    Local = {w1}
    Self = Self
    MaxCalls = 1
    MaxYields = 1
    PipelineLength = 2
    MaxNext = 4
    Names = {p1, p2}
    FirstName = p1
    NRequirements = 1
    Readers = {r1, r2}
    ReadersOfAll = {r1}
    MaxChanges = 3
    Addresses = {a1, a2}
    AnyPort = {a2}
    AddCalls = {d1, d2}
    NoAddress = nowhere
    MaxSets = 2
    MaxFailures = 1
    Servers = {s1, s2}
    Known = {s1}
    Ops = {x1, x2}
    Nobody = nobody
    MaxErrors = 1
    Periodic = {t1, t2}
    Exact = {}
    Plain = {t3}
    Abortable = {t4}
    AtExit = {t3}
    EveryPeriod = every
    Period = 2
    BatchSize = 1
    Mortal = {t1}
    MaxLate = 1
    MaxUsed = 2
INVARIANTS TypeOK DeliveredOnce ErrorsAreSeen SlotsInOrder DeletedIsClean NoSleepWithWork ValuesInOrder PermissionsFollow TrustIsKept
PROPERTIES EveryCallAnswered EndsForAll EveryJobRuns
\* Promises are dropped, calls run out, sequencers and actors are destroyed.
CHECK_DEADLOCK FALSE
