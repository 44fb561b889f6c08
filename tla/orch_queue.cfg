CONSTANTS
    Runs = {r1, r2}
    Subs = {s1, s2}
    None = None
    Transports = {"redis", "grpc"}
    Services = {"docker", "redis"}
SPECIFICATION LiveSpec
INVARIANTS
    TypeOK
    LaneExclusive
    DoneIsReported
    LaneInv
PROPERTIES
    QueueKept
    EveryRunResolved
    LaneReleased
    SandboxStopped
