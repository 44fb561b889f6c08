CONSTANTS
    Workers = {w1, w2}
    Runs = {r1, r2}
    Stop = Stop
    None = None
    Settings = {{}, {"late", "poll"},
                {"engine", "worker", "timeout", "stop"},
                {"worker", "stop", "away"},
                {"poll", "worker", "timeout", "away", "held"},
                {"late", "worker", "timeout"}}
SPECIFICATION LiveSpec
INVARIANTS
    OneReport
    ProbeAlone
    EqualShares
    FleetInv
PROPERTIES
    LeaderReports
CHECK_DEADLOCK FALSE
