CONSTANTS
    Runs = {r1, r2}
    Subs = {s1}
    Unknown = Unknown
    None = None
    MaxSamples = 2
    MaxCrashes = 1
    Settings = {{"gap"}, {"crash"}, {"db", "slow"}}
SPECIFICATION LiveSpec
INVARIANTS
    TelemetryInv
    RowsComplete
PROPERTIES
    FinishedStay
    BoardReturns
    DonePersisted
CHECK_DEADLOCK FALSE
