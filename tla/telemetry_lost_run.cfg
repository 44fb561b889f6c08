CONSTANTS
    Runs = {r1}
    Subs = {s1}
    Unknown = Unknown
    None = None
    MaxSamples = 2
    MaxCrashes = 1
    Settings = {{"crash"}}
SPECIFICATION LiveSpec
PROPERTIES
    NoFinishedRunLost
CHECK_DEADLOCK FALSE
