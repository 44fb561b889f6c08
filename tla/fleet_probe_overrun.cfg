CONSTANTS
    Workers = {w1, w2}
    Runs = {r1}
    Stop = Stop
    None = None
    Settings = {{"poll"}}
SPECIFICATION Spec
INVARIANTS
    ProbeAlwaysAlone
CHECK_DEADLOCK FALSE
