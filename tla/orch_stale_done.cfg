CONSTANTS
    Runs = {r1, r2}
    Subs = {s1}
    None = None
    Transports = {"redis"}
    Services = {}
SPECIFICATION Spec
PROPERTIES
    DoneStopsOwnRun
