SPECIFICATION ProbeSpec
CONSTANTS
    Ids <- LoadIds
    Prices = {1, 2, 3}
    MaxQty = 6
    MaxArrivals = 9
    None = None
    Engines = {"cpp"}
    Reuse = {FALSE}
    Conns = {"p", "a", "b"}
    Threads = 2
    Iterations = 3
    Prober = "p"
    Script <- LoadScript
    Modes = {"probe"}
INVARIANTS AckFirst
CHECK_DEADLOCK FALSE
