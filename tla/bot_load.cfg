CONSTANTS
    Modes = {"closed", "open"}
    Window = 2
    MaxOutstanding = 1
    Burst = 2
    MaxSent = 3
    Faults = {"crash", "silent", "twice", "garbage"}
    MaxFaults = 1
    Rates = 2
    Troubles = {"none", "xadd", "cancel"}
    NoRec = NoRec
SPECIFICATION PhaseLiveSpec
INVARIANTS
    PhaseTypeOK
    Accounting
    PermitsConserved
    InFlightBound
    ReportedOnce
    FinalComplete
    NoSmear
    PhaseInv
PROPERTIES
    HaltEndsBot
    PhaseEnds
CHECK_DEADLOCK FALSE
