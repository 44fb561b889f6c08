CONSTANTS
    Modes = {"closed"}
    Window = 2
    MaxOutstanding = 1
    Burst = 1
    MaxSent = 4
    Faults = {"crash"}
SPECIFICATION LiveSpec
PROPERTIES
    HaltEndsEveryBot
CHECK_DEADLOCK FALSE
