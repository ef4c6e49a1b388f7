SPECIFICATION GpsSpec
CONSTANTS
    Timers = {"t1", "t2"}
    MaxCommands = 2
INVARIANT ThreadListens
CHECK_DEADLOCK FALSE
