SPECIFICATION SensorSpec
CONSTANTS
    Counts = {1, 16}
    MaxUses = 3
INVARIANT DisabledCloses
CHECK_DEADLOCK FALSE
