SPECIFICATION TunnelSpec
CONSTANTS
    FrameSize = 3
    Counts = {2, 4}
    MaxSamples = 6
    MayFallSilent = TRUE
PROPERTY SilenceCompletes
CHECK_DEADLOCK FALSE
