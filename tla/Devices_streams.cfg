SPECIFICATION Spec
CONSTANTS
    e1 = e1
    e2 = e2
    Refs = {e1, e2}
    Effects = {"AEC", "NS"}
    Period = 4
    Requests = {1, 3, 6}
    Dry = 1
    FrameSize = 3
    Counts = {1, 2, 4, 7}
    MaxSamples = 7
    MayFallSilent = FALSE
    Sizes = {1, 2}
    Pictures = {"p1"}
    Timers = {"t1", "t2"}
    MaxCommands = 2
    BufferSize = 5
    MaxLine = 13
INVARIANTS TypeOK EchoRefSound EchoBothSides ActiveRuns HdmiRouted CaptureInside CallbackHasBuffers SamplesInOrder FrameFits StreamsForPreview StatusInOrder FixNotLost ParsedWhole
PROPERTIES DeviceReleased StopReturns JoinReturns
CHECK_DEADLOCK FALSE
