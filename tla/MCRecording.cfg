SPECIFICATION Spec
CONSTANTS
    MaxStarts = 2
    MaxSegments = 2
    VideoChunks = 2
    MaxFaults = 1
    Callers = {c1}
INVARIANTS CompleteIsWhole SubtitlesInTime
PROPERTIES LossesKnown Finishes
CHECK_DEADLOCK FALSE
