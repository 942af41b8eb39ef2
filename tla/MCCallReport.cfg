CONSTANTS
    Apps = {"baresip"}
    MaxContainers = 2
    MaxReadings = 1
    Above = TRUE
SPECIFICATION Spec
CHECK_DEADLOCK FALSE
INVARIANT ReportTypeOK
INVARIANT CountedOnceAsItWas
INVARIANT OwnVideo
PROPERTY KeptUntilCounted
PROPERTY KeepsLedger
