CONSTANTS
    Apps = {"baresip", "recording"}
    MaxContainers = 2
    MaxReadings = 1
SPECIFICATION LiveGateway
CHECK_DEADLOCK FALSE
INVARIANT NoGuestLeftBehind
PROPERTY ContainerFreed
