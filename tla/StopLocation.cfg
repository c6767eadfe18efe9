CONSTANTS
    MaxThreads = 2
    MaxEvents = 2
    MaxStops = 2
SPECIFICATION Spec
INVARIANT FirstLocationIsStop
CHECK_DEADLOCK FALSE
