SPECIFICATION Spec
CONSTANTS
    MaxBands = 4
    Scenes <- GoodScenes
    LinePeriod = 1
    TelemetryInterval = 2
    Faults <- NoFaults
    Commands <- SwapCommands
    Backlog = 1
    MaxSessions = 0
    SessionIds = 3
INVARIANT AnnouncedMatchesSent
