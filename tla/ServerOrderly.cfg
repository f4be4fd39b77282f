SPECIFICATION Spec
CONSTANTS
    MaxBands = 4
    Scenes <- GoodScenes
    LinePeriod = 1
    TelemetryInterval = 2
    Faults <- AllFaults
    Commands <- SubsetCommands
    Backlog = 1
    MaxSessions = 0
    SessionIds = 3
INVARIANTS
    TelemetryCadence
    ReadsInsideThePixel
    AnnouncedMatchesSent
    StreamedSceneIsCurrent
    StreamHonoursAcks
PROPERTY
    FreshSessionId
