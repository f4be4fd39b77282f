SPECIFICATION Spec
CONSTANTS
    MaxBands = 4
    Scenes <- StaleScenes
    LinePeriod = 1
    TelemetryInterval = 2
    Faults <- NoFaults
    Commands <- NextCommands
    Backlog = 1
    MaxSessions = 0
    SessionIds = 3
INVARIANT StreamedSceneIsCurrent
