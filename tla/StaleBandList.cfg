SPECIFICATION SpecBoth
CONSTANTS
    MaxBands = 2
    Scenes <- TwoScenes
    LinePeriod = 1
    TelemetryInterval = 3
    Faults <- NoFaults
    Commands <- ClientCommands
    Backlog = 1
    MaxSessions = 0
    SessionIds = 2
    MaxRead = 2
    SceneKeys = {1}
    MaxKeys = 3
    Window = 2
INVARIANT RequestsNameSceneBands
