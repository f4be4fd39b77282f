SPECIFICATION FairSpec
CONSTANTS
    MaxBands = 4
    Scenes <- LoadedScenes
    LinePeriod = 1
    TelemetryInterval = 2
    Faults <- NoFaults
    Commands <- LiveCommands
    Backlog = 2
    MaxSessions = 0
    SessionIds = 3
INVARIANT StreamsWhatMatched
PROPERTIES
    DataClientServed
    CommandTaken
