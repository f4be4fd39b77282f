SPECIFICATION FairSpec
CONSTANTS
    MaxBands = 4
    Scenes <- RottenScenes
    LinePeriod = 1
    TelemetryInterval = 2
    Faults <- StopFaults
    Commands <- OddCommands
    Backlog = 1
    MaxSessions = 4
    SessionIds = 3
INVARIANTS
    TypeOK
    EndedSessionsAreWhole
    BlocksUntilMaxSessions
PROPERTIES
    StreamFollowsIcd
    Stops
