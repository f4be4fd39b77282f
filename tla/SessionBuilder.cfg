SPECIFICATION ReadingSpec
CONSTANTS
    MaxBands = 3
    Configs <- AllConfigs
    BufSizes <- AllBufSizes
    TelemetryInterval = 500000
    DefaultLinePeriod = 1000
    ReadSizes = {5, 24, 65536}
    Leads = {0, 3}
INVARIANTS
    TypeOK
    EstimateSuffices
    BufferOnCadence
    ReturnsWholeSession
    ReadersFollowBuffer
PROPERTIES
    BufferFollowsIcd
    DeliveryFollowsIcd
