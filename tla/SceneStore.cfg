SPECIFICATION Spec
CONSTANTS
    MaxBands = 1
    NumDirs = 4
    Hidden = {2}
    Capacity = 2
    Images <- AllImages
    Earlier <- EarlierImages
    MaxConversions = 2
INVARIANTS
    StoreTypeOK
    ScanListsScenes
    FirstConversionIsWhole
    LoadsAreNotTorn
    LastConversionLoads
