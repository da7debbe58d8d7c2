SPECIFICATION LiveSpec
CONSTANTS
    p1 = p1
    p2 = p2
    Top = 5
    InitModes <- Both
    BackOff = 1
    Batch = 2
    LightLag = 1
    Ahead = 1
    PostedBound = 1
    LightBound = 1
    Settings <- MCSettings
INVARIANTS
    SyncRetries
    ReadyAgrees
PROPERTIES
    SyncEnds
