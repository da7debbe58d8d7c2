SPECIFICATION Spec
CONSTANTS
    a = a
    b = b
    net = net
    nobody = nobody
    Actors <- MCActors
    Network = net
    Minter = b
    Nobody = nobody
    Txs <- MCLedger
    Opening <- MCOpening
    Own <- MCOwn
    Top = 11
    Interval = 4
    Lag = 3
    Diff = 3
    LookBack = 5
    MaxReward = 3
    Crashes = 1
INVARIANTS
  CacheExact
  NotOverdrawn
  ControlsExact
  SectionsRecorded
