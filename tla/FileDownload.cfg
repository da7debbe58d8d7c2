SPECIFICATION Spec
CONSTANTS
    p1 = p1
    p2 = p2
    Order <- Two
    N = 3
    Holdings <- Copies
    MaxRequests = 2
    MaxTrouble <- OneTrouble
INVARIANTS
  ReadyIntact
PROPERTIES
  DownloadEnds
CHECK_DEADLOCK FALSE
