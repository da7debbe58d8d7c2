SPECIFICATION ActorsSpec
CONSTANTS
    n1 = n1
    n2 = n2
    n3 = n3
    n4 = n4
    n5 = n5
    None = None
    Pairs <- Both
    Actors = {1, 2, 3}
    First <- Holds
    Bucket <- Halves
    Unstorable = {2}
    Page = 1
    Slack = 0
    MaxFaults = 2
    Links = {}
    LightLinks = {}
    Apps = {}
    Ids = {}
    Trial = {}
    Sendings <- Silence
    MaxBreaks = 0
    MaxExpired = 0
    FirstNode = n1
    UiClients = {}
    Limit <- Rooms
    NetworkIds = {0, 1, 2}
    Zero = 0
    InitialIds <- OneNet
    Sockets = {}
    Dials = {}
    Avoiding = {}
    MaxCuts = 0
    Nodes = {n1, n2}
INVARIANTS
  IndexAgrees
PROPERTIES
  FirstSyncEnds
  ActorsSpread
CHECK_DEADLOCK FALSE
