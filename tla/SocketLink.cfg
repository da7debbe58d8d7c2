SPECIFICATION LinksSpec
CONSTANTS
    n1 = n1
    n2 = n2
    n3 = n3
    n4 = n4
    n5 = n5
    None = None
    Pairs = {}
    Actors = {}
    First <- Holds
    Bucket <- Halves
    Unstorable = {}
    Page = 1
    Slack = 0
    MaxFaults = 0
    Links = {}
    LightLinks = {}
    Apps = {}
    Ids = {}
    Trial = {}
    Sendings <- Silence
    MaxBreaks = 0
    MaxExpired = 0
    FirstNode = n1
    UiClients = {n3}
    Limit <- Rooms
    NetworkIds = {0, 1, 2}
    Zero = 0
    InitialIds <- TwoNets
    Sockets = {1, 2}
    Dials <- Asked
    Avoiding <- Kept
    MaxCuts = 1
    Nodes = {n1, n2, n3}
INVARIANTS
  OneLinkPerPeer
PROPERTIES
  LinkSettles
CHECK_DEADLOCK FALSE
