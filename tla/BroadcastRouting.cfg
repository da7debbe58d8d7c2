SPECIFICATION RoutingSpec
CONSTANTS
    n1 = n1
    n2 = n2
    n3 = n3
    n4 = n4
    n5 = n5
    None = None
    Pairs = {}
    Actors = {}
    First <- Holds
    Bucket <- Halves
    Unstorable = {}
    Page = 1
    Slack = 0
    MaxFaults = 0
    Links <- Ring
    LightLinks <- ToLight
    Apps = {n3}
    Ids = {1, 2}
    Trial = {"Row", "Transaction", "Actor", "Custom", "Change"}
    Sendings <- Pair
    MaxBreaks = 1
    MaxExpired = 1
    FirstNode = n1
    UiClients = {}
    Limit <- Rooms
    NetworkIds = {0, 1, 2}
    Zero = 0
    InitialIds <- OneNet
    Sockets = {}
    Dials = {}
    Avoiding = {}
    MaxCuts = 0
    Nodes = {n1, n2, n3, n4, n5}
INVARIANTS
  HandledOnce
PROPERTIES
  ReachesAll
  AnswerReturns
CHECK_DEADLOCK FALSE
