SPECIFICATION DirectorySpec
CONSTANTS
    n1 = n1
    n2 = n2
    n3 = n3
    None = None
    Nodes = {n1, n2, n3}
    Links <- Line
    Files = {f}
    Folders = {d, e}
    First = d
    Writers = {n1}
    Clients = {}
    Targets = {None, e}
    Restarting = {n3}
    MaxOps = 1
    Owner = n1
    RowWriters = {}
    Types = {"Vector"}
    Keys = {}
    MaxTime = 1
    MaxWrites = 0
    MaxAsks = 0
PROPERTIES
  RowsKept
  KnownNearby
  CopiedEverywhere
CHECK_DEADLOCK FALSE
