SPECIFICATION ContentSpec
CONSTANTS
    n1 = n1
    n2 = n2
    n3 = n3
    None = None
    Nodes = {n1, n2, n3}
    Links = {}
    Files = {}
    Folders = {d}
    First = d
    Writers = {n1}
    Clients = {}
    Targets = {}
    Restarting = {}
    MaxOps = 0
    Owner = n1
    RowWriters = {n1, n2}
    Types = {"Vector", "Collection"}
    Keys = {key}
    MaxTime = 2
    MaxWrites = 3
    MaxAsks = 2
INVARIANTS
  CopiesAgree
CHECK_DEADLOCK FALSE
