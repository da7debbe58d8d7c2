SPECIFICATION DeviceSpec
CONSTANTS
  Seeds = {s}
  Creds = {c1, c2}
  Nobody = Nobody
  MaxIndex = 3
  MaxRandom = 2
  MaxCrashes = 1
  Founder = founder
  Server = server
  Devices = {device}
  Uses = {{"Thoth"}, {"Renames"}, {"Tokens"}, {"Allocations"}, {"FileIds"},
          {"Chats", "Usernames"}, {"Items", "Subscription"}}
  Keys = {k1, k2}
  MaxFiles = 3
  MaxVersion = 1
  MaxInstalls = 1
  System = System
  Wallet = Wallet
  Links = {l1}
  MaxTxs = 3
  Identifiers = {i1, i2, i3}
  Cooldown = 2
  Forget = 3
  Limit = 2
  MaxTime = 6
  Room = 1
  MaxMessages = 4
  MaxArrivals = 1
INVARIANTS
  ProfileOpens
  
  ThothKnows
  NamesUnique
  ResultsTrue
  RewardsSpaced
  MessagesFlow
CHECK_DEADLOCK FALSE
