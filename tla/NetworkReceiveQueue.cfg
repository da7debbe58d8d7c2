SPECIFICATION FairSpec
CONSTANTS
  m1 = m1
  m2 = m2
  p1 = p1
  p2 = p2
  None = None
  Producers = {t1, t2}
  Messages <- MCMessages
  Peers <- MCPeers
  MessageSize <- MCMessageSize
  PeerSize <- MCPeerSize
  Hash <- MCHash
  MaxMessages = 2
  MaxBytes = 6
  Quantum = 2
  MaxStages = 2
  MaxPackets = 3
INVARIANTS
  NoLostWakeup
  BorrowedItemStays
  AcceptedIsWaiting
  StopJoinsAcceptedWork
PROPERTIES
  ImplementsSerialReceiver
  EveryItemRetired
