CONSTANTS
  p1 = p1
  p2 = p2
  NoPeer = NoPeer
  NoView = NoView
  Peers <- MCPeers
  Views <- MCViews
  Inputs <- TornPairs
  BatchRows = 2
  MaxDelivered = 14
SPECIFICATION ScanSpec
INVARIANTS
  NoRowLost
