CONSTANTS
  p1 = p1
  p2 = p2
  NoPeer = NoPeer
  NoView = NoView
  Peers <- MCPeers
  Views <- MCViews
  Inputs <- BadSingles
  BatchRows = 1
SPECIFICATION FairSpec
PROPERTIES
  Termination
