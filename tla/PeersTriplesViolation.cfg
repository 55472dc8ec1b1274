CONSTANTS
  p1 = p1
  p2 = p2
  NoPeer = NoPeer
  NoView = NoView
  Peers <- MCPeers
  Views <- MCViews
  Inputs <- Tables
SPECIFICATION Spec
INVARIANTS
  EveryTripleListed
