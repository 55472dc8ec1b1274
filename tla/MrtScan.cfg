CONSTANTS
  p1 = p1
  p2 = p2
  NoPeer = NoPeer
  NoView = NoView
  Peers <- MCPeers
  Views <- MCViews
  Inputs <- LongAndShort
  BatchRows = 2
  MaxDelivered = 20
SPECIFICATION FairScanSpec
INVARIANTS
  TypeOK
  DecoderInSync
  CheckpointOnBoundaryUnlessTorn
  RowsFaithful
  InScanOrder
  NothingLost
PROPERTIES
  CheckpointAdvances
  TerminatesUnlessBad
  KeepsPromise
