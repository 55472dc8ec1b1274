CONSTANTS
  p1 = p1
  p2 = p2
  NoPeer = NoPeer
  NoView = NoView
  Peers <- MCPeers
  Views <- MCViews
  Inputs <- MCListedInputs
  BatchRows = 2
  MaxDelivered = 14
  Calls <- MCCalls
  Contents <- MCContents
  MaxChanges = 2
SPECIFICATION RelistSpec
INVARIANTS
  ListingTypeOK
  RowsOfTheirFile
  SteadyListingExact
  ListedInOrder
  BindForesees
  NoLocalFallback
