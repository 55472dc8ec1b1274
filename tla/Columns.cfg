CONSTANTS
  Half = 4
  V4Size = 2
  Null = Null
  Paths <- MCPaths
  Prefixes <- MCPrefixes
  MaxRows = 3
SPECIFICATION Spec
INVARIANTS
  PathsReadBack
  ErrorRowsAreNull
  InetKeepsOrder
  ColumnsFitSchema
CHECK_DEADLOCK FALSE
