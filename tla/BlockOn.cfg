CONSTANTS
  Calls = {c1, c2, c3}
  Cores = 2
  Requests = 2
  Retries = 1
SPECIFICATION Spec
PROPERTIES
  EveryCallReturns
