SPECIFICATION Spec
CONSTANTS
  Objects <- MCObjects
  Cases <- MCCases
INVARIANTS
  SecretOfItsUrl
  ListingIsResolution
  PlainHttpIsAllowed
  LocationOverrides
