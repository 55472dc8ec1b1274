SPECIFICATION Spec
CONSTANTS
  Objects <- MCObjects
  Cases <- MCCases
INVARIANTS
  UrlStyleWins
