CONSTANTS
  Null = Null
  Elements <- MCElements
  MaxLen = 4
  Modulus = 4
  Texts <- MCTexts
SPECIFICATION Spec
INVARIANTS
  PrependsAreRepeats
  ContainsExact
  CommunitiesToldApart
