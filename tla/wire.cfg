SPECIFICATION Spec
CONSTANTS
  Messages <- AllMessages
  Flips <- SomeFlips
  MaxHits = 1
INVARIANTS
  SameVerdict
  OnlyIntactIsAccepted
  ContentSurvives
  HandshakeTellsBuilds
CHECK_DEADLOCK FALSE
