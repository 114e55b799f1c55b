SPECIFICATION Spec
CONSTANTS
  One = 4
  nan = nan
  NaN = nan
  Command <- OpenLoopCommands
  Kp = 1
  Ki = 1
  ILimit = 1
  OutLimit = 2
  MaxRate = 2
  MaxAtt = 1
  AttKp = 1
  AttLimit = 2
  Throttle = {0, 4}
  Stick <- Sticks
  Rate <- Rates
  Angle <- Angles
  DTerm <- DTerms
INVARIANTS
  TypeOK
  SingleAxisIsKept
  TorqueIsKept
  ShiftSignTellsSide
  FullAuthority
PROPERTIES
  HeldOnTheSaturatedSide
