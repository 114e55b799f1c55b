SPECIFICATION Spec
CONSTANTS
  RcTimeout = 2
  RcFrameLostN = 1
  ArmMinGoodFrames = 2
  ImuInvalidDebounce = 2
  Callers <- FlightAndTests
  Steps = {1}
  MaxTime = 4
INVARIANTS
  TypeOK
  LatchesAgree
  ArmedIsClean
  StreakIsFresh
  StandingFaultIsActive
PROPERTIES
  LatchIsSticky
  OnlyRequestOverridesFault
  ImplementsGate
