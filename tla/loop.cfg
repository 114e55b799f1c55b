SPECIFICATION Spec
CONSTANTS
  RcTimeout = 2
  RcFrameLostN = 1
  ArmMinGoodFrames = 2
  ImuInvalidDebounce = 2
  Steps = {1}
  MaxTime = 7
  CalibSamples = 2
  CalibMaxGyro = 1
  EstDecim = 2
  Gyro <- StillAndMoving
INVARIANTS
  MotorsNeedEvidence
  LedTellsTruth
  StopsForABadSampleOnly
PROPERTIES
  BiasFrozenInFlight
