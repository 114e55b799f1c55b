SPECIFICATION Spec
CONSTANTS
  RcTimeout = 2
  RcFrameLostN = 1
  ArmMinGoodFrames = 2
  ImuInvalidDebounce = 2
  Steps = {1}
  MaxTime = 6
  CalibSamples = 2
  CalibMaxGyro = 1
  EstDecim = 2
  Gyro <- StillAndMoving
PROPERTIES
  StaysArmedWhileSwitchOn
