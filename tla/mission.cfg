SPECIFICATION MissionSpec
CONSTANTS
  RcTimeout = 100
  RcFrameLostN = 3
  ArmMinGoodFrames = 10
  ImuInvalidDebounce = 5
  Steps = {0, 1}
  MaxTime = 3300
  CalibSamples = 200
  CalibMaxGyro = 1
  EstDecim = 2
  Gyro <- Readings
  Still = 1
  Moving = 2
  Missions <- AllMissions
INVARIANTS
  MotorsFollowScript
  FailsafeOnTime
  CommandSurvivesTheLink
PROPERTY RunsTheControlLoop
