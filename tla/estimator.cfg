SPECIFICATION Spec
CONSTANTS
  CalibSamples = 3
  CalibMaxGyro = 1
  EstDecim = 2
  ImuInvalidDebounce = 3
  Gyro <- Readings
INVARIANTS
  TypeOK
  BiasIsOfStillSamples
