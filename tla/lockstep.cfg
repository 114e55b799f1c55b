SPECIFICATION Spec
CONSTANTS
  NTicks = 3
  FaultSets <- NoneOrAll
  OddTypes <- Odd
INVARIANTS
  TypeOK
  CleanMeansComplete
  RowsPairStates
  UnabortedLogLacksAtMostOne
  NoOrphan
  FirmwareCleanMeansPlantLeft
PROPERTIES
  RunsToCompletion
  EachProcessEnds
