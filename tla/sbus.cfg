SPECIFICATION Spec
CONSTANTS
  FrameLen = 5
  Buf = 10
  MaxStream = 11
INVARIANTS
  TypeOK
  ChunkingIsInvisible
PROPERTIES
  ShortBurstsLoseNothing
  NoFrameIsOverwritten
