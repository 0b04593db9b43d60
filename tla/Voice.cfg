CONSTANTS
  Messages = {"m1", "m2"}
  Chunks = 2
  Guard = 2
  Room = 1
  StartFrames = 1
  SilenceFrames = 1
  MinSpeech = 1
  MaxFrames = 3
  PreRoll = 1
  TurnGap = 2
  ContinuationGap = 3
  MaxTurn = 3
  MaxBacklog = 1
SPECIFICATION FairSpec
INVARIANTS
  FloorIsExact
  HearsItselfOnlyLate
  BargeInIsObeyed
PROPERTIES
  FloorIsGivenBack
CHECK_DEADLOCK FALSE
