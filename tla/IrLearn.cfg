SPECIFICATION FairSpec
CONSTANTS
  r1 = r1
  r2 = r2
  on = on
  off = off
  long1 = long1
  long2 = long2
  short = short
  cool = cool
  heat = heat
  none = none
  Files = {r1, r2}
  Names = {on, off}
  FileNames <- MCFileNames
  LineNames <- MCLineNames
  Waves = {long1, short}
  ShortWaves = {short}
  NoWave = none
  AcSettings = {cool, heat}
  CommandProtocols = {r2}
  HavcProtocols = {r2}
  Messages <- LearnMessages
  MaxOpen = 2
  RingCap = 2
  MaxMsgs = 5
  MaxFrames = 2
  MaxBle = 0
  Spaced = FALSE
CHECK_DEADLOCK FALSE
PROPERTIES AcceptConsumed LearnModeListens
