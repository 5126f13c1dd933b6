SPECIFICATION FairSpec
CONSTANTS
  r1 = r1
  r2 = r2
  on = on
  off = off
  long1 = long1
  long2 = long2
  short = short
  cool = cool
  heat = heat
  none = none
  Files = {r1, r2}
  Names = {on, off}
  FileNames <- MCFileNames
  LineNames <- MCLineNames
  Waves = {long1}
  ShortWaves = {}
  NoWave = none
  AcSettings = {cool, heat}
  CommandProtocols = {r2}
  HavcProtocols = {r2}
  Messages <- ListenMessages
  MaxOpen = 2
  RingCap = 2
  MaxMsgs = 3
  MaxFrames = 0
  MaxBle = 0
  Spaced = FALSE
CHECK_DEADLOCK FALSE
PROPERTIES LearnModeListens
