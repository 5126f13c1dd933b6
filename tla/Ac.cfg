CONSTANTS
  Requests <- MCRequests
  MaxOptions <- MCMaxOptions
SPECIFICATION Spec
INVARIANTS
  TypeOK
  SentAsAsked
  SettingsAgree
  FramesWhole
