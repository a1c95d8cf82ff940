CONSTANTS
  Empty = ""
  Messages = {"hello", "hi"}
  MaxEvents = 1
  Period = 2
  MaxDialogs = 1
SPECIFICATION FairSpec
INVARIANTS
  AppTypeOK
  SentAsConfirmed
  ModulesOutliveDrawing
  ResultIsVerdict
  NothingLeft
PROPERTIES
  ExitEnds
  DisplayCatchesUp
CHECK_DEADLOCK FALSE
