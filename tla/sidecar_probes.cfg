SPECIFICATION FairSpec
CONSTANTS
  Endpoints = {"e1", "e2"}
  Settings = {"game", "mark", "part", "http", "m1", "m2", "odd", "unset", "empty"}
  Keys = {"idle", "cost", "http"}
  Data = {"free", "busy", "7"}
  Numbers = {"7"}
  Marks = {"true", "false", "x", "10", "-10"}
  Config <- MCConfig
  CanAnswer <- MCCanAnswer
  Steps = 2
  MaxTimers = 2
  MaxChanges = 1
  Binaries = {"proxy", "binary"}
  Refused = {"unknown"}
  Configurations <- MCConfigurations
INVARIANTS
  TypeOK
  PodMarksAreWhole
  ObjectFollowsPod
  CachedPodExpires
  EveryPluginStarted
  CleanExitIsABinarys
PROPERTIES
  MarkingRefinement
  ReportEndsProcess
  AnswersComeToStand
CHECK_DEADLOCK FALSE
