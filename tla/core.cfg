CONSTANTS
  SystemTitles <- MCSystemTitles
  Worlds <- MCWorlds
  Cards <- MCCards
  MaxChanges = 2
  Devices <- MCDevices
  MaxUms = 2
  LOG_BUF_SIZE = 4
  LogSizes = {1, 3, 4, 9}
  MaxMessages = 3
  ConfigKeys = {"overclock", "naming"}
  ConfigValues = {"on", "off"}
  None = None
  BadFile = BadFile
  MaxSets = 3
SPECIFICATION Spec
CHECK_DEADLOCK FALSE
INVARIANTS
  NoDanglingTitles
  TitlesMatchCard
  
  CloseLeavesNothing
  TabShowsItsCard
  
  ConfigSurvives
PROPERTIES
  UiFollows
  CloseReturns
