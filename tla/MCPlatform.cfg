SPECIFICATION PlatformSpec
CONSTANT None = None
CONSTANT NIFTY = NIFTY
CONSTANT BANKNIFTY = BANKNIFTY
CONSTANT Foreign = Foreign
CONSTANTS
  Settings <- MCSettings
  WeekDays = 4
  OpenAt = 2
  CloseAt = 7
  DayUnits = 10
  MaxNow = 40
  Order <- MCOrder
  CloseAtSessionEnd = TRUE
  MaxFaults = 1
  Findings = {}
  Sessions = {"live"}
  Ticks = {1}
  MaxReceived = 2
  MaxCalls = 3
  Paths <- MCPaths
  FileAt <- MCFileAt
  Configurations <- MCConfigurations
  MaxLives = 2
  Configured = {NIFTY, BANKNIFTY}
  GapWarning = 1
  GapCritical = 2
  StaleAfter = 1
  ChainStale = 1
  LatencyWarning = 1
  LatencyCritical = 2
  MaxFindings = 3
  MaxRecent = 2
  SessionLength = 1
  DayLength = 3
  MaxTime = 2
  BusEvents <- MCBusEvents
  FeedTicks <- MCFeedTicks
  MaxEvents = 2
  MaxWatches = 1
INVARIANTS
  ShutdownReachesEverything
  ReferenceIsOfClosedSessions
  StatusIsTrue
  ReportedSessionEnded
  EndingsAreReported
  FindingsAreTold
PROPERTIES
  FailedStartIsUndone
  BacktestEnds
CHECK_DEADLOCK FALSE
