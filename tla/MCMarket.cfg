SPECIFICATION MarketSpec
CONSTANT None = None
CONSTANT NoOwner = NoOwner
CONSTANTS
  t1 = t1
  t2 = t2
  nifty = nifty
  banknifty = banknifty
  s1 = s1
  s2 = s2
  Sessions = {s1, s2}
  First = s1
  Subscriptions <- MCSubscriptions
  Configured <- MCConfigured
  Installed = {nifty}
  RawTicks <- MCRawTicks
  MaxConnections = 2
  MaxQueue = 3
  MaxTicks = 1
  MaxDisturbances = 1
  MaxChanges = 1
  Universes = {"u1", "u2"}
  EntriesOf <- MCEntriesOf
  MaxOperations = 3
  MaxAge = 1
  MaxChainTime = 2
  OpenInterest = {1}
  HistoryLimit = 2
  MaxSwitches = 4
  Underlyings = {nifty, banknifty}
  MaxTraded = 2
  MaxDay = 1
  Indices = {nifty, banknifty}
  UniversesOf <- MCUniversesOf
  Timeframes <- MCTimeframes
  Width <- MCWidth
  DayLength = 6
  Opening = 2
  MaxTime = 7
  Lag = 1
  Prices = {1}
  Volumes = {0, 1}
  Contents <- MCContents
  AdrPeriod = 1
  Own = n
  Others = {b}
  StrictGaps = TRUE
  MaxRecords = 2
  MaxDelivered = 3
  MaxCommands = 1
  MaxWarmups = 2
  LeftBars = 1
  RightBars = 1
  Closed = 5
  Candles <- MCCandles
INVARIANTS
  FeedIsHonest
  ChainsAreSound
  VolumeCountedOnce
  OwnedTokensAccountedFor
  PriceActionIsSound
PROPERTIES
  StaleConnectionEnds
  HistoryIsSound
CHECK_DEADLOCK FALSE
