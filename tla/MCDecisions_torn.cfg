SPECIFICATION DecisionSpec
CONSTANTS
  None = None
  Instrument = "NIFTY"
  Requests <- MCRequests
  Policies <- MCPolicies
  Times = {2, 3}
  AuthRequests <- MCAuthRequests
  Handoffs <- MCHandoffs
  MaxInterruptions = 0
  LimitedInstruments = {"n", "b"}
  DefaultPolicy <- MCRiskPolicy
  RiskPolicies <- MCRiskPolicies
  Accounts <- MCAccounts
  ProposedPlans <- MCProposedPlans
  RiskTimes = {5}
  DayLength = 4
  MaxTrades = 2
  MaxLosses = 1
  ReviewInputs <- MCReviewInputs
  ReviewPolicy <- MCReviewPolicy
  Configuration <- MCConfiguration
  Strategies <- MCStrategies
  TradeEvidence <- MCTradeEvidence
  EvaluationTimes = {1}
  ClockLength = 4
  Results <- MCResults
  MaxPlans = 2
  GatePolicy <- MCGatePolicy
  GateAccounts <- MCGateAccounts
  Trades <- MCTrades
  Signals <- MCSignals
  RecordedDecisions <- MCRecorded
  Stamps = {1}
  Plans <- MCPlans
  Candles <- MCCandles
  PaperConfig <- MCConfig
  TickPrices = {2, 4, 5, 7}
  Opinions = {None, "no_trade"}
  Late = 1
  SessionLength = 2
  DayTimes = 3
  MaxClock = 2
  Persistent = TRUE
  MaxLines = 2
  MaxEvents = 7
INVARIANT AcceptedIsReadAgain
CHECK_DEADLOCK FALSE
