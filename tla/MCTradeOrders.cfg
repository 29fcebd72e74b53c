SPECIFICATION TradeOrdersSpec
CONSTANTS
    None = None
    RiskSnapshots <- MCRiskSnapshots
    FillPolicies = {"IMMEDIATE_FULL", "MANUAL_CONFIRMATION"}
    FillPrices = {4}
    HistoryLimit = 1
    MaxSubmitted = 2
    MaxRejected = 1
    AutoInvalidation = {TRUE}
    ObjectiveModes = {"MARK"}
    MinRemaining = 1
    MarketPrices = {2}
    PosHistoryLimit = 1
    Executions = {}
    MaxTime = 1
    MaxEvents = 2
    AllowPartialOpen = {FALSE}
    MaxProcessed = 3
    OrderIds = {"o1", "o2"}
    BrokerIds = {"b1"}
    Prices = {1, 2}
    Snapshots <- MCSnapshots
    Contents <- MCContents
    MaxStamp = 4
INVARIANT
    CoordinatorIsTruthful
PROPERTIES
    ImplementsDryRunTrade
    OrdersAreSound
    ImplementsOrderBook
CHECK_DEADLOCK FALSE
