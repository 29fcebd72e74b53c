SPECIFICATION TradeOrdersSpec
CONSTANTS
    None = None
    RiskSnapshots <- TradeAndWait
    FillPolicies = {"MANUAL_CONFIRMATION"}
    FillPrices = {4}
    HistoryLimit = 1
    MaxSubmitted = 1
    MaxRejected = 1
    AutoInvalidation = {TRUE}
    ObjectiveModes = {"MARK"}
    MinRemaining = 1
    MarketPrices = {2, 5}
    PosHistoryLimit = 1
    Executions = {}
    MaxTime = 1
    MaxEvents = 1
    AllowPartialOpen = {TRUE}
    MaxProcessed = 1
    OrderIds = {"o1", "o2"}
    BrokerIds = {"b1"}
    Prices = {1, 2}
    Snapshots <- MCSnapshots
    Contents <- MCContents
    MaxStamp = 4
INVARIANT
    FillsCountedOnce
CHECK_DEADLOCK FALSE
