SPECIFICATION ComponentsSpec
CONSTANTS
    None = None
    RiskSnapshots <- MCRiskSnapshots
    FillPolicies = {"IMMEDIATE_FULL", "IMMEDIATE_PARTIAL", "MANUAL_CONFIRMATION"}
    FillPrices = {4, 5}
    HistoryLimit = 3
    MaxSubmitted = 3
    MaxRejected = 2
    AutoInvalidation = {TRUE, FALSE}
    ObjectiveModes = {"MARK", "PARTIAL", "FULL"}
    MinRemaining = 1
    MarketPrices = {2, 5, 6}
    PosHistoryLimit = 2
    Executions <- MCExecutions
    MaxTime = 1
    MaxEvents = 2
    FlatTolerance = 1
    CurveLimit = 2
    ClosedPositions = {"p1", "p2", "p3"}
    Gains <- MCGains
    MinimumTrends = {1, 3}
    MaxRecorded = 3
    Callers = {"INTEGRATION", "ANY"}
    RequestIds = {"i1", "i2"}
    Contents = {"c1", "c2"}
    Inputs = {"x1", "x2"}
    Found <- MCFound
    InstrumentOrder <- MCInstrumentOrder
    SafetyInputs <- MCSafetyInputs
    NoInput <- MCNoInput
    Missing <- MCMissing
    ManualRelease <- MCManualRelease
    LossPercent = 2
    DrawdownPercent = 10
    MaxTrades = 3
    MaxLosses = 2
    WarningAfter = 1
    StaleAfter = 2
    IncidentLimit = 3
    Disciplines = {FALSE}
    MaxTimestamp = 1
INVARIANT
    KillSwitchTakesEffect
