SPECIFICATION DeskSpec
CONSTANTS
    None = None
    InstrumentOrder <- MCInstrumentOrder
    TradesOf <- MCTradesOf
    FillsAtOnce = {"NONE", "PART", "ALL"}
    MaxOpened = 2
    Requests <- MCRequests
    MaxDelayed = 1
    MaxResets = 1
PROPERTY
    RetryKeepsReceipt
