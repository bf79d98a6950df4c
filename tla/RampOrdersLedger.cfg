SPECIFICATION RampSpec
SYMMETRY HandlerSymmetry
CONSTANTS
    handler1 = handler1
    handler2 = handler2
    creator = creator
    buy1 = buy1
    buy2 = buy2
    sell = sell
    Call = {handler1, handler2, creator}
    Kind <- MCKind
    Credit = {10, 20}
    Held <- MovingHeld
    Scale = 10
    ColumnLimit = 2500
    InitialRow = 20
    MaxFailures = 1
    Removable = TRUE
    Handler = {handler1, handler2}
    Creator = {creator}
    Order = {buy1, buy2, sell}
    Side <- MCSide
    CryptoAmount <- MCCryptoAmount
    Event <- MCEvent
    MaxDeliveries <- MCMaxDeliveries
    Records = 1
    PutStatus = {"cancelled"}
    PutId = {sell}
INVARIANTS
    CreditsDoNotCompound
    AcknowledgedMeansCredited
PROPERTIES
    LedgerSpec
CHECK_DEADLOCK FALSE
