SPECIFICATION RampSpec
CONSTANTS
    handler1 = handler1
    handler2 = handler2
    creator = creator
    buy1 = buy1
    buy2 = buy2
    sell = sell
    Call = {handler1, handler2, creator}
    Kind <- MCKind
    Credit = {10, 20}
    Held <- MCHeld
    Scale = 10
    ColumnLimit = 245
    InitialRow = 20
    MaxFailures = 1
    Removable = FALSE
    Handler = {handler1, handler2}
    Creator = {creator}
    Order = {buy1, buy2, sell}
    Side <- MCSide
    CryptoAmount <- MCCryptoAmount
    Event <- MCEvent
    MaxDeliveries <- MCMaxDeliveries
    Records = 2
    PutStatus = {"cancelled"}
    PutId = {sell}
INVARIANTS
    SingleCredit
CHECK_DEADLOCK FALSE
