SPECIFICATION PollingLedgerSpec
CONSTANTS
    reader = reader
    lister = lister
    credit = credit
    refresh = refresh
    Call = {reader, credit, refresh}
    Kind <- MCKind
    Credit <- MCCredit
    Held <- MCHeld
    Scale = 10
    ColumnLimit = 245
    InitialRow <- MCRow
    MaxFailures = 1
    Removable = TRUE
INVARIANTS
    LedgerTypeOK
    ReadShowsHeldBalance
    CreditsDoNotCompound
PROPERTIES
    PollingReaderCatchesUp
