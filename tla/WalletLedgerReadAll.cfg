SPECIFICATION LedgerSpec
CONSTANTS
    reader = reader
    lister = lister
    credit = credit
    refresh = refresh
    Call = {lister, refresh}
    Kind <- ListKind
    Credit <- MCCredit
    Held <- MCHeld
    Scale = 10
    ColumnLimit = 245
    InitialRow = 0
    MaxFailures = 1
    Removable = TRUE
INVARIANTS
    ReadAllShowsHeldBalance
