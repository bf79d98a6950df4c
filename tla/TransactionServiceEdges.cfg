SPECIFICATION Spec
CONSTANTS
    alice = alice
    bob = bob
    r1 = r1
    carol = carol
    r2 = r2
    r3 = r3
    Request = {r1, r2, r3}
    User = {alice, bob, carol}
    External = External
    Nobody = Nobody
    Order <- EdgeOrder
    WalletOwner = {alice, bob, carol}
    BalanceRow = {alice, bob}
    InitialLedger <- EdgeLedger
    InitialHeld <- EdgeHeld
    Scale = 10
    Ulps = 10
    ColumnLimit = 950
    MaxRetries = 2
    PoolSize = 1
    PlaceholdersSeeded = TRUE
    MaxCrashes = 0
INVARIANTS
    RecordMatchesAnswer
    NoPhantomDebit
    ConnectionsAccounted
CHECK_DEADLOCK FALSE
