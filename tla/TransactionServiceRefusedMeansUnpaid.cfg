SPECIFICATION Spec
CONSTANTS
    alice = alice
    bob = bob
    r1 = r1
    carol = carol
    r2 = r2
    r3 = r3
    Request = {r1, r2}
    User = {alice, bob}
    External = External
    Nobody = Nobody
    Order <- MCOrder
    WalletOwner <- MCWalletOwner
    BalanceRow <- MCWalletOwner
    InitialLedger <- MCLedger
    InitialHeld <- MCHeld
    Scale = 10
    Ulps = 10
    ColumnLimit = 1000
    MaxRetries = 2
    PoolSize = 2
    PlaceholdersSeeded = TRUE
    MaxCrashes = 1
INVARIANT
    RefusedMeansUnpaid
CHECK_DEADLOCK FALSE
