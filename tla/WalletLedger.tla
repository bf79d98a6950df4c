----------------------------- MODULE WalletLedger -----------------------------
(***************************************************************************)
(* One balance of one wallet: its wallet_balance row, its entries in the   *)
(* CacheService, and the calls that run on them at the same time:          *)
(*   "read"     CachedWalletBalanceService.getBalance                      *)
(*   "readAll"  CachedWalletBalanceService.getAllBalances, for this token  *)
(*   "list"     WalletBalanceService.getAllBalances, as getUserWallets calls *)
(*              it before a ramp order is recorded                         *)
(*   "credit"   WalletBalanceService.addBalance, as onramp.service calls it *)
(*   "refresh"  BalanceRefreshService.refreshWalletBalances, for this token *)
(* Every await on the database or the RPC node is a step boundary.         *)
(* Balances are integers in smallest units: a number of tokens t in the    *)
(* code is t * Scale here.                                                 *)
(***************************************************************************)
EXTENDS Integers, Sequences

CONSTANTS
    Call,        \* the concurrent calls
    Kind,        \* what each call is
    Credit,      \* the amounts a credit may ask for
    Held,        \* the balances the chain goes through
    Scale,       \* smallest units in a token (10^decimals)
    ColumnLimit, \* first value that numeric(18,8) cannot hold
    InitialRow,  \* the row before any call: a balance or NoRow
    MaxFailures, \* bound on failing queries and RPC calls
    Removable    \* WalletService.remove may be called

Billion == 1000000000
NoRow == -1  \* no row, or no entry for the token in an answer
Empty == -2  \* nothing cached, or nothing answered yet

ASSUME KindAssumption == 
    Kind \in [Call -> {"read", "readAll", "list", "credit", "refresh"}]
ASSUME HeldAssumption == Held \in Seq(Nat) /\ Len(Held) > 0
ASSUME AmountAssumption ==
    /\ {Scale, ColumnLimit} \subseteq Nat \ {0}
    /\ Credit \subseteq Nat /\ \A amount \in Credit : amount \div Scale < Billion
    /\ InitialRow \in Nat \cup {NoRow}
ASSUME BoundAssumption == MaxFailures \in Nat /\ Removable \in BOOLEAN

VARIABLES
    at,       \* the await a call stands at
    asked,    \* the amount a credit adds
    adding,   \* the calls that are in addBalance's own updateBalance
    seen,     \* what a call got from the chain: a position in Held, or 0
    found,    \* the calls whose updateBalance found a row
    shown,    \* the balance a call answered last
    row,      \* wallet_balance.balance
    cache,    \* the two cached values of this balance
    height,   \* the position in Held the chain is at
    active,   \* wallet.isActive
    failures, \* failed queries and RPC calls so far
    refused   \* the database has refused a balance

ledgerVars == <<at, asked, adding, seen, found, shown, row, cache, height, active, failures, refused>>
call  == <<asked, adding, seen, found>>
world == <<height, active, failures, refused>>

CacheKey == {"read", "readAll"}
Listing  == {"readAll", "list"}
Idle     == {"idle", "failed"}

\* getTokenBalance().uiAmount; no token account, and the fallback, count as 0.
UiAmount(n) == IF n = 0 THEN 0 ELSE Held[n]

\* getTokenBalance().amount taken for a number of tokens.
RawAmount(n) == UiAmount(n) * Scale

\* 10 to the number of digits of n.
PowersOfTen == {10, 100, 1000, 10000, 100000, 1000000, 10000000, 100000000, Billion}
Shift(n) == CHOOSE p \in PowersOfTen : p > n /\ \A q \in PowersOfTen : q > n => p <= q

\* `currentBalance + amount`, the amount being a string out of a numeric column:
\* its digits follow those of the balance.
Joined(balance, amount) == (balance \div Scale) * Shift(amount \div Scale) * Scale + amount

\* Mutated form: addBalance starts from the balance in the database.
ValueFromRow(c) ==
    CASE c \in adding -> Joined(IF row = NoRow THEN 0 ELSE row, asked[c])
      [] Kind[c] = "refresh" -> RawAmount(seen[c])
      [] OTHER -> UiAmount(seen[c])

\* What a call saves.
Value(c) ==
    CASE c \in adding -> Joined(UiAmount(seen[c]), asked[c])
      [] Kind[c] = "refresh" -> RawAmount(seen[c])
      [] OTHER -> UiAmount(seen[c])

\* What PostgreSQL can store: a number ("1.5" followed by "5.00000000" is none)
\* in the column's range.
Storable(c) ==
    /\ Value(c) < ColumnLimit
    /\ c \in adding => UiAmount(seen[c]) % Scale = 0

Goto(c, label) == at' = [at EXCEPT ![c] = label] /\ UNCHANGED call

\* The call returns, or throws: its locals are gone.
Return(c, label) ==
    /\ at' = [at EXCEPT ![c] = label]
    /\ asked' = [asked EXCEPT ![c] = 0]
    /\ adding' = adding \ {c}
    /\ seen' = [seen EXCEPT ![c] = 0]
    /\ found' = found \ {c}

\* A read puts its answer in the cache; getUserWallets does not look at the balances.
Answer(c, v) ==
    /\ IF Kind[c] \in CacheKey
       THEN /\ shown' = [shown EXCEPT ![c] = v]
            /\ cache' = [cache EXCEPT ![Kind[c]] = v]
       ELSE UNCHANGED <<shown, cache>>
    /\ Return(c, "idle")

-----------------------------------------------------------------------------
(* Mutated forms of definitions below; no specification uses them.             *)

\* addBalance without its guard on the amount.
InvokeUnguarded(c, amount) ==
    /\ at[c] \in Idle
    /\ IF Kind[c] \in CacheKey /\ cache[Kind[c]] # Empty
       THEN /\ shown' = [shown EXCEPT ![c] = cache[Kind[c]]]
            /\ Return(c, "idle")
       ELSE /\ at' = [at EXCEPT ![c] = "wallet"]
            /\ asked' = [asked EXCEPT ![c] = amount]
            /\ UNCHANGED <<adding, seen, found, shown>>
    /\ UNCHANGED <<row, cache, world>>

\* cache.set without a time to live.
ExpireNever(k) == FALSE /\ cache[k] # Empty /\ UNCHANGED ledgerVars

-----------------------------------------------------------------------------
LedgerTypeOK ==
    /\ at \in [Call -> Idle \cup {"wallet", "rpc", "load", "save", "record",
                                  "fallback", "database", "invalidate"}]
    /\ asked \in [Call -> Credit \cup {0}]
    /\ adding \subseteq {c \in Call : Kind[c] = "credit"}
    /\ \A c \in adding : asked[c] > 0
    /\ seen \in [Call -> 0 .. height]
    /\ found \subseteq Call
    /\ shown \in [Call -> Nat \cup {NoRow, Empty}]
    /\ row \in Nat \cup {NoRow}
    /\ cache \in [CacheKey -> Nat \cup {NoRow, Empty}]
    /\ height \in 1 .. Len(Held)
    /\ active \in BOOLEAN
    /\ failures \in 0 .. MaxFailures
    /\ refused \in BOOLEAN

LedgerInit ==
    /\ at = [c \in Call |-> "idle"]
    /\ asked = [c \in Call |-> 0]
    /\ adding = {}
    /\ seen = [c \in Call |-> 0]
    /\ found = {}
    /\ shown = [c \in Call |-> Empty]
    /\ row = InitialRow
    /\ cache = [k \in CacheKey |-> Empty]
    /\ height = 1
    /\ active = TRUE
    /\ failures = 0
    /\ refused = FALSE

-----------------------------------------------------------------------------
\* A call begins; a read is answered from the cache when it can be, and
\* addBalance refuses an amount that is not positive.
Invoke(c, amount) ==
    /\ at[c] \in Idle
    /\ IF Kind[c] \in CacheKey /\ cache[Kind[c]] # Empty
       THEN /\ shown' = [shown EXCEPT ![c] = cache[Kind[c]]]
            /\ Return(c, "idle")
       ELSE IF Kind[c] = "credit" /\ amount <= 0
       THEN Return(c, "failed") /\ UNCHANGED shown
       ELSE /\ at' = [at EXCEPT ![c] = "wallet"]
            /\ asked' = [asked EXCEPT ![c] = amount]
            /\ UNCHANGED <<adding, seen, found, shown>>
    /\ UNCHANGED <<row, cache, world>>

\* An exception at the await of c: getBalance and getAllBalances catch it and read
\* the database, addBalance and the refresh do not.
Throw(c) ==
    IF c \in adding \/ Kind[c] = "refresh" \/ at[c] \in {"fallback", "database"}
    THEN Return(c, "failed")
    ELSE Goto(c, IF at[c] = "wallet" /\ Kind[c] \in Listing THEN "database" ELSE "fallback")

\* walletRepository.findOne; a wallet that is not active raises NotFoundException.
LookUpWallet(c) ==
    /\ at[c] = "wallet"
    /\ IF active THEN Goto(c, "rpc") ELSE Throw(c)
    /\ UNCHANGED <<shown, row, cache, world>>

GetTokenBalance(c) ==
    /\ at[c] = "rpc"
    /\ at' = [at EXCEPT ![c] = "load"]
    /\ seen' = [seen EXCEPT ![c] = height]
    /\ UNCHANGED <<asked, adding, found, shown, row, cache, world>>

\* updateBalance and updateBalanceFromBlockchain: findOne, then save.
LoadRow(c) ==
    /\ at[c] = "load"
    /\ at' = [at EXCEPT ![c] = "save"]
    /\ found' = IF row = NoRow THEN found ELSE found \cup {c}
    /\ UNCHANGED <<asked, adding, seen, shown, row, cache, world>>

\* An UPDATE of the row that was found, an INSERT when none was: UNIQUE (wallet_id,
\* token_type) refuses the INSERT when another call was faster.
SaveRow(c) ==
    /\ at[c] = "save"
    /\ IF Storable(c) /\ (c \in found \/ row = NoRow)
       THEN /\ row' = Value(c)
            /\ Goto(c, IF Kind[c] = "refresh" THEN "invalidate" ELSE "record")
            /\ UNCHANGED refused
       ELSE Throw(c) /\ refused' = TRUE /\ UNCHANGED row
    /\ UNCHANGED <<shown, cache, height, active, failures>>

\* getBalance has its answer v: addBalance goes on to an updateBalance of its own.
GetBalanceReturns(c, v) ==
    IF Kind[c] = "credit"
    THEN /\ adding' = adding \cup {c}
         /\ at' = [at EXCEPT ![c] = "load"]
         /\ found' = found \ {c}
         /\ seen' = [seen EXCEPT ![c] = IF v = 0 THEN 0 ELSE @]
         /\ UNCHANGED <<asked, shown, cache>>
    ELSE Answer(c, v)

\* Mutated form: getBalance answers with the row as it stands when the history has
\* been written.
ReturnsTheRow(c) ==
    IF c \in adding THEN Return(c, "idle") /\ UNCHANGED <<shown, cache>>
    ELSE GetBalanceReturns(c, row)

UpdateBalanceReturns(c) ==
    IF c \in adding THEN Return(c, "idle") /\ UNCHANGED <<shown, cache>>
    ELSE GetBalanceReturns(c, Value(c))

\* No call reads balance_history, which recordBalanceChange appends to, and an
\* error of it is only logged: what is left of it is the await.
RecordBalanceChange(c) ==
    /\ at[c] = "record"
    /\ UpdateBalanceReturns(c)
    /\ UNCHANGED <<row, world>>

\* getBalanceFromDatabase: getRawOne returns the column as balance_balance, so
\* `result?.balance || 0` is 0 whatever the row holds.
GetBalanceFromDatabase(c) ==
    /\ at[c] = "fallback" /\ Kind[c] \notin Listing
    /\ GetBalanceReturns(c, 0)
    /\ UNCHANGED <<row, world>>

\* getAllBalances falls back to the row itself.
GetAllBalancesFromDatabase(c) ==
    /\ at[c] \in {"fallback", "database"} /\ Kind[c] \in Listing
    /\ Answer(c, row)
    /\ UNCHANGED <<row, world>>

\* What the catch blocks read instead of the chain.
FallBack(c) ==
    IF Kind[c] \in Listing THEN GetAllBalancesFromDatabase(c) ELSE GetBalanceFromDatabase(c)

InvalidateWalletCache(c) ==
    /\ at[c] = "invalidate"
    /\ cache' = [k \in CacheKey |-> Empty]
    /\ Return(c, "idle")
    /\ UNCHANGED <<shown, row, world>>

\* The query or RPC call c waits for throws.  A token whose fallback fails is left
\* out of getAllBalances, and Promise.all fails the refresh with any token's sync.
AwaitFails(c) ==
    /\ at[c] \notin Idle \cup {"record"}
    /\ failures < MaxFailures
    /\ failures' = failures + 1
    /\ IF at[c] = "fallback" /\ Kind[c] \in Listing THEN Answer(c, NoRow)
       ELSE Throw(c) /\ UNCHANGED <<shown, cache>>
    /\ UNCHANGED <<row, height, active, refused>>

\* The process dies and starts again: its calls and its cache, which is a Map, are gone.
Crash ==
    /\ failures < MaxFailures
    /\ failures' = failures + 1
    /\ at' = [c \in Call |-> "idle"]
    /\ asked' = [c \in Call |-> 0]
    /\ adding' = {}
    /\ seen' = [c \in Call |-> 0]
    /\ found' = {}
    /\ cache' = [k \in CacheKey |-> Empty]
    /\ UNCHANGED <<shown, row, height, active, refused>>

\* A cached value outlives its time to live: get() deletes it and misses.
Expire(k) ==
    /\ cache[k] # Empty
    /\ cache' = [cache EXCEPT ![k] = Empty]
    /\ UNCHANGED <<at, call, shown, row, world>>

\* WalletService.remove
Remove ==
    /\ Removable /\ active
    /\ active' = FALSE
    /\ UNCHANGED <<at, call, shown, row, cache, height, failures, refused>>

\* Somebody moves the wallet's tokens on the chain.
ChainMoves ==
    /\ height < Len(Held)
    /\ height' = height + 1
    /\ UNCHANGED <<at, call, shown, row, cache, active, failures, refused>>

-----------------------------------------------------------------------------
\* The steps of a call that was made.
Proceed(c) ==
    \/ LookUpWallet(c) \/ GetTokenBalance(c) \/ LoadRow(c) \/ SaveRow(c)
    \/ RecordBalanceChange(c) \/ FallBack(c) \/ InvalidateWalletCache(c)
    \/ AwaitFails(c)

Surroundings == Remove \/ ChainMoves \/ \E k \in CacheKey : Expire(k)

LedgerNext ==
    \/ \E c \in Call :
          \/ \E amount \in (IF Kind[c] = "credit" THEN Credit ELSE {0}) : Invoke(c, amount)
          \/ Proceed(c)
    \/ Crash
    \/ Surroundings

LedgerSpec == LedgerInit /\ [][LedgerNext]_ledgerVars

\* Queries and RPC calls answer or fail, and time passes.
FairLedgerSpec ==
    /\ LedgerSpec
    /\ \A c \in Call : WF_ledgerVars(Proceed(c))
    /\ \A k \in CacheKey : WF_ledgerVars(Expire(k))

\* ... and the clients that read keep doing so.
PollingLedgerSpec ==
    FairLedgerSpec /\ \A c \in Call : Kind[c] \in CacheKey => WF_ledgerVars(Invoke(c, 0))

-----------------------------------------------------------------------------
(* Properties. *)

HeldSoFar == {Held[n] : n \in 1 .. height}

\* A client that asks for one balance is shown a balance the chain has held, and so is
\* every client the cache answers after it: neither the smallest units that the refresh
\* writes into the row nor a credit reaches it.  After a query or an RPC call has failed,
\* a save was refused or the wallet was removed it may be shown 0 instead, which the
\* chain need never have held: the code's fallback answers 0 and never the row, which
\* its comments speak of.
ReadShowsHeldBalance ==
    LET fellBack  == failures > 0 \/ refused \/ ~active
        showable  == HeldSoFar \cup {Empty} \cup (IF fellBack THEN {0} ELSE {})
    IN  /\ \A c \in Call : Kind[c] = "read" => shown[c] \in showable
        /\ cache["read"] \in showable

\* Credits do not pile up, however many run at once and however often one is
\* repeated: addBalance starts from the chain, never from what the row says, so
\* the row is at most one credit away from a balance the chain has held.
CreditsDoNotCompound ==
    LET base == HeldSoFar \cup {0}
    IN  row \in {InitialRow} \cup base \cup {b * Scale : b \in base}
                \cup {Joined(b, a) : b \in base, a \in Credit}

\* A client that keeps asking is in the end shown what
\* the chain holds: no stale value that a slow read put in the cache behind an
\* invalidation stays there, and no smallest units of the row.
PollingReaderCatchesUp ==
    \A c \in Call : Kind[c] \in CacheKey => <>[](active => shown[c] = Held[height])

\* "wallet balances stay synchronized with the blockchain", the purpose of the
\* refresh: what getAllBalances shows is a balance the chain has held.  The code
\* does not have this property.
ReadAllShowsHeldBalance ==
    \A c \in Call : Kind[c] = "readAll" => shown[c] \in HeldSoFar \cup {0, NoRow, Empty}

=============================================================================
