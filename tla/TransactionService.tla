------------------------- MODULE TransactionService -------------------------
(***************************************************************************)
(* TransactionService.createTransaction, the endpoint that moves money:    *)
(* validate, resolve the addresses, look at the balance, open a database   *)
(* transaction, insert the record, send the transfer to Solana (with       *)
(* retries), write the result and the two wallet balances, commit.         *)
(*                                                                         *)
(* Every await of the code is a step boundary, so the steps of concurrent  *)
(* requests, the chain and PostgreSQL interleave.  PostgreSQL is modelled  *)
(* at READ COMMITTED: a transaction reads committed rows and its own       *)
(* writes, holds a row lock from its UPDATE to its end, and is aborted     *)
(* when it closes a cycle of lock waits.                                   *)
(***************************************************************************)
EXTENDS Integers, FiniteSets, FiniteSetsExt

CONSTANTS
    Request,          \* the POST /transactions calls
    User,             \* users; walletService gives each at most one wallet
    External,         \* a recipient given by address (toExternalAddress)
    Nobody,           \* a recipient that fails validation
    Order,            \* what each request asks for
    WalletOwner,      \* the users that have a wallet
    BalanceRow,       \* the users whose wallet has a wallet_balance row
    InitialLedger,    \* wallet_balance.balance, in ulps
    InitialHeld,      \* the chain's balances, in smallest units
    Scale,            \* smallest units in a token (10^decimals)
    Ulps,             \* ulps of numeric(18,8) in a smallest unit (10^8)
    ColumnLimit,      \* first value, in ulps, that numeric(18,8) cannot hold
    MaxRetries,       \* maxRetries of executeBlockchainTransfer
    PoolSize,         \* connections of the database pool
    PlaceholdersSeeded, \* the rows behind EXTERNAL_ADDRESS_*_ID exist
    MaxCrashes        \* bound on process crashes

ASSUME RequestAssumption == IsFiniteSet(Request)
ASSUME OrderAssumption ==
    Order \in [Request -> [from : User, via : {"own", "known", "unknown"},
                           to : User \cup {External, Nobody}, amount : Int]]
ASSUME PartyAssumption == External \notin User /\ Nobody \notin User /\ External # Nobody
ASSUME WalletAssumption == WalletOwner \subseteq User /\ BalanceRow \subseteq WalletOwner
ASSUME BalanceAssumption ==
    InitialLedger \in [BalanceRow -> Int] /\ InitialHeld \in [User -> Nat]
ASSUME NumberAssumption ==
    /\ {Scale, Ulps, ColumnLimit, MaxRetries, PoolSize} \subseteq Nat \ {0}
    /\ MaxCrashes \in Nat
ASSUME SeedAssumption == PlaceholdersSeeded \in BOOLEAN

VARIABLES
    pc,       \* the await a request stands at
    attempt,  \* executeBlockchainTransfer's loop counter
    sub,      \* sub[r][n]: the transfer that attempt n gave to the chain
    lost,     \* the attempts that were broadcast but ended in an exception
    sig,      \* the attempt whose signature came back, 0 before
    draft,    \* the uncommitted transaction row
    row,      \* the committed transaction row
    read,     \* the balance that updateBalances last loaded
    write,    \* uncommitted balance writes; their domain is the row locks held
    ledger,   \* committed wallet_balance.balance
    conn,     \* the requests whose pooled connection is checked out
    ackLost,  \* the requests whose COMMIT succeeded without an answer
    held,     \* what each user's account holds on the chain
    crashes   \* process crashes so far

vars == <<pc, attempt, sub, lost, sig, draft, row, read, write, ledger, conn,
          ackLost, held, crashes>>
chain == <<sub, held>>
loop  == <<attempt, lost, sig>>
store == <<draft, row, read, write, ledger, conn, ackLost>>

Attempt == 1 .. MaxRetries
NoRow   == [status |-> "none", hash |-> 0]
Row     == [status : {"pending", "confirmed", "failed", "cancelled"}, hash : 0 .. MaxRetries]
NoWrite == [u \in {} |-> 0]

DbStatusEnum == {"pending", "confirmed", "failed", "cancelled"}

Before == {"check", "connect", "begin"}
InTransaction == {"insert", "send", "sent", "record", "readFrom", "saveFrom",
                  "readTo", "saveTo", "commit", "rollback"}
Answered == {"confirmed", "failed"}

\* convertToSmallestUnits, and the same number in ulps of the column.
SmallestUnits(r) == Order[r].amount * Scale
Debit(r) == SmallestUnits(r) * Ulps

\* numeric(18,8) keeps ten digits before the point.
InColumn(v) == -ColumnLimit < v /\ v < ColumnLimit

LeadingDigit[n \in Nat] == IF n < 10 THEN n ELSE LeadingDigit[n \div 10]

\* `balance += amount` on a value the driver returned as a string appends the
\* amount's digits after the eighth decimal; the column then rounds them away.
Appended(b, r) ==
    IF LeadingDigit[SmallestUnits(r)] < 5 THEN b ELSE IF b < 0 THEN b - 1 ELSE b + 1

\* The balances a database transaction sees: its own writes over committed rows.
Seen(r) == [u \in BalanceRow |-> IF u \in DOMAIN write[r] THEN write[r][u] ELSE ledger[u]]

Written(r, u, v) == [x \in DOMAIN write[r] \cup {u} |-> IF x = u THEN v ELSE write[r][x]]

Unlocked(r, u) == \A s \in Request \ {r} : u \notin DOMAIN write[s]

Goto(r, label) == pc' = [pc EXCEPT ![r] = label]

-----------------------------------------------------------------------------
(* Mutated forms of definitions below, each a plausible slip in the code.  No  *)
(* specification uses them; they show that the properties notice such a slip.  *)

\* `attempt <= maxRetries` in the catch of the retry loop.
NextAttemptOffByOne(r) ==
    /\ attempt' = [attempt EXCEPT ![r] = @ + 1]
    /\ Goto(r, IF attempt[r] <= MaxRetries THEN "send" ELSE "rollback")

\* Step 7 moved inside the retry loop: a failing UPDATE repeats the transfer.
StatementFailsRetried(r) ==
    /\ pc[r] = "record"
    /\ attempt[r] < MaxRetries
    /\ attempt' = [attempt EXCEPT ![r] = @ + 1]
    /\ Goto(r, "send")
    /\ UNCHANGED <<chain, lost, sig, store, crashes>>

\* The record saved by the repository instead of the query runner.
CreateTransactionRecordAutocommit(r) ==
    /\ pc[r] = "insert"
    /\ draft' = [draft EXCEPT ![r] = [status |-> "pending", hash |-> 0]]
    /\ row' = [row EXCEPT ![r] = [status |-> "pending", hash |-> 0]]
    /\ Goto(r, "send")
    /\ UNCHANGED <<chain, loop, read, write, ledger, conn, ackLost, crashes>>

\* A balance saved by the repository instead of the query runner.
SaveFromBalanceAutocommit(r) ==
    /\ pc[r] = "saveFrom"
    /\ ledger' = [ledger EXCEPT ![Order[r].from] = read[r] - Debit(r)]
    /\ Goto(r, "readTo")
    /\ UNCHANGED <<chain, loop, draft, row, read, write, conn, ackLost, crashes>>

SaveToBalanceAutocommit(r) ==
    /\ pc[r] = "saveTo"
    /\ ledger' = [ledger EXCEPT ![Order[r].to] = Appended(read[r], r)]
    /\ Goto(r, "commit")
    /\ UNCHANGED <<chain, loop, draft, row, read, write, conn, ackLost, crashes>>

\* No finally: the connection is not released after an error.
RollbackWithoutRelease(r) ==
    /\ pc[r] = "rollback"
    /\ draft' = [draft EXCEPT ![r] = NoRow]
    /\ read' = [read EXCEPT ![r] = 0]
    /\ write' = [write EXCEPT ![r] = NoWrite]
    /\ Goto(r, "failed")
    /\ UNCHANGED <<chain, loop, row, ledger, conn, ackLost, crashes>>

\* No rollbackTransaction: the row locks outlive the request.
RollbackForgotten(r) ==
    /\ pc[r] = "rollback"
    /\ conn' = conn \ {r}
    /\ Goto(r, "failed")
    /\ UNCHANGED <<chain, loop, draft, row, read, write, ledger, ackLost, crashes>>

-----------------------------------------------------------------------------
TypeOK ==
    /\ pc \in [Request -> {"new", "crashed"} \cup Before \cup InTransaction \cup Answered]
    /\ attempt \in [Request -> Attempt]
    /\ sub \in [Request -> [Attempt -> {"none", "inflight", "landed", "dropped"}]]
    /\ lost \in [Request -> SUBSET Attempt]
    /\ sig \in [Request -> 0 .. MaxRetries]
    /\ draft \in [Request -> Row \cup {NoRow}]
    /\ row \in [Request -> Row \cup {NoRow}]
    /\ read \in [Request -> Int]
    /\ \A r \in Request : /\ DOMAIN write[r] \subseteq BalanceRow
                          /\ write[r] \in [DOMAIN write[r] -> Int]
    /\ DOMAIN write = Request
    /\ ledger \in [BalanceRow -> Int]
    /\ conn \subseteq Request
    /\ ackLost \subseteq Request
    /\ held \in [User -> Nat]
    /\ crashes \in 0 .. MaxCrashes

Init ==
    /\ pc = [r \in Request |-> "new"]
    /\ attempt = [r \in Request |-> 1]
    /\ sub = [r \in Request |-> [n \in Attempt |-> "none"]]
    /\ lost = [r \in Request |-> {}]
    /\ sig = [r \in Request |-> 0]
    /\ draft = [r \in Request |-> NoRow]
    /\ row = [r \in Request |-> NoRow]
    /\ read = [r \in Request |-> 0]
    /\ write = [r \in Request |-> NoWrite]
    /\ ledger = InitialLedger
    /\ conn = {}
    /\ ackLost = {}
    /\ held = InitialHeld
    /\ crashes = 0

-----------------------------------------------------------------------------
(* Before the database transaction. *)

\* validateTransaction: the parties exist and the amount is positive.
ValidateTransaction(r) == Order[r].to # Nobody /\ Order[r].amount > 0

\* resolveAddresses: the user's own wallet unless an address is given, and the
\* recipient's wallet unless the recipient is an address.
ResolveAddresses(r) ==
    /\ Order[r].via = "own" => Order[r].from \in WalletOwner
    /\ Order[r].to \in WalletOwner \cup {External}

\* The reads of these two do not change while requests run, so they are one
\* step.  Only an unknown sender address leaves fromWallet null and skips the
\* balance check.
Receive(r) ==
    /\ pc[r] = "new"
    /\ Goto(r, IF ~ValidateTransaction(r) \/ ~ResolveAddresses(r) THEN "failed"
               ELSE IF Order[r].via = "unknown" THEN "connect" ELSE "check")
    /\ UNCHANGED <<chain, loop, store, crashes>>

\* The chain balance is in smallest units and the amount it is compared with is
\* in tokens; a sender without a wallet has no balance.
CheckBalance(r) ==
    /\ pc[r] = "check"
    /\ LET u == Order[r].from
       IN  Goto(r, IF u \in WalletOwner /\ held[u] >= Order[r].amount
                   THEN "connect" ELSE "failed")
    /\ UNCHANGED <<chain, loop, store, crashes>>

Connect(r) ==
    /\ pc[r] = "connect"
    /\ Cardinality(conn) < PoolSize
    /\ conn' = conn \cup {r}
    /\ Goto(r, "begin")
    /\ UNCHANGED <<chain, loop, draft, row, read, write, ledger, ackLost, crashes>>

PoolTimeout(r) ==
    /\ pc[r] = "connect"
    /\ Cardinality(conn) >= PoolSize
    /\ Goto(r, "failed")
    /\ UNCHANGED <<chain, loop, store, crashes>>

StartTransaction(r) ==
    /\ pc[r] = "begin"
    /\ Goto(r, "insert")
    /\ UNCHANGED <<chain, loop, store, crashes>>

\* A query before the database transaction throws.  BEGIN is outside the inner
\* try: when it throws nothing releases the query runner, and conn keeps r.
EarlyError(r) ==
    /\ pc[r] \in Before
    /\ Goto(r, "failed")
    /\ UNCHANGED <<chain, loop, store, crashes>>

-----------------------------------------------------------------------------
(* Inside the database transaction. *)

\* The foreign keys and the column the INSERT must satisfy.
CanInsert(r) ==
    /\ (Order[r].to = External \/ Order[r].via # "own") => PlaceholdersSeeded
    /\ InColumn(Debit(r))

CreateTransactionRecord(r) ==
    /\ pc[r] = "insert"
    /\ CanInsert(r)
    /\ draft' = [draft EXCEPT ![r] = [status |-> "pending", hash |-> 0]]
    /\ Goto(r, "send")
    /\ UNCHANGED <<chain, loop, row, read, write, ledger, conn, ackLost, crashes>>

\* The catch of the retry loop: sleep and try again, or give up.
NextAttempt(r) ==
    /\ attempt' = [attempt EXCEPT ![r] = IF @ < MaxRetries THEN @ + 1 ELSE @]
    /\ Goto(r, IF attempt[r] < MaxRetries THEN "send" ELSE "rollback")

\* An attempt fails before anything reaches the chain: building the transfer, a
\* network mismatch, no Para session, a failed preflight.
AttemptFails(r) ==
    /\ pc[r] = "send"
    /\ NextAttempt(r)
    /\ UNCHANGED <<chain, lost, sig, store, crashes>>

\* Only the user's own wallet row has the externalWalletId that Para needs.
Broadcast(r) ==
    /\ pc[r] = "send"
    /\ Order[r].via = "own"
    /\ sub' = [sub EXCEPT ![r][attempt[r]] = "inflight"]
    /\ Goto(r, "sent")
    /\ UNCHANGED <<loop, store, held, crashes>>

SignatureReturned(r) ==
    /\ pc[r] = "sent"
    /\ sig' = [sig EXCEPT ![r] = attempt[r]]
    /\ Goto(r, "record")
    /\ UNCHANGED <<chain, attempt, lost, store, crashes>>

\* The call that broadcast the transfer throws: a timeout, a dropped response.
AnswerLost(r) ==
    /\ pc[r] = "sent"
    /\ lost' = [lost EXCEPT ![r] = @ \cup {attempt[r]}]
    /\ NextAttempt(r)
    /\ UNCHANGED <<chain, sig, store, crashes>>

UpdateTransactionWithBlockchainResult(r) ==
    /\ pc[r] = "record"
    /\ draft' = [draft EXCEPT ![r] = [status |-> "confirmed", hash |-> sig[r]]]
    /\ Goto(r, "readFrom")
    /\ UNCHANGED <<chain, loop, row, read, write, ledger, conn, ackLost, crashes>>

\* updateBalances, sender: findOne, then save of balance - amount.
ReadFromBalance(r) ==
    /\ pc[r] = "readFrom"
    /\ LET u == Order[r].from
       IN  IF u \in BalanceRow
           THEN read' = [read EXCEPT ![r] = Seen(r)[u]] /\ Goto(r, "saveFrom")
           ELSE read' = read /\ Goto(r, "readTo")
    /\ UNCHANGED <<chain, loop, draft, row, write, ledger, conn, ackLost, crashes>>

SaveFromBalance(r) ==
    LET u == Order[r].from
        v == read[r] - Debit(r)
    IN  /\ pc[r] = "saveFrom"
        /\ Unlocked(r, u)
        /\ InColumn(v)
        /\ write' = [write EXCEPT ![r] = Written(r, u, v)]
        /\ Goto(r, "readTo")
        /\ UNCHANGED <<chain, loop, draft, row, read, ledger, conn, ackLost, crashes>>

\* updateBalances, recipient; an external recipient has no balance to update.
ReadToBalance(r) ==
    /\ pc[r] = "readTo"
    /\ \/ /\ Order[r].to = External
          /\ Goto(r, "commit")
          /\ UNCHANGED read
       \/ /\ Order[r].to \in BalanceRow
          /\ read' = [read EXCEPT ![r] = Seen(r)[Order[r].to]]
          /\ Goto(r, "saveTo")
    /\ UNCHANGED <<chain, loop, draft, row, write, ledger, conn, ackLost, crashes>>

SaveToBalance(r) ==
    LET u == Order[r].to
        v == Appended(read[r], r)
    IN  /\ pc[r] = "saveTo"
        /\ Unlocked(r, u)
        /\ InColumn(v)
        /\ write' = [write EXCEPT ![r] = Written(r, u, v)]
        /\ Goto(r, "commit")
        /\ UNCHANGED <<chain, loop, draft, row, read, ledger, conn, ackLost, crashes>>

\* Statements PostgreSQL must refuse: the INSERT above, a balance out of range,
\* a new wallet_balance row, which updateBalances builds without last_updated.
RejectedByDatabase(r) ==
    /\ \/ pc[r] = "insert" /\ ~CanInsert(r)
       \/ /\ pc[r] = "saveFrom"
          /\ Unlocked(r, Order[r].from)
          /\ ~InColumn(read[r] - Debit(r))
       \/ pc[r] = "readTo" /\ Order[r].to \notin BalanceRow \cup {External}
       \/ /\ pc[r] = "saveTo"
          /\ Unlocked(r, Order[r].to)
          /\ ~InColumn(Appended(read[r], r))
    /\ Goto(r, "rollback")
    /\ UNCHANGED <<chain, loop, store, crashes>>

\* Any statement of the transaction may fail.
StatementFails(r) ==
    /\ pc[r] \in {"insert", "record", "readFrom", "saveFrom", "readTo", "saveTo", "commit"}
    /\ Goto(r, "rollback")
    /\ UNCHANGED <<chain, loop, store, crashes>>

WaitsFor(r, s) ==
    /\ r # s
    /\ \/ pc[r] = "saveFrom" /\ Order[r].from \in DOMAIN write[s]
       \/ pc[r] = "saveTo" /\ Order[r].to \in DOMAIN write[s]

\* r stands on a cycle of lock waits.
Deadlocked(r) ==
    \E S \in SUBSET Request :
        /\ r \in S
        /\ \A x \in S : \E y \in S : WaitsFor(x, y)
        /\ \A y \in S : \E x \in S : WaitsFor(x, y)

\* deadlock_timeout makes PostgreSQL abort it.
AbortDeadlock(r) ==
    /\ Deadlocked(r)
    /\ Goto(r, "rollback")
    /\ UNCHANGED <<chain, loop, store, crashes>>

\* The database makes the drafts of r visible and drops its locks.
Apply(r) ==
    /\ row' = [row EXCEPT ![r] = draft[r]]
    /\ ledger' = Seen(r)

\* The finally block and the end of the database transaction.
Release(r) ==
    /\ draft' = [draft EXCEPT ![r] = NoRow]
    /\ read' = [read EXCEPT ![r] = 0]
    /\ write' = [write EXCEPT ![r] = NoWrite]
    /\ conn' = conn \ {r}

Commit(r) ==
    /\ pc[r] = "commit"
    /\ Apply(r)
    /\ Release(r)
    /\ Goto(r, "confirmed")
    /\ UNCHANGED <<chain, loop, ackLost, crashes>>

\* COMMIT is durable but its answer is not received: the catch rethrows.
CommitAckLost(r) ==
    /\ pc[r] = "commit"
    /\ Apply(r)
    /\ Release(r)
    /\ ackLost' = ackLost \cup {r}
    /\ Goto(r, "failed")
    /\ UNCHANGED <<chain, loop, crashes>>

Rollback(r) ==
    /\ pc[r] = "rollback"
    /\ Release(r)
    /\ Goto(r, "failed")
    /\ UNCHANGED <<chain, loop, row, ledger, ackLost, crashes>>

-----------------------------------------------------------------------------
(* The other writer of the table, the process and the chain. *)

\* POST /:id/cancel ("failed") and /:id/confirm ("completed"); PostgreSQL
\* refuses a status outside the enum and the row keeps its value.
UpdateTransactionStatus(r, status) ==
    /\ row[r] # NoRow
    /\ status \in DbStatusEnum
    /\ row' = [row EXCEPT ![r].status = status]
    /\ UNCHANGED <<pc, chain, loop, draft, read, write, ledger, conn, ackLost, crashes>>

\* PostgreSQL rolls back the sessions of a process that died.
Crash ==
    /\ crashes < MaxCrashes
    /\ crashes' = crashes + 1
    /\ pc' = [r \in Request |->
                 IF pc[r] \in Before \cup InTransaction THEN "crashed" ELSE pc[r]]
    /\ draft' = [r \in Request |-> NoRow]
    /\ read' = [r \in Request |-> 0]
    /\ write' = [r \in Request |-> NoWrite]
    /\ conn' = {}
    /\ UNCHANGED <<chain, loop, row, ledger, ackLost>>

\* A transfer the chain accepted executes while the sender can pay for it ...
Land(r, n) ==
    LET from == Order[r].from
        to   == Order[r].to
    IN  /\ sub[r][n] = "inflight"
        /\ held[from] >= SmallestUnits(r)
        /\ sub' = [sub EXCEPT ![r][n] = "landed"]
        /\ held' = [u \in User |-> held[u] - (IF u = from THEN SmallestUnits(r) ELSE 0)
                                           + (IF u = to THEN SmallestUnits(r) ELSE 0)]
        /\ UNCHANGED <<pc, loop, store, crashes>>

\* ... or fails, or its blockhash expires first.
Drop(r, n) ==
    /\ sub[r][n] = "inflight"
    /\ sub' = [sub EXCEPT ![r][n] = "dropped"]
    /\ UNCHANGED <<pc, loop, store, held, crashes>>

-----------------------------------------------------------------------------
\* What the process and the database do for r when nothing goes wrong for good.
Progress(r) ==
    \/ CheckBalance(r) \/ Connect(r) \/ PoolTimeout(r) \/ StartTransaction(r)
    \/ CreateTransactionRecord(r)
    \/ AttemptFails(r) \/ Broadcast(r) \/ SignatureReturned(r) \/ AnswerLost(r)
    \/ UpdateTransactionWithBlockchainResult(r)
    \/ ReadFromBalance(r) \/ SaveFromBalance(r)
    \/ ReadToBalance(r) \/ SaveToBalance(r)
    \/ RejectedByDatabase(r) \/ AbortDeadlock(r)
    \/ Commit(r) \/ Rollback(r)

Failure(r) == EarlyError(r) \/ StatementFails(r) \/ CommitAckLost(r)

Next ==
    \/ \E r \in Request :
          \/ Receive(r) \/ Progress(r) \/ Failure(r)
          \/ \E status \in {"failed", "completed"} : UpdateTransactionStatus(r, status)
          \/ \E n \in Attempt : Land(r, n) \/ Drop(r, n)
    \/ Crash

Spec == Init /\ [][Next]_vars

\* node runs every ready callback and PostgreSQL and the RPC node answer or time
\* out; nobody promises that requests arrive or that the chain decides.
FairSpec == Spec /\ \A r \in Request : WF_vars(Progress(r))

-----------------------------------------------------------------------------
(* The abstract view of a request. *)

AnswerOf(label) == IF label \in {"confirmed", "failed", "crashed"} THEN label ELSE "none"

TransferOf(label, signature) ==
    IF label = "sent" THEN "sent" ELSE IF signature # 0 THEN "known" ELSE "none"

Atomic == INSTANCE AtomicTransfer WITH
    Call     <- Request,
    Account  <- BalanceRow,
    Parties  <- [r \in Request |-> {Order[r].from, Order[r].to}],
    Start    <- InitialLedger,
    Status   <- DbStatusEnum,
    answer   <- [r \in Request |-> AnswerOf(pc[r])],
    transfer <- [r \in Request |-> TransferOf(pc[r], sig[r])],
    record   <- [r \in Request |-> row[r].status],
    balance  <- ledger

-----------------------------------------------------------------------------
(* Properties. *)

\* A request pays twice on the chain only when an attempt that was broadcast
\* ended in an exception: the retry loop never repeats an attempt whose
\* signature came back, whatever fails in the database afterwards.
PaidAgainOnlyAfterLostAnswer ==
    \A r \in Request : \A m, n \in Attempt :
        m < n /\ sub[r][m] = "landed" /\ sub[r][n] = "landed" => m \in lost[r]

\* The record that other requests see and the client's answer agree: a success
\* answer has a durable record carrying the signature of a transfer that was
\* given to the chain, no record is ever visible while pending (so
\* processPendingTransactions has nothing to send), and a request that was
\* refused left a record only when the answer to its COMMIT was lost.
RecordMatchesAnswer ==
    \A r \in Request :
        /\ pc[r] = "confirmed" => row[r] # NoRow
        /\ row[r] # NoRow =>
              /\ row[r].status # "pending"
              /\ row[r].hash = sig[r] /\ sig[r] \in Attempt
              /\ sub[r][sig[r]] # "none"
              /\ pc[r] = "confirmed" \/ r \in ackLost

\* What a balance row lost is the sum of some recorded transfers of its owner,
\* up to one ulp per recorded credit: no rolled back, crashed or retried request
\* leaves a debit behind.  (Some recorded transfers, not all: see the README.)
NoPhantomDebit ==
    \A u \in BalanceRow :
        LET paid   == {r \in Request : row[r] # NoRow /\ Order[r].from = u}
            earned == Cardinality({r \in Request : row[r] # NoRow /\ Order[r].to = u})
        IN  \E S \in SUBSET paid : \E k \in -earned .. earned :
                ledger[u] = InitialLedger[u] - MapThenSumSet(Debit, S) + k

\* Balances change only together with the appearance of a transaction record.
LedgerMovesWithRecord ==
    [][ledger' # ledger => \E r \in Request : row[r] = NoRow /\ row'[r] # NoRow]_vars

\* A pooled connection is out only for a request inside its database
\* transaction, or for one whose BEGIN failed: no other path leaks one.
ConnectionsAccounted ==
    /\ Cardinality(conn) <= PoolSize
    /\ \A r \in Request :
          /\ r \in conn => pc[r] \in {"begin", "failed"} \cup InTransaction
          /\ pc[r] \in {"begin"} \cup InTransaction => r \in conn
          /\ r \in conn /\ pc[r] = "failed" => draft[r] = NoRow /\ attempt[r] = 1 /\ sig[r] = 0

\* Whoever waits for a row lock waits in the end for somebody who will give it up:
\* among those it waits for, directly or through others, is a request that stands in
\* its database transaction and does not wait itself, or one that the deadlock
\* detector aborts.  No lock outlives the request that took it.
LockWaitsEnd ==
    \A r \in Request : \A W \in SUBSET Request :
        /\ \E s \in Request : WaitsFor(r, s)
        /\ r \in W /\ \A x \in W, y \in Request : WaitsFor(x, y) => y \in W
        => \E s \in W : pc[s] \in InTransaction /\ (Deadlocked(s) \/ \A y \in Request : ~WaitsFor(s, y))

\* A request that arrived is answered unless its process dies, although
\* requests queue for connections, some connections leak, and opposite
\* transfers deadlock on the balance rows.
EveryRequestAnswered ==
    \A r \in Request : pc[r] # "new" ~> pc[r] \in Answered \cup {"crashed"}

\* The awaits between BEGIN and COMMIT, the retries around the broadcast and the
\* failures of each do not show: seen from outside, a request is the short machine
\* of AtomicTransfer, whose record and balances appear in one step that follows a
\* known signature, and which sends again only after a lost answer.
ImplementsAtomicTransfer == Atomic!TransferSpec

\* "Step 4: Create database transaction for atomicity": a request that was
\* answered with an error moved no money.  The code does not have this property.
RefusedMeansUnpaid ==
    \A r \in Request : pc[r] = "failed" => \A n \in Attempt : sub[r][n] # "landed"

\* "Transaction failed to execute", the description of status failed: no such
\* record stands for an executed transfer.  The code does not have this property.
FailedMeansNotExecuted ==
    \A r \in Request : row[r].status = "failed" => \A n \in Attempt : sub[r][n] # "landed"
=============================================================================
