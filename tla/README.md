# Verification of the Rampa Cash API

TLA+ models of the back end in `src/`, the TLC configurations that check them on small
instances, and TLAPS proofs of what holds for every instance. Paths below are relative to
`src/src/domain/` unless they start with `src/`.

Contents: [inventory](#1-inventory), [modules](#2-modules), [runs](#3-runs),
[fairness](#4-fairness), [proofs](#5-proofs), [where the code departs from its
documents](#6-where-the-code-departs-from-its-documents), [abstractions](#7-abstractions),
[not modelled](#8-not-modelled), [plan](#9-plan).

## 1. Inventory

One Node.js process (NestJS) serves HTTP requests over a PostgreSQL database (TypeORM, a
pool of connections, READ COMMITTED), a Solana RPC node, Para (wallet custody and signing),
Transak (on- and off-ramp) and Sumsub (KYC). Requests interleave at every `await`. Several
caches live in `Map`s of the process and die with it; nothing else is shared in memory.

### Components that move or count money (modelled)

| Component | State | Operations | What is hard | What makes it correct |
|---|---|---|---|---|
| Transfers (`transaction/`) | `transactions`, `wallet_balance`, a pooled connection per request | `createTransaction`, `updateTransactionStatus` (cancel, confirm) | the chain is called inside a database transaction; retries after a lost answer; row locks taken in opposite orders; the process or COMMIT failing midway | a payment repeats only after a lost answer; answer and record agree; balances move only with a record; no connection or lock leaks; every request is answered |
| Transfer signing (`solana/`) | none of its own; a transfer is in flight, landed or dropped | build, sign through Para, broadcast | an exception does not say whether the transfer was broadcast | (environment of the transfers) |
| Wallet balances (`wallet/services/wallet-balance.service.ts`) | one `wallet_balance` row per wallet and token | `getBalance`, `getAllBalances`, `addBalance`, `updateBalance`, the sync, their database fallbacks | read, await, save an absolute value; numbers that come back as strings; two units for one column | what a client is shown is what the chain held, or 0 after a failure; credits do not pile up |
| Balance cache and refresh (`cached-wallet-balance.service.ts`, `balance-refresh.service.ts`) | cache entries with a time to live; a timer | cached reads, `refreshWalletBalances`, invalidation | a slow read re-fills the cache behind an invalidation; overlapping refreshes | clients that keep asking catch up with the chain |
| On-ramp orders (`onramp/`) | `onramp_transactions` | `createTransaction`, `updateTransactionStatus`, `creditWallet` | matching a webhook to a record by "newest pending"; save after a stale load | each completed order is credited, and only then |
| Off-ramp orders (`offramp/`) | `offramp_transactions` | `createOffRampTransaction`, `updateOffRampStatus` | a client's PUT against a webhook | sales never credit |
| Transak webhooks (`transak/`) | none that outlives a request | `handleWebhook` | duplicate, late, reordered and overlapping deliveries | an acknowledged completion was credited |

### Components around a user's account (modelled)

| Component | State | Operations | What is hard | What makes it correct |
|---|---|---|---|---|
| Para sessions (`src/src/infrastructure/adapters/auth/para-sdk/para-sdk-session.manager.ts`), their validation and refresh (`auth/`) | imported sessions in a `Map`, swept by a timer | import, validate, keep alive, refresh, issue a JWT, import by a transfer | an entry read before an await on Para and used after it; two session lengths written into one field; restarts | an ended session admits nobody and leaves the `Map`; a session lasts as long as its client was told, up to the shorter of the two lengths; a transfer that brings its session needs only Para |
| Authentication, users (`auth/`, `user/`) | `user`, `wallet` rows | login with creation, recovery from conflicts, reactivation, the login's wallet, removals | two first logins at once; recovery by other keys than those that collided | one person, one user, with a wallet |
| Wallets (`wallet/services/wallet.service.ts`, `cached-wallet.service.ts`) | wallet rows, one cache entry per user | connect, update, suspend, activate, disconnect; cached reads | saves of stale rows; nothing drops the cache entry | changes show in time; one wallet per user |
| Verification, KYC, Sumsub (`user/services/`, `sumsub/`) | verification, KYC and account status, applicant | profile and KYC updates, POST and PATCH of the user, update from the session, suspension, activation, applicant, webhooks, polls | late and repeated results; two writes per result; saves of stale rows; endpoints that set the columns directly | no verification without a cause; status and verification agree where nobody sets them directly; a finished review gets through |
| Learning and BONK rewards (`learning/`) | progress and reward rows | start, progress, complete, process rewards, pay, retry, clean up failed rewards | check-then-insert with no unique constraint; a status in the middle of a payment; a deleted row saved again | one reward, paid once; none is stranded |
| Rate limiting (`middleware/rate-limit.middleware.ts`) | a counter per client and window | count, refuse, clean up | window boundaries, rounding | at most twice the limit per window length; `Retry-After` suffices |

### Components that are left out

Contacts, investments, VISA cards, transaction history, balance queries, address resolution,
the Solana connection with its retry, health and monitor services, payment providers, the
event bus, the service registry and the bootstrap: section 8 gives the reasons, and
`PROJECT.json` lists every component.

### Interactions

`TransactionService` reads wallets and users, calls the chain through the signing service,
and writes `wallet_balance` itself, past `WalletBalanceService`. `TransakService` updates
the order records and calls `OnRampService.updateTransactionStatus`, which calls
`WalletBalanceService.addBalance`. Creating an order calls `getUserWallets`, which calls
`getAllBalances`, which writes the balance row. The refresh timer writes the same row. A
balance row thus has four writers that do not know of each other: transfers, reads,
credits and the refresh.

Every protected endpoint passes the rate limiter and `SessionValidationGuard`, which asks the
session manager and looks up the user that a login created. Signing a transfer imports the
session again when the `Map` has lost it. The wallet endpoints write through `WalletService`
and most reads go through `CachedWalletService`. Sumsub's results, the profile and KYC
endpoints and the login save the same user row.

## 2. Modules

```
TransactionService   <- MCTransactionService, TransactionServiceProofs
WalletLedger         <- MCWalletLedger, WalletLedgerProofs
   ^ EXTENDS
RampOrders           <- MCRampOrders, RampOrdersProofs (EXTENDS WalletLedgerProofs too)

AtomicTransfer       <- INSTANCE in TransactionService; AtomicTransferProofs

ParaSessions, Onboarding, WalletCache, Verification, Rewards, RateLimiter
   ^ EXTENDS
Accounts             <- MCAccounts

SessionProofs (of ParaSessions and Onboarding), WalletCacheProofs, RateLimiterProofs
   ^ EXTENDS
AccountsProofs (of Verification, Rewards and of Accounts as a whole)
```

**TransactionService** is `createTransaction`, await by await. `pc[r]` names the await
request `r` stands at: `check`, `connect`, `begin` before the database transaction;
`insert`, `send`, `sent`, `record`, `readFrom`, `saveFrom`, `readTo`, `saveTo`, `commit`,
`rollback` inside it. `attempt` is the loop counter of `executeBlockchainTransfer`;
`sub[r][n]` is the fate of the transfer that attempt `n` gave to the chain; `lost` and `sig`
are what the process learnt of it. `draft`, `read` and `write` are the uncommitted side of
PostgreSQL (the domain of `write[r]` is the set of row locks `r` holds), `row` and `ledger`
the committed one. `conn` is the pool, and `held` the chain. `AbortDeadlock` is PostgreSQL's
answer to a cycle of lock waits, `CommitAckLost` a COMMIT whose answer is lost, `Crash` the
death of the process, after which PostgreSQL rolls its sessions back.
`UpdateTransactionStatus` is the one other writer of the table. The operators headed
"mutated forms" are slips the properties must notice; no specification uses them.

**WalletLedger** is one balance of one wallet: its row, its two cache entries, the chain's
balance (`Held[height]`, which moves on by itself), and a set of calls, each of a kind:
`read` and `readAll` through the cache, `list` (`getAllBalances` as the ramp orders reach
it), `credit` (`addBalance`) and `refresh`. `at[c]` is the await call `c` stands at. A
credit runs a whole `getBalance` first (which saves the row) and then, in `adding`, an
`updateBalance` of its own. `Value(c)` is what a call saves: the chain's `uiAmount`, for
the refresh its raw `amount`, for a credit `currentBalance + amount`, which joins digits
because the amount is a string. `refused` observes that the database has refused a save.

**RampOrders** EXTENDS `WalletLedger` and composes with it: a webhook handler *is* a
`credit` call of the ledger and a creator *is* a `list` call. While such a call is under
way the request stands at `list`, `listAgain` or `credit` and only the ledger's steps move
it; `CallReturns` takes it on. `record` holds both order tables in the order of creation,
`job[w]` the locals of each request (among them the loaded `entity` and the `dirty` columns
that the UPDATE of `repository.save` will write). `delivered`, `acked`, `credits` and
`claimed` are observations for the properties: they influence no step, but for
`MaxDeliveries`, which bounds how often the environment delivers. `LedgerSpec` serves as
the abstract specification of a balance: `RampOrders` is shown to implement it.

**AtomicTransfer** is the abstract specification of `POST /transactions`: a transfer is given to
the chain (again only after its answer was lost); once its signature is known, *one* step makes
the record visible together with the balances of the two parties; a refused or dead request
leaves nothing in the database. `TransactionService` maps its thirteen awaits to "none", "sent"
and "known", and its committed side to `record` and `balance`.

**ParaSessions** is one token in the `sessions` Map. `slot` is the entry the Map holds, and
entries live on after it (`entry[c]` is the object a call has read): a keep-alive may extend an
entry that the sweep or a restart has dropped, as in the code. `left` and `paraLeft` count down
to the expiry here and at Para. Two lengths meet in `left`: `DefaultLength`, the 30 minutes that
`keepSessionAlive` writes (`KeptAlive`) and that stand in for a JWT without an expiry, and
`SessionLength`, what Para is configured with and its JWTs show (`JwtLengths`). The assumptions
leave open which is longer. Calls are `validate` (also the guard), `keepAlive`, `refresh`, `jwt`
and two kinds of transfer, which import the session when `getParaServer` finds none: `sign` brings
`paraSerializedSession`, and `signBare` leaves the optional field out, so that the bare token is
imported, which throws (`BareImportFails`). `failed`, `late`, `unpromised` and `promised` are
observations for the properties.

**Onboarding** is `importSession` of `AuthController` for a few logins, user part and wallet part:
`user[l]` is the row login `l` inserted, `wallet[p]` the row of person `p`'s address, `stage[l]` the
await. `recognised[l]` says whether `extractUserInfo` found the person in the serialized session or
made up an id. Removals of users and wallets run beside the logins.

**WalletCache** is the wallet rows of one user with the changes that load, edit and save them,
and the cache entry of `findByUserId`. Copies carry their age (-1 while they are current).

**Verification** is one user row and everything that saves it: `row` in the table, `copy[r]` as a
request loaded it, `applicant` and `review` at Sumsub, `brought[r]` the review a request carries.
`FirstRows` says how the row may have been created: by a login, with the columns' defaults, or by
POST /user, which makes it ACTIVE and takes `verificationStatus` and `isActive` from the body. The
requests of kind `profile`, `kyc`, `patch` (PATCH /user/:id, any of `UpdateUserDto`'s columns),
`refresh` (update-from-session), `suspend`, `activate`, `remove` and `login` load, change
(`Changed`) and save. `complete` is a set, because `isProfileComplete` and `validateKycCompletion`
ask for different things: a profile may be complete for one and not for the other. `completed`
remembers what it has been complete for, `byHand` which of the two columns POST, PATCH or `activate`
have set to another value; both are observations.

**Rewards** is one module's progress and reward rows, the learning requests that write them and
the payers: passes of `processPendingRewards` and retries. `CleanupOldFailedRewards` deletes any
failed rewards, whatever the payers have loaded; `overtaken` observes that it deleted one that a
payer held and will insert again by saving it. **RateLimiter** is
`RateLimitMiddleware.use` with its clock.

**Accounts** puts the six side by side. They share no variable, so a behaviour of it moves one of
them (`part`) and the others rest: checking the sum of the parts instead of their product loses
nothing for properties that speak of one part each.

**MC modules** give the constants values; the **Proofs modules** are described in section 5.

## 3. Runs

| Run | Module, cfg | Result | What it shows |
|---|---|---|---|
| `transfers` | MCTransactionService, `TransactionService.cfg` | pass | opposite transfers of two users through retries, failing statements, a lost COMMIT answer, a row-lock deadlock, a crash and late status updates: every safety property below, and every request is answered |
| `transfer_edges` | MCTransactionService, `TransactionServiceEdges.cfg` | pass | three requests on a pool of one: an address as recipient, a recipient without a balance row, a sender given by address, a balance that leaves the column's range |
| `refused_but_paid` | `TransactionServiceRefusedMeansUnpaid.cfg` | violation | an error answer, no record, and the money moved |
| `cancel_after_payment` | `TransactionServiceFailedMeansNotExecuted.cfg` | violation | cancel marks an executed transfer failed |
| `balances` | MCWalletLedger, `WalletLedger.cfg` | pass | a polling reader, a credit and the refresh on one row, from no row at all |
| `all_balances` | `WalletLedgerReadAll.cfg` | violation | all balances shows smallest units as tokens |
| `ramp_orders` | MCRampOrders, `RampOrders.cfg` | pass | two purchases and a sale share two records; a completion is delivered twice; PUTs, failures and a restart |
| `ramp_ledger` | `RampOrdersLedger.cfg` | pass | the same on one record while the chain's balance becomes fractional, so that credits fail, and the wallet is removed: implements `LedgerSpec` |
| `redelivery` | `RampOrdersSingleCredit.cfg` | violation | a completion delivered twice credits twice |
| `mixed_orders` | `RampOrdersAmounts.cfg` | violation | a record with the id of one order and the amount of another |
| `accounts` | MCAccounts, `Accounts.cfg` | pass | sessions, logins, the wallet and its cache, verification, rewards and the rate limiter, each with concurrent requests, failures and restarts |
| `accounts_liveness` | MCAccounts, `AccountsLiveness.cfg` | pass | ended sessions leave the Map, finished reviews get through, no reward is stranded |

### Properties

*Transfers.* `PaidAgainOnlyAfterLostAnswer`: an attempt whose signature came back is never
repeated, whatever the database does afterwards. `RecordMatchesAnswer`: a success answer has
a durable record with the right signature, a pending record is never visible, and a refused
request left a record only when the answer to its COMMIT was lost. `NoPhantomDebit`: what a
row lost is the sum of *some* recorded transfers of its owner. Some, not all: `updateBalances`
saves absolute values, so two concurrent requests of one user overwrite each other's debit and
the stronger form (all of them) does not hold; what does hold is that nothing rolled back,
crashed or retried remains in a balance. The property allows one unit of the column's last
digit per recorded credit, since `toBalance.balance += amount` appends the amount's digits
after the eighth decimal and the column rounds them away. `LedgerMovesWithRecord` (an action
property): balances change only in the step in which a record becomes visible.
`ConnectionsAccounted`: the only request that keeps a connection after its answer is one whose
BEGIN failed. `LockWaitsEnd`: whoever waits for a balance row's lock waits, directly or through
others, for a request that can go on or for one that the deadlock detector aborts.
`EveryRequestAnswered` (liveness). `ImplementsAtomicTransfer`: the refinement.

*Balances.* `ReadShowsHeldBalance`: a client of `getBalance`, from the cache or not, is shown a balance the
chain has held; once a query or an RPC call has failed, a save was refused or the wallet was removed, it may
also be shown 0, and never what the row says. That 0 is not what the code's comments promise (section 6);
its mutant returns the row instead of the value read. `CreditsDoNotCompound`: the row is at most one credit
away from such a balance. `PollingReaderCatchesUp` (liveness): a client that keeps asking is in the end
shown what the chain holds.

*Ramp orders.* `CreditsNeedDeliveries`: an order that shares no record is credited at most once
per delivery of its completion, and a sale never. `AcknowledgedMeansCredited`: a completion
that met a record and was answered 200 was credited. Both except orders whose record another
order was ever written into, because `mixed_orders` shows that there the amounts and ids of
the two are mixed. `LedgerSpec`: the refinement.

*Sessions.* `EndedSessionAdmitsNobody`: a call that arrives after Para has ended the session gets
nothing, whatever an extension or an import under way still says. `PromiseKept`: a client told
how long its session lasts is not logged out by this server before the shorter of the two session
lengths is over. More cannot be said, because a later JWT, import or keep-alive writes its own
length over the expiry the client was answered with (section 6). One tick is granted, the time of
one request to Para: two imports under way at once can leave an entry in the Map that much older
than the one a refresh extended and promised from. `SigningNeedsOnlyPara`: a transfer that brings its
session is refused for it only when Para ended it or a request to Para failed; one that does not is
also refused when it came while no client held an answer that the session lasts any longer: after a
restart, or once the promised time was over.
`EndedSessionLeavesTheMap` (liveness).

*Logins.* `SameUserEachLogin`, `NoStranger`, `LoginLeavesWallet`: under all interleavings of
look-ups, inserts, conflicts and removals, one person's logins end at one user, never at someone
else's, and a login whose queries succeeded leaves the address registered. The first needs a
session that shows an email or a phone, because only those columns are unique.

*Wallets.* `ChangeSeenInTime`: the cache hides a change for at most its time to live and one query.
`SecondWalletNeedsOverlap`: two active wallets need two changes at once.

*Verification.* `VerifiedNeedsCause`: nobody's KYC is verified without a profile complete for it or a
green or finished review, and nobody's verification without a complete profile, such a review, or a
POST or PATCH of /user that set the column. `StatusFollowsVerification`: as long as nobody has set
one of the two columns directly, account status and verification do not come apart.
`FinishedReviewGetsThrough` (liveness): stale saves and old webhooks cannot keep a finished review
from a client that polls.

*Rewards.* `SecondRewardNeedsOverlap`: two rewards for a module need two requests at once, or a payer
that saves a reward again which the cleanup has deleted; after a cleanup alone a repeated request
creates one in the place of the deleted one. `PaidTwiceNeedsOverlap`: a second payment of a reward
needs two payers at once or a lost save. `NoRewardIsStranded` (liveness): only a crash, a lost save or a
failed retry leaves a reward in PROCESSING.

*Rate limit.* `TwiceTheLimitAtMost`: at most twice the limit in any stretch of one window. (With a
limit of 2 the run's two windows admit four requests and its horizon ends before a fifth could be:
the run shows that none is, `LimitHolds` that none ever is in one stretch.)
`RetryAfterSuffices`: who waits as told is refused again only after using up the limit since.

### Bounds, and why they are enough

- *Two opposite transfers* are the least that deadlock on balance rows, and they make each user
  sender and recipient; `MaxRetries = 2` (the code's 3 adds another round of the same loop) is
  the least that pays twice. `PoolSize = 2` lets both run; the edge run's `PoolSize = 1` makes
  requests queue and time out. `MaxCrashes = 1`: a crash leaves nothing behind but committed
  rows and transfers in flight, so a second one meets the states of the first.
- *Numbers* are scaled down: `Scale = 10` smallest units in a token and `Ulps = 10` units of the
  column in a smallest unit instead of 10^6 or 10^9 and 10^8. The amounts 2 and 5 make the
  appended digits round down and up. `ColumnLimit` lies where one of the values written is
  refused and another is not.
- *Held = <<20, 25>>* is a balance of two tokens that becomes two and a half: the digits of a credit join
  the first and make no number with the second. In `balances`, `ColumnLimit = 245` stores the first in
  smallest units and refuses the second; in `ramp_ledger`, where no refresh runs, it is out of the way.
  `MaxFailures = 1` bounds failing awaits and restarts of the ledger together; requests of `RampOrders` fail
  at any of their queries without a bound.
- *Two records for three orders, two handlers*: the purchases compete for a pending record and
  each can also have one alone; a handler can be overtaken between its SELECT and its UPDATE.
  `ORDER_COMPLETED` of the first purchase is delivered twice, the other events once.
- *Accounts.* Three calls on one token: a transfer beside an extension and a validation, and one without its
  session beside a JWT and a keep-alive. `SessionLength = 3` and `DefaultLength = 2` are two lengths, each
  longer than the tick that `PromiseKept` grants; a JWT or import may write either. In `accounts_liveness`
  they are 1 and 2, so that Para's is the shorter; the theorems take any two. `MaxRestarts = 1`: an entry
  expires, is dropped and imported again under a call. Three logins of two persons: two race for one user
  while the third has what a wrong look-up would find; one removal. Three changes of a wallet over two
  addresses, two readers, `WalletTtl = 2`: an entry is filled late, outlives a change and is overwritten.
  Four requests on a user row, in seven combinations so that every writer meets a review or other writers,
  from the row of a login and from one of POST /user (for liveness from the former); two reviews, one that
  verifies and one that does not, and one lost request. Four learning requests, two attempts, one crash and
  one retry: with two payers of one reward in `accounts`, with two rewards and one payer in
  `accounts_liveness`. Two clients, a window of 3 milliseconds, a limit of 2 and a "second" of 2, so that
  windows end inside seconds, over 6 ticks: two whole windows. The parts share no variable, so their bounds
  are independent.
- *Symmetry*: the two handlers are interchangeable in every definition (`Kind` gives both
  `credit`). The runs that use `HandlerSymmetry` check no liveness; no other run uses symmetry.
- *CHECK_DEADLOCK FALSE*: where requests, deliveries and records are finite and the system may
  stop when they are used up. The passing ledger run checks deadlock: its clients never stop
  asking.

Each property has a mutant in `PROJECT.json`: a definition replaced by one of the mutated
forms, after which TLC finds the property violated under the same cfg.

## 4. Fairness

`FairSpec` (transfers): weak fairness of `Progress(r)` for each request. Node runs every ready
callback; statements, RPC calls and the pool's acquisition answer or time out; PostgreSQL
aborts a deadlock after `deadlock_timeout`. Not assumed: that requests arrive (`Receive`), that
the chain ever decides (`Land`, `Drop`), that failures happen or stop. `Progress` is one
disjunction per request, so a request that waits for a lock must be given progress by the
holder's end or by `AbortDeadlock`, and one that waits for a connection by `PoolTimeout`.

`FairLedgerSpec`: weak fairness of each call's own steps, a failing await among them, and of the
expiry of each cache entry (time passes). `PollingLedgerSpec` adds that reading clients keep
asking, which is the premise of `PollingReaderCatchesUp`, and nothing about credits, refreshes,
removal or the chain. The ramp runs check safety only.

`AccountsFairSpec` takes over the fairness of its parts. Sessions: time passes, the sweep's
`setInterval` fires, requests to Para return or fail; nobody promises that calls arrive.
Verification: requests that have begun end, and polling clients keep asking, which is the premise of
`FinishedReviewGetsThrough`. Rewards: passes and retries that have begun are carried on; nobody
promises that any begins: nothing in `src/` starts a pass, and a retry waits for a client.

## 5. Proofs

Every safety property of a passing run is also a theorem: every invariant, the action property
and both refinements. The proofs use the named assumptions on the constants and nothing else: any
set of requests, users, calls and orders, any amounts, any number of retries, failures and
crashes. Each module has one inductive invariant per component, in named parts; its proof has one
step per action, and under it one per part that the action can disturb.

**TransactionServiceProofs.** `TypeOK` alone is not inductive enough for the others: that a
record carries the signature of a transfer given to the chain rests on what is true at each
await. `IInv` adds to `TypeOK` the bound on the pool and, per request, what holds before the
loop (nothing sent, no draft), in it (earlier attempts are lost or never sent), after it (the
current attempt's signature came back) and of the connection. Three facts are proved of it
(initially, by every action, and that it implies each property): `TypeCorrect`,
`NoNeedlessPayment`, `RecordsAgree`, `ConnectionsAreAccounted`. `LedgerIsAtomic`
follows from the same invariant: only `Apply` changes `ledger`, and where it does the request
had no committed row and has a draft.

`DebitsAreRecorded` (`NoPhantomDebit`) needs a second invariant, `DebitInv`. A value is
`Explained` when it is the initial balance less the debits of *some* set of recorded transfers
of the owner, up to one last digit per recorded credit. Every committed balance is explained; so
is what a request has read and will write back, and what it has written is explained by the
recorded transfers and its own (`Tracked`), whose record appears in the step that shows the value.
Records are never removed (`RowsStay`), so an explanation stays one while the request waits
(`ExplainedStays`). The debits are added with `MapThenSumSet`, a recursive function on sets whose
order of summation is a `CHOOSE`. That it exists and that the order does not matter
(`AdditiveExists`, `SumsAgree`, `SumOfDebits`) is an induction over finite sets, made without an
induction theorem: strict inclusion is well-founded on the subsets of a finite set, so a set of
counterexamples would have a smallest one (`SmallestSubset`), and one element less refutes it.

`LocksAreGivenUp` (`LockWaitsEnd`) is what the liveness of lock waits rests on, said without
ENABLED. Locks are held only between the first UPDATE and the end of the database transaction
(`LocksInside`), so whom a request waits for stands in its own. If all of those waited too, the
smallest set of requests that wait for each other would contain nobody for whom nobody waits
(`WaitersMeet`): it is a cycle, and `AbortDeadlock` ends it.

**AtomicTransferProofs.** `TransferRefinement`: `TransactionService` implements `AtomicTransfer`. It
rests on `IInv` for the one step that shows (`Apply`: the draft becomes the record and the written
rows the balances, of the two parties only, while the request is between COMMIT and its answer) and
maps every other action to a step of the abstract request or to a stutter.

**WalletLedgerProofs.** `TypeInv` splits the type invariant into what is true of calls, of answers and of
the world, since most steps disturb one of them. `ShowsInv` says where every value in the row, the caches
and the answers comes from; it needs that `seen` of a call is a position the chain has reached and that only
calls in `adding` save a joined value, with a positive amount. For the answers (`ReadsOK`) it also says why
a call is at its fallback: a 0 that the chain never held presupposes a failure, a refused save or the
wallet's removal (`FellBack`), none of which is ever taken back (`FellBackStays`, `ShowableGrows`). From it
`ReadsAreOfTheChain` and `OneCreditAtMost`, and `LedgerTypeCorrect`.

**RampOrdersProofs.** `RampImplementsLedger`: `RampInit` implies `LedgerInit`, and each action of
`RampNext` is a step of `LedgerNext` or leaves `ledgerVars` alone. It needs an invariant: a
step of the ledger's call presupposes that the worker waits for it, and the amount a handler
asks for is one of `Credit`. `RampInv` (`JobOK` for each worker) supplies these, and
`RampTypeCorrect` states its type part. `OrdersDoNotCompound` composes: with the refinement, the
ledger's `OneCreditAtMost` holds of `RampSpec` too, so redelivered and overlapping webhooks of
any number of orders leave a balance at most one credit from the chain's.

`CompletedOrdersAreCredited` and `NoCreditFromNowhere` follow the path of a credit from the
delivery to the balance (`CreditInv`). `RecordsOK` ties each record to the orders ever written
into it. `RequestOK` says of each handler where it stands on that path: which record it will
credit, what its loaded entity and dirty columns say of it, and that it answers 200 only after
the credit. Neither property is inductive without a count: a handler between its webhook and the
credit is a credit still owed, and `DeliveriesCover` bounds the credits given *plus those owed*
(`Owed`, the set of such handlers) by the deliveries, so that overlapping handlers cannot spend
one delivery twice.

**SessionProofs.** *Sessions:* Para's session never returns once it is over, so `LateInv` (what a late call
and a refused transfer have behind them) is settled for good: `EndedSessionsAdmitNobody`,
`SigningIsParasToRefuse`. A transfer without its session gets as far as the bare import only when the Map
did not have the token as it arrived, and then `PromiseInv` leaves no promise with time in it.
`PromisesAreKept` needs `PromiseInv`: what a refresh under way is about to promise is good already, although
the entry it has read may have left the Map and another refresh may extend that one. Every extension, import
and JWT writes at least the shorter length, which is the most a client is counted as promised: that is what
carries an earlier promise over a later write. The attempt found that the exact form of `PromiseKept` is
false (with four calls, one more than the run has): two imports under way at once leave in the Map the entry
that was made first, one tick older than the one a refresh read and extended. The property now grants that
tick. *Logins:* `OnboardingInv` says which row a login in each stage is heading for, that a person with a
contact has one row, that whoever is at a row was led there by the person's own id or contact, and what a
wallet row belongs to: `OnePersonOneUser`, `NobodyElsesUser`, `WalletsOfLogins`.

**WalletCacheProofs.** `WalletChangesShow`: the age of an entry and the ticks it has left never
exceed the bound together, and a copy in a reader's hand has aged by at most the one tick the reader
waited; with that, what a hit or a store shows is in time, for any requests and time to live.
`OneWalletUnlessOverlap`: while no two changes have overlapped, the one under way knows of the
only row that can be active (`ChangesApart`).

**RateLimiterProofs.** `LimitHolds` and `RetryAfterHolds`: the windows of a client do not overlap
(`WindowsApart`), the record counts exactly the requests of the last window
(`RecordCountsWindow`), and what a refused client was told lies after the windows it had used
(`ToldAfterWindows`). `RetryAfterCovers` is the arithmetic: rounding up to seconds never tells less.
`LimiterTypeCorrect` is the type part.

**AccountsProofs.** *Verification* (`NobodyVerifiedWithoutCause`, `StatusFollows`): a save writes
back what was loaded, so `RowOK` must hold of every copy as of the row, and of what a request is
about to do, because its reason was looked at an await before. `completed`, `byHand` and `issued` only grow,
so a reason stays one (`RowOK`); a row that nobody has set by hand was made by a login or by one of
the other changes, none of which separates the columns (`ChangedRow`). *Rewards*
(`OneRewardUnlessOverlap`, `PaidOnceUnlessOverlap`): the invariant says what one request or payer
alone can rely on: that nobody else is looking (`GrantsOK`), that a payer which holds a reward that is
gone was overtaken by the cleanup (`Created`), that the rewards it has loaded and not
yet come to are unpaid, and that what has been paid is completed or about to be (`PaymentsOK`).
*Composition*: the parts share no variable, so each step of `AccountsNext` is a step of one part and
a stutter of the others; `PartsBehave` concludes that a behaviour of `Accounts` is one of each part,
and `AccountsTypesHold` and `AccountsAreSafe` carry all their theorems over to it.

**Only model-checked.** The liveness properties (`EveryRequestAnswered`, `PollingReaderCatchesUp`
and those of `accounts_liveness`): fairness and ENABLED are out of the prover's reach. Absence of
deadlock, where a run checks it, for the same reason. The violations are TLC counterexamples.

## 6. Where the code departs from its documents

- `transaction/services/transaction.service.ts:87` says "Create database transaction for
  atomicity"; the transfer is sent inside it and is not undone with it (`refused_but_paid`).
- `common/enums/transaction-status.enum.ts:12` describes `failed` as "Transaction failed to
  execute", and a contract test wants a 400 for a completed transaction; cancel looks at no
  status (`cancel_after_payment`).
- `transak/dto/transak-webhook.dto.ts:84` says "Unique event ID for idempotency"; the id is only
  logged (`redelivery`).
- `transak/services/transak.service.ts:377` says the webhook's amounts are the "source of truth";
  two webhooks on one pending record mix them (`mixed_orders`).
- `wallet/services/balance-refresh.service.ts:16` says the refresh keeps balances "synchronized
  with the blockchain"; it stores smallest units (`all_balances`).

Not runs of their own, but worth a reader's attention:

- `wallet/services/wallet-balance.service.ts:73` says "Fallback to database balance if blockchain call
  fails", and the interface (`wallet/interfaces/wallet-balance-service.interface.ts:25-28`) promises of
  `getBalanceFromDatabase` "The balance amount from database". Its query selects `balance.balance`
  through `getRawOne`, which names the column `balance_balance`, so `result?.balance || 0` is always 0:
  a client whose RPC call fails is shown 0, and the cache repeats it. `ReadShowsHeldBalance` admits
  exactly this 0 and under exactly these circumstances; it passes, and the documented behaviour is not
  the code's. (`getAllBalances` does read its row: `all_balances`.)
- `auth/controllers/auth.controller.ts:467` says the refresh "Extends session validity", and the
  comments at `para-sdk-session.manager.ts:155-156` and `194` speak of a customised session length.
  `keepSessionAlive` writes 30 minutes whatever the session has left, a JWT or import the length Para is
  configured with: where that is longer, a refresh cuts the entry to 30 minutes, and where it is
  shorter, a JWT or import cuts the 30 minutes that a refresh has just answered. `PromiseKept` says
  what remains, the shorter of the two.
- `transaction/dto/create-transaction.dto.ts:76-82` makes `paraSerializedSession` optional, and
  `solana/services/para-signing.service.ts:55-60` imports the bare token in its place, with the warning
  that this "may fail if signers are not included": after a restart or an expiry such a transfer is
  refused by this server although Para honours the session (`SigningNeedsOnlyPara`).
- `PATCH /user/:id` takes every column of `CreateUserDto` (`user/dto/create-user.dto.ts:80-113`), so a
  client may set `verificationStatus` and `status` without a profile or a review, and apart from each
  other; `POST /user` takes `verificationStatus` as well and always makes the user ACTIVE
  (`user/services/user.service.ts:54-58`), which the column's default leaves pending verification.
- `learning/services/bonk-reward.service.ts:263` says failed rewards are cleaned up "daily at 2 AM";
  nothing calls `cleanupOldFailedRewards`. Were it called, a user whose reward failed could ask for
  another one after thirty days, and a retry under way would insert the deleted one again.
- `UpdateProgressDto` and `CompleteModuleDto` (`learning/controllers/learning.controller.ts:37-44`) have no
  validators, and the global pipe (`src/src/main.ts:96`) sets `forbidNonWhitelisted`: the endpoints that
  report progress and ask for a reward refuse the bodies they document. `Rewards` models the services
  behind them, as they act on a body that gets through.
- `wallet/services/cached-wallet.service.ts:11` says the cache is invalidated "when wallets are
  updated". The endpoints that update wallets call `WalletService`, which does not know the cache:
  `ChangeSeenInTime` states the bound that remains. `GET /wallet` also shows the balances of the
  cached copy, whatever the refresh has invalidated.
- `learning/services/bonk-reward.service.ts:30` says a cron job calls `processPendingRewards`; nothing
  does.  Only the retry of one failed reward has an endpoint.
- `solana/services/solana-health.service.ts:66` waits for an exception of `executeWithRetry`, which
  returns its failures: `getHealthStatus` answers that the network is healthy when every attempt failed.
- A save of a stale user row can bring a removed user back, or take a suspension or verification back;
  `RED` with status `completed` counts as verified; polling or completing the profile lifts a suspension.
- `authProviderId` is not unique: two first logins without email and phone make two users.
  When the serialized session shows no user, the import makes one up, which then registers the
  person's wallet address.
- A disconnected wallet's address can never be connected again: `create` finds it in the inactive row.
- `learning` and `investment` take the user's id from `sessionUser.id`, which is Para's id.

## 7. Abstractions

- `Receive` is validation and address resolution in one step: what they read (users, wallets)
  does not change while the modelled requests run.
- PostgreSQL: READ COMMITTED, row locks from UPDATE to the end, deadlock abort, unique and foreign
  keys and numeric ranges where a statement can meet them. Other statements may fail at any time.
- The chain: a broadcast transfer lands while the sender can pay for it, or is dropped; nothing
  orders it relative to the process. Fees are left out.
- TypeORM's `save` of an order is a SELECT and an UPDATE of the columns that differ. In
  `WalletLedger`, `SaveRow` is one step: the value is a number and the driver returns a string
  for a numeric column, so the column always differs and what the SELECT sees does not matter.
- Amounts of credits stay below a billion tokens (`AmountAssumption`): `Shift` counts the digits
  that a credit joins to a balance up to that size.
- Every webhook carries `partnerCustomerId` of the one modelled user, as the widget sends it.
  Orders of other users touch other records and rows. Orders of other providers have no webhook.
- `balance_history` is written and read by no modelled decision; only the await is kept, and
  `credits` observes its "onramp" rows.
- *Sessions*: a call straddles at most one tick, so requests to Para are shorter than a session. The
  guard's look-up of the user can only refuse. After a failed look-up at Para the JWT and keep-alive
  paths answer from the entry they hold, as in the code. The import of a bare token throws: `extractUserInfo`
  (`para-sdk-session.manager.ts:324-327`) shows that what can be imported is base64 of a JSON object.
- *Logins*: the look-ups of one pass (email, then phone, then Para's id) are one step, and a person's
  contact data does not change. PUT /wallet is in `WalletCache`, not here.
- *Wallets*: a wallet's balances and its other columns are left out of the row. `findByUserId` and the
  `findOne` behind it are one step: both look for the active row. A query lasts at most one tick.
- *User rows*: `save` is one step that writes every column as loaded, because TypeORM compares with
  what the table holds now. A request that replaces names, email or phone may leave the profile
  complete or not, for either of the two checks. POST /user is an initial row: a row is created once.
- *Rewards*: rows are named by the request that inserted them. `transferBonkTokens` is a stub that never
  fails today; the model lets it fail, as its callers are written for. TypeORM's `save` of a deleted row
  inserts it again with its id. The thirty days of the cleanup are left out: any failed reward may be
  that old.
- *Rate limit*: `Date.now()` does not go back; the counters die with the process, which only lets
  more requests through.
- Crashes and failing queries are bounded by `MaxCrashes` and `MaxFailures`, records by `Records`,
  deliveries by `MaxDeliveries`; in `Accounts`, restarts, removals, faults, crashes and retries by the
  constant of that name in each part, reviews by `MaxReviews`, the counted payments of a reward by
  `MaxPayments` and the limiter's clock by `Horizon`. These are the only bounds in guards.

## 8. Not modelled

- *Without a caller that runs*: `processPendingTransactions`, `processPendingOffRampTransactions`,
  `forceRefreshWalletBalances`, `subtractBalance`, `setBalance`, `SessionRefreshService`, the session and
  validation middleware, the rate limiter's subclasses and its namesake in `src/src/common/middleware/`,
  `SolanaMonitorService`, the query result, address resolution and Redis caches,
  `DatabaseTransactionService`, the transaction application service. Four more are modelled although
  nothing in `src/` calls them, because they write rows that others read:
  `processPendingRewards` and `cleanupOldFailedRewards` in `Rewards`, `suspend` and `activate` of
  `UserService` in `Verification`. `OffRampModule` and
  `PaymentModule` are not imported by `src/src/app.module.ts`; the off-ramp rows are modelled because
  Transak's webhooks look into them.
- *Contacts* are created, edited and removed one request at a time and move no money. Two hazards are left
  for a later model: the look before the insert is not atomic, and the sync gives up at the first contact
  that collides with another of the same person, so that those after it are never linked.
- *Investments*: requests insert rows that nothing carries out. *VISA cards*: no guard sets `req.user`,
  so that no request reaches the service.
- *Read-only*: transaction history and statistics, balance aggregation, address resolution.
- *Stateless*: the Solana wrappers and the retry loop, whose outcomes are the environment of the models; the
  widget URL and Transak's access token; the signature of webhooks, which only decides which arrive.
- *Counters and wiring*: the service registry, metrics, health checks, logging, backup, filters, bootstrap.
  The event bus has one publisher and no subscriber.
- `initializeWalletBalances` inserts a new wallet's rows after the wallet; `WalletLedger` starts from a
  wallet without a row, which covers its failure.

Transfers and `WalletLedger` write the same rows but are checked apart: a transfer saves the
balance inside its database transaction and the ledger's calls do so outside of any.

## 9. Plan

Done, in this order: `TransactionService`, `WalletLedger`, `RampOrders`, the parts of `Accounts`,
`AtomicTransfer`; proofs of every safety property the passing runs check.

1. **Proofs about waiting**, as `LocksAreGivenUp` for locks: that a call of `WalletLedger`, a
   request of `RampOrders` or of the parts of `Accounts` which is under way stands at an await whose
   guard holds.
2. **Progress steps**: action properties that say what cannot go back (a record, an applied credit,
   an acknowledged webhook, an attempt), which clients and the liveness arguments rely on.
3. **Contacts**, and transfers and `WalletLedger` on one row.
