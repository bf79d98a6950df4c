------------------------------ MODULE RampOrders ------------------------------
(***************************************************************************)
(* The buy and sell orders of one user: their records in the tables        *)
(* onramp_transactions and offramp_transactions, the requests that create  *)
(* them, Transak's webhooks, the credit that a completed buy order leads   *)
(* to, and PUT /offramp/:id/status.  A worker runs one request at a time;   *)
(* its balance reads and credits are calls of WalletLedger, and it waits   *)
(* where they are under way.                                               *)
(*                                                                         *)
(* repository.save of a row that exists is a SELECT of it and an UPDATE of *)
(* the columns the entity has different: two steps.                        *)
(***************************************************************************)
EXTENDS WalletLedger, FiniteSets

CONSTANTS
    Handler,       \* the requests that run at the same time, "credit" calls of the ledger
    Creator,       \* the requests that create a record, "list" calls of the ledger
    Order,         \* Transak's orders
    Side,          \* isBuyOrSell of each order
    CryptoAmount,  \* cryptoAmount of each order
    Event,         \* the webhooks Transak sends: an order and a status
    MaxDeliveries, \* bound on the deliveries of each webhook
    Records,       \* bound on the records, which are numbered 1 .. Records, oldest first
    PutStatus,     \* the statuses a client may PUT
    PutId          \* the providerTransactionIds a client may PUT along; NoOrder is none

NoOrder == "none"
NoEvent == <<NoOrder, "none">>
Status  == {"pending", "processing", "completed", "failed", "cancelled"}
TransakStatus == {"ORDER_CREATED", "ORDER_PROCESSING", "ORDER_PAYMENT_VERIFYING",
                  "ORDER_COMPLETED", "ORDER_FAILED", "ORDER_CANCELLED"}

ASSUME WorkerAssumption ==
    /\ Call = Handler \cup Creator /\ IsFiniteSet(Creator)
    /\ \A h \in Handler : Kind[h] = "credit"
    /\ \A c \in Creator : Kind[c] = "list"
ASSUME OrderAssumption ==
    /\ NoOrder \notin Order
    /\ Side \in [Order -> {"BUY", "SELL"}]
    /\ CryptoAmount \in [Order -> Credit]
    /\ Event \subseteq Order \X TransakStatus
    /\ MaxDeliveries \in [Event -> Nat]
ASSUME RecordAssumption ==
    Records \in Nat /\ PutStatus \subseteq Status /\ PutId \subseteq Order \cup {NoOrder}

VARIABLES
    record,    \* the rows of both tables, in the order of their creation
    job,       \* what each worker is doing
    delivered, \* how often each webhook was delivered
    acked,     \* the webhooks answered 200 that had met a record
    credits,   \* how often each order was credited: the "onramp" rows of balance_history
    claimed    \* the records each order was ever written into

rampVars == <<record, job, delivered, acked, credits, claimed>>
vars == <<ledgerVars, rampVars>>

Column == {"providerTransactionId", "status", "tokenAmount"}
\* tokenAmount is the order whose cryptoAmount the column holds; the amount a
\* client intends to sell is no order's.
NewRow(table) == [table |-> table, providerTransactionId |-> NoOrder,
                  status |-> "pending", tokenAmount |-> NoOrder]
Idling == [at |-> "idle", event |-> NoEvent, id |-> 0, entity |-> NewRow("BUY"), dirty |-> {}]
Row == [table : {"BUY", "SELL"}, providerTransactionId : Order \cup {NoOrder},
        status : Status, tokenAmount : Order \cup {NoOrder}]

Present == DOMAIN record
Waiting(w) == job[w].at \in {"list", "listAgain", "credit"}
Step(w, j) == job' = [job EXCEPT ![w] = j]

\* Where a request goes on when its call of the ledger has returned.
Resumed(j) == [j EXCEPT !.at = CASE @ = "list" -> "walletsAgain"
                                 [] @ = "listAgain" -> "insert"
                                 [] OTHER -> "selectAgain"]

\* Mutated form: the payment that is being verified counts as completed.
MapVerifyingToCompleted(s) ==
    CASE s = "ORDER_PROCESSING" -> "processing"
      [] s \in {"ORDER_COMPLETED", "ORDER_PAYMENT_VERIFYING"} -> "completed"
      [] s = "ORDER_FAILED" -> "failed"
      [] s = "ORDER_CANCELLED" -> "cancelled"
      [] OTHER -> "pending"

\* mapTransakStatusToOnRamp and mapTransakStatusToOffRamp
MapTransakStatus(s) ==
    CASE s \in {"ORDER_PROCESSING", "ORDER_PAYMENT_VERIFYING"} -> "processing"
      [] s = "ORDER_COMPLETED" -> "completed"
      [] s = "ORDER_FAILED" -> "failed"
      [] s = "ORDER_CANCELLED" -> "cancelled"
      [] OTHER -> "pending"

OrderOf(w) == job[w].event[1]
StatusOf(w) == MapTransakStatus(job[w].event[2])
SideOf(w) == Side[OrderOf(w)]

\* `!transaction.tokenAmount || transaction.tokenAmount <= 0` is Amount <= 0.
Amount(entity) == IF entity.tokenAmount = NoOrder THEN 0 ELSE CryptoAmount[entity.tokenAmount]

RecordsOf(o, table) ==
    {id \in Present : record[id].table = table /\ record[id].providerTransactionId = o}

\* The answer 200 to a webhook.
Acknowledge(w, met) ==
    /\ acked' = IF met THEN acked \cup {job[w].event} ELSE acked
    /\ Step(w, Idling)

-----------------------------------------------------------------------------
(* Mutated forms of definitions below; no specification uses them.             *)

\* The credit is not awaited.
CallReturnsUnawaited(w) ==
    /\ Waiting(w)
    /\ Step(w, Resumed(job[w]))
    /\ UNCHANGED <<ledgerVars, record, delivered, acked, credits, claimed>>

\* creditWallet logs its exception and does not rethrow it.
CallReturnsSwallowed(w) ==
    /\ Waiting(w) /\ at[w] \in Idle
    /\ Step(w, Resumed(job[w]))
    /\ UNCHANGED <<ledgerVars, record, delivered, acked, credits, claimed>>

\* creditWallet increments the row itself.
FindAgainIncrements(w) ==
    /\ job[w].at = "again"
    /\ LET ids == RecordsOf(OrderOf(w), "BUY")
       IN  IF ids = {} THEN Acknowledge(w, TRUE) /\ UNCHANGED ledgerVars
           ELSE \E id \in ids :
                   /\ Step(w, [job[w] EXCEPT !.at = "selectAgain", !.id = id,
                                  !.entity = [record[id] EXCEPT !.status = "completed"]])
                   /\ row' = row + Amount(record[id])
                   /\ UNCHANGED <<at, call, shown, cache, world, acked>>
    /\ UNCHANGED <<record, delivered, credits, claimed>>

-----------------------------------------------------------------------------
RampTypeOK ==
    /\ record \in Seq(Row) /\ Len(record) <= Records
    /\ \A w \in Call :
          /\ job[w].at \in {"idle", "wallets", "walletsAgain", "list", "listAgain", "insert",
                            "byId", "newest", "select", "update", "again", "credit",
                            "selectAgain", "updateAgain", "put"}
          /\ job[w].event \in Event \cup {NoEvent}
          /\ job[w].id \in 0 .. Len(record) /\ job[w].entity \in Row
          /\ job[w].dirty \subseteq Column
          /\ Waiting(w) \/ at[w] \in Idle
    /\ \A e \in Event : delivered[e] \in 0 .. MaxDeliveries[e]
    /\ acked \subseteq {e \in Event : delivered[e] > 0}
    /\ credits \in [Order -> Nat]
    /\ claimed \in [Order -> SUBSET Present]

RampInit ==
    /\ LedgerInit
    /\ record = <<>>
    /\ job = [w \in Call |-> Idling]
    /\ delivered = [e \in Event |-> 0]
    /\ acked = {}
    /\ credits = [o \in Order |-> 0]
    /\ claimed = [o \in Order |-> {}]

-----------------------------------------------------------------------------
\* OnRampService.createTransaction and OffRampService.createOffRampTransaction:
\* getUserWallets, for a buy order twice, then the INSERT.
Create(w, table) ==
    /\ job[w] = Idling
    /\ Len(record) + Cardinality({c \in Creator : job[c] # Idling}) < Records
    /\ Step(w, [Idling EXCEPT !.at = IF table = "BUY" THEN "wallets" ELSE "walletsAgain",
                              !.entity = NewRow(table)])
    /\ UNCHANGED <<ledgerVars, record, delivered, acked, credits, claimed>>

\* getUserWallets finds the active wallet and goes on to its balances; without one the
\* request is refused.
FindWallet(w) ==
    /\ job[w].at \in {"wallets", "walletsAgain"}
    /\ IF active
       THEN /\ Invoke(w, 0)
            /\ Step(w, [job[w] EXCEPT !.at = IF @ = "wallets" THEN "list" ELSE "listAgain"])
       ELSE Step(w, Idling) /\ UNCHANGED ledgerVars
    /\ UNCHANGED <<record, delivered, acked, credits, claimed>>

\* The ledger's call has returned: the request goes on, or is answered with an error.
CallReturns(w) ==
    /\ Waiting(w) /\ at[w] \in Idle
    /\ Step(w, IF at[w] = "failed" THEN Idling ELSE Resumed(job[w]))
    /\ UNCHANGED <<ledgerVars, record, delivered, acked, credits, claimed>>

Insert(w) ==
    /\ job[w].at = "insert"
    /\ record' = Append(record, job[w].entity)
    /\ Step(w, Idling)
    /\ UNCHANGED <<ledgerVars, delivered, acked, credits, claimed>>

\* POST /transak/webhook; nothing is remembered of the deliveries before.
HandleWebhook(w, e) ==
    /\ job[w] = Idling
    /\ delivered[e] < MaxDeliveries[e]
    /\ delivered' = [delivered EXCEPT ![e] = @ + 1]
    /\ Step(w, [Idling EXCEPT !.at = "byId", !.event = e])
    /\ UNCHANGED <<ledgerVars, record, acked, credits, claimed>>

\* The record of row id takes the webhook's data.
Adopt(w, id) ==
    Step(w, [job[w] EXCEPT !.at = "select", !.id = id,
                           !.entity = [record[id] EXCEPT !.providerTransactionId = OrderOf(w),
                                                         !.status = StatusOf(w),
                                                         !.tokenAmount = OrderOf(w)]])

\* findOne by providerTransactionId, which no constraint makes unique.
FindById(w) ==
    /\ job[w].at = "byId"
    /\ LET ids == RecordsOf(OrderOf(w), SideOf(w))
       IN  IF ids = {} THEN Step(w, [job[w] EXCEPT !.at = "newest"])
           ELSE \E id \in ids : Adopt(w, id)
    /\ UNCHANGED <<ledgerVars, record, delivered, acked, credits, claimed>>

\* The newest pending record of the user, partnerCustomerId, whatever order it is for.
\* A webhook that meets no record is logged and answered 200.
FindNewestPending(w) ==
    /\ job[w].at = "newest"
    /\ LET ids == {id \in Present : record[id].table = SideOf(w) /\ record[id].status = "pending"}
       IN  IF ids = {} THEN Acknowledge(w, FALSE)
           ELSE \E id \in ids : (\A old \in ids : old <= id) /\ Adopt(w, id) /\ UNCHANGED acked
    /\ UNCHANGED <<ledgerVars, record, delivered, credits, claimed>>

\* save: SELECT the row to see which columns differ.  The amount of a webhook is a
\* number and the driver returns a string for a numeric column: they always differ.
SelectForSave(w) ==
    /\ job[w].at \in {"select", "selectAgain"}
    /\ LET j == job[w]
       IN  Step(w, [j EXCEPT !.at = IF @ = "select" THEN "update" ELSE "updateAgain",
                             !.dirty = {c \in Column : \/ j.entity[c] # record[j.id][c]
                                                       \/ c = "tokenAmount" /\ j.at = "select"}])
    /\ UNCHANGED <<ledgerVars, record, delivered, acked, credits, claimed>>

\* save: UPDATE those columns.  A completed buy order goes on to its credit.
Update(w) ==
    /\ job[w].at \in {"update", "updateAgain"}
    /\ LET j == job[w]
           o == j.entity.providerTransactionId
       IN  /\ record' = [record EXCEPT ![j.id] =
                            [c \in DOMAIN @ |-> IF c \in j.dirty THEN j.entity[c] ELSE @[c]]]
           /\ claimed' = IF o = NoOrder THEN claimed
                         ELSE [claimed EXCEPT ![o] = @ \cup {j.id}]
           /\ IF j.event = NoEvent THEN Step(w, Idling) /\ UNCHANGED acked
              ELSE IF j.at = "update" /\ SideOf(w) = "BUY" /\ StatusOf(w) = "completed"
              THEN Step(w, [Idling EXCEPT !.at = "again", !.event = j.event]) /\ UNCHANGED acked
              ELSE Acknowledge(w, TRUE)
    /\ UNCHANGED <<ledgerVars, delivered, credits>>

\* OnRampService.updateTransactionStatus: findOne by providerTransactionId again, then
\* creditWallet, which asks for nothing when there is no amount.
FindAgain(w) ==
    /\ job[w].at = "again"
    /\ LET ids == RecordsOf(OrderOf(w), "BUY")
       IN  IF ids = {} THEN Acknowledge(w, TRUE) /\ UNCHANGED ledgerVars
           ELSE \E id \in ids :
                   LET entity == [record[id] EXCEPT !.status = "completed"]
                       j == [job[w] EXCEPT !.id = id, !.entity = entity]
                   IN  /\ IF Amount(entity) <= 0
                          THEN Step(w, [j EXCEPT !.at = "selectAgain"]) /\ UNCHANGED ledgerVars
                          ELSE Step(w, [j EXCEPT !.at = "credit"]) /\ Invoke(w, Amount(entity))
                       /\ UNCHANGED acked
    /\ UNCHANGED <<record, delivered, credits, claimed>>

\* PUT /offramp/:id/status, by the user the record belongs to; the entity carries what
\* the client sent.
PutOffRampStatus(w, id, status, o) ==
    /\ job[w] = Idling
    /\ record[id].table = "SELL"
    /\ Step(w, [Idling EXCEPT !.at = "put", !.id = id,
                   !.entity = [NewRow("SELL") EXCEPT !.status = status,
                                                     !.providerTransactionId = o]])
    /\ UNCHANGED <<ledgerVars, record, delivered, acked, credits, claimed>>

\* OffRampService.updateOffRampStatus loads the row and sets what was sent.
UpdateOffRampStatus(w) ==
    /\ job[w].at = "put"
    /\ LET j == job[w]
           o == j.entity.providerTransactionId
       IN  Step(w, [j EXCEPT !.at = "selectAgain",
                !.entity = [record[j.id] EXCEPT !.status = j.entity.status,
                               !.providerTransactionId = IF o = NoOrder THEN @ ELSE o]])
    /\ UNCHANGED <<ledgerVars, record, delivered, acked, credits, claimed>>

\* A query of the request itself throws: it ends in an error answer.
QueryFails(w) ==
    /\ job[w].at # "idle" /\ ~Waiting(w)
    /\ Step(w, Idling)
    /\ UNCHANGED <<ledgerVars, record, delivered, acked, credits, claimed>>

\* A step of the ledger's call; addBalance's save is the credit.
LedgerProceeds(w) ==
    /\ Proceed(w)
    /\ credits' = IF w \in adding /\ at[w] = "save" /\ at'[w] = "record"
                  THEN [credits EXCEPT ![job[w].entity.tokenAmount] = @ + 1]
                  ELSE credits
    /\ UNCHANGED <<record, job, delivered, acked, claimed>>

ProcessCrashes ==
    /\ Crash
    /\ job' = [w \in Call |-> Idling]
    /\ UNCHANGED <<record, delivered, acked, credits, claimed>>

RampNext ==
    \/ \E w \in Creator : \/ \E table \in {"BUY", "SELL"} : Create(w, table)
                         \/ FindWallet(w) \/ Insert(w)
    \/ \E w \in Handler :
          \/ \E e \in Event : HandleWebhook(w, e)
          \/ \E id \in Present, status \in PutStatus, o \in PutId :
                PutOffRampStatus(w, id, status, o)
          \/ FindById(w) \/ FindNewestPending(w) \/ SelectForSave(w) \/ Update(w)
          \/ FindAgain(w) \/ UpdateOffRampStatus(w)
    \/ \E w \in Call : CallReturns(w) \/ LedgerProceeds(w) \/ QueryFails(w)
    \/ ProcessCrashes
    \/ Surroundings /\ UNCHANGED rampVars

RampSpec == RampInit /\ [][RampNext]_vars

-----------------------------------------------------------------------------
(* Properties. *)

Completed(o) == <<o, "ORDER_COMPLETED">>

\* No record of o was ever written by another order.
Alone(o) == \A p \in Order \ {o} : claimed[p] \cap claimed[o] = {}

\* No credit comes from nowhere: through failing queries, crashes and deliveries that
\* overlap, an order that shares no record is credited at most once per delivery of its
\* own ORDER_COMPLETED, and a sell order never.
CreditsNeedDeliveries ==
    \A o \in Order : Alone(o) =>
        credits[o] <= IF Side[o] = "BUY" /\ Completed(o) \in Event
                      THEN delivered[Completed(o)] ELSE 0

\* A completed buy order that was answered 200, so that Transak will not send it again,
\* has been credited, unless it shares a record with another order.
AcknowledgedMeansCredited ==
    \A o \in Order :
        Completed(o) \in acked /\ Side[o] = "BUY" /\ CryptoAmount[o] > 0 /\ Alone(o)
        => credits[o] > 0

\* "Update amounts from webhook (source of truth)", says handleOnRampWebhook: the amount
\* a buy record holds, and its credit takes, is that of the order the record names.
\* The code does not have this property.
AmountIsOfNamedOrder ==
    \A id \in Present : record[id].table = "BUY" =>
        record[id].providerTransactionId = record[id].tokenAmount

\* "Unique event ID for idempotency", says the webhook's DTO: an order is credited
\* once.  The code reads the ID for its log only and does not have this property.
SingleCredit == \A o \in Order : credits[o] <= 1

=============================================================================
