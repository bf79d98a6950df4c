--------------------------- MODULE RampOrdersProofs ---------------------------
(***************************************************************************)
(* The requests that run on ramp orders use the ledger as WalletLedger      *)
(* allows, for any number of requests, orders, records and deliveries: what *)
(* is proved of the ledger holds of it inside RampOrders.  And for all of   *)
(* them a completed buy order that was answered 200 has been credited, and  *)
(* no order more often than its completion was delivered, as long as it     *)
(* shares no record.                                                        *)
(***************************************************************************)
EXTENDS RampOrders, WalletLedgerProofs, FiniteSetTheorems

JobLabel == {"idle", "wallets", "walletsAgain", "list", "listAgain", "insert", "byId",
             "newest", "select", "update", "again", "credit", "selectAgain",
             "updateAgain", "put"}
JobType == [at : JobLabel, event : Event \cup {NoEvent}, id : Nat, entity : Row,
            dirty : SUBSET Column]
Busy == {c \in Creator : job[c] # Idling}

\* A request knows the webhook it answers, which was delivered, and the record it
\* works on, and it rests only while no call of its is under way.
JobOK(w) ==
    /\ job[w].at \in {"byId", "newest", "select", "update", "again"} => job[w].event \in Event
    /\ job[w].event \in Event => delivered[job[w].event] > 0
    /\ job[w].id \in 0 .. Len(record)
    /\ job[w].at \in {"select", "update", "selectAgain", "updateAgain", "put", "credit"} =>
          job[w].id > 0
    /\ Waiting(w) \/ at[w] \in Idle

RampInv ==
    /\ record \in Seq(Row)
    /\ Len(record) + Cardinality(Busy) <= Records
    /\ job \in [Call -> JobType]
    /\ \A w \in Call : JobOK(w)
    /\ delivered \in [Event -> Nat]
    /\ \A e \in Event : delivered[e] <= MaxDeliveries[e]
    /\ acked \subseteq {e \in Event : delivered[e] > 0}
    /\ credits \in [Order -> Nat]
    /\ claimed \in [Order -> SUBSET Present]

-----------------------------------------------------------------------------
(* Facts about the operators. *)

LEMMA IdlingType == Idling \in JobType /\ \A table \in {"BUY", "SELL"} : NewRow(table) \in Row
  BY DEF Idling, JobType, NewRow, Row, JobLabel, NoEvent, Status

LEMMA EventType ==
    ASSUME NEW e \in Event
    PROVE  e[1] \in Order /\ Side[e[1]] \in {"BUY", "SELL"} /\ MapTransakStatus(e[2]) \in Status
  BY OrderAssumption DEF MapTransakStatus, Status

\* An UPDATE of some columns leaves a row.
LEMMA MergedRow ==
    ASSUME NEW old \in Row, NEW new \in Row, NEW dirty \in SUBSET Column
    PROVE  [c \in DOMAIN old |-> IF c \in dirty THEN new[c] ELSE old[c]] \in Row
  BY DEF Row

LEMMA BusyFinite == IsFiniteSet(Busy) /\ Cardinality(Busy) \in Nat
  BY WorkerAssumption, FS_Subset, FS_CardinalityType DEF Busy

LEMMA RampInvInit == RampInit => RampInv
<1> SUFFICES ASSUME RampInit PROVE RampInv
  OBVIOUS
<1>1. Busy = {} /\ Cardinality(Busy) = 0
  <2>1. Busy = {}
    BY WorkerAssumption DEF RampInit, Busy
  <2> QED
    BY <2>1, FS_EmptySet
<1>2. record \in Seq(Row) /\ Len(record) = 0 /\ Len(record) + Cardinality(Busy) <= Records
  BY <1>1, RecordAssumption DEF RampInit
<1>3. job \in [Call -> JobType]
  BY IdlingType DEF RampInit
<1>4. \A w \in Call : JobOK(w)
  <2> TAKE w \in Call
  <2>1. job[w] = Idling /\ at[w] \in Idle
    BY DEF RampInit, LedgerInit, Idle
  <2>2. Idling.event \notin Event
    BY OrderAssumption DEF Idling, NoEvent
  <2> QED
    BY <1>2, <2>1, <2>2 DEF JobOK, Idling
<1>5. delivered \in [Event -> Nat] /\ \A e \in Event : delivered[e] <= MaxDeliveries[e]
  BY OrderAssumption DEF RampInit
<1>6. acked = {} /\ credits \in [Order -> Nat] /\ claimed \in [Order -> SUBSET Present]
  BY DEF RampInit
<1> QED
  BY <1>2, <1>3, <1>4, <1>5, <1>6 DEF RampInv

-----------------------------------------------------------------------------
(* Every step is a step of the ledger, or leaves it alone. *)

\* The amount that creditWallet hands to addBalance is one the ledger knows.
LEMMA CreditedAmount ==
    ASSUME RampInv, NEW id \in Present, NEW entity,
           entity = [record[id] EXCEPT !.status = "completed"], ~(Amount(entity) <= 0)
    PROVE  Amount(entity) \in Credit
<1>1. record[id] \in Row
  BY DEF RampInv, Present
<1>2. entity.tokenAmount = record[id].tokenAmount
  BY <1>1 DEF Row
<1>3. entity.tokenAmount \in Order
  BY <1>1, <1>2 DEF Amount, Row
<1>4. NoOrder \notin Order
  BY OrderAssumption
<1> QED
  BY <1>3, <1>4, OrderAssumption DEF Amount

LEMMA RampStepIsLedgerStep ==
    ASSUME RampInv, [RampNext]_vars PROVE [LedgerNext]_ledgerVars
<1>1. ASSUME NEW w \in Creator, FindWallet(w) PROVE [LedgerNext]_ledgerVars
  <2>1. w \in Call /\ 0 \in (IF Kind[w] = "credit" THEN Credit ELSE {0})
    BY WorkerAssumption
  <2> QED
    BY <1>1, <2>1 DEF FindWallet, LedgerNext
<1>2. ASSUME NEW w \in Handler, FindAgain(w) PROVE [LedgerNext]_ledgerVars
  <2>1. w \in Call /\ Kind[w] = "credit"
    BY WorkerAssumption
  <2>2. CASE RecordsOf(OrderOf(w), "BUY") = {}
    BY <1>2, <2>2 DEF FindAgain
  <2>3. CASE RecordsOf(OrderOf(w), "BUY") # {}
    <3>1. PICK id \in RecordsOf(OrderOf(w), "BUY") :
             LET entity == [record[id] EXCEPT !.status = "completed"]
             IN  UNCHANGED ledgerVars \/ (~(Amount(entity) <= 0) /\ Invoke(w, Amount(entity)))
      BY <1>2, <2>3 DEF FindAgain
    <3> DEFINE entity == [record[id] EXCEPT !.status = "completed"]
    <3>2. CASE ~(Amount(entity) <= 0) /\ Invoke(w, Amount(entity))
      <4>1. Amount(entity) \in Credit
        BY <3>2, CreditedAmount DEF RecordsOf
      <4> QED
        BY <2>1, <3>2, <4>1 DEF LedgerNext
    <3> QED
      BY <3>1, <3>2
  <2> QED
    BY <2>2, <2>3
<1>3. ASSUME NEW w \in Call, LedgerProceeds(w) PROVE [LedgerNext]_ledgerVars
  BY <1>3 DEF LedgerProceeds, LedgerNext
<1>4. CASE ProcessCrashes \/ Surroundings
  BY <1>4 DEF ProcessCrashes, LedgerNext
<1>5. CASE UNCHANGED ledgerVars
  BY <1>5
<1> QED
  BY <1>1, <1>2, <1>3, <1>4, <1>5
     DEF RampNext, vars, Create, Insert, HandleWebhook, PutOffRampStatus, FindById,
         FindNewestPending, SelectForSave, Update, UpdateOffRampStatus, CallReturns, QueryFails

-----------------------------------------------------------------------------
(* The invariant is preserved. *)

\* A step of the ledger's call c moves no other call.
LEMMA OneCallMoves ==
    ASSUME TypeInv, NEW c \in Call, NEW amount, Invoke(c, amount) \/ Proceed(c),
           NEW x \in Call \ {c}
    PROVE  at'[x] = at[x]
<1> USE DEF TypeInv, CallsOK
<1>1. CASE Invoke(c, amount)
  BY <1>1 DEF Invoke, Return
<1>2. CASE Proceed(c)
  BY <1>2 DEF Proceed, LookUpWallet, GetTokenBalance, LoadRow, SaveRow, RecordBalanceChange,
              GetBalanceFromDatabase, GetAllBalancesFromDatabase, FallBack, InvalidateWalletCache,
              AwaitFails, Throw, Goto, Return, Answer, GetBalanceReturns, UpdateBalanceReturns
<1> QED
  BY <1>1, <1>2

\* What remains to be shown of a step of worker w, whose job becomes j.
LEMMA WorkerSteps ==
    ASSUME RampInv, NEW w \in Call, NEW j \in JobType, Step(w, j),
           record' \in Seq(Row), Len(record) <= Len(record'),
           delivered' \in [Event -> Nat], \A e \in Event : delivered[e] <= delivered'[e],
           \A x \in Call \ {w} : at'[x] = at[x],
           JobOK(w)'
    PROVE  job' \in [Call -> JobType] /\ \A x \in Call : JobOK(x)'
<1>1. job' \in [Call -> JobType] /\ \A x \in Call \ {w} : job'[x] = job[x]
  BY DEF RampInv, Step
<1>2. ASSUME NEW x \in Call \ {w} PROVE JobOK(x)'
  <2>1. JobOK(x) /\ job'[x] = job[x] /\ at'[x] = at[x] /\ job[x] \in JobType
    BY <1>1 DEF RampInv
  <2>2. job[x].event \in Event => delivered[job[x].event] > 0 /\ delivered'[job[x].event] > 0
    BY <2>1 DEF JobOK, RampInv
  <2>3. Len(record) \in Nat /\ Len(record') \in Nat
    BY DEF RampInv
  <2> QED
    BY <2>1, <2>2, <2>3 DEF JobOK, Waiting
<1> QED
  BY <1>1, <1>2

\* A step that starts no creation leaves as much room for records.
LEMMA RoomKept ==
    ASSUME RampInv, NEW w \in Call, NEW j, Step(w, j), UNCHANGED record,
           w \in Handler \/ job[w] # Idling
    PROVE  Len(record') + Cardinality(Busy') <= Records
<1>1. Busy' \subseteq Busy
  BY WorkerAssumption DEF Busy, Step, RampInv
<1>2. Cardinality(Busy') <= Cardinality(Busy) /\ Cardinality(Busy') \in Nat
  BY <1>1, BusyFinite, FS_Subset, FS_CardinalityType
<1> QED
  BY <1>2, BusyFinite, RecordAssumption DEF RampInv

\* The whole invariant after a step that moves worker w to j and touches no more than
\* acked and the ledger besides.
LEMMA PlainStep ==
    ASSUME RampInv, NEW w \in Call, NEW j \in JobType, Step(w, j),
           UNCHANGED <<record, delivered, credits, claimed>>,
           acked' \subseteq acked \cup {e \in Event : delivered[e] > 0},
           w \in Handler \/ job[w] # Idling,
           \A x \in Call \ {w} : at'[x] = at[x],
           JobOK(w)'
    PROVE  RampInv'
<1>1. record' \in Seq(Row) /\ Len(record) <= Len(record')
  BY DEF RampInv
<1>2. delivered' \in [Event -> Nat] /\ \A e \in Event : delivered[e] <= delivered'[e]
  BY DEF RampInv
<1>3. job' \in [Call -> JobType] /\ \A x \in Call : JobOK(x)'
  BY <1>1, <1>2, WorkerSteps
<1>4. Len(record') + Cardinality(Busy') <= Records
  BY RoomKept
<1> QED
  BY <1>1, <1>2, <1>3, <1>4 DEF RampInv, Present

\* A request that ends.
LEMMA EndStep ==
    ASSUME RampInv, NEW w \in Call, Step(w, Idling), at[w] \in Idle,
           UNCHANGED <<ledgerVars, record, delivered, credits, claimed>>,
           acked' \subseteq acked \cup {e \in Event : delivered[e] > 0},
           w \in Handler \/ job[w] # Idling
    PROVE  RampInv'
<1>1. job'[w] = Idling
  BY DEF Step, RampInv
<1>2. Idling.event \notin Event
  BY OrderAssumption DEF Idling, NoEvent
<1>3. JobOK(w)'
  BY <1>1, <1>2 DEF JobOK, Idling, ledgerVars, RampInv
<1> QED
  BY <1>3, IdlingType, PlainStep DEF ledgerVars

\* The steps that create a record.
LEMMA CreatorSteps ==
    ASSUME RampInv, TypeInv, NEW w \in Creator,
           \/ \E table \in {"BUY", "SELL"} : Create(w, table)
           \/ FindWallet(w) \/ Insert(w)
    PROVE  RampInv'
<1>0. w \in Call /\ JobOK(w) /\ job[w] \in JobType
  BY WorkerAssumption DEF RampInv
<1>1. ASSUME NEW table \in {"BUY", "SELL"}, Create(w, table) PROVE RampInv'
  <2> DEFINE j == [Idling EXCEPT !.at = IF table = "BUY" THEN "wallets" ELSE "walletsAgain",
                                 !.entity = NewRow(table)]
  <2>1. j \in JobType /\ Step(w, j)
    BY <1>1, IdlingType DEF Create, JobType, JobLabel
  <2>2. job'[w] = j /\ at[w] \in Idle /\ UNCHANGED <<ledgerVars, record, delivered>>
    BY <1>0, <1>1, <2>1 DEF Create, Step, RampInv, JobOK, Waiting, Idling
  <2>3. Idling.event \notin Event
    BY OrderAssumption DEF Idling, NoEvent
  <2>4. JobOK(w)'
    BY <2>2, <2>3 DEF JobOK, Idling, ledgerVars, RampInv
  <2>5. job' \in [Call -> JobType] /\ \A x \in Call : JobOK(x)'
    BY <1>0, <2>1, <2>2, <2>4, WorkerSteps DEF ledgerVars, RampInv
  <2>6. Len(record') + Cardinality(Busy') <= Records
    <3>1. Busy' \subseteq Busy \cup {w} /\ w \notin Busy
      BY <1>0, <1>1, <2>1 DEF Create, Busy, Step, RampInv
    <3>2. Cardinality(Busy \cup {w}) = Cardinality(Busy) + 1
      BY <3>1, BusyFinite, FS_AddElement
    <3>3. Cardinality(Busy') <= Cardinality(Busy) + 1 /\ Cardinality(Busy') \in Nat
      BY <3>1, <3>2, BusyFinite, FS_AddElement, FS_Subset, FS_CardinalityType
    <3>4. Len(record) + Cardinality(Busy) < Records /\ Len(record) \in Nat
      BY <1>1 DEF Create, Busy, RampInv
    <3> QED
      BY <2>2, <3>3, <3>4, BusyFinite, RecordAssumption
  <2> QED
    BY <1>1, <2>2, <2>5, <2>6 DEF Create, RampInv, Present
<1>2. CASE FindWallet(w)
  <2>1. CASE active
    <3> DEFINE j == [job[w] EXCEPT !.at = IF @ = "wallets" THEN "list" ELSE "listAgain"]
    <3>1. j \in JobType /\ Step(w, j) /\ j.at \in {"list", "listAgain"} /\ job[w] # Idling
      BY <1>0, <1>2, <2>1 DEF FindWallet, JobType, JobLabel, Idling
    <3>2. job'[w] = j /\ j.event = job[w].event /\ j.id = job[w].id
      BY <1>0, <3>1 DEF Step, RampInv, JobType
    <3>3. JobOK(w)'
      BY <1>0, <1>2, <3>1, <3>2 DEF FindWallet, JobOK, Waiting
    <3>4. \A x \in Call \ {w} : at'[x] = at[x]
      BY <1>0, <1>2, <2>1, OneCallMoves DEF FindWallet
    <3> HIDE DEF j
    <3> QED
      BY <1>0, <1>2, <3>1, <3>3, <3>4, PlainStep DEF FindWallet
  <2>2. CASE ~active
    <3>1. at[w] \in Idle /\ job[w] # Idling
      BY <1>0, <1>2 DEF FindWallet, JobOK, Waiting, Idling
    <3>2. Step(w, Idling) /\ UNCHANGED <<ledgerVars, record, delivered, acked, credits, claimed>>
      BY <1>2, <2>2 DEF FindWallet
    <3> QED
      BY <1>0, <3>1, <3>2, EndStep
  <2> QED
    BY <2>1, <2>2
<1>3. CASE Insert(w)
  <2>1. record' = Append(record, job[w].entity) /\ job[w].entity \in Row
    BY <1>0, <1>3 DEF Insert, JobType
  <2>2. record' \in Seq(Row) /\ Len(record') = Len(record) + 1 /\ Len(record) \in Nat
    BY <2>1 DEF RampInv
  <2>3. job'[w] = Idling /\ at[w] \in Idle /\ job[w] # Idling
    BY <1>0, <1>3 DEF Insert, Step, RampInv, JobOK, Waiting, Idling
  <2>4. Idling.event \notin Event
    BY OrderAssumption DEF Idling, NoEvent
  <2>5. JobOK(w)'
    BY <1>3, <2>2, <2>3, <2>4 DEF Insert, JobOK, Idling, ledgerVars
  <2>6. job' \in [Call -> JobType] /\ \A x \in Call : JobOK(x)'
    <3>1. Step(w, Idling) /\ UNCHANGED <<at, delivered>>
      BY <1>3 DEF Insert, ledgerVars
    <3>2. delivered' \in [Event -> Nat] /\ \A e \in Event : delivered[e] <= delivered'[e]
      BY <3>1 DEF RampInv
    <3>3. Len(record) <= Len(record')
      BY <2>2
    <3> QED
      BY <1>0, <2>2, <2>5, <3>1, <3>2, <3>3, IdlingType, WorkerSteps
  <2>7. Len(record') + Cardinality(Busy') <= Records
    <3>1. Busy' = Busy \ {w} /\ w \in Busy
      BY <1>0, <1>3, <2>3 DEF Insert, Busy, Step, RampInv
    <3>2. Cardinality(Busy') = Cardinality(Busy) - 1
      BY <3>1, BusyFinite, FS_RemoveElement
    <3> QED
      BY <2>2, <3>2, BusyFinite, RecordAssumption DEF RampInv
  <2>8. claimed' \in [Order -> SUBSET Present']
    BY <1>3, <2>2 DEF Insert, RampInv, Present
  <2> QED
    BY <1>3, <2>2, <2>6, <2>7, <2>8 DEF Insert, RampInv
<1> QED
  BY <1>1, <1>2, <1>3

\* The steps of a request that move it to another await and nothing else.
LEMMA MoveStep ==
    ASSUME RampInv, NEW w \in Call, NEW j \in JobType, Step(w, j),
           at[w] \in Idle, j.at # "idle" => j.at \notin {"list", "listAgain", "credit"},
           j.at \in {"byId", "newest", "select", "update", "again"} => j.event \in Event,
           j.event = job[w].event \/ j.event = NoEvent,
           j.id \in 0 .. Len(record),
           j.at \in {"select", "update", "selectAgain", "updateAgain", "put"} => j.id > 0,
           UNCHANGED <<ledgerVars, record, delivered, acked, credits, claimed>>,
           w \in Handler \/ job[w] # Idling
    PROVE  RampInv'
<1>1. job'[w] = j
  BY DEF Step, RampInv
<1>2. NoEvent \notin Event
  BY OrderAssumption DEF NoEvent
<1>3. j.at # "credit"
  OBVIOUS
<1>4. JobOK(w)
  BY DEF RampInv
<1>5. JobOK(w)'
  BY <1>1, <1>2, <1>3, <1>4 DEF JobOK, ledgerVars
<1> QED
  BY <1>5, PlainStep DEF ledgerVars

LEMMA AdoptStep ==
    ASSUME RampInv, NEW w \in Call, NEW id \in Present, Adopt(w, id),
           job[w].at \in {"byId", "newest"}, w \in Handler,
           UNCHANGED <<ledgerVars, record, delivered, acked, credits, claimed>>
    PROVE  RampInv'
<1> DEFINE entity == [record[id] EXCEPT !.providerTransactionId = OrderOf(w),
                                        !.status = StatusOf(w),
                                        !.tokenAmount = OrderOf(w)]
           j == [job[w] EXCEPT !.at = "select", !.id = id, !.entity = entity]
<1>1. job[w] \in JobType /\ JobOK(w) /\ job[w].event \in Event
  BY DEF RampInv, JobOK
<1>2. OrderOf(w) \in Order /\ StatusOf(w) \in Status
  BY <1>1, EventType DEF OrderOf, StatusOf
<1>3. record[id] \in Row /\ id \in 1 .. Len(record) /\ id \in Nat
  BY DEF RampInv, Present
<1>4. entity \in Row
  BY <1>2, <1>3 DEF Row
<1> HIDE DEF entity
<1>5. j \in JobType /\ j.at = "select" /\ j.event = job[w].event /\ j.id = id
  BY <1>1, <1>3, <1>4 DEF JobType, JobLabel
<1>6. at[w] \in Idle
  BY <1>1 DEF JobOK, Waiting
<1>7. Step(w, j)
  BY DEF Adopt, entity
<1> HIDE DEF j
<1> QED
  BY <1>1, <1>3, <1>5, <1>6, <1>7, MoveStep

\* The answer to a webhook.
LEMMA AcknowledgeStep ==
    ASSUME RampInv, NEW w \in Handler, NEW met \in BOOLEAN, Acknowledge(w, met),
           job[w].event \in Event, ~Waiting(w),
           UNCHANGED <<ledgerVars, record, delivered, credits, claimed>>
    PROVE  RampInv'
<1>1. w \in Call /\ JobOK(w)
  BY WorkerAssumption DEF RampInv
<1>2. at[w] \in Idle /\ delivered[job[w].event] > 0
  BY <1>1 DEF JobOK
<1>3. acked' \subseteq acked \cup {e \in Event : delivered[e] > 0} /\ Step(w, Idling)
  BY <1>2 DEF Acknowledge
<1> QED
  BY <1>1, <1>2, <1>3, EndStep

LEMMA UpdateStep ==
    ASSUME RampInv, NEW w \in Handler, Update(w) PROVE RampInv'
<1> DEFINE j == job[w]
           o == j.entity.providerTransactionId
           merged == [c \in DOMAIN record[j.id] |->
                        IF c \in j.dirty THEN j.entity[c] ELSE record[j.id][c]]
<1>1. w \in Call /\ JobOK(w) /\ j \in JobType /\ j.at \in {"update", "updateAgain"}
  BY WorkerAssumption DEF RampInv, Update
<1>2. j.id \in 1 .. Len(record) /\ record[j.id] \in Row /\ j.entity \in Row /\ at[w] \in Idle
  BY <1>1 DEF RampInv, JobOK, JobType, Waiting
<1>3. merged \in Row
  BY <1>1, <1>2, MergedRow DEF JobType
<1>4. record' = [record EXCEPT ![j.id] = merged]
  BY DEF Update
<1> HIDE DEF merged
<1>5. record' \in Seq(Row) /\ Len(record') = Len(record) /\ Present' = Present
  BY <1>2, <1>3, <1>4 DEF RampInv, Present
<1>6. claimed' \in [Order -> SUBSET Present']
  BY <1>1, <1>2, <1>5 DEF Update, RampInv, Row, Present
<1>7. PICK next \in {Idling, [Idling EXCEPT !.at = "again", !.event = j.event]} :
         /\ Step(w, next)
         /\ next # Idling => j.event # NoEvent
         /\ acked' \subseteq acked \cup {j.event}
         /\ acked' # acked => j.event # NoEvent
  BY DEF Update, Acknowledge
<1>8. next \in JobType
  BY <1>1, IdlingType DEF JobType, JobLabel
<1>9. job'[w] = next /\ job' = [job EXCEPT ![w] = next]
  BY <1>1, <1>7 DEF Step, RampInv
<1>10. UNCHANGED <<at, delivered, credits>>
  BY DEF Update, ledgerVars
<1>11. j.event # NoEvent => j.event \in Event /\ delivered[j.event] > 0
  BY <1>1 DEF JobType, JobOK
<1>12. next.at \in {"idle", "again"} /\ next.id = 0 /\ (next = Idling \/ next.event = j.event)
  <2> DEFINE resumed == [Idling EXCEPT !.at = "again", !.event = j.event]
  <2>1. resumed.at = "again" /\ resumed.id = 0 /\ resumed.event = j.event
    BY DEF Idling
  <2>2. Idling.at = "idle" /\ Idling.id = 0
    BY DEF Idling
  <2>3. next = Idling \/ next = resumed
    OBVIOUS
  <2> HIDE DEF resumed
  <2> QED
    BY <2>1, <2>2, <2>3
<1>13. Idling.event \notin Event /\ Idling.at = "idle"
  BY OrderAssumption DEF Idling, NoEvent
<1>14. JobOK(w)'
  <2>1. Len(record') \in Nat
    BY <1>5
  <2>2. CASE next = Idling
    BY <1>2, <1>9, <1>10, <1>12, <1>13, <2>1, <2>2 DEF JobOK
  <2>3. CASE next # Idling
    <3>1. next.event = j.event /\ j.event \in Event /\ delivered'[j.event] > 0
      BY <1>7, <1>10, <1>11, <1>12, <2>3
    <3> QED
      BY <1>2, <1>9, <1>10, <1>12, <2>1, <3>1 DEF JobOK
  <2> QED
    BY <2>2, <2>3
<1>15. delivered' \in [Event -> Nat] /\ \A e \in Event : delivered[e] <= delivered'[e]
  BY <1>10 DEF RampInv
<1>16. Len(record) <= Len(record')
  BY <1>5 DEF RampInv
<1>17. job' \in [Call -> JobType] /\ \A x \in Call : JobOK(x)'
  BY <1>1, <1>5, <1>7, <1>8, <1>10, <1>14, <1>15, <1>16, WorkerSteps
<1>18. Len(record') + Cardinality(Busy') <= Records
  <2>1. Busy' = Busy
    BY <1>9, WorkerAssumption DEF Busy, RampInv
  <2> QED
    BY <1>5, <2>1 DEF RampInv
<1>19. acked' \subseteq {e \in Event : delivered'[e] > 0}
  BY <1>7, <1>10, <1>11 DEF RampInv
<1> QED
  BY <1>5, <1>6, <1>10, <1>17, <1>18, <1>19 DEF RampInv

LEMMA HandleWebhookStep ==
    ASSUME RampInv, NEW w \in Handler, NEW e \in Event, HandleWebhook(w, e) PROVE RampInv'
<1> DEFINE j == [Idling EXCEPT !.at = "byId", !.event = e]
<1>1. w \in Call /\ JobOK(w) /\ job[w] = Idling
  BY WorkerAssumption DEF RampInv, HandleWebhook
<1>2. at[w] \in Idle
  BY <1>1 DEF JobOK, Waiting, Idling
<1>3. j \in JobType /\ j.at = "byId" /\ j.event = e /\ j.id = 0
  BY IdlingType DEF JobType, JobLabel, Idling
<1>4. Step(w, j)
  BY DEF HandleWebhook
<1> HIDE DEF j
<1>5. job'[w] = j
  BY <1>1, <1>4 DEF Step, RampInv
<1>6. /\ delivered' \in [Event -> Nat]
      /\ \A x \in Event : delivered[x] <= delivered'[x] /\ delivered'[x] <= MaxDeliveries[x]
      /\ delivered'[e] > 0
  <2>1. delivered' = [delivered EXCEPT ![e] = @ + 1] /\ delivered[e] < MaxDeliveries[e]
    BY DEF HandleWebhook
  <2>2. delivered \in [Event -> Nat] /\ \A x \in Event : delivered[x] <= MaxDeliveries[x]
    BY DEF RampInv
  <2>3. \A x \in Event : MaxDeliveries[x] \in Nat
    BY OrderAssumption
  <2> QED
    BY <2>1, <2>2, <2>3
<1>7. UNCHANGED <<at, record, acked, credits, claimed>>
  BY DEF HandleWebhook, ledgerVars
<1>8. Len(record') \in Nat /\ record' \in Seq(Row) /\ Len(record) <= Len(record')
  BY <1>7 DEF RampInv
<1>9. JobOK(w)'
  BY <1>2, <1>3, <1>5, <1>6, <1>7, <1>8 DEF JobOK
<1>10. job' \in [Call -> JobType] /\ \A x \in Call : JobOK(x)'
  BY <1>1, <1>3, <1>4, <1>6, <1>7, <1>8, <1>9, WorkerSteps
<1>11. Len(record') + Cardinality(Busy') <= Records
  BY <1>1, <1>4, <1>7, RoomKept
<1>12. acked' \subseteq {x \in Event : delivered'[x] > 0}
  BY <1>6, <1>7 DEF RampInv
<1> QED
  BY <1>6, <1>7, <1>8, <1>10, <1>11, <1>12 DEF RampInv, Present

LEMMA PutSteps ==
    ASSUME RampInv, NEW w \in Handler,
           \/ \E id \in Present, status \in PutStatus, o \in PutId :
                 PutOffRampStatus(w, id, status, o)
           \/ UpdateOffRampStatus(w)
    PROVE  RampInv'
<1>0. w \in Call /\ JobOK(w) /\ job[w] \in JobType
  BY WorkerAssumption DEF RampInv
<1>1. ASSUME NEW id \in Present, NEW status \in PutStatus, NEW o \in PutId,
             PutOffRampStatus(w, id, status, o)
      PROVE  RampInv'
  <2> DEFINE entity == [NewRow("SELL") EXCEPT !.status = status, !.providerTransactionId = o]
             j == [Idling EXCEPT !.at = "put", !.id = id, !.entity = entity]
  <2>1. entity \in Row
    BY IdlingType, RecordAssumption DEF Row
  <2>2. id \in Nat /\ id \in 1 .. Len(record) /\ Len(record) \in Nat
    BY DEF Present, RampInv
  <2>3. Step(w, j) /\ job[w] = Idling
    BY <1>1 DEF PutOffRampStatus
  <2> HIDE DEF entity
  <2>4. j \in JobType /\ j.at = "put" /\ j.id = id /\ j.event = NoEvent
    BY <2>1, <2>2, IdlingType DEF JobType, JobLabel, Idling
  <2>5. at[w] \in Idle
    BY <1>0, <2>3 DEF JobOK, Waiting, Idling
  <2> HIDE DEF j
  <2> QED
    <3>1. UNCHANGED <<ledgerVars, record, delivered, acked, credits, claimed>>
      BY <1>1 DEF PutOffRampStatus
    <3>2. j.id \in 0 .. Len(record) /\ j.id > 0
      BY <2>2, <2>4
    <3> QED
      BY <1>0, <2>3, <2>4, <2>5, <3>1, <3>2, MoveStep
<1>2. CASE UpdateOffRampStatus(w)
  <2> DEFINE o == job[w].entity.providerTransactionId
             old == record[job[w].id]
             entity == [old EXCEPT !.status = job[w].entity.status,
                                   !.providerTransactionId = IF o = NoOrder THEN @ ELSE o]
             j == [job[w] EXCEPT !.at = "selectAgain", !.entity = entity]
  <2>1. job[w].at = "put" /\ job[w].entity \in Row /\ job[w].id \in 1 .. Len(record)
    BY <1>0, <1>2 DEF UpdateOffRampStatus, JobOK, JobType, RampInv
  <2>2. old \in Row
    BY <2>1 DEF RampInv
  <2> HIDE DEF old
  <2>3. entity \in Row
    BY <2>1, <2>2 DEF Row
  <2>4. Step(w, j)
    BY <1>2 DEF UpdateOffRampStatus, old
  <2> HIDE DEF entity
  <2>5. j \in JobType /\ j.at = "selectAgain" /\ j.id = job[w].id /\ j.event = job[w].event
    BY <1>0, <2>3 DEF JobType, JobLabel
  <2>6. at[w] \in Idle
    BY <1>0, <2>1 DEF JobOK, Waiting
  <2>7. j.id \in 0 .. Len(record) /\ j.id > 0
    BY <2>1, <2>5 DEF RampInv
  <2> HIDE DEF j
  <2> QED
    BY <1>0, <1>2, <2>4, <2>5, <2>6, <2>7, MoveStep DEF UpdateOffRampStatus
<1> QED
  BY <1>1, <1>2

LEMMA FindSteps ==
    ASSUME RampInv, NEW w \in Handler, FindById(w) \/ FindNewestPending(w) \/ SelectForSave(w)
    PROVE  RampInv'
<1>0. w \in Call /\ JobOK(w) /\ job[w] \in JobType /\ Len(record) \in Nat
  BY WorkerAssumption DEF RampInv
<1>1. CASE FindById(w)
  <2> DEFINE ids == RecordsOf(OrderOf(w), SideOf(w))
             j == [job[w] EXCEPT !.at = "newest"]
  <2>1. job[w].at = "byId"
    BY <1>1 DEF FindById
  <2>2. CASE ids = {}
    <3>1. j \in JobType /\ j.at = "newest" /\ j.id = job[w].id /\ j.event = job[w].event
      BY <1>0 DEF JobType, JobLabel
    <3>2. at[w] \in Idle /\ j.event \in Event /\ j.id \in 0 .. Len(record)
      BY <1>0, <2>1, <3>1 DEF JobOK, Waiting
    <3>3. Step(w, j)
      BY <1>1, <2>2 DEF FindById
    <3> HIDE DEF j
    <3> QED
      BY <1>0, <1>1, <3>1, <3>2, <3>3, MoveStep DEF FindById
  <2>3. CASE ids # {}
    <3>1. PICK id \in ids : Adopt(w, id)
      BY <1>1, <2>3 DEF FindById
    <3> QED
      BY <1>0, <1>1, <2>1, <3>1, AdoptStep DEF FindById, RecordsOf
  <2> QED
    BY <2>2, <2>3
<1>2. CASE FindNewestPending(w)
  <2> DEFINE ids == {id \in Present : record[id].table = SideOf(w) /\ record[id].status = "pending"}
  <2>1. job[w].at = "newest"
    BY <1>2 DEF FindNewestPending
  <2>2. CASE ids = {}
    <3>1. Acknowledge(w, FALSE)
      BY <1>2, <2>2 DEF FindNewestPending
    <3>2. job[w].event \in Event /\ ~Waiting(w)
      BY <1>0, <2>1 DEF JobOK, Waiting
    <3> QED
      BY <1>2, <3>1, <3>2, AcknowledgeStep DEF FindNewestPending
  <2>3. CASE ids # {}
    <3>1. PICK id \in ids : Adopt(w, id) /\ UNCHANGED acked
      BY <1>2, <2>3 DEF FindNewestPending
    <3> QED
      BY <1>0, <1>2, <2>1, <3>1, AdoptStep DEF FindNewestPending
  <2> QED
    BY <2>2, <2>3
<1>3. CASE SelectForSave(w)
  <2> DEFINE differing == {c \in Column : \/ job[w].entity[c] # record[job[w].id][c]
                                          \/ c = "tokenAmount" /\ job[w].at = "select"}
             j == [job[w] EXCEPT !.at = IF @ = "select" THEN "update" ELSE "updateAgain",
                                 !.dirty = differing]
  <2>1. job[w].at \in {"select", "selectAgain"} /\ Step(w, j)
    BY <1>3 DEF SelectForSave
  <2>2. differing \in SUBSET Column
    OBVIOUS
  <2> HIDE DEF differing
  <2>3. /\ j \in JobType /\ j.id = job[w].id /\ j.event = job[w].event
        /\ j.at \in {"update", "updateAgain"} /\ (j.at = "update" => job[w].at = "select")
    BY <1>0, <2>1, <2>2 DEF JobType, JobLabel
  <2> HIDE DEF j
  <2>4. at[w] \in Idle /\ j.id \in 0 .. Len(record) /\ j.id > 0 /\ (j.at = "update" => j.event \in Event)
    BY <1>0, <2>1, <2>3 DEF JobOK, Waiting
  <2> QED
    BY <1>0, <1>3, <2>1, <2>3, <2>4, MoveStep DEF SelectForSave
<1> QED
  BY <1>1, <1>2, <1>3

LEMMA FindAgainStep ==
    ASSUME RampInv, TypeInv, NEW w \in Handler, FindAgain(w) PROVE RampInv'
<1>0. w \in Call /\ JobOK(w) /\ job[w] \in JobType /\ Len(record) \in Nat
  BY WorkerAssumption DEF RampInv
<1>1. job[w].at = "again" /\ job[w].event \in Event /\ at[w] \in Idle /\ ~Waiting(w)
  BY <1>0 DEF FindAgain, JobOK, Waiting
<1>2. CASE RecordsOf(OrderOf(w), "BUY") = {}
  <2>1. Acknowledge(w, TRUE) /\ UNCHANGED <<ledgerVars, record, delivered, credits, claimed>>
    BY <1>2 DEF FindAgain
  <2> QED
    BY <1>1, <2>1, AcknowledgeStep
<1>3. CASE RecordsOf(OrderOf(w), "BUY") # {}
  <2> DEFINE found_(id) == [record[id] EXCEPT !.status = "completed"]
             next(id) == [job[w] EXCEPT !.id = id, !.entity = found_(id)]
             saved(id) == [next(id) EXCEPT !.at = "selectAgain"]
             credited(id) == [next(id) EXCEPT !.at = "credit"]
  <2>1. PICK id \in RecordsOf(OrderOf(w), "BUY") :
           \/ Step(w, saved(id)) /\ UNCHANGED ledgerVars
           \/ Step(w, credited(id)) /\ Invoke(w, Amount(found_(id)))
    BY <1>3 DEF FindAgain
  <2>2. UNCHANGED <<record, delivered, acked, credits, claimed>>
    BY <1>3 DEF FindAgain
  <2>3. record[id] \in Row /\ id \in Nat /\ id \in 0 .. Len(record) /\ id > 0
    BY DEF RecordsOf, RampInv, Present
  <2>4. found_(id) \in Row
    BY <2>3 DEF Row, Status
  <2> HIDE DEF found_
  <2>5. next(id) \in JobType /\ next(id).id = id /\ next(id).event = job[w].event
    BY <1>0, <2>3, <2>4 DEF JobType
  <2> HIDE DEF next
  <2>6. CASE Step(w, saved(id)) /\ UNCHANGED ledgerVars
    <3>1. /\ saved(id) \in JobType /\ saved(id).at = "selectAgain"
          /\ saved(id).id = id /\ saved(id).event = job[w].event
      BY <2>5 DEF JobType, JobLabel
    <3> HIDE DEF saved
    <3> QED
      BY <1>0, <1>1, <2>2, <2>3, <2>6, <3>1, MoveStep
  <2>7. CASE Step(w, credited(id)) /\ Invoke(w, Amount(found_(id)))
    <3>1. /\ credited(id) \in JobType /\ credited(id).at = "credit"
          /\ credited(id).id = id /\ credited(id).event = job[w].event
      BY <2>5 DEF JobType, JobLabel
    <3> HIDE DEF credited
    <3>2. job'[w] = credited(id)
      BY <1>0, <2>7 DEF Step, RampInv
    <3>3. JobOK(w)'
      BY <1>0, <2>2, <2>3, <3>1, <3>2 DEF JobOK, Waiting
    <3>4. \A x \in Call \ {w} : at'[x] = at[x]
      BY <1>0, <2>7, OneCallMoves
    <3> QED
      BY <1>0, <2>2, <2>7, <3>1, <3>3, <3>4, PlainStep
  <2> QED
    BY <2>1, <2>6, <2>7
<1> QED
  BY <1>2, <1>3

LEMMA CallReturnsStep ==
    ASSUME RampInv, NEW w \in Call, CallReturns(w) PROVE RampInv'
<1>1. JobOK(w) /\ job[w] \in JobType /\ Len(record) \in Nat /\ at[w] \in Idle /\ Waiting(w)
  BY DEF RampInv, CallReturns
<1>2. job[w] # Idling
  BY <1>1 DEF Waiting, Idling
<1>3. UNCHANGED <<ledgerVars, record, delivered, acked, credits, claimed>>
  BY DEF CallReturns
<1>4. CASE at[w] = "failed"
  <2>1. Step(w, Idling)
    BY <1>4 DEF CallReturns
  <2> QED
    BY <1>1, <1>2, <1>3, <2>1, EndStep
<1>5. CASE at[w] # "failed"
  <2> DEFINE next(label) == [job[w] EXCEPT !.at = label]
  <2>0. Step(w, Resumed(job[w]))
    BY <1>5 DEF CallReturns
  <2>1. PICK label \in {"walletsAgain", "insert", "selectAgain"} :
           Step(w, next(label)) /\ (label = "selectAgain" => job[w].at = "credit")
    <3>1. CASE job[w].at = "list"
      <4>1. Step(w, next("walletsAgain"))
        BY <2>0, <3>1 DEF Resumed
      <4> QED
        BY <4>1
    <3>2. CASE job[w].at = "listAgain"
      <4>1. Step(w, next("insert"))
        BY <2>0, <3>2 DEF Resumed
      <4> QED
        BY <4>1
    <3>3. CASE job[w].at = "credit"
      <4>1. Step(w, next("selectAgain"))
        BY <2>0, <3>3 DEF Resumed
      <4> QED
        BY <3>3, <4>1
    <3> QED
      BY <1>1, <3>1, <3>2, <3>3 DEF Waiting
  <2>2. /\ next(label) \in JobType /\ next(label).at = label
        /\ next(label).id = job[w].id /\ next(label).event = job[w].event
    BY <1>1, <2>1 DEF JobType, JobLabel
  <2> HIDE DEF next
  <2>3. label = "selectAgain" => job[w].id > 0
    BY <1>1, <2>1 DEF JobOK
  <2>4. job[w].id \in 0 .. Len(record)
    BY <1>1 DEF JobOK
  <2> QED
    BY <1>1, <1>2, <1>3, <2>1, <2>2, <2>3, <2>4, MoveStep
<1> QED
  BY <1>4, <1>5

LEMMA LedgerProceedsStep ==
    ASSUME RampInv, TypeInv, NEW w \in Call, LedgerProceeds(w) PROVE RampInv'
<1>1. UNCHANGED <<record, job, delivered, acked, claimed>>
  BY DEF LedgerProceeds
<1>2. credits' \in [Order -> Nat]
  <2>1. credits \in [Order -> Nat]
    BY DEF RampInv
  <2>2. \/ credits' = credits
        \/ credits' = [credits EXCEPT ![job[w].entity.tokenAmount] = @ + 1]
    BY DEF LedgerProceeds
  <2> DEFINE o == job[w].entity.tokenAmount
  <2> HIDE DEF o
  <2>3. CASE credits' = [credits EXCEPT ![o] = @ + 1] /\ o \in Order
    BY <2>1, <2>3
  <2>4. CASE credits' = [credits EXCEPT ![o] = @ + 1] /\ o \notin Order
    BY <2>1, <2>4
  <2> QED
    BY <2>1, <2>2, <2>3, <2>4 DEF o
<1>3. at[w] \notin Idle
  BY DEF LedgerProceeds, Proceed, LookUpWallet, GetTokenBalance, LoadRow, SaveRow,
         RecordBalanceChange, GetBalanceFromDatabase, GetAllBalancesFromDatabase, FallBack,
         InvalidateWalletCache, AwaitFails, Idle
<1>4. \A x \in Call \ {w} : at'[x] = at[x]
  BY OneCallMoves DEF LedgerProceeds
<1>5. \A x \in Call : JobOK(x)'
  BY <1>1, <1>3, <1>4 DEF RampInv, JobOK, Waiting
<1> QED
  BY <1>1, <1>2, <1>5 DEF RampInv, Busy, Present

LEMMA CrashStep ==
    ASSUME RampInv, ProcessCrashes PROVE RampInv'
<1>1. UNCHANGED <<record, delivered, acked, credits, claimed>> /\ job' = [w \in Call |-> Idling]
  BY DEF ProcessCrashes
<1>2. Idling.event \notin Event
  BY OrderAssumption DEF Idling, NoEvent
<1>3. Len(record) \in Nat /\ Len(record) <= Records
  BY BusyFinite, RecordAssumption DEF RampInv
<1>4. \A w \in Call : JobOK(w)'
  <2> TAKE w \in Call
  <2>1. job'[w] = Idling /\ at'[w] \in Idle
    BY <1>1 DEF ProcessCrashes, Crash, Idle
  <2> QED
    BY <1>1, <1>2, <1>3, <2>1 DEF JobOK, Idling
<1>5. Len(record') + Cardinality(Busy') <= Records
  <2>1. Busy' = {}
    BY <1>1, WorkerAssumption DEF Busy
  <2> QED
    BY <1>1, <1>3, <2>1, FS_EmptySet
<1>6. job' \in [Call -> JobType]
  BY <1>1, IdlingType
<1> QED
  BY <1>1, <1>4, <1>5, <1>6 DEF RampInv, Present

LEMMA RampInvStep ==
    ASSUME RampInv, TypeInv, [RampNext]_vars PROVE RampInv'
<1>1. ASSUME NEW w \in Creator,
             \/ \E table \in {"BUY", "SELL"} : Create(w, table)
             \/ FindWallet(w) \/ Insert(w)
      PROVE  RampInv'
  BY <1>1, CreatorSteps
<1>2. ASSUME NEW w \in Handler,
             \/ \E e \in Event : HandleWebhook(w, e)
             \/ \E id \in Present, status \in PutStatus, o \in PutId :
                   PutOffRampStatus(w, id, status, o)
             \/ FindById(w) \/ FindNewestPending(w) \/ SelectForSave(w) \/ Update(w)
             \/ FindAgain(w) \/ UpdateOffRampStatus(w)
      PROVE  RampInv'
  BY <1>2, HandleWebhookStep, PutSteps, FindSteps, UpdateStep, FindAgainStep
<1>3. ASSUME NEW w \in Call, QueryFails(w) PROVE RampInv'
  <2>1. at[w] \in Idle /\ job[w] # Idling /\ Step(w, Idling)
    BY <1>3 DEF QueryFails, RampInv, JobOK, Idling
  <2>2. UNCHANGED <<ledgerVars, record, delivered, acked, credits, claimed>>
    BY <1>3 DEF QueryFails
  <2> QED
    BY <2>1, <2>2, EndStep
<1>4. CASE Surroundings /\ UNCHANGED rampVars
  <2>1. UNCHANGED <<at, record, job, delivered, acked, credits, claimed>>
    BY <1>4 DEF Surroundings, Remove, ChainMoves, Expire, rampVars
  <2> QED
    BY <2>1 DEF RampInv, JobOK, Waiting, Busy, Present
<1>5. CASE UNCHANGED vars
  <2>1. UNCHANGED <<at, record, job, delivered, acked, credits, claimed>>
    BY <1>5 DEF vars, rampVars, ledgerVars
  <2> QED
    BY <2>1 DEF RampInv, JobOK, Waiting, Busy, Present
<1> QED
  BY <1>1, <1>2, <1>3, <1>4, <1>5, CallReturnsStep, LedgerProceedsStep, CrashStep DEF RampNext

-----------------------------------------------------------------------------
(* What is credited, and why. *)

\* Record id was written into by an order other than o.
Shared(id, o) == \E p \in Order \ {o} : id \in claimed[p]

\* A buy record names an order, or holds its amount, only after that order was written
\* into it; and it names and holds the one order that was, unless there are others.
RecordsOK ==
    \A id \in Present : record[id].table = "BUY" =>
        \A o \in Order :
            /\ record[id].providerTransactionId = o \/ record[id].tokenAmount = o => id \in claimed[o]
            /\ id \in claimed[o] =>
                  \/ Shared(id, o)
                  \/ record[id].providerTransactionId = o /\ record[id].tokenAmount = o

Creating == {"idle", "wallets", "walletsAgain", "list", "listAgain", "insert"}
Webhook(w) == job[w].event \in Event
WithRecord(w) == job[w].id > 0

\* The kinds of requests stay apart: those that create records hold empty ones, those
\* of clients hold sales, and a webhook holds a record of its order's table which will
\* name its order, if not because the save writes the column then because it did already.
TaskOK(w) ==
    /\ w \in Creator =>
          /\ job[w].at \in Creating /\ ~Webhook(w)
          /\ job[w].entity.providerTransactionId = NoOrder /\ job[w].entity.tokenAmount = NoOrder
    /\ w \in Handler => job[w].at \notin Creating \ {"idle"}
    /\ WithRecord(w) /\ ~Webhook(w) =>
          record[job[w].id].table = "SELL" /\ job[w].at \in {"put", "selectAgain", "updateAgain"}
    /\ WithRecord(w) /\ Webhook(w) =>
          /\ record[job[w].id].table = SideOf(w)
          /\ job[w].entity.providerTransactionId = OrderOf(w)
          /\ job[w].at \in {"select", "update"} => job[w].entity.tokenAmount = OrderOf(w)
    /\ job[w].at = "put" => ~Webhook(w)
    /\ job[w].at = "update" => "tokenAmount" \in job[w].dirty
    /\ /\ job[w].at \in {"update", "updateAgain"} /\ Webhook(w) /\ SideOf(w) = "BUY"
       /\ "providerTransactionId" \notin job[w].dirty
       => record[job[w].id].providerTransactionId = OrderOf(w) \/ Shared(job[w].id, OrderOf(w))

\* A request on its way to a credit or back from it answers a completed buy order that
\* has its record; the amount is of that order, unless another shares the record.
OnTheWay(w) ==
    job[w].at \in {"again", "credit"} \/ (job[w].at \in {"selectAgain", "updateAgain"} /\ Webhook(w))

PayingOK(w) ==
    OnTheWay(w) =>
        /\ Webhook(w) /\ SideOf(w) = "BUY" /\ job[w].event = Completed(OrderOf(w))
        /\ job[w].at = "again" => \E id \in claimed[OrderOf(w)] : record[id].table = "BUY"
        /\ job[w].at # "again" =>
              /\ job[w].id \in claimed[OrderOf(w)]
              /\ job[w].entity.tokenAmount = OrderOf(w) \/ Shared(job[w].id, OrderOf(w))
              /\ job[w].entity.tokenAmount \in Order => job[w].id \in claimed[job[w].entity.tokenAmount]
        /\ job[w].at = "credit" => job[w].entity.tokenAmount \in Order

\* The credit's call of the ledger: it has saved the row when it records the change.
Paid(w) == w \in adding /\ at[w] = "record"
CreditPath(w) ==
    Kind[w] = "credit" =>
        /\ at[w] \notin {"invalidate", "database"}
        /\ w \in adding => at[w] \in {"load", "save", "record"}

CreditedOK(w) ==
    /\ job[w].at = "credit" /\ (Paid(w) \/ at[w] = "idle") => credits[job[w].entity.tokenAmount] > 0
    /\ /\ job[w].at \in {"selectAgain", "updateAgain"} /\ Webhook(w)
       /\ Alone(OrderOf(w)) /\ CryptoAmount[OrderOf(w)] > 0
       => credits[OrderOf(w)] > 0

RequestOK(w) == TaskOK(w) /\ PayingOK(w) /\ CreditPath(w) /\ CreditedOK(w)

\* The requests that may yet credit order o: each answers a delivery of its own.
Owed(o) ==
    {w \in Handler :
        /\ job[w].event = Completed(o)
        /\ \/ job[w].at \in {"byId", "newest", "select", "update", "again"}
           \/ job[w].at = "credit" /\ at[w] \notin Idle /\ ~Paid(w)}

DeliveriesCover ==
    \A o \in Order :
        /\ IsFiniteSet(Owed(o))
        /\ Alone(o) =>
              IF Side[o] = "BUY" /\ Completed(o) \in Event
              THEN credits[o] + Cardinality(Owed(o)) <= delivered[Completed(o)]
              ELSE credits[o] = 0

CreditInv ==
    /\ RecordsOK
    /\ \A w \in Call : RequestOK(w)
    /\ DeliveriesCover
    /\ AcknowledgedMeansCredited

\* What a step does to the records, as far as the requests of others rely on it: no
\* table changes, no order is unwritten, and a buy record loses an order's name only
\* to another order.
Forward ==
    /\ Present \subseteq Present'
    /\ \A id \in Present : record'[id].table = record[id].table
    /\ \A id \in Present, o \in Order :
          record[id].table = "BUY" /\ record[id].providerTransactionId = o =>
              record'[id].providerTransactionId = o \/ Shared(id, o)'
    /\ \A o \in Order : claimed[o] \subseteq claimed'[o] /\ credits[o] <= credits'[o]

-----------------------------------------------------------------------------
LEMMA KindsApart ==
    /\ NoEvent \notin Event /\ NoOrder \notin Order
    /\ \A w \in Handler : w \in Call /\ Kind[w] = "credit" /\ w \notin Creator
    /\ \A w \in Creator : w \in Call /\ Kind[w] = "list" /\ w \notin Handler
    /\ \A w \in Call : w \in Handler \/ w \in Creator
    BY WorkerAssumption, OrderAssumption DEF NoEvent

LEMMA IdlingFields ==
    /\ Idling.at = "idle" /\ Idling.event = NoEvent /\ Idling.id = 0
    /\ Idling.entity.providerTransactionId = NoOrder /\ Idling.entity.tokenAmount = NoOrder
    BY DEF Idling, NewRow

LEMMA OrderOfEvent ==
    ASSUME RampInv, NEW w \in Call, Webhook(w)
    PROVE  /\ OrderOf(w) \in Order /\ SideOf(w) \in {"BUY", "SELL"} /\ SideOf(w) = Side[OrderOf(w)]
           /\ (StatusOf(w) = "completed" <=> job[w].event = Completed(OrderOf(w)))
    <1>1. job[w].event \in Order \X TransakStatus
        BY OrderAssumption DEF Webhook
    <1>2. MapTransakStatus(job[w].event[2]) = "completed" <=> job[w].event[2] = "ORDER_COMPLETED"
        BY DEF MapTransakStatus
    <1> QED
        BY <1>1, <1>2, OrderAssumption DEF OrderOf, SideOf, StatusOf, Completed

\* Whoever shares a record keeps doing so.
LEMMA WrittenStays ==
    ASSUME Forward, NEW STATE id, NEW STATE o, Shared(id, o)
    PROVE  \E p \in Order \ {o} : id \in claimed'[p]
    BY DEF Forward, Shared

LEMMA AloneShrinks ==
    ASSUME Forward, NEW o \in Order, Alone(o)'
    PROVE  Alone(o)
    BY DEF Forward, Alone

LEMMA SharedNotAlone ==
    ASSUME NEW o \in Order, NEW id, id \in claimed[o], Shared(id, o)
    PROVE  ~Alone(o)
    BY DEF Shared, Alone

\* A step forward that leaves the credit counts and acknowledges nothing new.
LEMMA AcknowledgedStays ==
    ASSUME RampInv, AcknowledgedMeansCredited, Forward,
           credits' \in [Order -> Nat],
           \A o \in Order : Completed(o) \in acked' /\ Side[o] = "BUY" /\ CryptoAmount[o] > 0 /\ Alone(o)
                            => Completed(o) \in acked \/ credits[o] > 0
    PROVE  AcknowledgedMeansCredited'
    <1> SUFFICES ASSUME NEW o \in Order, Completed(o) \in acked', Side[o] = "BUY", CryptoAmount[o] > 0, Alone(o)'
                 PROVE  credits'[o] > 0
        BY DEF AcknowledgedMeansCredited, Completed
    <1>1. Alone(o)
        BY AloneShrinks
    <1>2. credits[o] > 0
        BY <1>1 DEF AcknowledgedMeansCredited
    <1>3. credits[o] \in Nat /\ credits'[o] \in Nat /\ credits[o] <= credits'[o]
        BY DEF RampInv, Forward
    <1> QED
        BY <1>2, <1>3

\* A request that a step forward does not move is as well off as before.
LEMMA OthersKeep ==
    ASSUME RampInv, Forward, credits' \in [Order -> Nat], NEW x \in Call, RequestOK(x),
           job'[x] = job[x], at'[x] = at[x], x \in adding' <=> x \in adding
    PROVE  RequestOK(x)'
    <1>1. /\ OrderOf(x)' = OrderOf(x) /\ SideOf(x)' = SideOf(x) /\ (Webhook(x)' <=> Webhook(x))
          /\ (WithRecord(x)' <=> WithRecord(x)) /\ (Paid(x)' <=> Paid(x))
          /\ (OnTheWay(x)' <=> OnTheWay(x))
        BY DEF OrderOf, SideOf, Webhook, WithRecord, Paid, OnTheWay
    <1>2. WithRecord(x) => job[x].id \in Present /\ record'[job[x].id].table = record[job[x].id].table
        BY DEF RampInv, JobOK, WithRecord, Present, Forward
    <1>3. Webhook(x) => OrderOf(x) \in Order
        BY OrderOfEvent
    <1>4. job[x].at \in {"update", "updateAgain"} => WithRecord(x)
        BY DEF RampInv, JobOK, WithRecord
    <1>5. TaskOK(x)'
        <2>1. ASSUME job[x].at \in {"update", "updateAgain"}, Webhook(x), SideOf(x) = "BUY",
                     "providerTransactionId" \notin job[x].dirty
              PROVE  record'[job[x].id].providerTransactionId = OrderOf(x) \/ Shared(job[x].id, OrderOf(x))'
            <3>1. record[job[x].id].table = "BUY" /\ job[x].id \in Present
                BY <1>2, <1>4, <2>1 DEF RequestOK, TaskOK
            <3>2. record[job[x].id].providerTransactionId = OrderOf(x) \/ Shared(job[x].id, OrderOf(x))
                BY <2>1 DEF RequestOK, TaskOK
            <3>3. CASE Shared(job[x].id, OrderOf(x))
                BY <1>1, <3>3, WrittenStays DEF Shared
            <3>4. CASE record[job[x].id].providerTransactionId = OrderOf(x)
                <4> DEFINE i == job[x].id
                           o == OrderOf(x)
                <4>1. record'[i].providerTransactionId = o \/ \E p \in Order \ {o} : i \in claimed'[p]
                    BY <1>3, <2>1, <3>1, <3>4 DEF Forward, Shared
                <4> QED
                    BY <1>1, <4>1 DEF Shared
            <3> QED
                BY <3>2, <3>3, <3>4
        <2> QED
            BY <1>1, <1>2, <2>1 DEF RequestOK, TaskOK
    <1>6. PayingOK(x)'
        <2> SUFFICES ASSUME OnTheWay(x)
                     PROVE  PayingOK(x)'
            BY <1>1 DEF PayingOK
        <2>1. OrderOf(x) \in Order /\ claimed[OrderOf(x)] \subseteq claimed'[OrderOf(x)]
            BY <1>3 DEF RequestOK, PayingOK, Forward
        <2>2. job[x].at = "again" => \E id \in claimed'[OrderOf(x)] : record'[id].table = "BUY"
            <3>1. claimed[OrderOf(x)] \subseteq Present
                BY <2>1 DEF RampInv
            <3> QED
                BY <2>1, <3>1 DEF RequestOK, PayingOK, Forward
        <2>3. job[x].at # "again" =>
                  /\ job[x].id \in claimed'[OrderOf(x)]
                  /\ job[x].entity.tokenAmount = OrderOf(x) \/ Shared(job[x].id, OrderOf(x))'
                  /\ job[x].entity.tokenAmount \in Order => job[x].id \in claimed'[job[x].entity.tokenAmount]
            <3>1. Shared(job[x].id, OrderOf(x)) => Shared(job[x].id, OrderOf(x))'
                BY <1>1, WrittenStays DEF Shared
            <3> QED
                BY <2>1, <3>1 DEF RequestOK, PayingOK, Forward
        <2> QED
            BY <1>1, <2>2, <2>3 DEF RequestOK, PayingOK
    <1>7. CreditPath(x)'
        BY DEF RequestOK, CreditPath
    <1>8. CreditedOK(x)'
        <2>1. \A o \in Order : credits[o] > 0 => credits'[o] > 0
            BY DEF RampInv, Forward
        <2>2. job[x].at = "credit" => job[x].entity.tokenAmount \in Order
            BY DEF RequestOK, PayingOK, OnTheWay
        <2>3. Webhook(x) /\ Alone(OrderOf(x))' => Alone(OrderOf(x))
            BY <1>1, <1>3 DEF Alone, Forward
        <2> QED
            BY <1>1, <1>3, <2>1, <2>2, <2>3 DEF RequestOK, CreditedOK
    <1> QED
        BY <1>5, <1>6, <1>7, <1>8 DEF RequestOK

\* Where a step lets no request come to owe a credit, what the deliveries cover stays.
LEMMA CoverStays ==
    ASSUME RampInv, RampInv', DeliveriesCover, Forward, UNCHANGED credits,
           \A e \in Event : delivered[e] <= delivered'[e],
           \A o \in Order : Owed(o)' \subseteq Owed(o)
    PROVE  DeliveriesCover'
    <1> SUFFICES ASSUME NEW o \in Order
                 PROVE  /\ IsFiniteSet(Owed(o)')
                        /\ Alone(o)' => IF Side[o] = "BUY" /\ Completed(o) \in Event
                                        THEN credits[o] + Cardinality(Owed(o)') <= delivered'[Completed(o)]
                                        ELSE credits[o] = 0
        BY DEF DeliveriesCover, Completed
    <1>1. IsFiniteSet(Owed(o)) /\ Owed(o)' \subseteq Owed(o)
        BY DEF DeliveriesCover
    <1>2. /\ IsFiniteSet(Owed(o)') /\ Cardinality(Owed(o)') \in Nat /\ Cardinality(Owed(o)) \in Nat
          /\ Cardinality(Owed(o)') <= Cardinality(Owed(o))
        BY <1>1, FS_Subset, FS_CardinalityType
    <1>3. Alone(o)' => Alone(o)
        BY AloneShrinks
    <1>4. credits[o] \in Nat /\ (Completed(o) \in Event => delivered[Completed(o)] \in Nat /\ delivered'[Completed(o)] \in Nat)
        BY DEF RampInv
    <1> QED
        BY <1>2, <1>3, <1>4 DEF DeliveriesCover

\* What is left to show of a step of request w that credits nothing.
LEMMA RequestMoves ==
    ASSUME RampInv, RampInv', CreditInv, Forward, UNCHANGED credits, NEW w \in Call,
           \A x \in Call \ {w} : job'[x] = job[x] /\ at'[x] = at[x] /\ (x \in adding' <=> x \in adding),
           \A e \in Event : delivered[e] <= delivered'[e],
           RecordsOK', RequestOK(w)',
           \A o \in Order : w \in Owed(o)' => w \in Owed(o),
           \A o \in Order : Completed(o) \in acked' /\ Side[o] = "BUY" /\ CryptoAmount[o] > 0 /\ Alone(o)
                            => Completed(o) \in acked \/ credits[o] > 0
    PROVE  CreditInv'
    <1>1. credits' \in [Order -> Nat]
        BY DEF RampInv
    <1>2. ASSUME NEW x \in Call PROVE RequestOK(x)'
        BY <1>1, OthersKeep DEF CreditInv
    <1>3. ASSUME NEW o \in Order PROVE Owed(o)' \subseteq Owed(o)
        BY KindsApart DEF Owed, Paid
    <1>4. DeliveriesCover'
        BY <1>3, CoverStays DEF CreditInv
    <1>5. AcknowledgedMeansCredited'
        BY <1>1, AcknowledgedStays DEF CreditInv
    <1> QED
        BY <1>2, <1>4, <1>5 DEF CreditInv

\* ... and the records stay.
LEMMA StillMoves ==
    ASSUME RampInv, RampInv', CreditInv, UNCHANGED <<credits, record, claimed, delivered>>, NEW w \in Call,
           \A x \in Call \ {w} : job'[x] = job[x] /\ at'[x] = at[x] /\ (x \in adding' <=> x \in adding),
           RequestOK(w)',
           \A o \in Order : w \in Owed(o)' => w \in Owed(o),
           \A o \in Order : Completed(o) \in acked' /\ Side[o] = "BUY" /\ CryptoAmount[o] > 0 /\ Alone(o)
                            => Completed(o) \in acked \/ credits[o] > 0
    PROVE  CreditInv'
    <1>1. Forward
        BY DEF Forward, Present, RampInv
    <1>2. RecordsOK'
        BY DEF CreditInv, RecordsOK, Present, Shared
    <1>3. \A e \in Event : delivered[e] <= delivered'[e]
        BY DEF RampInv
    <1> QED
        BY <1>1, <1>2, <1>3, RequestMoves

\* A request that ends is free of every obligation.
LEMMA EndedOK ==
    ASSUME RampInv, NEW w \in Call, CreditPath(w), job'[w] = Idling, at'[w] = at[w], w \in adding' <=> w \in adding
    PROVE  RequestOK(w)' /\ \A o \in Order : w \notin Owed(o)'
    <1>1. /\ job'[w].at = "idle" /\ job'[w].event = NoEvent /\ job'[w].id = 0
          /\ job'[w].entity.providerTransactionId = NoOrder /\ job'[w].entity.tokenAmount = NoOrder
        BY IdlingFields
    <1>2. TaskOK(w)' /\ PayingOK(w)' /\ CreditedOK(w)'
        BY <1>1, KindsApart DEF TaskOK, PayingOK, CreditedOK, Webhook, WithRecord, Creating, OnTheWay
    <1>3. CreditPath(w)' /\ \A o \in Order : w \notin Owed(o)'
        BY <1>1 DEF CreditPath, Owed
    <1> QED
        BY <1>2, <1>3 DEF RequestOK

LEMMA EndMoves ==
    ASSUME RampInv, RampInv', CreditInv, NEW w \in Call, Step(w, Idling),
           UNCHANGED <<ledgerVars, record, delivered, credits, claimed>>,
           \A o \in Order : Completed(o) \in acked' /\ Side[o] = "BUY" /\ CryptoAmount[o] > 0 /\ Alone(o)
                            => Completed(o) \in acked \/ credits[o] > 0
    PROVE  CreditInv'
    <1>1. job'[w] = Idling /\ \A x \in Call \ {w} : job'[x] = job[x]
        BY DEF Step, RampInv
    <1>2. at' = at /\ adding' = adding
        BY DEF ledgerVars
    <1>3. RequestOK(w)' /\ \A o \in Order : w \notin Owed(o)'
        BY <1>1, <1>2, EndedOK DEF CreditInv, RequestOK
    <1> QED
        BY <1>1, <1>2, <1>3, StillMoves

-----------------------------------------------------------------------------
(* The ledger's part in it. *)

LEMMA OneCallAdds ==
    ASSUME TypeInv, NEW c \in Call, NEW amount, Invoke(c, amount) \/ Proceed(c), NEW x \in Call \ {c}
    PROVE  x \in adding' <=> x \in adding
    <1>1. CASE Invoke(c, amount)
        BY <1>1 DEF Invoke, Return
    <1>2. CASE Proceed(c)
        BY <1>2 DEF Proceed, LookUpWallet, GetTokenBalance, LoadRow, SaveRow, RecordBalanceChange,
              GetBalanceFromDatabase, GetAllBalancesFromDatabase, FallBack, InvalidateWalletCache,
              AwaitFails, Throw, Goto, Return, Answer, GetBalanceReturns, UpdateBalanceReturns, call
    <1> QED
        BY <1>1, <1>2

\* A credit that is asked for sets out at the wallet.
LEMMA CreditSetsOut ==
    ASSUME TypeInv, NEW c \in Call, Kind[c] = "credit", CreditPath(c), NEW amount \in Credit, amount > 0, Invoke(c, amount)
    PROVE  CreditPath(c)' /\ at'[c] = "wallet" /\ ~Paid(c)'
    <1>1. c \notin adding
        BY DEF Invoke, CreditPath, Idle
    <1>2. at' = [at EXCEPT ![c] = "wallet"] /\ adding' = adding
        BY AmountAssumption DEF Invoke, CacheKey
    <1> QED
        BY <1>1, <1>2 DEF CreditPath, TypeInv, CallsOK, Paid

\* A credit's call fails, returns once it has saved its sum, or goes on; and it has
\* saved it exactly when addBalance's own updateBalance has.
LEMMA CreditProceeds ==
    ASSUME TypeInv, NEW c \in Call, Kind[c] = "credit", CreditPath(c), Proceed(c)
    PROVE  /\ CreditPath(c)' /\ at[c] \notin Idle
           /\ \/ at'[c] = "failed"
              \/ Paid(c) /\ at'[c] = "idle"
              \/ /\ ~Paid(c) /\ at'[c] \notin Idle
                 /\ Paid(c)' <=> c \in adding /\ at[c] = "save" /\ at'[c] = "record"
    <1> USE DEF TypeInv, CallsOK
    <1>0. Kind[c] \notin Listing /\ Kind[c] # "refresh" /\ Kind[c] \notin CacheKey
        BY DEF Listing, CacheKey
    <1>1. ASSUME at[c] \notin Idle, at[c] # "record", Throw(c), UNCHANGED height
          PROVE  /\ CreditPath(c)'
                 /\ \/ at'[c] = "failed"
                    \/ ~Paid(c) /\ at'[c] = "fallback" /\ c \notin adding'
        BY <1>0, <1>1 DEF Throw, Return, Goto, call, CreditPath, Paid, Listing
    <1>2. ASSUME NEW v, at[c] \in {"record", "fallback"}, c \notin adding, GetBalanceReturns(c, v)
          PROVE  /\ CreditPath(c)' /\ at'[c] = "load"
        <2>1. adding' = adding \cup {c} /\ at' = [at EXCEPT ![c] = "load"]
            BY <1>2 DEF GetBalanceReturns
        <2>2. at'[c] = "load"
            BY <2>1
        <2> QED
            BY <2>2 DEF CreditPath
    <1>3. CASE LookUpWallet(c)
        BY <1>1, <1>3 DEF LookUpWallet, Goto, call, CreditPath, Paid, Idle, world
    <1>4. CASE GetTokenBalance(c) \/ LoadRow(c)
        BY <1>4 DEF GetTokenBalance, LoadRow, CreditPath, Paid, Idle
    <1>5. CASE SaveRow(c)
        <2>1. at[c] = "save"
            BY <1>5 DEF SaveRow
        <2>2. CASE Throw(c)
            BY <1>1, <1>5, <2>1, <2>2 DEF SaveRow, Idle, Paid, world
        <2>3. CASE Goto(c, IF Kind[c] = "refresh" THEN "invalidate" ELSE "record")
            BY <1>0, <2>1, <2>3 DEF Goto, call, CreditPath, Paid, Idle
        <2> QED
            BY <1>5, <2>2, <2>3 DEF SaveRow
    <1>6. CASE RecordBalanceChange(c)
        <2>1. at[c] = "record"
            BY <1>6 DEF RecordBalanceChange
        <2>2. CASE c \in adding
            BY <1>6, <2>1, <2>2 DEF RecordBalanceChange, UpdateBalanceReturns, Return, CreditPath, Paid, Idle
        <2>3. CASE c \notin adding
            BY <1>2, <1>6, <2>1, <2>3 DEF RecordBalanceChange, UpdateBalanceReturns, Paid, Idle
        <2> QED
            BY <2>2, <2>3
    <1>7. CASE FallBack(c)
        <2>1. at[c] = "fallback" /\ GetBalanceReturns(c, 0)
            BY <1>0, <1>7 DEF FallBack, GetBalanceFromDatabase
        <2>2. c \notin adding
            BY <2>1 DEF CreditPath
        <2> QED
            BY <1>2, <2>1, <2>2 DEF Paid, Idle
    <1>8. CASE InvalidateWalletCache(c)
        BY <1>8 DEF InvalidateWalletCache, CreditPath
    <1>9. CASE AwaitFails(c)
        <2>1. at[c] \notin Idle /\ at[c] # "record" /\ Throw(c) /\ UNCHANGED height
            BY <1>0, <1>9 DEF AwaitFails
        <2> QED
            BY <1>1, <2>1 DEF Paid, Idle
    <1> QED
        BY <1>3, <1>4, <1>5, <1>6, <1>7, <1>8, <1>9 DEF Proceed

-----------------------------------------------------------------------------
(* The steps that create a record, and those that end or begin a request. *)

LEMMA CreditAtStart == RampInit => CreditInv
    <1> SUFFICES ASSUME RampInit
                 PROVE  CreditInv
        OBVIOUS
    <1>1. /\ Present = {} /\ acked = {} /\ adding = {}
          /\ \A w \in Call : job[w] = Idling /\ at[w] = "idle"
          /\ \A o \in Order : credits[o] = 0
          /\ \A e \in Event : delivered[e] = 0
        BY DEF RampInit, LedgerInit, Present
    <1>2. ASSUME NEW w \in Call PROVE RequestOK(w)
        BY <1>1, IdlingFields, KindsApart
           DEF RequestOK, TaskOK, PayingOK, CreditPath, CreditedOK, Webhook, WithRecord, Creating, OnTheWay
    <1>3. ASSUME NEW o \in Order PROVE Owed(o) = {}
        BY <1>1, IdlingFields, KindsApart DEF Owed
    <1>4. DeliveriesCover
        <2>1. IsFiniteSet({}) /\ Cardinality({}) = 0
            BY FS_EmptySet
        <2> QED
            BY <1>1, <1>3, <2>1 DEF DeliveriesCover
    <1> QED
        BY <1>1, <1>2, <1>4 DEF CreditInv, RecordsOK, AcknowledgedMeansCredited

\* A request that creates a record is owed nothing, whatever its ledger call does.
LEMMA CreatorOK ==
    ASSUME NEW w \in Creator, job'[w].at \in Creating, job'[w].event = NoEvent, job'[w].id = 0,
           job'[w].entity.providerTransactionId = NoOrder, job'[w].entity.tokenAmount = NoOrder
    PROVE  RequestOK(w)' /\ \A o \in Order : w \notin Owed(o)'
    BY KindsApart DEF RequestOK, TaskOK, PayingOK, CreditPath, CreditedOK, Webhook, WithRecord,
       Creating, OnTheWay, Owed

LEMMA CreatorFields ==
    ASSUME RampInv, CreditInv, NEW w \in Creator
    PROVE  /\ job[w].at \in Creating /\ job[w].event = NoEvent /\ job[w].id = 0
           /\ job[w].entity.providerTransactionId = NoOrder /\ job[w].entity.tokenAmount = NoOrder
           /\ job[w] \in JobType
    <1>1. w \in Call /\ TaskOK(w) /\ job[w] \in JobType
        BY KindsApart DEF CreditInv, RequestOK, RampInv
    <1>2. job[w].id \in Nat
        BY <1>1 DEF JobType
    <1> QED
        BY <1>1, <1>2 DEF TaskOK, Creating, Webhook, WithRecord, JobType

LEMMA CreatorCredits ==
    ASSUME RampInv, RampInv', TypeInv, CreditInv, NEW w \in Creator,
           \/ \E table \in {"BUY", "SELL"} : Create(w, table)
           \/ FindWallet(w) \/ Insert(w)
    PROVE  CreditInv'
    <1>0. w \in Call /\ job \in [Call -> JobType]
        BY KindsApart DEF RampInv
    <1>1. ASSUME NEW table \in {"BUY", "SELL"}, Create(w, table) PROVE CreditInv'
        <2>1. /\ job'[w].at \in Creating /\ job'[w].event = NoEvent /\ job'[w].id = 0
              /\ job'[w].entity.providerTransactionId = NoOrder /\ job'[w].entity.tokenAmount = NoOrder
              /\ \A x \in Call \ {w} : job'[x] = job[x]
            BY <1>0, <1>1 DEF Create, Step, Idling, NewRow, Creating
        <2> QED
            BY <1>0, <1>1, <2>1, CreatorOK, StillMoves DEF Create, ledgerVars, call
    <1>2. CASE FindWallet(w)
        <2>1. CASE active
            <3>1. /\ job'[w] = [job[w] EXCEPT !.at = IF @ = "wallets" THEN "list" ELSE "listAgain"]
                  /\ \A x \in Call \ {w} : job'[x] = job[x]
                  /\ Invoke(w, 0)
                BY <1>0, <1>2, <2>1 DEF FindWallet, Step
            <3>2. /\ job'[w].at \in Creating /\ job'[w].event = NoEvent /\ job'[w].id = 0
                  /\ job'[w].entity.providerTransactionId = NoOrder /\ job'[w].entity.tokenAmount = NoOrder
                BY <3>1, CreatorFields DEF Creating, JobType
            <3>3. \A x \in Call \ {w} : at'[x] = at[x] /\ (x \in adding' <=> x \in adding)
                BY <1>0, <3>1, OneCallMoves, OneCallAdds
            <3> QED
                BY <1>0, <1>2, <3>1, <3>2, <3>3, CreatorOK, StillMoves DEF FindWallet
        <2>2. CASE ~active
            BY <1>0, <1>2, <2>2, EndMoves DEF FindWallet
        <2> QED
            BY <2>1, <2>2
    <1>3. CASE Insert(w)
        <2>1. /\ job'[w] = Idling /\ \A x \in Call \ {w} : job'[x] = job[x]
              /\ UNCHANGED <<ledgerVars, delivered, acked, credits, claimed>>
            BY <1>0, <1>3 DEF Insert, Step
        <2>2. RequestOK(w)' /\ \A o \in Order : w \notin Owed(o)'
            BY <2>1, IdlingFields, CreatorOK DEF Creating
        <2> DEFINE n == Len(record) + 1
        <2>3. /\ Present' = Present \cup {n} /\ n \notin Present
              /\ \A id \in Present : record'[id] = record[id]
              /\ record'[n] = job[w].entity
            <3>1. record \in Seq(Row) /\ job[w].entity \in Row /\ record' = Append(record, job[w].entity)
                BY <1>0, <1>3 DEF RampInv, JobType, Insert
            <3> QED
                BY <3>1 DEF Present
        <2>4. \A o \in Order : record'[n].providerTransactionId # o /\ record'[n].tokenAmount # o
            BY <2>3, CreatorFields, KindsApart
        <2>5. Forward
            BY <2>1, <2>3 DEF Forward, RampInv
        <2>6. RecordsOK'
            <3> SUFFICES ASSUME NEW id \in Present', record'[id].table = "BUY", NEW o \in Order
                         PROVE  /\ record'[id].providerTransactionId = o \/ record'[id].tokenAmount = o => id \in claimed'[o]
                                /\ id \in claimed'[o] =>
                                     \/ Shared(id, o)'
                                     \/ record'[id].providerTransactionId = o /\ record'[id].tokenAmount = o
                BY DEF RecordsOK, Shared
            <3>1. CASE id = n
                BY <2>1, <2>3, <2>4, <3>1 DEF RampInv
            <3>2. CASE id \in Present
                BY <2>1, <2>3, <3>2 DEF CreditInv, RecordsOK, Shared
            <3> QED
                BY <2>3, <3>1, <3>2
        <2>7. \A e \in Event : delivered[e] <= delivered'[e]
            BY <2>1 DEF RampInv
        <2> QED
            BY <1>0, <2>1, <2>2, <2>5, <2>6, <2>7, RequestMoves DEF ledgerVars, call
    <1> QED
        BY <1>1, <1>2, <1>3

\* A query of the request that throws.
LEMMA QueryFailsCredits ==
    ASSUME RampInv, RampInv', CreditInv, NEW w \in Call, QueryFails(w)
    PROVE  CreditInv'
    BY EndMoves DEF QueryFails

\* The webhook comes in: one delivery more, and one request more that may credit.
LEMMA HandleWebhookCredits ==
    ASSUME RampInv, RampInv', TypeInv, CreditInv, NEW w \in Handler, NEW e \in Event, HandleWebhook(w, e)
    PROVE  CreditInv'
    <1>0. w \in Call /\ job \in [Call -> JobType] /\ Kind[w] = "credit"
        BY KindsApart DEF RampInv
    <1>1. /\ job'[w] = [Idling EXCEPT !.at = "byId", !.event = e]
          /\ job[w] = Idling
          /\ \A x \in Call \ {w} : job'[x] = job[x]
          /\ UNCHANGED <<ledgerVars, record, acked, credits, claimed>>
          /\ UNCHANGED <<at, adding>>
          /\ delivered' = [delivered EXCEPT ![e] = @ + 1]
        BY <1>0 DEF HandleWebhook, Step, ledgerVars, call
    <1>2. job'[w].at = "byId" /\ job'[w].event = e /\ job'[w].id = 0 /\ e \in Event
        BY <1>1 DEF Idling
    <1>3. Forward
        BY <1>1 DEF Forward, Present, RampInv
    <1>4. RecordsOK'
        BY <1>1 DEF CreditInv, RecordsOK, Present, Shared
    <1>5. RequestOK(w)'
        <2>1. CreditPath(w)'
            BY <1>0, <1>1 DEF CreditInv, RequestOK, CreditPath
        <2>2. TaskOK(w)' /\ PayingOK(w)' /\ CreditedOK(w)'
            BY <1>2, KindsApart DEF TaskOK, PayingOK, CreditedOK, Webhook, WithRecord, Creating, OnTheWay
        <2> QED
            BY <2>1, <2>2 DEF RequestOK
    <1>6. credits' \in [Order -> Nat]
        BY DEF RampInv
    <1>7. ASSUME NEW x \in Call PROVE RequestOK(x)'
        BY <1>1, <1>3, <1>5, <1>6, OthersKeep DEF CreditInv
    <1>8. DeliveriesCover'
        <2> SUFFICES ASSUME NEW o \in Order
                     PROVE  /\ IsFiniteSet(Owed(o)')
                            /\ Alone(o) => IF Side[o] = "BUY" /\ Completed(o) \in Event
                                           THEN credits[o] + Cardinality(Owed(o)') <= delivered'[Completed(o)]
                                           ELSE credits[o] = 0
            BY <1>1 DEF DeliveriesCover, Completed, Alone
        <2>1. IsFiniteSet(Owed(o)) /\ Cardinality(Owed(o)) \in Nat
            BY FS_CardinalityType DEF CreditInv, DeliveriesCover
        <2>2. w \notin Owed(o)
            BY <1>1, IdlingFields DEF Owed
        <2>3. Completed(o) \in Event => delivered[Completed(o)] \in Nat /\ credits[o] \in Nat
            BY DEF RampInv
        <2>4. CASE e = Completed(o)
            <3>1. Owed(o)' = Owed(o) \cup {w}
                BY <1>1, <1>2, <2>4, KindsApart DEF Owed, Paid
            <3>2. IsFiniteSet(Owed(o)') /\ Cardinality(Owed(o)') = Cardinality(Owed(o)) + 1
                BY <2>1, <2>2, <3>1, FS_AddElement
            <3>3. delivered'[Completed(o)] = delivered[Completed(o)] + 1
                BY <1>1, <2>4 DEF RampInv
            <3> QED
                BY <2>1, <2>3, <2>4, <3>2, <3>3 DEF CreditInv, DeliveriesCover
        <2>5. CASE e # Completed(o)
            <3>1. Owed(o)' = Owed(o)
                <4>1. ASSUME NEW x \in Handler \ {w} PROVE x \in Owed(o)' <=> x \in Owed(o)
                    BY <1>1, KindsApart DEF Owed, Paid, Completed
                <4>2. w \notin Owed(o)'
                    BY <1>2, <2>5 DEF Owed, Completed
                <4>3. Owed(o) \subseteq Handler /\ Owed(o)' \subseteq Handler
                    BY DEF Owed
                <4> QED
                    BY <2>2, <4>1, <4>2, <4>3
            <3>2. Completed(o) \in Event => delivered'[Completed(o)] = delivered[Completed(o)]
                BY <1>1, <2>5 DEF RampInv
            <3> QED
                BY <2>1, <3>1, <3>2 DEF CreditInv, DeliveriesCover
        <2> QED
            BY <2>4, <2>5
    <1>9. AcknowledgedMeansCredited'
        BY <1>1 DEF CreditInv, AcknowledgedMeansCredited, Alone
    <1> QED
        BY <1>4, <1>7, <1>8, <1>9 DEF CreditInv

\* A step of a handler that leaves records, counts and the ledger: what RequestOK needs of it.
LEMMA HandlerMoves ==
    ASSUME RampInv, RampInv', CreditInv, NEW w \in Handler,
           UNCHANGED <<ledgerVars, record, delivered, acked, credits, claimed>>,
           NEW j, Step(w, j),
           TaskOK(w)', PayingOK(w)', CreditedOK(w)',
           \A o \in Order : w \in Owed(o)' => w \in Owed(o)
    PROVE  CreditInv'
    <1>1. w \in Call /\ UNCHANGED <<at, adding>> /\ \A x \in Call \ {w} : job'[x] = job[x]
        BY KindsApart DEF Step, RampInv, ledgerVars, call
    <1>2. CreditPath(w)'
        BY <1>1 DEF CreditInv, RequestOK, CreditPath
    <1>3. RequestOK(w)'
        BY <1>2 DEF RequestOK
    <1> QED
        BY <1>1, <1>3, StillMoves

LEMMA AdoptCredits ==
    ASSUME RampInv, RampInv', CreditInv, NEW w \in Handler, NEW id \in Present, Adopt(w, id),
           record[id].table = SideOf(w), job[w].at \in {"byId", "newest"},
           UNCHANGED <<ledgerVars, record, delivered, acked, credits, claimed>>
    PROVE  CreditInv'
    <1>0. w \in Call /\ job \in [Call -> JobType] /\ Webhook(w) /\ record[id] \in Row /\ id \in Nat /\ id > 0
        BY KindsApart DEF RampInv, JobOK, Webhook, Present
    <1> DEFINE entity == [record[id] EXCEPT !.providerTransactionId = OrderOf(w),
                                            !.status = StatusOf(w), !.tokenAmount = OrderOf(w)]
               j == [job[w] EXCEPT !.at = "select", !.id = id, !.entity = entity]
    <1>1. entity.providerTransactionId = OrderOf(w) /\ entity.tokenAmount = OrderOf(w)
        BY <1>0 DEF Row
    <1>2. Step(w, j)
        BY DEF Adopt
    <1> HIDE DEF entity
    <1>3. job'[w].at = "select" /\ job'[w].id = id /\ job'[w].entity = entity /\ job'[w].event = job[w].event
        BY <1>0, <1>2 DEF Step, JobType
    <1>4. OrderOf(w)' = OrderOf(w) /\ SideOf(w)' = SideOf(w)
        BY <1>3 DEF OrderOf, SideOf
    <1>5. TaskOK(w)' /\ PayingOK(w)' /\ CreditedOK(w)'
        BY <1>0, <1>1, <1>3, <1>4, KindsApart
           DEF TaskOK, PayingOK, CreditedOK, Webhook, WithRecord, Creating, OnTheWay
    <1>6. \A o \in Order : w \in Owed(o)' => w \in Owed(o)
        BY <1>3 DEF Owed
    <1> HIDE DEF j
    <1> QED
        BY <1>2, <1>5, <1>6, HandlerMoves

LEMMA AcknowledgeUnmet ==
    ASSUME RampInv, RampInv', CreditInv, NEW w \in Handler, Acknowledge(w, FALSE),
           UNCHANGED <<ledgerVars, record, delivered, credits, claimed>>
    PROVE  CreditInv'
    BY KindsApart, EndMoves DEF Acknowledge

LEMMA FindCredits ==
    ASSUME RampInv, RampInv', CreditInv, NEW w \in Handler, FindById(w) \/ FindNewestPending(w)
    PROVE  CreditInv'
    <1>1. CASE FindById(w)
        <2> DEFINE ids == RecordsOf(OrderOf(w), SideOf(w))
                   j == [job[w] EXCEPT !.at = "newest"]
        <2>1. CASE ids = {}
            <3>1. Step(w, j) /\ job[w].at = "byId" /\ UNCHANGED <<ledgerVars, record, delivered, acked, credits, claimed>>
                BY <1>1, <2>1 DEF FindById
            <3>2. w \in Call /\ job \in [Call -> JobType]
                BY KindsApart DEF RampInv
            <3>3. job'[w].at = "newest" /\ job'[w].id = job[w].id /\ job'[w].entity = job[w].entity /\ job'[w].event = job[w].event
                BY <3>1, <3>2 DEF Step, JobType
            <3>4. OrderOf(w)' = OrderOf(w) /\ SideOf(w)' = SideOf(w) /\ Webhook(w)
                BY <3>1, <3>2, <3>3 DEF OrderOf, SideOf, Webhook, RampInv, JobOK
            <3>5. TaskOK(w)
                BY <3>2 DEF CreditInv, RequestOK
            <3>6. TaskOK(w)' /\ PayingOK(w)' /\ CreditedOK(w)'
                BY <3>1, <3>3, <3>4, <3>5, KindsApart
                   DEF TaskOK, PayingOK, CreditedOK, Webhook, WithRecord, Creating, OnTheWay
            <3>7. \A o \in Order : w \in Owed(o)' => w \in Owed(o)
                BY <3>1, <3>3 DEF Owed
            <3> HIDE DEF j
            <3> QED
                BY <3>1, <3>6, <3>7, HandlerMoves
        <2>2. CASE ids # {}
            BY <1>1, <2>2, AdoptCredits DEF FindById, RecordsOf
        <2> QED
            BY <2>1, <2>2
    <1>2. CASE FindNewestPending(w)
        <2> DEFINE ids == {id \in Present : record[id].table = SideOf(w) /\ record[id].status = "pending"}
        <2>1. CASE ids = {}
            BY <1>2, <2>1, AcknowledgeUnmet DEF FindNewestPending
        <2>2. CASE ids # {}
            BY <1>2, <2>2, AdoptCredits DEF FindNewestPending
        <2> QED
            BY <2>1, <2>2
    <1> QED
        BY <1>1, <1>2

LEMMA SelectCredits ==
    ASSUME RampInv, RampInv', CreditInv, NEW w \in Handler, SelectForSave(w)
    PROVE  CreditInv'
    <1> DEFINE j == [job[w] EXCEPT !.at = IF @ = "select" THEN "update" ELSE "updateAgain",
                                   !.dirty = {c \in Column : \/ job[w].entity[c] # record[job[w].id][c]
                                                             \/ c = "tokenAmount" /\ job[w].at = "select"}]
    <1>0. /\ w \in Call /\ job \in [Call -> JobType] /\ JobOK(w)
          /\ TaskOK(w) /\ PayingOK(w) /\ CreditedOK(w)
        BY KindsApart DEF RampInv, CreditInv, RequestOK
    <1>1. /\ Step(w, j) /\ job[w].at \in {"select", "selectAgain"}
          /\ UNCHANGED <<ledgerVars, record, delivered, acked, credits, claimed>>
        BY DEF SelectForSave
    <1>2. /\ job'[w].at = IF job[w].at = "select" THEN "update" ELSE "updateAgain"
          /\ job'[w].id = job[w].id /\ job'[w].entity = job[w].entity /\ job'[w].event = job[w].event
          /\ job'[w].dirty = {c \in Column : \/ job[w].entity[c] # record[job[w].id][c]
                                             \/ c = "tokenAmount" /\ job[w].at = "select"}
        BY <1>0, <1>1 DEF Step, JobType
    <1>3. OrderOf(w)' = OrderOf(w) /\ SideOf(w)' = SideOf(w) /\ (Webhook(w)' <=> Webhook(w)) /\ (WithRecord(w)' <=> WithRecord(w))
        BY <1>2 DEF OrderOf, SideOf, Webhook, WithRecord
    <1>4. WithRecord(w) /\ (job[w].at = "select" => Webhook(w))
        BY <1>0, <1>1 DEF JobOK, WithRecord, Webhook
    <1>5. "providerTransactionId" \notin job'[w].dirty =>
             job[w].entity.providerTransactionId = record[job[w].id].providerTransactionId
        BY <1>2 DEF Column
    <1>6. job'[w].at = "update" => "tokenAmount" \in job'[w].dirty
        BY <1>2 DEF Column
    <1>7. TaskOK(w)'
        BY <1>0, <1>1, <1>2, <1>3, <1>4, <1>5, <1>6, KindsApart DEF TaskOK, Creating
    <1>8. PayingOK(w)' /\ CreditedOK(w)'
        <2>1. OnTheWay(w)' => OnTheWay(w) /\ job[w].at = "selectAgain" /\ job'[w].at = "updateAgain"
            BY <1>1, <1>2, <1>3 DEF OnTheWay
        <2>2. PayingOK(w)'
            BY <1>0, <1>1, <1>2, <1>3, <2>1 DEF PayingOK, Shared
        <2>3. CreditedOK(w)'
            BY <1>0, <1>1, <1>2, <1>3 DEF CreditedOK, Alone
        <2> QED
            BY <2>2, <2>3
    <1>9. \A o \in Order : w \in Owed(o)' => w \in Owed(o)
        BY <1>1, <1>2 DEF Owed
    <1> HIDE DEF j
    <1> QED
        BY <1>1, <1>7, <1>8, <1>9, HandlerMoves

LEMMA PutCredits ==
    ASSUME RampInv, RampInv', CreditInv, NEW w \in Handler,
           \/ \E id \in Present, status \in PutStatus, o \in PutId : PutOffRampStatus(w, id, status, o)
           \/ UpdateOffRampStatus(w)
    PROVE  CreditInv'
    <1>0. /\ w \in Call /\ job \in [Call -> JobType] /\ JobOK(w) /\ TaskOK(w)
        BY KindsApart DEF RampInv, CreditInv, RequestOK
    <1>1. ASSUME NEW id \in Present, NEW status \in PutStatus, NEW o \in PutId, PutOffRampStatus(w, id, status, o)
          PROVE  CreditInv'
        <2> DEFINE entity == [NewRow("SELL") EXCEPT !.status = status, !.providerTransactionId = o]
                   j == [Idling EXCEPT !.at = "put", !.id = id, !.entity = entity]
        <2>1. Step(w, j) /\ record[id].table = "SELL" /\ UNCHANGED <<ledgerVars, record, delivered, acked, credits, claimed>>
            BY <1>1 DEF PutOffRampStatus
        <2> HIDE DEF entity
        <2>2. job'[w].at = "put" /\ job'[w].id = id /\ job'[w].event = NoEvent
            BY <1>0, <2>1 DEF Step, Idling
        <2>3. TaskOK(w)' /\ PayingOK(w)' /\ CreditedOK(w)'
            BY <2>1, <2>2, KindsApart DEF TaskOK, PayingOK, CreditedOK, Webhook, WithRecord, Creating, OnTheWay
        <2>4. \A o_1 \in Order : w \in Owed(o_1)' => w \in Owed(o_1)
            BY <2>2 DEF Owed
        <2> HIDE DEF j
        <2> QED
            BY <2>1, <2>3, <2>4, HandlerMoves
    <1>2. CASE UpdateOffRampStatus(w)
        <2>1. PICK entity : /\ Step(w, [job[w] EXCEPT !.at = "selectAgain", !.entity = entity])
                            /\ job[w].at = "put" /\ UNCHANGED <<ledgerVars, record, delivered, acked, credits, claimed>>
            BY <1>2 DEF UpdateOffRampStatus
        <2>2. job'[w].at = "selectAgain" /\ job'[w].id = job[w].id /\ job'[w].event = job[w].event
            BY <1>0, <2>1 DEF Step, JobType
        <2>3. ~Webhook(w) /\ ~Webhook(w)'
            BY <1>0, <2>1, <2>2 DEF TaskOK, Webhook
        <2>4. TaskOK(w)' /\ PayingOK(w)' /\ CreditedOK(w)'
            BY <1>0, <2>1, <2>2, <2>3, KindsApart DEF TaskOK, PayingOK, CreditedOK, WithRecord, Creating, OnTheWay
        <2>5. \A o \in Order : w \in Owed(o)' => w \in Owed(o)
            BY <2>2 DEF Owed
        <2> QED
            BY <2>1, <2>4, <2>5, HandlerMoves
    <1> QED
        BY <1>1, <1>2

LEMMA CallReturnsCredits ==
    ASSUME RampInv, RampInv', CreditInv, NEW w \in Call, CallReturns(w)
    PROVE  CreditInv'
    <1>0. /\ job \in [Call -> JobType] /\ at[w] \in Idle
          /\ job[w].at \in {"list", "listAgain", "credit"}
          /\ UNCHANGED <<ledgerVars, record, delivered, acked, credits, claimed>>
          /\ TaskOK(w) /\ PayingOK(w) /\ CreditedOK(w)
        BY DEF RampInv, CallReturns, Waiting, CreditInv, RequestOK
    <1>1. CASE at[w] = "failed"
        BY <1>1, EndMoves DEF CallReturns
    <1>2. CASE at[w] # "failed"
        <2> DEFINE label == CASE job[w].at = "list" -> "walletsAgain"
                              [] job[w].at = "listAgain" -> "insert"
                              [] OTHER -> "selectAgain"
        <2>1. Step(w, [job[w] EXCEPT !.at = label])
            BY <1>2 DEF CallReturns, Resumed
        <2>2. /\ job'[w].at = label /\ job'[w].event = job[w].event /\ job'[w].id = job[w].id
              /\ job'[w].entity = job[w].entity /\ \A x \in Call \ {w} : job'[x] = job[x]
            BY <1>0, <2>1 DEF Step, JobType
        <2>3. CASE w \in Creator
            <3>1. label \in Creating
                BY <1>0, <2>3 DEF TaskOK, Creating
            <3>2. RequestOK(w)' /\ \A o \in Order : w \notin Owed(o)'
                BY <2>2, <2>3, <3>1, CreatorFields, CreatorOK
            <3> QED
                BY <1>0, <2>2, <3>2, StillMoves DEF ledgerVars, call
        <2>4. CASE w \in Handler
            <3>1. job[w].at = "credit" /\ job'[w].at = "selectAgain" /\ at[w] = "idle"
                BY <1>0, <1>2, <2>2, <2>4 DEF TaskOK, Creating, Idle
            <3>2. OnTheWay(w) /\ Webhook(w) /\ OrderOf(w) \in Order
                BY <1>0, <3>1, OrderOfEvent DEF OnTheWay, PayingOK
            <3>3. OrderOf(w)' = OrderOf(w) /\ SideOf(w)' = SideOf(w) /\ (Webhook(w)' <=> Webhook(w)) /\ (WithRecord(w)' <=> WithRecord(w))
                BY <2>2 DEF OrderOf, SideOf, Webhook, WithRecord
            <3>4. TaskOK(w)'
                BY <1>0, <2>2, <2>4, <3>1, <3>2, <3>3, KindsApart DEF TaskOK, Creating
            <3>5. PayingOK(w)'
                BY <1>0, <2>2, <3>1, <3>2, <3>3 DEF PayingOK, Shared
            <3>6. CreditedOK(w)'
                <4> SUFFICES ASSUME Alone(OrderOf(w))
                             PROVE  credits[OrderOf(w)] > 0
                    BY <1>0, <2>2, <3>1, <3>3 DEF CreditedOK, Alone
                <4>1. job[w].id \in claimed[OrderOf(w)] /\ (job[w].entity.tokenAmount = OrderOf(w) \/ Shared(job[w].id, OrderOf(w)))
                    BY <1>0, <3>1, <3>2 DEF PayingOK
                <4>2. job[w].entity.tokenAmount = OrderOf(w)
                    BY <3>2, <4>1, SharedNotAlone
                <4> QED
                    BY <1>0, <3>1, <4>2 DEF CreditedOK
            <3>7. \A o \in Order : w \in Owed(o)' => w \in Owed(o)
                BY <3>1 DEF Owed
            <3> QED
                BY <1>0, <2>1, <2>4, <3>4, <3>5, <3>6, <3>7, HandlerMoves
        <2> QED
            BY <2>3, <2>4, KindsApart
    <1> QED
        BY <1>1, <1>2

\* The process dies: whatever was owed is given up.
LEMMA CrashCredits ==
    ASSUME RampInv, CreditInv, ProcessCrashes
    PROVE  CreditInv'
    <1>1. /\ UNCHANGED <<record, delivered, acked, credits, claimed>> /\ adding' = {}
          /\ \A w \in Call : job'[w] = Idling /\ at'[w] = "idle"
        BY DEF ProcessCrashes, Crash
    <1>2. ASSUME NEW w \in Call PROVE RequestOK(w)'
        BY <1>1, IdlingFields, KindsApart
           DEF RequestOK, TaskOK, PayingOK, CreditPath, CreditedOK, Webhook, WithRecord, Creating, OnTheWay
    <1>3. ASSUME NEW o \in Order PROVE Owed(o)' = {}
        BY <1>1, IdlingFields, KindsApart DEF Owed
    <1>4. DeliveriesCover'
        <2> SUFFICES ASSUME NEW o \in Order, Alone(o), Side[o] = "BUY", Completed(o) \in Event
                     PROVE  credits[o] <= delivered[Completed(o)]
            <3>1. IsFiniteSet({}) /\ Cardinality({}) = 0
                BY FS_EmptySet
            <3>2. \A o \in Order : credits[o] \in Nat /\ credits[o] + 0 = credits[o]
                BY DEF RampInv
            <3> QED
                BY <1>1, <1>3, <3>1, <3>2 DEF CreditInv, DeliveriesCover, Alone, Completed
        <2>1. Cardinality(Owed(o)) \in Nat /\ credits[o] + Cardinality(Owed(o)) <= delivered[Completed(o)]
            BY FS_CardinalityType DEF CreditInv, DeliveriesCover
        <2> QED
            BY <2>1 DEF RampInv
    <1>5. RecordsOK' /\ AcknowledgedMeansCredited'
        BY <1>1 DEF CreditInv, RecordsOK, Shared, Present, AcknowledgedMeansCredited, Alone
    <1> QED
        BY <1>2, <1>4, <1>5 DEF CreditInv

LEMMA OutsideCredits ==
    ASSUME RampInv, CreditInv, UNCHANGED <<at, adding, record, job, delivered, acked, credits, claimed>>
    PROVE  CreditInv'
    <1>1. Forward /\ credits' \in [Order -> Nat]
        BY DEF Forward, Present, RampInv
    <1>2. \A w \in Call : RequestOK(w)'
        BY <1>1, OthersKeep DEF CreditInv
    <1>3. ASSUME NEW o \in Order PROVE Owed(o)' = Owed(o)
        BY DEF Owed, Paid
    <1>4. DeliveriesCover'
        BY <1>3 DEF CreditInv, DeliveriesCover, Alone, Completed
    <1>5. RecordsOK' /\ AcknowledgedMeansCredited'
        BY DEF CreditInv, RecordsOK, Shared, Present, AcknowledgedMeansCredited, Alone
    <1> QED
        BY <1>2, <1>4, <1>5 DEF CreditInv

\* The record that is to be credited is one of the order's own; the request does
\* without the credit only for an order that has shared it or has no amount.
LEMMA FindAgainCredits ==
    ASSUME RampInv, RampInv', TypeInv, CreditInv, NEW w \in Handler, FindAgain(w)
    PROVE  CreditInv'
    <1> DEFINE T == OrderOf(w)
               ids == RecordsOf(T, "BUY")
    <1>0. /\ w \in Call /\ Kind[w] = "credit" /\ job \in [Call -> JobType] /\ job[w].at = "again"
          /\ TaskOK(w) /\ PayingOK(w) /\ CreditPath(w)
          /\ UNCHANGED <<record, delivered, credits, claimed>>
        BY KindsApart DEF RampInv, CreditInv, RequestOK, FindAgain
    <1>1. /\ Webhook(w) /\ SideOf(w) = "BUY" /\ job[w].event = Completed(T) /\ T \in Order
          /\ \E id \in claimed[T] : record[id].table = "BUY"
        BY <1>0, OrderOfEvent DEF PayingOK, OnTheWay
    <1>2. CASE ids = {}
        <2>1. ~Alone(T)
            <3>1. PICK id \in claimed[T] : record[id].table = "BUY"
                BY <1>1
            <3>2. id \in Present /\ record[id].providerTransactionId # T
                BY <1>1, <1>2, <3>1 DEF RecordsOf, RampInv
            <3> QED
                BY <1>1, <3>1, <3>2, SharedNotAlone DEF CreditInv, RecordsOK
        <2>2. Step(w, Idling) /\ acked' = acked \cup {Completed(T)} /\ UNCHANGED ledgerVars
            BY <1>1, <1>2 DEF FindAgain, Acknowledge
        <2>3. ASSUME NEW o \in Order, Completed(o) \in acked', Alone(o) PROVE Completed(o) \in acked
            BY <2>1, <2>2, <2>3 DEF Completed
        <2> QED
            BY <1>0, <2>2, <2>3, EndMoves
    <1>3. CASE ids # {}
        <2> DEFINE entity(id) == [record[id] EXCEPT !.status = "completed"]
                   next(id, label) == [job[w] EXCEPT !.id = id, !.entity = entity(id), !.at = label]
        <2>1. PICK id \in ids :
                 /\ \/ Amount(entity(id)) <= 0 /\ Step(w, next(id, "selectAgain")) /\ UNCHANGED ledgerVars
                    \/ ~(Amount(entity(id)) <= 0) /\ Step(w, next(id, "credit")) /\ Invoke(w, Amount(entity(id)))
                 /\ UNCHANGED acked
            <3>1. \A id, label : [[job[w] EXCEPT !.id = id, !.entity = entity(id)] EXCEPT !.at = label] = next(id, label)
                BY <1>0 DEF JobType
            <3>2. PICK id \in ids :
                     LET j == [job[w] EXCEPT !.id = id, !.entity = entity(id)]
                     IN  /\ IF Amount(entity(id)) <= 0
                            THEN Step(w, [j EXCEPT !.at = "selectAgain"]) /\ UNCHANGED ledgerVars
                            ELSE Step(w, [j EXCEPT !.at = "credit"]) /\ Invoke(w, Amount(entity(id)))
                         /\ UNCHANGED acked
                BY <1>3 DEF FindAgain
            <3> QED
                BY <3>1, <3>2
        <2>2. /\ id \in Present /\ id \in Nat /\ id > 0 /\ record[id] \in Row
              /\ record[id].table = "BUY" /\ record[id].providerTransactionId = T
            BY DEF RecordsOf, RampInv, Present
        <2>3. /\ entity(id).providerTransactionId = T
              /\ entity(id).tokenAmount = record[id].tokenAmount
            BY <2>2 DEF Row
        <2>4. /\ id \in claimed[T] /\ (record[id].tokenAmount = T \/ Shared(id, T))
              /\ record[id].tokenAmount \in Order => id \in claimed[record[id].tokenAmount]
            BY <1>1, <2>2 DEF CreditInv, RecordsOK
        <2>5. ~(Amount(entity(id)) <= 0) => Amount(entity(id)) \in Credit /\ entity(id).tokenAmount \in Order
            <3>1. ~(Amount(entity(id)) <= 0) => Amount(entity(id)) \in Credit
                BY <2>2, CreditedAmount
            <3> QED
                BY <2>2, <2>3, <3>1 DEF Amount, Row
        <2>6. Amount(entity(id)) <= 0 /\ Alone(T) => ~(CryptoAmount[T] > 0)
            <3>1. Alone(T) => entity(id).tokenAmount = T
                BY <1>1, <2>3, <2>4, SharedNotAlone
            <3>2. T # NoOrder /\ CryptoAmount[T] \in Nat
                BY <1>1, OrderAssumption, AmountAssumption
            <3> QED
                BY <3>1, <3>2 DEF Amount
        <2> HIDE DEF entity
        <2>7. ASSUME NEW label \in {"selectAgain", "credit"}, Step(w, next(id, label))
              PROVE  /\ job'[w].at = label /\ job'[w].id = id /\ job'[w].entity = entity(id)
                     /\ job'[w].event = job[w].event
                     /\ \A x \in Call \ {w} : job'[x] = job[x]
            BY <1>0, <2>7 DEF Step, JobType
        <2>8. ASSUME NEW label \in {"selectAgain", "credit"}, Step(w, next(id, label)),
                     label = "credit" => entity(id).tokenAmount \in Order
              PROVE  TaskOK(w)' /\ PayingOK(w)'
            <3>1. OrderOf(w)' = T /\ SideOf(w)' = "BUY" /\ Webhook(w)' /\ WithRecord(w)' /\ OnTheWay(w)'
                BY <1>1, <2>2, <2>7, <2>8 DEF OrderOf, SideOf, Webhook, WithRecord, OnTheWay
            <3>2. TaskOK(w)'
                BY <1>0, <2>2, <2>3, <2>7, <2>8, <3>1, KindsApart DEF TaskOK, Creating
            <3>3. PayingOK(w)'
                BY <1>0, <1>1, <2>3, <2>4, <2>7, <2>8, <3>1 DEF PayingOK, Shared, Completed
            <3> QED
                BY <3>2, <3>3
        <2>9. CASE Amount(entity(id)) <= 0 /\ Step(w, next(id, "selectAgain")) /\ UNCHANGED ledgerVars
            <3>1. /\ job'[w].at = "selectAgain" /\ job'[w].event = job[w].event
                BY <2>7, <2>9
            <3>2. OrderOf(w)' = T
                BY <3>1 DEF OrderOf
            <3>3. CreditedOK(w)'
                BY <1>0, <2>6, <2>9, <3>1, <3>2 DEF CreditedOK, Alone
            <3>4. \A o \in Order : w \in Owed(o)' => w \in Owed(o)
                BY <3>1 DEF Owed
            <3>5. TaskOK(w)' /\ PayingOK(w)'
                BY <2>8, <2>9
            <3> HIDE DEF next
            <3> QED
                BY <1>0, <2>1, <2>9, <3>3, <3>4, <3>5, HandlerMoves
        <2>10. CASE ~(Amount(entity(id)) <= 0) /\ Step(w, next(id, "credit")) /\ Invoke(w, Amount(entity(id)))
            <3>1. /\ job'[w].at = "credit" /\ job'[w].event = job[w].event
                  /\ \A x \in Call \ {w} : job'[x] = job[x]
                BY <2>7, <2>10
            <3>2. CreditPath(w)' /\ at'[w] = "wallet" /\ ~Paid(w)'
                <4>1. Amount(entity(id)) \in Nat
                    BY <2>5, <2>10, AmountAssumption
                <4> QED
                    BY <1>0, <2>5, <2>10, <4>1, CreditSetsOut
            <3>3. \A x \in Call \ {w} : at'[x] = at[x] /\ (x \in adding' <=> x \in adding)
                BY <1>0, <2>10, OneCallMoves, OneCallAdds
            <3>4. CreditedOK(w)'
                BY <3>1, <3>2 DEF CreditedOK
            <3>5. TaskOK(w)' /\ PayingOK(w)'
                BY <2>5, <2>8, <2>10
            <3>6. \A o \in Order : w \in Owed(o)' => w \in Owed(o)
                BY <1>0, <3>1 DEF Owed, Completed
            <3>7. RequestOK(w)'
                BY <3>2, <3>4, <3>5 DEF RequestOK
            <3> QED
                BY <1>0, <2>1, <3>1, <3>3, <3>6, <3>7, StillMoves
        <2> QED
            BY <2>1, <2>9, <2>10
    <1> QED
        BY <1>2, <1>3

\* What an UPDATE leaves of the row.
LEMMA UpdatedFields ==
    ASSUME RampInv, NEW w \in Handler, Update(w)
    PROVE  /\ job[w].id \in Present
           /\ \A id \in Present \ {job[w].id} : record'[id] = record[id]
           /\ Present' = Present
           /\ record'[job[w].id].table = record[job[w].id].table
           /\ \A c \in {"providerTransactionId", "tokenAmount"} :
                 record'[job[w].id][c] = IF c \in job[w].dirty THEN job[w].entity[c] ELSE record[job[w].id][c]
    <1>1. /\ w \in Call /\ job[w].id \in Present /\ job[w] \in JobType
          /\ record[job[w].id] \in Row /\ record \in Seq(Row)
        BY KindsApart DEF RampInv, Update, JobOK, Present, JobType
    <1> DEFINE old == record[job[w].id]
               new == [c \in DOMAIN old |-> IF c \in job[w].dirty THEN job[w].entity[c] ELSE old[c]]
    <1>2. new \in Row
        BY <1>1, MergedRow DEF JobType
    <1>3. new.table = old.table
        BY <1>1 DEF Row, JobType, Column
    <1>4. \A c \in {"providerTransactionId", "tokenAmount"} :
             new[c] = IF c \in job[w].dirty THEN job[w].entity[c] ELSE old[c]
        BY <1>1 DEF Row
    <1>5. record' = [record EXCEPT ![job[w].id] = new]
        BY DEF Update
    <1> HIDE DEF new
    <1> QED
        BY <1>1, <1>2, <1>3, <1>4, <1>5 DEF Present

\* The record of a buy order holds, once its request has saved it, the order and the
\* amount that the request holds, or other orders have written into it.
LEMMA UpdateCredits ==
    ASSUME RampInv, RampInv', CreditInv, NEW w \in Handler, Update(w)
    PROVE  CreditInv'
    <1> DEFINE i == job[w].id
               T == OrderOf(w)
    <1>0. /\ w \in Call /\ job \in [Call -> JobType] /\ JobOK(w) /\ WithRecord(w)
          /\ TaskOK(w) /\ PayingOK(w) /\ CreditPath(w) /\ CreditedOK(w)
          /\ job[w].at \in {"update", "updateAgain"}
          /\ UNCHANGED <<ledgerVars, delivered, credits>> /\ UNCHANGED <<at, adding>>
          /\ claimed \in [Order -> SUBSET Present]
        BY KindsApart DEF RampInv, CreditInv, RequestOK, Update, JobOK, WithRecord, ledgerVars, call
    <1>1. record[i].table = "BUY" => Webhook(w) /\ SideOf(w) = "BUY"
        BY <1>0 DEF TaskOK
    <1>2. Webhook(w) =>
             /\ T \in Order /\ job[w].entity.providerTransactionId = T
             /\ claimed' = [claimed EXCEPT ![T] = @ \cup {i}]
        <2>1. Webhook(w) => T \in Order /\ job[w].entity.providerTransactionId = T
            BY <1>0, OrderOfEvent DEF TaskOK
        <2> QED
            BY <2>1, KindsApart DEF Update
    <1>3. \A o \in Order : claimed[o] \subseteq claimed'[o]
        BY <1>0 DEF Update
    <1>4. Webhook(w) => i \in claimed'[T]
        BY <1>0, <1>2
    <1>5. record[i].table = "BUY" =>
             record'[i].providerTransactionId = T \/ (record'[i].providerTransactionId = record[i].providerTransactionId /\ Shared(i, T))
        <2>1. record[i].table = "BUY" /\ "providerTransactionId" \notin job[w].dirty =>
                 record[i].providerTransactionId = T \/ Shared(i, T)
            BY <1>0, <1>1 DEF TaskOK
        <2> QED
            BY <1>1, <1>2, <2>1, UpdatedFields
    <1>6. record[i].table = "BUY" =>
             \/ record'[i].tokenAmount = T
             \/ record'[i].tokenAmount = record[i].tokenAmount /\ job[w].at = "updateAgain"
             \/ Shared(i, T) /\ (record'[i].tokenAmount \in Order => i \in claimed[record'[i].tokenAmount])
        <2>1. CASE job[w].at = "update"
            BY <1>0, <1>1, <2>1, UpdatedFields DEF TaskOK
        <2>2. CASE job[w].at = "updateAgain"
            <3>1. record[i].table = "BUY" =>
                     /\ job[w].entity.tokenAmount = T \/ Shared(i, T)
                     /\ job[w].entity.tokenAmount \in Order => i \in claimed[job[w].entity.tokenAmount]
                BY <1>0, <1>1, <2>2 DEF PayingOK, OnTheWay
            <3> QED
                BY <2>2, <3>1, UpdatedFields
        <2> QED
            BY <1>0, <2>1, <2>2
    <1>7. Forward
        <2>1. ASSUME NEW id \in Present, NEW o \in Order, record[id].table = "BUY", record[id].providerTransactionId = o
              PROVE  record'[id].providerTransactionId = o \/ Shared(id, o)'
            <3>1. CASE id # i
                BY <2>1, <3>1, UpdatedFields
            <3>2. CASE id = i
                BY <1>1, <1>2, <1>4, <1>5, <2>1, <3>2 DEF Shared
            <3> QED
                BY <3>1, <3>2
        <2>2. \A id \in Present : record'[id].table = record[id].table
            BY UpdatedFields
        <2>3. \A o \in Order : credits[o] <= credits'[o]
            BY <1>0 DEF RampInv
        <2> QED
            BY <1>3, <2>1, <2>2, <2>3, UpdatedFields DEF Forward
    <1>8. RecordsOK'
        <2> SUFFICES ASSUME NEW id \in Present, record'[id].table = "BUY", NEW q \in Order
                     PROVE  /\ record'[id].providerTransactionId = q \/ record'[id].tokenAmount = q => id \in claimed'[q]
                            /\ id \in claimed'[q] =>
                                 \/ \E p \in Order \ {q} : id \in claimed'[p]
                                 \/ record'[id].providerTransactionId = q /\ record'[id].tokenAmount = q
            BY UpdatedFields DEF RecordsOK, Shared
        <2>0. record[id].table = "BUY"
            BY UpdatedFields
        <2>1. /\ record[id].providerTransactionId = q \/ record[id].tokenAmount = q => id \in claimed[q]
              /\ id \in claimed[q] =>
                    \/ Shared(id, q)
                    \/ record[id].providerTransactionId = q /\ record[id].tokenAmount = q
            BY <2>0 DEF CreditInv, RecordsOK
        <2>2. Shared(id, q) => \E p \in Order \ {q} : id \in claimed'[p]
            BY <1>3 DEF Shared
        <2>3. CASE id # i
            <3>1. \A o \in Order : id \in claimed'[o] <=> id \in claimed[o]
                BY <1>0, <2>3 DEF Update
            <3>2. record'[id] = record[id]
                BY <2>3, UpdatedFields
            <3> QED
                BY <2>1, <2>2, <3>1, <3>2
        <2>4. CASE id = i
            <3>1. Webhook(w) /\ T \in Order /\ i \in claimed'[T]
                BY <1>1, <1>2, <1>4, <2>0, <2>4
            <3>2. record'[i].providerTransactionId = q => i \in claimed'[q]
                BY <1>3, <1>5, <2>0, <2>1, <2>4, <3>1
            <3>3. record'[i].tokenAmount = q => i \in claimed'[q]
                BY <1>3, <1>6, <2>0, <2>1, <2>4, <3>1
            <3>4. CASE q # T
                BY <2>4, <3>1, <3>2, <3>3, <3>4
            <3>5. CASE q = T /\ ~Shared(i, T)
                <4>1. record'[i].providerTransactionId = T
                    BY <1>5, <2>0, <2>4, <3>5
                <4>2. record'[i].tokenAmount = T
                    <5>1. CASE record'[i].tokenAmount = record[i].tokenAmount /\ job[w].at = "updateAgain"
                        <6>1. i \in claimed[T]
                            BY <1>0, <3>1, <5>1 DEF PayingOK, OnTheWay
                        <6> QED
                            BY <2>1, <2>4, <3>5, <5>1, <6>1
                    <5> QED
                        BY <1>6, <2>0, <2>4, <3>5, <5>1
                <4> QED
                    BY <2>4, <3>1, <3>5, <4>1, <4>2
            <3>6. CASE q = T /\ Shared(i, T)
                BY <2>2, <2>4, <3>2, <3>3, <3>6
            <3> QED
                BY <3>4, <3>5, <3>6
        <2> QED
            BY <2>3, <2>4
    <1>9. /\ \A x \in Call \ {w} : job'[x] = job[x] /\ at'[x] = at[x] /\ (x \in adding' <=> x \in adding)
          /\ \A e \in Event : delivered[e] <= delivered'[e]
        BY <1>0 DEF Update, Acknowledge, Step, RampInv
    <1> DEFINE paying == job[w].event # NoEvent /\ job[w].at = "update" /\ SideOf(w) = "BUY" /\ StatusOf(w) = "completed"
    <1>10. CASE ~paying
        <2>1. job'[w] = Idling /\ (acked' = acked \/ acked' = acked \cup {job[w].event})
            BY <1>0, <1>10 DEF Update, Acknowledge, Step
        <2>2. RequestOK(w)' /\ \A o \in Order : w \notin Owed(o)'
            BY <1>0, <2>1, EndedOK
        <2>3. ASSUME NEW o \in Order, Completed(o) \in acked', Side[o] = "BUY", CryptoAmount[o] > 0, Alone(o)
              PROVE  Completed(o) \in acked \/ credits[o] > 0
            <3> SUFFICES ASSUME job[w].event = Completed(o), Completed(o) \notin acked
                         PROVE  credits[o] > 0
                BY <2>1, <2>3
            <3>1. T = o /\ SideOf(w) = "BUY" /\ StatusOf(w) = "completed"
                BY <2>3 DEF OrderOf, SideOf, StatusOf, Completed, MapTransakStatus
            <3>2. Webhook(w) /\ job[w].event # NoEvent
                <4>1. acked' # acked
                    BY <2>3
                <4>2. job[w].event # NoEvent
                    BY <4>1 DEF Update
                <4> QED
                    BY <1>0, <4>2 DEF JobType, Webhook
            <3>3. job[w].at = "updateAgain"
                BY <1>0, <1>10, <3>1, <3>2
            <3> QED
                BY <1>0, <2>3, <3>1, <3>2, <3>3 DEF CreditedOK
        <2> QED
            BY <1>0, <1>7, <1>8, <1>9, <2>1, <2>2, <2>3, RequestMoves
    <1>11. CASE paying
        <2>1. /\ job'[w] = [Idling EXCEPT !.at = "again", !.event = job[w].event] /\ acked' = acked
            BY <1>0, <1>11 DEF Update, Step
        <2>2. /\ job'[w].at = "again" /\ job'[w].event = job[w].event /\ job'[w].id = 0 /\ Webhook(w)
            BY <1>0, <1>11, <2>1 DEF Idling, JobType, Webhook
        <2>3. OrderOf(w)' = T /\ SideOf(w)' = "BUY" /\ Webhook(w)' /\ ~WithRecord(w)' /\ OnTheWay(w)'
            BY <1>11, <2>2 DEF OrderOf, SideOf, Webhook, WithRecord, OnTheWay
        <2>4. job[w].event = Completed(T)
            BY <1>0, <1>11, <2>2, OrderOfEvent
        <2>5. record'[i].table = "BUY" /\ i \in claimed'[T]
            BY <1>0, <1>4, <1>11, <2>2, UpdatedFields DEF TaskOK
        <2>6. PayingOK(w)'
            BY <2>2, <2>3, <2>4, <2>5 DEF PayingOK, Completed
        <2>7. TaskOK(w)' /\ CreditedOK(w)'
            BY <1>0, <2>2, <2>3, KindsApart DEF TaskOK, CreditedOK, Creating
        <2>8. RequestOK(w)'
            BY <1>0, <2>6, <2>7 DEF RequestOK, CreditPath
        <2>9. \A o \in Order : w \in Owed(o)' => w \in Owed(o)
            BY <1>11, <2>2 DEF Owed, Completed
        <2>10. \A o \in Order : Completed(o) \in acked' => Completed(o) \in acked
            BY <2>1
        <2> QED
            BY <1>0, <1>7, <1>8, <1>9, <2>8, <2>9, <2>10, RequestMoves
    <1> QED
        BY <1>10, <1>11

\* A step of the ledger's call: the save of a credit pays for one delivery, of the
\* order whose amount it is.
LEMMA LedgerProceedsCredits ==
    ASSUME RampInv, RampInv', TypeInv, CreditInv, NEW w \in Call, LedgerProceeds(w)
    PROVE  CreditInv'
    <1> DEFINE t == job[w].entity.tokenAmount
               T == OrderOf(w)
    <1>0. /\ Proceed(w) /\ UNCHANGED <<record, job, delivered, acked, claimed>>
          /\ \A x \in Call \ {w} : at'[x] = at[x] /\ (x \in adding' <=> x \in adding)
          /\ TaskOK(w) /\ PayingOK(w) /\ CreditPath(w) /\ CreditedOK(w)
        BY OneCallMoves, OneCallAdds DEF LedgerProceeds, CreditInv, RequestOK
    <1>1. CASE w \in Creator
        <2>1. UNCHANGED credits
            BY <1>1, KindsApart DEF LedgerProceeds, TypeInv, CallsOK
        <2>2. RequestOK(w)' /\ \A o \in Order : w \notin Owed(o)'
            BY <1>0, <1>1, CreatorFields, CreatorOK
        <2> QED
            BY <1>0, <2>1, <2>2, StillMoves
    <1>2. CASE w \in Handler
        <2>0. /\ CreditPath(w)' /\ at[w] \notin Idle
              /\ \/ at'[w] = "failed"
                 \/ Paid(w) /\ at'[w] = "idle"
                 \/ /\ ~Paid(w) /\ at'[w] \notin Idle
                    /\ Paid(w)' <=> w \in adding /\ at[w] = "save" /\ at'[w] = "record"
            BY <1>0, <1>2, KindsApart, CreditProceeds
        <2>1. job[w].at = "credit"
            BY <1>0, <1>2, <2>0 DEF RampInv, JobOK, Waiting, TaskOK, Creating
        <2>2. /\ OnTheWay(w) /\ Webhook(w) /\ T \in Order /\ t \in Order /\ SideOf(w) = "BUY"
              /\ job[w].event = Completed(T) /\ job[w].id \in claimed[T] /\ job[w].id \in claimed[t]
              /\ SideOf(w) = Side[T]
            BY <1>0, <2>1, OrderOfEvent DEF OnTheWay, PayingOK
        <2>3. TaskOK(w)' /\ PayingOK(w)'
            BY <1>0 DEF TaskOK, PayingOK, Webhook, WithRecord, OnTheWay, SideOf, OrderOf, Shared, Completed
        <2>4. CASE ~(w \in adding /\ at[w] = "save" /\ at'[w] = "record")
            <3>1. UNCHANGED credits /\ ~Paid(w)'
                BY <2>0, <2>4 DEF LedgerProceeds, Paid, Idle
            <3>2. at'[w] = "idle" => Paid(w)
                BY <2>0 DEF Idle
            <3>3. CreditedOK(w)'
                BY <1>0, <2>1, <3>1, <3>2 DEF CreditedOK
            <3>4. \A o \in Order : w \in Owed(o)' => w \in Owed(o)
                BY <1>0, <2>0, <2>1 DEF Owed, Completed, Idle
            <3>5. RequestOK(w)'
                BY <2>0, <2>3, <3>3 DEF RequestOK
            <3> QED
                BY <1>0, <3>1, <3>4, <3>5, StillMoves
        <2>5. CASE w \in adding /\ at[w] = "save" /\ at'[w] = "record"
            <3>1. credits' = [credits EXCEPT ![t] = @ + 1] /\ credits \in [Order -> Nat] /\ credits' \in [Order -> Nat]
                BY <2>5 DEF LedgerProceeds, RampInv
            <3>2. /\ credits'[t] = credits[t] + 1
                  /\ \A o \in Order \ {t} : credits'[o] = credits[o]
                BY <2>2, <3>1
            <3>3. Forward
                <4>1. \A o \in Order : credits[o] <= credits'[o]
                    BY <2>2, <3>1, <3>2
                <4> QED
                    BY <1>0, <4>1 DEF Forward, Present
            <3>4. CreditedOK(w)'
                BY <1>0, <2>1, <2>2, <3>1, <3>2 DEF CreditedOK
            <3>5. ASSUME NEW x \in Call PROVE RequestOK(x)'
                <4>1. CASE x = w
                    BY <2>0, <2>3, <3>4, <4>1 DEF RequestOK
                <4>2. CASE x # w
                    BY <1>0, <3>1, <3>3, <4>2, OthersKeep DEF CreditInv
                <4> QED
                    BY <4>1, <4>2
            <3>6. RecordsOK'
                BY <1>0 DEF CreditInv, RecordsOK, Present, Shared
            <3>7. AcknowledgedMeansCredited'
                BY <1>0, <3>1, <3>3, AcknowledgedStays DEF CreditInv
            <3>8. DeliveriesCover'
                <4> SUFFICES ASSUME NEW o \in Order
                             PROVE  /\ IsFiniteSet(Owed(o)')
                                    /\ Alone(o) => IF Side[o] = "BUY" /\ Completed(o) \in Event
                                                   THEN credits'[o] + Cardinality(Owed(o)') <= delivered[Completed(o)]
                                                   ELSE credits'[o] = 0
                    BY <1>0 DEF DeliveriesCover, Completed, Alone
                <4>1. IsFiniteSet(Owed(o)) /\ Cardinality(Owed(o)) \in Nat
                    BY FS_CardinalityType DEF CreditInv, DeliveriesCover
                <4>2. Owed(o)' = Owed(o) \ {w}
                    <5>1. ASSUME NEW x \in Handler \ {w} PROVE x \in Owed(o)' <=> x \in Owed(o)
                        BY <1>0, KindsApart DEF Owed, Paid, Completed
                    <5>2. w \notin Owed(o)'
                        BY <1>0, <2>0, <2>1, <2>5 DEF Owed, Idle
                    <5>3. Owed(o) \subseteq Handler /\ Owed(o)' \subseteq Handler
                        BY DEF Owed
                    <5> QED
                        BY <5>1, <5>2, <5>3
                <4>3. Completed(o) \in Event => delivered[Completed(o)] \in Nat
                    BY DEF RampInv
                <4>4. IsFiniteSet(Owed(o)') /\ Cardinality(Owed(o)') \in Nat /\ Cardinality(Owed(o)') <= Cardinality(Owed(o))
                    BY <4>1, <4>2, FS_Subset, FS_CardinalityType
                <4>5. CASE o # t
                    BY <3>1, <3>2, <4>1, <4>3, <4>4, <4>5 DEF CreditInv, DeliveriesCover
                <4>6. CASE o = t /\ Alone(o)
                    <5>1. T = o
                        BY <2>2, <4>6 DEF Alone
                    <5>2. w \in Owed(o) /\ Side[o] = "BUY" /\ Completed(o) \in Event
                        BY <1>2, <2>0, <2>1, <2>2, <2>5, <5>1 DEF Owed, Webhook, Paid
                    <5>3. Cardinality(Owed(o)') = Cardinality(Owed(o)) - 1
                        BY <4>1, <4>2, <5>2, FS_RemoveElement
                    <5> QED
                        BY <3>1, <3>2, <4>1, <4>3, <4>4, <4>6, <5>2, <5>3 DEF CreditInv, DeliveriesCover
                <4> QED
                    BY <4>4, <4>5, <4>6
            <3> QED
                BY <3>5, <3>6, <3>7, <3>8 DEF CreditInv
        <2> QED
            BY <2>4, <2>5
    <1> QED
        BY <1>1, <1>2, KindsApart

LEMMA CreditInvStep ==
    ASSUME RampInv, RampInv', TypeInv, CreditInv, [RampNext]_vars
    PROVE  CreditInv'
    <1>1. ASSUME NEW w \in Creator,
                 \/ \E table \in {"BUY", "SELL"} : Create(w, table)
                 \/ FindWallet(w) \/ Insert(w)
          PROVE  CreditInv'
        BY <1>1, CreatorCredits
    <1>2. ASSUME NEW w \in Handler,
                 \/ \E e \in Event : HandleWebhook(w, e)
                 \/ \E id \in Present, status \in PutStatus, o \in PutId :
                       PutOffRampStatus(w, id, status, o)
                 \/ FindById(w) \/ FindNewestPending(w) \/ SelectForSave(w) \/ Update(w)
                 \/ FindAgain(w) \/ UpdateOffRampStatus(w)
          PROVE  CreditInv'
        BY <1>2, HandleWebhookCredits, PutCredits, FindCredits, SelectCredits, UpdateCredits, FindAgainCredits
    <1>3. ASSUME NEW w \in Call, CallReturns(w) \/ LedgerProceeds(w) \/ QueryFails(w)
          PROVE  CreditInv'
        BY <1>3, CallReturnsCredits, LedgerProceedsCredits, QueryFailsCredits
    <1>4. CASE Surroundings /\ UNCHANGED rampVars
        <2>1. UNCHANGED <<at, adding, record, job, delivered, acked, credits, claimed>>
            BY <1>4 DEF Surroundings, Remove, ChainMoves, Expire, rampVars, call
        <2> QED
            BY <2>1, OutsideCredits
    <1>5. CASE UNCHANGED vars
        <2>1. UNCHANGED <<at, adding, record, job, delivered, acked, credits, claimed>>
            BY <1>5 DEF vars, rampVars, ledgerVars, call
        <2> QED
            BY <2>1, OutsideCredits
    <1> QED
        BY <1>1, <1>2, <1>3, <1>4, <1>5, CrashCredits DEF RampNext

-----------------------------------------------------------------------------
(* The theorems. *)

LEMMA RampInvariant == RampSpec => [](RampInv /\ TypeInv)
<1>1. RampInit => RampInv /\ TypeInv
  BY RampInvInit, TypeInvInit DEF RampInit
<1>2. RampInv /\ TypeInv /\ [RampNext]_vars => RampInv' /\ TypeInv'
  BY RampInvStep, RampStepIsLedgerStep, TypeInvStep
<1> QED
  BY <1>1, <1>2, PTL DEF RampSpec

\* The tables and the requests keep their types; in particular no request answers or
\* starts another one while a credit it asked for is under way.
THEOREM RampTypeCorrect == RampSpec => []RampTypeOK
<1>1. RampInv => RampTypeOK
  <2> SUFFICES ASSUME RampInv PROVE RampTypeOK
    OBVIOUS
  <2>1. record \in Seq(Row) /\ Len(record) <= Records
    BY BusyFinite, RecordAssumption DEF RampInv
  <2>2. \A w \in Call : job[w] \in JobType /\ JobOK(w)
    BY DEF RampInv
  <2>3. credits \in [Order -> Nat] /\ claimed \in [Order -> SUBSET Present]
    BY DEF RampInv
  <2>4. /\ \A e \in Event : delivered[e] \in 0 .. MaxDeliveries[e]
        /\ acked \subseteq {e \in Event : delivered[e] > 0}
    BY OrderAssumption DEF RampInv
  <2> QED
    BY <2>1, <2>2, <2>3, <2>4 DEF RampTypeOK, JobType, JobLabel, JobOK
<1> QED
  BY <1>1, RampInvariant, PTL

\* Ramp orders use the ledger through its own calls only: RampOrders implements
\* WalletLedger, and what is proved of the ledger holds under webhooks.
THEOREM RampImplementsLedger == RampSpec => LedgerSpec
<1>1. RampInit => LedgerInit
  BY DEF RampInit
<1>2. RampInv /\ [RampNext]_vars => [LedgerNext]_ledgerVars
  BY RampStepIsLedgerStep
<1> QED
  BY <1>1, <1>2, RampInvariant, PTL DEF RampSpec, LedgerSpec

\* Redelivered webhooks and overlapping credits of any number of orders leave the
\* balance at most one credit away from a balance the chain has held.
THEOREM OrdersDoNotCompound == RampSpec => []CreditsDoNotCompound
  BY RampImplementsLedger, OneCreditAtMost, PTL

LEMMA CreditInvariant == RampSpec => [](RampInv /\ CreditInv)
    <1>1. RampInit => CreditInv
        BY CreditAtStart
    <1>2. RampInv /\ RampInv' /\ TypeInv /\ CreditInv /\ [RampNext]_vars => CreditInv'
        BY CreditInvStep
    <1> QED
        BY <1>1, <1>2, RampInvariant, PTL DEF RampSpec

\* A completed buy order that was answered 200 has been credited, unless it shares a
\* record with another order.
THEOREM CompletedOrdersAreCredited == RampSpec => []AcknowledgedMeansCredited
    <1>1. CreditInv => AcknowledgedMeansCredited
        BY DEF CreditInv
    <1> QED
        BY <1>1, CreditInvariant, PTL

\* Through failing queries, crashes and deliveries that overlap, an order that shares no
\* record is credited at most once per delivery of its completion, and a sale never.
THEOREM NoCreditFromNowhere == RampSpec => []CreditsNeedDeliveries
    <1>1. RampInv /\ CreditInv => CreditsNeedDeliveries
        <2> SUFFICES ASSUME RampInv, CreditInv, NEW o \in Order, Alone(o)
                     PROVE  credits[o] <= IF Side[o] = "BUY" /\ Completed(o) \in Event
                                          THEN delivered[Completed(o)] ELSE 0
            BY DEF CreditsNeedDeliveries
        <2>1. Cardinality(Owed(o)) \in Nat
            BY FS_CardinalityType DEF CreditInv, DeliveriesCover
        <2>2. credits[o] \in Nat /\ (Completed(o) \in Event => delivered[Completed(o)] \in Nat)
            BY DEF RampInv
        <2> QED
            BY <2>1, <2>2 DEF CreditInv, DeliveriesCover
    <1> QED
        BY <1>1, CreditInvariant, PTL
=============================================================================
