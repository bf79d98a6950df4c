----------------------- MODULE TransactionServiceProofs -----------------------
(***************************************************************************)
(* Safety of TransactionService for every set of requests, every order,    *)
(* any number of retries, any pool size and any number of crashes.         *)
(*                                                                         *)
(* IInv says what is true at each await of a request, of the chain, of the *)
(* draft and of the connection.  That a balance lost only what recorded    *)
(* transfers took (NoPhantomDebit) rests besides on what a request has     *)
(* read and not yet written back: DebitInv explains those values by        *)
(* recorded transfers too, and what a request has written by these and by  *)
(* its own, which becomes recorded in the step that shows the values.      *)
(* That lock waits end (LockWaitsEnd) rests on when locks are held.        *)
(***************************************************************************)
EXTENDS TransactionService, FiniteSetTheorems, TLAPS

-----------------------------------------------------------------------------
(* The inductive invariant, one part per idea. *)

NotStarted == {"new", "insert"} \cup Before
Recorded   == {"readFrom", "saveFrom", "readTo", "saveTo", "commit"}

\* What was sent passed validation, and a balance is saved in a row that was found.
Validated(r) ==
    /\ pc[r] \in Before \cup InTransaction => Order[r].amount > 0
    /\ \A n \in Attempt : sub[r][n] # "none" => Order[r].amount > 0
    /\ pc[r] = "saveFrom" => Order[r].from \in BalanceRow
    /\ pc[r] = "saveTo" => Order[r].to \in BalanceRow

\* Where the retry loop stands and what it has given to the chain: nothing
\* beyond the current attempt, and only lost answers before it.
Looping(r) ==
    /\ \A n \in Attempt : n > attempt[r] => sub[r][n] = "none"
    /\ \A n \in Attempt : n < attempt[r] /\ sub[r][n] # "none" => n \in lost[r]
    /\ pc[r] \in NotStarted \cup {"send"} => sub[r][attempt[r]] = "none"
    /\ pc[r] \in NotStarted => attempt[r] = 1
    /\ pc[r] \in NotStarted \cup {"send", "sent"} => sig[r] = 0
    /\ pc[r] = "sent" => sub[r][attempt[r]] # "none"
    /\ pc[r] \in {"record"} \cup Recorded =>
          sig[r] = attempt[r] /\ sub[r][attempt[r]] # "none"

\* What the open database transaction would commit, and what is committed.
Recording(r) ==
    /\ pc[r] \in Recorded => draft[r] = [status |-> "confirmed", hash |-> sig[r]]
    /\ pc[r] \in {"new", "insert", "failed"} \cup Before => draft[r] = NoRow
    /\ r \in ackLost => pc[r] = "failed"
    /\ pc[r] = "confirmed" => row[r] # NoRow
    /\ row[r] # NoRow =>
          /\ row[r].status # "pending"
          /\ row[r].hash = sig[r] /\ sig[r] \in Attempt
          /\ sub[r][sig[r]] # "none"
          /\ pc[r] = "confirmed" \/ r \in ackLost

Pooled(r) ==
    /\ r \in conn => pc[r] \in {"begin", "failed"} \cup InTransaction
    /\ pc[r] \in {"begin"} \cup InTransaction => r \in conn
    /\ r \in conn /\ pc[r] = "failed" => attempt[r] = 1 /\ sig[r] = 0

IInv ==
    /\ TypeOK
    /\ Cardinality(conn) <= PoolSize
    /\ \A r \in Request : Validated(r) /\ Looping(r) /\ Recording(r) /\ Pooled(r)
-----------------------------------------------------------------------------
(* Facts about the operators. *)

\* A transfer of a positive number of tokens has a positive number of units.
LEMMA UnitsPositive ==
    ASSUME NEW r \in Request, Order[r].amount > 0
    PROVE  SmallestUnits(r) \in Nat /\ SmallestUnits(r) > 0
<1>1. Order[r].amount \in Int
  BY OrderAssumption
<1>2. Scale \in Nat /\ Scale > 0
  BY NumberAssumption
<1>3. ASSUME NEW a \in Int, NEW b \in Int, a > 0, b > 0
      PROVE  a * b \in Int /\ a * b > 0
  BY <1>3
<1>4. Order[r].amount * Scale \in Int /\ Order[r].amount * Scale > 0
  BY <1>1, <1>2, <1>3
<1> QED
  BY <1>4 DEF SmallestUnits

\* Debits and credited balances are numbers.
LEMMA BalanceTypes ==
    ASSUME NEW r \in Request
    PROVE  /\ Debit(r) \in Int
           /\ \A b \in Int : Appended(b, r) \in Int
<1>1. Order[r].amount \in Int /\ Scale \in Int /\ Ulps \in Int
  BY OrderAssumption, NumberAssumption
<1>2. SmallestUnits(r) \in Int
  BY <1>1 DEF SmallestUnits
<1>3. Debit(r) \in Int
  BY <1>1, <1>2 DEF Debit
<1>4. ASSUME NEW b \in Int PROVE Appended(b, r) \in Int
  BY <1>4 DEF Appended
<1> QED
  BY <1>3, <1>4

\* A transaction sees a number in every balance row.
LEMMA SeenType ==
    ASSUME TypeOK, NEW r \in Request
    PROVE  Seen(r) \in [BalanceRow -> Int]
BY DEF Seen, TypeOK

\* Saving a number in a balance row leaves the uncommitted writes well typed.
LEMMA WrittenType ==
    ASSUME TypeOK, NEW r \in Request, NEW u \in BalanceRow, NEW v \in Int
    PROVE  /\ DOMAIN Written(r, u, v) \subseteq BalanceRow
           /\ Written(r, u, v) \in [DOMAIN Written(r, u, v) -> Int]
BY DEF Written, TypeOK

\* Only a request that waits for a row lock is aborted by the deadlock detector.
LEMMA AbortedWhileSaving ==
    ASSUME NEW r \in Request, AbortDeadlock(r)
    PROVE  pc[r] \in {"saveFrom", "saveTo"}
BY DEF AbortDeadlock, Deadlocked, WaitsFor

\* The parties of an order that reads or writes a balance row.
LEMMA PartiesTyped ==
    ASSUME NEW r \in Request
    PROVE  /\ Order[r].from \in User
           /\ BalanceRow \subseteq User
BY OrderAssumption, WalletAssumption


-----------------------------------------------------------------------------
(* Every step preserves the types. *)

LEMMA TypeStep ==
    ASSUME IInv, [Next]_vars
    PROVE  TypeOK'
<1> USE DEF TypeOK, Goto, chain, loop, store, Before, InTransaction, Answered, Attempt
<1>1. TypeOK /\ \A r \in Request : Validated(r)
  BY DEF IInv
<1>2. MaxRetries \in Nat /\ MaxRetries > 0
  BY NumberAssumption
<1>3. CASE UNCHANGED vars
  BY <1>1, <1>3 DEF vars
<1>4. ASSUME NEW r \in Request, Receive(r) PROVE TypeOK'
  BY <1>1, <1>2, <1>4 DEF Receive
<1>5. ASSUME NEW r \in Request, CheckBalance(r) PROVE TypeOK'
  BY <1>1, <1>2, <1>5 DEF CheckBalance
<1>6. ASSUME NEW r \in Request, Connect(r) PROVE TypeOK'
  BY <1>1, <1>2, <1>6 DEF Connect
<1>7. ASSUME NEW r \in Request, PoolTimeout(r) PROVE TypeOK'
  BY <1>1, <1>2, <1>7 DEF PoolTimeout
<1>8. ASSUME NEW r \in Request, StartTransaction(r) PROVE TypeOK'
  BY <1>1, <1>2, <1>8 DEF StartTransaction
<1>9. ASSUME NEW r \in Request, EarlyError(r) PROVE TypeOK'
  BY <1>1, <1>2, <1>9 DEF EarlyError
<1>10. ASSUME NEW r \in Request, CreateTransactionRecord(r) PROVE TypeOK'
  BY <1>1, <1>2, <1>10 DEF CreateTransactionRecord, Row, NoRow
<1>11. ASSUME NEW r \in Request, AttemptFails(r) PROVE TypeOK'
  BY <1>1, <1>2, <1>11 DEF AttemptFails, NextAttempt
<1>12. ASSUME NEW r \in Request, Broadcast(r) PROVE TypeOK'
  BY <1>1, <1>2, <1>12 DEF Broadcast
<1>13. ASSUME NEW r \in Request, SignatureReturned(r) PROVE TypeOK'
  BY <1>1, <1>2, <1>13 DEF SignatureReturned
<1>14. ASSUME NEW r \in Request, AnswerLost(r) PROVE TypeOK'
  BY <1>1, <1>2, <1>14 DEF AnswerLost, NextAttempt
<1>15. ASSUME NEW r \in Request, UpdateTransactionWithBlockchainResult(r) PROVE TypeOK'
  BY <1>1, <1>2, <1>15 DEF UpdateTransactionWithBlockchainResult, Row
<1>16. ASSUME NEW r \in Request, RejectedByDatabase(r) PROVE TypeOK'
  BY <1>1, <1>2, <1>16 DEF RejectedByDatabase
<1>17. ASSUME NEW r \in Request, StatementFails(r) PROVE TypeOK'
  BY <1>1, <1>2, <1>17 DEF StatementFails
<1>18. ASSUME NEW r \in Request, AbortDeadlock(r) PROVE TypeOK'
  BY <1>1, <1>2, <1>18 DEF AbortDeadlock
<1>19. ASSUME NEW r \in Request, Rollback(r) PROVE TypeOK'
  BY <1>1, <1>2, <1>19, PartiesTyped DEF Rollback, Release, NoWrite
<1>20. ASSUME NEW r \in Request, Commit(r) PROVE TypeOK'
  BY <1>1, <1>2, <1>20, SeenType, PartiesTyped DEF Commit, Apply, Release, NoWrite
<1>21. ASSUME NEW r \in Request, CommitAckLost(r) PROVE TypeOK'
  BY <1>1, <1>2, <1>21, SeenType, PartiesTyped DEF CommitAckLost, Apply, Release,
     NoWrite
<1>22. ASSUME NEW r \in Request, ReadFromBalance(r) PROVE TypeOK'
  <2>1. Seen(r) \in [BalanceRow -> Int]
    BY <1>1, SeenType
  <2>2. \A u \in BalanceRow : Seen(r)[u] \in Int
    BY <2>1
  <2>3. read' \in [Request -> Int]
    BY <1>1, <1>22, <2>2 DEF ReadFromBalance
  <2> QED
    BY <1>1, <1>22, <2>3 DEF ReadFromBalance
<1>23. ASSUME NEW r \in Request, ReadToBalance(r) PROVE TypeOK'
  <2>1. Seen(r) \in [BalanceRow -> Int]
    BY <1>1, SeenType
  <2>2. \A u \in BalanceRow : Seen(r)[u] \in Int
    BY <2>1
  <2>3. read' \in [Request -> Int]
    BY <1>1, <1>23, <2>2 DEF ReadToBalance
  <2> QED
    BY <1>1, <1>23, <2>3 DEF ReadToBalance
<1>24. ASSUME NEW r \in Request, SaveFromBalance(r) PROVE TypeOK'
  <2>1. Order[r].from \in BalanceRow /\ read[r] - Debit(r) \in Int
    BY <1>1, <1>24, BalanceTypes DEF SaveFromBalance, Validated
  <2> DEFINE W == Written(r, Order[r].from, read[r] - Debit(r))
  <2>2. DOMAIN W \subseteq BalanceRow /\ W \in [DOMAIN W -> Int]
    BY <1>1, <2>1, WrittenType
  <2>3. write' = [write EXCEPT ![r] = W]
    BY <1>24 DEF SaveFromBalance
  <2> HIDE DEF W
  <2>4. /\ DOMAIN write' = Request
        /\ \A x \in Request : /\ DOMAIN write'[x] \subseteq BalanceRow
                              /\ write'[x] \in [DOMAIN write'[x] -> Int]
    BY <1>1, <2>2, <2>3
  <2> QED
    BY <1>1, <1>24, <2>4 DEF SaveFromBalance
<1>25. ASSUME NEW r \in Request, SaveToBalance(r) PROVE TypeOK'
  <2>1. Order[r].to \in BalanceRow /\ Appended(read[r], r) \in Int
    BY <1>1, <1>25, BalanceTypes DEF SaveToBalance, Validated
  <2> DEFINE W == Written(r, Order[r].to, Appended(read[r], r))
  <2>2. DOMAIN W \subseteq BalanceRow /\ W \in [DOMAIN W -> Int]
    BY <1>1, <2>1, WrittenType
  <2>3. write' = [write EXCEPT ![r] = W]
    BY <1>25 DEF SaveToBalance
  <2> HIDE DEF W
  <2>4. /\ DOMAIN write' = Request
        /\ \A x \in Request : /\ DOMAIN write'[x] \subseteq BalanceRow
                              /\ write'[x] \in [DOMAIN write'[x] -> Int]
    BY <1>1, <2>2, <2>3
  <2> QED
    BY <1>1, <1>25, <2>4 DEF SaveToBalance
<1>26. ASSUME NEW r \in Request, NEW status \in {"failed", "completed"},
              UpdateTransactionStatus(r, status)
       PROVE  TypeOK'
  BY <1>1, <1>26 DEF UpdateTransactionStatus, Row, NoRow, DbStatusEnum
<1>27. CASE Crash
  BY <1>1, <1>27, NumberAssumption DEF Crash, NoWrite
<1>28. ASSUME NEW r \in Request, NEW n \in Attempt, Land(r, n) PROVE TypeOK'
  <2>1. SmallestUnits(r) \in Nat
    BY <1>1, <1>28, UnitsPositive DEF Land, Validated
  <2>2. held' \in [User -> Nat]
    BY <1>1, <1>28, <2>1, PartiesTyped DEF Land
  <2> QED
    BY <1>1, <1>28, <2>2 DEF Land
<1>29. ASSUME NEW r \in Request, NEW n \in Attempt, Drop(r, n) PROVE TypeOK'
  BY <1>1, <1>29 DEF Drop
<1> QED
  BY <1>3, <1>4, <1>5, <1>6, <1>7, <1>8, <1>9, <1>10, <1>11, <1>12, <1>13, <1>14,
     <1>15, <1>16, <1>17, <1>18, <1>19, <1>20, <1>21, <1>22, <1>23, <1>24, <1>25,
     <1>26, <1>27, <1>28, <1>29 DEF Next, Progress, Failure

-----------------------------------------------------------------------------
(* Every step preserves the other parts, for every request. *)

\* Only validated orders go on, and only found rows are saved.
LEMMA ValidatedStep ==
    ASSUME IInv, [Next]_vars, NEW x \in Request
    PROVE  Validated(x)'
<1> USE DEF TypeOK, Goto, chain, loop, store, Before, InTransaction, Answered, Attempt, Validated
<1>1. TypeOK /\ Validated(x)
  BY DEF IInv
<1>2. CASE UNCHANGED vars
  BY <1>1, <1>2 DEF vars
<1>3. ASSUME NEW r \in Request, Receive(r) PROVE Validated(x)'
  BY <1>1, <1>3, OrderAssumption DEF Receive, ValidateTransaction
<1>4. ASSUME NEW r \in Request, CheckBalance(r) PROVE Validated(x)'
  BY <1>1, <1>4 DEF CheckBalance
<1>5. ASSUME NEW r \in Request, Connect(r) PROVE Validated(x)'
  BY <1>1, <1>5 DEF Connect
<1>6. ASSUME NEW r \in Request, PoolTimeout(r) PROVE Validated(x)'
  BY <1>1, <1>6 DEF PoolTimeout
<1>7. ASSUME NEW r \in Request, StartTransaction(r) PROVE Validated(x)'
  BY <1>1, <1>7 DEF StartTransaction
<1>8. ASSUME NEW r \in Request, EarlyError(r) PROVE Validated(x)'
  BY <1>1, <1>8 DEF EarlyError
<1>9. ASSUME NEW r \in Request, CreateTransactionRecord(r) PROVE Validated(x)'
  BY <1>1, <1>9 DEF CreateTransactionRecord
<1>10. ASSUME NEW r \in Request, AttemptFails(r) PROVE Validated(x)'
  BY <1>1, <1>10 DEF AttemptFails, NextAttempt
<1>11. ASSUME NEW r \in Request, Broadcast(r) PROVE Validated(x)'
  BY <1>1, <1>11 DEF Broadcast
<1>12. ASSUME NEW r \in Request, SignatureReturned(r) PROVE Validated(x)'
  BY <1>1, <1>12 DEF SignatureReturned
<1>13. ASSUME NEW r \in Request, AnswerLost(r) PROVE Validated(x)'
  BY <1>1, <1>13 DEF AnswerLost, NextAttempt
<1>14. ASSUME NEW r \in Request, UpdateTransactionWithBlockchainResult(r) PROVE Validated(x)'
  BY <1>1, <1>14 DEF UpdateTransactionWithBlockchainResult
<1>15. ASSUME NEW r \in Request, ReadFromBalance(r) PROVE Validated(x)'
  BY <1>1, <1>15 DEF ReadFromBalance
<1>16. ASSUME NEW r \in Request, SaveFromBalance(r) PROVE Validated(x)'
  BY <1>1, <1>16 DEF SaveFromBalance
<1>17. ASSUME NEW r \in Request, ReadToBalance(r) PROVE Validated(x)'
  BY <1>1, <1>17 DEF ReadToBalance
<1>18. ASSUME NEW r \in Request, SaveToBalance(r) PROVE Validated(x)'
  BY <1>1, <1>18 DEF SaveToBalance
<1>19. ASSUME NEW r \in Request, RejectedByDatabase(r) PROVE Validated(x)'
  BY <1>1, <1>19 DEF RejectedByDatabase
<1>20. ASSUME NEW r \in Request, StatementFails(r) PROVE Validated(x)'
  BY <1>1, <1>20 DEF StatementFails
<1>21. ASSUME NEW r \in Request, AbortDeadlock(r) PROVE Validated(x)'
  BY <1>1, <1>21, AbortedWhileSaving DEF AbortDeadlock
<1>22. ASSUME NEW r \in Request, Commit(r) PROVE Validated(x)'
  BY <1>1, <1>22 DEF Commit, Apply, Release
<1>23. ASSUME NEW r \in Request, CommitAckLost(r) PROVE Validated(x)'
  BY <1>1, <1>23 DEF CommitAckLost, Apply, Release
<1>24. ASSUME NEW r \in Request, Rollback(r) PROVE Validated(x)'
  BY <1>1, <1>24 DEF Rollback, Release
<1>25. ASSUME NEW r \in Request, NEW status \in {"failed", "completed"},
              UpdateTransactionStatus(r, status)
       PROVE  Validated(x)'
  BY <1>1, <1>25 DEF UpdateTransactionStatus
<1>26. CASE Crash
  BY <1>1, <1>26 DEF Crash
<1>27. ASSUME NEW r \in Request, NEW n \in Attempt, Land(r, n) PROVE Validated(x)'
  BY <1>1, <1>27 DEF Land
<1>28. ASSUME NEW r \in Request, NEW n \in Attempt, Drop(r, n) PROVE Validated(x)'
  BY <1>1, <1>28 DEF Drop
<1> QED
  BY <1>2, <1>3, <1>4, <1>5, <1>6, <1>7, <1>8, <1>9, <1>10, <1>11, <1>12, <1>13,
     <1>14, <1>15, <1>16, <1>17, <1>18, <1>19, <1>20, <1>21, <1>22, <1>23, <1>24,
     <1>25, <1>26, <1>27, <1>28 DEF Next, Progress, Failure

\* The retry loop.
LEMMA LoopingStep ==
    ASSUME IInv, [Next]_vars, NEW x \in Request
    PROVE  Looping(x)'
<1> USE DEF TypeOK, Goto, chain, loop, store, Before, InTransaction, Answered, Attempt, Looping, NotStarted, Recorded
<1>1. TypeOK /\ Looping(x)
  BY DEF IInv
<1>2. CASE UNCHANGED vars
  BY <1>1, <1>2 DEF vars
<1>3. ASSUME NEW r \in Request, Receive(r) PROVE Looping(x)'
  BY <1>1, <1>3 DEF Receive
<1>4. ASSUME NEW r \in Request, CheckBalance(r) PROVE Looping(x)'
  BY <1>1, <1>4 DEF CheckBalance
<1>5. ASSUME NEW r \in Request, Connect(r) PROVE Looping(x)'
  BY <1>1, <1>5 DEF Connect
<1>6. ASSUME NEW r \in Request, PoolTimeout(r) PROVE Looping(x)'
  BY <1>1, <1>6 DEF PoolTimeout
<1>7. ASSUME NEW r \in Request, StartTransaction(r) PROVE Looping(x)'
  BY <1>1, <1>7 DEF StartTransaction
<1>8. ASSUME NEW r \in Request, EarlyError(r) PROVE Looping(x)'
  BY <1>1, <1>8 DEF EarlyError
<1>9. ASSUME NEW r \in Request, CreateTransactionRecord(r) PROVE Looping(x)'
  BY <1>1, <1>9 DEF CreateTransactionRecord
<1>10. ASSUME NEW r \in Request, AttemptFails(r) PROVE Looping(x)'
  <2>1. CASE x # r
    BY <1>1, <1>10, <2>1 DEF AttemptFails, NextAttempt
  <2>2. CASE x = r
    <3>1. sub' = sub /\ lost' = lost /\ sig' = sig /\ sub[x][attempt[x]] = "none"
      BY <1>1, <1>10, <2>2 DEF AttemptFails
    <3>2. \/ pc'[x] = "send" /\ attempt'[x] = attempt[x] + 1
          \/ pc'[x] = "rollback" /\ attempt'[x] = attempt[x]
      BY <1>1, <1>10, <2>2 DEF AttemptFails, NextAttempt
    <3>3. attempt'[x] \in Attempt
      BY <1>10, TypeStep DEF IInv
    <3> QED
      BY <1>1, <1>10, <2>2, <3>1, <3>2, <3>3 DEF AttemptFails
  <2> QED
    BY <2>1, <2>2
<1>11. ASSUME NEW r \in Request, Broadcast(r) PROVE Looping(x)'
  <2>1. /\ attempt[x] \in Attempt /\ attempt' = attempt /\ lost' = lost /\ sig' = sig
        /\ pc[r] = "send"
    BY <1>1, <1>11 DEF Broadcast
  <2>2. CASE x # r
    <3>1. sub'[x] = sub[x] /\ pc'[x] = pc[x]
      BY <1>1, <1>11, <2>2 DEF Broadcast
    <3> QED
      BY <1>1, <2>1, <3>1
  <2>3. CASE x = r
    <3>1. /\ sub'[x][attempt[x]] = "inflight"
          /\ \A n \in Attempt : n # attempt[x] => sub'[x][n] = sub[x][n]
          /\ pc'[x] = "sent" /\ sig[x] = 0
      BY <1>1, <1>11, <2>1, <2>3 DEF Broadcast
    <3>2. ASSUME NEW n \in Attempt
          PROVE  /\ n > attempt[x] => sub'[x][n] = "none"
                 /\ n < attempt[x] /\ sub'[x][n] # "none" => n \in lost[x]
      <4>1. attempt[x] \in Int /\ n \in Int
        BY <2>1, NumberAssumption
      <4>2. (n > attempt[x] \/ n < attempt[x]) => n # attempt[x]
        BY <4>1
      <4>3. n # attempt[x] => sub'[x][n] = sub[x][n]
        BY <3>1
      <4>4. n > attempt[x] => sub[x][n] = "none"
        BY <1>1
      <4>5. n < attempt[x] /\ sub[x][n] # "none" => n \in lost[x]
        BY <1>1
      <4> QED
        BY <4>2, <4>3, <4>4, <4>5
    <3> QED
      BY <2>1, <3>1, <3>2
  <2> QED
    BY <2>2, <2>3
<1>12. ASSUME NEW r \in Request, SignatureReturned(r) PROVE Looping(x)'
  BY <1>1, <1>12 DEF SignatureReturned
<1>13. ASSUME NEW r \in Request, AnswerLost(r) PROVE Looping(x)'
  <2>1. CASE x # r
    BY <1>1, <1>13, <2>1 DEF AnswerLost, NextAttempt
  <2>2. CASE x = r
    <3>1. /\ sub' = sub /\ sig' = sig /\ sig[x] = 0
          /\ lost'[x] = lost[x] \cup {attempt[x]}
      BY <1>1, <1>13, <2>2 DEF AnswerLost
    <3>2. \/ pc'[x] = "send" /\ attempt'[x] = attempt[x] + 1
          \/ pc'[x] = "rollback" /\ attempt'[x] = attempt[x]
      BY <1>1, <1>13, <2>2 DEF AnswerLost, NextAttempt
    <3>3. attempt'[x] \in Attempt
      BY <1>13, TypeStep DEF IInv
    <3> QED
      BY <1>1, <1>13, <2>2, <3>1, <3>2, <3>3 DEF AnswerLost
  <2> QED
    BY <2>1, <2>2
<1>14. ASSUME NEW r \in Request, UpdateTransactionWithBlockchainResult(r) PROVE Looping(x)'
  BY <1>1, <1>14 DEF UpdateTransactionWithBlockchainResult
<1>15. ASSUME NEW r \in Request, ReadFromBalance(r) PROVE Looping(x)'
  BY <1>1, <1>15 DEF ReadFromBalance
<1>16. ASSUME NEW r \in Request, SaveFromBalance(r) PROVE Looping(x)'
  BY <1>1, <1>16 DEF SaveFromBalance
<1>17. ASSUME NEW r \in Request, ReadToBalance(r) PROVE Looping(x)'
  BY <1>1, <1>17 DEF ReadToBalance
<1>18. ASSUME NEW r \in Request, SaveToBalance(r) PROVE Looping(x)'
  BY <1>1, <1>18 DEF SaveToBalance
<1>19. ASSUME NEW r \in Request, RejectedByDatabase(r) PROVE Looping(x)'
  BY <1>1, <1>19 DEF RejectedByDatabase
<1>20. ASSUME NEW r \in Request, StatementFails(r) PROVE Looping(x)'
  BY <1>1, <1>20 DEF StatementFails
<1>21. ASSUME NEW r \in Request, AbortDeadlock(r) PROVE Looping(x)'
  BY <1>1, <1>21, AbortedWhileSaving DEF AbortDeadlock
<1>22. ASSUME NEW r \in Request, Commit(r) PROVE Looping(x)'
  BY <1>1, <1>22 DEF Commit, Apply, Release
<1>23. ASSUME NEW r \in Request, CommitAckLost(r) PROVE Looping(x)'
  BY <1>1, <1>23 DEF CommitAckLost, Apply, Release
<1>24. ASSUME NEW r \in Request, Rollback(r) PROVE Looping(x)'
  BY <1>1, <1>24 DEF Rollback, Release
<1>25. ASSUME NEW r \in Request, NEW status \in {"failed", "completed"},
              UpdateTransactionStatus(r, status)
       PROVE  Looping(x)'
  BY <1>1, <1>25 DEF UpdateTransactionStatus
<1>26. CASE Crash
  BY <1>1, <1>26 DEF Crash
<1>27. ASSUME NEW r \in Request, NEW n \in Attempt, Land(r, n) PROVE Looping(x)'
  BY <1>1, <1>27 DEF Land
<1>28. ASSUME NEW r \in Request, NEW n \in Attempt, Drop(r, n) PROVE Looping(x)'
  BY <1>1, <1>28 DEF Drop
<1> QED
  BY <1>2, <1>3, <1>4, <1>5, <1>6, <1>7, <1>8, <1>9, <1>10, <1>11, <1>12, <1>13,
     <1>14, <1>15, <1>16, <1>17, <1>18, <1>19, <1>20, <1>21, <1>22, <1>23, <1>24,
     <1>25, <1>26, <1>27, <1>28 DEF Next, Progress, Failure

\* The record.
LEMMA RecordingStep ==
    ASSUME IInv, [Next]_vars, NEW x \in Request
    PROVE  Recording(x)'
<1> USE DEF TypeOK, Goto, chain, loop, store, Before, InTransaction, Answered, Attempt, Recording, Recorded, NotStarted
<1>1. TypeOK /\ Recording(x) /\ Looping(x)
  BY DEF IInv
<1>2. CASE UNCHANGED vars
  BY <1>1, <1>2 DEF vars
<1>3. ASSUME NEW r \in Request, Receive(r) PROVE Recording(x)'
  BY <1>1, <1>3 DEF Receive
<1>4. ASSUME NEW r \in Request, CheckBalance(r) PROVE Recording(x)'
  BY <1>1, <1>4 DEF CheckBalance
<1>5. ASSUME NEW r \in Request, Connect(r) PROVE Recording(x)'
  BY <1>1, <1>5 DEF Connect
<1>6. ASSUME NEW r \in Request, PoolTimeout(r) PROVE Recording(x)'
  BY <1>1, <1>6 DEF PoolTimeout
<1>7. ASSUME NEW r \in Request, StartTransaction(r) PROVE Recording(x)'
  BY <1>1, <1>7 DEF StartTransaction
<1>8. ASSUME NEW r \in Request, EarlyError(r) PROVE Recording(x)'
  BY <1>1, <1>8 DEF EarlyError
<1>9. ASSUME NEW r \in Request, CreateTransactionRecord(r) PROVE Recording(x)'
  BY <1>1, <1>9 DEF CreateTransactionRecord, NoRow
<1>10. ASSUME NEW r \in Request, AttemptFails(r) PROVE Recording(x)'
  BY <1>1, <1>10 DEF AttemptFails, NextAttempt
<1>11. ASSUME NEW r \in Request, Broadcast(r) PROVE Recording(x)'
  BY <1>1, <1>11 DEF Broadcast
<1>12. ASSUME NEW r \in Request, SignatureReturned(r) PROVE Recording(x)'
  BY <1>1, <1>12 DEF SignatureReturned
<1>13. ASSUME NEW r \in Request, AnswerLost(r) PROVE Recording(x)'
  BY <1>1, <1>13 DEF AnswerLost, NextAttempt
<1>14. ASSUME NEW r \in Request, UpdateTransactionWithBlockchainResult(r) PROVE Recording(x)'
  BY <1>1, <1>14 DEF UpdateTransactionWithBlockchainResult
<1>15. ASSUME NEW r \in Request, ReadFromBalance(r) PROVE Recording(x)'
  BY <1>1, <1>15 DEF ReadFromBalance
<1>16. ASSUME NEW r \in Request, SaveFromBalance(r) PROVE Recording(x)'
  BY <1>1, <1>16 DEF SaveFromBalance
<1>17. ASSUME NEW r \in Request, ReadToBalance(r) PROVE Recording(x)'
  BY <1>1, <1>17 DEF ReadToBalance
<1>18. ASSUME NEW r \in Request, SaveToBalance(r) PROVE Recording(x)'
  BY <1>1, <1>18 DEF SaveToBalance
<1>19. ASSUME NEW r \in Request, RejectedByDatabase(r) PROVE Recording(x)'
  BY <1>1, <1>19 DEF RejectedByDatabase
<1>20. ASSUME NEW r \in Request, StatementFails(r) PROVE Recording(x)'
  BY <1>1, <1>20 DEF StatementFails
<1>21. ASSUME NEW r \in Request, AbortDeadlock(r) PROVE Recording(x)'
  BY <1>1, <1>21, AbortedWhileSaving DEF AbortDeadlock
<1>22. ASSUME NEW r \in Request, Commit(r) PROVE Recording(x)'
  BY <1>1, <1>22 DEF Commit, Apply, Release, Looping, NoRow, Row
<1>23. ASSUME NEW r \in Request, CommitAckLost(r) PROVE Recording(x)'
  BY <1>1, <1>23 DEF CommitAckLost, Apply, Release, Looping, NoRow, Row
<1>24. ASSUME NEW r \in Request, Rollback(r) PROVE Recording(x)'
  BY <1>1, <1>24 DEF Rollback, Release
<1>25. ASSUME NEW r \in Request, NEW status \in {"failed", "completed"},
              UpdateTransactionStatus(r, status)
       PROVE  Recording(x)'
  BY <1>1, <1>25 DEF UpdateTransactionStatus, Row, NoRow
<1>26. CASE Crash
  BY <1>1, <1>26 DEF Crash
<1>27. ASSUME NEW r \in Request, NEW n \in Attempt, Land(r, n) PROVE Recording(x)'
  BY <1>1, <1>27 DEF Land
<1>28. ASSUME NEW r \in Request, NEW n \in Attempt, Drop(r, n) PROVE Recording(x)'
  BY <1>1, <1>28 DEF Drop
<1> QED
  BY <1>2, <1>3, <1>4, <1>5, <1>6, <1>7, <1>8, <1>9, <1>10, <1>11, <1>12, <1>13,
     <1>14, <1>15, <1>16, <1>17, <1>18, <1>19, <1>20, <1>21, <1>22, <1>23, <1>24,
     <1>25, <1>26, <1>27, <1>28 DEF Next, Progress, Failure

\* The connection.
LEMMA PooledStep ==
    ASSUME IInv, [Next]_vars, NEW x \in Request
    PROVE  Pooled(x)'
<1> USE DEF TypeOK, Goto, chain, loop, store, Before, InTransaction, Answered, Attempt, Pooled
<1>1. TypeOK /\ Pooled(x) /\ Looping(x)
  BY DEF IInv
<1>2. CASE UNCHANGED vars
  BY <1>1, <1>2 DEF vars
<1>3. ASSUME NEW r \in Request, Receive(r) PROVE Pooled(x)'
  BY <1>1, <1>3 DEF Receive
<1>4. ASSUME NEW r \in Request, CheckBalance(r) PROVE Pooled(x)'
  BY <1>1, <1>4 DEF CheckBalance
<1>5. ASSUME NEW r \in Request, Connect(r) PROVE Pooled(x)'
  BY <1>1, <1>5 DEF Connect
<1>6. ASSUME NEW r \in Request, PoolTimeout(r) PROVE Pooled(x)'
  BY <1>1, <1>6 DEF PoolTimeout
<1>7. ASSUME NEW r \in Request, StartTransaction(r) PROVE Pooled(x)'
  BY <1>1, <1>7 DEF StartTransaction
<1>8. ASSUME NEW r \in Request, EarlyError(r) PROVE Pooled(x)'
  BY <1>1, <1>8 DEF EarlyError, Looping, NotStarted
<1>9. ASSUME NEW r \in Request, CreateTransactionRecord(r) PROVE Pooled(x)'
  BY <1>1, <1>9 DEF CreateTransactionRecord
<1>10. ASSUME NEW r \in Request, AttemptFails(r) PROVE Pooled(x)'
  BY <1>1, <1>10 DEF AttemptFails, NextAttempt
<1>11. ASSUME NEW r \in Request, Broadcast(r) PROVE Pooled(x)'
  BY <1>1, <1>11 DEF Broadcast
<1>12. ASSUME NEW r \in Request, SignatureReturned(r) PROVE Pooled(x)'
  BY <1>1, <1>12 DEF SignatureReturned
<1>13. ASSUME NEW r \in Request, AnswerLost(r) PROVE Pooled(x)'
  BY <1>1, <1>13 DEF AnswerLost, NextAttempt
<1>14. ASSUME NEW r \in Request, UpdateTransactionWithBlockchainResult(r) PROVE Pooled(x)'
  BY <1>1, <1>14 DEF UpdateTransactionWithBlockchainResult
<1>15. ASSUME NEW r \in Request, ReadFromBalance(r) PROVE Pooled(x)'
  BY <1>1, <1>15 DEF ReadFromBalance
<1>16. ASSUME NEW r \in Request, SaveFromBalance(r) PROVE Pooled(x)'
  BY <1>1, <1>16 DEF SaveFromBalance
<1>17. ASSUME NEW r \in Request, ReadToBalance(r) PROVE Pooled(x)'
  BY <1>1, <1>17 DEF ReadToBalance
<1>18. ASSUME NEW r \in Request, SaveToBalance(r) PROVE Pooled(x)'
  BY <1>1, <1>18 DEF SaveToBalance
<1>19. ASSUME NEW r \in Request, RejectedByDatabase(r) PROVE Pooled(x)'
  BY <1>1, <1>19 DEF RejectedByDatabase
<1>20. ASSUME NEW r \in Request, StatementFails(r) PROVE Pooled(x)'
  BY <1>1, <1>20 DEF StatementFails
<1>21. ASSUME NEW r \in Request, AbortDeadlock(r) PROVE Pooled(x)'
  BY <1>1, <1>21, AbortedWhileSaving DEF AbortDeadlock
<1>22. ASSUME NEW r \in Request, Commit(r) PROVE Pooled(x)'
  BY <1>1, <1>22 DEF Commit, Apply, Release
<1>23. ASSUME NEW r \in Request, CommitAckLost(r) PROVE Pooled(x)'
  BY <1>1, <1>23 DEF CommitAckLost, Apply, Release
<1>24. ASSUME NEW r \in Request, Rollback(r) PROVE Pooled(x)'
  BY <1>1, <1>24 DEF Rollback, Release
<1>25. ASSUME NEW r \in Request, NEW status \in {"failed", "completed"},
              UpdateTransactionStatus(r, status)
       PROVE  Pooled(x)'
  BY <1>1, <1>25 DEF UpdateTransactionStatus
<1>26. CASE Crash
  BY <1>1, <1>26 DEF Crash
<1>27. ASSUME NEW r \in Request, NEW n \in Attempt, Land(r, n) PROVE Pooled(x)'
  BY <1>1, <1>27 DEF Land
<1>28. ASSUME NEW r \in Request, NEW n \in Attempt, Drop(r, n) PROVE Pooled(x)'
  BY <1>1, <1>28 DEF Drop
<1> QED
  BY <1>2, <1>3, <1>4, <1>5, <1>6, <1>7, <1>8, <1>9, <1>10, <1>11, <1>12, <1>13,
     <1>14, <1>15, <1>16, <1>17, <1>18, <1>19, <1>20, <1>21, <1>22, <1>23, <1>24,
     <1>25, <1>26, <1>27, <1>28 DEF Next, Progress, Failure

\* The pool never hands out more connections than it has.
LEMMA PoolStep ==
    ASSUME IInv, [Next]_vars
    PROVE  Cardinality(conn') <= PoolSize
<1>1. /\ conn \subseteq Request /\ Cardinality(conn) <= PoolSize
      /\ PoolSize \in Nat /\ IsFiniteSet(conn) /\ Cardinality(conn) \in Nat
  BY RequestAssumption, NumberAssumption, FS_Subset, FS_CardinalityType DEF IInv, TypeOK
<1>2. CASE \E r \in Request : Connect(r)
  <2>1. PICK r \in Request : Connect(r)
    BY <1>2
  <2>2. conn' = conn \cup {r} /\ Cardinality(conn) < PoolSize
    BY <2>1 DEF Connect
  <2> QED
    BY <1>1, <2>2, FS_AddElement
<1>3. CASE conn' \subseteq conn
  BY <1>1, <1>3, FS_Subset, FS_CardinalityType
<1>4. (\E r \in Request : Connect(r)) \/ conn' \subseteq conn
  BY DEF Next, Progress, Failure, vars, store, Receive, CheckBalance, PoolTimeout,
         StartTransaction, EarlyError, CreateTransactionRecord, AttemptFails, Broadcast,
         SignatureReturned, AnswerLost, UpdateTransactionWithBlockchainResult,
         ReadFromBalance, SaveFromBalance, ReadToBalance, SaveToBalance,
         RejectedByDatabase, StatementFails, AbortDeadlock, Commit, CommitAckLost,
         Rollback, Release, UpdateTransactionStatus, Crash, Land, Drop
<1> QED
  BY <1>2, <1>3, <1>4

-----------------------------------------------------------------------------
(* Sums of debits.  MapThenSumSet is a recursive function on subsets; that it  *)
(* exists, and that the order in which it takes the requests does not matter,   *)
(* is shown with smallest counterexamples, which are sets.                      *)

Sum(S) == MapThenSumSet(Debit, S)

\* h is a sum of debits on the subsets of S, in whatever order they are taken.
Additive(h, S) ==
    /\ h \in [SUBSET S -> Int]
    /\ h[{}] = 0
    /\ \A s \in SUBSET S : \A r \in S \ s : h[s \cup {r}] = Debit(r) + h[s]

\* g is a sum of debits in the order of CHOOSE, as MapThenFoldSet takes them.
IsSum(g, S) ==
    g = [s \in SUBSET S |-> IF s = {} THEN 0
                            ELSE Debit(CHOOSE r \in s : TRUE) + g[s \ {CHOOSE r \in s : TRUE}]]

LEMMA SmallestSubset ==
    ASSUME NEW S, IsFiniteSet(S), NEW T, T \subseteq SUBSET S, T # {}
    PROVE  \E s \in T : \A t \in T : ~(t \subseteq s /\ t # s)
<1>1. IsWellFoundedOn(StrictSubsetOrdering(S), SUBSET S)
  BY FS_StrictSubsetOrderingWellFounded, FS_FiniteSubsetsOfFinite
<1>2. \E s \in T : \A t \in T : ~(<<t, s>> \in StrictSubsetOrdering(S))
  BY <1>1, WFMin
<1> QED
  BY <1>2 DEF StrictSubsetOrdering

LEMMA AdditiveExists ==
    ASSUME NEW R \in SUBSET Request
    PROVE  \E h : Additive(h, R)
<1> DEFINE T == {s \in SUBSET R : ~ \E h : Additive(h, s)}
<1>1. IsFiniteSet(R)
  BY RequestAssumption, FS_Subset
<1> SUFFICES ASSUME T # {} PROVE FALSE
  OBVIOUS
<1>2. PICK s \in T : \A t \in T : ~(t \subseteq s /\ t # s)
  <2>1. T \subseteq SUBSET R /\ T # {}
    OBVIOUS
  <2> HIDE DEF T
  <2> QED
    BY <1>1, <2>1, SmallestSubset
<1>3. CASE s = {}
  <2> DEFINE h == [t \in SUBSET {} |-> 0]
  <2>1. Additive(h, {})
    BY DEF Additive
  <2> QED
    BY <1>3, <2>1
<1>4. CASE s # {}
  <2>1. PICK r \in s : TRUE
    BY <1>4
  <2>2. r \in Request /\ Debit(r) \in Int
    BY <2>1, BalanceTypes
  <2>3. PICK h : Additive(h, s \ {r})
    BY <1>2, <2>1
  <2> DEFINE k == [t \in SUBSET s |-> IF r \in t THEN Debit(r) + h[t \ {r}] ELSE h[t]]
  <2>4. \A t \in SUBSET s : t \ {r} \in SUBSET (s \ {r}) /\ (r \notin t => t \in SUBSET (s \ {r}))
    OBVIOUS
  <2>5. \A t \in SUBSET (s \ {r}) : h[t] \in Int
    BY <2>3 DEF Additive
  <2>6. k \in [SUBSET s -> Int]
    BY <2>2, <2>4, <2>5
  <2>7. k[{}] = 0
    BY <2>3 DEF Additive
  <2>8. ASSUME NEW t \in SUBSET s, NEW x \in s \ t PROVE k[t \cup {x}] = Debit(x) + k[t]
    <3>0. t \cup {x} \in SUBSET s /\ Debit(x) \in Int
      BY BalanceTypes
    <3>1. CASE x = r
      <4>1. (t \cup {x}) \ {r} = t
        BY <3>1
      <4> QED
        BY <3>0, <3>1, <4>1
    <3>2. CASE x # r /\ r \in t
      <4>1. (t \cup {x}) \ {r} = (t \ {r}) \cup {x} /\ t \ {r} \in SUBSET (s \ {r}) /\ x \in (s \ {r}) \ (t \ {r})
        BY <3>2
      <4>2. h[(t \ {r}) \cup {x}] = Debit(x) + h[t \ {r}]
        BY <2>3, <4>1 DEF Additive
      <4>3. k[t \cup {x}] = Debit(r) + h[(t \ {r}) \cup {x}] /\ k[t] = Debit(r) + h[t \ {r}]
        BY <3>0, <3>2, <4>1
      <4> QED
        BY <2>2, <2>5, <3>0, <4>1, <4>2, <4>3
    <3>3. CASE x # r /\ r \notin t
      <4>1. t \in SUBSET (s \ {r}) /\ x \in (s \ {r}) \ t
        BY <3>3
      <4>2. h[t \cup {x}] = Debit(x) + h[t]
        BY <2>3, <4>1 DEF Additive
      <4> QED
        BY <3>0, <3>3, <4>2
    <3> QED
      BY <3>1, <3>2, <3>3
  <2> HIDE DEF k
  <2>9. Additive(k, s)
    BY <2>6, <2>7, <2>8 DEF Additive
  <2> QED
    BY <2>9
<1> QED
  BY <1>3, <1>4

\* Every sum taken in the order of CHOOSE agrees with one taken in any order.
LEMMA SumsAgree ==
    ASSUME NEW R \in SUBSET Request, NEW h, Additive(h, R), NEW S \in SUBSET R
    PROVE  Sum(S) = h[S]
<1> DEFINE some(s) == CHOOSE r \in s : TRUE
<1>0. IsFiniteSet(S)
  BY RequestAssumption, FS_Subset
<1>1. ASSUME NEW s \in SUBSET S, s # {}
      PROVE  some(s) \in s /\ h[s] = Debit(some(s)) + h[s \ {some(s)}]
  <2>1. some(s) \in s
    BY <1>1
  <2> HIDE DEF some
  <2>2. s \ {some(s)} \in SUBSET R /\ some(s) \in R \ (s \ {some(s)}) /\ (s \ {some(s)}) \cup {some(s)} = s
    BY <2>1
  <2> QED
    BY <2>1, <2>2 DEF Additive
<1>2. \E g : IsSum(g, S)
  <2> DEFINE g == [s \in SUBSET S |-> h[s]]
  <2>1. ASSUME NEW s \in SUBSET S
        PROVE  h[s] = IF s = {} THEN 0 ELSE Debit(some(s)) + g[s \ {some(s)}]
    BY <1>1 DEF Additive
  <2>2. IsSum(g, S)
    BY <2>1 DEF IsSum
  <2> QED
    BY <2>2
<1>3. ASSUME NEW g, IsSum(g, S) PROVE g[S] = h[S]
  <2>1. ASSUME NEW s \in SUBSET S
        PROVE  g[s] = IF s = {} THEN 0 ELSE Debit(some(s)) + g[s \ {some(s)}]
    BY <1>3 DEF IsSum
  <2> DEFINE T == {s \in SUBSET S : g[s] # h[s]}
  <2> SUFFICES ASSUME T # {} PROVE FALSE
    OBVIOUS
  <2>2. PICK s \in T : \A t \in T : ~(t \subseteq s /\ t # s)
    <3>1. T \subseteq SUBSET S /\ T # {}
      OBVIOUS
    <3> HIDE DEF T
    <3> QED
      BY <1>0, <3>1, SmallestSubset
  <2>3. CASE s = {}
    BY <2>1, <2>2, <2>3 DEF Additive
  <2>4. CASE s # {}
    <3>1. some(s) \in s /\ h[s] = Debit(some(s)) + h[s \ {some(s)}] /\ g[s] = Debit(some(s)) + g[s \ {some(s)}]
      BY <1>1, <2>1, <2>4
    <3> HIDE DEF some
    <3>2. s \ {some(s)} \in SUBSET S /\ s \ {some(s)} \subseteq s /\ s \ {some(s)} # s
      BY <3>1
    <3>3. s \ {some(s)} \notin T
      BY <2>2, <3>2
    <3> QED
      BY <3>1, <3>2, <3>3
  <2> QED
    BY <2>3, <2>4
<1>4. Sum(S) = (CHOOSE g : IsSum(g, S))[S]
  BY DEF Sum, MapThenSumSet, MapThenFoldSet, IsSum
<1>5. IsSum(CHOOSE g : IsSum(g, S), S)
  BY <1>2
<1> QED
  BY <1>3, <1>4, <1>5

\* What the sum of the debits of S is: nothing for no request, and each request
\* adds its own.
LEMMA SumOfDebits ==
    /\ Sum({}) = 0
    /\ \A S \in SUBSET Request : Sum(S) \in Int
    /\ \A S \in SUBSET Request : \A r \in Request \ S : Sum(S \cup {r}) = Debit(r) + Sum(S)
<1>1. PICK h : Additive(h, Request)
  BY AdditiveExists
<1>2. \A S \in SUBSET Request : Sum(S) = h[S]
  BY <1>1, SumsAgree
<1>3. Sum({}) = 0 /\ \A S \in SUBSET Request : Sum(S) \in Int
  BY <1>1, <1>2 DEF Additive
<1>4. ASSUME NEW S \in SUBSET Request, NEW r \in Request \ S PROVE Sum(S \cup {r}) = Debit(r) + Sum(S)
  <2>1. S \cup {r} \in SUBSET Request
    OBVIOUS
  <2>2. Sum(S) = h[S] /\ Sum(S \cup {r}) = h[S \cup {r}]
    BY <1>2, <2>1
  <2> QED
    BY <1>1, <2>2 DEF Additive
<1> QED
  BY <1>3, <1>4

-----------------------------------------------------------------------------
(* Every balance is explained by recorded transfers. *)

Paid(u)   == {r \in Request : row[r] # NoRow /\ Order[r].from = u}
Earned(u) == {r \in Request : row[r] # NoRow /\ Order[r].to = u}

\* ... and by the transfer of r, which is not recorded yet.
PaidWith(u, r)   == Paid(u) \cup {x \in {r} : Order[x].from = u}
EarnedWith(u, r) == Earned(u) \cup {x \in {r} : Order[x].to = u}

\* v is what row u held at first, less some of the debits of P, give or take an ulp for
\* each of E.
Explained(v, u, P, E) ==
    \E S \in SUBSET P : \E k \in -Cardinality(E) .. Cardinality(E) :
        v = InitialLedger[u] - Sum(S) + k

\* What request r has read and would commit: it debits what it read before it was
\* recorded, and it reads a row again only after its own debit.
Tracked(r) ==
    /\ pc[r] = "saveFrom" =>
          Explained(read[r], Order[r].from, Paid(Order[r].from), Earned(Order[r].from))
    /\ pc[r] = "saveTo" =>
          Explained(read[r], Order[r].to, PaidWith(Order[r].to, r), Earned(Order[r].to))
    /\ pc[r] \notin {"readTo", "saveTo", "commit", "rollback"} => DOMAIN write[r] = {}
    /\ \A u \in DOMAIN write[r] :
          /\ Explained(write[r][u], u, PaidWith(u, r), EarnedWith(u, r))
          /\ pc[r] \in {"readTo", "saveTo"} =>
                Explained(write[r][u], u, PaidWith(u, r), Earned(u))

DebitInv ==
    /\ \A u \in BalanceRow : Explained(ledger[u], u, Paid(u), Earned(u))
    /\ \A r \in Request : Tracked(r)

RowsStay == \A r \in Request : row[r] # NoRow => row'[r] # NoRow

LEMMA PartiesFinite ==
    ASSUME NEW u, NEW r \in Request
    PROVE  /\ Paid(u) \in SUBSET Request /\ PaidWith(u, r) \in SUBSET Request
           /\ Earned(u) \in SUBSET Request /\ EarnedWith(u, r) \in SUBSET Request
           /\ Paid(u) \subseteq PaidWith(u, r) /\ Earned(u) \subseteq EarnedWith(u, r)
BY DEF Paid, Earned, PaidWith, EarnedWith

LEMMA ExplainedMore ==
    ASSUME NEW v, NEW u, NEW P, NEW E, NEW Q \in SUBSET Request, NEW F \in SUBSET Request,
           P \subseteq Q, E \subseteq F, Explained(v, u, P, E)
    PROVE  Explained(v, u, Q, F)
<1>1. IsFiniteSet(E) /\ IsFiniteSet(F) /\ Cardinality(E) \in Nat /\ Cardinality(F) \in Nat
  BY RequestAssumption, FS_Subset, FS_CardinalityType
<1>2. Cardinality(E) <= Cardinality(F)
  BY <1>1, FS_Subset
<1>3. PICK S \in SUBSET P, k \in -Cardinality(E) .. Cardinality(E) : v = InitialLedger[u] - Sum(S) + k
  BY DEF Explained
<1>4. S \in SUBSET Q /\ k \in -Cardinality(F) .. Cardinality(F)
  BY <1>1, <1>2
<1> QED
  BY <1>3, <1>4 DEF Explained

\* A debit of r explains what is left.
LEMMA ExplainedDebit ==
    ASSUME NEW u \in BalanceRow, NEW v, NEW r \in Request, Order[r].from = u, row[r] = NoRow,
           NEW E \in SUBSET Request, Explained(v, u, Paid(u), E)
    PROVE  Explained(v - Debit(r), u, PaidWith(u, r), E)
<1>1. PICK S \in SUBSET Paid(u), k \in -Cardinality(E) .. Cardinality(E) : v = InitialLedger[u] - Sum(S) + k
  BY DEF Explained
<1>2. S \in SUBSET Request /\ r \notin S /\ S \cup {r} \in SUBSET PaidWith(u, r)
  BY DEF Paid, PaidWith
<1>3. Sum(S \cup {r}) = Debit(r) + Sum(S) /\ Sum(S) \in Int /\ Debit(r) \in Int
  BY <1>2, SumOfDebits, BalanceTypes
<1>4. Cardinality(E) \in Nat /\ k \in Int /\ InitialLedger[u] \in Int
  BY RequestAssumption, FS_Subset, FS_CardinalityType, BalanceAssumption
<1>5. v - Debit(r) = InitialLedger[u] - Sum(S \cup {r}) + k
  BY <1>1, <1>3, <1>4
<1> QED
  BY <1>2, <1>5 DEF Explained

\* A credit of r moves it by an ulp at most.
LEMMA ExplainedCredit ==
    ASSUME NEW u \in BalanceRow, NEW v \in Int, NEW r \in Request, Order[r].to = u, row[r] = NoRow,
           NEW P \in SUBSET Request, Explained(v, u, P, Earned(u))
    PROVE  Explained(Appended(v, r), u, P, EarnedWith(u, r))
<1>1. PICK S \in SUBSET P, k \in -Cardinality(Earned(u)) .. Cardinality(Earned(u)) :
         v = InitialLedger[u] - Sum(S) + k
  BY DEF Explained
<1>2. EarnedWith(u, r) = Earned(u) \cup {r} /\ r \notin Earned(u) /\ Earned(u) \in SUBSET Request
  BY DEF Earned, EarnedWith
<1>3. /\ Cardinality(Earned(u)) \in Nat
      /\ Cardinality(EarnedWith(u, r)) = Cardinality(Earned(u)) + 1
  BY <1>2, RequestAssumption, FS_Subset, FS_CardinalityType, FS_AddElement
<1>4. PICK d \in {-1, 0, 1} : Appended(v, r) = v + d
  BY DEF Appended
<1>5. Sum(S) \in Int /\ InitialLedger[u] \in Int /\ k \in Int
  BY <1>3, SumOfDebits, BalanceAssumption
<1>6. /\ Appended(v, r) = InitialLedger[u] - Sum(S) + (k + d)
      /\ k + d \in -Cardinality(EarnedWith(u, r)) .. Cardinality(EarnedWith(u, r))
  BY <1>1, <1>3, <1>4, <1>5
<1> QED
  BY <1>6 DEF Explained

\* What explains a value goes on explaining it.
LEMMA ExplainedStays ==
    ASSUME RowsStay, NEW r \in Request, NEW v, NEW u
    PROVE  /\ Explained(v, u, Paid(u), Earned(u)) => Explained(v, u, Paid(u)', Earned(u)')
           /\ Explained(v, u, PaidWith(u, r), Earned(u)) => Explained(v, u, PaidWith(u, r)', Earned(u)')
           /\ Explained(v, u, PaidWith(u, r), EarnedWith(u, r)) => Explained(v, u, PaidWith(u, r)', EarnedWith(u, r)')
<1>1. /\ Paid(u) \subseteq Paid(u)' /\ Earned(u) \subseteq Earned(u)'
      /\ PaidWith(u, r) \subseteq PaidWith(u, r)' /\ EarnedWith(u, r) \subseteq EarnedWith(u, r)'
      /\ Paid(u)' \in SUBSET Request /\ PaidWith(u, r)' \in SUBSET Request
      /\ Earned(u)' \in SUBSET Request /\ EarnedWith(u, r)' \in SUBSET Request
  BY DEF RowsStay, Paid, Earned, PaidWith, EarnedWith
<1> QED
  BY <1>1, ExplainedMore

\* Its reads and writes being left alone, a request that goes no further keeps them explained.
LEMMA TrackedKeeps ==
    ASSUME RowsStay, NEW x \in Request, Tracked(x), write'[x] = write[x], read'[x] = read[x],
           \/ pc'[x] = pc[x]
           \/ /\ pc'[x] \notin {"saveFrom", "saveTo", "readTo"}
              /\ pc'[x] \in {"commit", "rollback"} \/ pc[x] \notin {"readTo", "saveTo", "commit", "rollback"}
    PROVE  Tracked(x)'
<1> DEFINE f == Order[x].from
           t == Order[x].to
<1>1. pc'[x] = "saveFrom" => Explained(read'[x], f, Paid(f)', Earned(f)')
  BY ExplainedStays DEF Tracked
<1>2. pc'[x] = "saveTo" => Explained(read'[x], t, PaidWith(t, x)', Earned(t)')
  BY ExplainedStays DEF Tracked
<1>3. ASSUME NEW u \in DOMAIN write'[x]
      PROVE  /\ Explained(write'[x][u], u, PaidWith(u, x)', EarnedWith(u, x)')
             /\ pc'[x] \in {"readTo", "saveTo"} =>
                   Explained(write'[x][u], u, PaidWith(u, x)', Earned(u)')
  BY <1>3, ExplainedStays DEF Tracked
<1>4. pc'[x] \notin {"readTo", "saveTo", "commit", "rollback"} => DOMAIN write'[x] = {}
  BY DEF Tracked
<1> QED
  BY <1>1, <1>2, <1>3, <1>4 DEF Tracked

\* A request without writes that is not about to save a balance has nothing to explain.
LEMMA TrackedFresh ==
    ASSUME NEW x \in Request, DOMAIN write'[x] = {}, pc'[x] \notin {"saveFrom", "saveTo"}
    PROVE  Tracked(x)'
BY DEF Tracked

LEMMA RowsStayStep ==
    ASSUME IInv, [Next]_vars PROVE RowsStay
<1>1. TypeOK
  BY DEF IInv
<1>2. ASSUME NEW r \in Request, Commit(r) \/ CommitAckLost(r) PROVE RowsStay
  <2>1. pc[r] = "commit" /\ row' = [row EXCEPT ![r] = draft[r]]
    BY <1>2 DEF Commit, CommitAckLost, Apply
  <2>2. draft[r] = [status |-> "confirmed", hash |-> sig[r]]
    BY <2>1 DEF IInv, Recording, Recorded
  <2> QED
    BY <1>1, <2>1, <2>2 DEF RowsStay, TypeOK, NoRow
<1>3. ASSUME NEW r \in Request, NEW status \in {"failed", "completed"},
             UpdateTransactionStatus(r, status)
      PROVE  RowsStay
  BY <1>1, <1>3 DEF UpdateTransactionStatus, RowsStay, TypeOK, Row, NoRow, DbStatusEnum
<1>4. CASE UNCHANGED row
  BY <1>4 DEF RowsStay
<1> QED
  BY <1>2, <1>3, <1>4
  DEF Next, Progress, Failure, vars, store, Receive, CheckBalance, Connect, PoolTimeout,
      StartTransaction, EarlyError, CreateTransactionRecord, AttemptFails, Broadcast,
      SignatureReturned, AnswerLost, UpdateTransactionWithBlockchainResult,
      ReadFromBalance, SaveFromBalance, ReadToBalance, SaveToBalance,
      RejectedByDatabase, StatementFails, AbortDeadlock, Rollback, Crash, Land, Drop

\* A request that is still at work has no record.
LEMMA NotYetRecorded ==
    ASSUME IInv, NEW r \in Request, pc[r] \notin Answered
    PROVE  row[r] = NoRow
BY DEF IInv, Recording, Answered

\* The steps that leave the reads and writes of all requests.
LEMMA OtherSteps ==
    ASSUME IInv, RowsStay, NEW x \in Request, Tracked(x), UNCHANGED <<read, write>>,
           NEW r \in Request, NEW label, Goto(r, label), pc[r] \notin {"readTo", "saveTo", "commit", "rollback"} \/ label = "rollback",
           label \notin {"saveFrom", "saveTo", "readTo"}
    PROVE  Tracked(x)'
<1>1. pc' = [pc EXCEPT ![r] = label] /\ pc \in [Request -> {"new", "crashed"} \cup Before \cup InTransaction \cup Answered]
  BY DEF Goto, IInv, TypeOK
<1> QED
  BY <1>1, TrackedKeeps

LEMMA ReadFromTracked ==
    ASSUME IInv, DebitInv, RowsStay, NEW r \in Request, ReadFromBalance(r), NEW x \in Request
    PROVE  Tracked(x)'
<1>1. TypeOK /\ Tracked(x) /\ Tracked(r) /\ pc[r] = "readFrom" /\ UNCHANGED write
  BY DEF IInv, DebitInv, ReadFromBalance
<1>2. CASE x # r
  <2>1. pc'[x] = pc[x] /\ read'[x] = read[x]
    BY <1>1, <1>2 DEF ReadFromBalance, Goto, TypeOK
  <2> QED
    BY <1>1, <2>1, TrackedKeeps
<1>3. CASE x = r
  <2> DEFINE u == Order[r].from
  <2>1. DOMAIN write[r] = {} /\ DOMAIN write'[r] = {}
    BY <1>1 DEF Tracked
  <2>2. CASE u \in BalanceRow
    <3>1. pc'[r] = "saveFrom" /\ read'[r] = ledger[u]
      BY <1>1, <2>1, <2>2 DEF ReadFromBalance, Goto, TypeOK, Seen
    <3>2. Explained(read'[r], u, Paid(u)', Earned(u)')
      BY <2>2, <3>1, ExplainedStays DEF DebitInv
    <3> QED
      BY <1>3, <2>1, <3>1, <3>2 DEF Tracked
  <2>3. CASE u \notin BalanceRow
    <3>1. pc'[r] = "readTo"
      BY <1>1, <2>3 DEF ReadFromBalance, Goto, TypeOK
    <3> QED
      BY <1>3, <2>1, <3>1, TrackedFresh
  <2> QED
    BY <2>2, <2>3
<1> QED
  BY <1>2, <1>3

LEMMA SaveFromTracked ==
    ASSUME IInv, DebitInv, RowsStay, NEW r \in Request, SaveFromBalance(r), NEW x \in Request
    PROVE  Tracked(x)'
<1> DEFINE u == Order[r].from
           v == read[r] - Debit(r)
<1>1. /\ TypeOK /\ Tracked(x) /\ Tracked(r) /\ pc[r] = "saveFrom" /\ UNCHANGED <<read, row>>
      /\ u \in BalanceRow /\ pc' = [pc EXCEPT ![r] = "readTo"] /\ write' = [write EXCEPT ![r] = Written(r, u, v)]
  BY DEF IInv, DebitInv, SaveFromBalance, Validated, Goto
<1>2. CASE x # r
  <2>1. pc'[x] = pc[x] /\ write'[x] = write[x]
    BY <1>1, <1>2 DEF TypeOK
  <2> QED
    BY <1>1, <2>1, TrackedKeeps
<1>3. CASE x = r
  <2>1. pc'[r] = "readTo" /\ write'[r] = Written(r, u, v)
    BY <1>1 DEF TypeOK
  <2>2. DOMAIN write'[r] = {u} /\ write'[r][u] = v
    BY <1>1, <2>1 DEF Tracked, Written
  <2>3. row[r] = NoRow
    BY <1>1, NotYetRecorded DEF Answered
  <2>4. Explained(v, u, PaidWith(u, r), Earned(u))
    BY <1>1, <2>3, ExplainedDebit, PartiesFinite DEF Tracked
  <2>5. Explained(v, u, PaidWith(u, r), EarnedWith(u, r))
    BY <2>4, ExplainedMore, PartiesFinite
  <2> HIDE DEF v
  <2>6. Explained(v, u, PaidWith(u, r)', Earned(u)') /\ Explained(v, u, PaidWith(u, r)', EarnedWith(u, r)')
    BY <2>4, <2>5, ExplainedStays
  <2> QED
    BY <1>3, <2>1, <2>2, <2>6 DEF Tracked
<1> QED
  BY <1>2, <1>3

LEMMA ReadToTracked ==
    ASSUME IInv, DebitInv, RowsStay, NEW r \in Request, ReadToBalance(r), NEW x \in Request
    PROVE  Tracked(x)'
<1> DEFINE u == Order[r].to
<1>1. TypeOK /\ Tracked(x) /\ Tracked(r) /\ pc[r] = "readTo" /\ UNCHANGED write
  BY DEF IInv, DebitInv, ReadToBalance
<1>2. CASE x # r
  <2>1. pc'[x] = pc[x] /\ read'[x] = read[x]
    BY <1>1, <1>2 DEF ReadToBalance, Goto, TypeOK
  <2> QED
    BY <1>1, <2>1, TrackedKeeps
<1>3. CASE x = r /\ u \notin BalanceRow
  <2>1. pc'[r] = "commit" /\ read'[r] = read[r]
    BY <1>1, <1>3 DEF ReadToBalance, Goto, TypeOK
  <2> QED
    BY <1>1, <1>3, <2>1, TrackedKeeps
<1>4. CASE x = r /\ u \in BalanceRow
  <2>1. u # External
    BY <1>4, PartyAssumption, WalletAssumption
  <2>2. pc'[r] = "saveTo" /\ read'[r] = IF u \in DOMAIN write[r] THEN write[r][u] ELSE ledger[u]
    BY <1>1, <1>4, <2>1 DEF ReadToBalance, Goto, TypeOK, Seen
  <2>3. Explained(ledger[u], u, PaidWith(u, r), Earned(u))
    BY <1>4, ExplainedMore, PartiesFinite DEF DebitInv
  <2>4. u \in DOMAIN write[r] => Explained(write[r][u], u, PaidWith(u, r), Earned(u))
    BY <1>1 DEF Tracked
  <2>5. Explained(read'[r], u, PaidWith(u, r)', Earned(u)')
    BY <2>2, <2>3, <2>4, ExplainedStays
  <2>6. ASSUME NEW y \in DOMAIN write'[r]
        PROVE  /\ Explained(write'[r][y], y, PaidWith(y, r)', EarnedWith(y, r)')
               /\ Explained(write'[r][y], y, PaidWith(y, r)', Earned(y)')
    BY <1>1, <2>6, ExplainedStays DEF Tracked
  <2> QED
    BY <1>4, <2>2, <2>5, <2>6 DEF Tracked
<1> QED
  BY <1>2, <1>3, <1>4

LEMMA SaveToTracked ==
    ASSUME IInv, DebitInv, RowsStay, NEW r \in Request, SaveToBalance(r), NEW x \in Request
    PROVE  Tracked(x)'
<1> DEFINE u == Order[r].to
           v == Appended(read[r], r)
<1>1. /\ TypeOK /\ Tracked(x) /\ Tracked(r) /\ pc[r] = "saveTo" /\ UNCHANGED <<read, row>>
      /\ u \in BalanceRow /\ pc' = [pc EXCEPT ![r] = "commit"] /\ write' = [write EXCEPT ![r] = Written(r, u, v)]
  BY DEF IInv, DebitInv, SaveToBalance, Validated, Goto
<1>2. CASE x # r
  <2>1. pc'[x] = pc[x] /\ write'[x] = write[x]
    BY <1>1, <1>2 DEF TypeOK
  <2> QED
    BY <1>1, <2>1, TrackedKeeps
<1>3. CASE x = r
  <2>1. pc'[r] = "commit" /\ write'[r] = Written(r, u, v)
    BY <1>1 DEF TypeOK
  <2>2. row[r] = NoRow /\ read[r] \in Int
    BY <1>1, NotYetRecorded DEF Answered, TypeOK
  <2>3. Explained(v, u, PaidWith(u, r), EarnedWith(u, r))
    BY <1>1, <2>2, ExplainedCredit, PartiesFinite DEF Tracked
  <2>4. ASSUME NEW y \in DOMAIN write'[r]
        PROVE  Explained(write'[r][y], y, PaidWith(y, r)', EarnedWith(y, r)')
    <3>1. CASE y = u
      <4>1. write'[r][u] = v
        BY <2>1 DEF Written
      <4> HIDE DEF v
      <4>2. Explained(v, u, PaidWith(u, r)', EarnedWith(u, r)')
        BY <2>3, ExplainedStays
      <4> QED
        BY <3>1, <4>1, <4>2
    <3>2. CASE y # u
      <4>1. y \in DOMAIN write[r] /\ write'[r][y] = write[r][y]
        BY <2>1, <2>4, <3>2 DEF Written
      <4>2. Explained(write[r][y], y, PaidWith(y, r), EarnedWith(y, r))
        BY <1>1, <4>1 DEF Tracked
      <4>3. Explained(write[r][y], y, PaidWith(y, r)', EarnedWith(y, r)')
        BY <4>2, ExplainedStays
      <4> QED
        BY <4>1, <4>3
    <3> QED
      BY <3>1, <3>2
  <2> QED
    BY <1>3, <2>1, <2>4 DEF Tracked
<1> QED
  BY <1>2, <1>3

\* The end of the database transaction: its record and what it wrote appear.
LEMMA CommitTracked ==
    ASSUME IInv, DebitInv, RowsStay, NEW r \in Request, Commit(r) \/ CommitAckLost(r)
    PROVE  DebitInv'
<1>1. /\ TypeOK /\ pc[r] = "commit" /\ row[r] = NoRow
      /\ draft[r] = [status |-> "confirmed", hash |-> sig[r]]
  BY NotYetRecorded DEF IInv, Commit, CommitAckLost, Answered, Recording, Recorded
<1>2. /\ row' = [row EXCEPT ![r] = draft[r]] /\ ledger' = Seen(r)
      /\ read' = [read EXCEPT ![r] = 0] /\ write' = [write EXCEPT ![r] = NoWrite]
      /\ \E label \in {"confirmed", "failed"} : pc' = [pc EXCEPT ![r] = label]
  BY DEF Commit, CommitAckLost, Apply, Release, Goto
<1>3. row'[r] # NoRow /\ \A x \in Request \ {r} : row'[x] = row[x]
  BY <1>1, <1>2 DEF TypeOK, NoRow
<1>4. ASSUME NEW x \in Request PROVE Tracked(x)'
  <2>1. CASE x = r
    <3>1. pc'[r] \in {"confirmed", "failed"} /\ write'[r] = NoWrite
      BY <1>1, <1>2 DEF TypeOK
    <3>2. DOMAIN write'[r] = {}
      BY <3>1 DEF NoWrite
    <3> QED
      BY <2>1, <3>1, <3>2, TrackedFresh
  <2>2. CASE x # r
    <3>1. pc'[x] = pc[x] /\ read'[x] = read[x] /\ write'[x] = write[x] /\ Tracked(x)
      BY <1>1, <1>2, <2>2 DEF TypeOK, DebitInv
    <3> QED
      BY <3>1, TrackedKeeps
  <2> QED
    BY <2>1, <2>2
<1>5. ASSUME NEW u \in BalanceRow PROVE Explained(ledger'[u], u, Paid(u)', Earned(u)')
  <2>1. Paid(u)' = PaidWith(u, r) /\ Earned(u)' = EarnedWith(u, r)
    BY <1>1, <1>3 DEF Paid, Earned, PaidWith, EarnedWith
  <2>2. CASE u \in DOMAIN write[r]
    <3>1. ledger'[u] = write[r][u] /\ Explained(write[r][u], u, PaidWith(u, r), EarnedWith(u, r))
      BY <1>2, <2>2 DEF Seen, DebitInv, Tracked
    <3> QED
      BY <2>1, <3>1
  <2>3. CASE u \notin DOMAIN write[r]
    <3>1. ledger'[u] = ledger[u]
      BY <1>2, <2>3 DEF Seen
    <3> QED
      BY <3>1, ExplainedStays DEF DebitInv
  <2> QED
    BY <2>2, <2>3
<1> QED
  BY <1>4, <1>5 DEF DebitInv

LEMMA RollbackTracked ==
    ASSUME IInv, DebitInv, RowsStay, NEW x \in Request, (\E r \in Request : Rollback(r)) \/ Crash
    PROVE  Tracked(x)'
<1>1. TypeOK /\ Tracked(x)
  BY DEF IInv, DebitInv
<1>2. CASE Crash
  <2>1. write'[x] = NoWrite /\ pc'[x] \notin {"saveFrom", "saveTo"}
    BY <1>1, <1>2 DEF Crash, InTransaction
  <2>2. DOMAIN write'[x] = {}
    BY <2>1 DEF NoWrite
  <2> QED
    BY <2>1, <2>2, TrackedFresh
<1>3. ASSUME NEW r \in Request, Rollback(r) PROVE Tracked(x)'
  <2>1. CASE x = r
    <3>1. write'[r] = NoWrite /\ pc'[r] = "failed"
      BY <1>1, <1>3 DEF Rollback, Release, Goto, TypeOK
    <3>2. DOMAIN write'[r] = {}
      BY <3>1 DEF NoWrite
    <3> QED
      BY <2>1, <3>1, <3>2, TrackedFresh
  <2>2. CASE x # r
    <3>1. pc'[x] = pc[x] /\ read'[x] = read[x] /\ write'[x] = write[x]
      BY <1>1, <1>3, <2>2 DEF Rollback, Release, Goto, TypeOK
    <3> QED
      BY <1>1, <3>1, TrackedKeeps
  <2> QED
    BY <2>1, <2>2
<1> QED
  BY <1>2, <1>3

LEMMA TrackedStep ==
    ASSUME IInv, DebitInv, RowsStay, [Next]_vars, NEW x \in Request
    PROVE  Tracked(x)'
<1>1. TypeOK /\ Tracked(x)
  BY DEF IInv, DebitInv
<1>2. ASSUME NEW r \in Request,
             \/ Receive(r) \/ CheckBalance(r) \/ Connect(r) \/ PoolTimeout(r) \/ StartTransaction(r) \/ EarlyError(r)
             \/ CreateTransactionRecord(r) \/ AttemptFails(r) \/ Broadcast(r) \/ SignatureReturned(r)
             \/ AnswerLost(r) \/ UpdateTransactionWithBlockchainResult(r)
             \/ RejectedByDatabase(r) \/ StatementFails(r) \/ AbortDeadlock(r)
      PROVE  Tracked(x)'
  <2>1. UNCHANGED <<read, write>>
    BY <1>2 DEF store, Receive, CheckBalance, Connect, PoolTimeout, StartTransaction, EarlyError,
       CreateTransactionRecord, AttemptFails, Broadcast, SignatureReturned, AnswerLost,
       UpdateTransactionWithBlockchainResult, RejectedByDatabase, StatementFails, AbortDeadlock
  <2>2. \E label \in {"failed", "connect", "check", "begin", "insert", "send", "sent", "record", "readFrom", "rollback"} :
           /\ Goto(r, label)
           /\ pc[r] \notin {"readTo", "saveTo", "commit", "rollback"} \/ label = "rollback"
    BY <1>2 DEF Receive, CheckBalance, Connect, PoolTimeout, StartTransaction, EarlyError,
       CreateTransactionRecord, AttemptFails, NextAttempt, Broadcast, SignatureReturned, AnswerLost,
       UpdateTransactionWithBlockchainResult, RejectedByDatabase, StatementFails, AbortDeadlock, Before
  <2> QED
    BY <1>1, <2>1, <2>2, OtherSteps
<1>3. ASSUME UNCHANGED <<pc, read, write>> PROVE Tracked(x)'
  BY <1>1, <1>3, TrackedKeeps
<1>4. ASSUME NEW r \in Request, Commit(r) \/ CommitAckLost(r) PROVE Tracked(x)'
  BY <1>4, CommitTracked DEF DebitInv
<1> QED
  BY <1>2, <1>3, <1>4, ReadFromTracked, SaveFromTracked, ReadToTracked, SaveToTracked, RollbackTracked
  DEF Next, Progress, Failure, vars, store, UpdateTransactionStatus, Land, Drop

LEMMA DebitStep == IInv /\ DebitInv /\ [Next]_vars => DebitInv'
<1> SUFFICES ASSUME IInv, DebitInv, [Next]_vars PROVE DebitInv'
  OBVIOUS
<1>1. RowsStay
  BY RowsStayStep
<1>2. \A x \in Request : Tracked(x)'
  BY <1>1, TrackedStep
<1>3. CASE UNCHANGED ledger
  <2>1. ASSUME NEW u \in BalanceRow, NEW r \in Request PROVE Explained(ledger'[u], u, Paid(u)', Earned(u)')
    BY <1>1, <1>3, ExplainedStays DEF DebitInv
  <2>2. CASE Request = {}
    <3>1. \A u : Paid(u)' = Paid(u) /\ Earned(u)' = Earned(u)
      BY <2>2 DEF Paid, Earned
    <3> QED
      BY <1>2, <1>3, <3>1 DEF DebitInv
  <2> QED
    BY <1>2, <2>1, <2>2 DEF DebitInv
<1>4. ASSUME NEW r \in Request, Commit(r) \/ CommitAckLost(r) PROVE DebitInv'
  BY <1>1, <1>4, CommitTracked
<1> QED
  BY <1>3, <1>4
  DEF Next, Progress, Failure, vars, store, Receive, CheckBalance, Connect, PoolTimeout,
      StartTransaction, EarlyError, CreateTransactionRecord, AttemptFails, Broadcast,
      SignatureReturned, AnswerLost, UpdateTransactionWithBlockchainResult,
      ReadFromBalance, SaveFromBalance, ReadToBalance, SaveToBalance,
      RejectedByDatabase, StatementFails, AbortDeadlock, Rollback, UpdateTransactionStatus, Crash, Land, Drop

LEMMA DebitInit == Init => DebitInv
<1> SUFFICES ASSUME Init PROVE DebitInv
  OBVIOUS
<1>1. ASSUME NEW u \in BalanceRow PROVE Explained(ledger[u], u, Paid(u), Earned(u))
  <2>1. Cardinality(Earned(u)) \in Nat
    BY RequestAssumption, FS_Subset, FS_CardinalityType DEF Earned
  <2>2. InitialLedger[u] = InitialLedger[u] - Sum({}) + 0
    BY SumOfDebits, BalanceAssumption
  <2>3. 0 \in -Cardinality(Earned(u)) .. Cardinality(Earned(u)) /\ {} \in SUBSET Paid(u) /\ ledger[u] = InitialLedger[u]
    BY <2>1 DEF Init
  <2> QED
    BY <2>2, <2>3 DEF Explained
<1>2. \A r \in Request : Tracked(r)
  BY DEF Init, Tracked, NoWrite
<1> QED
  BY <1>1, <1>2 DEF DebitInv

-----------------------------------------------------------------------------
(* Who waits for a lock. *)

\* Locks are taken by the first UPDATE and given up by COMMIT or ROLLBACK.
Locking == {"readTo", "saveTo", "commit", "rollback"}
LocksInside == \A s \in Request : DOMAIN write[s] # {} => pc[s] \in Locking

LEMMA LocksInit == Init => LocksInside
  BY DEF Init, LocksInside, NoWrite

LEMMA LocksStep == TypeOK /\ LocksInside /\ [Next]_vars => LocksInside'
<1> SUFFICES ASSUME TypeOK, LocksInside, [Next]_vars, NEW s \in Request, DOMAIN write'[s] # {}
             PROVE  pc'[s] \in Locking
  BY DEF LocksInside
<1>1. /\ pc \in [Request -> {"new", "crashed"} \cup Before \cup InTransaction \cup Answered]
      /\ DOMAIN write = Request /\ (DOMAIN write[s] # {} => pc[s] \in Locking)
  BY DEF TypeOK, LocksInside
\* Steps that write no balance leave a request that holds locks where it is or roll it back.
<1>2. ASSUME NEW r \in Request,
             \/ Receive(r) \/ CheckBalance(r) \/ Connect(r) \/ PoolTimeout(r) \/ StartTransaction(r) \/ EarlyError(r)
             \/ CreateTransactionRecord(r) \/ AttemptFails(r) \/ Broadcast(r) \/ SignatureReturned(r)
             \/ AnswerLost(r) \/ UpdateTransactionWithBlockchainResult(r) \/ ReadFromBalance(r)
             \/ ReadToBalance(r)
             \/ RejectedByDatabase(r) \/ StatementFails(r) \/ AbortDeadlock(r)
      PROVE  pc'[s] \in Locking
  <2>1. UNCHANGED write
    BY <1>2 DEF store, Receive, CheckBalance, Connect, PoolTimeout, StartTransaction, EarlyError,
       CreateTransactionRecord, AttemptFails, Broadcast, SignatureReturned, AnswerLost, ReadFromBalance,
       ReadToBalance, UpdateTransactionWithBlockchainResult, RejectedByDatabase, StatementFails, AbortDeadlock
  <2>2. pc[r] \notin Locking \/ \E label \in Locking : Goto(r, label)
    BY <1>2 DEF Receive, CheckBalance, Connect, PoolTimeout, StartTransaction, EarlyError,
       CreateTransactionRecord, AttemptFails, Broadcast, SignatureReturned, AnswerLost, ReadFromBalance,
       ReadToBalance, UpdateTransactionWithBlockchainResult, RejectedByDatabase, StatementFails, AbortDeadlock,
       Before, Locking
  <2>3. \E label : Goto(r, label)
    BY <1>2 DEF Receive, CheckBalance, Connect, PoolTimeout, StartTransaction, EarlyError,
       CreateTransactionRecord, AttemptFails, NextAttempt, Broadcast, SignatureReturned, AnswerLost, ReadFromBalance,
       ReadToBalance, UpdateTransactionWithBlockchainResult, RejectedByDatabase, StatementFails, AbortDeadlock
  <2> QED
    BY <1>1, <2>1, <2>2, <2>3 DEF Goto
<1>3. ASSUME NEW r \in Request, SaveFromBalance(r) \/ SaveToBalance(r) PROVE pc'[s] \in Locking
  BY <1>1, <1>3 DEF SaveFromBalance, SaveToBalance, Goto, Locking
<1>4. ASSUME NEW r \in Request, Commit(r) \/ CommitAckLost(r) \/ Rollback(r) PROVE pc'[s] \in Locking
  BY <1>1, <1>4 DEF Commit, CommitAckLost, Rollback, Release, NoWrite, Goto
<1>5. ASSUME Crash PROVE pc'[s] \in Locking
  BY <1>5 DEF Crash, NoWrite
<1>6. ASSUME UNCHANGED <<pc, write>> PROVE pc'[s] \in Locking
  BY <1>1, <1>6
<1> QED
  BY <1>2, <1>3, <1>4, <1>5, <1>6
  DEF Next, Progress, Failure, vars, store, UpdateTransactionStatus, Land, Drop

\* Requests that all wait for one another include a cycle: the smallest set of them has
\* nobody in it for whom nobody waits.
LEMMA WaitersMeet ==
    ASSUME NEW V \in SUBSET Request, V # {}, \A x \in V : \E y \in V : WaitsFor(x, y)
    PROVE  \E x \in V : Deadlocked(x)
<1> DEFINE Onward(t) == \A x \in t : \E y \in t : WaitsFor(x, y)
           T == {t \in SUBSET V : t # {} /\ Onward(t)}
<1>1. PICK s \in T : \A t \in T : ~(t \subseteq s /\ t # s)
  <2>1. IsFiniteSet(V)
    BY RequestAssumption, FS_Subset
  <2>2. T \subseteq SUBSET V /\ T # {}
    OBVIOUS
  <2> HIDE DEF T
  <2> QED
    BY <2>1, <2>2, SmallestSubset
<1>2. ASSUME NEW y \in s PROVE \E x \in s : WaitsFor(x, y)
  <2> SUFFICES ASSUME \A x \in s : ~WaitsFor(x, y) PROVE FALSE
    OBVIOUS
  <2> DEFINE t == s \ {y}
  <2>1. PICK z \in s : WaitsFor(y, z)
    OBVIOUS
  <2>2. t # {}
    BY <2>1
  <2>3. Onward(t)
    OBVIOUS
  <2>4. t \in T
    BY <2>2, <2>3
  <2> QED
    BY <1>1, <2>4
<1>3. PICK x \in s : TRUE
  OBVIOUS
<1>4. s \in SUBSET Request /\ Onward(s)
  OBVIOUS
<1> QED
  BY <1>2, <1>3, <1>4 DEF Deadlocked

-----------------------------------------------------------------------------
(* The theorems. *)

LEMMA InitIInv == Init => IInv
<1> SUFFICES ASSUME Init PROVE IInv
  OBVIOUS
<1>1. TypeOK
  BY BalanceAssumption, NumberAssumption
  DEF Init, TypeOK, Attempt, NoWrite, NoRow
<1>2. Cardinality(conn) <= PoolSize
  BY NumberAssumption, FS_EmptySet DEF Init
<1>3. ASSUME NEW r \in Request
      PROVE  Validated(r) /\ Looping(r) /\ Recording(r) /\ Pooled(r)
  BY NumberAssumption
  DEF Init, Validated, Looping, Recording, Pooled, NotStarted, Recorded, Before,
      InTransaction, Attempt
<1> QED
  BY <1>1, <1>2, <1>3 DEF IInv

LEMMA NextIInv == IInv /\ [Next]_vars => IInv'
BY TypeStep, PoolStep, ValidatedStep, LoopingStep, RecordingStep, PooledStep DEF IInv

\* The inductive invariant holds in every reachable state.
THEOREM Invariance == Spec => []IInv
BY InitIInv, NextIInv, PTL DEF Spec

\* Every variable keeps its type: in particular the retry counter stays within
\* maxRetries and no account goes below zero on the chain.
THEOREM TypeCorrect == Spec => []TypeOK
<1>1. IInv => TypeOK
  BY DEF IInv
<1> QED
  BY <1>1, Invariance, PTL

\* The retry loop of executeBlockchainTransfer pays twice only after an attempt
\* that was broadcast ended in an exception.
THEOREM NoNeedlessPayment == Spec => []PaidAgainOnlyAfterLostAnswer
<1>1. IInv => PaidAgainOnlyAfterLostAnswer
  <2> SUFFICES ASSUME IInv, NEW r \in Request, NEW m \in Attempt, NEW n \in Attempt,
                      m < n, sub[r][m] = "landed", sub[r][n] = "landed"
               PROVE  m \in lost[r]
    BY DEF PaidAgainOnlyAfterLostAnswer
  <2>1. TypeOK /\ Looping(r)
    BY DEF IInv
  <2>2. m \in Int /\ n \in Int /\ attempt[r] \in Int
    BY <2>1, NumberAssumption DEF TypeOK, Attempt
  <2>3. ~(n > attempt[r])
    BY <2>1 DEF Looping
  <2>4. m < attempt[r]
    BY <2>2, <2>3
  <2> QED
    BY <2>1, <2>4 DEF Looping
<1> QED
  BY <1>1, Invariance, PTL

\* What createTransaction answers and the record it leaves agree, through
\* failures, lost COMMIT answers, crashes and later status updates.
THEOREM RecordsAgree == Spec => []RecordMatchesAnswer
<1>1. IInv => RecordMatchesAnswer
  BY DEF IInv, Recording, RecordMatchesAnswer
<1> QED
  BY <1>1, Invariance, PTL

\* createTransaction holds a pooled connection only inside its database
\* transaction; the one leak is a failed BEGIN.
THEOREM ConnectionsAreAccounted == Spec => []ConnectionsAccounted
<1>1. IInv => ConnectionsAccounted
  BY DEF IInv, Pooled, Recording, ConnectionsAccounted, InTransaction
<1> QED
  BY <1>1, Invariance, PTL

\* The balances and the record of a transfer become visible in one step, and
\* balances change in no other.
THEOREM LedgerIsAtomic == Spec => LedgerMovesWithRecord
<1>1. IInv /\ [Next]_vars =>
        [ledger' # ledger => \E r \in Request : row[r] = NoRow /\ row'[r] # NoRow]_vars
  <2> SUFFICES ASSUME IInv, Next, ledger' # ledger
               PROVE  \E r \in Request : row[r] = NoRow /\ row'[r] # NoRow
    BY DEF vars
  <2>1. \E r \in Request : Commit(r) \/ CommitAckLost(r)
    BY DEF Next, Progress, Failure, store, Receive, CheckBalance, Connect, PoolTimeout,
           StartTransaction, EarlyError, CreateTransactionRecord, AttemptFails, Broadcast,
           SignatureReturned, AnswerLost, UpdateTransactionWithBlockchainResult,
           ReadFromBalance, SaveFromBalance, ReadToBalance, SaveToBalance,
           RejectedByDatabase, StatementFails, AbortDeadlock,
           Rollback, UpdateTransactionStatus, Crash, Land, Drop
  <2>2. PICK r \in Request : Commit(r) \/ CommitAckLost(r)
    BY <2>1
  <2>3. pc[r] = "commit" /\ row' = [row EXCEPT ![r] = draft[r]]
    BY <2>2 DEF Commit, CommitAckLost, Apply
  <2>4. row[r] = NoRow /\ draft[r] = [status |-> "confirmed", hash |-> sig[r]]
    BY <2>3 DEF IInv, Recording, Recorded
  <2>5. row'[r] = [status |-> "confirmed", hash |-> sig[r]]
    BY <2>3, <2>4 DEF IInv, TypeOK
  <2> QED
    BY <2>4, <2>5 DEF NoRow
<1> QED
  BY <1>1, Invariance, PTL DEF Spec, LedgerMovesWithRecord

\* No rolled back, crashed or retried request leaves a debit behind, whatever else runs:
\* each balance is what it was at first, less the sum of some recorded transfers of its
\* owner, up to one ulp per recorded credit.
THEOREM DebitsAreRecorded == Spec => []NoPhantomDebit
<1>1. DebitInv => NoPhantomDebit
  BY DEF DebitInv, Explained, Paid, Earned, Sum, NoPhantomDebit
<1> QED
  BY <1>1, Invariance, DebitInit, DebitStep, PTL DEF Spec

\* Nobody waits for ever for a row lock of wallet_balance: for any number of requests
\* and any orders, those somebody waits for include one that can go on or that
\* PostgreSQL aborts.
THEOREM LocksAreGivenUp == Spec => []LockWaitsEnd
<1>1. LocksInside => LockWaitsEnd
  <2> SUFFICES ASSUME LocksInside, NEW r \in Request, NEW W \in SUBSET Request,
                      \E s \in Request : WaitsFor(r, s), r \in W,
                      \A x \in W, y \in Request : WaitsFor(x, y) => y \in W,
                      \A s \in W : pc[s] \in InTransaction => \E y \in Request : WaitsFor(s, y)
               PROVE  \E s \in W : pc[s] \in InTransaction /\ Deadlocked(s)
    BY DEF LockWaitsEnd
  <2> DEFINE V == {x \in W : \E y \in Request : WaitsFor(x, y)}
  <2>1. ASSUME NEW x \in V PROVE pc[x] \in InTransaction /\ \E y \in V : WaitsFor(x, y)
    <3>1. PICK y \in Request : WaitsFor(x, y)
      OBVIOUS
    <3>2. y \in W /\ DOMAIN write[y] # {} /\ pc[x] \in InTransaction
      BY <3>1 DEF WaitsFor, InTransaction
    <3>3. pc[y] \in InTransaction
      BY <3>2 DEF LocksInside, Locking, InTransaction
    <3> QED
      BY <3>1, <3>2, <3>3
  <2>2. r \in V
    OBVIOUS
  <2>3. \E x \in V : Deadlocked(x)
    <3> HIDE DEF V
    <3>1. V \in SUBSET Request
      BY DEF V
    <3> QED
      BY <2>1, <2>2, <3>1, WaitersMeet
  <2> QED
    BY <2>1, <2>3
<1>2. IInv => TypeOK
  BY DEF IInv
<1> QED
  BY <1>1, <1>2, Invariance, LocksInit, LocksStep, PTL DEF Spec
===============================================================================
