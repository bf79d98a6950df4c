------------------------ MODULE AtomicTransferProofs ------------------------
(***************************************************************************)
(* TransactionService implements AtomicTransfer, for all requests, orders, *)
(* retries, pools and crashes.  Beyond the invariant of the proofs about   *)
(* TransactionService it takes one fact: a database transaction writes the *)
(* balances of its own two parties only.                                   *)
(***************************************************************************)
EXTENDS TransactionServiceProofs

WritesOwnParties == \A r \in Request : DOMAIN write[r] \subseteq {Order[r].from, Order[r].to}

LEMMA WritesInit == Init => WritesOwnParties
  BY DEF Init, WritesOwnParties, NoWrite

LEMMA WritesStep ==
    ASSUME TypeOK, WritesOwnParties, [Next]_vars
    PROVE  WritesOwnParties'
<1> USE DEF WritesOwnParties, chain, loop, store
<1>1. DOMAIN write = Request
  BY DEF TypeOK
<1>2. ASSUME NEW r \in Request, SaveFromBalance(r) PROVE WritesOwnParties'
  BY <1>1, <1>2 DEF SaveFromBalance, Written
<1>3. ASSUME NEW r \in Request, SaveToBalance(r) PROVE WritesOwnParties'
  BY <1>1, <1>3 DEF SaveToBalance, Written
<1>4. ASSUME NEW r \in Request, Release(r) PROVE WritesOwnParties'
  BY <1>1, <1>4 DEF Release, NoWrite
<1>5. ASSUME Crash PROVE WritesOwnParties'
  BY <1>5 DEF Crash, NoWrite
<1>6. ASSUME NEW r \in Request, Progress(r) PROVE WritesOwnParties'
  BY <1>1, <1>2, <1>3, <1>4, <1>6 DEF Progress, CheckBalance, Connect, PoolTimeout,
     StartTransaction, CreateTransactionRecord, AttemptFails, Broadcast, SignatureReturned,
     AnswerLost, UpdateTransactionWithBlockchainResult, ReadFromBalance, ReadToBalance,
     RejectedByDatabase, AbortDeadlock, Commit, Rollback
<1>7. ASSUME NEW r \in Request, Failure(r) PROVE WritesOwnParties'
  BY <1>1, <1>4, <1>7 DEF Failure, EarlyError, StatementFails, CommitAckLost
<1>8. ASSUME NEW r \in Request, NEW n \in Attempt, Land(r, n) \/ Drop(r, n)
      PROVE  WritesOwnParties'
  BY <1>8 DEF Land, Drop
<1>9. ASSUME NEW r \in Request, NEW s \in {"failed", "completed"},
             Receive(r) \/ UpdateTransactionStatus(r, s)
      PROVE  WritesOwnParties'
  BY <1>9 DEF Receive, UpdateTransactionStatus
<1>10. CASE UNCHANGED vars
  BY <1>10 DEF vars
<1> QED
  BY <1>5, <1>6, <1>7, <1>8, <1>9, <1>10 DEF Next

-----------------------------------------------------------------------------
(* The abstract view. *)

Answers == [r \in Request |-> AnswerOf(pc[r])]
Transfers == [r \in Request |-> TransferOf(pc[r], sig[r])]
Records == [r \in Request |-> row[r].status]

AbstractStep == [Atomic!TransferNext]_Atomic!transferVars

\* What the abstract actions say, in the words of the view.
LEMMA ViewStutters ==
    ASSUME Answers' = Answers, Transfers' = Transfers, Records' = Records, ledger' = ledger
    PROVE  AbstractStep
  BY DEF AbstractStep, Atomic!transferVars, Answers, Transfers, Records

LEMMA ViewRefuses ==
    ASSUME NEW r \in Request, Answers[r] = "none", Transfers[r] # "sent",
           Answers' = [Answers EXCEPT ![r] = "failed"],
           Transfers' = Transfers, Records' = Records, ledger' = ledger
    PROVE  AbstractStep
  BY DEF AbstractStep, Atomic!TransferNext, Atomic!Refuse, Answers, Transfers, Records

LEMMA ViewSends ==
    ASSUME NEW r \in Request, Answers[r] = "none", Transfers[r] = "none",
           Transfers' = [Transfers EXCEPT ![r] = "sent"],
           Answers' = Answers, Records' = Records, ledger' = ledger
    PROVE  AbstractStep
  BY DEF AbstractStep, Atomic!TransferNext, Atomic!Send, Answers, Transfers, Records

LEMMA ViewLearnsOrLoses ==
    ASSUME NEW r \in Request, Answers[r] = "none", Transfers[r] = "sent",
           \/ Transfers' = [Transfers EXCEPT ![r] = "known"]
           \/ Transfers' = [Transfers EXCEPT ![r] = "none"],
           Answers' = Answers, Records' = Records, ledger' = ledger
    PROVE  AbstractStep
  BY DEF AbstractStep, Atomic!TransferNext, Atomic!LearnOrLose, Answers, Transfers, Records

LEMMA ViewCompletes ==
    ASSUME NEW r \in Request, Answers[r] = "none", Transfers[r] = "known", Records[r] = "none",
           \/ Answers' = [Answers EXCEPT ![r] = "confirmed"]
           \/ Answers' = [Answers EXCEPT ![r] = "failed"],
           Records' = [Records EXCEPT ![r] = "confirmed"],
           Transfers' = Transfers,
           DOMAIN ledger' = BalanceRow,
           \A u \in BalanceRow \ {Order[r].from, Order[r].to} : ledger'[u] = ledger[u]
    PROVE  AbstractStep
  BY DEF AbstractStep, Atomic!TransferNext, Atomic!Complete, Answers, Transfers, Records

LEMMA ViewRestates ==
    ASSUME NEW r \in Request, Records[r] # "none", NEW status \in DbStatusEnum,
           Records' = [Records EXCEPT ![r] = status],
           Answers' = Answers, Transfers' = Transfers, ledger' = ledger
    PROVE  AbstractStep
  BY DEF AbstractStep, Atomic!TransferNext, Atomic!Restate, Answers, Transfers, Records

LEMMA ViewDies ==
    ASSUME NEW S \in SUBSET Request, \A r \in S : Answers[r] = "none",
           Answers' = [r \in Request |-> IF r \in S THEN "crashed" ELSE Answers[r]],
           Transfers' = [r \in Request |->
               IF r \in S /\ Transfers[r] = "sent" THEN "none" ELSE Transfers[r]],
           Records' = Records, ledger' = ledger
    PROVE  AbstractStep
  BY DEF AbstractStep, Atomic!TransferNext, Atomic!Die, Answers, Transfers, Records

-----------------------------------------------------------------------------
(* Every step of the service is a step of the view. *)

\* How the view follows a request that goes on to another await.
LEMMA ViewFollows ==
    ASSUME TypeOK, NEW r \in Request, NEW label, Goto(r, label),
           \/ sig' = sig
           \/ sig' = [sig EXCEPT ![r] = attempt[r]]
    PROVE  /\ Answers' = [Answers EXCEPT ![r] = AnswerOf(label)]
           /\ Transfers' = [Transfers EXCEPT ![r] = TransferOf(label, sig'[r])]
           /\ AnswerOf(label) = Answers[r] => Answers' = Answers
           /\ TransferOf(label, sig'[r]) = Transfers[r] => Transfers' = Transfers
<1>1. /\ pc' = [pc EXCEPT ![r] = label]
      /\ \A x \in Request \ {r} : sig'[x] = sig[x] /\ pc'[x] = pc[x]
      /\ pc'[r] = label
  BY DEF Goto, TypeOK
<1>2. \A x \in Request \ {r} : Answers'[x] = Answers[x] /\ Transfers'[x] = Transfers[x]
  BY <1>1 DEF Answers, Transfers
<1>3. Answers'[r] = AnswerOf(label) /\ Transfers'[r] = TransferOf(label, sig'[r])
  BY <1>1 DEF Answers, Transfers
<1>4. /\ Answers = [x \in Request |-> Answers[x]] /\ Answers' = [x \in Request |-> Answers'[x]]
      /\ Transfers = [x \in Request |-> Transfers[x]]
      /\ Transfers' = [x \in Request |-> Transfers'[x]]
  BY DEF Answers, Transfers
<1> HIDE DEF Answers, Transfers
<1> QED
  BY <1>2, <1>3, <1>4

LEMMA ViewType ==
    /\ DOMAIN Answers = Request /\ DOMAIN Transfers = Request
    /\ \A r \in Request : /\ Answers[r] = AnswerOf(pc[r])
                           /\ Transfers[r] = TransferOf(pc[r], sig[r])
                           /\ Records[r] = row[r].status
  BY DEF Answers, Transfers, Records

Unanswered == Before \cup InTransaction \cup {"new"}

\* A step between two awaits that shows neither an answer nor a transfer.
LEMMA StepHides ==
    ASSUME TypeOK, NEW r \in Request, pc[r] \in Unanswered \ {"sent"},
           NEW label \in Unanswered \ {"sent"}, Goto(r, label),
           sig' = sig, row' = row, ledger' = ledger
    PROVE  AbstractStep
<1>1. AnswerOf(label) = Answers[r] /\ TransferOf(label, sig'[r]) = Transfers[r]
  BY DEF AnswerOf, TransferOf, Answers, Transfers, Unanswered, Before, InTransaction
<1>2. Answers' = Answers /\ Transfers' = Transfers
  BY <1>1, ViewFollows, ViewType
<1> QED
  BY <1>2, ViewStutters DEF Records

LEMMA StepRefuses ==
    ASSUME TypeOK, NEW r \in Request, pc[r] \in Unanswered \ {"sent"}, Goto(r, "failed"),
           sig' = sig, row' = row, ledger' = ledger
    PROVE  AbstractStep
<1>1. /\ Answers[r] = "none" /\ Transfers[r] # "sent"
      /\ AnswerOf("failed") = "failed" /\ TransferOf("failed", sig'[r]) = Transfers[r]
  BY DEF AnswerOf, TransferOf, Answers, Transfers, Unanswered, Before, InTransaction
<1>2. Answers' = [Answers EXCEPT ![r] = "failed"] /\ Transfers' = Transfers
  BY <1>1, ViewFollows, ViewType
<1> QED
  BY <1>1, <1>2, ViewRefuses DEF Records

\* Before the signature is known, none is.
LEMMA NoSignatureYet ==
    ASSUME IInv, NEW r \in Request, pc[r] \in {"send", "sent"}
    PROVE  sig[r] = 0 /\ attempt[r] \in Attempt /\ attempt[r] # 0
  BY NumberAssumption DEF IInv, Looping, TypeOK, Attempt

LEMMA BroadcastShows == ASSUME IInv, NEW r \in Request, Broadcast(r) PROVE AbstractStep
<1>1. /\ TypeOK /\ pc[r] = "send" /\ Goto(r, "sent") /\ sig' = sig /\ row' = row
      /\ ledger' = ledger /\ sig[r] = 0
  BY NoSignatureYet DEF Broadcast, IInv, loop, store
<1>2. /\ Answers[r] = "none" /\ Transfers[r] = "none"
      /\ AnswerOf("sent") = "none" /\ TransferOf("sent", sig'[r]) = "sent"
  BY <1>1 DEF AnswerOf, TransferOf, Answers, Transfers
<1>3. Answers' = Answers /\ Transfers' = [Transfers EXCEPT ![r] = "sent"]
  BY <1>1, <1>2, ViewFollows, ViewType
<1> QED
  BY <1>1, <1>2, <1>3, ViewSends DEF Records

LEMMA SignatureShows == ASSUME IInv, NEW r \in Request, SignatureReturned(r) PROVE AbstractStep
<1>1. /\ TypeOK /\ pc[r] = "sent" /\ Goto(r, "record") /\ sig' = [sig EXCEPT ![r] = attempt[r]]
      /\ row' = row /\ ledger' = ledger /\ sig'[r] # 0
  BY NoSignatureYet DEF SignatureReturned, IInv, store, TypeOK
<1>2. /\ Answers[r] = "none" /\ Transfers[r] = "sent"
      /\ AnswerOf("record") = "none" /\ TransferOf("record", sig'[r]) = "known"
  BY <1>1 DEF AnswerOf, TransferOf, Answers, Transfers
<1>3. Answers' = Answers /\ Transfers' = [Transfers EXCEPT ![r] = TransferOf("record", sig'[r])]
  BY <1>1, <1>2, ViewFollows
<1> QED
  BY <1>1, <1>2, <1>3, ViewLearnsOrLoses DEF Records

LEMMA AnswerLostShows == ASSUME IInv, NEW r \in Request, AnswerLost(r) PROVE AbstractStep
<1>1. PICK label \in {"send", "rollback"} : Goto(r, label)
  BY DEF AnswerLost, NextAttempt
<1>2. /\ TypeOK /\ pc[r] = "sent" /\ sig' = sig /\ row' = row /\ ledger' = ledger /\ sig[r] = 0
  BY NoSignatureYet DEF AnswerLost, IInv, store
<1>3. /\ Answers[r] = "none" /\ Transfers[r] = "sent"
      /\ AnswerOf(label) = "none" /\ TransferOf(label, sig'[r]) = "none"
  BY <1>2 DEF AnswerOf, TransferOf, Answers, Transfers
<1>4. Answers' = Answers /\ Transfers' = [Transfers EXCEPT ![r] = "none"]
  BY <1>1, <1>2, <1>3, ViewFollows, ViewType
<1> QED
  BY <1>2, <1>3, <1>4, ViewLearnsOrLoses DEF Records

\* COMMIT: the record appears with the balances, whatever is answered.
LEMMA CommitShows ==
    ASSUME IInv, WritesOwnParties, NEW r \in Request, Commit(r) \/ CommitAckLost(r)
    PROVE  AbstractStep
<1>1. PICK label \in {"confirmed", "failed"} : Goto(r, label)
  BY DEF Commit, CommitAckLost
<1>2. /\ TypeOK /\ pc[r] = "commit" /\ sig' = sig
      /\ row' = [row EXCEPT ![r] = draft[r]] /\ ledger' = Seen(r)
  BY DEF IInv, Commit, CommitAckLost, Apply, loop
<1>3. /\ sig[r] # 0 /\ draft[r].status = "confirmed" /\ row[r] = NoRow
  <2>1. Looping(r) /\ Recording(r)
    BY DEF IInv
  <2>2. sig[r] = attempt[r] /\ attempt[r] \in 1 .. MaxRetries
    BY <1>2, <2>1 DEF Looping, Recorded, TypeOK, Attempt
  <2>3. sig[r] # 0
    BY <2>2, NumberAssumption
  <2>4. draft[r].status = "confirmed" /\ row[r] = NoRow
    BY <1>2, <2>1 DEF Recording, Recorded
  <2> QED
    BY <2>3, <2>4
<1>4. /\ Answers[r] = "none" /\ Transfers[r] = "known" /\ Records[r] = "none"
      /\ AnswerOf(label) = label /\ TransferOf(label, sig'[r]) = "known"
  BY <1>2, <1>3 DEF AnswerOf, TransferOf, Answers, Transfers, Records, NoRow
<1>5. Answers' = [Answers EXCEPT ![r] = label] /\ Transfers' = Transfers
  BY <1>1, <1>2, <1>4, ViewFollows, ViewType
<1>6. Records' = [Records EXCEPT ![r] = "confirmed"]
  BY <1>2, <1>3 DEF Records, TypeOK
<1>7. /\ DOMAIN ledger' = BalanceRow
      /\ \A u \in BalanceRow \ {Order[r].from, Order[r].to} : ledger'[u] = ledger[u]
  BY <1>2 DEF WritesOwnParties, Seen
<1> QED
  BY <1>4, <1>5, <1>6, <1>7, ViewCompletes

LEMMA StatusShows ==
    ASSUME IInv, NEW r \in Request, NEW status, UpdateTransactionStatus(r, status)
    PROVE  AbstractStep
<1>1. /\ row[r] # NoRow /\ status \in DbStatusEnum /\ TypeOK
      /\ row' = [row EXCEPT ![r].status = status]
      /\ pc' = pc /\ sig' = sig /\ ledger' = ledger
  BY DEF UpdateTransactionStatus, IInv, loop
<1>2. row[r] \in Row
  BY <1>1 DEF TypeOK
<1>3. Records[r] # "none"
  BY <1>2 DEF Records, Row
<1>4. Records' = [Records EXCEPT ![r] = status]
  BY <1>1, <1>2 DEF Records, Row, TypeOK
<1>5. Answers' = Answers /\ Transfers' = Transfers
  BY <1>1 DEF Answers, Transfers
<1> QED
  BY <1>1, <1>3, <1>4, <1>5, ViewRestates

LEMMA CrashShows == ASSUME IInv, Crash PROVE AbstractStep
<1> DEFINE S == {r \in Request : pc[r] \in Before \cup InTransaction}
<1>1. /\ sig' = sig /\ row' = row /\ ledger' = ledger
      /\ pc' = [r \in Request |->
                   IF pc[r] \in Before \cup InTransaction THEN "crashed" ELSE pc[r]]
  BY DEF Crash, loop
<1>2. \A r \in S : Answers[r] = "none"
  BY DEF Answers, AnswerOf, Before, InTransaction
<1>3. Answers' = [r \in Request |-> IF r \in S THEN "crashed" ELSE Answers[r]]
  BY <1>1 DEF Answers, AnswerOf
<1>4. \A r \in Request : pc[r] = "sent" => r \in S /\ sig[r] = 0
  BY NoSignatureYet DEF InTransaction
<1>5. \A r \in Request :
         TransferOf(pc'[r], sig[r])
            = IF r \in S /\ Transfers[r] = "sent" THEN "none" ELSE Transfers[r]
  BY <1>1, <1>4 DEF Transfers, TransferOf
<1>6. Transfers' = [r \in Request |->
         IF r \in S /\ Transfers[r] = "sent" THEN "none" ELSE Transfers[r]]
  BY <1>1, <1>5 DEF Transfers
<1> QED
  BY <1>1, <1>2, <1>3, <1>6, ViewDies DEF Records

-----------------------------------------------------------------------------
LEMMA StepRefines == IInv /\ WritesOwnParties /\ [Next]_vars => AbstractStep
<1> SUFFICES ASSUME IInv, WritesOwnParties, [Next]_vars PROVE AbstractStep
  OBVIOUS
<1> USE DEF loop, store
<1>0. TypeOK
  BY DEF IInv
<1>1. ASSUME NEW r \in Request, Receive(r) \/ EarlyError(r) \/ CheckBalance(r) \/ PoolTimeout(r)
      PROVE  AbstractStep
  <2>1. /\ pc[r] \in Unanswered \ {"sent"} /\ sig' = sig /\ row' = row /\ ledger' = ledger
        /\ Goto(r, "failed") \/ \E label \in {"connect", "check"} : Goto(r, label)
    BY <1>1 DEF Receive, EarlyError, CheckBalance, PoolTimeout, Unanswered, Before
  <2> QED
    BY <1>0, <2>1, StepRefuses, StepHides DEF Unanswered, Before
<1>2. ASSUME NEW r \in Request,
             \/ Connect(r) \/ StartTransaction(r) \/ CreateTransactionRecord(r) \/ AttemptFails(r)
             \/ UpdateTransactionWithBlockchainResult(r) \/ ReadFromBalance(r) \/ SaveFromBalance(r)
             \/ ReadToBalance(r) \/ SaveToBalance(r) \/ RejectedByDatabase(r) \/ StatementFails(r)
      PROVE  AbstractStep
  <2>1. /\ pc[r] \in Unanswered \ {"sent"} /\ sig' = sig /\ row' = row /\ ledger' = ledger
        /\ \E label \in Unanswered \ {"sent"} : Goto(r, label)
    BY <1>2 DEF Connect, StartTransaction, CreateTransactionRecord, AttemptFails, NextAttempt,
       UpdateTransactionWithBlockchainResult, ReadFromBalance, SaveFromBalance, ReadToBalance,
       SaveToBalance, RejectedByDatabase, StatementFails, Unanswered, Before, InTransaction
  <2> QED
    BY <1>0, <2>1, StepHides
<1>3. ASSUME NEW r \in Request, AbortDeadlock(r) PROVE AbstractStep
  <2>1. /\ pc[r] \in Unanswered \ {"sent"} /\ sig' = sig /\ row' = row /\ ledger' = ledger
        /\ Goto(r, "rollback")
    BY <1>3, AbortedWhileSaving DEF AbortDeadlock, Unanswered, InTransaction
  <2> QED
    BY <1>0, <2>1, StepHides DEF Unanswered, InTransaction
<1>4. ASSUME NEW r \in Request, Rollback(r) PROVE AbstractStep
  <2>1. /\ pc[r] \in Unanswered \ {"sent"} /\ sig' = sig /\ row' = row /\ ledger' = ledger
        /\ Goto(r, "failed")
    BY <1>4 DEF Rollback, Unanswered, InTransaction
  <2> QED
    BY <1>0, <2>1, StepRefuses
<1>5. ASSUME NEW r \in Request, NEW n \in Attempt, Land(r, n) \/ Drop(r, n) PROVE AbstractStep
  BY <1>5, ViewStutters DEF Land, Drop, Answers, Transfers, Records
<1>6. CASE UNCHANGED vars
  BY <1>6, ViewStutters DEF vars, Answers, Transfers, Records
<1> QED
  BY <1>1, <1>2, <1>3, <1>4, <1>5, <1>6, BroadcastShows, SignatureShows, AnswerLostShows,
     CommitShows, StatusShows, CrashShows DEF Next, Progress, Failure

LEMMA InitRefines == Init => Atomic!TransferInit
  BY DEF Init, Atomic!TransferInit, AnswerOf, TransferOf, NoRow

\* TransactionService.createTransaction, with its retries, its lock waits, its lost
\* answers and its crashes, implements the short machine of AtomicTransfer: record
\* and balances appear in one step, after a known signature, and touch two parties.
THEOREM TransferRefinement == Spec => ImplementsAtomicTransfer
<1>1. Init => IInv /\ WritesOwnParties
  BY InitIInv, WritesInit
<1>2. IInv /\ WritesOwnParties /\ [Next]_vars => IInv' /\ WritesOwnParties'
  BY NextIInv, WritesStep DEF IInv
<1>3. IInv /\ WritesOwnParties /\ [Next]_vars => [Atomic!TransferNext]_Atomic!transferVars
  BY StepRefines DEF AbstractStep
<1> QED
  BY <1>1, <1>2, <1>3, InitRefines, PTL DEF Spec, ImplementsAtomicTransfer, Atomic!TransferSpec
=============================================================================
