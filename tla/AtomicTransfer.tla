--------------------------- MODULE AtomicTransfer ---------------------------
(***************************************************************************)
(* What POST /transactions amounts to for those who cannot look inside it: *)
(* a transfer is given to Solana, again only after its answer was lost;    *)
(* once its signature is known, one step makes the record visible together *)
(* with the balances of the two parties; before that step the request may  *)
(* be refused or die without a trace in the database, and the answer is    *)
(* given with that step, or is an error although it happened.              *)
(***************************************************************************)
EXTENDS Integers

CONSTANTS
    Call,       \* the requests
    Account,    \* the balance rows
    Parties,    \* the accounts a request may change
    Start,      \* the balances at first
    Status      \* what a record's status may be changed to

VARIABLES
    answer,     \* "none", "confirmed", "failed" or "crashed"
    transfer,   \* "none", "sent" (given to the chain, no answer yet) or "known"
    record,     \* the status of the visible record, or "none"
    balance

transferVars == <<answer, transfer, record, balance>>

TransferInit ==
    /\ answer = [c \in Call |-> "none"]
    /\ transfer = [c \in Call |-> "none"]
    /\ record = [c \in Call |-> "none"]
    /\ balance = Start

Send(c) ==
    /\ answer[c] = "none" /\ transfer[c] = "none"
    /\ transfer' = [transfer EXCEPT ![c] = "sent"]
    /\ UNCHANGED <<answer, record, balance>>

LearnOrLose(c) ==
    /\ answer[c] = "none" /\ transfer[c] = "sent"
    /\ transfer' \in {[transfer EXCEPT ![c] = "known"], [transfer EXCEPT ![c] = "none"]}
    /\ UNCHANGED <<answer, record, balance>>

\* The one step that shows: record, balances and the end of the request.
Complete(c) ==
    /\ answer[c] = "none" /\ transfer[c] = "known" /\ record[c] = "none"
    /\ answer' \in {[answer EXCEPT ![c] = "confirmed"], [answer EXCEPT ![c] = "failed"]}
    /\ record' = [record EXCEPT ![c] = "confirmed"]
    /\ DOMAIN balance' = Account
    /\ \A u \in Account \ Parties[c] : balance'[u] = balance[u]
    /\ UNCHANGED transfer

Refuse(c) ==
    /\ answer[c] = "none" /\ transfer[c] # "sent"
    /\ answer' = [answer EXCEPT ![c] = "failed"]
    /\ UNCHANGED <<transfer, record, balance>>

\* Someone changes the status of a visible record.
Restate(c) ==
    /\ record[c] # "none"
    /\ \E status \in Status : record' = [record EXCEPT ![c] = status]
    /\ UNCHANGED <<answer, transfer, balance>>

\* Requests die with their process.  What they had sent may still execute.
Die(S) ==
    /\ \A c \in S : answer[c] = "none"
    /\ answer' = [c \in Call |-> IF c \in S THEN "crashed" ELSE answer[c]]
    /\ transfer' = [c \in Call |->
                       IF c \in S /\ transfer[c] = "sent" THEN "none" ELSE transfer[c]]
    /\ UNCHANGED <<record, balance>>

TransferNext ==
    \/ \E c \in Call : Send(c) \/ LearnOrLose(c) \/ Complete(c) \/ Refuse(c) \/ Restate(c)
    \/ \E S \in SUBSET Call : Die(S)

TransferSpec == TransferInit /\ [][TransferNext]_transferVars
=============================================================================
