-------------------------- MODULE WalletLedgerProofs --------------------------
(***************************************************************************)
(* WalletLedger's type invariant, and what its rows and its cached reads    *)
(* can hold, for any number of calls, any chain of balances and any amounts. *)
(***************************************************************************)
EXTENDS WalletLedger, TLAPS

Label == Idle \cup {"wallet", "rpc", "load", "save", "record",
                    "fallback", "database", "invalidate"}

\* The part of the type invariant that speaks of the calls, and what addBalance's
\* guard leaves behind: the amount of a credit that runs is positive.
CallsOK ==
    /\ at \in [Call -> Label]
    /\ asked \in [Call -> Credit \cup {0}]
    /\ adding \subseteq {c \in Call : Kind[c] = "credit"}
    /\ \A c \in Call : Kind[c] = "credit" /\ (at[c] \notin Idle \/ c \in adding) => asked[c] > 0
    /\ height \in Nat /\ seen \in [Call -> 0 .. height]
    /\ found \subseteq Call

AnswersOK ==
    /\ shown \in [Call -> Nat \cup {NoRow, Empty}]
    /\ cache \in [CacheKey -> Nat \cup {NoRow, Empty}]

WorldOK ==
    /\ row \in Nat \cup {NoRow}
    /\ height \in 1 .. Len(Held)
    /\ active \in BOOLEAN
    /\ failures \in 0 .. MaxFailures
    /\ refused \in BOOLEAN

TypeInv == CallsOK /\ AnswersOK /\ WorldOK

-----------------------------------------------------------------------------
(* Values. *)

LEMMA ShiftInNat ==
    ASSUME NEW n \in Nat, n < Billion PROVE Shift(n) \in Nat
  BY DEF Shift, PowersOfTen, Billion

LEMMA JoinedInNat ==
    ASSUME NEW b \in Nat, NEW a \in Nat, a \div Scale < Billion PROVE Joined(b, a) \in Nat
<1>1. Scale \in Nat /\ Scale > 0
  BY AmountAssumption
<1>2. a \div Scale \in Nat /\ b \div Scale \in Nat
  BY <1>1
<1>3. Shift(a \div Scale) \in Nat
  BY <1>2, ShiftInNat
<1>4. ASSUME NEW x \in Nat, NEW y \in Nat PROVE x * y \in Nat
  OBVIOUS
<1>5. (b \div Scale) * Shift(a \div Scale) \in Nat
  BY <1>2, <1>3, <1>4
<1>6. (b \div Scale) * Shift(a \div Scale) * Scale \in Nat
  BY <1>1, <1>5, <1>4
<1> QED
  BY <1>6 DEF Joined

LEMMA UiAmountInNat ==
    ASSUME NEW n \in 0 .. Len(Held)
    PROVE UiAmount(n) \in Nat /\ RawAmount(n) \in Nat
<1>1. UiAmount(n) \in Nat
  BY HeldAssumption DEF UiAmount
<1>2. ASSUME NEW x \in Nat, NEW y \in Nat PROVE x * y \in Nat
  OBVIOUS
<1> QED
  BY <1>1, <1>2, AmountAssumption DEF RawAmount

\* What a call saves is a balance.
LEMMA ValueInNat ==
    ASSUME CallsOK, WorldOK, NEW c \in Call PROVE Value(c) \in Nat
<1>1. seen[c] \in 0 .. Len(Held)
  BY HeldAssumption DEF CallsOK, WorldOK
<1>2. UiAmount(seen[c]) \in Nat /\ RawAmount(seen[c]) \in Nat
  BY <1>1, UiAmountInNat
<1>3. c \in adding => Joined(UiAmount(seen[c]), asked[c]) \in Nat
  <2> HAVE c \in adding
  <2>1. asked[c] \in Credit
    BY DEF CallsOK
  <2>2. asked[c] \in Nat /\ asked[c] \div Scale < Billion
    BY <2>1, AmountAssumption
  <2> QED
    BY <1>2, <2>2, JoinedInNat
<1> QED
  BY <1>2, <1>3 DEF Value

-----------------------------------------------------------------------------
(* The operators the actions are made of. *)

LEMMA ReturnOK ==
    ASSUME CallsOK, NEW c \in Call, NEW label \in Idle, Return(c, label), UNCHANGED height
    PROVE  CallsOK'
  BY DEF CallsOK, Return, Idle, Label

LEMMA GotoOK ==
    ASSUME CallsOK, NEW c \in Call, at[c] \notin Idle, NEW label \in Label, Goto(c, label),
           UNCHANGED height
    PROVE  CallsOK'
  BY DEF CallsOK, Goto, call, Label

LEMMA ThrowOK ==
    ASSUME CallsOK, NEW c \in Call, at[c] \notin Idle, Throw(c), UNCHANGED height
    PROVE  CallsOK'
<1>1. CASE c \in adding \/ Kind[c] = "refresh" \/ at[c] \in {"fallback", "database"}
  BY <1>1, ReturnOK DEF Throw, Idle
<1>2. CASE ~(c \in adding \/ Kind[c] = "refresh" \/ at[c] \in {"fallback", "database"})
  <2> DEFINE next == IF at[c] = "wallet" /\ Kind[c] \in Listing THEN "database" ELSE "fallback"
  <2>1. next \in Label
    BY DEF Label
  <2>2. Goto(c, next)
    BY <1>2 DEF Throw
  <2> HIDE DEF next
  <2> QED
    BY <2>1, <2>2, GotoOK
<1> QED
  BY <1>1, <1>2

LEMMA AnswerOK ==
    ASSUME CallsOK, AnswersOK, NEW c \in Call, NEW v \in Nat \cup {NoRow}, Answer(c, v),
           UNCHANGED height
    PROVE  CallsOK' /\ AnswersOK'
<1>1. CallsOK'
  BY ReturnOK DEF Answer, Idle
<1>2. AnswersOK'
  BY DEF AnswersOK, Answer
<1> QED
  BY <1>1, <1>2

LEMMA GetBalanceReturnsOK ==
    ASSUME CallsOK, AnswersOK, NEW c \in Call, at[c] \notin Idle, NEW v \in Nat \cup {NoRow},
           GetBalanceReturns(c, v), UNCHANGED height
    PROVE  CallsOK' /\ AnswersOK'
<1>1. CASE Kind[c] = "credit"
  BY <1>1 DEF GetBalanceReturns, CallsOK, AnswersOK, Idle, Label
<1>2. CASE Kind[c] # "credit"
  BY <1>2, AnswerOK DEF GetBalanceReturns
<1> QED
  BY <1>1, <1>2

-----------------------------------------------------------------------------
(* Every action preserves the type invariant. *)

LEMMA InvokeOK ==
    ASSUME TypeInv, NEW c \in Call, NEW amount \in Nat,
           amount \in Credit \/ (Kind[c] # "credit" /\ amount = 0), Invoke(c, amount)
    PROVE  TypeInv'
<1> USE DEF TypeInv
<1>1. WorldOK' /\ UNCHANGED height
  BY DEF Invoke, WorldOK, world
<1>2. CASE Kind[c] \in CacheKey /\ cache[Kind[c]] # Empty
  <2>1. CallsOK'
    BY <1>1, <1>2, ReturnOK DEF Invoke, Idle
  <2>2. AnswersOK'
    BY <1>2 DEF Invoke, AnswersOK
  <2> QED
    BY <1>1, <2>1, <2>2
<1>3. CASE ~(Kind[c] \in CacheKey /\ cache[Kind[c]] # Empty) /\ Kind[c] = "credit" /\ amount <= 0
  <2>1. CallsOK'
    BY <1>1, <1>3, ReturnOK DEF Invoke, Idle
  <2>2. AnswersOK'
    BY <1>3 DEF Invoke, AnswersOK
  <2> QED
    BY <1>1, <2>1, <2>2
<1>4. CASE ~(Kind[c] \in CacheKey /\ cache[Kind[c]] # Empty) /\ ~(Kind[c] = "credit" /\ amount <= 0)
  <2>1. CallsOK'
    BY <1>1, <1>4 DEF Invoke, CallsOK, Label
  <2>2. AnswersOK'
    BY <1>4 DEF Invoke, AnswersOK
  <2> QED
    BY <1>1, <2>1, <2>2
<1> QED
  BY <1>2, <1>3, <1>4

LEMMA ProceedOK ==
    ASSUME TypeInv, NEW c \in Call, Proceed(c)
    PROVE  TypeInv'
<1> USE DEF TypeInv
<1>1. CASE LookUpWallet(c)
  <2>1. WorldOK' /\ AnswersOK' /\ UNCHANGED height
    BY <1>1 DEF LookUpWallet, WorldOK, AnswersOK, world
  <2>2. CallsOK'
    BY <1>1, <2>1, GotoOK, ThrowOK DEF LookUpWallet, Label, Idle
  <2> QED
    BY <2>1, <2>2
<1>2. CASE GetTokenBalance(c)
  BY <1>2, HeldAssumption DEF GetTokenBalance, WorldOK, AnswersOK, CallsOK, world, Label, Idle
<1>3. CASE LoadRow(c)
  BY <1>3 DEF LoadRow, WorldOK, AnswersOK, CallsOK, world, Label, Idle
<1>4. CASE SaveRow(c)
  <2>1. WorldOK' /\ AnswersOK' /\ UNCHANGED height
    BY <1>4, ValueInNat DEF SaveRow, WorldOK, AnswersOK, world
  <2>2. CallsOK'
    BY <1>4, <2>1, GotoOK, ThrowOK DEF SaveRow, Label, Idle
  <2> QED
    BY <2>1, <2>2
<1>5. CASE RecordBalanceChange(c)
  <2>1. WorldOK' /\ UNCHANGED height
    BY <1>5 DEF RecordBalanceChange, WorldOK, world
  <2>2. CASE c \in adding
    BY <1>5, <2>1, <2>2, ReturnOK DEF RecordBalanceChange, UpdateBalanceReturns, AnswersOK, Idle
  <2>3. CASE c \notin adding
    BY <1>5, <2>1, <2>3, ValueInNat, GetBalanceReturnsOK
       DEF RecordBalanceChange, UpdateBalanceReturns, Idle
  <2> QED
    BY <2>2, <2>3
<1>6. CASE GetBalanceFromDatabase(c)
  <2>1. WorldOK' /\ UNCHANGED height
    BY <1>6 DEF GetBalanceFromDatabase, WorldOK, world
  <2> QED
    BY <1>6, <2>1, GetBalanceReturnsOK DEF GetBalanceFromDatabase, Idle
<1>7. CASE GetAllBalancesFromDatabase(c)
  <2>1. WorldOK' /\ UNCHANGED height
    BY <1>7 DEF GetAllBalancesFromDatabase, WorldOK, world
  <2> QED
    BY <1>7, <2>1, AnswerOK DEF GetAllBalancesFromDatabase, WorldOK
<1>8. CASE InvalidateWalletCache(c)
  <2>1. WorldOK' /\ AnswersOK' /\ UNCHANGED height
    BY <1>8 DEF InvalidateWalletCache, WorldOK, AnswersOK, world
  <2> QED
    BY <1>8, <2>1, ReturnOK DEF InvalidateWalletCache, Idle
<1>9. CASE AwaitFails(c)
  <2>1. WorldOK' /\ UNCHANGED height
    BY <1>9, BoundAssumption DEF AwaitFails, WorldOK
  <2>2. CASE at[c] = "fallback" /\ Kind[c] \in Listing
    BY <1>9, <2>1, <2>2, AnswerOK DEF AwaitFails
  <2>3. CASE ~(at[c] = "fallback" /\ Kind[c] \in Listing)
    BY <1>9, <2>1, <2>3, ThrowOK DEF AwaitFails, AnswersOK
  <2> QED
    BY <2>2, <2>3
<1> QED
  BY <1>1, <1>2, <1>3, <1>4, <1>5, <1>6, <1>7, <1>8, <1>9 DEF Proceed, FallBack

LEMMA TypeInvStep ==
    ASSUME TypeInv, [LedgerNext]_ledgerVars PROVE TypeInv'
<1>1. ASSUME NEW c \in Call, NEW amount \in (IF Kind[c] = "credit" THEN Credit ELSE {0}),
             Invoke(c, amount)
      PROVE  TypeInv'
  BY <1>1, AmountAssumption, InvokeOK
<1>2. ASSUME NEW c \in Call, Proceed(c) PROVE TypeInv'
  BY <1>2, ProceedOK
<1>3. CASE Crash
  BY <1>3, BoundAssumption
     DEF Crash, TypeInv, CallsOK, AnswersOK, WorldOK, Label, Idle, CacheKey, Empty, NoRow
<1>4. CASE Surroundings
  <2>1. CASE Remove
    BY <2>1 DEF Remove, TypeInv, CallsOK, AnswersOK, WorldOK, call
  <2>2. CASE ChainMoves
    BY <2>2, HeldAssumption DEF ChainMoves, TypeInv, CallsOK, AnswersOK, WorldOK, call
  <2>3. ASSUME NEW k \in CacheKey, Expire(k) PROVE TypeInv'
    BY <2>3 DEF Expire, TypeInv, CallsOK, AnswersOK, WorldOK, call, world
  <2> QED
    BY <1>4, <2>1, <2>2, <2>3 DEF Surroundings
<1>5. CASE UNCHANGED ledgerVars
  BY <1>5 DEF ledgerVars, TypeInv, CallsOK, AnswersOK, WorldOK
<1> QED
  BY <1>1, <1>2, <1>3, <1>4, <1>5 DEF LedgerNext

LEMMA TypeInvInit == LedgerInit => TypeInv
<1> SUFFICES ASSUME LedgerInit PROVE TypeInv
  OBVIOUS
<1>1. CallsOK
  BY DEF LedgerInit, CallsOK, Label, Idle
<1>2. AnswersOK
  BY DEF LedgerInit, AnswersOK
<1>3. height \in 1 .. Len(Held)
  BY HeldAssumption DEF LedgerInit
<1>4. WorldOK
  <2>1. row \in Nat \cup {NoRow}
    BY AmountAssumption DEF LedgerInit
  <2>2. failures \in 0 .. MaxFailures
    BY BoundAssumption DEF LedgerInit
  <2> QED
    BY <1>3, <2>1, <2>2 DEF LedgerInit, WorldOK
<1> QED
  BY <1>1, <1>2, <1>4 DEF TypeInv

LEMMA TypeInvSuffices == TypeInv => LedgerTypeOK
  BY DEF TypeInv, CallsOK, AnswersOK, WorldOK, LedgerTypeOK, Label

LEMMA TypeInvHolds == LedgerSpec => []TypeInv
  BY TypeInvInit, TypeInvStep, PTL DEF LedgerSpec

\* The ledger's variables keep their types: what a call saves is always a balance, and
\* addBalance never runs with an amount that its guard refuses.
THEOREM LedgerTypeCorrect == LedgerSpec => []LedgerTypeOK
  BY TypeInvHolds, TypeInvSuffices, PTL

-----------------------------------------------------------------------------
(* Where the balances come from. *)

Base == HeldSoFar \cup {0}

LEMMA SeenInBase ==
    ASSUME TypeInv, NEW c \in Call PROVE UiAmount(seen[c]) \in Base
  BY DEF TypeInv, CallsOK, UiAmount, Base, HeldSoFar

LEMMA BaseGrows ==
    ASSUME TypeInv, [LedgerNext]_ledgerVars PROVE Base \subseteq Base'
<1>1. height' >= height
  BY HeldAssumption
     DEF TypeInv, CallsOK, LedgerNext, ledgerVars, Invoke, Proceed, LookUpWallet,
         GetTokenBalance, LoadRow, SaveRow, RecordBalanceChange, GetBalanceFromDatabase,
         GetAllBalancesFromDatabase, FallBack, InvalidateWalletCache, AwaitFails, Crash,
         Surroundings, Remove, ChainMoves, Expire, world
<1>2. height \in Nat /\ height' \in Nat
  BY TypeInvStep DEF TypeInv, CallsOK
<1>3. 1 .. height \subseteq 1 .. height'
  BY <1>1, <1>2
<1> QED
  BY <1>3 DEF Base, HeldSoFar

\* Something has gone wrong, which getBalance answers with 0; and what a client that
\* asks for one balance may see.
FellBack == failures > 0 \/ refused \/ ~active
Showable == HeldSoFar \cup {Empty} \cup (IF FellBack THEN {0} ELSE {})

\* Until addBalance goes on to its own updateBalance, a call that has been to the chain
\* has a balance from it; and a call falls back only when something has gone wrong.
ReadsOK ==
    \A c \in Call :
        /\ at[c] \in {"load", "save", "record"} /\ c \notin adding => seen[c] > 0
        /\ at[c] = "fallback" => FellBack

ShowsInv ==
    /\ ReadsOK
    /\ \A c \in Call : Kind[c] = "read" => shown[c] \in Showable
    /\ cache["read"] \in Showable

LEMMA FellBackStays ==
    ASSUME TypeInv, [LedgerNext]_ledgerVars PROVE FellBack => FellBack'
  BY BoundAssumption
     DEF FellBack, TypeInv, WorldOK, LedgerNext, ledgerVars, Invoke, Proceed, LookUpWallet,
         GetTokenBalance, LoadRow, SaveRow, RecordBalanceChange, GetBalanceFromDatabase,
         GetAllBalancesFromDatabase, FallBack, InvalidateWalletCache, AwaitFails, Crash,
         Surroundings, Remove, ChainMoves, Expire, world

LEMMA ShowableGrows ==
    ASSUME TypeInv, [LedgerNext]_ledgerVars PROVE Showable \subseteq Showable'
<1>1. height' >= height
  BY HeldAssumption
     DEF TypeInv, CallsOK, LedgerNext, ledgerVars, Invoke, Proceed, LookUpWallet,
         GetTokenBalance, LoadRow, SaveRow, RecordBalanceChange, GetBalanceFromDatabase,
         GetAllBalancesFromDatabase, FallBack, InvalidateWalletCache, AwaitFails, Crash,
         Surroundings, Remove, ChainMoves, Expire, world
<1>2. height \in Nat /\ height' \in Nat
  BY TypeInvStep DEF TypeInv, CallsOK
<1>3. 1 .. height \subseteq 1 .. height'
  BY <1>1, <1>2
<1>4. HeldSoFar \subseteq HeldSoFar'
  BY <1>3 DEF HeldSoFar
<1> QED
  BY <1>4, FellBackStays DEF Showable

\* A call throws only when something has gone wrong.
LEMMA ThrowKeepsReads ==
    ASSUME CallsOK, ReadsOK, NEW c \in Call, Throw(c), FellBack', FellBack => FellBack'
    PROVE  ReadsOK'
<1>1. CASE Return(c, "failed")
  BY <1>1 DEF Return, ReadsOK, CallsOK
<1>2. ASSUME NEW label \in {"fallback", "database"}, Goto(c, label)
      PROVE  ReadsOK'
  BY <1>2 DEF Goto, call, ReadsOK, CallsOK
<1> QED
  BY <1>1, <1>2 DEF Throw

LEMMA ReturnKeepsReads ==
    ASSUME CallsOK, ReadsOK, NEW c \in Call, NEW label \in Idle, Return(c, label),
           FellBack => FellBack'
    PROVE  ReadsOK'
  BY DEF Return, ReadsOK, CallsOK, Idle

LEMMA GotoKeepsReads ==
    ASSUME CallsOK, ReadsOK, NEW c \in Call, NEW label \in {"rpc", "record", "invalidate"}, Goto(c, label),
           label = "record" => at[c] = "save", FellBack => FellBack'
    PROVE  ReadsOK'
  BY DEF Goto, call, ReadsOK, CallsOK

LEMMA GetBalanceReturnsKeepsReads ==
    ASSUME CallsOK, ReadsOK, NEW c \in Call, NEW v, GetBalanceReturns(c, v), FellBack => FellBack'
    PROVE  ReadsOK'
<1>1. CASE Kind[c] = "credit"
  BY <1>1 DEF GetBalanceReturns, ReadsOK, CallsOK
<1>2. CASE Kind[c] # "credit"
  BY <1>2, ReturnKeepsReads DEF GetBalanceReturns, Answer, Idle
<1> QED
  BY <1>1, <1>2

LEMMA ReadsOKStep ==
    ASSUME TypeInv, ReadsOK, [LedgerNext]_ledgerVars PROVE ReadsOK'
<1> USE DEF TypeInv
<1>f. FellBack => FellBack'
  BY FellBackStays
<1>1. ASSUME NEW c \in Call, NEW amount, Invoke(c, amount) PROVE ReadsOK'
  <2>1. CASE \E label \in Idle : Return(c, label)
    BY <1>f, <2>1, ReturnKeepsReads
  <2>2. CASE at' = [at EXCEPT ![c] = "wallet"] /\ UNCHANGED <<adding, seen>>
    BY <1>f, <2>2 DEF ReadsOK, CallsOK
  <2> QED
    BY <1>1, <2>1, <2>2 DEF Invoke, Idle
<1>2. ASSUME NEW c \in Call, LookUpWallet(c) PROVE ReadsOK'
  <2>1. CASE active
    BY <1>2, <1>f, <2>1, GotoKeepsReads DEF LookUpWallet
  <2>2. CASE ~active
    BY <1>2, <1>f, <2>2, ThrowKeepsReads DEF LookUpWallet, FellBack
  <2> QED
    BY <2>1, <2>2
<1>3. ASSUME NEW c \in Call, GetTokenBalance(c) PROVE ReadsOK'
  BY <1>3, <1>f DEF GetTokenBalance, ReadsOK, CallsOK, WorldOK
<1>4. ASSUME NEW c \in Call, LoadRow(c) PROVE ReadsOK'
  BY <1>4, <1>f DEF LoadRow, ReadsOK, CallsOK
<1>5. ASSUME NEW c \in Call, SaveRow(c) PROVE ReadsOK'
  <2>1. CASE Throw(c) /\ refused' = TRUE
    BY <1>f, <2>1, ThrowKeepsReads DEF FellBack
  <2>2. CASE Goto(c, IF Kind[c] = "refresh" THEN "invalidate" ELSE "record")
    BY <1>5, <1>f, <2>2, GotoKeepsReads DEF SaveRow
  <2> QED
    BY <1>5, <2>1, <2>2 DEF SaveRow
<1>6. ASSUME NEW c \in Call, RecordBalanceChange(c) PROVE ReadsOK'
  BY <1>6, <1>f, ReturnKeepsReads, GetBalanceReturnsKeepsReads
     DEF RecordBalanceChange, UpdateBalanceReturns, Idle
<1>7. ASSUME NEW c \in Call, FallBack(c) PROVE ReadsOK'
  BY <1>7, <1>f, ReturnKeepsReads, GetBalanceReturnsKeepsReads
     DEF FallBack, GetBalanceFromDatabase, GetAllBalancesFromDatabase, Answer, Idle
<1>8. ASSUME NEW c \in Call, InvalidateWalletCache(c) PROVE ReadsOK'
  BY <1>8, <1>f, ReturnKeepsReads DEF InvalidateWalletCache, Idle
<1>9. ASSUME NEW c \in Call, AwaitFails(c) PROVE ReadsOK'
  <2>1. FellBack'
    BY <1>9, BoundAssumption DEF AwaitFails, FellBack, WorldOK
  <2> QED
    BY <1>9, <2>1, ThrowKeepsReads, ReturnKeepsReads DEF AwaitFails, Answer, Idle
<1>10. CASE Crash
  BY <1>10 DEF Crash, ReadsOK
<1>11. CASE Surroundings
  BY <1>11, <1>f DEF Surroundings, Remove, ChainMoves, Expire, call, ReadsOK
<1>12. CASE UNCHANGED ledgerVars
  BY <1>12, <1>f DEF ledgerVars, ReadsOK
<1> QED
  BY <1>1, <1>2, <1>3, <1>4, <1>5, <1>6, <1>7, <1>8, <1>9, <1>10, <1>11, <1>12
     DEF LedgerNext, Proceed

LEMMA ShowsInvStep ==
    ASSUME TypeInv, ShowsInv, [LedgerNext]_ledgerVars PROVE ShowsInv'
<1> USE DEF TypeInv, ShowsInv
<1>0. ReadsOK'
  BY ReadsOKStep
<1>1. Showable \subseteq Showable' /\ Empty \in Showable /\ (FellBack => 0 \in Showable)
  BY ShowableGrows DEF Showable
<1>2. CASE UNCHANGED <<shown, cache>>
  BY <1>0, <1>1, <1>2
<1>3. ASSUME NEW c \in Call, NEW v, Kind[c] = "read" => v \in Showable, Answer(c, v)
      PROVE  ShowsInv'
  BY <1>0, <1>1, <1>3 DEF Answer, AnswersOK, CacheKey
<1>4. ASSUME NEW c \in Call, NEW v, Kind[c] = "read" => v \in Showable, GetBalanceReturns(c, v)
      PROVE  ShowsInv'
  BY <1>2, <1>3, <1>4 DEF GetBalanceReturns
<1>5. ASSUME NEW c \in Call, NEW amount, Invoke(c, amount) PROVE ShowsInv'
  BY <1>0, <1>1, <1>5 DEF Invoke, AnswersOK, CacheKey
<1>6. ASSUME NEW c \in Call, RecordBalanceChange(c) PROVE ShowsInv'
  <2>1. CASE c \in adding
    BY <1>2, <1>6, <2>1 DEF RecordBalanceChange, UpdateBalanceReturns
  <2>2. CASE c \notin adding
    <3>1. seen[c] \in 1 .. height
      BY <1>6, <2>2 DEF RecordBalanceChange, ReadsOK, CallsOK
    <3>2. Kind[c] = "read" => Value(c) \in Showable
      BY <2>2, <3>1 DEF Value, UiAmount, HeldSoFar, Showable
    <3> QED
      BY <1>4, <1>6, <2>2, <3>2 DEF RecordBalanceChange, UpdateBalanceReturns
  <2> QED
    BY <2>1, <2>2
<1>7. ASSUME NEW c \in Call, GetBalanceFromDatabase(c) PROVE ShowsInv'
  BY <1>1, <1>4, <1>7 DEF GetBalanceFromDatabase, ReadsOK
<1>8. ASSUME NEW c \in Call, GetAllBalancesFromDatabase(c) PROVE ShowsInv'
  BY <1>3, <1>8 DEF GetAllBalancesFromDatabase, Listing
<1>9. ASSUME NEW c \in Call, AwaitFails(c) PROVE ShowsInv'
  BY <1>2, <1>3, <1>9 DEF AwaitFails, Listing
<1>10. ASSUME NEW c \in Call, InvalidateWalletCache(c) PROVE ShowsInv'
  BY <1>0, <1>1, <1>10 DEF InvalidateWalletCache, CacheKey
<1>11. CASE Crash
  BY <1>0, <1>1, <1>11 DEF Crash, CacheKey
<1>12. CASE Surroundings
  BY <1>0, <1>1, <1>12 DEF Surroundings, Remove, ChainMoves, Expire, AnswersOK, CacheKey
<1> QED
  BY <1>2, <1>5, <1>6, <1>7, <1>8, <1>9, <1>10, <1>11, <1>12
     DEF LedgerNext, Proceed, FallBack, LookUpWallet, GetTokenBalance, LoadRow, SaveRow, ledgerVars

\* A client that asks for one balance, or is answered from the cache, sees what the
\* chain has held; or 0, once a query or RPC call has failed, a balance was refused or
\* the wallet was removed.
THEOREM ReadsAreOfTheChain == LedgerSpec => []ReadShowsHeldBalance
<1>1. LedgerInit => ShowsInv
  BY DEF LedgerInit, ShowsInv, ReadsOK, Showable, CacheKey
<1>2. TypeInv /\ ShowsInv /\ [LedgerNext]_ledgerVars => ShowsInv'
  BY ShowsInvStep
<1>3. ShowsInv => ReadShowsHeldBalance
  BY DEF ShowsInv, Showable, FellBack, ReadShowsHeldBalance
<1> QED
  BY TypeInvHolds, <1>1, <1>2, <1>3, PTL DEF LedgerSpec

-----------------------------------------------------------------------------
(* What the row can hold. *)

LEMMA ValueIsOneCreditAway ==
    ASSUME TypeInv, NEW c \in Call
    PROVE  Value(c) \in Base \cup {b * Scale : b \in Base}
                             \cup {Joined(b, a) : b \in Base, a \in Credit}
<1>1. UiAmount(seen[c]) \in Base
  BY SeenInBase
<1>2. c \in adding => asked[c] \in Credit
  BY DEF TypeInv, CallsOK
<1> QED
  BY <1>1, <1>2 DEF Value, RawAmount

\* However many credits run at once and however often one is repeated, the row is at
\* most one credit away from a balance the chain has held.
THEOREM OneCreditAtMost == LedgerSpec => []CreditsDoNotCompound
<1>1. LedgerInit => CreditsDoNotCompound
  BY DEF LedgerInit, CreditsDoNotCompound
<1>2. TypeInv /\ CreditsDoNotCompound /\ [LedgerNext]_ledgerVars => CreditsDoNotCompound'
  <2> SUFFICES ASSUME TypeInv, CreditsDoNotCompound, [LedgerNext]_ledgerVars
               PROVE  CreditsDoNotCompound'
    OBVIOUS
  <2>1. Base \subseteq Base'
    BY BaseGrows
  <2>2. CASE UNCHANGED row
    BY <2>1, <2>2 DEF CreditsDoNotCompound, Base
  <2>3. ASSUME NEW c \in Call, SaveRow(c) PROVE CreditsDoNotCompound'
    <3>1. CASE row' = Value(c)
      BY <2>1, <3>1, ValueIsOneCreditAway DEF CreditsDoNotCompound, Base
    <3> QED
      BY <2>2, <2>3, <3>1 DEF SaveRow
  <2> QED
    BY <2>2, <2>3
       DEF LedgerNext, ledgerVars, Invoke, Proceed, LookUpWallet, GetTokenBalance, LoadRow,
           RecordBalanceChange, GetBalanceFromDatabase, GetAllBalancesFromDatabase, FallBack,
           InvalidateWalletCache, AwaitFails, Crash, Surroundings, Remove, ChainMoves, Expire
<1> QED
  BY TypeInvHolds, <1>1, <1>2, PTL DEF LedgerSpec
=============================================================================
