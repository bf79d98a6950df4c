--------------------------- MODULE AccountsProofs ---------------------------
(***************************************************************************)
(* The verification and the rewards of a user, and then all the parts of   *)
(* Accounts together, for any number of requests, payers, reviews and      *)
(* crashes.                                                                *)
(*                                                                         *)
(* Verification: that nobody is verified without a cause must hold of      *)
(* every copy of the row too, because a save writes back what it loaded;   *)
(* and of what a request is about to do, because the reason for it was     *)
(* looked at an await before.  POST and PATCH /user need no reason, so     *)
(* what they have set is kept beside the causes.                           *)
(*                                                                         *)
(* Rewards: a second reward, or a second payment, is excluded only while   *)
(* nothing overlapped, so the invariant says what one request or payer     *)
(* alone can rely on: that nobody else is looking, that the rewards it     *)
(* has loaded and not yet come to are unpaid, and that what has been paid  *)
(* is completed or about to be.  A payer may bring back a reward that the  *)
(* cleanup has deleted, so what it holds need only have existed.           *)
(*                                                                         *)
(* The parts share no variable, so every behaviour of Accounts is one of   *)
(* each part, and what is proved of the parts holds of Accounts.           *)
(***************************************************************************)
EXTENDS Accounts, SessionProofs, WalletCacheProofs, RateLimiterProofs, TLAPS

-----------------------------------------------------------------------------
(* Verification. *)

\* What can make a user verified: a profile complete at some time, for the profile
\* service or for KYC, or a review that was green or finished.
Reviewed == \E s \in issued : IsVerified(s)
CompleteFor(x) == x \in completed \/ Reviewed

\* What holds of the row, and of every copy of it: each is a state the row was in.
RowOK(x) ==
    /\ x.kyc = "VERIFIED" => CompleteFor("kyc")
    /\ x.verification = "VERIFIED" => CompleteFor("profile") \/ "verification" \in byHand
    /\ x.complete \subseteq completed
    /\ byHand = {} => /\ x.status = "ACTIVE" => x.verification = "VERIFIED"
                      /\ x.verification = "VERIFIED" => x.status # "PENDING"

\* What holds of a request: the review it acts on was given, it is about to write the
\* verification only for a cause, and only the writers stand at a save of their own.
RequestOK(r) ==
    /\ RowOK(copy[r])
    /\ brought[r] \in issued \cup {NoReview}
    /\ doing[r] \in {"loadingVerified", "savingVerified"} => CompleteFor("profile")
    /\ doing[r] = "saving" => kind[r] \in Writer

VerificationInv ==
    /\ VerificationTypeOK
    /\ RowOK(row)
    /\ review \in issued \cup {NoReview}
    /\ \A r \in Request : RequestOK(r)

LEMMA ReviewKinds ==
    /\ ~IsVerified(NoReview)
    /\ Kinds \subseteq [Request -> Kind] /\ MaxReviews \in Nat /\ MaxFaults \in Nat
    BY VerificationAssumption DEF IsVerified, NoReview

\* What a request has that has loaded nothing.
LEMMA BlankOK == Blank \in Row /\ RowOK(Blank) /\ RowOK(Blank)'
    BY DEF Blank, Row, RowOK

\* The rows that logins and POST /user create.
LEMMA FirstRowOK ==
    ASSUME row \in FirstRows, completed = row.complete, byHand = Written(Defaults, row)
    PROVE  row \in Row /\ RowOK(row)
    <1>1. /\ row \in Row /\ row.kyc = "PENDING"
          /\ \/ row.status = "PENDING" /\ row.verification = "PENDING"
             \/ row.status = "ACTIVE"
        BY VerificationAssumption DEF CreatedRows, Defaults
    <1>2. /\ row.status # "PENDING" => "status" \in byHand
          /\ row.verification # "PENDING" => "verification" \in byHand
        BY DEF Written, Defaults
    <1> QED
        BY <1>1, <1>2 DEF RowOK

\* At the start no request has loaded the row and nothing was reviewed.
LEMMA VerificationAtStart == VerificationInit => VerificationInv
    <1> SUFFICES ASSUME VerificationInit PROVE VerificationInv
        OBVIOUS
    <1>1. row \in Row /\ RowOK(row)
        BY FirstRowOK DEF VerificationInit
    <1>2. VerificationTypeOK
        <2>1. copy \in [Request -> Row] /\ brought \in [Request -> Reviews \cup {NoReview}]
            BY BlankOK DEF VerificationInit
        <2>2. reviews \in 0 .. MaxReviews /\ faults \in 0 .. MaxFaults
            BY ReviewKinds DEF VerificationInit
        <2>3. doing \in [Request -> UnderWay \cup {"new", "done"}]
            BY DEF VerificationInit
        <2>4. completed \subseteq Complete /\ byHand \subseteq {"status", "verification"}
            BY <1>1 DEF VerificationInit, Row, Written
        <2> QED
            BY <1>1, <2>1, <2>2, <2>3, <2>4 DEF VerificationInit, VerificationTypeOK
    <1>3. \A r \in Request : RequestOK(r)
        BY BlankOK DEF VerificationInit, RequestOK
    <1> QED
        BY <1>1, <1>2, <1>3 DEF VerificationInit, VerificationInv

\* A cause is never lost, so what holds of a row or a copy goes on to hold.
LEMMA CauseStays ==
    ASSUME completed \subseteq completed', byHand \subseteq byHand', issued \subseteq issued'
    PROVE  /\ \A x : RowOK(x) => RowOK(x)'
           /\ \A x : CompleteFor(x) => CompleteFor(x)'
    <1>1. ASSUME NEW x, CompleteFor(x) PROVE CompleteFor(x)'
        BY <1>1 DEF CompleteFor, Reviewed
    <1>2. ASSUME NEW x, RowOK(x) PROVE RowOK(x)'
        BY <1>1, <1>2 DEF RowOK
    <1> QED
        BY <1>1, <1>2

\* What a request saves from the row it has loaded.  Only PATCH and activation set the
\* verification, or a status other than SUSPENDED.
LEMMA ChangedRow ==
    ASSUME NEW r \in Request, copy[r] \in Row, kind[r] \in Writer, NEW d \in Changed(r),
           ~(kind[r] = "login" /\ copy[r].active)
    PROVE  LET c == copy[r]
           IN  /\ d \in Row
               /\ d.kyc \in {c.kyc, "PENDING"} \/ "kyc" \in d.complete
               /\ \/ kind[r] \in {"patch", "activate"}
                  \/ d.verification = c.verification /\ d.status \in {c.status, "SUSPENDED"}
    <1> DEFINE c == copy[r]
               refilled == {[c EXCEPT !.complete = m] : m \in SUBSET Complete}
    <1>1. \A x \in refilled : /\ x \in Row /\ x.verification = c.verification
                              /\ x.status = c.status /\ x.kyc = c.kyc
        BY DEF Row
    <1> HIDE DEF refilled
    <1>2. CASE kind[r] \in {"profile", "refresh"}
        <2>1. Changed(r) = refilled
            BY <1>2 DEF Changed, refilled
        <2> QED
            BY <1>1, <2>1
    <1>3. CASE kind[r] = "kyc"
        <2>1. Changed(r) = {[x EXCEPT !.kyc = IF "kyc" \in x.complete THEN "VERIFIED" ELSE "PENDING"] :
                                x \in refilled}
            BY <1>3 DEF Changed, refilled
        <2>2. PICK x \in refilled : d = [x EXCEPT !.kyc = IF "kyc" \in x.complete THEN "VERIFIED" ELSE "PENDING"]
            BY <2>1
        <2>3. /\ x \in Row /\ x.verification = c.verification /\ x.status = c.status
            BY <1>1
        <2>4. CASE "kyc" \in x.complete
            <3>1. d = [x EXCEPT !.kyc = "VERIFIED"]
                BY <2>2, <2>4
            <3> QED
                BY <2>3, <2>4, <3>1 DEF Row
        <2>5. CASE "kyc" \notin x.complete
            <3>1. d = [x EXCEPT !.kyc = "PENDING"]
                BY <2>2, <2>5
            <3> QED
                BY <2>3, <3>1 DEF Row
        <2> QED
            BY <2>4, <2>5
    <1>4. CASE kind[r] = "patch"
        <2>1. Changed(r) = {x \in Row : x.kyc = c.kyc}
            BY <1>4 DEF Changed
        <2> QED
            BY <1>4, <2>1
    <1>5. CASE kind[r] = "suspend"
        <2>1. d = [c EXCEPT !.status = "SUSPENDED"]
            BY <1>5 DEF Changed
        <2> QED
            BY <2>1 DEF Row
    <1>6. CASE kind[r] = "activate"
        <2>1. d = [c EXCEPT !.status = "ACTIVE"]
            BY <1>6 DEF Changed
        <2> QED
            BY <1>6, <2>1 DEF Row
    <1>7. CASE kind[r] = "remove"
        <2>1. d = [c EXCEPT !.active = FALSE]
            BY <1>7 DEF Changed
        <2> QED
            BY <2>1 DEF Row
    <1>8. CASE kind[r] = "login"
        <2>1. Changed(r) = {[x EXCEPT !.active = TRUE] :
                                x \in {x \in refilled : c.complete \subseteq x.complete}}
            BY <1>8 DEF Changed, refilled
        <2>2. PICK x \in refilled : d = [x EXCEPT !.active = TRUE]
            BY <2>1
        <2>3. x \in Row /\ x.verification = c.verification /\ x.status = c.status /\ x.kyc = c.kyc
            BY <1>1
        <2> QED
            BY <2>2, <2>3 DEF Row
    <1> QED
        BY <1>2, <1>3, <1>4, <1>5, <1>6, <1>7, <1>8 DEF Writer

\* Such a save keeps what holds of the row, once what it completes and what it sets
\* by hand are counted.
LEMMA ChangedOK ==
    ASSUME NEW c, NEW d, RowOK(c), completed' = completed \cup d.complete,
           byHand \subseteq byHand', issued' = issued,
           d.kyc \in {c.kyc, "PENDING"} \/ "kyc" \in d.complete,
           \/ Written(c, d) \subseteq byHand'
           \/ d.verification = c.verification /\ d.status \in {c.status, "SUSPENDED"}
    PROVE  /\ d.kyc = "VERIFIED" => CompleteFor("kyc")'
           /\ d.verification = "VERIFIED" => CompleteFor("profile")' \/ "verification" \in byHand'
           /\ d.complete \subseteq completed'
           /\ byHand' = {} => /\ d.status = "ACTIVE" => d.verification = "VERIFIED"
                              /\ d.verification = "VERIFIED" => d.status # "PENDING"
    <1>1. \A x : CompleteFor(x) => CompleteFor(x)'
        BY CauseStays
    <1>2. /\ d.verification = c.verification \/ "verification" \in byHand'
          /\ d.status \in {c.status, "SUSPENDED"} \/ "status" \in byHand'
        BY DEF Written
    <1> QED
        BY <1>1, <1>2 DEF RowOK, CompleteFor

-----------------------------------------------------------------------------
\* What a request stands at, and what it has loaded.
LEMMA DoStep ==
    ASSUME VerificationTypeOK, NEW r \in Request, NEW label \in UnderWay \cup {"new", "done"},
           Do(r, label)
    PROVE  /\ doing' \in [Request -> UnderWay \cup {"new", "done"}]
           /\ doing'[r] = label /\ \A q \in Request \ {r} : doing'[q] = doing[q]
    BY DEF VerificationTypeOK, Do

LEMMA GoStep ==
    ASSUME VerificationTypeOK, NEW r \in Request, NEW label \in UnderWay, Go(r, label)
    PROVE  /\ doing' \in [Request -> UnderWay \cup {"new", "done"}]
           /\ doing'[r] = label /\ \A q \in Request \ {r} : doing'[q] = doing[q]
           /\ copy' = copy /\ brought' = brought
    BY DoStep DEF Go

LEMMA LoadStep ==
    ASSUME VerificationTypeOK, NEW r \in Request, NEW label \in UnderWay, Load(r, label)
    PROVE  /\ doing' \in [Request -> UnderWay \cup {"new", "done"}]
           /\ doing'[r] = label /\ \A q \in Request \ {r} : doing'[q] = doing[q]
           /\ copy' \in [Request -> Row]
           /\ copy'[r] = row /\ \A q \in Request \ {r} : copy'[q] = copy[q]
           /\ brought' = brought
    BY DoStep DEF Load, VerificationTypeOK

\* The types and what the request stands at after one of these steps.
StepOf(r) ==
    /\ doing' \in [Request -> UnderWay \cup {"new", "done"}]
    /\ copy' \in [Request -> Row]
    /\ brought' \in [Request -> Reviews \cup {NoReview}]
    /\ \A q \in Request \ {r} : doing'[q] = doing[q] /\ copy'[q] = copy[q] /\ brought'[q] = brought[q]

\* A request that ends keeps nothing.
LEMMA DoneStep ==
    ASSUME VerificationTypeOK, NEW r \in Request, Done(r)
    PROVE  /\ StepOf(r) /\ RequestOK(r)'
    <1>1. PICK label \in {"new", "done"} : Do(r, label)
        BY DEF Done
    <1>2. /\ doing' \in [Request -> UnderWay \cup {"new", "done"}]
          /\ doing'[r] \in {"new", "done"} /\ \A q \in Request \ {r} : doing'[q] = doing[q]
        BY <1>1, DoStep
    <1>3. /\ copy' \in [Request -> Row] /\ copy'[r] = Blank
          /\ \A q \in Request \ {r} : copy'[q] = copy[q]
        BY BlankOK DEF Done, VerificationTypeOK
    <1>4. /\ brought' \in [Request -> Reviews \cup {NoReview}] /\ brought'[r] = NoReview
          /\ \A q \in Request \ {r} : brought'[q] = brought[q]
        BY DEF Done, VerificationTypeOK
    <1> QED
        BY <1>2, <1>3, <1>4, BlankOK DEF StepOf, RequestOK

\* A request that goes on with what it has loaded must have a cause to go on to the
\* verification.
LEMMA GoKeeps ==
    ASSUME VerificationInv, NEW r \in Request, NEW label \in UnderWay \ {"saving"}, Go(r, label),
           completed \subseteq completed', byHand \subseteq byHand', issued \subseteq issued',
           label \in {"loadingVerified", "savingVerified"} => CompleteFor("profile")'
    PROVE  StepOf(r) /\ RequestOK(r)'
    <1>1. VerificationTypeOK /\ RequestOK(r)
        BY DEF VerificationInv
    <1>2. /\ doing' \in [Request -> UnderWay \cup {"new", "done"}]
          /\ doing'[r] = label /\ \A q \in Request \ {r} : doing'[q] = doing[q]
          /\ copy' = copy /\ brought' = brought
        BY <1>1, GoStep
    <1> QED
        BY <1>1, <1>2, CauseStays DEF StepOf, RequestOK, VerificationTypeOK

\* And so must one that loads the row for it.
LEMMA LoadKeeps ==
    ASSUME VerificationInv, NEW r \in Request, NEW label \in Saving, Load(r, label),
           UNCHANGED <<kind, row, completed, byHand, issued>>,
           label = "savingVerified" => CompleteFor("profile"),
           label = "saving" => kind[r] \in Writer
    PROVE  StepOf(r) /\ RequestOK(r)'
    <1>1. VerificationTypeOK /\ RequestOK(r) /\ RowOK(row)
        BY DEF VerificationInv
    <1>2. label \in UnderWay
        BY DEF UnderWay
    <1>3. /\ doing' \in [Request -> UnderWay \cup {"new", "done"}]
          /\ doing'[r] = label /\ \A q \in Request \ {r} : doing'[q] = doing[q]
          /\ copy' \in [Request -> Row]
          /\ copy'[r] = row /\ \A q \in Request \ {r} : copy'[q] = copy[q]
          /\ brought' = brought
        BY <1>1, <1>2, LoadStep
    <1>4. RowOK(row)
        BY <1>1
    <1>5. RowOK(copy[r])'
        BY <1>3, <1>4 DEF RowOK, CompleteFor, Reviewed
    <1>6. RequestOK(r)'
        BY <1>1, <1>3, <1>5 DEF RequestOK, CompleteFor, Reviewed, Saving
    <1> QED
        BY <1>1, <1>3, <1>6 DEF StepOf, VerificationTypeOK

\* A step of one request keeps what holds of the others; it has to keep what holds
\* of the row and of itself.
LEMMA RequestMoves ==
    ASSUME VerificationInv, NEW r \in Request, StepOf(r), RequestOK(r)',
           row' \in Row, RowOK(row)', UNCHANGED <<kind, review, issued, reviews>>,
           completed \subseteq completed', byHand \subseteq byHand',
           completed' \subseteq Complete, byHand' \subseteq {"status", "verification"},
           applicant' \in BOOLEAN, atSumsub' \in BOOLEAN, faults' \in 0 .. MaxFaults
    PROVE  VerificationInv'
    <1>1. VerificationTypeOK'
        BY DEF VerificationInv, VerificationTypeOK, StepOf
    <1>2. ASSUME NEW q \in Request \ {r} PROVE RequestOK(q)'
        <2>1. RequestOK(q) /\ q \in Request
            BY <1>2 DEF VerificationInv
        <2>2. doing'[q] = doing[q] /\ copy'[q] = copy[q] /\ brought'[q] = brought[q]
            BY <1>2 DEF StepOf
        <2> QED
            BY <2>1, <2>2, CauseStays DEF RequestOK
    <1> QED
        BY <1>1, <1>2 DEF VerificationInv

\* A step that leaves the row alone keeps what holds of it.
LEMMA RequestOnlyMoves ==
    ASSUME VerificationInv, NEW r \in Request, StepOf(r), RequestOK(r)',
           UNCHANGED <<kind, row, review, issued, reviews, completed, byHand>>,
           applicant' \in BOOLEAN, atSumsub' \in BOOLEAN, faults' \in 0 .. MaxFaults
    PROVE  VerificationInv'
    <1>1. RowOK(row)'
        BY CauseStays DEF VerificationInv
    <1>2. row' \in Row /\ completed' \subseteq Complete /\ byHand' \subseteq {"status", "verification"}
        BY DEF VerificationInv, VerificationTypeOK
    <1> QED
        BY <1>1, <1>2, RequestMoves

\* Every step of a request or of Sumsub keeps the invariant.
LEMMA VerificationStep == VerificationInv /\ [VerificationNext]_verificationVars => VerificationInv'
    <1> SUFFICES ASSUME VerificationInv, [VerificationNext]_verificationVars
                 PROVE  VerificationInv'
        OBVIOUS
    <1> USE ReviewKinds
    <1>t. VerificationTypeOK
        BY DEF VerificationInv
    <1>w. applicant \in BOOLEAN /\ atSumsub \in BOOLEAN /\ faults \in 0 .. MaxFaults
        BY <1>t DEF VerificationTypeOK
    <1>1. ASSUME NEW r \in Request, StartWrite(r) PROVE VerificationInv'
        <2>1. StepOf(r) /\ RequestOK(r)'
            BY <1>1, <1>t, LoadKeeps, DoneStep DEF StartWrite, Saving, sumsub
        <2> QED
            BY <1>1, <1>w, <2>1, RequestOnlyMoves DEF StartWrite, sumsub
    <1>2. ASSUME NEW r \in Request, StartApplication(r) PROVE VerificationInv'
        <2>1. StepOf(r) /\ RequestOK(r)'
            BY <1>2, <1>t, GoKeeps, DoneStep DEF StartApplication, UnderWay, Saving, sumsub
        <2> QED
            BY <1>2, <1>w, <2>1, RequestOnlyMoves DEF StartApplication, sumsub
    <1>3. ASSUME NEW r \in Request, CreateApplicant(r) PROVE VerificationInv'
        <2>1. StepOf(r) /\ RequestOK(r)'
            BY <1>3, GoKeeps DEF CreateApplicant, UnderWay, Saving
        <2> QED
            BY <1>3, <1>w, <2>1, RequestOnlyMoves DEF CreateApplicant
    <1>4. ASSUME NEW r \in Request, StoreApplicant(r) PROVE VerificationInv'
        <2>1. StepOf(r) /\ RequestOK(r)'
            BY <1>4, <1>t, DoneStep DEF StoreApplicant
        <2> QED
            BY <1>4, <1>w, <2>1, RequestOnlyMoves DEF StoreApplicant, sumsub
    <1>5. ASSUME NEW r \in Request, StartReviewSync(r) PROVE VerificationInv'
        <2>1. /\ doing' \in [Request -> UnderWay \cup {"new", "done"}]
              /\ doing'[r] = "loadingKyc" /\ \A q \in Request \ {r} : doing'[q] = doing[q]
            BY <1>5, <1>t, DoStep DEF StartReviewSync, UnderWay, Saving
        <2>2. PICK s \in issued \cup {NoReview} : brought' = [brought EXCEPT ![r] = s]
            BY <1>5 DEF StartReviewSync, VerificationInv
        <2>3. /\ brought' \in [Request -> Reviews \cup {NoReview}] /\ brought'[r] = s
              /\ \A q \in Request \ {r} : brought'[q] = brought[q]
            BY <1>t, <2>2 DEF VerificationTypeOK
        <2>4. UNCHANGED <<kind, row, applicant, sumsub, copy, completed, byHand, faults>>
            BY <1>5 DEF StartReviewSync
        <2>5. RowOK(copy[r])'
            BY <2>4, CauseStays DEF VerificationInv, RequestOK, sumsub
        <2>6. StepOf(r) /\ RequestOK(r)'
            BY <1>t, <2>1, <2>3, <2>4, <2>5 DEF StepOf, RequestOK, VerificationTypeOK, sumsub
        <2> QED
            BY <1>w, <2>4, <2>6, RequestOnlyMoves DEF sumsub
    <1>6. ASSUME NEW r \in Request, LoadForKyc(r) PROVE VerificationInv'
        <2>1. StepOf(r) /\ RequestOK(r)'
            BY <1>6, LoadKeeps DEF LoadForKyc, Saving, sumsub
        <2> QED
            BY <1>6, <1>w, <2>1, RequestOnlyMoves DEF LoadForKyc, sumsub
    <1>7. ASSUME NEW r \in Request, SaveKyc(r) PROVE VerificationInv'
        <2>1. UNCHANGED <<kind, applicant, sumsub, completed, byHand, faults>>
            BY <1>7 DEF SaveKyc
        <2>2. /\ RowOK(copy[r]) /\ copy[r] \in Row
              /\ IsVerified(brought[r]) => Reviewed
            BY <1>t DEF VerificationInv, RequestOK, Reviewed, VerificationTypeOK
        <2>3. StepOf(r) /\ RequestOK(r)'
            <3>1. CASE IsVerified(brought[r])
                <4>1. CompleteFor("profile")'
                    BY <2>1, <2>2, <3>1 DEF CompleteFor, Reviewed, sumsub
                <4> QED
                    BY <1>7, <2>1, <3>1, <4>1, GoKeeps DEF SaveKyc, UnderWay, Saving, sumsub
            <3>2. CASE ~IsVerified(brought[r])
                BY <1>7, <1>t, <3>2, DoneStep DEF SaveKyc
            <3> QED
                BY <3>1, <3>2
        <2>4. PICK k \in {"PENDING", "VERIFIED"} :
                  /\ row' = [copy[r] EXCEPT !.kyc = k]
                  /\ k = "VERIFIED" => Reviewed
            BY <1>7, <2>2 DEF SaveKyc, WithKycStatus
        <2>5. /\ row' \in Row /\ row'.kyc = k /\ row'.verification = copy[r].verification
              /\ row'.status = copy[r].status /\ row'.complete = copy[r].complete
            BY <2>2, <2>4 DEF Row
        <2>6. RowOK(row)'
            BY <2>1, <2>2, <2>4, <2>5 DEF RowOK, CompleteFor, Reviewed, sumsub
        <2>7. completed' \subseteq Complete /\ byHand' \subseteq {"status", "verification"}
            BY <1>t, <2>1 DEF VerificationTypeOK
        <2> QED
            BY <1>w, <2>1, <2>3, <2>5, <2>6, <2>7, RequestMoves DEF sumsub
    <1>8. ASSUME NEW r \in Request, LoadForVerified(r) PROVE VerificationInv'
        <2>1. CompleteFor("profile")
            BY <1>8 DEF LoadForVerified, VerificationInv, RequestOK
        <2>2. StepOf(r) /\ RequestOK(r)'
            BY <1>8, <1>t, <2>1, LoadKeeps, DoneStep DEF LoadForVerified, Saving, sumsub
        <2> QED
            BY <1>8, <1>w, <2>2, RequestOnlyMoves DEF LoadForVerified, sumsub
    <1>9. ASSUME NEW r \in Request, SaveVerified(r) PROVE VerificationInv'
        <2>1. UNCHANGED <<kind, applicant, sumsub, completed, byHand, faults>>
            BY <1>9 DEF SaveVerified
        <2>2. RowOK(copy[r]) /\ copy[r] \in Row /\ CompleteFor("profile")
            BY <1>9, <1>t DEF SaveVerified, VerificationInv, RequestOK, VerificationTypeOK
        <2>3. StepOf(r) /\ RequestOK(r)'
            BY <1>9, <1>t, DoneStep DEF SaveVerified
        <2>4. /\ row' \in Row /\ row'.verification = "VERIFIED" /\ row'.status = "ACTIVE"
              /\ row'.complete = copy[r].complete /\ row'.kyc = copy[r].kyc
            BY <1>9, <2>2 DEF SaveVerified, Verified, Row
        <2>5. RowOK(row)'
            BY <2>1, <2>2, <2>4 DEF RowOK, CompleteFor, Reviewed, sumsub
        <2>6. completed' \subseteq Complete /\ byHand' \subseteq {"status", "verification"}
            BY <1>t, <2>1 DEF VerificationTypeOK
        <2> QED
            BY <1>w, <2>1, <2>3, <2>4, <2>5, <2>6, RequestMoves DEF sumsub
    <1>10. ASSUME NEW r \in Request, RequestEnds(r) PROVE VerificationInv'
        <2>1. StepOf(r) /\ RequestOK(r)'
            BY <1>10, <1>t, DoneStep DEF RequestEnds
        <2>2. faults' \in 0 .. MaxFaults
            BY <1>10, <1>w DEF RequestEnds
        <2> QED
            BY <1>10, <1>w, <2>1, <2>2, RequestOnlyMoves DEF RequestEnds, sumsub
    <1>11. ASSUME NEW r \in Request, Save(r) PROVE VerificationInv'
        <2>1. /\ row' \in Changed(r) /\ completed' = completed \cup row'.complete
              /\ byHand' = byHand \cup (IF kind[r] \in {"patch", "activate"} THEN Written(copy[r], row') ELSE {})
              /\ UNCHANGED <<kind, applicant, sumsub, faults>>
            BY <1>11 DEF Save
        <2>2. /\ kind[r] \in Writer
              /\ RowOK(copy[r]) /\ copy[r] \in Row /\ RowOK(row) /\ row \in Row
            BY <1>11, <1>t DEF Save, VerificationInv, RequestOK, VerificationTypeOK
        <2>3. PICK c \in Row : /\ RowOK(c) /\ row' \in Row
                               /\ row'.kyc \in {c.kyc, "PENDING"} \/ "kyc" \in row'.complete
                               /\ \/ Written(c, row') \subseteq byHand'
                                  \/ row'.verification = c.verification /\ row'.status \in {c.status, "SUSPENDED"}
            <3>1. CASE kind[r] = "login" /\ copy[r].active
                <4>1. row' = row
                    BY <2>1, <3>1 DEF Changed
                <4> QED
                    BY <2>2, <4>1
            <3>2. CASE ~(kind[r] = "login" /\ copy[r].active)
                <4>1. /\ row' \in Row
                      /\ row'.kyc \in {copy[r].kyc, "PENDING"} \/ "kyc" \in row'.complete
                      /\ \/ kind[r] \in {"patch", "activate"}
                         \/ row'.verification = copy[r].verification /\ row'.status \in {copy[r].status, "SUSPENDED"}
                    BY <2>1, <2>2, <3>2, ChangedRow
                <4> QED
                    BY <2>1, <2>2, <4>1
            <3> QED
                BY <3>1, <3>2
        <2>4. RowOK(row)'
            <3>1. byHand \subseteq byHand' /\ issued' = issued
                BY <2>1 DEF sumsub
            <3> QED
                BY <2>1, <2>3, <3>1, ChangedOK DEF RowOK
        <2>5. StepOf(r) /\ RequestOK(r)'
            <3>1. CASE Done(r)
                BY <1>t, <3>1, DoneStep
            <3>2. CASE "profile" \in row'.complete /\ Go(r, "loadingVerified")
                <4>1. CompleteFor("profile")'
                    BY <2>1, <3>2 DEF CompleteFor
                <4> QED
                    BY <2>1, <3>2, <4>1, GoKeeps DEF UnderWay, Saving, sumsub
            <3> QED
                BY <1>11, <3>1, <3>2 DEF Save
        <2>6. completed' \subseteq Complete /\ byHand' \subseteq {"status", "verification"}
            <3>1. row'.complete \subseteq Complete
                BY <2>3 DEF Row
            <3> QED
                BY <1>t, <2>1, <3>1 DEF VerificationTypeOK, Written
        <2>7. completed \subseteq completed' /\ byHand \subseteq byHand'
            BY <2>1
        <2> QED
            BY <1>w, <2>1, <2>3, <2>4, <2>5, <2>6, <2>7, RequestMoves DEF sumsub
    <1>12. ASSUME GiveReview PROVE VerificationInv'
        <2>1. /\ review' \in Reviews /\ issued' = issued \cup {review'} /\ issued \subseteq issued'
              /\ UNCHANGED <<kind, row, applicant, atSumsub, doing, copy, brought, completed, byHand, faults>>
            BY <1>12 DEF GiveReview
        <2>2. VerificationTypeOK'
            BY <1>12, <1>t, <2>1 DEF GiveReview, VerificationTypeOK
        <2>3. RowOK(row)'
            BY <2>1, CauseStays DEF VerificationInv
        <2>4. ASSUME NEW r \in Request PROVE RequestOK(r)'
            BY <2>1, CauseStays DEF VerificationInv, RequestOK
        <2> QED
            BY <2>1, <2>2, <2>3, <2>4 DEF VerificationInv
    <1>13. ASSUME UNCHANGED verificationVars PROVE VerificationInv'
        BY <1>13 DEF verificationVars, VerificationInv, VerificationTypeOK, RequestOK, RowOK, CompleteFor, Reviewed
    <1> QED
        BY <1>1, <1>2, <1>3, <1>4, <1>5, <1>6, <1>7, <1>8, <1>9, <1>10, <1>11, <1>12, <1>13
        DEF VerificationNext, RequestStep

LEMMA VerificationInvariant == VerificationSpec => []VerificationInv
    BY VerificationAtStart, VerificationStep, PTL DEF VerificationSpec

\* The verification part keeps its types.
THEOREM VerificationTypesHold == VerificationSpec => []VerificationTypeOK
    BY VerificationInvariant, PTL DEF VerificationInv

\* Through every order of saves, reviews, webhooks and polls, and whatever is lost or
\* written back, updateKycStatus and completeProfile verify nobody without a cause, and
\* nobody is verified otherwise than by them and by POST and PATCH /user.
THEOREM NobodyVerifiedWithoutCause == VerificationSpec => []VerifiedNeedsCause
    <1>1. VerificationInv => VerifiedNeedsCause
        BY DEF VerificationInv, RowOK, CompleteFor, Reviewed, IsVerified, VerifiedNeedsCause
    <1> QED
        BY <1>1, VerificationInvariant, PTL

\* While nobody sets one of them alone, the status of an account follows its
\* verification, in the row and in every copy that a save may write back.
THEOREM StatusFollows == VerificationSpec => []StatusFollowsVerification
    <1>1. VerificationInv => StatusFollowsVerification
        BY DEF VerificationInv, RowOK, StatusFollowsVerification
    <1> QED
        BY <1>1, VerificationInvariant, PTL

-----------------------------------------------------------------------------
(* Rewards. *)

\* The steps at which a payer holds a reward, and those of them at which it has not
\* paid it.
Unpaid == {"resetting", "marking", "paying", "failing"}
Holding == Unpaid \cup {"completing"}

Statuses == {"none", "PENDING", "PROCESSING", "COMPLETED", "FAILED"}
PayerLabels == {"idle", "taking", "marking", "paying", "completing", "failing", "resetting"}
Hands == [of : LearningCall \cup {"nothing"}, tries : 0 .. MaxRetries]

\* A reward that was created and, unless a payer was overtaken by the cleanup, exists.
Created(r) == r \in LearningCall /\ step[r] = "done" /\ (r \in Granted \/ overtaken)

\* What a payer holds and is about to come to are such rewards, and none that has
\* already failed for the last time.
PayerOK(w) ==
    /\ \A r \in DOMAIN list[w] : Created(r) /\ list[w][r] \in 0 .. MaxRetries /\ list[w][r] < MaxRetries
    /\ payer[w] \in Holding => Created(hand[w].of)
    /\ payer[w] \in Holding \ {"failing"} => hand[w].tries < MaxRetries
    /\ payer[w] = "idle" => DOMAIN list[w] = {}

PayersOK ==
    /\ DOMAIN list = Payer
    /\ \A w \in Payer : PayerOK(w)
    /\ \A r \in LearningCall : reward[r] \in {"none", "PENDING"} => retryCount[r] < MaxRetries

\* While requests for the reward have not overlapped, one looks for it or grants it
\* at a time; and it grants it only where there is none, unless a payer that the
\* cleanup has overtaken may bring one back.
Seeking == {"looking", "granting"}

GrantsOK ==
    /\ \A c \in Granted : step[c] = "done"
    /\ ~concurrent =>
           \A c, d \in LearningCall : step[c] \in Seeking /\ step[d] \in Seeking => c = d
    /\ ~concurrent /\ ~overtaken =>
           /\ \A c \in LearningCall : step[c] = "granting" => Granted = {}
           /\ \A c, d \in Granted : c = d

\* While payers have not overlapped and no save was lost, one is at work; what it
\* holds or will come to has not been paid, and what has been paid is settled or
\* about to be.
Settling(r) == reward[r] = "COMPLETED" \/ \E w \in Payer : payer[w] = "completing" /\ hand[w].of = r

WorkOK(w) ==
    /\ AtWork(w) => \A r \in DOMAIN list[w] : paid[r] = 0
    /\ payer[w] \in Unpaid => paid[hand[w].of] = 0
    /\ payer[w] \in Holding => hand[w].of \notin DOMAIN list[w]

PaymentsOK ==
    ~together /\ crashes = 0 =>
        /\ \A v, w \in Payer : AtWork(v) /\ AtWork(w) => v = w
        /\ \A w \in Payer : WorkOK(w)
        /\ \A r \in LearningCall : paid[r] > 0 => paid[r] = 1 /\ Settling(r)

RewardsInv == RewardsTypeOK /\ PayersOK /\ GrantsOK /\ PaymentsOK

LEMMA RewardBounds ==
    /\ MaxRetries \in Nat /\ MaxRetries > 0 /\ MaxPayments \in Nat /\ MaxCrashes \in Nat
    /\ MaxResets \in Nat
    BY RewardsAssumption

LEMMA NothingInHand ==
    /\ Nothing \in Hands
    /\ DOMAIN <<>> = {}
    BY RewardBounds DEF Nothing, Hands

LEMMA RewardsAtStart == RewardsInit => RewardsInv
    <1> SUFFICES ASSUME RewardsInit PROVE RewardsInv
        OBVIOUS
    <1> USE RewardBounds, NothingInHand
    <1>1. RewardsTypeOK
        <2>1. \A w \in Payer : DOMAIN list[w] = {}
            BY DEF RewardsInit
        <2>2. hand \in [Payer -> Hands]
            BY DEF RewardsInit
        <2>3. loaded \in [LearningCall -> [of : LearningCall, as : {"none", "started", "completed"}]]
            BY DEF RewardsInit, NotLoaded
        <2>4. retryCount \in [LearningCall -> 0 .. MaxRetries] /\ paid \in [LearningCall -> 0 .. MaxPayments]
            BY DEF RewardsInit
        <2>5. crashes \in 0 .. MaxCrashes /\ resets \in 0 .. MaxResets /\ retrying \subseteq Payer
            BY DEF RewardsInit
        <2>6. /\ step \in [LearningCall -> {"new", "inserting", "saving", "granting", "looking", "done"}]
              /\ progress \in [LearningCall -> {"none", "started", "completed"}]
              /\ reward \in [LearningCall -> Statuses] /\ payer \in [Payer -> PayerLabels]
            BY DEF RewardsInit, Statuses, PayerLabels
        <2>7. concurrent \in BOOLEAN /\ overtaken \in BOOLEAN /\ together \in BOOLEAN
            BY DEF RewardsInit
        <2>8. learning \in LearningKinds
            BY DEF RewardsInit
        <2> QED
            BY <2>1, <2>2, <2>3, <2>4, <2>5, <2>6, <2>7, <2>8 DEF RewardsTypeOK, Hands, Statuses, PayerLabels
    <1>2. PayersOK
        BY DEF RewardsInit, PayersOK, PayerOK, Holding, Unpaid
    <1>3. GrantsOK
        BY DEF RewardsInit, GrantsOK, Granted, Seeking
    <1>4. PaymentsOK
        BY DEF RewardsInit, PaymentsOK, AtWork, WorkOK, Unpaid, Holding
    <1> QED
        BY <1>1, <1>2, <1>3, <1>4 DEF RewardsInv

\* A step of one payer: the others and the rewards that there are stay.
LEMMA PayerMoves ==
    ASSUME RewardsTypeOK, PayersOK, NEW w \in Payer, UNCHANGED learningVars,
           reward' \in [LearningCall -> Statuses], retryCount' \in [LearningCall -> 0 .. MaxRetries],
           paid' \in [LearningCall -> 0 .. MaxPayments],
           payer' \in [Payer -> PayerLabels], hand' \in [Payer -> Hands], DOMAIN list' = Payer,
           together' \in BOOLEAN, retrying' \subseteq Payer,
           crashes' \in 0 .. MaxCrashes, resets' \in 0 .. MaxResets,
           \A v \in Payer \ {w} : payer'[v] = payer[v] /\ list'[v] = list[v] /\ hand'[v] = hand[v],
           \A r \in LearningCall :
               /\ reward[r] # "none" => reward'[r] # "none"
               /\ reward'[r] \in {"none", "PENDING"} => retryCount'[r] < MaxRetries,
           PayerOK(w)'
    PROVE  RewardsTypeOK' /\ PayersOK'
    <1>1. Granted \subseteq Granted' /\ Granted' \subseteq LearningCall
        BY DEF Granted
    <1>2. ASSUME NEW v \in Payer \ {w} PROVE PayerOK(v)'
        BY <1>1 DEF PayersOK, PayerOK, Created, learningVars
    <1>3. ASSUME NEW v \in Payer
          PROVE  /\ (DOMAIN list[v])' \subseteq LearningCall
                 /\ \A r \in (DOMAIN list[v])' : list'[v][r] \in 0 .. MaxRetries
        BY <1>1, <1>2 DEF PayerOK, Created
    <1> QED
        BY <1>2, <1>3 DEF RewardsTypeOK, PayersOK, learningVars, Statuses, PayerLabels, Hands

\* A step of the one payer at work keeps what is known of payments when it accounts
\* for its own list and hand, and for every reward that has been paid.
LEMMA PaymentMoves ==
    ASSUME RewardsTypeOK, PaymentsOK, NEW w \in Payer, AtWork(w), together' = together, crashes' = crashes,
           \A v \in Payer \ {w} : payer'[v] = payer[v],
           /\ WorkOK(w)
           /\ \A r \in LearningCall :
                  paid[r] > 0 => paid[r] = 1 /\ (reward[r] = "COMPLETED" \/ (payer[w] = "completing" /\ hand[w].of = r))
           => /\ WorkOK(w)'
              /\ \A r \in LearningCall :
                     paid'[r] > 0 => paid'[r] = 1 /\ (reward'[r] = "COMPLETED" \/ (payer'[w] = "completing" /\ hand'[w].of = r))
    PROVE  PaymentsOK'
    <1> SUFFICES ASSUME ~together, crashes = 0
                 PROVE  /\ \A u, v \in Payer : AtWork(u)' /\ AtWork(v)' => u = v
                        /\ \A v \in Payer : WorkOK(v)'
                        /\ \A r \in LearningCall : paid'[r] > 0 => paid'[r] = 1 /\ Settling(r)'
        BY DEF PaymentsOK
    <1>1. \A v \in Payer \ {w} : payer[v] = "idle"
        BY DEF PaymentsOK, AtWork
    <1>2. \A r \in LearningCall :
              paid[r] > 0 => paid[r] = 1 /\ (reward[r] = "COMPLETED" \/ (payer[w] = "completing" /\ hand[w].of = r))
        BY <1>1 DEF PaymentsOK, Settling
    <1>3. WorkOK(w)
        BY DEF PaymentsOK
    <1>4. WorkOK(w)' /\ \A r \in LearningCall : paid'[r] > 0 => paid'[r] = 1 /\ Settling(r)'
        BY <1>2, <1>3 DEF Settling
    <1>5. \A v \in Payer \ {w} : WorkOK(v)' /\ ~AtWork(v)'
        BY <1>1 DEF WorkOK, AtWork, Unpaid, Holding
    <1> QED
        BY <1>4, <1>5

\* What a payer saves of the reward in its hand.
LEMMA SaveRewardMoves ==
    ASSUME RewardsTypeOK, PayersOK, NEW w \in Payer, payer[w] \in Holding, NEW status \in Statuses \ {"none"},
           SaveReward(w, status), status = "PENDING" => hand[w].tries < MaxRetries
    PROVE  /\ reward' \in [LearningCall -> Statuses] /\ retryCount' \in [LearningCall -> 0 .. MaxRetries]
           /\ \A r \in LearningCall :
                  /\ reward[r] # "none" => reward'[r] # "none"
                  /\ reward'[r] \in {"none", "PENDING"} => retryCount'[r] < MaxRetries
                  /\ r # hand[w].of => reward'[r] = reward[r]
           /\ reward'[hand[w].of] = status
           /\ hand[w].of \in LearningCall
    <1>1. hand[w].of \in LearningCall /\ hand[w].tries \in 0 .. MaxRetries
        BY DEF PayersOK, PayerOK, Created, RewardsTypeOK
    <1>2. /\ reward' \in [LearningCall -> Statuses] /\ retryCount' \in [LearningCall -> 0 .. MaxRetries]
          /\ reward'[hand[w].of] = status /\ retryCount'[hand[w].of] = hand[w].tries
          /\ \A r \in LearningCall : r # hand[w].of => reward'[r] = reward[r] /\ retryCount'[r] = retryCount[r]
        BY <1>1 DEF SaveReward, RewardsTypeOK, Statuses
    <1> QED
        BY <1>1, <1>2 DEF PayersOK

LEMMA TurnMoves ==
    ASSUME RewardsTypeOK, NEW w \in Payer, NEW label \in PayerLabels, Turn(w, label)
    PROVE  /\ payer' \in [Payer -> PayerLabels] /\ payer'[w] = label
           /\ \A v \in Payer \ {w} : payer'[v] = payer[v]
    BY DEF Turn, RewardsTypeOK, PayerLabels

LEMMA StopMoves ==
    ASSUME RewardsTypeOK, PayersOK, NEW w \in Payer, Stop(w)
    PROVE  /\ payer' \in [Payer -> PayerLabels] /\ hand' \in [Payer -> Hands] /\ DOMAIN list' = Payer
           /\ retrying' \subseteq Payer
           /\ payer'[w] = "idle" /\ (DOMAIN list[w])' = {}
           /\ \A v \in Payer \ {w} : payer'[v] = payer[v] /\ list'[v] = list[v] /\ hand'[v] = hand[v]
           /\ PayerOK(w)' /\ WorkOK(w)'
    <1>1. /\ payer' \in [Payer -> PayerLabels] /\ payer'[w] = "idle"
          /\ \A v \in Payer \ {w} : payer'[v] = payer[v]
        BY TurnMoves DEF Stop, PayerLabels
    <1>2. /\ DOMAIN list' = Payer /\ list'[w] = <<>>
          /\ \A v \in Payer \ {w} : list'[v] = list[v]
        BY DEF Stop, PayersOK
    <1>3. /\ hand' \in [Payer -> Hands] /\ \A v \in Payer \ {w} : hand'[v] = hand[v]
        BY NothingInHand DEF Stop, RewardsTypeOK, Hands
    <1>4. (DOMAIN list[w])' = {}
        BY <1>2, NothingInHand
    <1>5. retrying' \subseteq Payer
        BY DEF Stop, RewardsTypeOK
    <1>6. PayerOK(w)' /\ WorkOK(w)'
        BY <1>1, <1>4 DEF PayerOK, WorkOK, AtWork, Holding, Unpaid
    <1> QED
        BY <1>1, <1>2, <1>3, <1>4, <1>5, <1>6

\* Every step of a payer keeps the types, what payers hold and what was paid.
LEMMA PayerSteps ==
    ASSUME RewardsTypeOK, PayersOK, GrantsOK, PaymentsOK, NEW w \in Payer,
           StartPass(w) \/ StartRetry(w) \/ PayerStep(w) \/ SaveFails(w)
    PROVE  RewardsTypeOK' /\ PayersOK' /\ PaymentsOK'
    <1> USE RewardBounds
    <1>t. /\ reward \in [LearningCall -> Statuses] /\ retryCount \in [LearningCall -> 0 .. MaxRetries]
          /\ paid \in [LearningCall -> 0 .. MaxPayments] /\ payer \in [Payer -> PayerLabels]
          /\ hand \in [Payer -> Hands] /\ DOMAIN list = Payer
          /\ together \in BOOLEAN /\ retrying \subseteq Payer
          /\ crashes \in 0 .. MaxCrashes /\ resets \in 0 .. MaxResets
          /\ Granted \subseteq LearningCall /\ \A r \in Granted : step[r] = "done"
        BY DEF RewardsTypeOK, PayersOK, GrantsOK, Statuses, PayerLabels, Hands, Granted
    <1>r. \A r \in LearningCall : reward[r] \in {"none", "PENDING"} => retryCount[r] < MaxRetries
        BY DEF PayersOK
    <1>p. PayerOK(w)
        BY DEF PayersOK
    <1>l. PayerLabels = {"idle", "taking"} \cup Holding /\ "idle" \notin Holding /\ "taking" \notin Holding
        BY DEF PayerLabels, Holding, Unpaid
    <1>1. ASSUME StartPass(w) PROVE RewardsTypeOK' /\ PayersOK' /\ PaymentsOK'
        <2> DEFINE due == {r \in Granted : DueForPayment(r)}
        <2>1. /\ payer[w] = "idle" /\ payer' \in [Payer -> PayerLabels] /\ payer'[w] = "taking"
              /\ \A v \in Payer \ {w} : payer'[v] = payer[v]
            BY <1>1, TurnMoves DEF StartPass, Begin, PayerLabels
        <2>2. /\ DOMAIN list' = Payer /\ list'[w] = [r \in due |-> retryCount[r]]
              /\ \A v \in Payer \ {w} : list'[v] = list[v]
            BY <1>1, <1>t DEF StartPass
        <2>3. /\ UNCHANGED <<hand, crashes, retrying, resets, paid, learningVars, reward, retryCount>>
              /\ together' = (together \/ \E v \in Payer \ {w} : AtWork(v))
            BY <1>1 DEF StartPass, Begin
        <2>4. \A r \in due : r \in Granted /\ r \in LearningCall /\ reward[r] = "PENDING"
            BY <1>t DEF DueForPayment
        <2>5. (DOMAIN list[w])' = due /\ \A r \in due : list'[w][r] = retryCount[r]
            BY <2>2
        <2>6. PayerOK(w)'
            BY <1>t, <1>r, <1>l, <2>1, <2>3, <2>4, <2>5 DEF PayerOK, Created, Granted, learningVars
        <2>7. RewardsTypeOK' /\ PayersOK'
            BY <1>t, <1>r, <2>1, <2>2, <2>3, <2>6, PayerMoves
        <2>8. ASSUME ~together', crashes' = 0
              PROVE  /\ \A u, v \in Payer : AtWork(u)' /\ AtWork(v)' => u = v
                     /\ \A v \in Payer : WorkOK(v)'
                     /\ \A r \in LearningCall : paid'[r] > 0 => paid'[r] = 1 /\ Settling(r)'
            <3>1. \A v \in Payer : payer[v] = "idle"
                BY <2>1, <2>3, <2>8 DEF AtWork
            <3>2. \A r \in LearningCall : paid[r] > 0 => paid[r] = 1 /\ reward[r] = "COMPLETED"
                BY <2>3, <2>8, <3>1 DEF PaymentsOK, Settling
            <3>3. \A r \in due : paid[r] = 0
                BY <1>t, <2>4, <3>2
            <3>4. WorkOK(w)'
                BY <1>l, <2>1, <2>3, <2>5, <3>3 DEF WorkOK, Holding
            <3>5. \A v \in Payer \ {w} : WorkOK(v)' /\ ~AtWork(v)'
                BY <1>l, <2>1, <3>1 DEF WorkOK, AtWork, Holding
            <3> QED
                BY <2>3, <3>2, <3>4, <3>5 DEF Settling
        <2> QED
            BY <2>7, <2>8 DEF PaymentsOK
    <1>2. ASSUME StartRetry(w) PROVE RewardsTypeOK' /\ PayersOK' /\ PaymentsOK'
        <2>1. /\ payer[w] = "idle" /\ payer' \in [Payer -> PayerLabels] /\ payer'[w] = "resetting"
              /\ \A v \in Payer \ {w} : payer'[v] = payer[v]
            BY <1>2, TurnMoves DEF StartRetry, Begin, PayerLabels
        <2>2. PICK r \in Granted : /\ reward[r] = "FAILED"
                                   /\ hand' = [hand EXCEPT ![w] = [of |-> r, tries |-> 0]]
            BY <1>2 DEF StartRetry
        <2>3. /\ UNCHANGED <<list, crashes, paid, learningVars, reward, retryCount>>
              /\ together' = (together \/ \E v \in Payer \ {w} : AtWork(v))
              /\ retrying' = retrying \cup {w} /\ resets' \in 0 .. MaxResets
            BY <1>2, <1>t DEF StartRetry, Begin
        <2>4. /\ hand' \in [Payer -> Hands] /\ hand'[w].of = r /\ hand'[w].tries = 0
              /\ \A v \in Payer \ {w} : hand'[v] = hand[v]
            BY <1>t, <2>2 DEF Hands
        <2>5. PayerOK(w)'
            BY <1>t, <1>p, <2>1, <2>2, <2>3, <2>4 DEF PayerOK, Created, Granted, learningVars
        <2>6. RewardsTypeOK' /\ PayersOK'
            BY <1>t, <1>r, <2>1, <2>3, <2>4, <2>5, PayerMoves
        <2>7. ASSUME ~together', crashes' = 0
              PROVE  /\ \A u, v \in Payer : AtWork(u)' /\ AtWork(v)' => u = v
                     /\ \A v \in Payer : WorkOK(v)'
                     /\ \A q \in LearningCall : paid'[q] > 0 => paid'[q] = 1 /\ Settling(q)'
            <3>1. \A v \in Payer : payer[v] = "idle"
                BY <2>1, <2>3, <2>7 DEF AtWork
            <3>2. \A q \in LearningCall : paid[q] > 0 => paid[q] = 1 /\ reward[q] = "COMPLETED"
                BY <2>3, <2>7, <3>1 DEF PaymentsOK, Settling
            <3>3. paid[r] = 0
                BY <1>t, <2>2, <3>2
            <3>4. DOMAIN list[w] = {}
                BY <1>p, <2>1 DEF PayerOK
            <3>5. WorkOK(w)'
                BY <2>1, <2>3, <2>4, <3>3, <3>4 DEF WorkOK
            <3>6. \A v \in Payer \ {w} : WorkOK(v)' /\ ~AtWork(v)'
                BY <1>l, <2>1, <3>1 DEF WorkOK, AtWork, Holding
            <3> QED
                BY <2>3, <3>2, <3>5, <3>6 DEF Settling
        <2> QED
            BY <2>6, <2>7 DEF PaymentsOK
    <1>3. ASSUME TakeReward(w) PROVE RewardsTypeOK' /\ PayersOK' /\ PaymentsOK'
        <2>1. /\ payer[w] = "taking" /\ AtWork(w)
              /\ UNCHANGED <<together, crashes, resets, paid, learningVars, reward, retryCount>>
            BY <1>3 DEF TakeReward, AtWork
        <2>2. CASE Stop(w)
            <3>1. RewardsTypeOK' /\ PayersOK'
                BY <1>t, <1>r, <2>1, <2>2, StopMoves, PayerMoves
            <3>2. PaymentsOK'
                BY <1>t, <2>1, <2>2, StopMoves, PaymentMoves
            <3> QED
                BY <3>1, <3>2
        <2>3. ASSUME NEW r \in DOMAIN list[w],
                     hand' = [hand EXCEPT ![w] = [of |-> r, tries |-> list[w][r]]],
                     list' = [list EXCEPT ![w] = [q \in DOMAIN @ \ {r} |-> @[q]]],
                     Turn(w, "marking"), UNCHANGED retrying
              PROVE  RewardsTypeOK' /\ PayersOK' /\ PaymentsOK'
            <3>1. /\ payer' \in [Payer -> PayerLabels] /\ payer'[w] = "marking"
                  /\ \A v \in Payer \ {w} : payer'[v] = payer[v]
                BY <2>3, TurnMoves DEF PayerLabels
            <3>2. /\ DOMAIN list' = Payer
                  /\ list'[w] = [q \in (DOMAIN list[w]) \ {r} |-> list[w][q]]
                  /\ \A v \in Payer \ {w} : list'[v] = list[v]
                BY <1>t, <2>3
            <3>3. /\ Created(r) /\ r \in LearningCall
                  /\ list[w][r] \in 0 .. MaxRetries /\ list[w][r] < MaxRetries
                BY <1>t, <1>p DEF PayerOK, Created
            <3>4. /\ hand' \in [Payer -> Hands] /\ hand'[w].of = r /\ hand'[w].tries = list[w][r]
                  /\ \A v \in Payer \ {w} : hand'[v] = hand[v]
                BY <1>t, <2>3, <3>3 DEF Hands
            <3>5. /\ (DOMAIN list[w])' = (DOMAIN list[w]) \ {r}
                  /\ \A q \in (DOMAIN list[w])' : list'[w][q] = list[w][q]
                BY <3>2
            <3>6. \A q \in LearningCall : Created(q) => Created(q)'
                BY <2>1 DEF Created, Granted, learningVars
            <3>7. PayerOK(w)'
                BY <1>p, <3>1, <3>3, <3>4, <3>5, <3>6 DEF PayerOK, Created
            <3>8. RewardsTypeOK' /\ PayersOK'
                BY <1>t, <1>r, <2>1, <2>3, <3>1, <3>2, <3>4, <3>7, PayerMoves
            <3>9. WorkOK(w) => WorkOK(w)'
                BY <2>1, <3>1, <3>4, <3>5 DEF WorkOK, AtWork, Unpaid
            <3>10. PaymentsOK'
                BY <2>1, <3>1, <3>9, PaymentMoves
            <3> QED
                BY <3>8, <3>10
        <2> QED
            BY <1>3, <2>2, <2>3 DEF TakeReward
    <1>4. ASSUME payer[w] \in Unpaid, NEW status \in Statuses \ {"none"}, SaveReward(w, status),
                 status = "PENDING" => hand[w].tries < MaxRetries,
                 NEW label \in {"taking", "marking", "paying"}, Turn(w, label),
                 payer[w] = "failing" => label = "taking",
                 hand' = hand \/ (label = "taking" /\ hand' = [hand EXCEPT ![w] = Nothing]),
                 UNCHANGED <<list, together, crashes, retrying, resets, paid, learningVars>>
          PROVE  RewardsTypeOK' /\ PayersOK' /\ PaymentsOK'
        <2>h. /\ hand' \in [Payer -> Hands] /\ \A v \in Payer \ {w} : hand'[v] = hand[v]
              /\ label # "taking" => hand'[w] = hand[w]
            BY <1>4, <1>t, NothingInHand
        <2>1. /\ payer' \in [Payer -> PayerLabels] /\ payer'[w] = label
              /\ \A v \in Payer \ {w} : payer'[v] = payer[v]
            BY <1>4, TurnMoves DEF PayerLabels
        <2>2. payer[w] \in Holding /\ payer[w] # "completing" /\ AtWork(w)
            BY <1>4 DEF Holding, Unpaid, AtWork
        <2>3. /\ reward' \in [LearningCall -> Statuses] /\ retryCount' \in [LearningCall -> 0 .. MaxRetries]
              /\ \A r \in LearningCall :
                     /\ reward[r] # "none" => reward'[r] # "none"
                     /\ reward'[r] \in {"none", "PENDING"} => retryCount'[r] < MaxRetries
                     /\ r # hand[w].of => reward'[r] = reward[r]
            BY <1>4, <2>2, SaveRewardMoves
        <2>4. \A q \in LearningCall : Created(q) => Created(q)'
            BY <1>4, <2>3 DEF Created, Granted, learningVars
        <2>5. PayerOK(w)'
            BY <1>p, <1>4, <2>1, <2>2, <2>4, <2>h DEF PayerOK, Created, Holding, Unpaid
        <2>6. RewardsTypeOK' /\ PayersOK'
            BY <1>t, <1>4, <2>1, <2>3, <2>5, <2>h, PayerMoves
        <2>7. ASSUME WorkOK(w),
                     \A r \in LearningCall :
                         paid[r] > 0 => paid[r] = 1 /\ (reward[r] = "COMPLETED" \/ (payer[w] = "completing" /\ hand[w].of = r))
              PROVE  /\ WorkOK(w)'
                     /\ \A r \in LearningCall :
                            paid'[r] > 0 => paid'[r] = 1 /\ (reward'[r] = "COMPLETED" \/ (payer'[w] = "completing" /\ hand'[w].of = r))
            <3>1. paid[hand[w].of] = 0
                BY <1>4, <2>7 DEF WorkOK
            <3>2. WorkOK(w)'
                BY <1>4, <2>1, <2>2, <2>7, <2>h, <3>1 DEF WorkOK, AtWork, Holding, Unpaid
            <3> QED
                BY <1>t, <1>4, <2>2, <2>3, <2>7, <3>1, <3>2
        <2>8. PaymentsOK'
            BY <1>4, <2>1, <2>2, <2>7, PaymentMoves
        <2> QED
            BY <2>6, <2>8
    <1>5. ASSUME ResetReward(w) PROVE RewardsTypeOK' /\ PayersOK' /\ PaymentsOK'
        <2>1. payer[w] = "resetting" /\ payer[w] \in Unpaid /\ hand[w].tries < MaxRetries
            BY <1>5, <1>p DEF ResetReward, Unpaid, Holding, PayerOK
        <2> QED
            BY <1>4, <1>5, <2>1 DEF ResetReward, Statuses
    <1>6. ASSUME MarkProcessing(w) PROVE RewardsTypeOK' /\ PayersOK' /\ PaymentsOK'
        <2>1. payer[w] = "marking" /\ payer[w] \in Unpaid
            BY <1>6 DEF MarkProcessing, Unpaid
        <2> QED
            BY <1>4, <1>6, <2>1 DEF MarkProcessing, Statuses
    <1>7. ASSUME HandleRewardError(w) PROVE RewardsTypeOK' /\ PayersOK' /\ PaymentsOK'
        <2>1. payer[w] = "failing" /\ payer[w] \in Unpaid /\ hand[w].tries \in 0 .. MaxRetries
            BY <1>7, <1>t DEF HandleRewardError, Unpaid, Hands
        <2>2. /\ AfterFailure(hand[w].tries) \in Statuses \ {"none"}
              /\ AfterFailure(hand[w].tries) = "PENDING" => hand[w].tries < MaxRetries
            BY <2>1 DEF AfterFailure, Statuses
        <2> QED
            BY <1>4, <1>7, <2>1, <2>2 DEF HandleRewardError, NextReward
    <1>8. ASSUME TransferBonkTokens(w) PROVE RewardsTypeOK' /\ PayersOK' /\ PaymentsOK'
        <2>1. /\ payer[w] = "paying" /\ AtWork(w) /\ payer[w] \in Unpaid /\ payer[w] \in Holding
              /\ hand[w].of \in LearningCall
              /\ hand[w].tries < MaxRetries
            BY <1>8, <1>p, <1>t DEF TransferBonkTokens, AtWork, Unpaid, Holding, PayerOK, Created
        <2>2. /\ payer' \in [Payer -> PayerLabels] /\ payer'[w] = "completing"
              /\ \A v \in Payer \ {w} : payer'[v] = payer[v]
            BY <1>8, TurnMoves DEF TransferBonkTokens, PayerLabels
        <2>3. UNCHANGED <<list, hand, together, crashes, retrying, resets, learningVars, reward, retryCount>>
            BY <1>8 DEF TransferBonkTokens
        <2>4. /\ paid' \in [LearningCall -> 0 .. MaxPayments]
              /\ paid'[hand[w].of] = paid[hand[w].of] + 1
              /\ \A r \in LearningCall : r # hand[w].of => paid'[r] = paid[r]
            BY <1>8, <1>t, <2>1 DEF TransferBonkTokens
        <2>5. PayerOK(w)'
            BY <1>p, <2>1, <2>2, <2>3 DEF PayerOK, Created, Granted, learningVars
        <2>6. RewardsTypeOK' /\ PayersOK'
            BY <1>t, <1>r, <2>2, <2>3, <2>4, <2>5, PayerMoves
        <2>7. ASSUME WorkOK(w),
                     \A r \in LearningCall :
                         paid[r] > 0 => paid[r] = 1 /\ (reward[r] = "COMPLETED" \/ (payer[w] = "completing" /\ hand[w].of = r))
              PROVE  /\ WorkOK(w)'
                     /\ \A r \in LearningCall :
                            paid'[r] > 0 => paid'[r] = 1 /\ (reward'[r] = "COMPLETED" \/ (payer'[w] = "completing" /\ hand'[w].of = r))
            <3>1. /\ paid[hand[w].of] = 0 /\ hand[w].of \notin DOMAIN list[w]
                  /\ \A r \in DOMAIN list[w] : paid[r] = 0 /\ r \in LearningCall
                BY <1>t, <1>p, <2>1, <2>7 DEF WorkOK, PayerOK, Created
            <3>2. WorkOK(w)'
                BY <2>1, <2>2, <2>3, <2>4, <3>1 DEF WorkOK, Unpaid
            <3>3. paid'[hand[w].of] = 1
                BY <2>4, <3>1
            <3> QED
                BY <2>1, <2>2, <2>3, <2>4, <2>7, <3>2, <3>3
        <2>8. PaymentsOK'
            BY <2>1, <2>2, <2>3, <2>7, PaymentMoves
        <2> QED
            BY <2>6, <2>8
    <1>9. ASSUME SaveCompleted(w) PROVE RewardsTypeOK' /\ PayersOK' /\ PaymentsOK'
        <2>1. /\ payer[w] = "completing" /\ AtWork(w) /\ payer[w] \in Holding
              /\ SaveReward(w, "COMPLETED")
              /\ UNCHANGED <<together, crashes, resets, paid, learningVars>>
            BY <1>9 DEF SaveCompleted, AtWork, Holding
        <2>2. /\ reward' \in [LearningCall -> Statuses] /\ retryCount' \in [LearningCall -> 0 .. MaxRetries]
              /\ \A r \in LearningCall :
                     /\ reward[r] # "none" => reward'[r] # "none"
                     /\ reward'[r] \in {"none", "PENDING"} => retryCount'[r] < MaxRetries
                     /\ r # hand[w].of => reward'[r] = reward[r]
              /\ reward'[hand[w].of] = "COMPLETED"
            BY <2>1, SaveRewardMoves DEF Statuses
        <2>3. \A q \in LearningCall : Created(q) => Created(q)'
            BY <2>1, <2>2 DEF Created, Granted, learningVars
        <2>4. /\ payer' \in [Payer -> PayerLabels] /\ payer'[w] \in {"idle", "taking"}
              /\ hand' \in [Payer -> Hands] /\ DOMAIN list' = Payer /\ retrying' \subseteq Payer
              /\ \A v \in Payer \ {w} : payer'[v] = payer[v] /\ list'[v] = list[v] /\ hand'[v] = hand[v]
              /\ PayerOK(w)' /\ (WorkOK(w) => WorkOK(w)')
            <3>1. CASE Stop(w)
                BY <3>1, StopMoves
            <3>2. CASE NextReward(w)
                <4>1. /\ payer' \in [Payer -> PayerLabels] /\ payer'[w] = "taking"
                      /\ \A v \in Payer \ {w} : payer'[v] = payer[v]
                    BY <3>2, TurnMoves DEF NextReward, PayerLabels
                <4>h. /\ hand' \in [Payer -> Hands] /\ \A v \in Payer \ {w} : hand'[v] = hand[v]
                      /\ UNCHANGED <<list, retrying>>
                    BY <1>t, <3>2, NothingInHand DEF NextReward
                <4>2. PayerOK(w)'
                    BY <1>p, <1>l, <2>3, <4>1, <4>h DEF PayerOK, Created
                <4>3. WorkOK(w) => WorkOK(w)'
                    BY <2>1, <4>1, <4>h DEF WorkOK, AtWork, Unpaid, Holding
                <4> QED
                    BY <1>t, <4>1, <4>2, <4>3, <4>h
            <3> QED
                BY <1>9, <3>1, <3>2 DEF SaveCompleted
        <2>5. RewardsTypeOK' /\ PayersOK'
            BY <1>t, <2>1, <2>2, <2>4, PayerMoves
        <2>6. PaymentsOK'
            BY <2>1, <2>2, <2>4, PaymentMoves
        <2> QED
            BY <2>5, <2>6
    <1>10. ASSUME Thrown(w), payer[w] \in Holding \ {"failing"}, crashes' \in 0 .. MaxCrashes,
                  UNCHANGED <<together, resets, paid, learningVars, reward, retryCount>>
           PROVE  /\ payer' \in [Payer -> PayerLabels] /\ payer'[w] \in {"idle", "failing"}
                  /\ hand' \in [Payer -> Hands]
                  /\ \A v \in Payer \ {w} : payer'[v] = payer[v] /\ list'[v] = list[v] /\ hand'[v] = hand[v]
                  /\ RewardsTypeOK' /\ PayersOK' /\ (WorkOK(w) /\ payer[w] \in Unpaid => WorkOK(w)')
        <2>1. CASE Stop(w)
            <3>1. RewardsTypeOK' /\ PayersOK'
                BY <1>t, <1>r, <1>10, <2>1, StopMoves, PayerMoves
            <3> QED
                BY <2>1, <3>1, StopMoves
        <2>2. CASE Turn(w, "failing") /\ hand' = [hand EXCEPT ![w].tries = @ + 1] /\ UNCHANGED <<list, retrying>>
            <3>1. /\ payer' \in [Payer -> PayerLabels] /\ payer'[w] = "failing"
                  /\ \A v \in Payer \ {w} : payer'[v] = payer[v]
                BY <2>2, TurnMoves DEF PayerLabels
            <3>2. /\ hand[w] \in Hands /\ hand[w].tries \in 0 .. MaxRetries /\ hand[w].tries < MaxRetries
                  /\ Created(hand[w].of)
                BY <1>t, <1>p, <1>10 DEF PayerOK, Hands
            <3>3. hand[w].tries + 1 \in 0 .. MaxRetries
                BY <3>2
            <3>4. /\ hand' \in [Payer -> Hands] /\ hand'[w].of = hand[w].of
                  /\ \A v \in Payer \ {w} : hand'[v] = hand[v]
                BY <1>t, <2>2, <3>2, <3>3 DEF Hands
            <3>5. PayerOK(w)'
                BY <1>p, <1>10, <2>2, <3>1, <3>2, <3>4 DEF PayerOK, Created, Granted, learningVars
            <3>6. RewardsTypeOK' /\ PayersOK'
                BY <1>t, <1>r, <1>10, <2>2, <3>1, <3>4, <3>5, PayerMoves
            <3>7. WorkOK(w) /\ payer[w] \in Unpaid => WorkOK(w)'
                BY <1>10, <2>2, <3>1, <3>4 DEF WorkOK, AtWork, Unpaid, Holding
            <3> QED
                BY <2>2, <3>1, <3>4, <3>6, <3>7
        <2> QED
            BY <1>10, <2>1, <2>2 DEF Thrown
    <1>11. ASSUME TransferFails(w) PROVE RewardsTypeOK' /\ PayersOK' /\ PaymentsOK'
        <2>1. /\ payer[w] = "paying" /\ Thrown(w) /\ AtWork(w) /\ payer[w] \in Unpaid
              /\ payer[w] \in Holding \ {"failing"}
              /\ UNCHANGED <<together, crashes, resets, paid, learningVars, reward, retryCount>>
            BY <1>11 DEF TransferFails, AtWork, Unpaid, Holding
        <2>2. /\ \A v \in Payer \ {w} : payer'[v] = payer[v]
              /\ RewardsTypeOK' /\ PayersOK' /\ (WorkOK(w) => WorkOK(w)')
            BY <1>10, <1>t, <2>1
        <2> QED
            BY <2>1, <2>2, PaymentMoves
    <1>12. ASSUME SaveFails(w) PROVE RewardsTypeOK' /\ PayersOK' /\ PaymentsOK'
        <2>1. /\ crashes' \in 0 .. MaxCrashes /\ crashes' # 0
              /\ UNCHANGED <<together, resets, paid, learningVars, reward, retryCount>>
            BY <1>12, <1>t DEF SaveFails
        <2>2. CASE payer[w] \in {"marking", "completing"} /\ Thrown(w)
            BY <1>10, <2>1, <2>2 DEF Holding, Unpaid, PaymentsOK
        <2>3. CASE Stop(w)
            BY <1>t, <1>r, <2>1, <2>3, StopMoves, PayerMoves DEF PaymentsOK
        <2> QED
            BY <1>12, <2>2, <2>3 DEF SaveFails
    <1> QED
        BY <1>1, <1>2, <1>3, <1>5, <1>6, <1>7, <1>8, <1>9, <1>11, <1>12 DEF PayerStep

StepLabels == {"new", "inserting", "saving", "granting", "looking", "done"}

\* A request for a reward keeps what is known of the rewards and of their payment.
LEMMA LearningSteps ==
    ASSUME RewardsInv, NEW c \in LearningCall, LearningStep(c)
    PROVE  RewardsInv'
    <1> USE RewardBounds
    <1>t. /\ step \in [LearningCall -> StepLabels] /\ reward \in [LearningCall -> Statuses]
          /\ progress \in [LearningCall -> {"none", "started", "completed"}]
          /\ loaded \in [LearningCall -> [of : LearningCall, as : {"none", "started", "completed"}]]
          /\ concurrent \in BOOLEAN /\ overtaken \in BOOLEAN /\ Granted \subseteq LearningCall
        BY DEF RewardsInv, RewardsTypeOK, StepLabels, Statuses, Granted
    <1>g. GrantsOK
        BY DEF RewardsInv
    <1>1. ASSUME NEW label \in StepLabels, Stand(c, label)
          PROVE  /\ step' \in [LearningCall -> StepLabels] /\ step'[c] = label
                 /\ \A d \in LearningCall : d # c => step'[d] = step[d]
        BY <1>t, <1>1 DEF Stand
    \* The steps that leave the rewards alone, to anywhere but a search.
    <1>2. ASSUME UNCHANGED <<learning, overtaken, reward, retryCount, payingVars>>,
                 step' \in [LearningCall -> StepLabels],
                 \A d \in LearningCall : step[d] = "done" => step'[d] = "done",
                 progress' \in [LearningCall -> {"none", "started", "completed"}],
                 loaded' \in [LearningCall -> [of : LearningCall, as : {"none", "started", "completed"}]],
                 concurrent' \in BOOLEAN, GrantsOK'
          PROVE  RewardsInv'
        <2>1. RewardsTypeOK'
            BY <1>2 DEF RewardsInv, RewardsTypeOK, payingVars, StepLabels
        <2>2. PayersOK'
            BY <1>2 DEF RewardsInv, PayersOK, PayerOK, Created, Granted, payingVars
        <2>3. PaymentsOK'
            BY <1>2 DEF RewardsInv, PaymentsOK, WorkOK, AtWork, Settling, payingVars
        <2> QED
            BY <1>2, <2>1, <2>2, <2>3 DEF RewardsInv
    <1>3. ASSUME step[c] # "done", NEW label \in {"inserting", "saving", "done"}, Stand(c, label),
                 reward' = reward, UNCHANGED <<concurrent, overtaken>>
          PROVE  GrantsOK'
        BY <1>t, <1>g, <1>1, <1>3 DEF GrantsOK, Granted, Seeking, StepLabels
    <1>4. ASSUME FindProgress(c) PROVE RewardsInv'
        <2>1. PICK label \in {"inserting", "saving", "done"} : Stand(c, label)
            BY <1>4 DEF FindProgress
        <2>2. loaded' \in [LearningCall -> [of : LearningCall, as : {"none", "started", "completed"}]]
            <3>1. CASE UNCHANGED loaded
                BY <1>t, <3>1
            <3>2. ASSUME NEW r \in Started, loaded' = [loaded EXCEPT ![c] = [of |-> r, as |-> progress[r]]]
                  PROVE  loaded' \in [LearningCall -> [of : LearningCall, as : {"none", "started", "completed"}]]
                BY <1>t, <3>2 DEF Started
            <3> QED
                BY <1>4, <3>1, <3>2 DEF FindProgress
        <2> QED
            BY <1>t, <1>1, <1>2, <1>3, <1>4, <2>1, <2>2 DEF FindProgress, StepLabels
    <1>5. ASSUME InsertProgress(c) PROVE RewardsInv'
        <2>1. progress' \in [LearningCall -> {"none", "started", "completed"}]
            BY <1>t, <1>5 DEF InsertProgress
        <2> QED
            BY <1>t, <1>1, <1>2, <1>3, <1>5, <2>1 DEF InsertProgress, StepLabels
    <1>6. ASSUME SaveProgress(c) PROVE RewardsInv'
        <2>1. /\ progress' \in [LearningCall -> {"none", "started", "completed"}]
              /\ loaded' \in [LearningCall -> [of : LearningCall, as : {"none", "started", "completed"}]]
            BY <1>t, <1>6 DEF SaveProgress, NotLoaded
        <2> QED
            BY <1>t, <1>1, <1>2, <1>3, <1>6, <2>1 DEF SaveProgress, StepLabels
    <1>7. ASSUME CheckCompleted(c) PROVE RewardsInv'
        <2>1. PICK label \in {"looking", "done"} : Stand(c, label)
            BY <1>7 DEF CheckCompleted
        <2>2. concurrent' = (concurrent \/ \E d \in LearningCall : step[d] \in {"looking", "granting"})
            BY <1>7 DEF CheckCompleted
        <2>3. step[c] = "new" /\ reward' = reward /\ overtaken' = overtaken
            BY <1>7 DEF CheckCompleted
        <2>4. /\ step'[c] \in {"looking", "done"} /\ Granted' = Granted /\ c \notin Granted
              /\ \A d \in LearningCall : d # c => step'[d] = step[d]
            BY <1>g, <1>1, <2>1, <2>3 DEF GrantsOK, Granted, StepLabels
        <2>5. \A d \in Granted : step'[d] = "done"
            BY <1>t, <1>g, <2>4 DEF GrantsOK
        <2>6. ASSUME ~concurrent'
              PROVE  /\ \A d \in LearningCall \ {c} : step'[d] \notin Seeking
                     /\ ~overtaken => \A d, e \in Granted : d = e
            BY <1>t, <1>g, <2>2, <2>4, <2>6 DEF GrantsOK, Seeking
        <2>7. GrantsOK'
            BY <2>3, <2>4, <2>5, <2>6 DEF GrantsOK, Seeking
        <2> QED
            BY <1>t, <1>1, <1>2, <1>7, <2>1, <2>7 DEF CheckCompleted, StepLabels
    <1>8. ASSUME FindReward(c) PROVE RewardsInv'
        <2>1. PICK label \in {"granting", "done"} : Stand(c, label) /\ (label = "granting" => Granted = {})
            BY <1>8 DEF FindReward, EarlierRewards
        <2>2. step[c] = "looking" /\ reward' = reward /\ UNCHANGED <<concurrent, overtaken>>
            BY <1>8 DEF FindReward
        <2>3. GrantsOK'
            BY <1>t, <1>g, <1>1, <2>1, <2>2 DEF GrantsOK, Granted, Seeking, StepLabels
        <2> QED
            BY <1>t, <1>1, <1>2, <1>8, <2>1, <2>3 DEF FindReward, StepLabels
    <1>9. ASSUME InsertReward(c) PROVE RewardsInv'
        <2>1. /\ step[c] = "granting" /\ step' \in [LearningCall -> StepLabels] /\ step'[c] = "done"
              /\ \A d \in LearningCall : d # c => step'[d] = step[d]
            BY <1>1, <1>9 DEF InsertReward, StepLabels
        <2>2. /\ reward' \in [LearningCall -> Statuses] /\ reward'[c] = "PENDING"
              /\ \A d \in LearningCall : d # c => reward'[d] = reward[d]
            BY <1>t, <1>9 DEF InsertReward, Statuses
        <2>3. UNCHANGED <<learning, loaded, progress, concurrent, overtaken, retryCount, payingVars>>
            BY <1>9 DEF InsertReward
        <2>4. reward[c] = "none"
            BY <1>g, <2>1 DEF GrantsOK, Granted
        <2>5. Granted' = Granted \cup {c} /\ c \notin Granted
            BY <2>2, <2>4 DEF Granted, Statuses
        <2>6. RewardsTypeOK'
            BY <2>1, <2>2, <2>3 DEF RewardsInv, RewardsTypeOK, payingVars, StepLabels, Statuses
        <2>7. PayersOK'
            BY <2>1, <2>2, <2>3, <2>4, <2>5 DEF RewardsInv, PayersOK, PayerOK, Created, payingVars
        <2>8. GrantsOK'
            <3>1. \A d \in Granted' : step'[d] = "done"
                BY <1>t, <1>g, <2>1, <2>5 DEF GrantsOK
            <3>2. ASSUME ~concurrent
                  PROVE  /\ ~overtaken => Granted = {}
                         /\ \A d \in LearningCall \ {c} : step'[d] \notin Seeking
                BY <1>g, <2>1, <3>2 DEF GrantsOK, Seeking
            <3> QED
                BY <2>1, <2>3, <2>5, <3>1, <3>2 DEF GrantsOK, Seeking
        <2>9. PaymentsOK'
            <3> SUFFICES ASSUME ~together, crashes = 0
                         PROVE  /\ \A v, w \in Payer : AtWork(v)' /\ AtWork(w)' => v = w
                                /\ \A w \in Payer : WorkOK(w)'
                                /\ \A r \in LearningCall : paid[r] > 0 => paid[r] = 1 /\ Settling(r)'
                BY <2>3 DEF PaymentsOK, payingVars
            <3>1. /\ \A v, w \in Payer : AtWork(v) /\ AtWork(w) => v = w
                  /\ \A w \in Payer : WorkOK(w)
                  /\ \A r \in LearningCall : paid[r] > 0 => paid[r] = 1 /\ Settling(r)
                BY DEF RewardsInv, PaymentsOK
            <3>2. ~Settling(c)
                BY <2>1, <2>4 DEF RewardsInv, PayersOK, PayerOK, Created, Settling, Holding
            <3>3. ASSUME NEW r \in LearningCall, Settling(r) PROVE Settling(r)'
                BY <2>2, <2>3, <3>2, <3>3 DEF Settling, payingVars
            <3>4. \A v \in Payer : (AtWork(v)' <=> AtWork(v)) /\ (WorkOK(v)' <=> WorkOK(v))
                BY <2>3 DEF AtWork, WorkOK, payingVars
            <3> QED
                BY <3>1, <3>3, <3>4
        <2> QED
            BY <2>6, <2>7, <2>8, <2>9 DEF RewardsInv
    <1> QED
        BY <1>4, <1>5, <1>6, <1>7, <1>8, <1>9 DEF LearningStep

\* The crash forgets what payers and requests were about.
LEMMA DeathKeepsRewards ==
    ASSUME RewardsInv, ProcessDies
    PROVE  RewardsInv'
    <1> USE RewardBounds, NothingInHand
    <1>1. /\ crashes' \in 0 .. MaxCrashes /\ crashes' # 0
          /\ step' = [c \in LearningCall |-> IF step[c] = "new" THEN "new" ELSE "done"]
          /\ loaded' = [c \in LearningCall |-> NotLoaded(c)]
          /\ payer' = [w \in Payer |-> "idle"] /\ list' = [w \in Payer |-> <<>>]
          /\ hand' = [w \in Payer |-> Nothing] /\ retrying' = {}
          /\ UNCHANGED <<learning, progress, concurrent, overtaken, reward, retryCount, paid, together, resets>>
        BY DEF ProcessDies, RewardsInv, RewardsTypeOK
    <1>2. \A w \in Payer : (DOMAIN list[w])' = {}
        BY <1>1
    <1>3. hand' \in [Payer -> Hands]
        BY <1>1
    <1>4. /\ step' \in [LearningCall -> StepLabels]
          /\ \A c \in LearningCall : step'[c] \notin Seeking /\ (step[c] = "done" => step'[c] = "done")
        BY <1>1 DEF StepLabels, Seeking
    <1>5. RewardsTypeOK'
        BY <1>1, <1>2, <1>3, <1>4 DEF RewardsInv, RewardsTypeOK, StepLabels, Hands, NotLoaded
    <1>6. PayersOK'
        BY <1>1, <1>2 DEF RewardsInv, PayersOK, PayerOK, Holding, Unpaid
    <1>7. GrantsOK'
        BY <1>1, <1>4 DEF RewardsInv, GrantsOK, Granted, Seeking
    <1>8. PaymentsOK'
        BY <1>1 DEF PaymentsOK
    <1> QED
        BY <1>5, <1>6, <1>7, <1>8 DEF RewardsInv

\* No step of a payer takes a reward away, and none creates one; it may bring one back
\* when the cleanup has overtaken it.
LEMMA PayerGrantsNothing ==
    ASSUME RewardsTypeOK, PayersOK, NEW w \in Payer,
           StartPass(w) \/ StartRetry(w) \/ PayerStep(w) \/ SaveFails(w)
    PROVE  /\ UNCHANGED learningVars
           /\ \/ Granted' = Granted
              \/ \E r \in LearningCall : Created(r) /\ Granted' = Granted \cup {r}
    <1>1. UNCHANGED learningVars
        BY DEF StartPass, StartRetry, PayerStep, SaveFails, TakeReward, ResetReward, MarkProcessing,
               TransferBonkTokens, SaveCompleted, TransferFails, HandleRewardError
    <1>2. CASE reward' = reward
        BY <1>1, <1>2 DEF Granted
    <1>3. ASSUME payer[w] \in Holding, NEW status \in Statuses \ {"none"}, SaveReward(w, status)
          PROVE  \E r \in LearningCall : Created(r) /\ Granted' = Granted \cup {r}
        <2>1. /\ Created(hand[w].of) /\ hand[w].of \in LearningCall
              /\ reward \in [LearningCall -> Statuses]
            BY <1>3 DEF PayersOK, PayerOK, Created, RewardsTypeOK, Statuses
        <2>2. Granted' = Granted \cup {hand[w].of}
            BY <1>3, <2>1 DEF SaveReward, Granted, Statuses
        <2> QED
            BY <2>1, <2>2
    <1>4. \A tries : AfterFailure(tries) \in Statuses \ {"none"}
        BY DEF AfterFailure, Statuses
    <1>5. \/ reward' = reward
          \/ payer[w] \in Holding /\ \E status \in Statuses \ {"none"} : SaveReward(w, status)
        <2>1. CASE ResetReward(w)
            BY <2>1 DEF ResetReward, Holding, Unpaid, Statuses
        <2>2. CASE MarkProcessing(w)
            BY <2>2 DEF MarkProcessing, Holding, Unpaid, Statuses
        <2>3. CASE SaveCompleted(w)
            BY <2>3 DEF SaveCompleted, Holding, Unpaid, Statuses
        <2>4. CASE HandleRewardError(w)
            BY <1>4, <2>4 DEF HandleRewardError, Holding, Unpaid
        <2> QED
            BY <2>1, <2>2, <2>3, <2>4 DEF StartPass, StartRetry, PayerStep, SaveFails, TakeReward,
               TransferBonkTokens, TransferFails
    <1> QED
        BY <1>1, <1>2, <1>3, <1>5

\* The cleanup deletes failed rewards, none of which has been paid for while nothing
\* overlapped; a payer that has loaded one is overtaken.
LEMMA CleanupKeepsRewards ==
    ASSUME RewardsInv, CleanupOldFailedRewards
    PROVE  RewardsInv'
    <1> USE RewardBounds
    <1>1. PICK old \in SUBSET {r \in Granted : reward[r] = "FAILED"} :
              /\ reward' = [r \in LearningCall |-> IF r \in old THEN "none" ELSE reward[r]]
              /\ retryCount' = [r \in LearningCall |-> IF r \in old THEN 0 ELSE retryCount[r]]
              /\ overtaken' = (overtaken \/ \E w \in Payer, r \in old : Holds(w, r))
              /\ UNCHANGED <<learning, step, loaded, progress, concurrent, payingVars>>
        BY DEF CleanupOldFailedRewards
    <1>2. /\ \A r \in old : r \in LearningCall /\ reward[r] = "FAILED"
          /\ Granted' = Granted \ old
          /\ overtaken => overtaken'
        BY <1>1 DEF Granted
    <1>3. RewardsTypeOK'
        BY <1>1 DEF RewardsInv, RewardsTypeOK, payingVars
    <1>4. ASSUME NEW w \in Payer PROVE PayerOK(w)'
        <2>1. PayerOK(w)
            BY DEF RewardsInv, PayersOK
        <2>2. ASSUME NEW r, Created(r), Holds(w, r) PROVE Created(r)'
            BY <1>1, <1>2, <2>2 DEF Created
        <2>3. \A r \in DOMAIN list[w] : Holds(w, r)
            BY DEF Holds
        <2>4. payer[w] \in Holding => Holds(w, hand[w].of)
            BY DEF Holds, Holding, Unpaid
        <2> QED
            BY <1>1, <2>1, <2>2, <2>3, <2>4 DEF PayerOK, payingVars
    <1>5. PayersOK'
        <2>1. \A r \in LearningCall : reward'[r] \in {"none", "PENDING"} => retryCount'[r] < MaxRetries
            BY <1>1 DEF RewardsInv, PayersOK
        <2>2. DOMAIN list' = Payer
            BY <1>1 DEF RewardsInv, PayersOK, payingVars
        <2> QED
            BY <1>4, <2>1, <2>2 DEF PayersOK
    <1>6. GrantsOK'
        BY <1>1, <1>2 DEF RewardsInv, GrantsOK, Seeking
    <1>7. PaymentsOK'
        <2>1. \A r \in LearningCall : Settling(r) => Settling(r)'
            BY <1>1, <1>2 DEF Settling, payingVars
        <2>2. \A w \in Payer : (AtWork(w)' <=> AtWork(w)) /\ (WorkOK(w)' <=> WorkOK(w))
            BY <1>1 DEF AtWork, WorkOK, payingVars
        <2> QED
            BY <1>1, <2>1, <2>2 DEF RewardsInv, PaymentsOK, payingVars
    <1> QED
        BY <1>3, <1>5, <1>6, <1>7 DEF RewardsInv

LEMMA RewardsStep == RewardsInv /\ [RewardsNext]_rewardsVars => RewardsInv'
    <1> SUFFICES ASSUME RewardsInv, [RewardsNext]_rewardsVars PROVE RewardsInv'
        OBVIOUS
    <1>1. ASSUME NEW c \in LearningCall, LearningStep(c) PROVE RewardsInv'
        BY <1>1, LearningSteps
    <1>2. ASSUME NEW w \in Payer, StartPass(w) \/ StartRetry(w) \/ PayerStep(w) \/ SaveFails(w)
          PROVE  RewardsInv'
        <2>1. RewardsTypeOK' /\ PayersOK' /\ PaymentsOK'
            BY <1>2, PayerSteps DEF RewardsInv
        <2>2. /\ UNCHANGED learningVars
              /\ \/ Granted' = Granted
                 \/ \E r \in LearningCall : Created(r) /\ Granted' = Granted \cup {r}
            BY <1>2, PayerGrantsNothing DEF RewardsInv
        <2>3. ASSUME Granted' = Granted PROVE GrantsOK'
            BY <2>2, <2>3 DEF RewardsInv, GrantsOK, learningVars
        <2>4. ASSUME NEW r \in LearningCall, Created(r), Granted' = Granted \cup {r}
              PROVE  GrantsOK'
            BY <2>2, <2>3, <2>4 DEF RewardsInv, GrantsOK, Created, Seeking, learningVars
        <2> QED
            BY <2>1, <2>2, <2>3, <2>4 DEF RewardsInv
    <1>3. ASSUME UNCHANGED rewardsVars PROVE RewardsInv'
        <2>1. RewardsTypeOK'
            BY <1>3 DEF RewardsInv, RewardsTypeOK, rewardsVars, learningVars, payingVars
        <2>2. PayersOK' /\ GrantsOK'
            BY <1>3 DEF RewardsInv, PayersOK, PayerOK, GrantsOK, Created, Granted, rewardsVars, learningVars, payingVars
        <2>3. PaymentsOK'
            BY <1>3 DEF RewardsInv, PaymentsOK, WorkOK, AtWork, Settling, rewardsVars, learningVars, payingVars
        <2> QED
            BY <2>1, <2>2, <2>3 DEF RewardsInv
    <1> QED
        BY <1>1, <1>2, <1>3, DeathKeepsRewards, CleanupKeepsRewards DEF RewardsNext

LEMMA RewardsInvariant == RewardsSpec => []RewardsInv
    BY RewardsAtStart, RewardsStep, PTL DEF RewardsSpec

\* The rewards part keeps its types: no save of a payer writes a retryCount above
\* maxRetries, and no payer holds a reward that does not exist.
THEOREM RewardsTypesHold == RewardsSpec => []RewardsTypeOK
    BY RewardsInvariant, PTL DEF RewardsInv

\* However many requests complete the module and ask for its reward, a second one beside
\* the first takes two of them at once in processRewards, or a payer that saves a reward
\* which the cleanup has deleted.
THEOREM OneRewardUnlessOverlap == RewardsSpec => []SecondRewardNeedsOverlap
    <1>1. RewardsInv => SecondRewardNeedsOverlap
        BY DEF RewardsInv, GrantsOK, SecondRewardNeedsOverlap
    <1> QED
        BY <1>1, RewardsInvariant, PTL

\* However many passes and retries there are and whatever transfers fail, a reward is
\* paid twice only when two payers overlapped or a save was lost.
THEOREM PaidOnceUnlessOverlap == RewardsSpec => []PaidTwiceNeedsOverlap
    <1>1. RewardsInv => PaidTwiceNeedsOverlap
        <2> SUFFICES ASSUME RewardsInv, NEW r \in LearningCall, paid[r] > 1, ~together, ~(crashes > 0)
                     PROVE  FALSE
            BY DEF PaidTwiceNeedsOverlap
        <2>1. crashes = 0 /\ paid[r] \in Nat
            BY RewardBounds DEF RewardsInv, RewardsTypeOK
        <2> QED
            BY <2>1 DEF RewardsInv, PaymentsOK
    <1> QED
        BY <1>1, RewardsInvariant, PTL

-----------------------------------------------------------------------------
(* The parts together. *)

\* A step of Accounts is a step of the part that moves, and no step of any other.
LEMMA StepOfParts ==
    [AccountsNext]_accountsVars =>
        /\ [SessionNext]_sessionVars
        /\ [OnboardingNext]_onboardingVars
        /\ [WalletCacheNext]_walletCacheVars
        /\ [VerificationNext]_verificationVars
        /\ [RewardsNext]_rewardsVars
        /\ [LimiterNext]_limiterVars
        /\ UNCHANGED part
    <1> SUFFICES ASSUME [AccountsNext]_accountsVars
                 PROVE  /\ [SessionNext]_sessionVars
                        /\ [OnboardingNext]_onboardingVars
                        /\ [WalletCacheNext]_walletCacheVars
                        /\ [VerificationNext]_verificationVars
                        /\ [RewardsNext]_rewardsVars
                        /\ [LimiterNext]_limiterVars
                        /\ UNCHANGED part
        OBVIOUS
    <1>1. CASE SessionMoves /\ SessionNext
        BY <1>1 DEF SessionMoves
    <1>2. CASE OnboardingMoves /\ OnboardingNext
        BY <1>2 DEF OnboardingMoves
    <1>3. CASE WalletMoves /\ WalletCacheNext
        BY <1>3 DEF WalletMoves
    <1>4. CASE VerificationMoves /\ VerificationNext
        BY <1>4 DEF VerificationMoves
    <1>5. CASE RewardsMove /\ RewardsNext
        BY <1>5 DEF RewardsMove
    <1>6. CASE LimiterMoves /\ LimiterNext
        BY <1>6 DEF LimiterMoves
    <1>7. CASE UNCHANGED accountsVars
        BY <1>7 DEF accountsVars
    <1> QED
        BY <1>1, <1>2, <1>3, <1>4, <1>5, <1>6, <1>7 DEF AccountsNext

\* A behaviour of Accounts is a behaviour of each of its parts: the composition gives no
\* part a step that it does not have alone.
THEOREM PartsBehave ==
    AccountsSpec => /\ SessionSpec /\ OnboardingSpec /\ WalletCacheSpec
                    /\ VerificationSpec /\ RewardsSpec /\ LimiterSpec
    <1>1. AccountsInit => /\ SessionInit /\ OnboardingInit /\ WalletCacheInit
                          /\ VerificationInit /\ RewardsInit /\ LimiterInit
        BY DEF AccountsInit
    <1> QED
        BY <1>1, StepOfParts, PTL
        DEF AccountsSpec, SessionSpec, OnboardingSpec, WalletCacheSpec, VerificationSpec, RewardsSpec, LimiterSpec

\* Every part of the account keeps its types, the part that moves included.
THEOREM AccountsTypesHold == AccountsSpec => []AccountsTypeOK
    <1>1. AccountsSpec => [](part \in Parts)
        <2>1. AccountsInit => part \in Parts
            BY DEF AccountsInit
        <2>2. part \in Parts /\ UNCHANGED part => (part \in Parts)'
            OBVIOUS
        <2> QED
            BY <2>1, <2>2, StepOfParts, PTL DEF AccountsSpec
    <1>2. /\ part \in Parts /\ SessionTypeOK /\ OnboardingTypeOK /\ WalletCacheTypeOK
          /\ VerificationTypeOK /\ RewardsTypeOK /\ LimiterTypeOK
          => AccountsTypeOK
        BY DEF AccountsTypeOK
    <1> QED
        BY <1>1, <1>2, PartsBehave, SessionTypesHold, OnboardingTypesHold, WalletTypesHold,
           VerificationTypesHold, RewardsTypesHold, LimiterTypeCorrect, PTL

\* What is proved of the parts holds of the account: nobody uses a session that has
\* ended, session time that was answered is kept as far as the shortest length of a
\* session, a signing call is refused only for a reason that it or Para gave, logins
\* meet one user and none but their own, nobody is verified without a cause or somebody
\* who set it, second wallets, rewards and payments take an overlap, a lost save or a
\* cleanup, changes show in time, and the limiter limits.
THEOREM AccountsAreSafe ==
    AccountsSpec =>
        [](/\ EndedSessionAdmitsNobody /\ PromiseKept /\ SigningNeedsOnlyPara
           /\ SameUserEachLogin /\ NoStranger /\ LoginLeavesWallet
           /\ SecondWalletNeedsOverlap /\ ChangeSeenInTime
           /\ VerifiedNeedsCause /\ StatusFollowsVerification
           /\ SecondRewardNeedsOverlap /\ PaidTwiceNeedsOverlap
           /\ TwiceTheLimitAtMost /\ RetryAfterSuffices)
    BY PartsBehave, EndedSessionsAdmitNobody, PromisesAreKept, SigningIsParasToRefuse,
       OnePersonOneUser, NobodyElsesUser, WalletsOfLogins, OneWalletUnlessOverlap, WalletChangesShow,
       NobodyVerifiedWithoutCause, StatusFollows, OneRewardUnlessOverlap, PaidOnceUnlessOverlap,
       LimitHolds, RetryAfterHolds, PTL
=============================================================================
