---------------------------- MODULE Verification ----------------------------
(***************************************************************************)
(* The verification state of one user row and everybody who writes it: the *)
(* profile and KYC requests, the PATCH and update-from-session endpoints,  *)
(* suspension, activation and removal, logins, and the Sumsub service,     *)
(* whose review reaches the row by polling and by webhooks that may be     *)
(* late, repeated or lost.                                                 *)
(*                                                                         *)
(* Every writer loads the row, changes a field or two and saves it.  The   *)
(* save compares the loaded object with the database and writes back what  *)
(* differs, which is the object as a whole: a save undoes what others have *)
(* written since its load.                                                 *)
(***************************************************************************)
EXTENDS Integers

CONSTANTS
    Request,        \* the requests that write the row
    Kinds,          \* what they may be: functions from requests to kinds
    FirstRows,      \* the rows a login or POST /user may have created
    Reviews,        \* the reviews Sumsub may give: [answer, status]
    MaxReviews,     \* bound on reviews
    MaxFaults       \* bound on requests that end before their last save

Writer == {"profile", "kyc", "patch", "refresh", "suspend", "activate", "remove", "login"}
Kind == Writer \cup {"apply", "webhook", "poll"}

\* What a profile may be complete for: isProfileComplete and validateKycCompletion ask
\* for different things (both names, neither of them "User"; a well-formed address and
\* number), so that either may hold without the other.
Complete == {"profile", "kyc"}
Row == [active : BOOLEAN, complete : SUBSET Complete,
        verification : {"PENDING", "VERIFIED", "REJECTED"},
        status : {"PENDING", "ACTIVE", "SUSPENDED"}, kyc : {"PENDING", "VERIFIED"}]

\* A login creates a row with the columns' defaults; POST /user takes isActive and
\* verificationStatus from the body and makes the status ACTIVE.
Defaults == [status |-> "PENDING", verification |-> "PENDING"]
CreatedRows ==
    {x \in Row : /\ x.kyc = "PENDING"
                 /\ \/ x.active /\ x.status = Defaults.status /\ x.verification = Defaults.verification
                    \/ x.status = "ACTIVE"}

ASSUME VerificationAssumption ==
    /\ Kinds \subseteq [Request -> Kind]
    /\ FirstRows \subseteq CreatedRows
    /\ Reviews \subseteq [answer : {"none", "GREEN", "RED"}, status : {"pending", "completed", "rejected"}]
    /\ MaxReviews \in Nat /\ MaxFaults \in Nat

VARIABLES
    kind,       \* what each request is
    row,        \* the user row
    applicant,  \* the applicant row: FALSE until it is stored
    atSumsub,   \* Sumsub has the applicant
    review,     \* its review at Sumsub now
    issued,     \* the reviews Sumsub has given, any of which a webhook may bring
    doing,      \* the await a request stands at
    copy,       \* the row a request has loaded
    brought,    \* the review a request acts on
    completed,  \* what the profile has been complete for at some time
    byHand,     \* the columns that POST, PATCH or activate have set to a value
    reviews,    \* reviews given so far
    faults      \* requests that have ended early so far

verificationVars == <<kind, row, applicant, atSumsub, review, issued, doing, copy, brought,
                      completed, byHand, reviews, faults>>
sumsub == <<atSumsub, review, issued, reviews>>

NoReview == [answer |-> "none", status |-> "pending"]
Saving == {"saving", "savingKyc", "savingVerified"}
UnderWay == Saving \cup {"creating", "storing", "loadingKyc", "loadingVerified"}
Do(r, label) == doing' = [doing EXCEPT ![r] = label]
Go(r, label) == Do(r, label) /\ UNCHANGED <<copy, brought>>
Load(r, label) == Do(r, label) /\ copy' = [copy EXCEPT ![r] = row] /\ UNCHANGED brought

\* A request that ends forgets what it has loaded; the client of a poll asks again.
Blank == [active |-> FALSE, complete |-> {}, verification |-> "PENDING",
            status |-> "PENDING", kyc |-> "PENDING"]
Done(r) ==
    /\ Do(r, IF kind[r] = "poll" THEN "new" ELSE "done")
    /\ copy' = [copy EXCEPT ![r] = Blank]
    /\ brought' = [brought EXCEPT ![r] = NoReview]

\* The columns that somebody who turns one row into another sets.
Written(old, new) ==
    (IF new.status # old.status THEN {"status"} ELSE {})
        \cup (IF new.verification # old.verification THEN {"verification"} ELSE {})

-----------------------------------------------------------------------------
(* Mutated forms of definitions below, each a plausible slip in the code.  No  *)
(* specification uses them; they show that the properties notice such a slip.  *)

\* The verification is set without the status of the account.
VerifiedOnly(r) == [copy[r] EXCEPT !.verification = "VERIFIED"]

\* Any answer at all counts as a positive one.
AnswerGiven(s) == s.answer # "none" \/ s.status # "pending"

\* The answer is compared as Sumsub spells it in other places, and nothing else.
LowerCaseAnswer(s) == s.answer = "green"

-----------------------------------------------------------------------------
\* isVerified: a green answer, or a finished review whatever its answer.
IsVerified(s) == s.answer = "GREEN" \/ s.status = "completed"

\* What syncUserVerification writes first, and what it and completeProfile write last.
WithKycStatus(c, s) == [c EXCEPT !.kyc = IF IsVerified(s) THEN "VERIFIED" ELSE "PENDING"]
Verified(r) == [copy[r] EXCEPT !.verification = "VERIFIED", !.status = "ACTIVE"]

VerificationInit ==
    /\ kind \in Kinds
    /\ row \in FirstRows
    /\ applicant = FALSE
    /\ atSumsub = FALSE
    /\ review = NoReview
    /\ issued = {}
    /\ doing = [r \in Request |-> "new"]
    /\ copy = [r \in Request |-> Blank]
    /\ brought = [r \in Request |-> NoReview]
    /\ completed = row.complete
    /\ byHand = Written(Defaults, row)
    /\ reviews = 0
    /\ faults = 0

VerificationTypeOK ==
    /\ kind \in Kinds
    /\ row \in Row
    /\ applicant \in BOOLEAN /\ atSumsub \in BOOLEAN
    /\ completed \subseteq Complete /\ byHand \subseteq {"status", "verification"}
    /\ review \in Reviews \cup {NoReview}
    /\ issued \subseteq Reviews
    /\ doing \in [Request -> UnderWay \cup {"new", "done"}]
    /\ copy \in [Request -> Row]
    /\ brought \in [Request -> Reviews \cup {NoReview}]
    /\ reviews \in 0 .. MaxReviews
    /\ faults \in 0 .. MaxFaults

-----------------------------------------------------------------------------
\* UserService.findOne refuses a removed user; KycService, updateUserFromSession and
\* the login do not look.
StartWrite(r) ==
    /\ doing[r] = "new"
    /\ kind[r] \in Writer
    /\ IF row.active \/ kind[r] \in {"kyc", "refresh", "login"} THEN Load(r, "saving")
       ELSE Done(r)
    /\ UNCHANGED <<kind, row, applicant, sumsub, completed, byHand, faults>>

\* What each request may make of the row it has loaded.  A profile, KYC or session
\* request replaces names and addresses, which may complete the profile or not; PATCH
\* may also set the flag, the status and the verification, each to any value, but
\* not the KYC status.  A login saves only a row it reactivates, after filling in what
\* is missing.
Changed(r) ==
    LET c == copy[r]
        refilled == {[c EXCEPT !.complete = m] : m \in SUBSET Complete}
    IN  CASE kind[r] \in {"profile", "refresh"} -> refilled
          [] kind[r] = "kyc" ->
                 {[x EXCEPT !.kyc = IF "kyc" \in x.complete THEN "VERIFIED" ELSE "PENDING"] :
                     x \in refilled}
          [] kind[r] = "patch"    -> {x \in Row : x.kyc = c.kyc}
          [] kind[r] = "suspend"  -> {[c EXCEPT !.status = "SUSPENDED"]}
          [] kind[r] = "activate" -> {[c EXCEPT !.status = "ACTIVE"]}
          [] kind[r] = "remove"   -> {[c EXCEPT !.active = FALSE]}
          [] kind[r] = "login"    ->
                 IF c.active THEN {row}
                 ELSE {[x EXCEPT !.active = TRUE] : x \in {x \in refilled : c.complete \subseteq x.complete}}

\* completeProfile goes on to a second update when the saved profile is complete.
Save(r) ==
    /\ doing[r] = "saving"
    /\ row' \in Changed(r)
    /\ completed' = completed \cup row'.complete
    /\ byHand' = byHand \cup (IF kind[r] \in {"patch", "activate"} THEN Written(copy[r], row') ELSE {})
    /\ IF kind[r] = "profile" /\ "profile" \in row'.complete THEN Go(r, "loadingVerified")
       ELSE Done(r)
    /\ UNCHANGED <<kind, applicant, sumsub, faults>>

\* createOrGetApplicant.  Of two that run at once, both may create the applicant at
\* Sumsub; the second insert is refused.
StartApplication(r) ==
    /\ doing[r] = "new"
    /\ kind[r] = "apply"
    /\ IF row.active /\ ~applicant THEN Go(r, "creating") ELSE Done(r)
    /\ UNCHANGED <<kind, row, applicant, sumsub, completed, byHand, faults>>

CreateApplicant(r) ==
    /\ doing[r] = "creating"
    /\ atSumsub' = TRUE
    /\ Go(r, "storing")
    /\ UNCHANGED <<kind, row, applicant, review, issued, reviews, completed, byHand, faults>>

StoreApplicant(r) ==
    /\ doing[r] = "storing"
    /\ applicant' = TRUE
    /\ Done(r)
    /\ UNCHANGED <<kind, row, sumsub, completed, byHand, faults>>

\* getStatus brings the review as it is now, a webhook one that was given once.
\* Without the applicant row a poll is refused and a webhook ignored.
StartReviewSync(r) ==
    /\ doing[r] = "new"
    /\ applicant
    /\ \/ kind[r] = "poll" /\ brought' = [brought EXCEPT ![r] = review]
       \/ kind[r] = "webhook" /\ \E s \in issued : brought' = [brought EXCEPT ![r] = s]
    /\ Do(r, "loadingKyc")
    /\ UNCHANGED <<kind, row, applicant, sumsub, copy, completed, byHand, faults>>

\* updateKycStatus finds the user whatever its status, update only an active one.
LoadForKyc(r) ==
    /\ doing[r] = "loadingKyc"
    /\ Load(r, "savingKyc")
    /\ UNCHANGED <<kind, row, applicant, sumsub, completed, byHand, faults>>

SaveKyc(r) ==
    /\ doing[r] = "savingKyc"
    /\ row' = WithKycStatus(copy[r], brought[r])
    /\ IF IsVerified(brought[r]) THEN Go(r, "loadingVerified") ELSE Done(r)
    /\ UNCHANGED <<kind, applicant, sumsub, completed, byHand, faults>>

LoadForVerified(r) ==
    /\ doing[r] = "loadingVerified"
    /\ IF row.active THEN Load(r, "savingVerified") ELSE Done(r)
    /\ UNCHANGED <<kind, row, applicant, sumsub, completed, byHand, faults>>

SaveVerified(r) ==
    /\ doing[r] = "savingVerified"
    /\ row' = Verified(r)
    /\ Done(r)
    /\ UNCHANGED <<kind, applicant, sumsub, completed, byHand, faults>>

\* A query or a request to Sumsub fails, or the process dies: what was saved stays.
RequestEnds(r) ==
    /\ faults < MaxFaults
    /\ doing[r] \in UnderWay
    /\ faults' = faults + 1
    /\ Done(r)
    /\ UNCHANGED <<kind, row, applicant, sumsub, completed, byHand>>

\* Sumsub reviews the applicant, and may review it again.
GiveReview ==
    /\ atSumsub
    /\ reviews < MaxReviews
    /\ review' \in Reviews \ {review}
    /\ issued' = issued \cup {review'}
    /\ reviews' = reviews + 1
    /\ UNCHANGED <<kind, row, applicant, atSumsub, doing, copy, brought, completed, byHand, faults>>

RequestStep(r) ==
    \/ Save(r) \/ CreateApplicant(r) \/ StoreApplicant(r) \/ LoadForKyc(r) \/ SaveKyc(r)
    \/ LoadForVerified(r) \/ SaveVerified(r)

StartPoll(r) == kind[r] = "poll" /\ StartReviewSync(r)

VerificationNext ==
    \/ \E r \in Request :
           StartWrite(r) \/ StartApplication(r) \/ StartReviewSync(r) \/ RequestStep(r) \/ RequestEnds(r)
    \/ GiveReview

VerificationSpec == VerificationInit /\ [][VerificationNext]_verificationVars

\* Requests end, and the client keeps asking for the status.
VerificationFairSpec ==
    /\ VerificationSpec
    /\ \A r \in Request : WF_verificationVars(RequestStep(r)) /\ WF_verificationVars(StartPoll(r))

-----------------------------------------------------------------------------
(* Properties. *)

\* Whatever is lost or written back, nobody's KYC is VERIFIED whose profile was never
\* complete for it and who never had a review that was green or finished; and nobody's
\* verification is, without a profile complete for that, such a review, or somebody who
\* set the column directly (POST and PATCH /user).  A stale save reverts a verification
\* and never invents one.
VerifiedNeedsCause ==
    LET reviewed == \E s \in issued : s.answer = "GREEN" \/ s.status = "completed"
    IN  /\ row.kyc = "VERIFIED" => "kyc" \in completed \/ reviewed
        /\ row.verification = "VERIFIED" =>
               "profile" \in completed \/ reviewed \/ "verification" \in byHand

\* As long as nobody sets status or verification directly (POST /user, PATCH /user/:id,
\* activate), the account's status follows its verification through all the stale
\* saves: an ACTIVE account is a VERIFIED one, and a VERIFIED one is not left PENDING,
\* so that UserVerificationGuard refuses nobody for having only half of it.
StatusFollowsVerification ==
    byHand = {} =>
        /\ row.status = "ACTIVE" => row.verification = "VERIFIED"
        /\ row.verification = "VERIFIED" => row.status # "PENDING"

\* A user whose review is finished for good, and who is not removed, ends up and
\* stays verified as long as the client polls, although webhooks with older
\* reviews and stale saves of other requests may undo it in between.
FinishedReviewGetsThrough ==
    (\E r \in Request : kind[r] = "poll") =>
        (<>[](review.status = "completed" /\ applicant /\ row.active)
            => <>[](row.verification = "VERIFIED" /\ row.kyc = "VERIFIED"))
=============================================================================
