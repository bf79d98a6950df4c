----------------------------- MODULE MCAccounts -----------------------------
(* Small instances of Accounts for TLC. *)
EXTENDS Accounts, TLC

CONSTANTS a, b, d, p, q, l1, l2, l3, e1, e2, e3, r1, r2, r3, r4, c1, c2, c3, c4

\* A signing call beside an extension and a validation, and one without its session
\* beside a JWT and a keep-alive.
SmallEndpoints ==
    { a :> "validate" @@ b :> "refresh" @@ d :> "sign",
      a :> "jwt" @@ b :> "keepAlive" @@ d :> "signBare" }

\* For liveness, where every call counts: an extension beside a signing call.
PairsOfEndpoints ==
    { b :> call @@ d :> "sign" : call \in {"refresh", "keepAlive", "jwt"} }

\* Two logins of one person and one of another, whose sessions show the same
\* columns, or different ones, or none.
SmallContacts ==
    { p :> {"email", "phone"} @@ q :> {"email"},
      p :> {} @@ q :> {"phone"} }
SmallCallers == { l1 :> p @@ l2 :> p @@ l3 :> q }

\* A wallet is connected beside every pair of changes that can collide with it.
SmallChanges ==
    { e1 :> "connect" @@ e2 :> second @@ e3 :> third :
          second \in {"connect", "readdress"}, third \in {"suspend", "activate", "disconnect"} }

\* Writers beside an application and its reviews, and beside each other.
SmallKinds ==
    { r1 :> "apply" @@ r2 :> "poll" @@ r3 :> "webhook" @@ r4 :> "suspend",
      r1 :> "apply" @@ r2 :> "poll" @@ r3 :> "remove" @@ r4 :> "login",
      r1 :> "apply" @@ r2 :> "webhook" @@ r3 :> "profile" @@ r4 :> "kyc",
      r1 :> "apply" @@ r2 :> "webhook" @@ r3 :> "patch" @@ r4 :> "activate",
      r1 :> "profile" @@ r2 :> "remove" @@ r3 :> "kyc" @@ r4 :> "suspend",
      r1 :> "remove" @@ r2 :> "patch" @@ r3 :> "refresh" @@ r4 :> "login",
      r1 :> "apply" @@ r2 :> "apply" @@ r3 :> "webhook" @@ r4 :> "profile" }

\* For liveness: what may stand in the way of a poll.  (A PATCH may write whatever a
\* suspension does.)
KindsWithPoll ==
    { r1 :> "apply" @@ r2 :> "poll" @@ r3 :> other :
          other \in {"webhook", "profile", "kyc", "patch"} }

\* A user that a login has just created, whose session shows an email, and one made
\* by POST /user with a whole profile.
CreatedByLogin ==
    { [active |-> TRUE, complete |-> {}, verification |-> "PENDING", status |-> "PENDING",
       kyc |-> "PENDING"] }
SmallFirstRows ==
    CreatedByLogin \cup
    { [active |-> TRUE, complete |-> Complete, verification |-> "PENDING", status |-> "ACTIVE",
       kyc |-> "PENDING"] }

\* A review that verifies and one that does not.
SmallReviews ==
    { [answer |-> "GREEN", status |-> "completed"], [answer |-> "RED", status |-> "rejected"] }

\* One reward for two payers, and requests that save the progress back.
OneRewardLearning ==
    { c1 :> "start" @@ c2 :> "complete" @@ c3 :> "update" @@ c4 :> "process",
      c1 :> "update" @@ c2 :> "complete" @@ c3 :> "start" @@ c4 :> "start" }

\* Two requests for the reward beside one payer.
TwoRewardsLearning ==
    { c1 :> "start" @@ c2 :> "complete" @@ c3 :> "process" @@ c4 :> "process" }
=============================================================================
