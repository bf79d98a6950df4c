---------------------------- MODULE ParaSessions ----------------------------
(***************************************************************************)
(* The sessions Map of ParaSdkSessionManager, for one token, and the calls *)
(* that use it: POST /auth/session/validate (and the guard in front of     *)
(* every protected endpoint), /keep-alive, /refresh and /jwt, and the      *)
(* signing of a transfer, which imports a session the Map does not have    *)
(* when the request brings one.                                            *)
(*                                                                         *)
(* A call reads its entry before it asks Para and uses the same object     *)
(* after, although the Map may have dropped or replaced it meanwhile, so   *)
(* entries live on when they are out of the Map.  Times are counted down:  *)
(* an expiry is the ticks left, -1 when it has passed.  Two lengths meet   *)
(* here: the one Para is configured with, which its sessions and their     *)
(* JWTs last, and the 30 minutes the manager writes on its own account.    *)
(***************************************************************************)
EXTENDS Integers

CONSTANTS
    SessionCall,    \* the calls that use the token
    Endpoints,      \* what they may be: functions from calls to endpoints
    SessionLength,  \* ticks a session lasts at Para from its last extension
    DefaultLength,  \* the ticks of the manager's own 30 minutes
    MaxRestarts     \* bound on restarts of the process

ASSUME EndpointAssumption ==
    /\ Endpoints \subseteq
           [SessionCall -> {"validate", "keepAlive", "refresh", "jwt", "sign", "signBare"}]
    /\ "login" \notin SessionCall /\ "none" \notin SessionCall
ASSUME LengthAssumption ==
    SessionLength \in Nat /\ DefaultLength \in Nat /\ MaxRestarts \in Nat

VARIABLES
    endpoint,   \* what each call is
    paraLeft,   \* ticks until Para ends its session
    slot,       \* sessions.get(token): the entry, or "none"
    left,       \* left[e]: ticks until expiresAt of entry e
    isActive,   \* isActive[e], the manager's flag
    at,         \* the await a call stands at
    entry,      \* sessionInfo: the entry a call has read
    promised,   \* the expiresAt a login or call was answered with, at most Shortest
    failed,     \* the calls that had a request to Para end in an exception
    late,       \* the calls that arrived after Para had ended its session
    unpromised, \* the "signBare" calls that arrived when no promise was outstanding
    slow,       \* the calls that stood at an await when time last passed
    restarts    \* restarts so far

sessionVars == <<endpoint, paraLeft, slot, left, isActive, at, entry, promised, failed, late,
                 unpromised, slow, restarts>>
ghosts == <<endpoint, promised, failed, late, unpromised, slow, restarts>>

\* The login's import, and the import of each signing call, makes one entry.
Entry == {"login"} \cup SessionCall
Shortest == IF SessionLength < DefaultLength THEN SessionLength ELSE DefaultLength
Longest == IF SessionLength < DefaultLength THEN DefaultLength ELSE SessionLength
Ticks == -1 .. Longest
Signing == {"sign", "signBare"}
AtPara == {"asking", "checking", "keeping", "issuing", "importing", "verifying", "sending"}
Outcome == {"accepted", "refused", "gone"}

ParaAlive == paraLeft >= 0
AtMostShortest(n) == IF n < Shortest THEN n ELSE Shortest
InMap == slot # "none"
Step(c, label) == at' = [at EXCEPT ![c] = label]

-----------------------------------------------------------------------------
(* Mutated forms of definitions below, each a plausible slip in the code.  No  *)
(* specification uses them; they show that the properties notice such a slip.  *)

\* The extension counts from the old end of the session.
ExtendedFromOld(old) == old + DefaultLength

\* The answer of isSessionActive is not looked at.
TrustsParaBlindly(c, label) == Step(c, label) /\ UNCHANGED isActive

\* The sweep compares the wrong way round.
DueTooEarly(e) == left[e] >= 0 \/ ~isActive[e]

\* Signing relies on the import of the login.
LookUpOnly(c) ==
    /\ Step(c, IF InMap /\ isActive[slot] THEN "sending" ELSE "refused")
    /\ UNCHANGED <<slot, entry>>

\* The sweep only looks at the flag.
DueWhenInactive(e) == ~isActive[e]

-----------------------------------------------------------------------------
\* keepSessionAlive writes 30 minutes from now, whatever the session had left.
KeptAlive(old) == DefaultLength

\* The exp of a JWT that Para has just issued, or 30 minutes when it shows none.
JwtLengths == {SessionLength, DefaultLength}

\* sessions.get(token), and the early return when it is missing or inactive.
Get(c, label) ==
    IF InMap /\ isActive[slot]
    THEN Step(c, label) /\ entry' = [entry EXCEPT ![c] = slot]
    ELSE Step(c, "refused") /\ UNCHANGED entry

\* validateSession up to its await; l holds the expiries it compares.
StartValidation(c, l) ==
    IF InMap /\ l[slot] < 0
    THEN slot' = "none" /\ Step(c, "refused") /\ UNCHANGED entry
    ELSE Get(c, "asking") /\ UNCHANGED slot

\* A signing call about to import the bare token, because its request brings no
\* paraSerializedSession.
BareImport(c) == at[c] = "importing" /\ endpoint[c] = "signBare"

\* getParaServer, which looks at the flag and not at the expiry.
GetParaServer(c) ==
    /\ IF InMap /\ isActive[slot] THEN Step(c, "sending") ELSE Step(c, "importing")
    /\ UNCHANGED <<slot, entry>>

\* What follows isSessionActive: the flag of the entry read before is cleared
\* when Para says no.
AfterParaSays(c, label) ==
    IF ParaAlive THEN Step(c, label) /\ UNCHANGED isActive
    ELSE Step(c, "refused") /\ isActive' = [isActive EXCEPT ![entry[c]] = FALSE]

SessionInit ==
    /\ endpoint \in Endpoints
    /\ paraLeft = SessionLength
    /\ slot = "login"
    /\ \E n \in JwtLengths : left = [e \in Entry |-> IF e = "login" THEN n ELSE -1]
    /\ isActive = [e \in Entry |-> e = "login"]
    /\ at = [c \in SessionCall |-> "new"]
    /\ entry = [c \in SessionCall |-> "login"]
    /\ promised = [e \in Entry |-> IF e = "login" THEN Shortest ELSE -1]
    /\ failed = {}
    /\ late = {}
    /\ unpromised = {}
    /\ slow = {}
    /\ restarts = 0

SessionTypeOK ==
    /\ endpoint \in Endpoints
    /\ paraLeft \in Ticks
    /\ slot \in Entry \cup {"none"}
    /\ left \in [Entry -> Ticks]
    /\ isActive \in [Entry -> BOOLEAN]
    /\ at \in [SessionCall -> {"new"} \cup AtPara \cup Outcome]
    /\ entry \in [SessionCall -> Entry]
    /\ promised \in [Entry -> -1 .. Shortest]
    /\ failed \subseteq SessionCall
    /\ late \subseteq SessionCall
    /\ unpromised \subseteq SessionCall
    /\ slow \subseteq SessionCall
    /\ restarts \in 0 .. MaxRestarts

-----------------------------------------------------------------------------
\* SessionValidationGuard and POST /auth/session/validate.  The guard also looks the
\* user up, which can only refuse the request.
ValidateRequest(c) == endpoint[c] = "validate" /\ StartValidation(c, left)

\* The other session endpoints: the first look into the Map of each.
CallSessionEndpoint(c) ==
    /\ \/ endpoint[c] = "keepAlive" /\ Get(c, "checking")
       \/ endpoint[c] = "refresh" /\ Get(c, "keeping")
       \/ endpoint[c] = "jwt" /\ Get(c, "issuing")
    /\ UNCHANGED slot

\* signAndSendWithPara up to its first await.
SignTransfer(c) == endpoint[c] \in Signing /\ GetParaServer(c)

Arrive(c) ==
    /\ at[c] = "new"
    /\ late' = IF ParaAlive THEN late ELSE late \cup {c}
    /\ unpromised' = IF endpoint[c] = "signBare" /\ \A e \in Entry : promised[e] <= 0
                     THEN unpromised \cup {c} ELSE unpromised
    /\ ValidateRequest(c) \/ CallSessionEndpoint(c) \/ SignTransfer(c)
    /\ UNCHANGED <<endpoint, paraLeft, left, isActive, promised, failed, slow, restarts>>

\* isSessionActive answers validateSession.  A validated request is compared with
\* the expiry again, by SessionValidationService; a refresh is answered with it.
ParaAnswersValidation(c) ==
    /\ at[c] = "asking"
    /\ IF endpoint[c] = "validate"
       THEN /\ AfterParaSays(c, IF left[entry[c]] >= 0 THEN "accepted" ELSE "refused")
            /\ UNCHANGED promised
       ELSE /\ AfterParaSays(c, "accepted")
            /\ promised' = [promised EXCEPT
                   ![c] = IF ParaAlive THEN AtMostShortest(left[entry[c]]) ELSE -1]
    /\ UNCHANGED <<endpoint, paraLeft, slot, left, entry, failed, late, unpromised, slow, restarts>>

\* The keep-alive endpoint asks first and then refreshes, which reads the Map anew.
ParaAnswersCheck(c) ==
    /\ at[c] = "checking"
    /\ IF ParaAlive THEN Get(c, "keeping") /\ UNCHANGED isActive
       ELSE AfterParaSays(c, "refused") /\ UNCHANGED entry
    /\ UNCHANGED <<paraLeft, slot, left, ghosts>>

\* keepSessionAlive extends the entry it has read, in the Map or not; then
\* refreshSession validates the token.
ParaKeepsAlive(c) ==
    /\ at[c] = "keeping"
    /\ IF ParaAlive
       THEN /\ paraLeft' = SessionLength
            /\ left' = [left EXCEPT ![entry[c]] = KeptAlive(@)]
            /\ StartValidation(c, left')
            /\ UNCHANGED isActive
       ELSE /\ AfterParaSays(c, "refused")
            /\ UNCHANGED <<paraLeft, left, slot, entry>>
    /\ UNCHANGED ghosts

ParaIssuesJwt(c) ==
    /\ at[c] = "issuing"
    /\ IF ParaAlive
       THEN /\ paraLeft' = SessionLength
            /\ \E n \in JwtLengths : left' = [left EXCEPT ![entry[c]] = n]
            /\ Step(c, "accepted")
       ELSE Step(c, "refused") /\ UNCHANGED <<paraLeft, left>>
    /\ UNCHANGED <<slot, isActive, entry, ghosts>>

\* importSession for a signing call that brings its session.  When the JWT cannot be
\* issued, because the session is over or the request fails, extractUserInfo makes
\* up a user and 30 minutes, and the import succeeds all the same.
ImportSession(c) ==
    /\ at[c] = "importing" /\ ~BareImport(c)
    /\ \/ /\ ParaAlive
          /\ paraLeft' = SessionLength
          /\ \E n \in JwtLengths : left' = [left EXCEPT ![c] = n]
       \/ /\ left' = [left EXCEPT ![c] = DefaultLength]
          /\ UNCHANGED paraLeft
    /\ slot' = c
    /\ isActive' = [isActive EXCEPT ![c] = TRUE]
    /\ entry' = [entry EXCEPT ![c] = c]
    /\ Step(c, "verifying")
    /\ UNCHANGED ghosts

\* The bare token is no session that could be imported: the import throws before Para
\* is asked anything, and signing has no ParaServer to go on with.
BareImportFails(c) ==
    /\ BareImport(c)
    /\ Step(c, "refused")
    /\ UNCHANGED <<paraLeft, slot, left, isActive, entry, ghosts>>

\* The check after the import.  A "no" revokes whatever the Map now holds for the
\* token; the exception is caught right there, and signing goes on.
VerifyImport(c) ==
    /\ at[c] = "verifying"
    /\ Step(c, "sending")
    /\ IF ~ParaAlive /\ InMap
       THEN slot' = "none" /\ isActive' = [isActive EXCEPT ![slot] = FALSE]
       ELSE UNCHANGED <<slot, isActive>>
    /\ UNCHANGED <<paraLeft, left, entry, ghosts>>

\* Para signs and sends the transfer while its session lasts.
Sign(c) ==
    /\ at[c] = "sending"
    /\ Step(c, IF ParaAlive THEN "accepted" ELSE "refused")
    /\ UNCHANGED <<paraLeft, slot, left, isActive, entry, ghosts>>

\* A request to Para ends in an exception: every method catches it and answers
\* no, except the check after an import, which only logs it.
ParaCallFails(c) ==
    /\ at[c] \in AtPara /\ ~BareImport(c)
    /\ failed' = failed \cup {c}
    /\ Step(c, IF at[c] = "verifying" THEN "sending" ELSE "refused")
    /\ UNCHANGED <<endpoint, paraLeft, slot, left, isActive, entry, promised, late, unpromised, slow,
                   restarts>>

-----------------------------------------------------------------------------
\* cleanupExpiredSessions, every five minutes.
Due(e) == left[e] < 0 \/ ~isActive[e]

CleanupExpiredSessions ==
    /\ InMap
    /\ Due(slot)
    /\ slot' = "none"
    /\ UNCHANGED <<paraLeft, left, isActive, at, entry, ghosts>>

\* The Map dies with the process, and so do the calls and what they promised.
Restart ==
    /\ restarts < MaxRestarts
    /\ restarts' = restarts + 1
    /\ slot' = "none"
    /\ at' = [c \in SessionCall |-> IF at[c] \in AtPara THEN "gone" ELSE at[c]]
    /\ promised' = [e \in Entry |-> -1]
    /\ UNCHANGED <<endpoint, paraLeft, left, isActive, entry, failed, late, unpromised, slow>>

\* The user logs out at Para, or goes on using Para, which extends the session.
ParaEnds ==
    /\ ParaAlive
    /\ paraLeft' = -1
    /\ UNCHANGED <<slot, left, isActive, at, entry, ghosts>>

ClientUsesPara ==
    /\ ParaAlive
    /\ paraLeft' = SessionLength
    /\ UNCHANGED <<slot, left, isActive, at, entry, ghosts>>

CountDown(n) == IF n < 0 THEN n ELSE n - 1

\* A call is not under way for a whole session: at most one tick passes over it.
Tick ==
    /\ \A c \in slow : at[c] \notin AtPara
    /\ slow' = {c \in SessionCall : at[c] \in AtPara}
    /\ paraLeft' = CountDown(paraLeft)
    /\ left' = [e \in Entry |-> CountDown(left[e])]
    /\ promised' = [e \in Entry |-> CountDown(promised[e])]
    /\ UNCHANGED <<endpoint, slot, isActive, at, entry, failed, late, unpromised, restarts>>

SessionStep(c) ==
    \/ ParaAnswersValidation(c) \/ ParaAnswersCheck(c) \/ ParaKeepsAlive(c)
    \/ ParaIssuesJwt(c) \/ ImportSession(c) \/ BareImportFails(c) \/ VerifyImport(c)
    \/ Sign(c) \/ ParaCallFails(c)

SessionNext ==
    \/ \E c \in SessionCall : Arrive(c) \/ SessionStep(c)
    \/ CleanupExpiredSessions \/ Restart \/ ParaEnds \/ ClientUsesPara \/ Tick

SessionSpec == SessionInit /\ [][SessionNext]_sessionVars

\* Time passes, the timer fires and requests to Para end; nobody promises that
\* calls arrive.
SessionFairSpec ==
    /\ SessionSpec
    /\ WF_sessionVars(Tick)
    /\ WF_sessionVars(CleanupExpiredSessions)
    /\ \A c \in SessionCall : WF_sessionVars(SessionStep(c))

-----------------------------------------------------------------------------
(* Properties. *)

\* Once Para has ended the session, no call that arrives later gets anything from
\* the token, whatever the Map, an extension under way or an import still says.
EndedSessionAdmitsNobody == \A c \in late : at[c] # "accepted"

\* A client that was told how long its session lasts (login, refresh, keep-alive) is
\* not logged out by this server before the shorter of the two lengths is over: the
\* token stays in the Map, active and with that expiry, unless Para ends the session
\* or the process restarts.  No more can be said of the answer: the next keep-alive,
\* JWT or import writes its own length, be it shorter than what was answered before.
\* Nor can the last tick: of two signing calls that import the token at once, the
\* entry that stays may be the older one, by the time of a request to Para.  (The jwt
\* endpoint promises nothing of the kind: it may extend an entry the Map has dropped.)
PromiseKept ==
    \A e \in Entry :
        promised[e] > 0 /\ ParaAlive => InMap /\ isActive[slot] /\ left[slot] >= promised[e] - 1

\* A transfer that brings its session is refused for it only when Para has ended it
\* or a request to Para failed: a restart, an expiry the Map has not seen extended or
\* a revocation by another call does not lose it.  One that relies on the Map is
\* refused only then, or when it came at a time at which no client held an answer
\* that its session lasts any longer (after a restart, or once it has run out).
SigningNeedsOnlyPara ==
    \A c \in SessionCall :
        endpoint[c] \in Signing /\ at[c] = "refused" =>
            ~ParaAlive \/ c \in failed \/ (endpoint[c] = "signBare" /\ c \in unpromised)

\* The Map does not keep the token of a session that Para has ended, although
\* signing calls import it again.
EndedSessionLeavesTheMap == ~ParaAlive ~> ~InMap
=============================================================================
