---------------------------- MODULE SessionProofs ----------------------------
(***************************************************************************)
(* Who is let in, for every number of calls, logins and people and every   *)
(* length of a session: what the token of a session is good for            *)
(* (ParaSessions), and at which user and wallet a login ends (Onboarding). *)
(***************************************************************************)
EXTENDS ParaSessions, Onboarding, TLAPS

-----------------------------------------------------------------------------
(* Sessions.                                                               *)
(*                                                                         *)
(* Para's session never comes back once it is over, so "late" and "refused *)
(* because Para said no" are settled for good.  The promise of an expiry   *)
(* needs more: what a refresh under way is about to promise must be good   *)
(* already, although the entry it has read may have left the Map meanwhile *)
(* and another refresh may extend that entry.                              *)

SignLabels == {"new", "importing", "verifying", "sending", "accepted", "refused", "gone"}

\* What a transfer may be refused for.
Excused(c) == ~ParaAlive \/ c \in failed \/ (endpoint[c] = "signBare" /\ c \in unpromised)

\* A transfer without its session that does not find one in the Map has come when
\* Para's was over or nobody had been promised anything: a promise keeps the token
\* in the Map.
LateOK(c) ==
    /\ c \in late => ~ParaAlive /\ at[c] \notin {"new", "accepted"}
    /\ endpoint[c] \in Signing =>
           /\ at[c] \in SignLabels
           /\ at[c] = "refused" => Excused(c)
    /\ BareImport(c) => ~ParaAlive \/ c \in unpromised

LateInv == \A c \in SessionCall : LateOK(c)

\* Only Para's no makes the entry of the token inactive.
ActiveWhileAlive == ParaAlive /\ InMap => isActive[slot]

\* The expiry of the Map's entry is full, but for the tick that a call stands through.
FullSince(c) == left[slot] >= Shortest - (IF c \in slow THEN 1 ELSE 0)

\* The entry a keep-alive is about to extend is the Map's, or an import has put a
\* new one into the Map since.
KeepingOK(c) ==
    at[c] = "keeping" /\ ParaAlive /\ InMap /\ slot # entry[c] => FullSince(c)

\* A refresh that waits for the answer it will promise by.
Refreshing(c) == at[c] = "asking" /\ endpoint[c] # "validate"

AskingOK(c) ==
    Refreshing(c) /\ ParaAlive /\ Shortest > 0 => InMap /\ FullSince(c)

\* What the client of a login or call was told.
PromiseOf(e) ==
    promised[e] > 0 /\ ParaAlive => InMap /\ isActive[slot] /\ left[slot] >= promised[e] - 1

PromiseInv ==
    /\ ActiveWhileAlive
    /\ \A e \in Entry : PromiseOf(e)
    /\ \A c \in SessionCall :
           /\ KeepingOK(c)
           /\ AskingOK(c)
           /\ c \in slow => at[c] # "new"

SessionInv == SessionTypeOK /\ LateInv /\ PromiseInv

Labels == {"new"} \cup AtPara \cup Outcome

LEMMA LengthIsNat == SessionLength \in Nat /\ DefaultLength \in Nat /\ MaxRestarts \in Nat
    BY LengthAssumption

LEMMA TheLengths ==
    /\ Shortest \in Nat /\ Longest \in Nat /\ Shortest <= Longest
    /\ SessionLength >= Shortest /\ SessionLength <= Longest
    /\ DefaultLength >= Shortest /\ DefaultLength <= Longest
    BY LengthIsNat DEF Shortest, Longest

LEMMA EndpointKinds ==
    ASSUME SessionTypeOK, NEW c \in SessionCall
    PROVE  endpoint[c] \in {"validate", "keepAlive", "refresh", "jwt", "sign", "signBare"}
    BY EndpointAssumption DEF SessionTypeOK

LEMMA StepMoves ==
    ASSUME SessionTypeOK, NEW c \in SessionCall, NEW label \in Labels, Step(c, label)
    PROVE  /\ at' \in [SessionCall -> Labels]
           /\ at'[c] = label /\ \A d \in SessionCall \ {c} : at'[d] = at[d]
    BY DEF SessionTypeOK, Step, Labels

\* sessions.get: the entry read is the Map's, and the call goes on only with one
\* that is active.
LEMMA GetMoves ==
    ASSUME SessionTypeOK, NEW c \in SessionCall, NEW label \in Labels, Get(c, label)
    PROVE  /\ at' \in [SessionCall -> Labels] /\ entry' \in [SessionCall -> Entry]
           /\ at'[c] \in {label, "refused"} /\ \A d \in SessionCall \ {c} : at'[d] = at[d]
           /\ at'[c] # "refused" => InMap /\ isActive[slot] /\ entry'[c] = slot
           /\ \A d \in SessionCall \ {c} : entry'[d] = entry[d]
    <1>1. "refused" \in Labels
        BY DEF Labels, Outcome
    <1>2. CASE InMap /\ isActive[slot]
        <2>1. Step(c, label) /\ entry' = [entry EXCEPT ![c] = slot]
            BY <1>2 DEF Get
        <2>2. slot \in Entry
            BY <1>2 DEF InMap, SessionTypeOK
        <2> QED
            BY <1>2, <2>1, <2>2, StepMoves DEF SessionTypeOK
    <1>3. CASE ~(InMap /\ isActive[slot])
        <2>1. Step(c, "refused") /\ UNCHANGED entry
            BY <1>3 DEF Get
        <2> QED
            BY <1>1, <2>1, StepMoves DEF SessionTypeOK
    <1> QED
        BY <1>2, <1>3

\* validateSession up to its await: it drops the token only when it has expired.
LEMMA ValidationMoves ==
    ASSUME SessionTypeOK, NEW c \in SessionCall, NEW l, StartValidation(c, l)
    PROVE  /\ at' \in [SessionCall -> Labels] /\ entry' \in [SessionCall -> Entry]
           /\ slot' \in Entry \cup {"none"}
           /\ at'[c] \in {"asking", "refused"} /\ \A d \in SessionCall \ {c} : at'[d] = at[d]
           /\ at'[c] = "asking" => InMap /\ isActive[slot] /\ entry'[c] = slot
           /\ \A d \in SessionCall \ {c} : entry'[d] = entry[d]
           /\ slot' # slot => slot' = "none" /\ InMap /\ l[slot] < 0 /\ at'[c] = "refused"
    <1>1. "refused" \in Labels /\ "asking" \in Labels
        BY DEF Labels, Outcome, AtPara
    <1>2. CASE InMap /\ l[slot] < 0
        <2>1. slot' = "none" /\ Step(c, "refused") /\ UNCHANGED entry
            BY <1>2 DEF StartValidation
        <2> QED
            BY <1>1, <1>2, <2>1, StepMoves DEF SessionTypeOK
    <1>3. CASE ~(InMap /\ l[slot] < 0)
        <2>1. Get(c, "asking") /\ UNCHANGED slot
            BY <1>3 DEF StartValidation
        <2>2. slot' \in Entry \cup {"none"}
            BY <2>1 DEF SessionTypeOK
        <2>3. /\ at' \in [SessionCall -> Labels] /\ entry' \in [SessionCall -> Entry]
              /\ at'[c] \in {"asking", "refused"} /\ \A d \in SessionCall \ {c} : at'[d] = at[d]
              /\ at'[c] # "refused" => InMap /\ isActive[slot] /\ entry'[c] = slot
              /\ \A d \in SessionCall \ {c} : entry'[d] = entry[d]
            BY <1>1, <2>1, GetMoves
        <2> QED
            BY <2>1, <2>2, <2>3
    <1> QED
        BY <1>2, <1>3

\* What follows Para's answer: only a no refuses the call and clears the flag.
LEMMA AnswerMoves ==
    ASSUME SessionTypeOK, NEW c \in SessionCall, NEW label \in Labels, AfterParaSays(c, label)
    PROVE  /\ at' \in [SessionCall -> Labels] /\ isActive' \in [Entry -> BOOLEAN]
           /\ at'[c] = IF ParaAlive THEN label ELSE "refused"
           /\ \A d \in SessionCall \ {c} : at'[d] = at[d]
           /\ ParaAlive => isActive' = isActive
    <1>1. "refused" \in Labels
        BY DEF Labels, Outcome
    <1>2. CASE ParaAlive
        BY <1>2, StepMoves DEF AfterParaSays, SessionTypeOK
    <1>3. CASE ~ParaAlive
        <2>1. Step(c, "refused") /\ isActive' = [isActive EXCEPT ![entry[c]] = FALSE]
            BY <1>3 DEF AfterParaSays
        <2>2. isActive' \in [Entry -> BOOLEAN]
            BY <2>1 DEF SessionTypeOK
        <2> QED
            BY <1>1, <1>3, <2>1, <2>2, StepMoves
    <1> QED
        BY <1>2, <1>3

LEMMA SessionInitInv == SessionInit => SessionInv
    <1> SUFFICES ASSUME SessionInit PROVE SessionInv
        OBVIOUS
    <1> USE LengthIsNat, TheLengths
    <1>l. PICK n \in JwtLengths : left = [e \in Entry |-> IF e = "login" THEN n ELSE -1]
        BY DEF SessionInit
    <1>n. n \in Ticks /\ n >= Shortest /\ "login" \in Entry /\ -1 \in Ticks /\ SessionLength \in Ticks
        BY DEF JwtLengths, Ticks, Entry
    <1>1. SessionTypeOK
        <2>1. left \in [Entry -> Ticks]
            BY <1>l, <1>n
        <2>2. isActive \in [Entry -> BOOLEAN]
            BY DEF SessionInit
        <2>3. promised \in [Entry -> -1 .. Shortest]
            BY DEF SessionInit
        <2> QED
            BY <1>n, <2>1, <2>2, <2>3 DEF SessionInit, SessionTypeOK, Labels
    <1>2. LateInv
        BY DEF SessionInit, LateInv, LateOK, SignLabels, BareImport
    <1>3. PromiseInv
        <2>1. left["login"] >= Shortest
            BY <1>l, <1>n
        <2>2. isActive["login"] /\ slot = "login"
            BY <1>n DEF SessionInit
        <2>3. \A e \in Entry : promised[e] = Shortest \/ promised[e] = -1
            BY DEF SessionInit
        <2>4. \A c \in SessionCall : at[c] = "new" /\ c \notin slow
            BY DEF SessionInit
        <2> QED
            BY <1>l, <1>n, <2>1, <2>2, <2>3, <2>4
            DEF PromiseInv, ActiveWhileAlive, PromiseOf, KeepingOK, AskingOK, Refreshing, InMap, Ticks
    <1> QED
        BY <1>1, <1>2, <1>3 DEF SessionInv

LEMMA TicksKept ==
    /\ SessionLength \in Ticks /\ DefaultLength \in Ticks /\ -1 \in Ticks
    /\ \A n \in Ticks : CountDown(n) \in Ticks /\ KeptAlive(n) = DefaultLength
    /\ \A n \in Ticks : n \in Int /\ n >= -1 /\ n <= Longest
    /\ \A n \in Ticks : AtMostShortest(n) \in -1 .. Shortest
    /\ \A n \in -1 .. Shortest : CountDown(n) \in -1 .. Shortest
    /\ \A n \in JwtLengths : n \in Ticks /\ n >= Shortest
    /\ Labels = {"new", "gone", "accepted", "refused", "asking", "checking", "keeping", "issuing",
                 "importing", "verifying", "sending"}
    /\ \A c \in SessionCall : c \in Entry /\ c # "none"
    <1> USE LengthIsNat, TheLengths
    <1>1. /\ SessionLength \in Ticks /\ DefaultLength \in Ticks /\ -1 \in Ticks
          /\ \A n \in Ticks : CountDown(n) \in Ticks /\ KeptAlive(n) = DefaultLength
          /\ \A n \in Ticks : n \in Int /\ n >= -1 /\ n <= Longest
        BY DEF Ticks, CountDown, KeptAlive
    <1>2. /\ \A n \in Ticks : AtMostShortest(n) \in -1 .. Shortest
          /\ \A n \in -1 .. Shortest : CountDown(n) \in -1 .. Shortest
        BY DEF Ticks, CountDown, AtMostShortest
    <1>3. \A n \in JwtLengths : n \in Ticks /\ n >= Shortest
        BY <1>1 DEF JwtLengths
    <1>4. \A c \in SessionCall : c \in Entry /\ c # "none"
        BY EndpointAssumption DEF Entry
    <1> QED
        BY <1>1, <1>2, <1>3, <1>4 DEF Labels, AtPara, Outcome

\* Types through every step.
LEMMA SessionTypes == SessionTypeOK /\ [SessionNext]_sessionVars => SessionTypeOK'
    <1> SUFFICES ASSUME SessionTypeOK, [SessionNext]_sessionVars PROVE SessionTypeOK'
        OBVIOUS
    <1> USE TicksKept, LengthIsNat
    <1>1. ASSUME NEW c \in SessionCall, Arrive(c) PROVE SessionTypeOK'
        <2>1. /\ at' \in [SessionCall -> Labels] /\ entry' \in [SessionCall -> Entry]
              /\ slot' \in Entry \cup {"none"}
            <3>1. CASE ValidateRequest(c)
                BY <3>1, ValidationMoves DEF ValidateRequest
            <3>2. CASE CallSessionEndpoint(c)
                BY <3>2, GetMoves DEF CallSessionEndpoint, SessionTypeOK
            <3>3. CASE SignTransfer(c)
                BY <3>3, StepMoves DEF SignTransfer, GetParaServer, SessionTypeOK
            <3> QED
                BY <1>1, <3>1, <3>2, <3>3 DEF Arrive
        <2> QED
            BY <1>1, <2>1 DEF Arrive, SessionTypeOK, Labels
    <1>2. ASSUME NEW c \in SessionCall, ParaAnswersValidation(c) PROVE SessionTypeOK'
        <2>1. PICK label \in {"accepted", "refused"} : AfterParaSays(c, label)
            BY <1>2 DEF ParaAnswersValidation
        <2>2. at' \in [SessionCall -> Labels] /\ isActive' \in [Entry -> BOOLEAN]
            BY <2>1, AnswerMoves
        <2>3. promised' \in [Entry -> -1 .. Shortest]
            <3>1. left[entry[c]] \in Ticks /\ AtMostShortest(left[entry[c]]) \in -1 .. Shortest
                BY DEF SessionTypeOK
            <3>2. -1 \in -1 .. Shortest
                BY TheLengths
            <3> QED
                BY <1>2, <3>1, <3>2 DEF ParaAnswersValidation, SessionTypeOK
        <2> QED
            BY <1>2, <2>2, <2>3 DEF ParaAnswersValidation, SessionTypeOK, Labels
    <1>3. ASSUME NEW c \in SessionCall, ParaAnswersCheck(c) PROVE SessionTypeOK'
        <2>1. at' \in [SessionCall -> Labels] /\ entry' \in [SessionCall -> Entry]
              /\ isActive' \in [Entry -> BOOLEAN]
            BY <1>3, GetMoves, AnswerMoves DEF ParaAnswersCheck, SessionTypeOK
        <2> QED
            BY <1>3, <2>1 DEF ParaAnswersCheck, SessionTypeOK, Labels, ghosts
    <1>4. ASSUME NEW c \in SessionCall, ParaKeepsAlive(c) PROVE SessionTypeOK'
        <2>1. CASE ParaAlive
            <3>1. /\ at' \in [SessionCall -> Labels] /\ entry' \in [SessionCall -> Entry]
                  /\ slot' \in Entry \cup {"none"}
                BY <1>4, <2>1, ValidationMoves DEF ParaKeepsAlive
            <3>2. left' \in [Entry -> Ticks] /\ paraLeft' \in Ticks /\ UNCHANGED isActive
                BY <1>4, <2>1 DEF ParaKeepsAlive, KeptAlive, SessionTypeOK
            <3> QED
                BY <1>4, <3>1, <3>2 DEF ParaKeepsAlive, SessionTypeOK, Labels, ghosts
        <2>2. CASE ~ParaAlive
            <3>1. AfterParaSays(c, "refused") /\ UNCHANGED <<paraLeft, left, slot, entry>>
                BY <1>4, <2>2 DEF ParaKeepsAlive
            <3>2. at' \in [SessionCall -> Labels] /\ isActive' \in [Entry -> BOOLEAN]
                BY <3>1, AnswerMoves
            <3> QED
                BY <1>4, <3>1, <3>2 DEF ParaKeepsAlive, SessionTypeOK, Labels, ghosts
        <2> QED
            BY <2>1, <2>2
    <1>5. ASSUME NEW c \in SessionCall, ParaIssuesJwt(c) PROVE SessionTypeOK'
        <2>1. at' \in [SessionCall -> Labels]
            BY <1>5, StepMoves DEF ParaIssuesJwt
        <2>2. left' \in [Entry -> Ticks] /\ paraLeft' \in Ticks
            BY <1>5 DEF ParaIssuesJwt, SessionTypeOK
        <2> QED
            BY <1>5, <2>1, <2>2 DEF ParaIssuesJwt, SessionTypeOK, Labels, ghosts
    <1>6. ASSUME NEW c \in SessionCall, ImportSession(c) PROVE SessionTypeOK'
        <2>1. at' \in [SessionCall -> Labels]
            BY <1>6, StepMoves DEF ImportSession
        <2>2. /\ left' \in [Entry -> Ticks] /\ paraLeft' \in Ticks /\ slot' \in Entry \cup {"none"}
              /\ isActive' \in [Entry -> BOOLEAN] /\ entry' \in [SessionCall -> Entry]
            BY <1>6 DEF ImportSession, SessionTypeOK
        <2> QED
            BY <1>6, <2>1, <2>2 DEF ImportSession, SessionTypeOK, Labels, ghosts
    <1>7. ASSUME NEW c \in SessionCall, VerifyImport(c) PROVE SessionTypeOK'
        <2>1. at' \in [SessionCall -> Labels]
            BY <1>7, StepMoves DEF VerifyImport
        <2>2. slot' \in Entry \cup {"none"} /\ isActive' \in [Entry -> BOOLEAN]
            BY <1>7 DEF VerifyImport, SessionTypeOK
        <2> QED
            BY <1>7, <2>1, <2>2 DEF VerifyImport, SessionTypeOK, Labels, ghosts
    <1>8. ASSUME NEW c \in SessionCall, Sign(c) PROVE SessionTypeOK'
        <2>1. at' \in [SessionCall -> Labels]
            BY <1>8, StepMoves DEF Sign
        <2> QED
            BY <1>8, <2>1 DEF Sign, SessionTypeOK, Labels, ghosts
    <1>9. ASSUME NEW c \in SessionCall, ParaCallFails(c) PROVE SessionTypeOK'
        <2>1. at' \in [SessionCall -> Labels]
            BY <1>9, StepMoves DEF ParaCallFails
        <2> QED
            BY <1>9, <2>1 DEF ParaCallFails, SessionTypeOK, Labels
    <1>10. ASSUME CleanupExpiredSessions PROVE SessionTypeOK'
        BY <1>10 DEF CleanupExpiredSessions, SessionTypeOK, ghosts
    <1>11. ASSUME Restart PROVE SessionTypeOK'
        <2>1. at' \in [SessionCall -> Labels] /\ promised' \in [Entry -> -1 .. Shortest]
            BY <1>11, TheLengths DEF Restart, SessionTypeOK, Labels
        <2>2. restarts' \in 0 .. MaxRestarts
            BY <1>11 DEF Restart, SessionTypeOK
        <2> QED
            BY <1>11, <2>1, <2>2 DEF Restart, SessionTypeOK, Labels
    <1>12. ASSUME (ParaEnds \/ ClientUsesPara) PROVE SessionTypeOK'
        BY <1>12 DEF ParaEnds, ClientUsesPara, SessionTypeOK, ghosts
    <1>13. ASSUME Tick PROVE SessionTypeOK'
        BY <1>13 DEF Tick, SessionTypeOK
    <1>14. ASSUME UNCHANGED sessionVars PROVE SessionTypeOK'
        BY <1>14 DEF sessionVars, SessionTypeOK
    <1>15. ASSUME NEW c \in SessionCall, BareImportFails(c) PROVE SessionTypeOK'
        <2>1. at' \in [SessionCall -> Labels]
            BY <1>15, StepMoves DEF BareImportFails
        <2> QED
            BY <1>15, <2>1 DEF BareImportFails, SessionTypeOK, Labels, ghosts
    <1> QED
        BY <1>1, <1>2, <1>3, <1>4, <1>5, <1>6, <1>7, <1>8, <1>9, <1>10, <1>11, <1>12, <1>13, <1>14, <1>15
        DEF SessionNext, SessionStep

\* Para's session, once over, is over; and a step of one call leaves the others alone.
LEMMA LateKept ==
    ASSUME LateInv, NEW c \in SessionCall, ~ParaAlive => ~ParaAlive', UNCHANGED endpoint,
           late' \subseteq late \cup {c}, failed \subseteq failed', unpromised \subseteq unpromised',
           \A d \in SessionCall \ {c} : at'[d] = at[d], LateOK(c)'
    PROVE  LateInv'
    <1> SUFFICES ASSUME NEW d \in SessionCall \ {c} PROVE LateOK(d)'
        BY DEF LateInv
    <1>1. LateOK(d) /\ at'[d] = at[d] /\ endpoint'[d] = endpoint[d]
        BY DEF LateInv
    <1>2. (Excused(d) => Excused(d)') /\ (BareImport(d)' => BareImport(d))
        BY <1>1 DEF Excused, BareImport
    <1> QED
        BY <1>1, <1>2 DEF LateOK

\* Who is late, and why a transfer is refused, through every step.
LEMMA LateStep == SessionTypeOK /\ LateInv /\ PromiseInv /\ [SessionNext]_sessionVars => LateInv'
    <1> SUFFICES ASSUME SessionTypeOK, LateInv, PromiseInv, [SessionNext]_sessionVars PROVE LateInv'
        OBVIOUS
    <1> USE TicksKept, LengthIsNat
    <1>1. ASSUME NEW c \in SessionCall, Arrive(c) PROVE LateInv'
        <2>1. /\ at'[c] \in {"asking", "checking", "keeping", "issuing", "sending", "importing", "refused"}
              /\ endpoint[c] \in Signing => at'[c] \in {"sending", "importing"}
              /\ at'[c] = "importing" => ~(InMap /\ isActive[slot])
              /\ \A d \in SessionCall \ {c} : at'[d] = at[d]
            <3>1. CASE ValidateRequest(c)
                BY <3>1, ValidationMoves DEF ValidateRequest, Signing
            <3>2. CASE CallSessionEndpoint(c)
                BY <3>2, GetMoves DEF CallSessionEndpoint, Signing
            <3>3. CASE SignTransfer(c)
                BY <3>3, StepMoves DEF SignTransfer, GetParaServer
            <3> QED
                BY <1>1, <3>1, <3>2, <3>3 DEF Arrive
        <2>3. BareImport(c)' => ~ParaAlive' \/ c \in unpromised'
            <3> SUFFICES ASSUME at'[c] = "importing", endpoint[c] = "signBare", ParaAlive
                         PROVE  c \in unpromised'
                BY <1>1 DEF Arrive, BareImport, ParaAlive
            <3>1. \A e \in Entry : promised[e] <= 0
                <4>1. \A e \in Entry : promised[e] \in -1 .. Shortest
                    BY DEF SessionTypeOK
                <4> QED
                    BY <2>1, <4>1, TheLengths DEF PromiseInv, PromiseOf
            <3> QED
                BY <1>1, <3>1 DEF Arrive
        <2>2. LateOK(c)'
            BY <1>1, <2>1, <2>3 DEF Arrive, LateInv, LateOK, SignLabels, ParaAlive
        <2> QED
            BY <1>1, <2>1, <2>2, LateKept DEF Arrive, ParaAlive
    <1>2. ASSUME NEW c \in SessionCall, ParaAnswersValidation(c) PROVE LateInv'
        <2>1. PICK label \in {"accepted", "refused"} : AfterParaSays(c, label)
            BY <1>2 DEF ParaAnswersValidation
        <2>2. /\ at'[c] = (IF ParaAlive THEN label ELSE "refused")
              /\ \A d \in SessionCall \ {c} : at'[d] = at[d]
            BY <2>1, AnswerMoves
        <2>3. LateOK(c)'
            BY <1>2, <2>2 DEF ParaAnswersValidation, LateInv, LateOK, SignLabels, Excused, BareImport, ParaAlive
        <2> QED
            BY <1>2, <2>2, <2>3, LateKept DEF ParaAnswersValidation, ParaAlive
    <1>3. ASSUME NEW c \in SessionCall, ParaAnswersCheck(c) PROVE LateInv'
        <2>1. at'[c] \in {"keeping", "refused"} /\ \A d \in SessionCall \ {c} : at'[d] = at[d]
            BY <1>3, GetMoves, AnswerMoves DEF ParaAnswersCheck
        <2>2. LateOK(c)'
            BY <1>3, <2>1 DEF ParaAnswersCheck, LateInv, LateOK, SignLabels, Excused, BareImport, ParaAlive, ghosts
        <2> QED
            BY <1>3, <2>1, <2>2, LateKept DEF ParaAnswersCheck, ParaAlive, ghosts
    <1>4. ASSUME NEW c \in SessionCall, ParaKeepsAlive(c) PROVE LateInv'
        <2>1. at'[c] \in {"asking", "refused"} /\ \A d \in SessionCall \ {c} : at'[d] = at[d]
            BY <1>4, ValidationMoves, AnswerMoves DEF ParaKeepsAlive
        <2>2. ~ParaAlive => ~ParaAlive'
            BY <1>4 DEF ParaKeepsAlive, ParaAlive
        <2>3. LateOK(c)'
            BY <1>4, <2>1, <2>2 DEF ParaKeepsAlive, LateInv, LateOK, SignLabels, Excused, BareImport, ghosts
        <2> QED
            BY <1>4, <2>1, <2>2, <2>3, LateKept DEF ParaKeepsAlive, ghosts
    <1>5. ASSUME NEW c \in SessionCall, ParaIssuesJwt(c) PROVE LateInv'
        <2>1. /\ at'[c] \in {"accepted", "refused"} /\ (at'[c] = "accepted" => ParaAlive)
              /\ \A d \in SessionCall \ {c} : at'[d] = at[d]
            BY <1>5, StepMoves DEF ParaIssuesJwt
        <2>2. ~ParaAlive => ~ParaAlive'
            BY <1>5 DEF ParaIssuesJwt, ParaAlive
        <2>3. LateOK(c)'
            BY <1>5, <2>1, <2>2 DEF ParaIssuesJwt, LateInv, LateOK, SignLabels, Excused, BareImport, ghosts
        <2> QED
            BY <1>5, <2>1, <2>2, <2>3, LateKept DEF ParaIssuesJwt, ghosts
    <1>6. ASSUME NEW c \in SessionCall, ImportSession(c) PROVE LateInv'
        <2>1. at'[c] \in {"verifying"} /\ \A d \in SessionCall \ {c} : at'[d] = at[d]
            BY <1>6, StepMoves DEF ImportSession
        <2>2. LateOK(c)'
            BY <1>6, <2>1 DEF ImportSession, LateInv, LateOK, SignLabels, Excused, BareImport, ParaAlive, ghosts
        <2> QED
            BY <1>6, <2>1, <2>2, LateKept DEF ImportSession, ParaAlive, ghosts
    <1>7. ASSUME NEW c \in SessionCall, VerifyImport(c) PROVE LateInv'
        <2>1. at'[c] \in {"sending"} /\ \A d \in SessionCall \ {c} : at'[d] = at[d]
            BY <1>7, StepMoves DEF VerifyImport
        <2>2. LateOK(c)'
            BY <1>7, <2>1 DEF VerifyImport, LateInv, LateOK, SignLabels, Excused, BareImport, ParaAlive, ghosts
        <2> QED
            BY <1>7, <2>1, <2>2, LateKept DEF VerifyImport, ParaAlive, ghosts
    <1>8. ASSUME NEW c \in SessionCall, Sign(c) PROVE LateInv'
        <2>1. /\ at'[c] = (IF ParaAlive THEN "accepted" ELSE "refused")
              /\ \A d \in SessionCall \ {c} : at'[d] = at[d]
            BY <1>8, StepMoves DEF Sign
        <2>2. LateOK(c)'
            BY <1>8, <2>1 DEF Sign, LateInv, LateOK, SignLabels, Excused, BareImport, ParaAlive, ghosts
        <2> QED
            BY <1>8, <2>1, <2>2, LateKept DEF Sign, ParaAlive, ghosts
    <1>9. ASSUME NEW c \in SessionCall, ParaCallFails(c) PROVE LateInv'
        <2>1. at'[c] \in {"sending", "refused"} /\ \A d \in SessionCall \ {c} : at'[d] = at[d]
            BY <1>9, StepMoves DEF ParaCallFails
        <2>2. LateOK(c)'
            BY <1>9, <2>1 DEF ParaCallFails, LateInv, LateOK, SignLabels, Excused, BareImport, ParaAlive, ghosts
        <2> QED
            BY <1>9, <2>1, <2>2, LateKept DEF ParaCallFails, ParaAlive, ghosts
    <1>10. ASSUME CleanupExpiredSessions PROVE LateInv'
        BY <1>10 DEF CleanupExpiredSessions, LateInv, LateOK, Excused, BareImport, ParaAlive, ghosts
    <1>11. ASSUME Restart PROVE LateInv'
        BY <1>11 DEF Restart, LateInv, LateOK, Excused, BareImport, ParaAlive, SessionTypeOK, AtPara, SignLabels
    <1>12. ASSUME (ParaEnds \/ ClientUsesPara) PROVE LateInv'
        BY <1>12 DEF ParaEnds, ClientUsesPara, LateInv, LateOK, Excused, BareImport, ParaAlive, ghosts
    <1>13. ASSUME Tick PROVE LateInv'
        BY <1>13 DEF Tick, CountDown, LateInv, LateOK, Excused, BareImport, ParaAlive, SessionTypeOK
    <1>14. ASSUME UNCHANGED sessionVars PROVE LateInv'
        BY <1>14 DEF sessionVars, LateInv, LateOK, Excused, BareImport, ParaAlive
    <1>15. ASSUME NEW c \in SessionCall, BareImportFails(c) PROVE LateInv'
        <2>1. at'[c] = "refused" /\ \A d \in SessionCall \ {c} : at'[d] = at[d]
            BY <1>15, StepMoves DEF BareImportFails
        <2>2. LateOK(c)'
            BY <1>15, <2>1 DEF BareImportFails, LateInv, LateOK, SignLabels, Excused, BareImport, ParaAlive, ghosts
        <2> QED
            BY <1>15, <2>1, <2>2, LateKept DEF BareImportFails, ParaAlive, ghosts
    <1> QED
        BY <1>1, <1>2, <1>3, <1>4, <1>5, <1>6, <1>7, <1>8, <1>9, <1>10, <1>11, <1>12, <1>13, <1>14, <1>15
        DEF SessionNext, SessionStep

\* The ticks of a clock as numbers.
InTicks(n) == n \in Int /\ n >= -1 /\ n <= Longest
InPromise(n) == n \in Int /\ n >= -1 /\ n <= Shortest

LEMMA TicksAreNumbers ==
    (\A n \in Ticks : InTicks(n)) /\ (\A n \in -1 .. Shortest : InPromise(n))
    BY TicksKept, TheLengths DEF InTicks, InPromise

\* What a step may do to the Map's entry while Para's session lasts: leave it, give
\* it one of the lengths anew, which are no less than the shortest, replace it by one
\* that is new, or drop it when it has expired.
MapKept ==
    \/ ~ParaAlive'
    \/ /\ ParaAlive
       /\ \/ /\ slot' = slot
             /\ InMap => /\ left'[slot] >= left[slot] \/ left'[slot] >= Shortest
                         /\ isActive'[slot] = isActive[slot]
          \/ slot' # "none" /\ left'[slot'] >= Shortest /\ isActive'[slot'] = TRUE
          \/ slot' = "none" /\ (InMap => left[slot] < 0)

\* Such a step keeps the promises, and what is expected of a call that it does not
\* move.
LEMMA MapKeptKeeps ==
    ASSUME SessionTypeOK, SessionTypeOK', PromiseInv, MapKept, UNCHANGED <<endpoint, slow>>
    PROVE  /\ ActiveWhileAlive'
           /\ \A e \in Entry : promised'[e] = promised[e] => PromiseOf(e)'
           /\ \A d \in SessionCall :
                  at'[d] = at[d] /\ entry'[d] = entry[d] => KeepingOK(d)' /\ AskingOK(d)'
    <1> USE LengthIsNat, TheLengths
    <1>1. ActiveWhileAlive'
        BY DEF MapKept, PromiseInv, ActiveWhileAlive, InMap
    <1>2. /\ InMap => InTicks(left[slot]) /\ InTicks(left'[slot])
          /\ InMap' => InTicks(left'[slot'])
        BY TicksAreNumbers DEF InMap, SessionTypeOK
    <1>3. ASSUME NEW e \in Entry, promised'[e] = promised[e] PROVE PromiseOf(e)'
        <2>1. PromiseOf(e) /\ InPromise(promised[e])
            BY TicksAreNumbers DEF PromiseInv, SessionTypeOK
        <2> QED
            BY <1>1, <1>2, <1>3, <2>1 DEF MapKept, PromiseOf, ActiveWhileAlive, InMap, InTicks, InPromise
    <1>4. ASSUME NEW d \in SessionCall, at'[d] = at[d], entry'[d] = entry[d]
          PROVE  KeepingOK(d)' /\ AskingOK(d)'
        <2>1. KeepingOK(d) /\ AskingOK(d)
            BY DEF PromiseInv
        <2>2. KeepingOK(d)'
            BY <1>2, <1>4, <2>1 DEF MapKept, KeepingOK, FullSince, InMap, InTicks
        <2>3. AskingOK(d)'
            BY <1>2, <1>4, <2>1 DEF MapKept, AskingOK, Refreshing, FullSince, InMap, InTicks
        <2> QED
            BY <2>2, <2>3
    <1> QED
        BY <1>1, <1>3, <1>4

\* So a step of one call has only itself to account for.
LEMMA PromiseMoves ==
    ASSUME SessionTypeOK, SessionTypeOK', PromiseInv, MapKept, NEW c \in SessionCall,
           UNCHANGED <<endpoint, slow>>,
           \A d \in SessionCall \ {c} : at'[d] = at[d] /\ entry'[d] = entry[d],
           \A e \in Entry : promised'[e] = promised[e] \/ PromiseOf(e)',
           KeepingOK(c)', AskingOK(c)', at'[c] # "new"
    PROVE  PromiseInv'
    <1>1. ASSUME NEW d \in SessionCall \ {c}
          PROVE  KeepingOK(d)' /\ AskingOK(d)' /\ (d \in slow' => at'[d] # "new")
        BY <1>1, MapKeptKeeps DEF PromiseInv
    <1>2. (\A e \in Entry : PromiseOf(e)') /\ ActiveWhileAlive'
        BY MapKeptKeeps
    <1> QED
        BY <1>1, <1>2 DEF PromiseInv

\* What was promised is kept, and what is about to be promised can be.
LEMMA PromiseStep == SessionTypeOK /\ PromiseInv /\ [SessionNext]_sessionVars => PromiseInv'
    <1> SUFFICES ASSUME SessionTypeOK, PromiseInv, [SessionNext]_sessionVars PROVE PromiseInv'
        OBVIOUS
    <1> USE TicksKept, LengthIsNat, TheLengths
    <1>e. \A c \in SessionCall : entry[c] \in Entry
        BY DEF SessionTypeOK
    <1>t. SessionTypeOK'
        BY SessionTypes
    <1>i. InMap => InTicks(left[slot]) /\ InTicks(left'[slot])
        BY <1>t, TicksAreNumbers DEF SessionTypeOK, InMap
    <1>1. ASSUME NEW c \in SessionCall, Arrive(c) PROVE PromiseInv'
        <2>1. /\ at'[c] \in Labels \ {"new"}
              /\ \A d \in SessionCall \ {c} : at'[d] = at[d] /\ entry'[d] = entry[d]
              /\ at'[c] = "keeping" => entry'[c] = slot /\ slot' = slot
              /\ at'[c] = "asking" => endpoint[c] = "validate"
              /\ slot' = slot \/ (slot' = "none" /\ InMap /\ left[slot] < 0)
            <3>1. CASE ValidateRequest(c)
                BY <3>1, ValidationMoves DEF ValidateRequest
            <3>2. CASE CallSessionEndpoint(c)
                BY <3>2, GetMoves DEF CallSessionEndpoint
            <3>3. CASE SignTransfer(c)
                BY <3>3, StepMoves DEF SignTransfer, GetParaServer
            <3> QED
                BY <1>1, <3>1, <3>2, <3>3 DEF Arrive
        <2>2. UNCHANGED <<endpoint, paraLeft, left, isActive, promised, failed, slow, restarts>>
            BY <1>1 DEF Arrive
        <2>3. MapKept
            BY <1>i, <2>1, <2>2 DEF MapKept, ParaAlive, InTicks
        <2>4. KeepingOK(c)' /\ AskingOK(c)'
            BY <2>1, <2>2 DEF KeepingOK, AskingOK, Refreshing
        <2> QED
            BY <2>1, <2>2, <2>3, <2>4, <1>t, PromiseMoves
    <1>2. ASSUME NEW c \in SessionCall, ParaAnswersValidation(c) PROVE PromiseInv'
        <2>1. PICK label \in {"accepted", "refused"} : AfterParaSays(c, label)
            BY <1>2 DEF ParaAnswersValidation
        <2>2. /\ at'[c] \in {"accepted", "refused"}
              /\ \A d \in SessionCall \ {c} : at'[d] = at[d]
              /\ ParaAlive => isActive' = isActive
            BY <2>1, AnswerMoves
        <2>3. UNCHANGED <<endpoint, paraLeft, slot, left, entry, failed, late, slow, restarts>>
            BY <1>2 DEF ParaAnswersValidation
        <2>4. MapKept
            BY <1>i, <2>2, <2>3 DEF MapKept, ParaAlive, InTicks
        <2>5. KeepingOK(c)' /\ AskingOK(c)'
            BY <2>2 DEF KeepingOK, AskingOK, Refreshing
        <2>6. \A e \in Entry : e # c => promised'[e] = promised[e]
            BY <1>2 DEF ParaAnswersValidation, SessionTypeOK
        <2>7. promised'[c] = promised[c] \/ PromiseOf(c)'
            <3>1. CASE endpoint[c] = "validate"
                BY <1>2, <3>1 DEF ParaAnswersValidation
            <3>2. CASE endpoint[c] # "validate" /\ ParaAlive
                <4>1. InPromise(promised'[c])
                    <5>1. promised' \in [Entry -> -1 .. Shortest]
                        BY <1>t DEF SessionTypeOK
                    <5> QED
                        BY <5>1, TicksAreNumbers
                <4>2. Shortest > 0 => InMap /\ FullSince(c)
                    BY <1>2, <3>2 DEF ParaAnswersValidation, PromiseInv, AskingOK, Refreshing
                <4>3. InMap => isActive[slot]
                    BY <3>2 DEF PromiseInv, ActiveWhileAlive
                <4> QED
                    BY <1>i, <2>2, <2>3, <3>2, <4>1, <4>2, <4>3 DEF PromiseOf, FullSince, InMap, InTicks, InPromise
            <3>3. CASE endpoint[c] # "validate" /\ ~ParaAlive
                BY <2>3, <3>3 DEF PromiseOf, ParaAlive
            <3> QED
                BY <3>1, <3>2, <3>3
        <2> QED
            BY <2>2, <2>3, <2>4, <2>5, <2>6, <2>7, <1>t, PromiseMoves
    <1>3. ASSUME NEW c \in SessionCall, ParaAnswersCheck(c) PROVE PromiseInv'
        <2>1. /\ at'[c] \in {"keeping", "refused"}
              /\ \A d \in SessionCall \ {c} : at'[d] = at[d] /\ entry'[d] = entry[d]
              /\ at'[c] = "keeping" => entry'[c] = slot
              /\ ParaAlive => isActive' = isActive
            BY <1>3, GetMoves, AnswerMoves DEF ParaAnswersCheck
        <2>2. UNCHANGED <<paraLeft, slot, left, ghosts>>
            BY <1>3 DEF ParaAnswersCheck
        <2>3. MapKept
            BY <1>i, <2>1, <2>2 DEF MapKept, ParaAlive, InTicks
        <2>4. KeepingOK(c)' /\ AskingOK(c)'
            BY <2>1, <2>2 DEF KeepingOK, AskingOK, Refreshing
        <2> QED
            BY <2>1, <2>2, <2>3, <2>4, <1>t, PromiseMoves DEF ghosts
    <1>4. ASSUME NEW c \in SessionCall, ParaKeepsAlive(c) PROVE PromiseInv'
        <2>1. CASE ParaAlive
            <3>1. /\ paraLeft' = SessionLength
                  /\ left' = [left EXCEPT ![entry[c]] = DefaultLength]
                  /\ StartValidation(c, left') /\ UNCHANGED isActive
                BY <1>4, <2>1 DEF ParaKeepsAlive, KeptAlive
            <3>2. /\ at'[c] \in {"asking", "refused"}
                  /\ \A d \in SessionCall \ {c} : at'[d] = at[d] /\ entry'[d] = entry[d]
                  /\ at'[c] = "asking" => InMap /\ slot' = slot
                  /\ slot' # slot => slot' = "none" /\ InMap /\ left'[slot] < 0
                BY <3>1, ValidationMoves
            <3>3. InMap => /\ InTicks(left[slot]) /\ InTicks(left'[slot])
                           /\ left'[slot] >= left[slot] \/ left'[slot] >= Shortest
                           /\ slot = entry[c] => left'[slot] >= Shortest
                BY <1>i, <3>1 DEF SessionTypeOK, InMap, InTicks
            <3>4. MapKept
                BY <1>i, <2>1, <3>1, <3>2, <3>3 DEF MapKept, InMap
            <3>5. AskingOK(c)'
                <4>1. slot # entry[c] /\ InMap => FullSince(c)
                    BY <1>4, <2>1 DEF ParaKeepsAlive, PromiseInv, KeepingOK
                <4> QED
                    BY <1>4, <3>2, <3>3, <4>1
                    DEF ParaKeepsAlive, AskingOK, Refreshing, FullSince, InMap, InTicks, ghosts
            <3> QED
                BY <1>4, <3>2, <3>4, <3>5, <1>t, PromiseMoves DEF ParaKeepsAlive, KeepingOK, ghosts
        <2>2. CASE ~ParaAlive
            <3>1. AfterParaSays(c, "refused") /\ UNCHANGED <<paraLeft, left, slot, entry>>
                BY <1>4, <2>2 DEF ParaKeepsAlive
            <3>2. at'[c] = "refused" /\ \A d \in SessionCall \ {c} : at'[d] = at[d]
                BY <3>1, AnswerMoves
            <3>3. MapKept
                BY <1>i, <2>2, <3>1 DEF MapKept, ParaAlive, InTicks
            <3> QED
                BY <1>4, <3>1, <3>2, <3>3, <1>t, PromiseMoves
                DEF ParaKeepsAlive, KeepingOK, AskingOK, Refreshing, ghosts
        <2> QED
            BY <2>1, <2>2
    <1>5. ASSUME NEW c \in SessionCall, ParaIssuesJwt(c) PROVE PromiseInv'
        <2>1. at'[c] \in {"accepted", "refused"} /\ \A d \in SessionCall \ {c} : at'[d] = at[d]
            BY <1>5, StepMoves DEF ParaIssuesJwt
        <2>2. /\ InMap => left'[slot] >= left[slot] \/ left'[slot] >= Shortest
              /\ ParaAlive' => ParaAlive
            BY <1>5, <1>e, <1>i DEF ParaIssuesJwt, SessionTypeOK, InMap, ParaAlive, InTicks
        <2>3. MapKept
            BY <1>i, <1>5, <2>2 DEF ParaIssuesJwt, MapKept
        <2> QED
            BY <1>5, <2>1, <2>3, <1>t, PromiseMoves
            DEF ParaIssuesJwt, KeepingOK, AskingOK, Refreshing, ghosts
    <1>6. ASSUME NEW c \in SessionCall, ImportSession(c) PROVE PromiseInv'
        <2>1. at'[c] = "verifying" /\ \A d \in SessionCall \ {c} : at'[d] = at[d]
            BY <1>6, StepMoves DEF ImportSession
        <2>2. /\ slot' = c /\ c # "none" /\ left'[c] >= Shortest /\ isActive'[c] = TRUE
              /\ \A d \in SessionCall \ {c} : entry'[d] = entry[d]
            BY <1>6 DEF ImportSession, SessionTypeOK
        <2>3. ParaAlive' => ParaAlive
            BY <1>6 DEF ImportSession, ParaAlive
        <2>4. MapKept
            BY <1>i, <2>2, <2>3 DEF MapKept
        <2> QED
            BY <1>6, <2>1, <2>2, <2>4, <1>t, PromiseMoves
            DEF ImportSession, KeepingOK, AskingOK, Refreshing, ghosts
    <1>7. ASSUME NEW c \in SessionCall, VerifyImport(c) PROVE PromiseInv'
        <2>1. at'[c] = "sending" /\ \A d \in SessionCall \ {c} : at'[d] = at[d]
            BY <1>7, StepMoves DEF VerifyImport
        <2>2. MapKept
            BY <1>i, <1>7 DEF VerifyImport, MapKept, ParaAlive, InTicks
        <2> QED
            BY <1>7, <2>1, <2>2, <1>t, PromiseMoves
            DEF VerifyImport, KeepingOK, AskingOK, Refreshing, ghosts
    <1>8. ASSUME NEW c \in SessionCall, Sign(c) PROVE PromiseInv'
        <2>1. at'[c] \in {"accepted", "refused"} /\ \A d \in SessionCall \ {c} : at'[d] = at[d]
            BY <1>8, StepMoves DEF Sign
        <2>2. MapKept
            BY <1>i, <1>8 DEF Sign, MapKept, ParaAlive, InTicks
        <2> QED
            BY <1>8, <2>1, <2>2, <1>t, PromiseMoves
            DEF Sign, KeepingOK, AskingOK, Refreshing, ghosts
    <1>9. ASSUME NEW c \in SessionCall, ParaCallFails(c) PROVE PromiseInv'
        <2>1. at'[c] \in {"sending", "refused"} /\ \A d \in SessionCall \ {c} : at'[d] = at[d]
            BY <1>9, StepMoves DEF ParaCallFails
        <2>2. MapKept
            BY <1>i, <1>9 DEF ParaCallFails, MapKept, ParaAlive, InTicks
        <2> QED
            BY <1>9, <2>1, <2>2, <1>t, PromiseMoves
            DEF ParaCallFails, KeepingOK, AskingOK, Refreshing, ghosts
    <1>10. ASSUME CleanupExpiredSessions PROVE PromiseInv'
        <2>1. MapKept
            BY <1>i, <1>10 DEF CleanupExpiredSessions, Due, MapKept, ParaAlive, InTicks, PromiseInv, ActiveWhileAlive
        <2> QED
            BY <1>10, <2>1, <1>t, MapKeptKeeps DEF CleanupExpiredSessions, PromiseInv, ghosts
    <1>11. ASSUME Restart PROVE PromiseInv'
        BY <1>11 DEF Restart, PromiseInv, ActiveWhileAlive, PromiseOf, KeepingOK, AskingOK, Refreshing,
                    SessionTypeOK, AtPara, InMap
    <1>12. ASSUME (ParaEnds \/ ClientUsesPara) PROVE PromiseInv'
        <2>1. MapKept
            BY <1>i, <1>12 DEF ParaEnds, ClientUsesPara, MapKept, ParaAlive, InTicks
        <2> QED
            BY <1>12, <2>1, <1>t, MapKeptKeeps DEF ParaEnds, ClientUsesPara, PromiseInv, ghosts
    <1>13. ASSUME Tick PROVE PromiseInv'
        <2>1. /\ UNCHANGED <<endpoint, slot, isActive, at, entry>>
              /\ ParaAlive' => ParaAlive
              /\ slow' = {c \in SessionCall : at[c] \in AtPara}
            BY <1>13 DEF Tick, CountDown, ParaAlive, SessionTypeOK
        <2>2. InMap => InTicks(left[slot]) /\ left'[slot] = CountDown(left[slot])
            BY <1>13, <1>i DEF Tick, SessionTypeOK, InMap
        <2>3. ActiveWhileAlive'
            BY <2>1 DEF PromiseInv, ActiveWhileAlive, InMap
        <2>5. ASSUME NEW e \in Entry PROVE PromiseOf(e)'
            <3>1. PromiseOf(e)
                BY DEF PromiseInv
            <3>2. InPromise(promised[e]) /\ promised'[e] = CountDown(promised[e])
                BY <1>13, TicksAreNumbers DEF Tick, SessionTypeOK
            <3> QED
                BY <2>1, <2>2, <3>1, <3>2 DEF PromiseOf, CountDown, InMap, InTicks, InPromise
        <2>4. ASSUME NEW c \in SessionCall
              PROVE  KeepingOK(c)' /\ AskingOK(c)' /\ (c \in slow' => at'[c] # "new")
            <3>1. KeepingOK(c) /\ AskingOK(c)
                BY DEF PromiseInv
            <3>4. at[c] \in AtPara => c \notin slow /\ c \in slow'
                BY <1>13, <2>1 DEF Tick
            <3>5. KeepingOK(c)'
                BY <2>1, <2>2, <3>1, <3>4 DEF KeepingOK, FullSince, CountDown, InMap, InTicks, AtPara
            <3>6. AskingOK(c)'
                BY <2>1, <2>2, <3>1, <3>4 DEF AskingOK, Refreshing, FullSince, CountDown, InMap, InTicks, AtPara
            <3> QED
                BY <2>1, <3>5, <3>6 DEF AtPara
        <2> QED
            BY <2>3, <2>4, <2>5 DEF PromiseInv
    <1>14. ASSUME UNCHANGED sessionVars PROVE PromiseInv'
        BY <1>14 DEF sessionVars, PromiseInv, ActiveWhileAlive, PromiseOf, KeepingOK, AskingOK, Refreshing,
                    FullSince, ParaAlive, InMap
    <1>15. ASSUME NEW c \in SessionCall, BareImportFails(c) PROVE PromiseInv'
        <2>1. at'[c] = "refused" /\ \A d \in SessionCall \ {c} : at'[d] = at[d]
            BY <1>15, StepMoves DEF BareImportFails
        <2>2. MapKept
            BY <1>i, <1>15 DEF BareImportFails, MapKept, ParaAlive, InTicks
        <2> QED
            BY <1>15, <2>1, <2>2, <1>t, PromiseMoves
            DEF BareImportFails, KeepingOK, AskingOK, Refreshing, ghosts
    <1> QED
        BY <1>1, <1>2, <1>3, <1>4, <1>5, <1>6, <1>7, <1>8, <1>9, <1>10, <1>11, <1>12, <1>13, <1>14, <1>15
        DEF SessionNext, SessionStep

LEMMA SessionInvariant == SessionSpec => []SessionInv
    <1>1. SessionInv /\ [SessionNext]_sessionVars => SessionInv'
        BY SessionTypes, LateStep, PromiseStep DEF SessionInv
    <1> QED
        BY SessionInitInv, <1>1, PTL DEF SessionSpec

\* The session part keeps its types.
THEOREM SessionTypesHold == SessionSpec => []SessionTypeOK
    BY SessionInvariant, PTL DEF SessionInv

\* Whatever the Map, an extension under way or an import says, a call that arrives
\* after Para has ended the session is answered by none of SessionValidationGuard,
\* the session endpoints and the signing of a transfer.
THEOREM EndedSessionsAdmitNobody == SessionSpec => []EndedSessionAdmitsNobody
    <1>1. SessionInv => EndedSessionAdmitsNobody
        BY DEF SessionInv, SessionTypeOK, LateInv, LateOK, EndedSessionAdmitsNobody
    <1> QED
        BY <1>1, SessionInvariant, PTL

\* Whatever lengths Para and the manager give a session, and however keep-alives,
\* JWTs and imports of both lengths follow each other, the expiry that the login,
\* refreshSession and the keep-alive endpoint answer with is kept by the Map up to the
\* shorter length, to within the time one request to Para takes.
THEOREM PromisesAreKept == SessionSpec => []PromiseKept
    <1>1. SessionInv => PromiseKept
        BY DEF SessionInv, PromiseInv, PromiseOf, PromiseKept
    <1> QED
        BY <1>1, SessionInvariant, PTL

\* signAndSendWithPara refuses a transfer for its session only when Para has ended
\* it, when a request of that call to Para failed or, if the call relies on the Map,
\* when no answered expiry was outstanding as it came.
THEOREM SigningIsParasToRefuse == SessionSpec => []SigningNeedsOnlyPara
    <1>1. SessionInv => SigningNeedsOnlyPara
        BY DEF SessionInv, LateInv, LateOK, Excused, SigningNeedsOnlyPara
    <1> QED
        BY <1>1, SessionInvariant, PTL

-----------------------------------------------------------------------------
(* Logins.                                                                 *)
(*                                                                         *)
(* A user row is determined by the login that inserted it: whoever else    *)
(* reactivates it is the same person and writes the same values.  So rows  *)
(* of one person that show an email or a phone are one row.                *)

\* The two logins are one person's, and both sessions could be read.
SamePerson(l, m) == person[l] = person[m] /\ recognised[l] /\ recognised[m]

BeforeItsRow == {"new", "finding", "creating", "inserting", "recovering"}

RowOf(u) ==
    /\ stage[u] \notin BeforeItsRow
    /\ user[u].email = Email(u) /\ user[u].phone = Phone(u)
    /\ user[u].authId = ParaUserId(u)

OneRowEach == \A u, v \in Rows : SamePerson(u, v) /\ contact[person[u]] # {} => u = v

\* The user a login has settled on is the one it inserted or one of the same person.
Settled == {"reactivating", "refreshing"} \cup InWalletPart \cup {"done"}

WhoOf(l) ==
    stage[l] \in Settled =>
        /\ who[l] \in Rows /\ (who[l] = l \/ SamePerson(who[l], l))
        /\ stage[l] = "reactivating" => SamePerson(who[l], l)

\* A wallet row belongs to a user of the person whose Para wallet it registers.
WalletOf(p) ==
    wallet[p] # NoWallet => wallet[p].owner \in Rows /\ person[wallet[p].owner] = p

LeftBy(l) == stage[l] = "done" /\ l \notin faulted => wallet[person[l]] # NoWallet

OnboardingInv ==
    /\ OnboardingTypeOK
    /\ \A u \in Rows : RowOf(u)
    /\ OneRowEach
    /\ \A l \in LoginCall : WhoOf(l) /\ LeftBy(l)
    /\ \A p \in Person : WalletOf(p)

UserRow == [email : Person \cup {NoOne}, phone : Person \cup {NoOne, Empty},
            authId : Person \cup LoginCall \cup {NoOne}, active : BOOLEAN]
Stages == InUserPart \cup InWalletPart \cup {"new", "done", "refused", "gone"}

LEMMA Absent ==
    /\ NoOne \notin Person /\ NoOne \notin LoginCall /\ Empty \notin Person /\ Empty \notin LoginCall
    /\ NoOne # Empty /\ \A p \in Person : p \notin LoginCall
    /\ MaxRemovals \in Nat
    BY OnboardingAssumption

LEMMA NoRows ==
    /\ NoRow \in UserRow /\ NoRow.authId = NoOne /\ NoRow.active = FALSE
    /\ NoWallet \in [owner : LoginCall \cup {NoOne}, active : BOOLEAN]
    /\ NoWallet.owner = NoOne /\ NoWallet.active = FALSE
    BY DEF NoRow, NoWallet, UserRow

LEMMA Logins ==
    ASSUME OnboardingTypeOK, NEW l \in LoginCall
    PROVE  /\ person[l] \in Person /\ recognised[l] \in BOOLEAN
           /\ stage[l] \in Stages /\ user[l] \in UserRow
           /\ contact[person[l]] \subseteq {"email", "phone"}
    BY OnboardingAssumption DEF OnboardingTypeOK, UserRow, Stages

\* What the session of a login shows, and the id that extractUserInfo answers with.
LEMMA SessionData ==
    ASSUME OnboardingTypeOK, NEW l \in LoginCall
    PROVE  /\ Email(l) \in {person[l], NoOne} /\ Phone(l) \in {person[l], NoOne}
           /\ Email(l) # NoOne <=> recognised[l] /\ "email" \in contact[person[l]]
           /\ Phone(l) # NoOne <=> recognised[l] /\ "phone" \in contact[person[l]]
           /\ ParaUserId(l) = IF recognised[l] THEN person[l] ELSE l
           /\ ParaUserId(l) # NoOne
           /\ PhoneColumn(l) = Phone(l) /\ PhoneColumn(l) # Empty
    BY Logins, Absent DEF Email, Phone, ParaUserId, PhoneColumn

LEMMA AllRows ==
    ASSUME OnboardingTypeOK
    PROVE  \A u \in Rows : u \in LoginCall /\ user[u] # NoRow
    BY DEF Rows

\* Whoever a login finds is a row of the same person.
LEMMA FoundIsSame ==
    ASSUME OnboardingInv, NEW l \in LoginCall, stage[l] \in BeforeItsRow, NEW u \in Rows, NEW A,
           u \in ByEmail(l, A) \cup ByPhone(l, A) \cup ByParaUserId(l, A)
    PROVE  SamePerson(u, l)
    <1>1. RowOf(u) /\ u \in LoginCall /\ OnboardingTypeOK
        BY AllRows DEF OnboardingInv
    <1>2. CASE u \in ByEmail(l, A)
        BY <1>1, <1>2, SessionData, Logins, Absent DEF ByEmail, RowOf, SamePerson
    <1>3. CASE u \in ByPhone(l, A)
        BY <1>1, <1>3, SessionData, Logins, Absent DEF ByPhone, RowOf, SamePerson
    <1>4. CASE u \in ByParaUserId(l, A)
        <2>1. ParaUserId(u) = ParaUserId(l)
            BY <1>1, <1>4 DEF ByParaUserId, RowOf
        <2>2. u # l
            BY <1>1 DEF RowOf
        <2> QED
            BY <1>1, <2>1, <2>2, SessionData, Logins, Absent DEF SamePerson
    <1> QED
        BY <1>2, <1>3, <1>4

LEMMA OnboardingAtStart == OnboardingInit => OnboardingInv
    <1> SUFFICES ASSUME OnboardingInit PROVE OnboardingInv
        OBVIOUS
    <1>1. OnboardingTypeOK
        <2>1. removals \in 0 .. MaxRemovals
            BY Absent DEF OnboardingInit
        <2>2. user \in [LoginCall -> UserRow]
            BY NoRows DEF OnboardingInit
        <2>3. wallet \in [Person -> [owner : LoginCall \cup {NoOne}, active : BOOLEAN]]
            BY NoRows DEF OnboardingInit
        <2> QED
            BY <2>1, <2>2, <2>3 DEF OnboardingInit, OnboardingTypeOK, UserRow
    <1>2. Rows = {}
        BY DEF OnboardingInit, Rows
    <1> QED
        BY <1>1, <1>2 DEF OnboardingInit, OnboardingInv, OneRowEach, WhoOf, LeftBy, WalletOf, Settled,
                          InWalletPart

LEMMA ToMoves ==
    ASSUME OnboardingTypeOK, NEW l \in LoginCall, NEW label \in Stages, To(l, label)
    PROVE  /\ stage' \in [LoginCall -> Stages]
           /\ stage'[l] = label /\ \A m \in LoginCall \ {l} : stage'[m] = stage[m]
    BY DEF OnboardingTypeOK, To, Stages

\* A step of one login, or a removal, that inserts no user row and leaves in those
\* there are what came from the session.
LEMMA LoginMoves ==
    ASSUME OnboardingInv, NEW l \in LoginCall, UNCHANGED <<contact, person, recognised>>,
           stage' \in [LoginCall -> Stages], who' \in [LoginCall -> LoginCall \cup {NoOne}],
           user' \in [LoginCall -> UserRow],
           wallet' \in [Person -> [owner : LoginCall \cup {NoOne}, active : BOOLEAN]],
           removals' \in 0 .. MaxRemovals,
           faulted' \subseteq LoginCall, faulted \subseteq faulted', faulted' \subseteq faulted \cup {l},
           \A m \in LoginCall \ {l} : stage'[m] = stage[m] /\ who'[m] = who[m],
           \A u \in LoginCall : /\ user'[u] # NoRow <=> user[u] # NoRow
                                /\ user'[u].email = user[u].email /\ user'[u].phone = user[u].phone
                                /\ user'[u].authId = user[u].authId,
           \A p \in Person : wallet[p] # NoWallet => wallet'[p] # NoWallet,
           \A p \in Person : wallet'[p] = wallet[p] \/ WalletOf(p)',
           l \in Rows => stage'[l] \notin BeforeItsRow,
           WhoOf(l)', LeftBy(l)'
    PROVE  OnboardingInv'
    <1>1. OnboardingTypeOK'
        BY DEF OnboardingInv, OnboardingTypeOK, Stages, UserRow
    <1>2. Rows' = Rows /\ Rows \subseteq LoginCall
        BY DEF Rows
    <1>3. ASSUME NEW u \in Rows PROVE RowOf(u)'
        <2>1. RowOf(u) /\ u \in LoginCall
            BY <1>2 DEF OnboardingInv
        <2>2. Email(u)' = Email(u) /\ Phone(u)' = Phone(u) /\ ParaUserId(u)' = ParaUserId(u)
            BY DEF Email, Phone, ParaUserId
        <2>3. stage'[u] \notin BeforeItsRow
            BY <2>1 DEF RowOf
        <2> QED
            BY <2>1, <2>2, <2>3 DEF RowOf
    <1>4. OneRowEach'
        BY <1>2 DEF OnboardingInv, OneRowEach, SamePerson
    <1>5. ASSUME NEW m \in LoginCall \ {l} PROVE WhoOf(m)' /\ LeftBy(m)'
        <2>1. WhoOf(m) /\ LeftBy(m) /\ person[m] \in Person
            BY Logins DEF OnboardingInv
        <2>2. WhoOf(m)'
            BY <1>2, <2>1 DEF WhoOf, SamePerson
        <2> QED
            BY <2>1, <2>2 DEF LeftBy
    <1>6. ASSUME NEW p \in Person PROVE WalletOf(p)'
        BY <1>2 DEF OnboardingInv, WalletOf
    <1> QED
        BY <1>1, <1>2, <1>3, <1>4, <1>5, <1>6 DEF OnboardingInv

\* A step of one login that writes no row.
LEMMA QuietLogin ==
    ASSUME OnboardingInv, NEW l \in LoginCall, UNCHANGED <<contact, person, recognised, tables>>,
           stage' \in [LoginCall -> Stages], who' \in [LoginCall -> LoginCall \cup {NoOne}],
           faulted' \subseteq LoginCall, faulted \subseteq faulted', faulted' \subseteq faulted \cup {l},
           \A m \in LoginCall \ {l} : stage'[m] = stage[m] /\ who'[m] = who[m],
           l \in Rows => stage'[l] \notin BeforeItsRow,
           WhoOf(l)', LeftBy(l)'
    PROVE  OnboardingInv'
    <1>1. /\ user \in [LoginCall -> UserRow] /\ removals \in 0 .. MaxRemovals
          /\ wallet \in [Person -> [owner : LoginCall \cup {NoOne}, active : BOOLEAN]]
        BY DEF OnboardingInv, OnboardingTypeOK, UserRow
    <1> QED
        BY <1>1, LoginMoves DEF tables

\* A login that settles on a row it has found.
LEMMA Settles ==
    ASSUME OnboardingInv, NEW l \in LoginCall, stage[l] \in BeforeItsRow, NEW A, A \subseteq Rows,
           Settle(l, A), \A u \in A : SamePerson(u, l),
           UNCHANGED <<faulted, contact, person, recognised, user, wallet, removals>>
    PROVE  OnboardingInv'
    <1>1. PICK u \in A : /\ SamePerson(u, l) /\ who' = [who EXCEPT ![l] = u]
                         /\ To(l, IF user[u].active THEN "refreshing" ELSE "reactivating")
        BY DEF Settle
    <1>2. /\ OnboardingTypeOK /\ who \in [LoginCall -> LoginCall \cup {NoOne}]
          /\ faulted \subseteq LoginCall /\ u \in Rows /\ u \in LoginCall
        BY AllRows DEF OnboardingInv, OnboardingTypeOK
    <1>3. PICK label \in {"refreshing", "reactivating"} : To(l, label)
        BY <1>1
    <1>4. /\ stage' \in [LoginCall -> Stages] /\ stage'[l] = label
          /\ \A m \in LoginCall \ {l} : stage'[m] = stage[m]
        BY <1>2, <1>3, ToMoves DEF Stages, InUserPart
    <1>5. /\ who' \in [LoginCall -> LoginCall \cup {NoOne}] /\ who'[l] = u
          /\ \A m \in LoginCall \ {l} : who'[m] = who[m]
        BY <1>1, <1>2
    <1>6. WhoOf(l)' /\ LeftBy(l)'
        BY <1>1, <1>2, <1>4, <1>5 DEF WhoOf, LeftBy, SamePerson, Rows
    <1>7. stage'[l] \notin BeforeItsRow
        BY <1>4 DEF BeforeItsRow
    <1> QED
        BY <1>2, <1>4, <1>5, <1>6, <1>7, QuietLogin DEF tables

\* Logins, removals and lost logins keep what is known of users, logins and wallets.
LEMMA OnboardingStep == OnboardingInv /\ [OnboardingNext]_onboardingVars => OnboardingInv'
    <1> SUFFICES ASSUME OnboardingInv, [OnboardingNext]_onboardingVars PROVE OnboardingInv'
        OBVIOUS
    <1> USE Absent
    <1>t. /\ OnboardingTypeOK
          /\ stage \in [LoginCall -> Stages] /\ who \in [LoginCall -> LoginCall \cup {NoOne}]
          /\ user \in [LoginCall -> UserRow] /\ removals \in 0 .. MaxRemovals
          /\ wallet \in [Person -> [owner : LoginCall \cup {NoOne}, active : BOOLEAN]]
          /\ faulted \subseteq LoginCall /\ Rows \subseteq LoginCall
        BY DEF OnboardingInv, OnboardingTypeOK, Stages, UserRow, Rows
    <1>r. ASSUME NEW l \in LoginCall, stage[l] \in BeforeItsRow PROVE l \notin Rows
        BY <1>r DEF OnboardingInv, RowOf
    <1>s. Stages = BeforeItsRow \cup {"reactivating", "refreshing", "findingWallet", "checkingWallet",
                                      "insertingWallet", "done", "refused", "gone"}
          /\ Settled = {"reactivating", "refreshing", "findingWallet", "checkingWallet",
                        "insertingWallet", "done"}
        BY DEF Stages, BeforeItsRow, InUserPart, InWalletPart, Settled
    <1>w. ASSUME NEW l \in LoginCall, stage[l] \in Settled, HasActiveWallet(who[l])
          PROVE  wallet[person[l]] # NoWallet
        <2>1. PICK p \in Person : wallet[p].owner = who[l] /\ wallet[p].active
            BY <1>w DEF HasActiveWallet
        <2>2. wallet[p] # NoWallet /\ WalletOf(p) /\ WhoOf(l)
            BY <2>1, NoRows DEF OnboardingInv
        <2>3. person[who[l]] = p /\ person[who[l]] = person[l]
            BY <1>w, <2>1, <2>2 DEF WalletOf, WhoOf, SamePerson
        <2> QED
            BY <2>2, <2>3
    <1>1. ASSUME NEW l \in LoginCall, RefreshUser(l) PROVE OnboardingInv'
        <2>1. /\ stage' \in [LoginCall -> Stages] /\ stage'[l] \in {"findingWallet", "refused"}
              /\ \A m \in LoginCall \ {l} : stage'[m] = stage[m]
            BY <1>1, <1>t, <1>s, ToMoves DEF RefreshUser, AfterRefresh
        <2>2. UNCHANGED <<who, contact, person, recognised, user, wallet, removals>>
            BY <1>1 DEF RefreshUser, fixedOfLogin, tables
        <2>3. WhoOf(l)'
            BY <1>1, <1>s, <2>1, <2>2 DEF RefreshUser, OnboardingInv, WhoOf, SamePerson, Rows
        <2>4. LeftBy(l)'
            BY <1>1, <1>s, <1>w, <2>1, <2>2 DEF RefreshUser, LeftBy
        <2>5. l \in Rows => stage'[l] \notin BeforeItsRow
            BY <1>1, <1>r, <1>s, <2>1 DEF RefreshUser, BeforeItsRow
        <2> QED
            BY <1>1, <1>t, <2>1, <2>2, <2>3, <2>4, <2>5, QuietLogin DEF RefreshUser, tables
    <1>2. ASSUME NEW l \in LoginCall, FindWallet(l) PROVE OnboardingInv'
        <2>1. /\ stage' \in [LoginCall -> Stages] /\ stage'[l] \in {"done", "checkingWallet"}
              /\ stage'[l] = "done" => HasActiveWallet(who[l])
              /\ \A m \in LoginCall \ {l} : stage'[m] = stage[m]
            BY <1>2, <1>t, <1>s, ToMoves DEF FindWallet
        <2>2. UNCHANGED <<who, contact, person, recognised, user, wallet, removals>>
            BY <1>2 DEF FindWallet, fixedOfLogin, tables
        <2>3. WhoOf(l)'
            BY <1>2, <1>s, <2>1, <2>2 DEF FindWallet, OnboardingInv, WhoOf, SamePerson, Rows
        <2>4. LeftBy(l)'
            BY <1>2, <1>s, <1>w, <2>1, <2>2 DEF FindWallet, LeftBy
        <2>5. l \in Rows => stage'[l] \notin BeforeItsRow
            BY <1>2, <1>r, <1>s, <2>1 DEF FindWallet, BeforeItsRow
        <2> QED
            BY <1>2, <1>t, <2>1, <2>2, <2>3, <2>4, <2>5, QuietLogin DEF FindWallet, tables
    <1>3. ASSUME NEW l \in LoginCall, SessionShowsNoWallet(l) PROVE OnboardingInv'
        <2>1. /\ stage' \in [LoginCall -> Stages] /\ stage'[l] \in {"done"}
              /\ \A m \in LoginCall \ {l} : stage'[m] = stage[m]
            BY <1>3, <1>t, <1>s, ToMoves DEF SessionShowsNoWallet
        <2>2. UNCHANGED <<who, contact, person, recognised, user, wallet, removals>>
            BY <1>3 DEF SessionShowsNoWallet, fixedOfLogin, tables
        <2>3. WhoOf(l)'
            BY <1>3, <1>s, <2>1, <2>2 DEF SessionShowsNoWallet, OnboardingInv, WhoOf, SamePerson, Rows
        <2>4. LeftBy(l)'
            BY <1>3, <1>s, <1>w, <2>1, <2>2 DEF SessionShowsNoWallet, LeftBy
        <2>5. l \in Rows => stage'[l] \notin BeforeItsRow
            BY <1>3, <1>r, <1>s, <2>1 DEF SessionShowsNoWallet, BeforeItsRow
        <2> QED
            BY <1>3, <1>t, <2>1, <2>2, <2>3, <2>4, <2>5, QuietLogin DEF SessionShowsNoWallet, tables
    <1>4. ASSUME NEW l \in LoginCall, CheckWallet(l) PROVE OnboardingInv'
        <2>1. /\ stage' \in [LoginCall -> Stages] /\ stage'[l] \in {"done", "insertingWallet"}
              /\ stage'[l] = "done" => HasActiveWallet(who[l]) \/ wallet[person[l]] # NoWallet
              /\ \A m \in LoginCall \ {l} : stage'[m] = stage[m]
            BY <1>4, <1>t, <1>s, ToMoves DEF CheckWallet
        <2>2. UNCHANGED <<who, contact, person, recognised, user, wallet, removals>>
            BY <1>4 DEF CheckWallet, fixedOfLogin, tables
        <2>3. WhoOf(l)'
            BY <1>4, <1>s, <2>1, <2>2 DEF CheckWallet, OnboardingInv, WhoOf, SamePerson, Rows
        <2>4. LeftBy(l)'
            BY <1>4, <1>s, <1>w, <2>1, <2>2 DEF CheckWallet, LeftBy
        <2>5. l \in Rows => stage'[l] \notin BeforeItsRow
            BY <1>4, <1>r, <1>s, <2>1 DEF CheckWallet, BeforeItsRow
        <2> QED
            BY <1>4, <1>t, <2>1, <2>2, <2>3, <2>4, <2>5, QuietLogin DEF CheckWallet, tables
    <1>5. ASSUME NEW l \in LoginCall, CreateWalletLater(l) PROVE OnboardingInv'
        <2>1. /\ stage' \in [LoginCall -> Stages] /\ stage'[l] \in {"checkingWallet"}
              /\ \A m \in LoginCall \ {l} : stage'[m] = stage[m]
            BY <1>5, <1>t, <1>s, ToMoves DEF CreateWalletLater
        <2>2. UNCHANGED <<who, contact, person, recognised, user, wallet, removals>>
            BY <1>5 DEF CreateWalletLater, fixedOfLogin, tables
        <2>3. WhoOf(l)'
            BY <1>5, <1>s, <2>1, <2>2 DEF CreateWalletLater, OnboardingInv, WhoOf, SamePerson, Rows
        <2>4. LeftBy(l)'
            BY <1>5, <1>s, <1>w, <2>1, <2>2 DEF CreateWalletLater, LeftBy
        <2>5. l \in Rows => stage'[l] \notin BeforeItsRow
            BY <1>5, <1>r, <1>s, <2>1 DEF CreateWalletLater, BeforeItsRow
        <2> QED
            BY <1>5, <1>t, <2>1, <2>2, <2>3, <2>4, <2>5, QuietLogin DEF CreateWalletLater, tables
    <1>6. ASSUME NEW l \in LoginCall, QueryFails(l) PROVE OnboardingInv'
        <2>1. /\ stage' \in [LoginCall -> Stages] /\ stage'[l] \in {"refused", "done"}
              /\ stage'[l] = "done" => stage[l] \in Settled
              /\ \A m \in LoginCall \ {l} : stage'[m] = stage[m]
            BY <1>6, <1>t, <1>s, ToMoves DEF QueryFails, InUserPart, InWalletPart
        <2>2. UNCHANGED <<who, contact, person, recognised, user, wallet, removals>>
            BY <1>6 DEF QueryFails, fixedOfLogin, tables
        <2>3. WhoOf(l)'
            BY <1>6, <1>s, <2>1, <2>2 DEF QueryFails, OnboardingInv, WhoOf, SamePerson, Rows
        <2>4. LeftBy(l)'
            BY <1>6, <1>s, <1>w, <2>1, <2>2 DEF QueryFails, LeftBy
        <2>5. l \in Rows => stage'[l] \notin BeforeItsRow
            BY <1>6, <1>r, <1>s, <2>1 DEF QueryFails, BeforeItsRow
        <2> QED
            BY <1>6, <1>t, <2>1, <2>2, <2>3, <2>4, <2>5, QuietLogin DEF QueryFails, tables
    <1>7. ASSUME NEW l \in LoginCall, LoginLost(l) PROVE OnboardingInv'
        <2>1. /\ stage' \in [LoginCall -> Stages] /\ stage'[l] \in {"gone"}
              /\ \A m \in LoginCall \ {l} : stage'[m] = stage[m]
            BY <1>7, <1>t, <1>s, ToMoves DEF LoginLost
        <2>2. UNCHANGED <<who, contact, person, recognised, user, wallet, removals>>
            BY <1>7 DEF LoginLost, fixedOfLogin, tables
        <2>3. WhoOf(l)'
            BY <1>7, <1>s, <2>1, <2>2 DEF LoginLost, OnboardingInv, WhoOf, SamePerson, Rows
        <2>4. LeftBy(l)'
            BY <1>7, <1>s, <1>w, <2>1, <2>2 DEF LoginLost, LeftBy
        <2>5. l \in Rows => stage'[l] \notin BeforeItsRow
            BY <1>7, <1>r, <1>s, <2>1 DEF LoginLost, BeforeItsRow
        <2> QED
            BY <1>7, <1>t, <2>1, <2>2, <2>3, <2>4, <2>5, QuietLogin DEF LoginLost, tables
    <1>8. ASSUME NEW l \in LoginCall, FindActiveUser(l) PROVE OnboardingInv'
        <2>1. UNCHANGED <<faulted, contact, person, recognised, user, wallet, removals>>
            BY <1>8 DEF FindActiveUser, fixedOfLogin, tables
        <2>2. stage[l] \in BeforeItsRow /\ l \notin Rows
            BY <1>8, <1>r DEF FindActiveUser, BeforeItsRow
        <2>3. CASE To(l, "creating") /\ UNCHANGED who
            <3>1. /\ stage' \in [LoginCall -> Stages] /\ stage'[l] = "creating"
                  /\ \A m \in LoginCall \ {l} : stage'[m] = stage[m]
                BY <1>t, <1>s, <2>3, ToMoves DEF BeforeItsRow
            <3>2. WhoOf(l)' /\ LeftBy(l)'
                BY <1>s, <3>1 DEF WhoOf, LeftBy
            <3> QED
                BY <1>t, <2>1, <2>2, <2>3, <3>1, <3>2, QuietLogin DEF tables
        <2>4. CASE \E u \in Rows : /\ u \in ByEmail(l, {v \in Rows : user[v].active})
                                         \cup ByPhone(l, {v \in Rows : user[v].active})
                                   /\ who' = [who EXCEPT ![l] = u] /\ To(l, "refreshing")
            <3>1. PICK u \in Rows : /\ SamePerson(u, l) /\ who' = [who EXCEPT ![l] = u]
                                    /\ To(l, "refreshing")
                BY <2>2, <2>4, FoundIsSame
            <3>2. /\ stage' \in [LoginCall -> Stages] /\ stage'[l] = "refreshing"
                  /\ \A m \in LoginCall \ {l} : stage'[m] = stage[m]
                BY <1>t, <1>s, <3>1, ToMoves
            <3>3. /\ who' \in [LoginCall -> LoginCall \cup {NoOne}] /\ who'[l] = u
                  /\ \A m \in LoginCall \ {l} : who'[m] = who[m]
                BY <1>t, <3>1
            <3>4. WhoOf(l)' /\ LeftBy(l)'
                BY <1>s, <2>1, <3>1, <3>2, <3>3 DEF WhoOf, LeftBy, SamePerson, Rows
            <3> QED
                BY <1>t, <2>1, <2>2, <3>2, <3>3, <3>4, QuietLogin DEF tables
        <2> QED
            BY <1>8, <2>3, <2>4 DEF FindActiveUser, ByEmail, ByPhone
    <1>9. ASSUME NEW l \in LoginCall, FindAnyUser(l) PROVE OnboardingInv'
        <2>1. UNCHANGED <<faulted, contact, person, recognised, user, wallet, removals>>
            BY <1>9 DEF FindAnyUser, fixedOfLogin, tables
        <2>2. stage[l] \in BeforeItsRow /\ l \notin Rows
            BY <1>9, <1>r DEF FindAnyUser, BeforeItsRow
        <2>3. CASE To(l, "inserting") /\ UNCHANGED who
            <3>1. /\ stage' \in [LoginCall -> Stages] /\ stage'[l] = "inserting"
                  /\ \A m \in LoginCall \ {l} : stage'[m] = stage[m]
                BY <1>t, <1>s, <2>3, ToMoves DEF BeforeItsRow
            <3>2. WhoOf(l)' /\ LeftBy(l)'
                BY <1>s, <3>1 DEF WhoOf, LeftBy
            <3> QED
                BY <1>t, <2>1, <2>2, <2>3, <3>1, <3>2, QuietLogin DEF tables
        <2>4. CASE Settle(l, Found(l, Rows))
            <3>1. /\ Found(l, Rows) \subseteq Rows
                  /\ \A u \in Found(l, Rows) :
                        u \in ByEmail(l, Rows) \cup ByPhone(l, Rows) \cup ByParaUserId(l, Rows)
                BY DEF Found, ByEmail, ByPhone, ByParaUserId
            <3>2. \A u \in Found(l, Rows) : SamePerson(u, l)
                BY <2>2, <3>1, FoundIsSame
            <3> QED
                BY <2>1, <2>2, <2>4, <3>1, <3>2, Settles
        <2> QED
            BY <1>9, <2>3, <2>4 DEF FindAnyUser
    <1>10. ASSUME NEW l \in LoginCall, RecoverFromConflict(l) PROVE OnboardingInv'
        <2>1. UNCHANGED <<faulted, contact, person, recognised, user, wallet, removals>>
            BY <1>10 DEF RecoverFromConflict, RecoverUser, fixedOfLogin
        <2>2. stage[l] \in BeforeItsRow /\ l \notin Rows
            BY <1>10, <1>r DEF RecoverFromConflict, BeforeItsRow
        <2>3. CASE To(l, "refused") /\ UNCHANGED who
            <3>1. /\ stage' \in [LoginCall -> Stages] /\ stage'[l] = "refused"
                  /\ \A m \in LoginCall \ {l} : stage'[m] = stage[m]
                BY <1>t, <1>s, <2>3, ToMoves DEF BeforeItsRow
            <3>2. WhoOf(l)' /\ LeftBy(l)'
                BY <1>s, <3>1 DEF WhoOf, LeftBy
            <3> QED
                BY <1>t, <2>1, <2>2, <2>3, <3>1, <3>2, QuietLogin DEF tables
        <2>4. CASE Settle(l, FoundAfterConflict(l))
            <3>1. PhoneColumn(l) # Empty
                BY <1>t, SessionData
            <3>2. /\ FoundAfterConflict(l) \subseteq Rows
                  /\ \A u \in FoundAfterConflict(l) :
                        u \in ByEmail(l, Rows) \cup ByPhone(l, Rows) \cup ByParaUserId(l, Rows)
                BY <3>1 DEF FoundAfterConflict, ByEmail, ByPhone, ByParaUserId
            <3>3. \A u \in FoundAfterConflict(l) : SamePerson(u, l)
                BY <2>2, <3>2, FoundIsSame
            <3> QED
                BY <2>1, <2>2, <2>4, <3>2, <3>3, Settles
        <2> QED
            BY <1>10, <2>3, <2>4 DEF RecoverFromConflict, RecoverUser
    <1>11. ASSUME NEW l \in LoginCall, ImportClientSession(l) PROVE OnboardingInv'
        <2>1. UNCHANGED <<contact, person, who, faulted, user, wallet, removals>>
            BY <1>11 DEF ImportClientSession, tables
        <2>2. stage[l] = "new" /\ l \notin Rows
            BY <1>11, <1>r DEF ImportClientSession, BeforeItsRow
        <2>3. /\ stage' \in [LoginCall -> Stages] /\ stage'[l] = "finding"
              /\ \A m \in LoginCall \ {l} : stage'[m] = stage[m]
            BY <1>11, <1>t, <1>s, ToMoves DEF ImportClientSession, BeforeItsRow
        <2>4. /\ recognised' \in [LoginCall -> BOOLEAN]
              /\ \A m \in LoginCall \ {l} : recognised'[m] = recognised[m]
            BY <1>11 DEF ImportClientSession, OnboardingInv, OnboardingTypeOK
        <2>5. Rows' = Rows
            BY <2>1 DEF Rows
        <2>6. OnboardingTypeOK'
            BY <1>t, <2>1, <2>3, <2>4 DEF OnboardingTypeOK, Stages
        <2>7. ASSUME NEW u \in Rows PROVE RowOf(u)'
            <3>1. RowOf(u) /\ u \in LoginCall /\ u # l
                BY <1>t, <2>2 DEF OnboardingInv
            <3>2. Email(u)' = Email(u) /\ Phone(u)' = Phone(u) /\ ParaUserId(u)' = ParaUserId(u)
                BY <2>1, <2>4, <3>1 DEF Email, Phone, ParaUserId
            <3>3. stage'[u] = stage[u] /\ user'[u] = user[u]
                BY <2>1, <2>3, <3>1
            <3> QED
                BY <3>1, <3>2, <3>3 DEF RowOf
        <2>8. OneRowEach'
            BY <1>t, <2>1, <2>2, <2>4, <2>5 DEF OnboardingInv, OneRowEach, SamePerson
        <2>9. ASSUME NEW m \in LoginCall PROVE WhoOf(m)' /\ LeftBy(m)'
            <3>1. CASE m = l
                BY <1>s, <2>3, <3>1 DEF WhoOf, LeftBy
            <3>2. CASE m # l
                <4>1. WhoOf(m) /\ LeftBy(m)
                    BY DEF OnboardingInv
                <4> QED
                    BY <1>t, <2>1, <2>2, <2>3, <2>4, <2>5, <3>2, <4>1 DEF WhoOf, LeftBy, SamePerson
            <3> QED
                BY <3>1, <3>2
        <2>10. ASSUME NEW p \in Person PROVE WalletOf(p)'
            BY <2>1, <2>5 DEF OnboardingInv, WalletOf
        <2> QED
            BY <2>5, <2>6, <2>7, <2>8, <2>9, <2>10 DEF OnboardingInv
    <1>12. ASSUME NEW l \in LoginCall, InsertUser(l) PROVE OnboardingInv'
        <2>1. UNCHANGED <<contact, person, recognised, wallet, faulted, removals>>
            BY <1>12 DEF InsertUser, fixedOfLogin
        <2>2. stage[l] = "inserting" /\ l \notin Rows
            BY <1>12, <1>r DEF InsertUser, BeforeItsRow
        <2>3. CASE To(l, "recovering") /\ UNCHANGED <<user, who>>
            <3>1. /\ stage' \in [LoginCall -> Stages] /\ stage'[l] = "recovering"
                  /\ \A m \in LoginCall \ {l} : stage'[m] = stage[m]
                BY <1>t, <1>s, <2>3, ToMoves DEF BeforeItsRow
            <3>2. WhoOf(l)' /\ LeftBy(l)'
                BY <1>s, <3>1 DEF WhoOf, LeftBy
            <3> QED
                BY <1>t, <2>1, <2>2, <2>3, <3>1, <3>2, QuietLogin DEF tables
        <2>4. CASE ~EmailTaken(l) /\ ~PhoneTaken(l)
            <3> DEFINE new == [email |-> Email(l), phone |-> PhoneColumn(l),
                               authId |-> ParaUserId(l), active |-> TRUE]
            <3>1. user' = [user EXCEPT ![l] = new] /\ who' = [who EXCEPT ![l] = l] /\ To(l, "refreshing")
                BY <1>12, <2>4 DEF InsertUser
            <3>2. new \in UserRow /\ new # NoRow /\ person[l] \in Person
                BY <1>t, SessionData, Logins, NoRows DEF UserRow
            <3>3. /\ new.email = Email(l) /\ new.phone = Phone(l) /\ new.authId = ParaUserId(l)
                BY <1>t, SessionData
            <3> HIDE DEF new
            <3>4. /\ stage' \in [LoginCall -> Stages] /\ stage'[l] = "refreshing"
                  /\ \A m \in LoginCall \ {l} : stage'[m] = stage[m]
                BY <1>t, <1>s, <3>1, ToMoves
            <3>5. /\ user' \in [LoginCall -> UserRow] /\ user'[l] = new
                  /\ \A m \in LoginCall \ {l} : user'[m] = user[m]
                BY <1>t, <3>1, <3>2
            <3>6. /\ who' \in [LoginCall -> LoginCall \cup {NoOne}] /\ who'[l] = l
                  /\ \A m \in LoginCall \ {l} : who'[m] = who[m]
                BY <1>t, <3>1
            <3>7. Rows' = Rows \cup {l}
                BY <3>2, <3>5 DEF Rows
            <3>8. OnboardingTypeOK'
                BY <1>t, <2>1, <3>4, <3>5, <3>6 DEF OnboardingTypeOK, Stages, UserRow
            <3>9. ASSUME NEW u \in Rows' PROVE RowOf(u)'
                <4>1. u \in LoginCall
                    BY <1>t, <3>7
                <4>2. Email(u)' = Email(u) /\ Phone(u)' = Phone(u) /\ ParaUserId(u)' = ParaUserId(u)
                    BY <2>1 DEF Email, Phone, ParaUserId
                <4>3. CASE u = l
                    BY <3>3, <3>4, <3>5, <4>2, <4>3 DEF RowOf, BeforeItsRow
                <4>4. CASE u # l
                    <5>1. RowOf(u) /\ stage'[u] = stage[u] /\ user'[u] = user[u]
                        BY <3>4, <3>5, <3>7, <4>1, <4>4 DEF OnboardingInv
                    <5> QED
                        BY <4>2, <5>1 DEF RowOf
                <4> QED
                    BY <4>3, <4>4
            <3>10. ASSUME NEW u \in Rows, SamePerson(u, l) \/ SamePerson(l, u), contact[person[l]] # {}
                   PROVE  FALSE
                <4>1. RowOf(u) /\ u \in LoginCall
                    BY <1>t DEF OnboardingInv
                <4>2. contact[person[l]] \subseteq {"email", "phone"}
                    BY <1>t, Logins
                <4>3. CASE "email" \in contact[person[l]]
                    BY <1>t, <2>4, <3>10, <4>1, <4>3, SessionData DEF RowOf, SamePerson, EmailTaken, Email
                <4>4. CASE "phone" \in contact[person[l]]
                    BY <1>t, <2>4, <3>10, <4>1, <4>4, SessionData
                    DEF RowOf, SamePerson, PhoneTaken, PhoneColumn, Phone
                <4> QED
                    BY <3>10, <4>2, <4>3, <4>4
            <3>11. OneRowEach'
                <4>1. \A u, v \in Rows : SamePerson(u, v) /\ contact[person[u]] # {} => u = v
                    BY DEF OnboardingInv, OneRowEach
                <4>2. \A u \in Rows : SamePerson(u, l) \/ SamePerson(l, u) => person[u] = person[l]
                    BY DEF SamePerson
                <4>3. \A u, v \in Rows' : SamePerson(u, v) /\ contact[person[u]] # {} => u = v
                    BY <3>7, <3>10, <4>1, <4>2
                <4> QED
                    BY <2>1, <4>3 DEF OneRowEach, SamePerson
            <3>12. ASSUME NEW m \in LoginCall PROVE WhoOf(m)' /\ LeftBy(m)'
                <4>1. WhoOf(m) /\ LeftBy(m)
                    BY DEF OnboardingInv
                <4>2. CASE m = l
                    BY <1>s, <3>4, <3>6, <3>7, <4>2 DEF WhoOf, LeftBy
                <4>3. CASE m # l
                    <5>1. stage'[m] = stage[m] /\ who'[m] = who[m]
                        BY <3>4, <3>6, <4>3
                    <5> QED
                        BY <1>t, <2>1, <3>7, <4>1, <5>1 DEF WhoOf, LeftBy, SamePerson
                <4> QED
                    BY <4>2, <4>3
            <3>13. ASSUME NEW p \in Person PROVE WalletOf(p)'
                BY <2>1, <3>7 DEF OnboardingInv, WalletOf
            <3> QED
                BY <3>8, <3>9, <3>11, <3>12, <3>13 DEF OnboardingInv
        <2> QED
            BY <1>12, <2>3, <2>4 DEF InsertUser
    <1>13. ASSUME NEW l \in LoginCall, ReactivateUser(l) PROVE OnboardingInv'
        <2>1. UNCHANGED <<contact, person, recognised, who, wallet, faulted, removals>>
            BY <1>13 DEF ReactivateUser, fixedOfLogin
        <2>2. /\ stage[l] = "reactivating" /\ who[l] \in Rows /\ who[l] \in LoginCall
              /\ SamePerson(who[l], l) /\ RowOf(who[l])
            BY <1>13, <1>s, <1>t DEF ReactivateUser, OnboardingInv, WhoOf
        <2>3. /\ stage' \in [LoginCall -> Stages] /\ stage'[l] = "refreshing"
              /\ \A m \in LoginCall \ {l} : stage'[m] = stage[m]
            BY <1>13, <1>t, <1>s, ToMoves DEF ReactivateUser
        <2>4. Email(who[l]) = Email(l) /\ Phone(who[l]) = Phone(l) /\ ParaUserId(who[l]) = ParaUserId(l)
            BY <2>2 DEF Email, Phone, ParaUserId, SamePerson
        <2> DEFINE old == user[who[l]]
                   new == [email |-> old.email, phone |-> old.phone, authId |-> old.authId, active |-> TRUE]
        <2>5. user' = [user EXCEPT ![who[l]] = new]
            <3>1. old.email = Email(l) /\ old.phone = Phone(l) /\ old.authId = ParaUserId(l)
                BY <2>2, <2>4 DEF RowOf
            <3>2. /\ Email(l) = (IF old.email \in {NoOne, Empty} THEN Email(l) ELSE old.email)
                  /\ Phone(l) = (IF old.phone \in {NoOne, Empty} THEN Phone(l) ELSE old.phone)
                BY <3>1
            <3> QED
                BY <1>13, <3>1, <3>2 DEF ReactivateUser
        <2>6. old \in UserRow /\ old # NoRow
            BY <1>t, <2>2, AllRows
        <2>7. new \in UserRow /\ new # NoRow
            BY <2>6, NoRows DEF UserRow
        <2>8. /\ user' \in [LoginCall -> UserRow]
              /\ \A u \in LoginCall : /\ user'[u] # NoRow <=> user[u] # NoRow
                                      /\ user'[u].email = user[u].email /\ user'[u].phone = user[u].phone
                                      /\ user'[u].authId = user[u].authId
            BY <1>t, <2>2, <2>5, <2>6, <2>7
        <2>9. WhoOf(l)' /\ LeftBy(l)'
            <3>1. Rows' = Rows
                BY <2>8 DEF Rows
            <3> QED
                BY <1>s, <2>1, <2>2, <2>3, <3>1 DEF WhoOf, LeftBy, SamePerson
        <2>10. stage'[l] \notin BeforeItsRow
            BY <2>3 DEF BeforeItsRow
        <2> QED
            BY <1>t, <2>1, <2>3, <2>8, <2>9, <2>10, LoginMoves
    <1>14. ASSUME NEW l \in LoginCall, InsertWallet(l) PROVE OnboardingInv'
        <2>1. UNCHANGED <<contact, person, recognised, user, who, faulted, removals>>
            BY <1>14 DEF InsertWallet, fixedOfLogin
        <2>2. /\ stage[l] = "insertingWallet" /\ who[l] \in Rows /\ who[l] \in LoginCall
              /\ person[who[l]] = person[l] /\ person[l] \in Person
            BY <1>14, <1>s, <1>t, Logins DEF InsertWallet, OnboardingInv, WhoOf, SamePerson
        <2>3. /\ stage' \in [LoginCall -> Stages] /\ stage'[l] = "done"
              /\ \A m \in LoginCall \ {l} : stage'[m] = stage[m]
            BY <1>14, <1>t, <1>s, ToMoves DEF InsertWallet
        <2> DEFINE new == [owner |-> who[l], active |-> TRUE]
        <2>4. new \in [owner : LoginCall \cup {NoOne}, active : BOOLEAN] /\ new # NoWallet /\ new.owner = who[l]
            BY <2>2, NoRows
        <2>5. \/ wallet[person[l]] # NoWallet /\ wallet' = wallet
              \/ wallet[person[l]] = NoWallet /\ wallet' = [wallet EXCEPT ![person[l]] = new]
            BY <1>14 DEF InsertWallet
        <2> HIDE DEF new
        <2>6. wallet' \in [Person -> [owner : LoginCall \cup {NoOne}, active : BOOLEAN]]
            BY <1>t, <2>4, <2>5
        <2>7. /\ \A p \in Person : wallet[p] # NoWallet => wallet'[p] # NoWallet
              /\ wallet'[person[l]] # NoWallet
            BY <1>t, <2>2, <2>4, <2>5
        <2>8. Rows' = Rows
            BY <2>1 DEF Rows
        <2>9. \A p \in Person : wallet'[p] = wallet[p] \/ WalletOf(p)'
            BY <1>t, <2>1, <2>2, <2>4, <2>5, <2>8 DEF WalletOf
        <2>10. WhoOf(l)' /\ LeftBy(l)'
            BY <1>s, <2>1, <2>2, <2>3, <2>7, <2>8 DEF WhoOf, LeftBy, OnboardingInv, SamePerson
        <2>11. stage'[l] \notin BeforeItsRow
            BY <2>3 DEF BeforeItsRow
        <2> QED
            BY <1>t, <2>1, <2>3, <2>6, <2>7, <2>9, <2>10, <2>11, LoginMoves
    <1>15. ASSUME NEW u \in LoginCall, RemoveUser(u) PROVE OnboardingInv'
        <2>1. UNCHANGED <<contact, person, recognised, stage, who, wallet, faulted>>
            BY <1>15 DEF RemoveUser, fixedOfLogin
        <2>2. user[u] \in UserRow /\ user[u].active /\ removals' \in 0 .. MaxRemovals
            BY <1>15, <1>t DEF RemoveUser
        <2> DEFINE old == user[u]
                   new == [old EXCEPT !.active = FALSE]
        <2>3. /\ new \in UserRow /\ new.email = old.email /\ new.phone = old.phone /\ new.authId = old.authId
              /\ old # NoRow
            BY <2>2, NoRows DEF UserRow
        <2>4. u \in Rows /\ RowOf(u) /\ old.authId # NoOne
            <3>1. u \in Rows
                BY <2>3 DEF Rows
            <3> QED
                BY <1>t, <3>1, SessionData DEF OnboardingInv, RowOf
        <2>5. new # NoRow
            BY <2>3, <2>4, NoRows
        <2>6. user' = [user EXCEPT ![u] = new]
            BY <1>15 DEF RemoveUser
        <2> HIDE DEF old, new
        <2>7. /\ user' \in [LoginCall -> UserRow]
              /\ \A v \in LoginCall : /\ user'[v] # NoRow <=> user[v] # NoRow
                                      /\ user'[v].email = user[v].email /\ user'[v].phone = user[v].phone
                                      /\ user'[v].authId = user[v].authId
            BY <1>t, <2>3, <2>5, <2>6 DEF old
        <2>8. Rows' = Rows
            BY <2>7 DEF Rows
        <2>9. WhoOf(u)' /\ LeftBy(u)' /\ stage'[u] \notin BeforeItsRow
            BY <2>1, <2>4, <2>8 DEF WhoOf, LeftBy, OnboardingInv, SamePerson, RowOf
        <2> QED
            BY <1>t, <2>1, <2>2, <2>7, <2>9, LoginMoves
    <1>16. ASSUME NEW p \in Person, RemoveWallet(p) PROVE OnboardingInv'
        <2>1. UNCHANGED <<contact, person, recognised, stage, who, user, faulted>>
            BY <1>16 DEF RemoveWallet, fixedOfLogin
        <2>2. wallet[p].active /\ removals' \in 0 .. MaxRemovals
            BY <1>16, <1>t DEF RemoveWallet
        <2>3. wallet[p] # NoWallet /\ WalletOf(p)
            BY <2>2, NoRows DEF OnboardingInv
        <2>4. PICK l \in LoginCall : l = wallet[p].owner /\ l \in Rows
            BY <1>t, <2>3 DEF WalletOf
        <2> DEFINE old == wallet[p]
                   new == [old EXCEPT !.active = FALSE]
        <2>5. /\ new \in [owner : LoginCall \cup {NoOne}, active : BOOLEAN]
              /\ new.owner = old.owner /\ new # NoWallet
            BY <1>t, <2>4, NoRows
        <2>6. wallet' = [wallet EXCEPT ![p] = new]
            BY <1>16 DEF RemoveWallet
        <2> HIDE DEF new
        <2>7. wallet' \in [Person -> [owner : LoginCall \cup {NoOne}, active : BOOLEAN]]
            BY <1>t, <2>5, <2>6
        <2>8. /\ \A q \in Person : wallet[q] # NoWallet => wallet'[q] # NoWallet
              /\ \A q \in Person : wallet'[q].owner = wallet[q].owner
            BY <1>t, <2>5, <2>6
        <2>9. Rows' = Rows
            BY <2>1 DEF Rows
        <2>10. \A q \in Person : wallet'[q] = wallet[q] \/ WalletOf(q)'
            BY <1>t, <2>1, <2>3, <2>5, <2>6, <2>9 DEF WalletOf
        <2>11. RowOf(l) /\ WhoOf(l) /\ LeftBy(l) /\ person[l] \in Person
            BY <1>t, <2>4, Logins DEF OnboardingInv
        <2>12. WhoOf(l)' /\ LeftBy(l)' /\ stage'[l] \notin BeforeItsRow
            BY <2>1, <2>8, <2>9, <2>11 DEF WhoOf, LeftBy, SamePerson, RowOf
        <2> QED
            BY <1>t, <2>1, <2>2, <2>7, <2>8, <2>10, <2>12, LoginMoves
    <1>17. ASSUME UNCHANGED onboardingVars PROVE OnboardingInv'
        BY <1>17 DEF onboardingVars, OnboardingInv, OnboardingTypeOK, RowOf, OneRowEach, SamePerson, WhoOf,
                     LeftBy, WalletOf, Rows, Email, Phone, ParaUserId
    <1> QED
        BY <1>1, <1>2, <1>3, <1>4, <1>5, <1>6, <1>7, <1>8, <1>9, <1>10, <1>11, <1>12, <1>13, <1>14, <1>15, <1>16, <1>17
        DEF OnboardingNext, LoginStep

LEMMA OnboardingInvariant == OnboardingSpec => []OnboardingInv
    BY OnboardingAtStart, OnboardingStep, PTL DEF OnboardingSpec

\* The logins, users and wallets keep their types.
THEOREM OnboardingTypesHold == OnboardingSpec => []OnboardingTypeOK
    BY OnboardingInvariant, PTL DEF OnboardingInv

\* createUserFromSession, its recovery from a unique violation and its reactivation of
\* removed users bring every recognised login of one person to one user, for any
\* number of logins, as long as the sessions show an email or a phone.
THEOREM OnePersonOneUser == OnboardingSpec => []SameUserEachLogin
    <1>1. OnboardingInv => SameUserEachLogin
        <2> SUFFICES ASSUME OnboardingInv, NEW l \in LoginCall, NEW m \in LoginCall,
                            Accepted(l), Accepted(m), SamePerson(l, m), contact[person[l]] # {}
                     PROVE  who[l] = who[m]
            BY DEF SameUserEachLogin, SamePerson
        <2>1. WhoOf(l) /\ WhoOf(m) /\ stage[l] \in Settled /\ stage[m] \in Settled
            BY DEF OnboardingInv, Accepted, Settled
        <2>2. who[l] \in Rows /\ who[m] \in Rows /\ SamePerson(who[l], who[m]) /\ person[who[l]] = person[l]
            BY <2>1 DEF WhoOf, SamePerson
        <2> QED
            BY <2>2 DEF OnboardingInv, OneRowEach
    <1> QED
        BY <1>1, OnboardingInvariant, PTL

\* No login ends at a row that was created for another Para account.
THEOREM NobodyElsesUser == OnboardingSpec => []NoStranger
    <1>1. OnboardingInv => NoStranger
        <2> SUFFICES ASSUME OnboardingInv, NEW l \in LoginCall, Accepted(l)
                     PROVE  user[who[l]].authId = ParaUserId(l)
            BY DEF NoStranger
        <2>1. WhoOf(l) /\ stage[l] \in Settled
            BY DEF OnboardingInv, Accepted, Settled
        <2>2. who[l] \in Rows /\ (who[l] = l \/ SamePerson(who[l], l))
            BY <2>1 DEF WhoOf
        <2>3. user[who[l]].authId = ParaUserId(who[l])
            BY <2>2 DEF OnboardingInv, RowOf
        <2> QED
            BY <2>2, <2>3 DEF ParaUserId, SamePerson
    <1> QED
        BY <1>1, OnboardingInvariant, PTL

\* A login whose queries all succeeded leaves the address of its session registered,
\* and to its own user when the person's users cannot have been split.
THEOREM WalletsOfLogins == OnboardingSpec => []LoginLeavesWallet
    <1>1. OnboardingInv => LoginLeavesWallet
        <2> SUFFICES ASSUME OnboardingInv, NEW l \in LoginCall, stage[l] = "done", l \notin faulted
                     PROVE  /\ wallet[person[l]] # NoWallet
                            /\ contact[person[l]] # {}
                                /\ (\A m \in LoginCall : person[m] = person[l] => recognised[m])
                                => wallet[person[l]].owner = who[l]
            BY DEF LoginLeavesWallet
        <2>1. /\ LeftBy(l) /\ WhoOf(l) /\ person[l] \in Person /\ stage[l] \in Settled
            BY Logins DEF OnboardingInv, Settled
        <2>2. wallet[person[l]] # NoWallet /\ WalletOf(person[l])
            BY <2>1 DEF OnboardingInv, LeftBy
        <2>3. ASSUME contact[person[l]] # {}, \A m \in LoginCall : person[m] = person[l] => recognised[m]
              PROVE  wallet[person[l]].owner = who[l]
            <3>1. /\ who[l] \in Rows /\ person[who[l]] = person[l]
                  /\ wallet[person[l]].owner \in Rows /\ person[wallet[person[l]].owner] = person[l]
                BY <2>1, <2>2 DEF WhoOf, WalletOf, SamePerson
            <3>2. SamePerson(wallet[person[l]].owner, who[l])
                BY <2>3, <3>1, AllRows DEF SamePerson, OnboardingInv
            <3> QED
                BY <2>3, <3>1, <3>2 DEF OnboardingInv, OneRowEach
        <2> QED
            BY <2>2, <2>3
    <1> QED
        BY <1>1, OnboardingInvariant, PTL
=============================================================================
