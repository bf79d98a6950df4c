---------------------------- MODULE RateLimiter ----------------------------
(***************************************************************************)
(* RateLimitMiddleware.use, which main.ts puts in front of every endpoint: *)
(* a fixed window of windowMs per client.  A request is handled without an *)
(* await, so it is one step.  A client without a record is one whose       *)
(* resetTime is 0, which has always passed.                                *)
(***************************************************************************)
EXTENDS Integers, Sequences

CONSTANTS
    Client,         \* IP addresses
    WindowMs,       \* config.windowMs
    MaxRequests,    \* config.maxRequests
    Second,         \* milliseconds in a second
    Horizon         \* bound on time, which starts at 1

ASSUME RateAssumption ==
    /\ {WindowMs, MaxRequests, Second} \subseteq Nat \ {0}
    /\ Horizon \in Nat

VARIABLES
    now,            \* Date.now()
    requestCounts,  \* the Map: the record of each client
    admitted,       \* since the process started: when each client's requests
                    \* were let through, and when their window had opened
    told            \* what each client was last told when it was refused: the
                    \* time to come back, and how many had been let through

limiterVars == <<now, requestCounts, admitted, told>>

NoRecord == [count |-> 0, resetTime |-> 0]
Passed(record, time) == record.resetTime <= time

-----------------------------------------------------------------------------
(* Mutated forms of definitions below, each a plausible slip in the code.  No  *)
(* specification uses them; they show that the properties notice such a slip.  *)

\* Retry-After is rounded down.
FullSeconds(ms) == ms \div Second

\* The clean-up drops the records that have reached the limit.
CleanupByCount(d) == IF requestCounts[d].count >= MaxRequests THEN NoRecord ELSE requestCounts[d]

-----------------------------------------------------------------------------
\* Math.ceil of the seconds left.
RetryAfter(ms) == (ms + Second - 1) \div Second

\* cleanupOldEntries(windowStart).
AfterCleanup(d) == IF Passed(requestCounts[d], now - WindowMs) THEN NoRecord ELSE requestCounts[d]

\* The record a request is counted in.
CurrentRecord(c) ==
    IF Passed(AfterCleanup(c), now) THEN [count |-> 0, resetTime |-> now + WindowMs]
    ELSE AfterCleanup(c)

LimiterInit ==
    /\ now = 1
    /\ requestCounts = [c \in Client |-> NoRecord]
    /\ admitted = [c \in Client |-> <<>>]
    /\ told = [c \in Client |-> [at |-> 0, after |-> 0]]

LimiterTypeOK ==
    /\ now \in 1 .. Horizon + 1
    /\ requestCounts \in [Client -> [count : 0 .. MaxRequests, resetTime : Nat]]
    /\ admitted \in [Client -> Seq([at : Nat, opened : Nat])]
    /\ told \in [Client -> [at : Nat, after : Nat]]

Admit(c) ==
    LET record == CurrentRecord(c)
    IN  /\ record.count < MaxRequests
        /\ requestCounts' = [d \in Client |->
               IF d = c THEN [record EXCEPT !.count = @ + 1] ELSE AfterCleanup(d)]
        /\ admitted' = [admitted EXCEPT ![c] =
               Append(@, [at |-> now, opened |-> record.resetTime - WindowMs])]
        /\ UNCHANGED <<now, told>>

\* A refused request only cleans up.
Refuse(c) ==
    LET record == CurrentRecord(c)
    IN  /\ record.count >= MaxRequests
        /\ requestCounts' = [d \in Client |-> AfterCleanup(d)]
        /\ told' = [told EXCEPT ![c] =
               [at |-> now + Second * RetryAfter(record.resetTime - now), after |-> Len(admitted[c])]]
        /\ UNCHANGED <<now, admitted>>

TimePasses ==
    /\ now <= Horizon
    /\ now' = now + 1
    /\ UNCHANGED <<requestCounts, admitted, told>>

LimiterNext == TimePasses \/ \E c \in Client : Admit(c) \/ Refuse(c)

LimiterSpec == LimiterInit /\ [][LimiterNext]_limiterVars

-----------------------------------------------------------------------------
(* Properties. *)

\* A fixed window lets at most twice the limit through in any stretch of windowMs,
\* however the requests fall around the reset: between a request and the one that
\* is 2 * maxRequests later at least windowMs have passed.
TwiceTheLimitAtMost ==
    \A c \in Client : \A i, j \in 1 .. Len(admitted[c]) :
        j >= i + 2 * MaxRequests => admitted[c][j].at >= admitted[c][i].at + WindowMs

\* A client that waits as Retry-After tells it is refused again only when it has
\* used up the whole limit since it was told.
RetryAfterSuffices ==
    \A c \in Client :
        /\ told[c].at > 0 /\ told[c].at <= now
        /\ CurrentRecord(c).count >= MaxRequests
        => Len(admitted[c]) >= told[c].after + MaxRequests
=============================================================================
