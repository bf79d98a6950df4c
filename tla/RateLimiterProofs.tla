------------------------- MODULE RateLimiterProofs -------------------------
(***************************************************************************)
(* What RateLimiter's runs check, for any window, limit and number of      *)
(* clients.  The argument: the windows of a client do not overlap, each    *)
(* lets at most the limit through, so requests that are two limits apart   *)
(* lie in windows with a whole window between their openings.              *)
(***************************************************************************)
EXTENDS RateLimiter, TLAPS

\* The opening of the window that request i of a client was counted in.
Opened(c, i) == admitted[c][i].opened

\* Requests are let through inside their window, and one limit later the next
\* window has opened.
WindowsApart(c) ==
    /\ \A i \in 1 .. Len(admitted[c]) :
          /\ Opened(c, i) <= admitted[c][i].at
          /\ admitted[c][i].at < Opened(c, i) + WindowMs
    /\ \A i, j \in 1 .. Len(admitted[c]) :
          j >= i + MaxRequests => Opened(c, j) >= Opened(c, i) + WindowMs

\* A record counts the last requests, those of its window; those before it lie in
\* windows that had passed when it opened.  Without a record, all have passed.
RecordCountsWindow(c) ==
    LET record == requestCounts[c]
        last   == Len(admitted[c])
    IN  IF record.resetTime = 0
        THEN /\ record.count = 0
             /\ \A i \in 1 .. last : Opened(c, i) + WindowMs <= now
        ELSE /\ record.resetTime > WindowMs /\ record.resetTime <= now + WindowMs
             /\ record.count <= last
             /\ \A i \in 1 .. last :
                   /\ i > last - record.count => Opened(c, i) + WindowMs = record.resetTime
                   /\ i <= last - record.count => Opened(c, i) + WindowMs <= record.resetTime - WindowMs

\* What a refused client was told lies after the windows it had used by then.
ToldAfterWindows(c) ==
    told[c].at > 0 =>
        /\ told[c].after <= Len(admitted[c])
        /\ \A i \in 1 .. told[c].after : Opened(c, i) + WindowMs <= told[c].at

LimiterInv ==
    /\ LimiterTypeOK
    /\ \A c \in Client : WindowsApart(c) /\ RecordCountsWindow(c) /\ ToldAfterWindows(c)

-----------------------------------------------------------------------------
\* Retry-After is not too short.
LEMMA RetryAfterCovers ==
    ASSUME NEW ms \in Nat
    PROVE  /\ RetryAfter(ms) \in Nat
           /\ Second * RetryAfter(ms) >= ms
<1>1. Second \in Nat \ {0}
  BY RateAssumption
<1>2. RetryAfter(ms) \in Int /\ Second * RetryAfter(ms) + ((ms + Second - 1) % Second) = ms + Second - 1
  BY <1>1 DEF RetryAfter
<1>3. (ms + Second - 1) % Second \in 0 .. Second - 1
  BY <1>1
<1> QED
  BY <1>1, <1>2, <1>3

LEMMA ElementTypes ==
    ASSUME NEW S, NEW s \in Seq(S)
    PROVE  Len(s) \in Nat /\ \A i \in 1 .. Len(s) : s[i] \in S
  OBVIOUS

\* What the types of the variables say of one client.
LEMMA ClientTypes ==
    ASSUME LimiterTypeOK, NEW c \in Client
    PROVE  /\ WindowMs \in Nat \ {0} /\ MaxRequests \in Nat \ {0} /\ Second \in Nat \ {0}
           /\ Horizon \in Nat /\ now \in Nat \ {0}
           /\ admitted[c] \in Seq([at : Nat, opened : Nat])
           /\ Len(admitted[c]) \in Nat
           /\ \A i \in 1 .. Len(admitted[c]) : Opened(c, i) \in Nat /\ admitted[c][i].at \in Nat
           /\ told[c] \in [at : Nat, after : Nat]
           /\ told[c].at \in Nat /\ told[c].after \in Nat
           /\ requestCounts[c] \in [count : 0 .. MaxRequests, resetTime : Nat]
           /\ requestCounts[c].count \in 0 .. MaxRequests /\ requestCounts[c].resetTime \in Nat
<1>1. /\ WindowMs \in Nat \ {0} /\ MaxRequests \in Nat \ {0} /\ Second \in Nat \ {0}
      /\ Horizon \in Nat /\ now \in Nat \ {0}
  BY RateAssumption DEF LimiterTypeOK
<1>2. /\ admitted[c] \in Seq([at : Nat, opened : Nat])
      /\ told[c] \in [at : Nat, after : Nat]
      /\ requestCounts[c] \in [count : 0 .. MaxRequests, resetTime : Nat]
  BY DEF LimiterTypeOK
<1>3. /\ Len(admitted[c]) \in Nat
      /\ \A i \in 1 .. Len(admitted[c]) : admitted[c][i] \in [at : Nat, opened : Nat]
  BY <1>2, ElementTypes
<1>4. \A i \in 1 .. Len(admitted[c]) : Opened(c, i) \in Nat /\ admitted[c][i].at \in Nat
  BY <1>3 DEF Opened
<1> QED
  BY <1>1, <1>2, <1>3, <1>4

LEMMA LimiterInitInv == LimiterInit => LimiterInv
<1> SUFFICES ASSUME LimiterInit PROVE LimiterInv
  OBVIOUS
<1>1. LimiterTypeOK
  BY RateAssumption DEF LimiterInit, LimiterTypeOK, NoRecord
<1>2. ASSUME NEW c \in Client
      PROVE  WindowsApart(c) /\ RecordCountsWindow(c) /\ ToldAfterWindows(c)
  BY DEF LimiterInit, NoRecord, WindowsApart, RecordCountsWindow, ToldAfterWindows
<1> QED
  BY <1>1, <1>2 DEF LimiterInv

\* The record a request is counted in, before it is counted: one of this window
\* that counts the last requests, or a new one that opens after all of them.
LEMMA CurrentRecordIsRight ==
    ASSUME LimiterInv, NEW c \in Client
    PROVE  LET record == CurrentRecord(c)
               last   == Len(admitted[c])
           IN  /\ record \in [count : 0 .. MaxRequests, resetTime : Nat]
               /\ record.count \in 0 .. MaxRequests /\ record.resetTime \in Nat
               /\ record.resetTime > WindowMs /\ record.resetTime > now
               /\ record.resetTime <= now + WindowMs
               /\ record.count <= last
               /\ \A i \in 1 .. last :
                     /\ i > last - record.count => Opened(c, i) + WindowMs = record.resetTime
                     /\ i <= last - record.count =>
                           Opened(c, i) + WindowMs <= record.resetTime - WindowMs
<1> DEFINE old == requestCounts[c]
           last == Len(admitted[c])
<1>1. /\ WindowMs \in Nat \ {0} /\ MaxRequests \in Nat \ {0}
      /\ now \in Nat \ {0}
      /\ old \in [count : 0 .. MaxRequests, resetTime : Nat]
      /\ old.count \in 0 .. MaxRequests /\ old.resetTime \in Nat
      /\ last \in Nat
      /\ \A i \in 1 .. last : Opened(c, i) \in Nat
  BY ClientTypes DEF LimiterInv
<1>2. RecordCountsWindow(c)
  BY DEF LimiterInv
<1>3. CASE old.resetTime > now
  <2>1. CurrentRecord(c) = old
    BY <1>1, <1>3 DEF CurrentRecord, AfterCleanup, Passed
  <2> QED
    BY <1>1, <1>2, <1>3, <2>1 DEF RecordCountsWindow
<1>4. CASE old.resetTime <= now
  <2>1. CurrentRecord(c) = [count |-> 0, resetTime |-> now + WindowMs]
    BY <1>1, <1>4 DEF CurrentRecord, AfterCleanup, Passed, NoRecord
  <2>2. ASSUME NEW i \in 1 .. last
        PROVE  Opened(c, i) + WindowMs <= now
    <3>1. CASE old.resetTime = 0
      BY <1>2, <3>1 DEF RecordCountsWindow
    <3>2. CASE old.resetTime # 0
      <4>1. Opened(c, i) + WindowMs <= old.resetTime
        BY <1>1, <1>2, <3>2 DEF RecordCountsWindow
      <4> QED
        BY <1>1, <1>4, <4>1
    <3> QED
      BY <3>1, <3>2
  <2> QED
    BY <1>1, <2>1, <2>2
<1> QED
  BY <1>1, <1>3, <1>4

\* A client whose record is only cleaned up keeps what is known of it.
LEMMA CleanupKeepsCount ==
    ASSUME LimiterInv, NEW d \in Client,
           now' = now, admitted'[d] = admitted[d], requestCounts'[d] = AfterCleanup(d)
    PROVE  RecordCountsWindow(d)'
<1>1. /\ WindowMs \in Nat \ {0} /\ now \in Nat \ {0}
      /\ requestCounts[d].count \in 0 .. MaxRequests /\ requestCounts[d].resetTime \in Nat
      /\ Len(admitted[d]) \in Nat
      /\ \A i \in 1 .. Len(admitted[d]) : Opened(d, i) \in Nat
  BY ClientTypes DEF LimiterInv
<1>2. RecordCountsWindow(d)
  BY DEF LimiterInv
<1>3. CASE requestCounts[d].resetTime <= now - WindowMs
  <2>1. requestCounts'[d].count = 0 /\ requestCounts'[d].resetTime = 0
    BY <1>3 DEF AfterCleanup, Passed, NoRecord
  <2>2. ASSUME NEW i \in 1 .. Len(admitted[d])
        PROVE  Opened(d, i) + WindowMs <= now
    <3>1. CASE requestCounts[d].resetTime = 0
      BY <1>2, <3>1 DEF RecordCountsWindow
    <3>2. CASE requestCounts[d].resetTime # 0
      <4>1. Opened(d, i) + WindowMs <= requestCounts[d].resetTime
        BY <1>1, <1>2, <3>2 DEF RecordCountsWindow
      <4> QED
        BY <1>1, <1>3, <4>1
    <3> QED
      BY <3>1, <3>2
  <2> QED
    BY <2>1, <2>2 DEF RecordCountsWindow, Opened
<1>4. CASE ~(requestCounts[d].resetTime <= now - WindowMs)
  <2>1. requestCounts'[d] = requestCounts[d]
    BY <1>4 DEF AfterCleanup, Passed
  <2> QED
    BY <1>2, <2>1 DEF RecordCountsWindow, Opened
<1> QED
  BY <1>3, <1>4

LEMMA CleanupType ==
    ASSUME LimiterTypeOK, NEW d \in Client
    PROVE  AfterCleanup(d) \in [count : 0 .. MaxRequests, resetTime : Nat]
  BY RateAssumption DEF LimiterTypeOK, AfterCleanup, NoRecord

LEMMA LimiterStep == LimiterInv /\ [LimiterNext]_limiterVars => LimiterInv'
<1> SUFFICES ASSUME LimiterInv, [LimiterNext]_limiterVars PROVE LimiterInv'
  OBVIOUS
<1>0. /\ WindowMs \in Nat \ {0} /\ MaxRequests \in Nat \ {0} /\ Second \in Nat \ {0}
      /\ Horizon \in Nat /\ now \in Nat \ {0}
      /\ \A c \in Client : /\ Len(admitted[c]) \in Nat
                           /\ admitted[c] \in Seq([at : Nat, opened : Nat])
                           /\ told[c] \in [at : Nat, after : Nat]
                           /\ told[c].at \in Nat /\ told[c].after \in Nat
                           /\ requestCounts[c].count \in 0 .. MaxRequests
                           /\ requestCounts[c].resetTime \in Nat
                           /\ \A i \in 1 .. Len(admitted[c]) :
                                 Opened(c, i) \in Nat /\ admitted[c][i].at \in Nat
  BY ClientTypes, RateAssumption DEF LimiterInv, LimiterTypeOK
<1>1. CASE TimePasses
  <2>1. LimiterTypeOK'
    BY <1>0, <1>1 DEF TimePasses, LimiterInv, LimiterTypeOK
  <2>2. ASSUME NEW c \in Client
        PROVE  (WindowsApart(c) /\ RecordCountsWindow(c) /\ ToldAfterWindows(c))'
    <3>1. /\ now' = now + 1 /\ requestCounts' = requestCounts
          /\ admitted' = admitted /\ told' = told
      BY <1>1 DEF TimePasses
    <3>2. WindowsApart(c) /\ RecordCountsWindow(c) /\ ToldAfterWindows(c)
      BY DEF LimiterInv
    <3>3. WindowsApart(c)' /\ ToldAfterWindows(c)'
      BY <3>1, <3>2 DEF WindowsApart, ToldAfterWindows, Opened
    <3>4. RecordCountsWindow(c)'
      <4>1. CASE requestCounts[c].resetTime = 0
        <5>1. ASSUME NEW i \in 1 .. Len(admitted[c])
              PROVE  Opened(c, i) + WindowMs <= now + 1
          <6>1. Opened(c, i) + WindowMs <= now
            BY <3>2, <4>1 DEF RecordCountsWindow
          <6> QED
            BY <1>0, <6>1
        <5> QED
          BY <3>1, <3>2, <4>1, <5>1 DEF RecordCountsWindow, Opened
      <4>2. CASE requestCounts[c].resetTime # 0
        <5>1. requestCounts[c].resetTime <= now + WindowMs
          BY <3>2, <4>2 DEF RecordCountsWindow
        <5>2. requestCounts[c].resetTime <= now + 1 + WindowMs
          BY <1>0, <5>1
        <5> QED
          BY <3>1, <3>2, <4>2, <5>2 DEF RecordCountsWindow, Opened
      <4> QED
        BY <4>1, <4>2
    <3> QED
      BY <3>3, <3>4
  <2> QED
    BY <2>1, <2>2 DEF LimiterInv
<1>2. ASSUME NEW c \in Client, Admit(c) PROVE LimiterInv'
  <2> DEFINE record == CurrentRecord(c)
             last   == Len(admitted[c])
             entry  == [at |-> now, opened |-> record.resetTime - WindowMs]
  <2>1. /\ record \in [count : 0 .. MaxRequests, resetTime : Nat]
        /\ record.count \in 0 .. MaxRequests /\ record.resetTime \in Nat
        /\ record.resetTime > WindowMs /\ record.resetTime > now
        /\ record.resetTime <= now + WindowMs
        /\ record.count <= last
        /\ \A i \in 1 .. last :
              /\ i > last - record.count => Opened(c, i) + WindowMs = record.resetTime
              /\ i <= last - record.count =>
                    Opened(c, i) + WindowMs <= record.resetTime - WindowMs
    BY CurrentRecordIsRight
  <2>2. /\ record.count < MaxRequests
        /\ now' = now /\ told' = told
        /\ requestCounts' = [d \in Client |->
               IF d = c THEN [record EXCEPT !.count = @ + 1] ELSE AfterCleanup(d)]
        /\ admitted' = [admitted EXCEPT ![c] = Append(@, entry)]
    BY <1>2 DEF Admit
  <2>3. entry \in [at : Nat, opened : Nat]
    BY <1>0, <2>1
  <2>4. LimiterTypeOK'
    <3>1. [record EXCEPT !.count = @ + 1] \in [count : 0 .. MaxRequests, resetTime : Nat]
      <4>1. record.count + 1 \in 0 .. MaxRequests
        BY <1>0, <2>1, <2>2
      <4> HIDE DEF record
      <4> QED
        BY <2>1, <4>1
    <3>2. requestCounts' \in [Client -> [count : 0 .. MaxRequests, resetTime : Nat]]
      BY <2>2, <3>1, CleanupType DEF LimiterInv
    <3>3. admitted' \in [Client -> Seq([at : Nat, opened : Nat])]
      BY <1>0, <2>2, <2>3 DEF LimiterInv, LimiterTypeOK
    <3> QED
      BY <2>2, <3>2, <3>3 DEF LimiterInv, LimiterTypeOK
  <2>5. ASSUME NEW d \in Client, d # c
        PROVE  (WindowsApart(d) /\ RecordCountsWindow(d) /\ ToldAfterWindows(d))'
    <3>1. now' = now /\ told'[d] = told[d] /\ admitted'[d] = admitted[d]
          /\ requestCounts'[d] = AfterCleanup(d)
      BY <2>2, <2>5 DEF LimiterInv, LimiterTypeOK
    <3>2. WindowsApart(d) /\ ToldAfterWindows(d)
      BY DEF LimiterInv
    <3>3. WindowsApart(d)' /\ ToldAfterWindows(d)'
      BY <3>1, <3>2 DEF WindowsApart, ToldAfterWindows, Opened
    <3> QED
      BY <3>1, <3>3, CleanupKeepsCount
  <2>6. /\ Len(admitted'[c]) = last + 1
        /\ admitted'[c][last + 1] = entry
        /\ \A i \in 1 .. last : admitted'[c][i] = admitted[c][i]
        /\ told'[c] = told[c]
        /\ requestCounts'[c].count = record.count + 1
        /\ requestCounts'[c].resetTime = record.resetTime
    BY <1>0, <2>1, <2>2 DEF LimiterInv, LimiterTypeOK
  <2>7. WindowsApart(c) /\ ToldAfterWindows(c)
    BY DEF LimiterInv
  <2>8. WindowsApart(c)'
    <3>1. ASSUME NEW i \in 1 .. last + 1
          PROVE  /\ Opened(c, i)' <= admitted'[c][i].at
                 /\ admitted'[c][i].at < Opened(c, i)' + WindowMs
      <4>1. CASE i = last + 1
        <5>1. Opened(c, i)' = record.resetTime - WindowMs /\ admitted'[c][i].at = now
          BY <2>6, <4>1 DEF Opened
        <5> DEFINE reset == record.resetTime
        <5>2. /\ reset \in Nat /\ reset > WindowMs /\ reset > now /\ reset <= now + WindowMs
              /\ Opened(c, i)' = reset - WindowMs
          BY <2>1, <5>1
        <5> HIDE DEF reset
        <5> QED
          BY <1>0, <5>1, <5>2
      <4>2. CASE i # last + 1
        <5>1. i \in 1 .. last
          BY <1>0, <4>2
        <5> QED
          BY <2>6, <2>7, <5>1 DEF WindowsApart, Opened
      <4> QED
        BY <4>1, <4>2
    <3>2. ASSUME NEW i \in 1 .. last + 1, NEW j \in 1 .. last + 1, j >= i + MaxRequests
          PROVE  Opened(c, j)' >= Opened(c, i)' + WindowMs
      <4>1. CASE j = last + 1
        <5> DEFINE count == record.count
                   reset == record.resetTime
                   openI == Opened(c, i)
        <5>1. count \in 0 .. MaxRequests /\ count < MaxRequests /\ last \in Nat /\ reset \in Nat
          BY <1>0, <2>1, <2>2
        <5>2. i \in 1 .. last /\ i <= last - count
          <6> HIDE DEF count, last
          <6> QED
            BY <1>0, <3>2, <4>1, <5>1
        <5>3. openI \in Nat /\ openI + WindowMs <= reset - WindowMs
          BY <1>0, <2>1, <5>2
        <5>4. Opened(c, i)' = openI /\ Opened(c, j)' = reset - WindowMs
          BY <2>6, <4>1, <5>2 DEF Opened
        <5> HIDE DEF reset, openI
        <5> QED
          BY <1>0, <5>1, <5>3, <5>4
      <4>2. CASE j # last + 1
        <5>1. last \in Nat /\ MaxRequests \in Nat \ {0}
          BY <1>0, <2>1, <2>2
        <5>2. i \in 1 .. last /\ j \in 1 .. last
          <6> HIDE DEF last
          <6> QED
            BY <3>2, <4>2, <5>1
        <5> QED
          BY <2>6, <2>7, <3>2, <5>2 DEF WindowsApart, Opened
      <4> QED
        BY <4>1, <4>2
    <3> QED
      BY <2>6, <3>1, <3>2 DEF WindowsApart
  <2>9. RecordCountsWindow(c)'
    <3>1. ASSUME NEW i \in 1 .. last + 1
          PROVE  /\ i > last + 1 - (record.count + 1) => Opened(c, i)' + WindowMs = record.resetTime
                 /\ i <= last + 1 - (record.count + 1) =>
                       Opened(c, i)' + WindowMs <= record.resetTime - WindowMs
      <4> DEFINE count == record.count
                 reset == record.resetTime
      <4>1. count \in 0 .. MaxRequests /\ last \in Nat /\ reset \in Nat
        BY <1>0, <2>1
      <4>2. CASE i = last + 1
        <5>1. Opened(c, i)' = reset - WindowMs
          BY <2>6, <4>2 DEF Opened
        <5> HIDE DEF count, reset
        <5>2. Opened(c, i)' + WindowMs = reset /\ ~(i <= last + 1 - (count + 1))
          BY <1>0, <4>1, <4>2, <5>1
        <5> QED
          BY <5>2 DEF count, reset
      <4>3. CASE i # last + 1
        <5>0. i \in 1 .. last
          <6> HIDE DEF last
          <6> QED
            BY <4>1, <4>3
        <5>1. i \in 1 .. last /\ Opened(c, i)' = Opened(c, i)
          BY <2>6, <5>0 DEF Opened
        <5>2. /\ i > last - count => Opened(c, i) + WindowMs = reset
              /\ i <= last - count => Opened(c, i) + WindowMs <= reset - WindowMs
          BY <2>1, <5>1
        <5>3. last + 1 - (count + 1) = last - count
          BY <4>1
        <5> QED
          BY <5>1, <5>2, <5>3
      <4> QED
        BY <4>2, <4>3
    <3> DEFINE count == record.count
    <3>2. count \in 0 .. MaxRequests /\ last \in Nat /\ count <= last
      BY <1>0, <2>1
    <3>3. count + 1 <= last + 1
      <4> HIDE DEF count, last
      <4> QED
        BY <1>0, <3>2
    <3>4. record.resetTime # 0 /\ record.resetTime > WindowMs /\ record.resetTime <= now + WindowMs
      BY <1>0, <2>1
    <3>5. requestCounts'[c].count = count + 1 /\ requestCounts'[c].resetTime = record.resetTime
          /\ Len(admitted'[c]) = last + 1 /\ now' = now
      BY <2>2, <2>6
    <3>6. ASSUME NEW i \in 1 .. Len(admitted'[c])
          PROVE  /\ i > Len(admitted'[c]) - requestCounts'[c].count =>
                       admitted'[c][i].opened + WindowMs = requestCounts'[c].resetTime
                 /\ i <= Len(admitted'[c]) - requestCounts'[c].count =>
                       admitted'[c][i].opened + WindowMs <= requestCounts'[c].resetTime - WindowMs
      <4>0. admitted'[c][i].opened = Opened(c, i)'
        BY DEF Opened
      <4>1. i \in 1 .. last + 1 /\ admitted'[c][i].opened = Opened(c, i)'
        <5>1. Len(admitted'[c]) = last + 1
          BY <3>5
        <5> HIDE DEF last
        <5> QED
          BY <4>0, <5>1
      <4>2. Len(admitted'[c]) - requestCounts'[c].count = last + 1 - (count + 1)
        <5>1. requestCounts'[c].count = count + 1 /\ Len(admitted'[c]) = last + 1
          BY <3>5
        <5> HIDE DEF last, count
        <5> QED
          BY <3>2, <5>1
      <4>3. requestCounts'[c].resetTime = record.resetTime
        BY <3>5
      <4> HIDE DEF record, last
      <4> QED
        BY <3>1, <3>2, <4>3, <3>5, <4>1, <4>2
    <3>7. /\ requestCounts'[c].resetTime # 0 /\ requestCounts'[c].resetTime > WindowMs
          /\ requestCounts'[c].resetTime <= now' + WindowMs
          /\ requestCounts'[c].count <= Len(admitted'[c])
      BY <3>3, <3>4, <3>5
    <3> QED
      BY <3>6, <3>7 DEF RecordCountsWindow, Opened
  <2>10. ToldAfterWindows(c)'
    <3>1. ASSUME told[c].at > 0
          PROVE  /\ told[c].after <= last + 1
                 /\ \A i \in 1 .. told[c].after : admitted'[c][i].opened + WindowMs <= told[c].at
      <4>1. told[c].after <= last /\ last \in Nat /\ told[c].after \in Nat
        BY <1>0, <2>7, <3>1 DEF ToldAfterWindows
      <4>2. told[c].after <= last + 1 /\ 1 .. told[c].after \subseteq 1 .. last
        <5> HIDE DEF last
        <5> QED
          BY <4>1
      <4> QED
        BY <2>6, <2>7, <3>1, <4>2 DEF ToldAfterWindows, Opened
    <3> QED
      BY <2>6, <3>1 DEF ToldAfterWindows, Opened
  <2> QED
    BY <2>4, <2>5, <2>8, <2>9, <2>10 DEF LimiterInv
<1>3. ASSUME NEW c \in Client, Refuse(c) PROVE LimiterInv'
  <2> DEFINE record == CurrentRecord(c)
             last   == Len(admitted[c])
             time   == now + Second * RetryAfter(record.resetTime - now)
  <2>1. /\ record \in [count : 0 .. MaxRequests, resetTime : Nat]
        /\ record.count \in 0 .. MaxRequests /\ record.resetTime \in Nat
        /\ record.resetTime > now
        /\ \A i \in 1 .. last : Opened(c, i) + WindowMs <= record.resetTime
    <3>1. /\ record \in [count : 0 .. MaxRequests, resetTime : Nat]
          /\ record.count \in 0 .. MaxRequests /\ record.resetTime \in Nat
          /\ record.resetTime > now
          /\ \A i \in 1 .. last :
                /\ i > last - record.count => Opened(c, i) + WindowMs = record.resetTime
                /\ i <= last - record.count =>
                      Opened(c, i) + WindowMs <= record.resetTime - WindowMs
      BY CurrentRecordIsRight
    <3>2. ASSUME NEW i \in 1 .. last
          PROVE  Opened(c, i) + WindowMs <= record.resetTime
      <4> DEFINE count == record.count
                 reset == record.resetTime
                 openI == Opened(c, i)
      <4>1. /\ count \in Nat /\ reset \in Nat /\ last \in Nat /\ openI \in Nat
            /\ i > last - count => openI + WindowMs = reset
            /\ i <= last - count => openI + WindowMs <= reset - WindowMs
        BY <1>0, <3>1
      <4> HIDE DEF count, reset, openI, last
      <4>2. openI + WindowMs <= reset
        BY <1>0, <4>1
      <4> QED
        BY <4>2 DEF openI, reset
    <3> QED
      BY <3>1, <3>2
  <2>2. /\ now' = now /\ admitted' = admitted
        /\ requestCounts' = [d \in Client |-> AfterCleanup(d)]
        /\ told' = [told EXCEPT ![c] = [at |-> time, after |-> last]]
    BY <1>3 DEF Refuse
  <2>3. time \in Nat /\ time >= record.resetTime
    <3>1. record.resetTime - now \in Nat
      BY <1>0, <2>1
    <3> DEFINE wait == RetryAfter(record.resetTime - now)
    <3>2. wait \in Nat /\ Second * wait >= record.resetTime - now
      BY <3>1, RetryAfterCovers
    <3>3. Second * wait \in Nat
      BY <1>0, <3>2
    <3> HIDE DEF wait
    <3> QED
      BY <1>0, <2>1, <3>2, <3>3 DEF wait
  <2>4. LimiterTypeOK'
    <3>1. requestCounts' \in [Client -> [count : 0 .. MaxRequests, resetTime : Nat]]
      BY <2>2, CleanupType DEF LimiterInv
    <3>2. told' \in [Client -> [at : Nat, after : Nat]]
      BY <1>0, <2>2, <2>3 DEF LimiterInv, LimiterTypeOK
    <3> QED
      BY <2>2, <3>1, <3>2 DEF LimiterInv, LimiterTypeOK
  <2>5. ASSUME NEW d \in Client
        PROVE  (WindowsApart(d) /\ RecordCountsWindow(d) /\ ToldAfterWindows(d))'
    <3>1. RecordCountsWindow(d)'
      BY <2>2, CleanupKeepsCount
    <3>2. WindowsApart(d)'
      BY <2>2 DEF LimiterInv, WindowsApart, Opened
    <3>3. ToldAfterWindows(d)'
      <4>1. CASE d = c
        <5>1. told'[d] = [at |-> time, after |-> last]
          BY <2>2, <4>1 DEF LimiterInv, LimiterTypeOK
        <5>2. told'[d].at = time /\ told'[d].after = last /\ Len(admitted'[d]) = last /\ last \in Nat
          BY <1>0, <2>2, <4>1, <5>1
        <5>3. ASSUME NEW i \in 1 .. last
              PROVE  Opened(c, i) + WindowMs <= time
          <6> DEFINE reset == record.resetTime
                     openI == Opened(c, i)
          <6>1. openI \in Nat /\ reset \in Nat /\ openI + WindowMs <= reset /\ time >= reset /\ time \in Nat
            BY <1>0, <2>1, <2>3
          <6> HIDE DEF reset, openI, time
          <6>2. openI + WindowMs <= time
            BY <1>0, <6>1
          <6> QED
            BY <6>2 DEF openI
        <5> HIDE DEF time, last
        <5> QED
          BY <2>2, <4>1, <5>2, <5>3 DEF ToldAfterWindows, Opened
      <4>2. CASE d # c
        <5>1. told'[d] = told[d]
          BY <2>2, <4>2 DEF LimiterInv, LimiterTypeOK
        <5> QED
          BY <2>2, <5>1 DEF LimiterInv, ToldAfterWindows, Opened
      <4> QED
        BY <4>1, <4>2
    <3> QED
      BY <3>1, <3>2, <3>3
  <2> QED
    BY <2>4, <2>5 DEF LimiterInv
<1>4. CASE UNCHANGED limiterVars
  BY <1>4 DEF limiterVars, LimiterInv, LimiterTypeOK, WindowsApart, RecordCountsWindow,
     ToldAfterWindows, Opened
<1> QED
  BY <1>1, <1>2, <1>3, <1>4 DEF LimiterNext

\* What LimiterInv is for.
LEMMA InvGivesTwiceTheLimit == LimiterInv => TwiceTheLimitAtMost
<1> SUFFICES ASSUME LimiterInv, NEW c \in Client,
                    NEW i \in 1 .. Len(admitted[c]), NEW j \in 1 .. Len(admitted[c]),
                    j >= i + 2 * MaxRequests
             PROVE  admitted[c][j].at >= admitted[c][i].at + WindowMs
  BY DEF TwiceTheLimitAtMost
<1>1. /\ WindowMs \in Nat \ {0} /\ MaxRequests \in Nat \ {0} /\ Len(admitted[c]) \in Nat
      /\ \A k \in 1 .. Len(admitted[c]) : Opened(c, k) \in Nat /\ admitted[c][k].at \in Nat
  BY ClientTypes DEF LimiterInv
<1>2. PICK k \in 1 .. Len(admitted[c]) : k = i + MaxRequests
  BY <1>1
<1>3. WindowsApart(c)
  BY DEF LimiterInv
<1>4. Opened(c, j) >= Opened(c, k) + WindowMs
  <2>1. j >= k + MaxRequests
    BY <1>1, <1>2
  <2> QED
    BY <1>3, <2>1 DEF WindowsApart
<1>5. Opened(c, k) >= Opened(c, i) + WindowMs
  <2>1. k >= i + MaxRequests
    BY <1>1, <1>2
  <2> QED
    BY <1>3, <2>1 DEF WindowsApart
<1>6. admitted[c][j].at >= Opened(c, j) /\ admitted[c][i].at < Opened(c, i) + WindowMs
  BY <1>3 DEF WindowsApart
<1> DEFINE first == admitted[c][i].at
           later == admitted[c][j].at
           openI == Opened(c, i)
           openJ == Opened(c, j)
           openK == Opened(c, k)
<1>7. /\ {first, later, openI, openJ, openK} \subseteq Nat
      /\ openJ >= openK + WindowMs /\ openK >= openI + WindowMs
      /\ later >= openJ /\ first < openI + WindowMs
  BY <1>1, <1>4, <1>5, <1>6
<1> HIDE DEF first, later, openI, openJ, openK
<1>8. later >= first + WindowMs
  BY <1>1, <1>7
<1> QED
  BY <1>8 DEF first, later

LEMMA InvGivesRetryAfter == LimiterInv => RetryAfterSuffices
<1> SUFFICES ASSUME LimiterInv, NEW c \in Client,
                    told[c].at > 0, told[c].at <= now, CurrentRecord(c).count >= MaxRequests
             PROVE  Len(admitted[c]) >= told[c].after + MaxRequests
  BY DEF RetryAfterSuffices
<1> DEFINE record == CurrentRecord(c)
           last   == Len(admitted[c])
<1>1. /\ MaxRequests \in Nat \ {0} /\ WindowMs \in Nat /\ now \in Nat /\ last \in Nat
      /\ told[c].at \in Nat /\ told[c].after \in Nat
      /\ \A k \in 1 .. last : Opened(c, k) \in Nat
  BY ClientTypes DEF LimiterInv
<1>2. /\ record.count \in 0 .. MaxRequests /\ record.count <= last
      /\ record.resetTime \in Nat /\ record.resetTime > now
      /\ \A i \in 1 .. last : i > last - record.count => Opened(c, i) + WindowMs = record.resetTime
  BY CurrentRecordIsRight
<1>3. /\ told[c].after <= last
      /\ \A i \in 1 .. told[c].after : Opened(c, i) + WindowMs <= told[c].at
  BY DEF LimiterInv, ToldAfterWindows
<1>4. record.count = MaxRequests
  BY <1>1, <1>2
<1>5. CASE told[c].after > last - MaxRequests
  <2>1. told[c].after \in 1 .. last
    BY <1>1, <1>2, <1>3, <1>4, <1>5
  <2>2. Opened(c, told[c].after) + WindowMs = record.resetTime
    BY <1>2, <1>4, <1>5, <2>1
  <2>3. Opened(c, told[c].after) + WindowMs <= told[c].at
    BY <1>1, <1>3, <2>1
  <2> QED
    BY <1>1, <1>2, <2>2, <2>3
<1> QED
  BY <1>1, <1>5

-----------------------------------------------------------------------------
\* The limiter's state is what its code takes it for: in particular no record
\* counts more than the limit.
THEOREM LimiterTypeCorrect == LimiterSpec => []LimiterTypeOK
<1>1. LimiterInv => LimiterTypeOK
  BY DEF LimiterInv
<1> QED
  BY LimiterInitInv, LimiterStep, <1>1, PTL DEF LimiterSpec

\* In no stretch of windowMs are more than 2 * maxRequests requests of one client
\* let through by RateLimitMiddleware.use, for any window and limit.
THEOREM LimitHolds == LimiterSpec => []TwiceTheLimitAtMost
  BY LimiterInitInv, LimiterStep, InvGivesTwiceTheLimit, PTL DEF LimiterSpec

\* The Retry-After header is long enough, for any length of a second: the rounding
\* never sends a client back into the window that refused it.
THEOREM RetryAfterHolds == LimiterSpec => []RetryAfterSuffices
  BY LimiterInitInv, LimiterStep, InvGivesRetryAfter, PTL DEF LimiterSpec
=============================================================================
