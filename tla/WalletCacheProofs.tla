-------------------------- MODULE WalletCacheProofs --------------------------
(***************************************************************************)
(* How long the wallet cache can hide a change, and when a user can have   *)
(* two wallets, for every set of addresses, changes and readers and every  *)
(* lifetime of an entry.                                                   *)
(*                                                                         *)
(* That no copy shown is older than an entry's lifetime and one query is   *)
(* not inductive: it needs the bound on what could still be shown.  An     *)
(* entry's age and the ticks it has left together never exceed the bound,  *)
(* because each tick moves one unit from the one to the other, and a copy  *)
(* in a reader's hand has aged by at most the one tick the reader waited.  *)
(*                                                                         *)
(* One wallet per user rests on what a change under way has seen: while    *)
(* changes have not overlapped, the only row that can be active is the one *)
(* it is about to save.                                                    *)
(***************************************************************************)
EXTENDS WalletCache, TLAPS

\* What a copy is made of, as far as its age is concerned.
CopiesOK ==
    /\ cached \in [of : Change \cup {"none"}, age : Int, left : -1 .. WalletTtl]
    /\ reading \in [Reader -> [of : Change \cup {"none", "idle"}, age : Int, waited : BOOLEAN]]
    /\ shown \in Int

EntryInTime == cached.left >= 0 => cached.age + cached.left <= WalletTtl + 1

InHandInTime ==
    \A r \in Reader : reading[r].age <= 1 /\ (~reading[r].waited => reading[r].age <= 0)

InTimeInv == CopiesOK /\ EntryInTime /\ InHandInTime /\ ChangeSeenInTime

-----------------------------------------------------------------------------
LEMMA IdleInTime ==
    /\ Idle \in [of : Change \cup {"none", "idle"}, age : Int, waited : BOOLEAN]
    /\ Idle.age = -1
    /\ NoEntry \in [of : Change \cup {"none"}, age : Int, left : -1 .. WalletTtl]
    /\ NoEntry.age = -1 /\ NoEntry.left = -1
    BY WalletCacheAssumption DEF Idle, NoEntry

\* Records of the two kinds keep their type when their age is replaced.
LEMMA EntryChanged ==
    ASSUME NEW e \in [of : Change \cup {"none"}, age : Int, left : -1 .. WalletTtl],
           NEW age \in Int, NEW left \in -1 .. WalletTtl
    PROVE  /\ [e EXCEPT !.age = age, !.left = left] \in
                  [of : Change \cup {"none"}, age : Int, left : -1 .. WalletTtl]
           /\ [e EXCEPT !.age = age, !.left = left].age = age
           /\ [e EXCEPT !.age = age, !.left = left].left = left
    OBVIOUS

LEMMA CopyChanged ==
    ASSUME NEW copy \in [of : Change \cup {"none", "idle"}, age : Int, waited : BOOLEAN],
           NEW age \in Int
    PROVE  /\ [copy EXCEPT !.age = age, !.waited = TRUE] \in
                  [of : Change \cup {"none", "idle"}, age : Int, waited : BOOLEAN]
           /\ [copy EXCEPT !.age = age, !.waited = TRUE].age = age
           /\ [copy EXCEPT !.age = age, !.waited = TRUE].waited
    OBVIOUS

\* At the start nothing is cached, read or shown.
LEMMA InTimeInit == WalletCacheInit => InTimeInv
    BY IdleInTime, WalletCacheAssumption
    DEF WalletCacheInit, InTimeInv, CopiesOK, EntryInTime, InHandInTime, ChangeSeenInTime

\* A step that leaves the cache, the readers and what was shown alone.
LEMMA InTimeFrame ==
    ASSUME InTimeInv, UNCHANGED <<cached, reading, shown>>
    PROVE  InTimeInv'
    BY DEF InTimeInv, CopiesOK, EntryInTime, InHandInTime, ChangeSeenInTime

\* A save makes the copies of its row begin to age, from 0.
LEMMA InTimeSave ==
    ASSUME InTimeInv, NEW c \in Change, SaveWallet(c)
    PROVE  InTimeInv'
<1> DEFINE w == target[c].id
<1>1. CASE UNCHANGED <<cached, reading>>
    BY <1>1, InTimeFrame DEF SaveWallet
<1>2. CASE /\ cached' = Superseded(cached, w)
           /\ reading' = [r \in Reader |-> Superseded(reading[r], w)]
    <2>1. CopiesOK' /\ shown' = shown
        BY <1>2 DEF InTimeInv, CopiesOK, SaveWallet, Superseded
    <2>2. cached'.left = cached.left /\ (cached'.age = cached.age \/ cached'.age = 0)
        BY <1>2 DEF InTimeInv, CopiesOK, Superseded
    <2>3. EntryInTime'
        BY <2>2, WalletCacheAssumption DEF InTimeInv, CopiesOK, EntryInTime
    <2>4. ASSUME NEW r \in Reader
          PROVE  /\ reading'[r].waited = reading[r].waited
                 /\ reading'[r].age = reading[r].age \/ reading'[r].age = 0
        BY <1>2 DEF InTimeInv, CopiesOK, Superseded
    <2>5. InHandInTime'
        BY <2>4 DEF InTimeInv, CopiesOK, InHandInTime
    <2> QED BY <2>1, <2>3, <2>5 DEF InTimeInv, ChangeSeenInTime
<1> QED BY <1>1, <1>2 DEF SaveWallet

\* A hit shows an entry that has not expired.
LEMMA InTimeHit ==
    ASSUME InTimeInv, NEW r \in Reader, CacheHit(r)
    PROVE  InTimeInv'
<1>1. cached.age <= WalletTtl + 1
    BY WalletCacheAssumption DEF InTimeInv, CopiesOK, EntryInTime, CacheHit, Fresh
<1>2. shown' \in Int /\ shown' <= WalletTtl + 1
    BY <1>1, WalletCacheAssumption DEF InTimeInv, CopiesOK, ChangeSeenInTime, CacheHit, Older
<1> QED BY <1>2 DEF InTimeInv, CopiesOK, EntryInTime, InHandInTime, ChangeSeenInTime, CacheHit

\* A miss takes a fresh copy in hand.
LEMMA InTimeMiss ==
    ASSUME InTimeInv, NEW r \in Reader, CacheMiss(r)
    PROVE  InTimeInv'
<1>1. PICK x \in Change \cup {"none"} : reading' = [reading EXCEPT ![r] = [Idle EXCEPT !.of = x]]
    BY DEF CacheMiss, Active
<1>2. /\ [Idle EXCEPT !.of = x] \in
             [of : Change \cup {"none", "idle"}, age : Int, waited : BOOLEAN]
      /\ [Idle EXCEPT !.of = x].age = -1
    BY IdleInTime
<1>3. CopiesOK' /\ InHandInTime'
    BY <1>1, <1>2, IdleInTime DEF InTimeInv, CopiesOK, InHandInTime, CacheMiss
<1>4. EntryInTime' /\ ChangeSeenInTime'
    BY IdleInTime DEF InTimeInv, EntryInTime, ChangeSeenInTime, CacheMiss
<1> QED BY <1>3, <1>4 DEF InTimeInv

\* A store puts a copy at most one tick old into an entry with its whole life ahead.
LEMMA InTimeStore ==
    ASSUME InTimeInv, NEW r \in Reader, CacheStore(r)
    PROVE  InTimeInv'
<1>1. reading[r].age \in Int /\ reading[r].age <= 1
    BY DEF InTimeInv, CopiesOK, InHandInTime
<1>2. shown' \in Int /\ ChangeSeenInTime'
    BY <1>1, WalletCacheAssumption DEF InTimeInv, CopiesOK, ChangeSeenInTime, CacheStore, Older
<1>3. reading' \in [Reader -> [of : Change \cup {"none", "idle"}, age : Int, waited : BOOLEAN]]
      /\ InHandInTime'
    BY IdleInTime DEF InTimeInv, CopiesOK, InHandInTime, CacheStore
<1>4. CASE reading[r].of = "none"
    BY <1>2, <1>3, <1>4, IdleInTime DEF InTimeInv, CopiesOK, EntryInTime, CacheStore
<1>5. CASE reading[r].of # "none"
    <2>1. cached' = [of |-> reading[r].of, age |-> reading[r].age, left |-> WalletTtl]
        BY <1>5 DEF CacheStore
    <2>2. reading[r].of \in Change
        BY <1>5 DEF InTimeInv, CopiesOK, CacheStore
    <2>3. cached' \in [of : Change \cup {"none"}, age : Int, left : -1 .. WalletTtl]
        BY <2>1, <2>2, <1>1, WalletCacheAssumption
    <2>4. EntryInTime'
        BY <2>1, <1>1, WalletCacheAssumption DEF EntryInTime
    <2> QED BY <1>2, <1>3, <2>3, <2>4 DEF InTimeInv, CopiesOK
<1> QED BY <1>4, <1>5

\* A reader whose query fails, and a restart, let go of copies.
LEMMA InTimeLost ==
    ASSUME InTimeInv, CacheLost \/ \E r \in Reader : QueryLost(r)
    PROVE  InTimeInv'
    BY IdleInTime
    DEF InTimeInv, CopiesOK, EntryInTime, InHandInTime, ChangeSeenInTime, CacheLost, QueryLost

\* A tick ages what is superseded and takes a tick of the entry's life.
LEMMA InTimeTick ==
    ASSUME InTimeInv, CacheTick
    PROVE  InTimeInv'
<1>1. \A n \in Int : Aged(n) \in Int /\ Aged(n) <= n + 1 /\ (n >= 0 \/ Aged(n) = n)
    BY WalletCacheAssumption DEF Aged
<1> DEFINE ends == IF cached.left < 0 THEN cached.left ELSE cached.left - 1
<1>2. /\ cached \in [of : Change \cup {"none"}, age : Int, left : -1 .. WalletTtl]
      /\ cached.age \in Int /\ cached.left \in -1 .. WalletTtl /\ ends \in -1 .. WalletTtl
    BY WalletCacheAssumption DEF InTimeInv, CopiesOK
<1>3. cached' = [cached EXCEPT !.age = Aged(cached.age), !.left = ends]
    BY Zenon DEF CacheTick
<1>4. /\ cached' \in [of : Change \cup {"none"}, age : Int, left : -1 .. WalletTtl]
      /\ cached'.age = Aged(cached.age)
      /\ cached'.left = ends
    <2>1. Aged(cached.age) \in Int
        BY <1>1, <1>2
    <2> HIDE DEF ends
    <2> QED BY <2>1, <1>2, <1>3, EntryChanged
<1>5. EntryInTime'
    BY <1>1, <1>2, <1>4, WalletCacheAssumption DEF InTimeInv, EntryInTime
<1>6. ASSUME NEW r \in Reader
      PROVE  /\ reading'[r] \in [of : Change \cup {"none", "idle"}, age : Int, waited : BOOLEAN]
             /\ reading'[r].age <= 1 /\ (~reading'[r].waited => reading'[r].age <= 0)
    <2>1. CASE reading[r].of = "idle"
        <3>1. reading'[r] = Idle
            BY <2>1 DEF CacheTick
        <3> QED BY <3>1, IdleInTime
    <2>2. CASE reading[r].of # "idle"
        <3>1. /\ reading'[r] = [reading[r] EXCEPT !.age = Aged(reading[r].age), !.waited = TRUE]
              /\ reading[r] \in [of : Change \cup {"none", "idle"}, age : Int, waited : BOOLEAN]
              /\ reading[r].age <= 0
            BY <2>2 DEF InTimeInv, CopiesOK, InHandInTime, CacheTick
        <3>2. Aged(reading[r].age) \in Int /\ Aged(reading[r].age) <= 1
            BY <3>1, <1>1
        <3> QED BY <3>1, <3>2, CopyChanged
    <2> QED BY <2>1, <2>2
<1>7. /\ reading' \in [Reader -> [of : Change \cup {"none", "idle"}, age : Int, waited : BOOLEAN]]
      /\ InHandInTime'
    <2>1. reading' = [r \in Reader |-> reading'[r]]
        BY DEF CacheTick
    <2> QED BY <2>1, <1>6 DEF InHandInTime
<1>8. shown' \in Int /\ ChangeSeenInTime'
    BY DEF InTimeInv, CopiesOK, ChangeSeenInTime, CacheTick
<1> QED BY <1>4, <1>5, <1>7, <1>8 DEF InTimeInv, CopiesOK

LEMMA InTimeStep == InTimeInv /\ [WalletCacheNext]_walletCacheVars => InTimeInv'
<1> SUFFICES ASSUME InTimeInv, [WalletCacheNext]_walletCacheVars PROVE InTimeInv'
    OBVIOUS
<1>1. CASE UNCHANGED walletCacheVars
    BY <1>1, InTimeFrame DEF walletCacheVars
<1>2. ASSUME NEW c \in Change, ChangeStep(c) PROVE InTimeInv'
    BY <1>2, InTimeSave, InTimeFrame
    DEF ChangeStep, StartConnect, LoadWallet, CheckAddress, ChangeFails, cacheVars
<1>3. ASSUME NEW r \in Reader, CacheHit(r) \/ CacheMiss(r) \/ CacheStore(r) PROVE InTimeInv'
    BY <1>3, InTimeHit, InTimeMiss, InTimeStore
<1> QED BY <1>1, <1>2, <1>3, InTimeLost, InTimeTick DEF WalletCacheNext

\* A change of the wallet is hidden by the cache for at most WALLET_TTL and the query
\* that filled the entry, although no endpoint that changes a wallet drops the entry.
THEOREM WalletChangesShow == WalletCacheSpec => []ChangeSeenInTime
<1>1. InTimeInv => ChangeSeenInTime
    BY DEF InTimeInv
<1> QED BY <1>1, InTimeInit, InTimeStep, PTL DEF WalletCacheSpec

-----------------------------------------------------------------------------
(* The rows.  TypeOK is split into its two halves, the rows and the cache. *)

Entries == [of : Change, age : -1 .. WalletTtl + 2, left : -1 .. WalletTtl] \cup {NoEntry}
Readings == [of : Change \cup {"none", "idle"}, age : -1 .. 1, waited : BOOLEAN]
Targets == [id : Change, saved : WalletRow]
Phases == {"new", "checking", "saving", "done", "refused"}
ChangeNames == {"connect", "readdress", "suspend", "activate", "disconnect"}

CacheTypes ==
    /\ cached \in Entries
    /\ reading \in [Reader -> Readings]
    /\ shown \in -1 .. WalletTtl + 2
    /\ losses \in 0 .. MaxCacheLosses

RowTypes ==
    /\ change \in ChangeKinds
    /\ wallets \in [Change -> WalletRow \cup {Unsaved}]
    /\ phase \in [Change -> Phases]
    /\ target \in [Change -> Targets \cup {NoTarget}]
    /\ overlap \in BOOLEAN
    /\ \A c \in Changing : target[c] \in Targets

\* While changes have not overlapped, one is under way, what it has loaded is the
\* only row that may be active, and no two rows are.
ChangesApart ==
    ~overlap =>
        /\ \A c, d \in Changing : c = d
        /\ \A c \in Changing : Active \subseteq {target[c].id}
        /\ \A w1, w2 \in Active : w1 = w2

WalletInv == InTimeInv /\ CacheTypes /\ RowTypes /\ ChangesApart

LEMMA WalletBounds ==
    /\ WalletTtl \in Nat /\ WalletTtl > 0 /\ MaxCacheLosses \in Nat
    /\ "none" \notin Change /\ "idle" \notin Change /\ "none" \notin Address
    /\ \A k \in ChangeKinds : k \in [Change -> ChangeNames]
    BY WalletCacheAssumption DEF ChangeNames

LEMMA NothingRead ==
    /\ Idle \in Readings /\ NoEntry \in Entries
    /\ \A x \in Change \cup {"none"} : [Idle EXCEPT !.of = x] \in Readings
    <1>1. Idle \in Readings /\ NoEntry \in Entries
        BY DEF Idle, Readings, Entries
    <1>2. ASSUME NEW x \in Change \cup {"none"} PROVE [Idle EXCEPT !.of = x] \in Readings
        BY <1>1 DEF Readings
    <1> QED
        BY <1>1, <1>2

\* A copy keeps its type when its age is replaced by one in bounds.
LEMMA ReadingAged ==
    ASSUME NEW x \in Readings, NEW age \in -1 .. 1
    PROVE  [x EXCEPT !.age = age, !.waited = TRUE] \in Readings
    BY DEF Readings

LEMMA WalletAtStart == WalletCacheInit => WalletInv
    <1> SUFFICES ASSUME WalletCacheInit PROVE WalletInv
        OBVIOUS
    <1>1. CacheTypes
        BY WalletBounds, NothingRead DEF WalletCacheInit, CacheTypes
    <1>2. RowTypes /\ ChangesApart
        BY DEF WalletCacheInit, RowTypes, ChangesApart, Changing, Active, Unsaved, Phases
    <1> QED
        BY <1>1, <1>2, InTimeInit DEF WalletInv

\* Every step keeps the types of the cache; the bounds of what is in the readers' hands
\* and of what was shown are those of InTimeInv.
LEMMA CacheTypesStep ==
    ASSUME InTimeInv, InTimeInv', CacheTypes, RowTypes, [WalletCacheNext]_walletCacheVars
    PROVE  CacheTypes'
    <1> USE WalletBounds, NothingRead
    <1>t. /\ cached \in Entries /\ reading \in [Reader -> Readings] /\ shown \in -1 .. WalletTtl + 2
          /\ losses \in 0 .. MaxCacheLosses /\ Active \subseteq Change
        BY DEF CacheTypes, Active
    <1>e. /\ \A e \in Entries : /\ e.age \in -1 .. WalletTtl + 2 /\ e.left \in -1 .. WalletTtl
                               /\ (e.of \in Change \/ e = NoEntry)
          /\ \A x \in Readings : x.age \in -1 .. 1 /\ x.of \in Change \cup {"none", "idle"}
        BY DEF Entries, Readings, NoEntry
    <1>s. shown' \in Int /\ shown' <= WalletTtl + 1
        BY DEF InTimeInv, CopiesOK, ChangeSeenInTime
    <1>1. ASSUME UNCHANGED cacheVars PROVE CacheTypes'
        BY <1>t, <1>1 DEF CacheTypes, cacheVars
    <1>2. ASSUME NEW c \in Change, SaveWallet(c) PROVE CacheTypes'
        <2> DEFINE w == target[c].id
        <2>0. w \in Change
            BY <1>2 DEF SaveWallet, RowTypes, Changing, Targets
        <2>1. ASSUME NEW e \in Entries PROVE Superseded(e, w) \in Entries
            <3>1. CASE e.of # w \/ e.age # -1
                BY <3>1 DEF Superseded
            <3>2. CASE e.of = w /\ e.age = -1
                <4>1. e # NoEntry
                    BY <2>0, <3>2 DEF NoEntry
                <4> QED
                    BY <3>2, <4>1 DEF Superseded, Entries
            <3> QED
                BY <3>1, <3>2
        <2>2. \A x \in Readings : Superseded(x, w) \in Readings
            BY <1>e DEF Superseded, Readings
        <2>3. CASE UNCHANGED <<cached, reading>>
            BY <1>1, <1>2, <2>3 DEF SaveWallet, cacheVars
        <2>4. CASE cached' = Superseded(cached, w) /\ reading' = [r \in Reader |-> Superseded(reading[r], w)]
            BY <1>2, <1>t, <2>1, <2>2, <2>4 DEF SaveWallet, CacheTypes
        <2> QED
            BY <1>2, <2>3, <2>4 DEF SaveWallet
    <1>3. ASSUME NEW c \in Change, ChangeStep(c) PROVE CacheTypes'
        BY <1>1, <1>2, <1>3 DEF ChangeStep, StartConnect, LoadWallet, CheckAddress, ChangeFails
    <1>4. ASSUME NEW r \in Reader, CacheHit(r) PROVE CacheTypes'
        <2>1. shown' \in -1 .. WalletTtl + 2
            BY <1>4, <1>t, <1>e DEF CacheHit, Older
        <2> QED
            BY <1>4, <1>t, <2>1 DEF CacheHit, CacheTypes
    <1>5. ASSUME NEW r \in Reader, CacheMiss(r) PROVE CacheTypes'
        <2>1. PICK x \in Change \cup {"none"} : reading' = [reading EXCEPT ![r] = [Idle EXCEPT !.of = x]]
            BY <1>5 DEF CacheMiss, Active
        <2>2. reading' \in [Reader -> Readings]
            BY <1>t, <2>1
        <2> QED
            BY <1>5, <1>t, <2>2 DEF CacheMiss, CacheTypes
    <1>6. ASSUME NEW r \in Reader, CacheStore(r) PROVE CacheTypes'
        <2>1. reading[r].age \in -1 .. 1 /\ reading[r].of \in Change \cup {"none"}
            BY <1>6, <1>t, <1>e DEF CacheStore
        <2>2. cached' \in Entries
            BY <1>6, <2>1 DEF CacheStore, Entries
        <2>3. shown' \in -1 .. WalletTtl + 2
            BY <1>6, <1>t, <2>1 DEF CacheStore, Older
        <2> QED
            BY <1>6, <1>t, <2>2, <2>3 DEF CacheStore, CacheTypes
    <1>7. ASSUME NEW r \in Reader, QueryLost(r) PROVE CacheTypes'
        BY <1>7, <1>t DEF QueryLost, CacheTypes
    <1>8. ASSUME CacheLost PROVE CacheTypes'
        <2>1. losses' \in 0 .. MaxCacheLosses
            BY <1>8, <1>t DEF CacheLost
        <2> QED
            BY <1>8, <1>t, <2>1 DEF CacheLost, CacheTypes
    <1>9. ASSUME CacheTick PROVE CacheTypes'
        <2>1. \A n \in -1 .. WalletTtl + 2 : Aged(n) \in -1 .. WalletTtl + 2 /\ (n = -1 => Aged(n) = -1)
            BY DEF Aged
        <2> DEFINE ends == IF cached.left < 0 THEN cached.left ELSE cached.left - 1
        <2>2. cached' = [cached EXCEPT !.age = Aged(cached.age), !.left = ends]
            BY <1>9, Zenon DEF CacheTick
        <2>3. /\ Aged(cached.age) \in -1 .. WalletTtl + 2 /\ ends \in -1 .. WalletTtl
              /\ (cached = NoEntry => Aged(cached.age) = -1 /\ ends = -1)
            BY <1>t, <1>e, <2>1 DEF NoEntry
        <2>4. cached' \in Entries
            <3> HIDE DEF ends
            <3>1. CASE cached = NoEntry
                BY <2>2, <2>3, <3>1 DEF NoEntry, Entries
            <3>2. CASE cached # NoEntry
                BY <1>t, <2>2, <2>3, <3>2 DEF Entries
            <3> QED
                BY <3>1, <3>2
        <2>5. ASSUME NEW r \in Reader PROVE reading'[r] \in Readings
            <3>1. CASE reading[r].of = "idle"
                BY <1>9, <3>1 DEF CacheTick
            <3>2. CASE reading[r].of # "idle"
                <4>1. /\ reading'[r] = [reading[r] EXCEPT !.age = Aged(reading[r].age), !.waited = TRUE]
                      /\ reading[r] \in Readings /\ reading[r].age \in -1 .. 1
                    BY <1>9, <1>t, <1>e, <3>2 DEF CacheTick
                <4>2. Aged(reading[r].age) \in -1 .. WalletTtl + 2
                    BY <2>1, <4>1
                <4>3. reading'[r].age = Aged(reading[r].age)
                    BY <4>1 DEF Readings
                <4>4. Aged(reading[r].age) \in -1 .. 1
                    BY <4>2, <4>3 DEF InTimeInv, InHandInTime
                <4>5. [reading[r] EXCEPT !.age = Aged(reading[r].age), !.waited = TRUE] \in Readings
                    BY <4>1, <4>4, ReadingAged, Zenon
                <4> QED
                    BY <4>1, <4>5, Zenon
            <3> QED
                BY <3>1, <3>2
        <2>6. reading' \in [Reader -> Readings]
            <3>1. reading' = [r \in Reader |-> reading'[r]]
                BY <1>9 DEF CacheTick
            <3> QED
                BY <2>5, <3>1
        <2> QED
            BY <1>9, <1>t, <2>4, <2>6 DEF CacheTick, CacheTypes
    <1>10. ASSUME UNCHANGED walletCacheVars PROVE CacheTypes'
        BY <1>1, <1>10 DEF walletCacheVars, cacheVars
    <1> QED
        BY <1>3, <1>4, <1>5, <1>6, <1>7, <1>8, <1>9, <1>10 DEF WalletCacheNext

\* What a change makes of a row is a row.
LEMMA EditedRow ==
    ASSUME change \in ChangeKinds, NEW c \in Change, change[c] # "connect", NEW wal \in WalletRow, NEW adr \in Address
    PROVE  Edited(c, wal, adr) \in WalletRow
    <1>1. change[c] \in ChangeNames
        BY WalletBounds
    <1> QED
        BY <1>1 DEF Edited, WalletRow, ChangeNames

\* A change that goes on to its next await, or ends.
LEMMA GoesMoves ==
    ASSUME RowTypes, NEW c \in Change, NEW label \in Phases, Goes(c, label)
    PROVE  /\ phase' \in [Change -> Phases] /\ overlap' \in BOOLEAN
           /\ Changing' = IF label \in {"checking", "saving"} THEN Changing \cup {c} ELSE Changing \ {c}
           /\ (overlap => overlap')
           /\ (~overlap' /\ label \in {"checking", "saving"} => Changing \subseteq {c})
    BY DEF Goes, RowTypes, Changing, Phases

LEMMA RowsStep ==
    ASSUME RowTypes, ChangesApart, [WalletCacheNext]_walletCacheVars
    PROVE  RowTypes' /\ ChangesApart'
    <1> USE WalletBounds
    <1>t. /\ change \in ChangeKinds /\ wallets \in [Change -> WalletRow \cup {Unsaved}]
          /\ phase \in [Change -> Phases] /\ target \in [Change -> Targets \cup {NoTarget}]
          /\ Active \subseteq Change /\ Changing \subseteq Change
          /\ \A c \in Changing : target[c] \in Targets
        BY DEF RowTypes, Active, Changing
    <1>a. \A w \in Active : wallets[w] \in WalletRow
        BY <1>t DEF Active, Unsaved
    \* A change that ends without a save.
    <1>1. ASSUME NEW c \in Change, Goes(c, "refused"), UNCHANGED <<change, wallets, target>>
          PROVE  RowTypes' /\ ChangesApart'
        <2>1. /\ phase' \in [Change -> Phases] /\ overlap' \in BOOLEAN
              /\ Changing' = Changing \ {c} /\ (overlap => overlap')
            BY <1>1, GoesMoves DEF Phases
        <2>2. Active' = Active
            BY <1>1 DEF Active
        <2> QED
            BY <1>1, <1>t, <2>1, <2>2 DEF RowTypes, ChangesApart
    \* A change that takes up a row: its own new one, or an active one.
    <1>2. ASSUME NEW c \in Change, phase[c] = "new", NEW label \in {"checking", "saving"}, Goes(c, label),
                 NEW w \in Change, Active \subseteq {w} \/ w \in Active,
                 NEW new \in WalletRow, target' = [target EXCEPT ![c] = [id |-> w, saved |-> new]],
                 UNCHANGED <<change, wallets>>
          PROVE  RowTypes' /\ ChangesApart'
        <2>1. /\ phase' \in [Change -> Phases] /\ overlap' \in BOOLEAN /\ (overlap => overlap')
              /\ Changing' = Changing \cup {c} /\ (~overlap' => Changing \subseteq {c})
            BY <1>2, GoesMoves DEF Phases
        <2>2. Active' = Active
            BY <1>2 DEF Active
        <2>3. /\ target' \in [Change -> Targets \cup {NoTarget}] /\ target'[c] \in Targets /\ target'[c].id = w
              /\ \A d \in Change : d # c => target'[d] = target[d]
            BY <1>2, <1>t DEF Targets
        <2>4. RowTypes'
            BY <1>2, <1>t, <2>1, <2>3 DEF RowTypes
        <2>5. ChangesApart'
            BY <1>2, <1>t, <2>1, <2>2, <2>3 DEF ChangesApart
        <2> QED
            BY <2>4, <2>5
    <1>3. ASSUME NEW c \in Change, StartConnect(c) PROVE RowTypes' /\ ChangesApart'
        <2>1. CASE Goes(c, "refused") /\ UNCHANGED target
            BY <1>1, <1>3, <2>1 DEF StartConnect
        <2>2. ASSUME Existing = {}, Goes(c, "checking"), NEW adr \in Address,
                     target' = [target EXCEPT ![c] =
                         [id |-> c, saved |-> [address |-> adr, active |-> TRUE, suspended |-> FALSE]]]
              PROVE  RowTypes' /\ ChangesApart'
            <3>1. [address |-> adr, active |-> TRUE, suspended |-> FALSE] \in WalletRow /\ Active \subseteq {c}
                BY <2>2 DEF WalletRow, Existing
            <3> QED
                BY <1>2, <1>3, <2>2, <3>1 DEF StartConnect
        <2> QED
            BY <1>3, <2>1, <2>2 DEF StartConnect
    <1>4. ASSUME NEW c \in Change, LoadWallet(c) PROVE RowTypes' /\ ChangesApart'
        <2>1. CASE Goes(c, "refused") /\ UNCHANGED target
            BY <1>1, <1>4, <2>1 DEF LoadWallet
        <2>2. ASSUME NEW w \in Active, NEW adr \in Address,
                     target' = [target EXCEPT ![c] = [id |-> w, saved |-> Edited(c, wallets[w], adr)]],
                     Goes(c, IF Edited(c, wallets[w], adr).address # wallets[w].address
                             THEN "checking" ELSE "saving")
              PROVE  RowTypes' /\ ChangesApart'
            <3>1. Edited(c, wallets[w], adr) \in WalletRow /\ w \in Change
                BY <1>4, <1>a, <1>t, EditedRow DEF LoadWallet
            <3>2. PICK label \in {"checking", "saving"} : Goes(c, label)
                BY <2>2
            <3> QED
                BY <1>2, <1>4, <2>2, <3>1, <3>2 DEF LoadWallet
        <2> QED
            BY <1>4, <2>1, <2>2 DEF LoadWallet
    <1>5. ASSUME NEW c \in Change, CheckAddress(c) PROVE RowTypes' /\ ChangesApart'
        <2>1. CASE Goes(c, "refused")
            BY <1>1, <1>5, <2>1 DEF CheckAddress
        <2>2. CASE Goes(c, "saving")
            <3>1. /\ phase' \in [Change -> Phases] /\ overlap' \in BOOLEAN /\ (overlap => overlap')
                  /\ Changing' = Changing
                BY <1>5, <2>2, GoesMoves DEF CheckAddress, Changing, Phases
            <3>2. UNCHANGED <<change, wallets, target>> /\ Active' = Active
                BY <1>5 DEF CheckAddress, Active
            <3> QED
                BY <1>t, <3>1, <3>2 DEF RowTypes, ChangesApart
        <2> QED
            BY <1>5, <2>1, <2>2 DEF CheckAddress
    <1>6. ASSUME NEW c \in Change, SaveWallet(c) PROVE RowTypes' /\ ChangesApart'
        <2>1. c \in Changing /\ target[c] \in Targets /\ UNCHANGED <<change, target>>
            BY <1>6, <1>t DEF SaveWallet, Changing
        <2>2. CASE Goes(c, "refused") /\ UNCHANGED wallets
            BY <1>1, <2>1, <2>2
        <2>3. CASE Goes(c, "done") /\ wallets' = [wallets EXCEPT ![target[c].id] = target[c].saved]
            <3>1. /\ phase' \in [Change -> Phases] /\ overlap' \in BOOLEAN /\ (overlap => overlap')
                  /\ Changing' = Changing \ {c}
                BY <2>3, GoesMoves DEF Phases
            <3>2. /\ target[c].id \in Change /\ target[c].saved \in WalletRow
                  /\ wallets' \in [Change -> WalletRow \cup {Unsaved}]
                  /\ \A w \in Change : w # target[c].id => wallets'[w] = wallets[w]
                BY <1>t, <2>1, <2>3 DEF Targets
            <3>3. Active' \subseteq Active \cup {target[c].id}
                BY <3>2 DEF Active
            <3>4. RowTypes'
                BY <1>t, <2>1, <3>1, <3>2 DEF RowTypes
            <3>5. ChangesApart'
                BY <2>1, <3>1, <3>3 DEF ChangesApart
            <3> QED
                BY <3>4, <3>5
        <2> QED
            BY <1>6, <2>2, <2>3 DEF SaveWallet
    <1>7. ASSUME NEW c \in Change, ChangeFails(c) PROVE RowTypes' /\ ChangesApart'
        BY <1>1, <1>7 DEF ChangeFails
    <1>8. ASSUME UNCHANGED <<change, wallets, phase, target, overlap>> PROVE RowTypes' /\ ChangesApart'
        BY <1>8 DEF RowTypes, ChangesApart, Active, Changing
    <1>9. ASSUME CacheLost PROVE RowTypes' /\ ChangesApart'
        <2>1. /\ phase' \in [Change -> Phases] /\ Changing' = {} /\ Active' = Active
              /\ UNCHANGED <<change, wallets, target, overlap>>
            BY <1>9, <1>t DEF CacheLost, Changing, Active, Phases
        <2> QED
            BY <1>t, <2>1 DEF RowTypes, ChangesApart
    <1>10. ASSUME NEW r \in Reader, CacheHit(r) \/ CacheMiss(r) \/ CacheStore(r) \/ QueryLost(r)
           PROVE  RowTypes' /\ ChangesApart'
        BY <1>8, <1>10 DEF CacheHit, CacheMiss, CacheStore, QueryLost
    <1>11. CASE CacheTick
        BY <1>8, <1>11 DEF CacheTick
    <1>12. CASE UNCHANGED walletCacheVars
        BY <1>8, <1>12 DEF walletCacheVars
    <1> QED
        BY <1>3, <1>4, <1>5, <1>6, <1>7, <1>9, <1>10, <1>11, <1>12 DEF WalletCacheNext, ChangeStep

LEMMA WalletInvariant == WalletCacheSpec => []WalletInv
    <1>1. WalletInv /\ [WalletCacheNext]_walletCacheVars => WalletInv'
        <2> SUFFICES ASSUME WalletInv, [WalletCacheNext]_walletCacheVars PROVE WalletInv'
            OBVIOUS
        <2>1. InTimeInv'
            BY InTimeStep DEF WalletInv
        <2>2. CacheTypes'
            BY <2>1, CacheTypesStep DEF WalletInv
        <2>3. RowTypes' /\ ChangesApart'
            BY RowsStep DEF WalletInv
        <2> QED
            BY <2>1, <2>2, <2>3 DEF WalletInv
    <1> QED
        BY <1>1, WalletAtStart, PTL DEF WalletCacheSpec

\* The wallet part keeps its types: no row is saved that was never loaded, and no age
\* runs past its cap.
THEOREM WalletTypesHold == WalletCacheSpec => []WalletCacheTypeOK
    <1>1. WalletInv => WalletCacheTypeOK
        BY DEF WalletInv, CacheTypes, RowTypes, Entries, Readings, Targets, Phases, WalletCacheTypeOK
    <1> QED
        BY <1>1, WalletInvariant, PTL

\* Two active wallets of one user take two changes under way at once: the checks of
\* WalletService suffice for every sequence of requests, crashes and failures included.
THEOREM OneWalletUnlessOverlap == WalletCacheSpec => []SecondWalletNeedsOverlap
    <1>1. WalletInv => SecondWalletNeedsOverlap
        BY DEF WalletInv, ChangesApart, SecondWalletNeedsOverlap
    <1> QED
        BY <1>1, WalletInvariant, PTL
=============================================================================
