----------------------------- MODULE WalletCache -----------------------------
(***************************************************************************)
(* The wallet rows of one user and CachedWalletService.findByUserId in     *)
(* front of them.  GET /wallet, the balances and the devnet funding read   *)
(* through the cache; connecting, updating, suspending, activating and     *)
(* disconnecting a wallet go to WalletService and leave the cache alone.   *)
(* A change loads the row and saves it back as loaded, one await later.    *)
(* What is read carries its age: -1 while the row is still as it was read, *)
(* and from then on the ticks since the row was saved anew.                *)
(***************************************************************************)
EXTENDS Integers

CONSTANTS
    Address,        \* the addresses the user's wallets may have
    Change,         \* requests that change a wallet
    ChangeKinds,    \* what they may be: functions from requests to kinds
    Reader,         \* requests that read the wallet through the cache
    WalletTtl,      \* WALLET_TTL in ticks
    MaxCacheLosses  \* bound on restarts of the process

ASSUME WalletCacheAssumption ==
    /\ ChangeKinds \subseteq
           [Change -> {"connect", "readdress", "suspend", "activate", "disconnect"}]
    /\ WalletTtl \in Nat \ {0} /\ MaxCacheLosses \in Nat
    /\ {"none", "idle"} \cap (Address \cup Change) = {}

VARIABLES
    change,     \* what each changing request is
    wallets,    \* the rows, named by the request that inserted them
    phase,      \* the await a changing request stands at
    target,     \* the row it has loaded, and the address it wants
    overlap,    \* two requests have been between their first check and their save at once
    cached,     \* the cache's entry: a copy and the ticks it has left
    reading,    \* the copy a reader's query has returned
    shown,      \* the oldest age a copy had when it was answered
    losses      \* restarts so far

walletCacheVars == <<change, wallets, phase, target, overlap, cached, reading, shown, losses>>
cacheVars == <<cached, reading, shown, losses>>

Unsaved == [address |-> "none", active |-> FALSE, suspended |-> FALSE]
WalletRow == [address : Address, active : BOOLEAN, suspended : BOOLEAN]
NoTarget == [id |-> "none", saved |-> Unsaved]
NoEntry == [of |-> "none", age |-> -1, left |-> -1]
Idle == [of |-> "idle", age |-> -1, waited |-> FALSE]

Active == {w \in Change : wallets[w].active}
Taken(adr) == \E w \in Change : wallets[w].address = adr
Changing == {c \in Change : phase[c] \in {"checking", "saving"}}
Older(n) == IF n > shown THEN n ELSE shown

-----------------------------------------------------------------------------
(* Mutated forms of definitions below, each a plausible slip in the code.  No  *)
(* specification uses them; they show that the properties notice such a slip.  *)

\* Entries have no end.
AnyEntry == cached.of # "none"

\* Whether the user has a wallet is asked of the status column.
UsableWallets == {w \in Active : ~wallets[w].suspended}

-----------------------------------------------------------------------------
\* CacheService.get: an entry that has not expired; a stored null is a miss.
Fresh == cached.of # "none" /\ cached.left >= 0

\* create and connect: a wallet the user has already.
Existing == Active

WalletCacheInit ==
    /\ change \in ChangeKinds
    /\ wallets = [w \in Change |-> Unsaved]
    /\ phase = [c \in Change |-> "new"]
    /\ target = [c \in Change |-> NoTarget]
    /\ overlap = FALSE
    /\ cached = NoEntry
    /\ reading = [r \in Reader |-> Idle]
    /\ shown = -1
    /\ losses = 0

WalletCacheTypeOK ==
    /\ change \in ChangeKinds
    /\ wallets \in [Change -> WalletRow \cup {Unsaved}]
    /\ phase \in [Change -> {"new", "checking", "saving", "done", "refused"}]
    /\ target \in [Change -> [id : Change, saved : WalletRow] \cup {NoTarget}]
    /\ overlap \in BOOLEAN
    /\ cached \in [of : Change, age : -1 .. WalletTtl + 2, left : -1 .. WalletTtl] \cup {NoEntry}
    /\ reading \in [Reader -> [of : Change \cup {"none", "idle"}, age : -1 .. 1, waited : BOOLEAN]]
    /\ shown \in -1 .. WalletTtl + 2
    /\ losses \in 0 .. MaxCacheLosses

-----------------------------------------------------------------------------
(* The changes, which know nothing of the cache. *)

Goes(c, label) ==
    /\ phase' = [phase EXCEPT ![c] = label]
    /\ overlap' = (overlap \/ (label \in {"checking", "saving"} /\ Changing \ {c} # {}))

\* POST /wallet and /wallet/connect: the user must not have a wallet.
StartConnect(c) ==
    /\ change[c] = "connect" /\ phase[c] = "new"
    /\ \/ Existing # {} /\ Goes(c, "refused") /\ UNCHANGED target
       \/ /\ Existing = {} /\ Goes(c, "checking")
          /\ \E adr \in Address :
                 target' = [target EXCEPT ![c] =
                     [id |-> c, saved |-> [address |-> adr, active |-> TRUE, suspended |-> FALSE]]]
    /\ UNCHANGED <<change, wallets, cacheVars>>

\* What each of the other requests makes of the row it has loaded.
Edited(c, wal, adr) ==
    CASE change[c] = "readdress"  -> [wal EXCEPT !.address = adr]
      [] change[c] = "suspend"    -> [wal EXCEPT !.suspended = TRUE]
      [] change[c] = "activate"   -> [wal EXCEPT !.suspended = FALSE]
      [] change[c] = "disconnect" -> [wal EXCEPT !.active = FALSE]

\* PUT and DELETE /wallet, /wallet/suspend and /wallet/activate load an active
\* wallet of the user, whichever the query finds.
LoadWallet(c) ==
    /\ change[c] # "connect" /\ phase[c] = "new"
    /\ \/ Active = {} /\ Goes(c, "refused") /\ UNCHANGED target
       \/ \E w \in Active, adr \in Address :
              /\ target' = [target EXCEPT ![c] =
                     [id |-> w, saved |-> Edited(c, wallets[w], adr)]]
              /\ Goes(c, IF Edited(c, wallets[w], adr).address # wallets[w].address
                         THEN "checking" ELSE "saving")
    /\ UNCHANGED <<change, wallets, cacheVars>>

\* A new address must not be in the table, in an active row or not.
CheckAddress(c) ==
    /\ phase[c] = "checking"
    /\ Goes(c, IF Taken(target[c].saved.address) THEN "refused" ELSE "saving")
    /\ UNCHANGED <<change, wallets, target, cacheVars>>

\* Copies of a row that a save has changed begin to age.
Superseded(copy, w) ==
    IF copy.of = w /\ copy.age = -1 THEN [copy EXCEPT !.age = 0] ELSE copy

\* repository.save: an insert, or the row as it was loaded and edited.  The address
\* column is unique.
SaveWallet(c) ==
    LET w == target[c].id
        new == target[c].saved IN
    /\ phase[c] = "saving"
    /\ \/ /\ \E other \in Change \ {w} : wallets[other].address = new.address
          /\ Goes(c, "refused")
          /\ UNCHANGED <<wallets, cached, reading>>
       \/ /\ \A other \in Change \ {w} : wallets[other].address # new.address
          /\ Goes(c, "done")
          /\ wallets' = [wallets EXCEPT ![w] = new]
          /\ IF new = wallets[w] THEN UNCHANGED <<cached, reading>>
             ELSE /\ cached' = Superseded(cached, w)
                  /\ reading' = [r \in Reader |-> Superseded(reading[r], w)]
    /\ UNCHANGED <<change, target, shown, losses>>

ChangeFails(c) ==
    /\ phase[c] \in {"checking", "saving"}
    /\ Goes(c, "refused")
    /\ UNCHANGED <<change, wallets, target, cacheVars>>

-----------------------------------------------------------------------------
(* CachedWalletService.findByUserId. *)

CacheHit(r) ==
    /\ reading[r] = Idle /\ Fresh
    /\ shown' = Older(cached.age)
    /\ UNCHANGED <<change, wallets, phase, target, overlap, cached, reading, losses>>

\* A miss, which drops an expired entry, and the query.
CacheMiss(r) ==
    /\ reading[r] = Idle /\ ~Fresh
    /\ cached' = NoEntry
    /\ \/ \E w \in Active : reading' = [reading EXCEPT ![r] = [Idle EXCEPT !.of = w]]
       \/ Active = {} /\ reading' = [reading EXCEPT ![r] = [Idle EXCEPT !.of = "none"]]
    /\ UNCHANGED <<change, wallets, phase, target, overlap, shown, losses>>

\* The query's result is stored, over what another request may have stored, and
\* answered.
CacheStore(r) ==
    /\ reading[r].of # "idle"
    /\ cached' = IF reading[r].of = "none" THEN NoEntry
                 ELSE [of |-> reading[r].of, age |-> reading[r].age, left |-> WalletTtl]
    /\ shown' = Older(reading[r].age)
    /\ reading' = [reading EXCEPT ![r] = Idle]
    /\ UNCHANGED <<change, wallets, phase, target, overlap, losses>>

QueryLost(r) ==
    /\ reading[r].of # "idle"
    /\ reading' = [reading EXCEPT ![r] = Idle]
    /\ UNCHANGED <<change, wallets, phase, target, overlap, cached, shown, losses>>

\* The process dies with its cache and every request.
CacheLost ==
    /\ losses < MaxCacheLosses
    /\ losses' = losses + 1
    /\ cached' = NoEntry
    /\ reading' = [r \in Reader |-> Idle]
    /\ phase' = [c \in Change |-> IF c \in Changing THEN "refused" ELSE phase[c]]
    /\ UNCHANGED <<change, wallets, target, overlap, shown>>

Aged(age) == IF age < 0 \/ age > WalletTtl + 1 THEN age ELSE age + 1

\* A tick is longer than a query: no reader waits through two.
CacheTick ==
    /\ \A r \in Reader : ~reading[r].waited
    /\ cached' = [cached EXCEPT !.age = Aged(@), !.left = IF @ < 0 THEN @ ELSE @ - 1]
    /\ reading' = [r \in Reader |->
           IF reading[r].of = "idle" THEN Idle
           ELSE [reading[r] EXCEPT !.age = Aged(@), !.waited = TRUE]]
    /\ UNCHANGED <<change, wallets, phase, target, overlap, shown, losses>>

ChangeStep(c) ==
    StartConnect(c) \/ LoadWallet(c) \/ CheckAddress(c) \/ SaveWallet(c) \/ ChangeFails(c)

WalletCacheNext ==
    \/ \E c \in Change : ChangeStep(c)
    \/ \E r \in Reader : CacheHit(r) \/ CacheMiss(r) \/ CacheStore(r) \/ QueryLost(r)
    \/ CacheLost \/ CacheTick

WalletCacheSpec == WalletCacheInit /\ [][WalletCacheNext]_walletCacheVars

-----------------------------------------------------------------------------
\* A change of the wallet (suspended, disconnected, another address) is hidden by the
\* cache for at most the entry's lifetime and the query that filled it: nothing drops
\* the entry before, because the endpoints save through WalletService.
ChangeSeenInTime == shown <= WalletTtl + 1

\* One wallet per user, unless two changes were under way at once: two requests that
\* connect, or one whose save brings a disconnected wallet back.
SecondWalletNeedsOverlap ==
    \A w1, w2 \in Active : w1 # w2 => overlap
=============================================================================
