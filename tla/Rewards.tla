------------------------------ MODULE Rewards ------------------------------
(***************************************************************************)
(* One user's progress in one learning module and the BONK rewards for it. *)
(* LearningService starts, updates and completes the module and creates    *)
(* the reward; BonkRewardService pays the pending rewards, in passes and   *)
(* when a failed one is retried, and deletes the ones that failed long     *)
(* ago.  The tables have no unique column, so rows are named by the call   *)
(* that inserted them; a save writes back the row as it was loaded, and    *)
(* inserts it again when it has been deleted.                              *)
(***************************************************************************)
EXTENDS Integers

CONSTANTS
    LearningCall,   \* requests to LearningService
    LearningKinds,  \* what they may be: functions from requests to kinds
    Payer,          \* the passes over the pending rewards and the retries
    MaxRetries,     \* the maxRetries column of a reward
    MaxPayments,    \* bound on transfers counted for one reward
    MaxCrashes,     \* bound on crashes and lost saves
    MaxResets       \* bound on retries of failed rewards

ASSUME RewardsAssumption ==
    /\ LearningKinds \subseteq [LearningCall -> {"start", "update", "complete", "process"}]
    /\ MaxRetries \in Nat \ {0} /\ MaxPayments \in Nat /\ MaxCrashes \in Nat /\ MaxResets \in Nat

VARIABLES
    learning,   \* what each request is
    step,       \* the await a request stands at
    loaded,     \* the progress row a request has loaded, and its completion then
    progress,   \* the progress rows: "none", "started" or "completed"
    reward,     \* the status of the reward rows
    retryCount, \* their retryCount column
    paid,       \* transfers made for each reward
    payer,      \* what each payer is doing
    list,       \* the rewards it has found and not yet come to, with the
                \* retryCount they were loaded with
    hand,       \* the reward it has come to, and the retryCount it will save
    concurrent, \* two requests have been creating rewards at once
    overtaken,  \* a reward has been deleted that a payer had loaded
    together,   \* two payers have been at work at once
    retrying,   \* the payers that retry one failed reward
    crashes,    \* crashes and lost saves so far
    resets      \* failed rewards retried so far

learningVars == <<learning, step, loaded, progress, concurrent, overtaken>>
payingVars == <<payer, list, hand, together, retrying, crashes, resets, paid>>
rewardsVars == <<learningVars, payingVars, reward, retryCount>>

Started == {c \in LearningCall : progress[c] # "none"}
Granted == {c \in LearningCall : reward[c] # "none"}
Stand(c, label) == step' = [step EXCEPT ![c] = label]
Turn(w, label) == payer' = [payer EXCEPT ![w] = label]
AtWork(w) == payer[w] # "idle"
Nothing == [of |-> "nothing", tries |-> 0]
NotLoaded(c) == [of |-> c, as |-> "none"]

-----------------------------------------------------------------------------
(* Mutated forms of definitions below, each a plausible slip in the code.  No  *)
(* specification uses them; they show that the properties notice such a slip.  *)

\* The look for an earlier reward sees only those not yet paid.
PendingRewards == {c \in LearningCall : reward[c] \in {"PENDING", "PROCESSING"}}

\* The next pass takes up what the last one has left in PROCESSING or finished.
NotFailed(r) == reward[r] \in {"PENDING", "PROCESSING", "COMPLETED"}

\* A failure that may be retried does not set the reward back to PENDING.
LeftProcessing(tries) == IF tries >= MaxRetries THEN "FAILED" ELSE "PROCESSING"

-----------------------------------------------------------------------------
\* The rewards a new one gives way to: any reward of the user for the module.
EarlierRewards == Granted

\* What a pass loads.
DueForPayment(r) == reward[r] = "PENDING"

\* handleRewardError, for a reward that has now failed this many times.
AfterFailure(tries) == IF tries >= MaxRetries THEN "FAILED" ELSE "PENDING"

RewardsInit ==
    /\ learning \in LearningKinds
    /\ step = [c \in LearningCall |-> "new"]
    /\ loaded = [c \in LearningCall |-> NotLoaded(c)]
    /\ progress = [c \in LearningCall |-> "none"]
    /\ reward = [c \in LearningCall |-> "none"]
    /\ retryCount = [c \in LearningCall |-> 0]
    /\ paid = [c \in LearningCall |-> 0]
    /\ payer = [w \in Payer |-> "idle"]
    /\ list = [w \in Payer |-> <<>>]
    /\ hand = [w \in Payer |-> Nothing]
    /\ concurrent = FALSE
    /\ overtaken = FALSE
    /\ together = FALSE
    /\ retrying = {}
    /\ crashes = 0
    /\ resets = 0

RewardsTypeOK ==
    /\ learning \in LearningKinds
    /\ step \in [LearningCall -> {"new", "inserting", "saving", "granting", "looking", "done"}]
    /\ loaded \in [LearningCall -> [of : LearningCall, as : {"none", "started", "completed"}]]
    /\ progress \in [LearningCall -> {"none", "started", "completed"}]
    /\ reward \in [LearningCall -> {"none", "PENDING", "PROCESSING", "COMPLETED", "FAILED"}]
    /\ retryCount \in [LearningCall -> 0 .. MaxRetries]
    /\ paid \in [LearningCall -> 0 .. MaxPayments]
    /\ payer \in [Payer -> {"idle", "taking", "marking", "paying", "completing", "failing", "resetting"}]
    /\ \A w \in Payer : DOMAIN list[w] \subseteq LearningCall /\ \A r \in DOMAIN list[w] : list[w][r] \in 0 .. MaxRetries
    /\ hand \in [Payer -> [of : LearningCall \cup {"nothing"}, tries : 0 .. MaxRetries]]
    /\ concurrent \in BOOLEAN /\ overtaken \in BOOLEAN /\ together \in BOOLEAN /\ retrying \subseteq Payer
    /\ crashes \in 0 .. MaxCrashes /\ resets \in 0 .. MaxResets

-----------------------------------------------------------------------------
\* Each request starts with a look at the progress rows, of which findOne takes any.
FindProgress(c) ==
    /\ step[c] = "new"
    /\ learning[c] # "process"
    /\ \/ /\ Started = {}
          /\ Stand(c, IF learning[c] = "start" THEN "inserting" ELSE "done")
          /\ UNCHANGED loaded
       \/ \E r \in Started :
             /\ loaded' = [loaded EXCEPT ![c] = [of |-> r, as |-> progress[r]]]
             /\ Stand(c, "saving")
    /\ UNCHANGED <<learning, progress, concurrent, overtaken, reward, retryCount, payingVars>>

InsertProgress(c) ==
    /\ step[c] = "inserting"
    /\ progress' = [progress EXCEPT ![c] = "started"]
    /\ Stand(c, "done")
    /\ UNCHANGED <<learning, loaded, concurrent, overtaken, reward, retryCount, payingVars>>

\* startModule saves only the time of access, updateProgress the progress, which
\* completes the module at 100 and never starts it again; either writes back the
\* completion it has loaded.
SaveProgress(c) ==
    /\ step[c] = "saving"
    /\ progress' = [progress EXCEPT ![loaded[c].of] =
                        IF learning[c] = "complete" THEN "completed" ELSE loaded[c].as]
    /\ loaded' = [loaded EXCEPT ![c] = NotLoaded(c)]
    /\ Stand(c, "done")
    /\ UNCHANGED <<learning, concurrent, overtaken, reward, retryCount, payingVars>>

\* processRewards.
CheckCompleted(c) ==
    /\ step[c] = "new"
    /\ learning[c] = "process"
    /\ Stand(c, IF \E r \in Started : progress[r] = "completed" THEN "looking" ELSE "done")
    /\ concurrent' = (concurrent \/ \E d \in LearningCall : step[d] \in {"looking", "granting"})
    /\ UNCHANGED <<learning, loaded, progress, overtaken, reward, retryCount, payingVars>>

FindReward(c) ==
    /\ step[c] = "looking"
    /\ Stand(c, IF EarlierRewards # {} THEN "done" ELSE "granting")
    /\ UNCHANGED <<learning, loaded, progress, concurrent, overtaken, reward, retryCount, payingVars>>

InsertReward(c) ==
    /\ step[c] = "granting"
    /\ reward' = [reward EXCEPT ![c] = "PENDING"]
    /\ Stand(c, "done")
    /\ UNCHANGED <<learning, loaded, progress, concurrent, overtaken, retryCount, payingVars>>

-----------------------------------------------------------------------------
Begin(w, label) ==
    /\ payer[w] = "idle"
    /\ Turn(w, label)
    /\ together' = (together \/ \E v \in Payer \ {w} : AtWork(v))

\* The payer is through, and forgets what it has loaded.
Stop(w) ==
    /\ Turn(w, "idle")
    /\ list' = [list EXCEPT ![w] = <<>>]
    /\ hand' = [hand EXCEPT ![w] = Nothing]
    /\ retrying' = retrying \ {w}

\* A pass is done with a reward and comes to the next.
NextReward(w) ==
    /\ Turn(w, "taking")
    /\ hand' = [hand EXCEPT ![w] = Nothing]
    /\ UNCHANGED <<list, retrying>>

\* processPendingRewards loads the pending rewards and takes them one by one.  Its
\* comment speaks of a cron job, which the repository does not have: a pass starts
\* when somebody calls it.
StartPass(w) ==
    /\ \E r \in Granted : DueForPayment(r)
    /\ Begin(w, "taking")
    /\ list' = [list EXCEPT ![w] = [r \in {r \in Granted : DueForPayment(r)} |-> retryCount[r]]]
    /\ UNCHANGED <<hand, crashes, retrying, resets, paid, learningVars, reward, retryCount>>

TakeReward(w) ==
    /\ payer[w] = "taking"
    /\ \/ list[w] = <<>> /\ Stop(w)
       \/ \E r \in DOMAIN list[w] :
             /\ hand' = [hand EXCEPT ![w] = [of |-> r, tries |-> list[w][r]]]
             /\ list' = [list EXCEPT ![w] = [q \in DOMAIN @ \ {r} |-> @[q]]]
             /\ Turn(w, "marking")
             /\ UNCHANGED retrying
    /\ UNCHANGED <<together, crashes, resets, paid, learningVars, reward, retryCount>>

\* retryFailedReward loads a failed reward, resets it and processes it.
StartRetry(w) ==
    /\ resets < MaxResets
    /\ \E r \in Granted :
           /\ reward[r] = "FAILED"
           /\ hand' = [hand EXCEPT ![w] = [of |-> r, tries |-> 0]]
    /\ Begin(w, "resetting")
    /\ retrying' = retrying \cup {w}
    /\ resets' = resets + 1
    /\ UNCHANGED <<list, crashes, paid, learningVars, reward, retryCount>>

\* Each save of a payer writes the status and the retryCount it has in hand; the row
\* is inserted again when it has been deleted since the payer loaded it.
SaveReward(w, status) ==
    /\ reward' = [reward EXCEPT ![hand[w].of] = status]
    /\ retryCount' = [retryCount EXCEPT ![hand[w].of] = hand[w].tries]

ResetReward(w) ==
    /\ payer[w] = "resetting"
    /\ SaveReward(w, "PENDING")
    /\ Turn(w, "marking")
    /\ UNCHANGED <<list, hand, together, crashes, retrying, resets, paid, learningVars>>

MarkProcessing(w) ==
    /\ payer[w] = "marking"
    /\ SaveReward(w, "PROCESSING")
    /\ Turn(w, "paying")
    /\ UNCHANGED <<list, hand, together, crashes, retrying, resets, paid, learningVars>>

TransferBonkTokens(w) ==
    /\ payer[w] = "paying"
    /\ paid[hand[w].of] < MaxPayments
    /\ paid' = [paid EXCEPT ![hand[w].of] = @ + 1]
    /\ Turn(w, "completing")
    /\ UNCHANGED <<list, hand, together, crashes, retrying, resets, learningVars, reward, retryCount>>

SaveCompleted(w) ==
    /\ payer[w] = "completing"
    /\ SaveReward(w, "COMPLETED")
    /\ IF w \in retrying THEN Stop(w) ELSE NextReward(w)
    /\ UNCHANGED <<together, crashes, resets, paid, learningVars>>

\* An exception in processReward: a retry reports it to its client and leaves the
\* reward as it stands, a pass counts it.
Thrown(w) ==
    IF w \in retrying THEN Stop(w)
    ELSE /\ Turn(w, "failing")
         /\ hand' = [hand EXCEPT ![w].tries = @ + 1]
         /\ UNCHANGED <<list, retrying>>

\* transferBonkTokens is a mock that never fails; its comment describes the transfer
\* it stands for, whose failures handleRewardError is there for.
TransferFails(w) ==
    /\ payer[w] = "paying"
    /\ Thrown(w)
    /\ UNCHANGED <<together, crashes, resets, paid, learningVars, reward, retryCount>>

HandleRewardError(w) ==
    /\ payer[w] = "failing"
    /\ SaveReward(w, AfterFailure(hand[w].tries))
    /\ NextReward(w)
    /\ UNCHANGED <<together, crashes, resets, paid, learningVars>>

\* A save fails.  The one of handleRewardError ends the pass.
SaveFails(w) ==
    /\ crashes < MaxCrashes
    /\ crashes' = crashes + 1
    /\ \/ payer[w] \in {"marking", "completing"} /\ Thrown(w)
       \/ payer[w] \in {"failing", "resetting"} /\ Stop(w)
    /\ UNCHANGED <<together, resets, paid, learningVars, reward, retryCount>>

\* The process dies, and the requests and payers with it.
ProcessDies ==
    /\ crashes < MaxCrashes
    /\ crashes' = crashes + 1
    /\ step' = [c \in LearningCall |-> IF step[c] = "new" THEN "new" ELSE "done"]
    /\ loaded' = [c \in LearningCall |-> NotLoaded(c)]
    /\ payer' = [w \in Payer |-> "idle"]
    /\ list' = [w \in Payer |-> <<>>]
    /\ hand' = [w \in Payer |-> Nothing]
    /\ retrying' = {}
    /\ UNCHANGED <<learning, progress, concurrent, overtaken, reward, retryCount, paid, together, resets>>

\* A payer has loaded the reward and is not done with it.
Holds(w, r) == r \in DOMAIN list[w] \/ hand[w].of = r

\* cleanupOldFailedRewards deletes the failed rewards that were created more than
\* thirty days ago, which any may have been.  Its comment speaks of 2 AM every day,
\* and no more calls it than the passes.
CleanupOldFailedRewards ==
    \E old \in (SUBSET {r \in Granted : reward[r] = "FAILED"}) \ {{}} :
        /\ reward' = [r \in LearningCall |-> IF r \in old THEN "none" ELSE reward[r]]
        /\ retryCount' = [r \in LearningCall |-> IF r \in old THEN 0 ELSE retryCount[r]]
        /\ overtaken' = (overtaken \/ \E w \in Payer, r \in old : Holds(w, r))
        /\ UNCHANGED <<learning, step, loaded, progress, concurrent, payingVars>>

LearningStep(c) ==
    \/ FindProgress(c) \/ InsertProgress(c) \/ SaveProgress(c)
    \/ CheckCompleted(c) \/ FindReward(c) \/ InsertReward(c)

PayerStep(w) ==
    \/ TakeReward(w) \/ ResetReward(w) \/ MarkProcessing(w) \/ TransferBonkTokens(w)
    \/ SaveCompleted(w) \/ TransferFails(w) \/ HandleRewardError(w)

RewardsNext ==
    \/ \E c \in LearningCall : LearningStep(c)
    \/ \E w \in Payer : StartPass(w) \/ StartRetry(w) \/ PayerStep(w) \/ SaveFails(w)
    \/ CleanupOldFailedRewards
    \/ ProcessDies

RewardsSpec == RewardsInit /\ [][RewardsNext]_rewardsVars

\* Passes and retries that have begun are carried out; nobody promises that any
\* begins.
RewardsFairSpec ==
    /\ RewardsSpec
    /\ \A w \in Payer : WF_rewardsVars(PayerStep(w))

-----------------------------------------------------------------------------
(* Properties. *)

\* Two rewards for the module exist only when two requests for them ran at once, or a
\* cleanup deleted a reward that a payer had loaded and saved again.  A request that is
\* repeated later creates one in the place of a reward that the cleanup has deleted,
\* and none beside a reward that is there, whatever has become of it.
SecondRewardNeedsOverlap ==
    \A c, d \in Granted : c # d => concurrent \/ overtaken

\* A reward is paid for twice only when two payers were at work at once or a save
\* was lost: retries, failed transfers and later passes alone do not pay it again.
PaidTwiceNeedsOverlap ==
    \A r \in LearningCall : paid[r] > 1 => together \/ crashes > 0

\* No reward is left in PROCESSING, where no pass looks for it: the pass that has
\* put it there pays it, gives it up or sets it back, whatever transfers fail.  Only
\* a crash, a lost save or a retry that failed can strand a reward.
NoRewardIsStranded ==
    \A r \in LearningCall :
        reward[r] = "PROCESSING" ~> reward[r] # "PROCESSING" \/ crashes + resets > 0
=============================================================================
