------------------------------ MODULE Accounts ------------------------------
(***************************************************************************)
(* The parts of the API around a user's account, side by side: the session *)
(* of a token, the logins, the wallet behind its cache, the verification,  *)
(* the rewards and the rate limiter.  They call each other only at their   *)
(* edges and no variable is shared, so that a behaviour of the API is an   *)
(* interleaving of behaviours of the parts, and a property that speaks of  *)
(* one part holds of the API when it holds of that part.  A behaviour of   *)
(* this module therefore moves one part, and the others keep their initial *)
(* state.                                                                  *)
(***************************************************************************)
EXTENDS ParaSessions, Onboarding, WalletCache, Verification, Rewards, RateLimiter

CONSTANT Parts      \* the parts that may move

ASSUME PartsAssumption ==
    Parts \subseteq {"session", "onboarding", "wallet", "verification", "rewards", "limiter"}

VARIABLE part       \* the part that moves

accountsVars ==
    <<part, sessionVars, onboardingVars, walletCacheVars, verificationVars, rewardsVars,
      limiterVars>>

-----------------------------------------------------------------------------
\* A part at rest has one initial state.
AccountsInit ==
    /\ part \in Parts
    /\ SessionInit /\ OnboardingInit /\ WalletCacheInit
    /\ VerificationInit /\ RewardsInit /\ LimiterInit
    /\ part # "session" =>
           /\ endpoint = CHOOSE e \in Endpoints : TRUE
           /\ left["login"] = DefaultLength
    /\ part # "onboarding" =>
           /\ contact = CHOOSE c \in Contacts : TRUE
           /\ person = CHOOSE p \in Callers : TRUE
    /\ part # "wallet" => change = CHOOSE k \in ChangeKinds : TRUE
    /\ part # "verification" =>
           /\ kind = CHOOSE k \in Kinds : TRUE
           /\ row = CHOOSE x \in FirstRows : TRUE
    /\ part # "rewards" => learning = CHOOSE k \in LearningKinds : TRUE

SessionMoves ==
    /\ part = "session"
    /\ UNCHANGED <<part, onboardingVars, walletCacheVars, verificationVars, rewardsVars, limiterVars>>

OnboardingMoves ==
    /\ part = "onboarding"
    /\ UNCHANGED <<part, sessionVars, walletCacheVars, verificationVars, rewardsVars, limiterVars>>

WalletMoves ==
    /\ part = "wallet"
    /\ UNCHANGED <<part, sessionVars, onboardingVars, verificationVars, rewardsVars, limiterVars>>

VerificationMoves ==
    /\ part = "verification"
    /\ UNCHANGED <<part, sessionVars, onboardingVars, walletCacheVars, rewardsVars, limiterVars>>

RewardsMove ==
    /\ part = "rewards"
    /\ UNCHANGED <<part, sessionVars, onboardingVars, walletCacheVars, verificationVars, limiterVars>>

LimiterMoves ==
    /\ part = "limiter"
    /\ UNCHANGED <<part, sessionVars, onboardingVars, walletCacheVars, verificationVars, rewardsVars>>

AccountsNext ==
    \/ SessionMoves /\ SessionNext
    \/ OnboardingMoves /\ OnboardingNext
    \/ WalletMoves /\ WalletCacheNext
    \/ VerificationMoves /\ VerificationNext
    \/ RewardsMove /\ RewardsNext
    \/ LimiterMoves /\ LimiterNext

AccountsSpec == AccountsInit /\ [][AccountsNext]_accountsVars

\* The fairness of each part.
AccountsFairSpec ==
    /\ AccountsSpec
    /\ WF_accountsVars(SessionMoves /\ Tick)
    /\ WF_accountsVars(SessionMoves /\ CleanupExpiredSessions)
    /\ \A c \in SessionCall : WF_accountsVars(SessionMoves /\ SessionStep(c))
    /\ \A r \in Request :
           /\ WF_accountsVars(VerificationMoves /\ RequestStep(r))
           /\ WF_accountsVars(VerificationMoves /\ StartPoll(r))
    /\ \A w \in Payer : WF_accountsVars(RewardsMove /\ PayerStep(w))

\* The parts that do not move stay as they began.
AccountsTypeOK ==
    /\ part \in Parts
    /\ part = "session" => SessionTypeOK
    /\ part = "onboarding" => OnboardingTypeOK
    /\ part = "wallet" => WalletCacheTypeOK
    /\ part = "verification" => VerificationTypeOK
    /\ part = "rewards" => RewardsTypeOK
    /\ part = "limiter" => LimiterTypeOK
=============================================================================
