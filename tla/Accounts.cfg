SPECIFICATION AccountsSpec
CONSTANTS
    a = a b = b d = d
    SessionCall = {a, b, d}
    Endpoints <- SmallEndpoints
    SessionLength = 3
    DefaultLength = 2
    MaxRestarts = 1
    p = p q = q l1 = l1 l2 = l2 l3 = l3
    Person = {p, q}
    LoginCall = {l1, l2, l3}
    Contacts <- SmallContacts
    Callers <- SmallCallers
    NoOne = NoOne
    Empty = Empty
    MaxRemovals = 1
    e1 = e1 e2 = e2 e3 = e3
    Address = {x1, x2}
    Change = {e1, e2, e3}
    ChangeKinds <- SmallChanges
    Reader = {g1, g2}
    WalletTtl = 2
    MaxCacheLosses = 1
    r1 = r1 r2 = r2 r3 = r3 r4 = r4
    Request = {r1, r2, r3, r4}
    Kinds <- SmallKinds
    FirstRows <- SmallFirstRows
    Reviews <- SmallReviews
    MaxReviews = 2
    MaxFaults = 1
    c1 = c1 c2 = c2 c3 = c3 c4 = c4
    LearningCall = {c1, c2, c3, c4}
    LearningKinds <- OneRewardLearning
    Payer = {w1, w2}
    MaxRetries = 2
    MaxPayments = 2
    MaxCrashes = 1
    MaxResets = 1
    Client = {i1, i2}
    WindowMs = 3
    MaxRequests = 2
    Second = 2
    Horizon = 5
    Parts = {"session", "onboarding", "wallet", "verification", "rewards", "limiter"}
INVARIANTS
    AccountsTypeOK
    EndedSessionAdmitsNobody
    PromiseKept
    SigningNeedsOnlyPara
    ChangeSeenInTime
    SecondWalletNeedsOverlap
    VerifiedNeedsCause
    StatusFollowsVerification
    SameUserEachLogin
    NoStranger
    LoginLeavesWallet
    PaidTwiceNeedsOverlap
    TwiceTheLimitAtMost
    RetryAfterSuffices
CHECK_DEADLOCK FALSE
