SPECIFICATION Spec
CONSTANTS
    MockPending = m1
    NewCheckIns = {n1, n2, n3}
    NoCheckIn = noCheckIn
    TriggerCalls = {t1, t2}
    CreateCalls = {k1, k2}
    NoCreate = noCreate
    Votes = {yes, no, abstain}
    NoVote = noVote
    Attempts = {r1, r2}
    MaxFaults = 1
    Wallets = {w1, w2}
    ForeignName = wForeign
    Nobody = nobody
    Logins = {l1, l2}
    Stay = stay
    MCLogin = l1
    MCAttempt = r1
    Trips <- MCTrips
INVARIANTS
    OnePendingUnlessOverlap
    OneAlertPerVisit
    HighlightedIsCast
    HeardIsTrue
    TwiceOnlyAfterError
PROPERTIES
    CompletesWhatItShows
    CompletionIsOneCall
    CreationIsOneCall
    VoteIsOneCall
    SentAsShown
    LoginSettles
