\* The chain from tick to webhook: one process, two users, a button and a
\* resolver beside it, one failure of each component.
SPECIFICATION NetFairSpec
CONSTANTS
    Users = {u1, u2}
    NoUser = NoUser
    CheckInIds = {c1}
    Requests = {q1}
    Instances = {m1}
    MaxTime = 1
    MaxFaults = 1
    BufRows = 1
    Alerts = {a1, a2, b1}
    Resolvers = {r1}
    TwilioConfigured = FALSE
    WebhookConfigured = TRUE
    CtxBudget = 1
    HttpTimeout = 0
    Button = Button
    ButtonIds = {b1}
INVARIANTS
    AlertMatchesCheckIn
    OneAlertRowPerProcess
    NobodyFallsThrough
PROPERTIES
    OverdueNotified
    ImplementsPromise
CHECK_DEADLOCK FALSE
