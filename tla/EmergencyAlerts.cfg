\* One alert, two callers resolving it at once, two processes, one failure.
\* A unit of time is 5 s.
SPECIFICATION EmergencyFairSpec
CONSTANTS
    Users = {u1, u2}
    NoUser = NoUser
    Alerts = {a1}
    Resolvers = {q1, q2}
    Instances = {m1, m2}
    TwilioConfigured = TRUE
    WebhookConfigured = TRUE
    CtxBudget = 3
    HttpTimeout = 2
    MaxFaults = 1
INVARIANTS
    SlowSmsKeepsWebhook
PROPERTIES
    ResolvedOnce
    WebhookReached
CHECK_DEADLOCK FALSE
