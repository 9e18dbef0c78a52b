\* Two monitors and two workers over two check-ins, two failures; results fit
\* the buffer.
SPECIFICATION FairSpec
CONSTANTS
    Users = {u1}
    NoUser = NoUser
    CheckInIds = {c1, c2}
    Requests = {q1, q2}
    Instances = {m1, m2}
    MaxTime = 1
    MaxFaults = 2
    BufRows = 1
INVARIANTS
    OnTimeCompletionIsFinal
    AtMostOneAlertPerInstance
    LostAlertsAreFaults
PROPERTIES
    OverdueDetected
CHECK_DEADLOCK FALSE
