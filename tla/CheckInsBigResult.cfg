\* One more overdue row than the connection holds.
SPECIFICATION FairSpec
CONSTANTS
    Users = {u1}
    NoUser = NoUser
    CheckInIds = {c1, c2, c3}
    Requests = {q1}
    Instances = {m1}
    MaxTime = 1
    MaxFaults = 0
    BufRows = 1
PROPERTIES
    OverdueDetected
CHECK_DEADLOCK FALSE
