\* One failure loses an alert for good.
SPECIFICATION FairSpec
CONSTANTS
    Users = {u1}
    NoUser = NoUser
    CheckInIds = {c1}
    Requests = {q1}
    Instances = {m1}
    MaxTime = 1
    MaxFaults = 1
    BufRows = 1
PROPERTIES
    MissedRaisesAlert
CHECK_DEADLOCK FALSE
