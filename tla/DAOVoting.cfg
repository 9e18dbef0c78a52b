\* Three workers and two users on one proposal.
SPECIFICATION Spec
CONSTANTS
    Users = {u1, u2}
    NoUser = NoUser
    Proposals = {p1}
    Workers = {w1, w2, w3}
    Quorums = {0, 1, 2}
    MaxTime = 1
SYMMETRY Symmetry
INVARIANTS
    LastCastCounts
    EmptyBallotMeetsNoQuorum
PROPERTIES
    ImplementsBallot
    BallotCloses
CHECK_DEADLOCK FALSE
