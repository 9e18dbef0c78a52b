\* Two requests and the monitor over a pool of two, one failure; 001 may be
\* loaded by hand at any time.
SPECIFICATION FairSpec
CONSTANTS
    Workers = {w1, w2}
    PoolSize = 2
    MaxStatements = 1
    MaxFaults = 1
INVARIANTS
    ServesOwnTables
PROPERTIES
    StopEnds
    StartServes
    NobodyStarves
CHECK_DEADLOCK FALSE
