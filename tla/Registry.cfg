\* Two reports, one of them disputed by two moderators, one fault.
SPECIFICATION FairSpec
CONSTANTS
    Reports = {r1, r2}
    CollectionMade = TRUE
    Moderators = {m1, m2}
    Desks = {d1, d2}
    Disputed = {r1}
    Nobody = Nobody
    MaxFaults = 1
INVARIANTS
    OnlyFallbackHides
    AnswerIsAVerdict
PROPERTIES
    EmbeddingSettles
CHECK_DEADLOCK FALSE
