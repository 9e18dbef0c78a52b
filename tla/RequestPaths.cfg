\* Two requests at a time, a moderator and a new wallet, tokens that expire; a
\* bucket of one.
SPECIFICATION PathSpec
CONSTANTS
    Wallets = {"mod", "new"}
    UserIds = {"i0", "i1", "i2"}
    Phones = {"p0"}
    Seeded <- MCSeeded
    AuthWorkers = {"q1", "q2"}
    TokenLife = 1
    MaxTime = 1
    Clients = {x}
    Burst = 1
    Leeway = 1
    Asked <- MCAsked
    NoToken = NoToken
INVARIANTS
    TokenNamesItsRow
    CallerIsKnown
    WindowBound
CHECK_DEADLOCK FALSE
