\* One request without a token: registration and login through the gateway.
SPECIFICATION PathSpec
CONSTANTS
    Wallets = {"mod", "new"}
    UserIds = {"i0", "i1"}
    Phones = {"p0"}
    Seeded <- MCSeeded
    AuthWorkers = {"q1"}
    TokenLife = 1
    MaxTime = 1
    Clients = {x}
    Burst = 1
    Leeway = 1
    Asked <- MCAskedAuth
    NoToken = NoToken
INVARIANTS
    DocumentedRouteServed
CHECK_DEADLOCK FALSE
