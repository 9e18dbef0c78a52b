------------------------------ MODULE RequestPath ------------------------------
(***************************************************************************)
(* The way of a request: through the gateway (services/gateway/src/        *)
(* proxy.rs) or straight to the published port of "checkin-dao", through   *)
(* its router and middleware (routes.go, middleware.go), to a handler and  *)
(* back as a status code.  Registration and login are those of Auth, the   *)
(* gateway's limiter is RateLimiter; what the other handlers do to their   *)
(* tables is in CheckIns, Emergency and DAO: here they only answer.        *)
(*                                                                         *)
(* A path is a base ("/api/v1", "/api" or "") and a route.  Signatures are *)
(* abstracted: a token is one the service signed, or none is sent.  The    *)
(* two services read the clock at different moments, and only the          *)
(* gateway's library (jsonwebtoken) allows a token some Leeway.            *)
(***************************************************************************)
EXTENDS Auth, RateLimiter

CONSTANTS
    Leeway,     \* of Validation::new in the gateway's JWT library (60 s)
    Asked,      \* bound: the routes each request may ask for
    NoToken     \* no Authorization header

ASSUME NoTokenAssumption == NoToken \notin Token
ASSUME LeewayAssumption == Leeway \in Nat

VARIABLE req    \* where each request stands

limiter == <<bucket, total, before>>
pathVars == <<authVars, limiter, req>>

(***************************************************************************)
(* The routes.                                                             *)
(***************************************************************************)
AuthRoutes == {"register", "login"}
ModeratorRoutes == {"updateReportStatus"}

\* Handlers that begin with r.Context().Value("user_id").(string).
UserRoutes ==
    {"createCheckIn", "listCheckIns", "getCheckIn", "completeCheckIn",
     "triggerAlert", "listAlerts", "resolveAlert", "submitReport",
     "createProposal", "castVote"} \cup ModeratorRoutes

\* Handlers that do not ask who is calling.
OpenRoutes == {"searchReports", "getReport", "listProposals", "getProposal", "getResults"}

ServiceRoutes == AuthRoutes \cup UserRoutes \cup OpenRoutes
Routes == ServiceRoutes \cup {"health", "attestations", "analytics"}

ASSUME AskedAssumption == Asked \in [AuthWorkers -> SUBSET Routes]

\* What a handler answers when it ran: a service error or success.
Answers(route) ==
    CASE route \in {"createCheckIn", "submitReport", "createProposal"} -> {201, 400}
      [] route \in {"completeCheckIn", "resolveAlert", "castVote", "updateReportStatus"} -> {200, 400}
      [] route = "triggerAlert" -> {201, 400, 500}
      [] route \in {"listCheckIns", "listAlerts", "searchReports", "listProposals"} -> {200, 500}
      [] route \in {"getCheckIn", "getReport", "getProposal", "getResults"} -> {200, 404}

(***************************************************************************)
(* Requests.                                                               *)
(***************************************************************************)
Slots == AuthWorkers      \* a request and the worker that serves it

InFlight ==
    [at : {"gateway", "forward", "service", "handler"}, via : {"gateway", "port"},
     client : Clients, route : Routes, token : issued \cup {NoToken},
     base : {"/api/v1", ""}, user : UserIds \cup {NoToken}]

Answered == [at : {"answered"}, via : {"gateway", "port"}, route : Routes,
             code : {200, 201, 400, 401, 403, 404, 429, 500}]

PathTypeOK ==
    /\ AuthTypeOK
    /\ LimiterTypeOK
    /\ req \in [Slots -> {Idle} \cup InFlight \cup Answered]

PathInit == AuthInit /\ LimiterInit /\ req = [q \in Slots |-> Idle]

\* A client asks, with a token it has or none: the frontend's request through the
\* gateway (lib/api.ts), another one also at the published port of the service.
Ask(q, via, client, route, token) ==
    /\ req[q].at \in {"idle", "answered"}
    /\ via = "port" => route \in ServiceRoutes
    /\ req' = [req EXCEPT ![q] =
                  [at |-> IF via = "gateway" THEN "gateway" ELSE "service", via |-> via,
                   client |-> client, route |-> route, token |-> token,
                   base |-> "/api/v1", user |-> NoToken]]
    /\ UNCHANGED <<authVars, limiter>>

Answer(q, code) ==
    req' = [req EXCEPT ![q] =
               [at |-> "answered", via |-> req[q].via, route |-> req[q].route,
                code |-> code]]

MoveTo(q, at, base, user) ==
    req' = [req EXCEPT ![q] =
               [at |-> at, via |-> req[q].via, client |-> req[q].client, route |-> req[q].route,
                token |-> req[q].token, base |-> base, user |-> user]]

(***************************************************************************)
(* The gateway: request_filter, then upstream_request_filter and           *)
(* upstream_peer.                                                          *)
(***************************************************************************)
GatewayAccepts(token) == token # NoToken /\ now <= token.exp + Leeway

\* /health, before everything else.
GatewayHealth(q) ==
    /\ req[q].at = "gateway"
    /\ req[q].route = "health"
    /\ Answer(q, 200)
    /\ UNCHANGED <<authVars, limiter>>

GatewayLimits(q) ==
    /\ req[q].at = "gateway"
    /\ req[q].route # "health"
    /\ Refuse(req[q].client)
    /\ Answer(q, 429)
    /\ UNCHANGED authVars

\* Mutant of GatewayFilter: health and registration are let in before the
\* limiter is asked.
GatewayFilterFreeAuth(q) ==
    /\ req[q].at = "gateway"
    /\ req[q].route # "health"
    /\ IF req[q].route \in AuthRoutes
       THEN total' = [total EXCEPT ![req[q].client] = @ + 1] /\ UNCHANGED <<bucket, before>>
       ELSE LetThrough(req[q].client)
    /\ IF req[q].route \in AuthRoutes \/ GatewayAccepts(req[q].token)
       THEN MoveTo(q, "forward", req[q].base, NoToken)
       ELSE Answer(q, 401)
    /\ UNCHANGED authVars

GatewayFilter(q) ==
    /\ req[q].at = "gateway"
    /\ req[q].route # "health"
    /\ LetThrough(req[q].client)
    /\ IF req[q].route \in AuthRoutes \/ GatewayAccepts(req[q].token)
       THEN MoveTo(q, "forward", req[q].base, NoToken)
       ELSE Answer(q, 401)
    /\ UNCHANGED authVars

\* upstream_request_filter: strip_prefix("/api/v1").
Rewritten(base) == IF base = "/api/v1" THEN "" ELSE base

\* The bases under which the other two services register their routes.
AttestationBase == "/api"
AnalyticsBase == "/api/v1"

Forward(q) ==
    /\ req[q].at = "forward"
    /\ LET base == Rewritten(req[q].base) IN
         CASE req[q].route = "attestations" ->
                 \E code \in IF base = AttestationBase THEN {200, 404, 500} ELSE {404} : Answer(q, code)
           [] req[q].route = "analytics" ->
                 \E code \in IF base = AnalyticsBase THEN {200, 400, 500} ELSE {404} : Answer(q, code)
           [] OTHER -> MoveTo(q, "service", base, NoToken)
    /\ UNCHANGED <<authVars, limiter>>

(***************************************************************************)
(* The router and the middleware of "checkin-dao".                         *)
(***************************************************************************)
ServiceBase == "/api/v1"

ServiceAccepts(token) == token # NoToken /\ now < token.exp

\* JWTAuth stores the user under a key of the type contextKey; a handler asks
\* for the string "user_id".  Value finds a key of the same type only.
StoredKey == [type |-> "contextKey", name |-> "user_id"]
HandlerKey == [type |-> "string", name |-> "user_id"]

NotRouted(q) == req[q].base # ServiceBase \/ req[q].route \notin ServiceRoutes

RouteNotFound(q) ==
    /\ req[q].at = "service"
    /\ NotRouted(q)
    /\ Answer(q, 404)
    /\ UNCHANGED <<authVars, limiter>>

\* JWTAuth, and RoleAuth where the route has it.
JWTAuth(q) ==
    /\ req[q].at = "service"
    /\ ~NotRouted(q)
    /\ req[q].route \notin AuthRoutes
    /\ IF ~ServiceAccepts(req[q].token) THEN Answer(q, 401)
       ELSE IF /\ req[q].route \in ModeratorRoutes
               /\ req[q].token.role \notin {"moderator", "admin"}
       THEN Answer(q, 403)
       ELSE MoveTo(q, "handler", req[q].base, req[q].token.sub)
    /\ UNCHANGED <<authVars, limiter>>

(***************************************************************************)
(* Handlers.                                                               *)
(***************************************************************************)

\* The value is not there, the assertion .(string) panics, Recoverer answers.
Panics(q) == req[q].route \in UserRoutes /\ HandlerKey # StoredKey

HandlerPanics(q) ==
    /\ req[q].at = "handler"
    /\ Panics(q)
    /\ Answer(q, 500)
    /\ UNCHANGED <<authVars, limiter>>

HandlerAnswers(q) ==
    /\ req[q].at = "handler"
    /\ ~Panics(q)
    /\ \E code \in Answers(req[q].route) : Answer(q, code)
    /\ UNCHANGED <<authVars, limiter>>

\* Register and Login begin, with the body of the request; a bad body is
\* answered before anything else happens.
AuthHandlerBegins(q) ==
    /\ req[q].at = "service"
    /\ ~NotRouted(q)
    /\ CASE req[q].route = "register" ->
               \E a \in Wallets, i \in UserIds, p \in Phones : BeginRegister(q, a, i, p)
         [] req[q].route = "login" -> \E a \in Wallets : BeginLogin(q, a)
         [] OTHER -> FALSE
    /\ UNCHANGED <<limiter, req>>

AuthHandlerRefuses(q) ==
    /\ req[q].at = "service"
    /\ ~NotRouted(q)
    /\ req[q].route \in AuthRoutes
    /\ auth[q] = Idle
    /\ Answer(q, 400)
    /\ UNCHANGED <<authVars, limiter>>

AuthHandlerGoesOn(q) ==
    /\ UpsertUser(q) \/ FetchUser(q)
    /\ UNCHANGED <<limiter, req>>

AuthHandlerEnds(q) ==
    /\ \/ SignToken(q) /\ Answer(q, IF req[q].route = "register" THEN 201 ELSE 200)
       \/ AuthFails(q) /\ Answer(q, IF req[q].route = "login" /\ auth[q].at = "fetch"
                                    THEN 401 ELSE 500)
    /\ UNCHANGED limiter

PathTick ==
    /\ Refill
    /\ UNCHANGED <<users, auth, issued, req>>

-------------------------------------------------------------------------------
GatewayStep(q) == GatewayHealth(q) \/ GatewayLimits(q) \/ GatewayFilter(q) \/ Forward(q)

ServiceStep(q) ==
    \/ RouteNotFound(q)
    \/ JWTAuth(q)
    \/ HandlerPanics(q)
    \/ HandlerAnswers(q)
    \/ AuthHandlerBegins(q)
    \/ AuthHandlerRefuses(q)
    \/ AuthHandlerGoesOn(q)
    \/ AuthHandlerEnds(q)

Arrive(q) ==
    \E via \in {"gateway", "port"}, client \in Clients, route \in Asked[q],
       token \in issued \cup {NoToken} : Ask(q, via, client, route, token)

PathNext ==
    \/ \E q \in Slots : Arrive(q) \/ GatewayStep(q) \/ ServiceStep(q)
    \/ PathTick

PathSpec == PathInit /\ [][PathNext]_pathVars

-------------------------------------------------------------------------------
(***************************************************************************)
(* Properties.                                                             *)
(***************************************************************************)

\* Who a handler runs for has a row, and a moderator's handler runs for one
\* whose row says so, although nobody looks at the table on the way: the
\* token was signed by another request, at an earlier time
\* (middleware.go:56-60, :74-78).
CallerIsKnown ==
    \A q \in Slots :
        req[q].at = "handler" =>
            \E r \in users :
                /\ r.id = req[q].user
                /\ req[q].route \in ModeratorRoutes => r.role \in {"moderator", "admin"}

\* A request to register or to log in that came through the gateway is not
\* answered that there is no such route (README.md:120 lists POST
\* /auth/register under the gateway's base URL).
DocumentedRouteServed ==
    \A q \in Slots :
        req[q].at = "answered" /\ req[q].via = "gateway" /\ req[q].route \in AuthRoutes =>
            req[q].code # 404
===============================================================================
