------------------------------ MODULE Emergency ------------------------------
(***************************************************************************)
(* The emergency service of "checkin-dao"                                  *)
(* (services/checkin-dao/services/emergency.go) over emergency_alerts.     *)
(*                                                                         *)
(* TriggerAlert inserts the row and starts a goroutine that looks up a     *)
(* phone, sends an SMS and then posts a webhook, all within one context    *)
(* of CtxBudget; a request of the HTTP client lasts HttpTimeout at most.   *)
(* The goroutine is not recorded anywhere: it dies with its process.       *)
(* ResolveAlert is an UPDATE of an active row followed by a SELECT.        *)
(*                                                                         *)
(* Time is the time a dispatch has left; each of its calls takes some of   *)
(* it.  Which of two resolvers runs first is left to interleaving.         *)
(***************************************************************************)
EXTENDS Integers

CONSTANTS
    Users,              \* users.id
    NoUser,             \* no user: NULL resolved_by, nobody was texted
    Alerts,             \* emergency_alerts.id, fresh UUIDs
    Resolvers,          \* HTTP workers running ResolveAlert
    Instances,          \* processes of the service
    TwilioConfigured,   \* the three Twilio settings are not empty
    WebhookConfigured,  \* EMERGENCY_WEBHOOK is not empty
    CtxBudget,          \* context.WithTimeout of a dispatch (15 s)
    HttpTimeout,        \* http.Client{Timeout} (10 s)
    MaxFaults           \* bound: failures in one behaviour

ASSUME EmergencyUsers == NoUser \notin Users
ASSUME EmergencyConfig == TwilioConfigured \in BOOLEAN /\ WebhookConfigured \in BOOLEAN
ASSUME EmergencyTimes ==
    CtxBudget \in Nat /\ HttpTimeout \in Nat /\ HttpTimeout < CtxBudget
ASSUME EmergencyFaults == MaxFaults \in Nat

VARIABLES
    row,        \* emergency_alerts.status, "absent" before the INSERT
    subject,    \* emergency_alerts.user_id
    resolvedBy, \* emergency_alerts.resolved_by
    host,       \* the process whose goroutine dispatches the alert
    stage,      \* where that goroutine stands
    left,       \* what is left of its context
    lookup,     \* what the phone lookup took of it
    texted,     \* the user whose number Twilio accepted a message for
    hook,       \* what became of the webhook
    resolver,   \* where each ResolveAlert stands
    ecFaults    \* failures so far

alertVars == <<row, subject, resolvedBy>>
dispatchVars == <<host, stage, left, lookup, texted, hook>>
emVars == <<alertVars, dispatchVars, resolver, ecFaults>>

Budget == 0..CtxBudget
Idle == [at |-> "idle"]
ResolveStep == [at : {"update", "fetch"}, alert : Alerts, by : Users]

EmergencyTypeOK ==
    /\ row \in [Alerts -> {"absent", "active", "resolved"}]
    /\ subject \in [Alerts -> Users \cup {NoUser}]
    /\ resolvedBy \in [Alerts -> Users \cup {NoUser}]
    /\ host \in [Alerts -> Instances]
    /\ stage \in [Alerts -> {"none", "lookup", "sms", "hook", "done", "lost"}]
    /\ left \in [Alerts -> Budget]
    /\ lookup \in [Alerts -> Budget]
    /\ texted \in [Alerts -> Users \cup {NoUser}]
    /\ hook \in [Alerts -> {"none", "answered", "failed", "expired"}]
    /\ resolver \in [Resolvers -> {Idle} \cup ResolveStep]
    /\ ecFaults \in 0..MaxFaults

EmergencyInit ==
    /\ row = [a \in Alerts |-> "absent"]
    /\ subject = [a \in Alerts |-> NoUser]
    /\ resolvedBy = [a \in Alerts |-> NoUser]
    /\ host \in [Alerts -> Instances]
    /\ stage = [a \in Alerts |-> "none"]
    /\ left = [a \in Alerts |-> CtxBudget]
    /\ lookup = [a \in Alerts |-> 0]
    /\ texted = [a \in Alerts |-> NoUser]
    /\ hook = [a \in Alerts |-> "none"]
    /\ resolver = [q \in Resolvers |-> Idle]
    /\ ecFaults = 0

EmFault == ecFaults < MaxFaults /\ ecFaults' = ecFaults + 1

(***************************************************************************)
(* TriggerAlert.                                                           *)
(***************************************************************************)

\* The channels a dispatch goes through: what it does first, and what it does
\* once it is through with the SMS.
AfterSms == IF WebhookConfigured THEN "hook" ELSE "done"
FirstStage == IF TwilioConfigured THEN "lookup" ELSE AfterSms

\* The row a TriggerAlert of user u inserts.
InsertAlert(a, u) ==
    /\ row[a] = "absent"
    /\ row' = [row EXCEPT ![a] = "active"]
    /\ subject' = [subject EXCEPT ![a] = u]

TriggerAlert(m, a, u) ==
    /\ InsertAlert(a, u)
    /\ host' = [host EXCEPT ![a] = m]
    /\ stage' = [stage EXCEPT ![a] = FirstStage]
    /\ UNCHANGED <<resolvedBy, left, lookup, texted, hook, resolver, ecFaults>>

\* The INSERT commits and its acknowledgement is lost: the caller is told of
\* an error and no dispatch starts.
TriggerUnacked(a, u) ==
    /\ InsertAlert(a, u)
    /\ EmFault
    /\ UNCHANGED <<resolvedBy, dispatchVars, resolver>>

(***************************************************************************)
(* dispatchNotifications, one action per channel.                          *)
(***************************************************************************)

\* getUserPhone takes t.  It finds a number, or there is none, or it fails.
LookupPhone(a, t) ==
    /\ stage[a] = "lookup"
    /\ t <= left[a]
    /\ left' = [left EXCEPT ![a] = @ - t]
    /\ lookup' = [lookup EXCEPT ![a] = t]
    /\ stage' \in {[stage EXCEPT ![a] = s] :
                      s \in IF t < left[a] THEN {"sms", AfterSms} ELSE {AfterSms}}
    /\ UNCHANGED <<alertVars, host, texted, hook, resolver, ecFaults>>

\* Mutant of RequestLimit: an http.Client without a timeout of its own.
RequestLimitContext(a) == left[a]

\* How long one request of the client may take.
RequestLimit(a) == IF left[a] < HttpTimeout THEN left[a] ELSE HttpTimeout

\* Mutant: a message Twilio did not accept ends the dispatch.
SendSmsOrGiveUp(a, t) ==
    /\ stage[a] = "sms"
    /\ t <= RequestLimit(a)
    /\ left' = [left EXCEPT ![a] = @ - t]
    /\ \/ /\ texted' = [texted EXCEPT ![a] = subject[a]]
          /\ stage' = [stage EXCEPT ![a] = AfterSms]
       \/ /\ UNCHANGED texted
          /\ stage' = [stage EXCEPT ![a] = "done"]
    /\ UNCHANGED <<alertVars, host, lookup, hook, resolver, ecFaults>>

\* sendTwilioSMS takes t; Twilio accepts the message or it does not.  The
\* number is the one of the alert's own user.
SendSms(a, t) ==
    /\ stage[a] = "sms"
    /\ t <= RequestLimit(a)
    /\ left' = [left EXCEPT ![a] = @ - t]
    /\ texted' \in {texted, [texted EXCEPT ![a] = subject[a]]}
    /\ stage' = [stage EXCEPT ![a] = AfterSms]
    /\ UNCHANGED <<alertVars, host, lookup, hook, resolver, ecFaults>>

\* sendWebhook.  Whatever status the receiver answers with counts.
SendWebhook(a) ==
    /\ stage[a] = "hook"
    /\ hook' \in {[hook EXCEPT ![a] = h] :
                     h \in IF left[a] = 0 THEN {"expired"} ELSE {"answered", "failed"}}
    /\ stage' = [stage EXCEPT ![a] = "done"]
    /\ UNCHANGED <<alertVars, host, left, lookup, texted, resolver, ecFaults>>

(***************************************************************************)
(* ResolveAlert.                                                           *)
(***************************************************************************)

\* A client learns the id of an alert from an answer; another one matches no
\* row.
BeginResolve(q, a, u) ==
    /\ resolver[q] = Idle
    /\ row[a] # "absent"
    /\ resolver' = [resolver EXCEPT ![q] = [at |-> "update", alert |-> a, by |-> u]]
    /\ UNCHANGED <<alertVars, dispatchVars, ecFaults>>

\* Mutant of Resolvable: the status is not looked at.
ResolvableAny(a, u) == row[a] # "absent"

\* The WHERE clause of the UPDATE, for an alert and a resolver.
Resolvable(a, u) == row[a] = "active"

\* The UPDATE; that it may match no row is not looked at.
ResolveUpdate(q) ==
    /\ resolver[q].at = "update"
    /\ LET a == resolver[q].alert IN
         IF Resolvable(a, resolver[q].by)
         THEN /\ row' = [row EXCEPT ![a] = "resolved"]
              /\ resolvedBy' = [resolvedBy EXCEPT ![a] = resolver[q].by]
         ELSE UNCHANGED <<row, resolvedBy>>
    /\ resolver' = [resolver EXCEPT ![q].at = "fetch"]
    /\ UNCHANGED <<subject, dispatchVars, ecFaults>>

\* The SELECT: the alert is answered to the caller, or there is none.
ResolveFetch(q) ==
    /\ resolver[q].at = "fetch"
    /\ resolver' = [resolver EXCEPT ![q] = Idle]
    /\ UNCHANGED <<alertVars, dispatchVars, ecFaults>>

\* A statement fails and the caller is told so.
ResolveFails(q) ==
    /\ resolver[q] # Idle
    /\ resolver' = [resolver EXCEPT ![q] = Idle]
    /\ UNCHANGED <<alertVars, dispatchVars, ecFaults>>

(***************************************************************************)
(* A process stops, by a crash or by main returning on SIGTERM: nothing    *)
(* waits for its dispatches and nothing starts them again.                 *)
(***************************************************************************)
Dispatching(a) == stage[a] \in {"lookup", "sms", "hook"}

ProcessStops(m) ==
    /\ \E a \in Alerts : host[a] = m /\ Dispatching(a)
    /\ EmFault
    /\ stage' = [a \in Alerts |->
                    IF host[a] = m /\ Dispatching(a) THEN "lost" ELSE stage[a]]
    /\ UNCHANGED <<alertVars, host, left, lookup, texted, hook, resolver>>

-------------------------------------------------------------------------------
DispatchStep(a) ==
    \/ \E t \in Budget : LookupPhone(a, t) \/ SendSms(a, t)
    \/ SendWebhook(a)

ResolverStep(q) ==
    \/ \E a \in Alerts, u \in Users : BeginResolve(q, a, u)
    \/ ResolveUpdate(q)
    \/ ResolveFetch(q)
    \/ ResolveFails(q)

TriggerStep(a) ==
    \E u \in Users :
        \/ \E m \in Instances : TriggerAlert(m, a, u)
        \/ TriggerUnacked(a, u)

EmergencyNext ==
    \/ \E a \in Alerts : TriggerStep(a) \/ DispatchStep(a)
    \/ \E q \in Resolvers : ResolverStep(q)
    \/ \E m \in Instances : ProcessStops(m)

EmergencySpec == EmergencyInit /\ [][EmergencyNext]_emVars

\* A goroutine that can run is run; every call of a dispatch is bounded.
DispatchFairness == \A a \in Alerts : WF_emVars(DispatchStep(a))

EmergencyFairSpec == EmergencySpec /\ DispatchFairness

-------------------------------------------------------------------------------
(***************************************************************************)
(* Properties.                                                             *)
(***************************************************************************)

\* However long Twilio takes, the webhook that follows still has time: it
\* expires only when the database lookup alone used up all but HttpTimeout
\* of the context (emergency.go:30, :127, :135, :140).
SlowSmsKeepsWebhook ==
    \A a \in Alerts : hook[a] = "expired" => lookup[a] >= CtxBudget - HttpTimeout

\* Of several callers of ResolveAlert one is recorded, for good: resolved_by
\* never changes after it is set and the alert is never active again.
ResolvedOnce ==
    [][\A a \in Alerts :
          resolvedBy[a] # NoUser =>
              resolvedBy'[a] = resolvedBy[a] /\ row'[a] = "resolved"]_emVars

\* A caller that reaches the SELECT of ResolveAlert reads a resolved alert,
\* although the UPDATE's row count is never checked
\* (emergency.go:72-86) and another caller may have won.
FetchedIsResolved ==
    \A q \in Resolvers :
        resolver[q].at = "fetch" => row[resolver[q].alert] = "resolved"

\* Every alert whose dispatch began reaches the webhook, whatever the phone
\* lookup and Twilio answer, unless its process stops.
WebhookReached ==
    \A a \in Alerts : Dispatching(a) ~> hook[a] # "none" \/ stage[a] = "lost"
===============================================================================
