--------------------------- MODULE EmergencyProofs ---------------------------
(***************************************************************************)
(* Safety of the emergency service for every value of its constants.       *)
(*                                                                         *)
(* The argument for the webhook: the context starts at CtxBudget, the      *)
(* lookup and one request are taken from it, and a request takes           *)
(* HttpTimeout at most.  The argument for the resolution: an alert is      *)
(* resolved exactly when somebody is recorded, and no statement touches a  *)
(* resolved alert.                                                         *)
(*                                                                         *)
(* Then the dispatch call by call: it only goes forward, tells nobody twice*)
(* and nobody else, and does not end without its webhook.                  *)
(***************************************************************************)
EXTENDS Emergency, TLAPS

\* A resolver's label tells the shape of its record.
LEMMA ResolverShape ==
    ASSUME EmergencyTypeOK, NEW q \in Resolvers
    PROVE  resolver[q] = Idle \/ resolver[q] \in ResolveStep
BY DEF EmergencyTypeOK

LEMMA EmTypeInit == EmergencyInit => EmergencyTypeOK
BY EmergencyTimes, EmergencyFaults DEF EmergencyInit, EmergencyTypeOK, Budget

\* The stages a dispatch moves to, whatever is configured.
LEMMA StageTypes ==
    /\ AfterSms \in {"hook", "done"}
    /\ FirstStage \in {"lookup", "hook", "done"}
BY DEF AfterSms, FirstStage

LEMMA EmTypeStep == EmergencyTypeOK /\ [EmergencyNext]_emVars => EmergencyTypeOK'
<1> SUFFICES ASSUME EmergencyTypeOK, [EmergencyNext]_emVars PROVE EmergencyTypeOK'
    OBVIOUS
<1> USE EmergencyTimes, StageTypes DEF EmergencyTypeOK, alertVars, dispatchVars, Budget
<1>1. ASSUME NEW a \in Alerts, TriggerStep(a) PROVE EmergencyTypeOK'
  <2>1. ASSUME NEW u \in Users, NEW m \in Instances, TriggerAlert(m, a, u)
        PROVE  EmergencyTypeOK'
      BY <2>1 DEF TriggerAlert, InsertAlert
  <2>2. ASSUME NEW u \in Users, TriggerUnacked(a, u) PROVE EmergencyTypeOK'
      BY <2>2, EmergencyFaults DEF TriggerUnacked, InsertAlert, EmFault
  <2> QED BY <1>1, <2>1, <2>2 DEF TriggerStep
<1>2. ASSUME NEW a \in Alerts, DispatchStep(a) PROVE EmergencyTypeOK'
  <2>1. ASSUME NEW t \in Budget, LookupPhone(a, t) PROVE EmergencyTypeOK'
      BY <2>1 DEF LookupPhone
  <2>2. ASSUME NEW t \in Budget, SendSms(a, t) PROVE EmergencyTypeOK'
      BY <2>2 DEF SendSms, RequestLimit
  <2>3. CASE SendWebhook(a)
      BY <2>3 DEF SendWebhook
  <2> QED BY <1>2, <2>1, <2>2, <2>3 DEF DispatchStep
<1>3. ASSUME NEW q \in Resolvers, ResolverStep(q) PROVE EmergencyTypeOK'
  <2>1. ASSUME NEW a \in Alerts, NEW u \in Users, BeginResolve(q, a, u)
        PROVE  EmergencyTypeOK'
      BY <2>1 DEF BeginResolve, ResolveStep
  <2>2. CASE ResolveUpdate(q)
    <3>1. resolver[q] \in ResolveStep
        BY <2>2, ResolverShape DEF ResolveUpdate, Idle
    <3>2. resolver' \in [Resolvers -> {Idle} \cup ResolveStep]
        BY <2>2, <3>1 DEF ResolveUpdate, ResolveStep
    <3> QED BY <2>2, <3>1, <3>2 DEF ResolveUpdate, ResolveStep
  <2>3. CASE ResolveFetch(q)
      BY <2>3 DEF ResolveFetch
  <2>4. CASE ResolveFails(q)
      BY <2>4 DEF ResolveFails
  <2> QED BY <1>3, <2>1, <2>2, <2>3, <2>4 DEF ResolverStep
<1>4. ASSUME NEW m \in Instances, ProcessStops(m) PROVE EmergencyTypeOK'
    BY <1>4, EmergencyFaults DEF ProcessStops, EmFault
<1>5. CASE UNCHANGED emVars
    BY <1>5 DEF emVars
<1> QED BY <1>1, <1>2, <1>3, <1>4, <1>5 DEF EmergencyNext

\* Every reachable state is well typed; in particular a dispatch never uses
\* more than its context.
THEOREM EmergencyTypeCorrect == EmergencySpec => []EmergencyTypeOK
<1> QED BY EmTypeInit, EmTypeStep, PTL DEF EmergencySpec

-------------------------------------------------------------------------------
\* What the lookup and the SMS took of the context, at each stage.
BudgetInv ==
    \A a \in Alerts :
        /\ stage[a] \in {"none", "lookup"} => left[a] = CtxBudget /\ lookup[a] = 0
        /\ stage[a] = "sms" => left[a] + lookup[a] = CtxBudget
        /\ stage[a] = "hook" => left[a] + lookup[a] + HttpTimeout >= CtxBudget
        /\ hook[a] = "expired" => lookup[a] + HttpTimeout >= CtxBudget
        /\ hook[a] # "none" => stage[a] = "done"

\* Who resolved an alert, and what the workers past their UPDATE know.
ResolutionInv ==
    /\ \A a \in Alerts :
          /\ resolvedBy[a] # NoUser <=> row[a] = "resolved"
          /\ stage[a] # "none" => row[a] # "absent"
    /\ \A q \in Resolvers :
          /\ resolver[q].at = "update" => row[resolver[q].alert] # "absent"
          /\ resolver[q].at = "fetch" => row[resolver[q].alert] = "resolved"

EmInv == EmergencyTypeOK /\ BudgetInv /\ ResolutionInv

LEMMA EmInvInit == EmergencyInit => EmInv
BY EmTypeInit, EmergencyTimes
   DEF EmergencyInit, EmInv, BudgetInv, ResolutionInv, Idle

LEMMA EmInvStep == EmInv /\ [EmergencyNext]_emVars => EmInv'
<1> SUFFICES ASSUME EmInv, [EmergencyNext]_emVars PROVE EmInv'
    OBVIOUS
<1>0. EmergencyTypeOK /\ EmergencyTypeOK'
    BY EmTypeStep DEF EmInv
<1> DEFINE Parts == BudgetInv /\ ResolutionInv
<1> SUFFICES Parts'
    BY <1>0 DEF EmInv
<1> USE <1>0, EmergencyTimes
    DEF EmInv, BudgetInv, ResolutionInv, EmergencyTypeOK, alertVars, dispatchVars, Budget
<1>1. ASSUME NEW a \in Alerts, TriggerStep(a) PROVE Parts'
  <2>1. ASSUME NEW u \in Users, NEW m \in Instances, TriggerAlert(m, a, u)
        PROVE  Parts'
      BY <2>1, StageTypes DEF TriggerAlert, InsertAlert
  <2>2. ASSUME NEW u \in Users, TriggerUnacked(a, u) PROVE Parts'
      BY <2>2 DEF TriggerUnacked, InsertAlert
  <2> QED BY <1>1, <2>1, <2>2 DEF TriggerStep
<1>2. ASSUME NEW a \in Alerts, DispatchStep(a) PROVE Parts'
  <2>1. ASSUME NEW t \in Budget, LookupPhone(a, t) PROVE Parts'
      BY <2>1, StageTypes DEF LookupPhone
  <2>2. ASSUME NEW t \in Budget, SendSms(a, t) PROVE Parts'
      BY <2>2, StageTypes DEF SendSms, RequestLimit
  <2>3. CASE SendWebhook(a)
      BY <2>3 DEF SendWebhook
  <2> QED BY <1>2, <2>1, <2>2, <2>3 DEF DispatchStep
<1>3. ASSUME NEW q \in Resolvers, ResolverStep(q) PROVE Parts'
  <2>1. ASSUME NEW a \in Alerts, NEW u \in Users, BeginResolve(q, a, u)
        PROVE  Parts'
      BY <2>1 DEF BeginResolve
  <2>2. CASE ResolveUpdate(q)
    <3>1. resolver[q] \in ResolveStep
        BY <2>2, ResolverShape DEF ResolveUpdate, Idle
    <3> DEFINE a == resolver[q].alert
               u == resolver[q].by
    <3>2. a \in Alerts /\ u \in Users
        BY <3>1 DEF ResolveStep
    <3>3. resolver'[q].at = "fetch" /\ resolver'[q].alert = a
        BY <2>2, <3>1 DEF ResolveUpdate, ResolveStep
    <3>4. \A r \in Resolvers \ {q} : resolver'[r] = resolver[r]
        BY <2>2 DEF ResolveUpdate
    <3>5. row[a] # "absent" /\ row'[a] = "resolved"
        BY <2>2, <3>2 DEF ResolveUpdate, Resolvable
    <3>6. \A b \in Alerts \ {a} : row'[b] = row[b] /\ resolvedBy'[b] = resolvedBy[b]
        BY <2>2, <3>2 DEF ResolveUpdate
    <3>7. resolvedBy'[a] # NoUser
        BY <2>2, <3>2, EmergencyUsers DEF ResolveUpdate, Resolvable
    <3>8. BudgetInv'
        BY <2>2 DEF ResolveUpdate
    <3>9. stage' = stage
        BY <2>2 DEF ResolveUpdate
    <3>10. ASSUME NEW r \in Resolvers \ {q}, resolver[r].at \in {"update", "fetch"}
           PROVE  resolver[r].alert \in Alerts
        BY <3>10, ResolverShape DEF Idle, ResolveStep
    <3>11. \A b \in Alerts :
              /\ resolvedBy'[b] # NoUser <=> row'[b] = "resolved"
              /\ stage'[b] # "none" => row'[b] # "absent"
        BY <3>2, <3>5, <3>6, <3>7, <3>9
    <3>12. ASSUME NEW r \in Resolvers
           PROVE  /\ resolver'[r].at = "update" => row'[resolver'[r].alert] # "absent"
                  /\ resolver'[r].at = "fetch" => row'[resolver'[r].alert] = "resolved"
        BY <3>2, <3>3, <3>4, <3>5, <3>6, <3>10
    <3>13. ResolutionInv'
        BY <3>11, <3>12
    <3> QED BY <3>8, <3>13
  <2>3. CASE ResolveFetch(q)
      BY <2>3 DEF ResolveFetch, Idle
  <2>4. CASE ResolveFails(q)
      BY <2>4 DEF ResolveFails, Idle
  <2> QED BY <1>3, <2>1, <2>2, <2>3, <2>4 DEF ResolverStep
<1>4. ASSUME NEW m \in Instances, ProcessStops(m) PROVE Parts'
    BY <1>4 DEF ProcessStops, Dispatching
<1>5. CASE UNCHANGED emVars
    BY <1>5 DEF emVars
<1> QED BY <1>1, <1>2, <1>3, <1>4, <1>5 DEF EmergencyNext

THEOREM EmInvariance == EmergencySpec => []EmInv
<1> QED BY EmInvInit, EmInvStep, PTL DEF EmergencySpec

\* A slow or dead Twilio alone never costs the webhook its context, for any
\* two limits with the request's below the context's.
THEOREM WebhookKeepsTime == EmergencySpec => []SlowSmsKeepsWebhook
<1>1. EmInv => SlowSmsKeepsWebhook
    BY EmergencyTimes DEF EmInv, BudgetInv, SlowSmsKeepsWebhook, EmergencyTypeOK, Budget
<1> QED BY <1>1, EmInvariance, PTL

\* Whoever gets to read an alert back in ResolveAlert reads a resolved one.
THEOREM FetchedResolved == EmergencySpec => []FetchedIsResolved
<1>1. EmInv => FetchedIsResolved
    BY DEF EmInv, ResolutionInv, FetchedIsResolved
<1> QED BY <1>1, EmInvariance, PTL

\* The first resolver is recorded for good, for any number of callers.
THEOREM FirstResolverStays == EmergencySpec => ResolvedOnce
<1> DEFINE Kept ==
        \A a \in Alerts :
            resolvedBy[a] # NoUser => resolvedBy'[a] = resolvedBy[a] /\ row'[a] = "resolved"
<1>1. ASSUME EmInv, [EmergencyNext]_emVars PROVE [Kept]_emVars
  <2> USE DEF EmInv, EmergencyTypeOK, ResolutionInv, alertVars, dispatchVars
  <2>1. ASSUME NEW a \in Alerts, TriggerStep(a) PROVE Kept
      BY <1>1, <2>1 DEF TriggerStep, TriggerAlert, TriggerUnacked, InsertAlert
  <2>2. ASSUME NEW a \in Alerts, DispatchStep(a) PROVE Kept
      BY <1>1, <2>2 DEF DispatchStep, LookupPhone, SendSms, SendWebhook
  <2>3. ASSUME NEW q \in Resolvers, ResolverStep(q) PROVE Kept
    <3>1. CASE ResolveUpdate(q)
      <4>1. resolver[q] \in ResolveStep
          BY <1>1, <3>1, ResolverShape DEF ResolveUpdate, Idle
      <4> QED BY <1>1, <3>1, <4>1 DEF ResolveUpdate, Resolvable, ResolveStep
    <3>2. CASE ~ResolveUpdate(q)
        BY <1>1, <2>3, <3>2 DEF ResolverStep, BeginResolve, ResolveFetch, ResolveFails
    <3> QED BY <3>1, <3>2
  <2>4. ASSUME NEW m \in Instances, ProcessStops(m) PROVE Kept
      BY <1>1, <2>4 DEF ProcessStops
  <2> QED BY <1>1, <2>1, <2>2, <2>3, <2>4 DEF EmergencyNext
<1> QED BY <1>1, EmInvariance, PTL DEF EmergencySpec, ResolvedOnce

-------------------------------------------------------------------------------
(***************************************************************************)
(* The dispatch, call by call: what WebhookReached rests on beside the     *)
(* fairness of its goroutine.  A dispatch only goes forward, so it makes   *)
(* three calls at most and each of them once, and its last one is the      *)
(* webhook.                                                                *)
(***************************************************************************)

\* How many calls a dispatch has still to make at most.
CallsLeft(s) ==
    CASE s = "lookup" -> 3
      [] s = "sms" -> 2
      [] s = "hook" -> 1
      [] s \in {"none", "done", "lost"} -> 0

\* A dispatch that is through has called the webhook, if there is one.
ThroughIsNotified ==
    \A a \in Alerts : WebhookConfigured /\ stage[a] = "done" => hook[a] # "none"

\* The only phone that gets a message about an alert is that of its user.
OnlyItsUserTexted == \A a \in Alerts : texted[a] \in {subject[a], NoUser}

\* The message is sent when the dispatch has left the stage of the SMS.
TextedLater ==
    \A a \in Alerts : stage[a] \in {"none", "lookup", "sms"} => texted[a] = NoUser

NoticeInv == ThroughIsNotified /\ OnlyItsUserTexted /\ TextedLater

\* Once an alert's dispatch stands anywhere, every change of its stage leaves
\* fewer calls to make.
DispatchOnlyForward ==
    [][\A a \in Alerts :
          row[a] # "absent" /\ stage'[a] # stage[a] =>
              CallsLeft(stage'[a]) < CallsLeft(stage[a])]_emVars

\* What somebody was told of an alert is told once, and stays.
NoticesStand ==
    [][\A a \in Alerts :
          /\ texted[a] # NoUser => texted'[a] = texted[a]
          /\ hook[a] # "none" => hook'[a] = hook[a]]_emVars

LEMMA NoticeStep == EmInv /\ NoticeInv /\ [EmergencyNext]_emVars => NoticeInv'
<1> SUFFICES ASSUME EmInv, NoticeInv, [EmergencyNext]_emVars PROVE NoticeInv'
    OBVIOUS
<1> USE DEF EmInv, EmergencyTypeOK, NoticeInv, ThroughIsNotified, OnlyItsUserTexted, TextedLater,
            alertVars, dispatchVars
<1>1. ASSUME NEW a \in Alerts, TriggerStep(a) PROVE NoticeInv'
  <2>1. stage[a] = "none"
      BY <1>1 DEF TriggerStep, TriggerAlert, TriggerUnacked, InsertAlert, ResolutionInv
  <2>2. FirstStage = "done" => ~WebhookConfigured
      BY DEF FirstStage, AfterSms
  <2> QED BY <1>1, <2>1, <2>2 DEF TriggerStep, TriggerAlert, TriggerUnacked, InsertAlert
<1>2. ASSUME NEW a \in Alerts, DispatchStep(a) PROVE NoticeInv'
  <2>1. AfterSms \in {"hook", "done"} /\ (AfterSms = "done" => ~WebhookConfigured)
      BY DEF AfterSms
  <2>2. ASSUME NEW t \in Budget, LookupPhone(a, t) PROVE NoticeInv'
      BY <2>1, <2>2 DEF LookupPhone
  <2>3. ASSUME NEW t \in Budget, SendSms(a, t) PROVE NoticeInv'
      BY <2>1, <2>3 DEF SendSms
  <2>4. CASE SendWebhook(a)
      BY <2>4 DEF SendWebhook
  <2> QED BY <1>2, <2>2, <2>3, <2>4 DEF DispatchStep
<1>3. ASSUME NEW q \in Resolvers, ResolverStep(q) PROVE NoticeInv'
    BY <1>3 DEF ResolverStep, BeginResolve, ResolveUpdate, ResolveFetch, ResolveFails
<1>4. ASSUME NEW m \in Instances, ProcessStops(m) PROVE NoticeInv'
    BY <1>4 DEF ProcessStops, Dispatching
<1>5. CASE UNCHANGED emVars
    BY <1>5 DEF emVars
<1> QED BY <1>1, <1>2, <1>3, <1>4, <1>5 DEF EmergencyNext

LEMMA NoticeInvariance == EmergencySpec => []NoticeInv
<1>1. EmergencyInit => NoticeInv
    BY DEF EmergencyInit, NoticeInv, ThroughIsNotified, OnlyItsUserTexted, TextedLater
<1> QED BY <1>1, NoticeStep, EmInvariance, PTL DEF EmergencySpec

\* However the lookup and Twilio fail, a dispatch does not end before the webhook
\* was called: only the end of its process keeps an alert from it
\* (emergency.go:126-142).
THEOREM NoDispatchWithoutWebhook == EmergencySpec => []ThroughIsNotified
<1>1. NoticeInv => ThroughIsNotified
    BY DEF NoticeInv
<1> QED BY <1>1, NoticeInvariance, PTL

\* No alert is texted to anybody else's phone, whoever triggered it and however
\* many dispatches run at a time (emergency.go:131-135, :144-148).
THEOREM RightPhone == EmergencySpec => []OnlyItsUserTexted
<1>1. NoticeInv => OnlyItsUserTexted
    BY DEF NoticeInv
<1> QED BY <1>1, NoticeInvariance, PTL

\* Every step of a dispatch brings it closer to its end: with the fairness of its
\* goroutine, which is TLC's part, it ends.
LEMMA DispatchDescends ==
    ASSUME EmInv, NEW a \in Alerts, DispatchStep(a)
    PROVE  CallsLeft(stage'[a]) < CallsLeft(stage[a])
<1> USE DEF EmInv, EmergencyTypeOK, CallsLeft
<1>1. AfterSms \in {"hook", "done"}
    BY DEF AfterSms
<1>2. ASSUME NEW t \in Budget, LookupPhone(a, t) PROVE CallsLeft(stage'[a]) < CallsLeft(stage[a])
    BY <1>1, <1>2 DEF LookupPhone
<1>3. ASSUME NEW t \in Budget, SendSms(a, t) PROVE CallsLeft(stage'[a]) < CallsLeft(stage[a])
    BY <1>1, <1>3 DEF SendSms
<1>4. CASE SendWebhook(a)
    BY <1>4 DEF SendWebhook
<1> QED BY <1>2, <1>3, <1>4 DEF DispatchStep

\* No retry, no second goroutine and no resolution sends a dispatch back to a call
\* it has made (emergency.go:65, :126-142).
THEOREM DispatchGoesForward == EmergencySpec => DispatchOnlyForward
<1> DEFINE Forward ==
        \A a \in Alerts :
            row[a] # "absent" /\ stage'[a] # stage[a] =>
                CallsLeft(stage'[a]) < CallsLeft(stage[a])
<1>1. ASSUME EmInv, [EmergencyNext]_emVars PROVE [Forward]_emVars
  <2> USE DEF EmInv, EmergencyTypeOK
  <2>1. ASSUME NEW a \in Alerts, TriggerStep(a) PROVE Forward
      BY <1>1, <2>1 DEF TriggerStep, TriggerAlert, TriggerUnacked, InsertAlert, dispatchVars
  <2>2. ASSUME NEW a \in Alerts, DispatchStep(a) PROVE Forward
    <3>1. \A b \in Alerts \ {a} : stage'[b] = stage[b]
        BY <1>1, <2>2 DEF DispatchStep, LookupPhone, SendSms, SendWebhook
    <3> QED BY <1>1, <2>2, <3>1, DispatchDescends
  <2>3. ASSUME NEW q \in Resolvers, ResolverStep(q) PROVE Forward
      BY <2>3 DEF ResolverStep, BeginResolve, ResolveUpdate, ResolveFetch, ResolveFails, dispatchVars
  <2>4. ASSUME NEW m \in Instances, ProcessStops(m) PROVE Forward
      BY <1>1, <2>4 DEF ProcessStops, Dispatching, CallsLeft
  <2> QED BY <1>1, <2>1, <2>2, <2>3, <2>4 DEF EmergencyNext
<1> QED BY <1>1, EmInvariance, PTL DEF EmergencySpec, DispatchOnlyForward

\* A user gets one message at most about an alert and the webhook is called once,
\* whatever fails, stops or is resolved meanwhile (emergency.go:126-142).
THEOREM ToldOnce == EmergencySpec => NoticesStand
<1> DEFINE Stand ==
        \A a \in Alerts :
            /\ texted[a] # NoUser => texted'[a] = texted[a]
            /\ hook[a] # "none" => hook'[a] = hook[a]
<1>1. ASSUME EmInv, NoticeInv, [EmergencyNext]_emVars PROVE [Stand]_emVars
  <2> USE DEF EmInv, EmergencyTypeOK
  <2>1. ASSUME NEW a \in Alerts, TriggerStep(a) PROVE Stand
      BY <2>1 DEF TriggerStep, TriggerAlert, TriggerUnacked, dispatchVars
  <2>2. ASSUME NEW a \in Alerts, DispatchStep(a) PROVE Stand
      BY <1>1, <2>2 DEF DispatchStep, LookupPhone, SendSms, SendWebhook, BudgetInv, NoticeInv,
                        TextedLater
  <2>3. ASSUME NEW q \in Resolvers, ResolverStep(q) PROVE Stand
      BY <2>3 DEF ResolverStep, BeginResolve, ResolveUpdate, ResolveFetch, ResolveFails, dispatchVars
  <2>4. ASSUME NEW m \in Instances, ProcessStops(m) PROVE Stand
      BY <2>4 DEF ProcessStops
  <2> QED BY <1>1, <2>1, <2>2, <2>3, <2>4 DEF EmergencyNext
<1> QED BY <1>1, EmInvariance, NoticeInvariance, PTL DEF EmergencySpec, NoticesStand
===============================================================================
