------------------------------- MODULE SafetyNet -------------------------------
(***************************************************************************)
(* The safety net of the Go process: the check-in monitor (CheckIns) that  *)
(* raises its alerts through the emergency service (Emergency), as main.go *)
(* wires them.  The monitor's call of TriggerAlert is one step of both; a  *)
(* user's SOS button calls it too; a process that stops takes its monitor  *)
(* loop and its dispatch goroutines with it.                               *)
(***************************************************************************)
EXTENDS CheckIns

CONSTANTS Alerts, Resolvers, TwilioConfigured, WebhookConfigured, CtxBudget, HttpTimeout,
          Button,     \* the cause of an alert a user raised herself
          ButtonIds   \* bound: the ids left to such alerts, the others are the monitors'

ASSUME ButtonAssumption == Button \notin CheckInIds \X Instances /\ ButtonIds \subseteq Alerts
ASSUME InstancesAssumption == IsFiniteSet(Instances)
ASSUME DispatchAssumption ==
    /\ TwilioConfigured \in BOOLEAN /\ WebhookConfigured \in BOOLEAN
    /\ CtxBudget \in Nat /\ HttpTimeout \in Nat /\ HttpTimeout < CtxBudget

VARIABLES row, subject, resolvedBy, host, stage, left, lookup, texted, hook,
          resolver, ecFaults,
          cause      \* history: the check-in and the process an alert was raised for and by

E == INSTANCE Emergency

emVars == <<row, subject, resolvedBy, host, stage, left, lookup, texted, hook,
            resolver, ecFaults>>
netVars == <<vars, emVars, cause>>

NetInit == Init /\ E!EmergencyInit /\ cause = [a \in Alerts |-> Button]

\* Mutant of MonitorAlert: it passes the check-in on, not its user.
MonitorAlertAnyUser(m, c, a) ==
    /\ RaiseAlert(m, c)
    /\ \E u \in Users : E!TriggerAlert(m, a, u)
    /\ cause' = [cause EXCEPT ![a] = <<c, m>>]

\* The monitor raises an alert for the user of the row in its hand.
MonitorAlert(m, c, a) ==
    /\ RaiseAlert(m, c)
    /\ E!TriggerAlert(m, a, owner[c])
    /\ cause' = [cause EXCEPT ![a] = <<c, m>>]

\* TriggerAlert fails in the monitor: nothing is inserted, or a row is
\* inserted that nobody dispatches.
MonitorAlertFails(m) ==
    /\ RaiseAlertFails(m)
    /\ \/ UNCHANGED <<emVars, cause>>
       \/ \E a \in Alerts \ ButtonIds, c \in inHand[m] :
             E!TriggerUnacked(a, owner[c]) /\ cause' = [cause EXCEPT ![a] = <<c, m>>]

\* A user raises an alert herself.
ButtonAlert(a, u) ==
    /\ (\E m \in Instances : E!TriggerAlert(m, a, u)) \/ E!TriggerUnacked(a, u)
    /\ UNCHANGED <<vars, cause>>

\* A process stops, in the middle of whatever its goroutines were doing.
Stop(m) ==
    /\ \/ Crash(m) /\ E!ProcessStops(m)
       \/ /\ Crash(m)
          /\ \A a \in Alerts : host[a] = m => ~E!Dispatching(a)
          /\ UNCHANGED emVars
       \/ pc[m] = "idle" /\ E!ProcessStops(m) /\ UNCHANGED vars
    /\ UNCHANGED cause

\* Steps of one component alone.
MonitorAlone(m) ==
    \/ Tick(m)
    \/ \E c \in CheckInIds : NextRow(m, c) \/ MarkMissed(m, c)
    \/ LoopEnds(m)

FaultAlone(m) ==
    \/ MarkMissedFails(m)
    \/ \E c \in CheckInIds : MarkMissedUnacked(m, c)
    \/ StreamBreaks(m)

CheckInsAlone ==
    /\ \/ \E q \in Requests : WorkerStep(q)
       \/ \E m \in Instances : FaultAlone(m)
       \/ AdvanceClock
    /\ UNCHANGED <<emVars, cause>>

NetMonitorStep(m) ==
    \/ MonitorAlone(m) /\ UNCHANGED <<emVars, cause>>
    \/ \E c \in CheckInIds, a \in Alerts \ ButtonIds : MonitorAlert(m, c, a)

NetStreamStep(m) == StreamStep(m) /\ UNCHANGED <<emVars, cause>>

NetDispatchStep(a) == E!DispatchStep(a) /\ UNCHANGED <<vars, cause>>

NetResolverStep(q) == E!ResolverStep(q) /\ UNCHANGED <<vars, cause>>

NetNext ==
    \/ CheckInsAlone
    \/ \E m \in Instances :
          \/ NetMonitorStep(m)
          \/ NetStreamStep(m)
          \/ MonitorAlertFails(m)
          \/ Stop(m)
    \/ \E a \in Alerts : NetDispatchStep(a)
    \/ \E a \in ButtonIds, u \in Users : ButtonAlert(a, u)
    \/ \E q \in Resolvers : NetResolverStep(q)

NetSpec == NetInit /\ [][NetNext]_netVars

\* The goroutines and the database go on; see CheckIns and Emergency.
NetFairness ==
    /\ \A m \in Instances : WF_netVars(NetMonitorStep(m)) /\ WF_netVars(NetStreamStep(m))
    /\ \A a \in Alerts : WF_netVars(NetDispatchStep(a))

NetFairSpec == NetSpec /\ NetFairness

-------------------------------------------------------------------------------
(***************************************************************************)
(* Properties.                                                             *)
(***************************************************************************)

\* The alerts of a check-in.
AlertsOf(c) == {a \in Alerts : row[a] # "absent" /\ \E m \in Instances : cause[a] = <<c, m>>}

\* An alert of the monitor names the user whose check-in was missed, and the
\* check-in is overdue and no longer pending when anybody can see the alert.
AlertMatchesCheckIn ==
    \A c \in CheckInIds : \A a \in AlertsOf(c) :
        /\ subject[a] = owner[c]
        /\ due[c] < now
        /\ status[c] \in {"missed", "completed"}

\* A check-in leads to at most one row of emergency_alerts per process, even
\* when the INSERT of the alert was not acknowledged.
OneAlertRowPerProcess ==
    \A c \in CheckInIds : Cardinality(AlertsOf(c)) <= Cardinality(Instances)

\* The check-ins whose time is over, and the check-ins and processes of the
\* alert rows there are.
Late == {c \in CheckInIds : status[c] # "absent" /\ due[c] < now}
Alerted == {p \in CheckInIds \X Instances : \E a \in Alerts : row[a] # "absent" /\ cause[a] = p}

Promise == INSTANCE SafetyPromise WITH
    life <- status, late <- Late, safe <- ontime, alerts <- Alerted

\* Over the rows of check_ins and emergency_alerts the whole process does what
\* SafetyPromise says and nothing else, through lost acknowledgements, broken
\* streams and crashes (checkin.go:57-82, :152-191; emergency.go:50-65).
ImplementsPromise == Promise!Spec

\* As long as nothing failed, nobody falls through between the two tables and the
\* goroutines: a missed check-in has a monitor about to raise its alert, or an alert
\* of its own whose dispatch is under way or has called the webhook
\* (checkin.go:171-186, emergency.go:50-65, :118-168).
NobodyFallsThrough ==
    WebhookConfigured /\ faults + ecFaults = 0 =>
        \A c \in CheckInIds : status[c] = "missed" =>
            \/ AboutToAlert(c)
            \/ \E a \in AlertsOf(c) : E!Dispatching(a) \/ hook[a] # "none"

\* Unless something fails, an overdue check-in is completed after all or
\* reaches the webhook through its own alert: the whole chain from the
\* monitor's tick to the notification (README.md:164-165).
OverdueNotified ==
    \A c \in CheckInIds :
        Overdue(c) ~> \/ status[c] = "completed"
                      \/ \E a \in AlertsOf(c) : hook[a] # "none"
                      \/ faults + ecFaults > 0
===============================================================================
