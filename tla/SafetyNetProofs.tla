---------------------------- MODULE SafetyNetProofs ----------------------------
(***************************************************************************)
(* Safety of the check-in service and of the safety net around it, for     *)
(* every value of their constants.                                         *)
(*                                                                         *)
(* The check-in service: a row the monitor holds (still in its snapshot,   *)
(* sent, or in the loop's hand) was pending and overdue when the snapshot  *)
(* was taken.  Time only grows and scheduled_at of an existing row never   *)
(* changes, so a held row stays overdue, and a completion of an overdue    *)
(* row is not on time.  A row whose alert this monitor raised is decided,  *)
(* is never pending again and so never enters another snapshot of it.      *)
(*                                                                         *)
(* The safety net: each of its steps is a step of the check-in service or  *)
(* leaves it alone, so its invariant holds here too; on top of it, an      *)
(* alert row of a monitor belongs to its check-in, which that monitor no   *)
(* longer holds and never holds again.                                     *)
(*                                                                         *)
(* A check-in that is missed leaves the hands of its monitor with an alert *)
(* or by a failure; without one, the alert and its dispatch follow.        *)
(*                                                                         *)
(* From the two invariants follows that the rows of the whole process do   *)
(* what SafetyPromise says, and that the emergency service inside it is the*)
(* one of Emergency, whose theorems hold here too.                         *)
(***************************************************************************)
EXTENDS SafetyNet, FiniteSetTheorems, TLAPS

Held(m) == snap[m] \cup sent[m] \cup inHand[m]

\* The loop: a row is in one place, and an idle monitor holds nothing.
LoopInv ==
    \A m \in Instances :
        /\ snap[m] \cap sent[m] = {}
        /\ inHand[m] \cap (snap[m] \cup sent[m]) = {}
        /\ \A c, d \in inHand[m] : c = d
        /\ pc[m] \in {"idle", "next"} => inHand[m] = {}
        /\ pc[m] = "idle" => snap[m] = {} /\ sent[m] = {}

\* A worker about to insert has an id of its own, one about to update has
\* seen a row.
WorkerInv ==
    \A q \in Requests :
        /\ req[q].at = "insert" =>
              /\ status[req[q].id] = "absent"
              /\ \A r \in Requests \ {q} : req[r].at = "insert" => req[r].id # req[q].id
        /\ req[q].at = "update" => status[req[q].id] # "absent"

\* What the monitor holds is overdue for good.
HeldInv ==
    \A m \in Instances : \A c \in Held(m) :
        status[c] # "absent" /\ due[c] < now /\ c \notin ontime

\* A row whose alert is next has been decided.
MarkedInv ==
    \A m \in Instances :
        pc[m] = "alert" => \A c \in inHand[m] : status[c] \in {"missed", "completed"}

\* What this monitor raised an alert for is behind it.
RaisedInv ==
    \A m \in Instances, c \in CheckInIds :
        /\ raised[m][c] <= 1
        /\ raised[m][c] > 0 =>
              /\ status[c] \in {"missed", "completed"}
              /\ due[c] < now
              /\ c \notin ontime
              /\ c \notin Held(m)

OntimeInv == \A c \in ontime : status[c] = "completed"

IInv ==
    /\ CheckInsTypeOK
    /\ LoopInv /\ WorkerInv /\ HeldInv /\ MarkedInv /\ RaisedInv /\ OntimeInv

-------------------------------------------------------------------------------
(***************************************************************************)
(* Type correctness.                                                       *)
(***************************************************************************)

\* The label of a worker tells the shape of its record (the two operations of
\* checkin.go a worker can be inside).
LEMMA WorkerShape ==
    ASSUME CheckInsTypeOK, NEW q \in Requests
    PROVE  /\ req[q].at \in {"idle", "insert", "update"}
           /\ req[q].at = "idle" => req[q] = Idle
           /\ req[q].at = "insert" => req[q] \in InsertStep
           /\ req[q].at = "update" => req[q] \in UpdateStep
BY DEF CheckInsTypeOK, Idle, InsertStep, UpdateStep

LEMMA TypeInit == Init => CheckInsTypeOK
BY BoundsAssumption DEF Init, CheckInsTypeOK

\* Every step of workers, monitors and faults keeps the columns of check_ins
\* and the program counters within their types.
LEMMA TypeStep == CheckInsTypeOK /\ [Next]_vars => CheckInsTypeOK'
<1> SUFFICES ASSUME CheckInsTypeOK, [Next]_vars PROVE CheckInsTypeOK'
    OBVIOUS
<1> USE DEF CheckInsTypeOK, rowVars, monVars
<1>1. ASSUME NEW q \in Requests, WorkerStep(q) PROVE CheckInsTypeOK'
  <2>1. ASSUME NEW c \in CheckInIds, NEW u \in Users, NEW d \in 0..MaxTime,
               BeginSchedule(q, c, u, d)
        PROVE  CheckInsTypeOK'
      BY <2>1 DEF BeginSchedule, InsertStep
  <2>2. CASE InsertCheckIn(q)
      BY <2>2, WorkerShape DEF InsertCheckIn, InsertStep
  <2>3. ASSUME NEW c \in CheckInIds, NEW u \in Users, SelectForUpdate(q, c, u)
        PROVE  CheckInsTypeOK'
      BY <2>3 DEF SelectForUpdate, UpdateStep
  <2>4. CASE CompleteUpdate(q)
      BY <2>4, WorkerShape DEF CompleteUpdate, UpdateStep
  <2>5. CASE RequestFails(q)
      BY <2>5 DEF RequestFails
  <2> QED BY <1>1, <2>1, <2>2, <2>3, <2>4, <2>5 DEF WorkerStep
<1>2. ASSUME NEW m \in Instances, StreamStep(m) PROVE CheckInsTypeOK'
  <2>1. ASSUME NEW c \in CheckInIds, LockRow(m, c) PROVE CheckInsTypeOK'
      BY <2>1 DEF LockRow
  <2>2. ASSUME NEW c \in CheckInIds, SkipRow(m, c) PROVE CheckInsTypeOK'
      BY <2>2 DEF SkipRow
  <2>3. CASE EndStream(m)
      BY <2>3 DEF EndStream
  <2> QED BY <1>2, <2>1, <2>2, <2>3 DEF StreamStep
<1>3. ASSUME NEW m \in Instances, MonitorStep(m) PROVE CheckInsTypeOK'
  <2>1. CASE Tick(m)
      BY <2>1 DEF Tick, OverdueRows
  <2>2. ASSUME NEW c \in CheckInIds, NextRow(m, c) PROVE CheckInsTypeOK'
      BY <2>2 DEF NextRow
  <2>3. ASSUME NEW c \in CheckInIds, MarkMissed(m, c) PROVE CheckInsTypeOK'
      BY <2>3 DEF MarkMissed
  <2>4. ASSUME NEW c \in CheckInIds, RaiseAlert(m, c) PROVE CheckInsTypeOK'
      BY <2>4 DEF RaiseAlert
  <2>5. CASE LoopEnds(m)
      BY <2>5 DEF LoopEnds
  <2> QED BY <1>3, <2>1, <2>2, <2>3, <2>4, <2>5 DEF MonitorStep
<1>4. ASSUME NEW m \in Instances, FaultStep(m) PROVE CheckInsTypeOK'
  <2>0. Fault => faults' \in 0..MaxFaults
      BY BoundsAssumption DEF Fault
  <2>1. CASE MarkMissedFails(m)
      BY <2>0, <2>1 DEF MarkMissedFails
  <2>2. ASSUME NEW c \in CheckInIds, MarkMissedUnacked(m, c) PROVE CheckInsTypeOK'
      BY <2>0, <2>2 DEF MarkMissedUnacked
  <2>3. CASE RaiseAlertFails(m)
      BY <2>0, <2>3 DEF RaiseAlertFails
  <2>4. CASE StreamBreaks(m)
      BY <2>0, <2>4 DEF StreamBreaks
  <2>5. CASE Crash(m)
      BY <2>0, <2>5 DEF Crash
  <2> QED BY <1>4, <2>1, <2>2, <2>3, <2>4, <2>5 DEF FaultStep
<1>5. CASE AdvanceClock
    BY <1>5, BoundsAssumption DEF AdvanceClock
<1>6. CASE UNCHANGED vars
    BY <1>6 DEF vars
<1> QED BY <1>1, <1>2, <1>3, <1>4, <1>5, <1>6 DEF Next

\* Every reachable state of the service is well typed: statuses are the four
\* the table knows, and whatever a monitor holds is a check-in.
THEOREM TypeCorrect == Spec => []CheckInsTypeOK
<1>1. Init => CheckInsTypeOK
    BY TypeInit
<1>2. CheckInsTypeOK /\ [Next]_vars => CheckInsTypeOK'
    BY TypeStep
<1> QED BY <1>1, <1>2, PTL DEF Spec

-------------------------------------------------------------------------------
(***************************************************************************)
(* The inductive invariant.                                                *)
(***************************************************************************)

LEMMA InvInit == Init => IInv
BY TypeInit DEF Init, IInv, LoopInv, WorkerInv, HeldInv, Held, MarkedInv, RaisedInv,
    OntimeInv, Idle

\* Every step keeps the six parts of IInv; the type invariant is TypeStep's.
LEMMA InvStep == IInv /\ [Next]_vars => IInv'
<1> SUFFICES ASSUME IInv, [Next]_vars PROVE IInv'
    OBVIOUS
<1> DEFINE Parts == LoopInv /\ WorkerInv /\ HeldInv /\ MarkedInv /\ RaisedInv /\ OntimeInv
<1>0. CheckInsTypeOK /\ CheckInsTypeOK'
    BY TypeStep DEF IInv
<1> SUFFICES Parts'
    BY <1>0 DEF IInv
<1> USE <1>0 DEF IInv, LoopInv, WorkerInv, HeldInv, Held, MarkedInv, RaisedInv, OntimeInv,
        rowVars, monVars
<1>1. ASSUME NEW q \in Requests, WorkerStep(q) PROVE Parts'
  <2>1. ASSUME NEW c \in CheckInIds, NEW u \in Users, NEW d \in 0..MaxTime,
               BeginSchedule(q, c, u, d)
        PROVE  Parts'
      BY <2>1, WorkerShape DEF BeginSchedule, Fresh, CheckInsTypeOK
  <2>2. CASE InsertCheckIn(q)
      BY <2>2, WorkerShape DEF InsertCheckIn, InsertStep, CheckInsTypeOK, Idle
  <2>3. ASSUME NEW c \in CheckInIds, NEW u \in Users, SelectForUpdate(q, c, u)
        PROVE  Parts'
      BY <2>3 DEF SelectForUpdate, CheckInsTypeOK
  <2>4. CASE CompleteUpdate(q)
      BY <2>4, WorkerShape DEF CompleteUpdate, UpdateStep, CheckInsTypeOK, Idle
  <2>5. CASE RequestFails(q)
      BY <2>5 DEF RequestFails, Idle, CheckInsTypeOK
  <2> QED BY <1>1, <2>1, <2>2, <2>3, <2>4, <2>5 DEF WorkerStep
<1>2. ASSUME NEW m \in Instances, StreamStep(m) PROVE Parts'
  <2>1. ASSUME NEW c \in CheckInIds, LockRow(m, c) PROVE Parts'
      BY <2>1 DEF LockRow, CheckInsTypeOK
  <2>2. ASSUME NEW c \in CheckInIds, SkipRow(m, c) PROVE Parts'
      BY <2>2 DEF SkipRow, CheckInsTypeOK
  <2>3. CASE EndStream(m)
      BY <2>3 DEF EndStream, CheckInsTypeOK
  <2> QED BY <1>2, <2>1, <2>2, <2>3 DEF StreamStep
<1>3. ASSUME NEW m \in Instances, MonitorStep(m) PROVE Parts'
  <2>1. CASE Tick(m)
      BY <2>1 DEF Tick, OverdueRows, Overdue, CheckInsTypeOK
  <2>2. ASSUME NEW c \in CheckInIds, NextRow(m, c) PROVE Parts'
      BY <2>2 DEF NextRow, CheckInsTypeOK
  <2>3. ASSUME NEW c \in CheckInIds, MarkMissed(m, c) PROVE Parts'
      BY <2>3 DEF MarkMissed, CheckInsTypeOK
  <2>4. ASSUME NEW c \in CheckInIds, RaiseAlert(m, c) PROVE Parts'
      BY <2>4 DEF RaiseAlert, CheckInsTypeOK
  <2>5. CASE LoopEnds(m)
      BY <2>5 DEF LoopEnds, CheckInsTypeOK
  <2> QED BY <1>3, <2>1, <2>2, <2>3, <2>4, <2>5 DEF MonitorStep
<1>4. ASSUME NEW m \in Instances, FaultStep(m) PROVE Parts'
  <2>1. CASE MarkMissedFails(m)
      BY <2>1 DEF MarkMissedFails, CheckInsTypeOK
  <2>2. ASSUME NEW c \in CheckInIds, MarkMissedUnacked(m, c) PROVE Parts'
      BY <2>2 DEF MarkMissedUnacked, CheckInsTypeOK
  <2>3. CASE RaiseAlertFails(m)
      BY <2>3 DEF RaiseAlertFails, CheckInsTypeOK
  <2>4. CASE StreamBreaks(m)
      BY <2>4 DEF StreamBreaks, CheckInsTypeOK
  <2>5. CASE Crash(m)
      BY <2>5 DEF Crash, CheckInsTypeOK
  <2> QED BY <1>4, <2>1, <2>2, <2>3, <2>4, <2>5 DEF FaultStep
<1>5. CASE AdvanceClock
    BY <1>5 DEF AdvanceClock, CheckInsTypeOK
<1>6. CASE UNCHANGED vars
    BY <1>6 DEF vars
<1> QED BY <1>1, <1>2, <1>3, <1>4, <1>5, <1>6 DEF Next

THEOREM Invariance == Spec => []IInv
<1>1. Init => IInv
    BY InvInit
<1>2. IInv /\ [Next]_vars => IInv'
    BY InvStep
<1> QED BY <1>1, <1>2, PTL DEF Spec

\* A check-in completed in time stays completed and never alarms anybody, for
\* any number of processes, workers, check-ins and failures.
THEOREM OnTimeFinal == Spec => []OnTimeCompletionIsFinal
<1>1. IInv => OnTimeCompletionIsFinal
    BY DEF IInv, OntimeInv, RaisedInv, OnTimeCompletionIsFinal, CheckInsTypeOK
<1> QED BY <1>1, Invariance, PTL

\* A process raises at most one alert for a check-in, whatever fails.
THEOREM OneAlert == Spec => []AtMostOneAlertPerInstance
<1>1. IInv => AtMostOneAlertPerInstance
    BY DEF IInv, RaisedInv, AtMostOneAlertPerInstance
<1> QED BY <1>1, Invariance, PTL

\* Every alert of a monitor is for a check-in that is overdue and decided.
THEOREM OnlyOverdueAlerts == Spec => []AlertsOnlyOverdue
<1>1. IInv => AlertsOnlyOverdue
    BY DEF IInv, RaisedInv, AlertsOnlyOverdue
<1> QED BY <1>1, Invariance, PTL

\* A step of the composition is one of the check-in service, or none.
LEMMA NetStepIsStep == NetNext => Next \/ UNCHANGED vars
<1> SUFFICES ASSUME NetNext PROVE Next \/ UNCHANGED vars
    OBVIOUS
<1>1. CASE CheckInsAlone
    BY <1>1 DEF CheckInsAlone, FaultAlone, FaultStep, Next
<1>2. ASSUME NEW m \in Instances, NetMonitorStep(m) PROVE Next
    BY <1>2 DEF NetMonitorStep, MonitorAlone, MonitorAlert, MonitorStep, Next
<1>3. ASSUME NEW m \in Instances, NetStreamStep(m) PROVE Next
    BY <1>3 DEF NetStreamStep, Next
<1>4. ASSUME NEW m \in Instances, MonitorAlertFails(m) PROVE Next
    BY <1>4 DEF MonitorAlertFails, FaultStep, Next
<1>5. ASSUME NEW m \in Instances, Stop(m) PROVE Next \/ UNCHANGED vars
    BY <1>5 DEF Stop, FaultStep, Next
<1>6. ASSUME NEW a \in Alerts, NetDispatchStep(a) PROVE UNCHANGED vars
    BY <1>6 DEF NetDispatchStep
<1>7. ASSUME NEW a \in ButtonIds, NEW u \in Users, ButtonAlert(a, u) PROVE UNCHANGED vars
    BY <1>7 DEF ButtonAlert
<1>8. ASSUME NEW q \in Resolvers, NetResolverStep(q) PROVE UNCHANGED vars
    BY <1>8 DEF NetResolverStep
<1> QED BY <1>1, <1>2, <1>3, <1>4, <1>5, <1>6, <1>7, <1>8 DEF NetNext

\* The check-in service inside the process is the one specified alone.
THEOREM NetImplementsCheckIns == NetSpec => Spec
<1>1. NetInit => Init
    BY DEF NetInit
<1>2. [NetNext]_netVars => [Next]_vars
    BY NetStepIsStep DEF netVars
<1> QED BY <1>1, <1>2, PTL DEF NetSpec, Spec

-------------------------------------------------------------------------------
\* The columns of emergency_alerts the link below is about.
LinkTypes ==
    /\ row \in [Alerts -> {"absent", "active", "resolved"}]
    /\ subject \in [Alerts -> Users \cup {NoUser}]
    /\ cause \in [Alerts -> (CheckInIds \X Instances) \cup {Button}]

\* A check-in that is overdue and decided, which it stays, and which monitor m
\* is done with.
Behind(c, m) ==
    /\ due[c] < now
    /\ status[c] \in {"missed", "completed"}
    /\ c \notin ontime
    /\ c \notin Held(m)

\* An alert a monitor raised for a check-in is the alert of its user, and that
\* monitor is done with it.
LinkInv ==
    \A a \in Alerts :
        /\ row[a] = "absent" => cause[a] = Button
        /\ \A c \in CheckInIds, m \in Instances :
              cause[a] = <<c, m>> => subject[a] = owner[c] /\ Behind(c, m)

\* A monitor raises one alert for a check-in.
OnceInv ==
    \A c \in CheckInIds, m \in Instances, a, b \in Alerts :
        cause[a] = <<c, m>> /\ cause[b] = <<c, m>> => a = b

NetInv == IInv /\ LinkTypes /\ LinkInv /\ OnceInv

\* A check-in a monitor is done with stays so under every step of CheckIns,
\* and keeps its owner.
LEMMA BehindStays ==
    ASSUME IInv, [Next]_vars, NEW c \in CheckInIds, NEW m \in Instances, Behind(c, m)
    PROVE  Behind(c, m)' /\ owner'[c] = owner[c]
<1> USE DEF IInv, CheckInsTypeOK, WorkerInv, LoopInv, Behind, Held, rowVars, monVars
<1>1. ASSUME NEW q \in Requests, WorkerStep(q)
      PROVE  Behind(c, m)' /\ owner'[c] = owner[c]
  <2>1. CASE InsertCheckIn(q)
      BY <2>1, WorkerShape DEF InsertCheckIn, InsertStep
  <2>2. CASE CompleteUpdate(q)
      BY <2>2, WorkerShape DEF CompleteUpdate, UpdateStep
  <2>3. CASE ~InsertCheckIn(q) /\ ~CompleteUpdate(q)
      BY <1>1, <2>3 DEF WorkerStep, BeginSchedule, SelectForUpdate, RequestFails
  <2> QED BY <2>1, <2>2, <2>3
<1>2. ASSUME NEW n \in Instances, StreamStep(n)
      PROVE  Behind(c, m)' /\ owner'[c] = owner[c]
  <2>1. ASSUME NEW d \in CheckInIds, LockRow(n, d) \/ SkipRow(n, d)
        PROVE  Behind(c, m)' /\ owner'[c] = owner[c]
    <3>1. UNCHANGED <<now, rowVars, ontime, inHand>>
        BY <2>1 DEF LockRow, SkipRow
    <3>2. snap'[m] \cup sent'[m] \subseteq snap[m] \cup sent[m]
        BY <2>1 DEF LockRow, SkipRow
    <3> QED BY <3>1, <3>2
  <2>2. CASE EndStream(n)
      BY <2>2 DEF EndStream
  <2> QED BY <1>2, <2>1, <2>2 DEF StreamStep
<1>3. ASSUME NEW n \in Instances, MonitorStep(n)
      PROVE  Behind(c, m)' /\ owner'[c] = owner[c]
  <2>1. CASE Tick(n)
      BY <2>1 DEF Tick, OverdueRows, Overdue
  <2>2. CASE ~Tick(n)
      BY <1>3, <2>2 DEF MonitorStep, NextRow, MarkMissed, RaiseAlert, LoopEnds
  <2> QED BY <2>1, <2>2
<1>4. ASSUME NEW n \in Instances, FaultStep(n)
      PROVE  Behind(c, m)' /\ owner'[c] = owner[c]
    BY <1>4 DEF FaultStep, MarkMissedFails, MarkMissedUnacked, RaiseAlertFails,
                StreamBreaks, Crash
<1>5. CASE AdvanceClock
    BY <1>5 DEF AdvanceClock
<1>6. CASE UNCHANGED vars
    BY <1>6 DEF vars
<1> QED BY <1>1, <1>2, <1>3, <1>4, <1>5, <1>6 DEF Next

\* When the monitor has raised the alert for the row in its hand, or has
\* failed to, it is done with that row.
LEMMA RaisedIsBehind ==
    ASSUME IInv, NEW m \in Instances, NEW c \in CheckInIds, c \in inHand[m],
           RaiseAlert(m, c) \/ RaiseAlertFails(m)
    PROVE  Behind(c, m)' /\ owner'[c] = owner[c]
<1>1. pc[m] = "alert" /\ inHand' = [inHand EXCEPT ![m] = {}]
    BY DEF RaiseAlert, RaiseAlertFails
<1>2. UNCHANGED <<now, rowVars, snap, sent, ontime>>
    BY DEF RaiseAlert, RaiseAlertFails
<1>3. due[c] < now /\ status[c] \in {"missed", "completed"} /\ c \notin ontime
    BY <1>1 DEF IInv, HeldInv, MarkedInv, Held
<1>4. c \notin Held(m)'
    BY <1>1, <1>2 DEF IInv, LoopInv, CheckInsTypeOK, Held
<1> QED BY <1>2, <1>3, <1>4 DEF Behind, rowVars

LEMMA LinkInit == NetInit => LinkTypes /\ LinkInv /\ OnceInv
<1> SUFFICES ASSUME NetInit PROVE LinkTypes /\ LinkInv /\ OnceInv
    OBVIOUS
<1>1. \A a \in Alerts : cause[a] = Button /\ row[a] = "absent"
    BY DEF NetInit, E!EmergencyInit
<1>2. \A c \in CheckInIds, m \in Instances : Button # <<c, m>>
    BY ButtonAssumption
<1>3. LinkTypes
    BY DEF NetInit, E!EmergencyInit, LinkTypes
<1> QED BY <1>1, <1>2, <1>3 DEF LinkInv, OnceInv

\* Steps that insert no alert keep every alert's subject, cause and existence.
LEMMA NoInsertKeepsLink ==
    ASSUME NetInv, [Next]_vars, subject' = subject, cause' = cause,
           \A a \in Alerts : row'[a] = "absent" => row[a] = "absent"
    PROVE  LinkInv' /\ OnceInv'
<1>1. OnceInv'
    BY DEF NetInv, OnceInv
<1>2. ASSUME NEW a \in Alerts, NEW c \in CheckInIds, NEW m \in Instances,
             cause'[a] = <<c, m>>
      PROVE  subject'[a] = owner'[c] /\ Behind(c, m)'
    BY <1>2, BehindStays DEF NetInv, LinkInv
<1>3. \A a \in Alerts : row'[a] = "absent" => cause'[a] = Button
    BY DEF NetInv, LinkInv
<1> QED BY <1>1, <1>2, <1>3 DEF LinkInv

\* Monitor m inserts the alert x for the row c in its hand.
LEMMA InsertKeepsLink ==
    ASSUME NetInv, [Next]_vars, NEW x \in Alerts,
           NEW c \in CheckInIds, NEW m \in Instances, E!InsertAlert(x, owner[c]),
           c \in inHand[m], RaiseAlert(m, c) \/ RaiseAlertFails(m),
           cause' = [cause EXCEPT ![x] = <<c, m>>]
    PROVE  LinkInv' /\ OnceInv'
<1>1. row'[x] = "active" /\ subject'[x] = owner[c] /\ cause'[x] = <<c, m>>
    BY DEF E!InsertAlert, NetInv, LinkTypes
<1>2. \A a \in Alerts \ {x} : row'[a] = row[a] /\ subject'[a] = subject[a] /\ cause'[a] = cause[a]
    BY DEF E!InsertAlert, NetInv, LinkTypes
<1>3. Behind(c, m)' /\ owner'[c] = owner[c]
    BY RaisedIsBehind DEF NetInv
<1>4. \A a \in Alerts : cause[a] # <<c, m>>
    BY DEF NetInv, LinkInv, Behind, Held
<1>5. ASSUME NEW a \in Alerts, NEW d \in CheckInIds, NEW n \in Instances,
             cause'[a] = <<d, n>>
      PROVE  subject'[a] = owner'[d] /\ Behind(d, n)'
  <2>1. CASE a = x
      BY <1>1, <1>3, <1>5, <2>1
  <2>2. CASE a # x
      BY <1>2, <1>5, <2>2, BehindStays DEF NetInv, LinkInv
  <2> QED BY <2>1, <2>2
<1>6. \A a \in Alerts : row'[a] = "absent" => cause'[a] = Button
    BY <1>1, <1>2 DEF NetInv, LinkInv
<1>7. OnceInv'
  <2> SUFFICES ASSUME NEW d \in CheckInIds, NEW n \in Instances, NEW a \in Alerts,
                      NEW b \in Alerts, cause'[a] = <<d, n>>, cause'[b] = <<d, n>>
               PROVE  a = b
      BY DEF OnceInv
  <2>1. CASE a # x /\ b # x
      BY <1>2, <2>1 DEF NetInv, OnceInv
  <2>2. CASE a = x \/ b = x
      BY <1>1, <1>2, <1>4, <2>2
  <2> QED BY <2>1, <2>2
<1> QED BY <1>5, <1>6, <1>7 DEF LinkInv

\* A TriggerAlert that is not the monitor's: the cause is left as it is.
LEMMA ButtonKeepsLink ==
    ASSUME NetInv, [Next]_vars, NEW x \in Alerts, NEW u, E!InsertAlert(x, u), cause' = cause
    PROVE  LinkInv' /\ OnceInv'
<1>1. cause[x] = Button /\ \A c \in CheckInIds, m \in Instances : Button # <<c, m>>
    BY ButtonAssumption DEF E!InsertAlert, NetInv, LinkInv
<1>2. \A a \in Alerts \ {x} : row'[a] = row[a] /\ subject'[a] = subject[a]
    BY DEF E!InsertAlert, NetInv, LinkTypes
<1>3. ASSUME NEW a \in Alerts, NEW c \in CheckInIds, NEW m \in Instances,
             cause'[a] = <<c, m>>
      PROVE  subject'[a] = owner'[c] /\ Behind(c, m)'
    BY <1>1, <1>2, <1>3, BehindStays DEF NetInv, LinkInv
<1>4. \A a \in Alerts : row'[a] = "absent" => cause'[a] = Button
    BY <1>1, <1>2 DEF NetInv, LinkInv
<1>5. OnceInv'
    BY DEF NetInv, OnceInv
<1> QED BY <1>3, <1>4, <1>5 DEF LinkInv

\* The columns keep their types under an insert.
LEMMA InsertTypes ==
    ASSUME LinkTypes, NEW x \in Alerts, NEW u \in Users \cup {NoUser}, E!InsertAlert(x, u),
           cause' = cause \/ \E b \in CheckInIds \X Instances : cause' = [cause EXCEPT ![x] = b]
    PROVE  LinkTypes'
BY DEF LinkTypes, E!InsertAlert

LEMMA NetInvStep == NetInv /\ [NetNext]_netVars => NetInv'
<1> SUFFICES ASSUME NetInv, [NetNext]_netVars PROVE NetInv'
    OBVIOUS
<1>0. [Next]_vars
    BY NetStepIsStep DEF netVars
<1>1. IInv'
    BY <1>0, InvStep DEF NetInv
<1> DEFINE LinkParts == LinkTypes /\ LinkInv /\ OnceInv
<1> SUFFICES LinkParts'
    BY <1>1 DEF NetInv
<1>2. owner \in [CheckInIds -> Users \cup {NoUser}]
    BY DEF NetInv, IInv, CheckInsTypeOK
\* A step that leaves the alerts and their causes alone.
<1>3. ASSUME UNCHANGED <<row, subject, cause>> PROVE LinkParts'
  <2>1. LinkTypes'
      BY <1>3 DEF NetInv, LinkTypes
  <2> QED BY <1>0, <1>3, <2>1, NoInsertKeepsLink
<1>4. ASSUME NEW m \in Instances, NEW c \in CheckInIds, NEW a \in Alerts,
             E!InsertAlert(a, owner[c]), cause' = [cause EXCEPT ![a] = <<c, m>>],
             c \in inHand[m], RaiseAlert(m, c) \/ RaiseAlertFails(m)
      PROVE  LinkParts'
  <2>1. LinkTypes'
      BY <1>2, <1>4, InsertTypes DEF NetInv
  <2>2. LinkInv' /\ OnceInv'
      BY <1>0, <1>4, InsertKeepsLink
  <2> QED BY <2>1, <2>2
<1>5. CASE CheckInsAlone
    BY <1>3, <1>5 DEF CheckInsAlone, emVars
<1>6. ASSUME NEW m \in Instances, NetMonitorStep(m) PROVE LinkParts'
  <2>1. CASE MonitorAlone(m) /\ UNCHANGED <<emVars, cause>>
      BY <1>3, <2>1 DEF emVars
  <2>2. ASSUME NEW c \in CheckInIds, NEW a \in Alerts \ ButtonIds, MonitorAlert(m, c, a)
        PROVE  LinkParts'
      BY <1>4, <2>2 DEF MonitorAlert, RaiseAlert, E!TriggerAlert
  <2> QED BY <1>6, <2>1, <2>2 DEF NetMonitorStep
<1>7. ASSUME NEW m \in Instances, NetStreamStep(m) PROVE LinkParts'
    BY <1>3, <1>7 DEF NetStreamStep, emVars
<1>8. ASSUME NEW m \in Instances, MonitorAlertFails(m) PROVE LinkParts'
  <2>1. CASE UNCHANGED <<emVars, cause>>
      BY <1>3, <2>1 DEF emVars
  <2>2. ASSUME NEW a \in Alerts \ ButtonIds, NEW c \in inHand[m],
               E!TriggerUnacked(a, owner[c]), cause' = [cause EXCEPT ![a] = <<c, m>>]
        PROVE  LinkParts'
    <3>1. c \in CheckInIds
        BY DEF NetInv, IInv, CheckInsTypeOK
    <3> QED BY <1>4, <1>8, <2>2, <3>1
            DEF MonitorAlertFails, E!TriggerUnacked
  <2> QED BY <1>8, <2>1, <2>2 DEF MonitorAlertFails
<1>9. ASSUME NEW m \in Instances, Stop(m) PROVE LinkParts'
    BY <1>3, <1>9 DEF Stop, emVars, E!ProcessStops, E!alertVars
<1>10. ASSUME NEW a \in Alerts, NetDispatchStep(a) PROVE LinkParts'
    BY <1>3, <1>10 DEF NetDispatchStep, E!DispatchStep, E!LookupPhone, E!SendSms,
                       E!SendWebhook, E!alertVars
<1>11. ASSUME NEW a \in ButtonIds, NEW u \in Users, ButtonAlert(a, u)
       PROVE  LinkParts'
  <2>1. a \in Alerts /\ E!InsertAlert(a, u) /\ cause' = cause
      BY <1>11, ButtonAssumption DEF ButtonAlert, E!TriggerAlert, E!TriggerUnacked
  <2>2. LinkTypes'
      BY <2>1, InsertTypes DEF NetInv
  <2>3. LinkInv' /\ OnceInv'
      BY <1>0, <2>1, ButtonKeepsLink
  <2> QED BY <2>2, <2>3
<1>12. ASSUME NEW q \in Resolvers, NetResolverStep(q) PROVE LinkParts'
  <2>1. subject' = subject /\ cause' = cause
      BY <1>12 DEF NetResolverStep, E!ResolverStep, E!BeginResolve, E!ResolveUpdate,
                   E!ResolveFetch, E!ResolveFails, E!alertVars
  <2>2. /\ row' \in [Alerts -> {"absent", "active", "resolved"}]
        /\ \A a \in Alerts : row'[a] = "absent" <=> row[a] = "absent"
      BY <1>12 DEF NetResolverStep, E!ResolverStep, E!BeginResolve, E!ResolveUpdate,
                   E!ResolveFetch, E!ResolveFails, E!alertVars, E!Resolvable,
                   NetInv, LinkTypes
  <2>3. LinkTypes'
      BY <2>1, <2>2 DEF NetInv, LinkTypes
  <2> QED BY <1>0, <2>1, <2>2, <2>3, NoInsertKeepsLink
<1>13. CASE UNCHANGED netVars
    BY <1>3, <1>13 DEF netVars, emVars
<1> QED BY <1>5, <1>6, <1>7, <1>8, <1>9, <1>10, <1>11, <1>12, <1>13 DEF NetNext

THEOREM NetInvariance == NetSpec => []NetInv
<1>1. NetInit => NetInv
    BY LinkInit, InvInit DEF NetInit, NetInv
<1> QED BY <1>1, NetInvStep, PTL DEF NetSpec

\* Whoever sees an alert of the monitor sees the alert of the user who missed
\* her check-in, for any number of processes and failures.
THEOREM AlertsMatch == NetSpec => []AlertMatchesCheckIn
<1>1. NetInv => AlertMatchesCheckIn
    BY DEF NetInv, LinkInv, Behind, AlertMatchesCheckIn, AlertsOf
<1> QED BY <1>1, NetInvariance, PTL

\* A check-in has at most one alert row per process, however often that process
\* restarts and whatever is not acknowledged: the rows map one to one to the
\* processes that raised them.
THEOREM OneRowPerProcess == NetSpec => []OneAlertRowPerProcess
<1>1. NetInv => OneAlertRowPerProcess
  <2> SUFFICES ASSUME NetInv, NEW c \in CheckInIds
               PROVE  Cardinality(AlertsOf(c)) <= Cardinality(Instances)
      BY DEF OneAlertRowPerProcess
  <2> DEFINE raiser == [a \in AlertsOf(c) |-> CHOOSE m \in Instances : cause[a] = <<c, m>>]
  <2>1. \A a \in AlertsOf(c) : raiser[a] \in Instances /\ cause[a] = <<c, raiser[a]>>
      BY DEF AlertsOf
  <2>2. ASSUME NEW a \in AlertsOf(c), NEW b \in AlertsOf(c), raiser[a] = raiser[b]
        PROVE  a = b
      BY <2>1, <2>2 DEF AlertsOf, NetInv, OnceInv
  <2>3. raiser \in Injection(AlertsOf(c), Instances)
      BY <2>1, <2>2 DEF Injection, IsInjective
  <2> HIDE DEF raiser
  <2> QED BY <2>3, FS_Injection, InstancesAssumption
<1> QED BY <1>1, NetInvariance, PTL

-------------------------------------------------------------------------------
(***************************************************************************)
(* When a monitor can come to wait for itself.  (Late is the set of the    *)
(* check-ins whose time is over.)                                          *)
(***************************************************************************)

\* The rows of check_ins.
Rows == {c \in CheckInIds : status[c] # "absent"}

RowsInv == IsFiniteSet(Rows)

\* The loop's UPDATE waits for a lock of the SELECT whose rows it is reading, and
\* the SELECT cannot send its next row.
WaitsForItself(m) ==
    /\ pc[m] = "update" /\ inHand[m] \cap locked[m] # {}
    /\ snap[m] # {} /\ Cardinality(sent[m]) >= BufRows

\* It takes two check-ins more than the connection holds: the one in hand and one
\* that is still to be sent.
SelfWaitNeedsRows ==
    \A m \in Instances : WaitsForItself(m) => Cardinality(Late) >= BufRows + 2

\* A statement inserts one row at most.
LEMMA RowsGrowByOne ==
    ASSUME IInv, [Next]_vars
    PROVE  \E x : Rows' \subseteq Rows \cup {x}
<1> USE DEF IInv, Rows, CheckInsTypeOK, rowVars, monVars
<1>1. ASSUME NEW q \in Requests, WorkerStep(q) PROVE \E x : Rows' \subseteq Rows \cup {x}
  <2>1. CASE InsertCheckIn(q) \/ CompleteUpdate(q)
    <3>1. PICK s : status' = [status EXCEPT ![req[q].id] = s]
        BY <2>1 DEF InsertCheckIn, CompleteUpdate
    <3>2. Rows' \subseteq Rows \cup {req[q].id}
        BY <3>1
    <3> QED BY <3>2
  <2>2. CASE ~InsertCheckIn(q) /\ ~CompleteUpdate(q)
      BY <1>1, <2>2 DEF WorkerStep, BeginSchedule, SelectForUpdate, RequestFails
  <2> QED BY <2>1, <2>2
<1>2. ASSUME NEW m \in Instances, StreamStep(m) PROVE Rows' = Rows
    BY <1>2 DEF StreamStep, LockRow, SkipRow, EndStream
<1>3. ASSUME NEW m \in Instances, MonitorStep(m) PROVE Rows' \subseteq Rows
    BY <1>3 DEF MonitorStep, Tick, NextRow, MarkMissed, RaiseAlert, LoopEnds, HeldInv, Held
<1>4. ASSUME NEW m \in Instances, FaultStep(m) PROVE Rows' \subseteq Rows
    BY <1>4 DEF FaultStep, MarkMissedFails, MarkMissedUnacked, RaiseAlertFails,
                StreamBreaks, Crash, HeldInv, Held
<1>5. CASE AdvanceClock
    BY <1>5 DEF AdvanceClock
<1>6. CASE UNCHANGED vars
    BY <1>6 DEF vars
<1> QED BY <1>1, <1>2, <1>3, <1>4, <1>5, <1>6 DEF Next

LEMMA RowsInvariance == Spec => []RowsInv
<1>1. Init => RowsInv
  <2>1. Init => Rows = {}
      BY DEF Init, Rows
  <2> QED BY <2>1, FS_EmptySet DEF RowsInv
<1>2. IInv /\ RowsInv /\ [Next]_vars => RowsInv'
  <2> SUFFICES ASSUME IInv, RowsInv, [Next]_vars PROVE IsFiniteSet(Rows')
      BY DEF RowsInv
  <2>1. PICK x : Rows' \subseteq Rows \cup {x}
      BY RowsGrowByOne
  <2>2. IsFiniteSet(Rows \cup {x})
      BY FS_AddElement DEF RowsInv
  <2> QED BY <2>1, <2>2, FS_Subset
<1> QED BY <1>1, <1>2, Invariance, PTL DEF Spec

\* The monitor stops for its own locks only over a backlog of more than BufRows + 1
\* late check-ins, so a service that keeps its backlog below that never does; what
\* CheckInsBigResult shows with three rows and room for one is the least there is
\* (checkin.go:153-172).
THEOREM SelfWaitIsForBacklogs == Spec => []SelfWaitNeedsRows
<1>1. IInv /\ RowsInv => SelfWaitNeedsRows
  <2> SUFFICES ASSUME IInv, RowsInv, NEW m \in Instances, WaitsForItself(m)
               PROVE  Cardinality(Late) >= BufRows + 2
      BY DEF SelfWaitNeedsRows
  <2>1. PICK c : c \in inHand[m]
      BY DEF WaitsForItself
  <2>2. PICK d : d \in snap[m]
      BY DEF WaitsForItself
  <2>3. c # d /\ c \notin sent[m] /\ d \notin sent[m]
      BY <2>1, <2>2 DEF IInv, LoopInv
  <2>4. Held(m) \subseteq Late
      BY DEF IInv, HeldInv, Held, CheckInsTypeOK, Late
  <2>5. IsFiniteSet(Late) /\ IsFiniteSet(sent[m])
    <3>1. Late \subseteq Rows
        BY DEF Late, Rows
    <3>2. sent[m] \subseteq Late
        BY <2>4 DEF Held
    <3> QED BY <3>1, <3>2, FS_Subset DEF RowsInv
  <2>6. IsFiniteSet(sent[m] \cup {c}) /\ Cardinality(sent[m] \cup {c}) = Cardinality(sent[m]) + 1
      BY <2>3, <2>5, FS_AddElement
  <2>7. Cardinality((sent[m] \cup {c}) \cup {d}) = Cardinality(sent[m]) + 2
    <3>1. d \notin sent[m] \cup {c}
        BY <2>3
    <3>2. Cardinality((sent[m] \cup {c}) \cup {d}) = Cardinality(sent[m] \cup {c}) + 1
        BY <2>6, <3>1, FS_AddElement
    <3> QED BY <2>5, <2>6, <3>2, FS_CardinalityType
  <2>8. (sent[m] \cup {c}) \cup {d} \subseteq Late
      BY <2>1, <2>2, <2>4 DEF Held
  <2>9. Cardinality(sent[m]) + 2 <= Cardinality(Late)
      BY <2>5, <2>7, <2>8, FS_Subset
  <2> QED BY <2>5, <2>9, FS_CardinalityType, BufRowsAssumption DEF WaitsForItself
<1> QED BY <1>1, Invariance, RowsInvariance, PTL

-------------------------------------------------------------------------------
(***************************************************************************)
(* What a failure costs.                                                   *)
(***************************************************************************)

LostInv == IsFiniteSet(Lost) /\ LostAlertsAreFaults

\* A request loses nothing: it writes other statuses.
LEMMA WorkerLosesNothing ==
    ASSUME IInv, NEW q \in Requests, WorkerStep(q)
    PROVE  Lost' \subseteq Lost /\ faults' = faults
<1> USE DEF IInv, CheckInsTypeOK, Lost, AboutToAlert, rowVars, monVars
<1>1. CASE InsertCheckIn(q) \/ CompleteUpdate(q)
  <2>1. PICK s \in {"pending", "completed"} : status' = [status EXCEPT ![req[q].id] = s]
      BY <1>1 DEF InsertCheckIn, CompleteUpdate
  <2>2. UNCHANGED <<pc, inHand, raised, faults>>
      BY <1>1 DEF InsertCheckIn, CompleteUpdate
  <2> QED BY <2>1, <2>2
<1>2. CASE ~InsertCheckIn(q) /\ ~CompleteUpdate(q)
    BY <1>2 DEF WorkerStep, BeginSchedule, SelectForUpdate, RequestFails
<1> QED BY <1>1, <1>2

\* Nor does the monitor as long as nothing fails: what it marks it has in hand, and
\* what leaves its hand has its alert.
LEMMA MonitorLosesNothing ==
    ASSUME IInv, NEW m \in Instances, StreamStep(m) \/ MonitorStep(m)
    PROVE  Lost' \subseteq Lost /\ faults' = faults
<1> USE DEF IInv, CheckInsTypeOK, Lost, AboutToAlert, rowVars, monVars
<1>1. CASE StreamStep(m) \/ Tick(m) \/ LoopEnds(m) \/ \E c \in CheckInIds : NextRow(m, c)
  <2>1. UNCHANGED <<status, raised, faults>>
      BY <1>1 DEF StreamStep, LockRow, SkipRow, EndStream, Tick, LoopEnds, NextRow
  <2>2. \A n \in Instances : pc[n] = "alert" => pc'[n] = "alert" /\ inHand'[n] = inHand[n]
      BY <1>1 DEF StreamStep, LockRow, SkipRow, EndStream, Tick, LoopEnds, NextRow
  <2> QED BY <2>1, <2>2
<1>2. ASSUME NEW c \in CheckInIds, MarkMissed(m, c)  PROVE Lost' \subseteq Lost /\ faults' = faults
  <2>1. \A n \in Instances : pc[n] = "alert" => pc'[n] = "alert" /\ inHand'[n] = inHand[n]
      BY <1>2 DEF MarkMissed
  <2>2. AboutToAlert(c)'
      BY <1>2 DEF MarkMissed
  <2> QED BY <1>2, <2>1, <2>2 DEF MarkMissed
<1>3. ASSUME NEW c \in CheckInIds, RaiseAlert(m, c)  PROVE Lost' \subseteq Lost /\ faults' = faults
  <2>1. inHand[m] = {c}
      BY <1>3 DEF RaiseAlert, LoopInv
  <2>2. raised'[m][c] = raised[m][c] + 1 /\ raised[m][c] \in Nat
      BY <1>3 DEF RaiseAlert
  <2>3. c \notin Lost'
      BY <2>2
  <2>4. \A d \in CheckInIds \ {c} : AboutToAlert(d) => AboutToAlert(d)'
      BY <1>3, <2>1 DEF RaiseAlert
  <2>5. \A d \in CheckInIds \ {c}, n \in Instances : raised'[n][d] = raised[n][d]
      BY <1>3 DEF RaiseAlert
  <2> QED BY <1>3, <2>3, <2>4, <2>5 DEF RaiseAlert
<1> QED BY <1>1, <1>2, <1>3 DEF MonitorStep

\* A failure of the monitor costs at most the row in its hand.
LEMMA FaultLosesOne ==
    ASSUME IInv, NEW m \in Instances, FaultStep(m)
    PROVE  faults' = faults + 1 /\ \E x : Lost' \subseteq Lost \cup {x}
<1> USE DEF IInv, CheckInsTypeOK, Lost, AboutToAlert, rowVars, monVars
<1>1. faults' = faults + 1
    BY DEF FaultStep, MarkMissedFails, MarkMissedUnacked, RaiseAlertFails, StreamBreaks, Crash, Fault
<1>2. PICK x : inHand[m] \subseteq {x}
    BY DEF LoopInv
<1>3. \A n \in Instances \ {m} : pc'[n] = pc[n] /\ inHand'[n] = inHand[n]
    BY DEF FaultStep, MarkMissedFails, MarkMissedUnacked, RaiseAlertFails, StreamBreaks, Crash
<1>4. raised' = raised /\ \A c \in CheckInIds : c \notin inHand[m] => status'[c] = status[c]
    BY DEF FaultStep, MarkMissedFails, MarkMissedUnacked, RaiseAlertFails, StreamBreaks, Crash
<1>5. ASSUME NEW c \in Lost', c \notin inHand[m]  PROVE c \in Lost
    BY <1>3, <1>4, <1>5
<1> QED BY <1>1, <1>2, <1>5

LEMMA LostStep == IInv /\ LostInv /\ [Next]_vars => LostInv'
<1> SUFFICES ASSUME IInv, LostInv, [Next]_vars PROVE LostInv'
    OBVIOUS
<1>0. faults \in Nat /\ Cardinality(Lost) \in Nat
    BY BoundsAssumption, FS_CardinalityType DEF IInv, CheckInsTypeOK, LostInv
<1>1. CASE Lost' \subseteq Lost /\ faults' = faults
    BY <1>0, <1>1, FS_Subset, FS_CardinalityType DEF LostInv, LostAlertsAreFaults
<1>2. ASSUME NEW x, faults' = faults + 1, Lost' \subseteq Lost \cup {x}  PROVE LostInv'
  <2>1. IsFiniteSet(Lost \cup {x}) /\ Cardinality(Lost \cup {x}) <= Cardinality(Lost) + 1
      BY <1>0, FS_AddElement DEF LostInv
  <2>2. IsFiniteSet(Lost') /\ Cardinality(Lost') <= Cardinality(Lost \cup {x})
      BY <1>2, <2>1, FS_Subset
  <2>3. Cardinality(Lost') \in Nat /\ Cardinality(Lost \cup {x}) \in Nat
      BY <2>1, <2>2, FS_CardinalityType
  <2> QED BY <1>0, <1>2, <2>1, <2>2, <2>3 DEF LostInv, LostAlertsAreFaults
<1>3. CASE AdvanceClock \/ UNCHANGED vars
    BY <1>1, <1>3 DEF AdvanceClock, vars, rowVars, monVars, Lost, AboutToAlert
<1> QED BY <1>1, <1>2, <1>3, WorkerLosesNothing, MonitorLosesNothing, FaultLosesOne DEF Next

LEMMA LostInvariance == Spec => []LostInv
<1>1. Init => LostInv
  <2>1. Init => Lost = {} /\ faults = 0
      BY DEF Init, Lost
  <2> QED BY <2>1, FS_EmptySet DEF LostInv, LostAlertsAreFaults
<1> QED BY <1>1, LostStep, Invariance, PTL DEF Spec

\* However many monitors mark rows and call TriggerAlert, a missed check-in without
\* an alert costs one failed statement, lost acknowledgement or crash each: the
\* races between them and with CompleteCheckIn lose none (checkin.go:171-186; how
\* far CheckInsLostAlert can go).
THEOREM LostAlertsCostFaults == Spec => []LostAlertsAreFaults
<1>1. LostInv => LostAlertsAreFaults
    BY DEF LostInv
<1> QED BY <1>1, LostInvariance, PTL

-------------------------------------------------------------------------------
(***************************************************************************)
(* The emergency service inside the process.                               *)
(***************************************************************************)

\* A row of check_ins belongs to a user.
OwnerInv == \A c \in CheckInIds : status[c] # "absent" => owner[c] \in Users

LEMMA OwnerStep == IInv /\ OwnerInv /\ [Next]_vars => OwnerInv'
<1> SUFFICES ASSUME IInv, OwnerInv, [Next]_vars PROVE OwnerInv'
    OBVIOUS
<1> USE DEF IInv, OwnerInv, CheckInsTypeOK, rowVars, monVars
<1>1. ASSUME NEW q \in Requests, WorkerStep(q) PROVE OwnerInv'
  <2>1. CASE InsertCheckIn(q)
      BY <2>1, WorkerShape DEF InsertCheckIn, InsertStep
  <2>2. CASE CompleteUpdate(q)
      BY <2>2, WorkerShape DEF CompleteUpdate, UpdateStep, WorkerInv
  <2>3. CASE ~InsertCheckIn(q) /\ ~CompleteUpdate(q)
      BY <1>1, <2>3 DEF WorkerStep, BeginSchedule, SelectForUpdate, RequestFails
  <2> QED BY <2>1, <2>2, <2>3
<1>2. ASSUME NEW m \in Instances, StreamStep(m) PROVE OwnerInv'
    BY <1>2 DEF StreamStep, LockRow, SkipRow, EndStream
<1>3. ASSUME NEW m \in Instances, MonitorStep(m) PROVE OwnerInv'
    BY <1>3 DEF MonitorStep, Tick, NextRow, MarkMissed, RaiseAlert, LoopEnds, HeldInv, Held
<1>4. ASSUME NEW m \in Instances, FaultStep(m) PROVE OwnerInv'
    BY <1>4 DEF FaultStep, MarkMissedFails, MarkMissedUnacked, RaiseAlertFails,
                StreamBreaks, Crash, HeldInv, Held
<1>5. CASE AdvanceClock
    BY <1>5 DEF AdvanceClock
<1>6. CASE UNCHANGED vars
    BY <1>6 DEF vars
<1> QED BY <1>1, <1>2, <1>3, <1>4, <1>5, <1>6 DEF Next

THEOREM RowsAreOwned == Spec => []OwnerInv
<1>1. Init => OwnerInv
    BY DEF Init, OwnerInv
<1> QED BY <1>1, OwnerStep, Invariance, PTL DEF Spec

\* The monitor always knows whose alert it raises.
LEMMA HandIsOwned ==
    ASSUME IInv, OwnerInv, NEW m \in Instances, NEW c \in inHand[m]
    PROVE  c \in CheckInIds /\ owner[c] \in Users
BY DEF IInv, CheckInsTypeOK, HeldInv, Held, OwnerInv

LEMMA NetStepIsEmergencyStep ==
    ASSUME IInv, OwnerInv, NetNext
    PROVE  E!EmergencyNext \/ UNCHANGED emVars
<1> DEFINE Goal == E!EmergencyNext \/ UNCHANGED emVars
<1>1. CASE CheckInsAlone
    BY <1>1 DEF CheckInsAlone
<1>2. ASSUME NEW m \in Instances, NetMonitorStep(m) PROVE Goal
  <2>1. ASSUME NEW c \in CheckInIds, NEW a \in Alerts, MonitorAlert(m, c, a)
        PROVE  E!EmergencyNext
      BY <2>1, HandIsOwned DEF MonitorAlert, RaiseAlert, E!EmergencyNext, E!TriggerStep
  <2> QED BY <1>2, <2>1 DEF NetMonitorStep
<1>3. ASSUME NEW m \in Instances, NetStreamStep(m) PROVE Goal
    BY <1>3 DEF NetStreamStep
<1>4. ASSUME NEW m \in Instances, MonitorAlertFails(m) PROVE Goal
    BY <1>4, HandIsOwned DEF MonitorAlertFails, E!EmergencyNext, E!TriggerStep
<1>5. ASSUME NEW m \in Instances, Stop(m) PROVE Goal
    BY <1>5 DEF Stop, E!EmergencyNext
<1>6. ASSUME NEW a \in Alerts, NetDispatchStep(a) PROVE Goal
    BY <1>6 DEF NetDispatchStep, E!EmergencyNext
<1>7. ASSUME NEW a \in ButtonIds, NEW u \in Users, ButtonAlert(a, u) PROVE Goal
    BY <1>7, ButtonAssumption DEF ButtonAlert, E!EmergencyNext, E!TriggerStep
<1>8. ASSUME NEW q \in Resolvers, NetResolverStep(q) PROVE Goal
    BY <1>8 DEF NetResolverStep, E!EmergencyNext
<1> QED BY <1>1, <1>2, <1>3, <1>4, <1>5, <1>6, <1>7, <1>8 DEF NetNext

\* The emergency service inside the process is the one specified alone.
THEOREM NetImplementsEmergency == NetSpec => E!EmergencySpec
<1>1. NetInit => E!EmergencyInit
    BY DEF NetInit
<1>2. IInv /\ OwnerInv /\ [NetNext]_netVars => [E!EmergencyNext]_(E!emVars)
    BY NetStepIsEmergencyStep
       DEF netVars, emVars, E!emVars, E!alertVars, E!dispatchVars
<1> QED BY <1>1, <1>2, NetImplementsCheckIns, Invariance, RowsAreOwned, PTL
        DEF NetSpec, E!EmergencySpec

-------------------------------------------------------------------------------
(***************************************************************************)
(* What is proved of the emergency service alone holds inside the process. *)
(* EP is Emergency with its theorems; E and EP have the same definitions.  *)
(***************************************************************************)
EP == INSTANCE EmergencyProofs

LEMMA SameEmergency == E!EmergencySpec => EP!EmergencySpec
<1> USE DEF E!emVars, E!alertVars, E!dispatchVars, EP!emVars, EP!alertVars, EP!dispatchVars,
        E!EmFault, EP!EmFault, E!AfterSms, EP!AfterSms, E!Budget, EP!Budget
<1>1. E!EmergencyInit => EP!EmergencyInit
    BY DEF E!EmergencyInit, EP!EmergencyInit, E!Idle, EP!Idle
<1>2. ASSUME NEW a \in Alerts, E!TriggerStep(a) PROVE EP!TriggerStep(a)
    BY <1>2 DEF E!TriggerStep, E!TriggerAlert, E!TriggerUnacked, E!InsertAlert, E!FirstStage,
                EP!TriggerStep, EP!TriggerAlert, EP!TriggerUnacked, EP!InsertAlert,
                EP!FirstStage
<1>3. ASSUME NEW a \in Alerts, E!DispatchStep(a) PROVE EP!DispatchStep(a)
    BY <1>3 DEF E!DispatchStep, E!LookupPhone, E!SendSms, E!SendWebhook, E!RequestLimit,
                EP!DispatchStep, EP!LookupPhone, EP!SendSms, EP!SendWebhook, EP!RequestLimit
<1>4. ASSUME NEW q \in Resolvers, E!ResolverStep(q) PROVE EP!ResolverStep(q)
    BY <1>4 DEF E!ResolverStep, E!BeginResolve, E!ResolveUpdate, E!ResolveFetch,
                E!ResolveFails, E!Idle, E!Resolvable,
                EP!ResolverStep, EP!BeginResolve, EP!ResolveUpdate, EP!ResolveFetch,
                EP!ResolveFails, EP!Idle, EP!Resolvable
<1>5. ASSUME NEW m \in Instances, E!ProcessStops(m) PROVE EP!ProcessStops(m)
    BY <1>5 DEF E!ProcessStops, E!Dispatching, EP!ProcessStops, EP!Dispatching
<1>6. [E!EmergencyNext]_(E!emVars) => [EP!EmergencyNext]_(EP!emVars)
    BY <1>2, <1>3, <1>4, <1>5 DEF E!EmergencyNext, EP!EmergencyNext
<1> QED BY <1>1, <1>6, PTL DEF E!EmergencySpec, EP!EmergencySpec

\* The assumptions of Emergency follow from those of the process.
LEMMA EmergencyAssumptions ==
    EP!EmergencyUsers /\ EP!EmergencyConfig /\ EP!EmergencyTimes /\ EP!EmergencyFaults
BY NoUserAssumption, BoundsAssumption, DispatchAssumption
   DEF EP!EmergencyUsers, EP!EmergencyConfig, EP!EmergencyTimes, EP!EmergencyFaults

\* Inside the process too, whoever raises the alerts and whatever stops: a slow
\* Twilio alone never costs an alert its webhook.
THEOREM NetWebhookKeepsTime == NetSpec => []E!SlowSmsKeepsWebhook
<1>1. EP!SlowSmsKeepsWebhook => E!SlowSmsKeepsWebhook
    BY DEF EP!SlowSmsKeepsWebhook, E!SlowSmsKeepsWebhook
<1> QED BY <1>1, EmergencyAssumptions, EP!WebhookKeepsTime, SameEmergency,
           NetImplementsEmergency, PTL

\* Inside the process too, a caller of ResolveAlert reads a resolved alert.
THEOREM NetFetchedResolved == NetSpec => []E!FetchedIsResolved
<1>1. EP!FetchedIsResolved => E!FetchedIsResolved
    BY DEF EP!FetchedIsResolved, E!FetchedIsResolved
<1> QED BY <1>1, EmergencyAssumptions, EP!FetchedResolved, SameEmergency,
           NetImplementsEmergency, PTL

\* Inside the process too, the first resolver of an alert stays recorded and
\* the alert is never active again, an alert of the monitor like any other.
THEOREM NetFirstResolverStays == NetSpec => E!ResolvedOnce
<1>1. EP!ResolvedOnce => E!ResolvedOnce
  <2> DEFINE Kept ==
          \A a \in Alerts :
              resolvedBy[a] # NoUser => resolvedBy'[a] = resolvedBy[a] /\ row'[a] = "resolved"
  <2>1. [Kept]_(EP!emVars) => [Kept]_(E!emVars)
      BY DEF E!emVars, E!alertVars, E!dispatchVars, EP!emVars, EP!alertVars, EP!dispatchVars
  <2> QED BY <2>1, PTL DEF EP!ResolvedOnce, E!ResolvedOnce
<1> QED BY <1>1, EmergencyAssumptions, EP!FirstResolverStays, SameEmergency,
           NetImplementsEmergency, PTL

\* Inside the process too, the dispatch of an alert does not end before the webhook
\* was called: a missed check-in whose alert is through has been told.
THEOREM NetNoDispatchWithoutWebhook == NetSpec => []EP!ThroughIsNotified
BY EmergencyAssumptions, EP!NoDispatchWithoutWebhook, SameEmergency,
   NetImplementsEmergency, PTL

\* Inside the process too, an alert is texted to its user alone; with AlertsMatch
\* that is the user who missed the check-in.
THEOREM NetRightPhone == NetSpec => []EP!OnlyItsUserTexted
BY EmergencyAssumptions, EP!RightPhone, SameEmergency, NetImplementsEmergency, PTL

-------------------------------------------------------------------------------
(***************************************************************************)
(* The chain without failures.                                             *)
(***************************************************************************)

\* An alert the monitor was told of has its row and its dispatch.
ChainInv ==
    \A c \in CheckInIds, m \in Instances :
        raised[m][c] > 0 =>
            \E a \in Alerts : row[a] # "absent" /\ cause[a] = <<c, m>> /\ stage[a] # "none"

\* A dispatch is lost with its process only.
StopInv == \A a \in Alerts : stage[a] = "lost" => ecFaults > 0

\* No step but the insert of its own takes from an alert what it was raised for, its
\* row or its dispatch.
LEMMA AlertStays ==
    ASSUME LinkTypes, E!EmergencyTypeOK, NetNext, NEW a \in Alerts, row[a] # "absent"
    PROVE  /\ row'[a] # "absent" /\ cause'[a] = cause[a]
           /\ stage[a] # "none" => stage'[a] # "none"
<1> USE DEF LinkTypes, E!EmergencyTypeOK, emVars, E!alertVars, E!dispatchVars
<1>1. CASE CheckInsAlone
    BY <1>1 DEF CheckInsAlone
<1>2. ASSUME NEW m \in Instances, NetMonitorStep(m) \/ NetStreamStep(m) \/ MonitorAlertFails(m)
      PROVE  /\ row'[a] # "absent" /\ cause'[a] = cause[a]
             /\ stage[a] # "none" => stage'[a] # "none"
    BY <1>2 DEF NetMonitorStep, NetStreamStep, MonitorAlertFails, MonitorAlert,
                E!TriggerAlert, E!TriggerUnacked, E!InsertAlert
<1>3. ASSUME NEW m \in Instances, Stop(m)
      PROVE  /\ row'[a] # "absent" /\ cause'[a] = cause[a]
             /\ stage[a] # "none" => stage'[a] # "none"
    BY <1>3 DEF Stop, E!ProcessStops
<1>4. ASSUME NEW b \in Alerts, NetDispatchStep(b)
      PROVE  /\ row'[a] # "absent" /\ cause'[a] = cause[a]
             /\ stage[a] # "none" => stage'[a] # "none"
    BY <1>4 DEF NetDispatchStep, E!DispatchStep, E!LookupPhone, E!SendSms, E!SendWebhook, E!AfterSms
<1>5. ASSUME NEW b \in ButtonIds, NEW u \in Users, ButtonAlert(b, u)
      PROVE  /\ row'[a] # "absent" /\ cause'[a] = cause[a]
             /\ stage[a] # "none" => stage'[a] # "none"
    BY <1>5, ButtonAssumption DEF ButtonAlert, E!TriggerAlert, E!TriggerUnacked, E!InsertAlert
<1>6. ASSUME NEW q \in Resolvers, NetResolverStep(q)
      PROVE  /\ row'[a] # "absent" /\ cause'[a] = cause[a]
             /\ stage[a] # "none" => stage'[a] # "none"
    BY <1>6 DEF NetResolverStep, E!ResolverStep, E!BeginResolve, E!ResolveUpdate, E!ResolveFetch,
                E!ResolveFails
<1> QED BY <1>1, <1>2, <1>3, <1>4, <1>5, <1>6 DEF NetNext

\* The monitor is told of an alert by the one step that inserts and dispatches it.
LEMMA RaisedWithAlert ==
    ASSUME CheckInsTypeOK, LinkTypes, E!EmergencyTypeOK, NetNext,
           NEW c \in CheckInIds, NEW m \in Instances, raised'[m][c] > 0, ~(raised[m][c] > 0)
    PROVE  \E a \in Alerts : row'[a] # "absent" /\ cause'[a] = <<c, m>> /\ stage'[a] # "none"
<1>1. PICK n \in Instances, d \in CheckInIds, a \in Alerts : MonitorAlert(n, d, a)
  <2>1. ~UNCHANGED raised
      OBVIOUS
  <2> QED BY <2>1
          DEF NetNext, CheckInsAlone, WorkerStep, BeginSchedule, SelectForUpdate, InsertCheckIn,
              CompleteUpdate, RequestFails, FaultAlone, MarkMissedFails, MarkMissedUnacked,
              StreamBreaks, AdvanceClock, NetMonitorStep, MonitorAlone, Tick, NextRow, MarkMissed,
              LoopEnds, NetStreamStep, StreamStep, LockRow, SkipRow, EndStream, MonitorAlertFails,
              RaiseAlertFails, Stop, Crash, NetDispatchStep, NetResolverStep, ButtonAlert, vars
<1>2. c = d /\ m = n
    BY <1>1 DEF MonitorAlert, RaiseAlert, CheckInsTypeOK
<1>3. row'[a] = "active" /\ cause'[a] = <<d, n>> /\ stage'[a] = E!FirstStage
    BY <1>1 DEF MonitorAlert, E!TriggerAlert, E!InsertAlert, LinkTypes, E!EmergencyTypeOK
<1> QED BY <1>2, <1>3 DEF E!FirstStage, E!AfterSms

LEMMA ChainStep ==
    ASSUME CheckInsTypeOK, LinkTypes, E!EmergencyTypeOK, ChainInv, [NetNext]_netVars
    PROVE  ChainInv'
<1>1. CASE NetNext
  <2> SUFFICES ASSUME NEW c \in CheckInIds, NEW m \in Instances, raised'[m][c] > 0
               PROVE  \E a \in Alerts :
                         row'[a] # "absent" /\ cause'[a] = <<c, m>> /\ stage'[a] # "none"
      BY DEF ChainInv
  <2>1. CASE raised[m][c] > 0
      BY <1>1, <2>1, AlertStays DEF ChainInv
  <2>2. CASE ~(raised[m][c] > 0)
      BY <1>1, <2>2, RaisedWithAlert
  <2> QED BY <2>1, <2>2
<1>2. CASE UNCHANGED netVars
    BY <1>2 DEF netVars, vars, emVars, ChainInv
<1> QED BY <1>1, <1>2

LEMMA StopStep ==
    ASSUME E!EmergencyTypeOK, StopInv, [E!EmergencyNext]_(E!emVars)
    PROVE  StopInv'
<1> USE DEF E!EmergencyTypeOK, StopInv, E!EmFault, E!dispatchVars
<1>1. ecFaults \in Nat
    BY BoundsAssumption
<1>2. ASSUME NEW a \in Alerts, E!TriggerStep(a)  PROVE StopInv'
    BY <1>1, <1>2 DEF E!TriggerStep, E!TriggerAlert, E!TriggerUnacked, E!FirstStage, E!AfterSms
<1>3. ASSUME NEW a \in Alerts, E!DispatchStep(a)  PROVE StopInv'
    BY <1>3 DEF E!DispatchStep, E!LookupPhone, E!SendSms, E!SendWebhook, E!AfterSms
<1>4. ASSUME NEW q \in Resolvers, E!ResolverStep(q)  PROVE StopInv'
    BY <1>4 DEF E!ResolverStep, E!BeginResolve, E!ResolveUpdate, E!ResolveFetch, E!ResolveFails
<1>5. ASSUME NEW m \in Instances, E!ProcessStops(m)  PROVE StopInv'
    BY <1>1, <1>5 DEF E!ProcessStops
<1>6. CASE UNCHANGED E!emVars
    BY <1>6 DEF E!emVars
<1> QED BY <1>2, <1>3, <1>4, <1>5, <1>6 DEF E!EmergencyNext

LEMMA NetEmergencyTypes == NetSpec => []E!EmergencyTypeOK
<1>1. EP!EmergencyTypeOK => E!EmergencyTypeOK
    BY DEF EP!EmergencyTypeOK, E!EmergencyTypeOK, EP!Budget, E!Budget, EP!Idle, E!Idle,
           EP!ResolveStep, E!ResolveStep
<1> QED BY <1>1, EmergencyAssumptions, EP!EmergencyTypeCorrect, SameEmergency,
           NetImplementsEmergency, PTL

LEMMA ChainInvariance == NetSpec => [](ChainInv /\ StopInv)
<1>1. NetInit => ChainInv /\ StopInv
    BY DEF NetInit, Init, E!EmergencyInit, ChainInv, StopInv
<1>2. /\ NetInv /\ E!EmergencyTypeOK /\ ChainInv /\ StopInv
      /\ [NetNext]_netVars /\ [E!EmergencyNext]_(E!emVars)
      => ChainInv' /\ StopInv'
    BY ChainStep, StopStep DEF NetInv, IInv
<1> QED BY <1>1, <1>2, NetInvariance, NetEmergencyTypes, NetImplementsEmergency, PTL
        DEF NetSpec, E!EmergencySpec

\* The part of OverdueNotified that needs no fairness, for any number of processes,
\* users and check-ins: without a failure, who is marked missed is not forgotten
\* between the monitor, the alert and its dispatch (checkin.go:171-186,
\* emergency.go:49-65, :126-142).
THEOREM NobodyIsForgotten == NetSpec => []NobodyFallsThrough
<1>1. ASSUME NetInv, LostInv, E!EmergencyTypeOK, ChainInv, StopInv, EP!ThroughIsNotified
      PROVE  NobodyFallsThrough
  <2> SUFFICES ASSUME WebhookConfigured, faults + ecFaults = 0, NEW c \in CheckInIds,
                      status[c] = "missed", ~AboutToAlert(c)
               PROVE  \E a \in AlertsOf(c) : E!Dispatching(a) \/ hook[a] # "none"
      BY DEF NobodyFallsThrough
  <2>1. faults = 0 /\ ecFaults = 0
      BY <1>1, BoundsAssumption DEF NetInv, IInv, CheckInsTypeOK, E!EmergencyTypeOK
  <2>2. Lost = {}
      BY <1>1, <2>1, FS_EmptySet, FS_CardinalityType DEF LostInv, LostAlertsAreFaults
  <2>3. PICK m \in Instances : raised[m][c] > 0
      BY <1>1, <2>2 DEF Lost, NetInv, IInv, CheckInsTypeOK
  <2>4. PICK a \in Alerts : row[a] # "absent" /\ cause[a] = <<c, m>> /\ stage[a] # "none"
      BY <1>1, <2>3 DEF ChainInv
  <2>5. a \in AlertsOf(c) /\ stage[a] # "lost"
      BY <1>1, <2>1, <2>4 DEF AlertsOf, StopInv
  <2>6. E!Dispatching(a) \/ stage[a] = "done"
      BY <1>1, <2>4, <2>5 DEF E!EmergencyTypeOK, E!Dispatching
  <2> QED BY <1>1, <2>5, <2>6 DEF EP!ThroughIsNotified
<1> QED BY <1>1, NetInvariance, NetImplementsCheckIns, LostInvariance, NetEmergencyTypes,
           ChainInvariance, NetNoDispatchWithoutWebhook, PTL

-------------------------------------------------------------------------------
(***************************************************************************)
(* The promise.  Only the insert of a monitor's alert row changes who was  *)
(* alerted; what is done to a row of check_ins is seen in CheckIns alone.  *)
(***************************************************************************)
promised == <<status, Late, ontime, Alerted>>

\* A held row's time is over, and it was not completed before.
LEMMA HeldIsLate ==
    ASSUME IInv, NEW m \in Instances, NEW c \in inHand[m]
    PROVE  c \in CheckInIds /\ c \in Late \ ontime
BY DEF IInv, CheckInsTypeOK, HeldInv, Held, Late

\* A statement that gives an existing row another status and touches nothing else
\* leaves the late check-ins late.
LEMMA StatusAlone ==
    ASSUME CheckInsTypeOK, NEW c \in CheckInIds, status[c] # "absent",
           NEW s \in {"completed", "missed"}, status' = [status EXCEPT ![c] = s],
           UNCHANGED <<due, now>>
    PROVE  Late' = Late
BY DEF CheckInsTypeOK, Late

LEMMA CheckInsKeepPromise ==
    ASSUME IInv, [Next]_vars, Alerted' = Alerted
    PROVE  [Promise!Next]_promised
<1> DEFINE Goal == [Promise!Next]_promised
<1>0. CheckInsTypeOK
    BY DEF IInv
<1>1. ASSUME UNCHANGED <<now, status, due, ontime>> PROVE Goal
    BY <1>1 DEF promised, Late
<1>2. ASSUME NEW q \in Requests, InsertCheckIn(q) PROVE Goal
  <2> DEFINE c == req[q].id
  <2>1. c \in CheckInIds /\ status[c] = "absent" /\ req[q].due \in 0..MaxTime
      BY <1>0, <1>2, WorkerShape DEF InsertCheckIn, InsertStep, IInv, WorkerInv
  <2>2. /\ status' = [status EXCEPT ![c] = "pending"]
        /\ due' = [due EXCEPT ![c] = req[q].due]
        /\ UNCHANGED <<now, ontime>>
      BY <1>2 DEF InsertCheckIn
  <2> HIDE DEF c
  <2>3. Late' \in {Late, Late \cup {c}}
    <3>1. \A d \in CheckInIds \ {c} : d \in Late' <=> d \in Late
        BY <1>0, <2>1, <2>2 DEF CheckInsTypeOK, Late
    <3>2. c \notin Late /\ Late \subseteq CheckInIds /\ Late' \subseteq CheckInIds
        BY <2>1 DEF Late
    <3> QED BY <3>1, <3>2
  <2>4. Promise!Schedule(c)
      BY <2>1, <2>2, <2>3 DEF Promise!Schedule
  <2> QED BY <2>1, <2>4 DEF Promise!Next
<1>3. ASSUME NEW q \in Requests, CompleteUpdate(q) PROVE Goal
  <2> DEFINE c == req[q].id
  <2>1. c \in CheckInIds /\ status[c] # "absent"
      BY <1>0, <1>3, WorkerShape DEF CompleteUpdate, UpdateStep, IInv, WorkerInv
  <2>2. /\ status' = [status EXCEPT ![c] = "completed"]
        /\ ontime' = IF due[c] < now THEN ontime ELSE ontime \cup {c}
        /\ UNCHANGED <<due, now>>
      BY <1>3 DEF CompleteUpdate
  <2> HIDE DEF c
  <2>3. Late' = Late
      BY <1>0, <2>1, <2>2, StatusAlone
  <2>4. ontime' = ontime \cup ({c} \ Late)
      BY <2>1, <2>2 DEF Late
  <2>5. Promise!Complete(c)
      BY <2>1, <2>2, <2>3, <2>4 DEF Promise!Complete
  <2> QED BY <2>1, <2>5 DEF Promise!Next
<1>4. ASSUME NEW m \in Instances, NEW c \in CheckInIds, MarkMissed(m, c) \/ MarkMissedUnacked(m, c)
      PROVE  Goal
  <2>1. c \in inHand[m] /\ status' = [status EXCEPT ![c] = "missed"] /\ UNCHANGED <<now, due, ontime>>
      BY <1>4 DEF MarkMissed, MarkMissedUnacked
  <2>2. c \in Late \ ontime /\ status[c] # "absent"
      BY <2>1, HeldIsLate DEF Late
  <2>3. Late' = Late
      BY <1>0, <2>1, <2>2, StatusAlone
  <2>4. Promise!Miss(c)
      BY <2>1, <2>2, <2>3 DEF Promise!Miss
  <2> QED BY <2>4 DEF Promise!Next
<1>5. CASE AdvanceClock
  <2>1. now' = now + 1 /\ UNCHANGED <<status, due, ontime>>
      BY <1>5 DEF AdvanceClock, rowVars
  <2>2. Late \subseteq Late' /\ \A c \in Late' : status[c] # "absent"
      BY <1>0, <2>1 DEF CheckInsTypeOK, Late
  <2> QED BY <2>1, <2>2 DEF Promise!Next, Promise!TimePasses
<1>6. ASSUME NEW q \in Requests, WorkerStep(q) PROVE Goal
    BY <1>1, <1>2, <1>3, <1>6 DEF WorkerStep, BeginSchedule, SelectForUpdate, RequestFails, rowVars
<1>7. ASSUME NEW m \in Instances, StreamStep(m) PROVE Goal
    BY <1>1, <1>7 DEF StreamStep, LockRow, SkipRow, EndStream, rowVars
<1>8. ASSUME NEW m \in Instances, MonitorStep(m) PROVE Goal
    BY <1>1, <1>4, <1>8 DEF MonitorStep, Tick, NextRow, RaiseAlert, LoopEnds, rowVars
<1>9. ASSUME NEW m \in Instances, FaultStep(m) PROVE Goal
    BY <1>1, <1>4, <1>9 DEF FaultStep, MarkMissedFails, RaiseAlertFails, StreamBreaks, Crash, rowVars
<1>10. CASE UNCHANGED vars
    BY <1>1, <1>10 DEF vars, rowVars
<1> QED BY <1>5, <1>6, <1>7, <1>8, <1>9, <1>10 DEF Next

\* A monitor's insert of an alert row, acknowledged or not.
LEMMA InsertKeepsPromise ==
    ASSUME NetInv, NEW x \in Alerts, NEW c \in CheckInIds, NEW m \in Instances,
           E!InsertAlert(x, owner[c]), c \in inHand[m], RaiseAlert(m, c) \/ RaiseAlertFails(m),
           cause' = [cause EXCEPT ![x] = <<c, m>>]
    PROVE  Promise!Alert(c, m)
<1>1. pc[m] = "alert" /\ UNCHANGED <<now, rowVars, ontime>>
    BY DEF RaiseAlert, RaiseAlertFails
<1>2. UNCHANGED <<status, Late, ontime>>
    BY <1>1 DEF rowVars, Late
<1>3. c \in Late \ ontime /\ status[c] \in {"missed", "completed"}
    BY <1>1, HeldIsLate DEF NetInv, IInv, MarkedInv
<1>4. \A a \in Alerts : cause[a] # <<c, m>>
    BY DEF NetInv, LinkInv, Behind, Held
<1>5. <<c, m>> \notin Alerted
    BY <1>4 DEF Alerted
<1>6. row'[x] # "absent" /\ cause'[x] = <<c, m>> /\ cause[x] = Button
    BY DEF E!InsertAlert, NetInv, LinkTypes, LinkInv
<1>7. \A a \in Alerts \ {x} : row'[a] = row[a] /\ cause'[a] = cause[a]
    BY DEF E!InsertAlert, NetInv, LinkTypes
<1>8. Alerted' = Alerted \cup {<<c, m>>}
  <2>1. \A p \in CheckInIds \X Instances : p # Button
      BY ButtonAssumption
  <2> QED BY <1>6, <1>7, <2>1 DEF Alerted
<1> QED BY <1>2, <1>3, <1>5, <1>8 DEF Promise!Alert

LEMMA NetKeepsPromise ==
    ASSUME NetInv, [NetNext]_netVars
    PROVE  [Promise!Next]_promised
<1> DEFINE Goal == [Promise!Next]_promised
<1>0. IInv /\ [Next]_vars
    BY NetStepIsStep DEF NetInv, netVars
\* The same alert rows: the step is one of CheckIns, or nothing.
<1>1. ASSUME \A a \in Alerts : row'[a] = "absent" <=> row[a] = "absent", UNCHANGED cause
      PROVE  Goal
  <2>1. Alerted' = Alerted
      BY <1>1 DEF Alerted
  <2> QED BY <1>0, <2>1, CheckInsKeepPromise
<1>2. ASSUME NEW m \in Instances, NEW c \in CheckInIds, NEW a \in Alerts,
             E!InsertAlert(a, owner[c]), cause' = [cause EXCEPT ![a] = <<c, m>>],
             c \in inHand[m], RaiseAlert(m, c) \/ RaiseAlertFails(m)
      PROVE  Goal
    BY <1>2, InsertKeepsPromise DEF Promise!Next
<1>3. CASE CheckInsAlone
    BY <1>1, <1>3 DEF CheckInsAlone, emVars
<1>4. ASSUME NEW m \in Instances, NetMonitorStep(m) PROVE Goal
  <2>1. CASE MonitorAlone(m) /\ UNCHANGED <<emVars, cause>>
      BY <1>1, <2>1 DEF emVars
  <2>2. ASSUME NEW c \in CheckInIds, NEW a \in Alerts \ ButtonIds, MonitorAlert(m, c, a)
        PROVE  Goal
      BY <1>2, <2>2 DEF MonitorAlert, RaiseAlert, E!TriggerAlert
  <2> QED BY <1>4, <2>1, <2>2 DEF NetMonitorStep
<1>5. ASSUME NEW m \in Instances, NetStreamStep(m) PROVE Goal
    BY <1>1, <1>5 DEF NetStreamStep, emVars
<1>6. ASSUME NEW m \in Instances, MonitorAlertFails(m) PROVE Goal
  <2>1. CASE UNCHANGED <<emVars, cause>>
      BY <1>1, <2>1 DEF emVars
  <2>2. ASSUME NEW a \in Alerts \ ButtonIds, NEW c \in inHand[m],
               E!TriggerUnacked(a, owner[c]), cause' = [cause EXCEPT ![a] = <<c, m>>]
        PROVE  Goal
    <3>1. c \in CheckInIds
        BY DEF NetInv, IInv, CheckInsTypeOK
    <3> QED BY <1>2, <1>6, <2>2, <3>1 DEF MonitorAlertFails, E!TriggerUnacked
  <2> QED BY <1>6, <2>1, <2>2 DEF MonitorAlertFails
<1>7. ASSUME NEW m \in Instances, Stop(m) PROVE Goal
    BY <1>1, <1>7 DEF Stop, emVars, E!ProcessStops, E!alertVars
<1>8. ASSUME NEW a \in Alerts, NetDispatchStep(a) PROVE Goal
    BY <1>1, <1>8 DEF NetDispatchStep, E!DispatchStep, E!LookupPhone, E!SendSms,
                      E!SendWebhook, E!alertVars
<1>9. ASSUME NEW a \in ButtonIds, NEW u \in Users, ButtonAlert(a, u) PROVE Goal
  <2>1. a \in Alerts /\ E!InsertAlert(a, u) /\ cause' = cause
      BY <1>9, ButtonAssumption DEF ButtonAlert, E!TriggerAlert, E!TriggerUnacked
  <2>2. cause[a] = Button /\ \A d \in Alerts \ {a} : row'[d] = row[d]
      BY <2>1 DEF E!InsertAlert, NetInv, LinkTypes, LinkInv
  <2>3. Alerted' = Alerted
      BY <2>1, <2>2, ButtonAssumption DEF Alerted
  <2> QED BY <1>0, <2>3, CheckInsKeepPromise
<1>10. ASSUME NEW q \in Resolvers, NetResolverStep(q) PROVE Goal
    BY <1>1, <1>10 DEF NetResolverStep, E!ResolverStep, E!BeginResolve, E!ResolveUpdate,
                       E!ResolveFetch, E!ResolveFails, E!alertVars, E!Resolvable,
                       NetInv, LinkTypes
<1>11. CASE UNCHANGED netVars
    BY <1>1, <1>11 DEF netVars, emVars
<1> QED BY <1>3, <1>4, <1>5, <1>6, <1>7, <1>8, <1>9, <1>10, <1>11 DEF NetNext

\* Over the rows of check_ins and emergency_alerts the whole process does what
\* SafetyPromise says, for any number of users, processes and failures.
THEOREM PromiseImplemented == NetSpec => ImplementsPromise
<1>1. NetInit => Promise!Init
  <2> SUFFICES ASSUME NetInit PROVE Promise!Init
      OBVIOUS
  <2>1. Late = {}
      BY DEF NetInit, Init, Late
  <2>2. Alerted = {}
      BY DEF NetInit, E!EmergencyInit, Alerted
  <2> QED BY <2>1, <2>2 DEF NetInit, Init, Promise!Init
<1>2. NetInv /\ [NetNext]_netVars => [Promise!Next]_promised
    BY NetKeepsPromise
<1> QED BY <1>1, <1>2, NetInvariance, PTL
        DEF NetSpec, ImplementsPromise, Promise!Spec, promised

-------------------------------------------------------------------------------
(***************************************************************************)
(* What the promise is worth: its consequences, which need nothing of the  *)
(* service, hold of the rows of the whole process.                         *)
(***************************************************************************)

\* Everybody alerted about had her time over, which it stays.
PromiseInv ==
    /\ \A c \in CheckInIds, m \in Instances : <<c, m>> \in Alerted => c \in Late
    /\ status \in [CheckInIds -> {"absent", "pending", "completed", "missed"}]
    /\ ontime \subseteq CheckInIds
    /\ Promise!SafeIsFinal

LEMMA PromiseStep ==
    ASSUME PromiseInv, [Promise!Next]_promised
    PROVE  PromiseInv'
<1> USE DEF PromiseInv, Promise!SafeIsFinal
<1>1. CASE UNCHANGED promised
    BY <1>1 DEF promised
<1>2. ASSUME NEW c \in CheckInIds, Promise!Schedule(c) PROVE PromiseInv'
    BY <1>2 DEF Promise!Schedule
<1>3. ASSUME NEW c \in CheckInIds, Promise!Complete(c) PROVE PromiseInv'
    BY <1>3 DEF Promise!Complete
<1>4. ASSUME NEW c \in CheckInIds, Promise!Miss(c) PROVE PromiseInv'
    BY <1>4 DEF Promise!Miss
<1>5. ASSUME NEW c \in CheckInIds, NEW m \in Instances, Promise!Alert(c, m) PROVE PromiseInv'
    BY <1>5 DEF Promise!Alert
<1>6. CASE Promise!TimePasses
    BY <1>6 DEF Promise!TimePasses
<1> QED BY <1>1, <1>2, <1>3, <1>4, <1>5, <1>6 DEF Promise!Next

\* A user who completed her check-in in time finds it completed ever after, and
\* there is no row of emergency_alerts for it, not even one whose INSERT was not
\* acknowledged (checkin.go:57-82, :172-186).
THEOREM NobodySafeIsAlerted == NetSpec => []Promise!SafeIsFinal
<1>1. Promise!Init => PromiseInv
    BY DEF Promise!Init, PromiseInv, Promise!SafeIsFinal
<1>2. PromiseInv => Promise!SafeIsFinal
    BY DEF PromiseInv
<1> QED BY <1>1, <1>2, PromiseStep, PromiseImplemented, PTL
        DEF ImplementsPromise, Promise!Spec, promised

\* No step of the process takes an alert row away, or gives a check-in whose
\* time is over new time.
THEOREM NothingTakenBack == NetSpec => Promise!NothingIsTakenBack
<1>1. [Promise!Next]_promised => [Late \subseteq Late' /\ Alerted \subseteq Alerted']_promised
    BY DEF Promise!Next, Promise!Schedule, Promise!Complete, Promise!Miss, Promise!Alert,
           Promise!TimePasses
<1> QED BY <1>1, PromiseImplemented, PTL
        DEF ImplementsPromise, Promise!Spec, Promise!NothingIsTakenBack, promised
===============================================================================
