------------------------------- MODULE CheckIns -------------------------------
(***************************************************************************)
(* The check-in service of the Go process "checkin-dao"                    *)
(* (services/checkin-dao/services/checkin.go) over the table check_ins.    *)
(*                                                                         *)
(* HTTP workers (Requests) schedule and complete check-ins; each of the    *)
(* two operations is a guard or a query followed by a separate statement   *)
(* that commits on its own.  One monitor goroutine per process instance    *)
(* (Instances) wakes up every minute, streams the overdue pending rows     *)
(* with SELECT ... FOR UPDATE SKIP LOCKED on one pooled connection, and    *)
(* marks each row missed and raises its alert on other connections.  A row *)
(* lock taken by a statement lives until that statement ends: no           *)
(* operation of the service opens a transaction.                           *)
(*                                                                         *)
(* One clock stands for the clocks of the service and of the database.     *)
(* The ticker is abstracted: an idle monitor may wake up at any time.  A   *)
(* statement that touches one row is one step.                             *)
(***************************************************************************)
EXTENDS Integers, FiniteSets

CONSTANTS
    Users,        \* users.id
    NoUser,       \* the user_id of a row that does not exist
    CheckInIds,   \* check_ins.id, fresh UUIDs
    Requests,     \* HTTP workers running ScheduleCheckIn or CompleteCheckIn
    Instances,    \* processes of the service, one monitor goroutine each
    MaxTime,      \* bound: the clock stops here
    MaxFaults,    \* bound: failures of the monitor's side in one behaviour
    BufRows       \* rows of a result set its connection holds unread

ASSUME NoUserAssumption == NoUser \notin Users
ASSUME BoundsAssumption == MaxTime \in Nat /\ MaxFaults \in Nat
ASSUME BufRowsAssumption == BufRows \in Nat \ {0}

VARIABLES
    now,      \* the clock
    status,   \* check_ins.status, "absent" before the INSERT
    owner,    \* check_ins.user_id
    due,      \* check_ins.scheduled_at
    req,      \* where each HTTP worker stands
    pc,       \* where each monitor stands in its loop
    inHand,   \* the row scanned by the loop: {} or a singleton
    snap,     \* rows in the snapshot of the SELECT that it has yet to visit
    sent,     \* rows sent to the client and not yet read by rows.Next()
    locked,   \* rows locked by the open SELECT ... FOR UPDATE
    raised,   \* history: alerts raised by each instance for each check-in
    ontime,   \* history: check-ins completed while they were not overdue
    faults    \* failures so far

rowVars == <<status, owner, due>>
monVars == <<pc, inHand, snap, sent, locked>>
vars == <<now, rowVars, req, monVars, raised, ontime, faults>>

Idle == [at |-> "idle"]
InsertStep == [at : {"insert"}, id : CheckInIds, user : Users, due : 0..MaxTime]
UpdateStep == [at : {"update"}, id : CheckInIds]

CheckInsTypeOK ==
    /\ now \in 0..MaxTime
    /\ status \in [CheckInIds -> {"absent", "pending", "completed", "missed"}]
    /\ owner \in [CheckInIds -> Users \cup {NoUser}]
    /\ due \in [CheckInIds -> 0..MaxTime]
    /\ req \in [Requests -> {Idle} \cup InsertStep \cup UpdateStep]
    /\ pc \in [Instances -> {"idle", "next", "update", "alert"}]
    /\ inHand \in [Instances -> SUBSET CheckInIds]
    /\ snap \in [Instances -> SUBSET CheckInIds]
    /\ sent \in [Instances -> SUBSET CheckInIds]
    /\ locked \in [Instances -> SUBSET CheckInIds]
    /\ raised \in [Instances -> [CheckInIds -> Nat]]
    /\ ontime \in SUBSET CheckInIds
    /\ faults \in 0..MaxFaults

Init ==
    /\ now = 0
    /\ status = [c \in CheckInIds |-> "absent"]
    /\ owner = [c \in CheckInIds |-> NoUser]
    /\ due = [c \in CheckInIds |-> 0]
    /\ req = [q \in Requests |-> Idle]
    /\ pc = [m \in Instances |-> "idle"]
    /\ inHand = [m \in Instances |-> {}]
    /\ snap = [m \in Instances |-> {}]
    /\ sent = [m \in Instances |-> {}]
    /\ locked = [m \in Instances |-> {}]
    /\ raised = [m \in Instances |-> [c \in CheckInIds |-> 0]]
    /\ ontime = {}
    /\ faults = 0

(***************************************************************************)
(* Helpers.                                                                *)
(***************************************************************************)

\* A statement that wants the row of c waits while a stream holds its lock.
Locked(c) == \E m \in Instances : c \in locked[m]

\* Mutants of Overdue: "<=" for "<", and a SELECT without the time condition.
OverdueWhenDue(c) == status[c] = "pending" /\ due[c] <= now
OverdueAnyTime(c) == status[c] = "pending"

\* The condition of the monitor's SELECT.
Overdue(c) == status[c] = "pending" /\ due[c] < now

\* No INSERT of another worker carries this id.
Fresh(c) ==
    /\ status[c] = "absent"
    /\ \A q \in Requests : req[q] \in InsertStep => req[q].id # c

Fault == faults < MaxFaults /\ faults' = faults + 1

(***************************************************************************)
(* HTTP workers.                                                           *)
(***************************************************************************)

\* ScheduleCheckIn up to its guard: the time asked for is not in the past.
InFuture(d) == ~(d < now)

BeginSchedule(q, c, u, d) ==
    /\ req[q] = Idle
    /\ Fresh(c)
    /\ InFuture(d)
    /\ req' = [req EXCEPT ![q] = [at |-> "insert", id |-> c, user |-> u, due |-> d]]
    /\ UNCHANGED <<now, rowVars, monVars, raised, ontime, faults>>

\* The INSERT of ScheduleCheckIn; the clock may have passed the due time.
InsertCheckIn(q) ==
    /\ req[q].at = "insert"
    /\ status' = [status EXCEPT ![req[q].id] = "pending"]
    /\ owner' = [owner EXCEPT ![req[q].id] = req[q].user]
    /\ due' = [due EXCEPT ![req[q].id] = req[q].due]
    /\ req' = [req EXCEPT ![q] = Idle]
    /\ UNCHANGED <<now, monVars, raised, ontime, faults>>

\* The SELECT ... FOR UPDATE of CompleteCheckIn and the checks that follow.
\* The lock is gone when the statement ends; only the decision is kept.
SelectForUpdate(q, c, u) ==
    /\ req[q] = Idle
    /\ ~Locked(c)
    /\ owner[c] = u
    /\ status[c] = "pending"
    /\ req' = [req EXCEPT ![q] = [at |-> "update", id |-> c]]
    /\ UNCHANGED <<now, rowVars, monVars, raised, ontime, faults>>

\* The UPDATE of CompleteCheckIn, whose WHERE names the id alone.
CompleteUpdate(q) ==
    /\ req[q].at = "update"
    /\ ~Locked(req[q].id)
    /\ status' = [status EXCEPT ![req[q].id] = "completed"]
    /\ ontime' = IF due[req[q].id] < now THEN ontime ELSE ontime \cup {req[q].id}
    /\ req' = [req EXCEPT ![q] = Idle]
    /\ UNCHANGED <<now, owner, due, monVars, raised, faults>>

\* The second statement fails, or its process dies: nothing was written.
RequestFails(q) ==
    /\ req[q] # Idle
    /\ req' = [req EXCEPT ![q] = Idle]
    /\ UNCHANGED <<now, rowVars, monVars, raised, ontime, faults>>

(***************************************************************************)
(* The database side of the monitor's SELECT ... FOR UPDATE SKIP LOCKED:   *)
(* rows of the snapshot are visited in any order, checked again in their   *)
(* current version, locked and sent, until the connection is full; the     *)
(* locks fall when the last row has been sent.                             *)
(***************************************************************************)

LockRow(m, c) ==
    /\ c \in snap[m]
    /\ Cardinality(sent[m]) < BufRows
    /\ Overdue(c)
    /\ ~Locked(c)
    /\ snap' = [snap EXCEPT ![m] = @ \ {c}]
    /\ sent' = [sent EXCEPT ![m] = @ \cup {c}]
    /\ locked' = [locked EXCEPT ![m] = @ \cup {c}]
    /\ UNCHANGED <<now, rowVars, req, pc, inHand, raised, ontime, faults>>

SkipRow(m, c) ==
    /\ c \in snap[m]
    /\ Locked(c) \/ ~Overdue(c)
    /\ snap' = [snap EXCEPT ![m] = @ \ {c}]
    /\ UNCHANGED <<now, rowVars, req, pc, inHand, sent, locked, raised, ontime, faults>>

\* Mutant: the SELECT runs in a transaction that lasts until all rows are read.
EndStreamAfterReading(m) ==
    /\ snap[m] = {} /\ sent[m] = {}
    /\ locked[m] # {}
    /\ locked' = [locked EXCEPT ![m] = {}]
    /\ UNCHANGED <<now, rowVars, req, pc, inHand, snap, sent, raised, ontime, faults>>

EndStream(m) ==
    /\ snap[m] = {}
    /\ locked[m] # {}
    /\ locked' = [locked EXCEPT ![m] = {}]
    /\ UNCHANGED <<now, rowVars, req, pc, inHand, snap, sent, raised, ontime, faults>>

(***************************************************************************)
(* The monitor goroutine.                                                  *)
(***************************************************************************)

\* The rows the SELECT's snapshot holds.  An empty one leaves nothing to do.
OverdueRows == {c \in CheckInIds : Overdue(c)}

Tick(m) ==
    /\ pc[m] = "idle"
    /\ OverdueRows # {}
    /\ pc' = [pc EXCEPT ![m] = "next"]
    /\ snap' = [snap EXCEPT ![m] = OverdueRows]
    /\ UNCHANGED <<now, rowVars, req, inHand, sent, locked, raised, ontime, faults>>

\* rows.Next() and rows.Scan() return a row.
NextRow(m, c) ==
    /\ pc[m] = "next"
    /\ c \in sent[m]
    /\ sent' = [sent EXCEPT ![m] = @ \ {c}]
    /\ inHand' = [inHand EXCEPT ![m] = {c}]
    /\ pc' = [pc EXCEPT ![m] = "update"]
    /\ UNCHANGED <<now, rowVars, req, snap, locked, raised, ontime, faults>>

\* rows.Next() returns false: the result set is exhausted.
LoopEnds(m) ==
    /\ pc[m] = "next"
    /\ snap[m] = {} /\ sent[m] = {} /\ locked[m] = {}
    /\ pc' = [pc EXCEPT ![m] = "idle"]
    /\ UNCHANGED <<now, rowVars, req, inHand, snap, sent, locked, raised, ontime, faults>>

\* Mutant of MarkMissed: it goes on with the next row without an alert.
MarkMissedSilently(m, c) ==
    /\ pc[m] = "update"
    /\ c \in inHand[m]
    /\ ~Locked(c)
    /\ status' = [status EXCEPT ![c] = "missed"]
    /\ inHand' = [inHand EXCEPT ![m] = {}]
    /\ pc' = [pc EXCEPT ![m] = "next"]
    /\ UNCHANGED <<now, owner, due, req, snap, sent, locked, raised, ontime, faults>>

\* The UPDATE ... SET status = 'missed' WHERE id, on another connection.
MarkMissed(m, c) ==
    /\ pc[m] = "update"
    /\ c \in inHand[m]
    /\ ~Locked(c)
    /\ status' = [status EXCEPT ![c] = "missed"]
    /\ pc' = [pc EXCEPT ![m] = "alert"]
    /\ UNCHANGED <<now, owner, due, req, inHand, snap, sent, locked, raised, ontime, faults>>

\* TriggerAlert returns an alert.
RaiseAlert(m, c) ==
    /\ pc[m] = "alert"
    /\ c \in inHand[m]
    /\ raised' = [raised EXCEPT ![m][c] = @ + 1]
    /\ inHand' = [inHand EXCEPT ![m] = {}]
    /\ pc' = [pc EXCEPT ![m] = "next"]
    /\ UNCHANGED <<now, rowVars, req, snap, sent, locked, ontime, faults>>

(***************************************************************************)
(* Failures on the monitor's side.                                         *)
(***************************************************************************)

\* Mutant: without the "continue" a failed UPDATE goes on to the alert.
MarkMissedFailsAndAlerts(m) ==
    /\ pc[m] = "update"
    /\ Fault
    /\ pc' = [pc EXCEPT ![m] = "alert"]
    /\ UNCHANGED <<now, rowVars, req, inHand, snap, sent, locked, raised, ontime>>

\* The UPDATE returns an error: "continue" drops the row for this pass.
MarkMissedFails(m) ==
    /\ pc[m] = "update"
    /\ Fault
    /\ inHand' = [inHand EXCEPT ![m] = {}]
    /\ pc' = [pc EXCEPT ![m] = "next"]
    /\ UNCHANGED <<now, rowVars, req, snap, sent, locked, raised, ontime>>

\* The UPDATE commits but its acknowledgement is lost: the same "continue".
MarkMissedUnacked(m, c) ==
    /\ pc[m] = "update"
    /\ c \in inHand[m]
    /\ ~Locked(c)
    /\ Fault
    /\ status' = [status EXCEPT ![c] = "missed"]
    /\ inHand' = [inHand EXCEPT ![m] = {}]
    /\ pc' = [pc EXCEPT ![m] = "next"]
    /\ UNCHANGED <<now, owner, due, req, snap, sent, locked, raised, ontime>>

\* TriggerAlert returns an error, which is logged and forgotten.
RaiseAlertFails(m) ==
    /\ pc[m] = "alert"
    /\ Fault
    /\ inHand' = [inHand EXCEPT ![m] = {}]
    /\ pc' = [pc EXCEPT ![m] = "next"]
    /\ UNCHANGED <<now, rowVars, req, snap, sent, locked, raised, ontime>>

\* The streaming connection breaks: rows.Next() will return false after the
\* rows that had arrived, and rows.Err() is never looked at.
StreamBreaks(m) ==
    /\ snap[m] # {} \/ locked[m] # {}
    /\ Fault
    /\ snap' = [snap EXCEPT ![m] = {}]
    /\ locked' = [locked EXCEPT ![m] = {}]
    /\ \E arrived \in SUBSET sent[m] : sent' = [sent EXCEPT ![m] = arrived]
    /\ UNCHANGED <<now, rowVars, req, pc, inHand, raised, ontime>>

\* The process dies and comes back; the database ends its statements.
Crash(m) ==
    /\ pc[m] # "idle"
    /\ Fault
    /\ pc' = [pc EXCEPT ![m] = "idle"]
    /\ inHand' = [inHand EXCEPT ![m] = {}]
    /\ snap' = [snap EXCEPT ![m] = {}]
    /\ sent' = [sent EXCEPT ![m] = {}]
    /\ locked' = [locked EXCEPT ![m] = {}]
    /\ UNCHANGED <<now, rowVars, req, raised, ontime>>

AdvanceClock ==
    /\ now < MaxTime
    /\ now' = now + 1
    /\ UNCHANGED <<rowVars, req, monVars, raised, ontime, faults>>

(***************************************************************************)
(* Specification.                                                          *)
(***************************************************************************)

WorkerStep(q) ==
    \/ \E c \in CheckInIds, u \in Users, d \in 0..MaxTime : BeginSchedule(q, c, u, d)
    \/ \E c \in CheckInIds, u \in Users : SelectForUpdate(q, c, u)
    \/ InsertCheckIn(q)
    \/ CompleteUpdate(q)
    \/ RequestFails(q)

StreamStep(m) ==
    \/ \E c \in CheckInIds : LockRow(m, c) \/ SkipRow(m, c)
    \/ EndStream(m)

MonitorStep(m) ==
    \/ Tick(m)
    \/ \E c \in CheckInIds : NextRow(m, c) \/ MarkMissed(m, c) \/ RaiseAlert(m, c)
    \/ LoopEnds(m)

FaultStep(m) ==
    \/ MarkMissedFails(m)
    \/ \E c \in CheckInIds : MarkMissedUnacked(m, c)
    \/ RaiseAlertFails(m)
    \/ StreamBreaks(m)
    \/ Crash(m)

Next ==
    \/ \E q \in Requests : WorkerStep(q)
    \/ \E m \in Instances : StreamStep(m) \/ MonitorStep(m) \/ FaultStep(m)
    \/ AdvanceClock

Spec == Init /\ [][Next]_vars

\* A goroutine that can run is run, and the database finishes a statement
\* that can proceed.  Nobody owes a request, a tick of the clock or a fault.
Fairness ==
    \A m \in Instances : WF_vars(MonitorStep(m)) /\ WF_vars(StreamStep(m))

FairSpec == Spec /\ Fairness

-------------------------------------------------------------------------------
(***************************************************************************)
(* Properties.                                                             *)
(***************************************************************************)

\* A check-in completed before it was overdue stays completed and no monitor
\* ever raises an alert for it, although CompleteCheckIn and the monitor both
\* write the row without looking at it again (checkin.go:76, :172).
OnTimeCompletionIsFinal ==
    \A c \in ontime :
        /\ status[c] = "completed"
        /\ \A m \in Instances : raised[m][c] = 0

\* One monitor raises at most one alert for a check-in, whatever fails
\* between its UPDATE and its alert and however often it restarts.
AtMostOneAlertPerInstance ==
    \A m \in Instances, c \in CheckInIds : raised[m][c] <= 1

\* No alert is raised for a check-in whose time has not come, nor for one
\* that is still pending: the row is marked first (checkin.go:171-186).
AlertsOnlyOverdue ==
    \A m \in Instances, c \in CheckInIds :
        raised[m][c] > 0 => due[c] < now /\ status[c] \in {"missed", "completed"}

\* An overdue pending check-in is eventually decided, through any bounded
\* number of failures: a row dropped by "continue", by a broken stream or by a
\* crash is found again by a later tick (README.md:164).
OverdueDetected ==
    \A c \in CheckInIds : Overdue(c) ~> status[c] # "pending"

\* A check-in marked missed eventually has its alert, which is the point of
\* the monitor (frontend/src/app/checkin/page.tsx:55).
MissedRaisesAlert ==
    \A c \in CheckInIds :
        status[c] = "missed" ~> \E m \in Instances : raised[m][c] > 0

\* A monitor has marked the row and calls TriggerAlert next.
AboutToAlert(c) == \E m \in Instances : pc[m] = "alert" /\ c \in inHand[m]

\* The missed check-ins nobody was alerted about, and nobody is going to be.
Lost ==
    {c \in CheckInIds :
        /\ status[c] = "missed"
        /\ ~AboutToAlert(c)
        /\ \A m \in Instances : raised[m][c] = 0}

\* A missed check-in stays without an alert through a failure of its own only: no
\* race of two monitors, and none with a completion, loses one, and no failure
\* loses two, whichever statement of the loop it hits (checkin.go:167-190).
LostAlertsAreFaults == Cardinality(Lost) <= faults
===============================================================================
