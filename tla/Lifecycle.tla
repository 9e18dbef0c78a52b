------------------------------- MODULE Lifecycle -------------------------------
(***************************************************************************)
(* Start, stop and restart of the two services that use the database, and  *)
(* the connection pool of "checkin-dao" between its requests and its       *)
(* monitor (services/checkin-dao/main.go, db/postgres.go,                  *)
(* services/attestation/src/main.rs, docker-compose.yml).                  *)
(*                                                                         *)
(* main of "checkin-dao" connects, migrates, serves; on SIGTERM a goroutine*)
(* cancels the monitor's context and calls srv.Shutdown, upon which        *)
(* ListenAndServe returns at once, and main closes the pool, which waits   *)
(* for the connections that are out, and returns.                          *)
(*                                                                         *)
(* What the statements do is in the models of the services; here a request *)
(* is a number of statements, each on a connection of the pool.            *)
(***************************************************************************)
EXTENDS Schema, Naturals, FiniteSets

CONSTANTS
    Workers,        \* requests, and the goroutines they start, at the same time
    PoolSize,       \* MaxConns of the pool (25)
    MaxStatements,  \* bound: statements of a request, of a monitor's pass
    MaxFaults       \* bound: processes killed, and lost connections

ASSUME WorkersAssumption == IsFiniteSet(Workers)
ASSUME PoolAssumption == PoolSize \in Nat /\ PoolSize >= 2
ASSUME LifecycleBounds == MaxStatements \in Nat /\ MaxFaults \in Nat

VARIABLES
    db,          \* the database takes connections
    main,        \* where main of checkin-dao stands
    monitor,     \* where processMissedCheckIns stands
    rows,        \* statements its pass has still to make for its rows
    worker,      \* where each request stands
    statements,  \* how many statements it has made
    attestation, \* where main of the attestation service stands
    faults

poolVars == <<monitor, rows, worker, statements>>
vars == <<layout, db, main, poolVars, attestation, faults>>

MainStages == {"down", "connected", "serving", "signalled", "closing", "failed", "exited"}
Serving == {"serving", "signalled", "closing"}

LifecycleTypeOK ==
    /\ SchemaTypeOK
    /\ db \in BOOLEAN
    /\ main \in MainStages
    /\ monitor \in {"off", "idle", "select", "rows", "update", "wide", "blocked"}
    /\ rows \in 0..MaxStatements
    /\ worker \in [Workers -> {"idle", "running", "waiting", "query", "lock"}]
    /\ statements \in [Workers -> 0..MaxStatements]
    /\ attestation \in {"down", "connected", "serving", "failed"}
    /\ faults \in 0..MaxFaults

Init ==
    /\ SchemaInit
    /\ db = FALSE
    /\ main = "down"
    /\ monitor = "off"
    /\ rows = 0
    /\ worker = [w \in Workers |-> "idle"]
    /\ statements = [w \in Workers |-> 0]
    /\ attestation = "down"
    /\ faults = 0

Fault == faults < MaxFaults /\ faults' = faults + 1

(***************************************************************************)
(* The database.                                                           *)
(***************************************************************************)
\* Where 001 is mounted and the volume is empty, the container runs it before
\* it takes connections.
DatabaseStarts ==
    /\ ~db
    /\ db' = TRUE
    /\ InitialSchema \/ UNCHANGED layout
    /\ UNCHANGED <<main, poolVars, attestation, faults>>

\* Somebody runs psql -f 001, as the README says.
OperatorLoadsSchema ==
    /\ db
    /\ InitialSchema
    /\ UNCHANGED <<db, main, poolVars, attestation, faults>>

(***************************************************************************)
(* Start of checkin-dao.                                                   *)
(***************************************************************************)
\* NewPool: a failed Ping ends in log.Fatal.
Connect ==
    /\ main = "down"
    /\ main' = IF db THEN "connected" ELSE "failed"
    /\ UNCHANGED <<layout, db, poolVars, attestation, faults>>

\* RunMigrations, then the monitor's goroutine and the server are started.
Migrate ==
    /\ main = "connected"
    /\ CheckInMigration
    /\ main' = "serving"
    /\ monitor' = "idle"
    /\ UNCHANGED <<db, rows, worker, statements, attestation, faults>>

\* An error of the script, or a connection lost in it, ends in log.Fatal.
MigrateFails ==
    /\ main = "connected"
    /\ \/ ~HasIndexedColumns /\ UNCHANGED faults
       \/ Fault
    /\ main' = "failed"
    /\ UNCHANGED <<layout, db, poolVars, attestation>>

\* restart: unless-stopped.
Restart ==
    /\ \/ main = "failed" /\ main' = "down" /\ UNCHANGED attestation
       \/ attestation = "failed" /\ attestation' = "down" /\ UNCHANGED main
    /\ UNCHANGED <<layout, db, poolVars, faults>>

(***************************************************************************)
(* The pool.                                                               *)
(***************************************************************************)
MonitorHolds ==
    CASE monitor \in {"off", "idle"} -> 0
      [] monitor \in {"select", "rows", "wide"} -> 1
      [] monitor \in {"update", "blocked"} -> 2

Querying == {w \in Workers : worker[w] \in {"query", "lock"}}
Held == Cardinality(Querying) + MonitorHolds
PoolOpen == main \in {"serving", "signalled"}
CanAcquire == PoolOpen /\ Held < PoolSize

\* Mutant of Cancelled: main cancels the monitor after the pool is closed.
CancelledAtExit == main = "exited"

\* The monitor's context: its statements fail, or are broken off.
Cancelled == main \in {"signalled", "closing"}

(***************************************************************************)
(* Requests.                                                               *)
(***************************************************************************)
RequestAlone == UNCHANGED <<layout, db, main, monitor, rows, attestation, faults>>

Arrive(w) ==
    /\ main \in {"serving", "signalled"}
    /\ worker[w] = "idle"
    /\ worker' = [worker EXCEPT ![w] = "running"]
    /\ statements' = [statements EXCEPT ![w] = 0]
    /\ RequestAlone

BeginStatement(w) ==
    /\ worker[w] = "running"
    /\ statements[w] < MaxStatements
    /\ worker' = [worker EXCEPT ![w] = "waiting"]
    /\ statements' = [statements EXCEPT ![w] = @ + 1]
    /\ RequestAlone

Moves(w, from, to) ==
    /\ worker[w] = from
    /\ worker' = [worker EXCEPT ![w] = to]
    /\ UNCHANGED statements
    /\ RequestAlone

Acquire(w) == CanAcquire /\ Moves(w, "waiting", "query")

\* A closed pool answers who waits with an error.
PoolClosed(w) == ~PoolOpen /\ Moves(w, "waiting", "running")

\* Mutant of EndStatement: the connection is not given back.
EndStatementLeaking(w) == Moves(w, "query", "query")

EndStatement(w) == Moves(w, "query", "running")

\* The monitor's SELECT ... FOR UPDATE is open and holds the locks of its rows.
RowsLocked == monitor \in {"select", "wide", "blocked"}

\* A statement meets a row so locked, and goes on when it is not any more.
WaitForRow(w) == RowsLocked /\ Moves(w, "query", "lock")
RowUnlocked(w) == ~RowsLocked /\ Moves(w, "lock", "running")

\* The answer of a handler, an error too.
Respond(w) == Moves(w, "running", "idle")

RequestRuns(w) == BeginStatement(w) \/ Respond(w) \/ PoolClosed(w) \/ EndStatement(w)

(***************************************************************************)
(* The monitor; CheckIns says what its statements do.                      *)
(***************************************************************************)
MonitorAlone == UNCHANGED <<layout, db, main, worker, statements, attestation, faults>>

Tick ==
    /\ monitor = "idle"
    /\ ~Cancelled
    /\ CanAcquire
    /\ monitor' = "select"
    /\ rows' \in 0..MaxStatements
    /\ MonitorAlone

\* The rows have arrived and the statement is over; or they are more than the
\* connection holds unread, and the statement stays open.
RowsArrive ==
    /\ monitor = "select"
    /\ monitor' \in {"rows"} \cup (IF rows > 0 THEN {"wide"} ELSE {})
    /\ UNCHANGED rows
    /\ MonitorAlone

\* A row's statements run on a second connection.  Those of a result that is
\* still open wait for the locks of that result.
AcquireForRow ==
    /\ ~Cancelled
    /\ CanAcquire
    /\ rows > 0
    /\ \/ monitor = "rows" /\ monitor' = "update"
       \/ monitor = "wide" /\ monitor' = "blocked"
    /\ UNCHANGED rows
    /\ MonitorAlone

RowDone ==
    /\ monitor = "update"
    /\ monitor' = "rows"
    /\ rows' = rows - 1
    /\ MonitorAlone

PassOver ==
    /\ monitor = "rows"
    /\ rows = 0
    /\ monitor' = "idle"
    /\ UNCHANGED rows
    /\ MonitorAlone

\* Every statement of the pass fails; then the loop sees ctx.Done().
MonitorStops ==
    /\ Cancelled
    /\ monitor # "off"
    /\ monitor' = IF monitor = "idle" THEN "off" ELSE "idle"
    /\ rows' = 0
    /\ MonitorAlone

MonitorRuns == RowsArrive \/ RowDone \/ PassOver \/ MonitorStops

(***************************************************************************)
(* Stop of checkin-dao.                                                    *)
(***************************************************************************)
AllGone ==
    /\ monitor' = "off"
    /\ rows' = 0
    /\ worker' = [w \in Workers |-> "idle"]
    /\ UNCHANGED statements

\* SIGTERM: cancel(), if the goroutine that waits for it runs.
Signal ==
    /\ main \in {"connected", "serving"}
    /\ main' = IF main = "serving" THEN "signalled" ELSE "exited"
    /\ UNCHANGED <<layout, db, poolVars, attestation, faults>>

\* srv.Shutdown closes the listener, ListenAndServe returns, and the deferred
\* pool.Close() begins.  Nobody waits for srv.Shutdown to return.
ListenerCloses ==
    /\ main = "signalled"
    /\ main' = "closing"
    /\ UNCHANGED <<layout, db, poolVars, attestation, faults>>

\* pool.Close() returns, then main: requests between two statements are cut.
Exit ==
    /\ main = "closing"
    /\ Held = 0
    /\ main' = "exited"
    /\ AllGone
    /\ UNCHANGED <<layout, db, attestation, faults>>

\* A crash, or the SIGKILL after a SIGTERM.
Kill ==
    /\ main \in Serving
    /\ Fault
    /\ main' = IF main = "serving" THEN "failed" ELSE "exited"
    /\ AllGone
    /\ UNCHANGED <<layout, db, attestation>>

OperatorStarts ==
    /\ main = "exited"
    /\ main' = "down"
    /\ UNCHANGED <<layout, db, poolVars, attestation, faults>>

(***************************************************************************)
(* The attestation service.                                                *)
(***************************************************************************)
AttestationAlone == UNCHANGED <<db, main, poolVars>>

\* init_pool: expect() panics.
AttestationConnects ==
    /\ attestation = "down"
    /\ attestation' = IF db THEN "connected" ELSE "failed"
    /\ UNCHANGED <<layout, faults>>
    /\ AttestationAlone

AttestationMigrates ==
    /\ attestation = "connected"
    /\ AttestationMigration
    /\ attestation' = "serving"
    /\ UNCHANGED faults
    /\ AttestationAlone

\* The migration loses its connection, or the process is killed.
AttestationFails ==
    /\ attestation \in {"connected", "serving"}
    /\ Fault
    /\ attestation' = "failed"
    /\ UNCHANGED layout
    /\ AttestationAlone

-------------------------------------------------------------------------------
StartStep == Connect \/ Migrate
StopStep == ListenerCloses \/ Exit
AttestationStep == AttestationConnects \/ AttestationMigrates

Environment ==
    \/ OperatorLoadsSchema
    \/ MigrateFails
    \/ Signal
    \/ Kill
    \/ OperatorStarts
    \/ AttestationFails

Next ==
    \/ DatabaseStarts
    \/ StartStep
    \/ StopStep
    \/ Restart
    \/ AttestationStep
    \/ Environment
    \/ Tick
    \/ AcquireForRow
    \/ MonitorRuns
    \/ \E w \in Workers :
          \/ Arrive(w)
          \/ Acquire(w)
          \/ WaitForRow(w)
          \/ RowUnlocked(w)
          \/ RequestRuns(w)

Spec == Init /\ [][Next]_vars

\* The database comes up, docker restarts what failed, a process that can go on
\* does, and statements end.  The pool serves who waits in their order, and
\* the database hands a lock on: neither passes one over for ever.
Fairness ==
    /\ WF_vars(DatabaseStarts) /\ WF_vars(Restart)
    /\ WF_vars(StartStep) /\ WF_vars(StopStep) /\ WF_vars(AttestationStep)
    /\ WF_vars(MonitorRuns) /\ SF_vars(AcquireForRow)
    /\ \A w \in Workers :
          /\ WF_vars(RequestRuns(w))
          /\ SF_vars(Acquire(w)) /\ SF_vars(RowUnlocked(w))

FairSpec == Spec /\ Fairness

-------------------------------------------------------------------------------
(***************************************************************************)
(* Properties.                                                             *)
(***************************************************************************)

\* The service answers requests only over tables with the columns of its own
\* schemaSQL, whoever ran which script before it, and whoever runs one
\* afterwards (main.go:43-45).
ServesOwnTables ==
    main \in Serving => \A t \in CheckInTables : layout[t] = "service"

\* A stop comes to its end: no connection is out for ever, although the monitor
\* may be waiting for a lock of its own result when the signal comes
\* (main.go:82-97).
StopEnds == main = "signalled" ~> main = "exited"

\* A process that is started serves in the end, however late the database is
\* and whoever was killed in between, unless the tables of 001 were there first
\* (main.go:37-45, docker-compose.yml:55).
StartServes ==
    main \in {"down", "connected", "failed"} ~>
        main \in Serving \cup {"exited"} \/ ~HasIndexedColumns

\* Requests and the monitor share the pool, of which the monitor takes two
\* connections at a time: every request comes to an end, and every pass, unless a
\* result is too large for its connection (postgres.go:24, checkin.go:152-188).
NobodyStarves ==
    /\ \A w \in Workers :
          worker[w] # "idle" ~> worker[w] = "idle" \/ monitor \in {"wide", "blocked"}
    /\ monitor \in {"select", "rows", "update"} ~>
          monitor \in {"off", "idle", "wide", "blocked"}
===============================================================================
