---------------------------- MODULE LifecycleProofs ----------------------------
(***************************************************************************)
(* Proofs about Lifecycle: types, and that the service answers only over   *)
(* the tables of its own script.  The argument is that the tables it uses  *)
(* never mix two scripts, because each script is one transaction that      *)
(* fails over the other one's tables.                                      *)
(*                                                                         *)
(* Then the pool: it never hands out more connections than it has, nothing *)
(* of a process outlives it, and whenever the pool is exhausted somebody   *)
(* who holds a connection can give it back, unless the monitor has a result*)
(* that its connection cannot hold.  Last the stop: connections only come  *)
(* back while the pool is being closed, and each that is out can.          *)
(***************************************************************************)
EXTENDS Lifecycle, FiniteSetTheorems, TLAPS

\* The tables checkin-dao uses were all created by the same script.
OneLayout == \A t \in CheckInTables : layout[t] = layout["check_ins"]

\* The monitor makes statements only for a row it has.
RowInHand == monitor \in {"update", "blocked"} => rows > 0

IInv ==
    /\ LifecycleTypeOK
    /\ RowInHand
    /\ OneLayout
    /\ ServesOwnTables

\* A table that is there keeps its columns, whatever script runs.
LEMMA CreatedKeeps ==
    ASSUME SchemaTypeOK, NEW tables, NEW columns \in {"initial", "service"},
           layout' = Created(tables, columns)
    PROVE  /\ SchemaTypeOK'
           /\ \A t \in Tables : layout[t] # "absent" => layout'[t] = layout[t]
           /\ \A t \in Tables : t \in tables /\ layout[t] = "absent" => layout'[t] = columns
           /\ \A t \in Tables : t \notin tables => layout'[t] = layout[t]
  BY DEF SchemaTypeOK, Created

\* 001 leaves the tables of checkin-dao with one layout, and leaves them alone
\* when they are there.
LEMMA InitialKeeps ==
    ASSUME SchemaTypeOK, OneLayout, InitialSchema
    PROVE  /\ SchemaTypeOK' /\ OneLayout'
           /\ layout["check_ins"] # "absent" => \A t \in CheckInTables : layout'[t] = layout[t]
<1>1. CASE layout["check_ins"] = "absent"
  <2>1. \A t \in CheckInTables : layout[t] = "absent"
    BY <1>1 DEF OneLayout
  <2>2. layout' = Created(Tables, "initial")
    BY <1>1, <2>1 DEF InitialSchema, CheckInTables
  <2>3. SchemaTypeOK' /\ \A t \in CheckInTables : layout'[t] = "initial"
    BY <2>1, <2>2, CreatedKeeps DEF Tables
  <2> QED  BY <1>1, <2>3 DEF OneLayout, CheckInTables
<1>2. CASE layout["check_ins"] # "absent"
  <2>1. layout' = layout
    BY <1>2 DEF InitialSchema
  <2> QED  BY <2>1 DEF OneLayout, SchemaTypeOK
<1> QED  BY <1>1, <1>2

\* What the migration of checkin-dao leaves behind are its own tables.
LEMMA MigrationOwns ==
    ASSUME SchemaTypeOK, OneLayout, CheckInMigration
    PROVE  SchemaTypeOK' /\ \A t \in CheckInTables : layout'[t] = "service"
<1>1. \A t \in CheckInTables : layout[t] \in {"absent", "service"}
  BY DEF CheckInMigration, HasIndexedColumns, OneLayout, SchemaTypeOK, CheckInTables, Tables
<1>2. layout' = Created(CheckInTables, "service")
  BY DEF CheckInMigration
<1> QED  BY <1>1, <1>2, CreatedKeeps DEF Tables

LEMMA InitIInv == Init => IInv
<1> SUFFICES ASSUME Init PROVE IInv
  OBVIOUS
<1>1. SchemaTypeOK /\ OneLayout
  BY DEF Init, SchemaInit, SchemaTypeOK, OneLayout, CheckInTables, Tables
<1>2. worker \in [Workers -> {"idle", "running", "waiting", "query", "lock"}]
  BY DEF Init
<1>3. statements \in [Workers -> 0..MaxStatements] /\ rows \in 0..MaxStatements
  BY LifecycleBounds DEF Init
<1>4. RowInHand /\ ServesOwnTables
  BY DEF Init, RowInHand, ServesOwnTables, Serving
<1>5. main \in MainStages /\ faults \in 0..MaxFaults
  BY LifecycleBounds DEF Init, MainStages
<1>6. /\ db \in BOOLEAN
      /\ monitor \in {"off", "idle", "select", "rows", "update", "wide", "blocked"}
      /\ attestation \in {"down", "connected", "serving", "failed"}
  BY DEF Init
<1>7. LifecycleTypeOK
  BY <1>1, <1>2, <1>3, <1>5, <1>6, Zenon DEF LifecycleTypeOK
<1> QED  BY <1>1, <1>4, <1>7 DEF IInv

\* A step that touches neither tables nor main leaves what is said of both.
LEMMA SchemaAlone ==
    ASSUME IInv, UNCHANGED <<layout, main>>
    PROVE  SchemaTypeOK' /\ OneLayout' /\ ServesOwnTables'
  BY DEF IInv, LifecycleTypeOK, SchemaTypeOK, OneLayout, ServesOwnTables

\* The steps of a request.
LEMMA RequestSteps ==
    ASSUME IInv, NEW w \in Workers,
           Arrive(w) \/ Acquire(w) \/ WaitForRow(w) \/ RowUnlocked(w) \/ RequestRuns(w)
    PROVE  IInv'
<1> USE LifecycleBounds DEF IInv
<1>1. UNCHANGED <<layout, db, main, monitor, rows, attestation, faults>>
  BY DEF Arrive, Acquire, WaitForRow, RowUnlocked, RequestRuns, BeginStatement, Respond,
         PoolClosed, EndStatement, Moves, RequestAlone
<1>2. /\ worker' \in [Workers -> {"idle", "running", "waiting", "query", "lock"}]
      /\ statements' \in [Workers -> 0..MaxStatements]
  BY DEF LifecycleTypeOK, Arrive, Acquire, WaitForRow, RowUnlocked, RequestRuns,
         BeginStatement, Respond, PoolClosed, EndStatement, Moves
<1>3. SchemaTypeOK' /\ OneLayout' /\ ServesOwnTables'
  BY <1>1, SchemaAlone
<1> QED  BY <1>1, <1>2, <1>3 DEF LifecycleTypeOK, RowInHand

\* The steps of the monitor.
LEMMA MonitorSteps ==
    ASSUME IInv, Tick \/ AcquireForRow \/ MonitorRuns
    PROVE  IInv'
<1> USE LifecycleBounds
<1>1. UNCHANGED <<layout, db, main, worker, statements, attestation, faults>>
  BY DEF Tick, AcquireForRow, MonitorRuns, RowsArrive, RowDone, PassOver, MonitorStops,
         MonitorAlone
<1>2. /\ monitor' \in {"off", "idle", "select", "rows", "update", "wide", "blocked"}
      /\ rows' \in 0..MaxStatements
      /\ RowInHand'
  <2> USE DEF IInv, LifecycleTypeOK, RowInHand
  <2>1. CASE Tick  BY <2>1 DEF Tick
  <2>2. CASE AcquireForRow  BY <2>2 DEF AcquireForRow
  <2>3. CASE RowsArrive  BY <2>3 DEF RowsArrive
  <2>4. CASE RowDone  BY <2>4 DEF RowDone
  <2>5. CASE PassOver  BY <2>5 DEF PassOver
  <2>6. CASE MonitorStops  BY <2>6 DEF MonitorStops
  <2> QED  BY <2>1, <2>2, <2>3, <2>4, <2>5, <2>6 DEF MonitorRuns
<1>3. SchemaTypeOK' /\ OneLayout' /\ ServesOwnTables'
  BY <1>1, SchemaAlone
<1> QED  BY <1>1, <1>2, <1>3 DEF IInv, LifecycleTypeOK

\* Everything else.
LEMMA MainSteps ==
    ASSUME IInv,
           \/ DatabaseStarts \/ StartStep \/ StopStep \/ Restart \/ AttestationStep
           \/ Environment
    PROVE  IInv'
<1> USE LifecycleBounds DEF IInv, MainStages, Serving
<1>1. CASE DatabaseStarts \/ OperatorLoadsSchema
  <2>1. InitialSchema \/ UNCHANGED layout
    BY <1>1 DEF DatabaseStarts, OperatorLoadsSchema
  <2>2. UNCHANGED <<main, poolVars, attestation, faults>> /\ db' = TRUE
    BY <1>1 DEF DatabaseStarts, OperatorLoadsSchema, LifecycleTypeOK
  <2>3. SchemaTypeOK' /\ OneLayout' /\ ServesOwnTables'
    <3>1. CASE InitialSchema
      <4>1. SchemaTypeOK' /\ OneLayout'
        BY <3>1, InitialKeeps DEF LifecycleTypeOK
      <4>2. ServesOwnTables'
        BY <3>1, <2>2, InitialKeeps DEF LifecycleTypeOK, ServesOwnTables, CheckInTables
      <4> QED  BY <4>1, <4>2
    <3>2. CASE UNCHANGED layout
      BY <3>2, <2>2, SchemaAlone
    <3> QED  BY <2>1, <3>1, <3>2
  <2> QED  BY <2>2, <2>3 DEF LifecycleTypeOK, RowInHand, poolVars
<1>2. CASE Connect
  BY <1>2 DEF Connect, LifecycleTypeOK, SchemaTypeOK, RowInHand, OneLayout, ServesOwnTables, poolVars
<1>3. CASE Migrate
  <2>1. SchemaTypeOK' /\ \A t \in CheckInTables : layout'[t] = "service"
    BY <1>3, MigrationOwns DEF Migrate, LifecycleTypeOK
  <2>2. OneLayout' /\ ServesOwnTables'
    BY <2>1 DEF OneLayout, ServesOwnTables, CheckInTables
  <2> QED  BY <1>3, <2>1, <2>2 DEF Migrate, LifecycleTypeOK, RowInHand
<1>4. CASE MigrateFails
  BY <1>4 DEF MigrateFails, Fault, LifecycleTypeOK, SchemaTypeOK, RowInHand, OneLayout,
              ServesOwnTables, poolVars
<1>5. CASE Restart
  BY <1>5 DEF Restart, LifecycleTypeOK, SchemaTypeOK, RowInHand, OneLayout, ServesOwnTables, poolVars
<1>6. CASE Signal \/ ListenerCloses \/ OperatorStarts
  BY <1>6 DEF Signal, ListenerCloses, OperatorStarts, LifecycleTypeOK, SchemaTypeOK,
              RowInHand, OneLayout, ServesOwnTables, poolVars
<1>7. CASE Exit \/ Kill
  BY <1>7 DEF Exit, Kill, Fault, AllGone, LifecycleTypeOK, SchemaTypeOK, RowInHand,
              OneLayout, ServesOwnTables
<1>8. CASE AttestationConnects \/ AttestationFails
  BY <1>8 DEF AttestationConnects, AttestationFails, Fault, AttestationAlone, poolVars,
              LifecycleTypeOK, SchemaTypeOK, RowInHand, OneLayout, ServesOwnTables
<1>9. CASE AttestationMigrates
  <2>1. layout' = Created({"attestations"}, "service")
    BY <1>9 DEF AttestationMigrates, AttestationMigration
  <2>2. SchemaTypeOK' /\ \A t \in CheckInTables : layout'[t] = layout[t]
    BY <2>1, CreatedKeeps DEF LifecycleTypeOK, CheckInTables, Tables
  <2>3. OneLayout' /\ ServesOwnTables'
    BY <1>9, <2>2 DEF AttestationMigrates, AttestationAlone, OneLayout, ServesOwnTables,
                      CheckInTables
  <2> QED  BY <1>9, <2>2, <2>3 DEF AttestationMigrates, AttestationAlone, poolVars,
                                   LifecycleTypeOK, RowInHand
<1> QED  BY <1>1, <1>2, <1>3, <1>4, <1>5, <1>6, <1>7, <1>8, <1>9
         DEF StartStep, StopStep, AttestationStep, Environment

LEMMA NextIInv ==
    ASSUME IInv, [Next]_vars
    PROVE  IInv'
<1>1. CASE UNCHANGED vars
  BY <1>1 DEF vars, poolVars, IInv, LifecycleTypeOK, SchemaTypeOK, RowInHand, OneLayout,
              ServesOwnTables
<1>2. CASE Next
  BY <1>2, RequestSteps, MonitorSteps, MainSteps DEF Next
<1> QED  BY <1>1, <1>2

LEMMA Invariance == Spec => []IInv
<1>1. Init => IInv
  BY InitIInv
<1>2. IInv /\ [Next]_vars => IInv'
  BY NextIInv
<1> QED  BY <1>1, <1>2, PTL DEF Spec

\* Every variable has its type (main.go:23-105).
THEOREM TypeCorrect == Spec => []LifecycleTypeOK
<1>1. IInv => LifecycleTypeOK
  BY DEF IInv
<1> QED  BY <1>1, Invariance, PTL

\* The service answers requests only over tables of its own script, for any
\* number of requests and any order of scripts, starts and failures
\* (main.go:43-45).
THEOREM OwnTables == Spec => []ServesOwnTables
<1>1. IInv => ServesOwnTables
  BY DEF IInv
<1> QED  BY <1>1, Invariance, PTL

-------------------------------------------------------------------------------
(***************************************************************************)
(* The tables.                                                             *)
(***************************************************************************)

\* A table that is there keeps its columns for ever: no script of the system
\* alters a table, so what was created first decides.
TablesStay == [][\A t \in Tables : layout[t] # "absent" => layout'[t] = layout[t]]_vars

\* A step either leaves the tables alone or runs one script over them.
LEMMA LayoutMoves ==
    ASSUME Next
    PROVE  \/ UNCHANGED layout
           \/ InitialSchema
           \/ CheckInMigration
           \/ AttestationMigration
<1>1. CASE DatabaseStarts \/ OperatorLoadsSchema
  BY <1>1 DEF DatabaseStarts, OperatorLoadsSchema
<1>2. CASE StartStep \/ StopStep \/ Restart
  BY <1>2 DEF StartStep, StopStep, Restart, Connect, Migrate, ListenerCloses, Exit
<1>3. CASE AttestationStep
  BY <1>3 DEF AttestationStep, AttestationConnects, AttestationMigrates
<1>4. CASE MigrateFails \/ Signal \/ Kill \/ OperatorStarts \/ AttestationFails
  BY <1>4 DEF MigrateFails, Signal, Kill, OperatorStarts, AttestationFails
<1>5. CASE Tick \/ AcquireForRow \/ MonitorRuns
  BY <1>5 DEF Tick, AcquireForRow, MonitorRuns, RowsArrive, RowDone, PassOver, MonitorStops,
              MonitorAlone
<1>6. ASSUME NEW w \in Workers,
             Arrive(w) \/ Acquire(w) \/ WaitForRow(w) \/ RowUnlocked(w) \/ RequestRuns(w)
      PROVE  UNCHANGED layout
  BY <1>6 DEF Arrive, Acquire, WaitForRow, RowUnlocked, RequestRuns, BeginStatement, Respond,
              PoolClosed, EndStatement, Moves, RequestAlone
<1> QED  BY <1>1, <1>2, <1>3, <1>4, <1>5, <1>6 DEF Next, Environment

LEMMA StepKeepsTables ==
    ASSUME SchemaTypeOK, [Next]_vars
    PROVE  \A t \in Tables : layout[t] # "absent" => layout'[t] = layout[t]
<1>1. CASE UNCHANGED layout
  BY <1>1
<1>2. CASE InitialSchema
  <2>1. layout' = layout \/ layout' = Created(Tables, "initial")
    BY <1>2 DEF InitialSchema
  <2> QED  BY <2>1, CreatedKeeps
<1>3. CASE CheckInMigration
  <2>1. layout' = Created(CheckInTables, "service")
    BY <1>3 DEF CheckInMigration
  <2> QED  BY <2>1, CreatedKeeps
<1>4. CASE AttestationMigration
  <2>1. layout' = Created({"attestations"}, "service")
    BY <1>4 DEF AttestationMigration
  <2> QED  BY <2>1, CreatedKeeps
<1> QED  BY <1>1, <1>2, <1>3, <1>4, LayoutMoves DEF vars

\* Whichever process creates a table decides its columns, over every later
\* start of every service (db/migrations.go:12-105, 001_initial_schema.sql,
\* attestation/src/main.rs).
THEOREM TablesKeepColumns == Spec => TablesStay
<1>1. LifecycleTypeOK /\ [Next]_vars =>
      [\A t \in Tables : layout[t] # "absent" => layout'[t] = layout[t]]_vars
  BY StepKeepsTables DEF LifecycleTypeOK
<1> QED  BY <1>1, TypeCorrect, PTL DEF Spec, TablesStay

\* checkin-dao has been locked out: the tables of 001 were there first.
LockedOut == layout["check_ins"] = "initial"

\* A database prepared with the repository's own initial schema before the
\* service first started never serves, whatever is restarted, killed or loaded
\* afterwards (main.go:43-45; what the disjunct of StartServes stands for).
THEOREM InitialSchemaLocksOut == Spec => [](LockedOut => [](main \notin Serving))
<1>1. LockedOut /\ LifecycleTypeOK /\ [Next]_vars => LockedOut'
  BY StepKeepsTables DEF LockedOut, LifecycleTypeOK, Tables, CheckInTables
<1>2. LockedOut /\ ServesOwnTables => main \notin Serving
  BY DEF LockedOut, ServesOwnTables, CheckInTables
<1> QED  BY <1>1, <1>2, TypeCorrect, OwnTables, PTL DEF Spec

-------------------------------------------------------------------------------
(***************************************************************************)
(* The pool.                                                               *)
(***************************************************************************)

\* No more connections are out than the pool has.
PoolBounded == Held <= PoolSize

\* Nothing of a process outlives it: no statement, no request, no pass.
GoneIsGone ==
    main \notin Serving =>
        monitor = "off" /\ rows = 0 /\ \A w \in Workers : worker[w] = "idle"

PoolInv == PoolBounded /\ GoneIsGone

\* Somebody who holds a connection can give it back without a further one.
SomebodyGivesBack ==
    \/ monitor \in {"select", "update"}
    \/ \E w \in Workers : worker[w] = "query"
    \/ ~RowsLocked /\ \E w \in Workers : worker[w] = "lock"

\* When the pool has nothing left, those who wait do not wait for each other.
ExhaustedPoolMoves ==
    Held >= PoolSize /\ monitor \notin {"wide", "blocked"} => SomebodyGivesBack

LEMMA QueryingFinite == IsFiniteSet(Querying) /\ Cardinality(Querying) \in Nat
<1>1. IsFiniteSet(Querying)
  BY WorkersAssumption, FS_Subset DEF Querying
<1> QED  BY <1>1, FS_CardinalityType

\* A worker that takes a connection adds one to those that are out, every other
\* step of a worker adds none.
LEMMA WorkerMoves ==
    ASSUME LifecycleTypeOK, NEW w \in Workers, NEW from, NEW to, Moves(w, from, to)
    PROVE  /\ MonitorHolds' = MonitorHolds
           /\ from = "waiting" /\ to = "query" => Held' = Held + 1
           /\ ~(from = "waiting" /\ to = "query") /\ (to \in {"query", "lock"} =>
                  from \in {"query", "lock"}) => Held' <= Held
<1>1. worker[w] = from /\ worker' = [worker EXCEPT ![w] = to] /\ monitor' = monitor
  BY DEF Moves, RequestAlone
<1>2. MonitorHolds' = MonitorHolds /\ MonitorHolds \in Nat
  BY <1>1 DEF MonitorHolds, LifecycleTypeOK
<1>3. worker'[w] = to /\ \A v \in Workers : v # w => worker'[v] = worker[v]
  BY <1>1 DEF LifecycleTypeOK
<1>4. ASSUME from = "waiting", to = "query"  PROVE Held' = Held + 1
  <2>1. Querying' = Querying \cup {w} /\ w \notin Querying
    BY <1>1, <1>3, <1>4 DEF Querying
  <2>2. Cardinality(Querying') = Cardinality(Querying) + 1
    BY <2>1, QueryingFinite, FS_AddElement
  <2> QED  BY <2>2, <1>2, QueryingFinite DEF Held
<1>5. ASSUME to \in {"query", "lock"} => from \in {"query", "lock"}  PROVE Held' <= Held
  <2>1. Querying' \subseteq Querying
    BY <1>1, <1>3, <1>5 DEF Querying
  <2>2. Cardinality(Querying') <= Cardinality(Querying) /\ Cardinality(Querying') \in Nat
    BY <2>1, QueryingFinite, FS_Subset, FS_CardinalityType
  <2> QED  BY <2>2, <1>2, QueryingFinite DEF Held
<1> QED  BY <1>2, <1>4, <1>5

\* The connections that are out, after a step of the pool's users.
HeldMoves ==
  \/ Held' <= Held
  \/ CanAcquire /\ Held' = Held + 1

LEMMA HeldTypes ==
    ASSUME LifecycleTypeOK, LifecycleTypeOK'
    PROVE  Held \in Nat /\ Held' \in Nat
<1>1. MonitorHolds \in Nat /\ MonitorHolds' \in Nat
  BY DEF MonitorHolds, LifecycleTypeOK
<1>2. Querying' \subseteq Workers
  BY DEF Querying
<1>3. Cardinality(Querying') \in Nat
  BY <1>2, WorkersAssumption, FS_Subset, FS_CardinalityType
<1> QED  BY <1>1, <1>3, QueryingFinite DEF Held

\* Requests take a connection only where one is left.
LEMMA RequestsHold ==
    ASSUME LifecycleTypeOK, NEW w \in Workers,
           Arrive(w) \/ Acquire(w) \/ WaitForRow(w) \/ RowUnlocked(w) \/ RequestRuns(w)
    PROVE  HeldMoves
<1>1. CASE Acquire(w)
  BY <1>1, WorkerMoves DEF Acquire, HeldMoves
<1>2. CASE Arrive(w) \/ BeginStatement(w)
  <2>1. Querying' \subseteq Querying
    BY <1>2 DEF Arrive, BeginStatement, Querying, LifecycleTypeOK
  <2>2. MonitorHolds' = MonitorHolds /\ MonitorHolds \in Nat
    BY <1>2 DEF Arrive, BeginStatement, RequestAlone, MonitorHolds, LifecycleTypeOK
  <2>3. Cardinality(Querying') <= Cardinality(Querying) /\ Cardinality(Querying') \in Nat
    BY <2>1, QueryingFinite, FS_Subset, FS_CardinalityType
  <2> QED  BY <2>2, <2>3, QueryingFinite DEF Held, HeldMoves
<1>3. CASE WaitForRow(w) \/ RowUnlocked(w) \/ PoolClosed(w) \/ EndStatement(w) \/ Respond(w)
  <2>1. PICK from, to : Moves(w, from, to) /\ (to \in {"query", "lock"} => from \in {"query", "lock"})
    BY <1>3 DEF WaitForRow, RowUnlocked, PoolClosed, EndStatement, Respond
  <2> QED  BY <2>1, WorkerMoves DEF HeldMoves
<1> QED  BY <1>1, <1>2, <1>3 DEF RequestRuns

\* So does the monitor, which takes its two connections one after the other.
LEMMA MonitorHoldsOn ==
    ASSUME LifecycleTypeOK, Tick \/ AcquireForRow \/ MonitorRuns
    PROVE  HeldMoves /\ monitor # "off"
<1>1. Querying' = Querying
  BY DEF Tick, AcquireForRow, MonitorRuns, RowsArrive, RowDone, PassOver, MonitorStops,
         MonitorAlone, Querying
<1>2. \/ CanAcquire /\ MonitorHolds' = MonitorHolds + 1
      \/ MonitorHolds' <= MonitorHolds
  BY DEF Tick, AcquireForRow, MonitorRuns, RowsArrive, RowDone, PassOver,
         MonitorStops, MonitorHolds, LifecycleTypeOK
<1>3. MonitorHolds \in Nat /\ MonitorHolds' \in Nat /\ monitor # "off"
  BY DEF Tick, AcquireForRow, MonitorRuns, RowsArrive, RowDone, PassOver,
         MonitorStops, MonitorHolds, LifecycleTypeOK
<1> QED  BY <1>1, <1>2, <1>3, QueryingFinite DEF HeldMoves, Held

\* Neither goes over the bound, nor does anything without a process.
LEMMA UsersKeepPool ==
    ASSUME LifecycleTypeOK, LifecycleTypeOK', PoolInv,
           \/ Tick \/ AcquireForRow \/ MonitorRuns
           \/ \E w \in Workers : \/ Arrive(w) \/ Acquire(w) \/ WaitForRow(w)
                                 \/ RowUnlocked(w) \/ RequestRuns(w)
    PROVE  PoolInv'
<1>1. HeldMoves
  BY RequestsHold, MonitorHoldsOn
<1>2. PoolBounded'
  BY <1>1, HeldTypes, PoolAssumption DEF HeldMoves, CanAcquire, PoolInv, PoolBounded
<1>3. main' = main
  BY DEF Tick, AcquireForRow, MonitorRuns, RowsArrive, RowDone, PassOver, MonitorStops, MonitorAlone,
         Arrive, Acquire, WaitForRow, RowUnlocked, RequestRuns, BeginStatement, Respond,
         PoolClosed, EndStatement, Moves, RequestAlone
<1>4. main \in Serving
  <2>1. CASE Tick \/ AcquireForRow \/ MonitorRuns
    BY <2>1, MonitorHoldsOn DEF PoolInv, GoneIsGone
  <2>2. ASSUME NEW w \in Workers,
               Arrive(w) \/ Acquire(w) \/ WaitForRow(w) \/ RowUnlocked(w) \/ RequestRuns(w)
        PROVE  main \in Serving
    <3>1. Arrive(w) => main \in Serving
      BY DEF Arrive, Serving
    <3>2. ~Arrive(w) => worker[w] # "idle"
      BY <2>2 DEF Acquire, WaitForRow, RowUnlocked, RequestRuns, BeginStatement, Respond,
                  PoolClosed, EndStatement, Moves
    <3> QED  BY <2>2, <3>1, <3>2 DEF PoolInv, GoneIsGone
  <2> QED  BY <2>1, <2>2
<1> QED  BY <1>2, <1>3, <1>4 DEF PoolInv, GoneIsGone

\* A process that ends leaves nothing behind, one that starts has nothing yet.
LEMMA MainKeepsPool ==
    ASSUME LifecycleTypeOK, PoolInv,
           \/ DatabaseStarts \/ StartStep \/ StopStep \/ Restart \/ AttestationStep
           \/ Environment
    PROVE  PoolInv'
<1>1. CASE Exit \/ Kill
  <2>1. AllGone
    BY <1>1 DEF Exit, Kill
  <2>2. Querying' = {}
    BY <2>1 DEF AllGone, Querying
  <2>3. Held' = 0
    BY <2>1, <2>2, FS_EmptySet DEF Held, MonitorHolds, AllGone
  <2> QED  BY <2>1, <2>3, PoolAssumption DEF PoolInv, PoolBounded, GoneIsGone, AllGone
<1>2. CASE Migrate
  <2>1. main = "connected" /\ monitor = "off" /\ monitor' = "idle" /\ UNCHANGED worker
    BY <1>2 DEF Migrate, PoolInv, GoneIsGone, Serving
  <2>2. Held' = Held
    BY <2>1 DEF Held, MonitorHolds, Querying
  <2> QED  BY <1>2, <2>2 DEF PoolInv, PoolBounded, GoneIsGone, Migrate, Serving
<1>3. CASE \/ DatabaseStarts \/ Connect \/ ListenerCloses \/ Restart \/ AttestationStep
           \/ OperatorLoadsSchema \/ MigrateFails \/ Signal \/ OperatorStarts \/ AttestationFails
  <2>1. UNCHANGED poolVars
    BY <1>3 DEF DatabaseStarts, Connect, ListenerCloses, Restart, AttestationStep,
                AttestationConnects, AttestationMigrates, AttestationAlone, OperatorLoadsSchema,
                MigrateFails, Signal, OperatorStarts, AttestationFails
  <2>2. main' \in Serving <=> main \in Serving
    BY <1>3 DEF DatabaseStarts, Connect, ListenerCloses, Restart, AttestationStep,
                AttestationConnects, AttestationMigrates, AttestationAlone, OperatorLoadsSchema,
                MigrateFails, Signal, OperatorStarts, AttestationFails, Serving
  <2>3. Held' = Held
    BY <2>1 DEF Held, MonitorHolds, Querying, poolVars
  <2> QED  BY <2>1, <2>2, <2>3 DEF PoolInv, PoolBounded, GoneIsGone, poolVars
<1> QED  BY <1>1, <1>2, <1>3 DEF StartStep, StopStep, Environment

LEMMA NextPoolInv ==
    ASSUME LifecycleTypeOK, LifecycleTypeOK', PoolInv, [Next]_vars
    PROVE  PoolInv'
<1>1. CASE UNCHANGED vars
  BY <1>1 DEF vars, poolVars, PoolInv, PoolBounded, GoneIsGone, Held, MonitorHolds, Querying
<1>2. CASE Next
  BY <1>2, UsersKeepPool, MainKeepsPool DEF Next
<1> QED  BY <1>1, <1>2

LEMMA PoolInvariance == Spec => []PoolInv
<1>1. Init => PoolInv
  <2> SUFFICES ASSUME Init PROVE PoolInv
    OBVIOUS
  <2>1. Querying = {} /\ MonitorHolds = 0
    BY DEF Init, Querying, MonitorHolds
  <2> QED  BY <2>1, FS_EmptySet, PoolAssumption DEF Init, PoolInv, PoolBounded, GoneIsGone, Held
<1>2. LifecycleTypeOK /\ LifecycleTypeOK' /\ PoolInv /\ [Next]_vars => PoolInv'
  BY NextPoolInv
<1> QED  BY <1>1, <1>2, TypeCorrect, PTL DEF Spec

\* The pool never hands out more than MaxConns connections, to any number of
\* requests and a monitor that takes two at a time (db/postgres.go:24).
THEOREM PoolKeepsBound == Spec => []PoolBounded
<1>1. PoolInv => PoolBounded
  BY DEF PoolInv
<1> QED  BY <1>1, PoolInvariance, PTL

\* After an exit, a crash or a failed start no request and no pass of the old
\* process is left to run against the tables (main.go:82-105).
THEOREM NothingOutlives == Spec => []GoneIsGone
<1>1. PoolInv => GoneIsGone
  BY DEF PoolInv
<1> QED  BY <1>1, PoolInvariance, PTL

\* The part of NobodyStarves that needs no fairness: with two connections or
\* more, an exhausted pool is never a circle of waiting, because the monitor
\* holds at most one of them while it waits and its locks end with its SELECT.
\* The one exception is a result its connection cannot hold
\* (checkin.go:152-188).
THEOREM NoCircleOfWaiting == Spec => []ExhaustedPoolMoves
<1>1. ASSUME LifecycleTypeOK  PROVE ExhaustedPoolMoves
  <2> SUFFICES ASSUME Held >= PoolSize, monitor \notin {"wide", "blocked"},
                      monitor \notin {"select", "update"}
               PROVE  SomebodyGivesBack
    BY DEF ExhaustedPoolMoves, SomebodyGivesBack
  <2>1. MonitorHolds \in {0, 1} /\ ~RowsLocked
    BY <1>1 DEF LifecycleTypeOK, MonitorHolds, RowsLocked
  <2>2. Cardinality(Querying) >= 1
    BY <2>1, QueryingFinite, PoolAssumption DEF Held
  <2>3. Querying # {}
    BY <2>2, FS_EmptySet
  <2> QED  BY <2>1, <2>3 DEF Querying, SomebodyGivesBack
<1> QED  BY <1>1, TypeCorrect, PTL

-------------------------------------------------------------------------------
(***************************************************************************)
(* The stop: pool.Close() waits for the connections that are out.          *)
(***************************************************************************)

\* While the pool is being closed connections only come back.
ClosingDrains == [][main = "closing" => Held' <= Held]_vars

\* As long as one is out, whoever has it can give it back: the monitor because it
\* is cancelled, a request that waits for a row because the monitor goes first.
ClosingMoves ==
    main = "closing" /\ Held # 0 =>
        \/ Cancelled /\ MonitorHolds # 0
        \/ \E w \in Workers : worker[w] = "query"
        \/ ~RowsLocked /\ \E w \in Workers : worker[w] = "lock"

LEMMA StepDrains ==
    ASSUME LifecycleTypeOK, LifecycleTypeOK', PoolInv, [Next]_vars, main = "closing"
    PROVE  Held' <= Held
<1>1. CASE \/ Tick \/ AcquireForRow \/ MonitorRuns
           \/ \E w \in Workers : \/ Arrive(w) \/ Acquire(w) \/ WaitForRow(w)
                                 \/ RowUnlocked(w) \/ RequestRuns(w)
  BY <1>1, RequestsHold, MonitorHoldsOn DEF HeldMoves, CanAcquire, PoolOpen
<1>2. CASE Exit \/ Kill
  <2>1. AllGone
    BY <1>2 DEF Exit, Kill
  <2>2. Querying' = {} /\ MonitorHolds' = 0
    BY <2>1 DEF AllGone, Querying, MonitorHolds
  <2> QED  BY <2>2, FS_EmptySet, HeldTypes DEF Held
<1>3. CASE UNCHANGED poolVars
  <2>1. Held' = Held
    BY <1>3 DEF Held, MonitorHolds, Querying, poolVars
  <2> QED  BY <2>1, HeldTypes
<1>4. CASE \/ DatabaseStarts \/ StartStep \/ ListenerCloses \/ Restart \/ AttestationStep
           \/ OperatorLoadsSchema \/ MigrateFails \/ Signal \/ OperatorStarts \/ AttestationFails
           \/ UNCHANGED vars
  <2>1. UNCHANGED poolVars
    BY <1>4 DEF DatabaseStarts, StartStep, Connect, Migrate, ListenerCloses, Restart,
                AttestationStep, AttestationConnects, AttestationMigrates, AttestationAlone,
                OperatorLoadsSchema, MigrateFails, Signal, OperatorStarts, AttestationFails, vars
  <2> QED  BY <1>3, <2>1
<1> QED  BY <1>1, <1>2, <1>4 DEF Next, StopStep, Environment

\* Once main has begun to close the pool nobody gets a connection any more, so
\* that the wait for those that are out is one for the requests and the pass of
\* that moment (main.go:41, :82-97).
THEOREM StopDrains == Spec => ClosingDrains
<1>1. LifecycleTypeOK /\ LifecycleTypeOK' /\ PoolInv /\ [Next]_vars =>
      [main = "closing" => Held' <= Held]_vars
  BY StepDrains
<1> QED  BY <1>1, TypeCorrect, PoolInvariance, PTL DEF Spec, ClosingDrains

\* The part of StopEnds that needs no fairness: pool.Close() never waits for a
\* connection nobody can give back, not even when the monitor was waiting for the
\* lock of its own result (main.go:82-97, checkin.go:152-188).
THEOREM StopNeverStuck == Spec => []ClosingMoves
<1>1. ASSUME LifecycleTypeOK  PROVE ClosingMoves
  <2> SUFFICES ASSUME main = "closing", Held # 0, MonitorHolds = 0
               PROVE  \/ \E w \in Workers : worker[w] = "query"
                      \/ ~RowsLocked /\ \E w \in Workers : worker[w] = "lock"
    BY DEF ClosingMoves, Cancelled
  <2>1. ~RowsLocked
    BY <1>1 DEF MonitorHolds, RowsLocked, LifecycleTypeOK
  <2>2. Querying # {}
    BY FS_EmptySet DEF Held
  <2> QED  BY <2>1, <2>2 DEF Querying
<1> QED  BY <1>1, TypeCorrect, PTL
===============================================================================
