------------------------------- MODULE Registry --------------------------------
(***************************************************************************)
(* The registry of bad clients (services/checkin-dao/services/registry.go):*)
(* reports are inserted and, in a goroutine, embedded; moderators decide   *)
(* them.  UpdateReportStatus is one UPDATE and then one SELECT, without a  *)
(* transaction, and does not look at the status it replaces.               *)
(***************************************************************************)
EXTENDS VectorStore

CONSTANTS
    Moderators,   \* users with the role "moderator" or "admin"
    Desks,        \* HTTP workers running UpdateReportStatus
    Disputed,     \* bound: the reports moderators decide
    Nobody,       \* moderator_id NULL
    MaxFaults     \* bound: lost answers of the database, stops of the process

ASSUME DisputedAssumption == Disputed \subseteq Reports
ASSUME NobodyAssumption == Nobody \notin Moderators
ASSUME FaultsAssumption == MaxFaults \in Nat

VARIABLES
    status,      \* bad_client_reports.status
    moderator,   \* bad_client_reports.moderator_id
    desk,        \* where each worker stands
    verdicts,    \* history: what moderators asked for
    faults

rowVars == <<status, moderator>>
vars == <<vectorVars, rowVars, desk, verdicts, faults>>

Verdicts == {"verified", "dismissed"}
Idle == [at |-> "idle"]
Asking == [at : {"update"}, report : Reports, who : Moderators, verdict : Verdicts]
Reading == [at : {"fetch"}, report : Reports]
Answer == [at : {"answered"}, report : Reports, status : Verdicts \cup {"pending"},
           who : Moderators \cup {Nobody}]

RegistryTypeOK ==
    /\ VectorTypeOK
    /\ status \in [Reports -> {"absent", "pending"} \cup Verdicts]
    /\ moderator \in [Reports -> Moderators \cup {Nobody}]
    /\ desk \in [Desks -> {Idle} \cup Asking \cup Reading \cup Answer]
    /\ verdicts \subseteq Reports \X Moderators \X Verdicts
    /\ faults \in 0..MaxFaults

Init ==
    /\ VectorInit
    /\ status = [r \in Reports |-> "absent"]
    /\ moderator = [r \in Reports |-> Nobody]
    /\ desk = [d \in Desks |-> Idle]
    /\ verdicts = {}
    /\ faults = 0

Fault == faults < MaxFaults /\ faults' = faults + 1

(***************************************************************************)
(* SubmitReport.                                                           *)
(***************************************************************************)
InsertReport(r) ==
    /\ status[r] = "absent" /\ put[r] = "none"
    /\ status' = [status EXCEPT ![r] = "pending"]
    /\ put' = [put EXCEPT ![r] = "call"]
    /\ UNCHANGED <<points, mock, mockMode, moderator, desk, verdicts, faults>>

\* An error is answered and no goroutine starts; the row may be there.  The
\* id is never used again ("lost").
InsertFails(r) ==
    /\ status[r] = "absent" /\ put[r] = "none"
    /\ Fault
    /\ status' \in {status, [status EXCEPT ![r] = "pending"]}
    /\ put' = [put EXCEPT ![r] = "lost"]
    /\ UNCHANGED <<points, mock, mockMode, moderator, desk, verdicts>>

(***************************************************************************)
(* UpdateReportStatus.                                                     *)
(***************************************************************************)

\* The report id is one a client has seen; another status is refused.
BeginUpdate(d, r, m, v) ==
    /\ desk[d].at \in {"idle", "answered"}
    /\ status[r] # "absent"
    /\ v \in Verdicts
    /\ desk' = [desk EXCEPT ![d] = [at |-> "update", report |-> r, who |-> m, verdict |-> v]]
    /\ verdicts' = verdicts \cup {<<r, m, v>>}
    /\ UNCHANGED <<vectorVars, rowVars, faults>>

\* Mutant of Decide: the moderator is recorded once only.
DecideKeepingFirst(d) ==
    /\ status' = [status EXCEPT ![desk[d].report] = desk[d].verdict]
    /\ moderator' = [moderator EXCEPT ![desk[d].report] =
                        IF @ = Nobody THEN desk[d].who ELSE @]

Decide(d) ==
    /\ status' = [status EXCEPT ![desk[d].report] = desk[d].verdict]
    /\ moderator' = [moderator EXCEPT ![desk[d].report] = desk[d].who]

UpdateStatus(d) ==
    /\ desk[d].at = "update"
    /\ Decide(d)
    /\ desk' = [desk EXCEPT ![d] = [at |-> "fetch", report |-> desk[d].report]]
    /\ UNCHANGED <<vectorVars, verdicts, faults>>

\* The UPDATE is not acknowledged, or failed: an error is answered.
UpdateFails(d) ==
    /\ desk[d].at = "update"
    /\ Fault
    /\ Decide(d) \/ UNCHANGED rowVars
    /\ desk' = [desk EXCEPT ![d] = Idle]
    /\ UNCHANGED <<vectorVars, verdicts>>

GetReport(d) ==
    /\ desk[d].at = "fetch"
    /\ LET r == desk[d].report IN
         desk' = [desk EXCEPT ![d] = [at |-> "answered", report |-> r,
                                      status |-> status[r], who |-> moderator[r]]]
    /\ UNCHANGED <<vectorVars, rowVars, verdicts, faults>>

\* The SELECT fails, or its answer is lost, after the UPDATE was made: an error
\* is answered for a report that is decided.
GetReportFails(d) ==
    /\ desk[d].at = "fetch"
    /\ Fault
    /\ desk' = [desk EXCEPT ![d] = Idle]
    /\ UNCHANGED <<vectorVars, rowVars, verdicts>>

\* The process stops and starts again: answers under way are lost.
Restart ==
    /\ Fault
    /\ ClientRestarts
    /\ desk' = [d \in Desks |-> IF desk[d].at = "answered" THEN desk[d] ELSE Idle]
    /\ UNCHANGED <<rowVars, verdicts>>

-------------------------------------------------------------------------------
GoStep(r) == StoreStep(r) /\ UNCHANGED <<rowVars, desk, verdicts, faults>>

DeskStep(d) ==
    \/ \E r \in Disputed, m \in Moderators, v \in Verdicts \cup {"pending"} : BeginUpdate(d, r, m, v)
    \/ UpdateStatus(d)
    \/ UpdateFails(d)
    \/ GetReport(d)
    \/ GetReportFails(d)

Next ==
    \/ \E r \in Reports :
          \/ InsertReport(r)
          \/ InsertFails(r)
          \/ GoStep(r)
    \/ \E d \in Desks : DeskStep(d)
    \/ SearchFallsBack /\ UNCHANGED <<rowVars, desk, verdicts, faults>>
    \/ Restart

\* A goroutine runs, and its HTTP client gives up after 5 s; requests,
\* restarts and searches need not come.
Fairness == \A r \in Reports : WF_vars(GoStep(r))

Spec == Init /\ [][Next]_vars
FairSpec == Spec /\ Fairness

-------------------------------------------------------------------------------
(***************************************************************************)
(* Properties.                                                             *)
(***************************************************************************)

\* Every point in the mock or in Qdrant is of a report that has its row,
\* although the goroutine outlives the request that started it, and a restart
\* comes at any time (registry.go:43-73).
PointsAreRows ==
    \A r \in points \cup InMock : status[r] # "absent"

\* A decided report shows a verdict together with the moderator who gave it,
\* whatever order the statements of several moderators run in, and whichever
\* of them are not acknowledged (registry.go:141-145).
VerdictIsSomebodys ==
    \A r \in Reports :
        status[r] \in Verdicts => <<r, moderator[r], status[r]>> \in verdicts

\* Who is answered reads a decided report, with a verdict some moderator
\* asked for: never the pending one it was before (registry.go:150).
AnswerIsAVerdict ==
    \A d \in Desks :
        desk[d].at = "answered" => <<desk[d].report, desk[d].who, desk[d].status>> \in verdicts

\* The goroutine of a report ends: the fallback does not call Qdrant for ever
\* (qdrant.go:91-94).
EmbeddingSettles ==
    \A r \in Reports : put[r] = "call" ~> put[r] \in {"stored", "refused", "lost"}
===============================================================================
