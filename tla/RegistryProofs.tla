----------------------------- MODULE RegistryProofs ----------------------------
(***************************************************************************)
(* Safety of the registry and of its vector store, for any reports,        *)
(* moderators, workers and number of faults, and whether or not the        *)
(* collection was made.                                                    *)
(*                                                                         *)
(* The store: a goroutine runs only for a report that has its row, and     *)
(* rows are never deleted; what the mock holds was stored, and only a      *)
(* goroutine that has not stored yet appends.  The verdicts: a worker      *)
(* carries what its moderator asked for from the request to the UPDATE,    *)
(* and once a report is decided every UPDATE decides it again, so the      *)
(* SELECT that follows one reads a verdict.                                *)
(***************************************************************************)
EXTENDS Registry, TLAPS

\* A goroutine is of a report with a row; the mock holds what was stored; who is
\* about to append to it after a failed call has set the flag.
StoreInv ==
    /\ \A r \in Reports : put[r] \notin {"none", "lost"} => status[r] # "absent"
    /\ \A r \in InMock : put[r] = "stored"
    /\ \A r \in Reports : put[r] = "mock" => mockMode

\* What a worker is about to write was asked for; what it is about to read is
\* decided.
DeskInv ==
    \A d \in Desks :
        /\ desk[d].at = "update" => <<desk[d].report, desk[d].who, desk[d].verdict>> \in verdicts
        /\ desk[d].at = "fetch" => status[desk[d].report] \in Verdicts

StoreSafe == StoreInv /\ MockHoldsOnce /\ OnlyFallbackHides /\ PointsAreRows
VerdictSafe == DeskInv /\ VerdictIsSomebodys /\ AnswerIsAVerdict
IInv == RegistryTypeOK /\ StoreSafe /\ VerdictSafe

-------------------------------------------------------------------------------
(***************************************************************************)
(* The mock and the workers.                                               *)
(***************************************************************************)

\* One append (qdrant.go:66).
LEMMA AppendFacts ==
    ASSUME mock \in Seq(Reports), NEW r \in Reports, mock' = Append(mock, r)
    PROVE  /\ mock' \in Seq(Reports)
           /\ InMock' = InMock \cup {r}
           /\ r \notin InMock /\ MockHoldsOnce => MockHoldsOnce'
  <1>1. /\ mock' \in Seq(Reports)
        /\ DOMAIN mock = 1..Len(mock)
        /\ DOMAIN mock' = 1..(Len(mock) + 1)
        /\ Len(mock) \in Nat
        /\ \A i \in 1..Len(mock) : mock'[i] = mock[i]
        /\ mock'[Len(mock) + 1] = r
    OBVIOUS
  <1>2. InMock' = InMock \cup {r}
    <2>1. ASSUME NEW x \in InMock' PROVE x \in InMock \cup {r}
      BY <1>1, <2>1 DEF InMock
    <2>2. InMock \subseteq InMock'
      BY <1>1 DEF InMock
    <2>3. r \in InMock'
      BY <1>1 DEF InMock
    <2> QED
      BY <2>1, <2>2, <2>3
  <1>3. ASSUME r \notin InMock, MockHoldsOnce PROVE MockHoldsOnce'
    <2> SUFFICES ASSUME NEW i \in DOMAIN mock', NEW j \in DOMAIN mock', mock'[i] = mock'[j]
                 PROVE i = j
      BY DEF MockHoldsOnce
    <2>1. \A k \in 1..Len(mock) : mock[k] # r
      BY <1>1, <1>3 DEF InMock
    <2> QED
      BY <1>1, <1>3, <2>1 DEF MockHoldsOnce
  <1> QED
    BY <1>1, <1>2, <1>3

\* The label of a worker tells the shape of its record.
LEMMA DeskShape ==
    ASSUME RegistryTypeOK, NEW d \in Desks
    PROVE  /\ desk[d].at \in {"idle", "update", "fetch", "answered"}
           /\ desk[d].at = "update" => desk[d] \in Asking
           /\ desk[d].at = "fetch" => desk[d] \in Reading
           /\ desk[d].at = "answered" => desk[d] \in Answer
  <1>1. desk[d] \in {Idle} \cup Asking \cup Reading \cup Answer
    BY DEF RegistryTypeOK
  <1> QED
    BY <1>1 DEF Idle, Asking, Reading, Answer

LEMMA TypeInit == Init => RegistryTypeOK
  <1> SUFFICES ASSUME Init PROVE RegistryTypeOK
    OBVIOUS
  <1>1. VectorTypeOK
    <2>1. mock \in Seq(Reports)
      BY DEF Init, VectorInit
    <2> QED
      BY <2>1 DEF Init, VectorInit, VectorTypeOK, PutStages
  <1>2. status \in [Reports -> {"absent", "pending"} \cup Verdicts]
    BY DEF Init
  <1>3. moderator \in [Reports -> Moderators \cup {Nobody}]
    BY DEF Init
  <1>4. desk \in [Desks -> {Idle} \cup Asking \cup Reading \cup Answer]
    BY DEF Init
  <1>5. verdicts \subseteq Reports \X Moderators \X Verdicts /\ faults \in 0..MaxFaults
    BY FaultsAssumption DEF Init
  <1> QED
    BY <1>1, <1>2, <1>3, <1>4, <1>5 DEF RegistryTypeOK

\* Every step keeps the columns, the stages and the points within their types.
LEMMA TypeStep == RegistryTypeOK /\ DeskInv /\ [Next]_vars => RegistryTypeOK'
  <1> SUFFICES ASSUME RegistryTypeOK, DeskInv, [Next]_vars PROVE RegistryTypeOK'
    OBVIOUS
  <1> USE FaultsAssumption DEF RegistryTypeOK, VectorTypeOK, vectorVars, rowVars, PutStages
  <1>1. ASSUME NEW r \in Reports, InsertReport(r) PROVE RegistryTypeOK'
    BY <1>1 DEF InsertReport
  <1>2. ASSUME NEW r \in Reports, InsertFails(r) PROVE RegistryTypeOK'
    BY <1>2 DEF InsertFails, Fault
  <1>3. ASSUME NEW r \in Reports, GoStep(r) PROVE RegistryTypeOK'
    <2>1. CASE StoreInMock(r) \/ AppendAfterFallBack(r)
      <3>1. mock' = Append(mock, r) /\ put' = [put EXCEPT ![r] = "stored"]
               /\ UNCHANGED <<points, mockMode>>
        BY <2>1 DEF StoreInMock, AppendAfterFallBack, Appended
      <3> QED
        BY <1>3, <3>1, AppendFacts DEF GoStep
    <2>2. CASE SendPut(r)
      BY <1>3, <2>2 DEF GoStep, SendPut
    <2>3. CASE PutAccepted(r) \/ PutRefused(r)
      BY <1>3, <2>3 DEF GoStep, PutAccepted, PutRefused
    <2>4. CASE FallBack(r)
      BY <1>3, <2>4 DEF GoStep, FallBack, Unanswered
    <2> QED
      BY <1>3, <2>1, <2>2, <2>3, <2>4 DEF GoStep, StoreStep
  <1>4. ASSUME NEW d \in Desks, NEW r \in Reports, NEW m \in Moderators,
               NEW v \in Verdicts \cup {"pending"}, BeginUpdate(d, r, m, v)
        PROVE RegistryTypeOK'
    BY <1>4 DEF BeginUpdate, Asking
  <1>5. ASSUME NEW d \in Desks, UpdateStatus(d) PROVE RegistryTypeOK'
    <2>1. desk[d] \in Asking
      BY <1>5, DeskShape DEF UpdateStatus
    <2> QED
      BY <1>5, <2>1 DEF UpdateStatus, Decide, Asking, Reading
  <1>6. ASSUME NEW d \in Desks, UpdateFails(d) PROVE RegistryTypeOK'
    <2>1. desk[d].report \in Reports /\ desk[d].verdict \in Verdicts
             /\ desk[d].who \in Moderators
      BY <1>6, DeskShape DEF UpdateFails, Asking
    <2>2. /\ status' \in [Reports -> {"absent", "pending"} \cup Verdicts]
          /\ moderator' \in [Reports -> Moderators \cup {Nobody}]
      BY <1>6, <2>1 DEF UpdateFails, Decide
    <2>3. desk' \in [Desks -> {Idle} \cup Asking \cup Reading \cup Answer]
      BY <1>6 DEF UpdateFails
    <2> QED
      BY <1>6, <2>2, <2>3 DEF UpdateFails, Fault
  <1>7. ASSUME NEW d \in Desks, GetReport(d) PROVE RegistryTypeOK'
    <2>1. desk[d] \in Reading /\ status[desk[d].report] \in Verdicts
      BY <1>7, DeskShape DEF GetReport, DeskInv
    <2> DEFINE answer == [at |-> "answered", report |-> desk[d].report,
                          status |-> status[desk[d].report], who |-> moderator[desk[d].report]]
    <2>2. answer \in Answer
      BY <2>1 DEF Reading, Answer
    <2>3. desk' = [desk EXCEPT ![d] = answer]
      BY <1>7 DEF GetReport
    <2> HIDE DEF answer
    <2> QED
      BY <1>7, <2>2, <2>3 DEF GetReport
  <1>11. ASSUME NEW d \in Desks, GetReportFails(d) PROVE RegistryTypeOK'
    BY <1>11 DEF GetReportFails, Fault
  <1>8. CASE SearchFallsBack /\ UNCHANGED <<rowVars, desk, verdicts, faults>>
    BY <1>8 DEF SearchFallsBack
  <1>9. CASE Restart
    <2>1. desk' \in [Desks -> {Idle} \cup Asking \cup Reading \cup Answer]
      BY <1>9 DEF Restart
    <2>2. VectorTypeOK'
      <3>1. mock' \in Seq(Reports)
        BY <1>9 DEF Restart, ClientRestarts
      <3>2. put' \in [Reports -> PutStages]
        BY <1>9 DEF Restart, ClientRestarts
      <3> QED
        BY <1>9, <3>1, <3>2 DEF Restart, ClientRestarts
    <2> QED
      BY <1>9, <2>1, <2>2 DEF Restart, Fault
  <1>10. CASE UNCHANGED vars
    BY <1>10 DEF vars
  <1> QED
    BY <1>1, <1>2, <1>3, <1>4, <1>5, <1>6, <1>7, <1>8, <1>9, <1>10, <1>11,
       DisputedAssumption
    DEF Next, DeskStep

-------------------------------------------------------------------------------
(***************************************************************************)
(* The store.                                                              *)
(***************************************************************************)

\* A row, once there, stays (no statement of registry.go deletes).
LEMMA RowsStay ==
    RegistryTypeOK /\ [Next]_vars =>
        \A r \in Reports : status[r] # "absent" => status'[r] # "absent"
  <1> SUFFICES ASSUME RegistryTypeOK, [Next]_vars, NEW r \in Reports, status[r] # "absent"
               PROVE  status'[r] # "absent"
    OBVIOUS
  <1> USE DEF rowVars, RegistryTypeOK
  <1>1. ASSUME NEW s \in Reports, InsertReport(s) \/ InsertFails(s) PROVE status'[r] # "absent"
    BY <1>1 DEF InsertReport, InsertFails
  <1>2. ASSUME NEW d \in Desks, UpdateStatus(d) \/ UpdateFails(d) PROVE status'[r] # "absent"
    <2>1. desk[d].report \in Reports /\ desk[d].verdict \in Verdicts
      BY <1>2, DeskShape DEF UpdateStatus, UpdateFails, Asking
    <2> QED
      BY <1>2, <2>1 DEF UpdateStatus, UpdateFails, Decide, Verdicts
  <1>3. ASSUME NEW d \in Desks,
               GetReport(d) \/ GetReportFails(d) \/ \E s \in Disputed, m \in Moderators,
                                  v \in Verdicts \cup {"pending"} : BeginUpdate(d, s, m, v)
        PROVE  status'[r] # "absent"
    BY <1>3 DEF GetReport, GetReportFails, BeginUpdate
  <1>4. ASSUME NEW s \in Reports, GoStep(s) PROVE status'[r] # "absent"
    BY <1>4 DEF GoStep
  <1>5. CASE SearchFallsBack /\ UNCHANGED <<rowVars, desk, verdicts, faults>>
    BY <1>5
  <1>6. CASE Restart
    BY <1>6 DEF Restart
  <1>7. CASE UNCHANGED vars
    BY <1>7 DEF vars
  <1> QED
    BY <1>1, <1>2, <1>3, <1>4, <1>5, <1>6, <1>7 DEF Next, DeskStep

\* What a goroutine's step does to the store (qdrant.go:62-105).
LEMMA GoStepSafe ==
    ASSUME RegistryTypeOK, StoreSafe, NEW r \in Reports, GoStep(r)
    PROVE  StoreSafe'
  <1> USE DEF RegistryTypeOK, VectorTypeOK, rowVars
  <1>1. status' = status
    BY DEF GoStep
  <1>2. CASE StoreInMock(r) \/ AppendAfterFallBack(r)
    <2>1. /\ mock' = Append(mock, r) /\ put' = [put EXCEPT ![r] = "stored"]
          /\ UNCHANGED <<points, mockMode>> /\ put[r] \in {"call", "mock"} /\ mockMode
      BY <1>2 DEF StoreInMock, AppendAfterFallBack, Appended, StoreSafe, StoreInv
    <2>2. r \notin InMock /\ status[r] # "absent"
      BY <2>1 DEF StoreSafe, StoreInv
    <2>3. InMock' = InMock \cup {r} /\ MockHoldsOnce'
      BY <2>1, <2>2, AppendFacts DEF StoreSafe
    <2>4. StoreInv'
      <3>1. InMock \subseteq Reports
        BY DEF InMock
      <3>2. put'[r] = "stored" /\ \A s \in Reports \ {r} : put'[s] = put[s]
        BY <2>1
      <3> QED
        BY <1>1, <2>1, <2>2, <2>3, <3>1, <3>2 DEF StoreSafe, StoreInv
    <2>5. OnlyFallbackHides' /\ PointsAreRows'
      BY <1>1, <2>1, <2>2, <2>3 DEF StoreSafe, OnlyFallbackHides, Looked, PointsAreRows
    <2> QED
      BY <2>3, <2>4, <2>5 DEF StoreSafe
  <1>3. ASSUME mock' = mock PROVE InMock' = InMock /\ MockHoldsOnce'
    BY <1>3 DEF InMock, StoreSafe, MockHoldsOnce
  <1>4. CASE PutAccepted(r)
    <2>1. /\ points' = points \cup {r} /\ put' = [put EXCEPT ![r] = "stored"]
          /\ UNCHANGED <<mock, mockMode>> /\ put[r] = "sent"
      BY <1>4 DEF PutAccepted
    <2>2. status[r] # "absent"
      BY <2>1 DEF StoreSafe, StoreInv
    <2> QED
      BY <1>1, <1>3, <2>1, <2>2 DEF StoreSafe, StoreInv, OnlyFallbackHides, Looked, PointsAreRows
  <1>5. CASE SendPut(r) \/ PutRefused(r) \/ FallBack(r)
    <2>1. /\ points' \in {points, points \cup {r}} /\ mock' = mock
          /\ put[r] \in {"call", "sent"} /\ (mockMode => mockMode')
          /\ put' \in {[put EXCEPT ![r] = s] : s \in {"sent", "refused", "mock"}}
          /\ put'[r] = "mock" => mockMode'
      BY <1>5 DEF SendPut, PutRefused, FallBack, Unanswered
    <2>2. status[r] # "absent" /\ r \notin InMock
      BY <2>1 DEF StoreSafe, StoreInv
    <2>3. StoreInv'
      <3>1. InMock \subseteq Reports
        BY DEF InMock
      <3>2. \A s \in Reports \ {r} : put'[s] = put[s]
        BY <2>1
      <3>3. \A s \in InMock : put[s] = "stored"
        BY DEF StoreSafe, StoreInv
      <3>4. \A s \in InMock : put'[s] = "stored"
        BY <2>2, <3>1, <3>2, <3>3
      <3> QED
        BY <1>1, <1>3, <2>1, <2>2, <3>2, <3>4 DEF StoreSafe, StoreInv
    <2>4. OnlyFallbackHides' /\ PointsAreRows'
      BY <1>1, <1>3, <2>1, <2>2 DEF StoreSafe, OnlyFallbackHides, Looked, PointsAreRows
    <2> QED
      BY <1>3, <2>1, <2>3, <2>4 DEF StoreSafe
  <1> QED
    BY <1>2, <1>4, <1>5 DEF GoStep, StoreStep

LEMMA StoreStepSafe == RegistryTypeOK /\ StoreSafe /\ [Next]_vars => StoreSafe'
  <1> SUFFICES ASSUME RegistryTypeOK, StoreSafe, [Next]_vars PROVE StoreSafe'
    OBVIOUS
  <1> USE DEF RegistryTypeOK, VectorTypeOK
  <1>1. \A r \in Reports : status[r] # "absent" => status'[r] # "absent"
    BY RowsStay
  <1>2. InMock \subseteq Reports
    BY DEF InMock
  <1>3. ASSUME UNCHANGED <<points, mock, put>>, mockMode => mockMode' PROVE StoreSafe'
    <2>1. InMock' = InMock /\ MockHoldsOnce'
      BY <1>3 DEF InMock, StoreSafe, MockHoldsOnce
    <2> QED
      BY <1>1, <1>2, <1>3, <2>1 DEF StoreSafe, StoreInv, OnlyFallbackHides, Looked, PointsAreRows
  <1>4. ASSUME NEW r \in Reports, InsertReport(r) \/ InsertFails(r) PROVE StoreSafe'
    <2>1. /\ put[r] = "none" /\ UNCHANGED <<points, mock, mockMode>>
          /\ \/ put' = [put EXCEPT ![r] = "call"] /\ status'[r] = "pending"
             \/ put' = [put EXCEPT ![r] = "lost"]
      BY <1>4 DEF InsertReport, InsertFails
    <2>2. InMock' = InMock /\ MockHoldsOnce'
      BY <2>1 DEF InMock, StoreSafe, MockHoldsOnce
    <2>3. r \notin InMock
      BY <2>1 DEF StoreSafe, StoreInv
    <2>4. StoreInv'
      BY <1>1, <1>2, <2>1, <2>2, <2>3 DEF StoreSafe, StoreInv
    <2>5. OnlyFallbackHides' /\ PointsAreRows'
      BY <1>1, <1>2, <2>1, <2>2 DEF StoreSafe, OnlyFallbackHides, Looked, PointsAreRows
    <2> QED
      BY <2>2, <2>4, <2>5 DEF StoreSafe
  <1>5. ASSUME NEW r \in Reports, GoStep(r) PROVE StoreSafe'
    BY <1>5, GoStepSafe
  <1>6. ASSUME NEW d \in Desks, DeskStep(d) PROVE UNCHANGED <<points, mock, mockMode, put>>
    BY <1>6 DEF DeskStep, BeginUpdate, UpdateStatus, UpdateFails, GetReport, GetReportFails,
                vectorVars
  <1>7. CASE SearchFallsBack /\ UNCHANGED <<rowVars, desk, verdicts, faults>>
    BY <1>3, <1>7 DEF SearchFallsBack
  <1>8. CASE Restart
    <2>1. /\ mock' = <<>> /\ points' = points /\ mockMode' = FALSE
          /\ put' = [r \in Reports |->
                        IF put[r] \in {"call", "sent", "mock"} \/ r \in InMock
                        THEN "lost" ELSE put[r]]
      BY <1>8 DEF Restart, ClientRestarts
    <2>2. InMock' = {} /\ MockHoldsOnce'
      BY <2>1 DEF InMock, MockHoldsOnce
    <2> QED
      BY <1>1, <2>1, <2>2 DEF StoreSafe, StoreInv, OnlyFallbackHides, Looked, PointsAreRows
  <1>9. CASE UNCHANGED vars
    BY <1>3, <1>9 DEF vars, vectorVars
  <1> QED
    BY <1>3, <1>4, <1>5, <1>6, <1>7, <1>8, <1>9 DEF Next

-------------------------------------------------------------------------------
(***************************************************************************)
(* The verdicts.                                                           *)
(***************************************************************************)
LEMMA VerdictStepSafe == RegistryTypeOK /\ VerdictSafe /\ [Next]_vars => VerdictSafe'
  <1> SUFFICES ASSUME RegistryTypeOK, VerdictSafe, [Next]_vars PROVE VerdictSafe'
    OBVIOUS
  <1> USE DEF RegistryTypeOK, rowVars, VerdictSafe
  <1>1. ASSUME UNCHANGED <<status, moderator, verdicts>>,
               \A d \in Desks : desk'[d] = desk[d] \/ desk'[d].at = "idle"
        PROVE  VerdictSafe'
    <2>1. DeskInv' /\ VerdictIsSomebodys' /\ AnswerIsAVerdict'
      BY <1>1 DEF DeskInv, VerdictIsSomebodys, AnswerIsAVerdict
    <2> QED
      BY <2>1
  <1>2. ASSUME NEW r \in Reports, InsertReport(r) \/ InsertFails(r) PROVE VerdictSafe'
    <2>1. /\ status[r] = "absent" /\ UNCHANGED <<moderator, desk, verdicts>>
          /\ \A s \in Reports : status'[s] = status[s] \/ (s = r /\ status'[s] = "pending")
      <3>1. CASE InsertReport(r)
        BY <3>1 DEF InsertReport
      <3>2. CASE InsertFails(r)
        <4>1. status' \in {status, [status EXCEPT ![r] = "pending"]}
          BY <3>2 DEF InsertFails
        <4>2. \A s \in Reports : status'[s] = status[s] \/ (s = r /\ status'[s] = "pending")
          BY <4>1
        <4> QED
          BY <3>2, <4>2 DEF InsertFails
      <3> QED
        BY <1>2, <3>1, <3>2
    <2>2. VerdictIsSomebodys' /\ AnswerIsAVerdict'
      BY <2>1 DEF VerdictIsSomebodys, AnswerIsAVerdict, Verdicts
    <2>3. ASSUME NEW d \in Desks, desk[d].at = "fetch" PROVE status'[desk[d].report] \in Verdicts
      <3>1. desk[d].report \in Reports /\ status[desk[d].report] \in Verdicts
        BY <2>3, DeskShape DEF DeskInv, Reading
      <3> QED
        BY <2>1, <3>1 DEF Verdicts
    <2>4. DeskInv'
      BY <2>1, <2>3 DEF DeskInv
    <2> QED
      BY <2>2, <2>4
  <1>3. ASSUME NEW d \in Desks, NEW r \in Reports, NEW m \in Moderators,
               NEW v \in Verdicts \cup {"pending"}, BeginUpdate(d, r, m, v)
        PROVE  VerdictSafe'
    <2>1. /\ desk' = [desk EXCEPT ![d] = [at |-> "update", report |-> r,
                                          who |-> m, verdict |-> v]]
          /\ verdicts' = verdicts \cup {<<r, m, v>>}
          /\ UNCHANGED <<status, moderator>>
      BY <1>3 DEF BeginUpdate
    <2>2. DeskInv'
      BY <2>1 DEF DeskInv
    <2>3. VerdictIsSomebodys' /\ AnswerIsAVerdict'
      BY <2>1 DEF VerdictIsSomebodys, AnswerIsAVerdict
    <2> QED
      BY <2>2, <2>3
  \* An UPDATE writes what was asked for, acknowledged or not.
  <1>4. ASSUME NEW d \in Desks, desk[d].at = "update", Decide(d), verdicts' = verdicts,
               \/ desk' = [desk EXCEPT ![d] = [at |-> "fetch", report |-> desk[d].report]]
               \/ desk' = [desk EXCEPT ![d] = Idle]
        PROVE  VerdictSafe'
    <2>1. /\ desk[d].report \in Reports /\ desk[d].verdict \in Verdicts
          /\ <<desk[d].report, desk[d].who, desk[d].verdict>> \in verdicts
      BY <1>4, DeskShape DEF DeskInv, Asking
    <2>2. VerdictIsSomebodys'
      BY <1>4, <2>1 DEF Decide, VerdictIsSomebodys
    <2>3. AnswerIsAVerdict'
      BY <1>4 DEF AnswerIsAVerdict, Idle
    <2>4. ASSUME NEW e \in Desks, desk'[e].at = "update"
          PROVE  <<desk'[e].report, desk'[e].who, desk'[e].verdict>> \in verdicts'
      <3>1. desk'[e] = desk[e]
        BY <1>4, <2>4 DEF Idle
      <3> QED
        BY <1>4, <2>4, <3>1 DEF DeskInv
    <2>5. ASSUME NEW e \in Desks, desk'[e].at = "fetch"
          PROVE  status'[desk'[e].report] \in Verdicts
      <3>1. CASE e = d
        <4>1. desk'[e].report = desk[d].report
          BY <1>4, <2>5, <3>1 DEF Idle
        <4> QED
          BY <1>4, <2>1, <4>1 DEF Decide
      <3>2. CASE e # d
        <4>1. desk'[e] = desk[e]
          BY <1>4, <3>2
        <4>2. desk[e].report \in Reports /\ status[desk[e].report] \in Verdicts
          BY <2>5, <4>1, DeskShape DEF DeskInv, Reading
        <4> QED
          BY <1>4, <2>1, <4>1, <4>2 DEF Decide
      <3> QED
        BY <3>1, <3>2
    <2> QED
      BY <2>2, <2>3, <2>4, <2>5 DEF DeskInv
  <1>5. ASSUME NEW d \in Desks, UpdateStatus(d) PROVE VerdictSafe'
    BY <1>4, <1>5 DEF UpdateStatus
  <1>6. ASSUME NEW d \in Desks, UpdateFails(d) PROVE VerdictSafe'
    <2>1. CASE Decide(d)
      BY <1>4, <1>6, <2>1 DEF UpdateFails
    <2>2. CASE UNCHANGED rowVars
      <3>1. \A e \in Desks : desk'[e] = desk[e] \/ desk'[e].at = "idle"
        BY <1>6 DEF UpdateFails, Idle
      <3> QED
        BY <1>1, <1>6, <2>2, <3>1 DEF UpdateFails
    <2> QED
      BY <1>6, <2>1, <2>2 DEF UpdateFails
  <1>7. ASSUME NEW d \in Desks, GetReport(d) PROVE VerdictSafe'
    <2> DEFINE r == desk[d].report
    <2>1. /\ desk' = [desk EXCEPT ![d] = [at |-> "answered", report |-> r,
                                          status |-> status[r], who |-> moderator[r]]]
          /\ UNCHANGED <<status, moderator, verdicts>>
          /\ desk[d].at = "fetch"
      BY <1>7 DEF GetReport
    <2>2. r \in Reports /\ status[r] \in Verdicts
      BY <2>1, DeskShape DEF DeskInv, Reading
    <2>3. <<r, moderator[r], status[r]>> \in verdicts
      BY <2>2 DEF VerdictIsSomebodys
    <2> HIDE DEF r
    <2>4. DeskInv' /\ VerdictIsSomebodys'
      BY <2>1 DEF DeskInv, VerdictIsSomebodys
    <2>5. AnswerIsAVerdict'
      BY <2>1, <2>3 DEF AnswerIsAVerdict
    <2> QED
      BY <2>4, <2>5
  <1>12. ASSUME NEW d \in Desks, GetReportFails(d) PROVE VerdictSafe'
    BY <1>1, <1>12 DEF GetReportFails, Idle
  <1>8. ASSUME NEW r \in Reports, GoStep(r) PROVE VerdictSafe'
    BY <1>1, <1>8 DEF GoStep
  <1>9. CASE SearchFallsBack /\ UNCHANGED <<rowVars, desk, verdicts, faults>>
    BY <1>1, <1>9
  <1>10. CASE Restart
    BY <1>1, <1>10 DEF Restart, Idle
  <1>11. CASE UNCHANGED vars
    BY <1>1, <1>11 DEF vars
  <1> QED
    BY <1>2, <1>3, <1>5, <1>6, <1>7, <1>8, <1>9, <1>10, <1>11, <1>12,
       DisputedAssumption
    DEF Next, DeskStep

-------------------------------------------------------------------------------
(***************************************************************************)
(* Theorems.                                                               *)
(***************************************************************************)
LEMMA Initially == Init => IInv
  <1> SUFFICES ASSUME Init PROVE IInv
    OBVIOUS
  <1>1. RegistryTypeOK
    BY TypeInit
  <1>2. StoreSafe
    BY DEF Init, VectorInit, StoreSafe, StoreInv, InMock, MockHoldsOnce, OnlyFallbackHides, Looked,
           PointsAreRows
  <1>3. VerdictSafe
    BY DEF Init, VerdictSafe, DeskInv, VerdictIsSomebodys, AnswerIsAVerdict, Idle, Verdicts
  <1> QED
    BY <1>1, <1>2, <1>3 DEF IInv

LEMMA Invariant == Spec => []IInv
  <1>1. IInv /\ [Next]_vars => IInv'
    BY TypeStep, StoreStepSafe, VerdictStepSafe DEF IInv, VerdictSafe
  <1> QED
    BY <1>1, Initially, PTL DEF Spec

\* The rows, the store and the workers keep their types (migrations.go:47-58).
THEOREM TypeCorrect == Spec => []RegistryTypeOK
  <1>1. IInv => RegistryTypeOK
    BY DEF IInv
  <1> QED
    BY <1>1, Invariant, PTL

\* The mock never holds a report twice (qdrant.go:66, :91-94).
THEOREM NoReportTwice == Spec => []MockHoldsOnce
  <1>1. IInv => MockHoldsOnce
    BY DEF IInv, StoreSafe
  <1> QED
    BY <1>1, Invariant, PTL

\* No stored report is lost between Qdrant and the mock: what this process does
\* not look through any more, Qdrant has, and before the fallback that is none
\* (qdrant.go:62-105, :107-123).
THEOREM NoneBetweenTheStores == Spec => []OnlyFallbackHides
  <1>1. IInv => OnlyFallbackHides
    BY DEF IInv, StoreSafe
  <1> QED
    BY <1>1, Invariant, PTL

\* Every point belongs to a row (registry.go:43-73).
THEOREM PointsHaveRows == Spec => []PointsAreRows
  <1>1. IInv => PointsAreRows
    BY DEF IInv, StoreSafe
  <1> QED
    BY <1>1, Invariant, PTL

\* Status and moderator of a decided report are one moderator's verdict
\* (registry.go:141-145).
THEOREM VerdictsAreAskedFor == Spec => []VerdictIsSomebodys
  <1>1. IInv => VerdictIsSomebodys
    BY DEF IInv, VerdictSafe
  <1> QED
    BY <1>1, Invariant, PTL

\* Whoever decides a report reads a verdict back (registry.go:150).
THEOREM AnswersAreVerdicts == Spec => []AnswerIsAVerdict
  <1>1. IInv => AnswerIsAVerdict
    BY DEF IInv, VerdictSafe
  <1> QED
    BY <1>1, Invariant, PTL

-------------------------------------------------------------------------------
(***************************************************************************)
(* What a step may do: the goroutine of a report, call by call, and the    *)
(* life of its row.                                                        *)
(***************************************************************************)

\* How much a report's goroutine has still before it: a call of Qdrant, its
\* answer, the append that follows none, the end of its process.
StepsLeft(s) ==
    CASE s = "none" -> 5
      [] s = "call" -> 4
      [] s = "sent" -> 3
      [] s = "mock" -> 2
      [] s \in {"stored", "refused"} -> 1
      [] s = "lost" -> 0

\* A report is embedded by going forward only: Qdrant is called once for it, and
\* neither the recursion nor a restart begins again.
EmbeddedOnce ==
    [][\A r \in Reports : put'[r] # put[r] => StepsLeft(put'[r]) < StepsLeft(put[r])]_vars

\* A row of bad_client_reports appears as pending, and only a verdict replaces
\* what it shows: nothing makes a decided report pending again.
RowMoves ==
    [][\A r \in Reports :
          status'[r] # status[r] =>
              IF status[r] = "absent" THEN status'[r] = "pending"
              ELSE status'[r] \in Verdicts /\ moderator'[r] \in Moderators]_vars

\* Every step of a goroutine brings it closer to its end: with its fairness,
\* which is TLC's part, it ends.
LEMMA EmbeddingDescends ==
    ASSUME RegistryTypeOK, NEW r \in Reports, GoStep(r)
    PROVE  /\ StepsLeft(put'[r]) < StepsLeft(put[r])
           /\ \A s \in Reports \ {r} : put'[s] = put[s]
  <1> USE DEF RegistryTypeOK, VectorTypeOK, PutStages, StepsLeft
  <1>1. CASE StoreInMock(r) \/ AppendAfterFallBack(r)
    BY <1>1 DEF StoreInMock, AppendAfterFallBack, Appended
  <1>2. CASE SendPut(r) \/ PutAccepted(r) \/ PutRefused(r) \/ FallBack(r)
    BY <1>2 DEF SendPut, PutAccepted, PutRefused, FallBack, Unanswered
  <1> QED
    BY <1>1, <1>2 DEF GoStep, StoreStep

\* Whatever is not answered, refused, mocked or restarted, no report is sent to
\* Qdrant a second time and no goroutine begins twice (qdrant.go:62-105,
\* registry.go:63-73).
THEOREM NoSecondEmbedding == Spec => EmbeddedOnce
  <1> DEFINE Forward ==
          \A r \in Reports : put'[r] # put[r] => StepsLeft(put'[r]) < StepsLeft(put[r])
  <1>1. ASSUME IInv, [Next]_vars PROVE [Forward]_vars
    <2> USE DEF IInv
    <2>1. ASSUME NEW r \in Reports, InsertReport(r) \/ InsertFails(r) PROVE Forward
      BY <1>1, <2>1 DEF InsertReport, InsertFails, StepsLeft, RegistryTypeOK, VectorTypeOK
    <2>2. ASSUME NEW r \in Reports, GoStep(r) PROVE Forward
      BY <1>1, <2>2, EmbeddingDescends
    <2>3. ASSUME NEW d \in Desks, DeskStep(d) PROVE Forward
      BY <2>3 DEF DeskStep, BeginUpdate, UpdateStatus, UpdateFails, GetReport, GetReportFails,
                vectorVars
    <2>4. CASE SearchFallsBack
      BY <2>4 DEF SearchFallsBack
    <2>5. CASE Restart
      <3>1. \A r \in Reports :
               put'[r] = IF put[r] \in {"call", "sent", "mock"} \/ r \in InMock
                         THEN "lost" ELSE put[r]
        BY <2>5 DEF Restart, ClientRestarts
      <3>2. \A r \in InMock : put[r] = "stored"
        BY <1>1 DEF StoreSafe, StoreInv
      <3> QED
        BY <3>1, <3>2 DEF StepsLeft
    <2> QED
      BY <1>1, <2>1, <2>2, <2>3, <2>4, <2>5 DEF Next
  <1>2. Spec => []IInv
    BY Invariant
  <1> QED
    BY <1>1, <1>2, PTL DEF Spec, EmbeddedOnce

\* A worker is about to decide a report that has its row.
AskedInv == \A d \in Desks : desk[d].at = "update" => status[desk[d].report] # "absent"

LEMMA AskedStep == RegistryTypeOK /\ AskedInv /\ [Next]_vars => AskedInv'
  <1> SUFFICES ASSUME RegistryTypeOK, AskedInv, [Next]_vars PROVE AskedInv'
    OBVIOUS
  <1>1. \A r \in Reports : status[r] # "absent" => status'[r] # "absent"
    BY RowsStay
  <1>2. ASSUME NEW d \in Desks, desk'[d] = desk[d], desk[d].at = "update"
        PROVE  status'[desk'[d].report] # "absent"
    <2>1. desk[d].report \in Reports
      BY <1>2, DeskShape DEF Asking
    <2> QED
      BY <1>1, <1>2, <2>1 DEF AskedInv
  <1>3. CASE desk' = desk
    BY <1>2, <1>3 DEF AskedInv
  <1>4. ASSUME NEW d \in Desks, DeskStep(d) PROVE AskedInv'
    <2>1. \A e \in Desks \ {d} : desk'[e] = desk[e]
      BY <1>4 DEF DeskStep, BeginUpdate, UpdateStatus, UpdateFails, GetReport, GetReportFails,
                        RegistryTypeOK
    <2>2. desk'[d].at = "update" => status'[desk'[d].report] # "absent"
      BY <1>1, <1>4 DEF DeskStep, BeginUpdate, UpdateStatus, UpdateFails, GetReport,
                        GetReportFails, RegistryTypeOK, Idle, rowVars
    <2> QED
      BY <1>2, <2>1, <2>2 DEF AskedInv
  <1>5. CASE Restart
    <2>1. \A d \in Desks : desk'[d] = desk[d] \/ desk'[d] = Idle
      BY <1>5 DEF Restart
    <2> QED
      BY <1>2, <2>1 DEF AskedInv, Idle
  <1> QED
    BY <1>3, <1>4, <1>5 DEF Next, InsertReport, InsertFails, GoStep, vars

LEMMA AskedInvariance == Spec => []AskedInv
  <1>1. Init => AskedInv
    BY DEF Init, AskedInv, Idle
  <1>2. IInv => RegistryTypeOK
    BY DEF IInv
  <1> QED
    BY <1>1, <1>2, AskedStep, Invariant, PTL DEF Spec

\* However the UPDATEs of several moderators are ordered, repeated or not
\* acknowledged, a decided report is never undecided again, and shows who decided
\* it (registry.go:136-150).
THEOREM DecidedForGood == Spec => RowMoves
  <1> DEFINE Moves ==
          \A r \in Reports :
              status'[r] # status[r] =>
                  IF status[r] = "absent" THEN status'[r] = "pending"
                  ELSE status'[r] \in Verdicts /\ moderator'[r] \in Moderators
  <1>1. ASSUME IInv, AskedInv, [Next]_vars PROVE [Moves]_vars
    <2> USE DEF IInv, RegistryTypeOK, rowVars
    <2>1. ASSUME NEW r \in Reports, InsertReport(r) \/ InsertFails(r) PROVE Moves
      BY <1>1, <2>1 DEF InsertReport, InsertFails
    <2>2. ASSUME NEW r \in Reports, GoStep(r) PROVE Moves
      BY <2>2 DEF GoStep
    <2>3. ASSUME NEW d \in Desks, UpdateStatus(d) \/ UpdateFails(d) PROVE Moves
      <3>1. desk[d] \in Asking
        BY <1>1, <2>3, DeskShape DEF UpdateStatus, UpdateFails
      <3> DEFINE r == desk[d].report
      <3>2. r \in Reports /\ desk[d].who \in Moderators /\ desk[d].verdict \in Verdicts
        BY <3>1 DEF Asking
      <3>3. status[r] # "absent"
        BY <1>1, <2>3 DEF UpdateStatus, UpdateFails, AskedInv
      <3> QED
        BY <1>1, <2>3, <3>2, <3>3 DEF UpdateStatus, UpdateFails, Decide
    <2>4. ASSUME NEW d \in Desks,
                 GetReport(d) \/ GetReportFails(d) \/ \E s \in Disputed, m \in Moderators,
                                    v \in Verdicts \cup {"pending"} : BeginUpdate(d, s, m, v)
          PROVE  Moves
      BY <2>4 DEF GetReport, GetReportFails, BeginUpdate
    <2>5. CASE SearchFallsBack /\ UNCHANGED <<rowVars, desk, verdicts, faults>>
      BY <2>5
    <2>6. CASE Restart
      BY <2>6 DEF Restart
    <2> QED
      BY <1>1, <2>1, <2>2, <2>3, <2>4, <2>5, <2>6 DEF Next, DeskStep
  <1> QED
    BY <1>1, Invariant, AskedInvariance, PTL DEF Spec, RowMoves
===============================================================================
