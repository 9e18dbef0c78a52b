----------------------------- MODULE BrowserProofs -----------------------------
(***************************************************************************)
(* Proofs about Browser.  Each page has an invariant of its own, which its *)
(* steps preserve, which a page entered anew satisfies, and which nothing  *)
(* else disturbs: three lemmas per page, and one that says a step of the   *)
(* tab is one of the three for every page.                                 *)
(***************************************************************************)
EXTENDS Browser, SequenceTheorems, WellFoundedInduction, TLAPS

(***************************************************************************)
(* What a step of the tab is for one page.                                 *)
(***************************************************************************)
LEMMA StepAtCheckIn ==
    [Next]_vars => CheckInPageStep \/ CheckInPageLeft \/ UNCHANGED checkInVars
BY DEF Next, vars, pageVars, Navigation, FollowLink, Arrive, ArriveHere, BackForward,
       LoadAddress, Unload, Load, Shows, PageLeft, AtCheckIn, AtEmergency, AtDAO,
       AtProposal, AtReport, AtLogin, AtNavbar, Elsewhere

LEMMA StepAtEmergency ==
    [Next]_vars => EmergencyPageStep \/ EmergencyPageLeft \/ UNCHANGED emergencyVars
BY DEF Next, vars, pageVars, Navigation, FollowLink, Arrive, ArriveHere, BackForward,
       LoadAddress, Unload, Load, Shows, PageLeft, AtCheckIn, AtEmergency, AtDAO,
       AtProposal, AtReport, AtLogin, AtNavbar, Elsewhere

LEMMA StepAtDAO ==
    [Next]_vars => DAOPageStep \/ DAOPageLeft \/ UNCHANGED daoPageVars
BY DEF Next, vars, pageVars, Navigation, FollowLink, Arrive, ArriveHere, BackForward,
       LoadAddress, Unload, Load, Shows, PageLeft, AtCheckIn, AtEmergency, AtDAO,
       AtProposal, AtReport, AtLogin, AtNavbar, Elsewhere

LEMMA StepAtProposal ==
    [Next]_vars => ProposalPageStep \/ ProposalPageLeft \/ UNCHANGED proposalVars
BY DEF Next, vars, pageVars, Navigation, FollowLink, Arrive, ArriveHere, BackForward,
       LoadAddress, Unload, Load, Shows, PageLeft, AtCheckIn, AtEmergency, AtDAO,
       AtProposal, AtReport, AtLogin, AtNavbar, Elsewhere

(***************************************************************************)
(* The emergency page.                                                     *)
(***************************************************************************)

\* While a call of handleConfirm is under way the button is disabled, and none
\* was made while the button is neither disabled nor replaced.
EmergencyInv ==
    /\ triggers \in [TriggerCalls -> {"unused", "running", "triggered", "ended"}]
    /\ {dialogOpen, sending, sent, alertTriggered} \subseteq BOOLEAN
    /\ OneAlertPerVisit
    /\ ~sent /\ ~sending => Started = {}
    /\ \A t \in TriggerCalls : triggers[t] \in {"running", "triggered"} => sending

LEMMA EmergencyFresh == EmergencyPageInit => EmergencyInv
BY DEF EmergencyPageInit, EmergencyInv, OneAlertPerVisit, Started

LEMMA EmergencyLeft == EmergencyPageLeft => EmergencyInv'
BY DEF EmergencyPageLeft, EmergencyInv, OneAlertPerVisit, Started

LEMMA EmergencyStep ==
    ASSUME EmergencyInv, EmergencyPageStep
    PROVE  EmergencyInv'
<1> USE DEF EmergencyInv, OneAlertPerVisit, Started
<1>1. CASE OpenDialog
    BY <1>1 DEF OpenDialog
<1>2. CASE CloseDialog
    BY <1>2 DEF CloseDialog
<1>3. ASSUME NEW t \in TriggerCalls, HandleConfirm(t)
      PROVE  EmergencyInv'
    BY <1>3 DEF HandleConfirm
<1>4. ASSUME NEW t \in TriggerCalls, HandleTriggerEnds(t)
      PROVE  EmergencyInv'
    BY <1>4 DEF HandleTriggerEnds
<1>5. ASSUME NEW t \in TriggerCalls, HandleConfirmEnds(t)
      PROVE  EmergencyInv'
    <2>1. /\ triggers[t] # "unused"
          /\ triggers' = [triggers EXCEPT ![t] = "ended"]
          /\ sent' = TRUE /\ sending' = FALSE
          /\ dialogOpen' = dialogOpen /\ alertTriggered' = alertTriggered
        BY <1>5 DEF HandleConfirmEnds
    <2>2. \A u \in TriggerCalls : triggers[u] # "unused" => u = t
        BY <2>1
    <2>3. triggers' \in [TriggerCalls -> {"unused", "running", "triggered", "ended"}]
        BY <2>1
    <2>4. \A u \in TriggerCalls : triggers'[u] = IF u = t THEN "ended" ELSE "unused"
        BY <2>1, <2>2
    <2> QED
        BY <2>1, <2>3, <2>4
<1> QED
    BY <1>1, <1>2, <1>3, <1>4, <1>5 DEF EmergencyPageStep, EmergencyTimer

LEMMA EmergencyRests ==
    ASSUME EmergencyInv, UNCHANGED emergencyVars
    PROVE  EmergencyInv'
BY DEF EmergencyInv, emergencyVars, OneAlertPerVisit, Started

THEOREM EmergencyInvariant == Spec => []EmergencyInv
<1>1. Init => EmergencyInv
    BY EmergencyFresh DEF Init
<1>2. EmergencyInv /\ [Next]_vars => EmergencyInv'
    BY StepAtEmergency, EmergencyStep, EmergencyLeft, EmergencyRests
<1> QED
    BY <1>1, <1>2, PTL DEF Spec

\* One visit of the emergency page triggers one alert.
THEOREM OneAlert == Spec => []OneAlertPerVisit
<1>1. EmergencyInv => OneAlertPerVisit
    BY DEF EmergencyInv
<1> QED
    BY <1>1, EmergencyInvariant, PTL

(***************************************************************************)
(* The page of a proposal.                                                 *)
(***************************************************************************)

\* The vote under way is the one highlighted.
ProposalInv ==
    /\ selected \in Votes \cup {NoVote}
    /\ voting \in BOOLEAN
    /\ voting => selected \in Votes /\ casting = {selected}
    /\ HighlightedIsCast

LEMMA ProposalFresh == ProposalPageInit => ProposalInv
BY DEF ProposalPageInit, ProposalInv, HighlightedIsCast

LEMMA ProposalLeft == ProposalPageLeft => ProposalInv'
BY DEF ProposalPageLeft, ProposalInv, HighlightedIsCast

LEMMA ProposalStep ==
    ASSUME ProposalInv, ProposalPageStep
    PROVE  ProposalInv'
<1> USE DEF ProposalInv, HighlightedIsCast
<1>1. ASSUME NEW v \in Votes, HandleVote(v)
      PROVE  ProposalInv'
    BY <1>1 DEF HandleVote
<1>2. ASSUME NEW v \in Votes, VoteLands(v)
      PROVE  ProposalInv'
    BY <1>2 DEF VoteLands
<1> QED
    BY <1>1, <1>2 DEF ProposalPageStep, VoteTimer

LEMMA ProposalRests ==
    ASSUME ProposalInv, UNCHANGED proposalVars
    PROVE  ProposalInv'
BY DEF ProposalInv, proposalVars, HighlightedIsCast

THEOREM ProposalInvariant == Spec => []ProposalInv
<1>1. Init => ProposalInv
    BY ProposalFresh DEF Init
<1>2. ProposalInv /\ [Next]_vars => ProposalInv'
    BY StepAtProposal, ProposalStep, ProposalLeft, ProposalRests
<1> QED
    BY <1>1, <1>2, PTL DEF Spec

\* The vote highlighted on enabled buttons is the one cast last.
THEOREM Highlighted == Spec => []HighlightedIsCast
<1>1. ProposalInv => HighlightedIsCast
    BY DEF ProposalInv
<1> QED
    BY <1>1, ProposalInvariant, PTL

\* The vote buttons implement OneCall, but for its liveness.
THEOREM VotingRefinesOneCall == Spec => Voting!CallSpec
<1> DEFINE VoteCall == IF casting = {} THEN NoVote ELSE CHOOSE v \in casting : TRUE
<1>1. Init => Voting!CallInit
    BY DEF Init, ProposalPageInit, Voting!CallInit
<1>2. ProposalInv /\ ProposalInv' /\ [Next]_vars => [Voting!CallNext]_(Voting!callVars)
    <2> SUFFICES ASSUME ProposalInv, ProposalInv', [Next]_vars
                 PROVE  [Voting!CallNext]_(Voting!callVars)
        OBVIOUS
    <2> USE DEF Voting!CallNext, Voting!callVars, Voting!Begin, Voting!Finish, Voting!Abandon
    <2>1. /\ voting => VoteCall = selected
          /\ ~voting => VoteCall = NoVote
        BY DEF ProposalInv, HighlightedIsCast
    <2>2. /\ voting' => VoteCall' = selected'
          /\ ~voting' => VoteCall' = NoVote
        BY DEF ProposalInv, HighlightedIsCast
    <2>3. ASSUME NEW v \in Votes, HandleVote(v)
          PROVE  Voting!Begin(v)
        BY <2>1, <2>2, <2>3 DEF HandleVote
    <2>4. ASSUME NEW v \in Votes, VoteLands(v)
          PROVE  Voting!Finish
        BY <2>1, <2>2, <2>4, VotesAssumption DEF VoteLands, ProposalInv, HighlightedIsCast
    <2>5. CASE ProposalPageLeft
        BY <2>5 DEF ProposalPageLeft
    <2>6. CASE UNCHANGED proposalVars
        BY <2>6 DEF proposalVars
    <2> QED
        BY <2>3, <2>4, <2>5, <2>6, StepAtProposal DEF ProposalPageStep, VoteTimer
<1> QED
    BY <1>1, <1>2, ProposalInvariant, PTL DEF Spec, Voting!CallSpec
(***************************************************************************)
(* The governance page.                                                    *)
(***************************************************************************)

\* The flag says whether a call is under way, and there is one at most.
DAOPageInv ==
    /\ creating \in BOOLEAN
    /\ creations \subseteq CreateCalls
    /\ ~creating => creations = {}
    /\ \A j, k \in creations : j = k

LEMMA DAOPageStepInv ==
    ASSUME DAOPageInv, DAOPageStep
    PROVE  DAOPageInv'
<1> USE DEF DAOPageInv
<1>1. CASE NewProposal \/ CancelCreate \/ \E f \in Fields : EditProposal(f)
    BY <1>1 DEF NewProposal, CancelCreate, EditProposal
<1>2. ASSUME NEW k \in CreateCalls, HandleCreate(k)
      PROVE  DAOPageInv'
    BY <1>2 DEF HandleCreate
<1>3. ASSUME NEW k \in CreateCalls, CreateLands(k)
      PROVE  DAOPageInv'
    BY <1>3 DEF CreateLands
<1> QED
    BY <1>1, <1>2, <1>3 DEF DAOPageStep, DAOTimer

THEOREM DAOPageInvariant == Spec => []DAOPageInv
<1>1. Init => DAOPageInv
    BY DEF Init, DAOPageInit, DAOPageInv
<1>2. DAOPageInv /\ DAOPageLeft => DAOPageInv'
    BY DEF DAOPageLeft, DAOPageInv
<1>3. DAOPageInv /\ UNCHANGED daoPageVars => DAOPageInv'
    BY DEF DAOPageInv, daoPageVars
<1>4. DAOPageInv /\ [Next]_vars => DAOPageInv'
    BY <1>2, <1>3, StepAtDAO, DAOPageStepInv
<1> QED
    BY <1>1, <1>4, PTL DEF Spec

\* "Submit Proposal" implements OneCall, but for its liveness.
THEOREM CreationRefinesOneCall == Spec => Creation!CallSpec
<1> DEFINE CreateCall == IF creations = {} THEN NoCreate ELSE CHOOSE k \in creations : TRUE
<1>1. Init => Creation!CallInit
    BY DEF Init, DAOPageInit, Creation!CallInit
<1>2. DAOPageInv /\ DAOPageInv' /\ [Next]_vars => [Creation!CallNext]_(Creation!callVars)
    <2> SUFFICES ASSUME DAOPageInv, DAOPageInv', [Next]_vars
                 PROVE  [Creation!CallNext]_(Creation!callVars)
        OBVIOUS
    <2> USE DEF Creation!CallNext, Creation!callVars, Creation!Begin, Creation!Finish,
                Creation!Abandon
    <2>1. ASSUME NEW k \in creations
          PROVE  CreateCall = k /\ k # NoCreate
        BY <2>1, CreateCallsAssumption DEF DAOPageInv
    <2>2. ASSUME NEW k \in creations'
          PROVE  CreateCall' = k
        BY <2>2 DEF DAOPageInv
    <2>3. CASE NewProposal \/ CancelCreate \/ \E f \in Fields : EditProposal(f)
        <3>1. UNCHANGED <<creations, created>>
            BY <2>3 DEF NewProposal, CancelCreate, EditProposal
        <3> QED
            BY <3>1
    <2>4. ASSUME NEW k \in CreateCalls, HandleCreate(k)
          PROVE  Creation!Begin(k)
        BY <2>2, <2>4 DEF HandleCreate, DAOPageInv
    <2>5. ASSUME NEW k \in CreateCalls, CreateLands(k)
          PROVE  Creation!Finish
        <3>1. creations' = {}
            BY <2>5 DEF CreateLands, DAOPageInv
        <3> QED
            BY <2>1, <2>5, <3>1 DEF CreateLands
    <2>6. CASE DAOPageLeft
        BY <2>6 DEF DAOPageLeft
    <2>7. CASE UNCHANGED daoPageVars
        BY <2>7 DEF daoPageVars
    <2> QED
        BY <2>3, <2>4, <2>5, <2>6, <2>7, StepAtDAO DEF DAOPageStep, DAOTimer
<1> QED
    BY <1>1, <1>2, DAOPageInvariant, PTL DEF Spec, Creation!CallSpec

(***************************************************************************)
(* The check-in page.                                                      *)
(***************************************************************************)

\* Unless two Schedules overlapped, the form is open only when nothing is
\* pending, and a completion under way is of a pending check-in.
CheckInInv ==
    /\ list \in Seq(PageIds)
    /\ \A i, j \in DOMAIN list : list[i] = list[j] => i = j
    /\ scheduling \subseteq NewCheckIns \ Listed
    /\ formOpen \in BOOLEAN /\ overlap \in BOOLEAN
    /\ OnePendingUnlessOverlap
    /\ ~overlap /\ formOpen => Pending = {}
    /\ ~overlap => ending \subseteq Pending

\* What landing does to the list.
LEMMA Prepended ==
    ASSUME list \in Seq(PageIds),
           \A i, j \in DOMAIN list : list[i] = list[j] => i = j,
           NEW c \in PageIds, c \notin Listed,
           list' = <<c>> \o list
    PROVE  /\ list' \in Seq(PageIds)
           /\ Listed' = Listed \cup {c}
           /\ \A i, j \in DOMAIN list' : list'[i] = list'[j] => i = j
<1>1. /\ list' \in Seq(PageIds)
      /\ Len(list) \in Nat
      /\ DOMAIN list = 1..Len(list)
      /\ DOMAIN list' = 1..(Len(list) + 1)
      /\ list'[1] = c
      /\ \A i \in 2..(Len(list) + 1) : list'[i] = list[i - 1]
    OBVIOUS
<1>2. \A i \in DOMAIN list : i + 1 \in DOMAIN list' /\ list'[i + 1] = list[i]
    BY <1>1
<1>3. 1 \in DOMAIN list'
    BY <1>1
<1>4. \A i \in DOMAIN list' : i = 1 \/ (i - 1 \in DOMAIN list /\ list'[i] = list[i - 1])
    BY <1>1
<1>5. Listed' = Listed \cup {c}
    <2>1. ASSUME NEW d \in Listed'
          PROVE  d \in Listed \cup {c}
        BY <1>1, <1>4 DEF Listed
    <2>2. ASSUME NEW d \in Listed \cup {c}
          PROVE  d \in Listed'
        <3>1. CASE d = c
            BY <1>1, <1>3, <3>1 DEF Listed
        <3>2. CASE d # c
            <4>1. PICK i \in DOMAIN list : d = list[i]
                BY <2>2, <3>2 DEF Listed
            <4>2. i + 1 \in DOMAIN list' /\ list'[i + 1] = d
                BY <1>2, <4>1
            <4> QED
                BY <4>2 DEF Listed
        <3> QED
            BY <3>1, <3>2
    <2> QED
        BY <2>1, <2>2
<1>6. ASSUME NEW i \in DOMAIN list', NEW j \in DOMAIN list', list'[i] = list'[j]
      PROVE  i = j
    BY <1>1, <1>4, <1>6 DEF Listed
<1> QED
    BY <1>1, <1>5, <1>6

\* A set of natural numbers has a least one.
LEMMA LeastNumber ==
    ASSUME NEW T \in SUBSET Nat, T # {}
    PROVE  \E n \in T : \A m \in T : n <= m
<1> DEFINE R == OpToRel(<, Nat)
<1>1. PICK n \in T : \A m \in T : ~(<<m, n>> \in R)
    BY NatLessThanWellFounded, WFMin, Zenon
<1>2. \A m \in Nat : m < n => <<m, n>> \in R
    BY DEF OpToRel
<1>3. ASSUME NEW m \in T
      PROVE  n <= m
    <2>1. ~(m < n)
        BY <1>1, <1>2, Zenon
    <2> QED
        BY <2>1
<1> QED
    BY <1>3, Zenon

\* The widget shows a pending check-in whenever there is one: of the places of
\* the list that hold a pending one there is a first.
LEMMA CurrentIsPending ==
    ASSUME list \in Seq(PageIds), Pending # {}
    PROVE  Current \in Pending
<1> DEFINE Places == {i \in DOMAIN list : list[i] \in Pending}
<1>1. DOMAIN list = 1..Len(list) /\ Len(list) \in Nat
    OBVIOUS
<1>2. Places \in SUBSET Nat /\ Places # {}
    BY <1>1 DEF Pending, Listed
<1>3. PICK i \in Places : \A j \in Places : i <= j
    BY <1>2, LeastNumber
<1>4. \A j \in 1..(i - 1) : list[j] \notin Pending
    BY <1>1, <1>3
<1> QED
    BY <1>3, <1>4 DEF Current

LEMMA CheckInStep ==
    ASSUME CheckInInv, CheckInPageStep
    PROVE  CheckInInv'
<1> USE DEF CheckInInv, OnePendingUnlessOverlap
<1>1. CASE OpenSchedule \/ CancelSchedule \/ \E given \in BOOLEAN : SetTime(given)
    BY <1>1 DEF OpenSchedule, CancelSchedule, SetTime, Pending, Listed
<1>2. ASSUME NEW c \in NewCheckIns, HandleSchedule(c)
      PROVE  CheckInInv'
    <2>1. Listed' = Listed /\ Pending' = Pending
        BY <1>2 DEF HandleSchedule, Pending, Listed
    <2>2. CASE scheduling # {}
        BY <1>2, <2>1, <2>2 DEF HandleSchedule
    <2>3. CASE scheduling = {}
        BY <1>2, <2>1, <2>3 DEF HandleSchedule
    <2> QED
        BY <2>2, <2>3
<1>3. CASE HandleComplete
    <2>1. Listed' = Listed /\ Pending' = Pending
        BY <1>3 DEF HandleComplete, Pending, Listed
    <2>2. ~overlap => Current \in Pending
        BY <1>3, CurrentIsPending DEF HandleComplete
    <2> QED
        BY <1>3, <2>1, <2>2 DEF HandleComplete
<1>4. ASSUME NEW c \in NewCheckIns, ScheduleLands(c)
      PROVE  CheckInInv'
    <2>1. /\ c \notin Listed
          /\ c \in PageIds
        BY <1>4 DEF ScheduleLands, PageIds
    <2>2. /\ list' \in Seq(PageIds)
          /\ Listed' = Listed \cup {c}
          /\ \A i, j \in DOMAIN list' : list'[i] = list'[j] => i = j
        <3>1. list' = <<c>> \o list
            BY <1>4 DEF ScheduleLands
        <3> QED
            BY <2>1, <3>1, Prepended
    <2>3. Pending' \subseteq Pending \cup {c} /\ Pending \subseteq Pending'
        BY <1>4, <2>2 DEF ScheduleLands, Pending
    <2> QED
        BY <1>4, <2>2, <2>3 DEF ScheduleLands
<1>5. ASSUME NEW c \in PageIds, CompleteLands(c)
      PROVE  CheckInInv'
    <2>1. Listed' = Listed /\ Pending' = {}
        BY <1>5 DEF CompleteLands, Pending, Listed
    <2>2. ~overlap => ending' = {}
        BY <1>5 DEF CompleteLands
    <2> QED
        BY <1>5, <2>1, <2>2 DEF CompleteLands
<1> QED
    BY <1>1, <1>2, <1>3, <1>4, <1>5 DEF CheckInPageStep, CheckInTimer

LEMMA CheckInFresh ==
    ASSUME NEW l, l = <<MockPending>>
    PROVE  /\ l \in Seq(PageIds)
           /\ \A i, j \in DOMAIN l : l[i] = l[j] => i = j
           /\ {l[i] : i \in DOMAIN l} = {MockPending}
BY DEF PageIds

THEOREM CheckInInvariant == Spec => []CheckInInv
<1> USE DEF CheckInInv, OnePendingUnlessOverlap
<1>1. Init => CheckInInv
    BY CheckInFresh DEF Init, CheckInPageInit, Pending, Listed
<1>2. CheckInPageLeft => CheckInInv'
    BY CheckInFresh DEF CheckInPageLeft, Pending, Listed
<1>3. CheckInInv /\ UNCHANGED checkInVars => CheckInInv'
    BY DEF checkInVars, Pending, Listed
<1>4. CheckInInv /\ [Next]_vars => CheckInInv'
    BY <1>2, <1>3, StepAtCheckIn, CheckInStep
<1> QED
    BY <1>1, <1>4, PTL DEF Spec

\* One check-in is next, unless Schedule was clicked again within its wait.
THEOREM OnePending == Spec => []OnePendingUnlessOverlap
<1>1. CheckInInv => OnePendingUnlessOverlap
    BY DEF CheckInInv
<1> QED
    BY <1>1, CheckInInvariant, PTL

\* "Complete Check-In" completes what the widget showed at the click.
THEOREM CompletesShown == Spec => CompletesWhatItShows
<1> DEFINE P == \A c \in PageIds : c \in done' \ done => overlap \/ c = ended'
<1>1. CheckInInv /\ [Next]_vars => [P]_checkInVars
    <2> SUFFICES ASSUME CheckInInv, [Next]_vars
                 PROVE  P \/ UNCHANGED checkInVars
        BY DEF checkInVars
    <2>1. CASE CheckInPageStep
        <3>1. ASSUME NEW e \in PageIds, CompleteLands(e)
              PROVE  P
            BY <3>1 DEF CompleteLands, CheckInInv, OnePendingUnlessOverlap, Pending
        <3>2. CASE ~ \E e \in PageIds : CompleteLands(e)
            BY <2>1, <3>2 DEF CheckInPageStep, CheckInTimer, OpenSchedule, CancelSchedule,
                SetTime, HandleSchedule, HandleComplete, ScheduleLands
        <3> QED
            BY <3>1, <3>2
    <2>2. CASE CheckInPageLeft
        BY <2>2 DEF CheckInPageLeft
    <2> QED
        BY <2>1, <2>2, StepAtCheckIn
<1> QED
    BY <1>1, CheckInInvariant, PTL DEF Spec, CompletesWhatItShows

\* The widget's flag says whether a completion is under way, and there is one
\* at most, however many check-ins overlapping Schedules left pending.
CompletionInv ==
    /\ completing \in BOOLEAN
    /\ ending \subseteq PageIds
    /\ ~completing => ending = {}
    /\ \A c, d \in ending : c = d

LEMMA CompletionStep ==
    ASSUME CheckInInv, CompletionInv, CheckInPageStep
    PROVE  CompletionInv'
<1> USE DEF CompletionInv
<1>1. CASE HandleComplete
    <2>1. Current \in PageIds
        BY <1>1, CurrentIsPending DEF HandleComplete, CheckInInv, Pending, Listed
    <2> QED
        BY <1>1, <2>1 DEF HandleComplete
<1>2. ASSUME NEW c \in PageIds, CompleteLands(c)
      PROVE  CompletionInv'
    BY <1>2 DEF CompleteLands
<1>3. CASE ~HandleComplete /\ ~ \E c \in PageIds : CompleteLands(c)
    BY <1>3 DEF CheckInPageStep, CheckInTimer, OpenSchedule, CancelSchedule, SetTime,
        HandleSchedule, ScheduleLands
<1> QED
    BY <1>1, <1>2, <1>3

THEOREM CompletionInvariant == Spec => []CompletionInv
<1>1. Init => CompletionInv
    BY DEF Init, CheckInPageInit, CompletionInv
<1>2. CompletionInv /\ (CheckInPageLeft \/ UNCHANGED checkInVars) => CompletionInv'
    BY DEF CheckInPageLeft, checkInVars, CompletionInv
<1>3. CheckInInv /\ CompletionInv /\ [Next]_vars => CompletionInv'
    BY <1>2, StepAtCheckIn, CompletionStep
<1> QED
    BY <1>1, <1>3, CheckInInvariant, PTL DEF Spec

\* "Complete Check-In" implements OneCall, but for its liveness: also when
\* several check-ins are pending, one completion runs at a time and what ended
\* last is what the widget showed at its click.
THEOREM CompletionRefinesOneCall == Spec => Completion!CallSpec
<1> DEFINE CompleteCall == IF ending = {} THEN NoCheckIn ELSE CHOOSE c \in ending : TRUE
<1>1. Init => Completion!CallInit
    BY DEF Init, CheckInPageInit, Completion!CallInit
<1>2. CheckInInv /\ CompletionInv /\ CompletionInv' /\ [Next]_vars
      => [Completion!CallNext]_(Completion!callVars)
    <2> SUFFICES ASSUME CheckInInv, CompletionInv, CompletionInv', [Next]_vars
                 PROVE  [Completion!CallNext]_(Completion!callVars)
        OBVIOUS
    <2> USE DEF Completion!CallNext, Completion!callVars, Completion!Begin,
                Completion!Finish, Completion!Abandon
    <2>1. ASSUME NEW c \in ending
          PROVE  CompleteCall = c /\ c # NoCheckIn
        BY <2>1, CheckInIdsAssumption DEF CompletionInv, PageIds
    <2>2. ASSUME NEW c \in ending'
          PROVE  CompleteCall' = c
        BY <2>2 DEF CompletionInv
    <2>3. CASE HandleComplete
        <3>1. Current \in PageIds
            BY <2>3, CurrentIsPending DEF HandleComplete, CheckInInv, Pending, Listed
        <3>2. CompleteCall = NoCheckIn /\ CompleteCall' = Current
            BY <2>2, <2>3 DEF HandleComplete, CompletionInv
        <3>3. Completion!Begin(Current)
            BY <2>3, <3>2 DEF HandleComplete
        <3> QED
            BY <3>1, <3>3
    <2>4. ASSUME NEW c \in PageIds, CompleteLands(c)
          PROVE  Completion!Finish
        <3>1. ending' = {}
            BY <2>4 DEF CompleteLands, CompletionInv
        <3> QED
            BY <2>1, <2>4, <3>1 DEF CompleteLands
    <2>5. CASE CheckInPageStep /\ ~HandleComplete /\ ~ \E c \in PageIds : CompleteLands(c)
        <3>1. UNCHANGED <<ending, ended>>
            BY <2>5 DEF CheckInPageStep, CheckInTimer, OpenSchedule, CancelSchedule, SetTime,
                HandleSchedule, ScheduleLands
        <3> QED
            BY <3>1
    <2>6. CASE CheckInPageLeft
        BY <2>6 DEF CheckInPageLeft
    <2>7. CASE UNCHANGED checkInVars
        BY <2>7 DEF checkInVars
    <2> QED
        BY <2>3, <2>4, <2>5, <2>6, <2>7, StepAtCheckIn
<1> QED
    BY <1>1, <1>2, CheckInInvariant, CompletionInvariant, PTL DEF Spec, Completion!CallSpec

(***************************************************************************)
(* Where the tab is and who is signed in.                                  *)
(***************************************************************************)

\* A login call that is not on the login page was left there; and what the
\* Navbar shows is what a request reads, but for the three exceptions.
SessionInv ==
    /\ trip \in Trips
    /\ path \in trip.pages
    /\ entries \subseteq trip.pages
    /\ going \in trip.pages \cup {Stay}
    /\ {token, shown} \subseteq Wallets \cup {Nobody}
    /\ user = token
    /\ address \in Addresses
    /\ {connecting, connectError, unloading, unseen} \subseteq BOOLEAN
    /\ connects \in [Logins -> [for : Addresses, left : BOOLEAN]]
    /\ unloading => "/login" \in trip.pages
    /\ \A l \in InFlight : "/login" \in trip.pages /\ (connects[l].left \/ path = "/login")
    /\ path \in AppPages => shown = token \/ unseen \/ unloading

LEMMA SessionTypes ==
    /\ Free \in [for : Addresses, left : BOOLEAN]
    /\ \A p \in Paths : p \in AppPages \/ p = "/" \/ p = "/login"
    /\ "/login" \notin AppPages
    /\ Wallets \cup {Nobody} \subseteq Addresses
BY DEF Free, Addresses, Paths, AppPages, SidebarLinks, Proposal

LEMMA SessionStart == Init => SessionInv
BY SessionTypes DEF Init, SessionInit, SessionInv, InFlight, Addresses

\* A page shown in the same document.
LEMMA ShowsKeeps ==
    ASSUME SessionInv, NEW p \in trip.pages, Shows(p),
           entries' \subseteq trip.pages
    PROVE  SessionInv'
<1>1. /\ trip' = trip /\ path' = p /\ going' = Stay /\ shown' = token /\ unseen' = FALSE
      /\ UNCHANGED <<token, user, unloading>>
      /\ address' = Nobody /\ connecting' = FALSE /\ connectError' = FALSE
    BY DEF Shows, NavbarRenders, LoginLeft, LoginEntered, storageVars, SessionInv
<1>2. /\ connects' \in [Logins -> [for : Addresses, left : BOOLEAN]]
      /\ \A l \in InFlight' : l \in InFlight /\ connects'[l].left
    <2>1. connects' = [l \in Logins |->
                IF l \in InFlight THEN [connects[l] EXCEPT !.left = TRUE] ELSE Free]
        BY DEF Shows, LoginLeft
    <2> QED
        BY <2>1, SessionTypes DEF SessionInv, InFlight
<1> QED
    BY <1>1, <1>2, SessionTypes DEF SessionInv

LEMMA LoadKeeps ==
    ASSUME SessionInv, NEW p \in trip.pages, Load(p)
    PROVE  SessionInv'
<1>1. /\ trip' = trip /\ path' = p /\ entries' = {p} /\ going' = Stay
      /\ shown' = token /\ unseen' = FALSE /\ unloading' = FALSE
      /\ UNCHANGED <<token, user>>
      /\ address' = Nobody /\ connecting' = FALSE /\ connectError' = FALSE
      /\ connects' = [l \in Logins |-> Free]
    BY DEF Load, NavbarRenders, DocumentLeft, LoginEntered, storageVars, SessionInv
<1>2. InFlight' = {}
    BY <1>1 DEF InFlight
<1> QED
    BY <1>1, <1>2, SessionTypes DEF SessionInv

LEMMA ConnectLandsKeeps ==
    ASSUME SessionInv, NEW l \in Logins, ConnectLands(l), UNCHANGED placeVars
    PROVE  SessionInv'
<1>1. /\ connects' = [connects EXCEPT ![l] = Free]
      /\ l \in InFlight
      /\ UNCHANGED <<path, entries, trip, address, connecting, connectError, shown, unloading>>
    BY DEF ConnectLands, placeVars, loginVars
<1>2. /\ connects' \in [Logins -> [for : Addresses, left : BOOLEAN]]
      /\ \A k \in InFlight' : k \in InFlight /\ connects'[k] = connects[k]
    BY <1>1, SessionTypes DEF SessionInv, InFlight
<1>3. "/dashboard" \in trip.pages
    BY <1>1, TripsAssumption DEF SessionInv
<1>4. CASE connects[l].for = ForeignName
    BY <1>1, <1>2, <1>4 DEF ConnectLands, SessionInv, storageVars
<1>5. CASE connects[l].for # ForeignName
    <2>1. connects[l].for \in Wallets \cup {Nobody}
        BY <1>5 DEF SessionInv, Addresses
    <2>2. connects[l].left \/ path = "/login"
        BY <1>1 DEF SessionInv
    <2>3. connects[l].left \in BOOLEAN
        BY DEF SessionInv
    <2>4. /\ token' = connects[l].for /\ user' = token' /\ going' = "/dashboard"
          /\ unseen' = (unseen \/ connects[l].left)
        BY <1>5 DEF ConnectLands
    <2> QED
        BY <1>1, <1>2, <1>3, <2>1, <2>2, <2>3, <2>4, SessionTypes DEF SessionInv
<1> QED
    BY <1>4, <1>5

LEMMA LoginPageKeeps ==
    ASSUME SessionInv, AtLogin
    PROVE  SessionInv'
<1>1. UNCHANGED placeVars /\ path = "/login" /\ LoginPageStep(trip.logins)
    BY DEF AtLogin
<1>2. CASE (\E w \in Addresses : TypeAddress(w)) \/ ConnectBlank
    BY <1>1, <1>2 DEF TypeAddress, ConnectBlank, SessionInv, placeVars, storageVars,
        navbarVars, InFlight
<1>3. ASSUME NEW l \in trip.logins, Connect(l)
      PROVE  SessionInv'
    <2>1. l \in Logins
        BY TripsAssumption DEF SessionInv
    <2>2. /\ connects' = [connects EXCEPT ![l] = [for |-> address, left |-> FALSE]]
          /\ connecting' = TRUE /\ connectError' = FALSE
          /\ UNCHANGED <<token, user, address, shown, unseen, going, unloading, path,
                         entries, trip>>
        BY <1>1, <1>3 DEF Connect, placeVars, storageVars, navbarVars
    <2>3. connects' \in [Logins -> [for : Addresses, left : BOOLEAN]]
        BY <2>1, <2>2 DEF SessionInv
    <2> QED
        BY <1>1, <2>2, <2>3 DEF SessionInv
<1> QED
    BY <1>1, <1>2, <1>3 DEF LoginPageStep

LEMMA NavbarKeeps ==
    ASSUME SessionInv, AtNavbar
    PROVE  SessionInv'
<1>1. CASE ToggleTheme
    BY <1>1 DEF AtNavbar, ToggleTheme, NavbarRenders, SessionInv, placeVars, storageVars,
        loginVars, InFlight
<1>2. CASE "/login" \in trip.pages /\ Logout
    BY <1>2 DEF AtNavbar, Logout, SessionInv, placeVars, loginVars, navbarVars, InFlight
<1> QED
    BY <1>1, <1>2 DEF AtNavbar

LEMMA SessionRests ==
    ASSUME SessionInv, UNCHANGED <<placeVars, sessionVars>>
    PROVE  SessionInv'
BY DEF SessionInv, placeVars, sessionVars, storageVars, loginVars, navbarVars, InFlight

LEMMA SessionStep ==
    ASSUME SessionInv, [Next]_vars
    PROVE  SessionInv'
<1>1. ASSUME NEW p \in Paths, FollowLink(p)
      PROVE  SessionInv'
    BY <1>1 DEF FollowLink, SessionInv, placeVars, storageVars, loginVars, navbarVars, InFlight
<1>2. CASE Arrive
    BY <1>2, ShowsKeeps DEF Arrive, SessionInv
<1>3. CASE ArriveHere
    BY <1>3 DEF ArriveHere, SessionInv, placeVars, storageVars, loginVars, navbarVars, InFlight
<1>4. ASSUME NEW p \in Paths, BackForward(p)
      PROVE  SessionInv'
    BY <1>4, ShowsKeeps DEF BackForward, SessionInv
<1>5. CASE LoadAddress \/ Unload
    BY <1>5, LoadKeeps DEF LoadAddress, Unload, SessionInv
<1>6. CASE AtCheckIn \/ AtEmergency \/ AtDAO \/ AtProposal \/ AtReport
    BY <1>6, SessionRests DEF AtCheckIn, AtEmergency, AtDAO, AtProposal, AtReport
<1>7. CASE AtLogin \/ AtNavbar
    BY <1>7, LoginPageKeeps, NavbarKeeps
<1>8. CASE (ReportAnswer \/ BackendStep) /\ UNCHANGED <<placeVars, sessionVars>>
    BY <1>8, SessionRests
<1>9. ASSUME NEW l \in Logins, ConnectLands(l), UNCHANGED placeVars
      PROVE  SessionInv'
    BY <1>9, ConnectLandsKeeps
<1>10. ASSUME NEW w \in Wallets \cup {Nobody}, OtherTabWrites(w, trip.writes),
              UNCHANGED placeVars
       PROVE  SessionInv'
    BY <1>10 DEF OtherTabWrites, SessionInv, placeVars, loginVars, InFlight
<1>11. CASE UNCHANGED vars
    BY <1>11, SessionRests DEF vars
<1> QED
    BY <1>1, <1>2, <1>3, <1>4, <1>5, <1>6, <1>7, <1>8, <1>9, <1>10, <1>11
    DEF Next, Navigation, Elsewhere, LoginTimer, OtherTabStep

THEOREM SessionInvariant == Spec => []SessionInv
<1> QED
    BY SessionStart, SessionStep, PTL DEF Spec

(***************************************************************************)
(* The report form.                                                        *)
(***************************************************************************)

\* While the button is enabled, every submission of this filling is told an
\* error.
ReportInv ==
    /\ draft \in Drafts
    /\ {submitting, formError, success} \subseteq BOOLEAN
    /\ reached \in [Attempts -> {"unused", "sent", "stored", "refused"}]
    /\ told \in [Attempts -> {"nothing", "success", "error"}]
    /\ sentBy \in [Attempts -> Wallets \cup {Nobody}]
    /\ thisFill \subseteq Attempts
    /\ HeardIsTrue
    /\ TwiceOnlyAfterError
    /\ ~submitting /\ ~success => \A a \in thisFill : told[a] = "error"

LEMMA StepAtReport ==
    [Next]_vars => \/ path = "/report" /\ ReportFormStep(trip.attempts, token)
                                       /\ UNCHANGED sessionVars
                   \/ ReportAnswer
                   \/ BackendStep
                   \/ FormLeft
                   \/ UNCHANGED reportVars
BY DEF Next, vars, pageVars, Navigation, FollowLink, Arrive, ArriveHere, BackForward,
       LoadAddress, Unload, Load, Shows, PageLeft, AtCheckIn, AtEmergency, AtDAO,
       AtProposal, AtReport, AtLogin, AtNavbar, Elsewhere

LEMMA HearsKeeps ==
    ASSUME ReportInv, NEW a \in Attempts, Awaited(a),
           NEW answer \in {"success", "error"}, Hears(a, answer),
           answer = "success" => reached[a] = "stored"
    PROVE  ReportInv'
<1>1. /\ told' = [told EXCEPT ![a] = answer]
      /\ success' = (answer = "success")
      /\ formError' = (answer = "error")
      /\ submitting' = FALSE
      /\ UNCHANGED <<draft, reached, sentBy, thisFill>>
    BY DEF Hears
<1>2. a \in thisFill /\ told[a] = "nothing"
    BY DEF Awaited
<1>3. \A b \in thisFill : b # a => told[b] = "error"
    BY <1>2 DEF ReportInv, TwiceOnlyAfterError
<1>4. /\ told' \in [Attempts -> {"nothing", "success", "error"}]
      /\ told'[a] = answer
      /\ \A b \in Attempts : b # a => told'[b] = told[b]
    BY <1>1 DEF ReportInv
<1>5. HeardIsTrue'
    BY <1>1, <1>2, <1>4 DEF ReportInv, HeardIsTrue
<1>6. TwiceOnlyAfterError'
    BY <1>1, <1>3, <1>4 DEF ReportInv, TwiceOnlyAfterError
<1>7. (~submitting /\ ~success => \A b \in thisFill : told[b] = "error")'
    BY <1>1, <1>3, <1>4 DEF ReportInv
<1> QED
    BY <1>1, <1>4, <1>5, <1>6, <1>7 DEF ReportInv

LEMMA ReportFormKeeps ==
    ASSUME ReportInv, SessionInv, ReportFormStep(trip.attempts, token)
    PROVE  ReportInv'
<1> USE DEF ReportInv, HeardIsTrue, TwiceOnlyAfterError
<1>1. CASE (\E d \in Drafts : EditReport(d)) \/ SubmitInvalid
    <2>1. /\ draft' \in Drafts /\ formError' \in BOOLEAN
          /\ UNCHANGED <<submitting, success, reached, told, sentBy, thisFill>>
        BY <1>1 DEF EditReport, SubmitInvalid
    <2> QED
        BY <2>1
<1>2. ASSUME NEW a \in trip.attempts, SubmitReport(a, token)
      PROVE  ReportInv'
    <2>1. a \in Attempts /\ token \in Wallets \cup {Nobody}
        BY TripsAssumption DEF SessionInv
    <2>2. /\ reached' \in [Attempts -> {"unused", "sent", "stored", "refused"}]
          /\ reached[a] = "unused"
          /\ \A b \in Attempts : b # a => reached'[b] = reached[b]
          /\ sentBy' \in [Attempts -> Wallets \cup {Nobody}]
          /\ thisFill' = thisFill \cup {a}
          /\ \A b \in thisFill : told[b] = "error"
        BY <1>2, <2>1 DEF SubmitReport
    <2> QED
        BY <1>2, <2>1, <2>2 DEF SubmitReport
<1>3. CASE SubmitAnother
    BY <1>3 DEF SubmitAnother, Drafts
<1> QED
    BY <1>1, <1>2, <1>3 DEF ReportFormStep

LEMMA ReportStep ==
    ASSUME ReportInv, SessionInv, [Next]_vars
    PROVE  ReportInv'
<1>1. ASSUME NEW a \in Attempts, AnswerArrives(a)
      PROVE  ReportInv'
    BY <1>1, HearsKeeps DEF AnswerArrives
<1>2. ASSUME NEW a \in Attempts, AnswerLost(a)
      PROVE  ReportInv'
    BY <1>2, HearsKeeps DEF AnswerLost
<1>3. ASSUME NEW a \in Attempts, BackendDecides(a)
      PROVE  ReportInv'
    BY <1>3 DEF BackendDecides, formVars, ReportInv, HeardIsTrue, TwiceOnlyAfterError
<1>4. CASE FormLeft
    BY <1>4 DEF FormLeft, ReportInv, HeardIsTrue, TwiceOnlyAfterError, Drafts
<1>5. CASE UNCHANGED reportVars
    BY <1>5 DEF reportVars, formVars, ReportInv, HeardIsTrue, TwiceOnlyAfterError
<1> QED
    BY <1>1, <1>2, <1>3, <1>4, <1>5, StepAtReport, ReportFormKeeps
    DEF ReportAnswer, BackendStep

THEOREM ReportInvariant == Spec => []ReportInv
<1>1. Init => ReportInv
    BY DEF Init, ReportFormInit, ReportInv, HeardIsTrue, TwiceOnlyAfterError, Drafts
<1> QED
    BY <1>1, ReportStep, SessionInvariant, PTL DEF Spec

\* Every variable of the session and of the report form keeps its type.
THEOREM TypeCorrect == Spec => []TypeOK
<1>1. SessionInv /\ ReportInv => TypeOK
    BY DEF SessionInv, ReportInv, TypeOK
<1> QED
    BY <1>1, SessionInvariant, ReportInvariant, PTL

\* "Report Submitted" is shown only for a report that is stored.
THEOREM HeardTrue == Spec => []HeardIsTrue
<1>1. ReportInv => HeardIsTrue
    BY DEF ReportInv
<1> QED
    BY <1>1, ReportInvariant, PTL

\* A report is sent twice only by a user who was told of an error.
THEOREM NoSilentTwice == Spec => []TwiceOnlyAfterError
<1>1. ReportInv => TwiceOnlyAfterError
    BY DEF ReportInv
<1> QED
    BY <1>1, ReportInvariant, PTL

\* A report is sent as the user the Navbar shows, but for the exceptions.
THEOREM SentAsTheNavbarShows == Spec => SentAsShown
<1> DEFINE P == \A a \in Attempts :
                    reached[a] = "unused" /\ reached'[a] = "sent" =>
                        sentBy'[a] = shown \/ unseen \/ unloading
<1>1. SessionInv /\ ReportInv /\ [Next]_vars => [P]_vars
    <2> SUFFICES ASSUME SessionInv, ReportInv, [Next]_vars
                 PROVE  P \/ UNCHANGED vars
        OBVIOUS
    <2>1. CASE path = "/report" /\ ReportFormStep(trip.attempts, token)
        <3>1. shown = token \/ unseen \/ unloading
            BY <2>1 DEF SessionInv, AppPages, SidebarLinks
        <3>2. ASSUME NEW a \in trip.attempts, SubmitReport(a, token)
              PROVE  P
            <4>1. a \in Attempts
                BY TripsAssumption DEF SessionInv
            <4> QED
                BY <3>1, <3>2, <4>1 DEF SubmitReport, ReportInv
        <3>3. CASE ~ \E a \in trip.attempts : SubmitReport(a, token)
            BY <2>1, <3>3 DEF ReportFormStep, EditReport, SubmitInvalid, SubmitAnother
        <3> QED
            BY <3>2, <3>3
    <2>2. CASE ReportAnswer
        BY <2>2 DEF ReportAnswer, AnswerArrives, AnswerLost, Hears
    <2>3. ASSUME NEW b \in Attempts, BackendDecides(b)
          PROVE  P
        BY <2>3 DEF BackendDecides, ReportInv
    <2>4. CASE FormLeft \/ UNCHANGED reportVars
        BY <2>4 DEF FormLeft, reportVars
    <2> QED
        BY <2>1, <2>2, <2>3, <2>4, StepAtReport DEF BackendStep
<1> QED
    BY <1>1, SessionInvariant, ReportInvariant, PTL DEF Spec, SentAsShown
===============================================================================
