------------------------------- MODULE DAOProofs -------------------------------
(***************************************************************************)
(* Voting, for every value of the constants of DAO: one vote per user, the *)
(* last explicit vote counts, a quorum is met by votes and stays met, the  *)
(* service implements Ballot, and a deadline leaves only the votes that    *)
(* were under way.                                                         *)
(***************************************************************************)
EXTENDS DAO, FiniteSetTheorems, TLAPS

LEMMA DAOTypeInit == Init => DAOTypeOK
BY DAOBounds DEF Init, DAOTypeOK, Row

LEMMA WorkerShape ==
    ASSUME DAOTypeOK, NEW w \in Workers
    PROVE  /\ worker[w].at = "insert" => worker[w] \in InsertStep
           /\ worker[w].at = "autovote" => worker[w] \in AutoVoteStep
           /\ worker[w].at = "upsert" => worker[w] \in UpsertStep
BY DEF DAOTypeOK, Idle, InsertStep, AutoVoteStep, UpsertStep

LEMMA DAOTypeStep == DAOTypeOK /\ [Next]_vars => DAOTypeOK'
<1> SUFFICES ASSUME DAOTypeOK, [Next]_vars PROVE DAOTypeOK'
    OBVIOUS
<1> USE DAOBounds DEF DAOTypeOK, proposalVars
<1>1. ASSUME NEW w \in Workers, Begin(w) PROVE DAOTypeOK'
  <2>1. ASSUME NEW p \in Proposals, NEW u \in Users, NEW d \in 0..MaxTime,
               NEW n \in Quorums, BeginCreate(w, p, u, d, n)
        PROVE  DAOTypeOK'
    <3>1. EffectiveQuorum(n) \in Int
        BY DEF EffectiveQuorum
    <3> QED BY <2>1, <3>1 DEF BeginCreate, InsertStep
  <2>2. ASSUME NEW p \in Proposals, NEW u \in Users, NEW v \in Inputs,
               BeginVote(w, p, u, v)
        PROVE  DAOTypeOK'
      BY <2>2 DEF BeginVote, UpsertStep, Valid
  <2> QED BY <1>1, <2>1, <2>2 DEF Begin
<1>2. ASSUME NEW w \in Workers, InsertProposal(w) PROVE DAOTypeOK'
    BY <1>2, WorkerShape DEF InsertProposal, InsertStep, AutoVoteStep
<1>3. ASSUME NEW w \in Workers, AutoVote(w) PROVE DAOTypeOK'
  <2>1. worker[w] \in AutoVoteStep
      BY <1>3, WorkerShape DEF AutoVote
  <2>2. votes' \in SUBSET Row
      BY <1>3, <2>1 DEF AutoVote, AutoVoteStep, InsertedYes, VoteRow, Row, Choices
  <2> QED BY <1>3, <2>2 DEF AutoVote
<1>4. ASSUME NEW w \in Workers, UpsertVote(w) PROVE DAOTypeOK'
  <2>1. worker[w] \in UpsertStep
      BY <1>4, WorkerShape DEF UpsertVote
  <2>2. votes' \in SUBSET Row
      BY <1>4, <2>1 DEF UpsertVote, UpsertStep, Upserted, VoteRow, Row
  <2> QED BY <1>4, <2>1, <2>2 DEF UpsertVote, UpsertStep
<1>5. ASSUME NEW w \in Workers, StatementFails(w) PROVE DAOTypeOK'
    BY <1>5 DEF StatementFails
<1>6. CASE AdvanceClock
    BY <1>6 DEF AdvanceClock
<1>7. CASE UNCHANGED vars
    BY <1>7 DEF vars
<1> QED BY <1>1, <1>2, <1>3, <1>4, <1>5, <1>6, <1>7 DEF Next, Continue

\* Every reachable state is well typed: no row of dao_votes holds anything
\* but yes, no or abstain.
THEOREM DAOTypeCorrect == Spec => []DAOTypeOK
<1> QED BY DAOTypeInit, DAOTypeStep, PTL DEF Spec

-------------------------------------------------------------------------------
\* A proposal has a proposer exactly when it exists, only an existing one is
\* voted on, and an insert under way has a proposal of its own.
ProposalInv ==
    /\ \A p \in Proposals : proposer[p] = NoUser <=> status[p] = "absent"
    /\ \A w \in Workers :
          /\ worker[w].at = "insert" =>
                /\ status[worker[w].proposal] = "absent"
                /\ \A x \in Workers \ {w} :
                      worker[x].at = "insert" => worker[x].proposal # worker[w].proposal
          /\ worker[w].at = "autovote" =>
                proposer[worker[w].proposal] = worker[w].user
          /\ worker[w].at = "upsert" => status[worker[w].proposal] # "absent"

DAOInv == DAOTypeOK /\ ProposalInv /\ OneVotePerUser /\ LastCastCounts

LEMMA DAOInvInit == Init => DAOInv
BY DAOTypeInit DEF Init, DAOInv, ProposalInv, OneVotePerUser, LastCastCounts, Idle

LEMMA ProposalInvStep == DAOTypeOK /\ ProposalInv /\ [Next]_vars => ProposalInv'
<1> SUFFICES ASSUME DAOTypeOK, ProposalInv, [Next]_vars PROVE ProposalInv'
    OBVIOUS
<1> USE DAOUsers DEF ProposalInv, proposalVars
<1>1. ASSUME NEW w \in Workers, Begin(w) PROVE ProposalInv'
  <2>1. ASSUME NEW p \in Proposals, NEW u \in Users, NEW d \in 0..MaxTime,
               NEW n \in Quorums, BeginCreate(w, p, u, d, n)
        PROVE  ProposalInv'
      BY <2>1, WorkerShape DEF BeginCreate, Fresh, DAOTypeOK
  <2>2. ASSUME NEW p \in Proposals, NEW u \in Users, NEW v \in Inputs,
               BeginVote(w, p, u, v)
        PROVE  ProposalInv'
      BY <2>2 DEF BeginVote, DAOTypeOK
  <2> QED BY <1>1, <2>1, <2>2 DEF Begin
<1>2. ASSUME NEW w \in Workers, InsertProposal(w) PROVE ProposalInv'
  <2> DEFINE p == worker[w].proposal
             u == worker[w].user
  <2>1. p \in Proposals /\ u \in Users
      BY <1>2, WorkerShape DEF InsertProposal, InsertStep
  <2>2. /\ status' = [status EXCEPT ![p] = "active"]
        /\ proposer' = [proposer EXCEPT ![p] = u]
        /\ worker' = [worker EXCEPT ![w] = [at |-> "autovote", proposal |-> p, user |-> u]]
      BY <1>2 DEF InsertProposal
  <2>3. ASSUME NEW x \in Workers, x # w, worker[x].at = "insert"
        PROVE  worker[x].proposal \in Proposals /\ worker[x].proposal # p
      BY <1>2, <2>3, WorkerShape DEF InsertProposal, InsertStep
  <2>4. ASSUME NEW x \in Workers, worker[x].at = "autovote"
        PROVE  worker[x].proposal \in Proposals /\ worker[x].user \in Users
      BY <2>4, WorkerShape DEF AutoVoteStep
  <2>5. ASSUME NEW x \in Workers, worker[x].at = "upsert"
        PROVE  worker[x].proposal \in Proposals
      BY <2>5, WorkerShape DEF UpsertStep
  <2>6. status[p] = "absent" /\ proposer[p] = NoUser
      BY <1>2, <2>1 DEF InsertProposal
  <2>7. \A x \in Proposals : proposer'[x] = NoUser <=> status'[x] = "absent"
      BY <2>1, <2>2 DEF DAOTypeOK
  <2>8. ASSUME NEW x \in Workers
        PROVE  /\ worker'[x].at = "insert" =>
                     /\ status'[worker'[x].proposal] = "absent"
                     /\ \A y \in Workers \ {x} :
                           worker'[y].at = "insert" => worker'[y].proposal # worker'[x].proposal
               /\ worker'[x].at = "autovote" =>
                     proposer'[worker'[x].proposal] = worker'[x].user
               /\ worker'[x].at = "upsert" => status'[worker'[x].proposal] # "absent"
    <3>1. CASE x = w
        BY <2>1, <2>2, <3>1 DEF DAOTypeOK
    <3>2. CASE x # w
      <4>1. worker'[x] = worker[x]
          BY <2>2, <3>2 DEF DAOTypeOK
      <4>2. \A y \in Workers : worker'[y].at = "insert" => y # w /\ worker'[y] = worker[y]
          BY <2>2 DEF DAOTypeOK
      <4> HIDE DEF p, u
      <4> QED BY <2>1, <2>2, <2>3, <2>4, <2>5, <2>6, <3>2, <4>1, <4>2 DEF DAOTypeOK
    <3> QED BY <3>1, <3>2
  <2> QED BY <2>7, <2>8
<1>3. ASSUME NEW w \in Workers, AutoVote(w) PROVE ProposalInv'
    BY <1>3 DEF AutoVote, Idle, DAOTypeOK
<1>4. ASSUME NEW w \in Workers, UpsertVote(w) PROVE ProposalInv'
    BY <1>4 DEF UpsertVote, Idle, DAOTypeOK
<1>5. ASSUME NEW w \in Workers, StatementFails(w) PROVE ProposalInv'
    BY <1>5 DEF StatementFails, Idle, DAOTypeOK
<1>6. CASE AdvanceClock
    BY <1>6 DEF AdvanceClock
<1>7. CASE UNCHANGED vars
    BY <1>7 DEF vars
<1> QED BY <1>1, <1>2, <1>3, <1>4, <1>5, <1>6, <1>7 DEF Next, Continue

\* Only the two vote statements touch the rows and what users last cast.
LEMMA OthersKeepVotes ==
    ASSUME [Next]_vars,
           ~ \E w \in Workers : AutoVote(w) \/ UpsertVote(w)
    PROVE  UNCHANGED <<votes, lastCast>>
BY DEF Next, Begin, Continue, BeginCreate, BeginVote, InsertProposal, StatementFails,
       AdvanceClock, vars

\* The two upserts of dao_votes: each leaves one row for its user.
LEMMA VoteInvStep ==
    DAOInv /\ [Next]_vars => OneVotePerUser' /\ LastCastCounts'
<1> SUFFICES ASSUME DAOInv, [Next]_vars PROVE OneVotePerUser' /\ LastCastCounts'
    OBVIOUS
<1> USE DEF DAOInv, OneVotePerUser, LastCastCounts, RowsOf, VoteRow
<1>1. ASSUME NEW w \in Workers, AutoVote(w) PROVE OneVotePerUser' /\ LastCastCounts'
  <2>1. worker[w] \in AutoVoteStep
      BY <1>1, WorkerShape DEF AutoVote
  <2>2. CASE RowsOf(worker[w].proposal, worker[w].user) # {}
      BY <1>1, <2>2 DEF AutoVote, InsertedYes
  <2>3. CASE RowsOf(worker[w].proposal, worker[w].user) = {}
    <3> DEFINE p == worker[w].proposal
               u == worker[w].user
    <3>1. votes' = votes \cup {VoteRow(p, u, "yes")} /\ lastCast' = lastCast
        BY <1>1, <2>3 DEF AutoVote, InsertedYes
    <3>2. OneVotePerUser'
      <4>1. \A r \in votes : ~(r.proposal = p /\ r.user = u)
          BY <2>3
      <4>2. VoteRow(p, u, "yes").proposal = p /\ VoteRow(p, u, "yes").user = u
          OBVIOUS
      <4>3. \A r \in votes' : r \in votes \/ r = VoteRow(p, u, "yes")
          BY <3>1
      <4>4. \A r, s \in votes : r.proposal = s.proposal /\ r.user = s.user => r = s
          OBVIOUS
      <4> HIDE DEF VoteRow, p, u
      <4> QED BY <4>1, <4>2, <4>3, <4>4
    <3>3. p \in Proposals /\ u \in Users /\ lastCast[p][u] = "none"
      <4>1. p \in Proposals /\ u \in Users
          BY <2>1 DEF AutoVoteStep
      <4>2. \A r : RowsOf(p, u) # {r}
          BY <2>3
      <4> HIDE DEF RowsOf, VoteRow, p, u
      <4> QED BY <4>1, <4>2
    <3>4. ASSUME NEW x \in Proposals, NEW y \in Users, lastCast'[x][y] # "none"
          PROVE  RowsOf(x, y)' = {VoteRow(x, y, lastCast'[x][y])}
      <4>1. x # p \/ y # u
          BY <3>1, <3>3, <3>4
      <4>2. RowsOf(x, y)' = RowsOf(x, y)
          BY <3>1, <4>1
      <4> QED BY <3>1, <3>4, <4>2
    <3> QED BY <3>2, <3>4
  <2> QED BY <2>2, <2>3
<1>2. ASSUME NEW w \in Workers, UpsertVote(w) PROVE OneVotePerUser' /\ LastCastCounts'
  <2> DEFINE p == worker[w].proposal
             u == worker[w].user
             v == worker[w].vote
  <2>1. p \in Proposals /\ u \in Users /\ v \in Choices
      BY <1>2, WorkerShape DEF UpsertVote, UpsertStep
  <2>2. votes' = (votes \ RowsOf(p, u)) \cup {VoteRow(p, u, v)}
      BY <1>2 DEF UpsertVote, Upserted
  <2>3. lastCast' = [lastCast EXCEPT ![p][u] = v]
      BY <1>2 DEF UpsertVote
  <2>4. OneVotePerUser'
      BY <2>2
  <2>5. ASSUME NEW x \in Proposals, NEW y \in Users, lastCast'[x][y] # "none"
        PROVE  RowsOf(x, y)' = {VoteRow(x, y, lastCast'[x][y])}
    <3>1. CASE x = p /\ y = u
      <4>1. lastCast'[x][y] = v
          BY <2>1, <2>3, <3>1 DEF DAOTypeOK
      <4> QED BY <2>2, <3>1, <4>1
    <3>2. CASE x # p \/ y # u
      <4>1. lastCast'[x][y] = lastCast[x][y]
          BY <2>1, <2>3, <3>2 DEF DAOTypeOK
      <4>2. RowsOf(x, y)' = RowsOf(x, y)
          BY <2>2, <3>2
      <4> QED BY <2>5, <4>1, <4>2
    <3> QED BY <3>1, <3>2
  <2> QED BY <2>4, <2>5
<1>3. CASE ~ \E w \in Workers : AutoVote(w) \/ UpsertVote(w)
    BY <1>3, OthersKeepVotes
<1> QED BY <1>1, <1>2, <1>3

LEMMA DAOInvStep == DAOInv /\ [Next]_vars => DAOInv'
BY DAOTypeStep, ProposalInvStep, VoteInvStep DEF DAOInv

THEOREM DAOInvariance == Spec => []DAOInv
<1> QED BY DAOInvInit, DAOInvStep, PTL DEF Spec

\* GetResults never counts a user twice, for any number of workers.
THEOREM OneVote == Spec => []OneVotePerUser
<1>1. DAOInv => OneVotePerUser
    BY DEF DAOInv
<1> QED BY <1>1, DAOInvariance, PTL

\* The automatic vote never wins over the proposer's own.
THEOREM LastCast == Spec => []LastCastCounts
<1>1. DAOInv => LastCastCounts
    BY DEF DAOInv
<1> QED BY <1>1, DAOInvariance, PTL

-------------------------------------------------------------------------------
(***************************************************************************)
(* Quorums.                                                                *)
(***************************************************************************)

\* What the counts of GetResults need: finitely many rows, and a quorum of at
\* least one for every proposal that exists or is about to.
CountInv ==
    /\ IsFiniteSet(votes)
    /\ \A p \in Proposals : status[p] # "absent" => quorum[p] >= 1
    /\ \A w \in Workers : worker[w].at = "insert" => worker[w].quorum >= 1

RowsFor(p) == {r \in votes : r.proposal = p}

LEMMA CountInit == Init => CountInv
BY FS_EmptySet DEF Init, CountInv, Idle

\* An upsert keeps the rows finite.
LEMMA UpsertFinite ==
    ASSUME IsFiniteSet(votes), NEW p, NEW u, NEW v
    PROVE  IsFiniteSet(Upserted(p, u, v)) /\ IsFiniteSet(InsertedYes(p, u))
<1>1. IsFiniteSet(votes \ RowsOf(p, u))
    BY FS_Subset
<1>2. IsFiniteSet(Upserted(p, u, v))
    BY <1>1, FS_AddElement DEF Upserted
<1>3. IsFiniteSet(votes \cup {VoteRow(p, u, "yes")})
    BY FS_AddElement
<1> QED BY <1>2, <1>3 DEF InsertedYes

LEMMA CountStep == DAOTypeOK /\ CountInv /\ [Next]_vars => CountInv'
<1> SUFFICES ASSUME DAOTypeOK, CountInv, [Next]_vars PROVE CountInv'
    OBVIOUS
<1> USE DAOBounds DEF CountInv, DAOTypeOK, proposalVars
<1>1. ASSUME NEW w \in Workers, Begin(w) PROVE CountInv'
  <2>1. ASSUME NEW p \in Proposals, NEW u \in Users, NEW d \in 0..MaxTime,
               NEW n \in Quorums, BeginCreate(w, p, u, d, n)
        PROVE  CountInv'
    <3>1. EffectiveQuorum(n) >= 1
        BY DEF EffectiveQuorum
    <3> QED BY <2>1, <3>1 DEF BeginCreate
  <2>2. ASSUME NEW p \in Proposals, NEW u \in Users, NEW v \in Inputs,
               BeginVote(w, p, u, v)
        PROVE  CountInv'
      BY <2>2 DEF BeginVote
  <2> QED BY <1>1, <2>1, <2>2 DEF Begin
<1>2. ASSUME NEW w \in Workers, InsertProposal(w) PROVE CountInv'
    BY <1>2, WorkerShape DEF InsertProposal, InsertStep
<1>3. ASSUME NEW w \in Workers, AutoVote(w) PROVE CountInv'
    BY <1>3, UpsertFinite DEF AutoVote, Idle
<1>4. ASSUME NEW w \in Workers, UpsertVote(w) PROVE CountInv'
    BY <1>4, UpsertFinite DEF UpsertVote, Idle
<1>5. ASSUME NEW w \in Workers, StatementFails(w) PROVE CountInv'
    BY <1>5 DEF StatementFails, Idle
<1>6. CASE AdvanceClock
    BY <1>6 DEF AdvanceClock
<1>7. CASE UNCHANGED vars
    BY <1>7 DEF vars
<1> QED BY <1>1, <1>2, <1>3, <1>4, <1>5, <1>6, <1>7 DEF Next, Continue

LEMMA CountInvariance == Spec => [](DAOInv /\ CountInv)
<1>1. Init => DAOInv /\ CountInv
    BY DAOInvInit, CountInit
<1>2. (DAOInv /\ CountInv) /\ [Next]_vars => (DAOInv /\ CountInv)'
    BY DAOInvStep, CountStep DEF DAOInv
<1> QED BY <1>1, <1>2, PTL DEF Spec

\* A proposal nobody voted on never shows its quorum as met, for any quorums
\* clients send: CreateProposal stores none below one.
THEOREM EmptyBallot == Spec => []EmptyBallotMeetsNoQuorum
<1>1. ASSUME DAOInv, CountInv PROVE EmptyBallotMeetsNoQuorum
  <2> SUFFICES ASSUME NEW p \in Proposals, status[p] # "absent", QuorumMet(p)
               PROVE  TotalVotes(p) > 0
      BY DEF EmptyBallotMeetsNoQuorum
  <2>1. IsFiniteSet(RowsFor(p))
      BY <1>1, FS_Subset DEF CountInv, RowsFor
  <2>2. TotalVotes(p) \in Nat
      BY <2>1, FS_CardinalityType DEF TotalVotes, RowsFor
  <2>3. quorum[p] \in Int /\ quorum[p] >= 1
      BY <1>1 DEF CountInv, DAOInv, DAOTypeOK
  <2> QED BY <2>2, <2>3 DEF QuorumMet
<1> QED BY <1>1, CountInvariance, PTL

\* Adding a row to a proposal's rows, or replacing a user's one, takes none
\* away.
LEMMA UpsertKeepsCount ==
    ASSUME DAOInv, CountInv, NEW p \in Proposals, NEW q, NEW u, NEW v,
           votes' = Upserted(q, u, v)
    PROVE  Cardinality(RowsFor(p)') >= Cardinality(RowsFor(p))
<1>1. IsFiniteSet(RowsFor(p)) /\ IsFiniteSet(votes')
    BY UpsertFinite, FS_Subset DEF CountInv, RowsFor
<1>2. IsFiniteSet(RowsFor(p)')
    BY <1>1, FS_Subset DEF RowsFor
<1>3. Cardinality(RowsFor(p)) \in Nat /\ Cardinality(RowsFor(p)') \in Nat
    BY <1>1, <1>2, FS_CardinalityType
<1>4. CASE p # q
  <2>1. RowsFor(p)' = RowsFor(p)
      BY <1>4 DEF RowsFor, Upserted, RowsOf, VoteRow
  <2> QED BY <1>3, <2>1
<1>5. CASE p = q /\ RowsOf(q, u) = {}
  <2>1. RowsFor(p) \in SUBSET RowsFor(p)'
      BY <1>5 DEF RowsFor, Upserted
  <2> QED BY <1>2, <1>3, <2>1, FS_Subset
<1>6. CASE p = q /\ RowsOf(q, u) # {}
  <2>1. PICK r \in RowsOf(q, u) : TRUE
      BY <1>6
  <2>2. RowsOf(q, u) = {r}
      BY <2>1 DEF RowsOf, DAOInv, OneVotePerUser
  <2>3. r \in RowsFor(p) /\ r.proposal = p /\ r.user = u /\ r \in votes
      BY <1>6, <2>1 DEF RowsFor, RowsOf
  <2> DEFINE new == VoteRow(p, u, v)
  <2>4. new.proposal = p /\ new.user = u
      BY DEF VoteRow
  <2>5. RowsFor(p)' = (RowsFor(p) \ {r}) \cup {new}
    <3>1. votes' = (votes \ {r}) \cup {new}
        BY <1>6, <2>2 DEF Upserted
    <3>2. \A x : x \in RowsFor(p)' <=> x \in votes' /\ x.proposal = p
        BY DEF RowsFor
    <3>3. \A x : x \in RowsFor(p) <=> x \in votes /\ x.proposal = p
        BY DEF RowsFor
    <3> HIDE DEF new
    <3> QED BY <2>4, <3>1, <3>2, <3>3
  <2>6. new \notin RowsFor(p) \ {r}
    <3>1. \A x \in RowsFor(p) : x \in votes /\ x.proposal = p
        BY DEF RowsFor
    <3>2. new \in votes => new = r
      <4>1. new \in votes => new \in RowsOf(q, u)
          BY <1>6, <2>4 DEF RowsOf
      <4> QED BY <2>2, <4>1
    <3> HIDE DEF new
    <3> QED BY <3>1, <3>2
  <2>7. IsFiniteSet(RowsFor(p) \ {r})
        /\ Cardinality(RowsFor(p) \ {r}) = Cardinality(RowsFor(p)) - 1
      BY <1>1, <2>3, FS_RemoveElement
  <2>8. Cardinality((RowsFor(p) \ {r}) \cup {new}) = Cardinality(RowsFor(p) \ {r}) + 1
      BY <2>6, <2>7, FS_AddElement
  <2> HIDE DEF new
  <2> QED BY <1>3, <2>5, <2>7, <2>8
<1> QED BY <1>4, <1>5, <1>6

\* A statement never takes votes from a proposal.
LEMMA CountsGrow ==
    ASSUME DAOInv, CountInv, [Next]_vars, NEW p \in Proposals
    PROVE  /\ Cardinality(RowsFor(p)') >= Cardinality(RowsFor(p))
           /\ Cardinality(RowsFor(p)) \in Nat /\ Cardinality(RowsFor(p)') \in Nat
<1>0. Cardinality(RowsFor(p)) \in Nat /\ Cardinality(RowsFor(p)') \in Nat
  <2>1. IsFiniteSet(votes) /\ IsFiniteSet(votes')
      BY CountStep DEF CountInv, DAOInv
  <2>2. IsFiniteSet(RowsFor(p)) /\ IsFiniteSet(RowsFor(p)')
      BY <2>1, FS_Subset DEF RowsFor
  <2> QED BY <2>2, FS_CardinalityType
<1>1. ASSUME votes' = votes PROVE Cardinality(RowsFor(p)') >= Cardinality(RowsFor(p))
  <2>1. RowsFor(p)' = RowsFor(p)
      BY <1>1 DEF RowsFor
  <2> QED BY <1>0, <2>1
<1>2. ASSUME NEW w \in Workers, AutoVote(w)
      PROVE  Cardinality(RowsFor(p)') >= Cardinality(RowsFor(p))
  <2> DEFINE q == worker[w].proposal
             u == worker[w].user
  <2>1. CASE RowsOf(q, u) # {}
      BY <1>1, <1>2, <2>1 DEF AutoVote, InsertedYes
  <2>2. CASE RowsOf(q, u) = {}
    <3>1. votes' = Upserted(q, u, "yes")
        BY <1>2, <2>2 DEF AutoVote, InsertedYes, Upserted
    <3> QED BY <3>1, UpsertKeepsCount
  <2> QED BY <2>1, <2>2
<1>3. ASSUME NEW w \in Workers, UpsertVote(w)
      PROVE  Cardinality(RowsFor(p)') >= Cardinality(RowsFor(p))
  <2>1. votes' = Upserted(worker[w].proposal, worker[w].user, worker[w].vote)
      BY <1>3 DEF UpsertVote
  <2> QED BY <2>1, UpsertKeepsCount
<1> QED BY <1>0, <1>1, <1>2, <1>3, OthersKeepVotes

\* A proposal that exists keeps its quorum.
LEMMA QuorumFixed ==
    ASSUME DAOInv, [Next]_vars, NEW p \in Proposals, status[p] # "absent"
    PROVE  quorum'[p] = quorum[p]
<1>1. ASSUME NEW w \in Workers, InsertProposal(w) PROVE quorum'[p] = quorum[p]
  <2>1. worker[w].proposal # p
      BY <1>1 DEF InsertProposal, DAOInv, ProposalInv
  <2> QED BY <1>1, <2>1 DEF InsertProposal, DAOInv, DAOTypeOK
<1>2. ASSUME ~ \E w \in Workers : InsertProposal(w) PROVE quorum' = quorum
    BY <1>2 DEF Next, Begin, Continue, BeginCreate, BeginVote, AutoVote, UpsertVote,
                StatementFails, AdvanceClock, vars, proposalVars
<1> QED BY <1>1, <1>2

\* A quorum once met stays met, whatever votes are changed or raced: an upsert
\* replaces at most the one row of its user.
THEOREM QuorumKept == Spec => QuorumNeverLost
<1>1. ASSUME DAOInv, CountInv, [Next]_vars,
             NEW p \in Proposals, status[p] # "absent", QuorumMet(p)
      PROVE  QuorumMet(p)'
  <2>1. quorum'[p] = quorum[p] /\ quorum[p] \in Int
      BY <1>1, QuorumFixed DEF DAOInv, DAOTypeOK
  <2>2. TotalVotes(p) = Cardinality(RowsFor(p)) /\ TotalVotes(p)' = Cardinality(RowsFor(p)')
      BY DEF TotalVotes, RowsFor
  <2>3. TotalVotes(p)' >= TotalVotes(p) /\ TotalVotes(p) \in Nat /\ TotalVotes(p)' \in Nat
      BY <1>1, <2>2, CountsGrow
  <2> QED BY <1>1, <2>1, <2>3 DEF QuorumMet
<1>2. DAOInv /\ CountInv /\ [Next]_vars =>
        [\A p \in Proposals :
            status[p] # "absent" /\ QuorumMet(p) => QuorumMet(p)']_vars
    BY <1>1
<1> QED BY <1>2, CountInvariance, PTL DEF Spec, QuorumNeverLost

-------------------------------------------------------------------------------
(***************************************************************************)
(* DAO implements Ballot.                                                  *)
(***************************************************************************)

\* The vote in a single row.
LEMMA VoteInOne == \A r : VoteIn({r}) = r.vote
BY DEF VoteIn

\* An upsert that leaves one row for its user is one choice on the ballot.
LEMMA UpsertIsChoice ==
    ASSUME NEW p \in Proposals, NEW u \in Users, NEW v,
           votes' = (votes \ RowsOf(p, u)) \cup {VoteRow(p, u, v)}
    PROVE  ChoiceMap' = [ChoiceMap EXCEPT ![p][u] = v]
<1>1. RowsOf(p, u)' = {VoteRow(p, u, v)}
  <2>1. VoteRow(p, u, v).proposal = p /\ VoteRow(p, u, v).user = u
      BY DEF VoteRow
  <2>2. RowsOf(p, u)' = {r \in votes' : r.proposal = p /\ r.user = u}
      BY DEF RowsOf
  <2>3. \A r \in votes \ RowsOf(p, u) : ~(r.proposal = p /\ r.user = u)
      BY DEF RowsOf
  <2>4. \A r : r \in RowsOf(p, u)' <=> r \in votes' /\ r.proposal = p /\ r.user = u
      BY <2>2
  <2>5. \A r : r \in votes' <=> r \in votes \ RowsOf(p, u) \/ r = VoteRow(p, u, v)
      OBVIOUS
  <2>6. \A r : r \in RowsOf(p, u)' <=> r = VoteRow(p, u, v)
      BY <2>1, <2>3, <2>4, <2>5
  <2> QED BY <2>6
<1>2. VoteIn(RowsOf(p, u)') = v
  <2>1. VoteRow(p, u, v).vote = v
      BY DEF VoteRow
  <2>2. VoteIn({VoteRow(p, u, v)}) = VoteRow(p, u, v).vote
      BY VoteInOne
  <2> QED BY <1>1, <2>1, <2>2
<1>3. ASSUME NEW x \in Proposals, NEW y \in Users, x # p \/ y # u
      PROVE  RowsOf(x, y)' = RowsOf(x, y)
    BY <1>3 DEF RowsOf, VoteRow
<1>4. ChoiceMap' = [x \in Proposals |-> [y \in Users |-> VoteIn(RowsOf(x, y)')]]
    BY DEF ChoiceMap, VoteIn
<1>5. ASSUME NEW x \in Proposals, NEW y \in Users
      PROVE  VoteIn(RowsOf(x, y)') =
                IF x = p /\ y = u THEN v ELSE VoteIn(RowsOf(x, y))
    BY <1>2, <1>3
<1> QED BY <1>4, <1>5 DEF ChoiceMap

LEMMA BallotInit == Init => Abstract!Init
BY DEF Init, Abstract!Init, ChoiceMap, VoteIn, RowsOf

\* Each statement is one step of the ballot, or none of its business.
LEMMA BallotStep ==
    DAOInv /\ [Next]_vars => [Abstract!Next]_<<proposer, ChoiceMap>>
<1> SUFFICES ASSUME DAOInv, [Next]_vars
             PROVE  [Abstract!Next]_<<proposer, ChoiceMap>>
    OBVIOUS
<1>0. votes' = votes => ChoiceMap' = ChoiceMap
    BY DEF ChoiceMap, VoteIn, RowsOf
<1>1. ASSUME NEW w \in Workers, InsertProposal(w) PROVE Abstract!Next
  <2> DEFINE p == worker[w].proposal
             u == worker[w].user
  <2>1. p \in Proposals /\ u \in Users
      BY <1>1, WorkerShape DEF InsertProposal, InsertStep, DAOInv
  <2>2. proposer[p] = NoUser
      BY <1>1, <2>1 DEF InsertProposal, DAOInv, ProposalInv
  <2>3. Abstract!Publish(p, u)
      BY <1>0, <1>1, <2>2 DEF Abstract!Publish, InsertProposal
  <2> QED BY <2>1, <2>3 DEF Abstract!Next
<1>2. ASSUME NEW w \in Workers, AutoVote(w)
      PROVE  Abstract!Next \/ UNCHANGED <<proposer, ChoiceMap>>
  <2> DEFINE p == worker[w].proposal
             u == worker[w].user
  <2>1. p \in Proposals /\ u \in Users
      BY <1>2, WorkerShape DEF AutoVote, AutoVoteStep, DAOInv
  <2>2. proposer' = proposer
      BY <1>2 DEF AutoVote, proposalVars
  <2>3. CASE RowsOf(p, u) # {}
      BY <1>0, <1>2, <2>2, <2>3 DEF AutoVote, InsertedYes
  <2>4. CASE RowsOf(p, u) = {}
    <3>1. votes' = (votes \ RowsOf(p, u)) \cup {VoteRow(p, u, "yes")}
        BY <1>2, <2>4 DEF AutoVote, InsertedYes
    <3>2. ChoiceMap' = [ChoiceMap EXCEPT ![p][u] = "yes"]
        BY <2>1, <3>1, UpsertIsChoice
    <3>3. ChoiceMap[p][u] = "none"
        BY <2>1, <2>4 DEF ChoiceMap, VoteIn
    <3>4. proposer[p] = u
        BY <1>2 DEF AutoVote, DAOInv, ProposalInv
    <3>5. Abstract!DefaultYes(p, u)
        BY <2>2, <3>2, <3>3, <3>4 DEF Abstract!DefaultYes
    <3> QED BY <2>1, <3>5 DEF Abstract!Next
  <2> QED BY <2>3, <2>4
<1>3. ASSUME NEW w \in Workers, UpsertVote(w) PROVE Abstract!Next
  <2> DEFINE p == worker[w].proposal
             u == worker[w].user
             v == worker[w].vote
  <2>1. p \in Proposals /\ u \in Users /\ v \in Choices
      BY <1>3, WorkerShape DEF UpsertVote, UpsertStep, DAOInv
  <2>2. votes' = (votes \ RowsOf(p, u)) \cup {VoteRow(p, u, v)}
      BY <1>3 DEF UpsertVote, Upserted
  <2>3. ChoiceMap' = [ChoiceMap EXCEPT ![p][u] = v]
      BY <2>1, <2>2, UpsertIsChoice
  <2>4. proposer[p] # NoUser /\ proposer' = proposer
      BY <1>3, <2>1 DEF UpsertVote, DAOInv, ProposalInv, proposalVars
  <2>5. Abstract!Cast(p, u, v)
      BY <2>3, <2>4 DEF Abstract!Cast
  <2> QED BY <2>1, <2>5 DEF Abstract!Next, Abstract!Choices, Choices
<1>4. CASE ~ \E w \in Workers : InsertProposal(w) \/ AutoVote(w) \/ UpsertVote(w)
  <2>1. votes' = votes
      BY <1>4, OthersKeepVotes
  <2>2. proposer' = proposer
      BY <1>4 DEF Next, Begin, Continue, BeginCreate, BeginVote, StatementFails,
                  AdvanceClock, vars, proposalVars
  <2> QED BY <1>0, <2>1, <2>2
<1> QED BY <1>1, <1>2, <1>3, <1>4

\* The DAO service, with its two-statement operations and lost automatic
\* votes, behaves as the abstract ballot.
THEOREM BallotImplemented == Spec => ImplementsBallot
<1> QED BY BallotInit, BallotStep, DAOInvariance, PTL DEF Spec, ImplementsBallot, Abstract!Spec

-------------------------------------------------------------------------------
(***************************************************************************)
(* The deadline, which is checked in one statement while the vote is       *)
(* written in another.                                                     *)
(***************************************************************************)

\* What a step does to the ballot of a proposal whose time is over.
Closing(p) ==
    /\ InFlight(p)' \subseteq InFlight(p)
    /\ Ballots(p)' # Ballots(p) => InFlight(p)' # InFlight(p)

\* A worker that is through with its write, or gives it up, is in flight no more,
\* and the others are where they were.
LEMMA WriterLands ==
    ASSUME DAOTypeOK, NEW w \in Workers, NEW p \in Proposals, worker' = [worker EXCEPT ![w] = Idle]
    PROVE  InFlight(p)' = InFlight(p) \ {w}
BY DEF DAOTypeOK, InFlight, Idle

\* A vote is a row of its own proposal.
LEMMA OtherBallots ==
    ASSUME DAOTypeOK, NEW p \in Proposals, NEW q \in Proposals, q # p, NEW u \in Users,
           NEW v \in Choices, votes' \in {votes, Upserted(q, u, v), InsertedYes(q, u)}
    PROVE  Ballots(p)' = Ballots(p)
BY DEF Ballots, Upserted, InsertedYes, RowsOf, VoteRow

LEMMA StepCloses ==
    ASSUME DAOInv, [Next]_vars, NEW p \in Proposals, status[p] # "absent", now > deadline[p]
    PROVE  Closing(p)
<1> USE DEF DAOInv
<1>1. ASSUME UNCHANGED votes, InFlight(p)' \subseteq InFlight(p) PROVE Closing(p)
    BY <1>1 DEF Closing, Ballots
<1>2. ASSUME NEW w \in Workers, Begin(w) PROVE Closing(p)
  <2>1. ASSUME NEW q \in Proposals, NEW u \in Users, NEW d \in 0..MaxTime, NEW n \in Quorums,
               BeginCreate(w, q, u, d, n)
        PROVE  Closing(p)
      BY <1>1, <2>1 DEF BeginCreate, InFlight, DAOTypeOK
  <2>2. ASSUME NEW q \in Proposals, NEW u \in Users, NEW v \in Inputs, BeginVote(w, q, u, v)
        PROVE  Closing(p)
    <3>1. q # p
        BY <2>2 DEF BeginVote
    <3> QED BY <1>1, <2>2, <3>1 DEF BeginVote, InFlight, DAOTypeOK
  <2> QED BY <1>2, <2>1, <2>2 DEF Begin
<1>3. ASSUME NEW w \in Workers, InsertProposal(w) PROVE Closing(p)
  <2>1. worker[w].proposal # p
      BY <1>3 DEF InsertProposal, ProposalInv
  <2> QED BY <1>1, <1>3, <2>1 DEF InsertProposal, InFlight, DAOTypeOK
<1>4. ASSUME NEW w \in Workers, AutoVote(w) \/ UpsertVote(w) PROVE Closing(p)
  <2>1. InFlight(p)' = InFlight(p) \ {w}
      BY <1>4, WriterLands DEF AutoVote, UpsertVote
  <2>2. CASE worker[w].proposal = p
    <3>1. w \in InFlight(p)
        BY <1>4, <2>2 DEF AutoVote, UpsertVote, InFlight
    <3> QED BY <2>1, <3>1 DEF Closing
  <2>3. CASE worker[w].proposal # p
    <3>1. CASE AutoVote(w)
      <4>1. worker[w].proposal \in Proposals /\ worker[w].user \in Users
          BY <3>1, WorkerShape DEF AutoVote, AutoVoteStep
      <4>2. votes' = InsertedYes(worker[w].proposal, worker[w].user)
          BY <3>1 DEF AutoVote
      <4>3. Ballots(p)' = Ballots(p)
          BY <2>3, <4>1, <4>2, OtherBallots DEF Choices
      <4> QED BY <2>1, <4>3 DEF Closing
    <3>2. CASE UpsertVote(w)
      <4>1. /\ worker[w].proposal \in Proposals /\ worker[w].user \in Users
            /\ worker[w].vote \in Choices
          BY <3>2, WorkerShape DEF UpsertVote, UpsertStep
      <4>2. votes' = Upserted(worker[w].proposal, worker[w].user, worker[w].vote)
          BY <3>2 DEF UpsertVote
      <4>3. Ballots(p)' = Ballots(p)
          BY <2>3, <4>1, <4>2, OtherBallots
      <4> QED BY <2>1, <4>3 DEF Closing
    <3> QED BY <1>4, <3>1, <3>2
  <2> QED BY <2>2, <2>3
<1>5. ASSUME NEW w \in Workers, StatementFails(w) PROVE Closing(p)
  <2>1. InFlight(p)' = InFlight(p) \ {w}
      BY <1>5, WriterLands DEF StatementFails
  <2> QED BY <1>1, <1>5, <2>1 DEF StatementFails
<1>6. CASE AdvanceClock \/ UNCHANGED vars
    BY <1>1, <1>6 DEF AdvanceClock, vars, InFlight
<1> QED BY <1>2, <1>3, <1>4, <1>5, <1>6 DEF Next, Continue

\* For any number of voters, workers and proposals: after its deadline a ballot
\* changes no oftener than requests were in flight at it (dao.go:130-149).
THEOREM DeadlineDrains == Spec => BallotCloses
<1>1. DAOInv /\ [Next]_vars =>
        [\A p \in Proposals :
            status[p] # "absent" /\ now > deadline[p] =>
                /\ InFlight(p)' \subseteq InFlight(p)
                /\ Ballots(p)' # Ballots(p) => InFlight(p)' # InFlight(p)]_vars
    BY StepCloses DEF Closing
<1> QED BY <1>1, DAOInvariance, PTL DEF Spec, BallotCloses
===============================================================================
