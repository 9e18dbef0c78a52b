---------------------------------- MODULE DAO ----------------------------------
(***************************************************************************)
(* The DAO service of "checkin-dao" (services/checkin-dao/services/dao.go) *)
(* over dao_proposals and dao_votes.                                       *)
(*                                                                         *)
(* CreateProposal inserts the proposal and then, in a statement of its     *)
(* own, the proposer's automatic "yes".  CastVote reads the proposal,      *)
(* checks its status and its deadline, and then upserts the vote in        *)
(* another statement.  GetResults counts the rows.  dao_votes is a set of  *)
(* rows: that a user has one row is a property here (the table has         *)
(* UNIQUE(proposal_id, user_id), the statements an ON CONFLICT).           *)
(***************************************************************************)
EXTENDS Integers, FiniteSets

CONSTANTS
    Users,       \* users.id
    NoUser,      \* proposer_id of a proposal that does not exist
    Proposals,   \* dao_proposals.id, fresh UUIDs
    Workers,     \* HTTP workers running CreateProposal or CastVote
    Quorums,     \* values a client may send as vote_quorum
    MaxTime      \* bound: the clock stops here

ASSUME DAOUsers == NoUser \notin Users
ASSUME DAOBounds == MaxTime \in Nat /\ Quorums \subseteq Int

VARIABLES
    now,        \* the clock
    status,     \* dao_proposals.status, "absent" before the INSERT
    proposer,   \* dao_proposals.proposer_id
    deadline,   \* dao_proposals.vote_deadline
    quorum,     \* dao_proposals.vote_quorum
    votes,      \* the rows of dao_votes
    worker,     \* where each HTTP worker stands
    lastCast    \* history: the last vote CastVote recorded for a user

proposalVars == <<status, proposer, deadline, quorum>>
vars == <<now, proposalVars, votes, worker, lastCast>>

Choices == {"yes", "no", "abstain"}
Row == [proposal : Proposals, user : Users, vote : Choices]

Idle == [at |-> "idle"]
InsertStep == [at : {"insert"}, proposal : Proposals, user : Users,
               deadline : 0..MaxTime, quorum : Int]
AutoVoteStep == [at : {"autovote"}, proposal : Proposals, user : Users]
UpsertStep == [at : {"upsert"}, proposal : Proposals, user : Users, vote : Choices]

DAOTypeOK ==
    /\ now \in 0..MaxTime
    /\ status \in [Proposals -> {"absent", "active", "passed", "rejected"}]
    /\ proposer \in [Proposals -> Users \cup {NoUser}]
    /\ deadline \in [Proposals -> 0..MaxTime]
    /\ quorum \in [Proposals -> Int]
    /\ votes \in SUBSET Row
    /\ worker \in [Workers -> {Idle} \cup InsertStep \cup AutoVoteStep \cup UpsertStep]
    /\ lastCast \in [Proposals -> [Users -> Choices \cup {"none"}]]

Init ==
    /\ now = 0
    /\ status = [p \in Proposals |-> "absent"]
    /\ proposer = [p \in Proposals |-> NoUser]
    /\ deadline = [p \in Proposals |-> 0]
    /\ quorum = [p \in Proposals |-> 0]
    /\ votes = {}
    /\ worker = [w \in Workers |-> Idle]
    /\ lastCast = [p \in Proposals |-> [u \in Users |-> "none"]]

(***************************************************************************)
(* dao_votes.                                                              *)
(***************************************************************************)

RowsOf(p, u) == {r \in votes : r.proposal = p /\ r.user = u}

VoteRow(p, u, v) == [proposal |-> p, user |-> u, vote |-> v]

\* Mutant of Upserted: a second vote for the same choice withdraws it.
Toggled(p, u, v) ==
    IF VoteRow(p, u, v) \in votes
    THEN votes \ {VoteRow(p, u, v)}
    ELSE (votes \ RowsOf(p, u)) \cup {VoteRow(p, u, v)}

\* INSERT ... ON CONFLICT (proposal_id, user_id) DO UPDATE.
Upserted(p, u, v) == (votes \ RowsOf(p, u)) \cup {VoteRow(p, u, v)}

\* Mutant of InsertedYes: DO UPDATE for DO NOTHING.
OverwrittenYes(p, u) == (votes \ RowsOf(p, u)) \cup {VoteRow(p, u, "yes")}

\* INSERT ... ON CONFLICT (proposal_id, user_id) DO NOTHING.
InsertedYes(p, u) ==
    IF RowsOf(p, u) = {} THEN votes \cup {VoteRow(p, u, "yes")} ELSE votes

\* GetResults: the weights of all rows are 1.
TotalVotes(p) == Cardinality({r \in votes : r.proposal = p})
QuorumMet(p) == TotalVotes(p) >= quorum[p]

(***************************************************************************)
(* CreateProposal.                                                         *)
(***************************************************************************)

Fresh(p) ==
    /\ status[p] = "absent"
    /\ \A w \in Workers : worker[w] \in InsertStep => worker[w].proposal # p

\* Mutant of EffectiveQuorum: the default only replaces negative numbers.
QuorumAsSent(n) == IF n < 0 THEN 5 ELSE n

EffectiveQuorum(n) == IF n < 1 THEN 5 ELSE n

\* The guards of CreateProposal; its title is left out.
BeginCreate(w, p, u, d, n) ==
    /\ worker[w] = Idle
    /\ Fresh(p)
    /\ ~(d < now)
    /\ worker' = [worker EXCEPT ![w] =
                     [at |-> "insert", proposal |-> p, user |-> u,
                      deadline |-> d, quorum |-> EffectiveQuorum(n)]]
    /\ UNCHANGED <<now, proposalVars, votes, lastCast>>

InsertProposal(w) ==
    /\ worker[w].at = "insert"
    /\ LET p == worker[w].proposal IN
         /\ status' = [status EXCEPT ![p] = "active"]
         /\ proposer' = [proposer EXCEPT ![p] = worker[w].user]
         /\ deadline' = [deadline EXCEPT ![p] = worker[w].deadline]
         /\ quorum' = [quorum EXCEPT ![p] = worker[w].quorum]
         /\ worker' = [worker EXCEPT ![w] =
                          [at |-> "autovote", proposal |-> p, user |-> worker[w].user]]
    /\ UNCHANGED <<now, votes, lastCast>>

AutoVote(w) ==
    /\ worker[w].at = "autovote"
    /\ votes' = InsertedYes(worker[w].proposal, worker[w].user)
    /\ worker' = [worker EXCEPT ![w] = Idle]
    /\ UNCHANGED <<now, proposalVars, lastCast>>

(***************************************************************************)
(* CastVote.                                                               *)
(***************************************************************************)

\* What a client may send as a vote; CastVote takes the Choices only.
Inputs == Choices \cup {"maybe"}

Valid(v) == v \in Choices

\* Mutant of BeginVote: it does not look at the deadline.
BeginVoteAnyTime(w, p, u, v) ==
    /\ worker[w] = Idle
    /\ Valid(v)
    /\ status[p] = "active"
    /\ worker' = [worker EXCEPT ![w] =
                     [at |-> "upsert", proposal |-> p, user |-> u, vote |-> v]]
    /\ UNCHANGED <<now, proposalVars, votes, lastCast>>

\* GetProposal and the checks that follow it.
BeginVote(w, p, u, v) ==
    /\ worker[w] = Idle
    /\ Valid(v)
    /\ status[p] = "active"
    /\ ~(now > deadline[p])
    /\ worker' = [worker EXCEPT ![w] =
                     [at |-> "upsert", proposal |-> p, user |-> u, vote |-> v]]
    /\ UNCHANGED <<now, proposalVars, votes, lastCast>>

UpsertVote(w) ==
    /\ worker[w].at = "upsert"
    /\ LET p == worker[w].proposal
           u == worker[w].user
           v == worker[w].vote
       IN  /\ votes' = Upserted(p, u, v)
           /\ lastCast' = [lastCast EXCEPT ![p][u] = v]
    /\ worker' = [worker EXCEPT ![w] = Idle]
    /\ UNCHANGED <<now, proposalVars>>

\* A statement fails or its process dies.  A failed automatic vote is logged
\* and the proposal is answered as created.
StatementFails(w) ==
    /\ worker[w] # Idle
    /\ worker' = [worker EXCEPT ![w] = Idle]
    /\ UNCHANGED <<now, proposalVars, votes, lastCast>>

AdvanceClock ==
    /\ now < MaxTime
    /\ now' = now + 1
    /\ UNCHANGED <<proposalVars, votes, worker, lastCast>>

-------------------------------------------------------------------------------
Begin(w) ==
    \E p \in Proposals, u \in Users :
        \/ \E d \in 0..MaxTime, n \in Quorums : BeginCreate(w, p, u, d, n)
        \/ \E v \in Inputs : BeginVote(w, p, u, v)

Continue(w) == InsertProposal(w) \/ AutoVote(w) \/ UpsertVote(w)

Next ==
    \/ \E w \in Workers : Begin(w) \/ Continue(w) \/ StatementFails(w)
    \/ AdvanceClock

Spec == Init /\ [][Next]_vars

-------------------------------------------------------------------------------
(***************************************************************************)
(* Properties.                                                             *)
(***************************************************************************)

\* GetResults counts a user once per proposal.
OneVotePerUser ==
    \A r, s \in votes : r.proposal = s.proposal /\ r.user = s.user => r = s

\* The vote that counts is the last one a user cast: the proposer's automatic
\* "yes", which runs after the proposal is visible, never replaces it
\* (dao.go:57-62).
LastCastCounts ==
    \A p \in Proposals, u \in Users :
        lastCast[p][u] # "none" => RowsOf(p, u) = {VoteRow(p, u, lastCast[p][u])}

\* A proposal nobody voted on never shows its quorum as met, whatever quorum
\* its proposer asked for and whether or not the automatic vote failed.
EmptyBallotMeetsNoQuorum ==
    \A p \in Proposals : status[p] # "absent" /\ QuorumMet(p) => TotalVotes(p) > 0

\* A quorum that was met stays met: votes change but do not disappear.
QuorumNeverLost ==
    [][\A p \in Proposals :
          status[p] # "absent" /\ QuorumMet(p) => QuorumMet(p)']_vars

\* The requests that will write a vote on a proposal without looking at it again.
InFlight(p) == {w \in Workers : worker[w].at \in {"upsert", "autovote"} /\ worker[w].proposal = p}
Ballots(p) == {r \in votes : r.proposal = p}

\* Once the deadline of a proposal is over, its votes change only by requests that
\* were let in before, each of them once: the check and the write are two
\* statements, but what is still to come is bounded by who is in flight
\* (dao.go:130-149).
BallotCloses ==
    [][\A p \in Proposals :
          status[p] # "absent" /\ now > deadline[p] =>
              /\ InFlight(p)' \subseteq InFlight(p)
              /\ Ballots(p)' # Ballots(p) => InFlight(p)' # InFlight(p)]_vars

\* The rows, read as choices, behave as the abstract ballot.
VoteIn(rows) == IF rows = {} THEN "none" ELSE (CHOOSE r \in rows : TRUE).vote
ChoiceMap == [p \in Proposals |-> [u \in Users |-> VoteIn(RowsOf(p, u))]]

Abstract == INSTANCE Ballot WITH author <- proposer, choice <- ChoiceMap

\* The service implements Ballot: its two-step operations, run by several
\* workers and failing in between, look like single choices.
ImplementsBallot == Abstract!Spec
===============================================================================
