------------------------------ MODULE ProposalPage ------------------------------
(***************************************************************************)
(* The page of a proposal (app/dao/proposals/[id]/page.tsx) with its vote  *)
(* buttons (components/VoteButton.tsx).  The page shows one mock proposal  *)
(* and fixed results; its handleVote waits for a timer and logs the vote.  *)
(***************************************************************************)
CONSTANTS
    Votes,     \* yes, no, abstain
    NoVote

ASSUME VotesAssumption == NoVote \notin Votes

VARIABLES
    selected,   \* the button highlighted
    voting,     \* loading, of the buttons
    casting,    \* votes whose handleVote is under way
    lastCast    \* history: the vote whose handleVote ended last

proposalVars == <<selected, voting, casting, lastCast>>

ProposalPageInit ==
    /\ selected = NoVote
    /\ voting = FALSE
    /\ casting = {}
    /\ lastCast = NoVote

\* The page is unmounted, or entered: its state starts over.
ProposalPageLeft ==
    /\ selected' = NoVote
    /\ voting' = FALSE
    /\ casting' = {}
    /\ lastCast' = NoVote

\* Mutant of HandleVote: only the selected button is disabled by a vote under
\* way.
HandleVoteOther(v) ==
    /\ ~(voting /\ selected = v)
    /\ voting' = TRUE
    /\ selected' = v
    /\ casting' = casting \cup {v}
    /\ UNCHANGED lastCast

\* handleVote of the buttons and of the page, up to the wait; all three
\* buttons are disabled meanwhile and none of them afterwards.
HandleVote(v) ==
    /\ ~voting
    /\ voting' = TRUE
    /\ selected' = v
    /\ casting' = casting \cup {v}
    /\ UNCHANGED lastCast

\* The rest of both.
VoteLands(v) ==
    /\ v \in casting
    /\ casting' = casting \ {v}
    /\ lastCast' = v
    /\ voting' = FALSE
    /\ UNCHANGED selected

VoteTimer == \E v \in Votes : VoteLands(v)

ProposalPageStep ==
    \/ \E v \in Votes : HandleVote(v)
    \/ VoteTimer

-------------------------------------------------------------------------------
(***************************************************************************)
(* Properties.                                                             *)
(***************************************************************************)

\* When the buttons are enabled, the one highlighted is the vote cast last, and
\* no older vote is still on its way: the highlight is set before the wait and
\* never corrected after it (VoteButton.tsx:17-25).
HighlightedIsCast == ~voting => selected = lastCast /\ casting = {}

\* The three buttons are one OneCall (VoteButton.tsx:42): a vote starts when
\* the one before has ended, and it ends unless the page is left.
Voting == INSTANCE OneCall WITH
    Payloads <- Votes, None <- NoVote, outcome <- lastCast,
    call <- IF casting = {} THEN NoVote ELSE CHOOSE v \in casting : TRUE

VoteIsOneCall == Voting!FairCallSpec
===============================================================================
