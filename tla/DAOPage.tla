-------------------------------- MODULE DAOPage --------------------------------
(***************************************************************************)
(* The governance page of the frontend (app/dao/page.tsx): a list of mock  *)
(* proposals that never changes, and a form behind "New Proposal" whose    *)
(* handler waits for a timer and clears the form; nothing is created.      *)
(* What is typed is left out but for which fields have text; the selects   *)
(* always hold a value and nothing reads it.                               *)
(***************************************************************************)
CONSTANTS
    CreateCalls,   \* names for the calls of handleCreate under way
    NoCreate

ASSUME CreateCallsAssumption == NoCreate \notin CreateCalls

VARIABLES
    showCreate,
    written,    \* the fields with text, of "title" and "description"
    creating,
    creations,  \* handleCreate calls under way
    created     \* history: the call that ended last

daoPageVars == <<showCreate, written, creating, creations, created>>

Fields == {"title", "description"}

DAOPageInit ==
    /\ showCreate = FALSE
    /\ written = {}
    /\ creating = FALSE
    /\ creations = {}
    /\ created = NoCreate

\* The page is unmounted, or entered: its state starts over.
DAOPageLeft ==
    /\ showCreate' = FALSE
    /\ written' = {}
    /\ creating' = FALSE
    /\ creations' = {}
    /\ created' = NoCreate

NewProposal ==
    /\ showCreate' = TRUE
    /\ UNCHANGED <<written, creating, creations, created>>

\* "Cancel" hides the form; what is typed and what is under way stay.
CancelCreate ==
    /\ showCreate
    /\ showCreate' = FALSE
    /\ UNCHANGED <<written, creating, creations, created>>

\* The inputs stay enabled while a call is under way.
EditProposal(f) ==
    /\ showCreate
    /\ \/ written' = written \cup {f}
       \/ written' = written \ {f}
    /\ UNCHANGED <<showCreate, creating, creations, created>>

\* Mutant of HandleCreate: the button is not disabled by a call under way.
HandleCreateAgain(k) ==
    /\ showCreate
    /\ written = Fields
    /\ k \notin creations
    /\ creating' = TRUE
    /\ creations' = creations \cup {k}
    /\ UNCHANGED <<showCreate, written, created>>

\* "Submit Proposal": handleCreate up to its wait.
HandleCreate(k) ==
    /\ showCreate
    /\ written = Fields
    /\ ~creating
    /\ k \notin creations
    /\ creating' = TRUE
    /\ creations' = creations \cup {k}
    /\ UNCHANGED <<showCreate, written, created>>

\* The rest of handleCreate, whatever the form holds by now.
CreateLands(k) ==
    /\ k \in creations
    /\ creations' = creations \ {k}
    /\ created' = k
    /\ creating' = FALSE
    /\ showCreate' = FALSE
    /\ written' = {}

DAOTimer == \E k \in CreateCalls : CreateLands(k)

DAOPageStep ==
    \/ NewProposal
    \/ CancelCreate
    \/ \E f \in Fields : EditProposal(f)
    \/ \E k \in CreateCalls : HandleCreate(k)
    \/ DAOTimer

-------------------------------------------------------------------------------
(***************************************************************************)
(* Properties.                                                             *)
(***************************************************************************)

\* "Submit Proposal" is a OneCall: one handleCreate at a time, through Cancel
\* and "New Proposal" again, because the flag belongs to the page and not to
\* the form (dao/page.tsx:61-72, :152), and it ends unless the page is left.
Creation == INSTANCE OneCall WITH
    Payloads <- CreateCalls, None <- NoCreate, outcome <- created,
    call <- IF creations = {} THEN NoCreate ELSE CHOOSE k \in creations : TRUE

CreationIsOneCall == Creation!FairCallSpec
===============================================================================
