------------------------------ MODULE VectorStore ------------------------------
(***************************************************************************)
(* The Qdrant client of "checkin-dao" (services/qdrant.go), with the mock  *)
(* it falls back to, and the collection it fills, "bad_client_reports".    *)
(* No code creates that collection: CollectionMade says whether somebody   *)
(* did.  What a point holds beside its report is left out; so is when      *)
(* Qdrant makes a point searchable, since no handler searches.             *)
(***************************************************************************)
EXTENDS Naturals, Sequences

CONSTANTS
    Reports,         \* report ids, fresh UUIDs
    CollectionMade   \* the collection exists in Qdrant

ASSUME CollectionAssumption == CollectionMade \in BOOLEAN

VARIABLES
    points,     \* reports whose point Qdrant has accepted, searchable or not yet
    mock,       \* mockData of the client, oldest first
    mockMode,   \* mockMode of the client
    put         \* where the goroutine of each report stands in StoreEmbedding

vectorVars == <<points, mock, mockMode, put>>

InMock == {mock[i] : i \in DOMAIN mock}

PutStages == {"none", "call", "sent", "mock", "stored", "refused", "lost"}

VectorTypeOK ==
    /\ points \subseteq Reports
    /\ mock \in Seq(Reports)
    /\ mockMode \in BOOLEAN
    /\ put \in [Reports -> PutStages]

VectorInit ==
    /\ points = {}
    /\ mock = <<>>
    /\ mockMode = FALSE
    /\ put = [r \in Reports |-> "none"]

(***************************************************************************)
(* StoreEmbedding.  mockMode is written and read without the lock: a       *)
(* goroutine sees its own write, and may or may not see another's.         *)
(***************************************************************************)
Appended(r) ==
    /\ mock' = Append(mock, r)
    /\ put' = [put EXCEPT ![r] = "stored"]

\* Mock mode was seen before any call.
StoreInMock(r) ==
    /\ put[r] = "call"
    /\ mockMode
    /\ Appended(r)
    /\ UNCHANGED <<points, mockMode>>

SendPut(r) ==
    /\ put[r] = "call"
    /\ put' = [put EXCEPT ![r] = "sent"]
    /\ UNCHANGED <<points, mock, mockMode>>

PutAccepted(r) ==
    /\ put[r] = "sent"
    /\ CollectionMade
    /\ points' = points \cup {r}
    /\ put' = [put EXCEPT ![r] = "stored"]
    /\ UNCHANGED <<mock, mockMode>>

\* A status of 400 or above, as for a collection that is not there.
PutRefused(r) ==
    /\ put[r] = "sent"
    /\ put' = [put EXCEPT ![r] = "refused"]
    /\ UNCHANGED <<points, mock, mockMode>>

\* No connection, or no answer in time: the point may be there all the same.
Unanswered(r) ==
    /\ put[r] = "sent"
    /\ \/ UNCHANGED points
       \/ CollectionMade /\ points' = points \cup {r}

\* Mutants of FallBack: the recursion finds mockMode still false; it returns
\* without a second attempt.
FallBackForgets(r) ==
    /\ Unanswered(r)
    /\ put' = [put EXCEPT ![r] = "call"]
    /\ UNCHANGED <<mock, mockMode>>
FallBackGivesUp(r) ==
    /\ Unanswered(r)
    /\ mockMode' = TRUE
    /\ put' = [put EXCEPT ![r] = "stored"]
    /\ UNCHANGED mock

FallBack(r) ==
    /\ Unanswered(r)
    /\ mockMode' = TRUE
    /\ put' = [put EXCEPT ![r] = "mock"]
    /\ UNCHANGED mock

AppendAfterFallBack(r) ==
    /\ put[r] = "mock"
    /\ Appended(r)
    /\ UNCHANGED <<points, mockMode>>

StoreStep(r) ==
    \/ StoreInMock(r)
    \/ SendPut(r)
    \/ PutAccepted(r)
    \/ PutRefused(r)
    \/ FallBack(r)
    \/ AppendAfterFallBack(r)

\* SearchSimilar asked Qdrant and had no answer: from now on it asks the mock.
\* Of the registry only FindDuplicates calls it, and no handler calls that.
SearchFallsBack ==
    /\ ~mockMode
    /\ mockMode' = TRUE
    /\ UNCHANGED <<points, mock, put>>

\* The process stops; a new one starts with an empty mock.
ClientRestarts ==
    /\ mock' = <<>>
    /\ mockMode' = FALSE
    /\ put' = [r \in Reports |->
                  IF put[r] \in {"call", "sent", "mock"} \/ r \in InMock THEN "lost" ELSE put[r]]
    /\ UNCHANGED points

-------------------------------------------------------------------------------
(***************************************************************************)
(* Properties.                                                             *)
(***************************************************************************)

\* However often the calls of a report fail over, the mock holds it once.
MockHoldsOnce == \A i, j \in DOMAIN mock : mock[i] = mock[j] => i = j

\* Where SearchSimilar looks: after a fallback the mock alone.
Looked == IF mockMode THEN InMock ELSE points

\* A stored report is among what its process looks through, or the fallback
\* hides it: Qdrant has it, and this process asks Qdrant no more.  No stored
\* report is in neither place, also when a lost answer sent it to the other
\* one, and before a fallback none is hidden (qdrant.go:91-94, :107-123).
OnlyFallbackHides ==
    \A r \in Reports :
        put[r] = "stored" => r \in Looked \/ (mockMode /\ r \in points)
===============================================================================
