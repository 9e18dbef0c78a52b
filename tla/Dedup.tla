--------------------------------- MODULE Dedup ---------------------------------
(***************************************************************************)
(* Deduplication of reports by the analytics service                       *)
(* (services/analytics/src/similarity.jl, qdrant.jl) over the collection   *)
(* "reports": a search, and in another request the upsert of a report      *)
(* nothing was like.                                                       *)
(*                                                                         *)
(* The PUT of a point does not ask Qdrant to wait (no ?wait=true): Qdrant   *)
(* answers when it has accepted the point, and makes it searchable later.  *)
(*                                                                         *)
(* An embedding is abstracted to the text it is computed from: two are     *)
(* alike, at 0.85 or above, when their texts are the same and have words;  *)
(* without a word the embedding is zero and scores 0 with everything, with *)
(* itself too.  Cosine similarity is not transitive; nothing here needs    *)
(* that it is.  The limit of a search (10) is above the number of reports. *)
(***************************************************************************)
EXTENDS Naturals

CONSTANTS
    Reports,    \* report_id of the requests
    Texts,      \* report_text, not the empty string
    Wordless,   \* those made of white space alone
    Text,       \* the text a report is sent with
    MaxAsked    \* bound: how often a report is sent

ASSUME TextAssumption == Text \in [Reports -> Texts] /\ Wordless \subseteq Texts
ASSUME AskedAssumption == MaxAsked \in Nat

VARIABLES
    points,      \* reports whose point Qdrant has accepted
    searchable,  \* those a search is made among
    at,          \* where the request of a report stands, or what was answered
    asked,       \* how often it was sent
    saw          \* history: what the search before its first upsert was made among

vars == <<points, searchable, at, asked, saw>>

Answers == {"duplicate", "stored", "notStored", "error"}

DedupTypeOK ==
    /\ points \subseteq Reports
    /\ searchable \subseteq points
    /\ at \in [Reports -> {"idle", "search", "upsert"} \cup Answers]
    /\ asked \in [Reports -> 0..MaxAsked]
    /\ saw \in [Reports -> SUBSET Reports]

Init ==
    /\ points = {}
    /\ searchable = {}
    /\ at = [r \in Reports |-> "idle"]
    /\ asked = [r \in Reports |-> 0]
    /\ saw = [r \in Reports |-> {}]

Alike(r, s) == Text[r] = Text[s] /\ Text[r] \notin Wordless

\* A client sends a report, or sends it again.
Ask(r) ==
    /\ at[r] \in {"idle"} \cup Answers
    /\ asked[r] < MaxAsked
    /\ at' = [at EXCEPT ![r] = "search"]
    /\ asked' = [asked EXCEPT ![r] = @ + 1]
    /\ UNCHANGED <<points, searchable, saw>>

\* Mutant of HighSimilarity: only the report itself is taken for a match.
OwnPoint(r) == searchable \cap {r}

HighSimilarity(r) == {s \in searchable : Alike(r, s)}

Search(r) ==
    /\ at[r] = "search"
    /\ at' = [at EXCEPT ![r] = IF HighSimilarity(r) # {} THEN "duplicate" ELSE "upsert"]
    /\ saw' = IF r \in points THEN saw ELSE [saw EXCEPT ![r] = searchable]
    /\ UNCHANGED <<points, searchable, asked>>

\* Its exception is answered with 500, as when the collection was never made.
SearchFails(r) ==
    /\ at[r] = "search"
    /\ at' = [at EXCEPT ![r] = "error"]
    /\ UNCHANGED <<points, searchable, asked, saw>>

Upsert(r) ==
    /\ at[r] = "upsert"
    /\ points' = points \cup {r}
    /\ at' = [at EXCEPT ![r] = "stored"]
    /\ UNCHANGED <<searchable, asked, saw>>

\* Mutant of UpsertFails: what was not acknowledged is answered as stored.
UpsertIgnored(r) ==
    /\ at[r] = "upsert"
    /\ points' \in {points, points \cup {r}}
    /\ at' = [at EXCEPT ![r] = "stored"]
    /\ UNCHANGED <<searchable, asked, saw>>

\* "stored" => false is answered, whatever Qdrant did, or will do, with the point.
UpsertFails(r) ==
    /\ at[r] = "upsert"
    /\ points' \in {points, points \cup {r}}
    /\ at' = [at EXCEPT ![r] = "notStored"]
    /\ UNCHANGED <<searchable, asked, saw>>

Serve(r) == Search(r) \/ SearchFails(r) \/ Upsert(r) \/ UpsertFails(r)

\* Qdrant applies an accepted point, in an order of its own.
Index(r) ==
    /\ r \in points \ searchable
    /\ searchable' = searchable \cup {r}
    /\ UNCHANGED <<points, at, asked, saw>>

Next == \E r \in Reports : Ask(r) \/ Serve(r) \/ Index(r)

\* Qdrant gets to what it has accepted; nobody owes a request or its answer.
Fairness == \A r \in Reports : WF_vars(Index(r))

Spec == Init /\ [][Next]_vars
FairSpec == Spec /\ Fairness

-------------------------------------------------------------------------------
(***************************************************************************)
(* Properties.                                                             *)
(***************************************************************************)

\* Two alike reports both have points only if neither was searchable when the
\* other was looked for.  Their requests need not have overlapped: the one
\* sent second is stored too when its search comes before Qdrant has indexed
\* the first, answered as it is (similarity.jl:41-58, qdrant.jl:52).
TwinsWereHidden ==
    \A r, s \in points : r # s /\ Alike(r, s) => r \notin saw[s] /\ s \notin saw[r]

\* A report with words that is answered as stored is found in the end, itself
\* or one like it: from then on the next report like it is flagged.  That it
\* is found at once cannot be said (similarity.jl:57-78, qdrant.jl:52-55).
StoredIsFoundLater ==
    \A r \in Reports :
        Text[r] \notin Wordless => (at[r] = "stored" ~> HighSimilarity(r) # {})

\* The part of it that needs no fairness: nothing but Qdrant's indexing stands
\* between a report that was answered and its being found, however many
\* requests came, failed or overlapped since.
AnswerStands ==
    \A r \in Reports : Text[r] \notin Wordless =>
        /\ at[r] = "stored" => r \in HighSimilarity(r) \cup (points \ searchable)
        /\ at[r] = "duplicate" => HighSimilarity(r) # {}
===============================================================================
