------------------------------ MODULE DedupProofs ------------------------------
(***************************************************************************)
(* Safety of the deduplication, for any reports, texts and number of       *)
(* requests, and in whatever order and however late Qdrant makes points    *)
(* searchable.                                                             *)
(*                                                                         *)
(* What a search was made among stays searchable, since points are never   *)
(* deleted; and who is about to upsert found nothing alike among what it   *)
(* saw.  So a point that joins one it is like was not seen by it, and,     *)
(* being new, did not see it.                                              *)
(***************************************************************************)
EXTENDS Dedup, TLAPS

SeenStays == \A r \in Reports : saw[r] \subseteq searchable

NothingAlikeSeen ==
    \A r \in Reports : at[r] = "upsert" => \A s \in saw[r] : ~Alike(r, s)

IInv ==
    /\ DedupTypeOK
    /\ SeenStays
    /\ NothingAlikeSeen
    /\ TwinsWereHidden
    /\ AnswerStands

\* Without a word from Qdrant, what a report is like stays as it is.
LEMMA SameSearchable ==
    ASSUME UNCHANGED searchable, NEW r
    PROVE  HighSimilarity(r)' = HighSimilarity(r)
  BY DEF HighSimilarity, Alike

\* An upsert, acknowledged or not (similarity.jl:57-71).
LEMMA UpsertSafe ==
    ASSUME IInv, NEW r \in Reports, Upsert(r) \/ UpsertFails(r)
    PROVE  IInv'
  <1> USE DEF DedupTypeOK, Answers
  <1>1. /\ at[r] = "upsert"
        /\ points' \in {points, points \cup {r}}
        /\ \/ at' = [at EXCEPT ![r] = "stored"] /\ r \in points'
           \/ at' = [at EXCEPT ![r] = "notStored"]
        /\ UNCHANGED <<searchable, asked, saw>>
    BY DEF Upsert, UpsertFails
  <1>2. DedupTypeOK /\ SeenStays /\ NothingAlikeSeen /\ TwinsWereHidden /\ AnswerStands
    BY DEF IInv
  <1>3. DedupTypeOK'
    BY <1>1, <1>2
  <1>4. SeenStays' /\ NothingAlikeSeen'
    BY <1>1, <1>2 DEF SeenStays, NothingAlikeSeen, Alike
  <1>5. TwinsWereHidden'
    <2> SUFFICES ASSUME NEW a \in points', NEW b \in points', a # b, Alike(a, b)
                 PROVE  a \notin saw[b] /\ b \notin saw[a]
      BY <1>1 DEF TwinsWereHidden, Alike
    <2>1. CASE a \in points /\ b \in points
      BY <1>2, <2>1 DEF TwinsWereHidden
    <2>2. CASE r \notin points /\ a = r
      BY <1>1, <1>2, <2>2 DEF SeenStays, NothingAlikeSeen
    <2>3. CASE r \notin points /\ b = r
      BY <1>1, <1>2, <2>3 DEF SeenStays, NothingAlikeSeen, Alike
    <2> QED
      BY <1>1, <2>1, <2>2, <2>3
  <1>6. AnswerStands'
    <2> SUFFICES ASSUME NEW s \in Reports, Text[s] \notin Wordless
                 PROVE  /\ at'[s] = "stored" => s \in HighSimilarity(s)' \cup (points \ searchable)'
                        /\ at'[s] = "duplicate" => HighSimilarity(s)' # {}
      BY DEF AnswerStands
    <2>1. CASE s = r
      BY <1>1, <1>2, <2>1 DEF HighSimilarity, Alike
    <2>2. CASE s # r
      BY <1>1, <1>2, <2>2, SameSearchable DEF AnswerStands
    <2> QED
      BY <2>1, <2>2
  <1> QED
    BY <1>3, <1>4, <1>5, <1>6 DEF IInv

\* A search (similarity.jl:41-55).
LEMMA SearchSafe ==
    ASSUME IInv, NEW r \in Reports, Search(r)
    PROVE  IInv'
  <1> USE DEF DedupTypeOK, Answers
  <1>1. DedupTypeOK /\ SeenStays /\ NothingAlikeSeen /\ TwinsWereHidden /\ AnswerStands
    BY DEF IInv
  <1>2. /\ at' = [at EXCEPT ![r] = IF HighSimilarity(r) # {} THEN "duplicate" ELSE "upsert"]
        /\ saw' = IF r \in points THEN saw ELSE [saw EXCEPT ![r] = searchable]
        /\ UNCHANGED <<points, searchable, asked>>
    BY DEF Search
  <1>3. DedupTypeOK'
    BY <1>1, <1>2
  <1>4. SeenStays'
    BY <1>1, <1>2 DEF SeenStays
  <1>5. NothingAlikeSeen'
    BY <1>1, <1>2 DEF NothingAlikeSeen, SeenStays, HighSimilarity, Alike
  <1>6. TwinsWereHidden'
    BY <1>1, <1>2 DEF TwinsWereHidden, Alike
  <1>7. AnswerStands'
    BY <1>1, <1>2, SameSearchable DEF AnswerStands
  <1> QED
    BY <1>3, <1>4, <1>5, <1>6, <1>7 DEF IInv

\* Qdrant makes a point searchable (qdrant.jl:52).
LEMMA IndexSafe ==
    ASSUME IInv, NEW r \in Reports, Index(r)
    PROVE  IInv'
  <1> USE DEF DedupTypeOK
  <1>1. DedupTypeOK /\ SeenStays /\ NothingAlikeSeen /\ TwinsWereHidden /\ AnswerStands
    BY DEF IInv
  <1>2. /\ r \in points /\ searchable' = searchable \cup {r}
        /\ UNCHANGED <<points, at, asked, saw>>
    BY DEF Index
  <1>3. DedupTypeOK' /\ SeenStays' /\ NothingAlikeSeen' /\ TwinsWereHidden'
    BY <1>1, <1>2 DEF SeenStays, NothingAlikeSeen, TwinsWereHidden, Alike
  <1>4. AnswerStands'
    <2> SUFFICES ASSUME NEW s \in Reports, Text[s] \notin Wordless
                 PROVE  /\ at'[s] = "stored" => s \in HighSimilarity(s)' \cup (points \ searchable)'
                        /\ at'[s] = "duplicate" => HighSimilarity(s)' # {}
      BY DEF AnswerStands
    <2>1. HighSimilarity(s) \subseteq HighSimilarity(s)'
      BY <1>2 DEF HighSimilarity, Alike
    <2>2. s = r => s \in HighSimilarity(s)'
      BY <1>2 DEF HighSimilarity, Alike
    <2> QED
      BY <1>1, <1>2, <2>1, <2>2 DEF AnswerStands
  <1> QED
    BY <1>3, <1>4 DEF IInv

\* A request that comes, and one whose search fails: nothing is stored.
LEMMA OtherSafe ==
    ASSUME IInv, NEW r \in Reports, Ask(r) \/ SearchFails(r) \/ UNCHANGED vars
    PROVE  IInv'
  <1> USE DEF DedupTypeOK, Answers
  <1>1. DedupTypeOK /\ SeenStays /\ NothingAlikeSeen /\ TwinsWereHidden /\ AnswerStands
    BY DEF IInv
  <1>2. /\ UNCHANGED <<points, searchable, saw>>
        /\ \A s \in Reports : at'[s] \in {at[s], "search", "error"}
    BY <1>1 DEF Ask, SearchFails, vars
  <1>3. DedupTypeOK'
    BY <1>1, AskedAssumption DEF Ask, SearchFails, vars
  <1>4. SeenStays' /\ NothingAlikeSeen' /\ TwinsWereHidden'
    BY <1>1, <1>2 DEF SeenStays, NothingAlikeSeen, TwinsWereHidden, Alike
  <1>5. AnswerStands'
    BY <1>1, <1>2, SameSearchable DEF AnswerStands
  <1> QED
    BY <1>3, <1>4, <1>5 DEF IInv

LEMMA Invariant == Spec => []IInv
  <1>1. Init => IInv
    BY AskedAssumption
    DEF Init, IInv, DedupTypeOK, SeenStays, NothingAlikeSeen, TwinsWereHidden,
        AnswerStands, Answers
  <1>2. ASSUME IInv, [Next]_vars PROVE IInv'
    <2>1. CASE UNCHANGED vars
      <3>1. CASE Reports = {}
        BY <1>2, <2>1, <3>1
        DEF vars, IInv, DedupTypeOK, SeenStays, NothingAlikeSeen, TwinsWereHidden,
            AnswerStands
      <3>2. CASE Reports # {}
        BY <1>2, <2>1, <3>2, OtherSafe
      <3> QED
        BY <3>1, <3>2
    <2>2. CASE Next
      <3>1. PICK r \in Reports : Ask(r) \/ Serve(r) \/ Index(r)
        BY <2>2 DEF Next
      <3> QED
        BY <1>2, <3>1, UpsertSafe, SearchSafe, IndexSafe, OtherSafe DEF Serve
    <2> QED
      BY <1>2, <2>1, <2>2
  <1> QED
    BY <1>1, <1>2, PTL DEF Spec

\* The types of the collection and of the requests (similarity.jl:38-79).
THEOREM TypeCorrect == Spec => []DedupTypeOK
  <1>1. IInv => DedupTypeOK
    BY DEF IInv
  <1> QED
    BY <1>1, Invariant, PTL

\* A report joins one it is like only if Qdrant had not yet made that one
\* searchable when it looked, whatever had been answered (similarity.jl:41-58,
\* qdrant.jl:52).
THEOREM OnlyHiddenTwins == Spec => []TwinsWereHidden
  <1>1. IInv => TwinsWereHidden
    BY DEF IInv
  <1> QED
    BY <1>1, Invariant, PTL

\* Of the promise StoredIsFoundLater, all that is the program's own part: a
\* report with words that was answered as stored is found, or will be when
\* Qdrant indexes it; a duplicate still has its match (similarity.jl:45-78).
THEOREM AnswersStand == Spec => []AnswerStands
  <1>1. IInv => AnswerStands
    BY DEF IInv
  <1> QED
    BY <1>1, Invariant, PTL
===============================================================================
