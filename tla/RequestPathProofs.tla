--------------------------- MODULE RequestPathProofs ---------------------------
(***************************************************************************)
(* Proofs about Auth, RateLimiter and RequestPath, for any wallets, ids,   *)
(* phones, workers, clients, burst, token life and clock.                  *)
(*                                                                         *)
(* The limiter and the two authentication handlers come first, each with   *)
(* an invariant its own steps keep.  Every step of RequestPath is a step   *)
(* of each or leaves it alone, so both hold on the whole path.             *)
(***************************************************************************)
EXTENDS RequestPath, TLAPS

(***************************************************************************)
(* The limiter.  In a window that began at s a client spent at most what   *)
(* it had then and what it regained since; BucketLine says so by the       *)
(* tokens that are left.                                                   *)
(***************************************************************************)
BucketLine ==
    \A c \in Clients, s \in 0..MaxTime :
        s <= now => bucket[c] + total[c] - before[c][s] <= Burst + (now - s)

LimiterInv == LimiterTypeOK /\ BucketLine

LEMMA LimiterInitially == LimiterInit => LimiterInv
  <1> SUFFICES ASSUME LimiterInit PROVE LimiterInv
    OBVIOUS
  <1>1. LimiterTypeOK
    BY ClockAssumption, BurstAssumption DEF LimiterInit, LimiterTypeOK
  <1>2. BucketLine
    BY ClockAssumption, BurstAssumption DEF LimiterInit, BucketLine
  <1> QED
    BY <1>1, <1>2 DEF LimiterInv

\* A request let through moves a token from the bucket to the total; a tick
\* adds one token at most, and starts a window in which nothing has passed.
LEMMA LimiterStep == LimiterInv /\ [LimiterNext]_limiterVars => LimiterInv'
  <1> SUFFICES ASSUME LimiterInv, [LimiterNext]_limiterVars PROVE LimiterInv'
    OBVIOUS
  <1> USE ClockAssumption, BurstAssumption DEF LimiterInv, LimiterTypeOK
  <1>1. ASSUME NEW c \in Clients, LetThrough(c), UNCHANGED now PROVE LimiterInv'
    <2>1. LimiterTypeOK'
      <3>1. bucket[c] \in 0..Burst /\ bucket[c] - 1 \in 0..Burst
        BY <1>1 DEF LetThrough
      <3>2. bucket' \in [Clients -> 0..Burst]
        BY <1>1, <3>1 DEF LetThrough
      <3>3. total' \in [Clients -> Nat]
        BY <1>1 DEF LetThrough
      <3>4. now' = now /\ before' = before
        BY <1>1 DEF LetThrough
      <3> QED
        BY <3>2, <3>3, <3>4
    <2>2. \A d \in Clients : bucket'[d] + total'[d] = bucket[d] + total[d]
      BY <1>1 DEF LetThrough
    <2>3. ASSUME NEW d \in Clients, NEW s \in 0..MaxTime, s <= now
          PROVE bucket'[d] + total'[d] - before[d][s] <= Burst + (now - s)
      <3>1. bucket[d] + total[d] - before[d][s] <= Burst + (now - s)
        BY <2>3 DEF BucketLine
      <3>2. /\ {bucket[d], total[d], before[d][s], bucket'[d], total'[d]} \subseteq Int
            /\ bucket'[d] + total'[d] = bucket[d] + total[d]
        BY <2>1, <2>2
      <3> HIDE DEF LimiterInv, LimiterTypeOK
      <3> QED
        BY <3>1, <3>2
    <2>4. BucketLine'
      BY <2>3, <1>1 DEF BucketLine, LetThrough
    <2> QED
      BY <2>1, <2>4
  <1>2. ASSUME NEW c \in Clients, Refuse(c), UNCHANGED now PROVE LimiterInv'
    BY <1>2 DEF Refuse, BucketLine
  <1>3. CASE Refill
    <2>1. LimiterTypeOK'
      BY <1>3 DEF Refill, Refilled
    <2>2. ASSUME NEW d \in Clients, NEW s \in 0..MaxTime, s <= now'
          PROVE bucket'[d] + total'[d] - before'[d][s] <= Burst + (now' - s)
      <3>1. CASE s = now + 1
        <4>1. before'[d][s] = total[d] /\ total'[d] = total[d]
          BY <1>3, <3>1 DEF Refill
        <4>2. bucket'[d] \in 0..Burst
          BY <2>1
        <4> QED
          BY <4>1, <4>2, <3>1, <1>3 DEF Refill
      <3>2. CASE s # now + 1
        <4>1. s <= now /\ now' = now + 1
          BY <2>2, <3>2, <1>3 DEF Refill
        <4>2. bucket[d] + total[d] - before[d][s] <= Burst + (now - s)
          BY <4>1 DEF BucketLine
        <4>3. bucket'[d] <= bucket[d] + 1 /\ bucket'[d] \in 0..Burst
          BY <2>1, <1>3 DEF Refill, Refilled
        <4>4. total'[d] = total[d] /\ before'[d][s] = before[d][s]
          BY <1>3, <3>2 DEF Refill
        <4>5. {bucket[d], total[d], before[d][s], now} \subseteq Int
          BY <4>1
        <4> QED
          BY <4>1, <4>2, <4>3, <4>4, <4>5
      <3> QED
        BY <3>1, <3>2
    <2> QED
      BY <2>1, <2>2 DEF BucketLine
  <1>4. CASE UNCHANGED limiterVars
    BY <1>4 DEF limiterVars, BucketLine
  <1> QED
    BY <1>1, <1>2, <1>3, <1>4 DEF LimiterNext

LEMMA LineBoundsWindows == LimiterInv => WindowBound
  <1> SUFFICES ASSUME LimiterInv, NEW c \in Clients, NEW s \in 0..MaxTime, s <= now
               PROVE total[c] - before[c][s] <= Burst + (now - s)
    BY DEF WindowBound
  <1>1. bucket[c] + total[c] - before[c][s] <= Burst + (now - s)
    BY DEF LimiterInv, BucketLine
  <1> QED
    BY <1>1, BurstAssumption, ClockAssumption DEF LimiterInv, LimiterTypeOK

-------------------------------------------------------------------------------
(***************************************************************************)
(* Registration and login.  A row about to be upserted has an id nobody    *)
(* else has, so the insert keeps ids apart, and the ON CONFLICT clause     *)
(* keeps wallets apart.  A row is never deleted and its id and role are    *)
(* never changed, so what a worker read, or signed, stays true.            *)
(***************************************************************************)
\* What ON CONFLICT (wallet_address) and fresh ids keep of the table.
OneRowPerWallet ==
    \A r, s \in users : r.wallet = s.wallet \/ r.id = s.id => r = s

PendingFresh ==
    \A w \in AuthWorkers :
        auth[w].at = "upsert" =>
            /\ \A r \in users : r.id # auth[w].row.id
            /\ \A v \in AuthWorkers \ {w} :
                  auth[v].at = "upsert" => auth[v].row.id # auth[w].row.id

SignsARow ==
    \A w \in AuthWorkers :
        auth[w].at = "sign" =>
            \E r \in users :
                r.wallet = auth[w].wallet /\ r.id = auth[w].sub /\ r.role = auth[w].role

AuthInv == AuthTypeOK /\ OneRowPerWallet /\ PendingFresh /\ SignsARow /\ TokenNamesItsRow

\* The label of a worker tells the shape of its record.
LEMMA AuthShape ==
    ASSUME AuthTypeOK, NEW w \in AuthWorkers
    PROVE  /\ auth[w].at \in {"idle", "upsert", "fetch", "sign"}
           /\ auth[w].at = "idle" => auth[w] = Idle
           /\ auth[w].at = "upsert" => auth[w] \in UpsertStep
           /\ auth[w].at = "fetch" => auth[w] \in FetchStep
           /\ auth[w].at = "sign" => auth[w] \in SignStep
  BY DEF AuthTypeOK, Idle, UpsertStep, FetchStep, SignStep

LEMMA WithPhoneKeeps ==
    ASSUME NEW r \in UserRow, NEW p \in Phones
    PROVE  /\ WithPhone(r, p) \in UserRow
           /\ WithPhone(r, p).id = r.id
           /\ WithPhone(r, p).wallet = r.wallet
           /\ WithPhone(r, p).role = r.role
  BY DEF WithPhone, UserRow

\* The upsert, row by row: what was there stays, and what is there was there
\* or is the new row of a wallet that had none.
LEMMA UpsertRows ==
    ASSUME users \subseteq UserRow, NEW new \in UserRow
    PROVE  /\ Upsert(new) \subseteq UserRow
           /\ \A r \in users :
                 \E s \in Upsert(new) : s.wallet = r.wallet /\ s.id = r.id /\ s.role = r.role
           /\ \A s \in Upsert(new) :
                 \/ s = new /\ \A r \in users : r.wallet # new.wallet
                 \/ \E r \in users :
                       /\ s.wallet = r.wallet /\ s.id = r.id /\ s.role = r.role
                       /\ s = IF r.wallet = new.wallet THEN WithPhone(r, new.phone) ELSE r
  <1>1. new.phone \in Phones
    BY DEF UserRow
  <1>2. CASE RowOf(new.wallet) = {}
    BY <1>2 DEF Upsert, RowOf
  <1>3. CASE RowOf(new.wallet) # {}
    <2>1. Upsert(new) = (users \ RowOf(new.wallet))
                            \cup {WithPhone(r, new.phone) : r \in RowOf(new.wallet)}
      BY <1>3 DEF Upsert
    <2>2. ASSUME NEW r \in users
          PROVE  \E s \in Upsert(new) : s.wallet = r.wallet /\ s.id = r.id /\ s.role = r.role
      <3>1. CASE r \in RowOf(new.wallet)
        BY <1>1, <2>1, <3>1, WithPhoneKeeps
      <3>2. CASE r \notin RowOf(new.wallet)
        BY <2>1, <3>2
      <3> QED
        BY <3>1, <3>2
    <2>3. ASSUME NEW s \in Upsert(new)
          PROVE  /\ s \in UserRow
                 /\ \E r \in users :
                       /\ s.wallet = r.wallet /\ s.id = r.id /\ s.role = r.role
                       /\ s = IF r.wallet = new.wallet THEN WithPhone(r, new.phone) ELSE r
      <3>1. CASE s \in users \ RowOf(new.wallet)
        BY <3>1 DEF RowOf
      <3>2. CASE s \notin users \ RowOf(new.wallet)
        <4>1. PICK r \in RowOf(new.wallet) : s = WithPhone(r, new.phone)
          BY <2>1, <3>2
        <4>2. r \in users /\ r \in UserRow /\ r.wallet = new.wallet
          BY DEF RowOf
        <4> QED
          BY <1>1, <4>1, <4>2, WithPhoneKeeps
      <3> QED
        BY <3>1, <3>2
    <2> QED
      BY <2>2, <2>3
  <1> QED
    BY <1>2, <1>3

\* No step of Auth takes a row away or changes its wallet, id or role.
RowsKept ==
    \A r \in users : \E s \in users' : s.wallet = r.wallet /\ s.id = r.id /\ s.role = r.role

LEMMA AuthKeepsRows == AuthTypeOK /\ [AuthNext]_authVars => RowsKept
  <1> SUFFICES ASSUME AuthTypeOK, [AuthNext]_authVars PROVE RowsKept
    OBVIOUS
  <1>1. ASSUME users' = users PROVE RowsKept
    BY <1>1 DEF RowsKept
  <1>2. ASSUME NEW w \in AuthWorkers, UpsertUser(w) PROVE RowsKept
    <2>1. auth[w].row \in UserRow
      BY <1>2, AuthShape DEF UpsertUser, UpsertStep
    <2> QED
      BY <1>2, <2>1, UpsertRows DEF UpsertUser, AuthTypeOK, RowsKept
  <1>3. ASSUME NEW w \in AuthWorkers, ~UpsertUser(w), AuthStep(w) PROVE users' = users
    BY <1>3 DEF AuthStep, FetchUser, SignToken, AuthFails
  <1>4. ASSUME NEW w \in AuthWorkers, NEW a \in Wallets,
               BeginLogin(w, a) \/ \E i \in UserIds, p \in Phones : BeginRegister(w, a, i, p)
        PROVE users' = users
    BY <1>4 DEF BeginLogin, BeginRegister
  <1> QED
    BY <1>1, <1>2, <1>3, <1>4 DEF AuthNext, authVars

LEMMA AuthTypeStep == AuthTypeOK /\ [AuthNext]_authVars => AuthTypeOK'
  <1> SUFFICES ASSUME AuthTypeOK, [AuthNext]_authVars PROVE AuthTypeOK'
    OBVIOUS
  <1> USE ClockAssumption, TokenLifeAssumption DEF AuthTypeOK
  <1>1. ASSUME NEW w \in AuthWorkers, NEW a \in Wallets, NEW i \in UserIds, NEW p \in Phones,
               BeginRegister(w, a, i, p)
        PROVE AuthTypeOK'
    BY <1>1 DEF BeginRegister, UpsertStep, UserRow, Roles
  <1>2. ASSUME NEW w \in AuthWorkers, NEW a \in Wallets, BeginLogin(w, a) PROVE AuthTypeOK'
    BY <1>2 DEF BeginLogin, FetchStep
  <1>3. ASSUME NEW w \in AuthWorkers, UpsertUser(w) PROVE AuthTypeOK'
    <2>1. auth[w].row \in UserRow
      BY <1>3, AuthShape DEF UpsertUser, UpsertStep
    <2>2. Upsert(auth[w].row) \subseteq UserRow
      BY <2>1, UpsertRows
    <2>3. auth[w].row.wallet \in Wallets
      BY <2>1 DEF UserRow
    <2> QED
      BY <1>3, <2>2, <2>3 DEF UpsertUser, FetchStep
  <1>4. ASSUME NEW w \in AuthWorkers, FetchUser(w) PROVE AuthTypeOK'
    <2>1. PICK r \in RowOf(auth[w].wallet) :
             auth' = [auth EXCEPT ![w] =
                         [at |-> "sign", wallet |-> r.wallet, sub |-> r.id, role |-> r.role]]
      BY <1>4 DEF FetchUser
    <2>2. r \in UserRow
      BY DEF RowOf
    <2> QED
      BY <1>4, <2>1, <2>2 DEF FetchUser, SignStep, UserRow
  <1>5. ASSUME NEW w \in AuthWorkers, AuthFails(w) PROVE AuthTypeOK'
    BY <1>5 DEF AuthFails
  <1>6. ASSUME NEW w \in AuthWorkers, SignToken(w) PROVE AuthTypeOK'
    <2>1. auth[w] \in SignStep
      BY <1>6, AuthShape DEF SignToken
    <2>2. [wallet |-> auth[w].wallet, sub |-> auth[w].sub,
           role |-> auth[w].role, exp |-> now + TokenLife] \in Token
      BY <2>1 DEF SignStep, Token
    <2> QED
      BY <1>6, <2>2 DEF SignToken
  <1>7. CASE now < MaxTime /\ now' = now + 1 /\ UNCHANGED <<users, auth, issued>>
    BY <1>7
  <1>8. CASE UNCHANGED authVars
    BY <1>8 DEF authVars
  <1> QED
    BY <1>1, <1>2, <1>3, <1>4, <1>5, <1>6, <1>7, <1>8 DEF AuthNext, AuthStep

LEMMA AuthInitially == AuthInit => AuthInv
  <1> SUFFICES ASSUME AuthInit PROVE AuthInv
    OBVIOUS
  <1>1. AuthTypeOK
    BY SeededAssumption, ClockAssumption DEF AuthInit, AuthTypeOK
  <1>2. OneRowPerWallet
    BY SeededAssumption DEF AuthInit, OneRowPerWallet
  <1>3. PendingFresh /\ SignsARow /\ TokenNamesItsRow
    BY DEF AuthInit, PendingFresh, SignsARow, TokenNamesItsRow, Idle
  <1> QED
    BY <1>1, <1>2, <1>3 DEF AuthInv

\* The insert takes a fresh id, or changes no id and no wallet.
LEMMA UpsertKeepsOne ==
    ASSUME AuthInv, NEW w \in AuthWorkers, UpsertUser(w)
    PROVE  OneRowPerWallet' /\ PendingFresh'
  <1> DEFINE new == auth[w].row
  <1>1. /\ users \subseteq UserRow
        /\ new \in UserRow
        /\ auth[w].at = "upsert"
        /\ users' = Upsert(new)
    BY AuthShape DEF AuthInv, AuthTypeOK, UpsertUser, UpsertStep
  <1>2. \A r \in users : r.id # new.id
    BY <1>1 DEF AuthInv, PendingFresh
  <1>3. \A s \in users' :
           \/ s = new /\ \A r \in users : r.wallet # new.wallet
           \/ \E r \in users :
                 /\ s.wallet = r.wallet /\ s.id = r.id
                 /\ s = IF r.wallet = new.wallet THEN WithPhone(r, new.phone) ELSE r
    BY <1>1, UpsertRows
  <1> HIDE DEF new
  <1>4. OneRowPerWallet'
    <2> SUFFICES ASSUME NEW s \in users', NEW t \in users', s.wallet = t.wallet \/ s.id = t.id
                 PROVE s = t
      BY DEF OneRowPerWallet
    <2>1. CASE s = new /\ \A r \in users : r.wallet # new.wallet
      BY <1>2, <1>3, <2>1
    <2>2. CASE t = new /\ \A r \in users : r.wallet # new.wallet
      BY <1>2, <1>3, <2>2
    <2>3. CASE /\ ~(s = new /\ \A r \in users : r.wallet # new.wallet)
               /\ ~(t = new /\ \A r \in users : r.wallet # new.wallet)
      <3>1. PICK p \in users :
               /\ s.wallet = p.wallet /\ s.id = p.id
               /\ s = IF p.wallet = new.wallet THEN WithPhone(p, new.phone) ELSE p
        BY <1>3, <2>3
      <3>2. PICK q \in users :
               /\ t.wallet = q.wallet /\ t.id = q.id
               /\ t = IF q.wallet = new.wallet THEN WithPhone(q, new.phone) ELSE q
        BY <1>3, <2>3
      <3>3. p = q
        BY <3>1, <3>2 DEF AuthInv, OneRowPerWallet
      <3> QED
        BY <3>1, <3>2, <3>3
    <2> QED
      BY <2>1, <2>2, <2>3
  <1>5. PendingFresh'
    <2> SUFFICES ASSUME NEW v \in AuthWorkers, auth'[v].at = "upsert"
                 PROVE  /\ \A s \in users' : s.id # auth'[v].row.id
                        /\ \A u \in AuthWorkers \ {v} :
                              auth'[u].at = "upsert" => auth'[u].row.id # auth'[v].row.id
      BY DEF PendingFresh
    <2>1. auth' = [auth EXCEPT ![w] = [at |-> "fetch", wallet |-> new.wallet]]
      BY DEF UpsertUser, new
    <2>2. v # w /\ auth'[v] = auth[v] /\ auth[v].at = "upsert"
      BY <2>1 DEF AuthInv, AuthTypeOK
    <2>3. \A r \in users : r.id # auth[v].row.id
      BY <2>2 DEF AuthInv, PendingFresh
    <2>4. new.id # auth[v].row.id
      BY <1>1, <2>2 DEF AuthInv, PendingFresh, new
    <2>5. \A s \in users' : s.id # auth'[v].row.id
      BY <1>3, <2>2, <2>3, <2>4
    <2>6. ASSUME NEW u \in AuthWorkers \ {v}, auth'[u].at = "upsert"
          PROVE auth'[u].row.id # auth'[v].row.id
      <3>1. u # w /\ auth'[u] = auth[u]
        BY <2>1, <2>6 DEF AuthInv, AuthTypeOK
      <3> QED
        BY <2>2, <2>6, <3>1 DEF AuthInv, PendingFresh
    <2> QED
      BY <2>5, <2>6
  <1> QED
    BY <1>4, <1>5

LEMMA AuthInvStep == AuthInv /\ [AuthNext]_authVars => AuthInv'
  <1> SUFFICES ASSUME AuthInv, [AuthNext]_authVars PROVE AuthInv'
    OBVIOUS
  <1>1. AuthTypeOK /\ AuthTypeOK' /\ RowsKept
    BY AuthTypeStep, AuthKeepsRows DEF AuthInv
  \* What was signed, or is about to be, is still true of the rows.
  <1>2. ASSUME NEW a, NEW i, NEW o,
               \E r \in users : r.wallet = a /\ r.id = i /\ r.role = o
        PROVE  \E r \in users' : r.wallet = a /\ r.id = i /\ r.role = o
    BY <1>1, <1>2 DEF RowsKept
  <1>3. ASSUME issued' = issued PROVE TokenNamesItsRow'
    BY <1>2, <1>3 DEF AuthInv, TokenNamesItsRow
  <1>4. ASSUME \A w \in AuthWorkers : auth'[w].at = "sign" => auth'[w] = auth[w]
        PROVE  SignsARow'
    BY <1>2, <1>4 DEF AuthInv, SignsARow
  <1>5. ASSUME users' = users,
               \A w \in AuthWorkers : auth'[w].at = "upsert" => auth'[w] = auth[w]
        PROVE  OneRowPerWallet' /\ PendingFresh'
    <2>1. OneRowPerWallet'
      BY <1>5 DEF AuthInv, OneRowPerWallet
    <2>2. PendingFresh'
      BY <1>5 DEF AuthInv, PendingFresh
    <2> QED
      BY <2>1, <2>2
  <1>6. ASSUME NEW w \in AuthWorkers, NEW a \in Wallets, NEW i \in UserIds, NEW p \in Phones,
               BeginRegister(w, a, i, p)
        PROVE  AuthInv'
    <2>1. \A v \in AuthWorkers : v # w => auth'[v] = auth[v]
      BY <1>1, <1>6 DEF BeginRegister, AuthTypeOK
    <2>2. auth'[w].at = "upsert" /\ auth'[w].row.id = i
      BY <1>1, <1>6 DEF BeginRegister, AuthTypeOK
    <2>3. \A v \in AuthWorkers : v # w /\ auth[v].at = "upsert" => auth[v].row.id # i
      BY <1>1, <1>6, AuthShape DEF BeginRegister, FreshId
    <2>4. PendingFresh'
      <3>1. users' = users /\ \A r \in users : r.id # i
        BY <1>6 DEF BeginRegister, FreshId
      <3> QED
        BY <2>1, <2>2, <2>3, <3>1 DEF AuthInv, PendingFresh
    <2>5. OneRowPerWallet'
      BY <1>6 DEF BeginRegister, AuthInv, OneRowPerWallet
    <2>6. SignsARow'
      BY <1>4, <2>1, <2>2
    <2>7. TokenNamesItsRow'
      BY <1>3, <1>6 DEF BeginRegister
    <2> QED
      BY <1>1, <2>4, <2>5, <2>6, <2>7 DEF AuthInv
  <1>7. ASSUME NEW w \in AuthWorkers, NEW a \in Wallets, BeginLogin(w, a) PROVE AuthInv'
    <2>1. \A v \in AuthWorkers : auth'[v].at \in {"upsert", "sign"} => auth'[v] = auth[v]
      BY <1>1, <1>7 DEF BeginLogin, AuthTypeOK
    <2>2. users' = users /\ issued' = issued
      BY <1>7 DEF BeginLogin
    <2> QED
      BY <1>1, <1>3, <1>4, <1>5, <2>1, <2>2 DEF AuthInv
  <1>8. ASSUME NEW w \in AuthWorkers, UpsertUser(w) PROVE AuthInv'
    <2>1. \A v \in AuthWorkers : auth'[v].at = "sign" => auth'[v] = auth[v]
      BY <1>1, <1>8 DEF UpsertUser, AuthTypeOK
    <2>2. issued' = issued
      BY <1>8 DEF UpsertUser
    <2> QED
      BY <1>1, <1>3, <1>4, <1>8, <2>1, <2>2, UpsertKeepsOne DEF AuthInv
  <1>9. ASSUME NEW w \in AuthWorkers, FetchUser(w) PROVE AuthInv'
    <2>1. PICK r \in RowOf(auth[w].wallet) :
             auth' = [auth EXCEPT ![w] =
                         [at |-> "sign", wallet |-> r.wallet, sub |-> r.id, role |-> r.role]]
      BY <1>9 DEF FetchUser
    <2>2. users' = users /\ issued' = issued /\ r \in users
      BY <1>9 DEF FetchUser, RowOf
    <2>3. \A v \in AuthWorkers : v # w => auth'[v] = auth[v]
      BY <1>1, <2>1 DEF AuthTypeOK
    <2>4. auth'[w].at = "sign" /\ auth'[w].wallet = r.wallet
             /\ auth'[w].sub = r.id /\ auth'[w].role = r.role
      BY <1>1, <2>1 DEF AuthTypeOK
    <2>5. SignsARow'
      BY <2>2, <2>3, <2>4 DEF AuthInv, SignsARow
    <2>6. \A v \in AuthWorkers : auth'[v].at = "upsert" => auth'[v] = auth[v]
      BY <2>3, <2>4
    <2> QED
      BY <1>1, <1>3, <1>5, <2>2, <2>5, <2>6 DEF AuthInv
  <1>10. ASSUME NEW w \in AuthWorkers, AuthFails(w) PROVE AuthInv'
    <2>1. \A v \in AuthWorkers : auth'[v].at \in {"upsert", "sign"} => auth'[v] = auth[v]
      BY <1>1, <1>10 DEF AuthFails, AuthTypeOK, Idle
    <2>2. users' = users /\ issued' = issued
      BY <1>10 DEF AuthFails
    <2> QED
      BY <1>1, <1>3, <1>4, <1>5, <2>1, <2>2 DEF AuthInv
  <1>11. ASSUME NEW w \in AuthWorkers, SignToken(w) PROVE AuthInv'
    <2>1. \A v \in AuthWorkers : auth'[v].at \in {"upsert", "sign"} => auth'[v] = auth[v]
      BY <1>1, <1>11 DEF SignToken, AuthTypeOK, Idle
    <2>2. users' = users /\ auth[w].at = "sign"
      BY <1>11 DEF SignToken
    <2>3. \E r \in users :
             r.wallet = auth[w].wallet /\ r.id = auth[w].sub /\ r.role = auth[w].role
      BY <2>2 DEF AuthInv, SignsARow
    <2>4. TokenNamesItsRow'
      BY <1>11, <2>2, <2>3 DEF SignToken, AuthInv, TokenNamesItsRow
    <2> QED
      BY <1>1, <1>4, <1>5, <2>1, <2>2, <2>4 DEF AuthInv
  <1>12. CASE UNCHANGED <<users, auth, issued>>
    BY <1>1, <1>3, <1>4, <1>5, <1>12 DEF AuthInv
  <1> QED
    BY <1>6, <1>7, <1>8, <1>9, <1>10, <1>11, <1>12 DEF AuthNext, AuthStep, authVars

-------------------------------------------------------------------------------
(***************************************************************************)
(* The whole path.                                                         *)
(***************************************************************************)

\* The shape of a request, by its label.
LEMMA RequestShape ==
    ASSUME PathTypeOK, NEW q \in Slots
    PROVE  /\ req[q].at \in {"idle", "gateway", "forward", "service", "handler", "answered"}
           /\ req[q].at \in {"gateway", "forward", "service", "handler"} => req[q] \in InFlight
  <1>1. req[q] \in {Idle} \cup InFlight \cup Answered
    BY DEF PathTypeOK
  <1>2. CASE req[q] = Idle
    BY <1>2 DEF Idle
  <1>3. CASE req[q] \in InFlight
    BY <1>3 DEF InFlight
  <1>4. CASE req[q] \in Answered
    BY <1>4 DEF Answered
  <1> QED
    BY <1>1, <1>2, <1>3, <1>4

\* Every step of a request is a step of the two handlers or leaves users,
\* workers and tokens alone.
LEMMA PathStepIsAuthStep == [PathNext]_pathVars => [AuthNext]_authVars
  <1> SUFFICES ASSUME [PathNext]_pathVars PROVE [AuthNext]_authVars
    OBVIOUS
  <1>1. ASSUME NEW q \in Slots, Arrive(q) PROVE UNCHANGED authVars
    BY <1>1 DEF Arrive, Ask
  <1>2. ASSUME NEW q \in Slots, GatewayStep(q) PROVE UNCHANGED authVars
    BY <1>2 DEF GatewayStep, GatewayHealth, GatewayLimits, GatewayFilter, Forward
  <1>3. ASSUME NEW q \in Slots,
               \/ RouteNotFound(q) \/ JWTAuth(q) \/ HandlerPanics(q)
               \/ HandlerAnswers(q) \/ AuthHandlerRefuses(q)
        PROVE  UNCHANGED authVars
    BY <1>3 DEF RouteNotFound, JWTAuth, HandlerPanics, HandlerAnswers, AuthHandlerRefuses
  <1>4. ASSUME NEW q \in Slots, AuthHandlerBegins(q) PROVE AuthNext
    BY <1>4 DEF AuthHandlerBegins, AuthNext, Slots
  <1>5. ASSUME NEW q \in Slots, AuthHandlerGoesOn(q) PROVE AuthNext
    BY <1>5 DEF AuthHandlerGoesOn, AuthNext, AuthStep, Slots
  <1>6. ASSUME NEW q \in Slots, AuthHandlerEnds(q) PROVE AuthNext
    BY <1>6 DEF AuthHandlerEnds, AuthNext, AuthStep, Slots
  <1>7. CASE PathTick
    BY <1>7 DEF PathTick, Refill, AuthNext
  <1>8. CASE UNCHANGED pathVars
    BY <1>8 DEF pathVars
  <1> QED
    BY <1>1, <1>2, <1>3, <1>4, <1>5, <1>6, <1>7, <1>8 DEF PathNext, ServiceStep

\* And it is a step of the limiter, or leaves clock and buckets alone.
LEMMA PathStepIsLimiterStep == PathTypeOK /\ [PathNext]_pathVars => [LimiterNext]_limiterVars
  <1> SUFFICES ASSUME PathTypeOK, [PathNext]_pathVars PROVE [LimiterNext]_limiterVars
    OBVIOUS
  <1> USE DEF limiter, limiterVars, authVars
  <1>1. ASSUME NEW q \in Slots, Arrive(q) PROVE UNCHANGED limiterVars
    BY <1>1 DEF Arrive, Ask
  <1>2. ASSUME NEW q \in Slots, GatewayHealth(q) \/ Forward(q) PROVE UNCHANGED limiterVars
    BY <1>2 DEF GatewayHealth, Forward
  <1>3. ASSUME NEW q \in Slots, GatewayLimits(q) \/ GatewayFilter(q) PROVE LimiterNext
    <2>1. req[q].client \in Clients
      BY <1>3, RequestShape DEF GatewayLimits, GatewayFilter, InFlight
    <2>2. (LetThrough(req[q].client) \/ Refuse(req[q].client)) /\ UNCHANGED now
      BY <1>3 DEF GatewayLimits, GatewayFilter
    <2> QED
      BY <2>1, <2>2 DEF LimiterNext
  <1>4. ASSUME NEW q \in Slots,
               \/ RouteNotFound(q) \/ JWTAuth(q) \/ HandlerPanics(q)
               \/ HandlerAnswers(q) \/ AuthHandlerRefuses(q)
        PROVE  UNCHANGED limiterVars
    BY <1>4 DEF RouteNotFound, JWTAuth, HandlerPanics, HandlerAnswers, AuthHandlerRefuses
  <1>5. ASSUME NEW q \in Slots, AuthHandlerBegins(q) PROVE UNCHANGED limiterVars
    BY <1>5 DEF AuthHandlerBegins, BeginRegister, BeginLogin
  <1>6. ASSUME NEW q \in Slots, AuthHandlerGoesOn(q) \/ AuthHandlerEnds(q)
        PROVE  UNCHANGED limiterVars
    BY <1>6 DEF AuthHandlerGoesOn, AuthHandlerEnds, UpsertUser, FetchUser, SignToken, AuthFails
  <1>7. CASE PathTick
    BY <1>7 DEF PathTick, LimiterNext
  <1>8. CASE UNCHANGED pathVars
    BY <1>8 DEF pathVars
  <1> QED
    BY <1>1, <1>2, <1>3, <1>4, <1>5, <1>6, <1>7, <1>8 DEF PathNext, GatewayStep, ServiceStep

\* A handler runs for the user of a token that was signed, and a moderator's
\* handler for a token that says so.
HandlerInv ==
    \A q \in Slots :
        req[q].at = "handler" =>
            /\ req[q].route \in ServiceRoutes \ AuthRoutes
            /\ req[q].token \in issued
            /\ req[q].user = req[q].token.sub
            /\ req[q].route \in ModeratorRoutes => req[q].token.role \in {"moderator", "admin"}

\* A worker that registers or logs in does so for a request routed there.
ServingAuth(q) ==
    req[q].at = "service" /\ req[q].base = ServiceBase /\ req[q].route \in AuthRoutes

BusyInv == \A q \in Slots : auth[q] # Idle => ServingAuth(q)

PathInv == PathTypeOK /\ AuthInv /\ LimiterInv /\ HandlerInv /\ BusyInv

LEMMA HandlersKnowTheirCaller == PathInv => CallerIsKnown
  <1> SUFFICES ASSUME PathInv, NEW q \in Slots, req[q].at = "handler"
               PROVE  \E r \in users :
                         /\ r.id = req[q].user
                         /\ req[q].route \in ModeratorRoutes => r.role \in {"moderator", "admin"}
    BY DEF CallerIsKnown
  <1>1. /\ req[q].token \in issued
        /\ req[q].user = req[q].token.sub
        /\ req[q].route \in ModeratorRoutes => req[q].token.role \in {"moderator", "admin"}
    BY DEF PathInv, HandlerInv
  <1>2. PICK r \in users : r.id = req[q].token.sub /\ r.role = req[q].token.role
    BY <1>1 DEF PathInv, AuthInv, TokenNamesItsRow
  <1> QED
    BY <1>1, <1>2

InFlightAt(q) == req[q].at \in {"gateway", "forward", "service", "handler"}

\* What a step does to the place of one request: it asks, it is answered, it
\* moves on, or its worker is busy with the table of users.
Asking(q) ==
    /\ ~InFlightAt(q)
    /\ auth' = auth
    /\ \E via \in {"gateway", "port"}, client \in Clients, route \in Routes,
          token \in issued \cup {NoToken} :
          req' = [req EXCEPT ![q] =
                     [at |-> IF via = "gateway" THEN "gateway" ELSE "service", via |-> via,
                      client |-> client, route |-> route, token |-> token,
                      base |-> "/api/v1", user |-> NoToken]]

Answering(q) ==
    /\ InFlightAt(q)
    /\ auth' = [auth EXCEPT ![q] = Idle]
    /\ \E code \in {200, 201, 400, 401, 403, 404, 429, 500} : Answer(q, code)

Moving(q) ==
    /\ InFlightAt(q)
    /\ auth' = auth /\ auth[q] = Idle
    /\ \E at \in {"forward", "service", "handler"}, base \in {"/api/v1", ""},
          user \in UserIds \cup {NoToken} :
          /\ MoveTo(q, at, base, user)
          /\ at = "handler" =>
                /\ req[q].route \in ServiceRoutes \ AuthRoutes
                /\ req[q].token \in issued
                /\ user = req[q].token.sub
                /\ req[q].route \in ModeratorRoutes =>
                      req[q].token.role \in {"moderator", "admin"}

Serving(q) ==
    /\ req' = req
    /\ ServingAuth(q)
    /\ \A p \in Slots : p # q => auth'[p] = auth[p]

LEMMA RequestSteps ==
    ASSUME PathTypeOK, HandlerInv, BusyInv, [PathNext]_pathVars
    PROVE  \/ UNCHANGED <<auth, req>>
           \/ \E q \in Slots : Asking(q) \/ Answering(q) \/ Moving(q) \/ Serving(q)
  <1>0. auth \in [Slots -> {Idle} \cup UpsertStep \cup FetchStep \cup SignStep]
    BY DEF PathTypeOK, AuthTypeOK, Slots
  <1> USE DEF authVars
  \* A request that is not being registered or logged in has an idle worker.
  <1>a. ASSUME NEW q \in Slots, ~ServingAuth(q), auth' = auth
        PROVE  auth[q] = Idle /\ auth' = [auth EXCEPT ![q] = Idle]
    BY <1>0, <1>a DEF BusyInv
  <1>b. ASSUME NEW q \in Slots, InFlightAt(q), ~ServingAuth(q), auth' = auth,
               NEW code \in {200, 201, 400, 401, 403, 404, 429, 500}, Answer(q, code)
        PROVE  Answering(q)
    <2>1. auth' = [auth EXCEPT ![q] = Idle]
      BY <1>a, <1>b
    <2> QED
      BY <1>b, <2>1 DEF Answering
  <1>1. ASSUME NEW q \in Slots, Arrive(q) PROVE Asking(q)
    <2>1. PICK via \in {"gateway", "port"}, client \in Clients, route \in Asked[q],
               token \in issued \cup {NoToken} : Ask(q, via, client, route, token)
      BY <1>1 DEF Arrive
    <2>2. route \in Routes
      BY AskedAssumption DEF Slots
    <2>3. ~InFlightAt(q) /\ auth' = auth
      BY <2>1 DEF Ask, InFlightAt
    <2> QED
      BY <2>1, <2>2, <2>3 DEF Ask, Asking
  <1>2. ASSUME NEW q \in Slots, GatewayHealth(q) \/ GatewayLimits(q) \/ HandlerPanics(q)
        PROVE  Answering(q)
    <2>1. /\ req[q].at \in {"gateway", "handler"} /\ auth' = auth
          /\ \E code \in {200, 429, 500} : Answer(q, code)
      BY <1>2 DEF GatewayHealth, GatewayLimits, HandlerPanics
    <2>2. InFlightAt(q) /\ ~ServingAuth(q)
      BY <2>1 DEF InFlightAt, ServingAuth
    <2> QED
      BY <1>b, <2>1, <2>2
  <1>3. ASSUME NEW q \in Slots, RouteNotFound(q) PROVE Answering(q)
    <2>1. req[q].at = "service" /\ auth' = auth /\ Answer(q, 404) /\ ~ServingAuth(q)
      BY <1>3 DEF RouteNotFound, NotRouted, ServingAuth, ServiceRoutes
    <2>2. InFlightAt(q)
      BY <2>1 DEF InFlightAt
    <2> QED
      BY <1>b, <2>1, <2>2
  <1>4. ASSUME NEW q \in Slots, AuthHandlerRefuses(q) PROVE Answering(q)
    <2>1. req[q].at = "service" /\ auth' = auth /\ Answer(q, 400) /\ auth[q] = Idle
      BY <1>4 DEF AuthHandlerRefuses
    <2> QED
      BY <1>0, <2>1 DEF Answering, InFlightAt
  <1>5. ASSUME NEW q \in Slots, GatewayFilter(q) PROVE Answering(q) \/ Moving(q)
    <2>1. /\ req[q].at = "gateway" /\ req[q].base \in {"/api/v1", ""}
          /\ auth' = auth /\ ~ServingAuth(q)
      BY <1>5, RequestShape DEF GatewayFilter, InFlight, ServingAuth
    <2>2. MoveTo(q, "forward", req[q].base, NoToken) \/ Answer(q, 401)
      BY <1>5 DEF GatewayFilter
    <2>3. CASE MoveTo(q, "forward", req[q].base, NoToken)
      <3>1. InFlightAt(q) /\ auth' = auth /\ auth[q] = Idle
        BY <1>a, <2>1 DEF InFlightAt
      <3> QED
        BY <2>1, <2>3, <3>1 DEF Moving
    <2>4. CASE Answer(q, 401)
      <3>1. InFlightAt(q) /\ ~ServingAuth(q) /\ auth' = auth
        BY <2>1 DEF InFlightAt
      <3>2. Answering(q)
        BY <1>b, <2>4, <3>1
      <3> QED
        BY <3>2
    <2> QED
      BY <2>2, <2>3, <2>4
  <1>6. ASSUME NEW q \in Slots, Forward(q) PROVE Answering(q) \/ Moving(q)
    <2>1. /\ req[q].at = "forward" /\ Rewritten(req[q].base) \in {"/api/v1", ""}
          /\ auth' = auth /\ ~ServingAuth(q)
      BY <1>6, RequestShape DEF Forward, InFlight, Rewritten, ServingAuth
    <2>2. \/ \E code \in {200, 400, 404, 500} : Answer(q, code)
          \/ MoveTo(q, "service", Rewritten(req[q].base), NoToken)
      BY <1>6 DEF Forward
    <2>3. CASE \E code \in {200, 400, 404, 500} : Answer(q, code)
      <3>1. InFlightAt(q) /\ ~ServingAuth(q) /\ auth' = auth
        BY <2>1 DEF InFlightAt
      <3>2. PICK code \in {200, 400, 404, 500} : Answer(q, code)
        BY <2>3
      <3>3. Answering(q)
        BY <1>b, <3>1, <3>2
      <3> QED
        BY <3>3
    <2>4. CASE MoveTo(q, "service", Rewritten(req[q].base), NoToken)
      <3>1. InFlightAt(q) /\ auth' = auth /\ auth[q] = Idle
        BY <1>a, <2>1 DEF InFlightAt
      <3> QED
        BY <2>1, <2>4, <3>1 DEF Moving
    <2> QED
      BY <2>2, <2>3, <2>4
  <1>7. ASSUME NEW q \in Slots, JWTAuth(q) PROVE Answering(q) \/ Moving(q)
    <2>1. /\ req[q].at = "service" /\ req[q].route \in ServiceRoutes \ AuthRoutes
          /\ req[q].base \in {"/api/v1", ""}
          /\ req[q].token \in issued \cup {NoToken}
          /\ auth' = auth /\ ~ServingAuth(q)
      BY <1>7, RequestShape DEF JWTAuth, InFlight, NotRouted, ServingAuth
    <2>2. CASE Answer(q, 401) \/ Answer(q, 403)
      <3>1. InFlightAt(q) /\ ~ServingAuth(q) /\ auth' = auth
        BY <2>1 DEF InFlightAt
      <3>2. PICK code \in {401, 403} : Answer(q, code)
        BY <2>2
      <3>3. Answering(q)
        BY <1>b, <3>1, <3>2
      <3> QED
        BY <3>3
    <2>3. CASE ~(Answer(q, 401) \/ Answer(q, 403))
      <3>1. /\ req[q].token # NoToken
            /\ req[q].route \in ModeratorRoutes => req[q].token.role \in {"moderator", "admin"}
            /\ MoveTo(q, "handler", req[q].base, req[q].token.sub)
        BY <1>7, <2>3 DEF JWTAuth, ServiceAccepts
      <3>2. req[q].token \in issued /\ req[q].token.sub \in UserIds
        BY <2>1, <3>1 DEF PathTypeOK, AuthTypeOK, Token
      <3> QED
        BY <1>a, <2>1, <3>1, <3>2 DEF Moving, InFlightAt
    <2> QED
      BY <2>2, <2>3
  <1>8. ASSUME NEW q \in Slots, HandlerAnswers(q) PROVE Answering(q)
    <2>1. /\ req[q].at = "handler" /\ auth' = auth
          /\ \E code \in Answers(req[q].route) : Answer(q, code)
      BY <1>8 DEF HandlerAnswers
    <2>2. req[q].route \in ServiceRoutes \ AuthRoutes
      BY <2>1 DEF HandlerInv
    <2>3. Answers(req[q].route) \subseteq {200, 201, 400, 404, 500}
      BY <2>2 DEF Answers, ServiceRoutes, AuthRoutes, UserRoutes, ModeratorRoutes, OpenRoutes
    <2>4. PICK code \in {200, 201, 400, 404, 500} : Answer(q, code)
      BY <2>1, <2>3
    <2>5. InFlightAt(q) /\ ~ServingAuth(q)
      BY <2>1 DEF InFlightAt, ServingAuth
    <2> QED
      BY <1>b, <2>1, <2>4, <2>5
  <1>9. ASSUME NEW q \in Slots, AuthHandlerBegins(q) PROVE Serving(q)
    <2>1. ServingAuth(q) /\ req' = req
      BY <1>9 DEF AuthHandlerBegins, ServingAuth, NotRouted, AuthRoutes
    <2>2. \A p \in Slots : p # q => auth'[p] = auth[p]
      BY <1>0, <1>9 DEF AuthHandlerBegins, BeginRegister, BeginLogin
    <2> QED
      BY <2>1, <2>2 DEF Serving
  <1>10. ASSUME NEW q \in Slots, AuthHandlerGoesOn(q) PROVE Serving(q)
    <2>1. ServingAuth(q)
      BY <1>10 DEF AuthHandlerGoesOn, UpsertUser, FetchUser, BusyInv, Idle
    <2>2. req' = req /\ \A p \in Slots : p # q => auth'[p] = auth[p]
      BY <1>0, <1>10 DEF AuthHandlerGoesOn, UpsertUser, FetchUser
    <2> QED
      BY <2>1, <2>2 DEF Serving
  <1>11. ASSUME NEW q \in Slots, AuthHandlerEnds(q) PROVE Answering(q)
    <2>1. ServingAuth(q)
      BY <1>11 DEF AuthHandlerEnds, SignToken, AuthFails, BusyInv, Idle
    <2>2. auth' = [auth EXCEPT ![q] = Idle] /\ \E code \in {200, 201, 401, 500} : Answer(q, code)
      BY <1>11 DEF AuthHandlerEnds, SignToken, AuthFails
    <2> QED
      BY <2>1, <2>2 DEF Answering, ServingAuth, InFlightAt
  <1>12. CASE PathTick \/ UNCHANGED pathVars
    BY <1>12 DEF PathTick, pathVars
  <1> QED
    BY <1>1, <1>2, <1>3, <1>4, <1>5, <1>6, <1>7, <1>8, <1>9, <1>10, <1>11, <1>12
    DEF PathNext, GatewayStep, ServiceStep

\* Tokens are never taken back.
LEMMA TokensStay == [AuthNext]_authVars => issued \subseteq issued'
  BY DEF AuthNext, AuthStep, BeginRegister, BeginLogin, UpsertUser, FetchUser, SignToken,
         AuthFails, authVars

\* The records that requests become are of their types.
LEMMA RequestTypes ==
    ASSUME PathTypeOK, issued \subseteq issued', NEW q \in Slots,
           Asking(q) \/ Answering(q) \/ Moving(q)
    PROVE  req' \in [Slots -> {Idle} \cup InFlight' \cup Answered]
  <1>1. /\ req \in [Slots -> {Idle} \cup InFlight \cup Answered]
        /\ InFlight \subseteq InFlight'
    BY DEF PathTypeOK, InFlight
  <1>2. CASE Asking(q)
    <2>1. PICK via \in {"gateway", "port"}, client \in Clients, route \in Routes,
               token \in issued \cup {NoToken} :
             req' = [req EXCEPT ![q] =
                        [at |-> IF via = "gateway" THEN "gateway" ELSE "service", via |-> via,
                         client |-> client, route |-> route, token |-> token,
                         base |-> "/api/v1", user |-> NoToken]]
      BY <1>2 DEF Asking
    <2>2. [at |-> IF via = "gateway" THEN "gateway" ELSE "service", via |-> via,
           client |-> client, route |-> route, token |-> token,
           base |-> "/api/v1", user |-> NoToken] \in InFlight
      BY <2>1 DEF InFlight
    <2> QED
      BY <1>1, <2>1, <2>2
  <1>3. CASE InFlightAt(q) /\ (Answering(q) \/ Moving(q))
    <2>1. /\ req[q].via \in {"gateway", "port"}
          /\ req[q].client \in Clients
          /\ req[q].route \in Routes
          /\ req[q].token \in issued \cup {NoToken}
      BY <1>3, RequestShape DEF InFlightAt, InFlight
    <2>2. CASE Answering(q)
      <3>1. PICK code \in {200, 201, 400, 401, 403, 404, 429, 500} : Answer(q, code)
        BY <2>2 DEF Answering
      <3>2. [at |-> "answered", via |-> req[q].via, route |-> req[q].route, code |-> code]
               \in Answered
        BY <2>1 DEF Answered
      <3> QED
        BY <1>1, <3>1, <3>2 DEF Answer
    <2>3. CASE Moving(q)
      <3>1. PICK at \in {"forward", "service", "handler"}, base \in {"/api/v1", ""},
                 user \in UserIds \cup {NoToken} : MoveTo(q, at, base, user)
        BY <2>3 DEF Moving
      <3>2. [at |-> at, via |-> req[q].via, client |-> req[q].client, route |-> req[q].route,
             token |-> req[q].token, base |-> base, user |-> user] \in InFlight
        BY <2>1 DEF InFlight
      <3> QED
        BY <1>1, <3>1, <3>2 DEF MoveTo
    <2> QED
      BY <1>3, <2>2, <2>3
  <1> QED
    BY <1>2, <1>3 DEF Answering, Moving

\* A step of one request leaves the other places alone.
LEMMA OthersStay ==
    ASSUME PathTypeOK, NEW q \in Slots, Asking(q) \/ Answering(q) \/ Moving(q)
    PROVE  \A p \in Slots : p # q => req'[p] = req[p] /\ auth'[p] = auth[p]
  <1>1. /\ req \in [Slots -> {Idle} \cup InFlight \cup Answered]
        /\ auth \in [Slots -> {Idle} \cup UpsertStep \cup FetchStep \cup SignStep]
    BY DEF PathTypeOK, AuthTypeOK, Slots
  <1>2. CASE Asking(q)
    BY <1>1, <1>2 DEF Asking
  <1>3. CASE Answering(q)
    <2>1. PICK code \in {200, 201, 400, 401, 403, 404, 429, 500} : Answer(q, code)
      BY <1>3 DEF Answering
    <2>2. auth' = [auth EXCEPT ![q] = Idle]
      BY <1>3 DEF Answering
    <2> QED
      BY <1>1, <2>1, <2>2 DEF Answer
  <1>4. CASE Moving(q)
    <2>1. PICK at \in {"forward", "service", "handler"}, base \in {"/api/v1", ""},
               user \in UserIds \cup {NoToken} : MoveTo(q, at, base, user)
      BY <1>4 DEF Moving
    <2>2. auth' = auth
      BY <1>4 DEF Moving
    <2> QED
      BY <1>1, <2>1, <2>2 DEF MoveTo
  <1> QED
    BY <1>2, <1>3, <1>4

\* A move to a handler carries a signed token that names the user.
LEMMA HandlerEntered ==
    ASSUME PathTypeOK, NEW q \in Slots, Moving(q), req'[q].at = "handler"
    PROVE  /\ req'[q].route \in ServiceRoutes \ AuthRoutes
           /\ req'[q].token \in issued
           /\ req'[q].user = req'[q].token.sub
           /\ req'[q].route \in ModeratorRoutes =>
                 req'[q].token.role \in {"moderator", "admin"}
  <1>1. PICK at \in {"forward", "service", "handler"}, base \in {"/api/v1", ""},
             user \in UserIds \cup {NoToken} :
          /\ MoveTo(q, at, base, user)
          /\ at = "handler" =>
                /\ req[q].route \in ServiceRoutes \ AuthRoutes
                /\ req[q].token \in issued
                /\ user = req[q].token.sub
                /\ req[q].route \in ModeratorRoutes =>
                      req[q].token.role \in {"moderator", "admin"}
    BY DEF Moving
  <1>2. req'[q] = [at |-> at, via |-> req[q].via, client |-> req[q].client,
                   route |-> req[q].route, token |-> req[q].token, base |-> base, user |-> user]
    BY <1>1 DEF MoveTo, PathTypeOK
  <1>3. /\ at = "handler" /\ req'[q].route = req[q].route
        /\ req'[q].token = req[q].token /\ req'[q].user = user
    <2> DEFINE new == [at |-> at, via |-> req[q].via, client |-> req[q].client,
                       route |-> req[q].route, token |-> req[q].token,
                       base |-> base, user |-> user]
    <2>1. /\ new.at = at /\ new.route = req[q].route
          /\ new.token = req[q].token /\ new.user = user
      OBVIOUS
    <2>2. req'[q] = new
      BY <1>2
    <2> HIDE DEF new
    <2> QED
      BY <2>1, <2>2
  <1> QED
    BY <1>1, <1>3

LEMMA PathInitially == PathInit => PathInv
  <1> SUFFICES ASSUME PathInit PROVE PathInv
    OBVIOUS
  <1>1. AuthInv /\ LimiterInv
    BY AuthInitially, LimiterInitially DEF PathInit
  <1>2. PathTypeOK
    BY <1>1 DEF PathInit, PathTypeOK, AuthInv, LimiterInv
  <1>3. HandlerInv
    BY DEF PathInit, HandlerInv, Idle
  <1>4. BusyInv
    BY DEF PathInit, AuthInit, BusyInv, Slots
  <1> QED
    BY <1>1, <1>2, <1>3, <1>4 DEF PathInv

LEMMA PathStep == PathInv /\ [PathNext]_pathVars => PathInv'
  <1> SUFFICES ASSUME PathInv, [PathNext]_pathVars PROVE PathInv'
    OBVIOUS
  <1>1. [AuthNext]_authVars /\ [LimiterNext]_limiterVars /\ issued \subseteq issued'
    BY PathStepIsAuthStep, PathStepIsLimiterStep, TokensStay DEF PathInv
  <1>2. AuthInv' /\ LimiterInv'
    BY <1>1, AuthInvStep, LimiterStep DEF PathInv
  <1>3. PathTypeOK /\ HandlerInv /\ BusyInv
    BY DEF PathInv
  <1>4. /\ req \in [Slots -> {Idle} \cup InFlight \cup Answered]
        /\ auth \in [Slots -> {Idle} \cup UpsertStep \cup FetchStep \cup SignStep]
    BY <1>3 DEF PathTypeOK, AuthTypeOK, Slots
  <1>5. ASSUME req' \in [Slots -> {Idle} \cup InFlight' \cup Answered] PROVE PathTypeOK'
    BY <1>2, <1>5 DEF PathTypeOK, AuthInv, LimiterInv
  <1>6. ASSUME req' = req PROVE PathTypeOK' /\ HandlerInv'
    <2>1. InFlight \subseteq InFlight'
      BY <1>1 DEF InFlight
    <2> QED
      BY <1>1, <1>3, <1>4, <1>5, <1>6, <2>1 DEF HandlerInv
  <1>7. ASSUME NEW q \in Slots, Asking(q) \/ Answering(q) \/ Moving(q)
        PROVE  /\ PathTypeOK'
               /\ \A p \in Slots : p # q => req'[p] = req[p] /\ auth'[p] = auth[p]
    <2>1. PathTypeOK'
      BY <1>1, <1>3, <1>5, <1>7, RequestTypes
    <2> QED
      BY <1>3, <1>7, <2>1, OthersStay
  <1>8. CASE UNCHANGED <<auth, req>>
    BY <1>2, <1>3, <1>6, <1>8 DEF PathInv, BusyInv, ServingAuth
  <1>9. ASSUME NEW q \in Slots, Asking(q) PROVE PathInv'
    <2>1. req'[q].at \in {"gateway", "service"} /\ auth'[q] = Idle
      BY <1>3, <1>4, <1>9 DEF Asking, BusyInv, ServingAuth, InFlightAt
    <2>2. HandlerInv'
      BY <1>1, <1>3, <1>7, <1>9, <2>1 DEF HandlerInv
    <2>3. BusyInv'
      BY <1>3, <1>7, <1>9, <2>1 DEF BusyInv, ServingAuth
    <2> QED
      BY <1>2, <1>7, <1>9, <2>2, <2>3 DEF PathInv
  <1>10. ASSUME NEW q \in Slots, Answering(q) PROVE PathInv'
    <2>1. req'[q].at = "answered" /\ auth'[q] = Idle
      <3>1. PICK code \in {200, 201, 400, 401, 403, 404, 429, 500} : Answer(q, code)
        BY <1>10 DEF Answering
      <3>2. auth' = [auth EXCEPT ![q] = Idle]
        BY <1>10 DEF Answering
      <3> QED
        BY <1>4, <3>1, <3>2 DEF Answer
    <2>2. HandlerInv'
      BY <1>1, <1>3, <1>7, <1>10, <2>1 DEF HandlerInv
    <2>3. BusyInv'
      BY <1>3, <1>7, <1>10, <2>1 DEF BusyInv, ServingAuth
    <2> QED
      BY <1>2, <1>7, <1>10, <2>2, <2>3 DEF PathInv
  <1>11. ASSUME NEW q \in Slots, Moving(q) PROVE PathInv'
    <2>1. auth'[q] = Idle
      BY <1>11 DEF Moving
    <2>2. req'[q].at = "handler" =>
             /\ req'[q].route \in ServiceRoutes \ AuthRoutes
             /\ req'[q].token \in issued
             /\ req'[q].user = req'[q].token.sub
             /\ req'[q].route \in ModeratorRoutes =>
                   req'[q].token.role \in {"moderator", "admin"}
      BY <1>3, <1>11, HandlerEntered
    <2>3. HandlerInv'
      BY <1>1, <1>3, <1>7, <1>11, <2>2 DEF HandlerInv
    <2>4. BusyInv'
      BY <1>3, <1>7, <1>11, <2>1 DEF BusyInv, ServingAuth
    <2> QED
      BY <1>2, <1>7, <1>11, <2>3, <2>4 DEF PathInv
  <1>12. ASSUME NEW q \in Slots, Serving(q) PROVE PathInv'
    <2>1. BusyInv'
      BY <1>3, <1>12 DEF Serving, BusyInv, ServingAuth
    <2> QED
      BY <1>2, <1>6, <1>12, <2>1 DEF PathInv, Serving
  <1> QED
    BY <1>3, <1>8, <1>9, <1>10, <1>11, <1>12, RequestSteps

-------------------------------------------------------------------------------
(***************************************************************************)
(* Theorems.                                                               *)
(***************************************************************************)
LEMMA PathInvariant == PathSpec => []PathInv
  BY PathInitially, PathStep, PTL DEF PathSpec

\* Rows, workers, tokens, buckets and requests have their types at every step
\* of every request (the columns of users, the claims of auth.go:131-146).
THEOREM PathTypeCorrect == PathSpec => []PathTypeOK
  <1>1. PathInv => PathTypeOK
    BY DEF PathInv
  <1> QED
    BY <1>1, PathInvariant, PTL

\* A token always names the row of its wallet (auth.go:73-88).
THEOREM TokensNameRows == PathSpec => []TokenNamesItsRow
  <1>1. PathInv => TokenNamesItsRow
    BY DEF PathInv, AuthInv
  <1> QED
    BY <1>1, PathInvariant, PTL

\* No client passes more often in a window than its burst and one for each
\* interval (ratelimit.rs:31-37).
THEOREM WindowsBounded == PathSpec => []WindowBound
  <1>1. PathInv => WindowBound
    BY LineBoundsWindows DEF PathInv
  <1> QED
    BY <1>1, PathInvariant, PTL

\* Whoever a handler runs for has a row, with the role the route asks for
\* (middleware.go:22-82).
THEOREM CallersKnown == PathSpec => []CallerIsKnown
  BY HandlersKnowTheirCaller, PathInvariant, PTL

\* Nothing that registers, logs in or calls changes a user's id or role
\* (auth.go:60-66).
THEOREM IdentityStays == PathSpec => IdentityKept
  <1>1. PathInv /\ [PathNext]_pathVars =>
           [\A r \in users :
               \E s \in users' : s.wallet = r.wallet /\ s.id = r.id /\ s.role = r.role]_authVars
    BY AuthKeepsRows, PathStepIsAuthStep DEF PathInv, PathTypeOK, RowsKept
  <1> QED
    BY <1>1, PathInvariant, PTL DEF PathSpec, IdentityKept

\* The two handlers, on their way through gateway and router, are Auth; the
\* gateway's calls of check_rate_limit are RateLimiter.
THEOREM PathImplementsAuth == PathSpec => AuthSpec
  BY PathStepIsAuthStep, PTL DEF PathSpec, PathInit, AuthSpec

THEOREM PathImplementsLimiter == PathSpec => LimiterSpec
  <1>1. PathInv /\ [PathNext]_pathVars => [LimiterNext]_limiterVars
    BY PathStepIsLimiterStep DEF PathInv
  <1> QED
    BY <1>1, PathInvariant, PTL DEF PathSpec, PathInit, LimiterSpec
===============================================================================
