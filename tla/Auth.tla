---------------------------------- MODULE Auth ----------------------------------
(***************************************************************************)
(* Registration and login (services/checkin-dao/handlers/auth.go) over the *)
(* table users.                                                            *)
(*                                                                         *)
(* Register upserts a row with an id of its own making, reads back the row *)
(* of the wallet in another statement, and signs a token for it; Login     *)
(* reads and signs.  users is a set of rows with UNIQUE(wallet_address) and *)
(* the primary key id.  Rows above the role "user" are made by hand in the *)
(* database, before the service starts.                                    *)
(***************************************************************************)
EXTENDS Clock

CONSTANTS
    Wallets,     \* users.wallet_address
    UserIds,     \* users.id, fresh UUIDs
    Phones,      \* users.phone (and display_name)
    Seeded,      \* rows made by hand
    AuthWorkers, \* HTTP workers running Register or Login
    TokenLife    \* 24 h

Roles == {"user", "moderator", "admin"}
UserRow == [id : UserIds, wallet : Wallets, role : Roles, phone : Phones]

ASSUME SeededAssumption ==
    /\ Seeded \subseteq UserRow
    /\ \A r, s \in Seeded : r.wallet = s.wallet \/ r.id = s.id => r = s
ASSUME TokenLifeAssumption == TokenLife \in Nat

VARIABLES
    users,    \* the rows of users
    auth,     \* where each worker stands
    issued    \* tokens signed so far, with the wallet they were asked for

authVars == <<now, users, auth, issued>>

Idle == [at |-> "idle"]
UpsertStep == [at : {"upsert"}, row : UserRow]
FetchStep == [at : {"fetch"}, wallet : Wallets]
SignStep == [at : {"sign"}, wallet : Wallets, sub : UserIds, role : Roles]
Token == [wallet : Wallets, sub : UserIds, role : Roles, exp : 0..(MaxTime + TokenLife)]

AuthTypeOK ==
    /\ now \in 0..MaxTime
    /\ users \in SUBSET UserRow
    /\ auth \in [AuthWorkers -> {Idle} \cup UpsertStep \cup FetchStep \cup SignStep]
    /\ issued \in SUBSET Token

AuthInit ==
    /\ now = 0
    /\ users = Seeded
    /\ auth = [w \in AuthWorkers |-> Idle]
    /\ issued = {}

(***************************************************************************)
(* The table.                                                              *)
(***************************************************************************)

RowOf(wallet) == {r \in users : r.wallet = wallet}

\* uuid.New() never returns an id that is taken.
FreshId(i) ==
    /\ \A r \in users : r.id # i
    /\ \A w \in AuthWorkers : auth[w] \in UpsertStep => auth[w].row.id # i

WithPhone(r, phone) == [id |-> r.id, wallet |-> r.wallet, role |-> r.role, phone |-> phone]

\* INSERT ... ON CONFLICT (wallet_address) DO UPDATE SET display_name, phone.
Upsert(new) ==
    IF RowOf(new.wallet) = {}
    THEN users \cup {new}
    ELSE (users \ RowOf(new.wallet))
            \cup {WithPhone(r, new.phone) : r \in RowOf(new.wallet)}

(***************************************************************************)
(* Register.                                                               *)
(***************************************************************************)

BeginRegister(w, wallet, i, phone) ==
    /\ auth[w] = Idle
    /\ FreshId(i)
    /\ auth' = [auth EXCEPT ![w] =
                   [at |-> "upsert",
                    row |-> [id |-> i, wallet |-> wallet, role |-> "user", phone |-> phone]]]
    /\ UNCHANGED <<now, users, issued>>

\* Mutant of UpsertUser: it signs for the row it made, without the re-fetch.
UpsertWithoutFetch(w) ==
    /\ auth[w].at = "upsert"
    /\ users' = Upsert(auth[w].row)
    /\ auth' = [auth EXCEPT ![w] =
                   [at |-> "sign", wallet |-> auth[w].row.wallet,
                    sub |-> auth[w].row.id, role |-> auth[w].row.role]]
    /\ UNCHANGED <<now, issued>>

UpsertUser(w) ==
    /\ auth[w].at = "upsert"
    /\ users' = Upsert(auth[w].row)
    /\ auth' = [auth EXCEPT ![w] = [at |-> "fetch", wallet |-> auth[w].row.wallet]]
    /\ UNCHANGED <<now, issued>>

(***************************************************************************)
(* Login, and the re-fetch of Register: the same query.                    *)
(***************************************************************************)

BeginLogin(w, wallet) ==
    /\ auth[w] = Idle
    /\ auth' = [auth EXCEPT ![w] = [at |-> "fetch", wallet |-> wallet]]
    /\ UNCHANGED <<now, users, issued>>

FetchUser(w) ==
    /\ auth[w].at = "fetch"
    /\ \E r \in RowOf(auth[w].wallet) :
          auth' = [auth EXCEPT ![w] =
                      [at |-> "sign", wallet |-> r.wallet, sub |-> r.id, role |-> r.role]]
    /\ UNCHANGED <<now, users, issued>>

\* There is no such wallet, or a statement fails: an error is answered.
AuthFails(w) ==
    /\ auth[w] # Idle
    /\ auth' = [auth EXCEPT ![w] = Idle]
    /\ UNCHANGED <<now, users, issued>>

\* generateToken.
SignToken(w) ==
    /\ auth[w].at = "sign"
    /\ issued' = issued \cup {[wallet |-> auth[w].wallet, sub |-> auth[w].sub,
                               role |-> auth[w].role, exp |-> now + TokenLife]}
    /\ auth' = [auth EXCEPT ![w] = Idle]
    /\ UNCHANGED <<now, users>>

AuthStep(w) == UpsertUser(w) \/ FetchUser(w) \/ SignToken(w) \/ AuthFails(w)

AuthNext ==
    \/ \E w \in AuthWorkers :
          \/ \E a \in Wallets, i \in UserIds, p \in Phones : BeginRegister(w, a, i, p)
          \/ \E a \in Wallets : BeginLogin(w, a)
          \/ AuthStep(w)
    \/ now < MaxTime /\ now' = now + 1 /\ UNCHANGED <<users, auth, issued>>

AuthSpec == AuthInit /\ [][AuthNext]_authVars

-------------------------------------------------------------------------------
(***************************************************************************)
(* Properties.                                                             *)
(***************************************************************************)

\* A token names the row its wallet has now, with the role of that row:
\* never the id an overtaken registration made up (auth.go:51, :73-76).
TokenNamesItsRow ==
    \A t \in issued :
        \E r \in users : r.wallet = t.wallet /\ r.id = t.sub /\ r.role = t.role

\* Registering again changes neither the id nor the role of a user.
IdentityKept ==
    [][\A r \in users :
          \E s \in users' : s.wallet = r.wallet /\ s.id = r.id /\ s.role = r.role]_authVars
===============================================================================
