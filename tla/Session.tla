-------------------------------- MODULE Session --------------------------------
(***************************************************************************)
(* Who is signed in, in one tab of the frontend: local storage             *)
(* (lib/auth.ts), the login page (app/login/page.tsx), and the Navbar      *)
(* (components/Navbar.tsx), which shows what it read when it last rendered.*)
(*                                                                         *)
(* No page asks isAuthenticated, so every page is reachable signed out.    *)
(* Other tabs share the storage: they write it, in one step, as this tab   *)
(* does.  The token and the user are abstracted to the wallet they are     *)
(* for; the token's expiry is read by isAuthenticated alone and left out.  *)
(***************************************************************************)
EXTENDS Naturals

CONSTANTS
    Wallets,       \* addresses that btoa can encode
    ForeignName,   \* an address that it cannot
    Nobody,        \* an absent item; a blank address
    Logins,        \* bound: names for handleConnect calls under way
    Stay           \* no navigation is under way

ASSUME SessionAssumption ==
    Nobody \notin Wallets /\ ForeignName \notin Wallets /\ Nobody # ForeignName

VARIABLES
    token, user,     \* the two items of local storage
    address,         \* the login page: its input,
    connecting,      \* loading,
    connectError,    \* error # ""
    connects,        \* and its handleConnect calls under way: Free, or the address
                     \* of the call and whether its page was left since
    shown,           \* the user in the Navbar
    going,           \* the page a client-side navigation is loading, or Stay
    unloading,       \* the document is about to be replaced by /login
    unseen,          \* history: since the Navbar rendered, another tab wrote, or a
                     \* login of a page left before signed in
    otherTab         \* writes of other tabs so far

storageVars == <<token, user>>
loginVars == <<address, connecting, connectError>>
navbarVars == <<shown, unseen>>
sessionVars ==
    <<storageVars, loginVars, connects, navbarVars, going, unloading, otherTab>>

Addresses == Wallets \cup {ForeignName, Nobody}

Free == [for |-> Nobody, left |-> FALSE]
InFlight == {l \in Logins : connects[l] # Free}

SessionInit ==
    /\ token \in Wallets \cup {Nobody}
    /\ user = token
    /\ address = Nobody
    /\ connecting = FALSE
    /\ connectError = FALSE
    /\ connects = [l \in Logins |-> Free]
    /\ shown = user
    /\ going = Stay
    /\ unloading = FALSE
    /\ unseen = FALSE
    /\ otherTab = 0

\* The Navbar renders: it reads the user.
NavbarRenders ==
    /\ shown' = user
    /\ unseen' = FALSE

\* The login page's own state starts over.
LoginEntered ==
    /\ address' = Nobody
    /\ connecting' = FALSE
    /\ connectError' = FALSE

\* The login page is left within the document: its calls go on.
LoginLeft ==
    /\ LoginEntered
    /\ connects' = [l \in Logins |->
                        IF l \in InFlight THEN [connects[l] EXCEPT !.left = TRUE] ELSE Free]

\* The document is left: they do not.
DocumentLeft ==
    /\ LoginEntered
    /\ connects' = [l \in Logins |-> Free]

TypeAddress(w) ==
    /\ address' = w
    /\ UNCHANGED <<storageVars, connecting, connectError, connects, navbarVars,
                   going, unloading, otherTab>>

\* handleConnect with a blank address.
ConnectBlank ==
    /\ ~connecting
    /\ address = Nobody
    /\ connectError' = TRUE
    /\ UNCHANGED <<storageVars, address, connecting, connects, navbarVars,
                   going, unloading, otherTab>>

\* handleConnect up to its wait.
Connect(l) ==
    /\ ~connecting
    /\ address # Nobody
    /\ l \notin InFlight
    /\ connecting' = TRUE
    /\ connectError' = FALSE
    /\ connects' = [connects EXCEPT ![l] = [for |-> address, left |-> FALSE]]
    /\ UNCHANGED <<storageVars, address, navbarVars, going, unloading, otherTab>>

\* Mutant of ConnectLands: it pushes nowhere.
ConnectLandsStay(l) ==
    /\ l \in InFlight
    /\ connects' = [connects EXCEPT ![l] = Free]
    /\ IF connects[l].for = ForeignName
       THEN UNCHANGED <<storageVars, unseen>>
       ELSE /\ token' = connects[l].for
            /\ user' = connects[l].for
            /\ unseen' = (unseen \/ connects[l].left)
    /\ UNCHANGED <<loginVars, shown, going, unloading, otherTab>>

\* The rest of handleConnect, whether its page is still there or not: btoa
\* throws and "loading" stays, or the tab is signed in and sent to /dashboard.
ConnectLands(l) ==
    /\ l \in InFlight
    /\ connects' = [connects EXCEPT ![l] = Free]
    /\ IF connects[l].for = ForeignName
       THEN UNCHANGED <<storageVars, unseen, going>>
       ELSE /\ token' = connects[l].for
            /\ user' = connects[l].for
            /\ unseen' = (unseen \/ connects[l].left)
            /\ going' = "/dashboard"
    /\ UNCHANGED <<loginVars, shown, unloading, otherTab>>

\* The Navbar's buttons: toggleTheme, and logout with its change of document,
\* which happens later.
ToggleTheme ==
    /\ NavbarRenders
    /\ UNCHANGED <<storageVars, loginVars, connects, going, unloading, otherTab>>

Logout ==
    /\ shown # Nobody
    /\ token' = Nobody
    /\ user' = Nobody
    /\ unloading' = TRUE
    /\ UNCHANGED <<loginVars, connects, navbarVars, going, otherTab>>

\* Another tab signs in or out.
OtherTabWrites(w, most) ==
    /\ otherTab < most
    /\ otherTab' = otherTab + 1
    /\ token' = w
    /\ user' = w
    /\ unseen' = TRUE
    /\ UNCHANGED <<loginVars, connects, shown, going, unloading>>

LoginPageStep(logins) ==
    \/ \E w \in Addresses : TypeAddress(w)
    \/ ConnectBlank
    \/ \E l \in logins : Connect(l)

LoginTimer == \E l \in Logins : ConnectLands(l)

OtherTabStep(most) == \E w \in Wallets \cup {Nobody} : OtherTabWrites(w, most)

-------------------------------------------------------------------------------
(***************************************************************************)
(* Properties.                                                             *)
(***************************************************************************)

\* "Connect" leads somewhere: unless the address cannot be encoded, the login
\* page is left, since only that ends "loading" (login/page.tsx:20-39).
LoginSettles ==
    \A l \in Logins :
        connects[l].for \in Wallets /\ ~connects[l].left ~> ~connecting
===============================================================================
