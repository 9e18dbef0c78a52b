-------------------------------- MODULE Browser --------------------------------
(***************************************************************************)
(* One tab of the frontend: the page it is on, the ways from page to page, *)
(* and the pages' modules composed.  A page's state lives while the page   *)
(* is mounted: a navigation within the document (a Link, router.push, the  *)
(* browser's Back and Forward) unmounts it, and a change of document drops *)
(* the calls under way too.  The timer of an unmounted page still fires,   *)
(* to no effect but for the login's and for what the backend was sent.     *)
(*                                                                         *)
(* /registry and /dashboard have no handlers of their own: the one filters *)
(* constant reports, the other shows constant cards and links.             *)
(***************************************************************************)
EXTENDS CheckInPage, EmergencyPage, DAOPage, ProposalPage, ReportForm, Session

CONSTANT Trips   \* bound: what one behaviour visits and calls: a set of records
                 \* of pages, logins, attempts and writes of other tabs

VARIABLES
    path,      \* the page shown
    entries,   \* the pages the document has shown, which Back and Forward reach
    trip       \* the member of Trips that this behaviour keeps to

placeVars == <<path, entries, trip>>
pageVars == <<checkInVars, emergencyVars, daoPageVars, proposalVars, reportVars>>
vars == <<placeVars, pageVars, sessionVars>>

\* Sidebar.tsx: the links on every page but "/" and "/login".
SidebarLinks == {"/dashboard", "/report", "/registry", "/checkin", "/emergency", "/dao"}

Proposal == "/dao/proposals/1"

AppPages == SidebarLinks \cup {Proposal}
Paths == AppPages \cup {"/", "/login"}

HomeLinks == {"/login"}
DashboardLinks == {"/report", "/registry", "/checkin", "/emergency", "/dao"}

\* The Links of a page: its own, and those around it.
Links(p) ==
    CASE p = "/" -> HomeLinks
      [] p = "/login" -> {}
      [] p = "/dashboard" -> SidebarLinks \cup DashboardLinks
      [] p = "/dao" -> SidebarLinks \cup {Proposal}
      [] OTHER -> SidebarLinks

ASSUME TripsAssumption ==
    /\ Stay \notin Paths
    /\ \A t \in Trips :
        /\ t.pages \subseteq Paths
        /\ "/login" \in t.pages => "/dashboard" \in t.pages
        /\ t.logins \subseteq Logins
        /\ t.attempts \subseteq Attempts
        /\ t.writes \in Nat

Init ==
    /\ CheckInPageInit
    /\ EmergencyPageInit
    /\ DAOPageInit
    /\ ProposalPageInit
    /\ ReportFormInit(Nobody)
    /\ SessionInit
    /\ trip \in Trips
    /\ path \in trip.pages
    /\ entries = {path}

\* The page shown is unmounted.
PageLeft ==
    /\ CheckInPageLeft
    /\ EmergencyPageLeft
    /\ DAOPageLeft
    /\ ProposalPageLeft
    /\ FormLeft

\* Another page is shown in the same document; a navigation under way is
\* dropped for it.
Shows(p) ==
    /\ path' = p
    /\ PageLeft
    /\ LoginLeft
    /\ NavbarRenders
    /\ going' = Stay
    /\ UNCHANGED <<storageVars, unloading, otherTab, trip>>

\* A click on a Link starts loading the page; the one shown stays meanwhile.
FollowLink(p) ==
    /\ p \in Links(path) \cap trip.pages
    /\ going' = p
    /\ UNCHANGED <<placeVars, pageVars, storageVars, loginVars, connects,
                   navbarVars, unloading, otherTab>>

\* Mutant of Arrive: the Navbar, around all pages, does not render again.
ArriveUnrendered ==
    /\ going # Stay /\ going # path
    /\ path' = going
    /\ entries' = entries \cup {going}
    /\ PageLeft
    /\ LoginLeft
    /\ going' = Stay
    /\ UNCHANGED <<storageVars, navbarVars, unloading, otherTab, trip>>

\* The page that a Link or router.push asked for is there.
Arrive ==
    /\ going # Stay /\ going # path
    /\ Shows(going)
    /\ entries' = entries \cup {going}

\* It is the page shown: nothing is unmounted or rendered.
ArriveHere ==
    /\ going = path
    /\ going' = Stay
    /\ UNCHANGED <<placeVars, pageVars, storageVars, loginVars, connects,
                   navbarVars, unloading, otherTab>>

BackForward(p) ==
    /\ p \in entries \ {path}
    /\ Shows(p)
    /\ UNCHANGED entries

\* A document of its own: a page loaded by its address, or reloaded.
Load(p) ==
    /\ path' = p
    /\ entries' = {p}
    /\ PageLeft
    /\ DocumentLeft
    /\ NavbarRenders
    /\ going' = Stay
    /\ unloading' = FALSE
    /\ UNCHANGED <<storageVars, otherTab, trip>>

LoadAddress == \E p \in trip.pages : Load(p)

\* What the logout button asked for.
Unload == unloading /\ Load("/login")

Navigation ==
    \/ \E p \in Paths : FollowLink(p)
    \/ Arrive
    \/ ArriveHere
    \/ \E p \in Paths : BackForward(p)
    \/ LoadAddress
    \/ Unload

\* The page shown at work: its buttons, inputs and timers.
AtCheckIn ==
    /\ path = "/checkin"
    /\ CheckInPageStep
    /\ UNCHANGED <<placeVars, emergencyVars, daoPageVars, proposalVars, reportVars, sessionVars>>

AtEmergency ==
    /\ path = "/emergency"
    /\ EmergencyPageStep
    /\ UNCHANGED <<placeVars, checkInVars, daoPageVars, proposalVars, reportVars, sessionVars>>

AtDAO ==
    /\ path = "/dao"
    /\ DAOPageStep
    /\ UNCHANGED <<placeVars, checkInVars, emergencyVars, proposalVars, reportVars, sessionVars>>

AtProposal ==
    /\ path = Proposal
    /\ ProposalPageStep
    /\ UNCHANGED <<placeVars, checkInVars, emergencyVars, daoPageVars, reportVars, sessionVars>>

AtReport ==
    /\ path = "/report"
    /\ ReportFormStep(trip.attempts, token)
    /\ UNCHANGED <<placeVars, checkInVars, emergencyVars, daoPageVars, proposalVars, sessionVars>>

AtLogin ==
    /\ path = "/login"
    /\ LoginPageStep(trip.logins)
    /\ UNCHANGED <<placeVars, pageVars>>

\* The Navbar is on every page but two.
AtNavbar ==
    /\ path \in AppPages
    /\ ToggleTheme \/ ("/login" \in trip.pages /\ Logout)
    /\ UNCHANGED <<placeVars, pageVars>>

\* What happens whatever page is shown.
Elsewhere ==
    \/ /\ ReportAnswer \/ BackendStep
       /\ UNCHANGED <<placeVars, checkInVars, emergencyVars, daoPageVars, proposalVars, sessionVars>>
    \/ /\ LoginTimer \/ OtherTabStep(trip.writes)
       /\ UNCHANGED <<placeVars, pageVars>>

Next ==
    \/ Navigation
    \/ AtCheckIn
    \/ AtEmergency
    \/ AtDAO
    \/ AtProposal
    \/ AtReport
    \/ AtLogin
    \/ AtNavbar
    \/ Elsewhere

\* The timers of the page shown go off, and so do the login's; a page asked for
\* arrives.  Nobody has to click, the backend need not answer.
Fairness ==
    /\ WF_vars(AtCheckIn /\ CheckInTimer)
    /\ WF_vars(AtEmergency /\ EmergencyTimer)
    /\ WF_vars(AtDAO /\ DAOTimer)
    /\ WF_vars(AtProposal /\ VoteTimer)
    /\ \A l \in Logins : WF_vars(ConnectLands(l) /\ UNCHANGED <<placeVars, pageVars>>)
    /\ WF_vars(Arrive)

Spec == Init /\ [][Next]_vars /\ Fairness

-------------------------------------------------------------------------------
(***************************************************************************)
(* Properties; those of the pages are stated in their modules.             *)
(***************************************************************************)
TypeOK ==
    /\ trip \in Trips
    /\ path \in trip.pages
    /\ entries \subseteq trip.pages
    /\ going \in trip.pages \cup {Stay}
    /\ {token, user, shown} \subseteq Wallets \cup {Nobody}
    /\ address \in Addresses
    /\ {connecting, connectError, unloading, unseen} \subseteq BOOLEAN
    /\ connects \in [Logins -> [for : Addresses, left : BOOLEAN]]
    /\ draft \in Drafts
    /\ {submitting, formError, success} \subseteq BOOLEAN
    /\ reached \in [Attempts -> {"unused", "sent", "stored", "refused"}]
    /\ told \in [Attempts -> {"nothing", "success", "error"}]
    /\ sentBy \in [Attempts -> Wallets \cup {Nobody}]
    /\ thisFill \subseteq Attempts

\* A report is sent with the token of the user the Navbar shows, unless
\* another tab wrote the storage or the login of a page left before landed
\* since the Navbar rendered (it reads storage only then, Navbar.tsx:31), or
\* the logout button's new document is not there yet; request reads the
\* storage at the click (api.ts:17-18).
SentAsShown ==
    [][\A a \in Attempts :
        reached[a] = "unused" /\ reached'[a] = "sent" =>
            sentBy'[a] = shown \/ unseen \/ unloading]_vars
===============================================================================
