------------------------------ MODULE CheckInPage ------------------------------
(***************************************************************************)
(* The check-in page of the frontend (app/checkin/page.tsx) with its       *)
(* widget (components/CheckInWidget.tsx).                                  *)
(*                                                                         *)
(* Both handlers wait for a timer (it stands in for the request) and go on *)
(* with whatever the page's state is then: React applies an updater to the *)
(* state at that moment, while what the handler read before the wait is    *)
(* what it was at the click.  A click is rendered before the next event.   *)
(* The response window and the dates are left out.                         *)
(***************************************************************************)
EXTENDS Naturals, Sequences, FiniteSets

CONSTANTS
    MockPending,   \* the pending check-in of mockCheckIns
    NewCheckIns,   \* ids drawn by crypto.randomUUID; bound: how many
    NoCheckIn

ASSUME CheckInIdsAssumption ==
    MockPending \notin NewCheckIns /\ NoCheckIn \notin NewCheckIns \cup {MockPending}

VARIABLES
    list,        \* checkIns: ids, the newest first (the completed mocks are left out)
    done,        \* the check-ins of the list that are completed
    formOpen,    \* showSchedule
    timeSet,     \* scheduleTime # ""
    scheduling,  \* handleSchedule calls under way, each under the id it will draw
    completing,  \* completing, of the widget
    ending,      \* handleComplete calls under way, each under the check-in shown at its click
    ended,       \* history: the check-in shown at the click of the last one that ended
    overlap      \* history: a Schedule was clicked while another one was under way

checkInVars ==
    <<list, done, formOpen, timeSet, scheduling, completing, ending, ended, overlap>>

PageIds == NewCheckIns \cup {MockPending}

Listed == {list[i] : i \in DOMAIN list}
Pending == Listed \ done

CheckInPageInit ==
    /\ list = <<MockPending>>
    /\ done = {}
    /\ formOpen = FALSE
    /\ timeSet = FALSE
    /\ scheduling = {}
    /\ completing = FALSE
    /\ ending = {}
    /\ ended = NoCheckIn
    /\ overlap = FALSE

\* The page is unmounted, or entered: its state starts over.
CheckInPageLeft ==
    /\ list' = <<MockPending>>
    /\ done' = {}
    /\ formOpen' = FALSE
    /\ timeSet' = FALSE
    /\ scheduling' = {}
    /\ completing' = FALSE
    /\ ending' = {}
    /\ ended' = NoCheckIn
    /\ overlap' = FALSE

\* currentCheckIn: the first pending one of the list.
Current ==
    IF Pending = {} THEN NoCheckIn
    ELSE list[CHOOSE i \in DOMAIN list :
                 list[i] \in Pending /\ \A j \in 1..(i - 1) : list[j] \notin Pending]

\* "Schedule Check-In", in place of the widget when nothing is pending.
OpenSchedule ==
    /\ Pending = {}
    /\ formOpen' = TRUE
    /\ UNCHANGED <<list, done, timeSet, scheduling, completing, ending, ended, overlap>>

CancelSchedule ==
    /\ formOpen
    /\ formOpen' = FALSE
    /\ UNCHANGED <<list, done, timeSet, scheduling, completing, ending, ended, overlap>>

SetTime(given) ==
    /\ formOpen
    /\ timeSet' = given
    /\ UNCHANGED <<list, done, formOpen, scheduling, completing, ending, ended, overlap>>

\* handleSchedule up to its wait; nothing disables the button meanwhile.
HandleSchedule(c) ==
    /\ formOpen
    /\ timeSet
    /\ c \notin Listed \cup scheduling
    /\ scheduling' = scheduling \cup {c}
    /\ overlap' = (overlap \/ scheduling # {})
    /\ UNCHANGED <<list, done, formOpen, timeSet, completing, ending, ended>>

\* Mutant of ScheduleLands: it leaves the form open.
ScheduleLandsOpen(c) ==
    /\ c \in scheduling
    /\ scheduling' = scheduling \ {c}
    /\ list' = <<c>> \o list
    /\ UNCHANGED <<done, formOpen, timeSet, completing, ending, ended, overlap>>

\* The rest of handleSchedule.
ScheduleLands(c) ==
    /\ c \in scheduling
    /\ scheduling' = scheduling \ {c}
    /\ list' = <<c>> \o list
    /\ formOpen' = FALSE
    /\ timeSet' = FALSE
    /\ UNCHANGED <<done, completing, ending, ended, overlap>>

\* Mutant of HandleComplete: the button stays enabled.
HandleCompleteAgain ==
    /\ Pending # {}
    /\ completing' = TRUE
    /\ ending' = ending \cup {Current}
    /\ UNCHANGED <<list, done, formOpen, timeSet, scheduling, ended, overlap>>

\* handleComplete of the widget and of the page, up to the wait.
HandleComplete ==
    /\ Pending # {}
    /\ ~completing
    /\ completing' = TRUE
    /\ ending' = ending \cup {Current}
    /\ UNCHANGED <<list, done, formOpen, timeSet, scheduling, ended, overlap>>

\* The rest of them: every check-in pending now is completed, and the widget
\* (unmounted by that) forgets its flag.
CompleteLands(c) ==
    /\ c \in ending
    /\ done' = Listed
    /\ completing' = FALSE
    /\ ending' = ending \ {c}
    /\ ended' = c
    /\ UNCHANGED <<list, formOpen, timeSet, scheduling, overlap>>

CheckInTimer ==
    \/ \E c \in NewCheckIns : ScheduleLands(c)
    \/ \E c \in PageIds : CompleteLands(c)

CheckInPageStep ==
    \/ OpenSchedule
    \/ CancelSchedule
    \/ \E given \in BOOLEAN : SetTime(given)
    \/ \E c \in NewCheckIns : HandleSchedule(c)
    \/ HandleComplete
    \/ CheckInTimer

-------------------------------------------------------------------------------
(***************************************************************************)
(* Properties.                                                             *)
(***************************************************************************)

\* The page knows one next check-in: two of them are pending, or on their way
\* to the list, only if Schedule was clicked again before the first click's
\* wait was over (page.tsx:34-48; the button has no "disabled" for it).
OnePendingUnlessOverlap ==
    ~overlap =>
        \A c, d \in Pending \cup scheduling : c = d

\* "Complete Check-In" completes the check-in the widget showed when it was
\* clicked and no other, although the updater completes whatever is pending
\* when the wait is over (page.tsx:23-32), unless two Schedules overlapped.
CompletesWhatItShows ==
    [][\A c \in PageIds : c \in done' \ done => overlap \/ c = ended']_checkInVars

\* The widget's button is a OneCall: a second completion starts only after the
\* first one (CheckInWidget.tsx:53-60, :98).
Completion == INSTANCE OneCall WITH
    Payloads <- PageIds, None <- NoCheckIn, outcome <- ended,
    call <- IF ending = {} THEN NoCheckIn ELSE CHOOSE c \in ending : TRUE

CompletionIsOneCall == Completion!FairCallSpec
===============================================================================
