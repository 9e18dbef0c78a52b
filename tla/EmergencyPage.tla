----------------------------- MODULE EmergencyPage -----------------------------
(***************************************************************************)
(* The emergency page of the frontend (app/emergency/page.tsx) with its    *)
(* SOS button (components/EmergencyButton.tsx): a dialog, one call of      *)
(* handleTrigger behind "Send Alert", and two screens that say the alert   *)
(* was sent, each from a flag of its own.  handleTrigger waits for a timer *)
(* that never fails, and sets the flag of the page; handleConfirm, which   *)
(* awaits it, sets the flag of the button in a later microtask.  The       *)
(* browser handles no click between the two; here it may, which only adds  *)
(* behaviours.                                                             *)
(***************************************************************************)
CONSTANT TriggerCalls   \* bound: names for the calls of handleTrigger of one visit

VARIABLES
    dialogOpen,      \* open
    sending,         \* loading, of the button
    sent,            \* sent, of the button
    alertTriggered,  \* alertTriggered, of the page
    triggers         \* history: handleTrigger calls since the page was entered: the
                     \* wait is "running", "triggered" is the end of handleTrigger,
                     \* "ended" that of handleConfirm

emergencyVars == <<dialogOpen, sending, sent, alertTriggered, triggers>>

EmergencyPageInit ==
    /\ dialogOpen = FALSE
    /\ sending = FALSE
    /\ sent = FALSE
    /\ alertTriggered = FALSE
    /\ triggers = [t \in TriggerCalls |-> "unused"]

\* The page is unmounted, or entered: its state starts over.
EmergencyPageLeft ==
    /\ dialogOpen' = FALSE
    /\ sending' = FALSE
    /\ sent' = FALSE
    /\ alertTriggered' = FALSE
    /\ triggers' = [t \in TriggerCalls |-> "unused"]

\* The SOS button, rendered until an alert was sent.
OpenDialog ==
    /\ ~sent
    /\ dialogOpen' = TRUE
    /\ UNCHANGED <<sending, sent, alertTriggered, triggers>>

\* "Cancel" and the cross; they stop nothing that is under way.
CloseDialog ==
    /\ ~sent /\ dialogOpen
    /\ dialogOpen' = FALSE
    /\ UNCHANGED <<sending, sent, alertTriggered, triggers>>

\* Mutant of HandleConfirm: no "disabled".
HandleConfirmAgain(t) ==
    /\ ~sent /\ dialogOpen
    /\ triggers[t] = "unused"
    /\ sending' = TRUE
    /\ triggers' = [triggers EXCEPT ![t] = "running"]
    /\ UNCHANGED <<dialogOpen, sent, alertTriggered>>

\* "Send Alert": handleConfirm up to the wait of handleTrigger.
HandleConfirm(t) ==
    /\ ~sent /\ dialogOpen
    /\ ~sending
    /\ triggers[t] = "unused"
    /\ sending' = TRUE
    /\ triggers' = [triggers EXCEPT ![t] = "running"]
    /\ UNCHANGED <<dialogOpen, sent, alertTriggered>>

\* The timer fires: handleTrigger ends in the page.
HandleTriggerEnds(t) ==
    /\ triggers[t] = "running"
    /\ triggers' = [triggers EXCEPT ![t] = "triggered"]
    /\ alertTriggered' = TRUE
    /\ UNCHANGED <<dialogOpen, sending, sent>>

\* handleConfirm goes on behind its await, in the button.
HandleConfirmEnds(t) ==
    /\ triggers[t] = "triggered"
    /\ triggers' = [triggers EXCEPT ![t] = "ended"]
    /\ sent' = TRUE
    /\ sending' = FALSE
    /\ UNCHANGED <<dialogOpen, alertTriggered>>

EmergencyTimer == \E t \in TriggerCalls : HandleTriggerEnds(t) \/ HandleConfirmEnds(t)

EmergencyPageStep ==
    \/ OpenDialog
    \/ CloseDialog
    \/ \E t \in TriggerCalls : HandleConfirm(t)
    \/ EmergencyTimer

-------------------------------------------------------------------------------
(***************************************************************************)
(* Properties.                                                             *)
(***************************************************************************)
Started == {t \in TriggerCalls : triggers[t] # "unused"}

\* One visit of the page triggers one alert, however often the dialog is
\* cancelled and opened again while the first "Send Alert" is under way, and
\* after it (EmergencyButton.tsx:15-25, :76).
OneAlertPerVisit == \A s, t \in Started : s = t
===============================================================================
