------------------------------ MODULE ReportForm ------------------------------
(***************************************************************************)
(* The report form of the frontend (components/AttestationForm.tsx) with   *)
(* api.submitReport and request (lib/api.ts), the one place where the      *)
(* frontend calls the backend.                                             *)
(*                                                                         *)
(* The backend is external: it stores a report or refuses it, at any time  *)
(* after it was sent, and its answer may be lost or garbled (no network, a *)
(* gateway's own 5xx, a body that is not JSON), or arrive when the page is *)
(* gone, to no effect.  fetch has no timeout, so an answer may also stay   *)
(* away.                                                                   *)
(***************************************************************************)
EXTENDS Naturals

CONSTANTS
    Attempts,   \* bound: names for the submissions of one behaviour
    MaxFaults   \* bound: answers lost or garbled

VARIABLES
    draft,        \* "blank": no category or no details; "foreign": details that
                  \* btoa cannot encode; "plain": anything else
    submitting,   \* loading
    formError,    \* error # ""
    success,
    reached,      \* per attempt: "unused", "sent", "stored" or "refused"
    told,         \* per attempt: "nothing", "success" or "error", by the form
    sentBy,       \* per attempt: the token it was sent with
    thisFill,     \* history: attempts since the form was emptied or entered
    faults        \* answers lost or garbled so far

formVars == <<draft, submitting, formError, success>>
reportVars == <<formVars, reached, told, sentBy, thisFill, faults>>

Drafts == {"blank", "plain", "foreign"}

ReportFormInit(nobody) ==
    /\ draft = "blank"
    /\ submitting = FALSE
    /\ formError = FALSE
    /\ success = FALSE
    /\ reached = [a \in Attempts |-> "unused"]
    /\ told = [a \in Attempts |-> "nothing"]
    /\ sentBy = [a \in Attempts |-> nobody]
    /\ thisFill = {}
    /\ faults = 0

\* The form's page is left: what was sent stays sent, its answer means nothing.
FormLeft ==
    /\ draft' = "blank"
    /\ submitting' = FALSE
    /\ formError' = FALSE
    /\ success' = FALSE
    /\ thisFill' = {}
    /\ UNCHANGED <<reached, told, sentBy, faults>>

\* The inputs stay enabled while a submission is under way.
EditReport(d) ==
    /\ ~success
    /\ draft' = d
    /\ UNCHANGED <<submitting, formError, success, reached, told, sentBy, thisFill, faults>>

\* handleSubmit when something is missing, and when btoa throws before a
\* request was made.
SubmitInvalid ==
    /\ ~success /\ ~submitting
    /\ draft # "plain"
    /\ formError' = TRUE
    /\ UNCHANGED <<draft, submitting, success, reached, told, sentBy, thisFill, faults>>

\* Mutant of SubmitReport: the button is not disabled.
SubmitReportAgain(a, token) ==
    /\ ~success
    /\ draft = "plain"
    /\ reached[a] = "unused"
    /\ submitting' = TRUE
    /\ formError' = FALSE
    /\ reached' = [reached EXCEPT ![a] = "sent"]
    /\ sentBy' = [sentBy EXCEPT ![a] = token]
    /\ thisFill' = thisFill \cup {a}
    /\ UNCHANGED <<draft, success, told, faults>>

\* handleSubmit up to the answer: request reads the token as it sends.
SubmitReport(a, token) ==
    /\ ~success /\ ~submitting
    /\ draft = "plain"
    /\ reached[a] = "unused"
    /\ submitting' = TRUE
    /\ formError' = FALSE
    /\ reached' = [reached EXCEPT ![a] = "sent"]
    /\ sentBy' = [sentBy EXCEPT ![a] = token]
    /\ thisFill' = thisFill \cup {a}
    /\ UNCHANGED <<draft, success, told, faults>>

BackendDecides(a) ==
    /\ reached[a] = "sent"
    /\ \E fate \in {"stored", "refused"} : reached' = [reached EXCEPT ![a] = fate]
    /\ UNCHANGED <<formVars, told, sentBy, thisFill, faults>>

\* The form hears: the success screen, or the error above the form.
Hears(a, answer) ==
    /\ told' = [told EXCEPT ![a] = answer]
    /\ success' = (answer = "success")
    /\ formError' = (answer = "error")
    /\ submitting' = FALSE
    /\ UNCHANGED <<draft, reached, sentBy, thisFill>>

Awaited(a) == a \in thisFill /\ told[a] = "nothing"

\* Mutant of AnswerArrives: request returns the body of any answer.
AnswerArrivesUnchecked(a) ==
    /\ Awaited(a)
    /\ reached[a] \in {"stored", "refused"}
    /\ Hears(a, "success")
    /\ UNCHANGED faults

\* The backend's answer: request throws unless it is a 2xx.
AnswerArrives(a) ==
    /\ Awaited(a)
    /\ \/ reached[a] = "stored" /\ Hears(a, "success")
       \/ reached[a] = "refused" /\ Hears(a, "error")
    /\ UNCHANGED faults

\* No answer, or one that is not the backend's: an error, whatever became or
\* will become of the report.
AnswerLost(a) ==
    /\ Awaited(a)
    /\ faults < MaxFaults
    /\ faults' = faults + 1
    /\ Hears(a, "error")

\* "Submit Another" on the success screen.
SubmitAnother ==
    /\ success
    /\ success' = FALSE
    /\ draft' = "blank"
    /\ thisFill' = {}
    /\ UNCHANGED <<submitting, formError, reached, told, sentBy, faults>>

\* What a reader of the page does; then what the network and the backend do,
\* which needs no page.
ReportFormStep(attempts, token) ==
    \/ \E d \in Drafts : EditReport(d)
    \/ SubmitInvalid
    \/ \E a \in attempts : SubmitReport(a, token)
    \/ SubmitAnother

ReportAnswer == \E a \in Attempts : AnswerArrives(a) \/ AnswerLost(a)

BackendStep == \E a \in Attempts : BackendDecides(a)

-------------------------------------------------------------------------------
(***************************************************************************)
(* Properties.                                                             *)
(***************************************************************************)

\* "Report Submitted" is shown only for a report the backend stored, one sent
\* from this very form; an answer of an earlier visit never raises it
\* (AttestationForm.tsx:46-58, api.ts:31-40).
HeardIsTrue ==
    /\ \A a \in Attempts : told[a] = "success" => reached[a] = "stored"
    /\ success => \E a \in thisFill : told[a] = "success"

\* A form filled in once is stored twice only if the user was told of an error
\* in between: of two submissions of one filling, one ended in an error (the
\* lost answer, which the frontend cannot tell from a refusal).
TwiceOnlyAfterError ==
    \A a, b \in thisFill : a # b => "error" \in {told[a], told[b]}
===============================================================================
