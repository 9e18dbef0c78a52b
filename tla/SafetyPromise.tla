----------------------------- MODULE SafetyPromise -----------------------------
(***************************************************************************)
(* What the safety net promises about a check-in, without clocks, locks,   *)
(* statements, streams or failures: only a check-in whose time is over is  *)
(* missed, one that was completed in time never is, and each process alerts*)
(* at most once, after the check-in is decided.                            *)
(***************************************************************************)
CONSTANTS CheckInIds, Instances

VARIABLES
    life,     \* what became of a check-in
    late,     \* the check-ins whose time is over
    safe,     \* those completed before it was
    alerts    \* who was alerted about what: <<check-in, process>>

Init ==
    /\ life = [c \in CheckInIds |-> "absent"]
    /\ late = {}
    /\ safe = {}
    /\ alerts = {}

\* It may be late from the start: the clock runs while it is being scheduled.
Schedule(c) ==
    /\ life[c] = "absent"
    /\ life' = [life EXCEPT ![c] = "pending"]
    /\ late' \in {late, late \cup {c}}
    /\ UNCHANGED <<safe, alerts>>

TimePasses ==
    /\ late \subseteq late'
    /\ \A c \in late' : life[c] # "absent"
    /\ UNCHANGED <<life, safe, alerts>>

\* A late completion counts too, but only one in time makes safe.
Complete(c) ==
    /\ life[c] # "absent"
    /\ life' = [life EXCEPT ![c] = "completed"]
    /\ safe' = safe \cup ({c} \ late)
    /\ UNCHANGED <<late, alerts>>

Miss(c) ==
    /\ c \in late \ safe
    /\ life' = [life EXCEPT ![c] = "missed"]
    /\ UNCHANGED <<late, safe, alerts>>

Alert(c, m) ==
    /\ c \in late \ safe
    /\ life[c] \in {"missed", "completed"}
    /\ <<c, m>> \notin alerts
    /\ alerts' = alerts \cup {<<c, m>>}
    /\ UNCHANGED <<life, late, safe>>

Next ==
    \/ \E c \in CheckInIds :
          \/ Schedule(c)
          \/ Complete(c)
          \/ Miss(c)
          \/ \E m \in Instances : Alert(c, m)
    \/ TimePasses

Spec == Init /\ [][Next]_<<life, late, safe, alerts>>

-------------------------------------------------------------------------------
(***************************************************************************)
(* What follows from it.                                                   *)
(***************************************************************************)

\* A check-in completed in time stays completed and nobody is ever alerted.
SafeIsFinal ==
    \A c \in safe :
        /\ life[c] = "completed"
        /\ \A m \in Instances : <<c, m>> \notin alerts

\* An alert is never taken back, and neither is the end of a check-in's time.
NothingIsTakenBack == [][late \subseteq late' /\ alerts \subseteq alerts']_<<life, late, safe, alerts>>
===============================================================================
