-------------------------------- MODULE OneCall --------------------------------
(***************************************************************************)
(* What a button of the frontend promises: the asynchronous call behind it *)
(* runs once at a time, ends if its page stays, and leaves the outcome of  *)
(* the call that ran.  Whoever leaves the page takes button and outcome    *)
(* along.  The pages implement it with a flag and a "disabled" attribute.  *)
(***************************************************************************)
CONSTANTS
    Payloads,   \* what the call is about
    None

VARIABLES
    call,       \* the call under way, or None
    outcome     \* the call that ended last, or None

callVars == <<call, outcome>>

CallInit == call = None /\ outcome = None

Begin(p) ==
    /\ call = None
    /\ call' = p
    /\ UNCHANGED outcome

Finish ==
    /\ call # None
    /\ outcome' = call
    /\ call' = None

Abandon ==
    /\ call' = None
    /\ outcome' = None

CallNext == (\E p \in Payloads : Begin(p)) \/ Finish \/ Abandon

CallSpec == CallInit /\ [][CallNext]_callVars

\* The same, and a call ends (stated without ENABLED: implementations map call
\* to an expression over their variables).
FairCallSpec == CallSpec /\ (call # None ~> call = None)
===============================================================================
