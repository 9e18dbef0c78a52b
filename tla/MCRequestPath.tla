----------------------------- MODULE MCRequestPath -----------------------------
(***************************************************************************)
(* Values for the runs of RequestPath: one moderator made by hand, and one *)
(* request that asks for anything beside one that registers.              *)
(***************************************************************************)
EXTENDS RequestPath

MCSeeded == {[id |-> "i0", wallet |-> "mod", role |-> "moderator", phone |-> "p0"]}

MCAsked == [q \in AuthWorkers |->
    IF q = "q1"
    THEN {"register", "login", "createCheckIn", "updateReportStatus", "searchReports",
          "health", "attestations", "analytics"}
    ELSE {"register"}]

MCAskedAuth == [q \in AuthWorkers |-> AuthRoutes]
===============================================================================
