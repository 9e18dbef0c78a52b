-------------------------------- MODULE Ballot --------------------------------
(***************************************************************************)
(* What the DAO service promises about voting, without statements, rows    *)
(* or failures: a proposal is published by an author, every user has at    *)
(* most one choice on it, the last one cast, and the author of a proposal  *)
(* who has not chosen may be counted for "yes".                            *)
(***************************************************************************)
CONSTANTS Users, NoUser, Proposals

VARIABLES
    author,   \* who published a proposal, NoUser before that
    choice    \* what a user chose on a proposal

Choices == {"yes", "no", "abstain"}

Init ==
    /\ author = [p \in Proposals |-> NoUser]
    /\ choice = [p \in Proposals |-> [u \in Users |-> "none"]]

Publish(p, u) ==
    /\ author[p] = NoUser
    /\ author' = [author EXCEPT ![p] = u]
    /\ UNCHANGED choice

Cast(p, u, v) ==
    /\ author[p] # NoUser
    /\ choice' = [choice EXCEPT ![p][u] = v]
    /\ UNCHANGED author

DefaultYes(p, u) ==
    /\ author[p] = u
    /\ choice[p][u] = "none"
    /\ choice' = [choice EXCEPT ![p][u] = "yes"]
    /\ UNCHANGED author

Next ==
    \E p \in Proposals, u \in Users :
        \/ Publish(p, u)
        \/ \E v \in Choices : Cast(p, u, v)
        \/ DefaultYes(p, u)

Spec == Init /\ [][Next]_<<author, choice>>
===============================================================================
