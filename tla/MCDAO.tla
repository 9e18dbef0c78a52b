--------------------------------- MODULE MCDAO ---------------------------------
(***************************************************************************)
(* Symmetry for the safety runs of DAO.                                    *)
(***************************************************************************)
EXTENDS DAO, TLC

Symmetry ==
    Permutations(Users) \cup Permutations(Proposals) \cup Permutations(Workers)
===============================================================================
