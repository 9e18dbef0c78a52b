-------------------------------- MODULE MCDedup --------------------------------
(***************************************************************************)
(* Values for the run of Dedup: all reports but one have the same text.    *)
(***************************************************************************)
EXTENDS Dedup

CONSTANT Blank    \* the one report whose text is white space

MCText == [r \in Reports |-> IF r = Blank THEN "blank" ELSE "same"]
===============================================================================
