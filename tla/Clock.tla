--------------------------------- MODULE Clock ---------------------------------
(***************************************************************************)
(* The clock that Auth and RateLimiter read when RequestPath puts them     *)
(* together.                                                               *)
(***************************************************************************)
EXTENDS Integers

CONSTANT MaxTime    \* bound: the clock stops here

ASSUME ClockAssumption == MaxTime \in Nat

VARIABLE now
===============================================================================
