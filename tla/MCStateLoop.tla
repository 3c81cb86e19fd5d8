---------------------------- MODULE MCStateLoop ----------------------------
(* Instances of StateLoop for TLC: two calls and one timer, or one call   *)
(* and two timers, share a channel small enough to be full.                 *)
EXTENDS StateLoop

CONSTANTS c1, c2, t1, t2

MCCallers  == {c1, c2}
MCOne      == {c1}
MCTimers   == {t1, t2}
MCOneTimer == {t1}
=============================================================================
