---------------------------- MODULE MCCoroutines ----------------------------
(* Instances of Coroutines for TLC: the entry coroutine and two or three others. *)
EXTENDS Coroutines, TLC

CONSTANTS e, a, b, c

MCCos      == {e, a, b, c}
MCThreeCos == {e, a, b}
MCSymmetry == Permutations({a, b, c})
MCThreeSymmetry == Permutations({a, b})
=============================================================================
