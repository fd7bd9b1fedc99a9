---------------------------- MODULE MCHybridLru ----------------------------
(* One rank's share of a few experts.                                      *)
EXTENDS HybridLruRecency

(* Expert 2 lives on another rank; local ids do not follow global ones. *)
MCOrigMap ==
  [g \in 0 .. 4 |-> CASE g = 0 -> 1 [] g = 1 -> 0 [] g = 2 -> -1 [] g = 3 -> 2 [] g = 4 -> 3]

(* Rankings with experts of another rank, unknown ids and repeats; the last *)
(* one names a single expert of this rank.                                  *)
MCRankings == {<<2, 7, 1, 1, 3>>, <<0, -1, 0>>}
=============================================================================
