----------------------------- MODULE MCSchedule -----------------------------
(* The instance of Schedule for TLC: from a Saturday to the Tuesday after. *)
EXTENDS Schedule, TLC

CONSTANTS q1, q2, observations, aggregates

MCRequests == {q1, q2}
MCTables   == {observations, aggregates}
MCPercents == {60, 86, 91}

MCSymmetry == Permutations(MCRequests) \cup Permutations(MCTables)
=============================================================================
