----------------------------- MODULE MCJobQueue -----------------------------
(* The instance of JobQueue for TLC.  EveryJobSettles is a liveness property,
   so the two workers are not declared symmetric. *)
EXTENDS JobQueue

CONSTANTS w1, w2

MCWorkers == {w1, w2}
MCOneJob  == {1}

=============================================================================
