------------------------------ MODULE MCLeads ------------------------------
(* Instance of Leads for TLC: symmetric sets. *)
EXTENDS Leads, TLC

CONSTANTS c1, a1, u1, n1, n2, q1, q2, x1, x2, p1

MCCompanies == {c1}
MCAddresses == {a1}
OneUser     == {u1}
MCNonces    == {n1, n2}
MCEntries   == {q1, q2}
MCExports   == {x1, x2}
MCRequests  == {p1}

MCSymmetry == Permutations(MCNonces) \cup Permutations(MCEntries) \cup Permutations(MCExports)
=============================================================================
