----------------------------- MODULE MCConsole -----------------------------
(* Instances of Console for TLC. *)
EXTENDS Console

CONSTANTS i1, i2, a1

\* Two companies on the list, the address of one is known.
MCItems     == {i1, i2}
MCAddresses == {a1}
MCEntered   == [i \in MCItems |-> IF i = i1 THEN a1 ELSE Nothing]
=============================================================================
