----------------------------- MODULE MCApproval -----------------------------
(* Instances of Approval for TLC. *)
EXTENDS Approval, TLC

CONSTANTS r1, c1, c2, c3, c4, derm, eye, dental, s1, s2

OneRun       == {r1}
FourCompanies == {c1, c2, c3, c4}
ThreeIndustries == {derm, eye, dental}

(* Two companies of one industry, two of others: the third approval of a day
   can fail at the quota or at the cap. *)
MCIndustry == [c \in Companies |-> CASE c \in {c1, c2} -> derm
                                     [] c = c3 -> eye
                                     [] c = c4 -> dental]

(* Two leads a day, one per industry. *)
CapTwo  == [r \in Runs |-> 2]
HalfPct == [r \in Runs |-> 50]

MCSessions == {s1, s2}

(* Sessions differ in nothing but their name; so do companies of one industry,
   and the two industries with one company each, along with that company. *)
Swapped(a, b) == (a :> b) @@ (b :> a)
MCSymmetry ==
  { (p @@ q) @@ t :
      p \in Permutations(MCSessions), q \in Permutations({c1, c2}),
      t \in {Swapped(c3, c3) @@ Swapped(eye, eye) @@ Swapped(c4, c4) @@ Swapped(dental, dental),
             Swapped(c3, c4) @@ Swapped(eye, dental)} }
=============================================================================
