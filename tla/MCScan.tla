------------------------------- MODULE MCScan -------------------------------
(* Values of the constants of Scan for TLC. *)
EXTENDS Scan, TLC

CONSTANTS a, b, r1, r2

TwoRoots == (a :> r1 @@ b :> r2)
AnyRoots == SUBSET Root \ {{}}

\* Contents are alike, and so are the two roots with the path each holds.
Swapped == {a :> a @@ b :> b @@ r1 :> r1 @@ r2 :> r2, a :> b @@ b :> a @@ r1 :> r2 @@ r2 :> r1}
Symmetry == {f @@ g : f \in Permutations(Content), g \in Swapped}
=============================================================================
