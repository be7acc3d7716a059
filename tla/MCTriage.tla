------------------------------- MODULE MCTriage -------------------------------
(* Values of the constants of Triage for TLC: three directories, one of them *)
(* on another disk, with pairs of copies in two of them, a pair in one, and  *)
(* a name that is another one up to its first blank.                         *)
EXTENDS Triage, TLC

CONSTANTS docs, old, disk, a1, a2, b1, b2, e1, e2, x

Files == {a1, a2, b1, b2, e1, e2, x}
Parents == (a1 :> docs) @@ (b1 :> docs) @@ (a2 :> old) @@ (b2 :> old)
             @@ (e1 :> old) @@ (e2 :> old) @@ (x :> disk)
Contents == (a1 :> "a") @@ (a2 :> "a") @@ (b1 :> "b") @@ (b2 :> "b")
              @@ (e1 :> "e") @@ (e2 :> "e") @@ (x :> "x")
BaseScores == (a1 :> 90) @@ (a2 :> 70) @@ (b1 :> 90) @@ (b2 :> 70)
                @@ (e1 :> 90) @@ (e2 :> 70) @@ (x :> 90)
FirstWords == [t \in Target |-> IF t = e2 THEN e1 ELSE t]
Files0 == {<<>>, <<e1, "[no-embed]">>, <<"[catalog]", e2, "[no-embed]", b2>>}
Sessions == Permutations(Session)
=============================================================================
