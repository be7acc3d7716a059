---------------------------- MODULE MCWatcherLive ----------------------------
(* Values of the constants of Watcher for TLC: two directories with one file *)
(* each.                                                                     *)
EXTENDS Watcher, TLC

CONSTANTS p, q, d, e, n

Paths == {p, q, d, e}
Directories == {d, e}
Holding == (d :> (n :> p)) @@ (e :> (n :> q))
SameLooks == [c \in Content |-> "same"]
=============================================================================
