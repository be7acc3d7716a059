------------------------------ MODULE MCWatcher ------------------------------
(* Values of the constants of Watcher for TLC: sets of model values by cfg. *)
EXTENDS Watcher

CONSTANT Odd   \* the one version a scan can tell from the others

NoDirectories == [d \in {} |-> {}]
OddLooks == [c \in Content |-> c = Odd]
=============================================================================
