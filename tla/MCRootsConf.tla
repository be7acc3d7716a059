----------------------------- MODULE MCRootsConf -----------------------------
(* Values of the constants of RootsConf for TLC. *)
EXTENDS RootsConf

CONSTANTS r1, r2

Files == {<<[root |-> r1, enabled |-> TRUE]>>}
=============================================================================
