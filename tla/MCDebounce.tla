----------------------------- MODULE MCDebounce -----------------------------
(* Values of the constants of DebounceLoop for TLC. *)
EXTENDS DebounceLoop
=============================================================================
