--------------------------- MODULE MCScanRequests ---------------------------
(* Values of the constants of ScanRequests for TLC. *)
EXTENDS ScanRequests

Clocks == {0, 1}
=============================================================================
