-------------------------- MODULE MCOneShotRequest --------------------------
(* Small instances of OneShotRequest for TLC.  Each kind has a controller of its  *)
(* own: all requests are checkouts, or each reads a run or dispatches a rerun.    *)
EXTENDS OneShotRequest

OneController == {[r \in Requests |-> "checkout"]} \cup [Requests -> {"status", "rerun"}]
=============================================================================
