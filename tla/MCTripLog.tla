----------------------------- MODULE MCTripLog -----------------------------
(* The trip log on a ring of a few two-record sectors. *)
EXTENDS TripLog
=============================================================================
