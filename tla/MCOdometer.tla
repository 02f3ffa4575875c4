---------------------------- MODULE MCOdometer ----------------------------
(* Small instances of the odometer: short rides, a few restarts and edits. *)
EXTENDS Odometer
=============================================================================
