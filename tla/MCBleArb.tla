------------------------------ MODULE MCBleArb ------------------------------
(* Small instances of the arbiter: two clients, one or two sensors each. *)
EXTENDS BleArb, TLC

CONSTANTS old, new      \* the sensor bound before, and the one selected instead

\* Nothing but their identity distinguishes two sensors of a client.
SensorsSymmetric == Permutations(Sensors)
=============================================================================
