------------------------------ MODULE MCLispCode ------------------------------
(* Small instances of the script transfer: two scripts, two controllers. *)
EXTENDS LispCode

CONSTANTS n1, n2, c1, c2
=============================================================================
