------------------------------ MODULE MCCanLink ------------------------------
(* The CAN link with two addresses, a ring of three slots, two-part packets. *)
EXTENDS CanLink
=============================================================================
