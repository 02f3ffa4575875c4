---------------------------- MODULE MCVescBleLink ----------------------------
(* Small instances of the Bluetooth link: one or two controllers, short ring. *)
EXTENDS VescBleLink

CONSTANTS n1, n2, express, silent
=============================================================================
