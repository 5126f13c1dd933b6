---------------------------- MODULE MCGattServer ----------------------------
(* Instances of GattServer for TLC. *)
EXTENDS GattServer, TLC
=============================================================================
