------------------------------ MODULE MCOutbox ------------------------------
(* Outbox for TLC: the constants are in the .cfg files.                   *)
EXTENDS Outbox
=============================================================================
