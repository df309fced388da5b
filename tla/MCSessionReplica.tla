-------------------------- MODULE MCSessionReplica --------------------------
(* Small instances of SessionReplica for TLC. *)
EXTENDS SessionReplica
=============================================================================
