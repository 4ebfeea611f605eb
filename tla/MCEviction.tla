---------------------------- MODULE MCEviction ----------------------------
(* An instance of Eviction for TLC: one process and two files. *)
EXTENDS Eviction, MCStore
=============================================================================
