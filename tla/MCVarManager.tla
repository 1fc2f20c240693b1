---------------------------- MODULE MCVarManager ----------------------------
(* Instances of VarManager for TLC. *)
EXTENDS VarManager
=============================================================================
