---------------------------- MODULE MCSessionVec ----------------------------
(* Small instances of SessionVec, with the constants of MCSessionTable. *)
EXTENDS MCSessionTable, SessionVec
=============================================================================
