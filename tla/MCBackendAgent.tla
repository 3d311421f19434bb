--------------------------- MODULE MCBackendAgent ---------------------------
(***************************************************************************)
(* Small instances of BackendAgent: four sequence numbers, so that every   *)
(* connection wraps around.                                                *)
(***************************************************************************)
EXTENDS BackendAgent
=============================================================================
