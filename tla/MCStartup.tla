----------------------------- MODULE MCStartup -----------------------------
(***************************************************************************)
(* A small instance of Startup.                                            *)
(***************************************************************************)
EXTENDS Startup

CONSTANTS b1, b2

McRules == [u \in Url |-> IF u = "u1" THEN b1 ELSE b2]
=============================================================================
