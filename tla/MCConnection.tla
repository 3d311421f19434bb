---------------------------- MODULE MCConnection ----------------------------
(***************************************************************************)
(* Instances of Connection: one client whose requests belong to two        *)
(* backends, so that its connection is moved and moved back.               *)
(***************************************************************************)
EXTENDS Connection

CONSTANTS c1, b1, b2, w1

McRule(d) == [offload_flag |-> FALSE, d_index |-> d]
McRules   == [u \in Url |-> CASE u \in {"u1", "u3"} -> McRule(b1)
                               [] u = "u2" -> McRule(b2)
                               [] OTHER -> NULL]
McRss     == [e \in Endpoint \X Endpoint |-> w1]
McAnswer  == [u \in Url |-> CASE u = "u1" -> "r1" [] u = "u2" -> "r2"
                               [] u = "u3" -> "r3" [] OTHER -> u]

McThereBack == <<"u1", "u2", "u3">>
=============================================================================
