-------------------------- MODULE MCFrontendRestart --------------------------
(***************************************************************************)
(* A small instance of FrontendRestart: one client, one worker.            *)
(***************************************************************************)
EXTENDS FrontendRestart

CONSTANTS b1, b2, w1

Pkt(s, d, f, u, q) == [src |-> s, dst |-> d, flags |-> f, url |-> u, seq |-> q]

\* Requests and FIN from the client; SYN-ACK from the backends.
McPacket ==
    {Pkt(c, VIP, {"ACK"}, u, 1) : c \in Client, u \in Url}
    \cup {Pkt(c, VIP, {"FIN", "ACK"}, NULL, 2) : c \in Client}
    \cup {Pkt(d, c, {"SYN", "ACK"}, NULL, 1) : c \in Client, d \in DIndex}

McRss == [e \in Endpoint \X Endpoint |-> w1]

McUrl == {"u1", "u3"}
McRules == [u \in McUrl |->
    [offload_flag |-> TRUE, d_index |-> IF u = "u1" THEN b1 ELSE b2]]
=============================================================================
