---------------------------- MODULE MCOffloadPath ----------------------------
(***************************************************************************)
(* Small instances of OffloadPath: one client whose two directions are     *)
(* handled by two workers.                                                 *)
(***************************************************************************)
EXTENDS OffloadRefinement

CONSTANTS b1, b2, w1, w2

Pkt(s, d, f, u, q) == [src |-> s, dst |-> d, flags |-> f, url |-> u, seq |-> q]

\* Requests for every url, ACK and FIN from the client; SYN-ACK and RST from
\* the backends.
McPacket ==
    {Pkt(c, VIP, {"ACK"}, u, 1) : c \in Client, u \in Url}
    \cup {Pkt(c, VIP, f, NULL, 2) : c \in Client, f \in {{"ACK"}, {"FIN", "ACK"}}}
    \cup {Pkt(d, c, f, NULL, 1) :
            c \in Client, d \in DIndex, f \in {{"SYN", "ACK"}, {"RST"}}}

\* The only client's key is beyond every property once a command of it failed.
McBound == failed = {}

McRssSplit == [e \in Endpoint \X Endpoint |-> IF e[2] = VIP THEN w1 ELSE w2]

McRssOne == [e \in Endpoint \X Endpoint |-> w1]

\* Two urls of one backend, only the first offloaded.
McUrlToggle == {"u1", "u2"}
McRulesToggle == [u \in McUrlToggle |-> [offload_flag |-> u = "u1", d_index |-> b1]]

\* Two urls of different backends, both offloaded.
McUrlReroute == {"u1", "u3"}
McRulesReroute == [u \in McUrlReroute |->
    [offload_flag |-> TRUE, d_index |-> IF u = "u1" THEN b1 ELSE b2]]
=============================================================================
