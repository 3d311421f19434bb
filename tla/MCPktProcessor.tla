--------------------------- MODULE MCPktProcessor ---------------------------
(***************************************************************************)
(* Small instances of PktProcessor.  url u1 is offloaded to b1, u2 goes to *)
(* b1 without offload, u3 is offloaded to b2 and "resp" (what the first    *)
(* line of a response looks like) has no rule.                             *)
(***************************************************************************)
EXTENDS PktProcessor

CONSTANTS c1, c2, b1, b2, w1, w2

McUrl == {"u1", "u2", "u3", "resp"}

McRules == [u \in McUrl |->
    CASE u = "u1" -> [offload_flag |-> TRUE,  d_index |-> b1]
      [] u = "u2" -> [offload_flag |-> FALSE, d_index |-> b1]
      [] u = "u3" -> [offload_flag |-> TRUE,  d_index |-> b2]
      [] OTHER    -> NULL]

\* With one backend and no second rule for it: u1 only.
McUrlOne   == {"u1", "resp"}
McRulesOne == [u \in McUrlOne |->
    IF u = "u1" THEN [offload_flag |-> TRUE, d_index |-> b1] ELSE NULL]

Pkt(s, d, f, u, q) == [src |-> s, dst |-> d, flags |-> f, url |-> u, seq |-> q]

\* Requests (each url its own sequence number), pure ACK, FIN and RST from
\* the clients; SYN-ACK, response data, FIN and RST from the backends.
McPacket ==
    {Pkt(c, VIP, {"ACK"}, u, IF u = "u1" THEN 1 ELSE 2) :
        c \in Client, u \in Url \ {"resp"}}
    \cup {Pkt(c, VIP, f, NULL, 1) : c \in Client, f \in {{"ACK"}, {"FIN", "ACK"}, {"RST"}}}
    \cup {Pkt(d, c, f, NULL, 1) :
            c \in Client, d \in DIndex, f \in {{"SYN", "ACK"}, {"FIN", "ACK"}, {"RST"}}}
    \cup {Pkt(d, c, {"ACK"}, "resp", 1) : c \in Client, d \in DIndex}

\* Two clients.  c2 only asks for u1, and may be the one that gets the block
\* or the buffer that a worker of c1's flow is about to use.
McPacketTwo ==
    {Pkt(c1, VIP, {"ACK"}, u, IF u = "u1" THEN 1 ELSE 2) : u \in Url \ {"resp"}}
    \cup {Pkt(c1, VIP, f, NULL, 1) : f \in {{"FIN", "ACK"}, {"RST"}}}
    \cup {Pkt(d, c1, {"SYN", "ACK"}, NULL, 1) : d \in DIndex}
    \cup {Pkt(b1, c1, f, NULL, 1) : f \in {{"FIN", "ACK"}, {"RST"}}}
    \cup {Pkt(c2, VIP, {"ACK"}, "u1", 1)}

\* Once memory is corrupted, only what is left of the cases in parts.
McBound == Clean \/ \E w \in Worker : part(w) # NULL

\* The two directions of a connection hash to different rx queues.
McRssSplit == [e \in Endpoint \X Endpoint |-> IF e[2] = VIP THEN w1 ELSE w2]

\* Everything on one queue.
McRssOne == [e \in Endpoint \X Endpoint |-> w1]
=============================================================================
