----------------------------- MODULE Connection -----------------------------
(***************************************************************************)
(* A connection as its two ends see it: PktProcessor between a client and  *)
(* the backends, over a network that loses, delays and reorders packets.   *)
(* The client sends the requests of Script one after the other on one      *)
(* connection and repeats what is not answered; their rules may name       *)
(* different backends, so the Frontend moves the connection from backend   *)
(* to backend.  Losing a packet stands as well for a reply that            *)
(* rte_eth_tx_burst did not take or that an error return left behind: the  *)
(* flow has changed, the packet is not sent.                               *)
(*                                                                         *)
(* The ends are external, modelled as TCP: a backend answers a SYN on an   *)
(* open connection with an ACK, and data without a connection with a RST.  *)
(* Rules are not offloaded; the switch passes everything to the Frontend.  *)
(* A payload of a backend is parsed like one of a client, so an answer     *)
(* carries a token too, one without a rule.                                *)
(***************************************************************************)
EXTENDS PktProcessor

CONSTANTS
    Script,   \* the urls a client asks for, in this order
    answer,   \* url -> token of the answer
    NetSize   \* bound: the ends start nothing while so many packets are on their way

ASSUME ScriptAssumption ==
    /\ Script \in Seq(Url)
    /\ answer \in [Url -> Url]
    /\ \A u \in Url : Rules[answer[u]] = NULL
    /\ NetSize \in Nat

\* No end has the address that send_rst_pkt writes unconverted.
ASSUME AddressAssumption == \A d \in DIndex : Unconverted(d) \notin Endpoint

VARIABLES
    net,      \* packets on their way, to the Frontend and from it
    asked,    \* client -> number of the request it waits for an answer to
    open,     \* clients whose connection is open
    sock,     \* backend -> client -> "none", "syn" or "open"
    served,   \* history: the requests each backend has answered
    upset     \* history: "late", a copy of a request came after its answer;
              \* "stray", a packet of another backend changed a flow;
              \* "idle", a backend closed a connection

ends == <<asked, open, sock>>
cvars == <<vars, net, ends, served, upset>>

ConnectionInit ==
    /\ Init
    /\ net = {}
    /\ asked = [c \in Client |-> 1] /\ open = Client
    /\ sock = [d \in DIndex |-> [c \in Client |-> "none"]]
    /\ served = {}
    /\ upset = {}

FromEnd(s, d, f, u, q) == [src |-> s, dst |-> d, flags |-> f, url |-> u, seq |-> q]

\* The packets of a client to VIP and all of a backend pass the Frontend.
Inward(p) ==
    \/ p.src \in Client /\ p.dst = VIP
    \/ p.src \in DIndex

\* A copy of a request that has been answered.
Repeated(p) == p.src \in Client /\ p.url # NULL /\ p.seq < asked[p.src]

-----------------------------------------------------------------------------
(* The Frontend.                                                           *)

Receive(w, p) ==
    /\ p \in net /\ Inward(p)
    /\ Rx(w, p)
    /\ net' = net \ {p}
    /\ upset' = upset \cup (IF Repeated(p) THEN {"late"} ELSE {})
    /\ UNCHANGED <<ends, served>>

\* The step changes a flow by a packet of a backend that is not the flow's.
Stray(w) ==
    /\ In(w, "dst", {"BACKEND_SYN", "COMPLETE", "OFFLOAD"})
    /\ pkt(w).src # flow(w).entry_data.d_index
    /\ heap' # heap

\* The replies of the packet leave when it has been handled; what is sent to
\* an address that no end has is lost.
Process(w) ==
    /\ Run(w)
    /\ net' = IF worker'[w] = Idle
              THEN net \cup {p \in {send_pkts'[i] : i \in DOMAIN send_pkts'} :
                                p.dst \in Endpoint}
              ELSE net
    /\ upset' = upset \cup (IF Stray(w) THEN {"stray"} ELSE {})
    /\ UNCHANGED <<ends, served>>

LearnRule(u) == UpdateRule(u) /\ UNCHANGED <<net, ends, served, upset>>

-----------------------------------------------------------------------------
(* The network and the ends.                                               *)

\* A packet for the Frontend is missed when its worker polls the queue, not
\* while the worker is busy with another: nothing depends on it until then.
Lose(p) ==
    /\ Inward(p) => worker[Rss[<<p.src, p.dst>>]] = Idle
    /\ net' = net \ {p}
    /\ UNCHANGED <<vars, ends, served, upset>>

Request(c) == FromEnd(c, VIP, {"ACK"}, Script[asked[c]], asked[c])

\* The client sends its request, or repeats it.
Ask(c) ==
    /\ c \in open /\ asked[c] <= Len(Script)
    /\ Request(c) \notin net /\ Cardinality(net) < NetSize
    /\ net' = net \cup {Request(c)}
    /\ UNCHANGED <<vars, ends, served, upset>>

ClientReceive(c, p) ==
    /\ p \in net /\ p.dst = c /\ p.src = VIP
    /\ net' = net \ {p}
    /\ open' = IF "RST" \in p.flags THEN open \ {c} ELSE open
    /\ asked' = IF c \in open /\ asked[c] <= Len(Script)
                   /\ p.url # NULL /\ p.url = answer[Script[asked[c]]]
                THEN [asked EXCEPT ![c] = @ + 1] ELSE asked
    /\ UNCHANGED <<vars, sock, served, upset>>

\* The client has all its answers.
Hangup(c) ==
    /\ c \in open /\ asked[c] > Len(Script)
    /\ open' = open \ {c}
    /\ net' = net \cup {FromEnd(c, VIP, {"FIN", "ACK"}, NULL, asked[c])}
    /\ UNCHANGED <<vars, asked, sock, served, upset>>

BackendReceive(d, p) ==
    LET c == p.src
        s == sock[d][c]
        Reply(f, u) == net' = (net \ {p}) \cup {FromEnd(d, c, f, u, 0)}
        Becomes(t) == sock' = [sock EXCEPT ![d][c] = t]
    IN
    /\ p \in net /\ p.dst = d /\ c \in Client
    /\ \/ /\ "RST" \in p.flags
          /\ net' = net \ {p} /\ Becomes("none") /\ UNCHANGED served
       \/ /\ p.flags = {"SYN"}
          /\ IF s = "open" THEN Reply({"ACK"}, NULL) ELSE Reply({"SYN", "ACK"}, NULL)
          /\ Becomes(IF s = "open" THEN s ELSE "syn") /\ UNCHANGED served
       \/ /\ "ACK" \in p.flags /\ s = "none"
          /\ Reply({"RST"}, NULL) /\ UNCHANGED <<sock, served>>
       \/ /\ "ACK" \in p.flags /\ s # "none"
          /\ p.url # NULL
          /\ Reply({"ACK"}, answer[p.url]) /\ Becomes("open")
          /\ served' = served \cup {<<d, p.url>>}
    /\ UNCHANGED <<vars, asked, open, upset>>

\* The backend closes a connection that has been idle.
IdleTimeout(d, c) ==
    /\ sock[d][c] # "none" /\ Cardinality(net) < NetSize
    /\ sock' = [sock EXCEPT ![d][c] = "none"]
    /\ net' = net \cup {FromEnd(d, c, {"FIN", "ACK"}, NULL, 0)}
    /\ upset' = upset \cup {"idle"}
    /\ UNCHANGED <<vars, asked, open, served>>

-----------------------------------------------------------------------------
ConnectionNext ==
    \/ \E w \in Worker : Process(w) \/ \E p \in net : Receive(w, p)
    \/ \E u \in Url : LearnRule(u)
    \/ \E p \in net : Lose(p)
    \/ \E c \in Client : Ask(c) \/ Hangup(c) \/ \E p \in net : ClientReceive(c, p)
    \/ \E d \in DIndex : \/ \E p \in net : BackendReceive(d, p)
                         \/ \E c \in Client : IdleTimeout(d, c)

ConnectionSpec == ConnectionInit /\ [][ConnectionNext]_cvars

\* From where to where, and what.
Kind(p) == <<IF p.src \in DIndex THEN "backend" ELSE p.src,
             IF p.dst \in DIndex THEN "backend" ELSE p.dst,
             "RST" \in p.flags, "SYN" \in p.flags, p.url # NULL>>

\* The kinds of packets a connection depends on.
Kinds ==
    UNION {{<<c, VIP, FALSE, FALSE, TRUE>>,         \* request
            <<c, "backend", FALSE, FALSE, TRUE>>,   \*   forwarded
            <<"backend", c, FALSE, FALSE, TRUE>>,   \* answer
            <<VIP, c, FALSE, FALSE, TRUE>>,         \*   forwarded
            <<c, "backend", FALSE, TRUE, FALSE>>,   \* SYN
            <<"backend", c, FALSE, TRUE, FALSE>>,   \* SYN-ACK
            <<"backend", c, TRUE, FALSE, FALSE>>,   \* RST of a backend
            <<VIP, c, TRUE, FALSE, FALSE>>}         \*   forwarded
              : c \in Client}

Arrive(p) ==
    \/ \E w \in Worker : Receive(w, p)
    \/ \E c \in Client : ClientReceive(c, p)
    \/ \E d \in DIndex : BackendReceive(d, p)

\* The workers poll; the client repeats its request and a backend gives up
\* an idle connection; of the packets of a kind sent again and again some
\* arrive, and no other packet stays on its way for good.
Fairness ==
    /\ \A w \in Worker : WF_cvars(Process(w))
    /\ \A u \in Url : WF_cvars(LearnRule(u))
    /\ \A c \in Client : SF_cvars(Ask(c))
    /\ \A c \in Client : SF_cvars(\E d \in DIndex : IdleTimeout(d, c))
    /\ \A kind \in Kinds : SF_cvars(\E p \in net : Kind(p) = kind /\ Arrive(p))
    /\ WF_cvars(\E p \in net : Kind(p) \notin Kinds /\ (Arrive(p) \/ Lose(p)))

FairConnectionSpec == ConnectionSpec /\ Fairness

-----------------------------------------------------------------------------
(* Properties.                                                             *)

\* Whatever is lost, delayed or repeated, a request is only ever answered by
\* the backend its rule names: the request cached in recv_pkt and the backend
\* in entry_data change together, and SynAck brings them together.  Not so
\* when two workers have been inside a flow at the same time: SrcReroute
\* writes one after the other, and SynAck may come in between.
RightBackend == mingled = {} => \A s \in served : Rules[s[2]].d_index = s[1]

\* No client is reset before it has its answers while the backends keep
\* their connections, unless a packet of a backend the flow has left was
\* taken for its present one's: loss, delay and retransmission alone, at any
\* point of the moves from backend to backend, do not end a connection.
\* (Clean: nor has another client's flow been freed under a worker's pointer,
\* which with several clients can end up on this one's.  mingled: nor have two
\* workers been inside one flow at the same time.)
MovesUnharmed ==
    Clean /\ mingled = {} =>
        \A c \in Client : c \notin open /\ asked[c] <= Len(Script) =>
            upset \cap {"stray", "idle"} # {}

\* A client gets all its answers or is reset, whatever is lost on the way,
\* and even when a backend still holds the connection of an earlier visit.
\* Excepted: a late copy of an answered request, which moves the flow back
\* with itself as recv_pkt, so that SynRetry does not know the request the
\* client repeats.
GetsAnswers ==
    \A c \in Client :
        <>(asked[c] > Len(Script) \/ c \notin open \/ "late" \in upset)

\* GetsAnswers holds of what follows a state in which this is false.
Waiting == open = Client /\ "late" \notin upset
=============================================================================
