---------------------------- MODULE BackendAgent ----------------------------
(***************************************************************************)
(* The back-end agent: the XDP program on the ingress side                 *)
(* (Backend/ingress_xdp.c) and the TC program on the egress side           *)
(* (Backend/egress_tc.c) that splice the client's connection, whose        *)
(* server-side numbering was begun by the switch or an earlier backend, to *)
(* the connection the backend's kernel opened with a number of its own.    *)
(*                                                                         *)
(* seq_map keeps the number the client expects the server's stream to      *)
(* continue from (the ack_seq of the Frontend's SYN); the SYN-ACK of the   *)
(* kernel turns it into a difference in flow_map, which is subtracted from *)
(* every sequence number going out and added to every acknowledgement      *)
(* coming in.  Numbers are modulo SeqSpace (2^32 in the code).  Only the   *)
(* server's side of the numbering is translated and modelled.  Checksums   *)
(* and header parsing are left out.  The kernel's TCP (sock) is external.  *)
(***************************************************************************)
EXTENDS Integers, FiniteSets

CONSTANTS
    Key,          \* client endpoints
    SeqSpace,     \* number of sequence numbers
    max_entries,  \* capacity of each of the two maps
    MaxSent,      \* bound on the bytes the backend sends per connection
    NULL

ASSUME SeqSpaceAssumption == SeqSpace \in Nat \ {0}
ASSUME LimitAssumption == max_entries \in Nat /\ MaxSent \in Nat

Seqno == 0..(SeqSpace - 1)

VARIABLES
    seq_map,   \* key -> f_seq
    flow_map,  \* key -> diff
    sock,      \* key -> the kernel's socket, or NULL
    last,      \* the packet handled last, as it leaves the agent
    broken     \* history: what the current connection of a key met when its
               \* SYN or SYN-ACK passed the agent

vars == <<seq_map, flow_map, sock, last, broken>>

\* isn: the kernel's initial number; f_seq: the number the SYN announced.
\* Byte i of the stream is isn + i for the kernel and f_seq + i for the client.
sock_t == [isn : Seqno, f_seq : Seqno, sent : 0..MaxSent,
           state : {"SYN_RECV", "ANSWERED", "OPEN"}]

\* A diff left over from an earlier connection, a second SYN announcing another
\* number, a full map.
Reasons == {"leftover", "renumbered", "full"}

packet_t == [key : Key, dir : {"in", "out"}, off : 0..(MaxSent + 1),
             num : Seqno, sack : SUBSET Seqno, edges : SUBSET (0..(MaxSent + 1))]

Init ==
    /\ seq_map = [k \in Key |-> NULL]
    /\ flow_map = [k \in Key |-> NULL]
    /\ sock = [k \in Key |-> NULL]
    /\ last = NULL
    /\ broken = [k \in Key |-> {}]

-----------------------------------------------------------------------------
Plus(a, b)  == (a + b) % SeqSpace
Minus(a, b) == (a - b) % SeqSpace

\* Faulty variant: BPF_NOEXIST, an existing entry is kept.
bpf_map_update_elem_NoExist(map, k, v) ==
    IF map[k] = NULL /\ Cardinality({l \in Key : map[l] # NULL}) < max_entries
    THEN [map EXCEPT ![k] = v] ELSE map

\* BPF_ANY: overwrites; a new key is refused when the map is full.
bpf_map_update_elem(map, k, v) ==
    IF map[k] # NULL \/ Cardinality({l \in Key : map[l] # NULL}) < max_entries
    THEN [map EXCEPT ![k] = v] ELSE map

\* ingress_xdp_prog on an acknowledgement number or a SACK edge.
ingress_num(k, n) == IF flow_map[k] = NULL THEN n ELSE Plus(n, flow_map[k])

\* Faulty variant: the difference is not reduced to 32 bits.
egress_num_Wide(k, n) == IF flow_map[k] = NULL THEN n ELSE n - flow_map[k]

\* egress_tc_prog on a sequence number.
egress_num(k, n) == IF flow_map[k] = NULL THEN n ELSE Minus(n, flow_map[k])

-----------------------------------------------------------------------------
\* The Frontend's SYN, announcing f_seq = v.  A diff, once there, keeps the
\* agent from looking at the SYN.  The kernel opens a socket with a number of
\* its own choice, or answers for the socket it has.
Syn(k, v) ==
    /\ seq_map' = IF flow_map[k] = NULL THEN bpf_map_update_elem(seq_map, k, v)
                  ELSE seq_map
    /\ IF sock[k] = NULL
       THEN \E isn \in Seqno :
               sock' = [sock EXCEPT ![k] =
                          [isn |-> isn, f_seq |-> v, sent |-> 0,
                           state |-> "SYN_RECV"]]
       ELSE sock' = [sock EXCEPT ![k].f_seq = IF sock[k].state = "OPEN" THEN @ ELSE v]
    /\ broken' = [broken EXCEPT ![k] =
          {x \in @ : sock[k] # NULL} \cup
          {x \in Reasons :
             \/ x = "leftover" /\ flow_map[k] # NULL /\ sock[k] = NULL
             \/ /\ x = "renumbered" /\ flow_map[k] # NULL /\ sock[k] # NULL
                /\ sock'[k].f_seq # sock[k].f_seq
             \/ x = "full" /\ flow_map[k] = NULL /\ seq_map'[k] = NULL}]
    /\ last' = NULL
    /\ UNCHANGED flow_map

\* The kernel's SYN-ACK, first sent or retransmitted.
SynAck(k) ==
    /\ sock[k] # NULL /\ sock[k].state # "OPEN"
    /\ sock' = [sock EXCEPT ![k].state = "ANSWERED"]
    /\ flow_map' = IF flow_map[k] = NULL /\ seq_map[k] # NULL
                   THEN bpf_map_update_elem(flow_map, k,
                                            Minus(sock[k].isn, seq_map[k]))
                   ELSE flow_map
    /\ broken' = IF flow_map'[k] = NULL THEN [broken EXCEPT ![k] = @ \cup {"full"}]
                 ELSE broken
    /\ last' = NULL
    /\ UNCHANGED seq_map

\* A RST coming in.  The maps stay as they are: every path through the option
\* parsing leaves the diff branch before the code that clears them.
Rst(k) ==
    /\ sock' = [sock EXCEPT ![k] = NULL]
    /\ last' = NULL
    /\ UNCHANGED <<seq_map, flow_map, broken>>

\* A RST sent by the kernel: the application aborts, or a segment arrived
\* for no socket.
EgressRst(k) ==
    /\ IF flow_map[k] # NULL
       THEN /\ flow_map' = [flow_map EXCEPT ![k] = NULL]
            /\ seq_map' = [seq_map EXCEPT ![k] = NULL]
       ELSE UNCHANGED <<flow_map, seq_map>>
    /\ sock' = [sock EXCEPT ![k] = NULL]
    /\ last' = NULL
    /\ UNCHANGED broken

\* A segment of the client acknowledging everything before byte o, with
\* SACK blocks that have the given edges.  The first one, which the Frontend
\* sends when it has seen the SYN-ACK, opens the socket if it acknowledges
\* exactly the SYN (otherwise the kernel answers with a RST: EgressRst).
\* ingress_xdp finds SACK only as the first option or behind one or two NOPs;
\* it always is there, for the switch's SYN-ACK offers the client no timestamps
\* or other option that would come before it.
Ack(k, o, edges) ==
    /\ sock[k] # NULL
    /\ IF sock[k].state = "OPEN"
       THEN o \in 1..(sock[k].sent + 1) /\ edges \subseteq o..(sock[k].sent + 1)
       ELSE sock[k].state = "ANSWERED" /\ o = 1 /\ edges = {}
    /\ LET ack == ingress_num(k, Plus(sock[k].f_seq, o)) IN
       /\ last' = [key |-> k, dir |-> "in", off |-> o, num |-> ack,
                   sack |-> {ingress_num(k, Plus(sock[k].f_seq, e)) : e \in edges},
                   edges |-> edges]
       /\ sock' = [sock EXCEPT ![k].state =
                      IF ack = Plus(sock[k].isn, 1) THEN "OPEN" ELSE @]
    /\ UNCHANGED <<seq_map, flow_map, broken>>

\* A segment of the backend, first sent or retransmitted, with byte o.
Segment(k, o) ==
    /\ sock[k] # NULL /\ sock[k].state = "OPEN"
    /\ o \in 1..(sock[k].sent + 1)
    /\ o <= MaxSent
    /\ sock' = [sock EXCEPT ![k].sent = IF o > @ THEN o ELSE @]
    /\ last' = [key |-> k, dir |-> "out", off |-> o,
                num |-> egress_num(k, Plus(sock[k].isn, o)),
                sack |-> {}, edges |-> {}]
    /\ UNCHANGED <<seq_map, flow_map, broken>>

Next ==
    \E k \in Key :
        \/ \E v \in Seqno : Syn(k, v)
        \/ SynAck(k) \/ Rst(k) \/ EgressRst(k)
        \/ \E o \in 1..(MaxSent + 1), edges \in SUBSET (1..(MaxSent + 1)) :
              Cardinality(edges) \in {0, 2} /\ Ack(k, o, edges)
        \/ \E o \in 1..MaxSent : Segment(k, o)

Spec == Init /\ [][Next]_vars

-----------------------------------------------------------------------------
(* Properties.                                                             *)

\* Every variable has its type.
TypeOK ==
    /\ seq_map \in [Key -> Seqno \cup {NULL}]
    /\ flow_map \in [Key -> Seqno \cup {NULL}]
    /\ sock \in [Key -> sock_t \cup {NULL}]
    /\ last \in packet_t \cup {NULL}
    /\ broken \in [Key -> SUBSET Reasons]

\* The number a packet carries when it leaves the agent is the receiver's
\* number of the byte the sender meant, across wrap-around, retransmission
\* and SACK: byte i of the stream is f_seq + i for the client and isn + i for
\* the kernel.
Exact(p) ==
    LET base == IF p.dir = "out" THEN sock[p.key].f_seq ELSE sock[p.key].isn IN
    /\ p.num = Plus(base, p.off)
    /\ p.sack = {Plus(base, e) : e \in p.edges}

\* A connection whose SYN met no diff of an earlier connection, was sent with
\* one number only and found room in the maps is spliced exactly, whatever
\* earlier connections of the same client endpoint left in seq_map.
SpliceExact == last # NULL /\ broken[last.key] = {} => Exact(last)

\* A connection is spliced exactly also when the client endpoint has had one
\* before: when a RST ended that one, in either direction, the agent cleared
\* what it knew of it.
SpliceAfterRst ==
    last # NULL /\ broken[last.key] \subseteq {"leftover"} => Exact(last)
=============================================================================
