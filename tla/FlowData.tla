------------------------------ MODULE FlowData ------------------------------
(***************************************************************************)
(* The vocabulary shared by the Frontend modules (Frontend/flow_data.hpp,  *)
(* Frontend/my_config.hpp): endpoints, packets, balancing rules, the       *)
(* per-connection record and the offload commands sent to the switch.      *)
(*                                                                         *)
(* An endpoint stands for an (ip, port) pair; the key a flow is filed      *)
(* under, and the crc8 shard computed from it, are functions of that pair, *)
(* so the endpoint is the key.  The endpoint of a backend is identified    *)
(* with its d_index, which rule_controller_t maps to its address.          *)
(***************************************************************************)
EXTENDS Naturals, Sequences, FiniteSets

CONSTANTS
    Client,   \* client endpoints
    DIndex,   \* backend indices, each also the endpoint of that backend
    VIP,      \* the virtual server endpoint clients talk to
    Url,      \* first-line tokens a payload can carry
    Rules,    \* the balancing rules of the switch's configuration
    Addr,     \* addresses rte_malloc can return for a flow_data_t
    Worker,   \* pkt_processor_t threads, one per rx queue
    Rss,      \* receive side scaling: the rx queue of a (src, dst) pair
    Packet,   \* the packets that can reach the Frontend
    MaxCmd,   \* bound on offload commands per key
    NULL

Endpoint == Client \cup DIndex \cup {VIP}

\* enum flow_state
flow_state == {"INIT", "BACKEND_SYN", "OFFLOAD", "COMPLETE"}

my_data_t == [offload_flag : BOOLEAN, d_index : DIndex]

\* A received TCP packet.  url = NULL: no payload.
packet_t == [src : Endpoint, dst : Endpoint,
             flags : SUBSET {"SYN", "ACK", "FIN", "RST"},
             url : Url \cup {NULL}, seq : Nat]

flow_data_t == [state : flow_state, entry_data : my_data_t \cup {NULL},
                recv_pkt : packet_t \cup {NULL}]

(***************************************************************************)
(* my_pair_t (add) and my_key_t (del) as enqueued for the switch.  n is    *)
(* not in the program: it numbers the commands issued for one key, so that *)
(* properties can tell which command is the latest.                        *)
(***************************************************************************)
add_t == [key : Endpoint, d_index : DIndex, n : Nat]
del_t == [key : Endpoint, n : Nat]

ASSUME NullAssumption ==
    NULL \notin Endpoint \cup Url \cup Addr \cup my_data_t \cup packet_t

ASSUME EndpointAssumption ==
    Client \cap DIndex = {} /\ VIP \notin Client \cup DIndex

ASSUME RulesAssumption == Rules \in [Url -> my_data_t \cup {NULL}]

ASSUME RssAssumption == Rss \in [Endpoint \X Endpoint -> Worker]

ASSUME PacketAssumption == Packet \subseteq packet_t

\* l7lb_switch.p4 passes to the Frontend what is addressed to the virtual
\* server and what a backend sends; no rule is about the first line of a
\* response.
ASSUME TrafficAssumption ==
    \A p \in Packet :
        \/ p.dst = VIP
        \/ p.src \in DIndex /\ (p.url # NULL => Rules[p.url] = NULL)

ASSUME MaxCmdAssumption == MaxCmd \in Nat
=============================================================================
