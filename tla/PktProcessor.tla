---------------------------- MODULE PktProcessor ----------------------------
(***************************************************************************)
(* The packet workers of the Frontend:                                     *)
(* Frontend/subprojects/pkt_processor/pkt_processor.cpp.                   *)
(*                                                                         *)
(* Every worker polls its own rx queue and runs process_pkts on what it    *)
(* receives.  flow_hash_map, the flow_data_t objects and the two offload   *)
(* queues are shared by all workers; libcuckoo's find copies out a raw     *)
(* pointer, which the worker dereferences after the bucket lock is gone.   *)
(* A packet is therefore handled in steps: Rx (parse, find by source),     *)
(* LookupDst (find by destination) and the case of the switch the flow's   *)
(* state selects.  flow_data_t has no lock: a case that checks or changes  *)
(* its flow may run in parts with other workers on the same flow in        *)
(* between (Begin and the parts that follow it), or in one step (Handle),  *)
(* which is how it looks when nobody comes in between.                     *)
(*                                                                         *)
(* Abstractions.  Packets of a burst are handled one by one; their replies *)
(* leave in order at the end of the burst.  Sequence numbers of replies    *)
(* and link-layer fields are left out.  d_index_map and the virtual        *)
(* server's address are taken as received from the switch.                 *)
(* Memory: rte_free zeroes the block, so a stale pointer reads state INIT  *)
(* (no case of either switch) until rte_malloc hands the block out again.  *)
(***************************************************************************)
EXTENDS FlowData

VARIABLES
    flow_hash_map,  \* key -> address of its flow_data_t, or NULL
    heap,           \* address -> contents
    live,           \* addresses allocated and not freed
    worker,         \* worker -> position, packet in hand, flow_data pointer,
                    \* what is left of a case that runs in parts
    send_pkts,      \* replies produced for the packet handled last
    add_queue,      \* worker -> its sub-queue of add commands
    del_queue,      \* worker -> its sub-queue of del commands
    rule_map,       \* rule_controller_t's url -> my_data_t
    cmd,            \* history: number of commands issued per key
    aborted,        \* history: SynAbort has left a key mapped to freed memory
    raced,          \* history: a flow was freed under another worker's pointer
    mingled         \* history: keys of flows with a case that ran in parts

memory  == <<flow_hash_map, heap, live, aborted, raced, mingled>>
queues  == <<add_queue, del_queue>>
vars    == <<flow_hash_map, heap, live, worker, send_pkts, add_queue,
             del_queue, rule_map, cmd, aborted, raced, mingled>>

Idle   == [at |-> "idle", pkt |-> NULL, ptr |-> NULL, part |-> NULL]
Zeroed == [state |-> "INIT", entry_data |-> NULL, recv_pkt |-> NULL]

\* Destination written by send_rst_pkt: the host-order address and port go
\* into the header unconverted, which names some other endpoint.
Unconverted(d) == <<"host order", d>>

reply_t == [src : Endpoint,
            dst : Endpoint \cup {Unconverted(d) : d \in DIndex},
            flags : SUBSET {"SYN", "ACK", "FIN", "RST"},
            url : Url \cup {NULL}]

\* The next part of a case, the replies it has built, and its local copy of
\* a rule.
part_t == [next : {"check", "erase", "leave", "state", "rule", "free", "cache",
                   "toggle", "add", "del", "answer", "offer", "replay"},
           replies : Seq(reply_t), data : my_data_t]

worker_t == {Idle} \cup
    [at : {"src", "dst"}, pkt : packet_t, ptr : Addr \cup {NULL},
     part : part_t \cup {NULL}]

Init ==
    /\ flow_hash_map = [k \in Endpoint |-> NULL]
    /\ heap = [a \in Addr |-> Zeroed]
    /\ live = {}
    /\ worker = [w \in Worker |-> Idle]
    /\ send_pkts = <<>>
    /\ add_queue = [w \in Worker |-> <<>>]
    /\ del_queue = [w \in Worker |-> <<>>]
    /\ rule_map = [u \in Url |-> NULL]
    /\ cmd = [k \in Endpoint |-> 0]
    /\ aborted = FALSE
    /\ raced = FALSE
    /\ mingled = {}

-----------------------------------------------------------------------------
(* The packet builders.                                                    *)

Header(s, d, f, u) == [src |-> s, dst |-> d, flags |-> f, url |-> u]

forward_inbound_pkt(d, p)  == Header(p.src, d, p.flags, p.url)
forward_outbound_pkt(p)    == Header(VIP, p.dst, p.flags, p.url)
reply_rst_pkt(p)           == Header(p.dst, p.src, {"RST"}, NULL)
send_rst_pkt(d, p)         == Header(p.src, Unconverted(d), {"RST"}, NULL)
send_cached_pkt(d, cached) == Header(cached.src, d, cached.flags, cached.url)
send_syn_pkt(d, p)         == Header(p.src, d, {"SYN"}, NULL)

AsRst(p) == [p EXCEPT !.flags = {"RST"}]

-----------------------------------------------------------------------------
(* Steps shared by the handlers.                                           *)

pkt(w)  == worker[w].pkt
flow(w) == heap[worker[w].ptr]
key(w)  == IF worker[w].at = "src" THEN pkt(w).src ELSE pkt(w).dst

\* The worker is in the switch of the src (dst) lookup, in one of the cases.
In(w, at, cases) ==
    /\ worker[w].at = at
    /\ worker[w].ptr # NULL
    /\ flow(w).state \in cases

\* The lookup failed, or the flow's state is no case of the switch.
NoCase(w, at) ==
    /\ worker[w].at = at
    /\ worker[w].ptr # NULL => flow(w).state = "INIT"

\* Faulty variant: the packet and the pointer in hand are not reset.
Done_KeepsPtr(w, replies) ==
    /\ worker' = [worker EXCEPT ![w].at = "idle"]
    /\ send_pkts' = replies
    /\ UNCHANGED rule_map

Done(w, replies) ==
    /\ worker' = [worker EXCEPT ![w] = Idle]
    /\ send_pkts' = replies
    /\ UNCHANGED rule_map

EnqueueAdd(w, k, d) ==
    /\ add_queue' = [add_queue EXCEPT ![w] =
                        Append(@, [key |-> k, d_index |-> d, n |-> cmd[k] + 1])]
    /\ cmd' = [cmd EXCEPT ![k] = @ + 1]
    /\ UNCHANGED del_queue

EnqueueDel(w, k) ==
    /\ del_queue' = [del_queue EXCEPT ![w] =
                        Append(@, [key |-> k, n |-> cmd[k] + 1])]
    /\ cmd' = [cmd EXCEPT ![k] = @ + 1]
    /\ UNCHANGED add_queue

NoCommand == UNCHANGED <<add_queue, del_queue, cmd>>

\* Faulty variant: the test of the state is inverted.
DelIfOffloaded_Inverted(w) ==
    IF flow(w).state # "OFFLOAD" THEN EnqueueDel(w, key(w)) ELSE NoCommand

DelIfOffloaded(w) ==
    IF flow(w).state = "OFFLOAD" THEN EnqueueDel(w, key(w)) ELSE NoCommand

\* rte_free: zeroes the block; on a block that is not allocated it only
\* logs an error.
Free(w) ==
    LET a == worker[w].ptr IN
    /\ heap' = IF a \in live THEN [heap EXCEPT ![a] = Zeroed] ELSE heap
    /\ live' = live \ {a}
    /\ raced' = (raced \/ \E v \in Worker \ {w} : worker[v].ptr = a)

\* Faulty variant: the key is not erased.
Teardown_NoErase(w, replies) ==
    /\ DelIfOffloaded(w)
    /\ Free(w)
    /\ Done(w, replies)
    /\ UNCHANGED <<flow_hash_map, aborted, mingled>>

\* Faulty variant: the flow is not freed.
Teardown_NoFree(w, replies) ==
    /\ DelIfOffloaded(w)
    /\ flow_hash_map' = [flow_hash_map EXCEPT ![key(w)] = NULL]
    /\ Done(w, replies)
    /\ UNCHANGED <<heap, live, aborted, raced, mingled>>

Teardown(w, replies) ==
    /\ DelIfOffloaded(w)
    /\ flow_hash_map' = [flow_hash_map EXCEPT ![key(w)] = NULL]
    /\ Free(w)
    /\ Done(w, replies)
    /\ UNCHANGED <<aborted, mingled>>

\* flow_data's fields are overwritten in place.
SetFlow(w, fd) ==
    /\ heap' = [heap EXCEPT ![worker[w].ptr] = fd]
    /\ UNCHANGED <<flow_hash_map, live, aborted, raced, mingled>>

lookup_balancing_rule(u) == rule_map[u]

-----------------------------------------------------------------------------
(* process_pkts: receive and the two lookups.                              *)

\* rx_burst on the queue RSS chose, then find(src_key).
Rx(w, p) ==
    /\ worker[w] = Idle
    /\ Rss[<<p.src, p.dst>>] = w
    /\ cmd[p.src] < MaxCmd /\ cmd[p.dst] < MaxCmd
    /\ worker' = [worker EXCEPT ![w] =
                    [at |-> "src", pkt |-> p, ptr |-> flow_hash_map[p.src],
                     part |-> NULL]]
    /\ send_pkts' = <<>>
    /\ UNCHANGED <<memory, queues, rule_map, cmd>>

\* find(dst_key), when the src switch was not entered or fell through.
LookupDst(w) ==
    /\ NoCase(w, "src")
    /\ worker' = [worker EXCEPT ![w].at = "dst",
                                ![w].ptr = flow_hash_map[pkt(w).dst]]
    /\ UNCHANGED <<memory, send_pkts, queues, rule_map, cmd>>

-----------------------------------------------------------------------------
(* A flow was found under the source: a packet from the client.            *)

Established == {"COMPLETE", "OFFLOAD"}

SrcReset(w) ==
    /\ In(w, "src", Established)
    /\ "RST" \in pkt(w).flags
    /\ Teardown(w, <<forward_inbound_pkt(flow(w).entry_data.d_index, pkt(w))>>)

\* Faulty variant: the client is not answered.
SrcFin_NoReply(w) ==
    /\ In(w, "src", Established)
    /\ "FIN" \in pkt(w).flags /\ "RST" \notin pkt(w).flags
    /\ Teardown(w, <<forward_inbound_pkt(flow(w).entry_data.d_index,
                                         AsRst(pkt(w)))>>)

SrcFin(w) ==
    /\ In(w, "src", Established)
    /\ "FIN" \in pkt(w).flags /\ "RST" \notin pkt(w).flags
    /\ Teardown(w, <<reply_rst_pkt(pkt(w)),
                     forward_inbound_pkt(flow(w).entry_data.d_index,
                                         AsRst(pkt(w)))>>)

SrcPayload(w) ==
    /\ In(w, "src", Established)
    /\ pkt(w).flags \cap {"RST", "FIN"} = {}
    /\ pkt(w).url # NULL

\* No rule for the url: the packet is dropped.
SrcNoRule(w) ==
    /\ SrcPayload(w)
    /\ lookup_balancing_rule(pkt(w).url) = NULL
    /\ Done(w, <<>>)
    /\ NoCommand
    /\ UNCHANGED memory

\* Faulty variant: the entry in the switch is not taken back.
SrcReroute_NoDel(w) ==
    /\ SrcPayload(w)
    /\ LET new_data == lookup_balancing_rule(pkt(w).url)
           d        == flow(w).entry_data.d_index
       IN /\ new_data # NULL
          /\ new_data.d_index # d
          /\ NoCommand
          /\ SetFlow(w, [state |-> "BACKEND_SYN", entry_data |-> new_data,
                         recv_pkt |-> pkt(w)])
          /\ Done(w, <<send_rst_pkt(d, pkt(w)),
                       send_syn_pkt(new_data.d_index, pkt(w))>>)

\* Faulty variant: the flow keeps its rule, only the request is replaced.
SrcReroute_KeepsRule(w) ==
    /\ SrcPayload(w)
    /\ LET new_data == lookup_balancing_rule(pkt(w).url)
           d        == flow(w).entry_data.d_index
       IN /\ new_data # NULL
          /\ new_data.d_index # d
          /\ DelIfOffloaded(w)
          /\ SetFlow(w, [flow(w) EXCEPT !.state = "BACKEND_SYN", !.recv_pkt = pkt(w)])
          /\ Done(w, <<send_rst_pkt(d, pkt(w)),
                       send_syn_pkt(new_data.d_index, pkt(w))>>)

\* The rule names another backend: reset the old one, open the new one.
SrcReroute(w) ==
    /\ SrcPayload(w)
    /\ LET new_data == lookup_balancing_rule(pkt(w).url)
           d        == flow(w).entry_data.d_index
       IN /\ new_data # NULL
          /\ new_data.d_index # d
          /\ DelIfOffloaded(w)
          /\ SetFlow(w, [state |-> "BACKEND_SYN", entry_data |-> new_data,
                         recv_pkt |-> pkt(w)])
          /\ Done(w, <<send_rst_pkt(d, pkt(w)),
                       send_syn_pkt(new_data.d_index, pkt(w))>>)

\* The rule names the same backend: forward, and follow its offload_flag.
SrcSameBackend(w) ==
    /\ SrcPayload(w)
    /\ LET new_data == lookup_balancing_rule(pkt(w).url)
           fd       == flow(w)
           d        == fd.entry_data.d_index
       IN /\ new_data # NULL
          /\ new_data.d_index = d
          /\ Done(w, <<forward_inbound_pkt(d, pkt(w))>>)
          /\ \/ /\ fd.state = "COMPLETE" /\ new_data.offload_flag
                /\ SetFlow(w, [fd EXCEPT !.state = "OFFLOAD"])
                /\ EnqueueAdd(w, key(w), d)
             \/ /\ fd.state = "OFFLOAD" /\ ~new_data.offload_flag
                /\ SetFlow(w, [fd EXCEPT !.state = "COMPLETE"])
                /\ EnqueueDel(w, key(w))
             \/ /\ new_data.offload_flag <=> fd.state = "OFFLOAD"
                /\ NoCommand
                /\ UNCHANGED memory

SrcForward(w) ==
    /\ In(w, "src", Established)
    /\ pkt(w).flags \cap {"RST", "FIN"} = {}
    /\ pkt(w).url = NULL
    /\ Done(w, <<forward_inbound_pkt(flow(w).entry_data.d_index, pkt(w))>>)
    /\ NoCommand
    /\ UNCHANGED memory

\* FIN or RST while the backend handshake is pending: the flow is freed, its
\* key stays in flow_hash_map.
SynAbort(w) ==
    /\ In(w, "src", {"BACKEND_SYN"})
    /\ pkt(w).flags \cap {"RST", "FIN"} # {}
    /\ Free(w)
    /\ aborted' = TRUE
    /\ Done(w, <<reply_rst_pkt(pkt(w))>>)
    /\ NoCommand
    /\ UNCHANGED <<flow_hash_map, mingled>>

\* Faulty variant: the retransmission is forwarded to the backend.
SynRetry_Forwards(w) ==
    /\ In(w, "src", {"BACKEND_SYN"})
    /\ pkt(w).flags \cap {"RST", "FIN"} = {}
    /\ Done(w, <<forward_inbound_pkt(flow(w).entry_data.d_index, pkt(w))>>)
    /\ NoCommand
    /\ UNCHANGED memory

\* Faulty variant: the retransmission is dropped.
SynRetry_Silent(w) ==
    /\ In(w, "src", {"BACKEND_SYN"})
    /\ pkt(w).flags \cap {"RST", "FIN"} = {}
    /\ Done(w, <<>>)
    /\ NoCommand
    /\ UNCHANGED memory

\* A retransmission of the cached request repeats the SYN; anything else
\* from the client is dropped until the backend answers.
SynRetry(w) ==
    /\ In(w, "src", {"BACKEND_SYN"})
    /\ pkt(w).flags \cap {"RST", "FIN"} = {}
    /\ Done(w, IF flow(w).recv_pkt.seq = pkt(w).seq
               THEN <<send_syn_pkt(flow(w).entry_data.d_index, pkt(w))>>
               ELSE <<>>)
    /\ NoCommand
    /\ UNCHANGED memory

-----------------------------------------------------------------------------
(* A flow was found under the destination: a packet from the backend.      *)

SynAckIgnored(w) ==
    /\ In(w, "dst", {"BACKEND_SYN"})
    /\ pkt(w).flags # {"SYN", "ACK"}
    /\ Done(w, <<>>)
    /\ NoCommand
    /\ UNCHANGED memory

SynAck(w) ==
    /\ In(w, "dst", {"BACKEND_SYN"})
    /\ pkt(w).flags = {"SYN", "ACK"}
    /\ LET fd == flow(w)
           d  == fd.entry_data.d_index
       IN /\ IF fd.entry_data.offload_flag
             THEN /\ SetFlow(w, [fd EXCEPT !.state = "OFFLOAD"])
                  /\ EnqueueAdd(w, key(w), d)
             ELSE /\ SetFlow(w, [fd EXCEPT !.state = "COMPLETE"])
                  /\ NoCommand
          /\ Done(w, <<send_cached_pkt(d, fd.recv_pkt)>>)

DstReset(w) ==
    /\ In(w, "dst", Established)
    /\ "RST" \in pkt(w).flags
    /\ Teardown(w, <<forward_outbound_pkt(pkt(w))>>)

DstFin(w) ==
    /\ In(w, "dst", Established)
    /\ "FIN" \in pkt(w).flags /\ "RST" \notin pkt(w).flags
    /\ Teardown(w, <<reply_rst_pkt(pkt(w)),
                     forward_outbound_pkt(AsRst(pkt(w)))>>)

DstForward(w) ==
    /\ In(w, "dst", Established)
    /\ pkt(w).flags \cap {"RST", "FIN"} = {}
    /\ Done(w, <<forward_outbound_pkt(pkt(w))>>)
    /\ NoCommand
    /\ UNCHANGED memory

-----------------------------------------------------------------------------
(* No flow: a payload with a rule opens one; anything else is dropped.     *)

NewFlowDropped(w) ==
    /\ NoCase(w, "dst")
    /\ pkt(w).url # NULL => lookup_balancing_rule(pkt(w).url) = NULL
    /\ Done(w, <<>>)
    /\ NoCommand
    /\ UNCHANGED memory

\* Faulty variant: the flow is filed under dst_key.
NewFlow_DstKey(w) ==
    /\ NoCase(w, "dst")
    /\ pkt(w).url # NULL
    /\ LET new_data == lookup_balancing_rule(pkt(w).url)
       IN /\ new_data # NULL
          /\ \E a \in Addr \ live :
                /\ heap' = [heap EXCEPT ![a] = [state |-> "BACKEND_SYN",
                                                entry_data |-> new_data,
                                                recv_pkt |-> pkt(w)]]
                /\ live' = live \cup {a}
                /\ flow_hash_map' = [flow_hash_map EXCEPT ![pkt(w).dst] =
                                        IF @ = NULL THEN a ELSE @]
          /\ Done(w, <<send_syn_pkt(new_data.d_index, pkt(w))>>)
          /\ NoCommand
          /\ UNCHANGED <<aborted, raced, mingled>>

\* libcuckoo's insert leaves an existing entry as it is.
NewFlow(w) ==
    /\ NoCase(w, "dst")
    /\ pkt(w).url # NULL
    /\ LET new_data == lookup_balancing_rule(pkt(w).url)
       IN /\ new_data # NULL
          /\ \E a \in Addr \ live :
                /\ heap' = [heap EXCEPT ![a] = [state |-> "BACKEND_SYN",
                                                entry_data |-> new_data,
                                                recv_pkt |-> pkt(w)]]
                /\ live' = live \cup {a}
                /\ flow_hash_map' = [flow_hash_map EXCEPT ![pkt(w).src] =
                                        IF @ = NULL THEN a ELSE @]
          /\ Done(w, <<send_syn_pkt(new_data.d_index, pkt(w))>>)
          /\ NoCommand
          /\ UNCHANGED <<aborted, raced, mingled>>

-----------------------------------------------------------------------------
(* The cases that check or change their flow, run in parts.  Every part    *)
(* reads and writes what it finds: another worker may have been there      *)
(* since the last one.  With a single worker nobody can have been.         *)

part(w) == worker[w].part

\* The worker has entered a case: the state has been read.
Begin(w, next, replies, data) ==
    /\ Worker # {w}
    /\ worker' = [worker EXCEPT ![w].part =
                    [next |-> next, replies |-> replies, data |-> data]]
    /\ mingled' = mingled \cup {key(w)}
    /\ NoCommand
    /\ UNCHANGED <<flow_hash_map, heap, live, aborted, raced, send_pkts, rule_map>>

\* What SrcReset, SrcFin, DstReset and DstFin send.
LastWords(w) ==
    LET d == flow(w).entry_data.d_index
        Forward(p) == IF worker[w].at = "src" THEN forward_inbound_pkt(d, p)
                                              ELSE forward_outbound_pkt(p)
    IN  IF "RST" \in pkt(w).flags THEN <<Forward(pkt(w))>>
        ELSE <<reply_rst_pkt(pkt(w)), Forward(AsRst(pkt(w)))>>

BeginTeardown(w) ==
    /\ In(w, worker[w].at, Established)
    /\ pkt(w).flags \cap {"RST", "FIN"} # {}
    /\ Begin(w, "check", LastWords(w), flow(w).entry_data)

BeginPayload(w) ==
    /\ SrcPayload(w)
    /\ LET new_data == lookup_balancing_rule(pkt(w).url)
           d        == flow(w).entry_data.d_index
       IN /\ new_data # NULL
          /\ IF new_data.d_index # d
             THEN Begin(w, "leave", <<send_rst_pkt(d, pkt(w)),
                                      send_syn_pkt(new_data.d_index, pkt(w))>>,
                        new_data)
             ELSE Begin(w, "toggle", <<forward_inbound_pkt(d, pkt(w))>>, new_data)

BeginSynAck(w) ==
    /\ In(w, "dst", {"BACKEND_SYN"})
    /\ pkt(w).flags = {"SYN", "ACK"}
    /\ Begin(w, "answer", <<>>, flow(w).entry_data)

\* The next part of the case, on a flow that has not been freed.
At(w, next) ==
    /\ part(w) # NULL /\ part(w).next = next
    /\ In(w, worker[w].at, {"BACKEND_SYN", "OFFLOAD", "COMPLETE"})

GoOn(w, next) ==
    /\ worker' = [worker EXCEPT ![w].part.next = next]
    /\ UNCHANGED <<send_pkts, rule_map>>

\* Teardown, and the first part of SrcReroute.
TakeBack(w, next) == DelIfOffloaded(w) /\ GoOn(w, next) /\ UNCHANGED memory

CheckPart(w) == At(w, "check") /\ TakeBack(w, "erase")

\* erase, rte_free: what other workers hold they have found before.
ErasePart(w) ==
    /\ At(w, "erase")
    /\ flow_hash_map' = [flow_hash_map EXCEPT ![key(w)] = NULL]
    /\ Free(w)
    /\ Done(w, part(w).replies)
    /\ NoCommand
    /\ UNCHANGED <<aborted, mingled>>

\* SrcReroute: state, entry_data and recv_pkt one after the other.
LeavePart(w) == At(w, "leave") /\ TakeBack(w, "state")

Write(w, fd, next) == SetFlow(w, fd) /\ GoOn(w, next) /\ NoCommand

StatePart(w) ==
    At(w, "state") /\ Write(w, [flow(w) EXCEPT !.state = "BACKEND_SYN"], "rule")

RulePart(w) ==
    At(w, "rule") /\ Write(w, [flow(w) EXCEPT !.entry_data = part(w).data], "free")

\* recv_pkt points to a freed buffer, in which the request of any flow may be
\* put before the pointer is replaced.
FreePart(w) ==
    /\ At(w, "free")
    /\ \E p \in Packet : /\ p.url # NULL
                        /\ Write(w, [flow(w) EXCEPT !.recv_pkt = p], "cache")

CachePart(w) ==
    /\ At(w, "cache")
    /\ SetFlow(w, [flow(w) EXCEPT !.recv_pkt = pkt(w)])
    /\ Done(w, part(w).replies)
    /\ NoCommand

\* SrcSameBackend.
TogglePart(w) ==
    LET flag == part(w).data.offload_flag
        s    == flow(w).state
    IN
    /\ At(w, "toggle")
    /\ \/ /\ s = "COMPLETE" /\ flag
          /\ Write(w, [flow(w) EXCEPT !.state = "OFFLOAD"], "add")
       \/ /\ s = "OFFLOAD" /\ ~flag
          /\ Write(w, [flow(w) EXCEPT !.state = "COMPLETE"], "del")
       \/ /\ ~(s = "COMPLETE" /\ flag) /\ ~(s = "OFFLOAD" /\ ~flag)
          /\ Done(w, part(w).replies) /\ NoCommand /\ UNCHANGED memory

AddPart(w) ==
    /\ At(w, "add")
    /\ EnqueueAdd(w, key(w), flow(w).entry_data.d_index)
    /\ Done(w, part(w).replies)
    /\ UNCHANGED memory

DelPart(w) ==
    /\ At(w, "del")
    /\ EnqueueDel(w, key(w))
    /\ Done(w, part(w).replies)
    /\ UNCHANGED memory

\* SynAck: new_pair was copied when the case began.
AnswerPart(w) ==
    /\ At(w, "answer")
    /\ IF part(w).data.offload_flag
       THEN Write(w, [flow(w) EXCEPT !.state = "OFFLOAD"], "offer")
       ELSE Write(w, [flow(w) EXCEPT !.state = "COMPLETE"], "replay")

OfferPart(w) ==
    /\ At(w, "offer")
    /\ EnqueueAdd(w, key(w), part(w).data.d_index)
    /\ GoOn(w, "replay")
    /\ UNCHANGED memory

ReplayPart(w) ==
    /\ At(w, "replay")
    /\ Done(w, <<send_cached_pkt(flow(w).entry_data.d_index, flow(w).recv_pkt)>>)
    /\ NoCommand
    /\ UNCHANGED memory

\* The flow has been freed under the worker (raced): what its writes do to
\* the block is not followed.
LostPart(w) ==
    /\ part(w) # NULL
    /\ NoCase(w, worker[w].at)
    /\ Done(w, part(w).replies)
    /\ NoCommand
    /\ UNCHANGED memory

-----------------------------------------------------------------------------
\* UPDATE_RULE from the switch, one add_balancing_rule call.
UpdateRule(u) ==
    /\ rule_map[u] = NULL /\ Rules[u] # NULL
    /\ rule_map' = [rule_map EXCEPT ![u] = Rules[u]]
    /\ UNCHANGED <<memory, worker, send_pkts, queues, cmd>>

Handle(w) ==
    \/ LookupDst(w)
    \/ SrcReset(w) \/ SrcFin(w)
    \/ SrcNoRule(w) \/ SrcReroute(w) \/ SrcSameBackend(w) \/ SrcForward(w)
    \/ SynAbort(w) \/ SynRetry(w)
    \/ SynAckIgnored(w) \/ SynAck(w)
    \/ DstReset(w) \/ DstFin(w) \/ DstForward(w)
    \/ NewFlowDropped(w) \/ NewFlow(w)

Parts(w) ==
    \/ CheckPart(w) \/ ErasePart(w)
    \/ LeavePart(w) \/ StatePart(w) \/ RulePart(w) \/ FreePart(w) \/ CachePart(w)
    \/ TogglePart(w) \/ AddPart(w) \/ DelPart(w)
    \/ AnswerPart(w) \/ OfferPart(w) \/ ReplayPart(w)
    \/ LostPart(w)

\* A case runs in one step or in parts.
Run(w) ==
    \/ part(w) = NULL /\ Handle(w)
    \/ part(w) = NULL /\ (BeginTeardown(w) \/ BeginPayload(w) \/ BeginSynAck(w))
    \/ Parts(w)

Next ==
    \/ \E w \in Worker, p \in Packet : Rx(w, p)
    \/ \E w \in Worker : Run(w)
    \/ \E u \in Url : UpdateRule(u)

Spec == Init /\ [][Next]_vars

-----------------------------------------------------------------------------
(* Properties.                                                             *)

\* Every variable has its type.
TypeOK ==
    /\ flow_hash_map \in [Endpoint -> Addr \cup {NULL}]
    /\ heap \in [Addr -> flow_data_t]
    /\ live \subseteq Addr
    /\ worker \in [Worker -> worker_t]
    /\ send_pkts \in Seq(reply_t)
    /\ add_queue \in [Worker -> Seq(add_t)]
    /\ del_queue \in [Worker -> Seq(del_t)]
    /\ rule_map \in [Url -> my_data_t \cup {NULL}]
    /\ cmd \in [Endpoint -> Nat]
    /\ aborted \in BOOLEAN /\ raced \in BOOLEAN
    /\ mingled \subseteq Endpoint

\* Neither of the two known ways to reach freed memory has been taken.
Clean == ~aborted /\ ~raced

Mapped(k) == flow_hash_map[k] # NULL
FlowOf(k) == heap[flow_hash_map[k]]

Offloaded(k) == Mapped(k) /\ FlowOf(k).state = "OFFLOAD"

\* Unless SynAbort or a free under another worker's pointer has happened,
\* flow_hash_map never leads to freed memory, no two keys share a flow, and
\* the pointer a worker took from find is still the one filed under its key
\* when the worker dereferences it.
MemorySafe ==
    Clean =>
        /\ \A k \in Endpoint : Mapped(k) =>
                /\ flow_hash_map[k] \in live
                /\ FlowOf(k).state # "INIT"
        /\ \A k, l \in Endpoint :
                Mapped(k) /\ flow_hash_map[k] = flow_hash_map[l] => k = l
        /\ \A w \in Worker : worker[w].ptr # NULL =>
                worker[w].ptr = flow_hash_map[key(w)]

\* The request a flow keeps in recv_pkt, which SynAck replays to the backend,
\* was sent by the client the flow is filed under.  Excepted are the flows of
\* which SrcReroute ran in parts: while it replaces recv_pkt, other workers
\* find a freed buffer there.
CachedRequestIsOwn ==
    Clean => \A k \in Endpoint \ mingled :
                Mapped(k) => FlowOf(k).recv_pkt.src = k

\* The commands issued for a key alternate add, del, add, ...: every entry
\* asked for is taken back exactly once, when its flow leaves OFFLOAD by
\* whichever of the six paths does it, on whichever worker.  Excepted are the
\* flows two workers may have been inside at the same time: there is no lock,
\* so a flow can be offloaded between the check of Teardown and its erase, or
\* a del be issued between SynAck's change of the state and its add.
CommandsAlternate ==
    Clean => \A k \in Endpoint \ mingled : Offloaded(k) <=> cmd[k] % 2 = 1

\* A flow that is in any state but INIT has its rule and its cached request.
FlowsFilledIn ==
    \A a \in Addr : heap[a].state # "INIT" =>
        heap[a].entry_data # NULL /\ heap[a].recv_pkt # NULL

\* A case that runs in parts is on record.
PartsMingled == \A w \in Worker : part(w) # NULL => key(w) \in mingled

\* The inductive invariant behind the properties above.  MemInv is the part
\* that does not depend on how many commands have been issued.
MemInv ==
    /\ TypeOK
    /\ FlowsFilledIn
    /\ PartsMingled
    /\ MemorySafe
    /\ CachedRequestIsOwn

IInv == MemInv /\ CommandsAlternate

\* Every allocated flow_data_t is reachable from flow_hash_map (rte_free has
\* no other caller: what becomes unreachable is lost).
NoLeak ==
    Clean => \A a \in live : \E k \in Endpoint : flow_hash_map[k] = a

Resets(replies, to) ==
    \E i \in DOMAIN replies : replies[i].dst = to /\ "RST" \in replies[i].flags

\* When a packet of one of its two ends takes a flow out of flow_hash_map,
\* the step tells both: each is sent a packet with RST set, unless it is the
\* one whose RST was handled.  (An end does not send to itself.  The code
\* accepts the FIN or RST of any backend here, also of one the flow has been
\* rerouted away from; nothing is then sent to the flow's present backend.)
TellsBothEnds ==
    \A k \in Endpoint, w \in Worker :
        LET ends == {k, FlowOf(k).entry_data.d_index} IN
        /\ Clean /\ k \notin mingled
        /\ worker[w] # Idle /\ worker'[w] = Idle
        /\ Mapped(k) /\ flow_hash_map'[k] = NULL
        /\ pkt(w).src \in ends \ {pkt(w).dst}
        => \A end \in ends :
              \/ pkt(w).src = end /\ "RST" \in pkt(w).flags
              \/ Resets(send_pkts', end)

BothEndsReset == [][TellsBothEnds]_vars

\* A packet is only ever handled with a flow that is in a state the switch
\* of process_pkts has a case for.
ValidState ==
    \A w \in Worker : worker[w].ptr # NULL => flow(w).state # "INIT"
=============================================================================
