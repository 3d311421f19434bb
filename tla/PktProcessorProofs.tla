------------------------- MODULE PktProcessorProofs -------------------------
(***************************************************************************)
(* Proofs about PktProcessor for any number of clients, backends, workers, *)
(* addresses, rules and packets.                                           *)
(***************************************************************************)
EXTENDS PktProcessor, TLAPS

\* The packet a busy worker holds is a packet, and its keys are endpoints.
LEMMA BusyWorker ==
    ASSUME TypeOK, NEW w \in Worker, worker[w] # Idle
    PROVE  /\ worker[w].at \in {"src", "dst"}
           /\ pkt(w) \in packet_t
           /\ worker[w].ptr \in Addr \cup {NULL}
           /\ key(w) \in Endpoint
           /\ key(w) = IF worker[w].at = "src" THEN pkt(w).src ELSE pkt(w).dst
BY DEF TypeOK, worker_t, packet_t, pkt, key

\* A zeroed block is a flow_data_t.
LEMMA ZeroedType == Zeroed \in flow_data_t
BY DEF Zeroed, flow_data_t, flow_state

\* Initially everything has its type and the maps are empty.
LEMMA InitIInv == Init => IInv
<1> SUFFICES ASSUME Init PROVE IInv
  OBVIOUS
<1>1. TypeOK
  <2>1. worker \in [Worker -> worker_t]
    BY DEF Init, worker_t
  <2>2. heap \in [Addr -> flow_data_t]
    BY ZeroedType DEF Init
  <2>3. aborted \in BOOLEAN /\ raced \in BOOLEAN
    BY DEF Init
  <2>4. /\ send_pkts \in Seq(reply_t)
        /\ add_queue \in [Worker -> Seq(add_t)]
        /\ del_queue \in [Worker -> Seq(del_t)]
    BY DEF Init
  <2> QED
    BY <2>1, <2>2, <2>3, <2>4 DEF Init, TypeOK
<1>2. \A k \in Endpoint : ~Mapped(k)
  BY DEF Init, Mapped
<1>3. FlowsFilledIn
  BY DEF Init, FlowsFilledIn, Zeroed
<1>4. MemorySafe
  BY <1>2 DEF Init, MemorySafe, Idle
<1>5. CachedRequestIsOwn /\ CommandsAlternate
  BY <1>2 DEF Init, CachedRequestIsOwn, CommandsAlternate, Offloaded
<1>6. PartsMingled
  BY DEF Init, PartsMingled, part, Idle
<1> QED
  BY <1>1, <1>3, <1>4, <1>5, <1>6 DEF IInv, MemInv

-----------------------------------------------------------------------------
(* Type correctness.                                                       *)

\* The packet builders produce well-formed replies.
LEMMA ReplyType ==
    ASSUME NEW p \in packet_t, NEW d \in DIndex
    PROVE  /\ forward_inbound_pkt(d, p) \in reply_t
           /\ forward_outbound_pkt(p) \in reply_t
           /\ reply_rst_pkt(p) \in reply_t
           /\ send_rst_pkt(d, p) \in reply_t
           /\ send_cached_pkt(d, p) \in reply_t
           /\ send_syn_pkt(d, p) \in reply_t
           /\ AsRst(p) \in packet_t
<1>1. d \in Endpoint /\ VIP \in Endpoint
  BY DEF Endpoint
<1>2. AsRst(p) \in packet_t
  BY DEF AsRst, packet_t
<1>3. Unconverted(d) \in {Unconverted(e) : e \in DIndex}
  OBVIOUS
<1>4. ASSUME NEW s \in Endpoint, NEW f \in SUBSET {"SYN", "ACK", "FIN", "RST"},
             NEW u \in Url \cup {NULL},
             NEW t \in Endpoint \cup {Unconverted(e) : e \in DIndex}
      PROVE  Header(s, t, f, u) \in reply_t
  BY DEF Header, reply_t
<1>5. /\ p.src \in Endpoint /\ p.dst \in Endpoint
      /\ p.flags \in SUBSET {"SYN", "ACK", "FIN", "RST"}
      /\ p.url \in Url \cup {NULL}
  BY DEF packet_t
<1> QED
  BY <1>1, <1>2, <1>3, <1>4, <1>5
  DEF forward_inbound_pkt, forward_outbound_pkt, reply_rst_pkt, send_rst_pkt,
      send_cached_pkt, send_syn_pkt

\* Finishing a packet.
LEMMA DoneType ==
    ASSUME TypeOK, NEW w \in Worker, NEW r \in Seq(reply_t), Done(w, r)
    PROVE  /\ worker' \in [Worker -> worker_t]
           /\ send_pkts' \in Seq(reply_t)
           /\ rule_map' \in [Url -> my_data_t \cup {NULL}]
BY DEF TypeOK, Done, worker_t

\* Issuing a command.
LEMMA CommandType ==
    ASSUME TypeOK, NEW w \in Worker, NEW k \in Endpoint, NEW d \in DIndex,
           EnqueueAdd(w, k, d) \/ EnqueueDel(w, k) \/ NoCommand
    PROVE  /\ add_queue' \in [Worker -> Seq(add_t)]
           /\ del_queue' \in [Worker -> Seq(del_t)]
           /\ cmd' \in [Endpoint -> Nat]
<1>1. CASE EnqueueAdd(w, k, d)
  <2>1. [key |-> k, d_index |-> d, n |-> cmd[k] + 1] \in add_t
    BY DEF TypeOK, add_t
  <2> QED
    BY <1>1, <2>1 DEF TypeOK, EnqueueAdd
<1>2. CASE EnqueueDel(w, k)
  <2>1. [key |-> k, n |-> cmd[k] + 1] \in del_t
    BY DEF TypeOK, del_t
  <2> QED
    BY <1>2, <2>1 DEF TypeOK, EnqueueDel
<1>3. CASE NoCommand
  BY <1>3 DEF TypeOK, NoCommand
<1> QED
  BY <1>1, <1>2, <1>3

\* Steps that leave the memory alone or write one well-formed flow.
LEMMA MemoryType ==
    ASSUME TypeOK, FlowsFilledIn, NEW w \in Worker, NEW fd \in flow_data_t,
           fd.entry_data # NULL, fd.recv_pkt # NULL,
           SetFlow(w, fd) \/ UNCHANGED memory
    PROVE  /\ flow_hash_map' \in [Endpoint -> Addr \cup {NULL}]
           /\ heap' \in [Addr -> flow_data_t]
           /\ live' \subseteq Addr
           /\ mingled' \subseteq Endpoint
           /\ FlowsFilledIn'
           /\ aborted' \in BOOLEAN /\ raced' \in BOOLEAN
<1>1. CASE SetFlow(w, fd)
  <2>1. aborted' \in BOOLEAN /\ raced' \in BOOLEAN
    BY <1>1 DEF TypeOK, SetFlow
  <2> QED
    BY <1>1, <2>1 DEF TypeOK, SetFlow, FlowsFilledIn
<1>2. CASE UNCHANGED memory
  <2>1. aborted' \in BOOLEAN /\ raced' \in BOOLEAN
    BY <1>2 DEF TypeOK, memory
  <2> QED
    BY <1>2, <2>1 DEF TypeOK, memory, FlowsFilledIn
<1> QED
  BY <1>1, <1>2

\* Freeing a flow.
LEMMA FreeType ==
    ASSUME TypeOK, FlowsFilledIn, NEW w \in Worker, Free(w)
    PROVE  /\ heap' \in [Addr -> flow_data_t]
           /\ live' \subseteq Addr
           /\ FlowsFilledIn'
           /\ raced' \in BOOLEAN
<1>1. raced' \in BOOLEAN
  BY DEF Free, TypeOK
<1>2. heap' \in [Addr -> flow_data_t] /\ live' \subseteq Addr
  BY ZeroedType DEF Free, TypeOK
<1>3. FlowsFilledIn'
  BY DEF Free, TypeOK, FlowsFilledIn, Zeroed
<1> QED
  BY <1>1, <1>2, <1>3

\* A worker inside one of the switches: its pointer leads to a filled-in flow.
LEMMA InFlow ==
    ASSUME TypeOK, FlowsFilledIn, NEW w \in Worker, NEW at \in {"src", "dst"},
           NEW cases \in SUBSET {"BACKEND_SYN", "OFFLOAD", "COMPLETE"},
           In(w, at, cases)
    PROVE  /\ worker[w] # Idle
           /\ worker[w].ptr \in Addr
           /\ pkt(w) \in packet_t
           /\ key(w) \in Endpoint
           /\ flow(w) \in flow_data_t
           /\ flow(w).entry_data \in my_data_t
           /\ flow(w).entry_data.d_index \in DIndex
           /\ flow(w).recv_pkt \in packet_t
<1>1. worker[w] # Idle
  BY DEF In, Idle
<1>2. worker[w].ptr \in Addr /\ pkt(w) \in packet_t /\ key(w) \in Endpoint
  BY <1>1, BusyWorker DEF In
<1>3. flow(w) \in flow_data_t /\ flow(w).state # "INIT"
  BY <1>2 DEF In, flow, TypeOK
<1>4. flow(w).entry_data # NULL /\ flow(w).recv_pkt # NULL
  BY <1>2, <1>3 DEF FlowsFilledIn, flow
<1>5. flow(w).entry_data \in my_data_t /\ flow(w).recv_pkt \in packet_t
  BY <1>3, <1>4 DEF flow_data_t
<1> QED
  BY <1>1, <1>2, <1>3, <1>5 DEF my_data_t

\* Tearing a flow down.
LEMMA TeardownType ==
    ASSUME TypeOK, FlowsFilledIn, NEW w \in Worker, worker[w] # Idle,
           NEW r \in Seq(reply_t), Teardown(w, r)
    PROVE  TypeOK' /\ FlowsFilledIn'
<1>1. key(w) \in Endpoint
  BY BusyWorker
<1>2. EnqueueDel(w, key(w)) \/ NoCommand
  BY DEF Teardown, DelIfOffloaded
<1>3. /\ add_queue' \in [Worker -> Seq(add_t)]
      /\ del_queue' \in [Worker -> Seq(del_t)]
      /\ cmd' \in [Endpoint -> Nat]
  <2>1. CASE EnqueueDel(w, key(w))
    <3>1. [key |-> key(w), n |-> cmd[key(w)] + 1] \in del_t
      BY <1>1 DEF TypeOK, del_t
    <3> QED
      BY <1>1, <2>1, <3>1 DEF TypeOK, EnqueueDel
  <2>2. CASE NoCommand
    BY <2>2 DEF TypeOK, NoCommand
  <2> QED
    BY <1>2, <2>1, <2>2
<1>4. flow_hash_map' \in [Endpoint -> Addr \cup {NULL}]
  BY DEF Teardown, TypeOK
<1>5. /\ worker' \in [Worker -> worker_t]
      /\ send_pkts' \in Seq(reply_t)
      /\ rule_map' \in [Url -> my_data_t \cup {NULL}]
  BY DoneType DEF Teardown
<1>6. /\ heap' \in [Addr -> flow_data_t]
      /\ live' \subseteq Addr
      /\ FlowsFilledIn'
      /\ raced' \in BOOLEAN
  BY FreeType DEF Teardown
<1>7. aborted' \in BOOLEAN /\ mingled' \subseteq Endpoint
  BY DEF Teardown, TypeOK
<1> QED
  BY <1>3, <1>4, <1>5, <1>6, <1>7 DEF TypeOK

\* A handler that answers with r, issues at most one command for its key and
\* leaves the memory alone or rewrites its flow.
LEMMA RewriteType ==
    ASSUME TypeOK, FlowsFilledIn, NEW w \in Worker, NEW k \in Endpoint,
           NEW d \in DIndex, NEW fd \in flow_data_t,
           fd.entry_data # NULL, fd.recv_pkt # NULL,
           NEW r \in Seq(reply_t), Done(w, r),
           EnqueueAdd(w, k, d) \/ EnqueueDel(w, k) \/ NoCommand,
           SetFlow(w, fd) \/ UNCHANGED memory
    PROVE  TypeOK' /\ FlowsFilledIn'
<1>1. /\ worker' \in [Worker -> worker_t]
      /\ send_pkts' \in Seq(reply_t)
      /\ rule_map' \in [Url -> my_data_t \cup {NULL}]
  BY DoneType
<1>2. /\ add_queue' \in [Worker -> Seq(add_t)]
      /\ del_queue' \in [Worker -> Seq(del_t)]
      /\ cmd' \in [Endpoint -> Nat]
  BY CommandType
<1>3. /\ flow_hash_map' \in [Endpoint -> Addr \cup {NULL}]
      /\ heap' \in [Addr -> flow_data_t]
      /\ live' \subseteq Addr
      /\ mingled' \subseteq Endpoint
      /\ FlowsFilledIn'
      /\ aborted' \in BOOLEAN /\ raced' \in BOOLEAN
  BY MemoryType
<1> QED
  BY <1>1, <1>2, <1>3 DEF TypeOK

\* A handler that only answers.
LEMMA QuietType ==
    ASSUME TypeOK, FlowsFilledIn, NEW w \in Worker, NEW r \in Seq(reply_t),
           Done(w, r), NoCommand, UNCHANGED memory
    PROVE  TypeOK' /\ FlowsFilledIn'
<1>1. /\ worker' \in [Worker -> worker_t]
      /\ send_pkts' \in Seq(reply_t)
      /\ rule_map' \in [Url -> my_data_t \cup {NULL}]
  BY DoneType
<1>2. aborted' \in BOOLEAN /\ raced' \in BOOLEAN
  BY DEF TypeOK, memory
<1> QED
  BY <1>1, <1>2 DEF TypeOK, FlowsFilledIn, NoCommand, memory

\* The handlers and lookups preserve the types.
LEMMA HandleType ==
    ASSUME TypeOK, FlowsFilledIn, NEW w \in Worker, Handle(w)
    PROVE  TypeOK' /\ FlowsFilledIn'
<1>1. CASE LookupDst(w)
  <2>1. worker[w] # Idle
    BY <1>1 DEF LookupDst, NoCase, Idle
  <2>2. pkt(w) \in packet_t /\ pkt(w).dst \in Endpoint
    BY <2>1, BusyWorker DEF packet_t
  <2>3. [worker[w] EXCEPT !.at = "dst", !.ptr = flow_hash_map[pkt(w).dst]]
           \in worker_t
    BY <2>1, <2>2 DEF TypeOK, worker_t, pkt
  <2>4. worker' \in [Worker -> worker_t]
    BY <1>1, <2>3 DEF LookupDst, TypeOK
  <2>5. aborted' \in BOOLEAN /\ raced' \in BOOLEAN
    BY <1>1 DEF LookupDst, TypeOK, memory
  <2> QED
    BY <1>1, <2>4, <2>5
    DEF LookupDst, TypeOK, memory, queues, FlowsFilledIn
<1>2. CASE SrcReset(w) \/ SrcFin(w) \/ DstReset(w) \/ DstFin(w)
  <2>1. PICK at \in {"src", "dst"} : In(w, at, Established)
    BY <1>2 DEF SrcReset, SrcFin, DstReset, DstFin
  <2>2. Established \in SUBSET {"BACKEND_SYN", "OFFLOAD", "COMPLETE"}
    BY DEF Established
  <2>3. /\ worker[w] # Idle
        /\ pkt(w) \in packet_t
        /\ flow(w).entry_data.d_index \in DIndex
    BY <2>1, <2>2, InFlow
  <2>4. AsRst(pkt(w)) \in packet_t
    BY <2>3, ReplyType
  <2>5. PICK r \in Seq(reply_t) : Teardown(w, r)
    <3> DEFINE d  == flow(w).entry_data.d_index
               r1 == <<forward_inbound_pkt(d, pkt(w))>>
               r2 == <<reply_rst_pkt(pkt(w)), forward_inbound_pkt(d, AsRst(pkt(w)))>>
               r3 == <<forward_outbound_pkt(pkt(w))>>
               r4 == <<reply_rst_pkt(pkt(w)), forward_outbound_pkt(AsRst(pkt(w)))>>
    <3>1. Teardown(w, r1) \/ Teardown(w, r2) \/ Teardown(w, r3) \/ Teardown(w, r4)
      BY <1>2 DEF SrcReset, SrcFin, DstReset, DstFin
    <3>2. /\ r1 \in Seq(reply_t) /\ r2 \in Seq(reply_t)
          /\ r3 \in Seq(reply_t) /\ r4 \in Seq(reply_t)
      BY <2>3, <2>4, ReplyType
    <3> HIDE DEF r1, r2, r3, r4
    <3> QED
      BY <3>1, <3>2
  <2> QED
    BY <2>3, <2>5, TeardownType
<1>3. CASE \/ SrcNoRule(w) \/ SrcForward(w) \/ SynRetry(w)
           \/ SynAckIgnored(w) \/ DstForward(w) \/ NewFlowDropped(w)
  <2>1. PICK r \in Seq(reply_t) : Done(w, r)
    <3> DEFINE d  == flow(w).entry_data.d_index
               r1 == <<>>
               r2 == <<forward_inbound_pkt(d, pkt(w))>>
               r3 == <<forward_outbound_pkt(pkt(w))>>
               r4 == <<send_syn_pkt(d, pkt(w))>>
    <3>1. CASE SrcNoRule(w) \/ SynAckIgnored(w) \/ NewFlowDropped(w)
      <4>1. Done(w, r1) /\ r1 \in Seq(reply_t)
        BY <3>1 DEF SrcNoRule, SynAckIgnored, NewFlowDropped
      <4> QED
        BY <4>1
    <3>2. CASE SrcForward(w) \/ DstForward(w) \/ SynRetry(w)
      <4>1. pkt(w) \in packet_t /\ d \in DIndex
        BY <3>2, InFlow DEF SrcForward, DstForward, SynRetry, Established
      <4>2. /\ r1 \in Seq(reply_t) /\ r2 \in Seq(reply_t)
            /\ r3 \in Seq(reply_t) /\ r4 \in Seq(reply_t)
        BY <4>1, ReplyType
      <4>3. Done(w, r1) \/ Done(w, r2) \/ Done(w, r3) \/ Done(w, r4)
        BY <3>2 DEF SrcForward, DstForward, SynRetry
      <4> HIDE DEF r1, r2, r3, r4
      <4> QED
        BY <4>2, <4>3
    <3> QED
      BY <1>3, <3>1, <3>2
  <2>2. NoCommand /\ UNCHANGED memory
    BY <1>3 DEF SrcNoRule, SrcForward, SynRetry, SynAckIgnored, DstForward,
                NewFlowDropped
  <2> QED
    BY <2>1, <2>2, QuietType
<1>4. CASE SrcReroute(w)
  <2> DEFINE new == lookup_balancing_rule(pkt(w).url)
             old == flow(w).entry_data.d_index
             fd  == [state |-> "BACKEND_SYN", entry_data |-> new,
                     recv_pkt |-> pkt(w)]
  <2>1. pkt(w) \in packet_t /\ key(w) \in Endpoint /\ old \in DIndex
    BY <1>4, InFlow DEF SrcReroute, SrcPayload, Established
  <2>2. new \in my_data_t
    BY <1>4, <2>1 DEF SrcReroute, SrcPayload, lookup_balancing_rule, TypeOK,
                      packet_t
  <2>3. new.d_index \in DIndex
    BY <2>2 DEF my_data_t
  <2>4. fd \in flow_data_t /\ fd.entry_data # NULL /\ fd.recv_pkt # NULL
    BY <2>1, <2>2, NullAssumption DEF flow_data_t, flow_state
  <2>5. <<send_rst_pkt(old, pkt(w)), send_syn_pkt(new.d_index, pkt(w))>>
          \in Seq(reply_t)
    BY <2>1, <2>3, ReplyType
  <2> HIDE DEF fd
  <2>6. EnqueueDel(w, key(w)) \/ NoCommand
    BY <1>4 DEF SrcReroute, DelIfOffloaded
  <2>7. SetFlow(w, fd)
    BY <1>4 DEF SrcReroute, fd
  <2>8. Done(w, <<send_rst_pkt(old, pkt(w)), send_syn_pkt(new.d_index, pkt(w))>>)
    BY <1>4 DEF SrcReroute
  <2> QED
    BY <2>1, <2>4, <2>5, <2>6, <2>7, <2>8, RewriteType
<1>5. CASE SrcSameBackend(w)
  <2> DEFINE d == flow(w).entry_data.d_index
  <2>1. /\ pkt(w) \in packet_t /\ key(w) \in Endpoint /\ d \in DIndex
        /\ flow(w) \in flow_data_t
        /\ flow(w).entry_data \in my_data_t /\ flow(w).recv_pkt \in packet_t
    BY <1>5, InFlow DEF SrcSameBackend, SrcPayload, Established
  <2>2. <<forward_inbound_pkt(d, pkt(w))>> \in Seq(reply_t)
    BY <2>1, ReplyType
  <2>3. PICK s \in {"OFFLOAD", "COMPLETE"} :
           /\ SetFlow(w, [flow(w) EXCEPT !.state = s]) \/ UNCHANGED memory
           /\ EnqueueAdd(w, key(w), d) \/ EnqueueDel(w, key(w)) \/ NoCommand
    BY <1>5 DEF SrcSameBackend
  <2> DEFINE fd == [flow(w) EXCEPT !.state = s]
  <2>4. fd \in flow_data_t /\ fd.entry_data # NULL /\ fd.recv_pkt # NULL
    BY <2>1, NullAssumption DEF flow_data_t, flow_state
  <2>5. Done(w, <<forward_inbound_pkt(d, pkt(w))>>)
    BY <1>5 DEF SrcSameBackend
  <2> HIDE DEF fd, d
  <2> QED
    BY <2>1, <2>2, <2>3, <2>4, <2>5, RewriteType DEF fd
<1>6. CASE SynAck(w)
  <2> DEFINE d == flow(w).entry_data.d_index
             r == <<send_cached_pkt(d, flow(w).recv_pkt)>>
  <2>1. /\ pkt(w) \in packet_t /\ key(w) \in Endpoint /\ d \in DIndex
        /\ flow(w) \in flow_data_t
        /\ flow(w).entry_data \in my_data_t /\ flow(w).recv_pkt \in packet_t
    BY <1>6, InFlow DEF SynAck
  <2>2. r \in Seq(reply_t)
    BY <2>1, ReplyType
  <2>3. PICK s \in {"OFFLOAD", "COMPLETE"} :
           /\ SetFlow(w, [flow(w) EXCEPT !.state = s])
           /\ EnqueueAdd(w, key(w), d) \/ NoCommand
    BY <1>6 DEF SynAck
  <2> DEFINE fd == [flow(w) EXCEPT !.state = s]
  <2>4. fd \in flow_data_t /\ fd.entry_data # NULL /\ fd.recv_pkt # NULL
    BY <2>1, NullAssumption DEF flow_data_t, flow_state
  <2>5. Done(w, r)
    BY <1>6 DEF SynAck
  <2> HIDE DEF fd, d, r
  <2> QED
    BY <2>1, <2>2, <2>3, <2>4, <2>5, RewriteType DEF fd
<1>7. CASE SynAbort(w)
  <2>1. pkt(w) \in packet_t /\ flow(w).entry_data.d_index \in DIndex
    BY <1>7, InFlow DEF SynAbort
  <2>2. <<reply_rst_pkt(pkt(w))>> \in Seq(reply_t)
    BY <2>1, ReplyType
  <2>3. /\ worker' \in [Worker -> worker_t]
        /\ send_pkts' \in Seq(reply_t)
        /\ rule_map' \in [Url -> my_data_t \cup {NULL}]
    BY <1>7, <2>2, DoneType DEF SynAbort
  <2>4. /\ heap' \in [Addr -> flow_data_t]
        /\ live' \subseteq Addr
        /\ FlowsFilledIn'
        /\ raced' \in BOOLEAN
    BY <1>7, FreeType DEF SynAbort
  <2>5. aborted' \in BOOLEAN
    BY <1>7 DEF SynAbort
  <2> QED
    BY <1>7, <2>3, <2>4, <2>5 DEF SynAbort, TypeOK, NoCommand
<1>8. CASE NewFlow(w)
  <2> DEFINE new == lookup_balancing_rule(pkt(w).url)
             fd  == [state |-> "BACKEND_SYN", entry_data |-> new,
                     recv_pkt |-> pkt(w)]
  <2>1. worker[w] # Idle
    BY <1>8 DEF NewFlow, NoCase, Idle
  <2>2. pkt(w) \in packet_t /\ pkt(w).src \in Endpoint
    BY <2>1, BusyWorker DEF packet_t
  <2>3. new \in my_data_t /\ new.d_index \in DIndex
    BY <1>8, <2>2 DEF NewFlow, lookup_balancing_rule, TypeOK, packet_t, my_data_t
  <2>4. fd \in flow_data_t /\ fd.entry_data # NULL /\ fd.recv_pkt # NULL
    BY <2>2, <2>3, NullAssumption DEF flow_data_t, flow_state
  <2>5. <<send_syn_pkt(new.d_index, pkt(w))>> \in Seq(reply_t)
    BY <2>2, <2>3, ReplyType
  <2>6. /\ worker' \in [Worker -> worker_t]
        /\ send_pkts' \in Seq(reply_t)
        /\ rule_map' \in [Url -> my_data_t \cup {NULL}]
    BY <1>8, <2>5, DoneType DEF NewFlow
  <2>7. PICK a \in Addr \ live :
           /\ heap' = [heap EXCEPT ![a] = fd]
           /\ live' = live \cup {a}
           /\ flow_hash_map' = [flow_hash_map EXCEPT ![pkt(w).src] =
                                    IF @ = NULL THEN a ELSE @]
    BY <1>8 DEF NewFlow
  <2>8. aborted' \in BOOLEAN /\ raced' \in BOOLEAN
    BY <1>8 DEF NewFlow, TypeOK
  <2> HIDE DEF fd
  <2>9. heap' \in [Addr -> flow_data_t] /\ FlowsFilledIn'
    BY <2>4, <2>7 DEF TypeOK, FlowsFilledIn
  <2>10. flow_hash_map' \in [Endpoint -> Addr \cup {NULL}] /\ live' \subseteq Addr
    BY <2>2, <2>7 DEF TypeOK
  <2> QED
    BY <1>8, <2>6, <2>8, <2>9, <2>10 DEF NewFlow, TypeOK, NoCommand
<1> QED
  BY <1>1, <1>2, <1>3, <1>4, <1>5, <1>6, <1>7, <1>8 DEF Handle

\* What a handler does to the workers: its own moves on or becomes idle.
LEMMA HandleEffect ==
    ASSUME TypeOK, NEW w \in Worker, Handle(w)
    PROVE  /\ worker[w] # Idle
           /\ \A v \in Worker \ {w} : worker'[v] = worker[v]
           /\ \/ worker'[w] = Idle
              \/ /\ LookupDst(w)
                 /\ worker'[w].at = "dst"
                 /\ worker'[w].pkt = worker[w].pkt
                 /\ worker'[w].part = worker[w].part
           /\ UNCHANGED <<rule_map, mingled>>
<1>1. CASE LookupDst(w)
  <2>1. worker[w] # Idle /\ worker[w] \in worker_t
    BY <1>1 DEF LookupDst, NoCase, Idle, TypeOK
  <2> QED
    BY <1>1, <2>1 DEF LookupDst, TypeOK, worker_t, memory
<1>4. UNCHANGED mingled
  <2>1. CASE SrcReset(w) \/ SrcFin(w) \/ DstReset(w) \/ DstFin(w)
    BY <2>1 DEF SrcReset, SrcFin, DstReset, DstFin, Teardown
  <2>2. CASE \/ LookupDst(w) \/ SrcNoRule(w) \/ SrcForward(w) \/ SynRetry(w)
             \/ SynAckIgnored(w) \/ DstForward(w) \/ NewFlowDropped(w)
    BY <2>2 DEF LookupDst, SrcNoRule, SrcForward, SynRetry, SynAckIgnored,
                DstForward, NewFlowDropped, memory
  <2>3. CASE SrcReroute(w) \/ SrcSameBackend(w) \/ SynAck(w)
    BY <2>3 DEF SrcReroute, SrcSameBackend, SynAck, SetFlow, memory
  <2>4. CASE SynAbort(w) \/ NewFlow(w)
    BY <2>4 DEF SynAbort, NewFlow
  <2> QED
    BY <2>1, <2>2, <2>3, <2>4 DEF Handle
<1>2. CASE \E r : Done(w, r)
  <2>1. worker[w] # Idle
    BY DEF Handle, LookupDst, SrcReset, SrcFin, SrcNoRule, SrcReroute,
           SrcSameBackend, SrcForward, SynAbort, SynRetry, SynAckIgnored, SynAck,
           DstReset, DstFin, DstForward, NewFlowDropped, NewFlow, SrcPayload, In,
           NoCase, Idle
  <2> QED
    BY <1>2, <1>4, <2>1 DEF Done, TypeOK
<1>3. LookupDst(w) \/ \E r : Done(w, r)
  <2>1. CASE SrcReset(w) \/ SrcFin(w) \/ DstReset(w) \/ DstFin(w)
    BY <2>1 DEF SrcReset, SrcFin, DstReset, DstFin, Teardown
  <2>2. CASE \/ SrcNoRule(w) \/ SrcForward(w) \/ SynRetry(w) \/ SynAckIgnored(w)
             \/ DstForward(w) \/ NewFlowDropped(w)
    BY <2>2 DEF SrcNoRule, SrcForward, SynRetry, SynAckIgnored, DstForward,
                NewFlowDropped
  <2>3. CASE SrcReroute(w) \/ SrcSameBackend(w) \/ SynAck(w)
    BY <2>3 DEF SrcReroute, SrcSameBackend, SynAck
  <2>4. CASE SynAbort(w) \/ NewFlow(w)
    BY <2>4 DEF SynAbort, NewFlow
  <2> QED
    BY <2>1, <2>2, <2>3, <2>4 DEF Handle
<1> QED
  BY <1>1, <1>2, <1>3, <1>4

\* A part of a case, or its beginning.
Piece(w) ==
    \/ part(w) = NULL /\ (BeginTeardown(w) \/ BeginPayload(w) \/ BeginSynAck(w))
    \/ Parts(w)

Awake == {"BACKEND_SYN", "OFFLOAD", "COMPLETE"}

\* The worker stays where it is, with another part to come, or has finished.
Moved(w) ==
    \/ worker' = [worker EXCEPT ![w] = Idle]
    \/ \E x \in part_t : worker' = [worker EXCEPT ![w].part = x]

RewrittenTo(w, fd) ==
    /\ heap' = [heap EXCEPT ![worker[w].ptr] = fd]
    /\ UNCHANGED <<flow_hash_map, live, aborted, raced>>

Rewritten(w) ==
    /\ \E at \in {"src", "dst"} : In(w, at, Awake)
    /\ \E fd \in flow_data_t :
          /\ fd.state # "INIT" /\ fd.entry_data # NULL /\ fd.recv_pkt # NULL
          /\ RewrittenTo(w, fd)

Erased(w) ==
    /\ \E at \in {"src", "dst"} : In(w, at, Awake)
    /\ part(w) # NULL
    /\ worker' = [worker EXCEPT ![w] = Idle]
    /\ flow_hash_map' = [flow_hash_map EXCEPT ![key(w)] = NULL]
    /\ Free(w)
    /\ UNCHANGED aborted

\* What a part may do, seen from outside: at most one command, for the
\* worker's key, and at most one change of its flow.
PieceShape(w) ==
    /\ worker[w] # Idle
    /\ key(w) \in Endpoint
    /\ mingled' = mingled \cup {key(w)}
    /\ Moved(w)
    /\ send_pkts' \in Seq(reply_t)
    /\ UNCHANGED rule_map
    /\ \/ NoCommand \/ EnqueueDel(w, key(w))
       \/ \E d \in DIndex : EnqueueAdd(w, key(w), d)
    /\ \/ UNCHANGED <<flow_hash_map, heap, live, aborted, raced>>
       \/ Rewritten(w)
       \/ Erased(w)

\* A case is begun with well-formed replies.
LEMMA BeginShape ==
    ASSUME TypeOK, NEW w \in Worker, worker[w] # Idle, NEW data \in my_data_t,
           NEW next \in {"check", "leave", "toggle", "answer"},
           NEW replies \in Seq(reply_t), Begin(w, next, replies, data)
    PROVE  PieceShape(w)
<1>1. key(w) \in Endpoint
  BY BusyWorker
<1>2. [next |-> next, replies |-> replies, data |-> data] \in part_t
  BY DEF part_t
<1>3. Moved(w)
  BY <1>2 DEF Begin, Moved
<1> QED
  BY <1>1, <1>3 DEF Begin, PieceShape, TypeOK

\* What a worker knows when it goes on with a case.
LEMMA AtFlow ==
    ASSUME TypeOK, FlowsFilledIn, PartsMingled, NEW w \in Worker, NEW next,
           At(w, next)
    PROVE  /\ worker[w] # Idle
           /\ key(w) \in Endpoint /\ pkt(w) \in packet_t
           /\ worker[w].part \in part_t
           /\ flow(w) \in flow_data_t
           /\ flow(w).entry_data \in my_data_t
           /\ flow(w).entry_data.d_index \in DIndex
           /\ flow(w).recv_pkt \in packet_t
           /\ \E at \in {"src", "dst"} : In(w, at, Awake)
           /\ mingled = mingled \cup {key(w)}
<1>1. worker[w] # Idle
  BY DEF At, part, Idle
<1>2. worker[w].at \in {"src", "dst"}
  BY <1>1, BusyWorker
<1>3. In(w, worker[w].at, Awake)
  BY DEF At, Awake
<1>4. worker[w].part \in part_t
  BY <1>1 DEF At, part, TypeOK, worker_t
<1>5. key(w) \in mingled
  BY DEF At, PartsMingled
<1> QED
  BY <1>1, <1>2, <1>3, <1>4, <1>5, InFlow DEF Awake

\* Going on with a case.
LEMMA GoOnMoves ==
    ASSUME TypeOK, NEW w \in Worker, worker[w] # Idle, worker[w].part \in part_t,
           NEW next \in {"erase", "state", "rule", "free", "cache", "add", "del",
                         "offer", "replay"},
           GoOn(w, next)
    PROVE  Moved(w) /\ send_pkts' \in Seq(reply_t) /\ UNCHANGED rule_map
<1> DEFINE x == [worker[w].part EXCEPT !.next = next]
<1>1. x \in part_t
  BY DEF part_t
<1>2. worker' = [worker EXCEPT ![w].part = x]
  BY DEF GoOn, TypeOK, worker_t
<1> HIDE DEF x
<1> QED
  BY <1>1, <1>2 DEF GoOn, Moved, TypeOK

\* Finishing a case.
LEMMA DoneMoves ==
    ASSUME NEW w \in Worker, NEW r \in Seq(reply_t), Done(w, r)
    PROVE  Moved(w) /\ send_pkts' \in Seq(reply_t) /\ UNCHANGED rule_map
BY DEF Done, Moved

\* A part that writes one field of its flow.
LEMMA WriteShape ==
    ASSUME NEW w \in Worker, \E at \in {"src", "dst"} : In(w, at, Awake),
           NEW fd \in flow_data_t,
           fd.state # "INIT", fd.entry_data # NULL, fd.recv_pkt # NULL,
           SetFlow(w, fd)
    PROVE  Rewritten(w) /\ mingled' = mingled
BY DEF SetFlow, Rewritten, RewrittenTo

\* Every part and every beginning has this shape.
LEMMA PieceIs ==
    ASSUME TypeOK, FlowsFilledIn, PartsMingled, NEW w \in Worker, Piece(w)
    PROVE  PieceShape(w)
<1>1. CASE BeginTeardown(w)
  <2>1. worker[w] # Idle
    BY <1>1 DEF BeginTeardown, In, Idle
  <2>2. worker[w].at \in {"src", "dst"}
    BY <2>1, BusyWorker
  <2>3. /\ pkt(w) \in packet_t /\ flow(w).entry_data \in my_data_t
        /\ flow(w).entry_data.d_index \in DIndex
    BY <1>1, <2>2, InFlow DEF BeginTeardown, Established
  <2>4. AsRst(pkt(w)) \in packet_t
    BY <2>3, ReplyType
  <2>5. LastWords(w) \in Seq(reply_t)
    BY <2>3, <2>4, ReplyType DEF LastWords
  <2> QED
    BY <1>1, <2>1, <2>3, <2>5, BeginShape DEF BeginTeardown
<1>2. CASE BeginPayload(w)
  <2> DEFINE new == lookup_balancing_rule(pkt(w).url)
             d   == flow(w).entry_data.d_index
             r1  == <<send_rst_pkt(d, pkt(w)), send_syn_pkt(new.d_index, pkt(w))>>
             r2  == <<forward_inbound_pkt(d, pkt(w))>>
  <2>1. worker[w] # Idle /\ pkt(w) \in packet_t /\ d \in DIndex
    BY <1>2, InFlow DEF BeginPayload, SrcPayload, Established
  <2>2. new \in my_data_t /\ new.d_index \in DIndex
    BY <1>2, <2>1 DEF BeginPayload, SrcPayload, lookup_balancing_rule, TypeOK,
                      packet_t, my_data_t
  <2>3. r1 \in Seq(reply_t) /\ r2 \in Seq(reply_t)
    BY <2>1, <2>2, ReplyType
  <2>4. Begin(w, "leave", r1, new) \/ Begin(w, "toggle", r2, new)
    BY <1>2 DEF BeginPayload
  <2> HIDE DEF new, r1, r2
  <2> QED
    BY <2>1, <2>2, <2>3, <2>4, BeginShape
<1>3. CASE BeginSynAck(w)
  <2>1. worker[w] # Idle /\ flow(w).entry_data \in my_data_t
    BY <1>3, InFlow DEF BeginSynAck
  <2>2. <<>> \in Seq(reply_t)
    OBVIOUS
  <2> QED
    BY <1>3, <2>1, <2>2, BeginShape DEF BeginSynAck
<1> DEFINE rs == part(w).replies
<1>4. ASSUME worker[w].part \in part_t
      PROVE  /\ rs \in Seq(reply_t)
             /\ part(w).data \in my_data_t /\ part(w).data.d_index \in DIndex
  BY <1>4 DEF part, part_t, my_data_t
<1>5. CASE CheckPart(w) \/ LeavePart(w)
  <2>1. PICK next : At(w, next)
    BY <1>5 DEF CheckPart, LeavePart
  <2>2. PICK n \in {"erase", "state"} : TakeBack(w, n)
    BY <1>5 DEF CheckPart, LeavePart
  <2>3. NoCommand \/ EnqueueDel(w, key(w))
    BY <2>2 DEF TakeBack, DelIfOffloaded
  <2>4. Moved(w) /\ send_pkts' \in Seq(reply_t) /\ UNCHANGED rule_map
    BY <2>1, <2>2, AtFlow, GoOnMoves DEF TakeBack
  <2> QED
    BY <2>1, <2>2, <2>3, <2>4, AtFlow DEF TakeBack, PieceShape, memory
<1>6. CASE ErasePart(w)
  <2>1. PICK next : At(w, next)
    BY <1>6 DEF ErasePart
  <2>2. Moved(w) /\ send_pkts' \in Seq(reply_t) /\ UNCHANGED rule_map
    BY <1>4, <1>6, <2>1, AtFlow, DoneMoves DEF ErasePart
  <2>3. part(w) # NULL /\ worker' = [worker EXCEPT ![w] = Idle]
    BY <1>6 DEF ErasePart, At, Done
  <2>4. Erased(w)
    BY <1>6, <2>1, <2>3, AtFlow DEF ErasePart, Erased
  <2>5. NoCommand /\ mingled' = mingled
    BY <1>6 DEF ErasePart
  <2> QED
    BY <2>1, <2>2, <2>4, <2>5, AtFlow DEF PieceShape
<1>7. ASSUME NEW fd \in flow_data_t, NEW next, At(w, next),
             fd.state # "INIT", fd.entry_data # NULL, fd.recv_pkt # NULL,
             SetFlow(w, fd), NoCommand,
             \/ \E n \in {"rule", "free", "cache", "add", "del", "offer", "replay"} :
                   GoOn(w, n)
             \/ Done(w, rs)
      PROVE  PieceShape(w)
  <2>1. Moved(w) /\ send_pkts' \in Seq(reply_t) /\ UNCHANGED rule_map
    BY <1>4, <1>7, AtFlow, GoOnMoves, DoneMoves
  <2>2. Rewritten(w) /\ mingled' = mingled
    BY <1>7, AtFlow, WriteShape
  <2> QED
    BY <1>7, <2>1, <2>2, AtFlow DEF PieceShape
<1>8. ASSUME NEW fd, NEW next, At(w, next), NEW s \in Awake, NEW e \in my_data_t,
             NEW p \in packet_t,
             \/ fd = [flow(w) EXCEPT !.state = s]
             \/ fd = [flow(w) EXCEPT !.entry_data = e]
             \/ fd = [flow(w) EXCEPT !.recv_pkt = p]
      PROVE  /\ fd \in flow_data_t
             /\ fd.state # "INIT" /\ fd.entry_data # NULL /\ fd.recv_pkt # NULL
  <2>1. /\ flow(w) \in flow_data_t /\ flow(w).entry_data \in my_data_t
        /\ flow(w).recv_pkt \in packet_t
    BY <1>8, AtFlow
  <2>2. flow(w).state # "INIT"
    BY <1>8 DEF At, In
  <2> QED
    BY <1>8, <2>1, <2>2, NullAssumption DEF flow_data_t, flow_state, Awake
<1>9. CASE StatePart(w)
  <2> DEFINE fd == [flow(w) EXCEPT !.state = "BACKEND_SYN"]
  <2>1. At(w, "state") /\ SetFlow(w, fd) /\ NoCommand /\ GoOn(w, "rule")
    BY <1>9 DEF StatePart, Write
  <2>2. flow(w).entry_data \in my_data_t /\ pkt(w) \in packet_t
    BY <2>1, AtFlow
  <2>3. /\ fd \in flow_data_t
        /\ fd.state # "INIT" /\ fd.entry_data # NULL /\ fd.recv_pkt # NULL
    BY <1>8, <2>1, <2>2 DEF Awake
  <2> HIDE DEF fd
  <2> QED
    BY <1>7, <2>1, <2>3
<1>10. CASE RulePart(w)
  <2> DEFINE fd == [flow(w) EXCEPT !.entry_data = part(w).data]
  <2>1. At(w, "rule") /\ SetFlow(w, fd) /\ NoCommand /\ GoOn(w, "free")
    BY <1>10 DEF RulePart, Write
  <2>2. part(w).data \in my_data_t /\ pkt(w) \in packet_t
    BY <1>4, <2>1, AtFlow
  <2>3. /\ fd \in flow_data_t
        /\ fd.state # "INIT" /\ fd.entry_data # NULL /\ fd.recv_pkt # NULL
    BY <1>8, <2>1, <2>2 DEF Awake
  <2> HIDE DEF fd
  <2> QED
    BY <1>7, <2>1, <2>3
<1>11. CASE FreePart(w)
  <2>1. PICK p \in Packet : Write(w, [flow(w) EXCEPT !.recv_pkt = p], "cache")
    BY <1>11 DEF FreePart
  <2> DEFINE fd == [flow(w) EXCEPT !.recv_pkt = p]
  <2>2. At(w, "free") /\ SetFlow(w, fd) /\ NoCommand /\ GoOn(w, "cache")
    BY <1>11, <2>1 DEF FreePart, Write
  <2>3. flow(w).entry_data \in my_data_t /\ p \in packet_t
    BY <2>2, AtFlow, PacketAssumption
  <2>4. /\ fd \in flow_data_t
        /\ fd.state # "INIT" /\ fd.entry_data # NULL /\ fd.recv_pkt # NULL
    BY <1>8, <2>2, <2>3 DEF Awake
  <2> HIDE DEF fd
  <2> QED
    BY <1>7, <2>2, <2>4
<1>12. CASE CachePart(w)
  <2> DEFINE fd == [flow(w) EXCEPT !.recv_pkt = pkt(w)]
  <2>1. At(w, "cache") /\ SetFlow(w, fd) /\ NoCommand /\ Done(w, rs)
    BY <1>12 DEF CachePart
  <2>2. flow(w).entry_data \in my_data_t /\ pkt(w) \in packet_t
    BY <2>1, AtFlow
  <2>3. /\ fd \in flow_data_t
        /\ fd.state # "INIT" /\ fd.entry_data # NULL /\ fd.recv_pkt # NULL
    BY <1>8, <2>1, <2>2 DEF Awake
  <2> HIDE DEF fd, rs
  <2> QED
    BY <1>7, <2>1, <2>3
<1>13. ASSUME At(w, "toggle") \/ At(w, "answer"), NEW s \in {"OFFLOAD", "COMPLETE"},
              NEW n \in {"add", "del", "offer", "replay"},
              Write(w, [flow(w) EXCEPT !.state = s], n)
       PROVE  PieceShape(w)
  <2> DEFINE fd == [flow(w) EXCEPT !.state = s]
  <2>1. SetFlow(w, fd) /\ NoCommand /\ GoOn(w, n)
    BY <1>13 DEF Write
  <2>2. PICK next : At(w, next)
    BY <1>13
  <2>3. flow(w).entry_data \in my_data_t /\ pkt(w) \in packet_t
    BY <2>2, AtFlow
  <2>4. /\ fd \in flow_data_t
        /\ fd.state # "INIT" /\ fd.entry_data # NULL /\ fd.recv_pkt # NULL
    BY <1>8, <2>2, <2>3 DEF Awake
  <2> HIDE DEF fd
  <2> QED
    BY <1>7, <2>1, <2>2, <2>4
<1>14. ASSUME UNCHANGED memory, worker[w] # Idle, worker[w].part \in part_t,
              key(w) \in Endpoint, mingled = mingled \cup {key(w)},
              Moved(w), send_pkts' \in Seq(reply_t), UNCHANGED rule_map,
              \/ NoCommand \/ EnqueueDel(w, key(w))
              \/ \E d \in DIndex : EnqueueAdd(w, key(w), d)
       PROVE  PieceShape(w)
  BY <1>14 DEF PieceShape, memory
<1>15. CASE TogglePart(w)
  <2>1. At(w, "toggle")
    BY <1>15 DEF TogglePart
  <2>2. \/ Write(w, [flow(w) EXCEPT !.state = "OFFLOAD"], "add")
        \/ Write(w, [flow(w) EXCEPT !.state = "COMPLETE"], "del")
        \/ Done(w, rs) /\ NoCommand /\ UNCHANGED memory
    BY <1>15 DEF TogglePart
  <2>3. CASE Done(w, rs) /\ NoCommand /\ UNCHANGED memory
    BY <1>4, <1>14, <2>1, <2>3, AtFlow, DoneMoves
  <2> QED
    BY <1>13, <2>1, <2>2, <2>3
<1>16. CASE AnswerPart(w)
  <2>1. At(w, "answer")
    BY <1>16 DEF AnswerPart
  <2>2. \/ Write(w, [flow(w) EXCEPT !.state = "OFFLOAD"], "offer")
        \/ Write(w, [flow(w) EXCEPT !.state = "COMPLETE"], "replay")
    BY <1>16 DEF AnswerPart
  <2> QED
    BY <1>13, <2>1, <2>2
<1>17. CASE AddPart(w) \/ DelPart(w)
  <2>1. PICK next : At(w, next)
    BY <1>17 DEF AddPart, DelPart
  <2>2. Done(w, rs) /\ UNCHANGED memory
    BY <1>17 DEF AddPart, DelPart
  <2>3. EnqueueDel(w, key(w)) \/ \E d \in DIndex : EnqueueAdd(w, key(w), d)
    BY <1>17, <2>1, AtFlow DEF AddPart, DelPart
  <2> HIDE DEF rs
  <2> QED
    BY <1>4, <1>14, <2>1, <2>2, <2>3, AtFlow, DoneMoves
<1>18. CASE OfferPart(w)
  <2>1. At(w, "offer") /\ GoOn(w, "replay") /\ UNCHANGED memory
    BY <1>18 DEF OfferPart
  <2>2. \E d \in DIndex : EnqueueAdd(w, key(w), d)
    BY <1>4, <1>18, <2>1, AtFlow DEF OfferPart
  <2> QED
    BY <1>14, <2>1, <2>2, AtFlow, GoOnMoves
<1>19. CASE ReplayPart(w)
  <2> DEFINE r == <<send_cached_pkt(flow(w).entry_data.d_index, flow(w).recv_pkt)>>
  <2>1. At(w, "replay") /\ Done(w, r) /\ NoCommand /\ UNCHANGED memory
    BY <1>19 DEF ReplayPart
  <2>2. r \in Seq(reply_t)
    BY <2>1, AtFlow, ReplyType
  <2> HIDE DEF r
  <2> QED
    BY <1>14, <2>1, <2>2, AtFlow, DoneMoves
<1>20. CASE LostPart(w)
  <2>1. worker[w] # Idle /\ worker[w].part \in part_t
    BY <1>20 DEF LostPart, part, Idle, TypeOK, worker_t
  <2>2. Done(w, rs) /\ NoCommand /\ UNCHANGED memory /\ key(w) \in mingled
    BY <1>20 DEF LostPart, PartsMingled
  <2>3. key(w) \in Endpoint
    BY <2>1, BusyWorker
  <2> HIDE DEF rs
  <2> QED
    BY <1>4, <1>14, <2>1, <2>2, <2>3, DoneMoves
<1> QED
  BY <1>1, <1>2, <1>3, <1>5, <1>6, <1>9, <1>10, <1>11, <1>12, <1>15, <1>16,
     <1>17, <1>18, <1>19, <1>20 DEF Piece, Parts

\* A part leaves its worker idle, or where it was and with the same packet.
LEMMA PieceEffect ==
    ASSUME TypeOK, NEW w \in Worker, PieceShape(w)
    PROVE  /\ \A v \in Worker \ {w} : worker'[v] = worker[v]
           /\ \/ worker'[w] = Idle
              \/ /\ worker'[w].at = worker[w].at
                 /\ worker'[w].pkt = worker[w].pkt
                 /\ worker'[w].ptr = worker[w].ptr
                 /\ worker'[w] # Idle
           /\ worker' \in [Worker -> worker_t]
<1>1. CASE worker' = [worker EXCEPT ![w] = Idle]
  BY <1>1 DEF TypeOK, worker_t
<1>2. ASSUME NEW x \in part_t, worker' = [worker EXCEPT ![w].part = x]
      PROVE  /\ \A v \in Worker \ {w} : worker'[v] = worker[v]
             /\ worker'[w].at = worker[w].at
             /\ worker'[w].pkt = worker[w].pkt
             /\ worker'[w].ptr = worker[w].ptr
             /\ worker'[w] # Idle
             /\ worker' \in [Worker -> worker_t]
  <2>1. worker[w] # Idle
    BY DEF PieceShape
  <2>2. [worker[w] EXCEPT !.part = x] \in worker_t
    BY <2>1 DEF TypeOK, worker_t
  <2>3. worker' \in [Worker -> worker_t]
    BY <1>2, <2>2 DEF TypeOK
  <2>4. worker[w].at # "idle"
    BY <2>1, BusyWorker
  <2> QED
    BY <1>2, <2>1, <2>3, <2>4 DEF TypeOK, worker_t, Idle
<1> QED
  BY <1>1, <1>2 DEF PieceShape, Moved

\* A part preserves the types.
LEMMA PieceType ==
    ASSUME TypeOK, FlowsFilledIn, NEW w \in Worker, PieceShape(w)
    PROVE  TypeOK' /\ FlowsFilledIn'
<1>1. /\ worker' \in [Worker -> worker_t]
      /\ send_pkts' \in Seq(reply_t)
      /\ rule_map' \in [Url -> my_data_t \cup {NULL}]
      /\ mingled' \subseteq Endpoint
      /\ key(w) \in Endpoint
  BY PieceEffect DEF PieceShape, TypeOK
<1>2. /\ add_queue' \in [Worker -> Seq(add_t)]
      /\ del_queue' \in [Worker -> Seq(del_t)]
      /\ cmd' \in [Endpoint -> Nat]
  <2>1. CASE EnqueueDel(w, key(w))
    <3>1. [key |-> key(w), n |-> cmd[key(w)] + 1] \in del_t
      BY <1>1 DEF TypeOK, del_t
    <3> QED
      BY <1>1, <2>1, <3>1 DEF TypeOK, EnqueueDel
  <2>2. CASE NoCommand
    BY <2>2 DEF TypeOK, NoCommand
  <2>3. CASE \E d \in DIndex : EnqueueAdd(w, key(w), d)
    BY <1>1, <2>3, CommandType
  <2> QED
    BY <2>1, <2>2, <2>3 DEF PieceShape
<1>3. /\ flow_hash_map' \in [Endpoint -> Addr \cup {NULL}]
      /\ heap' \in [Addr -> flow_data_t]
      /\ live' \subseteq Addr
      /\ FlowsFilledIn'
      /\ aborted' \in BOOLEAN /\ raced' \in BOOLEAN
  <2>1. CASE UNCHANGED <<flow_hash_map, heap, live, aborted, raced>>
    <3>1. aborted' \in BOOLEAN /\ raced' \in BOOLEAN
      BY <2>1 DEF TypeOK
    <3> QED
      BY <2>1, <3>1 DEF TypeOK, FlowsFilledIn
  <2>2. CASE Rewritten(w)
    <3>1. aborted' \in BOOLEAN /\ raced' \in BOOLEAN
      BY <2>2 DEF TypeOK, Rewritten, RewrittenTo
    <3> QED
      BY <2>2, <3>1 DEF TypeOK, FlowsFilledIn, Rewritten, RewrittenTo
  <2>3. CASE Erased(w)
    <3>1. aborted' \in BOOLEAN
      BY <2>3 DEF TypeOK, Erased
    <3>2. flow_hash_map' \in [Endpoint -> Addr \cup {NULL}]
      BY <1>1, <2>3 DEF TypeOK, Erased
    <3> QED
      BY <2>3, <3>1, <3>2, FreeType DEF Erased
  <2> QED
    BY <2>1, <2>2, <2>3 DEF PieceShape
<1> QED
  BY <1>1, <1>2, <1>3 DEF TypeOK

\* What a step of a worker does to the workers.
LEMMA WorkerEffect ==
    ASSUME TypeOK, FlowsFilledIn, PartsMingled, NEW w \in Worker, Run(w)
    PROVE  /\ worker[w] # Idle
           /\ \A v \in Worker \ {w} : worker'[v] = worker[v]
           /\ \/ worker'[w] = Idle
              \/ /\ LookupDst(w) /\ part(w) = NULL
                 /\ worker'[w].at = "dst"
                 /\ worker'[w].pkt = worker[w].pkt
                 /\ worker'[w].part = NULL
              \/ /\ Piece(w)
                 /\ worker'[w].at = worker[w].at
                 /\ worker'[w].pkt = worker[w].pkt
                 /\ worker'[w].ptr = worker[w].ptr
           /\ UNCHANGED rule_map
           /\ \/ UNCHANGED mingled
              \/ Piece(w) /\ key(w) \in Endpoint /\ mingled' = mingled \cup {key(w)}
<1>1. CASE part(w) = NULL /\ Handle(w)
  BY <1>1, HandleEffect DEF part
<1>2. CASE Piece(w)
  BY <1>2, PieceIs, PieceEffect DEF PieceShape
<1> QED
  BY <1>1, <1>2 DEF Run, Piece

\* Types are preserved by every step, and cases that run in parts recorded.
LEMMA NextType ==
    ASSUME TypeOK, FlowsFilledIn, PartsMingled, [Next]_vars
    PROVE  TypeOK' /\ FlowsFilledIn' /\ PartsMingled'
<1>1. ASSUME NEW w \in Worker, NEW p \in Packet, Rx(w, p)
      PROVE  TypeOK' /\ FlowsFilledIn' /\ PartsMingled'
  <2>1. p \in packet_t /\ p.src \in Endpoint
    BY PacketAssumption DEF packet_t
  <2>2. worker' \in [Worker -> worker_t]
    BY <1>1, <2>1 DEF Rx, TypeOK, worker_t
  <2>3. aborted' \in BOOLEAN /\ raced' \in BOOLEAN
    BY <1>1 DEF Rx, TypeOK, memory
  <2>4. send_pkts' \in Seq(reply_t)
    BY <1>1 DEF Rx
  <2>5. PartsMingled'
    BY <1>1 DEF Rx, TypeOK, PartsMingled, part, key, pkt, memory
  <2> QED
    BY <1>1, <2>2, <2>3, <2>4, <2>5
    DEF Rx, TypeOK, memory, queues, FlowsFilledIn
<1>2. ASSUME NEW u \in Url, UpdateRule(u)
      PROVE  TypeOK' /\ FlowsFilledIn' /\ PartsMingled'
  <2>1. aborted' \in BOOLEAN /\ raced' \in BOOLEAN
    BY <1>2 DEF UpdateRule, TypeOK, memory
  <2>2. rule_map' \in [Url -> my_data_t \cup {NULL}]
    BY <1>2, RulesAssumption DEF UpdateRule, TypeOK
  <2>3. PartsMingled'
    BY <1>2 DEF UpdateRule, PartsMingled, part, key, pkt, memory
  <2> QED
    BY <1>2, <2>1, <2>2, <2>3 DEF UpdateRule, TypeOK, memory, queues, FlowsFilledIn
<1>3. CASE UNCHANGED vars
  <2>1. aborted' \in BOOLEAN /\ raced' \in BOOLEAN
    BY <1>3 DEF vars, TypeOK
  <2>2. PartsMingled'
    BY <1>3 DEF vars, PartsMingled, part, key, pkt
  <2> QED
    BY <1>3, <2>1, <2>2 DEF vars, TypeOK, FlowsFilledIn
<1>4. ASSUME NEW w \in Worker, Run(w)
      PROVE  TypeOK' /\ FlowsFilledIn' /\ PartsMingled'
  <2>1. TypeOK' /\ FlowsFilledIn'
    BY <1>4, HandleType, PieceIs, PieceType DEF Run, Piece
  <2>2. PartsMingled'
    <3>1. mingled \subseteq mingled'
      BY <1>4, WorkerEffect
    <3>2. \A v \in Worker \ {w} : part(v)' # NULL => key(v)' \in mingled'
      BY <1>4, <3>1, WorkerEffect DEF PartsMingled, part, key, pkt
    <3>3. part(w)' # NULL => key(w)' \in mingled'
      <4>1. CASE Piece(w)
        <5>1. key(w) \in mingled'
          BY <4>1, PieceIs DEF PieceShape
        <5>2. \/ worker'[w] = Idle
              \/ /\ worker'[w].at = worker[w].at
                 /\ worker'[w].pkt = worker[w].pkt
          BY <4>1, PieceIs, PieceEffect
        <5> QED
          BY <5>1, <5>2 DEF part, key, pkt, Idle
      <4>2. CASE ~Piece(w)
        BY <1>4, <4>2, WorkerEffect DEF part, Idle
      <4> QED
        BY <4>1, <4>2
    <3> QED
      BY <3>2, <3>3 DEF PartsMingled
  <2> QED
    BY <2>1, <2>2
<1> QED
  BY <1>1, <1>2, <1>3, <1>4 DEF Next

-----------------------------------------------------------------------------
(* Memory safety, and what a step may do to the set of offloaded flows.    *)

\* Key l is offloaded after the step as it was before, to the same backend.
SameOffload(l) ==
    /\ Offloaded(l)' <=> Offloaded(l)
    /\ Offloaded(l) =>
          FlowOf(l)'.entry_data.d_index = FlowOf(l).entry_data.d_index

\* The step of worker w is about a flow of which a case has run in parts.
MingledCommand(w) ==
    \E k \in Endpoint :
        /\ k \in mingled'
        /\ \/ NoCommand \/ EnqueueDel(w, k)
           \/ \E d \in DIndex : EnqueueAdd(w, k, d)
        /\ \A l \in Endpoint \ {k} : SameOffload(l)

\* The step of worker w issues an add exactly when it offloads a flow, a del
\* exactly when it ends an offload, and does so for that flow only.
CommandMatchesFlow(w) ==
    \/ NoCommand /\ \A l \in Endpoint : SameOffload(l)
    \/ \E k \in Endpoint, d \in DIndex :
          /\ EnqueueAdd(w, k, d)
          /\ ~Offloaded(k) /\ Offloaded(k)'
          /\ FlowOf(k)'.entry_data.d_index = d
          /\ \A l \in Endpoint \ {k} : SameOffload(l)
    \/ \E k \in Endpoint :
          /\ EnqueueDel(w, k)
          /\ Offloaded(k) /\ ~Offloaded(k)'
          /\ \A l \in Endpoint \ {k} : SameOffload(l)
    \/ MingledCommand(w)

\* As long as memory is clean, a worker inside a switch holds the flow that
\* is filed under its key, and under no other.
LEMMA HeldFlow ==
    ASSUME TypeOK, FlowsFilledIn, MemorySafe, Clean,
           NEW w \in Worker, NEW at \in {"src", "dst"},
           NEW cases \in SUBSET {"BACKEND_SYN", "OFFLOAD", "COMPLETE"},
           In(w, at, cases)
    PROVE  /\ key(w) \in Endpoint
           /\ worker[w].ptr \in live
           /\ flow_hash_map[key(w)] = worker[w].ptr
           /\ Mapped(key(w))
           /\ FlowOf(key(w)) = flow(w)
           /\ \A l \in Endpoint \ {key(w)} : flow_hash_map[l] # worker[w].ptr
<1>1. worker[w].ptr \in Addr /\ key(w) \in Endpoint
  BY InFlow
<1>2. worker[w].ptr # NULL
  BY DEF In
<1>3. flow_hash_map[key(w)] = worker[w].ptr
  BY <1>2 DEF MemorySafe
<1>4. Mapped(key(w))
  BY <1>2, <1>3 DEF Mapped
<1>5. worker[w].ptr \in live
  BY <1>1, <1>3, <1>4 DEF MemorySafe
<1>6. \A l \in Endpoint \ {key(w)} : flow_hash_map[l] # worker[w].ptr
  BY <1>1, <1>3, <1>4 DEF MemorySafe
<1> QED
  BY <1>1, <1>3, <1>4, <1>5, <1>6 DEF FlowOf, flow

\* Steps that leave the flows alone.
LEMMA StillSafe ==
    ASSUME TypeOK, MemorySafe, CachedRequestIsOwn, mingled \subseteq mingled',
           UNCHANGED <<flow_hash_map, heap, live, aborted, raced>>,
           \A v \in Worker : \/ worker'[v] = worker[v]
                             \/ worker'[v].ptr = NULL
                             \/ /\ worker'[v].ptr = worker[v].ptr
                                /\ key(v)' = key(v)
                             \/ worker'[v].ptr = flow_hash_map[key(v)']
    PROVE  /\ MemorySafe' /\ CachedRequestIsOwn'
           /\ \A l \in Endpoint : SameOffload(l)
<1>1. \A l \in Endpoint : /\ Mapped(l)' <=> Mapped(l)
                          /\ FlowOf(l)' = FlowOf(l)
                          /\ Offloaded(l)' <=> Offloaded(l)
  BY DEF Mapped, FlowOf, Offloaded
<1>2. Clean' <=> Clean
  BY DEF Clean
<1>3. CachedRequestIsOwn'
  BY <1>1, <1>2 DEF CachedRequestIsOwn
<1>4. MemorySafe'
  <2> SUFFICES ASSUME Clean PROVE MemorySafe'
    BY <1>2 DEF MemorySafe
  <2>1. \A v \in Worker : worker'[v].ptr # NULL =>
                             worker'[v].ptr = flow_hash_map'[key(v)']
    BY DEF MemorySafe, key, pkt
  <2> QED
    BY <1>1, <2>1 DEF MemorySafe
<1> QED
  BY <1>1, <1>3, <1>4 DEF SameOffload

\* Steps that leave the memory alone.
LEMMA QuietSafe ==
    ASSUME TypeOK, MemorySafe, CachedRequestIsOwn, UNCHANGED memory,
           \A v \in Worker : \/ worker'[v] = worker[v]
                             \/ worker'[v].ptr = NULL
                             \/ worker'[v].ptr = flow_hash_map[key(v)']
    PROVE  /\ MemorySafe' /\ CachedRequestIsOwn'
           /\ \A l \in Endpoint : SameOffload(l)
<1>1. /\ mingled \subseteq mingled'
      /\ UNCHANGED <<flow_hash_map, heap, live, aborted, raced>>
  BY DEF memory
<1> QED
  BY <1>1, StillSafe

\* No worker takes up another pointer.
Stays ==
    \A v \in Worker : worker'[v].ptr # NULL =>
        worker'[v].ptr = worker[v].ptr /\ key(v)' = key(v)

LEMMA DoneStays ==
    ASSUME TypeOK, NEW w \in Worker, NEW r, Done(w, r)
    PROVE  Stays
BY DEF Done, Stays, TypeOK, Idle, key, pkt

\* A step that rewrites the flow its worker has found.
LEMMA SetFlowSafe ==
    ASSUME TypeOK, FlowsFilledIn, MemorySafe, CachedRequestIsOwn, Clean,
           NEW w \in Worker, NEW k \in Endpoint, k = key(w),
           NEW at \in {"src", "dst"},
           NEW cases \in SUBSET {"BACKEND_SYN", "OFFLOAD", "COMPLETE"},
           In(w, at, cases), Stays,
           NEW fd \in flow_data_t, RewrittenTo(w, fd),
           fd.state # "INIT", mingled \subseteq mingled',
           k \in mingled' \/ fd.recv_pkt.src = k
    PROVE  /\ MemorySafe' /\ CachedRequestIsOwn'
           /\ Mapped(k)' /\ heap'[flow_hash_map'[k]] = fd
           /\ \A l \in Endpoint \ {k} : SameOffload(l)
<1> USE DEF RewrittenTo
<1>1. /\ worker[w].ptr \in live
      /\ flow_hash_map[k] = worker[w].ptr
      /\ Mapped(k)
      /\ \A l \in Endpoint \ {k} : flow_hash_map[l] # worker[w].ptr
  BY HeldFlow
<1>2. worker[w].ptr \in Addr
  BY <1>1 DEF TypeOK
<1>3. heap'[worker[w].ptr] = fd
  BY <1>2 DEF TypeOK
<1>4. \A l \in Endpoint \ {k} :
         /\ Mapped(l)' <=> Mapped(l)
         /\ Mapped(l) => FlowOf(l)' = FlowOf(l)
  BY <1>1, <1>2 DEF Mapped, FlowOf, TypeOK
<1>5. Mapped(k)' /\ FlowOf(k)' = fd
  BY <1>1, <1>3 DEF Mapped, FlowOf
<1>6. CachedRequestIsOwn'
  <2>1. ASSUME NEW l \in Endpoint \ mingled', Mapped(l)'
        PROVE  FlowOf(l)'.recv_pkt.src = l
    BY <1>4, <1>5, <2>1 DEF CachedRequestIsOwn
  <2> QED
    BY <2>1 DEF CachedRequestIsOwn
<1>7. MemorySafe'
  <2>1. \A l \in Endpoint : Mapped(l)' =>
            flow_hash_map'[l] \in live' /\ FlowOf(l)'.state # "INIT"
    BY <1>1, <1>4, <1>5 DEF MemorySafe
  <2>2. \A j, l \in Endpoint :
            Mapped(j)' /\ flow_hash_map'[j] = flow_hash_map'[l] => j = l
    BY DEF MemorySafe, Mapped
  <2>3. ASSUME NEW v \in Worker, worker'[v].ptr # NULL
        PROVE  worker'[v].ptr = flow_hash_map'[key(v)']
    BY <2>3 DEF MemorySafe, Stays
  <2> QED
    BY <2>1, <2>2, <2>3 DEF MemorySafe
<1>8. \A l \in Endpoint \ {k} : SameOffload(l)
  BY <1>4 DEF SameOffload, Offloaded
<1> QED
  BY <1>5, <1>6, <1>7, <1>8 DEF FlowOf

\* A step that erases and frees the flow its worker has found: if memory is
\* still clean afterwards, no other worker held the flow.
LEMMA EraseSafe ==
    ASSUME TypeOK, FlowsFilledIn, MemorySafe, CachedRequestIsOwn, Clean,
           NEW w \in Worker, NEW k \in Endpoint, k = key(w),
           NEW at \in {"src", "dst"}, In(w, at, Awake),
           flow_hash_map' = [flow_hash_map EXCEPT ![key(w)] = NULL], Free(w),
           worker' = [worker EXCEPT ![w] = Idle], mingled \subseteq mingled', Clean'
    PROVE  /\ MemorySafe' /\ CachedRequestIsOwn'
           /\ Mapped(k) /\ FlowOf(k) = flow(w) /\ ~Mapped(k)'
           /\ \A l \in Endpoint \ {k} : SameOffload(l)
<1>1. /\ worker[w].ptr \in live
      /\ flow_hash_map[k] = worker[w].ptr
      /\ Mapped(k)
      /\ FlowOf(k) = flow(w)
      /\ \A l \in Endpoint \ {k} : flow_hash_map[l] # worker[w].ptr
  BY HeldFlow DEF Awake
<1>2. worker[w].ptr \in Addr
  BY <1>1 DEF TypeOK
<1>3. /\ flow_hash_map' = [flow_hash_map EXCEPT ![k] = NULL]
      /\ heap' = [heap EXCEPT ![worker[w].ptr] = Zeroed]
      /\ live' = live \ {worker[w].ptr}
      /\ worker' = [worker EXCEPT ![w] = Idle]
  BY <1>1 DEF Free
<1>4. \A v \in Worker \ {w} : worker[v].ptr # worker[w].ptr
  BY DEF Free, Clean
<1>5. ~Mapped(k)'
  BY <1>3 DEF Mapped, TypeOK
<1>6. \A l \in Endpoint \ {k} :
         /\ flow_hash_map'[l] = flow_hash_map[l]
         /\ Mapped(l)' <=> Mapped(l)
         /\ Mapped(l) => FlowOf(l)' = FlowOf(l)
  BY <1>1, <1>2, <1>3 DEF Mapped, FlowOf, TypeOK
<1>7. CachedRequestIsOwn'
  <2>1. ASSUME NEW l \in Endpoint \ mingled', Mapped(l)'
        PROVE  FlowOf(l)'.recv_pkt.src = l
    BY <1>5, <1>6, <2>1 DEF CachedRequestIsOwn
  <2> QED
    BY <2>1 DEF CachedRequestIsOwn
<1>8. MemorySafe'
  <2>1. \A l \in Endpoint : Mapped(l)' =>
            flow_hash_map'[l] \in live' /\ FlowOf(l)'.state # "INIT"
    BY <1>1, <1>3, <1>5, <1>6 DEF MemorySafe
  <2>2. \A m, l \in Endpoint :
            Mapped(m)' /\ flow_hash_map'[m] = flow_hash_map'[l] => m = l
    BY <1>3, <1>5, <1>6 DEF MemorySafe, Mapped, TypeOK
  <2>3. ASSUME NEW v \in Worker, worker'[v].ptr # NULL
        PROVE  worker'[v].ptr = flow_hash_map'[key(v)']
    <3>1. v # w /\ worker'[v] = worker[v] /\ key(v)' = key(v)
      BY <1>3, <2>3 DEF Idle, TypeOK, key, pkt
    <3>2. worker[v].ptr = flow_hash_map[key(v)]
      BY <2>3, <3>1 DEF MemorySafe
    <3>3. worker[v] # Idle
      BY <2>3, <3>1 DEF Idle
    <3>4. key(v) \in Endpoint /\ key(v) # k
      BY <1>1, <1>4, <3>1, <3>2, <3>3, BusyWorker
    <3> QED
      BY <1>6, <3>1, <3>2, <3>4
  <2> QED
    BY <2>1, <2>2, <2>3 DEF MemorySafe
<1>9. \A l \in Endpoint \ {k} : SameOffload(l)
  BY <1>6 DEF SameOffload, Offloaded
<1> QED
  BY <1>1, <1>5, <1>7, <1>8, <1>9

\* A handler that tears its flow down.
LEMMA TeardownSafe ==
    ASSUME TypeOK, FlowsFilledIn, MemorySafe, CachedRequestIsOwn, Clean,
           NEW w \in Worker, NEW k \in Endpoint, k = key(w),
           NEW at \in {"src", "dst"}, In(w, at, Established),
           NEW r, Teardown(w, r), Clean'
    PROVE  MemorySafe' /\ CachedRequestIsOwn' /\ CommandMatchesFlow(w)
<1>1. In(w, at, Awake)
  BY DEF In, Established, Awake
<1>2. /\ flow_hash_map' = [flow_hash_map EXCEPT ![key(w)] = NULL] /\ Free(w)
      /\ worker' = [worker EXCEPT ![w] = Idle] /\ mingled \subseteq mingled'
  BY DEF Teardown, Done
<1>3. /\ MemorySafe' /\ CachedRequestIsOwn'
      /\ Mapped(k) /\ FlowOf(k) = flow(w) /\ ~Mapped(k)'
      /\ \A l \in Endpoint \ {k} : SameOffload(l)
  BY <1>1, <1>2, EraseSafe
<1>4. ~Offloaded(k)'
  BY <1>3 DEF Offloaded
<1>5. Offloaded(k) <=> flow(w).state = "OFFLOAD"
  BY <1>3 DEF Offloaded
<1>6. IF flow(w).state = "OFFLOAD" THEN EnqueueDel(w, k) ELSE NoCommand
  BY DEF Teardown, DelIfOffloaded
<1>7. CASE flow(w).state = "OFFLOAD"
  BY <1>3, <1>4, <1>5, <1>6, <1>7 DEF CommandMatchesFlow
<1>8. CASE flow(w).state # "OFFLOAD"
  <2>1. SameOffload(k)
    BY <1>4, <1>5, <1>8 DEF SameOffload
  <2> QED
    BY <1>3, <1>6, <1>8, <2>1 DEF CommandMatchesFlow
<1> QED
  BY <1>7, <1>8

\* Opening a flow in a block that nothing refers to.
LEMMA NewFlowSafe ==
    ASSUME TypeOK, FlowsFilledIn, MemorySafe, CachedRequestIsOwn, Clean,
           NEW w \in Worker, NewFlow(w)
    PROVE  MemorySafe' /\ CachedRequestIsOwn' /\ CommandMatchesFlow(w)
<1> DEFINE k  == pkt(w).src
           fd == [state |-> "BACKEND_SYN",
                  entry_data |-> lookup_balancing_rule(pkt(w).url),
                  recv_pkt |-> pkt(w)]
<1>1. worker[w] # Idle
  BY DEF NewFlow, NoCase, Idle
<1>2. pkt(w) \in packet_t /\ k \in Endpoint
  BY <1>1, BusyWorker DEF packet_t
<1>3. PICK a \in Addr \ live :
         /\ heap' = [heap EXCEPT ![a] = fd]
         /\ live' = live \cup {a}
         /\ flow_hash_map' = [flow_hash_map EXCEPT ![k] =
                                  IF @ = NULL THEN a ELSE @]
  BY DEF NewFlow
<1>4. /\ fd.state = "BACKEND_SYN" /\ fd.recv_pkt.src = k
      /\ worker' = [worker EXCEPT ![w] = Idle]
      /\ NoCommand
  BY DEF NewFlow, Done
<1> HIDE DEF fd
<1>5. a # NULL
  BY NullAssumption
<1>6. ASSUME NEW l \in Endpoint, Mapped(l)
      PROVE  /\ flow_hash_map[l] \in live
             /\ flow_hash_map'[l] = flow_hash_map[l]
             /\ Mapped(l)'
             /\ FlowOf(l)' = FlowOf(l)
  BY <1>2, <1>3, <1>6 DEF Mapped, FlowOf, TypeOK, MemorySafe
<1>7. ASSUME NEW l \in Endpoint, ~Mapped(l), Mapped(l)'
      PROVE  l = k /\ flow_hash_map'[l] = a /\ FlowOf(l)' = fd
  BY <1>2, <1>3, <1>7 DEF Mapped, FlowOf, TypeOK
<1>8. CachedRequestIsOwn'
  <2>1. ASSUME NEW l \in Endpoint \ mingled', Mapped(l)'
        PROVE  FlowOf(l)'.recv_pkt.src = l
    <3>1. CASE Mapped(l)
      BY <1>6, <3>1 DEF CachedRequestIsOwn, NewFlow
    <3>2. CASE ~Mapped(l)
      BY <1>4, <1>7, <2>1, <3>2
    <3> QED
      BY <3>1, <3>2
  <2> QED
    BY <2>1 DEF CachedRequestIsOwn
<1>9. MemorySafe'
  <2>1. \A l \in Endpoint : Mapped(l)' =>
            flow_hash_map'[l] \in live' /\ FlowOf(l)'.state # "INIT"
    BY <1>3, <1>4, <1>6, <1>7 DEF MemorySafe
  <2>2. ASSUME NEW m \in Endpoint, NEW l \in Endpoint,
               Mapped(m)', flow_hash_map'[m] = flow_hash_map'[l]
        PROVE  m = l
    <3>1. Mapped(l)'
      BY <2>2 DEF Mapped
    <3>2. CASE Mapped(m) /\ Mapped(l)
      BY <1>6, <2>2, <3>2 DEF MemorySafe
    <3>3. CASE ~Mapped(m) /\ ~Mapped(l)
      BY <1>7, <2>2, <3>1, <3>3
    <3>4. CASE Mapped(m) /\ ~Mapped(l)
      BY <1>6, <1>7, <2>2, <3>1, <3>4
    <3>5. CASE ~Mapped(m) /\ Mapped(l)
      BY <1>6, <1>7, <2>2, <3>1, <3>5
    <3> QED
      BY <3>2, <3>3, <3>4, <3>5
  <2>3. ASSUME NEW v \in Worker, worker'[v].ptr # NULL
        PROVE  worker'[v].ptr = flow_hash_map'[key(v)']
    <3>1. v # w /\ worker'[v] = worker[v] /\ key(v)' = key(v)
      BY <1>4, <2>3 DEF Idle, TypeOK, key, pkt
    <3>2. worker[v].ptr = flow_hash_map[key(v)]
      BY <2>3, <3>1 DEF MemorySafe
    <3>3. worker[v] # Idle
      BY <2>3, <3>1 DEF Idle
    <3>4. key(v) \in Endpoint /\ Mapped(key(v))
      BY <2>3, <3>1, <3>2, <3>3, BusyWorker DEF Mapped
    <3> QED
      BY <1>6, <3>1, <3>2, <3>4
  <2> QED
    BY <2>1, <2>2, <2>3 DEF MemorySafe
<1>10. \A l \in Endpoint : SameOffload(l)
  <2>1. ASSUME NEW l \in Endpoint PROVE SameOffload(l)
    <3>1. CASE Mapped(l)
      BY <1>6, <3>1 DEF SameOffload, Offloaded
    <3>2. CASE ~Mapped(l)
      BY <1>4, <1>7, <3>2 DEF SameOffload, Offloaded
    <3> QED
      BY <3>1, <3>2
  <2> QED
    BY <2>1
<1> QED
  BY <1>4, <1>8, <1>9, <1>10 DEF CommandMatchesFlow

\* Every handler keeps the memory safe and keeps the commands in step with
\* the flows.
LEMMA HandleSafe ==
    ASSUME TypeOK, FlowsFilledIn, MemorySafe, CachedRequestIsOwn, Clean,
           NEW w \in Worker, Handle(w), Clean'
    PROVE  MemorySafe' /\ CachedRequestIsOwn' /\ CommandMatchesFlow(w)
<1>1. CASE LookupDst(w)
  <2>1. worker[w] \in worker_t /\ worker[w] # Idle
    BY <1>1 DEF LookupDst, NoCase, Idle, TypeOK
  <2>2. worker'[w].at = "dst" /\ worker'[w].pkt = worker[w].pkt
        /\ worker'[w].ptr = flow_hash_map[worker[w].pkt.dst]
    BY <1>1, <2>1 DEF LookupDst, TypeOK, worker_t, pkt
  <2>3. \A v \in Worker : \/ worker'[v] = worker[v]
                          \/ worker'[v].ptr = flow_hash_map[key(v)']
    BY <1>1, <2>2 DEF LookupDst, TypeOK, key, pkt
  <2>4. UNCHANGED memory /\ NoCommand
    BY <1>1 DEF LookupDst, NoCommand, queues
  <2> QED
    BY <2>3, <2>4, QuietSafe DEF CommandMatchesFlow
<1>2. CASE SrcReset(w) \/ SrcFin(w) \/ DstReset(w) \/ DstFin(w)
  <2>1. PICK at \in {"src", "dst"} : In(w, at, Established)
    BY <1>2 DEF SrcReset, SrcFin, DstReset, DstFin
  <2>2. PICK r : Teardown(w, r)
    BY <1>2 DEF SrcReset, SrcFin, DstReset, DstFin
  <2>3. key(w) \in Endpoint
    BY <2>1, InFlow DEF Established
  <2> QED
    BY <2>1, <2>2, <2>3, TeardownSafe
<1>3. CASE UNCHANGED memory /\ NoCommand /\ \E r : Done(w, r)
  <2>1. \A v \in Worker : worker'[v] = worker[v] \/ worker'[v].ptr = NULL
    BY <1>3 DEF Done, TypeOK, Idle
  <2> QED
    BY <1>3, <2>1, QuietSafe DEF CommandMatchesFlow
<1>4. CASE SrcReroute(w)
  <2> DEFINE new == lookup_balancing_rule(pkt(w).url)
             fd  == [state |-> "BACKEND_SYN", entry_data |-> new,
                     recv_pkt |-> pkt(w)]
  <2>1. In(w, "src", Established) /\ SetFlow(w, fd) /\ \E r : Done(w, r)
    BY <1>4 DEF SrcReroute, SrcPayload
  <2>2. PICK k \in Endpoint : k = key(w)
    BY <2>1, InFlow DEF Established
  <2>3. pkt(w) \in packet_t /\ k = pkt(w).src
    BY <2>1, <2>2, InFlow DEF Established, In, key
  <2>4. new \in my_data_t
    BY <1>4, <2>3 DEF SrcReroute, SrcPayload, lookup_balancing_rule, TypeOK,
                      packet_t
  <2>5. /\ fd \in flow_data_t /\ fd.state = "BACKEND_SYN"
        /\ fd.recv_pkt.src = k
    BY <2>3, <2>4 DEF flow_data_t, flow_state
  <2>6. Mapped(k) /\ FlowOf(k) = flow(w)
    BY <2>1, <2>2, HeldFlow DEF Established
  <2> HIDE DEF fd
  <2>7. /\ MemorySafe' /\ CachedRequestIsOwn'
        /\ Mapped(k)' /\ heap'[flow_hash_map'[k]] = fd
        /\ \A l \in Endpoint \ {k} : SameOffload(l)
    BY <2>1, <2>2, <2>5, DoneStays, SetFlowSafe
    DEF Established, SetFlow, RewrittenTo
  <2>8. ~Offloaded(k)'
    BY <2>5, <2>7 DEF Offloaded, FlowOf
  <2>9. IF flow(w).state = "OFFLOAD" THEN EnqueueDel(w, k) ELSE NoCommand
    BY <1>4, <2>2 DEF SrcReroute, DelIfOffloaded
  <2>10. CASE flow(w).state = "OFFLOAD"
    BY <2>6, <2>7, <2>8, <2>9, <2>10 DEF CommandMatchesFlow, Offloaded
  <2>11. CASE flow(w).state # "OFFLOAD"
    <3>1. SameOffload(k)
      BY <2>6, <2>8, <2>11 DEF SameOffload, Offloaded
    <3> QED
      BY <2>7, <2>9, <2>11, <3>1 DEF CommandMatchesFlow
  <2> QED
    BY <2>10, <2>11
<1>5. ASSUME NEW s \in {"OFFLOAD", "COMPLETE"}, NEW at \in {"src", "dst"},
             NEW cases \in SUBSET {"BACKEND_SYN", "OFFLOAD", "COMPLETE"},
             In(w, at, cases), \E r : Done(w, r),
             SetFlow(w, [flow(w) EXCEPT !.state = s]), flow(w).state # s,
             IF s = "OFFLOAD"
             THEN EnqueueAdd(w, key(w), flow(w).entry_data.d_index)
             ELSE IF flow(w).state = "OFFLOAD" THEN EnqueueDel(w, key(w))
             ELSE NoCommand
      PROVE  MemorySafe' /\ CachedRequestIsOwn' /\ CommandMatchesFlow(w)
  <2> DEFINE fd == [flow(w) EXCEPT !.state = s]
             d  == flow(w).entry_data.d_index
  <2>1. PICK k \in Endpoint : k = key(w)
    BY <1>5, InFlow
  <2>2. flow(w) \in flow_data_t /\ d \in DIndex
    BY <1>5, InFlow
  <2>3. /\ Mapped(k) /\ FlowOf(k) = flow(w)
        /\ k \in mingled \/ flow(w).recv_pkt.src = k
    BY <1>5, <2>1, HeldFlow DEF CachedRequestIsOwn
  <2>4. /\ fd \in flow_data_t /\ fd.state = s
        /\ k \in mingled \/ fd.recv_pkt.src = k
        /\ fd.entry_data.d_index = d
    BY <2>2, <2>3 DEF flow_data_t, flow_state
  <2>4a. SetFlow(w, fd) /\ fd.state # "INIT"
    BY <1>5, <2>4
  <2> HIDE DEF fd, d
  <2>5. /\ MemorySafe' /\ CachedRequestIsOwn'
        /\ Mapped(k)' /\ heap'[flow_hash_map'[k]] = fd
        /\ \A l \in Endpoint \ {k} : SameOffload(l)
    <3>1. PICK r : Done(w, r)
      BY <1>5
    <3> QED
      <4>1. Stays
        BY <3>1, DoneStays
      <4>2. RewrittenTo(w, fd) /\ mingled' = mingled
        BY <2>4a DEF SetFlow, RewrittenTo
      <4>3. k \in mingled' \/ fd.recv_pkt.src = k
        BY <2>4, <4>2
      <4> QED
        BY <1>5, <2>1, <2>4, <2>4a, <4>1, <4>2, <4>3, SetFlowSafe
  <2>6. Offloaded(k)' <=> s = "OFFLOAD"
    BY <2>4, <2>5 DEF Offloaded, FlowOf
  <2>7. Offloaded(k) <=> flow(w).state = "OFFLOAD"
    BY <2>3 DEF Offloaded
  <2>8. FlowOf(k)'.entry_data.d_index = d
    BY <2>4, <2>5 DEF FlowOf
  <2>9. CASE s = "OFFLOAD"
    <3>1. EnqueueAdd(w, k, d)
      BY <1>5, <2>1, <2>9 DEF d
    <3> QED
      BY <1>5, <2>2, <2>5, <2>6, <2>7, <2>8, <2>9, <3>1 DEF CommandMatchesFlow
  <2>10. CASE s # "OFFLOAD" /\ flow(w).state = "OFFLOAD"
    BY <1>5, <2>1, <2>5, <2>6, <2>7, <2>10 DEF CommandMatchesFlow
  <2>11. CASE s # "OFFLOAD" /\ flow(w).state # "OFFLOAD"
    <3>1. SameOffload(k)
      BY <2>6, <2>7, <2>11 DEF SameOffload
    <3> QED
      BY <1>5, <2>5, <2>11, <3>1 DEF CommandMatchesFlow
  <2> QED
    BY <2>9, <2>10, <2>11
<1>6. CASE SrcSameBackend(w)
  <2>1. In(w, "src", Established) /\ \E r : Done(w, r)
    BY <1>6 DEF SrcSameBackend, SrcPayload
  <2>2. \/ /\ flow(w).state = "COMPLETE"
           /\ SetFlow(w, [flow(w) EXCEPT !.state = "OFFLOAD"])
           /\ EnqueueAdd(w, key(w), flow(w).entry_data.d_index)
        \/ /\ flow(w).state = "OFFLOAD"
           /\ SetFlow(w, [flow(w) EXCEPT !.state = "COMPLETE"])
           /\ EnqueueDel(w, key(w))
        \/ NoCommand /\ UNCHANGED memory
    BY <1>6 DEF SrcSameBackend
  <2> QED
    BY <1>3, <1>5, <2>1, <2>2 DEF Established
<1>7. CASE SynAck(w)
  <2>1. In(w, "dst", {"BACKEND_SYN"}) /\ \E r : Done(w, r)
    BY <1>7 DEF SynAck
  <2>2. flow(w).state = "BACKEND_SYN"
    BY <2>1 DEF In
  <2>3. \/ /\ SetFlow(w, [flow(w) EXCEPT !.state = "OFFLOAD"])
           /\ EnqueueAdd(w, key(w), flow(w).entry_data.d_index)
        \/ /\ SetFlow(w, [flow(w) EXCEPT !.state = "COMPLETE"])
           /\ NoCommand
    BY <1>7 DEF SynAck
  <2> QED
    BY <1>5, <2>1, <2>2, <2>3
<1>8. CASE SynAbort(w)
  BY <1>8 DEF SynAbort, Clean
<1>9. CASE NewFlow(w)
  BY <1>9, NewFlowSafe
<1>10. CASE \/ SrcNoRule(w) \/ SrcForward(w) \/ SynRetry(w)
            \/ SynAckIgnored(w) \/ DstForward(w) \/ NewFlowDropped(w)
  BY <1>3, <1>10 DEF SrcNoRule, SrcForward, SynRetry, SynAckIgnored, DstForward,
                     NewFlowDropped
<1> QED
  BY <1>1, <1>2, <1>4, <1>6, <1>7, <1>8, <1>9, <1>10 DEF Handle

\* A part keeps the memory safe; of the commands it is only known that they
\* are for a flow that is on record.
LEMMA PieceSafe ==
    ASSUME TypeOK, FlowsFilledIn, MemorySafe, CachedRequestIsOwn, Clean,
           NEW w \in Worker, PieceShape(w), Clean'
    PROVE  MemorySafe' /\ CachedRequestIsOwn' /\ CommandMatchesFlow(w)
<1>1. PICK k \in Endpoint : k = key(w)
  BY DEF PieceShape
<1>2. /\ k \in mingled' /\ mingled \subseteq mingled'
      /\ \/ NoCommand \/ EnqueueDel(w, k)
         \/ \E d \in DIndex : EnqueueAdd(w, k, d)
  BY <1>1 DEF PieceShape
<1>3. Stays
  BY PieceEffect DEF Stays, key, pkt, Idle
<1>4. /\ MemorySafe' /\ CachedRequestIsOwn'
      /\ \A l \in Endpoint \ {k} : SameOffload(l)
  <2>1. CASE UNCHANGED <<flow_hash_map, heap, live, aborted, raced>>
    BY <1>2, <1>3, <2>1, StillSafe DEF Stays, MemorySafe
  <2>2. CASE Rewritten(w)
    <3>1. PICK at \in {"src", "dst"} : In(w, at, Awake)
      BY <2>2 DEF Rewritten
    <3>2. PICK fd \in flow_data_t :
             fd.state # "INIT" /\ RewrittenTo(w, fd)
      BY <2>2 DEF Rewritten
    <3>3. Awake \in SUBSET {"BACKEND_SYN", "OFFLOAD", "COMPLETE"}
      BY DEF Awake
    <3> QED
      BY <1>1, <1>2, <1>3, <3>1, <3>2, <3>3, SetFlowSafe
  <2>3. CASE Erased(w)
    <3>1. PICK at \in {"src", "dst"} : In(w, at, Awake)
      BY <2>3 DEF Erased
    <3> QED
      BY <1>1, <1>2, <2>3, <3>1, EraseSafe DEF Erased
  <2> QED
    BY <2>1, <2>2, <2>3 DEF PieceShape
<1>5. MingledCommand(w)
  BY <1>2, <1>4 DEF MingledCommand
<1> QED
  BY <1>4, <1>5 DEF CommandMatchesFlow

\* Every step of a worker does both.
LEMMA RunSafe ==
    ASSUME TypeOK, FlowsFilledIn, PartsMingled, MemorySafe, CachedRequestIsOwn,
           Clean, NEW w \in Worker, Run(w), Clean'
    PROVE  MemorySafe' /\ CachedRequestIsOwn' /\ CommandMatchesFlow(w)
BY HandleSafe, PieceIs, PieceSafe DEF Run, Piece

\* Commands issued in step with the flows alternate.
LEMMA AlternateStep ==
    ASSUME TypeOK, CommandsAlternate, Clean, mingled \subseteq mingled',
           NEW w \in Worker, CommandMatchesFlow(w)
    PROVE  CommandsAlternate'
<1>1. CASE NoCommand /\ \A l \in Endpoint : SameOffload(l)
  BY <1>1 DEF NoCommand, SameOffload, CommandsAlternate
<1>2. ASSUME NEW k \in Endpoint,
             \/ NoCommand \/ EnqueueDel(w, k)
             \/ \E d \in DIndex : EnqueueAdd(w, k, d),
             \A l \in Endpoint \ {k} : SameOffload(l),
             NEW l \in Endpoint \ mingled', l # k
      PROVE  Offloaded(l)' <=> cmd'[l] % 2 = 1
  <2>1. cmd'[l] = cmd[l]
    BY <1>2 DEF EnqueueDel, EnqueueAdd, NoCommand, TypeOK
  <2> QED
    BY <1>2, <2>1 DEF SameOffload, CommandsAlternate
<1>3. ASSUME NEW k \in Endpoint,
             EnqueueDel(w, k) \/ \E d \in DIndex : EnqueueAdd(w, k, d),
             Offloaded(k)' <=> ~Offloaded(k),
             \A l \in Endpoint \ {k} : SameOffload(l)
      PROVE  CommandsAlternate'
  <2>1. cmd' = [cmd EXCEPT ![k] = @ + 1]
    BY <1>3 DEF EnqueueDel, EnqueueAdd
  <2>2. cmd[k] \in Nat /\ cmd'[k] = cmd[k] + 1
    BY <2>1 DEF TypeOK
  <2>3. k \notin mingled => (Offloaded(k) <=> cmd[k] % 2 = 1)
    BY DEF CommandsAlternate
  <2>4. cmd'[k] % 2 = 1 <=> ~(cmd[k] % 2 = 1)
    BY <2>2
  <2>5. k \notin mingled' => (Offloaded(k)' <=> cmd'[k] % 2 = 1)
    BY <1>3, <2>3, <2>4
  <2> QED
    BY <1>2, <1>3, <2>5 DEF CommandsAlternate
<1>4. CASE MingledCommand(w)
  BY <1>2, <1>4 DEF MingledCommand, CommandsAlternate
<1> QED
  BY <1>1, <1>3, <1>4 DEF CommandMatchesFlow

\* Memory that is clean after a step was clean before it.
LEMMA CleanBackwards ==
    ASSUME [Next]_vars, Clean'
    PROVE  Clean
<1>1. ASSUME UNCHANGED <<aborted, raced>> PROVE Clean
  BY <1>1 DEF Clean
<1>2. ASSUME UNCHANGED memory PROVE Clean
  BY <1>1, <1>2 DEF memory
<1>3. ASSUME NEW w \in Worker, Handle(w) PROVE Clean
  <2>1. CASE \E r : Teardown(w, r)
    <3>1. PICK r : Teardown(w, r)
      BY <2>1
    <3>2. Free(w) /\ UNCHANGED aborted
      BY <3>1 DEF Teardown
    <3>3. ~raced' => ~raced
      BY <3>2 DEF Free
    <3> QED
      BY <3>2, <3>3 DEF Clean
  <2>2. CASE SynAbort(w)
    BY <2>2 DEF SynAbort, Clean
  <2>3. CASE NewFlow(w)
    BY <1>1, <2>3 DEF NewFlow
  <2>4. CASE \E fd : SetFlow(w, fd)
    BY <1>1, <2>4 DEF SetFlow
  <2>5. CASE SrcReset(w) \/ SrcFin(w) \/ DstReset(w) \/ DstFin(w)
    BY <2>1, <2>5 DEF SrcReset, SrcFin, DstReset, DstFin
  <2>6. CASE SrcReroute(w)
    BY <2>4, <2>6 DEF SrcReroute
  <2>7. CASE SrcSameBackend(w)
    BY <1>2, <2>4, <2>7 DEF SrcSameBackend
  <2>8. CASE SynAck(w)
    BY <2>4, <2>8 DEF SynAck
  <2>9. CASE \/ LookupDst(w) \/ SrcNoRule(w) \/ SrcForward(w) \/ SynRetry(w)
             \/ SynAckIgnored(w) \/ DstForward(w) \/ NewFlowDropped(w)
    BY <1>2, <2>9 DEF LookupDst, SrcNoRule, SrcForward, SynRetry, SynAckIgnored,
                      DstForward, NewFlowDropped
  <2> QED
    BY <1>3, <2>2, <2>3, <2>5, <2>6, <2>7, <2>8, <2>9 DEF Handle
<1>4. CASE UNCHANGED vars
  BY <1>1, <1>4 DEF vars
<1>5. ASSUME NEW w \in Worker, Piece(w) PROVE Clean
  <2>1. CASE ErasePart(w)
    <3>1. Free(w) /\ UNCHANGED aborted
      BY <2>1 DEF ErasePart
    <3>2. ~raced' => ~raced
      BY <3>1 DEF Free
    <3> QED
      BY <3>1, <3>2 DEF Clean
  <2>2. CASE BeginTeardown(w) \/ BeginPayload(w) \/ BeginSynAck(w)
    BY <1>1, <2>2 DEF BeginTeardown, BeginPayload, BeginSynAck, Begin
  <2>3. CASE \/ StatePart(w) \/ RulePart(w) \/ FreePart(w) \/ CachePart(w)
             \/ AnswerPart(w)
    BY <1>1, <2>3 DEF StatePart, RulePart, FreePart, CachePart, AnswerPart, Write,
                      SetFlow
  <2>4. CASE TogglePart(w)
    BY <1>1, <2>4 DEF TogglePart, Write, SetFlow, memory
  <2>5. CASE \/ CheckPart(w) \/ LeavePart(w) \/ AddPart(w) \/ DelPart(w)
             \/ OfferPart(w) \/ ReplayPart(w) \/ LostPart(w)
    BY <1>2, <2>5 DEF CheckPart, LeavePart, TakeBack, AddPart, DelPart, OfferPart,
                      ReplayPart, LostPart
  <2> QED
    BY <1>5, <2>1, <2>2, <2>3, <2>4, <2>5 DEF Piece, Parts
<1> QED
  BY <1>2, <1>3, <1>4, <1>5 DEF Next, Rx, UpdateRule, Run, Piece

\* A flow that is on record stays on record.
LEMMA MingledGrows ==
    ASSUME TypeOK, FlowsFilledIn, PartsMingled, [Next]_vars
    PROVE  mingled \subseteq mingled'
<1>1. ASSUME NEW w \in Worker, Run(w) PROVE mingled \subseteq mingled'
  BY <1>1, WorkerEffect
<1> QED
  BY <1>1 DEF Next, Rx, UpdateRule, memory, vars

\* Memory stays safe in every step, whatever commands were issued before.
LEMMA NextMemInv ==
    ASSUME MemInv, [Next]_vars
    PROVE  MemInv'
<1> USE DEF MemInv
<1>1. TypeOK' /\ FlowsFilledIn' /\ PartsMingled'
  BY NextType
<1>2. CASE ~Clean'
  BY <1>1, <1>2 DEF MemorySafe, CachedRequestIsOwn
<1>3. CASE Clean'
  <2>1. Clean
    BY <1>3, CleanBackwards
  <2>2. ASSUME NEW w \in Worker, Run(w)
        PROVE  MemInv'
    BY <1>1, <1>3, <2>1, <2>2, RunSafe
  <2>3. ASSUME UNCHANGED <<memory, cmd>>,
               \A v \in Worker : \/ worker'[v] = worker[v]
                                 \/ worker'[v].ptr = flow_hash_map[key(v)']
        PROVE  MemInv'
    BY <1>1, <2>3, QuietSafe
  <2>4. ASSUME NEW w \in Worker, NEW p \in Packet, Rx(w, p)
        PROVE  MemInv'
    <3>1. \A v \in Worker : \/ worker'[v] = worker[v]
                            \/ worker'[v].ptr = flow_hash_map[key(v)']
      BY <2>4 DEF Rx, TypeOK, key, pkt
    <3> QED
      BY <2>3, <2>4, <3>1 DEF Rx
  <2>5. ASSUME NEW u \in Url, UpdateRule(u)
        PROVE  MemInv'
    BY <2>3, <2>5 DEF UpdateRule
  <2>6. CASE UNCHANGED vars
    BY <2>3, <2>6 DEF vars, memory
  <2> QED
    BY <2>2, <2>4, <2>5, <2>6 DEF Next
<1> QED
  BY <1>2, <1>3

\* Commands go on alternating when the flows and the commands are unchanged.
LEMMA QuietAlternate ==
    ASSUME CommandsAlternate, UNCHANGED <<memory, cmd>>
    PROVE  CommandsAlternate'
BY DEF CommandsAlternate, Clean, Offloaded, Mapped, FlowOf, memory

\* The inductive invariant is preserved by every step.
LEMMA NextIInv ==
    ASSUME IInv, [Next]_vars
    PROVE  IInv'
<1> USE DEF IInv
<1>1. MemInv'
  BY NextMemInv
<1>2. CASE ~Clean'
  BY <1>1, <1>2 DEF CommandsAlternate
<1>3. CASE Clean'
  <2>1. Clean
    BY <1>3, CleanBackwards DEF MemInv
  <2>2. ASSUME NEW w \in Worker, Run(w)
        PROVE  CommandsAlternate'
    <3>1. CommandMatchesFlow(w)
      BY <1>3, <2>1, <2>2, RunSafe DEF MemInv
    <3>2. mingled \subseteq mingled'
      BY <2>2, WorkerEffect DEF MemInv
    <3> QED
      BY <2>1, <3>1, <3>2, AlternateStep DEF MemInv
  <2>3. ASSUME NEW w \in Worker, NEW p \in Packet, Rx(w, p)
        PROVE  CommandsAlternate'
    BY <2>3, QuietAlternate DEF Rx
  <2>4. ASSUME NEW u \in Url, UpdateRule(u)
        PROVE  CommandsAlternate'
    BY <2>4, QuietAlternate DEF UpdateRule
  <2>5. CASE UNCHANGED vars
    BY <1>1, <2>5, QuietAlternate DEF vars, memory
  <2> QED
    BY <1>1, <2>2, <2>3, <2>4, <2>5 DEF Next
<1> QED
  BY <1>2, <1>3

-----------------------------------------------------------------------------
(* No leak.  NewFlow files its block under src_key only when the key is    *)
(* free, and finds that out two steps after find(src_key).  The key stays  *)
(* free because requests of one client all go to the virtual server, so    *)
(* RSS gives them to one worker.                                           *)

\* The packet makes process_pkts look for a rule, and there is one.
IsRequest(p) == p.url # NULL /\ Rules[p.url] # NULL

\* Every packet in hand came from the queue RSS chose for it.
Dispatched ==
    \A w \in Worker : worker[w] # Idle =>
        pkt(w) \in Packet /\ Rss[<<pkt(w).src, pkt(w).dst>>] = w

\* rule_controller_t knows rules of the configuration only.
KnownRules == \A u \in Url : rule_map[u] \in {NULL, Rules[u]}

\* A worker that did not find its request's source finds it free later, too.
SourceFree ==
    Clean => \A w \in Worker :
        /\ worker[w] # Idle
        /\ IsRequest(pkt(w))
        /\ worker[w].at = "dst" \/ worker[w].ptr = NULL
        => ~Mapped(pkt(w).src)

LeakInv == IInv /\ Dispatched /\ KnownRules /\ SourceFree /\ NoLeak

\* What a handler does to the key space, seen from outside the handler.
KeepsKeys == UNCHANGED <<flow_hash_map, live>>

DropsKey(k) ==
    /\ Mapped(k)
    /\ flow_hash_map' = [flow_hash_map EXCEPT ![k] = NULL]
    /\ live' = live \ {flow_hash_map[k]}

FilesKey(k, a) ==
    /\ flow_hash_map' = [flow_hash_map EXCEPT ![k] = IF @ = NULL THEN a ELSE @]
    /\ live' = live \cup {a}

\* A step of a worker leaves the keys alone, drops one with its flow, or files
\* a new flow under the source of the request it handles.
LEMMA KeyEffect ==
    ASSUME IInv, KnownRules, Clean, NEW w \in Worker, Run(w), Clean'
    PROVE  \/ KeepsKeys
           \/ \E k \in Endpoint : DropsKey(k)
           \/ /\ worker[w].at = "dst" /\ worker'[w] = Idle
              /\ IsRequest(pkt(w))
              /\ \E a \in Addr : FilesKey(pkt(w).src, a)
<1> USE DEF IInv, MemInv
<1>1. CASE SrcReset(w) \/ SrcFin(w) \/ DstReset(w) \/ DstFin(w)
  <2>1. PICK at \in {"src", "dst"} : In(w, at, Established)
    BY <1>1 DEF SrcReset, SrcFin, DstReset, DstFin
  <2>2. PICK r : Teardown(w, r)
    BY <1>1 DEF SrcReset, SrcFin, DstReset, DstFin
  <2>3. /\ key(w) \in Endpoint
        /\ flow_hash_map[key(w)] = worker[w].ptr
        /\ Mapped(key(w))
    BY <2>1, HeldFlow DEF Established
  <2>4. DropsKey(key(w))
    BY <2>2, <2>3 DEF DropsKey, Teardown, Free
  <2> QED
    BY <2>3, <2>4
<1>2. CASE NewFlow(w)
  <2>1. worker[w].at = "dst" /\ worker[w] # Idle
    BY <1>2 DEF NewFlow, NoCase, Idle
  <2>2. pkt(w) \in packet_t
    BY <2>1, BusyWorker
  <2>3. IsRequest(pkt(w))
    BY <1>2, <2>2 DEF NewFlow, lookup_balancing_rule, IsRequest, KnownRules,
                      packet_t
  <2>4. \E a \in Addr : FilesKey(pkt(w).src, a)
    BY <1>2 DEF NewFlow, FilesKey
  <2>5. worker'[w] = Idle
    BY <1>2 DEF NewFlow, Done, TypeOK
  <2> QED
    BY <2>1, <2>3, <2>4, <2>5
<1>3. CASE SynAbort(w)
  BY <1>3 DEF SynAbort, Clean
<1>4. CASE SrcReroute(w) \/ SrcSameBackend(w) \/ SynAck(w)
  BY <1>4 DEF SrcReroute, SrcSameBackend, SynAck, SetFlow, memory, KeepsKeys
<1>5. CASE \/ LookupDst(w) \/ SrcNoRule(w) \/ SrcForward(w) \/ SynRetry(w)
           \/ SynAckIgnored(w) \/ DstForward(w) \/ NewFlowDropped(w)
  BY <1>5 DEF LookupDst, SrcNoRule, SrcForward, SynRetry, SynAckIgnored,
              DstForward, NewFlowDropped, memory, KeepsKeys
<1>6. CASE Piece(w)
  <2>1. PieceShape(w)
    BY <1>6, PieceIs
  <2>2. CASE Erased(w)
    <3>1. PICK at \in {"src", "dst"} : In(w, at, Awake)
      BY <2>2 DEF Erased
    <3>2. /\ key(w) \in Endpoint
          /\ flow_hash_map[key(w)] = worker[w].ptr
          /\ Mapped(key(w))
      BY <3>1, HeldFlow DEF Awake
    <3>3. DropsKey(key(w))
      BY <2>2, <3>2 DEF DropsKey, Erased, Free
    <3> QED
      BY <3>2, <3>3
  <2>3. CASE ~Erased(w)
    BY <2>1, <2>3 DEF PieceShape, Rewritten, RewrittenTo, KeepsKeys
  <2> QED
    BY <2>2, <2>3
<1> QED
  BY <1>1, <1>2, <1>3, <1>4, <1>5, <1>6 DEF Handle, Run, Piece

\* Packets stay with the worker RSS chose, and rules are the configured ones.
LEMMA NextDispatched ==
    ASSUME TypeOK, FlowsFilledIn, PartsMingled, Dispatched, KnownRules,
           [Next]_vars
    PROVE  Dispatched' /\ KnownRules'
<1>1. ASSUME NEW w \in Worker, NEW p \in Packet, Rx(w, p)
      PROVE  Dispatched' /\ KnownRules'
  BY <1>1 DEF Rx, Dispatched, KnownRules, TypeOK, pkt
<1>2. ASSUME NEW w \in Worker, Run(w)
      PROVE  Dispatched' /\ KnownRules'
  BY <1>2, WorkerEffect DEF Dispatched, KnownRules, pkt
<1>3. ASSUME NEW u \in Url, UpdateRule(u)
      PROVE  Dispatched' /\ KnownRules'
  BY <1>3 DEF UpdateRule, Dispatched, KnownRules, TypeOK, pkt
<1>4. CASE UNCHANGED vars
  BY <1>4 DEF vars, Dispatched, KnownRules, pkt
<1> QED
  BY <1>1, <1>2, <1>3, <1>4 DEF Next

\* Two workers never hold requests of the same source.
LEMMA OneWorkerPerSource ==
    ASSUME Dispatched, NEW v \in Worker, NEW w \in Worker,
           worker[v] # Idle, worker[w] # Idle,
           IsRequest(pkt(v)), IsRequest(pkt(w)), pkt(v).src = pkt(w).src
    PROVE  v = w
<1>1. pkt(v) \in Packet /\ pkt(w) \in Packet
  BY DEF Dispatched
<1>2. pkt(v).dst = VIP /\ pkt(w).dst = VIP
  BY <1>1, TrafficAssumption DEF IsRequest
<1> QED
  BY <1>2 DEF Dispatched

\* With clean memory, a worker's step keeps the sources of waiting requests free
\* and every allocated flow reachable.
LEMMA RunLeak ==
    ASSUME LeakInv, Clean, NEW w \in Worker, Run(w), Clean'
    PROVE  SourceFree' /\ NoLeak'
<1> USE DEF LeakInv
<1>1. TypeOK /\ MemorySafe /\ FlowsFilledIn /\ PartsMingled
  BY DEF IInv, MemInv
<1>2. /\ worker[w] # Idle
      /\ \A v \in Worker \ {w} : worker'[v] = worker[v]
      /\ \/ worker'[w] = Idle
         \/ /\ LookupDst(w)
            /\ worker'[w].at = "dst"
            /\ worker'[w].pkt = worker[w].pkt
         \/ /\ worker'[w].at = worker[w].at
            /\ worker'[w].pkt = worker[w].pkt
            /\ worker'[w].ptr = worker[w].ptr
  BY <1>1, WorkerEffect
\* A worker waiting after the step was waiting before it, on the same packet.
<1>3. ASSUME NEW v \in Worker, worker'[v] # Idle, IsRequest(pkt(v)'),
             worker'[v].at = "dst" \/ worker'[v].ptr = NULL
      PROVE  /\ worker[v] # Idle /\ pkt(v)' = pkt(v)
             /\ ~Mapped(pkt(v).src)
  <2>1. CASE v # w
    BY <1>2, <1>3, <2>1 DEF pkt, SourceFree
  <2>2. CASE v = w /\ worker'[w].at = worker[w].at /\ worker'[w].ptr = worker[w].ptr
    BY <1>2, <1>3, <2>2 DEF pkt, SourceFree
  <2>3. CASE v = w /\ LookupDst(w)
    <3>1. pkt(w)' = pkt(w)
      BY <1>2, <1>3, <2>3 DEF pkt
    <3>2. worker[w].at = "src"
      BY <2>3 DEF LookupDst, NoCase
    <3>3. worker[w].ptr = NULL
      <4> SUFFICES ASSUME worker[w].ptr # NULL PROVE FALSE
        OBVIOUS
      <4>1. worker[w].ptr = flow_hash_map[key(w)] /\ key(w) \in Endpoint
        BY <1>1, <1>2, BusyWorker DEF MemorySafe
      <4>2. flow(w).state # "INIT"
        BY <1>1, <4>1 DEF MemorySafe, Mapped, FlowOf, flow
      <4> QED
        BY <2>3, <4>2 DEF LookupDst, NoCase
    <3> QED
      BY <1>2, <1>3, <2>3, <3>1, <3>3 DEF SourceFree
  <2> QED
    BY <1>2, <1>3, <2>1, <2>2, <2>3
<1>4. \A v \in Worker : worker[v] # Idle => pkt(v).src \in Endpoint
  BY <1>1, BusyWorker DEF packet_t
<1>5. CASE KeepsKeys
  BY <1>3, <1>5 DEF KeepsKeys, SourceFree, NoLeak, Mapped
<1>6. ASSUME NEW k \in Endpoint, DropsKey(k)
      PROVE  SourceFree' /\ NoLeak'
  <2>1. \A l \in Endpoint : ~Mapped(l) => ~Mapped(l)'
    BY <1>1, <1>6 DEF DropsKey, Mapped, TypeOK
  <2>2. SourceFree'
    BY <1>3, <1>4, <2>1 DEF SourceFree, Mapped
  <2>3. NoLeak'
    BY <1>1, <1>6 DEF DropsKey, NoLeak, TypeOK
  <2> QED
    BY <2>2, <2>3
<1>7. ASSUME worker[w].at = "dst", worker'[w] = Idle, IsRequest(pkt(w)), NEW a \in Addr,
             FilesKey(pkt(w).src, a)
      PROVE  SourceFree' /\ NoLeak'
  <2>1. ~Mapped(pkt(w).src) /\ pkt(w).src \in Endpoint
    BY <1>2, <1>4, <1>7 DEF SourceFree
  <2>2. flow_hash_map' = [flow_hash_map EXCEPT ![pkt(w).src] = a]
    BY <1>7, <2>1 DEF FilesKey, Mapped
  <2>3. NoLeak'
    <3>1. flow_hash_map'[pkt(w).src] = a
      BY <1>1, <2>1, <2>2 DEF TypeOK
    <3>2. ASSUME NEW b \in live PROVE \E l \in Endpoint : flow_hash_map'[l] = b
      <4>1. PICK l \in Endpoint : flow_hash_map[l] = b
        BY DEF NoLeak
      <4>2. l # pkt(w).src
        BY <1>1, <2>1, <4>1, NullAssumption DEF Mapped, TypeOK
      <4> QED
        BY <1>1, <2>2, <4>1, <4>2 DEF TypeOK
    <3> QED
      BY <1>7, <2>1, <3>1, <3>2 DEF FilesKey, NoLeak
  <2>4. ASSUME NEW v \in Worker, worker'[v] # Idle, IsRequest(pkt(v)'),
               worker'[v].at = "dst" \/ worker'[v].ptr = NULL
        PROVE  ~Mapped(pkt(v).src)'
    <3>1. /\ worker[v] # Idle /\ pkt(v)' = pkt(v) /\ v # w
          /\ ~Mapped(pkt(v).src)
      BY <1>3, <1>7, <2>4
    <3>2. pkt(v).src # pkt(w).src
      BY <1>2, <1>7, <2>4, <3>1, OneWorkerPerSource
    <3>3. flow_hash_map'[pkt(v).src] = flow_hash_map[pkt(v).src]
      BY <1>1, <1>4, <2>2, <3>1, <3>2 DEF TypeOK
    <3> QED
      BY <3>1, <3>3 DEF Mapped
  <2>5. SourceFree'
    BY <2>4 DEF SourceFree
  <2> QED
    BY <2>3, <2>5
<1> QED
  BY <1>5, <1>6, <1>7, KeyEffect

\* The invariant behind NoLeak is inductive.
LEMMA NextLeakInv ==
    ASSUME LeakInv, [Next]_vars
    PROVE  LeakInv'
<1>1. IInv' /\ Dispatched' /\ KnownRules'
  BY NextIInv, NextDispatched DEF LeakInv, IInv, MemInv
<1>2. CASE ~Clean'
  BY <1>1, <1>2 DEF LeakInv, SourceFree, NoLeak
<1>3. CASE Clean'
  <2>1. Clean
    BY <1>3, CleanBackwards
  <2>2. ASSUME NEW w \in Worker, Run(w)
        PROVE  SourceFree' /\ NoLeak'
    BY <1>3, <2>1, <2>2, RunLeak
  <2>3. ASSUME NEW w \in Worker, NEW p \in Packet, Rx(w, p)
        PROVE  SourceFree' /\ NoLeak'
    <3>1. /\ worker'[w] = [at |-> "src", pkt |-> p, ptr |-> flow_hash_map[p.src],
                        part |-> NULL]
          /\ \A v \in Worker \ {w} : worker'[v] = worker[v]
      BY <2>3 DEF Rx, LeakInv, IInv, MemInv, TypeOK
    <3> QED
      BY <2>1, <2>3, <3>1 DEF Rx, LeakInv, SourceFree, NoLeak, Mapped, memory, pkt
  <2>4. ASSUME UNCHANGED <<memory, worker>>
        PROVE  SourceFree' /\ NoLeak'
    BY <2>1, <2>4 DEF LeakInv, SourceFree, NoLeak, Mapped, memory, pkt
  <2> QED
    BY <1>1, <2>2, <2>3, <2>4 DEF LeakInv, Next, UpdateRule, vars, memory
<1> QED
  BY <1>2, <1>3

-----------------------------------------------------------------------------
(* Teardown tells both ends.                                               *)

\* Among two replies, the one to an end with RST set is found.
LEMMA ResetAmong ==
    ASSUME NEW r1, NEW r2, NEW end
    PROVE  /\ r1.dst = end /\ "RST" \in r1.flags => Resets(<<r1, r2>>, end)
           /\ r2.dst = end /\ "RST" \in r2.flags => Resets(<<r1, r2>>, end)
<1>1. DOMAIN <<r1, r2>> = {1, 2}
  OBVIOUS
<1> QED
  BY <1>1 DEF Resets

\* A single reply to an end with RST set is found.
LEMMA ResetAlone ==
    ASSUME NEW r1, NEW end, r1.dst = end, "RST" \in r1.flags
    PROVE  Resets(<<r1>>, end)
<1>1. DOMAIN <<r1>> = {1}
  OBVIOUS
<1> QED
  BY <1>1 DEF Resets

\* A step that takes key k out of flow_hash_map is one of the four handlers
\* that tear a flow down, and k is the key it works under, unless the case
\* has run in parts.
LEMMA DropIsTeardown ==
    ASSUME IInv, Clean, NEW w \in Worker, Run(w),
           NEW k \in Endpoint \ mingled, Mapped(k), flow_hash_map'[k] = NULL
    PROVE  /\ SrcReset(w) \/ SrcFin(w) \/ DstReset(w) \/ DstFin(w)
           /\ key(w) = k
           /\ FlowOf(k) = flow(w)
<1> USE DEF IInv, MemInv
<1>1. ASSUME UNCHANGED flow_hash_map PROVE FALSE
  BY <1>1 DEF Mapped
<1>2. CASE SrcReset(w) \/ SrcFin(w) \/ DstReset(w) \/ DstFin(w)
  <2>1. PICK at \in {"src", "dst"} : In(w, at, Established)
    BY <1>2 DEF SrcReset, SrcFin, DstReset, DstFin
  <2>2. PICK r : Teardown(w, r)
    BY <1>2 DEF SrcReset, SrcFin, DstReset, DstFin
  <2>3. key(w) \in Endpoint /\ FlowOf(key(w)) = flow(w)
    BY <2>1, HeldFlow DEF Established
  <2>4. key(w) = k
    BY <2>2, <2>3 DEF Teardown, Mapped, TypeOK
  <2> QED
    BY <1>2, <2>3, <2>4
<1>3. CASE NewFlow(w)
  <2>1. PICK a \in Addr :
           flow_hash_map' = [flow_hash_map EXCEPT ![pkt(w).src] =
                                    IF @ = NULL THEN a ELSE @]
    BY <1>3 DEF NewFlow
  <2>2. flow_hash_map'[k] = flow_hash_map[k]
    BY <2>1 DEF Mapped, TypeOK
  <2> QED
    BY <2>2 DEF Mapped
<1>4. CASE SrcReroute(w) \/ SrcSameBackend(w) \/ SynAck(w) \/ SynAbort(w)
  BY <1>1, <1>4 DEF SrcReroute, SrcSameBackend, SynAck, SynAbort, SetFlow, memory
<1>5. CASE \/ LookupDst(w) \/ SrcNoRule(w) \/ SrcForward(w) \/ SynRetry(w)
           \/ SynAckIgnored(w) \/ DstForward(w) \/ NewFlowDropped(w)
  BY <1>1, <1>5 DEF LookupDst, SrcNoRule, SrcForward, SynRetry, SynAckIgnored,
                    DstForward, NewFlowDropped, memory
<1>6. CASE Piece(w)
  <2>1. PieceShape(w)
    BY <1>6, PieceIs
  <2>2. CASE Erased(w)
    <3>1. flow_hash_map' = [flow_hash_map EXCEPT ![key(w)] = NULL]
      BY <2>2 DEF Erased
    <3>2. key(w) \in mingled
      BY <2>2 DEF Erased, PartsMingled
    <3> QED
      BY <3>1, <3>2 DEF Mapped, TypeOK
  <2>3. CASE ~Erased(w)
    BY <1>1, <2>1, <2>3 DEF PieceShape, Rewritten, RewrittenTo
  <2> QED
    BY <2>2, <2>3
<1> QED
  BY <1>2, <1>3, <1>4, <1>5, <1>6 DEF Handle, Run, Piece

\* The replies of the four handlers that tear a flow down.
LEMMA TeardownTells ==
    ASSUME IInv, Clean, NEW w \in Worker, NEW k \in Endpoint, key(w) = k,
           SrcReset(w) \/ SrcFin(w) \/ DstReset(w) \/ DstFin(w),
           NEW d, d = flow(w).entry_data.d_index,
           pkt(w).src \in {k, d} \ {pkt(w).dst},
           NEW end \in {k, d}
    PROVE  \/ pkt(w).src = end /\ "RST" \in pkt(w).flags
           \/ Resets(send_pkts', end)
<1> DEFINE p == pkt(w)
<1>1. p \in packet_t
  BY InFlow DEF SrcReset, SrcFin, DstReset, DstFin, Established, IInv, MemInv
<1>2. AsRst(p).src = p.src /\ AsRst(p).dst = p.dst /\ AsRst(p).flags = {"RST"}
  BY <1>1 DEF AsRst, packet_t
<1>3. CASE SrcReset(w)
  <2>1. p.src = k /\ "RST" \in p.flags
    BY <1>3 DEF SrcReset, In, key
  <2>2. send_pkts' = <<forward_inbound_pkt(d, p)>>
    BY <1>3 DEF SrcReset, Teardown, Done
  <2> QED
    BY <2>1, <2>2, ResetAlone DEF forward_inbound_pkt, Header
<1>4. CASE SrcFin(w)
  <2>1. p.src = k
    BY <1>4 DEF SrcFin, In, key
  <2>2. send_pkts' = <<reply_rst_pkt(p), forward_inbound_pkt(d, AsRst(p))>>
    BY <1>4 DEF SrcFin, Teardown, Done
  <2> QED
    BY <1>2, <2>1, <2>2, ResetAmong DEF reply_rst_pkt, forward_inbound_pkt, Header
<1>5. CASE DstReset(w)
  <2>1. p.dst = k /\ p.src = d /\ "RST" \in p.flags
    BY <1>5 DEF DstReset, In, key
  <2>2. send_pkts' = <<forward_outbound_pkt(p)>>
    BY <1>5 DEF DstReset, Teardown, Done
  <2> QED
    BY <2>1, <2>2, ResetAlone DEF forward_outbound_pkt, Header
<1>6. CASE DstFin(w)
  <2>1. p.dst = k /\ p.src = d
    BY <1>6 DEF DstFin, In, key
  <2>2. send_pkts' = <<reply_rst_pkt(p), forward_outbound_pkt(AsRst(p))>>
    BY <1>6 DEF DstFin, Teardown, Done
  <2> QED
    BY <1>2, <2>1, <2>2, ResetAmong DEF reply_rst_pkt, forward_outbound_pkt, Header
<1> QED
  BY <1>3, <1>4, <1>5, <1>6

\* Every step tells both ends of a flow it tears down.
LEMMA StepTells ==
    ASSUME IInv, [Next]_vars
    PROVE  [TellsBothEnds]_vars
<1>1. CASE UNCHANGED vars
  BY <1>1
<1>2. CASE Next
  <2> SUFFICES ASSUME NEW k \in Endpoint, NEW w \in Worker, Clean, k \notin mingled,
                      worker[w] # Idle, worker'[w] = Idle,
                      Mapped(k), flow_hash_map'[k] = NULL,
                      pkt(w).src \in {k, FlowOf(k).entry_data.d_index}
                                        \ {pkt(w).dst},
                      NEW end \in {k, FlowOf(k).entry_data.d_index}
               PROVE  \/ pkt(w).src = end /\ "RST" \in pkt(w).flags
                      \/ Resets(send_pkts', end)
    BY DEF TellsBothEnds
  <2>1. ASSUME NEW v \in Worker, NEW p \in Packet, Rx(v, p) PROVE FALSE
    BY <2>1 DEF Rx, memory, Mapped
  <2>2. ASSUME NEW u \in Url, UpdateRule(u) PROVE FALSE
    BY <2>2 DEF UpdateRule, memory, Mapped
  <2>3. PICK v \in Worker : Run(v)
    BY <1>2, <2>1, <2>2 DEF Next
  <2>4. v = w
    BY <2>3, WorkerEffect DEF IInv, MemInv
  <2>5. /\ SrcReset(w) \/ SrcFin(w) \/ DstReset(w) \/ DstFin(w)
        /\ key(w) = k /\ FlowOf(k) = flow(w)
    BY <2>3, <2>4, DropIsTeardown
  <2> QED
    BY <2>5, TeardownTells
<1> QED
  BY <1>1, <1>2

-----------------------------------------------------------------------------
\* Type correctness of the packet workers.
THEOREM TypeCorrect == Spec => []TypeOK
<1>1. Init => IInv
  BY InitIInv
<1>2. IInv /\ [Next]_vars => IInv'
  BY NextIInv
<1>3. IInv => TypeOK
  BY DEF IInv, MemInv
<1> QED
  BY <1>1, <1>2, <1>3, PTL DEF Spec

\* Away from the two known defects no worker dereferences a freed or foreign
\* flow, whatever the interleaving of the workers.
THEOREM MemorySafety == Spec => []MemorySafe
<1>1. Init => IInv
  BY InitIInv
<1>2. IInv /\ [Next]_vars => IInv'
  BY NextIInv
<1>3. IInv => MemorySafe
  BY DEF IInv, MemInv
<1> QED
  BY <1>1, <1>2, <1>3, PTL DEF Spec

\* Away from the same defects the commands of a key alternate, on whichever
\* workers its packets are handled, as long as no case of its flow has run
\* in parts.
THEOREM CommandDiscipline == Spec => []CommandsAlternate
<1>1. Init => IInv
  BY InitIInv
<1>2. IInv /\ [Next]_vars => IInv'
  BY NextIInv
<1>3. IInv => CommandsAlternate
  BY DEF IInv, MemInv
<1> QED
  BY <1>1, <1>2, <1>3, PTL DEF Spec

\* The request SynAck replays to a backend is the one of the client the flow
\* is filed under, as long as no case of the flow has run in parts.
THEOREM CachedRequests == Spec => []CachedRequestIsOwn
<1>1. Init => IInv
  BY InitIInv
<1>2. IInv /\ [Next]_vars => IInv'
  BY NextIInv
<1>3. IInv => CachedRequestIsOwn
  BY DEF IInv, MemInv
<1> QED
  BY <1>1, <1>2, <1>3, PTL DEF Spec

\* Away from the same defects no flow_data_t is lost, whatever the workers'
\* interleaving: NewFlow never finds its key taken by someone else.
THEOREM LeakFree == Spec => []NoLeak
<1>1. Init => LeakInv
  <2> SUFFICES ASSUME Init PROVE LeakInv
    OBVIOUS
  <2>1. Dispatched /\ SourceFree /\ NoLeak
    BY DEF Init, Dispatched, SourceFree, NoLeak
  <2>2. KnownRules
    BY DEF Init, KnownRules
  <2> QED
    BY <2>1, <2>2, InitIInv DEF LeakInv
<1>2. LeakInv /\ [Next]_vars => LeakInv'
  BY NextLeakInv
<1>3. LeakInv => NoLeak
  BY DEF LeakInv
<1> QED
  BY <1>1, <1>2, <1>3, PTL DEF Spec

\* SrcReset, SrcFin, DstReset and DstFin tell both ends of the flow they tear
\* down, and no other step takes a flow out of flow_hash_map, except for flows
\* of which a case has run in parts.
THEOREM BothEndsTold == Spec => BothEndsReset
<1>1. Init => IInv
  BY InitIInv
<1>2. IInv /\ [Next]_vars => IInv'
  BY NextIInv
<1>3. IInv /\ [Next]_vars => [TellsBothEnds]_vars
  BY StepTells
<1> QED
  BY <1>1, <1>2, <1>3, PTL DEF Spec, BothEndsReset
=============================================================================
