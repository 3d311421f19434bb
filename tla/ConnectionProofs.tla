-------------------------- MODULE ConnectionProofs --------------------------
(***************************************************************************)
(* Proofs about Connection for any number of clients, backends, workers    *)
(* and requests.                                                           *)
(*                                                                         *)
(* RightBackend is about what a backend has answered.  It is decided when  *)
(* the Frontend sends, so the invariant follows the request: from the      *)
(* client (FromClient) into a worker's hands and a flow's recv_pkt, whose  *)
(* rule is the flow's entry_data at every step, and from there to the      *)
(* network again (Relayed).  The invariant is one of behaviours in which   *)
(* no case has run in parts (Apart): one that has stays on record in       *)
(* mingled, and both properties are then true without further ado.         *)
(***************************************************************************)
EXTENDS Connection, PktProcessorProofs

\* The rule for u names backend d.
RuleFor(u, d) == u \in Url /\ Rules[u] # NULL /\ Rules[u].d_index = d

\* What a client sends: a request, or a packet without payload.
FromClient(p) ==
    /\ p \in packet_t
    /\ p.src \in Client /\ p.dst = VIP
    /\ p.url # NULL => p.flags = {"ACK"}

\* What a backend sends: its payload starts with no url that has a rule.
FromBackend(p) ==
    /\ p \in packet_t
    /\ p.src \in DIndex /\ p.dst \in Client
    /\ p.url # NULL => Rules[p.url] = NULL

\* What the Frontend sends: a payload of a client goes to its rule's backend.
Relayed(p) ==
    /\ p.src \notin DIndex
    /\ p.src \in Client =>
          p.dst \in DIndex /\ (p.url # NULL => RuleFor(p.url, p.dst))

OnTheWay == \A p \in net : FromClient(p) \/ FromBackend(p) \/ Relayed(p)

InHand ==
    \A w \in Worker : worker[w] # Idle => FromClient(pkt(w)) \/ FromBackend(pkt(w))

\* Flows are filed under clients, and the key a worker found one under is one.
ClientKeys ==
    /\ \A k \in Endpoint : Mapped(k) => k \in Client
    /\ \A w \in Worker : worker[w] # Idle /\ worker[w].ptr # NULL => key(w) \in Client

\* recv_pkt is a request, and entry_data its rule's.
CachedRule ==
    \A a \in Addr : heap[a].state # "INIT" =>
        /\ FromClient(heap[a].recv_pkt) /\ heap[a].recv_pkt.url # NULL
        /\ RuleFor(heap[a].recv_pkt.url, heap[a].entry_data.d_index)

\* No case has run in parts, and none is underway.
Apart == mingled = {} /\ \A w \in Worker : part(w) = NULL

EndsTypeOK ==
    /\ asked \in [Client -> Nat \ {0}]
    /\ sock \in [DIndex -> [Client -> {"none", "syn", "open"}]]

ServedRight == \A s \in served : RuleFor(s[2], s[1])

CInv ==
    /\ TypeOK /\ FlowsFilledIn /\ KnownRules /\ Apart
    /\ OnTheWay /\ InHand /\ ClientKeys /\ CachedRule
    /\ EndsTypeOK /\ ServedRight

-----------------------------------------------------------------------------
\* Initially nothing is on its way and nothing has been answered.
LEMMA InitCInv == ConnectionInit => CInv
<1> SUFFICES ASSUME ConnectionInit PROVE CInv
  OBVIOUS
<1> USE DEF ConnectionInit
<1>1. TypeOK /\ FlowsFilledIn
  BY InitIInv DEF IInv, MemInv
<1>2. KnownRules
  BY DEF Init, KnownRules
<1>3. OnTheWay /\ InHand /\ ServedRight
  BY DEF Init, OnTheWay, InHand, ServedRight
<1>4. ClientKeys /\ CachedRule
  BY DEF Init, ClientKeys, CachedRule, Mapped, Zeroed
<1>5. EndsTypeOK
  BY DEF EndsTypeOK
<1>6. Apart
  BY DEF Init, Apart, part, Idle
<1> QED
  BY <1>1, <1>2, <1>3, <1>4, <1>5, <1>6 DEF CInv

\* A case that has run in parts stays on record.
LEMMA MingledBackwards ==
    ASSUME [ConnectionNext]_cvars, mingled' = {}
    PROVE  mingled = {}
<1>1. ASSUME NEW w \in Worker, Handle(w) PROVE mingled' = mingled
  BY <1>1 DEF Handle, LookupDst, SrcReset, SrcFin, SrcNoRule, SrcReroute,
              SrcSameBackend, SrcForward, SynAbort, SynRetry, SynAckIgnored, SynAck,
              DstReset, DstFin, DstForward, NewFlowDropped, NewFlow, Teardown,
              SetFlow, memory
<1>2. ASSUME NEW w \in Worker, Parts(w) PROVE mingled' = mingled
  BY <1>2 DEF Parts, CheckPart, ErasePart, LeavePart, StatePart, RulePart, FreePart,
              CachePart, TogglePart, AddPart, DelPart, AnswerPart, OfferPart,
              ReplayPart, LostPart, TakeBack, Write, SetFlow, memory
<1>3. ASSUME NEW w \in Worker, BeginTeardown(w) \/ BeginPayload(w) \/ BeginSynAck(w)
      PROVE  mingled \subseteq mingled'
  BY <1>3 DEF BeginTeardown, BeginPayload, BeginSynAck, Begin
<1>4. ASSUME NEW w \in Worker, Process(w) PROVE mingled \subseteq mingled'
  BY <1>1, <1>2, <1>3, <1>4 DEF Process, Run
<1>5. CASE ~\E w \in Worker : Process(w)
  BY <1>5 DEF ConnectionNext, Receive, Rx, LearnRule, UpdateRule, Lose, Ask, Hangup,
              ClientReceive, BackendReceive, IdleTimeout, memory, vars, cvars
<1> QED
  BY <1>4, <1>5

\* While there is no such case, workers take whole cases.
LEMMA WholeCases ==
    ASSUME Apart, NEW w \in Worker, Run(w), mingled' = {}
    PROVE  Handle(w)
<1>1. part(w) = NULL
  BY DEF Apart
<1>2. ~Parts(w)
  BY <1>1 DEF Parts, CheckPart, ErasePart, LeavePart, StatePart, RulePart, FreePart,
              CachePart, TogglePart, AddPart, DelPart, AnswerPart, OfferPart,
              ReplayPart, LostPart, At
<1>3. ~(BeginTeardown(w) \/ BeginPayload(w) \/ BeginSynAck(w))
  BY DEF BeginTeardown, BeginPayload, BeginSynAck, Begin
<1> QED
  BY <1>2, <1>3 DEF Run

\* A worker that found a flow under its packet's source has a client's packet
\* in hand, and one that found it under the destination a backend's.
LEMMA WhoseInHand ==
    ASSUME CInv, NEW w \in Worker,
           NEW at \in {"src", "dst"},
           NEW cases \in SUBSET {"BACKEND_SYN", "OFFLOAD", "COMPLETE"},
           In(w, at, cases)
    PROVE  /\ at = "src" => FromClient(pkt(w))
           /\ at = "dst" => FromBackend(pkt(w))
           /\ pkt(w) \in packet_t
           /\ flow(w) \in flow_data_t /\ flow(w).state # "INIT"
           /\ flow(w).entry_data \in my_data_t
           /\ flow(w).entry_data.d_index \in DIndex
           /\ FromClient(flow(w).recv_pkt) /\ flow(w).recv_pkt.url # NULL
           /\ RuleFor(flow(w).recv_pkt.url, flow(w).entry_data.d_index)
           /\ worker[w].ptr \in Addr
<1> USE DEF CInv
<1>1. /\ worker[w] # Idle /\ worker[w].ptr \in Addr /\ pkt(w) \in packet_t
      /\ flow(w) \in flow_data_t
      /\ flow(w).entry_data \in my_data_t
      /\ flow(w).entry_data.d_index \in DIndex
  BY InFlow
<1>2. worker[w].ptr # NULL /\ worker[w].at = at /\ flow(w).state # "INIT"
  BY DEF In
<1>3. key(w) \in Client
  BY <1>1, <1>2 DEF ClientKeys
<1>4. FromClient(pkt(w)) \/ FromBackend(pkt(w))
  BY <1>1 DEF InHand
<1>5. at = "src" => FromClient(pkt(w))
  BY <1>2, <1>3, <1>4, EndpointAssumption DEF key, FromClient, FromBackend
<1>6. at = "dst" => FromBackend(pkt(w))
  BY <1>2, <1>3, <1>4, EndpointAssumption DEF key, FromClient, FromBackend
<1>7. /\ FromClient(flow(w).recv_pkt) /\ flow(w).recv_pkt.url # NULL
      /\ RuleFor(flow(w).recv_pkt.url, flow(w).entry_data.d_index)
  BY <1>1, <1>2 DEF CachedRule, flow
<1> QED
  BY <1>1, <1>2, <1>5, <1>6, <1>7

\* A url with a rule in hand: the packet is a client's request.
LEMMA RuleMeansClient ==
    ASSUME CInv, NEW w \in Worker, worker[w] # Idle,
           pkt(w).url # NULL, lookup_balancing_rule(pkt(w).url) # NULL
    PROVE  /\ FromClient(pkt(w))
           /\ lookup_balancing_rule(pkt(w).url) \in my_data_t
           /\ RuleFor(pkt(w).url, lookup_balancing_rule(pkt(w).url).d_index)
           /\ lookup_balancing_rule(pkt(w).url).d_index \in DIndex
<1> USE DEF CInv
<1>1. pkt(w).url \in Url
  BY BusyWorker DEF packet_t
<1>2. lookup_balancing_rule(pkt(w).url) = Rules[pkt(w).url]
  BY <1>1 DEF lookup_balancing_rule, KnownRules
<1>3. Rules[pkt(w).url] \in my_data_t
  BY <1>1, <1>2, RulesAssumption
<1> QED
  BY <1>1, <1>2, <1>3 DEF InHand, FromBackend, RuleFor, my_data_t

\* What the Frontend makes of a client's packet.
LEMMA ClientReplies ==
    ASSUME NEW p, FromClient(p), NEW d \in DIndex
    PROVE  /\ Relayed(reply_rst_pkt(p))
           /\ Relayed(send_syn_pkt(d, p))
           /\ send_rst_pkt(d, p).dst \notin Endpoint
           /\ p.url = NULL \/ RuleFor(p.url, d) =>
                 /\ Relayed(forward_inbound_pkt(d, p))
                 /\ Relayed(send_cached_pkt(d, p))
           /\ p.url = NULL => Relayed(forward_inbound_pkt(d, AsRst(p)))
<1>1. p.src \in Client /\ p.dst = VIP /\ p.src \notin DIndex /\ VIP \notin DIndex \cup Client
  BY EndpointAssumption DEF FromClient
<1>2. AsRst(p).src = p.src /\ AsRst(p).url = p.url
  BY DEF AsRst, FromClient, packet_t
<1>3. send_rst_pkt(d, p).dst \notin Endpoint
  BY AddressAssumption DEF send_rst_pkt, Header
<1> QED
  BY <1>1, <1>2, <1>3
  DEF Relayed, reply_rst_pkt, send_syn_pkt, forward_inbound_pkt, send_cached_pkt, Header

\* What the Frontend makes of a backend's packet.
LEMMA BackendReplies ==
    ASSUME NEW p, FromBackend(p)
    PROVE  /\ Relayed(reply_rst_pkt(p))
           /\ Relayed(forward_outbound_pkt(p))
           /\ Relayed(forward_outbound_pkt(AsRst(p)))
<1>1. p.src \in DIndex /\ p.dst \in Client /\ p.dst \notin DIndex /\ VIP \notin DIndex \cup Client
  BY EndpointAssumption DEF FromBackend
<1> QED
  BY <1>1 DEF Relayed, reply_rst_pkt, forward_outbound_pkt, Header

\* The replies that have an address are Relayed.
AllRelayed(replies) ==
    \A i \in DOMAIN replies : replies[i].dst \in Endpoint => Relayed(replies[i])

\* At most two replies are made for a packet.
LEMMA FewReplies ==
    ASSUME NEW r1, NEW r2,
           r1.dst \in Endpoint => Relayed(r1),
           r2.dst \in Endpoint => Relayed(r2)
    PROVE  AllRelayed(<<>>) /\ AllRelayed(<<r1>>) /\ AllRelayed(<<r1, r2>>)
<1>1. DOMAIN <<>> = {} /\ DOMAIN <<r1>> = {1} /\ DOMAIN <<r1, r2>> = {1, 2}
  OBVIOUS
<1> QED
  BY <1>1 DEF AllRelayed

\* What a handler sends is Relayed, as far as it has an address.
LEMMA HandleSends ==
    ASSUME CInv, NEW w \in Worker, Handle(w), ~LookupDst(w)
    PROVE  AllRelayed(send_pkts')
<1> DEFINE p == pkt(w)
           d == flow(w).entry_data.d_index
<1>0. worker[w] # Idle
  BY HandleEffect DEF CInv
<1>1. CASE SrcReset(w)
  <2>1. FromClient(p) /\ d \in DIndex
    BY <1>1, WhoseInHand DEF SrcReset, Established
  <2>2. p.url = NULL
    BY <1>1, <2>1 DEF SrcReset, FromClient
  <2>3. send_pkts' = <<forward_inbound_pkt(d, p)>>
    BY <1>1 DEF SrcReset, Teardown, Done
  <2> QED
    BY <2>1, <2>2, <2>3, ClientReplies, FewReplies
<1>2. CASE SrcFin(w)
  <2>1. FromClient(p) /\ d \in DIndex
    BY <1>2, WhoseInHand DEF SrcFin, Established
  <2>2. p.url = NULL
    BY <1>2, <2>1 DEF SrcFin, FromClient
  <2>3. send_pkts' = <<reply_rst_pkt(p), forward_inbound_pkt(d, AsRst(p))>>
    BY <1>2 DEF SrcFin, Teardown, Done
  <2>4. Relayed(reply_rst_pkt(p)) /\ Relayed(forward_inbound_pkt(d, AsRst(p)))
    BY <2>1, <2>2, ClientReplies
  <2> QED
    BY <2>3, <2>4, FewReplies
<1>3. CASE SrcNoRule(w) \/ SynAckIgnored(w) \/ NewFlowDropped(w)
  <2>1. send_pkts' = <<>>
    BY <1>3 DEF SrcNoRule, SynAckIgnored, NewFlowDropped, Done
  <2> QED
    BY <2>1, FewReplies DEF AllRelayed
<1>4. CASE SrcReroute(w)
  <2> DEFINE n == lookup_balancing_rule(p.url).d_index
  <2>1. FromClient(p) /\ d \in DIndex
    BY <1>4, WhoseInHand DEF SrcReroute, SrcPayload, Established
  <2>2. n \in DIndex
    BY <1>0, <1>4, RuleMeansClient DEF SrcReroute, SrcPayload
  <2>3. send_pkts' = <<send_rst_pkt(d, p), send_syn_pkt(n, p)>>
    BY <1>4 DEF SrcReroute, Done
  <2>4. send_rst_pkt(d, p).dst \notin Endpoint /\ Relayed(send_syn_pkt(n, p))
    BY <2>1, <2>2, ClientReplies
  <2> QED
    BY <2>3, <2>4, FewReplies
<1>5. CASE SrcSameBackend(w)
  <2>1. FromClient(p) /\ d \in DIndex
    BY <1>5, WhoseInHand DEF SrcSameBackend, SrcPayload, Established
  <2>2. RuleFor(p.url, d)
    BY <1>0, <1>5, RuleMeansClient DEF SrcSameBackend, SrcPayload
  <2>3. send_pkts' = <<forward_inbound_pkt(d, p)>>
    BY <1>5 DEF SrcSameBackend, Done
  <2> QED
    BY <2>1, <2>2, <2>3, ClientReplies, FewReplies
<1>6. CASE SrcForward(w)
  <2>1. FromClient(p) /\ d \in DIndex
    BY <1>6, WhoseInHand DEF SrcForward, Established
  <2>2. p.url = NULL
    BY <1>6 DEF SrcForward
  <2>3. send_pkts' = <<forward_inbound_pkt(d, p)>>
    BY <1>6 DEF SrcForward, Done
  <2> QED
    BY <2>1, <2>2, <2>3, ClientReplies, FewReplies
<1>7. CASE SynAbort(w)
  <2>1. FromClient(p) /\ d \in DIndex
    BY <1>7, WhoseInHand DEF SynAbort
  <2>2. send_pkts' = <<reply_rst_pkt(p)>>
    BY <1>7 DEF SynAbort, Done
  <2> QED
    BY <2>1, <2>2, ClientReplies, FewReplies
<1>8. CASE SynRetry(w)
  <2>1. FromClient(p) /\ d \in DIndex
    BY <1>8, WhoseInHand DEF SynRetry
  <2>2. send_pkts' = <<send_syn_pkt(d, p)>> \/ send_pkts' = <<>>
    BY <1>8 DEF SynRetry, Done
  <2> QED
    BY <2>1, <2>2, ClientReplies, FewReplies
<1>9. CASE SynAck(w)
  <2> DEFINE c == flow(w).recv_pkt
  <2>1. FromClient(c) /\ d \in DIndex /\ RuleFor(c.url, d)
    BY <1>9, WhoseInHand DEF SynAck
  <2>2. send_pkts' = <<send_cached_pkt(d, c)>>
    BY <1>9 DEF SynAck, Done
  <2> QED
    BY <2>1, <2>2, ClientReplies, FewReplies
<1>10. CASE DstReset(w) \/ DstForward(w)
  <2>1. FromBackend(p)
    BY <1>10, WhoseInHand DEF DstReset, DstForward, Established
  <2>2. send_pkts' = <<forward_outbound_pkt(p)>>
    BY <1>10 DEF DstReset, DstForward, Teardown, Done
  <2> QED
    BY <2>1, <2>2, BackendReplies, FewReplies
<1>11. CASE DstFin(w)
  <2>1. FromBackend(p)
    BY <1>11, WhoseInHand DEF DstFin, Established
  <2>2. send_pkts' = <<reply_rst_pkt(p), forward_outbound_pkt(AsRst(p))>>
    BY <1>11 DEF DstFin, Teardown, Done
  <2> QED
    BY <2>1, <2>2, BackendReplies, FewReplies
<1>12. CASE NewFlow(w)
  <2> DEFINE n == lookup_balancing_rule(p.url).d_index
  <2>1. worker[w] # Idle
    BY <1>12 DEF NewFlow, NoCase, Idle
  <2>2. FromClient(p) /\ n \in DIndex
    BY <1>12, <2>1, RuleMeansClient DEF NewFlow
  <2>3. send_pkts' = <<send_syn_pkt(n, p)>>
    BY <1>12 DEF NewFlow, Done
  <2> QED
    BY <2>2, <2>3, ClientReplies, FewReplies
<1> QED
  BY <1>1, <1>2, <1>3, <1>4, <1>5, <1>6, <1>7, <1>8, <1>9, <1>10, <1>11, <1>12
  DEF Handle

\* Every handler keeps recv_pkt and entry_data together, and files flows
\* under clients.
LEMMA HandleFlows ==
    ASSUME CInv, NEW w \in Worker, Handle(w)
    PROVE  InHand' /\ ClientKeys' /\ CachedRule'
<1> USE DEF CInv
<1> DEFINE p == pkt(w)
<1>1. /\ worker[w] # Idle
      /\ \A v \in Worker \ {w} : worker'[v] = worker[v]
      /\ \/ worker'[w] = Idle
         \/ /\ LookupDst(w)
            /\ worker'[w].at = "dst"
            /\ worker'[w].pkt = worker[w].pkt
  BY HandleEffect
<1>2. InHand'
  BY <1>1 DEF InHand, pkt
<1>3. CASE LookupDst(w)
  <2>1. worker'[w].ptr = flow_hash_map[p.dst] /\ p.dst \in Endpoint
    BY <1>1, <1>3, BusyWorker DEF LookupDst, TypeOK, worker_t, packet_t
  <2>2. UNCHANGED <<heap, flow_hash_map>>
    BY <1>3 DEF LookupDst, memory
  <2>3. CachedRule'
    BY <2>2 DEF CachedRule
  <2>4. worker'[w] # Idle /\ key(w)' = p.dst
    <3>1. worker'[w] = [worker[w] EXCEPT !.at = "dst", !.ptr = flow_hash_map[p.dst]]
      BY <1>3 DEF LookupDst, TypeOK
    <3>2. worker[w].at = "src" /\ worker[w] \in worker_t
      BY <1>3 DEF LookupDst, NoCase, TypeOK
    <3>3. worker'[w].at = "dst" /\ worker'[w].pkt = p
      BY <1>1, <3>1, <3>2 DEF worker_t, pkt
    <3> QED
      BY <3>3 DEF Idle, key, pkt
  <2>5. ClientKeys'
    BY <1>1, <2>1, <2>2, <2>4 DEF ClientKeys, Mapped, key, pkt
  <2> QED
    BY <1>2, <2>3, <2>5
<1>4. ASSUME worker'[w] = Idle,
             \A k \in Endpoint : Mapped(k)' => Mapped(k) \/ k \in Client
      PROVE  ClientKeys'
  BY <1>1, <1>4 DEF ClientKeys, key, pkt
<1>5. CASE \/ SrcReset(w) \/ SrcFin(w) \/ DstReset(w) \/ DstFin(w) \/ SynAbort(w)
  <2>1. worker'[w] = Idle /\ Free(w)
    BY <1>1, <1>5 DEF SrcReset, SrcFin, DstReset, DstFin, Teardown, SynAbort,
                      Done, TypeOK
  <2>2. \A k \in Endpoint : Mapped(k)' => Mapped(k)
    BY <1>5 DEF SrcReset, SrcFin, DstReset, DstFin, Teardown, SynAbort, Mapped, TypeOK
  <2>3. CachedRule'
    BY <2>1 DEF Free, CachedRule, TypeOK, Zeroed
  <2> QED
    BY <1>2, <1>4, <2>1, <2>2, <2>3
<1>6. CASE \/ SrcNoRule(w) \/ SrcForward(w) \/ SynRetry(w)
           \/ SynAckIgnored(w) \/ DstForward(w) \/ NewFlowDropped(w)
  <2>1. worker'[w] = Idle /\ UNCHANGED <<heap, flow_hash_map>>
    BY <1>6 DEF SrcNoRule, SrcForward, SynRetry, SynAckIgnored, DstForward,
                NewFlowDropped, memory, Done, TypeOK
  <2> QED
    BY <1>2, <1>4, <2>1 DEF CachedRule, Mapped
<1>7. ASSUME NEW fd, SetFlow(w, fd), worker'[w] = Idle,
             FromClient(fd.recv_pkt), fd.recv_pkt.url # NULL,
             RuleFor(fd.recv_pkt.url, fd.entry_data.d_index)
      PROVE  ClientKeys' /\ CachedRule'
  <2>1. ClientKeys'
    BY <1>4, <1>7 DEF SetFlow, Mapped
  <2>2. CachedRule'
    BY <1>7 DEF SetFlow, CachedRule, TypeOK
  <2> QED
    BY <2>1, <2>2
<1>8. CASE SrcReroute(w)
  <2> DEFINE new == lookup_balancing_rule(p.url)
             fd  == [state |-> "BACKEND_SYN", entry_data |-> new, recv_pkt |-> p]
  <2>1. FromClient(p) /\ p.url # NULL /\ RuleFor(p.url, new.d_index)
    BY <1>1, <1>8, RuleMeansClient DEF SrcReroute, SrcPayload
  <2>2. SetFlow(w, fd) /\ worker'[w] = Idle
    BY <1>8 DEF SrcReroute, Done, TypeOK
  <2>3. fd.recv_pkt = p /\ fd.entry_data = new
    OBVIOUS
  <2> HIDE DEF fd, new
  <2> QED
    BY <1>2, <1>7, <2>1, <2>2, <2>3
<1>9. CASE SrcSameBackend(w) \/ SynAck(w)
  <2>1. /\ flow(w) \in flow_data_t
        /\ FromClient(flow(w).recv_pkt) /\ flow(w).recv_pkt.url # NULL
        /\ RuleFor(flow(w).recv_pkt.url, flow(w).entry_data.d_index)
    BY <1>9, WhoseInHand DEF SrcSameBackend, SynAck, SrcPayload, Established
  <2>2. worker'[w] = Idle
    BY <1>9 DEF SrcSameBackend, SynAck, Done, TypeOK
  <2>3. CASE UNCHANGED memory
    BY <1>2, <1>4, <2>2, <2>3 DEF CachedRule, Mapped, memory
  <2>4. ASSUME NEW s, SetFlow(w, [flow(w) EXCEPT !.state = s])
        PROVE  ClientKeys' /\ CachedRule'
    <3> DEFINE fd == [flow(w) EXCEPT !.state = s]
    <3>1. fd.recv_pkt = flow(w).recv_pkt /\ fd.entry_data = flow(w).entry_data
      BY <2>1 DEF flow_data_t
    <3>2. SetFlow(w, fd)
      BY <2>4
    <3> HIDE DEF fd
    <3> QED
      BY <1>7, <2>1, <2>2, <3>1, <3>2
  <2>5. UNCHANGED memory \/ \E s : SetFlow(w, [flow(w) EXCEPT !.state = s])
    BY <1>9 DEF SrcSameBackend, SynAck
  <2> QED
    BY <1>2, <2>3, <2>4, <2>5
<1>10. CASE NewFlow(w)
  <2> DEFINE new == lookup_balancing_rule(p.url)
             fd  == [state |-> "BACKEND_SYN", entry_data |-> new, recv_pkt |-> p]
  <2>1. FromClient(p) /\ p.url # NULL /\ RuleFor(p.url, new.d_index)
    BY <1>1, <1>10, RuleMeansClient DEF NewFlow
  <2>2. fd.recv_pkt = p /\ fd.entry_data = new
    OBVIOUS
  <2>3. PICK a \in Addr \ live :
           /\ heap' = [heap EXCEPT ![a] = fd]
           /\ flow_hash_map' = [flow_hash_map EXCEPT ![p.src] =
                                    IF @ = NULL THEN a ELSE @]
    BY <1>10 DEF NewFlow
  <2>4. worker'[w] = Idle
    BY <1>10 DEF NewFlow, Done, TypeOK
  <2>5. \A k \in Endpoint : Mapped(k)' => Mapped(k) \/ k \in Client
    BY <2>1, <2>3 DEF Mapped, TypeOK, FromClient
  <2> HIDE DEF fd, new
  <2>6. CachedRule'
    BY <2>1, <2>2, <2>3 DEF CachedRule, TypeOK
  <2> QED
    BY <1>2, <1>4, <2>4, <2>5, <2>6
<1> QED
  BY <1>3, <1>5, <1>6, <1>8, <1>9, <1>10 DEF Handle

-----------------------------------------------------------------------------
(* The steps of the composition.                                           *)

\* A packet that passes the Frontend was sent by an end.
LEMMA InwardIsEnds ==
    ASSUME OnTheWay, NEW p \in net, Inward(p)
    PROVE  FromClient(p) \/ FromBackend(p)
BY EndpointAssumption DEF OnTheWay, Inward, Relayed

\* A worker takes a packet.
LEMMA ReceiveCInv ==
    ASSUME CInv, NEW w \in Worker, NEW p \in net, Receive(w, p)
    PROVE  CInv'
<1> USE DEF CInv
<1>1. FromClient(p) \/ FromBackend(p)
  BY InwardIsEnds DEF Receive
<1>2. p \in packet_t /\ p.src \in Endpoint
  BY <1>1 DEF FromClient, FromBackend, packet_t
<1>3. /\ worker' = [worker EXCEPT ![w] =
                      [at |-> "src", pkt |-> p, ptr |-> flow_hash_map[p.src],
                       part |-> NULL]]
      /\ send_pkts' = <<>>
      /\ UNCHANGED <<flow_hash_map, heap, live, add_queue, del_queue, rule_map, cmd,
                     mingled, asked, open, sock, served>>
      /\ net' = net \ {p}
  BY DEF Receive, Rx, memory, queues, ends
<1>4. aborted' = aborted /\ raced' = raced
  BY DEF Receive, Rx, memory
<1>5. aborted' \in BOOLEAN /\ raced' \in BOOLEAN
  BY <1>4, Zenon DEF TypeOK
<1>6. worker' \in [Worker -> worker_t]
  BY <1>2, <1>3 DEF TypeOK, worker_t
<1>7. TypeOK' /\ FlowsFilledIn' /\ KnownRules'
  BY <1>3, <1>5, <1>6 DEF TypeOK, FlowsFilledIn, KnownRules
<1>8. OnTheWay' /\ CachedRule' /\ EndsTypeOK' /\ ServedRight'
  BY <1>3 DEF OnTheWay, CachedRule, EndsTypeOK, ServedRight
<1>9. \A v \in Worker : \/ worker'[v] = worker[v]
                        \/ /\ worker'[v].pkt = p /\ worker'[v].at = "src"
                           /\ worker'[v].ptr = flow_hash_map[p.src]
                           /\ worker'[v].part = NULL
  BY <1>3 DEF TypeOK
<1>10. InHand'
  BY <1>1, <1>9 DEF InHand, pkt
<1>11. ClientKeys'
  BY <1>2, <1>3, <1>9 DEF ClientKeys, Mapped, key, pkt
<1>12. Apart'
  BY <1>3, <1>9 DEF Apart, part
<1> QED
  BY <1>7, <1>8, <1>10, <1>11, <1>12

\* A worker handles a packet, and its replies leave.
LEMMA ProcessCInv ==
    ASSUME CInv, NEW w \in Worker, Process(w), mingled' = {}
    PROVE  CInv'
<1> USE DEF CInv
<1>0. Handle(w)
  BY WholeCases DEF Process
<1>1. TypeOK' /\ FlowsFilledIn'
  BY <1>0, HandleType
<1>2. KnownRules' /\ Apart'
  <2>1. /\ UNCHANGED rule_map
        /\ \A v \in Worker \ {w} : worker'[v] = worker[v]
        /\ worker'[w] = Idle \/ worker'[w].part = worker[w].part
    BY <1>0, HandleEffect
  <2> QED
    BY <2>1 DEF KnownRules, Apart, part, Idle
<1>3. InHand' /\ ClientKeys' /\ CachedRule'
  BY <1>0, HandleFlows
<1>4. EndsTypeOK' /\ ServedRight'
  BY DEF Process, ends, EndsTypeOK, ServedRight
<1>5. OnTheWay'
  <2>1. CASE LookupDst(w)
    <3>1. worker'[w] # Idle
      <4>1. worker'[w] = [worker[w] EXCEPT !.at = "dst", !.ptr = flow_hash_map[pkt(w).dst]]
        BY <2>1 DEF LookupDst, TypeOK
      <4>2. worker[w].at = "src" /\ worker[w] \in worker_t
        BY <2>1 DEF LookupDst, NoCase, TypeOK
      <4>3. worker'[w].at = "dst"
        BY <4>1, <4>2 DEF worker_t, Idle
      <4> QED
        BY <4>3 DEF Idle
    <3> QED
      BY <3>1 DEF Process, OnTheWay
  <2>2. CASE ~LookupDst(w)
    <3>1. AllRelayed(send_pkts')
      BY <1>0, <2>2, HandleSends
    <3> QED
      BY <3>1 DEF AllRelayed, Process, OnTheWay
  <2> QED
    BY <2>1, <2>2
<1> QED
  BY <1>1, <1>2, <1>3, <1>4, <1>5

\* Steps of the network and the ends leave the Frontend alone.
LEMMA FrontendSame ==
    ASSUME CInv, UNCHANGED vars
    PROVE  /\ TypeOK' /\ FlowsFilledIn' /\ KnownRules' /\ Apart'
           /\ InHand' /\ ClientKeys' /\ CachedRule'
<1> USE DEF CInv
<1>1. UNCHANGED vars
  OBVIOUS
<1>2. aborted' = aborted /\ raced' = raced
  BY DEF vars
<1>3. aborted' \in BOOLEAN /\ raced' \in BOOLEAN
  BY <1>2, Zenon DEF TypeOK
<1>4. TypeOK' /\ FlowsFilledIn' /\ KnownRules' /\ Apart'
  BY <1>1, <1>3 DEF vars, TypeOK, FlowsFilledIn, KnownRules, Apart, part
<1>5. InHand' /\ ClientKeys' /\ CachedRule'
  BY <1>1 DEF vars, InHand, ClientKeys, CachedRule, Mapped, key, pkt
<1> QED
  BY <1>4, <1>5

\* UPDATE_RULE.
LEMMA LearnRuleCInv ==
    ASSUME CInv, NEW u \in Url, LearnRule(u)
    PROVE  CInv'
<1> USE DEF CInv
<1>1. /\ rule_map' = [rule_map EXCEPT ![u] = Rules[u]]
      /\ UNCHANGED <<flow_hash_map, heap, live, worker, send_pkts, add_queue,
                     del_queue, cmd, mingled, net, asked, open, sock, served>>
  BY DEF LearnRule, UpdateRule, memory, queues, ends
<1>2. aborted' = aborted /\ raced' = raced
  BY DEF LearnRule, UpdateRule, memory
<1>3. aborted' \in BOOLEAN /\ raced' \in BOOLEAN
  BY <1>2, Zenon DEF TypeOK
<1>4. TypeOK' /\ FlowsFilledIn' /\ KnownRules' /\ Apart'
  BY <1>1, <1>3, RulesAssumption DEF TypeOK, FlowsFilledIn, KnownRules, Apart, part
<1>5. InHand' /\ ClientKeys' /\ CachedRule'
  BY <1>1 DEF InHand, ClientKeys, CachedRule, Mapped, key, pkt
<1>6. OnTheWay' /\ EndsTypeOK' /\ ServedRight'
  BY <1>1 DEF OnTheWay, EndsTypeOK, ServedRight
<1> QED
  BY <1>4, <1>5, <1>6

\* The client's packets.
LEMMA ClientSends ==
    ASSUME EndsTypeOK, NEW c \in Client
    PROVE  /\ asked[c] <= Len(Script) => FromClient(Request(c))
           /\ FromClient(FromEnd(c, VIP, {"FIN", "ACK"}, NULL, asked[c]))
<1>1. c \in Endpoint /\ VIP \in Endpoint /\ asked[c] \in Nat \ {0}
  BY DEF Endpoint, EndsTypeOK
<1>2. ASSUME NEW f \in SUBSET {"SYN", "ACK", "FIN", "RST"},
             NEW u \in Url \cup {NULL}, u # NULL => f = {"ACK"}
      PROVE  FromClient(FromEnd(c, VIP, f, u, asked[c]))
  <2> DEFINE p == FromEnd(c, VIP, f, u, asked[c])
  <2>1. /\ p \in packet_t /\ p.src = c /\ p.dst = VIP /\ p.url = u /\ p.flags = f
    BY <1>1 DEF FromEnd, packet_t
  <2>2. FromClient(p)
    <3> HIDE DEF p
    <3> QED
      BY <1>2, <2>1 DEF FromClient
  <2> QED
    BY <2>2
<1>3. asked[c] <= Len(Script) => Script[asked[c]] \in Url
  BY <1>1, ScriptAssumption
<1> QED
  BY <1>2, <1>3, NullAssumption DEF Request

\* A backend's packets.
LEMMA BackendSends ==
    ASSUME NEW d \in DIndex, NEW c \in Client,
           NEW f \in SUBSET {"SYN", "ACK", "FIN", "RST"}
    PROVE  /\ FromBackend(FromEnd(d, c, f, NULL, 0))
           /\ \A u \in Url : FromBackend(FromEnd(d, c, f, answer[u], 0))
<1>1. c \in Endpoint /\ d \in Endpoint
  BY DEF Endpoint
<1>2. ASSUME NEW u \in Url \cup {NULL}, u # NULL => Rules[u] = NULL
      PROVE  FromBackend(FromEnd(d, c, f, u, 0))
  <2> DEFINE p == FromEnd(d, c, f, u, 0)
  <2>1. /\ p \in packet_t /\ p.src = d /\ p.dst = c /\ p.url = u
    BY <1>1 DEF FromEnd, packet_t
  <2>2. FromBackend(p)
    <3> HIDE DEF p
    <3> QED
      BY <1>2, <2>1 DEF FromBackend
  <2> QED
    BY <2>2
<1>3. \A u \in Url : answer[u] \in Url /\ Rules[answer[u]] = NULL
  BY ScriptAssumption
<1> QED
  BY <1>2, <1>3

\* A backend gets a packet, and answers it.
LEMMA BackendReceiveCInv ==
    ASSUME CInv, NEW d \in DIndex, NEW p \in net, BackendReceive(d, p)
    PROVE  CInv'
<1> USE DEF CInv
<1>1. p.dst = d /\ p.src \in Client
  BY DEF BackendReceive
<1>2. Relayed(p)
  BY <1>1, EndpointAssumption DEF OnTheWay, FromClient, FromBackend
<1>3. p.url # NULL => RuleFor(p.url, d)
  BY <1>1, <1>2 DEF Relayed
<1>4. UNCHANGED vars /\ UNCHANGED asked
  BY DEF BackendReceive
<1>5. EndsTypeOK'
  BY <1>1, <1>4 DEF BackendReceive, EndsTypeOK
<1>6. \/ served' = served
      \/ p.url # NULL /\ served' = served \cup {<<d, p.url>>}
  BY DEF BackendReceive
<1>7. ServedRight'
  BY <1>3, <1>6 DEF ServedRight
<1>8. \/ net' = net \ {p}
      \/ \E f \in SUBSET {"SYN", "ACK", "FIN", "RST"} :
            \/ net' = (net \ {p}) \cup {FromEnd(d, p.src, f, NULL, 0)}
            \/ /\ p.url # NULL
               /\ net' = (net \ {p}) \cup {FromEnd(d, p.src, f, answer[p.url], 0)}
  BY DEF BackendReceive
<1>9. OnTheWay'
  <2>1. \A f \in SUBSET {"SYN", "ACK", "FIN", "RST"} :
           /\ FromBackend(FromEnd(d, p.src, f, NULL, 0))
           /\ p.url # NULL => FromBackend(FromEnd(d, p.src, f, answer[p.url], 0))
    BY <1>1, <1>3, BackendSends DEF RuleFor
  <2>2. \A q \in net' : q \in net \/ FromBackend(q)
    BY <1>8, <2>1
  <2> QED
    BY <2>2 DEF OnTheWay
<1> QED
  BY <1>4, <1>5, <1>7, <1>9, FrontendSame

\* Every step of the composition keeps the invariant.
LEMMA NextCInv ==
    ASSUME CInv, [ConnectionNext]_cvars, mingled' = {}
    PROVE  CInv'
<1> USE DEF CInv
<1>1. ASSUME NEW p \in net, Lose(p) PROVE CInv'
  <2>1. OnTheWay' /\ EndsTypeOK' /\ ServedRight'
    BY <1>1 DEF Lose, ends, OnTheWay, EndsTypeOK, ServedRight
  <2> QED
    BY <1>1, <2>1, FrontendSame DEF Lose
<1>2. ASSUME NEW c \in Client, Ask(c) PROVE CInv'
  <2>1. EndsTypeOK' /\ ServedRight'
    BY <1>2 DEF Ask, ends, EndsTypeOK, ServedRight
  <2>2. FromClient(Request(c))
    BY <1>2, ClientSends DEF Ask
  <2>3. OnTheWay'
    BY <1>2, <2>2 DEF Ask, OnTheWay
  <2> QED
    BY <1>2, <2>1, <2>3, FrontendSame DEF Ask
<1>3. ASSUME NEW c \in Client, Hangup(c) PROVE CInv'
  <2>1. OnTheWay' /\ EndsTypeOK' /\ ServedRight'
    BY <1>3, ClientSends DEF Hangup, OnTheWay, EndsTypeOK, ServedRight
  <2> QED
    BY <1>3, <2>1, FrontendSame DEF Hangup
<1>4. ASSUME NEW c \in Client, NEW p \in net, ClientReceive(c, p) PROVE CInv'
  <2>1. OnTheWay' /\ EndsTypeOK' /\ ServedRight'
    BY <1>4 DEF ClientReceive, OnTheWay, EndsTypeOK, ServedRight
  <2> QED
    BY <1>4, <2>1, FrontendSame DEF ClientReceive
<1>5. ASSUME NEW d \in DIndex, NEW c \in Client, IdleTimeout(d, c) PROVE CInv'
  <2>1. OnTheWay'
    BY <1>5, BackendSends DEF IdleTimeout, OnTheWay
  <2>2. EndsTypeOK' /\ ServedRight'
    BY <1>5 DEF IdleTimeout, EndsTypeOK, ServedRight
  <2> QED
    BY <1>5, <2>1, <2>2, FrontendSame DEF IdleTimeout
<1>6. CASE UNCHANGED cvars
  <2>1. UNCHANGED vars /\ UNCHANGED <<net, asked, sock, served>>
    BY <1>6 DEF cvars, ends
  <2>2. OnTheWay' /\ EndsTypeOK' /\ ServedRight'
    BY <2>1 DEF OnTheWay, EndsTypeOK, ServedRight
  <2> QED
    BY <2>1, <2>2, FrontendSame
<1>7. CASE ConnectionNext
  BY <1>1, <1>2, <1>3, <1>4, <1>5, <1>7, ReceiveCInv, ProcessCInv, LearnRuleCInv,
     BackendReceiveCInv, Zenon DEF ConnectionNext
<1> QED
  BY <1>6, <1>7

-----------------------------------------------------------------------------
(***************************************************************************)
(* Connections that are moved unharmed.  A client that has not hung up is  *)
(* never sent, and never causes, a FIN or RST: a backend it is moved to    *)
(* has a socket for it before anything but a SYN is sent there.            *)
(***************************************************************************)

\* What p, on its way or in a worker's hands, does not do to client c.
Harmless(p, c) ==
    /\ p.src = c =>
          /\ p.flags \cap {"FIN", "RST"} = {}
          /\ "ACK" \in p.flags /\ p.dst \in DIndex => sock[p.dst][c] # "none"
    /\ p.dst = c =>
          /\ p.flags \cap {"FIN", "RST"} = {}
          /\ p.flags = {"SYN", "ACK"} /\ p.src \in DIndex => sock[p.src][c] # "none"

OnBackend(c) == Mapped(c) /\ FlowOf(c).state \in Established

Unharmed(c) ==
    /\ c \in open
    /\ \A p \in net : Harmless(p, c)
    /\ \A w \in Worker : worker[w] # Idle => Harmless(pkt(w), c)
    /\ OnBackend(c) => sock[FlowOf(c).entry_data.d_index][c] # "none"

\* Client c has not hung up with all its answers.
Active(c) == c \in open \/ asked[c] <= Len(Script)

Calm == Clean /\ upset \cap {"stray", "idle"} = {}

MInv ==
    /\ CInv /\ MemorySafe /\ CachedRequestIsOwn
    /\ Calm => \A c \in Client : Active(c) => Unharmed(c)

\* A packet of others is harmless.
LEMMA Elsewhere ==
    ASSUME NEW p, NEW c, p.src # c, p.dst # c
    PROVE  Harmless(p, c)
BY DEF Harmless

\* The replies that have an address are harmless to c.
AllHarmless(replies, c) ==
    \A i \in DOMAIN replies : replies[i].dst \in Endpoint => Harmless(replies[i], c)

\* At most two replies are made for a packet.
LEMMA FewHarmless ==
    ASSUME NEW c, NEW r1, NEW r2,
           r1.dst \in Endpoint => Harmless(r1, c),
           r2.dst \in Endpoint => Harmless(r2, c)
    PROVE  AllHarmless(<<>>, c) /\ AllHarmless(<<r1>>, c) /\ AllHarmless(<<r1, r2>>, c)
<1>1. DOMAIN <<>> = {} /\ DOMAIN <<r1>> = {1} /\ DOMAIN <<r1, r2>> = {1, 2}
  OBVIOUS
<1> QED
  BY <1>1 DEF AllHarmless

\* What a handler sends is harmless to a client that is unharmed, if the
\* SYN-ACK it takes, if any, is one of the flow's backend.
LEMMA HandleHarmless ==
    ASSUME CInv, MemorySafe, CachedRequestIsOwn, Clean, Clean',
           NEW c \in Client, Unharmed(c),
           NEW w \in Worker, Handle(w), ~LookupDst(w),
           SynAck(w) => pkt(w).src = flow(w).entry_data.d_index
    PROVE  AllHarmless(send_pkts', c)
<1> DEFINE p == pkt(w)
           d == flow(w).entry_data.d_index
<1>1. worker[w] # Idle
  BY HandleEffect DEF CInv
<1>2. Harmless(p, c)
  BY <1>1 DEF Unharmed
<1>3. c \notin DIndex /\ c # VIP
  BY EndpointAssumption
<1>4. CASE SrcReset(w) \/ SrcFin(w)
  <2>1. FromClient(p) /\ d \in DIndex
    BY <1>4, WhoseInHand DEF SrcReset, SrcFin, Established
  <2>2. p.src # c
    BY <1>2, <1>4 DEF SrcReset, SrcFin, Harmless
  <2>3. AsRst(p).src = p.src
    BY <2>1 DEF AsRst, FromClient, packet_t
  <2>4. \/ send_pkts' = <<forward_inbound_pkt(d, p)>>
        \/ send_pkts' = <<reply_rst_pkt(p), forward_inbound_pkt(d, AsRst(p))>>
    BY <1>4 DEF SrcReset, SrcFin, Teardown, Done
  <2>5. /\ Harmless(forward_inbound_pkt(d, p), c)
        /\ Harmless(forward_inbound_pkt(d, AsRst(p)), c)
        /\ Harmless(reply_rst_pkt(p), c)
    BY <1>3, <2>1, <2>2, <2>3, Elsewhere
    DEF forward_inbound_pkt, reply_rst_pkt, Header, FromClient
  <2> QED
    BY <2>4, <2>5, FewHarmless
<1>5. CASE SynAbort(w)
  BY <1>5 DEF SynAbort, Clean
<1>6. CASE SrcNoRule(w) \/ SynAckIgnored(w) \/ NewFlowDropped(w)
  <2>1. send_pkts' = <<>>
    BY <1>6 DEF SrcNoRule, SynAckIgnored, NewFlowDropped, Done
  <2> QED
    BY <2>1 DEF AllHarmless
<1>7. ASSUME NEW n \in DIndex
      PROVE  Harmless(send_syn_pkt(n, p), c)
  BY <1>3 DEF Harmless, send_syn_pkt, Header
<1>8. CASE SrcReroute(w)
  <2> DEFINE n == lookup_balancing_rule(p.url).d_index
  <2>1. FromClient(p) /\ d \in DIndex
    BY <1>8, WhoseInHand DEF SrcReroute, SrcPayload, Established
  <2>2. n \in DIndex
    BY <1>1, <1>8, RuleMeansClient DEF SrcReroute, SrcPayload
  <2>3. send_pkts' = <<send_rst_pkt(d, p), send_syn_pkt(n, p)>>
    BY <1>8 DEF SrcReroute, Done
  <2>4. send_rst_pkt(d, p).dst \notin Endpoint
    BY <2>1, ClientReplies
  <2> QED
    BY <1>7, <2>2, <2>3, <2>4, FewHarmless
<1>9. CASE SrcSameBackend(w) \/ SrcForward(w)
  <2>1. /\ FromClient(p) /\ d \in DIndex
        /\ In(w, "src", Established)
    BY <1>9, WhoseInHand DEF SrcSameBackend, SrcForward, SrcPayload, Established
  <2>2. send_pkts' = <<forward_inbound_pkt(d, p)>>
    BY <1>9 DEF SrcSameBackend, SrcForward, Done
  <2>3. key(w) = p.src /\ FlowOf(key(w)) = flow(w) /\ Mapped(key(w))
    BY <2>1, HeldFlow DEF In, key, Established, CInv
  <2>4. p.src = c => sock[d][c] # "none"
    BY <2>1, <2>3 DEF Unharmed, OnBackend, In
  <2>5. Harmless(forward_inbound_pkt(d, p), c)
    BY <1>2, <1>3, <2>1, <2>4 DEF Harmless, forward_inbound_pkt, Header
  <2> QED
    BY <2>2, <2>5, FewHarmless
<1>10. CASE SynRetry(w)
  <2>1. d \in DIndex
    BY <1>10, WhoseInHand DEF SynRetry
  <2>2. send_pkts' = <<send_syn_pkt(d, p)>> \/ send_pkts' = <<>>
    BY <1>10 DEF SynRetry, Done
  <2> QED
    BY <1>7, <2>1, <2>2, FewHarmless
<1>11. CASE SynAck(w)
  <2> DEFINE q == flow(w).recv_pkt
  <2>1. /\ FromBackend(p) /\ d \in DIndex /\ FromClient(q) /\ q.url # NULL
        /\ In(w, "dst", {"BACKEND_SYN"}) /\ p.flags = {"SYN", "ACK"} /\ p.src = d
    BY <1>11, WhoseInHand DEF SynAck
  <2>2. /\ key(w) = p.dst /\ FlowOf(key(w)) = flow(w) /\ Mapped(key(w))
        /\ key(w) \in Endpoint
    BY <2>1, HeldFlow DEF In, key, CInv
  <2>3. q.src = p.dst
    BY <2>2 DEF CachedRequestIsOwn, CInv, Apart
  <2>4. send_pkts' = <<send_cached_pkt(d, q)>>
    BY <1>11 DEF SynAck, Done
  <2>5. p.dst = c => sock[d][c] # "none"
    BY <1>2, <2>1 DEF Harmless
  <2>6. q.flags = {"ACK"}
    BY <2>1 DEF FromClient
  <2>7. Harmless(send_cached_pkt(d, q), c)
    BY <1>3, <2>1, <2>3, <2>5, <2>6 DEF Harmless, send_cached_pkt, Header
  <2> QED
    BY <2>4, <2>7, FewHarmless
<1>12. CASE DstReset(w) \/ DstFin(w)
  <2>1. FromBackend(p)
    BY <1>12, WhoseInHand DEF DstReset, DstFin, Established
  <2>2. p.dst # c
    BY <1>2, <1>12 DEF DstReset, DstFin, Harmless
  <2>3. AsRst(p).dst = p.dst
    BY <2>1 DEF AsRst, FromBackend, packet_t
  <2>4. \/ send_pkts' = <<forward_outbound_pkt(p)>>
        \/ send_pkts' = <<reply_rst_pkt(p), forward_outbound_pkt(AsRst(p))>>
    BY <1>12 DEF DstReset, DstFin, Teardown, Done
  <2>5. /\ Harmless(forward_outbound_pkt(p), c)
        /\ Harmless(forward_outbound_pkt(AsRst(p)), c)
        /\ Harmless(reply_rst_pkt(p), c)
    BY <1>3, <2>1, <2>2, <2>3, Elsewhere
    DEF forward_outbound_pkt, reply_rst_pkt, Header, FromBackend
  <2> QED
    BY <2>4, <2>5, FewHarmless
<1>13. CASE DstForward(w)
  <2>1. send_pkts' = <<forward_outbound_pkt(p)>>
    BY <1>13 DEF DstForward, Done
  <2>2. VIP \notin DIndex
    BY EndpointAssumption
  <2>3. Harmless(forward_outbound_pkt(p), c)
    BY <1>2, <1>3, <2>2 DEF Harmless, forward_outbound_pkt, Header
  <2> QED
    BY <2>1, <2>3, FewHarmless
<1>14. CASE NewFlow(w)
  <2> DEFINE n == lookup_balancing_rule(p.url).d_index
  <2>1. n \in DIndex
    BY <1>1, <1>14, RuleMeansClient DEF NewFlow
  <2>2. send_pkts' = <<send_syn_pkt(n, p)>>
    BY <1>14 DEF NewFlow, Done
  <2> QED
    BY <1>7, <2>1, <2>2, FewHarmless
<1> QED
  BY <1>4, <1>5, <1>6, <1>8, <1>9, <1>10, <1>11, <1>12, <1>13, <1>14 DEF Handle

\* A flow gets onto a backend by that backend's SYN-ACK only, and stays on it.
LEMMA HandleOnBackend ==
    ASSUME CInv, MemorySafe, CachedRequestIsOwn, Clean, Clean',
           NEW c \in Client, NEW w \in Worker, Handle(w), OnBackend(c)'
    PROVE  \/ /\ OnBackend(c)
              /\ FlowOf(c)'.entry_data.d_index = FlowOf(c).entry_data.d_index
           \/ /\ SynAck(w) /\ key(w) = c
              /\ FlowOf(c)'.entry_data.d_index = flow(w).entry_data.d_index
<1> USE DEF CInv
<1>1. c \in Endpoint
  BY DEF Endpoint
<1>2. ASSUME flow_hash_map'[c] = flow_hash_map[c],
             heap'[flow_hash_map[c]] = heap[flow_hash_map[c]]
      PROVE  /\ OnBackend(c)
             /\ FlowOf(c)'.entry_data.d_index = FlowOf(c).entry_data.d_index
  BY <1>2 DEF OnBackend, Mapped, FlowOf
<1>3. CASE SrcReset(w) \/ SrcFin(w) \/ DstReset(w) \/ DstFin(w)
  <2>1. PICK r : Teardown(w, r)
    BY <1>3 DEF SrcReset, SrcFin, DstReset, DstFin
  <2>2. PICK at \in {"src", "dst"} : In(w, at, Established)
    BY <1>3 DEF SrcReset, SrcFin, DstReset, DstFin
  <2>3. key(w) \in Endpoint /\ flow_hash_map[key(w)] = worker[w].ptr
    BY <2>2, HeldFlow DEF Established
  <2>4. key(w) # c
    BY <1>1, <2>1 DEF Teardown, OnBackend, Mapped, TypeOK
  <2>5. flow_hash_map'[c] = flow_hash_map[c]
    BY <1>1, <2>1, <2>4 DEF Teardown, TypeOK
  <2>6. flow_hash_map[c] # worker[w].ptr
    BY <1>1, <2>3, <2>4, <2>5 DEF MemorySafe, OnBackend, Mapped
  <2>7. heap'[flow_hash_map[c]] = heap[flow_hash_map[c]]
    BY <2>1, <2>6 DEF Teardown, Free, TypeOK
  <2> QED
    BY <1>2, <2>5, <2>7
<1>4. CASE SynAbort(w)
  BY <1>4 DEF SynAbort, Clean
<1>5. CASE \/ LookupDst(w) \/ SrcNoRule(w) \/ SrcForward(w) \/ SynRetry(w)
           \/ SynAckIgnored(w) \/ DstForward(w) \/ NewFlowDropped(w)
  <2>1. UNCHANGED <<heap, flow_hash_map>>
    BY <1>5 DEF LookupDst, SrcNoRule, SrcForward, SynRetry, SynAckIgnored,
                DstForward, NewFlowDropped, memory
  <2> QED
    BY <1>2, <2>1
<1>6. ASSUME NEW at \in {"src", "dst"},
             NEW cases \in SUBSET {"BACKEND_SYN", "OFFLOAD", "COMPLETE"},
             In(w, at, cases), NEW fd, SetFlow(w, fd)
      PROVE  /\ key(w) # c => /\ OnBackend(c)
                              /\ FlowOf(c)'.entry_data.d_index = FlowOf(c).entry_data.d_index
             /\ key(w) = c => /\ FlowOf(c) = flow(w) /\ FlowOf(c)' = fd /\ Mapped(c)
  <2>1. /\ key(w) \in Endpoint /\ flow_hash_map[key(w)] = worker[w].ptr
        /\ FlowOf(key(w)) = flow(w) /\ Mapped(key(w))
        /\ worker[w].ptr \in live
    BY <1>6, HeldFlow
  <2>2. flow_hash_map' = flow_hash_map /\ heap' = [heap EXCEPT ![worker[w].ptr] = fd]
    BY <1>6 DEF SetFlow
  <2>3. ASSUME key(w) # c
        PROVE  flow_hash_map[c] # worker[w].ptr
    BY <1>1, <2>1, <2>2, <2>3 DEF MemorySafe, OnBackend, Mapped
  <2>4. heap'[worker[w].ptr] = fd
    BY <2>1, <2>2 DEF TypeOK
  <2>5. key(w) = c => FlowOf(c)' = fd
    BY <2>1, <2>2, <2>4 DEF FlowOf
  <2>6. key(w) # c => heap'[flow_hash_map[c]] = heap[flow_hash_map[c]]
    BY <2>2, <2>3 DEF TypeOK
  <2> QED
    BY <1>2, <2>1, <2>2, <2>5, <2>6
<1>7. CASE SrcReroute(w)
  <2> DEFINE fd == [state |-> "BACKEND_SYN",
                    entry_data |-> lookup_balancing_rule(pkt(w).url),
                    recv_pkt |-> pkt(w)]
  <2>1. SetFlow(w, fd) /\ In(w, "src", Established)
    BY <1>7 DEF SrcReroute, SrcPayload
  <2>2. fd.state \notin Established
    BY DEF Established
  <2>3. Established \in SUBSET {"BACKEND_SYN", "OFFLOAD", "COMPLETE"}
    BY DEF Established
  <2> HIDE DEF fd
  <2> QED
    BY <1>6, <2>1, <2>2, <2>3 DEF OnBackend
<1>8. CASE SrcSameBackend(w)
  <2>1. In(w, "src", Established) /\ flow(w) \in flow_data_t
    BY <1>8, WhoseInHand DEF SrcSameBackend, SrcPayload, Established
  <2>2. CASE UNCHANGED memory
    BY <1>2, <2>2 DEF memory
  <2>3. ASSUME NEW s, SetFlow(w, [flow(w) EXCEPT !.state = s])
        PROVE  /\ OnBackend(c)
               /\ FlowOf(c)'.entry_data.d_index = FlowOf(c).entry_data.d_index
    <3> DEFINE fd == [flow(w) EXCEPT !.state = s]
    <3>1. fd.entry_data = flow(w).entry_data
      BY <2>1 DEF flow_data_t
    <3>2. SetFlow(w, fd)
      BY <2>3
    <3>3. Established \in SUBSET {"BACKEND_SYN", "OFFLOAD", "COMPLETE"}
      BY DEF Established
    <3>4. flow(w).state \in Established
      BY <2>1 DEF In
    <3> HIDE DEF fd
    <3> QED
      BY <1>6, <2>1, <3>1, <3>2, <3>3, <3>4 DEF OnBackend
  <2>4. UNCHANGED memory \/ \E s : SetFlow(w, [flow(w) EXCEPT !.state = s])
    BY <1>8 DEF SrcSameBackend
  <2> QED
    BY <2>2, <2>3, <2>4
<1>9. CASE SynAck(w)
  <2>1. In(w, "dst", {"BACKEND_SYN"}) /\ flow(w) \in flow_data_t
    BY <1>9, WhoseInHand DEF SynAck
  <2>2. PICK s : SetFlow(w, [flow(w) EXCEPT !.state = s])
    BY <1>9 DEF SynAck
  <2> DEFINE fd == [flow(w) EXCEPT !.state = s]
  <2>3. fd.entry_data = flow(w).entry_data
    BY <2>1 DEF flow_data_t
  <2>4. SetFlow(w, fd)
    BY <2>2
  <2> HIDE DEF fd
  <2> QED
    BY <1>6, <1>9, <2>1, <2>3, <2>4
<1>10. CASE NewFlow(w)
  <2> DEFINE k  == pkt(w).src
             fd == [state |-> "BACKEND_SYN",
                    entry_data |-> lookup_balancing_rule(pkt(w).url),
                    recv_pkt |-> pkt(w)]
  <2>1. PICK a \in Addr \ live :
           /\ heap' = [heap EXCEPT ![a] = fd]
           /\ flow_hash_map' = [flow_hash_map EXCEPT ![k] =
                                    IF @ = NULL THEN a ELSE @]
    BY <1>10 DEF NewFlow
  <2>2. fd.state \notin Established
    BY DEF Established
  <2> HIDE DEF fd
  <2>3. heap'[a] = fd
    BY <2>1 DEF TypeOK
  <2>4. flow_hash_map'[c] # a
    BY <2>2, <2>3 DEF OnBackend, FlowOf
  <2>5. flow_hash_map'[c] = flow_hash_map[c]
    BY <1>1, <2>1, <2>4 DEF TypeOK
  <2>6. heap'[flow_hash_map[c]] = heap[flow_hash_map[c]]
    BY <2>1, <2>4, <2>5 DEF TypeOK
  <2> QED
    BY <1>2, <2>5, <2>6
<1> QED
  BY <1>3, <1>4, <1>5, <1>7, <1>8, <1>9, <1>10 DEF Handle

\* A worker handles a packet.
LEMMA ProcessMInv ==
    ASSUME MInv, NEW w \in Worker, Process(w), mingled' = {}
    PROVE  MInv'
<1> USE DEF MInv
<1>1. Handle(w) /\ CInv'
  BY ProcessCInv, WholeCases DEF Process, CInv
<1>2. Clean' => Clean
  BY CleanBackwards DEF Next, Process
<1>3. MemorySafe' /\ CachedRequestIsOwn'
  <2>1. CASE Clean'
    BY <1>1, <1>2, <2>1, HandleSafe DEF CInv
  <2>2. CASE ~Clean'
    BY <2>2 DEF MemorySafe, CachedRequestIsOwn
  <2> QED
    BY <2>1, <2>2
<1>4. ASSUME Calm', NEW c \in Client, Active(c)'
      PROVE  Unharmed(c)'
  <2>1. Clean /\ Clean' /\ ~Stray(w) /\ Calm /\ UNCHANGED <<asked, open, sock>>
    BY <1>2, <1>4 DEF Calm, Process, ends
  <2>2. Unharmed(c)
    BY <1>4, <2>1 DEF Active
  <2>3. /\ worker[w] # Idle
        /\ \A v \in Worker \ {w} : worker'[v] = worker[v]
        /\ \/ worker'[w] = Idle
           \/ /\ LookupDst(w)
              /\ worker'[w].pkt = worker[w].pkt
    BY <1>1, HandleEffect DEF CInv
  <2>4. \A v \in Worker : worker'[v] # Idle => Harmless(pkt(v), c)'
    BY <2>1, <2>2, <2>3 DEF Unharmed, Harmless, pkt
  <2>5. SynAck(w) => /\ pkt(w).src = flow(w).entry_data.d_index
                     /\ pkt(w).flags = {"SYN", "ACK"} /\ key(w) = pkt(w).dst
                     /\ flow(w).entry_data.d_index \in DIndex
    <3> SUFFICES ASSUME SynAck(w)
                 PROVE  /\ pkt(w).src = flow(w).entry_data.d_index
                        /\ pkt(w).flags = {"SYN", "ACK"} /\ key(w) = pkt(w).dst
                        /\ flow(w).entry_data.d_index \in DIndex
      OBVIOUS
    <3>1. /\ In(w, "dst", {"BACKEND_SYN"}) /\ flow(w) \in flow_data_t
          /\ worker[w].ptr \in Addr /\ flow(w).entry_data.d_index \in DIndex
      BY WhoseInHand DEF SynAck
    <3>2. PICK s \in Established : heap' = [heap EXCEPT ![worker[w].ptr] =
                                              [flow(w) EXCEPT !.state = s]]
      BY DEF SynAck, SetFlow, Established
    <3>3. heap'[worker[w].ptr].state = s
      BY <3>1, <3>2 DEF CInv, TypeOK, flow_data_t
    <3>4. heap[worker[w].ptr].state # s
      BY <3>1 DEF In, flow, Established
    <3>5. heap' # heap
      BY <3>3, <3>4
    <3>6. In(w, "dst", {"BACKEND_SYN", "COMPLETE", "OFFLOAD"})
      BY <3>1 DEF In
    <3> QED
      BY <2>1, <3>1, <3>5, <3>6 DEF Stray, SynAck, key, In
  <2>6. \A p \in net' : Harmless(p, c)'
    <3>1. \A p \in net : Harmless(p, c)'
      BY <2>1, <2>2 DEF Unharmed, Harmless
    <3>2. CASE worker'[w] # Idle
      BY <3>1, <3>2 DEF Process
    <3>3. CASE worker'[w] = Idle
      <4>1. ~LookupDst(w)
        <5>1. ASSUME LookupDst(w) PROVE FALSE
          <6>1. worker'[w] = [worker[w] EXCEPT !.at = "dst",
                                               !.ptr = flow_hash_map[pkt(w).dst]]
            BY <5>1 DEF LookupDst, CInv, TypeOK
          <6>2. worker[w].at = "src" /\ worker[w] \in worker_t
            BY <5>1 DEF LookupDst, NoCase, CInv, TypeOK
          <6>3. worker'[w].at = "dst"
            BY <6>1, <6>2 DEF worker_t, Idle
          <6> QED
            BY <3>3, <6>3 DEF Idle
        <5> QED
          BY <5>1
      <4>2. AllHarmless(send_pkts', c)
        BY <1>1, <2>1, <2>2, <2>5, <4>1, HandleHarmless
      <4>3. \A p \in net' \ net : Harmless(p, c)
        BY <3>3, <4>2 DEF Process, AllHarmless
      <4> QED
        BY <2>1, <3>1, <4>3 DEF Harmless
    <3> QED
      BY <3>2, <3>3
  <2>7. OnBackend(c)' => sock'[FlowOf(c)'.entry_data.d_index][c] # "none"
    <3> SUFFICES ASSUME OnBackend(c)'
                 PROVE  sock'[FlowOf(c)'.entry_data.d_index][c] # "none"
      OBVIOUS
    <3>1. \/ /\ OnBackend(c)
             /\ FlowOf(c)'.entry_data.d_index = FlowOf(c).entry_data.d_index
          \/ /\ SynAck(w) /\ key(w) = c
             /\ FlowOf(c)'.entry_data.d_index = flow(w).entry_data.d_index
      BY <1>1, <2>1, HandleOnBackend
    <3>2. CASE OnBackend(c) /\ FlowOf(c)'.entry_data.d_index = FlowOf(c).entry_data.d_index
      BY <2>1, <2>2, <3>2 DEF Unharmed
    <3>3. CASE /\ SynAck(w) /\ key(w) = c
               /\ FlowOf(c)'.entry_data.d_index = flow(w).entry_data.d_index
      <4>1. Harmless(pkt(w), c)
        BY <2>2, <2>3 DEF Unharmed
      <4> QED
        BY <2>1, <2>5, <3>3, <4>1 DEF Harmless
    <3> QED
      BY <3>1, <3>2, <3>3
  <2> QED
    BY <2>1, <2>2, <2>4, <2>6, <2>7 DEF Unharmed
<1> QED
  BY <1>1, <1>3, <1>4

\* A worker takes a packet.
LEMMA ReceiveMInv ==
    ASSUME MInv, NEW w \in Worker, NEW p \in net, Receive(w, p)
    PROVE  MInv'
<1> USE DEF MInv
<1>1. CInv'
  BY ReceiveCInv
<1>2. /\ UNCHANGED memory /\ UNCHANGED <<asked, open, sock>>
      /\ net' = net \ {p}
      /\ worker' = [worker EXCEPT ![w] =
                      [at |-> "src", pkt |-> p, ptr |-> flow_hash_map[p.src],
                       part |-> NULL]]
      /\ upset \subseteq upset'
  BY DEF Receive, Rx, ends
<1>3. \A v \in Worker : \/ worker'[v] = worker[v]
                        \/ /\ worker'[v].pkt = p /\ worker'[v].at = "src"
                           /\ worker'[v].ptr = flow_hash_map[p.src]
  BY <1>2 DEF CInv, TypeOK
<1>4. MemorySafe' /\ CachedRequestIsOwn'
  BY <1>2, <1>3, QuietSafe DEF CInv, key, pkt
<1>5. ASSUME Calm', NEW c \in Client, Active(c)'
      PROVE  Unharmed(c)'
  <2>1. Clean' => Clean
    BY <1>2 DEF memory, Clean
  <2>2. Unharmed(c)
    BY <1>2, <1>5, <2>1 DEF Calm, Active
  <2>3. \A q \in net : Harmless(q, c)'
    BY <1>2, <2>2 DEF Unharmed, Harmless
  <2>4. \A v \in Worker : worker'[v] # Idle => Harmless(pkt(v), c)'
    BY <1>2, <1>3, <2>2 DEF Unharmed, Harmless, pkt
  <2>5. OnBackend(c)' => OnBackend(c) /\ FlowOf(c)' = FlowOf(c)
    BY <1>2 DEF memory, OnBackend, Mapped, FlowOf
  <2> QED
    BY <1>2, <2>2, <2>3, <2>4, <2>5 DEF Unharmed
<1> QED
  BY <1>1, <1>4, <1>5

\* The steps that leave the Frontend's memory and workers alone keep what is
\* known of them.
LEMMA EndsStep ==
    ASSUME MInv, UNCHANGED <<memory, worker>>, CInv',
           upset \subseteq upset',
           Calm' => \A c \in Client : Active(c)' =>
              /\ Active(c)
              /\ Unharmed(c) => /\ c \in open'
                                /\ \A p \in net' : Harmless(p, c)'
                                /\ \A d \in DIndex : sock[d][c] # "none" => sock'[d][c] # "none"
    PROVE  MInv'
<1> USE DEF MInv
<1>1. MemorySafe' /\ CachedRequestIsOwn'
  BY QuietSafe DEF CInv
<1>2. ASSUME Calm', NEW c \in Client, Active(c)'
      PROVE  Unharmed(c)'
  <2>1. Calm
    BY <1>2 DEF Calm, Clean, memory
  <2>2. Unharmed(c)
    BY <1>2, <2>1
  <2>3. /\ c \in open'
        /\ \A p \in net' : Harmless(p, c)'
        /\ \A d \in DIndex : sock[d][c] # "none" => sock'[d][c] # "none"
    BY <1>2, <2>2
  <2>4. \A v \in Worker : worker'[v] # Idle => Harmless(pkt(v), c)'
    BY <2>2, <2>3 DEF Unharmed, Harmless, pkt
  <2>5. OnBackend(c)' => sock'[FlowOf(c)'.entry_data.d_index][c] # "none"
    <3> SUFFICES ASSUME OnBackend(c)'
                 PROVE  sock'[FlowOf(c)'.entry_data.d_index][c] # "none"
      OBVIOUS
    <3>1. OnBackend(c) /\ FlowOf(c)' = FlowOf(c)
      BY DEF memory, OnBackend, Mapped, FlowOf
    <3>2. flow_hash_map[c] \in Addr
      BY <3>1 DEF OnBackend, Mapped, CInv, TypeOK, Endpoint
    <3>3. FlowOf(c) \in flow_data_t /\ FlowOf(c).entry_data # NULL
      BY <3>1, <3>2 DEF OnBackend, Established, FlowOf, CInv, TypeOK, FlowsFilledIn
    <3>4. FlowOf(c).entry_data.d_index \in DIndex
      BY <3>3 DEF flow_data_t, my_data_t
    <3> QED
      BY <2>2, <2>3, <3>1, <3>4 DEF Unharmed
  <2> QED
    BY <2>3, <2>4, <2>5 DEF Unharmed
<1> QED
  BY <1>1, <1>2

\* Every step of the composition keeps the invariant.
LEMMA NextMInv ==
    ASSUME MInv, [ConnectionNext]_cvars, mingled' = {}
    PROVE  MInv'
<1> USE DEF MInv
<1>1. CInv'
  BY NextCInv
<1>2. UNCHANGED vars => UNCHANGED <<memory, worker>>
  BY DEF vars, memory
<1>3. ASSUME NEW u \in Url, LearnRule(u) PROVE MInv'
  <2>1. UNCHANGED <<memory, worker>> /\ UNCHANGED <<net, asked, open, sock, upset>>
    BY <1>3 DEF LearnRule, UpdateRule, ends
  <2> QED
    BY <1>1, <2>1, EndsStep DEF Unharmed, Harmless, Active
<1>4. ASSUME NEW p \in net, Lose(p) PROVE MInv'
  <2>1. UNCHANGED <<memory, worker>> /\ UNCHANGED <<asked, open, sock, upset>> /\ net' \subseteq net
    BY <1>2, <1>4 DEF Lose, ends
  <2> QED
    BY <1>1, <2>1, EndsStep DEF Unharmed, Harmless, Active
<1>5. ASSUME NEW k \in Client, Ask(k) PROVE MInv'
  <2>1. PICK r : r = Request(k)
    OBVIOUS
  <2>2. /\ UNCHANGED <<memory, worker>> /\ UNCHANGED <<asked, open, sock, upset>>
        /\ net' = net \cup {r}
    BY <1>2, <1>5, <2>1 DEF Ask, ends
  <2>3. r.src = k /\ r.dst = VIP /\ r.flags = {"ACK"}
    BY <2>1 DEF Request, FromEnd
  <2>4. \A c \in Client : Harmless(r, c)'
    BY <2>3, EndpointAssumption DEF Harmless
  <2>5. ASSUME NEW c \in Client, Unharmed(c)
        PROVE  \A q \in net' : Harmless(q, c)'
    <3>1. \A q \in net : Harmless(q, c)'
      BY <2>2, <2>5 DEF Unharmed, Harmless
    <3> QED
      BY <2>2, <2>4, <3>1
  <2> QED
    BY <1>1, <2>2, <2>5, EndsStep DEF Unharmed, Active
<1>6. ASSUME NEW k \in Client, Hangup(k) PROVE MInv'
  <2>1. PICK r : r = FromEnd(k, VIP, {"FIN", "ACK"}, NULL, asked[k])
    OBVIOUS
  <2>2. /\ UNCHANGED <<memory, worker>> /\ UNCHANGED <<asked, sock, upset>>
        /\ net' = net \cup {r} /\ open' = open \ {k} /\ asked[k] > Len(Script)
    BY <1>2, <1>6, <2>1 DEF Hangup
  <2>3. ~Active(k)'
    BY <2>2, ScriptAssumption DEF Active, CInv, EndsTypeOK
  <2>4. r.src = k /\ r.dst = VIP
    BY <2>1 DEF FromEnd
  <2>5. \A c \in Client \ {k} : Harmless(r, c)'
    BY <2>4, EndpointAssumption DEF Harmless
  <2>6. ASSUME NEW c \in Client \ {k}, Unharmed(c)
        PROVE  c \in open' /\ \A q \in net' : Harmless(q, c)'
    <3>1. \A q \in net : Harmless(q, c)'
      BY <2>2, <2>6 DEF Unharmed, Harmless
    <3> QED
      BY <2>2, <2>5, <2>6, <3>1 DEF Unharmed
  <2>7. \A c \in Client : Active(c)' => Active(c)
    BY <2>2 DEF Active
  <2> QED
    BY <1>1, <2>2, <2>3, <2>6, <2>7, EndsStep
<1>7. ASSUME NEW k \in Client, NEW p \in net, ClientReceive(k, p) PROVE MInv'
  <2>1. /\ UNCHANGED <<memory, worker>> /\ UNCHANGED <<sock, upset>>
        /\ net' \subseteq net /\ p.dst = k
        /\ open' = IF "RST" \in p.flags THEN open \ {k} ELSE open
        /\ asked' = asked \/ asked' = [asked EXCEPT ![k] = @ + 1]
    BY <1>2, <1>7 DEF ClientReceive
  <2>2. \A c \in Client : asked'[c] \in Nat /\ asked[c] \in Nat /\ asked'[c] >= asked[c]
    BY <2>1 DEF CInv, EndsTypeOK
  <2>3. \A c \in Client : Active(c)' => Active(c)
    BY <2>1, <2>2, ScriptAssumption DEF Active
  <2>4. ASSUME NEW c \in Client, Unharmed(c)
        PROVE  c \in open' /\ \A q \in net' : Harmless(q, c)'
    BY <2>1, <2>4 DEF Unharmed, Harmless
  <2> QED
    BY <1>1, <2>1, <2>3, <2>4, EndsStep
<1>8. ASSUME NEW d \in DIndex, NEW k \in Client, IdleTimeout(d, k) PROVE MInv'
  <2>1. UNCHANGED <<memory, worker>> /\ "idle" \in upset' /\ upset \subseteq upset'
    BY <1>2, <1>8 DEF IdleTimeout
  <2>2. ~Calm'
    BY <2>1 DEF Calm
  <2> QED
    BY <1>1, <2>1, <2>2, EndsStep
<1>9. ASSUME NEW d \in DIndex, NEW p \in net, BackendReceive(d, p) PROVE MInv'
  <2> DEFINE k == p.src
  <2>1. /\ UNCHANGED <<memory, worker>> /\ UNCHANGED <<asked, open, upset>>
        /\ p.dst = d /\ k \in Client
    BY <1>2, <1>9 DEF BackendReceive
  <2>2. /\ sock' = sock \/ \E t : sock' = [sock EXCEPT ![d][k] = t]
        /\ \/ net' = net \ {p}
           \/ \E r : net' = (net \ {p}) \cup {r} /\ r.src = d /\ r.dst = k
    <3>1. sock' = sock \/ \E t : sock' = [sock EXCEPT ![d][k] = t]
      BY <1>9 DEF BackendReceive
    <3>2. net' = net \ {p} \/ \E f, u : net' = (net \ {p}) \cup {FromEnd(d, k, f, u, 0)}
      BY <1>9 DEF BackendReceive
    <3>3. \A f, u : FromEnd(d, k, f, u, 0).src = d /\ FromEnd(d, k, f, u, 0).dst = k
      BY DEF FromEnd
    <3> QED
      BY <3>1, <3>2, <3>3
  <2>3. \A c \in Client \ {k} : \A e \in DIndex : sock'[e][c] = sock[e][c]
    BY <2>1, <2>2 DEF CInv, EndsTypeOK
  <2>4. ASSUME NEW c \in Client \ {k}, Unharmed(c)
        PROVE  /\ \A q \in net' : Harmless(q, c)'
               /\ \A e \in DIndex : sock[e][c] # "none" => sock'[e][c] # "none"
    <3>1. \A q \in net : Harmless(q, c)'
      BY <2>3, <2>4 DEF Unharmed, Harmless
    <3>2. ASSUME NEW r, r.src = d, r.dst = k PROVE Harmless(r, c)'
      BY <2>4, <3>2, EndpointAssumption DEF Harmless
    <3> QED
      BY <2>2, <2>3, <2>4, <3>1, <3>2
  <2>5. ASSUME Unharmed(k)
        PROVE  /\ \A q \in net' : Harmless(q, k)'
               /\ \A e \in DIndex : sock[e][k] # "none" => sock'[e][k] # "none"
    <3>1. Harmless(p, k)
      BY <2>5 DEF Unharmed
    <3>2. "RST" \notin p.flags /\ ("ACK" \in p.flags => sock[d][k] # "none")
      BY <2>1, <3>1 DEF Harmless
    <3>3. \A e \in DIndex : sock[e][k] # "none" => sock'[e][k] # "none"
      BY <1>9, <2>1, <3>2 DEF BackendReceive, CInv, EndsTypeOK
    <3>4. \A q \in net : Harmless(q, k)'
      BY <2>5, <3>3 DEF Unharmed, Harmless
    <3>5. PICK f \in {{"ACK"}, {"SYN", "ACK"}} : \E u :
             net' = (net \ {p}) \cup {FromEnd(d, k, f, u, 0)}
      BY <1>9, <3>2 DEF BackendReceive
    <3>6. PICK u : net' = (net \ {p}) \cup {FromEnd(d, k, f, u, 0)}
      BY <3>5
    <3>7. sock'[d][k] # "none"
      BY <1>9, <2>1, <3>2 DEF BackendReceive, CInv, EndsTypeOK
    <3>8. Harmless(FromEnd(d, k, f, u, 0), k)'
      BY <2>1, <3>7, EndpointAssumption DEF FromEnd, Harmless
    <3> QED
      BY <3>3, <3>4, <3>6, <3>8
  <2>6. ASSUME NEW c \in Client, Unharmed(c)
        PROVE  /\ c \in open'
               /\ \A q \in net' : Harmless(q, c)'
               /\ \A e \in DIndex : sock[e][c] # "none" => sock'[e][c] # "none"
    BY <2>1, <2>4, <2>5, <2>6 DEF Unharmed
  <2>7. \A c \in Client : Active(c)' => Active(c)
    BY <2>1 DEF Active
  <2> QED
    BY <1>1, <2>1, <2>6, <2>7, EndsStep
<1>10. CASE UNCHANGED cvars
  <2>1. UNCHANGED <<memory, worker>> /\ UNCHANGED <<net, asked, open, sock, upset>>
    BY <1>2, <1>10 DEF cvars, ends
  <2> QED
    BY <1>1, <2>1, EndsStep DEF Unharmed, Harmless, Active
<1>11. CASE ConnectionNext
  BY <1>3, <1>4, <1>5, <1>6, <1>7, <1>8, <1>9, <1>11, ReceiveMInv, ProcessMInv, Zenon
  DEF ConnectionNext
<1> QED
  BY <1>10, <1>11

-----------------------------------------------------------------------------
\* For any number of clients, backends, workers and requests, and whatever
\* the network loses or delays, a request is only ever answered by the backend
\* its rule names, until two workers are inside one flow at the same time.
THEOREM RightBackends == ConnectionSpec => []RightBackend
<1> DEFINE J == mingled = {} => CInv
<1>1. ConnectionInit => J
  BY InitCInv
<1>2. J /\ [ConnectionNext]_cvars => J'
  BY NextCInv, MingledBackwards
<1>3. J => RightBackend
  BY DEF CInv, ServedRight, RightBackend, RuleFor
<1> QED
  BY <1>1, <1>2, <1>3, PTL DEF ConnectionSpec

\* For the same constants, and until the same happens, a client that has not
\* hung up is reset only after a backend gave up a connection or a flow took
\* the packet of a backend it had left for its present one's.
THEOREM UnharmedMoves == ConnectionSpec => []MovesUnharmed
<1> DEFINE J == mingled = {} => MInv
<1>1. ConnectionInit => J
  <2> SUFFICES ASSUME ConnectionInit PROVE MInv
    OBVIOUS
  <2>1. CInv
    BY InitCInv
  <2>2. MemorySafe /\ CachedRequestIsOwn
    BY InitIInv DEF ConnectionInit, IInv, MemInv
  <2>3. \A c \in Client : Unharmed(c)
    BY DEF ConnectionInit, Init, Unharmed, OnBackend, Mapped, Endpoint
  <2> QED
    BY <2>1, <2>2, <2>3 DEF MInv
<1>2. J /\ [ConnectionNext]_cvars => J'
  BY NextMInv, MingledBackwards
<1>3. J => MovesUnharmed
  BY DEF MInv, MovesUnharmed, Calm, Active, Unharmed
<1> QED
  BY <1>1, <1>2, <1>3, PTL DEF ConnectionSpec
=============================================================================
