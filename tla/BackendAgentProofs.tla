------------------------- MODULE BackendAgentProofs -------------------------
(***************************************************************************)
(* Proofs about BackendAgent for every set of client endpoints, every size *)
(* of the sequence-number space (2^32 in the code) and every map capacity. *)
(*                                                                         *)
(* SpliceExact speaks of the packet handled last only.  That the next one  *)
(* comes out right rests on what the maps hold for a connection that met   *)
(* nothing unusual: its SYN's number until the SYN-ACK, then the distance  *)
(* between the two numberings (Spliced).  The rest is arithmetic modulo    *)
(* SeqSpace, which the provers know only as division with remainder.       *)
(***************************************************************************)
EXTENDS BackendAgent, TLAPS

\* A connection nothing unusual happened to has its announced number in
\* seq_map until the SYN-ACK passed, and from then on its difference in
\* flow_map.
Spliced(k) ==
    sock[k] # NULL /\ broken[k] = {} =>
        IF flow_map[k] = NULL
        THEN sock[k].state = "SYN_RECV" /\ seq_map[k] = sock[k].f_seq
        ELSE flow_map[k] = Minus(sock[k].isn, sock[k].f_seq)

IInv ==
    /\ TypeOK
    /\ \A k \in Key : Spliced(k)
    /\ SpliceExact

-----------------------------------------------------------------------------
(* Arithmetic modulo SeqSpace.                                             *)

\* A remainder is a sequence number.
LEMMA ModRange ==
    ASSUME NEW a \in Int
    PROVE  a % SeqSpace \in Seqno
BY SeqSpaceAssumption DEF Seqno

\* Division with remainder.
LEMMA ModDivides ==
    ASSUME NEW a \in Int
    PROVE  \E q \in Int : a = q * SeqSpace + (a % SeqSpace)
<1>1. a = (a \div SeqSpace) * SeqSpace + (a % SeqSpace) /\ a \div SeqSpace \in Int
    BY SeqSpaceAssumption
<1> QED
    BY <1>1, Zenon

\* Two sequence numbers a multiple of SeqSpace apart are the same.
LEMMA ModUnique ==
    ASSUME NEW r \in Seqno, NEW t \in Seqno, NEW q \in Int, r = t + q * SeqSpace
    PROVE  r = t
<1> USE SeqSpaceAssumption DEF Seqno
<1>1. CASE q = 0
    BY <1>1
<1>2. CASE q >= 1
    <2>1. q * SeqSpace >= SeqSpace
        BY <1>2
    <2> QED
        BY <2>1
<1>3. CASE q <= -1
    <2>1. q * SeqSpace <= -SeqSpace
        BY <1>3
    <2> QED
        BY <2>1
<1> QED
    BY <1>1, <1>2, <1>3

\* Numbers a multiple of SeqSpace apart have the same remainder.
LEMMA ModShift ==
    ASSUME NEW a \in Int, NEW b \in Int, NEW q \in Int, a = b + q * SeqSpace
    PROVE  a % SeqSpace = b % SeqSpace
<1>1. PICK i \in Int : a = i * SeqSpace + (a % SeqSpace)
    BY ModDivides
<1>2. PICK j \in Int : b = j * SeqSpace + (b % SeqSpace)
    BY ModDivides
<1>3. a % SeqSpace \in Seqno /\ b % SeqSpace \in Seqno
    BY ModRange
<1>4. a % SeqSpace = (b % SeqSpace) + (j + q - i) * SeqSpace
    BY <1>1, <1>2, <1>3, SeqSpaceAssumption DEF Seqno
<1>5. j + q - i \in Int
    OBVIOUS
<1> QED
    BY <1>3, <1>4, <1>5, ModUnique

\* Inwards: the client's number of a byte plus the difference is the
\* kernel's number of that byte.
LEMMA PlusShifts ==
    ASSUME NEW isn \in Seqno, NEW f \in Seqno, NEW o \in Int
    PROVE  Plus(Plus(f, o), Minus(isn, f)) = Plus(isn, o)
<1>0. isn \in Int /\ f \in Int /\ f + o \in Int /\ isn + o \in Int /\ isn - f \in Int
    BY SeqSpaceAssumption DEF Seqno
<1>1. PICK i \in Int : f + o = i * SeqSpace + ((f + o) % SeqSpace)
    BY <1>0, ModDivides
<1>2. PICK j \in Int : isn - f = j * SeqSpace + ((isn - f) % SeqSpace)
    BY <1>0, ModDivides
<1> DEFINE r == (f + o) % SeqSpace
           d == (isn - f) % SeqSpace
<1>3. r \in Int /\ d \in Int
    BY <1>0, ModRange, SeqSpaceAssumption DEF Seqno
<1>4. i + j \in Int /\ r + d \in Int
    BY <1>3
<1>5. isn + o = (r + d) + (i + j) * SeqSpace
    BY <1>0, <1>1, <1>2, <1>3, SeqSpaceAssumption
<1>6. (isn + o) % SeqSpace = (r + d) % SeqSpace
    <2> HIDE DEF r, d
    <2> QED
        BY <1>0, <1>4, <1>5, ModShift
<1> QED
    BY <1>6 DEF Plus, Minus

\* Outwards: the kernel's number of a byte minus the difference is the
\* client's number of that byte.
LEMMA MinusShifts ==
    ASSUME NEW isn \in Seqno, NEW f \in Seqno, NEW o \in Int
    PROVE  Minus(Plus(isn, o), Minus(isn, f)) = Plus(f, o)
<1>0. isn \in Int /\ f \in Int /\ f + o \in Int /\ isn + o \in Int /\ isn - f \in Int
    BY SeqSpaceAssumption DEF Seqno
<1>1. PICK i \in Int : isn + o = i * SeqSpace + ((isn + o) % SeqSpace)
    BY <1>0, ModDivides
<1>2. PICK j \in Int : isn - f = j * SeqSpace + ((isn - f) % SeqSpace)
    BY <1>0, ModDivides
<1> DEFINE r == (isn + o) % SeqSpace
           d == (isn - f) % SeqSpace
<1>3. r \in Int /\ d \in Int
    BY <1>0, ModRange, SeqSpaceAssumption DEF Seqno
<1>4. i - j \in Int /\ r - d \in Int
    BY <1>3
<1>5. f + o = (r - d) + (i - j) * SeqSpace
    BY <1>0, <1>1, <1>2, <1>3, SeqSpaceAssumption
<1>6. (f + o) % SeqSpace = (r - d) % SeqSpace
    <2> HIDE DEF r, d
    <2> QED
        BY <1>0, <1>4, <1>5, ModShift
<1> QED
    BY <1>6 DEF Plus, Minus

\* Translating keeps numbers in the space.
LEMMA NumRange ==
    ASSUME TypeOK, NEW k \in Key, NEW n \in Seqno
    PROVE  ingress_num(k, n) \in Seqno /\ egress_num(k, n) \in Seqno
<1>1. flow_map[k] \in Seqno \cup {NULL}
    BY DEF TypeOK
<1>2. CASE flow_map[k] = NULL
    BY <1>2 DEF ingress_num, egress_num
<1>3. CASE flow_map[k] # NULL
    <2>1. flow_map[k] \in Int /\ n \in Int
        BY <1>1, <1>3, SeqSpaceAssumption DEF Seqno
    <2>2. n + flow_map[k] \in Int /\ n - flow_map[k] \in Int
        BY <2>1
    <2> QED
        BY <1>3, <2>2, ModRange DEF ingress_num, egress_num, Plus, Minus
<1> QED
    BY <1>2, <1>3

\* So are the bytes of a stream.
LEMMA ByteRange ==
    ASSUME NEW b \in Seqno, NEW o \in Int
    PROVE  Plus(b, o) \in Seqno
<1>1. b + o \in Int
    BY SeqSpaceAssumption DEF Seqno
<1> QED
    BY <1>1, ModRange DEF Plus

-----------------------------------------------------------------------------
(* The inductive invariant.                                                *)

\* Nothing is known of any connection at first.
LEMMA InitIInv == Init => IInv
<1> SUFFICES ASSUME Init PROVE IInv
    OBVIOUS
<1>1. TypeOK
    BY DEF Init, TypeOK
<1>2. \A k \in Key : Spliced(k)
    BY DEF Init, Spliced
<1>3. SpliceExact
    BY DEF Init, SpliceExact
<1> QED
    BY <1>1, <1>2, <1>3 DEF IInv

\* An update keeps a map's type, and changes the key's entry or, the map
\* being full, nothing.
LEMMA UpdateEffect ==
    ASSUME NEW map \in [Key -> Seqno \cup {NULL}], NEW k \in Key, NEW v \in Seqno
    PROVE  LET new == bpf_map_update_elem(map, k, v) IN
           /\ new \in [Key -> Seqno \cup {NULL}]
           /\ new[k] = v \/ (new[k] = NULL /\ map[k] = NULL)
           /\ \A l \in Key \ {k} : new[l] = map[l]
BY DEF bpf_map_update_elem

\* Only packets with a number in them become the last one.
LEMMA QuietExact ==
    ASSUME last' = NULL
    PROVE  SpliceExact'
BY DEF SpliceExact

\* The Frontend's SYN.
LEMMA SynIInv ==
    ASSUME IInv, NEW k \in Key, NEW v \in Seqno, Syn(k, v)
    PROVE  IInv'
<1> USE DEF IInv
<1>1. seq_map' \in [Key -> Seqno \cup {NULL}]
    BY UpdateEffect DEF Syn, TypeOK
<1>2. \A l \in Key \ {k} : seq_map'[l] = seq_map[l] /\ sock'[l] = sock[l] /\ broken'[l] = broken[l]
    BY UpdateEffect DEF Syn, TypeOK
<1>0. flow_map[k] = NULL /\ seq_map'[k] # NULL => seq_map'[k] = v
    <2>1. seq_map \in [Key -> Seqno \cup {NULL}]
        BY DEF TypeOK
    <2>2. flow_map[k] = NULL => seq_map' = bpf_map_update_elem(seq_map, k, v)
        BY DEF Syn
    <2>3. LET new == bpf_map_update_elem(seq_map, k, v) IN
          new[k] = v \/ (new[k] = NULL /\ seq_map[k] = NULL)
        BY <2>1, UpdateEffect
    <2> QED
        BY <2>2, <2>3
<1>3. sock[k] = NULL => sock' \in [Key -> sock_t \cup {NULL}] /\ Spliced(k)'
    <2> SUFFICES ASSUME sock[k] = NULL PROVE sock' \in [Key -> sock_t \cup {NULL}] /\ Spliced(k)'
        OBVIOUS
    <2>1. PICK isn \in Seqno : sock' = [sock EXCEPT ![k] =
                                  [isn |-> isn, f_seq |-> v, sent |-> 0, state |-> "SYN_RECV"]]
        BY DEF Syn
    <2>2. sock' \in [Key -> sock_t \cup {NULL}]
        BY <2>1, LimitAssumption DEF TypeOK, sock_t
    <2>3. broken'[k] = {} => flow_map[k] = NULL /\ seq_map'[k] # NULL
        BY DEF Syn, TypeOK, Reasons
    <2>4. sock'[k].f_seq = v /\ sock'[k].state = "SYN_RECV"
        BY <2>1 DEF TypeOK
    <2>6. Spliced(k)'
        BY <1>0, <2>3, <2>4 DEF Syn, Spliced
    <2> QED
        BY <2>2, <2>6
<1>4. sock[k] # NULL => sock' \in [Key -> sock_t \cup {NULL}] /\ Spliced(k)'
    <2> SUFFICES ASSUME sock[k] # NULL PROVE sock' \in [Key -> sock_t \cup {NULL}] /\ Spliced(k)'
        OBVIOUS
    <2>1. sock' = [sock EXCEPT ![k].f_seq = IF sock[k].state = "OPEN" THEN @ ELSE v]
        BY DEF Syn
    <2>2. sock[k] \in sock_t
        BY DEF TypeOK
    <2>3. sock' \in [Key -> sock_t \cup {NULL}]
        BY <2>1, <2>2 DEF TypeOK, sock_t
    <2>4. /\ sock'[k].isn = sock[k].isn /\ sock'[k].state = sock[k].state
          /\ sock'[k].f_seq = IF sock[k].state = "OPEN" THEN sock[k].f_seq ELSE v
        BY <2>1, <2>2 DEF TypeOK, sock_t
    <2>5. broken'[k] = {} => broken[k] = {}
        BY DEF Syn, TypeOK
    <2>6. broken'[k] = {} /\ flow_map[k] = NULL => seq_map'[k] # NULL
        BY DEF Syn, TypeOK, Reasons
    <2>7. broken'[k] = {} /\ flow_map[k] # NULL => sock'[k].f_seq = sock[k].f_seq
        BY DEF Syn, TypeOK, Reasons
    <2>9. Spliced(k)
        OBVIOUS
    <2>10. Spliced(k)'
        BY <2>4, <2>5, <2>6, <2>7, <2>9, <1>0 DEF Syn, Spliced
    <2> QED
        BY <2>3, <2>10
<1>5. \A l \in Key : Spliced(l)'
    BY <1>2, <1>3, <1>4 DEF Syn, Spliced
<1>6. broken' \in [Key -> SUBSET Reasons]
    BY DEF Syn, TypeOK
<1>7. TypeOK'
    BY <1>1, <1>3, <1>4, <1>6 DEF Syn, TypeOK
<1> QED
    BY <1>5, <1>7, QuietExact DEF Syn

\* The kernel's SYN-ACK.
LEMMA SynAckIInv ==
    ASSUME IInv, NEW k \in Key, SynAck(k)
    PROVE  IInv'
<1> USE DEF IInv
<1>1. sock[k] \in sock_t
    BY DEF SynAck, TypeOK
<1>2. sock' \in [Key -> sock_t \cup {NULL}]
    BY <1>1 DEF SynAck, TypeOK, sock_t
<1>3. sock'[k].isn = sock[k].isn /\ sock'[k].f_seq = sock[k].f_seq
    BY <1>1 DEF SynAck, TypeOK, sock_t
<1>4. seq_map[k] # NULL => Minus(sock[k].isn, seq_map[k]) \in Seqno
    <2> SUFFICES ASSUME seq_map[k] # NULL PROVE Minus(sock[k].isn, seq_map[k]) \in Seqno
        OBVIOUS
    <2>1. sock[k].isn - seq_map[k] \in Int
        BY <1>1, SeqSpaceAssumption DEF TypeOK, sock_t, Seqno
    <2> QED
        BY <2>1, ModRange DEF Minus
<1>5. /\ flow_map' \in [Key -> Seqno \cup {NULL}]
      /\ \A l \in Key \ {k} : flow_map'[l] = flow_map[l]
    BY <1>4, UpdateEffect DEF SynAck, TypeOK
<1>6. broken' \in [Key -> SUBSET Reasons]
    BY DEF SynAck, TypeOK, Reasons
<1>7. TypeOK'
    BY <1>2, <1>5, <1>6 DEF SynAck, TypeOK
<1>8. broken'[k] = {} => flow_map'[k] # NULL /\ broken[k] = {}
    BY DEF SynAck, TypeOK
<1>9. flow_map'[k] # NULL =>
         flow_map'[k] = IF flow_map[k] = NULL THEN Minus(sock[k].isn, seq_map[k]) ELSE flow_map[k]
    BY <1>4, UpdateEffect DEF SynAck, TypeOK
<1>10. Spliced(k)'
    BY <1>3, <1>8, <1>9 DEF SynAck, Spliced
<1>11. \A l \in Key \ {k} : sock'[l] = sock[l] /\ broken'[l] = broken[l]
    BY DEF SynAck, TypeOK
<1>12. \A l \in Key : Spliced(l)'
    BY <1>5, <1>10, <1>11 DEF SynAck, Spliced
<1> QED
    BY <1>7, <1>12, QuietExact DEF SynAck

\* A RST in either direction ends the socket.
LEMMA RstIInv ==
    ASSUME IInv, NEW k \in Key, Rst(k) \/ EgressRst(k)
    PROVE  IInv'
<1> USE DEF IInv, Rst, EgressRst
<1>1. TypeOK'
    BY DEF TypeOK
<1>2. \A l \in Key : Spliced(l)'
    BY DEF Spliced, TypeOK
<1> QED
    BY <1>1, <1>2, QuietExact

\* A segment of the client.
LEMMA AckIInv ==
    ASSUME IInv, NEW k \in Key, NEW o \in 1..(MaxSent + 1),
           NEW edges \in SUBSET (1..(MaxSent + 1)), Ack(k, o, edges)
    PROVE  IInv'
<1> USE DEF IInv
<1> DEFINE f == sock[k].f_seq
           isn == sock[k].isn
           ack == ingress_num(k, Plus(f, o))
<1>1. sock[k] \in sock_t /\ f \in Seqno /\ isn \in Seqno
    BY DEF Ack, TypeOK, sock_t
<1>2. sock' = [sock EXCEPT ![k].state = IF ack = Plus(isn, 1) THEN "OPEN" ELSE @]
    BY DEF Ack
<1>3. sock' \in [Key -> sock_t \cup {NULL}]
    BY <1>1, <1>2 DEF TypeOK, sock_t
<1>4. sock'[k].isn = isn /\ sock'[k].f_seq = f
    BY <1>1, <1>2 DEF TypeOK, sock_t
<1>5. \A e \in 1..(MaxSent + 1) : ingress_num(k, Plus(f, e)) \in Seqno
    BY <1>1, ByteRange, NumRange, LimitAssumption
<1>6. last' = [key |-> k, dir |-> "in", off |-> o, num |-> ack,
               sack |-> {ingress_num(k, Plus(f, e)) : e \in edges}, edges |-> edges]
    BY DEF Ack
<1>7. last' \in packet_t
    <2>1. o \in 0..(MaxSent + 1) /\ edges \subseteq 0..(MaxSent + 1)
        BY LimitAssumption
    <2>2. {ingress_num(k, Plus(f, e)) : e \in edges} \subseteq Seqno
        BY <1>5
    <2>3. ack \in Seqno
        BY <1>5
    <2> HIDE DEF ack, f
    <2> QED
        BY <1>6, <2>1, <2>2, <2>3 DEF packet_t
<1>8. TypeOK'
    BY <1>3, <1>7 DEF Ack, TypeOK
<1>9. broken[k] = {} => flow_map[k] # NULL /\ flow_map[k] = Minus(isn, f)
    BY DEF Ack, Spliced
<1>10. broken[k] = {} =>
          \A e \in 1..(MaxSent + 1) : ingress_num(k, Plus(f, e)) = Plus(isn, e)
    BY <1>1, <1>9, PlusShifts, LimitAssumption DEF ingress_num
<1>11. SpliceExact'
    <2>1. /\ last'.key = k /\ last'.dir = "in" /\ last'.off = o /\ last'.edges = edges
          /\ last'.num = ack
          /\ last'.sack = {ingress_num(k, Plus(f, e)) : e \in edges}
        BY <1>6
    <2> SUFFICES ASSUME broken[k] = {} PROVE Exact(last)'
        BY <2>1 DEF SpliceExact, Ack
    <2>2. ack = Plus(isn, o)
        BY <1>10
    <2>3. {ingress_num(k, Plus(f, e)) : e \in edges} = {Plus(isn, e) : e \in edges}
        BY <1>10
    <2> HIDE DEF ack
    <2> QED
        BY <1>4, <2>1, <2>2, <2>3 DEF Exact, Plus
<1>12. Spliced(k)'
    BY <1>4, <1>9 DEF Ack, Spliced
<1>13. \A l \in Key \ {k} : sock'[l] = sock[l]
    BY <1>2 DEF TypeOK
<1>14. \A l \in Key : Spliced(l)'
    BY <1>12, <1>13 DEF Ack, Spliced
<1> QED
    BY <1>8, <1>11, <1>14

\* A segment of the backend.
LEMMA SegmentIInv ==
    ASSUME IInv, NEW k \in Key, NEW o \in 1..MaxSent, Segment(k, o)
    PROVE  IInv'
<1> USE DEF IInv
<1> DEFINE f == sock[k].f_seq
           isn == sock[k].isn
           num == egress_num(k, Plus(isn, o))
<1>1. sock[k] \in sock_t /\ f \in Seqno /\ isn \in Seqno
    BY DEF Segment, TypeOK, sock_t
<1>2. sock' = [sock EXCEPT ![k].sent = IF o > @ THEN o ELSE @]
    BY DEF Segment
<1>3. sock' \in [Key -> sock_t \cup {NULL}]
    BY <1>1, <1>2, LimitAssumption DEF TypeOK, sock_t
<1>4. sock'[k].isn = isn /\ sock'[k].f_seq = f /\ sock'[k].state = sock[k].state
    BY <1>1, <1>2 DEF TypeOK, sock_t
<1>5. num \in Seqno
    BY <1>1, ByteRange, NumRange, LimitAssumption
<1>6. last' = [key |-> k, dir |-> "out", off |-> o, num |-> num, sack |-> {}, edges |-> {}]
    BY DEF Segment
<1>7. last' \in packet_t
    <2>1. o \in 0..(MaxSent + 1)
        BY LimitAssumption
    <2> HIDE DEF num
    <2> QED
        BY <1>5, <1>6, <2>1 DEF packet_t
<1>8. TypeOK'
    BY <1>3, <1>7 DEF Segment, TypeOK
<1>9. broken[k] = {} => flow_map[k] # NULL /\ flow_map[k] = Minus(isn, f)
    BY DEF Segment, Spliced
<1>10. broken[k] = {} => num = Plus(f, o)
    BY <1>1, <1>9, MinusShifts, LimitAssumption DEF egress_num
<1>11. SpliceExact'
    <2>1. /\ last'.key = k /\ last'.dir = "out" /\ last'.off = o /\ last'.edges = {}
          /\ last'.num = num /\ last'.sack = {}
        BY <1>6
    <2> SUFFICES ASSUME broken[k] = {} PROVE Exact(last)'
        BY <2>1 DEF SpliceExact, Segment
    <2> HIDE DEF num
    <2> QED
        BY <1>4, <1>10, <2>1 DEF Exact, Plus
<1>12. Spliced(k)'
    BY <1>4, <1>9 DEF Segment, Spliced
<1>13. \A l \in Key \ {k} : sock'[l] = sock[l]
    BY <1>2 DEF TypeOK
<1>14. \A l \in Key : Spliced(l)'
    BY <1>12, <1>13 DEF Segment, Spliced
<1> QED
    BY <1>8, <1>11, <1>14

\* Every step keeps the invariant.
LEMMA NextIInv == IInv /\ [Next]_vars => IInv'
<1> SUFFICES ASSUME IInv, [Next]_vars PROVE IInv'
    OBVIOUS
<1>1. CASE UNCHANGED vars
    BY <1>1 DEF IInv, vars, TypeOK, Spliced, SpliceExact, Exact
<1>2. CASE Next
    BY <1>2, SynIInv, SynAckIInv, RstIInv, AckIInv, SegmentIInv, Zenon DEF Next
<1> QED
    BY <1>1, <1>2

-----------------------------------------------------------------------------
\* Every variable has its type: in particular every number leaving the agent
\* is one of SeqSpace, whatever the maps held.
THEOREM TypeCorrect == Spec => []TypeOK
<1>1. IInv => TypeOK
    BY DEF IInv
<1> QED
    BY <1>1, InitIInv, NextIInv, PTL DEF Spec

\* For every size of the number space, every number of clients and every
\* capacity of the maps, a connection that met no leftover, no second number
\* and no full map is spliced exactly, in both directions and in its SACK
\* blocks.
THEOREM SplicedExactly == Spec => []SpliceExact
<1>1. IInv => SpliceExact
    BY DEF IInv
<1> QED
    BY <1>1, InitIInv, NextIInv, PTL DEF Spec
=============================================================================
