------------------------ MODULE MessageStreamProofs ------------------------
(***************************************************************************)
(* Proofs about MessageStream for every recv_buffer, every set of messages *)
(* and every way recv may cut the stream.                                  *)
(*                                                                         *)
(* HandlesSuffice counts entries, the code counts bytes.  Consumed ties    *)
(* the two: a header takes three cells and an entry at least one, so       *)
(* entry_index lags behind now_bytes by three, and what is left of a       *)
(* message recv returned whole lies within recv_size.                      *)
(*                                                                         *)
(* That the loop implements SwitchController needs more: what lies in      *)
(* recv_buffer behind now_bytes, and after it in the stream, is the rest   *)
(* of the current message and then exactly the encodings of the messages   *)
(* on SwitchController's wire (Aligned).  It also says where each of them  *)
(* ends, so that a recv whose begin_batch fails drops whole messages.      *)
(***************************************************************************)
EXTENDS MessageStream, TLAPS

Consumed ==
    InStep =>
        /\ status # "crashed"
        /\ status = "wait" => add_left = 0 /\ del_left = 0 /\ entry_index <= Handles
        /\ status = "loop" =>
              /\ now_bytes + 2 * add_left + del_left <= recv_size
              /\ \/ entry_index + 3 <= now_bytes
                 \/ entry_index = 0 /\ now_bytes = 0 /\ add_left = 0 /\ del_left = 0

IInv == TypeOK /\ Consumed

-----------------------------------------------------------------------------
\* A function on 1..n is a sequence.
LEMMA FunctionSeq ==
    ASSUME NEW S, NEW n \in Nat, NEW f \in [1..n -> S]
    PROVE  f \in Seq(S) /\ Len(f) = n
OBVIOUS

\* The elements of a sequence.
LEMMA Elements ==
    ASSUME NEW S, NEW s \in Seq(S)
    PROVE  /\ Len(s) \in Nat
           /\ s = [i \in 1..Len(s) |-> s[i]]
           /\ \A i \in 1..Len(s) : s[i] \in S
OBVIOUS

\* The elements of a concatenation.  Cat keeps \o away from the provers.
Cat(s, t) == s \o t

LEMMA Joined ==
    ASSUME NEW S, NEW p \in Nat, NEW q \in Nat,
           NEW s \in Seq(S), NEW t \in Seq(S), Len(s) = p, Len(t) = q
    PROVE  /\ Cat(s, t) \in Seq(S)
           /\ Len(Cat(s, t)) = p + q
           /\ \A i \in 1..p : Cat(s, t)[i] = s[i]
           /\ \A i \in 1..q : Cat(s, t)[p + i] = t[i]
BY DEF Cat

\* e is three sequences in a row, of lengths c, p and q.
InARow(S, e, h, c, s, p, t, q) ==
    /\ e \in Seq(S)
    /\ Len(e) = c + p + q
    /\ \A i \in 1..c : e[i] = h[i]
    /\ \A i \in 1..p : e[c + i] = s[i]
    /\ \A i \in 1..q : e[c + p + i] = t[i]

LEMMA Joined3 ==
    ASSUME NEW S, NEW c \in Nat, NEW p \in Nat, NEW q \in Nat,
           NEW h \in Seq(S), NEW s \in Seq(S), NEW t \in Seq(S),
           Len(h) = c, Len(s) = p, Len(t) = q
    PROVE  InARow(S, Cat(Cat(h, s), t), h, c, s, p, t, q)
<1>1. Cat(h, s) \in Seq(S)
  BY Joined
<1>2. PICK u \in Seq(S) : u = Cat(h, s)
  BY <1>1
<1>3. /\ Len(u) = c + p
      /\ \A i \in 1..c : u[i] = h[i]
      /\ \A i \in 1..p : u[c + i] = s[i]
  BY <1>2, Joined
<1>4. PICK cp \in Nat : cp = c + p
  OBVIOUS
<1>5. Len(u) = cp
  BY <1>3, <1>4
<1>6. /\ Cat(u, t) \in Seq(S)
      /\ Len(Cat(u, t)) = cp + q
      /\ \A i \in 1..cp : Cat(u, t)[i] = u[i]
      /\ \A i \in 1..q : Cat(u, t)[cp + i] = t[i]
  BY <1>5, Joined
<1>7. /\ \A i \in 1..c : Cat(u, t)[i] = h[i]
      /\ \A i \in 1..p : Cat(u, t)[c + i] = s[i]
  <2>1. /\ \A i \in 1..c : i \in 1..cp
        /\ \A i \in 1..p : c + i \in 1..cp
    BY <1>4
  <2> QED
    BY <1>3, <1>6, <2>1
<1> QED
  BY <1>2, <1>4, <1>6, <1>7 DEF InARow

Adds(m) == Len(m.adds)
Dels(m) == Len(m.dels)
Size(m) == 3 + 2 * Adds(m) + Dels(m)

\* A message, taken apart.
LEMMA MessageType ==
    ASSUME NEW m \in Message
    PROVE  /\ Adds(m) \in Byte /\ Dels(m) \in Byte
           /\ Adds(m) \in Nat /\ Dels(m) \in Nat /\ Size(m) \in Nat
           /\ \A i \in 1..Adds(m) :
                 /\ m.adds[i].key \in Byte /\ m.adds[i].d_index \in Byte
                 /\ m.adds[i] = [key |-> m.adds[i].key,
                                 d_index |-> m.adds[i].d_index, n |-> 0]
           /\ \A i \in 1..Dels(m) :
                 /\ m.dels[i].key \in Byte
                 /\ m.dels[i] = [key |-> m.dels[i].key, n |-> 0]
           /\ m.adds = [i \in 1..Adds(m) |-> m.adds[i]]
           /\ m.dels = [i \in 1..Dels(m) |-> m.dels[i]]
           /\ m = [adds |-> m.adds, dels |-> m.dels]
<1> DEFINE A == [key : Byte, d_index : Byte, n : {0}]
           D == [key : Byte, n : {0}]
<1>0. message_t = [adds : Seq(A), dels : Seq(D)]
  BY DEF message_t
<1>6. \A x \in A : x.key \in Byte /\ x.d_index \in Byte
                   /\ x = [key |-> x.key, d_index |-> x.d_index, n |-> 0]
  OBVIOUS
<1>7. \A x \in D : x.key \in Byte /\ x = [key |-> x.key, n |-> 0]
  OBVIOUS
<1> HIDE DEF A, D
<1>1. /\ m \in [adds : Seq(A), dels : Seq(D)]
      /\ Adds(m) \in Byte /\ Dels(m) \in Byte
  BY <1>0, MessageAssumption DEF Adds, Dels
<1>2. m.adds \in Seq(A) /\ m.dels \in Seq(D) /\ m = [adds |-> m.adds, dels |-> m.dels]
  BY <1>1
<1>3. Adds(m) \in Nat /\ Dels(m) \in Nat
  BY <1>1, ByteAssumption
<1>4. \A i \in 1..Adds(m) : m.adds[i] \in A
  BY <1>2, Elements DEF Adds
<1>5. \A i \in 1..Dels(m) : m.dels[i] \in D
  BY <1>2, Elements DEF Dels
<1>8. m.adds = [i \in 1..Adds(m) |-> m.adds[i]] /\ m.dels = [i \in 1..Dels(m) |-> m.dels[i]]
  BY <1>2, Elements DEF Adds, Dels
<1> QED
  BY <1>1, <1>2, <1>3, <1>4, <1>5, <1>6, <1>7, <1>8 DEF Size

\* The encoding of a message: the code and the two sizes, the key and the
\* backend of every add, the key of every del.
LEMMA EncodeShape ==
    ASSUME NEW m \in Message
    PROVE  /\ Encode(m) \in Seq(Byte)
           /\ Len(Encode(m)) = Size(m)
           /\ Encode(m)[1] = OFFLOAD_ENTRIES
           /\ Encode(m)[2] = Adds(m) /\ Encode(m)[3] = Dels(m)
           /\ \A i \in 1..Adds(m) : /\ Encode(m)[2 * i + 2] = m.adds[i].key
                                    /\ Encode(m)[2 * i + 3] = m.adds[i].d_index
           /\ \A i \in 1..Dels(m) : Encode(m)[3 + 2 * Adds(m) + i] = m.dels[i].key
<1> DEFINE a  == Adds(m)
           d  == Dels(m)
           as == [i \in 1..2 * a |-> IF i % 2 = 1 THEN m.adds[(i + 1) \div 2].key
                                                  ELSE m.adds[i \div 2].d_index]
           ds == [i \in 1..d |-> m.dels[i].key]
           w  == 2 * a
<1>1. /\ a \in Nat /\ d \in Nat /\ a \in Byte /\ d \in Byte
      /\ \A i \in 1..a : m.adds[i].key \in Byte /\ m.adds[i].d_index \in Byte
      /\ \A i \in 1..d : m.dels[i].key \in Byte
  BY MessageType
<1>2. ASSUME NEW i \in 1..2 * a
      PROVE  IF i % 2 = 1 THEN (i + 1) \div 2 \in 1..a ELSE i \div 2 \in 1..a
  BY <1>1
<1>3. w \in Nat /\ as \in [1..w -> Byte]
  BY <1>1, <1>2
<1>4. \A i \in 1..a : /\ 2 * i - 1 \in 1..w /\ 2 * i \in 1..w
                      /\ (2 * i - 1) % 2 = 1 /\ (2 * i) % 2 = 0
                      /\ ((2 * i - 1) + 1) \div 2 = i /\ (2 * i) \div 2 = i
  BY <1>1
<1>5. \A i \in 1..a : as[2 * i - 1] = m.adds[i].key /\ as[2 * i] = m.adds[i].d_index
  BY <1>4
<1>6. ds \in [1..d -> Byte] /\ \A i \in 1..d : ds[i] = m.dels[i].key
  BY <1>1
<1> DEFINE hd == <<OFFLOAD_ENTRIES, a, d>>
<1>7. Encode(m) = Cat(Cat(hd, as), ds)
  BY DEF Encode, Adds, Dels, Cat
<1>h. hd \in Seq(Byte) /\ Len(hd) = 3 /\ hd[1] = OFFLOAD_ENTRIES /\ hd[2] = a /\ hd[3] = d
  BY <1>1, ByteAssumption
<1> HIDE DEF as, ds, a, d, w, hd
<1>8. /\ Encode(m) \in Seq(Byte)
      /\ Len(Encode(m)) = 3 + w + d
      /\ Encode(m)[1] = OFFLOAD_ENTRIES /\ Encode(m)[2] = a /\ Encode(m)[3] = d
      /\ \A i \in 1..w : Encode(m)[3 + i] = as[i]
      /\ \A i \in 1..d : Encode(m)[3 + w + i] = ds[i]
  <2>1. as \in Seq(Byte) /\ ds \in Seq(Byte) /\ Len(as) = w /\ Len(ds) = d
    BY <1>1, <1>3, <1>6, FunctionSeq
  <2>2. InARow(Byte, Cat(Cat(hd, as), ds), hd, 3, as, w, ds, d)
    BY <1>1, <1>3, <1>h, <2>1, Joined3
  <2>3. InARow(Byte, Encode(m), hd, 3, as, w, ds, d)
    BY <1>7, <2>2
  <2>4. /\ Encode(m) \in Seq(Byte)
        /\ Len(Encode(m)) = 3 + w + d
        /\ \A i \in 1..w : Encode(m)[3 + i] = as[i]
        /\ \A i \in 1..d : Encode(m)[3 + w + i] = ds[i]
    BY <2>3 DEF InARow
  <2>5. \A i \in 1..3 : Encode(m)[i] = hd[i]
    BY <2>3 DEF InARow
  <2>6. Encode(m)[1] = hd[1] /\ Encode(m)[2] = hd[2] /\ Encode(m)[3] = hd[3]
    BY <2>5
  <2>7. hd[1] = OFFLOAD_ENTRIES /\ hd[2] = a /\ hd[3] = d
    BY <1>h
  <2> QED
    BY <2>4, <2>6, <2>7
<1>9. ASSUME NEW i \in 1..a
      PROVE  /\ Encode(m)[2 * i + 2] = m.adds[i].key
             /\ Encode(m)[2 * i + 3] = m.adds[i].d_index
  <2> DEFINE x == 2 * i - 1
             y == 2 * i
  <2>1. 2 * i + 2 = 3 + x /\ 2 * i + 3 = 3 + y
    BY <1>1
  <2>2. x \in 1..w /\ y \in 1..w
    BY <1>4
  <2>3. as[x] = m.adds[i].key /\ as[y] = m.adds[i].d_index
    BY <1>5
  <2> HIDE DEF x, y
  <2>4. Encode(m)[3 + x] = as[x] /\ Encode(m)[3 + y] = as[y]
    BY <1>8, <2>2
  <2> QED
    BY <2>1, <2>3, <2>4
<1>10. \A i \in 1..d : Encode(m)[3 + w + i] = m.dels[i].key
  BY <1>6, <1>8
<1> QED
  BY <1>8, <1>9, <1>10 DEF Size, a, d, w

\* What a cell may hold is a byte.
LEMMA CellByte ==
    ASSUME TypeOK, NEW i \in Nat \ {0}
    PROVE  Cell(i) \subseteq Byte
BY ByteAssumption DEF TypeOK, Cell

\* The ends of the messages, counted from what is left to receive.
LEMMA ShiftedIs ==
    ASSUME TypeOK
    PROVE  /\ Shifted \in Seq(Int) /\ Len(Shifted) = Len(wire)
           /\ \A i \in 1..Len(wire) : Shifted[i] = ends[i] - recv_size
<1>1. PICK l \in Nat : l = Len(ends)
  BY DEF TypeOK
<1>2. l = Len(wire) /\ recv_size \in Int /\ \A i \in 1..l : ends[i] \in Int
  BY <1>1, Elements, ByteAssumption DEF TypeOK
<1>3. Shifted = [i \in 1..l |-> ends[i] - recv_size]
  BY <1>1 DEF Shifted
<1>4. Shifted \in [1..l -> Int]
  BY <1>2, <1>3
<1>5. Shifted \in Seq(Int) /\ Len(Shifted) = l
  BY <1>4, FunctionSeq
<1> QED
  BY <1>2, <1>3, <1>5

\* A sequence without its first k elements.
LEMMA Dropped ==
    ASSUME NEW S, NEW s \in Seq(S), NEW l \in Nat, l = Len(s), NEW k \in 0..l
    PROVE  /\ SubSeq(s, k + 1, l) \in Seq(S)
           /\ Len(SubSeq(s, k + 1, l)) = l - k
           /\ \A i \in 1..(l - k) : SubSeq(s, k + 1, l)[i] = s[i + k]
<1>1. SubSeq(s, k + 1, l) \in Seq(S) /\ Len(SubSeq(s, k + 1, l)) = l - k
  OBVIOUS
<1>2. ASSUME NEW i \in 1..(l - k)
      PROVE  SubSeq(s, k + 1, l)[i] = s[i + k]
  <2>1. i \in 1..Len(SubSeq(s, k + 1, l)) /\ (k + 1) + i - 1 = i + k
    BY <1>1
  <2> QED
    BY <2>1
<1> QED
  BY <1>1, <1>2

\* The keys of a message.
LEMMA KeysAreBytes ==
    ASSUME NEW m \in Message
    PROVE  SC!Keys(m) \subseteq Byte
<1>1. /\ \A i \in 1..Len(m.adds) : m.adds[i].key \in Byte
      /\ \A i \in 1..Len(m.dels) : m.dels[i].key \in Byte
  BY MessageType DEF Adds, Dels
<1> QED
  BY <1>1 DEF SC!Keys

\* Every step keeps the types.
LEMMA TypeStep ==
    ASSUME TypeOK, Next
    PROVE  TypeOK'
<1> USE DEF buffer, history
<1>1. ASSUME NEW m \in Message, Send(m)
      PROVE  TypeOK'
  <2>1. Encode(m) \in Seq(Byte)
    BY EncodeShape
  <2>2. stream' \in Seq(Byte)
    BY <1>1, <2>1 DEF Send, TypeOK
  <2>3. wire' \in Seq(Message)
    BY <1>1 DEF Send, TypeOK
  <2>4. sent' \in 0..MaxSent
    BY <1>1, ByteAssumption DEF Send, TypeOK
  <2>5. recv_size \in Int /\ Len(stream') \in Int
    BY <2>2, ByteAssumption DEF TypeOK
  <2>6. PICK z \in Int : z = recv_size + Len(stream')
    BY <2>5
  <2>7. ends' = Append(ends, z) /\ wire' = Append(wire, m)
    BY <1>1, <2>6 DEF Send
  <2>8. ends' \in Seq(Int) /\ Len(ends') = Len(wire')
    BY <2>7 DEF TypeOK
  <2> QED
    BY <1>1, <2>2, <2>3, <2>4, <2>8 DEF Send, TypeOK
<1>f. ASSUME NEW n \in 1..RecvSize, Fill(n)
      PROVE  /\ recv_buffer' \in [1..RecvSize -> Byte \cup {NULL}]
             /\ stream' \in Seq(Byte) /\ recv_size' \in 0..RecvSize
             /\ now_bytes' = 0 /\ UNCHANGED <<add_left, del_left, table, sent, overran>>
  <2>1. Len(stream) \in Nat /\ n \in Nat /\ n <= Len(stream)
    BY <1>f, ByteAssumption DEF Fill, TypeOK
  <2>2. \A i \in 1..Len(stream) : stream[i] \in Byte
    BY Elements DEF TypeOK
  <2>3. recv_buffer' \in [1..RecvSize -> Byte \cup {NULL}]
    BY <1>f, <2>1, <2>2, ByteAssumption DEF Fill, TypeOK
  <2>4. stream' \in Seq(Byte)
    BY <1>f, <2>1 DEF Fill, TypeOK
  <2>5. recv_size' \in 0..RecvSize
    BY <1>f DEF Fill
  <2> QED
    BY <1>f, <2>3, <2>4, <2>5 DEF Fill
<1>2. ASSUME NEW n \in 1..RecvSize, Recv(n)
      PROVE  TypeOK'
  <2>1. Shifted \in Seq(Int) /\ Len(Shifted) = Len(wire)
    BY ShiftedIs
  <2>2. Fill(n) /\ ends' = Shifted /\ entry_index' = 0 /\ status' = "loop"
        /\ UNCHANGED <<failed, wire, torn>>
    BY <1>2 DEF Recv
  <2> QED
    BY <1>f, <2>1, <2>2 DEF TypeOK
<1>b. ASSUME NEW n \in 1..RecvSize, NEW j \in 0..Len(wire), BatchFails(n, j)
      PROVE  TypeOK'
  <2>1. /\ Shifted \in Seq(Int) /\ Len(Shifted) = Len(wire) /\ Len(ends) = Len(wire)
        /\ wire \in Seq(Message) /\ Len(wire) \in Nat
    BY ShiftedIs DEF TypeOK
  <2>2. /\ Fill(n) /\ entry_index' = 0 /\ status' = status
        /\ wire' = SubSeq(wire, j + 1, Len(wire))
        /\ ends' = SubSeq(Shifted, j + 1, Len(wire))
        /\ failed' = failed \cup UNION {SC!Keys(wire[i]) : i \in 1..j}
    BY <1>b, <2>1 DEF BatchFails
  <2>3. /\ wire' \in Seq(Message) /\ Len(wire') = Len(wire) - j
        /\ ends' \in Seq(Int) /\ Len(ends') = Len(wire) - j
    BY <2>1, <2>2, Dropped
  <2>4. failed' \subseteq Byte
    <3>1. \A i \in 1..j : wire[i] \in Message
      BY <2>1, Elements
    <3>2. \A i \in 1..j : SC!Keys(wire[i]) \subseteq Byte
      BY <3>1, KeysAreBytes
    <3> QED
      BY <2>2, <3>2 DEF TypeOK
  <2>5. torn' \in BOOLEAN
    BY <1>b DEF BatchFails
  <2>6. Len(ends') = Len(wire')
    BY <2>3
  <2>7. /\ recv_buffer' \in [1..RecvSize -> Byte \cup {NULL}]
        /\ stream' \in Seq(Byte) /\ recv_size' \in 0..RecvSize
        /\ now_bytes' = 0 /\ UNCHANGED <<add_left, del_left, table, sent, overran>>
    BY <1>f, <2>2
  <2>8. now_bytes' \in Nat /\ entry_index' \in Nat
    BY <2>2, <2>7
  <2>9. wire' \in Seq(Message) /\ ends' \in Seq(Int) /\ status' = status
    BY <2>2, <2>3
  <2> QED
    BY <2>4, <2>5, <2>6, <2>7, <2>8, <2>9 DEF TypeOK
<1>3. ASSUME Header
      PROVE  TypeOK'
  <2>1. Cell(now_bytes + 2) \subseteq Nat /\ Cell(now_bytes + 3) \subseteq Nat
    <3>1. now_bytes + 2 \in Nat \ {0} /\ now_bytes + 3 \in Nat \ {0}
      BY DEF TypeOK
    <3>2. Cell(now_bytes + 2) \subseteq Byte /\ Cell(now_bytes + 3) \subseteq Byte
      BY <3>1, CellByte
    <3> QED
      BY <3>2, ByteAssumption
  <2>2. /\ wire' \in Seq(Message) /\ ends' \in Seq(Int) /\ Len(ends') = Len(wire')
    <3>1. /\ wire' = SubSeq(wire, 2, Len(wire)) /\ ends' = SubSeq(ends, 2, Len(wire))
          /\ wire \in Seq(Message) /\ ends \in Seq(Int) /\ Len(ends) = Len(wire)
      BY <1>3 DEF Header, TypeOK
    <3>2. CASE Len(wire) = 0
      BY <3>1, <3>2
    <3>3. CASE Len(wire) # 0
      <4>1. 1 \in 0..Len(wire) /\ 1 + 1 = 2
        BY <3>1, <3>3
      <4> QED
        BY <3>1, <4>1, Dropped
    <3> QED
      BY <3>2, <3>3
  <2>3. add_left' \in Nat /\ del_left' \in Nat /\ torn' \in BOOLEAN
    BY <1>3, <2>1 DEF Header
  <2>4. overran' \in BOOLEAN /\ now_bytes' \in Nat
    BY <1>3 DEF Header, TypeOK
  <2> QED
    BY <1>3, <2>2, <2>3, <2>4 DEF Header, TypeOK
<1>4. ASSUME Break
      PROVE  TypeOK'
  BY <1>4 DEF Break, TypeOK
<1>5. ASSUME NEW k \in Byte, NEW d \in Byte
      PROVE  /\ [table EXCEPT ![k] = [d_index |-> d, n |-> 0]]
                   \in [Byte -> [d_index : Byte, n : {0}] \cup {NULL}]
             /\ [table EXCEPT ![k] = NULL] \in [Byte -> [d_index : Byte, n : {0}] \cup {NULL}]
  BY DEF TypeOK
<1>6. ASSUME NEW k \in Byte, NEW t \in [Byte -> [d_index : Byte, n : {0}] \cup {NULL}],
             Call(k, t), status = "loop"
      PROVE  /\ failed' \subseteq Byte
             /\ table' \in [Byte -> [d_index : Byte, n : {0}] \cup {NULL}]
             /\ status' \in {"wait", "loop", "crashed"}
             /\ entry_index' \in Nat
             /\ UNCHANGED <<stream, buffer, sent, history>>
  BY <1>6 DEF Call, TypeOK
<1>7. ASSUME AddEntry
      PROVE  TypeOK'
  <2>1. Cell(now_bytes + 1) \subseteq Byte /\ Cell(now_bytes + 2) \subseteq Byte
    <3>1. now_bytes + 1 \in Nat \ {0} /\ now_bytes + 2 \in Nat \ {0}
      BY DEF TypeOK
    <3> QED
      BY <3>1, CellByte
  <2>2. PICK k \in Byte, d \in Byte :
          Call(k, IF table[k] = NULL /\ Cardinality(Entries) < TableSize
               THEN [table EXCEPT ![k] = [d_index |-> d, n |-> 0]] ELSE table)
    BY <1>7, <2>1 DEF AddEntry
  <2> DEFINE t == IF table[k] = NULL /\ Cardinality(Entries) < TableSize
                  THEN [table EXCEPT ![k] = [d_index |-> d, n |-> 0]] ELSE table
  <2>3. t \in [Byte -> [d_index : Byte, n : {0}] \cup {NULL}]
    BY <1>5 DEF TypeOK
  <2>4. Call(k, t) /\ status = "loop"
    BY <1>7, <2>2 DEF AddEntry
  <2> HIDE DEF t
  <2>5. now_bytes' \in Nat /\ add_left' \in Nat /\ del_left' \in Nat
    BY <1>7 DEF AddEntry, TypeOK
  <2> QED
    BY <1>6, <2>3, <2>4, <2>5 DEF TypeOK
<1>8. ASSUME DelEntry
      PROVE  TypeOK'
  <2>1. Cell(now_bytes + 1) \subseteq Byte
    <3>1. now_bytes + 1 \in Nat \ {0}
      BY DEF TypeOK
    <3> QED
      BY <3>1, CellByte
  <2>2. PICK k \in Byte : Call(k, [table EXCEPT ![k] = NULL])
    BY <1>8, <2>1 DEF DelEntry
  <2> DEFINE t == [table EXCEPT ![k] = NULL]
  <2>3. t \in [Byte -> [d_index : Byte, n : {0}] \cup {NULL}]
    BY <1>5
  <2>4. Call(k, t) /\ status = "loop"
    BY <1>8, <2>2 DEF DelEntry
  <2> HIDE DEF t
  <2>5. now_bytes' \in Nat /\ add_left' \in Nat /\ del_left' \in Nat
    BY <1>8 DEF DelEntry, TypeOK
  <2> QED
    BY <1>6, <2>3, <2>4, <2>5 DEF TypeOK
<1> QED
  BY <1>1, <1>2, <1>b, <1>3, <1>4, <1>7, <1>8 DEF Next, Controller

\* In step, a driver call has a handle.
LEMMA CallInStep ==
    ASSUME TypeOK, Consumed, NEW k, NEW t, Call(k, t), InStep, status = "loop",
           add_left > 0 \/ del_left > 0
    PROVE  /\ entry_index + 3 <= now_bytes /\ entry_index < Handles
           /\ \/ table' = t /\ failed' = failed
              \/ table' = table /\ failed' = failed \cup {k}
           /\ status' = "loop"
           /\ recv_size' = recv_size /\ recv_buffer' = recv_buffer
           /\ entry_index' = entry_index + 1
<1>1. /\ now_bytes \in Nat /\ add_left \in Nat /\ del_left \in Nat /\ entry_index \in Nat
      /\ recv_size \in Nat /\ recv_size <= RecvSize
      /\ RecvSize \in Nat /\ Handles \in Nat /\ RecvSize <= Handles + 3
  BY ByteAssumption DEF TypeOK
<1>2. /\ now_bytes + 2 * add_left + del_left <= recv_size
      /\ entry_index + 3 <= now_bytes
  BY <1>1 DEF Consumed
<1>3. entry_index < Handles
  BY <1>1, <1>2
<1>4. ~(entry_index >= Handles)
  BY <1>1, <1>3
<1>5. /\ \/ table' = t /\ failed' = failed
         \/ table' = table /\ failed' = failed \cup {k}
      /\ status' = status
  BY <1>4, Zenon DEF Call
<1>6. /\ recv_size' = recv_size /\ recv_buffer' = recv_buffer
      /\ entry_index' = entry_index + 1
  BY DEF Call, buffer
<1> QED
  BY <1>2, <1>3, <1>5, <1>6

\* Every step keeps entry_index behind now_bytes, and now_bytes within
\* what recv returned, until the loop is out of step.
LEMMA ConsumedStep ==
    ASSUME TypeOK, Consumed, Next
    PROVE  Consumed'
<1> USE DEF buffer, history
<1> SUFFICES ASSUME InStep'
             PROVE  Consumed'
  BY DEF Consumed
<1>0. /\ now_bytes \in Nat /\ add_left \in Nat /\ del_left \in Nat /\ entry_index \in Nat
      /\ recv_size \in Nat /\ recv_size <= RecvSize
      /\ RecvSize \in Nat /\ Handles \in Nat /\ RecvSize <= Handles + 3
      /\ status \in {"wait", "loop", "crashed"}
  BY ByteAssumption DEF TypeOK
<1>1. ASSUME NEW m \in Message, Send(m)
      PROVE  Consumed'
  BY <1>1 DEF Send, Consumed, InStep
<1>2. ASSUME NEW n \in 1..RecvSize, Recv(n)
      PROVE  Consumed'
  <2>1. InStep
    BY <1>2 DEF Recv, Fill, InStep
  <2>2. add_left' = 0 /\ del_left' = 0 /\ now_bytes' = 0 /\ entry_index' = 0
        /\ status' = "loop" /\ recv_size' = n
    BY <1>2, <2>1 DEF Recv, Fill, Consumed
  <2> QED
    BY <1>0, <2>2 DEF Consumed
<1>b. ASSUME NEW n \in 1..RecvSize, NEW j \in 0..Len(wire), BatchFails(n, j)
      PROVE  Consumed'
  <2>1. InStep
    BY <1>b DEF BatchFails, Fill, InStep
  <2>2. add_left' = 0 /\ del_left' = 0 /\ entry_index' = 0 /\ status' = "wait"
    BY <1>b, <2>1 DEF BatchFails, Fill, Consumed
  <2> QED
    BY <1>0, <2>2 DEF Consumed
<1>3. ASSUME Header
      PROVE  Consumed'
  <2>1. InStep /\ status = "loop" /\ status' = "loop"
    BY <1>3 DEF Header, AtHeader, InStep
  <2>2. Cell(now_bytes + 2) \subseteq Nat /\ Cell(now_bytes + 3) \subseteq Nat
    <3>1. now_bytes + 2 \in Nat \ {0} /\ now_bytes + 3 \in Nat \ {0}
      BY DEF TypeOK
    <3>2. Cell(now_bytes + 2) \subseteq Byte /\ Cell(now_bytes + 3) \subseteq Byte
      BY <3>1, CellByte
    <3> QED
      BY <3>2, ByteAssumption
  <2>3. add_left' \in Nat /\ del_left' \in Nat
    BY <1>3, <2>2 DEF Header
  <2>t. torn' = (torn \/ recv_size < now_bytes + 3 + 2 * add_left' + del_left')
    BY <1>3 DEF Header
  <2>4. /\ now_bytes' = now_bytes + 3
        /\ entry_index' = entry_index /\ recv_size' = recv_size
    BY <1>3 DEF Header
  <2>5. ~(recv_size < now_bytes + 3 + 2 * add_left' + del_left')
    BY <2>t DEF InStep
  <2>6. now_bytes' + 2 * add_left' + del_left' <= recv_size'
    <3>1. \A r, b, x, y \in Nat : ~(r < b + 3 + 2 * x + y) => (b + 3) + 2 * x + y <= r
      OBVIOUS
    <3>2. (now_bytes + 3) + 2 * add_left' + del_left' <= recv_size
      BY <1>0, <2>3, <2>5, <3>1
    <3> QED
      BY <2>4, <3>2
  <2>7. entry_index' + 3 <= now_bytes'
    BY <1>0, <2>1, <2>4 DEF Consumed
  <2> QED
    BY <2>1, <2>6, <2>7 DEF Consumed
<1>4. ASSUME Break
      PROVE  Consumed'
  <2>1. /\ InStep /\ status = "loop" /\ status' = "wait"
        /\ add_left = 0 /\ del_left = 0 /\ add_left' = 0 /\ del_left' = 0
        /\ entry_index' = entry_index
    BY <1>4 DEF Break, AtHeader, InStep
  <2>2. entry_index <= Handles
    BY <1>0, <2>1 DEF Consumed
  <2> QED
    BY <2>1, <2>2 DEF Consumed
<1>5. ASSUME NEW k, NEW t, Call(k, t), InStep, status = "loop", add_left > 0 \/ del_left > 0
      PROVE  /\ entry_index + 3 <= now_bytes
             /\ status' = "loop" /\ recv_size' = recv_size
             /\ entry_index' = entry_index + 1
  BY <1>5, CallInStep
<1>6. ASSUME AddEntry
      PROVE  Consumed'
  <2>1. PICK k, t : Call(k, t)
    BY <1>6 DEF AddEntry
  <2>2. /\ status = "loop" /\ add_left > 0
        /\ now_bytes' = now_bytes + 2 /\ add_left' = add_left - 1 /\ del_left' = del_left
    BY <1>6 DEF AddEntry
  <2>3. InStep
    BY <2>1 DEF Call, InStep
  <2>4. /\ entry_index + 3 <= now_bytes
        /\ status' = "loop" /\ recv_size' = recv_size
        /\ entry_index' = entry_index + 1
    BY <1>5, <2>1, <2>2, <2>3
  <2>5. now_bytes + 2 * add_left + del_left <= recv_size
    BY <2>2, <2>3 DEF Consumed
  <2>6. /\ now_bytes' + 2 * add_left' + del_left' <= recv_size'
        /\ entry_index' + 3 <= now_bytes'
    BY <1>0, <2>2, <2>4, <2>5
  <2> QED
    BY <2>4, <2>6 DEF Consumed
<1>7. ASSUME DelEntry
      PROVE  Consumed'
  <2>1. PICK k, t : Call(k, t)
    BY <1>7 DEF DelEntry
  <2>2. /\ status = "loop" /\ del_left > 0
        /\ now_bytes' = now_bytes + 1 /\ del_left' = del_left - 1 /\ add_left' = add_left
    BY <1>7 DEF DelEntry
  <2>3. InStep
    BY <2>1 DEF Call, InStep
  <2>4. /\ entry_index + 3 <= now_bytes
        /\ status' = "loop" /\ recv_size' = recv_size
        /\ entry_index' = entry_index + 1
    BY <1>5, <2>1, <2>2, <2>3
  <2>5. now_bytes + 2 * add_left + del_left <= recv_size
    BY <2>2, <2>3 DEF Consumed
  <2>6. /\ now_bytes' + 2 * add_left' + del_left' <= recv_size'
        /\ entry_index' + 3 <= now_bytes'
    BY <1>0, <2>2, <2>4, <2>5
  <2> QED
    BY <2>4, <2>6 DEF Consumed
<1> QED
  BY <1>1, <1>2, <1>b, <1>3, <1>4, <1>6, <1>7 DEF Next, Controller

\* Every reachable state satisfies IInv.
LEMMA Invariance == Spec => []IInv
<1>1. Init => IInv
  <2> SUFFICES ASSUME Init PROVE IInv
    OBVIOUS
  <2>1. /\ recv_buffer \in [1..RecvSize -> Byte \cup {NULL}]
        /\ table \in [Byte -> [d_index : Byte, n : {0}] \cup {NULL}]
    BY DEF Init
  <2>2. stream \in Seq(Byte) /\ wire \in Seq(Message) /\ ends \in Seq(Int) /\ Len(ends) = Len(wire)
    BY DEF Init
  <2>3. recv_size \in 0..RecvSize /\ sent \in 0..MaxSent
    BY ByteAssumption DEF Init
  <2>4. TypeOK
    BY <2>1, <2>2, <2>3 DEF Init, TypeOK
  <2>5. Consumed
    BY ByteAssumption DEF Init, Consumed
  <2> QED
    BY <2>4, <2>5 DEF IInv
<1>2. IInv /\ [Next]_vars => IInv'
  <2>1. ASSUME IInv, Next PROVE IInv'
    BY <2>1, TypeStep, ConsumedStep DEF IInv
  <2>2. ASSUME IInv, UNCHANGED vars PROVE IInv'
    BY <2>2 DEF IInv, TypeOK, Consumed, InStep, vars, buffer, history
  <2> QED
    BY <2>1, <2>2
<1> QED
  BY <1>1, <1>2, PTL DEF Spec

-----------------------------------------------------------------------------
\* Every variable of the stream reader keeps its type, whatever recv returns
\* and whatever bytes the loop of run_controller takes for a message.
THEOREM TypeCorrect == Spec => []TypeOK
<1>1. IInv => TypeOK
  BY DEF IInv
<1> QED
  BY <1>1, Invariance, PTL

\* However many messages one recv returns, as long as recv cuts none and the
\* loop reads no leftover as a header, run_controller never uses a key handle
\* beyond key_hdl, and so does not fail in the driver.
THEOREM HandlesEnough == Spec => []HandlesSuffice
<1>1. IInv => HandlesSuffice
  BY ByteAssumption DEF IInv, TypeOK, Consumed, HandlesSuffice
<1> QED
  BY <1>1, Invariance, PTL

-----------------------------------------------------------------------------
(* The stream is aligned: behind what is left of the message being applied *)
(* lie exactly the messages on the wire.                                   *)

\* What has been received and sent, as one sequence of cells.
Total == recv_size + Len(stream)
CellAt(i) == IF i <= recv_size THEN recv_buffer[i] ELSE stream[i - recv_size]

Cells == [i \in 1..Total |-> CellAt(i)]

\* Where the first message on the wire begins, less one.
Pos == IF status = "loop" THEN now_bytes + 2 * add_left + del_left ELSE recv_size

\* The messages ms are laid out in the cells c, from x on up to t: p[j] is
\* where the j-th of them ends.
Laid(p, ms, c, x, t) ==
    /\ p \in [0..Len(ms) -> Nat]
    /\ p[0] = x /\ p[Len(ms)] = t
    /\ \A i, j \in 0..Len(ms) : i <= j => p[i] <= p[j]
    /\ \A j \in 1..Len(ms) : p[j] = p[j - 1] + Size(ms[j])
    /\ \A j \in 1..Len(ms) : \A i \in 1..Size(ms[j]) :
          c[p[j - 1] + i] = Encode(ms[j])[i]

\* They are, and e says where they end.
LaidTo(ms, e, c, x, t) ==
    \E p : Laid(p, ms, c, x, t) /\ \A j \in 1..Len(ms) : e[j] = p[j]

Filled == \A i \in 1..recv_size : recv_buffer[i] \in Byte

Aligned == InStep => Filled /\ LaidTo(wire, ends, Cells, Pos, Total)

\* The sizes of messages in a sequence.
LEMMA SizesNat ==
    ASSUME NEW ms \in Seq(Message)
    PROVE  /\ Len(ms) \in Nat
           /\ \A j \in 1..Len(ms) : ms[j] \in Message /\ Size(ms[j]) \in Nat
<1>1. Len(ms) \in Nat /\ \A j \in 1..Len(ms) : ms[j] \in Message
  BY Elements
<1> QED
  BY <1>1, MessageType

\* A message is sent: it lies behind the others.
LEMMA LaidAppend ==
    ASSUME NEW ms \in Seq(Message), NEW m \in Message, NEW t \in Nat, NEW x,
           NEW c, NEW d, NEW e, NEW f, LaidTo(ms, e, c, x, t),
           \A i \in 1..t : d[i] = c[i],
           \A i \in 1..Size(m) : d[t + i] = Encode(m)[i],
           \A j \in 1..Len(ms) : f[j] = e[j], f[Len(ms) + 1] = t + Size(m)
    PROVE  LaidTo(Append(ms, m), f, d, x, t + Size(m))
<1>1. /\ Len(ms) \in Nat /\ Size(m) \in Nat
      /\ \A j \in 1..Len(ms) : ms[j] \in Message /\ Size(ms[j]) \in Nat
  BY SizesNat, MessageType
<1>2. PICK n \in Nat : n = Len(ms)
  BY <1>1
<1>3. PICK z \in Nat : z = Size(m)
  BY <1>1
<1>4. PICK ns : ns = Append(ms, m)
  OBVIOUS
<1>5. Len(ns) = n + 1 /\ ns[n + 1] = m /\ \A j \in 1..n : ns[j] = ms[j]
  BY <1>2, <1>4
<1>p. PICK p : Laid(p, ms, c, x, t) /\ \A j \in 1..n : e[j] = p[j]
  BY <1>2 DEF LaidTo
<1>6. /\ p \in [0..n -> Nat] /\ p[0] = x /\ p[n] = t
      /\ \A i, j \in 0..n : i <= j => p[i] <= p[j]
      /\ \A j \in 1..n : p[j] = p[j - 1] + Size(ms[j])
      /\ \A j \in 1..n : \A i \in 1..Size(ms[j]) : c[p[j - 1] + i] = Encode(ms[j])[i]
  BY <1>2, <1>p DEF Laid
<1> DEFINE q == [j \in 0..(n + 1) |-> IF j <= n THEN p[j] ELSE t + z]
<1>7. /\ q \in [0..(n + 1) -> Nat] /\ q[n + 1] = t + z
      /\ \A j \in 0..n : q[j] = p[j]
  BY <1>6
<1> HIDE DEF q
<1>8. \A j \in 0..n : p[j] \in Nat /\ p[j] <= t
  BY <1>6
<1>9. ASSUME NEW i \in 0..(n + 1), NEW j \in 0..(n + 1), i <= j
      PROVE  q[i] <= q[j]
  <2>1. CASE j \in 0..n
    <3>1. i \in 0..n
      BY <1>9, <2>1
    <3> QED
      BY <1>6, <1>7, <1>9, <2>1, <3>1
  <2>2. CASE j = n + 1 /\ i \in 0..n
    <3>1. q[i] = p[i] /\ p[i] <= t /\ p[i] \in Nat /\ q[j] = t + z
      BY <1>7, <1>8, <2>2
    <3> QED
      BY <3>1
  <2>3. CASE i = n + 1 /\ j = n + 1
    BY <1>7, <2>3
  <2> QED
    BY <1>9, <2>1, <2>2, <2>3
<1>10. ASSUME NEW j \in 1..(n + 1)
       PROVE  /\ q[j] = q[j - 1] + Size(ns[j])
              /\ \A i \in 1..Size(ns[j]) : d[q[j - 1] + i] = Encode(ns[j])[i]
  <2>1. CASE j = n + 1
    <3>1. q[j - 1] = t /\ q[j] = t + z /\ ns[j] = m
      BY <1>5, <1>6, <1>7, <2>1
    <3> QED
      BY <1>3, <3>1
  <2>2. CASE j \in 1..n
    <3>1. j - 1 \in 0..n /\ j \in 0..n
      BY <2>2
    <3>2. q[j - 1] = p[j - 1] /\ q[j] = p[j] /\ ns[j] = ms[j]
      BY <1>5, <1>7, <2>2, <3>1
    <3>3. /\ p[j] = p[j - 1] + Size(ms[j]) /\ p[j] <= t
          /\ p[j - 1] \in Nat /\ Size(ms[j]) \in Nat
      BY <1>1, <1>2, <1>6, <1>8, <2>2, <3>1
    <3>4. ASSUME NEW i \in 1..Size(ms[j])
          PROVE  d[p[j - 1] + i] = Encode(ms[j])[i]
      <4>1. p[j - 1] + i \in 1..t
        BY <3>3
      <4>2. d[p[j - 1] + i] = c[p[j - 1] + i]
        BY <4>1
      <4>3. c[p[j - 1] + i] = Encode(ms[j])[i]
        BY <1>6, <2>2
      <4> QED
        BY <4>2, <4>3
    <3> QED
      BY <3>2, <3>3, <3>4
  <2> QED
    BY <2>1, <2>2
<1>11. q[0] = x
  BY <1>6, <1>7
<1>12. Laid(q, ns, d, x, t + z)
  BY <1>5, <1>7, <1>9, <1>10, <1>11 DEF Laid
<1>13. ASSUME NEW j \in 1..(n + 1)
       PROVE  f[j] = q[j]
  <2>1. CASE j = n + 1
    BY <1>2, <1>3, <1>7, <2>1
  <2>2. CASE j \in 1..n
    <3>1. f[j] = e[j] /\ e[j] = p[j] /\ q[j] = p[j]
      BY <1>2, <1>p, <1>7, <2>2
    <3> QED
      BY <3>1
  <2> QED
    BY <2>1, <2>2
<1>14. LaidTo(ns, f, d, x, t + z)
  BY <1>5, <1>12, <1>13 DEF LaidTo
<1> QED
  BY <1>3, <1>4, <1>14

\* What lies before the messages is dropped.
LEMMA LaidShift ==
    ASSUME NEW ms \in Seq(Message), NEW t \in Nat, NEW x \in Nat,
           NEW c, NEW d, NEW e, NEW f, LaidTo(ms, e, c, x, t),
           \A i \in 1..(t - x) : d[i] = c[x + i],
           \A j \in 1..Len(ms) : f[j] = e[j] - x
    PROVE  LaidTo(ms, f, d, 0, t - x)
<1>1. /\ Len(ms) \in Nat
      /\ \A j \in 1..Len(ms) : ms[j] \in Message /\ Size(ms[j]) \in Nat
  BY SizesNat
<1>2. PICK n \in Nat : n = Len(ms)
  BY <1>1
<1>p. PICK p : Laid(p, ms, c, x, t) /\ \A j \in 1..n : e[j] = p[j]
  BY <1>2 DEF LaidTo
<1>3. /\ p \in [0..n -> Nat] /\ p[0] = x /\ p[n] = t
      /\ \A i, j \in 0..n : i <= j => p[i] <= p[j]
      /\ \A j \in 1..n : p[j] = p[j - 1] + Size(ms[j])
      /\ \A j \in 1..n : \A i \in 1..Size(ms[j]) : c[p[j - 1] + i] = Encode(ms[j])[i]
  BY <1>2, <1>p DEF Laid
<1>4. \A j \in 0..n : p[j] \in Nat /\ x <= p[j] /\ p[j] <= t
  BY <1>3
<1> DEFINE q == [j \in 0..n |-> p[j] - x]
<1>5. q \in [0..n -> Nat] /\ \A j \in 0..n : q[j] = p[j] - x
  BY <1>4
<1> HIDE DEF q
<1>6. q[0] = 0 /\ q[n] = t - x
  BY <1>3, <1>5
<1>7. ASSUME NEW i \in 0..n, NEW j \in 0..n, i <= j
      PROVE  q[i] <= q[j]
  <2>1. p[i] <= p[j] /\ p[i] \in Nat /\ p[j] \in Nat
    BY <1>3, <1>4, <1>7
  <2> QED
    BY <1>5, <2>1
<1>8. ASSUME NEW j \in 1..n
      PROVE  /\ q[j] = q[j - 1] + Size(ms[j])
             /\ \A i \in 1..Size(ms[j]) : d[q[j - 1] + i] = Encode(ms[j])[i]
  <2>1. j - 1 \in 0..n /\ j \in 0..n
    OBVIOUS
  <2>2. /\ q[j] = p[j] - x /\ q[j - 1] = p[j - 1] - x
        /\ p[j] \in Nat /\ p[j - 1] \in Nat /\ p[j] <= t /\ x <= p[j - 1]
    BY <1>4, <1>5, <2>1
  <2>3. p[j] = p[j - 1] + Size(ms[j]) /\ Size(ms[j]) \in Nat
    BY <1>1, <1>2, <1>3
  <2>4. ASSUME NEW i \in 1..Size(ms[j])
        PROVE  d[q[j - 1] + i] = Encode(ms[j])[i]
    <3>b. q[j - 1] \in Nat
      BY <1>5, <2>1
    <3>c. q[j - 1] = p[j - 1] - x /\ p[j - 1] \in Nat /\ Size(ms[j]) \in Nat
      BY <2>2, <2>3
    <3>d. p[j - 1] + Size(ms[j]) <= t
      BY <2>2, <2>3
    <3>1. q[j - 1] + i \in 1..(t - x) /\ x + (q[j - 1] + i) = p[j - 1] + i
      <4>1. PICK u \in Nat, v \in Nat, z \in Nat :
               u = q[j - 1] /\ v = p[j - 1] /\ z = Size(ms[j])
        BY <3>b, <3>c
      <4>2. u = v - x /\ v + z <= t /\ i \in 1..z
        BY <3>c, <3>d, <4>1
      <4>3. u + i \in 1..(t - x) /\ x + (u + i) = v + i
        BY <4>2
      <4> QED
        BY <4>1, <4>3
    <3>2. d[q[j - 1] + i] = c[x + (q[j - 1] + i)]
      BY <3>1
    <3>3. c[p[j - 1] + i] = Encode(ms[j])[i]
      BY <1>3
    <3> QED
      BY <3>1, <3>2, <3>3
  <2>5. q[j] = q[j - 1] + Size(ms[j])
    BY <2>2, <2>3
  <2> QED
    BY <2>4, <2>5
<1>9. Laid(q, ms, d, 0, t - x)
  BY <1>2, <1>5, <1>6, <1>7, <1>8 DEF Laid
<1>10. \A j \in 1..n : f[j] = q[j]
  <2>1. \A j \in 1..n : j \in 0..n
    OBVIOUS
  <2> QED
    BY <1>2, <1>p, <1>5, <2>1
<1> QED
  BY <1>2, <1>9, <1>10 DEF LaidTo

\* Behind the first k messages lie the others.
LEMMA LaidDrop ==
    ASSUME NEW ms \in Seq(Message), NEW t \in Nat, NEW x \in Nat,
           NEW c, NEW e, NEW f, LaidTo(ms, e, c, x, t), NEW k \in 1..Len(ms),
           \A j \in 1..(Len(ms) - k) : f[j] = e[j + k]
    PROVE  LaidTo(SubSeq(ms, k + 1, Len(ms)), f, c, e[k], t)
<1>1. Len(ms) \in Nat
  BY SizesNat
<1>2. PICK n \in Nat : n = Len(ms)
  BY <1>1
<1>p. PICK p : Laid(p, ms, c, x, t) /\ \A j \in 1..n : e[j] = p[j]
  BY <1>2 DEF LaidTo
<1>3. /\ p \in [0..n -> Nat] /\ p[0] = x /\ p[n] = t
      /\ \A i, j \in 0..n : i <= j => p[i] <= p[j]
      /\ \A j \in 1..n : p[j] = p[j - 1] + Size(ms[j])
      /\ \A j \in 1..n : \A i \in 1..Size(ms[j]) : c[p[j - 1] + i] = Encode(ms[j])[i]
  BY <1>2, <1>p DEF Laid
<1>4. k \in 1..n /\ k \in 0..n
  BY <1>2
<1>8. PICK l \in Nat : l = n - k
  BY <1>4
<1>9. PICK ns : ns = SubSeq(ms, k + 1, n)
  OBVIOUS
<1>10. Len(ns) = l /\ \A j \in 1..l : ns[j] = ms[j + k]
  BY <1>2, <1>4, <1>8, <1>9, Dropped
<1> DEFINE q == [j \in 0..l |-> p[j + k]]
<1>11. \A j \in 0..l : j + k \in 0..n
  BY <1>4, <1>8
<1>12. q \in [0..l -> Nat] /\ \A j \in 0..l : q[j] = p[j + k]
  BY <1>3, <1>11
<1> HIDE DEF q
<1>13. q[0] = e[k] /\ q[l] = t
  <2>1. 0 \in 0..l /\ l \in 0..l /\ 0 + k = k /\ l + k = n
    BY <1>4, <1>8
  <2>2. e[k] = p[k]
    BY <1>p, <1>4
  <2> QED
    BY <1>3, <1>12, <2>1, <2>2
<1>14. ASSUME NEW i \in 0..l, NEW j \in 0..l, i <= j
       PROVE  q[i] <= q[j]
  <2>0. \A u, v, w \in Int : u <= v => u + w <= v + w
    OBVIOUS
  <2>1. i + k \in 0..n /\ j + k \in 0..n /\ i + k <= j + k
    <3>1. i \in Int /\ j \in Int /\ k \in Int
      BY <1>4
    <3> QED
      BY <1>11, <1>14, <2>0, <3>1
  <2>2. p[i + k] <= p[j + k]
    BY <1>3, <2>1
  <2> QED
    BY <1>12, <2>2
<1>15. ASSUME NEW j \in 1..l
       PROVE  /\ q[j] = q[j - 1] + Size(ns[j])
              /\ \A i \in 1..Size(ns[j]) : c[q[j - 1] + i] = Encode(ns[j])[i]
  <2>0. PICK y \in 1..n : y = j + k
    BY <1>4, <1>8
  <2>1. j \in 0..l /\ j - 1 \in 0..l /\ (j - 1) + k = y - 1
    BY <1>4, <1>8, <2>0
  <2>2. q[j] = p[y] /\ q[j - 1] = p[y - 1] /\ ns[j] = ms[y]
    BY <1>10, <1>12, <2>0, <2>1
  <2>3. /\ p[y] = p[y - 1] + Size(ms[y])
        /\ \A i \in 1..Size(ms[y]) : c[p[y - 1] + i] = Encode(ms[y])[i]
    BY <1>3, <2>0
  <2> QED
    BY <2>2, <2>3
<1>16. Laid(q, ns, c, e[k], t)
  BY <1>10, <1>12, <1>13, <1>14, <1>15 DEF Laid
<1>17. ASSUME NEW j \in 1..l
       PROVE  f[j] = q[j]
  <2>1. j + k \in 1..n /\ j \in 0..l /\ j \in 1..(n - k)
    BY <1>4, <1>8
  <2>2. f[j] = e[j + k] /\ e[j + k] = p[j + k] /\ q[j] = p[j + k]
    BY <1>2, <1>p, <1>12, <2>1
  <2> QED
    BY <2>2
<1>18. LaidTo(ns, f, c, e[k], t)
  BY <1>10, <1>16, <1>17 DEF LaidTo
<1> QED
  BY <1>2, <1>9, <1>18

\* If anything lies behind x, it begins with the first message.
LEMMA LaidFirst ==
    ASSUME NEW ms \in Seq(Message), NEW t \in Nat, NEW x \in Nat,
           NEW c, NEW e, LaidTo(ms, e, c, x, t), x < t
    PROVE  /\ ms # <<>> /\ 1 \in 1..Len(ms) /\ ms[1] \in Message
           /\ x + Size(ms[1]) <= t /\ e[1] = x + Size(ms[1])
           /\ \A i \in 1..Size(ms[1]) : c[x + i] = Encode(ms[1])[i]
<1>1. /\ Len(ms) \in Nat
      /\ \A j \in 1..Len(ms) : ms[j] \in Message /\ Size(ms[j]) \in Nat
  BY SizesNat
<1>2. PICK n \in Nat : n = Len(ms)
  BY <1>1
<1>p. PICK p : Laid(p, ms, c, x, t) /\ \A j \in 1..n : e[j] = p[j]
  BY <1>2 DEF LaidTo
<1>3. /\ p \in [0..n -> Nat] /\ p[0] = x /\ p[n] = t
      /\ \A i, j \in 0..n : i <= j => p[i] <= p[j]
      /\ \A j \in 1..n : p[j] = p[j - 1] + Size(ms[j])
      /\ \A j \in 1..n : \A i \in 1..Size(ms[j]) : c[p[j - 1] + i] = Encode(ms[j])[i]
  BY <1>2, <1>p DEF Laid
<1>4. n # 0
  BY <1>3
<1>5. 1 \in 1..n /\ ms # <<>> /\ ms[1] \in Message /\ Size(ms[1]) \in Nat
  BY <1>1, <1>2, <1>4
<1>6. p[1] = x + Size(ms[1]) /\ p[1] <= t
  <2>1. p[1] = p[1 - 1] + Size(ms[1]) /\ 1 - 1 = 0
    BY <1>3, <1>5
  <2>2. 1 \in 0..n /\ n \in 0..n /\ 1 <= n
    BY <1>4
  <2> QED
    BY <1>3, <2>1, <2>2
<1>7. \A i \in 1..Size(ms[1]) : c[x + i] = Encode(ms[1])[i]
  <2>1. \A i \in 1..Size(ms[1]) : c[p[1 - 1] + i] = Encode(ms[1])[i]
    BY <1>3, <1>5
  <2>2. p[1 - 1] = x
    BY <1>3
  <2> QED
    BY <2>1, <2>2
<1> QED
  BY <1>2, <1>p, <1>5, <1>6, <1>7

\* Positions in the cells.
LEMMA Positions ==
    ASSUME TypeOK
    PROVE  /\ recv_size \in Nat /\ recv_size <= RecvSize /\ RecvSize \in Nat
           /\ Len(stream) \in Nat /\ Total \in Nat /\ Pos \in Nat
           /\ now_bytes \in Nat /\ add_left \in Nat /\ del_left \in Nat
           /\ entry_index \in Nat
           /\ \A i \in 1..Total : Cells[i] = CellAt(i)
<1>1. /\ recv_size \in Nat /\ recv_size <= RecvSize /\ RecvSize \in Nat
      /\ now_bytes \in Nat /\ add_left \in Nat /\ del_left \in Nat /\ entry_index \in Nat
  BY ByteAssumption DEF TypeOK
<1>2. Len(stream) \in Nat
  BY DEF TypeOK
<1>3. Total \in Nat /\ Pos \in Nat
  BY <1>1, <1>2 DEF Total, Pos
<1> QED
  BY <1>1, <1>2, <1>3 DEF Cells

\* A received cell can only be read as what was received.
LEMMA CellFilled ==
    ASSUME TypeOK, Filled, NEW i \in 1..recv_size
    PROVE  /\ Cell(i) = {recv_buffer[i]} /\ recv_buffer[i] \in Byte
           /\ i \in 1..RecvSize /\ i \in 1..Total
           /\ At(i) = recv_buffer[i] /\ Cells[i] = recv_buffer[i]
<1>1. i \in 1..RecvSize /\ i \in 1..Total /\ i <= recv_size
  BY Positions DEF Total
<1>2. recv_buffer[i] \in Byte /\ recv_buffer[i] # NULL
  BY ByteAssumption DEF Filled
<1>3. i <= RecvSize
  BY <1>1
<1> QED
  BY <1>1, <1>2, <1>3, Positions DEF Cell, At, CellAt

\* In step, a header is the header of the first message on the wire, and the
\* message has been received whole.
LEMMA HeaderReads ==
    ASSUME TypeOK, Consumed, Aligned, Header, InStep'
    PROVE  /\ wire # <<>> /\ wire[1] \in Message
           /\ add_left' = Adds(wire[1]) /\ del_left' = Dels(wire[1])
           /\ now_bytes + Size(wire[1]) <= recv_size
           /\ \A i \in 1..Size(wire[1]) : recv_buffer[now_bytes + i] = Encode(wire[1])[i]
           /\ LaidTo(wire', ends', Cells, now_bytes + Size(wire[1]), Total)
<1>1. /\ InStep /\ status = "loop" /\ add_left = 0 /\ del_left = 0
      /\ now_bytes <= recv_size /\ now_bytes # recv_size
  BY DEF Header, AtHeader, InStep
<1>2. Filled /\ Pos = now_bytes
  BY <1>1, Positions DEF Aligned, Pos
<1>3. LaidTo(wire, ends, Cells, Pos, Total)
  BY <1>1 DEF Aligned
<1>4. Pos \in Nat /\ Total \in Nat /\ Pos < Total /\ now_bytes < recv_size
  BY <1>1, <1>2, Positions DEF Total
<1>5. wire \in Seq(Message)
  BY DEF TypeOK
<1>6. /\ wire # <<>> /\ 1 \in 1..Len(wire) /\ wire[1] \in Message
      /\ Pos + Size(wire[1]) <= Total /\ ends[1] = Pos + Size(wire[1])
      /\ \A i \in 1..Size(wire[1]) : Cells[Pos + i] = Encode(wire[1])[i]
  BY <1>3, <1>4, <1>5, LaidFirst
<1>l. LaidTo(wire', ends', Cells, Pos + Size(wire[1]), Total)
  <2>1. /\ wire' = SubSeq(wire, 1 + 1, Len(wire)) /\ ends' = SubSeq(ends, 1 + 1, Len(wire))
        /\ ends \in Seq(Int) /\ Len(wire) = Len(ends)
    BY DEF Header, TypeOK
  <2>2. PICK l \in Nat : l = Len(wire) /\ 1 \in 0..l
    BY <1>5, <1>6
  <2>3. \A i \in 1..(Len(wire) - 1) : ends'[i] = ends[i + 1]
    BY <2>1, <2>2, Dropped
  <2>4. LaidTo(SubSeq(wire, 1 + 1, Len(wire)), ends', Cells, ends[1], Total)
    BY <1>3, <1>4, <1>5, <1>6, <2>3, LaidDrop
  <2> QED
    BY <1>6, <2>1, <2>4
<1> DEFINE m == wire[1]
<1>7. /\ Adds(m) \in Nat /\ Dels(m) \in Nat /\ Size(m) = 3 + 2 * Adds(m) + Dels(m)
      /\ Encode(m)[2] = Adds(m) /\ Encode(m)[3] = Dels(m)
  BY <1>6, MessageType, EncodeShape DEF Size
<1>8. PICK a \in Cell(now_bytes + 2), d \in Cell(now_bytes + 3) :
        /\ add_left' = a /\ del_left' = d
        /\ torn' = (torn \/ recv_size < now_bytes + 3 + 2 * a + d)
  BY DEF Header
<1>9. a \in Nat /\ d \in Nat
  <2>1. Cell(now_bytes + 2) \subseteq Byte /\ Cell(now_bytes + 3) \subseteq Byte
    BY CellByte, Positions
  <2> QED
    BY <1>8, <2>1, ByteAssumption
<1>10. ~(recv_size < now_bytes + 3 + 2 * a + d)
  BY <1>8 DEF InStep
<1>11. now_bytes + 3 + 2 * a + d <= recv_size
  BY <1>9, <1>10, Positions
<1>12. now_bytes + 2 \in 1..recv_size /\ now_bytes + 3 \in 1..recv_size
  BY <1>9, <1>11, Positions
<1>13. a = Cells[now_bytes + 2] /\ d = Cells[now_bytes + 3]
  BY <1>2, <1>8, <1>12, CellFilled
<1>14. 2 \in 1..Size(m) /\ 3 \in 1..Size(m)
  BY <1>7
<1>15. a = Adds(m) /\ d = Dels(m)
  BY <1>2, <1>6, <1>7, <1>13, <1>14
<1>16. now_bytes + Size(m) <= recv_size
  BY <1>7, <1>11, <1>15, Positions
<1>17. ASSUME NEW i \in 1..Size(m)
       PROVE  recv_buffer[now_bytes + i] = Encode(m)[i]
  <2>1. now_bytes + i \in 1..recv_size
    <3>1. PICK z \in Nat : z = Size(m)
      BY <1>7
    <3>2. i \in 1..z /\ now_bytes + z <= recv_size
      BY <1>16, <3>1
    <3> QED
      BY <3>2, Positions
  <2> QED
    BY <1>2, <1>6, <2>1, CellFilled
<1> QED
  BY <1>2, <1>6, <1>l, <1>8, <1>15, <1>16, <1>17

\* In step, the loop ends exactly when all that was received is consumed.
LEMMA BreakAtEnd ==
    ASSUME TypeOK, Consumed, Aligned, Break, InStep
    PROVE  now_bytes = recv_size
<1>1. /\ status = "loop" /\ add_left = 0 /\ del_left = 0
      /\ now_bytes > recv_size \/ Cell(now_bytes + 1) # {OFFLOAD_ENTRIES}
  BY DEF Break, AtHeader
<1>2. Filled /\ Pos = now_bytes /\ now_bytes <= recv_size
  BY <1>1, Positions DEF Aligned, Pos, Consumed
<1> SUFFICES ASSUME now_bytes < recv_size PROVE FALSE
  BY <1>2, Positions
<1>3. LaidTo(wire, ends, Cells, Pos, Total)
  BY DEF Aligned
<1>4. Pos \in Nat /\ Total \in Nat /\ Pos < Total
  BY <1>2, Positions DEF Total
<1>5. wire \in Seq(Message)
  BY DEF TypeOK
<1>6. /\ wire[1] \in Message
      /\ \A i \in 1..Size(wire[1]) : Cells[Pos + i] = Encode(wire[1])[i]
  BY <1>3, <1>4, <1>5, LaidFirst
<1>7. 1 \in 1..Size(wire[1]) /\ Encode(wire[1])[1] = OFFLOAD_ENTRIES
  <2>1. Adds(wire[1]) \in Nat /\ Dels(wire[1]) \in Nat
    BY <1>6, MessageType
  <2> QED
    BY <1>6, <2>1, EncodeShape DEF Size
<1>8. Cells[now_bytes + 1] = OFFLOAD_ENTRIES
  BY <1>2, <1>6, <1>7
<1>9. now_bytes + 1 \in 1..recv_size
  BY Positions
<1>10. Cell(now_bytes + 1) = {OFFLOAD_ENTRIES}
  BY <1>2, <1>8, <1>9, CellFilled
<1> QED
  BY <1>1, <1>2, <1>10, Positions

\* Every step keeps the stream aligned.
LEMMA AlignedStep ==
    ASSUME TypeOK, TypeOK', Consumed, Aligned, Next
    PROVE  Aligned'
<1> USE DEF buffer, history
<1> SUFFICES ASSUME InStep'
             PROVE  Filled' /\ LaidTo(wire, ends, Cells, Pos, Total)'
  BY DEF Aligned
<1>0. wire \in Seq(Message) /\ stream \in Seq(Byte) /\ Pos \in Nat /\ Total \in Nat
      /\ recv_size \in Nat /\ Len(stream) \in Nat /\ Total = recv_size + Len(stream)
      /\ \A i \in 1..Total : Cells[i] = CellAt(i)
  BY Positions DEF TypeOK, Total
<1>p. /\ Total' \in Nat /\ Total' = recv_size' + Len(stream')
      /\ \A i \in 1..Total' : Cells'[i] = CellAt(i)'
  <2>1. Total' = recv_size' + Len(stream') /\ recv_size' \in Nat /\ Len(stream') \in Nat
    BY DEF TypeOK, Total
  <2>2. Total' \in Nat
    BY <2>1
  <2> QED
    BY <2>1, <2>2 DEF Cells
<1>1. ASSUME NEW m \in Message, Send(m)
      PROVE  Filled' /\ LaidTo(wire, ends, Cells, Pos, Total)'
  <2>1. InStep /\ Filled /\ UNCHANGED <<recv_buffer, recv_size>> /\ Pos' = Pos
    BY <1>1 DEF Send, InStep, Aligned, Pos
  <2>2. LaidTo(wire, ends, Cells, Pos, Total)
    BY <2>1 DEF Aligned
  <2>3. /\ Encode(m) \in Seq(Byte) /\ Len(Encode(m)) = Size(m) /\ Size(m) \in Nat
    BY EncodeShape, MessageType
  <2>4. wire' = Append(wire, m) /\ stream' = Cat(stream, Encode(m))
    BY <1>1 DEF Send, Cat
  <2>5. /\ Len(stream') = Len(stream) + Size(m)
        /\ \A i \in 1..Len(stream) : stream'[i] = stream[i]
        /\ \A i \in 1..Size(m) : stream'[Len(stream) + i] = Encode(m)[i]
    <3>1. PICK l \in Nat, z \in Nat, s \in Seq(Byte), e \in Seq(Byte) :
             l = Len(stream) /\ z = Size(m) /\ s = stream /\ e = Encode(m)
      BY <1>0, <2>3
    <3>2. Len(s) = l /\ Len(e) = z
      BY <2>3, <3>1
    <3>3. /\ Len(Cat(s, e)) = l + z
          /\ \A i \in 1..l : Cat(s, e)[i] = s[i]
          /\ \A i \in 1..z : Cat(s, e)[l + i] = e[i]
      BY <3>2, Joined
    <3>4. stream' = Cat(s, e)
      BY <2>4, <3>1
    <3> QED
      BY <3>1, <3>3, <3>4
  <2>6. Total' = Total + Size(m)
    BY <1>0, <1>p, <2>1, <2>3, <2>5
  <2>7. ASSUME NEW i \in 1..Total
        PROVE  Cells'[i] = Cells[i]
    <3>1. i \in 1..Total'
      BY <1>0, <2>3, <2>6
    <3>2. Cells'[i] = CellAt(i)' /\ Cells[i] = CellAt(i)
      BY <1>0, <1>p, <3>1
    <3>3. i <= recv_size \/ i - recv_size \in 1..Len(stream)
      BY <1>0
    <3> QED
      BY <2>1, <2>5, <3>2, <3>3 DEF CellAt
  <2>8. ASSUME NEW i \in 1..Size(m)
        PROVE  Cells'[Total + i] = Encode(m)[i]
    <3>1. PICK z \in Nat, u \in Nat, l \in Nat : z = Size(m) /\ u = Total + i /\ l = Len(stream)
      BY <1>0, <2>3
    <3>2. Total' = Total + z /\ i \in 1..z
      BY <2>6, <3>1
    <3>3. u \in 1..Total' /\ ~(u <= recv_size) /\ u - recv_size = l + i
      BY <1>0, <3>1, <3>2
    <3>4. Cells'[u] = CellAt(u)'
      BY <1>p, <3>3
    <3>5. CellAt(u)' = stream'[u - recv_size]
      BY <2>1, <3>3 DEF CellAt
    <3>6. stream'[l + i] = Encode(m)[i]
      BY <2>5, <3>1
    <3>7. Cells'[u] = Encode(m)[i]
      BY <3>3, <3>4, <3>5, <3>6
    <3> QED
      BY <3>1, <3>7
  <2>e. /\ \A j \in 1..Len(wire) : ends'[j] = ends[j]
        /\ ends'[Len(wire) + 1] = Total + Size(m)
    <3>1. PICK z \in Int : z = recv_size + Len(stream')
      BY <1>0, <2>3, <2>5
    <3>2. ends' = Append(ends, z) /\ ends \in Seq(Int) /\ Len(ends) = Len(wire)
      BY <1>1, <3>1 DEF Send, TypeOK
    <3>3. z = Total + Size(m)
      BY <1>p, <2>1, <2>6, <3>1
    <3> QED
      BY <3>2, <3>3
  <2>9. LaidTo(Append(wire, m), ends', Cells', Pos, Total + Size(m))
    BY <1>0, <2>2, <2>7, <2>8, <2>e, LaidAppend
  <2>10. Filled'
    BY <2>1 DEF Filled
  <2>11. LaidTo(wire', ends', Cells', Pos', Total')
    BY <2>1, <2>4, <2>6, <2>9
  <2> QED
    BY <2>10, <2>11 DEF LaidTo, Laid
<1>f. ASSUME NEW n \in 1..RecvSize, Fill(n), InStep
      PROVE  Filled' /\ LaidTo(wire, Shifted, Cells', 0, Total')
  <2>1. /\ status = "wait" /\ n \in Nat /\ n <= Len(stream) /\ recv_size' = n
        /\ recv_buffer' = [i \in 1..RecvSize |->
                              IF i <= n THEN stream[i] ELSE recv_buffer[i]]
        /\ stream' = SubSeq(stream, n + 1, Len(stream))
    BY <1>f, ByteAssumption DEF Fill
  <2>2. Pos = recv_size
    BY <2>1 DEF Pos
  <2>3. LaidTo(wire, ends, Cells, Pos, Total)
    BY <1>f DEF Aligned
  <2>4. /\ Len(stream') = Len(stream) - n
        /\ \A i \in 1..(Len(stream) - n) : stream'[i] = stream[n + i]
    BY <1>0, <2>1
  <2>5. Total' = Total - Pos /\ Total - Pos = Len(stream)
    BY <1>0, <1>p, <2>1, <2>2, <2>4
  <2>6. \A i \in 1..n : recv_buffer'[i] = stream[i] /\ stream[i] \in Byte
    <3>1. \A i \in 1..n : i \in 1..RecvSize /\ i <= n /\ i \in 1..Len(stream)
      BY <1>0, <2>1, ByteAssumption
    <3> QED
      BY <1>0, <2>1, <3>1, Elements
  <2>7. Filled'
    BY <2>1, <2>6 DEF Filled
  <2>8. ASSUME NEW i \in 1..(Total - Pos)
        PROVE  Cells'[i] = Cells[Pos + i]
    <3>1. /\ i \in 1..Total' /\ Pos + i \in 1..Total /\ ~(Pos + i <= recv_size)
          /\ (Pos + i) - recv_size = i
      BY <1>0, <2>2, <2>5
    <3>2. Cells[Pos + i] = stream[i]
      BY <1>0, <3>1 DEF CellAt
    <3>3. Cells'[i] = CellAt(i)'
      BY <1>p, <3>1
    <3>4. CASE i <= n
      <4>1. CellAt(i)' = recv_buffer'[i] /\ i \in 1..n
        BY <2>1, <3>4 DEF CellAt
      <4> QED
        BY <2>6, <3>2, <3>3, <4>1
    <3>5. CASE ~(i <= n)
      <4>1. CellAt(i)' = stream'[i - n]
        BY <2>1, <3>5 DEF CellAt
      <4>2. i - n \in 1..(Len(stream) - n) /\ n + (i - n) = i
        BY <1>0, <2>1, <2>5, <3>5
      <4>3. stream'[i - n] = stream[n + (i - n)]
        BY <2>4, <4>2
      <4> QED
        BY <3>2, <3>3, <4>1, <4>2, <4>3
    <3> QED
      BY <3>4, <3>5
  <2>9. LaidTo(wire, Shifted, Cells', 0, Total - Pos)
    <3>1. \A j \in 1..Len(wire) : Shifted[j] = ends[j] - Pos
      BY <2>2, ShiftedIs
    <3> QED
      BY <1>0, <2>3, <2>8, <3>1, LaidShift
  <2> QED
    BY <2>5, <2>7, <2>9
<1>2. ASSUME NEW n \in 1..RecvSize, Recv(n)
      PROVE  Filled' /\ LaidTo(wire, ends, Cells, Pos, Total)'
  <2>1. /\ InStep /\ Fill(n) /\ status = "wait" /\ status' = "loop"
        /\ wire' = wire /\ ends' = Shifted
        /\ now_bytes' = 0 /\ add_left' = add_left /\ del_left' = del_left
    BY <1>2 DEF Recv, Fill, InStep
  <2>2. Pos' = 0
    BY <2>1 DEF Pos, Consumed
  <2>3. Filled' /\ LaidTo(wire, Shifted, Cells', 0, Total')
    BY <1>f, <2>1
  <2>4. LaidTo(wire', ends', Cells', Pos', Total')
    BY <2>1, <2>2, <2>3
  <2> QED
    BY <2>3, <2>4 DEF LaidTo, Laid
<1>b. ASSUME NEW n \in 1..RecvSize, NEW j \in 0..Len(wire), BatchFails(n, j)
      PROVE  Filled' /\ LaidTo(wire, ends, Cells, Pos, Total)'
  <2>1. /\ Fill(n) /\ status' = "wait" /\ recv_size' = n
        /\ wire' = SubSeq(wire, j + 1, Len(wire))
        /\ ends' = SubSeq(Shifted, j + 1, Len(wire))
    BY <1>b DEF BatchFails, Fill, TypeOK
  <2>2. InStep /\ j # 0 /\ Shifted[j] = n
    BY <1>b DEF BatchFails, Fill, InStep
  <2>3. Filled' /\ LaidTo(wire, Shifted, Cells', 0, Total')
    BY <1>f, <2>1, <2>2
  <2>4. Pos' = n
    BY <2>1 DEF Pos
  <2>5. Shifted \in Seq(Int) /\ Len(Shifted) = Len(wire)
    BY ShiftedIs
  <2>6. PICK l \in Nat : l = Len(wire) /\ l = Len(Shifted) /\ j \in 0..l /\ j \in 1..l
    BY <1>0, <2>2, <2>5
  <2>7. \A i \in 1..(Len(wire) - j) : ends'[i] = Shifted[i + j]
    <3>1. PICK sh \in Seq(Int) : sh = Shifted
      BY <2>5
    <3>2. l = Len(sh) /\ ends' = SubSeq(sh, j + 1, l)
      BY <2>1, <2>6, <3>1
    <3>3. \A i \in 1..(l - j) : SubSeq(sh, j + 1, l)[i] = sh[i + j]
      BY <2>6, <3>2, Dropped
    <3> QED
      BY <2>6, <3>1, <3>2, <3>3
  <2>8. LaidTo(SubSeq(wire, j + 1, Len(wire)), ends', Cells', Shifted[j], Total')
    <3>0. PICK t \in Nat : t = Total'
      BY <1>p
    <3>1. PICK cs, f : cs = Cells' /\ f = ends'
      OBVIOUS
    <3>2. LaidTo(wire, Shifted, cs, 0, t) /\ \A i \in 1..(Len(wire) - j) : f[i] = Shifted[i + j]
      BY <2>3, <2>7, <3>0, <3>1
    <3>3. LaidTo(SubSeq(wire, j + 1, Len(wire)), f, cs, Shifted[j], t)
      BY <1>0, <2>6, <3>2, LaidDrop
    <3> QED
      BY <3>0, <3>1, <3>3
  <2>9. LaidTo(wire', ends', Cells', Pos', Total')
    BY <2>1, <2>2, <2>4, <2>8
  <2> QED
    BY <2>3, <2>9 DEF LaidTo, Laid
<1>3. ASSUME UNCHANGED <<stream, recv_buffer, recv_size, wire, ends>>, InStep, Pos' = Pos
      PROVE  Filled' /\ LaidTo(wire, ends, Cells, Pos, Total)'
  <2>1. Filled /\ LaidTo(wire, ends, Cells, Pos, Total)
    BY <1>3 DEF Aligned
  <2>2. Cells' = Cells /\ Total' = Total
    BY <1>3 DEF Cells, CellAt, Total
  <2>3. LaidTo(wire', ends', Cells', Pos', Total')
    BY <1>3, <2>1, <2>2
  <2>4. Filled'
    BY <1>3, <2>1 DEF Filled
  <2> QED
    BY <2>3, <2>4 DEF LaidTo, Laid
<1>4. ASSUME Header
      PROVE  Filled' /\ LaidTo(wire, ends, Cells, Pos, Total)'
  <2>1. /\ InStep /\ UNCHANGED <<stream, recv_buffer, recv_size>> /\ status' = "loop"
        /\ now_bytes' = now_bytes + 3
    BY <1>4 DEF Header, AtHeader, InStep
  <2>2. /\ wire # <<>> /\ wire[1] \in Message
        /\ add_left' = Adds(wire[1]) /\ del_left' = Dels(wire[1])
        /\ LaidTo(wire', ends', Cells, now_bytes + Size(wire[1]), Total)
    BY <1>4, HeaderReads
  <2>3. Cells' = Cells /\ Total' = Total /\ Filled'
    BY <2>1 DEF Cells, CellAt, Total, Filled, Aligned
  <2>5. Pos' = now_bytes + Size(wire[1])
    <3>1. Adds(wire[1]) \in Nat /\ Dels(wire[1]) \in Nat /\ now_bytes \in Nat
      BY <2>2, MessageType, Positions
    <3>2. Pos' = (now_bytes + 3) + 2 * Adds(wire[1]) + Dels(wire[1])
      BY <2>1, <2>2 DEF Pos
    <3>3. PICK a \in Nat, d \in Nat : a = Adds(wire[1]) /\ d = Dels(wire[1])
      BY <3>1
    <3>4. (now_bytes + 3) + 2 * a + d = now_bytes + (3 + 2 * a + d)
      BY <3>1
    <3> QED
      BY <3>2, <3>3, <3>4 DEF Size
  <2>6. LaidTo(wire', ends', Cells', Pos', Total')
    BY <2>2, <2>3, <2>5
  <2> QED
    BY <2>3, <2>6 DEF LaidTo, Laid
<1>5. ASSUME Break
      PROVE  Filled' /\ LaidTo(wire, ends, Cells, Pos, Total)'
  <2>1. /\ InStep /\ UNCHANGED <<stream, recv_buffer, recv_size, wire, ends>>
        /\ status = "loop" /\ status' = "wait" /\ add_left = 0 /\ del_left = 0
    BY <1>5 DEF Break, AtHeader, InStep
  <2>2. now_bytes = recv_size
    BY <1>5, <2>1, BreakAtEnd
  <2>3. Pos' = Pos
    BY <2>1, <2>2, Positions DEF Pos
  <2> QED
    BY <1>3, <2>1, <2>3
<1>6. ASSUME AddEntry
      PROVE  Filled' /\ LaidTo(wire, ends, Cells, Pos, Total)'
  <2>1. PICK k, t : Call(k, t)
    BY <1>6 DEF AddEntry
  <2>2. InStep /\ UNCHANGED <<stream, recv_buffer, recv_size, wire, ends>>
    BY <2>1 DEF Call, InStep
  <2>3. /\ status = "loop" /\ add_left > 0 /\ now_bytes' = now_bytes + 2
        /\ add_left' = add_left - 1 /\ del_left' = del_left
    BY <1>6 DEF AddEntry
  <2>4. status' = "loop"
    BY <2>1, <2>2, <2>3, CallInStep
  <2>5. Pos' = Pos
    BY <2>3, <2>4, Positions DEF Pos
  <2> QED
    BY <1>3, <2>2, <2>5
<1>7. ASSUME DelEntry
      PROVE  Filled' /\ LaidTo(wire, ends, Cells, Pos, Total)'
  <2>1. PICK k, t : Call(k, t)
    BY <1>7 DEF DelEntry
  <2>2. InStep /\ UNCHANGED <<stream, recv_buffer, recv_size, wire, ends>>
    BY <2>1 DEF Call, InStep
  <2>3. /\ status = "loop" /\ del_left > 0 /\ now_bytes' = now_bytes + 1
        /\ del_left' = del_left - 1 /\ add_left' = add_left
    BY <1>7 DEF DelEntry
  <2>4. status' = "loop"
    BY <2>1, <2>2, <2>3, CallInStep
  <2>5. Pos' = Pos
    BY <2>3, <2>4, Positions DEF Pos
  <2> QED
    BY <1>3, <2>2, <2>5
<1> QED
  BY <1>1, <1>2, <1>b, <1>4, <1>5, <1>6, <1>7 DEF Next, Controller

-----------------------------------------------------------------------------
(* Decoding: Rest as an operator of the buffer and of the loop's counters. *)

AtOf(b, i) == IF i \in 1..RecvSize THEN b[i] ELSE NULL
AddOf(b, x, i) == [key |-> AtOf(b, x + 2 * i - 1), d_index |-> AtOf(b, x + 2 * i), n |-> 0]
DelOf(b, x, a, i) == [key |-> AtOf(b, x + 2 * a + i), n |-> 0]
AddsOf(b, x, a) == [i \in 1..a |-> AddOf(b, x, i)]
DelsOf(b, x, a, d) == [i \in 1..d |-> DelOf(b, x, a, i)]
RestOf(b, x, a, d) == [adds |-> AddsOf(b, x, a), dels |-> DelsOf(b, x, a, d)]

Buffer == [1..RecvSize -> Byte \cup {NULL}]
AddT == [key : Byte \cup {NULL}, d_index : Byte \cup {NULL}, n : {0}]
DelT == [key : Byte \cup {NULL}, n : {0}]

LEMMA RestIs ==
    /\ Rest = RestOf(recv_buffer, now_bytes, add_left, del_left)
    /\ Rest' = RestOf(recv_buffer', now_bytes', add_left', del_left')
BY DEF Rest, RestOf, AddsOf, DelsOf, AddOf, DelOf, At, AtOf

\* Nothing is left.
LEMMA RestNone ==
    ASSUME NEW b, NEW x
    PROVE  RestOf(b, x, 0, 0) = [adds |-> <<>>, dels |-> <<>>]
<1>1. AddsOf(b, x, 0) = <<>>
  BY DEF AddsOf
<1>2. DelsOf(b, x, 0, 0) = <<>>
  BY DEF DelsOf
<1> QED
  BY <1>1, <1>2 DEF RestOf

\* Head and tail of a sequence given as functions.
LEMMA TailIs ==
    ASSUME NEW S, NEW k \in Nat, NEW f \in [1..(k + 1) -> S], NEW g \in [1..k -> S],
           \A i \in 1..k : g[i] = f[i + 1]
    PROVE  f # <<>> /\ Head(f) = f[1] /\ Tail(f) = g
<1>1. f \in Seq(S) /\ Len(f) = k + 1 /\ g \in Seq(S) /\ Len(g) = k
  BY FunctionSeq
<1>2. f # <<>> /\ Head(f) = f[1]
  BY <1>1
<1>3. Tail(f) \in Seq(S) /\ Len(Tail(f)) = k /\ \A i \in 1..k : Tail(f)[i] = f[i + 1]
  BY <1>1
<1> QED
  BY <1>1, <1>2, <1>3

\* The types of what is left.
LEMMA RestTypes ==
    ASSUME NEW b \in Buffer, NEW x \in Nat, NEW a \in Nat, NEW d \in Nat
    PROVE  AddsOf(b, x, a) \in [1..a -> AddT] /\ DelsOf(b, x, a, d) \in [1..d -> DelT]
<1>1. \A i : AtOf(b, i) \in Byte \cup {NULL}
  BY DEF AtOf, Buffer
<1> QED
  BY <1>1 DEF AddsOf, DelsOf, AddOf, DelOf, AddT, DelT

\* The first add of r is the one at x, and r2 is r without it.
AddTaken(r, r2, b, x) ==
    /\ r.adds # <<>>
    /\ Head(r.adds) = [key |-> AtOf(b, x + 1), d_index |-> AtOf(b, x + 2), n |-> 0]
    /\ r2 = [r EXCEPT !.adds = Tail(@)]

\* One add is consumed.
LEMMA RestAfterAdd ==
    ASSUME NEW b \in Buffer, NEW x \in Nat, NEW a \in Nat, a > 0, NEW d \in Nat
    PROVE  AddTaken(RestOf(b, x, a, d), RestOf(b, x + 2, a - 1, d), b, x)
<1>1. PICK k \in Nat : a = k + 1
  <2>1. a - 1 \in Nat /\ a = (a - 1) + 1
    OBVIOUS
  <2> QED
    BY <2>1
<1> DEFINE f == AddsOf(b, x, a)
           g == AddsOf(b, x + 2, k)
<1>2. f \in [1..(k + 1) -> AddT] /\ g \in [1..k -> AddT]
  <2>1. x + 2 \in Nat
    OBVIOUS
  <2>2. f \in [1..a -> AddT] /\ g \in [1..k -> AddT]
    BY <2>1, RestTypes
  <2> QED
    BY <1>1, <2>2
<1>3. ASSUME NEW i \in 1..k
      PROVE  g[i] = f[i + 1]
  <2>1. i + 1 \in 1..a
    BY <1>1
  <2>2. (x + 2) + 2 * i - 1 = x + 2 * (i + 1) - 1 /\ (x + 2) + 2 * i = x + 2 * (i + 1)
    OBVIOUS
  <2>3. g[i] = AddOf(b, x + 2, i) /\ f[i + 1] = AddOf(b, x, i + 1)
    BY <2>1 DEF AddsOf
  <2> QED
    BY <2>2, <2>3 DEF AddOf
<1>4. f[1] = [key |-> AtOf(b, x + 1), d_index |-> AtOf(b, x + 2), n |-> 0]
  <2>1. 1 \in 1..a /\ x + 2 * 1 - 1 = x + 1 /\ x + 2 * 1 = x + 2
    BY <1>1
  <2> QED
    BY <2>1 DEF AddsOf, AddOf
<1>5. DelsOf(b, x + 2, k, d) = DelsOf(b, x, a, d)
  <2>1. \A i \in 1..d : (x + 2) + 2 * k + i = x + 2 * a + i
    BY <1>1
  <2> QED
    BY <2>1 DEF DelsOf, DelOf
<1> HIDE DEF f, g
<1>6. f # <<>> /\ Head(f) = f[1] /\ Tail(f) = g
  BY <1>2, <1>3, TailIs
<1>7. RestOf(b, x, a, d) = [adds |-> f, dels |-> DelsOf(b, x, a, d)]
  BY DEF RestOf, f
<1>8. RestOf(b, x + 2, a - 1, d) = [adds |-> g, dels |-> DelsOf(b, x, a, d)]
  <2>1. a - 1 = k
    BY <1>1
  <2> QED
    BY <1>5, <2>1 DEF RestOf, g
<1> DEFINE D == DelsOf(b, x, a, d)
<1> HIDE DEF D
<1>9. /\ RestOf(b, x, a, d) = [adds |-> f, dels |-> D]
      /\ RestOf(b, x + 2, a - 1, d) = [adds |-> g, dels |-> D]
  BY <1>7, <1>8 DEF D
<1>10. [[adds |-> f, dels |-> D] EXCEPT !.adds = Tail(@)] = [adds |-> g, dels |-> D]
  <2>1. [adds |-> f, dels |-> D].adds = f
    OBVIOUS
  <2>2. Tail([adds |-> f, dels |-> D].adds) = g
    BY <1>6, <2>1
  <2>3. [[adds |-> f, dels |-> D] EXCEPT !.adds = g] = [adds |-> g, dels |-> D]
    OBVIOUS
  <2> QED
    BY <2>2, <2>3, Zenon
<1>11. RestOf(b, x + 2, a - 1, d) = [RestOf(b, x, a, d) EXCEPT !.adds = Tail(@)]
  BY <1>9, <1>10
<1>12. RestOf(b, x, a, d).adds = f
  BY <1>9
<1> QED
  BY <1>4, <1>6, <1>11, <1>12 DEF AddTaken

\* One del is consumed.
LEMMA RestAfterDel ==
    ASSUME NEW b \in Buffer, NEW x \in Nat, NEW d \in Nat, d > 0
    PROVE  LET r == RestOf(b, x, 0, d) IN
           /\ r.adds = <<>> /\ r.dels # <<>>
           /\ Head(r.dels) = [key |-> AtOf(b, x + 1), n |-> 0]
           /\ RestOf(b, x + 1, 0, d - 1) = [r EXCEPT !.dels = Tail(@)]
<1>1. PICK k \in Nat : d = k + 1
  <2>1. d - 1 \in Nat /\ d = (d - 1) + 1
    OBVIOUS
  <2> QED
    BY <2>1
<1> DEFINE f == DelsOf(b, x, 0, d)
           g == DelsOf(b, x + 1, 0, k)
<1>2. f \in [1..(k + 1) -> DelT] /\ g \in [1..k -> DelT]
  <2>1. x + 1 \in Nat /\ 0 \in Nat
    OBVIOUS
  <2>2. f \in [1..d -> DelT] /\ g \in [1..k -> DelT]
    BY <2>1, RestTypes
  <2> QED
    BY <1>1, <2>2
<1>3. ASSUME NEW i \in 1..k
      PROVE  g[i] = f[i + 1]
  <2>1. i + 1 \in 1..d
    BY <1>1
  <2>2. (x + 1) + 2 * 0 + i = x + 2 * 0 + (i + 1)
    OBVIOUS
  <2>3. g[i] = DelOf(b, x + 1, 0, i) /\ f[i + 1] = DelOf(b, x, 0, i + 1)
    BY <2>1 DEF DelsOf
  <2> QED
    BY <2>2, <2>3 DEF DelOf
<1>4. f[1] = [key |-> AtOf(b, x + 1), n |-> 0]
  <2>1. 1 \in 1..d /\ x + 2 * 0 + 1 = x + 1
    BY <1>1
  <2> QED
    BY <2>1 DEF DelsOf, DelOf
<1>5. AddsOf(b, x, 0) = <<>> /\ AddsOf(b, x + 1, 0) = <<>>
  BY DEF AddsOf
<1> HIDE DEF f, g
<1>6. f # <<>> /\ Head(f) = f[1] /\ Tail(f) = g
  BY <1>2, <1>3, TailIs
<1>7. RestOf(b, x, 0, d) = [adds |-> <<>>, dels |-> f]
  BY <1>5 DEF RestOf, f
<1>8. RestOf(b, x + 1, 0, d - 1) = [adds |-> <<>>, dels |-> g]
  <2>1. d - 1 = k
    BY <1>1
  <2> QED
    BY <1>5, <2>1 DEF RestOf, g
<1>10. [[adds |-> <<>>, dels |-> f] EXCEPT !.dels = Tail(@)] = [adds |-> <<>>, dels |-> g]
  <2>1. [adds |-> <<>>, dels |-> f].dels = f
    OBVIOUS
  <2>2. Tail([adds |-> <<>>, dels |-> f].dels) = g
    BY <1>6, <2>1
  <2>3. [[adds |-> <<>>, dels |-> f] EXCEPT !.dels = g] = [adds |-> <<>>, dels |-> g]
    OBVIOUS
  <2> QED
    BY <2>2, <2>3, Zenon
<1>11. RestOf(b, x + 1, 0, d - 1) = [RestOf(b, x, 0, d) EXCEPT !.dels = Tail(@)]
  BY <1>7, <1>8, <1>10
<1>12. RestOf(b, x, 0, d).adds = <<>> /\ RestOf(b, x, 0, d).dels = f
  BY <1>7
<1> QED
  BY <1>4, <1>6, <1>11, <1>12

\* What was encoded is decoded.
LEMMA RestDecodes ==
    ASSUME NEW m \in Message, NEW b, NEW x \in Nat,
           x + Size(m) <= RecvSize,
           \A i \in 1..Size(m) : b[x + i] = Encode(m)[i]
    PROVE  RestOf(b, x + 3, Adds(m), Dels(m)) = m
<1>1. /\ Adds(m) \in Nat /\ Dels(m) \in Nat
      /\ \A i \in 1..Adds(m) :
            m.adds[i] = [key |-> m.adds[i].key, d_index |-> m.adds[i].d_index, n |-> 0]
      /\ \A i \in 1..Dels(m) : m.dels[i] = [key |-> m.dels[i].key, n |-> 0]
      /\ m.adds = [i \in 1..Adds(m) |-> m.adds[i]]
      /\ m.dels = [i \in 1..Dels(m) |-> m.dels[i]]
      /\ m = [adds |-> m.adds, dels |-> m.dels]
  BY MessageType
<1>2. PICK a \in Nat, d \in Nat, z \in Nat :
        a = Adds(m) /\ d = Dels(m) /\ z = Size(m) /\ z = 3 + 2 * a + d
  BY <1>1, MessageType DEF Size
<1>3. /\ \A i \in 1..a : /\ Encode(m)[2 * i + 2] = m.adds[i].key
                         /\ Encode(m)[2 * i + 3] = m.adds[i].d_index
      /\ \A i \in 1..d : Encode(m)[3 + 2 * a + i] = m.dels[i].key
  BY <1>2, EncodeShape
<1>4. x + z <= RecvSize /\ RecvSize \in Nat /\ \A i \in 1..z : b[x + i] = Encode(m)[i]
  BY <1>2, ByteAssumption
<1>5. ASSUME NEW i \in 1..z
      PROVE  AtOf(b, x + i) = Encode(m)[i]
  <2>1. x + i \in 1..RecvSize
    BY <1>4
  <2> QED
    BY <1>4, <2>1 DEF AtOf
<1>6. ASSUME NEW i \in 1..a
      PROVE  AddOf(b, x + 3, i) = m.adds[i]
  <2>1. /\ 2 * i + 2 \in 1..z /\ 2 * i + 3 \in 1..z
        /\ (x + 3) + 2 * i - 1 = x + (2 * i + 2) /\ (x + 3) + 2 * i = x + (2 * i + 3)
    BY <1>2
  <2>2. /\ AtOf(b, x + (2 * i + 2)) = m.adds[i].key
        /\ AtOf(b, x + (2 * i + 3)) = m.adds[i].d_index
    BY <1>3, <1>5, <2>1
  <2>3. AddOf(b, x + 3, i) = [key |-> m.adds[i].key, d_index |-> m.adds[i].d_index, n |-> 0]
    BY <2>1, <2>2 DEF AddOf
  <2> QED
    BY <1>1, <1>2, <2>3
<1>7. ASSUME NEW i \in 1..d
      PROVE  DelOf(b, x + 3, a, i) = m.dels[i]
  <2>1. 3 + 2 * a + i \in 1..z /\ (x + 3) + 2 * a + i = x + (3 + 2 * a + i)
    BY <1>2
  <2>2. AtOf(b, x + (3 + 2 * a + i)) = m.dels[i].key
    BY <1>3, <1>5, <2>1
  <2>3. DelOf(b, x + 3, a, i) = [key |-> m.dels[i].key, n |-> 0]
    BY <2>1, <2>2 DEF DelOf
  <2> QED
    BY <1>1, <1>2, <2>3
<1>8. AddsOf(b, x + 3, a) = m.adds
  BY <1>1, <1>2, <1>6 DEF AddsOf
<1>9. DelsOf(b, x + 3, a, d) = m.dels
  BY <1>1, <1>2, <1>7 DEF DelsOf
<1> QED
  BY <1>1, <1>2, <1>8, <1>9 DEF RestOf

-----------------------------------------------------------------------------
(* The refinement.                                                         *)

AInv == IInv /\ Aligned

\* Initially there is nothing to align.
LEMMA InitAligned == Init => Aligned
<1> SUFFICES ASSUME Init PROVE Aligned
  OBVIOUS
<1>1. recv_size = 0 /\ stream = <<>> /\ wire = <<>> /\ status = "wait"
  BY DEF Init
<1>2. Len(wire) = 0 /\ Total = 0 /\ Pos = 0
  BY <1>1 DEF Total, Pos
<1> DEFINE p == [j \in 0..0 |-> 0]
<1>3. p \in [0..0 -> Nat] /\ p[0] = 0
  OBVIOUS
<1> HIDE DEF p
<1>4. Laid(p, wire, Cells, Pos, Total)
  BY <1>2, <1>3 DEF Laid
<1>6. LaidTo(wire, ends, Cells, Pos, Total)
  BY <1>2, <1>4 DEF LaidTo
<1>5. Filled
  BY <1>1 DEF Filled
<1> QED
  BY <1>5, <1>6 DEF Aligned

\* Every reachable state satisfies AInv.
LEMMA AlignedInvariance == Spec => []AInv
<1>1. Init => Aligned
  BY InitAligned
<1>2. IInv /\ IInv' /\ Aligned /\ [Next]_vars => Aligned'
  <2>1. ASSUME IInv, IInv', Aligned, Next PROVE Aligned'
    BY <2>1, AlignedStep DEF IInv
  <2>2. ASSUME Aligned, UNCHANGED vars PROVE Aligned'
    <3>1. /\ Cells' = Cells /\ Total' = Total /\ Pos' = Pos /\ wire' = wire /\ ends' = ends
          /\ recv_size' = recv_size /\ recv_buffer' = recv_buffer /\ InStep' = InStep
      BY <2>2 DEF vars, buffer, history, Cells, CellAt, Total, Pos, InStep
    <3>2. Filled' = Filled
      BY <3>1 DEF Filled
    <3>3. LaidTo(wire, ends, Cells, Pos, Total) => LaidTo(wire', ends', Cells', Pos', Total')
      BY <3>1
    <3>4. LaidTo(wire', ends', Cells', Pos', Total') => LaidTo(wire, ends, Cells, Pos, Total)'
      BY DEF LaidTo, Laid
    <3> QED
      BY <2>2, <3>1, <3>2, <3>3, <3>4 DEF Aligned
  <2> QED
    BY <2>1, <2>2
<1> QED
  BY <1>1, <1>2, Invariance, PTL DEF Spec, AInv

\* In step, a step of the loop is a step of SwitchController.
LEMMA StepRefines ==
    ASSUME AInv, Next
    PROVE  \/ torn' \/ overran'
           \/ Len(wire') > Len(wire) /\ UNCHANGED <<Rest, table, failed>>
           \/ SC!Next
           \/ UNCHANGED <<wire, Rest, table, failed>>
<1> USE DEF buffer, history
<1> SUFFICES ASSUME InStep'
             PROVE  \/ Len(wire') > Len(wire) /\ UNCHANGED <<Rest, table, failed>>
                    \/ SC!Next
                    \/ UNCHANGED <<wire, Rest, table, failed>>
  BY DEF InStep
<1>0. TypeOK /\ Consumed /\ Aligned /\ recv_buffer \in Buffer /\ wire \in Seq(Message)
  BY DEF AInv, IInv, TypeOK, Buffer
<1>1. ASSUME NEW m \in Message, Send(m)
      PROVE  Len(wire') > Len(wire) /\ UNCHANGED <<Rest, table, failed>>
  <2>1. Len(wire') = Len(wire) + 1 /\ Len(wire) \in Nat
    BY <1>0, <1>1 DEF Send
  <2>2. Rest' = Rest /\ table' = table /\ failed' = failed
    BY <1>1, RestIs DEF Send
  <2> QED
    BY <2>1, <2>2
<1>2. ASSUME NEW n \in 1..RecvSize, Recv(n)
      PROVE  UNCHANGED <<wire, Rest, table, failed>>
  <2>1. /\ InStep /\ status = "wait" /\ wire' = wire /\ table' = table /\ failed' = failed
        /\ add_left' = add_left /\ del_left' = del_left
    BY <1>2 DEF Recv, Fill, InStep
  <2>2. add_left = 0 /\ del_left = 0
    BY <1>0, <2>1 DEF Consumed
  <2>3. Rest = [adds |-> <<>>, dels |-> <<>>] /\ Rest' = [adds |-> <<>>, dels |-> <<>>]
    BY <2>1, <2>2, RestIs, RestNone
  <2> QED
    BY <2>1, <2>3
<1>b. ASSUME NEW n \in 1..RecvSize, NEW j \in 0..Len(wire), BatchFails(n, j)
      PROVE  SC!BatchFails
  <2>1. /\ InStep /\ status = "wait" /\ table' = table /\ j # 0
        /\ add_left' = add_left /\ del_left' = del_left
        /\ wire' = SubSeq(wire, j + 1, Len(wire))
        /\ failed' = failed \cup UNION {SC!Keys(wire[i]) : i \in 1..j}
    BY <1>b DEF BatchFails, Fill, InStep
  <2>2. add_left = 0 /\ del_left = 0
    BY <1>0, <2>1 DEF Consumed
  <2>3. Rest = [adds |-> <<>>, dels |-> <<>>] /\ Rest' = [adds |-> <<>>, dels |-> <<>>]
    BY <2>1, <2>2, RestIs, RestNone
  <2>4. j \in 1..Len(wire)
    BY <1>0, <2>1
  <2> QED
    BY <2>1, <2>3, <2>4 DEF SC!BatchFails, SC!NoMessage
<1>3. ASSUME Break
      PROVE  UNCHANGED <<wire, Rest, table, failed>>
  BY <1>3, RestIs DEF Break
<1>4. ASSUME Header
      PROVE  SC!Recv
  <2>1. /\ add_left = 0 /\ del_left = 0 /\ now_bytes' = now_bytes + 3
        /\ recv_buffer' = recv_buffer /\ table' = table /\ failed' = failed
    BY <1>4 DEF Header, AtHeader
  <2>2. /\ wire # <<>> /\ wire[1] \in Message
        /\ add_left' = Adds(wire[1]) /\ del_left' = Dels(wire[1])
        /\ now_bytes + Size(wire[1]) <= recv_size
        /\ \A i \in 1..Size(wire[1]) : recv_buffer[now_bytes + i] = Encode(wire[1])[i]
    BY <1>0, <1>4, HeaderReads
  <2>3. Rest = [adds |-> <<>>, dels |-> <<>>]
    BY <2>1, RestIs, RestNone
  <2>4. now_bytes + Size(wire[1]) <= RecvSize /\ now_bytes \in Nat
    <3>1. Size(wire[1]) \in Nat
      BY <2>2, MessageType
    <3> QED
      BY <1>0, <2>2, <3>1, Positions
  <2>5. RestOf(recv_buffer, now_bytes + 3, Adds(wire[1]), Dels(wire[1])) = wire[1]
    BY <2>2, <2>4, RestDecodes
  <2>6. Rest' = wire[1]
    BY <2>1, <2>2, <2>5, RestIs
  <2>7. wire' = Tail(wire) /\ Head(wire) = wire[1]
    <3>1. wire' = SubSeq(wire, 2, Len(wire))
      BY <1>4 DEF Header
    <3>2. PICK l \in Nat : l = Len(wire) /\ 1 \in 0..l
      BY <1>0, <2>2
    <3>3. /\ SubSeq(wire, 1 + 1, l) \in Seq(Message)
          /\ Len(SubSeq(wire, 1 + 1, l)) = l - 1
          /\ \A i \in 1..(l - 1) : SubSeq(wire, 1 + 1, l)[i] = wire[i + 1]
      BY <1>0, <3>2, Dropped
    <3>4. /\ Tail(wire) \in Seq(Message) /\ Len(Tail(wire)) = l - 1
          /\ \A i \in 1..(l - 1) : Tail(wire)[i] = wire[i + 1]
      BY <1>0, <2>2, <3>2
    <3>5. SubSeq(wire, 1 + 1, l) = Tail(wire)
      BY <3>2, <3>3, <3>4
    <3> QED
      BY <1>0, <2>2, <3>1, <3>2, <3>5
  <2> QED
    BY <2>1, <2>2, <2>3, <2>6, <2>7 DEF SC!Recv, SC!NoMessage
<1>5. ASSUME AddEntry
      PROVE  SC!AddEntry \/ SC!AddFails
  <2>1. PICK k \in Cell(now_bytes + 1), d \in Cell(now_bytes + 2) :
          Call(k, IF table[k] = NULL /\ Cardinality(Entries) < TableSize
               THEN [table EXCEPT ![k] = [d_index |-> d, n |-> 0]] ELSE table)
    BY <1>5 DEF AddEntry
  <2>2. /\ status = "loop" /\ add_left > 0 /\ now_bytes' = now_bytes + 2
        /\ add_left' = add_left - 1 /\ del_left' = del_left
    BY <1>5 DEF AddEntry
  <2>3. InStep /\ wire' = wire
    BY <2>1 DEF Call, InStep
  <2>4. /\ \/ /\ table' = (IF table[k] = NULL /\ Cardinality(Entries) < TableSize
                           THEN [table EXCEPT ![k] = [d_index |-> d, n |-> 0]] ELSE table)
              /\ failed' = failed
           \/ table' = table /\ failed' = failed \cup {k}
        /\ recv_buffer' = recv_buffer
    BY <1>0, <2>1, <2>2, <2>3, CallInStep
  <2>5. now_bytes + 1 \in 1..recv_size /\ now_bytes + 2 \in 1..recv_size
    <3>1. now_bytes + 2 * add_left + del_left <= recv_size
      BY <1>0, <2>2, <2>3 DEF Consumed
    <3> QED
      BY <1>0, <2>2, <3>1, Positions
  <2>6. k = AtOf(recv_buffer, now_bytes + 1) /\ d = AtOf(recv_buffer, now_bytes + 2)
    BY <1>0, <2>1, <2>3, <2>5, CellFilled DEF Aligned, AtOf
  <2>7. /\ now_bytes \in Nat /\ add_left \in Nat /\ del_left \in Nat
    BY <1>0, Positions
  <2>8. AddTaken(Rest, Rest', recv_buffer, now_bytes)
    <3>1. AddTaken(RestOf(recv_buffer, now_bytes, add_left, del_left),
                   RestOf(recv_buffer, now_bytes + 2, add_left - 1, del_left),
                   recv_buffer, now_bytes)
      BY <1>0, <2>2, <2>7, RestAfterAdd
    <3> QED
      BY <2>2, <2>4, <3>1, RestIs
  <2>9. Rest.adds # <<>> /\ Rest' = [Rest EXCEPT !.adds = Tail(@)]
    BY <2>8 DEF AddTaken
  <2>10. Head(Rest.adds).key = k /\ Head(Rest.adds).d_index = d /\ Head(Rest.adds).n = 0
    BY <2>6, <2>8 DEF AddTaken
  <2>11. SC!Cardinality(SC!Entries) = Cardinality(Entries)
    <3>1. SC!Entries = Entries
      BY DEF SC!Entries, Entries
    <3>2. SC!Cardinality(Entries) = Cardinality(Entries)
      BY DEF SC!Cardinality, Cardinality
    <3> QED
      BY <3>1, <3>2
  <2>12. CASE table' = table /\ failed' = failed \cup {k}
    BY <2>3, <2>9, <2>10, <2>12 DEF SC!AddFails
  <2>13. CASE /\ table' = (IF table[k] = NULL /\ Cardinality(Entries) < TableSize
                           THEN [table EXCEPT ![k] = [d_index |-> d, n |-> 0]] ELSE table)
              /\ failed' = failed
    <3>1. table' = IF table[Head(Rest.adds).key] = NULL /\ SC!Cardinality(SC!Entries) < TableSize
                   THEN [table EXCEPT ![Head(Rest.adds).key] =
                           [d_index |-> Head(Rest.adds).d_index, n |-> Head(Rest.adds).n]]
                   ELSE table
      BY <2>10, <2>11, <2>13
    <3> QED
      BY <2>3, <2>9, <2>13, <3>1 DEF SC!AddEntry
  <2> QED
    BY <2>4, <2>12, <2>13
<1>6. ASSUME DelEntry
      PROVE  SC!DelEntry \/ SC!DelFails
  <2>1. PICK k \in Cell(now_bytes + 1) : Call(k, [table EXCEPT ![k] = NULL])
    BY <1>6 DEF DelEntry
  <2>2. /\ status = "loop" /\ del_left > 0 /\ now_bytes' = now_bytes + 1
        /\ del_left' = del_left - 1 /\ add_left = 0 /\ add_left' = 0
    BY <1>6 DEF DelEntry
  <2>3. InStep /\ wire' = wire
    BY <2>1 DEF Call, InStep
  <2>4. /\ \/ table' = [table EXCEPT ![k] = NULL] /\ failed' = failed
           \/ table' = table /\ failed' = failed \cup {k}
        /\ recv_buffer' = recv_buffer
    BY <1>0, <2>1, <2>2, <2>3, CallInStep
  <2>5. now_bytes + 1 \in 1..recv_size
    <3>1. now_bytes + 2 * add_left + del_left <= recv_size
      BY <1>0, <2>2, <2>3 DEF Consumed
    <3> QED
      BY <1>0, <2>2, <3>1, Positions
  <2>6. k = AtOf(recv_buffer, now_bytes + 1)
    BY <1>0, <2>1, <2>3, <2>5, CellFilled DEF Aligned, AtOf
  <2>7. now_bytes \in Nat /\ del_left \in Nat
    BY <1>0, Positions
  <2>8. /\ Rest.adds = <<>> /\ Rest.dels # <<>>
        /\ Head(Rest.dels) = [key |-> AtOf(recv_buffer, now_bytes + 1), n |-> 0]
        /\ RestOf(recv_buffer, now_bytes + 1, 0, del_left - 1)
              = [Rest EXCEPT !.dels = Tail(@)]
    BY <1>0, <2>2, <2>7, RestAfterDel, RestIs
  <2>9. Rest' = [Rest EXCEPT !.dels = Tail(@)]
    BY <2>2, <2>4, <2>8, RestIs
  <2>10. Head(Rest.dels).key = k
    BY <2>6, <2>8
  <2>11. CASE table' = table /\ failed' = failed \cup {k}
    BY <2>3, <2>8, <2>9, <2>10, <2>11 DEF SC!DelFails
  <2>12. CASE table' = [table EXCEPT ![k] = NULL] /\ failed' = failed
    <3>1. table' = [table EXCEPT ![Head(Rest.dels).key] = NULL]
      BY <2>10, <2>12
    <3> QED
      BY <2>3, <2>8, <2>9, <2>12, <3>1 DEF SC!DelEntry
  <2> QED
    BY <2>4, <2>11, <2>12
<1> QED
  BY <1>1, <1>2, <1>b, <1>3, <1>4, <1>5, <1>6 DEF Next, Controller, SC!Next

\* The byte stream implements SwitchController: whatever messages the Frontend
\* sends and however recv merges them, until recv cuts a message or the loop
\* reads the byte behind the received ones as a header, run_controller decodes
\* every message to what get_offloaded_entries encoded, and applies it once and
\* in the order of sending.  When begin_batch fails, exactly the messages of that
\* recv are dropped; when a call of the driver fails, exactly that entry is.
THEOREM StreamRefines == Spec => ImplementsSwitchController
<1>1. Init => SC!Init
  <2> SUFFICES ASSUME Init PROVE SC!Init
    OBVIOUS
  <2>1. add_left = 0 /\ del_left = 0 /\ table = [k \in Byte |-> NULL] /\ failed = {}
    BY DEF Init
  <2>2. Rest = [adds |-> <<>>, dels |-> <<>>]
    BY <2>1, RestIs, RestNone
  <2> QED
    BY <2>1, <2>2 DEF SC!Init, SC!NoMessage
<1>2. AInv /\ [Next]_vars =>
        [\/ torn' \/ overran'
         \/ Len(wire') > Len(wire) /\ UNCHANGED <<Rest, table, failed>>
         \/ SC!Next]_<<wire, Rest, table, failed>>
  <2>1. ASSUME AInv, Next
        PROVE  [\/ torn' \/ overran'
                \/ Len(wire') > Len(wire) /\ UNCHANGED <<Rest, table, failed>>
                \/ SC!Next]_<<wire, Rest, table, failed>>
    BY <2>1, StepRefines
  <2>2. ASSUME UNCHANGED vars
        PROVE  UNCHANGED <<wire, Rest, table, failed>>
    BY <2>2, RestIs DEF vars, buffer, history
  <2> QED
    BY <2>1, <2>2
<1> QED
  BY <1>1, <1>2, AlignedInvariance, PTL DEF Spec, ImplementsSwitchController
=============================================================================
