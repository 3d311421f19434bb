-------------------------- MODULE OffloadPathProofs --------------------------
(***************************************************************************)
(* Proof that OffloadPath keeps PathInv, and with it EntryJustified and    *)
(* OneBatch, for any number of workers, keys, packets and any batch size,  *)
(* and that it implements the safety part of OffloadTable.                 *)
(***************************************************************************)
EXTENDS OffloadRefinement, PktProcessorProofs

\* The part of a sequence after its first m elements.
LEMMA DropFirst ==
    ASSUME NEW S, NEW s \in Seq(S), NEW m \in Nat, m <= Len(s)
    PROVE  /\ SubSeq(s, m + 1, Len(s)) \in Seq(S)
           /\ Len(SubSeq(s, m + 1, Len(s))) = Len(s) - m
           /\ \A i \in 1..(Len(s) - m) : SubSeq(s, m + 1, Len(s))[i] = s[i + m]
OBVIOUS

\* The first m elements of a sequence.
LEMMA TakeFirst ==
    ASSUME NEW S, NEW s \in Seq(S), NEW m \in Nat, m <= Len(s)
    PROVE  /\ SubSeq(s, 1, m) \in Seq(S)
           /\ Len(SubSeq(s, 1, m)) = m
           /\ \A i \in 1..m : SubSeq(s, 1, m)[i] = s[i]
OBVIOUS

\* The elements of a concatenation.
LEMMA Joined ==
    ASSUME NEW S, NEW s \in Seq(S), NEW t \in Seq(S)
    PROVE  /\ s \o t \in Seq(S)
           /\ Len(s \o t) = Len(s) + Len(t)
           /\ \A i \in 1..Len(s) : (s \o t)[i] = s[i]
           /\ \A i \in 1..Len(t) : (s \o t)[Len(s) + i] = t[i]
           /\ \A i \in 1..Len(s \o t) :
                 i \in 1..Len(s) \/ i - Len(s) \in 1..Len(t)
           /\ \A i \in 1..Len(s \o t) :
                 i - Len(s) \in 1..Len(t) => (s \o t)[i] = t[i - Len(s)]
OBVIOUS

\* Initially no command exists.
LEMMA InitPathInv == PathInit => PathInv
<1> SUFFICES ASSUME PathInit PROVE PathInv
  OBVIOUS
<1>1. IInv /\ TypeOK
  BY InitIInv DEF PathInit, IInv, MemInv
<1>2. /\ add_pairs = <<>> /\ del_keys = <<>> /\ pc = "idle" /\ todo = {}
      /\ room = 0 /\ wire = <<>> /\ overtaken = {} /\ failed = {}
      /\ cur = [adds |-> <<>>, dels |-> <<>>]
      /\ table = [k \in Endpoint |-> NULL]
      /\ \A w \in Worker : add_queue[w] = <<>>
  BY DEF PathInit, Init, EC!Init, SC!Init, SC!NoMessage
<1>3. PathTypeOK
  BY <1>1, <1>2, BatchAssumption DEF PathTypeOK, message_t
<1>4. OneBatch
  BY <1>2 DEF OneBatch
<1>5. QueuedAdds /\ BatchedAdds /\ WireAdds /\ ApplyingAdds({}) /\ TableEntries({})
  BY <1>2 DEF QueuedAdds, BatchedAdds, WireAdds, ApplyingAdds, TableEntries
<1> QED
  BY <1>1, <1>3, <1>4, <1>5 DEF PathInv, PathInvBut, IInv

-----------------------------------------------------------------------------
(* Steps of the workers.                                                   *)

\* Pending dels stay pending while the workers run, and a command that is no
\* longer current afterwards has a newer del in del_queue.
LEMMA WorkEffect ==
    ASSUME TypeOK, NEW w \in Worker, CommandMatchesFlow(w),
           NEW k \in Endpoint, NEW d, NEW n \in Nat, n <= cmd[k]
    PROVE  /\ n <= cmd'[k]
           /\ DelQueued(k, n) => DelQueued(k, n)'
           /\ Current(k, d, n) /\ k \notin mingled' =>
                Current(k, d, n)' \/ DelQueued(k, n)'
<1>1. CASE NoCommand /\ \A l \in Endpoint : SameOffload(l)
  BY <1>1 DEF NoCommand, SameOffload, DelQueued, HasNewer, Current
<1>2. ASSUME NEW m \in Endpoint, NEW e \in DIndex, EnqueueAdd(w, m, e),
             ~Offloaded(m), \A l \in Endpoint \ {m} : SameOffload(l)
      PROVE  /\ n <= cmd'[k]
             /\ DelQueued(k, n) => DelQueued(k, n)'
             /\ Current(k, d, n) => Current(k, d, n)' \/ DelQueued(k, n)'
  <2>1. cmd' = [cmd EXCEPT ![m] = @ + 1] /\ del_queue' = del_queue
    BY <1>2 DEF EnqueueAdd
  <2>2. n <= cmd'[k]
    BY <2>1 DEF TypeOK
  <2>3. DelQueued(k, n) => DelQueued(k, n)'
    BY <2>1 DEF DelQueued, HasNewer
  <2>4. Current(k, d, n) => k # m
    BY <1>2 DEF Current
  <2>5. k # m => cmd'[k] = cmd[k] /\ SameOffload(k)
    BY <1>2, <2>1 DEF TypeOK
  <2> QED
    BY <2>2, <2>3, <2>4, <2>5 DEF Current, SameOffload
<1>3. ASSUME NEW m \in Endpoint, EnqueueDel(w, m),
             \A l \in Endpoint \ {m} : SameOffload(l)
      PROVE  /\ n <= cmd'[k]
             /\ DelQueued(k, n) => DelQueued(k, n)'
             /\ Current(k, d, n) => Current(k, d, n)' \/ DelQueued(k, n)'
  <2> DEFINE x == [key |-> m, n |-> cmd[m] + 1]
  <2>1. /\ cmd' = [cmd EXCEPT ![m] = @ + 1]
        /\ del_queue' = [del_queue EXCEPT ![w] = Append(@, x)]
    BY <1>3 DEF EnqueueDel
  <2>2. n <= cmd'[k]
    BY <2>1 DEF TypeOK
  <2>3. /\ \A v \in Worker : \A i \in 1..Len(del_queue[v]) :
              i \in 1..Len(del_queue'[v]) /\ del_queue'[v][i] = del_queue[v][i]
        /\ Len(del_queue'[w]) = Len(del_queue[w]) + 1
        /\ del_queue'[w][Len(del_queue[w]) + 1] = x
    BY <2>1 DEF TypeOK
  <2>4. DelQueued(k, n) => DelQueued(k, n)'
    BY <2>3 DEF DelQueued, HasNewer
  <2>5. k = m => DelQueued(k, n)'
    <3>1. Len(del_queue[w]) \in Nat
      BY DEF TypeOK
    <3>2. Len(del_queue[w]) + 1 \in 1..Len(del_queue'[w])
      BY <2>3, <3>1
    <3>3. cmd[m] + 1 > n \/ k # m
      BY DEF TypeOK
    <3>4. k = m => HasNewer(del_queue'[w], k, n)
      BY <2>3, <3>2, <3>3 DEF HasNewer
    <3> QED
      BY <3>4 DEF DelQueued, HasNewer
  <2>6. k # m => cmd'[k] = cmd[k] /\ SameOffload(k)
    BY <1>3, <2>1 DEF TypeOK
  <2> QED
    BY <2>2, <2>4, <2>5, <2>6 DEF Current, SameOffload
<1>4. ASSUME NEW m \in Endpoint, m \in mingled',
             \/ NoCommand \/ EnqueueDel(w, m)
             \/ \E e \in DIndex : EnqueueAdd(w, m, e),
             \A l \in Endpoint \ {m} : SameOffload(l)
      PROVE  /\ n <= cmd'[k]
             /\ DelQueued(k, n) => DelQueued(k, n)'
             /\ Current(k, d, n) /\ k \notin mingled' =>
                  Current(k, d, n)' \/ DelQueued(k, n)'
  <2>1. CASE NoCommand
    BY <1>4, <2>1 DEF NoCommand, SameOffload, DelQueued, HasNewer, Current
  <2>2. CASE EnqueueDel(w, m)
    BY <1>3, <1>4, <2>2
  <2>3. CASE \E e \in DIndex : EnqueueAdd(w, m, e)
    <3>1. cmd' = [cmd EXCEPT ![m] = @ + 1] /\ del_queue' = del_queue
      BY <2>3 DEF EnqueueAdd
    <3>2. n <= cmd'[k]
      BY <3>1 DEF TypeOK
    <3>3. DelQueued(k, n) => DelQueued(k, n)'
      BY <3>1 DEF DelQueued, HasNewer
    <3>4. k # m => cmd'[k] = cmd[k] /\ SameOffload(k)
      BY <1>4, <3>1 DEF TypeOK
    <3> QED
      BY <1>4, <3>2, <3>3, <3>4 DEF Current, SameOffload
  <2> QED
    BY <1>4, <2>1, <2>2, <2>3
<1> QED
  BY <1>1, <1>2, <1>3, <1>4 DEF CommandMatchesFlow, MingledCommand

\* The elements of every stage are commands.
LEMMA StageTypes ==
    ASSUME PathTypeOK
    PROVE  /\ \A w \in Worker : \A i \in 1..Len(add_queue[w]) :
                 add_queue[w][i] \in add_t
           /\ \A i \in 1..Len(add_pairs) : add_pairs[i] \in add_t
           /\ \A j \in 1..Len(wire) :
                 /\ wire[j] \in message_t
                 /\ \A i \in 1..Len(wire[j].adds) : wire[j].adds[i] \in add_t
           /\ \A i \in 1..Len(cur.adds) : cur.adds[i] \in add_t
           /\ \A k \in Endpoint : table[k] # NULL =>
                 table[k].d_index \in DIndex /\ table[k].n \in Nat
<1>1. \A w \in Worker : add_queue[w] \in Seq(add_t)
  BY DEF PathTypeOK, TypeOK
<1>2. \A j \in 1..Len(wire) : wire[j] \in message_t /\ wire[j].adds \in Seq(add_t)
  <2>1. \A j \in 1..Len(wire) : wire[j] \in message_t
    BY DEF PathTypeOK
  <2> QED
    BY <2>1 DEF message_t
<1>3. cur.adds \in Seq(add_t) /\ add_pairs \in Seq(add_t)
  BY DEF PathTypeOK, message_t
<1>4. \A k \in Endpoint : table[k] # NULL =>
         table[k].d_index \in DIndex /\ table[k].n \in Nat
  BY DEF PathTypeOK
<1> QED
  BY <1>1, <1>2, <1>3, <1>4

\* The fields of an add command.
LEMMA AddFields ==
    ASSUME NEW x \in add_t
    PROVE  x.key \in Endpoint /\ x.d_index \in DIndex /\ x.n \in Nat
BY DEF add_t

\* The adds in every stage stay justified when a worker handles a packet.
LEMMA WorkAdds ==
    ASSUME NEW old, PathInvBut(old), NEW w \in Worker, CommandMatchesFlow(w), Clean,
           mingled \subseteq mingled', UNCHANGED <<ecvars, wire, scvars>>
    PROVE  /\ QueuedAdds' /\ BatchedAdds' /\ WireAdds'
           /\ ApplyingAdds(old)' /\ TableEntries(old)'
<1> USE DEF PathInvBut
<1>1. TypeOK
  BY DEF PathTypeOK
<1>2. \A k \in Endpoint : Trusted(k)' => Trusted(k)
  BY DEF Trusted, ecvars, scvars
<1>3. \A k \in Endpoint, n \in Nat :
         /\ DelBatched(k, n)' <=> DelBatched(k, n)
         /\ DelApplying(k, n)' <=> DelApplying(k, n)
         /\ \A j \in Nat : DelOnWire(k, n, j)' <=> DelOnWire(k, n, j)
  BY DEF ecvars, scvars, DelBatched, DelApplying, DelOnWire, HasNewer
<1>4. \A k \in Endpoint, d \in DIndex, n \in Nat : n <= cmd[k] =>
         /\ n <= cmd'[k]
         /\ DelQueued(k, n) => DelQueued(k, n)'
         /\ Current(k, d, n) /\ Trusted(k)' =>
              Current(k, d, n)' \/ DelQueued(k, n)'
  BY <1>1, WorkEffect DEF Trusted
<1>5. \A k \in Endpoint, d \in DIndex, n \in Nat : n <= cmd[k] =>
         (DelPending(k, n) => DelPending(k, n)')
  BY <1>3, <1>4 DEF DelPending
<1>6. /\ add_pairs' = add_pairs /\ wire' = wire /\ cur' = cur /\ table' = table
  BY DEF ecvars, scvars
<1>7. BatchedAdds'
  BY <1>2, <1>3, <1>4, <1>6, StageTypes, AddFields DEF BatchedAdds, Justified
<1>8. WireAdds'
  <2>1. ASSUME NEW j \in 1..Len(wire), NEW i \in 1..Len(wire[j].adds),
               NEW x, x = wire[j].adds[i]
        PROVE  Justified(x.key, x.d_index, x.n,
                         \/ DelQueued(x.key, x.n) \/ DelBatched(x.key, x.n)
                         \/ DelOnWire(x.key, x.n, j))'
    <3>1. x.key \in Endpoint /\ x.d_index \in DIndex /\ x.n \in Nat /\ j \in Nat
      BY <2>1, StageTypes, AddFields
    <3>2. Justified(x.key, x.d_index, x.n,
                    \/ DelQueued(x.key, x.n) \/ DelBatched(x.key, x.n)
                    \/ DelOnWire(x.key, x.n, j))
      BY <2>1 DEF WireAdds
    <3> QED
      BY <1>2, <1>3, <1>4, <3>1, <3>2 DEF Justified
  <2> QED
    BY <1>6, <2>1 DEF WireAdds
<1>9. \A k \in Endpoint, n \in Nat : DelQueued(k, n)' => DelPending(k, n)'
  BY DEF DelPending
<1>10. ApplyingAdds(old)'
  BY <1>2, <1>4, <1>5, <1>6, <1>9, StageTypes, AddFields DEF ApplyingAdds, Justified
<1>11. TableEntries(old)'
  BY <1>2, <1>4, <1>5, <1>6, <1>9, StageTypes DEF TableEntries, Justified
<1>12. QueuedAdds'
  <2> DEFINE Old(v, i) == /\ i \in 1..Len(add_queue[v])
                          /\ add_queue'[v][i] = add_queue[v][i]
             New(v, i) == \E k \in Endpoint, d \in DIndex, n \in Nat :
                             /\ add_queue'[v][i] = [key |-> k, d_index |-> d, n |-> n]
                             /\ n <= cmd'[k]
                             /\ Current(k, d, n)' \/ ~Trusted(k)'
  <2>1. ASSUME NEW v \in Worker, NEW i \in 1..Len(add_queue'[v])
        PROVE  Old(v, i) \/ New(v, i)
    <3>1. CASE add_queue' = add_queue
      BY <2>1, <3>1
    <3>2. ASSUME NEW k \in Endpoint, NEW d \in DIndex, EnqueueAdd(w, k, d),
                 \/ Offloaded(k)' /\ FlowOf(k)'.entry_data.d_index = d
                 \/ k \in mingled'
          PROVE  Old(v, i) \/ New(v, i)
      <4>1. PICK n \in Nat : n = cmd[k] + 1
        BY <1>1 DEF TypeOK
      <4>2. cmd'[k] = n
        BY <1>1, <3>2, <4>1 DEF EnqueueAdd, TypeOK
      <4>3. Current(k, d, n)' \/ ~Trusted(k)'
        BY <3>2, <4>2 DEF Current, Trusted
      <4>4. Old(v, i) \/ add_queue'[v][i] = [key |-> k, d_index |-> d, n |-> n]
        BY <1>1, <2>1, <3>2, <4>1 DEF EnqueueAdd, TypeOK
      <4> QED
        BY <4>2, <4>3, <4>4
    <3> QED
      BY <3>1, <3>2 DEF CommandMatchesFlow, MingledCommand, NoCommand, EnqueueDel
  <2>2. ASSUME NEW v \in Worker, NEW i \in 1..Len(add_queue'[v])
        PROVE  (LET x == add_queue[v][i] IN
                Justified(x.key, x.d_index, x.n, DelQueued(x.key, x.n)))'
    <3>1. CASE Old(v, i)
      BY <1>2, <1>4, <3>1, StageTypes, AddFields DEF QueuedAdds, Justified
    <3>2. CASE New(v, i)
      <4>1. PICK k \in Endpoint, d \in DIndex, n \in Nat :
                   /\ add_queue'[v][i] = [key |-> k, d_index |-> d, n |-> n]
                   /\ n <= cmd'[k]
                   /\ Current(k, d, n)' \/ ~Trusted(k)'
        BY <3>2
      <4> QED
        BY <4>1 DEF Justified
    <3> QED
      BY <2>1, <2>2, <3>1, <3>2
  <2> QED
    BY <2>2 DEF QueuedAdds
<1> QED
  BY <1>7, <1>8, <1>10, <1>11, <1>12

\* A step of the workers or a rule update keeps the invariant.
LEMMA WorkerPathInv ==
    ASSUME NEW old, PathInvBut(old), Next, UNCHANGED <<ecvars, wire, scvars>>
    PROVE  PathInvBut(old)'
<1>1. PathTypeOK /\ MemInv /\ OneBatch
  BY DEF PathInvBut
<1>2. MemInv'
  BY <1>1, NextMemInv
<1>3. PathTypeOK'
  <2>1. TypeOK'
    BY <1>2 DEF MemInv
  <2> QED
    BY <1>1, <2>1 DEF PathTypeOK, ecvars, scvars
<1>4. OneBatch'
  BY <1>1 DEF OneBatch, ecvars
<1>5. /\ QueuedAdds' /\ BatchedAdds' /\ WireAdds'
      /\ ApplyingAdds(old)' /\ TableEntries(old)'
  <2>1. CASE ~Clean'
    <3>1. \A k : ~Trusted(k)'
      BY <2>1 DEF Trusted
    <3> QED
      BY <3>1 DEF QueuedAdds, BatchedAdds, WireAdds, ApplyingAdds, TableEntries,
                  Justified
  <2>2. CASE Clean'
    <3>1. Clean
      BY <2>2, CleanBackwards
    <3>2. ASSUME NEW w \in Worker, Run(w)
          PROVE  CommandMatchesFlow(w) /\ mingled \subseteq mingled'
      BY <1>1, <2>2, <3>1, <3>2, RunSafe, WorkerEffect DEF MemInv
    <3>3. ASSUME UNCHANGED <<memory, queues, cmd>>
          PROVE  /\ QueuedAdds' /\ BatchedAdds' /\ WireAdds'
                 /\ ApplyingAdds(old)' /\ TableEntries(old)'
      <4>1. UNCHANGED <<flow_hash_map, heap, aborted, raced, mingled, add_queue,
                        del_queue, cmd, add_pairs, del_keys, overtaken, wire,
                        cur, table, failed>>
        BY <3>3 DEF memory, queues, ecvars, scvars
      <4>2. \A k \in Endpoint : Trusted(k)' <=> Trusted(k)
        <5>1. Clean' <=> Clean
          BY <4>1 DEF Clean
        <5> QED
          BY <4>1, <5>1 DEF Trusted
      <4>3. \A k \in Endpoint, d \in DIndex, n \in Nat :
               Current(k, d, n)' <=> Current(k, d, n)
        BY <4>1 DEF Current, Offloaded, Mapped, FlowOf
      <4>4. \A k \in Endpoint, n \in Nat :
               /\ DelQueued(k, n)' <=> DelQueued(k, n)
               /\ DelBatched(k, n)' <=> DelBatched(k, n)
               /\ DelApplying(k, n)' <=> DelApplying(k, n)
               /\ \A j \in Nat : DelOnWire(k, n, j)' <=> DelOnWire(k, n, j)
        BY <4>1 DEF DelQueued, DelBatched, DelApplying, DelOnWire, HasNewer
      <4>5. \A k \in Endpoint, n \in Nat : DelPending(k, n)' <=> DelPending(k, n)
        BY <4>4 DEF DelPending
      <4>6. QueuedAdds'
        BY <1>1, <4>1, <4>2, <4>3, <4>4, StageTypes, AddFields
        DEF PathInvBut, QueuedAdds, Justified
      <4>7. BatchedAdds'
        BY <1>1, <4>1, <4>2, <4>3, <4>4, StageTypes, AddFields
        DEF PathInvBut, BatchedAdds, Justified
      <4>8. WireAdds'
        <5>1. SUFFICES ASSUME NEW j \in 1..Len(wire), NEW i \in 1..Len(wire[j].adds),
                              NEW x, x = wire[j].adds[i], Trusted(x.key)'
                       PROVE  /\ x.n <= cmd[x.key]
                              /\ \/ Current(x.key, x.d_index, x.n)'
                                 \/ DelQueued(x.key, x.n)' \/ DelBatched(x.key, x.n)'
                                 \/ DelOnWire(x.key, x.n, j)'
          BY <4>1 DEF WireAdds, Justified
        <5>2. /\ x.key \in Endpoint /\ x.d_index \in DIndex /\ x.n \in Nat
              /\ j \in Nat
          BY <1>1, <5>1, StageTypes, AddFields
        <5>3. Trusted(x.key)
          BY <4>2, <5>1, <5>2
        <5>4. /\ x.n <= cmd[x.key]
              /\ \/ Current(x.key, x.d_index, x.n)
                 \/ DelQueued(x.key, x.n) \/ DelBatched(x.key, x.n)
                 \/ DelOnWire(x.key, x.n, j)
          BY <5>1, <5>3 DEF PathInvBut, WireAdds, Justified
        <5> QED
          BY <4>3, <4>4, <5>2, <5>4
      <4>9. ApplyingAdds(old)'
        BY <1>1, <4>1, <4>2, <4>3, <4>5, StageTypes, AddFields
        DEF PathInvBut, ApplyingAdds, Justified
      <4>10. TableEntries(old)'
        BY <1>1, <4>1, <4>2, <4>3, <4>5, StageTypes
        DEF PathInvBut, TableEntries, Justified
      <4> QED
        BY <4>6, <4>7, <4>8, <4>9, <4>10
    <3>4. CASE \E w \in Worker : Run(w)
      BY <3>1, <3>2, <3>4, WorkAdds
    <3>5. CASE \E w \in Worker, p \in Packet : Rx(w, p)
      BY <3>3, <3>5 DEF Rx
    <3>6. CASE \E u \in Url : UpdateRule(u)
      BY <3>3, <3>6 DEF UpdateRule
    <3> QED
      BY <3>4, <3>5, <3>6 DEF Next
  <2> QED
    BY <2>1, <2>2
<1> QED
  BY <1>1, <1>2, <1>3, <1>4, <1>5 DEF PathInvBut

-----------------------------------------------------------------------------
(* Steps of the main thread and of the switch controller.                  *)

\* The workers' invariant does not depend on the contents of the queues.
LEMMA QueueStepMemInv ==
    ASSUME MemInv, UNCHANGED workervars,
           add_queue' \in [Worker -> Seq(add_t)],
           del_queue' \in [Worker -> Seq(del_t)]
    PROVE  MemInv'
<1> USE DEF MemInv
<1>1. UNCHANGED <<flow_hash_map, heap, live, aborted, raced, mingled, worker,
                  send_pkts, rule_map, cmd>>
  BY DEF workervars, memory
<1>2. Clean' <=> Clean
  BY <1>1 DEF Clean
<1>3. TypeOK'
  BY <1>1 DEF TypeOK
<1>4. FlowsFilledIn'
  BY <1>1 DEF FlowsFilledIn
<1>5. MemorySafe'
  BY <1>1, <1>2 DEF MemorySafe, Mapped, FlowOf, key, pkt
<1>6. CachedRequestIsOwn'
  BY <1>1, <1>2 DEF CachedRequestIsOwn, Mapped, FlowOf
<1>7. PartsMingled'
  BY <1>1 DEF PartsMingled, part, key, pkt
<1> QED
  BY <1>3, <1>4, <1>5, <1>6, <1>7

\* What the workers asked for does not change while the commands travel.
LEMMA TravelFrame ==
    ASSUME UNCHANGED workervars, overtaken \subseteq overtaken',
           failed \subseteq failed'
    PROVE  /\ cmd' = cmd
           /\ \A k \in Endpoint : Trusted(k)' => Trusted(k)
           /\ \A k \in Endpoint, d \in DIndex, n \in Nat :
                 Current(k, d, n)' <=> Current(k, d, n)
<1>1. UNCHANGED <<flow_hash_map, heap, aborted, raced, mingled, cmd>>
  BY DEF workervars, memory
<1>2. \A k \in Endpoint : Trusted(k)' => Trusted(k)
  <2>1. Clean' <=> Clean
    BY <1>1 DEF Clean
  <2> QED
    BY <1>1, <2>1 DEF Trusted
<1>3. \A k \in Endpoint : Offloaded(k)' <=> Offloaded(k)
  BY <1>1 DEF Offloaded, Mapped, FlowOf
<1>4. \A k \in Endpoint, d \in DIndex, n \in Nat :
         Current(k, d, n)' <=> Current(k, d, n)
  BY <1>1, <1>3 DEF Current, FlowOf
<1> QED
  BY <1>1, <1>2, <1>4

\* A step that moves no command and no entry.
LEMMA IdleStep ==
    ASSUME NEW old, PathInvBut(old),
           UNCHANGED <<workervars, queues, add_pairs, del_keys, overtaken,
                       wire, scvars>>
    PROVE  /\ MemInv' /\ TypeOK'
           /\ QueuedAdds' /\ BatchedAdds' /\ WireAdds'
           /\ ApplyingAdds(old)' /\ TableEntries(old)'
<1>1. PathTypeOK /\ MemInv /\ TypeOK
  BY DEF PathInvBut, MemInv
<1>2. UNCHANGED <<add_queue, del_queue, add_pairs, del_keys, overtaken, wire,
                  cur, table, failed>>
  BY DEF queues, scvars
<1>3. MemInv' /\ TypeOK'
  BY <1>1, <1>2, QueueStepMemInv DEF TypeOK, MemInv
<1>4. /\ cmd' = cmd
      /\ \A k \in Endpoint : Trusted(k)' => Trusted(k)
      /\ \A k \in Endpoint, d \in DIndex, n \in Nat :
            Current(k, d, n)' <=> Current(k, d, n)
  BY <1>2, TravelFrame
<1>5. \A k \in Endpoint, n \in Nat :
         /\ DelQueued(k, n)' <=> DelQueued(k, n)
         /\ DelBatched(k, n)' <=> DelBatched(k, n)
         /\ DelApplying(k, n)' <=> DelApplying(k, n)
         /\ \A j \in Nat : DelOnWire(k, n, j)' <=> DelOnWire(k, n, j)
  BY <1>2 DEF DelQueued, DelBatched, DelApplying, DelOnWire, HasNewer
<1>6. \A k \in Endpoint, n \in Nat : DelPending(k, n)' <=> DelPending(k, n)
  BY <1>5 DEF DelPending
<1>7. QueuedAdds'
  BY <1>1, <1>2, <1>4, <1>5, StageTypes, AddFields
  DEF PathInvBut, QueuedAdds, Justified
<1>8. BatchedAdds'
  BY <1>1, <1>2, <1>4, <1>5, StageTypes, AddFields
  DEF PathInvBut, BatchedAdds, Justified
<1>9. WireAdds'
  <2>1. ASSUME NEW j \in 1..Len(wire), NEW i \in 1..Len(wire[j].adds),
               NEW x, x = wire[j].adds[i]
        PROVE  Justified(x.key, x.d_index, x.n,
                         \/ DelQueued(x.key, x.n) \/ DelBatched(x.key, x.n)
                         \/ DelOnWire(x.key, x.n, j))'
    <3>1. x.key \in Endpoint /\ x.d_index \in DIndex /\ x.n \in Nat /\ j \in Nat
      BY <1>1, <2>1, StageTypes, AddFields
    <3>2. Justified(x.key, x.d_index, x.n,
                    \/ DelQueued(x.key, x.n) \/ DelBatched(x.key, x.n)
                    \/ DelOnWire(x.key, x.n, j))
      BY <2>1 DEF PathInvBut, WireAdds
    <3> QED
      BY <1>4, <1>5, <3>1, <3>2 DEF Justified
  <2> QED
    BY <1>2, <2>1 DEF WireAdds
<1>10. ApplyingAdds(old)'
  BY <1>1, <1>2, <1>4, <1>6, StageTypes, AddFields
  DEF PathInvBut, ApplyingAdds, Justified
<1>11. TableEntries(old)'
  BY <1>1, <1>2, <1>4, <1>6, StageTypes DEF PathInvBut, TableEntries, Justified
<1> QED
  BY <1>3, <1>7, <1>8, <1>9, <1>10, <1>11

\* The timer and the change from adds to dels move nothing.  By OneBatch the
\* timer finds both buffers empty and always drains the queues.
LEMMA TimerPathInv ==
    ASSUME NEW old, PathInvBut(old), EC!Timer \/ EC!AddsTaken,
           UNCHANGED <<workervars, scvars>>
    PROVE  PathInvBut(old)'
<1>1. PathTypeOK /\ OneBatch
  BY DEF PathInvBut
<1>2. UNCHANGED <<add_queue, del_queue, add_pairs, del_keys, overtaken, wire>>
  BY DEF EC!Timer, EC!AddsTaken
<1>3. /\ MemInv' /\ TypeOK'
      /\ QueuedAdds' /\ BatchedAdds' /\ WireAdds'
      /\ ApplyingAdds(old)' /\ TableEntries(old)'
  BY <1>2, IdleStep DEF queues
<1>4. CASE EC!Timer
  <2>1. add_pairs = <<>> /\ del_keys = <<>>
    BY <1>1, <1>4 DEF EC!Timer, OneBatch
  <2>2. pc' = "adds" /\ todo' = Worker /\ room' = BATCH_SIZE
    BY <1>4, <2>1, BatchAssumption DEF EC!Timer
  <2>3. OneBatch'
    BY <1>2, <2>1, <2>2, BatchAssumption DEF OneBatch
  <2>4. PathTypeOK'
    BY <1>1, <1>2, <1>3, <2>2, BatchAssumption DEF PathTypeOK, scvars
  <2> QED
    BY <1>3, <2>3, <2>4 DEF PathInvBut
<1>5. CASE EC!AddsTaken
  <2>1. pc = "adds" /\ pc' = "dels" /\ todo' = Worker /\ room' = BATCH_SIZE
    BY <1>5 DEF EC!AddsTaken
  <2>2. Len(add_pairs) <= BATCH_SIZE /\ del_keys = <<>>
    BY <1>1, <2>1, BatchAssumption DEF OneBatch, PathTypeOK
  <2>3. OneBatch'
    BY <1>2, <2>1, <2>2, BatchAssumption DEF OneBatch
  <2>4. PathTypeOK'
    BY <1>1, <1>2, <1>3, <2>1, BatchAssumption DEF PathTypeOK, scvars
  <2> QED
    BY <1>3, <2>3, <2>4 DEF PathInvBut
<1> QED
  BY <1>4, <1>5

\* While commands are drained, the adds past the buffers stay justified.
LEMMA DrainKeeps ==
    ASSUME NEW old, PathInvBut(old), UNCHANGED <<workervars, wire, scvars>>,
           overtaken \subseteq overtaken',
           \A k \in Endpoint, n \in Nat :
               /\ DelQueued(k, n) => DelQueued(k, n)' \/ DelBatched(k, n)'
               /\ DelBatched(k, n) => DelBatched(k, n)'
    PROVE  WireAdds' /\ ApplyingAdds(old)' /\ TableEntries(old)'
<1>1. PathTypeOK
  BY DEF PathInvBut
<1>2. wire' = wire /\ cur' = cur /\ table' = table /\ failed' = failed
  BY DEF scvars
<1>3. /\ cmd' = cmd
      /\ \A k \in Endpoint : Trusted(k)' => Trusted(k)
      /\ \A k \in Endpoint, d \in DIndex, n \in Nat :
            Current(k, d, n)' <=> Current(k, d, n)
  BY <1>2, TravelFrame
<1>4. \A k \in Endpoint, n \in Nat :
         /\ DelApplying(k, n)' <=> DelApplying(k, n)
         /\ \A j \in Nat : DelOnWire(k, n, j)' <=> DelOnWire(k, n, j)
  BY <1>2 DEF DelApplying, DelOnWire, HasNewer
<1>5. \A k \in Endpoint, n \in Nat : DelPending(k, n) => DelPending(k, n)'
  BY <1>4 DEF DelPending
<1>6. WireAdds'
  <2>1. ASSUME NEW j \in 1..Len(wire), NEW i \in 1..Len(wire[j].adds),
               NEW x, x = wire[j].adds[i]
        PROVE  Justified(x.key, x.d_index, x.n,
                         \/ DelQueued(x.key, x.n) \/ DelBatched(x.key, x.n)
                         \/ DelOnWire(x.key, x.n, j))'
    <3>1. x.key \in Endpoint /\ x.d_index \in DIndex /\ x.n \in Nat /\ j \in Nat
      BY <1>1, <2>1, StageTypes, AddFields
    <3>2. Justified(x.key, x.d_index, x.n,
                    \/ DelQueued(x.key, x.n) \/ DelBatched(x.key, x.n)
                    \/ DelOnWire(x.key, x.n, j))
      BY <2>1 DEF PathInvBut, WireAdds
    <3> QED
      BY <1>3, <1>4, <3>1, <3>2 DEF Justified
  <2> QED
    BY <1>2, <2>1 DEF WireAdds
<1>7. ApplyingAdds(old)'
  BY <1>1, <1>2, <1>3, <1>5, StageTypes, AddFields
  DEF PathInvBut, ApplyingAdds, Justified
<1>8. TableEntries(old)'
  BY <1>1, <1>2, <1>3, <1>5, StageTypes DEF PathInvBut, TableEntries, Justified
<1> QED
  BY <1>6, <1>7, <1>8

\* Draining a producer's adds.
LEMMA TakeAddsPathInv ==
    ASSUME NEW old, PathInvBut(old), NEW w \in Worker, EC!TakeAdds(w),
           UNCHANGED <<workervars, scvars>>
    PROVE  PathInvBut(old)'
<1>1. PathTypeOK /\ MemInv /\ TypeOK /\ OneBatch
  BY DEF PathInvBut, MemInv
<1> DEFINE m == EC!Min(Len(add_queue[w]), room)
           q == add_queue[w]
           taken == SubSeq(q, 1, m)
           left == SubSeq(q, m + 1, Len(q))
<1>2. /\ pc = "adds" /\ pc' = pc
      /\ add_pairs' = add_pairs \o taken
      /\ add_queue' = [add_queue EXCEPT ![w] = left]
      /\ todo' = todo \ {w}
      /\ room' = room - m
      /\ UNCHANGED <<del_queue, del_keys, wire, overtaken, cur, table, failed>>
  BY <1>1 DEF EC!TakeAdds, scvars, TypeOK
<1>3. q \in Seq(add_t) /\ room \in Nat /\ room <= BATCH_SIZE /\ add_pairs \in Seq(add_t)
  BY <1>1, BatchAssumption DEF TypeOK, PathTypeOK
<1>4. m \in Nat /\ m <= Len(q) /\ m <= room
  BY <1>3 DEF EC!Min
<1> HIDE DEF m
<1>5. /\ taken \in Seq(add_t) /\ Len(taken) = m
      /\ \A i \in 1..m : taken[i] = q[i]
  BY <1>3, <1>4, TakeFirst
<1>6. /\ left \in Seq(add_t) /\ Len(left) = Len(q) - m
      /\ \A i \in 1..(Len(q) - m) : left[i] = q[i + m]
  BY <1>3, <1>4, DropFirst
<1> HIDE DEF taken, left, q
<1>7. add_queue' \in [Worker -> Seq(add_t)] /\ del_queue' \in [Worker -> Seq(del_t)]
  BY <1>1, <1>2, <1>6 DEF TypeOK
<1>8. MemInv' /\ TypeOK'
  BY <1>1, <1>7, QueueStepMemInv DEF MemInv
<1>9. /\ add_pairs' \in Seq(add_t)
      /\ Len(add_pairs') = Len(add_pairs) + m
      /\ \A i \in 1..Len(add_pairs') :
            \/ i \in 1..Len(add_pairs) /\ add_pairs'[i] = add_pairs[i]
            \/ \E v \in 1..Len(q) : add_pairs'[i] = q[v]
  <2>1. /\ add_pairs' \in Seq(add_t)
        /\ Len(add_pairs') = Len(add_pairs) + m
    BY <1>2, <1>3, <1>5, Joined
  <2>2. \A i \in 1..Len(add_pairs') :
            \/ i \in 1..Len(add_pairs) /\ add_pairs'[i] = add_pairs[i]
            \/ i - Len(add_pairs) \in 1..m /\ add_pairs'[i] = taken[i - Len(add_pairs)]
    BY <1>2, <1>3, <1>5, Joined
  <2>3. \A i \in 1..m : i \in 1..Len(q) /\ taken[i] = q[i]
    BY <1>3, <1>4, <1>5
  <2> QED
    BY <2>1, <2>2, <2>3
<1>10. room' \in 0..BATCH_SIZE
  BY <1>2, <1>3, <1>4, BatchAssumption
<1>11. PathTypeOK'
  BY <1>1, <1>2, <1>8, <1>9, <1>10 DEF PathTypeOK
<1>12. OneBatch'
  <2>1. Len(add_pairs) + room = BATCH_SIZE /\ del_keys = <<>> /\ Len(add_pairs) \in Nat
    BY <1>1, <1>2, <1>3 DEF OneBatch
  <2>2. Len(add_pairs') + room' = BATCH_SIZE
    BY <1>2, <1>3, <1>4, <1>9, <2>1
  <2> QED
    BY <1>2, <2>1, <2>2 DEF OneBatch
<1>13. /\ cmd' = cmd
       /\ \A k \in Endpoint : Trusted(k)' => Trusted(k)
       /\ \A k \in Endpoint, d \in DIndex, n \in Nat :
             Current(k, d, n)' <=> Current(k, d, n)
  BY <1>2, TravelFrame
<1>14. \A k \in Endpoint, n \in Nat :
          /\ DelQueued(k, n)' <=> DelQueued(k, n)
          /\ DelBatched(k, n)' <=> DelBatched(k, n)
  BY <1>2 DEF DelQueued, DelBatched, HasNewer
<1>15. WireAdds' /\ ApplyingAdds(old)' /\ TableEntries(old)'
  BY <1>2, <1>14, DrainKeeps
<1>16. \A v \in Worker : \A i \in 1..Len(add_queue'[v]) :
          \E j \in 1..Len(add_queue[v]) : add_queue'[v][i] = add_queue[v][j]
  <2>1. TAKE v \in Worker
  <2>2. CASE v # w
    <3>1. add_queue'[v] = add_queue[v]
      BY <1>1, <1>2, <2>2 DEF TypeOK
    <3> QED
      BY <3>1
  <2>3. CASE v = w
    <3>1. add_queue'[v] = left /\ add_queue[v] = q
      BY <1>1, <1>2, <2>3 DEF TypeOK, q
    <3>2. \A i \in 1..Len(left) : i + m \in 1..Len(q) /\ left[i] = q[i + m]
      BY <1>3, <1>4, <1>6
    <3> QED
      BY <3>1, <3>2
  <2> QED
    BY <2>2, <2>3
<1>17. QueuedAdds'
  <2>1. ASSUME NEW v \in Worker, NEW i \in 1..Len(add_queue'[v]),
               NEW x, x = add_queue'[v][i]
        PROVE  Justified(x.key, x.d_index, x.n, DelQueued(x.key, x.n))'
    <3>1. PICK j \in 1..Len(add_queue[v]) : x = add_queue[v][j]
      BY <1>16, <2>1
    <3>2. Justified(x.key, x.d_index, x.n, DelQueued(x.key, x.n)) /\ x \in add_t
      BY <1>1, <3>1, StageTypes DEF PathInvBut, QueuedAdds
    <3> QED
      BY <1>13, <1>14, <3>2, AddFields DEF Justified
  <2> QED
    BY <2>1 DEF QueuedAdds
<1>18. \A i \in 1..Len(q) : q[i] \in add_t /\
          Justified(q[i].key, q[i].d_index, q[i].n, DelQueued(q[i].key, q[i].n))
  BY <1>1, StageTypes DEF PathInvBut, QueuedAdds, q
<1>19. BatchedAdds'
  <2>1. ASSUME NEW x, x \in add_t,
               \/ Justified(x.key, x.d_index, x.n, DelQueued(x.key, x.n))
               \/ Justified(x.key, x.d_index, x.n,
                            DelQueued(x.key, x.n) \/ DelBatched(x.key, x.n))
        PROVE  Justified(x.key, x.d_index, x.n,
                         DelQueued(x.key, x.n) \/ DelBatched(x.key, x.n))'
    BY <1>13, <1>14, <2>1, AddFields DEF Justified
  <2>2. \A i \in 1..Len(add_pairs) : add_pairs[i] \in add_t /\
           LET x == add_pairs[i] IN
           Justified(x.key, x.d_index, x.n, DelQueued(x.key, x.n) \/ DelBatched(x.key, x.n))
    BY <1>1, StageTypes DEF PathInvBut, BatchedAdds
  <2>3. ASSUME NEW i \in 1..Len(add_pairs'), NEW x, x = add_pairs'[i]
        PROVE  Justified(x.key, x.d_index, x.n,
                         DelQueued(x.key, x.n) \/ DelBatched(x.key, x.n))'
    <3>1. CASE i \in 1..Len(add_pairs) /\ add_pairs'[i] = add_pairs[i]
      BY <2>1, <2>2, <2>3, <3>1
    <3>2. CASE \E v \in 1..Len(q) : add_pairs'[i] = q[v]
      BY <1>18, <2>1, <2>3, <3>2
    <3> QED
      BY <1>9, <3>1, <3>2
  <2> QED
    BY <2>3 DEF BatchedAdds
<1> QED
  BY <1>8, <1>11, <1>12, <1>15, <1>17, <1>19 DEF PathInvBut

\* Draining a producer's dels.  A del that leaves del_queue while an older add
\* of its key is still in add_queue puts the key into overtaken.
LEMMA TakeDelsPathInv ==
    ASSUME NEW old, PathInvBut(old), NEW w \in Worker, EC!TakeDels(w),
           UNCHANGED <<workervars, scvars>>
    PROVE  PathInvBut(old)'
<1>1. PathTypeOK /\ MemInv /\ TypeOK /\ OneBatch
  BY DEF PathInvBut, MemInv
<1> DEFINE m == EC!Min(Len(del_queue[w]), room)
           q == del_queue[w]
           taken == SubSeq(q, 1, m)
           left == SubSeq(q, m + 1, Len(q))
           Ahead(j) == \E v \in Worker : \E l \in 1..Len(add_queue[v]) :
                          /\ add_queue[v][l].key = taken[j].key
                          /\ add_queue[v][l].n < taken[j].n
<1>2. /\ pc = "dels" /\ pc' = pc
      /\ del_keys' = del_keys \o taken
      /\ del_queue' = [del_queue EXCEPT ![w] = left]
      /\ todo' = todo \ {w}
      /\ room' = room - m
      /\ UNCHANGED <<add_queue, add_pairs, wire, cur, table, failed>>
      /\ overtaken' = overtaken \cup
            {taken[i].key : i \in {j \in 1..Len(taken) : Ahead(j)}}
  BY <1>1 DEF EC!TakeDels, scvars, TypeOK
<1>3. q \in Seq(del_t) /\ room \in Nat /\ room <= BATCH_SIZE /\ del_keys \in Seq(del_t)
  BY <1>1, BatchAssumption DEF TypeOK, PathTypeOK
<1>4. m \in Nat /\ m <= Len(q) /\ m <= room
  BY <1>3 DEF EC!Min
<1> HIDE DEF m
<1>5. /\ taken \in Seq(del_t) /\ Len(taken) = m
      /\ \A i \in 1..m : taken[i] = q[i]
  BY <1>3, <1>4, TakeFirst
<1>6. /\ left \in Seq(del_t) /\ Len(left) = Len(q) - m
      /\ \A i \in 1..(Len(q) - m) : left[i] = q[i + m]
  BY <1>3, <1>4, DropFirst
<1> HIDE DEF taken, left, q
<1>7. add_queue' \in [Worker -> Seq(add_t)] /\ del_queue' \in [Worker -> Seq(del_t)]
  BY <1>1, <1>2, <1>6 DEF TypeOK
<1>8. MemInv' /\ TypeOK'
  BY <1>1, <1>7, QueueStepMemInv DEF MemInv
<1>9. /\ del_keys' \in Seq(del_t)
      /\ Len(del_keys') = Len(del_keys) + m
      /\ \A i \in 1..Len(del_keys) : i \in 1..Len(del_keys') /\ del_keys'[i] = del_keys[i]
      /\ \A i \in 1..m : /\ Len(del_keys) + i \in 1..Len(del_keys')
                         /\ del_keys'[Len(del_keys) + i] = taken[i]
  <2>1. /\ del_keys' \in Seq(del_t)
        /\ Len(del_keys') = Len(del_keys) + m
        /\ \A i \in 1..Len(del_keys) : del_keys'[i] = del_keys[i]
        /\ \A i \in 1..m : del_keys'[Len(del_keys) + i] = taken[i]
    <3>1. taken \in Seq(del_t) /\ del_keys \in Seq(del_t) /\ del_keys' = del_keys \o taken
      BY <1>2, <1>3, <1>5
    <3>2. /\ del_keys' \in Seq(del_t)
          /\ Len(del_keys') = Len(del_keys) + Len(taken)
      BY <3>1, Joined
    <3>3. /\ \A i \in 1..Len(del_keys) : del_keys'[i] = del_keys[i]
          /\ \A i \in 1..Len(taken) : del_keys'[Len(del_keys) + i] = taken[i]
      BY <3>1, Joined
    <3> QED
      BY <1>5, <3>2, <3>3
  <2>2. /\ \A i \in 1..Len(del_keys) : i \in 1..Len(del_keys')
        /\ \A i \in 1..m : Len(del_keys) + i \in 1..Len(del_keys')
    BY <1>3, <1>4, <2>1
  <2> QED
    BY <2>1, <2>2
<1>10. room' \in 0..BATCH_SIZE
  BY <1>2, <1>3, <1>4, BatchAssumption
<1>11. overtaken \subseteq overtaken' /\ overtaken' \subseteq Endpoint
  <2>1. \A i \in 1..Len(taken) : taken[i] \in del_t
    BY <1>5
  <2>2. \A i \in 1..Len(taken) : taken[i].key \in Endpoint
    BY <2>1 DEF del_t
  <2> QED
    BY <1>1, <1>2, <2>2 DEF PathTypeOK
<1>12. PathTypeOK'
  BY <1>1, <1>2, <1>8, <1>9, <1>10, <1>11 DEF PathTypeOK
<1>13. OneBatch'
  <2>1. /\ Len(add_pairs) <= BATCH_SIZE /\ Len(del_keys) + room = BATCH_SIZE
        /\ Len(del_keys) \in Nat
    BY <1>1, <1>2, <1>3 DEF OneBatch
  <2>2. Len(del_keys') + room' = BATCH_SIZE
    BY <1>2, <1>3, <1>4, <1>9, <2>1
  <2> QED
    BY <1>2, <2>1, <2>2 DEF OneBatch
<1>14. /\ cmd' = cmd
       /\ \A k \in Endpoint : Trusted(k)' => Trusted(k)
       /\ \A k \in Endpoint, d \in DIndex, n \in Nat :
             Current(k, d, n)' <=> Current(k, d, n)
  BY <1>2, <1>11, TravelFrame
<1>15. \A k \in Endpoint, n \in Nat : DelBatched(k, n) => DelBatched(k, n)'
  BY <1>9 DEF DelBatched, HasNewer
\* a newer del that was queued stays queued or is among those taken
<1>16. ASSUME NEW k \in Endpoint, NEW n \in Nat, DelQueued(k, n)
       PROVE  \/ DelQueued(k, n)'
              \/ \E i \in 1..m : taken[i].key = k /\ taken[i].n > n
  <2>1. PICK v \in Worker : \E i \in 1..Len(del_queue[v]) :
                del_queue[v][i].key = k /\ del_queue[v][i].n > n
    BY <1>16 DEF DelQueued, HasNewer
  <2>2. PICK i \in 1..Len(del_queue[v]) :
                del_queue[v][i].key = k /\ del_queue[v][i].n > n
    BY <2>1
  <2>3. CASE v # w
    <3>1. del_queue'[v] = del_queue[v]
      BY <1>1, <1>2, <2>3 DEF TypeOK
    <3> QED
      BY <2>2, <3>1 DEF DelQueued, HasNewer
  <2>4. CASE v = w /\ i <= m
    <3>1. i \in 1..m /\ del_queue[v] = q
      BY <1>4, <2>4 DEF q
    <3> QED
      BY <1>5, <2>2, <3>1
  <2>5. CASE v = w /\ ~(i <= m)
    <3>1. del_queue[v] = q /\ del_queue'[v] = left
      BY <1>1, <1>2, <2>5 DEF q, TypeOK
    <3>2. i - m \in 1..Len(left)
      BY <1>3, <1>4, <1>6, <2>5, <3>1
    <3>3. left[i - m] = q[i]
      BY <1>3, <1>4, <1>6, <3>2
    <3>4. HasNewer(left, k, n)
      BY <2>2, <3>1, <3>2, <3>3 DEF HasNewer
    <3> QED
      BY <3>1, <3>4 DEF DelQueued, HasNewer
  <2> QED
    BY <2>3, <2>4, <2>5
<1>17. \A k \in Endpoint, n \in Nat :
          DelQueued(k, n) => DelQueued(k, n)' \/ DelBatched(k, n)'
  <2>1. ASSUME NEW k \in Endpoint, NEW n \in Nat,
               \E i \in 1..m : taken[i].key = k /\ taken[i].n > n
        PROVE  DelBatched(k, n)'
    BY <1>9, <2>1 DEF DelBatched, HasNewer
  <2> QED
    BY <1>16, <2>1
<1>18. WireAdds' /\ ApplyingAdds(old)' /\ TableEntries(old)'
  BY <1>2, <1>11, <1>15, <1>17, DrainKeeps DEF scvars
<1>19. BatchedAdds'
  <2>1. ASSUME NEW i \in 1..Len(add_pairs), NEW x, x = add_pairs[i]
        PROVE  Justified(x.key, x.d_index, x.n,
                         DelQueued(x.key, x.n) \/ DelBatched(x.key, x.n))'
    <3>1. /\ x \in add_t
          /\ Justified(x.key, x.d_index, x.n,
                       DelQueued(x.key, x.n) \/ DelBatched(x.key, x.n))
      BY <1>1, <2>1, StageTypes DEF PathInvBut, BatchedAdds
    <3> QED
      BY <1>14, <1>15, <1>17, <3>1, AddFields DEF Justified
  <2> QED
    BY <1>2, <2>1 DEF BatchedAdds
<1>20. QueuedAdds'
  <2>1. ASSUME NEW v \in Worker, NEW i \in 1..Len(add_queue[v]),
               NEW x, x = add_queue[v][i]
        PROVE  Justified(x.key, x.d_index, x.n, DelQueued(x.key, x.n))'
    <3>1. /\ x \in add_t
          /\ Justified(x.key, x.d_index, x.n, DelQueued(x.key, x.n))
      BY <1>1, <2>1, StageTypes DEF PathInvBut, QueuedAdds
    <3>2. ASSUME NEW j \in 1..m, taken[j].key = x.key, taken[j].n > x.n
          PROVE  ~Trusted(x.key)'
      <4>1. taken[j] \in del_t /\ j \in 1..Len(taken)
        BY <1>5
      <4>2. x.n < taken[j].n
        BY <3>1, <3>2, <4>1, AddFields DEF del_t
      <4>3. Ahead(j)
        BY <2>1, <3>2, <4>2
      <4>4. x.key \in overtaken'
        BY <1>2, <3>2, <4>1, <4>3
      <4> QED
        BY <4>4 DEF Trusted
    <3>3. Trusted(x.key)' /\ DelQueued(x.key, x.n) => DelQueued(x.key, x.n)'
      BY <1>16, <3>1, <3>2, AddFields
    <3> QED
      BY <1>14, <3>1, <3>3, AddFields DEF Justified
  <2> QED
    BY <1>2, <2>1 DEF QueuedAdds
<1> QED
  BY <1>8, <1>12, <1>13, <1>18, <1>19, <1>20 DEF PathInvBut

\* A prefix as long as the sequence is the sequence, and nothing is left.
LEMMA WholeTaken ==
    ASSUME NEW S, NEW s \in Seq(S)
    PROVE  SubSeq(s, 1, Len(s)) = s /\ SubSeq(s, Len(s) + 1, Len(s)) = <<>>
OBVIOUS

\* Sending the batch.  By OneBatch both buffers fit into the message, so a del
\* leaves the buffer in the same message as the adds drained with it.
LEMMA FlushPathInv ==
    ASSUME NEW old, PathInvBut(old), EC!Flush, UNCHANGED <<workervars, scvars>>
    PROVE  PathInvBut(old)'
<1>1. PathTypeOK /\ MemInv /\ TypeOK /\ OneBatch
  BY DEF PathInvBut, MemInv
<1> DEFINE msg == [adds |-> add_pairs, dels |-> del_keys]
<1>2. /\ add_pairs \in Seq(add_t) /\ del_keys \in Seq(del_t) /\ wire \in Seq(message_t)
      /\ pc = "dels" /\ pc' = "idle"
      /\ UNCHANGED <<add_queue, del_queue, todo, room, overtaken, cur, table, failed>>
  BY <1>1 DEF EC!Flush, PathTypeOK, scvars
<1>3. /\ EC!Min(Len(add_pairs), BATCH_SIZE) = Len(add_pairs)
      /\ EC!Min(Len(del_keys), BATCH_SIZE) = Len(del_keys)
  <2>1. room \in Nat /\ Len(add_pairs) \in Nat /\ Len(del_keys) \in Nat
    BY <1>1, <1>2, BatchAssumption DEF PathTypeOK
  <2>2. Len(add_pairs) <= BATCH_SIZE /\ Len(del_keys) <= BATCH_SIZE
    BY <1>1, <1>2, <2>1, BatchAssumption DEF OneBatch
  <2> QED
    BY <2>2 DEF EC!Min
<1>4. /\ add_pairs' = <<>> /\ del_keys' = <<>>
      /\ IF Len(add_pairs) = 0 /\ Len(del_keys) = 0 THEN wire' = wire
         ELSE wire' = Append(wire, msg)
  <2>1. /\ SubSeq(add_pairs, 1, Len(add_pairs)) = add_pairs
        /\ SubSeq(add_pairs, Len(add_pairs) + 1, Len(add_pairs)) = <<>>
    BY <1>2, WholeTaken
  <2>2. /\ SubSeq(del_keys, 1, Len(del_keys)) = del_keys
        /\ SubSeq(del_keys, Len(del_keys) + 1, Len(del_keys)) = <<>>
    BY <1>2, WholeTaken
  <2> QED
    BY <1>3, <2>1, <2>2 DEF EC!Flush
<1>5. OneBatch'
  BY <1>2, <1>4 DEF OneBatch
<1>6. CASE Len(add_pairs) = 0 /\ Len(del_keys) = 0
  <2>1. add_pairs' = add_pairs /\ del_keys' = del_keys /\ wire' = wire
    BY <1>2, <1>4, <1>6
  <2>2. /\ MemInv' /\ TypeOK'
        /\ QueuedAdds' /\ BatchedAdds' /\ WireAdds'
        /\ ApplyingAdds(old)' /\ TableEntries(old)'
    BY <1>2, <2>1, IdleStep DEF queues, scvars
  <2>3. PathTypeOK'
    BY <1>1, <1>2, <2>1, <2>2 DEF PathTypeOK
  <2> QED
    BY <1>5, <2>2, <2>3 DEF PathInvBut
<1>7. CASE ~(Len(add_pairs) = 0 /\ Len(del_keys) = 0)
  <2>1. wire' = Append(wire, msg)
    BY <1>4, <1>7
  <2>2. msg \in message_t /\ msg.adds = add_pairs /\ msg.dels = del_keys
    BY <1>2 DEF message_t
  <2> HIDE DEF msg
  <2>3. /\ wire' \in Seq(message_t)
        /\ Len(wire') = Len(wire) + 1 /\ Len(wire) \in Nat
        /\ \A j \in 1..Len(wire) : wire'[j] = wire[j]
        /\ wire'[Len(wire) + 1] = msg
    BY <1>2, <2>1, <2>2
  <2>4. MemInv' /\ TypeOK'
    BY <1>1, <1>2, QueueStepMemInv DEF TypeOK, MemInv
  <2>5. PathTypeOK'
    <3>1. add_pairs' \in Seq(add_t) /\ del_keys' \in Seq(del_t)
      BY <1>4
    <3> QED
      BY <1>1, <1>2, <2>3, <2>4, <3>1 DEF PathTypeOK
  <2>6. /\ cmd' = cmd
        /\ \A k \in Endpoint : Trusted(k)' => Trusted(k)
        /\ \A k \in Endpoint, d \in DIndex, n \in Nat :
              Current(k, d, n)' <=> Current(k, d, n)
    BY <1>2, TravelFrame
  <2>7. \A k \in Endpoint, n \in Nat :
           /\ DelQueued(k, n)' <=> DelQueued(k, n)
           /\ DelApplying(k, n)' <=> DelApplying(k, n)
    BY <1>2 DEF DelQueued, DelApplying, HasNewer
  <2>8. \A k \in Endpoint, n \in Nat, j \in Nat :
           DelOnWire(k, n, j) => DelOnWire(k, n, j)'
    <3>1. \A j \in 1..Len(wire) : j \in 1..Len(wire') /\ wire'[j] = wire[j]
      BY <2>3
    <3> QED
      BY <3>1 DEF DelOnWire, HasNewer
  <2>9. \A k \in Endpoint, n \in Nat, j \in 1..Len(wire') :
           DelBatched(k, n) => DelOnWire(k, n, j)'
    <3>1. /\ Len(wire) + 1 \in 1..Len(wire')
          /\ \A j \in 1..Len(wire') : Len(wire) + 1 >= j
      BY <2>3
    <3>2. wire'[Len(wire) + 1].dels = del_keys
      BY <2>2, <2>3
    <3> QED
      BY <3>1, <3>2 DEF DelOnWire, DelBatched, HasNewer
  <2>10. \A k \in Endpoint, n \in Nat : DelPending(k, n) => DelPending(k, n)'
    <3>1. 1 \in 1..Len(wire')
      BY <2>3
    <3> QED
      BY <2>7, <2>8, <2>9, <3>1 DEF DelPending
  <2>11. QueuedAdds'
    <3>1. ASSUME NEW v \in Worker, NEW i \in 1..Len(add_queue[v]),
                 NEW x, x = add_queue[v][i]
          PROVE  Justified(x.key, x.d_index, x.n, DelQueued(x.key, x.n))'
      <4>1. /\ x \in add_t
            /\ Justified(x.key, x.d_index, x.n, DelQueued(x.key, x.n))
        BY <1>1, <3>1, StageTypes DEF PathInvBut, QueuedAdds
      <4> QED
        BY <2>6, <2>7, <4>1, AddFields DEF Justified
    <3> QED
      BY <1>2, <3>1 DEF QueuedAdds
  <2>12. BatchedAdds'
    BY <1>4 DEF BatchedAdds
  <2>13. WireAdds'
    <3>1. ASSUME NEW j \in 1..Len(wire'), NEW i \in 1..Len(wire'[j].adds),
                 NEW x, x = wire'[j].adds[i]
          PROVE  Justified(x.key, x.d_index, x.n,
                           \/ DelQueued(x.key, x.n) \/ DelBatched(x.key, x.n)
                           \/ DelOnWire(x.key, x.n, j))'
      <4>1. CASE j \in 1..Len(wire)
        <5>1. x = wire[j].adds[i] /\ i \in 1..Len(wire[j].adds)
          BY <2>3, <3>1, <4>1
        <5>2. x.key \in Endpoint /\ x.d_index \in DIndex /\ x.n \in Nat /\ j \in Nat
          BY <1>1, <4>1, <5>1, StageTypes, AddFields
        <5>3. Justified(x.key, x.d_index, x.n,
                        \/ DelQueued(x.key, x.n) \/ DelBatched(x.key, x.n)
                        \/ DelOnWire(x.key, x.n, j))
          BY <4>1, <5>1 DEF PathInvBut, WireAdds
        <5> QED
          BY <2>6, <2>7, <2>8, <2>9, <5>2, <5>3 DEF Justified
      <4>2. CASE j = Len(wire) + 1
        <5>1. x = add_pairs[i] /\ i \in 1..Len(add_pairs)
          BY <2>2, <2>3, <3>1, <4>2
        <5>2. x.key \in Endpoint /\ x.d_index \in DIndex /\ x.n \in Nat
          BY <1>1, <5>1, StageTypes, AddFields
        <5>3. Justified(x.key, x.d_index, x.n,
                        DelQueued(x.key, x.n) \/ DelBatched(x.key, x.n))
          BY <5>1 DEF PathInvBut, BatchedAdds
        <5> QED
          BY <2>6, <2>7, <2>9, <5>2, <5>3 DEF Justified
      <4>3. j \in 1..Len(wire) \/ j = Len(wire) + 1
        BY <2>3
      <4> QED
        BY <4>1, <4>2, <4>3
    <3> QED
      BY <3>1 DEF WireAdds
  <2>14. ApplyingAdds(old)'
    BY <1>1, <1>2, <2>6, <2>10, StageTypes, AddFields
    DEF PathInvBut, ApplyingAdds, Justified
  <2>15. TableEntries(old)'
    BY <1>1, <1>2, <2>6, <2>10, StageTypes DEF PathInvBut, TableEntries, Justified
  <2> QED
    BY <1>5, <2>4, <2>5, <2>11, <2>12, <2>13, <2>14, <2>15 DEF PathInvBut
<1> QED
  BY <1>6, <1>7

\* The switch controller leaves the Frontend's stages alone.
LEMMA ApplyFrame ==
    ASSUME NEW old, PathInvBut(old), UNCHANGED <<workervars, queues, ecvars>>,
           failed \subseteq failed'
    PROVE  /\ MemInv' /\ TypeOK' /\ OneBatch' /\ QueuedAdds' /\ BatchedAdds'
           /\ UNCHANGED <<add_pairs, del_keys, pc, todo, room, overtaken>>
           /\ \A k \in Endpoint, n \in Nat :
                 /\ DelQueued(k, n)' <=> DelQueued(k, n)
                 /\ DelBatched(k, n)' <=> DelBatched(k, n)
<1>1. PathTypeOK /\ MemInv /\ TypeOK /\ OneBatch
  BY DEF PathInvBut, MemInv
<1>2. UNCHANGED <<add_queue, del_queue, add_pairs, del_keys, pc, todo, room, overtaken>>
  BY DEF queues, ecvars
<1>3. MemInv' /\ TypeOK'
  BY <1>1, <1>2, QueueStepMemInv DEF TypeOK, MemInv
<1>4. OneBatch'
  BY <1>1, <1>2 DEF OneBatch
<1>5. /\ cmd' = cmd
      /\ \A k \in Endpoint : Trusted(k)' => Trusted(k)
      /\ \A k \in Endpoint, d \in DIndex, n \in Nat :
            Current(k, d, n)' <=> Current(k, d, n)
  BY <1>2, TravelFrame
<1>6. \A k \in Endpoint, n \in Nat :
         /\ DelQueued(k, n)' <=> DelQueued(k, n)
         /\ DelBatched(k, n)' <=> DelBatched(k, n)
  BY <1>2 DEF DelQueued, DelBatched, HasNewer
<1>7. QueuedAdds'
  BY <1>1, <1>2, <1>5, <1>6, StageTypes, AddFields
  DEF PathInvBut, QueuedAdds, Justified
<1>8. BatchedAdds'
  BY <1>1, <1>2, <1>5, <1>6, StageTypes, AddFields
  DEF PathInvBut, BatchedAdds, Justified
<1> QED
  BY <1>2, <1>3, <1>4, <1>6, <1>7, <1>8

\* Receiving a message: its dels were behind its adds and stay behind them.
LEMMA RecvPathInv ==
    ASSUME NEW old, PathInvBut(old), SC!Recv,
           UNCHANGED <<workervars, queues, ecvars>>
    PROVE  PathInvBut(old)'
<1>1. PathTypeOK /\ failed' = failed
  BY DEF PathInvBut, SC!Recv
<1>2. /\ MemInv' /\ TypeOK' /\ OneBatch' /\ QueuedAdds' /\ BatchedAdds'
      /\ UNCHANGED <<add_pairs, del_keys, pc, todo, room, overtaken>>
      /\ \A k \in Endpoint, n \in Nat :
            /\ DelQueued(k, n)' <=> DelQueued(k, n)
            /\ DelBatched(k, n)' <=> DelBatched(k, n)
  BY <1>1, ApplyFrame
<1>3. /\ cmd' = cmd
      /\ \A k \in Endpoint : Trusted(k)' => Trusted(k)
      /\ \A k \in Endpoint, d \in DIndex, n \in Nat :
            Current(k, d, n)' <=> Current(k, d, n)
  BY <1>1, <1>2, TravelFrame
<1>4. /\ wire \in Seq(message_t) /\ wire # <<>>
      /\ cur' = Head(wire) /\ wire' = Tail(wire) /\ table' = table
      /\ cur.dels = <<>>
  BY <1>1 DEF SC!Recv, SC!NoMessage, PathTypeOK
<1>5. /\ Len(wire) \in Nat \ {0} /\ 1 \in 1..Len(wire)
      /\ cur' = wire[1] /\ cur' \in message_t
      /\ wire' \in Seq(message_t) /\ Len(wire') = Len(wire) - 1
      /\ \A j \in 1..Len(wire') : j + 1 \in 1..Len(wire) /\ wire'[j] = wire[j + 1]
  BY <1>4
<1>6. PathTypeOK'
  BY <1>1, <1>2, <1>4, <1>5 DEF PathTypeOK
<1>7. \A k \in Endpoint, n \in Nat, j \in Nat :
         DelOnWire(k, n, j + 1) /\ j >= 1 => DelOnWire(k, n, j)'
  <2>1. \A l \in 1..Len(wire), j \in Nat :
           l >= j + 1 /\ j >= 1 =>
              l - 1 \in 1..Len(wire') /\ l - 1 >= j /\ wire'[l - 1] = wire[l]
    BY <1>5
  <2> QED
    BY <2>1 DEF DelOnWire, HasNewer
<1>8. \A k \in Endpoint, n \in Nat :
         DelOnWire(k, n, 1) => DelApplying(k, n)' \/ DelOnWire(k, n, 1)'
  <2>1. \A l \in 1..Len(wire) :
           \/ wire[l] = cur'
           \/ l - 1 \in 1..Len(wire') /\ l - 1 >= 1 /\ wire'[l - 1] = wire[l]
    BY <1>5
  <2> QED
    BY <2>1 DEF DelOnWire, DelApplying, HasNewer
<1>9. \A k \in Endpoint, n \in Nat : DelPending(k, n) => DelPending(k, n)'
  <2>1. \A k \in Endpoint, n \in Nat : ~DelApplying(k, n)
    BY <1>4 DEF DelApplying, HasNewer
  <2> QED
    BY <1>2, <1>8, <2>1 DEF DelPending
<1>10. WireAdds'
  <2>1. ASSUME NEW j \in 1..Len(wire'), NEW i \in 1..Len(wire'[j].adds),
               NEW x, x = wire'[j].adds[i]
        PROVE  Justified(x.key, x.d_index, x.n,
                         \/ DelQueued(x.key, x.n) \/ DelBatched(x.key, x.n)
                         \/ DelOnWire(x.key, x.n, j))'
    <3>1. /\ j + 1 \in 1..Len(wire) /\ j \in Nat /\ j >= 1
          /\ i \in 1..Len(wire[j + 1].adds) /\ x = wire[j + 1].adds[i]
      <4>1. j + 1 \in 1..Len(wire) /\ wire'[j] = wire[j + 1]
        BY <1>5
      <4>2. j \in Nat /\ j >= 1
        BY <1>5
      <4> QED
        BY <2>1, <4>1, <4>2
    <3>2. x.key \in Endpoint /\ x.d_index \in DIndex /\ x.n \in Nat
      BY <1>1, <3>1, StageTypes, AddFields
    <3>3. Justified(x.key, x.d_index, x.n,
                    \/ DelQueued(x.key, x.n) \/ DelBatched(x.key, x.n)
                    \/ DelOnWire(x.key, x.n, j + 1))
      BY <3>1 DEF PathInvBut, WireAdds
    <3> QED
      BY <1>2, <1>3, <1>7, <3>1, <3>2, <3>3 DEF Justified
  <2> QED
    BY <2>1 DEF WireAdds
<1>11. ApplyingAdds(old)'
  <2>1. ASSUME NEW i \in 1..Len(wire[1].adds), NEW x, x = wire[1].adds[i]
        PROVE  Justified(x.key, x.d_index, x.n, DelPending(x.key, x.n))'
    <3>1. x.key \in Endpoint /\ x.d_index \in DIndex /\ x.n \in Nat
      BY <1>1, <1>5, <2>1, StageTypes, AddFields
    <3>2. Justified(x.key, x.d_index, x.n,
                    \/ DelQueued(x.key, x.n) \/ DelBatched(x.key, x.n)
                    \/ DelOnWire(x.key, x.n, 1))
      BY <1>5, <2>1 DEF PathInvBut, WireAdds
    <3>3. Justified(x.key, x.d_index, x.n, DelPending(x.key, x.n))
      BY <3>2 DEF Justified, DelPending
    <3> QED
      BY <1>3, <1>9, <3>1, <3>3 DEF Justified
  <2> QED
    BY <1>5, <2>1 DEF ApplyingAdds
<1>12. TableEntries(old)'
  BY <1>1, <1>3, <1>4, <1>9, StageTypes DEF PathInvBut, TableEntries, Justified
<1> QED
  BY <1>2, <1>6, <1>10, <1>11, <1>12 DEF PathInvBut

\* begin_batch fails: the keys of the messages that are dropped are no longer
\* trusted, and what is behind the other adds stays behind them.
LEMMA DropPathInv ==
    ASSUME NEW old, PathInvBut(old), SC!BatchFails,
           UNCHANGED <<workervars, queues, ecvars>>
    PROVE  PathInvBut(old)'
<1>1. PathTypeOK /\ wire \in Seq(message_t) /\ Len(wire) \in Nat
  BY DEF PathInvBut, PathTypeOK
<1>2. PICK m \in 1..Len(wire) :
         /\ wire' = SubSeq(wire, m + 1, Len(wire))
         /\ failed' = failed \cup UNION {SC!Keys(wire[i]) : i \in 1..m}
  BY DEF SC!BatchFails
<1>3. /\ cur' = cur /\ table' = table /\ failed \subseteq failed'
      /\ m \in Nat /\ m <= Len(wire)
  BY <1>1, <1>2 DEF SC!BatchFails
<1>4. /\ MemInv' /\ TypeOK' /\ OneBatch' /\ QueuedAdds' /\ BatchedAdds'
      /\ UNCHANGED <<add_pairs, del_keys, pc, todo, room, overtaken>>
      /\ \A k \in Endpoint, n \in Nat :
            /\ DelQueued(k, n)' <=> DelQueued(k, n)
            /\ DelBatched(k, n)' <=> DelBatched(k, n)
  BY <1>3, ApplyFrame
<1>5. /\ cmd' = cmd
      /\ \A k \in Endpoint : Trusted(k)' => Trusted(k)
      /\ \A k \in Endpoint, d \in DIndex, n \in Nat :
            Current(k, d, n)' <=> Current(k, d, n)
  BY <1>3, <1>4, TravelFrame
<1>6. /\ wire' \in Seq(message_t) /\ Len(wire') = Len(wire) - m
      /\ \A j \in 1..Len(wire') : j + m \in 1..Len(wire) /\ wire'[j] = wire[j + m]
  BY <1>1, <1>2, <1>3, DropFirst
<1>7. PathTypeOK'
  <2>1. ASSUME NEW i \in 1..m PROVE SC!Keys(wire[i]) \subseteq Endpoint
    <3>1. i \in 1..Len(wire)
      BY <1>1, <1>3
    <3>2. wire[i] \in message_t
      BY <1>1, <3>1
    <3>3. wire[i].adds \in Seq(add_t) /\ wire[i].dels \in Seq(del_t)
      BY <3>2 DEF message_t
    <3>4. /\ \A x \in 1..Len(wire[i].adds) : wire[i].adds[x] \in add_t
          /\ \A x \in 1..Len(wire[i].dels) : wire[i].dels[x] \in del_t
      BY <3>3
    <3> QED
      BY <3>4 DEF SC!Keys, add_t, del_t
  <2>2. failed' \subseteq Endpoint
    BY <1>1, <1>2, <2>1 DEF PathTypeOK
  <2> QED
    BY <1>1, <1>3, <1>4, <1>6, <2>2 DEF PathTypeOK
\* A trusted key has no command among the dropped ones.
<1>8. \A k \in Endpoint, n \in Nat, i \in 1..m :
         Trusted(k)' => ~HasNewer(wire[i].dels, k, n)
  BY <1>2 DEF Trusted, HasNewer, SC!Keys
<1>9. \A k \in Endpoint, n \in Nat, j \in Nat :
         Trusted(k)' /\ j >= 1 /\ (DelOnWire(k, n, j + m) \/ (j = 1 /\ DelOnWire(k, n, 1)))
            => DelOnWire(k, n, j)'
  <2>1. ASSUME NEW k \in Endpoint, NEW n \in Nat, NEW j \in Nat, Trusted(k)', j >= 1,
               NEW l \in 1..Len(wire), l >= j + m \/ j = 1, HasNewer(wire[l].dels, k, n)
        PROVE  DelOnWire(k, n, j)'
    <3>1. l > m
      BY <1>1, <1>3, <1>8, <2>1
    <3>2. l - m \in 1..Len(wire') /\ l - m >= j
      BY <1>1, <1>3, <1>6, <2>1, <3>1
    <3>3. wire'[l - m] = wire[l]
      BY <1>1, <1>3, <1>6, <3>2
    <3>4. HasNewer(wire'[l - m].dels, k, n)
      BY <2>1, <3>3
    <3> QED
      BY <3>2, <3>4 DEF DelOnWire, HasNewer
  <2> QED
    BY <2>1 DEF DelOnWire
<1>10. \A k \in Endpoint, n \in Nat :
          Trusted(k)' /\ DelPending(k, n) => DelPending(k, n)'
  <2>1. \A k \in Endpoint, n \in Nat : DelApplying(k, n)' <=> DelApplying(k, n)
    BY <1>3 DEF DelApplying, HasNewer
  <2>2. \A k \in Endpoint, n \in Nat :
           Trusted(k)' /\ DelOnWire(k, n, 1) => DelOnWire(k, n, 1)'
    BY <1>9
  <2> QED
    BY <1>4, <2>1, <2>2 DEF DelPending
<1>11. WireAdds'
  <2>1. ASSUME NEW j \in 1..Len(wire'), NEW i \in 1..Len(wire'[j].adds),
               NEW x, x = wire'[j].adds[i]
        PROVE  Justified(x.key, x.d_index, x.n,
                         \/ DelQueued(x.key, x.n) \/ DelBatched(x.key, x.n)
                         \/ DelOnWire(x.key, x.n, j))'
    <3>1. /\ j + m \in 1..Len(wire) /\ j \in Nat /\ j >= 1
          /\ i \in 1..Len(wire[j + m].adds) /\ x = wire[j + m].adds[i]
      <4>1. j + m \in 1..Len(wire) /\ wire'[j] = wire[j + m]
        BY <1>6
      <4>2. j \in Nat /\ j >= 1
        BY <1>6
      <4> QED
        BY <2>1, <4>1, <4>2
    <3>2. x.key \in Endpoint /\ x.d_index \in DIndex /\ x.n \in Nat
      BY <1>1, <3>1, StageTypes, AddFields
    <3>3. Justified(x.key, x.d_index, x.n,
                    \/ DelQueued(x.key, x.n) \/ DelBatched(x.key, x.n)
                    \/ DelOnWire(x.key, x.n, j + m))
      BY <3>1 DEF PathInvBut, WireAdds
    <3> QED
      BY <1>4, <1>5, <1>9, <3>1, <3>2, <3>3 DEF Justified
  <2> QED
    BY <2>1 DEF WireAdds
<1>12. ApplyingAdds(old)'
  BY <1>1, <1>3, <1>5, <1>10, StageTypes, AddFields
  DEF PathInvBut, ApplyingAdds, Justified
<1>13. TableEntries(old)'
  BY <1>1, <1>3, <1>5, <1>10, StageTypes DEF PathInvBut, TableEntries, Justified
<1> QED
  BY <1>4, <1>7, <1>11, <1>12, <1>13 DEF PathInvBut

\* Applying one command of the message.
LEMMA EntryPathInv ==
    ASSUME NEW old, PathInvBut(old),
           SC!AddEntry \/ SC!AddFails \/ SC!DelEntry \/ SC!DelFails,
           UNCHANGED <<workervars, queues, ecvars>>
    PROVE  PathInvBut(old)'
<1>1. PathTypeOK /\ cur \in message_t
  BY DEF PathInvBut, PathTypeOK
<1>1a. cur.adds \in Seq(add_t) /\ cur.dels \in Seq(del_t)
  BY <1>1 DEF message_t
<1>1b. failed \subseteq failed' /\ failed' \subseteq Endpoint
  <2>1. cur.adds # <<>> => Head(cur.adds) \in add_t
    BY <1>1a
  <2>2. cur.dels # <<>> => Head(cur.dels) \in del_t
    BY <1>1a
  <2> QED
    BY <1>1, <2>1, <2>2
    DEF SC!AddEntry, SC!AddFails, SC!DelEntry, SC!DelFails, PathTypeOK, add_t, del_t
<1>2. /\ MemInv' /\ TypeOK' /\ OneBatch' /\ QueuedAdds' /\ BatchedAdds'
      /\ UNCHANGED <<add_pairs, del_keys, pc, todo, room, overtaken>>
      /\ \A k \in Endpoint, n \in Nat :
            /\ DelQueued(k, n)' <=> DelQueued(k, n)
            /\ DelBatched(k, n)' <=> DelBatched(k, n)
  BY <1>1b, ApplyFrame
<1>3. /\ cmd' = cmd
      /\ \A k \in Endpoint : Trusted(k)' => Trusted(k)
      /\ \A k \in Endpoint, d \in DIndex, n \in Nat :
            Current(k, d, n)' <=> Current(k, d, n)
  BY <1>1b, <1>2, TravelFrame
<1>4. wire' = wire /\ cur \in message_t
  BY <1>1 DEF SC!AddEntry, SC!AddFails, SC!DelEntry, SC!DelFails
<1>5. cur.adds \in Seq(add_t) /\ cur.dels \in Seq(del_t)
  BY <1>4 DEF message_t
<1>6. \A k \in Endpoint, n \in Nat, j \in Nat :
         DelOnWire(k, n, j)' <=> DelOnWire(k, n, j)
  BY <1>4 DEF DelOnWire, HasNewer
<1>7. WireAdds'
  <2>1. ASSUME NEW j \in 1..Len(wire), NEW i \in 1..Len(wire[j].adds),
               NEW x, x = wire[j].adds[i]
        PROVE  Justified(x.key, x.d_index, x.n,
                         \/ DelQueued(x.key, x.n) \/ DelBatched(x.key, x.n)
                         \/ DelOnWire(x.key, x.n, j))'
    <3>1. x.key \in Endpoint /\ x.d_index \in DIndex /\ x.n \in Nat /\ j \in Nat
      BY <1>1, <2>1, StageTypes, AddFields
    <3>2. Justified(x.key, x.d_index, x.n,
                    \/ DelQueued(x.key, x.n) \/ DelBatched(x.key, x.n)
                    \/ DelOnWire(x.key, x.n, j))
      BY <2>1 DEF PathInvBut, WireAdds
    <3> QED
      BY <1>2, <1>3, <1>6, <3>1, <3>2 DEF Justified
  <2> QED
    BY <1>4, <2>1 DEF WireAdds
<1>8. CASE SC!AddEntry \/ SC!AddFails
  <2> DEFINE e == Head(cur.adds)
  <2>1. /\ cur.adds # <<>>
        /\ cur' = [cur EXCEPT !.adds = Tail(cur.adds)]
        /\ \/ table' = table
           \/ table' = [table EXCEPT ![e.key] = [d_index |-> e.d_index, n |-> e.n]]
    BY <1>4, <1>8 DEF SC!AddEntry, SC!AddFails, message_t
  <2>2. /\ e = cur.adds[1] /\ 1 \in 1..Len(cur.adds)
        /\ Tail(cur.adds) \in Seq(add_t)
        /\ \A i \in 1..Len(Tail(cur.adds)) :
              i + 1 \in 1..Len(cur.adds) /\ Tail(cur.adds)[i] = cur.adds[i + 1]
    BY <1>5, <2>1
  <2> HIDE DEF e
  <2>3. e.key \in Endpoint /\ e.d_index \in DIndex /\ e.n \in Nat
    BY <1>1, <2>2, StageTypes, AddFields
  <2>4. cur'.adds = Tail(cur.adds) /\ cur'.dels = cur.dels /\ cur' \in message_t
    BY <1>4, <2>1, <2>2 DEF message_t
  <2>5. PathTypeOK'
    <3>1. table' \in [Endpoint -> [d_index : DIndex, n : Nat] \cup {NULL}]
      BY <1>1, <2>1, <2>3 DEF PathTypeOK
    <3> QED
      BY <1>1, <1>1b, <1>2, <1>4, <2>4, <3>1 DEF PathTypeOK
  <2>6. \A k \in Endpoint, n \in Nat : DelPending(k, n)' <=> DelPending(k, n)
    <3>1. \A k \in Endpoint, n \in Nat : DelApplying(k, n)' <=> DelApplying(k, n)
      BY <2>4 DEF DelApplying, HasNewer
    <3> QED
      BY <1>2, <1>6, <3>1 DEF DelPending
  <2>7. ApplyingAdds(old)'
    BY <1>1, <1>3, <2>2, <2>4, <2>6, StageTypes, AddFields
    DEF PathInvBut, ApplyingAdds, Justified
  <2>8. \/ Exempt(old, e.key, e.n)
        \/ Justified(e.key, e.d_index, e.n, DelPending(e.key, e.n))
    BY <2>2 DEF PathInvBut, ApplyingAdds
  <2>9. TableEntries(old)'
    <3>1. ASSUME NEW k \in Endpoint, NEW d \in DIndex, NEW n \in Nat,
                 Justified(k, d, n, DelPending(k, n))
          PROVE  Justified(k, d, n, DelPending(k, n))'
      BY <1>3, <2>6, <3>1 DEF Justified
    <3>2. ASSUME NEW k \in Endpoint, table'[k] # NULL
          PROVE  \/ table'[k] = table[k]
                 \/ k = e.key /\ table'[k].d_index = e.d_index /\ table'[k].n = e.n
      BY <1>1, <2>1, <2>3, <3>2 DEF PathTypeOK
    <3>3. ASSUME NEW k \in Endpoint, NEW d, NEW n,
                 table'[k] # NULL, d = table'[k].d_index, n = table'[k].n
          PROVE  Exempt(old, k, n) \/ Justified(k, d, n, DelPending(k, n))'
      <4>1. CASE table'[k] = table[k]
        <5>1. /\ d \in DIndex /\ n \in Nat
              /\ Exempt(old, k, n) \/ Justified(k, d, n, DelPending(k, n))
          BY <1>1, <3>3, <4>1, StageTypes DEF PathInvBut, TableEntries
        <5> QED
          BY <3>1, <5>1
      <4>2. CASE k = e.key /\ d = e.d_index /\ n = e.n
        BY <2>3, <2>8, <3>1, <4>2
      <4> QED
        BY <3>2, <3>3, <4>1, <4>2
    <3> QED
      BY <3>3 DEF TableEntries
  <2> QED
    BY <1>2, <1>7, <2>5, <2>7, <2>9 DEF PathInvBut
<1>9. CASE SC!DelEntry \/ SC!DelFails
  <2> DEFINE h == Head(cur.dels)
  <2>1. /\ cur.adds = <<>> /\ cur.dels # <<>>
        /\ cur' = [cur EXCEPT !.dels = Tail(cur.dels)]
        /\ \/ table' = [table EXCEPT ![h.key] = NULL]
           \/ table' = table /\ h.key \in failed'
    BY <1>4, <1>9 DEF SC!DelEntry, SC!DelFails, message_t
  <2>2. /\ h = cur.dels[1] /\ h \in del_t
        /\ Tail(cur.dels) \in Seq(del_t)
        /\ \A i \in 1..Len(cur.dels) :
              \/ cur.dels[i] = h
              \/ i - 1 \in 1..Len(Tail(cur.dels)) /\ Tail(cur.dels)[i - 1] = cur.dels[i]
    BY <1>5, <2>1
  <2> HIDE DEF h
  <2>3. h.key \in Endpoint
    BY <2>2 DEF del_t
  <2>4. cur'.adds = <<>> /\ cur'.dels = Tail(cur.dels) /\ cur' \in message_t
    BY <1>4, <2>1, <2>2 DEF message_t
  <2>5. PathTypeOK'
    <3>1. table' \in [Endpoint -> [d_index : DIndex, n : Nat] \cup {NULL}]
      BY <1>1, <2>1 DEF PathTypeOK
    <3> QED
      BY <1>1, <1>1b, <1>2, <1>4, <2>4, <3>1 DEF PathTypeOK
  <2>6. \A k \in Endpoint \ {h.key}, n \in Nat : DelPending(k, n) => DelPending(k, n)'
    <3>1. \A k \in Endpoint \ {h.key}, n \in Nat : DelApplying(k, n) => DelApplying(k, n)'
      <4>1. ASSUME NEW k \in Endpoint \ {h.key}, NEW n \in Nat,
                   NEW i \in 1..Len(cur.dels), cur.dels[i].key = k, cur.dels[i].n > n
            PROVE  DelApplying(k, n)'
        <5>1. i - 1 \in 1..Len(cur'.dels) /\ cur'.dels[i - 1] = cur.dels[i]
          BY <2>2, <2>4, <4>1
        <5> QED
          BY <4>1, <5>1 DEF DelApplying, HasNewer
      <4> QED
        BY <4>1 DEF DelApplying, HasNewer
    <3> QED
      BY <1>2, <1>6, <3>1 DEF DelPending
  <2>7. ApplyingAdds(old)'
    BY <2>4 DEF ApplyingAdds
  <2>8. TableEntries(old)'
    <3>1. ASSUME NEW k \in Endpoint, table'[k] # NULL
          PROVE  /\ k # h.key \/ ~Trusted(k)'
                 /\ table'[k] = table[k]
      BY <1>1, <2>1, <2>3, <3>1 DEF PathTypeOK, Trusted
    <3> QED
      BY <1>1, <1>3, <2>6, <3>1, StageTypes DEF PathInvBut, TableEntries, Justified
  <2> QED
    BY <1>2, <1>7, <2>5, <2>7, <2>8 DEF PathInvBut
<1> QED
  BY <1>8, <1>9

-----------------------------------------------------------------------------
(* The theorems.                                                           *)

\* Every step of the composed system keeps the invariant.
LEMMA NextPathInvBut ==
    ASSUME NEW old, PathInvBut(old), [PathNext]_pathvars
    PROVE  PathInvBut(old)'
<1>1. CASE \E w \in Worker, p \in Packet : Arrive(w, p)
  BY <1>1, WorkerPathInv DEF Arrive, Next
<1>2. CASE \E w \in Worker : Work(w)
  BY <1>2, WorkerPathInv DEF Work, Next
<1>3. CASE \E u \in Url : Learn(u)
  BY <1>3, WorkerPathInv DEF Learn, Next
<1>4. CASE Batch
  <2>1. CASE EC!Timer \/ EC!AddsTaken
    BY <1>4, <2>1, TimerPathInv DEF Batch
  <2>2. CASE EC!Flush
    BY <1>4, <2>2, FlushPathInv DEF Batch
  <2>3. CASE \E w \in Worker : EC!TakeAdds(w)
    BY <1>4, <2>3, TakeAddsPathInv DEF Batch
  <2>4. CASE \E w \in Worker : EC!TakeDels(w)
    BY <1>4, <2>4, TakeDelsPathInv DEF Batch
  <2> QED
    BY <1>4, <2>1, <2>2, <2>3, <2>4 DEF Batch, EC!Next
<1>5. CASE Apply
  BY <1>5, RecvPathInv, DropPathInv, EntryPathInv DEF Apply, SC!Next
<1>6. CASE UNCHANGED pathvars
  <2>1. UNCHANGED <<vars, ecvars, wire, scvars>>
    BY <1>6 DEF pathvars
  <2>2. UNCHANGED <<workervars, queues, add_pairs, del_keys, pc, todo, room,
                    overtaken, wire, scvars>>
    BY <2>1 DEF vars, workervars, memory, queues, ecvars
  <2>3. /\ MemInv' /\ TypeOK'
        /\ QueuedAdds' /\ BatchedAdds' /\ WireAdds'
        /\ ApplyingAdds(old)' /\ TableEntries(old)'
    BY <2>2, IdleStep
  <2>4. PathTypeOK' /\ OneBatch'
    BY <2>2, <2>3 DEF PathInvBut, PathTypeOK, OneBatch, scvars
  <2> QED
    BY <2>3, <2>4 DEF PathInvBut
<1> QED
  BY <1>1, <1>2, <1>3, <1>4, <1>5, <1>6 DEF PathNext

\* Commands go on alternating, whoever takes the step.
LEMMA PathAlternates ==
    ASSUME IInv, [PathNext]_pathvars
    PROVE  CommandsAlternate'
<1>1. CASE [Next]_vars
  BY <1>1, NextIInv DEF IInv
<1>2. CASE UNCHANGED workervars
  BY <1>2, QuietAlternate DEF IInv, workervars
<1> QED
  BY <1>1, <1>2 DEF PathNext, Arrive, Work, Learn, Batch, Apply, Next, pathvars

\* Every step keeps the invariant.
LEMMA NextPathInv ==
    ASSUME PathInv, [PathNext]_pathvars
    PROVE  PathInv'
<1>1. PathInvBut({}) /\ IInv
  BY DEF PathInv, PathInvBut, IInv
<1>2. PathInvBut({})'
  BY <1>1, NextPathInvBut
<1> QED
  BY <1>1, <1>2, PathAlternates DEF PathInv

\* The invariant holds throughout: every add on its way to the switch is the
\* latest word on its flow, or a newer del travels behind it.
THEOREM PathInvariant == PathSpec => []PathInv
<1>1. PathInit => PathInv
  BY InitPathInv
<1>2. PathInv /\ [PathNext]_pathvars => PathInv'
  BY NextPathInv
<1> QED
  BY <1>1, <1>2, PTL DEF PathSpec

\* No entry of the switch's offload table is orphaned: it is the one its flow
\* asked for last, or a del issued after it is on its way, unless a del of
\* its key was drained ahead of an older add, a case of its flow has run in
\* parts, or a command of its key was lost to an error of the driver.
THEOREM EntriesJustified == PathSpec => []EntryJustified
<1>1. PathInv => EntryJustified
  <2>1. ASSUME PathTypeOK, TableEntries({}) PROVE EntryJustified
    BY <2>1, StageTypes DEF TableEntries, Exempt, EntryJustified, Justified
  <2> QED
    BY <2>1 DEF PathInv, PathInvBut
<1> QED
  BY <1>1, PathInvariant, PTL

\* All that get_offloaded_entries drains goes out in the same message.
THEOREM BatchesComplete == PathSpec => []OneBatch
<1>1. PathInv => OneBatch
  BY DEF PathInv, PathInvBut
<1> QED
  BY <1>1, PathInvariant, PTL

\* A packet the switch forwards by itself leaves it as it would leave the
\* Frontend, while no del is on its way.
THEOREM BypassCorrect == PathSpec => []BypassEquivalent
<1>1. ASSUME PathInv PROVE BypassEquivalent
  <2>1. PathTypeOK /\ TableEntries({})
    BY <1>1 DEF PathInv, PathInvBut
  <2>2. ASSUME NEW p \in Packet, NEW k, k = client(p),
               ToBackend(p, table) \/ ToClient(p, table),
               Trusted(k), ~DelPending(k, table[k].n)
        PROVE  /\ Offloaded(k)
               /\ Header(Egress(p, table).src, Egress(p, table).dst,
                         Egress(p, table).flags, Egress(p, table).url) =
                     IF direction(p) = "inbound"
                     THEN forward_inbound_pkt(FlowOf(k).entry_data.d_index, p)
                     ELSE forward_outbound_pkt(p)
    <3>1. p \in packet_t /\ p.src \in Endpoint /\ p.dst \in Endpoint
      BY PacketAssumption DEF packet_t
    <3>2. k \in Endpoint
      BY <2>2, <3>1 DEF client
    <3>3. table[k] # NULL
      BY <2>2 DEF ToBackend, ToClient, ToFrontend, SynRespond, oft_hit, direction
    <3>4. Current(k, table[k].d_index, table[k].n)
      BY <2>1, <2>2, <3>2, <3>3 DEF TableEntries, Exempt, Justified
    <3>5. Offloaded(k) /\ FlowOf(k).entry_data.d_index = table[k].d_index
      BY <3>4 DEF Current
    <3>6. CASE direction(p) = "inbound"
      <4>1. ~SynRespond(p) /\ ToBackend(p, table) /\ k = p.src
        BY <2>2, <3>6 DEF ToBackend, ToClient, client
      <4>2. Egress(p, table) = [p EXCEPT !.dst = table[p.src].d_index]
        BY <4>1 DEF Egress
      <4>3. /\ Egress(p, table).src = p.src /\ Egress(p, table).flags = p.flags
            /\ Egress(p, table).dst = table[k].d_index /\ Egress(p, table).url = p.url
        BY <3>1, <4>1, <4>2 DEF packet_t
      <4> QED
        BY <3>5, <3>6, <4>3 DEF Header, forward_inbound_pkt
    <3>7. CASE direction(p) # "inbound"
      <4>1. ~SynRespond(p) /\ ~ToBackend(p, table) /\ ToClient(p, table)
        BY <2>2, <3>7 DEF ToBackend, SynRespond
      <4>2. Egress(p, table) = [p EXCEPT !.src = VIP]
        BY <4>1 DEF Egress
      <4>3. /\ Egress(p, table).src = VIP /\ Egress(p, table).flags = p.flags
            /\ Egress(p, table).dst = p.dst /\ Egress(p, table).url = p.url
        BY <3>1, <4>2 DEF packet_t
      <4> QED
        BY <3>5, <3>7, <4>3 DEF Header, forward_outbound_pkt
    <3> QED
      BY <3>6, <3>7
  <2> QED
    BY <2>2 DEF BypassEquivalent
<1> QED
  BY <1>1, PathInvariant, PTL

-----------------------------------------------------------------------------
(* The control path implements OffloadTable.  PathInv does not say which   *)
(* numbers the commands on their way carry, and the refinement needs it:   *)
(* an add that is the latest command is the wanted one only if no pending  *)
(* del is newer than every command, and an entry is removed only for a key *)
(* that was taken back before.                                             *)

InSeq(x, s) == \E i \in 1..Len(s) : s[i] = x

\* The command is somewhere between a worker and the table.
DelIn(x) ==
    \/ \E w \in Worker : InSeq(x, del_queue[w])
    \/ InSeq(x, del_keys)
    \/ \E j \in 1..Len(wire) : InSeq(x, wire[j].dels)
    \/ InSeq(x, cur.dels)

AddIn(x) ==
    \/ \E w \in Worker : InSeq(x, add_queue[w])
    \/ InSeq(x, add_pairs)
    \/ \E j \in 1..Len(wire) : InSeq(x, wire[j].adds)
    \/ InSeq(x, cur.adds)

\* An add has a number, and a del is not newer than the latest command of its
\* key and, unless a case of the flow has run in parts, at least the second.
Numbered ==
    Clean =>
        /\ \A x : AddIn(x) => x.n >= 1
        /\ \A x : DelIn(x) => /\ x.n <= cmd[x.key]
                              /\ x.n >= 2 \/ x.key \in mingled

RefineInv == PathInv /\ Numbered

\* The elements of parts and joins of sequences.
LEMMA InParts ==
    ASSUME NEW S, NEW s \in Seq(S), NEW m \in Nat, m <= Len(s), NEW x
    PROVE  /\ InSeq(x, SubSeq(s, 1, m)) => InSeq(x, s)
           /\ InSeq(x, SubSeq(s, m + 1, Len(s))) => InSeq(x, s)
<1>1. InSeq(x, SubSeq(s, 1, m)) => InSeq(x, s)
  BY TakeFirst DEF InSeq
<1>2. InSeq(x, SubSeq(s, m + 1, Len(s))) => InSeq(x, s)
  <2>1. /\ Len(SubSeq(s, m + 1, Len(s))) = Len(s) - m
        /\ \A i \in 1..(Len(s) - m) :
              i + m \in 1..Len(s) /\ SubSeq(s, m + 1, Len(s))[i] = s[i + m]
    BY DropFirst
  <2> QED
    BY <2>1 DEF InSeq
<1> QED
  BY <1>1, <1>2

LEMMA InJoin ==
    ASSUME NEW S, NEW s \in Seq(S), NEW t \in Seq(S), NEW x
    PROVE  InSeq(x, s \o t) => InSeq(x, s) \/ InSeq(x, t)
BY Joined DEF InSeq

LEMMA InAppend ==
    ASSUME NEW S, NEW s \in Seq(S), NEW y \in S, NEW x
    PROVE  InSeq(x, Append(s, y)) => InSeq(x, s) \/ x = y
BY DEF InSeq

LEMMA InTail ==
    ASSUME NEW S, NEW s \in Seq(S), s # <<>>, NEW x
    PROVE  /\ InSeq(x, Tail(s)) => InSeq(x, s)
           /\ InSeq(Head(s), s)
           /\ \A i \in 1..Len(Tail(s)) : i + 1 \in 1..Len(s) /\ Tail(s)[i] = s[i + 1]
BY DEF InSeq

\* Draining a producer's queue into a buffer brings no new command.
LEMMA TakeBringsNone ==
    ASSUME PathTypeOK, NEW w \in Worker, EC!TakeAdds(w) \/ EC!TakeDels(w),
           UNCHANGED <<workervars, scvars>>, NEW x
    PROVE  (AddIn(x)' => AddIn(x)) /\ (DelIn(x)' => DelIn(x))
<1>0. /\ add_queue \in [Worker -> Seq(add_t)] /\ del_queue \in [Worker -> Seq(del_t)]
      /\ add_pairs \in Seq(add_t) /\ del_keys \in Seq(del_t) /\ room \in Nat
  BY BatchAssumption DEF PathTypeOK, TypeOK
<1>1. CASE EC!TakeAdds(w)
  <2> DEFINE q == add_queue[w]
             m == EC!Min(Len(q), room)
  <2>1. q \in Seq(add_t) /\ m \in Nat /\ m <= Len(q)
    BY <1>0 DEF EC!Min
  <2>2. /\ add_pairs' = add_pairs \o SubSeq(q, 1, m)
        /\ add_queue' = [add_queue EXCEPT ![w] = SubSeq(q, m + 1, Len(q))]
        /\ UNCHANGED <<del_queue, del_keys, wire, cur>>
    BY <1>0, <1>1 DEF EC!TakeAdds, scvars
  <2> HIDE DEF m, q
  <2>3. PICK taken \in Seq(add_t) :
           add_pairs' = add_pairs \o taken /\ (InSeq(x, taken) => InSeq(x, q))
    BY <2>1, <2>2, TakeFirst, InParts
  <2>4. InSeq(x, add_pairs') => InSeq(x, add_pairs) \/ InSeq(x, q)
    BY <1>0, <2>3, InJoin
  <2>5. \A v \in Worker : InSeq(x, add_queue'[v]) => InSeq(x, add_queue[v])
    BY <1>0, <2>1, <2>2, InParts DEF q
  <2> QED
    BY <2>2, <2>4, <2>5 DEF AddIn, DelIn, q
<1>2. CASE EC!TakeDels(w)
  <2> DEFINE q == del_queue[w]
             m == EC!Min(Len(q), room)
  <2>1. q \in Seq(del_t) /\ m \in Nat /\ m <= Len(q)
    BY <1>0 DEF EC!Min
  <2>2. /\ del_keys' = del_keys \o SubSeq(q, 1, m)
        /\ del_queue' = [del_queue EXCEPT ![w] = SubSeq(q, m + 1, Len(q))]
        /\ UNCHANGED <<add_queue, add_pairs, wire, cur>>
    BY <1>0, <1>2 DEF EC!TakeDels, scvars
  <2> HIDE DEF m, q
  <2>3. PICK taken \in Seq(del_t) :
           del_keys' = del_keys \o taken /\ (InSeq(x, taken) => InSeq(x, q))
    BY <2>1, <2>2, TakeFirst, InParts
  <2>4. InSeq(x, del_keys') => InSeq(x, del_keys) \/ InSeq(x, q)
    BY <1>0, <2>3, InJoin
  <2>5. \A v \in Worker : InSeq(x, del_queue'[v]) => InSeq(x, del_queue[v])
    BY <1>0, <2>1, <2>2, InParts DEF q
  <2> QED
    BY <2>2, <2>4, <2>5 DEF AddIn, DelIn, q
<1> QED
  BY <1>1, <1>2

\* Nor does sending a batch.
LEMMA FlushBringsNone ==
    ASSUME PathTypeOK, EC!Flush, UNCHANGED <<workervars, scvars>>, NEW x
    PROVE  (AddIn(x)' => AddIn(x)) /\ (DelIn(x)' => DelIn(x))
<1> DEFINE a == EC!Min(Len(add_pairs), BATCH_SIZE)
           d == EC!Min(Len(del_keys), BATCH_SIZE)
           msg == [adds |-> SubSeq(add_pairs, 1, a), dels |-> SubSeq(del_keys, 1, d)]
<1>1. add_pairs \in Seq(add_t) /\ del_keys \in Seq(del_t) /\ wire \in Seq(message_t)
  BY DEF PathTypeOK
<1>2. /\ a \in Nat /\ a <= Len(add_pairs)
      /\ d \in Nat /\ d <= Len(del_keys)
  BY <1>1, BatchAssumption DEF EC!Min
<1>3. /\ wire' = wire \/ wire' = Append(wire, msg)
      /\ add_pairs' = SubSeq(add_pairs, a + 1, Len(add_pairs))
      /\ del_keys' = SubSeq(del_keys, d + 1, Len(del_keys))
      /\ UNCHANGED <<add_queue, del_queue, cur>>
  BY DEF EC!Flush, scvars
<1> HIDE DEF a, d
<1>4. /\ InSeq(x, add_pairs') => InSeq(x, add_pairs)
      /\ InSeq(x, del_keys') => InSeq(x, del_keys)
      /\ InSeq(x, msg.adds) => InSeq(x, add_pairs)
      /\ InSeq(x, msg.dels) => InSeq(x, del_keys)
  BY <1>1, <1>2, <1>3, InParts
<1>5. msg \in message_t
  BY <1>1, <1>2, TakeFirst DEF message_t
<1> HIDE DEF msg
<1>6. \A j \in 1..Len(wire') :
         \/ wire'[j] = msg
         \/ j \in 1..Len(wire) /\ wire'[j] = wire[j]
  BY <1>1, <1>3, <1>5
<1> QED
  BY <1>3, <1>4, <1>6 DEF AddIn, DelIn

\* Nor does the controller when it receives a message or applies an entry.
LEMMA ApplyBringsNone ==
    ASSUME PathTypeOK, SC!Next, UNCHANGED <<workervars, queues, ecvars>>, NEW x
    PROVE  (AddIn(x)' => AddIn(x)) /\ (DelIn(x)' => DelIn(x))
<1>1. UNCHANGED <<add_queue, del_queue, add_pairs, del_keys>>
  BY DEF queues, ecvars
<1>2. /\ wire \in Seq(message_t) /\ cur \in message_t
      /\ cur.adds \in Seq(add_t) /\ cur.dels \in Seq(del_t)
  BY DEF PathTypeOK, message_t
<1>3. CASE SC!Recv
  <2>1. wire # <<>> /\ cur' = wire[1] /\ wire' = Tail(wire) /\ 1 \in 1..Len(wire)
    BY <1>2, <1>3 DEF SC!Recv
  <2>2. \A j \in 1..Len(wire') : j + 1 \in 1..Len(wire) /\ wire'[j] = wire[j + 1]
    BY <1>2, <2>1, InTail
  <2> QED
    BY <1>1, <2>1, <2>2 DEF AddIn, DelIn
<1>4. CASE SC!AddEntry \/ SC!AddFails
  <2>1. cur.adds # <<>> /\ cur'.adds = Tail(cur.adds) /\ cur'.dels = cur.dels
        /\ wire' = wire
    BY <1>2, <1>4 DEF SC!AddEntry, SC!AddFails, message_t
  <2> QED
    BY <1>1, <1>2, <2>1, InTail DEF AddIn, DelIn
<1>5. CASE SC!DelEntry \/ SC!DelFails
  <2>1. cur.dels # <<>> /\ cur'.dels = Tail(cur.dels) /\ cur'.adds = cur.adds
        /\ wire' = wire
    BY <1>2, <1>5 DEF SC!DelEntry, SC!DelFails, message_t
  <2> QED
    BY <1>1, <1>2, <2>1, InTail DEF AddIn, DelIn
<1>6. CASE SC!BatchFails
  <2>1. PICK m \in 1..Len(wire) : wire' = SubSeq(wire, m + 1, Len(wire))
    BY <1>6 DEF SC!BatchFails
  <2>2. m \in Nat /\ m <= Len(wire) /\ cur' = cur
    BY <1>2, <1>6 DEF SC!BatchFails
  <2>3. \A j \in 1..Len(wire') : j + m \in 1..Len(wire) /\ wire'[j] = wire[j + m]
    BY <1>2, <2>1, <2>2, DropFirst
  <2> QED
    BY <1>1, <2>2, <2>3 DEF AddIn, DelIn
<1> QED
  BY <1>3, <1>4, <1>5, <1>6 DEF SC!Next

\* What is pending as a del is a del.
LEMMA DelType ==
    ASSUME PathTypeOK, NEW x, DelIn(x)
    PROVE  x \in del_t /\ x.n \in Nat /\ x.key \in Endpoint
<1>1. /\ del_queue \in [Worker -> Seq(del_t)] /\ del_keys \in Seq(del_t)
      /\ wire \in Seq(message_t) /\ cur.dels \in Seq(del_t)
  BY DEF PathTypeOK, TypeOK, message_t
<1>2. ASSUME NEW j \in 1..Len(wire) PROVE wire[j].dels \in Seq(del_t)
  <2>1. wire[j] \in message_t
    BY <1>1
  <2> QED
    BY <2>1 DEF message_t
<1>3. ASSUME NEW s \in Seq(del_t), InSeq(x, s) PROVE x \in del_t
  BY <1>3 DEF InSeq
<1>4. x \in del_t
  BY <1>1, <1>2, <1>3 DEF DelIn
<1> QED
  BY <1>4 DEF del_t

\* A command that was not there before has the number of a command its key
\* had not seen.
LEMMA WorkNumbers ==
    ASSUME PathInv, Numbered, Clean, NEW w \in Worker, CommandMatchesFlow(w),
           mingled \subseteq mingled', UNCHANGED <<ecvars, wire, scvars>>
    PROVE  Numbered'
<1>1. /\ add_queue \in [Worker -> Seq(add_t)] /\ del_queue \in [Worker -> Seq(del_t)]
      /\ cmd \in [Endpoint -> Nat] /\ CommandsAlternate
  BY DEF PathInv, PathInvBut, IInv, MemInv, TypeOK
<1>2. UNCHANGED <<add_pairs, del_keys, wire, cur>>
  BY DEF ecvars, scvars
<1>3. CASE NoCommand
  BY <1>2, <1>3 DEF NoCommand, Numbered, AddIn, DelIn
<1>4. ASSUME NEW k \in Endpoint, NEW d \in DIndex, EnqueueAdd(w, k, d)
      PROVE  Numbered'
  <2> DEFINE y == [key |-> k, d_index |-> d, n |-> cmd[k] + 1]
  <2>1. /\ add_queue' = [add_queue EXCEPT ![w] = Append(add_queue[w], y)]
        /\ del_queue' = del_queue
    BY <1>1, <1>4 DEF EnqueueAdd
  <2>2. y \in add_t /\ y.n >= 1
    BY <1>1 DEF add_t
  <2> HIDE DEF y
  <2>3. \A v \in Worker : \A x : InSeq(x, add_queue'[v]) => InSeq(x, add_queue[v]) \/ x = y
    BY <1>1, <2>1, <2>2, InAppend
  <2>4. \A x : AddIn(x)' => AddIn(x) \/ x = y
    BY <1>2, <2>3 DEF AddIn
  <2>5. \A x : DelIn(x)' => DelIn(x)
    BY <1>2, <2>1 DEF DelIn
  <2>6. \A l : cmd[l] = cmd'[l] \/ (l = k /\ cmd[k] \in Nat /\ cmd'[l] = cmd[l] + 1)
    BY <1>1, <1>4 DEF EnqueueAdd
  <2>7. \A x : DelIn(x) => x.n \in Nat
    BY DelType DEF PathInv, PathInvBut
  <2> QED
    BY <2>2, <2>4, <2>5, <2>6, <2>7 DEF Numbered
<1>5. ASSUME NEW k \in Endpoint, EnqueueDel(w, k), Offloaded(k) \/ k \in mingled'
      PROVE  Numbered'
  <2> DEFINE y == [key |-> k, n |-> cmd[k] + 1]
  <2>1. /\ del_queue' = [del_queue EXCEPT ![w] = Append(del_queue[w], y)]
        /\ add_queue' = add_queue
        /\ cmd' = [cmd EXCEPT ![k] = cmd[k] + 1]
    BY <1>1, <1>5 DEF EnqueueDel
  <2>2. cmd[k] \in Nat /\ (cmd[k] % 2 = 1 \/ k \in mingled')
    BY <1>1, <1>5 DEF CommandsAlternate
  <2>3. cmd[k] >= 1 \/ k \in mingled'
    BY <2>2
  <2>4. y \in del_t /\ (y.n >= 2 \/ y.key \in mingled') /\ y.n <= cmd'[y.key]
    BY <1>1, <2>1, <2>2, <2>3 DEF del_t
  <2> HIDE DEF y
  <2>5. \A v \in Worker : \A x : InSeq(x, del_queue'[v]) => InSeq(x, del_queue[v]) \/ x = y
    BY <1>1, <2>1, <2>4, InAppend
  <2>6. \A x : DelIn(x)' => DelIn(x) \/ x = y
    BY <1>2, <2>5 DEF DelIn
  <2>7. \A x : AddIn(x)' => AddIn(x)
    BY <1>2, <2>1 DEF AddIn
  <2>8. \A l : cmd[l] = cmd'[l] \/ (l = k /\ cmd[k] \in Nat /\ cmd'[l] = cmd[l] + 1)
    BY <1>1, <2>1
  <2>9. \A x : DelIn(x) => x.n \in Nat
    BY DelType DEF PathInv, PathInvBut
  <2> QED
    BY <2>4, <2>6, <2>7, <2>8, <2>9 DEF Numbered
<1> QED
  BY <1>3, <1>4, <1>5 DEF CommandMatchesFlow, MingledCommand

\* Every step of the path keeps the numbers of the commands on their way.
LEMMA NextRefineInv ==
    ASSUME RefineInv, [PathNext]_pathvars
    PROVE  RefineInv'
<1>1. PathInv' /\ PathInv /\ PathTypeOK /\ IInv
  BY NextPathInv DEF RefineInv, PathInv, PathInvBut, IInv
<1>2. ASSUME Clean' => Clean, UNCHANGED <<cmd, mingled>>,
             \A x : (AddIn(x)' => AddIn(x)) /\ (DelIn(x)' => DelIn(x))
      PROVE  Numbered'
  BY <1>2 DEF RefineInv, Numbered
<1>3. ASSUME UNCHANGED workervars
      PROVE  (Clean' => Clean) /\ UNCHANGED <<cmd, mingled>>
  BY <1>3 DEF workervars, memory, Clean
<1>4. CASE \E w \in Worker : Work(w)
  <2>1. PICK w \in Worker : Work(w)
    BY <1>4
  <2>2. Run(w) /\ UNCHANGED <<ecvars, wire, scvars>>
    BY <2>1 DEF Work
  <2>3. CASE ~Clean'
    BY <1>1, <2>3 DEF RefineInv, Numbered
  <2>4. CASE Clean'
    <3>1. Clean
      BY <2>2, <2>4, CleanBackwards DEF Next
    <3>2. CommandMatchesFlow(w) /\ mingled \subseteq mingled'
      BY <1>1, <2>2, <2>4, <3>1, RunSafe, WorkerEffect DEF IInv, MemInv
    <3> QED
      BY <1>1, <2>2, <3>1, <3>2, WorkNumbers DEF RefineInv
  <2> QED
    BY <2>3, <2>4
<1>5. CASE \/ \E w \in Worker, p \in Packet : Arrive(w, p)
           \/ \E u \in Url : Learn(u)
  <2>1. UNCHANGED <<memory, queues, cmd, ecvars, wire, scvars>>
    BY <1>5 DEF Arrive, Learn, Rx, UpdateRule
  <2>2. /\ Clean' => Clean
        /\ UNCHANGED <<cmd, mingled, add_queue, del_queue, add_pairs, del_keys, wire,
                       cur>>
    BY <2>1 DEF memory, Clean, queues, ecvars, scvars
  <2>3. \A x : (AddIn(x)' => AddIn(x)) /\ (DelIn(x)' => DelIn(x))
    BY <2>2 DEF AddIn, DelIn
  <2> QED
    BY <1>1, <1>2, <2>2, <2>3 DEF RefineInv
<1>6. CASE Batch
  <2>1. UNCHANGED <<workervars, scvars>> /\ EC!Next
    BY <1>6 DEF Batch
  <2>2. CASE EC!Timer \/ EC!AddsTaken
    <3>1. UNCHANGED <<add_queue, del_queue, add_pairs, del_keys, wire, cur>>
      BY <2>1, <2>2 DEF EC!Timer, EC!AddsTaken, scvars
    <3>2. \A x : (AddIn(x)' => AddIn(x)) /\ (DelIn(x)' => DelIn(x))
      BY <3>1 DEF AddIn, DelIn
    <3> QED
      BY <1>1, <1>2, <1>3, <2>1, <3>2 DEF RefineInv
  <2>3. CASE EC!Flush
    BY <1>1, <1>2, <1>3, <2>1, <2>3, FlushBringsNone DEF RefineInv
  <2>4. ASSUME NEW w \in Worker, EC!TakeAdds(w) \/ EC!TakeDels(w)
        PROVE  RefineInv'
    BY <1>1, <1>2, <1>3, <2>1, <2>4, TakeBringsNone DEF RefineInv
  <2> QED
    BY <2>1, <2>2, <2>3, <2>4 DEF EC!Next
<1>7. CASE Apply
  BY <1>1, <1>2, <1>3, <1>7, ApplyBringsNone DEF Apply, RefineInv
<1>8. CASE UNCHANGED pathvars
  <2>1. UNCHANGED <<aborted, raced, mingled, cmd, add_queue, del_queue, add_pairs,
                    del_keys, wire, cur>>
    BY <1>8 DEF pathvars, vars, ecvars, scvars
  <2>2. (Clean' => Clean) /\ \A x : (AddIn(x)' => AddIn(x)) /\ (DelIn(x)' => DelIn(x))
    BY <2>1 DEF Clean, AddIn, DelIn
  <2> QED
    BY <1>1, <1>2, <2>1, <2>2 DEF RefineInv
<1> QED
  BY <1>4, <1>5, <1>6, <1>7, <1>8 DEF PathNext

-----------------------------------------------------------------------------
(* The steps, one after the other.                                         *)

\* trusted and want of OffloadTable, seen through the mapping.
LEMMA Mapping ==
    /\ \A k \in Endpoint : [l \in Endpoint |-> Wanted(l)][k] = Wanted(k)
    /\ \A k \in Endpoint : [l \in Endpoint |-> Wanted(l)'][k] = Wanted(k)'
    /\ VIP \in Endpoint
BY DEF Endpoint

\* To show an OffloadTable step it is enough to say which connection moves.
LEMMA TableStep ==
    ASSUME \A l \in Endpoint : Trusted(l)' => Trusted(l),
           NEW k \in Endpoint,
           \/ ~Trusted(k)'
           \/ \E d \in DIndex : OT!Ask(k, d) \/ OT!Install(k, d)
           \/ OT!TakeBack(k) \/ OT!Remove(k) \/ OT!Same(k),
           \A l \in Endpoint \ {k} : Trusted(l)' => OT!Same(l)
    PROVE  OT!Next
BY DEF OT!Next

\* A connection whose flow, command count and entry stay is a stutter.
LEMMA SameStep ==
    ASSUME NEW l \in Endpoint, Wanted(l)' = Wanted(l), cmd'[l] = cmd[l],
           table'[l] = table[l]
    PROVE  OT!Same(l)
BY Mapping DEF OT!Same

\* Trust is only ever lost.
LEMMA TrustShrinks ==
    ASSUME MemInv, [PathNext]_pathvars
    PROVE  \A l \in Endpoint : Trusted(l)' => Trusted(l)
<1>1. Clean' => Clean
  <2>1. CASE Batch \/ Apply
    BY <2>1 DEF Batch, Apply, workervars, memory, Clean
  <2>2. CASE UNCHANGED pathvars
    BY <2>2 DEF pathvars, vars, Clean
  <2>3. CASE Next
    BY <2>3, CleanBackwards
  <2> QED
    BY <2>1, <2>2, <2>3 DEF PathNext, Arrive, Work, Learn, Next
<1>2. overtaken \subseteq overtaken'
  <2>1. CASE Batch
    <3>1. CASE EC!Timer \/ EC!AddsTaken \/ EC!Flush \/ \E w \in Worker : EC!TakeAdds(w)
      BY <3>1 DEF EC!Timer, EC!AddsTaken, EC!Flush, EC!TakeAdds
    <3>2. CASE \E w \in Worker : EC!TakeDels(w)
      BY <3>2 DEF EC!TakeDels
    <3> QED
      BY <2>1, <3>1, <3>2 DEF Batch, EC!Next
  <2>2. CASE UNCHANGED ecvars
    BY <2>2 DEF ecvars
  <2> QED
    BY <2>1, <2>2 DEF PathNext, Arrive, Work, Learn, Apply, pathvars
<1>3. mingled \subseteq mingled'
  <2>1. CASE Batch \/ Apply
    BY <2>1 DEF Batch, Apply, workervars, memory
  <2>2. CASE [Next]_vars
    BY <2>2, MingledGrows DEF MemInv
  <2> QED
    BY <2>1, <2>2 DEF PathNext, Arrive, Work, Learn, Next, pathvars
<1>4. failed \subseteq failed'
  <2>1. CASE Apply
    BY <2>1 DEF Apply, SC!Next, SC!Recv, SC!BatchFails, SC!AddEntry, SC!AddFails,
                SC!DelEntry, SC!DelFails
  <2>2. CASE UNCHANGED scvars
    BY <2>2 DEF scvars
  <2> QED
    BY <2>1, <2>2 DEF PathNext, Arrive, Work, Learn, Batch, pathvars
<1> QED
  BY <1>1, <1>2, <1>3, <1>4 DEF Trusted

\* A worker asks for an entry, takes one back, or does neither.
LEMMA WorkRefines ==
    ASSUME RefineInv, NEW w \in Worker, Work(w)
    PROVE  OT!Next
<1>1. \A l \in Endpoint : Trusted(l)' => Trusted(l)
  BY TrustShrinks DEF PathNext, RefineInv, PathInv, PathInvBut
<1>2. CASE ~Clean'
  BY <1>1, <1>2, TableStep, Mapping DEF Trusted
<1>3. CASE Clean'
  <2>1. IInv /\ Run(w) /\ UNCHANGED table /\ cmd \in [Endpoint -> Nat]
    BY DEF RefineInv, PathInv, PathInvBut, Work, scvars, IInv, MemInv, TypeOK
  <2>2. Clean
    BY <1>3, <2>1, CleanBackwards DEF Next
  <2>3. CommandMatchesFlow(w)
    BY <1>3, <2>1, <2>2, RunSafe DEF IInv, MemInv
  <2>4. ASSUME NEW l \in Endpoint, SameOffload(l) PROVE Wanted(l)' = Wanted(l)
    BY <2>4 DEF SameOffload, Wanted
  <2>5. CASE NoCommand /\ \A l \in Endpoint : SameOffload(l)
    <3>1. \A l \in Endpoint : OT!Same(l)
      BY <2>1, <2>4, <2>5, SameStep DEF NoCommand
    <3> QED
      BY <1>1, <3>1, TableStep, Mapping
  <2>6. ASSUME NEW k \in Endpoint, NEW d \in DIndex, EnqueueAdd(w, k, d),
               ~Offloaded(k), Offloaded(k)', FlowOf(k)'.entry_data.d_index = d,
               \A l \in Endpoint \ {k} : SameOffload(l)
        PROVE  OT!Next
    <3>1. cmd' = [cmd EXCEPT ![k] = @ + 1]
      BY <2>6 DEF EnqueueAdd
    <3>2. \A l \in Endpoint \ {k} : OT!Same(l)
      BY <2>1, <2>4, <2>6, <3>1, SameStep
    <3>3. Wanted(k) = NULL /\ Wanted(k)' = d
      BY <2>6 DEF Wanted
    <3>4. OT!Ask(k, d)
      BY <2>1, <3>1, <3>3, Mapping DEF OT!Ask
    <3> QED
      BY <1>1, <3>2, <3>4, TableStep
  <2>7. ASSUME NEW k \in Endpoint, EnqueueDel(w, k), Offloaded(k), ~Offloaded(k)',
               \A l \in Endpoint \ {k} : SameOffload(l)
        PROVE  OT!Next
    <3>1. cmd' = [cmd EXCEPT ![k] = @ + 1]
      BY <2>7 DEF EnqueueDel
    <3>2. \A l \in Endpoint \ {k} : OT!Same(l)
      BY <2>1, <2>4, <2>7, <3>1, SameStep
    <3>3. FlowOf(k).entry_data.d_index # NULL
      <4>1. flow_hash_map[k] \in Addr /\ heap[flow_hash_map[k]] \in flow_data_t
        BY <2>1, <2>7 DEF IInv, MemInv, TypeOK, Offloaded, Mapped
      <4>2. FlowOf(k).entry_data \in my_data_t
        BY <2>1, <2>7, <4>1
        DEF IInv, MemInv, FlowsFilledIn, Offloaded, FlowOf, flow_data_t
      <4> QED
        BY <4>2, NullAssumption DEF my_data_t, Endpoint
    <3>4. Wanted(k) # NULL /\ Wanted(k)' = NULL
      BY <2>7, <3>3 DEF Wanted
    <3>5. OT!TakeBack(k)
      BY <2>1, <3>1, <3>4, Mapping DEF OT!TakeBack
    <3> QED
      BY <1>1, <3>2, <3>5, TableStep
  <2>8. CASE MingledCommand(w)
    <3>1. PICK k \in Endpoint :
             /\ k \in mingled'
             /\ \/ NoCommand \/ EnqueueDel(w, k)
                \/ \E d \in DIndex : EnqueueAdd(w, k, d)
             /\ \A l \in Endpoint \ {k} : SameOffload(l)
      BY <2>8 DEF MingledCommand
    <3>2. ~Trusted(k)'
      BY <3>1 DEF Trusted
    <3>3. \A l \in Endpoint \ {k} : cmd'[l] = cmd[l]
      BY <2>1, <3>1 DEF NoCommand, EnqueueDel, EnqueueAdd
    <3>4. \A l \in Endpoint \ {k} : OT!Same(l)
      BY <2>1, <2>4, <3>1, <3>3, SameStep
    <3> QED
      BY <1>1, <3>2, <3>4, TableStep
  <2> QED
    BY <2>3, <2>5, <2>6, <2>7, <2>8 DEF CommandMatchesFlow
<1> QED
  BY <1>2, <1>3

\* Steps that leave the flows, the commands' numbers and the table alone.
LEMMA QuietRefines ==
    ASSUME RefineInv, [PathNext]_pathvars, UNCHANGED <<memory, cmd, table>>
    PROVE  OT!Next
<1>1. \A l \in Endpoint : Trusted(l)' => Trusted(l)
  BY TrustShrinks DEF RefineInv, PathInv, PathInvBut
<1>2. \A l \in Endpoint : Wanted(l)' = Wanted(l)
  BY DEF memory, Wanted, Offloaded, Mapped, FlowOf
<1>3. \A l \in Endpoint : OT!Same(l)
  BY <1>2, SameStep
<1> QED
  BY <1>1, <1>3, TableStep, Mapping

\* The controller adds an entry: of the latest command, then it is the wanted
\* one, or of an older command.
LEMMA AddRefines ==
    ASSUME RefineInv, SC!AddEntry, Apply
    PROVE  OT!Next
<1>1. /\ PathTypeOK /\ ApplyingAdds({}) /\ Numbered
      /\ UNCHANGED <<memory, cmd>> /\ cmd \in [Endpoint -> Nat]
      /\ table \in [Endpoint -> [d_index : DIndex, n : Nat] \cup {NULL}]
  BY DEF RefineInv, PathInv, PathInvBut, Apply, workervars, PathTypeOK, TypeOK
<1>2. cur.adds \in Seq(add_t) /\ cur.adds # <<>>
  BY <1>1 DEF PathTypeOK, message_t, SC!AddEntry
<1>3. PICK x \in add_t : x = Head(cur.adds) /\ x = cur.adds[1] /\ 1 \in 1..Len(cur.adds)
  BY <1>2
<1>4. x.key \in Endpoint /\ x.d_index \in DIndex /\ x.n \in Nat
  BY <1>3, AddFields
<1>5. \/ table' = table
      \/ /\ table[x.key] = NULL
         /\ table' = [table EXCEPT ![x.key] = [d_index |-> x.d_index, n |-> x.n]]
  BY <1>3 DEF SC!AddEntry
<1>6. \A l \in Endpoint : Trusted(l)' => Trusted(l)
  BY TrustShrinks DEF PathNext, RefineInv, PathInv, PathInvBut
<1>7. \A l \in Endpoint : Wanted(l)' = Wanted(l)
  BY <1>1 DEF memory, Wanted, Offloaded, Mapped, FlowOf
<1>8. CASE table' = table
  BY <1>1, <1>8, QuietRefines DEF PathNext
<1>9. CASE /\ table[x.key] = NULL
           /\ table' = [table EXCEPT ![x.key] = [d_index |-> x.d_index, n |-> x.n]]
  <2> DEFINE k == x.key
  <2>1. \A l \in Endpoint \ {k} : OT!Same(l)
    BY <1>1, <1>7, <1>9, SameStep
  <2>2. ASSUME Trusted(k) PROVE OT!Install(k, x.d_index)
    <3>1. x.n <= cmd[k] /\ (Current(k, x.d_index, x.n) \/ DelPending(k, x.n))
      BY <1>1, <1>3, <2>2 DEF ApplyingAdds, Exempt, Justified
    <3>2. x.n >= 1
      <4>1. AddIn(x)
        BY <1>3 DEF AddIn, InSeq
      <4> QED
        BY <1>1, <2>2, <4>1 DEF Numbered, Trusted
    <3>3. x.n = cmd[k] => Wanted(k) = x.d_index
      <4> SUFFICES ASSUME x.n = cmd[k] PROVE Wanted(k) = x.d_index
        OBVIOUS
      <4>1. ASSUME DelPending(k, x.n) PROVE FALSE
        <5>1. PICK y : DelIn(y) /\ y.key = k /\ y.n > x.n
          BY <4>1 DEF DelPending, DelQueued, DelBatched, DelOnWire, DelApplying,
                      HasNewer, DelIn, InSeq
        <5>2. y.n \in Nat /\ y.n <= cmd[k]
          BY <1>1, <2>2, <5>1, DelType DEF Numbered, Trusted
        <5> QED
          BY <1>4, <5>1, <5>2
      <4> QED
        BY <3>1, <4>1 DEF Current, Wanted
    <3>4. table'[k] = [d_index |-> x.d_index, n |-> x.n]
      BY <1>1, <1>4, <1>9
    <3>5. x.n \in 1..cmd[k] /\ cmd[k] \in Nat
      BY <1>1, <1>4, <3>1, <3>2
    <3> HIDE DEF k
    <3>6. k \in Endpoint
      BY <1>4 DEF k
    <3> QED
      BY <1>1, <1>7, <1>9, <3>3, <3>4, <3>5, <3>6, Mapping DEF OT!Install, k
  <2> QED
    BY <1>4, <1>6, <2>1, <2>2, TableStep
<1> QED
  BY <1>5, <1>8, <1>9

\* The controller removes an entry, which some command has taken back.
LEMMA DelRefines ==
    ASSUME RefineInv, SC!DelEntry, Apply
    PROVE  OT!Next
<1>1. /\ PathTypeOK /\ Numbered
      /\ UNCHANGED <<memory, cmd>> /\ cmd \in [Endpoint -> Nat]
      /\ table \in [Endpoint -> [d_index : DIndex, n : Nat] \cup {NULL}]
  BY DEF RefineInv, PathInv, PathInvBut, Apply, workervars, PathTypeOK, TypeOK
<1>2. cur.dels \in Seq(del_t) /\ cur.dels # <<>>
  BY <1>1 DEF PathTypeOK, message_t, SC!DelEntry
<1>3. PICK x \in del_t : x = Head(cur.dels) /\ x = cur.dels[1] /\ 1 \in 1..Len(cur.dels)
  BY <1>2
<1>4. x.key \in Endpoint /\ x.n \in Nat
  BY <1>3 DEF del_t
<1>5. table' = [table EXCEPT ![x.key] = NULL]
  BY <1>3 DEF SC!DelEntry
<1>6. \A l \in Endpoint : Trusted(l)' => Trusted(l)
  BY TrustShrinks DEF PathNext, RefineInv, PathInv, PathInvBut
<1>7. \A l \in Endpoint : Wanted(l)' = Wanted(l)
  BY <1>1 DEF memory, Wanted, Offloaded, Mapped, FlowOf
<1>8. \A l \in Endpoint \ {x.key} : OT!Same(l)
  BY <1>1, <1>5, <1>7, SameStep
<1>9. CASE table[x.key] = NULL
  <2>1. OT!Same(x.key)
    BY <1>1, <1>4, <1>5, <1>7, <1>9, SameStep
  <2> QED
    BY <1>4, <1>6, <1>8, <2>1, TableStep
<1>10. CASE table[x.key] # NULL
  <2>1. ASSUME Trusted(x.key) PROVE OT!Remove(x.key)
    <3>1. DelIn(x)
      BY <1>3 DEF DelIn, InSeq
    <3>2. x.n >= 2 /\ x.n <= cmd[x.key]
      BY <1>1, <2>1, <3>1 DEF Numbered, Trusted
    <3>3. cmd[x.key] >= 2
      BY <1>1, <1>4, <3>2
    <3> QED
      BY <1>1, <1>4, <1>5, <1>7, <1>10, <3>3, Mapping DEF OT!Remove
  <2> QED
    BY <1>4, <1>6, <1>8, <2>1, TableStep
<1> QED
  BY <1>9, <1>10

\* Every step of the path is a step of OffloadTable.
LEMMA StepRefines ==
    ASSUME RefineInv, [PathNext]_pathvars
    PROVE  OT!Next
<1>1. CASE \E w \in Worker : Work(w)
  BY <1>1, WorkRefines
<1>2. CASE \/ \E w \in Worker, p \in Packet : Arrive(w, p)
           \/ \E u \in Url : Learn(u)
  BY <1>2, QuietRefines DEF Arrive, Learn, Rx, UpdateRule, scvars
<1>3. CASE Batch
  BY <1>3, QuietRefines DEF Batch, workervars, scvars
<1>4. CASE Apply
  <2>1. CASE SC!Recv \/ SC!BatchFails \/ SC!AddFails \/ SC!DelFails
    BY <1>4, <2>1, QuietRefines
    DEF Apply, SC!Recv, SC!BatchFails, SC!AddFails, SC!DelFails, workervars
  <2> QED
    BY <1>4, <2>1, AddRefines, DelRefines DEF Apply, SC!Next
<1>5. CASE UNCHANGED pathvars
  BY <1>5, QuietRefines DEF pathvars, vars, memory, scvars
<1> QED
  BY <1>1, <1>2, <1>3, <1>4, <1>5 DEF PathNext

\* The workers, the main thread and the switch controller together implement
\* the safety part of OffloadTable: through two queues, batches and messages
\* the switch's entries follow what the flows want, command by command.
THEOREM PathRefinesTable == PathSpec => OT!Safety
<1>1. PathInit => RefineInv
  <2> SUFFICES ASSUME PathInit PROVE RefineInv
    OBVIOUS
  <2>1. /\ \A w \in Worker : add_queue[w] = <<>> /\ del_queue[w] = <<>>
        /\ add_pairs = <<>> /\ del_keys = <<>> /\ wire = <<>>
        /\ cur.adds = <<>> /\ cur.dels = <<>>
    BY DEF PathInit, Init, EC!Init, SC!Init, SC!NoMessage
  <2>2. \A x : ~AddIn(x) /\ ~DelIn(x)
    BY <2>1 DEF AddIn, DelIn, InSeq
  <2> QED
    BY <2>2, InitPathInv DEF RefineInv, Numbered
<1>2. RefineInv /\ [PathNext]_pathvars => RefineInv'
  BY NextRefineInv
<1>3. PathInit => OT!Init
  <2> SUFFICES ASSUME PathInit PROVE OT!Init
    OBVIOUS
  <2>1. \A k \in Endpoint : ~Offloaded(k) /\ Trusted(k)
    BY DEF PathInit, Init, EC!Init, SC!Init, Offloaded, Mapped, Trusted, Clean
  <2>2. [k \in Endpoint |-> Wanted(k)] = [k \in Endpoint |-> NULL]
    BY <2>1 DEF Wanted
  <2>3. {k \in Endpoint : Trusted(k)} = Endpoint
    BY <2>1
  <2>4. cmd = [k \in Endpoint |-> 0] /\ table = [k \in Endpoint |-> NULL]
    BY DEF PathInit, Init, SC!Init
  <2> QED
    BY <2>2, <2>3, <2>4 DEF OT!Init
<1>4. RefineInv /\ [PathNext]_pathvars => [OT!Next]_(OT!tvars)
  BY StepRefines
<1> QED
  BY <1>1, <1>2, <1>3, <1>4, PTL DEF PathSpec, OT!Safety

\* Every variable of the control path keeps its type.
THEOREM PathTypeCorrect == PathSpec => []PathTypeOK
<1>1. PathInv => PathTypeOK
  BY DEF PathInv, PathInvBut
<1> QED
  BY <1>1, PathInvariant, PTL
=============================================================================
