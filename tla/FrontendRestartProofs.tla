----------------------- MODULE FrontendRestartProofs -----------------------
(***************************************************************************)
(* Proofs about FrontendRestart for any number of restarts, clients,       *)
(* backends and workers, and any batch and table size.                     *)
(*                                                                         *)
(* PathInv holds in every life of the Frontend, except that it says        *)
(* nothing of the commands of earlier lives (PathInvBut).  What tells them *)
(* apart is their number: everything an earlier life left in the table, in *)
(* the controller's hands or on the old connection is numbered up to       *)
(* epoch, and everything this life issues is numbered from there on        *)
(* (Numbers).  LeftoverBlocks is about packets: while an old entry is in   *)
(* the table no SYN-ACK for its key is in a worker's hands (Unanswered).   *)
(***************************************************************************)
EXTENDS FrontendRestart, OffloadPathProofs

\* The commands of earlier lives.
Earlier == {e \in Endpoint \X Nat : e[2] <= epoch[e[1]]}

LifePath == \E old : old = Earlier /\ PathInvBut(old)

LifeTypeOK ==
    /\ oldwire \in Seq(message_t)
    /\ restarts \in Nat
    /\ epoch \in [Endpoint -> Nat]
    /\ inflight \subseteq Endpoint

OldIn(x) == \E j \in 1..Len(oldwire) : InSeq(x, oldwire[j].adds)

Numbers ==
    /\ \A k \in Endpoint :
          /\ epoch[k] <= cmd[k]
          /\ table[k] # NULL => table[k].n <= cmd[k]
    /\ \A x : AddIn(x) =>
          x.n <= cmd[x.key] /\ (x.n > epoch[x.key] \/ x.key \in inflight)
    /\ \A x : OldIn(x) => x.n <= epoch[x.key] /\ x.key \in inflight

LifeInv == LifePath /\ LifeTypeOK /\ Numbers

-----------------------------------------------------------------------------
(* Types.                                                                  *)

\* What is on its way as an add is an add.
LEMMA AddType ==
    ASSUME PathTypeOK, NEW x, AddIn(x)
    PROVE  x \in add_t /\ x.n \in Nat /\ x.key \in Endpoint
<1>1. /\ add_queue \in [Worker -> Seq(add_t)] /\ add_pairs \in Seq(add_t)
      /\ wire \in Seq(message_t) /\ cur.adds \in Seq(add_t)
  BY DEF PathTypeOK, TypeOK, message_t
<1>2. ASSUME NEW j \in 1..Len(wire) PROVE wire[j].adds \in Seq(add_t)
  <2>1. wire[j] \in message_t
    BY <1>1
  <2> QED
    BY <2>1 DEF message_t
<1>3. ASSUME NEW s \in Seq(add_t), InSeq(x, s) PROVE x \in add_t
  BY <1>3 DEF InSeq
<1>4. x \in add_t
  BY <1>1, <1>2, <1>3 DEF AddIn
<1> QED
  BY <1>4 DEF add_t

\* So is what is on the old connection.
LEMMA OldType ==
    ASSUME LifeTypeOK, NEW x, OldIn(x)
    PROVE  x \in add_t /\ x.n \in Nat /\ x.key \in Endpoint
<1>1. PICK j \in 1..Len(oldwire) : InSeq(x, oldwire[j].adds)
  BY DEF OldIn
<1>2. oldwire[j] \in message_t
  BY DEF LifeTypeOK
<1>3. oldwire[j].adds \in Seq(add_t)
  BY <1>2 DEF message_t
<1>4. x \in add_t
  BY <1>1, <1>3 DEF InSeq
<1> QED
  BY <1>4 DEF add_t

\* A command is exempt when its number is up to epoch.
LEMMA ExemptEarlier ==
    ASSUME NEW k \in Endpoint, NEW n \in Nat
    PROVE  Exempt(Earlier, k, n) <=> n <= epoch[k]
BY DEF Exempt, Earlier

-----------------------------------------------------------------------------
(* A Frontend that has just been started.                                  *)

Started ==
    /\ flow_hash_map = [k \in Endpoint |-> NULL]
    /\ heap = [a \in Addr |-> Zeroed] /\ live = {}
    /\ worker = [w \in Worker |-> Idle] /\ send_pkts = <<>>
    /\ add_queue = [w \in Worker |-> <<>>]
    /\ del_queue = [w \in Worker |-> <<>>]
    /\ rule_map = [u \in Url |-> NULL]
    /\ aborted = FALSE /\ raced = FALSE /\ mingled = {}
    /\ add_pairs = <<>> /\ del_keys = <<>>
    /\ pc = "idle" /\ todo = {} /\ room = 0 /\ overtaken = {} /\ failed = {}
    /\ wire = <<>>
    /\ cmd \in [Endpoint -> Nat]
    /\ cur \in message_t
    /\ table \in [Endpoint -> [d_index : DIndex, n : Nat] \cup {NULL}]

\* It has nothing that could be unsafe or unjustified.
LEMMA StartedSafe ==
    Started => /\ MemInv /\ PathTypeOK /\ OneBatch
               /\ QueuedAdds /\ BatchedAdds /\ WireAdds
<1> SUFFICES ASSUME Started
             PROVE  /\ MemInv /\ PathTypeOK /\ OneBatch
                    /\ QueuedAdds /\ BatchedAdds /\ WireAdds
  OBVIOUS
<1>1. TypeOK
  <2>1. worker \in [Worker -> worker_t]
    BY DEF Started, worker_t
  <2>2. heap \in [Addr -> flow_data_t]
    BY ZeroedType DEF Started
  <2>3. aborted \in BOOLEAN /\ raced \in BOOLEAN
    BY DEF Started
  <2>4. /\ send_pkts \in Seq(reply_t)
        /\ add_queue \in [Worker -> Seq(add_t)]
        /\ del_queue \in [Worker -> Seq(del_t)]
    BY DEF Started
  <2> QED
    BY <2>1, <2>2, <2>3, <2>4 DEF Started, TypeOK
<1>2. \A k \in Endpoint : ~Mapped(k)
  BY DEF Started, Mapped
<1>3. FlowsFilledIn /\ PartsMingled
  BY DEF Started, FlowsFilledIn, Zeroed, PartsMingled, part, Idle
<1>4. MemorySafe
  BY <1>2 DEF Started, MemorySafe, Idle
<1>5. CachedRequestIsOwn
  BY <1>2 DEF CachedRequestIsOwn
<1>6. PathTypeOK
  BY <1>1, BatchAssumption DEF Started, PathTypeOK
<1>7. OneBatch
  BY DEF Started, OneBatch
<1>8. QueuedAdds /\ BatchedAdds /\ WireAdds
  BY DEF Started, QueuedAdds, BatchedAdds, WireAdds
<1> QED
  BY <1>1, <1>3, <1>4, <1>5, <1>6, <1>7, <1>8 DEF MemInv

\* Initially there has been no earlier life.
LEMMA InitLifeInv == RestartInit => LifeInv
<1> SUFFICES ASSUME RestartInit PROVE LifeInv
  OBVIOUS
<1>1. PathInvBut({})
  BY InitPathInv DEF RestartInit, PathInv
<1>2. /\ add_pairs = <<>> /\ wire = <<>> /\ oldwire = <<>>
      /\ cur = [adds |-> <<>>, dels |-> <<>>]
      /\ table = [k \in Endpoint |-> NULL]
      /\ add_queue = [w \in Worker |-> <<>>]
      /\ cmd = [k \in Endpoint |-> 0] /\ epoch = [k \in Endpoint |-> 0]
  BY DEF RestartInit, PathInit, Init, EC!Init, SC!Init, SC!NoMessage
<1>3. \A x : ~AddIn(x) /\ ~OldIn(x)
  BY <1>2 DEF AddIn, OldIn, InSeq
<1>4. Numbers
  BY <1>2, <1>3 DEF Numbers
<1>5. LifeTypeOK
  BY <1>2 DEF RestartInit, LifeTypeOK
<1>6. PathInvBut(Earlier)
  BY <1>1, <1>2 DEF PathInvBut, ApplyingAdds, TableEntries
<1> QED
  BY <1>4, <1>5, <1>6 DEF LifeInv, LifePath

-----------------------------------------------------------------------------
(* Steps of the path within a life.                                        *)

\* A handler issues at most one command, whatever the memory is like.
LEMMA HandlerCommand ==
    ASSUME TypeOK, FlowsFilledIn, NEW w \in Worker, Handle(w)
    PROVE  \/ NoCommand
           \/ \E k \in Endpoint, d \in DIndex : EnqueueAdd(w, k, d)
           \/ \E k \in Endpoint : EnqueueDel(w, k)
<1>1. CASE SrcReset(w) \/ SrcFin(w) \/ DstReset(w) \/ DstFin(w)
  <2>1. PICK at \in {"src", "dst"} : In(w, at, Established)
    BY <1>1 DEF SrcReset, SrcFin, DstReset, DstFin
  <2>2. key(w) \in Endpoint
    BY <2>1, InFlow DEF Established
  <2>3. DelIfOffloaded(w)
    BY <1>1 DEF SrcReset, SrcFin, DstReset, DstFin, Teardown
  <2> QED
    BY <2>2, <2>3 DEF DelIfOffloaded
<1>2. CASE SrcReroute(w)
  <2>1. In(w, "src", Established) /\ DelIfOffloaded(w)
    BY <1>2 DEF SrcReroute, SrcPayload
  <2>2. key(w) \in Endpoint
    BY <2>1, InFlow DEF Established
  <2> QED
    BY <2>1, <2>2 DEF DelIfOffloaded
<1>3. CASE SrcSameBackend(w)
  <2>1. In(w, "src", Established)
    BY <1>3 DEF SrcSameBackend, SrcPayload
  <2>2. key(w) \in Endpoint /\ flow(w).entry_data.d_index \in DIndex
    BY <2>1, InFlow DEF Established
  <2> QED
    BY <1>3, <2>2 DEF SrcSameBackend
<1>4. CASE SynAck(w)
  <2>1. In(w, "dst", {"BACKEND_SYN"})
    BY <1>4 DEF SynAck
  <2>2. key(w) \in Endpoint /\ flow(w).entry_data.d_index \in DIndex
    BY <2>1, InFlow
  <2> QED
    BY <1>4, <2>2 DEF SynAck
<1>5. CASE \/ LookupDst(w) \/ SrcNoRule(w) \/ SrcForward(w) \/ SynAbort(w)
           \/ SynRetry(w) \/ SynAckIgnored(w) \/ DstForward(w)
           \/ NewFlowDropped(w) \/ NewFlow(w)
  BY <1>5 DEF LookupDst, SrcNoRule, SrcForward, SynAbort, SynRetry, SynAckIgnored,
              DstForward, NewFlowDropped, NewFlow, NoCommand, queues
<1> QED
  BY <1>1, <1>2, <1>3, <1>4, <1>5 DEF Handle

\* So does a part of one.
LEMMA OneCommand ==
    ASSUME TypeOK, FlowsFilledIn, PartsMingled, NEW w \in Worker, Run(w)
    PROVE  \/ NoCommand
           \/ \E k \in Endpoint, d \in DIndex : EnqueueAdd(w, k, d)
           \/ \E k \in Endpoint : EnqueueDel(w, k)
BY HandlerCommand, PieceIs DEF Run, Piece, PieceShape

\* An add that was not there before a worker's step has the next number of its
\* key.
LEMMA WorkBrings ==
    ASSUME PathTypeOK, FlowsFilledIn, PartsMingled, NEW w \in Worker, Run(w),
           UNCHANGED <<ecvars, wire, scvars>>
    PROVE  /\ \A k \in Endpoint : cmd'[k] \in Nat /\ cmd'[k] >= cmd[k]
           /\ \A x : AddIn(x)' =>
                 \/ AddIn(x)
                 \/ x.key \in Endpoint /\ x.n = cmd[x.key] + 1 /\ x.n = cmd'[x.key]
<1>1. /\ TypeOK /\ cmd \in [Endpoint -> Nat]
      /\ add_queue \in [Worker -> Seq(add_t)]
      /\ UNCHANGED <<add_pairs, wire, cur>>
  BY DEF PathTypeOK, TypeOK, ecvars, scvars
<1>2. CASE NoCommand
  BY <1>1, <1>2 DEF NoCommand, AddIn
<1>3. CASE \E k \in Endpoint : EnqueueDel(w, k)
  <2>1. PICK k \in Endpoint : EnqueueDel(w, k)
    BY <1>3
  <2>2. cmd' = [cmd EXCEPT ![k] = @ + 1] /\ add_queue' = add_queue
    BY <2>1 DEF EnqueueDel
  <2> QED
    BY <1>1, <2>2 DEF AddIn
<1>4. CASE \E k \in Endpoint, d \in DIndex : EnqueueAdd(w, k, d)
  <2>1. PICK k \in Endpoint, d \in DIndex : EnqueueAdd(w, k, d)
    BY <1>4
  <2> DEFINE y == [key |-> k, d_index |-> d, n |-> cmd[k] + 1]
  <2>2. /\ cmd' = [cmd EXCEPT ![k] = @ + 1]
        /\ add_queue' = [add_queue EXCEPT ![w] = Append(add_queue[w], y)]
    BY <1>1, <2>1 DEF EnqueueAdd
  <2>3. y \in add_t /\ y.key = k /\ y.n = cmd[k] + 1 /\ y.n = cmd'[k]
    BY <1>1, <2>2 DEF add_t
  <2> HIDE DEF y
  <2>4. \A v \in Worker : \A x :
           InSeq(x, add_queue'[v]) => InSeq(x, add_queue[v]) \/ x = y
    BY <1>1, <2>2, <2>3, InAppend
  <2>5. \A x : AddIn(x)' => AddIn(x) \/ x = y
    BY <1>1, <2>4 DEF AddIn
  <2>6. \A l \in Endpoint : cmd'[l] \in Nat /\ cmd'[l] >= cmd[l]
    BY <1>1, <2>2
  <2> QED
    BY <2>3, <2>5, <2>6
<1> QED
  BY <1>1, <1>2, <1>3, <1>4, OneCommand

\* Nothing else on the path brings an add.
LEMMA NoneBrought ==
    ASSUME PathTypeOK, [PathNext]_pathvars, \A w \in Worker : ~Work(w), NEW x
    PROVE  cmd' = cmd /\ (AddIn(x)' => AddIn(x))
<1>1. CASE \/ \E w \in Worker, p \in Packet : Arrive(w, p)
           \/ \E u \in Url : Learn(u)
  <2>1. UNCHANGED <<queues, cmd, ecvars, wire, scvars>>
    BY <1>1 DEF Arrive, Learn, Rx, UpdateRule
  <2> QED
    BY <2>1 DEF queues, ecvars, scvars, AddIn
<1>2. CASE Batch
  <2>1. UNCHANGED <<workervars, scvars>> /\ EC!Next
    BY <1>2 DEF Batch
  <2>2. cmd' = cmd
    BY <2>1 DEF workervars
  <2>3. CASE EC!Timer \/ EC!AddsTaken
    BY <2>1, <2>2, <2>3 DEF EC!Timer, EC!AddsTaken, scvars, AddIn
  <2>4. CASE EC!Flush
    BY <2>1, <2>2, <2>4, FlushBringsNone
  <2>5. ASSUME NEW w \in Worker, EC!TakeAdds(w) \/ EC!TakeDels(w)
        PROVE  AddIn(x)' => AddIn(x)
    BY <2>1, <2>5, TakeBringsNone
  <2> QED
    BY <2>1, <2>2, <2>3, <2>4, <2>5 DEF EC!Next
<1>3. CASE Apply
  BY <1>3, ApplyBringsNone DEF Apply, workervars
<1>4. CASE UNCHANGED pathvars
  <2>1. UNCHANGED <<cmd, add_queue, add_pairs, wire, cur>>
    BY <1>4 DEF pathvars, vars, ecvars, scvars
  <2> QED
    BY <2>1 DEF AddIn
<1> QED
  BY <1>1, <1>2, <1>3, <1>4 DEF PathNext

\* An entry comes into the table from an add that is being applied.
LEMMA NewEntries ==
    ASSUME PathTypeOK, [PathNext]_pathvars, NEW k \in Endpoint, table'[k] # NULL
    PROVE  \/ table'[k] = table[k]
           \/ /\ table[k] = NULL
              /\ \E x : AddIn(x) /\ x.key = k /\ table'[k].n = x.n
<1>1. CASE SC!AddEntry
  <2> DEFINE e == Head(cur.adds)
  <2>1. cur.adds \in Seq(add_t) /\ cur.adds # <<>>
    BY <1>1 DEF SC!AddEntry, PathTypeOK, message_t
  <2>2. AddIn(e)
    BY <2>1, InTail DEF AddIn
  <2>3. \/ table' = table
        \/ /\ table[e.key] = NULL
           /\ table' = [table EXCEPT ![e.key] = [d_index |-> e.d_index, n |-> e.n]]
    BY <1>1 DEF SC!AddEntry
  <2> HIDE DEF e
  <2> QED
    BY <2>2, <2>3 DEF PathTypeOK
<1>2. CASE SC!DelEntry
  BY <1>2 DEF SC!DelEntry, PathTypeOK
<1>3. CASE UNCHANGED table
  BY <1>3
<1> QED
  BY <1>1, <1>2, <1>3
  DEF PathNext, Arrive, Work, Learn, Batch, Apply, SC!Next, SC!Recv, SC!BatchFails,
      SC!AddFails, SC!DelFails, scvars, pathvars

\* The numbers stay as they are while the path works.
LEMMA PathNumbers ==
    ASSUME PathTypeOK, FlowsFilledIn, PartsMingled, LifeTypeOK, Numbers,
           [PathNext]_pathvars, UNCHANGED lifevars
    PROVE  Numbers'
<1>1. UNCHANGED <<oldwire, restarts, epoch, inflight>>
  BY DEF lifevars
<1>2. \A x : OldIn(x)' <=> OldIn(x)
  BY <1>1 DEF OldIn
<1>3. \A k \in Endpoint : cmd[k] \in Nat /\ epoch[k] \in Nat
  BY DEF PathTypeOK, TypeOK, LifeTypeOK
<1>4. /\ \A k \in Endpoint : cmd'[k] \in Nat /\ cmd'[k] >= cmd[k]
      /\ \A x : AddIn(x)' =>
            \/ AddIn(x)
            \/ x.key \in Endpoint /\ x.n = cmd[x.key] + 1 /\ x.n = cmd'[x.key]
  <2>1. CASE \E w \in Worker : Work(w)
    BY <2>1, WorkBrings DEF Work
  <2>2. CASE \A w \in Worker : ~Work(w)
    BY <1>3, <2>2, NoneBrought
  <2> QED
    BY <2>1, <2>2
<1>5. ASSUME NEW x, AddIn(x)'
      PROVE  x.n <= cmd'[x.key] /\ (x.n > epoch[x.key] \/ x.key \in inflight)
  <2>1. CASE AddIn(x)
    <3>1. /\ x.n \in Nat /\ x.key \in Endpoint
          /\ x.n <= cmd[x.key] /\ (x.n > epoch[x.key] \/ x.key \in inflight)
      BY <2>1, AddType DEF Numbers
    <3> QED
      BY <1>3, <1>4, <3>1
  <2>2. CASE x.key \in Endpoint /\ x.n = cmd[x.key] + 1 /\ x.n = cmd'[x.key]
    BY <1>3, <2>2 DEF Numbers
  <2> QED
    BY <1>4, <1>5, <2>1, <2>2
<1>6. ASSUME NEW k \in Endpoint
      PROVE  epoch[k] <= cmd'[k] /\ (table'[k] # NULL => table'[k].n <= cmd'[k])
  <2>1. epoch[k] <= cmd'[k]
    BY <1>3, <1>4 DEF Numbers
  <2>2. ASSUME table'[k] # NULL PROVE table'[k].n <= cmd'[k]
    <3>1. CASE table'[k] = table[k]
      <4>1. table[k].n \in Nat /\ table[k].n <= cmd[k]
        BY <2>2, <3>1, StageTypes DEF Numbers
      <4> QED
        BY <1>3, <1>4, <3>1, <4>1
    <3>2. ASSUME NEW x, AddIn(x), x.key = k, table'[k].n = x.n
          PROVE  table'[k].n <= cmd'[k]
      <4>1. x.n \in Nat /\ x.n <= cmd[k]
        BY <3>2, AddType DEF Numbers
      <4> QED
        BY <1>3, <1>4, <3>2, <4>1
    <3> QED
      BY <2>2, <3>1, <3>2, NewEntries
  <2> QED
    BY <2>1, <2>2
<1> QED
  BY <1>1, <1>2, <1>5, <1>6 DEF Numbers

\* A step of the path keeps the invariant of the present life.
LEMMA PathLifeInv ==
    ASSUME LifeInv, [PathNext]_pathvars, UNCHANGED lifevars
    PROVE  LifeInv'
<1>1. PICK old : old = Earlier /\ PathInvBut(old)
  BY DEF LifeInv, LifePath
<1>2. PathInvBut(old)'
  BY <1>1, NextPathInvBut
<1>3. Earlier' = Earlier /\ LifeTypeOK'
  BY DEF LifeInv, lifevars, Earlier, LifeTypeOK
<1>4. PathTypeOK /\ FlowsFilledIn /\ PartsMingled /\ LifeTypeOK /\ Numbers
  BY <1>1 DEF PathInvBut, MemInv, LifeInv
<1>5. Numbers'
  BY <1>4, PathNumbers
<1> QED
  BY <1>1, <1>2, <1>3, <1>5 DEF LifeInv, LifePath

-----------------------------------------------------------------------------
(* The end of a life, and what it leaves behind.                           *)

\* The elements of the old connection after a restart.
LEMMA WireJoins ==
    ASSUME PathTypeOK, LifeTypeOK, oldwire' = oldwire \o wire
    PROVE  /\ oldwire' \in Seq(message_t)
           /\ \A j \in 1..Len(oldwire') :
                 \/ \E i \in 1..Len(oldwire) : oldwire'[j] = oldwire[i]
                 \/ \E i \in 1..Len(wire) : oldwire'[j] = wire[i]
<1>1. oldwire \in Seq(message_t) /\ wire \in Seq(message_t)
  BY DEF PathTypeOK, LifeTypeOK
<1>2. ASSUME NEW s \in Seq(message_t), NEW t \in Seq(message_t), NEW u, u = s \o t
      PROVE  /\ u \in Seq(message_t)
             /\ \A j \in 1..Len(u) : \/ \E i \in 1..Len(s) : u[j] = s[i]
                                     \/ \E i \in 1..Len(t) : u[j] = t[i]
  BY <1>2, Joined
<1> QED
  BY <1>1, <1>2

\* A restart: all commands that exist are of an earlier life now.
LEMMA RestartLifeInv ==
    ASSUME LifeInv, Restart
    PROVE  LifeInv'
<1>1. /\ PathTypeOK /\ LifeTypeOK /\ Numbers
      /\ cmd \in [Endpoint -> Nat] /\ cur \in message_t
      /\ table \in [Endpoint -> [d_index : DIndex, n : Nat] \cup {NULL}]
  BY DEF LifeInv, LifePath, PathInvBut, PathTypeOK, TypeOK
<1>2. epoch' = cmd /\ UNCHANGED <<cmd, cur, table>> /\ oldwire' = oldwire \o wire
      /\ inflight' = {k \in Endpoint : Underway(k)}
  BY DEF Restart
<1>3. Started'
  BY <1>1, <1>2 DEF Restart, Started
<1>4. Started' => /\ MemInv' /\ PathTypeOK' /\ OneBatch'
                  /\ QueuedAdds' /\ BatchedAdds' /\ WireAdds'
  BY StartedSafe, PTL
<1>5. LifeTypeOK'
  BY <1>1, <1>2, WireJoins DEF LifeTypeOK, Restart
<1>6. \A x : AddIn(x)' => InSeq(x, cur.adds)
  BY <1>2, <1>3 DEF AddIn, Started, InSeq
<1>7. \A x : AddIn(x)' => /\ AddIn(x) /\ x \in add_t
                          /\ x.n \in Nat /\ x.key \in Endpoint /\ x.n <= cmd[x.key]
  BY <1>1, <1>6, AddType DEF AddIn, Numbers
<1>8. \A x : AddIn(x)' => x.key \in inflight'
  BY <1>2, <1>6, <1>7 DEF InSeq, Underway, Carries
<1>9. ASSUME NEW x, OldIn(x)'
      PROVE  x.n <= epoch'[x.key] /\ x.key \in inflight'
  <2>1. \/ OldIn(x) \/ \E j \in 1..Len(wire) : InSeq(x, wire[j].adds)
    BY <1>1, <1>2, <1>9, WireJoins DEF OldIn
  <2>2. x.n \in Nat /\ x.key \in Endpoint /\ x.n <= cmd[x.key]
    <3>1. CASE OldIn(x)
      <4>1. x.n \in Nat /\ x.key \in Endpoint /\ x.n <= epoch[x.key]
        BY <1>1, <3>1, OldType DEF Numbers
      <4>2. epoch[x.key] \in Nat /\ cmd[x.key] \in Nat /\ epoch[x.key] <= cmd[x.key]
        BY <1>1, <4>1 DEF Numbers, LifeTypeOK
      <4> QED
        BY <4>1, <4>2
    <3>2. CASE AddIn(x)
      BY <1>1, <3>2, AddType DEF Numbers
    <3> QED
      BY <2>1, <3>1, <3>2 DEF AddIn
  <2>3. Underway(x.key)
    BY <2>1 DEF Underway, OldIn, Carries, InSeq
  <2> QED
    BY <1>2, <2>2, <2>3
<1>10. Numbers'
  <2>1. \A k \in Endpoint : /\ epoch'[k] <= cmd'[k]
                            /\ table'[k] # NULL => table'[k].n <= cmd'[k]
    BY <1>1, <1>2 DEF Numbers
  <2> QED
    BY <1>2, <1>7, <1>8, <1>9, <2>1 DEF Numbers
<1>11. PICK old : old = Earlier'
  OBVIOUS
<1>12. \A k \in Endpoint, n \in Nat : n <= cmd[k] => Exempt(old, k, n)
  BY <1>2, <1>11 DEF Earlier, Exempt
<1>13. ApplyingAdds(old)'
  <2>1. ASSUME NEW i \in 1..Len(cur.adds), NEW x, x = cur.adds[i]
        PROVE  Exempt(old, x.key, x.n)
    <3>1. AddIn(x)'
      BY <1>2, <2>1 DEF AddIn, InSeq
    <3>2. x.n \in Nat /\ x.key \in Endpoint /\ x.n <= cmd[x.key]
      BY <1>7, <3>1
    <3> QED
      BY <1>12, <3>2
  <2> QED
    BY <1>2, <2>1 DEF ApplyingAdds
<1>14. TableEntries(old)'
  <2>1. ASSUME NEW k \in Endpoint, table[k] # NULL PROVE Exempt(old, k, table[k].n)
    BY <1>1, <1>12, <2>1, StageTypes DEF Numbers
  <2> QED
    BY <1>2, <2>1 DEF TableEntries
<1>15. PathInvBut(old)'
  BY <1>3, <1>4, <1>13, <1>14 DEF PathInvBut
<1> QED
  BY <1>5, <1>10, <1>11, <1>15 DEF LifeInv, LifePath

\* Receiving from the old connection: all that comes is exempt, and what the
\* controller had in hand was nothing.
LEMMA RecvOldLifeInv ==
    ASSUME LifeInv, RecvOld
    PROVE  LifeInv'
<1>1. PICK old : old = Earlier /\ PathInvBut(old)
  BY DEF LifeInv, LifePath
<1>2. PathTypeOK /\ LifeTypeOK /\ Numbers
  BY <1>1 DEF LifeInv, PathInvBut
<1>3. /\ UNCHANGED <<vars, ecvars, wire, table, failed, restarts, epoch, inflight>>
      /\ oldwire \in Seq(message_t) /\ oldwire # <<>>
      /\ cur' = Head(oldwire) /\ oldwire' = Tail(oldwire)
      /\ cur.adds = <<>> /\ cur.dels = <<>>
  BY <1>2 DEF RecvOld, SC!NoMessage, LifeTypeOK
<1>4. /\ cur' \in message_t /\ oldwire' \in Seq(message_t)
      /\ 1 \in 1..Len(oldwire) /\ cur' = oldwire[1]
      /\ \A j \in 1..Len(oldwire') :
            j + 1 \in 1..Len(oldwire) /\ oldwire'[j] = oldwire[j + 1]
  BY <1>3
<1>5. /\ UNCHANGED <<workervars, queues, ecvars>>
      /\ UNCHANGED <<add_queue, add_pairs, cmd>>
  BY <1>3 DEF vars, workervars, memory, queues, ecvars
<1>6. /\ MemInv' /\ TypeOK' /\ OneBatch' /\ QueuedAdds' /\ BatchedAdds'
      /\ UNCHANGED <<add_pairs, del_keys, pc, todo, room, overtaken>>
      /\ \A k \in Endpoint, n \in Nat :
            /\ DelQueued(k, n)' <=> DelQueued(k, n)
            /\ DelBatched(k, n)' <=> DelBatched(k, n)
  BY <1>1, <1>3, <1>5, ApplyFrame
<1>7. PathTypeOK' /\ LifeTypeOK'
  BY <1>2, <1>3, <1>4, <1>6 DEF PathTypeOK, LifeTypeOK
<1>8. /\ cmd' = cmd
      /\ \A k \in Endpoint : Trusted(k)' => Trusted(k)
      /\ \A k \in Endpoint, d \in DIndex, n \in Nat :
            Current(k, d, n)' <=> Current(k, d, n)
  BY <1>3, <1>5, <1>6, TravelFrame
<1>9. \A k \in Endpoint, n \in Nat :
         /\ \A j \in Nat : DelOnWire(k, n, j)' <=> DelOnWire(k, n, j)
         /\ ~DelApplying(k, n)
  BY <1>3 DEF DelOnWire, DelApplying, HasNewer
<1>10. \A k \in Endpoint, n \in Nat : DelPending(k, n) => DelPending(k, n)'
  BY <1>6, <1>9 DEF DelPending
<1>11. WireAdds'
  <2>1. ASSUME NEW j \in 1..Len(wire), NEW i \in 1..Len(wire[j].adds),
               NEW x, x = wire[j].adds[i]
        PROVE  Justified(x.key, x.d_index, x.n,
                         \/ DelQueued(x.key, x.n) \/ DelBatched(x.key, x.n)
                         \/ DelOnWire(x.key, x.n, j))'
    <3>1. x.key \in Endpoint /\ x.d_index \in DIndex /\ x.n \in Nat /\ j \in Nat
      BY <1>2, <2>1, StageTypes, AddFields
    <3>2. Justified(x.key, x.d_index, x.n,
                    \/ DelQueued(x.key, x.n) \/ DelBatched(x.key, x.n)
                    \/ DelOnWire(x.key, x.n, j))
      BY <1>1, <2>1 DEF PathInvBut, WireAdds
    <3> QED
      BY <1>6, <1>8, <1>9, <3>1, <3>2 DEF Justified
  <2> QED
    BY <1>3, <2>1 DEF WireAdds
<1>12. TableEntries(old)'
  BY <1>1, <1>2, <1>3, <1>8, <1>10, StageTypes
  DEF PathInvBut, TableEntries, Justified
<1>13. \A x : InSeq(x, cur'.adds) => OldIn(x)
  BY <1>4 DEF OldIn
<1>14. \A x : OldIn(x) => /\ x.n \in Nat /\ x.key \in Endpoint
                          /\ x.n <= epoch[x.key] /\ x.key \in inflight
  BY <1>2, OldType DEF Numbers
<1>15. ApplyingAdds(old)'
  <2>1. ASSUME NEW i \in 1..Len(cur'.adds)
        PROVE  Exempt(old, cur'.adds[i].key, cur'.adds[i].n)
    <3>1. OldIn(cur'.adds[i])
      BY <1>13 DEF InSeq
    <3> QED
      BY <1>1, <1>14, <3>1, ExemptEarlier
  <2> QED
    BY <2>1 DEF ApplyingAdds
<1>16. Numbers'
  <2>1. \A x : AddIn(x)' => AddIn(x) \/ OldIn(x)
    BY <1>3, <1>5, <1>13 DEF AddIn
  <2>2. \A x : OldIn(x)' => OldIn(x)
    BY <1>4 DEF OldIn
  <2>3. \A k \in Endpoint : epoch[k] \in Nat /\ cmd[k] \in Nat /\ epoch[k] <= cmd[k]
    BY <1>2 DEF LifeTypeOK, PathTypeOK, TypeOK, Numbers
  <2>4. ASSUME NEW x, AddIn(x)'
        PROVE  x.n <= cmd[x.key] /\ (x.n > epoch[x.key] \/ x.key \in inflight)
    <3>1. CASE AddIn(x)
      BY <1>2, <3>1 DEF Numbers
    <3>2. CASE OldIn(x)
      <4>1. /\ x.n \in Nat /\ x.key \in Endpoint
            /\ x.n <= epoch[x.key] /\ x.key \in inflight
        BY <1>14, <3>2
      <4> QED
        BY <2>3, <4>1
    <3> QED
      BY <2>1, <2>4, <3>1, <3>2
  <2>5. \A k \in Endpoint : /\ epoch'[k] <= cmd'[k]
                            /\ table'[k] # NULL => table'[k].n <= cmd'[k]
    BY <1>2, <1>3, <1>8 DEF Numbers
  <2> QED
    BY <1>3, <1>8, <1>14, <2>2, <2>4, <2>5 DEF Numbers
<1>17. Earlier' = old
  BY <1>1, <1>3 DEF Earlier
<1>18. PathInvBut(old)'
  BY <1>6, <1>7, <1>11, <1>12, <1>15 DEF PathInvBut
<1> QED
  BY <1>7, <1>16, <1>17, <1>18 DEF LifeInv, LifePath

\* A message of the old connection is dropped.
LEMMA OldBatchFailsLifeInv ==
    ASSUME LifeInv, OldBatchFails
    PROVE  LifeInv'
<1>1. /\ UNCHANGED pathvars /\ UNCHANGED <<restarts, epoch, inflight>>
      /\ oldwire \in Seq(message_t) /\ oldwire # <<>> /\ oldwire' = Tail(oldwire)
  BY DEF OldBatchFails, LifeInv, LifeTypeOK
<1>2. PICK old : old = Earlier /\ PathInvBut(old)
  BY DEF LifeInv, LifePath
<1>3. PathInvBut(old)'
  BY <1>1, <1>2, NextPathInvBut
<1>4. Earlier' = old
  BY <1>1, <1>2 DEF Earlier
<1>5. LifeTypeOK'
  BY <1>1 DEF LifeInv, LifeTypeOK
<1>6. UNCHANGED <<cmd, table, add_queue, add_pairs, wire, cur>>
  BY <1>1 DEF pathvars, vars, ecvars, scvars
<1>7. \A x : (AddIn(x)' <=> AddIn(x)) /\ (OldIn(x)' => OldIn(x))
  <2>1. \A j \in 1..Len(oldwire') :
           j + 1 \in 1..Len(oldwire) /\ oldwire'[j] = oldwire[j + 1]
    BY <1>1
  <2> QED
    BY <1>6, <2>1 DEF AddIn, OldIn
<1>8. Numbers'
  BY <1>1, <1>6, <1>7 DEF LifeInv, Numbers
<1> QED
  BY <1>3, <1>4, <1>5, <1>8 DEF LifeInv, LifePath

\* Every step keeps the invariant.
LEMMA NextLifeInv ==
    ASSUME LifeInv, [RestartNext]_restartvars
    PROVE  LifeInv'
<1>1. CASE PathNext /\ UNCHANGED lifevars
  BY <1>1, PathLifeInv
<1>2. CASE UNCHANGED restartvars
  BY <1>2, PathLifeInv DEF restartvars
<1> QED
  BY <1>1, <1>2, RestartLifeInv, RecvOldLifeInv, OldBatchFailsLifeInv
  DEF RestartNext

-----------------------------------------------------------------------------
(* What an earlier life left in the table keeps handshakes from ending.    *)

\* While an old entry of k is in the table no worker holds a SYN-ACK for k.
Unanswered ==
    \A k \in Endpoint : Leftover(k) /\ k \notin inflight =>
        \A w \in Worker : worker[w] # Idle =>
            ~(pkt(w).flags = {"SYN", "ACK"} /\ pkt(w).dst = k)

BlockInv == LifeInv /\ Unanswered /\ LeftoverBlocks

\* The only SYN-ACKs that reach the Frontend are those the table has no entry
\* for: the switch answers a SYN of a client by itself.
LEMMA SynAckMisses ==
    ASSUME NEW p, ToFrontend(p, table), p.flags = {"SYN", "ACK"}
    PROVE  table[p.dst] = NULL
BY DEF ToFrontend, SynRespond, oft_hit, client, direction

\* An entry of this life never becomes one of an earlier life, and an add of
\* an earlier life makes an entry only where one was underway.
LEMMA NoNewLeftover ==
    ASSUME LifeInv, PathTypeOK, [PathNext]_pathvars, UNCHANGED lifevars,
           NEW k \in Endpoint, Leftover(k)', k \notin inflight
    PROVE  Leftover(k)
<1>1. epoch' = epoch /\ epoch[k] \in Nat
  BY DEF lifevars, LifeInv, LifeTypeOK
<1>2. table'[k] # NULL /\ table'[k].n <= epoch[k]
  BY <1>1 DEF Leftover
<1>3. ASSUME NEW x, AddIn(x), x.key = k, table'[k].n = x.n
      PROVE  FALSE
  <2>1. x.n \in Nat /\ x.n > epoch[k]
    BY <1>3, AddType DEF LifeInv, Numbers
  <2> QED
    BY <1>1, <1>2, <1>3, <2>1
<1> QED
  BY <1>2, <1>3, NewEntries DEF Leftover

\* A connection is established by a SYN-ACK for its key and by nothing else.
LEMMA EstablishedBySynAck ==
    ASSUME MemInv, Clean, NEW w \in Worker, Handle(w), NEW k \in Endpoint,
           Mapped(k)', FlowOf(k)'.state \in Established
    PROVE  \/ Mapped(k) /\ FlowOf(k).state \in Established
           \/ /\ worker[w] # Idle
              /\ pkt(w).flags = {"SYN", "ACK"} /\ pkt(w).dst = k
<1>1. /\ TypeOK /\ FlowsFilledIn /\ MemorySafe
      /\ flow_hash_map \in [Endpoint -> Addr \cup {NULL}]
      /\ heap \in [Addr -> flow_data_t] /\ NULL \notin Addr
  BY NullAssumption DEF MemInv, TypeOK
<1>2. CASE UNCHANGED <<flow_hash_map, heap>>
  BY <1>2 DEF Mapped, FlowOf
<1>3. ASSUME flow_hash_map'[k] = flow_hash_map[k],
             \A a \in Addr : heap'[a].state \in Established
                                => heap[a].state \in Established
      PROVE  Mapped(k) /\ FlowOf(k).state \in Established
  BY <1>1, <1>3 DEF Mapped, FlowOf
<1>4. Zeroed.state \notin Established /\ "BACKEND_SYN" \notin Established
  BY DEF Zeroed, Established
<1>5. ASSUME Free(w), NEW a \in Addr, heap'[a].state \in Established
      PROVE  heap[a].state \in Established
  BY <1>1, <1>4, <1>5 DEF Free
<1>6. CASE SrcReset(w) \/ SrcFin(w) \/ DstReset(w) \/ DstFin(w)
  <2>1. Free(w) /\ flow_hash_map' = [flow_hash_map EXCEPT ![key(w)] = NULL]
    BY <1>6 DEF SrcReset, SrcFin, DstReset, DstFin, Teardown
  <2>2. flow_hash_map'[k] = flow_hash_map[k]
    BY <1>1, <2>1 DEF Mapped
  <2> QED
    BY <1>3, <1>5, <2>1, <2>2
<1>7. CASE SynAbort(w)
  BY <1>3, <1>5, <1>7 DEF SynAbort
<1>8. CASE SrcReroute(w) \/ SrcSameBackend(w)
  <2>1. In(w, "src", Established)
    BY <1>8 DEF SrcReroute, SrcSameBackend, SrcPayload
  <2>2. worker[w].ptr \in Addr /\ heap[worker[w].ptr].state \in Established
    BY <1>1, <2>1, InFlow DEF Established, In, flow
  <2>3. CASE UNCHANGED memory
    BY <1>2, <2>3 DEF memory
  <2>4. ASSUME NEW fd, SetFlow(w, fd)
        PROVE  Mapped(k) /\ FlowOf(k).state \in Established
    BY <1>1, <1>3, <2>2, <2>4 DEF SetFlow
  <2> QED
    BY <1>8, <2>3, <2>4 DEF SrcReroute, SrcSameBackend
<1>9. CASE SynAck(w)
  <2>1. In(w, "dst", {"BACKEND_SYN"}) /\ pkt(w).flags = {"SYN", "ACK"}
    BY <1>9 DEF SynAck
  <2>2. PICK fd : SetFlow(w, fd)
    BY <1>9 DEF SynAck
  <2>3. /\ worker[w] # Idle /\ key(w) = pkt(w).dst /\ worker[w].ptr \in Addr
        /\ \A l \in Endpoint \ {key(w)} : flow_hash_map[l] # worker[w].ptr
    BY <1>1, <2>1, InFlow, HeldFlow DEF In, key
  <2>4. CASE k = key(w)
    BY <2>1, <2>3, <2>4
  <2>5. CASE k # key(w)
    BY <1>1, <2>2, <2>3, <2>5 DEF SetFlow, Mapped, FlowOf
  <2> QED
    BY <2>4, <2>5
<1>10. CASE NewFlow(w)
  <2> DEFINE fd == [state |-> "BACKEND_SYN",
                    entry_data |-> lookup_balancing_rule(pkt(w).url),
                    recv_pkt |-> pkt(w)]
  <2>1. PICK a \in Addr :
           /\ heap' = [heap EXCEPT ![a] = fd]
           /\ flow_hash_map' = [flow_hash_map EXCEPT ![pkt(w).src] =
                                   IF @ = NULL THEN a ELSE @]
    BY <1>10 DEF NewFlow
  <2>2. fd.state = "BACKEND_SYN"
    OBVIOUS
  <2> HIDE DEF fd
  <2>3. flow_hash_map'[k] \in {a, flow_hash_map[k]} \ {NULL}
    BY <1>1, <2>1 DEF Mapped
  <2>4. flow_hash_map'[k] # a
    BY <1>1, <1>4, <2>1, <2>2 DEF FlowOf
  <2> QED
    BY <1>1, <2>1, <2>3, <2>4 DEF Mapped, FlowOf
<1>11. CASE \/ LookupDst(w) \/ SrcNoRule(w) \/ SrcForward(w)
            \/ SynRetry(w) \/ SynAckIgnored(w) \/ DstForward(w)
            \/ NewFlowDropped(w)
  BY <1>2, <1>11 DEF LookupDst, SrcNoRule, SrcForward, SynRetry, SynAckIgnored,
                     DstForward, NewFlowDropped, memory
<1> QED
  BY <1>6, <1>7, <1>8, <1>9, <1>10, <1>11 DEF Handle

\* A part of a case touches no flow but the one it is about.
LEMMA PieceLeaves ==
    ASSUME MemInv, Clean, NEW w \in Worker, Piece(w),
           NEW k \in Endpoint, k \notin mingled'
    PROVE  /\ k \notin mingled
           /\ Mapped(k)' => Mapped(k) /\ FlowOf(k)' = FlowOf(k)
<1>1. /\ TypeOK /\ FlowsFilledIn /\ MemorySafe /\ PartsMingled
      /\ flow_hash_map \in [Endpoint -> Addr \cup {NULL}]
      /\ heap \in [Addr -> flow_data_t] /\ NULL \notin Addr
  BY NullAssumption DEF MemInv, TypeOK
<1>2. PieceShape(w)
  BY <1>1, PieceIs
<1>3. k # key(w) /\ k \notin mingled
  BY <1>2 DEF PieceShape
<1>4. CASE UNCHANGED <<flow_hash_map, heap, live, aborted, raced>>
  BY <1>3, <1>4 DEF Mapped, FlowOf
<1>5. CASE \E at \in {"src", "dst"} : In(w, at, Awake)
  <2>1. worker[w].ptr \in Addr /\ flow_hash_map[k] # worker[w].ptr
    BY <1>1, <1>3, <1>5, InFlow, HeldFlow DEF Awake
  <2>2. CASE Rewritten(w)
    BY <1>1, <1>3, <2>1, <2>2 DEF Rewritten, RewrittenTo, Mapped, FlowOf
  <2>3. CASE Erased(w)
    BY <1>1, <1>3, <2>1, <2>3 DEF Erased, Free, Mapped, FlowOf
  <2> QED
    BY <1>2, <1>4, <2>2, <2>3 DEF PieceShape
<1> QED
  BY <1>2, <1>4, <1>5 DEF PieceShape, Rewritten, Erased

\* A step of the path within a life.
LEMMA PathBlockInv ==
    ASSUME ~StaleRouting, BlockInv, [PathNext]_pathvars, UNCHANGED lifevars
    PROVE  BlockInv'
<1>1. /\ LifeInv /\ Unanswered /\ LeftoverBlocks /\ PathTypeOK /\ MemInv /\ TypeOK
      /\ FlowsFilledIn /\ PartsMingled
  BY DEF BlockInv, LifeInv, LifePath, PathInvBut, PathTypeOK, MemInv
<1>2. LifeInv'
  BY <1>1, PathLifeInv
<1>3. inflight' = inflight
  BY DEF lifevars
<1>4. ASSUME NEW k \in Endpoint, Leftover(k)', k \notin inflight
      PROVE  /\ Leftover(k)
             /\ \A w \in Worker : worker[w] # Idle =>
                   ~(pkt(w).flags = {"SYN", "ACK"} /\ pkt(w).dst = k)
  BY <1>1, <1>4, NoNewLeftover DEF Unanswered
<1>5. ASSUME NEW k \in Endpoint, Leftover(k)', k \notin inflight,
             NEW w \in Worker, worker'[w] # Idle,
             pkt(w)'.flags = {"SYN", "ACK"}, pkt(w)'.dst = k
      PROVE  FALSE
  <2> DEFINE kept == \/ worker'[w] = worker[w]
                     \/ worker[w] # Idle /\ worker'[w].pkt = worker[w].pkt
  <2>1. ~kept
    BY <1>4, <1>5 DEF pkt
  <2>2. ASSUME NEW v \in Worker, NEW p \in Packet, Arrive(v, p)
        PROVE  kept
    <3>1. CASE v = w
      <4>1. worker'[w].pkt = p /\ ToFrontend(p, table)
        BY <1>1, <2>2, <3>1 DEF Arrive, Rx, TypeOK
      <4>2. table[k] = NULL
        BY <1>5, <4>1, SynAckMisses DEF pkt
      <4> QED
        BY <1>4, <1>5, <4>2 DEF Leftover
    <3> QED
      BY <1>1, <2>2, <3>1 DEF Arrive, Rx, TypeOK
  <2>3. ASSUME NEW v \in Worker, Work(v)
        PROVE  kept
    BY <1>1, <1>5, <2>3, WorkerEffect DEF Work
  <2>4. ASSUME \/ \E u \in Url : Learn(u)
               \/ Batch \/ Apply \/ UNCHANGED pathvars
        PROVE  kept
    <3>1. worker' = worker
      BY <2>4 DEF Learn, UpdateRule, Batch, Apply, workervars, pathvars, vars
    <3> QED
      BY <3>1
  <2> HIDE DEF kept
  <2> QED
    BY <2>1, <2>2, <2>3, <2>4 DEF PathNext
<1>6. Unanswered'
  BY <1>3, <1>5 DEF Unanswered
<1>7. ASSUME Clean', NEW k \in Endpoint, k \notin mingled',
             Leftover(k)', k \notin inflight,
             Mapped(k)', FlowOf(k)'.state \in Established
      PROVE  FALSE
  <2>1. Clean /\ k \notin mingled => ~(Mapped(k) /\ FlowOf(k).state \in Established)
    BY <1>1, <1>4, <1>7 DEF LeftoverBlocks
  <2>2. CASE UNCHANGED memory
    <3>1. Clean /\ k \notin mingled
      BY <1>7, <2>2 DEF memory, Clean
    <3> QED
      BY <1>7, <2>1, <2>2, <3>1 DEF memory, Mapped, FlowOf
  <2>3. ASSUME NEW w \in Worker, Work(w)
        PROVE  FALSE
    <3>1. Run(w) /\ Clean
      BY <1>7, <2>3, CleanBackwards DEF Work, Next
    <3>2. CASE Handle(w)
      <4>1. k \notin mingled
        BY <1>1, <1>7, <3>2, HandleEffect
      <4> QED
        BY <1>1, <1>4, <1>7, <2>1, <3>1, <3>2, <4>1, EstablishedBySynAck
    <3>3. CASE Piece(w)
      BY <1>1, <1>7, <2>1, <3>1, <3>3, PieceLeaves
    <3> QED
      BY <3>1, <3>2, <3>3 DEF Run, Piece
  <2>4. CASE ~\E w \in Worker : Work(w)
    BY <2>2, <2>4
    DEF PathNext, Arrive, Rx, Learn, UpdateRule, Batch, Apply, workervars,
        pathvars, vars, memory
  <2> QED
    BY <2>3, <2>4
<1>8. LeftoverBlocks'
  BY <1>3, <1>7 DEF LeftoverBlocks
<1> QED
  BY <1>2, <1>6, <1>8 DEF BlockInv


\* Every step keeps old entries blocking.
LEMMA NextBlockInv ==
    ASSUME ~StaleRouting, BlockInv, [RestartNext]_restartvars
    PROVE  BlockInv'
<1>1. LifeInv'
  BY NextLifeInv DEF BlockInv
<1>2. CASE PathNext /\ UNCHANGED lifevars
  BY <1>2, PathBlockInv
<1>3. CASE UNCHANGED restartvars
  BY <1>3, PathBlockInv DEF restartvars
<1>4. CASE Restart
  <2>1. /\ flow_hash_map' = [k \in Endpoint |-> NULL]
        /\ worker' = [w \in Worker |-> Idle]
    BY <1>4 DEF Restart
  <2>2. Unanswered' /\ LeftoverBlocks'
    BY <2>1 DEF Unanswered, LeftoverBlocks, Mapped
  <2> QED
    BY <1>1, <2>2 DEF BlockInv
<1>5. CASE RecvOld \/ OldBatchFails
  <2>1. /\ UNCHANGED <<flow_hash_map, heap, worker, aborted, raced, mingled>>
        /\ UNCHANGED <<table, epoch, inflight>>
    BY <1>5 DEF RecvOld, OldBatchFails, pathvars, vars, scvars
  <2>2. Unanswered' /\ LeftoverBlocks'
    BY <2>1 DEF BlockInv, Unanswered, LeftoverBlocks, Leftover, Mapped, FlowOf,
                Clean, pkt
  <2> QED
    BY <1>1, <2>2 DEF BlockInv
<1> QED
  BY <1>2, <1>3, <1>4, <1>5 DEF RestartNext

-----------------------------------------------------------------------------

\* In every life of the Frontend each entry it caused is what its flow asked
\* for last or has a newer del on its way, whatever earlier lives left in the
\* table and however late what they sent arrives (run_controller keeps the
\* entries and goes on reading the old connection).
THEOREM LivesJustified == RestartSpec => []LifeJustified
<1>1. RestartInit => LifeInv
  BY InitLifeInv
<1>2. LifeInv /\ [RestartNext]_restartvars => LifeInv'
  BY NextLifeInv
<1>3. LifeInv => LifeJustified
  <2> SUFFICES ASSUME LifeInv, NEW k \in Endpoint,
                      Trusted(k), table[k] # NULL, ~Leftover(k)
               PROVE  \/ Current(k, table[k].d_index, table[k].n)
                      \/ DelPending(k, table[k].n)
    BY DEF LifeJustified
  <2>1. PICK old : old = Earlier /\ PathInvBut(old)
    BY DEF LifeInv, LifePath
  <2>2. table[k].n \in Nat
    BY <2>1, StageTypes DEF PathInvBut
  <2>3. ~Exempt(old, k, table[k].n)
    BY <2>1, <2>2, ExemptEarlier DEF Leftover
  <2> QED
    BY <2>1, <2>3 DEF PathInvBut, TableEntries, Justified
<1> QED
  BY <1>1, <1>2, <1>3, PTL DEF RestartSpec

\* When packets are routed by the table as it is, an entry an earlier life
\* left behind keeps a connection of the present one from being established:
\* the SYN-ACK of the new backend meets the entry (ig_md.lb_flag stays clear)
\* and the worker that waits for it never sees it.  (The client's bare ACKs
\* meet the entry as well, and go to the old backend.)
THEOREM LeftoversBlock ==
    ASSUME ~StaleRouting
    PROVE  RestartSpec => []LeftoverBlocks
<1>1. RestartInit => BlockInv
  <2> SUFFICES ASSUME RestartInit PROVE BlockInv
    OBVIOUS
  <2>1. /\ flow_hash_map = [k \in Endpoint |-> NULL]
        /\ worker = [w \in Worker |-> Idle]
    BY DEF RestartInit, PathInit, Init
  <2> QED
    BY <2>1, InitLifeInv DEF BlockInv, Unanswered, LeftoverBlocks, Mapped
<1>2. BlockInv /\ [RestartNext]_restartvars => BlockInv'
  BY NextBlockInv
<1>3. BlockInv => LeftoverBlocks
  BY DEF BlockInv
<1> QED
  BY <1>1, <1>2, <1>3, PTL DEF RestartSpec
=============================================================================
