----------------------------- MODULE OffloadPath -----------------------------
(***************************************************************************)
(* The life of an offloaded connection end to end: the packet workers      *)
(* (PktProcessor) decide that a connection is offloaded or no longer is,   *)
(* the main thread (EntryController) batches their commands, the switch    *)
(* controller (SwitchController) applies them, and what the table then     *)
(* says decides which packets come back to the workers (SwitchDataPlane).  *)
(***************************************************************************)
EXTENDS PktProcessor, SwitchDataPlane

CONSTANTS
    BATCH_SIZE, THRESHOLD, TableSize,
    StaleRouting  \* packets may reach a worker after the table they were
                  \* routed by has changed (rx ring, link)

ASSUME BatchAssumption ==
    BATCH_SIZE \in Nat \ {0} /\ THRESHOLD \in Nat /\ TableSize \in Nat

ASSUME StaleRoutingAssumption == StaleRouting \in BOOLEAN

VARIABLES add_pairs, del_keys, pc, todo, room, overtaken, wire, cur, table,
          failed

EC == INSTANCE EntryController
SC == INSTANCE SwitchController

ecvars == <<add_pairs, del_keys, pc, todo, room, overtaken>>
scvars == <<cur, table, failed>>
pathvars == <<vars, ecvars, wire, scvars>>

PathInit == Init /\ EC!Init /\ SC!Init

Arrive(w, p) ==
    /\ ~StaleRouting => ToFrontend(p, table)
    /\ Rx(w, p)
    /\ UNCHANGED <<ecvars, wire, scvars>>

Work(w) == Run(w) /\ UNCHANGED <<ecvars, wire, scvars>>

Learn(u) == UpdateRule(u) /\ UNCHANGED <<ecvars, wire, scvars>>

\* Everything of the workers but the queues.
workervars == <<memory, worker, send_pkts, rule_map, cmd>>

Batch == EC!Next /\ UNCHANGED <<workervars, scvars>>

Apply == SC!Next /\ UNCHANGED <<workervars, queues, ecvars>>

PathNext ==
    \/ \E w \in Worker, p \in Packet : Arrive(w, p)
    \/ \E w \in Worker : Work(w)
    \/ \E u \in Url : Learn(u)
    \/ Batch
    \/ Apply

PathSpec == PathInit /\ [][PathNext]_pathvars

(***************************************************************************)
(* Fairness: the workers poll without blocking, the main thread's timer is *)
(* periodic and the controller's epoll loop wakes up for every message.    *)
(* Nothing obliges clients or backends to send.                            *)
(***************************************************************************)
Fairness ==
    /\ \A w \in Worker : WF_pathvars(Work(w))
    /\ WF_pathvars(Batch)
    /\ WF_pathvars(Apply)

FairPathSpec == PathSpec /\ Fairness

-----------------------------------------------------------------------------
(* Where a del command newer than command n of key k can be.               *)

HasNewer(dels, k, n) == \E i \in 1..Len(dels) : dels[i].key = k /\ dels[i].n > n

DelQueued(k, n)  == \E w \in Worker : HasNewer(del_queue[w], k, n)
DelBatched(k, n) == HasNewer(del_keys, k, n)

\* in the i-th message on the wire or a later one
DelOnWire(k, n, i) ==
    \E j \in 1..Len(wire) : j >= i /\ HasNewer(wire[j].dels, k, n)

DelApplying(k, n) == HasNewer(cur.dels, k, n)

DelPending(k, n) ==
    DelQueued(k, n) \/ DelBatched(k, n) \/ DelOnWire(k, n, 1) \/ DelApplying(k, n)

-----------------------------------------------------------------------------
(* Properties.                                                             *)

message_t == [adds : Seq(add_t), dels : Seq(del_t)]

\* Every variable of the control path has its type.
PathTypeOK ==
    /\ TypeOK
    /\ add_pairs \in Seq(add_t) /\ del_keys \in Seq(del_t)
    /\ pc \in {"idle", "adds", "dels"}
    /\ todo \subseteq Worker
    /\ room \in 0..BATCH_SIZE
    /\ overtaken \subseteq Endpoint
    /\ wire \in Seq(message_t)
    /\ cur \in message_t
    /\ table \in [Endpoint -> [d_index : DIndex, n : Nat] \cup {NULL}]
    /\ failed \subseteq Endpoint

\* Memory is clean, no case of flow k ran in parts (so two workers were never
\* inside it together), no del of k was drained ahead of an older add, and no
\* command of k was lost to an error of the switch's driver.
Trusted(k) == Clean /\ k \notin mingled /\ k \notin overtaken /\ k \notin failed

\* Flow k is offloaded to backend d by command n and nothing newer was issued.
Current(k, d, n) ==
    n = cmd[k] /\ Offloaded(k) /\ FlowOf(k).entry_data.d_index = d

\* A switch entry is the one its flow asked for last, with the backend the
\* flow is still connected to, or a del issued after it is on its way.  So
\* no entry of a closed or rerouted connection is orphaned: the switch may
\* bypass the Frontend to the wrong backend only while a del is in transit.
\* Excepted are the keys of which get_offloaded_entries drained a del ahead
\* of an older add (it drains all adds first, so an add enqueued in between
\* waits for the next batch while its del goes out with this one), the flows
\* two workers were inside together (CommandsAlternate), and the keys of
\* which a command was lost to an error of the switch's driver.
EntryJustified ==
    \A k \in Endpoint :
        Trusted(k) /\ table[k] # NULL =>
            \/ Current(k, table[k].d_index, table[k].n)
            \/ DelPending(k, table[k].n)

\* While no del is on its way, a packet the switch forwards by itself is the
\* packet the Frontend would have sent: the egress pipeline and the entry's
\* d_index do to it what forward_inbound_pkt or forward_outbound_pkt would.
BypassEquivalent ==
    \A p \in Packet :
        LET k == client(p)
            e == Egress(p, table)
        IN  /\ ToBackend(p, table) \/ ToClient(p, table)
            /\ Trusted(k) /\ ~DelPending(k, table[k].n)
            => /\ Offloaded(k)
               /\ Header(e.src, e.dst, e.flags, e.url) =
                     IF direction(p) = "inbound"
                     THEN forward_inbound_pkt(FlowOf(k).entry_data.d_index, p)
                     ELSE forward_outbound_pkt(p)

\* get_offloaded_entries leaves nothing behind: all it drains goes out in the
\* same message, so the carry-over code never runs, the buffers of
\* 2 * BATCH_SIZE never overflow, and an add never stays in the buffer while
\* a del drained with it is sent.
OneBatch ==
    /\ pc = "idle" => add_pairs = <<>> /\ del_keys = <<>>
    /\ pc = "adds" => Len(add_pairs) + room = BATCH_SIZE /\ del_keys = <<>>
    /\ pc = "dels" => Len(add_pairs) <= BATCH_SIZE /\ Len(del_keys) + room = BATCH_SIZE

(***************************************************************************)
(* The inductive strengthening of EntryJustified: an add is current, or a  *)
(* newer del travels behind it, at the same stage or at one the add has    *)
(* already passed.                                                         *)
(***************************************************************************)
Justified(k, d, n, behind) ==
    Trusted(k) => n <= cmd[k] /\ (Current(k, d, n) \/ behind)

QueuedAdds ==
    \A w \in Worker : \A i \in 1..Len(add_queue[w]) :
        LET x == add_queue[w][i] IN
        Justified(x.key, x.d_index, x.n, DelQueued(x.key, x.n))

BatchedAdds ==
    \A i \in 1..Len(add_pairs) :
        LET x == add_pairs[i] IN
        Justified(x.key, x.d_index, x.n,
                  DelQueued(x.key, x.n) \/ DelBatched(x.key, x.n))

WireAdds ==
    \A j \in 1..Len(wire) : \A i \in 1..Len(wire[j].adds) :
        LET x == wire[j].adds[i] IN
        Justified(x.key, x.d_index, x.n,
                  \/ DelQueued(x.key, x.n) \/ DelBatched(x.key, x.n)
                  \/ DelOnWire(x.key, x.n, j))

\* A command of the set old, of pairs of a key and a number, is exempt: it is
\* of an earlier life of the Frontend (FrontendRestart).
Exempt(old, k, n) == <<k, n>> \in old

ApplyingAdds(old) ==
    \A i \in 1..Len(cur.adds) :
        LET x == cur.adds[i] IN
        \/ Exempt(old, x.key, x.n)
        \/ Justified(x.key, x.d_index, x.n, DelPending(x.key, x.n))

TableEntries(old) ==
    \A k \in Endpoint : table[k] # NULL =>
        \/ Exempt(old, k, table[k].n)
        \/ Justified(k, table[k].d_index, table[k].n, DelPending(k, table[k].n))

PathInvBut(old) ==
    /\ PathTypeOK
    /\ MemInv
    /\ OneBatch
    /\ QueuedAdds /\ BatchedAdds /\ WireAdds /\ ApplyingAdds(old)
    /\ TableEntries(old)

PathInv == PathInvBut({}) /\ CommandsAlternate

\* No command is anywhere between a worker and the table.
Settled ==
    /\ \A w \in Worker : add_queue[w] = <<>> /\ del_queue[w] = <<>>
    /\ add_pairs = <<>> /\ del_keys = <<>> /\ wire = <<>>
    /\ cur = SC!NoMessage

\* Once the commands have settled, a flow in state OFFLOAD has its entry in
\* the switch, so its outbound packets do not come to the Frontend.
SettledOffload ==
    \A k \in Endpoint :
        Settled /\ Trusted(k) /\ Offloaded(k) => table[k] # NULL

\* An entry whose connection is closed, rerouted or no longer offloaded goes
\* away, or the connection is offloaded again, whatever the network does.
StaleEntryGoes ==
    \A k \in Endpoint :
        table[k] # NULL /\ ~Offloaded(k)
            ~> table[k] = NULL \/ Offloaded(k) \/ ~Trusted(k)
=============================================================================
