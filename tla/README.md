# Miresga: TLA+ models, checks and proofs

Miresga is a layer-7 load balancer split over three machines: a programmable
switch, a front-end server (the *Frontend*) and an agent on every back-end
server.  A connection is opened by the switch, its first request is parsed by
the Frontend, which picks a backend by url and splices the two halves; after
that the Frontend may *offload* the connection to the switch, which then
forwards its packets directly until a packet with a request, a FIN or a RST
brings the Frontend back in.  What makes the system correct is agreement
between four places that each hold part of a connection's state: the
Frontend's flow table, the commands on their way to the switch, the switch's
offload table and the maps of the back-end agent.  This directory models those
four and the ways they can disagree, and around them what the system depends on:
how it starts, how its messages are framed, what a restart leaves behind, and
what a client at the end of a lossy network sees of all this.

Paths below are relative to the repository root.

## 1. Inventory

| Part | State | Operations | Talks to |
|---|---|---|---|
| **Packet workers**, `Frontend/subprojects/pkt_processor/pkt_processor.cpp` | `flow_hash_map` (256 libcuckoo maps, endpoint to `flow_data_t*`), the `flow_data_t` objects in DPDK memory, one rx queue per worker | `process_pkts`: two lookups (source, then destination), a `switch` on the flow's state, six packet builders | shares everything but the rx queue with the other workers; produces into `add_queue` and `del_queue`; reads the rule tables |
| **Rule controller**, `.../rule_controller/rule_controller.cpp` | url to rule, d_index to backend address, the virtual server's address | look up, add, delete | written by the main thread, read by the workers |
| **Entry controller and main loop**, `.../entry_controller/entry_controller.cpp`, `Frontend/main.cpp` | `add_pairs`, `del_keys`, `remain_*_size` | every 100 us: drain the two queues, send one `OFFLOAD_ENTRIES`; on a message of the switch: update the rule tables | consumes the queues, TCP connection to the switch |
| **Switch controller**, `Switch/control_plane/src/controller.c` | receive buffer, driver session, the configuration | accept a Frontend and send it the configuration; apply `OFFLOAD_ENTRIES` to the table | TCP, switch driver |
| **Switch data plane**, `Switch/data_plane/l7lb_switch.p4` | `offload_connection_table` and static tables | answer SYNs, decide Frontend / backend / client, rewrite headers | every packet passes it |
| **Back-end agent**, `Backend/ingress_xdp.c`, `Backend/egress_tc.c` | BPF maps `seq_map`, `flow_map` | translate acknowledgement and SACK numbers going in, sequence numbers going out | the kernel's TCP |
| **XDP loader**, `Backend/xdp_loader.c`, `Backend/unload.sh` | what is attached, pinned and created in the kernel | load: attach ingress, pin the maps, load egress with them, create hook, attach; unload | libbpf, kernel |
| **Driver client**, `Switch/control_plane/src/client.c`, `main.c` | static tables of the data plane | initialise the driver, look up tables, fill them, start the controller | switch driver |

What is hard in it:

* `find` copies a raw `flow_data_t*` out of the map, and the two directions of
  a connection are usually handled by different workers (RSS hashes source and
  destination), so one can free what the other is about to use.
* `flow_data_t` has no lock.  Two workers can be inside the cases of one flow at the
  same time: it can be offloaded between another worker's check of its state and its
  erase, and a reroute writes the state, the rule and the cached request one after the
  other, freeing the request's buffer in between.
* Teardown is five effects (reply, reset of the other end, del command, erase,
  free) written out in five places, one of them incomplete.
* A del and an add of the same connection are put in two different queues, by
  two different workers, drained one queue after the other while the workers
  go on, sent in one message and applied adds first.
* Rerouting moves a connection to another backend while the switch still has
  the old entry.
* The controller ignores what its driver returns: an add or del that fails is passed
  over, and when `bf_rt_begin_batch` fails everything just received is dropped.
* The agent's maps survive the connection they describe, are bounded, and
  their arithmetic wraps.
* Start-up distributes the configuration in three messages that the receiver
  does not separate, and workers run before it arrives.
* `OFFLOAD_ENTRIES` messages travel on a byte stream and are taken out of a
  buffer smaller than a full message, which keeps the bytes of earlier ones.
* A backend's packet is matched to a flow by the client's address only, and the
  backend a connection has left is never reset: its packets, and its idea of the
  connection, stay around.
* The loader stops at the first failing call and undoes nothing.
* When the Frontend goes down, its entries stay in the switch.

The properties that make each part correct are listed with the runs (section 3),
the hazards with their lines in `PROJECT.json`.

## 2. Modules

```
FlowData            endpoints, packets, rules, flows, commands
  PktProcessor      the packet workers                (pkt_processor.cpp)
  SwitchDataPlane   the P4 program's decisions        (l7lb_switch.p4)
EntryController     drain, batch, send                (entry_controller.cpp, main.cpp)
SwitchController    receive, apply to the table       (controller.c)
OffloadPath         PktProcessor + SwitchDataPlane + EntryController + SwitchController
  OffloadTable      abstract specification: wanted and actual entry of a key
  OffloadRefinement OffloadPath implements OffloadTable
  FrontendRestart   OffloadPath with a Frontend that dies and comes back
MessageStream       OFFLOAD_ENTRIES as bytes; implements SwitchController
                                                      (entry_controller.cpp, controller.c)
Connection          PktProcessor between client and backends, lossy network
Startup             both programs from their start to a configured Frontend
                                                      (main.c, client.c, controller.c, main.cpp)
BackendAgent        sequence number splicing          (ingress_xdp.c, egress_tc.c)
AgentLoader         load and unload of the agent      (xdp_loader.c, unload.sh)
PktProcessorProofs, OffloadPathProofs, ConnectionProofs, MessageStreamProofs,
StartupProofs, BackendAgentProofs, AgentLoaderProofs, FrontendRestartProofs  theorems
MC...                                                 small instances for TLC
```

**FlowData.**  An endpoint stands for an (ip, port) pair; key and crc8 shard are
functions of it.  A backend's endpoint is identified with its `d_index`.
Commands carry a number `n` that is not in the program: it numbers the commands
issued for a key, so that properties can say "newer".

**PktProcessor.**  A worker handles a packet in steps, because memory shared with
the other workers is touched in each: `Rx` (receive, parse, `find(src_key)`),
`LookupDst` (`find(dst_key)`, when the first lookup failed or met a state without a
case) and the case of the two `switch` statements, or the code after them.  `Handle`
runs a case in one step:

| Action | Lines | Action | Lines |
|---|---|---|---|
| `SrcReset`, `SrcFin` | 91-137 | `SynAckIgnored`, `SynAck` | 249-274 |
| `SrcNoRule`, `SrcReroute`, `SrcSameBackend` | 138-204 | `DstReset`, `DstFin` | 275-317 |
| `SrcForward` | 205-210 | `DstForward` | 318-330 |
| `SynAbort`, `SynRetry` | 211-237 | `NewFlowDropped`, `NewFlow` | 342-388 |

The cases that check or change their flow may instead run in parts, with other
workers on the same flow in between.  `BeginTeardown`, `BeginPayload` and
`BeginSynAck` enter such a case, and each part reads and writes what it then finds:

| Case | Parts | Lines |
|---|---|---|
| teardown (`SrcReset`, `SrcFin`, `DstReset`, `DstFin`) | `CheckPart` (state, del), `ErasePart` (erase, free) | 91-137, 275-317 |
| `SrcReroute` | `LeavePart` (state, del), `StatePart`, `RulePart`, `FreePart` and `CachePart` (the old and the new buffer of `recv_pkt`) | 151-176 |
| `SrcSameBackend` | `TogglePart` (state), `AddPart` or `DelPart` | 177-194 |
| `SynAck` | `AnswerPart` (state), `OfferPart` (add), `ReplayPart` (reads rule and request) | 249-274 |

A case in whose flow no other worker steps between its parts has the effect of `Handle`:
the parts commute with everything the others do elsewhere, the queues being numbered by
key and split by producer.  So both forms are kept: `Handle` is the undisturbed case,
about which the properties speak; the parts are the overlaps, and `mingled` names their
keys.  With one worker there is nobody to overlap with, `Begin` is disabled, and nothing
is excepted.  The other cases write nothing of a flow, but for `NewFlow`, which files a
flow only when it is filled in, and `SynAbort`, which is on record in `aborted`.

`heap`, `live` and `flow_hash_map` model memory: `Free` zeroes the block
(`rte_free` does), a pointer kept over a free reads state `INIT`, which is no
case of either `switch`, until `NewFlow` hands the block out again; `insert`
does not replace an existing key.  A flow's `recv_pkt` buffer is a field of it: a
teardown frees both, `SrcReroute` frees the buffer and allocates another.  Between
these two calls the flow points to freed memory, where `FreePart` lets any request
be found, that of another client included.  A worker whose flow has been freed in
the middle of a case ends it (`LostPart`); what it writes to the freed block is not
followed, and `raced` records that it happened.  `send_rst_pkt` writes the backend's address
without the conversion to network order the other builders make; the model keeps
that by giving it the destination `Unconverted(d)`.  `UpdateRule` is one
`add_balancing_rule` call of the receive branch in `main.cpp`.

**EntryController.**  `Timer` is the start of `get_offloaded_entries`;
`TakeAdds(w)` and `TakeDels(w)` are the bulk dequeue reaching the sub-queue of
one producer (moodycamel's queue is FIFO per producer only), `Flush` builds and
sends the message.  Workers may enqueue between any two of these.

**SwitchController.**  `Recv`, then one `AddEntry` or `DelEntry` per entry, adds
first.  The driver refuses an add of a present key or to a full table, and the
code ignores that.  `AddFails` and `DelFails` are any other error of these calls, and
`BatchFails` is `bf_rt_begin_batch` failing (267-270), which drops all messages `recv`
returned.

**SwitchDataPlane** has no state of its own: `ToFrontend`, `ToBackend`,
`ToClient`, `SynRespond` and `Egress` are what the pipeline does with a packet,
given the table.

**OffloadPath** composes them.  A packet only arrives at a worker when the table
sends it to the Frontend or, with `StaleRouting`, at any time: a packet may wait
in a ring while the table changes.

**OffloadTable** is what the offload path promises, without queues, batches,
messages or controller.  A key has a wanted backend, the number of times this has
changed, and an actual entry that remembers the command it stems from.  `Ask` and
`TakeBack` change what is wanted.  `Install` fills an empty place with what some
command asked for, and if that is the latest command, with the backend wanted now;
`Remove` needs that something was taken back before.  One key moves at a time, the
set of trusted keys only shrinks, and an obsolete entry goes away
(`ObsoleteGoes`).  **OffloadRefinement** maps `OffloadPath` to it: the flow in OFFLOAD
is what is wanted, the switch's table is the actual entry, `Trusted` is the trust.

**FrontendRestart** adds `Restart` (every `return -1` of `main`, or the process
being killed, and a new start: flows, queues, buffers and rules are gone, the
entries of the switch are not), `RecvOld` (the controller still reads what the old
connection delivered, also between messages of the new one) and `OldBatchFails`.
The old connection is closed in order or the controller ends: a `recv` of -1 makes it
exit (257-260).

**MessageStream.**  `Encode` lays a message out as `get_offloaded_entries` does;
`Recv(n)` takes any prefix of the stream, up to the buffer's size, over the old
contents of `recv_buffer` (`Fill`); `BatchFails(n, j)` takes it and drops it, with the
`j` messages that end in it; `Header`, `AddEntry`, `DelEntry` and `Break` are the
loop, reading cell by cell, also beyond what was received; a driver call (`Call`) may
fail.  A cell never written,
or beyond the buffer, reads as any byte.  Scale: a key is one cell, a pair two.

**Startup.**  One action per phase of the switch's `main` and one per row of a
static table (`AddRow`); `Exit` is the `exit(1)` that follows every failing call, in
`run_controller` too.
The listening socket is open from `init_controller` on, so `Connect` succeeds
while tables are still being filled, and `Accept` only comes with
`run_controller`.  `Recv(n)` is a `recv` that returns n messages, of which the
`switch` of `main.cpp` handles the first.  `Request(u)` is a worker that meets a rule
whose backend has no address yet.

**Connection.**  A client sends its `Script` of requests on one connection and
repeats what is not answered; the network is a set, so packets are reordered,
and `Lose` drops any of them.  A reply that a short `rte_eth_tx_burst` or an error
return in the middle of a burst drops is such a loss: the flow has changed, the
packet is gone.  Client and backends are TCP as far as it matters here: a backend
answers a SYN for a connection it still holds with an ACK, and data without a
connection with a RST, and closes an idle connection at any time.  Sequence
numbers are left to `BackendAgent`; a request carries its number.

**AgentLoader.**  Each call of the loader that changes the kernel is an action
with its reason to fail (`XDP_FLAGS_UPDATE_IF_NOEXIST`, an existing pin, an
existing qdisc) as its guard; `Fail` is any failure, after which nothing is
undone.  The maps of a load are named by its number.  `UnloadLine` is a line of
`unload.sh`, which can be interrupted.

**BackendAgent** models both programs over modular numbers (`SeqSpace` stands
for 2^32).  The kernel's socket is the environment: it picks its own initial
number, retransmits, and accepts the first acknowledgement only if it
acknowledges exactly its SYN.

Operators marked *Faulty variant* in the modules are not part of any
specification.  Each is a plausible mistake in the definition that follows it,
and putting it in the definition's place breaks one of the properties;
`PROJECT.json` lists the pairs under `mutants`.

### History variables

Some behaviours of the code break the properties one would like to
state without condition.  They are in the model, and history variables record
them so that everything else can be stated exactly:

* `aborted`: a FIN or RST during the backend handshake frees the flow and leaves
  its key in the map (`SynAbort`, lines 212-223; finding 1 below);
* `raced`: a worker freed a flow while another worker held its pointer;
* `mingled`: keys of flows with a case that ran in parts, that is, which two workers may
  have been inside at the same time;
* `failed`: keys of commands lost to an error of the switch's driver, `begin_batch`
  included;
* `overtaken`: keys of which `get_offloaded_entries` drained a del while an older
  add was still in `add_queue`.  Adds are drained first, so this needs an add and
  a del of one key enqueued between the two dequeues of one call, or more than
  `BATCH_SIZE` adds waiting;
* `torn`, `overran` (MessageStream): a message was read, or dropped by a failing
  `begin_batch`, that `recv` had cut, or the byte after the received ones was a
  leftover header.  `InStep` is neither; `ends` says where each message ends;
* `lost` (Startup): messages received behind another one;
* `upset` (Connection): a copy of an answered request came late, a packet of a
  backend the flow is not at changed the flow, a backend closed a connection;
* `epoch`, `inflight` (FrontendRestart): what an earlier life had asked for;
* `cut` (AgentLoader): `unload.sh` was interrupted.

`Clean` is `~aborted /\ ~raced`; `Trusted(k)` is `Clean` and `k` not in `mingled`,
`overtaken` or `failed`.

## 3. Runs

All runs set `CHECK_DEADLOCK FALSE`: when no packet arrives and nothing is on
its way, the system has nothing to do.

| Run | Instance | Properties | Result |
|---|---|---|---|
| `pkt_reroute` | 2 clients, 2 backends, 4 urls (offloaded, not offloaded, other backend, no rule), 2 workers, 2 blocks of memory, 2 commands, cases in one step and in parts | `TypeOK`, `MemorySafe`, `CommandsAlternate`, `CachedRequestIsOwn`, `NoLeak`, `BothEndsReset` | holds, 1.6M states |
| `pkt_abort` | 1 client, 1 worker, nothing concurrent | `ValidState` | **violated**, finding 1 |
| `path_reroute` | 1 client, 2 backends, 1 worker, batches of 2, table of 1, stale routing, 4 commands, up to the first error of the driver, fairness | `PathTypeOK`, `EntryJustified`, `BypassEquivalent`, `OneBatch`, `PathInv`, `StaleEntryGoes`, `ImplementsOffloadTable` | holds, 137k states |
| `path_settled` | 2 workers, 2 urls of one backend, one offloaded, batches of 2 | `SettledOffload` | **violated**, finding 2 |
| `restart` | 2 backends, reroute, 1 worker, one restart at any moment, driver errors | `LifeJustified`, `LeftoverBlocks` | holds, 1.02M states |
| `stream` | up to 5 messages (2 once out of step), `recv` of any length, failing driver calls, 3 byte values (a key may look like a header) | `TypeOK`, `HandlesSuffice`, `ImplementsSwitchController`, `AllHandled` | holds, 1.3M states |
| `startup_config` | 2 backends, 3 rules, messages merged in any way | `TypeOK`, `TablesBeforeRules`, `CrashesEarly`, `GetsConfigured` | holds, 397 states |
| `conn_back` | 1 client, 3 requests: backend 1, 2, 1; `NetSize` 2 | `RightBackend`, `MovesUnharmed` | holds, 3.8M states |
| `conn_answer` | the same with `NetSize` 1, fairness | `GetsAnswers` | holds |
| `loader` | 4 loads, failing anywhere, unload interrupted anywhere | `TypeOK`, `SharedMaps`, `UnloadUndoes` | holds, 1635 states |
| `agent_limit` | 2 client endpoints, maps of 1 entry, 4 sequence numbers | `TypeOK`, `SpliceExact` | holds, 415k states |
| `agent_reuse` | 1 client endpoint connecting again | `SpliceAfterRst` | **violated**, finding 3 |

* `MemorySafe`: while `Clean`, the map leads to live memory only, no two keys
  share a flow, and the pointer a worker holds is the one filed under its key.
* `CommandsAlternate`: while `Clean`, add and del of a key alternate in step with
  the flow's state, over all six ways out of OFFLOAD and whichever worker takes
  them, unless the flow is `mingled`.  The exception is needed: the instance reaches a
  flow that is offloaded between a teardown's check (284) and its erase (287), so that
  its entry is never taken back, and a del issued between `SynAck`'s change of the
  state (261) and its add (262).
* `NoLeak`: while `Clean`, every allocated flow is in the map.
* `BothEndsReset` (action property): a step that takes a flow out of the map resets
  both its ends: the end whose packet caused it has reset or is answered, the other
  one is sent a RST (unless the flow is `mingled`: the backend may be another one
  by the time the flow goes).
* `CachedRequestIsOwn`: the request replayed to a backend was sent by that client,
  unless the flow is `mingled`: a SYN-ACK handled while a reroute replaces `recv_pkt`
  (171-175) can replay what another client's flow has put into the freed buffer.
* `EntryJustified`: a switch entry of a `Trusted` key is what its flow asked for last,
  or a newer del is on its way.
* `BypassEquivalent`: while no del is on its way, what the switch does with a
  packet by itself is what the Frontend would have done with it.
* `OneBatch`: everything drained leaves in the same message, so the carry-over
  code of `get_offloaded_entries` never runs and its buffers never overflow.
* `StaleEntryGoes` (liveness): an entry whose flow is not offloaded any more goes
  away, or the flow is offloaded again.
* `ImplementsOffloadTable` (refinement, with liveness): whatever the interleaving of
  workers, main thread and controller, the table changes as `OffloadTable` allows,
  and obsolete entries go.
* `LifeJustified`: entries of the present life are justified as in `EntryJustified`,
  whatever the old life left in the table or on the old connection.
* `LeftoverBlocks`: while the switch has an entry of an earlier life for a client, no
  connection of this client is established: the SYN-ACK of the new backend is diverted
  by that entry, so with clean memory no flow of its key is `COMPLETE` or `OFFLOAD`
  and no request of the client is replayed.  (After an aborted handshake or a race a
  packet of another client may complete it.)  The client's own packets are another
  matter: its requests reach the Frontend, but its bare ACKs meet the entry and are
  forwarded to the old backend (`l7lb_switch.p4` 339-341, 359-361).  Excepted are keys of which an add was under way when the Frontend went down: the
  table gets their entry in the middle of the new life.  The price is that this client
  endpoint cannot connect until the entry is gone, and nothing removes it.
* `ImplementsSwitchController` (refinement): in step, messages are decoded to what
  was encoded and applied once, in order, or dropped by a failing `begin_batch`, all
  that one `recv` returned and nothing else.  `HandlesSuffice`: the messages of one `recv`
  never need more than the 256 key handles.  `AllHandled` (liveness): in step, what was
  sent is received to the last message, so all but the dropped ones are applied.
* `TablesBeforeRules`: no worker knows a rule before the data plane can route.
  `CrashesEarly`: a worker only meets the null pointer of a rule whose backend is
  unknown before the message with the virtual server has been handled, unless
  messages were merged: the window is as long as the configuration takes to arrive.
  `GetsConfigured` (liveness): a connected
  Frontend is configured, unless a program ends or messages are merged.
* `RightBackend`: a request is only answered by the backend of its rule, unless two
  workers were inside a flow together (between 169 and 175 the new rule stands beside
  the old request).
* `MovesUnharmed`: while `Clean` and nothing is `mingled`, loss, delay and retransmission alone never reset a
  client whose connection moves between backends.  That a packet of a former backend is
  excepted is needed: a delayed SYN-ACK of the old backend completes the handshake
  with the new one, whose SYN was lost, and the request it then gets is answered
  with a RST.
* `GetsAnswers` (liveness): a client gets its answers or is reset.  A late copy of
  an answered request is excepted: it moves the flow back and becomes `recv_pkt`,
  and if the SYN or its answer is then lost, `SynRetry` recognises no packet of the
  client any more.
* `SharedMaps`: the egress program works on the maps of the attached ingress program.
  (An interrupted `unload.sh` followed by a load can leave the old egress program
  beside a new ingress program.)  `UnloadUndoes`: after `unload.sh` the next load
  finds nothing in its way.
* `SpliceExact`: every number that leaves the agent is the receiver's number of
  the byte the sender meant, unless the connection's handshake met a full map, a
  leftover difference or a second SYN with another number.

**Bounds.**  `MaxCmd` bounds the commands per key (add, del, add, del covers an
entry replaced by a newer one, and the races between them); it stops packets
from being received, never a handler.  Two workers are all a connection can
meet; `path_reroute` has one, since the races of two are those of `pkt_reroute` and
the proofs cover any number.  In `pkt_reroute` two commands per key are enough for a
flow to be offloaded and taken back, on either worker.  Its second client only asks
for one url: it is there to get the block, or the buffer, that a worker of the first
client's flow is about to use.  Two blocks of memory let a freed block be reused while another is live.
`NewFlow` needs a free block: the case of exhausted memory (`rte_malloc` returns
null and the code dereferences it) is not modelled.  With `BATCH_SIZE = 2` an
add and a del of one key, and the add of the next connection, meet in a message.  With
`SeqSpace = 4` every connection wraps around.  `Packet` holds one packet of each
kind the handlers tell apart.

`NetSize` bounds what the ends of a connection start while packets are on their
way, not what the Frontend or an answer adds; with 2, a retransmission and the
packets of the first copy overlap.  Three requests are the shortest script that
leaves a backend and returns.  `RecvSize = 8` cells hold two messages of the
instance and cut a third; keys range over all byte values, the header's included.
Four runs have a state constraint, which ends behaviours where the properties promise
nothing more, except for types.  `pkt_reroute`: without `Clean`, only cases that run in
parts are brought to their end.  `path_reroute`: the first error of the driver is the
last step, since the only client's key is not `Trusted` any more.  `stream`: out of step
(`~InStep`) a stream is not continued beyond two messages or after a failed call.
`conn_answer` stops at the first state where `GetsAnswers` is decided for
good (`Waiting`).  One
restart shows every remnant: a second finds the same kinds of remnants.  Four
loads let the objects of a failed load meet those of the following ones.

**Fairness.**  `FairPathSpec` assumes weak fairness of each worker's handling of
a received packet (workers poll and never block), of the main thread's batching
(a periodic timer; `epoll_wait` returns for it) and of the controller's applying
(`epoll_wait` returns while there is data).  Nothing is assumed of clients,
backends or the arrival of packets and rules.  `MessageStream` and `Startup` assume
the same of the controller and of the main thread, and nothing of failures.
`Connection` needs more, since it asks whether the client is served: the client
repeats its request and a backend gives up an idle connection in the end (TCP and
every web server do), the network delivers some of the packets of a kind that are
sent again and again (strong fairness per kind of packet), and everything else
arrives or is lost.  Without the backends' timeout `GetsAnswers` would not hold,
because the backend that is left is not told.

**Findings.**

1. `pkt_abort`: `pkt_processor.cpp:212-223` is the only teardown that does not
   erase the key.  The client's next packet is handled with freed memory (state
   INIT), `insert` never replaces the key, so every further request leaks a flow,
   and once the block is reused the client acts on another client's flow.
2. `path_settled`: a del and a newer add of one key in one batch are applied as
   add (refused, the key is present) and del.  The flow stays in OFFLOAD without
   an entry; its traffic keeps passing through the Frontend, which calls that an
   error (`pkt_processor.cpp:320`).
3. `agent_reuse`: in `ingress_xdp.c` the code that clears the maps on an inbound
   RST (128-132) cannot be reached, since every path before it jumps.  The
   Frontend closes backend connections with RST, so the difference stays and the
   next connection of the same client endpoint is translated with it.

**Conditions in the properties.**  Three more behaviours of the code are not
counted as findings of a run, but are why a property has the form it has:

* The rules and the d_index table are sent back to back (`controller.c:225`, `239`);
  the `sleep(1)` that keeps messages apart stands only before the third.  If one
  `recv` returns both, the second is never handled: `lost` in `GetsConfigured`.
* A request that arrives between the two messages, or after they were merged, finds
  a rule whose backend is unknown, and `send_syn_pkt` (`pkt_processor.cpp:566`) uses
  the null pointer; only `forward_inbound_pkt` tests for it.  That is the state
  "crashed" of `Startup`, and `CrashesEarly` says when it can be reached.
* `send_rst_pkt` (`pkt_processor.cpp:519-523`) does not convert address and port, so
  the backend a connection leaves never hears of it and still holds the connection
  when it returns.  `GetsAnswers` needs the backend's idle timeout for this reason.

## 4. Proofs

Proved by TLAPS for every value of the constants that satisfies the named
assumptions of the modules: in particular for any number of clients, backends,
workers, rules, commands, messages and loads, and any batch, table, buffer, map and
sequence-number size.  The runs evaluate the same assumptions on their instances.

| Module | Theorem | Statement |
|---|---|---|
| `PktProcessorProofs` | `TypeCorrect` | `Spec => []TypeOK` |
| | `MemorySafety` | `Spec => []MemorySafe` |
| | `CommandDiscipline` | `Spec => []CommandsAlternate` |
| | `CachedRequests` | `Spec => []CachedRequestIsOwn` |
| | `LeakFree` | `Spec => []NoLeak` |
| | `BothEndsTold` | `Spec => BothEndsReset` |
| `OffloadPathProofs` | `PathTypeCorrect` | `PathSpec => []PathTypeOK` |
| | `PathInvariant` | `PathSpec => []PathInv` |
| | `EntriesJustified` | `PathSpec => []EntryJustified` |
| | `BypassCorrect` | `PathSpec => []BypassEquivalent` |
| | `BatchesComplete` | `PathSpec => []OneBatch` |
| | `PathRefinesTable` | `PathSpec => OT!Safety` |
| `ConnectionProofs` | `RightBackends` | `ConnectionSpec => []RightBackend` |
| | `UnharmedMoves` | `ConnectionSpec => []MovesUnharmed` |
| `MessageStreamProofs` | `TypeCorrect` | `Spec => []TypeOK` |
| | `HandlesEnough` | `Spec => []HandlesSuffice` |
| | `StreamRefines` | `Spec => ImplementsSwitchController` |
| `StartupProofs` | `TypeCorrect` | `Spec => []TypeOK` |
| | `TablesFirst` | `Spec => []TablesBeforeRules` |
| | `CrashWindow` | `Spec => []CrashesEarly` |
| `BackendAgentProofs` | `TypeCorrect` | `Spec => []TypeOK` |
| | `SplicedExactly` | `Spec => []SpliceExact` |
| `FrontendRestartProofs` | `LivesJustified` | `RestartSpec => []LifeJustified` |
| | `LeftoversBlock` | `RestartSpec => []LeftoverBlocks`, if `~StaleRouting` |
| `AgentLoaderProofs` | `TypeCorrect` | `Spec => []TypeOK` |
| | `MapsShared` | `Spec => []SharedMaps` |
| | `UnloadComplete` | `Spec => []UnloadUndoes` |

*PktProcessor.*  None of its properties is inductive alone: that commands
alternate needs that no two keys share a flow, which needs that a worker's
pointer is still filed under its key.  `IInv` is the conjunction of
`CommandsAlternate` and `MemInv`: `TypeOK`, `FlowsFilledIn`, `PartsMingled`,
`MemorySafe` and `CachedRequestIsOwn`, which are inductive without it and hold over a
restart too.  The argument for the pointer: a step that erases a key either runs on the
worker that holds the pointer, or sets `raced`.  A case in parts needs no argument of
its own for each part: `PieceIs` says that every part is one of a few kinds (nothing,
a command, a write to the worker's own flow, an erase, the end), and that its key is in
`mingled`, so that `MemorySafe` and `NoLeak`, which except no flow, are all it has to
keep.

`LeakFree` needs more, because `insert` does not replace a key: a new flow is only
reachable if its key was free.  The worker looked the key up two steps before and
RSS sends all packets from a source to a destination to the same worker
(`Dispatched`), but a packet of that source to another destination could file a flow
in between.  `TrafficAssumption` of `FlowData` excludes it: what reaches the Frontend
is addressed to the virtual server or comes from a backend, whose payload matches no
rule (`KnownRules`, `SourceFree`).

`BothEndsTold` is an action property and follows from `IInv` handler by handler: a flow
that is not `mingled` is only taken out by a teardown in one step (`DropIsTeardown`).

*OffloadPath.*  `EntryJustified` speaks of the table only.  `PathInv` says the same
of an add wherever it is: it is its flow's latest command, or a newer del is at
the same stage or at one the add has already passed, that is, behind it
(`QueuedAdds`, `BatchedAdds`, `WireAdds`, `ApplyingAdds`, `TableEntries`).  Two
facts carry it from stage to stage: `OneBatch`, so that a batch leaves as a
whole, and `overtaken`, which records the one way for a del to pass an older add.
`PktProcessorProofs` is reused: every step of the path is a step of `Next` of the
workers or leaves their state alone.  `path_reroute` checks `PathInv` with TLC.

`PathRefinesTable` is the safety part of `ImplementsOffloadTable`.  A handler that
enqueues an add or a del is `Ask` or `TakeBack`, `AddEntry` and `DelEntry` are
`Install` and `Remove`, everything else stutters or only loses trust.  `Install` must
show that an add that is its key's latest command brings the backend wanted now, and
`Remove` that a del that is applied had something to take back: `Numbered` adds to
`PathInv` that a del on its way is at least its key's second command.

*FrontendRestart.*  A restart ends `PathInv`: the table, the message being applied and
the old connection hold commands whose flows are gone.  `PathInv` is therefore
`PathInvBut({})` with `CommandsAlternate`, and `PathInvBut(old)` says nothing of
applied adds and entries in a set `old` of exempt commands; it is kept by every step
of the path whatever `old` is.  `LifeInv` takes for `old` the commands numbered up to
`epoch`.  `Numbers` shows that this is enough: everything earlier lives left is
numbered up to `epoch`, everything this life issues is numbered above it, and an old
add that can still be applied is of a key in `inflight`.  For `LeftoverBlocks`,
`Unanswered` adds that no worker holds a SYN-ACK for the key of an old entry, since
`ToFrontend` passes a SYN-ACK only when the table has no entry for it, and
`EstablishedBySynAck` that a flow is established in no other way (a part of a case
only touches its own flow, which is excepted: `PieceLeaves`).  That step needs
the packet to be routed by the table as it is, `~StaleRouting`, as in the run.

*Connection.*  `RightBackend` speaks of what a backend has answered, which is decided
when the Frontend sends.  `CInv` follows the request: from the client (`FromClient`)
into a worker's hands and a flow's `recv_pkt`, whose rule is the flow's `entry_data`,
and to the network again (`Relayed`).  It does not assume `Clean`: neither the aborted
handshake nor a flow freed under a worker sends a request to a backend of another rule.
It does assume that no case has run in parts (`Apart`), which then has been so from the
start, because `mingled` only grows.  `MInv`
adds for `MovesUnharmed` that no packet under way, in a worker's hands or still to be
sent by an end can reset a client whose connection nothing upset (`Harmless`,
`Unharmed`).  `AddressAssumption` says that the address `send_rst_pkt` writes without
conversion is nobody's; `ScriptAssumption` that an answer is no request of a rule.

*MessageStream.*  `HandlesSuffice` counts entries where the code counts bytes.
`Consumed` ties the two: a header takes three cells and an entry at least one, so
`entry_index` lags three behind `now_bytes`, and what is left of the current message
lies within what was received.  For the refinement `Aligned` says where everything
is: behind `now_bytes`, in the buffer and on in the stream, come the rest of the
current message and then exactly the encodings of the messages on `SwitchController`'s
wire, and that each ends where `ends` says.  So the next header read is that of the
next message, each entry read is the next one encoded, and bytes that a failing
`begin_batch` drops without cutting a message are a number of whole messages
(`LaidTo`, `LaidDrop`), which is `SwitchController`'s `BatchFails`.  `MessageAssumption`: a message is not empty and its counts fit
into a byte, which `get_offloaded_entries` ensures.

*Startup.*  `TablesBeforeRules` relates the two ends of a chain: a rule is known
because a message was received, which was sent because a Frontend was accepted, which
`main` does when all tables are full.  `Causes` is that chain link by link, `Handling`
what a message being handled may hold.  `CrashesEarly` follows the order of the
messages instead: as long as none is lost, the virtual server's is handled after all
backends are known.

*BackendAgent.*  `Spliced(k)` says what the maps hold for a connection nothing unusual
happened to: until the SYN-ACK its SYN's number in `seq_map`, from then on the
distance of the two numberings in `flow_map`.  The rest is arithmetic modulo
`SeqSpace`, for which the module proves its own lemmas from division with remainder
(the prover knows `%` no other way).

*AgentLoader.*  `AttachTc` hands the pinned maps to the egress program; that these are
the ingress program's follows from what the earlier calls of the same load have done
(`Progress`), and for the script from the lines that have run (`Undone`).

Only model-checked: `StaleEntryGoes`, `AllHandled`, `GetsConfigured`, `GetsAnswers` and
the fairness of `OffloadTable` in `ImplementsOffloadTable` (liveness is outside the
prover's reach).

## 5. Not modelled, and why

* *mbufs.*  A failed `rte_pktmbuf_alloc_bulk`, and the buffers an error return or a
  short `rte_eth_tx_burst` leaks: memory of the library, which no property is about.
  The replies lost with them are losses in `Connection`.  Packets of a burst are
  handled one by one; nothing in a burst depends on the others.
* *Writes to freed memory.*  What a worker writes to a flow after another worker has
  freed it in the middle of its case (`LostPart`), or to a freed `recv_pkt` buffer.  The
  properties that except `raced` and `mingled` say nothing of what follows.
* *A failing `bf_rt_end_batch`* is printed and otherwise ignored; what the driver has
  then done with the batch is not known from the code.
* *Several connections in one `epoll_wait`.*  `entry_index` is reset once per
  `epoll_wait`, so connections that are ready together share the 256 handles;
  `HandlesSuffice` is about one connection.
* *SACK behind other options.*  `ingress_xdp.c` (87-122) translates a SACK option only
  when it comes first or behind one or two NOPs; the model translates every edge.  The
  switch's SYN-ACK (`l7lb_switch.p4` 405-417) offers no timestamps, so NOP, NOP, SACK is
  what arrives.
* *Cuts of the configuration messages.*  In `Startup` `recv` merges messages but does
  not cut them: together they are far below its 1514 bytes.
* *Torn reads* of the virtual server's address, which is copied under a lock the
  readers do not take; and its value 0 in the second before it arrives, during which
  outbound packets carry a source of 0.0.0.0:0.
* `del_balancing_rule` and `del_d_index_rule`: the controller always sends a count of
  0 deletions.
* *Several Frontends.*  The controller would accept them; the shipped data plane
  picks one.
* Checksums, header parsing, TCP options such as window scaling, ARP, ports, MAC
  addresses, statistics, DPDK set-up, and the ids, handles and row contents of the
  driver client: no state that the properties are about.

## 6. Plan

Every safety property of a passing run has its theorem; what is left to TLC is
liveness.
Worth adding as the code grows: several Frontends behind one switch, if the data plane
learns to tell them apart, and deletions of rules, if the controller sends any.
