--------------------------- MODULE FrontendRestart ---------------------------
(***************************************************************************)
(* OffloadPath with a Frontend that dies and is started again, as          *)
(* Frontend/main.cpp does on every error of a call and when the switch     *)
(* closes the connection.  Flows, queues, buffers and rules are gone; the  *)
(* entries of the switch stay, for run_controller only closes the socket   *)
(* when the connection ends.  What was sent on the old connection is still *)
(* delivered, before or between the messages of the new one.  (A reset of  *)
(* the old connection makes recv fail, which ends the controller.)         *)
(***************************************************************************)
EXTENDS OffloadPath

CONSTANT MaxRestarts  \* bound on restarts

ASSUME RestartAssumption == MaxRestarts \in Nat

VARIABLES
    oldwire,   \* messages of the previous connection, not received
    restarts,
    epoch,     \* history: per key, the number of its last command before the
               \* restart; entries with a greater number are of this life
    inflight   \* history: keys an add of which was underway at the restart

lifevars == <<oldwire, restarts, epoch, inflight>>
restartvars == <<pathvars, lifevars>>

RestartInit ==
    /\ PathInit
    /\ oldwire = <<>> /\ restarts = 0
    /\ epoch = [k \in Endpoint |-> 0] /\ inflight = {}

Carries(msg, k) == \E i \in 1..Len(msg.adds) : msg.adds[i].key = k

\* An add of k was sent to the switch and has not been applied.
Underway(k) ==
    \/ Carries(cur, k)
    \/ \E j \in 1..Len(wire) : Carries(wire[j], k)
    \/ \E j \in 1..Len(oldwire) : Carries(oldwire[j], k)

\* main returns -1 (or the process is killed) and is started again.
Restart ==
    /\ restarts < MaxRestarts
    /\ restarts' = restarts + 1
    /\ flow_hash_map' = [k \in Endpoint |-> NULL]
    /\ heap' = [a \in Addr |-> Zeroed] /\ live' = {}
    /\ worker' = [w \in Worker |-> Idle] /\ send_pkts' = <<>>
    /\ add_queue' = [w \in Worker |-> <<>>]
    /\ del_queue' = [w \in Worker |-> <<>>]
    /\ rule_map' = [u \in Url |-> NULL]
    /\ aborted' = FALSE /\ raced' = FALSE /\ mingled' = {}
    /\ add_pairs' = <<>> /\ del_keys' = <<>>
    /\ pc' = "idle" /\ todo' = {} /\ room' = 0
    /\ overtaken' = {} /\ failed' = {}
    /\ wire' = <<>> /\ oldwire' = oldwire \o wire
    /\ epoch' = cmd
    /\ inflight' = {k \in Endpoint : Underway(k)}
    /\ UNCHANGED <<cmd, cur, table>>

\* The controller reads the old connection.
RecvOld ==
    /\ cur = SC!NoMessage
    /\ oldwire # <<>>
    /\ cur' = Head(oldwire) /\ oldwire' = Tail(oldwire)
    /\ UNCHANGED <<vars, ecvars, wire, table, failed, restarts, epoch, inflight>>

\* The controller reads the old connection, and begin_batch fails.
OldBatchFails ==
    /\ cur = SC!NoMessage
    /\ oldwire # <<>>
    /\ oldwire' = Tail(oldwire)
    /\ UNCHANGED <<pathvars, restarts, epoch, inflight>>

RestartNext ==
    \/ PathNext /\ UNCHANGED lifevars
    \/ Restart \/ RecvOld \/ OldBatchFails

RestartSpec == RestartInit /\ [][RestartNext]_restartvars

-----------------------------------------------------------------------------
(* Properties.                                                             *)

Leftover(k) == table[k] # NULL /\ table[k].n <= epoch[k]

\* What an earlier life left behind, in the table or on the old connection,
\* does not disturb the entries of this one: each is what its flow asked for
\* last, or a newer del is on its way.
LifeJustified ==
    \A k \in Endpoint :
        Trusted(k) /\ table[k] # NULL /\ ~Leftover(k) =>
            \/ Current(k, table[k].d_index, table[k].n)
            \/ DelPending(k, table[k].n)

\* No connection of this life is established while the switch has an entry of
\* an earlier one for the client: the SYN-ACK of the new backend meets the
\* entry, is sent to the client and never reaches the Frontend, so the flow
\* stays in BACKEND_SYN and the request is not replayed.  It says nothing of
\* the packets the client sends: its requests reach the Frontend, but its bare
\* ACKs meet the entry too and are forwarded to the old backend.  Excepted are
\* the keys of which an add was underway when the Frontend went down, and the
\* flows two workers were inside together.  (Without Clean, a packet of
\* another client may complete the handshake.  Packets are routed by the table
\* as it is: ~StaleRouting.)
LeftoverBlocks ==
    Clean => \A k \in Endpoint \ mingled :
        Leftover(k) /\ k \notin inflight =>
            (Mapped(k) => FlowOf(k).state \notin Established)
=============================================================================
