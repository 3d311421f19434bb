--------------------------- MODULE EntryController ---------------------------
(***************************************************************************)
(* The Frontend's main thread as far as offload commands go:               *)
(* entry_controller_t::get_offloaded_entries                               *)
(* (Frontend/subprojects/entry_controller/entry_controller.cpp) and the    *)
(* 100 us timer branch of the event loop in Frontend/main.cpp.             *)
(*                                                                         *)
(* The workers' commands sit in two moodycamel::ConcurrentQueues, FIFO per *)
(* producer only.  One call drains up to BATCH_SIZE adds, then up to       *)
(* BATCH_SIZE dels, visiting the producers one after the other while they  *)
(* go on enqueueing, and sends one message with the adds before the dels.  *)
(***************************************************************************)
EXTENDS Naturals, Sequences

CONSTANTS Worker, BATCH_SIZE, THRESHOLD

VARIABLES
    add_queue, del_queue,  \* worker -> its sub-queue
    add_pairs, del_keys,   \* the buffers; their lengths are remain_*_size
    pc,                    \* "idle", or the queue being drained
    todo,                  \* producers the bulk dequeue has yet to visit
    room,                  \* what is left of BATCH_SIZE in this dequeue
    wire,                  \* messages sent to the switch and not received
    overtaken              \* history: keys of which a del was drained while an
                           \* older add was still in add_queue

Init ==
    /\ add_pairs = <<>> /\ del_keys = <<>>
    /\ pc = "idle" /\ todo = {} /\ room = 0
    /\ wire = <<>>
    /\ overtaken = {}

\* Faulty variant: the dequeue asks for as much as the buffer holds when empty.
Timer_TwoBatches ==
    /\ pc = "idle"
    /\ IF Len(add_pairs) <= THRESHOLD /\ Len(del_keys) <= THRESHOLD
       THEN pc' = "adds" /\ todo' = Worker /\ room' = 2 * BATCH_SIZE
       ELSE pc' = "dels" /\ todo' = {} /\ room' = 0
    /\ UNCHANGED <<add_queue, del_queue, add_pairs, del_keys, wire, overtaken>>

\* timer_fd fires; the queues are only drained when both buffers are low.
Timer ==
    /\ pc = "idle"
    /\ IF Len(add_pairs) <= THRESHOLD /\ Len(del_keys) <= THRESHOLD
       THEN pc' = "adds" /\ todo' = Worker /\ room' = BATCH_SIZE
       ELSE pc' = "dels" /\ todo' = {} /\ room' = 0
    /\ UNCHANGED <<add_queue, del_queue, add_pairs, del_keys, wire, overtaken>>

Min(m, n) == IF m <= n THEN m ELSE n

\* add_queue->try_dequeue_bulk reaches producer w.
TakeAdds(w) ==
    LET n == Min(Len(add_queue[w]), room) IN
    /\ pc = "adds" /\ w \in todo
    /\ add_pairs' = add_pairs \o SubSeq(add_queue[w], 1, n)
    /\ add_queue' = [add_queue EXCEPT ![w] = SubSeq(@, n + 1, Len(@))]
    /\ todo' = todo \ {w}
    /\ room' = room - n
    /\ UNCHANGED <<del_queue, del_keys, pc, wire, overtaken>>

AddsTaken ==
    /\ pc = "adds" /\ todo = {}
    /\ pc' = "dels" /\ todo' = Worker /\ room' = BATCH_SIZE
    /\ UNCHANGED <<add_queue, del_queue, add_pairs, del_keys, wire, overtaken>>

\* del_queue->try_dequeue_bulk reaches producer w.
TakeDels(w) ==
    LET n     == Min(Len(del_queue[w]), room)
        taken == SubSeq(del_queue[w], 1, n)
    IN
    /\ pc = "dels" /\ w \in todo
    /\ del_keys' = del_keys \o taken
    /\ del_queue' = [del_queue EXCEPT ![w] = SubSeq(@, n + 1, Len(@))]
    /\ todo' = todo \ {w}
    /\ room' = room - n
    /\ overtaken' = overtaken \cup
        {taken[i].key : i \in
            {j \in 1..Len(taken) : \E v \in Worker : \E m \in 1..Len(add_queue[v]) :
                /\ add_queue[v][m].key = taken[j].key
                /\ add_queue[v][m].n < taken[j].n}}
    /\ UNCHANGED <<add_queue, add_pairs, pc, wire>>

\* Faulty variant: remain_del_size is not reduced.
Flush_KeepsDels ==
    /\ pc = "dels" /\ todo = {}
    /\ pc' = "idle"
    /\ wire' = IF add_pairs = <<>> /\ del_keys = <<>> THEN wire
               ELSE Append(wire, [adds |-> add_pairs, dels |-> del_keys])
    /\ add_pairs' = <<>>
    /\ UNCHANGED <<add_queue, del_queue, del_keys, todo, room, overtaken>>

\* Faulty variant: a batch without adds is not sent.
Flush_AddsOnly ==
    /\ pc = "dels" /\ todo = {}
    /\ pc' = "idle"
    /\ wire' = IF add_pairs = <<>> THEN wire
               ELSE Append(wire, [adds |-> add_pairs, dels |-> del_keys])
    /\ add_pairs' = <<>> /\ del_keys' = <<>>
    /\ UNCHANGED <<add_queue, del_queue, todo, room, overtaken>>

\* Build the OFFLOAD_ENTRIES message and send it; nothing is sent when both
\* buffers are empty.  What does not fit is carried over to the next call.
Flush ==
    LET need_add == Min(Len(add_pairs), BATCH_SIZE)
        need_del == Min(Len(del_keys), BATCH_SIZE)
    IN
    /\ pc = "dels" /\ todo = {}
    /\ pc' = "idle"
    /\ wire' = IF need_add = 0 /\ need_del = 0 THEN wire
               ELSE Append(wire, [adds |-> SubSeq(add_pairs, 1, need_add),
                                  dels |-> SubSeq(del_keys, 1, need_del)])
    /\ add_pairs' = SubSeq(add_pairs, need_add + 1, Len(add_pairs))
    /\ del_keys' = SubSeq(del_keys, need_del + 1, Len(del_keys))
    /\ UNCHANGED <<add_queue, del_queue, todo, room, overtaken>>

Next ==
    \/ Timer \/ AddsTaken \/ Flush
    \/ \E w \in Worker : TakeAdds(w) \/ TakeDels(w)
=============================================================================
