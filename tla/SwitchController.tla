-------------------------- MODULE SwitchController --------------------------
(***************************************************************************)
(* The switch controller's handling of OFFLOAD_ENTRIES messages:           *)
(* run_controller in Switch/control_plane/src/controller.c.                *)
(*                                                                         *)
(* A message is applied to offload_connection_table entry by entry, adds   *)
(* first, each call to the driver a step of its own, while the data plane  *)
(* goes on matching packets.  A refused add (the key is present, or the    *)
(* table is full) and a refused del (no such key) are ignored, and so is   *)
(* any other error of the driver; when begin_batch fails, everything recv  *)
(* has returned is dropped.  (An error of end_batch is only printed.)      *)
(* Messages are received whole: MessageStream is about how recv cuts the   *)
(* byte stream.                                                            *)
(***************************************************************************)
EXTENDS Naturals, Sequences, FiniteSets

CONSTANTS Endpoint, TableSize, NULL

VARIABLES
    wire,   \* messages sent by the Frontend and not received
    cur,    \* what is left of the message being applied
    table,  \* offload_connection_table: key -> entry or NULL
    failed  \* history: keys of the commands lost to an error of the driver

NoMessage == [adds |-> <<>>, dels |-> <<>>]

Init ==
    /\ cur = NoMessage
    /\ table = [k \in Endpoint |-> NULL]
    /\ failed = {}

\* recv, begin_batch.
Recv ==
    /\ cur = NoMessage
    /\ wire # <<>>
    /\ cur' = Head(wire)
    /\ wire' = Tail(wire)
    /\ UNCHANGED <<table, failed>>

Keys(msg) == {msg.adds[i].key : i \in 1..Len(msg.adds)}
             \cup {msg.dels[i].key : i \in 1..Len(msg.dels)}

\* "Fail to start batch": the j messages that recv returned are dropped.
BatchFails ==
    /\ cur = NoMessage
    /\ \E j \in 1..Len(wire) :
        /\ wire' = SubSeq(wire, j + 1, Len(wire))
        /\ failed' = failed \cup UNION {Keys(wire[i]) : i \in 1..j}
    /\ UNCHANGED <<cur, table>>

Entries == {k \in Endpoint : table[k] # NULL}

\* bf_rt_table_entry_add
AddEntry ==
    /\ cur.adds # <<>>
    /\ LET e == Head(cur.adds) IN
       table' = IF table[e.key] = NULL /\ Cardinality(Entries) < TableSize
                THEN [table EXCEPT ![e.key] = [d_index |-> e.d_index, n |-> e.n]]
                ELSE table
    /\ cur' = [cur EXCEPT !.adds = Tail(@)]
    /\ UNCHANGED <<wire, failed>>

\* Faulty variant: the key handle is not set, nothing is deleted.
DelEntry_NoKey ==
    /\ cur.adds = <<>>
    /\ cur.dels # <<>>
    /\ cur' = [cur EXCEPT !.dels = Tail(@)]
    /\ UNCHANGED <<wire, table, failed>>

\* bf_rt_table_entry_del
DelEntry ==
    /\ cur.adds = <<>>
    /\ cur.dels # <<>>
    /\ table' = [table EXCEPT ![Head(cur.dels).key] = NULL]
    /\ cur' = [cur EXCEPT !.dels = Tail(@)]
    /\ UNCHANGED <<wire, failed>>

\* The driver fails to carry out an add it could have, or a del.
AddFails ==
    /\ cur.adds # <<>>
    /\ cur' = [cur EXCEPT !.adds = Tail(@)]
    /\ failed' = failed \cup {Head(cur.adds).key}
    /\ UNCHANGED <<wire, table>>

DelFails ==
    /\ cur.adds = <<>>
    /\ cur.dels # <<>>
    /\ cur' = [cur EXCEPT !.dels = Tail(@)]
    /\ failed' = failed \cup {Head(cur.dels).key}
    /\ UNCHANGED <<wire, table>>

Next == Recv \/ BatchFails \/ AddEntry \/ AddFails \/ DelEntry \/ DelFails
=============================================================================
