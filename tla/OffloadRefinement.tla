-------------------------- MODULE OffloadRefinement --------------------------
(***************************************************************************)
(* OffloadPath implements OffloadTable: what a connection wants is the     *)
(* state of its flow_data_t, the entry is the one of the switch, and all   *)
(* queues, buffers and messages in between are hidden.                     *)
(***************************************************************************)
EXTENDS OffloadPath

Wanted(k) == IF Offloaded(k) THEN FlowOf(k).entry_data.d_index ELSE NULL

OT == INSTANCE OffloadTable WITH
        want    <- [k \in Endpoint |-> Wanted(k)],
        entry   <- table,
        trusted <- {k \in Endpoint : Trusted(k)}

\* The workers, the main thread and the controller together keep the promise
\* of OffloadTable: the entry of the switch follows the state of the flow,
\* through two queues, the batches and the controller's loop.
ImplementsOffloadTable == OT!Spec
=============================================================================
