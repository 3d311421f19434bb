--------------------------- MODULE MCMessageStream ---------------------------
(***************************************************************************)
(* A small instance of MessageStream.  Key 2 looks like OFFLOAD_ENTRIES.   *)
(***************************************************************************)
EXTENDS MessageStream

Add(k) == [key |-> k, d_index |-> 1, n |-> 0]
Del(k) == [key |-> k, n |-> 0]

\* An add, a del, one of each, and a message that is longer than RecvSize.
McMessage ==
    {[adds |-> <<Add(1)>>, dels |-> <<>>],
     [adds |-> <<>>, dels |-> <<Del(2)>>],
     [adds |-> <<Add(2)>>, dels |-> <<Del(1)>>],
     [adds |-> <<Add(1), Add(2)>>, dels |-> <<Del(1), Del(2)>>]}

\* Once out of step with the stream, no third message and no failed call.
McBound == InStep \/ (sent <= 2 /\ failed = {})
=============================================================================
