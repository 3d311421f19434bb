---------------------------- MODULE MessageStream ----------------------------
(***************************************************************************)
(* OFFLOAD_ENTRIES on the byte stream between Frontend and switch: how     *)
(* get_offloaded_entries lays a message out, and how run_controller in     *)
(* Switch/control_plane/src/controller.c takes messages out of what recv   *)
(* returns.  SwitchController is what this module should look like when    *)
(* messages arrive whole.                                                  *)
(*                                                                         *)
(* recv may return several messages at once, or cut one, in which case the *)
(* loop reads on into what earlier calls left in recv_buffer.  The loop    *)
(* also looks at the byte after the last one received (<=): if that is a   *)
(* leftover OFFLOAD_ENTRIES, it is taken for one more message.  When       *)
(* begin_batch fails, all that recv returned is dropped.                   *)
(*                                                                         *)
(* entry_index is reset with every recv; in the code with every epoll_wait *)
(* which is the same as long as there is one connection.                   *)
(*                                                                         *)
(* Bytes are scaled down: a my_key_t is one cell, a my_pair_t two, and the *)
(* 1024 bytes of recv_buffer are RecvSize cells.  Cells of recv_buffer not *)
(* written yet, and cells beyond it, hold any byte.                        *)
(***************************************************************************)
EXTENDS Integers, Sequences, FiniteSets

CONSTANTS
    Byte,      \* the values of a cell
    OFFLOAD_ENTRIES, \* the operation code, 3 in the code
    Message,   \* the messages the Frontend may send
    RecvSize,  \* cells of recv_buffer
    Handles,   \* length of key_hdl and data_hdl
    TableSize, \* size of offload_connection_table
    MaxSent,   \* bound on the messages sent
    NULL

message_t == [adds : Seq([key : Byte, d_index : Byte, n : {0}]),
              dels : Seq([key : Byte, n : {0}])]

ASSUME ByteAssumption ==
    /\ Byte \subseteq Nat /\ OFFLOAD_ENTRIES \in Byte
    /\ NULL \notin Byte
    /\ RecvSize \in Nat /\ MaxSent \in Nat
    /\ Handles \in Nat /\ RecvSize <= Handles + 3

\* A batch that is sent is not empty, and its sizes fit into a byte.
ASSUME MessageAssumption ==
    \A m \in Message :
        /\ m \in message_t
        /\ Len(m.adds) \in Byte /\ Len(m.dels) \in Byte
        /\ m.adds # <<>> \/ m.dels # <<>>

VARIABLES
    stream,       \* bytes sent and not received
    recv_buffer, recv_size,
    now_bytes,    \* cells of recv_buffer the loop has consumed
    add_left, del_left, \* entries left of the message being applied
    entry_index,  \* the next key handle
    table,        \* offload_connection_table
    failed,       \* history: keys of the commands lost to an error of the driver
    status,       \* "wait" (in epoll_wait), "loop", or "crashed"
    sent,         \* number of messages sent
    wire,         \* history: messages sent whose header has not been read
    ends,         \* history: where each of them ends, from recv_buffer[1] on
    torn,         \* history: a message was read, or dropped, that recv had not
                  \* returned whole
    overran       \* history: the byte after the received ones was a header

buffer  == <<recv_buffer, recv_size>>
history == <<wire, ends, torn, overran>>
vars == <<stream, buffer, now_bytes, add_left, del_left, entry_index, table,
          failed, status, sent, history>>

Init ==
    /\ stream = <<>>
    /\ recv_buffer = [i \in 1..RecvSize |-> NULL] /\ recv_size = 0
    /\ now_bytes = 0 /\ add_left = 0 /\ del_left = 0 /\ entry_index = 0
    /\ table = [k \in Byte |-> NULL] /\ failed = {}
    /\ status = "wait"
    /\ sent = 0 /\ wire = <<>> /\ ends = <<>> /\ torn = FALSE /\ overran = FALSE

-----------------------------------------------------------------------------
(* The Frontend.                                                           *)

\* The message as get_offloaded_entries writes it.
Encode(m) ==
    LET a == Len(m.adds) IN
    <<OFFLOAD_ENTRIES, a, Len(m.dels)>>
    \o [i \in 1..2 * a |-> IF i % 2 = 1 THEN m.adds[(i + 1) \div 2].key
                                        ELSE m.adds[i \div 2].d_index]
    \o [i \in 1..Len(m.dels) |-> m.dels[i].key]

Send(m) ==
    /\ sent < MaxSent
    /\ sent' = sent + 1
    /\ stream' = stream \o Encode(m)
    /\ wire' = Append(wire, m)
    /\ ends' = Append(ends, recv_size + Len(stream'))
    /\ UNCHANGED <<buffer, now_bytes, add_left, del_left, entry_index, table,
                   failed, status, torn, overran>>

-----------------------------------------------------------------------------
(* run_controller.                                                         *)

\* What is left of the current message in recv_buffer.
At(i) == IF i \in 1..RecvSize THEN recv_buffer[i] ELSE NULL
Rest ==
    [adds |-> [i \in 1..add_left |->
                [key |-> At(now_bytes + 2 * i - 1),
                 d_index |-> At(now_bytes + 2 * i), n |-> 0]],
     dels |-> [i \in 1..del_left |->
                [key |-> At(now_bytes + 2 * add_left + i), n |-> 0]]]

SC == INSTANCE SwitchController WITH cur <- Rest, Endpoint <- Byte

\* Faulty variant: recv waits until recv_buffer is full.
Fill_WaitAll(n) ==
    /\ status = "wait"
    /\ n = RecvSize /\ n <= Len(stream)
    /\ recv_buffer' = [i \in 1..RecvSize |-> stream[i]]
    /\ recv_size' = n
    /\ stream' = SubSeq(stream, n + 1, Len(stream))
    /\ now_bytes' = 0
    /\ UNCHANGED <<add_left, del_left, table, sent, overran>>

\* recv fills recv_buffer with the next n bytes.
Fill(n) ==
    /\ status = "wait"
    /\ n <= Len(stream)
    /\ recv_buffer' = [i \in 1..RecvSize |->
                        IF i <= n THEN stream[i] ELSE recv_buffer[i]]
    /\ recv_size' = n
    /\ stream' = SubSeq(stream, n + 1, Len(stream))
    /\ now_bytes' = 0
    /\ UNCHANGED <<add_left, del_left, table, sent, overran>>

\* Where the messages on the wire end, counted from what is left to receive.
Shifted == [i \in 1..Len(ends) |-> ends[i] - recv_size]

\* Faulty variant: entry_index is not reset.
Recv_KeepsIndex(n) ==
    /\ Fill(n) /\ ends' = Shifted
    /\ status' = "loop"
    /\ UNCHANGED <<entry_index, failed, wire, torn>>

\* epoll_wait, recv of n bytes, begin_batch.
Recv(n) ==
    /\ Fill(n) /\ ends' = Shifted
    /\ entry_index' = 0 /\ status' = "loop"
    /\ UNCHANGED <<failed, wire, torn>>

\* The j messages on the wire that end within the n bytes are lost.
BatchFails(n, j) ==
    /\ Fill(n)
    /\ j > 0 => Shifted[j] <= n
    /\ j < Len(ends) => Shifted[j + 1] > n
    /\ wire' = SubSeq(wire, j + 1, Len(wire))
    /\ ends' = SubSeq(Shifted, j + 1, Len(ends))
    /\ failed' = failed \cup UNION {SC!Keys(wire[i]) : i \in 1..j}
    /\ torn' = (torn \/ j = 0 \/ Shifted[j] # n)
    /\ entry_index' = 0
    /\ UNCHANGED status

\* What reading the i-th cell of recv_buffer may give.
Cell(i) == IF i <= RecvSize /\ recv_buffer[i] # NULL THEN {recv_buffer[i]} ELSE Byte

AtHeader == status = "loop" /\ add_left = 0 /\ del_left = 0

\* The loop finds a message at now_bytes.
Header ==
    /\ AtHeader /\ now_bytes <= recv_size
    /\ OFFLOAD_ENTRIES \in Cell(now_bytes + 1)
    /\ \E add_size \in Cell(now_bytes + 2), del_size \in Cell(now_bytes + 3) :
        /\ add_left' = add_size /\ del_left' = del_size
        /\ torn' = (torn \/ recv_size < now_bytes + 3 + 2 * add_size + del_size)
    /\ now_bytes' = now_bytes + 3
    /\ overran' = (overran \/ now_bytes = recv_size)
    /\ wire' = SubSeq(wire, 2, Len(wire)) /\ ends' = SubSeq(ends, 2, Len(ends))
    /\ UNCHANGED <<stream, buffer, entry_index, table, failed, status, sent>>

\* Faulty variant: one message per recv.
Break_AfterFirst ==
    /\ AtHeader
    /\ now_bytes > 0 \/ Cell(1) # {OFFLOAD_ENTRIES}
    /\ status' = "wait"
    /\ UNCHANGED <<stream, buffer, now_bytes, add_left, del_left, entry_index,
                   table, failed, sent, history>>

\* The loop ends: past the data, or at a byte that is not OFFLOAD_ENTRIES.
Break ==
    /\ AtHeader
    /\ now_bytes > recv_size \/ Cell(now_bytes + 1) # {OFFLOAD_ENTRIES}
    /\ status' = "wait"
    /\ UNCHANGED <<stream, buffer, now_bytes, add_left, del_left, entry_index,
                   table, failed, sent, history>>

Entries == {k \in Byte : table[k] # NULL}

\* One driver call for key k with key_hdl[entry_index], which may fail.
\* Beyond the array it is no handle: the call fails, or the program does.
Call(k, newTable) ==
    /\ \/ /\ entry_index < Handles
          /\ table' = newTable
          /\ UNCHANGED <<failed, status>>
       \/ /\ entry_index < Handles
          /\ failed' = failed \cup {k}
          /\ UNCHANGED <<table, status>>
       \/ /\ entry_index >= Handles
          /\ status' \in {"loop", "crashed"}
          /\ UNCHANGED <<table, failed>>
    /\ entry_index' = entry_index + 1
    /\ UNCHANGED <<stream, buffer, sent, history>>

AddEntry ==
    /\ status = "loop" /\ add_left > 0
    /\ \E k \in Cell(now_bytes + 1), d \in Cell(now_bytes + 2) :
        Call(k, IF table[k] = NULL /\ Cardinality(Entries) < TableSize
                THEN [table EXCEPT ![k] = [d_index |-> d, n |-> 0]] ELSE table)
    /\ now_bytes' = now_bytes + 2
    /\ add_left' = add_left - 1
    /\ UNCHANGED del_left

DelEntry ==
    /\ status = "loop" /\ add_left = 0 /\ del_left > 0
    /\ \E k \in Cell(now_bytes + 1) : Call(k, [table EXCEPT ![k] = NULL])
    /\ now_bytes' = now_bytes + 1
    /\ del_left' = del_left - 1
    /\ UNCHANGED add_left

\* Faulty variant: recv is told the Frontend's buffer size.
Controller_BigRecv ==
    \/ \E n \in 1..RecvSize + 1 : Recv(n)
    \/ \E n \in 1..RecvSize + 1, j \in 0..Len(wire) : BatchFails(n, j)
    \/ Header \/ Break \/ AddEntry \/ DelEntry

Controller ==
    \/ \E n \in 1..RecvSize : Recv(n)
    \/ \E n \in 1..RecvSize, j \in 0..Len(wire) : BatchFails(n, j)
    \/ Header \/ Break \/ AddEntry \/ DelEntry

Next == Controller \/ \E m \in Message : Send(m)

\* epoll_wait returns while there is data, and the loop does not block.
Spec == Init /\ [][Next]_vars /\ WF_vars(Controller)

-----------------------------------------------------------------------------
(* Properties.                                                             *)

\* Every variable has its type.
TypeOK ==
    /\ stream \in Seq(Byte)
    /\ recv_buffer \in [1..RecvSize -> Byte \cup {NULL}]
    /\ recv_size \in 0..RecvSize
    /\ now_bytes \in Nat /\ add_left \in Nat /\ del_left \in Nat
    /\ entry_index \in Nat
    /\ table \in [Byte -> [d_index : Byte, n : {0}] \cup {NULL}]
    /\ failed \subseteq Byte
    /\ status \in {"wait", "loop", "crashed"}
    /\ sent \in 0..MaxSent
    /\ wire \in Seq(Message)
    /\ ends \in Seq(Int) /\ Len(ends) = Len(wire)
    /\ torn \in BOOLEAN /\ overran \in BOOLEAN

InStep == ~torn /\ ~overran

\* However recv merges messages, and whatever their keys look like, as long
\* as it cuts none and no leftover is read as a header the controller does
\* exactly what SwitchController says: every message is decoded to what the
\* Frontend encoded and applied once, in the order of sending, or, when
\* begin_batch fails, dropped together with all that was received with it and
\* nothing else.
ImplementsSwitchController ==
    SC!Init /\ [][\/ torn' \/ overran'
                  \/ Len(wire') > Len(wire) /\ UNCHANGED <<Rest, table, failed>>
                  \/ SC!Next]_<<wire, Rest, table, failed>>

\* In step, one round of the loop never runs out of key handles: the entries
\* that fit in recv_buffer are fewer than the handles.
HandlesSuffice == InStep => entry_index <= Handles /\ status # "crashed"

\* What has been sent is received to the last message, however it is cut into
\* recvs and however often begin_batch fails: all messages but those dropped
\* by a failing begin_batch are applied.  Nothing is said of a stream that was
\* cut inside a message or of which a leftover was read.
AllHandled == wire # <<>> ~> wire = <<>> \/ ~InStep
=============================================================================
