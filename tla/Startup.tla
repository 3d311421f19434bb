------------------------------ MODULE Startup ------------------------------
(***************************************************************************)
(* How the system comes up.  The switch program                            *)
(* (Switch/control_plane/src/main.c, client.c, controller.c) opens its     *)
(* listening socket, fills the static tables of the data plane row by row, *)
(* and only then accepts a Frontend, to which it sends the configuration   *)
(* in three messages: rules, d_index table, virtual server.  The Frontend  *)
(* (Frontend/main.cpp, rule_controller.cpp) starts its packet workers      *)
(* before it connects, and of everything one recv returns it handles the   *)
(* first message only.  Workers use whatever has arrived.                  *)
(*                                                                         *)
(* Every driver or socket call of the switch's start-up may fail, which    *)
(* ends the program, and so may those of run_controller but for the        *)
(* driver's.  The three messages together fit the Frontend's receive       *)
(* buffer (1514 bytes): none is cut.                                       *)
(***************************************************************************)
EXTENDS Naturals, Sequences

CONSTANTS
    Backend,   \* the d_index values of d_index.json
    Url,       \* the rules' urls
    Rules      \* rule.json: url -> d_index

ASSUME StartupAssumption == Rules \in [Url -> Backend]

\* The tables main fills, in this order, and their rows.
TableOrder == <<"arp_table", "dip_lookup_table", "d_index_to_egress_port_table",
                "d_index_to_ip_port_table", "lb_index_to_egress_port_table",
                "dest_to_egress_port_table">>
Table == {TableOrder[i] : i \in 1..Len(TableOrder)}
Rows(t) == IF t \in {"dip_lookup_table", "d_index_to_egress_port_table",
                     "d_index_to_ip_port_table"}
           THEN Backend ELSE {"row"}

Op == {"UPDATE_RULE", "UPDATE_D_INDEX", "UPDATE_V_INFO"}

\* Faulty variant: the d_index table is sent last.
OpOrder_DIndexLast == <<"UPDATE_RULE", "UPDATE_V_INFO", "UPDATE_D_INDEX">>

\* The messages of the accept branch, in this order.
OpOrder == <<"UPDATE_RULE", "UPDATE_D_INDEX", "UPDATE_V_INFO">>

VARIABLES
    switch,      \* where main is: "driver", "tables", "controller", "fill",
                 \* "run", or "exited"
    rows,        \* table -> rows added
    sending,     \* the message of OpOrder the accept branch sends next
    frontend,    \* "started" (workers run), "connected", "exited", "crashed"
    stream,      \* messages sent to the Frontend and not received
    op, left,    \* the message being handled, and what of it is left
    rule_map, d_index_map, v_info,  \* what rule_controller_t knows
    lost         \* history: messages received behind another and not handled

switchvars   == <<switch, rows, sending>>
rulevars     == <<rule_map, d_index_map, v_info>>
frontendvars == <<frontend, op, left, rulevars, lost>>
vars == <<switchvars, stream, frontendvars>>

Init ==
    /\ switch = "driver"
    /\ rows = [t \in Table |-> {}]
    /\ sending = 0
    /\ frontend = "started"
    /\ stream = <<>>
    /\ op = "none" /\ left = {}
    /\ rule_map = {} /\ d_index_map = {} /\ v_info = FALSE
    /\ lost = {}

-----------------------------------------------------------------------------
(* The switch program.                                                     *)

\* exit(1): the driver session and all sockets are gone.
Exit ==
    /\ switch # "exited"
    /\ switch' = "exited"
    /\ UNCHANGED <<rows, sending, stream, frontendvars>>

\* init_switch, init_bf_rt, init_ports
InitDriver ==
    /\ switch = "driver"
    /\ switch' = "tables"
    /\ UNCHANGED <<rows, sending, stream, frontendvars>>

\* The seven setup_* functions: ids and handles of every table.
SetupTables ==
    /\ switch = "tables"
    /\ switch' = "controller"
    /\ UNCHANGED <<rows, sending, stream, frontendvars>>

\* init_controller: listen, then read rule.json, d_index.json, v_info.json.
init_controller ==
    /\ switch = "controller"
    /\ switch' = "fill"
    /\ UNCHANGED <<rows, sending, stream, frontendvars>>

Listening == switch \in {"fill", "run"}

Full(t) == rows[t] = Rows(t)

\* One bf_rt_table_entry_add of the add_*_table_entry functions: the tables
\* before t are full.
AddRow(t, r) ==
    /\ switch = "fill"
    /\ r \in Rows(t) \ rows[t]
    /\ \E i \in 1..Len(TableOrder) :
        TableOrder[i] = t /\ \A j \in 1..(i - 1) : Full(TableOrder[j])
    /\ rows' = [rows EXCEPT ![t] = @ \cup {r}]
    /\ UNCHANGED <<switch, sending, stream, frontendvars>>

run_controller ==
    /\ switch = "fill"
    /\ \A t \in Table : Full(t)
    /\ switch' = "run"
    /\ UNCHANGED <<rows, sending, stream, frontendvars>>

\* Faulty variant: connections are accepted as soon as the socket listens.
Accept_Early ==
    /\ Listening
    /\ frontend = "connected" /\ sending = 0
    /\ sending' = 1
    /\ UNCHANGED <<switch, rows, stream, frontendvars>>

\* The accept branch: the Frontend waits in the backlog until run_controller.
Accept ==
    /\ switch = "run"
    /\ frontend = "connected" /\ sending = 0
    /\ sending' = 1
    /\ UNCHANGED <<switch, rows, stream, frontendvars>>

\* Faulty variant: there is no third message.
SendConfig_NoVInfo ==
    /\ switch # "exited"
    /\ sending \in 1..2
    /\ sending' = sending + 1
    /\ stream' = Append(stream, OpOrder[sending])
    /\ UNCHANGED <<switch, rows, frontendvars>>

\* The three sends.  There is a sleep(1) before the third, during which the
\* Frontend may or may not read the first two.
SendConfig ==
    /\ switch # "exited"
    /\ sending \in 1..Len(OpOrder)
    /\ sending' = sending + 1
    /\ stream' = Append(stream, OpOrder[sending])
    /\ UNCHANGED <<switch, rows, frontendvars>>

-----------------------------------------------------------------------------
(* The Frontend's main thread.                                             *)

\* connect; refused when nothing listens, and main returns -1.
Connect ==
    /\ frontend = "started"
    /\ frontend' = IF Listening THEN "connected" ELSE "exited"
    /\ UNCHANGED <<switchvars, stream, op, left, rulevars, lost>>

\* recv returns 0: "Connection closed by switch".
Closed ==
    /\ frontend = "connected" /\ switch = "exited"
    /\ frontend' = "exited"
    /\ UNCHANGED <<switchvars, stream, op, left, rulevars, lost>>

\* recv returns the first n messages; the first one decides the operation.
Recv(n) ==
    /\ frontend = "connected"
    /\ left = {} /\ n <= Len(stream)
    /\ op' = Head(stream)
    /\ left' = CASE op' = "UPDATE_RULE" -> Url
                 [] op' = "UPDATE_D_INDEX" -> Backend
                 [] op' = "UPDATE_V_INFO" -> {"v_info"}
    /\ lost' = lost \cup {stream[i] : i \in 2..n}
    /\ stream' = SubSeq(stream, n + 1, Len(stream))
    /\ UNCHANGED <<switchvars, frontend, rulevars>>

\* Faulty variant: the entries of both tables are filed as rules.
HandleEntry_FallsThrough(x) ==
    /\ frontend = "connected"
    /\ x \in left
    /\ left' = left \ {x}
    /\ rule_map' = IF op = "UPDATE_V_INFO" THEN rule_map ELSE rule_map \cup {x}
    /\ d_index_map' = IF op = "UPDATE_D_INDEX" THEN d_index_map \cup {x} ELSE d_index_map
    /\ v_info' = (v_info \/ op = "UPDATE_V_INFO")
    /\ UNCHANGED <<switchvars, stream, frontend, op, lost>>

\* One add_balancing_rule, add_d_index_rule or update_virtual_server_info.
HandleEntry(x) ==
    /\ frontend = "connected"
    /\ x \in left
    /\ left' = left \ {x}
    /\ \/ /\ op = "UPDATE_RULE"
          /\ rule_map' = rule_map \cup {x}
          /\ UNCHANGED <<d_index_map, v_info>>
       \/ /\ op = "UPDATE_D_INDEX"
          /\ d_index_map' = d_index_map \cup {x}
          /\ UNCHANGED <<rule_map, v_info>>
       \/ /\ op = "UPDATE_V_INFO"
          /\ v_info' = TRUE
          /\ UNCHANGED <<rule_map, d_index_map>>
    /\ UNCHANGED <<switchvars, stream, frontend, op, lost>>

-----------------------------------------------------------------------------
(* The workers, as far as they use the rule tables.                        *)

Running == frontend \in {"started", "connected"}

\* A first request the switch passes to the Frontend: lookup_balancing_rule,
\* then send_syn_pkt, which dereferences what lookup_backend_server_info
\* returns without looking.  (Without a rule the packet is dropped, and with
\* a known backend a flow is opened, which PktProcessor is about.)
Request(u) ==
    /\ Running
    /\ Full("lb_index_to_egress_port_table")
    /\ u \in rule_map /\ Rules[u] \notin d_index_map
    /\ frontend' = "crashed"
    /\ UNCHANGED <<switchvars, stream, op, left, rulevars, lost>>

-----------------------------------------------------------------------------
Main ==
    \/ InitDriver \/ SetupTables \/ init_controller
    \/ \E t \in Table : \E r \in Rows(t) : AddRow(t, r)
    \/ run_controller \/ Accept \/ SendConfig

Receive ==
    \/ Closed
    \/ \E n \in 1..Len(OpOrder) : Recv(n)
    \/ \E x \in left : HandleEntry(x)

Next ==
    \/ Main \/ Exit
    \/ Connect \/ Receive
    \/ \E u \in Url : Request(u)

\* main runs on, epoll_wait returns while there is data; calls need not fail,
\* clients need not send, and nobody has to start the Frontend.
Spec == Init /\ [][Next]_vars /\ WF_vars(Main) /\ WF_vars(Receive)

-----------------------------------------------------------------------------
(* Properties.                                                             *)

\* Every variable has its type.
TypeOK ==
    /\ switch \in {"driver", "tables", "controller", "fill", "run", "exited"}
    /\ \A t \in Table : rows[t] \subseteq Rows(t)
    /\ sending \in 0..Len(OpOrder) + 1
    /\ frontend \in {"started", "connected", "exited", "crashed"}
    /\ stream \in Seq(Op)
    /\ op \in Op \cup {"none"}
    /\ left \subseteq Url \cup Backend \cup {"v_info"}
    /\ rule_map \subseteq Url /\ d_index_map \subseteq Backend
    /\ v_info \in BOOLEAN
    /\ lost \subseteq Op

\* No Frontend knows a rule or a backend before every static table of the
\* data plane is full, although it may be connected long before: a packet it
\* sends, and an entry it asks for, always find their port and address.
TablesBeforeRules ==
    rule_map # {} \/ d_index_map # {} => \A t \in Table : Full(t)

\* send_syn_pkt dereferences the server_info of a backend that is not known
\* yet, which ends the Frontend, only before the message with the virtual
\* server has been handled: the messages are sent and handled in order, so by
\* then every backend is known.  Excepted is a Frontend of which one recv
\* returned several messages, for it never learns what came behind the first.
CrashesEarly == frontend = "crashed" => ~v_info \/ lost # {}

Configured == rule_map = Url /\ d_index_map = Backend /\ v_info

\* A Frontend that is connected gets its configuration, unless one of the
\* programs ends or recv merges messages.
GetsConfigured ==
    frontend = "connected" ~>
        Configured \/ lost # {} \/ frontend # "connected"
=============================================================================
