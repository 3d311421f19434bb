--------------------------- MODULE SwitchDataPlane ---------------------------
(***************************************************************************)
(* What the P4 program does with a TCP packet                              *)
(* (Switch/data_plane/l7lb_switch.p4): the direction found by the lookup   *)
(* tables, the offload_connection_table match and the flags that decide    *)
(* between the Frontend, the backend, the client and a SYN-ACK of the      *)
(* switch's own.  The tables filled from the configuration (dip_lookup,    *)
(* *_to_egress_port, d_index_to_ip_port) hold every backend, so the        *)
(* endpoint a packet leaves for stands for its port and MAC rewriting.     *)
(***************************************************************************)
EXTENDS FlowData

\* dip_lookup_table is applied after vip_lookup_table and overrides it.
direction(p) ==
    IF p.src \in DIndex THEN "outbound"
    ELSE IF p.dst = VIP THEN "inbound" ELSE "none"

\* ig_md.cip, ig_md.cport: the key of offload_connection_table.
client(p) == IF direction(p) = "outbound" THEN p.dst ELSE p.src

oft_hit(p, table) == direction(p) # "none" /\ table[client(p)] # NULL

SynRespond(p) == direction(p) = "inbound" /\ "SYN" \in p.flags

\* Faulty variant: every packet with SYN goes to the Frontend.
ToFrontend_Syn(p, table) ==
    /\ direction(p) # "none"
    /\ ~SynRespond(p)
    /\ \/ p.flags \cap {"SYN", "FIN", "RST"} # {}
       \/ ~oft_hit(p, table)
       \/ direction(p) = "inbound" /\ p.url # NULL

\* hdr.bridged.lb_flag
ToFrontend(p, table) ==
    /\ direction(p) # "none"
    /\ ~SynRespond(p)
    /\ \/ p.flags \cap {"FIN", "RST"} # {}
       \/ ~oft_hit(p, table)
       \/ direction(p) = "inbound" /\ p.url # NULL

\* hdr.bridged.d_flag: straight to the backend the entry names.
ToBackend(p, table) ==
    direction(p) = "inbound" /\ ~SynRespond(p) /\ ~ToFrontend(p, table)

\* hdr.bridged.v_flag: straight to the client.
ToClient(p, table) == direction(p) = "outbound" /\ ~ToFrontend(p, table)

\* Faulty variant: the source of an outbound packet stays the backend's.
Egress_NoVip(p, table) ==
    IF SynRespond(p)
    THEN [p EXCEPT !.src = p.dst, !.dst = p.src, !.flags = @ \cup {"SYN", "ACK"}]
    ELSE IF ToBackend(p, table) THEN [p EXCEPT !.dst = table[p.src].d_index]
    ELSE p

\* Egress rewriting of a packet that does not go to the Frontend.
Egress(p, table) ==
    IF SynRespond(p)
    THEN [p EXCEPT !.src = p.dst, !.dst = p.src, !.flags = @ \cup {"SYN", "ACK"}]
    ELSE IF ToBackend(p, table) THEN [p EXCEPT !.dst = table[p.src].d_index]
    ELSE IF ToClient(p, table) THEN [p EXCEPT !.src = VIP]
    ELSE p
=============================================================================
