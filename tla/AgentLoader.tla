---------------------------- MODULE AgentLoader ----------------------------
(***************************************************************************)
(* Putting the back-end agent in place and taking it away:                 *)
(* Backend/xdp_loader.c and Backend/unload.sh.                             *)
(*                                                                         *)
(* The two programs work together only through shared maps: the egress     *)
(* program is loaded with the maps the ingress program's load created,     *)
(* found by their pins.  The loader is a sequence of calls, each of which  *)
(* may fail; it then returns without undoing the earlier ones.  The script *)
(* is a sequence of commands, each of which does nothing when its object   *)
(* is absent.  Either may be interrupted, and both may be run repeatedly,  *)
(* but not at the same time.                                               *)
(***************************************************************************)
EXTENDS Naturals

CONSTANTS
    MaxLoads,  \* bound on the runs of the loader
    NULL

ASSUME LoaderAssumption == MaxLoads \in Nat /\ NULL \notin Nat

VARIABLES
    xdp,       \* the maps of the attached ingress program, or NULL
    tc,        \* the flow_map and seq_map of the attached egress program
    pin,       \* the pinned flow_map and seq_map
    hook,      \* the interface has a clsact qdisc
    at,        \* the loader's next call, or "idle"
    loads,     \* how many loads there were; a load's number names its maps
    line,      \* the next line of unload.sh, 0 when it is not running
    cut,       \* history: unload.sh was interrupted and not run to its end since
    unloaded   \* history: the last thing that ran was unload.sh, to its end

kernel == <<xdp, tc, pin, hook>>
vars == <<kernel, at, loads, line, cut, unloaded>>

NoMaps == [flow_map |-> NULL, seq_map |-> NULL]

Init ==
    /\ xdp = NULL /\ tc = NoMaps /\ pin = NoMaps
    /\ hook = FALSE
    /\ at = "idle" /\ loads = 0 /\ line = 0
    /\ cut = FALSE /\ unloaded = FALSE

-----------------------------------------------------------------------------
(* xdp_loader                                                              *)

\* bpf_object__load of the ingress object creates a new pair of maps.
Load ==
    /\ at = "idle" /\ line = 0 /\ loads < MaxLoads
    /\ loads' = loads + 1
    /\ at' = "xdp"
    /\ unloaded' = FALSE
    /\ UNCHANGED <<kernel, line, cut>>

Loader(from, to) ==
    /\ at = from /\ at' = to
    /\ UNCHANGED <<loads, line, cut, unloaded>>

\* XDP_FLAGS_UPDATE_IF_NOEXIST
AttachXdp ==
    /\ Loader("xdp", "pin_flow")
    /\ xdp = NULL /\ xdp' = loads
    /\ UNCHANGED <<tc, pin, hook>>

\* bpf_map__pin fails when the path exists.
PinFlow ==
    /\ Loader("pin_flow", "pin_seq")
    /\ pin.flow_map = NULL /\ pin' = [pin EXCEPT !.flow_map = loads]
    /\ UNCHANGED <<xdp, tc, hook>>

PinSeq ==
    /\ Loader("pin_seq", "egress")
    /\ pin.seq_map = NULL /\ pin' = [pin EXCEPT !.seq_map = loads]
    /\ UNCHANGED <<xdp, tc, hook>>

\* bpf_obj_get and bpf_map__reuse_fd of both pins, bpf_object__load.
LoadEgress == Loader("egress", "hook") /\ UNCHANGED kernel

\* bpf_tc_hook_create fails when there is a clsact qdisc.
CreateHook ==
    /\ Loader("hook", "tc")
    /\ ~hook /\ hook' = TRUE
    /\ UNCHANGED <<xdp, tc, pin>>

\* Faulty variant: the egress program is loaded with maps of its own.
AttachTc_OwnMaps ==
    /\ Loader("tc", "idle")
    /\ tc' = [flow_map |-> MaxLoads + loads, seq_map |-> MaxLoads + loads]
    /\ UNCHANGED <<xdp, pin, hook>>

\* BPF_TC_F_REPLACE
AttachTc ==
    /\ Loader("tc", "idle")
    /\ tc' = pin
    /\ UNCHANGED <<xdp, pin, hook>>

\* The loader's next call fails, or the loader is interrupted.
Fail == at # "idle" /\ Loader(at, "idle") /\ UNCHANGED kernel

-----------------------------------------------------------------------------
(* unload.sh                                                               *)

\* Faulty variant: unload.sh without its fourth and fifth line.
UnloadLine_NoTc ==
    /\ at = "idle"
    /\ xdp' = IF line = 1 THEN NULL ELSE xdp
    /\ pin' = CASE line = 2 -> [pin EXCEPT !.flow_map = NULL]
                [] line = 3 -> [pin EXCEPT !.seq_map = NULL]
                [] OTHER -> pin
    /\ line' = IF line = 3 THEN 0 ELSE line + 1
    /\ cut' = (cut /\ line # 3)
    /\ unloaded' = (line = 3)
    /\ UNCHANGED <<tc, hook, at, loads>>

\* Faulty variant: unload.sh does not remove the pin of seq_map.
UnloadLine_KeepsSeq ==
    /\ at = "idle"
    /\ xdp' = IF line = 1 THEN NULL ELSE xdp
    /\ pin' = IF line = 2 THEN [pin EXCEPT !.flow_map = NULL] ELSE pin
    /\ tc' = IF line \in {4, 5} THEN NoMaps ELSE tc
    /\ hook' = (hook /\ line # 5)
    /\ line' = IF line = 5 THEN 0 ELSE line + 1
    /\ cut' = (cut /\ line # 5)
    /\ unloaded' = (line = 5)
    /\ UNCHANGED <<at, loads>>

\* xdp off; rm flow_map; rm seq_map; tc filter del; tc qdisc del, which
\* takes the filters with it.
UnloadLine ==
    /\ at = "idle"
    /\ xdp' = IF line = 1 THEN NULL ELSE xdp
    /\ pin' = CASE line = 2 -> [pin EXCEPT !.flow_map = NULL]
                [] line = 3 -> [pin EXCEPT !.seq_map = NULL]
                [] OTHER -> pin
    /\ tc' = IF line \in {4, 5} THEN NoMaps ELSE tc
    /\ hook' = (hook /\ line # 5)
    /\ line' = IF line = 5 THEN 0 ELSE line + 1
    /\ cut' = (cut /\ line # 5)
    /\ unloaded' = (line = 5)
    /\ UNCHANGED <<at, loads>>

\* unload.sh is interrupted before its next line.
Interrupt ==
    /\ line > 0
    /\ line' = 0
    /\ cut' = TRUE
    /\ UNCHANGED <<kernel, at, loads, unloaded>>

-----------------------------------------------------------------------------
Next ==
    \/ Load \/ AttachXdp \/ PinFlow \/ PinSeq \/ LoadEgress \/ CreateHook
    \/ AttachTc \/ Fail
    \/ UnloadLine \/ Interrupt

Spec == Init /\ [][Next]_vars

-----------------------------------------------------------------------------
(* Properties.                                                             *)

\* Every variable has its type.
TypeOK ==
    /\ xdp \in 1..MaxLoads \cup {NULL}
    /\ tc \in [flow_map : 1..MaxLoads \cup {NULL}, seq_map : 1..MaxLoads \cup {NULL}]
    /\ pin \in [flow_map : 1..MaxLoads \cup {NULL}, seq_map : 1..MaxLoads \cup {NULL}]
    /\ hook \in BOOLEAN
    /\ at \in {"idle", "xdp", "pin_flow", "pin_seq", "egress", "hook", "tc"}
    /\ loads \in 0..MaxLoads /\ line \in 0..5
    /\ cut \in BOOLEAN /\ unloaded \in BOOLEAN

\* However often the loader fails halfway and is run again, with or without
\* unload.sh in between: the egress program is never attached next to an
\* ingress program of another load, whose maps it does not share, nor without
\* one, unless unload.sh is at work or was interrupted.
SharedMaps ==
    tc # NoMaps /\ line = 0 /\ ~cut =>
        tc.flow_map = xdp /\ tc.seq_map = xdp

\* unload.sh, run to its end, takes away whatever loads that failed at any
\* call have left, so that the next load finds no object in its way.
UnloadUndoes ==
    unloaded => xdp = NULL /\ tc = NoMaps /\ pin = NoMaps /\ ~hook
=============================================================================
