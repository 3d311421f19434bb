---------------------------- MODULE OffloadTable ----------------------------
(***************************************************************************)
(* What the offload path promises, without saying how: per connection, the *)
(* backend the Frontend wants the switch to forward to and the entry the   *)
(* switch has.  The Frontend asks for an entry and takes it back in turn;  *)
(* the switch gains and loses entries later, at any time, but it never has *)
(* an entry nobody asked for, an entry that is up to date is the wanted    *)
(* one, and an entry that was taken back does not stay.                    *)
(*                                                                         *)
(* Connections outside trusted are beyond the promise: the ones whose      *)
(* commands get_offloaded_entries may put in the wrong order, whose flow   *)
(* two workers were inside together or of which the switch's driver lost a *)
(* command, and all of them once a worker has used freed memory.           *)
(***************************************************************************)
EXTENDS Naturals

CONSTANTS Endpoint, DIndex, NULL

VARIABLES
    want,     \* key -> the backend the connection is offloaded to, or NULL
    cmd,      \* key -> how often want has changed
    entry,    \* key -> the switch's entry, with the command it stems from
    trusted   \* the keys the promise is made for

tvars == <<want, cmd, entry, trusted>>

Init ==
    /\ want = [k \in Endpoint |-> NULL]
    /\ cmd = [k \in Endpoint |-> 0]
    /\ entry = [k \in Endpoint |-> NULL]
    /\ trusted = Endpoint

Ask(k, d) ==
    /\ want[k] = NULL /\ want'[k] = d
    /\ cmd'[k] = cmd[k] + 1
    /\ entry'[k] = entry[k]

TakeBack(k) ==
    /\ want[k] # NULL /\ want'[k] = NULL
    /\ cmd'[k] = cmd[k] + 1
    /\ entry'[k] = entry[k]

\* The switch carries out a command, the latest or an older one.
Install(k, d) ==
    /\ entry[k] = NULL
    /\ \E n \in 1..cmd[k] :
        /\ n = cmd[k] => want[k] = d
        /\ entry'[k] = [d_index |-> d, n |-> n]
    /\ want'[k] = want[k] /\ cmd'[k] = cmd[k]

\* Only a connection that has been taken back before can lose its entry; it
\* may be the entry of a newer command (the switch applies adds first).
Remove(k) ==
    /\ cmd[k] >= 2
    /\ entry[k] # NULL /\ entry'[k] = NULL
    /\ want'[k] = want[k] /\ cmd'[k] = cmd[k]

Same(k) == want'[k] = want[k] /\ cmd'[k] = cmd[k] /\ entry'[k] = entry[k]

\* One connection moves at a time.
Next ==
    /\ trusted' \subseteq trusted
    /\ \E k \in Endpoint :
        /\ k \in trusted' =>
             \/ \E d \in DIndex : Ask(k, d) \/ Install(k, d)
             \/ TakeBack(k) \/ Remove(k) \/ Same(k)
        /\ \A l \in trusted' \ {k} : Same(l)

\* The promise without its liveness part.
Safety == Init /\ [][Next]_tvars

Obsolete(k) == entry[k] # NULL /\ entry[k].n < cmd[k]

\* An entry that was taken back goes away.
ObsoleteGoes == \A k \in Endpoint : Obsolete(k) ~> ~Obsolete(k) \/ k \notin trusted

Spec == Safety /\ ObsoleteGoes
=============================================================================
