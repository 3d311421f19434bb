------------------------- MODULE AgentLoaderProofs -------------------------
(***************************************************************************)
(* Proofs about AgentLoader for every number of loads.                     *)
(*                                                                         *)
(* SharedMaps is not inductive: AttachTc hands the pinned maps to the      *)
(* egress program, and that these are the ingress program's maps follows   *)
(* only from what each earlier call of the same load has done.  Progress   *)
(* states that, and Undone the same for the lines of unload.sh.            *)
(***************************************************************************)
EXTENDS AgentLoader, TLAPS

\* What the calls xdp_loader has made in this load have left behind.
Progress ==
    /\ at \in {"pin_flow", "pin_seq", "egress", "hook", "tc"} => xdp = loads
    /\ at \in {"pin_seq", "egress", "hook", "tc"} => pin.flow_map = loads
    /\ at \in {"egress", "hook", "tc"} => pin.seq_map = loads

\* What the lines of unload.sh that have run have taken away.
Undone ==
    /\ line > 1 => xdp = NULL
    /\ line > 2 => pin.flow_map = NULL
    /\ line > 3 => pin.seq_map = NULL
    /\ line > 4 => tc = NoMaps

\* The loader and the script do not run at the same time, and only the
\* script's last line makes unloaded true.
OneAtATime ==
    /\ line > 0 => at = "idle"
    /\ unloaded => at = "idle" /\ line = 0

\* A load's number is counted before its first call.
Counted == at # "idle" => loads > 0

IInv ==
    /\ TypeOK
    /\ OneAtATime /\ Counted /\ Progress /\ Undone
    /\ SharedMaps /\ UnloadUndoes

-----------------------------------------------------------------------------
\* Nothing is attached, pinned or running at first.
LEMMA InitIInv == Init => IInv
<1> SUFFICES ASSUME Init PROVE IInv
    OBVIOUS
<1> USE LoaderAssumption DEF Init
<1>1. hook \in BOOLEAN /\ cut \in BOOLEAN /\ unloaded \in BOOLEAN
    BY Zenon
<1>2. TypeOK
    BY <1>1 DEF TypeOK, NoMaps
<1>3. OneAtATime /\ Counted /\ Progress /\ Undone
    BY DEF OneAtATime, Counted, Progress, Undone
<1>4. SharedMaps /\ UnloadUndoes
    BY DEF SharedMaps, UnloadUndoes
<1> QED
    BY <1>2, <1>3, <1>4 DEF IInv

\* Every call of the loader and every line of the script keeps the types.
LEMMA NextType == IInv /\ [Next]_vars => TypeOK'
<1> SUFFICES ASSUME IInv, [Next]_vars PROVE TypeOK'
    OBVIOUS
<1> USE LoaderAssumption DEF IInv, TypeOK, Counted
<1>1. CASE Load
  <2>1. unloaded' \in BOOLEAN
    BY <1>1, Zenon DEF Load
  <2> QED
    BY <1>1, <2>1 DEF Load, kernel
<1>2. CASE AttachXdp
    BY <1>2 DEF AttachXdp, Loader
<1>3. CASE PinFlow
    BY <1>3 DEF PinFlow, Loader
<1>4. CASE PinSeq
    BY <1>4 DEF PinSeq, Loader
<1>5. CASE LoadEgress
    BY <1>5 DEF LoadEgress, Loader, kernel
<1>6. CASE CreateHook
    BY <1>6 DEF CreateHook, Loader
<1>7. CASE AttachTc
    BY <1>7 DEF AttachTc, Loader
<1>8. CASE Fail
    BY <1>8 DEF Fail, Loader, kernel
<1>9. CASE UnloadLine
  <2>1. hook' \in BOOLEAN /\ cut' \in BOOLEAN /\ unloaded' \in BOOLEAN
    BY <1>9, Zenon DEF UnloadLine
  <2>2. pin' \in [flow_map : 1..MaxLoads \cup {NULL}, seq_map : 1..MaxLoads \cup {NULL}]
    BY <1>9 DEF UnloadLine
  <2>3. tc' \in [flow_map : 1..MaxLoads \cup {NULL}, seq_map : 1..MaxLoads \cup {NULL}]
    BY <1>9 DEF UnloadLine, NoMaps
  <2>4. xdp' \in 1..MaxLoads \cup {NULL} /\ line' \in 0..5
    BY <1>9 DEF UnloadLine
  <2> QED
    BY <1>9, <2>1, <2>2, <2>3, <2>4 DEF UnloadLine
<1>10. CASE Interrupt
    BY <1>10 DEF Interrupt, kernel
<1>11. CASE UNCHANGED vars
    BY <1>11 DEF vars, kernel
<1> QED
    BY <1>1, <1>2, <1>3, <1>4, <1>5, <1>6, <1>7, <1>8, <1>9, <1>10, <1>11
    DEF Next

\* The loader's calls follow one another, and the script's lines do.
LEMMA NextProgress ==
    IInv /\ [Next]_vars => (OneAtATime /\ Counted /\ Progress /\ Undone)'
<1> SUFFICES ASSUME IInv, [Next]_vars
             PROVE  (OneAtATime /\ Counted /\ Progress /\ Undone)'
    OBVIOUS
<1> USE LoaderAssumption DEF IInv, TypeOK, OneAtATime, Counted, Progress, Undone
<1>1. CASE Load
    BY <1>1 DEF Load, kernel
<1>2. CASE AttachXdp
    BY <1>2 DEF AttachXdp, Loader
<1>3. CASE PinFlow
    BY <1>3 DEF PinFlow, Loader
<1>4. CASE PinSeq
    BY <1>4 DEF PinSeq, Loader
<1>5. CASE LoadEgress
    BY <1>5 DEF LoadEgress, Loader, kernel
<1>6. CASE CreateHook
    BY <1>6 DEF CreateHook, Loader
<1>7. CASE AttachTc
    BY <1>7 DEF AttachTc, Loader
<1>8. CASE Fail
    BY <1>8 DEF Fail, Loader, kernel
<1>9. CASE UnloadLine
  <2>1. unloaded' => line = 5
    BY <1>9, Zenon DEF UnloadLine
  <2>2. OneAtATime' /\ Counted' /\ Progress'
    BY <1>9, <2>1 DEF UnloadLine
  <2>3. Undone'
    BY <1>9 DEF UnloadLine, NoMaps
  <2> QED
    BY <2>2, <2>3
<1>10. CASE Interrupt
    BY <1>10 DEF Interrupt, kernel
<1>11. CASE UNCHANGED vars
    BY <1>11 DEF vars, kernel
<1> QED
    BY <1>1, <1>2, <1>3, <1>4, <1>5, <1>6, <1>7, <1>8, <1>9, <1>10, <1>11
    DEF Next

\* No step separates the two programs' maps, and only the script's last line
\* claims that everything is gone.
LEMMA NextSafe == IInv /\ [Next]_vars => (SharedMaps /\ UnloadUndoes)'
<1> SUFFICES ASSUME IInv, [Next]_vars PROVE (SharedMaps /\ UnloadUndoes)'
    OBVIOUS
<1> USE LoaderAssumption DEF IInv, TypeOK, SharedMaps, UnloadUndoes
<1>1. CASE Load
    BY <1>1 DEF Load, kernel
<1>2. CASE AttachXdp
  \* An egress program that is attached would share its maps with the
  \* ingress program, and there is none.
  <2>1. tc # NoMaps => tc.flow_map # NULL \/ tc.seq_map # NULL
    BY DEF NoMaps
  <2> QED
    BY <1>2, <2>1 DEF AttachXdp, Loader, OneAtATime
<1>3. CASE PinFlow
    BY <1>3 DEF PinFlow, Loader, OneAtATime
<1>4. CASE PinSeq
    BY <1>4 DEF PinSeq, Loader, OneAtATime
<1>5. CASE LoadEgress
    BY <1>5 DEF LoadEgress, Loader, kernel
<1>6. CASE CreateHook
    BY <1>6 DEF CreateHook, Loader, OneAtATime
<1>7. CASE AttachTc
  \* The pins are this load's, and so is the ingress program.
    BY <1>7 DEF AttachTc, Loader, Progress, OneAtATime
<1>8. CASE Fail
    BY <1>8 DEF Fail, Loader, kernel
<1>9. CASE UnloadLine
  <2>1. SharedMaps'
    BY <1>9 DEF UnloadLine
  <2>2. ASSUME line = 5 PROVE UnloadUndoes'
    BY <1>9, <2>2 DEF UnloadLine, Undone, NoMaps
  <2>3. ASSUME line # 5 PROVE UnloadUndoes'
    BY <1>9, <2>3 DEF UnloadLine
  <2> QED
    BY <2>1, <2>2, <2>3
<1>10. CASE Interrupt
    BY <1>10 DEF Interrupt, kernel
<1>11. CASE UNCHANGED vars
    BY <1>11 DEF vars, kernel
<1> QED
    BY <1>1, <1>2, <1>3, <1>4, <1>5, <1>6, <1>7, <1>8, <1>9, <1>10, <1>11
    DEF Next

\* IInv is an inductive invariant.
LEMMA Invariance == Spec => []IInv
<1>1. IInv /\ [Next]_vars => IInv'
    BY NextType, NextProgress, NextSafe DEF IInv
<1> QED
    BY InitIInv, <1>1, PTL DEF Spec

-----------------------------------------------------------------------------
\* xdp_loader.c and unload.sh keep every variable of the model in its type.
THEOREM TypeCorrect == Spec => []TypeOK
<1>1. IInv => TypeOK
    BY DEF IInv
<1> QED
    BY Invariance, <1>1, PTL

\* However often xdp_loader.c fails at whichever call and is run again, the
\* egress program shares both its maps with the ingress program next to it,
\* unless unload.sh is at work or was interrupted.
THEOREM MapsShared == Spec => []SharedMaps
<1>1. IInv => SharedMaps
    BY DEF IInv
<1> QED
    BY Invariance, <1>1, PTL

\* unload.sh run to its end leaves none of the objects that any sequence of
\* loads, complete or not, has put in place.
THEOREM UnloadComplete == Spec => []UnloadUndoes
<1>1. IInv => UnloadUndoes
    BY DEF IInv
<1> QED
    BY Invariance, <1>1, PTL
=============================================================================
