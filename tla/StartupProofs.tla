--------------------------- MODULE StartupProofs ---------------------------
(***************************************************************************)
(* Proofs about Startup for every set of backends and rules.               *)
(*                                                                         *)
(* TablesBeforeRules speaks of the two ends of a long chain: the Frontend  *)
(* knows a rule because it received a message, which run_controller sent,  *)
(* which main calls once every table is full.  Causes states the chain     *)
(* link by link, and Handling what a message being handled may hold.       *)
(* CrashesEarly depends on the order of the messages: InOrder counts those *)
(* the Frontend has begun to handle, as long as none was lost.             *)
(***************************************************************************)
EXTENDS Startup, SequenceTheorems, TLAPS

AllFull == \A t \in Table : Full(t)

\* What must have happened before a state of the chain is reached.
Causes ==
    /\ switch = "run" => AllFull
    /\ sending > 0 => AllFull
    /\ stream # <<>> => sending > 0
    /\ op # "none" => sending > 0
    /\ rule_map # {} \/ d_index_map # {} => sending > 0

\* What is left of the message being handled are entries of its kind.
Handling ==
    /\ op = "none" => left = {}
    /\ op = "UPDATE_RULE" => left \subseteq Url
    /\ op = "UPDATE_D_INDEX" => left \subseteq Backend

RowsType == rows \in [Table -> SUBSET (Backend \cup {"row"})]

\* The number of messages the Frontend has begun to handle, none lost.
Handled == IF op = "none" THEN 0 ELSE IF op = "UPDATE_RULE" THEN 1
           ELSE IF op = "UPDATE_D_INDEX" THEN 2 ELSE 3

\* The messages on their way are the next ones of OpOrder, and a message that
\* has been handled is known completely.
InOrder ==
    /\ sending = 0 => Len(stream) + Handled = 0
    /\ sending > 0 => Len(stream) + Handled = sending - 1
    /\ \A i \in 1..Len(stream) : stream[i] = OpOrder[Handled + i]
    /\ Handled = 2 => Backend \subseteq d_index_map \cup left
    /\ Handled = 3 => Backend \subseteq d_index_map
    /\ v_info => Handled = 3

OrderInv == (lost = {} => InOrder) /\ CrashesEarly

IInv == TypeOK /\ RowsType /\ Causes /\ Handling /\ OrderInv

-----------------------------------------------------------------------------
\* Nothing is filled, sent or known at first.
LEMMA InitIInv == Init => IInv
<1> SUFFICES ASSUME Init PROVE IInv
    OBVIOUS
<1>1. v_info \in BOOLEAN
    BY Zenon DEF Init
<1>2. stream \in Seq(Op)
    BY DEF Init
<1>3. TypeOK
    BY <1>1, <1>2 DEF Init, TypeOK, OpOrder
<1>4. RowsType
    BY DEF Init, RowsType
<1>5. Causes /\ Handling
    BY DEF Init, Causes, Handling
<1>6. OrderInv
    BY DEF Init, OrderInv, InOrder, Handled, CrashesEarly
<1> QED
    BY <1>3, <1>4, <1>5, <1>6 DEF IInv

\* A step of main before run_controller that only moves on.
LEMMA PhaseIInv ==
    ASSUME IInv, UNCHANGED <<rows, sending, stream, frontendvars>>,
           switch' \in {"driver", "tables", "controller", "fill", "run", "exited"},
           switch' = "run" => AllFull
    PROVE  IInv'
BY DEF IInv, TypeOK, RowsType, Causes, Handling, OrderInv, InOrder, Handled,
       CrashesEarly, AllFull, Full, frontendvars, rulevars

\* The add_*_table_entry functions only add rows the table has room for.
LEMMA AddRowIInv ==
    ASSUME IInv, NEW t \in Table, NEW r, AddRow(t, r)
    PROVE  IInv'
<1> USE DEF AddRow, IInv
<1>1. r \in Rows(t) /\ Rows(t) \subseteq Backend \cup {"row"}
    BY DEF Rows
<1>2. RowsType'
    BY <1>1 DEF RowsType
<1>3. \A s \in Table : rows'[s] = IF s = t THEN rows[s] \cup {r} ELSE rows[s]
    BY DEF RowsType
<1>4. TypeOK'
    BY <1>1, <1>3 DEF TypeOK, frontendvars, rulevars
<1>5. AllFull => AllFull'
    BY <1>1, <1>3 DEF AllFull, Full
<1>6. Causes'
    BY <1>5 DEF Causes, frontendvars, rulevars
<1>7. Handling' /\ OrderInv'
    BY DEF Handling, OrderInv, InOrder, Handled, CrashesEarly, frontendvars, rulevars
<1> QED
    BY <1>2, <1>4, <1>6, <1>7

\* The accept branch is reached in run_controller only, when every table is
\* full, and its sends are the only source of the stream.
LEMMA SendIInv ==
    ASSUME IInv, Accept \/ SendConfig
    PROVE  IInv'
<1> USE DEF IInv
<1>1. CASE Accept
  <2>1. TypeOK' /\ RowsType' /\ Causes' /\ Handling'
    BY <1>1 DEF Accept, TypeOK, RowsType, Causes, Handling, AllFull, Full,
                OpOrder, frontendvars, rulevars
  <2>2. OrderInv'
    BY <1>1 DEF Accept, TypeOK, OrderInv, InOrder, Handled, CrashesEarly,
                OpOrder, frontendvars, rulevars
  <2> QED
    BY <2>1, <2>2
<1>2. CASE SendConfig
  <2>1. sending \in 1..3 /\ sending' = sending + 1
    BY <1>2 DEF SendConfig, OpOrder
  <2>2. OpOrder[sending] \in Op
    BY <2>1 DEF OpOrder, Op
  <2>3. stream' \in Seq(Op)
    BY <1>2, <2>2 DEF SendConfig, TypeOK
  <2>4. TypeOK'
    BY <1>2, <2>1, <2>3 DEF SendConfig, TypeOK, OpOrder, frontendvars, rulevars
  <2>5. RowsType' /\ Causes' /\ Handling'
    BY <1>2, <2>1 DEF SendConfig, RowsType, Causes, Handling, AllFull, Full,
                      frontendvars, rulevars
  <2>6. Handled' = Handled /\ Handled \in 0..3
    BY <1>2 DEF SendConfig, Handled, frontendvars
  <2>7. /\ Len(stream) \in Nat
        /\ Len(stream') = Len(stream) + 1
        /\ \A i \in 1..Len(stream') :
                stream'[i] = IF i <= Len(stream) THEN stream[i] ELSE OpOrder[sending]
    BY <1>2, <2>2 DEF SendConfig, TypeOK
  <2>8. lost' = {} => InOrder'
    <3> SUFFICES ASSUME lost' = {} PROVE InOrder'
        OBVIOUS
    <3>1. InOrder /\ Len(stream) + Handled = sending - 1
        BY <1>2, <2>1 DEF SendConfig, OrderInv, InOrder, frontendvars
    <3>2. \A i \in 1..Len(stream') : stream'[i] = OpOrder[Handled' + i]
      <4> TAKE i \in 1..Len(stream')
      <4>1. CASE i <= Len(stream)
        BY <4>1, <3>1, <2>6, <2>7 DEF InOrder
      <4>2. CASE i > Len(stream)
        <5>1. i = Len(stream) + 1 /\ Handled' + i = sending
            BY <4>2, <3>1, <2>1, <2>6, <2>7
        <5> QED
            BY <5>1, <2>7
      <4> QED
        BY <4>1, <4>2, <2>7
    <3>3. sending' > 0 /\ Len(stream') + Handled' = sending' - 1
        BY <3>1, <2>1, <2>6, <2>7
    <3>4. d_index_map' = d_index_map /\ left' = left /\ v_info' = v_info
        BY <1>2 DEF SendConfig, frontendvars, rulevars
    <3> QED
        BY <3>1, <3>2, <3>3, <3>4, <2>6, <2>1 DEF InOrder
  <2>9. CrashesEarly'
    BY <1>2 DEF SendConfig, OrderInv, CrashesEarly, frontendvars, rulevars
  <2> QED
    BY <2>4, <2>5, <2>8, <2>9 DEF OrderInv
<1> QED
    BY <1>1, <1>2

\* What recv returns was sent; the first message decides what is handled.
LEMMA RecvIInv ==
    ASSUME IInv, NEW n \in 1..Len(OpOrder), Recv(n)
    PROVE  IInv'
<1> USE DEF IInv
<1>1. n \in Nat /\ 1 <= n /\ n <= Len(stream) /\ stream \in Seq(Op)
    BY DEF Recv, OpOrder, TypeOK
<1>2. stream # <<>> /\ Len(stream) \in Nat
    BY <1>1
<1>3. \A i \in 1..Len(stream) : stream[i] \in Op
    BY <1>1
<1>4. op' = stream[1] /\ op' \in Op
    BY <1>1, <1>2, <1>3 DEF Recv
<1>5. lost' \subseteq Op
    BY <1>1, <1>2, <1>3 DEF Recv, TypeOK
<1>6. stream' \in Seq(Op)
    BY <1>1, <1>2, <1>3, SubSeqProperties DEF Recv
<1>7. /\ op' = "UPDATE_RULE" => left' = Url
      /\ op' = "UPDATE_D_INDEX" => left' = Backend
      /\ op' = "UPDATE_V_INFO" => left' = {"v_info"}
      /\ op' # "none"
    BY <1>4 DEF Recv, Op
<1>8. TypeOK'
    BY <1>4, <1>5, <1>6, <1>7 DEF Recv, TypeOK, Op, switchvars, rulevars
<1>9. RowsType' /\ Causes'
    BY <1>2 DEF Recv, RowsType, Causes, AllFull, Full, switchvars, rulevars
<1>10. Handling' /\ CrashesEarly'
    BY <1>7 DEF Recv, Handling, OrderInv, CrashesEarly, switchvars, rulevars
<1>11. lost' = {} => InOrder'
  <2> SUFFICES ASSUME lost' = {} PROVE InOrder'
    OBVIOUS
  <2>1. n = 1
    <3>1. n >= 2 => stream[2] \in lost'
        BY <1>1 DEF Recv
    <3> QED
        BY <3>1, <1>1
  <2>2. InOrder /\ Handled \in 0..3 /\ sending \in 0..4
    BY DEF Recv, OrderInv, Handled, TypeOK, OpOrder
  <2>3. op' = OpOrder[Handled + 1] /\ Handled \in 0..2
    BY <1>1, <1>4, <2>2 DEF InOrder
  <2>4. Handled' = Handled + 1
    BY <2>3 DEF Handled, OpOrder
  <2>5. /\ Len(stream') = Len(stream) - 1
        /\ \A i \in 1..Len(stream') : stream'[i] = stream[i + 1]
    <3>1. stream' = SubSeq(stream, 2, Len(stream))
        BY <2>1 DEF Recv
    <3>2. \A i \in 2..Len(stream) : stream[i] \in Op
        BY <1>1, <1>3
    <3>3. Len(stream) \in Int /\ Len(stream) >= 1 /\ 2 \in Int
        BY <1>1
    <3>4. /\ 2 <= Len(stream) => Len(stream') = Len(stream) - 1
          /\ ~(2 <= Len(stream)) => Len(stream') = 0
          /\ \A i \in 1..Len(stream) - 2 + 1 : stream'[i] = stream[2 + i - 1]
        BY <3>1, <3>2, <3>3, SubSeqProperties
    <3>5. Len(stream') = Len(stream) - 1
        BY <1>1, <3>3, <3>4
    <3>6. ASSUME NEW i \in 1..Len(stream') PROVE stream'[i] = stream[i + 1]
        <4>1. i \in 1..Len(stream) - 2 + 1 /\ 2 + i - 1 = i + 1
            BY <3>3, <3>5
        <4> QED
            BY <3>4, <4>1
    <3> QED
        BY <3>5, <3>6
  <2>6. \A i \in 1..Len(stream') : stream'[i] = OpOrder[Handled' + i]
    <3> TAKE i \in 1..Len(stream')
    <3>1. i + 1 \in 1..Len(stream) /\ Handled + (i + 1) = Handled' + i
        BY <1>1, <2>4, <2>5, <2>3
    <3> QED
        BY <3>1, <2>2, <2>5 DEF InOrder
  <2>7. Handled' = 2 => op' = "UPDATE_D_INDEX"
    BY <2>4, <2>3 DEF OpOrder
  <2>8. Handled' = 3 => Backend \subseteq d_index_map
    BY <2>2, <2>4 DEF InOrder, Recv
  <2>9. ~v_info
    BY <2>2, <2>3 DEF InOrder
  <2>10. d_index_map' = d_index_map /\ v_info' = v_info /\ sending' = sending
    BY DEF Recv, rulevars, switchvars
  <2> QED
    BY <1>1, <1>7, <2>2, <2>4, <2>5, <2>6, <2>7, <2>8, <2>9, <2>10 DEF InOrder
<1> QED
    BY <1>8, <1>9, <1>10, <1>11 DEF OrderInv

\* add_balancing_rule, add_d_index_rule and update_virtual_server_info file
\* an entry of the message in the table the message is about.
LEMMA HandleIInv ==
    ASSUME IInv, NEW x, HandleEntry(x)
    PROVE  IInv'
<1> USE DEF IInv
<1>1. v_info' \in BOOLEAN
  <2>1. v_info' = v_info \/ v_info' = TRUE
    BY DEF HandleEntry
  <2> QED
    BY <2>1 DEF TypeOK
<1>2. /\ rule_map \subseteq rule_map' /\ d_index_map \subseteq d_index_map'
      /\ rule_map' \subseteq Url /\ d_index_map' \subseteq Backend
      /\ op # "none"
    BY DEF HandleEntry, TypeOK, Handling
<1>3. TypeOK'
    BY <1>1, <1>2 DEF HandleEntry, TypeOK, switchvars
<1>4. RowsType' /\ Causes'
    BY <1>2 DEF HandleEntry, RowsType, Causes, AllFull, Full, switchvars
<1>5. Handling'
    BY <1>2 DEF HandleEntry, Handling, switchvars
<1>6. lost' = {} => InOrder'
  <2> SUFFICES ASSUME lost' = {} PROVE InOrder'
    OBVIOUS
  <2>1. InOrder /\ Handled' = Handled /\ stream' = stream /\ sending' = sending
    BY DEF HandleEntry, OrderInv, Handled, switchvars
  <2>2. Handled = 2 => Backend \subseteq d_index_map' \cup left'
    BY <2>1 DEF HandleEntry, InOrder, Handled
  <2>3. Handled = 3 => Backend \subseteq d_index_map'
    BY <2>1, <1>2 DEF InOrder
  <2>4. v_info' => Handled = 3
    <3>1. CASE op = "UPDATE_V_INFO"
        BY <3>1 DEF Handled
    <3>2. CASE op # "UPDATE_V_INFO"
        BY <3>2, <2>1 DEF HandleEntry, InOrder
    <3> QED
        BY <3>1, <3>2
  <2> QED
    BY <2>1, <2>2, <2>3, <2>4 DEF InOrder
<1>7. CrashesEarly'
    BY DEF HandleEntry, CrashesEarly
<1> QED
    BY <1>3, <1>4, <1>5, <1>6, <1>7 DEF OrderInv

\* Connecting, being closed, and a request change what the Frontend is doing;
\* once the last message is being handled, every backend is known.
LEMMA FrontendIInv ==
    ASSUME IInv, Connect \/ Closed \/ (\E u \in Url : Request(u))
    PROVE  IInv'
<1> USE DEF IInv
<1>1. CASE Connect
    BY <1>1 DEF Connect, TypeOK, RowsType, Causes, Handling, OrderInv, InOrder,
                Handled, CrashesEarly, AllFull, Full, switchvars, rulevars
<1>2. CASE Closed
    BY <1>2 DEF Closed, TypeOK, RowsType, Causes, Handling, OrderInv, InOrder,
                Handled, CrashesEarly, AllFull, Full, switchvars, rulevars
<1>3. ASSUME NEW u \in Url, Request(u) PROVE IInv'
  <2>1. Rules[u] \in Backend
    BY StartupAssumption
  <2>2. TypeOK'
    BY <1>3, <2>1 DEF Request, TypeOK, switchvars, rulevars
  <2>3. RowsType' /\ Causes' /\ Handling'
    BY <1>3 DEF Request, RowsType, Causes, Handling, AllFull, Full, switchvars,
                rulevars
  <2>4. lost = {} => ~v_info
    BY <1>3, <2>1 DEF Request, OrderInv, InOrder
  <2>5. OrderInv'
    BY <1>3, <2>4 DEF Request, OrderInv, InOrder, Handled, CrashesEarly,
                      switchvars, rulevars
  <2> QED
    BY <2>2, <2>3, <2>5
<1> QED
    BY <1>1, <1>2, <1>3

\* IInv is inductive.
LEMMA NextIInv == IInv /\ [Next]_vars => IInv'
<1> SUFFICES ASSUME IInv, [Next]_vars PROVE IInv'
    OBVIOUS
<1>1. CASE InitDriver
    BY <1>1, PhaseIInv DEF InitDriver
<1>2. CASE SetupTables
    BY <1>2, PhaseIInv DEF SetupTables
<1>3. CASE init_controller
    BY <1>3, PhaseIInv DEF init_controller
<1>4. CASE run_controller
    BY <1>4, PhaseIInv DEF run_controller, AllFull
<1>5. CASE Exit
    BY <1>5, PhaseIInv DEF Exit
<1>6. CASE \E t \in Table : \E r \in Rows(t) : AddRow(t, r)
    BY <1>6, AddRowIInv
<1>7. CASE Accept \/ SendConfig
    BY <1>7, SendIInv
<1>8. CASE \E n \in 1..Len(OpOrder) : Recv(n)
    BY <1>8, RecvIInv
<1>9. CASE \E x \in left : HandleEntry(x)
    BY <1>9, HandleIInv
<1>10. CASE Connect \/ Closed \/ (\E u \in Url : Request(u))
    BY <1>10, FrontendIInv
<1>11. CASE UNCHANGED vars
    BY <1>11 DEF IInv, TypeOK, RowsType, Causes, Handling, OrderInv, InOrder,
                 Handled, CrashesEarly, AllFull, Full, vars, switchvars,
                 frontendvars, rulevars
<1> QED
    BY <1>1, <1>2, <1>3, <1>4, <1>5, <1>6, <1>7, <1>8, <1>9, <1>10, <1>11
    DEF Next, Main, Receive

\* IInv holds in every reachable state.
LEMMA Invariance == Spec => []IInv
BY InitIInv, NextIInv, PTL DEF Spec

-----------------------------------------------------------------------------
\* Both programs' start-up keeps every variable in its type.
THEOREM TypeCorrect == Spec => []TypeOK
<1>1. IInv => TypeOK
    BY DEF IInv
<1> QED
    BY Invariance, <1>1, PTL

\* Whatever order the two programs start in and however recv cuts the three
\* messages: rule_controller_t knows a rule or a backend only once main has
\* filled every static table.
THEOREM TablesFirst == Spec => []TablesBeforeRules
<1>1. IInv => TablesBeforeRules
    BY DEF IInv, Causes, AllFull, TablesBeforeRules
<1> QED
    BY Invariance, <1>1, PTL

\* The null dereference of send_syn_pkt is confined to the time before the
\* virtual server's message, whatever requests come in and whenever the
\* messages arrive, as long as no recv returns two of them.
THEOREM CrashWindow == Spec => []CrashesEarly
<1>1. IInv => CrashesEarly
    BY DEF IInv, OrderInv
<1> QED
    BY Invariance, <1>1, PTL
=============================================================================
