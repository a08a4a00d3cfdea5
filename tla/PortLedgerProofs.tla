--------------------------- MODULE PortLedgerProofs ---------------------------
(***************************************************************************)
(* The proxies table implements the ledger of ports, for any number of     *)
(* proxies, ports and concurrent handlers and every set of faults.         *)
(***************************************************************************)
EXTENDS ProxyServiceProofs

\* What a step may do to the table: nothing, or one statement with a checked
\* port.
TableStep ==
    \/ UNCHANGED <<rows, issued>>
    \/ \E id \in Proxy, p \in Row : CheckPort(p.port) /\ CreateProxy(id, p)
    \/ \E id \in Proxy, p \in Row :
          CheckPort(p.port) /\ UpdateProxy(id, p) /\ UNCHANGED issued
    \/ \E id \in Proxy : DeleteProxy(id) /\ UNCHANGED issued

\* The ports of all handlers are still checked ones afterwards.
LocalsStay == \A q \in Req \cup {Boot} : LocalsChecked(call'[q])

PortStep == TableStep /\ LocalsStay

-----------------------------------------------------------------------------
(* The ways a handler's step ends.                                         *)

\* A step that changes one handler's variables needs a look at those only.
LEMMA OneMoves ==
    ASSUME PortsChecked, NEW r \in Req \cup {Boot}, IInv,
           call' = [call EXCEPT ![r] = call'[r]], LocalsChecked(call'[r])
    PROVE  LocalsStay
BY DEF LocalsStay, PortsChecked, IInv, TypeOK

\* A handler that goes on with the same variables.
LEMMA GoesKept ==
    ASSUME IInv, PortsChecked, NEW r \in Req \cup {Boot}, NEW pc \in Pc, Goto(r, pc)
    PROVE  LocalsStay
<1>1. Moved(r, pc, call[r].p)
  BY GotoMoves
<1>2. LocalsChecked(call'[r])
  BY <1>1 DEF Moved, PortsChecked, LocalsChecked
<1> QED
  BY <1>1, <1>2, OneMoves DEF Moved

\* A handler that goes on with a new copy of the row, on a checked port.
LEMMA GoesChecked ==
    ASSUME IInv, PortsChecked, NEW r \in Req \cup {Boot}, NEW pc \in Pc,
           NEW p \in Row, CheckPort(p.port), GotoWith(r, pc, p)
    PROVE  LocalsStay
<1>1. Moved(r, pc, p)
  BY GotoWithMoves
<1>2. LocalsChecked(call'[r])
  BY <1>1 DEF Moved, PortsChecked, LocalsChecked
<1> QED
  BY <1>1, <1>2, OneMoves DEF Moved

\* A handler that returns forgets its ports.
LEMMA EndsChecked ==
    ASSUME IInv, PortsChecked, NEW r \in Req \cup {Boot}, Return(r)
    PROVE  LocalsStay
<1>1. call' = [call EXCEPT ![r] = call'[r]] /\ call'[r] = Idle
  BY Ended
<1>2. LocalsChecked(Idle)
  BY DEF LocalsChecked, Idle
<1> QED
  BY <1>1, <1>2, OneMoves

\* A handler that begins with local variables k.
LEMMA BeginsChecked ==
    ASSUME IInv, PortsChecked, NEW r \in Req \cup {Boot},
           NEW k, LocalsChecked(k), call' = [call EXCEPT ![r] = k]
    PROVE  LocalsStay
<1>1. call'[r] = k /\ call' = [call EXCEPT ![r] = call'[r]]
  BY DEF IInv, TypeOK
<1> QED
  BY <1>1, OneMoves

\* The port of a stored row, or of a copy in use, is a checked one.
LEMMA CopyChecked ==
    ASSUME IInv, PortsChecked, NEW r \in Req \cup {Boot}, call[r].pc \in RowPc
    PROVE  CheckPort(call[r].p.port) /\ call[r].p \in Row /\ call[r].id \in Proxy
<1>1. call[r].pc \notin OrphanPc \cup {"idle"}
  BY DEF RowPc, CreatePc, LimitsPc, RecreatePc, StartPc, OrphanPc
<1>2. call[r].p \in Row /\ call[r].id \in Proxy
  BY <1>1, Locals
<1> QED
  BY <1>2, NilAssumption DEF PortsChecked, LocalsChecked

-----------------------------------------------------------------------------
(* The steps, operation by operation.                                      *)

\* A request that arrives brings a checked port with it, or none.
LEMMA BeginPorts ==
    ASSUME IInv, PortsChecked, NEW r \in Req, Begin(r)
    PROVE  PortStep
<1>1. r \in Req \cup {Boot}
  OBVIOUS
<1>2. ASSUME NEW id \in Proxy, NEW port \in Port, NEW domain \in Domain,
             NEW limits \in Limits, CreateClaim(r, id, port, domain, limits)
      PROVE  PortStep
  <2> DEFINE p == [port |-> port, domain |-> domain, limits |-> limits,
                   cid |-> Nil, state |-> "creating", msg |-> "none"]
             k == [Idle EXCEPT !.pc = "createWrite", !.id = id, !.p = p]
  <2>1. /\ CheckPort(port) /\ CreateProxy(id, p)
        /\ call' = [call EXCEPT ![r] = k]
    BY <1>2 DEF CreateClaim
  <2>2. p \in Row /\ p.port = port
    BY DEF Row, State, Message
  <2> HIDE DEF p
  <2>3. k.p = p /\ k.want = Nil
    BY DEF Idle
  <2> HIDE DEF k
  <2>4. LocalsChecked(k)
    BY <2>1, <2>2, <2>3 DEF LocalsChecked
  <2> QED
    BY <1>1, <2>1, <2>2, <2>4, BeginsChecked DEF PortStep, TableStep
<1>3. ASSUME NEW id \in Proxy, DeleteBegin(r, id) PROVE PortStep
  <2> DEFINE k == [Idle EXCEPT !.pc = "deleteCtr", !.id = id, !.cid = rows[id].cid]
  <2>1. call' = [call EXCEPT ![r] = k] /\ UNCHANGED <<rows, issued>>
    BY <1>3 DEF DeleteBegin
  <2>2. LocalsChecked(k)
    BY DEF LocalsChecked, Idle
  <2> HIDE DEF k
  <2> QED
    BY <1>1, <2>1, <2>2, BeginsChecked DEF PortStep, TableStep
<1>4. ASSUME NEW id \in Proxy, NEW limits \in Limits, LimitsBegin(r, id, limits)
      PROVE  PortStep
  <2> DEFINE p == [rows[id] EXCEPT !.limits = limits]
             k == [Idle EXCEPT !.pc = "limitsWrite", !.id = id, !.p = p]
  <2>1. /\ call' = [call EXCEPT ![r] = k] /\ UNCHANGED <<rows, issued>>
        /\ rows[id] \in Row /\ CheckPort(rows[id].port)
    BY <1>4 DEF LimitsBegin, IInv, TypeOK, StoreTypeOK, HasRow, PortsChecked
  <2>2. p.port = rows[id].port
    BY <2>1 DEF Row
  <2> HIDE DEF p
  <2>3. k.p = p /\ k.want = Nil
    BY DEF Idle
  <2> HIDE DEF k
  <2> QED
    BY <1>1, <2>1, <2>2, <2>3, BeginsChecked DEF PortStep, TableStep, LocalsChecked
<1>5. ASSUME NEW id \in Proxy, NEW port \in Port, NEW domain \in Domain,
             RecreateBegin(r, id, port, domain)
      PROVE  PortStep
  <2> DEFINE p == [rows[id] EXCEPT !.state = "recreating"]
             want == [port |-> port, domain |-> domain, limits |-> rows[id].limits]
             k == [Idle EXCEPT !.pc = "recreateMark", !.id = id, !.p = p,
                               !.want = want, !.cid = rows[id].cid]
  <2>1. /\ call' = [call EXCEPT ![r] = k] /\ UNCHANGED <<rows, issued>>
        /\ rows[id] \in Row /\ CheckPort(rows[id].port)
        /\ port # rows[id].port => CheckPort(port)
    BY <1>5 DEF RecreateBegin, IInv, TypeOK, StoreTypeOK, HasRow, PortsChecked
  <2>2. p.port = rows[id].port /\ want.port = port
    BY <2>1 DEF Row
  <2> HIDE DEF p, want
  <2>3. k.p = p /\ k.want = want
    BY DEF Idle
  <2> HIDE DEF k
  <2> QED
    BY <1>1, <2>1, <2>2, <2>3, BeginsChecked DEF PortStep, TableStep, LocalsChecked
<1>6. ASSUME NEW c \in Cid, OrphanBegin(r, c) PROVE PortStep
  <2> DEFINE k == [Idle EXCEPT !.pc = "orphanCheck", !.cid = c, !.known = Listed]
  <2>1. call' = [call EXCEPT ![r] = k] /\ UNCHANGED <<rows, issued>>
    BY <1>6 DEF OrphanBegin
  <2>2. LocalsChecked(k)
    BY DEF LocalsChecked, Idle
  <2> HIDE DEF k
  <2> QED
    BY <1>1, <2>1, <2>2, BeginsChecked DEF PortStep, TableStep
<1> QED
  BY <1>2, <1>3, <1>4, <1>5, <1>6
     DEF Begin, PostCreate, PostDelete, PostLimits, PostRecreate, PostRemoveOrphan

\* Only Recreate's two commits and the rollback of a Create touch the table.
LEMMA ContinuePorts ==
    ASSUME IInv, PortsChecked, NEW r \in Req, Continue(r)
    PROVE  PortStep
<1> USE DEF At
<1>1. r \in Req \cup {Boot}
  OBVIOUS
<1>2. \A pc \in Pc : Goto(r, pc) => LocalsStay
  BY <1>1, GoesKept
<1>3. Return(r) => LocalsStay
  BY <1>1, EndsChecked
<1>4. /\ \A pc \in CreatePc \cup DeletePc \cup LimitsPc \cup RecreatePc \cup StartPc
                   \cup OrphanPc : pc \in Pc
      /\ {"createCtr", "undoRow", "createStart", "undoDir", "createWait", "undoCtr"}
           \subseteq Pc
      /\ {"deleteDir", "deleteRow", "limitsPatch", "limitsCommit", "orphanRemove"}
           \subseteq Pc
      /\ {"recreateRemove", "recreateCommit", "recreateWrite", "startCtr"} \subseteq Pc
  BY DEF Pc, CreatePc, DeletePc, LimitsPc, RecreatePc, StartPc, OrphanPc
<1>5. CASE CreateWriteConfig(r) \/ CreateStart(r) \/ UndoContainer(r) \/ UndoDir(r)
  BY <1>2, <1>4, <1>5
     DEF CreateWriteConfig, CreateStart, UndoContainer, UndoDir, PortStep, TableStep
<1>6. CASE CreateCreateContainer(r)
  <2>1. CASE Goto(r, "undoDir")
    BY <1>2, <1>4, <1>6, <2>1 DEF CreateCreateContainer, PortStep, TableStep
  <2>2. ASSUME NEW c \in Cid, GotoWith(r, "createStart", [call[r].p EXCEPT !.cid = c])
        PROVE  PortStep
    <3>1. call[r].pc \in RowPc
      BY <1>6 DEF CreateCreateContainer, RowPc, CreatePc
    <3>2. CheckPort(call[r].p.port) /\ call[r].p \in Row
      BY <1>1, <3>1, CopyChecked
    <3> DEFINE p == [call[r].p EXCEPT !.cid = c]
    <3>3. p \in Row /\ p.port = call[r].p.port /\ GotoWith(r, "createStart", p)
      BY <2>2, <3>2 DEF Row
    <3> HIDE DEF p
    <3> QED
      BY <1>1, <1>4, <1>6, <3>2, <3>3, GoesChecked
         DEF CreateCreateContainer, PortStep, TableStep
  <2> QED
    BY <1>6, <2>1, <2>2 DEF CreateCreateContainer
<1>7. CASE UndoRow(r)
  <2>1. call[r].id \in Proxy
    BY <1>1, <1>7, CopyChecked DEF UndoRow, RowPc, CreatePc
  <2> QED
    BY <1>3, <1>7, <2>1 DEF UndoRow, PortStep, TableStep
<1>8. CASE DeleteContainer(r) \/ DeleteDir(r) \/ OrphanCheck(r) \/ OrphanRemove(r)
  BY <1>2, <1>3, <1>4, <1>8
     DEF DeleteContainer, DeleteDir, OrphanCheck, OrphanRemove, PortStep, TableStep
<1>9. CASE DeleteRow(r)
  <2>1. call[r].id \in Proxy
    BY <1>1, <1>9, Locals DEF DeleteRow, OrphanPc
  <2> QED
    BY <1>3, <1>9, <2>1 DEF DeleteRow, PortStep, TableStep
<1>10. CASE LimitsWriteConfig(r) \/ LimitsPatch(r)
  <2>1. call[r].pc \in RowPc
    BY <1>10 DEF LimitsWriteConfig, LimitsPatch, RowPc, LimitsPc
  <2>2. CheckPort(call[r].p.port) /\ call[r].p \in Row
    BY <1>1, <2>1, CopyChecked
  <2>3. ASSUME NEW pc \in Pc, NEW msg \in Message,
               GotoWith(r, pc, [call[r].p EXCEPT !.msg = msg])
        PROVE  LocalsStay
    <3> DEFINE p == [call[r].p EXCEPT !.msg = msg]
    <3>1. p \in Row /\ p.port = call[r].p.port /\ GotoWith(r, pc, p)
      BY <2>2, <2>3 DEF Row
    <3> HIDE DEF p
    <3> QED
      BY <1>1, <2>2, <3>1, GoesChecked
  <2>4. "none" \in Message /\ "unapplied" \in Message
    BY DEF Message
  <2>5. LocalsStay
    BY <1>2, <1>3, <1>4, <1>10, <2>3, <2>4 DEF LimitsWriteConfig, LimitsPatch
  <2> QED
    BY <1>10, <2>5 DEF LimitsWriteConfig, LimitsPatch, PortStep, TableStep
<1>11. CASE RecreateMark(r)
  <2>1. CheckPort(call[r].p.port) /\ call[r].p \in Row /\ call[r].id \in Proxy
    BY <1>1, <1>11, CopyChecked DEF RecreateMark, RowPc, RecreatePc
  <2>2. LocalsStay
    BY <1>2, <1>3, <1>4, <1>11 DEF RecreateMark
  <2> QED
    BY <1>11, <2>1, <2>2 DEF RecreateMark, PortStep, TableStep
<1>12. CASE RecreateRemove(r) \/ RecreateWriteConfig(r)
  BY <1>2, <1>3, <1>4, <1>12
     DEF RecreateRemove, RecreateWriteConfig, PortStep, TableStep
<1>13. CASE RecreateCommit(r)
  <2>1. call[r].p \in Row /\ call[r].id \in Proxy
    BY <1>1, <1>13, CopyChecked DEF RecreateCommit, RowPc, RecreatePc
  <2>2. call[r].want \in Config
    BY <1>1, <1>13, Locals DEF RecreateCommit, RecreatePc
  <2>3. CheckPort(call[r].want.port)
    BY <2>2, NilAssumption DEF PortsChecked, LocalsChecked
  <2> DEFINE p == [call[r].p EXCEPT !.port = call[r].want.port,
                                    !.domain = call[r].want.domain, !.cid = Nil]
  <2>4. p \in Row /\ p.port = call[r].want.port
    BY <2>1, <2>2 DEF Row, Config
  <2>5. /\ \/ UpdateProxy(call[r].id, p) /\ GotoWith(r, "recreateWrite", p)
           \/ UNCHANGED rows /\ Return(r)
        /\ UNCHANGED issued
    BY <1>13 DEF RecreateCommit
  <2> HIDE DEF p
  <2>6. LocalsStay
    BY <1>1, <1>3, <1>4, <2>3, <2>4, <2>5, GoesChecked
  <2> QED
    BY <2>1, <2>3, <2>4, <2>5, <2>6 DEF PortStep, TableStep
<1> QED
  BY <1>5, <1>6, <1>7, <1>8, <1>9, <1>10, <1>11, <1>12, <1>13 DEF Continue

\* The terminal commits write the handler's copy, however old it is.
LEMMA FinishPorts ==
    ASSUME IInv, PortsChecked, NEW r \in Req \cup {Boot}, Finish(r)
    PROVE  PortStep
<1> USE DEF At
<1>1. call[r].pc \in RowPc
  BY DEF Finish, StartCreateContainer, StartStart, WaitHealthy, Commit,
         RowPc, CreatePc, StartPc, LimitsPc
<1>2. CheckPort(call[r].p.port) /\ call[r].p \in Row /\ call[r].id \in Proxy
  BY <1>1, CopyChecked
<1>3. {"startStart", "startWait", "startCommit", "createCommit"} \subseteq Pc
  BY DEF Pc, CreatePc, StartPc
<1> DEFINE failed == Settled(call[r].p, "error", "failed")
           running == Settled(call[r].p, "running", "none")
<1>4. /\ failed \in Row /\ failed.port = call[r].p.port
      /\ running \in Row /\ running.port = call[r].p.port
  BY <1>2 DEF Settled, Row, State, Message
<1> HIDE DEF failed, running
<1>5. \A pc \in Pc : GotoWith(r, pc, failed) \/ GotoWith(r, pc, running) => LocalsStay
  BY <1>2, <1>4, GoesChecked
<1>6. CASE StartCreateContainer(r)
  <2>1. CASE GotoWith(r, "startCommit", failed)
    BY <1>3, <1>5, <1>6, <2>1 DEF StartCreateContainer, PortStep, TableStep
  <2>2. ASSUME NEW c \in Cid, GotoWith(r, "startStart", [call[r].p EXCEPT !.cid = c])
        PROVE  PortStep
    <3> DEFINE p == [call[r].p EXCEPT !.cid = c]
    <3>1. p \in Row /\ p.port = call[r].p.port /\ GotoWith(r, "startStart", p)
      BY <1>2, <2>2 DEF Row
    <3> HIDE DEF p
    <3> QED
      BY <1>2, <1>3, <1>6, <3>1, GoesChecked
         DEF StartCreateContainer, PortStep, TableStep
  <2> QED
    BY <1>6, <2>1, <2>2 DEF StartCreateContainer, failed
<1>7. CASE StartStart(r)
  <2>1. Goto(r, "startWait") \/ GotoWith(r, "startCommit", failed)
    BY <1>7 DEF StartStart, failed
  <2> QED
    BY <1>3, <1>5, <1>7, <2>1, GoesKept DEF StartStart, PortStep, TableStep
<1>8. CASE WaitHealthy(r)
  <2>1. \E pc \in {"startCommit", "createCommit"} :
           GotoWith(r, pc, running) \/ GotoWith(r, pc, failed)
    BY <1>8 DEF WaitHealthy, running, failed
  <2> QED
    BY <1>3, <1>5, <1>8, <2>1 DEF WaitHealthy, PortStep, TableStep
<1>9. CASE Commit(r)
  <2>1. /\ UpdateProxy(call[r].id, call[r].p) \/ UNCHANGED rows
        /\ Return(r) /\ UNCHANGED issued
    BY <1>9 DEF Commit
  <2> QED
    BY <1>2, <2>1, EndsChecked DEF PortStep, TableStep
<1> QED
  BY <1>6, <1>7, <1>8, <1>9 DEF Finish

\* The start-up pass adopts, abandons and rebuilds; it changes no port.
LEMMA ReconcilePorts ==
    ASSUME IInv, PortsChecked, Reconcile
    PROVE  PortStep
<1> USE DEF At, BootUnchanged
<1>1. Boot \in Req \cup {Boot}
  OBVIOUS
<1>2. UNCHANGED call => LocalsStay
  BY DEF LocalsStay, PortsChecked
<1>3. CASE ReconcileList \/ Serve
  BY <1>2, <1>3 DEF ReconcileList, Serve, PortStep, TableStep
<1>4. CASE AbandonDir \/ AbandonRow
  <2>1. call[Boot].id \in Proxy
    BY <1>1, <1>4, Locals DEF AbandonDir, AbandonRow, OrphanPc
  <2>2. LocalsStay
    BY <1>1, <1>4, GoesKept, EndsChecked DEF AbandonDir, AbandonRow, Pc, AbandonPc
  <2> QED
    BY <1>4, <2>1, <2>2 DEF AbandonDir, AbandonRow, PortStep, TableStep
<1>5. ASSUME NEW id \in Proxy,
             ReconcileAdopt(id) \/ ReconcileAbandon(id) \/ ReconcileRebuild(id)
      PROVE  PortStep
  <2>1. rows[id] \in Row /\ CheckPort(rows[id].port)
    <3>1. HasRow(id)
      BY <1>5 DEF ReconcileAdopt, ReconcileAbandon, ReconcileRebuild, InTurn, IInv,
                  BootOK, Listed
    <3> QED
      BY <3>1 DEF IInv, TypeOK, StoreTypeOK, HasRow, PortsChecked
  <2>2. CASE ReconcileAdopt(id)
    <3> DEFINE p == [rows[id] EXCEPT !.cid = seen[id]]
    <3>1. p \in Row /\ p.port = rows[id].port
      BY <2>1 DEF Row, IInv, TypeOK
    <3>2. UpdateProxy(id, p) \/ UNCHANGED rows
      BY <2>2 DEF ReconcileAdopt
    <3> HIDE DEF p
    <3> QED
      BY <1>2, <2>1, <2>2, <3>1, <3>2 DEF ReconcileAdopt, PortStep, TableStep
  <2>3. CASE ReconcileAbandon(id)
    <3> DEFINE k == [Idle EXCEPT !.pc = "abandonDir", !.id = id]
    <3>1. LocalsChecked(k)
      BY DEF LocalsChecked, Idle
    <3>2. call' = [call EXCEPT ![Boot] = k]
      BY <2>3 DEF ReconcileAbandon
    <3> HIDE DEF k
    <3> QED
      BY <1>1, <2>3, <3>1, <3>2, BeginsChecked DEF ReconcileAbandon, PortStep, TableStep
  <2>4. CASE ReconcileRebuild(id)
    <3> DEFINE k == [Idle EXCEPT !.pc = "startCtr", !.id = id, !.p = rows[id]]
    <3>1. LocalsChecked(k)
      BY <2>1 DEF LocalsChecked, Idle
    <3>2. call' = [call EXCEPT ![Boot] = k]
      BY <2>4 DEF ReconcileRebuild
    <3> HIDE DEF k
    <3> QED
      BY <1>1, <2>4, <3>1, <3>2, BeginsChecked DEF ReconcileRebuild, PortStep, TableStep
  <2> QED
    BY <1>5, <2>2, <2>3, <2>4
<1> QED
  BY <1>3, <1>4, <1>5 DEF Reconcile

\* A crash forgets every handler's ports; other faults do not touch them.
LEMMA EnvironmentPorts ==
    ASSUME IInv, PortsChecked, Environment
    PROVE  PortStep
<1>1. CASE Crash
  <2>1. LocalsChecked(Idle)
    BY DEF LocalsChecked, Idle
  <2> QED
    BY <1>1, <2>1 DEF Crash, PortStep, TableStep, LocalsStay
<1>2. ASSUME NEW c \in Cid, Vanish(c) \/ Restart(c) PROVE PortStep
  BY <1>2 DEF Vanish, Restart, PortStep, TableStep, LocalsStay, PortsChecked
<1> QED
  BY <1>1, <1>2 DEF Environment

\* Every step writes checked ports only.
LEMMA NextPorts ==
    ASSUME IInv, PortsChecked, [Next]_vars
    PROVE  PortStep
<1>1. CASE UNCHANGED vars
  BY <1>1 DEF vars, PortStep, TableStep, LocalsStay, PortsChecked
<1> QED
  BY <1>1, BeginPorts, ContinuePorts, FinishPorts, ReconcilePorts, EnvironmentPorts
     DEF Next

-----------------------------------------------------------------------------
(* The refinement.                                                         *)

\* CheckPort lets no port through that the ledger forbids.
LEMMA CheckedPermitted ==
    ASSUME NEW port, CheckPort(port)
    PROVE  Ledger!Permitted(port)
BY DEF CheckPort, Ledger!Permitted

\* The statements of the table keep every row's port a checked one.
LEMMA PortsStayChecked ==
    ASSUME IInv, PortsChecked, PortStep
    PROVE  PortsChecked'
<1>1. \A id \in Proxy : HasRow(id)' => CheckPort(rows'[id].port)
  <2>1. rows \in [Proxy -> Row \cup {Nil}]
    BY DEF IInv, TypeOK, StoreTypeOK
  <2> QED
    BY <2>1 DEF PortStep, TableStep, CreateProxy, UpdateProxy, DeleteProxy,
                PortsChecked, HasRow
<1> QED
  BY <1>1 DEF PortStep, LocalsStay, PortsChecked

\* Every statement is a step of the ledger, or changes nothing in it.
LEMMA TableImplements ==
    ASSUME IInv, PortsChecked, TableStep
    PROVE  [Ledger!Next]_(Ledger!ledgerVars)
<1> DEFINE held == [id \in Proxy |-> IF HasRow(id) THEN rows[id].port ELSE 0]
<1>1. /\ rows \in [Proxy -> Row \cup {Nil}]
      /\ \A id \in Proxy : HasRow(id) => id \in issued
  BY DEF IInv, TypeOK, StoreTypeOK, RowsOK
<1>2. \A port : CheckPort(port) => port # 0
  BY DEF CheckPort
<1>3. ASSUME NEW id \in Proxy, NEW p \in Row, CheckPort(p.port), ~PortTaken(id, p.port)
      PROVE  Ledger!Available(id, p.port) /\ p.port \in Port
  <2>1. p.port # 0 /\ p.port \in Port
    BY <1>2, <1>3 DEF Row
  <2>2. \A q \in Proxy \ {id} : held[q] # p.port
    BY <1>3, <2>1 DEF PortTaken
  <2>3. Ledger!Permitted(p.port)
    BY <1>3, CheckedPermitted
  <2> QED
    BY <2>1, <2>2, <2>3 DEF Ledger!Available
<1>4. ASSUME NEW id \in Proxy, NEW p \in Row, rows' = [rows EXCEPT ![id] = p]
      PROVE  held' = [held EXCEPT ![id] = p.port]
  BY <1>1, <1>4, NilAssumption DEF HasRow
<1>5. ASSUME NEW id \in Proxy, NEW p \in Row, CheckPort(p.port), CreateProxy(id, p)
      PROVE  Ledger!Claim(id)
  <2>1. id \notin issued /\ ~HasRow(id) /\ held[id] = 0
    BY <1>1, <1>5 DEF CreateProxy
  <2>2. Ledger!Available(id, p.port) /\ p.port \in Port
    BY <1>3, <1>5 DEF CreateProxy
  <2>3. held' = [held EXCEPT ![id] = p.port] /\ issued' = issued \cup {id}
    BY <1>4, <1>5 DEF CreateProxy
  <2> QED
    BY <2>1, <2>2, <2>3 DEF Ledger!Claim, Ledger!Free
<1>6. ASSUME NEW id \in Proxy, NEW p \in Row, CheckPort(p.port), UpdateProxy(id, p),
             UNCHANGED issued, UpdateAccepted(id, p)
      PROVE  Ledger!Move(id)
  <2>1. held[id] # 0
    BY <1>2, <1>6 DEF UpdateAccepted, PortsChecked
  <2>2. Ledger!Available(id, p.port) /\ p.port \in Port
    BY <1>3, <1>6 DEF UpdateAccepted
  <2>3. held' = [held EXCEPT ![id] = p.port]
    BY <1>4, <1>6 DEF UpdateProxy
  <2> QED
    BY <1>6, <2>1, <2>2, <2>3 DEF Ledger!Move, Ledger!Free
<1>7. ASSUME NEW id \in Proxy, DeleteProxy(id), UNCHANGED issued, HasRow(id)
      PROVE  Ledger!Release(id)
  <2>1. held[id] # 0
    BY <1>2, <1>7 DEF PortsChecked
  <2>2. held' = [held EXCEPT ![id] = 0]
    BY <1>1, <1>7 DEF DeleteProxy, HasRow
  <2> QED
    BY <1>7, <2>1, <2>2 DEF Ledger!Release, Ledger!Free
<1>8. CASE UNCHANGED <<rows, issued>>
  BY <1>8 DEF Ledger!ledgerVars, HasRow
<1>9. ASSUME NEW id \in Proxy, NEW p \in Row, UpdateProxy(id, p), ~UpdateAccepted(id, p)
      PROVE  UNCHANGED rows
  BY <1>9 DEF UpdateProxy
<1>10. ASSUME NEW id \in Proxy, DeleteProxy(id), ~HasRow(id)
       PROVE  UNCHANGED rows
  BY <1>1, <1>10 DEF DeleteProxy, HasRow
<1> QED
  BY <1>5, <1>6, <1>7, <1>8, <1>9, <1>10 DEF TableStep, Ledger!Next

\* The table implements the ledger of ports: claimed once, never reserved, never
\* shared, and given back for good, whatever copies of rows are written back.
THEOREM PortsAccounted == Spec => LedgerKept
<1>1. Init => PortsChecked /\ Ledger!Init
  BY DEF Init, StoreInit, PortsChecked, LocalsChecked, Idle, HasRow, Ledger!Init,
         Ledger!Free
<1>2. IInv /\ PortsChecked /\ [Next]_vars => PortsChecked'
  BY NextPorts, PortsStayChecked
<1>3. IInv /\ PortsChecked /\ [Next]_vars => [Ledger!Next]_(Ledger!ledgerVars)
  BY NextPorts, TableImplements DEF PortStep
<1> QED
  BY <1>1, <1>2, <1>3, Invariance, PTL DEF Spec, LedgerKept, Ledger!Spec
=============================================================================
