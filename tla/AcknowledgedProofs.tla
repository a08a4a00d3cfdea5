-------------------------- MODULE AcknowledgedProofs --------------------------
(***************************************************************************)
(* With one operator request at a time, an acknowledged proxy is forgotten *)
(* by a Delete only: for any number of proxies, containers and ports and   *)
(* every set of faults, crashes at any step included.                      *)
(***************************************************************************)
EXTENDS ProxyServiceProofs

\* A step that loses an acknowledged row is a Delete's.
LosesByDelete ==
    \A id \in acked :
        HasRow(id) /\ ~HasRow(id)' => \E r \in Req : At(r, "deleteRow") /\ call[r].id = id

\* What a step may do to the table while the same proxies are acknowledged.
TableKeeps ==
    /\ UNCHANGED acked
    /\ \/ UNCHANGED <<rows, issued>>
       \/ \E id \in Proxy, p \in Row : CreateProxy(id, p)
       \/ \E id \in Proxy, p \in Row :
             /\ id \in acked => p.state # "creating"
             /\ UpdateProxy(id, p) /\ UNCHANGED issued
       \/ \E id \in Proxy :
             /\ id \notin acked \/ \E r \in Req : At(r, "deleteRow") /\ call[r].id = id
             /\ DeleteProxy(id) /\ UNCHANGED issued

LocalsKeep == \A q \in Req \cup {Boot} : LocalsAcked(call[q])'

AckedStep == AckedSettled' /\ LosesByDelete

-----------------------------------------------------------------------------
(* The pieces of a step.                                                   *)

\* The statements of the table that keep acknowledged rows settled.
LEMMA KeepsSettled ==
    ASSUME IInv, AckedSettled, TableKeeps, LocalsKeep
    PROVE  AckedStep
<1>1. /\ rows \in [Proxy -> Row \cup {Nil}] /\ issued \subseteq Proxy
      /\ acked \subseteq issued /\ acked' = acked
      /\ \A id \in acked : HasRow(id) => rows[id].state # "creating"
  BY DEF IInv, TypeOK, StoreTypeOK, AckedSettled, TableKeeps
<1> SUFFICES /\ acked \subseteq issued'
             /\ \A id \in acked : HasRow(id)' => rows'[id].state # "creating"
             /\ LosesByDelete
  BY <1>1 DEF AckedStep, AckedSettled, LocalsKeep
<1>2. CASE UNCHANGED <<rows, issued>>
  BY <1>1, <1>2 DEF LosesByDelete, HasRow
<1>3. ASSUME NEW id \in Proxy, NEW p \in Row, CreateProxy(id, p)
      PROVE  /\ acked \subseteq issued'
             /\ \A q \in acked : HasRow(q)' => rows'[q].state # "creating"
             /\ LosesByDelete
  <2>1. issued' = issued \cup {id} /\ \A q \in acked : rows'[q] = rows[q]
    BY <1>1, <1>3 DEF CreateProxy
  <2> QED
    BY <1>1, <2>1 DEF LosesByDelete, HasRow
<1>4. ASSUME NEW id \in Proxy, NEW p \in Row, id \in acked => p.state # "creating",
             UpdateProxy(id, p), UNCHANGED issued
      PROVE  /\ acked \subseteq issued'
             /\ \A q \in acked : HasRow(q)' => rows'[q].state # "creating"
             /\ LosesByDelete
  <2>1. \A q \in acked : rows'[q] = rows[q] \/ (q = id /\ rows'[q] = p /\ p # Nil)
    BY <1>1, <1>4, NilAssumption DEF UpdateProxy
  <2> QED
    BY <1>1, <1>4, <2>1 DEF LosesByDelete, HasRow
<1>5. ASSUME NEW id \in Proxy, DeleteProxy(id), UNCHANGED issued,
             id \notin acked \/ \E r \in Req : At(r, "deleteRow") /\ call[r].id = id
      PROVE  /\ acked \subseteq issued'
             /\ \A q \in acked : HasRow(q)' => rows'[q].state # "creating"
             /\ LosesByDelete
  <2>1. \A q \in acked : rows'[q] = rows[q] \/ (q = id /\ rows'[q] = Nil)
    BY <1>1, <1>5 DEF DeleteProxy
  <2> QED
    BY <1>1, <1>5, <2>1 DEF LosesByDelete, HasRow
<1> QED
  BY <1>2, <1>3, <1>4, <1>5 DEF TableKeeps

\* A step that changes one handler's variables needs a look at those only.
LEMMA OneMovesOn ==
    ASSUME IInv, AckedSettled, NEW r \in Req \cup {Boot}, UNCHANGED acked,
           call' = [call EXCEPT ![r] = call'[r]], LocalsAcked(call[r])'
    PROVE  LocalsKeep
<1> SUFFICES ASSUME NEW q \in Req \cup {Boot}, q # r
             PROVE  LocalsAcked(call[q])'
  BY DEF LocalsKeep
<1>1. call'[q] = call[q]
  BY DEF IInv, TypeOK
<1> QED
  BY <1>1 DEF AckedSettled, LocalsAcked

\* A handler that goes on within its saga with the same variables.
LEMMA GoesSettled ==
    ASSUME IInv, AckedSettled, NEW r \in Req \cup {Boot}, UNCHANGED acked,
           NEW pc \in Pc, Goto(r, pc), pc # "createCommit",
           pc \in CreatePc \cup AbandonPc => call[r].pc \in CreatePc \cup AbandonPc
    PROVE  LocalsKeep
<1>1. Moved(r, pc, call[r].p)
  BY GotoMoves
<1>2. LocalsAcked(call[r])'
  BY <1>1 DEF Moved, AckedSettled, LocalsAcked
<1> QED
  BY <1>1, <1>2, OneMovesOn DEF Moved

\* A handler that goes on with a new copy of its row.
LEMMA GoesSettledWith ==
    ASSUME IInv, AckedSettled, NEW r \in Req \cup {Boot}, UNCHANGED acked,
           NEW pc \in Pc, NEW p \in Row, GotoWith(r, pc, p),
           pc \in CreatePc \cup AbandonPc => call[r].pc \in CreatePc \cup AbandonPc,
           \/ p.state # "creating"
           \/ pc # "createCommit" /\ call[r].p # Nil /\ p.state = call[r].p.state
    PROVE  LocalsKeep
<1>1. Moved(r, pc, p)
  BY GotoWithMoves
<1>2. LocalsAcked(call[r])'
  BY <1>1 DEF Moved, AckedSettled, LocalsAcked
<1> QED
  BY <1>1, <1>2, OneMovesOn DEF Moved

\* A handler that has ended says nothing of any proxy.
LEMMA IdleSettled ==
    ASSUME acked' \subseteq Proxy
    PROVE  \A q \in Req \cup {Boot} : call'[q] = Idle => LocalsAcked(call[q])'
BY NilAssumption DEF LocalsAcked, Idle

LEMMA EndsSettled ==
    ASSUME IInv, AckedSettled, NEW r \in Req \cup {Boot}, UNCHANGED acked, Return(r)
    PROVE  LocalsKeep
<1>1. call' = [call EXCEPT ![r] = call'[r]] /\ call'[r] = Idle
  BY Ended
<1> QED
  BY <1>1, IdleSettled, OneMovesOn DEF IInv, TypeOK

\* A handler that begins with local variables k.
LEMMA BeginsSettled ==
    ASSUME IInv, AckedSettled, NEW r \in Req \cup {Boot}, UNCHANGED acked,
           NEW k, LocalsAcked(k), call' = [call EXCEPT ![r] = k]
    PROVE  LocalsKeep
<1>1. call'[r] = k /\ call' = [call EXCEPT ![r] = call'[r]]
  BY DEF IInv, TypeOK
<1>2. LocalsAcked(call[r])'
  BY <1>1 DEF LocalsAcked
<1> QED
  BY <1>1, <1>2, OneMovesOn

\* The row's copy a handler works with.
LEMMA CopySettled ==
    ASSUME IInv, AckedSettled, NEW r \in Req \cup {Boot}, call[r].pc \in RowPc
    PROVE  /\ call[r].id \in Proxy /\ call[r].p \in Row /\ call[r].p # Nil
           /\ call[r].id \in acked =>
                call[r].pc \notin CreatePc /\ call[r].p.state # "creating"
<1>1. call[r].pc \notin OrphanPc \cup {"idle"}
  BY DEF RowPc, CreatePc, LimitsPc, RecreatePc, StartPc, OrphanPc
<1>2. call[r].p \in Row /\ call[r].id \in Proxy
  BY <1>1, Locals
<1> QED
  BY <1>2, NilAssumption DEF AckedSettled, LocalsAcked

-----------------------------------------------------------------------------
(* The steps, operation by operation.                                      *)

\* A request that arrives copies a row as it is; a Create's id is a new one.
LEMMA BeginSettled ==
    ASSUME IInv, AckedSettled, NEW r \in Req, Begin(r)
    PROVE  AckedStep
<1>1. r \in Req \cup {Boot} /\ acked \subseteq issued
  BY DEF AckedSettled
<1> SUFFICES TableKeeps /\ LocalsKeep
  BY KeepsSettled
<1>2. ASSUME NEW id \in Proxy, NEW port \in Port, NEW domain \in Domain,
             NEW limits \in Limits, CreateClaim(r, id, port, domain, limits)
      PROVE  TableKeeps /\ LocalsKeep
  <2> DEFINE p == [port |-> port, domain |-> domain, limits |-> limits,
                   cid |-> Nil, state |-> "creating", msg |-> "none"]
             k == [Idle EXCEPT !.pc = "createWrite", !.id = id, !.p = p]
  <2>1. CreateProxy(id, p) /\ call' = [call EXCEPT ![r] = k] /\ UNCHANGED acked
    BY <1>2 DEF CreateClaim
  <2>2. p \in Row
    BY DEF Row, State, Message
  <2> HIDE DEF p
  <2>3. k.id = id /\ k.pc = "createWrite"
    BY DEF Idle
  <2> HIDE DEF k
  <2>4. LocalsAcked(k)
    BY <1>1, <2>1, <2>3 DEF LocalsAcked, CreateProxy
  <2> QED
    BY <1>1, <2>1, <2>2, <2>4, BeginsSettled DEF TableKeeps
<1>3. ASSUME NEW id \in Proxy, DeleteBegin(r, id) PROVE TableKeeps /\ LocalsKeep
  <2> DEFINE k == [Idle EXCEPT !.pc = "deleteCtr", !.id = id, !.cid = rows[id].cid]
  <2>1. call' = [call EXCEPT ![r] = k] /\ UNCHANGED <<rows, issued, acked>>
    BY <1>3 DEF DeleteBegin
  <2>2. k.pc = "deleteCtr" /\ k.p = Nil
    BY DEF Idle
  <2> HIDE DEF k
  <2>3. LocalsAcked(k)
    BY <2>2 DEF LocalsAcked, CreatePc, AbandonPc
  <2> QED
    BY <1>1, <2>1, <2>3, BeginsSettled DEF TableKeeps
<1>4. ASSUME NEW id \in Proxy, NEW limits \in Limits, LimitsBegin(r, id, limits)
      PROVE  TableKeeps /\ LocalsKeep
  <2> DEFINE p == [rows[id] EXCEPT !.limits = limits]
             k == [Idle EXCEPT !.pc = "limitsWrite", !.id = id, !.p = p]
  <2>1. /\ call' = [call EXCEPT ![r] = k] /\ UNCHANGED <<rows, issued, acked>>
        /\ rows[id] \in Row
        /\ id \in acked => rows[id].state # "creating"
    BY <1>4 DEF LimitsBegin, IInv, TypeOK, StoreTypeOK, HasRow, AckedSettled
  <2>2. p.state = rows[id].state
    BY <2>1 DEF Row
  <2> HIDE DEF p
  <2>3. k.p = p /\ k.id = id /\ k.pc = "limitsWrite"
    BY DEF Idle
  <2> HIDE DEF k
  <2>4. LocalsAcked(k)
    BY <2>1, <2>2, <2>3 DEF LocalsAcked, CreatePc, AbandonPc
  <2> QED
    BY <1>1, <2>1, <2>4, BeginsSettled DEF TableKeeps
<1>5. ASSUME NEW id \in Proxy, NEW port \in Port, NEW domain \in Domain,
             RecreateBegin(r, id, port, domain)
      PROVE  TableKeeps /\ LocalsKeep
  <2> DEFINE p == [rows[id] EXCEPT !.state = "recreating"]
             k == [Idle EXCEPT !.pc = "recreateMark", !.id = id, !.p = p,
                               !.want = [port |-> port, domain |-> domain,
                                         limits |-> rows[id].limits],
                               !.cid = rows[id].cid]
  <2>1. /\ call' = [call EXCEPT ![r] = k] /\ UNCHANGED <<rows, issued, acked>>
        /\ rows[id] \in Row
    BY <1>5 DEF RecreateBegin, IInv, TypeOK, StoreTypeOK, HasRow
  <2>2. p.state = "recreating"
    BY <2>1 DEF Row
  <2> HIDE DEF p
  <2>3. k.p = p /\ k.pc = "recreateMark"
    BY DEF Idle
  <2> HIDE DEF k
  <2>4. LocalsAcked(k)
    BY <2>2, <2>3 DEF LocalsAcked, CreatePc, AbandonPc
  <2> QED
    BY <1>1, <2>1, <2>4, BeginsSettled DEF TableKeeps
<1>6. ASSUME NEW c \in Cid, OrphanBegin(r, c) PROVE TableKeeps /\ LocalsKeep
  <2> DEFINE k == [Idle EXCEPT !.pc = "orphanCheck", !.cid = c, !.known = Listed]
  <2>1. call' = [call EXCEPT ![r] = k] /\ UNCHANGED <<rows, issued, acked>>
    BY <1>6 DEF OrphanBegin
  <2>2. k.pc = "orphanCheck" /\ k.p = Nil
    BY DEF Idle
  <2> HIDE DEF k
  <2>3. LocalsAcked(k)
    BY <2>2 DEF LocalsAcked, CreatePc, AbandonPc
  <2> QED
    BY <1>1, <2>1, <2>3, BeginsSettled DEF TableKeeps
<1> QED
  BY <1>2, <1>3, <1>4, <1>5, <1>6
     DEF Begin, PostCreate, PostDelete, PostLimits, PostRecreate, PostRemoveOrphan

\* A rollback drops a row that was never acknowledged, a Delete may drop any,
\* and no copy written back says creating of an acknowledged proxy.
LEMMA ContinueSettled ==
    ASSUME IInv, AckedSettled, NEW r \in Req, Continue(r)
    PROVE  AckedStep
<1> USE DEF At
<1>1. r \in Req \cup {Boot}
  OBVIOUS
<1> SUFFICES TableKeeps /\ LocalsKeep
  BY KeepsSettled
<1>2. UNCHANGED acked
  BY DEF Continue, CreateWriteConfig, CreateCreateContainer, CreateStart, UndoContainer,
         UndoDir, UndoRow, DeleteContainer, DeleteDir, DeleteRow, LimitsWriteConfig,
         LimitsPatch, RecreateMark, RecreateRemove, RecreateCommit,
         RecreateWriteConfig, OrphanCheck, OrphanRemove
<1>3. Return(r) => LocalsKeep
  BY <1>1, <1>2, EndsSettled
<1>4. ASSUME NEW pc \in Pc, Goto(r, pc), pc # "createCommit",
             pc \in CreatePc \cup AbandonPc => call[r].pc \in CreatePc
      PROVE  LocalsKeep
  BY <1>1, <1>2, <1>4, GoesSettled
<1>5. /\ {"createCtr", "undoRow", "createStart", "undoDir", "createWait", "undoCtr"}
           \subseteq Pc
      /\ {"deleteDir", "deleteRow", "limitsPatch", "limitsCommit", "orphanRemove"}
           \subseteq Pc
      /\ {"recreateRemove", "recreateCommit", "recreateWrite", "startCtr"} \subseteq Pc
      /\ \A pc \in {"deleteDir", "deleteRow", "limitsPatch", "limitsCommit",
                    "orphanRemove", "recreateRemove", "recreateCommit",
                    "recreateWrite", "startCtr"} :
            pc \notin CreatePc \cup AbandonPc
  BY DEF Pc, CreatePc, DeletePc, LimitsPc, RecreatePc, StartPc, OrphanPc, AbandonPc
<1>6. CASE CreateWriteConfig(r) \/ CreateStart(r) \/ UndoContainer(r) \/ UndoDir(r)
  <2>1. call[r].pc \in CreatePc
    BY <1>6 DEF CreateWriteConfig, CreateStart, UndoContainer, UndoDir, CreatePc
  <2>2. \E pc \in {"createCtr", "undoRow", "undoDir", "createWait", "undoCtr"} :
           Goto(r, pc)
    BY <1>6 DEF CreateWriteConfig, CreateStart, UndoContainer, UndoDir
  <2>3. LocalsKeep
    BY <1>4, <1>5, <2>1, <2>2
  <2> QED
    BY <1>2, <1>6, <2>3
       DEF CreateWriteConfig, CreateStart, UndoContainer, UndoDir, TableKeeps
<1>7. CASE CreateCreateContainer(r)
  <2>1. call[r].pc \in CreatePc /\ call[r].pc \in RowPc
    BY <1>7 DEF CreateCreateContainer, CreatePc, RowPc
  <2>2. TableKeeps
    BY <1>2, <1>7 DEF CreateCreateContainer, TableKeeps
  <2>3. CASE Goto(r, "undoDir")
    BY <1>4, <1>5, <2>1, <2>2, <2>3
  <2>4. ASSUME NEW c \in Cid, GotoWith(r, "createStart", [call[r].p EXCEPT !.cid = c])
        PROVE  LocalsKeep
    <3>1. call[r].p \in Row /\ call[r].p # Nil
      BY <1>1, <2>1, CopySettled
    <3> DEFINE p == [call[r].p EXCEPT !.cid = c]
    <3>2. p \in Row /\ p.state = call[r].p.state /\ GotoWith(r, "createStart", p)
      BY <2>4, <3>1 DEF Row
    <3> HIDE DEF p
    <3> QED
      BY <1>1, <1>2, <1>5, <2>1, <3>1, <3>2, GoesSettledWith
  <2> QED
    BY <1>7, <2>2, <2>3, <2>4 DEF CreateCreateContainer
<1>8. CASE UndoRow(r)
  <2>1. call[r].pc \in CreatePc /\ call[r].pc \in RowPc
    BY <1>8 DEF UndoRow, CreatePc, RowPc
  <2>2. call[r].id \in Proxy /\ call[r].id \notin acked
    BY <1>1, <2>1, CopySettled
  <2> QED
    BY <1>2, <1>3, <1>8, <2>2 DEF UndoRow, TableKeeps
<1>9. CASE DeleteContainer(r) \/ DeleteDir(r) \/ OrphanCheck(r) \/ OrphanRemove(r)
  BY <1>2, <1>3, <1>4, <1>5, <1>9
     DEF DeleteContainer, DeleteDir, OrphanCheck, OrphanRemove, TableKeeps
<1>10. CASE DeleteRow(r)
  <2>1. call[r].id \in Proxy /\ call[r].pc = "deleteRow"
    BY <1>1, <1>10, Locals DEF DeleteRow, OrphanPc
  <2> QED
    BY <1>2, <1>3, <1>10, <2>1 DEF DeleteRow, TableKeeps
<1>11. CASE LimitsWriteConfig(r) \/ LimitsPatch(r)
  <2>1. call[r].pc \in RowPc
    BY <1>11 DEF LimitsWriteConfig, LimitsPatch, RowPc, LimitsPc
  <2>2. call[r].p \in Row /\ call[r].p # Nil
    BY <1>1, <2>1, CopySettled
  <2>3. ASSUME NEW pc \in {"limitsPatch", "limitsCommit"}, NEW msg \in Message,
               GotoWith(r, pc, [call[r].p EXCEPT !.msg = msg])
        PROVE  LocalsKeep
    <3> DEFINE p == [call[r].p EXCEPT !.msg = msg]
    <3>1. p \in Row /\ p.state = call[r].p.state /\ GotoWith(r, pc, p)
      BY <2>2, <2>3 DEF Row
    <3> HIDE DEF p
    <3> QED
      BY <1>1, <1>2, <1>5, <2>2, <3>1, GoesSettledWith
  <2>4. "none" \in Message /\ "unapplied" \in Message
    BY DEF Message
  <2>5. LocalsKeep
    BY <1>3, <1>4, <1>5, <1>11, <2>3, <2>4 DEF LimitsWriteConfig, LimitsPatch
  <2> QED
    BY <1>2, <1>11, <2>5 DEF LimitsWriteConfig, LimitsPatch, TableKeeps
<1>12. CASE RecreateMark(r)
  <2>1. /\ call[r].p \in Row /\ call[r].id \in Proxy
        /\ call[r].id \in acked => call[r].p.state # "creating"
    BY <1>1, <1>12, CopySettled DEF RecreateMark, RowPc, RecreatePc
  <2>2. LocalsKeep
    BY <1>3, <1>4, <1>5, <1>12 DEF RecreateMark
  <2> QED
    BY <1>2, <1>12, <2>1, <2>2 DEF RecreateMark, TableKeeps
<1>13. CASE RecreateRemove(r) \/ RecreateWriteConfig(r)
  BY <1>2, <1>3, <1>4, <1>5, <1>13
     DEF RecreateRemove, RecreateWriteConfig, TableKeeps
<1>14. CASE RecreateCommit(r)
  <2>1. /\ call[r].p \in Row /\ call[r].id \in Proxy /\ call[r].p # Nil
        /\ call[r].id \in acked => call[r].p.state # "creating"
    BY <1>1, <1>14, CopySettled DEF RecreateCommit, RowPc, RecreatePc
  <2>2. call[r].want \in Config
    BY <1>1, <1>14, Locals DEF RecreateCommit, RecreatePc
  <2> DEFINE p == [call[r].p EXCEPT !.port = call[r].want.port,
                                    !.domain = call[r].want.domain, !.cid = Nil]
  <2>3. p \in Row /\ p.state = call[r].p.state
    BY <2>1, <2>2 DEF Row, Config
  <2>4. /\ \/ UpdateProxy(call[r].id, p) /\ GotoWith(r, "recreateWrite", p)
           \/ UNCHANGED rows /\ Return(r)
        /\ UNCHANGED issued
    BY <1>14 DEF RecreateCommit
  <2> HIDE DEF p
  <2>5. LocalsKeep
    BY <1>1, <1>2, <1>3, <1>5, <2>1, <2>3, <2>4, GoesSettledWith
  <2> QED
    BY <1>2, <2>1, <2>3, <2>4, <2>5 DEF TableKeeps
<1> QED
  BY <1>6, <1>7, <1>8, <1>9, <1>10, <1>11, <1>12, <1>13, <1>14 DEF Continue

\* Create's commit acknowledges a proxy while nobody else holds a copy of its
\* row: the only use of OneAtATime.
LEMMA CommitSettled ==
    ASSUME IInv, AckedSettled, OneAtATime, NEW r \in Req \cup {Boot}, Commit(r)
    PROVE  AckedStep
<1> USE DEF At
<1>1. call[r].pc \in RowPc /\ call[r].pc # "idle"
  BY DEF Commit, RowPc, CreatePc, StartPc, LimitsPc
<1>2. /\ call[r].id \in Proxy /\ call[r].id \in issued /\ call[r].p \in Row
      /\ call[r].id \in acked => call[r].p.state # "creating"
      /\ call[r].pc = "createCommit" => call[r].p.state # "creating"
  <2>1. call[r].pc \notin OrphanPc \cup {"idle"}
    BY <1>1 DEF RowPc, CreatePc, LimitsPc, RecreatePc, StartPc, OrphanPc
  <2> QED
    BY <1>1, <2>1, CopySettled, Locals DEF AckedSettled, LocalsAcked
<1>3. Return(r) /\ UNCHANGED issued
  BY DEF Commit
<1>4. CASE UNCHANGED acked
  <2>1. UpdateProxy(call[r].id, call[r].p) \/ UNCHANGED rows
    BY DEF Commit
  <2>2. TableKeeps
    BY <1>2, <1>3, <1>4, <2>1 DEF TableKeeps
  <2> QED
    BY <1>3, <1>4, <2>2, EndsSettled, KeepsSettled
<1>5. CASE acked' # acked
  <2>1. /\ call[r].pc = "createCommit" /\ UpdateAccepted(call[r].id, call[r].p)
        /\ acked' = acked \cup {call[r].id}
        /\ rows' = [rows EXCEPT ![call[r].id] = call[r].p]
    BY <1>5 DEF Commit, UpdateProxy
  <2>2. r \in Req /\ call[Boot] = Idle
    <3>1. r # Boot
      BY <2>1 DEF IInv, BootOK, StartPc, AbandonPc
    <3>2. mode = "serving"
      BY <1>1, <3>1 DEF IInv, BootOK, Idle
    <3> QED
      BY <3>1, <3>2 DEF IInv, BootOK
  <2>3. \A q \in Req \cup {Boot} : call'[q] = Idle
    BY <1>3, <2>2, Ended DEF OneAtATime, IInv, TypeOK
  <2>4. acked' \subseteq issued' /\ acked' \subseteq Proxy
    BY <1>2, <1>3, <2>1 DEF AckedSettled, IInv, TypeOK
  <2>5. \A q \in Req \cup {Boot} : LocalsAcked(call[q])'
    BY <2>3, <2>4, IdleSettled
  <2>6. /\ rows \in [Proxy -> Row \cup {Nil}]
        /\ \A id \in acked : HasRow(id) => rows[id].state # "creating"
    BY DEF IInv, TypeOK, StoreTypeOK, AckedSettled
  <2>7. /\ \A id \in acked' : HasRow(id)' => rows'[id].state # "creating"
        /\ LosesByDelete
    BY <1>2, <2>1, <2>4, <2>6, NilAssumption DEF HasRow, LosesByDelete
  <2> QED
    BY <2>4, <2>5, <2>7 DEF AckedStep, AckedSettled
<1> QED
  BY <1>4, <1>5

\* startContainer and the health wait only ever settle a copy.
LEMMA FinishSettled ==
    ASSUME IInv, AckedSettled, OneAtATime, NEW r \in Req \cup {Boot}, Finish(r)
    PROVE  AckedStep
<1> USE DEF At
<1>1. CASE Commit(r)
  BY <1>1, CommitSettled
<1>2. CASE StartCreateContainer(r) \/ StartStart(r) \/ WaitHealthy(r)
  <2> SUFFICES TableKeeps /\ LocalsKeep
    BY KeepsSettled
  <2>1. UNCHANGED acked /\ TableKeeps
    BY <1>2 DEF StartCreateContainer, StartStart, WaitHealthy, TableKeeps
  <2>2. call[r].pc \in RowPc
    BY <1>2 DEF StartCreateContainer, StartStart, WaitHealthy, RowPc, CreatePc, StartPc
  <2>3. call[r].p \in Row /\ call[r].p # Nil
    BY <2>2, CopySettled
  <2>4. /\ {"startStart", "startWait", "startCommit", "createCommit"} \subseteq Pc
        /\ \A pc \in {"startStart", "startWait", "startCommit"} :
              pc \notin CreatePc \cup AbandonPc /\ pc # "createCommit"
    BY DEF Pc, CreatePc, StartPc, AbandonPc
  <2> DEFINE failed == Settled(call[r].p, "error", "failed")
             running == Settled(call[r].p, "running", "none")
  <2>5. /\ failed \in Row /\ failed.state # "creating"
        /\ running \in Row /\ running.state # "creating"
    BY <2>3 DEF Settled, Row, State, Message
  <2> HIDE DEF failed, running
  <2>6. GotoWith(r, "startCommit", failed) \/ GotoWith(r, "startCommit", running)
          => LocalsKeep
    BY <2>1, <2>4, <2>5, GoesSettledWith
  <2>7. CASE StartCreateContainer(r)
    <3>1. ASSUME NEW c \in Cid,
                 GotoWith(r, "startStart", [call[r].p EXCEPT !.cid = c])
          PROVE  LocalsKeep
      <4> DEFINE p == [call[r].p EXCEPT !.cid = c]
      <4>1. p \in Row /\ p.state = call[r].p.state /\ GotoWith(r, "startStart", p)
        BY <2>3, <3>1 DEF Row
      <4> HIDE DEF p
      <4> QED
        BY <2>1, <2>3, <2>4, <4>1, GoesSettledWith
    <3> QED
      BY <2>1, <2>6, <2>7, <3>1 DEF StartCreateContainer, failed
  <2>8. CASE StartStart(r)
    <3>1. Goto(r, "startWait") \/ GotoWith(r, "startCommit", failed)
      BY <2>8 DEF StartStart, failed
    <3> QED
      BY <2>1, <2>4, <2>6, <3>1, GoesSettled
  <2>9. CASE WaitHealthy(r)
    <3>1. CASE call[r].pc = "createWait"
      <4>1. call[r].pc \in CreatePc
        BY <3>1 DEF CreatePc
      <4>2. GotoWith(r, "createCommit", running) \/ GotoWith(r, "createCommit", failed)
        BY <2>9, <3>1 DEF WaitHealthy, running, failed
      <4> QED
        BY <2>1, <2>4, <2>5, <4>1, <4>2, GoesSettledWith
    <3>2. CASE call[r].pc # "createWait"
      BY <2>1, <2>6, <2>9, <3>2 DEF WaitHealthy, running, failed
    <3> QED
      BY <3>1, <3>2
  <2> QED
    BY <1>2, <2>7, <2>8, <2>9
<1> QED
  BY <1>1, <1>2 DEF Finish

\* Reconcile drops a row only if the row itself says creating.
LEMMA ReconcileSettled ==
    ASSUME IInv, AckedSettled, Reconcile
    PROVE  AckedStep
<1> USE DEF At, BootUnchanged
<1> SUFFICES TableKeeps /\ LocalsKeep
  BY KeepsSettled
<1>1. Boot \in Req \cup {Boot}
  OBVIOUS
<1>2. UNCHANGED <<call, acked>> => LocalsKeep
  BY DEF LocalsKeep, AckedSettled, LocalsAcked
<1>3. CASE ReconcileList \/ Serve
  BY <1>2, <1>3 DEF ReconcileList, Serve, TableKeeps
<1>4. CASE AbandonDir \/ AbandonRow
  <2>1. call[Boot].id \in Proxy /\ call[Boot].pc \in AbandonPc
    BY <1>1, <1>4, Locals DEF AbandonDir, AbandonRow, OrphanPc, AbandonPc
  <2>2. call[Boot].id \notin acked
    BY <2>1 DEF AckedSettled, LocalsAcked
  <2>3. "abandonRow" \in Pc /\ "abandonRow" # "createCommit" /\ UNCHANGED acked
    BY <1>4 DEF AbandonDir, AbandonRow, Pc, AbandonPc
  <2>4. LocalsKeep
    BY <1>1, <1>4, <2>1, <2>3, GoesSettled, EndsSettled DEF AbandonDir, AbandonRow
  <2> QED
    BY <1>4, <2>1, <2>2, <2>4 DEF AbandonDir, AbandonRow, TableKeeps
<1>5. ASSUME NEW id \in Proxy,
             ReconcileAdopt(id) \/ ReconcileAbandon(id) \/ ReconcileRebuild(id)
      PROVE  TableKeeps /\ LocalsKeep
  <2>1. /\ rows[id] \in Row
        /\ id \in acked => rows[id].state # "creating"
    <3>1. HasRow(id)
      BY <1>5 DEF ReconcileAdopt, ReconcileAbandon, ReconcileRebuild, InTurn, IInv,
                  BootOK, Listed
    <3> QED
      BY <3>1 DEF IInv, TypeOK, StoreTypeOK, HasRow, AckedSettled
  <2>2. CASE ReconcileAdopt(id)
    <3> DEFINE p == [rows[id] EXCEPT !.cid = seen[id]]
    <3>1. p \in Row /\ p.state = rows[id].state
      BY <2>1 DEF Row, IInv, TypeOK
    <3>2. UpdateProxy(id, p) \/ UNCHANGED rows
      BY <2>2 DEF ReconcileAdopt
    <3> HIDE DEF p
    <3> QED
      BY <1>2, <2>1, <2>2, <3>1, <3>2 DEF ReconcileAdopt, TableKeeps
  <2>3. CASE ReconcileAbandon(id)
    <3> DEFINE k == [Idle EXCEPT !.pc = "abandonDir", !.id = id]
    <3>1. k.id = id /\ k.pc = "abandonDir" /\ k.p = Nil
      BY DEF Idle
    <3>2. call' = [call EXCEPT ![Boot] = k] /\ UNCHANGED acked /\ rows[id].state = "creating"
      BY <2>3 DEF ReconcileAbandon
    <3> HIDE DEF k
    <3>3. LocalsAcked(k)
      BY <2>1, <3>1, <3>2 DEF LocalsAcked
    <3> QED
      BY <1>1, <2>3, <3>2, <3>3, BeginsSettled DEF ReconcileAbandon, TableKeeps
  <2>4. CASE ReconcileRebuild(id)
    <3> DEFINE k == [Idle EXCEPT !.pc = "startCtr", !.id = id, !.p = rows[id]]
    <3>1. k.id = id /\ k.pc = "startCtr" /\ k.p = rows[id]
      BY DEF Idle
    <3>2. call' = [call EXCEPT ![Boot] = k] /\ UNCHANGED acked
      BY <2>4 DEF ReconcileRebuild
    <3> HIDE DEF k
    <3>3. LocalsAcked(k)
      BY <2>1, <3>1 DEF LocalsAcked, CreatePc, AbandonPc
    <3> QED
      BY <1>1, <2>4, <3>2, <3>3, BeginsSettled DEF ReconcileRebuild, TableKeeps
  <2> QED
    BY <1>5, <2>2, <2>3, <2>4
<1> QED
  BY <1>3, <1>4, <1>5 DEF Reconcile

\* A crash ends every handler; other faults do not touch rows or handlers.
LEMMA EnvironmentSettled ==
    ASSUME IInv, AckedSettled, Environment
    PROVE  AckedStep
<1> SUFFICES TableKeeps /\ LocalsKeep
  BY KeepsSettled
<1>1. CASE Crash
  <2>1. \A q \in Req \cup {Boot} : call'[q] = Idle
    BY <1>1 DEF Crash
  <2> QED
    BY <1>1, <2>1, IdleSettled DEF Crash, TableKeeps, LocalsKeep, IInv, TypeOK
<1>2. ASSUME NEW c \in Cid, Vanish(c) \/ Restart(c) PROVE TableKeeps /\ LocalsKeep
  BY <1>2 DEF Vanish, Restart, TableKeeps, LocalsKeep, AckedSettled, LocalsAcked
<1> QED
  BY <1>1, <1>2 DEF Environment

-----------------------------------------------------------------------------
\* Every step keeps acknowledged rows settled and loses them by Delete only.
LEMMA NextSettled ==
    ASSUME IInv, AckedSettled, OneAtATime, [Next]_vars
    PROVE  AckedStep
<1>1. CASE UNCHANGED vars
  BY <1>1, KeepsSettled
     DEF vars, TableKeeps, LocalsKeep, AckedSettled, LocalsAcked
<1> QED
  BY <1>1, BeginSettled, ContinueSettled, FinishSettled, ReconcileSettled,
     EnvironmentSettled DEF Next

\* With one request at a time no fault, crash or start-up pass makes the panel
\* forget a proxy it reported as created.
THEOREM AcknowledgedKept ==
    ASSUME OneAtATime
    PROVE  Spec => AckedNeverLost
<1>1. Init => AckedSettled
  BY NilAssumption DEF Init, AckedSettled, LocalsAcked, Idle
<1>2. IInv /\ AckedSettled /\ [Next]_vars => AckedSettled'
  BY NextSettled DEF AckedStep
<1>3. IInv /\ AckedSettled /\ [Next]_vars =>
        [\A id \in acked :
           HasRow(id) /\ ~HasRow(id)' =>
              \E r \in Req : At(r, "deleteRow") /\ call[r].id = id]_vars
  BY NextSettled DEF AckedStep, LosesByDelete
<1> QED
  BY <1>1, <1>2, <1>3, Invariance, PTL DEF Spec, AckedNeverLost
=============================================================================
