------------------------------ MODULE StoresProofs ------------------------------
(***************************************************************************)
(* The table, the containers and the configuration directories agree:      *)
(* after a restart, whatever handlers ran before it, and with one operator *)
(* request at a time whenever the panel is quiet.  Handlers end.           *)
(***************************************************************************)
EXTENDS PortLedgerProofs

\* No container appears and none changes its proxy.
NoneAppears == \A d \in Cid : Live(d)' => Live(d) /\ ctr'[d].pid = ctr[d].pid

\* Container d is left as it is, or removed.
LeftAlone(d) == Live(d)' => Live(d) /\ ctr'[d] = ctr[d]

-----------------------------------------------------------------------------
(* The Docker operations, container by container.                          *)

\* docker start: the process reads config.toml; nothing else changes.
LEMMA StartsOne ==
    ASSUME DockerTypeOK, NEW c \in Cid \cup {Nil}, StartContainer(c)
    PROVE  /\ NoneAppears
           /\ \A d \in Cid \ {c} : LeftAlone(d)
           /\ c \in Cid =>
                /\ Live(c) /\ ctr[c].pid \in Proxy /\ HasDir(ctr[c].pid)
                /\ ctr'[c].port = ctr[c].port /\ ctr'[c].pid = ctr[c].pid
                /\ ctr'[c].loaded = ReadConfig(ctr[c].pid)
                /\ Live(c)'
<1>1. CASE c \notin Cid
  BY <1>1 DEF DockerTypeOK, StartContainer, NoneAppears, LeftAlone, Live
<1>2. CASE c \in Cid
  <2>1. ctr[c] \in Container /\ Live(c) /\ HasDir(ctr[c].pid)
    BY <1>2 DEF DockerTypeOK, StartContainer, Live
  <2> DEFINE x == [ctr[c] EXCEPT !.status = "running", !.loaded = ReadConfig(ctr[c].pid)]
  <2>2. ctr' = [ctr EXCEPT ![c] = x]
    BY <1>2, <2>1 DEF StartContainer, DockerTypeOK, Container
  <2>3. /\ x.status = "running" /\ x.loaded = ReadConfig(ctr[c].pid) /\ x # Nil
        /\ x.port = ctr[c].port /\ x.pid = ctr[c].pid
    <3>1. ReadConfig(ctr[c].pid) \in Config \cup {Nil}
      BY <2>1 DEF DockerTypeOK, ReadConfig, Container
    <3>2. x \in Container
      BY <2>1, <3>1 DEF Container
    <3> QED
      BY <2>1, <3>2, NilAssumption DEF Container
  <2>4. ctr[c].pid \in Proxy
    BY <2>1 DEF Container
  <2> HIDE DEF x
  <2>5. ctr'[c] = x /\ (\A d \in Cid \ {c} : ctr'[d] = ctr[d])
    BY <1>2, <2>2 DEF DockerTypeOK
  <2> QED
    BY <1>2, <2>1, <2>3, <2>4, <2>5 DEF NoneAppears, LeftAlone, Live
<1> QED
  BY <1>1, <1>2

\* docker rm: afterwards the container does not live.
LEMMA RemovesOne ==
    ASSUME DockerTypeOK, NEW c \in Cid \cup {Nil}, RemoveContainer(c)
    PROVE  /\ NoneAppears
           /\ \A d \in Cid : LeftAlone(d)
           /\ c \in Cid => ~Live(c)'
<1>1. CASE ~(c # Nil /\ Live(c))
  BY <1>1, NilAssumption DEF RemoveContainer, NoneAppears, LeftAlone, Live
<1>2. CASE c # Nil /\ Live(c)
  <2>1. c \in Cid /\ ctr[c] \in Container
    BY <1>2 DEF DockerTypeOK, Live
  <2> DEFINE x == [ctr[c] EXCEPT !.status = "removed", !.loaded = Nil]
  <2>2. x.status = "removed"
    BY <2>1 DEF Container
  <2>3. ctr' = [ctr EXCEPT ![c] = x]
    BY <1>2, <2>1 DEF RemoveContainer, DockerTypeOK, Container
  <2> HIDE DEF x
  <2>4. ctr'[c] = x /\ (\A d \in Cid \ {c} : ctr'[d] = ctr[d])
    BY <2>1, <2>3 DEF DockerTypeOK
  <2> QED
    BY <2>2, <2>4 DEF NoneAppears, LeftAlone, Live
<1> QED
  BY <1>1, <1>2

\* A PATCH: the process has the new limits, and so has config.toml.
LEMMA PatchesOne ==
    ASSUME DockerTypeOK, NEW c \in Cid, NEW limits \in Limits, PatchUser(c, limits)
    PROVE  /\ NoneAppears
           /\ \A d \in Cid \ {c} : LeftAlone(d)
           /\ Live(c) /\ Live(c)' /\ ctr[c].pid \in Proxy /\ ctr'[c].pid = ctr[c].pid
           /\ ctr'[c].port = ctr[c].port
           /\ ctr[c].loaded \in Config
           /\ ctr'[c].loaded = [ctr[c].loaded EXCEPT !.limits = limits]
           /\ \A id \in Proxy \ {ctr[c].pid} : cfg'[id] = cfg[id]
           /\ cfg[ctr[c].pid] \notin Config => cfg' = cfg
           /\ cfg[ctr[c].pid] \in Config =>
                cfg'[ctr[c].pid] = [cfg[ctr[c].pid] EXCEPT !.limits = limits]
<1>1. ctr[c] \in Container /\ ctr[c].loaded \in Config /\ Live(c)
  BY DEF DockerTypeOK, PatchUser, Healthy, Live, Container
<1> DEFINE patched == [ctr[c].loaded EXCEPT !.limits = limits]
           x == [ctr[c] EXCEPT !.loaded = patched]
<1>2. patched \in Config
  BY <1>1 DEF Config
<1>3. ctr' = [ctr EXCEPT ![c] = x]
  BY <1>1 DEF PatchUser, DockerTypeOK, Container
<1>4. /\ x.loaded = patched /\ x.pid = ctr[c].pid /\ x.port = ctr[c].port
      /\ x.status = ctr[c].status /\ x # Nil /\ ctr[c].pid \in Proxy
  BY <1>1, <1>2, NilAssumption DEF Container
<1> HIDE DEF x
<1>5. ctr'[c] = x /\ (\A d \in Cid \ {c} : ctr'[d] = ctr[d])
  BY <1>3 DEF DockerTypeOK
<1>6. /\ \A id \in Proxy \ {ctr[c].pid} : cfg'[id] = cfg[id]
      /\ cfg[ctr[c].pid] \notin Config => cfg' = cfg
      /\ cfg[ctr[c].pid] \in Config =>
           cfg'[ctr[c].pid] = [cfg[ctr[c].pid] EXCEPT !.limits = limits]
  BY <1>4 DEF PatchUser, DockerTypeOK
<1> QED
  BY <1>1, <1>4, <1>5, <1>6 DEF NoneAppears, LeftAlone, Live

\* A restart by Docker: the process reads config.toml again.
LEMMA RestartsOne ==
    ASSUME DockerTypeOK, NEW c \in Cid, TelemtRestart(c)
    PROVE  /\ NoneAppears
           /\ \A d \in Cid \ {c} : LeftAlone(d)
           /\ Live(c) /\ Live(c)' /\ ctr[c].pid \in Proxy /\ ctr'[c].pid = ctr[c].pid
           /\ ctr'[c].port = ctr[c].port
           /\ ctr'[c].loaded = ReadConfig(ctr[c].pid)
           /\ UNCHANGED cfg
<1>1. ctr[c] \in Container /\ Live(c)
  BY DEF DockerTypeOK, TelemtRestart, Live
<1> DEFINE x == [ctr[c] EXCEPT !.loaded = ReadConfig(ctr[c].pid)]
<1>2. ReadConfig(ctr[c].pid) \in Config \cup {Nil}
  BY <1>1 DEF DockerTypeOK, ReadConfig, Container
<1>3. ctr' = [ctr EXCEPT ![c] = x] /\ UNCHANGED cfg
  BY <1>1 DEF TelemtRestart, DockerTypeOK, Container
<1>4. /\ x.loaded = ReadConfig(ctr[c].pid) /\ x.pid = ctr[c].pid
      /\ x.port = ctr[c].port /\ x.status = ctr[c].status /\ x # Nil
      /\ ctr[c].pid \in Proxy
  BY <1>1, <1>2, NilAssumption DEF Container
<1> HIDE DEF x
<1>5. ctr'[c] = x /\ (\A d \in Cid \ {c} : ctr'[d] = ctr[d])
  BY <1>3 DEF DockerTypeOK
<1> QED
  BY <1>1, <1>3, <1>4, <1>5 DEF NoneAppears, LeftAlone, Live

\* docker create: one more container, on the port asked for, for a proxy that
\* had none.
LEMMA CreatesOne ==
    ASSUME DockerTypeOK, NEW id \in Proxy, NEW port \in Port, NEW c \in Cid,
           CreateContainer(id, port, c)
    PROVE  /\ ~Live(c) /\ Live(c)' /\ ctr'[c].pid = id /\ ctr'[c].port = port
           /\ \A d \in Cid \ {c} : LeftAlone(d)
           /\ Only(id, Nil) /\ Only(id, c)'
<1> DEFINE x == [status |-> "created", pid |-> id, port |-> port, loaded |-> Nil]
<1>1. x \in Container
  BY DEF Container
<1>2. x # Nil /\ x.status = "created" /\ x.pid = id /\ x.port = port
  BY <1>1, NilAssumption
<1>3. ctr' = [ctr EXCEPT ![c] = x] /\ ctr[c] = Nil /\ ~NameTaken(id)
  BY DEF CreateContainer
<1> HIDE DEF x
<1>4. ctr'[c] = x /\ (\A d \in Cid \ {c} : ctr'[d] = ctr[d])
  BY <1>3 DEF DockerTypeOK
<1> QED
  BY <1>2, <1>3, <1>4 DEF LeftAlone, Live, NameTaken, Only

\* What is said of a proxy's only container outlives every step that creates
\* none.
LEMMA OnlyStays ==
    ASSUME NoneAppears
    PROVE  \A id, c : Only(id, c) => Only(id, c)'
BY DEF NoneAppears, Only

-----------------------------------------------------------------------------
(* A handler touches nothing but its own proxy.                            *)

\* Handler r, or the start-up pass in its slot, takes a step after its first.
Acts(r) ==
    \/ r \in Req /\ Continue(r)
    \/ Finish(r)
    \/ r = Boot /\ (AbandonDir \/ AbandonRow)

\* What a handler of proxy id may do to the table, to the containers and files.
RowsOf(id) ==
    \/ UNCHANGED rows
    \/ \E p \in Row : UpdateProxy(id, p)
    \/ DeleteProxy(id)

HostOf(id) ==
    \/ UNCHANGED ctr /\ (UNCHANGED cfg \/ \E x : cfg' = [cfg EXCEPT ![id] = x])
    \/ UNCHANGED cfg /\ \E c \in Cid \cup {Nil} : RemoveContainer(c)
    \/ UNCHANGED cfg /\ \E c \in Cid \cup {Nil} :
          (c # Nil => Owned(c, id)) /\ StartContainer(c)
    \/ UNCHANGED cfg /\ id \in Proxy /\ \E port \in Port, c \in Cid : CreateContainer(id, port, c)
    \/ \E c \in Cid, limits \in Limits : Owned(c, id) /\ PatchUser(c, limits)

\* Every other proxy keeps its row and its file, and its containers stay as they
\* are or are removed.
Elsewhere(id) ==
    /\ \A q \in Proxy \ {id} : rows'[q] = rows[q] /\ cfg'[q] = cfg[q]
    /\ \A c \in Cid : Live(c)' /\ ctr'[c].pid # id => LeftAlone(c)

\* A container appears only for proxy id, which had none.
AppearsFor(id) ==
    \/ NoneAppears
    \/ id \in Proxy /\ \E port \in Port, c \in Cid : CreateContainer(id, port, c)

LEMMA OthersUntouched ==
    ASSUME IInv, NEW id \in Proxy \cup {Nil}, RowsOf(id), HostOf(id)
    PROVE  Elsewhere(id) /\ AppearsFor(id)
<1>1. DockerTypeOK /\ rows \in [Proxy -> Row \cup {Nil}]
  BY DEF IInv, TypeOK, StoreTypeOK
<1>2. \A q \in Proxy \ {id} : rows'[q] = rows[q]
  BY <1>1 DEF RowsOf, UpdateProxy, DeleteProxy
<1> SUFFICES /\ \A q \in Proxy \ {id} : cfg'[q] = cfg[q]
             /\ \A c \in Cid : Live(c)' /\ ctr'[c].pid # id => LeftAlone(c)
             /\ AppearsFor(id)
  BY <1>2 DEF Elsewhere
<1>3. CASE UNCHANGED ctr /\ (UNCHANGED cfg \/ \E x : cfg' = [cfg EXCEPT ![id] = x])
  <2>1. \A q \in Proxy \ {id} : cfg'[q] = cfg[q]
    BY <1>1, <1>3 DEF DockerTypeOK
  <2> QED
    BY <1>3, <2>1 DEF LeftAlone, AppearsFor, NoneAppears, Live
<1>4. ASSUME UNCHANGED cfg, NEW c \in Cid \cup {Nil}, RemoveContainer(c)
      PROVE  /\ \A d \in Cid : Live(d)' /\ ctr'[d].pid # id => LeftAlone(d)
             /\ AppearsFor(id)
  BY <1>1, <1>4, RemovesOne DEF AppearsFor
<1>5. ASSUME UNCHANGED cfg, NEW c \in Cid \cup {Nil}, c # Nil => Owned(c, id),
             StartContainer(c)
      PROVE  /\ \A d \in Cid : Live(d)' /\ ctr'[d].pid # id => LeftAlone(d)
             /\ AppearsFor(id)
  <2>1. NoneAppears /\ \A d \in Cid \ {c} : LeftAlone(d)
    BY <1>1, <1>5, StartsOne
  <2>2. c \in Cid => ctr'[c].pid = id
    BY <1>1, <1>5, StartsOne, NilAssumption DEF Owned
  <2> QED
    BY <2>1, <2>2 DEF AppearsFor
<1>6. ASSUME UNCHANGED cfg, id \in Proxy, NEW port \in Port, NEW c \in Cid,
             CreateContainer(id, port, c)
      PROVE  /\ \A d \in Cid : Live(d)' /\ ctr'[d].pid # id => LeftAlone(d)
             /\ AppearsFor(id)
  BY <1>1, <1>6, CreatesOne DEF AppearsFor
<1>7. ASSUME NEW c \in Cid, NEW limits \in Limits, Owned(c, id), PatchUser(c, limits)
      PROVE  /\ \A q \in Proxy \ {id} : cfg'[q] = cfg[q]
             /\ \A d \in Cid : Live(d)' /\ ctr'[d].pid # id => LeftAlone(d)
             /\ AppearsFor(id)
  BY <1>1, <1>7, PatchesOne DEF AppearsFor, Owned
<1> QED
  BY <1>3, <1>4, <1>5, <1>6, <1>7 DEF HostOf

\* A handler in the middle of its work acts on the proxy it was called for.
LEMMA ActsAtHome ==
    ASSUME IInv, NEW r \in Req \cup {Boot}, Acts(r)
    PROVE  /\ call[r].pc # "idle" /\ UNCHANGED <<issued, mode, todo, seen>>
           /\ call' = [call EXCEPT ![r] = call'[r]]
           /\ Elsewhere(call[r].id) /\ AppearsFor(call[r].id)
<1> USE DEF At, ServiceUnchanged, BootUnchanged
<1> DEFINE id == call[r].id
           p == call[r].p
<1>1. /\ call[r] \in Call /\ id \in Proxy \cup {Nil}
      /\ call[r].cid \in Cid \cup {Nil}
  BY Locals DEF Call
<1>2. call[r].pc \in RowPc =>
        /\ p \in Row /\ p.cid \in Cid \cup {Nil} /\ (p.cid # Nil => Owned(p.cid, id))
        /\ p.port \in Port /\ p.limits \in Limits /\ id \in Proxy
  <2>1. call[r].pc \in RowPc => call[r].pc \notin OrphanPc \cup {"idle"}
    BY DEF RowPc, CreatePc, LimitsPc, RecreatePc, StartPc, OrphanPc
  <2> QED
    BY <2>1, Locals DEF Row
<1>3. call[r].pc \in RecreatePc => call[r].want \in Config
  BY Locals
<1> HIDE DEF id, p
<1>4. /\ call' = [call EXCEPT ![r] = call'[r]]
      /\ call[r].pc # "idle" /\ UNCHANGED <<issued, mode, todo, seen>>
  <2>1. \/ Return(r) \/ (\E pc : Goto(r, pc)) \/ (\E pc, x : GotoWith(r, pc, x))
    BY DEF Acts, Continue, Finish, CreateWriteConfig, CreateCreateContainer, CreateStart,
           UndoContainer, UndoDir, UndoRow, DeleteContainer, DeleteDir, DeleteRow,
           LimitsWriteConfig, LimitsPatch, RecreateMark, RecreateRemove, RecreateCommit,
           RecreateWriteConfig, OrphanCheck, OrphanRemove, StartCreateContainer,
           StartStart, WaitHealthy, Commit, AbandonDir, AbandonRow
  <2>2. call' = [call EXCEPT ![r] = call'[r]]
    BY <2>1 DEF Return, Goto, GotoWith, IInv, TypeOK
  <2>3. call[r].pc # "idle" /\ UNCHANGED <<issued, mode, todo, seen>>
    BY DEF Acts, Continue, Finish, CreateWriteConfig, CreateCreateContainer, CreateStart,
           UndoContainer, UndoDir, UndoRow, DeleteContainer, DeleteDir, DeleteRow,
           LimitsWriteConfig, LimitsPatch, RecreateMark, RecreateRemove, RecreateCommit,
           RecreateWriteConfig, OrphanCheck, OrphanRemove, StartCreateContainer,
           StartStart, WaitHealthy, Commit, AbandonDir, AbandonRow
  <2> QED
    BY <2>2, <2>3
<1>5. RowsOf(id)
  <2>1. CASE RecreateCommit(r)
    <3> DEFINE x == [call[r].p EXCEPT !.port = call[r].want.port,
                                      !.domain = call[r].want.domain, !.cid = Nil]
    <3>1. x \in Row
      BY <1>2, <1>3, <2>1 DEF RecreateCommit, RowPc, RecreatePc, Row, Config, p
    <3>2. UpdateProxy(id, x) \/ UNCHANGED rows
      BY <2>1 DEF RecreateCommit, id
    <3> HIDE DEF x
    <3> QED
      BY <3>1, <3>2 DEF RowsOf
  <2>2. CASE RecreateMark(r) \/ Commit(r)
    <3>1. call[r].pc \in RowPc
      BY <2>2 DEF RecreateMark, Commit, RowPc, CreatePc, LimitsPc, RecreatePc, StartPc
    <3>2. UpdateProxy(id, p) \/ UNCHANGED rows
      BY <2>2 DEF RecreateMark, Commit, id, p
    <3> QED
      BY <1>2, <3>1, <3>2 DEF RowsOf
  <2>3. CASE UndoRow(r) \/ DeleteRow(r) \/ (r = Boot /\ AbandonRow)
    BY <2>3 DEF UndoRow, DeleteRow, AbandonRow, RowsOf, id
  <2>4. CASE UNCHANGED rows
    BY <2>4 DEF RowsOf
  <2> QED
    BY <2>1, <2>2, <2>3, <2>4
       DEF Acts, Continue, Finish, CreateWriteConfig, CreateCreateContainer, CreateStart,
           UndoContainer, UndoDir, DeleteContainer, DeleteDir, LimitsWriteConfig,
           LimitsPatch, RecreateRemove, RecreateWriteConfig, OrphanCheck, OrphanRemove,
           StartCreateContainer, StartStart, WaitHealthy, AbandonDir
<1>6. HostOf(id)
  <2>1. CASE UNCHANGED <<ctr, cfg>>
    BY <2>1 DEF HostOf
  <2>2. CASE UndoContainer(r)
    <3>1. call[r].pc \in RowPc
      BY <2>2 DEF UndoContainer, RowPc, CreatePc
    <3>2. UNCHANGED cfg /\ (RemoveContainer(p.cid) \/ UNCHANGED ctr)
      BY <2>2 DEF UndoContainer, RemoveFails, p
    <3> QED
      BY <1>2, <2>1, <3>1, <3>2 DEF HostOf
  <2>3. CASE DeleteContainer(r) \/ RecreateRemove(r) \/ OrphanRemove(r)
    <3>1. UNCHANGED cfg /\ (RemoveContainer(call[r].cid) \/ UNCHANGED ctr)
      BY <2>3 DEF DeleteContainer, RecreateRemove, OrphanRemove, RemoveFails
    <3> QED
      BY <1>1, <2>1, <3>1 DEF HostOf
  <2>4. CASE CreateStart(r) \/ StartStart(r)
    <3>1. call[r].pc \in RowPc
      BY <2>4 DEF CreateStart, StartStart, RowPc, CreatePc, StartPc
    <3>2. UNCHANGED cfg /\ (StartContainer(p.cid) \/ UNCHANGED ctr)
      BY <2>4 DEF CreateStart, StartStart, p
    <3> QED
      BY <1>2, <2>1, <3>1, <3>2 DEF HostOf
  <2>5. CASE CreateCreateContainer(r) \/ StartCreateContainer(r)
    <3>1. call[r].pc \in RowPc
      BY <2>5 DEF CreateCreateContainer, StartCreateContainer, RowPc, CreatePc, StartPc
    <3>2. UNCHANGED cfg /\ ((\E c \in Cid : CreateContainer(id, p.port, c)) \/ UNCHANGED ctr)
      BY <2>5 DEF CreateCreateContainer, StartCreateContainer, id, p
    <3> QED
      BY <1>2, <2>1, <3>1, <3>2 DEF HostOf
  <2>6. CASE LimitsPatch(r)
    <3>1. call[r].pc \in RowPc
      BY <2>6 DEF LimitsPatch, RowPc, LimitsPc
    <3>2. (p.cid # Nil /\ PatchUser(p.cid, p.limits)) \/ UNCHANGED <<ctr, cfg>>
      BY <2>6 DEF LimitsPatch, p
    <3> QED
      BY <1>2, <2>1, <3>1, <3>2 DEF HostOf
  <2>7. CASE \/ CreateWriteConfig(r) \/ LimitsWriteConfig(r) \/ RecreateWriteConfig(r)
             \/ UndoDir(r) \/ DeleteDir(r) \/ (r = Boot /\ AbandonDir)
    <3>1. UNCHANGED ctr /\ (UNCHANGED cfg \/ \E x : cfg' = [cfg EXCEPT ![id] = x])
      BY <2>7 DEF CreateWriteConfig, LimitsWriteConfig, RecreateWriteConfig, UndoDir,
                  DeleteDir, AbandonDir, WriteConfig, WriteConfigFails, id
    <3> QED
      BY <3>1 DEF HostOf
  <2> QED
    BY <2>1, <2>2, <2>3, <2>4, <2>5, <2>6, <2>7
       DEF Acts, Continue, Finish, UndoRow, DeleteRow, RecreateMark, RecreateCommit,
           OrphanCheck, WaitHealthy, Commit, AbandonRow
<1> QED
  BY <1>1, <1>4, <1>5, <1>6, OthersUntouched DEF id

-----------------------------------------------------------------------------
(* What Docker's unique names and the UNIQUE port column give: these two    *)
(* hold for any number of handlers.                                        *)

LEMMA NextAppears ==
    ASSUME IInv, [Next]_vars
    PROVE  NoneAppears \/ \E id \in Proxy, port \in Port, c \in Cid : CreateContainer(id, port, c)
<1>1. DockerTypeOK
  BY DEF IInv, TypeOK
<1>2. ASSUME NEW r \in Req \cup {Boot}, Acts(r)
      PROVE  NoneAppears \/ \E id \in Proxy, port \in Port, c \in Cid : CreateContainer(id, port, c)
  BY <1>2, ActsAtHome DEF AppearsFor
<1>3. UNCHANGED ctr => NoneAppears
  BY DEF NoneAppears, Live
<1>4. ASSUME NEW r \in Req, Begin(r) PROVE UNCHANGED ctr
  BY <1>4 DEF Begin, PostCreate, PostDelete, PostLimits, PostRecreate, PostRemoveOrphan,
              CreateClaim, DeleteBegin, LimitsBegin, RecreateBegin, OrphanBegin
<1>5. CASE Reconcile
  <2>1. Acts(Boot) \/ UNCHANGED ctr
    BY <1>5 DEF Reconcile, ReconcileList, Serve, ReconcileAdopt, ReconcileAbandon,
                ReconcileRebuild, BootUnchanged, Acts
  <2> QED
    BY <1>2, <1>3, <2>1
<1>6. CASE Environment
  <2>1. ASSUME NEW c \in Cid, Vanish(c) PROVE NoneAppears
    BY <1>1, <2>1, RemovesOne DEF Vanish
  <2>2. ASSUME NEW c \in Cid, Restart(c) PROVE NoneAppears
    BY <1>1, <2>2, RestartsOne DEF Restart
  <2> QED
    BY <1>3, <1>6, <2>1, <2>2 DEF Environment, Crash
<1>7. ASSUME NEW r \in Req \cup {Boot}, Finish(r) PROVE Acts(r)
  BY <1>7 DEF Acts
<1>8. ASSUME NEW r \in Req, Continue(r) PROVE Acts(r)
  BY <1>8 DEF Acts
<1>9. CASE UNCHANGED vars
  BY <1>3, <1>9 DEF vars
<1> QED
  BY <1>2, <1>3, <1>4, <1>5, <1>6, <1>7, <1>8, <1>9 DEF Next

LEMMA OneContainerKept ==
    ASSUME IInv, OneContainer, [Next]_vars
    PROVE  OneContainer'
<1>1. CASE NoneAppears
  BY <1>1 DEF NoneAppears, OneContainer
<1>2. ASSUME NEW id \in Proxy, NEW port \in Port, NEW c \in Cid, CreateContainer(id, port, c)
      PROVE  OneContainer'
  <2>1. /\ \A d \in Cid \ {c} : LeftAlone(d)
        /\ ctr'[c].pid = id /\ Only(id, c)'
    BY <1>2, CreatesOne DEF IInv, TypeOK
  <2> QED
    BY <2>1 DEF OneContainer, LeftAlone, Only
<1> QED
  BY <1>1, <1>2, NextAppears

LEMMA OnePortKept ==
    ASSUME IInv, OnePort, TableStep
    PROVE  OnePort'
<1>1. rows \in [Proxy -> Row \cup {Nil}]
  BY DEF IInv, TypeOK, StoreTypeOK
<1>2. ASSUME NEW id \in Proxy, NEW p \in Row, ~PortTaken(id, p.port),
             rows' = [rows EXCEPT ![id] = p]
      PROVE  OnePort'
  <2>1. rows'[id] = p /\ \A q \in Proxy \ {id} : rows'[q] = rows[q]
    BY <1>1, <1>2
  <2> QED
    BY <1>2, <2>1 DEF OnePort, HasRow, PortTaken
<1>3. ASSUME NEW id \in Proxy, DeleteProxy(id)
      PROVE  OnePort'
  <2>1. rows'[id] = Nil /\ \A q \in Proxy \ {id} : rows'[q] = rows[q]
    BY <1>1, <1>3 DEF DeleteProxy
  <2> QED
    BY <2>1 DEF OnePort, HasRow
<1>4. CASE UNCHANGED rows
  BY <1>4 DEF OnePort, HasRow
<1> QED
  BY <1>2, <1>3, <1>4 DEF TableStep, CreateProxy, UpdateProxy, UpdateAccepted

\* The invariants everything below rests on.
Ground == IInv /\ OneContainer /\ OnePort

LEMMA Grounded == Spec => []Ground
<1>1. Init => PortsChecked /\ OneContainer /\ OnePort
  BY DEF Init, StoreInit, DockerInit, PortsChecked, LocalsChecked, Idle, HasRow,
         OneContainer, OnePort, Live
<1>2. IInv /\ PortsChecked /\ [Next]_vars => PortsChecked'
  BY NextPorts, PortsStayChecked
<1>3. IInv /\ PortsChecked /\ OneContainer /\ OnePort /\ [Next]_vars
        => OneContainer' /\ OnePort'
  BY NextPorts, OneContainerKept, OnePortKept DEF PortStep
<1> QED
  BY <1>1, <1>2, <1>3, Invariance, PTL DEF Spec, Ground

\* The database takes a copy of a row that stands on the row's own port.
LEMMA WritableAccepted ==
    ASSUME OnePort, NEW id \in Proxy, NEW p, Writable(id, p)
    PROVE  UpdateAccepted(id, p)
BY DEF OnePort, Writable, UpdateAccepted, PortTaken

\* The container a listing gives a proxy is the only one it has.
LEMMA ListedIsOnly ==
    ASSUME OneContainer, NEW id \in Proxy
    PROVE  /\ Only(id, ContainerOf(id))
           /\ ContainerOf(id) # Nil =>
                /\ ContainerOf(id) \in Cid /\ Live(ContainerOf(id))
                /\ ctr[ContainerOf(id)].pid = id
<1>1. CASE NameTaken(id)
  <2>1. PICK c \in Cid : Live(c) /\ ctr[c].pid = id
    BY <1>1 DEF NameTaken
  <2>2. /\ ContainerOf(id) \in Cid /\ Live(ContainerOf(id))
        /\ ctr[ContainerOf(id)].pid = id
    BY <1>1, <2>1 DEF ContainerOf
  <2> QED
    BY <2>2 DEF OneContainer, Only
<1>2. CASE ~NameTaken(id)
  BY <1>2 DEF NameTaken, ContainerOf, Only
<1> QED
  BY <1>1, <1>2

-----------------------------------------------------------------------------
(* After a restart, whatever handlers ran before it.                       *)

\* The faults RestartRecovers excepts: a listing or a commit that fails leaves
\* rows as they were (main.go logs a warning and serves), and somebody may
\* remove a container behind the start-up pass.
BootFaultless == Faults \cap {"list", "db", "vanish"} = {}

\* Every container that lives goes on living.
AllLive == \A d \in Cid : Live(d) => Live(d)'

LEMMA NamesStay ==
    ASSUME DockerTypeOK, CtrGrows, AllLive
    PROVE  \A q : NameTaken(q) => NameTaken(q)'
BY DEF NameTaken, CtrGrows, AllLive, Live

\* What a step of the start-up pass, at work on proxy id, owes the proxies.
BootAfter(id) ==
    /\ \A q \in Proxy : q # id => rows'[q] = rows[q]
    /\ CtrGrows /\ AllLive
    /\ \/ call'[Boot] = Idle /\ Recovered(id)'
       \/ /\ call'[Boot].id = id
          /\ call'[Boot].pc \in StartPc => Writable(id, call[Boot].p)'
          /\ call'[Boot].pc \in {"startStart", "startWait"} =>
               call'[Boot].p.cid # Nil /\ Live(call[Boot].p.cid)'
          /\ call'[Boot].pc = "startCommit" =>
               call'[Boot].p.state = "error" \/ NameTaken(id)'

\* That is enough.
LEMMA BootStep ==
    ASSUME Ground, BootRecovers, mode = "reconciling", UNCHANGED <<mode, todo, seen>>,
           NEW id \in Proxy, id = call[Boot].id, BootAfter(id)
    PROVE  BootRecovers'
<1>1. /\ \A q \in Proxy : q \notin todo /\ q # id => Recovered(q)
      /\ \A q \in Proxy : seen[q] # Nil => Live(seen[q])
      /\ \A q \in Proxy : seen[q] \in Cid \cup {Nil}
  BY DEF BootRecovers, Ground, IInv, TypeOK
<1>2. \A q \in Proxy : NameTaken(q) => NameTaken(q)'
  BY NamesStay DEF Ground, IInv, TypeOK, BootAfter
<1>3. \A q \in Proxy : seen'[q] # Nil => Live(seen[q])'
  BY <1>1 DEF BootAfter, AllLive
<1>4. ASSUME NEW q \in Proxy, q \notin todo', q # call'[Boot].id PROVE Recovered(q)'
  <2>1. CASE q = id
    BY <1>4, <2>1 DEF BootAfter
  <2>2. CASE q # id
    BY <1>1, <1>2, <1>4, <2>2 DEF BootAfter, Recovered, HasRow
  <2> QED
    BY <2>1, <2>2
<1>5. call'[Boot] = Idle => call'[Boot].pc \notin StartPc
  BY DEF Idle, StartPc
<1> QED
  BY <1>3, <1>4, <1>5 DEF BootRecovers, BootAfter, StartPc

\* startContainer and the removal of a half-built proxy, as the start-up pass
\* runs them: nobody takes its containers away and its commit is accepted.
LEMMA BootActs ==
    ASSUME Ground, BootRecovers, BootFaultless, mode = "reconciling", Acts(Boot),
           NEW id \in Proxy, id = call[Boot].id
    PROVE  BootAfter(id)
<1> USE DEF At
<1>0. PICK p : p = call[Boot].p
  OBVIOUS
<1>1. /\ call[Boot].pc # "idle" /\ Elsewhere(call[Boot].id)
      /\ call' = [call EXCEPT ![Boot] = call'[Boot]]
  BY ActsAtHome DEF Ground
<1>2. call[Boot].pc \in StartPc \cup AbandonPc /\ DockerTypeOK /\ Boot \notin Req
  BY <1>1, Turn, ServiceAssumption DEF Ground, IInv, TypeOK
<1>3. call[Boot].pc \in StartPc =>
        /\ p \in Row /\ p.cid \in Cid \cup {Nil} /\ (p.cid # Nil => Owned(p.cid, id))
        /\ Writable(id, p) /\ p.port \in Port
  BY <1>0, Locals DEF Ground, RowPc, BootRecovers, Row
<1>4. /\ \A q \in Proxy : q # id => rows'[q] = rows[q]
      /\ UNCHANGED ctr => CtrGrows /\ AllLive
  BY <1>0, <1>1, <1>2, SameContainers DEF Elsewhere, AllLive
<1> DEFINE failed == Settled(p, "error", "failed")
           running == Settled(p, "running", "none")
<1>5. p \in Row =>
        /\ failed.port = p.port /\ failed.state = "error"
        /\ running.port = p.port
  BY DEF Settled, Row, State, Message
<1>6. /\ \A pc : Goto(Boot, pc) => call'[Boot].pc = pc /\ call'[Boot].p = p /\ call'[Boot].id = id
      /\ \A pc, x : GotoWith(Boot, pc, x) =>
            call'[Boot].pc = pc /\ call'[Boot].p = x /\ call'[Boot].id = id
      /\ Return(Boot) => call'[Boot] = Idle
  BY <1>0 DEF Goto, GotoWith, Return, Ground, IInv, TypeOK, Call
<1> HIDE DEF failed, running
<1>7. CASE StartCreateContainer(Boot)
  <2>1. CASE UNCHANGED ctr /\ UNCHANGED rows /\ GotoWith(Boot, "startCommit", failed)
    BY <1>0, <1>3, <1>4, <1>5, <1>6, <1>7, <2>1
       DEF BootAfter, StartCreateContainer, Writable, HasRow, StartPc
  <2>2. ASSUME NEW c \in Cid, CreateContainer(id, p.port, c), UNCHANGED rows,
               \/ GotoWith(Boot, "startStart", [p EXCEPT !.cid = c])
               \/ GotoWith(Boot, "startCommit", failed)
        PROVE  BootAfter(id)
    <3>1. call[Boot].pc \in StartPc
      BY <1>0, <1>7 DEF StartCreateContainer, StartPc
    <3>2. CtrGrows /\ AllLive /\ Live(c)'
      BY <1>0, <1>2, <1>3, <2>2, <3>1, CreateContainerStep, CreatesOne DEF AllLive
    <3>3. [p EXCEPT !.cid = c].cid = c /\ [p EXCEPT !.cid = c].port = p.port
      BY <1>0, <1>3, <3>1 DEF Row
    <3> QED
      <4>1. CASE GotoWith(Boot, "startStart", [p EXCEPT !.cid = c])
        <5>1. call'[Boot].pc = "startStart" /\ call'[Boot].id = id
              /\ call'[Boot].p.cid = c /\ call'[Boot].p.port = p.port
          BY <1>6, <3>3, <4>1
        <5>2. c # Nil /\ Live(call[Boot].p.cid)'
          BY <3>2, <5>1, NilAssumption DEF Live
        <5>3. Writable(id, call[Boot].p)'
          BY <1>3, <2>2, <3>1, <5>1 DEF Writable, HasRow
        <5> QED
          BY <1>4, <3>2, <5>1, <5>2, <5>3 DEF BootAfter
      <4>2. CASE GotoWith(Boot, "startCommit", failed)
        BY <1>3, <1>4, <1>5, <1>6, <2>2, <3>1, <3>2, <4>2
           DEF BootAfter, Writable, HasRow, StartPc
      <4> QED
        BY <2>2, <4>1, <4>2
  <2> QED
    BY <1>0, <1>7, <2>1, <2>2 DEF StartCreateContainer, failed
<1>8. CASE StartStart(Boot)
  <2>1. call[Boot].pc = "startStart" /\ UNCHANGED rows
    BY <1>0, <1>8 DEF StartStart
  <2>2. CtrGrows /\ AllLive
    <3>1. StartContainer(p.cid) \/ UNCHANGED ctr
      BY <1>0, <1>8 DEF StartStart
    <3> QED
      BY <1>0, <1>2, <1>3, <1>4, <2>1, <3>1, StartContainerStep DEF AllLive, StartPc
  <2>3. Live(p.cid) /\ p.cid \in Cid
    BY <1>0, <1>3, <2>1 DEF BootRecovers, StartPc, Live, Ground, IInv, TypeOK, DockerTypeOK
  <2>4. Goto(Boot, "startWait") \/ GotoWith(Boot, "startCommit", failed)
    BY <1>0, <1>8 DEF StartStart, failed
  <2>5. CASE Goto(Boot, "startWait")
    <3>1. /\ call'[Boot].pc = "startWait" /\ call'[Boot].p = p /\ call'[Boot].id = id
          /\ p.cid # Nil
      BY <1>6, <2>3, <2>5, NilAssumption
    <3>2. Live(call[Boot].p.cid)'
      BY <2>2, <2>3, <3>1 DEF AllLive, Live
    <3>3. Writable(id, call[Boot].p)'
      BY <1>3, <2>1, <3>1 DEF Writable, HasRow, StartPc
    <3> QED
      BY <1>4, <2>2, <3>1, <3>2, <3>3 DEF BootAfter
  <2>6. CASE GotoWith(Boot, "startCommit", failed)
    BY <1>3, <1>4, <1>5, <1>6, <2>1, <2>2, <2>6 DEF BootAfter, Writable, HasRow, StartPc
  <2> QED
    BY <2>4, <2>5, <2>6
<1>9. CASE WaitHealthy(Boot)
  <2>1. call[Boot].pc = "startWait" /\ UNCHANGED <<rows, ctr>>
    BY <1>0, <1>2, <1>9 DEF WaitHealthy, StartPc, AbandonPc
  <2>2. p.cid # Nil /\ Live(p.cid)
    BY <1>0, <2>1 DEF BootRecovers
  <2>3. NameTaken(id)'
    <3>1. p.cid \in Cid /\ Owned(p.cid, id)
      BY <1>0, <1>3, <2>1, <2>2 DEF StartPc, WaitHealthy, Live, DockerTypeOK, Ground, IInv, TypeOK
    <3> QED
      BY <1>0, <2>1, <2>2, <3>1 DEF NameTaken, Owned, Live
  <2>4. GotoWith(Boot, "startCommit", running) \/ GotoWith(Boot, "startCommit", failed)
    BY <1>0, <1>9, <2>1 DEF WaitHealthy, failed, running
  <2> QED
    BY <1>0, <1>3, <1>4, <1>5, <1>6, <2>1, <2>3, <2>4
       DEF BootAfter, Writable, HasRow, StartPc
<1>10. CASE Commit(Boot)
  <2>1. call[Boot].pc = "startCommit" /\ UNCHANGED ctr /\ Return(Boot) /\ UpdateProxy(id, p)
    BY <1>0, <1>2, <1>10 DEF Commit, StartPc, AbandonPc, BootFaultless
  <2>2. rows' = [rows EXCEPT ![id] = p]
    BY <1>0, <1>2, <1>3, <2>1, WritableAccepted DEF StartPc, UpdateProxy, Ground
  <2>3. rows'[id] = p
    BY <1>0, <1>2, <2>2 DEF Ground, IInv, TypeOK, StoreTypeOK
  <2>4. p.state = "error" \/ NameTaken(id)'
    BY <1>0, <2>1 DEF BootRecovers, NameTaken, Live
  <2> QED
    BY <1>0, <1>4, <1>6, <2>1, <2>3, <2>4 DEF BootAfter, Recovered
<1>11. CASE AbandonDir
  BY <1>0, <1>4, <1>6, <1>11 DEF BootAfter, AbandonDir, BootUnchanged, StartPc
<1>12. CASE AbandonRow
  <2>1. rows' = [rows EXCEPT ![id] = Nil]
    BY <1>0, <1>12 DEF AbandonRow, BootFaultless, DeleteProxy
  <2>2. ~HasRow(id)'
    BY <1>0, <1>2, <2>1 DEF HasRow, Ground, IInv, TypeOK, StoreTypeOK
  <2> QED
    BY <1>0, <1>4, <1>6, <1>12, <2>2 DEF BootAfter, AbandonRow, BootUnchanged, Recovered
<1> QED
  BY <1>0, <1>2, <1>7, <1>8, <1>9, <1>10, <1>11, <1>12 DEF Acts, Finish

\* Reconcile's own steps: it lists, and takes one proxy after another.
LEMMA PassRecovers ==
    ASSUME Ground, BootRecovers, BootFaultless,
           ReconcileList \/ Serve \/ \E id \in Proxy :
              ReconcileAdopt(id) \/ ReconcileAbandon(id) \/ ReconcileRebuild(id)
    PROVE  BootRecovers'
<1> USE DEF At, BootUnchanged
<1>1. /\ DockerTypeOK /\ rows \in [Proxy -> Row \cup {Nil}]
      /\ call \in [Req \cup {Boot} -> Call] /\ todo \subseteq Proxy
      /\ todo \subseteq Listed
      /\ seen \in [Proxy -> Cid \cup {Nil}]
      /\ \A id \in Proxy : seen[id] # Nil => Owned(seen[id], id)
      /\ mode # "reconciling" => call[Boot] = Idle
  BY DEF Ground, IInv, TypeOK, StoreTypeOK, BootOK
<1>2. Idle.pc = "idle" /\ Idle.id = Nil /\ "idle" \notin StartPc
  BY DEF Idle, StartPc
<1>3. CASE ReconcileList
  <2>1. CASE mode' # "reconciling"
    BY <2>1 DEF BootRecovers
  <2>2. CASE mode' = "reconciling"
    <3>1. /\ mode # "reconciling" /\ UNCHANGED <<rows, ctr, call>> /\ todo' = Listed
          /\ \A id \in Proxy : seen'[id] # Nil => seen'[id] = ContainerOf(id)
      BY <1>3, <2>2 DEF ReconcileList
    <3>2. \A id \in Proxy : seen'[id] # Nil => Live(seen[id])'
      BY <3>1, ListedIsOnly DEF Live, Ground
    <3>3. \A id \in Proxy : id \notin todo' => Recovered(id)'
      BY <3>1 DEF Listed, Recovered, HasRow
    <3>4. call'[Boot].pc = "idle"
      BY <1>1, <1>2, <3>1
    <3> QED
      BY <1>2, <3>2, <3>3, <3>4 DEF BootRecovers
  <2> QED
    BY <2>1, <2>2
<1>4. CASE Serve
  BY <1>4 DEF Serve, BootRecovers
<1>5. ASSUME NEW id \in Proxy,
             ReconcileAdopt(id) \/ ReconcileAbandon(id) \/ ReconcileRebuild(id)
      PROVE  BootRecovers'
  <2>1. /\ mode = "reconciling" /\ call[Boot].pc = "idle" /\ call[Boot] = Idle
        /\ id \in todo /\ todo' = todo \ {id} /\ UNCHANGED <<mode, seen, ctr>>
    BY <1>5 DEF ReconcileAdopt, ReconcileAbandon, ReconcileRebuild, InTurn, Ground,
                IInv, BootOK
  <2>2. /\ \A q \in Proxy : q \notin todo => Recovered(q)
        /\ \A q \in Proxy : seen'[q] # Nil => Live(seen[q])'
    BY <1>1, <1>2, <2>1, NilAssumption DEF BootRecovers, Live
  <2>3. ASSUME UNCHANGED rows, NEW q \in Proxy, q \notin todo
        PROVE  Recovered(q)'
    BY <2>1, <2>2, <2>3 DEF Recovered, HasRow, NameTaken, Live
  <2>4. CASE ReconcileAdopt(id)
    <3>1. /\ seen[id] # Nil /\ UNCHANGED call
          /\ UpdateProxy(id, [rows[id] EXCEPT !.cid = seen[id]])
      BY <2>4 DEF ReconcileAdopt, BootFaultless
    <3>2. NameTaken(id)'
      <4>1. Owned(seen[id], id) /\ Live(seen[id])
        BY <1>1, <2>1, <2>2, <3>1 DEF Live
      <4> QED
        BY <2>1, <4>1 DEF NameTaken, Owned, Live
    <3>3. \A q \in Proxy : q # id => rows'[q] = rows[q]
      BY <1>1, <3>1 DEF UpdateProxy
    <3>4. \A q \in Proxy : q \notin todo' => Recovered(q)'
      BY <2>1, <2>2, <3>2, <3>3 DEF Recovered, HasRow, NameTaken, Live
    <3> QED
      BY <1>2, <2>1, <2>2, <3>1, <3>4 DEF BootRecovers
  <2>5. CASE ReconcileAbandon(id)
    <3> DEFINE k == [Idle EXCEPT !.pc = "abandonDir", !.id = id]
    <3>1. k.pc = "abandonDir" /\ k.id = id
      BY DEF Idle
    <3>2. call'[Boot] = k /\ UNCHANGED rows
      BY <1>1, <2>5 DEF ReconcileAbandon
    <3> HIDE DEF k
    <3> QED
      BY <2>1, <2>2, <2>3, <3>1, <3>2 DEF BootRecovers, StartPc
  <2>6. CASE ReconcileRebuild(id)
    <3> DEFINE k == [Idle EXCEPT !.pc = "startCtr", !.id = id, !.p = rows[id]]
    <3>1. k.pc = "startCtr" /\ k.id = id /\ k.p = rows[id]
      BY DEF Idle
    <3>2. call'[Boot] = k /\ UNCHANGED rows
      BY <1>1, <2>6 DEF ReconcileRebuild
    <3>3. HasRow(id)
      BY <1>1, <2>1 DEF Listed
    <3> HIDE DEF k
    <3>4. Writable(call[Boot].id, call[Boot].p)'
      BY <3>1, <3>2, <3>3 DEF Writable, HasRow
    <3> QED
      BY <2>1, <2>2, <2>3, <3>1, <3>2, <3>4 DEF BootRecovers, StartPc
  <2> QED
    BY <1>5, <2>4, <2>5, <2>6
<1> QED
  BY <1>3, <1>4, <1>5

\* Every step keeps the promise, and the last one has kept it for every proxy.
LEMMA NextRecovers ==
    ASSUME Ground, BootRecovers, BootFaultless, [Next]_vars
    PROVE  /\ BootRecovers'
           /\ mode # "serving" /\ mode' = "serving" => \A id \in Proxy : Recovered(id)
<1>1. CASE Reconcile \/ \E r \in Req \cup {Boot} : Finish(r)
  <2>1. CASE \E r \in Req \cup {Boot} : Acts(r)
    <3>1. PICK r \in Req \cup {Boot} : Acts(r)
      BY <2>1
    <3>2. UNCHANGED <<mode, todo, seen>> /\ call[r].pc # "idle"
      BY <3>1, ActsAtHome DEF Ground
    <3>3. CASE r \in Req
      BY <3>2, <3>3, Turn DEF Ground, BootRecovers
    <3>4. CASE r = Boot
      <4>1. mode = "reconciling" /\ call[Boot].pc \in StartPc \cup AbandonPc
        BY <3>2, <3>4, Turn DEF Ground
      <4>2. call[Boot].id \in Proxy
        BY <4>1, Locals DEF Ground, StartPc, AbandonPc, OrphanPc
      <4>3. PICK id \in Proxy : id = call[Boot].id
        BY <4>2
      <4>4. BootAfter(id)
        BY <3>1, <3>4, <4>1, <4>3, BootActs
      <4> QED
        BY <3>2, <4>1, <4>3, <4>4, BootStep
    <3> QED
      BY <3>3, <3>4
  <2>2. CASE ReconcileList \/ Serve \/ \E id \in Proxy :
                ReconcileAdopt(id) \/ ReconcileAbandon(id) \/ ReconcileRebuild(id)
    <3>1. mode # "serving" /\ mode' = "serving" => \A id \in Proxy : Recovered(id)
      <4> SUFFICES ASSUME mode # "serving", mode' = "serving"
                   PROVE  \A id \in Proxy : Recovered(id)
        OBVIOUS
      <4>1. Serve
        BY <2>2 DEF ReconcileList, ReconcileAdopt, ReconcileAbandon, ReconcileRebuild,
                    InTurn, BootFaultless
      <4>2. mode = "reconciling" /\ todo = {} /\ call[Boot] = Idle
        BY <4>1 DEF Serve, At, Ground, IInv, BootOK
      <4> QED
        BY <4>2, NilAssumption DEF BootRecovers, Idle
    <3> QED
      BY <2>2, <3>1, PassRecovers
  <2> QED
    BY <1>1, <2>1, <2>2 DEF Reconcile, Acts
<1>2. ASSUME NEW r \in Req, Begin(r) \/ Continue(r)
      PROVE  mode = "serving" /\ mode' = mode
  <2>1. CASE Begin(r)
    BY <2>1 DEF Begin, PostCreate, PostDelete, PostLimits, PostRecreate, PostRemoveOrphan,
                CreateClaim, DeleteBegin, LimitsBegin, RecreateBegin, OrphanBegin,
                ServiceUnchanged
  <2>2. CASE Continue(r)
    <3>1. call[r].pc # "idle" /\ UNCHANGED mode
      BY <2>2, ActsAtHome DEF Acts, Ground
    <3> QED
      BY <3>1, Turn DEF Ground
  <2> QED
    BY <1>2, <2>1, <2>2
<1>3. CASE Environment
  <2>1. CASE Crash
    BY <2>1 DEF Crash, BootRecovers
  <2>2. ASSUME NEW c \in Cid, Vanish(c) \/ Restart(c)
        PROVE  BootRecovers' /\ UNCHANGED mode
    <3>1. UNCHANGED <<rows, call, mode, todo, seen>> /\ TelemtRestart(c)
      BY <2>2 DEF Vanish, Restart, BootFaultless, ServiceUnchanged
    <3>2. /\ \A d \in Cid \ {c} : ctr'[d] = ctr[d]
          /\ Live(c) /\ Live(c)' /\ ctr'[c].pid = ctr[c].pid
      <4>1. DockerTypeOK
        BY DEF Ground, IInv, TypeOK
      <4> QED
        BY <3>1, <4>1, RestartsOne DEF TelemtRestart, DockerTypeOK
    <3>3. AllLive /\ \A q \in Proxy : NameTaken(q) => NameTaken(q)'
      BY <3>2 DEF AllLive, Live, NameTaken
    <3>4. \A q \in Proxy : Recovered(q) => Recovered(q)'
      BY <3>1, <3>3 DEF Recovered, HasRow
    <3>5. \A q \in Proxy : seen[q] # Nil /\ Live(seen[q]) => Live(seen[q])'
      <4>1. \A q \in Proxy : seen[q] \in Cid \cup {Nil}
        BY DEF Ground, IInv, TypeOK
      <4> QED
        BY <3>1, <3>3, <4>1 DEF AllLive, Live
    <3>6. call[Boot].pc \in StartPc => call[Boot].p.cid \in Cid \cup {Nil} /\ call[Boot].id \in Proxy
      BY Locals DEF Ground, RowPc, StartPc, OrphanPc
    <3>7. call[Boot].pc \in {"startStart", "startWait"} =>
            (call[Boot].p.cid # Nil /\ Live(call[Boot].p.cid) => Live(call[Boot].p.cid)')
      BY <3>1, <3>3, <3>6 DEF AllLive, Live, StartPc
    <3>8. call[Boot].pc = "startCommit" =>
            (NameTaken(call[Boot].id) => NameTaken(call[Boot].id)')
      BY <3>1, <3>2 DEF NameTaken, Live
    <3>9. Writable(call[Boot].id, call[Boot].p) => Writable(call[Boot].id, call[Boot].p)'
      BY <3>1 DEF Writable, HasRow
    <3> QED
      BY <3>1, <3>4, <3>5, <3>7, <3>8, <3>9 DEF BootRecovers
  <2> QED
    BY <1>3, <2>1, <2>2 DEF Environment, Crash
<1>4. CASE UNCHANGED vars
  BY <1>4 DEF vars, BootRecovers, Recovered, HasRow, NameTaken, Live, Writable
<1> QED
  BY <1>1, <1>2, <1>3, <1>4 DEF Next, BootRecovers

\* When the start-up pass is over every proxy has a container or says it failed,
\* whatever step of whatever handlers the panel was killed at.
THEOREM RecoversFromRestart ==
    ASSUME BootFaultless
    PROVE  Spec => RestartRecovers
<1>1. Init => BootRecovers
  BY DEF Init, BootRecovers
<1>2. Ground /\ BootRecovers /\ [Next]_vars => BootRecovers'
  BY NextRecovers
<1>3. Ground /\ BootRecovers /\ [Next]_vars =>
        [mode # "serving" /\ mode' = "serving" =>
           \A id \in Proxy :
              HasRow(id) => rows[id].state = "error" \/ NameTaken(id)]_vars
  BY NextRecovers DEF Recovered
<1> QED
  BY <1>1, <1>2, <1>3, Grounded, PTL DEF Spec, RestartRecovers

-----------------------------------------------------------------------------
(* With one request at a time.                                             *)

\* A handler that goes on changes its position, and its copy of the row if it
\* says so, and nothing else.
LEMMA Moves ==
    ASSUME IInv, NEW r \in Req \cup {Boot}
    PROVE  /\ \A pc : Goto(r, pc) =>
                /\ call'[r].pc = pc /\ call'[r].p = call[r].p
                /\ call'[r].id = call[r].id /\ call'[r].cid = call[r].cid
                /\ call'[r].want = call[r].want
           /\ \A pc, p : GotoWith(r, pc, p) =>
                /\ call'[r].pc = pc /\ call'[r].p = p
                /\ call'[r].id = call[r].id /\ call'[r].cid = call[r].cid
                /\ call'[r].want = call[r].want
           /\ Return(r) => call'[r] = Idle
BY DEF Goto, GotoWith, Return, IInv, TypeOK, Call

\* A step of handler r, alone at work, for proxy id.
WorksFor(r, id) ==
    /\ call' = [call EXCEPT ![r] = call'[r]]
    /\ call[r].id \in {id, Nil}
    /\ \A s \in Req \cup {Boot} : s # r => call[s] = Idle
    /\ id \notin todo /\ Elsewhere(id)
    /\ UNCHANGED <<mode, todo, seen>>

LEMMA WorksAlone ==
    ASSUME IInv, OneAtATime, NEW r \in Req \cup {Boot}, Acts(r),
           NEW id, id = call[r].id
    PROVE  WorksFor(r, id)
<1>1. /\ call[r].pc # "idle" /\ UNCHANGED <<mode, todo, seen>>
      /\ call' = [call EXCEPT ![r] = call'[r]] /\ Elsewhere(id)
  BY ActsAtHome
<1>2. id \notin todo
  BY <1>1, Turn
<1>3. \A s \in Req \cup {Boot} : s # r => call[s] = Idle
  BY <1>1, Turn DEF OneAtATime, IInv, BootOK
<1> QED
  BY <1>1, <1>2, <1>3 DEF WorksFor

\* A request that arrives finds nobody at work.
LEMMA BeginsAlone ==
    ASSUME IInv, OneAtATime, NEW r \in Req, mode = "serving", At(r, "idle"),
           NEW id \in Proxy \cup {Nil}, NEW k, call' = [call EXCEPT ![r] = k],
           \A q \in Proxy \ {id} : rows'[q] = rows[q],
           UNCHANGED <<ctr, cfg, mode, todo, seen>>,
           call[r].id = Nil
    PROVE  WorksFor(r, id) /\ call'[r] = k /\ \A q \in Proxy : Resting(q)
<1>1. call' = [call EXCEPT ![r] = call'[r]] /\ call'[r] = k
  BY DEF IInv, TypeOK
<1>2. /\ \A s \in Req \cup {Boot} : s # r => call[s] = Idle
      /\ todo = {}
  BY DEF OneAtATime, IInv, BootOK
<1>3. Elsewhere(id)
  BY DEF Elsewhere, LeftAlone, Live
<1>4. \A q \in Proxy : Resting(q)
  BY <1>2, NilAssumption DEF Resting, Idle
<1> QED
  BY <1>1, <1>2, <1>3, <1>4 DEF WorksFor

\* What such a step leaves as it was.
LEMMA Apart ==
    ASSUME IInv, NEW r \in Req \cup {Boot}, NEW id \in Proxy \cup {Nil}, WorksFor(r, id)
    PROVE  /\ \A q \in Proxy \ {id} :
                /\ rows'[q] = rows[q] /\ cfg'[q] = cfg[q]
                /\ \A c : Only(q, c) => Only(q, c)'
                /\ Resting(q)' => Resting(q)
           /\ \A s \in Req \cup {Boot} : s # r => call'[s] = Idle
<1>1. call' = [call EXCEPT ![r] = call'[r]] /\ call \in [Req \cup {Boot} -> Call]
  BY DEF WorksFor, IInv, TypeOK
<1>2. \A s \in Req \cup {Boot} : s # r => call'[s] = call[s] /\ call[s] = Idle
  BY <1>1 DEF WorksFor
<1>3. \A q \in Proxy \ {id} : Resting(q)' => Resting(q)
  BY <1>2, NilAssumption DEF WorksFor, Resting, Idle
<1>4. \A q \in Proxy \ {id} : \A c : Only(q, c) => Only(q, c)'
  BY DEF WorksFor, Elsewhere, LeftAlone, Only
<1> QED
  BY <1>2, <1>3, <1>4 DEF WorksFor, Elsewhere

-----------------------------------------------------------------------------
(* The container id in the row is honest.                                  *)

\* The faults CidHonest excepts: a lost reply leaves a container whose id no
\* row has, a failed statement a row without it, and a listing that fails or
\* misses a container keeps Reconcile from putting that right.
HonestFaultless == Faults \cap {"lost", "db", "list", "skip"} = {}

\* What a step for proxy id owes, if it leaves the handler with variables k.
HonestAfter(id, k) ==
    \/ k = Idle /\ (id \in Proxy => Honest(id)')
    \/ k.id = id /\ LocalsHonest(k)'

LEMMA IdleHonest == LocalsHonest(Idle)'
BY DEF LocalsHonest, Idle, BarePc, BuiltPc, LimitsPc, DeletePc, AbandonPc, RecreatePc, OrphanPc

\* That is enough.
LEMMA HonestStep ==
    ASSUME IInv, HonestInv, NEW r \in Req \cup {Boot}, NEW id \in Proxy \cup {Nil},
           WorksFor(r, id), NEW k, k = call'[r], HonestAfter(id, k)
    PROVE  HonestInv'
<1>1. \A q \in Proxy : Resting(q)' => Honest(q)'
  <2> SUFFICES ASSUME NEW q \in Proxy, Resting(q)' PROVE Honest(q)'
    OBVIOUS
  <2>1. CASE q = id
    BY <2>1 DEF HonestAfter, Resting
  <2>2. CASE q # id
    BY <2>2, Apart DEF HonestInv, Honest, HasRow
  <2> QED
    BY <2>1, <2>2
<1>2. \A q \in todo' : Only(q, seen[q])'
  <2> SUFFICES ASSUME NEW q \in todo PROVE Only(q, seen[q])'
    BY DEF WorksFor
  <2>1. PICK c : c = seen[q]
    OBVIOUS
  <2>2. q \in Proxy /\ q # id /\ seen'[q] = c /\ Only(q, c)
    BY <2>1 DEF IInv, TypeOK, WorksFor, HonestInv
  <2>3. Only(q, c)'
    BY <2>2, Apart
  <2> QED
    BY <2>2, <2>3 DEF Only
<1>3. \A s \in Req \cup {Boot} : LocalsHonest(call[s])'
  BY Apart, IdleHonest DEF HonestAfter, LocalsHonest
<1> QED
  BY <1>1, <1>2, <1>3 DEF HonestInv

\* A request that arrives takes a row in hand that is at rest; a Create's id has
\* never labelled a container.
LEMMA BeginHonest ==
    ASSUME IInv, HonestInv, OneAtATime, NEW r \in Req, Begin(r)
    PROVE  HonestInv'
<1> USE DEF ServiceUnchanged
<1>1. /\ r \in Req \cup {Boot} /\ rows \in [Proxy -> Row \cup {Nil}]
      /\ At(r, "idle") => call[r].id = Nil
  BY DEF IInv, TypeOK, StoreTypeOK, HonestInv, LocalsHonest, At
<1>0. mode = "serving" /\ At(r, "idle") /\ UNCHANGED <<ctr, cfg, mode, todo, seen>>
  BY DEF Begin, PostCreate, PostDelete, PostLimits, PostRecreate, PostRemoveOrphan,
         CreateClaim, DeleteBegin, LimitsBegin, RecreateBegin, OrphanBegin
<1>2. ASSUME NEW id \in Proxy, NEW port \in Port, NEW domain \in Domain,
             NEW limits \in Limits, CreateClaim(r, id, port, domain, limits)
      PROVE  HonestInv'
  <2> DEFINE p == [port |-> port, domain |-> domain, limits |-> limits,
                   cid |-> Nil, state |-> "creating", msg |-> "none"]
             k == [Idle EXCEPT !.pc = "createWrite", !.id = id, !.p = p]
  <2>1. CreateProxy(id, p) /\ call' = [call EXCEPT ![r] = k]
    BY <1>2 DEF CreateClaim
  <2>2. p \in Row /\ p # Nil /\ k.id = id /\ k.pc = "createWrite" /\ k.p = p
    <3>1. p \in Row
      BY DEF Row, State, Message
    <3> QED
      BY <3>1, NilAssumption DEF Idle
  <2> HIDE DEF p, k
  <2>3. rows'[id] = p /\ \A q \in Proxy \ {id} : rows'[q] = rows[q]
    BY <1>1, <2>1 DEF CreateProxy
  <2>4. Only(id, Nil)'
    BY <1>0, <2>1 DEF Only, CreateProxy, IInv, LabelsIssued, Live
  <2>5. LocalsHonest(k)'
    BY <2>2, <2>3, <2>4 DEF LocalsHonest, HasRow, Writable, BarePc, BuiltPc, DeletePc,
                             AbandonPc, LimitsPc, RecreatePc, OrphanPc
  <2>6. WorksFor(r, id) /\ call'[r] = k
    BY <1>0, <1>1, <2>1, <2>3, BeginsAlone
  <2> QED
    BY <1>1, <2>2, <2>5, <2>6, HonestStep DEF HonestAfter
<1>3. ASSUME NEW id \in Proxy, NEW k, HasRow(id), UNCHANGED rows, k.id = id,
             call' = [call EXCEPT ![r] = k], k.cid = rows[id].cid, k.pc = "deleteCtr"
      PROVE  HonestInv'
  <2>1. WorksFor(r, id) /\ call'[r] = k /\ Honest(id)
    BY <1>0, <1>1, <1>3, BeginsAlone DEF HonestInv
  <2>2. HasRow(id)' /\ Honest(id)' /\ rows'[id].cid = rows[id].cid
    BY <1>0, <1>3, <2>1 DEF HasRow, Honest, Only, Live
  <2>3. LocalsHonest(k)'
    BY <1>3, <2>2 DEF LocalsHonest, BarePc, BuiltPc, DeletePc, AbandonPc, LimitsPc,
                      RecreatePc, OrphanPc
  <2> QED
    BY <1>1, <1>3, <2>1, <2>3, HonestStep DEF HonestAfter
<1>4. ASSUME NEW id \in Proxy, NEW k, HasRow(id), UNCHANGED rows, k.id = id,
             call' = [call EXCEPT ![r] = k], k.p.cid = rows[id].cid,
             k.pc = "limitsWrite" \/ (k.pc = "recreateMark" /\ k.cid = rows[id].cid)
      PROVE  HonestInv'
  <2>1. WorksFor(r, id) /\ call'[r] = k /\ Honest(id)
    BY <1>0, <1>1, <1>4, BeginsAlone DEF HonestInv
  <2>2. HasRow(id)' /\ Honest(id)' /\ rows'[id].cid = rows[id].cid
    BY <1>0, <1>4, <2>1 DEF HasRow, Honest, Only, Live
  <2>3. LocalsHonest(k)'
    BY <1>4, <2>2 DEF LocalsHonest, BarePc, BuiltPc, DeletePc, AbandonPc, LimitsPc,
                      RecreatePc, OrphanPc
  <2> QED
    BY <1>1, <1>4, <2>1, <2>3, HonestStep DEF HonestAfter
<1>5. ASSUME NEW id \in Proxy, DeleteBegin(r, id) PROVE HonestInv'
  <2> DEFINE k == [Idle EXCEPT !.pc = "deleteCtr", !.id = id, !.cid = rows[id].cid]
  <2>1. k.id = id /\ k.pc = "deleteCtr" /\ k.cid = rows[id].cid
    BY DEF Idle
  <2>2. HasRow(id) /\ UNCHANGED rows /\ call' = [call EXCEPT ![r] = k]
    BY <1>5 DEF DeleteBegin
  <2> HIDE DEF k
  <2> QED
    BY <1>3, <2>1, <2>2
<1>6. ASSUME NEW id \in Proxy, NEW limits \in Limits, LimitsBegin(r, id, limits)
      PROVE  HonestInv'
  <2> DEFINE p == [rows[id] EXCEPT !.limits = limits]
             k == [Idle EXCEPT !.pc = "limitsWrite", !.id = id, !.p = p]
  <2>1. k.id = id /\ k.pc = "limitsWrite" /\ k.p = p
    BY DEF Idle
  <2>2. HasRow(id) /\ UNCHANGED rows /\ call' = [call EXCEPT ![r] = k]
    BY <1>6 DEF LimitsBegin
  <2> HIDE DEF k
  <2>3. p.cid = rows[id].cid
    BY <1>1, <2>2 DEF HasRow, Row
  <2> HIDE DEF p
  <2> QED
    BY <1>4, <2>1, <2>2, <2>3
<1>7. ASSUME NEW id \in Proxy, NEW port \in Port, NEW domain \in Domain,
             RecreateBegin(r, id, port, domain)
      PROVE  HonestInv'
  <2> DEFINE p == [rows[id] EXCEPT !.state = "recreating"]
             k == [Idle EXCEPT !.pc = "recreateMark", !.id = id, !.p = p,
                               !.want = [port |-> port, domain |-> domain,
                                         limits |-> rows[id].limits],
                               !.cid = rows[id].cid]
  <2>1. k.id = id /\ k.pc = "recreateMark" /\ k.p = p /\ k.cid = rows[id].cid
    BY DEF Idle
  <2>2. HasRow(id) /\ UNCHANGED rows /\ call' = [call EXCEPT ![r] = k]
    BY <1>7 DEF RecreateBegin
  <2> HIDE DEF k
  <2>3. p.cid = rows[id].cid
    BY <1>1, <2>2 DEF HasRow, Row
  <2> HIDE DEF p
  <2> QED
    BY <1>4, <2>1, <2>2, <2>3
<1>8. ASSUME NEW c \in Cid, OrphanBegin(r, c) PROVE HonestInv'
  <2>1. PICK k : k = [Idle EXCEPT !.pc = "orphanCheck", !.cid = c, !.known = Listed]
    OBVIOUS
  <2>2. UNCHANGED rows /\ call' = [call EXCEPT ![r] = k] /\ k.id = Nil /\ k.pc = "orphanCheck"
    BY <1>8, <2>1 DEF OrphanBegin, Idle
  <2>3. LocalsHonest(k)'
    BY <2>2 DEF LocalsHonest, BarePc, BuiltPc, DeletePc, AbandonPc, LimitsPc,
                RecreatePc, OrphanPc
  <2>4. WorksFor(r, Nil) /\ call'[r] = k
    BY <1>0, <1>1, <2>2, BeginsAlone
  <2> QED
    BY <1>1, <2>2, <2>3, <2>4, NilAssumption, HonestStep DEF HonestAfter
<1> QED
  BY <1>2, <1>5, <1>6, <1>7, <1>8
     DEF Begin, PostCreate, PostDelete, PostLimits, PostRecreate, PostRemoveOrphan

\* Every step of a saga on proxy id leaves it with the container it says.
LEMMA ActsHonest ==
    ASSUME Ground, HonestInv, HonestFaultless, NEW r \in Req \cup {Boot}, Acts(r),
           NEW id, id = call[r].id, NEW k, k = call'[r]
    PROVE  HonestAfter(id, k)
<1> USE DEF At
<1> PICK p : p = call[r].p
  OBVIOUS
<1> DEFINE pc == call[r].pc
<1>1. /\ r = Boot => pc \in StartPc \cup AbandonPc
      /\ r \in Req => r # Boot
      /\ IInv /\ OnePort /\ LocalsHonest(call[r])
      /\ DockerTypeOK /\ rows \in [Proxy -> Row \cup {Nil}] /\ id \in Proxy \cup {Nil}
  BY Locals, ActsAtHome, Turn, ServiceAssumption
     DEF Ground, HonestInv, IInv, TypeOK, StoreTypeOK, Call
<1>2. /\ pc \notin OrphanPc \cup {"idle"} => id \in Proxy
      /\ pc \in RowPc => p \in Row /\ p.cid \in Cid \cup {Nil}
      /\ pc \in RecreatePc => call[r].want \in Config
      /\ call[r].cid \in Cid \cup {Nil}
  BY Locals DEF Ground
<1>3. /\ \A l : Goto(r, l) => k.pc = l /\ k.p = p /\ k.id = id /\ k.cid = call[r].cid
      /\ \A l, x : GotoWith(r, l, x) => k.pc = l /\ k.p = x /\ k.id = id /\ k.cid = call[r].cid
      /\ Return(r) => k = Idle
  BY Moves DEF Ground
<1>4. ASSUME NoneAppears
      PROVE  /\ \A c : Only(id, c) => Only(id, c)'
             /\ UNCHANGED rows /\ Honest(id) => Honest(id)'
             /\ UNCHANGED rows /\ HasRow(id) => HasRow(id)'
             /\ \A x : UNCHANGED rows /\ Writable(id, x) => Writable(id, x)'
  BY <1>4, OnlyStays DEF Honest, HasRow, Writable
<1>5. UNCHANGED ctr => NoneAppears
  BY DEF NoneAppears, Live
<1>6. \A c \in Cid \cup {Nil} : RemoveContainer(c) => NoneAppears
  BY <1>1, RemovesOne
<1> HIDE DEF pc
<1> USE DEF HonestAfter, LocalsHonest, BarePc, BuiltPc, CreatePc, LimitsPc, DeletePc,
            AbandonPc, RecreatePc, OrphanPc, StartPc, RowPc
<1>7. CASE CreateWriteConfig(r)
  BY <1>1, <1>3, <1>4, <1>5, <1>7 DEF CreateWriteConfig, pc
<1>8. CASE UndoContainer(r) \/ UndoDir(r)
  BY <1>3, <1>8 DEF UndoContainer, UndoDir
<1>9. CASE UndoRow(r) \/ DeleteRow(r) \/ (r = Boot /\ AbandonRow)
  <2>1. rows' = [rows EXCEPT ![id] = Nil] /\ Return(r)
    BY <1>9 DEF UndoRow, DeleteRow, AbandonRow, DeleteProxy, HonestFaultless
  <2>2. id \in Proxy => ~HasRow(id)'
    BY <1>1, <2>1 DEF HasRow
  <2> QED
    BY <1>3, <2>1, <2>2 DEF Honest
<1>10. CASE DeleteContainer(r) \/ OrphanRemove(r) \/ OrphanCheck(r)
  <2>1. NoneAppears
    BY <1>2, <1>5, <1>6, <1>10 DEF DeleteContainer, OrphanRemove, OrphanCheck, RemoveFails
  <2>2. UNCHANGED rows
    BY <1>10 DEF DeleteContainer, OrphanRemove, OrphanCheck
  <2>3. CASE DeleteContainer(r)
    BY <1>1, <1>3, <1>4, <2>1, <2>2, <2>3 DEF DeleteContainer, pc
  <2>4. CASE OrphanRemove(r) \/ OrphanCheck(r)
    <3>1. id = Nil /\ (Return(r) \/ Goto(r, "orphanRemove"))
      BY <1>1, <2>4 DEF OrphanRemove, OrphanCheck, pc
    <3> QED
      BY <1>3, <3>1, NilAssumption
  <2> QED
    BY <1>10, <2>3, <2>4
<1>11. CASE DeleteDir(r) \/ (r = Boot /\ AbandonDir)
  BY <1>1, <1>3, <1>4, <1>5, <1>11 DEF DeleteDir, AbandonDir, BootUnchanged, pc
<1>12. CASE CreateCreateContainer(r) \/ StartCreateContainer(r)
  <2>1. /\ pc \in {"createCtr", "startCtr"} /\ UNCHANGED rows
        /\ Only(id, Nil) /\ HasRow(id) /\ Writable(id, p) /\ id \in Proxy /\ p \in Row
    BY <1>1, <1>2, <1>12 DEF CreateCreateContainer, StartCreateContainer, pc
  <2> PICK failed : failed = Settled(p, "error", "failed")
    OBVIOUS
  <2>2. failed.cid = p.cid /\ failed.port = p.port
    BY <2>1 DEF Settled, Row
  <2>3. CASE UNCHANGED ctr /\ (Goto(r, "undoDir") \/ GotoWith(r, "startCommit", failed))
    <3>1. Only(id, failed.cid)' /\ HasRow(id)' /\ Writable(id, failed)'
      BY <1>4, <1>5, <2>1, <2>2, <2>3, NilAssumption DEF Only, Writable, HasRow
    <3> QED
      BY <1>3, <2>3, <3>1
  <2>4. ASSUME NEW c \in Cid, CreateContainer(id, p.port, c),
               \/ GotoWith(r, "createStart", [p EXCEPT !.cid = c])
               \/ GotoWith(r, "startStart", [p EXCEPT !.cid = c])
        PROVE  HonestAfter(id, k)
    <3> DEFINE x == [p EXCEPT !.cid = c]
    <3>1. x.cid = c /\ x.port = p.port
      BY <2>1 DEF Row
    <3>2. (k.pc = "createStart" \/ k.pc = "startStart") /\ k.p = x /\ k.id = id
      BY <1>3, <2>4
    <3> HIDE DEF x
    <3>3. Only(id, c)' /\ HasRow(id)' /\ Writable(id, x)'
      <4>1. p.port \in Port
        BY <2>1 DEF Row
      <4>2. Only(id, c)'
        BY <1>1, <2>1, <2>4, <4>1, CreatesOne
      <4> QED
        BY <2>1, <3>1, <4>2 DEF HasRow, Writable
    <3> QED
      BY <3>1, <3>2, <3>3
  <2> QED
    BY <1>12, <2>3, <2>4
       DEF CreateCreateContainer, StartCreateContainer, HonestFaultless
<1>13. CASE CreateStart(r) \/ StartStart(r)
  <2>1. /\ pc \in {"createStart", "startStart"} /\ UNCHANGED rows
        /\ Only(id, p.cid) /\ HasRow(id) /\ Writable(id, p) /\ p \in Row
        /\ p.cid \in Cid \cup {Nil}
    BY <1>1, <1>2, <1>13 DEF CreateStart, StartStart, pc
  <2> PICK failed : failed = Settled(p, "error", "failed")
    OBVIOUS
  <2>2. failed.cid = p.cid /\ failed.port = p.port
    BY <2>1 DEF Settled, Row
  <2>3. /\ UNCHANGED ctr \/ StartContainer(p.cid)
        /\ \/ Goto(r, "createWait") \/ Goto(r, "undoCtr") \/ Goto(r, "startWait")
           \/ GotoWith(r, "startCommit", failed)
    BY <1>13 DEF CreateStart, StartStart
  <2>4. NoneAppears
    BY <1>1, <1>5, <2>1, <2>3, StartsOne
  <2>5. Only(id, p.cid)' /\ HasRow(id)' /\ Writable(id, p)' /\ Writable(id, failed)'
    BY <1>4, <2>1, <2>2, <2>4 DEF Writable
  <2> QED
    BY <1>3, <2>2, <2>3, <2>5
<1>14. CASE WaitHealthy(r)
  <2>1. /\ pc \in {"createWait", "startWait"} /\ UNCHANGED <<rows, ctr>>
        /\ Only(id, p.cid) /\ HasRow(id) /\ Writable(id, p) /\ p \in Row
    BY <1>1, <1>2, <1>14 DEF WaitHealthy, pc
  <2>2. PICK x : /\ x = Settled(p, "running", "none") \/ x = Settled(p, "error", "failed")
                 /\ GotoWith(r, "createCommit", x) \/ GotoWith(r, "startCommit", x)
    BY <1>14 DEF WaitHealthy
  <2>3. x.cid = p.cid /\ x.port = p.port
    BY <2>1, <2>2 DEF Settled, Row
  <2>4. Only(id, x.cid)' /\ HasRow(id)' /\ Writable(id, x)'
    BY <1>4, <1>5, <2>1, <2>3 DEF Writable, HasRow
  <2> QED
    BY <1>3, <2>2, <2>4
<1>15. CASE Commit(r)
  <2>1. /\ pc \in {"createCommit", "startCommit", "limitsCommit"} /\ Return(r)
        /\ NoneAppears /\ UpdateProxy(id, p) /\ id \in Proxy /\ p \in Row
    <3>1. pc \in {"createCommit", "startCommit", "limitsCommit"}
      BY <1>15 DEF Commit, pc
    <3>2. Return(r) /\ UNCHANGED ctr /\ UpdateProxy(id, p)
      BY <1>15 DEF Commit, HonestFaultless
    <3> QED
      BY <1>2, <1>5, <3>1, <3>2
  <2>2. CASE UpdateAccepted(id, p)
    <3>1. rows'[id] = p
      BY <1>1, <2>1, <2>2 DEF UpdateProxy
    <3>2. Only(id, p.cid)
      BY <1>1, <2>1, <2>2 DEF pc, Honest, UpdateAccepted
    <3> QED
      BY <1>3, <1>4, <2>1, <3>1, <3>2 DEF Honest
  <2>3. CASE ~UpdateAccepted(id, p)
    <3>1. UNCHANGED rows /\ pc = "limitsCommit"
      BY <1>1, <2>1, <2>3, WritableAccepted DEF UpdateProxy, pc
    <3> QED
      BY <1>1, <1>3, <1>4, <2>1, <3>1 DEF pc
  <2> QED
    BY <2>2, <2>3
<1>16. CASE LimitsWriteConfig(r)
  <2>1. /\ pc = "limitsWrite" /\ UNCHANGED <<rows, ctr>> /\ p \in Row
        /\ GotoWith(r, "limitsPatch", [p EXCEPT !.msg = "none"]) \/ Return(r)
    BY <1>2, <1>16 DEF LimitsWriteConfig, pc
  <2>2. [p EXCEPT !.msg = "none"].cid = p.cid
    BY <2>1 DEF Row
  <2>3. Honest(id)' /\ HasRow(id)' /\ p.cid = rows'[id].cid
    BY <1>1, <1>4, <1>5, <2>1 DEF pc
  <2>4. k = Idle \/ (k.pc = "limitsPatch" /\ k.p.cid = p.cid /\ k.id = id)
    BY <1>3, <2>1, <2>2
  <2> QED
    BY <2>3, <2>4
<1>17. CASE LimitsPatch(r)
  <2>1. /\ pc = "limitsPatch" /\ UNCHANGED rows /\ p \in Row /\ p.cid \in Cid \cup {Nil}
        /\ \/ Goto(r, "limitsCommit")
           \/ GotoWith(r, "limitsCommit", [p EXCEPT !.msg = "unapplied"])
        /\ (p.cid # Nil /\ PatchUser(p.cid, p.limits)) \/ UNCHANGED ctr
    <3>1. pc = "limitsPatch" /\ UNCHANGED rows
      BY <1>17 DEF LimitsPatch, pc
    <3>2. p \in Row /\ p.cid \in Cid \cup {Nil}
      BY <1>2, <3>1
    <3>3. /\ \/ Goto(r, "limitsCommit")
             \/ GotoWith(r, "limitsCommit", [p EXCEPT !.msg = "unapplied"])
          /\ (p.cid # Nil /\ PatchUser(p.cid, p.limits)) \/ UNCHANGED ctr
      BY <1>17 DEF LimitsPatch
    <3> QED
      BY <3>1, <3>2, <3>3
  <2>2. [p EXCEPT !.msg = "unapplied"].cid = p.cid /\ p.limits \in Limits
    BY <2>1 DEF Row
  <2>3. NoneAppears
    BY <1>1, <1>5, <2>1, <2>2, PatchesOne
  <2>4. Honest(id)' /\ HasRow(id)' /\ p.cid = rows'[id].cid
    BY <1>1, <1>4, <2>1, <2>3 DEF pc
  <2>5. k.pc = "limitsCommit" /\ k.p.cid = p.cid /\ k.id = id
    BY <1>3, <2>1, <2>2
  <2> QED
    BY <2>4, <2>5
<1>18. CASE RecreateMark(r)
  <2>1. /\ pc = "recreateMark" /\ UNCHANGED ctr /\ p \in Row /\ id \in Proxy
        /\ HasRow(id) /\ Honest(id) /\ p.cid = rows[id].cid /\ call[r].cid = rows[id].cid
    BY <1>1, <1>2, <1>18 DEF RecreateMark, pc
  <2>2. CASE UNCHANGED rows /\ Return(r)
    BY <1>3, <1>4, <1>5, <2>1, <2>2
  <2>3. CASE UpdateAccepted(id, p) /\ UpdateProxy(id, p) /\ Goto(r, "recreateRemove")
    <3>1. rows'[id] = p
      BY <1>1, <2>1, <2>3 DEF UpdateProxy
    <3>2. Honest(id)' /\ HasRow(id)'
      BY <1>4, <1>5, <2>1, <3>1, NilAssumption DEF Honest, HasRow
    <3> QED
      BY <1>3, <2>1, <2>3, <3>1, <3>2
  <2> QED
    BY <1>18, <2>2, <2>3 DEF RecreateMark
<1>19. CASE RecreateRemove(r)
  <2>1. /\ pc = "recreateRemove" /\ UNCHANGED rows /\ NoneAppears
        /\ HasRow(id) /\ Honest(id) /\ call[r].cid = rows[id].cid
    BY <1>1, <1>2, <1>5, <1>6, <1>19 DEF RecreateRemove, RemoveFails, pc
  <2>2. CASE Return(r)
    BY <1>3, <1>4, <2>1, <2>2
  <2>3. CASE RemoveContainer(call[r].cid) /\ Goto(r, "recreateCommit")
    <3>1. PICK c : c = call[r].cid
      OBVIOUS
    <3>2. Only(id, c)' /\ HasRow(id)'
      BY <1>4, <2>1, <3>1 DEF Honest
    <3>3. c \in Cid => ~Live(c)'
      BY <1>1, <1>2, <2>3, <3>1, RemovesOne
    <3>4. Only(id, Nil)'
      BY <3>2, <3>3 DEF Only
    <3> QED
      BY <1>3, <2>3, <3>2, <3>4
  <2> QED
    BY <1>19, <2>2, <2>3 DEF RecreateRemove
<1>20. CASE RecreateCommit(r)
  <2> PICK x : x = [p EXCEPT !.port = call[r].want.port,
                             !.domain = call[r].want.domain, !.cid = Nil]
    OBVIOUS
  <2>1. /\ pc = "recreateCommit" /\ UNCHANGED ctr /\ p \in Row /\ id \in Proxy
        /\ HasRow(id) /\ Only(id, Nil) /\ call[r].want \in Config
    BY <1>1, <1>2, <1>20 DEF RecreateCommit, pc
  <2>2. x \in Row /\ x.cid = Nil
    BY <2>1 DEF Row, Config
  <2>3. \/ UNCHANGED rows /\ Return(r)
        \/ UpdateAccepted(id, x) /\ UpdateProxy(id, x) /\ GotoWith(r, "recreateWrite", x)
    BY <1>20 DEF RecreateCommit
  <2>4. Only(id, Nil)'
    BY <1>4, <1>5, <2>1
  <2>5. CASE UNCHANGED rows /\ Return(r)
    BY <1>3, <2>4, <2>5, NilAssumption DEF Honest, Only
  <2>6. CASE UpdateAccepted(id, x) /\ UpdateProxy(id, x) /\ GotoWith(r, "recreateWrite", x)
    <3>1. rows'[id] = x
      BY <1>1, <2>1, <2>6 DEF UpdateProxy
    <3>2. HasRow(id)' /\ Writable(id, x)'
      BY <2>2, <3>1, NilAssumption DEF HasRow, Writable
    <3> QED
      BY <1>3, <2>4, <2>6, <3>2
  <2> QED
    BY <2>3, <2>5, <2>6
<1>21. CASE RecreateWriteConfig(r)
  <2>1. /\ pc = "recreateWrite" /\ UNCHANGED <<rows, ctr>>
        /\ HasRow(id) /\ Only(id, Nil) /\ Writable(id, p)
        /\ Goto(r, "startCtr") \/ Return(r)
    BY <1>1, <1>21 DEF RecreateWriteConfig, pc
  <2>2. Only(id, Nil)' /\ HasRow(id)' /\ Writable(id, p)'
    BY <1>4, <1>5, <2>1
  <2> QED
    BY <1>3, <2>1, <2>2, NilAssumption DEF Honest, Only
<1> QED
  BY <1>7, <1>8, <1>9, <1>10, <1>11, <1>12, <1>13, <1>14, <1>15, <1>16, <1>17, <1>18,
     <1>19, <1>20, <1>21 DEF Acts, Continue, Finish

\* The start-up pass and the environment: a listing names the only container of
\* every proxy, and containers that vanish leave what was said of them true.
LEMMA OutsideHonest ==
    ASSUME Ground, HonestInv, HonestFaultless,
           \/ ReconcileList \/ Serve \/ Environment
           \/ \E id \in Proxy :
                 ReconcileAdopt(id) \/ ReconcileAbandon(id) \/ ReconcileRebuild(id)
    PROVE  HonestInv'
<1> USE DEF BootUnchanged, ServiceUnchanged
<1>1. /\ DockerTypeOK /\ rows \in [Proxy -> Row \cup {Nil}]
      /\ call \in [Req \cup {Boot} -> Call] /\ todo \subseteq Proxy
      /\ todo \subseteq Listed /\ IInv /\ OneContainer /\ OnePort
      /\ UNCHANGED ctr => NoneAppears
      /\ Boot \notin Req
  BY ServiceAssumption DEF Ground, IInv, TypeOK, StoreTypeOK, BootOK, NoneAppears, Live
<1>2. LocalsHonest(Idle)' /\ Idle.id = Nil
  BY IdleHonest DEF Idle
<1>3. ASSUME NoneAppears, UNCHANGED <<rows, call>> PROVE
        /\ \A id \in Proxy : Honest(id) => Honest(id)'
        /\ \A r \in Req \cup {Boot} : LocalsHonest(call[r])'
  <2>1. \A id : (Honest(id) => Honest(id)') /\ (HasRow(id) => HasRow(id)')
    BY <1>3, OnlyStays DEF Honest, HasRow
  <2>2. \A id, x : Writable(id, x) => Writable(id, x)'
    BY <1>3 DEF Writable, HasRow
  <2> SUFFICES ASSUME NEW r \in Req \cup {Boot} PROVE LocalsHonest(call[r])'
    BY <2>1
  <2>3. PICK k : k = call[r]
    OBVIOUS
  <2>4. LocalsHonest(k)'
    <3>1. LocalsHonest(k)
      BY <2>3 DEF HonestInv
    <3> QED
      BY <1>3, <2>1, <2>2, <3>1, OnlyStays DEF LocalsHonest
  <2>5. call'[r] = k
    BY <1>3, <2>3
  <2> QED
    BY <2>4, <2>5 DEF LocalsHonest
<1>4. CASE ReconcileList
  <2>1. /\ mode = "boot" /\ mode' = "reconciling" /\ UNCHANGED <<rows, ctr, call>>
        /\ todo' = Listed /\ seen' = [id \in Proxy |-> ContainerOf(id)]
    BY <1>4 DEF ReconcileList, HonestFaultless
  <2>2. \A id \in Proxy : Only(id, ContainerOf(id))
    BY <1>1, ListedIsOnly
  <2>3. \A id \in todo' : Only(id, seen[id])'
    <3> SUFFICES ASSUME NEW id \in todo' PROVE Only(id, seen[id])'
      OBVIOUS
    <3>1. PICK c : c = ContainerOf(id)
      OBVIOUS
    <3>2. id \in Proxy /\ Only(id, c)' /\ seen'[id] = c
      BY <1>1, <2>1, <2>2, <3>1, OnlyStays DEF Listed
    <3> QED
      BY <3>2 DEF Only
  <2>4. \A id \in Proxy : Resting(id)' => Honest(id)'
    BY <2>1 DEF Resting, Honest, Listed, HasRow
  <2> QED
    BY <1>1, <1>3, <2>1, <2>3, <2>4 DEF HonestInv
<1>5. CASE Serve \/ \E c \in Cid : Vanish(c) \/ Restart(c)
  <2>1. /\ UNCHANGED <<rows, call, todo>>
        /\ mode # "boot" \/ mode' = mode
        /\ seen' = seen \/ todo = {}
    BY <1>5 DEF Serve, Vanish, Restart
  <2>2. NoneAppears
    <3>1. ASSUME NEW c \in Cid, Vanish(c) PROVE NoneAppears
      BY <1>1, <3>1, RemovesOne DEF Vanish
    <3>2. ASSUME NEW c \in Cid, Restart(c) PROVE NoneAppears
      BY <1>1, <3>2, RestartsOne DEF Restart
    <3> QED
      BY <1>1, <1>5, <3>1, <3>2 DEF Serve
  <2>3. \A id \in Proxy : Resting(id)' => Resting(id)
    BY <2>1 DEF Resting
  <2>4. \A id \in todo' : Only(id, seen[id])'
    <3> SUFFICES ASSUME NEW id \in todo PROVE Only(id, seen[id])'
      BY <2>1
    <3>1. PICK c : c = seen[id]
      OBVIOUS
    <3>2. Only(id, c)' /\ seen'[id] = c
      BY <2>1, <2>2, <3>1, OnlyStays DEF HonestInv
    <3> QED
      BY <3>2 DEF Only
  <2> QED
    BY <1>3, <2>1, <2>2, <2>3, <2>4 DEF HonestInv
<1>6. CASE Crash
  <2>1. \A r \in Req \cup {Boot} : call'[r] = Idle
    BY <1>6 DEF Crash
  <2>2. mode' = "boot" /\ todo' = {}
    BY <1>6 DEF Crash
  <2> QED
    BY <1>2, <2>1, <2>2 DEF HonestInv, Resting, LocalsHonest
<1>7. ASSUME NEW id \in Proxy,
             ReconcileAdopt(id) \/ ReconcileAbandon(id) \/ ReconcileRebuild(id)
      PROVE  HonestInv'
  <2>1. /\ mode = "reconciling" /\ UNCHANGED <<mode, seen, ctr>>
        /\ \A r \in Req \cup {Boot} : call[r] = Idle
        /\ id \in todo /\ todo' = todo \ {id} /\ HasRow(id)
    BY <1>1, <1>7 DEF ReconcileAdopt, ReconcileAbandon, ReconcileRebuild, InTurn, At,
                      IInv, BootOK, Listed
  <2>2. PICK c : c = seen[id]
    OBVIOUS
  <2>3. Only(id, c) /\ Only(id, c)'
    BY <1>1, <2>1, <2>2, OnlyStays DEF HonestInv
  <2>4. \A q \in todo' : Only(q, seen[q])'
    <3> SUFFICES ASSUME NEW q \in todo PROVE Only(q, seen[q])'
      BY <2>1
    <3>1. PICK d : d = seen[q]
      OBVIOUS
    <3>2. Only(q, d)' /\ seen'[q] = d
      BY <1>1, <2>1, <3>1, OnlyStays DEF HonestInv
    <3> QED
      BY <3>2 DEF Only
  <2>5. ASSUME NEW q \in Proxy, q # id, Resting(q)', rows'[q] = rows[q] PROVE Honest(q)'
    <3>1. Resting(q)
      BY <1>2, <2>1, <2>5, NilAssumption DEF Resting
    <3> QED
      BY <1>1, <2>1, <2>5, <3>1, OnlyStays DEF HonestInv, Honest, HasRow
  <2>6. CASE ReconcileAdopt(id)
    <3> DEFINE p == [rows[id] EXCEPT !.cid = c]
    <3>1. UNCHANGED call /\ UpdateProxy(id, p)
      BY <2>2, <2>6 DEF ReconcileAdopt, HonestFaultless
    <3>2. rows[id] \in Row
      BY <1>1, <2>1 DEF HasRow
    <3>3. p.port = rows[id].port /\ p.cid = c
      BY <3>2 DEF Row
    <3> HIDE DEF p
    <3>4. UpdateAccepted(id, p)
      BY <1>1, <2>1, <3>3, WritableAccepted DEF Writable
    <3>5. rows' = [rows EXCEPT ![id] = p]
      BY <3>1, <3>4 DEF UpdateProxy
    <3>6. rows'[id] = p /\ \A q \in Proxy : q # id => rows'[q] = rows[q]
      BY <1>1, <3>5
    <3>7. Honest(id)'
      BY <2>3, <3>3, <3>6 DEF Honest, Only
    <3>8. \A r \in Req \cup {Boot} : call'[r] = Idle
      BY <2>1, <3>1
    <3> QED
      BY <1>2, <2>4, <2>5, <3>6, <3>7, <3>8 DEF HonestInv, LocalsHonest
  <2>7. ASSUME UNCHANGED rows, seen[id] = Nil, NEW k, call' = [call EXCEPT ![Boot] = k],
               k.id = id, k.pc = "abandonDir" \/ (k.pc = "startCtr" /\ k.p = rows[id])
        PROVE  HonestInv'
    <3>1. call'[Boot] = k /\ \A r \in Req : call'[r] = Idle
      BY <1>1, <2>1, <2>7
    <3>2. /\ HasRow(id)' /\ Honest(id)' /\ Only(id, Nil)'
          /\ k.pc = "startCtr" => Writable(id, k.p)'
      BY <2>1, <2>2, <2>3, <2>7, NilAssumption DEF HasRow, Honest, Only, Writable
    <3>3. LocalsHonest(k)'
      BY <2>7, <3>2 DEF LocalsHonest, BarePc, BuiltPc, DeletePc, AbandonPc, LimitsPc,
                        RecreatePc, OrphanPc
    <3>4. \A q \in Proxy : Resting(q)' => q # id
      BY <2>7, <3>1 DEF Resting
    <3> QED
      BY <1>2, <2>4, <2>5, <2>7, <3>1, <3>3, <3>4 DEF HonestInv, LocalsHonest
  <2>8. CASE ReconcileAbandon(id)
    <3> DEFINE k == [Idle EXCEPT !.pc = "abandonDir", !.id = id]
    <3>1. k.pc = "abandonDir" /\ k.id = id
      BY DEF Idle
    <3>2. call' = [call EXCEPT ![Boot] = k] /\ UNCHANGED rows /\ seen[id] = Nil
      BY <2>8 DEF ReconcileAbandon
    <3> HIDE DEF k
    <3> QED
      BY <2>7, <3>1, <3>2
  <2>9. CASE ReconcileRebuild(id)
    <3> PICK k : k = [Idle EXCEPT !.pc = "startCtr", !.id = id, !.p = rows[id]]
      OBVIOUS
    <3>1. k.pc = "startCtr" /\ k.id = id /\ k.p = rows[id]
      BY DEF Idle
    <3>2. call' = [call EXCEPT ![Boot] = k] /\ UNCHANGED rows /\ seen[id] = Nil
      BY <2>9 DEF ReconcileRebuild
    <3> QED
      BY <2>7, <3>1, <3>2
  <2> QED
    BY <1>7, <2>6, <2>8, <2>9
<1> QED
  BY <1>4, <1>5, <1>6, <1>7 DEF Environment

LEMMA NextHonest ==
    ASSUME Ground, HonestInv, HonestFaultless, OneAtATime, [Next]_vars
    PROVE  HonestInv'
<1>1. ASSUME NEW r \in Req \cup {Boot}, Acts(r) PROVE HonestInv'
  <2>1. PICK id, k : id = call[r].id /\ k = call'[r]
    OBVIOUS
  <2>2. WorksFor(r, id) /\ HonestAfter(id, k) /\ IInv
    BY <1>1, <2>1, WorksAlone, ActsHonest DEF Ground
  <2>3. id \in Proxy \cup {Nil}
    BY <2>1 DEF Ground, IInv, TypeOK, Call
  <2> QED
    BY <2>1, <2>2, <2>3, HonestStep
<1>2. ASSUME NEW r \in Req, Begin(r) PROVE HonestInv'
  BY <1>2, BeginHonest DEF Ground
<1>3. CASE Reconcile \/ Environment
  BY <1>1, <1>3, OutsideHonest DEF Reconcile, Acts
<1>4. CASE UNCHANGED vars
  <2>1. \A r \in Req \cup {Boot} : call'[r] = call[r]
    BY <1>4 DEF vars
  <2> QED
    BY <1>4, <2>1
       DEF vars, HonestInv, LocalsHonest, Resting, Honest, Only, HasRow, Writable, Live
<1> QED
  BY <1>1, <1>2, <1>3, <1>4 DEF Next, Acts

\* When the panel is quiet, the container a proxy has is the one its row names,
\* whatever was removed by hand and whenever the panel was killed.
LEMMA Honesty ==
    ASSUME OneAtATime, HonestFaultless
    PROVE  Spec => []HonestInv
<1>1. Init => HonestInv
  <2>1. Init => \A r \in Req \cup {Boot} : call[r] = Idle /\ LocalsHonest(Idle)
    BY DEF Init, LocalsHonest, Idle, BarePc, BuiltPc, LimitsPc, DeletePc, AbandonPc,
           RecreatePc, OrphanPc
  <2> QED
    BY <2>1 DEF Init, HonestInv, Resting
<1> QED
  BY <1>1, NextHonest, Grounded, PTL DEF Spec

THEOREM RowsNameContainers ==
    ASSUME OneAtATime, HonestFaultless
    PROVE  Spec => []CidHonest
<1>1. Ground /\ HonestInv => CidHonest
  <2> SUFFICES ASSUME Ground, HonestInv, Quiet, NEW id \in Proxy, HasRow(id), NameTaken(id)
               PROVE  rows[id].cid = ContainerOf(id)
    BY DEF CidHonest
  <2>1. Resting(id)
    BY NilAssumption DEF Quiet, At, Resting, HonestInv, LocalsHonest, Ground, IInv, BootOK
  <2>2. Only(id, rows[id].cid)
    BY <2>1 DEF HonestInv, Honest
  <2>3. ContainerOf(id) # Nil
    BY NilAssumption DEF NameTaken, ContainerOf
  <2> QED
    BY <2>2, <2>3, ListedIsOnly DEF Ground, Only
<1> QED
  BY <1>1, Honesty, Grounded, PTL

-----------------------------------------------------------------------------
(* Nothing is left behind.                                                 *)

\* What NothingLeftBehind excepts: Create ignores the errors of its undoing and
\* registers the directory only once it has rendered config.toml into it.
CleanFaultless ==
    /\ Faults \subseteq {"crash", "vanish", "restart"}
    /\ BadDomain = {} /\ BadLimits = {}

CleanAfter(id, k) == (id \in Proxy => Clean(id)') /\ LocalsClean(k)'

LEMMA IdleClean == LocalsClean(Idle)'
BY DEF LocalsClean, Idle

\* What a step for proxy id owes, if it leaves the handler with variables k.
LEMMA CleanStep ==
    ASSUME IInv, CleanInv, NEW r \in Req \cup {Boot}, NEW id \in Proxy \cup {Nil},
           WorksFor(r, id), NEW k, k = call'[r], CleanAfter(id, k)
    PROVE  CleanInv'
<1>1. \A q \in Proxy : Clean(q)'
  BY Apart DEF CleanAfter, CleanInv, Clean, HasRow
<1>2. \A s \in Req \cup {Boot} : LocalsClean(call[s])'
  BY Apart, IdleClean DEF CleanAfter, LocalsClean
<1> QED
  BY <1>1, <1>2 DEF CleanInv

\* Once the container a proxy may have is removed, it has none.
LEMMA RemovesTheOnly ==
    ASSUME DockerTypeOK, NEW id, NEW c \in Cid \cup {Nil}, Only(id, c), RemoveContainer(c)
    PROVE  Only(id, Nil)'
BY RemovesOne, OnlyStays DEF Only

\* The sagas that drop a row remove the container first, the directory second.
LEMMA ActsClean ==
    ASSUME Ground, HonestInv, CleanInv, CleanFaultless, NEW r \in Req \cup {Boot}, Acts(r),
           NEW id, id = call[r].id, NEW k, k = call'[r]
    PROVE  CleanAfter(id, k)
<1> USE DEF At
<1> PICK p : p = call[r].p
  OBVIOUS
<1> DEFINE pc == call[r].pc
<1>1. /\ r = Boot => pc \in StartPc \cup AbandonPc
      /\ r \in Req => r # Boot
      /\ LocalsHonest(call[r]) /\ LocalsClean(call[r])
      /\ DockerTypeOK /\ rows \in [Proxy -> Row \cup {Nil}]
      /\ cfg \in [Proxy -> Config \cup {EmptyDir, Nil}]
      /\ id \in Proxy => Clean(id)
  BY Locals, ActsAtHome, Turn, ServiceAssumption
     DEF Ground, HonestInv, CleanInv, IInv, TypeOK, StoreTypeOK, DockerTypeOK
<1>2. /\ pc \notin OrphanPc \cup {"idle"} => id \in Proxy
      /\ pc \in RowPc => p \in Row /\ p.cid \in Cid \cup {Nil}
      /\ call[r].cid \in Cid \cup {Nil}
  BY Locals DEF Ground
<1>3. /\ \A l : Goto(r, l) => k.pc = l /\ k.id = id
      /\ \A l, x : GotoWith(r, l, x) => k.pc = l /\ k.id = id
      /\ Return(r) => k = Idle
  BY Moves DEF Ground
<1>4. UNCHANGED ctr => \A c : Only(id, c) => Only(id, c)'
  BY DEF Only, Live
<1>5. /\ HasRow(id) /\ UNCHANGED rows => Clean(id)'
      /\ id \in Proxy /\ UNCHANGED <<ctr, cfg>> /\ (HasRow(id) => HasRow(id)') => Clean(id)'
  BY <1>1, <1>4 DEF Clean, HasRow
<1>6. /\ Return(r) => LocalsClean(k)'
      /\ k.pc \notin {"undoDir", "undoRow", "deleteDir", "deleteRow", "abandonDir",
                      "abandonRow"} => LocalsClean(k)'
  BY <1>3, IdleClean DEF LocalsClean
<1> HIDE DEF pc
<1> USE DEF BarePc, BuiltPc, CreatePc, LimitsPc, DeletePc,
            AbandonPc, RecreatePc, OrphanPc, StartPc, RowPc
<1>7. CASE \/ CreateWriteConfig(r) \/ CreateStart(r) \/ LimitsWriteConfig(r)
           \/ LimitsPatch(r) \/ RecreateRemove(r) \/ RecreateWriteConfig(r)
           \/ StartCreateContainer(r) \/ StartStart(r) \/ WaitHealthy(r)
  <2>1. pc \in {"createWrite", "createStart", "limitsWrite", "limitsPatch",
                "recreateRemove", "recreateWrite", "startCtr", "startStart",
                "createWait", "startWait"} /\ UNCHANGED rows
    BY <1>7 DEF CreateWriteConfig, CreateStart, LimitsWriteConfig, LimitsPatch,
                RecreateRemove, RecreateWriteConfig, StartCreateContainer, StartStart,
                WaitHealthy, pc
  <2>2. Clean(id)'
    BY <1>1, <1>5, <2>1 DEF LocalsHonest, pc
  <2>3. pc \in RowPc => ~WriteConfigFails(call[r].id, call[r].p)
    BY <1>2 DEF WriteConfigFails, Renderable, CleanFaultless, Row
  <2>4. k.pc \notin {"undoDir", "undoRow", "deleteDir", "deleteRow", "abandonDir",
                     "abandonRow"} \/ Return(r)
    <3>1. CASE CreateWriteConfig(r) \/ LimitsWriteConfig(r) \/ RecreateWriteConfig(r)
      BY <1>3, <2>1, <2>3, <3>1
         DEF CreateWriteConfig, LimitsWriteConfig, RecreateWriteConfig
    <3>2. CASE CreateStart(r) \/ RecreateRemove(r)
      BY <1>3, <3>2 DEF CreateStart, RecreateRemove
    <3>3. CASE LimitsPatch(r)
      BY <1>3, <3>3 DEF LimitsPatch
    <3>4. CASE WaitHealthy(r)
      BY <1>3, <3>4 DEF WaitHealthy
    <3>5. CASE StartCreateContainer(r) \/ StartStart(r)
      <4>1. \E l \in {"startStart", "startWait", "startCommit"} :
               Goto(r, l) \/ \E x : GotoWith(r, l, x)
        BY <3>5 DEF StartCreateContainer, StartStart
      <4> QED
        BY <1>3, <4>1
    <3> QED
      BY <1>7, <3>1, <3>2, <3>3, <3>4, <3>5
  <2> QED
    BY <1>6, <2>2, <2>4 DEF CleanAfter
<1>8. CASE CreateCreateContainer(r)
  <2>1. pc = "createCtr" /\ HasRow(id) /\ Only(id, Nil) /\ UNCHANGED rows
    BY <1>1, <1>8 DEF CreateCreateContainer, LocalsHonest, pc
  <2>2. \/ UNCHANGED ctr /\ Goto(r, "undoDir")
        \/ \E x : GotoWith(r, "createStart", x)
    BY <1>8 DEF CreateCreateContainer, CleanFaultless
  <2>3. Clean(id)'
    BY <1>5, <2>1
  <2> QED
    BY <1>3, <1>4, <1>6, <2>1, <2>2, <2>3 DEF CleanAfter, LocalsClean
<1>9. CASE UndoContainer(r) \/ (DeleteContainer(r) /\ Goto(r, "deleteDir"))
  <2>1. PICK c \in Cid \cup {Nil} :
             /\ RemoveContainer(c) /\ Only(id, c) /\ HasRow(id) /\ UNCHANGED rows
             /\ Goto(r, "undoDir") \/ Goto(r, "deleteDir")
    <3>1. CASE UndoContainer(r)
      BY <1>1, <1>2, <3>1 DEF UndoContainer, CleanFaultless, LocalsHonest, pc
    <3>2. CASE DeleteContainer(r) /\ Goto(r, "deleteDir")
      <4>1. ~Return(r)
        BY <1>3, <3>2 DEF Idle
      <4> QED
        BY <1>1, <1>2, <3>2, <4>1 DEF DeleteContainer, LocalsHonest, Honest, pc
    <3> QED
      BY <1>9, <3>1, <3>2
  <2>2. Only(id, Nil)'
    BY <1>1, <2>1, RemovesTheOnly
  <2> QED
    BY <1>3, <1>5, <2>1, <2>2 DEF CleanAfter, LocalsClean
<1>10. CASE UndoDir(r) \/ DeleteDir(r) \/ (r = Boot /\ AbandonDir)
  <2>1. /\ pc \in {"undoDir", "deleteDir", "abandonDir"} /\ UNCHANGED <<rows, ctr>>
        /\ cfg' = [cfg EXCEPT ![id] = Nil]
        /\ Goto(r, "undoRow") \/ Goto(r, "deleteRow") \/ Goto(r, "abandonRow")
    BY <1>10 DEF UndoDir, DeleteDir, AbandonDir, BootUnchanged, CleanFaultless, pc
  <2>2. Only(id, Nil)' /\ cfg'[id] = Nil
    BY <1>1, <1>2, <1>4, <2>1 DEF LocalsClean, pc
  <2> QED
    BY <1>3, <2>1, <2>2 DEF CleanAfter, LocalsClean, Clean
<1>11. CASE UndoRow(r) \/ DeleteRow(r) \/ (r = Boot /\ AbandonRow)
  <2>1. pc \in {"undoRow", "deleteRow", "abandonRow"} /\ UNCHANGED <<ctr, cfg>> /\ Return(r)
    BY <1>11 DEF UndoRow, DeleteRow, AbandonRow, BootUnchanged, pc
  <2>2. Only(id, Nil)' /\ cfg'[id] = Nil
    BY <1>1, <1>4, <2>1 DEF LocalsClean, pc
  <2> QED
    BY <1>6, <2>1, <2>2 DEF CleanAfter, Clean
<1>12. CASE RecreateMark(r) \/ RecreateCommit(r) \/ Commit(r)
  <2>1. /\ pc \in {"recreateMark", "recreateCommit", "createCommit", "startCommit",
                   "limitsCommit"} /\ UNCHANGED <<ctr, cfg>>
        /\ \/ Return(r) \/ Goto(r, "recreateRemove")
           \/ \E x : GotoWith(r, "recreateWrite", x)
    BY <1>12 DEF RecreateMark, RecreateCommit, Commit, pc
  <2>2. \/ UNCHANGED rows \/ UpdateProxy(id, p)
        \/ call[r].want \in Config /\ \E x \in Row : UpdateProxy(id, x)
    <3>1. CASE RecreateCommit(r)
      <4> DEFINE x == [p EXCEPT !.port = call[r].want.port,
                                !.domain = call[r].want.domain, !.cid = Nil]
      <4>1. pc = "recreateCommit" /\ (UNCHANGED rows \/ UpdateProxy(id, x))
        BY <3>1 DEF RecreateCommit, pc
      <4>2. call[r].want \in Config /\ p \in Row
        BY <1>2, <4>1, Locals DEF Ground, pc
      <4>3. x \in Row
        BY <4>2 DEF Row, Config
      <4> QED
        BY <4>1, <4>2, <4>3
    <3>2. CASE RecreateMark(r) \/ Commit(r)
      BY <3>2 DEF RecreateMark, Commit
    <3> QED
      BY <1>12, <3>1, <3>2
  <2>3. p \in Row /\ id \in Proxy
    BY <1>2, <2>1
  <2>4. \A x \in Row : UpdateProxy(id, x) => (HasRow(id) => HasRow(id)')
    BY <1>1, <2>3, NilAssumption DEF UpdateProxy, HasRow
  <2>5. HasRow(id) => HasRow(id)'
    BY <2>2, <2>3, <2>4 DEF HasRow
  <2> QED
    BY <1>3, <1>5, <1>6, <2>1, <2>3, <2>5 DEF CleanAfter
<1>13. CASE OrphanCheck(r) \/ OrphanRemove(r)
  <2>1. pc \in OrphanPc /\ (Return(r) \/ Goto(r, "orphanRemove"))
    BY <1>13 DEF OrphanCheck, OrphanRemove, pc
  <2>2. id = Nil
    BY <1>1, <2>1 DEF LocalsHonest, pc
  <2> QED
    BY <1>3, <1>6, <2>1, <2>2, NilAssumption DEF CleanAfter
<1>14. CASE DeleteContainer(r) /\ RemoveFails(call[r].cid) /\ Return(r)
  <2>1. HasRow(id) /\ UNCHANGED <<rows, ctr>>
    BY <1>1, <1>14 DEF DeleteContainer, RemoveFails, CleanFaultless, LocalsHonest, pc
  <2> QED
    BY <1>5, <1>6, <1>14, <2>1 DEF CleanAfter
<1>15. DeleteContainer(r) => Goto(r, "deleteDir") \/ (RemoveFails(call[r].cid) /\ Return(r))
  BY DEF DeleteContainer
<1> QED
  BY <1>7, <1>8, <1>9, <1>10, <1>11, <1>12, <1>13, <1>14, <1>15 DEF Acts, Continue, Finish

\* Beyond the sagas' own steps a row only appears or is changed, and a container
\* only disappears.
LEMMA NextClean ==
    ASSUME Ground, HonestInv, CleanInv, CleanFaultless, OneAtATime, [Next]_vars
    PROVE  CleanInv'
<1> USE DEF BootUnchanged, ServiceUnchanged
<1>1. /\ DockerTypeOK /\ rows \in [Proxy -> Row \cup {Nil}]
      /\ call \in [Req \cup {Boot} -> Call] /\ todo \subseteq Listed
      /\ UNCHANGED ctr => NoneAppears
  BY DEF Ground, IInv, TypeOK, StoreTypeOK, BootOK, NoneAppears, Live
<1>2. ASSUME NoneAppears, UNCHANGED cfg, \A id \in Proxy : HasRow(id) => HasRow(id)',
             \A r \in Req \cup {Boot} : call'[r] = call[r] \/ LocalsClean(call[r])'
      PROVE  CleanInv'
  <2>1. \A id \in Proxy : Clean(id)'
    BY <1>2, OnlyStays DEF CleanInv, Clean
  <2>2. ASSUME NEW r \in Req \cup {Boot} PROVE LocalsClean(call[r])'
    <3>1. PICK k : k = call'[r]
      OBVIOUS
    <3>2. LocalsClean(k)'
      <4>1. CASE k = call[r]
        BY <1>2, <4>1, OnlyStays DEF CleanInv, LocalsClean
      <4>2. CASE LocalsClean(call[r])'
        BY <3>1, <4>2 DEF LocalsClean
      <4> QED
        BY <1>2, <3>1, <4>1, <4>2
    <3> QED
      BY <3>1, <3>2 DEF LocalsClean
  <2> QED
    BY <2>1, <2>2 DEF CleanInv
<1>3. ASSUME NEW r \in Req \cup {Boot}, NEW k, call' = [call EXCEPT ![r] = k],
             k.pc \notin {"undoDir", "undoRow", "deleteDir", "deleteRow", "abandonDir",
                          "abandonRow"} \/ LocalsClean(k)'
      PROVE  \A s \in Req \cup {Boot} : call'[s] = call[s] \/ LocalsClean(call[s])'
  <2>1. LocalsClean(k)'
    BY <1>3 DEF LocalsClean
  <2>2. call'[r] = k /\ \A s \in Req \cup {Boot} : s # r => call'[s] = call[s]
    BY <1>1, <1>3
  <2> QED
    BY <2>1, <2>2 DEF LocalsClean
<1>4. ASSUME NEW r \in Req \cup {Boot}, Acts(r) PROVE CleanInv'
  <2>1. PICK id, k : id = call[r].id /\ k = call'[r]
    OBVIOUS
  <2>2. WorksFor(r, id) /\ CleanAfter(id, k) /\ IInv
    BY <1>4, <2>1, WorksAlone, ActsClean DEF Ground
  <2>3. id \in Proxy \cup {Nil}
    BY <2>1 DEF Ground, IInv, TypeOK, Call
  <2> QED
    BY <2>1, <2>2, <2>3, CleanStep
<1>5. ASSUME NEW r \in Req, Begin(r) PROVE CleanInv'
  <2>1. UNCHANGED <<ctr, cfg>>
    BY <1>5 DEF Begin, PostCreate, PostDelete, PostLimits, PostRecreate, PostRemoveOrphan,
                CreateClaim, DeleteBegin, LimitsBegin, RecreateBegin, OrphanBegin
  <2>2. \A id \in Proxy : HasRow(id) => HasRow(id)'
    <3>1. UNCHANGED rows \/ \E id \in Proxy, p \in Row : CreateProxy(id, p)
      <4>1. ASSUME NEW id \in Proxy, NEW port \in Port, NEW domain \in Domain,
                   NEW limits \in Limits, CreateClaim(r, id, port, domain, limits)
            PROVE  \E p \in Row : CreateProxy(id, p)
        <5> DEFINE p == [port |-> port, domain |-> domain, limits |-> limits,
                         cid |-> Nil, state |-> "creating", msg |-> "none"]
        <5>1. p \in Row
          BY DEF Row, State, Message
        <5> QED
          BY <4>1, <5>1 DEF CreateClaim
      <4> QED
        BY <1>5, <4>1 DEF Begin, PostCreate, PostDelete, PostLimits, PostRecreate,
              PostRemoveOrphan, DeleteBegin, LimitsBegin, RecreateBegin, OrphanBegin
    <3> QED
      BY <1>1, <3>1, NilAssumption DEF CreateProxy, HasRow
  <2>3. /\ call' = [call EXCEPT ![r] = call'[r]]
        /\ call'[r].pc \in {"createWrite", "deleteCtr", "limitsWrite", "recreateMark",
                            "orphanCheck"}
    <3>1. CASE PostCreate(r)
      BY <1>1, <3>1 DEF PostCreate, CreateClaim, Idle
    <3>2. CASE PostDelete(r) \/ PostLimits(r)
      BY <1>1, <3>2 DEF PostDelete, PostLimits, DeleteBegin, LimitsBegin, Idle
    <3>3. CASE PostRecreate(r)
      BY <1>1, <3>3 DEF PostRecreate, RecreateBegin, Idle
    <3>4. CASE PostRemoveOrphan(r)
      BY <1>1, <3>4 DEF PostRemoveOrphan, OrphanBegin, Idle
    <3> QED
      BY <1>5, <3>1, <3>2, <3>3, <3>4 DEF Begin
  <2> QED
    BY <1>1, <1>2, <1>3, <2>1, <2>2, <2>3
<1>6. CASE ReconcileList \/ Serve
  BY <1>1, <1>2, <1>6 DEF ReconcileList, Serve, HasRow
<1>7. ASSUME NEW id \in Proxy,
             ReconcileAdopt(id) \/ ReconcileAbandon(id) \/ ReconcileRebuild(id)
      PROVE  CleanInv'
  <2>1. UNCHANGED <<ctr, cfg, seen>> /\ id \in todo /\ HasRow(id)
    BY <1>1, <1>7 DEF ReconcileAdopt, ReconcileAbandon, ReconcileRebuild, InTurn, Listed
  <2>2. CASE ReconcileAdopt(id)
    <3> DEFINE p == [rows[id] EXCEPT !.cid = seen[id]]
    <3>1. p \in Row
      BY <1>1, <2>1 DEF HasRow, Row, Ground, IInv, TypeOK
    <3>2. UNCHANGED call /\ (UpdateProxy(id, p) \/ UNCHANGED rows)
      BY <2>2 DEF ReconcileAdopt
    <3> HIDE DEF p
    <3>3. \A q \in Proxy : HasRow(q) => HasRow(q)'
      BY <1>1, <3>1, <3>2, NilAssumption DEF UpdateProxy, HasRow
    <3> QED
      BY <1>1, <1>2, <2>1, <3>2, <3>3
  <2>3. CASE ReconcileAbandon(id)
    <3> DEFINE k == [Idle EXCEPT !.pc = "abandonDir", !.id = id]
    <3>1. k.pc = "abandonDir" /\ k.id = id
      BY DEF Idle
    <3>2. call' = [call EXCEPT ![Boot] = k] /\ UNCHANGED rows /\ seen[id] = Nil
      BY <2>3 DEF ReconcileAbandon
    <3> HIDE DEF k
    <3>3. Only(id, Nil)'
      BY <1>1, <2>1, <3>2, OnlyStays DEF HonestInv, Only
    <3>4. LocalsClean(k)'
      BY <3>1, <3>3 DEF LocalsClean
    <3> QED
      BY <1>1, <1>2, <1>3, <2>1, <3>2, <3>4 DEF HasRow
  <2>4. CASE ReconcileRebuild(id)
    <3> DEFINE k == [Idle EXCEPT !.pc = "startCtr", !.id = id, !.p = rows[id]]
    <3>1. k.pc = "startCtr"
      BY DEF Idle
    <3>2. call' = [call EXCEPT ![Boot] = k] /\ UNCHANGED rows
      BY <2>4 DEF ReconcileRebuild
    <3> HIDE DEF k
    <3> QED
      BY <1>1, <1>2, <1>3, <2>1, <3>1, <3>2 DEF HasRow
  <2> QED
    BY <1>7, <2>2, <2>3, <2>4
<1>8. CASE Crash
  <2>1. \A r \in Req \cup {Boot} : LocalsClean(call[r])'
    BY <1>8, IdleClean DEF Crash, LocalsClean
  <2> QED
    BY <1>1, <1>2, <1>8, <2>1 DEF Crash, HasRow
<1>9. ASSUME NEW c \in Cid, Vanish(c) \/ Restart(c) PROVE CleanInv'
  <2>1. NoneAppears /\ UNCHANGED <<rows, cfg, call>>
    BY <1>1, <1>9, RemovesOne, RestartsOne DEF Vanish, Restart
  <2> QED
    BY <1>2, <2>1 DEF HasRow
<1>10. CASE UNCHANGED vars
  BY <1>1, <1>2, <1>10 DEF vars, HasRow
<1> QED
  BY <1>4, <1>5, <1>6, <1>7, <1>8, <1>9, <1>10 DEF Next, Acts, Reconcile, Environment

\* Whenever the panel is quiet, a proxy that was rolled back or deleted has
\* neither a container nor a configuration directory, also when the panel was
\* killed half way through and started again.
THEOREM LeavesNothing ==
    ASSUME OneAtATime, CleanFaultless
    PROVE  Spec => []NothingLeftBehind
<1>1. HonestFaultless
  BY DEF CleanFaultless, HonestFaultless
<1>2. Init => CleanInv
  <2>1. Init => \A r \in Req \cup {Boot} : call[r].pc = "idle"
    BY DEF Init, Idle
  <2> QED
    BY <2>1 DEF Init, StoreInit, DockerInit, CleanInv, Clean, LocalsClean, Only, Live
<1>3. Ground /\ HonestInv /\ CleanInv /\ [Next]_vars => CleanInv'
  BY NextClean
<1>4. CleanInv => NothingLeftBehind
  BY NilAssumption DEF CleanInv, Clean, Only, NothingLeftBehind, NameTaken
<1> QED
  BY <1>1, <1>2, <1>3, <1>4, Honesty, Grounded, PTL DEF Spec

-----------------------------------------------------------------------------
(* A running row says what clients meet.                                   *)

\* The faults ServesRow excepts: after a crash Reconcile adopts a container
\* whatever it runs with, and a file operation or a commit that fails leaves
\* the old file or row beside the new process.
ServesFaultless == Faults \cap {"crash", "disk", "db"} = {}

\* Proxy id's directory is untouched, and each of its containers untouched,
\* removed, or restarted on the configuration that is there.
HostKeeps(id) ==
    /\ cfg'[id] = cfg[id]
    /\ \A d \in Cid : Owned(d, id) =>
         \/ LeftAlone(d)
         \/ /\ Live(d) /\ ctr'[d].port = ctr[d].port
            /\ ctr'[d].loaded = ReadConfig(id)

LEMMA ServedStays ==
    ASSUME NEW id \in Proxy, HostKeeps(id), NEW p \in Row,
           p.cid # Nil => Owned(p.cid, id)
    PROVE  /\ p.cid # Nil /\ Publishes(p.cid, p) => Publishes(p.cid, p)'
           /\ Serves(id, p) => Serves(id, p)'
           /\ p.cid # Nil /\ cfg[id] = SpecOf(p)
              /\ (Live(p.cid) => ctr[p.cid].loaded = SpecOf(p))
              => (Live(p.cid) => ctr[p.cid].loaded = SpecOf(p))'
<1>1. /\ SpecOf(p) \in Config /\ SpecOf(p) # EmptyDir
      /\ SpecOf(p).port = p.port /\ SpecOf(p).domain = p.domain
      /\ SpecOf(p).limits = p.limits
  BY NilAssumption DEF SpecOf, Row, Config
<1>2. PICK c : c = p.cid
  OBVIOUS
<1>3. cfg[id] = SpecOf(p) => ReadConfig(id) = SpecOf(p)
  BY <1>1 DEF ReadConfig
<1>4. c # Nil /\ Live(c)' =>
        /\ Live(c) /\ ctr'[c].port = ctr[c].port
        /\ ctr'[c].loaded = ctr[c].loaded \/ ctr'[c].loaded = ReadConfig(id)
  BY <1>2 DEF HostKeeps, LeftAlone, Owned
<1>5. c # Nil /\ Publishes(c, p) => Publishes(c, p)'
  BY <1>4 DEF Publishes
<1>6. c # Nil /\ cfg[id] = SpecOf(p) /\ Loaded(c, p) => Loaded(c, p)'
  BY <1>1, <1>3, <1>4 DEF Loaded
<1>7. /\ c # Nil /\ cfg[id] = SpecOf(p)
      /\ (Live(c) => ctr[c].loaded.limits = p.limits \/ p.msg = "unapplied")
      => (Live(c)' => ctr'[c].loaded.limits = p.limits \/ p.msg = "unapplied")
  BY <1>1, <1>3, <1>4
<1>8. /\ c # Nil /\ cfg[id] = SpecOf(p) /\ (Live(c) => ctr[c].loaded = SpecOf(p))
      => (Live(c)' => ctr'[c].loaded = SpecOf(p))
  BY <1>1, <1>3, <1>4
<1>9. Serves(id, p) => Serves(id, p)'
  BY <1>2, <1>5, <1>6, <1>7 DEF Serves, HostKeeps
<1> QED
  BY <1>2, <1>5, <1>8, <1>9

\* What a handler of another proxy leaves as it was.
LEMMA OthersKept ==
    ASSUME IInv, NEW id \in Proxy \cup {Nil}, Elsewhere(id), AppearsFor(id),
           NEW q \in Proxy, q # id
    PROVE  HostKeeps(q)
<1>1. ASSUME NEW d \in Cid, Owned(d, q), Live(d)' PROVE ctr'[d].pid = q
  <2>1. CASE NoneAppears
    BY <1>1, <2>1 DEF NoneAppears, Owned
  <2>2. ASSUME id \in Proxy, NEW port \in Port, NEW c \in Cid, CreateContainer(id, port, c)
        PROVE  ctr'[d].pid = q
    <3>1. d # c
      BY <1>1, <2>2 DEF CreateContainer, Owned
    <3> QED
      BY <1>1, <2>2, <3>1 DEF CreateContainer, Owned, IInv, TypeOK, DockerTypeOK
  <2> QED
    BY <2>1, <2>2 DEF AppearsFor
<1> QED
  BY <1>1 DEF Elsewhere, HostKeeps, LeftAlone

LEMMA RowServedStays ==
    ASSUME IInv, NEW q \in Proxy, HostKeeps(q), rows'[q] = rows[q], RowServed(q)
    PROVE  RowServed(q)'
<1>1. CASE ~HasRow(q)
  BY <1>1 DEF RowServed, IsRunning, HasRow
<1>2. CASE HasRow(q)
  <2>1. PICK p \in Row : p = rows[q] /\ (p.cid # Nil => Owned(p.cid, q))
    BY <1>2 DEF IInv, TypeOK, StoreTypeOK, RowsOK, HasRow
  <2>2. Serves(q, p) => Serves(q, p)'
    BY <2>1, ServedStays
  <2>3. rows'[q] = p
    BY <2>1
  <2> QED
    BY <1>2, <2>1, <2>2, <2>3 DEF RowServed, IsRunning, HasRow, Serves, Publishes, Loaded,
          SpecOf
<1> QED
  BY <1>1, <1>2

\* What a step for proxy id owes, if it leaves the handler with variables k.
ServesAfter(id, k) ==
    \/ k = Idle /\ (id \in Proxy => RowServed(id)')
    \/ k.id = id /\ LocalsServe(k)'

LEMMA IdleServes == LocalsServe(Idle)'
BY DEF LocalsServe, Idle, CreatePc, StartPc, RecreatePc, LimitsPc

LEMMA ServesStep ==
    ASSUME IInv, ServesInv, NEW r \in Req \cup {Boot}, NEW id \in Proxy \cup {Nil},
           WorksFor(r, id), AppearsFor(id), mode = "serving",
           NEW k, k = call'[r], ServesAfter(id, k)
    PROVE  ServesInv'
<1>1. \A q \in Proxy : Resting(q)' => RowServed(q)'
  <2> SUFFICES ASSUME NEW q \in Proxy, Resting(q)' PROVE RowServed(q)'
    OBVIOUS
  <2>1. CASE q = id
    BY <2>1 DEF ServesAfter, Resting
  <2>2. CASE q # id
    <3>1. RowServed(q) /\ rows'[q] = rows[q]
      BY <2>2, Apart DEF ServesInv
    <3> QED
      BY <2>2, <3>1, OthersKept, RowServedStays DEF WorksFor
  <2> QED
    BY <2>1, <2>2
<1>2. \A s \in Req \cup {Boot} : LocalsServe(call[s])'
  BY Apart, IdleServes DEF ServesAfter, LocalsServe
<1> QED
  BY <1>1, <1>2 DEF ServesInv, WorksFor

\* A request that arrives copies a row that tells the truth.
LEMMA BeginServes ==
    ASSUME IInv, ServesInv, OneAtATime, NEW r \in Req, Begin(r)
    PROVE  ServesInv'
<1> USE DEF ServiceUnchanged
<1>1. /\ r \in Req \cup {Boot} /\ rows \in [Proxy -> Row \cup {Nil}]
      /\ At(r, "idle") => call[r].id = Nil
  BY DEF IInv, TypeOK, StoreTypeOK, ServesInv, LocalsServe, At
<1>2. /\ mode = "serving" /\ At(r, "idle") /\ UNCHANGED <<ctr, cfg, mode, todo, seen>>
      /\ \A id : AppearsFor(id)
  BY DEF Begin, PostCreate, PostDelete, PostLimits, PostRecreate, PostRemoveOrphan,
         CreateClaim, DeleteBegin, LimitsBegin, RecreateBegin, OrphanBegin,
         AppearsFor, NoneAppears, Live
<1> USE DEF LocalsServe, CreatePc, StartPc, RecreatePc, LimitsPc, OrphanPc
<1>3. ASSUME NEW id \in Proxy, NEW port \in Port, NEW domain \in Domain,
             NEW limits \in Limits, CreateClaim(r, id, port, domain, limits)
      PROVE  ServesInv'
  <2> DEFINE p == [port |-> port, domain |-> domain, limits |-> limits,
                   cid |-> Nil, state |-> "creating", msg |-> "none"]
             k == [Idle EXCEPT !.pc = "createWrite", !.id = id, !.p = p]
  <2>1. CreateProxy(id, p) /\ call' = [call EXCEPT ![r] = k]
    BY <1>3 DEF CreateClaim
  <2>2. p.state = "creating" /\ k.id = id /\ k.pc = "createWrite" /\ k.p = p
    BY DEF Idle
  <2> HIDE DEF p, k
  <2>3. rows'[id] = p /\ \A q \in Proxy \ {id} : rows'[q] = rows[q]
    BY <1>1, <2>1 DEF CreateProxy
  <2>4. LocalsServe(k)'
    BY <2>2, <2>3 DEF IsRunning
  <2>5. WorksFor(r, id) /\ call'[r] = k
    BY <1>1, <1>2, <2>1, <2>3, BeginsAlone
  <2> QED
    BY <1>1, <1>2, <2>2, <2>4, <2>5, ServesStep DEF ServesAfter
<1>4. ASSUME NEW id \in Proxy, NEW k, HasRow(id), UNCHANGED rows, k.id = id,
             call' = [call EXCEPT ![r] = k],
             \/ k.pc = "deleteCtr"
             \/ k.pc = "recreateMark" /\ k.p.state # "running"
             \/ /\ k.pc = "limitsWrite" /\ k.p.port = rows[id].port
                /\ k.p = [rows[id] EXCEPT !.limits = k.p.limits]
      PROVE  ServesInv'
  <2>1. WorksFor(r, id) /\ call'[r] = k /\ RowServed(id)
    BY <1>1, <1>2, <1>4, BeginsAlone DEF ServesInv
  <2>2. HasRow(id)' /\ RowServed(id)' /\ rows'[id] = rows[id]
    BY <1>2, <1>4, <2>1 DEF HasRow, RowServed, IsRunning, Serves, Publishes, Loaded, Live,
                            SpecOf
  <2>3. LocalsServe(k)'
    <3>1. CASE k.pc # "limitsWrite"
      BY <1>4, <2>2, <3>1
    <3>2. CASE k.pc = "limitsWrite"
      BY <1>4, <2>2, <3>2 DEF Writable
    <3> QED
      BY <3>1, <3>2
  <2> QED
    BY <1>1, <1>2, <1>4, <2>1, <2>3, ServesStep DEF ServesAfter
<1>5. ASSUME NEW id \in Proxy, DeleteBegin(r, id) PROVE ServesInv'
  <2> DEFINE k == [Idle EXCEPT !.pc = "deleteCtr", !.id = id, !.cid = rows[id].cid]
  <2>1. k.id = id /\ k.pc = "deleteCtr"
    BY DEF Idle
  <2>2. HasRow(id) /\ UNCHANGED rows /\ call' = [call EXCEPT ![r] = k]
    BY <1>5 DEF DeleteBegin
  <2> HIDE DEF k
  <2> QED
    BY <1>4, <2>1, <2>2
<1>6. ASSUME NEW id \in Proxy, NEW limits \in Limits, LimitsBegin(r, id, limits)
      PROVE  ServesInv'
  <2> DEFINE p == [rows[id] EXCEPT !.limits = limits]
             k == [Idle EXCEPT !.pc = "limitsWrite", !.id = id, !.p = p]
  <2>1. k.id = id /\ k.pc = "limitsWrite" /\ k.p = p
    BY DEF Idle
  <2>2. HasRow(id) /\ UNCHANGED rows /\ call' = [call EXCEPT ![r] = k]
    BY <1>6 DEF LimitsBegin
  <2> HIDE DEF k
  <2>3. rows[id] \in Row
    BY <1>1, <2>2 DEF HasRow
  <2>4. p.limits = limits /\ p.port = rows[id].port
    BY <2>3 DEF Row
  <2>5. p = [rows[id] EXCEPT !.limits = p.limits]
    BY <2>4
  <2> HIDE DEF p
  <2> QED
    BY <1>4, <2>1, <2>2, <2>4, <2>5
<1>7. ASSUME NEW id \in Proxy, NEW port \in Port, NEW domain \in Domain,
             RecreateBegin(r, id, port, domain)
      PROVE  ServesInv'
  <2> DEFINE p == [rows[id] EXCEPT !.state = "recreating"]
             k == [Idle EXCEPT !.pc = "recreateMark", !.id = id, !.p = p,
                               !.want = [port |-> port, domain |-> domain,
                                         limits |-> rows[id].limits],
                               !.cid = rows[id].cid]
  <2>1. k.id = id /\ k.pc = "recreateMark" /\ k.p = p
    BY DEF Idle
  <2>2. HasRow(id) /\ UNCHANGED rows /\ call' = [call EXCEPT ![r] = k]
    BY <1>7 DEF RecreateBegin
  <2> HIDE DEF k
  <2>3. p.state = "recreating"
    BY <1>1, <2>2 DEF HasRow, Row
  <2> HIDE DEF p
  <2> QED
    BY <1>4, <2>1, <2>2, <2>3
<1>8. ASSUME NEW c \in Cid, OrphanBegin(r, c) PROVE ServesInv'
  <2>1. PICK k : k = [Idle EXCEPT !.pc = "orphanCheck", !.cid = c, !.known = Listed]
    OBVIOUS
  <2>2. UNCHANGED rows /\ call' = [call EXCEPT ![r] = k] /\ k.id = Nil /\ k.pc = "orphanCheck"
    BY <1>8, <2>1 DEF OrphanBegin, Idle
  <2>3. LocalsServe(k)'
    BY <2>2
  <2>4. WorksFor(r, Nil) /\ call'[r] = k
    BY <1>1, <1>2, <2>2, BeginsAlone
  <2> QED
    BY <1>1, <1>2, <2>2, <2>3, <2>4, NilAssumption, ServesStep DEF ServesAfter
<1> QED
  BY <1>3, <1>5, <1>6, <1>7, <1>8
     DEF Begin, PostCreate, PostDelete, PostLimits, PostRecreate, PostRemoveOrphan

\* Every step of a saga keeps what the row says true, or has the row say that
\* the proxy does not run.
LEMMA ActsServes ==
    ASSUME Ground, ServesInv, ServesFaultless, NEW r \in Req, Acts(r),
           NEW id, id = call[r].id, NEW k, k = call'[r]
    PROVE  ServesAfter(id, k)
<1> USE DEF At
<1> PICK p : p = call[r].p
  OBVIOUS
<1> DEFINE pc == call[r].pc
<1>1. /\ IInv /\ OnePort /\ LocalsServe(call[r]) /\ r # Boot
      /\ DockerTypeOK /\ rows \in [Proxy -> Row \cup {Nil}]
      /\ cfg \in [Proxy -> Config \cup {EmptyDir, Nil}]
      /\ \A c \in Cid : Owned(c, id) => ctr[c].pid = id
  BY ServiceAssumption
     DEF Ground, ServesInv, IInv, TypeOK, StoreTypeOK, DockerTypeOK, Owned
<1>2. /\ pc \notin OrphanPc \cup {"idle"} => id \in Proxy
      /\ pc \in RowPc => /\ p \in Row /\ p.cid \in Cid \cup {Nil}
                         /\ p.cid # Nil => Owned(p.cid, id)
                         /\ p.port \in Port /\ p.limits \in Limits
                         /\ SpecOf(p) \in Config
      /\ call[r].cid \in Cid \cup {Nil}
  BY Locals DEF Ground, Row, SpecOf, Config
<1>3. /\ \A l : Goto(r, l) => k.pc = l /\ k.p = p /\ k.id = id
      /\ \A l, x : GotoWith(r, l, x) => k.pc = l /\ k.p = x /\ k.id = id
      /\ Return(r) => k = Idle
  BY Moves DEF Ground
<1>4. /\ UNCHANGED rows => \A x : Writable(id, x) => Writable(id, x)'
      /\ UNCHANGED rows /\ ~IsRunning(id) => ~IsRunning(id)'
      /\ ~IsRunning(id)' => RowServed(id)'
  BY DEF Writable, HasRow, IsRunning, RowServed
<1>5. ASSUME UNCHANGED cfg, \A d \in Cid : LeftAlone(d)
      PROVE  HostKeeps(id)
  BY <1>5 DEF HostKeeps
<1>6. ASSUME UNCHANGED rows, HostKeeps(id), id \in Proxy
      PROVE  RowServed(id) => RowServed(id)'
  <2>1. rows'[id] = rows[id]
    BY <1>6
  <2> QED
    BY <1>1, <1>6, <2>1, RowServedStays
<1>7. UNCHANGED ctr => \A d \in Cid : LeftAlone(d)
  BY DEF LeftAlone, Live
<1>8. \A c \in Cid \cup {Nil} : RemoveContainer(c) => \A d \in Cid : LeftAlone(d)
  BY <1>1, RemovesOne
<1> HIDE DEF pc
<1> USE DEF ServesAfter, LocalsServe, CreatePc, LimitsPc, DeletePc, AbandonPc, RecreatePc,
            OrphanPc, StartPc, RowPc
<1>9. CASE CreateWriteConfig(r) \/ RecreateWriteConfig(r)
  <2>1. /\ pc \in {"createWrite", "recreateWrite"} /\ UNCHANGED rows
        /\ pc = "recreateWrite" => p.state # "running"
        /\ ~IsRunning(id) /\ id \in Proxy
    BY <1>1, <1>2, <1>9 DEF CreateWriteConfig, RecreateWriteConfig, pc
  <2>2. \/ WriteConfig(id, p) /\ (Goto(r, "createCtr") \/ (pc = "recreateWrite" /\ Goto(r, "startCtr")))
        \/ Goto(r, "undoRow") \/ Return(r)
    BY <1>9 DEF CreateWriteConfig, RecreateWriteConfig, pc
  <2>3. WriteConfig(id, p) => cfg'[id] = SpecOf(p)
    BY <1>1, <2>1 DEF WriteConfig
  <2>4. CASE Goto(r, "undoRow") \/ Return(r)
    BY <1>3, <1>4, <2>1, <2>4
  <2>5. CASE WriteConfig(id, p) /\ Goto(r, "createCtr")
    BY <1>3, <1>4, <2>1, <2>3, <2>5 DEF SpecOf
  <2>6. CASE pc = "recreateWrite" /\ WriteConfig(id, p) /\ Goto(r, "startCtr")
    BY <1>3, <1>4, <2>1, <2>3, <2>6 DEF SpecOf
  <2> QED
    BY <2>2, <2>4, <2>5, <2>6
<1>10. CASE CreateCreateContainer(r) \/ StartCreateContainer(r)
  <2>1. /\ pc \in {"createCtr", "startCtr"} /\ UNCHANGED <<rows, cfg>>
        /\ ~IsRunning(id) /\ cfg[id] = SpecOf(p) /\ id \in Proxy /\ p \in Row
    BY <1>1, <1>2, <1>10 DEF CreateCreateContainer, StartCreateContainer, pc
  <2> PICK failed : failed = Settled(p, "error", "failed")
    OBVIOUS
  <2>2. SpecOf(failed) = SpecOf(p) /\ failed.state # "running"
    BY <2>1 DEF Settled, Row, SpecOf
  <2>3. CASE Goto(r, "undoDir") \/ GotoWith(r, "startCommit", failed)
    BY <1>3, <1>4, <2>1, <2>2, <2>3 DEF SpecOf
  <2>4. ASSUME NEW c \in Cid, CreateContainer(id, p.port, c),
               \/ GotoWith(r, "createStart", [p EXCEPT !.cid = c])
               \/ GotoWith(r, "startStart", [p EXCEPT !.cid = c])
        PROVE  ServesAfter(id, k)
    <3> PICK x : x = [p EXCEPT !.cid = c]
      OBVIOUS
    <3>1. x.cid = c /\ x.port = p.port /\ SpecOf(x) = SpecOf(p)
      BY <2>1 DEF Row, SpecOf
    <3>2. (k.pc = "createStart" \/ k.pc = "startStart") /\ k.p = x /\ k.id = id
      BY <1>3, <2>4
    <3>3. Publishes(c, x)' /\ c # Nil
      BY <1>1, <1>2, <2>1, <2>4, <3>1, CreatesOne, NilAssumption DEF Publishes, Row
    <3>4. cfg'[id] = SpecOf(x)
      BY <2>1, <3>1
    <3> QED
      BY <1>4, <2>1, <3>1, <3>2, <3>3, <3>4 DEF SpecOf
  <2> QED
    BY <1>10, <2>3, <2>4 DEF CreateCreateContainer, StartCreateContainer
<1>11. CASE CreateStart(r) \/ StartStart(r)
  <2>1. /\ pc \in {"createStart", "startStart"} /\ UNCHANGED <<rows, cfg>>
        /\ ~IsRunning(id) /\ cfg[id] = SpecOf(p) /\ id \in Proxy /\ p \in Row
        /\ p.cid # Nil /\ Publishes(p.cid, p)
    BY <1>1, <1>2, <1>11 DEF CreateStart, StartStart, pc
  <2> PICK failed : failed = Settled(p, "error", "failed")
    OBVIOUS
  <2>2. SpecOf(failed) = SpecOf(p) /\ failed.state # "running"
    BY <2>1 DEF Settled, Row, SpecOf
  <2>3. \/ Goto(r, "undoCtr") \/ GotoWith(r, "startCommit", failed)
        \/ StartContainer(p.cid) /\ Goto(r, "createWait")
        \/ StartContainer(p.cid) /\ Goto(r, "startWait")
    BY <1>11 DEF CreateStart, StartStart
  <2>4. CASE Goto(r, "undoCtr") \/ GotoWith(r, "startCommit", failed)
    BY <1>3, <1>4, <2>1, <2>2, <2>4 DEF SpecOf
  <2>5. CASE StartContainer(p.cid) /\ (Goto(r, "createWait") \/ Goto(r, "startWait"))
    <3>1. PICK c : c = p.cid
      OBVIOUS
    <3>2. c \in Cid /\ Owned(c, id)
      BY <1>2, <2>1, <3>1
    <3>3. /\ ctr[c].pid = id /\ Live(c) /\ ctr'[c].port = ctr[c].port
          /\ ctr'[c].loaded = ReadConfig(id)
      BY <1>1, <2>5, <3>1, <3>2, StartsOne
    <3>4. ReadConfig(id) = SpecOf(p) /\ cfg'[id] = SpecOf(p)
      BY <1>2, <2>1, NilAssumption DEF ReadConfig
    <3>5. Publishes(c, p)' /\ (Live(c) => ctr[c].loaded = SpecOf(p))'
      BY <2>1, <3>1, <3>3, <3>4 DEF Publishes
    <3>6. (k.pc = "createWait" \/ k.pc = "startWait") /\ k.p = p /\ k.id = id
      BY <1>3, <2>5
    <3>7. ~IsRunning(id)'
      BY <1>4, <2>1
    <3> QED
      BY <2>1, <3>1, <3>4, <3>5, <3>6, <3>7 DEF SpecOf
  <2> QED
    BY <2>3, <2>4, <2>5
<1>12. CASE UndoContainer(r) \/ UndoDir(r)
  <2>1. pc \in {"undoCtr", "undoDir"} /\ UNCHANGED rows /\ ~IsRunning(id)
    BY <1>1, <1>12 DEF UndoContainer, UndoDir, pc
  <2>2. Goto(r, "undoDir") \/ Goto(r, "undoRow")
    BY <1>12 DEF UndoContainer, UndoDir
  <2> QED
    BY <1>3, <1>4, <2>1, <2>2
<1>13. CASE UndoRow(r) \/ DeleteRow(r)
  <2>1. rows' = [rows EXCEPT ![id] = Nil] /\ Return(r)
    BY <1>13 DEF UndoRow, DeleteRow, DeleteProxy, ServesFaultless
  <2>2. id \in Proxy => ~IsRunning(id)'
    BY <1>1, <2>1 DEF HasRow, IsRunning
  <2> QED
    BY <1>3, <1>4, <2>1, <2>2
<1>14. CASE WaitHealthy(r)
  <2>1. /\ pc \in {"createWait", "startWait"} /\ UNCHANGED <<rows, ctr, cfg>>
        /\ ~IsRunning(id) /\ cfg[id] = SpecOf(p) /\ id \in Proxy /\ p \in Row
        /\ p.cid # Nil /\ Publishes(p.cid, p)
        /\ Live(p.cid) => ctr[p.cid].loaded = SpecOf(p)
    BY <1>1, <1>2, <1>14 DEF WaitHealthy, pc
  <2>2. PICK x : /\ x = Settled(p, "running", "none") \/ x = Settled(p, "error", "failed")
                 /\ GotoWith(r, "createCommit", x) \/ GotoWith(r, "startCommit", x)
    BY <1>14 DEF WaitHealthy
  <2>3. /\ x.cid = p.cid /\ x.port = p.port /\ x.domain = p.domain /\ x.limits = p.limits
        /\ SpecOf(x) = SpecOf(p)
    BY <2>1, <2>2 DEF Settled, Row, SpecOf
  <2>4. Serves(id, x)
    <3>1. /\ SpecOf(p) \in Config /\ SpecOf(p).port = p.port
          /\ SpecOf(p).domain = p.domain /\ SpecOf(p).limits = p.limits
      BY <2>1 DEF SpecOf, Row, Config
    <3>2. Publishes(x.cid, x) /\ Loaded(x.cid, x)
      BY <2>1, <2>3, <3>1 DEF Publishes, Loaded
    <3>3. Live(x.cid) => ctr[x.cid].loaded.limits = x.limits
      BY <2>1, <2>3, <3>1
    <3> QED
      BY <2>1, <2>3, <3>2, <3>3 DEF Serves
  <2>5. Serves(id, x)' /\ ~IsRunning(id)' /\ cfg'[id] = SpecOf(x)
    BY <1>4, <2>1, <2>3, <2>4 DEF Serves, Publishes, Loaded, Live, SpecOf
  <2>6. (k.pc = "createCommit" \/ k.pc = "startCommit") /\ k.p = x /\ k.id = id
    BY <1>3, <2>2
  <2> QED
    BY <2>5, <2>6 DEF SpecOf
<1>15. CASE Commit(r)
  <2>1. pc \in {"createCommit", "startCommit", "limitsCommit"}
    BY <1>15 DEF Commit, pc
  <2>2. Return(r) /\ UNCHANGED <<ctr, cfg>> /\ UpdateProxy(id, p)
    BY <1>15 DEF Commit, ServesFaultless
  <2>3. id \in Proxy /\ p \in Row /\ (p.state = "running" => Serves(id, p))
    BY <1>1, <1>2, <2>1 DEF pc
  <2>4. CASE UpdateAccepted(id, p)
    <3>1. rows'[id] = p
      BY <1>1, <2>2, <2>3, <2>4 DEF UpdateProxy
    <3>2. p.state = "running" => Serves(id, p)'
      BY <2>2, <2>3 DEF Serves, Publishes, Loaded, Live, SpecOf
    <3>3. RowServed(id)'
      BY <3>1, <3>2 DEF RowServed, IsRunning, Serves, Publishes, Loaded, SpecOf
    <3> QED
      BY <1>3, <2>2, <3>3
  <2>5. CASE ~UpdateAccepted(id, p)
    <3>1. UNCHANGED rows /\ ~IsRunning(id)
      BY <1>1, <2>1, <2>2, <2>3, <2>5, WritableAccepted DEF UpdateProxy, pc
    <3> QED
      BY <1>3, <1>4, <2>2, <3>1
  <2> QED
    BY <2>4, <2>5
<1>16. CASE DeleteContainer(r)
  <2>1. /\ pc = "deleteCtr" /\ UNCHANGED <<rows, cfg>> /\ RowServed(id) /\ id \in Proxy
        /\ Goto(r, "deleteDir") \/ Return(r)
    BY <1>1, <1>2, <1>16 DEF DeleteContainer, pc
  <2>2. \A d \in Cid : LeftAlone(d)
    BY <1>2, <1>7, <1>8, <1>16 DEF DeleteContainer, RemoveFails
  <2>3. RowServed(id)'
    BY <1>5, <1>6, <2>1, <2>2
  <2> QED
    BY <1>3, <2>1, <2>3
<1>17. CASE DeleteDir(r)
  <2>1. Goto(r, "deleteRow")
    BY <1>17 DEF DeleteDir, ServesFaultless
  <2> QED
    BY <1>3, <2>1
<1>18. CASE LimitsWriteConfig(r)
  <2>1. /\ pc = "limitsWrite" /\ UNCHANGED <<rows, ctr>>
        /\ id \in Proxy /\ p \in Row /\ RowServed(id) /\ Writable(id, p)
        /\ p = [rows[id] EXCEPT !.limits = p.limits]
    BY <1>1, <1>2, <1>18 DEF LimitsWriteConfig, pc
  <2>2. CASE WriteConfig(id, p) /\ GotoWith(r, "limitsPatch", [p EXCEPT !.msg = "none"])
    <3> PICK x : x = [p EXCEPT !.msg = "none"]
      OBVIOUS
    <3> PICK y : y = [x EXCEPT !.msg = "unapplied"]
      OBVIOUS
    <3>1. x.port = p.port /\ x.state = p.state /\ x \in Row
      BY <2>1 DEF Row, Message
    <3>2. /\ y.port = p.port /\ y.domain = p.domain /\ y.cid = p.cid
          /\ y.msg = "unapplied" /\ SpecOf(y) = SpecOf(p)
      BY <2>1 DEF Row, SpecOf
    <3>3. Writable(id, x)'
      BY <1>4, <2>1, <3>1 DEF Writable
    <3>4. rows[id] \in Row /\ HasRow(id)
      BY <1>1, <2>1 DEF Writable, HasRow
    <3>5. /\ p.port = rows[id].port /\ p.domain = rows[id].domain
          /\ p.cid = rows[id].cid /\ p.state = rows[id].state
      BY <2>1, <3>4 DEF Row
    <3>6. cfg'[id] = SpecOf(y)
      BY <1>1, <2>1, <2>2, <3>2 DEF WriteConfig
    <3>7. x.state = "running" => Serves(id, y)'
      <4> SUFFICES ASSUME x.state = "running" PROVE Serves(id, y)'
        OBVIOUS
      <4>1. Serves(id, rows[id])
        BY <2>1, <3>1, <3>4, <3>5 DEF RowServed, IsRunning
      <4>2. y.cid # Nil /\ Publishes(y.cid, y) /\ Loaded(y.cid, y)
        BY <3>2, <3>5, <4>1 DEF Serves, Publishes, Loaded
      <4>3. Publishes(y.cid, y)' /\ Loaded(y.cid, y)'
        BY <2>1, <4>2 DEF Publishes, Loaded, Live
      <4> QED
        BY <3>2, <3>6, <4>2, <4>3 DEF Serves, SpecOf
    <3>8. k.pc = "limitsPatch" /\ k.p = x /\ k.id = id
      BY <1>3, <2>2
    <3> QED
      BY <3>3, <3>7, <3>8
  <2>3. CASE WriteConfigFails(id, p) /\ Return(r)
    <3>1. IsRunning(id) => UNCHANGED cfg
      <4> SUFFICES ASSUME IsRunning(id) PROVE UNCHANGED cfg
        OBVIOUS
      <4>1. cfg[id] = SpecOf(rows[id]) /\ rows[id] \in Row
        BY <1>1, <2>1 DEF RowServed, Serves, IsRunning, HasRow
      <4>2. cfg[id] # Nil
        BY <4>1, NilAssumption DEF SpecOf, Row, Config
      <4> QED
        BY <1>1, <2>1, <2>3, <4>2 DEF WriteConfigFails
    <3>2. RowServed(id)'
      BY <1>4, <1>5, <1>6, <1>7, <2>1, <3>1
    <3> QED
      BY <1>3, <2>3, <3>2
  <2> QED
    BY <1>18, <2>2, <2>3 DEF LimitsWriteConfig
<1>19. CASE LimitsPatch(r)
  <2> PICK x : x = [p EXCEPT !.msg = "unapplied"]
    OBVIOUS
  <2>1. /\ pc = "limitsPatch" /\ UNCHANGED rows
        /\ id \in Proxy /\ p \in Row /\ Writable(id, p)
        /\ p.state = "running" => Serves(id, x)
    BY <1>1, <1>2, <1>19 DEF LimitsPatch, pc
  <2>2. /\ x.port = p.port /\ x.domain = p.domain /\ x.cid = p.cid /\ x.limits = p.limits
        /\ x.state = p.state /\ x.msg = "unapplied" /\ SpecOf(x) = SpecOf(p)
    BY <2>1 DEF Row, SpecOf
  <2>3. Writable(id, p)' /\ Writable(id, x)'
    BY <1>4, <2>1, <2>2 DEF Writable
  <2>4. CASE UNCHANGED <<ctr, cfg>> /\ GotoWith(r, "limitsCommit", x)
    <3>1. p.state = "running" => Serves(id, x)'
      BY <2>1, <2>4 DEF Serves, Publishes, Loaded, Live, SpecOf
    <3>2. k.pc = "limitsCommit" /\ k.p = x /\ k.id = id
      BY <1>3, <2>4
    <3> QED
      BY <2>2, <2>3, <3>1, <3>2
  <2>5. CASE /\ p.cid # Nil /\ PatchUser(p.cid, p.limits)
             /\ Goto(r, "limitsCommit") \/ GotoWith(r, "limitsCommit", x)
    <3>1. PICK c : c = p.cid
      OBVIOUS
    <3>2. c \in Cid /\ ctr[c].pid = id /\ p.limits \in Limits
      BY <1>1, <1>2, <2>1, <2>5, <3>1 DEF pc
    <3>3. /\ Live(c) /\ ctr'[c].port = ctr[c].port /\ ctr[c].loaded \in Config
          /\ ctr'[c].loaded = [ctr[c].loaded EXCEPT !.limits = p.limits]
          /\ cfg[id] \in Config => cfg'[id] = [cfg[id] EXCEPT !.limits = p.limits]
      BY <1>1, <2>5, <3>1, <3>2, PatchesOne
    <3>4. /\ ctr'[c].loaded \in Config /\ ctr'[c].loaded.port = ctr[c].loaded.port
          /\ ctr'[c].loaded.domain = ctr[c].loaded.domain
          /\ ctr'[c].loaded.limits = p.limits
      BY <3>2, <3>3 DEF Config
    <3>5. p.state = "running" => /\ cfg'[id] = SpecOf(p) /\ ctr'[c].port = p.port
                                 /\ ctr'[c].loaded.port = p.port
                                 /\ ctr'[c].loaded.domain = p.domain
      <4> SUFFICES ASSUME p.state = "running"
                   PROVE  /\ cfg'[id] = SpecOf(p) /\ ctr'[c].port = p.port
                          /\ ctr'[c].loaded.port = p.port
                          /\ ctr'[c].loaded.domain = p.domain
        OBVIOUS
      <4>1. /\ cfg[id] = SpecOf(p) /\ ctr[c].port = p.port
            /\ ctr[c].loaded.port = p.port /\ ctr[c].loaded.domain = p.domain
        BY <2>1, <2>2, <3>1, <3>3 DEF Serves, Publishes, Loaded
      <4>2. SpecOf(p) \in Config /\ [SpecOf(p) EXCEPT !.limits = p.limits] = SpecOf(p)
        BY <2>1 DEF SpecOf, Row, Config
      <4> QED
        BY <3>3, <3>4, <4>1, <4>2
    <3>6. p.state = "running" => Serves(id, p)' /\ Serves(id, x)'
      BY <2>2, <2>5, <3>1, <3>4, <3>5 DEF Serves, Publishes, Loaded, SpecOf
    <3>7. k.pc = "limitsCommit" /\ (k.p = p \/ k.p = x) /\ k.id = id
      BY <1>3, <2>5
    <3> QED
      BY <2>2, <2>3, <3>6, <3>7
  <2> QED
    BY <1>19, <2>4, <2>5 DEF LimitsPatch
<1>20. CASE RecreateMark(r)
  <2>1. /\ pc = "recreateMark" /\ UNCHANGED <<ctr, cfg>>
        /\ id \in Proxy /\ p \in Row /\ RowServed(id) /\ p.state # "running"
    BY <1>1, <1>2, <1>20 DEF RecreateMark, pc
  <2>2. CASE UNCHANGED rows /\ Return(r)
    BY <1>3, <1>5, <1>6, <1>7, <2>1, <2>2
  <2>3. CASE UpdateAccepted(id, p) /\ UpdateProxy(id, p) /\ Goto(r, "recreateRemove")
    <3>1. rows'[id] = p
      BY <1>1, <2>1, <2>3 DEF UpdateProxy
    <3>2. ~IsRunning(id)'
      BY <2>1, <3>1 DEF IsRunning
    <3> QED
      BY <1>3, <2>1, <2>3, <3>2
  <2> QED
    BY <1>20, <2>2, <2>3 DEF RecreateMark
<1>21. CASE RecreateRemove(r)
  <2>1. /\ pc = "recreateRemove" /\ UNCHANGED rows
        /\ ~IsRunning(id) /\ p.state # "running"
        /\ Goto(r, "recreateCommit") \/ Return(r)
    BY <1>1, <1>21 DEF RecreateRemove, pc
  <2> QED
    BY <1>3, <1>4, <2>1
<1>22. CASE RecreateCommit(r)
  <2> PICK x : x = [p EXCEPT !.port = call[r].want.port,
                             !.domain = call[r].want.domain, !.cid = Nil]
    OBVIOUS
  <2>1. /\ pc = "recreateCommit" /\ id \in Proxy /\ p \in Row
        /\ ~IsRunning(id) /\ p.state # "running"
    BY <1>1, <1>2, <1>22 DEF RecreateCommit, pc
  <2>2. x.state = p.state
    BY <2>1 DEF Row
  <2>3. CASE UNCHANGED rows /\ Return(r)
    BY <1>3, <1>4, <2>1, <2>3
  <2>4. CASE UpdateAccepted(id, x) /\ UpdateProxy(id, x) /\ GotoWith(r, "recreateWrite", x)
    <3>1. rows'[id] = x
      BY <1>1, <2>1, <2>4 DEF UpdateProxy
    <3>2. ~IsRunning(id)'
      BY <2>1, <2>2, <3>1 DEF IsRunning
    <3>3. k.pc = "recreateWrite" /\ k.p.state # "running" /\ k.id = id
      BY <1>3, <2>1, <2>2, <2>4
    <3> QED
      BY <3>2, <3>3
  <2> QED
    BY <1>22, <2>3, <2>4 DEF RecreateCommit
<1>23. CASE OrphanCheck(r) \/ OrphanRemove(r)
  <2>1. pc \in OrphanPc /\ (Return(r) \/ Goto(r, "orphanRemove"))
    BY <1>23 DEF OrphanCheck, OrphanRemove, pc
  <2>2. id = Nil
    BY <1>1, <2>1 DEF pc
  <2> QED
    BY <1>3, <2>1, <2>2, NilAssumption
<1> QED
  BY <1>1, <1>9, <1>10, <1>11, <1>12, <1>13, <1>14, <1>15, <1>16, <1>17, <1>18, <1>19, <1>20,
     <1>21, <1>22, <1>23 DEF Acts, Continue, Finish

\* A step that leaves the panel alone and every proxy's containers as they
\* were, removed, or restarted on the file that says the same as the row.
LEMMA SilentServes ==
    ASSUME Ground, ServesInv, UNCHANGED <<rows, cfg, call, mode, todo>>,
           \A q \in Proxy : HostKeeps(q)
    PROVE  ServesInv'
<1>1. UNCHANGED <<rows, cfg, call, mode, todo>>
  OBVIOUS
<1>3. \A q \in Proxy : HostKeeps(q)
  OBVIOUS
<1>4. \A q \in Proxy : RowServed(q) => RowServed(q)'
  BY <1>1, <1>3, RowServedStays DEF Ground
<1>5. \A q : (IsRunning(q) => IsRunning(q)') /\ (IsRunning(q)' => IsRunning(q))
  BY <1>1 DEF IsRunning, HasRow
<1>6. ASSUME NEW r \in Req \cup {Boot} PROVE LocalsServe(call[r])'
  <2>1. PICK k, id, p : k = call[r] /\ id = k.id /\ p = k.p
    OBVIOUS
  <2> USE DEF CreatePc, StartPc, RecreatePc, LimitsPc, DeletePc, OrphanPc, RowPc
  <2>2. /\ k.pc \notin OrphanPc \cup {"idle"} => id \in Proxy
        /\ k.pc \in RowPc => p \in Row /\ (p.cid # Nil => Owned(p.cid, id))
    BY <2>1, Locals DEF Ground
  <2>3. LocalsServe(k)
    BY <2>1 DEF ServesInv
  <2>4. /\ k.pc \in {"deleteCtr", "deleteDir", "limitsWrite", "recreateMark"} =>
             RowServed(id)'
        /\ k.pc \in CreatePc \cup StartPc \cup (RecreatePc \ {"recreateMark"}) =>
             ~IsRunning(id)'
        /\ k.pc \in {"createCtr", "createStart", "createWait"} \cup StartPc =>
             cfg'[id] = SpecOf(p)
        /\ k.pc \in LimitsPc => Writable(id, p)'
        /\ k.pc = "limitsWrite" => p = [rows'[id] EXCEPT !.limits = p.limits]
    BY <1>1, <1>4, <1>5, <2>1, <2>2, <2>3 DEF LocalsServe, Writable, HasRow
  <2>5. k.pc \in {"createStart", "createWait", "startStart", "startWait"} =>
          p.cid # Nil /\ Publishes(p.cid, p)'
    BY <1>3, <2>1, <2>2, <2>3, ServedStays DEF LocalsServe
  <2>6. k.pc \in {"createWait", "startWait"} =>
          (Live(p.cid) => ctr[p.cid].loaded = SpecOf(p))'
    BY <1>3, <2>1, <2>2, <2>3, ServedStays DEF LocalsServe
  <2>7. k.pc \in {"createCommit", "startCommit", "limitsCommit"} /\ p.state = "running" =>
          Serves(id, p)'
    BY <1>3, <2>1, <2>2, <2>3, ServedStays DEF LocalsServe
  <2>8. k.pc = "limitsPatch" /\ p.state = "running" =>
          Serves(id, [p EXCEPT !.msg = "unapplied"])'
    <3> SUFFICES ASSUME k.pc = "limitsPatch", p.state = "running"
                 PROVE  Serves(id, [p EXCEPT !.msg = "unapplied"])'
      OBVIOUS
    <3>1. PICK x : x = [p EXCEPT !.msg = "unapplied"]
      OBVIOUS
    <3>2. x \in Row /\ x.cid = p.cid
      BY <2>2, <3>1 DEF Row, Message
    <3>3. Serves(id, x)
      BY <2>1, <2>3, <3>1 DEF LocalsServe
    <3>4. Serves(id, x)'
      BY <1>3, <2>2, <3>2, <3>3, ServedStays
    <3> QED
      BY <3>1, <3>4
  <2>9. LocalsServe(k)'
    BY <2>1, <2>3, <2>4, <2>5, <2>6, <2>7, <2>8 DEF LocalsServe
  <2>10. call'[r] = k
    BY <1>1, <2>1
  <2> QED
    BY <2>9, <2>10 DEF LocalsServe
<1>7. \A q \in Proxy : Resting(q)' => RowServed(q)'
  BY <1>1, <1>4 DEF ServesInv, Resting
<1>8. mode' # "serving" =>
        (\A q \in Proxy : ~HasRow(q)') /\ \A r \in Req \cup {Boot} : call'[r] = Idle
  BY <1>1 DEF ServesInv, HasRow
<1> QED
  BY <1>6, <1>7, <1>8 DEF ServesInv

\* Docker restarts telemt, or somebody removes a container.
LEMMA HostServes ==
    ASSUME Ground, ServesInv, NEW c \in Cid, Vanish(c) \/ Restart(c)
    PROVE  ServesInv'
<1>1. UNCHANGED <<rows, cfg, call, mode, todo>>
  BY DEF Vanish, Restart, TelemtRestart, ServiceUnchanged
<1>2. DockerTypeOK
  BY DEF Ground, IInv, TypeOK
<1>3. \A q \in Proxy : HostKeeps(q)
  <2>1. CASE Vanish(c)
    BY <1>1, <1>2, <2>1, RemovesOne DEF Vanish, HostKeeps
  <2>2. CASE Restart(c)
    <3>1. /\ \A d \in Cid \ {c} : LeftAlone(d)
          /\ Live(c) /\ ctr'[c].port = ctr[c].port
          /\ ctr'[c].loaded = ReadConfig(ctr[c].pid)
      BY <1>2, <2>2, RestartsOne DEF Restart
    <3> QED
      BY <1>1, <3>1 DEF HostKeeps, Owned
  <2> QED
    BY <2>1, <2>2
<1> QED
  BY <1>1, <1>3, SilentServes

LEMMA NextServes ==
    ASSUME Ground, ServesInv, ServesFaultless, OneAtATime, [Next]_vars
    PROVE  ServesInv'
<1> USE DEF BootUnchanged, ServiceUnchanged
<1>1. /\ call \in [Req \cup {Boot} -> Call] /\ Boot \notin Req
      /\ call[Boot] = Idle /\ Idle.pc = "idle"
      /\ todo \subseteq Listed
  BY ServiceAssumption DEF Ground, IInv, TypeOK, BootOK, ServesInv, Idle
<1>2. ASSUME NEW r \in Req \cup {Boot}, Acts(r) PROVE ServesInv'
  <2>1. r \in Req
    BY <1>1, <1>2, ActsAtHome DEF Ground
  <2>2. PICK id, k : id = call[r].id /\ k = call'[r]
    OBVIOUS
  <2>3. WorksFor(r, id) /\ AppearsFor(id) /\ ServesAfter(id, k) /\ IInv /\ mode = "serving"
    <3>1. AppearsFor(call[r].id) /\ call[r].pc # "idle"
      BY <1>2, ActsAtHome DEF Ground
    <3> QED
      BY <1>2, <2>1, <2>2, <3>1, WorksAlone, ActsServes, Turn DEF Ground
  <2>4. id \in Proxy \cup {Nil}
    BY <2>2 DEF Ground, IInv, TypeOK, Call
  <2> QED
    BY <2>2, <2>3, <2>4, ServesStep
<1>3. ASSUME NEW r \in Req, Begin(r) PROVE ServesInv'
  BY <1>3, BeginServes DEF Ground
<1>4. CASE ReconcileList \/ Serve
  <2>1. mode # "serving" /\ UNCHANGED <<rows, call>>
    BY <1>4 DEF ReconcileList, Serve
  <2>2. \A q \in Proxy : ~HasRow(q)' /\ RowServed(q)'
    BY <2>1 DEF ServesInv, RowServed, IsRunning, HasRow
  <2>3. \A r \in Req \cup {Boot} : call'[r] = Idle
    BY <2>1 DEF ServesInv
  <2> QED
    BY <2>2, <2>3, IdleServes DEF ServesInv, LocalsServe
<1>5. ASSUME NEW id \in Proxy,
             ReconcileAdopt(id) \/ ReconcileAbandon(id) \/ ReconcileRebuild(id)
      PROVE  FALSE
  BY <1>1, <1>5 DEF ReconcileAdopt, ReconcileAbandon, ReconcileRebuild, InTurn, Listed,
                    ServesInv
<1>6. ~Crash
  BY DEF Crash, ServesFaultless
<1>7. ASSUME NEW c \in Cid, Vanish(c) \/ Restart(c) PROVE ServesInv'
  BY <1>7, HostServes
<1>8. CASE UNCHANGED vars
  <2>1. UNCHANGED <<rows, ctr, cfg, call, mode, todo>>
    BY <1>8 DEF vars
  <2>2. \A q \in Proxy : HostKeeps(q)
    BY <2>1 DEF HostKeeps, LeftAlone, Live
  <2> QED
    BY <2>1, <2>2, SilentServes
<1> QED
  BY <1>2, <1>3, <1>4, <1>5, <1>6, <1>7, <1>8 DEF Next, Acts, Reconcile, Environment

\* Whenever the panel is quiet, a row that says running names a container that
\* publishes its port and runs with its configuration, its limits unless it
\* admits they were not applied; or that somebody removed.
THEOREM RunningRowsServe ==
    ASSUME OneAtATime, ServesFaultless
    PROVE  Spec => []ServesRow
<1>1. Init => ServesInv
  <2>1. Init => \A r \in Req \cup {Boot} : call[r] = Idle /\ LocalsServe(Idle)
    BY DEF Init, LocalsServe, Idle, CreatePc, StartPc, RecreatePc, LimitsPc, OrphanPc
  <2> QED
    BY <2>1 DEF Init, StoreInit, ServesInv, HasRow, RowServed, IsRunning
<1>2. Ground /\ ServesInv /\ [Next]_vars => ServesInv'
  BY NextServes
<1>3. Ground /\ ServesInv => ServesRow
  <2> SUFFICES ASSUME Ground, ServesInv, Quiet, NEW id \in Proxy, IsRunning(id)
               PROVE  Serves(id, rows[id])
    BY DEF ServesRow, IsRunning, Serves, Publishes, Loaded
  <2>1. Resting(id)
    BY NilAssumption DEF Quiet, At, Resting, ServesInv, LocalsServe, Ground, IInv, BootOK
  <2> QED
    BY <2>1 DEF ServesInv, RowServed
<1> QED
  BY <1>1, <1>2, <1>3, Grounded, PTL DEF Spec

-----------------------------------------------------------------------------
(* No handler turns back, and none that creates a proxy forgets it: what    *)
(* CreateSettles and RecreateSettles need besides fairness.                *)

\* Where a step of handler r may lead.
LEMMA ActsAdvance ==
    ASSUME IInv, NEW r \in Req \cup {Boot}, Acts(r)
    PROVE  Advances(r)
<1> USE DEF At
<1>1. Idle.pc = "idle"
  BY DEF Idle
<1>2. CASE r = Boot /\ (AbandonDir \/ AbandonRow)
  <2>1. \/ call[r].pc = "abandonDir" /\ call'[r].pc = "abandonRow"
        \/ call[r].pc = "abandonRow" /\ call'[r].pc = "idle"
    BY <1>1, <1>2, Moves DEF AbandonDir, AbandonRow
  <2> QED
    BY <2>1 DEF Advances, StepsLeft
<1>3. CASE \/ CreateWriteConfig(r) \/ CreateCreateContainer(r) \/ CreateStart(r)
           \/ UndoContainer(r) \/ UndoDir(r) \/ UndoRow(r)
  <2>1. \/ call[r].pc = "createWrite" /\ call'[r].pc \in {"createCtr", "undoRow"}
        \/ call[r].pc = "createCtr" /\ call'[r].pc \in {"createStart", "undoDir"}
        \/ call[r].pc = "createStart" /\ call'[r].pc \in {"createWait", "undoCtr"}
        \/ call[r].pc = "undoCtr" /\ call'[r].pc = "undoDir"
        \/ call[r].pc = "undoDir" /\ call'[r].pc = "undoRow"
        \/ call[r].pc = "undoRow" /\ call'[r].pc = "idle"
    BY <1>1, <1>3, Moves DEF CreateWriteConfig, CreateCreateContainer, CreateStart,
                            UndoContainer, UndoDir, UndoRow
  <2> QED
    BY <2>1 DEF Advances, StepsLeft
<1>4. CASE DeleteContainer(r) \/ DeleteDir(r) \/ DeleteRow(r) \/ OrphanCheck(r) \/ OrphanRemove(r)
  <2>1. \/ call[r].pc = "deleteCtr" /\ call'[r].pc \in {"deleteDir", "idle"}
        \/ call[r].pc = "deleteDir" /\ call'[r].pc \in {"deleteRow", "idle"}
        \/ call[r].pc = "deleteRow" /\ call'[r].pc = "idle"
        \/ call[r].pc = "orphanCheck" /\ call'[r].pc \in {"orphanRemove", "idle"}
        \/ call[r].pc = "orphanRemove" /\ call'[r].pc = "idle"
    BY <1>1, <1>4, Moves DEF DeleteContainer, DeleteDir, DeleteRow, OrphanCheck, OrphanRemove
  <2> QED
    BY <2>1 DEF Advances, StepsLeft
<1>5. CASE \/ LimitsWriteConfig(r) \/ LimitsPatch(r) \/ RecreateMark(r) \/ RecreateRemove(r)
           \/ RecreateCommit(r) \/ RecreateWriteConfig(r)
  <2>1. \/ call[r].pc = "limitsWrite" /\ call'[r].pc \in {"limitsPatch", "idle"}
        \/ call[r].pc = "limitsPatch" /\ call'[r].pc = "limitsCommit"
        \/ call[r].pc = "recreateMark" /\ call'[r].pc \in {"recreateRemove", "idle"}
        \/ call[r].pc = "recreateRemove" /\ call'[r].pc \in {"recreateCommit", "idle"}
        \/ call[r].pc = "recreateCommit" /\ call'[r].pc \in {"recreateWrite", "idle"}
        \/ call[r].pc = "recreateWrite" /\ call'[r].pc \in {"startCtr", "idle"}
    BY <1>1, <1>5, Moves DEF LimitsWriteConfig, LimitsPatch, RecreateMark, RecreateRemove,
                            RecreateCommit, RecreateWriteConfig
  <2> QED
    BY <2>1 DEF Advances, StepsLeft
<1>6. CASE Finish(r)
  <2>1. \/ call[r].pc = "startCtr" /\ call'[r].pc \in {"startStart", "startCommit"}
        \/ call[r].pc = "startStart" /\ call'[r].pc \in {"startWait", "startCommit"}
        \/ call[r].pc = "createWait" /\ call'[r].pc = "createCommit"
        \/ call[r].pc = "startWait" /\ call'[r].pc = "startCommit"
        \/ /\ call[r].pc \in {"createCommit", "startCommit", "limitsCommit"}
           /\ call'[r].pc = "idle"
    BY <1>1, <1>6, Moves DEF Finish, StartCreateContainer, StartStart, WaitHealthy, Commit
  <2> QED
    BY <2>1 DEF Advances, StepsLeft
<1> QED
  BY <1>2, <1>3, <1>4, <1>5, <1>6 DEF Acts, Continue

\* Nobody else moves a handler that has begun, except that a crash ends it.
LEMMA OthersStand ==
    ASSUME IInv, Next, NEW r \in Req \cup {Boot}, call[r].pc # "idle", call'[r] # call[r]
    PROVE  Acts(r) \/ call'[r] = Idle
<1>1. Boot \notin Req /\ call \in [Req \cup {Boot} -> Call]
  BY ServiceAssumption DEF IInv, TypeOK
<1>2. ASSUME NEW s \in Req, Begin(s) PROVE FALSE
  <2>1. call[s].pc = "idle" /\ \E k : call' = [call EXCEPT ![s] = k]
    BY <1>2 DEF At, Begin, PostCreate, PostDelete, PostLimits, PostRecreate,
                PostRemoveOrphan, CreateClaim, DeleteBegin, LimitsBegin, RecreateBegin,
                OrphanBegin
  <2> QED
    BY <1>1, <2>1
<1>3. ASSUME NEW s \in Req \cup {Boot}, Acts(s) PROVE Acts(r)
  <2>1. call' = [call EXCEPT ![s] = call'[s]]
    BY <1>3, ActsAtHome
  <2> QED
    BY <1>1, <1>3, <2>1
<1>4. CASE Reconcile
  <2>1. CASE AbandonDir \/ AbandonRow
    BY <1>3, <2>1 DEF Acts
  <2>2. CASE ReconcileList \/ Serve
    BY <2>2 DEF ReconcileList, Serve
  <2>3. ASSUME NEW id \in Proxy,
               ReconcileAdopt(id) \/ ReconcileAbandon(id) \/ ReconcileRebuild(id)
        PROVE  FALSE
    <3>1. /\ call[Boot].pc = "idle"
          /\ UNCHANGED call \/ \E k : call' = [call EXCEPT ![Boot] = k]
      BY <2>3 DEF At, InTurn, ReconcileAdopt, ReconcileAbandon, ReconcileRebuild
    <3> QED
      BY <1>1, <3>1
  <2> QED
    BY <1>4, <2>1, <2>2, <2>3 DEF Reconcile
<1>5. CASE Environment
  BY <1>5 DEF Environment, Crash, Vanish, Restart
<1> QED
  BY <1>2, <1>3, <1>4, <1>5 DEF Next, Acts

\* Every step of a handler brings it nearer to its end, and no other step puts
\* it back: a request takes at most nine steps, whatever fails and however the
\* handlers interleave (Create, Delete, UpdateLimits, Recreate, RemoveOrphan and
\* Reconcile retry nothing).
THEOREM SagasEnd ==
    Spec => [][\A r \in Req \cup {Boot} :
                  /\ Acts(r) => Advances(r)
                  /\ call[r].pc # "idle" /\ call'[r] # call[r] => Advances(r)]_vars
<1>1. IInv /\ [Next]_vars =>
        [\A r \in Req \cup {Boot} :
            /\ Acts(r) => Advances(r)
            /\ call[r].pc # "idle" /\ call'[r] # call[r] => Advances(r)]_vars
  <2> SUFFICES ASSUME IInv, Next, NEW r \in Req \cup {Boot}
               PROVE  /\ Acts(r) => Advances(r)
                      /\ call[r].pc # "idle" /\ call'[r] # call[r] => Advances(r)
    OBVIOUS
  <2>1. call'[r] = Idle /\ call[r].pc # "idle" => Advances(r)
    BY DEF Idle, Advances, StepsLeft
  <2> QED
    BY <2>1, ActsAdvance, OthersStand
<1> QED
  BY <1>1, Invariance, PTL DEF Spec

\* A crash leaves a proxy that says creating to Reconcile, a commit that fails
\* leaves the row as it was, and UpdateLimits beside a Create writes creating
\* back after it has settled.
CreatingFaultless ==
    /\ Faults \cap {"crash", "db"} = {}
    /\ "limits" \notin Ops \/ OneAtATime

\* What a handler's step does to its own proxy if that is still being created.
LEMMA ActsCreating ==
    ASSUME Ground, CreatingInv, CreatingFaultless, NEW r \in Req \cup {Boot}, Acts(r),
           NEW id, id = call[r].id, id \in Proxy => Creating(id)'
    PROVE  /\ UNCHANGED rows
           /\ id \in Proxy /\ Creates(r, id) => Creates(r, id)'
<1> USE DEF At
<1> DEFINE p == call[r].p
           k == call'[r]
<1>1. /\ rows \in [Proxy -> Row \cup {Nil}] /\ DockerTypeOK /\ IInv
      /\ call[r].pc \notin OrphanPc \cup {"idle"} => id \in Proxy
      /\ call[r].pc \in RowPc => p \in Row
  BY Locals DEF Ground, IInv, TypeOK, StoreTypeOK
<1>2. Idle.pc = "idle"
  BY DEF Idle
<1>3. /\ \A pc : Goto(r, pc) => k.pc = pc /\ k.p = p /\ k.id = id
      /\ \A pc, x : GotoWith(r, pc, x) => k.pc = pc /\ k.p = x /\ k.id = id
      /\ Return(r) => k = Idle
  BY <1>1, Moves
<1>4. \A x : x.state # "creating" /\ id \in Proxy /\ UpdateProxy(id, x) =>
               UNCHANGED rows /\ ~UpdateAccepted(id, x)
  <2> SUFFICES ASSUME NEW x, x.state # "creating", id \in Proxy, UpdateProxy(id, x),
                      UpdateAccepted(id, x)
               PROVE  FALSE
    BY DEF UpdateProxy
  <2>1. rows'[id] = x
    BY <1>1 DEF UpdateProxy
  <2> QED
    BY <2>1 DEF Creating
<1>5. UNCHANGED rows /\ Writable(id, p) /\ k.p.port = p.port /\ k.pc \in CreatePc /\ k.id = id
        => Creates(r, id)'
  BY DEF Creates, Writable, HasRow
<1> HIDE DEF p, k
<1>6. CASE \/ CreateWriteConfig(r) \/ CreateCreateContainer(r) \/ CreateStart(r)
           \/ UndoContainer(r) \/ UndoDir(r) \/ (call[r].pc = "createWait" /\ WaitHealthy(r))
  <2>1. p \in Row
    BY <1>1, <1>6 DEF CreateWriteConfig, CreateCreateContainer, CreateStart, UndoContainer,
           UndoDir, RowPc, CreatePc
  <2>3. \/ \E pc \in CreatePc : Goto(r, pc)
        \/ \E pc \in CreatePc : \E x : GotoWith(r, pc, x) /\ x.port = p.port
    <3>1. CASE CreateCreateContainer(r)
      <4>1. \/ Goto(r, "undoDir")
            \/ \E c \in Cid : GotoWith(r, "createStart", [p EXCEPT !.cid = c])
        BY <3>1 DEF CreateCreateContainer, p
      <4>2. \A c \in Cid : [p EXCEPT !.cid = c].port = p.port
        BY <2>1 DEF Row
      <4> QED
        BY <4>1, <4>2 DEF CreatePc
    <3>2. CASE call[r].pc = "createWait" /\ WaitHealthy(r)
      <4>1. \/ GotoWith(r, "createCommit", Settled(p, "running", "none"))
            \/ GotoWith(r, "createCommit", Settled(p, "error", "failed"))
        BY <3>2 DEF WaitHealthy, p
      <4>2. /\ Settled(p, "running", "none").port = p.port
            /\ Settled(p, "error", "failed").port = p.port
        BY <2>1 DEF Row, Settled
      <4> QED
        BY <4>1, <4>2 DEF CreatePc
    <3>3. CASE \/ CreateWriteConfig(r) \/ CreateStart(r) \/ UndoContainer(r) \/ UndoDir(r)
      BY <3>3 DEF CreateWriteConfig, CreateStart, UndoContainer, UndoDir, CreatePc
    <3> QED
      BY <1>6, <3>1, <3>2, <3>3
  <2>4. UNCHANGED rows
    BY <1>6 DEF CreateWriteConfig, CreateCreateContainer, CreateStart, UndoContainer, UndoDir,
           WaitHealthy
  <2>5. k.pc \in CreatePc /\ k.id = id /\ k.p.port = p.port
    BY <1>3, <2>3
  <2> QED
    BY <1>5, <2>4, <2>5 DEF Creates, p
<1>7. ~(UndoRow(r) \/ DeleteRow(r) \/ (r = Boot /\ AbandonRow))
  <2> SUFFICES ASSUME UndoRow(r) \/ DeleteRow(r) \/ (r = Boot /\ AbandonRow) PROVE FALSE
    OBVIOUS
  <2>1. id \in Proxy /\ DeleteProxy(id)
    BY <1>1 DEF UndoRow, DeleteRow, AbandonRow, CreatingFaultless, OrphanPc
  <2> QED
    BY <1>1, <2>1 DEF DeleteProxy, Creating, HasRow
<1>8. CASE Commit(r)
  <2>1. /\ call[r].pc \in {"createCommit", "startCommit", "limitsCommit"}
        /\ UpdateProxy(id, p)
    BY <1>8 DEF Commit, CreatingFaultless, p
  <2>2. id \in Proxy /\ p.state # "creating"
    BY <1>1, <2>1 DEF CreatingInv, LimitsPc, StartPc, OrphanPc, p
  <2>3. UNCHANGED rows /\ ~UpdateAccepted(id, p)
    BY <1>4, <2>1, <2>2
  <2>4. ~Writable(id, p)
    BY <1>1, <2>1, <2>2, <2>3, WritableAccepted DEF Ground
  <2> QED
    BY <2>3, <2>4 DEF Creates, p
<1>9. CASE RecreateMark(r) \/ RecreateCommit(r)
  <2>1. call[r].pc \in {"recreateMark", "recreateCommit"} /\ call[r].pc \notin CreatePc
    BY <1>9 DEF RecreateMark, RecreateCommit, CreatePc
  <2>2. p \in Row /\ id \in Proxy /\ p.state # "creating"
    BY <1>1, <2>1 DEF CreatingInv, RowPc, RecreatePc, OrphanPc, p
  <2>3. UNCHANGED rows
    <3>1. PICK x : /\ x = p \/ x = [p EXCEPT !.port = call[r].want.port,
                                             !.domain = call[r].want.domain, !.cid = Nil]
                   /\ UpdateProxy(id, x) \/ UNCHANGED rows
      BY <1>9 DEF RecreateMark, RecreateCommit, p
    <3>2. x.state # "creating"
      BY <2>2, <3>1 DEF Row
    <3> QED
      BY <1>4, <2>2, <3>1, <3>2
  <2> QED
    BY <2>1, <2>3 DEF Creates
<1>10. CASE \/ DeleteContainer(r) \/ DeleteDir(r) \/ LimitsWriteConfig(r) \/ LimitsPatch(r)
            \/ RecreateRemove(r) \/ RecreateWriteConfig(r) \/ OrphanCheck(r) \/ OrphanRemove(r)
            \/ StartCreateContainer(r) \/ StartStart(r)
            \/ (call[r].pc = "startWait" /\ WaitHealthy(r)) \/ (r = Boot /\ AbandonDir)
  <2>1. UNCHANGED rows /\ call[r].pc \notin CreatePc
    BY <1>10 DEF DeleteContainer, DeleteDir, LimitsWriteConfig, LimitsPatch, RecreateRemove,
           RecreateWriteConfig, OrphanCheck, OrphanRemove, StartCreateContainer, StartStart,
           WaitHealthy, AbandonDir, CreatePc
  <2> QED
    BY <2>1 DEF Creates
<1> QED
  BY <1>6, <1>7, <1>8, <1>9, <1>10 DEF Acts, Continue, Finish, WaitHealthy

\* The copies that will be written say something else than creating.
LateOK(k) ==
    k.pc \in LimitsPc \cup RecreatePc \cup StartPc \cup {"createCommit"} =>
       k.p.state # "creating"

LEMMA ActsSettles ==
    ASSUME IInv, CreatingInv, NEW r \in Req \cup {Boot}, Acts(r)
    PROVE  LateOK(call'[r])
<1> USE DEF At, LimitsPc, RecreatePc, StartPc
<1> DEFINE p == call[r].p
           k == call'[r]
<1>1. /\ call[r].pc \in RowPc => p \in Row
      /\ Idle.pc = "idle"
  BY Locals DEF RowPc, CreatePc, OrphanPc, Idle
<1>2. /\ \A pc : Goto(r, pc) => k.pc = pc /\ k.p = p
      /\ \A pc, x : GotoWith(r, pc, x) => k.pc = pc /\ k.p = x
      /\ Return(r) => k = Idle
  BY Moves
<1>3. \A pc, x : GotoWith(r, pc, x) /\ x.state # "creating" => LateOK(k)
  BY <1>2 DEF LateOK
<1>10. \A pc : Goto(r, pc) /\ p.state # "creating" => LateOK(k)
  BY <1>2 DEF LateOK
<1> HIDE DEF k, p
<1>4. CASE call[r].pc \notin RowPc
  <2>1. k = Idle \/ \E pc \in DeletePc \cup OrphanPc \cup AbandonPc : k.pc = pc
    BY <1>2, <1>4 DEF Acts, Continue, Finish, CreateWriteConfig, CreateCreateContainer,
           CreateStart, UndoContainer, UndoDir, UndoRow, DeleteContainer, DeleteDir, DeleteRow,
           LimitsWriteConfig, LimitsPatch, RecreateMark, RecreateRemove, RecreateCommit,
           RecreateWriteConfig, OrphanCheck, OrphanRemove, StartCreateContainer, StartStart,
           WaitHealthy, Commit, AbandonDir, AbandonRow, RowPc, CreatePc, DeletePc, OrphanPc,
           AbandonPc
  <2> QED
    BY <1>1, <2>1 DEF LateOK, DeletePc, OrphanPc, AbandonPc, k
<1>5. CASE \/ CreateWriteConfig(r) \/ CreateCreateContainer(r) \/ CreateStart(r)
           \/ UndoContainer(r) \/ UndoDir(r) \/ UndoRow(r) \/ Commit(r)
  <2>1. k.pc \in {"createCtr", "createStart", "createWait", "undoCtr", "undoDir", "undoRow", "idle"}
    BY <1>1, <1>2, <1>5 DEF CreateWriteConfig, CreateCreateContainer, CreateStart,
           UndoContainer, UndoDir, UndoRow, Commit
  <2> QED
    BY <2>1 DEF LateOK, k
<1>6. CASE WaitHealthy(r)
  <2>1. \E pc : \/ GotoWith(r, pc, Settled(p, "running", "none"))
                \/ GotoWith(r, pc, Settled(p, "error", "failed"))
    BY <1>6, Zenon DEF WaitHealthy, p
  <2>2. p \in Row
    BY <1>1, <1>6 DEF WaitHealthy, RowPc, CreatePc
  <2>3. /\ Settled(p, "running", "none").state # "creating"
        /\ Settled(p, "error", "failed").state # "creating"
    BY <2>2 DEF Row, Settled
  <2> QED
    BY <1>3, <2>1, <2>3 DEF k
<1>7. CASE StartCreateContainer(r) \/ StartStart(r)
  <2>1. /\ call[r].pc \in StartPc
        /\ \/ \E c \in Cid : GotoWith(r, "startStart", [p EXCEPT !.cid = c])
           \/ GotoWith(r, "startCommit", Settled(p, "error", "failed"))
           \/ Goto(r, "startWait")
    BY <1>7 DEF StartCreateContainer, StartStart, p
  <2>2. p \in Row /\ p.state # "creating"
    BY <1>1, <2>1 DEF RowPc, CreatingInv, p
  <2>3. /\ \A c \in Cid : [p EXCEPT !.cid = c].state # "creating"
        /\ Settled(p, "error", "failed").state # "creating"
    BY <2>2 DEF Row, Settled
  <2> QED
    BY <1>3, <1>10, <2>1, <2>2, <2>3 DEF k
<1>8. CASE \/ LimitsWriteConfig(r) \/ LimitsPatch(r) \/ RecreateMark(r) \/ RecreateRemove(r)
           \/ RecreateCommit(r) \/ RecreateWriteConfig(r)
  <2>1. /\ call[r].pc \in LimitsPc \cup RecreatePc
        /\ \/ \E pc : \/ GotoWith(r, pc, [p EXCEPT !.msg = "none"])
                      \/ GotoWith(r, pc, [p EXCEPT !.msg = "unapplied"])
                      \/ GotoWith(r, pc, [p EXCEPT !.port = call[r].want.port,
                                                   !.domain = call[r].want.domain, !.cid = Nil])
                      \/ Goto(r, pc)
           \/ Return(r)
    BY <1>8 DEF LimitsWriteConfig, LimitsPatch, RecreateMark, RecreateRemove, RecreateCommit,
           RecreateWriteConfig, p
  <2>2. p \in Row /\ p.state # "creating"
    BY <1>1, <2>1 DEF RowPc, CreatingInv, p
  <2>3. /\ [p EXCEPT !.msg = "none"].state # "creating"
        /\ [p EXCEPT !.msg = "unapplied"].state # "creating"
        /\ [p EXCEPT !.port = call[r].want.port, !.domain = call[r].want.domain,
                     !.cid = Nil].state # "creating"
    BY <2>2 DEF Row
  <2>4. Return(r) => LateOK(k)
    BY <1>1, <1>2 DEF LateOK
  <2> QED
    BY <1>3, <1>10, <2>1, <2>2, <2>3, <2>4 DEF k
<1>9. CASE DeleteContainer(r) \/ DeleteDir(r) \/ DeleteRow(r) \/ OrphanCheck(r)
           \/ OrphanRemove(r) \/ (r = Boot /\ (AbandonDir \/ AbandonRow))
  <2>1. call[r].pc \notin RowPc
    BY <1>9 DEF DeleteContainer, DeleteDir, DeleteRow, OrphanCheck, OrphanRemove, AbandonDir,
           AbandonRow, RowPc, CreatePc
  <2> QED
    BY <1>4, <2>1
<1> QED
  BY <1>5, <1>6, <1>7, <1>8, <1>9 DEF Acts, Continue, Finish, k

LEMMA NextCreating ==
    ASSUME Ground, CreatingInv, CreatingFaultless, [Next]_vars, IInv'
    PROVE  CreatingInv'
<1>1. /\ rows \in [Proxy -> Row \cup {Nil}] /\ Boot \notin Req /\ IInv
      /\ call \in [Req \cup {Boot} -> Call]
  BY ServiceAssumption DEF Ground, IInv, TypeOK, StoreTypeOK
<1>2. /\ Idle.pc = "idle" /\ LateOK(Idle)
      /\ \A pc \in CreatePc : pc # "idle"
  BY DEF Idle, CreatePc, LimitsPc, RecreatePc, StartPc, LateOK
\* What keeps the first half: a step of one slot that leaves the rows to come.
<1>3. ASSUME NEW r \in Req \cup {Boot}, call' = [call EXCEPT ![r] = call'[r]],
             \A id \in Proxy : Creating(id)' => Creating(id) \/ \E s \in Req : Creates(s, id)',
             \A id \in Proxy : Creating(id)' /\ Creates(r, id) => Creates(r, id)',
             \A id \in Proxy : Creating(id)' /\ Creating(id) => rows'[id].port = rows[id].port,
             LateOK(call'[r])
      PROVE  CreatingInv'
  <2>1. \A s \in Req \cup {Boot} : s # r => call'[s] = call[s]
    BY <1>1, <1>3
  <2>2. ASSUME NEW id \in Proxy, Creating(id)' PROVE \E s \in Req : Creates(s, id)'
    <3>1. CASE Creating(id)
      <4>1. PICK s \in Req : Creates(s, id)
        BY <3>1 DEF CreatingInv
      <4>2. s # r => Creates(s, id)'
        BY <1>3, <2>1, <2>2, <3>1, <4>1 DEF Creates, Writable, Creating
      <4> QED
        BY <1>3, <2>2, <4>1, <4>2
    <3> QED
      BY <1>3, <2>2, <3>1
  <2>3. \A s \in Req \cup {Boot} : LateOK(call'[s])
    BY <1>3, <2>1 DEF CreatingInv, LateOK
  <2> QED
    BY <2>2, <2>3 DEF CreatingInv, LateOK
\* A step that writes no row and moves no Create.
<1>4. ASSUME UNCHANGED rows,
             \A s \in Req \cup {Boot} : \/ call'[s] = call[s]
                                        \/ LateOK(call'[s]) /\ call[s].pc = "idle"
      PROVE  CreatingInv'
  <2>1. \A id \in Proxy : Creating(id)' => \E s \in Req : Creates(s, id)'
    BY <1>2, <1>4 DEF CreatingInv, Creating, Creates, Writable, HasRow
  <2>2. \A s \in Req \cup {Boot} : LateOK(call'[s])
    BY <1>4 DEF CreatingInv, LateOK
  <2> QED
    BY <2>1, <2>2 DEF CreatingInv, LateOK
<1>5. ASSUME NEW r \in Req \cup {Boot}, Acts(r) PROVE CreatingInv'
  <2> PICK own : own = call[r].id
    OBVIOUS
  <2>1. /\ call' = [call EXCEPT ![r] = call'[r]]
        /\ \A q \in Proxy : q # own => rows'[q] = rows[q]
    BY <1>1, <1>5, ActsAtHome DEF Elsewhere
  <2>2. own \in Proxy /\ Creating(own)' =>
           UNCHANGED rows /\ (Creates(r, own) => Creates(r, own)')
    BY <1>5, ActsCreating
  <2>3. \A id \in Proxy : Creates(r, id) => id = own
    BY DEF Creates
  <2>4. \A id \in Proxy : Creating(id)' => rows'[id] = rows[id]
    BY <2>1, <2>2
  <2>5. \A id \in Proxy : Creating(id)' /\ Creates(r, id) => Creates(r, id)'
    BY <2>2, <2>3
  <2>6. LateOK(call'[r])
    BY <1>1, <1>5, ActsSettles
  <2>7. /\ \A id \in Proxy : Creating(id)' => Creating(id)
        /\ \A id \in Proxy : Creating(id)' /\ Creating(id) => rows'[id].port = rows[id].port
    BY <2>4 DEF Creating, HasRow
  <2> QED
    BY <1>3, <2>1, <2>5, <2>6, <2>7
<1>6. ASSUME NEW r \in Req, Begin(r) PROVE CreatingInv'
  <2>1. CASE PostCreate(r)
    <3>1. PICK id \in Proxy, p \in Row :
            /\ CreateProxy(id, p) /\ At(r, "idle")
            /\ call' = [call EXCEPT ![r] = [Idle EXCEPT !.pc = "createWrite", !.id = id, !.p = p]]
      <4>1. PICK id \in Proxy, port \in Port, domain \in Domain, limits \in Limits :
              CreateClaim(r, id, port, domain, limits)
        BY <2>1 DEF PostCreate
      <4>2. [port |-> port, domain |-> domain, limits |-> limits,
             cid |-> Nil, state |-> "creating", msg |-> "none"] \in Row
        BY DEF Row, State, Message
      <4> QED
        BY <4>1, <4>2 DEF CreateClaim
    <3>2. /\ call'[r].pc = "createWrite" /\ call'[r].id = id /\ call'[r].p = p
          /\ call' = [call EXCEPT ![r] = call'[r]]
      BY <1>1, <3>1 DEF Idle
    <3>3. rows'[id] = p /\ ~HasRow(id) /\ \A q \in Proxy : q # id => rows'[q] = rows[q]
      BY <1>1, <3>1 DEF CreateProxy, IInv, RowsOK
    <3>4. Creating(id)' => Creates(r, id)'
      BY <3>2, <3>3, NilAssumption DEF Creating, Creates, Writable, HasRow, CreatePc
    <3>5. \A q : ~Creates(r, q)
      BY <1>2, <3>1 DEF At, Creates
    <3>6. LateOK(call'[r])
      BY <3>2 DEF LateOK, LimitsPc, RecreatePc, StartPc
    <3>7. /\ \A q \in Proxy : Creating(q)' => Creating(q) \/ \E s \in Req : Creates(s, q)'
          /\ \A q \in Proxy : Creating(q)' /\ Creating(q) => rows'[q].port = rows[q].port
      BY <3>3, <3>4 DEF Creating, HasRow
    <3> QED
      BY <1>3, <3>2, <3>5, <3>6, <3>7
  <2>2. CASE PostDelete(r) \/ PostRecreate(r) \/ PostRemoveOrphan(r) \/ PostLimits(r)
    <3>1. UNCHANGED rows /\ call[r].pc = "idle" /\ \E k : call' = [call EXCEPT ![r] = k]
      BY <2>2 DEF PostDelete, PostRecreate, PostRemoveOrphan, PostLimits, DeleteBegin,
             RecreateBegin, OrphanBegin, LimitsBegin, At
    <3>2. LateOK(call'[r])
      <4>1. CASE PostDelete(r) \/ PostRemoveOrphan(r)
        <5>1. call'[r].pc \in {"deleteCtr", "orphanCheck"}
          BY <1>1, <4>1 DEF PostDelete, PostRemoveOrphan, DeleteBegin, OrphanBegin, Idle
        <5> QED
          BY <5>1 DEF LateOK, LimitsPc, RecreatePc, StartPc
      <4>2. CASE PostRecreate(r)
        <5>1. PICK id \in Proxy : HasRow(id) /\ call'[r].p = [rows[id] EXCEPT !.state = "recreating"]
          BY <1>1, <4>2 DEF PostRecreate, RecreateBegin, Idle
        <5>2. call'[r].p.state # "creating"
          BY <1>1, <5>1 DEF HasRow, Row
        <5> QED
          BY <5>2 DEF LateOK
      <4>3. CASE PostLimits(r)
        <5>1. PICK id \in Proxy, limits \in Limits :
                /\ HasRow(id) /\ "limits" \in Ops
                /\ call'[r].p = [rows[id] EXCEPT !.limits = limits]
          BY <1>1, <4>3 DEF PostLimits, LimitsBegin, Idle
        <5>2. ~Creating(id)
          BY <1>2, <3>1, <5>1 DEF CreatingInv, Creates, OneAtATime, CreatingFaultless
        <5>3. call'[r].p.state # "creating"
          BY <1>1, <5>1, <5>2 DEF Creating, HasRow, Row
        <5> QED
          BY <5>3 DEF LateOK
      <4> QED
        BY <2>2, <4>1, <4>2, <4>3
    <3> QED
      BY <1>1, <1>4, <3>1, <3>2
  <2> QED
    BY <1>6, <2>1, <2>2 DEF Begin
<1>7. CASE ReconcileList \/ Serve
  BY <1>4, <1>7 DEF ReconcileList, Serve
<1>8. ASSUME NEW id \in Proxy, ReconcileAdopt(id) PROVE CreatingInv'
  <2>1. \A q \in Proxy : ~Creating(q)
    BY <1>1, <1>2, <1>8 DEF CreatingInv, Creates, ReconcileAdopt, InTurn, IInv, BootOK
  <2>2. UNCHANGED call /\ UpdateProxy(id, [rows[id] EXCEPT !.cid = seen[id]])
    BY <1>8 DEF ReconcileAdopt, CreatingFaultless
  <2>3. HasRow(id) => [rows[id] EXCEPT !.cid = seen[id]].state = rows[id].state
    BY <1>1 DEF HasRow, Row
  <2>4. \A q \in Proxy : rows'[q] = rows[q] \/ (HasRow(q) /\ rows'[q].state = rows[q].state)
    BY <1>1, <2>2, <2>3 DEF UpdateProxy, UpdateAccepted
  <2>5. \A q \in Proxy : ~Creating(q)'
    BY <2>1, <2>4 DEF Creating, HasRow
  <2> QED
    BY <2>2, <2>5 DEF CreatingInv
<1>9. ASSUME NEW id \in Proxy, ReconcileAbandon(id) \/ ReconcileRebuild(id)
      PROVE  CreatingInv'
  <2>1. /\ \E k : call' = [call EXCEPT ![Boot] = k]
        /\ call'[Boot].pc = "abandonDir" \/ call'[Boot].p.state # "creating"
    BY <1>1, <1>9 DEF ReconcileAbandon, ReconcileRebuild, Idle
  <2>2. UNCHANGED rows /\ call[Boot].pc = "idle"
    BY <1>9 DEF ReconcileAbandon, ReconcileRebuild, InTurn, At
  <2>3. LateOK(call'[Boot])
    BY <2>1 DEF LateOK, LimitsPc, RecreatePc, StartPc
  <2> QED
    BY <1>1, <1>4, <2>1, <2>2, <2>3
<1>10. CASE Environment \/ UNCHANGED vars
  BY <1>4, <1>10 DEF Environment, Crash, Vanish, Restart, CreatingFaultless, vars
<1> QED
  BY <1>5, <1>6, <1>7, <1>8, <1>9, <1>10 DEF Next, Acts, Reconcile

\* A row that says creating belongs to a Create that is still under way and has
\* the row's port in its hands (Create, Recreate, startContainer, Reconcile):
\* with SagasEnd, that Create settles it.
THEOREM CreatingIsUnderway ==
    ASSUME CreatingFaultless
    PROVE  Spec => [](\A id \in Proxy : Creating(id) => \E r \in Req : Creates(r, id))
<1>1. Init => CreatingInv
  BY DEF Init, StoreInit, CreatingInv, Creating, HasRow, Idle, LimitsPc, RecreatePc, StartPc
<1>2. Ground /\ Ground' /\ CreatingInv /\ [Next]_vars => CreatingInv'
  BY NextCreating DEF Ground
<1>3. CreatingInv => \A id \in Proxy : Creating(id) => \E r \in Req : Creates(r, id)
  BY DEF CreatingInv
<1> QED
  BY <1>1, <1>2, <1>3, Grounded, PTL DEF Spec
=============================================================================
