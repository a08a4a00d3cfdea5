-------------------------- MODULE ProxyServiceProofs -------------------------
(***************************************************************************)
(* Proofs about ProxyService for every value of its constants: any number  *)
(* of proxies, containers, ports and concurrent handlers, every set of     *)
(* faults.                                                                 *)
(***************************************************************************)
EXTENDS ProxyServiceInv, TLAPS

\* Containers are only ever added, and keep the proxy they were created for.
CtrGrows ==
    \A c \in Cid : ctr[c] # Nil => ctr'[c] # Nil /\ ctr'[c].pid = ctr[c].pid

\* A proxy that had a row and has none never has one again.
RowsShrink == \A id \in issued : ~HasRow(id) => ~HasRow(id)'

-----------------------------------------------------------------------------
(* What the Docker operations do to the containers.                        *)

\* docker create adds one container, for the proxy asked for (Runtime.Create).
LEMMA CreateContainerStep ==
    ASSUME DockerTypeOK, NEW id \in Proxy, NEW port \in Port, NEW c \in Cid,
           CreateContainer(id, port, c)
    PROVE  /\ ctr' \in [Cid -> Container \cup {Nil}]
           /\ CtrGrows
           /\ ctr'[c] # Nil /\ ctr'[c].pid = id
           /\ \A d \in Cid : ctr'[d] # Nil => ctr[d] # Nil \/ ctr'[d].pid = id
           /\ \A d \in Cid : Live(d) => Live(d)'
<1>1. [status |-> "created", pid |-> id, port |-> port, loaded |-> Nil] \in Container
  BY DEF Container
<1> QED
  BY <1>1, NilAssumption DEF DockerTypeOK, CreateContainer, CtrGrows, Owned, Live, Container

\* docker start changes neither the containers there are nor their labels.
LEMMA StartContainerStep ==
    ASSUME DockerTypeOK, NEW c \in Cid \cup {Nil}, StartContainer(c)
    PROVE  /\ ctr' \in [Cid -> Container \cup {Nil}]
           /\ CtrGrows
           /\ \A d \in Cid : ctr'[d] # Nil => ctr[d] # Nil
           /\ \A d \in Cid : Live(d) => Live(d)'
<1>1. CASE c \notin Cid
  BY <1>1 DEF DockerTypeOK, StartContainer, CtrGrows, Live
<1>2. CASE c \in Cid
  <2>1. ctr[c] \in Container
    BY <1>2 DEF DockerTypeOK, StartContainer, Live
  <2>2. ReadConfig(ctr[c].pid) \in Config \cup {Nil}
    BY <2>1 DEF DockerTypeOK, ReadConfig, Container
  <2>3. [ctr[c] EXCEPT !.status = "running", !.loaded = ReadConfig(ctr[c].pid)] \in Container
    BY <2>1, <2>2 DEF Container
  <2>4. ctr' = [ctr EXCEPT ![c] = [ctr[c] EXCEPT !.status = "running",
                                                 !.loaded = ReadConfig(ctr[c].pid)]]
    BY <1>2, <2>1 DEF StartContainer, DockerTypeOK, Container
  <2> QED
    BY <1>2, <2>1, <2>3, <2>4, NilAssumption DEF DockerTypeOK, CtrGrows, Live, Container
<1> QED
  BY <1>1, <1>2

\* docker rm ends the life of at most the container named.
LEMMA RemoveContainerStep ==
    ASSUME DockerTypeOK, NEW c \in Cid \cup {Nil}, RemoveContainer(c)
    PROVE  /\ ctr' \in [Cid -> Container \cup {Nil}]
           /\ CtrGrows
           /\ \A d \in Cid : ctr'[d] # Nil => ctr[d] # Nil
           /\ \A d \in Cid : Live(d) /\ ~Live(d)' => d = c
<1>1. CASE ~(c # Nil /\ Live(c))
  BY <1>1 DEF DockerTypeOK, RemoveContainer, CtrGrows, Live
<1>2. CASE c # Nil /\ Live(c)
  <2>1. c \in Cid /\ ctr[c] \in Container
    BY <1>2 DEF DockerTypeOK, Live
  <2>2. [ctr[c] EXCEPT !.status = "removed", !.loaded = Nil] \in Container
    BY <2>1 DEF Container
  <2>3. ctr' = [ctr EXCEPT ![c] = [ctr[c] EXCEPT !.status = "removed", !.loaded = Nil]]
    BY <1>2, <2>1 DEF RemoveContainer, DockerTypeOK, Container
  <2> QED
    BY <2>1, <2>2, <2>3, NilAssumption DEF DockerTypeOK, CtrGrows, Live, Container
<1> QED
  BY <1>1, <1>2

\* A PATCH changes what a running container has loaded, and its config.toml.
LEMMA PatchUserStep ==
    ASSUME DockerTypeOK, NEW c \in Cid, NEW limits \in Limits, PatchUser(c, limits)
    PROVE  /\ DockerTypeOK'
           /\ CtrGrows
           /\ \A d \in Cid : ctr'[d] # Nil => ctr[d] # Nil
           /\ \A d \in Cid : Live(d) => Live(d)'
<1>1. ctr[c] \in Container /\ ctr[c].loaded \in Config
  BY DEF DockerTypeOK, PatchUser, Healthy, Live, Container
<1> DEFINE patched == [ctr[c].loaded EXCEPT !.limits = limits]
<1>2. patched \in Config
  BY <1>1 DEF Config
<1>3. ctr' = [ctr EXCEPT ![c] = [ctr[c] EXCEPT !.loaded = patched]]
  BY <1>1 DEF PatchUser, DockerTypeOK, Container
<1>4. [ctr[c] EXCEPT !.loaded = patched] \in Container
  BY <1>1, <1>2 DEF Container
<1>5. ctr' \in [Cid -> Container \cup {Nil}] /\ CtrGrows
      /\ (\A d \in Cid : ctr'[d] # Nil => ctr[d] # Nil)
      /\ (\A d \in Cid : Live(d) => Live(d)')
  BY <1>1, <1>3, <1>4, NilAssumption DEF DockerTypeOK, CtrGrows, Live, Container
<1>6. cfg' \in [Proxy -> Config \cup {EmptyDir, Nil}]
  <2> DEFINE id == ctr[c].pid
  <2>1. CASE cfg[id] \in Config
    <3>1. [cfg[id] EXCEPT !.limits = limits] \in Config
      BY <2>1 DEF Config
    <3> QED
      BY <2>1, <3>1, <1>1 DEF PatchUser, DockerTypeOK, Container
  <2>2. CASE cfg[id] \notin Config
    BY <2>2 DEF PatchUser, DockerTypeOK
  <2> QED
    BY <2>1, <2>2
<1> QED
  BY <1>5, <1>6 DEF DockerTypeOK

\* Writing config.toml, or failing to, leaves a directory the types allow.
LEMMA WriteConfigStep ==
    ASSUME DockerTypeOK, NEW id \in Proxy, NEW p \in Row,
           WriteConfig(id, p) \/ WriteConfigFails(id, p)
    PROVE  cfg' \in [Proxy -> Config \cup {EmptyDir, Nil}]
<1>1. SpecOf(p) \in Config
  BY DEF SpecOf, Config, Row
<1> QED
  BY <1>1 DEF DockerTypeOK, WriteConfig, WriteConfigFails

-----------------------------------------------------------------------------
(* What the statements of the store do to the rows.                        *)

\* A row that is rewritten stays, whatever copy is written, and keeps naming a
\* container of its own (UpdateProxy).
LEMMA UpdateProxyStep ==
    ASSUME IInv, CtrGrows, UNCHANGED issued, NEW id \in issued, NEW p \in Row,
           p.cid # Nil => Owned(p.cid, id), UpdateProxy(id, p)
    PROVE  StoreTypeOK' /\ RowsOK' /\ RowsShrink /\ Listed \subseteq Listed'
<1>1. id \in Proxy /\ p # Nil
  BY NilAssumption DEF IInv, TypeOK, StoreTypeOK
<1>2. StoreTypeOK'
  BY <1>1 DEF IInv, TypeOK, StoreTypeOK, UpdateProxy
<1>3. RowsShrink /\ Listed \subseteq Listed'
  BY <1>1 DEF IInv, TypeOK, StoreTypeOK, UpdateProxy, UpdateAccepted, RowsShrink,
              HasRow, Listed
<1>4. RowsOK'
  BY <1>1, <1>2 DEF IInv, TypeOK, StoreTypeOK, UpdateProxy, UpdateAccepted, RowsOK,
              HasRow, CtrGrows, Owned
<1> QED
  BY <1>2, <1>3, <1>4

\* A deleted row is gone and nothing else changes (DeleteProxy).
LEMMA DeleteProxyStep ==
    ASSUME IInv, CtrGrows, UNCHANGED issued, NEW id \in Proxy, DeleteProxy(id)
    PROVE  StoreTypeOK' /\ RowsOK' /\ RowsShrink /\ Listed \ {id} \subseteq Listed'
<1>1. StoreTypeOK'
  BY DEF IInv, TypeOK, StoreTypeOK, DeleteProxy
<1>2. RowsShrink /\ Listed \ {id} \subseteq Listed'
  BY DEF IInv, TypeOK, StoreTypeOK, DeleteProxy, RowsShrink, HasRow, Listed
<1>3. RowsOK'
  BY DEF IInv, TypeOK, StoreTypeOK, DeleteProxy, RowsOK, HasRow, CtrGrows, Owned
<1> QED
  BY <1>1, <1>2, <1>3

\* Steps that leave the rows alone.
LEMMA SameRows ==
    ASSUME IInv, CtrGrows, UNCHANGED <<rows, issued>>
    PROVE  StoreTypeOK' /\ RowsOK' /\ RowsShrink /\ Listed \subseteq Listed'
<1>1. StoreTypeOK' /\ RowsShrink /\ Listed \subseteq Listed'
  BY DEF IInv, TypeOK, StoreTypeOK, RowsShrink, HasRow, Listed
<1>2. RowsOK'
  BY DEF IInv, TypeOK, StoreTypeOK, RowsOK, HasRow, CtrGrows, Owned
<1> QED
  BY <1>1, <1>2

\* Steps that leave the containers alone.
LEMMA SameContainers ==
    ASSUME DockerTypeOK, UNCHANGED ctr
    PROVE  /\ ctr' \in [Cid -> Container \cup {Nil}]
           /\ CtrGrows
           /\ \A d \in Cid : ctr'[d] # Nil => ctr[d] # Nil
           /\ \A d \in Cid : Live(d) => Live(d)'
BY DEF DockerTypeOK, CtrGrows, Live

-----------------------------------------------------------------------------
(* The local variables of the handlers.                                    *)

\* What a handler holds stays right while others act: containers keep their
\* labels, and a proxy it found without a row never gets one.
LEMMA LocalsKept ==
    ASSUME IInv, CtrGrows, RowsShrink, issued \subseteq issued'
    PROVE  \A k \in Call : LocalsOK(k) => LocalsOK(k)'
<1> SUFFICES ASSUME NEW k \in Call, LocalsOK(k)
             PROVE  LocalsOK(k)'
  OBVIOUS
<1>1. \A c, id : Owned(c, id) => Owned(c, id)'
  BY DEF CtrGrows, Owned
<1>2. k.pc \in OrphanPc =>
        /\ k.cid \in Cid /\ ctr'[k.cid] # Nil
        /\ ctr'[k.cid].pid = ctr[k.cid].pid
        /\ ctr[k.cid].pid \in issued
  BY DEF LocalsOK, CtrGrows, IInv, LabelsIssued
<1>3. k.pc \in OrphanPc /\ ctr'[k.cid].pid \notin k.known => ~HasRow(ctr[k.cid].pid)'
  BY <1>2 DEF LocalsOK, RowsShrink, HasRow
<1>4. k.pc = "orphanRemove" => k.pc \in OrphanPc
  BY DEF OrphanPc
<1> QED
  BY <1>1, <1>2, <1>3, <1>4 DEF LocalsOK

\* Handler r stands at pc now, with p as its copy of the row.
Moved(r, pc, p) ==
    /\ call' = [call EXCEPT ![r] = call'[r]]
    /\ call'[r] \in Call
    /\ call'[r].pc = pc /\ call'[r].p = p /\ call'[r].id = call[r].id
    /\ call'[r].want = call[r].want /\ call'[r].cid = call[r].cid
    /\ call'[r].known = call[r].known

\* A handler that only moves on keeps all its other variables.
LEMMA GotoMoves ==
    ASSUME IInv, NEW r \in Req \cup {Boot}, NEW pc \in Pc, Goto(r, pc)
    PROVE  Moved(r, pc, call[r].p)
<1> DEFINE k == call[r]
           x == call'[r]
<1>1. k \in Call /\ x = [k EXCEPT !.pc = pc] /\ call' = [call EXCEPT ![r] = x]
  BY DEF IInv, TypeOK, Goto
<1> HIDE DEF k, x
<1>2. /\ x.pc = pc /\ x.p = k.p /\ x.id = k.id /\ x.want = k.want /\ x.cid = k.cid
      /\ x.known = k.known
  BY <1>1 DEF Call
<1>3. x \in Call
  BY <1>1 DEF Call
<1> QED
  BY <1>1, <1>2, <1>3 DEF Moved, k, x

\* A handler that moves on with a new copy of its row keeps the rest.
LEMMA GotoWithMoves ==
    ASSUME IInv, NEW r \in Req \cup {Boot}, NEW pc \in Pc, NEW p \in Row \cup {Nil},
           GotoWith(r, pc, p)
    PROVE  Moved(r, pc, p)
<1> DEFINE k == call[r]
           x == call'[r]
<1>1. k \in Call /\ x = [k EXCEPT !.pc = pc, !.p = p] /\ call' = [call EXCEPT ![r] = x]
  BY DEF IInv, TypeOK, GotoWith, Call
<1> HIDE DEF k, x
<1>2. /\ x.pc = pc /\ x.p = p /\ x.id = k.id /\ x.want = k.want /\ x.cid = k.cid
      /\ x.known = k.known
  BY <1>1 DEF Call
<1>3. x \in Call
  BY <1>1 DEF Call
<1> QED
  BY <1>1, <1>2, <1>3 DEF Moved, k, x

\* A handler that moves on with the same request keeps its variables right if
\* its copy of the row does.
LEMMA Advance ==
    ASSUME IInv, CtrGrows, RowsShrink, issued \subseteq issued',
           NEW r \in Req \cup {Boot},
           NEW pc \in RowPc \cup DeletePc \cup AbandonPc, NEW p, Moved(r, pc, p),
           call[r].pc \notin OrphanPc \cup {"idle"},
           pc \in RowPc => p # Nil,
           pc \in RecreatePc => call[r].pc \in RecreatePc,
           p # Nil /\ p.cid # Nil =>
               p.cid \in Cid /\ ctr'[p.cid] # Nil /\ ctr'[p.cid].pid = call[r].id
    PROVE  LocalsOK(call[r])'
<1>1. call[r] \in Call /\ LocalsOK(call[r])
  BY DEF IInv, TypeOK
<1>2. pc \notin OrphanPc \cup {"idle"} /\ pc # "orphanRemove"
  BY DEF RowPc, CreatePc, LimitsPc, RecreatePc, StartPc, DeletePc, AbandonPc, OrphanPc
<1>3. call[r].cid # Nil => Owned(call[r].cid, call[r].id)
                           /\ ctr'[call[r].cid] # Nil
                           /\ ctr'[call[r].cid].pid = call[r].id
  BY <1>1 DEF LocalsOK, CtrGrows, Owned
<1>4. call[r].id # Nil /\ call[r].id \in issued'
  BY <1>1 DEF LocalsOK
<1> QED
  BY <1>1, <1>2, <1>3, <1>4 DEF LocalsOK, Owned, Moved

\* A handler that returns.
LEMMA Ended ==
    ASSUME IInv, NEW r \in Req \cup {Boot}, Return(r)
    PROVE  /\ LocalsOK(call[r])' /\ call' = [call EXCEPT ![r] = call'[r]]
           /\ call'[r] = Idle
<1>1. Idle \in Call /\ Idle.pc = "idle" /\ Idle.p = Nil /\ Idle.cid = Nil /\ Idle.id = Nil
  BY DEF Idle, Call, Pc
<1>2. call'[r] = Idle
  BY DEF Return, IInv, TypeOK
<1> QED
  BY <1>1, <1>2 DEF Return, LocalsOK, RowPc, CreatePc, LimitsPc, RecreatePc, StartPc, OrphanPc

\* One step of one handler keeps the invariant if it keeps each store right
\* and leaves the handler itself right.
LEMMA HandlerStep ==
    ASSUME IInv, NEW r \in Req \cup {Boot},
           call' = [call EXCEPT ![r] = call'[r]], LocalsOK(call[r])',
           StoreTypeOK', DockerTypeOK', acked' \subseteq Proxy,
           RowsOK', CtrGrows, RowsShrink, issued \subseteq issued',
           \A d \in Cid : ctr'[d] # Nil => ctr[d] # Nil \/ ctr'[d].pid \in issued,
           UNCHANGED <<mode, todo, seen>>,
           todo \subseteq Listed',
           \/ r \in Req /\ mode = "serving"
           \/ /\ r = Boot /\ mode = "reconciling"
              /\ call'[Boot].pc \in {"idle"} \cup StartPc \cup AbandonPc
              /\ call'[Boot].id \notin todo
              /\ call'[Boot].pc = "idle" => call'[Boot] = Idle
    PROVE  IInv'
<1>1. call' \in [Req \cup {Boot} -> Call]
  BY DEF IInv, TypeOK, LocalsOK
<1>2. TypeOK'
  BY <1>1 DEF IInv, TypeOK, StoreTypeOK
<1>3. LabelsIssued'
  BY DEF IInv, LabelsIssued, CtrGrows
<1>4. \A q \in Req \cup {Boot} : LocalsOK(call[q])'
  <2> SUFFICES ASSUME NEW q \in Req \cup {Boot}, q # r
               PROVE  LocalsOK(call[q])'
    OBVIOUS
  <2>1. call'[q] = call[q] /\ call[q] \in Call /\ LocalsOK(call[q])
    BY DEF IInv, TypeOK
  <2> QED
    BY <2>1, LocalsKept DEF LocalsOK, Owned, HasRow
<1>5. BootOK'
  <2>1. \A id \in Proxy : seen'[id] # Nil => Owned(seen[id], id)'
    BY DEF IInv, BootOK, Owned, CtrGrows
  <2>2. CASE r \in Req /\ mode = "serving"
    <3>1. call'[Boot] = call[Boot] /\ call[Boot] = Idle /\ todo = {}
      BY <2>2, ServiceAssumption DEF IInv, BootOK, TypeOK
    <3> QED
      BY <2>1, <2>2, <3>1 DEF IInv, BootOK, Idle
  <2>3. CASE r = Boot /\ mode = "reconciling"
             /\ call'[Boot].pc \in {"idle"} \cup StartPc \cup AbandonPc
             /\ call'[Boot].id \notin todo
             /\ (call'[Boot].pc = "idle" => call'[Boot] = Idle)
    <3>1. \A q \in Req : call'[q] = call[q]
      BY <2>3, ServiceAssumption DEF IInv, TypeOK
    <3> QED
      BY <2>1, <2>3, <3>1 DEF IInv, BootOK
  <2> QED
    BY <2>2, <2>3
<1> QED
  BY <1>2, <1>3, <1>4, <1>5 DEF IInv

\* Only a handler of a request under way, or Reconcile's own slot, has a step
\* to take: that is where HandlerStep's last hypothesis comes from.
LEMMA Turn ==
    ASSUME IInv, NEW r \in Req \cup {Boot}, call[r].pc # "idle"
    PROVE  /\ r \in Req => mode = "serving" /\ todo = {}
           /\ r = Boot => /\ mode = "reconciling"
                          /\ call[Boot].pc \in StartPc \cup AbandonPc
                          /\ call[Boot].id \notin todo
BY DEF IInv, BootOK, Idle

-----------------------------------------------------------------------------
(* What every step has to show.                                            *)

\* The step of RemovesOnlyItsOwn.
OwnRemoval ==
    call' # call =>
      \A c \in Cid :
        Live(c) /\ ~Live(c)' =>
          \E r \in Req :
            /\ call'[r] # call[r]
            /\ \/ call[r].id = ctr[c].pid
               \/ call[r].pc = "orphanRemove" /\ ~HasRow(ctr[c].pid)

StepOK == IInv' /\ RowsShrink /\ OwnRemoval

\* A step of a handler that touches containers or files but no row.
LEMMA OutsideStep ==
    ASSUME IInv, NEW r \in Req \cup {Boot}, call[r].pc # "idle" \/ (r \in Req /\ mode = "serving"),
           UNCHANGED <<rows, issued, acked, mode, todo, seen>>,
           cfg' \in [Proxy -> Config \cup {EmptyDir, Nil}],
           ctr' \in [Cid -> Container \cup {Nil}], CtrGrows,
           \A d \in Cid : ctr'[d] # Nil => ctr[d] # Nil \/ ctr'[d].pid \in issued,
           OwnRemoval,
           call' = [call EXCEPT ![r] = call'[r]], LocalsOK(call[r])',
           r = Boot => /\ call'[r].pc \in {"idle"} \cup StartPc \cup AbandonPc
                       /\ call'[r].id \in {Nil, call[r].id}
                       /\ call'[r].pc = "idle" => call'[r] = Idle
    PROVE  StepOK
<1>1. StoreTypeOK' /\ RowsOK' /\ RowsShrink /\ Listed \subseteq Listed'
  BY SameRows
<1>2. DockerTypeOK'
  BY DEF DockerTypeOK
<1>3. todo \subseteq Listed' /\ acked' \subseteq Proxy /\ Nil \notin todo
  BY <1>1, NilAssumption DEF IInv, BootOK, TypeOK
<1>4. Boot \notin Req
  BY ServiceAssumption
<1>5. \/ r \in Req /\ mode = "serving"
      \/ /\ r = Boot /\ mode = "reconciling"
         /\ call'[Boot].pc \in {"idle"} \cup StartPc \cup AbandonPc
         /\ call'[Boot].id \notin todo
         /\ call'[Boot].pc = "idle" => call'[Boot] = Idle
  BY <1>3, <1>4, Turn
<1>6. IInv'
  BY <1>1, <1>2, <1>3, <1>5, HandlerStep
<1> QED
  BY <1>1, <1>6 DEF StepOK

\* A step of a handler that touches a row.
LEMMA RowStep ==
    ASSUME IInv, NEW r \in Req \cup {Boot}, call[r].pc # "idle",
           UNCHANGED <<issued, ctr, cfg, mode, todo, seen>>, acked' \subseteq Proxy,
           StoreTypeOK', RowsOK', RowsShrink,
           Listed \ {call[r].id} \subseteq Listed',
           call' = [call EXCEPT ![r] = call'[r]], LocalsOK(call[r])',
           r = Boot => /\ call'[r].pc \in {"idle"} \cup StartPc \cup AbandonPc
                       /\ call'[r].id \in {Nil, call[r].id}
                       /\ call'[r].pc = "idle" => call'[r] = Idle
    PROVE  StepOK
<1>1. /\ DockerTypeOK' /\ CtrGrows
      /\ \A d \in Cid : ctr'[d] # Nil => ctr[d] # Nil
      /\ \A d \in Cid : Live(d) => Live(d)'
  BY SameContainers DEF IInv, TypeOK, DockerTypeOK
<1>2. OwnRemoval
  BY <1>1 DEF OwnRemoval
<1>3. Nil \notin todo /\ Boot \notin Req
  BY NilAssumption, ServiceAssumption DEF IInv, TypeOK
<1>4. todo \subseteq Listed'
  BY <1>3, Turn DEF IInv, BootOK
<1>5. \/ r \in Req /\ mode = "serving"
      \/ /\ r = Boot /\ mode = "reconciling"
         /\ call'[Boot].pc \in {"idle"} \cup StartPc \cup AbandonPc
         /\ call'[Boot].id \notin todo
         /\ call'[Boot].pc = "idle" => call'[Boot] = Idle
  BY <1>3, Turn
<1>6. IInv'
  BY <1>1, <1>4, <1>5, HandlerStep
<1> QED
  BY <1>2, <1>6 DEF StepOK

-----------------------------------------------------------------------------
(* The three ways a handler's step ends: it goes on, it goes on with a new *)
(* copy of its row, it returns.                                            *)

\* What a handler may rely on at its position.
LEMMA Locals ==
    ASSUME IInv, NEW r \in Req \cup {Boot}
    PROVE  /\ call[r] \in Call
           /\ call[r].pc \notin OrphanPc \cup {"idle"} =>
                 /\ call[r].id \in Proxy /\ call[r].id \in issued
                 /\ call[r].cid # Nil => Owned(call[r].cid, call[r].id)
           /\ call[r].pc \in RowPc =>
                 /\ call[r].p \in Row
                 /\ call[r].p.cid \in Cid \cup {Nil}
                 /\ call[r].p.cid # Nil => Owned(call[r].p.cid, call[r].id)
           /\ call[r].pc \in RecreatePc => call[r].want \in Config
           /\ call[r].cid \in Cid \cup {Nil}
<1>1. call[r] \in Call /\ LocalsOK(call[r])
  BY DEF IInv, TypeOK
<1>2. /\ call[r].id \in Proxy \cup {Nil} /\ call[r].p \in Row \cup {Nil}
      /\ call[r].want \in Config \cup {Nil} /\ call[r].cid \in Cid \cup {Nil}
  BY <1>1 DEF Call
<1>3. call[r].p # Nil => call[r].p.cid \in Cid \cup {Nil}
  BY <1>2 DEF Row
<1> QED
  BY <1>1, <1>2, <1>3 DEF LocalsOK

\* A handler that may go on to pc from where it stands.
MayGo(r, pc) ==
    /\ pc \in RowPc \cup DeletePc \cup AbandonPc
    /\ call[r].pc \notin OrphanPc \cup {"idle"}
    /\ pc \in RowPc => call[r].pc \in RowPc
    /\ pc \in RecreatePc => call[r].pc \in RecreatePc
    /\ r = Boot => pc \in StartPc \cup AbandonPc

\* The invariant of the local variables survives a move within one saga.
LEMMA GoOn ==
    ASSUME IInv, CtrGrows, RowsShrink, issued \subseteq issued',
           NEW r \in Req \cup {Boot}, NEW pc, MayGo(r, pc), Goto(r, pc)
    PROVE  /\ LocalsOK(call[r])' /\ call' = [call EXCEPT ![r] = call'[r]]
           /\ call'[r].pc = pc /\ call'[r].id = call[r].id
<1>1. pc \in Pc
  BY DEF MayGo, Pc, RowPc
<1>2. Moved(r, pc, call[r].p)
  BY <1>1, GotoMoves
<1>3. call[r] \in Call /\ LocalsOK(call[r])
  BY DEF IInv, TypeOK
<1>4. call[r].p # Nil /\ call[r].p.cid # Nil =>
        /\ call[r].p.cid \in Cid /\ ctr'[call[r].p.cid] # Nil
        /\ ctr'[call[r].p.cid].pid = call[r].id
  BY <1>3 DEF LocalsOK, Owned, CtrGrows
<1>5. pc \in RowPc => call[r].p # Nil
  BY <1>3 DEF MayGo, LocalsOK
<1> QED
  BY <1>2, <1>4, <1>5, Advance DEF MayGo, Moved

\* The same for a move with a new copy of the row, if the copy names a
\* container of the handler's own proxy.
LEMMA GoOnWith ==
    ASSUME IInv, CtrGrows, RowsShrink, issued \subseteq issued',
           NEW r \in Req \cup {Boot}, NEW pc, MayGo(r, pc),
           NEW p \in Row, GotoWith(r, pc, p),
           p.cid # Nil => p.cid \in Cid /\ ctr'[p.cid] # Nil /\ ctr'[p.cid].pid = call[r].id
    PROVE  /\ LocalsOK(call[r])' /\ call' = [call EXCEPT ![r] = call'[r]]
           /\ call'[r].pc = pc /\ call'[r].id = call[r].id
<1>1. pc \in Pc
  BY DEF MayGo, Pc, RowPc
<1>2. Moved(r, pc, p)
  BY <1>1, GotoWithMoves
<1> QED
  BY <1>2, NilAssumption, Advance DEF MayGo, Moved

\* Steps that touch containers or files.
OutsideEffect ==
    /\ UNCHANGED <<rows, issued, acked, mode, todo, seen>>
    /\ cfg' \in [Proxy -> Config \cup {EmptyDir, Nil}]
    /\ ctr' \in [Cid -> Container \cup {Nil}]
    /\ CtrGrows
    /\ \A d \in Cid : ctr'[d] # Nil => ctr[d] # Nil \/ ctr'[d].pid \in issued
    /\ OwnRemoval

\* Steps that touch rows.
RowEffect(r) ==
    /\ UNCHANGED <<issued, ctr, cfg, mode, todo, seen>>
    /\ acked' \subseteq Proxy
    /\ StoreTypeOK' /\ RowsOK' /\ RowsShrink
    /\ Listed \ {call[r].id} \subseteq Listed'

\* Steps that touch files at most.
LEMMA FilesOnly ==
    ASSUME IInv, UNCHANGED <<rows, issued, ctr, acked, mode, todo, seen>>,
           cfg' \in [Proxy -> Config \cup {EmptyDir, Nil}]
    PROVE  OutsideEffect
<1>1. /\ ctr' \in [Cid -> Container \cup {Nil}] /\ CtrGrows
      /\ \A d \in Cid : ctr'[d] # Nil => ctr[d] # Nil
      /\ \A d \in Cid : Live(d) => Live(d)'
  BY SameContainers DEF IInv, TypeOK
<1> QED
  BY <1>1 DEF OutsideEffect, OwnRemoval

\* A step that moves on keeps the invariant if its effect on the stores does.
LEMMA StepGoes ==
    ASSUME IInv, NEW r \in Req \cup {Boot}, OutsideEffect \/ RowEffect(r),
           NEW pc, MayGo(r, pc), Goto(r, pc)
    PROVE  StepOK
<1>1. CtrGrows /\ RowsShrink /\ issued \subseteq issued'
  BY SameRows, SameContainers DEF IInv, TypeOK, OutsideEffect, RowEffect
<1>2. /\ LocalsOK(call[r])' /\ call' = [call EXCEPT ![r] = call'[r]]
      /\ call'[r].pc = pc /\ call'[r].id = call[r].id
  BY <1>1, GoOn
<1>3. r = Boot => pc # "idle"
  BY DEF MayGo, StartPc, AbandonPc
<1> QED
  BY <1>1, <1>2, <1>3, OutsideStep, RowStep DEF OutsideEffect, RowEffect, MayGo

\* The same with a new copy of the row.
LEMMA StepGoesWith ==
    ASSUME IInv, NEW r \in Req \cup {Boot}, OutsideEffect \/ RowEffect(r),
           NEW pc, MayGo(r, pc), NEW p \in Row, GotoWith(r, pc, p),
           p.cid # Nil => p.cid \in Cid /\ ctr'[p.cid] # Nil /\ ctr'[p.cid].pid = call[r].id
    PROVE  StepOK
<1>1. CtrGrows /\ RowsShrink /\ issued \subseteq issued'
  BY SameRows, SameContainers DEF IInv, TypeOK, OutsideEffect, RowEffect
<1>2. /\ LocalsOK(call[r])' /\ call' = [call EXCEPT ![r] = call'[r]]
      /\ call'[r].pc = pc /\ call'[r].id = call[r].id
  BY <1>1, GoOnWith
<1>3. r = Boot => pc # "idle"
  BY DEF MayGo, StartPc, AbandonPc
<1> QED
  BY <1>1, <1>2, <1>3, OutsideStep, RowStep DEF OutsideEffect, RowEffect, MayGo

\* The same for a step with which the handler returns.
LEMMA StepReturns ==
    ASSUME IInv, NEW r \in Req \cup {Boot}, OutsideEffect \/ RowEffect(r),
           call[r].pc # "idle", Return(r)
    PROVE  StepOK
<1>1. /\ LocalsOK(call[r])' /\ call' = [call EXCEPT ![r] = call'[r]]
      /\ call'[r] = Idle
  BY Ended
<1>2. Idle.pc = "idle" /\ Idle.id = Nil
  BY DEF Idle
<1> QED
  BY <1>1, <1>2, OutsideStep, RowStep DEF OutsideEffect, RowEffect

-----------------------------------------------------------------------------
(* The effect of the Docker calls and of the commits as handlers make them *)

\* docker create in Create and startContainer.
LEMMA CreatesContainer ==
    ASSUME IInv, NEW r \in Req \cup {Boot}, call[r].pc \in CreatePc \cup StartPc,
           NEW c \in Cid, CreateContainer(call[r].id, call[r].p.port, c),
           UNCHANGED <<rows, issued, cfg, acked, mode, todo, seen>>
    PROVE  /\ OutsideEffect
           /\ ctr'[c] # Nil /\ ctr'[c].pid = call[r].id
<1>1. /\ call[r].id \in Proxy /\ call[r].id \in issued
      /\ call[r].p \in Row /\ call[r].p.port \in Port
  BY Locals DEF CreatePc, StartPc, OrphanPc, RowPc, Row
<1>2. DockerTypeOK
  BY DEF IInv, TypeOK
<1>3. /\ ctr' \in [Cid -> Container \cup {Nil}] /\ CtrGrows
      /\ ctr'[c] # Nil /\ ctr'[c].pid = call[r].id
      /\ \A d \in Cid : ctr'[d] # Nil => ctr[d] # Nil \/ ctr'[d].pid = call[r].id
      /\ \A d \in Cid : Live(d) => Live(d)'
  <2> DEFINE id == call[r].id
             port == call[r].p.port
  <2>1. id \in Proxy /\ port \in Port /\ CreateContainer(id, port, c)
    BY <1>1
  <2> HIDE DEF id, port
  <2>2. /\ ctr' \in [Cid -> Container \cup {Nil}] /\ CtrGrows
        /\ ctr'[c] # Nil /\ ctr'[c].pid = id
        /\ \A d \in Cid : ctr'[d] # Nil => ctr[d] # Nil \/ ctr'[d].pid = id
        /\ \A d \in Cid : Live(d) => Live(d)'
    BY <1>2, <2>1, CreateContainerStep
  <2> QED
    BY <2>2 DEF id
<1> QED
  BY <1>1, <1>2, <1>3 DEF OutsideEffect, OwnRemoval, DockerTypeOK

\* docker start in Create and startContainer.
LEMMA StartsContainer ==
    ASSUME IInv, NEW r \in Req \cup {Boot}, call[r].pc \in RowPc,
           StartContainer(call[r].p.cid),
           UNCHANGED <<rows, issued, cfg, acked, mode, todo, seen>>
    PROVE  OutsideEffect
<1>1. call[r].p.cid \in Cid \cup {Nil}
  BY Locals
<1>2. DockerTypeOK
  BY DEF IInv, TypeOK
<1>3. /\ ctr' \in [Cid -> Container \cup {Nil}] /\ CtrGrows
      /\ \A d \in Cid : ctr'[d] # Nil => ctr[d] # Nil
      /\ \A d \in Cid : Live(d) => Live(d)'
  BY <1>1, <1>2, StartContainerStep
<1> QED
  BY <1>2, <1>3 DEF OutsideEffect, OwnRemoval, DockerTypeOK

\* docker rm by a handler that moves on, of a container that is its own or
\* whose proxy has no row.
LEMMA RemovesContainer ==
    ASSUME IInv, NEW r \in Req, NEW c \in Cid \cup {Nil},
           RemoveContainer(c) \/ RemoveFails(c),
           call'[r] # call[r],
           c # Nil => \/ call[r].id = ctr[c].pid
                      \/ call[r].pc = "orphanRemove" /\ ~HasRow(ctr[c].pid),
           UNCHANGED <<rows, issued, cfg, acked, mode, todo, seen>>
    PROVE  OutsideEffect
<1>1. DockerTypeOK
  BY DEF IInv, TypeOK
<1>2. RemoveContainer(c) \/ UNCHANGED ctr
  BY DEF RemoveFails
<1>3. /\ ctr' \in [Cid -> Container \cup {Nil}] /\ CtrGrows
      /\ \A d \in Cid : ctr'[d] # Nil => ctr[d] # Nil
      /\ \A d \in Cid : Live(d) /\ ~Live(d)' => d = c
  BY <1>1, <1>2, RemoveContainerStep, SameContainers
<1>4. OwnRemoval
  BY <1>3, NilAssumption DEF OwnRemoval
<1> QED
  BY <1>1, <1>3, <1>4 DEF OutsideEffect, DockerTypeOK

\* A commit of a handler's copy of its row, or one the database refused.
LEMMA CommitsRow ==
    ASSUME IInv, NEW r \in Req \cup {Boot}, call[r].pc \in RowPc,
           NEW p \in Row, p.cid # Nil => Owned(p.cid, call[r].id),
           UpdateProxy(call[r].id, p) \/ UNCHANGED rows,
           UNCHANGED <<issued, ctr, cfg, mode, todo, seen>>, acked' \subseteq Proxy
    PROVE  RowEffect(r)
<1>1. CtrGrows
  BY SameContainers DEF IInv, TypeOK
<1>2. call[r].id \in issued
  BY Locals DEF RowPc, CreatePc, LimitsPc, RecreatePc, StartPc, OrphanPc
<1>3. StoreTypeOK' /\ RowsOK' /\ RowsShrink /\ Listed \subseteq Listed'
  <2>1. CASE UNCHANGED rows
    BY <1>1, <2>1, SameRows
  <2>2. CASE UpdateProxy(call[r].id, p)
    <3> DEFINE id == call[r].id
    <3>1. id \in issued /\ UpdateProxy(id, p) /\ (p.cid # Nil => Owned(p.cid, id))
      BY <1>2, <2>2
    <3> HIDE DEF id
    <3> QED
      BY <1>1, <3>1, UpdateProxyStep
  <2> QED
    BY <2>1, <2>2
<1> QED
  BY <1>3 DEF RowEffect

\* The removal of a handler's row, or one the database refused.
LEMMA DropsRow ==
    ASSUME IInv, NEW r \in Req \cup {Boot}, call[r].pc \notin OrphanPc \cup {"idle"},
           DeleteProxy(call[r].id) \/ UNCHANGED rows,
           UNCHANGED <<issued, ctr, cfg, mode, todo, seen, acked>>
    PROVE  RowEffect(r)
<1>1. CtrGrows
  BY SameContainers DEF IInv, TypeOK
<1>2. call[r].id \in Proxy /\ acked \subseteq Proxy
  BY Locals DEF IInv, TypeOK
<1>3. /\ StoreTypeOK' /\ RowsOK' /\ RowsShrink
      /\ Listed \ {call[r].id} \subseteq Listed'
  <2>1. CASE UNCHANGED rows
    BY <1>1, <2>1, SameRows
  <2>2. CASE DeleteProxy(call[r].id)
    <3> DEFINE id == call[r].id
    <3>1. id \in Proxy /\ DeleteProxy(id)
      BY <1>2, <2>2
    <3> HIDE DEF id
    <3>2. /\ StoreTypeOK' /\ RowsOK' /\ RowsShrink /\ Listed \ {id} \subseteq Listed'
      BY <1>1, <3>1, DeleteProxyStep
    <3> QED
      BY <3>2 DEF id
  <2> QED
    BY <2>1, <2>2
<1> QED
  BY <1>2, <1>3 DEF RowEffect

-----------------------------------------------------------------------------
(* The copies of a row the handlers make.                                  *)

\* Settling a copy of a row (running, or failed) keeps its container.
LEMMA SettledRow ==
    ASSUME NEW p \in Row, NEW state \in State, NEW msg \in Message
    PROVE  Settled(p, state, msg) \in Row /\ Settled(p, state, msg).cid = p.cid
BY DEF Settled, Row

\* A copy of a row may be given another container.
LEMMA RowWithContainer ==
    ASSUME NEW p \in Row, NEW c \in Cid \cup {Nil}
    PROVE  [p EXCEPT !.cid = c] \in Row /\ [p EXCEPT !.cid = c].cid = c
BY DEF Row

\* A copy of a row with another message names the same container.
LEMMA RowWithMessage ==
    ASSUME NEW p \in Row, NEW msg \in Message
    PROVE  [p EXCEPT !.msg = msg] \in Row /\ [p EXCEPT !.msg = msg].cid = p.cid
BY DEF Row

\* A handler's copy with another state or message names the same container.
LEMMA CopyOwned ==
    ASSUME IInv, CtrGrows, NEW r \in Req \cup {Boot}, call[r].pc \in RowPc
    PROVE  call[r].p.cid # Nil =>
             /\ call[r].p.cid \in Cid /\ ctr'[call[r].p.cid] # Nil
             /\ ctr'[call[r].p.cid].pid = call[r].id
BY Locals DEF Owned, CtrGrows

-----------------------------------------------------------------------------
(* Create.                                                                 *)

\* Every step of Create and of its unwinding.
LEMMA CreateOK ==
    ASSUME IInv, NEW r \in Req,
           \/ CreateWriteConfig(r) \/ CreateCreateContainer(r) \/ CreateStart(r)
           \/ UndoContainer(r) \/ UndoDir(r) \/ UndoRow(r)
    PROVE  StepOK
<1> USE DEF At, ServiceUnchanged
<1>1. r \in Req \cup {Boot} /\ r # Boot /\ IInv
  BY ServiceAssumption
<1>2. DockerTypeOK
  BY DEF IInv, TypeOK
<1>3. call[r].pc \in CreatePc
  BY DEF CreateWriteConfig, CreateCreateContainer, CreateStart, UndoContainer,
         UndoDir, UndoRow, CreatePc
<1>4. /\ call[r].pc \in RowPc /\ call[r].pc \notin OrphanPc \cup {"idle"}
      /\ call[r].pc \in CreatePc \cup StartPc
  BY <1>3 DEF RowPc, CreatePc, OrphanPc
<1>5. /\ call[r].id \in Proxy /\ call[r].p \in Row
      /\ call[r].p.cid \in Cid \cup {Nil}
      /\ call[r].p.cid # Nil => Owned(call[r].p.cid, call[r].id)
  BY <1>1, <1>4, Locals
<1>6. \A pc \in CreatePc : MayGo(r, pc)
  BY <1>1, <1>4 DEF MayGo, RowPc, RecreatePc, CreatePc
<1>7. /\ "createCtr" \in CreatePc /\ "undoRow" \in CreatePc /\ "createStart" \in CreatePc
      /\ "undoDir" \in CreatePc /\ "createWait" \in CreatePc /\ "undoCtr" \in CreatePc
  BY DEF CreatePc
<1>8. CASE CreateWriteConfig(r)
  <2>1. cfg' \in [Proxy -> Config \cup {EmptyDir, Nil}]
    BY <1>2, <1>5, <1>8, WriteConfigStep DEF CreateWriteConfig
  <2>2. OutsideEffect
    BY <1>8, <2>1, FilesOnly DEF CreateWriteConfig
  <2> QED
    BY <1>1, <1>6, <1>7, <1>8, <2>2, StepGoes DEF CreateWriteConfig
<1>9. CASE CreateCreateContainer(r)
  <2>1. CASE UNCHANGED ctr /\ Goto(r, "undoDir")
    <3>1. OutsideEffect
      BY <1>2, <1>9, <2>1, FilesOnly DEF CreateCreateContainer, DockerTypeOK
    <3> QED
      BY <1>1, <1>6, <1>7, <2>1, <3>1, StepGoes
  <2>2. CASE \E c \in Cid : /\ CreateContainer(call[r].id, call[r].p.port, c)
                            /\ \/ GotoWith(r, "createStart", [call[r].p EXCEPT !.cid = c])
                               \/ "lost" \in Faults /\ Goto(r, "undoDir")
    <3>1. PICK c \in Cid : /\ CreateContainer(call[r].id, call[r].p.port, c)
                           /\ \/ GotoWith(r, "createStart", [call[r].p EXCEPT !.cid = c])
                              \/ "lost" \in Faults /\ Goto(r, "undoDir")
      BY <2>2
    <3>2. OutsideEffect /\ ctr'[c] # Nil /\ ctr'[c].pid = call[r].id
      BY <1>1, <1>4, <1>9, <3>1, CreatesContainer DEF CreateCreateContainer
    <3>3. CASE Goto(r, "undoDir")
      BY <1>1, <1>6, <1>7, <3>2, <3>3, StepGoes
    <3>4. CASE GotoWith(r, "createStart", [call[r].p EXCEPT !.cid = c])
      <4> DEFINE p == [call[r].p EXCEPT !.cid = c]
      <4>1. p \in Row /\ p.cid = c /\ GotoWith(r, "createStart", p)
        BY <1>5, <3>4, RowWithContainer
      <4> HIDE DEF p
      <4> QED
        BY <1>1, <1>6, <1>7, <3>2, <4>1, StepGoesWith
    <3> QED
      BY <3>1, <3>3, <3>4
  <2> QED
    BY <1>9, <2>1, <2>2 DEF CreateCreateContainer
<1>10. CASE CreateStart(r)
  <2>1. OutsideEffect
    <3>1. CASE StartContainer(call[r].p.cid)
      BY <1>1, <1>4, <1>10, <3>1, StartsContainer DEF CreateStart
    <3>2. CASE UNCHANGED ctr
      BY <1>2, <1>10, <3>2, FilesOnly DEF CreateStart, DockerTypeOK
    <3> QED
      BY <1>10, <3>1, <3>2 DEF CreateStart
  <2> QED
    BY <1>1, <1>6, <1>7, <1>10, <2>1, StepGoes DEF CreateStart
<1>11. CASE UndoContainer(r)
  <2>1. Goto(r, "undoDir") /\ call[r].pc = "undoCtr"
    BY <1>11 DEF UndoContainer
  <2>2. call'[r] # call[r]
    BY <1>1, <2>1, GotoMoves DEF Moved, Pc, CreatePc
  <2>3. OutsideEffect
    <3>1. CASE RemoveContainer(call[r].p.cid)
      BY <1>5, <1>11, <2>2, <3>1, RemovesContainer DEF UndoContainer, Owned
    <3>2. CASE UNCHANGED ctr
      BY <1>2, <1>11, <3>2, FilesOnly DEF UndoContainer, DockerTypeOK
    <3> QED
      BY <1>11, <3>1, <3>2 DEF UndoContainer
  <2> QED
    BY <1>1, <1>6, <1>7, <2>1, <2>3, StepGoes
<1>12. CASE UndoDir(r)
  <2>1. cfg' \in [Proxy -> Config \cup {EmptyDir, Nil}]
    BY <1>2, <1>12 DEF UndoDir, DockerTypeOK
  <2>2. OutsideEffect
    BY <1>12, <2>1, FilesOnly DEF UndoDir
  <2> QED
    BY <1>1, <1>6, <1>7, <1>12, <2>2, StepGoes DEF UndoDir
<1>13. CASE UndoRow(r)
  <2>1. RowEffect(r)
    BY <1>1, <1>4, <1>13, DropsRow DEF UndoRow
  <2> QED
    BY <1>1, <1>4, <1>13, <2>1, StepReturns DEF UndoRow
<1> QED
  BY <1>8, <1>9, <1>10, <1>11, <1>12, <1>13

-----------------------------------------------------------------------------
(* Delete, UpdateLimits, Recreate.                                         *)

\* Every step of Delete.
LEMMA DeleteOK ==
    ASSUME IInv, NEW r \in Req, DeleteContainer(r) \/ DeleteDir(r) \/ DeleteRow(r)
    PROVE  StepOK
<1> USE DEF At, ServiceUnchanged
<1>1. r \in Req \cup {Boot} /\ r # Boot
  BY ServiceAssumption
<1>2. DockerTypeOK
  BY DEF IInv, TypeOK
<1>3. /\ call[r].pc \in DeletePc /\ call[r].pc \notin OrphanPc \cup {"idle"}
      /\ call[r].pc # "idle"
  BY DEF DeleteContainer, DeleteDir, DeleteRow, DeletePc, OrphanPc
<1>4. /\ call[r].id \in Proxy /\ call[r].cid \in Cid \cup {Nil}
      /\ call[r].cid # Nil => Owned(call[r].cid, call[r].id)
  BY <1>1, <1>3, Locals
<1>5. MayGo(r, "deleteDir") /\ MayGo(r, "deleteRow")
  BY <1>1, <1>3 DEF MayGo, RowPc, CreatePc, LimitsPc, RecreatePc, StartPc, DeletePc
<1>6. CASE DeleteContainer(r)
  <2>1. \/ Goto(r, "deleteDir")
        \/ Return(r)
    BY <1>6 DEF DeleteContainer
  <2>2. call'[r] # call[r]
    <3>1. Goto(r, "deleteDir") => call'[r].pc = "deleteDir"
      BY <1>1, GotoMoves DEF Moved, Pc, DeletePc
    <3>2. Return(r) => call'[r].pc = "idle"
      BY <1>1, Ended DEF Idle
    <3> QED
      BY <1>6, <2>1, <3>1, <3>2 DEF DeleteContainer
  <2>3. OutsideEffect
    BY <1>4, <1>6, <2>2, RemovesContainer DEF DeleteContainer, Owned
  <2> QED
    BY <1>1, <1>3, <1>5, <2>1, <2>3, StepGoes, StepReturns
<1>7. CASE DeleteDir(r)
  <2>1. cfg' \in [Proxy -> Config \cup {EmptyDir, Nil}]
    BY <1>2, <1>7 DEF DeleteDir, DockerTypeOK
  <2>2. OutsideEffect
    BY <1>7, <2>1, FilesOnly DEF DeleteDir
  <2> QED
    BY <1>1, <1>3, <1>5, <1>7, <2>2, StepGoes, StepReturns DEF DeleteDir
<1>8. CASE DeleteRow(r)
  <2>1. RowEffect(r)
    BY <1>1, <1>3, <1>8, DropsRow DEF DeleteRow
  <2> QED
    BY <1>1, <1>3, <1>8, <2>1, StepReturns DEF DeleteRow
<1> QED
  BY <1>6, <1>7, <1>8

\* UpdateLimits, up to its commit.
LEMMA LimitsOK ==
    ASSUME IInv, NEW r \in Req, LimitsWriteConfig(r) \/ LimitsPatch(r)
    PROVE  StepOK
<1> USE DEF At, ServiceUnchanged
<1>1. r \in Req \cup {Boot} /\ r # Boot
  BY ServiceAssumption
<1>2. DockerTypeOK
  BY DEF IInv, TypeOK
<1>3. /\ call[r].pc \in LimitsPc /\ call[r].pc \in RowPc
      /\ call[r].pc \notin OrphanPc \cup {"idle"} /\ call[r].pc # "idle"
  BY DEF LimitsWriteConfig, LimitsPatch, LimitsPc, RowPc, OrphanPc
<1>4. /\ call[r].id \in Proxy /\ call[r].p \in Row
      /\ call[r].p.cid \in Cid \cup {Nil} /\ call[r].p.limits \in Limits
  BY <1>1, <1>3, Locals DEF Row
<1>5. MayGo(r, "limitsPatch") /\ MayGo(r, "limitsCommit")
  BY <1>1, <1>3 DEF MayGo, RowPc, LimitsPc, RecreatePc
<1>6. CASE LimitsWriteConfig(r)
  <2>1. cfg' \in [Proxy -> Config \cup {EmptyDir, Nil}]
    BY <1>2, <1>4, <1>6, WriteConfigStep DEF LimitsWriteConfig
  <2>2. OutsideEffect
    BY <1>6, <2>1, FilesOnly DEF LimitsWriteConfig
  <2>3. CASE Return(r)
    BY <1>1, <1>3, <2>2, <2>3, StepReturns
  <2>4. CASE GotoWith(r, "limitsPatch", [call[r].p EXCEPT !.msg = "none"])
    <3> DEFINE p == [call[r].p EXCEPT !.msg = "none"]
    <3>1. p \in Row /\ p.cid = call[r].p.cid /\ GotoWith(r, "limitsPatch", p)
      BY <1>4, <2>4, RowWithMessage DEF Message
    <3>2. p.cid # Nil => p.cid \in Cid /\ ctr'[p.cid] # Nil /\ ctr'[p.cid].pid = call[r].id
      BY <1>1, <1>3, <2>2, <3>1, CopyOwned DEF OutsideEffect
    <3> HIDE DEF p
    <3> QED
      BY <1>1, <1>5, <2>2, <3>1, <3>2, StepGoesWith
  <2> QED
    BY <1>6, <2>3, <2>4 DEF LimitsWriteConfig
<1>7. CASE LimitsPatch(r)
  <2> DEFINE p == [call[r].p EXCEPT !.msg = "unapplied"]
  <2>1. OutsideEffect
    <3>1. CASE UNCHANGED <<ctr, cfg>>
      BY <1>2, <1>7, <3>1, FilesOnly DEF LimitsPatch, DockerTypeOK
    <3>2. CASE call[r].p.cid # Nil /\ PatchUser(call[r].p.cid, call[r].p.limits)
      <4>1. /\ DockerTypeOK' /\ CtrGrows
            /\ \A d \in Cid : ctr'[d] # Nil => ctr[d] # Nil
            /\ \A d \in Cid : Live(d) => Live(d)'
        BY <1>2, <1>4, <3>2, PatchUserStep
      <4> QED
        BY <1>7, <4>1 DEF OutsideEffect, OwnRemoval, DockerTypeOK, LimitsPatch
    <3> QED
      BY <1>7, <3>1, <3>2 DEF LimitsPatch
  <2>2. p \in Row /\ p.cid = call[r].p.cid
    BY <1>4, RowWithMessage DEF Message
  <2>3. p.cid # Nil => p.cid \in Cid /\ ctr'[p.cid] # Nil /\ ctr'[p.cid].pid = call[r].id
    BY <1>1, <1>3, <2>1, <2>2, CopyOwned DEF OutsideEffect
  <2>4. Goto(r, "limitsCommit") \/ GotoWith(r, "limitsCommit", p)
    BY <1>7 DEF LimitsPatch
  <2> HIDE DEF p
  <2> QED
    BY <1>1, <1>5, <2>1, <2>2, <2>3, <2>4, StepGoes, StepGoesWith
<1> QED
  BY <1>6, <1>7

\* Recreate, up to startContainer.
LEMMA RecreateOK ==
    ASSUME IInv, NEW r \in Req,
           RecreateMark(r) \/ RecreateRemove(r) \/ RecreateCommit(r) \/ RecreateWriteConfig(r)
    PROVE  StepOK
<1> USE DEF At, ServiceUnchanged
<1>1. r \in Req \cup {Boot} /\ r # Boot /\ acked \subseteq Proxy
  BY ServiceAssumption DEF IInv, TypeOK
<1>2. DockerTypeOK
  BY DEF IInv, TypeOK
<1>3. /\ call[r].pc \in RecreatePc /\ call[r].pc \in RowPc
      /\ call[r].pc \notin OrphanPc \cup {"idle"} /\ call[r].pc # "idle"
  BY DEF RecreateMark, RecreateRemove, RecreateCommit, RecreateWriteConfig,
         RecreatePc, RowPc, OrphanPc
<1>4. /\ call[r].id \in Proxy /\ call[r].p \in Row /\ call[r].want \in Config
      /\ call[r].cid \in Cid \cup {Nil}
      /\ call[r].cid # Nil => Owned(call[r].cid, call[r].id)
      /\ call[r].p.cid # Nil => Owned(call[r].p.cid, call[r].id)
  BY <1>1, <1>3, Locals
<1>5. /\ MayGo(r, "recreateRemove") /\ MayGo(r, "recreateCommit")
      /\ MayGo(r, "recreateWrite") /\ MayGo(r, "startCtr")
  BY <1>1, <1>3 DEF MayGo, RowPc, StartPc, RecreatePc
<1>6. CASE RecreateMark(r)
  <2>1. RowEffect(r)
    BY <1>1, <1>3, <1>4, <1>6, CommitsRow DEF RecreateMark
  <2> QED
    BY <1>1, <1>3, <1>5, <1>6, <2>1, StepGoes, StepReturns DEF RecreateMark
<1>7. CASE RecreateRemove(r)
  <2>1. Goto(r, "recreateCommit") \/ Return(r)
    BY <1>7 DEF RecreateRemove
  <2>2. call'[r] # call[r]
    <3>1. Goto(r, "recreateCommit") => call'[r].pc = "recreateCommit"
      BY <1>1, GotoMoves DEF Moved, Pc, RecreatePc
    <3>2. Return(r) => call'[r].pc = "idle"
      BY <1>1, Ended DEF Idle
    <3> QED
      BY <1>7, <2>1, <3>1, <3>2 DEF RecreateRemove
  <2>3. OutsideEffect
    BY <1>4, <1>7, <2>2, RemovesContainer DEF RecreateRemove, Owned
  <2> QED
    BY <1>1, <1>3, <1>5, <2>1, <2>3, StepGoes, StepReturns
<1>8. CASE RecreateCommit(r)
  <2> DEFINE p == [call[r].p EXCEPT !.port = call[r].want.port,
                                    !.domain = call[r].want.domain, !.cid = Nil]
  <2>1. p \in Row /\ p.cid = Nil
    BY <1>4 DEF Row, Config
  <2>2. \/ UpdateProxy(call[r].id, p) /\ GotoWith(r, "recreateWrite", p)
        \/ UNCHANGED rows /\ Return(r)
    BY <1>8 DEF RecreateCommit
  <2> HIDE DEF p
  <2>3. RowEffect(r)
    BY <1>1, <1>3, <1>8, <2>1, <2>2, CommitsRow DEF RecreateCommit
  <2> QED
    BY <1>1, <1>3, <1>5, <2>1, <2>2, <2>3, StepGoesWith, StepReturns
<1>9. CASE RecreateWriteConfig(r)
  <2>1. cfg' \in [Proxy -> Config \cup {EmptyDir, Nil}]
    BY <1>2, <1>4, <1>9, WriteConfigStep DEF RecreateWriteConfig
  <2>2. OutsideEffect
    BY <1>9, <2>1, FilesOnly DEF RecreateWriteConfig
  <2> QED
    BY <1>1, <1>3, <1>5, <1>9, <2>2, StepGoes, StepReturns DEF RecreateWriteConfig
<1> QED
  BY <1>6, <1>7, <1>8, <1>9

-----------------------------------------------------------------------------
(* startContainer, the health wait and the terminal commits, in a handler  *)
(* or in Reconcile's slot.                                                 *)

\* startContainer, the health wait and the three terminal commits.
LEMMA FinishOK ==
    ASSUME IInv, NEW r \in Req \cup {Boot}, Finish(r)
    PROVE  StepOK
<1> USE DEF At, ServiceUnchanged
<1>1. acked \subseteq Proxy /\ DockerTypeOK
  BY DEF IInv, TypeOK
<1>2. /\ call[r].pc \in RowPc /\ call[r].pc \notin OrphanPc \cup {"idle"}
      /\ call[r].pc # "idle"
  BY DEF Finish, StartCreateContainer, StartStart, WaitHealthy, Commit,
         RowPc, CreatePc, StartPc, LimitsPc, OrphanPc
<1>3. /\ call[r].id \in Proxy /\ call[r].p \in Row
      /\ call[r].p.cid \in Cid \cup {Nil}
      /\ call[r].p.cid # Nil => Owned(call[r].p.cid, call[r].id)
  BY <1>2, Locals
<1>4. /\ MayGo(r, "startStart") /\ MayGo(r, "startWait") /\ MayGo(r, "startCommit")
      /\ r # Boot => MayGo(r, "createCommit")
  BY <1>2 DEF MayGo, RowPc, StartPc, RecreatePc, CreatePc
<1>5. r = Boot => call[r].pc # "createWait"
  BY Turn, <1>2 DEF StartPc, AbandonPc
<1> DEFINE failed == Settled(call[r].p, "error", "failed")
           running == Settled(call[r].p, "running", "none")
<1>6. /\ failed \in Row /\ failed.cid = call[r].p.cid
      /\ running \in Row /\ running.cid = call[r].p.cid
  BY <1>3, SettledRow DEF State, Message
<1> HIDE DEF failed, running
<1>7. ASSUME OutsideEffect
      PROVE  /\ failed.cid # Nil => /\ failed.cid \in Cid /\ ctr'[failed.cid] # Nil
                                    /\ ctr'[failed.cid].pid = call[r].id
             /\ running.cid # Nil => /\ running.cid \in Cid /\ ctr'[running.cid] # Nil
                                     /\ ctr'[running.cid].pid = call[r].id
  BY <1>2, <1>6, <1>7, CopyOwned DEF OutsideEffect
<1>8. CASE StartCreateContainer(r)
  <2>1. CASE UNCHANGED ctr /\ GotoWith(r, "startCommit", failed)
    <3>1. OutsideEffect
      BY <1>1, <1>8, <2>1, FilesOnly DEF StartCreateContainer, DockerTypeOK
    <3> QED
      BY <1>4, <1>6, <1>7, <2>1, <3>1, StepGoesWith
  <2>2. CASE \E c \in Cid : /\ CreateContainer(call[r].id, call[r].p.port, c)
                            /\ \/ GotoWith(r, "startStart", [call[r].p EXCEPT !.cid = c])
                               \/ GotoWith(r, "startCommit", failed)
    <3>1. PICK c \in Cid : /\ CreateContainer(call[r].id, call[r].p.port, c)
                           /\ \/ GotoWith(r, "startStart", [call[r].p EXCEPT !.cid = c])
                              \/ GotoWith(r, "startCommit", failed)
      BY <2>2
    <3>2. call[r].pc \in CreatePc \cup StartPc
      BY <1>8 DEF StartCreateContainer, StartPc
    <3>3. OutsideEffect /\ ctr'[c] # Nil /\ ctr'[c].pid = call[r].id
      BY <1>8, <3>1, <3>2, CreatesContainer DEF StartCreateContainer
    <3>4. CASE GotoWith(r, "startCommit", failed)
      BY <1>4, <1>6, <1>7, <3>3, <3>4, StepGoesWith
    <3>5. CASE GotoWith(r, "startStart", [call[r].p EXCEPT !.cid = c])
      <4> DEFINE p == [call[r].p EXCEPT !.cid = c]
      <4>1. p \in Row /\ p.cid = c /\ GotoWith(r, "startStart", p)
        BY <1>3, <3>5, RowWithContainer
      <4> HIDE DEF p
      <4> QED
        BY <1>4, <3>3, <4>1, StepGoesWith
    <3> QED
      BY <3>1, <3>4, <3>5
  <2> QED
    BY <1>8, <2>1, <2>2 DEF StartCreateContainer, failed
<1>9. CASE StartStart(r)
  <2>1. OutsideEffect
    <3>1. CASE StartContainer(call[r].p.cid)
      BY <1>2, <1>9, <3>1, StartsContainer DEF StartStart
    <3>2. CASE UNCHANGED ctr
      BY <1>1, <1>9, <3>2, FilesOnly DEF StartStart, DockerTypeOK
    <3> QED
      BY <1>9, <3>1, <3>2 DEF StartStart
  <2>2. Goto(r, "startWait") \/ GotoWith(r, "startCommit", failed)
    BY <1>9 DEF StartStart, failed
  <2> QED
    BY <1>4, <1>6, <1>7, <2>1, <2>2, StepGoes, StepGoesWith
<1>10. CASE WaitHealthy(r)
  <2>1. OutsideEffect
    BY <1>1, <1>10, FilesOnly DEF WaitHealthy, DockerTypeOK
  <2>2. \E pc \in {"startCommit", "createCommit"} :
           /\ MayGo(r, pc)
           /\ GotoWith(r, pc, running) \/ GotoWith(r, pc, failed)
    BY <1>4, <1>5, <1>10 DEF WaitHealthy, running, failed
  <2> QED
    BY <1>6, <1>7, <2>1, <2>2, StepGoesWith
<1>11. CASE Commit(r)
  <2>1. RowEffect(r)
    BY <1>1, <1>2, <1>3, <1>11, CommitsRow DEF Commit
  <2> QED
    BY <1>2, <1>11, <2>1, StepReturns DEF Commit
<1> QED
  BY <1>8, <1>9, <1>10, <1>11 DEF Finish

-----------------------------------------------------------------------------
(* RemoveOrphan.                                                           *)

\* RemoveOrphan: the container it removes belongs to no row, because a
\* proxy that had no row when it looked has none when it removes.
LEMMA OrphanOK ==
    ASSUME IInv, NEW r \in Req, OrphanCheck(r) \/ OrphanRemove(r)
    PROVE  StepOK
<1> USE DEF At, ServiceUnchanged
<1>1. r \in Req \cup {Boot} /\ r # Boot /\ DockerTypeOK
  BY ServiceAssumption DEF IInv, TypeOK
<1>2. call[r] \in Call /\ LocalsOK(call[r]) /\ call[r].cid \in Cid \cup {Nil}
  BY <1>1, Locals DEF IInv
<1>3. call[r].pc \in OrphanPc /\ call[r].pc # "idle"
  BY DEF OrphanCheck, OrphanRemove, OrphanPc
<1>4. CASE OrphanCheck(r)
  <2>1. OutsideEffect
    BY <1>1, <1>4, FilesOnly DEF OrphanCheck, DockerTypeOK
  <2>2. CASE Return(r)
    BY <1>1, <1>3, <2>1, <2>2, StepReturns
  <2>3. CASE ctr[call[r].cid].pid \notin call[r].known /\ Goto(r, "orphanRemove")
    <3>1. Moved(r, "orphanRemove", call[r].p)
      BY <1>1, <2>3, GotoMoves DEF Pc, OrphanPc
    <3>2. LocalsOK(call[r])'
      <4>1. /\ UNCHANGED <<rows, issued, ctr>>
            /\ call'[r].known = call[r].known /\ call[r].cid \in Cid
        BY <1>2, <1>3, <1>4, <3>1 DEF OrphanCheck, Moved, LocalsOK
      <4>2. call'[r].pc = "orphanRemove" /\ call'[r].pc \notin RowPc
            /\ call'[r].pc \notin RecreatePc /\ call'[r].pc \in OrphanPc
            /\ call[r].pc \notin {"idle"}
        BY <1>3, <3>1 DEF Moved, RowPc, CreatePc, LimitsPc, RecreatePc, StartPc, OrphanPc
      <4> QED
        BY <1>2, <1>3, <2>3, <3>1, <4>1, <4>2 DEF LocalsOK, Moved, Owned, HasRow
    <3> QED
      BY <1>1, <1>3, <2>1, <3>1, <3>2, OutsideStep DEF OutsideEffect, Moved
  <2> QED
    BY <1>4, <2>2, <2>3 DEF OrphanCheck
<1>5. CASE OrphanRemove(r)
  <2>1. call'[r] # call[r]
    BY <1>1, <1>3, <1>5, Ended DEF OrphanRemove, Idle
  <2>2. call[r].pc = "orphanRemove" /\ ~HasRow(ctr[call[r].cid].pid)
    BY <1>2, <1>3, <1>5 DEF OrphanRemove, LocalsOK
  <2>3. OutsideEffect
    BY <1>2, <1>5, <2>1, <2>2, RemovesContainer DEF OrphanRemove
  <2> QED
    BY <1>1, <1>3, <1>5, <2>3, StepReturns DEF OrphanRemove
<1> QED
  BY <1>4, <1>5

-----------------------------------------------------------------------------
(* Requests that arrive.                                                   *)

\* A request that only reads, and leaves its handler right.
LEMMA ReadOnlyStep ==
    ASSUME IInv, NEW r \in Req, mode = "serving",
           UNCHANGED <<rows, issued, ctr, cfg, acked, mode, todo, seen>>,
           NEW k, LocalsOK(k), call' = [call EXCEPT ![r] = k]
    PROVE  StepOK
<1>1. r \in Req \cup {Boot} /\ r # Boot
  BY ServiceAssumption
<1>2. OutsideEffect
  BY FilesOnly DEF IInv, TypeOK, DockerTypeOK
<1>3. call'[r] = k /\ call' = [call EXCEPT ![r] = call'[r]]
  BY <1>1 DEF IInv, TypeOK
<1>4. LocalsOK(call[r])'
  BY <1>3 DEF LocalsOK, Owned, HasRow
<1> QED
  BY <1>1, <1>2, <1>3, <1>4, OutsideStep DEF OutsideEffect

\* Delete reads the container id of the row.
LEMMA DeleteBeginOK ==
    ASSUME IInv, NEW r \in Req, NEW id \in Proxy, DeleteBegin(r, id)
    PROVE  StepOK
<1> DEFINE k == [Idle EXCEPT !.pc = "deleteCtr", !.id = id, !.cid = rows[id].cid]
<1>1. rows[id] \in Row /\ rows[id].cid \in Cid \cup {Nil} /\ id \in issued
      /\ (rows[id].cid # Nil => Owned(rows[id].cid, id))
  BY DEF DeleteBegin, IInv, TypeOK, StoreTypeOK, RowsOK, HasRow, Row
<1>2. /\ k.pc = "deleteCtr" /\ k.id = id /\ k.p = Nil /\ k.want = Nil
      /\ k.cid = rows[id].cid /\ k.known = {}
  BY DEF Idle
<1>3. k \in Call
  BY <1>1 DEF Idle, Call, Pc, DeletePc
<1>4. "deleteCtr" \notin RowPc \cup OrphanPc \cup RecreatePc
  BY DEF RowPc, CreatePc, LimitsPc, RecreatePc, StartPc, OrphanPc
<1>5. mode = "serving" /\ call' = [call EXCEPT ![r] = k]
      /\ UNCHANGED <<rows, issued, ctr, cfg, acked, mode, todo, seen>>
  BY DEF DeleteBegin, ServiceUnchanged
<1> HIDE DEF k
<1>6. LocalsOK(k)
  BY <1>1, <1>2, <1>3, <1>4, NilAssumption DEF LocalsOK
<1> QED
  BY <1>5, <1>6, ReadOnlyStep

\* UpdateLimits takes its copy of the row.
LEMMA LimitsBeginOK ==
    ASSUME IInv, NEW r \in Req, NEW id \in Proxy, NEW limits \in Limits,
           LimitsBegin(r, id, limits)
    PROVE  StepOK
<1> DEFINE p == [rows[id] EXCEPT !.limits = limits]
           k == [Idle EXCEPT !.pc = "limitsWrite", !.id = id, !.p = p]
<1>1. rows[id] \in Row /\ rows[id].cid \in Cid \cup {Nil} /\ id \in issued
      /\ (rows[id].cid # Nil => Owned(rows[id].cid, id))
  BY DEF LimitsBegin, IInv, TypeOK, StoreTypeOK, RowsOK, HasRow, Row
<1>2. p \in Row /\ p.cid = rows[id].cid
  BY <1>1 DEF Row
<1>3. mode = "serving" /\ call' = [call EXCEPT ![r] = k]
      /\ UNCHANGED <<rows, issued, ctr, cfg, acked, mode, todo, seen>>
  BY DEF LimitsBegin, ServiceUnchanged
<1> HIDE DEF p
<1>4. /\ k.pc = "limitsWrite" /\ k.id = id /\ k.p = p /\ k.want = Nil
      /\ k.cid = Nil /\ k.known = {}
  BY DEF Idle
<1>5. k \in Call
  BY <1>2 DEF Idle, Call, Pc, LimitsPc
<1>6. "limitsWrite" \notin OrphanPc \cup RecreatePc
  BY DEF RecreatePc, OrphanPc
<1> HIDE DEF k
<1>7. LocalsOK(k)
  BY <1>1, <1>2, <1>4, <1>5, <1>6, NilAssumption DEF LocalsOK
<1> QED
  BY <1>3, <1>7, ReadOnlyStep

\* Recreate takes its copy of the row.
LEMMA RecreateBeginOK ==
    ASSUME IInv, NEW r \in Req, NEW id \in Proxy, NEW port \in Port,
           NEW domain \in Domain, RecreateBegin(r, id, port, domain)
    PROVE  StepOK
<1> DEFINE p == [rows[id] EXCEPT !.state = "recreating"]
           want == [port |-> port, domain |-> domain, limits |-> rows[id].limits]
           k == [Idle EXCEPT !.pc = "recreateMark", !.id = id, !.p = p, !.want = want,
                             !.cid = rows[id].cid]
<1>1. rows[id] \in Row /\ rows[id].cid \in Cid \cup {Nil} /\ id \in issued
      /\ rows[id].limits \in Limits
      /\ (rows[id].cid # Nil => Owned(rows[id].cid, id))
  BY DEF RecreateBegin, IInv, TypeOK, StoreTypeOK, RowsOK, HasRow, Row
<1>2. p \in Row /\ p.cid = rows[id].cid
  BY <1>1 DEF Row, State
<1>3. want \in Config
  BY <1>1 DEF Config
<1>4. mode = "serving" /\ call' = [call EXCEPT ![r] = k]
      /\ UNCHANGED <<rows, issued, ctr, cfg, acked, mode, todo, seen>>
  BY DEF RecreateBegin, ServiceUnchanged
<1> HIDE DEF p, want
<1>5. /\ k.pc = "recreateMark" /\ k.id = id /\ k.p = p /\ k.want = want
      /\ k.cid = rows[id].cid /\ k.known = {}
  BY DEF Idle
<1>6. k \in Call
  BY <1>1, <1>2, <1>3 DEF Idle, Call, Pc, RecreatePc
<1>7. "recreateMark" \notin OrphanPc
  BY DEF OrphanPc
<1> HIDE DEF k
<1>8. LocalsOK(k)
  BY <1>1, <1>2, <1>3, <1>5, <1>6, <1>7, NilAssumption DEF LocalsOK
<1> QED
  BY <1>4, <1>8, ReadOnlyStep

\* RemoveOrphan lists the rows.
LEMMA OrphanBeginOK ==
    ASSUME IInv, NEW r \in Req, NEW c \in Cid, OrphanBegin(r, c)
    PROVE  StepOK
<1> DEFINE k == [Idle EXCEPT !.pc = "orphanCheck", !.cid = c, !.known = Listed]
<1>1. mode = "serving" /\ call' = [call EXCEPT ![r] = k] /\ ctr[c] # Nil
      /\ UNCHANGED <<rows, issued, ctr, cfg, acked, mode, todo, seen>>
  BY DEF OrphanBegin, ServiceUnchanged
<1>2. /\ k.pc = "orphanCheck" /\ k.id = Nil /\ k.p = Nil /\ k.want = Nil
      /\ k.cid = c /\ k.known = Listed
  BY DEF Idle
<1>3. k \in Call
  BY DEF Idle, Call, Pc, OrphanPc, Listed
<1>4. "orphanCheck" \notin RowPc \cup RecreatePc /\ "orphanCheck" \in OrphanPc
  BY DEF RowPc, CreatePc, LimitsPc, RecreatePc, StartPc, OrphanPc
<1>5. ctr[c].pid \in Proxy
  BY <1>1 DEF IInv, TypeOK, DockerTypeOK, Container
<1> HIDE DEF k
<1>6. LocalsOK(k)
  BY <1>1, <1>2, <1>3, <1>4, <1>5 DEF LocalsOK, Listed
<1> QED
  BY <1>1, <1>6, ReadOnlyStep

\* Create inserts a row with an id never used before.
LEMMA CreateClaimOK ==
    ASSUME IInv, NEW r \in Req, NEW id \in Proxy, NEW port \in Port,
           NEW domain \in Domain, NEW limits \in Limits,
           CreateClaim(r, id, port, domain, limits)
    PROVE  StepOK
<1> DEFINE p == [port |-> port, domain |-> domain, limits |-> limits,
                 cid |-> Nil, state |-> "creating", msg |-> "none"]
           k == [Idle EXCEPT !.pc = "createWrite", !.id = id, !.p = p]
<1>1. p \in Row /\ p.cid = Nil
  BY DEF Row, State, Message
<1>2. /\ mode = "serving" /\ CreateProxy(id, p) /\ call' = [call EXCEPT ![r] = k]
      /\ UNCHANGED <<ctr, cfg, acked, mode, todo, seen>>
  BY DEF CreateClaim, ServiceUnchanged
<1> HIDE DEF p
<1>3. /\ id \notin issued /\ issued' = issued \cup {id}
      /\ rows' = [rows EXCEPT ![id] = p]
  BY <1>2 DEF CreateProxy
<1>4. r \in Req \cup {Boot} /\ r # Boot
  BY ServiceAssumption
<1>5. /\ DockerTypeOK' /\ CtrGrows
      /\ \A d \in Cid : ctr'[d] # Nil => ctr[d] # Nil
      /\ \A d \in Cid : Live(d) => Live(d)'
  BY <1>2, SameContainers DEF IInv, TypeOK, DockerTypeOK
<1>6. StoreTypeOK' /\ RowsShrink
  BY <1>1, <1>3 DEF IInv, TypeOK, StoreTypeOK, RowsShrink, HasRow
<1>7. RowsOK'
  BY <1>1, <1>3, <1>5 DEF IInv, TypeOK, StoreTypeOK, RowsOK, HasRow, CtrGrows, Owned
<1>8. todo \subseteq Listed' /\ acked' \subseteq Proxy
  BY <1>2 DEF IInv, BootOK, TypeOK
<1>9. /\ k.pc = "createWrite" /\ k.id = id /\ k.p = p /\ k.want = Nil
      /\ k.cid = Nil /\ k.known = {}
  BY DEF Idle
<1>10. k \in Call
  BY <1>1 DEF Idle, Call, Pc, CreatePc
<1>11. "createWrite" \notin OrphanPc \cup RecreatePc
  BY DEF RecreatePc, OrphanPc
<1> HIDE DEF k
<1>12. call'[r] = k /\ call' = [call EXCEPT ![r] = call'[r]]
  BY <1>2, <1>4 DEF IInv, TypeOK
<1>13. LocalsOK(call[r])'
  BY <1>1, <1>3, <1>9, <1>10, <1>11, <1>12, NilAssumption DEF LocalsOK
<1>14. IInv'
  BY <1>2, <1>3, <1>4, <1>5, <1>6, <1>7, <1>8, <1>12, <1>13, HandlerStep
<1> QED
  BY <1>5, <1>6, <1>14 DEF StepOK, OwnRemoval

-----------------------------------------------------------------------------
(* Reconcile.                                                              *)

\* A step of the start-up pass, which creates and removes no container and
\* deletes no row.
LEMMA PassStep ==
    ASSUME IInv, UNCHANGED <<issued, ctr, cfg, acked>>,
           StoreTypeOK', RowsOK', RowsShrink,
           mode' \in {"boot", "reconciling", "serving"}, todo' \subseteq Proxy,
           seen' \in [Proxy -> Cid \cup {Nil}],
           call' \in [Req \cup {Boot} -> Call],
           \A q \in Req \cup {Boot} : call'[q] = call[q] \/ LocalsOK(call[q])',
           BootOK'
    PROVE  StepOK
<1>1. /\ DockerTypeOK' /\ CtrGrows /\ OwnRemoval /\ LabelsIssued'
  BY SameContainers DEF IInv, TypeOK, DockerTypeOK, OwnRemoval, LabelsIssued
<1>2. TypeOK'
  BY <1>1 DEF IInv, TypeOK
<1>3. \A q \in Req \cup {Boot} : LocalsOK(call[q])'
  <2> SUFFICES ASSUME NEW q \in Req \cup {Boot}, call'[q] = call[q]
               PROVE  LocalsOK(call[q])'
    OBVIOUS
  <2>1. call[q] \in Call /\ LocalsOK(call[q])
    BY DEF IInv, TypeOK
  <2> QED
    BY <1>1, <2>1, LocalsKept DEF LocalsOK, Owned, HasRow
<1> QED
  BY <1>1, <1>2, <1>3 DEF StepOK, IInv

\* The listing by label gives each proxy a container of its own, or none.
LEMMA ContainerOfOwned ==
    ASSUME NEW id \in Proxy, ContainerOf(id) # Nil
    PROVE  Owned(ContainerOf(id), id)
BY DEF ContainerOf, NameTaken, Live, Owned

\* Reconcile lists the rows and the containers.
LEMMA ReconcileListOK ==
    ASSUME IInv, ReconcileList
    PROVE  StepOK
<1>1. /\ UNCHANGED <<rows, issued, ctr, cfg, call, acked>> /\ mode = "boot"
  BY DEF ReconcileList, BootUnchanged
<1>2. CtrGrows
  BY <1>1, SameContainers DEF IInv, TypeOK
<1>3. StoreTypeOK' /\ RowsOK' /\ RowsShrink /\ Listed' = Listed
  BY <1>1, <1>2, SameRows DEF Listed, HasRow
<1>4. /\ \A r \in Req : call'[r] = Idle
      /\ call'[Boot] = Idle /\ todo = {}
      /\ call' \in [Req \cup {Boot} -> Call]
  BY <1>1 DEF IInv, BootOK, TypeOK
<1>5. Idle.pc = "idle" /\ Idle.id = Nil /\ Nil \notin Listed
  BY NilAssumption DEF Idle, Listed
<1>6. CASE mode' = "serving" /\ UNCHANGED <<todo, seen>>
  <2>1. BootOK'
    BY <1>1, <1>4, <1>5, <1>6 DEF IInv, BootOK, Owned
  <2> QED
    BY <1>1, <1>3, <1>6, <2>1, PassStep DEF IInv, TypeOK
<1>7. CASE /\ mode' = "reconciling" /\ todo' = Listed
           /\ \E skipped \in SUBSET Proxy :
                 seen' = [id \in Proxy |-> IF id \in skipped THEN Nil ELSE ContainerOf(id)]
  <2>1. \A id \in Proxy : seen'[id] # Nil => Owned(seen'[id], id)
    BY <1>7, ContainerOfOwned
  <2>2. seen' \in [Proxy -> Cid \cup {Nil}]
    BY <1>7, ContainerOfOwned DEF Owned
  <2>3. BootOK'
    BY <1>1, <1>3, <1>4, <1>5, <1>7, <2>1 DEF BootOK, Owned
  <2> QED
    BY <1>1, <1>3, <1>4, <1>7, <2>2, <2>3, PassStep DEF Listed
<1> QED
  BY <1>6, <1>7 DEF ReconcileList

\* The start-up pass ends and the panel serves.
LEMMA ServeOK ==
    ASSUME IInv, Serve
    PROVE  StepOK
<1>1. /\ UNCHANGED <<rows, issued, ctr, cfg, call, acked, todo>> /\ mode' = "serving"
      /\ todo = {} /\ call[Boot].pc = "idle" /\ mode = "reconciling"
      /\ seen' = [id \in Proxy |-> Nil]
  BY DEF Serve, At
<1>2. CtrGrows
  BY <1>1, SameContainers DEF IInv, TypeOK
<1>3. StoreTypeOK' /\ RowsOK' /\ RowsShrink /\ Listed' = Listed
  BY <1>1, <1>2, SameRows DEF Listed, HasRow
<1>4. call[Boot] = Idle
  BY <1>1 DEF IInv, BootOK
<1>5. BootOK'
  BY <1>1, <1>4 DEF IInv, BootOK, Idle
<1> QED
  BY <1>1, <1>3, <1>5, PassStep DEF IInv, TypeOK

\* What the loop over the rows finds at its turn to look at proxy id.
LEMMA TurnOf ==
    ASSUME IInv, NEW id \in Proxy, InTurn(id), UNCHANGED ctr
    PROVE  /\ mode = "reconciling" /\ mode' = mode /\ seen' = seen
           /\ call[Boot] = Idle /\ (\A r \in Req : call[r] = Idle)
           /\ id \in todo /\ todo' = todo \ {id}
           /\ id \in issued /\ rows[id] \in Row
           /\ rows[id].cid # Nil => Owned(rows[id].cid, id)
           /\ \A q \in Proxy : seen'[q] # Nil => Owned(seen[q], q)'
<1>1. /\ mode = "reconciling" /\ mode' = mode /\ seen' = seen
      /\ call[Boot].pc = "idle" /\ id \in todo /\ todo' = todo \ {id}
  BY DEF InTurn, At
<1>2. HasRow(id)
  BY <1>1 DEF IInv, BootOK, Listed
<1> QED
  BY <1>1, <1>2 DEF IInv, BootOK, TypeOK, StoreTypeOK, RowsOK, HasRow, Owned

\* Adopting the container found by label keeps every row naming its own.
LEMMA ReconcileAdoptOK ==
    ASSUME IInv, NEW id \in Proxy, ReconcileAdopt(id)
    PROVE  StepOK
<1>1. /\ UNCHANGED <<issued, ctr, cfg, acked, call>> /\ InTurn(id) /\ seen[id] # Nil
      /\ UpdateProxy(id, [rows[id] EXCEPT !.cid = seen[id]]) \/ UNCHANGED rows
  BY DEF ReconcileAdopt, BootUnchanged
<1>2. /\ mode = "reconciling" /\ mode' = mode /\ seen' = seen
      /\ call[Boot] = Idle /\ (\A r \in Req : call[r] = Idle)
      /\ id \in todo /\ todo' = todo \ {id}
      /\ id \in issued /\ rows[id] \in Row
      /\ \A q \in Proxy : seen'[q] # Nil => Owned(seen[q], q)'
  BY <1>1, TurnOf
<1>3. CtrGrows
  BY <1>1, SameContainers DEF IInv, TypeOK
<1>4. seen[id] \in Cid \cup {Nil} /\ Owned(seen[id], id)
  BY <1>1 DEF IInv, TypeOK, BootOK
<1> DEFINE p == [rows[id] EXCEPT !.cid = seen[id]]
<1>5. p \in Row /\ p.cid = seen[id] /\ (UpdateProxy(id, p) \/ UNCHANGED rows)
  BY <1>1, <1>2, <1>4, RowWithContainer
<1> HIDE DEF p
<1>6. StoreTypeOK' /\ RowsOK' /\ RowsShrink /\ Listed \subseteq Listed'
  BY <1>1, <1>2, <1>3, <1>4, <1>5, SameRows, UpdateProxyStep
<1>7. Idle.pc = "idle" /\ Idle.id = Nil /\ Nil \notin todo
  BY NilAssumption DEF Idle, IInv, TypeOK
<1>8. BootOK'
  BY <1>1, <1>2, <1>6, <1>7 DEF IInv, BootOK
<1> QED
  BY <1>1, <1>2, <1>6, <1>8, PassStep DEF IInv, TypeOK

\* Reconcile starts on one row: its slot gets the local variables k.
LEMMA TakesRow ==
    ASSUME IInv, NEW id \in Proxy, InTurn(id),
           UNCHANGED <<rows, issued, ctr, cfg, acked>>,
           NEW k, LocalsOK(k), k.pc \in StartPc \cup AbandonPc, k.id = id,
           call' = [call EXCEPT ![Boot] = k]
    PROVE  StepOK
<1>1. /\ mode = "reconciling" /\ mode' = mode /\ seen' = seen
      /\ (\A r \in Req : call[r] = Idle)
      /\ id \in todo /\ todo' = todo \ {id}
      /\ \A q \in Proxy : seen'[q] # Nil => Owned(seen[q], q)'
  BY TurnOf
<1>2. CtrGrows
  BY SameContainers DEF IInv, TypeOK
<1>3. StoreTypeOK' /\ RowsOK' /\ RowsShrink /\ Listed \subseteq Listed'
  BY <1>2, SameRows
<1>4. /\ call'[Boot] = k /\ (\A r \in Req : call'[r] = call[r])
      /\ call' \in [Req \cup {Boot} -> Call]
  BY ServiceAssumption DEF IInv, TypeOK, LocalsOK
<1>5. k.pc # "idle"
  BY DEF StartPc, AbandonPc
<1>6. BootOK'
  BY <1>1, <1>3, <1>4, <1>5 DEF IInv, BootOK
<1>7. \A q \in Req \cup {Boot} : call'[q] = call[q] \/ LocalsOK(call[q])'
  BY <1>4 DEF LocalsOK, Owned, HasRow
<1> QED
  BY <1>1, <1>3, <1>4, <1>6, <1>7, PassStep DEF IInv, TypeOK

\* A row that says creating and has no container is taken up to be dropped.
LEMMA ReconcileAbandonOK ==
    ASSUME IInv, NEW id \in Proxy, ReconcileAbandon(id)
    PROVE  StepOK
<1> DEFINE k == [Idle EXCEPT !.pc = "abandonDir", !.id = id]
<1>1. /\ UNCHANGED <<rows, issued, ctr, cfg, acked>> /\ InTurn(id)
      /\ call' = [call EXCEPT ![Boot] = k]
  BY DEF ReconcileAbandon, BootUnchanged
<1>2. id \in issued
  BY <1>1, TurnOf
<1>3. /\ k.pc = "abandonDir" /\ k.id = id /\ k.p = Nil /\ k.want = Nil
      /\ k.cid = Nil /\ k.known = {}
  BY DEF Idle
<1>4. k \in Call
  BY DEF Idle, Call, Pc, AbandonPc
<1>5. "abandonDir" \notin RowPc \cup OrphanPc \cup RecreatePc /\ "abandonDir" \in AbandonPc
  BY DEF RowPc, CreatePc, LimitsPc, RecreatePc, StartPc, OrphanPc, AbandonPc
<1> HIDE DEF k
<1>6. LocalsOK(k)
  BY <1>2, <1>3, <1>4, <1>5, NilAssumption DEF LocalsOK
<1> QED
  BY <1>1, <1>3, <1>5, <1>6, TakesRow

\* A row without a container is taken up to be rebuilt as it is stored.
LEMMA ReconcileRebuildOK ==
    ASSUME IInv, NEW id \in Proxy, ReconcileRebuild(id)
    PROVE  StepOK
<1> DEFINE k == [Idle EXCEPT !.pc = "startCtr", !.id = id, !.p = rows[id]]
<1>1. /\ UNCHANGED <<rows, issued, ctr, cfg, acked>> /\ InTurn(id)
      /\ call' = [call EXCEPT ![Boot] = k]
  BY DEF ReconcileRebuild, BootUnchanged
<1>2. /\ id \in issued /\ rows[id] \in Row
      /\ rows[id].cid # Nil => Owned(rows[id].cid, id)
  BY <1>1, TurnOf
<1>3. /\ k.pc = "startCtr" /\ k.id = id /\ k.p = rows[id] /\ k.want = Nil
      /\ k.cid = Nil /\ k.known = {}
  BY DEF Idle
<1>4. k \in Call
  BY <1>2 DEF Idle, Call, Pc, StartPc
<1>5. "startCtr" \notin OrphanPc \cup RecreatePc /\ "startCtr" \in StartPc
  BY DEF RecreatePc, StartPc, OrphanPc
<1> HIDE DEF k
<1>6. LocalsOK(k)
  BY <1>2, <1>3, <1>4, <1>5, NilAssumption DEF LocalsOK
<1> QED
  BY <1>1, <1>3, <1>5, <1>6, TakesRow

\* Reconcile's dropping of a half-built proxy: its directory, then its row.
LEMMA AbandonOK ==
    ASSUME IInv, AbandonDir \/ AbandonRow
    PROVE  StepOK
<1> USE DEF At, ServiceUnchanged, BootUnchanged
<1>1. /\ call[Boot].pc \in AbandonPc /\ call[Boot].pc \notin OrphanPc \cup {"idle"}
      /\ call[Boot].pc # "idle"
  BY DEF AbandonDir, AbandonRow, AbandonPc, OrphanPc
<1>2. MayGo(Boot, "abandonRow")
  BY <1>1 DEF MayGo, RowPc, CreatePc, LimitsPc, RecreatePc, StartPc, AbandonPc
<1>3. CASE AbandonDir
  <2>1. cfg' \in [Proxy -> Config \cup {EmptyDir, Nil}]
    BY <1>3 DEF AbandonDir, IInv, TypeOK, DockerTypeOK
  <2>2. OutsideEffect
    BY <1>3, <2>1, FilesOnly DEF AbandonDir
  <2> QED
    BY <1>2, <1>3, <2>2, StepGoes DEF AbandonDir
<1>4. CASE AbandonRow
  <2>1. RowEffect(Boot)
    BY <1>1, <1>4, DropsRow DEF AbandonRow
  <2> QED
    BY <1>1, <1>4, <2>1, StepReturns DEF AbandonRow
<1> QED
  BY <1>3, <1>4

-----------------------------------------------------------------------------
(* The environment.                                                        *)

\* The panel dies: every handler is forgotten, nothing else changes.
LEMMA CrashOK ==
    ASSUME IInv, Crash
    PROVE  StepOK
<1>1. /\ UNCHANGED <<rows, issued, ctr, cfg, acked>> /\ mode' = "boot" /\ todo' = {}
      /\ seen' = [id \in Proxy |-> Nil]
      /\ call' = [r \in Req \cup {Boot} |-> Idle]
  BY DEF Crash
<1>2. CtrGrows
  BY <1>1, SameContainers DEF IInv, TypeOK
<1>3. StoreTypeOK' /\ RowsOK' /\ RowsShrink
  BY <1>1, <1>2, SameRows
<1>4. /\ Idle \in Call /\ Idle.pc = "idle" /\ Idle.p = Nil /\ Idle.cid = Nil
      /\ Idle.id = Nil
  BY DEF Idle, Call, Pc
<1>5. call' \in [Req \cup {Boot} -> Call] /\ (\A q \in Req \cup {Boot} : call'[q] = Idle)
  BY <1>1, <1>4
<1>6. \A q \in Req \cup {Boot} : LocalsOK(call[q])'
  BY <1>4, <1>5 DEF LocalsOK, RowPc, CreatePc, LimitsPc, RecreatePc, StartPc, OrphanPc
<1>7. BootOK'
  BY <1>1, <1>4, <1>5, NilAssumption DEF BootOK
<1> QED
  BY <1>1, <1>3, <1>5, <1>6, <1>7, PassStep DEF IInv, TypeOK

\* A step outside the panel, which keeps the containers it has records of.
LEMMA HostStep ==
    ASSUME IInv, UNCHANGED <<rows, issued, call, mode, todo, seen, acked>>,
           DockerTypeOK', CtrGrows,
           \A d \in Cid : ctr'[d] # Nil => ctr[d] # Nil
    PROVE  StepOK
<1>1. StoreTypeOK' /\ RowsOK' /\ RowsShrink /\ Listed' = Listed
  BY SameRows DEF Listed, HasRow
<1>2. TypeOK' /\ LabelsIssued'
  BY <1>1 DEF IInv, TypeOK, LabelsIssued, CtrGrows
<1>3. \A q \in Req \cup {Boot} : LocalsOK(call[q])'
  <2> SUFFICES ASSUME NEW q \in Req \cup {Boot}
               PROVE  LocalsOK(call[q])'
    OBVIOUS
  <2>1. call'[q] = call[q] /\ call[q] \in Call /\ LocalsOK(call[q])
    BY DEF IInv, TypeOK
  <2> QED
    BY <1>1, <2>1, LocalsKept DEF LocalsOK, Owned, HasRow
<1>4. BootOK'
  BY <1>1 DEF IInv, BootOK, Owned, CtrGrows
<1> QED
  BY <1>1, <1>2, <1>3, <1>4 DEF StepOK, IInv, OwnRemoval

\* docker rm by hand, and a restart of telemt by Docker.
LEMMA EnvironmentOK ==
    ASSUME IInv, Environment
    PROVE  StepOK
<1> USE DEF ServiceUnchanged
<1>1. CASE Crash
  BY <1>1, CrashOK
<1>2. ASSUME NEW c \in Cid, Vanish(c)
      PROVE  StepOK
  BY <1>2, RemoveContainerStep, HostStep DEF Vanish, IInv, TypeOK, DockerTypeOK
<1>3. ASSUME NEW c \in Cid, Restart(c)
      PROVE  StepOK
  <2>1. DockerTypeOK /\ ctr[c] \in Container
    BY <1>3 DEF IInv, TypeOK, DockerTypeOK, Restart, TelemtRestart, Live
  <2>2. ReadConfig(ctr[c].pid) \in Config \cup {Nil}
    BY <2>1 DEF DockerTypeOK, ReadConfig, Container
  <2>3. [ctr[c] EXCEPT !.loaded = ReadConfig(ctr[c].pid)] \in Container
    BY <2>1, <2>2 DEF Container
  <2>4. ctr' = [ctr EXCEPT ![c] = [ctr[c] EXCEPT !.loaded = ReadConfig(ctr[c].pid)]]
        /\ UNCHANGED cfg
    BY <1>3, <2>1 DEF Restart, TelemtRestart, DockerTypeOK, Container
  <2>5. /\ DockerTypeOK' /\ CtrGrows
        /\ \A d \in Cid : ctr'[d] # Nil => ctr[d] # Nil
    BY <2>1, <2>3, <2>4, NilAssumption DEF DockerTypeOK, CtrGrows, Container
  <2> QED
    BY <1>3, <2>5, HostStep DEF Restart
<1> QED
  BY <1>1, <1>2, <1>3 DEF Environment

-----------------------------------------------------------------------------
(* The specification.                                                      *)

\* Nothing is stored, created or under way at first.
LEMMA InitOK == Init => IInv
<1> SUFFICES ASSUME Init PROVE IInv
  OBVIOUS
<1>1. /\ Idle \in Call /\ Idle.pc = "idle" /\ Idle.p = Nil /\ Idle.cid = Nil
      /\ Idle.id = Nil
  BY DEF Idle, Call, Pc
<1>2. /\ rows = [id \in Proxy |-> Nil] /\ issued = {}
      /\ ctr = [c \in Cid |-> Nil] /\ cfg = [id \in Proxy |-> Nil]
      /\ call = [r \in Req \cup {Boot} |-> Idle]
      /\ mode = "boot" /\ todo = {} /\ seen = [id \in Proxy |-> Nil] /\ acked = {}
  BY DEF Init, StoreInit, DockerInit
<1>3. TypeOK
  BY <1>1, <1>2 DEF TypeOK, StoreTypeOK, DockerTypeOK
<1>4. RowsOK /\ LabelsIssued
  BY <1>2 DEF RowsOK, HasRow, LabelsIssued
<1>5. \A r \in Req \cup {Boot} : LocalsOK(call[r])
  BY <1>1, <1>2 DEF LocalsOK, RowPc, CreatePc, LimitsPc, RecreatePc, StartPc, OrphanPc
<1>6. BootOK
  BY <1>1, <1>2 DEF BootOK
<1> QED
  BY <1>3, <1>4, <1>5, <1>6 DEF IInv

\* Every step of the system keeps the invariant, revives no deleted proxy and
\* removes no container but its own.
LEMMA NextOK ==
    ASSUME IInv, [Next]_vars
    PROVE  StepOK
<1>1. ASSUME NEW r \in Req, Begin(r)
      PROVE  StepOK
  BY <1>1, CreateClaimOK, DeleteBeginOK, LimitsBeginOK, RecreateBeginOK, OrphanBeginOK
     DEF Begin, PostCreate, PostDelete, PostLimits, PostRecreate, PostRemoveOrphan
<1>2. ASSUME NEW r \in Req, Continue(r)
      PROVE  StepOK
  BY <1>2, CreateOK, DeleteOK, LimitsOK, RecreateOK, OrphanOK DEF Continue
<1>3. ASSUME NEW r \in Req \cup {Boot}, Finish(r)
      PROVE  StepOK
  BY <1>3, FinishOK
<1>4. CASE Reconcile
  BY <1>4, ReconcileListOK, ServeOK, AbandonOK, ReconcileAdoptOK, ReconcileAbandonOK,
     ReconcileRebuildOK DEF Reconcile
<1>5. CASE Environment
  BY <1>5, EnvironmentOK
<1>6. CASE UNCHANGED vars
  BY <1>6, HostStep, SameContainers DEF vars, IInv, TypeOK, DockerTypeOK
<1> QED
  BY <1>1, <1>2, <1>3, <1>4, <1>5, <1>6 DEF Next

\* The inductive invariant holds throughout every behaviour of the service.
THEOREM Invariance == Spec => []IInv
<1>1. IInv /\ [Next]_vars => IInv'
  BY NextOK DEF StepOK
<1> QED
  BY InitOK, <1>1, PTL DEF Spec

\* Rows, containers, directories and the handlers' variables keep their types,
\* for any number of proxies, containers and concurrent handlers.
THEOREM TypeCorrect == Spec => []TypeOK
<1>1. IInv => TypeOK
  BY DEF IInv
<1> QED
  BY Invariance, <1>1, PTL

\* A row never names another proxy's container, however the handlers'
\* read-modify-write cycles over the row interleave and whatever fails.
THEOREM RowsOwnContainers == Spec => []RowOwnsContainer
<1>1. IInv => RowOwnsContainer
  BY DEF IInv, RowsOK, RowOwnsContainer, Owned
<1> QED
  BY Invariance, <1>1, PTL

\* No handler takes down another proxy's container; RemoveOrphan none of a
\* proxy that has a row, although its listing is old when it removes.
THEOREM RemovalsAreOwn == Spec => RemovesOnlyItsOwn
<1>1. IInv /\ [Next]_vars =>
        [call' # call =>
           \A c \in Cid :
              Live(c) /\ ~Live(c)' =>
                 \E r \in Req :
                    /\ call'[r] # call[r]
                    /\ \/ call[r].id = ctr[c].pid
                       \/ call[r].pc = "orphanRemove" /\ ~HasRow(ctr[c].pid)]_vars
  BY NextOK DEF StepOK, OwnRemoval
<1> QED
  BY Invariance, <1>1, PTL DEF Spec, RemovesOnlyItsOwn

\* A deleted proxy is gone for good: no stale copy of a row brings it back.
THEOREM DeletedForGood == Spec => DeletedStaysDeleted
<1>1. IInv /\ [Next]_vars =>
        [\A id \in issued : ~HasRow(id) => ~HasRow(id)']_vars
  BY NextOK DEF StepOK, RowsShrink
<1> QED
  BY Invariance, <1>1, PTL DEF Spec, DeletedStaysDeleted
=============================================================================
