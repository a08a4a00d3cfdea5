----------------------------- MODULE ProxyService ----------------------------
(***************************************************************************)
(* proxy.Service: the sagas that keep three independent stores in step -   *)
(* the proxies table, the Docker daemon and the configuration directories. *)
(* Every database statement, file operation and Docker call of a handler   *)
(* is one step.  HTTP handlers run concurrently and take no lock per       *)
(* proxy, so a step of one may fall between any two steps of another.      *)
(* Whatever Docker call fails (daemon error, a caller that hung up) fails  *)
(* here by choice; the rarer faults are enabled by the constant Faults.    *)
(***************************************************************************)
EXTENDS ProxyStore, DockerHost

CONSTANTS
    Req,            \* slots for concurrently running HTTP handlers
    Boot,           \* the slot of the start-up Reconcile pass
    ReservedPorts,  \* Cfg.ReservedPorts: the ports of the web server
    BadDomain,      \* domains tconfig.Render refuses (quote, newline, ...)
    BadLimits,      \* settings Render refuses (an ad tag that is not hex)
    Ops,            \* the operations operators use
    Faults          \* the faults that may strike

AllOps == {"create", "delete", "limits", "recreate", "orphan"}

(***************************************************************************)
(*  crash    the panel dies (kill, OOM, or SIGTERM: main returns from      *)
(*           ListenAndServe without waiting for the handlers) and restarts *)
(*  vanish   somebody runs docker rm -f by hand                            *)
(*  restart  telemt dies and Docker restarts it                            *)
(*  remove   docker rm fails while Create unwinds, which no caller that    *)
(*           hangs up can bring about                                      *)
(*  lost     Docker does what it was asked, but the panel sees an error    *)
(*  list     ListProxies or the container listing fails at boot            *)
(*  skip     List drops a container whose Inspect failed                   *)
(*  disk     a file operation fails                                        *)
(*  db       a database statement fails                                    *)
(***************************************************************************)
AllFaults == {"crash", "vanish", "restart", "remove", "lost", "list", "skip",
              "disk", "db"}

ASSUME ServiceAssumption ==
    /\ Boot \notin Req
    /\ ReservedPorts \subseteq Nat
    /\ BadDomain \subseteq Domain /\ BadLimits \subseteq Limits
    /\ Ops \subseteq AllOps /\ Faults \subseteq AllFaults

VARIABLES
    call,       \* [Req \cup {Boot} -> Call]: where each handler stands
    mode,       \* the process: booting, reconciling or serving requests
    todo,       \* proxies Reconcile has yet to look at
    seen,       \* byProxyID: the container Reconcile's listing gave each proxy
    acked       \* history: the proxies whose Create was reported a success

vars == <<rows, issued, ctr, cfg, call, mode, todo, seen, acked>>

CreatePc   == {"createWrite", "createCtr", "createStart", "createWait",
               "createCommit", "undoCtr", "undoDir", "undoRow"}
DeletePc   == {"deleteCtr", "deleteDir", "deleteRow"}
LimitsPc   == {"limitsWrite", "limitsPatch", "limitsCommit"}
RecreatePc == {"recreateMark", "recreateRemove", "recreateCommit", "recreateWrite"}
StartPc    == {"startCtr", "startStart", "startWait", "startCommit"}
OrphanPc   == {"orphanCheck", "orphanRemove"}
AbandonPc  == {"abandonDir", "abandonRow"}

Pc == {"idle"} \cup CreatePc \cup DeletePc \cup LimitsPc \cup RecreatePc
      \cup StartPc \cup OrphanPc \cup AbandonPc

\* p is the handler's own copy of the row, read once and written back whole.
Call == [pc    : Pc,
         id    : Proxy \cup {Nil},
         p     : Row \cup {Nil},
         want  : Config \cup {Nil},     \* Recreate: the port and domain asked for
         cid   : Cid \cup {Nil},        \* the container to remove
         known : SUBSET Proxy]          \* RemoveOrphan: the rows it listed

Idle == [pc |-> "idle", id |-> Nil, p |-> Nil, want |-> Nil, cid |-> Nil,
         known |-> {}]

At(r, pc) == call[r].pc = pc

Return(r) == call' = [call EXCEPT ![r] = Idle]

Goto(r, pc) == call' = [call EXCEPT ![r].pc = pc]

\* Go on with a changed copy of the row.
GotoWith(r, pc, p) == call' = [call EXCEPT ![r].pc = pc, ![r].p = p]

Settled(p, state, msg) == [p EXCEPT !.state = state, !.msg = msg]

ServiceUnchanged == UNCHANGED <<mode, todo, seen>>

-----------------------------------------------------------------------------
\* CheckPort's bind test runs in the panel's own network namespace and says
\* nothing of the host's ports: only the range and the reserved ports count.
CheckPort(port) == port \in 1..65535 /\ port \notin ReservedPorts

Renderable(p) == p.domain \notin BadDomain /\ p.limits \notin BadLimits

\* writeConfig makes the directory before it renders, and replaces
\* config.toml by a rename: a failure leaves the old file, or an empty
\* directory where there was none.
WriteConfig(id, p) == Renderable(p) /\ cfg' = [cfg EXCEPT ![id] = SpecOf(p)]

WriteConfigFails(id, p) ==
    \/ /\ ~Renderable(p) \/ "disk" \in Faults
       /\ cfg' = [cfg EXCEPT ![id] = IF @ = Nil THEN EmptyDir ELSE @]
    \/ "disk" \in Faults /\ UNCHANGED cfg

\* A docker rm on the caller's context that reports an error other than "no
\* such container": the daemon refuses, or the caller hangs up.
RemoveFails(c) ==
    /\ c # Nil
    /\ UNCHANGED ctr \/ ("lost" \in Faults /\ RemoveContainer(c))

-----------------------------------------------------------------------------
(* Create.                                                                 *)

CreateClaim(r, id, port, domain, limits) ==
    /\ "create" \in Ops /\ mode = "serving" /\ At(r, "idle")
    /\ CheckPort(port)
    /\ LET p == [port |-> port, domain |-> domain, limits |-> limits,
                 cid |-> Nil, state |-> "creating", msg |-> "none"]
       IN /\ CreateProxy(id, p)
          /\ call' = [call EXCEPT ![r] = [Idle EXCEPT !.pc = "createWrite",
                                                      !.id = id, !.p = p]]
    /\ UNCHANGED <<ctr, cfg, acked>> /\ ServiceUnchanged

\* The directory is registered for undoing only after writeConfig succeeded.
CreateWriteConfig(r) ==
    /\ At(r, "createWrite")
    /\ \/ WriteConfig(call[r].id, call[r].p) /\ Goto(r, "createCtr")
       \/ WriteConfigFails(call[r].id, call[r].p) /\ Goto(r, "undoRow")
    /\ UNCHANGED <<rows, issued, ctr, acked>> /\ ServiceUnchanged

\* EnsureNetwork, Pull and ContainerCreate; a lost reply leaves a container
\* whose id the saga does not know.
CreateCreateContainer(r) ==
    LET id == call[r].id  p == call[r].p IN
    /\ At(r, "createCtr")
    /\ \/ \E c \in Cid : /\ CreateContainer(id, p.port, c)
                         /\ \/ GotoWith(r, "createStart", [p EXCEPT !.cid = c])
                            \/ "lost" \in Faults /\ Goto(r, "undoDir")
       \/ UNCHANGED ctr /\ Goto(r, "undoDir")
    /\ UNCHANGED <<rows, issued, cfg, acked>> /\ ServiceUnchanged

\* Mutant: the compensation for the container is registered too late.
CreateStartUnregistered(r) ==
    /\ At(r, "createStart")
    /\ \/ StartContainer(call[r].p.cid) /\ Goto(r, "createWait")
       \/ UNCHANGED ctr /\ Goto(r, "undoDir")
    /\ UNCHANGED <<rows, issued, cfg, acked>> /\ ServiceUnchanged

CreateStart(r) ==
    /\ At(r, "createStart")
    /\ \/ StartContainer(call[r].p.cid) /\ Goto(r, "createWait")
       \/ "lost" \in Faults /\ StartContainer(call[r].p.cid) /\ Goto(r, "undoCtr")
       \/ UNCHANGED ctr /\ Goto(r, "undoCtr")
    /\ UNCHANGED <<rows, issued, cfg, acked>> /\ ServiceUnchanged

\* The compensating actions, in reverse order; each ignores its own error, and
\* none is cancelled by the caller.
UndoContainer(r) ==
    /\ At(r, "undoCtr")
    /\ \/ RemoveContainer(call[r].p.cid)
       \/ "remove" \in Faults /\ UNCHANGED ctr
    /\ Goto(r, "undoDir")
    /\ UNCHANGED <<rows, issued, cfg, acked>> /\ ServiceUnchanged

UndoDir(r) ==
    /\ At(r, "undoDir")
    /\ \/ cfg' = [cfg EXCEPT ![call[r].id] = Nil]
       \/ "disk" \in Faults /\ UNCHANGED cfg
    /\ Goto(r, "undoRow")
    /\ UNCHANGED <<rows, issued, ctr, acked>> /\ ServiceUnchanged

UndoRow(r) ==
    /\ At(r, "undoRow")
    /\ \/ DeleteProxy(call[r].id)
       \/ "db" \in Faults /\ UNCHANGED rows
    /\ Return(r)
    /\ UNCHANGED <<issued, ctr, cfg, acked>> /\ ServiceUnchanged

-----------------------------------------------------------------------------
(* Waiting for health and the terminal commits: Create's, startContainer's *)
(* and UpdateLimits'.                                                      *)

\* The control API answers within the budget, or it does not (or the caller
\* hangs up).
WaitHealthy(r) ==
    LET p == call[r].p
        next == IF At(r, "createWait") THEN "createCommit" ELSE "startCommit"
    IN /\ At(r, "createWait") \/ At(r, "startWait")
       /\ \/ Healthy(p.cid) /\ GotoWith(r, next, Settled(p, "running", "none"))
          \/ GotoWith(r, next, Settled(p, "error", "failed"))
       /\ UNCHANGED <<rows, issued, ctr, cfg, acked>> /\ ServiceUnchanged

\* Mutant: the terminal commit on the live context, which a caller that hung
\* up has cancelled.
CommitCancelled(r) ==
    /\ At(r, "createCommit") \/ At(r, "startCommit") \/ At(r, "limitsCommit")
    /\ \/ UpdateProxy(call[r].id, call[r].p) \/ UNCHANGED rows
    /\ Return(r)
    /\ UNCHANGED <<issued, ctr, cfg, acked>> /\ ServiceUnchanged

\* UpdateProxy(context.WithoutCancel(ctx), p): the whole copy is written.
Commit(r) ==
    /\ At(r, "createCommit") \/ At(r, "startCommit") \/ At(r, "limitsCommit")
    /\ \/ /\ UpdateProxy(call[r].id, call[r].p)
          /\ acked' = IF At(r, "createCommit") /\ UpdateAccepted(call[r].id, call[r].p)
                      THEN acked \cup {call[r].id} ELSE acked
       \/ "db" \in Faults /\ UNCHANGED <<rows, acked>>
    /\ Return(r)
    /\ UNCHANGED <<issued, ctr, cfg>> /\ ServiceUnchanged

-----------------------------------------------------------------------------
(* Delete.                                                                 *)

DeleteBegin(r, id) ==
    /\ "delete" \in Ops /\ mode = "serving" /\ At(r, "idle")
    /\ HasRow(id)
    /\ call' = [call EXCEPT ![r] = [Idle EXCEPT !.pc = "deleteCtr", !.id = id,
                                                !.cid = rows[id].cid]]
    /\ UNCHANGED <<rows, issued, ctr, cfg, acked>> /\ ServiceUnchanged

DeleteContainer(r) ==
    /\ At(r, "deleteCtr")
    /\ \/ RemoveContainer(call[r].cid) /\ Goto(r, "deleteDir")
       \/ RemoveFails(call[r].cid) /\ Return(r)
    /\ UNCHANGED <<rows, issued, cfg, acked>> /\ ServiceUnchanged

\* os.RemoveAll may fail half way, with config.toml already gone.
DeleteDir(r) ==
    LET id == call[r].id IN
    /\ At(r, "deleteDir")
    /\ \/ cfg' = [cfg EXCEPT ![id] = Nil] /\ Goto(r, "deleteRow")
       \/ /\ "disk" \in Faults
          /\ \/ UNCHANGED cfg
             \/ cfg[id] # Nil /\ cfg' = [cfg EXCEPT ![id] = EmptyDir]
          /\ Return(r)
    /\ UNCHANGED <<rows, issued, ctr, acked>> /\ ServiceUnchanged

DeleteRow(r) ==
    /\ At(r, "deleteRow")
    /\ \/ DeleteProxy(call[r].id)
       \/ "db" \in Faults /\ UNCHANGED rows
    /\ Return(r)
    /\ UNCHANGED <<issued, ctr, cfg, acked>> /\ ServiceUnchanged

-----------------------------------------------------------------------------
(* UpdateLimits.  The web form always sends every field, so the patch sets *)
(* all of them.                                                            *)

LimitsBegin(r, id, limits) ==
    /\ "limits" \in Ops /\ mode = "serving" /\ At(r, "idle")
    /\ HasRow(id)
    /\ call' = [call EXCEPT ![r] =
                  [Idle EXCEPT !.pc = "limitsWrite", !.id = id,
                               !.p = [rows[id] EXCEPT !.limits = limits]]]
    /\ UNCHANGED <<rows, issued, ctr, cfg, acked>> /\ ServiceUnchanged

LimitsWriteConfig(r) ==
    LET id == call[r].id  p == call[r].p IN
    /\ At(r, "limitsWrite")
    /\ \/ WriteConfig(id, p) /\ GotoWith(r, "limitsPatch", [p EXCEPT !.msg = "none"])
       \/ WriteConfigFails(id, p) /\ Return(r)
    /\ UNCHANGED <<rows, issued, ctr, acked>> /\ ServiceUnchanged

LimitsPatch(r) ==
    LET p == call[r].p
        failed == GotoWith(r, "limitsCommit", [p EXCEPT !.msg = "unapplied"])
    IN /\ At(r, "limitsPatch")
       /\ \/ p.cid # Nil /\ PatchUser(p.cid, p.limits) /\ Goto(r, "limitsCommit")
          \/ "lost" \in Faults /\ p.cid # Nil /\ PatchUser(p.cid, p.limits) /\ failed
          \/ UNCHANGED <<ctr, cfg>> /\ failed
       /\ UNCHANGED <<rows, issued, acked>> /\ ServiceUnchanged

-----------------------------------------------------------------------------
(* Recreate and startContainer.                                            *)

\* Mutant: the port from the form is not checked.
RecreateUnchecked(r, id, port, domain) ==
    /\ "recreate" \in Ops /\ mode = "serving" /\ At(r, "idle")
    /\ HasRow(id)
    /\ call' = [call EXCEPT ![r] =
                  [Idle EXCEPT !.pc = "recreateMark", !.id = id,
                               !.p = [rows[id] EXCEPT !.state = "recreating"],
                               !.want = [port |-> port, domain |-> domain,
                                         limits |-> rows[id].limits],
                               !.cid = rows[id].cid]]
    /\ UNCHANGED <<rows, issued, ctr, cfg, acked>> /\ ServiceUnchanged

RecreateBegin(r, id, port, domain) ==
    /\ "recreate" \in Ops /\ mode = "serving" /\ At(r, "idle")
    /\ HasRow(id)
    /\ port # rows[id].port => CheckPort(port)
    /\ call' = [call EXCEPT ![r] =
                  [Idle EXCEPT !.pc = "recreateMark", !.id = id,
                               !.p = [rows[id] EXCEPT !.state = "recreating"],
                               !.want = [port |-> port, domain |-> domain,
                                         limits |-> rows[id].limits],
                               !.cid = rows[id].cid]]
    /\ UNCHANGED <<rows, issued, ctr, cfg, acked>> /\ ServiceUnchanged

\* The only UpdateProxy on the live context: a caller that hangs up cancels it.
RecreateMark(r) ==
    LET id == call[r].id  p == call[r].p IN
    /\ At(r, "recreateMark")
    /\ \/ UpdateAccepted(id, p) /\ UpdateProxy(id, p) /\ Goto(r, "recreateRemove")
       \/ UNCHANGED rows /\ Return(r)
    /\ UNCHANGED <<issued, ctr, cfg, acked>> /\ ServiceUnchanged

RecreateRemove(r) ==
    /\ At(r, "recreateRemove")
    /\ \/ RemoveContainer(call[r].cid) /\ Goto(r, "recreateCommit")
       \/ RemoveFails(call[r].cid) /\ Return(r)
    /\ UNCHANGED <<rows, issued, cfg, acked>> /\ ServiceUnchanged

RecreateCommit(r) ==
    LET id == call[r].id
        p  == [call[r].p EXCEPT !.port = call[r].want.port,
                                !.domain = call[r].want.domain, !.cid = Nil]
    IN /\ At(r, "recreateCommit")
       /\ \/ UpdateAccepted(id, p) /\ UpdateProxy(id, p) /\ GotoWith(r, "recreateWrite", p)
          \/ /\ ~UpdateAccepted(id, p) \/ "db" \in Faults
             /\ UNCHANGED rows /\ Return(r)
       /\ UNCHANGED <<issued, ctr, cfg, acked>> /\ ServiceUnchanged

\* Mutant: the container is rebuilt on the configuration of before.
RecreateSkipsConfig(r) ==
    /\ At(r, "recreateWrite") /\ Goto(r, "startCtr")
    /\ UNCHANGED <<rows, issued, ctr, cfg, acked>> /\ ServiceUnchanged

RecreateWriteConfig(r) ==
    /\ At(r, "recreateWrite")
    /\ \/ WriteConfig(call[r].id, call[r].p) /\ Goto(r, "startCtr")
       \/ WriteConfigFails(call[r].id, call[r].p) /\ Return(r)
    /\ UNCHANGED <<rows, issued, ctr, acked>> /\ ServiceUnchanged

\* Mutant: a failed docker create returns without recording StateError.
StartCreateSilent(r) ==
    LET id == call[r].id  p == call[r].p IN
    /\ At(r, "startCtr")
    /\ \/ \E c \in Cid : /\ CreateContainer(id, p.port, c)
                         /\ GotoWith(r, "startStart", [p EXCEPT !.cid = c])
       \/ UNCHANGED ctr /\ Return(r)
    /\ UNCHANGED <<rows, issued, cfg, acked>> /\ ServiceUnchanged

StartCreateContainer(r) ==
    LET id == call[r].id  p == call[r].p
        failed == GotoWith(r, "startCommit", Settled(p, "error", "failed"))
    IN /\ At(r, "startCtr")
       /\ \/ \E c \in Cid : /\ CreateContainer(id, p.port, c)
                            /\ \/ GotoWith(r, "startStart", [p EXCEPT !.cid = c])
                               \/ "lost" \in Faults /\ failed
          \/ UNCHANGED ctr /\ failed
       /\ UNCHANGED <<rows, issued, cfg, acked>> /\ ServiceUnchanged

StartStart(r) ==
    LET p == call[r].p
        failed == GotoWith(r, "startCommit", Settled(p, "error", "failed"))
    IN /\ At(r, "startStart")
       /\ \/ StartContainer(p.cid) /\ Goto(r, "startWait")
          \/ "lost" \in Faults /\ StartContainer(p.cid) /\ failed
          \/ UNCHANGED ctr /\ failed
       /\ UNCHANGED <<rows, issued, cfg, acked>> /\ ServiceUnchanged

-----------------------------------------------------------------------------
(* RemoveOrphan: the rows are listed first, the containers second.         *)

OrphanBegin(r, c) ==
    /\ "orphan" \in Ops /\ mode = "serving" /\ At(r, "idle")
    /\ ctr[c] # Nil     \* the operator names a container that was once listed
    /\ call' = [call EXCEPT ![r] = [Idle EXCEPT !.pc = "orphanCheck", !.cid = c,
                                                !.known = Listed]]
    /\ UNCHANGED <<rows, issued, ctr, cfg, acked>> /\ ServiceUnchanged

\* Mutant: the id from the form is trusted.
OrphanTrusted(r) ==
    /\ At(r, "orphanCheck") /\ Goto(r, "orphanRemove")
    /\ UNCHANGED <<rows, issued, ctr, cfg, acked>> /\ ServiceUnchanged

\* It returns when the container is no orphan, and also when the listing fails
\* or passes over it.
OrphanCheck(r) ==
    LET c == call[r].cid
        orphaned == Live(c) /\ ctr[c].pid \notin call[r].known
    IN /\ At(r, "orphanCheck")
       /\ \/ orphaned /\ Goto(r, "orphanRemove")
          \/ Return(r)
       /\ UNCHANGED <<rows, issued, ctr, cfg, acked>> /\ ServiceUnchanged

OrphanRemove(r) ==
    /\ At(r, "orphanRemove")
    /\ RemoveContainer(call[r].cid) \/ RemoveFails(call[r].cid)
    /\ Return(r)
    /\ UNCHANGED <<rows, issued, cfg, acked>> /\ ServiceUnchanged

-----------------------------------------------------------------------------
(* Reconcile, run once at start-up before the HTTP server listens.  Nobody *)
(* else writes rows meanwhile, so the rows it listed are the rows.         *)

BootUnchanged == UNCHANGED <<issued, ctr, acked>>

ReconcileList ==
    /\ mode = "boot"
    /\ \/ /\ mode' = "reconciling"
          /\ todo' = Listed
          /\ \E skipped \in IF "skip" \in Faults THEN SUBSET Proxy ELSE {{}} :
                seen' = [id \in Proxy |-> IF id \in skipped THEN Nil ELSE ContainerOf(id)]
       \/ /\ "list" \in Faults      \* main only logs a warning
          /\ mode' = "serving"
          /\ UNCHANGED <<todo, seen>>
    /\ UNCHANGED <<rows, cfg, call>> /\ BootUnchanged

\* The loop follows ORDER BY port.
InTurn(id) ==
    /\ mode = "reconciling" /\ At(Boot, "idle")
    /\ id \in todo
    /\ \A q \in todo : rows[id].port <= rows[q].port
    /\ todo' = todo \ {id}
    /\ UNCHANGED <<mode, seen>>

\* Mutant: the recorded container id is left as it was.
AdoptNothing(id) ==
    InTurn(id) /\ seen[id] # Nil /\ UNCHANGED <<rows, cfg, call>> /\ BootUnchanged

ReconcileAdopt(id) ==
    /\ InTurn(id)
    /\ seen[id] # Nil
    /\ \/ UpdateProxy(id, [rows[id] EXCEPT !.cid = seen[id]])
       \/ "db" \in Faults /\ UNCHANGED rows
    /\ UNCHANGED <<cfg, call>> /\ BootUnchanged

\* Mutant: any row whose container is missing is taken for a half-built one.
AbandonMissing(id) ==
    /\ InTurn(id)
    /\ seen[id] = Nil
    /\ call' = [call EXCEPT ![Boot] = [Idle EXCEPT !.pc = "abandonDir", !.id = id]]
    /\ UNCHANGED <<rows, cfg>> /\ BootUnchanged

ReconcileAbandon(id) ==
    /\ InTurn(id)
    /\ seen[id] = Nil /\ rows[id].state = "creating"
    /\ call' = [call EXCEPT ![Boot] = [Idle EXCEPT !.pc = "abandonDir", !.id = id]]
    /\ UNCHANGED <<rows, cfg>> /\ BootUnchanged

AbandonDir ==
    /\ At(Boot, "abandonDir")
    /\ \/ cfg' = [cfg EXCEPT ![call[Boot].id] = Nil]
       \/ "disk" \in Faults /\ UNCHANGED cfg
    /\ Goto(Boot, "abandonRow")
    /\ UNCHANGED rows /\ BootUnchanged /\ ServiceUnchanged

AbandonRow ==
    /\ At(Boot, "abandonRow")
    /\ \/ DeleteProxy(call[Boot].id)
       \/ "db" \in Faults /\ UNCHANGED rows
    /\ Return(Boot)
    /\ UNCHANGED cfg /\ BootUnchanged /\ ServiceUnchanged

\* startContainer with the row as stored; config.toml is not written again.
ReconcileRebuild(id) ==
    /\ InTurn(id)
    /\ seen[id] = Nil /\ rows[id].state # "creating"
    /\ call' = [call EXCEPT ![Boot] = [Idle EXCEPT !.pc = "startCtr", !.id = id,
                                                   !.p = rows[id]]]
    /\ UNCHANGED <<rows, cfg>> /\ BootUnchanged

Serve ==
    /\ mode = "reconciling" /\ todo = {} /\ At(Boot, "idle")
    /\ mode' = "serving"
    /\ seen' = [id \in Proxy |-> Nil]
    /\ UNCHANGED <<rows, issued, ctr, cfg, call, todo, acked>>

-----------------------------------------------------------------------------
(* The environment.                                                        *)

Crash ==
    /\ "crash" \in Faults /\ mode # "boot"
    /\ call' = [r \in Req \cup {Boot} |-> Idle]
    /\ mode' = "boot" /\ todo' = {} /\ seen' = [id \in Proxy |-> Nil]
    /\ UNCHANGED <<rows, issued, ctr, cfg, acked>>

Vanish(c) ==
    /\ "vanish" \in Faults /\ Live(c)
    /\ RemoveContainer(c)
    /\ UNCHANGED <<rows, issued, cfg, call, acked>> /\ ServiceUnchanged

Restart(c) ==
    /\ "restart" \in Faults
    /\ TelemtRestart(c)
    /\ UNCHANGED <<rows, issued, call, acked>> /\ ServiceUnchanged

-----------------------------------------------------------------------------
Init ==
    /\ StoreInit /\ DockerInit
    /\ call = [r \in Req \cup {Boot} |-> Idle]
    /\ mode = "boot" /\ todo = {} /\ seen = [id \in Proxy |-> Nil]
    /\ acked = {}

(* The web handlers: the forms operators send.  A form that does not parse  *)
(* is refused before the service is called.                                 *)

PostCreate(r) ==
    \E id \in Proxy, port \in Port, domain \in Domain, limits \in Limits :
        CreateClaim(r, id, port, domain, limits)

PostDelete(r) == \E id \in Proxy : DeleteBegin(r, id)

\* The form sends every setting, an empty field to clear it.
PostLimits(r) == \E id \in Proxy, limits \in Limits : LimitsBegin(r, id, limits)

PostRecreate(r) ==
    \E id \in Proxy, port \in Port, domain \in Domain : RecreateBegin(r, id, port, domain)

PostRemoveOrphan(r) == \E c \in Cid : OrphanBegin(r, c)

\* A request arrives.
Begin(r) ==
    PostCreate(r) \/ PostDelete(r) \/ PostLimits(r) \/ PostRecreate(r) \/ PostRemoveOrphan(r)

\* A handler that has begun goes on.
Continue(r) ==
    \/ CreateWriteConfig(r) \/ CreateCreateContainer(r) \/ CreateStart(r)
    \/ UndoContainer(r) \/ UndoDir(r) \/ UndoRow(r)
    \/ DeleteContainer(r) \/ DeleteDir(r) \/ DeleteRow(r)
    \/ LimitsWriteConfig(r) \/ LimitsPatch(r)
    \/ RecreateMark(r) \/ RecreateRemove(r) \/ RecreateCommit(r) \/ RecreateWriteConfig(r)
    \/ OrphanCheck(r) \/ OrphanRemove(r)

\* startContainer and the terminal commits: a handler's or Reconcile's.
Finish(r) == StartCreateContainer(r) \/ StartStart(r) \/ WaitHealthy(r) \/ Commit(r)

Reconcile ==
    \/ ReconcileList \/ Serve \/ AbandonDir \/ AbandonRow
    \/ \E id \in Proxy :
          ReconcileAdopt(id) \/ ReconcileAbandon(id) \/ ReconcileRebuild(id)

Environment == Crash \/ \E c \in Cid : Vanish(c) \/ Restart(c)

Next ==
    \/ \E r \in Req : Begin(r) \/ Continue(r)
    \/ \E r \in Req \cup {Boot} : Finish(r)
    \/ Reconcile
    \/ Environment

Spec == Init /\ [][Next]_vars

\* Every handler ends: Docker calls and file operations return, the health
\* wait has a budget.  No request has to arrive, no fault has to strike.
FairSpec ==
    /\ Spec
    /\ \A r \in Req : WF_vars(Continue(r) \/ Finish(r))
    /\ WF_vars(Finish(Boot) \/ Reconcile)
=============================================================================
