--------------------------- MODULE ProxyServiceInv ---------------------------
(***************************************************************************)
(* The inductive invariants of ProxyService.  IInv is behind TypeOK,        *)
(* RowOwnsContainer, RemovesOnlyItsOwn and DeletedStaysDeleted: the stored  *)
(* rows satisfy these only because every copy of a row, every container id *)
(* and every listing that some handler still holds satisfies them too,     *)
(* however old.  The others rest on IInv.                                   *)
(***************************************************************************)
EXTENDS ProxyServiceProps

\* Container c was created for proxy id; being removed does not change that.
Owned(c, id) == c \in Cid /\ ctr[c] # Nil /\ ctr[c].pid = id

RowPc == CreatePc \cup LimitsPc \cup RecreatePc \cup StartPc

\* What holds of the local variables k of a handler.
LocalsOK(k) ==
    /\ k \in Call
    /\ k.id # Nil => k.id \in issued
    /\ k.pc \notin OrphanPc \cup {"idle"} => k.id # Nil
    /\ k.pc \in RowPc => k.p # Nil
    /\ k.pc \in RecreatePc => k.want # Nil
    /\ k.p # Nil /\ k.p.cid # Nil => Owned(k.p.cid, k.id)
    /\ k.pc \notin OrphanPc /\ k.cid # Nil => Owned(k.cid, k.id)
    /\ k.pc \in OrphanPc =>
         /\ k.cid \in Cid /\ ctr[k.cid] # Nil
         /\ ctr[k.cid].pid \notin k.known => ~HasRow(ctr[k.cid].pid)
    /\ k.pc = "orphanRemove" => ctr[k.cid].pid \notin k.known

RowsOK ==
    \A id \in Proxy :
        HasRow(id) =>
            /\ id \in issued
            /\ rows[id].cid # Nil => Owned(rows[id].cid, id)

\* An id is used for a container only once it was used for a row.
LabelsIssued == \A c \in Cid : ctr[c] # Nil => ctr[c].pid \in issued

\* Handlers and the start-up pass exclude each other.
BootOK ==
    /\ mode # "serving" => \A r \in Req : call[r] = Idle
    /\ mode # "reconciling" => todo = {} /\ call[Boot] = Idle
    /\ todo \subseteq Listed
    /\ call[Boot].id \notin todo
    /\ call[Boot].pc \in {"idle"} \cup StartPc \cup AbandonPc
    /\ call[Boot].pc = "idle" => call[Boot] = Idle
    /\ \A id \in Proxy : seen[id] # Nil => Owned(seen[id], id)

IInv ==
    /\ TypeOK
    /\ RowsOK
    /\ LabelsIssued
    /\ \A r \in Req \cup {Boot} : LocalsOK(call[r])
    /\ BootOK

(***************************************************************************)
(* Behind LedgerKept and AckedNeverLost.                                   *)
(***************************************************************************)

\* The port of a row's copy or of a request in local variables k.
LocalsChecked(k) ==
    /\ k.p # Nil => CheckPort(k.p.port)
    /\ k.want # Nil => CheckPort(k.want.port)

\* The ports that stand in rows, in handlers' copies of rows and in requests
\* under way passed CheckPort, however long ago.
PortsChecked ==
    /\ \A id \in Proxy : HasRow(id) => CheckPort(rows[id].port)
    /\ \A r \in Req \cup {Boot} : LocalsChecked(call[r])

\* What a handler's local variables k may say of an acknowledged proxy.
LocalsAcked(k) ==
    /\ k.id \in acked =>
         /\ k.pc \notin CreatePc \cup AbandonPc
         /\ k.p # Nil => k.p.state # "creating"
    /\ k.pc = "createCommit" => k.p.state # "creating"

\* No row of an acknowledged proxy, and no copy that may be written back, says
\* creating, so that nothing takes it for a half-built one.
AckedSettled ==
    /\ acked \subseteq issued
    /\ \A id \in acked : HasRow(id) => rows[id].state # "creating"
    /\ \A r \in Req \cup {Boot} : LocalsAcked(call[r])

(***************************************************************************)
(* What keeps the three stores in step: the table, the containers and the  *)
(* configuration directories.  Every part says what holds of a proxy that  *)
(* nobody works on, and what a handler half way through its work on one    *)
(* may rely on there.                                                      *)
(***************************************************************************)

\* Operators send one request after another: what CidHonest, NothingLeftBehind,
\* ServesRow and AckedNeverLost rest on.
OneAtATime == \A r, s \in Req : r = s

\* Docker's unique names: a proxy never has two containers.
OneContainer ==
    \A c, d \in Cid : Live(c) /\ Live(d) /\ ctr[c].pid = ctr[d].pid => c = d

\* UNIQUE(port).
OnePort ==
    \A id, q \in Proxy :
        HasRow(id) /\ HasRow(q) /\ rows[id].port = rows[q].port => id = q

\* The panel is up, has reconciled id, and no handler works on it.
Resting(id) ==
    /\ mode # "boot" /\ id \notin todo
    /\ \A r \in Req \cup {Boot} : call[r].id # id

\* Proxy id has no container but c.
Only(id, c) == \A d \in Cid : Live(d) /\ ctr[d].pid = id => d = c

\* Row id and the copy p of it that is to be written back hold the same port,
\* so that the database takes the copy.
Writable(id, p) == HasRow(id) /\ rows[id].port = p.port

-----------------------------------------------------------------------------
(* Behind RestartRecovers.                                                 *)

Recovered(id) == HasRow(id) => rows[id].state = "error" \/ NameTaken(id)

\* The start-up pass is alone: the containers it listed are still there, and
\* the one it builds itself.
BootRecovers ==
    mode = "reconciling" =>
        /\ \A id \in Proxy : id \notin todo /\ id # call[Boot].id => Recovered(id)
        /\ \A id \in Proxy : seen[id] # Nil => Live(seen[id])
        /\ call[Boot].pc \in StartPc => Writable(call[Boot].id, call[Boot].p)
        /\ call[Boot].pc \in {"startStart", "startWait"} =>
             call[Boot].p.cid # Nil /\ Live(call[Boot].p.cid)
        /\ call[Boot].pc = "startCommit" =>
             call[Boot].p.state = "error" \/ NameTaken(call[Boot].id)

-----------------------------------------------------------------------------
(* Behind CidHonest.                                                       *)

Honest(id) == HasRow(id) => Only(id, rows[id].cid)

\* Where a saga has removed the old container, or has yet to make one, and
\* where it has one that the row does not name yet.
BarePc  == {"createWrite", "createCtr", "recreateCommit", "recreateWrite", "startCtr"}
BuiltPc == {"createStart", "createWait", "createCommit", "undoCtr",
            "startStart", "startWait", "startCommit"}

LocalsHonest(k) ==
    /\ k.pc \in BarePc => Only(k.id, Nil)
    /\ k.pc \in BuiltPc => Only(k.id, k.p.cid)
    /\ k.pc \in BarePc \cup BuiltPc \cup LimitsPc \cup RecreatePc =>
         HasRow(k.id)
    /\ k.pc \in BuiltPc \cup {"createWrite", "createCtr", "recreateWrite", "startCtr"}
         => Writable(k.id, k.p)
    /\ k.pc \in DeletePc \cup AbandonPc \cup LimitsPc \cup {"recreateMark", "recreateRemove"}
         => Honest(k.id)
    /\ k.pc \in LimitsPc \cup {"recreateMark"} => k.p.cid = rows[k.id].cid
    /\ k.pc \in {"deleteCtr", "recreateMark", "recreateRemove"} =>
         HasRow(k.id) /\ k.cid = rows[k.id].cid
    /\ k.pc \in OrphanPc \cup {"idle"} => k.id = Nil

HonestInv ==
    /\ \A id \in Proxy : Resting(id) => Honest(id)
    /\ \A id \in todo : Only(id, seen[id])
    /\ \A r \in Req \cup {Boot} : LocalsHonest(call[r])

-----------------------------------------------------------------------------
(* Behind NothingLeftBehind.                                               *)

Clean(id) == ~HasRow(id) => cfg[id] = Nil /\ Only(id, Nil)

\* A saga that will drop the row has removed what comes before it.
LocalsClean(k) ==
    /\ k.pc \in {"undoDir", "undoRow", "deleteDir", "deleteRow", "abandonDir", "abandonRow"}
         => Only(k.id, Nil)
    /\ k.pc \in {"undoRow", "deleteRow", "abandonRow"} => cfg[k.id] = Nil

CleanInv ==
    /\ \A id \in Proxy : Clean(id)
    /\ \A r \in Req \cup {Boot} : LocalsClean(call[r])

-----------------------------------------------------------------------------
(* Behind ServesRow.                                                       *)

\* Container c, if it still lives, publishes p's port and telemt in it runs
\* with p's port and domain.
Publishes(c, p) == Live(c) => ctr[c].port = p.port

Loaded(c, p) ==
    Live(c) =>
        /\ ctr[c].loaded \in Config
        /\ ctr[c].loaded.port = p.port /\ ctr[c].loaded.domain = p.domain

Serves(id, p) ==
    /\ cfg[id] = SpecOf(p)
    /\ p.cid # Nil
    /\ Publishes(p.cid, p) /\ Loaded(p.cid, p)
    /\ Live(p.cid) => ctr[p.cid].loaded.limits = p.limits \/ p.msg = "unapplied"

IsRunning(id) == HasRow(id) /\ rows[id].state = "running"

RowServed(id) == IsRunning(id) => Serves(id, rows[id])

LocalsServe(k) ==
    /\ k.pc \in {"deleteCtr", "deleteDir", "limitsWrite", "recreateMark"} => RowServed(k.id)
    /\ k.pc \in CreatePc \cup StartPc \cup (RecreatePc \ {"recreateMark"}) => ~IsRunning(k.id)
    /\ k.pc \in RecreatePc \cup {"startCtr"} => k.p.state # "running"
    /\ k.pc \in {"createCtr", "createStart", "createWait"} \cup StartPc =>
         cfg[k.id] = SpecOf(k.p)
    /\ k.pc \in {"createStart", "createWait", "startStart", "startWait"} =>
         k.p.cid # Nil /\ Publishes(k.p.cid, k.p)
    /\ k.pc \in {"createWait", "startWait"} =>
         (Live(k.p.cid) => ctr[k.p.cid].loaded = SpecOf(k.p))
    /\ k.pc \in LimitsPc => Writable(k.id, k.p)
    /\ k.pc = "limitsWrite" => k.p = [rows[k.id] EXCEPT !.limits = k.p.limits]
    /\ k.pc = "limitsPatch" /\ k.p.state = "running" =>
         Serves(k.id, [k.p EXCEPT !.msg = "unapplied"])
    /\ k.pc \in {"createCommit", "startCommit", "limitsCommit"} /\ k.p.state = "running" =>
         Serves(k.id, k.p)
    /\ k.pc \in OrphanPc \cup {"idle"} => k.id = Nil

\* Without crashes the start-up pass runs once, on an empty table.
ServesInv ==
    /\ mode # "serving" =>
         (\A id \in Proxy : ~HasRow(id)) /\ \A r \in Req \cup {Boot} : call[r] = Idle
    /\ \A id \in Proxy : Resting(id) => RowServed(id)
    /\ \A r \in Req \cup {Boot} : LocalsServe(call[r])

-----------------------------------------------------------------------------
(* What CreateSettles and RecreateSettles need besides fairness.           *)

\* How many steps of its own a handler that stands at pc has left at most.
StepsLeft(pc) ==
    CASE pc = "idle"         -> 0
      [] pc = "recreateMark" -> 8
      [] pc = "recreateRemove" -> 7
      [] pc \in {"createWrite", "recreateCommit"} -> 6
      [] pc \in {"createCtr", "recreateWrite"}    -> 5
      [] pc \in {"createStart", "startCtr"}       -> 4
      [] pc \in {"undoCtr", "startStart", "limitsWrite", "deleteCtr"} -> 3
      [] pc \in {"undoDir", "createWait", "startWait", "limitsPatch", "deleteDir",
                 "abandonDir", "orphanCheck"}     -> 2
      [] OTHER -> 1

\* The handler in slot r comes nearer to its end.
Advances(r) == StepsLeft(call'[r].pc) < StepsLeft(call[r].pc)

Creating(id) == HasRow(id) /\ rows[id].state = "creating"

\* Handler r is the Create of proxy id, and the database takes its copy.
Creates(r, id) ==
    call[r].pc \in CreatePc /\ call[r].id = id /\ Writable(id, call[r].p)

\* Only a Create says creating, and only while it is under way: every copy that
\* will be written says something else.
CreatingInv ==
    /\ \A id \in Proxy : Creating(id) => \E r \in Req : Creates(r, id)
    /\ \A r \in Req \cup {Boot} :
          call[r].pc \in LimitsPc \cup RecreatePc \cup StartPc \cup {"createCommit"} =>
             call[r].p.state # "creating"
=============================================================================
