-------------------------- MODULE ConsistencyGroup --------------------------
(***************************************************************************)
(* Consistency groups: sets of volumes that are snapshotted and restored   *)
(* together (routes/consistency_group.go, rpcs/consistency_group.go and    *)
(* the *_cg_*wds.sh scripts, which call the WDS storage).                  *)
(*                                                                         *)
(* Every handler of routes/consistency_group.go calls GetContextDB before  *)
(* StartTransaction.  GetContextDB stores the plain database handle in the *)
(* context, StartTransaction takes it for a transaction already begun, and *)
(* so no transaction is ever opened: each statement commits by itself and  *)
(* an error takes nothing back.  A request in slot n therefore goes        *)
(* through                                                                 *)
(*   row    its checks have passed; it writes the group's or the           *)
(*          snapshot's row (and the task's)                                *)
(*   mark   it writes one row per volume still in op[n].todo               *)
(*   send   it calls HyperExecute                                          *)
(* and op[n].job follows the script and its answer.  The callbacks do open *)
(* a transaction; each is one step.                                        *)
(*                                                                         *)
(* What happens to the volumes outside the group's own operations is the   *)
(* life that module Volume describes, reduced to what the group's code can *)
(* see: a request makes the status busy, its end makes it idle or "error". *)
(*                                                                         *)
(* Faults: overlap, two requests run at the same time; lost, HyperExecute  *)
(* reports success and no hypervisor runs the script; refused,             *)
(* HyperExecute fails; crash, the API server stops between two statements; *)
(* unbound, a vhost cannot be bound again after a restore.                 *)
(***************************************************************************)
EXTENDS Naturals, FiniteSets

CONSTANTS Groups, Volumes, Snapshots, Tasks, Instances, Slots, None, Faults,
          Used,       \* the volumes that also get requests of their own
          MaxCutOff   \* bound: the requests that get lost or die with the server

ASSUME CGNoneAssumption == None \notin Groups \cup Snapshots \cup Tasks \cup Instances
ASSUME UsedAssumption == Used \subseteq Volumes

VARIABLES
  cg,       \* cg[g]: the group's row: its status and whether wds_cg_id is set
  member,   \* member[g][v]: the number of ConsistencyGroupVolume rows
  snap,     \* snap[s]: the snapshot's row: status, group, wds_snap_id set or not, task
  task,     \* task[t]: the status of a task
  vol,      \* vol[v]: the volume's row: status and instance
  vm,       \* vm[i]: the status of an instance
  op,       \* op[n]: the request in slot n
  store     \* the storage: the volumes of each group, the groups and snapshots it has

vars == <<cg, member, snap, task, vol, vm, op, store>>

CGBusy == {"pending", "processing", "updating", "deleting"}
CGStatus == CGBusy \cup {"none", "available", "error", "deleted"}
SnapBusy == {"pending", "restoring", "deleting"}
SnapStatus == SnapBusy \cup {"none", "available", "error", "deleted"}
VolumeBusy == {"attaching", "detaching", "resizing", "backuping", "restoring"}
VolumeStatus == VolumeBusy \cup {"available", "attached", "error", "deleted"}
TaskStatus == {"none", "running", "success", "failed"}
Kinds == {"create", "delete", "add", "remove", "snap", "unsnap", "restore"}

Exists(g) == cg[g].status \notin {"none", "deleted"}
Members(g) == {v \in Volumes : member[g][v] > 0}
SnapshotsOf(g) == {s \in Snapshots : snap[s].g = g /\ snap[s].status \notin {"none", "deleted"}}
CanUpdate(g) == cg[g].status = "available"
CanDelete(g) == Exists(g) /\ cg[g].status \notin CGBusy
CanDeleteSnapshot(s) == snap[s].status \in {"available", "error"}
CanRestore(s) == snap[s].status = "available"
IsBusy(v) == vol[v].status \in VolumeBusy
IsError(v) == vol[v].status = "error"
IsVolumeInCG(v) == \E g \in Groups : member[g][v] > 0

(* The status the callbacks give a volume back. *)
ByInstance(v) == IF vol[v].inst # None THEN "attached" ELSE "available"

(***************************************************************************)
(* A request: attached are the volumes volumes_json gives an instance for, *)
(* wds whether the row it read had the storage's id.                       *)
(***************************************************************************)
Free == [kind |-> "none", g |-> None, s |-> None, t |-> None, vols |-> {}, todo |-> {},
         attached |-> {}, wds |-> FALSE, pc |-> "done", job |-> "none", ok |-> FALSE]

Serving(n) == op[n].pc # "done"

(* Slots, like task ids, are interchangeable: a request takes the first free one. *)
MayStart(n) ==
  /\ op[n] = Free /\ n = CHOOSE m \in Slots : op[m] = Free
  /\ "overlap" \in Faults \/ \A m \in Slots : ~Serving(m)

Become(n, r) ==
  op' = [op EXCEPT ![n] = IF r.pc = "done" /\ r.job \in {"none", "done"} THEN Free ELSE r]

(* A task's id may stand for a new task once nothing can change the old one. *)
Unused(t) == task[t] # "running" /\ \A s \in Snapshots : snap[s].t # t
FreeTask(t) == Unused(t) /\ t = CHOOSE u \in Tasks : Unused(u)

Init ==
  /\ cg = [g \in Groups |-> [status |-> "none", wds |-> FALSE]]
  /\ member = [g \in Groups |-> [v \in Volumes |-> 0]]
  /\ snap = [s \in Snapshots |-> [status |-> "none", g |-> None, wds |-> FALSE, t |-> None]]
  /\ task = [t \in Tasks |-> "none"]
  /\ vol = [v \in Volumes |-> [status |-> "available", inst |-> None]]
  /\ vm = [i \in Instances |-> "running"]
  /\ op = [n \in Slots |-> Free]
  /\ store = [groups |-> {}, vols |-> [g \in Groups |-> {}], snaps |-> {},
              taken |-> [s \in Snapshots |-> {}], bound |-> {}]

-----------------------------------------------------------------------------
(* The checks of the handlers, on what they read *)

Begin(n, r) == MayStart(n) /\ op' = [op EXCEPT ![n] = r]

(* Create: it does not ask whether a volume is in another group already. *)
Create(n, g, vs) ==
  /\ cg[g].status = "none"
  /\ vs # {}
  /\ \A v \in vs : vol[v].status # "deleted" /\ ~IsError(v) /\ ~IsBusy(v)
  /\ \E t \in Tasks : FreeTask(t)
  /\ Begin(n, [Free EXCEPT !.kind = "create", !.g = g, !.vols = vs, !.pc = "row"])
  /\ UNCHANGED <<cg, member, snap, task, vol, vm, store>>

Delete(n, g) ==
  /\ CanDelete(g)
  /\ SnapshotsOf(g) = {}
  /\ Begin(n, [Free EXCEPT !.kind = "delete", !.g = g, !.wds = cg[g].wds, !.pc = "row"])
  /\ UNCHANGED <<cg, member, snap, task, vol, vm, store>>

AddVolumesUnguarded(n, g, vs) ==
  /\ CanUpdate(g)
  /\ vs # {}
  /\ \A v \in vs : vol[v].status # "deleted" /\ ~IsError(v) /\ ~IsBusy(v) /\ ~IsVolumeInCG(v)
  /\ Begin(n, [Free EXCEPT !.kind = "add", !.g = g, !.vols = vs, !.wds = cg[g].wds, !.pc = "row"])
  /\ UNCHANGED <<cg, member, snap, task, vol, vm, store>>

AddVolumes(n, g, vs) ==
  /\ CanUpdate(g)
  /\ SnapshotsOf(g) = {}
  /\ vs # {}
  /\ \A v \in vs : vol[v].status # "deleted" /\ ~IsError(v) /\ ~IsBusy(v) /\ ~IsVolumeInCG(v)
  /\ Begin(n, [Free EXCEPT !.kind = "add", !.g = g, !.vols = vs, !.wds = cg[g].wds, !.pc = "row"])
  /\ UNCHANGED <<cg, member, snap, task, vol, vm, store>>

RemoveVolume(n, g, v) ==
  /\ CanUpdate(g)
  /\ SnapshotsOf(g) = {}
  /\ vol[v].status # "deleted"
  /\ member[g][v] > 0
  /\ Begin(n, [Free EXCEPT !.kind = "remove", !.g = g, !.vols = {v}, !.wds = cg[g].wds, !.pc = "row"])
  /\ UNCHANGED <<cg, member, snap, task, vol, vm, store>>

(* CreateSnapshot refuses a busy volume; one in "error" it takes.  The group's *)
(* own row is not marked.                                                      *)
CreateSnapshot(n, g, s) ==
  /\ CanUpdate(g)
  /\ Members(g) # {}
  /\ \A v \in Members(g) : ~IsBusy(v)
  /\ snap[s].status = "none" /\ \E t \in Tasks : FreeTask(t)
  /\ Begin(n, [Free EXCEPT !.kind = "snap", !.g = g, !.s = s, !.vols = Members(g),
                           !.wds = cg[g].wds, !.pc = "row"])
  /\ UNCHANGED <<cg, member, snap, task, vol, vm, store>>

(* DeleteSnapshot: the row of a snapshot the storage gave no id for just goes. *)
DeleteSnapshot(n, g, s) ==
  /\ Exists(g) /\ s \in SnapshotsOf(g)
  /\ CanDeleteSnapshot(s)
  /\ MayStart(n)
  /\ IF snap[s].status = "error" /\ ~snap[s].wds
       THEN /\ snap' = [snap EXCEPT ![s].status = "deleted", ![s].t = None]
            /\ UNCHANGED op
       ELSE /\ \E t \in Tasks : FreeTask(t)
            /\ op' = [op EXCEPT ![n] = [Free EXCEPT !.kind = "unsnap", !.g = g, !.s = s,
                                                    !.wds = snap[s].wds, !.pc = "row"]]
            /\ UNCHANGED snap
  /\ UNCHANGED <<cg, member, task, vol, vm, store>>

(* RestoreSnapshot: the instances of attached volumes must be shut off now. *)
RestoreSnapshot(n, g, s) ==
  /\ Exists(g) /\ s \in SnapshotsOf(g)
  /\ CanRestore(s)
  /\ Members(g) # {}
  /\ \A v \in Members(g) :
       /\ ~IsBusy(v)
       /\ vol[v].inst # None => vm[vol[v].inst] = "shut_off"
       /\ vol[v].inst = None => vol[v].status # "attached"
  /\ \E t \in Tasks : FreeTask(t)
  /\ Begin(n, [Free EXCEPT !.kind = "restore", !.g = g, !.s = s, !.vols = Members(g),
                           !.attached = {v \in Members(g) : vol[v].inst # None},
                           !.wds = cg[g].wds /\ snap[s].wds, !.pc = "row"])
  /\ UNCHANGED <<cg, member, snap, task, vol, vm, store>>

-----------------------------------------------------------------------------
(* Their writes, statement by statement, and the script *)

(* The next thing to do after the rows and volumes in r.todo are written. *)
Marking(r) == [r EXCEPT !.pc = IF r.todo = {} THEN "send" ELSE "mark"]

(* UPDATE ... WHERE id = g: no row, no effect. *)
SetCG(g, s) == cg' = IF Exists(g) THEN [cg EXCEPT ![g].status = s] ELSE cg

(* The rows of the volumes come next, if any; then the script. *)
Wrote(n, t) == op' = [op EXCEPT ![n] = Marking([@ EXCEPT !.todo = op[n].vols, !.t = t])]
At(n, k, c) == op[n].kind = k /\ op[n].pc = c

WriteCreate(n) == \E t \in Tasks :
  /\ At(n, "create", "row") /\ FreeTask(t)
  /\ cg' = [cg EXCEPT ![op[n].g].status = "processing"]
  /\ task' = [task EXCEPT ![t] = "running"]
  /\ Wrote(n, t)
  /\ UNCHANGED <<member, snap, vol, vm, store>>

WriteDelete(n) ==
  /\ At(n, "delete", "row")
  /\ SetCG(op[n].g, "deleting")
  /\ Wrote(n, None)
  /\ UNCHANGED <<member, snap, task, vol, vm, store>>

WriteAddVolumes(n) ==
  /\ At(n, "add", "row")
  /\ SetCG(op[n].g, "updating")
  /\ Wrote(n, None)
  /\ UNCHANGED <<member, snap, task, vol, vm, store>>

WriteRemoveVolume(n) ==
  /\ At(n, "remove", "row")
  /\ SetCG(op[n].g, "updating")
  /\ Wrote(n, None)
  /\ UNCHANGED <<member, snap, task, vol, vm, store>>

WriteCreateSnapshot(n) == \E t \in Tasks :
  /\ At(n, "snap", "row") /\ FreeTask(t)
  /\ task' = [task EXCEPT ![t] = "running"]
  /\ snap' = [snap EXCEPT ![op[n].s] = [status |-> "pending", g |-> op[n].g, wds |-> FALSE, t |-> t]]
  /\ Wrote(n, t)
  /\ UNCHANGED <<cg, member, vol, vm, store>>

(* A snapshot's row, if it is still there, gets a status and the id of a new task. *)
SetSnapshot(s, st, t) ==
  snap' = IF snap[s].status = "deleted" THEN snap ELSE [snap EXCEPT ![s].status = st, ![s].t = t]

WriteDeleteSnapshot(n) == \E t \in Tasks :
  /\ At(n, "unsnap", "row") /\ FreeTask(t)
  /\ task' = [task EXCEPT ![t] = "running"]
  /\ SetSnapshot(op[n].s, "deleting", t)
  /\ Wrote(n, t)
  /\ UNCHANGED <<cg, member, vol, vm, store>>

WriteRestoreKeepTask(n) == \E t \in Tasks :
  /\ At(n, "restore", "row") /\ FreeTask(t)
  /\ task' = [task EXCEPT ![t] = "running"]
  /\ SetSnapshot(op[n].s, "restoring", snap[op[n].s].t)
  /\ Wrote(n, t)
  /\ UNCHANGED <<cg, member, vol, vm, store>>

WriteRestore(n) == \E t \in Tasks :
  /\ At(n, "restore", "row") /\ FreeTask(t)
  /\ task' = [task EXCEPT ![t] = "running"]
  /\ SetSnapshot(op[n].s, "restoring", t)
  /\ Wrote(n, t)
  /\ UNCHANGED <<cg, member, vol, vm, store>>

(* One volume of the loop that follows is done. *)
Marks(n, v, K) ==
  /\ op[n].kind \in K /\ op[n].pc = "mark" /\ v \in op[n].todo
  /\ op' = [op EXCEPT ![n] = Marking([@ EXCEPT !.todo = op[n].todo \ {v}])]

InsertMember(n, v) ==
  /\ Marks(n, v, {"create", "add"})
  /\ member' = [member EXCEPT ![op[n].g][v] = @ + 1]
  /\ UNCHANGED <<cg, snap, task, vol, vm, store>>

DeleteMember(n, v) ==
  /\ Marks(n, v, {"remove"})
  /\ member' = [member EXCEPT ![op[n].g][v] = IF @ > 0 THEN @ - 1 ELSE @]
  /\ UNCHANGED <<cg, snap, task, vol, vm, store>>

SetVolume(v, st) == vol' = IF vol[v].status = "deleted" THEN vol ELSE [vol EXCEPT ![v].status = st]

MarkBackuping(n, v) ==
  /\ Marks(n, v, {"snap"})
  /\ SetVolume(v, "backuping")
  /\ UNCHANGED <<cg, member, snap, task, vm, store>>

MarkRestoring(n, v) ==
  /\ Marks(n, v, {"restore"})
  /\ SetVolume(v, "restoring")
  /\ UNCHANGED <<cg, member, snap, task, vm, store>>

(* Cut off: the script never arrives, or the handler died before it was sent. *)
CutOff(n) == op[n].job = "lost"
MayCutOff == Cardinality({n \in Slots : CutOff(n)}) < MaxCutOff

Outcome == {"delivered"} \cup (Faults \cap {"lost", "refused"})

(* HyperExecute returns; a request that got lost keeps its slot for ever. *)
Sent(n, o) ==
  /\ op[n].pc = "send"
  /\ o = "lost" => MayCutOff
  /\ Become(n, CASE o = "delivered" -> [op[n] EXCEPT !.pc = "done", !.job = "sent"]
                 [] o = "lost" -> [Free EXCEPT !.g = op[n].g, !.s = op[n].s, !.vols = op[n].vols,
                                               !.job = "lost"]
                 [] OTHER -> Free)

(* When it fails, Create marks its task, ... *)
SendCreate(n) == \E o \in Outcome :
  /\ op[n].kind = "create"
  /\ task' = IF o = "refused" THEN [task EXCEPT ![op[n].t] = "failed"] ELSE task
  /\ Sent(n, o)
  /\ UNCHANGED <<cg, member, snap, vol, vm, store>>

(* ... Delete, AddVolumes and RemoveVolume leave everything as it is, ... *)
SendGroup(n) == \E o \in Outcome :
  /\ op[n].kind \in {"delete", "add", "remove"}
  /\ Sent(n, o)
  /\ UNCHANGED <<cg, member, snap, task, vol, vm, store>>

(* ... and the handlers of snapshots mark task and snapshot, but no volume. *)
SendSnapshot(n) == \E o \in Outcome :
  /\ op[n].kind \in {"snap", "unsnap", "restore"}
  /\ task' = IF o = "refused" THEN [task EXCEPT ![op[n].t] = "failed"] ELSE task
  /\ snap' = IF o = "refused" /\ snap[op[n].s].status # "deleted"
               THEN [snap EXCEPT ![op[n].s].status = "error"] ELSE snap
  /\ Sent(n, o)
  /\ UNCHANGED <<cg, member, vol, vm, store>>

(* The API server stops and starts again: handlers end where they are, unsent. *)
Crash ==
  LET Stop(r) == CASE r.pc = "row" -> Free
                   [] r.pc \in {"mark", "send"} ->
                        [Free EXCEPT !.g = r.g, !.s = r.s, !.vols = r.vols, !.job = "lost"]
                   [] OTHER -> r
  IN /\ "crash" \in Faults /\ MayCutOff
     /\ op' = [n \in Slots |-> Stop(op[n])]
     /\ op' # op
     /\ UNCHANGED <<cg, member, snap, task, vol, vm, store>>

-----------------------------------------------------------------------------
(* The scripts; every call to the storage may fail, and needs its ids *)

Answer(n, good) == op' = [op EXCEPT ![n].job = "replied", ![n].ok = good]

ScriptCreate(n) == \E good \in BOOLEAN :
  /\ op[n].kind = "create" /\ op[n].job = "sent"
  /\ store' = IF good THEN [store EXCEPT !.groups = @ \cup {op[n].g}, !.vols[op[n].g] = op[n].vols]
                      ELSE store
  /\ Answer(n, good)
  /\ UNCHANGED <<cg, member, snap, task, vol, vm>>

(* The other scripts of a group need its id and the group itself. *)
InStore(n, K) == op[n].kind \in K /\ op[n].wds /\ op[n].g \in store.groups

ScriptDelete(n) == \E good \in BOOLEAN :
  /\ op[n].kind = "delete" /\ op[n].job = "sent"
  /\ good => InStore(n, {"delete"})
  /\ store' = IF good THEN [store EXCEPT !.groups = @ \ {op[n].g}, !.vols[op[n].g] = {}] ELSE store
  /\ Answer(n, good)
  /\ UNCHANGED <<cg, member, snap, task, vol, vm>>

ScriptAddVolumes(n) == \E good \in BOOLEAN :
  /\ op[n].kind = "add" /\ op[n].job = "sent"
  /\ good => InStore(n, {"add"})
  /\ store' = IF good THEN [store EXCEPT !.vols[op[n].g] = @ \cup op[n].vols] ELSE store
  /\ Answer(n, good)
  /\ UNCHANGED <<cg, member, snap, task, vol, vm>>

ScriptRemoveVolumes(n) == \E good \in BOOLEAN :
  /\ op[n].kind = "remove" /\ op[n].job = "sent"
  /\ good => InStore(n, {"remove"})
  /\ store' = IF good THEN [store EXCEPT !.vols[op[n].g] = @ \ op[n].vols] ELSE store
  /\ Answer(n, good)
  /\ UNCHANGED <<cg, member, snap, task, vol, vm>>

ScriptSnapshotSilent(n) == \E good \in BOOLEAN :
  LET g == op[n].g
      s == op[n].s
  IN /\ op[n].kind = "snap" /\ op[n].job = "sent"
     /\ good => op[n].wds /\ g \in store.groups
     /\ store' = IF good THEN [store EXCEPT !.snaps = @ \cup {s}, !.taken[s] = store.vols[g]] ELSE store
     /\ IF good THEN Answer(n, TRUE) ELSE Become(n, Free)
     /\ UNCHANGED <<cg, member, snap, task, vol, vm>>

(* create_cg_snapshot_wds: the snapshot may be taken and its id not be found. *)
ScriptSnapshot(n) == \E good, made \in BOOLEAN :
  LET g == op[n].g
      s == op[n].s
  IN /\ op[n].kind = "snap" /\ op[n].job = "sent"
     /\ good => made
     /\ made => op[n].wds /\ g \in store.groups
     /\ store' = IF made THEN [store EXCEPT !.snaps = @ \cup {s}, !.taken[s] = store.vols[g]]
                         ELSE store
     /\ Answer(n, good)
     /\ UNCHANGED <<cg, member, snap, task, vol, vm>>

ScriptDeleteSnapshot(n) == \E good \in BOOLEAN :
  /\ op[n].kind = "unsnap" /\ op[n].job = "sent"
  /\ good => op[n].wds /\ op[n].s \in store.snaps
  /\ store' = IF good THEN [store EXCEPT !.snaps = @ \ {op[n].s}] ELSE store
  /\ Answer(n, good)
  /\ UNCHANGED <<cg, member, snap, task, vol, vm>>

(* restore_cg_snapshot_wds takes the vhosts of the attached volumes away, ... *)
ScriptCleanup(n) ==
  /\ op[n].kind = "restore" /\ op[n].job = "sent" /\ op[n].wds
  /\ store' = [store EXCEPT !.bound = @ \ op[n].attached]
  /\ op' = [op EXCEPT ![n].job = "cleaned"]
  /\ UNCHANGED <<cg, member, snap, task, vol, vm>>

ScriptRestoreNoRebuild(n) == \E good \in BOOLEAN :
  /\ op[n].kind = "restore" /\ op[n].job = "cleaned"
  /\ good => op[n].g \in store.groups /\ op[n].s \in store.snaps
  /\ store' = IF good THEN [store EXCEPT !.bound = @ \cup op[n].attached] ELSE store
  /\ Answer(n, good)
  /\ UNCHANGED <<cg, member, snap, task, vol, vm>>

(* ... has the storage restore the group, and binds them again, restored or   *)
(* not (fault unbound: a vhost that cannot be bound is skipped, not reported). *)
ScriptRestore(n) == \E good \in BOOLEAN, left \in SUBSET op[n].attached :
  /\ op[n].kind = "restore"
  /\ \/ op[n].job = "cleaned"
     \/ op[n].job = "sent" /\ ~op[n].wds
  /\ good => op[n].job = "cleaned" /\ op[n].g \in store.groups /\ op[n].s \in store.snaps
  /\ left # {} => "unbound" \in Faults
  /\ store' = IF op[n].job = "cleaned" THEN [store EXCEPT !.bound = @ \cup (op[n].attached \ left)]
                                       ELSE store
  /\ Answer(n, good)
  /\ UNCHANGED <<cg, member, snap, task, vol, vm>>

Script(n) ==
  \/ ScriptCreate(n) \/ ScriptDelete(n) \/ ScriptAddVolumes(n) \/ ScriptRemoveVolumes(n)
  \/ ScriptSnapshot(n) \/ ScriptDeleteSnapshot(n) \/ ScriptCleanup(n) \/ ScriptRestore(n)

-----------------------------------------------------------------------------
(* The callbacks *)

Callback(n, K) ==
  /\ op[n].kind \in K /\ op[n].job = "replied"
  /\ Become(n, [op[n] EXCEPT !.job = "done"])
  /\ UNCHANGED <<vm, store>>

TaskEndsRaw(t, good) ==
  task' = IF t # None THEN [task EXCEPT ![t] = IF good THEN "available" ELSE "error"] ELSE task

TaskEnds(t, good) ==
  task' = IF t # None THEN [task EXCEPT ![t] = IF good THEN "success" ELSE "failed"] ELSE task

CreateCGWDS(n) ==
  LET g == op[n].g
      ok == op[n].ok
  IN /\ Callback(n, {"create"})
     /\ IF Exists(g)
          THEN /\ cg' = [cg EXCEPT ![g] = [status |-> IF ok THEN "available" ELSE "error",
                                           wds |-> IF ok THEN TRUE ELSE @.wds]]
               /\ TaskEnds(op[n].t, ok)
          ELSE UNCHANGED <<cg, task>>
     /\ UNCHANGED <<member, snap, vol>>

DeleteCGWDS(n) ==
  LET g == op[n].g IN
  /\ Callback(n, {"delete"})
  /\ SetCG(g, IF op[n].ok THEN "deleted" ELSE "error")
  /\ member' = IF op[n].ok THEN [member EXCEPT ![g] = [v \in Volumes |-> 0]] ELSE member
  /\ UNCHANGED <<snap, task, vol>>

AddVolumesToCGWDSBlind(n) ==
  /\ Callback(n, {"add"})
  /\ SetCG(op[n].g, "available")
  /\ UNCHANGED <<member, snap, task, vol>>

AddVolumesToCGWDS(n) ==
  /\ Callback(n, {"add"})
  /\ SetCG(op[n].g, IF op[n].ok THEN "available" ELSE "error")
  /\ UNCHANGED <<member, snap, task, vol>>

RemoveVolumesFromCGWDSOnSuccess(n) ==
  /\ Callback(n, {"remove"})
  /\ IF op[n].ok THEN SetCG(op[n].g, "available") ELSE UNCHANGED cg
  /\ UNCHANGED <<member, snap, task, vol>>

RemoveVolumesFromCGWDS(n) ==
  /\ Callback(n, {"remove"})
  /\ SetCG(op[n].g, IF op[n].ok THEN "available" ELSE "error")
  /\ UNCHANGED <<member, snap, task, vol>>

(* Every volume of the group gets an idle status back, whatever it had. *)
RestoreStatuses(g) ==
  vol' = [v \in Volumes |-> IF v \in Members(g) /\ vol[v].status # "deleted"
                              THEN [vol[v] EXCEPT !.status = ByInstance(v)] ELSE vol[v]]

CreateCGSnapshotWDSOnSuccess(n) ==
  LET s == op[n].s
      ok == op[n].ok
  IN /\ Callback(n, {"snap"})
     /\ snap' = [snap EXCEPT ![s].status = IF ok THEN "available" ELSE "error", ![s].wds = ok]
     /\ TaskEnds(snap[s].t, ok)
     /\ IF ok THEN RestoreStatuses(snap[s].g) ELSE UNCHANGED vol
     /\ UNCHANGED <<cg, member>>

CreateCGSnapshotWDS(n) ==
  LET s == op[n].s
      ok == op[n].ok
  IN /\ Callback(n, {"snap"})
     /\ IF snap[s].status # "deleted"
          THEN /\ snap' = [snap EXCEPT ![s].status = IF ok THEN "available" ELSE "error",
                                       ![s].wds = IF ok THEN TRUE ELSE @]
               /\ TaskEnds(snap[s].t, ok)
               /\ RestoreStatuses(snap[s].g)
          ELSE UNCHANGED <<snap, task, vol>>
     /\ UNCHANGED <<cg, member>>

(* A deleted row is not found again: its task id reads 0. *)
DeleteCGSnapshotWDS(n) ==
  LET s == op[n].s
      ok == op[n].ok
      gone == snap[s].status = "deleted"
  IN /\ Callback(n, {"unsnap"})
     /\ snap' = IF gone THEN snap
                ELSE [snap EXCEPT ![s].status = IF ok THEN "deleted" ELSE "error",
                                  ![s].t = IF ok THEN None ELSE @]
     /\ TaskEnds(IF gone THEN None ELSE snap[s].t, ok)
     /\ UNCHANGED <<cg, member, vol>>

(* Restored or not, the snapshot itself is good. *)
RestoreCGSnapshotWDS(n) ==
  LET s == op[n].s IN
  /\ Callback(n, {"restore"})
  /\ IF snap[s].status # "deleted"
       THEN /\ snap' = [snap EXCEPT ![s].status = "available"]
            /\ TaskEnds(snap[s].t, op[n].ok)
            /\ RestoreStatuses(op[n].g)
       ELSE UNCHANGED <<snap, task, vol>>
  /\ UNCHANGED <<cg, member>>

Callbacks(n) ==
  \/ CreateCGWDS(n) \/ DeleteCGWDS(n) \/ AddVolumesToCGWDS(n) \/ RemoveVolumesFromCGWDS(n)
  \/ CreateCGSnapshotWDS(n) \/ DeleteCGSnapshotWDS(n) \/ RestoreCGSnapshotWDS(n)

-----------------------------------------------------------------------------
(* The rest of the system, as far as the group's volumes go *)

(* VolumeAdmin.Update and Resize make an idle volume busy. *)
VolumeStart(v) ==
  /\ "overlap" \in Faults \/ \A m \in Slots : ~Serving(m)
  /\ \/ vol[v].status = "available" /\ vol' = [vol EXCEPT ![v].status = "attaching"]
     \/ vol[v].status = "attached" /\ vol' = [vol EXCEPT ![v].status = "detaching"]
     \/ vol[v].status \in {"available", "attached"} /\ vol' = [vol EXCEPT ![v].status = "resizing"]
  /\ UNCHANGED <<cg, member, snap, task, vm, op, store>>

(* AttachVolume, DetachVolume and ResizeVolume, with the vhost their scripts bound or not *)
VolumeEnd(v) == \E i \in Instances, good \in BOOLEAN :
  LET in == [status |-> "attached", inst |-> i]
      out == [status |-> "available", inst |-> None]
  IN /\ \/ /\ vol[v].status = "attaching"
           /\ vol' = [vol EXCEPT ![v] = IF good THEN in ELSE out]
           /\ store' = IF good THEN [store EXCEPT !.bound = @ \cup {v}] ELSE store
        \/ /\ vol[v].status = "detaching"
           /\ vol' = [vol EXCEPT ![v] = IF good THEN out ELSE [@ EXCEPT !.status = "attached"]]
           /\ store' = IF good THEN [store EXCEPT !.bound = @ \ {v}] ELSE store
        \/ /\ vol[v].status = "resizing"
           /\ vol' = [vol EXCEPT ![v].status = IF good THEN ByInstance(v) ELSE "error"]
           /\ UNCHANGED store
     /\ UNCHANGED <<cg, member, snap, task, vm, op>>

VolumeDeleteUnguarded(v) ==
  /\ "overlap" \in Faults \/ \A m \in Slots : ~Serving(m)
  /\ ~IsBusy(v) /\ vol[v].status \notin {"attached", "deleted"}
  /\ vol' = [vol EXCEPT ![v].status = "deleted"]
  /\ UNCHANGED <<cg, member, snap, task, vm, op, store>>

(* VolumeAdmin.Delete refuses a volume of a group. *)
VolumeDelete(v) ==
  /\ "overlap" \in Faults \/ \A m \in Slots : ~Serving(m)
  /\ ~IsBusy(v) /\ vol[v].status \notin {"attached", "deleted"}
  /\ ~IsVolumeInCG(v)
  /\ vol' = [vol EXCEPT ![v].status = "deleted"]
  /\ UNCHANGED <<cg, member, snap, task, vm, op, store>>

(* InstanceAdmin.Update with a power action, done: it asks nothing of the volumes. *)
PowerAction(i) ==
  /\ vm' = [vm EXCEPT ![i] = IF @ = "running" THEN "shut_off" ELSE "running"]
  /\ UNCHANGED <<cg, member, snap, task, vol, op, store>>

Handler(n) ==
  \/ WriteCreate(n) \/ WriteDelete(n) \/ WriteAddVolumes(n) \/ WriteRemoveVolume(n)
  \/ WriteCreateSnapshot(n) \/ WriteDeleteSnapshot(n) \/ WriteRestore(n)
  \/ \E v \in Volumes :
       InsertMember(n, v) \/ DeleteMember(n, v) \/ MarkBackuping(n, v) \/ MarkRestoring(n, v)
  \/ SendCreate(n) \/ SendGroup(n) \/ SendSnapshot(n)

Next ==
  \/ \E n \in Slots, g \in Groups :
       \/ \E vs \in SUBSET Volumes : Create(n, g, vs) \/ AddVolumes(n, g, vs)
       \/ \E v \in Volumes : RemoveVolume(n, g, v)
       \/ Delete(n, g)
       \/ \E s \in Snapshots :
            CreateSnapshot(n, g, s) \/ DeleteSnapshot(n, g, s) \/ RestoreSnapshot(n, g, s)
  \/ \E n \in Slots : Handler(n) \/ Script(n) \/ Callbacks(n)
  \/ \E v \in Used : VolumeStart(v) \/ VolumeEnd(v) \/ VolumeDelete(v)
  \/ \E i \in Instances : PowerAction(i)
  \/ Crash

Spec == Init /\ [][Next]_vars

(* A handler runs to its end, a hypervisor runs the scripts it was given, and *)
(* cloudland hands every answer to the API.                                  *)
Fairness == \A n \in Slots : WF_vars(Handler(n)) /\ WF_vars(Script(n)) /\ WF_vars(Callbacks(n))

FairSpec == Spec /\ Fairness

-----------------------------------------------------------------------------
(* The variables have their types. *)
TypeOK ==
  /\ cg \in [Groups -> [status : CGStatus, wds : BOOLEAN]]
  /\ member \in [Groups -> [Volumes -> Nat]]
  /\ snap \in [Snapshots -> [status : SnapStatus, g : Groups \cup {None}, wds : BOOLEAN,
                             t : Tasks \cup {None}]]
  /\ task \in [Tasks -> TaskStatus]
  /\ vol \in [Volumes -> [status : VolumeStatus, inst : Instances \cup {None}]]
  /\ vm \in [Instances -> {"running", "shut_off"}]
  /\ op \in [Slots -> [kind : Kinds \cup {"none"}, g : Groups \cup {None},
                       s : Snapshots \cup {None}, t : Tasks \cup {None},
                       vols : SUBSET Volumes, todo : SUBSET Volumes, attached : SUBSET Volumes,
                       wds : BOOLEAN, pc : {"row", "mark", "send", "done"},
                       job : {"none", "lost", "sent", "cleaned", "replied"}, ok : BOOLEAN]]
  /\ store \in [groups : SUBSET Groups, vols : [Groups -> SUBSET Volumes],
                snaps : SUBSET Snapshots, taken : [Snapshots -> SUBSET Volumes],
                bound : SUBSET Volumes]

(***************************************************************************)
(* A group shown as available exists in the storage with exactly the       *)
(* volumes of its association rows, whatever scripts failed or were lost   *)
(* (AddVolumes, RemoveVolume and their callbacks).                         *)
(***************************************************************************)
RowsMatchStore ==
  \A g \in Groups : cg[g].status = "available" =>
    g \in store.groups /\ cg[g].wds /\ store.vols[g] = Members(g)

(***************************************************************************)
(* A snapshot offered for restoring is in the storage and holds the        *)
(* volumes the group has today: nothing joins or leaves a group that has a *)
(* snapshot (the snapshotCount checks of AddVolumes, RemoveVolume and      *)
(* Delete).                                                                *)
(***************************************************************************)
SnapshotFits ==
  \A s \in Snapshots : snap[s].status \in {"available", "restoring"} =>
    s \in store.snaps /\ store.taken[s] = Members(snap[s].g)

(* Status "backuping" or "restoring", given by CreateSnapshot or RestoreSnapshot. *)
Marked(v) == vol[v].status \in {"backuping", "restoring"}

(***************************************************************************)
(* A volume marked by CreateSnapshot or RestoreSnapshot belongs to a group *)
(* with a snapshot still pending or restoring, whose callback will unmark  *)
(* it: no callback forgets a volume.                                       *)
(***************************************************************************)
MarkedHasSnapshot ==
  \A v \in Volumes : Marked(v) =>
    \E s \in Snapshots : snap[s].status \in {"pending", "restoring"} /\ v \in Members(snap[s].g)

(***************************************************************************)
(* A snapshot's task is running exactly while the snapshot is busy: each   *)
(* callback ends the task of the request it answers and not an earlier one *)
(* (task_id is rewritten by DeleteSnapshot and RestoreSnapshot).           *)
(***************************************************************************)
TaskTracksSnapshot ==
  \A s \in Snapshots : snap[s].t # None =>
    (snap[s].status \in SnapBusy <=> task[snap[s].t] = "running")

(* A volume with an association row exists: the callbacks dereference it    *)
(* (cgv.Volume.InstanceID), and VolumeAdmin.Delete refuses to delete it.     *)
MembersExist ==
  \A g \in Groups, v \in Volumes : member[g][v] > 0 => vol[v].status # "deleted"

(* A volume shown as attached has its vhost: a restore that failed gives it  *)
(* back too (rebuild_vhosts on both paths of restore_cg_snapshot_wds.sh).    *)
AttachedIsBound ==
  \A v \in Volumes : vol[v].status = "attached" => v \in store.bound

(* A volume the group's code has marked is idle again, unless the request    *)
(* that marked it was cut off (CreateCGSnapshotWDS, RestoreCGSnapshotWDS).   *)
Released ==
  \A v \in Volumes : Marked(v) ~> (~Marked(v) \/ \E n \in Slots : CutOff(n) /\ v \in op[n].vols)

(* A busy group becomes idle or is deleted, unless its request was cut off. *)
GroupSettles ==
  \A g \in Groups : (cg[g].status \in CGBusy) ~>
    (cg[g].status \notin CGBusy \/ \E n \in Slots : CutOff(n) /\ op[n].g = g)

(***************************************************************************)
(* The storage restores a group only while the instances that use its      *)
(* volumes are shut off, as RestoreSnapshot demands.                       *)
(***************************************************************************)
RestoresAtRest ==
  [][\A n \in Slots : op[n].job = "cleaned" /\ op'[n].job = "replied" =>
       \A v \in op[n].attached : vol[v].inst # None => vm[vol[v].inst] = "shut_off"]_vars

=============================================================================
