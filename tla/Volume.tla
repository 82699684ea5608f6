------------------------------- MODULE Volume -------------------------------
(***************************************************************************)
(* The life of data volumes: the row the API keeps in its database, the    *)
(* scripts the API sends to the hypervisors, and the callbacks by which    *)
(* the scripts' results come back (routes/volume.go, routes/backup.go,     *)
(* rpcs/*_volume.go, rpcs/backup.go, and the part of instance deletion     *)
(* that touches volumes).                                                  *)
(*                                                                         *)
(* A request occupies a slot n: op[n].pc is where its handler in the API   *)
(* is, op[n].job where the script it sent and the callback that answers it *)
(* are; the slot is free again when both are over, so the number of slots  *)
(* bounds what is under way at one time, not how much happens.  Handlers   *)
(* and callbacks interleave at their database reads and writes: a handler  *)
(* that checks a copy of the row read outside its transaction takes two    *)
(* steps, and so does Update, which sends the script before it writes the  *)
(* row.  Where a handler writes the row before it sends, the row lock      *)
(* keeps the callback's write behind the commit, so writing, sending and   *)
(* committing are one step.  A request refused by a check changes nothing  *)
(* and is not a step.                                                      *)
(*                                                                         *)
(* Ops and Faults say which requests are made and what may go wrong:       *)
(*   overlap    two API requests run at the same time                      *)
(*   overtake   a callback is applied before its request has committed     *)
(*   lost       HyperExecute reports success, no hypervisor runs it        *)
(*   refused    HyperExecute fails and nothing is sent                     *)
(*   ambiguous  HyperExecute fails although the script was sent            *)
(*   crash      the API server stops: transactions roll back and the       *)
(*              callbacks it was handling are gone                         *)
(***************************************************************************)
EXTENDS FiniteSets

CONSTANTS Volumes, Instances, Backups, Slots, None, Ops, Faults

ASSUME NoneAssumption == None \notin Instances \cup Volumes \cup Backups

VARIABLES
  status,    \* status[v]: the status column; "none" before and "deleted" after the row's life
  inst,      \* inst[v]: the instance_id column, None for 0
  vm,        \* vm[i]: the status column of the instance's row
  backup,    \* backup[b]: the VolumeBackup row: its status and the volume it was taken of
  op,        \* op[n]: the request in slot n
  disk,      \* disk[v]: the domains whose definition has the volume as a device
  domains,   \* the domains that exist on the hypervisors
  held,      \* held[v]: every instance the volume was ever attached to (history)
  cleared    \* the volumes a clear_volume script was sent for (history)

vars == <<status, inst, vm, backup, op, disk, domains, held, cleared>>

Insts == Instances \cup {None}
Kinds == {"create", "attach", "detach", "keep", "resize", "backup", "snapshot", "restore",
          "delete", "deleteAPI", "clear"}
BusyStatus == {"pending", "resizing", "attaching", "detaching", "restoring", "backuping"}
Status == BusyStatus \cup {"none", "available", "attached", "error", "deleted"}
VmStatus == {"running", "shut_off", "paused", "deleting", "deleted"}
BackupStatus == {"none", "pending", "available", "error", "deleted"}

(* A soft-deleted row is invisible to every query. *)
Exists(v) == status[v] \notin {"none", "deleted"}

IsBusyNotAttaching(v) == status[v] \in BusyStatus \ {"attaching"}
IsBusy(v) == status[v] \in BusyStatus
IsError(v) == status[v] = "error"
IsAttached(v) == status[v] = "attached"

(***************************************************************************)
(* HyperExecute posts the script to cloudland, which answers before any    *)
(* hypervisor has run it.                                                  *)
(***************************************************************************)
Outcome == {"delivered"} \cup (Faults \cap {"lost", "refused", "ambiguous"})
Failed(o) == o \in {"refused", "ambiguous"}
JobAfter(o) == IF o \in {"delivered", "ambiguous"} THEN "sent" ELSE "none"

(***************************************************************************)
(* A request: want is the status Update will write, ok whether the script  *)
(* succeeded, rd the instance_id its callback has read.                    *)
(***************************************************************************)
Free == [kind |-> "none", v |-> None, i |-> None, b |-> None, pc |-> "done",
         want |-> "none", job |-> "none", ok |-> FALSE, rd |-> None]

Serving(n) == op[n].pc \in {"read", "sent"}
InFlight(n) == op[n].job \in {"sent", "replied", "taken"}

(* The slot is given up when the handler has returned and nothing is under way. *)
Become(n, r) ==
  op' = [op EXCEPT ![n] = IF r.pc = "done" /\ r.job \in {"none", "done"} THEN Free ELSE r]

(* Requests overlap only when the fault says so. *)
MayStart(n, k) ==
  /\ k \in Ops
  /\ op[n] = Free
  /\ "overlap" \in Faults \/ \A m \in Slots : ~Serving(m)

(* A request for volume v whose handler is at c and whose job is j. *)
Start(n, k, v, c, j) ==
  MayStart(n, k) /\ Become(n, [Free EXCEPT !.kind = k, !.v = v, !.pc = c, !.job = j])

(* The handler returns. *)
Return(n, j) == Become(n, [op[n] EXCEPT !.pc = "done", !.job = j])

SetStatusUnscoped(v, s) == status' = [status EXCEPT ![v] = s]

(* UPDATE volumes SET status = s WHERE id = v: no row, no effect. *)
SetStatus(v, s) == status' = IF Exists(v) THEN [status EXCEPT ![v] = s] ELSE status

Init ==
  /\ status \in [Volumes -> {"none", "available"}]
  /\ inst = [v \in Volumes |-> None]
  /\ vm \in [Instances -> {"running", "shut_off"}]
  /\ backup = [b \in Backups |-> [status |-> "none", v |-> None]]
  /\ op = [n \in Slots |-> Free]
  /\ disk = [v \in Volumes |-> {}]
  /\ domains = Instances
  /\ held = [v \in Volumes |-> {}]
  /\ cleared = {}

-----------------------------------------------------------------------------
(* The API's handlers *)

(***************************************************************************)
(* Create: CreateVolume commits the pending row, then the script is sent;  *)
(* a failing HyperExecute leaves the row behind.                           *)
(***************************************************************************)
Create(n, v) == \E o \in Outcome :
  /\ status[v] = "none"
  /\ Start(n, "create", v, "done", JobAfter(o))
  /\ status' = [status EXCEPT ![v] = "pending"]
  /\ UNCHANGED <<inst, vm, backup, disk, domains, held, cleared>>

(* What Update makes of a request to have volume v attached to i (None: to none). *)
UpdateKind(v, i) ==
  IF inst[v] # None /\ i = None /\ IsAttached(v) THEN "detach"
  ELSE IF i # None /\ inst[v] = None /\ status[v] = "available" THEN "attach" ELSE "keep"

UpdateWant(v, k) ==
  CASE k = "attach" -> "attaching" [] k = "detach" -> "detaching" [] OTHER -> status[v]

UpdateAllowed(v, i) ==
  /\ Exists(v) /\ ~IsError(v)
  /\ ~(inst[v] # None /\ i # None /\ inst[v] # i)
  /\ ~(inst[v] # i /\ IsBusy(v))

(***************************************************************************)
(* Update up to the script it sends: the row read in this step decides     *)
(* both the script and the status written later by UpdateCommit, which for *)
(* a mere change of name is the status it read.  The instance must exist   *)
(* and not be paused.  A failing HyperExecute ends the request before      *)
(* anything is written.                                                    *)
(***************************************************************************)
Update(n, v, i) == \E o \in Outcome :
  LET k == UpdateKind(v, i)
      t == IF k = "detach" THEN inst[v] ELSE i
      c == IF Failed(o) THEN "done" ELSE "sent"
      j == IF k = "keep" THEN "none" ELSE JobAfter(o)
  IN /\ UpdateAllowed(v, i)
     /\ k # "keep" => vm[t] \notin {"paused", "deleted"}
     /\ k = "keep" => o = "delivered"
     /\ MayStart(n, k)
     /\ Become(n, [Free EXCEPT !.kind = k, !.v = v, !.i = t, !.pc = c, !.job = j,
                               !.want = UpdateWant(v, k)])
     /\ UNCHANGED <<status, inst, vm, backup, disk, domains, held, cleared>>

UpdateCommit(n) ==
  /\ op[n].pc = "sent"
  /\ SetStatus(op[n].v, op[n].want)
  /\ Return(n, op[n].job)
  /\ UNCHANGED <<inst, vm, backup, disk, domains, held, cleared>>

(* Get, outside the transaction that follows, and the checks on that copy.   *)
(* (The bound on backup rows is taken here, so that no request waits for it.) *)
ReadVolume(n, k, v) ==
  /\ Exists(v) /\ ~IsBusy(v)
  /\ k \in {"resize", "backup", "snapshot"} => ~IsError(v)
  /\ k \in {"delete", "deleteAPI"} => ~IsAttached(v)
  /\ k \in {"backup", "snapshot"} => \E b \in Backups : backup[b].status = "none"
  /\ Start(n, k, v, "read", "none")
  /\ UNCHANGED <<status, inst, vm, backup, disk, domains, held, cleared>>

ResizeSendUnmarked(n) == \E o \in Outcome :
  /\ op[n].pc = "read" /\ op[n].kind = "resize"
  /\ Return(n, JobAfter(o))
  /\ UNCHANGED <<status, inst, vm, backup, disk, domains, held, cleared>>

(* Resize ends its transaction with a commit even when HyperExecute failed. *)
ResizeSend(n) == \E o \in Outcome :
  /\ op[n].pc = "read" /\ op[n].kind = "resize"
  /\ SetStatus(op[n].v, "resizing")
  /\ Return(n, JobAfter(o))
  /\ UNCHANGED <<inst, vm, backup, disk, domains, held, cleared>>

(***************************************************************************)
(* createBackup and createSnapshot: createBackupModel commits the backup's *)
(* row first.  A backup then marks the volume, and an error takes only     *)
(* that back; a snapshot leaves the volume's row alone.                    *)
(***************************************************************************)
BackupSend(n, b) == \E o \in Outcome :
  /\ op[n].pc = "read" /\ op[n].kind \in {"backup", "snapshot"}
  /\ backup[b].status = "none"
  /\ backup' = [backup EXCEPT ![b] = [status |-> "pending", v |-> op[n].v]]
  /\ IF Failed(o) \/ op[n].kind = "snapshot" THEN UNCHANGED status
                                              ELSE SetStatus(op[n].v, "backuping")
  /\ Become(n, [op[n] EXCEPT !.pc = "done", !.job = JobAfter(o), !.b = b])
  /\ UNCHANGED <<inst, vm, disk, domains, held, cleared>>

DeleteSendNoRollback(n) == \E o \in Outcome :
  /\ op[n].pc = "read" /\ op[n].kind \in {"delete", "deleteAPI"}
  /\ SetStatus(op[n].v, "deleted")
  /\ cleared' = IF o = "refused" THEN cleared ELSE cleared \cup {op[n].v}
  /\ Return(n, JobAfter(o))
  /\ UNCHANGED <<inst, vm, backup, disk, domains, held>>

(***************************************************************************)
(* Delete: the row goes, then clear_volume is sent.  Called from the web   *)
(* view it runs in a transaction and an error restores the row; called     *)
(* from the API, DeleteVolumeByUUID has put the plain database handle in   *)
(* the context, StartTransaction takes it for a transaction in progress,   *)
(* and the deletion stays.                                                 *)
(***************************************************************************)
DeleteSend(n) == \E o \in Outcome :
  /\ op[n].pc = "read" /\ op[n].kind \in {"delete", "deleteAPI"}
  /\ IF Failed(o) /\ op[n].kind = "delete" THEN UNCHANGED status
                                            ELSE SetStatus(op[n].v, "deleted")
  /\ cleared' = IF o = "refused" THEN cleared ELSE cleared \cup {op[n].v}
  /\ Return(n, JobAfter(o))
  /\ UNCHANGED <<inst, vm, backup, disk, domains, held>>

(* Restore reads the backup and the volume; it does not ask whether the volume is busy. *)
RestoreRead(n, b) ==
  LET v == backup[b].v IN
  /\ backup[b].status = "available"
  /\ Exists(v)
  /\ inst[v] # None => vm[inst[v]] = "shut_off"
  /\ MayStart(n, "restore")
  /\ Become(n, [Free EXCEPT !.kind = "restore", !.v = v, !.b = b, !.pc = "read"])
  /\ UNCHANGED <<status, inst, vm, backup, disk, domains, held, cleared>>

RestoreSend(n) == \E o \in Outcome :
  /\ op[n].pc = "read" /\ op[n].kind = "restore"
  /\ IF Failed(o) THEN UNCHANGED status ELSE SetStatus(op[n].v, "restoring")
  /\ Return(n, JobAfter(o))
  /\ UNCHANGED <<inst, vm, backup, disk, domains, held, cleared>>

(* BackupAdmin.Delete; the script that follows reports nothing back. *)
CanDelete(b) == backup[b].status \in {"available", "error"}

DeleteBackup(b) ==
  /\ "deleteBackup" \in Ops
  /\ "overlap" \in Faults \/ \A m \in Slots : ~Serving(m)
  /\ CanDelete(b)
  /\ backup' = [backup EXCEPT ![b].status = "deleted"]
  /\ UNCHANGED <<status, inst, vm, op, disk, domains, held, cleared>>

(***************************************************************************)
(* InstanceAdmin.Delete for an instance with data volumes only: whatever   *)
(* the state of the volumes, the instance is marked and clear_vm is sent.  *)
(***************************************************************************)
DeleteInstance(n, i) == \E o \in Outcome :
  /\ vm[i] # "deleted"
  /\ MayStart(n, "clear")
  /\ Become(n, [Free EXCEPT !.kind = "clear", !.i = i, !.job = JobAfter(o)])
  /\ vm' = IF Failed(o) THEN vm ELSE [vm EXCEPT ![i] = "deleting"]
  /\ UNCHANGED <<status, inst, backup, disk, domains, held, cleared>>

(* ActionVM: the state of a domain, as its script reports it. *)
ActionVM(i, s) ==
  /\ "action" \in Ops
  /\ vm[i] \notin {s, "deleted"}
  /\ vm' = [vm EXCEPT ![i] = s]
  /\ UNCHANGED <<status, inst, backup, op, disk, domains, held, cleared>>

(* The API server stops and starts again. *)
Crash ==
  LET Stop(r) == [r EXCEPT !.pc = "done", !.job = IF @ = "taken" THEN "done" ELSE @]
      Settle(r) == IF r.job \in {"none", "done"} THEN Free ELSE r
  IN /\ "crash" \in Faults
     /\ op' = [n \in Slots |-> Settle(Stop(op[n]))]
     /\ op' # op
     /\ UNCHANGED <<status, inst, vm, backup, disk, domains, held, cleared>>

-----------------------------------------------------------------------------
(* The scripts on the hypervisors *)

Reply(n, good) ==
  /\ op[n].job = "sent"
  /\ op' = [op EXCEPT ![n].job = "replied", ![n].ok = good]
  /\ UNCHANGED <<status, inst, vm, backup, cleared>>

(* attach_volume: virsh attach-device puts the disk in the domain's definition. *)
ScriptAttach(n, good) ==
  LET v == op[n].v
      i == op[n].i
  IN /\ op[n].kind = "attach"
     /\ good => i \in domains
     /\ Reply(n, good)
     /\ disk' = IF good THEN [disk EXCEPT ![v] = @ \cup {i}] ELSE disk
     /\ held' = IF good THEN [held EXCEPT ![v] = @ \cup {i}] ELSE held
     /\ UNCHANGED domains

(* detach_volume: it fails when the domain does not have the disk; until it  *)
(* succeeds the disk stays in the persistent definition.                     *)
ScriptDetach(n, good) ==
  LET v == op[n].v
      i == op[n].i
  IN /\ op[n].kind = "detach"
     /\ good => i \in disk[v]
     /\ Reply(n, good)
     /\ disk' = IF good THEN [disk EXCEPT ![v] = @ \ {i}] ELSE disk
     /\ UNCHANGED <<domains, held>>

(* clear_vm undefines and destroys the domain and always reports. *)
ScriptClear(n) ==
  /\ op[n].kind = "clear"
  /\ Reply(n, TRUE)
  /\ domains' = domains \ {op[n].i}
  /\ disk' = [v \in Volumes |-> disk[v] \ {op[n].i}]
  /\ UNCHANGED held

(* create_volume, resize_volume, create_snapshot and restore_snapshot. *)
ScriptStorage(n, good) ==
  /\ op[n].kind \in {"create", "resize", "backup", "snapshot", "restore"}
  /\ Reply(n, good)
  /\ UNCHANGED <<disk, domains, held>>

(* clear_volume reports nothing. *)
ScriptClearVolume(n) ==
  /\ op[n].kind \in {"delete", "deleteAPI"}
  /\ op[n].job = "sent"
  /\ op' = [op EXCEPT ![n] = Free]
  /\ UNCHANGED <<status, inst, vm, backup, disk, domains, held, cleared>>

Script(n) ==
  \/ \E good \in BOOLEAN : ScriptAttach(n, good) \/ ScriptDetach(n, good) \/ ScriptStorage(n, good)
  \/ ScriptClear(n)
  \/ ScriptClearVolume(n)

-----------------------------------------------------------------------------
(* The callbacks: the rows they Take, then the update and the commit *)

CallbackRowsAlways(r) == IF r.kind = "clear" THEN vm[r.i] # "deleted" ELSE Exists(r.v)

(***************************************************************************)
(* A row that is gone makes the callback return an error, which rolls      *)
(* back: the volume, the instance of clear_vm, or the backup a restore was *)
(* made from.  (When the volume of a finished backup is gone the handler   *)
(* panics on the missing volume, and the deferred commit keeps the         *)
(* backup's new status.)                                                   *)
(***************************************************************************)
CallbackRows(r) ==
  CASE r.kind = "clear" -> vm[r.i] # "deleted"
    [] r.kind = "restore" -> backup[r.b].status # "deleted" /\ Exists(r.v)
    [] r.kind \in {"backup", "snapshot"} -> TRUE
    [] OTHER -> Exists(r.v)

CallbackRead(n) ==
  LET r == op[n]
      i == IF r.kind = "clear" THEN None ELSE inst[r.v]
  IN /\ r.job = "replied"
     /\ Become(n, [r EXCEPT !.job = IF CallbackRows(r) THEN "taken" ELSE "done", !.rd = i])
     /\ UNCHANGED <<status, inst, vm, backup, disk, domains, held, cleared>>

(* A callback's write.  Update does not hold the row's lock while its script *)
(* runs: only the time a script takes keeps the callback behind the commit.  *)
CallbackWrite(n, K) ==
  /\ op[n].job = "taken" /\ op[n].kind \in K
  /\ op[n].pc = "done" \/ "overtake" \in Faults
  /\ Become(n, [op[n] EXCEPT !.job = "done"])
  /\ UNCHANGED <<disk, domains, held, cleared>>

(* The status a callback computes from the instance_id it has read. *)
ByInstance(i) == IF i # None THEN "attached" ELSE "available"

CreateVolume(n) ==
  /\ CallbackWrite(n, {"create"})
  /\ SetStatus(op[n].v, IF op[n].ok THEN "available" ELSE "error")
  /\ UNCHANGED <<inst, vm, backup>>

AttachVolumeUnchecked(n) ==
  /\ CallbackWrite(n, {"attach"})
  /\ SetStatus(op[n].v, IF op[n].ok THEN "attached" ELSE "available")
  /\ inst' = IF Exists(op[n].v) THEN [inst EXCEPT ![op[n].v] = op[n].i] ELSE inst
  /\ UNCHANGED <<vm, backup>>

AttachVolume(n) ==
  LET v == op[n].v IN
  /\ CallbackWrite(n, {"attach"})
  /\ SetStatus(v, IF op[n].ok THEN "attached" ELSE "available")
  /\ inst' = IF op[n].ok /\ Exists(v) THEN [inst EXCEPT ![v] = op[n].i] ELSE inst
  /\ UNCHANGED <<vm, backup>>

DetachVolumeUnchecked(n) ==
  /\ CallbackWrite(n, {"detach"})
  /\ SetStatus(op[n].v, "available")
  /\ inst' = IF Exists(op[n].v) THEN [inst EXCEPT ![op[n].v] = None] ELSE inst
  /\ UNCHANGED <<vm, backup>>

(* The instance_id written back after a failure is the one that was read. *)
DetachVolume(n) ==
  LET v == op[n].v IN
  /\ CallbackWrite(n, {"detach"})
  /\ SetStatus(v, IF op[n].ok THEN "available" ELSE "attached")
  /\ inst' = IF Exists(v) THEN [inst EXCEPT ![v] = IF op[n].ok THEN None ELSE op[n].rd] ELSE inst
  /\ UNCHANGED <<vm, backup>>

ResizeVolumeOnSuccess(n) ==
  /\ CallbackWrite(n, {"resize"})
  /\ IF op[n].ok THEN SetStatus(op[n].v, ByInstance(op[n].rd)) ELSE UNCHANGED status
  /\ UNCHANGED <<inst, vm, backup>>

ResizeVolume(n) ==
  /\ CallbackWrite(n, {"resize"})
  /\ SetStatus(op[n].v, IF op[n].ok THEN ByInstance(op[n].rd) ELSE "error")
  /\ UNCHANGED <<inst, vm, backup>>

BackupVolumeSwapped(n) ==
  /\ CallbackWrite(n, {"backup", "snapshot"})
  /\ backup' = [backup EXCEPT ![op[n].b].status = ByInstance(op[n].rd)]
  /\ SetStatus(op[n].v, IF op[n].ok THEN "available" ELSE "error")
  /\ UNCHANGED <<inst, vm>>

(* One handler for backups and snapshots. *)
BackupVolume(n) ==
  /\ CallbackWrite(n, {"backup", "snapshot"})
  /\ backup' = [backup EXCEPT ![op[n].b].status = IF op[n].ok THEN "available" ELSE "error"]
  /\ SetStatus(op[n].v, ByInstance(op[n].rd))
  /\ UNCHANGED <<inst, vm>>

(* The same update whether the restore succeeded or not. *)
RestoreVolume(n) ==
  /\ CallbackWrite(n, {"restore"})
  /\ SetStatus(op[n].v, ByInstance(op[n].rd))
  /\ UNCHANGED <<inst, vm, backup>>

(* ClearVM and UpdateDataVolumeStatus: every volume of the instance is free. *)
ClearVM(n) ==
  LET i == op[n].i IN
  /\ CallbackWrite(n, {"clear"})
  /\ vm' = [vm EXCEPT ![i] = "deleted"]
  /\ status' = [v \in Volumes |-> IF Exists(v) /\ inst[v] = i THEN "available" ELSE status[v]]
  /\ inst' = [v \in Volumes |-> IF Exists(v) /\ inst[v] = i THEN None ELSE inst[v]]
  /\ UNCHANGED backup

Callback(n) ==
  \/ CallbackRead(n)
  \/ CreateVolume(n) \/ AttachVolume(n) \/ DetachVolume(n) \/ ResizeVolume(n)
  \/ BackupVolume(n) \/ RestoreVolume(n) \/ ClearVM(n)

-----------------------------------------------------------------------------
Request(n) ==
  \/ \E v \in Volumes : Create(n, v)
  \/ \E v \in Volumes, i \in Insts : Update(n, v, i)
  \/ \E v \in Volumes, k \in {"resize", "backup", "snapshot", "delete", "deleteAPI"} : ReadVolume(n, k, v)
  \/ \E b \in Backups : RestoreRead(n, b)
  \/ \E i \in Instances : DeleteInstance(n, i)

Handler(n) ==
  \/ UpdateCommit(n) \/ ResizeSend(n) \/ DeleteSend(n) \/ RestoreSend(n)
  \/ \E b \in Backups : BackupSend(n, b)

Next ==
  \/ \E n \in Slots : Request(n) \/ Handler(n) \/ Script(n) \/ Callback(n)
  \/ \E b \in Backups : DeleteBackup(b)
  \/ \E i \in Instances, s \in {"running", "shut_off", "paused"} : ActionVM(i, s)
  \/ Crash

Spec == Init /\ [][Next]_vars

(* Handlers run to their end, hypervisors run what they are sent, and the   *)
(* callbacks they report are handled; nobody has to make a request.         *)
FairSpec == Spec /\ \A n \in Slots : WF_vars(Handler(n)) /\ WF_vars(Script(n)) /\ WF_vars(Callback(n))

-----------------------------------------------------------------------------
Requests == [kind : Kinds \cup {"none"}, v : Volumes \cup {None}, i : Insts, b : Backups \cup {None},
             pc : {"read", "sent", "done"}, want : Status,
             job : {"none", "sent", "replied", "taken", "done"}, ok : BOOLEAN, rd : Insts]

(* The values of the state. *)
TypeOK ==
  /\ status \in [Volumes -> Status]
  /\ inst \in [Volumes -> Insts]
  /\ vm \in [Instances -> VmStatus]
  /\ backup \in [Backups -> [status : BackupStatus, v : Volumes \cup {None}]]
  /\ op \in [Slots -> Requests]
  /\ disk \in [Volumes -> SUBSET Instances]
  /\ domains \subseteq Instances
  /\ held \in [Volumes -> SUBSET Instances]
  /\ cleared \subseteq Volumes

(***************************************************************************)
(* The row names an instance only if the volume really was attached to it: *)
(* whatever is lost, retried, reordered or crashes, instance_id is never   *)
(* set on the strength of a request alone (Update leaves it to the         *)
(* AttachVolume callback, and a failed DetachVolume writes back what it    *)
(* read).                                                                  *)
(***************************************************************************)
InstanceIdEarned == \A v \in Volumes : inst[v] # None => inst[v] \in held[v]

(***************************************************************************)
(* A volume is attached to one instance at a time: Update refuses to       *)
(* attach a volume that is in use or busy.                                 *)
(***************************************************************************)
NoDoubleAttach == \A v \in Volumes : \A i, j \in disk[v] : i = j

(***************************************************************************)
(* When no request and no script is under way for a volume, a row that     *)
(* says available or attached says what the hypervisors have.              *)
(***************************************************************************)
Quiet(v) == \A n \in Slots : op[n].v = v \/ op[n].kind = "clear" => ~Serving(n) /\ ~InFlight(n)
RowAgreesWithDisk == \A v \in Volumes : Quiet(v) =>
  /\ status[v] = "available" => inst[v] = None /\ disk[v] = {}
  /\ status[v] = "attached" => inst[v] # None /\ disk[v] = {inst[v]}

(***************************************************************************)
(* The row of an attached volume is freed only after the volume was        *)
(* detached (the comment on PET-224 in Update): a volume that is available *)
(* and left alone is in no domain.                                         *)
(***************************************************************************)
FreedMeansDetached == \A v \in Volumes : Quiet(v) /\ status[v] = "available" => disk[v] = {}

(***************************************************************************)
(* A row that is not busy has no script at work on its volume, once the    *)
(* request that sent it has returned: the busy states are what keeps two   *)
(* scripts from working on one volume.                                     *)
(***************************************************************************)
BusyWhileWorking == \A n \in Slots :
  InFlight(n) /\ ~Serving(n) /\ op[n].kind \notin {"delete", "deleteAPI"} => IsBusy(op[n].v)

(***************************************************************************)
(* The storage of a deleted volume is given back: a row goes only together *)
(* with a clear_volume script.                                             *)
(***************************************************************************)
DeletedIsCleared == \A v \in Volumes : status[v] = "deleted" => v \in cleared

(***************************************************************************)
(* A deleted volume stays deleted: no handler or callback that started     *)
(* before the deletion brings its row back (gorm adds deleted_at IS NULL   *)
(* to their updates).                                                      *)
(***************************************************************************)
DeletedStaysDeleted == [][\A v \in Volumes : status[v] = "deleted" => status'[v] = "deleted"]_vars

(***************************************************************************)
(* A deleted volume is attached to no instance: Delete refuses a volume    *)
(* that is attached.                                                       *)
(***************************************************************************)
DeletedIsDetached == \A v \in Volumes : status[v] = "deleted" => disk[v] = {}

(* A busy volume does not stay busy: every script reports in the end.       *)
BusyEnds == \A v \in Volumes : IsBusy(v) ~> ~IsBusy(v)

(* A backup or snapshot that was requested becomes available or fails, even  *)
(* if its volume is deleted meanwhile.                                       *)
BackupEnds == \A b \in Backups : backup[b].status = "pending" ~> backup[b].status # "pending"
=============================================================================
