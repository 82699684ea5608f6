---------------------------- MODULE VolumeProofs ----------------------------
(***************************************************************************)
(* Proofs about Volume, for any number of volumes, instances, backups and  *)
(* requests under way.                                                     *)
(***************************************************************************)
EXTENDS Volume, TLAPS

(* A request is about what its kind needs. *)
RequestOK(r) ==
  /\ r.kind \notin {"none", "clear"} => r.v \in Volumes
  /\ r.kind \in {"attach", "detach", "clear"} => r.i \in Instances
  /\ r.kind = "restore" => r.b \in Backups
  /\ r.kind \in {"backup", "snapshot"} /\ r.job # "none" => r.b \in Backups
  /\ r.kind = "none" => r.pc = "done" /\ r.job = "none" /\ r.v = None
  /\ r.pc = "sent" => r.kind \in {"attach", "detach", "keep"}

(* What a callback is going to write into instance_id was held, and the backup it marks is of a volume. *)
Recalled(r, h, k) ==
  /\ r.kind = "attach" /\ r.ok = TRUE => r.i \in h[r.v]
  /\ r.kind = "detach" /\ r.rd # None => r.rd \in h[r.v]
  /\ r.kind \in {"backup", "snapshot"} /\ r.job # "none" => k[r.b].v \in Volumes

WellFormed ==
  /\ \A n \in Slots : RequestOK(op[n])
  /\ \A b \in Backups : backup[b].status # "none" => backup[b].v \in Volumes

Remembered == \A n \in Slots : Recalled(op[n], held, backup)

IInv == TypeOK /\ WellFormed /\ Remembered /\ InstanceIdEarned

(* Free is a request, and giving a slot up changes no other slot. *)
LEMMA FreeTyped == Free \in Requests
BY Zenon DEF Free, Requests, Insts, Status

LEMMA BecomeFacts ==
  ASSUME op \in [Slots -> Requests], NEW n \in Slots, NEW r \in Requests, Become(n, r)
  PROVE  /\ op' \in [Slots -> Requests]
         /\ op'[n] = r \/ op'[n] = Free
         /\ r.pc # "done" \/ r.job \in {"sent", "replied", "taken"} => op'[n] = r
         /\ \A m \in Slots : m # n => op'[m] = op[m]
BY FreeTyped, Zenon DEF Become

LEMMA SetStatusFacts ==
  ASSUME status \in [Volumes -> Status], NEW v \in Volumes, NEW s \in Status, SetStatus(v, s)
  PROVE  /\ status' \in [Volumes -> Status]
         /\ \A u \in Volumes : u # v \/ ~Exists(u) => status'[u] = status[u]
         /\ Exists(v) => status'[v] = s
BY Zenon DEF SetStatus, Exists

LEMMA FreeRequest == RequestOK(Free) /\ \A h, k : Recalled(Free, h, k)
BY Zenon DEF Free, RequestOK, Recalled

LEMMA HeldGrows ==
  ASSUME IInv, \A v \in Volumes : held[v] \subseteq held'[v],
         \A b \in Backups : backup[b].v \in Volumes => backup'[b].v \in Volumes
  PROVE  \A n \in Slots : Recalled(op[n], held', backup')
BY Zenon DEF IInv, WellFormed, Remembered, RequestOK, Recalled

(* A slot that takes a request that is all right, or is given up. *)
LEMMA SlotStep ==
  ASSUME IInv, NEW n \in Slots, NEW r \in Requests, Become(n, r),
         \A v \in Volumes : held[v] \subseteq held'[v],
         \A b \in Backups : backup[b].v \in Volumes => backup'[b].v \in Volumes,
         \A b \in Backups : backup'[b].status # "none" => backup'[b].v \in Volumes,
         RequestOK(r), Recalled(r, held', backup')
  PROVE  op' \in [Slots -> Requests] /\ WellFormed' /\ Remembered'
<1>1. /\ op' \in [Slots -> Requests]
      /\ op'[n] = r \/ op'[n] = Free
      /\ \A m \in Slots : m # n => op'[m] = op[m]
  BY BecomeFacts, Zenon DEF IInv, TypeOK
<1>2. RequestOK(op'[n]) /\ Recalled(op'[n], held', backup')
  BY <1>1, FreeRequest, Zenon
<1>3. \A m \in Slots : RequestOK(op'[m]) /\ Recalled(op'[m], held', backup')
  BY <1>1, <1>2, HeldGrows, Zenon DEF IInv, WellFormed
<1> QED BY <1>1, <1>3, Zenon DEF WellFormed, Remembered

LEMMA OutcomeFacts ==
  \A o \in Outcome : /\ JobAfter(o) \in {"sent", "none"}
                     /\ o \in {"delivered", "lost", "refused", "ambiguous"}
BY Zenon DEF Outcome, JobAfter

(* The initial states satisfy the invariant. *)
LEMMA InitIInv == Init => IInv
<1> SUFFICES ASSUME Init PROVE IInv BY Zenon
<1>1. TypeOK
  BY FreeTyped, Zenon DEF Init, TypeOK, Status, VmStatus, BackupStatus, Insts
<1>2. WellFormed /\ Remembered
  BY FreeRequest, Zenon DEF Init, WellFormed, Remembered
<1>3. InstanceIdEarned
  BY Zenon DEF Init, InstanceIdEarned
<1> QED BY <1>1, <1>2, <1>3, Zenon DEF IInv

(* The first steps of the requests. *)
LEMMA RequestStep == ASSUME IInv, NEW n \in Slots, Request(n) PROVE IInv'
<1> USE OutcomeFacts
<1>0. TypeOK /\ WellFormed /\ InstanceIdEarned BY Zenon DEF IInv
<1>1. ASSUME NEW v \in Volumes, Create(n, v) PROVE IInv'
  <2>1. PICK o \in Outcome :
          /\ Become(n, [Free EXCEPT !.kind = "create", !.v = v, !.pc = "done", !.job = JobAfter(o)])
          /\ status' = [status EXCEPT ![v] = "pending"]
          /\ UNCHANGED <<inst, vm, backup, disk, domains, held, cleared>>
    BY <1>1, Zenon DEF Create, Start
  <2> DEFINE r == [Free EXCEPT !.kind = "create", !.v = v, !.pc = "done", !.job = JobAfter(o)]
  <2>2. r \in Requests BY FreeTyped, Zenon DEF Requests, Kinds, Free
  <2>3. RequestOK(r) /\ Recalled(r, held', backup') BY Zenon DEF Free, RequestOK, Recalled
  <2>4. op' \in [Slots -> Requests] /\ WellFormed' /\ Remembered'
    <3> HIDE DEF r
    <3> QED BY <1>0, <2>1, <2>2, <2>3, SlotStep, Zenon DEF WellFormed, r
  <2>5. TypeOK' BY <1>0, <2>1, <2>4, Zenon DEF TypeOK, Status, BusyStatus
  <2>6. InstanceIdEarned' BY <1>0, <2>1, Zenon DEF InstanceIdEarned
  <2> QED BY <2>4, <2>5, <2>6, Zenon DEF IInv
<1>2. ASSUME NEW v \in Volumes, NEW i \in Insts, Update(n, v, i) PROVE IInv'
  <2> DEFINE k == UpdateKind(v, i)
             t == IF k = "detach" THEN inst[v] ELSE i
  <2>1. PICK o \in Outcome :
          /\ k # "keep" => vm[t] \notin {"paused", "deleted"}
          /\ Become(n, [Free EXCEPT !.kind = k, !.v = v, !.i = t,
                          !.pc = IF Failed(o) THEN "done" ELSE "sent",
                          !.job = IF k = "keep" THEN "none" ELSE JobAfter(o),
                          !.want = UpdateWant(v, k)])
          /\ UNCHANGED <<status, inst, vm, backup, disk, domains, held, cleared>>
    BY <1>2, Zenon DEF Update
  <2> DEFINE r == [Free EXCEPT !.kind = k, !.v = v, !.i = t,
                     !.pc = IF Failed(o) THEN "done" ELSE "sent",
                     !.job = IF k = "keep" THEN "none" ELSE JobAfter(o),
                     !.want = UpdateWant(v, k)]
  <2>2. /\ k \in {"attach", "detach", "keep"}
        /\ k = "attach" => i # None
        /\ k = "detach" => inst[v] # None
    BY Zenon DEF UpdateKind
  <2>3. t \in Insts /\ (k # "keep" => t \in Instances)
    BY <1>0, <2>2, Zenon DEF TypeOK, Insts
  <2>4. UpdateWant(v, k) \in Status
    BY <1>0, Zenon DEF UpdateWant, TypeOK, Status, BusyStatus
  <2> HIDE DEF k, t
  <2>5. r \in Requests BY <2>2, <2>3, <2>4, FreeTyped, ZenonT(60) DEF Requests, Kinds, Free
  <2>6. RequestOK(r) /\ Recalled(r, held', backup') BY <2>2, <2>3, Zenon DEF Free, RequestOK, Recalled
  <2>7. op' \in [Slots -> Requests] /\ WellFormed' /\ Remembered'
    <3> HIDE DEF r
    <3> QED BY <1>0, <2>1, <2>5, <2>6, SlotStep, Zenon DEF WellFormed, r
  <2>8. TypeOK' BY <1>0, <2>1, <2>7, Zenon DEF TypeOK
  <2>9. InstanceIdEarned' BY <1>0, <2>1, Zenon DEF InstanceIdEarned
  <2> QED BY <2>7, <2>8, <2>9, Zenon DEF IInv
<1>3. ASSUME NEW v \in Volumes, NEW k \in {"resize", "backup", "snapshot", "delete", "deleteAPI"},
             ReadVolume(n, k, v)
      PROVE  IInv'
  <2> DEFINE r == [Free EXCEPT !.kind = k, !.v = v, !.pc = "read", !.job = "none"]
  <2>1. /\ Become(n, r)
        /\ UNCHANGED <<status, inst, vm, backup, disk, domains, held, cleared>>
    BY <1>3, Zenon DEF ReadVolume, Start
  <2>2. r \in Requests BY FreeTyped, Zenon DEF Requests, Kinds, Free
  <2>3. RequestOK(r) /\ Recalled(r, held', backup') BY Zenon DEF Free, RequestOK, Recalled
  <2> HIDE DEF r
  <2>4. op' \in [Slots -> Requests] /\ WellFormed' /\ Remembered'
    BY <1>0, <2>1, <2>2, <2>3, SlotStep, Zenon DEF WellFormed
  <2>5. TypeOK' BY <1>0, <2>1, <2>4, Zenon DEF TypeOK
  <2>6. InstanceIdEarned' BY <1>0, <2>1, Zenon DEF InstanceIdEarned
  <2> QED BY <2>4, <2>5, <2>6, Zenon DEF IInv
<1>4. ASSUME NEW b \in Backups, RestoreRead(n, b) PROVE IInv'
  <2> DEFINE r == [Free EXCEPT !.kind = "restore", !.v = backup[b].v, !.b = b, !.pc = "read"]
  <2>1. /\ Become(n, r)
        /\ backup[b].status = "available"
        /\ UNCHANGED <<status, inst, vm, backup, disk, domains, held, cleared>>
    BY <1>4, Zenon DEF RestoreRead
  <2>2. backup[b].v \in Volumes BY <1>0, <2>1, Zenon DEF WellFormed
  <2>3. r \in Requests BY <2>2, FreeTyped, Zenon DEF Requests, Kinds, Free
  <2>4. RequestOK(r) /\ Recalled(r, held', backup') BY <2>2, Zenon DEF Free, RequestOK, Recalled
  <2> HIDE DEF r
  <2>5. op' \in [Slots -> Requests] /\ WellFormed' /\ Remembered'
    BY <1>0, <2>1, <2>3, <2>4, SlotStep, Zenon DEF WellFormed
  <2>6. TypeOK' BY <1>0, <2>1, <2>5, Zenon DEF TypeOK
  <2>7. InstanceIdEarned' BY <1>0, <2>1, Zenon DEF InstanceIdEarned
  <2> QED BY <2>5, <2>6, <2>7, Zenon DEF IInv
<1>5. ASSUME NEW i \in Instances, DeleteInstance(n, i) PROVE IInv'
  <2>1. PICK o \in Outcome :
          /\ Become(n, [Free EXCEPT !.kind = "clear", !.i = i, !.job = JobAfter(o)])
          /\ vm' = IF Failed(o) THEN vm ELSE [vm EXCEPT ![i] = "deleting"]
          /\ UNCHANGED <<status, inst, backup, disk, domains, held, cleared>>
    BY <1>5, Zenon DEF DeleteInstance
  <2> DEFINE r == [Free EXCEPT !.kind = "clear", !.i = i, !.job = JobAfter(o)]
  <2>2. r \in Requests BY FreeTyped, Zenon DEF Requests, Kinds, Free, Insts
  <2>3. RequestOK(r) /\ Recalled(r, held', backup') BY Zenon DEF Free, RequestOK, Recalled
  <2>4. op' \in [Slots -> Requests] /\ WellFormed' /\ Remembered'
    <3> HIDE DEF r
    <3> QED BY <1>0, <2>1, <2>2, <2>3, SlotStep, Zenon DEF WellFormed, r
  <2>5. TypeOK' BY <1>0, <2>1, <2>4, Zenon DEF TypeOK, VmStatus
  <2>6. InstanceIdEarned' BY <1>0, <2>1, Zenon DEF InstanceIdEarned
  <2> QED BY <2>4, <2>5, <2>6, Zenon DEF IInv
<1> QED BY <1>1, <1>2, <1>3, <1>4, <1>5, Zenon DEF Request

(* The rest of the API's handlers. *)
LEMMA HandlerStep == ASSUME IInv, NEW n \in Slots, Handler(n) PROVE IInv'
<1> USE OutcomeFacts
<1>0. TypeOK /\ WellFormed /\ InstanceIdEarned BY Zenon DEF IInv
<1>1. op[n] \in Requests /\ RequestOK(op[n]) /\ Recalled(op[n], held, backup)
  BY Zenon DEF IInv, TypeOK, WellFormed, Remembered
<1>2. ASSUME UpdateCommit(n) PROVE IInv'
  <2> DEFINE r == [op[n] EXCEPT !.pc = "done", !.job = op[n].job]
  <2>1. /\ Become(n, r) /\ op[n].pc = "sent" /\ SetStatus(op[n].v, op[n].want)
        /\ UNCHANGED <<inst, vm, backup, disk, domains, held, cleared>>
    BY <1>2, Zenon DEF UpdateCommit, Return
  <2>2. op[n].v \in Volumes /\ op[n].want \in Status BY <1>1, <2>1, Zenon DEF RequestOK, Requests
  <2>3. r \in Requests /\ RequestOK(r) /\ Recalled(r, held', backup')
    BY <1>1, <2>1, ZenonT(60) DEF Requests, RequestOK, Recalled
  <2> HIDE DEF r
  <2>4. op' \in [Slots -> Requests] /\ WellFormed' /\ Remembered'
    BY <1>0, <2>1, <2>3, SlotStep, Zenon DEF WellFormed
  <2>5. TypeOK' BY <1>0, <2>1, <2>2, <2>4, SetStatusFacts, Zenon DEF TypeOK
  <2>6. InstanceIdEarned' BY <1>0, <2>1, Zenon DEF InstanceIdEarned
  <2> QED BY <2>4, <2>5, <2>6, Zenon DEF IInv
<1>3. ASSUME ResizeSend(n) PROVE IInv'
  <2>1. PICK o \in Outcome :
          /\ Become(n, [op[n] EXCEPT !.pc = "done", !.job = JobAfter(o)])
          /\ op[n].kind = "resize" /\ SetStatus(op[n].v, "resizing")
          /\ UNCHANGED <<inst, vm, backup, disk, domains, held, cleared>>
    BY <1>3, Zenon DEF ResizeSend, Return
  <2> DEFINE r == [op[n] EXCEPT !.pc = "done", !.job = JobAfter(o)]
  <2>2. op[n].v \in Volumes /\ "resizing" \in Status
    BY <1>1, <2>1, Zenon DEF RequestOK, Status, BusyStatus
  <2>3. r \in Requests /\ RequestOK(r) /\ Recalled(r, held', backup')
    BY <1>1, <2>1, Zenon DEF Requests, RequestOK, Recalled
  <2>4. op' \in [Slots -> Requests] /\ WellFormed' /\ Remembered'
    <3> HIDE DEF r
    <3> QED BY <1>0, <2>1, <2>3, SlotStep, Zenon DEF WellFormed, r
  <2>5. TypeOK' BY <1>0, <2>1, <2>2, <2>4, SetStatusFacts, Zenon DEF TypeOK
  <2>6. InstanceIdEarned' BY <1>0, <2>1, Zenon DEF InstanceIdEarned
  <2> QED BY <2>4, <2>5, <2>6, Zenon DEF IInv
<1>4. ASSUME DeleteSend(n) PROVE IInv'
  <2>1. PICK o \in Outcome :
          /\ Become(n, [op[n] EXCEPT !.pc = "done", !.job = JobAfter(o)])
          /\ op[n].kind \in {"delete", "deleteAPI"}
          /\ IF Failed(o) /\ op[n].kind = "delete" THEN UNCHANGED status
                                                   ELSE SetStatus(op[n].v, "deleted")
          /\ cleared' = IF o = "refused" THEN cleared ELSE cleared \cup {op[n].v}
          /\ UNCHANGED <<inst, vm, backup, disk, domains, held>>
    BY <1>4, Zenon DEF DeleteSend, Return
  <2> DEFINE r == [op[n] EXCEPT !.pc = "done", !.job = JobAfter(o)]
  <2>2. op[n].v \in Volumes /\ "deleted" \in Status BY <1>1, <2>1, Zenon DEF RequestOK, Status
  <2>3. r \in Requests /\ RequestOK(r) /\ Recalled(r, held', backup')
    BY <1>1, <2>1, ZenonT(60) DEF Requests, RequestOK, Recalled
  <2>4. op' \in [Slots -> Requests] /\ WellFormed' /\ Remembered'
    <3> HIDE DEF r
    <3> QED BY <1>0, <2>1, <2>3, SlotStep, Zenon DEF WellFormed, r
  <2>5. status' \in [Volumes -> Status] BY <1>0, <2>1, <2>2, SetStatusFacts, Zenon DEF TypeOK
  <2>6. TypeOK' BY <1>0, <2>1, <2>2, <2>4, <2>5, Zenon DEF TypeOK
  <2>7. InstanceIdEarned' BY <1>0, <2>1, Zenon DEF InstanceIdEarned
  <2> QED BY <2>4, <2>6, <2>7, Zenon DEF IInv
<1>5. ASSUME RestoreSend(n) PROVE IInv'
  <2>1. PICK o \in Outcome :
          /\ Become(n, [op[n] EXCEPT !.pc = "done", !.job = JobAfter(o)])
          /\ op[n].kind = "restore"
          /\ IF Failed(o) THEN UNCHANGED status ELSE SetStatus(op[n].v, "restoring")
          /\ UNCHANGED <<inst, vm, backup, disk, domains, held, cleared>>
    BY <1>5, Zenon DEF RestoreSend, Return
  <2> DEFINE r == [op[n] EXCEPT !.pc = "done", !.job = JobAfter(o)]
  <2>2. op[n].v \in Volumes /\ "restoring" \in Status
    BY <1>1, <2>1, Zenon DEF RequestOK, Status, BusyStatus
  <2>3. r \in Requests /\ RequestOK(r) /\ Recalled(r, held', backup')
    BY <1>1, <2>1, Zenon DEF Requests, RequestOK, Recalled
  <2>4. op' \in [Slots -> Requests] /\ WellFormed' /\ Remembered'
    <3> HIDE DEF r
    <3> QED BY <1>0, <2>1, <2>3, SlotStep, Zenon DEF WellFormed, r
  <2>5. status' \in [Volumes -> Status] BY <1>0, <2>1, <2>2, SetStatusFacts, Zenon DEF TypeOK
  <2>6. TypeOK' BY <1>0, <2>1, <2>4, <2>5, Zenon DEF TypeOK
  <2>7. InstanceIdEarned' BY <1>0, <2>1, Zenon DEF InstanceIdEarned
  <2> QED BY <2>4, <2>6, <2>7, Zenon DEF IInv
<1>6. ASSUME NEW b \in Backups, BackupSend(n, b) PROVE IInv'
  <2>1. PICK o \in Outcome :
          /\ Become(n, [op[n] EXCEPT !.pc = "done", !.job = JobAfter(o), !.b = b])
          /\ op[n].kind \in {"backup", "snapshot"}
          /\ backup' = [backup EXCEPT ![b] = [status |-> "pending", v |-> op[n].v]]
          /\ IF Failed(o) \/ op[n].kind = "snapshot" THEN UNCHANGED status
                                                     ELSE SetStatus(op[n].v, "backuping")
          /\ UNCHANGED <<inst, vm, disk, domains, held, cleared>>
    BY <1>6, Zenon DEF BackupSend
  <2> DEFINE r == [op[n] EXCEPT !.pc = "done", !.job = JobAfter(o), !.b = b]
  <2>2. op[n].v \in Volumes /\ "backuping" \in Status
    BY <1>1, <2>1, Zenon DEF RequestOK, Status, BusyStatus
  <2>4. /\ \A c \in Backups : backup[c].v \in Volumes => backup'[c].v \in Volumes
        /\ \A c \in Backups : backup'[c].status # "none" => backup'[c].v \in Volumes
        /\ backup'[b].v \in Volumes
    BY <1>0, <2>1, <2>2, Zenon DEF WellFormed, TypeOK
  <2>3. r \in Requests /\ RequestOK(r) /\ Recalled(r, held', backup')
    BY <1>1, <2>1, <2>4, Zenon DEF Requests, RequestOK, Recalled
  <2>5. op' \in [Slots -> Requests] /\ WellFormed' /\ Remembered'
    <3> HIDE DEF r
    <3> QED BY <1>0, <2>1, <2>3, <2>4, SlotStep, Zenon DEF r
  <2>6. status' \in [Volumes -> Status] BY <1>0, <2>1, <2>2, SetStatusFacts, Zenon DEF TypeOK
  <2>7. backup' \in [Backups -> [status : BackupStatus, v : Volumes \cup {None}]]
    BY <1>0, <2>1, <2>2, Zenon DEF TypeOK, BackupStatus
  <2>8. TypeOK' BY <1>0, <2>1, <2>5, <2>6, <2>7, Zenon DEF TypeOK
  <2>9. InstanceIdEarned' BY <1>0, <2>1, Zenon DEF InstanceIdEarned
  <2> QED BY <2>5, <2>8, <2>9, Zenon DEF IInv
<1> QED BY <1>2, <1>3, <1>4, <1>5, <1>6, Zenon DEF Handler

(* A script's reply fills in the outcome of its request. *)
LEMMA ReplyStep ==
  ASSUME IInv, NEW n \in Slots, NEW good \in BOOLEAN, Reply(n, good),
         \A v \in Volumes : held[v] \subseteq held'[v],
         op[n].kind = "attach" /\ good = TRUE => op[n].i \in held'[op[n].v]
  PROVE  op' \in [Slots -> Requests] /\ WellFormed' /\ Remembered'
<1> DEFINE r == [op[n] EXCEPT !.job = "replied", !.ok = good]
<1>1. op[n] \in Requests /\ RequestOK(op[n]) /\ Recalled(op[n], held', backup')
  BY HeldGrows, Zenon DEF IInv, TypeOK, WellFormed, Reply
<1>2. op' = [op EXCEPT ![n] = r] /\ op[n].job = "sent" /\ backup' = backup
  BY <1>1, Zenon DEF Reply, IInv, TypeOK, Requests
<1>3. r \in Requests /\ RequestOK(r) /\ Recalled(r, held', backup')
  BY <1>1, <1>2, ZenonT(60) DEF Requests, RequestOK, Recalled
<1>4. Become(n, r) BY <1>1, <1>2, Zenon DEF Become, Requests
<1> HIDE DEF r
<1> QED BY <1>2, <1>3, <1>4, SlotStep, Zenon DEF IInv, WellFormed

(* The scripts. *)
LEMMA ScriptStep == ASSUME IInv, NEW n \in Slots, Script(n) PROVE IInv'
<1>0. TypeOK /\ WellFormed /\ InstanceIdEarned BY Zenon DEF IInv
<1>1. op[n] \in Requests /\ RequestOK(op[n]) BY Zenon DEF IInv, TypeOK, WellFormed
<1>2. ASSUME NEW good \in BOOLEAN, ScriptAttach(n, good) PROVE IInv'
  <2>1. /\ op[n].kind = "attach" /\ Reply(n, good)
        /\ disk' = IF good THEN [disk EXCEPT ![op[n].v] = @ \cup {op[n].i}] ELSE disk
        /\ held' = IF good THEN [held EXCEPT ![op[n].v] = @ \cup {op[n].i}] ELSE held
        /\ UNCHANGED domains
    BY <1>2, Zenon DEF ScriptAttach
  <2>2. op[n].v \in Volumes /\ op[n].i \in Instances BY <1>1, <2>1, Zenon DEF RequestOK
  <2>3. /\ held' \in [Volumes -> SUBSET Instances]
        /\ \A v \in Volumes : held[v] \subseteq held'[v]
        /\ good = TRUE => op[n].i \in held'[op[n].v]
    BY <1>0, <2>1, <2>2, Zenon DEF TypeOK
  <2>4. op' \in [Slots -> Requests] /\ WellFormed' /\ Remembered'
    BY <2>1, <2>3, ReplyStep, Zenon
  <2>5. disk' \in [Volumes -> SUBSET Instances] BY <1>0, <2>1, <2>2, Zenon DEF TypeOK
  <2>6. TypeOK' BY <1>0, <2>1, <2>3, <2>4, <2>5, Zenon DEF TypeOK, Reply
  <2>7. InstanceIdEarned' BY <1>0, <2>1, <2>3, Zenon DEF InstanceIdEarned, Reply
  <2> QED BY <2>4, <2>6, <2>7, Zenon DEF IInv
<1>3. ASSUME NEW good \in BOOLEAN, ScriptDetach(n, good) PROVE IInv'
  <2>1. /\ op[n].kind = "detach" /\ Reply(n, good)
        /\ disk' = IF good THEN [disk EXCEPT ![op[n].v] = @ \ {op[n].i}] ELSE disk
        /\ UNCHANGED <<domains, held>>
    BY <1>3, Zenon DEF ScriptDetach
  <2>2. op' \in [Slots -> Requests] /\ WellFormed' /\ Remembered' BY <2>1, ReplyStep, Zenon
  <2>3. disk' \in [Volumes -> SUBSET Instances] BY <1>0, <2>1, Zenon DEF TypeOK
  <2>4. TypeOK' BY <1>0, <2>1, <2>2, <2>3, Zenon DEF TypeOK, Reply
  <2>5. InstanceIdEarned' BY <1>0, <2>1, Zenon DEF InstanceIdEarned, Reply
  <2> QED BY <2>2, <2>4, <2>5, Zenon DEF IInv
<1>4. ASSUME NEW good \in BOOLEAN, ScriptStorage(n, good) PROVE IInv'
  <2>1. /\ op[n].kind # "attach" /\ Reply(n, good)
        /\ UNCHANGED <<disk, domains, held>>
    BY <1>4, Zenon DEF ScriptStorage
  <2>2. op' \in [Slots -> Requests] /\ WellFormed' /\ Remembered' BY <2>1, ReplyStep, Zenon
  <2>3. TypeOK' BY <1>0, <2>1, <2>2, Zenon DEF TypeOK, Reply
  <2>4. InstanceIdEarned' BY <1>0, <2>1, Zenon DEF InstanceIdEarned, Reply
  <2> QED BY <2>2, <2>3, <2>4, Zenon DEF IInv
<1>5. ASSUME ScriptClear(n) PROVE IInv'
  <2>1. /\ op[n].kind # "attach" /\ Reply(n, TRUE)
        /\ domains' = domains \ {op[n].i}
        /\ disk' = [v \in Volumes |-> disk[v] \ {op[n].i}]
        /\ UNCHANGED held
    BY <1>5, Zenon DEF ScriptClear
  <2>2. op' \in [Slots -> Requests] /\ WellFormed' /\ Remembered' BY <2>1, ReplyStep, Zenon
  <2>3. TypeOK' BY <1>0, <2>1, <2>2, Zenon DEF TypeOK, Reply
  <2>4. InstanceIdEarned' BY <1>0, <2>1, Zenon DEF InstanceIdEarned, Reply
  <2> QED BY <2>2, <2>3, <2>4, Zenon DEF IInv
<1>6. ASSUME ScriptClearVolume(n) PROVE IInv'
  <2>1. /\ op' = [op EXCEPT ![n] = Free]
        /\ UNCHANGED <<status, inst, vm, backup, disk, domains, held, cleared>>
    BY <1>6, Zenon DEF ScriptClearVolume
  <2>2. Become(n, Free) BY <2>1, Zenon DEF Become
  <2>3. op' \in [Slots -> Requests] /\ WellFormed' /\ Remembered'
    BY <1>0, <2>1, <2>2, FreeTyped, FreeRequest, SlotStep, Zenon DEF WellFormed
  <2>4. TypeOK' BY <1>0, <2>1, <2>3, Zenon DEF TypeOK
  <2>5. InstanceIdEarned' BY <1>0, <2>1, Zenon DEF InstanceIdEarned
  <2> QED BY <2>3, <2>4, <2>5, Zenon DEF IInv
<1> QED BY <1>2, <1>3, <1>4, <1>5, <1>6, Zenon DEF Script

(* What every callback's write leaves of the requests. *)
LEMMA CallbackWriteStep ==
  ASSUME IInv, NEW n \in Slots, NEW K, CallbackWrite(n, K),
         \A b \in Backups : backup[b].v \in Volumes => backup'[b].v \in Volumes,
         \A b \in Backups : backup'[b].status # "none" => backup'[b].v \in Volumes
  PROVE  /\ op' \in [Slots -> Requests] /\ WellFormed' /\ Remembered'
         /\ op[n].kind \in K /\ op[n].job = "taken"
         /\ UNCHANGED <<disk, domains, held, cleared>>
<1> DEFINE r == [op[n] EXCEPT !.job = "done"]
<1>1. op[n] \in Requests /\ RequestOK(op[n]) /\ Recalled(op[n], held, backup)
  BY Zenon DEF IInv, TypeOK, WellFormed, Remembered
<1>2. /\ Become(n, r) /\ op[n].kind \in K /\ op[n].job = "taken"
      /\ UNCHANGED <<disk, domains, held, cleared>>
  BY Zenon DEF CallbackWrite
<1>3. r \in Requests /\ RequestOK(r) /\ Recalled(r, held', backup')
  BY <1>1, <1>2, ZenonT(60) DEF Requests, RequestOK, Recalled
<1> HIDE DEF r
<1> QED BY <1>2, <1>3, SlotStep, Zenon

LEMMA StatusAfter ==
  \A i : {"available", "attached", "error"} \subseteq Status /\ ByInstance(i) \in Status
BY Zenon DEF Status, ByInstance

(* The callbacks. *)
LEMMA CallbackStep == ASSUME IInv, NEW n \in Slots, Callback(n) PROVE IInv'
<1>0. TypeOK /\ WellFormed /\ InstanceIdEarned BY Zenon DEF IInv
<1>1. op[n] \in Requests /\ RequestOK(op[n]) /\ Recalled(op[n], held, backup)
  BY Zenon DEF IInv, TypeOK, WellFormed, Remembered
<1>2. ASSUME CallbackRead(n) PROVE IInv'
  <2> DEFINE i == IF op[n].kind = "clear" THEN None ELSE inst[op[n].v]
             j == IF CallbackRows(op[n]) THEN "taken" ELSE "done"
             r == [op[n] EXCEPT !.job = j, !.rd = i]
  <2>1. /\ op[n].job = "replied" /\ Become(n, r)
        /\ UNCHANGED <<status, inst, vm, backup, disk, domains, held, cleared>>
    BY <1>2, Zenon DEF CallbackRead
  <2>2. /\ op[n].kind # "none"
        /\ op[n].kind # "clear" => op[n].v \in Volumes
    BY <1>1, <2>1, Zenon DEF RequestOK
  <2>3. i \in Insts BY <1>0, <2>2, Zenon DEF TypeOK, Insts
  <2>4. op[n].kind = "detach" /\ i # None => i \in held[op[n].v]
    BY <1>0, <2>2, Zenon DEF InstanceIdEarned
  <2>5. j \in {"taken", "done"} BY Zenon
  <2> HIDE DEF i, j
  <2>6. r \in Requests BY <1>1, <2>3, <2>5, Zenon DEF Requests
  <2>7. RequestOK(r) BY <1>1, <2>1, <2>2, <2>5, Zenon DEF RequestOK, Requests
  <2>8. Recalled(r, held', backup') BY <1>1, <2>1, <2>4, Zenon DEF Recalled, Requests
  <2> HIDE DEF r
  <2>9. op' \in [Slots -> Requests] /\ WellFormed' /\ Remembered'
    BY <1>0, <2>1, <2>6, <2>7, <2>8, SlotStep, Zenon DEF WellFormed
  <2>10. TypeOK' BY <1>0, <2>1, <2>9, Zenon DEF TypeOK
  <2>11. InstanceIdEarned' BY <1>0, <2>1, Zenon DEF InstanceIdEarned
  <2> QED BY <2>9, <2>10, <2>11, Zenon DEF IInv
<1>3. ASSUME CreateVolume(n) \/ ResizeVolume(n) \/ RestoreVolume(n) PROVE IInv'
  <2>1. PICK s \in Status, K \in {{"create"}, {"resize"}, {"restore"}} :
          CallbackWrite(n, K) /\ SetStatus(op[n].v, s) /\ UNCHANGED <<inst, vm, backup>>
    BY <1>3, StatusAfter, Zenon DEF CreateVolume, ResizeVolume, RestoreVolume
  <2>2. /\ op' \in [Slots -> Requests] /\ WellFormed' /\ Remembered'
        /\ op[n].kind \in K
        /\ UNCHANGED <<disk, domains, held, cleared>>
    BY <1>0, <2>1, CallbackWriteStep, Zenon DEF WellFormed
  <2>3. op[n].v \in Volumes BY <1>1, <2>2, Zenon DEF RequestOK
  <2>4. TypeOK' BY <1>0, <2>1, <2>2, <2>3, SetStatusFacts, Zenon DEF TypeOK
  <2>5. InstanceIdEarned' BY <1>0, <2>1, <2>2, Zenon DEF InstanceIdEarned
  <2> QED BY <2>2, <2>4, <2>5, Zenon DEF IInv
<1>4. ASSUME AttachVolume(n) PROVE IInv'
  <2>1. /\ CallbackWrite(n, {"attach"})
        /\ SetStatus(op[n].v, IF op[n].ok THEN "attached" ELSE "available")
        /\ inst' = IF op[n].ok /\ Exists(op[n].v) THEN [inst EXCEPT ![op[n].v] = op[n].i] ELSE inst
        /\ UNCHANGED <<vm, backup>>
    BY <1>4, Zenon DEF AttachVolume
  <2>2. /\ op' \in [Slots -> Requests] /\ WellFormed' /\ Remembered'
        /\ op[n].kind = "attach"
        /\ UNCHANGED <<disk, domains, held, cleared>>
    BY <1>0, <2>1, CallbackWriteStep DEF WellFormed
  <2>3. op[n].v \in Volumes /\ op[n].i \in Instances BY <1>1, <2>2, Zenon DEF RequestOK
  <2>4. op[n].ok = TRUE => op[n].i \in held[op[n].v] BY <1>1, <2>2, Zenon DEF Recalled
  <2>5. status' \in [Volumes -> Status] BY <1>0, <2>1, <2>3, StatusAfter, SetStatusFacts, ZenonT(60) DEF TypeOK
  <2>6. TypeOK' BY <1>0, <2>1, <2>2, <2>3, <2>5, Zenon DEF TypeOK, Insts
  <2>7. InstanceIdEarned'
    <3>1. op[n].ok \in BOOLEAN BY <1>1, Zenon DEF Requests
    <3> QED BY <1>0, <2>1, <2>2, <2>3, <2>4, <3>1, Zenon DEF InstanceIdEarned, TypeOK
  <2> QED BY <2>2, <2>6, <2>7, Zenon DEF IInv
<1>5. ASSUME DetachVolume(n) PROVE IInv'
  <2>1. /\ CallbackWrite(n, {"detach"})
        /\ SetStatus(op[n].v, IF op[n].ok THEN "available" ELSE "attached")
        /\ inst' = IF Exists(op[n].v)
                   THEN [inst EXCEPT ![op[n].v] = IF op[n].ok THEN None ELSE op[n].rd] ELSE inst
        /\ UNCHANGED <<vm, backup>>
    BY <1>5, Zenon DEF DetachVolume
  <2>2. /\ op' \in [Slots -> Requests] /\ WellFormed' /\ Remembered'
        /\ op[n].kind = "detach"
        /\ UNCHANGED <<disk, domains, held, cleared>>
    BY <1>0, <2>1, CallbackWriteStep DEF WellFormed
  <2>3. op[n].v \in Volumes /\ op[n].rd \in Insts BY <1>1, <2>2, Zenon DEF RequestOK, Requests
  <2>4. op[n].rd # None => op[n].rd \in held[op[n].v] BY <1>1, <2>2, Zenon DEF Recalled
  <2>5. status' \in [Volumes -> Status] BY <1>0, <2>1, <2>3, StatusAfter, SetStatusFacts, ZenonT(60) DEF TypeOK
  <2>6. TypeOK' BY <1>0, <2>1, <2>2, <2>3, <2>5, SMTT(40) DEF TypeOK, Insts
  <2>7. InstanceIdEarned' BY <1>0, <2>1, <2>2, <2>3, <2>4, SMTT(40) DEF InstanceIdEarned, TypeOK
  <2> QED BY <2>2, <2>6, <2>7, Zenon DEF IInv
<1>6. ASSUME BackupVolume(n) PROVE IInv'
  <2>1. /\ CallbackWrite(n, {"backup", "snapshot"})
        /\ backup' = [backup EXCEPT ![op[n].b].status = IF op[n].ok THEN "available" ELSE "error"]
        /\ SetStatus(op[n].v, ByInstance(op[n].rd))
        /\ UNCHANGED <<inst, vm>>
    BY <1>6, Zenon DEF BackupVolume
  <2>2. /\ op[n].kind \in {"backup", "snapshot"} /\ op[n].job = "taken"
    BY <2>1, Zenon DEF CallbackWrite
  <2>3. op[n].v \in Volumes /\ op[n].b \in Backups BY <1>1, <2>2, Zenon DEF RequestOK
  <2>4. backup' \in [Backups -> [status : BackupStatus, v : Volumes \cup {None}]]
    BY <1>0, <2>1, <2>3 DEF TypeOK, BackupStatus
  <2>5. \A b \in Backups : backup'[b].v = backup[b].v BY <1>0, <2>1, Zenon DEF TypeOK
  <2>6. \A b \in Backups : b # op[n].b => backup'[b] = backup[b] BY <1>0, <2>1, Zenon DEF TypeOK
  <2>7. /\ op' \in [Slots -> Requests] /\ Remembered'
        /\ \A b \in Backups : backup'[b].status # "none" => backup'[b].v \in Volumes
        /\ WellFormed'
        /\ UNCHANGED <<disk, domains, held, cleared>>
    <3>1. backup[op[n].b].v \in Volumes BY <1>1, <2>2, Zenon DEF Recalled
    <3>2. \A b \in Backups : backup'[b].status # "none" => backup'[b].v \in Volumes
      BY <1>0, <2>3, <2>5, <2>6, <3>1, Zenon DEF WellFormed
    <3> QED BY <2>1, <3>2, CallbackWriteStep
  <2>8. TypeOK' BY <1>0, <2>1, <2>3, <2>4, <2>7, StatusAfter, SetStatusFacts, Zenon DEF TypeOK
  <2>9. InstanceIdEarned' BY <1>0, <2>1, <2>7, Zenon DEF InstanceIdEarned
  <2> QED BY <2>7, <2>8, <2>9, Zenon DEF IInv
<1>7. ASSUME ClearVM(n) PROVE IInv'
  <2>1. /\ CallbackWrite(n, {"clear"})
        /\ vm' = [vm EXCEPT ![op[n].i] = "deleted"]
        /\ status' = [v \in Volumes |-> IF Exists(v) /\ inst[v] = op[n].i THEN "available" ELSE status[v]]
        /\ inst' = [v \in Volumes |-> IF Exists(v) /\ inst[v] = op[n].i THEN None ELSE inst[v]]
        /\ UNCHANGED backup
    BY <1>7, Zenon DEF ClearVM
  <2>2. /\ op' \in [Slots -> Requests] /\ WellFormed' /\ Remembered'
        /\ UNCHANGED <<disk, domains, held, cleared>>
    BY <1>0, <2>1, CallbackWriteStep, Zenon DEF WellFormed
  <2>3. TypeOK' BY <1>0, <2>1, <2>2, ZenonT(60) DEF TypeOK, VmStatus, Status, Insts
  <2>4. InstanceIdEarned' BY <1>0, <2>1, <2>2, Zenon DEF InstanceIdEarned
  <2> QED BY <2>2, <2>3, <2>4, Zenon DEF IInv
<1> QED BY <1>2, <1>3, <1>4, <1>5, <1>6, <1>7, Zenon DEF Callback

(* The inductive step. *)
LEMMA NextIInv == IInv /\ [Next]_vars => IInv'
<1> SUFFICES ASSUME IInv, [Next]_vars PROVE IInv' BY Zenon
<1>0. TypeOK /\ WellFormed /\ Remembered /\ InstanceIdEarned BY Zenon DEF IInv
<1>1. ASSUME NEW n \in Slots, Request(n) \/ Handler(n) \/ Script(n) \/ Callback(n) PROVE IInv'
  BY <1>1, RequestStep, HandlerStep, ScriptStep, CallbackStep, Zenon
<1>2. ASSUME NEW b \in Backups, DeleteBackup(b) PROVE IInv'
  <2>1. /\ backup' = [backup EXCEPT ![b].status = "deleted"] /\ CanDelete(b)
        /\ UNCHANGED <<status, inst, vm, op, disk, domains, held, cleared>>
    BY <1>2, Zenon DEF DeleteBackup
  <2>2. TypeOK' BY <1>0, <2>1, SMTT(40) DEF TypeOK, BackupStatus
  <2>3. \A c \in Backups : backup'[c].v = backup[c].v /\ (c # b => backup'[c] = backup[c])
    BY <1>0, <2>1, Zenon DEF TypeOK
  <2>4. WellFormed' BY <1>0, <2>1, <2>3, Zenon DEF WellFormed, CanDelete
  <2>5. Remembered'
    <3>1. \A n \in Slots : Recalled(op[n], held', backup') BY <2>1, <2>3, HeldGrows, Zenon
    <3> QED BY <2>1, <3>1, Zenon DEF Remembered
  <2> QED BY <1>0, <2>1, <2>2, <2>4, <2>5, Zenon DEF IInv, InstanceIdEarned
<1>3. ASSUME NEW i \in Instances, NEW s \in {"running", "shut_off", "paused"}, ActionVM(i, s) PROVE IInv'
  <2>1. vm' = [vm EXCEPT ![i] = s] /\ UNCHANGED <<status, inst, backup, op, disk, domains, held, cleared>>
    BY <1>3, Zenon DEF ActionVM
  <2>2. TypeOK' BY <1>0, <2>1, Zenon DEF TypeOK, VmStatus
  <2> QED BY <1>0, <2>1, <2>2, Zenon DEF IInv, WellFormed, Remembered, InstanceIdEarned
<1>4. ASSUME Crash PROVE IInv'
  <2> DEFINE Stop(r) == [r EXCEPT !.pc = "done", !.job = IF @ = "taken" THEN "done" ELSE @]
             Settle(r) == IF r.job \in {"none", "done"} THEN Free ELSE r
  <2>1. op' = [n \in Slots |-> Settle(Stop(op[n]))]
        /\ UNCHANGED <<status, inst, vm, backup, disk, domains, held, cleared>>
    BY <1>4, Zenon DEF Crash
  <2>2. ASSUME NEW n \in Slots
        PROVE  /\ op'[n] \in Requests /\ RequestOK(op'[n]) /\ Recalled(op'[n], held, backup)
    <3>1. op[n] \in Requests /\ RequestOK(op[n]) /\ Recalled(op[n], held, backup)
      BY <1>0, Zenon DEF TypeOK, WellFormed, Remembered
    <3>2. /\ Stop(op[n]) \in Requests
          /\ Stop(op[n]).pc = "done"
          /\ Stop(op[n]).job = IF op[n].job = "taken" THEN "done" ELSE op[n].job
          /\ Stop(op[n]).kind = op[n].kind /\ Stop(op[n]).v = op[n].v /\ Stop(op[n]).i = op[n].i
          /\ Stop(op[n]).b = op[n].b /\ Stop(op[n]).ok = op[n].ok /\ Stop(op[n]).rd = op[n].rd
      BY <3>1, ZenonT(60) DEF Requests
    <3> HIDE DEF Stop
    <3>3. RequestOK(Stop(op[n])) BY <3>1, <3>2, Zenon DEF RequestOK
    <3>4. Recalled(Stop(op[n]), held, backup) BY <3>1, <3>2, Zenon DEF Recalled
    <3> QED BY <2>1, <3>2, <3>3, <3>4, FreeTyped, FreeRequest, Zenon
  <2>3. TypeOK' BY <1>0, <2>1, <2>2, Zenon DEF TypeOK
  <2>4. WellFormed' /\ Remembered' BY <1>0, <2>1, <2>2, ZenonT(60) DEF WellFormed, Remembered
  <2>5. InstanceIdEarned' BY <1>0, <2>1, Zenon DEF InstanceIdEarned
  <2> QED BY <2>3, <2>4, <2>5, Zenon DEF IInv
<1>5. CASE UNCHANGED vars
  BY <1>0, <1>5, Zenon DEF vars, IInv, TypeOK, WellFormed, Remembered, InstanceIdEarned
<1> QED BY <1>1, <1>2, <1>3, <1>4, <1>5, Zenon DEF Next

(***************************************************************************)
(* The invariant holds in every reachable state.                           *)
(***************************************************************************)
THEOREM Inductive == Spec => []IInv
BY InitIInv, NextIInv, PTL DEF Spec

(***************************************************************************)
(* Whatever requests overlap and whatever is lost, fails, overtakes or     *)
(* crashes, the instance_id column names only instances the volume really  *)
(* was attached to (AttachVolume and DetachVolume in the callbacks).       *)
(***************************************************************************)
THEOREM RowNamesEarned == Spec => []InstanceIdEarned
<1>1. IInv => InstanceIdEarned BY Zenon DEF IInv
<1> QED BY <1>1, Inductive, PTL

(***************************************************************************)
(* No handler or callback that was under way when a volume was deleted     *)
(* brings its row back.                                                    *)
(***************************************************************************)
THEOREM RowsStayDeleted == Spec => DeletedStaysDeleted
<1> DEFINE A == \A v \in Volumes : status[v] = "deleted" => status'[v] = "deleted"
<1>1. ASSUME NEW u, NEW s, SetStatus(u, s), TypeOK PROVE A
  BY <1>1, Zenon DEF SetStatus, Exists, TypeOK
<1>2. ASSUME NEW n \in Slots, Request(n), TypeOK PROVE A
  BY <1>2, ZenonT(60) DEF Request, Create, Update, ReadVolume, RestoreRead, DeleteInstance, TypeOK
<1>3. ASSUME NEW n \in Slots, Handler(n), TypeOK PROVE A
  BY <1>1, <1>3, ZenonT(60) DEF Handler, UpdateCommit, ResizeSend, DeleteSend, RestoreSend, BackupSend
<1>4. ASSUME NEW n \in Slots, Script(n), TypeOK PROVE A
  BY <1>4, Zenon DEF Script, ScriptAttach, ScriptDetach, ScriptClear, ScriptStorage, ScriptClearVolume, Reply
<1>5. ASSUME NEW n \in Slots, Callback(n), TypeOK PROVE A
  <2>1. ASSUME ClearVM(n) PROVE A BY <2>1, <1>5, Zenon DEF ClearVM, Exists, TypeOK
  <2>2. ASSUME CallbackRead(n) PROVE A BY <2>2, Zenon DEF CallbackRead
  <2> QED BY <1>1, <1>5, <2>1, <2>2, Zenon
        DEF Callback, CreateVolume, AttachVolume, DetachVolume, ResizeVolume, BackupVolume, RestoreVolume
<1>6. ASSUME TypeOK, Next PROVE A
  BY <1>2, <1>3, <1>4, <1>5, <1>6, Zenon DEF Next, DeleteBackup, ActionVM, Crash
<1>7. IInv /\ [Next]_vars => [A]_vars BY <1>6, SMTT(40) DEF IInv
<1> QED BY <1>7, Inductive, PTL DEF Spec, DeletedStaysDeleted

-----------------------------------------------------------------------------
(***************************************************************************)
(* The requests and faults under which the busy states protect a volume:   *)
(* API requests one at a time, no snapshot, no restore, no deletion of     *)
(* instances, HyperExecute never fails after having sent, no crash.        *)
(* Scripts may be lost or fail, and callbacks may overtake their requests. *)
(***************************************************************************)
GuardedOps == {"create", "attach", "detach", "keep", "resize", "backup", "delete",
               "deleteBackup", "action"}
GuardedFaults == {"lost", "refused", "overtake"}
Guarded == Ops \subseteq GuardedOps /\ Faults \subseteq GuardedFaults

Srv(r) == r.pc \in {"read", "sent"}
Fly(r) == r.job \in {"sent", "replied", "taken"}
Mover(r) == r.kind \in {"attach", "detach"} /\ Fly(r)
Won(r) == r.ok = TRUE /\ r.job \in {"replied", "taken"}

(* Two requests: one handler at a time; one job per volume; and while a job is *)
(* at work on a volume, a handler for it will only rewrite a busy status.      *)
Apart(r, q) ==
  /\ ~(Srv(r) /\ Srv(q))
  /\ r.v = q.v /\ Fly(r) => ~Fly(q) /\ (Srv(q) => q.kind = "keep" /\ q.want \in BusyStatus)

(* A request and its volume, whose row says s and i and which is in the domains d. *)
Follows(r, s, i, d) ==
  /\ s # "none"
  /\ Fly(r) => Srv(r) \/ s \in BusyStatus \/ (s = "deleted" /\ r.kind = "delete")
  /\ Srv(r) => s # "deleted"
  /\ r.pc = "read" => s \notin BusyStatus /\ ~Fly(r) /\ r.kind \in {"resize", "backup", "delete"}
  /\ r.kind = "keep" => ~Fly(r)
  /\ r.pc = "sent" /\ r.kind = "attach" => r.want = "attaching"
  /\ r.pc = "sent" /\ r.kind = "detach" => r.want = "detaching"
  /\ r.pc = "sent" /\ r.kind = "keep" /\ r.want \notin BusyStatus => s = r.want
  /\ r.kind = "attach" /\ Fly(r) => i = None /\ d = IF Won(r) THEN {r.i} ELSE {}
  /\ r.kind = "detach" /\ Fly(r) => i = r.i /\ d = IF Won(r) THEN {} ELSE {r.i}
  /\ r.kind = "create" /\ Fly(r) => i = None
  /\ r.kind = "delete" => r.job \notin {"replied", "taken"}
  /\ r.job = "taken" => r.rd = i

(* A row, and the domains when nothing is moving the volume. *)
RowOK(s, i) == /\ s \in {"none", "available"} => i = None
               /\ s = "attached" => i # None

Where(i) == IF i = None THEN {} ELSE {i}

KindsGuarded == \A n \in Slots : op[n].kind \in GuardedOps \cup {"none"}
AllApart == \A m, n \in Slots : m # n => Apart(op[m], op[n])
AllFollow == \A n \in Slots : op[n].kind # "none" =>
               Follows(op[n], status[op[n].v], inst[op[n].v], disk[op[n].v])
RowsOK == \A v \in Volumes : RowOK(status[v], inst[v])
Settled == \A v \in Volumes :
  (\A n \in Slots : op[n].v = v => ~Mover(op[n])) => disk[v] = Where(inst[v])

GInv == KindsGuarded /\ AllApart /\ AllFollow /\ RowsOK /\ Settled

(* A step in which request n, on volume v, becomes r: no other row moves, r and *)
(* the other requests stay apart, and every request on v follows its new row.   *)
Fits(n, v, r) ==
  /\ Become(n, r) /\ r.v = v /\ r.kind \in GuardedOps /\ (op[n] = Free \/ op[n].v = v)
  /\ \A u \in Volumes : u # v => status'[u] = status[u] /\ inst'[u] = inst[u] /\ disk'[u] = disk[u]
  /\ \A m \in Slots : m # n => Apart(op[m], r) /\ Apart(r, op[m])
  /\ \A m \in Slots : m # n /\ op[m].v = v => Follows(op[m], status'[v], inst'[v], disk'[v])
  /\ Follows(r, status'[v], inst'[v], disk'[v])
  /\ RowOK(status'[v], inst'[v])
  /\ ~Mover(r) /\ (\A m \in Slots : m # n /\ op[m].v = v => ~Mover(op[m]))
       => disk'[v] = Where(inst'[v])

LEMMA GuardedStep ==
  ASSUME IInv, GInv, NEW n \in Slots, NEW v \in Volumes, NEW r \in Requests, Fits(n, v, r)
  PROVE  GInv'
<1>1. Become(n, r) /\ r.v = v /\ r.kind \in GuardedOps /\ (op[n] = Free \/ op[n].v = v)
  BY ZenonT(60) DEF Fits
<1>2. \A u \in Volumes : u # v => status'[u] = status[u] /\ inst'[u] = inst[u] /\ disk'[u] = disk[u]
  BY ZenonT(60) DEF Fits
<1>3. \A m \in Slots : m # n => Apart(op[m], r) /\ Apart(r, op[m])
  BY ZenonT(60) DEF Fits
<1>4. \A m \in Slots : m # n /\ op[m].v = v => Follows(op[m], status'[v], inst'[v], disk'[v])
  BY ZenonT(60) DEF Fits
<1>5. Follows(r, status'[v], inst'[v], disk'[v]) /\ RowOK(status'[v], inst'[v])
  BY ZenonT(60) DEF Fits
<1>6. ~Mover(r) /\ (\A m \in Slots : m # n /\ op[m].v = v => ~Mover(op[m]))
        => disk'[v] = Where(inst'[v])
  BY ZenonT(60) DEF Fits
<1>7. /\ op' \in [Slots -> Requests]
      /\ op'[n] = r \/ op'[n] = Free
      /\ r.pc # "done" \/ r.job \in {"sent", "replied", "taken"} => op'[n] = r
      /\ \A m \in Slots : m # n => op'[m] = op[m]
  BY <1>1, BecomeFacts, Zenon DEF IInv, TypeOK
<1>8. /\ Free.kind = "none" /\ ~Srv(Free) /\ ~Fly(Free) /\ ~Mover(Free) /\ Free.v \notin Volumes
  BY NoneAssumption, ZenonT(60) DEF Free, Srv, Fly, Mover
<1>9. KindsGuarded' BY <1>1, <1>7, <1>8, ZenonT(60) DEF GInv, KindsGuarded
<1>10. AllApart'
  <2>1. \A q : Apart(Free, q) /\ Apart(q, Free) BY <1>8, ZenonT(60) DEF Apart
  <2>2. ASSUME NEW m \in Slots, m # n PROVE Apart(op[m], op'[n]) /\ Apart(op'[n], op[m])
    <3>1. CASE op'[n] = r BY <1>3, <2>2, <3>1, ZenonT(60)
    <3>2. CASE op'[n] = Free BY <2>1, <3>2, ZenonT(60)
    <3> QED BY <1>7, <3>1, <3>2, Zenon
  <2> QED BY <1>7, <2>2, ZenonT(60) DEF GInv, AllApart
<1>11. AllFollow'
  <2>1. \A m \in Slots : op[m].kind # "none" => op[m].v \in Volumes
    BY SMTT(40) DEF IInv, WellFormed, RequestOK, GInv, KindsGuarded, GuardedOps
  <2>2. ASSUME NEW m \in Slots, m # n, op[m].kind # "none"
        PROVE  Follows(op[m], status'[op[m].v], inst'[op[m].v], disk'[op[m].v])
    <3>1. Follows(op[m], status[op[m].v], inst[op[m].v], disk[op[m].v])
      BY <2>2, ZenonT(60) DEF GInv, AllFollow
    <3>2. CASE op[m].v = v BY <1>4, <2>2, <3>2, ZenonT(60)
    <3>3. CASE op[m].v # v BY <1>2, <2>1, <2>2, <3>1, <3>3, SMTT(40)
    <3> QED BY <3>2, <3>3, Zenon
  <2>3. op'[n].kind # "none" => Follows(op'[n], status'[op'[n].v], inst'[op'[n].v], disk'[op'[n].v])
    BY <1>1, <1>5, <1>7, <1>8, SMTT(40)
  <2> QED BY <1>7, <2>2, <2>3, SMTT(40) DEF AllFollow
<1>12. RowsOK'
  <2> SUFFICES ASSUME NEW u \in Volumes PROVE RowOK(status'[u], inst'[u]) BY Zenon DEF RowsOK
  <2>1. RowOK(status[u], inst[u]) BY Zenon DEF GInv, RowsOK
  <2> QED BY <1>2, <1>5, <2>1, SMTT(40)
<1>13. Settled'
  <2> SUFFICES ASSUME NEW u \in Volumes, \A m \in Slots : op'[m].v = u => ~Mover(op'[m])
               PROVE  disk'[u] = Where(inst'[u])
    BY Zenon DEF Settled
  <2>1. \A m \in Slots : m # n /\ op[m].v = u => ~Mover(op[m]) BY <1>7, SMTT(40)
  <2>2. CASE u = v
    <3>1. Mover(r) => op'[n] = r BY <1>7, SMTT(40) DEF Mover, Fly
    <3>2. ~Mover(r) BY <1>1, <2>2, <3>1, SMTT(40)
    <3> QED BY <1>6, <2>1, <2>2, <3>2, SMTT(40)
  <2>3. CASE u # v
    <3>1. op[n].v # u BY <1>1, <1>8, <2>3, SMTT(40)
    <3>2. \A m \in Slots : op[m].v = u => ~Mover(op[m]) BY <2>1, <3>1, SMTT(40)
    <3>3. disk[u] = Where(inst[u]) BY <3>2, SMTT(40) DEF GInv, Settled
    <3> QED BY <1>2, <2>3, <3>3, SMTT(40)
  <2> QED BY <2>2, <2>3, Zenon
<1> QED BY <1>9, <1>10, <1>11, <1>12, <1>13, Zenon DEF GInv

(* What the invariants say of one request and the others. *)
LEMMA GuardedFacts ==
  ASSUME IInv, GInv, NEW n \in Slots, op[n].kind # "none"
  PROVE  /\ op[n] \in Requests /\ RequestOK(op[n])
         /\ op[n].v \in Volumes /\ op[n].kind \in GuardedOps
         /\ Follows(op[n], status[op[n].v], inst[op[n].v], disk[op[n].v])
         /\ \A m \in Slots : m # n => Apart(op[m], op[n]) /\ Apart(op[n], op[m])
         /\ \A m \in Slots : op[m].v = op[n].v =>
              Follows(op[m], status[op[n].v], inst[op[n].v], disk[op[n].v])
         /\ RowOK(status[op[n].v], inst[op[n].v])
         /\ (\A m \in Slots : op[m].v = op[n].v => ~Mover(op[m])) =>
              disk[op[n].v] = Where(inst[op[n].v])
<1>1. /\ op[n] \in Requests /\ RequestOK(op[n])
      /\ op[n].v \in Volumes /\ op[n].kind \in GuardedOps
  BY SMTT(40) DEF IInv, TypeOK, WellFormed, RequestOK, GInv, KindsGuarded, GuardedOps
<1>2. \A m \in Slots : op[m].v = op[n].v => op[m].kind # "none"
  BY <1>1, NoneAssumption, Zenon DEF IInv, WellFormed, RequestOK
<1> QED BY <1>1, <1>2, Zenon DEF GInv, AllFollow, AllApart, RowsOK, Settled

(* A request starts when no other is being served, in a slot that is free. *)
LEMMA GuardedStart ==
  ASSUME Guarded, NEW n \in Slots, NEW k, MayStart(n, k)
  PROVE  k \in GuardedOps /\ op[n] = Free /\ \A m \in Slots : ~Srv(op[m])
BY Zenon DEF Guarded, GuardedOps, GuardedFaults, MayStart, Serving, Srv

LEMMA GuardedOutcome ==
  ASSUME Guarded
  PROVE  \A o \in Outcome : /\ o \in {"delivered", "lost", "refused"}
                            /\ JobAfter(o) = IF o = "delivered" THEN "sent" ELSE "none"
                            /\ Failed(o) <=> o = "refused"
BY Zenon DEF Guarded, GuardedFaults, Outcome, JobAfter, Failed

LEMMA GuardedRequest ==
  ASSUME Guarded, IInv, GInv, NEW n \in Slots, Request(n)
  PROVE  GInv'
<1>0. TypeOK BY SMTT(40) DEF IInv
<1>1. ASSUME NEW v \in Volumes PROVE
        /\ RowOK(status[v], inst[v])
        /\ (\A m \in Slots : op[m].v = v => ~Mover(op[m])) => disk[v] = Where(inst[v])
        /\ \A m \in Slots : op[m].v = v =>
             /\ op[m].kind # "none"
             /\ Follows(op[m], status[v], inst[v], disk[v])
             /\ op[m].v = v
  <2>1. \A m \in Slots : op[m].v = v => op[m].kind # "none"
    BY NoneAssumption, Zenon DEF IInv, WellFormed, RequestOK
  <2> QED BY <2>1, Zenon DEF GInv, RowsOK, Settled, AllFollow
<1>2. ASSUME NEW v \in Volumes, Create(n, v) PROVE GInv'
  <2>1. PICK o \in Outcome :
          /\ MayStart(n, "create") /\ status[v] = "none"
          /\ Become(n, [Free EXCEPT !.kind = "create", !.v = v, !.pc = "done", !.job = JobAfter(o)])
          /\ status' = [status EXCEPT ![v] = "pending"]
          /\ UNCHANGED <<inst, disk>>
    BY <1>2, Zenon DEF Create, Start
  <2> DEFINE r == [Free EXCEPT !.kind = "create", !.v = v, !.pc = "done", !.job = JobAfter(o)]
  <2>2. r \in Requests BY FreeTyped, OutcomeFacts, Zenon DEF Requests, Kinds, Free
  <2>3. r.v = v /\ r.kind = "create" /\ r.pc = "done" /\ r.job \in {"none", "sent"}
    BY OutcomeFacts, Zenon DEF Free
  <2>4. op[n] = Free /\ \A m \in Slots : ~Srv(op[m]) BY <2>1, GuardedStart, Zenon
  <2>5. \A m \in Slots : op[m].v # v BY <1>1, <2>1, ZenonT(60) DEF Follows
  <2>6. status'[v] = "pending" /\ inst'[v] = inst[v] /\ disk'[v] = disk[v] /\ inst[v] = None
    BY <1>0, <1>1, <2>1, Zenon DEF TypeOK, RowOK
  <2>7. \A u \in Volumes : u # v => status'[u] = status[u] /\ inst'[u] = inst[u] /\ disk'[u] = disk[u]
    BY <1>0, <2>1, Zenon DEF TypeOK
  <2>8. Become(n, r) BY <2>1, Zenon
  <2> HIDE DEF r
  <2>9. \A m \in Slots : m # n => Apart(op[m], r) /\ Apart(r, op[m])
    BY <2>3, <2>4, <2>5, Zenon DEF Apart, Srv
  <2>10. Follows(r, status'[v], inst'[v], disk'[v])
    BY <2>3, <2>6, Zenon DEF Follows, Srv, Fly, BusyStatus
  <2>11. RowOK(status'[v], inst'[v]) BY <2>6, SMTT(40) DEF RowOK
  <2>12. disk'[v] = Where(inst'[v]) BY <1>1, <2>5, <2>6, Zenon
  <2>13. r.kind \in GuardedOps BY <2>3, Zenon DEF GuardedOps
  <2>20. Fits(n, v, r)
    <3>1. Become(n, r) /\ r.v = v /\ r.kind \in GuardedOps /\ (op[n] = Free \/ op[n].v = v) BY <2>3, <2>4, <2>8, <2>13, Zenon
    <3>2. \A u \in Volumes : u # v => status'[u] = status[u] /\ inst'[u] = inst[u] /\ disk'[u] = disk[u]
      BY <2>7, Zenon
    <3>3. \A m \in Slots : m # n /\ op[m].v = v => Follows(op[m], status'[v], inst'[v], disk'[v])
      BY <2>5, Zenon
    <3>4. Follows(r, status'[v], inst'[v], disk'[v]) /\ RowOK(status'[v], inst'[v]) BY <2>10, <2>11, Zenon
    <3>5. ~Mover(r) /\ (\A m \in Slots : m # n /\ op[m].v = v => ~Mover(op[m]))
            => disk'[v] = Where(inst'[v])
      BY <2>12, Zenon
    <3> QED BY <3>1, <3>2, <3>3, <3>4, <3>5, <2>9, Zenon DEF Fits
  <2> QED BY <2>2, <2>20, GuardedStep, Zenon
<1>3. ASSUME NEW v \in Volumes, NEW i \in Insts, Update(n, v, i) PROVE GInv'
  <2> DEFINE k == UpdateKind(v, i)
             t == IF k = "detach" THEN inst[v] ELSE i
  <2>1. PICK o \in Outcome :
          /\ UpdateAllowed(v, i) /\ MayStart(n, k)
          /\ k # "keep" => vm[t] \notin {"paused", "deleted"}
          /\ k = "keep" => o = "delivered"
          /\ Become(n, [Free EXCEPT !.kind = k, !.v = v, !.i = t,
                          !.pc = IF Failed(o) THEN "done" ELSE "sent",
                          !.job = IF k = "keep" THEN "none" ELSE JobAfter(o),
                          !.want = UpdateWant(v, k)])
          /\ UNCHANGED <<status, inst, disk>>
    BY <1>3, Zenon DEF Update
  <2> DEFINE r == [Free EXCEPT !.kind = k, !.v = v, !.i = t,
                     !.pc = IF Failed(o) THEN "done" ELSE "sent",
                     !.job = IF k = "keep" THEN "none" ELSE JobAfter(o),
                     !.want = UpdateWant(v, k)]
  <2>2. /\ k \in {"attach", "detach", "keep"}
        /\ k = "attach" => i # None /\ inst[v] = None /\ status[v] = "available"
        /\ k = "detach" => inst[v] # None /\ status[v] = "attached"
    BY Zenon DEF UpdateKind, IsAttached
  <2>3. t \in Insts /\ (k # "keep" => t \in Instances) /\ (k = "detach" => t = inst[v])
    BY <1>0, <2>2, Zenon DEF TypeOK, Insts
  <2>4. /\ UpdateWant(v, k) \in Status
        /\ k = "attach" => UpdateWant(v, k) = "attaching"
        /\ k = "detach" => UpdateWant(v, k) = "detaching"
        /\ k = "keep" => UpdateWant(v, k) = status[v]
    BY <1>0, Zenon DEF UpdateWant, TypeOK, Status, BusyStatus
  <2>5. status[v] \notin {"none", "deleted"} BY <2>1, Zenon DEF UpdateAllowed, Exists
  <2> HIDE DEF k, t
  <2>6. r \in Requests BY <2>2, <2>3, <2>4, FreeTyped, OutcomeFacts, ZenonT(60) DEF Requests, Kinds, Free
  <2>7. /\ r.v = v /\ r.kind = k /\ r.i = t /\ r.want = UpdateWant(v, k) /\ r.ok = FALSE
        /\ r.pc \in {"sent", "done"} /\ r.job \in {"none", "sent"}
        /\ k = "keep" => r.job = "none"
        /\ r.pc = "done" => r.job = "none"
    BY <2>1, OutcomeFacts, GuardedOutcome, Zenon DEF Free
  <2>8. op[n] = Free /\ (\A m \in Slots : ~Srv(op[m])) /\ k \in GuardedOps BY <2>1, GuardedStart, Zenon
  <2>9. Become(n, r) BY <2>1, Zenon
  <2> HIDE DEF r
  <2>10. \A m \in Slots : op[m].v = v /\ Fly(op[m]) => status[v] \in BusyStatus
    BY <1>1, <2>5, <2>8, ZenonT(60) DEF Follows
  <2>11. \A m \in Slots : op[m].v = v /\ Fly(op[m]) =>
           k = "keep" /\ r.want \in BusyStatus /\ ~Fly(r)
    BY <2>2, <2>4, <2>7, <2>10, Zenon DEF BusyStatus, Fly
  <2>12. \A m \in Slots : m # n => Apart(op[m], r) /\ Apart(r, op[m])
    BY <2>7, <2>8, <2>11, Zenon DEF Apart
  <2>13. \A m \in Slots : op[m].v = v => ~Mover(op[m]) \/ k = "keep"
    BY <2>11, SMTT(40) DEF Mover
  <2>14. k # "keep" => disk[v] = Where(inst[v]) BY <1>1, <2>13, Zenon
  <2>15. ~Won(r) BY <2>7, SMTT(40) DEF Won
  <2>16. Follows(r, status[v], inst[v], disk[v])
    BY <2>2, <2>3, <2>4, <2>5, <2>7, <2>14, <2>15, Zenon DEF Follows, Srv, Fly, Where
  <2>17. UNCHANGED <<status, inst, disk>> BY <2>1, SMTT(40)
  <2>18. /\ Follows(r, status'[v], inst'[v], disk'[v])
         /\ RowOK(status'[v], inst'[v])
         /\ \A m \in Slots : op[m].v = v => Follows(op[m], status'[v], inst'[v], disk'[v])
    BY <1>1, <2>16, <2>17, SMTT(40)
  <2>19. ~Mover(r) /\ (\A m \in Slots : m # n /\ op[m].v = v => ~Mover(op[m]))
           => disk'[v] = Where(inst'[v])
    <3>1. ~Mover(Free) BY Zenon DEF Free, Mover
    <3> QED BY <1>1, <2>8, <2>17, <3>1, Zenon
  <2>20. Fits(n, v, r)
    <3>1. Become(n, r) /\ r.v = v /\ r.kind \in GuardedOps /\ (op[n] = Free \/ op[n].v = v) BY <2>7, <2>8, <2>9, Zenon
    <3>2. \A u \in Volumes : u # v => status'[u] = status[u] /\ inst'[u] = inst[u] /\ disk'[u] = disk[u]
      BY <2>17, SMTT(40)
    <3>3. \A m \in Slots : m # n /\ op[m].v = v => Follows(op[m], status'[v], inst'[v], disk'[v])
      BY <2>18, Zenon
    <3>4. Follows(r, status'[v], inst'[v], disk'[v]) /\ RowOK(status'[v], inst'[v]) BY <2>18, Zenon
    <3>5. ~Mover(r) /\ (\A m \in Slots : m # n /\ op[m].v = v => ~Mover(op[m]))
            => disk'[v] = Where(inst'[v])
      BY <2>19, Zenon
    <3> QED BY <3>1, <3>2, <3>3, <3>4, <3>5, <2>12, ZenonT(60) DEF Fits
  <2> QED BY <2>6, <2>20, GuardedStep, Zenon
<1>4. ASSUME NEW v \in Volumes, NEW k \in {"resize", "backup", "snapshot", "delete", "deleteAPI"},
             ReadVolume(n, k, v)
      PROVE  GInv'
  <2> DEFINE r == [Free EXCEPT !.kind = k, !.v = v, !.pc = "read", !.job = "none"]
  <2>1. /\ Become(n, r) /\ MayStart(n, k)
        /\ status[v] \notin BusyStatus \cup {"none", "deleted"}
        /\ UNCHANGED <<status, inst, disk>>
    BY <1>4, Zenon DEF ReadVolume, Start, Exists, IsBusy
  <2>2. r \in Requests BY FreeTyped, ZenonT(60) DEF Requests, Kinds, Free
  <2>3. /\ r.v = v /\ r.kind = k /\ r.pc = "read" /\ r.job = "none" BY Zenon DEF Free
  <2>4. op[n] = Free /\ (\A m \in Slots : ~Srv(op[m])) /\ k \in GuardedOps BY <2>1, GuardedStart, Zenon
  <2> HIDE DEF r
  <2>5. \A m \in Slots : op[m].v = v => ~Fly(op[m]) BY <1>1, <2>1, <2>4, ZenonT(60) DEF Follows
  <2>6. \A m \in Slots : m # n => Apart(op[m], r) /\ Apart(r, op[m])
    BY <2>3, <2>4, <2>5, Zenon DEF Apart, Fly
  <2>7. k \in {"resize", "backup", "delete"} BY <2>4, SMTT(40) DEF GuardedOps
  <2>8. Follows(r, status[v], inst[v], disk[v]) BY <2>1, <2>3, <2>7, SMTT(40) DEF Follows, Srv, Fly
  <2>9. disk[v] = Where(inst[v]) BY <1>1, <2>5, SMTT(40) DEF Mover
  <2>10. /\ Follows(r, status'[v], inst'[v], disk'[v])
         /\ RowOK(status'[v], inst'[v])
         /\ \A m \in Slots : op[m].v = v => Follows(op[m], status'[v], inst'[v], disk'[v])
         /\ disk'[v] = Where(inst'[v])
    BY <1>1, <2>1, <2>8, <2>9, Zenon
  <2>20. Fits(n, v, r)
    <3>1. Become(n, r) /\ r.v = v /\ r.kind \in GuardedOps /\ (op[n] = Free \/ op[n].v = v) BY <2>1, <2>3, <2>4, SMTT(40)
    <3>2. \A u \in Volumes : u # v => status'[u] = status[u] /\ inst'[u] = inst[u] /\ disk'[u] = disk[u]
      BY <2>1, SMTT(40)
    <3>3. \A m \in Slots : m # n /\ op[m].v = v => Follows(op[m], status'[v], inst'[v], disk'[v])
      BY <2>10, Zenon
    <3>4. Follows(r, status'[v], inst'[v], disk'[v]) /\ RowOK(status'[v], inst'[v]) BY <2>10, SMTT(40)
    <3>5. ~Mover(r) /\ (\A m \in Slots : m # n /\ op[m].v = v => ~Mover(op[m]))
            => disk'[v] = Where(inst'[v])
      BY <2>10, Zenon
    <3> QED BY <3>1, <3>2, <3>3, <3>4, <3>5, <2>6, ZenonT(60) DEF Fits
  <2> QED BY <2>2, <2>20, GuardedStep, Zenon
<1>5. ASSUME NEW b \in Backups, RestoreRead(n, b) PROVE FALSE
  <2>1. MayStart(n, "restore") BY <1>5, Zenon DEF RestoreRead
  <2> QED BY <2>1, GuardedStart DEF GuardedOps
<1>6. ASSUME NEW i \in Instances, DeleteInstance(n, i) PROVE FALSE
  <2>1. MayStart(n, "clear") BY <1>6, Zenon DEF DeleteInstance
  <2> QED BY <2>1, GuardedStart DEF GuardedOps
<1> QED BY <1>2, <1>3, <1>4, <1>5, <1>6, Zenon DEF Request

LEMMA GuardedHandler ==
  ASSUME Guarded, IInv, GInv, NEW n \in Slots, Handler(n)
  PROVE  GInv'
<1>0. TypeOK BY Zenon DEF IInv
<1>1. Srv(op[n])
  BY Zenon DEF Handler, UpdateCommit, ResizeSend, DeleteSend, RestoreSend, BackupSend, Srv
<1>2. op[n].kind # "none" BY <1>1, Zenon DEF IInv, WellFormed, RequestOK, Srv
<1> DEFINE v == op[n].v
<1>3. /\ op[n] \in Requests /\ RequestOK(op[n]) /\ v \in Volumes /\ op[n].kind \in GuardedOps
      /\ Follows(op[n], status[v], inst[v], disk[v])
      /\ \A m \in Slots : m # n => Apart(op[m], op[n]) /\ Apart(op[n], op[m])
      /\ \A m \in Slots : op[m].v = v => Follows(op[m], status[v], inst[v], disk[v])
      /\ RowOK(status[v], inst[v])
      /\ (\A m \in Slots : op[m].v = v => ~Mover(op[m])) => disk[v] = Where(inst[v])
  BY <1>2, GuardedFacts, ZenonT(60)
<1> HIDE DEF v
<1>4. op[n].v = v /\ Exists(v) BY <1>1, <1>3, ZenonT(60) DEF v, Follows, Exists
<1>5. \A m \in Slots : m # n => ~Srv(op[m]) BY <1>1, <1>3, ZenonT(60) DEF Apart
<1>6. ASSUME UpdateCommit(n) PROVE GInv'
  <2> DEFINE r == [op[n] EXCEPT !.pc = "done", !.job = op[n].job]
  <2>1. /\ Become(n, r) /\ op[n].pc = "sent" /\ SetStatus(v, op[n].want) /\ UNCHANGED <<inst, disk>>
    BY <1>6, <1>4, Zenon DEF UpdateCommit, Return
  <2>2. r \in Requests BY <1>3, Zenon DEF Requests
  <2>3. /\ r.v = v /\ r.kind = op[n].kind /\ r.i = op[n].i /\ r.ok = op[n].ok /\ r.rd = op[n].rd
        /\ r.pc = "done" /\ r.job = op[n].job
    BY <1>3, <1>4, Zenon DEF Requests
  <2>4. op[n].want \in Status BY <1>3, Zenon DEF Requests
  <2>5. /\ status'[v] = op[n].want
        /\ \A u \in Volumes : u # v => status'[u] = status[u]
    BY <1>0, <1>3, <1>4, <2>1, <2>4, SetStatusFacts, Zenon DEF TypeOK
  <2> HIDE DEF r
  <2>6. op[n].kind \in {"attach", "detach", "keep"} BY <1>3, <2>1, ZenonT(60) DEF RequestOK
  <2>7. \/ op[n].want \in BusyStatus
        \/ op[n].kind = "keep" /\ op[n].want = status[v] /\ op[n].want \notin BusyStatus
    BY <1>3, <2>1, <2>6, ZenonT(60) DEF Follows, BusyStatus
  <2>8. op[n].want \notin {"none", "deleted"} BY <1>1, <1>3, <2>7, ZenonT(60) DEF Follows, BusyStatus
  <2>9. \A m \in Slots : m # n => Apart(op[m], r) /\ Apart(r, op[m])
    BY <1>3, <1>4, <2>3, <1>1, ZenonT(60) DEF Apart, Srv, Fly
  <2>10. Follows(r, status'[v], inst'[v], disk'[v])
    <3>1. Fly(r) => status'[v] \in BusyStatus BY <1>3, <2>3, <2>5, <2>7, ZenonT(60) DEF Follows, Fly
    <3>2. Won(r) <=> Won(op[n]) BY <2>3, Zenon DEF Won
    <3>3. Fly(r) <=> Fly(op[n]) BY <2>3, Zenon DEF Fly
    <3> QED BY <1>3, <2>1, <2>3, <2>5, <2>8, <3>1, <3>2, <3>3, ZenonT(60) DEF Follows, Srv
  <2>11. \A m \in Slots : m # n /\ op[m].v = v => Follows(op[m], status'[v], inst'[v], disk'[v])
    <3> SUFFICES ASSUME NEW m \in Slots, m # n, op[m].v = v
                 PROVE  Follows(op[m], status'[v], inst'[v], disk'[v])
      BY ZenonT(60)
    <3>1. Fly(op[m]) => op[n].want \in BusyStatus BY <1>1, <1>3, <1>4, Zenon DEF Apart
    <3>2. ~Srv(op[m]) BY <1>5, Zenon
    <3> QED BY <1>3, <2>1, <2>5, <2>8, <3>1, <3>2, ZenonT(60) DEF Follows, Srv
  <2>12. RowOK(status'[v], inst'[v]) BY <1>3, <2>1, <2>5, <2>7, ZenonT(60) DEF RowOK, BusyStatus
  <2>13. ~Mover(r) /\ (\A m \in Slots : m # n /\ op[m].v = v => ~Mover(op[m]))
           => disk'[v] = Where(inst'[v])
    <3>1. Mover(r) <=> Mover(op[n]) BY <2>3, Zenon DEF Mover, Fly
    <3> QED BY <1>3, <2>1, <3>1, Zenon
  <2>20. Fits(n, v, r)
    <3>1. Become(n, r) /\ r.v = v /\ r.kind \in GuardedOps /\ (op[n] = Free \/ op[n].v = v) BY <1>3, <1>4, <2>1, <2>3, ZenonT(60)
    <3>2. \A u \in Volumes : u # v => status'[u] = status[u] /\ inst'[u] = inst[u] /\ disk'[u] = disk[u]
      BY <2>1, <2>5, Zenon
    <3>3. \A m \in Slots : m # n /\ op[m].v = v => Follows(op[m], status'[v], inst'[v], disk'[v])
      BY <2>11, Zenon
    <3>4. Follows(r, status'[v], inst'[v], disk'[v]) /\ RowOK(status'[v], inst'[v]) BY <2>10, <2>12, Zenon
    <3>5. ~Mover(r) /\ (\A m \in Slots : m # n /\ op[m].v = v => ~Mover(op[m]))
            => disk'[v] = Where(inst'[v])
      BY <2>13, Zenon
    <3> QED BY <3>1, <3>2, <3>3, <3>4, <3>5, <2>9, ZenonT(60) DEF Fits
  <2> QED BY <1>3, <2>2, <2>20, GuardedStep, Zenon
<1>7. ASSUME ~Mover(op[n]), op[n].pc = "read", NEW s \in Status, NEW j \in {"none", "sent"},
             NEW b \in Backups \cup {None},
             s \in BusyStatus \/ (s = "deleted" /\ op[n].kind = "delete") \/ (s = status[v] /\ j = "none"),
             Become(n, [op[n] EXCEPT !.pc = "done", !.job = j, !.b = b]),
             status'[v] = s, \A u \in Volumes : u # v => status'[u] = status[u],
             UNCHANGED <<inst, disk>>
      PROVE  GInv'
  <2> DEFINE r == [op[n] EXCEPT !.pc = "done", !.job = j, !.b = b]
  <2>1. r \in Requests BY <1>3, ZenonT(60) DEF Requests
  <2>2. r.v = v /\ r.kind = op[n].kind /\ r.pc = "done" /\ r.job = j BY <1>3, <1>4, Zenon DEF Requests
  <2>3. Become(n, r) BY <1>7, Zenon
  <2> HIDE DEF r
  <2>4. op[n].kind \in {"resize", "backup", "delete"} BY <1>3, <1>7, Zenon DEF Follows
  <2>5. \A m \in Slots : m # n /\ op[m].v = v => ~Fly(op[m]) /\ ~Srv(op[m])
    BY <1>1, <1>3, <1>4, <1>5, <2>4, ZenonT(60) DEF Apart
  <2>6. \A m \in Slots : m # n => Apart(op[m], r) /\ Apart(r, op[m])
    BY <1>5, <2>2, <2>5, SMTT(40) DEF Apart, Srv
  <2>7. s # "none" BY <1>3, <1>7, Zenon DEF Follows, BusyStatus
  <2>8. Follows(r, status'[v], inst'[v], disk'[v])
    BY <1>7, <2>2, <2>4, <2>7, SMTT(40) DEF Follows, Srv, Fly
  <2>9. \A m \in Slots : m # n /\ op[m].v = v => Follows(op[m], status'[v], inst'[v], disk'[v])
    BY <1>3, <1>7, <2>5, <2>7, Zenon DEF Follows, Srv, Fly
  <2>10. RowOK(status'[v], inst'[v]) BY <1>3, <1>7, Zenon DEF RowOK, BusyStatus
  <2>11. disk'[v] = Where(inst'[v])
    <3>1. \A m \in Slots : op[m].v = v => ~Mover(op[m]) BY <1>7, <2>5, Zenon DEF Mover
    <3> QED BY <1>3, <1>7, <3>1, Zenon
  <2>20. Fits(n, v, r)
    <3>1. Become(n, r) /\ r.v = v /\ r.kind \in GuardedOps /\ (op[n] = Free \/ op[n].v = v) BY <1>3, <1>4, <2>2, <2>3, Zenon
    <3>2. \A u \in Volumes : u # v => status'[u] = status[u] /\ inst'[u] = inst[u] /\ disk'[u] = disk[u]
      BY <1>7, Zenon
    <3>3. \A m \in Slots : m # n /\ op[m].v = v => Follows(op[m], status'[v], inst'[v], disk'[v])
      BY <2>9, Zenon
    <3>4. Follows(r, status'[v], inst'[v], disk'[v]) /\ RowOK(status'[v], inst'[v]) BY <2>8, <2>10, SMTT(40)
    <3>5. ~Mover(r) /\ (\A m \in Slots : m # n /\ op[m].v = v => ~Mover(op[m]))
            => disk'[v] = Where(inst'[v])
      BY <2>11, Zenon
    <3> QED BY <3>1, <3>2, <3>3, <3>4, <3>5, <2>6, ZenonT(60) DEF Fits
  <2> QED BY <1>3, <2>1, <2>20, GuardedStep, Zenon
<1>8. op[n].pc = "read" => ~Mover(op[n]) BY <1>3, ZenonT(60) DEF Follows, Mover
<1>9. ASSUME NEW s \in Status, SetStatus(v, s)
      PROVE  status'[v] = s /\ \A u \in Volumes : u # v => status'[u] = status[u]
  BY <1>0, <1>3, <1>4, <1>9, SetStatusFacts, Zenon DEF TypeOK
<1>10. [op[n] EXCEPT !.b = op[n].b] = op[n] /\ op[n].b \in Backups \cup {None} BY <1>3, Zenon DEF Requests
<1>11. \A j : [op[n] EXCEPT !.pc = "done", !.job = j] = [op[n] EXCEPT !.pc = "done", !.job = j, !.b = op[n].b]
  BY <1>3, Zenon DEF Requests
<1>12. ASSUME ResizeSend(n) PROVE GInv'
  <2>1. PICK o \in Outcome :
          /\ op[n].pc = "read" /\ SetStatus(v, "resizing") /\ UNCHANGED <<inst, disk>>
          /\ Become(n, [op[n] EXCEPT !.pc = "done", !.job = JobAfter(o)])
    BY <1>4, <1>12, Zenon DEF ResizeSend, Return
  <2>2. "resizing" \in Status /\ "resizing" \in BusyStatus BY Zenon DEF Status, BusyStatus
  <2>3. JobAfter(o) \in {"none", "sent"} BY OutcomeFacts, Zenon
  <2>4. Become(n, [op[n] EXCEPT !.pc = "done", !.job = JobAfter(o), !.b = op[n].b]) BY <1>11, <2>1, Zenon
  <2> QED BY <1>7, <1>8, <1>9, <1>10, <2>1, <2>2, <2>3, <2>4, ZenonT(60)
<1>13. ASSUME DeleteSend(n) PROVE GInv'
  <2>1. PICK o \in Outcome :
          /\ op[n].pc = "read" /\ op[n].kind \in {"delete", "deleteAPI"} /\ UNCHANGED <<inst, disk>>
          /\ IF Failed(o) /\ op[n].kind = "delete" THEN UNCHANGED status ELSE SetStatus(v, "deleted")
          /\ Become(n, [op[n] EXCEPT !.pc = "done", !.job = JobAfter(o)])
    BY <1>4, <1>13, Zenon DEF DeleteSend, Return
  <2>2. op[n].kind = "delete" /\ "deleted" \in Status BY <1>3, <2>1, Zenon DEF GuardedOps, Status
  <2>3. JobAfter(o) \in {"none", "sent"} BY OutcomeFacts, Zenon
  <2>4. Become(n, [op[n] EXCEPT !.pc = "done", !.job = JobAfter(o), !.b = op[n].b]) BY <1>11, <2>1, ZenonT(60)
  <2>5. CASE Failed(o)
    <3>1. JobAfter(o) = "none" /\ UNCHANGED status BY <2>1, <2>2, <2>5, GuardedOutcome, Zenon
    <3>2. status[v] \in Status BY <1>0, <1>3, Zenon DEF TypeOK
    <3> QED BY <1>7, <1>8, <1>10, <2>1, <2>3, <2>4, <3>1, <3>2, Zenon
  <2>6. CASE ~Failed(o)
    <3>1. SetStatus(v, "deleted") BY <2>1, <2>6, Zenon
    <3> QED BY <1>7, <1>8, <1>9, <1>10, <2>1, <2>2, <2>3, <2>4, <3>1, Zenon
  <2> QED BY <2>5, <2>6, Zenon
<1>14. ASSUME NEW b \in Backups, BackupSend(n, b) PROVE GInv'
  <2>1. PICK o \in Outcome :
          /\ op[n].pc = "read" /\ op[n].kind \in {"backup", "snapshot"} /\ UNCHANGED <<inst, disk>>
          /\ IF Failed(o) \/ op[n].kind = "snapshot" THEN UNCHANGED status
                                                     ELSE SetStatus(v, "backuping")
          /\ Become(n, [op[n] EXCEPT !.pc = "done", !.job = JobAfter(o), !.b = b])
    BY <1>4, <1>14, Zenon DEF BackupSend
  <2>2. /\ op[n].kind = "backup" /\ "backuping" \in Status /\ "backuping" \in BusyStatus
    BY <1>3, <2>1, Zenon DEF GuardedOps, Status, BusyStatus
  <2>3. JobAfter(o) \in {"none", "sent"} BY OutcomeFacts, Zenon
  <2>4. CASE Failed(o)
    <3>1. JobAfter(o) = "none" /\ UNCHANGED status BY <2>1, <2>4, GuardedOutcome, SMTT(40)
    <3>2. status[v] \in Status BY <1>0, <1>3, Zenon DEF TypeOK
    <3> QED BY <1>7, <1>8, <2>1, <2>3, <3>1, <3>2, Zenon
  <2>5. CASE ~Failed(o)
    <3>1. SetStatus(v, "backuping") BY <2>1, <2>2, <2>5, Zenon
    <3> QED BY <1>7, <1>8, <1>9, <2>1, <2>2, <2>3, <3>1, Zenon
  <2> QED BY <2>4, <2>5, Zenon
<1>15. ASSUME RestoreSend(n) PROVE FALSE BY <1>3, <1>15, Zenon DEF RestoreSend, GuardedOps
<1> QED BY <1>6, <1>12, <1>13, <1>14, <1>15, Zenon DEF Handler

LEMMA GuardedScript ==
  ASSUME Guarded, IInv, GInv, NEW n \in Slots, Script(n)
  PROVE  GInv'
<1>0. TypeOK BY Zenon DEF IInv
<1>1. op[n].job = "sent"
  BY Zenon DEF Script, ScriptAttach, ScriptDetach, ScriptClear, ScriptStorage, ScriptClearVolume, Reply
<1>2. op[n].kind # "none" BY <1>1, Zenon DEF IInv, WellFormed, RequestOK
<1> DEFINE v == op[n].v
<1>3. /\ op[n] \in Requests /\ RequestOK(op[n]) /\ v \in Volumes /\ op[n].kind \in GuardedOps
      /\ Follows(op[n], status[v], inst[v], disk[v])
      /\ \A m \in Slots : m # n => Apart(op[m], op[n]) /\ Apart(op[n], op[m])
      /\ \A m \in Slots : op[m].v = v => Follows(op[m], status[v], inst[v], disk[v])
      /\ RowOK(status[v], inst[v])
      /\ (\A m \in Slots : op[m].v = v => ~Mover(op[m])) => disk[v] = Where(inst[v])
  BY <1>2, GuardedFacts, Zenon
<1> HIDE DEF v
<1>4. op[n].v = v /\ Fly(op[n]) /\ ~Won(op[n]) BY <1>1, Zenon DEF v, Fly, Won
<1>5. \A m \in Slots : m # n /\ op[m].v = v => ~Fly(op[m]) /\ ~Mover(op[m])
  BY <1>3, <1>4, ZenonT(60) DEF Apart, Mover
<1>6. ASSUME NEW good \in BOOLEAN, Reply(n, good), op[n].kind # "delete",
             op[n].kind = "attach" => disk'[v] = IF good = TRUE THEN {op[n].i} ELSE {},
             op[n].kind = "detach" => disk'[v] = IF good = TRUE THEN {} ELSE {op[n].i},
             op[n].kind \notin {"attach", "detach"} => disk'[v] = disk[v],
             \A u \in Volumes : u # v => disk'[u] = disk[u]
      PROVE  GInv'
  <2> DEFINE r == [op[n] EXCEPT !.job = "replied", !.ok = good]
  <2>1. op' = [op EXCEPT ![n] = r] /\ UNCHANGED <<status, inst>>
    BY <1>0, <1>3, <1>6, Zenon DEF Reply, TypeOK, Requests
  <2>2. r \in Requests BY <1>3, ZenonT(60) DEF Requests
  <2>3. /\ r.v = v /\ r.kind = op[n].kind /\ r.i = op[n].i /\ r.pc = op[n].pc /\ r.want = op[n].want
        /\ r.ok = good /\ r.job = "replied"
    BY <1>3, <1>4, Zenon DEF Requests
  <2>4. Become(n, r) BY <2>1, <2>3, Zenon DEF Become
  <2> HIDE DEF r
  <2>5. Fly(r) /\ (Srv(r) <=> Srv(op[n])) /\ (Won(r) <=> good = TRUE) BY <2>3, Zenon DEF Fly, Srv, Won
  <2>6. \A m \in Slots : m # n => Apart(op[m], r) /\ Apart(r, op[m])
    BY <1>3, <1>4, <2>3, <2>5, Zenon DEF Apart
  <2>7. Follows(r, status[v], inst[v], disk'[v])
    BY <1>3, <1>4, <1>6, <2>3, <2>5, ZenonT(60) DEF Follows
  <2>8. \A m \in Slots : m # n /\ op[m].v = v => Follows(op[m], status[v], inst[v], disk'[v])
    <3>1. \A q, s, i, d, e : Follows(q, s, i, d) /\ ~Fly(q) => Follows(q, s, i, e) BY DEF Follows
    <3> QED BY <1>3, <1>5, <3>1, ZenonT(60)
  <2>9. ~Mover(r) => disk[v] = Where(inst[v]) /\ op[n].kind \notin {"attach", "detach"}
    BY <1>3, <1>5, <2>3, <2>5, ZenonT(60) DEF Mover
  <2>20. Fits(n, v, r)
    <3>1. Become(n, r) /\ r.v = v /\ r.kind \in GuardedOps /\ (op[n] = Free \/ op[n].v = v) BY <1>3, <1>4, <2>3, <2>4, ZenonT(60)
    <3>2. \A u \in Volumes : u # v => status'[u] = status[u] /\ inst'[u] = inst[u] /\ disk'[u] = disk[u]
      BY <1>6, <2>1, SMTT(40)
    <3>3. \A m \in Slots : m # n /\ op[m].v = v => Follows(op[m], status'[v], inst'[v], disk'[v])
      BY <2>1, <2>8, SMTT(40)
    <3>4. Follows(r, status'[v], inst'[v], disk'[v]) /\ RowOK(status'[v], inst'[v]) BY <1>3, <2>1, <2>7, SMTT(40)
    <3>5. ~Mover(r) /\ (\A m \in Slots : m # n /\ op[m].v = v => ~Mover(op[m]))
            => disk'[v] = Where(inst'[v])
      BY <1>6, <2>1, <2>9, Zenon
    <3> QED BY <3>1, <3>2, <3>3, <3>4, <3>5, <2>6, ZenonT(60) DEF Fits
  <2> QED BY <1>3, <2>2, <2>20, GuardedStep, Zenon
<1>7. ASSUME NEW good \in BOOLEAN, ScriptAttach(n, good) PROVE GInv'
  <2>1. /\ op[n].kind = "attach" /\ Reply(n, good)
        /\ disk' = IF good THEN [disk EXCEPT ![v] = @ \cup {op[n].i}] ELSE disk
    BY <1>4, <1>7, Zenon DEF ScriptAttach
  <2>2. disk[v] = {} BY <1>3, <1>4, <2>1, Zenon DEF Follows
  <2>3. /\ disk'[v] = IF good = TRUE THEN {op[n].i} ELSE {}
        /\ \A u \in Volumes : u # v => disk'[u] = disk[u]
    BY <1>0, <1>3, <2>1, <2>2, Zenon DEF TypeOK
  <2> QED BY <1>6, <2>1, <2>3, ZenonT(60)
<1>8. ASSUME NEW good \in BOOLEAN, ScriptDetach(n, good) PROVE GInv'
  <2>1. /\ op[n].kind = "detach" /\ Reply(n, good)
        /\ disk' = IF good THEN [disk EXCEPT ![v] = @ \ {op[n].i}] ELSE disk
    BY <1>4, <1>8, Zenon DEF ScriptDetach
  <2>2. disk[v] = {op[n].i} BY <1>3, <1>4, <2>1, ZenonT(60) DEF Follows
  <2>3. /\ disk'[v] = IF good = TRUE THEN {} ELSE {op[n].i}
        /\ \A u \in Volumes : u # v => disk'[u] = disk[u]
    BY <1>0, <1>3, <2>1, <2>2, Zenon DEF TypeOK
  <2> QED BY <1>6, <2>1, <2>3, ZenonT(60)
<1>9. ASSUME NEW good \in BOOLEAN, ScriptStorage(n, good) PROVE GInv'
  BY <1>6, <1>9, ZenonT(60) DEF ScriptStorage
<1>10. ASSUME ScriptClear(n) PROVE FALSE BY <1>3, <1>10, Zenon DEF ScriptClear, GuardedOps
<1>11. ASSUME ScriptClearVolume(n) PROVE GInv'
  <2> DEFINE r == [op[n] EXCEPT !.job = "done"]
  <2>1. /\ op' = [op EXCEPT ![n] = Free] /\ op[n].kind \in {"delete", "deleteAPI"}
        /\ UNCHANGED <<status, inst, disk>>
    BY <1>11, Zenon DEF ScriptClearVolume
  <2>2. op[n].pc = "done"
    BY <1>3, <1>4, <2>1, Zenon DEF Requests, RequestOK, Follows
  <2>3. r \in Requests BY <1>3, Zenon DEF Requests
  <2>4. /\ r.v = v /\ r.kind = op[n].kind /\ r.pc = "done" /\ r.job = "done"
    BY <1>3, <1>4, <2>2, Zenon DEF Requests
  <2>5. Become(n, r) BY <2>1, <2>4, Zenon DEF Become
  <2> HIDE DEF r
  <2>6. \A m \in Slots : m # n => Apart(op[m], r) /\ Apart(r, op[m])
    BY <2>4, Zenon DEF Apart, Srv, Fly
  <2>7. Follows(r, status[v], inst[v], disk[v]) BY <1>3, <2>1, <2>4, ZenonT(60) DEF Follows, Srv, Fly
  <2>8. disk[v] = Where(inst[v])
    <3>1. ~Mover(op[n]) BY <2>1, SMTT(40) DEF Mover
    <3> QED BY <1>3, <1>5, <3>1, Zenon
  <2>20. Fits(n, v, r)
    <3>1. Become(n, r) /\ r.v = v /\ r.kind \in GuardedOps /\ (op[n] = Free \/ op[n].v = v) BY <1>3, <1>4, <2>4, <2>5, ZenonT(60)
    <3>2. \A u \in Volumes : u # v => status'[u] = status[u] /\ inst'[u] = inst[u] /\ disk'[u] = disk[u]
      BY <2>1, SMTT(40)
    <3>3. \A m \in Slots : m # n /\ op[m].v = v => Follows(op[m], status'[v], inst'[v], disk'[v])
      BY <1>3, <2>1, SMTT(40)
    <3>4. Follows(r, status'[v], inst'[v], disk'[v]) /\ RowOK(status'[v], inst'[v]) BY <1>3, <2>1, <2>7, SMTT(40)
    <3>5. ~Mover(r) /\ (\A m \in Slots : m # n /\ op[m].v = v => ~Mover(op[m]))
            => disk'[v] = Where(inst'[v])
      BY <2>1, <2>8, Zenon
    <3> QED BY <3>1, <3>2, <3>3, <3>4, <3>5, <2>6, Zenon DEF Fits
  <2> QED BY <1>3, <2>3, <2>20, GuardedStep, Zenon
<1> QED BY <1>7, <1>8, <1>9, <1>10, <1>11, SMTT(40) DEF Script

LEMMA GuardedCallback ==
  ASSUME Guarded, IInv, GInv, NEW n \in Slots, Callback(n)
  PROVE  GInv'
<1>0. TypeOK BY Zenon DEF IInv
<1>1. op[n].job \in {"replied", "taken"}
  BY Zenon DEF Callback, CallbackRead, CreateVolume, AttachVolume, DetachVolume, ResizeVolume,
         BackupVolume, RestoreVolume, ClearVM, CallbackWrite
<1>2. op[n].kind # "none" BY <1>1, Zenon DEF IInv, WellFormed, RequestOK
<1> DEFINE v == op[n].v
<1>3. /\ op[n] \in Requests /\ RequestOK(op[n]) /\ v \in Volumes /\ op[n].kind \in GuardedOps
      /\ Follows(op[n], status[v], inst[v], disk[v])
      /\ \A m \in Slots : m # n => Apart(op[m], op[n]) /\ Apart(op[n], op[m])
      /\ \A m \in Slots : op[m].v = v => Follows(op[m], status[v], inst[v], disk[v])
      /\ RowOK(status[v], inst[v])
      /\ (\A m \in Slots : op[m].v = v => ~Mover(op[m])) => disk[v] = Where(inst[v])
  BY <1>2, GuardedFacts, Zenon
<1> HIDE DEF v
<1>4. op[n].v = v /\ Fly(op[n]) BY <1>1, Zenon DEF v, Fly
<1>5. \A m \in Slots : m # n /\ op[m].v = v =>
        /\ ~Fly(op[m]) /\ ~Mover(op[m])
        /\ Srv(op[m]) => op[m].kind = "keep" /\ op[m].want \in BusyStatus
  BY <1>3, <1>4, ZenonT(60) DEF Apart, Mover
<1>6. op[n].ok \in BOOLEAN BY <1>3, ZenonT(60) DEF Requests
<1>7. ASSUME CallbackRead(n), Exists(v) PROVE GInv'
  <2> DEFINE r == [op[n] EXCEPT !.job = "taken", !.rd = inst[v]]
  <2>1. /\ op[n].kind # "clear" /\ op[n].kind # "restore" BY <1>3, Zenon DEF GuardedOps
  <2>2. CallbackRows(op[n])
    BY <1>3, <1>4, <1>7, <2>1, Zenon DEF CallbackRows, GuardedOps
  <2>3. op[n].job = "replied" /\ Become(n, r) /\ UNCHANGED <<status, inst, disk>>
    BY <1>4, <1>7, <2>1, <2>2, Zenon DEF CallbackRead
  <2>4. r \in Requests BY <1>0, <1>3, ZenonT(60) DEF TypeOK, Requests
  <2>5. /\ r.v = v /\ r.kind = op[n].kind /\ r.i = op[n].i /\ r.pc = op[n].pc /\ r.want = op[n].want
        /\ r.ok = op[n].ok /\ r.job = "taken" /\ r.rd = inst[v]
    BY <1>3, <1>4, SMTT(40) DEF Requests
  <2> HIDE DEF r
  <2>6. Fly(r) /\ (Srv(r) <=> Srv(op[n])) /\ (Won(r) <=> Won(op[n]))
    BY <2>3, <2>5, Zenon DEF Fly, Srv, Won
  <2>7. \A m \in Slots : m # n => Apart(op[m], r) /\ Apart(r, op[m])
    BY <1>3, <1>4, <2>5, <2>6, Zenon DEF Apart
  <2>8. Follows(r, status[v], inst[v], disk[v])
    BY <1>3, <1>4, <2>3, <2>5, <2>6, ZenonT(60) DEF Follows
  <2>9. Mover(r) <=> Mover(op[n]) BY <1>4, <2>5, <2>6, Zenon DEF Mover
  <2>10. ASSUME ~Mover(r) PROVE disk[v] = Where(inst[v])
    <3>1. \A m \in Slots : op[m].v = v => ~Mover(op[m]) BY <1>5, <2>9, <2>10, ZenonT(60)
    <3> QED BY <1>3, <3>1, Zenon
  <2>20. Fits(n, v, r)
    <3>1. Become(n, r) /\ r.v = v /\ r.kind \in GuardedOps /\ (op[n] = Free \/ op[n].v = v) BY <1>3, <1>4, <2>3, <2>5, ZenonT(60)
    <3>6. status' = status /\ inst' = inst /\ disk' = disk BY <2>3, Zenon
    <3>2. \A u \in Volumes : u # v => status'[u] = status[u] /\ inst'[u] = inst[u] /\ disk'[u] = disk[u]
      BY <3>6, Zenon
    <3>3. \A m \in Slots : m # n /\ op[m].v = v => Follows(op[m], status'[v], inst'[v], disk'[v])
      BY <1>3, <3>6, Zenon
    <3>4. Follows(r, status'[v], inst'[v], disk'[v]) /\ RowOK(status'[v], inst'[v]) BY <1>3, <3>6, <2>8, Zenon
    <3>5. ~Mover(r) /\ (\A m \in Slots : m # n /\ op[m].v = v => ~Mover(op[m]))
            => disk'[v] = Where(inst'[v])
      BY <2>3, <2>10, Zenon
    <3> QED BY <3>1, <3>2, <3>3, <3>4, <3>5, <2>7, Zenon DEF Fits
  <2> QED BY <1>3, <2>4, <2>20, GuardedStep, Zenon
<1>8. Exists(v) \/ op[n].kind = "delete"
  <2>1. Srv(op[n]) => Exists(v) BY <1>3, Zenon DEF Follows, Exists
  <2>2. status[v] \in BusyStatus => Exists(v) BY Zenon DEF Exists, BusyStatus
  <2> QED BY <1>3, <1>4, <2>1, <2>2, ZenonT(60) DEF Follows
<1>9. op[n].kind # "delete" /\ Exists(v) BY <1>1, <1>3, <1>8, ZenonT(60) DEF Follows
<1>10. ASSUME NEW s \in {"available", "attached", "error"}, NEW i \in Insts, NEW K, CallbackWrite(n, K),
              SetStatus(v, s), inst' = [inst EXCEPT ![v] = i], disk[v] = Where(i), RowOK(s, i)
       PROVE  GInv'
  <2> DEFINE r == [op[n] EXCEPT !.job = "done"]
  <2>1. op[n].job = "taken" /\ Become(n, r) /\ UNCHANGED disk BY <1>10, Zenon DEF CallbackWrite
  <2>2. r \in Requests BY <1>3, Zenon DEF Requests
  <2>3. /\ r.v = v /\ r.kind = op[n].kind /\ r.pc = op[n].pc /\ r.want = op[n].want /\ r.job = "done"
    BY <1>3, <1>4, SMTT(40) DEF Requests
  <2> HIDE DEF r
  <2>4. /\ status'[v] = s /\ inst'[v] = i
        /\ \A u \in Volumes : u # v => status'[u] = status[u] /\ inst'[u] = inst[u]
    <3>1. s \in Status BY Zenon DEF Status
    <3> QED BY <1>0, <1>3, <1>9, <1>10, <3>1, SetStatusFacts, Zenon DEF TypeOK
  <2>5. ~Fly(r) /\ (Srv(r) <=> Srv(op[n])) BY <2>3, Zenon DEF Fly, Srv
  <2>6. \A m \in Slots : m # n => Apart(op[m], r) /\ Apart(r, op[m])
    BY <1>3, <1>4, <1>5, <2>3, <2>5, ZenonT(60) DEF Apart
  <2>7. Follows(r, s, i, disk[v]) BY <1>3, <1>4, <2>3, <2>5, ZenonT(60) DEF Follows
  <2>8. \A m \in Slots : m # n /\ op[m].v = v => Follows(op[m], s, i, disk[v])
    <3> SUFFICES ASSUME NEW m \in Slots, m # n, op[m].v = v PROVE Follows(op[m], s, i, disk[v])
      BY SMTT(40)
    <3>1. Follows(op[m], status[v], inst[v], disk[v]) BY <1>3, SMTT(40)
    <3>2. ~Fly(op[m]) /\ (Srv(op[m]) => op[m].kind = "keep" /\ op[m].want \in BusyStatus) BY <1>5, SMTT(40)
    <3>3. op[m].pc # "read"
      BY <3>1, <3>2, SMTT(40) DEF Follows, Srv
    <3>4. op[m].job # "taken" BY <3>2, Zenon DEF Fly
    <3>5. op[m].pc = "sent" => op[m].kind = "keep" /\ op[m].want \in BusyStatus BY <3>2, Zenon DEF Srv
    <3>6. op[m].kind = "delete" => op[m].job \notin {"replied", "taken"} BY <3>2, Zenon DEF Fly
    <3> QED BY <3>2, <3>3, <3>4, <3>5, <3>6, ZenonT(60) DEF Follows
  <2>20. Fits(n, v, r)
    <3>1. Become(n, r) /\ r.v = v /\ r.kind \in GuardedOps /\ (op[n] = Free \/ op[n].v = v) BY <1>3, <1>4, <2>1, <2>3, ZenonT(60)
    <3>2. \A u \in Volumes : u # v => status'[u] = status[u] /\ inst'[u] = inst[u] /\ disk'[u] = disk[u]
      BY <2>1, <2>4, SMTT(40)
    <3>3. \A m \in Slots : m # n /\ op[m].v = v => Follows(op[m], status'[v], inst'[v], disk'[v])
      BY <2>1, <2>4, <2>8, SMTT(40)
    <3>4. Follows(r, status'[v], inst'[v], disk'[v]) /\ RowOK(status'[v], inst'[v]) BY <1>10, <2>1, <2>4, <2>7, SMTT(40)
    <3>5. ~Mover(r) /\ (\A m \in Slots : m # n /\ op[m].v = v => ~Mover(op[m]))
            => disk'[v] = Where(inst'[v])
      BY <1>10, <2>1, <2>4, SMTT(40)
    <3> QED BY <3>1, <3>2, <3>3, <3>4, <3>5, <2>6, ZenonT(60) DEF Fits
  <2> QED BY <1>3, <2>2, <2>20, GuardedStep, Zenon
<1>11. /\ inst[v] \in Insts
       /\ inst = [inst EXCEPT ![v] = inst[v]]
       /\ op[n].kind \notin {"attach", "detach"} => disk[v] = Where(inst[v])
  BY <1>0, <1>3, <1>5, Zenon DEF TypeOK, Mover
<1>12. ASSUME CreateVolume(n) PROVE GInv'
  <2>1. /\ CallbackWrite(n, {"create"}) /\ op[n].kind = "create" /\ UNCHANGED inst
        /\ SetStatus(v, IF op[n].ok THEN "available" ELSE "error")
    BY <1>4, <1>12, Zenon DEF CreateVolume, CallbackWrite
  <2>2. inst[v] = None BY <1>3, <1>4, <2>1, Zenon DEF Follows
  <2>3. \A s \in {"available", "error"} : RowOK(s, inst[v]) BY <2>2, Zenon DEF RowOK
  <2> QED BY <1>10, <1>11, <2>1, <2>3, Zenon
<1>13. ASSUME AttachVolume(n) PROVE GInv'
  <2>1. /\ CallbackWrite(n, {"attach"}) /\ op[n].kind = "attach" /\ op[n].job = "taken"
        /\ SetStatus(v, IF op[n].ok THEN "attached" ELSE "available")
        /\ inst' = IF op[n].ok /\ Exists(v) THEN [inst EXCEPT ![v] = op[n].i] ELSE inst
    BY <1>4, <1>13, Zenon DEF AttachVolume, CallbackWrite
  <2>2. /\ inst[v] = None /\ disk[v] = IF op[n].ok = TRUE THEN {op[n].i} ELSE {}
        /\ op[n].i \in Instances /\ op[n].i # None
    BY <1>3, <1>4, <2>1, NoneAssumption, ZenonT(60) DEF Follows, Won, RequestOK
  <2>3. CASE op[n].ok = TRUE
    <3>1. /\ SetStatus(v, "attached") /\ inst' = [inst EXCEPT ![v] = op[n].i]
          /\ disk[v] = Where(op[n].i) /\ RowOK("attached", op[n].i) /\ op[n].i \in Insts
      BY <1>9, <2>1, <2>2, <2>3, Zenon DEF Where, RowOK, Insts
    <3> QED BY <1>10, <2>1, <3>1, ZenonT(60)
  <2>4. CASE op[n].ok = FALSE
    <3>1. /\ SetStatus(v, "available") /\ inst' = inst
          /\ disk[v] = Where(inst[v]) /\ RowOK("available", inst[v])
      BY <2>1, <2>2, <2>4, Zenon DEF Where, RowOK
    <3> QED BY <1>10, <1>11, <2>1, <3>1, ZenonT(60)
  <2> QED BY <1>6, <2>3, <2>4, Zenon
<1>14. ASSUME DetachVolume(n) PROVE GInv'
  <2>1. /\ CallbackWrite(n, {"detach"}) /\ op[n].kind = "detach" /\ op[n].job = "taken"
        /\ SetStatus(v, IF op[n].ok THEN "available" ELSE "attached")
        /\ inst' = [inst EXCEPT ![v] = IF op[n].ok THEN None ELSE op[n].rd]
    BY <1>4, <1>9, <1>14, Zenon DEF DetachVolume, CallbackWrite
  <2>2. /\ inst[v] = op[n].i /\ op[n].rd = op[n].i /\ op[n].i \in Instances /\ op[n].i # None
        /\ disk[v] = IF op[n].ok = TRUE THEN {} ELSE {op[n].i}
    BY <1>3, <1>4, <2>1, NoneAssumption, ZenonT(60) DEF Follows, Won, RequestOK
  <2>3. CASE op[n].ok = TRUE
    <3>1. /\ SetStatus(v, "available") /\ inst' = [inst EXCEPT ![v] = None]
          /\ disk[v] = Where(None) /\ RowOK("available", None) /\ None \in Insts
      BY <2>1, <2>2, <2>3, ZenonT(60) DEF Where, RowOK, Insts
    <3> QED BY <1>10, <2>1, <3>1, ZenonT(60)
  <2>4. CASE op[n].ok = FALSE
    <3>1. /\ SetStatus(v, "attached") /\ inst' = [inst EXCEPT ![v] = op[n].i]
          /\ disk[v] = Where(op[n].i) /\ RowOK("attached", op[n].i) /\ op[n].i \in Insts
      BY <2>1, <2>2, <2>4, Zenon DEF Where, RowOK, Insts
    <3> QED BY <1>10, <2>1, <3>1, Zenon
  <2> QED BY <1>6, <2>3, <2>4, Zenon
<1>15. ASSUME ResizeVolume(n) \/ BackupVolume(n) PROVE GInv'
  <2>1. PICK K \in {{"resize"}, {"backup", "snapshot"}}, s \in {ByInstance(op[n].rd), "error"} :
          CallbackWrite(n, K) /\ SetStatus(v, s) /\ UNCHANGED inst
    BY <1>4, <1>15, Zenon DEF ResizeVolume, BackupVolume
  <2>2. op[n].job = "taken" /\ op[n].kind \notin {"attach", "detach"} BY <2>1, Zenon DEF CallbackWrite
  <2>3. op[n].rd = inst[v] BY <1>3, <2>2, ZenonT(60) DEF Follows
  <2>4. s \in {"available", "attached", "error"} /\ RowOK(s, inst[v])
    BY <2>1, <2>3, Zenon DEF ByInstance, RowOK
  <2> QED BY <1>10, <1>11, <2>1, <2>2, <2>4, Zenon
<1>16. ASSUME RestoreVolume(n) \/ ClearVM(n) PROVE FALSE
  BY <1>3, <1>16, Zenon DEF RestoreVolume, ClearVM, CallbackWrite, GuardedOps
<1> QED BY <1>7, <1>9, <1>12, <1>13, <1>14, <1>15, <1>16, ZenonT(60) DEF Callback

LEMMA InitGInv == Init => GInv
<1> SUFFICES ASSUME Init PROVE GInv BY Zenon
<1>1. Free.kind = "none" /\ ~Srv(Free) /\ ~Fly(Free) BY Zenon DEF Free, Srv, Fly
<1>2. \A n \in Slots : op[n] = Free BY Zenon DEF Init
<1>3. KindsGuarded /\ AllFollow BY <1>1, <1>2, Zenon DEF KindsGuarded, AllFollow
<1>4. AllApart BY <1>1, <1>2, Zenon DEF AllApart, Apart
<1>5. RowsOK /\ Settled BY Zenon DEF Init, RowsOK, RowOK, Settled, Where
<1> QED BY <1>3, <1>4, <1>5, Zenon DEF GInv

LEMMA NextGInv ==
  ASSUME Guarded
  PROVE  IInv /\ GInv /\ [Next]_vars => GInv'
<1> SUFFICES ASSUME IInv, GInv, [Next]_vars PROVE GInv' BY Zenon
<1>1. ASSUME NEW n \in Slots, Request(n) \/ Handler(n) \/ Script(n) \/ Callback(n) PROVE GInv'
  BY <1>1, GuardedRequest, GuardedHandler, GuardedScript, GuardedCallback, Zenon
<1>2. ASSUME UNCHANGED <<status, inst, op, disk>> PROVE GInv'
  BY <1>2, ZenonT(60) DEF GInv, KindsGuarded, AllApart, AllFollow, RowsOK, Settled
<1>3. ASSUME Crash PROVE FALSE BY <1>3, Zenon DEF Crash, Guarded, GuardedFaults
<1> QED BY <1>1, <1>2, <1>3, Zenon DEF Next, DeleteBackup, ActionVM, vars

(***************************************************************************)
(* Under Guarded, the busy states do what they are for, however many       *)
(* volumes, instances and requests there are: a volume is in at most one   *)
(* domain.                                                                 *)
(***************************************************************************)
THEOREM OneAttachment ==
  ASSUME Guarded
  PROVE  Spec => []NoDoubleAttach
<1>1. IInv /\ GInv => NoDoubleAttach
  <2> SUFFICES ASSUME IInv, GInv, NEW v \in Volumes, NEW i \in disk[v], NEW j \in disk[v] PROVE i = j
    BY Zenon DEF NoDoubleAttach
  <2>1. CASE \A n \in Slots : op[n].v = v => ~Mover(op[n])
    <3>1. i \in Where(inst[v]) /\ j \in Where(inst[v]) BY <2>1, SMTT(40) DEF GInv, Settled
    <3> QED BY <3>1, Zenon DEF Where
  <2>2. ASSUME NEW n \in Slots, op[n].v = v, Mover(op[n]) PROVE i = j
    <3>1. op[n].kind # "none" /\ op[n].kind \in {"attach", "detach"} /\ Fly(op[n])
      BY <2>2, Zenon DEF Mover
    <3>2. Follows(op[n], status[v], inst[v], disk[v]) BY <2>2, <3>1, GuardedFacts, ZenonT(60)
    <3> QED BY <3>1, <3>2 DEF Follows
  <2> QED BY <2>1, <2>2, SMTT(40)
<1> QED BY <1>1, Inductive, InitGInv, NextGInv, PTL DEF Spec

(***************************************************************************)
(* Under Guarded, when nothing is under way for a volume its row says what *)
(* the hypervisors have.                                                   *)
(***************************************************************************)
THEOREM RowIsTrue ==
  ASSUME Guarded
  PROVE  Spec => []RowAgreesWithDisk
<1>1. IInv /\ GInv => RowAgreesWithDisk
  <2> SUFFICES ASSUME IInv, GInv, NEW v \in Volumes, Quiet(v)
               PROVE  /\ status[v] = "available" => inst[v] = None /\ disk[v] = {}
                      /\ status[v] = "attached" => inst[v] # None /\ disk[v] = {inst[v]}
    BY Zenon DEF RowAgreesWithDisk
  <2>1. \A n \in Slots : op[n].v = v => ~Mover(op[n]) BY SMTT(40) DEF Quiet, InFlight, Mover, Fly
  <2>2. disk[v] = Where(inst[v]) /\ RowOK(status[v], inst[v])
    BY <2>1, Zenon DEF GInv, Settled, RowsOK
  <2> QED BY <2>2, Zenon DEF Where, RowOK
<1> QED BY <1>1, Inductive, InitGInv, NextGInv, PTL DEF Spec

(***************************************************************************)
(* Under Guarded, a script is at work on a volume only while the row says  *)
(* that the volume is busy or the request that sent it has not returned.   *)
(***************************************************************************)
THEOREM BusyShields ==
  ASSUME Guarded
  PROVE  Spec => []BusyWhileWorking
<1>1. IInv /\ GInv => BusyWhileWorking
  <2> SUFFICES ASSUME IInv, GInv, NEW n \in Slots, InFlight(n), ~Serving(n),
                      op[n].kind \notin {"delete", "deleteAPI"}
               PROVE  IsBusy(op[n].v)
    BY Zenon DEF BusyWhileWorking
  <2>1. Fly(op[n]) /\ ~Srv(op[n]) BY SMTT(40) DEF InFlight, Serving, Fly, Srv
  <2>2. op[n].kind # "none" BY <2>1, Zenon DEF IInv, WellFormed, RequestOK, Fly
  <2>3. Follows(op[n], status[op[n].v], inst[op[n].v], disk[op[n].v]) BY <2>2, GuardedFacts, Zenon
  <2> QED BY <2>1, <2>3, ZenonT(60) DEF Follows, IsBusy
<1> QED BY <1>1, Inductive, InitGInv, NextGInv, PTL DEF Spec

=============================================================================
