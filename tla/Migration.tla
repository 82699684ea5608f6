------------------------------ MODULE Migration ------------------------------
(***************************************************************************)
(* The migration of one instance between hypervisors.                      *)
(*                                                                         *)
(* Three parties take part.  MigrationAdmin.Create (routes/migration.go)   *)
(* opens a migration and sends target_migration.sh.  The callbacks         *)
(* MigrateVM, LaunchVM and InstanceStatus (rpcs/) move the records on and  *)
(* send the next script.  The scripts of scripts/kvm run on the            *)
(* hypervisors, one after the other from a queue per host, except for the  *)
(* asynchronous jobs, which run beside it.                                 *)
(*                                                                         *)
(* The shared storage is the set of hosts the volumes are bound to and the *)
(* set of hosts whose path is on the black list.  A domain can write to    *)
(* the disk when it runs on a host that is bound and not on the black      *)
(* list.                                                                   *)
(***************************************************************************)
EXTENDS Naturals, Sequences, FiniteSets, FiniteSetsExt

CONSTANTS Hypers,         \* the hypervisors
          Nowhere,        \* host number -1: the scheduler picks the target
          MaxMigrations,  \* bound on the migrations ever created
          MaxCrashes,     \* bound on the crashes of hosts
          MaxQueue,       \* bound on the queue of a host that still reports
          Faults          \* what may go wrong, a subset of FaultKinds

(***************************************************************************)
(* abort:     another instance of the request fails after the command of   *)
(*            this one was sent, and the whole transaction is rolled back  *)
(* overtake:  an answer is handled before the transaction of Create ends   *)
(* stale:     the report of a host takes its time on the way and between   *)
(*            the reading of the row and the writing                       *)
(* hasty:     a request reads the instance while another migration of it   *)
(*            has still something to do, or before the reports of the      *)
(*            hosts have corrected the row                                 *)
(* refused:   HyperExecute returns an error and sends nothing              *)
(* fail:      a storage or libvirt operation of a script fails             *)
(* timeout:   complete_migration.sh gives up after its 600 polls           *)
(* slow:      a migration takes more than six minutes                      *)
(* lost:      a command or an answer is lost                               *)
(* crash:     a hypervisor crashes and boots again                         *)
(* partition: a hypervisor that runs is taken for dead                     *)
(***************************************************************************)
FaultKinds == {"abort", "overtake", "hasty", "refused", "fail", "timeout",
               "stale", "slow", "lost", "crash", "partition"}

ASSUME MigrationAssumption == /\ Nowhere \notin Hypers
                              /\ MaxMigrations \in Nat /\ MaxQueue \in Nat
                              /\ MaxCrashes \in Nat
                              /\ Faults \subseteq FaultKinds

VARIABLES
  row,     \* the instances row: status, hyper, and whether a migrating row
           \* is older than six minutes
  reads,   \* instances loaded by requests that have not reached Create
  mig,     \* the migrations rows and their tasks, by number
  known,   \* hypers.status: "active", or "lost" for status 10
  up,      \* the hosts that run
  crashes, \* the crashes so far
  dom,     \* the libvirt domain of the instance on each host
  files,   \* $xml_dir/inst-ID on each host
  bound,   \* the hosts the volumes are bound to
  fenced,  \* the hosts whose path is on the black list
  cmds,    \* commands queued per host
  jobs,    \* asynchronous jobs that run
  cbs      \* answers on their way and callbacks half done

records == <<row, reads, mig>>
hosts == <<up, crashes, dom, files, bound, fenced>>
vars == <<row, reads, mig, known, up, crashes, dom, files, bound, fenced, cmds,
          jobs, cbs>>

-----------------------------------------------------------------------------
Movable == {"shut_off", "running", "paused"}
Reported == {"shut_off", "running", "paused"}
RowStatus == Movable \cup {"migrating", "migrated", "rollback", "unknown"}
Row == [status : RowStatus, hyper : Hypers, old : BOOLEAN]
Unread == [status |-> "unread", hyper |-> Nowhere, old |-> FALSE]

Types == {"warm", "cold"}
Tasks == {"prep", "source", "back"}
TaskStatus == {"none", "in_progress", "completed", "failed"}
States == {"target_prepared", "source_prepared", "completed", "rollback",
           "source_rollback", "failed", "timeout"}
Migration == [made : {"open", "made", "undone"}, type : Types, src : Hypers,
              tgt : Hypers \cup {Nowhere},
              status : States \cup {"in_progress", "not_doing"},
              prep : TaskStatus, source : TaskStatus, back : TaskStatus]

Domain == {"none", "off", "running", "paused", "transient"}
Running == {"running", "transient"}
Files == {"none", "good", "empty"}
Scripts == {"target", "source", "finish", "rollback", "clear", "complete"}
Command == [script : Scripts, m : 1..MaxMigrations, task : Tasks, type : Types,
            peer : Hypers]
Job == [h : Hypers, script : {"complete", "rollback", "clear", "unbind"},
        m : 1..MaxMigrations, task : Tasks, type : Types, peer : Hypers]
Callback ==
  [kind : {"migrate"}, h : Hypers, m : 1..MaxMigrations, task : Tasks,
   state : States, seen : {Unread}]
    \cup [kind : {"report", "launch"}, h : Hypers, m : {0}, task : {"prep"},
          state : Reported, seen : Row \cup {Unread}]

Nums == DOMAIN mig
Made == {m \in Nums : mig[m].made = "made"}
(***************************************************************************)
(* Create updates the row inside its transaction, so that every other      *)
(* writer of the row waits for the transaction to end.                     *)
(***************************************************************************)
Unlocked == \A m \in Nums : mig[m].made # "open"

(* Nothing that a migration started is still to be done. *)
Quiet == /\ Unlocked /\ jobs = {}
         /\ \A h \in Hypers : cmds[h] = <<>>
         /\ \A c \in cbs : c.kind # "migrate"

Send(h, c) == [cmds EXCEPT ![h] = Append(@, c)]
Cmd(script, m, task, type, peer) ==
  [script |-> script, m |-> m, task |-> task, type |-> type, peer |-> peer]
Answer(h, c, state) ==
  [kind |-> "migrate", h |-> h, m |-> c.m, task |-> c.task, state |-> state,
   seen |-> Unread]
Sighting(kind, h, state) ==
  [kind |-> kind, h |-> h, m |-> 0, task |-> "prep", state |-> state,
   seen |-> Unread]

StateOf(d) == CASE d \in Running -> "running"
                [] d = "paused" -> "paused"
                [] OTHER -> "shut_off"

Init ==
  \E h \in Hypers, d \in {"off", "running", "paused"} :
    /\ row = [status |-> StateOf(d), hyper |-> h, old |-> FALSE]
    /\ reads = {} /\ mig = <<>>
    /\ known = [x \in Hypers |-> "active"] /\ up = Hypers /\ crashes = 0
    /\ dom = [x \in Hypers |-> IF x = h THEN d ELSE "none"]
    /\ files = [x \in Hypers |-> IF x = h THEN "good" ELSE "none"]
    /\ bound = {h} /\ fenced = {}
    /\ cmds = [x \in Hypers |-> <<>>] /\ jobs = {} /\ cbs = {}

-----------------------------------------------------------------------------
(* The request.                                                            *)

(* The instances of a request are loaded before Create and its transaction. *)
LoadInstance ==
  /\ Len(mig) < MaxMigrations
  /\ "hasty" \in Faults \/ (reads = {} /\ Quiet /\ dom[row.hyper] # "none")
  /\ reads' = reads \cup {row}
  /\ UNCHANGED <<row, mig, known, hosts, cmds, jobs, cbs>>

NewMigration(s, type, tgt, status) ==
  [made |-> "open", type |-> type, src |-> s.hyper, tgt |-> tgt,
   status |-> status, prep |-> "in_progress", source |-> "none", back |-> "none"]

(***************************************************************************)
(* The loop body of Create up to HyperExecute.  The status that is tested  *)
(* is the one that was loaded.  With target -1 the scheduler picks a host  *)
(* of the group, or none has the resources: its error answer names a       *)
(* command that no callback is registered for.                             *)
(***************************************************************************)
CreateSend(s, tgt, force) ==
  /\ s \in reads /\ Len(mig) < MaxMigrations /\ Unlocked
  /\ tgt # Nowhere => known[tgt] = "active"
  /\ s.status \in Movable
  /\ s.hyper # tgt
  /\ reads' = reads \ {s}
  /\ LET type == IF known[s.hyper] = "active" /\ ~force THEN "warm" ELSE "cold"
         group == {h \in Hypers \ {s.hyper} : known[h] = "active"}
         c == Cmd("target", Len(mig) + 1, "prep", type, s.hyper)
     IN IF tgt = Nowhere /\ group = {}
        THEN /\ mig' = Append(mig, [NewMigration(s, type, tgt, "not_doing")
                                      EXCEPT !.made = "made"])
             /\ cmds' = cmds
        ELSE /\ mig' = Append(mig, NewMigration(s, type, tgt, "in_progress"))
             /\ \/ \E h \in IF tgt = Nowhere THEN group ELSE {tgt} : cmds' = Send(h, c)
                \/ tgt = Nowhere /\ cmds' = cmds
  /\ UNCHANGED <<row, known, hosts, jobs, cbs>>

(***************************************************************************)
(* Create ends without a migration: the instance is not in a movable state *)
(* or already on the target, the target is lost, or nothing could be sent. *)
(***************************************************************************)
CreateRefuse(s) ==
  /\ s \in reads
  /\ reads' = reads \ {s}
  /\ UNCHANGED <<row, mig, known, hosts, cmds, jobs, cbs>>

CreateCommit(m) ==
  /\ m \in Nums /\ mig[m].made = "open"
  /\ mig' = [mig EXCEPT ![m].made = "made"]
  /\ row' = [row EXCEPT !.status = "migrating", !.old = FALSE]
  /\ UNCHANGED <<reads, known, hosts, cmds, jobs, cbs>>

CreateAbort(m) ==
  /\ "abort" \in Faults
  /\ m \in Nums /\ mig[m].made = "open"
  /\ mig' = [mig EXCEPT ![m].made = "undone"]
  /\ UNCHANGED <<row, reads, known, hosts, cmds, jobs, cbs>>

-----------------------------------------------------------------------------
(* The callbacks.                                                          *)

(* The outcomes of execSourceMigrate for a migration. *)
ExecSource(g) ==
  IF known[g.src] = "active" /\ g.tgt # Nowhere
  THEN {TRUE} \cup (IF "refused" \in Faults THEN {FALSE} ELSE {})
  ELSE {FALSE}
ExecTarget == {TRUE} \cup (IF "refused" \in Faults THEN {FALSE} ELSE {})

(***************************************************************************)
(* syncMigration for an instance seen on h: the last migration away from h *)
(* whose Prepare_Source is not completed is resumed, as a cold one.        *)
(***************************************************************************)
Away(h) == {m \in Made : mig[m].src = h}
SyncMigration(h) ==
  IF Away(h) = {} THEN cmds
  ELSE LET m == Max(Away(h))
       IN IF mig[m].source \in {"in_progress", "failed"} /\ TRUE \in ExecSource(mig[m])
          THEN Send(h, Cmd("source", m, "source", "cold", mig[m].tgt))
          ELSE cmds

(* The status of the task and of the migration, written when MigrateVM returns. *)
Recorded(g, c, ok) ==
  [g EXCEPT ![c.task] = IF ok /\ c.state # "failed" THEN "completed" ELSE "failed",
            !.status = c.state]

SetStatus(s) == [row EXCEPT !.status = s, !.old = FALSE]
SetPlace(s, h) == [status |-> s, hyper |-> h, old |-> FALSE]

(***************************************************************************)
(* MigrateVM on "target_prepared".  When the source cannot be reached a    *)
(* cold migration tells LaunchVM where the instance is and then stops on   *)
(* a nil error, so that Prepare_Source stays in progress; a warm one marks *)
(* Prepare_Source failed.  In both cases the deferred function sees no     *)
(* error.                                                                  *)
(***************************************************************************)
TargetPrepared(c) ==
  LET g == [mig[c.m] EXCEPT !.tgt = IF @ = Nowhere THEN c.h ELSE @]
  IN \E ok \in ExecSource(g) :
       /\ mig' = [mig EXCEPT ![c.m] =
                    Recorded([g EXCEPT !.source =
                                IF ok \/ g.type = "cold" THEN "in_progress" ELSE "failed"],
                             c, TRUE)]
       /\ \/ /\ ok
             /\ cmds' = Send(g.src, Cmd("source", c.m, "source", g.type, g.tgt))
             /\ UNCHANGED row
          \/ /\ ~ok /\ g.type = "cold"
             /\ \/ row.status = "migrating" /\ UNCHANGED row
                \/ row.status # "migrating" /\ Unlocked /\ row' = SetPlace("migrated", c.h)
             /\ cmds' = SyncMigration(c.h)
          \/ /\ ~ok /\ g.type = "warm"
             /\ UNCHANGED <<row, cmds>>

SourcePrepared(c) ==
  LET g == mig[c.m]
  IN \E ok \in ExecTarget :
       /\ mig' = [mig EXCEPT ![c.m] = Recorded(g, c, ok)]
       /\ cmds' = IF ok THEN Send(g.tgt, Cmd("complete", c.m, c.task, g.type, g.src))
                        ELSE cmds
       /\ UNCHANGED row

Completed(c) ==
  LET g == mig[c.m]
      synced == SyncMigration(c.h)
  IN \E ok \in ExecSource(g) :
       /\ Unlocked
       /\ row' = SetPlace("migrated", c.h)
       /\ mig' = [mig EXCEPT ![c.m] = Recorded(g, c, ok)]
       /\ cmds' = IF ok THEN [synced EXCEPT ![g.src] =
                                Append(@, Cmd("finish", c.m, c.task, g.type, g.tgt))]
                        ELSE synced

Rollback(c) ==
  LET g == mig[c.m]
  IN \E ok \in ExecSource(g) :
       /\ mig' = [mig EXCEPT ![c.m] = Recorded(g, c, ok)]
       /\ cmds' = IF ok THEN Send(g.src, Cmd("rollback", c.m, c.task, g.type, g.tgt))
                        ELSE cmds
       /\ UNCHANGED row

(* Mutant: the target is never asked to clear the migration. *)
SourceRollbackSilent(c) ==
  /\ Unlocked
  /\ row' = SetStatus("rollback")
  /\ mig' = [mig EXCEPT ![c.m] = Recorded([@ EXCEPT !.back = "in_progress"], c, TRUE)]
  /\ UNCHANGED cmds

SourceRollback(c) ==
  LET g == [mig[c.m] EXCEPT !.back = "in_progress"]
  IN \E ok \in ExecTarget :
       /\ Unlocked
       /\ row' = SetStatus("rollback")
       /\ mig' = [mig EXCEPT ![c.m] = Recorded(g, c, ok)]
       /\ cmds' = IF ok THEN Send(g.tgt, Cmd("clear", c.m, "back", g.type, g.src))
                        ELSE cmds

(* Mutant: the state of the migration is written into the row. *)
FailedCopied(c) ==
  /\ Unlocked
  /\ row' = SetStatus(c.state)
  /\ mig' = [mig EXCEPT ![c.m] = Recorded(mig[c.m], c, TRUE)]
  /\ UNCHANGED cmds

Failed(c) ==
  /\ Unlocked
  /\ row' = SetStatus("unknown")
  /\ mig' = [mig EXCEPT ![c.m] = Recorded(mig[c.m], c, TRUE)]
  /\ UNCHANGED cmds

(* A state that no branch of MigrateVM names is only written down. *)
OtherState(c) ==
  /\ mig' = [mig EXCEPT ![c.m] = Recorded(mig[c.m], c, TRUE)]
  /\ UNCHANGED <<row, cmds>>

(* MigrateVM finds no record: the request was rolled back or has not ended. *)
NoRecord(c) ==
  /\ mig[c.m].made = "undone" \/ (mig[c.m].made = "open" /\ "overtake" \in Faults)
  /\ UNCHANGED <<row, mig, cmds>>

MigrateVM(c) ==
  /\ c \in cbs /\ c.kind = "migrate"
  /\ \/ NoRecord(c)
     \/ /\ mig[c.m].made = "made"
        /\ \/ c.state = "target_prepared" /\ TargetPrepared(c)
           \/ c.state = "source_prepared" /\ SourcePrepared(c)
           \/ c.state = "completed" /\ Completed(c)
           \/ c.state = "rollback" /\ Rollback(c)
           \/ c.state = "source_rollback" /\ SourceRollback(c)
           \/ c.state = "failed" /\ Failed(c)
           \/ c.state = "timeout" /\ OtherState(c)
  /\ cbs' = cbs \ {c}
  /\ UNCHANGED <<reads, known, hosts, jobs>>

(* InstanceStatus and LaunchVM load the row first and write it later. *)
Loaded(c) == IF c.seen = Unread THEN row ELSE c.seen
LoadRow(c) ==
  /\ "stale" \in Faults
  /\ c \in cbs /\ c.kind # "migrate" /\ c.seen = Unread
  /\ cbs' = (cbs \ {c}) \cup {[c EXCEPT !.seen = row]}
  /\ UNCHANGED <<records, known, hosts, cmds, jobs>>

(* Mutant: a migrating row is never touched, however old it is. *)
ReportingNever(h, state, seen) ==
  \/ /\ seen.status = "migrating"
     /\ UNCHANGED <<row, cmds>>
  \/ /\ seen.status # "migrating"
     /\ Unlocked
     /\ row' = SetPlace(state, h)
     /\ cmds' = IF seen.hyper # h THEN SyncMigration(h) ELSE cmds

(* Mutant: rows that are shut off are passed over, like rescuing ones. *)
ReportingPasses(h, state, seen) ==
  \/ /\ seen.status \in {"migrating", "shut_off"} /\ ~seen.old
     /\ UNCHANGED <<row, cmds>>
  \/ /\ seen.status \notin {"migrating", "shut_off"} \/ seen.old
     /\ Unlocked
     /\ row' = SetPlace(state, h)
     /\ cmds' = IF seen.hyper # h THEN SyncMigration(h) ELSE cmds

(***************************************************************************)
(* InstanceStatus for a report of host h, when it read the row as seen.  A *)
(* report about a row that has been migrating for less than six minutes is *)
(* dropped.                                                                *)
(***************************************************************************)
Reporting(h, state, seen) ==
  \/ /\ seen.status = "migrating" /\ ~seen.old
     /\ UNCHANGED <<row, cmds>>
  \/ /\ seen.status # "migrating" \/ seen.old
     /\ Unlocked
     /\ LET status == IF seen.status # state THEN state ELSE row.status
            hyper == IF seen.hyper # h THEN h ELSE row.hyper
        IN row' = IF status = row.status /\ hyper = row.hyper
                  THEN row ELSE SetPlace(status, hyper)
     /\ cmds' = IF seen.hyper # h THEN SyncMigration(h) ELSE cmds

InstanceStatus(c) ==
  /\ c \in cbs /\ c.kind = "report"
  /\ Reporting(c.h, c.state, Loaded(c))
  /\ cbs' = cbs \ {c}
  /\ UNCHANGED <<reads, mig, known, hosts, jobs>>

(* LaunchVM with reason "sync", sent by a host that has booted. *)
LaunchVM(c) ==
  /\ c \in cbs /\ c.kind = "launch"
  /\ cbs' = cbs \ {c}
  /\ \/ Loaded(c).status = "migrating" /\ UNCHANGED row
     \/ Loaded(c).status # "migrating" /\ Unlocked /\ row' = SetPlace(c.state, c.h)
  /\ cmds' = SyncMigration(c.h)
  /\ UNCHANGED <<reads, mig, known, hosts, jobs>>

SixMinutes ==
  /\ "slow" \in Faults /\ row.status = "migrating" /\ ~row.old
  /\ row' = [row EXCEPT !.old = TRUE]
  /\ UNCHANGED <<reads, mig, known, hosts, cmds, jobs, cbs>>

-----------------------------------------------------------------------------
(* The scripts, run from the head of the queue of a host.                  *)

Next1(h, script) == /\ h \in up /\ cmds[h] # <<>> /\ Head(cmds[h]).script = script
                    /\ cmds' = [cmds EXCEPT ![h] = Tail(@)]
                    /\ UNCHANGED <<records, known, up, crashes>>

(* Mutant: the paths other than the source's leave the black list, nothing else. *)
BlacklistedNone(peer) == fenced \ bound

(* The black list after blacklist_hyper_vhost.sh: every other bound path leaves it. *)
Blacklisted(peer) == (fenced \ bound) \cup ({peer} \cap bound)
Undefined(d) == IF d \in Running \cup {"paused"} THEN "transient" ELSE "none"

(* Mutant: a warm migration starts the domain too, as a cold one does. *)
TargetMigrationEager(h) ==
  LET c == Head(cmds[h])
  IN /\ Next1(h, "target")
     /\ bound' = bound \cup {h}
     /\ fenced' = IF c.type = "cold" THEN Blacklisted(c.peer) ELSE fenced
     /\ files' = [files EXCEPT ![h] = "good"]
     /\ dom' = [dom EXCEPT ![h] = "running"]
     /\ cbs' = cbs \cup {Answer(h, c, "target_prepared")}
     /\ UNCHANGED jobs

(***************************************************************************)
(* target_migration.sh.  A cold migration cuts the source off, binds the   *)
(* volumes here, defines the domain and starts it; a warm one only         *)
(* prepares.                                                               *)
(***************************************************************************)
TargetMigration(h) ==
  LET c == Head(cmds[h])
      fence == IF c.type = "cold" THEN Blacklisted(c.peer) ELSE fenced
  IN /\ Next1(h, "target")
     /\ UNCHANGED jobs
     /\ \/ /\ c.type = "warm" \/ dom[h] \in {"none", "off"}
           /\ fenced' = fence /\ bound' = bound \cup {h}
           /\ files' = [files EXCEPT ![h] = "good"]
           /\ dom' = IF c.type = "cold" THEN [dom EXCEPT ![h] = "running"] ELSE dom
           /\ cbs' = cbs \cup {Answer(h, c, "target_prepared")}
        \/ (* virsh start fails, also when the domain runs already *)
           /\ c.type = "cold" /\ ("fail" \in Faults \/ dom[h] \notin {"none", "off"})
           /\ fenced' = fence /\ bound' = bound \cup {h}
           /\ files' = [files EXCEPT ![h] = "none"]
           /\ dom' = [dom EXCEPT ![h] = Undefined(@)]
           /\ cbs' = cbs \cup {Answer(h, c, "failed")}
        \/ (* the volumes cannot be put on the black list, or not be bound *)
           /\ "fail" \in Faults
           /\ \/ c.type = "cold" /\ UNCHANGED <<fenced, bound>>
              \/ fenced' = fence /\ bound' = bound \ {h}
           /\ cbs' = cbs \cup {Answer(h, c, "failed")}
           /\ UNCHANGED <<files, dom>>

(* The xml file after virsh dumpxml, empty when there is no domain. *)
Dumped(h) == [files EXCEPT ![h] = IF @ = "none" THEN "none"
                                  ELSE IF dom[h] = "none" THEN "empty" ELSE "good"]

(***************************************************************************)
(* source_migration.sh, warm: virsh migrate hands the domain over with     *)
(* --undefinesource, a running one suspended, and resumes it through ssh.  *)
(* When the domain is still there afterwards, or cannot be resumed, the    *)
(* answer is source_rollback.  An absent domain counts as handed over.     *)
(***************************************************************************)
WarmSource(h, c) ==
  \/ /\ dom[h] = "none"
     /\ cbs' = cbs \cup {Answer(h, c, "source_prepared")}
     /\ UNCHANGED dom
  \/ /\ dom[h] # "none" /\ c.peer \in up /\ dom[c.peer] \in {"none", "off"}
     /\ \/ /\ dom' = [dom EXCEPT ![h] = "none",
                                ![c.peer] = IF dom[h] \in Running THEN "running" ELSE dom[h]]
           /\ cbs' = cbs \cup {Answer(h, c, "source_prepared")}
        \/ /\ "fail" \in Faults /\ dom[h] \in Running
           /\ dom' = [dom EXCEPT ![h] = "none", ![c.peer] = "paused"]
           /\ cbs' = cbs \cup {Answer(h, c, "source_rollback")}
  \/ /\ dom[h] # "none"
     /\ "fail" \in Faults \/ c.peer \notin up \/ dom[c.peer] \notin {"none", "off"}
     /\ cbs' = cbs \cup {Answer(h, c, "source_rollback")}
     /\ UNCHANGED dom

ColdSource(h, c) ==
  /\ dom' = [dom EXCEPT ![h] = CASE @ \in {"running", "paused"} -> "off"
                                  [] @ = "transient" -> "none"
                                  [] OTHER -> @]
  /\ cbs' = cbs \cup {Answer(h, c, "source_prepared")}

(* Mutant: the domain is dumped when virsh migrate has removed it. *)
SourceMigrationLate(h) ==
  LET c == Head(cmds[h])
  IN /\ Next1(h, "source")
     /\ \/ c.type = "warm" /\ WarmSource(h, c)
        \/ c.type = "cold" /\ ColdSource(h, c)
     /\ files' = [files EXCEPT ![h] = IF dom'[h] = "none" THEN "empty" ELSE @]
     /\ UNCHANGED <<bound, fenced, jobs>>

SourceMigration(h) ==
  LET c == Head(cmds[h])
  IN /\ Next1(h, "source")
     /\ files' = Dumped(h)
     /\ \/ c.type = "warm" /\ WarmSource(h, c)
        \/ c.type = "cold" /\ ColdSource(h, c)
     /\ UNCHANGED <<bound, fenced, jobs>>

(* finish_source_migration.sh; the volumes are unbound by a job. *)
FinishSource(h) ==
  LET c == Head(cmds[h])
  IN /\ Next1(h, "finish")
     /\ dom' = [dom EXCEPT ![h] = "none"]
     /\ files' = [files EXCEPT ![h] = "none"]
     /\ jobs' = jobs \cup {[h |-> h, script |-> "unbind", m |-> c.m, task |-> c.task,
                           type |-> c.type, peer |-> h]}
     /\ UNCHANGED <<bound, fenced, cbs>>

(* The scripts that only start the job of the same name. *)
StartJob(h, script) ==
  LET c == Head(cmds[h])
  IN /\ Next1(h, script)
     /\ jobs' = jobs \cup {[h |-> h, script |-> script, m |-> c.m, task |-> c.task,
                           type |-> c.type, peer |-> c.peer]}
     /\ UNCHANGED <<dom, files, bound, fenced, cbs>>

-----------------------------------------------------------------------------
(* The asynchronous jobs.                                                  *)

(* clear_hyper_vhost.sh for host x: no bound path stays on the black list. *)
ClearVhost(x) == bound' = bound \ {x} /\ fenced' = fenced \ bound

Unbind(j) ==
  /\ j \in jobs /\ j.script = "unbind"
  /\ ClearVhost(j.peer)
  /\ jobs' = jobs \ {j}
  /\ UNCHANGED <<records, known, up, crashes, dom, files, cmds, cbs>>

(* complete_migration.sh sees the domain on the target. *)
CompleteMigration(j) ==
  /\ j \in jobs /\ j.script = "complete"
  /\ dom[j.h] # "none"
  /\ jobs' = jobs \ {j}
  /\ dom' = IF j.type = "cold" /\ files[j.h] = "good" /\ dom[j.h] = "transient"
            THEN [dom EXCEPT ![j.h] = "running"] ELSE dom
  /\ cbs' = cbs \cup {Answer(j.h, j, "completed")}
  /\ UNCHANGED <<records, known, up, crashes, files, bound, fenced, cmds>>

(***************************************************************************)
(* complete_migration.sh after 600 polls.  A warm migration waits for a    *)
(* completed job that libvirt forgets, so it may give up on a domain that  *)
(* has arrived.                                                            *)
(***************************************************************************)
CompleteTimeout(j) ==
  /\ j \in jobs /\ j.script = "complete"
  /\ dom[j.h] = "none" \/ (j.type = "warm" /\ "timeout" \in Faults)
  /\ jobs' = jobs \ {j}
  /\ dom' = [dom EXCEPT ![j.h] = Undefined(@)]
  /\ files' = [files EXCEPT ![j.h] = "none"]
  /\ cbs' = cbs \cup {Answer(j.h, j, "timeout")}
  /\ UNCHANGED <<records, known, up, crashes, bound, fenced, cmds>>

(* clear_target_migration.sh *)
ClearTarget(j) ==
  /\ j \in jobs /\ j.script = "clear"
  /\ jobs' = {k \in jobs \ {j} : ~(k.h = j.h /\ k.script = "complete" /\ k.m = j.m)}
  /\ dom' = [dom EXCEPT ![j.h] = "none"]
  /\ files' = [files EXCEPT ![j.h] = "none"]
  /\ cbs' = cbs \cup {Answer(j.h, j, "rollback")}
  /\ UNCHANGED <<records, known, up, crashes, bound, fenced, cmds>>

(* rollback_source_migration.sh *)
RollbackSource(j) ==
  /\ j \in jobs /\ j.script = "rollback"
  /\ jobs' = jobs \ {j}
  /\ ClearVhost(j.peer)
  /\ LET d == IF files[j.h] # "good" THEN dom[j.h]
              ELSE CASE dom[j.h] = "none" -> "off"
                     [] dom[j.h] = "transient" -> "running"
                     [] OTHER -> dom[j.h]
     IN \/ dom' = [dom EXCEPT ![j.h] = IF d = "off" THEN "running" ELSE d]
        \/ "fail" \in Faults /\ dom' = [dom EXCEPT ![j.h] = d]
  /\ UNCHANGED <<records, known, up, crashes, files, cmds, cbs>>

-----------------------------------------------------------------------------
(* The hosts.                                                              *)

(* report_rc.sh, inst_status.  Bound: one report of all hosts is under way. *)
Report(h) ==
  /\ h \in up /\ dom[h] # "none"
  /\ Len(cmds[h]) < MaxQueue /\ \A c \in cbs : c.kind # "report"
  /\ \/ /\ "stale" \in Faults
        /\ cbs' = cbs \cup {Sighting("report", h, StateOf(dom[h]))}
        /\ UNCHANGED <<row, cmds>>
     \/ /\ "stale" \notin Faults
        /\ Reporting(h, StateOf(dom[h]), row)
        /\ UNCHANGED cbs
  /\ UNCHANGED <<reads, mig, known, hosts, jobs>>

Crash(h) ==
  /\ "crash" \in Faults /\ crashes < MaxCrashes /\ h \in up
  /\ crashes' = crashes + 1
  /\ up' = up \ {h}
  /\ dom' = [dom EXCEPT ![h] = CASE @ \in {"running", "paused"} -> "off"
                                  [] @ = "transient" -> "none"
                                  [] OTHER -> @]
  /\ cmds' = [cmds EXCEPT ![h] = <<>>]
  /\ jobs' = {j \in jobs : j.h # h}
  /\ UNCHANGED <<records, known, files, bound, fenced, cbs>>

(* The front end loses the back end: hypers.status becomes 10. *)
LoseHyper(h) ==
  /\ known[h] = "active"
  /\ h \notin up \/ "partition" \in Faults
  /\ known' = [known EXCEPT ![h] = "lost"]
  /\ UNCHANGED <<records, hosts, cmds, jobs, cbs>>

HyperStatus(h) ==
  /\ h \in up /\ known[h] = "lost"
  /\ known' = [known EXCEPT ![h] = "active"]
  /\ UNCHANGED <<records, hosts, cmds, jobs, cbs>>

(* report_rc.sh, sync_instance: every instance with files is started. *)
Boot(h) ==
  /\ h \notin up
  /\ up' = up \cup {h}
  /\ \/ dom' = [dom EXCEPT ![h] = IF @ = "off" /\ files[h] # "none" THEN "running" ELSE @]
     \/ "fail" \in Faults /\ UNCHANGED dom
  /\ cbs' = IF files[h] = "none" THEN cbs ELSE cbs \cup {Sighting("launch", h, "running")}
  /\ UNCHANGED <<records, known, crashes, files, bound, fenced, cmds, jobs>>

LoseCommand(h) ==
  /\ "lost" \in Faults /\ cmds[h] # <<>>
  /\ cmds' = [cmds EXCEPT ![h] = Tail(@)]
  /\ UNCHANGED <<records, known, hosts, jobs, cbs>>

LoseAnswer(c) ==
  /\ "lost" \in Faults /\ c \in cbs
  /\ cbs' = cbs \ {c}
  /\ UNCHANGED <<records, known, hosts, cmds, jobs>>

-----------------------------------------------------------------------------
Request == \/ LoadInstance
           \/ \E s \in reads : \/ CreateRefuse(s)
                               \/ \E tgt \in Hypers \cup {Nowhere}, force \in BOOLEAN :
                                    CreateSend(s, tgt, force)
           \/ \E m \in Nums : CreateCommit(m) \/ CreateAbort(m)

Handle == \/ \E c \in cbs : \/ MigrateVM(c) \/ LoadRow(c)
                             \/ InstanceStatus(c) \/ LaunchVM(c) \/ LoseAnswer(c)
          \/ SixMinutes

RunScript(h) == \/ TargetMigration(h) \/ SourceMigration(h) \/ FinishSource(h)
                \/ \E s \in {"complete", "rollback", "clear"} : StartJob(h, s)

RunJob(j) == \/ Unbind(j) \/ CompleteMigration(j) \/ CompleteTimeout(j)
             \/ ClearTarget(j) \/ RollbackSource(j)

Host == \/ \E h \in Hypers : \/ RunScript(h) \/ Report(h) \/ Crash(h) \/ LoseHyper(h)
                             \/ HyperStatus(h) \/ Boot(h) \/ LoseCommand(h)
        \/ \E j \in jobs : RunJob(j)

Next == Request \/ Handle \/ Host
Spec == Init /\ [][Next]_vars

(***************************************************************************)
(* Every request, callback, script and job that has begun ends, the hosts  *)
(* report again and again, and time passes.  New requests, and the faults, *)
(* need never happen.                                                      *)
(***************************************************************************)
Fairness ==
  /\ \A m \in 1..MaxMigrations : WF_vars(m \in Nums /\ CreateCommit(m))
  /\ WF_vars(\E c \in cbs : MigrateVM(c))
  /\ WF_vars(\E c \in cbs : InstanceStatus(c) \/ LaunchVM(c))
  /\ WF_vars(SixMinutes)
  /\ \A h \in Hypers : WF_vars(RunScript(h)) /\ WF_vars(Report(h))
  /\ WF_vars(\E j \in jobs : RunJob(j))
FairSpec == Spec /\ Fairness

-----------------------------------------------------------------------------
(* The rows, queues, jobs and answers have their types. *)
TypeOK ==
  /\ row \in Row /\ reads \subseteq Row
  /\ mig \in Seq(Migration) /\ Len(mig) <= MaxMigrations
  /\ known \in [Hypers -> {"active", "lost"}] /\ up \subseteq Hypers
  /\ crashes \in 0..MaxCrashes
  /\ dom \in [Hypers -> Domain] /\ files \in [Hypers -> Files]
  /\ bound \subseteq Hypers /\ fenced \subseteq Hypers
  /\ cmds \in [Hypers -> Seq(Command)] /\ jobs \subseteq Job /\ cbs \subseteq Callback

(***************************************************************************)
(* The disk has one writer: of the domains that run, at most one is on a   *)
(* host whose volumes are bound and not on the black list.  This is what   *)
(* blacklist_hyper_vhost.sh, the order target, source, finish of a cold    *)
(* migration and the suspended hand-over of a warm one are for.            *)
(***************************************************************************)
Writers == {h \in bound \ fenced : dom[h] \in Running}
OneWriter == Cardinality(Writers) <= 1

(***************************************************************************)
(* The instance is never lost: some host has its domain, or the xml file   *)
(* to define it from.  finish_source_migration.sh,                         *)
(* clear_target_migration.sh and the timeout of complete_migration.sh each *)
(* remove a domain together with its files.                                *)
(***************************************************************************)
NeverLost == \E h \in Hypers : dom[h] # "none" \/ files[h] = "good"

(***************************************************************************)
(* What the comment on the deferred function of MigrateVM says: when an    *)
(* error occurs, the task and the migration are both set to failed.  So a  *)
(* migration with a failed task has failed.                                *)
(***************************************************************************)
FailureRecorded ==
  \A m \in Made : "failed" \in {mig[m].prep, mig[m].source, mig[m].back}
                   => mig[m].status = "failed"

(***************************************************************************)
(* A row does not stay migrating for ever, not even when the scheduler     *)
(* found no host and nobody is told: after six minutes InstanceStatus      *)
(* takes the word of the hosts.                                            *)
(***************************************************************************)
RowFreed == (row.status = "migrating") ~> (row.status # "migrating")

(***************************************************************************)
(* A migration to a host that is known comes to an end: MigrateVM writes a *)
(* state after which nothing more is sent.                                 *)
(***************************************************************************)
Final == {"completed", "rollback", "failed", "timeout", "not_doing"}
Sent == {m \in Nums : mig[m].tgt # Nowhere}
MigrationEnds ==
  \A m \in 1..MaxMigrations : (m \in Sent) ~> (m \in Nums /\ mig[m].status \in Final)

(***************************************************************************)
(* In the end the row names a host that has the domain.  On the way it may *)
(* not: the source reports the domain that finish_source_migration.sh is   *)
(* about to remove, and InstanceStatus moves the row back to the source.   *)
(***************************************************************************)
RowFindsInstance == <>[](dom[row.hyper] # "none")
==============================================================================
