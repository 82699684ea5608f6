------------------------------- MODULE Adjust -------------------------------
(***************************************************************************)
(* The resource adjustment rules: apis/adjust.go, routes/adjust.go, the    *)
(* parts of apis/alarms.go and routes/alarm.go that link, toggle and       *)
(* publish them, and the scripts that act on a hypervisor.                 *)
(*                                                                         *)
(* A rule group watches the VMs (CPU) or interfaces (bandwidth) linked to  *)
(* it.  Its Prometheus rules raise a limit alert for a linked target whose *)
(* usage is high, and a restore alert for one that has been limited long   *)
(* enough.  Alertmanager posts both to the webhook, when an alert starts   *)
(* firing, again while it fires, and once more when it is resolved; the    *)
(* webhook sends the hypervisor a command that limits or restores and one  *)
(* that writes or removes the status line the next alert depends on.       *)
(* Usage and elapsed time are nondeterministic.  All VMs run on one        *)
(* hypervisor.  Every interface has a configured bandwidth above zero.     *)
(* History rows, notifications and the values in the rules are left out.   *)
(***************************************************************************)
EXTENDS Naturals, Sequences, FiniteSets, SequencesExt

CONSTANTS Groups,   \* rule groups; each identifier is used once
          Kind,     \* "cpu" or "bw" for each group
          VMs,
          Devs,     \* the interfaces of a VM
          NoDev,    \* the empty interface name
          Targets(_), \* the <<vm, interface>> pairs requests name for a group
          Clients,  \* handlers of the REST API that may run at the same time
          None, Gone,
          MaxQueue, \* bound
          Plans     \* bound: how often each event may happen, one function per scenario

VARIABLES
  rows,     \* adjust_rule_group with its details: None before, Gone after
  link,     \* vm_rule_links: <<group, vm, interface>>
  matched,  \* matched_vms.json: <<group, vm, target_device>>
  file,     \* rule files in RulesGeneral: <<group, name>>
  sym,      \* symlinks in RulesEnabled
  loaded,   \* rule files Prometheus evaluates since its last reload
  alive,    \* VMs with an instance row and a domain
  limit,    \* what the hypervisor enforces: <<vm, interface, direction>>
  status,   \* lines vm_*_adjustment_status of value 1: <<group, vm, interface, direction>>
  stamp,    \* lines vm_*_limit_start_timestamp
  queue,    \* commands on their way to the hypervisor
  firing,   \* alerts Alertmanager holds
  hook,     \* webhook calls being processed
  req,      \* API requests being processed
  plan, asked

db == <<rows, link>>
prom == <<matched, file, sym, loaded>>
node == <<limit, status, stamp>>
vars == <<db, prom, alive, node, queue, firing, hook, req, plan, asked>>

Dirs == {"cpu", "in", "out"}
DirsOf(g) == IF Kind[g] = "cpu" THEN {"cpu"} ELSE {"in", "out"}
DevsOf(g) == IF Kind[g] = "cpu" THEN {NoDev} ELSE Devs
Alerts == {a \in [act : {"limit", "restore"}, g : Groups, v : VMs, d : Devs \cup {NoDev}, dir : Dirs] :
             a.d \in DevsOf(a.g) /\ a.dir \in DirsOf(a.g)}

Events == {"create_cpu", "create_bw", "patch", "delete", "link", "unlink", "toggle", "sync", "remove",
           "alert", "fail", "lost", "race", "overtake"}

Exists(g) == rows[g] \notin {None, Gone}
LinksOf(g) == {l \in link : l[1] = g}
Idle == [pc |-> "idle"]

SwapAt(s, i) == [s EXCEPT ![i] = s[i + 1], ![i + 1] = s[i]]

(* An event the scenario allows; a file, database or Prometheus error; an   *)
(* error of HyperExecute.                                                  *)
Ask(e) == asked[e] < plan[e] /\ asked' = [asked EXCEPT ![e] = @ + 1] /\ UNCHANGED plan
Same == UNCHANGED <<plan, asked>>
Fails == Ask("fail")
Lost == Ask("lost")

(* Requests and webhook calls run one at a time unless the scenario races. *)
Free(c) == req[c].pc = "idle" /\ (plan["race"] > 0 \/ hook = {})
Goto(c, r) == req' = [req EXCEPT ![c] = r]
Done(c) == Goto(c, Idle)

-----------------------------------------------------------------------------
(* matched_vms.json.  A call of UpdateMatchedVMsJSON names a group, VMs     *)
(* and interfaces; no VM stands for all of them, no interface for no filter.*)

Call(g, V, D) == [g |-> g, vms |-> V, devs |-> D \ {NoDev}]

EntriesOf(m, g, v) == {e \in m : e[1] = g /\ e[2] = v}

(* "add": the key is domain and rule_id, so one entry of the VM is replaced *)
(* whatever its target_device.                                             *)
AddEntries(m, k) ==
  {(m \ old) \cup {<<k.g, v, IF k.devs = {} THEN NoDev ELSE CHOOSE d \in k.devs : TRUE>> : v \in k.vms} :
     old \in {o \in SUBSET UNION {EntriesOf(m, k.g, v) : v \in k.vms} :
                \A v \in k.vms : Cardinality(o \cap EntriesOf(m, k.g, v))
                                   = IF EntriesOf(m, k.g, v) = {} THEN 0 ELSE 1}}

RemoveEntries(m, k) ==
  {e \in m : ~ (e[1] = k.g /\ (k.vms = {} \/ e[2] \in k.vms) /\ (k.devs = {} \/ e[3] \in k.devs))}

(* One call per interface, as the handlers group them. *)
CallsFor(g, T) == {Call(g, {t[1] : t \in {u \in T : u[2] = d}}, {d}) : d \in {t[2] : t \in T}}

(* A request that still has calls to make goes to the next one; `then` is  *)
(* where it goes after the last.                                           *)
Publish(out, in, then) ==
  IF out \cup in = {} THEN then ELSE [pc |-> "read", out |-> out, in |-> in, then |-> then]

Reload == loaded' = sym \cap file /\ Same
ReloadFails == Fails /\ UNCHANGED loaded
-----------------------------------------------------------------------------
(* ReadFile of UpdateMatchedVMsJSON. *)
ReadMatched(c) ==
  /\ req[c].pc = "read"
  /\ Goto(c, [pc |-> "write", out |-> req[c].out, in |-> req[c].in, then |-> req[c].then,
              seen |-> matched])
  /\ Same /\ UNCHANGED <<db, prom, alive, node, queue, firing, hook>>

(* The rest of it: the new content is computed from what was read, written *)
(* and loaded.  A VM without a domain, or a failed write, is an error that *)
(* leaves the file; link and unlink then return, the others go on.         *)
WriteMatched(c) ==
  /\ req[c].pc = "write"
  /\ LET r == req[c]
         first == IF r.out # {} THEN r.out ELSE r.in
     IN  \E k \in first :
           LET rest == Publish(r.out \ {k}, IF r.out # {} THEN r.in ELSE r.in \ {k}, r.then)
               bad == r.out = {} /\ ~ k.vms \subseteq alive
           IN  \/ /\ ~ bad
                  /\ matched' \in IF r.out # {} THEN {RemoveEntries(r.seen, k)} ELSE AddEntries(r.seen, k)
                  /\ Reload
                  /\ Goto(c, rest)
               \/ /\ \/ bad /\ Same
                     \/ Fails
                  /\ Goto(c, IF r.then.strict THEN Idle ELSE rest)
                  /\ UNCHANGED <<matched, loaded>>
  /\ UNCHANGED <<db, file, sym, alive, node, queue, firing, hook>>

(* ReloadPrometheusViaHTTP at the end of a handler. *)
LastReload(c) ==
  /\ req[c].pc = "reload"
  /\ Reload \/ ReloadFails
  /\ Done(c)
  /\ UNCHANGED <<db, matched, file, sym, alive, node, queue, firing, hook>>

ToReload(strict) == [pc |-> "reload", strict |-> strict]
-----------------------------------------------------------------------------
(* Handlers of the REST API. *)

(* The group row of a rule with the given details. *)
CreateRule(c, g, seq, T) ==
  /\ Free(c) /\ rows[g] = None
  /\ rows' = [rows EXCEPT ![g] = [enabled |-> TRUE, details |-> {},
                                  type |-> IF seq = <<>> THEN None ELSE Head(seq)]]
  /\ Goto(c, [pc |-> "render", g |-> g, todo |-> Append(seq, "alerts"),
              then |-> [pc |-> "link", g |-> g, T |-> T]])
  /\ UNCHANGED <<link, prom, alive, node, queue, firing, hook>>

CreateCPUAdjustRule(c, g, T) == Kind[g] = "cpu" /\ Ask("create_cpu") /\ CreateRule(c, g, <<"cpu">>, T)

(* The enabled rules of the request, in its order; the first gives the     *)
(* group its type.                                                         *)
CreateBWAdjustRule(c, g, seq, T) == Kind[g] = "bw" /\ Ask("create_bw") /\ CreateRule(c, g, seq, T)

(* A detail row and ProcessTemplate for it: the rule file and its symlink. *)
(* An error returns at once and takes nothing back.                        *)
RenderRule(c) ==
  /\ req[c].pc = "render"
  /\ LET r == req[c]  f == Head(r.todo)
         detailed == IF f = "alerts" \/ ~ Exists(r.g) THEN rows ELSE [rows EXCEPT ![r.g].details = @ \cup {f}]
     IN  \/ /\ rows' = detailed
            /\ file' = file \cup {<<r.g, f>>} /\ sym' = sym \cup {<<r.g, f>>}
            /\ Goto(c, IF Len(r.todo) = 1 THEN r.then ELSE [r EXCEPT !.todo = Tail(@)])
            /\ Same
         \/ /\ Fails
            /\ rows' \in {rows, detailed}
            /\ file' \in IF rows' = detailed THEN {file, file \cup {<<r.g, f>>}} ELSE {file}
            /\ UNCHANGED sym
            /\ Done(c)
  /\ UNCHANGED <<link, matched, loaded, alive, node, queue, firing, hook>>

(* BatchLinkVMs of the creation, then the entries of matched_vms.json. *)
LinkCreated(c) ==
  /\ req[c].pc = "link"
  /\ LET g == req[c].g  T == req[c].T
     IN  /\ link' = link \cup {<<g, t[1], t[2]>> : t \in T}
         /\ Goto(c, Publish({}, CallsFor(g, T), ToReload(FALSE)))
  /\ Same /\ UNCHANGED <<rows, prom, alive, node, queue, firing, hook>>

(* SyncVMLinks, SyncVMLinksWithDevice: the links of the group become T. *)
SyncVMLinks(g, T) ==
  LET new == {<<g, t[1], t[2]>> : t \in T}
      pairs(L) == {<<l[2], l[3]>> : l \in L}
  IN  [links |-> (link \ LinksOf(g)) \cup new,
       added |-> pairs(new \ LinksOf(g)), removed |-> pairs(LinksOf(g) \ new)]

(* CheckVMLinkExists: without an interface any link of the VM counts. *)
Linked(g, t) == \E l \in LinksOf(g) : l[2] = t[1] /\ (t[2] = NoDev \/ l[3] = t[2])

(* LinkRuleToVMWithType("adjust"): rows first; a VM that is not found makes *)
(* the handler return before anything is published.                        *)
LinkRuleToVM(c, g, T) ==
  /\ Free(c) /\ Ask("link") /\ Exists(g) /\ rows[g].enabled
  /\ LET fresh == {t \in T : t[1] \in alive /\ ~ Linked(g, t)}
         lost  == \E t \in T : t[1] \notin alive /\ ~ Linked(g, t)
     IN  /\ link' = link \cup {<<g, t[1], t[2]>> : t \in fresh}
         /\ IF lost \/ fresh = {} THEN UNCHANGED req
            ELSE Goto(c, Publish({}, CallsFor(g, fresh), ToReload(TRUE)))
  /\ UNCHANGED <<rows, prom, alive, node, queue, firing, hook>>

(* UnlinkRuleFromVMWithType("adjust"): nothing is restored. *)
UnlinkRuleFromVM(c, g, T) ==
  /\ Free(c) /\ Ask("unlink") /\ Exists(g)
  /\ LET hit(t) == {l \in LinksOf(g) : l[2] = t[1] /\ t[2] \in {NoDev, l[3]}}
         done == {t \in T : hit(t) # {}}
     IN  /\ link' = link \ UNION {hit(t) : t \in T}
         /\ IF done = {} THEN UNCHANGED req
            ELSE Goto(c, Publish(CallsFor(g, done), {}, ToReload(TRUE)))
  /\ UNCHANGED <<rows, prom, alive, node, queue, firing, hook>>

(* A patch: only of a group with exactly one detail.  The links become T    *)
(* and the rules are rendered again, symlinks included, whether the group  *)
(* is enabled or not; VMs that lose their link are not restored.           *)
PatchRule(c, g, dir, T) ==
  /\ Free(c) /\ Ask("patch") /\ Exists(g) /\ rows[g].type # None
  /\ Cardinality(rows[g].details) = 1
  /\ LET old == rows[g].details \ {dir}
     IN  /\ rows' = [rows EXCEPT ![g].details = {dir}]
         /\ file' = file \ ({g} \X old) /\ sym' = sym \ ({g} \X old)
  /\ link' = SyncVMLinks(g, T).links
  /\ Goto(c, [pc |-> "render", g |-> g, todo |-> <<dir, "alerts">>,
              then |-> Publish(CallsFor(g, SyncVMLinks(g, T).removed),
                               CallsFor(g, SyncVMLinks(g, T).added), ToReload(FALSE))])
  /\ UNCHANGED <<matched, loaded, alive, node, queue, firing, hook>>

PatchCPUAdjustRule(c, g, T) == Kind[g] = "cpu" /\ PatchRule(c, g, "cpu", T)

(* The direction may change, which removes the old rule file. *)
PatchBWAdjustRule(c, g, dir, T) == Kind[g] = "bw" /\ PatchRule(c, g, dir, T)

(* ToggleRuleStatus("adjust"): symlinks, reload and row, in this order.     *)
ToggleRule(c, g) ==
  /\ Free(c) /\ Ask("toggle") /\ Exists(g) /\ rows[g].type # None
  /\ LET mine == {<<g, rows[g].type>>, <<g, "alerts">>}
     IN  /\ mine \subseteq file
         /\ Goto(c, [pc |-> "toggle", g |-> g, mine |-> mine, on |-> ~ rows[g].enabled])
  /\ UNCHANGED <<db, prom, alive, node, queue, firing, hook>>

(* Enable takes its symlinks back when one fails, disable leaves removed    *)
(* what it removed before one failed.                                      *)
ToggleLinks(c) ==
  /\ req[c].pc = "toggle"
  /\ LET r == req[c]
     IN  \/ /\ sym' = IF r.on THEN sym \cup r.mine ELSE sym \ r.mine
            /\ Goto(c, [r EXCEPT !.pc = "toggled"]) /\ Same
         \/ /\ Fails /\ Done(c)
            /\ \E S \in SUBSET r.mine \ {r.mine} : sym' = sym \ S
  /\ UNCHANGED <<db, matched, file, loaded, alive, node, queue, firing, hook>>

(* A failed reload returns before UpdateAdjustRuleGroupStatus. *)
ToggleRow(c) ==
  /\ req[c].pc = "toggled"
  /\ \/ /\ Reload
        /\ rows' = IF Exists(req[c].g) THEN [rows EXCEPT ![req[c].g].enabled = req[c].on] ELSE rows
     \/ ReloadFails /\ UNCHANGED rows
  /\ Done(c)
  /\ UNCHANGED <<link, matched, file, sym, alive, node, queue, firing, hook>>

(* SyncAllVMRuleMappings: the file is rebuilt from the links. *)
SyncRead(c) ==
  /\ Free(c) /\ Ask("sync")
  /\ Goto(c, [pc |-> "sync", content |-> {l \in link : /\ Exists(l[1]) /\ rows[l[1]].type # None
                                                       /\ l[2] \in alive}])
  /\ UNCHANGED <<db, prom, alive, node, queue, firing, hook>>

SyncWrite(c) ==
  /\ req[c].pc = "sync"
  /\ matched' = req[c].content /\ Reload
  /\ Done(c)
  /\ UNCHANGED <<db, file, sym, alive, node, queue, firing, hook>>

(* A deletion: entries, files, a restore for every linked target, the      *)
(* metric lines, the rows, a reload.                                       *)
DeleteRule(c, g) ==
  /\ Free(c) /\ Ask("delete") /\ Exists(g) /\ rows[g].type # None
  /\ Goto(c, Publish({Call(g, {}, {})}, {}, [pc |-> "unrender", g |-> g, strict |-> FALSE]))
  /\ UNCHANGED <<db, prom, alive, node, queue, firing, hook>>

DeleteCPUAdjustRule(c, g) == Kind[g] = "cpu" /\ DeleteRule(c, g)
DeleteBWAdjustRule(c, g) == Kind[g] = "bw" /\ DeleteRule(c, g)

RemoveFiles(c) ==
  /\ req[c].pc = "unrender"
  /\ LET g == req[c].g
         mine == {g} \X ({"alerts"} \cup IF Kind[g] = "cpu" THEN {"cpu"}
                                         ELSE IF Exists(g) THEN rows[g].details ELSE {})
     IN  /\ \/ file' = file \ mine /\ sym' = sym \ mine /\ Same
            \/ Fails /\ UNCHANGED <<file, sym>>
         /\ Goto(c, [pc |-> "restore", g |-> g, todo |-> LinksOf(g)])
  /\ UNCHANGED <<db, matched, loaded, alive, node, queue, firing, hook>>

Command(op, g, v, d, dir) == [op |-> op, g |-> g, v |-> v, d |-> d, dir |-> dir]
Send(k) == queue' = Append(queue, k)

(* RestoreCPUResource and RestoreBandwidthResource as deletion calls them:  *)
(* "restore_bw" names no direction, so no status command follows it.       *)
RestoreLinked(c) ==
  /\ req[c].pc = "restore" /\ req[c].todo # {}
  /\ LET r == req[c]
     IN  \E l \in r.todo :
           LET rest == [r EXCEPT !.todo = @ \ {l}]
           IN  \/ /\ l[2] \in alive /\ Same
                  /\ Send(Command("restore", r.g, l[2], l[3], "any"))
                  /\ Goto(c, IF Kind[r.g] = "cpu" THEN [pc |-> "clear", l |-> l, then |-> rest] ELSE rest)
               \/ /\ IF l[2] \in alive THEN Lost ELSE Same
                  /\ Goto(c, rest) /\ UNCHANGED queue
  /\ UNCHANGED <<db, prom, alive, node, firing, hook>>

ClearLinked(c) ==
  /\ req[c].pc = "clear"
  /\ \/ Send(Command("clear", req[c].l[1], req[c].l[2], NoDev, "cpu")) /\ Same
     \/ Lost /\ UNCHANGED queue
  /\ Goto(c, req[c].then)
  /\ UNCHANGED <<db, prom, alive, node, firing, hook>>

(* cleanupRuleMetricsOnNodes: the nodes of the VMs still linked. *)
CleanupRuleMetrics(c) ==
  /\ req[c].pc = "restore" /\ req[c].todo = {}
  /\ LET g == req[c].g  there == {l \in LinksOf(g) : l[2] \in alive}
     IN  /\ IF there = {} THEN UNCHANGED queue
            ELSE Send(Command("clean", g, (CHOOSE l \in there : TRUE)[2], NoDev, "any"))
         /\ Goto(c, [pc |-> "rows", g |-> g])
  /\ Same /\ UNCHANGED <<db, prom, alive, node, firing, hook>>

(* DeleteAdjustRuleGroupWithDependencies: one transaction. *)
DeleteRows(c) ==
  /\ req[c].pc = "rows"
  /\ \/ /\ rows' = [rows EXCEPT ![req[c].g] = Gone]
        /\ link' = link \ LinksOf(req[c].g)
        /\ Goto(c, ToReload(FALSE)) /\ Same
     \/ Fails /\ Done(c) /\ UNCHANGED <<rows, link>>
  /\ UNCHANGED <<prom, alive, node, queue, firing, hook>>

(* Mutant: the links go, the entries of matched_vms.json stay. *)
CleanupLinksOnly(c, v) ==
  /\ Free(c) /\ Ask("remove") /\ v \in alive
  /\ link' = {l \in link : l[2] # v}
  /\ Goto(c, [pc |-> "undefine", v |-> v, strict |-> FALSE])
  /\ UNCHANGED <<rows, prom, alive, node, queue, firing, hook>>

(* CleanupInstanceRuleLinks, called by InstanceAdmin.Delete before it sends *)
(* clear_vm.sh and deletes the instance row.                               *)
CleanupInstanceRuleLinks(c, v) ==
  /\ Free(c) /\ Ask("remove") /\ v \in alive
  /\ LET mine == {l \in link : l[2] = v}
     IN  /\ link' = link \ mine
         /\ Goto(c, Publish({Call(g, {v}, {l[3] : l \in {m \in mine : m[1] = g}}) : g \in {l[1] : l \in mine}},
                            {}, [pc |-> "undefine", v |-> v, strict |-> FALSE]))
  /\ UNCHANGED <<rows, prom, alive, node, queue, firing, hook>>

DeleteInstance(c) ==
  /\ req[c].pc = "undefine"
  /\ alive' = alive \ {req[c].v}
  /\ Send(Command("clear_vm", None, req[c].v, NoDev, "any"))
  /\ Done(c)
  /\ Same /\ UNCHANGED <<db, prom, node, firing, hook>>

-----------------------------------------------------------------------------
(* Prometheus and Alertmanager. *)

(* The conditions of resource-adjust-alerts, cpu-adjust and bw-adjust       *)
(* templates, usage and elapsed time left open.                            *)
Watched(a) ==
  /\ <<a.g, a.v, a.d>> \in matched
  /\ {<<a.g, a.dir>>, <<a.g, "alerts">>} \subseteq loaded

(* The limit rule of a bandwidth group subtracts the status lines with      *)
(* "unless" and no on(...): their labels differ from those of vm-group-     *)
(* metadata, so nothing is subtracted and it also holds for what is limited.*)
Holds(a) ==
  LET m == <<a.g, a.v, a.d, a.dir>>
  IN  /\ Watched(a)
      /\ a.act = "limit" => a.dir # "cpu" \/ m \notin status
      /\ a.act = "restore" => m \in status /\ m \in stamp

(* Alerts are posted half a minute apart, so one finds the commands of the  *)
(* one before done, unless the scenario races: then calls, requests and     *)
(* commands overlap, up to MaxQueue commands and one call beside the new one.*)
Deliver(a) ==
  /\ \/ queue = <<>> /\ hook = {} /\ \A c \in Clients : req[c] = Idle
     \/ plan["race"] > 0 /\ Len(queue) < MaxQueue /\ Cardinality(hook) <= 1
  /\ hook' = hook \cup {[a |-> a, pc |-> "read"]}

FireLimit(a) ==
  /\ a.act = "limit" /\ Holds(a) /\ a \notin firing /\ Ask("alert")
  /\ firing' = firing \cup {a} /\ Deliver(a)
  /\ UNCHANGED <<db, prom, alive, node, queue, req>>

FireRestore(a) ==
  /\ a.act = "restore" /\ Holds(a) /\ a \notin firing
  /\ firing' = firing \cup {a} /\ Deliver(a)
  /\ Same /\ UNCHANGED <<db, prom, alive, node, queue, req>>

(* repeat_interval: an alert that still fires is posted again. *)
Repeat(a) ==
  /\ a \in firing /\ Holds(a) /\ Deliver(a)
  /\ Same /\ UNCHANGED <<db, prom, alive, node, queue, firing, req>>

(* send_resolved: an alert that no longer fires is posted once more.  A     *)
(* limit alert also ends when usage drops.                                 *)
Resolve(a) ==
  /\ a \in firing /\ (a.act = "limit" \/ ~ Holds(a))
  /\ firing' = firing \ {a} /\ Deliver(a)
  /\ Same /\ UNCHANGED <<db, prom, alive, node, queue, req>>

-----------------------------------------------------------------------------
(* processAlertAdjustment.  It never looks at the status of the alert: a    *)
(* resolved alert is acted on like one that fires.                         *)

Advance(h, pc) == hook' = (hook \ {h}) \cup {[h EXCEPT !.pc = pc]}
Finish(h) == hook' = hook \ {h}

(* Mutant: a limit is sent without looking for the details of the rule. *)
HookReadUnchecked(h) ==
  /\ h.pc = "read"
  /\ IF h.a.v \notin alive THEN Finish(h) ELSE Advance(h, "send")
  /\ Same /\ UNCHANGED <<db, prom, alive, node, queue, firing, req>>

(* Mutant: an alert that is known to fire is taken for a duplicate. *)
HookReadOnce(h) ==
  /\ h.pc = "read"
  /\ IF \/ h.a.v \notin alive \/ (h.a.act = "restore" /\ h.a \in firing)
        \/ h.a.act = "limit" /\ ~ (Exists(h.a.g) /\ h.a.dir \in rows[h.a.g].details)
     THEN Finish(h) ELSE Advance(h, "send")
  /\ Same /\ UNCHANGED <<db, prom, alive, node, queue, firing, req>>

(* The instance, and for a limit the details of the rule, are looked up; a  *)
(* bandwidth limit whose direction has no detail only writes its status.   *)
HookRead(h) ==
  /\ h.pc = "read"
  /\ LET det == IF Exists(h.a.g) THEN rows[h.a.g].details ELSE {}
     IN  IF h.a.v \notin alive \/ (h.a.act = "limit" /\ det = {}) THEN Finish(h)
         ELSE Advance(h, IF h.a.act = "limit" /\ h.a.dir \notin det THEN "mark" ELSE "send")
  /\ Same /\ UNCHANGED <<db, prom, alive, node, queue, firing, req>>

HookSend(h) ==
  /\ h.pc = "send"
  /\ \/ /\ Send(Command(h.a.act, h.a.g, h.a.v, h.a.d, IF h.a.act = "limit" THEN h.a.dir ELSE "any"))
        /\ Advance(h, "mark") /\ Same
     \/ Lost /\ Finish(h) /\ UNCHANGED queue
  /\ UNCHANGED <<db, prom, alive, node, firing, req>>

HookMark(h) ==
  /\ h.pc = "mark"
  /\ \/ Send(Command(IF h.a.act = "limit" THEN "mark" ELSE "clear", h.a.g, h.a.v, h.a.d, h.a.dir)) /\ Same
     \/ Lost /\ UNCHANGED queue
  /\ Finish(h)
  /\ UNCHANGED <<db, prom, alive, node, firing, req>>

-----------------------------------------------------------------------------
(* The scripts on the hypervisor. *)

(* Whether the domain is still defined there. *)
Defined(v) == v \in alive \/ \E i \in DOMAIN queue : queue[i].op = "clear_vm" /\ queue[i].v = v

Bandwidth(S) == {m \in S : m[4] # "cpu"}

(* update_vm_cpu_adjustment_status.sh --status 1 replaces both lines;       *)
(* update_vm_bandwidth_adjustment_status.sh adds them.  When the status     *)
(* line is there already it means to replace it, but the pattern it tests   *)
(* the lines with is no regular expression, and all of them are kept.       *)
MarkStatus(m) ==
  IF m[4] # "cpu" /\ m \in status
  THEN UNCHANGED <<status, stamp>>
  ELSE status' = status \cup {m} /\ stamp' = stamp \cup {m}

(* --status 0.  The bandwidth script leaves the timestamp, until no status  *)
(* line is left and it removes the file.                                   *)
ClearStatus(m) ==
  /\ status' = status \ {m}
  /\ stamp' = IF m[4] = "cpu" THEN stamp \ {m}
              ELSE IF m \in status /\ Bandwidth(status) = {m} THEN stamp \ Bandwidth(stamp)
              ELSE stamp

(* cleanup_rule_metrics.sh: the pattern for CPU lines matches none of them. *)
CleanRule(g) ==
  LET mine == {m \in status \cup stamp : m[1] = g /\ m[4] # "cpu"}
  IN  status' = status \ mine /\ stamp' = stamp \ mine

(* adjust_cpu_hotplug.sh and set_nic_speed.sh; restoring an interface sets  *)
(* both directions.                                                        *)
SetLimit(k) ==
  /\ limit' = IF k.op = "limit" /\ Defined(k.v) THEN limit \cup {<<k.v, k.d, k.dir>>}
              ELSE IF k.op = "limit" THEN limit
              ELSE {x \in limit : x[1] # k.v \/ x[2] # k.d}
  /\ UNCHANGED <<status, stamp>>

(* cleanup_vm_custom_metrics.sh, called by clear_vm.sh. *)
CleanVM(v) ==
  /\ limit' = {x \in limit : x[1] # v}
  /\ status' = {m \in status : m[2] # v}
  /\ stamp' = {m \in stamp : m[2] # v}

Execute(k) ==
  \/ k.op \in {"limit", "restore"} /\ SetLimit(k)
  \/ k.op = "mark"     /\ MarkStatus(<<k.g, k.v, k.d, k.dir>>) /\ UNCHANGED limit
  \/ k.op = "clear"    /\ ClearStatus(<<k.g, k.v, k.d, k.dir>>) /\ UNCHANGED limit
  \/ k.op = "clean"    /\ CleanRule(k.g) /\ UNCHANGED limit
  \/ k.op = "clear_vm" /\ CleanVM(k.v)

(* cloudlet runs the commands it receives one after the other. *)
RunCommand ==
  /\ queue # <<>>
  /\ Execute(Head(queue)) /\ queue' = Tail(queue)
  /\ Same /\ UNCHANGED <<db, prom, alive, firing, hook, req>>

(* The thread pool of the server may swap commands on the way. *)
Overtake(i) ==
  /\ Ask("overtake")
  /\ queue' = SwapAt(queue, i)
  /\ UNCHANGED <<db, prom, alive, node, firing, hook, req>>

-----------------------------------------------------------------------------
Init ==
  /\ rows = [g \in Groups |-> None] /\ link = {}
  /\ matched = {} /\ file = {} /\ sym = {} /\ loaded = {}
  /\ alive = VMs /\ limit = {} /\ status = {} /\ stamp = {}
  /\ queue = <<>> /\ firing = {} /\ hook = {}
  /\ req = [c \in Clients |-> Idle]
  /\ plan \in Plans /\ asked = [e \in Events |-> 0]

(* The enabled bandwidth rules of a creation. *)
BWRules == {<<>>, <<"in">>, <<"out">>, <<"in", "out">>}

Step(c) ==
  \/ ReadMatched(c) \/ WriteMatched(c) \/ LastReload(c)
  \/ RenderRule(c) \/ LinkCreated(c) \/ ToggleLinks(c) \/ ToggleRow(c) \/ SyncWrite(c)
  \/ RemoveFiles(c) \/ RestoreLinked(c) \/ ClearLinked(c)
  \/ CleanupRuleMetrics(c) \/ DeleteRows(c) \/ DeleteInstance(c)

Request(c) ==
  \/ \E g \in Groups : \E T \in SUBSET Targets(g) :
       \/ CreateCPUAdjustRule(c, g, T)
       \/ \E seq \in BWRules : CreateBWAdjustRule(c, g, seq, T)
       \/ PatchCPUAdjustRule(c, g, T)
       \/ \E dir \in {"in", "out"} : PatchBWAdjustRule(c, g, dir, T)
       \/ T # {} /\ LinkRuleToVM(c, g, T)
  \/ \E g \in Groups : \E T \in SUBSET Targets(g) \cup SUBSET {<<t[1], NoDev>> : t \in Targets(g)} :
       T # {} /\ UnlinkRuleFromVM(c, g, T)
  \/ \E g \in Groups : ToggleRule(c, g) \/ DeleteCPUAdjustRule(c, g) \/ DeleteBWAdjustRule(c, g)
  \/ SyncRead(c)
  \/ \E v \in VMs : CleanupInstanceRuleLinks(c, v)

Next ==
  \/ \E c \in Clients : Step(c) \/ Request(c)
  \/ \E a \in Alerts : FireLimit(a) \/ FireRestore(a) \/ Repeat(a) \/ Resolve(a)
  \/ \E h \in hook : HookRead(h) \/ HookSend(h) \/ HookMark(h)
  \/ RunCommand
  \/ \E i \in 1 .. Len(queue) - 1 : Overtake(i)

(* Handlers and webhook calls run to their end, cloudlet drains its queue,  *)
(* and Alertmanager delivers every alert that starts or keeps firing; only  *)
(* the CPU restore alerts are needed.                                      *)
CpuRestores == {a \in Alerts : a.act = "restore" /\ a.dir = "cpu"}

Fairness ==
  /\ \A c \in Clients : WF_vars(Step(c))
  /\ WF_vars(\E h \in hook : HookRead(h) \/ HookSend(h) \/ HookMark(h))
  /\ WF_vars(RunCommand)
  /\ \A a \in CpuRestores : SF_vars(FireRestore(a) \/ Repeat(a))

Spec == Init /\ [][Next]_vars
FairSpec == Spec /\ Fairness

-----------------------------------------------------------------------------
AtRest == queue = <<>> /\ hook = {} /\ \A c \in Clients : req[c] = Idle

TypeOK ==
  /\ \A g \in Groups : Exists(g) => /\ rows[g].type \in DirsOf(g) \cup {None}
                                    /\ rows[g].details \subseteq DirsOf(g)
  /\ link \cup matched \subseteq Groups \X VMs \X (Devs \cup {NoDev})
  /\ loaded \cup file \cup sym \subseteq Groups \X (Dirs \cup {"alerts"})
  /\ limit \subseteq VMs \X (Devs \cup {NoDev}) \X Dirs
  /\ status \cup stamp \subseteq Groups \X VMs \X (Devs \cup {NoDev}) \X Dirs
  /\ firing \subseteq Alerts

(* Webhook calls one at a time and commands in the order sent. *)
Orderly == plan["race"] = 0 /\ asked["overtake"] = 0

(* A limit is accounted for.  Once nothing is in progress, a VM whose CPU   *)
(* or interface is limited has the status and timestamp lines of a rule on  *)
(* its hypervisor, from which that rule can tell that the limit must end;   *)
(* and the rule still exists unless VMs were taken off rules without        *)
(* restoring them (unlink, patch).  So the deletion of a rule restores what *)
(* it leaves behind, although alerts fire, repeat and resolve around it and *)
(* its own steps fail.                                                      *)
LimitRecorded ==
  AtRest /\ Orderly /\ asked["lost"] = 0 =>
    \A x \in limit : x[1] \in alive =>
      \E g \in Groups : /\ <<g, x[1], x[2], x[3]>> \in status \cap stamp
                        /\ plan["unlink"] + plan["patch"] = 0 => Exists(g)

(* matched_vms.json names no target that is not linked: no alert is raised  *)
(* for a VM that was taken off a rule, deleted, or whose rule was deleted.  *)
MatchedHasLink ==
  (\A c \in Clients : req[c] = Idle) /\ asked["fail"] = 0 => matched \subseteq link

(* A CPU limit ends: a VM limited under a rule that keeps watching it is    *)
(* restored, by the restore alert, the webhook and the two commands, even   *)
(* when a call of HyperExecute fails.                                       *)
CpuLimitEnds ==
  \A a \in CpuRestores :
    (<<a.v, NoDev, "cpu">> \in limit /\ Holds(a))
      ~> (<<a.v, NoDev, "cpu">> \notin limit \/ ~ Watched(a) \/ ~ Orderly)
=============================================================================
