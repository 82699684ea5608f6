-------------------------------- MODULE Alarm --------------------------------
(***************************************************************************)
(* Alarm rules: apis/alarms.go with routes/n9ealarm.go, which keep the     *)
(* alarm rules of VMs in Nightingale (N9E), and the node alarm rules and   *)
(* scrape targets of routes/alarm.go, which Prometheus reads from files.   *)
(*                                                                         *)
(* A rule is a row, or for bandwidth one row per direction, in the         *)
(* business group of the region, and an alert rule of the same name in     *)
(* the group of that name in N9E.  Its query joins the usage of a VM with  *)
(* the anchor series of the VM in VictoriaMetrics, whose value is the      *)
(* threshold; the link rows are the database's copy of the anchors.        *)
(* A handler is a sequence of steps, one per database or HTTP call or a    *)
(* few that nothing can come between unnoticed.  Thresholds, owners,       *)
(* severities and the text of the queries are left out.                    *)
(***************************************************************************)
EXTENDS Naturals, Sequences, FiniteSets, Functions

CONSTANTS Rules,     \* rule_id values of requests
          KindOf,    \* "cpu", "memory" or "bandwidth" for each of them
          Legs,      \* the directions a bandwidth request names, in its order
          NameOf(_, _), \* the name requests give the rule of a rule_id and direction
          Guests,
          Nics, NoNic, \* interfaces; the empty interface name
          Sets(_),   \* the sets of <<vm, interface>> that requests name for a rule
          NodeTypes, \* types of node alarm rules
          FilesOf,   \* the rule files of each type, in the order of rendering
          Hosts,     \* hypervisors with a scrape target
          AlarmClients,
          AlarmPlans    \* bound: how often each event may happen, one function per scenario

(* A bandwidth request names one or two rules, each with a direction; every *)
(* type of node alarm has a rule file.                                      *)
ASSUME KindOfAssumption == KindOf \in [Rules -> {"cpu", "memory", "bandwidth"}]
ASSUME LegsAssumption == Legs \in Seq({"in", "out"}) /\ Legs # <<>>
ASSUME FilesOfAssumption == \A y \in NodeTypes : FilesOf[y] \in Seq(STRING) /\ FilesOf[y] # <<>>

VARIABLES
  group,    \* live rows of n9e_business_group, all of the one region name
  rule,     \* live rows of the three rule tables
  vmlink,   \* live rows of n9e_vm_rule_link
  ngroup,   \* N9E: id of the business group of the region's name, or 0
  nalert,   \* N9E: alert rules
  cached,   \* businessGroupCache: id or 0
  anchor,   \* VictoriaMetrics: anchor series with a sample above zero, by age in weeks
  fresh,    \* next id
  nrule,    \* live rows of node_alarm_rules
  nfile,    \* rule files of node alarms linked into RulesEnabled
  target,   \* node_exporters.json and libvirt_exporters.json: <<file, host>>
  call,     \* the request each client is processing
  aplan, count

n9e == <<ngroup, nalert, cached>>
files == <<nrule, nfile, target>>
avars == <<group, rule, vmlink, n9e, anchor, fresh, files, call, aplan, count>>

AlarmEvents == {"create", "delete", "link", "unlink", "sync", "recover", "week", "disaster",
                "nometa", "node", "unnode", "target", "dbfail", "n9efail", "vmfail", "filefail"}

Draw(e) == count[e] < aplan[e] /\ count' = [count EXCEPT ![e] = @ + 1] /\ UNCHANGED aplan
NoDraw == UNCHANGED <<aplan, count>>
FreeClient(c) == call[c].pc = "idle"
Continue(c, r) == call' = [call EXCEPT ![c] = r]
Return(c) == Continue(c, [pc |-> "idle"])

RowsOf(r) == {x \in rule : x.r = r}
VMLinksOf(r) == {l \in vmlink : l.r = r}

(* First(): the row with the lowest primary key. *)
FirstRow(S) == CHOOSE x \in S : \A y \in S : x.pk <= y.pk
FirstGroup == CHOOSE g \in group : \A h \in group : g <= h

(* What the cache, or else N9E, answers for the region's name; 0 if none.   *)
GetBusinessGroupByName == IF cached # 0 THEN cached ELSE ngroup
-----------------------------------------------------------------------------
(* Creation of a rule. *)

(* The rule_id must be free among the rules of its kind. *)
CreateN9ERule(c, r, dirs, V) ==
  /\ FreeClient(c) /\ Draw("create") /\ RowsOf(r) = {}
  /\ Continue(c, [pc |-> "group", r |-> r, todo |-> dirs, V |-> V])
  /\ UNCHANGED <<group, rule, vmlink, n9e, anchor, fresh, files>>

CreateCPURule(c, r, V) == KindOf[r] = "cpu" /\ CreateN9ERule(c, r, <<"cpu">>, V)
CreateMemoryRule(c, r, V) == KindOf[r] = "memory" /\ CreateN9ERule(c, r, <<"memory">>, V)
CreateBWRule(c, r, V) == KindOf[r] = "bandwidth" /\ CreateN9ERule(c, r, Legs, V)

(* The group row of the region. *)
FindGroup(c) ==
  /\ call[c].pc = "group"
  /\ Continue(c, IF group = {} THEN [call[c] EXCEPT !.pc = "newgroup"]
             ELSE [pc |-> "insert", r |-> call[c].r, todo |-> call[c].todo, V |-> call[c].V, g |-> FirstGroup])
  /\ NoDraw /\ UNCHANGED <<group, rule, vmlink, n9e, anchor, fresh, files>>

CreateGroup(c) ==
  /\ call[c].pc = "newgroup"
  /\ \/ /\ group' = group \cup {fresh} /\ fresh' = fresh + 1 /\ NoDraw
        /\ Continue(c, [pc |-> "insert", r |-> call[c].r, todo |-> call[c].todo, V |-> call[c].V, g |-> fresh])
     \/ Draw("dbfail") /\ Return(c) /\ UNCHANGED <<group, fresh>>
  /\ UNCHANGED <<rule, vmlink, n9e, anchor, files>>

(* A row for the direction.  An error returns; what was created stays. *)
InsertRule(c) ==
  /\ call[c].pc = "insert"
  /\ LET k == call[c]
     IN  \/ /\ rule' = rule \cup {[pk |-> fresh, r |-> k.r, dir |-> Head(k.todo), g |-> k.g, alert |-> 0]}
            /\ fresh' = fresh + 1 /\ NoDraw
            /\ Continue(c, [k EXCEPT !.pc = "n9e"])
         \/ Draw("dbfail") /\ Return(c) /\ UNCHANGED <<rule, fresh>>
  /\ UNCHANGED <<group, vmlink, n9e, anchor, files>>

(* Errors of N9E are only logged; bandwidth then skips the link rows of the *)
(* direction (continue).                                                   *)
AfterAlert(k) ==
  IF KindOf[k.r] # "bandwidth" THEN [k EXCEPT !.pc = "links"]
  ELSE IF Len(k.todo) = 1 THEN [pc |-> "idle"]
  ELSE [k EXCEPT !.pc = "insert", !.todo = Tail(@)]

ToAlert(k, n) == [pc |-> "alert", r |-> k.r, todo |-> k.todo, V |-> k.V, g |-> k.g, n |-> n]
ToLinks(k) == [pc |-> "links", r |-> k.r, todo |-> k.todo, V |-> k.V, g |-> k.g]

(* GetOrCreateBusinessGroup. *)
GetOrCreateBusinessGroup(c) ==
  /\ call[c].pc = "n9e"
  /\ \/ /\ GetBusinessGroupByName # 0
        /\ cached' = GetBusinessGroupByName
        /\ Continue(c, ToAlert(call[c], GetBusinessGroupByName)) /\ NoDraw /\ UNCHANGED <<ngroup, fresh>>
     \/ /\ GetBusinessGroupByName = 0
        /\ ngroup' = fresh /\ cached' = fresh /\ fresh' = fresh + 1
        /\ Continue(c, ToAlert(call[c], fresh)) /\ NoDraw
     \/ /\ Draw("n9efail") /\ cached = 0
        /\ Continue(c, AfterAlert(call[c])) /\ UNCHANGED <<ngroup, cached, fresh>>
  /\ UNCHANGED <<group, rule, vmlink, nalert, anchor, files>>

(* CreateAlertRule: an alert rule of this name in the group is taken as it  *)
(* is.  The creation may fail, and so may the look-up of the new id.        *)
CreateAlertRule(c) ==
  /\ call[c].pc = "alert"
  /\ LET k == call[c]
         name == NameOf(k.r, Head(k.todo))
         same == {a \in nalert : a.n = k.n /\ a.name = name}
         new == [id |-> fresh, n |-> k.n, name |-> name, r |-> k.r, dir |-> Head(k.todo)]
         store(id) == [pc |-> "store", r |-> k.r, todo |-> k.todo, V |-> k.V, g |-> k.g, id |-> id]
     IN  \/ /\ same # {} /\ NoDraw
            /\ Continue(c, store((CHOOSE a \in same : TRUE).id)) /\ UNCHANGED <<nalert, fresh>>
         \/ /\ same = {} /\ k.n = ngroup
            /\ nalert' = nalert \cup {new} /\ fresh' = fresh + 1
            /\ \/ Continue(c, store(fresh)) /\ NoDraw
               \/ Draw("n9efail") /\ Continue(c, ToLinks(k))
         \/ /\ IF k.n # ngroup /\ same = {} THEN NoDraw ELSE Draw("n9efail")
            /\ Continue(c, ToLinks(k)) /\ UNCHANGED <<nalert, fresh>>
  /\ UNCHANGED <<group, rule, vmlink, ngroup, cached, anchor, files>>

(* Mutant: only the table of the CPU rules is updated. *)
StoreAlertIDOfCPU(c) ==
  /\ call[c].pc = "store"
  /\ LET k == call[c]
     IN  rule' = IF KindOf[k.r] = "cpu"
                 THEN (rule \ RowsOf(k.r)) \cup {[x EXCEPT !.alert = k.id] : x \in RowsOf(k.r)} ELSE rule
  /\ Continue(c, ToLinks(call[c]))
  /\ NoDraw /\ UNCHANGED <<group, vmlink, n9e, anchor, fresh, files>>

(* Update*RuleN9EID: every row of the rule_id. *)
StoreAlertID(c) ==
  /\ call[c].pc = "store"
  /\ LET k == call[c]
     IN  \/ rule' = (rule \ RowsOf(k.r)) \cup {[x EXCEPT !.alert = k.id] : x \in RowsOf(k.r)} /\ NoDraw
         \/ Draw("dbfail") /\ UNCHANGED rule
  /\ Continue(c, ToLinks(call[c]))
  /\ UNCHANGED <<group, vmlink, n9e, anchor, fresh, files>>

Link(r, t, on) == [r |-> r, v |-> t[1], d |-> t[2], on |-> on]

(* The link rows of the request, without a threshold; then the next        *)
(* direction.                                                              *)
LinkNewRule(c) ==
  /\ call[c].pc = "links"
  /\ LET k == call[c]
     IN  /\ vmlink' = vmlink \cup {Link(k.r, t, FALSE) : t \in k.V}
         /\ Continue(c, IF Len(k.todo) = 1 THEN [pc |-> "idle"]
                    ELSE [k EXCEPT !.pc = "insert", !.todo = Tail(@)])
  /\ NoDraw /\ UNCHANGED <<group, rule, n9e, anchor, fresh, files>>
-----------------------------------------------------------------------------
(* Deletion of a rule. *)

(* The row, its group row if there still is one, and its links. *)
DeleteN9ERule(c, r) ==
  /\ FreeClient(c) /\ Draw("delete") /\ RowsOf(r) # {}
  /\ LET x == FirstRow(RowsOf(r))
     IN  Continue(c, [pc |-> "clear", r |-> r, row |-> x, g |-> IF x.g \in group THEN x.g ELSE 0])
  /\ UNCHANGED <<group, rule, vmlink, n9e, anchor, fresh, files>>

DeleteCPURule(c, r) == KindOf[r] = "cpu" /\ DeleteN9ERule(c, r)
DeleteMemoryRule(c, r) == KindOf[r] = "memory" /\ DeleteN9ERule(c, r)
DeleteBWRules(c, r) == KindOf[r] = "bandwidth" /\ DeleteN9ERule(c, r)

(* A series is identified by its labels; the age is that of its last sample. *)
Series(dir, r, v, d, labels) ==
  [dir |-> dir, r |-> r, v |-> v, d |-> IF dir \in {"in", "out"} THEN d ELSE NoNic, labels |-> labels]
IsSeries(a, s) == s = [dir |-> a.dir, r |-> a.r, v |-> a.v, d |-> a.d, labels |-> a.labels]
Write(S) ==
  {a \in anchor : ~ \E s \in S : IsSeries(a, s)}
    \cup {[dir |-> s.dir, r |-> s.r, v |-> s.v, d |-> s.d, labels |-> s.labels, age |-> 0] : s \in S}

(* ClearAnchorThresholds: a zero for the series without region, domain,     *)
(* interface and tenant, which is never the one that was written.          *)
ClearAnchorThresholds(c) ==
  /\ call[c].pc = "clear"
  /\ LET k == call[c]
         cleared == {Series(k.row.dir, k.r, l.v, NoNic, "none") : l \in VMLinksOf(k.r)}
     IN  /\ \/ anchor' = {a \in anchor : ~ \E s \in cleared : IsSeries(a, s)} /\ NoDraw
            \/ Draw("vmfail") /\ UNCHANGED anchor
         /\ Continue(c, [pc |-> "unlinkall", r |-> k.r, row |-> k.row, g |-> k.g, seen |-> VMLinksOf(k.r)])
  /\ UNCHANGED <<group, rule, vmlink, n9e, fresh, files>>

(* DeleteVMRuleLink of each link that was read: by VM, and by interface if  *)
(* the link names one.                                                     *)
DeleteLinks(c) ==
  /\ call[c].pc = "unlinkall"
  /\ LET k == call[c]
     IN  /\ vmlink' = {l \in vmlink : ~ \E s \in k.seen : l.r = k.r /\ l.v = s.v /\ s.d \in {NoNic, l.d}}
         /\ Continue(c, [pc |-> "unalert", r |-> k.r, row |-> k.row, g |-> k.g])
  /\ NoDraw /\ UNCHANGED <<group, rule, n9e, anchor, fresh, files>>

(* DeleteAlertRule, for a row with an id and a group row; errors are logged. *)
DeleteAlertRule(c) ==
  /\ call[c].pc = "unalert"
  /\ LET k == call[c]
     IN  /\ IF k.row.alert = 0 \/ k.g = 0 THEN NoDraw /\ UNCHANGED <<nalert, cached>>
            ELSE \/ /\ cached' = GetBusinessGroupByName /\ NoDraw
                    /\ nalert' = {a \in nalert : a.id # k.row.alert \/ a.n # GetBusinessGroupByName}
                 \/ Draw("n9efail") /\ UNCHANGED <<nalert, cached>>
         /\ Continue(c, [k EXCEPT !.pc = "unrow"])
  /\ UNCHANGED <<group, rule, vmlink, ngroup, anchor, fresh, files>>

(* Delete*Rule: every row of the rule_id; an error returns. *)
DeleteRow(c) ==
  /\ call[c].pc = "unrow"
  /\ \/ rule' = rule \ RowsOf(call[c].r) /\ NoDraw /\ Continue(c, [call[c] EXCEPT !.pc = "count"])
     \/ Draw("dbfail") /\ Return(c) /\ UNCHANGED rule
  /\ UNCHANGED <<group, vmlink, n9e, anchor, fresh, files>>

(* Mutant: only the rules of the same kind are counted. *)
CountRulesOfKind(c) ==
  /\ call[c].pc = "count"
  /\ IF call[c].g # 0 /\ \A x \in rule : x.g # call[c].g \/ KindOf[x.r] # KindOf[call[c].r]
     THEN Continue(c, [call[c] EXCEPT !.pc = "ungroup"]) ELSE Return(c)
  /\ NoDraw /\ UNCHANGED <<group, rule, vmlink, n9e, anchor, fresh, files>>

(* CountRulesByBusinessGroupUUID: the last rule takes the group along. *)
CountRules(c) ==
  /\ call[c].pc = "count"
  /\ IF call[c].g # 0 /\ \A x \in rule : x.g # call[c].g
     THEN Continue(c, [call[c] EXCEPT !.pc = "ungroup"]) ELSE Return(c)
  /\ NoDraw /\ UNCHANGED <<group, rule, vmlink, n9e, anchor, fresh, files>>

DeleteGroup(c) ==
  /\ call[c].pc = "ungroup"
  /\ \/ group' = group \ {call[c].g} /\ NoDraw
     \/ Draw("dbfail") /\ UNCHANGED group
  /\ Continue(c, [call[c] EXCEPT !.pc = "unngroup"])
  /\ UNCHANGED <<rule, vmlink, n9e, anchor, fresh, files>>

(* DeleteBusinessGroupByID, which drops the cache entry.  N9E may refuse to *)
(* delete a group with alert rules, or delete them with it.                *)
DeleteBusinessGroupByID(c) ==
  /\ call[c].pc = "unngroup"
  /\ \/ /\ GetBusinessGroupByName = ngroup /\ ngroup # 0 /\ NoDraw
        /\ ngroup' = 0 /\ cached' = 0 /\ nalert' = {a \in nalert : a.n # ngroup}
     \/ /\ IF GetBusinessGroupByName # ngroup \/ ngroup = 0 \/ \E a \in nalert : a.n = ngroup
           THEN NoDraw ELSE Draw("n9efail")
        /\ UNCHANGED n9e
  /\ Return(c)
  /\ UNCHANGED <<group, rule, vmlink, anchor, fresh, files>>
-----------------------------------------------------------------------------
(* Links and anchors. *)

(* GetInstanceMetadata, or the domain from the database and no region. *)
Metadata == {"full"} \cup IF aplan["nometa"] > 0 THEN {"domain"} ELSE {}

(* LinkVMsToRule: the rule decides the type of the anchors; a bandwidth    *)
(* rule_id has that of its first row.                                      *)
LinkVMsToRule(c, r, T) ==
  /\ FreeClient(c) /\ Draw("link") /\ RowsOf(r) # {}
  /\ KindOf[r] = "bandwidth" => \A t \in T : t[2] # NoNic
  /\ \E m \in [T -> Metadata] :
       Continue(c, [pc |-> "anchor", r |-> r, T |-> T,
                S |-> {Series(FirstRow(RowsOf(r)).dir, r, t[1], t[2], m[t]) : t \in T}])
  /\ UNCHANGED <<group, rule, vmlink, n9e, anchor, fresh, files>>

(* Mutant: an error is only logged. *)
WriteAnchorsLogged(c) ==
  /\ call[c].pc = "anchor"
  /\ \/ anchor' = Write(call[c].S) /\ NoDraw
     \/ Draw("vmfail") /\ UNCHANGED anchor
  /\ Continue(c, [pc |-> "linkrows", r |-> call[c].r, T |-> call[c].T])
  /\ UNCHANGED <<group, rule, vmlink, n9e, fresh, files>>

(* WriteAnchorThresholdBatch: one import for all; an error returns. *)
WriteAnchors(c) ==
  /\ call[c].pc = "anchor"
  /\ \/ /\ anchor' = Write(call[c].S) /\ NoDraw
        /\ Continue(c, [pc |-> "linkrows", r |-> call[c].r, T |-> call[c].T])
     \/ Draw("vmfail") /\ Return(c) /\ UNCHANGED anchor
  /\ UNCHANGED <<group, rule, vmlink, n9e, fresh, files>>

(* The link rows with their threshold; an error is logged. *)
CreateLinks(c) ==
  /\ call[c].pc = "linkrows"
  /\ LET new == {Link(call[c].r, t, TRUE) : t \in call[c].T}
     IN  \/ vmlink' = vmlink \cup new /\ NoDraw
         \/ Draw("dbfail") /\ \E S \in SUBSET new : vmlink' = vmlink \cup S
  /\ Return(c)
  /\ UNCHANGED <<group, rule, n9e, anchor, fresh, files>>

(* UnlinkVMsFromRule. *)
UnlinkVMsFromRule(c, r, T) ==
  /\ FreeClient(c) /\ Draw("unlink")
  /\ KindOf[r] = "bandwidth" => RowsOf(r) # {} /\ \A t \in T : t[2] # NoNic
  /\ Continue(c, [pc |-> "unseries", r |-> r, T |-> T,
              dir |-> IF KindOf[r] = "bandwidth" THEN FirstRow(RowsOf(r)).dir ELSE KindOf[r]])
  /\ UNCHANGED <<group, rule, vmlink, n9e, anchor, fresh, files>>

(* The series of each VM, and for bandwidth of each interface, are deleted; *)
(* an error is logged.                                                     *)
DeleteAnchorSeries(c) ==
  /\ call[c].pc = "unseries"
  /\ LET k == call[c]
         gone(t) == {a \in anchor : a.dir = k.dir /\ a.r = k.r /\ a.v = t[1] /\ t[2] \in {NoNic, a.d}}
     IN  /\ \/ anchor' = anchor \ UNION {gone(t) : t \in k.T} /\ NoDraw
            \/ Draw("vmfail") /\ \E S \in SUBSET k.T : anchor' = anchor \ UNION {gone(t) : t \in S}
         /\ Continue(c, [pc |-> "unlinkrows", r |-> k.r, V |-> {t[1] : t \in k.T}])
  /\ UNCHANGED <<group, rule, vmlink, n9e, fresh, files>>

(* ... then the link rows of the VMs, whatever their interface. *)
UnlinkRows(c) ==
  /\ call[c].pc = "unlinkrows"
  /\ vmlink' = {l \in vmlink : l.r # call[c].r \/ l.v \notin call[c].V}
  /\ Return(c)
  /\ NoDraw /\ UNCHANGED <<group, rule, n9e, anchor, fresh, files>>

(* SyncAnchorThresholds: the series whose last sample is older than a week  *)
(* get a new one.                                                          *)
QueryStaleAnchors(c) ==
  /\ FreeClient(c) /\ Draw("sync")
  /\ Continue(c, [pc |-> "sync", S |-> {a \in anchor : a.age = 1}])
  /\ UNCHANGED <<group, rule, vmlink, n9e, anchor, fresh, files>>

SyncStaleAnchorsBatch(c) ==
  /\ call[c].pc = "sync"
  /\ LET S == {[dir |-> a.dir, r |-> a.r, v |-> a.v, d |-> a.d, labels |-> a.labels] : a \in call[c].S}
     IN  \/ anchor' = Write(S) /\ NoDraw
         \/ Draw("vmfail") /\ UNCHANGED anchor
  /\ Return(c)
  /\ UNCHANGED <<group, rule, vmlink, n9e, fresh, files>>

(* Mutant: the links of memory rules are forgotten. *)
RecoverReadNoMemory(c) ==
  /\ FreeClient(c) /\ Draw("recover")
  /\ LET L == {l \in vmlink : l.on /\ KindOf[l.r] # "memory" /\ (KindOf[l.r] = "bandwidth" => RowsOf(l.r) # {})}
         dir(l) == IF KindOf[l.r] = "bandwidth" THEN FirstRow(RowsOf(l.r)).dir ELSE KindOf[l.r]
     IN  Continue(c, [pc |-> "recover", S |-> {Series(dir(l), l.r, l.v, l.d, "full") : l \in L}])
  /\ UNCHANGED <<group, rule, vmlink, n9e, anchor, fresh, files>>

(* RecoverAnchorThresholds: the anchors of the links that have a threshold. *)
RecoverRead(c) ==
  /\ FreeClient(c) /\ Draw("recover")
  /\ LET L == {l \in vmlink : l.on /\ (KindOf[l.r] = "bandwidth" => RowsOf(l.r) # {})}
         dir(l) == IF KindOf[l.r] = "bandwidth" THEN FirstRow(RowsOf(l.r)).dir ELSE KindOf[l.r]
     IN  \E m \in [L -> Metadata] :
           Continue(c, [pc |-> "recover", S |-> {Series(dir(l), l.r, l.v, l.d, m[l]) : l \in L}])
  /\ UNCHANGED <<group, rule, vmlink, n9e, anchor, fresh, files>>

(* One import per type; the others go on when one fails. *)
RecoverWrite(c) ==
  /\ call[c].pc = "recover"
  /\ LET ofType(D) == {s \in call[c].S : s.dir \in D}
     IN  \/ anchor' = Write(call[c].S) /\ NoDraw
         \/ Draw("vmfail") /\ \E D \in SUBSET {"cpu", "memory", "in", "out"} : anchor' = Write(ofType(D))
  /\ Return(c)
  /\ UNCHANGED <<group, rule, vmlink, n9e, fresh, files>>

(* A week passes: last_over_time finds no sample older than two. *)
Week ==
  /\ Draw("week") /\ \A c \in AlarmClients : FreeClient(c)
  /\ anchor' = {[a EXCEPT !.age = @ + 1] : a \in {b \in anchor : b.age = 0}}
  /\ UNCHANGED <<group, rule, vmlink, n9e, fresh, files, call>>

(* VictoriaMetrics loses its data. *)
Disaster ==
  /\ Draw("disaster")
  /\ anchor' = {}
  /\ UNCHANGED <<group, rule, vmlink, n9e, fresh, files, call>>
-----------------------------------------------------------------------------
(* Node alarm rules and scrape targets. *)

(* createNodeAlarmRuleInternal: one rule per type. *)
CreateNodeAlarmRule(c, y) ==
  /\ FreeClient(c) /\ Draw("node") /\ \A x \in nrule : x.type # y
  /\ nrule' = nrule \cup {[pk |-> fresh, type |-> y]} /\ fresh' = fresh + 1
  /\ Continue(c, [pc |-> "render", pk |-> fresh, todo |-> FilesOf[y]])
  /\ UNCHANGED <<group, rule, vmlink, n9e, anchor, nfile, target>>

(* Mutant: an error leaves the row. *)
RenderNodeRuleKept(c) ==
  /\ call[c].pc = "render"
  /\ LET k == call[c]
     IN  \/ /\ nfile' = nfile \cup {Head(k.todo)} /\ NoDraw
            /\ IF Len(k.todo) = 1 THEN Return(c) ELSE Continue(c, [k EXCEPT !.todo = Tail(@)])
         \/ Draw("filefail") /\ Return(c) /\ UNCHANGED nfile
  /\ UNCHANGED <<group, rule, vmlink, n9e, anchor, fresh, nrule, target>>

(* ProcessTemplate: an error takes the row back, not the files before it. *)
RenderNodeRule(c) ==
  /\ call[c].pc = "render"
  /\ LET k == call[c]
     IN  \/ /\ nfile' = nfile \cup {Head(k.todo)} /\ NoDraw /\ UNCHANGED nrule
            /\ IF Len(k.todo) = 1 THEN Return(c) ELSE Continue(c, [k EXCEPT !.todo = Tail(@)])
         \/ /\ Draw("filefail") /\ Return(c)
            /\ nrule' = {x \in nrule : x.pk # k.pk} /\ UNCHANGED nfile
  /\ UNCHANGED <<group, rule, vmlink, n9e, anchor, fresh, target>>

(* deleteNodeAlarmRuleInternal: the row, then its files; an error is logged. *)
DeleteNodeAlarmRule(c, x) ==
  /\ FreeClient(c) /\ Draw("unnode") /\ x \in nrule
  /\ nrule' = nrule \ {x}
  /\ Continue(c, [pc |-> "unrender", F |-> Range(FilesOf[x.type])])
  /\ UNCHANGED <<group, rule, vmlink, n9e, anchor, fresh, nfile, target>>

RemoveNodeFiles(c) ==
  /\ call[c].pc = "unrender"
  /\ \/ nfile' = nfile \ call[c].F /\ NoDraw
     \/ Draw("filefail") /\ \E S \in SUBSET call[c].F : nfile' = nfile \ S
  /\ Return(c)
  /\ UNCHANGED <<group, rule, vmlink, n9e, anchor, fresh, nrule, target>>

TargetFiles == <<"node", "libvirt">>

(* EnableComputeMonitor, DisableComputeMonitor: UpdateComputeTargetsJSON    *)
(* reads and writes one list, then the other.                              *)
UpdateComputeMonitor(c, h, on) ==
  /\ FreeClient(c) /\ Draw("target")
  /\ Continue(c, [pc |-> "target", h |-> h, on |-> on, todo |-> TargetFiles])
  /\ UNCHANGED <<group, rule, vmlink, n9e, anchor, fresh, files>>

UpdateComputeTargets(c) ==
  /\ call[c].pc = "target"
  /\ LET k == call[c]  entry == <<Head(k.todo), k.h>>
     IN  \/ /\ target' = IF k.on THEN target \cup {entry} ELSE target \ {entry}
            /\ IF Len(k.todo) = 1 THEN Return(c) ELSE Continue(c, [k EXCEPT !.todo = Tail(@)])
            /\ NoDraw
         \/ Draw("filefail") /\ Return(c) /\ UNCHANGED target
  /\ UNCHANGED <<group, rule, vmlink, n9e, anchor, fresh, nrule, nfile>>
-----------------------------------------------------------------------------
AlarmInit ==
  /\ group = {} /\ rule = {} /\ vmlink = {}
  /\ ngroup = 0 /\ nalert = {} /\ cached = 0 /\ anchor = {} /\ fresh = 1
  /\ nrule = {} /\ nfile = {} /\ target = {}
  /\ call = [c \in AlarmClients |-> [pc |-> "idle"]]
  /\ aplan \in AlarmPlans /\ count = [e \in AlarmEvents |-> 0]

Handler(c) ==
  \/ \E r \in Rules : \E T \in Sets(r) \cup {{}} :
       CreateCPURule(c, r, T) \/ CreateMemoryRule(c, r, T) \/ CreateBWRule(c, r, T)
  \/ \E r \in Rules : DeleteCPURule(c, r) \/ DeleteMemoryRule(c, r) \/ DeleteBWRules(c, r)
  \/ \E r \in Rules : \E T \in Sets(r) : LinkVMsToRule(c, r, T) \/ UnlinkVMsFromRule(c, r, T)
  \/ QueryStaleAnchors(c) \/ RecoverRead(c)
  \/ \E y \in NodeTypes : CreateNodeAlarmRule(c, y)
  \/ \E x \in nrule : DeleteNodeAlarmRule(c, x)
  \/ \E h \in Hosts, on \in BOOLEAN : UpdateComputeMonitor(c, h, on)

HandlerStep(c) ==
  \/ FindGroup(c) \/ CreateGroup(c) \/ InsertRule(c) \/ GetOrCreateBusinessGroup(c)
  \/ CreateAlertRule(c) \/ StoreAlertID(c) \/ LinkNewRule(c)
  \/ ClearAnchorThresholds(c) \/ DeleteLinks(c) \/ DeleteAlertRule(c) \/ DeleteRow(c)
  \/ CountRules(c) \/ DeleteGroup(c) \/ DeleteBusinessGroupByID(c)
  \/ WriteAnchors(c) \/ CreateLinks(c) \/ DeleteAnchorSeries(c) \/ UnlinkRows(c)
  \/ SyncStaleAnchorsBatch(c) \/ RecoverWrite(c)
  \/ RenderNodeRule(c) \/ RemoveNodeFiles(c) \/ UpdateComputeTargets(c)

AlarmNext == Week \/ Disaster \/ \E c \in AlarmClients : Handler(c) \/ HandlerStep(c)

AlarmSpec == AlarmInit /\ [][AlarmNext]_avars
-----------------------------------------------------------------------------
AlarmAtRest == \A c \in AlarmClients : FreeClient(c)
Serial == \E c \in AlarmClients : AlarmClients = {c}
NeverAsked(E) == \A e \in E : count[e] = 0

(* With requests one after the other, a rule row always names a group row  *)
(* that lives, whatever database call of a creation or deletion failed:    *)
(* the deletion of the last rule counts after it has deleted, and takes    *)
(* the group only if nothing is left in it.                                *)
RuleHasGroup == Serial => \A x \in rule : x.g \in group

(* A rule row that stores the id of an alert rule names one that exists in *)
(* N9E and queries that rule_id, at rest and unless a call to N9E failed;   *)
(* and no alert rule outlives the rows of a CPU or memory rule.            *)
AlertsServeRules ==
  AlarmAtRest /\ Serial /\ NeverAsked({"n9efail", "dbfail"}) =>
    /\ \A x \in rule : \E a \in nalert : a.id = x.alert /\ a.r = x.r
    /\ \A a \in nalert : KindOf[a.r] # "bandwidth" => \E x \in rule : x.alert = a.id

(* A link row with a threshold has its anchor, or anchors were lost: by    *)
(* VictoriaMetrics, or by two weeks without a sample.                      *)
Anchored(l) == \E a \in anchor : a.r = l.r /\ a.v = l.v /\ (KindOf[l.r] = "bandwidth" => a.d = l.d)
LinkHasAnchor ==
  AlarmAtRest /\ Serial /\ NeverAsked({"disaster", "week"}) => \A l \in vmlink : l.on => Anchored(l)

(* RecoverAnchorThresholds rebuilds from the rows every anchor that was    *)
(* lost, unless an import fails.                                           *)
RecoverRestores ==
  [][\A c \in AlarmClients :
       (Serial /\ call[c].pc = "recover" /\ call'[c].pc = "idle" /\ count' = count)
         => \A l \in vmlink : (l.on /\ RowsOf(l.r) # {}) => Anchored(l)']_avars

(* A node alarm rule has all its files in RulesEnabled once its creation   *)
(* has returned, whatever rendering or removal of a file failed before.    *)
NodeRuleHasFiles == AlarmAtRest /\ Serial => \A x \in nrule : Range(FilesOf[x.type]) \subseteq nfile
=============================================================================
