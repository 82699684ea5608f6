---------------------------- MODULE LoadBalancer ----------------------------
(***************************************************************************)
(* Load balancers: routes/loadbalancer.go, routes/listener.go,             *)
(* routes/backend.go and the parts of routes/floatingip.go that concern    *)
(* them, their handlers in apis/, the callbacks set_vrrp_ip and            *)
(* recover_loadbalancer, and the scripts on the hypervisors.               *)
(*                                                                         *)
(* A load balancer has a VRRP interface in each of two roles, on two       *)
(* hypervisors which the scheduler picks; there keepalived carries its     *)
(* floating addresses and haproxy spreads connections to its backends.     *)
(* A handler first loads the load balancer with its listeners, backends    *)
(* and floating addresses, then changes rows in a transaction and writes   *)
(* configurations, of the state it has loaded and of rows, to the          *)
(* hypervisors.  All load balancers belong to one router.  Addresses,      *)
(* ports and certificates are those of the row they stand in; traffic      *)
(* limits and the forwarding entries of the VRRP network are left out.     *)
(***************************************************************************)
EXTENDS Naturals, Sequences, FiniteSets, SequencesExt

CONSTANTS
  LBs, Listeners, Backends, Fips,   \* identifiers, each used once
  LbOf, ListenerOf,                 \* of a listener, of a backend
  SSL,                              \* backends that are spoken to with TLS
  Hypers, NoHyper,
  Zones,                            \* sets of hypervisors a zone may have
  NoLB,                             \* no load balancer
  LbClients,                        \* API handlers that may run at the same time
  LbPlans                           \* bound: how often each event may happen, per scenario

VARIABLES
  lb,        \* load_balancer and its VRRP interfaces: status and hyper of each role
  listener,  \* listener rows
  backend,   \* backend rows
  used,      \* identifiers of listeners and backends that were given
  fip,       \* floating_ip rows: their load balancer, NoLB, or "none" and "gone"
  zone,      \* the hypervisors of the zone
  load,      \* requests being processed, with what they have loaded
  cmds,      \* commands on their way to each hypervisor
  answers,   \* callbacks on their way
  vrrp,      \* addresses of VRRP interfaces: <<hypervisor, load balancer, role>>
  keepalived, haproxy,  \* what each process runs with
  conffile,  \* keepalived.conf exists: <<hypervisor, load balancer>>
  routed,    \* rules of floating addresses: <<hypervisor, floating address>>
  synced,    \* hypervisors with the file need_to_sync_lb
  unlike,    \* load balancers changed too early, or in part (history)
  rebuilt,   \* hypervisors recovered (history)
  broken,    \* what a reboot took and no recovery restored: <<hypervisor, load balancer>> (history)
  lplan, lcount

lbrows == <<lb, listener, backend, fip>>
lbnodes == <<vrrp, keepalived, haproxy, conffile, routed>>
lbhist == <<unlike, rebuilt, broken>>
lbvars == <<lbrows, used, zone, load, cmds, answers, lbnodes, synced, lbhist, lplan, lcount>>

LbEvents == {"lb", "unlb", "listener", "unlistener", "backend", "unbackend", "fip", "unfip", "patch",
             "refuse", "reboot", "report", "race", "overtake"}
Roles == {"MASTER", "BACKUP"}
NoConf == [off |-> TRUE]

Allow(e) == lcount[e] < lplan[e] /\ lcount' = [lcount EXCEPT ![e] = @ + 1] /\ UNCHANGED lplan
Still == UNCHANGED <<lplan, lcount>>
Never(e) == lcount[e] = 0

Live(l) == lb[l].status \in {"pending", "available"}
FipsOf(l) == {f \in Fips : fip[f] = l}
ListenersOf(l) == {n \in listener : LbOf[n] = l}
BackendsOf(N) == {b \in backend : ListenerOf[b] \in N}

Waiting == [pc |-> "idle"]
Recovering == {a \in answers : a.do = "recovering"}
Ready(c) ==
  /\ load[c] = Waiting
  /\ lplan["race"] > 0 \/ (Recovering = {} /\ c = CHOOSE d \in LbClients : TRUE)

(* GetLoadBalancerByUUID: the row with its floating addresses, listeners    *)
(* and their backends.                                                     *)
GetLoadBalancerByUUID(l) ==
  [status |-> lb[l].status, fips |-> FipsOf(l), listeners |-> ListenersOf(l),
   backends |-> BackendsOf(ListenersOf(l))]
-----------------------------------------------------------------------------
(* Commands.  A message has the hypervisors it goes to and the command.     *)

Placed(l) == {lb[l].hyper[r] : r \in Roles} \ {NoHyper}

(* Mutant: the interfaces are not looked for. *)
AssumeVrrpInterfaces(l) == TRUE

(* GetVrrpInterfaces: the interfaces go with the load balancer. *)
GetVrrpInterfaces(l) == Live(l)

(* GetVrrpHyperGroup: an error if neither interface has its hypervisor yet. *)
GetVrrpHyperGroup(l) == GetVrrpInterfaces(l) /\ Placed(l) # {}

(* CreateVrrpConf: nothing for a load balancer that was not available when  *)
(* it was loaded; the floating addresses of the rows, the ports of the      *)
(* listeners o has.                                                        *)
VrrpConfOK(l, o) == o.status = "available" => GetVrrpInterfaces(l)
CreateVrrpConf(l, o, fips) ==
  IF o.status # "available" THEN <<>>
  ELSE <<[to |-> Placed(l),
          cmd |-> [do |-> "keepalived", lb |-> l, vips |-> fips, ports |-> o.listeners]]>>

Servers(B) == {[backend |-> b, tls |-> b \in SSL] : b \in B}

(* CreateHaproxyConf: the floating addresses and backends o has. *)
CreateHaproxyConf(l, o) ==
  <<[to |-> Placed(l), cmd |-> [do |-> "haproxy", lb |-> l, fips |-> o.fips, servers |-> Servers(o.backends)]]>>

Send(M) ==
  cmds' = [h \in Hypers |-> cmds[h] \o
             [i \in DOMAIN SelectSeq(M, LAMBDA m : h \in m.to) |-> SelectSeq(M, LAMBDA m : h \in m.to)[i].cmd]]

Finish(c) == load' = [load EXCEPT ![c] = Waiting]

(* The transaction of client c commits; its messages have been sent. *)
Commit(c, l, M) ==
  /\ Send(M) /\ Finish(c) /\ Still
  /\ unlike' = IF load[c].obj.status = "available" THEN unlike ELSE unlike \cup {l}

(* HyperExecute fails: the transaction rolls back, what was sent stays. *)
RollBack(c, l, M) ==
  /\ Allow("refuse") /\ Finish(c) /\ UNCHANGED lbrows
  /\ \E i \in 0..Len(M) : Send(SubSeq(M, 1, i))
  /\ unlike' = unlike \cup {l}

(* An error before anything is sent. *)
Fail(c) == Finish(c) /\ Still /\ UNCHANGED <<lbrows, cmds, unlike>>

Elsewhere == UNCHANGED <<zone, answers, lbnodes, synced, rebuilt, broken>>
-----------------------------------------------------------------------------
(* Handlers: what they check and load before the transaction. *)

Handle(c, e, l, x) ==
  /\ Ready(c) /\ Allow(e) /\ Live(l)
  /\ load' = [load EXCEPT ![c] = [pc |-> e, lb |-> l, x |-> x, obj |-> GetLoadBalancerByUUID(l)]]
  /\ UNCHANGED <<lbrows, used, cmds, unlike>> /\ Elsewhere

ListenerAPICreate(c, n) == n \notin used /\ Handle(c, "listener", LbOf[n], n)
ListenerAPIDelete(c, n) == n \in listener /\ Handle(c, "unlistener", LbOf[n], n)
BackendAPICreate(c, b) ==
  b \notin used /\ ListenerOf[b] \in listener /\ Handle(c, "backend", LbOf[ListenerOf[b]], b)
BackendAPIDelete(c, b) ==
  /\ b \in backend /\ ListenerOf[b] \in listener
  /\ Handle(c, "unbackend", LbOf[ListenerOf[b]], b)
LBFloatingIpAPICreate(c, f, l) == fip[f] = "none" /\ Handle(c, "fip", l, f)
LBFloatingIpAPIDelete(c, f, l) == fip[f] = l /\ Handle(c, "unfip", l, f)
LoadBalancerAPIDelete(c, l) == Handle(c, "unlb", l, NoLB)

(* FloatingIpAPI.Patch gives a floating address without user to l. *)
FloatingIpAPIPatch(c, f, l) == fip[f] = NoLB /\ Handle(c, "patch", l, f)

(* LoadBalancerAdmin.Create: both interfaces without hypervisor; the        *)
(* scheduler picks one of the zone for the MASTER.                         *)
CreateVrrpInstance(c, l) ==
  /\ Ready(c) /\ lb[l].status = "none"
  /\ \E h \in zone :
       LET M == <<[to |-> {h}, cmd |-> [do |-> "set_vrrp", lb |-> l, role |-> "MASTER", reply |-> TRUE]]>>
       IN  \/ /\ Allow("lb") /\ lb' = [lb EXCEPT ![l].status = "pending"] /\ Send(M)
           \/ /\ lcount["lb"] < lplan["lb"] /\ Allow("refuse") /\ UNCHANGED <<lb, cmds>>
  /\ UNCHANGED <<listener, backend, fip, used, load, unlike>> /\ Elsewhere
-----------------------------------------------------------------------------
(* The transactions. *)

Serving(c, op) == load[c].pc = op

(* ListenerAdmin.Create. *)
CreateListener(c) ==
  /\ Serving(c, "listener")
  /\ LET k == load[c]
         M == CreateVrrpConf(k.lb, [k.obj EXCEPT !.listeners = @ \cup {k.x}], FipsOf(k.lb))
     IN  IF ~ VrrpConfOK(k.lb, k.obj) THEN Fail(c) /\ UNCHANGED used
         ELSE \/ /\ listener' = listener \cup {k.x} /\ used' = used \cup {k.x}
                 /\ Commit(c, k.lb, M) /\ UNCHANGED <<lb, backend, fip>>
              \/ RollBack(c, k.lb, M) /\ UNCHANGED used
  /\ Elsewhere

(* BackendAdmin.Delete of B, one after the other: each writes haproxy.conf   *)
(* with the backends of the listener that are left, and those o has of the  *)
(* others.                                                                 *)
DeleteBackends(l, o, n, B) ==
  LET s == SetToSeq(B)
      others == {b \in o.backends : ListenerOf[b] # n}
      left(i) == BackendsOf({n}) \ {s[j] : j \in 1..i}
  IN  FlattenSeq([i \in DOMAIN s |-> CreateHaproxyConf(l, [o EXCEPT !.backends = others \cup left(i)])])

(* ListenerAdmin.Delete: its backends, the row, and the listeners listed    *)
(* again.                                                                  *)
DeleteListener(c) ==
  /\ Serving(c, "unlistener")
  /\ LET k == load[c]
         B == BackendsOf({k.x})
         M == DeleteBackends(k.lb, k.obj, k.x, B)
                \o CreateVrrpConf(k.lb, [k.obj EXCEPT !.listeners = ListenersOf(k.lb) \ {k.x}], FipsOf(k.lb))
     IN  IF (B # {} /\ ~ GetVrrpHyperGroup(k.lb)) \/ ~ VrrpConfOK(k.lb, k.obj) THEN Fail(c)
         ELSE \/ /\ listener' = listener \ {k.x} /\ backend' = backend \ B
                 /\ Commit(c, k.lb, M) /\ UNCHANGED <<lb, fip>>
              \/ RollBack(c, k.lb, M)
  /\ UNCHANGED used /\ Elsewhere

(* BackendAdmin.Create. *)
CreateBackend(c) ==
  /\ Serving(c, "backend")
  /\ LET k == load[c]
         M == CreateHaproxyConf(k.lb, [k.obj EXCEPT !.backends = @ \cup {k.x}])
     IN  IF ~ GetVrrpHyperGroup(k.lb) THEN Fail(c) /\ UNCHANGED used
         ELSE \/ /\ backend' = backend \cup {k.x} /\ used' = used \cup {k.x}
                 /\ Commit(c, k.lb, M) /\ UNCHANGED <<lb, listener, fip>>
              \/ RollBack(c, k.lb, M) /\ UNCHANGED used
  /\ Elsewhere

(* BackendAdmin.Delete. *)
DeleteBackend(c) ==
  /\ Serving(c, "unbackend")
  /\ LET k == load[c]
         M == DeleteBackends(k.lb, k.obj, ListenerOf[k.x], {k.x})
     IN  IF ~ GetVrrpHyperGroup(k.lb) THEN Fail(c)
         ELSE \/ /\ backend' = backend \ {k.x}
                 /\ Commit(c, k.lb, M) /\ UNCHANGED <<lb, listener, fip>>
              \/ RollBack(c, k.lb, M)
  /\ UNCHANGED used /\ Elsewhere

(* Mutant: the new address is not added to those that were loaded. *)
CreateFloatingIpStale(c) ==
  /\ Serving(c, "fip")
  /\ LET k == load[c]
         M == CreateVrrpConf(k.lb, k.obj, FipsOf(k.lb) \cup {k.x}) \o CreateHaproxyConf(k.lb, k.obj)
     IN  IF ~ GetVrrpHyperGroup(k.lb) THEN Fail(c)
         ELSE fip' = [fip EXCEPT ![k.x] = k.lb] /\ Commit(c, k.lb, M) /\ UNCHANGED <<lb, listener, backend>>
  /\ UNCHANGED used /\ Elsewhere

(* FloatingIpAdmin.Create for a load balancer. *)
CreateFloatingIp(c) ==
  /\ Serving(c, "fip")
  /\ LET k == load[c]
         M == CreateVrrpConf(k.lb, k.obj, FipsOf(k.lb) \cup {k.x})
                \o CreateHaproxyConf(k.lb, [k.obj EXCEPT !.fips = @ \cup {k.x}])
     IN  IF ~ GetVrrpHyperGroup(k.lb) THEN Fail(c)
         ELSE \/ /\ fip' = [fip EXCEPT ![k.x] = k.lb]
                 /\ Commit(c, k.lb, M) /\ UNCHANGED <<lb, listener, backend>>
              \/ RollBack(c, k.lb, M)
  /\ UNCHANGED used /\ Elsewhere

(* Detach of f from l, which leaves the addresses F: the rules, then both   *)
(* configurations.                                                         *)
Detach(l, o, f, F) ==
  <<[to |-> Placed(l), cmd |-> [do |-> "clear_fip", fip |-> f]]>>
    \o CreateVrrpConf(l, o, F) \o CreateHaproxyConf(l, [o EXCEPT !.fips = F])

(* FloatingIpAdmin.Delete of an address of a load balancer. *)
DeleteFloatingIp(c) ==
  /\ Serving(c, "unfip")
  /\ LET k == load[c]
         M == Detach(k.lb, k.obj, k.x, FipsOf(k.lb) \ {k.x})
     IN  IF ~ GetVrrpHyperGroup(k.lb) THEN Fail(c)
         ELSE \/ /\ fip' = [fip EXCEPT ![k.x] = "gone"]
                 /\ Commit(c, k.lb, M) /\ UNCHANGED <<lb, listener, backend>>
              \/ RollBack(c, k.lb, M)
  /\ UNCHANGED used /\ Elsewhere

(* FloatingIpAdmin.Update: haproxy gets the addresses that were loaded,      *)
(* without the new one.                                                    *)
UpdateFloatingIp(c) ==
  /\ Serving(c, "patch")
  /\ LET k == load[c]
         M == CreateVrrpConf(k.lb, k.obj, FipsOf(k.lb) \cup {k.x}) \o CreateHaproxyConf(k.lb, k.obj)
     IN  IF ~ GetVrrpHyperGroup(k.lb) THEN Fail(c)
         ELSE \/ /\ fip' = [fip EXCEPT ![k.x] = k.lb]
                 /\ Commit(c, k.lb, M) /\ UNCHANGED <<lb, listener, backend>>
              \/ RollBack(c, k.lb, M)
  /\ UNCHANGED used /\ Elsewhere

(* Mutant: the addresses are deleted as rows only. *)
DeleteLoadBalancerRows(c) ==
  /\ Serving(c, "unlb")
  /\ LET k == load[c]
         N == ListenersOf(k.lb)
         M == <<[to |-> Placed(k.lb), cmd |-> [do |-> "clear_vrrp", lb |-> k.lb]]>>
     IN  IF ~ GetVrrpInterfaces(k.lb) THEN Fail(c)
         ELSE /\ lb' = [lb EXCEPT ![k.lb] = [status |-> "deleted", hyper |-> [r \in Roles |-> NoHyper]]]
              /\ fip' = [f \in Fips |-> IF fip[f] = k.lb THEN "gone" ELSE fip[f]]
              /\ listener' = listener \ N /\ backend' = backend \ BackendsOf(N)
              /\ Commit(c, k.lb, M)
  /\ UNCHANGED used /\ Elsewhere

(* LoadBalancerAdmin.Delete: the floating addresses, each with the load     *)
(* balancer as it is now; the listeners with what was loaded but no         *)
(* address; the VRRP addresses.                                            *)
DeleteLoadBalancer(c) ==
  /\ Serving(c, "unlb")
  /\ LET k == load[c]
         l == k.lb
         F == SetToSeq(FipsOf(l))
         N == SetToSeq(ListenersOf(l))
         bare == [k.obj EXCEPT !.fips = {}]
         M == FlattenSeq([i \in DOMAIN F |->
                            Detach(l, GetLoadBalancerByUUID(l), F[i], FipsOf(l) \ {F[j] : j \in 1..i})])
                \o FlattenSeq([i \in DOMAIN N |->
                     DeleteBackends(l, bare, N[i], BackendsOf({N[i]}))
                       \o CreateVrrpConf(l, [bare EXCEPT !.listeners = Range(N) \ {N[j] : j \in 1..i}], {})])
                \o <<[to |-> Placed(l), cmd |-> [do |-> "clear_vrrp", lb |-> l]]>>
     IN  IF \/ ~ GetVrrpInterfaces(l)
            \/ FipsOf(l) \cup BackendsOf(ListenersOf(l)) # {} /\ ~ GetVrrpHyperGroup(l)
         THEN Fail(c)
         ELSE \/ /\ lb' = [lb EXCEPT ![l] = [status |-> "deleted", hyper |-> [r \in Roles |-> NoHyper]]]
                 /\ fip' = [f \in Fips |-> IF fip[f] = l THEN "gone" ELSE fip[f]]
                 /\ listener' = listener \ Range(N) /\ backend' = backend \ BackendsOf(Range(N))
                 /\ Commit(c, l, M)
              \/ RollBack(c, l, M)
  /\ UNCHANGED used /\ Elsewhere
-----------------------------------------------------------------------------
(* Callbacks. *)

(* Mutant: the hypervisor of the MASTER is not left out. *)
GetHyperGroupAll(h) == zone

(* GetHyperGroup without h. *)
GetHyperGroup(h) == zone \ {h}

(* Mutant: without another hypervisor the load balancer is left as it is. *)
SetVrrpIpPair(a) ==
  /\ a \in answers /\ a.do = "set_vrrp"
  /\ answers' = answers \ {a} /\ Still
  /\ LET placed == [lb[a.lb] EXCEPT !.hyper[a.role] = a.hyper]
     IN  \/ ~ Live(a.lb) /\ UNCHANGED <<lb, cmds>>
         \/ /\ Live(a.lb) /\ a.role = "BACKUP"
            /\ lb' = [lb EXCEPT ![a.lb] = [placed EXCEPT !.status = "available"]] /\ UNCHANGED cmds
         \/ /\ Live(a.lb) /\ a.role = "MASTER" /\ lb' = [lb EXCEPT ![a.lb] = placed]
            /\ Send(SetToSeq({[to |-> {h}, cmd |-> [do |-> "set_vrrp", lb |-> a.lb, role |-> "BACKUP",
                                                   reply |-> TRUE]] : h \in GetHyperGroup(a.hyper)}))
  /\ UNCHANGED <<listener, backend, fip, used, zone, load, lbnodes, synced, lbhist>>

(* SetVrrpIp.  The MASTER's answer sends for the BACKUP, if there is        *)
(* another hypervisor.                                                     *)
SetVrrpIp(a) ==
  /\ a \in answers /\ a.do = "set_vrrp"
  /\ answers' = answers \ {a}
  /\ LET placed == [lb[a.lb] EXCEPT !.hyper[a.role] = a.hyper]
         done == [placed EXCEPT !.status = "available"]
     IN  \/ /\ ~ Live(a.lb) /\ Still /\ UNCHANGED <<lb, cmds>>
         \/ /\ Live(a.lb) /\ (a.role = "BACKUP" \/ GetHyperGroup(a.hyper) = {})
            /\ lb' = [lb EXCEPT ![a.lb] = done] /\ Still /\ UNCHANGED cmds
         \/ /\ Live(a.lb) /\ a.role = "MASTER"
            /\ \E h \in GetHyperGroup(a.hyper) :
                 \/ /\ lb' = [lb EXCEPT ![a.lb] = placed] /\ Still
                    /\ Send(<<[to |-> {h}, cmd |-> [do |-> "set_vrrp", lb |-> a.lb, role |-> "BACKUP",
                                                    reply |-> TRUE]]>>)
                 \/ Allow("refuse") /\ UNCHANGED <<lb, cmds>>
  /\ UNCHANGED <<listener, backend, fip, used, zone, load, lbnodes, synced, lbhist>>

(* report_rc.sh: once, as nothing removes the file. *)
Report(h) ==
  /\ Allow("report") /\ h \notin synced
  /\ synced' = synced \cup {h}
  /\ answers' = answers \cup {[do |-> "recover", hyper |-> h]}
  /\ UNCHANGED <<lbrows, used, zone, load, cmds, lbnodes, lbhist>>

(* RecoverLoadbalancer: the load balancers with an interface on the         *)
(* hypervisor; those that are not available are skipped.                   *)
RecoverLoadbalancer(a) ==
  /\ a \in answers /\ a.do = "recover"
  /\ lplan["race"] > 0 \/ \A c \in LbClients : load[c] = Waiting
  /\ LET L == {l \in LBs : a.hyper \in Placed(l)}
         up == {l \in L : lb[l].status = "available"}
     IN  /\ answers' = (answers \ {a}) \cup
                       {[do |-> "recovering", hyper |-> a.hyper, obj |-> [l \in up |-> GetLoadBalancerByUUID(l)]]}
         /\ unlike' = unlike \cup (L \ up)
  /\ Still /\ UNCHANGED <<lbrows, used, zone, load, cmds, lbnodes, synced, rebuilt, broken>>

(* The configuration of a recovery does not say which backends use TLS. *)
RecoveredServers(B) == {[backend |-> b, tls |-> FALSE] : b \in B}

(* Mutant: the VRRP address is not set again. *)
RecoverNoAddress(h, l, o) ==
  LET to(c) == [to |-> {h}, cmd |-> c]
  IN  <<to([do |-> "keepalived", lb |-> l, vips |-> o.fips, ports |-> o.listeners]),
        to([do |-> "haproxy", lb |-> l, fips |-> o.fips, servers |-> RecoveredServers(o.backends)])>>

(* Of one load balancer. *)
RecoverOne(h, l, o) ==
  LET roles == SetToSeq({r \in Roles : lb[l].hyper[r] = h})
      to(c) == [to |-> {h}, cmd |-> c]
  IN  FlattenSeq([i \in DOMAIN roles |->
        <<to([do |-> "set_vrrp", lb |-> l, role |-> roles[i], reply |-> FALSE]),
          to([do |-> "keepalived", lb |-> l, vips |-> o.fips, ports |-> o.listeners])>>])
      \o <<to([do |-> "haproxy", lb |-> l, fips |-> o.fips, servers |-> RecoveredServers(o.backends)])>>
      \o SetToSeq({to([do |-> "route_fip", fip |-> f]) : f \in o.fips})

RecoverSend(a) ==
  /\ a \in answers /\ a.do = "recovering"
  /\ answers' = answers \ {a}
  /\ LET L == SetToSeq({l \in DOMAIN a.obj : GetVrrpInterfaces(l)})
     IN  Send(FlattenSeq([i \in DOMAIN L |-> RecoverOne(a.hyper, L[i], a.obj[L[i]])]))
  /\ rebuilt' = rebuilt \cup {a.hyper} /\ broken' = broken \ ({a.hyper} \X DOMAIN a.obj)
  /\ Still /\ UNCHANGED <<lbrows, used, zone, load, lbnodes, synced, unlike>>
-----------------------------------------------------------------------------
(* Hypervisors. *)

(* set_vrrp_ip.sh *)
RunSetVrrpIp(h, k) ==
  /\ k.do = "set_vrrp"
  /\ vrrp' = vrrp \cup {<<h, k.lb, k.role>>}
  /\ answers' = IF k.reply THEN answers \cup {[do |-> "set_vrrp", lb |-> k.lb, role |-> k.role, hyper |-> h]}
                ELSE answers
  /\ UNCHANGED <<keepalived, haproxy, conffile, routed>>

(* create_keepalived_conf.sh: without addresses keepalived is stopped. *)
RunKeepalived(h, k) ==
  /\ k.do = "keepalived"
  /\ keepalived' = [keepalived EXCEPT ![h][k.lb] =
                      IF k.vips = {} THEN NoConf ELSE [vips |-> k.vips, ports |-> k.ports]]
  /\ conffile' = IF k.vips = {} THEN conffile \ {<<h, k.lb>>} ELSE conffile \cup {<<h, k.lb>>}
  /\ routed' = routed \cup ({h} \X k.vips)
  /\ UNCHANGED <<answers, vrrp, haproxy>>

(* create_haproxy_conf.sh: the source address is looked up in                *)
(* keepalived.conf.                                                        *)
RunHaproxy(h, k) ==
  /\ k.do = "haproxy"
  /\ haproxy' = [haproxy EXCEPT ![h][k.lb] =
                   IF k.fips = {} \/ k.servers = {} THEN NoConf
                   ELSE [fips |-> k.fips, servers |-> k.servers, source |-> <<h, k.lb>> \in conffile]]
  /\ UNCHANGED <<answers, vrrp, keepalived, conffile, routed>>

(* clear_vrrp_ip.sh *)
RunClearVrrpIp(h, k) ==
  /\ k.do = "clear_vrrp"
  /\ vrrp' = vrrp \ {<<h, k.lb, r>> : r \in Roles}
  /\ UNCHANGED <<answers, keepalived, haproxy, conffile, routed>>

(* create_lb_floating.sh, clear_lb_floating.sh *)
RunFloating(h, k) ==
  /\ k.do \in {"route_fip", "clear_fip"}
  /\ routed' = IF k.do = "route_fip" THEN routed \cup {<<h, k.fip>>} ELSE routed \ {<<h, k.fip>>}
  /\ UNCHANGED <<answers, vrrp, keepalived, haproxy, conffile>>

Execute(h) ==
  /\ cmds[h] # <<>>
  /\ LET k == Head(cmds[h])
     IN  RunSetVrrpIp(h, k) \/ RunKeepalived(h, k) \/ RunHaproxy(h, k) \/ RunClearVrrpIp(h, k) \/ RunFloating(h, k)
  /\ cmds' = [cmds EXCEPT ![h] = Tail(@)]
  /\ Still /\ UNCHANGED <<lbrows, used, zone, load, synced, lbhist>>

(* The threads that send commands may overtake one another. *)
OvertakeCommand(h) ==
  /\ Allow("overtake")
  /\ \E i \in 1..Len(cmds[h]) - 1 : cmds' = [cmds EXCEPT ![h][i] = cmds[h][i + 1], ![h][i + 1] = cmds[h][i]]
  /\ UNCHANGED <<lbrows, used, zone, load, answers, lbnodes, synced, lbhist>>

(* Processes, namespaces and commands are lost, files are not. *)
Reboot(h) ==
  /\ Allow("reboot")
  /\ vrrp' = {v \in vrrp : v[1] # h} /\ routed' = {v \in routed : v[1] # h}
  /\ keepalived' = [keepalived EXCEPT ![h] = [l \in LBs |-> NoConf]]
  /\ haproxy' = [haproxy EXCEPT ![h] = [l \in LBs |-> NoConf]]
  /\ cmds' = [cmds EXCEPT ![h] = <<>>]
  /\ broken' = broken \cup ({h} \X LBs)
  /\ UNCHANGED <<lbrows, used, zone, load, answers, conffile, synced, unlike, rebuilt>>
-----------------------------------------------------------------------------
LbInit ==
  /\ lb = [l \in LBs |-> [status |-> "none", hyper |-> [r \in Roles |-> NoHyper]]]
  /\ listener = {} /\ backend = {} /\ used = {}
  /\ lplan \in LbPlans /\ lcount = [e \in LbEvents |-> 0]
  /\ fip = [f \in Fips |-> IF lplan["patch"] > 0 THEN NoLB ELSE "none"]
  /\ zone \in Zones
  /\ load = [c \in LbClients |-> Waiting]
  /\ cmds = [h \in Hypers |-> <<>>] /\ answers = {}
  /\ vrrp = {} /\ conffile = {} /\ routed = {}
  /\ keepalived = [h \in Hypers |-> [l \in LBs |-> NoConf]]
  /\ haproxy = [h \in Hypers |-> [l \in LBs |-> NoConf]]
  /\ synced = {} /\ unlike = {} /\ rebuilt = {} /\ broken = {}

LbRequest(c) ==
  \/ \E n \in Listeners : ListenerAPICreate(c, n) \/ ListenerAPIDelete(c, n)
  \/ \E b \in Backends : BackendAPICreate(c, b) \/ BackendAPIDelete(c, b)
  \/ \E f \in Fips, l \in LBs :
       LBFloatingIpAPICreate(c, f, l) \/ LBFloatingIpAPIDelete(c, f, l) \/ FloatingIpAPIPatch(c, f, l)
  \/ \E l \in LBs : CreateVrrpInstance(c, l) \/ LoadBalancerAPIDelete(c, l)

LbTransaction(c) ==
  \/ CreateListener(c) \/ DeleteListener(c) \/ CreateBackend(c) \/ DeleteBackend(c)
  \/ CreateFloatingIp(c) \/ DeleteFloatingIp(c) \/ UpdateFloatingIp(c) \/ DeleteLoadBalancer(c)

Placement == \E a \in answers : SetVrrpIp(a)
Recovery == \E a \in answers : RecoverLoadbalancer(a) \/ RecoverSend(a)
LbExecute == \E h \in Hypers : Execute(h)

LbNext ==
  \/ \E c \in LbClients : LbRequest(c) \/ LbTransaction(c)
  \/ Placement \/ Recovery \/ LbExecute
  \/ \E h \in Hypers : Report(h) \/ OvertakeCommand(h) \/ Reboot(h)

LbSpec == LbInit /\ [][LbNext]_lbvars

(* Hypervisors run their commands and callbacks are handled. *)
LbFairSpec == LbSpec /\ WF_lbvars(LbExecute) /\ WF_lbvars(Placement)
-----------------------------------------------------------------------------
LbAtRest ==
  /\ \A c \in LbClients : load[c] = Waiting
  /\ answers = {} /\ \A h \in Hypers : cmds[h] = <<>>

OneByOne == lplan["race"] = 0 /\ Never("overtake")

(* The hypervisors a configuration is expected on: those with an interface, *)
(* unless they rebooted and have not been recovered, of a load balancer      *)
(* every change of which was made when it was available and succeeded.      *)
Serves(h, l) == h \in Placed(l) /\ <<h, l>> \notin broken /\ l \notin unlike

(* With requests one after the other and commands in order, keepalived      *)
(* carries at rest exactly the floating addresses of the rows and accepts    *)
(* the ports of the listener rows, on each hypervisor of an available load   *)
(* balancer, a recovered one included; and the VRRP address is there.       *)
KeepalivedFollows ==
  LbAtRest /\ OneByOne => \A l \in LBs, h \in Hypers : Serves(h, l) /\ lb[l].status = "available" =>
    /\ keepalived[h][l] = IF FipsOf(l) = {} THEN NoConf ELSE [vips |-> FipsOf(l), ports |-> ListenersOf(l)]
    /\ \E r \in Roles : <<h, l, r>> \in vrrp

(* Likewise haproxy serves the addresses and backends of the rows, from the *)
(* VRRP address, which it finds because keepalived was configured before;   *)
(* unless Update has attached an address.  TLS is right unless the          *)
(* hypervisor was recovered.                                               *)
HaproxyFollows ==
  LbAtRest /\ OneByOne /\ Never("patch") =>
    \A l \in LBs, h \in Hypers : Serves(h, l) /\ lb[l].status = "available" =>
      LET B == BackendsOf(ListenersOf(l))
          conf(S) == [fips |-> FipsOf(l), servers |-> S, source |-> TRUE]
      IN  IF B = {} \/ FipsOf(l) = {} THEN haproxy[h][l] = NoConf
          ELSE haproxy[h][l] \in {conf(Servers(B))}
                                   \cup IF h \in rebuilt THEN {conf(RecoveredServers(B))} ELSE {}

(* A load balancer that was available when it was deleted leaves nothing    *)
(* behind on any hypervisor: no address, no process, no rule.              *)
NothingLeft ==
  LbAtRest /\ OneByOne => \A l \in LBs, h \in Hypers : lb[l].status = "deleted" /\ l \notin unlike =>
    /\ keepalived[h][l] = NoConf /\ haproxy[h][l] = NoConf
    /\ \A r \in Roles : <<h, l, r>> \notin vrrp
    /\ \A f \in Fips : fip[f] = "gone" => <<h, f>> \notin routed

(* However requests overlap, no listener and no address of a load balancer  *)
(* that was available outlives it: the transaction that would leave one     *)
(* does not find the VRRP interfaces and rolls back.                       *)
NoOrphans ==
  \A l \in LBs : lb[l].status = "deleted" /\ l \notin unlike => ListenersOf(l) = {} /\ FipsOf(l) = {}

(* The two roles are never on one hypervisor, which could not then fail     *)
(* over.                                                                   *)
RolesApart == \A l \in LBs : lb[l].hyper["MASTER"] # lb[l].hyper["BACKUP"] \/ lb[l].hyper["MASTER"] = NoHyper

(* A load balancer becomes available, also in a zone of one hypervisor,     *)
(* unless it is deleted, a command is refused or a hypervisor reboots.      *)
LbSettles ==
  \A l \in LBs : lb[l].status = "pending" ~>
    (lb[l].status # "pending" \/ ~ Never("refuse") \/ ~ Never("reboot"))
=============================================================================
