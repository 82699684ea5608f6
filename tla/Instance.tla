------------------------------ MODULE Instance ------------------------------
(***************************************************************************)
(* Instances, their interfaces and addresses, and floating addresses:      *)
(* routes/instance.go, routes/interface.go, routes/floatingip.go,          *)
(* common/interface.go, the callbacks of rpcs/ and the scripts of          *)
(* scripts/kvm that they start on the hypervisors.                         *)
(*                                                                         *)
(* A request reads its rows, changes them in one transaction and sends     *)
(* commands with HyperExecute; it is one step.  A hypervisor runs its      *)
(* commands one after another (cloudlet.cpp), each script is one step and  *)
(* leaves callbacks, which the front end handles in any order.  Between    *)
(* these steps the rows and the hypervisors disagree.                      *)
(*                                                                         *)
(* Networks: "pub" is the public subnet, "vpc1" and "vpc2" are subnets of  *)
(* one router.  An instance gets its primary interface in the VPC          *)
(* (CreateVpc), natively in the public subnet (CreateNative), or takes     *)
(* over the interfaces of floating addresses, which are then of the type   *)
(* "reserved" (CreateReserved).                                            *)
(*                                                                         *)
(* Not modelled: site subnets, load balancers, security groups, forwarding *)
(* rules, metadata; and requests whose rows change while they run.         *)
(*                                                                         *)
(* Besides the requests a behaviour may contain: fail, a domain does not   *)
(* start; silent, launch_vm.sh or reinstall_vm.sh leaves before its        *)
(* callback; reboot of a hypervisor; report, the hypervisors report their  *)
(* domains; early, changes of the addresses of an instance before it has  *)
(* a hypervisor; late, changes of the addresses of an instance that is being *)
(* deleted; reuse, floating addresses taken over or deleted before the     *)
(* deletion of their last instance is complete; trim, interface PATCH with an empty    *)
(* list of public addresses and a smaller count; held, a volume of the     *)
(* instance is in a consistency group.  "hosts" is the number of           *)
(* hypervisors in the zone.                                                *)
(***************************************************************************)
EXTENDS Naturals, Sequences, FiniteSets, FiniteSetsExt

CONSTANTS Insts, Hosts, Ifaces, Fips, None,
          Addrs,    \* the addresses, as numbers: the order of address::inet
          Net,      \* Net[a]: the subnet of address a
          MaxNics,  \* bound: the interfaces of an instance (8 in the code)
          Plans     \* bound: how often each event may happen, one function per scenario

ASSUME InstanceNetAssumption ==
  /\ Addrs \subseteq Nat /\ Hosts \subseteq Nat
  /\ Net \in [Addrs -> {"pub", "vpc1", "vpc2"}]
  /\ None \notin Insts \cup Hosts \cup Ifaces \cup Fips

VARIABLES
  db,     \* the tables: inst, iface, addr, fip and native (the dummy floating addresses)
  dom,    \* dom[h][i]: the domain of instance i on host h and the addresses of its nics
  nat,    \* nat[h]: the router of the VPC on host h, and its translations <<address, instance>>
  cmds,   \* cmds[h]: the commands that host h still has to run
  cbs,    \* the callbacks that the front end still has to handle
  plan,   \* how often each event may happen in this behaviour
  asked   \* how often it has happened

vars == <<db, dom, nat, cmds, cbs, plan, asked>>

Events == {"create", "delete", "power", "rescue", "end", "resize", "reinstall",
           "nic", "unnic", "patch", "fip", "attach", "unattach", "unfip",
           "fail", "silent", "reboot", "report", "early", "late", "reuse", "trim", "held", "hosts"}
Statuses == {"none", "pending", "running", "shut_off", "error", "rescuing",
             "resizing", "reinstalling", "deleting", "deleted", ""}

NoInst == [row |-> "none", status |-> "none", hyper |-> None, router |-> FALSE, boot |-> FALSE]
NoIface == [live |-> FALSE, inst |-> None, fip |-> None, primary |-> FALSE]
NoAddr == [alloc |-> FALSE, iface |-> None, second |-> None]
NoFip == [row |-> FALSE, type |-> "floating", inst |-> None]
NoDom == [st |-> "none", ips |-> {}]
NoRouter == [up |-> FALSE, map |-> {}]

Live(i) == db.inst[i].row = "live"
IfacesOf(d, i) == {f \in Ifaces : d.iface[f].live /\ d.iface[f].inst = i}
PrimaryOf(d, i) == CHOOSE f \in IfacesOf(d, i) : d.iface[f].primary
FipIface(d, p) == CHOOSE f \in Ifaces : d.iface[f].live /\ d.iface[f].fip = p
AddrOf(d, f) == CHOOSE a \in Addrs : d.addr[a].iface = f
FipAddr(d, p) == AddrOf(d, FipIface(d, p))
SecondsOf(d, f) == {a \in Addrs : d.addr[a].second = f}
FipsOf(d, i) == {p \in Fips : d.fip[p].row /\ d.fip[p].inst = i}

(* The addresses that a command tells the hypervisor to give to interface  *)
(* f: its own and its second addresses.                                    *)
NicOf(d, f) == IF d.iface[f].primary THEN "eth0" ELSE f
GetInterfaceInfo(d, f) ==
  {<<NicOf(d, f), a>> : a \in {b \in Addrs : f \in {d.addr[b].iface, d.addr[b].second}}}
Networks(d, i) == UNION {GetInterfaceInfo(d, f) : f \in IfacesOf(d, i)}

Cmd(op, i, ips) == [op |-> op, inst |-> i, ips |-> ips]
Callback(op, i, h, st) == [op |-> op, inst |-> i, hyper |-> h, st |-> st]

(* HyperExecute with "inter=-1": no hypervisor runs the command. *)
Send(q, h, c) == IF h = None THEN q ELSE [q EXCEPT ![h] = Append(@, c)]

TypeOK ==
  /\ db.inst \in [Insts -> [row : {"none", "live", "gone"}, status : Statuses,
                            hyper : Hosts \cup {None}, router : BOOLEAN, boot : BOOLEAN]]
  /\ db.iface \in [Ifaces -> [live : BOOLEAN, inst : Insts \cup {None},
                              fip : Fips \cup {None}, primary : BOOLEAN]]
  /\ db.addr \in [Addrs -> [alloc : BOOLEAN, iface : Ifaces \cup {None},
                            second : Ifaces \cup {None}]]
  /\ db.fip \in [Fips -> [row : BOOLEAN, type : {"floating", "reserved"},
                          inst : Insts \cup {None}]]
  /\ db.native \subseteq Insts \X Addrs
  /\ \A h \in Hosts, i \in Insts :
       /\ dom[h][i].st \in {"none", "running", "shut_off", "rescuing"}
       /\ dom[h][i].ips \subseteq (Ifaces \cup {"eth0"}) \X Addrs
  /\ nat \in [Hosts -> [up : BOOLEAN, map : SUBSET (Addrs \X Insts)]]

(***************************************************************************)
(* Changes of the tables.                                                  *)
(***************************************************************************)
FreeAddrs(d, net) == {a \in Addrs : Net[a] = net /\ ~d.addr[a].alloc}
FreeIfaces(d) == {f \in Ifaces : ~d.iface[f].live}
FirstFreeIface(d) == CHOOSE f \in FreeIfaces(d) : TRUE

AllocateAddress(d, net, f, column) ==
  LET a == Min(FreeAddrs(d, net))
  IN  IF column = "second"
      THEN [d EXCEPT !.addr[a] = [@ EXCEPT !.alloc = TRUE, !.second = f]]
      ELSE [d EXCEPT !.addr[a] = [@ EXCEPT !.alloc = TRUE, !.iface = f]]

CreateInterface(d, i, p, net, primary) ==
  LET f == FirstFreeIface(d)
  IN  AllocateAddress([d EXCEPT !.iface[f] = [live |-> TRUE, inst |-> i, fip |-> p,
                                              primary |-> primary]],
                      net, f, "native")

(* Mutant: the second addresses of the interfaces stay allocated. *)
DeleteInterfacesLeakSecond(d, fs) ==
  LET plain == {f \in fs : d.iface[f].fip = None}
      Own(a) == d.addr[a].iface \in plain
  IN  [d EXCEPT
        !.iface = [f \in Ifaces |->
                     IF f \in plain THEN NoIface
                     ELSE IF f \in fs THEN [@[f] EXCEPT !.inst = None, !.primary = FALSE]
                     ELSE @[f]],
        !.addr = [a \in Addrs |->
                    [alloc |-> @[a].alloc /\ ~Own(a),
                     iface |-> IF Own(a) THEN None ELSE @[a].iface,
                     second |-> IF @[a].second \in fs THEN None ELSE @[a].second]]]

(* Mutant: no interface is deleted, all are kept as if for a floating address. *)
DeleteInterfacesKeep(d, fs) ==
  [d EXCEPT
     !.iface = [f \in Ifaces |-> IF f \in fs THEN [@[f] EXCEPT !.inst = None, !.primary = FALSE]
                                 ELSE @[f]],
     !.addr = [a \in Addrs |-> IF @[a].second \in fs
                               THEN [@[a] EXCEPT !.second = None, !.alloc = @ /\ d.addr[a].iface # None]
                               ELSE @[a]]]

(* The interfaces fs leave their instance: a floating address keeps its    *)
(* interface and its address, everything else is deleted and released.     *)
DeleteInterfaces(d, fs) ==
  LET plain == {f \in fs : d.iface[f].fip = None}
      Own(a) == d.addr[a].iface \in plain
      Second(a) == d.addr[a].second \in fs
  IN  [d EXCEPT
        !.iface = [f \in Ifaces |->
                     IF f \in plain THEN NoIface
                     ELSE IF f \in fs THEN [@[f] EXCEPT !.inst = None, !.primary = FALSE]
                     ELSE @[f]],
        !.addr = [a \in Addrs |->
                    [alloc |-> @[a].alloc /\ ~Own(a) /\ ~(Second(a) /\ @[a].iface = None),
                     iface |-> IF Own(a) THEN None ELSE @[a].iface,
                     second |-> IF Second(a) THEN None ELSE @[a].second]]]

DeallocateFloatingIp(d, p) ==
  LET f == FipIface(d, p)
  IN  [d EXCEPT !.iface[f] = NoIface,
                !.addr = [a \in Addrs |-> IF @[a].iface = f THEN NoAddr ELSE @[a]],
                !.fip[p] = NoFip]

(* The rows of floating addresses ps return to the type "floating". *)
ReleaseFips(d, ps) ==
  [d EXCEPT !.fip = [p \in Fips |-> IF p \in ps
                                    THEN [@[p] EXCEPT !.type = "floating", !.inst = None]
                                    ELSE @[p]]]

(* Mutant: only the first address is moved to the interface. *)
DerivePublicInterfaceFirst(d, i, keep, ps) ==
  LET first == IF keep THEN PrimaryOf(d, i) ELSE FipIface(d, ps[1])
  IN  [d EXCEPT
        !.iface[first] = [@ EXCEPT !.inst = i, !.primary = TRUE],
        !.addr[AddrOf(d, first)].second = None,
        !.fip = [p \in Fips |-> IF \E n \in 1..Len(ps) : ps[n] = p
                                THEN [@[p] EXCEPT !.type = "reserved", !.inst = i]
                                ELSE @[p]]]

(* Instance i takes over the floating addresses of the sequence ps, the    *)
(* first as its primary interface unless it keeps the one it has.          *)
DerivePublicInterface(d, i, keep, ps) ==
  LET first == IF keep THEN PrimaryOf(d, i) ELSE FipIface(d, ps[1])
      own == AddrOf(d, first)
      more == {FipAddr(d, ps[n]) : n \in 2..Len(ps)}
  IN  [d EXCEPT
        !.iface[first] = [@ EXCEPT !.inst = i, !.primary = TRUE],
        !.addr = [a \in Addrs |-> IF a = own THEN [@[a] EXCEPT !.second = None]
                                  ELSE IF a \in more THEN [@[a] EXCEPT !.second = first]
                                  ELSE @[a]],
        !.fip = [p \in Fips |-> IF \E n \in 1..Len(ps) : ps[n] = p
                                THEN [@[p] EXCEPT !.type = "reserved", !.inst = i]
                                ELSE @[p]]]

(* The interfaces of the last instance of p are deleted. *)
Cleared(d, p) ==
  \/ plan["reuse"] > 0
  \/ d.iface[FipIface(d, p)].inst = None /\ d.addr[FipAddr(d, p)].second = None

(* A floating address that an instance can take over: it is not in use. *)
Unused(d, p) == d.fip[p].row /\ d.fip[p].inst = None /\ Cleared(d, p)

PublicIps(S) == {<<p>> : p \in S} \cup {ps \in S \X S : ps[1] # ps[2]}

(***************************************************************************)
(* Requests: instances.                                                    *)
(***************************************************************************)
Ask(r) == asked[r] < plan[r] /\ asked' = [asked EXCEPT ![r] = @ + 1] /\ UNCHANGED plan

PendingRow(d, i, router) ==
  [d EXCEPT !.inst[i] = [row |-> "live", status |-> "pending", hyper |-> None,
                         router |-> router, boot |-> TRUE]]

(* The rows are interchangeable: a new one is the first that is unused. *)
Unborn == {i \in Insts : db.inst[i].row = "none"}

(* The scheduler gives the command to one hypervisor of the zone, or       *)
(* answers error=resource.                                                 *)
Select(i, ips) ==
  \/ \E h \in Hosts : /\ h <= plan["hosts"]
                      /\ cmds' = [cmds EXCEPT ![h] = Append(@, Cmd("launch", i, ips))]
                      /\ UNCHANGED cbs
  \/ cbs' = cbs \cup {Callback("refused", i, None, "error")} /\ UNCHANGED cmds

InstanceCreate(i, d, ips) ==
  /\ Ask("create")
  /\ i \in Unborn /\ i = CHOOSE j \in Unborn : TRUE
  /\ db' = d
  /\ Select(i, ips)
  /\ UNCHANGED <<dom, nat>>

CreateVpc(i) ==
  /\ FreeAddrs(db, "vpc1") # {} /\ FreeIfaces(db) # {}
  /\ LET d == CreateInterface(PendingRow(db, i, TRUE), i, None, "vpc1", TRUE)
     IN  InstanceCreate(i, d, Networks(d, i))

CreateNative(i) ==
  /\ FreeAddrs(db, "pub") # {} /\ FreeIfaces(db) # {}
  /\ LET d == CreateInterface(PendingRow(db, i, FALSE), i, None, "pub", TRUE)
         a == AddrOf(d, PrimaryOf(d, i))
     IN  InstanceCreate(i, [d EXCEPT !.native = @ \cup {<<i, a>>}], Networks(d, i))

CreateReserved(i) ==
  \E ps \in PublicIps({p \in Fips : Unused(db, p)}) :
    InstanceCreate(i, DerivePublicInterface(PendingRow(db, i, FALSE), i, FALSE, ps),
                   {<<"eth0", FipAddr(db, ps[n])>> : n \in 1..Len(ps)})

(* clear_floating.sh for a floating address that is translated for an      *)
(* instance, and for all those of one instance.                            *)
ClearFloating(q, p) ==
  LET i == db.fip[p].inst
  IN  IF i = None \/ db.fip[p].type = "reserved" THEN q
      ELSE Send(q, db.inst[i].hyper, Cmd("unfloating", i, {<<"nat", FipAddr(db, p)>>}))

ClearFloatings(q, ps) ==
  LET F[S \in SUBSET ps] ==
        IF S = {} THEN q
        ELSE LET p == CHOOSE x \in S : TRUE IN ClearFloating(F[S \ {p}], p)
  IN  F[ps]

(* Mutant: clear_vm.sh with "inter=-1" when the instance has no hypervisor. *)
ClearTargetsPlaced(i) == {db.inst[i].hyper} \cap Hosts

(* clear_vm.sh goes to the instance's hypervisor, or to all of them when   *)
(* none has reported it yet.                                               *)
ClearTargets(i) == IF db.inst[i].hyper = None THEN Hosts ELSE {db.inst[i].hyper}

InstanceDelete(i) ==
  /\ Ask("delete")
  /\ Live(i)
  /\ LET q == ClearFloatings(cmds, FipsOf(db, i))
         op == IF db.inst[i].router THEN "clear_vpc" ELSE "clear"
     IN  cmds' = [h \in Hosts |-> IF h \in ClearTargets(i)
                                  THEN Append(q[h], Cmd(op, i, {})) ELSE q[h]]
  /\ db' = [ReleaseFips(db, FipsOf(db, i)) EXCEPT
              !.inst[i].status = "deleting", !.inst[i].boot = FALSE,
              !.native = {e \in @ : e[1] # i}]
  /\ UNCHANGED <<dom, nat, cbs>>

(* A volume of the instance is in a consistency group: the transaction is  *)
(* rolled back after the commands of the floating addresses went out.      *)
InstanceDeleteRefused(i) ==
  /\ Ask("held")
  /\ Live(i)
  /\ cmds' = ClearFloatings(cmds, FipsOf(db, i))
  /\ UNCHANGED <<db, dom, nat, cbs>>

(* Requests that change the status and send one command. *)
StatusRequest(r, i, status, c) ==
  /\ Ask(r)
  /\ Live(i)
  /\ db' = [db EXCEPT !.inst[i].status = status]
  /\ cmds' = Send(cmds, db.inst[i].hyper, c)
  /\ UNCHANGED <<dom, nat, cbs>>

InstanceUpdate(i) ==
  \E action \in {"start", "stop"} :
    StatusRequest("power", i, db.inst[i].status, Cmd(action, i, {}))

Rescue(i) ==
  /\ db.inst[i].status # "rescuing" /\ db.inst[i].boot
  /\ StatusRequest("rescue", i, "rescuing", Cmd("rescue", i, Networks(db, i)))

EndRescue(i) ==
  /\ db.inst[i].status = "rescuing"
  /\ StatusRequest("end", i, "shut_off", Cmd("end_rescue", i, {}))

Resize(i) ==
  /\ db.inst[i].status # "resizing" /\ db.inst[i].boot
  /\ StatusRequest("resize", i, "resizing", Cmd("resize", i, {}))

Reinstall(i) ==
  /\ db.inst[i].status # "rescuing" /\ db.inst[i].boot
  /\ StatusRequest("reinstall", i, "reinstalling", Cmd("reinstall", i, Networks(db, i)))

(***************************************************************************)
(* Requests: interfaces.                                                   *)
(***************************************************************************)
NetOf(d, f) == Net[AddrOf(d, f)]

(* The request comes when the instance has a hypervisor. *)
InTime(i) == db.inst[i].hyper # None \/ plan["early"] > 0

(* Mutant: without the second addresses. *)
ApplyInterfaceOwn(q, d, i, f) ==
  Send(q, d.inst[i].hyper, Cmd("nic", i, {<<NicOf(d, f), AddrOf(d, f)>>}))

(* sync_nic_info.sh for interface f of instance i. *)
ApplyInterface(q, d, i, f) == Send(q, d.inst[i].hyper, Cmd("nic", i, GetInterfaceInfo(d, f)))

InterfaceCreate(i) ==
  \E net \in {"pub", "vpc1", "vpc2"} :
    /\ Ask("nic")
    /\ Live(i) /\ InTime(i)
    /\ Cardinality(IfacesOf(db, i)) < MaxNics
    /\ \A f \in IfacesOf(db, i) : NetOf(db, f) # net
    /\ db.inst[i].router => net # "pub"
    /\ FreeAddrs(db, net) # {} /\ FreeIfaces(db) # {}
    /\ LET f == FirstFreeIface(db)
           d == CreateInterface(db, i, None, net, IfacesOf(db, i) = {})
       IN  /\ db' = [d EXCEPT !.inst[i].router = @ \/ net # "pub",
                              !.native = IF net = "pub" THEN @ \cup {<<i, AddrOf(d, f)>>} ELSE @]
           /\ cmds' = ApplyInterface(cmds, db', i, f)
    /\ UNCHANGED <<dom, nat, cbs>>

(* The rows change when the hypervisor has answered. *)
InterfaceDelete(i) ==
  \E f \in IfacesOf(db, i) :
    /\ Ask("unnic")
    /\ Live(i)
    /\ ~db.iface[f].primary
    /\ cmds' = Send(cmds, db.inst[i].hyper, Cmd("unnic", i, {<<f, AddrOf(db, f)>>}))
    /\ UNCHANGED <<db, dom, nat, cbs>>

(* changeAddresses of a primary interface in the public subnet. *)
Patchable(i) ==
  /\ Live(i) /\ InTime(i)
  /\ db.inst[i].boot \/ plan["late"] > 0
  /\ \E f \in IfacesOf(db, i) : db.iface[f].primary /\ NetOf(db, f) = "pub"

PatchTo(i, d, q) ==
  /\ Ask("patch")
  /\ db' = d
  /\ cmds' = ApplyInterface(q, d, i, PrimaryOf(d, i))
  /\ UNCHANGED <<dom, nat, cbs>>

(* One more second address. *)
PatchGrow(i) ==
  /\ Patchable(i)
  /\ LET f == PrimaryOf(db, i)
         d == AllocateAddress(db, "pub", f, "second")
     IN  /\ db.iface[f].fip = None
         /\ FreeAddrs(db, "pub") # {}
         /\ PatchTo(i, [d EXCEPT !.native = @ \cup {<<i, Min(FreeAddrs(db, "pub"))>>}], cmds)

(* One second address less.  The rows of its dummy floating address stay.  *)
(* With an empty list of public addresses the same branch is taken for an  *)
(* interface that has taken over floating addresses.                       *)
PatchShrink(i) ==
  /\ Patchable(i)
  /\ LET f == PrimaryOf(db, i)
     IN  /\ db.iface[f].fip = None \/ plan["trim"] > 0
         /\ \E a \in SecondsOf(db, f) :
              PatchTo(i, [db EXCEPT !.addr[a] = [@ EXCEPT !.second = None, !.alloc = FALSE]], cmds)

(* Another list of public addresses. *)
PatchPublic(i) ==
  /\ Patchable(i)
  /\ LET f == PrimaryOf(db, i)
         old == {p \in Fips : \E a \in SecondsOf(db, f) : /\ db.addr[a].iface # None
                                                          /\ db.iface[db.addr[a].iface].fip = p}
         Reset(d) == [ReleaseFips(d, old) EXCEPT
                        !.addr = [a \in Addrs |-> IF @[a].second = f
                                                  THEN [@[a] EXCEPT !.second = None] ELSE @[a]]]
         Leave(d) == [ReleaseFips(d, {db.iface[f].fip}) EXCEPT
                        !.iface[f] = [@ EXCEPT !.inst = None, !.primary = FALSE]]
     IN  /\ db.iface[f].fip # None
         /\ \E ps \in PublicIps({p \in Fips : db.fip[p].row /\ (Unused(db, p) \/ db.fip[p].inst = i)}) :
              LET keep == ps[1] = db.iface[f].fip
                  d == IF keep THEN Reset(db) ELSE Leave(Reset(db))
                  same == keep /\ {FipAddr(db, ps[n]) : n \in 2..Len(ps)} = SecondsOf(db, f)
              IN  /\ ~same
                  /\ PatchTo(i, DerivePublicInterface(d, i, keep, ps),
                             IF keep THEN cmds ELSE ClearFloating(cmds, db.iface[f].fip))

(***************************************************************************)
(* Requests: floating addresses.                                           *)
(***************************************************************************)
(* GetFloatingIpByUUID: the row, and that of its instance if it has one. *)
Found(p) == db.fip[p].row /\ (db.fip[p].inst # None => Live(db.fip[p].inst))

Attachable(i) ==
  /\ Live(i) /\ InTime(i)
  /\ db.inst[i].status # "pending"
  /\ db.inst[i].router
  /\ \E f \in IfacesOf(db, i) : db.iface[f].primary
  /\ db.inst[i].boot \/ plan["late"] > 0

Attach(q, d, p, i) ==
  /\ db' = [d EXCEPT !.fip[p] = [row |-> TRUE, type |-> "floating", inst |-> i]]
  /\ cmds' = Send(q, db.inst[i].hyper, Cmd("floating", i, {<<"nat", FipAddr(d, p)>>}))

FloatingIpCreate(p) ==
  /\ Ask("fip")
  /\ ~db.fip[p].row /\ p = CHOOSE x \in Fips : ~db.fip[x].row
  /\ FreeAddrs(db, "pub") # {} /\ FreeIfaces(db) # {}
  /\ LET d == CreateInterface([db EXCEPT !.fip[p].row = TRUE], None, p, "pub", FALSE)
     IN  \/ db' = d /\ UNCHANGED cmds
         \/ \E i \in Insts : Attachable(i) /\ Attach(cmds, d, p, i)
  /\ UNCHANGED <<dom, nat, cbs>>

(* PATCH with an instance: Detach, then Attach. *)
FloatingIpAttach(p) ==
  /\ Ask("attach")
  /\ Found(p) /\ db.fip[p].type = "floating"
  /\ \E i \in Insts : Attachable(i) /\ Attach(ClearFloating(cmds, p), db, p, i)
  /\ UNCHANGED <<dom, nat, cbs>>

FloatingIpDetach(p) ==
  /\ Ask("unattach")
  /\ Found(p) /\ db.fip[p].type = "floating"
  /\ db' = ReleaseFips(db, {p})
  /\ cmds' = ClearFloating(cmds, p)
  /\ UNCHANGED <<dom, nat, cbs>>

FloatingIpDelete(p) ==
  /\ Ask("unfip")
  /\ Found(p) /\ db.fip[p].type = "floating" /\ Cleared(db, p)
  /\ db' = DeallocateFloatingIp(db, p)
  /\ cmds' = ClearFloating(cmds, p)
  /\ UNCHANGED <<dom, nat, cbs>>

(***************************************************************************)
(* The scripts on hypervisor h.                                            *)
(***************************************************************************)
First(h) == Head(cmds[h])
Runs(h, ops) == cmds[h] # <<>> /\ First(h).op \in ops

(* The domain of the command's instance becomes d, the callbacks S go out. *)
Done(h, d, S) ==
  /\ dom' = [dom EXCEPT ![h][First(h).inst] = d]
  /\ cbs' = cbs \cup S
  /\ cmds' = [cmds EXCEPT ![h] = Tail(@)]
  /\ UNCHANGED db

NoFault == UNCHANGED <<plan, asked>>

(* The domain of the command's instance, in another state. *)
DomainOf(h) == dom[h][First(h).inst]
InState(h, st) == IF DomainOf(h).st = "none" THEN NoDom ELSE [DomainOf(h) EXCEPT !.st = st]
Answer(h, op, st) == Callback(op, First(h).inst, h, st)

(* attach_vm_nic.sh: an address of a VPC brings the router up. *)
HasVpc(ips) == \E e \in ips : Net[e[2]] # "pub"
RouterFor(h, ips) == [nat EXCEPT ![h].up = @ \/ HasVpc(ips)]

ScriptLaunch(h) ==
  /\ Runs(h, {"launch"})
  /\ LET ips == First(h).ips
     IN  \/ /\ Done(h, [st |-> "running", ips |-> ips], {Answer(h, "launch", "running")})
            /\ nat' = RouterFor(h, ips)
            /\ NoFault
         \/ /\ Ask("fail")
            /\ Done(h, [st |-> "shut_off", ips |-> ips], {Answer(h, "launch", "error")})
            /\ nat' = RouterFor(h, ips)
         \/ Ask("silent") /\ Done(h, NoDom, {}) /\ UNCHANGED nat

(* clear_local_router.sh: while the interface of another running domain is *)
(* in the bridges the router stays, else its translations go with it.      *)
ScriptClear(h) ==
  /\ Runs(h, {"clear", "clear_vpc"})
  /\ Done(h, NoDom, {Answer(h, "clear", "")})
  /\ LET stays == \/ First(h).op = "clear"
                  \/ \E j \in Insts \ {First(h).inst} :
                       dom[h][j].st \in {"running", "rescuing"} /\ HasVpc(dom[h][j].ips)
     IN  nat' = IF stays THEN nat ELSE [nat EXCEPT ![h] = NoRouter]
  /\ NoFault

(* Mutant: the state of the domain as virsh prints it. *)
ScriptActionRaw(h) ==
  /\ Runs(h, {"start", "stop"})
  /\ LET st == IF First(h).op = "start" THEN "running" ELSE "shut_off"
         d == IF DomainOf(h).st = "rescuing" THEN DomainOf(h) ELSE InState(h, st)
     IN  Done(h, d, {Answer(h, "action", IF d.st = "shut_off" THEN "shut off" ELSE d.st)})
  /\ NoFault /\ UNCHANGED nat

(* action_vm.sh: the domain is stopped or started.  While it is rescued its  *)
(* boot disk is in use by the rescue domain, and libvirt does not start it. *)
ScriptAction(h) ==
  /\ Runs(h, {"start", "stop"})
  /\ LET st == IF First(h).op = "start" THEN "running" ELSE "shut_off"
         d == IF DomainOf(h).st = "rescuing" THEN DomainOf(h) ELSE InState(h, st)
         shown == [none |-> "", running |-> "running", shut_off |-> "shut_off",
                   rescuing |-> "shut_off"]
     IN  Done(h, d, {Answer(h, "action", shown[d.st])})
  /\ NoFault /\ UNCHANGED nat

(* sync_nic_info.sh: the nics named in the command get their addresses. *)
ScriptSyncNic(h) ==
  /\ Runs(h, {"nic"})
  /\ LET ips == First(h).ips
         other == {e \in DomainOf(h).ips : \A x \in ips : x[1] # e[1]}
     IN  /\ Done(h, IF DomainOf(h).st = "none" THEN NoDom
                    ELSE [DomainOf(h) EXCEPT !.ips = other \cup ips], {})
         /\ nat' = RouterFor(h, ips)
  /\ NoFault

ScriptDetachNic(h) ==
  /\ Runs(h, {"unnic"})
  /\ LET f == (CHOOSE e \in First(h).ips : TRUE)[1]
     IN  Done(h, [DomainOf(h) EXCEPT !.ips = {e \in @ : e[1] # f}],
              {[Answer(h, "unnic", "") EXCEPT !.st = f]})
  /\ NoFault /\ UNCHANGED nat

Translations(h) == {<<e[2], First(h).inst>> : e \in First(h).ips}

ScriptCreateFloating(h) ==
  /\ Runs(h, {"floating"})
  /\ Done(h, DomainOf(h), {})
  /\ nat' = [nat EXCEPT ![h].map = IF nat[h].up THEN @ \cup Translations(h) ELSE @]
  /\ NoFault

ScriptClearFloating(h) ==
  /\ Runs(h, {"unfloating"})
  /\ Done(h, DomainOf(h), {})
  /\ nat' = [nat EXCEPT ![h].map = @ \ Translations(h)]
  /\ NoFault

(* action_vm.sh stop and hard_stop, as part of another script: the first    *)
(* answer may come before the guest is down.                                *)
StopAnswers(h) ==
  IF DomainOf(h).st = "none" THEN {{Answer(h, "action", "")}}
  ELSE LET down == Answer(h, "action", "shut_off")
       IN  {{down}} \cup (IF DomainOf(h).st = "running"
                          THEN {{down, Answer(h, "action", "running")}} ELSE {})

ScriptResize(h) ==
  /\ Runs(h, {"resize"})
  /\ \E S \in StopAnswers(h) :
       IF DomainOf(h).st \in {"running", "shut_off"}
       THEN \/ Done(h, InState(h, "running"), S \cup {Answer(h, "status", "running")}) /\ NoFault
            \/ Done(h, InState(h, "shut_off"), S \cup {Answer(h, "status", "error")}) /\ Ask("fail")
       ELSE Done(h, DomainOf(h), S \cup {Answer(h, "status", "error")}) /\ NoFault
  /\ UNCHANGED nat

ScriptReinstall(h) ==
  /\ Runs(h, {"reinstall"})
  /\ \/ /\ Done(h, InState(h, "running"),
                {Answer(h, "sync", IF DomainOf(h).st = "none" THEN "error" ELSE "running")})
        /\ NoFault
     \/ Done(h, InState(h, "shut_off"), {Answer(h, "sync", "error")}) /\ Ask("fail")
     \/ Done(h, NoDom, {}) /\ Ask("silent")
  /\ UNCHANGED nat

(* The callback of rescue_vm.sh itself has no handler. *)
ScriptRescue(h) ==
  /\ Runs(h, {"rescue"})
  /\ \E S \in StopAnswers(h) : \/ Done(h, InState(h, "rescuing"), S) /\ NoFault
                               \/ Done(h, InState(h, "shut_off"), S) /\ Ask("fail")
  /\ UNCHANGED nat

ScriptEndRescue(h) ==
  /\ Runs(h, {"end_rescue"})
  /\ Done(h, InState(h, "running"), {})
  /\ NoFault /\ UNCHANGED nat

(* report_rc.sh, inst_status: the state of each domain. *)
HostReport(h, i) ==
  /\ plan["report"] > 0
  /\ dom[h][i].st # "none"
  /\ cbs' = cbs \cup {Callback("status", i, h, dom[h][i].st)}
  /\ UNCHANGED <<db, dom, nat, cmds, plan, asked>>

(* The hypervisor comes back with its domains running (report_rc.sh,        *)
(* sync_instance), without its commands and without its router.             *)
HostReboot(h) ==
  /\ Ask("reboot")
  /\ LET here == {i \in Insts : dom[h][i].st # "none"}
     IN  /\ dom' = [dom EXCEPT ![h] = [i \in Insts |-> IF i \in here
                                                       THEN [@[i] EXCEPT !.st = "running"]
                                                       ELSE @[i]]]
         /\ cbs' = cbs \cup {Callback("sync", i, h, "running") : i \in here}
  /\ nat' = [nat EXCEPT ![h] = NoRouter]
  /\ cmds' = [cmds EXCEPT ![h] = <<>>]
  /\ UNCHANGED db

(***************************************************************************)
(* The callbacks.                                                          *)
(***************************************************************************)
Handle(c) ==
  /\ c \in cbs
  /\ cbs' = cbs \ {c}
  /\ UNCHANGED <<dom, nat, plan, asked>>

(* Mutant: the floating addresses are not sent again. *)
SyncCommandsNic(d, i) == Send(cmds, d.inst[i].hyper, Cmd("nic", i, Networks(d, i)))

(* syncNicInfo and syncFloatingIp. *)
SyncCommands(d, i) ==
  LET h == d.inst[i].hyper
      nic == Send(cmds, h, Cmd("nic", i, Networks(d, i)))
      ps == {p \in FipsOf(d, i) : d.fip[p].type = "floating"}
      primary == \E f \in IfacesOf(d, i) : d.iface[f].primary
  IN  IF d.inst[i].router /\ primary /\ ps # {}
      THEN Send(nic, h, Cmd("floating", i, {<<"nat", FipAddr(d, p)>> : p \in ps}))
      ELSE nic

LaunchVM(c) ==
  /\ c.op \in {"launch", "sync"}
  /\ Handle(c)
  /\ IF Live(c.inst)
     THEN /\ db' = [db EXCEPT !.inst[c.inst].status = c.st, !.inst[c.inst].hyper = c.hyper]
          /\ cmds' = IF c.op = "sync" THEN SyncCommands(db', c.inst) ELSE cmds
     ELSE UNCHANGED <<db, cmds>>

(* LaunchVM when the scheduler had no hypervisor. *)
LaunchRefused(c) ==
  /\ c.op = "refused"
  /\ Handle(c)
  /\ db' = IF Live(c.inst) THEN [db EXCEPT !.inst[c.inst].status = "error"] ELSE db
  /\ UNCHANGED cmds

ClearVM(c) ==
  /\ c.op = "clear"
  /\ Handle(c)
  /\ db' = IF Live(c.inst)
           THEN [DeleteInterfaces(db, IfacesOf(db, c.inst)) EXCEPT
                   !.inst[c.inst] = [@ EXCEPT !.row = "gone", !.status = "deleted"]]
           ELSE db
  /\ UNCHANGED cmds

ActionVM(c) ==
  /\ c.op = "action"
  /\ Handle(c)
  /\ db' = IF Live(c.inst) THEN [db EXCEPT !.inst[c.inst].status = c.st] ELSE db
  /\ UNCHANGED cmds

(* Mutant: the status is taken only together with a new hypervisor. *)
InstanceStatusMoved(c) ==
  /\ c.op = "status"
  /\ Handle(c)
  /\ db' = IF db.inst[c.inst].status = "rescuing" \/ db.inst[c.inst].hyper = c.hyper THEN db
           ELSE [db EXCEPT !.inst[c.inst] =
                   [@ EXCEPT !.row = "live", !.hyper = c.hyper,
                             !.status = IF Live(c.inst) THEN c.st ELSE db.inst[c.inst].status]]
  /\ UNCHANGED cmds

(* A row that ClearVM has deleted becomes live again. *)
InstanceStatus(c) ==
  /\ c.op = "status"
  /\ Handle(c)
  /\ db' = IF db.inst[c.inst].status = "rescuing" THEN db
           ELSE [db EXCEPT !.inst[c.inst] =
                   [@ EXCEPT !.row = "live", !.hyper = c.hyper,
                             !.status = IF Live(c.inst) THEN c.st ELSE db.inst[c.inst].status]]
  /\ UNCHANGED cmds

DetachInterface(c) ==
  /\ c.op = "unnic"
  /\ Handle(c)
  /\ LET f == c.st
         d == DeleteInterfaces(db, {f})
         vpc == \E g \in IfacesOf(d, c.inst) : NetOf(d, g) # "pub"
     IN  db' = IF Live(c.inst) /\ f \in IfacesOf(db, c.inst)
               THEN [d EXCEPT !.inst[c.inst].router = @ /\ vpc] ELSE db
  /\ UNCHANGED cmds

(***************************************************************************)
(* The specification.  The scheduler is fair to every hypervisor's queue,  *)
(* to the reports (report_rc.sh is called in a loop) and to the callbacks; *)
(* no request has to be made.                                              *)
(***************************************************************************)
Init ==
  /\ db = [inst |-> [i \in Insts |-> NoInst], iface |-> [f \in Ifaces |-> NoIface],
           addr |-> [a \in Addrs |-> NoAddr], fip |-> [p \in Fips |-> NoFip], native |-> {}]
  /\ dom = [h \in Hosts |-> [i \in Insts |-> NoDom]]
  /\ nat = [h \in Hosts |-> NoRouter]
  /\ cmds = [h \in Hosts |-> <<>>]
  /\ cbs = {}
  /\ plan \in Plans
  /\ asked = [e \in Events |-> 0]

InstanceRequest(i) ==
  \/ CreateVpc(i) \/ CreateNative(i) \/ CreateReserved(i)
  \/ InstanceDelete(i) \/ InstanceDeleteRefused(i)
  \/ InstanceUpdate(i) \/ Rescue(i) \/ EndRescue(i) \/ Resize(i) \/ Reinstall(i)
  \/ InterfaceCreate(i) \/ InterfaceDelete(i)
  \/ PatchGrow(i) \/ PatchShrink(i) \/ PatchPublic(i)

FloatingRequest(p) ==
  FloatingIpCreate(p) \/ FloatingIpAttach(p) \/ FloatingIpDetach(p) \/ FloatingIpDelete(p)

Script(h) ==
  \/ ScriptLaunch(h) \/ ScriptClear(h) \/ ScriptAction(h)
  \/ ScriptSyncNic(h) \/ ScriptDetachNic(h)
  \/ ScriptCreateFloating(h) \/ ScriptClearFloating(h)
  \/ ScriptResize(h) \/ ScriptReinstall(h) \/ ScriptRescue(h) \/ ScriptEndRescue(h)

(* rpcs/frontback.go: the handler that is registered for the callback. *)
CallbackHandler(c) ==
  \/ LaunchVM(c) \/ LaunchRefused(c) \/ ClearVM(c)
  \/ ActionVM(c) \/ InstanceStatus(c) \/ DetachInterface(c)

Next ==
  \/ \E i \in Insts : InstanceRequest(i)
  \/ \E p \in Fips : FloatingRequest(p)
  \/ \E h \in Hosts : Script(h) \/ HostReboot(h) \/ \E i \in Insts : HostReport(h, i)
  \/ \E c \in cbs : CallbackHandler(c)

Fairness ==
  /\ \A h \in Hosts : WF_vars(Script(h)) /\ \A i \in Insts : WF_vars(HostReport(h, i))
  /\ \A i \in Insts :
       /\ WF_vars(\E c \in cbs : c.inst = i /\ c.op = "status" /\ CallbackHandler(c))
       /\ WF_vars(\E c \in cbs : c.inst = i /\ c.op # "status" /\ CallbackHandler(c))

Spec == Init /\ [][Next]_vars /\ Fairness

(***************************************************************************)
(* Properties.                                                             *)
(***************************************************************************)
(* An address is allocated exactly while an interface has it, as its own   *)
(* or as a second address, and that interface exists: no address leaks     *)
(* and none is given out twice, whatever the order of requests, ClearVM    *)
(* and DetachInterface (AllocateAddress, DeleteInterfaces,                 *)
(* changeAddresses, DerivePublicInterface).                                *)
AddressOwned ==
  \A a \in Addrs :
    LET r == db.addr[a]
    IN  /\ r.alloc <=> (r.iface # None \/ r.second # None)
        /\ r.iface # None => db.iface[r.iface].live
        /\ r.second # None => db.iface[r.second].live
        /\ r.iface # None => r.iface # r.second

(* A live interface belongs to a live instance or to a floating address    *)
(* that exists, and has an address of its own: ClearVM keeps the interface *)
(* of a floating address and deletes every other one.                      *)
InterfaceOwned ==
  \A f \in Ifaces : db.iface[f].live =>
    /\ \/ db.iface[f].inst # None /\ Live(db.iface[f].inst)
       \/ db.iface[f].fip # None /\ db.fip[db.iface[f].fip].row
    /\ Cardinality({a \in Addrs : db.addr[a].iface = f}) = 1

(* A floating address that is reserved for an instance is on its primary   *)
(* interface, as the first or as a second address, across any sequence of  *)
(* DerivePublicInterface, changeAddresses and Delete.                      *)
ReservedMatches ==
  \A p \in Fips : db.fip[p].type = "reserved" =>
    /\ db.fip[p].inst # None /\ Live(db.fip[p].inst)
    /\ \E f \in IfacesOf(db, db.fip[p].inst) :
         /\ db.iface[f].primary
         /\ f \in {FipIface(db, p), db.addr[FipAddr(db, p)].second}

Quiet == cbs = {} /\ \A h \in Hosts : cmds[h] = <<>>

(* When nothing is under way every domain has the addresses that the rows  *)
(* of its instance list: each request that changes them tells the          *)
(* hypervisor, in the right order, and a sync after a reboot or a          *)
(* reinstall repairs what was lost (ApplyInterface, syncNicInfo,           *)
(* sync_nic_info.sh, DetachInterface).                                     *)
HostsMatchRows ==
  Quiet /\ plan["reuse"] + plan["early"] = 0 =>
    \A h \in Hosts, i \in Insts :
             Live(i) /\ db.inst[i].hyper = h /\ dom[h][i].st # "none"
               => dom[h][i].ips = Networks(db, i)

(* When nothing is under way the router of a hypervisor translates exactly *)
(* the floating addresses attached to the instances placed on it (Attach,  *)
(* Detach, Delete, syncFloatingIp, create_floating.sh, clear_floating.sh,  *)
(* clear_local_router.sh).                                                 *)
NatTruth ==
  Quiet => \A h \in Hosts :
    nat[h].map = {<<FipAddr(db, p), db.fip[p].inst>> :
                    p \in {q \in Fips : /\ db.fip[q].row /\ db.fip[q].type = "floating"
                                        /\ db.fip[q].inst # None
                                        /\ db.inst[db.fip[q].inst].hyper = h}}

(* The status of an instance ends up as the state of its domain, however   *)
(* late the callbacks of the scripts arrive, because the reports keep      *)
(* correcting it - except for the status rescuing, which InstanceStatus    *)
(* never overwrites.                                                       *)
StatusSettles ==
  \A i \in Insts :
    plan["report"] > 0 =>
      <>[](\A h \in Hosts :
             Live(i) /\ db.inst[i].hyper = h /\ dom[h][i].st # "none"
               => db.inst[i].status \in {dom[h][i].st, "rescuing"})

(* An instance whose deletion was accepted disappears, with its row and    *)
(* its domain, unless a hypervisor loses its commands in a reboot.         *)
DeleteCompletes ==
  \A i \in Insts :
    (Live(i) /\ db.inst[i].status = "deleting")
      ~> \/ db.inst[i].row = "gone" /\ \A h \in Hosts : dom[h][i].st = "none"
         \/ asked["reboot"] > 0

(* An attached floating address belongs to an instance that exists (Attach *)
(* refuses an instance that "is not running"), so that it can be detached. *)
AttachedIsLive == \A p \in Fips : db.fip[p].row => Found(p)
=============================================================================
