------------------------------- MODULE Daemon -------------------------------
(***************************************************************************)
(* The way of a command from the API server to the hypervisors and of the  *)
(* answers back: the HTTP threads of the cloudland daemon (rpcworker.cpp), *)
(* the groups they share (netlayer.cpp), the scheduling filter             *)
(* (scheduler.cpp, rcmanager.cpp), the cloudlets, and the handler of the   *)
(* callbacks (handler.cpp, rpcs/frontback.go, rpcs/commands.go).  Of the   *)
(* message layer (sci/libsci) the router's queue is modelled, with a tree  *)
(* of depth one in which every hypervisor is a child of the daemon.        *)
(*                                                                         *)
(* CPU, memory and disk are one number, which is negative on a hypervisor  *)
(* that has been given too much.                                           *)
(***************************************************************************)
EXTENDS Integers, Sequences, FiniteSets, FiniteSetsExt, Commands

CONSTANTS
  Threads,     \* the threads of the HTTP server
  Hosts,       \* the hypervisors that are connected, as numbers
  None,        \* no thread, no group, no report
  Names,       \* names of groups
  Plans,       \* scenarios: the requests, each with its kind, group, resources
               \* and the arguments its script prints; the hypervisors that
               \* have not reported, those that may be lost, and the reports
  Room         \* what a hypervisor has free at the beginning

(* What a request describes: a group that createGroup makes, a broadcast   *)
(* to the members it lists (groupMessage).                                 *)
Makes(q) == q.kind = "mkgrp" \/ (q.kind \in {"toall", "select"} /\ q.members # {})
Broadcasts(q) == q.kind = "toall" /\ q.members # {}
DescOf(q) == [members |-> q.members, need |-> q.need]

ASSUME HostsAssumption ==
  /\ Hosts \subseteq Nat \ {0} /\ IsFiniteSet(Hosts)
  /\ None \notin Hosts /\ None \notin Threads /\ None \notin Names

ASSUME RequestsAssumption ==
  \A p \in DOMAIN Plans : \A r \in DOMAIN Plans[p].requests :
    LET q == Plans[p].requests[r]
    IN  /\ r # None /\ q.members # None
        /\ q.name \in Names \cup {None}
        /\ Makes(q) \/ q.kind = "rmgrp" => q.name \in Names
        /\ q.kind = "inter" => \E h \in q.members : q.members = {h} /\ h \in Nat \ {0}
        /\ None \notin [group : Int, desc : {DescOf(q)}]

(* The API server has names for broadcasts ("group-fdb-%d", "group-vrrp-%d") *)
(* and others for zones, and names that are removed stand for hypervisors   *)
(* SCI knows.                                                              *)
ASSUME NamesAssumption ==
  \A p \in DOMAIN Plans : \A r, s \in DOMAIN Plans[p].requests :
    LET q == Plans[p].requests[r]
        o == Plans[p].requests[s]
    IN  q.name = o.name =>
          /\ Broadcasts(q) /\ Makes(o) => Broadcasts(o)
          /\ q.kind = "rmgrp" /\ Makes(o) => ~Broadcasts(o) /\ o.members \subseteq Hosts

VARIABLES
  plan,        \* which of the Plans this behaviour serves
  todo,        \* those that no thread has read yet
  pc, cur,     \* each thread's place in Execute and its request
  groupMap,    \* NetLayer::groupMap: name -> group and description
  mtx, ser,    \* NetLayer's mutexes: the thread that holds each
  sci,         \* the groups SCI has created: members, or None once freed
  down,        \* the messages in the queue of SCI's router
  rcMap,       \* the filter's last report of each hypervisor
  count,       \* getBestBranch's static counter
  recovering,  \* hypervisors SCI has lost and is reconnecting
  inbox,       \* commands on their way to each hypervisor
  free,        \* what each hypervisor has free
  up,          \* its report on the way
  reports,     \* how many reports are still made
  got,         \* the hypervisors each request was given to
  refused,     \* the requests answered with error=resource
  lines,       \* callbacks on their way to the API server
  heard        \* the arguments that callback handlers were called with

web == <<lines, heard>>
hyper == <<inbox, free, up, reports>>
filter == <<down, rcMap, count, recovering>>
net == <<groupMap, mtx, ser, sci>>
vars == <<plan, todo, pc, cur, net, filter, hyper, got, refused, web>>

(* Groups count upwards from SCI_GROUP_ALL; number 0 is none.  SCI takes a *)
(* number on the other side of SCI_GROUP_ALL for a single backend: -h is   *)
(* hypervisor h.                                                           *)
All == 1
Number == (0..Len(sci)) \cup {-h : h \in Hosts}

(* count is used modulo the size of a group, at most 3. *)
CountBound == 6

(* Requests are numbered. *)
Requests == DOMAIN Plans[plan].requests
Req(r) == Plans[plan].requests[r]

TypeOK ==
  /\ plan \in DOMAIN Plans /\ todo \subseteq Requests
  /\ pc \in [Threads -> {"idle", "serialize", "find", "create", "fill", "send", "free"}]
  /\ \A t \in Threads : (pc[t] = "idle") = (cur[t] = None)
  /\ \A n \in Names : groupMap[n] = None \/ groupMap[n].group \in Number
  /\ mtx \in Threads \cup {None} /\ ser \in Threads \cup {None}
  /\ \A g \in DOMAIN sci : sci[g] = None \/ sci[g] \subseteq Hosts
  /\ \A h \in Hosts : rcMap[h] \in Int \cup {None}
  /\ count \in 0..CountBound - 1
  /\ recovering \subseteq Hosts
  /\ \A h \in Hosts : free[h] \in Int /\ up[h] \in Int \cup {None}
  /\ reports \in Nat
  /\ \A r \in Requests : got[r] \subseteq Hosts
  /\ refused \subseteq Requests

(***************************************************************************)
(* RemoteExecServiceImpl::Execute, one HTTP request per thread.            *)
(***************************************************************************)
Goto(t, l) == pc' = [pc EXCEPT ![t] = l]

(* Mutant: the thread keeps its request. *)
ReplyKeep(t) == Goto(t, "idle") /\ UNCHANGED cur

(* The request is answered with OK. *)
Reply(t) == Goto(t, "idle") /\ cur' = [cur EXCEPT ![t] = None]

(* A description of a group is "name:members"; without the members the     *)
(* name stands for a group that exists.                                    *)
Described(r) == Req(r).members # {}
Desc(r) == DescOf(Req(r))

Execute(t) ==
  /\ pc[t] = "idle"
  /\ \E r \in todo :
       /\ todo' = todo \ {r}
       /\ cur' = [cur EXCEPT ![t] = r]
       /\ Goto(t, CASE Req(r).kind = "toall" /\ Described(r) -> "serialize"
                    [] Req(r).kind = "select" /\ Described(r) -> "find"
                    [] Req(r).kind = "mkgrp" -> "find"
                    [] Req(r).kind = "rmgrp" -> "free"
                    [] OTHER -> "send")
  /\ UNCHANGED <<plan, net, filter, hyper, got, refused, web>>

(* Mutant: groupMessage without the mutex. *)
SerializeNot(t) ==
  /\ pc[t] = "serialize"
  /\ Goto(t, "find")
  /\ UNCHANGED <<plan, todo, cur, net, filter, hyper, got, refused, web>>

(* groupMessage: create the group, send, free the group. *)
Serialize(t) ==
  /\ pc[t] = "serialize"
  /\ ser = None
  /\ ser' = t
  /\ Goto(t, "find")
  /\ UNCHANGED <<plan, todo, cur, groupMap, mtx, sci, filter, hyper, got, refused, web>>

(* createGroup looks for the description without the lock. *)
Find(t) ==
  LET g == groupMap[Req(cur[t]).name]
      found == g # None /\ g.desc = Desc(cur[t])
  IN  /\ pc[t] = "find"
      /\ IF ~found THEN Goto(t, "create") /\ UNCHANGED cur
         ELSE IF Req(cur[t]).kind = "mkgrp" THEN Reply(t)
         ELSE Goto(t, "send") /\ UNCHANGED cur
      /\ UNCHANGED <<plan, todo, net, filter, hyper, got, refused, web>>

Create(t) ==
  /\ pc[t] = "create"
  /\ mtx = None
  /\ mtx' = t
  /\ groupMap' = [groupMap EXCEPT ![Req(cur[t]).name] = [group |-> All, desc |-> Desc(cur[t])]]
  /\ Goto(t, "fill")
  /\ UNCHANGED <<plan, todo, cur, ser, sci, filter, hyper, got, refused, web>>

(* Mutant: only a broadcast goes on after the group is created. *)
FillOnly(t) ==
  /\ pc[t] = "fill"
  /\ mtx' = None
  /\ \/ /\ Req(cur[t]).members \subseteq Hosts /\ down = <<>>
        /\ sci' = Append(sci, Req(cur[t]).members)
        /\ groupMap' = [groupMap EXCEPT ![Req(cur[t]).name].group = Len(sci')]
     \/ /\ ~(Req(cur[t]).members \subseteq Hosts)
        /\ \E g \in Number : groupMap' = [groupMap EXCEPT ![Req(cur[t]).name].group = g]
        /\ UNCHANGED sci
  /\ IF Req(cur[t]).kind # "toall" THEN Reply(t) ELSE Goto(t, "send") /\ UNCHANGED cur
  /\ UNCHANGED <<plan, todo, ser, filter, hyper, got, refused, web>>

(* SCI_Group_create returns when the router has come to its message, which *)
(* is behind those that were sent before.  For a hypervisor that SCI does  *)
(* not know it fails at once, and the group is then whatever the           *)
(* uninitialized variable holds.                                           *)
Fill(t) ==
  /\ pc[t] = "fill"
  /\ mtx' = None
  /\ \/ /\ Req(cur[t]).members \subseteq Hosts /\ down = <<>>
        /\ sci' = Append(sci, Req(cur[t]).members)
        /\ groupMap' = [groupMap EXCEPT ![Req(cur[t]).name].group = Len(sci')]
     \/ /\ ~(Req(cur[t]).members \subseteq Hosts)
        /\ \E g \in Number : groupMap' = [groupMap EXCEPT ![Req(cur[t]).name].group = g]
        /\ UNCHANGED sci
  /\ IF Req(cur[t]).kind = "mkgrp" THEN Reply(t) ELSE Goto(t, "send") /\ UNCHANGED cur
  /\ UNCHANGED <<plan, todo, ser, filter, hyper, got, refused, web>>

(* The group that sendMessage takes for a name, and the hypervisor of the  *)
(* sendMessage to one.                                                     *)
GroupOf(n) == IF n # None /\ groupMap[n] # None THEN groupMap[n].group ELSE All
Target(r) == IF Req(r).kind = "inter" THEN -Max(Req(r).members) ELSE GroupOf(Req(r).name)

(* SCI_Bcast takes groups that exist and backends it knows. *)
Alive(g) == IF g < 0 THEN -g \in Hosts ELSE g # 0 /\ sci[g] # None
Successors(g) == IF g < 0 THEN {-g} ELSE sci[g]

Filtered(r) == Req(r).kind \in {"any", "group", "select"}

(* Mutant: sendMessage without the lock. *)
SendUnlocked(t) ==
  LET r == cur[t]
      g == Target(r)
  IN  /\ pc[t] = "send"
      /\ down' = IF Alive(g) THEN Append(down, [req |-> r, group |-> g]) ELSE down
      /\ IF Alive(g) /\ Req(r).kind = "toall" /\ Described(r)
         THEN Goto(t, "free") /\ UNCHANGED cur ELSE Reply(t)
      /\ UNCHANGED <<plan, todo, net, rcMap, count, recovering, hyper, got, refused, web>>

(* sendMessage to a group or to one hypervisor.  A group that is not alive *)
(* makes it throw: groupMessage is left with the mutex ser, the            *)
(* description stays in groupMap, and Execute answers OK.                  *)
Send(t) ==
  LET r == cur[t]
      g == Target(r)
  IN  /\ pc[t] = "send"
      /\ Req(r).kind = "inter" \/ mtx = None
      /\ down' = IF Alive(g) THEN Append(down, [req |-> r, group |-> g]) ELSE down
      /\ IF Alive(g) /\ Req(r).kind = "toall" /\ Described(r)
         THEN Goto(t, "free") /\ UNCHANGED cur ELSE Reply(t)
      /\ UNCHANGED <<plan, todo, net, rcMap, count, recovering, hyper, got, refused, web>>

(* Mutant: the mutex of groupMessage is not given back. *)
FreeGroupKeepSer(t) ==
  LET g == GroupOf(Req(cur[t]).name)
  IN  /\ pc[t] = "free"
      /\ mtx = None
      /\ g > All => down = <<>>
      /\ sci' = IF g > All THEN [sci EXCEPT ![g] = None] ELSE sci
      /\ groupMap' = [groupMap EXCEPT ![Req(cur[t]).name] = None]
      /\ Reply(t)
      /\ UNCHANGED <<plan, todo, mtx, ser, filter, hyper, got, refused, web>>

(* Mutant: the name stays in groupMap. *)
FreeGroupKeepName(t) ==
  LET g == GroupOf(Req(cur[t]).name)
  IN  /\ pc[t] = "free"
      /\ mtx = None
      /\ g > All => down = <<>>
      /\ sci' = IF g > All THEN [sci EXCEPT ![g] = None] ELSE sci
      /\ ser' = IF Req(cur[t]).kind = "toall" THEN None ELSE ser
      /\ Reply(t)
      /\ UNCHANGED <<plan, todo, mtx, groupMap, filter, hyper, got, refused, web>>

(* freeGroup, and deserialize at the end of groupMessage.  SCI_Group_free  *)
(* waits for the router as well.                                           *)
FreeGroup(t) ==
  LET g == GroupOf(Req(cur[t]).name)
  IN  /\ pc[t] = "free"
      /\ mtx = None
      /\ g > All => down = <<>>
      /\ sci' = IF g > All THEN [sci EXCEPT ![g] = None] ELSE sci
      /\ groupMap' = [groupMap EXCEPT ![Req(cur[t]).name] = None]
      /\ ser' = IF Req(cur[t]).kind = "toall" THEN None ELSE ser
      /\ Reply(t)
      /\ UNCHANGED <<plan, todo, mtx, filter, hyper, got, refused, web>>

(***************************************************************************)
(* The scheduling filter.                                                  *)
(***************************************************************************)
Usable(h) == rcMap[h] # None /\ h \notin recovering

(* 1 - need / (free + 1) is positive. *)
TestResource(h, need) == rcMap[h] >= 0 /\ need < rcMap[h] + 1

(* The children of a group in ascending order, starting with the one whose *)
(* turn it is.                                                             *)
Child(S, n) == CHOOSE h \in S : Cardinality({x \in S : x < h}) = n
Turn(S, k) == Child(S, (count + k) % Cardinality(S))

(* Mutant: the loop ends at the last child. *)
GetBestBranchShort(S, need) ==
  LET n == Cardinality(S)
      fit == {k \in 0..n - 1 - (count % n) : Usable(Turn(S, k)) /\ TestResource(Turn(S, k), need)}
      end == IF fit = {} THEN n ELSE Min(fit)
      skipped == {k \in 0..end - 1 : ~Usable(Turn(S, k))}
  IN  [host |-> IF fit = {} THEN None ELSE Turn(S, end),
       count |-> (count + 1 + Cardinality(skipped)) % CountBound]

(* The first child that has reported, is connected and has enough room.    *)
(* Children that are skipped for the other reasons advance the counter.    *)
GetBestBranch(S, need) ==
  LET n == Cardinality(S)
      fit == {k \in 0..n - 1 : Usable(Turn(S, k)) /\ TestResource(Turn(S, k), need)}
      end == IF fit = {} THEN n ELSE Min(fit)
      skipped == {k \in 0..end - 1 : ~Usable(Turn(S, k))}
  IN  [host |-> IF fit = {} THEN None ELSE Turn(S, end),
       count |-> (count + 1 + Cardinality(skipped)) % CountBound]

(* The answer for a group: a number that stands for a backend is no group, *)
(* and the list of its children is then not initialized.                   *)
BestBranches(g, need) ==
  IF g > 0 THEN {GetBestBranch(sci[g], need)}
  ELSE [host : {None} \cup {h \in Hosts : Usable(h) /\ TestResource(h, need)},
        count : {count, (count + 1) % CountBound}]

(* Commands that every hypervisor of a set receives. *)
Give(r, hs) ==
  /\ inbox' = [h \in Hosts |-> IF h \in hs THEN Append(inbox[h], r) ELSE inbox[h]]
  /\ got' = [got EXCEPT ![r] = @ \cup hs]

(* Mutant: the command goes to all the children that have reported. *)
FilterInputAll ==
  LET m == Head(down)
  IN  /\ down # <<>> /\ Filtered(m.req)
      /\ down' = Tail(down)
      /\ \E best \in BestBranches(m.group, Req(m.req).need) :
           /\ count' = best.count
           /\ IF best.host = None
              THEN refused' = refused \cup {m.req} /\ UNCHANGED <<inbox, got>>
              ELSE Give(m.req, {h \in Successors(m.group) : rcMap[h] # None}) /\ UNCHANGED refused
      /\ UNCHANGED <<plan, todo, pc, cur, net, rcMap, recovering, free, up, reports, web>>

(* The router calls filter_input for a command that is to be scheduled. *)
FilterInput ==
  LET m == Head(down)
  IN  /\ down # <<>> /\ Filtered(m.req)
      /\ down' = Tail(down)
      /\ \E best \in BestBranches(m.group, Req(m.req).need) :
           /\ count' = best.count
           /\ IF best.host = None
              THEN refused' = refused \cup {m.req} /\ UNCHANGED <<inbox, got>>
              ELSE Give(m.req, {best.host}) /\ UNCHANGED refused
      /\ UNCHANGED <<plan, todo, pc, cur, net, rcMap, recovering, free, up, reports, web>>

(* The router sends a command without filter to all children of its group. *)
Route ==
  LET m == Head(down)
  IN  /\ down # <<>> /\ ~Filtered(m.req)
      /\ down' = Tail(down)
      /\ Give(m.req, Successors(m.group))
      /\ UNCHANGED <<plan, todo, pc, cur, net, rcMap, count, recovering, free, up, reports,
                     refused, web>>

(* filter_input for a report: setAvailibility. *)
SetAvailibility(h) ==
  /\ up[h] # None
  /\ rcMap' = [rcMap EXCEPT ![h] = up[h]]
  /\ up' = [up EXCEPT ![h] = None]
  /\ UNCHANGED <<plan, todo, pc, cur, net, down, count, recovering, inbox, free, reports,
                 got, refused, web>>

(* SCI loses the connection to a hypervisor and restores it. *)
Recovery(h) ==
  /\ h \in Plans[plan].flaky
  /\ recovering' = IF h \in recovering THEN recovering \ {h} ELSE recovering \cup {h}
  /\ UNCHANGED <<plan, todo, pc, cur, net, down, rcMap, count, hyper, got, refused, web>>

(***************************************************************************)
(* The cloudlets and the callbacks.                                        *)
(***************************************************************************)
(* main: the first line of report_rc.sh goes to the filter. *)
Report(h) ==
  /\ h \notin recovering
  /\ reports > 0 /\ up[h] = None
  /\ reports' = reports - 1
  /\ up' = [up EXCEPT ![h] = free[h]]
  /\ UNCHANGED <<plan, todo, pc, cur, net, filter, inbox, free, got, refused, web>>

(* backHandler: the script runs and prints its callback, or it fails; the  *)
(* API server does nothing about the answer "error".                       *)
BackHandler(h) ==
  /\ inbox[h] # <<>> /\ h \notin recovering
  /\ LET r == Head(inbox[h])
     IN  \/ /\ free' = [free EXCEPT ![h] = @ - Req(r).need]
            /\ lines' = lines \cup {[req |-> r, host |-> h,
                                     text |-> EncodeCommand(<<"n">>, Req(r).out)]}
         \/ UNCHANGED <<free, lines>>
  /\ inbox' = [inbox EXCEPT ![h] = Tail(@)]
  /\ UNCHANGED <<plan, todo, pc, cur, net, filter, up, reports, got, refused, heard>>

(* frontHandler, the thread pool and FrontbackService.Execute: callbacks   *)
(* are handled in any order.                                               *)
DispatchExecute(l) ==
  /\ lines' = lines \ {l}
  /\ heard' = heard \cup {[req |-> l.req, args |-> Tail(DecodeCommand(l.text))]}
  /\ UNCHANGED <<plan, todo, pc, cur, net, filter, hyper, got, refused>>

Init ==
  /\ plan \in DOMAIN Plans /\ todo = Requests
  /\ pc = [t \in Threads |-> "idle"] /\ cur = [t \in Threads |-> None]
  /\ groupMap = [n \in Names |-> None] /\ mtx = None /\ ser = None
  /\ sci = <<Hosts>>
  /\ down = <<>> /\ count = 0 /\ recovering = {}
  /\ rcMap = [h \in Hosts |-> IF h \in Plans[plan].late THEN None ELSE Room]
  /\ inbox = [h \in Hosts |-> <<>>] /\ free = [h \in Hosts |-> Room]
  /\ up = [h \in Hosts |-> None] /\ reports = Plans[plan].reports
  /\ got = [r \in Requests |-> {}] /\ refused = {}
  /\ lines = {} /\ heard = {}

Thread(t) ==
  \/ Execute(t) \/ Serialize(t) \/ Find(t) \/ Create(t) \/ Fill(t)
  \/ Send(t) \/ FreeGroup(t)

Next ==
  \/ \E t \in Threads : Thread(t)
  \/ FilterInput \/ Route
  \/ \E h \in Hosts : SetAvailibility(h) \/ Recovery(h) \/ Report(h) \/ BackHandler(h)
  \/ \E l \in lines : DispatchExecute(l)

(* Threads run, and the router takes message after message. *)
Fairness == (\A t \in Threads : WF_vars(Thread(t))) /\ WF_vars(FilterInput \/ Route)

Spec == Init /\ [][Next]_vars /\ Fairness

(***************************************************************************)
(* Properties.                                                             *)
(***************************************************************************)
Known(r) == Req(r).members \subseteq Hosts
Serving(r) == r \in todo \/ \E t \in Threads : cur[t] = r

(* groupMessage with a description: once "toall=name:members" is answered  *)
(* exactly the members have the command, whoever else uses the name.       *)
ToallReached ==
  \A r \in Requests : (Req(r).kind = "toall" /\ Described(r) /\ Known(r) /\ ~Serving(r))
                   => got[r] = Req(r).members

(* Execute's "select=": the command goes to a hypervisor of the group that *)
(* the request describes (the log says "was sent to group member").        *)
SelectInGroup ==
  \A r \in Requests : (Req(r).kind = "select" /\ Known(r)) => got[r] \subseteq Req(r).members

(* filter_input: a command that is to be scheduled runs on one hypervisor  *)
(* or is answered with error=resource, never both.                         *)
OneOutcome ==
  \A r \in Requests : Filtered(r) => Cardinality(got[r]) + (IF r \in refused THEN 1 ELSE 0) <= 1

(* getBestBranch: error=resource is the answer only when no connected      *)
(* member of the group had room by its last report, and the hypervisor     *)
(* that is chosen had.                                                     *)
Fits(h, need) == Usable(h) /\ TestResource(h, need)
Decided(m) == \/ m.req \in refused' /\ \A h \in sci[m.group] : ~Fits(h, Req(m.req).need)
              \/ \E h \in sci[m.group] : got'[m.req] = {h} /\ Fits(h, Req(m.req).need)
Scheduled(m) == Filtered(m.req) /\ m.group > 0
DecisionSound ==
  [][(down # <<>> /\ down' = Tail(down) /\ Scheduled(Head(down))) => Decided(Head(down))]_vars

(* createGroup and freeGroup: a name never stands for a group that SCI has *)
(* freed, so that no later command for the name is lost.                   *)
GroupsAlive ==
  (\A r \in Requests : Known(r)) => \A n \in Names : groupMap[n] # None => Alive(groupMap[n].group)

(* EncodeCommand in the scripts, DecodeCommand in doExecute: the handler   *)
(* gets the arguments the script printed, except empty ones at the end.    *)
ArgsArrive == \A x \in heard : DropEmpty(x.args) = DropEmpty(Req(x.req).out)

(* Execute: every HTTP request is answered, which needs the two mutexes.   *)
Answered == <>[](todo = {} /\ \A t \in Threads : pc[t] = "idle")

(* A command for the scheduler is eventually given to a hypervisor or      *)
(* refused.                                                                *)
SelectDecided ==
  <>[](\A r \in Requests : (Filtered(r) /\ Known(r)) => (got[r] # {} \/ r \in refused))
=============================================================================
