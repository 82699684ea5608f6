----------------------------- MODULE SciGroups ------------------------------
(***************************************************************************)
(* Groups in SCI's tree (sci/libsci): the calls of the application at the  *)
(* front end (api.cpp), the routers of the front end and of the agents,    *)
(* each with its own copy of its part of every group (routerproc.cpp,      *)
(* routinglist.cpp, dgroup.cpp), the agents a back end is added to and     *)
(* removed from (topology.cpp, launcher.cpp), and the back ends            *)
(* (purifierproc.cpp).  The tree has a front end, agents and back ends.    *)
(*                                                                         *)
(* Two threads of the application use SCI, as the threads of cloudland do  *)
(* (src/src/netlayer.cpp): the calls that change groups are made one at a  *)
(* time, and broadcasts at any time.                                       *)
(***************************************************************************)
EXTENDS SciRange, Functions, FiniteSets, FiniteSetsExt

CONSTANTS
  BackEnds,    \* ids of back ends: 0, 1, ...
  Agents,      \* ids of agents: -2, -3, ...
  Tree,        \* the agents launched at the beginning, and their back ends
  FanOut,      \* how many back ends an agent is to have
  Lists,       \* lists of back ends the application makes groups of
  Wanted,      \* ids it gives new back ends; -1 leaves the choice to SCI
  Levels,      \* levels it asks for
  LaunchFails, \* the nodes at which a launch may fail
  ExtOps,      \* operators it calls SCI_Group_operate_ext with
  Plans,       \* the kinds of calls it makes, as sequences
  MaxBcasts    \* bound on the broadcasts

VARIABLES
  info,        \* DistributedGroup::generalInfo of the front end and the agents
  list,        \* beListInfo of the front end: the members that it shows
  beMap,       \* Topology::beMap of each
  weightMap,   \* Topology::weightMap of the front end
  nextGroup, nextBE, nextAgent,
  router,      \* the queue of the front end's router
  pipe,        \* the messages on their way to each agent and back end
  up,          \* the back ends that run
  known,       \* the groups each back end knows of
  failed,      \* back ends that an agent could not launch
  waits,       \* a call waits to be notified
  plan,        \* the calls still to be made
  target,      \* the group a broadcast was found fit for, or Nothing
  sent,        \* how many broadcasts were made
  owed,        \* the broadcasts each back end is owed, by the front end's groups
  got          \* those it has handled

ids == <<nextGroup, nextBE, nextAgent>>
topo == <<beMap, weightMap>>
app == <<waits, plan, target, sent>>
ends == <<up, known, failed, got>>
vars == <<info, list, topo, ids, router, pipe, app, ends, owed>>

ALL == -1            \* SCI_GROUP_ALL
FE == -1             \* the front end among the nodes
Nothing == 99
Local == -99         \* VALIDBACKENDIDS: the child that holds a node's own back ends
Nodes == {FE} \cup Agents

Groups == {-1 - n : n \in 1..Max({Len(p) : p \in Plans})}
Messages == 1..MaxBcasts

(* Restrict f to S, and f with x mapped to y. *)
Only(f, S) == [x \in DOMAIN f \cap S |-> f[x]]
Put(f, x, y) == [z \in DOMAIN f \cup {x} |-> IF z = x THEN y ELSE f[z]]
Empty == [x \in {} |-> <<>>]

(***************************************************************************)
(* DistributedGroup, as functions of generalInfo.                          *)
(***************************************************************************)
GroupOf(S) == FoldLeft(LAMBDA g, b : Add(g, Single(b)), <<>>, SetToSeq(S))

Intersect(group, total) == Delete(group, Delete(group, total))

NonEmpty(grps) == Only(grps, {c \in DOMAIN grps : grps[c] # <<>>})

(* operator[] of the map makes an entry for a group that has none. *)
Touch(I, g) == IF g \in DOMAIN I THEN I ELSE Put(I, g, Empty)

Create(I, S, g) ==
  Put(I, g, NonEmpty([c \in DOMAIN I[ALL] |-> Intersect(I[ALL][c], GroupOf(S))]))

RemoveGroup(I, g) == Only(I, DOMAIN I \ {g})

(* The children of the new group in operate. *)
Operated(op, A, B) ==
  CASE op = "UNION" ->
         [c \in DOMAIN A \cup DOMAIN B |->
            IF c \notin DOMAIN A THEN B[c]
            ELSE IF c \in DOMAIN B THEN Add(A[c], B[c]) ELSE A[c]]
    [] op = "INTERSECTION" ->
         NonEmpty([c \in DOMAIN A \cap DOMAIN B |-> Intersect(A[c], B[c])])
    [] OTHER ->
         NonEmpty([c \in DOMAIN A |-> IF c \in DOMAIN B THEN Delete(A[c], B[c]) ELSE A[c]])

Operate(I, g1, g2, op, g) ==
  LET J == IF op = "UNION" THEN Touch(Touch(I, g1), g2)
           ELSE IF DOMAIN I[g1] = {} THEN I ELSE Touch(I, g2)
      new == Operated(op, J[g1], Touch(J, g2)[g2])
  IN  IF op = "UNION" \/ DOMAIN new # {} THEN Put(J, g, new) ELSE J

(* The union takes in all back ends of a child that has one of the group. *)
OperatedExt(I, op, g, total) ==
  CASE op = "UNION" ->
         NonEmpty([c \in DOMAIN I[ALL] |->
                     IF c \in DOMAIN I[g] THEN Add(I[ALL][c], Intersect(I[ALL][c], total))
                     ELSE Intersect(I[ALL][c], total)])
    [] op = "INTERSECTION" -> NonEmpty([c \in DOMAIN I[g] |-> Intersect(I[g][c], total)])
    [] OTHER -> NonEmpty([c \in DOMAIN I[g] |-> Delete(I[g][c], total)])

OperateExt(I, g1, S, op, g) ==
  LET J == IF op = "UNION" THEN Touch(I, g1) ELSE I
      new == OperatedExt(J, op, g1, GroupOf(S))
  IN  IF op = "UNION" \/ DOMAIN new # {} THEN Put(J, g, new) ELSE J

AddBE(I, g, child, b) ==
  LET grps == Touch(I, g)[g]
  IN  Put(I, g, Put(grps, child, Add(IF child \in DOMAIN grps THEN grps[child] ELSE <<>>, Single(b))))

(* Mutant: the groups that become empty stay. *)
RemoveBEKeep(I, b) ==
  [g \in DOMAIN I |->
     LET left == [c \in DOMAIN I[g] |-> Delete(I[g][c], Single(b))]
     IN  IF g = ALL THEN left ELSE NonEmpty(left)]

(* Children without back ends go, except in SCI_GROUP_ALL, and then the    *)
(* groups without children.                                                *)
RemoveBE(I, b) ==
  LET left == [g \in DOMAIN I |->
                 LET grps == [c \in DOMAIN I[g] |-> Delete(I[g][c], Single(b))]
                 IN  IF g = ALL THEN grps ELSE NonEmpty(grps)]
  IN  Only(left, {g \in DOMAIN I : DOMAIN left[g] # {}})

(* successorListInfo, which reset makes from generalInfo. *)
Successors(I, g) ==
  (DOMAIN I[g] \ {Local}) \cup (IF Local \in DOMAIN I[g] THEN MembersOf(I[g][Local]) ELSE {})

(* The back ends of a group. *)
BEList(I, g) == UNION {MembersOf(I[g][c]) : c \in DOMAIN I[g]}

(* reset and resetAll, for beListInfo. *)
Reset(L, I, g) == IF g \in DOMAIN I THEN Put(L, g, BEList(I, g)) ELSE L
ResetAll(I) == [g \in DOMAIN I |-> BEList(I, g)]

(* querySuccessorId: the children that have b. *)
QuerySuccessorId(I, b) == {c \in DOMAIN I[ALL] : HasMember(I[ALL][c], b)}

(* Mutant: a node does not look for its own back ends. *)
BcastBelow(I, g) ==
  IF g > ALL
  THEN QuerySuccessorId(I, g)
  ELSE IF g \in DOMAIN I THEN Successors(I, g) ELSE {}

(* RoutingList::bcast: to whom a message for g goes from a node. *)
Bcast(I, g) ==
  IF g > ALL
  THEN {IF c = Local THEN g ELSE c : c \in QuerySuccessorId(I, g)}
  ELSE IF g \in DOMAIN I THEN Successors(I, g) ELSE {}

(***************************************************************************)
(* The calls.  One whose check fails returns an error and changes nothing. *)
(***************************************************************************)
Call(m) ==
  /\ ~waits /\ plan # <<>> /\ Head(plan) = m.type
  /\ waits' = TRUE /\ plan' = Tail(plan)
  /\ router' = Append(router, m)
  /\ UNCHANGED <<info, list, topo, nextAgent, pipe, target, sent, ends, owed>>

SCI_Group_create(S) ==
  /\ S \subseteq beMap[FE]
  /\ Call([type |-> "GROUP_CREATE", group |-> nextGroup, list |-> S])
  /\ nextGroup' = nextGroup - 1 /\ UNCHANGED nextBE

SCI_Group_free(g) ==
  /\ g < ALL /\ g \in DOMAIN info[FE]
  /\ Call([type |-> "GROUP_FREE", group |-> g])
  /\ UNCHANGED <<nextGroup, nextBE>>

SCI_Group_operate(g1, g2, op) ==
  /\ {g1, g2} \subseteq DOMAIN info[FE]
  /\ Call([type |-> "GROUP_OPERATE", group |-> nextGroup, op |-> op, group1 |-> g1, group2 |-> g2])
  /\ nextGroup' = nextGroup - 1 /\ UNCHANGED nextBE

SCI_Group_operate_ext(g, S, op) ==
  /\ g \in DOMAIN info[FE] /\ S \subseteq beMap[FE]
  /\ Call([type |-> "GROUP_OPERATE_EXT", group |-> nextGroup, op |-> op, group1 |-> g, list |-> S])
  /\ nextGroup' = nextGroup - 1 /\ UNCHANGED nextBE

(* An id that SCI chooses is not compared with the ones in use.  The       *)
(* application gives an id again once the back end that had it has ended.  *)
SCI_BE_add(id, level) ==
  LET b == IF id >= 0 THEN id ELSE nextBE
  IN  /\ id >= 0 => id \notin beMap[FE]
      /\ b \in BackEnds \ up
      /\ Call([type |-> "BE_ADD", group |-> b, level |-> level])
      /\ nextBE' = IF id >= 0 THEN nextBE ELSE nextBE + 1
      /\ UNCHANGED nextGroup

SCI_BE_remove(b) ==
  /\ b \in beMap[FE]
  /\ Call([type |-> "BE_REMOVE", group |-> b])
  /\ UNCHANGED <<nextGroup, nextBE>>

(* SCI_Bcast looks whether there is such a group or back end, ... *)
BcastCheck(g) ==
  /\ target = Nothing /\ sent < MaxBcasts
  /\ IF g > ALL THEN g \in beMap[FE] ELSE g \in DOMAIN info[FE]
  /\ target' = g
  /\ UNCHANGED <<info, list, topo, ids, router, pipe, waits, plan, sent, ends, owed>>

(* ... and then puts the message in the queue. *)
BcastProduce ==
  /\ target # Nothing
  /\ router' = Append(router, [type |-> "COMMAND", group |-> target, id |-> sent + 1])
  /\ sent' = sent + 1
  /\ target' = Nothing
  /\ UNCHANGED <<info, list, topo, ids, pipe, waits, plan, ends, owed>>

(***************************************************************************)
(* The routers.                                                            *)
(***************************************************************************)
Queue(n) == IF n = FE THEN router ELSE pipe[n]

(* n has a message of one of these types to handle.  An agent that could   *)
(* not be launched reads none; one that runs reads its topology first.     *)
Gets(n, types) ==
  /\ Queue(n) # <<>> /\ Head(Queue(n)).type \in types
  /\ DOMAIN info[n] # {} \/ Head(Queue(n)).type = "CONFIG"

(* n takes its message and passes it on to the children in to. *)
Forward(n, to) ==
  LET m == Head(Queue(n))
  IN  /\ router' = IF n = FE THEN Tail(router) ELSE router
      /\ pipe' = [x \in DOMAIN pipe |->
                    LET q == IF x = n THEN Tail(pipe[x]) ELSE pipe[x]
                    IN  IF x \in to THEN Append(q, m) ELSE q]

GroupTypes == {"GROUP_CREATE", "GROUP_FREE", "GROUP_OPERATE", "GROUP_OPERATE_EXT"}
Types == GroupTypes \cup {"COMMAND", "CONFIG", "BE_ADD", "BE_REMOVE"}

(* The front end notifies the caller. *)
Notify(n) == waits' = (waits /\ n # FE)

Parsed(I, m) ==
  CASE m.type = "GROUP_CREATE" -> Create(I, m.list, m.group)
    [] m.type = "GROUP_FREE" -> RemoveGroup(I, m.group)
    [] m.type = "GROUP_OPERATE" -> Operate(I, m.group1, m.group2, m.op, m.group)
    [] OTHER -> OperateExt(I, m.group1, m.list, m.op, m.group)

Relist(L, I, m) ==
  IF m.type = "GROUP_FREE" THEN RemoveGroup(L, m.group) ELSE Reset(L, I, m.group)

(* The groups that a message is about are there: remove, operate and       *)
(* operateExt follow the iterator of the first one without a look.         *)
Sound(I, m) ==
  CASE m.type = "GROUP_FREE" -> m.group \in DOMAIN I
    [] m.type = "GROUP_CREATE" -> ALL \in DOMAIN I
    [] OTHER -> m.op # "UNION" => m.group1 \in DOMAIN I

(* Mutant: GROUP_FREE is passed on to all children. *)
ParseCmdFreeAll(n) ==
  LET m == Head(Queue(n))
      after == Parsed(info[n], m)
  IN  /\ Gets(n, GroupTypes) /\ Sound(info[n], m)
      /\ info' = [info EXCEPT ![n] = after]
      /\ list' = IF n = FE THEN Relist(list, after, m) ELSE list
      /\ Forward(n, IF m.type = "GROUP_FREE" THEN Bcast(info[n], ALL) ELSE Bcast(after, m.group))
      /\ Notify(n)
      /\ UNCHANGED <<topo, ids, plan, target, sent, ends, owed>>

(* Mutant: an agent does not pass group messages on. *)
ParseCmdStop(n) ==
  LET m == Head(Queue(n))
      after == Parsed(info[n], m)
  IN  /\ Gets(n, GroupTypes) /\ Sound(info[n], m)
      /\ info' = [info EXCEPT ![n] = after]
      /\ list' = IF n = FE THEN Relist(list, after, m) ELSE list
      /\ Forward(n, IF n = FE THEN Bcast(IF m.type = "GROUP_FREE" THEN info[n] ELSE after, m.group) ELSE {})
      /\ Notify(n)
      /\ UNCHANGED <<topo, ids, plan, target, sent, ends, owed>>

(* A message about a group that is not there is taken to end the router.   *)
ParseCmd(n) ==
  LET m == Head(Queue(n))
      after == Parsed(info[n], m)
  IN  /\ Gets(n, GroupTypes) /\ Sound(info[n], m)
      /\ info' = [info EXCEPT ![n] = after]
      /\ list' = IF n = FE THEN Relist(list, after, m) ELSE list
      /\ Forward(n, Bcast(IF m.type = "GROUP_FREE" THEN info[n] ELSE after, m.group))
      /\ Notify(n)
      /\ UNCHANGED <<topo, ids, plan, target, sent, ends, owed>>

(* Whom the front end's groups owe a broadcast. *)
Members(g) ==
  IF g > ALL THEN {g} \cap list[ALL] ELSE IF g \in DOMAIN list THEN list[g] ELSE {}

Command(n) ==
  LET m == Head(Queue(n))
  IN  /\ Gets(n, {"COMMAND"})
      /\ Forward(n, Bcast(info[n], m.group))
      /\ owed' = [b \in BackEnds |-> IF n = FE /\ b \in Members(m.group)
                                     THEN Append(owed[b], m.id) ELSE owed[b]]
      /\ UNCHANGED <<info, list, topo, ids, app, ends>>

(* launchBE: the node starts a back end of its own. *)
Launched(n, b) ==
  /\ info' = [info EXCEPT ![n] = AddBE(@, ALL, Local, b)]
  /\ beMap' = [beMap EXCEPT ![n] = @ \cup {b}]
  /\ up' = up \cup {b}
  /\ known' = [known EXCEPT ![b] = {ALL}]
  /\ UNCHANGED failed

Full(a) == weightMap[a] >= FanOut
Open == {a \in DOMAIN weightMap : ~Full(a)}

(* Topology::addBE at a node without child agents: an agent, or the front  *)
(* end when its last agent has lost its last back end.  (A front end asked *)
(* for a deeper level then takes the first agent of an empty map, which is *)
(* where it ends here.)  A launch that fails takes the back end out again; *)
(* only the front end's caller hears of it.                                *)
LaunchBE(n) ==
  LET b == Head(Queue(n)).group
  IN  /\ Gets(n, {"BE_ADD"})
      /\ n = FE => DOMAIN weightMap = {} /\ Head(router).level <= 0
      /\ \/ Launched(n, b)
         \/ /\ n \in LaunchFails
            /\ info' = [info EXCEPT ![n] = RemoveBE(AddBE(@, ALL, Local, b), b)]
            /\ failed' = IF n = FE THEN failed ELSE failed \cup {b}
            /\ UNCHANGED <<beMap, up, known>>
      /\ list' = IF n = FE THEN ResetAll(info'[FE]) ELSE list
      /\ Forward(n, {})
      /\ Notify(n)
      /\ UNCHANGED <<weightMap, ids, plan, target, sent, got, owed>>

(* Topology::addBE at a front end whose agents are full. *)
LaunchAgent ==
  LET b == Head(router).group
      with == AddBE(info[FE], ALL, nextAgent, b)
  IN  /\ Gets(FE, {"BE_ADD"})
      /\ DOMAIN weightMap # {} /\ Open = {} /\ Head(router).level <= 0
      /\ nextAgent \in Agents
      /\ nextAgent' = nextAgent - 1
      /\ router' = Tail(router)
      /\ \/ /\ info' = [info EXCEPT ![FE] = with]
            /\ pipe' = [pipe EXCEPT ![nextAgent] = Append(@, [type |-> "CONFIG", group |-> b])]
            /\ weightMap' = Put(weightMap, nextAgent, 1)
            /\ beMap' = [beMap EXCEPT ![FE] = @ \cup {b}]
         \/ /\ FE \in LaunchFails
            /\ info' = [info EXCEPT ![FE] = RemoveBE(with, b)]
            /\ UNCHANGED <<pipe, topo>>
      /\ list' = Reset(list, info'[FE], ALL)
      /\ Notify(FE)
      /\ UNCHANGED <<nextGroup, nextBE, plan, target, sent, ends, owed>>

(* Mutant: without incWeight. *)
DelegateUncounted ==
  LET b == Head(router).group
      a == Min(IF Open # {} THEN Open ELSE DOMAIN weightMap)
  IN  /\ Gets(FE, {"BE_ADD"})
      /\ DOMAIN weightMap # {}
      /\ Open # {} \/ Head(router).level > 0
      /\ info' = [info EXCEPT ![FE] = AddBE(@, ALL, a, b)]
      /\ list' = Reset(list, info'[FE], ALL)
      /\ Forward(FE, {a})
      /\ beMap' = [beMap EXCEPT ![FE] = @ \cup {b}]
      /\ Notify(FE)
      /\ UNCHANGED <<weightMap, ids, plan, target, sent, ends, owed>>

(* Topology::addBE: the first agent with room takes the back end, or the   *)
(* first of all when a deeper level is asked for.                          *)
Delegate ==
  LET b == Head(router).group
      a == Min(IF Open # {} THEN Open ELSE DOMAIN weightMap)
  IN  /\ Gets(FE, {"BE_ADD"})
      /\ DOMAIN weightMap # {}
      /\ Open # {} \/ Head(router).level > 0
      /\ info' = [info EXCEPT ![FE] = AddBE(@, ALL, a, b)]
      /\ list' = Reset(list, info'[FE], ALL)
      /\ Forward(FE, {a})
      /\ weightMap' = [weightMap EXCEPT ![a] = @ + 1]
      /\ beMap' = [beMap EXCEPT ![FE] = @ \cup {b}]
      /\ Notify(FE)
      /\ UNCHANGED <<ids, plan, target, sent, ends, owed>>

(* A new agent reads its topology and launches its back end. *)
Deploy(n) ==
  /\ Gets(n, {"CONFIG"})
  /\ Launched(n, Head(pipe[n]).group)
  /\ Forward(n, {})
  /\ UNCHANGED <<list, weightMap, ids, app, got, owed>>

(* Mutant: an agent with none stays in the map. *)
DecWeightKeep(w, a) == [w EXCEPT ![a] = @ - 1]

(* One less; an agent with none is no longer in the map. *)
DecWeight(w, a) == IF w[a] = 1 THEN Only(w, DOMAIN w \ {a}) ELSE [w EXCEPT ![a] = @ - 1]

(* Topology::removeBE.  A node that never had the back end ignores it. *)
RemoveBackEnd(n) ==
  LET b == Head(Queue(n)).group
      child == Min(QuerySuccessorId(info[n], b))
  IN  /\ Gets(n, {"BE_REMOVE"})
      /\ IF b \notin beMap[n]
         THEN Forward(n, {}) /\ UNCHANGED <<info, list, topo>>
         ELSE /\ info' = [info EXCEPT ![n] = RemoveBE(@, b)]
              /\ list' = IF n = FE THEN ResetAll(info'[FE]) ELSE list
              /\ Forward(n, {IF child = Local THEN b ELSE child})
              /\ weightMap' = IF child = Local THEN weightMap ELSE DecWeight(weightMap, child)
              /\ beMap' = [beMap EXCEPT ![n] = @ \ {b}]
      /\ Notify(n)
      /\ UNCHANGED <<ids, plan, target, sent, ends, owed>>

(* PurifierProcessor::process, at a back end. *)
Purify(b) ==
  LET m == Head(pipe[b])
  IN  /\ b \in up /\ pipe[b] # <<>>
      /\ known' = [known EXCEPT ![b] =
                     CASE m.type = "GROUP_FREE" -> @ \ {m.group}
                       [] m.type \in GroupTypes \ {"GROUP_FREE"} -> @ \cup {m.group}
                       [] OTHER -> @]
      /\ got' = [got EXCEPT ![b] = IF m.type = "COMMAND" THEN Append(@, m.id) ELSE @]
      /\ up' = IF m.type = "BE_REMOVE" THEN up \ {b} ELSE up
      /\ pipe' = [pipe EXCEPT ![b] = IF m.type = "BE_REMOVE" THEN <<>> ELSE Tail(@)]
      /\ UNCHANGED <<info, list, topo, ids, router, app, failed, owed>>

(***************************************************************************)
(* Specification.                                                          *)
(***************************************************************************)
Present == UNION {Tree[a] : a \in DOMAIN Tree}

(* The launcher has deployed the tree. *)
Init ==
  /\ info = [n \in Nodes |->
               IF n = FE THEN Put(Empty, ALL, [a \in DOMAIN Tree |-> GroupOf(Tree[a])])
               ELSE IF n \in DOMAIN Tree THEN Put(Empty, ALL, Put(Empty, Local, GroupOf(Tree[n])))
               ELSE Empty]
  /\ list = ALL :> Present
  /\ beMap = [n \in Nodes |-> IF n = FE THEN Present
                              ELSE IF n \in DOMAIN Tree THEN Tree[n] ELSE {}]
  /\ weightMap = [a \in DOMAIN Tree |-> Cardinality(Tree[a])]
  /\ nextGroup = ALL - 1
  /\ nextBE = Cardinality(Present)
  /\ nextAgent = Min(DOMAIN Tree) - 1
  /\ router = <<>>
  /\ pipe = [x \in Agents \cup BackEnds |-> <<>>]
  /\ up = Present
  /\ known = [b \in BackEnds |-> {ALL}]
  /\ failed = {}
  /\ waits = FALSE /\ plan \in Plans /\ target = Nothing /\ sent = 0
  /\ owed = [b \in BackEnds |-> <<>>]
  /\ got = [b \in BackEnds |-> <<>>]

Calls ==
  \/ \E S \in Lists : SCI_Group_create(S)
  \/ \E g \in Groups : SCI_Group_free(g)
  \/ \E g1, g2 \in Groups \cup {ALL}, op \in {"UNION", "INTERSECTION", "DIFFERENCE"} :
       SCI_Group_operate(g1, g2, op)
  \/ \E g \in Groups \cup {ALL}, S \in Lists, op \in ExtOps : SCI_Group_operate_ext(g, S, op)
  \/ \E id \in Wanted, l \in Levels : SCI_BE_add(id, l)
  \/ \E b \in BackEnds : SCI_BE_remove(b)
  \/ \E g \in Groups \cup {ALL} \cup BackEnds : BcastCheck(g)

Route(n) == ParseCmd(n) \/ Command(n) \/ LaunchBE(n) \/ Deploy(n) \/ RemoveBackEnd(n)

Next ==
  \/ Calls \/ BcastProduce
  \/ \E n \in Nodes : Route(n)
  \/ Delegate \/ LaunchAgent
  \/ \E b \in BackEnds : Purify(b)

Spec == Init /\ [][Next]_vars

(***************************************************************************)
(* Properties.                                                             *)
(***************************************************************************)
IsInfo(I) ==
  \A g \in DOMAIN I :
    /\ g \in Groups \cup {ALL}
    /\ \A c \in DOMAIN I[g] : c \in Agents \cup {Local} /\ MembersOf(I[g][c]) \subseteq BackEnds

TypeOK ==
  /\ \A n \in Nodes : IsInfo(info[n]) /\ beMap[n] \subseteq BackEnds
  /\ DOMAIN weightMap \subseteq Agents /\ \A a \in DOMAIN weightMap : weightMap[a] \in Nat \ {0}
  /\ \A b \in BackEnds : known[b] \subseteq Groups \cup {ALL}
  /\ up \subseteq BackEnds /\ failed \subseteq BackEnds
  /\ waits \in BOOLEAN /\ sent \in 0..MaxBcasts
  /\ target \in Groups \cup {ALL, Nothing} \cup BackEnds

(* The front end's groups, as an application sees them. *)
Promise == INSTANCE SciGroupSpec WITH members <- list

(* The manual pages of SCI_Group_create, SCI_Group_operate,                *)
(* SCI_Group_free, SCI_BE_add, SCI_BE_remove and SCI_Bcast: the front end, *)
(* its agents and their queues implement groups that are sets and          *)
(* broadcasts that reach the members, each once and in order.              *)
Implements == Promise!Spec

(* Unless a back end could not be launched, no router is told to free or   *)
(* combine a group it does not have, no back end to forget a group it does *)
(* not know, and no group names a child without a queue.                   *)
Defined ==
  failed = {} =>
    /\ \A n \in Nodes :
         /\ Gets(n, GroupTypes) => Sound(info[n], Head(Queue(n)))
         /\ Gets(n, {"BE_REMOVE"}) /\ Head(Queue(n)).group \in beMap[n]
              => QuerySuccessorId(info[n], Head(Queue(n)).group) # {}
         /\ \A g \in DOMAIN info[n] :
              Successors(info[n], g) \subseteq beMap[n] \cup {a \in Agents : a > nextAgent}
    /\ \A b \in up : pipe[b] # <<>> /\ Head(pipe[b]).type = "GROUP_FREE"
                       => Head(pipe[b]).group \in known[b]

(* Unless a back end could not be launched, an agent with nothing left to  *)
(* read has the same members in each group as the front end has for it,    *)
(* and a back end with nothing left to read knows the groups it is in: the *)
(* copies that the RoutingLists keep do not drift apart.                   *)
CopiesAgree ==
  failed = {} =>
    \A a \in Agents : pipe[a] = <<>> =>
      /\ \A g \in DOMAIN info[FE] : a \in DOMAIN info[FE][g] =>
           MembersOf(info[FE][g][a]) = IF g \in DOMAIN info[a] THEN BEList(info[a], g) ELSE {}
      /\ \A b \in beMap[a] : pipe[b] = <<>> =>
           known[b] = {g \in DOMAIN info[a] : b \in BEList(info[a], g)}

(* Group keeps its ranges sorted and apart, whatever is added and deleted, *)
(* and no back end is below two children of a node.                        *)
RangesNormal ==
  \A n \in Nodes : \A g \in DOMAIN info[n] : \A c, d \in DOMAIN info[n][g] :
    /\ Normal(info[n][g][c])
    /\ c # d => MembersOf(info[n][g][c]) \cap MembersOf(info[n][g][d]) = {}

(* weightMap, by which an agent is chosen for a new back end, counts the   *)
(* back ends that SCI_GROUP_ALL has for the agent.                         *)
WeightCounts ==
  \A a \in DOMAIN info[FE][ALL] \ {Local} :
    Cardinality(MembersOf(info[FE][ALL][a])) = IF a \in DOMAIN weightMap THEN weightMap[a] ELSE 0

(* SCI_Bcast does not wait, but once nothing is left to be read, all that  *)
(* the groups owed a back end has got there, also to back ends that were   *)
(* removed after the broadcast, unless a back end could not be launched.   *)
NothingLost ==
  /\ failed = {}
  /\ \A n \in Nodes : ~Gets(n, Types)
  /\ \A b \in up : pipe[b] = <<>>
  => got = owed

(* man/linux/SCI_BE_add.3: SCI_BE_add returns SCI_ERR_LAUNCH_FAILED when   *)
(* the back end cannot be launched, so a back end that the front end has   *)
(* taken in is one that could.                                             *)
LaunchReported == failed \cap beMap[FE] = {}

=============================================================================
