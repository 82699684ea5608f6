---------------------------- MODULE DaemonProofs ----------------------------
(***************************************************************************)
(* What the daemon's threads guarantee for any number of threads,          *)
(* hypervisors and requests: a broadcast reaches exactly the members it    *)
(* describes.                                                              *)
(***************************************************************************)
EXTENDS Daemon, TLAPS

(* The requests Q of a scenario are what the assumptions say. *)
Proper(Q) ==
  /\ \A r \in DOMAIN Q :
       /\ r # None /\ Q[r].members # None
       /\ Q[r].name \in Names \cup {None}
       /\ Makes(Q[r]) \/ Q[r].kind = "rmgrp" => Q[r].name \in Names
       /\ Q[r].kind = "inter" => \E h \in Q[r].members : Q[r].members = {h} /\ h \in Nat \ {0}
       /\ \A g \in Int : [group |-> g, desc |-> DescOf(Q[r])] # None
  /\ \A r, s \in DOMAIN Q : Q[r].name = Q[s].name =>
       /\ Broadcasts(Q[r]) /\ Makes(Q[s]) => Broadcasts(Q[s])
       /\ Q[r].kind = "rmgrp" /\ Makes(Q[s]) => ~Broadcasts(Q[s]) /\ Q[s].members \subseteq Hosts

Labels == {"idle", "serialize", "find", "create", "fill", "send", "free"}

Types(Q) ==
  /\ todo \subseteq DOMAIN Q
  /\ pc \in [Threads -> Labels]
  /\ cur \in [Threads -> DOMAIN Q \cup {None}]
  /\ sci \in Seq({None} \cup SUBSET Hosts) /\ Len(sci) >= 1
  /\ down \in Seq([req : DOMAIN Q, group : Int])
  /\ DOMAIN got = DOMAIN Q

(* groupMap has the numbers of groups that were created. *)
Mapped(Q) ==
  /\ DOMAIN groupMap = Names
  /\ \A n \in Names : groupMap[n] # None =>
       /\ \E r \in DOMAIN Q : groupMap[n] = [group |-> groupMap[n].group, desc |-> DescOf(Q[r])]
       /\ groupMap[n].group \in Int /\ groupMap[n].group <= Len(sci)

(* No two threads serve a request, and none serves one that waits. *)
Apart ==
  /\ \A t \in Threads : cur[t] \notin todo /\ (pc[t] = "idle" <=> cur[t] = None)
  /\ \A t, u \in Threads : cur[t] = cur[u] /\ cur[t] # None => t = u

(* The thread t is where Execute takes a request of its kind. *)
PlaceAt(Q, t) ==
  /\ pc[t] = "serialize" => Broadcasts(Q[cur[t]])
  /\ pc[t] \in {"find", "create", "fill"} => Makes(Q[cur[t]])
  /\ pc[t] = "send" => Q[cur[t]].kind \notin {"mkgrp", "rmgrp"}
  /\ pc[t] = "free" => Broadcasts(Q[cur[t]]) \/ Q[cur[t]].kind = "rmgrp"
  /\ pc[t] = "fill" => /\ mtx = t /\ groupMap[Q[cur[t]].name] # None
                       /\ groupMap[Q[cur[t]].name].group = All

(* The thread is inside groupMessage. *)
Inside(Q, t) ==
  pc[t] \in {"find", "create", "fill", "send", "free"} /\ Broadcasts(Q[cur[t]])

ForBroadcasts(Q) == {Q[r].name : r \in {s \in DOMAIN Q : Broadcasts(Q[s])}}
Removable(Q) == {Q[r].name : r \in {s \in DOMAIN Q : Q[s].kind = "rmgrp"}}

(* The mutex ser: the only name of a broadcast in groupMap is that of the  *)
(* thread inside groupMessage, after createGroup.                          *)
Vacant(Q) == ser = None => \A n \in ForBroadcasts(Q) : groupMap[n] = None
AloneAt(Q, t) ==
  Inside(Q, t) =>
    /\ ser = t
    /\ \A n \in ForBroadcasts(Q) : groupMap[n] # None =>
         n = Q[cur[t]].name /\ pc[t] \notin {"find", "create"}

(* Between createGroup and freeGroup the group of a broadcast has its      *)
(* members, and no rmgrp can free it.                                      *)
Owned(Q, n, S) ==
  /\ groupMap[n] # None /\ groupMap[n].group > All
  /\ sci[groupMap[n].group] = S
  /\ \A m \in Removable(Q) : groupMap[m] # None => groupMap[m].group # groupMap[n].group
OwnerAt(Q, t) ==
  Inside(Q, t) /\ pc[t] \in {"send", "free"} /\ Q[cur[t]].members \subseteq Hosts =>
    Owned(Q, Q[cur[t]].name, Q[cur[t]].members)

(* Messages in the router's queue: one for a request, to a group that is    *)
(* alive, which nobody has been given yet.                                 *)
Message(Q, m) ==
  /\ m.req \notin todo /\ got[m.req] = {}
  /\ \A t \in Threads : cur[t] = m.req => pc[t] = "free"
  /\ IF m.group < 0 THEN -m.group \in Hosts ELSE m.group \in DOMAIN sci /\ sci[m.group] # None
  /\ Broadcasts(Q[m.req]) /\ Q[m.req].members \subseteq Hosts =>
       m.group > 0 /\ sci[m.group] = Q[m.req].members
Messages(Q) ==
  /\ \A i \in DOMAIN down : Message(Q, down[i])
  /\ \A i, j \in DOMAIN down : down[i].req = down[j].req => i = j

(* Before its message a request is given to nobody, and after that of a     *)
(* broadcast the message is in the queue or all members have it.            *)
Queued(r) == \E i \in DOMAIN down : down[i].req = r
GivenAt(Q, t) ==
  /\ pc[t] \notin {"idle", "free"} => got[cur[t]] = {}
  /\ Inside(Q, t) /\ pc[t] = "free" /\ Q[cur[t]].members \subseteq Hosts =>
       got[cur[t]] = Q[cur[t]].members \/ Queued(cur[t])
Waiting == \A r \in todo : got[r] = {}

Served(r) == r \notin todo /\ \A t \in Threads : cur[t] # r
ReachedBy(Q, r) ==
  Broadcasts(Q[r]) /\ Q[r].members \subseteq Hosts /\ Served(r) => got[r] = Q[r].members

ThreadAt(Q, t) == PlaceAt(Q, t) /\ AloneAt(Q, t) /\ OwnerAt(Q, t) /\ GivenAt(Q, t)

InvFor(Q) ==
  /\ Types(Q) /\ Mapped(Q) /\ Apart /\ Vacant(Q) /\ Messages(Q) /\ Waiting
  /\ \A t \in Threads : ThreadAt(Q, t)
  /\ \A r \in DOMAIN Q : ReachedBy(Q, r)

DaemonInv == plan \in DOMAIN Plans /\ \E Q \in {Plans[plan].requests} : InvFor(Q)
-----------------------------------------------------------------------------
(* The threads. *)

LEMMA PlansProper ==
  ASSUME plan \in DOMAIN Plans
  PROVE  Proper(Plans[plan].requests)
<1>1. ASSUME NEW r \in DOMAIN Plans[plan].requests, NEW g \in Int
      PROVE  [group |-> g, desc |-> DescOf(Plans[plan].requests[r])] # None
  <2>1. PICK d : d = DescOf(Plans[plan].requests[r])
    BY Zenon
  <2>2. None \notin [group : Int, desc : {d}]
    BY <2>1, RequestsAssumption, Zenon
  <2>3. [group |-> g, desc |-> d] \in [group : Int, desc : {d}]
    OBVIOUS
  <2> QED
    BY <2>1, <2>2, <2>3, Zenon
<1> QED
  BY <1>1, RequestsAssumption, NamesAssumption, Zenon DEF Proper

(* What a step changes of one thread. *)
Moves(t, l, r) == pc' = [pc EXCEPT ![t] = l] /\ cur' = [cur EXCEPT ![t] = r]
Rests(u) == pc'[u] = pc[u] /\ cur'[u] = cur[u]

LEMMA MoveFacts ==
  ASSUME NEW Q, Types(Q), NEW t \in Threads, NEW l \in Labels, NEW r \in DOMAIN Q \cup {None},
         Moves(t, l, r)
  PROVE  /\ pc' \in [Threads -> Labels] /\ cur' \in [Threads -> DOMAIN Q \cup {None}]
         /\ pc'[t] = l /\ cur'[t] = r
         /\ \A u \in Threads : u # t => Rests(u)
<1>1. pc \in [Threads -> Labels] /\ cur \in [Threads -> DOMAIN Q \cup {None}]
  BY Zenon DEF Types
<1>2. pc' = [pc EXCEPT ![t] = l] /\ cur' = [cur EXCEPT ![t] = r]
  BY Zenon DEF Moves
<1>3. pc' \in [Threads -> Labels] /\ pc'[t] = l /\ \A u \in Threads : u # t => pc'[u] = pc[u]
  BY <1>1, <1>2, Zenon
<1>4. /\ cur' \in [Threads -> DOMAIN Q \cup {None}] /\ cur'[t] = r
      /\ \A u \in Threads : u # t => cur'[u] = cur[u]
  BY <1>1, <1>2, Zenon
<1> QED
  BY <1>3, <1>4, Zenon DEF Rests

(* A thread that rests is where it was, if what it relies on is unchanged. *)
LEMMA PlaceFrame ==
  ASSUME NEW Q, NEW u, Rests(u), PlaceAt(Q, u), UNCHANGED <<mtx, groupMap>>
  PROVE  PlaceAt(Q, u)'
<1>1. PICK l, r : l = pc[u] /\ r = cur[u]
  BY Zenon
<1>2. l = pc'[u] /\ r = cur'[u]
  BY <1>1, Zenon DEF Rests
<1> QED
  BY <1>1, <1>2 DEF PlaceAt

LEMMA InsideFrame ==
  ASSUME NEW Q, NEW u, Rests(u)
  PROVE  Inside(Q, u)' <=> Inside(Q, u)
BY Zenon DEF Inside, Rests

LEMMA AloneFrame ==
  ASSUME NEW Q, NEW u, Rests(u), AloneAt(Q, u), UNCHANGED <<ser, groupMap>>
  PROVE  AloneAt(Q, u)'
BY InsideFrame, Zenon DEF AloneAt, Rests

LEMMA OwnerFrame ==
  ASSUME NEW Q, NEW u, Rests(u), OwnerAt(Q, u), UNCHANGED <<groupMap, sci>>
  PROVE  OwnerAt(Q, u)'
<1>1. PICK l, r : l = pc[u] /\ r = cur[u]
  BY Zenon
<1>2. l = pc'[u] /\ r = cur'[u]
  BY <1>1, Zenon DEF Rests
<1>3. \A n, S : Owned(Q, n, S)' <=> Owned(Q, n, S)
  BY DEF Owned
<1> QED
  BY <1>1, <1>2, <1>3, InsideFrame, Zenon DEF OwnerAt

LEMMA GivenFrame ==
  ASSUME NEW Q, NEW u, Rests(u), GivenAt(Q, u), got'[cur[u]] = got[cur[u]],
         Queued(cur[u]) => Queued(cur[u])'
  PROVE  GivenAt(Q, u)'
<1>1. PICK l, r : l = pc[u] /\ r = cur[u]
  BY Zenon
<1>2. l = pc'[u] /\ r = cur'[u]
  BY <1>1, Zenon DEF Rests
<1> QED
  BY <1>1, <1>2, InsideFrame, Zenon DEF GivenAt

LEMMA MessageFrame ==
  ASSUME NEW Q, NEW m, Message(Q, m), m.req \notin todo', got'[m.req] = got[m.req], sci' = sci,
         \A t \in Threads : cur'[t] = m.req => pc'[t] = "free"
  PROVE  Message(Q, m)'
BY Zenon DEF Message

(* No message and nothing given changes. *)
LEMMA StillFrame ==
  ASSUME NEW Q, NEW u, Rests(u), ThreadAt(Q, u), UNCHANGED <<mtx, ser, groupMap, sci, down, got>>
  PROVE  ThreadAt(Q, u)'
<1>1. got'[cur[u]] = got[cur[u]] /\ (Queued(cur[u]) => Queued(cur[u])')
  BY Zenon DEF Rests, Queued
<1> QED
  BY <1>1, PlaceFrame, AloneFrame, OwnerFrame, GivenFrame, Zenon DEF ThreadAt

LEMMA ElementIn ==
  ASSUME NEW S, NEW s \in Seq(S), NEW i \in DOMAIN s
  PROVE  s[i] \in S
<1>1. s \in [1..Len(s) -> S] /\ DOMAIN s = 1..Len(s)
  OBVIOUS
<1> QED
  BY <1>1, Zenon

(* A message is not for a request that a thread reads or drops. *)
LEMMA MessagesFrame ==
  ASSUME NEW Q, Proper(Q), Types(Q), Messages(Q), UNCHANGED <<down, got>>, todo' \subseteq todo,
         sci' = sci \/ down = <<>>,
         \A u \in Threads :
           \/ cur'[u] = cur[u] /\ (pc[u] = "free" => pc'[u] = "free")
           \/ cur'[u] = None \/ cur'[u] \in todo
  PROVE  Messages(Q)'
<1>1. ASSUME NEW i \in DOMAIN down
      PROVE  Message(Q, down[i])'
  <2>1. PICK k : k = down[i]
    BY Zenon
  <2>2. Message(Q, k) /\ k.req \in DOMAIN Q
    <3>1. down \in Seq([req : DOMAIN Q, group : Int])
      BY Zenon DEF Types
    <3>2. down[i] \in [req : DOMAIN Q, group : Int]
      BY <1>1, <3>1, ElementIn, Zenon
    <3> QED
      BY <1>1, <2>1, <3>2, Zenon DEF Messages
  <2>3. k.req # None /\ k.req \notin todo /\ k.req \notin todo'
    BY <2>2, Zenon DEF Message, Proper
  <2>4. \A u \in Threads : cur'[u] = k.req => pc'[u] = "free"
    BY <2>2, <2>3, Zenon DEF Message
  <2>5. sci' = sci
    <3>1. down # <<>>
      BY <1>1
    <3> QED
      BY <3>1, Zenon
  <2>6. Message(Q, k)'
    BY <2>2, <2>3, <2>4, <2>5, MessageFrame, Zenon
  <2>7. down'[i] = k
    BY <2>1, Zenon
  <2> QED
    BY <2>6, <2>7 DEF Message
<1> QED
  BY <1>1, Zenon DEF Messages

LEMMA ReachedFrame ==
  ASSUME NEW Q, NEW s \in DOMAIN Q, ReachedBy(Q, s), got'[s] = got[s], Served(s)' => Served(s)
  PROVE  ReachedBy(Q, s)'
BY Zenon DEF ReachedBy

(* Execute reads a request. *)
LEMMA ExecuteKeeps ==
  ASSUME NEW Q, Q = Plans[plan].requests, Proper(Q), InvFor(Q), NEW t \in Threads, Execute(t)
  PROVE  plan' = plan /\ InvFor(Q)'
<1> DEFINE place(r) == CASE Q[r].kind = "toall" /\ Q[r].members # {} -> "serialize"
                         [] Q[r].kind = "select" /\ Q[r].members # {} -> "find"
                         [] Q[r].kind = "mkgrp" -> "find"
                         [] Q[r].kind = "rmgrp" -> "free"
                         [] OTHER -> "send"
<1>1. PICK r \in todo : todo' = todo \ {r} /\ Moves(t, place(r), r)
  BY Zenon DEF Execute, Moves, Goto, Req, Described
<1>2. /\ plan' = plan /\ UNCHANGED <<groupMap, mtx, ser, sci, down, got>> /\ pc[t] = "idle"
  BY Zenon DEF Execute, net, filter
<1>3. PICK l : l = place(r)
  BY ZenonT(60)
<1>4. /\ l \in {"serialize", "find", "send", "free"}
      /\ l = "serialize" => Broadcasts(Q[r])
      /\ l = "find" => Makes(Q[r]) /\ ~Broadcasts(Q[r])
      /\ l = "send" => Q[r].kind \notin {"mkgrp", "rmgrp"} /\ ~Broadcasts(Q[r])
      /\ l = "free" => Q[r].kind = "rmgrp" /\ ~Broadcasts(Q[r])
  BY <1>3 DEF Makes, Broadcasts
<1>5. Moves(t, l, r)
  BY <1>1, <1>3, Zenon
<1> HIDE DEF place
<1>6. /\ Types(Q) /\ Mapped(Q) /\ Apart /\ Vacant(Q) /\ Messages(Q) /\ Waiting
      /\ \A u \in Threads : ThreadAt(Q, u)
      /\ \A s \in DOMAIN Q : ReachedBy(Q, s)
  BY Zenon DEF InvFor
<1>7. r \in DOMAIN Q /\ r # None /\ cur[t] = None /\ l \in Labels
  BY <1>1, <1>2, <1>4, <1>6, Zenon DEF Types, Proper, Apart, Labels
<1>8. /\ pc' \in [Threads -> Labels] /\ cur' \in [Threads -> DOMAIN Q \cup {None}]
      /\ pc'[t] = l /\ cur'[t] = r
      /\ \A u \in Threads : u # t => Rests(u)
  BY <1>5, <1>6, <1>7, MoveFacts
<1>10. Types(Q)'
  BY <1>1, <1>2, <1>6, <1>8, Zenon DEF Types
<1>11. Mapped(Q)' /\ Vacant(Q)'
  BY <1>2, <1>6, Zenon DEF Mapped, Vacant
<1>12. Apart'
  BY <1>1, <1>2, <1>4, <1>6, <1>7, <1>8, ZenonT(60) DEF Apart, Rests
<1>13. ThreadAt(Q, t)'
  <2>1. l # "create" /\ l # "fill" /\ l # "idle" /\ got'[r] = {}
    BY <1>1, <1>2, <1>4, <1>6, Zenon DEF Waiting
  <2>2. PlaceAt(Q, t)'
    BY <1>4, <1>8, <2>1, Zenon DEF PlaceAt
  <2>3. ~ Inside(Q, t)'
    BY <1>4, <1>8, Zenon DEF Inside
  <2> QED
    BY <1>8, <2>1, <2>2, <2>3, Zenon DEF ThreadAt, AloneAt, OwnerAt, GivenAt
<1>14. \A u \in Threads : ThreadAt(Q, u)'
  BY <1>2, <1>6, <1>8, <1>13, StillFrame, Zenon
<1>15. Messages(Q)'
  BY <1>1, <1>2, <1>6, <1>8, MessagesFrame, Zenon DEF Rests
<1>16. Waiting'
  BY <1>1, <1>2, <1>6, Zenon DEF Waiting
<1>17. \A s \in DOMAIN Q : ReachedBy(Q, s)'
  <2> TAKE s \in DOMAIN Q
  <2>1. s # None /\ got'[s] = got[s]
    BY <1>2, Zenon DEF Proper
  <2>2. Served(s)' => Served(s)
    BY <1>1, <1>7, <1>8, <2>1, Zenon DEF Served, Rests
  <2> QED
    BY <1>6, <2>1, <2>2, ReachedFrame, Zenon
<1> QED
  BY <1>2, <1>10, <1>11, <1>12, <1>14, <1>15, <1>16, <1>17, Zenon DEF InvFor

(* A thread goes on with its request, or answers it. *)
Goes(Q, t, l, r) ==
  /\ pc' \in [Threads -> Labels] /\ cur' \in [Threads -> DOMAIN Q \cup {None}]
  /\ pc'[t] = l /\ cur'[t] = r
  /\ \A u \in Threads : u # t => Rests(u)

LEMMA GotoGoes ==
  ASSUME NEW Q, Types(Q), NEW t \in Threads, NEW l \in Labels, Goto(t, l), UNCHANGED cur
  PROVE  Goes(Q, t, l, cur[t])
<1>1. pc \in [Threads -> Labels] /\ cur \in [Threads -> DOMAIN Q \cup {None}]
  BY Zenon DEF Types
<1>2. pc' = [pc EXCEPT ![t] = l]
  BY Zenon DEF Goto
<1>3. pc' \in [Threads -> Labels] /\ pc'[t] = l /\ \A u \in Threads : u # t => pc'[u] = pc[u]
  BY <1>1, <1>2, Zenon
<1> QED
  BY <1>1, <1>3, Zenon DEF Goes, Rests

LEMMA ReplyGoes ==
  ASSUME NEW Q, Types(Q), NEW t \in Threads, Reply(t)
  PROVE  Goes(Q, t, "idle", None)
<1>1. Moves(t, "idle", None)
  BY Zenon DEF Reply, Goto, Moves
<1>2. "idle" \in Labels /\ None \in DOMAIN Q \cup {None}
  BY Zenon DEF Labels
<1> QED
  BY <1>1, <1>2, MoveFacts, Zenon DEF Goes

(* The request of the thread: it has one, and keeps it or answers it. *)
Turns(Q, t, l) == Goes(Q, t, l, IF l = "idle" THEN None ELSE cur[t])

LEMMA TurnApart ==
  ASSUME NEW Q, Apart, NEW t \in Threads, NEW l, pc[t] # "idle", Turns(Q, t, l), UNCHANGED todo,
         None \notin todo
  PROVE  Apart'
<1>1. PICK r : r = IF l = "idle" THEN None ELSE cur[t]
  BY Zenon
<1>2. cur'[t] = r /\ pc'[t] = l /\ \A u \in Threads : u # t => Rests(u)
  BY <1>1, Zenon DEF Turns, Goes
<1>3. cur[t] # None /\ cur[t] \notin todo
  BY Zenon DEF Apart
<1>4. r \notin todo /\ (l = "idle" <=> r = None) /\ (r # None => r = cur[t])
  BY <1>1, <1>3, Zenon
<1>5. \A u \in Threads : cur'[u] \notin todo' /\ (pc'[u] = "idle" <=> cur'[u] = None)
  BY <1>2, <1>4, Zenon DEF Apart, Rests
<1>6. ASSUME NEW u \in Threads, NEW v \in Threads, cur'[u] = cur'[v], cur'[u] # None
      PROVE  u = v
  <2>1. \A w \in Threads : cur'[w] # None => cur'[w] = cur[w]
    BY <1>2, <1>4, Zenon DEF Rests
  <2>2. cur[u] = cur[v] /\ cur[u] # None
    BY <1>6, <2>1, Zenon
  <2> QED
    BY <2>2, Zenon DEF Apart
<1> QED
  BY <1>5, <1>6, Zenon DEF Apart

LEMMA TurnReached ==
  ASSUME NEW Q, Proper(Q), \A s \in DOMAIN Q : ReachedBy(Q, s), NEW t \in Threads, NEW l,
         Turns(Q, t, l), UNCHANGED <<todo, got>>,
         Broadcasts(Q[cur[t]]) /\ Q[cur[t]].members \subseteq Hosts /\ l = "idle" =>
           got[cur[t]] = Q[cur[t]].members
  PROVE  \A s \in DOMAIN Q : ReachedBy(Q, s)'
<1> TAKE s \in DOMAIN Q
<1>1. PICK r : r = IF l = "idle" THEN None ELSE cur[t]
  BY Zenon
<1>2. cur'[t] = r /\ \A u \in Threads : u # t => cur'[u] = cur[u]
  BY <1>1, Zenon DEF Turns, Goes, Rests
<1>3. s # None /\ ReachedBy(Q, s) /\ got'[s] = got[s]
  BY Zenon DEF Proper
<1>4. CASE s = cur[t] /\ l = "idle"
  BY <1>3, <1>4, Zenon DEF ReachedBy
<1>5. CASE ~(s = cur[t] /\ l = "idle")
  <2>1. Served(s)' => Served(s)
    BY <1>1, <1>2, <1>5, Zenon DEF Served
  <2> QED
    BY <1>3, <2>1, ReachedFrame, Zenon
<1> QED
  BY <1>4, <1>5, Zenon

(* The steps of a thread that give nobody anything and leave the queue. *)
LEMMA TurnKeeps ==
  ASSUME NEW Q, Proper(Q), InvFor(Q), NEW t \in Threads, NEW l, pc[t] # "idle",
         pc[t] # "free" \/ l = "idle",
         Turns(Q, t, l), UNCHANGED <<todo, got, down>>, sci' = sci \/ down = <<>>,
         sci' \in Seq({None} \cup SUBSET Hosts) /\ Len(sci') >= 1,
         Broadcasts(Q[cur[t]]) /\ Q[cur[t]].members \subseteq Hosts /\ l = "idle" =>
           got[cur[t]] = Q[cur[t]].members
  PROVE  /\ Types(Q)' /\ Apart' /\ Messages(Q)' /\ Waiting'
         /\ \A s \in DOMAIN Q : ReachedBy(Q, s)'
         /\ \A u \in Threads : u # t => Rests(u) /\ GivenAt(Q, u)'
         /\ l \notin {"idle", "free"} => GivenAt(Q, t)'
<1>1. /\ Types(Q) /\ Apart /\ Messages(Q) /\ Waiting
      /\ \A u \in Threads : GivenAt(Q, u)
      /\ \A s \in DOMAIN Q : ReachedBy(Q, s)
  BY Zenon DEF InvFor, ThreadAt
<1>2. Goes(Q, t, l, IF l = "idle" THEN None ELSE cur[t])
  BY Zenon DEF Turns
<1>3. Types(Q)'
  BY <1>1, <1>2, Zenon DEF Types, Goes
<1>4. Apart'
  <2>1. None \notin todo
    BY <1>1, Zenon DEF Proper, Types
  <2> QED
    BY <1>1, <2>1, TurnApart, Zenon
<1>5. Messages(Q)'
  <2>1. \A u \in Threads : \/ cur'[u] = cur[u] /\ (pc[u] = "free" => pc'[u] = "free")
                           \/ cur'[u] = None \/ cur'[u] \in todo
    BY <1>2, Zenon DEF Goes, Rests
  <2> QED
    BY <1>1, <2>1, MessagesFrame, Zenon
<1>6. Waiting'
  BY <1>1, Zenon DEF Waiting
<1>7. \A s \in DOMAIN Q : ReachedBy(Q, s)'
  BY <1>1, TurnReached, Zenon
<1>8. ASSUME NEW u \in Threads, u # t
      PROVE  Rests(u) /\ GivenAt(Q, u)'
  <2>1. Rests(u)
    BY <1>2, <1>8, Zenon DEF Goes
  <2>2. got'[cur[u]] = got[cur[u]] /\ (Queued(cur[u]) => Queued(cur[u])')
    BY <2>1, Zenon DEF Queued, Rests
  <2> QED
    BY <1>1, <2>1, <2>2, GivenFrame, Zenon
<1>9. ASSUME l \notin {"idle", "free"}
      PROVE  GivenAt(Q, t)'
  <2>1. pc'[t] = l /\ cur'[t] = cur[t] /\ pc[t] \notin {"idle", "free"}
    BY <1>2, <1>9, Zenon DEF Goes
  <2>2. got'[cur'[t]] = {}
    BY <1>1, <2>1, Zenon DEF GivenAt
  <2> QED
    BY <1>9, <2>1, <2>2, Zenon DEF GivenAt
<1> QED
  BY <1>3, <1>4, <1>5, <1>6, <1>7, <1>8, <1>9, Zenon

LEMMA Parts ==
  ASSUME NEW Q, InvFor(Q)
  PROVE  /\ Types(Q) /\ Mapped(Q) /\ Apart /\ Vacant(Q) /\ Messages(Q) /\ Waiting
         /\ \A t \in Threads : PlaceAt(Q, t) /\ AloneAt(Q, t) /\ OwnerAt(Q, t) /\ GivenAt(Q, t)
         /\ \A r \in DOMAIN Q : ReachedBy(Q, r)
BY Zenon DEF InvFor, ThreadAt

LEMMA Together ==
  ASSUME NEW Q, Types(Q)', Mapped(Q)', Apart', Vacant(Q)', Messages(Q)', Waiting',
         \A t \in Threads : PlaceAt(Q, t)' /\ AloneAt(Q, t)' /\ OwnerAt(Q, t)' /\ GivenAt(Q, t)',
         \A r \in DOMAIN Q : ReachedBy(Q, r)'
  PROVE  InvFor(Q)'
BY Zenon DEF InvFor, ThreadAt

(* A thread without a request. *)
LEMMA IdleKeeps ==
  ASSUME NEW Q, NEW t, pc'[t] = "idle"
  PROVE  PlaceAt(Q, t)' /\ AloneAt(Q, t)' /\ OwnerAt(Q, t)' /\ GivenAt(Q, t)'
<1>1. ~ Inside(Q, t)'
  BY Zenon DEF Inside
<1> QED
  BY <1>1, Zenon DEF PlaceAt, AloneAt, OwnerAt, GivenAt

LEMMA KindFacts ==
  ASSUME NEW q
  PROVE  /\ Broadcasts(q) => Makes(q) /\ q.kind = "toall"
         /\ Makes(q) => q.kind # "rmgrp" /\ (q.kind = "mkgrp" \/ q.kind = "toall" \/ q.kind = "select")
BY DEF Broadcasts, Makes

(* The request of a busy thread and the name of its group. *)
LEMMA BusyFacts ==
  ASSUME NEW Q, Proper(Q), Types(Q), Apart, NEW t \in Threads, PlaceAt(Q, t), pc[t] # "idle"
  PROVE  /\ cur[t] \in DOMAIN Q /\ cur[t] # None
         /\ pc[t] \in {"find", "create", "fill", "free"} => Q[cur[t]].name \in Names
         /\ Broadcasts(Q[cur[t]]) => Q[cur[t]].name \in ForBroadcasts(Q) /\ Q[cur[t]].name \in Names
<1>1. cur[t] \in DOMAIN Q \cup {None} /\ cur[t] # None
  BY Zenon DEF Types, Apart
<1>2. cur[t] \in DOMAIN Q
  BY <1>1, Zenon
<1>3. Makes(Q[cur[t]]) \/ Q[cur[t]].kind = "rmgrp" => Q[cur[t]].name \in Names
  BY <1>2, Zenon DEF Proper
<1>4. Broadcasts(Q[cur[t]]) => Q[cur[t]].name \in ForBroadcasts(Q)
  BY <1>2, Zenon DEF ForBroadcasts
<1> QED
  BY <1>1, <1>2, <1>3, <1>4, KindFacts, Zenon DEF PlaceAt

(* The name of a broadcast belongs to the thread inside groupMessage. *)
LEMMA NameOfBroadcast ==
  ASSUME NEW Q, Proper(Q), Types(Q), Apart, NEW t \in Threads, PlaceAt(Q, t),
         pc[t] \in {"find", "create", "fill", "free"}, Q[cur[t]].name \in ForBroadcasts(Q)
  PROVE  Inside(Q, t)
<1>1. cur[t] \in DOMAIN Q
  BY BusyFacts, Zenon
<1>2. PICK s \in DOMAIN Q : Broadcasts(Q[s]) /\ Q[cur[t]].name = Q[s].name
  BY Zenon DEF ForBroadcasts
<1>3. Makes(Q[s])
  BY <1>2, KindFacts, Zenon
<1>4. Q[cur[t]].kind # "rmgrp"
  BY <1>1, <1>2, <1>3, Zenon DEF Proper
<1>5. Broadcasts(Q[cur[t]]) \/ Makes(Q[cur[t]])
  BY <1>4, Zenon DEF PlaceAt
<1>6. Broadcasts(Q[cur[t]])
  BY <1>1, <1>2, <1>5, Zenon DEF Proper
<1> QED
  BY <1>6, Zenon DEF Inside

LEMMA NamesDiffer ==
  ASSUME NEW Q, Proper(Q), InvFor(Q), NEW t \in Threads, NEW u \in Threads, u # t, Inside(Q, u),
         pc[t] \in {"find", "create", "fill", "free"}
  PROVE  Q[cur[t]].name \notin ForBroadcasts(Q)
<1>1. Types(Q) /\ Apart /\ PlaceAt(Q, t) /\ AloneAt(Q, t) /\ AloneAt(Q, u)
  BY Parts, Zenon
<1>2. ser = u
  BY <1>1, Zenon DEF AloneAt
<1>3. ~ Inside(Q, t)
  BY <1>1, <1>2, Zenon DEF AloneAt
<1> QED
  BY <1>1, <1>3, NameOfBroadcast, Zenon

(* groupMessage takes the mutex ser. *)
LEMMA SerializeKeeps ==
  ASSUME NEW Q, Proper(Q), InvFor(Q), NEW t \in Threads, Serialize(t)
  PROVE  InvFor(Q)'
<1>1. /\ pc[t] = "serialize" /\ ser = None /\ ser' = t /\ Goto(t, "find") /\ UNCHANGED cur
      /\ UNCHANGED <<todo, groupMap, mtx, sci, down, got>>
  BY Zenon DEF Serialize, filter
<1>2. /\ Types(Q) /\ Mapped(Q) /\ Apart /\ Vacant(Q) /\ Messages(Q) /\ Waiting
      /\ \A u \in Threads : PlaceAt(Q, u) /\ AloneAt(Q, u) /\ OwnerAt(Q, u) /\ GivenAt(Q, u)
      /\ \A r \in DOMAIN Q : ReachedBy(Q, r)
  BY Parts, Zenon
<1>3. Goes(Q, t, "find", cur[t]) /\ Turns(Q, t, "find")
  BY <1>1, <1>2, GotoGoes, Zenon DEF Labels, Turns
<1>4. sci' \in Seq({None} \cup SUBSET Hosts) /\ Len(sci') >= 1
  BY <1>1, <1>2, Zenon DEF Types
<1>5. /\ Types(Q)' /\ Apart' /\ Messages(Q)' /\ Waiting'
      /\ \A s \in DOMAIN Q : ReachedBy(Q, s)'
      /\ \A u \in Threads : u # t => Rests(u) /\ GivenAt(Q, u)'
      /\ GivenAt(Q, t)'
  <2>1. pc[t] # "idle" /\ pc[t] # "free" /\ "find" # "idle" /\ "find" \notin {"idle", "free"}
    BY <1>1, Zenon
  <2> QED
    BY <1>1, <1>3, <1>4, <2>1, TurnKeeps, Zenon
<1>6. pc'[t] = "find" /\ cur'[t] = cur[t] /\ None \notin Threads
  BY <1>3, HostsAssumption, Zenon DEF Goes
<1>7. Mapped(Q)' /\ Vacant(Q)'
  BY <1>1, <1>2, <1>6, Zenon DEF Mapped, Vacant
<1>8. PlaceAt(Q, t)' /\ AloneAt(Q, t)' /\ OwnerAt(Q, t)'
  <2>1. Broadcasts(Q[cur[t]]) /\ Makes(Q[cur[t]])
    BY <1>1, <1>2, KindFacts, Zenon DEF PlaceAt
  <2>2. PlaceAt(Q, t)'
    BY <1>6, <2>1, Zenon DEF PlaceAt
  <2>3. AloneAt(Q, t)'
    BY <1>1, <1>2, Zenon DEF AloneAt, Vacant
  <2> QED
    BY <1>6, <2>2, <2>3, Zenon DEF OwnerAt
<1>9. ASSUME NEW u \in Threads, u # t
      PROVE  PlaceAt(Q, u)' /\ AloneAt(Q, u)' /\ OwnerAt(Q, u)'
  <2>1. Rests(u) /\ ~ Inside(Q, u)
    BY <1>1, <1>2, <1>5, <1>6, <1>9, Zenon DEF AloneAt
  <2>2. ~ Inside(Q, u)'
    BY <2>1, InsideFrame, Zenon
  <2>3. PlaceAt(Q, u)'
    BY <1>1, <1>2, <2>1, PlaceFrame, Zenon
  <2> QED
    BY <2>2, <2>3, Zenon DEF AloneAt, OwnerAt
<1>10. \A u \in Threads : PlaceAt(Q, u)' /\ AloneAt(Q, u)' /\ OwnerAt(Q, u)' /\ GivenAt(Q, u)'
  BY <1>5, <1>8, <1>9, Zenon
<1> QED
  BY <1>5, <1>7, <1>10, Together, Zenon

(* createGroup looks for the description. *)
LEMMA FindKeeps ==
  ASSUME NEW Q, Q = Plans[plan].requests, Proper(Q), InvFor(Q), NEW t \in Threads, Find(t)
  PROVE  InvFor(Q)'
<1> DEFINE n == Q[cur[t]].name
<1>1. /\ pc[t] = "find"
      /\ UNCHANGED <<todo, groupMap, mtx, ser, sci, down, got>>
  BY Zenon DEF Find, net, filter
<1>2. /\ Types(Q) /\ Mapped(Q) /\ Apart /\ Vacant(Q) /\ Messages(Q) /\ Waiting
      /\ \A u \in Threads : PlaceAt(Q, u) /\ AloneAt(Q, u) /\ OwnerAt(Q, u) /\ GivenAt(Q, u)
      /\ \A r \in DOMAIN Q : ReachedBy(Q, r)
  BY Parts, Zenon
<1>3. PICK l \in {"create", "send", "idle"} :
        /\ Turns(Q, t, l)
        /\ l = "send" => groupMap[n] # None /\ Q[cur[t]].kind # "mkgrp"
        /\ l = "idle" => Q[cur[t]].kind = "mkgrp"
  <2>1. \/ Goto(t, "create") /\ UNCHANGED cur
        \/ Reply(t) /\ Q[cur[t]].kind = "mkgrp"
        \/ Goto(t, "send") /\ UNCHANGED cur /\ groupMap[n] # None /\ Q[cur[t]].kind # "mkgrp"
    BY Zenon DEF Find, Req
  <2>2. CASE Goto(t, "create") /\ UNCHANGED cur
    <3>1. Goes(Q, t, "create", cur[t])
      BY <1>2, <2>2, GotoGoes, Zenon DEF Labels
    <3> QED
      BY <3>1, Zenon DEF Turns
  <2>3. CASE Reply(t) /\ Q[cur[t]].kind = "mkgrp"
    <3>1. Goes(Q, t, "idle", None)
      BY <1>2, <2>3, ReplyGoes, Zenon
    <3> QED
      BY <2>3, <3>1, Zenon DEF Turns
  <2>4. CASE Goto(t, "send") /\ UNCHANGED cur /\ groupMap[n] # None /\ Q[cur[t]].kind # "mkgrp"
    <3>1. Goes(Q, t, "send", cur[t])
      BY <1>2, <2>4, GotoGoes, Zenon DEF Labels
    <3> QED
      BY <2>4, <3>1, Zenon DEF Turns
  <2> QED
    BY <2>1, <2>2, <2>3, <2>4, Zenon
<1>4. sci' \in Seq({None} \cup SUBSET Hosts) /\ Len(sci') >= 1
  BY <1>1, <1>2, Zenon DEF Types
<1>5. Makes(Q[cur[t]]) /\ cur[t] \in DOMAIN Q /\ Q[cur[t]].kind # "rmgrp"
  BY <1>1, <1>2, BusyFacts, KindFacts, Zenon DEF PlaceAt
<1>6. Broadcasts(Q[cur[t]]) => l = "create"
  <2> HAVE Broadcasts(Q[cur[t]])
  <2>1. Inside(Q, t) /\ n \in ForBroadcasts(Q) /\ Q[cur[t]].kind = "toall"
    BY <1>1, <1>5, KindFacts, Zenon DEF Inside, ForBroadcasts
  <2>2. groupMap[n] = None
    BY <1>1, <1>2, <2>1, Zenon DEF AloneAt
  <2>3. "toall" # "mkgrp"
    OBVIOUS
  <2> QED
    BY <1>3, <2>1, <2>2, <2>3, Zenon
<1>7. /\ Types(Q)' /\ Apart' /\ Messages(Q)' /\ Waiting'
      /\ \A s \in DOMAIN Q : ReachedBy(Q, s)'
      /\ \A u \in Threads : u # t => Rests(u) /\ GivenAt(Q, u)'
      /\ l \notin {"idle", "free"} => GivenAt(Q, t)'
  <2>1. pc[t] # "idle" /\ pc[t] # "free" /\ (l = "idle" => ~ Broadcasts(Q[cur[t]]))
    BY <1>1, <1>6, Zenon
  <2> QED
    BY <1>1, <1>3, <1>4, <2>1, TurnKeeps, Zenon
<1>8. Mapped(Q)' /\ Vacant(Q)'
  BY <1>1, <1>2, Zenon DEF Mapped, Vacant
<1>9. PlaceAt(Q, t)' /\ AloneAt(Q, t)' /\ OwnerAt(Q, t)' /\ GivenAt(Q, t)'
  <2>1. CASE l = "idle"
    <3>1. pc'[t] = "idle"
      BY <1>3, <2>1, Zenon DEF Turns, Goes
    <3> QED
      BY <3>1, IdleKeeps, Zenon
  <2>2. CASE l # "idle"
    <3>1. pc'[t] = l /\ cur'[t] = cur[t] /\ l \in {"create", "send"}
      BY <1>3, <2>2, Zenon DEF Turns, Goes
    <3>2. PlaceAt(Q, t)'
      BY <1>3, <1>5, <3>1, Zenon DEF PlaceAt
    <3>3. CASE Broadcasts(Q[cur[t]])
      <4>1. Inside(Q, t) /\ pc'[t] = "create"
        BY <1>1, <1>6, <3>1, <3>3, Zenon DEF Inside
      <4>2. ser' = t /\ \A m \in ForBroadcasts(Q) : groupMap'[m] = None
        BY <1>1, <1>2, <4>1, Zenon DEF AloneAt
      <4> QED
        BY <1>7, <3>1, <3>2, <4>1, <4>2, Zenon DEF AloneAt, OwnerAt
    <3>4. CASE ~ Broadcasts(Q[cur[t]])
      <4>1. ~ Inside(Q, t)'
        BY <3>1, <3>4, Zenon DEF Inside
      <4> QED
        BY <1>7, <3>1, <3>2, <4>1, Zenon DEF AloneAt, OwnerAt
    <3> QED
      BY <3>3, <3>4, Zenon
  <2> QED
    BY <2>1, <2>2, Zenon
<1>10. \A u \in Threads : u # t => PlaceAt(Q, u)' /\ AloneAt(Q, u)' /\ OwnerAt(Q, u)'
  BY <1>1, <1>2, <1>7, PlaceFrame, AloneFrame, OwnerFrame, Zenon
<1>11. \A u \in Threads : PlaceAt(Q, u)' /\ AloneAt(Q, u)' /\ OwnerAt(Q, u)' /\ GivenAt(Q, u)'
  BY <1>7, <1>9, <1>10, Zenon
<1> QED
  BY <1>7, <1>8, <1>11, Together, Zenon

(* createGroup writes one name of groupMap. *)
LEMMA NamesIn ==
  ASSUME NEW Q, Proper(Q)
  PROVE  /\ ForBroadcasts(Q) \subseteq Names /\ Removable(Q) \subseteq Names
         /\ \A n \in Removable(Q) : n \notin ForBroadcasts(Q)
<1>1. \A r \in DOMAIN Q : Broadcasts(Q[r]) => Makes(Q[r])
  BY KindFacts, Zenon
<1>2. ForBroadcasts(Q) \subseteq Names
  BY <1>1, Zenon DEF ForBroadcasts, Proper
<1>3. Removable(Q) \subseteq Names
  BY Zenon DEF Removable, Proper
<1>4. ASSUME NEW n \in Removable(Q), n \in ForBroadcasts(Q)
      PROVE  FALSE
  <2>1. PICK r \in DOMAIN Q : Q[r].kind = "rmgrp" /\ n = Q[r].name
    BY <1>4, Zenon DEF Removable
  <2>2. PICK s \in DOMAIN Q : Broadcasts(Q[s]) /\ n = Q[s].name
    BY <1>4, Zenon DEF ForBroadcasts
  <2> QED
    BY <1>1, <2>1, <2>2, Zenon DEF Proper
<1> QED
  BY <1>2, <1>3, <1>4, Zenon

LEMMA PlaceRest ==
  ASSUME NEW Q, NEW u, Rests(u), PlaceAt(Q, u), pc[u] # "fill"
  PROVE  PlaceAt(Q, u)'
<1>1. PICK l, r : l = pc[u] /\ r = cur[u]
  BY Zenon
<1>2. l = pc'[u] /\ r = cur'[u]
  BY <1>1, Zenon DEF Rests
<1> QED
  BY <1>1, <1>2 DEF PlaceAt

LEMMA NameKeeps ==
  ASSUME NEW Q, Proper(Q), InvFor(Q), NEW t \in Threads, pc[t] \in {"create", "fill"},
         UNCHANGED ser, \A u \in Threads : u # t => Rests(u),
         \A n \in Names : n # Q[cur[t]].name => groupMap'[n] = groupMap[n],
         Inside(Q, t)' => Inside(Q, t) /\ cur'[t] = cur[t] /\ pc'[t] \notin {"find", "create"}
  PROVE  Vacant(Q)' /\ \A u \in Threads : AloneAt(Q, u)'
<1>1. /\ Types(Q) /\ Apart /\ Vacant(Q)
      /\ \A u \in Threads : PlaceAt(Q, u) /\ AloneAt(Q, u)
  BY Parts, Zenon
<1>2. pc[t] \in {"find", "create", "fill", "free"} /\ ForBroadcasts(Q) \subseteq Names
  BY NamesIn, Zenon
<1>3. Q[cur[t]].name \in ForBroadcasts(Q) => Inside(Q, t)
  BY <1>1, <1>2, NameOfBroadcast, Zenon
<1>4. Inside(Q, t) => ser = t /\ None \notin Threads
  BY <1>1, HostsAssumption, Zenon DEF AloneAt
<1>5. Vacant(Q)'
  BY <1>1, <1>2, <1>3, <1>4, Zenon DEF Vacant
<1>6. ASSUME NEW u \in Threads, u # t
      PROVE  AloneAt(Q, u)'
  <2> SUFFICES ASSUME Inside(Q, u)
               PROVE  AloneAt(Q, u)'
    BY <1>6, InsideFrame, Zenon DEF AloneAt
  <2>1. Q[cur[t]].name \notin ForBroadcasts(Q)
    BY <1>2, <1>6, NamesDiffer, Zenon
  <2>2. \A n \in ForBroadcasts(Q) : groupMap'[n] = groupMap[n]
    BY <1>2, <2>1, Zenon
  <2>3. pc'[u] = pc[u] /\ cur'[u] = cur[u] /\ ser' = ser
    BY <1>6, Zenon DEF Rests
  <2> QED
    BY <1>1, <2>2, <2>3, Zenon DEF AloneAt
<1>7. AloneAt(Q, t)'
  <2> SUFFICES ASSUME Inside(Q, t)'
               PROVE  AloneAt(Q, t)'
    BY Zenon DEF AloneAt
  <2>1. Inside(Q, t) /\ cur'[t] = cur[t] /\ pc'[t] \notin {"find", "create"} /\ ser' = t
    BY <1>4, Zenon
  <2>2. \A n \in ForBroadcasts(Q) : groupMap[n] # None => n = Q[cur[t]].name
    BY <1>1, <2>1, Zenon DEF AloneAt
  <2> QED
    BY <1>2, <2>1, <2>2, Zenon DEF AloneAt
<1> QED
  BY <1>5, <1>6, <1>7, Zenon

LEMMA OwnedKeeps ==
  ASSUME NEW Q, Proper(Q), Types(Q), Mapped(Q), NEW w \in Names, NEW n, NEW S, Owned(Q, w, S), w # n,
         \A m \in Names : m # n => groupMap'[m] = groupMap[m],
         \A g \in DOMAIN sci : sci'[g] = sci[g] \/ (n \in Removable(Q) /\ g # groupMap[w].group),
         n \in Removable(Q) /\ groupMap'[n] # None =>
           groupMap'[n].group = All \/ groupMap'[n].group > Len(sci)
  PROVE  Owned(Q, w, S)'
<1>1. PICK g : g = groupMap[w].group
  BY Zenon
<1>2. /\ groupMap[w] # None /\ g > All /\ sci[g] = S
      /\ \A m \in Removable(Q) : groupMap[m] # None => groupMap[m].group # g
  BY <1>1, Zenon DEF Owned
<1>3. groupMap'[w] # None /\ g = groupMap'[w].group
  BY <1>1, <1>2, Zenon
<1>4. g \in Int /\ g <= Len(sci)
  BY <1>1, <1>2, Zenon DEF Mapped
<1>5. g \in DOMAIN sci /\ Len(sci) \in Nat
  <2>1. sci \in Seq({None} \cup SUBSET Hosts)
    BY Zenon DEF Types
  <2> QED
    BY <1>2, <1>4, <2>1 DEF All
<1>6. sci'[g] = S
  BY <1>1, <1>2, <1>5, Zenon
<1>7. ASSUME NEW m \in Removable(Q), groupMap'[m] # None
      PROVE  groupMap'[m].group # g
  <2>1. CASE m # n
    BY <1>2, <1>7, <2>1, NamesIn, Zenon
  <2>2. CASE m = n
    <3>1. PICK x : x = groupMap'[n].group
      BY Zenon
    <3>2. x = All \/ x > Len(sci)
      BY <1>7, <2>2, <3>1, Zenon
    <3>3. x # g
      BY <1>2, <1>4, <1>5, <3>2 DEF All
    <3> QED
      BY <2>2, <3>1, <3>3, Zenon
  <2> QED
    BY <2>1, <2>2, Zenon
<1> QED
  BY <1>2, <1>3, <1>6, <1>7, Zenon DEF Owned

LEMMA OwnerKeeps ==
  ASSUME NEW Q, Proper(Q), InvFor(Q), NEW t \in Threads, pc[t] \in {"create", "fill"},
         NEW u \in Threads, u # t, Rests(u),
         \A m \in Names : m # Q[cur[t]].name => groupMap'[m] = groupMap[m],
         \A g \in DOMAIN sci : sci'[g] = sci[g],
         Q[cur[t]].name \in Removable(Q) /\ groupMap'[Q[cur[t]].name] # None =>
           \/ groupMap'[Q[cur[t]].name].group = All
           \/ groupMap'[Q[cur[t]].name].group > Len(sci)
  PROVE  OwnerAt(Q, u)'
<1> DEFINE n == Q[cur[t]].name
<1> SUFFICES ASSUME Inside(Q, u), pc[u] \in {"send", "free"}, Q[cur[u]].members \subseteq Hosts
             PROVE  Owned(Q, Q[cur[u]].name, Q[cur[u]].members)'
  <2>1. PICK r : r = cur[u]
    BY Zenon
  <2>2. r = cur'[u] /\ pc'[u] = pc[u]
    BY <2>1, Zenon DEF Rests
  <2> QED
    BY <2>1, <2>2, InsideFrame, Zenon DEF OwnerAt, Owned
<1>1. /\ Types(Q) /\ Apart /\ Mapped(Q) /\ PlaceAt(Q, u) /\ OwnerAt(Q, u)
      /\ Owned(Q, Q[cur[u]].name, Q[cur[u]].members)
  BY Parts, Zenon DEF OwnerAt
<1>2. Broadcasts(Q[cur[u]]) /\ pc[u] # "idle"
  BY Zenon DEF Inside
<1>3. Q[cur[u]].name \in ForBroadcasts(Q) /\ Q[cur[u]].name \in Names
  BY <1>1, <1>2, BusyFacts, Zenon
<1>4. n \notin ForBroadcasts(Q)
  BY NamesDiffer, Zenon
<1>5. PICK w, S : w = Q[cur[u]].name /\ S = Q[cur[u]].members
  BY Zenon
<1>6. w # n /\ w \in Names /\ Owned(Q, w, S)
  BY <1>1, <1>3, <1>4, <1>5, Zenon
<1>7. Owned(Q, w, S)'
  BY <1>1, <1>6, OwnedKeeps, Zenon
<1>8. Q[cur'[u]].name = w /\ Q[cur'[u]].members = S
  BY <1>5, Zenon DEF Rests
<1> QED
  BY <1>5, <1>7, <1>8, Zenon DEF Owned

LEMMA MapSet ==
  ASSUME NEW v, NEW n \in Names, DOMAIN groupMap = Names, groupMap' = [groupMap EXCEPT ![n] = v]
  PROVE  /\ DOMAIN groupMap' = Names /\ groupMap'[n] = v
         /\ \A m \in Names : m # n => groupMap'[m] = groupMap[m]
BY Zenon

LEMMA MappedSet ==
  ASSUME NEW Q, Mapped(Q), NEW n \in Names, DOMAIN groupMap' = Names,
         \A m \in Names : m # n => groupMap'[m] = groupMap[m],
         \A i \in Int : i <= Len(sci) => i <= Len(sci'),
         groupMap'[n] # None =>
           /\ groupMap'[n].group \in Int /\ groupMap'[n].group <= Len(sci')
           /\ \E r \in DOMAIN Q : groupMap'[n] = [group |-> groupMap'[n].group, desc |-> DescOf(Q[r])]
  PROVE  Mapped(Q)'
<1>1. ASSUME NEW m \in Names, groupMap'[m] # None
      PROVE  /\ \E r \in DOMAIN Q : groupMap'[m] = [group |-> groupMap'[m].group, desc |-> DescOf(Q[r])]
             /\ groupMap'[m].group \in Int /\ groupMap'[m].group <= Len(sci')
  <2>1. CASE m = n
    BY <1>1, <2>1, Zenon
  <2>2. CASE m # n
    <3>1. PICK w : w = groupMap[m]
      BY Zenon
    <3>2. groupMap'[m] = w
      BY <2>2, <3>1, Zenon
    <3>3. /\ \E r \in DOMAIN Q : w = [group |-> w.group, desc |-> DescOf(Q[r])]
          /\ w.group \in Int /\ w.group <= Len(sci)
      BY <1>1, <3>1, <3>2, Zenon DEF Mapped
    <3> QED
      BY <3>2, <3>3, Zenon
  <2> QED
    BY <2>1, <2>2, Zenon
<1> QED
  BY <1>1, Zenon DEF Mapped

(* createGroup enters the name, with the lock. *)
LEMMA CreateKeeps ==
  ASSUME NEW Q, Q = Plans[plan].requests, Proper(Q), InvFor(Q), NEW t \in Threads, Create(t)
  PROVE  InvFor(Q)'
<1>1. PICK n, d : /\ n = Q[cur[t]].name /\ d = DescOf(Q[cur[t]])
                  /\ groupMap' = [groupMap EXCEPT ![n] = [group |-> All, desc |-> d]]
  BY Zenon DEF Create, Req, Desc
<1>2. /\ pc[t] = "create" /\ mtx = None /\ mtx' = t /\ Goto(t, "fill") /\ UNCHANGED cur
      /\ UNCHANGED <<todo, ser, sci, down, got>>
  BY Zenon DEF Create, filter
<1>3. /\ Types(Q) /\ Mapped(Q) /\ Apart /\ Vacant(Q) /\ Messages(Q) /\ Waiting
      /\ \A u \in Threads : PlaceAt(Q, u) /\ AloneAt(Q, u) /\ OwnerAt(Q, u) /\ GivenAt(Q, u)
      /\ \A r \in DOMAIN Q : ReachedBy(Q, r)
  BY Parts, Zenon
<1>4. Turns(Q, t, "fill")
  <2>1. Goes(Q, t, "fill", cur[t]) /\ "fill" # "idle"
    BY <1>2, <1>3, GotoGoes, Zenon DEF Labels
  <2> QED
    BY <2>1, Zenon DEF Turns
<1>5. sci' \in Seq({None} \cup SUBSET Hosts) /\ Len(sci') >= 1
  BY <1>2, <1>3, Zenon DEF Types
<1>6. /\ Types(Q)' /\ Apart' /\ Messages(Q)' /\ Waiting'
      /\ \A s \in DOMAIN Q : ReachedBy(Q, s)'
      /\ \A u \in Threads : u # t => Rests(u) /\ GivenAt(Q, u)'
      /\ GivenAt(Q, t)'
  <2>1. pc[t] # "idle" /\ pc[t] # "free" /\ "fill" # "idle" /\ "fill" \notin {"idle", "free"}
    BY <1>2, Zenon
  <2> QED
    BY <1>2, <1>4, <1>5, <2>1, TurnKeeps, Zenon
<1>7. pc'[t] = "fill" /\ cur'[t] = cur[t] /\ Makes(Q[cur[t]]) /\ n \in Names
  BY <1>1, <1>2, <1>3, <1>4, BusyFacts, Zenon DEF Turns, Goes, PlaceAt
<1>8. PICK v : v = [group |-> All, desc |-> d]
  BY Zenon
<1>9. /\ v.group = All /\ v # None
      /\ \E r \in DOMAIN Q : v = [group |-> v.group, desc |-> DescOf(Q[r])]
  <2>1. v.group = All /\ v = [group |-> v.group, desc |-> d] /\ All \in Int
    BY <1>8 DEF All
  <2>2. cur[t] \in DOMAIN Q
    BY <1>2, <1>3, BusyFacts, Zenon
  <2>3. v = [group |-> v.group, desc |-> DescOf(Q[cur[t]])] /\ v.group \in Int
    BY <1>1, <2>1, Zenon
  <2>4. [group |-> v.group, desc |-> DescOf(Q[cur[t]])] # None
    BY <2>2, <2>3, Zenon DEF Proper
  <2> QED
    BY <2>1, <2>2, <2>3, <2>4, Zenon
<1>10. /\ DOMAIN groupMap' = Names /\ groupMap'[n] = v
       /\ \A m \in Names : m # n => groupMap'[m] = groupMap[m]
  BY <1>1, <1>3, <1>7, <1>8, MapSet, Zenon DEF Mapped
<1>11. Mapped(Q)'
  <2>1. All \in Int /\ All <= Len(sci')
    <3>1. sci' \in Seq({None} \cup SUBSET Hosts) /\ Len(sci') >= 1
      BY <1>5, Zenon
    <3> QED
      BY <3>1 DEF All
  <2>2. \A i \in Int : i <= Len(sci) => i <= Len(sci')
    BY <1>2, Zenon
  <2>3. /\ groupMap'[n].group \in Int /\ groupMap'[n].group <= Len(sci')
        /\ \E r \in DOMAIN Q : groupMap'[n] = [group |-> groupMap'[n].group, desc |-> DescOf(Q[r])]
    BY <1>9, <1>10, <2>1, Zenon
  <2> QED
    BY <1>3, <1>7, <1>10, <2>2, <2>3, MappedSet, Zenon
<1>12. Vacant(Q)' /\ \A u \in Threads : AloneAt(Q, u)'
  <2>1. Inside(Q, t)' => Inside(Q, t) /\ cur'[t] = cur[t] /\ pc'[t] \notin {"find", "create"}
    BY <1>2, <1>7, Zenon DEF Inside
  <2> QED
    BY <1>1, <1>2, <1>6, <1>10, <2>1, NameKeeps, Zenon
<1>13. PlaceAt(Q, t)' /\ OwnerAt(Q, t)'
  BY <1>1, <1>2, <1>7, <1>9, <1>10, Zenon DEF PlaceAt, OwnerAt
<1>14. ASSUME NEW u \in Threads, u # t
       PROVE  PlaceAt(Q, u)' /\ OwnerAt(Q, u)'
  <2>1. pc[u] # "fill" /\ Rests(u)
    BY <1>2, <1>3, <1>6, <1>14, HostsAssumption, Zenon DEF PlaceAt
  <2>2. PlaceAt(Q, u)'
    BY <1>3, <2>1, PlaceRest, Zenon
  <2>3. \A g \in DOMAIN sci : sci'[g] = sci[g]
    BY <1>2, Zenon
  <2>4. /\ pc[t] \in {"create", "fill"}
        /\ groupMap'[Q[cur[t]].name].group = All
        /\ \A m \in Names : m # Q[cur[t]].name => groupMap'[m] = groupMap[m]
    BY <1>1, <1>2, <1>9, <1>10, Zenon
  <2>5. OwnerAt(Q, u)'
    BY <1>14, <2>1, <2>3, <2>4, OwnerKeeps, Zenon
  <2> QED
    BY <2>2, <2>5, Zenon
<1>15. \A u \in Threads : PlaceAt(Q, u)' /\ AloneAt(Q, u)' /\ OwnerAt(Q, u)' /\ GivenAt(Q, u)'
  BY <1>6, <1>12, <1>13, <1>14, Zenon
<1> QED
  BY <1>6, <1>11, <1>12, <1>15, Together, Zenon

(* createGroup has the group from SCI. *)
Numbered(n, S, g) ==
  /\ groupMap' = [groupMap EXCEPT ![n].group = g]
  /\ g <= Len(sci')
  /\ S \subseteq Hosts => g > Len(sci) /\ g > All /\ sci'[g] = S

LEMMA FillSci ==
  ASSUME NEW Q, Types(Q), NEW t \in Threads, Q = Plans[plan].requests, Fill(t)
  PROVE  /\ sci' \in Seq({None} \cup SUBSET Hosts) /\ Len(sci') >= 1 /\ (sci' = sci \/ down = <<>>)
         /\ \A i \in Int : i <= Len(sci) => i <= Len(sci')
         /\ \A i \in DOMAIN sci : sci'[i] = sci[i]
         /\ \E g \in Int : Numbered(Q[cur[t]].name, Q[cur[t]].members, g)
<1>1. sci \in Seq({None} \cup SUBSET Hosts) /\ Len(sci) >= 1
  BY Zenon DEF Types
<1>2. PICK S, n : S = Q[cur[t]].members /\ n = Q[cur[t]].name
  BY Zenon
<1>3. \/ /\ S \subseteq Hosts /\ down = <<>> /\ sci' = Append(sci, S)
         /\ groupMap' = [groupMap EXCEPT ![n].group = Len(sci')]
      \/ /\ ~(S \subseteq Hosts) /\ sci' = sci
         /\ \E g \in Number : groupMap' = [groupMap EXCEPT ![n].group = g]
  BY <1>2, Zenon DEF Fill, Req
<1>4. CASE /\ S \subseteq Hosts /\ down = <<>> /\ sci' = Append(sci, S)
           /\ groupMap' = [groupMap EXCEPT ![n].group = Len(sci')]
  <2>1. S \in {None} \cup SUBSET Hosts
    BY <1>4, Zenon
  <2>2. /\ sci' \in Seq({None} \cup SUBSET Hosts) /\ Len(sci') = Len(sci) + 1 /\ Len(sci) \in Nat
        /\ \A i \in 1..Len(sci) : sci'[i] = sci[i]
        /\ sci'[Len(sci) + 1] = S
    BY <1>1, <1>4, <2>1
  <2>3. DOMAIN sci = 1..Len(sci)
    BY <1>1
  <2>4. /\ Len(sci') >= 1 /\ \A i \in Int : i <= Len(sci) => i <= Len(sci')
        /\ Len(sci') \in Int /\ Len(sci') <= Len(sci') /\ Len(sci') > Len(sci) /\ Len(sci') > All
        /\ sci'[Len(sci')] = S
    BY <1>1, <2>2 DEF All
  <2>5. \A i \in DOMAIN sci : sci'[i] = sci[i]
    BY <2>2, <2>3, Zenon
  <2> QED
    BY <1>2, <1>4, <2>2, <2>4, <2>5, Zenon DEF Numbered
<1>5. CASE /\ ~(S \subseteq Hosts) /\ sci' = sci
           /\ \E g \in Number : groupMap' = [groupMap EXCEPT ![n].group = g]
  <2>1. PICK g \in Number : groupMap' = [groupMap EXCEPT ![n].group = g]
    BY <1>5, Zenon
  <2>2. g \in Int /\ g <= Len(sci')
    <3>1. g \in 0..Len(sci) \/ \E h \in Hosts : g = -h
      BY <2>1, Zenon DEF Number
    <3>2. CASE g \in 0..Len(sci)
      BY <1>1, <1>5, <3>2
    <3>3. CASE \E h \in Hosts : g = -h
      BY <1>1, <1>5, <3>3, HostsAssumption
    <3> QED
      BY <3>1, <3>2, <3>3, Zenon
  <2> QED
    BY <1>1, <1>2, <1>5, <2>1, <2>2, Zenon DEF Numbered
<1> QED
  BY <1>3, <1>4, <1>5, Zenon

LEMMA FillKeeps ==
  ASSUME NEW Q, Q = Plans[plan].requests, Proper(Q), InvFor(Q), NEW t \in Threads, Fill(t)
  PROVE  InvFor(Q)'
<1> DEFINE n == Q[cur[t]].name
           S == Q[cur[t]].members
<1>1. pc[t] = "fill" /\ UNCHANGED <<todo, ser, down, got>>
  BY Zenon DEF Fill, filter
<1>2. /\ Types(Q) /\ Mapped(Q) /\ Apart /\ Vacant(Q) /\ Messages(Q) /\ Waiting
      /\ \A u \in Threads : PlaceAt(Q, u) /\ AloneAt(Q, u) /\ OwnerAt(Q, u) /\ GivenAt(Q, u)
      /\ \A r \in DOMAIN Q : ReachedBy(Q, r)
  BY Parts, Zenon
<1>3. /\ sci' \in Seq({None} \cup SUBSET Hosts) /\ Len(sci') >= 1 /\ (sci' = sci \/ down = <<>>)
      /\ \A i \in Int : i <= Len(sci) => i <= Len(sci')
      /\ \A i \in DOMAIN sci : sci'[i] = sci[i]
  BY <1>2, FillSci, Zenon
<1>4. PICK g \in Int : /\ groupMap' = [groupMap EXCEPT ![n].group = g]
                       /\ g <= Len(sci')
                       /\ S \subseteq Hosts => g > Len(sci) /\ g > All /\ sci'[g] = S
  <2>1. PICK g \in Int : Numbered(n, S, g)
    BY <1>2, FillSci, Zenon
  <2> QED
    BY <2>1, Zenon DEF Numbered
<1>5. /\ n \in Names /\ Makes(Q[cur[t]]) /\ cur[t] \in DOMAIN Q
      /\ groupMap[n] # None /\ mtx = t
  BY <1>1, <1>2, BusyFacts, Zenon DEF PlaceAt
<1>6. PICK l \in {"idle", "send"} : /\ Turns(Q, t, l) /\ (l = "idle" <=> Q[cur[t]].kind = "mkgrp")
  <2>1. IF Q[cur[t]].kind = "mkgrp" THEN Reply(t) ELSE Goto(t, "send") /\ UNCHANGED cur
    BY Zenon DEF Fill, Req
  <2>2. CASE Q[cur[t]].kind = "mkgrp"
    <3>1. Goes(Q, t, "idle", None)
      BY <1>2, <2>1, <2>2, ReplyGoes, Zenon
    <3>2. Turns(Q, t, "idle")
      BY <3>1, Zenon DEF Turns
    <3> QED
      BY <2>2, <3>2, Zenon
  <2>3. CASE Q[cur[t]].kind # "mkgrp"
    <3>1. Goes(Q, t, "send", cur[t])
      BY <1>2, <2>1, <2>3, GotoGoes, Zenon DEF Labels
    <3>2. Turns(Q, t, "send") /\ "send" # "idle"
      BY <3>1, Zenon DEF Turns
    <3> QED
      BY <2>3, <3>2, Zenon
  <2> QED
    BY <2>2, <2>3, Zenon
<1>7. Broadcasts(Q[cur[t]]) => l = "send"
  <2>1. Q[cur[t]].kind = "toall" => Q[cur[t]].kind # "mkgrp"
    BY Zenon
  <2> QED
    BY <1>6, <2>1, KindFacts, Zenon
<1>8. /\ Types(Q)' /\ Apart' /\ Messages(Q)' /\ Waiting'
      /\ \A s \in DOMAIN Q : ReachedBy(Q, s)'
      /\ \A u \in Threads : u # t => Rests(u) /\ GivenAt(Q, u)'
      /\ l = "send" => GivenAt(Q, t)'
  <2>1. pc[t] # "idle" /\ pc[t] # "free" /\ (l = "idle" => ~ Broadcasts(Q[cur[t]]))
    BY <1>1, <1>7, Zenon
  <2> QED
    BY <1>1, <1>3, <1>6, <2>1, TurnKeeps, Zenon
<1>9. PICK v : v = [groupMap[n] EXCEPT !.group = g]
  BY Zenon
<1>10. PICK r \in DOMAIN Q : v = [group |-> g, desc |-> DescOf(Q[r])]
  <2>1. PICK w : w = groupMap[n]
    BY Zenon
  <2>2. PICK r \in DOMAIN Q : w = [group |-> w.group, desc |-> DescOf(Q[r])]
    BY <1>2, <1>5, <2>1, Zenon DEF Mapped
  <2>3. PICK d : d = DescOf(Q[r])
    BY Zenon
  <2>4. v = [w EXCEPT !.group = g] /\ w = [group |-> w.group, desc |-> d]
    BY <1>9, <2>1, <2>2, <2>3, Zenon
  <2>5. v = [group |-> g, desc |-> d]
    BY <2>4
  <2> QED
    BY <2>3, <2>5, Zenon
<1>11. v.group = g /\ v # None
  <2>1. PICK d : d = DescOf(Q[r])
    BY Zenon
  <2>2. v = [group |-> g, desc |-> d]
    BY <1>10, <2>1, Zenon
  <2>3. v.group = g
    BY <2>2
  <2> QED
    BY <1>10, <2>3, Zenon DEF Proper
<1>12. /\ DOMAIN groupMap' = Names /\ groupMap'[n] = v
       /\ \A m \in Names : m # n => groupMap'[m] = groupMap[m]
  <2>1. groupMap' = [groupMap EXCEPT ![n] = v]
    BY <1>4, <1>9, Zenon
  <2> QED
    BY <1>2, <1>5, <2>1, MapSet, Zenon DEF Mapped
<1>13. Mapped(Q)'
  <2>1. /\ groupMap'[n].group \in Int /\ groupMap'[n].group <= Len(sci')
        /\ \E x \in DOMAIN Q : groupMap'[n] = [group |-> groupMap'[n].group, desc |-> DescOf(Q[x])]
    BY <1>4, <1>10, <1>11, <1>12, Zenon
  <2>2. PICK m : m = n
    BY Zenon
  <2>3. /\ m \in Names /\ DOMAIN groupMap' = Names
        /\ \A k \in Names : k # m => groupMap'[k] = groupMap[k]
        /\ groupMap'[m].group \in Int /\ groupMap'[m].group <= Len(sci')
        /\ \E x \in DOMAIN Q : groupMap'[m] = [group |-> groupMap'[m].group, desc |-> DescOf(Q[x])]
    BY <1>5, <1>12, <2>1, <2>2, Zenon
  <2>4. \A i \in Int : i <= Len(sci) => i <= Len(sci')
    BY <1>3, Zenon
  <2> QED
    BY <1>2, <2>3, <2>4, MappedSet, Zenon
<1>14. pc'[t] = l /\ (l = "send" => cur'[t] = cur[t])
  BY <1>6, Zenon DEF Turns, Goes
<1>15. Vacant(Q)' /\ \A u \in Threads : AloneAt(Q, u)'
  <2>1. Inside(Q, t)' => Inside(Q, t) /\ cur'[t] = cur[t] /\ pc'[t] \notin {"find", "create"}
    BY <1>1, <1>6, <1>14, Zenon DEF Inside
  <2>2. pc[t] \in {"create", "fill"} /\ \A u \in Threads : u # t => Rests(u)
    BY <1>1, <1>8, Zenon
  <2> QED
    BY <1>1, <1>12, <2>1, <2>2, NameKeeps, Zenon
<1>16. ASSUME NEW u \in Threads, u # t
       PROVE  PlaceAt(Q, u)' /\ OwnerAt(Q, u)'
  <2>1. pc[u] # "fill" /\ Rests(u)
    BY <1>2, <1>5, <1>8, <1>16, Zenon DEF PlaceAt
  <2>2. PlaceAt(Q, u)'
    BY <1>2, <2>1, PlaceRest, Zenon
  <2>3. n \in Removable(Q) => groupMap'[n].group > Len(sci)
    <3> HAVE n \in Removable(Q)
    <3>1. PICK s \in DOMAIN Q : Q[s].kind = "rmgrp" /\ n = Q[s].name
      BY Zenon DEF Removable
    <3>2. S \subseteq Hosts
      BY <1>5, <3>1, Zenon DEF Proper
    <3> QED
      BY <1>4, <1>11, <1>12, <3>2, Zenon
  <2>4. pc[t] \in {"create", "fill"}
    BY <1>1, Zenon
  <2>5. OwnerAt(Q, u)'
    <3>1. /\ \A m \in Names : m # Q[cur[t]].name => groupMap'[m] = groupMap[m]
          /\ \A i \in DOMAIN sci : sci'[i] = sci[i]
          /\ Q[cur[t]].name \in Removable(Q) => groupMap'[Q[cur[t]].name].group > Len(sci)
      BY <1>3, <1>12, <2>3, Zenon
    <3> QED
      BY <1>16, <2>1, <2>4, <3>1, OwnerKeeps, Zenon
  <2> QED
    BY <2>2, <2>5, Zenon
<1>17. PlaceAt(Q, t)' /\ OwnerAt(Q, t)' /\ GivenAt(Q, t)'
  <2>1. CASE l = "idle"
    BY <1>14, <2>1, IdleKeeps, Zenon
  <2>2. CASE l = "send"
    <3>1. pc'[t] = "send" /\ cur'[t] = cur[t] /\ Q[cur[t]].kind # "mkgrp" /\ Q[cur[t]].kind # "rmgrp"
      BY <1>5, <1>6, <1>14, <2>2, KindFacts, Zenon
    <3>2. PlaceAt(Q, t)'
      BY <3>1, Zenon DEF PlaceAt
    <3>3. ASSUME Broadcasts(Q[cur[t]]), S \subseteq Hosts
          PROVE  Owned(Q, n, S)'
      <4>1. n \in ForBroadcasts(Q)
        BY <1>5, <3>3, Zenon DEF ForBroadcasts
      <4>2. ASSUME NEW m \in Removable(Q), groupMap'[m] # None
            PROVE  groupMap'[m].group # g
        <5>1. m # n /\ m \in Names
          BY <4>1, <4>2, NamesIn, Zenon
        <5>2. PICK x : x = groupMap[m].group
          BY Zenon
        <5>3. x \in Int /\ x <= Len(sci) /\ x = groupMap'[m].group
          BY <1>2, <1>12, <4>2, <5>1, <5>2, Zenon DEF Mapped
        <5>4. sci \in Seq({None} \cup SUBSET Hosts) /\ g > Len(sci)
          BY <1>2, <1>4, <3>3, Zenon DEF Types
        <5>5. x # g
          BY <5>3, <5>4
        <5> QED
          BY <5>3, <5>5, Zenon
      <4>3. groupMap'[Q[cur'[t]].name] = v /\ Q[cur'[t]].members = S
        BY <1>12, <3>1, Zenon
      <4> QED
        BY <1>4, <1>11, <3>3, <4>2, <4>3, Zenon DEF Owned
    <3>4. OwnerAt(Q, t)'
      <4>1. PICK x : x = cur[t]
        BY Zenon
      <4>2. cur'[t] = x /\ (Inside(Q, t)' => Broadcasts(Q[x]))
        BY <3>1, <4>1, Zenon DEF Inside
      <4> QED
        BY <3>3, <4>1, <4>2, Zenon DEF OwnerAt, Owned
    <3> QED
      BY <1>8, <2>2, <3>2, <3>4, Zenon
  <2> QED
    BY <1>6, <2>1, <2>2, Zenon
<1>18. \A u \in Threads : PlaceAt(Q, u)' /\ AloneAt(Q, u)' /\ OwnerAt(Q, u)' /\ GivenAt(Q, u)'
  BY <1>8, <1>15, <1>16, <1>17, Zenon
<1> QED
  BY <1>8, <1>13, <1>15, <1>18, Together, Zenon

(* freeGroup frees the group in SCI and drops the name. *)
LEMMA FreeSci ==
  ASSUME NEW Q, Types(Q), NEW g, g > All => g \in Int /\ g <= Len(sci),
         sci' = IF g > All THEN [sci EXCEPT ![g] = None] ELSE sci
  PROVE  /\ sci' \in Seq({None} \cup SUBSET Hosts) /\ Len(sci') = Len(sci) /\ Len(sci') >= 1
         /\ \A i \in DOMAIN sci : sci'[i] = sci[i] \/ (i = g /\ g > All)
<1>1. sci \in Seq({None} \cup SUBSET Hosts) /\ Len(sci) >= 1
  BY Zenon DEF Types
<1>2. CASE g > All
  <2>1. g \in 1..Len(sci) /\ sci' = [sci EXCEPT ![g] = None] /\ None \in {None} \cup SUBSET Hosts
    BY <1>1, <1>2 DEF All
  <2> QED
    BY <1>1, <1>2, <2>1
<1>3. CASE ~(g > All)
  BY <1>1, <1>3, Zenon
<1> QED
  BY <1>2, <1>3, Zenon

LEMMA FreeGroupKeeps ==
  ASSUME NEW Q, Q = Plans[plan].requests, Proper(Q), InvFor(Q), NEW t \in Threads, FreeGroup(t)
  PROVE  InvFor(Q)'
<1> DEFINE n == Q[cur[t]].name
           S == Q[cur[t]].members
<1>1. /\ pc[t] = "free" /\ mtx = None /\ Reply(t)
      /\ groupMap' = [groupMap EXCEPT ![n] = None]
      /\ ser' = IF Q[cur[t]].kind = "toall" THEN None ELSE ser
      /\ UNCHANGED <<todo, mtx, down, got>>
  BY Zenon DEF FreeGroup, filter, Req
<1>2. /\ Types(Q) /\ Mapped(Q) /\ Apart /\ Vacant(Q) /\ Messages(Q) /\ Waiting
      /\ \A u \in Threads : PlaceAt(Q, u) /\ AloneAt(Q, u) /\ OwnerAt(Q, u) /\ GivenAt(Q, u)
      /\ \A r \in DOMAIN Q : ReachedBy(Q, r)
  BY Parts, Zenon
<1>3. /\ n \in Names /\ cur[t] \in DOMAIN Q /\ None \notin Names /\ None \notin Threads
      /\ Broadcasts(Q[cur[t]]) \/ Q[cur[t]].kind = "rmgrp"
  BY <1>1, <1>2, BusyFacts, HostsAssumption, Zenon DEF PlaceAt
<1>4. PICK g : g = IF groupMap[n] # None THEN groupMap[n].group ELSE All
  BY Zenon
<1>5. /\ g > All => down = <<>>
      /\ sci' = IF g > All THEN [sci EXCEPT ![g] = None] ELSE sci
  <2>1. n # None /\ g = GroupOf(n)
    BY <1>3, <1>4, Zenon DEF GroupOf
  <2> QED
    BY <2>1, Zenon DEF FreeGroup, Req
<1>6. ~(All > All)
  BY DEF All
<1>7. g > All => g \in Int /\ g <= Len(sci) /\ groupMap[n] # None /\ g = groupMap[n].group
  BY <1>2, <1>3, <1>4, <1>6, Zenon DEF Mapped
<1>8. /\ sci' \in Seq({None} \cup SUBSET Hosts) /\ Len(sci') = Len(sci) /\ Len(sci') >= 1
      /\ \A i \in DOMAIN sci : sci'[i] = sci[i] \/ (i = g /\ g > All)
      /\ sci' = sci \/ down = <<>>
  BY <1>2, <1>5, <1>7, FreeSci, Zenon
<1>9. Turns(Q, t, "idle") /\ Goes(Q, t, "idle", None)
  BY <1>1, <1>2, ReplyGoes, Zenon DEF Turns
<1>10. Broadcasts(Q[cur[t]]) /\ S \subseteq Hosts => got[cur[t]] = S
  <2> HAVE Broadcasts(Q[cur[t]]) /\ S \subseteq Hosts
  <2>1. Inside(Q, t) /\ pc[t] \in {"send", "free"}
    BY <1>1, Zenon DEF Inside
  <2>2. Owned(Q, n, S)
    BY <1>2, <2>1, Zenon DEF OwnerAt
  <2>3. g > All
    BY <1>4, <2>2, Zenon DEF Owned
  <2>4. down = <<>>
    BY <1>5, <2>3, Zenon
  <2>5. ~ Queued(cur[t])
    BY <2>4 DEF Queued
  <2> QED
    BY <1>1, <1>2, <2>1, <2>5, Zenon DEF GivenAt
<1>11. /\ Types(Q)' /\ Apart' /\ Messages(Q)' /\ Waiting'
       /\ \A s \in DOMAIN Q : ReachedBy(Q, s)'
       /\ \A u \in Threads : u # t => Rests(u) /\ GivenAt(Q, u)'
  <2>1. pc[t] # "idle"
    BY <1>1, Zenon
  <2> QED
    BY <1>1, <1>8, <1>9, <1>10, <2>1, TurnKeeps, Zenon
<1>12. /\ DOMAIN groupMap' = Names /\ groupMap'[n] = None
       /\ \A m \in Names : m # n => groupMap'[m] = groupMap[m]
  BY <1>1, <1>2, <1>3, MapSet, Zenon DEF Mapped
<1>13. Mapped(Q)'
  <2>1. PICK m : m = n
    BY Zenon
  <2>2. /\ m \in Names /\ DOMAIN groupMap' = Names /\ groupMap'[m] = None
        /\ \A k \in Names : k # m => groupMap'[k] = groupMap[k]
        /\ \A i \in Int : i <= Len(sci) => i <= Len(sci')
    BY <1>3, <1>8, <1>12, <2>1, Zenon
  <2> QED
    BY <1>2, <2>2, MappedSet, Zenon
<1>14. PlaceAt(Q, t)' /\ AloneAt(Q, t)' /\ OwnerAt(Q, t)' /\ GivenAt(Q, t)'
  <2>1. pc'[t] = "idle"
    BY <1>9, Zenon DEF Goes
  <2> QED
    BY <2>1, IdleKeeps, Zenon
<1>15. ASSUME NEW u \in Threads, u # t
       PROVE  PlaceAt(Q, u)'
  <2>1. pc[u] # "fill" /\ Rests(u)
    BY <1>1, <1>2, <1>3, <1>11, <1>15, Zenon DEF PlaceAt
  <2> QED
    BY <1>2, <2>1, PlaceRest, Zenon
<1>16. Vacant(Q)' /\ \A u \in Threads : u # t => AloneAt(Q, u)' /\ OwnerAt(Q, u)'
  <2>1. CASE Broadcasts(Q[cur[t]])
    <3>1. Inside(Q, t) /\ ser' = None /\ ser = t
      BY <1>1, <1>2, <2>1, KindFacts, Zenon DEF Inside, AloneAt
    <3>2. \A u \in Threads : u # t => ~ Inside(Q, u)'
      BY <1>2, <1>11, <3>1, InsideFrame, Zenon DEF AloneAt
    <3>3. \A m \in ForBroadcasts(Q) : groupMap'[m] = None
      <4>1. \A m \in ForBroadcasts(Q) : groupMap[m] # None => m = n
        BY <1>2, <3>1, Zenon DEF AloneAt
      <4> QED
        BY <1>12, <4>1, NamesIn, Zenon
    <3> QED
      BY <3>2, <3>3, Zenon DEF Vacant, AloneAt, OwnerAt
  <2>2. CASE Q[cur[t]].kind = "rmgrp"
    <3>1. n \in Removable(Q) /\ Q[cur[t]].kind # "toall" /\ ser' = ser
      BY <1>1, <1>3, <2>2, Zenon DEF Removable
    <3>2. \A m \in ForBroadcasts(Q) : m \in Names /\ m # n /\ groupMap'[m] = groupMap[m]
      BY <1>12, <3>1, NamesIn, Zenon
    <3>3. Vacant(Q)'
      BY <1>2, <3>1, <3>2, Zenon DEF Vacant
    <3>4. ASSUME NEW u \in Threads, u # t
          PROVE  AloneAt(Q, u)' /\ OwnerAt(Q, u)'
      <4>1. PICK l, r : l = pc[u] /\ r = cur[u]
        BY Zenon
      <4>2. pc'[u] = l /\ cur'[u] = r /\ Rests(u) /\ (Inside(Q, u)' <=> Inside(Q, u))
        BY <1>11, <3>4, <4>1, InsideFrame, Zenon DEF Rests
      <4>3. AloneAt(Q, u)'
        BY <1>2, <3>1, <3>2, <4>1, <4>2, ZenonT(60) DEF AloneAt
      <4>4. ASSUME Inside(Q, u), l \in {"send", "free"}, Q[r].members \subseteq Hosts
            PROVE  Owned(Q, Q[r].name, Q[r].members)'
        <5>1. l # "idle" /\ Broadcasts(Q[r])
          BY <4>1, <4>4, Zenon DEF Inside
        <5>2. Owned(Q, Q[r].name, Q[r].members) /\ Q[r].name \in ForBroadcasts(Q)
          BY <1>2, <4>1, <4>4, <5>1, BusyFacts, Zenon DEF OwnerAt
        <5>3. PICK w, X : w = Q[r].name /\ X = Q[r].members
          BY Zenon
        <5>4. w \in Names /\ w # n /\ Owned(Q, w, X)
          BY <3>2, <5>2, <5>3, Zenon
        <5>5. g > All => g # groupMap[w].group
          BY <1>7, <3>1, <5>4, Zenon DEF Owned
        <5>6. \A i \in DOMAIN sci : sci'[i] = sci[i] \/ (n \in Removable(Q) /\ i # groupMap[w].group)
          BY <1>8, <3>1, <5>5, Zenon
        <5>7. PICK m : m = n
          BY Zenon
        <5>8. /\ w # m /\ \A k \in Names : k # m => groupMap'[k] = groupMap[k]
              /\ groupMap'[m] = None
              /\ \A i \in DOMAIN sci : sci'[i] = sci[i] \/ (m \in Removable(Q) /\ i # groupMap[w].group)
          BY <1>12, <5>4, <5>6, <5>7, Zenon
        <5>9. Owned(Q, w, X)'
          BY <1>2, <5>4, <5>8, OwnedKeeps, Zenon
        <5> QED
          BY <5>3, <5>9, Zenon DEF Owned
      <4>5. OwnerAt(Q, u)'
        BY <4>2, <4>4, Zenon DEF OwnerAt, Owned
      <4> QED
        BY <4>3, <4>5, Zenon
    <3> QED
      BY <3>3, <3>4, Zenon
  <2> QED
    BY <1>3, <2>1, <2>2, Zenon
<1>17. \A u \in Threads : PlaceAt(Q, u)' /\ AloneAt(Q, u)' /\ OwnerAt(Q, u)' /\ GivenAt(Q, u)'
  BY <1>11, <1>14, <1>15, <1>16, Zenon
<1> QED
  BY <1>11, <1>13, <1>16, <1>17, Together, Zenon

(* The group of a message. *)
LEMMA SendTarget ==
  ASSUME NEW Q, Q = Plans[plan].requests, Proper(Q), Types(Q), Mapped(Q), NEW r \in DOMAIN Q
  PROVE  Target(r) \in Int /\ Target(r) <= Len(sci)
<1>1. sci \in Seq({None} \cup SUBSET Hosts) /\ Len(sci) >= 1
  BY Zenon DEF Types
<1>2. CASE Q[r].kind = "inter"
  <2>1. PICK h : Q[r].members = {h} /\ h \in Nat \ {0}
    BY <1>2, Zenon DEF Proper
  <2>2. Max({h}) = h
    BY <2>1 DEF Max
  <2>3. Target(r) = -h
    BY <1>2, <2>1, <2>2, Zenon DEF Target, Req
  <2>4. -h \in Int /\ -h <= Len(sci)
    BY <1>1, <2>1
  <2> QED
    BY <2>3, <2>4, Zenon
<1>3. CASE Q[r].kind # "inter"
  <2>1. PICK n : n = Q[r].name
    BY Zenon
  <2>2. Target(r) = GroupOf(n) /\ n \in Names \cup {None}
    BY <1>3, <2>1, Zenon DEF Target, Req, Proper
  <2>3. CASE n # None /\ groupMap[n] # None
    BY <2>2, <2>3, Zenon DEF GroupOf, Mapped
  <2>4. CASE ~(n # None /\ groupMap[n] # None)
    <3>1. Target(r) = All
      BY <2>2, <2>4, Zenon DEF GroupOf
    <3> QED
      BY <1>1, <3>1 DEF All
  <2> QED
    BY <2>3, <2>4, Zenon
<1> QED
  BY <1>2, <1>3, Zenon

LEMMA AppendFacts ==
  ASSUME NEW M, NEW q \in Seq(M), NEW m \in M
  PROVE  /\ Append(q, m) \in Seq(M) /\ DOMAIN Append(q, m) = DOMAIN q \cup {Len(q) + 1}
         /\ Len(q) + 1 \notin DOMAIN q
         /\ \A i \in DOMAIN q : Append(q, m)[i] = q[i]
         /\ Append(q, m)[Len(q) + 1] = m
OBVIOUS

LEMMA MessageRecord ==
  ASSUME NEW D, NEW r \in D, NEW g \in Int
  PROVE  /\ [req |-> r, group |-> g] \in [req : D, group : Int]
         /\ [req |-> r, group |-> g].req = r /\ [req |-> r, group |-> g].group = g
OBVIOUS

(* SCI_Bcast queues one message, if the group is alive. *)
LEMMA SendMessages ==
  ASSUME NEW Q, Proper(Q), Types(Q), Messages(Q), NEW r \in DOMAIN Q,
         NEW m \in [req : DOMAIN Q, group : Int], m.req = r, Message(Q, m)',
         down' = Append(down, m), UNCHANGED <<todo, got, sci>>,
         \A i \in DOMAIN down : down[i].req # r,
         \A u \in Threads : cur'[u] # r => cur'[u] = None \/ (cur'[u] = cur[u] /\ pc'[u] = pc[u])
  PROVE  /\ down' \in Seq([req : DOMAIN Q, group : Int]) /\ Messages(Q)' /\ Queued(r)'
         /\ \A s : Queued(s) => Queued(s)'
<1>2. down \in Seq([req : DOMAIN Q, group : Int])
  BY Zenon DEF Types
<1>3. PICK q : q = Append(down, m)
  BY Zenon
<1>4. PICK k :
      /\ down' \in Seq([req : DOMAIN Q, group : Int])
      /\ DOMAIN down' = DOMAIN down \cup {k} /\ k \notin DOMAIN down
      /\ \A i \in DOMAIN down : down'[i] = down[i]
      /\ down'[k] = m
  <2>1. /\ q \in Seq([req : DOMAIN Q, group : Int]) /\ DOMAIN q = DOMAIN down \cup {Len(down) + 1}
        /\ Len(down) + 1 \notin DOMAIN down
        /\ \A i \in DOMAIN down : q[i] = down[i]
        /\ q[Len(down) + 1] = m
    BY <1>2, <1>3, AppendFacts
  <2>2. down' = q
    BY <1>3, Zenon
  <2> QED
    BY <2>1, <2>2, Zenon
<1>5. ASSUME NEW i \in DOMAIN down
      PROVE  Message(Q, down[i])'
  <2>1. PICK x : x = down[i]
    BY Zenon
  <2>2. x \in [req : DOMAIN Q, group : Int]
    BY <1>2, <1>5, <2>1, ElementIn, Zenon
  <2>3. Message(Q, x) /\ x.req \in DOMAIN Q /\ x.req # r
    BY <1>5, <2>1, <2>2, Zenon DEF Messages
  <2>4. x.req # None /\ x.req \notin todo' /\ got'[x.req] = got[x.req]
    BY <2>3, Zenon DEF Proper, Message
  <2>5. \A u \in Threads : cur'[u] = x.req => pc'[u] = "free"
    BY <2>3, <2>4, Zenon DEF Message
  <2>6. Message(Q, x)'
    BY <2>3, <2>4, <2>5, MessageFrame, Zenon
  <2>7. down'[i] = x
    BY <1>4, <1>5, <2>1, Zenon
  <2> QED
    BY <2>6, <2>7 DEF Message
<1>6. Message(Q, down[k])'
  <2>1. down'[k] = m
    BY <1>4, Zenon
  <2> QED
    BY <2>1 DEF Message
<1>7. \A i \in DOMAIN down' : Message(Q, down[i])'
  BY <1>4, <1>5, <1>6, Zenon
<1>8. ASSUME NEW i \in DOMAIN down', NEW j \in DOMAIN down', down'[i].req = down'[j].req
      PROVE  i = j
  <2>1. (i = k \/ i \in DOMAIN down) /\ (j = k \/ j \in DOMAIN down)
    BY <1>4, <1>8, Zenon
  <2>2. CASE i \in DOMAIN down /\ j \in DOMAIN down
    <3>1. down[i].req = down[j].req
      BY <1>4, <1>8, <2>2, Zenon
    <3> QED
      BY <2>2, <3>1, Zenon DEF Messages
  <2>3. CASE i \in DOMAIN down /\ j = k
    BY <1>4, <1>8, <2>3, Zenon
  <2>4. CASE i = k /\ j \in DOMAIN down
    BY <1>4, <1>8, <2>4, Zenon
  <2> QED
    BY <2>1, <2>2, <2>3, <2>4, Zenon
<1>9. Queued(r)' /\ \A s : Queued(s) => Queued(s)'
  BY <1>4, Zenon DEF Queued
<1> QED
  BY <1>4, <1>7, <1>8, <1>9, Zenon DEF Messages

(* A broadcast whose members SCI knows is sent to the group of its thread. *)
LEMMA SendOwned ==
  ASSUME NEW Q, Q = Plans[plan].requests, Proper(Q), NEW t \in Threads, OwnerAt(Q, t),
         cur[t] \in DOMAIN Q, pc[t] = "send", Broadcasts(Q[cur[t]]), Q[cur[t]].members \subseteq Hosts,
         Q[cur[t]].name \in Names
  PROVE  /\ Target(cur[t]) > All /\ sci[Target(cur[t])] = Q[cur[t]].members
         /\ sci[Target(cur[t])] # None
<1>1. PICK n, S : n = Q[cur[t]].name /\ S = Q[cur[t]].members
  BY Zenon
<1>2. Owned(Q, n, S)
  BY <1>1, Zenon DEF OwnerAt, Inside
<1>3. n # None /\ Q[cur[t]].kind # "inter" /\ S # None
  <2>1. Q[cur[t]].kind = "toall" /\ "toall" # "inter"
    BY KindFacts, Zenon
  <2> QED
    BY <1>1, <2>1, HostsAssumption, Zenon DEF Proper
<1>4. Target(cur[t]) = groupMap[n].group
  BY <1>1, <1>2, <1>3, Zenon DEF Target, Req, GroupOf, Owned
<1> QED
  BY <1>1, <1>2, <1>3, <1>4, Zenon DEF Owned

LEMMA SendKeeps ==
  ASSUME NEW Q, Q = Plans[plan].requests, Proper(Q), InvFor(Q), NEW t \in Threads, Send(t)
  PROVE  InvFor(Q)'
<1>1. PICK r, g : r = cur[t] /\ g = Target(r)
  BY Zenon
<1>2. /\ pc[t] = "send" /\ UNCHANGED <<todo, groupMap, mtx, ser, sci, got>>
      /\ down' = IF Alive(g) THEN Append(down, [req |-> r, group |-> g]) ELSE down
      /\ IF Alive(g) /\ Broadcasts(Q[r]) THEN Goto(t, "free") /\ UNCHANGED cur ELSE Reply(t)
  BY <1>1, Zenon DEF Send, net, Req, Described, Broadcasts
<1>3. /\ Types(Q) /\ Mapped(Q) /\ Apart /\ Vacant(Q) /\ Messages(Q) /\ Waiting
      /\ \A u \in Threads : PlaceAt(Q, u) /\ AloneAt(Q, u) /\ OwnerAt(Q, u) /\ GivenAt(Q, u)
      /\ \A s \in DOMAIN Q : ReachedBy(Q, s)
  BY Parts, Zenon
<1>4. /\ r \in DOMAIN Q /\ r # None /\ r \notin todo /\ got[r] = {}
      /\ Broadcasts(Q[r]) => Q[r].name \in Names
  <2>1. pc[t] # "idle" /\ pc[t] # "free"
    BY <1>2, Zenon
  <2>2. got[r] = {} /\ r \notin todo
    BY <1>1, <1>3, <2>1, Zenon DEF GivenAt, Apart
  <2> QED
    BY <1>1, <1>3, <2>1, <2>2, BusyFacts, Zenon
<1>5. g \in Int /\ g <= Len(sci)
  BY <1>1, <1>3, <1>4, SendTarget, Zenon
<1>6. Broadcasts(Q[r]) /\ Q[r].members \subseteq Hosts =>
        g > All /\ sci[g] = Q[r].members /\ sci[g] # None
  BY <1>1, <1>2, <1>3, <1>4, SendOwned, Zenon
<1>7. Alive(g) => IF g < 0 THEN -g \in Hosts ELSE g \in DOMAIN sci /\ sci[g] # None
  <2>1. sci \in Seq({None} \cup SUBSET Hosts)
    BY <1>3, Zenon DEF Types
  <2> QED
    BY <1>5, <2>1 DEF Alive
<1>8. Broadcasts(Q[r]) /\ Q[r].members \subseteq Hosts => Alive(g)
  <2>1. g > All => ~(g < 0) /\ g # 0
    BY <1>5 DEF All
  <2> QED
    BY <1>6, <2>1, Zenon DEF Alive
<1>9. PICK l \in {"idle", "free"} :
        Turns(Q, t, l) /\ (l = "free" <=> Alive(g) /\ Broadcasts(Q[r]))
  <2>1. CASE Alive(g) /\ Broadcasts(Q[r])
    <3>1. Goes(Q, t, "free", cur[t]) /\ "free" # "idle"
      BY <1>2, <1>3, <2>1, GotoGoes, Zenon DEF Labels
    <3>2. Turns(Q, t, "free")
      BY <3>1, Zenon DEF Turns
    <3> QED
      BY <2>1, <3>2, Zenon
  <2>2. CASE ~(Alive(g) /\ Broadcasts(Q[r]))
    <3>1. Goes(Q, t, "idle", None) /\ "free" # "idle"
      BY <1>2, <1>3, <2>2, ReplyGoes, Zenon
    <3>2. Turns(Q, t, "idle")
      BY <3>1, Zenon DEF Turns
    <3> QED
      BY <2>2, <3>1, <3>2, Zenon
  <2> QED
    BY <2>1, <2>2, Zenon
<1>10. /\ pc' \in [Threads -> Labels] /\ cur' \in [Threads -> DOMAIN Q \cup {None}]
       /\ pc'[t] = l /\ (l = "free" => cur'[t] = r) /\ (l = "idle" => cur'[t] = None)
       /\ \A u \in Threads : u # t => Rests(u)
  BY <1>1, <1>9, Zenon DEF Turns, Goes
<1>11. Apart'
  <2>1. None \notin todo /\ pc[t] # "idle"
    BY <1>2, <1>3, Zenon DEF Proper, Types
  <2> QED
    BY <1>2, <1>3, <1>9, <2>1, TurnApart, Zenon
<1>12. /\ down' \in Seq([req : DOMAIN Q, group : Int]) /\ Messages(Q)'
       /\ \A s : Queued(s) => Queued(s)'
       /\ Alive(g) => Queued(r)'
  <2>1. \A u \in Threads : cur'[u] # r => cur'[u] = None \/ (cur'[u] = cur[u] /\ pc'[u] = pc[u])
    BY <1>9, <1>10, Zenon DEF Rests
  <2>2. CASE Alive(g)
    <3>1. PICK m : m = [req |-> r, group |-> g]
      BY Zenon
    <3>2. m \in [req : DOMAIN Q, group : Int] /\ m.req = r /\ m.group = g
      BY <1>4, <1>5, <3>1, MessageRecord
    <3>3. down' = Append(down, m)
      BY <1>2, <2>2, <3>1, Zenon
    <3>4. \A i \in DOMAIN down : down[i].req # r
      <4>1. "send" # "free" /\ pc[t] = "send" /\ cur[t] = r
        BY <1>1, <1>2, Zenon
      <4> QED
        BY <1>3, <4>1, Zenon DEF Messages, Message
    <3>5. \A u \in Threads : cur'[u] = r => pc'[u] = "free"
      BY <1>1, <1>3, <1>4, <1>9, <1>10, Zenon DEF Apart, Rests
    <3>6. /\ IF g < 0 THEN -g \in Hosts ELSE g \in DOMAIN sci' /\ sci'[g] # None
          /\ Broadcasts(Q[r]) /\ Q[r].members \subseteq Hosts => g > 0 /\ sci'[g] = Q[r].members
      <4>1. g > All => g > 0
        BY <1>5 DEF All
      <4> QED
        BY <1>2, <1>6, <1>7, <2>2, <4>1, Zenon
    <3>7. Message(Q, m)'
      BY <1>2, <1>4, <3>2, <3>5, <3>6, Zenon DEF Message
    <3>8. /\ down' \in Seq([req : DOMAIN Q, group : Int]) /\ Messages(Q)' /\ Queued(r)'
          /\ \A s : Queued(s) => Queued(s)'
      <4>1. UNCHANGED <<todo, got, sci>> /\ Types(Q) /\ Messages(Q) /\ r \in DOMAIN Q
        BY <1>2, <1>3, <1>4, Zenon
      <4>2. m \in [req : DOMAIN Q, group : Int] /\ m.req = r
        BY <3>2, Zenon
      <4> QED
        BY <2>1, <3>3, <3>4, <3>7, <4>1, <4>2, SendMessages, Zenon
    <3> QED
      BY <3>8, Zenon
  <2>3. CASE ~ Alive(g)
    <3>1. down' = down
      BY <1>2, <2>3, Zenon
    <3>2. \A u \in Threads : \/ cur'[u] = cur[u] /\ (pc[u] = "free" => pc'[u] = "free")
                             \/ cur'[u] = None \/ cur'[u] \in todo
      BY <1>9, <1>10, <2>3, Zenon DEF Rests
    <3>3. Messages(Q)'
      BY <1>2, <1>3, <3>1, <3>2, MessagesFrame, Zenon
    <3> QED
      BY <1>3, <2>3, <3>1, <3>3, Zenon DEF Types, Queued
  <2> QED
    BY <2>2, <2>3, Zenon
<1>13. Types(Q)'
  BY <1>2, <1>3, <1>10, <1>12, Zenon DEF Types
<1>14. Mapped(Q)' /\ Vacant(Q)' /\ Waiting'
  BY <1>2, <1>3, Zenon DEF Mapped, Vacant, Waiting
<1>15. \A s \in DOMAIN Q : ReachedBy(Q, s)'
  <2>1. Broadcasts(Q[cur[t]]) /\ Q[cur[t]].members \subseteq Hosts /\ l = "idle" => FALSE
    <3>1. "idle" # "free"
      OBVIOUS
    <3> QED
      BY <1>1, <1>8, <1>9, <3>1, Zenon
  <2> QED
    BY <1>2, <1>3, <1>9, <2>1, TurnReached, Zenon
<1>16. ASSUME NEW u \in Threads, u # t
       PROVE  PlaceAt(Q, u)' /\ AloneAt(Q, u)' /\ OwnerAt(Q, u)' /\ GivenAt(Q, u)'
  <2>1. Rests(u) /\ got'[cur[u]] = got[cur[u]] /\ (Queued(cur[u]) => Queued(cur[u])')
    BY <1>2, <1>10, <1>12, <1>16, Zenon DEF Rests
  <2> QED
    BY <1>2, <1>3, <2>1, PlaceFrame, AloneFrame, OwnerFrame, GivenFrame, Zenon
<1>17. PlaceAt(Q, t)' /\ AloneAt(Q, t)' /\ OwnerAt(Q, t)' /\ GivenAt(Q, t)'
  <2>1. CASE l = "idle"
    BY <1>10, <2>1, IdleKeeps, Zenon
  <2>2. CASE l = "free"
    <3>1. pc'[t] = "free" /\ cur'[t] = r /\ Broadcasts(Q[r]) /\ Queued(r)'
      BY <1>9, <1>10, <1>12, <2>2, Zenon
    <3>2. PlaceAt(Q, t)' /\ GivenAt(Q, t)'
      BY <3>1, Zenon DEF PlaceAt, GivenAt, Queued
    <3>3. Inside(Q, t) /\ pc[t] \in {"send", "free"} /\ cur[t] = r
      BY <1>1, <1>2, <3>1, Zenon DEF Inside
    <3>4. AloneAt(Q, t)'
      BY <1>2, <1>3, <3>1, <3>3, Zenon DEF AloneAt
    <3>5. \A n, X : Owned(Q, n, X)' <=> Owned(Q, n, X)
      BY <1>2 DEF Owned
    <3>6. Q[r].members \subseteq Hosts => Owned(Q, Q[r].name, Q[r].members)
      BY <1>3, <3>3, Zenon DEF OwnerAt
    <3>7. OwnerAt(Q, t)'
      BY <3>1, <3>5, <3>6, Zenon DEF OwnerAt
    <3> QED
      BY <3>2, <3>4, <3>7, Zenon
  <2> QED
    BY <1>9, <2>1, <2>2, Zenon
<1>18. \A u \in Threads : PlaceAt(Q, u)' /\ AloneAt(Q, u)' /\ OwnerAt(Q, u)' /\ GivenAt(Q, u)'
  BY <1>16, <1>17, Zenon
<1> QED
  BY <1>11, <1>12, <1>13, <1>14, <1>15, <1>18, Together, Zenon
LEMMA TailFacts ==
  ASSUME NEW M, NEW q \in Seq(M), q # <<>>
  PROVE  /\ Tail(q) \in Seq(M) /\ 1 \in DOMAIN q /\ Head(q) = q[1]
         /\ \A i \in DOMAIN Tail(q) : i + 1 \in DOMAIN q /\ i + 1 # 1 /\ Tail(q)[i] = q[i + 1]
         /\ \A i \in DOMAIN q : i # 1 => \E j \in DOMAIN Tail(q) : Tail(q)[j] = q[i]
         /\ \A i, j \in DOMAIN Tail(q) : i + 1 = j + 1 => i = j
         /\ Tail(q) # q /\ \A m : Tail(q) # Append(q, m)
<1>1. /\ Tail(q) \in Seq(M) /\ Len(q) \in Nat /\ Len(q) >= 1 /\ Len(Tail(q)) = Len(q) - 1
      /\ DOMAIN q = 1..Len(q) /\ DOMAIN Tail(q) = 1..Len(q) - 1 /\ Head(q) = q[1]
      /\ \A i \in 1..Len(q) - 1 : Tail(q)[i] = q[i + 1]
  OBVIOUS
<1>2. \A i \in DOMAIN Tail(q) : i + 1 \in DOMAIN q /\ i + 1 # 1 /\ Tail(q)[i] = q[i + 1]
  BY <1>1
<1>3. ASSUME NEW i \in DOMAIN q, i # 1
      PROVE  \E j \in DOMAIN Tail(q) : Tail(q)[j] = q[i]
  <2>1. i - 1 \in 1..Len(q) - 1 /\ (i - 1) + 1 = i
    BY <1>1, <1>3
  <2>2. Tail(q)[i - 1] = q[(i - 1) + 1] /\ i - 1 \in DOMAIN Tail(q)
    BY <1>1, <2>1, Zenon
  <2> QED
    BY <2>1, <2>2, Zenon
<1>4. \A i, j \in DOMAIN Tail(q) : i + 1 = j + 1 => i = j
  BY <1>1
<1>5. Tail(q) # q
  <2>1. PICK a, c : a = Len(Tail(q)) /\ c = Len(q)
    BY Zenon
  <2>2. a = c - 1 /\ c \in Nat
    BY <1>1, <2>1, Zenon
  <2>3. a # c
    BY <2>2
  <2> QED
    BY <2>1, <2>3, Zenon
<1>6. ASSUME NEW m, Tail(q) = Append(q, m)
      PROVE  FALSE
  <2>1. Len(Append(q, m)) = Len(q) + 1
    OBVIOUS
  <2>2. Len(q) - 1 = Len(q) + 1
    BY <1>1, <1>6, <2>1, Zenon
  <2> QED
    BY <1>1, <2>2
<1>7. 1 \in DOMAIN q
  BY <1>1
<1> QED
  BY <1>1, <1>2, <1>3, <1>4, <1>5, <1>6, <1>7, Zenon

(* The router takes the first message: nobody has been given the request   *)
(* before, and no other message is for it.                                 *)
LEMMA FirstMessage ==
  ASSUME NEW Q, Types(Q), Messages(Q), down # <<>>
  PROVE  /\ Message(Q, Head(down)) /\ Head(down).req \in DOMAIN Q /\ Head(down).group \in Int
<1>1. down \in Seq([req : DOMAIN Q, group : Int])
  BY Zenon DEF Types
<1>2. 1 \in DOMAIN down /\ Head(down) = down[1]
  BY <1>1, TailFacts, Zenon
<1>3. PICK m : m = down[1]
  BY Zenon
<1>4. m \in [req : DOMAIN Q, group : Int] /\ Message(Q, m)
  BY <1>1, <1>2, <1>3, ElementIn, Zenon DEF Messages
<1>5. m.req \in DOMAIN Q /\ m.group \in Int
  BY <1>4
<1> QED
  BY <1>2, <1>3, <1>4, <1>5, Zenon

LEMMA DequeueKeeps ==
  ASSUME NEW Q, Proper(Q), InvFor(Q), down # <<>>, down' = Tail(down),
         UNCHANGED <<todo, pc, cur, groupMap, mtx, ser, sci>>,
         DOMAIN got' = DOMAIN Q, NEW r, r = Head(down).req,
         \A s \in DOMAIN Q : s # r => got'[s] = got[s],
         Broadcasts(Q[r]) /\ Q[r].members \subseteq Hosts => got'[r] = Q[r].members
  PROVE  InvFor(Q)'
<1>1. /\ Types(Q) /\ Mapped(Q) /\ Apart /\ Vacant(Q) /\ Messages(Q) /\ Waiting
      /\ \A u \in Threads : PlaceAt(Q, u) /\ AloneAt(Q, u) /\ OwnerAt(Q, u) /\ GivenAt(Q, u)
      /\ \A s \in DOMAIN Q : ReachedBy(Q, s)
  BY Parts, Zenon
<1>2. /\ r \in DOMAIN Q /\ r \notin todo
      /\ \A u \in Threads : cur[u] = r => pc[u] = "free"
  BY <1>1, FirstMessage, Zenon DEF Message
<1>3. down \in Seq([req : DOMAIN Q, group : Int])
  BY <1>1, Zenon DEF Types
<1>4. /\ down' \in Seq([req : DOMAIN Q, group : Int]) /\ 1 \in DOMAIN down /\ r = down[1].req
      /\ \A i \in DOMAIN down' : i + 1 \in DOMAIN down /\ i + 1 # 1 /\ down'[i] = down[i + 1]
      /\ \A i \in DOMAIN down : i # 1 => \E j \in DOMAIN down' : down'[j] = down[i]
      /\ \A i, j \in DOMAIN down' : i + 1 = j + 1 => i = j
  <2>1. PICK q : q = Tail(down)
    BY Zenon
  <2>2. /\ q \in Seq([req : DOMAIN Q, group : Int]) /\ 1 \in DOMAIN down /\ Head(down) = down[1]
        /\ \A i \in DOMAIN q : i + 1 \in DOMAIN down /\ i + 1 # 1 /\ q[i] = down[i + 1]
        /\ \A i \in DOMAIN down : i # 1 => \E j \in DOMAIN q : q[j] = down[i]
        /\ \A i, j \in DOMAIN q : i + 1 = j + 1 => i = j
    BY <1>3, <2>1, TailFacts
  <2>3. down' = q
    BY <2>1, Zenon
  <2>4. down' \in Seq([req : DOMAIN Q, group : Int]) /\ 1 \in DOMAIN down /\ r = down[1].req
    BY <2>2, <2>3, Zenon
  <2>5. \A i \in DOMAIN down' : i + 1 \in DOMAIN down /\ i + 1 # 1 /\ down'[i] = down[i + 1]
    BY <2>2, <2>3
  <2>6. ASSUME NEW i \in DOMAIN down, i # 1
        PROVE  \E j \in DOMAIN down' : down'[j] = down[i]
    <3>1. PICK j \in DOMAIN q : q[j] = down[i]
      BY <2>2, <2>6, Zenon
    <3> QED
      BY <2>3, <3>1, Zenon
  <2>7. \A i, j \in DOMAIN down' : i + 1 = j + 1 => i = j
    BY <2>2, <2>3, Zenon
  <2> QED
    BY <2>4, <2>5, <2>6, <2>7, Zenon
<1>5. Types(Q)'
  BY <1>1, <1>4, Zenon DEF Types
<1>6. Mapped(Q)' /\ Apart' /\ Vacant(Q)'
  BY <1>1, Zenon DEF Mapped, Apart, Vacant
<1>7. Waiting'
  <2>1. \A s \in todo : s \in DOMAIN Q /\ s # r
    BY <1>1, <1>2, Zenon DEF Types
  <2> QED
    BY <1>1, <2>1, Zenon DEF Waiting
<1>8. Messages(Q)'
  <2>1. ASSUME NEW i \in DOMAIN down'
        PROVE  Message(Q, down[i])'
    <3>1. PICK k \in DOMAIN down : k # 1 /\ down'[i] = down[k]
      BY <1>4, <2>1, ZenonT(60)
    <3>2. PICK x : x = down[k] /\ x = down'[i]
      BY <3>1, Zenon
    <3>3. x.req # r /\ Message(Q, x)
      <4>1. Message(Q, down[k]) /\ (down[k].req = down[1].req => k = 1)
        BY <1>1, <1>4, <3>1, Zenon DEF Messages
      <4> QED
        BY <1>4, <3>1, <3>2, <4>1, Zenon
    <3>4. x \in [req : DOMAIN Q, group : Int]
      <4>1. down[k] \in [req : DOMAIN Q, group : Int]
        BY <1>3, <3>1, ElementIn, Zenon
      <4> QED
        BY <3>2, <4>1, Zenon
    <3>5. x.req \in DOMAIN Q
      BY <3>4, Zenon
    <3>6. /\ got'[x.req] = got[x.req] /\ x.req \notin todo' /\ sci' = sci
          /\ \A u \in Threads : cur'[u] = x.req => pc'[u] = "free"
      BY <3>3, <3>5, Zenon DEF Message
    <3>7. Message(Q, x)'
      BY <3>3, <3>6, MessageFrame, Zenon
    <3> QED
      BY <3>2, <3>7 DEF Message
  <2>2. ASSUME NEW i \in DOMAIN down', NEW j \in DOMAIN down', down'[i].req = down'[j].req
        PROVE  i = j
    <3>1. /\ i + 1 \in DOMAIN down /\ j + 1 \in DOMAIN down
          /\ down'[i] = down[i + 1] /\ down'[j] = down[j + 1]
      BY <1>4, <2>2, Zenon
    <3>2. down[i + 1].req = down[j + 1].req
      BY <2>2, <3>1, Zenon
    <3>3. i + 1 = j + 1
      BY <1>1, <3>1, <3>2, Zenon DEF Messages
    <3> QED
      BY <1>4, <2>2, <3>3, Zenon
  <2> QED
    BY <2>1, <2>2, Zenon DEF Messages
<1>9. ASSUME NEW u \in Threads
      PROVE  PlaceAt(Q, u)' /\ AloneAt(Q, u)' /\ OwnerAt(Q, u)' /\ GivenAt(Q, u)'
  <2>1. Rests(u)
    BY Zenon DEF Rests
  <2>2. PlaceAt(Q, u)' /\ AloneAt(Q, u)' /\ OwnerAt(Q, u)'
    BY <1>1, <1>9, <2>1, PlaceFrame, AloneFrame, OwnerFrame, Zenon
  <2>3. CASE cur[u] = r
    <3>1. pc'[u] = "free" /\ cur'[u] = r
      BY <1>2, <1>9, <2>3, Zenon
    <3>2. GivenAt(Q, u)'
      BY <3>1, Zenon DEF GivenAt, Inside
    <3> QED
      BY <2>2, <3>2, Zenon
  <2>4. CASE cur[u] # r
    <3>1. CASE pc[u] = "idle"
      <4>1. pc'[u] = "idle"
        BY <3>1, Zenon
      <4> QED
        BY <2>2, <4>1, IdleKeeps, Zenon
    <3>2. CASE pc[u] # "idle"
      <4>1. cur[u] \in DOMAIN Q
        BY <1>1, <1>9, <3>2, BusyFacts, Zenon
      <4>2. got'[cur[u]] = got[cur[u]]
        BY <2>4, <4>1, Zenon
      <4>3. Queued(cur[u]) => Queued(cur[u])'
        <5> HAVE Queued(cur[u])
        <5>1. PICK i \in DOMAIN down : down[i].req = cur[u]
          BY Zenon DEF Queued
        <5>2. i # 1
          BY <1>4, <2>4, <5>1, Zenon
        <5>3. PICK j \in DOMAIN down' : down'[j] = down[i]
          BY <1>4, <5>1, <5>2, Zenon
        <5> QED
          BY <5>1, <5>3, Zenon DEF Queued
      <4> QED
        BY <1>1, <1>9, <2>1, <2>2, <4>2, <4>3, GivenFrame, Zenon
    <3> QED
      BY <3>1, <3>2, Zenon
  <2> QED
    BY <2>3, <2>4, Zenon
<1>10. ASSUME NEW s \in DOMAIN Q
       PROVE  ReachedBy(Q, s)'
  <2>1. CASE s = r
    BY <2>1, Zenon DEF ReachedBy
  <2>2. CASE s # r
    <3>1. got'[s] = got[s] /\ (Served(s)' => Served(s))
      BY <1>10, <2>2, Zenon DEF Served
    <3> QED
      BY <1>1, <1>10, <3>1, ReachedFrame, Zenon
  <2> QED
    BY <2>1, <2>2, Zenon
<1> QED
  BY <1>5, <1>6, <1>7, <1>8, <1>9, <1>10, Together, Zenon

LEMMA GiveFacts ==
  ASSUME NEW Q, Types(Q), NEW r \in DOMAIN Q, got[r] = {}, NEW hs, Give(r, hs)
  PROVE  /\ DOMAIN got' = DOMAIN Q /\ got'[r] = hs
         /\ \A s \in DOMAIN Q : s # r => got'[s] = got[s]
<1>1. DOMAIN got = DOMAIN Q /\ got' = [got EXCEPT ![r] = got[r] \cup hs]
  BY Zenon DEF Types, Give
<1>2. DOMAIN got' = DOMAIN Q /\ got'[r] = got[r] \cup hs /\ \A s \in DOMAIN Q : s # r => got'[s] = got[s]
  BY <1>1, Zenon
<1>3. got[r] \cup hs = hs
  BY Zenon
<1> QED
  BY <1>2, <1>3, Zenon

(* The router without the filter. *)
LEMMA RouteKeeps ==
  ASSUME NEW Q, Q = Plans[plan].requests, Proper(Q), InvFor(Q), Route
  PROVE  InvFor(Q)'
<1>1. PICK m, r : m = Head(down) /\ r = m.req
  BY Zenon
<1>2. /\ down # <<>> /\ down' = Tail(down) /\ Give(r, Successors(m.group))
      /\ UNCHANGED <<todo, pc, cur, groupMap, mtx, ser, sci>>
  BY <1>1, Zenon DEF Route, net
<1>3. Types(Q) /\ Messages(Q)
  BY Parts, Zenon
<1>4. Message(Q, m) /\ r \in DOMAIN Q /\ m.group \in Int
  BY <1>1, <1>2, <1>3, FirstMessage, Zenon
<1>5. /\ got[r] = {}
      /\ Broadcasts(Q[r]) /\ Q[r].members \subseteq Hosts => m.group > 0 /\ sci[m.group] = Q[r].members
  BY <1>1, <1>4, Zenon DEF Message
<1>6. /\ DOMAIN got' = DOMAIN Q /\ got'[r] = Successors(m.group)
      /\ \A s \in DOMAIN Q : s # r => got'[s] = got[s]
  BY <1>2, <1>3, <1>4, <1>5, GiveFacts, Zenon
<1>7. Broadcasts(Q[r]) /\ Q[r].members \subseteq Hosts => got'[r] = Q[r].members
  <2>1. m.group > 0 => ~(m.group < 0)
    BY <1>4
  <2> QED
    BY <1>5, <1>6, <2>1, Zenon DEF Successors
<1>8. r = Head(down).req
  BY <1>1, Zenon
<1> QED
  BY <1>2, <1>6, <1>7, <1>8, DequeueKeeps, Zenon

LEMMA FilterInputKeeps ==
  ASSUME NEW Q, Q = Plans[plan].requests, Proper(Q), InvFor(Q), FilterInput
  PROVE  InvFor(Q)'
<1>1. PICK m, r : m = Head(down) /\ r = m.req
  BY Zenon
<1>2. /\ down # <<>> /\ down' = Tail(down) /\ Filtered(r)
      /\ UNCHANGED <<todo, pc, cur, groupMap, mtx, ser, sci>>
  BY <1>1, Zenon DEF FilterInput, net
<1>3. Types(Q) /\ Messages(Q)
  BY Parts, Zenon
<1>4. Message(Q, m) /\ r \in DOMAIN Q
  BY <1>1, <1>2, <1>3, FirstMessage, Zenon
<1>5. got[r] = {}
  BY <1>1, <1>4, Zenon DEF Message
<1>6. got' = got \/ \E host : Give(r, {host})
  BY <1>1, Zenon DEF FilterInput
<1>7. DOMAIN got' = DOMAIN Q /\ \A s \in DOMAIN Q : s # r => got'[s] = got[s]
  <2>1. CASE got' = got
    BY <1>3, <2>1, Zenon DEF Types
  <2>2. ASSUME NEW host, Give(r, {host})
        PROVE  DOMAIN got' = DOMAIN Q /\ \A s \in DOMAIN Q : s # r => got'[s] = got[s]
    BY <1>3, <1>4, <1>5, <2>2, GiveFacts, ZenonT(60)
  <2> QED
    BY <1>6, <2>1, <2>2, Zenon
<1>8. ~ Broadcasts(Q[r])
  BY <1>2 DEF Filtered, Req, Broadcasts
<1>9. r = Head(down).req
  BY <1>1, Zenon
<1> QED
  BY <1>2, <1>6, <1>7, <1>8, <1>9, DequeueKeeps, Zenon

(* Reports, reconnections, the cloudlets and the callbacks. *)
LEMMA StillKeeps ==
  ASSUME NEW Q, Proper(Q), InvFor(Q),
         UNCHANGED <<todo, pc, cur, groupMap, mtx, ser, sci, down, got>>
  PROVE  InvFor(Q)'
<1>1. /\ Types(Q) /\ Mapped(Q) /\ Apart /\ Vacant(Q) /\ Messages(Q) /\ Waiting
      /\ \A u \in Threads : ThreadAt(Q, u)
      /\ \A s \in DOMAIN Q : ReachedBy(Q, s)
  BY Zenon DEF InvFor
<1>2. \A u \in Threads : Rests(u)
  BY Zenon DEF Rests
<1>3. \A u \in Threads : ThreadAt(Q, u)'
  BY <1>1, <1>2, StillFrame, Zenon
<1>4. Messages(Q)'
  BY <1>1, MessagesFrame, Zenon
<1>5. \A s \in DOMAIN Q : ReachedBy(Q, s)'
  BY <1>1, Zenon DEF ReachedBy, Served
<1>6. Types(Q)' /\ Mapped(Q)'
  BY <1>1, Zenon DEF Types, Mapped
<1>7. Apart' /\ Vacant(Q)' /\ Waiting'
  BY <1>1, Zenon DEF Apart, Vacant, Waiting
<1> QED
  BY <1>3, <1>4, <1>5, <1>6, <1>7, Zenon DEF InvFor

LEMMA ThreadKeeps ==
  ASSUME NEW Q, Q = Plans[plan].requests, Proper(Q), InvFor(Q), NEW t \in Threads, Thread(t)
  PROVE  plan' = plan /\ InvFor(Q)'
<1>1. CASE Execute(t)
  BY <1>1, ExecuteKeeps, Zenon
<1>2. CASE Serialize(t)
  BY <1>2, SerializeKeeps, Zenon DEF Serialize
<1>3. CASE Find(t)
  <2>1. plan' = plan
    BY <1>3, Zenon DEF Find
  <2> QED
    BY <1>3, <2>1, FindKeeps, Zenon
<1>4. CASE Create(t)
  <2>1. plan' = plan
    BY <1>4, Zenon DEF Create
  <2> QED
    BY <1>4, <2>1, CreateKeeps, Zenon
<1>5. CASE Fill(t)
  <2>1. plan' = plan
    BY <1>5, Zenon DEF Fill
  <2> QED
    BY <1>5, <2>1, FillKeeps, Zenon
<1>6. CASE Send(t)
  <2>1. plan' = plan
    BY <1>6, Zenon DEF Send
  <2> QED
    BY <1>6, <2>1, SendKeeps, Zenon
<1>7. CASE FreeGroup(t)
  <2>1. plan' = plan
    BY <1>7, Zenon DEF FreeGroup
  <2> QED
    BY <1>7, <2>1, FreeGroupKeeps, Zenon
<1> QED
  BY <1>1, <1>2, <1>3, <1>4, <1>5, <1>6, <1>7, Zenon DEF Thread

LEMMA NextKeeps ==
  ASSUME DaemonInv, [Next]_vars
  PROVE  DaemonInv'
<1>1. PICK Q : Q = Plans[plan].requests
  BY Zenon
<1>2. plan \in DOMAIN Plans /\ InvFor(Q) /\ Proper(Q)
  BY <1>1, PlansProper, Zenon DEF DaemonInv
<1> SUFFICES plan' = plan /\ InvFor(Q)'
  BY <1>1, <1>2, Zenon DEF DaemonInv
<1>3. CASE \E t \in Threads : Thread(t)
  BY <1>1, <1>2, <1>3, ThreadKeeps, Zenon
<1>4. CASE FilterInput
  <2>1. plan' = plan
    BY <1>4, Zenon DEF FilterInput
  <2> QED
    BY <1>1, <1>2, <1>4, <2>1, FilterInputKeeps, Zenon
<1>5. CASE Route
  <2>1. plan' = plan
    BY <1>5, Zenon DEF Route
  <2> QED
    BY <1>1, <1>2, <1>5, <2>1, RouteKeeps, Zenon
<1>6. CASE \/ \E h \in Hosts : SetAvailibility(h) \/ Recovery(h) \/ Report(h) \/ BackHandler(h)
           \/ (\E l \in lines : DispatchExecute(l)) \/ UNCHANGED vars
  <2>1. plan' = plan /\ UNCHANGED <<todo, pc, cur, groupMap, mtx, ser, sci, down, got>>
    <3>1. CASE \E h \in Hosts : SetAvailibility(h) \/ Recovery(h)
      BY <3>1, Zenon DEF SetAvailibility, Recovery, net
    <3>2. CASE \E h \in Hosts : Report(h) \/ BackHandler(h)
      BY <3>2, Zenon DEF Report, BackHandler, net, filter
    <3>3. CASE \E l \in lines : DispatchExecute(l)
      BY <3>3, Zenon DEF DispatchExecute, net, filter
    <3>4. CASE UNCHANGED vars
      BY <3>4, Zenon DEF vars, net, filter
    <3> QED
      BY <1>6, <3>1, <3>2, <3>3, <3>4, Zenon
  <2> QED
    BY <1>2, <2>1, StillKeeps, Zenon
<1> QED
  BY <1>3, <1>4, <1>5, <1>6, Zenon DEF Next

LEMMA InitHolds ==
  ASSUME Init
  PROVE  DaemonInv
<1>1. PICK Q : Q = Plans[plan].requests
  BY Zenon
<1>2. /\ plan \in DOMAIN Plans /\ todo = DOMAIN Q
      /\ pc = [t \in Threads |-> "idle"] /\ cur = [t \in Threads |-> None]
      /\ groupMap = [n \in Names |-> None] /\ ser = None
      /\ sci = <<Hosts>> /\ down = <<>>
      /\ got = [r \in DOMAIN Q |-> {}]
  BY <1>1, Zenon DEF Init, Requests
<1>3. Proper(Q)
  BY <1>1, <1>2, PlansProper, Zenon
<1>4. \A t \in Threads : pc[t] = "idle" /\ cur[t] = None
  BY <1>2, Zenon
<1>5. Types(Q)
  <2>1. sci \in Seq({None} \cup SUBSET Hosts) /\ Len(sci) >= 1
    BY <1>2
  <2>2. down \in Seq([req : DOMAIN Q, group : Int])
    BY <1>2
  <2>3. pc \in [Threads -> Labels] /\ cur \in [Threads -> DOMAIN Q \cup {None}]
    BY <1>2, Zenon DEF Labels
  <2>4. todo \subseteq DOMAIN Q /\ DOMAIN got = DOMAIN Q
    BY <1>2, Zenon
  <2> QED
    BY <2>1, <2>2, <2>3, <2>4, Zenon DEF Types
<1>6. Mapped(Q)
  BY <1>2, Zenon DEF Mapped
<1>7. Apart
  <2>1. None \notin todo
    BY <1>2, <1>3, Zenon DEF Proper
  <2> QED
    BY <1>4, <2>1, Zenon DEF Apart
<1>8. Vacant(Q)
  <2>1. ForBroadcasts(Q) \subseteq Names
    BY <1>3, NamesIn, Zenon
  <2> QED
    BY <1>2, <2>1, Zenon DEF Vacant
<1>9. Messages(Q)
  <2>1. DOMAIN down = {}
    BY <1>2
  <2> QED
    BY <2>1, Zenon DEF Messages
<1>10. Waiting
  BY <1>2, Zenon DEF Waiting
<1>11. \A t \in Threads : ThreadAt(Q, t)
  BY <1>4, Zenon DEF ThreadAt, PlaceAt, Inside, AloneAt, OwnerAt, GivenAt
<1>12. \A r \in DOMAIN Q : ReachedBy(Q, r)
  BY <1>2, Zenon DEF ReachedBy, Served
<1> QED
  BY <1>1, <1>2, <1>5, <1>6, <1>7, <1>8, <1>9, <1>10, <1>11, <1>12, ZenonT(60) DEF DaemonInv, InvFor

(* DaemonInv is an invariant of the daemon. *)
THEOREM Inductive == Spec => []DaemonInv
<1>1. Init => DaemonInv
  BY InitHolds, Zenon
<1>2. DaemonInv /\ [Next]_vars => DaemonInv'
  BY NextKeeps, Zenon
<1> QED
  BY <1>1, <1>2, PTL DEF Spec

(* groupMessage: when the request "toall=name:members" has been answered,  *)
(* exactly the members have the command, for any number of threads,        *)
(* hypervisors and requests, as long as the names of broadcasts are used   *)
(* for nothing else.                                                       *)
THEOREM BroadcastsReach == Spec => []ToallReached
<1>1. DaemonInv => ToallReached
  <2> SUFFICES ASSUME DaemonInv
               PROVE  ToallReached
    BY Zenon
  <2>1. PICK Q : Q = Plans[plan].requests
    BY Zenon
  <2>2. \A r \in DOMAIN Q : ReachedBy(Q, r)
    BY <2>1, Zenon DEF DaemonInv, InvFor
  <2> SUFFICES ASSUME NEW r \in DOMAIN Q, Q[r].kind = "toall", Q[r].members # {},
                      Q[r].members \subseteq Hosts, ~Serving(r)
               PROVE  got[r] = Q[r].members
    BY <2>1, Zenon DEF ToallReached, Requests, Req, Described, Known
  <2>3. Served(r) /\ Broadcasts(Q[r])
    BY Zenon DEF Serving, Served, Broadcasts
  <2> QED
    BY <2>2, <2>3, Zenon DEF ReachedBy
<1> QED
  BY <1>1, Inductive, PTL

=============================================================================
