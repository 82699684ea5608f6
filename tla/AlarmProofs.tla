----------------------------- MODULE AlarmProofs -----------------------------
(***************************************************************************)
(* What holds of the alarm rules when requests run one after the other:    *)
(* rule rows have their group and their alert rules, link rows have their  *)
(* anchors, a recovery rebuilds the anchors that were lost, and node alarm *)
(* rules have their files.                                                 *)
(***************************************************************************)
EXTENDS Alarm, WellFoundedInduction, TLAPS

AllDirs == {"cpu", "memory", "in", "out"}

(* The directions of the rows of a rule_id, and of a request for it. *)
KDirs(r) == IF KindOf[r] = "bandwidth" THEN {"in", "out"} ELSE {KindOf[r]}

RuleRows == {x \in [pk : Nat, r : Rules, dir : AllDirs, g : Nat, alert : Nat] : x.dir \in KDirs(x.r)}

DbOk == fresh \in Nat /\ group \subseteq Nat /\ rule \subseteq RuleRows
N9eOk == ngroup \in Nat /\ cached \in Nat /\ \A a \in nalert : a.id \in Nat
AnchorOk ==
  \A a \in anchor :
    /\ a = [dir |-> a.dir, r |-> a.r, v |-> a.v, d |-> a.d, labels |-> a.labels, age |-> a.age]
    /\ a.labels # "none"
CallOk == call = [c \in AlarmClients |-> call[c]]
CountOk == count \in [AlarmEvents -> Nat]

RulesGrouped == \A x \in rule : x.g \in group

(* The requests, by the step that comes next. *)
VSets == {{}} \cup UNION {Sets(r) : r \in Rules}
Asked(k) == k.r \in Rules /\ k.todo \in Seq(KDirs(k.r)) /\ k.todo # <<>>
Creations == [pc : {"group", "newgroup"}, r : Rules, todo : Seq(AllDirs), V : VSets]
Insertions == [pc : {"insert", "n9e", "links"}, r : Rules, todo : Seq(AllDirs), V : VSets, g : Nat]
Deletions == [pc : {"unalert", "unrow", "count", "ungroup", "unngroup"}, r : Rules, row : RuleRows, g : Nat]
Renderings == [pc : {"render"}, pk : Nat, todo : Seq(STRING)]
Targetings == [pc : {"target"}, h : Hosts, on : BOOLEAN, todo : Seq({"node", "libvirt"})]

(* A creation has found or made its group, and nothing takes it away before *)
(* the rows are written.                                                   *)
Creates(k) ==
  /\ k.pc \in {"group", "newgroup"} => k \in Creations /\ Asked(k)
  /\ k.pc \in {"insert", "n9e", "links"} => k \in Insertions /\ Asked(k) /\ k.g \in group
  /\ k.pc \in {"alert", "store"} =>
       /\ Asked(k) /\ k.todo \in Seq(AllDirs) /\ k.V \in VSets /\ k.g \in group
       /\ k.pc = "store" => k.id \in Nat

(* A deletion takes the group only once no rule is left in it. *)
Deletes(k) ==
  /\ k.pc \in {"clear", "unlinkall"} => k.r \in Rules /\ k.row \in RuleRows /\ k.g \in Nat
  /\ k.pc \in {"unalert", "unrow", "count", "ungroup", "unngroup"} => k \in Deletions
  /\ k.pc = "ungroup" => \A x \in rule : x.g # k.g

Renders(k) ==
  /\ k.pc = "render" => k \in Renderings /\ k.todo # <<>>
  /\ k.pc = "target" => k \in Targetings /\ k.todo # <<>>

(* A series is the anchor of a link of rule r. *)
Of(s, l) == s.r = l.r /\ s.v = l.v /\ (KindOf[l.r] = "bandwidth" => s.d = l.d)

(* A recovery has read every link with a threshold that a rule serves. *)
Recovers(k) ==
  k.pc = "recover" =>
    /\ \A s \in k.S : s.labels # "none"
    /\ \A l \in vmlink : l.on /\ RowsOf(l.r) # {} => \E s \in k.S : Of(s, l)

(* The anchors are written before the link rows and deleted before them,    *)
(* those of other VMs or rules left alone.                                 *)
Quiet == NeverAsked({"disaster", "week"})
Anchors(k) ==
  /\ k.pc = "anchor" => /\ \A s \in k.S : s.labels # "none"
                        /\ \A t \in k.T : \E s \in k.S : Of(s, Link(k.r, t, TRUE))
  /\ k.pc = "sync" => \A a \in k.S : a.labels # "none"
  /\ k.pc = "linkrows" /\ Quiet => \A t \in k.T : Anchored(Link(k.r, t, TRUE))
  /\ Quiet => \A l \in vmlink : l.on /\ (k.pc = "unlinkrows" => l.r # k.r \/ l.v \notin k.V) => Anchored(l)

GroupSide(k) == Creates(k) /\ Deletes(k) /\ Renders(k)
AnchorSide(k) == Recovers(k) /\ Anchors(k)

AlarmInv ==
  /\ DbOk /\ N9eOk /\ AnchorOk /\ CallOk /\ CountOk /\ RulesGrouped
  /\ \A c \in AlarmClients : GroupSide(call[c]) /\ AnchorSide(call[c])

AlarmSerialInv == Serial => AlarmInv
-----------------------------------------------------------------------------
(* Operators. *)

(* The smallest number of a set exists. *)
LEMMA Least ==
  ASSUME NEW S, S \subseteq Nat, S # {}
  PROVE  \E x \in S : \A y \in S : x <= y
<1>1. IsWellFoundedOn(OpToRel(<, Nat), Nat)
  BY NatLessThanWellFounded, Zenon
<1>2. PICK x \in S : \A y \in S : ~(<<y, x>> \in OpToRel(<, Nat))
  BY <1>1, WFMin, Zenon
<1>3. \A y \in S : <<y, x>> \in OpToRel(<, Nat) <=> y < x
  BY Zenon DEF OpToRel
<1>4. \A y \in S : ~(y < x)
  BY <1>2, <1>3, Zenon
<1>5. \A y \in S : x <= y
  BY <1>4
<1> QED
  BY <1>5, Zenon

(* First() finds one of the rows. *)
LEMMA FirstRowIn ==
  ASSUME NEW S, S \subseteq RuleRows, S # {}
  PROVE  FirstRow(S) \in S
<1> DEFINE P == {x.pk : x \in S}
<1>1. P \subseteq Nat /\ P # {}
  BY Zenon DEF RuleRows
<1>2. PICK m \in P : \A n \in P : m <= n
  BY <1>1, Least, Zenon
<1>3. PICK x \in S : m = x.pk
  BY Zenon
<1>4. \A y \in S : x.pk <= y.pk
  BY <1>2, <1>3, Zenon
<1> QED
  BY <1>4, Zenon DEF FirstRow

LEMMA FirstGroupIn ==
  ASSUME group \subseteq Nat, group # {}
  PROVE  FirstGroup \in group
<1>1. \E g \in group : \A h \in group : g <= h
  BY Least, Zenon
<1> QED
  BY <1>1, Zenon DEF FirstGroup

(* The directions still to do. *)
LEMMA SeqSteps ==
  ASSUME NEW D, NEW s \in Seq(D), s # <<>>
  PROVE  Head(s) \in D /\ Tail(s) \in Seq(D) /\ (Len(s) # 1 => Tail(s) # <<>>)
<1>1. Head(s) \in D /\ Tail(s) \in Seq(D) /\ Len(Tail(s)) = Len(s) - 1
  OBVIOUS
<1>2. Len(s) # 1 => Len(Tail(s)) # 0
  BY <1>1
<1>3. Len(<<>>) = 0
  BY Zenon
<1> QED
  BY <1>1, <1>2, <1>3, Zenon

LEMMA SeqOver ==
  ASSUME NEW D, NEW E, D \subseteq E, NEW s \in Seq(D)
  PROVE  s \in Seq(E)
OBVIOUS

LEMMA KDirsIn ==
  ASSUME NEW r \in Rules
  PROVE  KDirs(r) \subseteq AllDirs
BY KindOfAssumption, Zenon DEF KDirs, AllDirs

LEMMA OneClient ==
  ASSUME Serial, NEW c \in AlarmClients, NEW d \in AlarmClients
  PROVE  c = d
<1>1. PICK x : AlarmClients = {x}
  BY Zenon DEF Serial
<1> QED
  BY <1>1, Zenon
-----------------------------------------------------------------------------
(* Steps of a request. *)

(* How often each event happened only grows. *)
Counted == CountOk' /\ (Quiet' => Quiet)

LEMMA DrawCounts ==
  ASSUME CountOk, NEW e \in AlarmEvents, Draw(e)
  PROVE  Counted /\ (e \in {"disaster", "week"} => ~Quiet')
<1>1. count' \in [AlarmEvents -> Nat] /\ count'[e] = count[e] + 1 /\ \A f \in AlarmEvents : f # e => count'[f] = count[f]
  BY DEF Draw, CountOk
<1>2. {"disaster", "week"} \subseteq AlarmEvents
  BY Zenon DEF AlarmEvents
<1>3. count'[e] # 0
  BY <1>1 DEF CountOk
<1> QED
  BY <1>1, <1>2, <1>3, Zenon DEF Counted, CountOk, Quiet, NeverAsked

LEMMA NoDrawCounts ==
  ASSUME CountOk, NoDraw
  PROVE  Counted
BY Zenon DEF NoDraw, Counted, CountOk, Quiet, NeverAsked

LEMMA Continues ==
  ASSUME CallOk, NEW c \in AlarmClients, NEW q, Continue(c, q)
  PROVE  CallOk' /\ call'[c] = q
BY Zenon DEF CallOk, Continue

(* A step that keeps what the request owes keeps the invariant. *)
LEMMA Moves ==
  ASSUME Serial, NEW c \in AlarmClients, CallOk', DbOk', N9eOk', AnchorOk', Counted, RulesGrouped',
         GroupSide(call[c])', AnchorSide(call[c])'
  PROVE  AlarmInv'
<1>1. ASSUME NEW d \in AlarmClients PROVE d = c
  BY OneClient, Zenon
<1>2. ASSUME NEW d \in AlarmClients PROVE GroupSide(call[d])' /\ AnchorSide(call[d])'
  BY <1>1, <1>2, Zenon
<1> QED
  BY <1>2, Zenon DEF AlarmInv, Counted

RowsKept == group' = group /\ rule' = rule /\ fresh' = fresh
N9eKept == ngroup' = ngroup /\ cached' = cached /\ nalert' = nalert

LEMMA RowsStay ==
  ASSUME AlarmInv, RowsKept
  PROVE  DbOk' /\ RulesGrouped'
BY Zenon DEF AlarmInv, RowsKept, DbOk, RulesGrouped

LEMMA N9eStay ==
  ASSUME AlarmInv, N9eKept
  PROVE  N9eOk'
BY Zenon DEF AlarmInv, N9eKept, N9eOk

LEMMA AnchorsStay ==
  ASSUME AlarmInv, anchor' = anchor
  PROVE  AnchorOk'
BY Zenon DEF AlarmInv, AnchorOk

(* The steps whose requests say something about anchors. *)
AnchorPcs == {"recover", "anchor", "sync", "linkrows", "unlinkrows"}
GroupPcs == {"group", "newgroup", "insert", "n9e", "links", "alert", "store", "clear", "unlinkall", "unalert",
             "unrow", "count", "ungroup", "unngroup", "render", "target"}

LEMMA AnchorFrame ==
  ASSUME NEW c \in AlarmClients, AnchorSide(call[c]), call[c].pc \notin AnchorPcs, call'[c].pc \notin AnchorPcs,
         \A l \in vmlink' : l.on => l \in vmlink, anchor' = anchor, Counted
  PROVE  AnchorSide(call[c])'
<1>1. Recovers(call[c])'
  BY Zenon DEF Recovers, AnchorPcs
<1>2. ASSUME Quiet', NEW l \in vmlink', l.on PROVE Anchored(l)'
  <2>1. Anchored(l)
    BY <1>2, Zenon DEF AnchorSide, Anchors, AnchorPcs, Counted
  <2> QED
    BY <2>1, Zenon DEF Anchored
<1> QED
  BY <1>1, <1>2, Zenon DEF AnchorSide, Anchors, AnchorPcs

LEMMA GroupFrame ==
  ASSUME NEW c \in AlarmClients, call'[c].pc \notin GroupPcs
  PROVE  GroupSide(call[c])'
BY Zenon DEF GroupSide, Creates, Deletes, Renders, GroupPcs

LEMMA Known ==
  ASSUME AlarmInv, NEW c \in AlarmClients
  PROVE  /\ DbOk /\ N9eOk /\ AnchorOk /\ CallOk /\ CountOk /\ RulesGrouped
         /\ GroupSide(call[c]) /\ AnchorSide(call[c])
BY Zenon DEF AlarmInv
-----------------------------------------------------------------------------
(* Creation. *)

LEMMA CreateStarts ==
  ASSUME Serial, AlarmInv, NEW c \in AlarmClients, NEW r \in Rules, NEW V \in VSets,
         NEW dirs \in Seq(KDirs(r)), dirs # <<>>, CreateN9ERule(c, r, dirs, V)
  PROVE  AlarmInv'
<1>1. call[c].pc = "idle" /\ Draw("create") /\ vmlink' = vmlink /\ anchor' = anchor /\ RowsKept /\ N9eKept
  BY Zenon DEF CreateN9ERule, FreeClient, RowsKept, N9eKept, n9e
<1>2. CallOk' /\ call'[c] = [pc |-> "group", r |-> r, todo |-> dirs, V |-> V]
  BY Known, Continues, Zenon DEF CreateN9ERule
<1>3. Counted
  BY <1>1, Known, DrawCounts, Zenon DEF AlarmEvents
<1>4. dirs \in Seq(AllDirs)
  BY KDirsIn, SeqOver, Zenon
<1>5. GroupSide(call[c])'
  BY <1>2, <1>4 DEF GroupSide, Creates, Deletes, Renders, Creations, Asked
<1>6. call'[c].pc = "group"
  BY <1>2
<1>7. AnchorSide(call[c])'
  BY <1>1, <1>3, <1>6, Known, AnchorFrame, Zenon DEF AnchorPcs
<1> QED
  BY <1>1, <1>2, <1>3, <1>5, <1>7, Moves, RowsStay, N9eStay, AnchorsStay, Zenon

LEMMA FindGroupMoves ==
  ASSUME Serial, AlarmInv, NEW c \in AlarmClients, FindGroup(c)
  PROVE  AlarmInv'
<1>1. call[c].pc = "group" /\ NoDraw /\ vmlink' = vmlink /\ anchor' = anchor /\ RowsKept /\ N9eKept
  BY Zenon DEF FindGroup, RowsKept, N9eKept, n9e
<1>2. call[c] \in Creations /\ Asked(call[c])
  BY <1>1, Known, Zenon DEF GroupSide, Creates
<1>3. Counted
  BY <1>1, Known, NoDrawCounts, Zenon
<1>4. CASE group = {}
  <2>1. CallOk' /\ call'[c] = [call[c] EXCEPT !.pc = "newgroup"]
    BY <1>4, Known, Continues, Zenon DEF FindGroup
  <2>2. call'[c] \in Creations /\ call'[c].pc = "newgroup" /\ Asked(call'[c])
    BY <1>2, <2>1, Zenon DEF Creations, Asked
  <2>3. GroupSide(call[c])'
    BY <2>2, Zenon DEF GroupSide, Creates, Deletes, Renders, Asked
  <2>4. AnchorSide(call[c])'
    BY <1>1, <1>3, <2>2, Known, AnchorFrame, Zenon DEF AnchorPcs
  <2> QED
    BY <1>1, <1>3, <2>1, <2>3, <2>4, Moves, RowsStay, N9eStay, AnchorsStay, Zenon
<1>5. CASE group # {}
  <2>1. CallOk' /\ call'[c] = [pc |-> "insert", r |-> call[c].r, todo |-> call[c].todo, V |-> call[c].V,
                              g |-> FirstGroup]
    BY <1>5, Known, Continues, Zenon DEF FindGroup
  <2>2. FirstGroup \in group /\ group \subseteq Nat
    BY <1>5, Known, FirstGroupIn, Zenon DEF DbOk
  <2>3. /\ call'[c] \in Insertions /\ call'[c].pc = "insert" /\ call'[c].g = FirstGroup
        /\ call'[c].r = call[c].r /\ call'[c].todo = call[c].todo
    BY <1>2, <2>1, <2>2 DEF Creations, Insertions
  <2>4. GroupSide(call[c])'
    BY <1>1, <1>2, <2>2, <2>3, Zenon DEF GroupSide, Creates, Deletes, Renders, Asked, RowsKept
  <2>5. AnchorSide(call[c])'
    BY <1>1, <1>3, <2>3, Known, AnchorFrame, Zenon DEF AnchorPcs
  <2> QED
    BY <1>1, <1>3, <2>1, <2>4, <2>5, Moves, RowsStay, N9eStay, AnchorsStay, Zenon
<1> QED
  BY <1>4, <1>5, Zenon

(* A step that touches no anchor and no threshold. *)
LEMMA Goes ==
  ASSUME Serial, AlarmInv, NEW c \in AlarmClients, call[c].pc \notin AnchorPcs, call'[c].pc \notin AnchorPcs,
         \A l \in vmlink' : l.on => l \in vmlink, anchor' = anchor, Counted,
         CallOk', DbOk', N9eOk', RulesGrouped', GroupSide(call[c])'
  PROVE  AlarmInv'
<1>1. AnchorSide(call[c])'
  BY Known, AnchorFrame, Zenon
<1> QED
  BY <1>1, Moves, AnchorsStay, Zenon

(* A request that returns owes nothing more. *)
LEMMA Returns ==
  ASSUME Serial, AlarmInv, NEW c \in AlarmClients, call[c].pc \notin AnchorPcs, Return(c), Counted,
         \A l \in vmlink' : l.on => l \in vmlink, anchor' = anchor, DbOk', N9eOk', RulesGrouped'
  PROVE  AlarmInv'
<1>1. CallOk' /\ call'[c] = [pc |-> "idle"]
  BY Known, Continues, Zenon DEF Return
<1>2. call'[c].pc = "idle"
  BY <1>1
<1>3. GroupSide(call[c])'
  BY <1>2, GroupFrame, Zenon DEF GroupPcs
<1>4. AnchorSide(call[c])'
  BY <1>2, Known, AnchorFrame, Zenon DEF AnchorPcs
<1> QED
  BY <1>1, <1>3, <1>4, Moves, AnchorsStay, Zenon

LEMMA CreateGroupMoves ==
  ASSUME Serial, AlarmInv, NEW c \in AlarmClients, CreateGroup(c)
  PROVE  AlarmInv'
<1>1. call[c].pc = "newgroup" /\ vmlink' = vmlink /\ anchor' = anchor /\ N9eKept /\ rule' = rule
  BY Zenon DEF CreateGroup, N9eKept, n9e
<1>2. call[c] \in Creations /\ Asked(call[c]) /\ DbOk /\ RulesGrouped /\ CallOk /\ CountOk
  BY <1>1, Known, Zenon DEF GroupSide, Creates
<1>3. CASE Draw("dbfail") /\ Return(c) /\ UNCHANGED <<group, fresh>>
  <2>1. Counted
    BY <1>2, <1>3, DrawCounts, Zenon DEF AlarmEvents
  <2>2. RowsKept
    BY <1>1, <1>3, Zenon DEF RowsKept
  <2> QED
    BY <1>1, <1>3, <2>1, <2>2, Returns, RowsStay, N9eStay, Zenon DEF AnchorPcs
<1>4. CASE /\ group' = group \cup {fresh} /\ fresh' = fresh + 1 /\ NoDraw
           /\ Continue(c, [pc |-> "insert", r |-> call[c].r, todo |-> call[c].todo, V |-> call[c].V, g |-> fresh])
  <2>1. Counted
    BY <1>2, <1>4, NoDrawCounts, Zenon
  <2>2. CallOk' /\ call'[c] = [pc |-> "insert", r |-> call[c].r, todo |-> call[c].todo, V |-> call[c].V, g |-> fresh]
    BY <1>2, <1>4, Continues, Zenon
  <2>3. DbOk' /\ fresh \in Nat
    <3>1. fresh' = fresh + 1 /\ group' = group \cup {fresh} /\ rule' = rule
      BY <1>1, <1>4, Zenon
    <3>2. fresh \in Nat /\ group \subseteq Nat /\ rule \subseteq RuleRows
      BY <1>2, Zenon DEF DbOk
    <3>3. fresh' \in Nat
      BY <3>1, <3>2
    <3> QED
      BY <3>1, <3>2, <3>3, Zenon DEF DbOk
  <2>4. RulesGrouped' /\ fresh \in group'
    BY <1>1, <1>2, <1>4, Zenon DEF RulesGrouped
  <2>5. /\ call'[c] \in Insertions /\ call'[c].pc = "insert" /\ call'[c].g = fresh
        /\ call'[c].r = call[c].r /\ call'[c].todo = call[c].todo
    BY <1>2, <2>2, <2>3 DEF Creations, Insertions
  <2>6. GroupSide(call[c])'
    BY <1>2, <2>4, <2>5, Zenon DEF GroupSide, Creates, Deletes, Renders, Asked
  <2>7. AnchorSide(call[c])'
    BY <1>1, <2>1, <2>5, Known, AnchorFrame, Zenon DEF AnchorPcs
  <2> QED
    BY <1>1, <2>1, <2>2, <2>3, <2>4, <2>6, <2>7, Moves, N9eStay, AnchorsStay, Zenon
<1> QED
  BY <1>3, <1>4, Zenon DEF CreateGroup

(* A creation goes on with its group, or returns. *)
NextOk(q, g) == q.pc = "idle" \/ (q \in Insertions /\ Asked(q) /\ q.g = g)

LEMMA InsertionGoes ==
  ASSUME Serial, AlarmInv, NEW c \in AlarmClients, call[c].pc \notin AnchorPcs, NEW g, g \in group',
         NextOk(call'[c], g), \A l \in vmlink' : l.on => l \in vmlink, anchor' = anchor, Counted,
         CallOk', DbOk', N9eOk', RulesGrouped'
  PROVE  AlarmInv'
<1>1. CASE call'[c].pc = "idle"
  <2>1. GroupSide(call[c])'
    BY <1>1, GroupFrame, Zenon DEF GroupPcs
  <2> QED
    BY <1>1, <2>1, Goes, Zenon DEF AnchorPcs
<1>2. CASE call'[c] \in Insertions /\ Asked(call'[c]) /\ call'[c].g = g
  <2>1. call'[c].pc \in {"insert", "n9e", "links"}
    BY <1>2, Zenon DEF Insertions
  <2>2. GroupSide(call[c])'
    BY <1>2, <2>1, Zenon DEF GroupSide, Creates, Deletes, Renders, Asked
  <2> QED
    BY <2>1, <2>2, Goes, Zenon DEF AnchorPcs
<1> QED
  BY <1>1, <1>2, Zenon DEF NextOk

LEMMA NextLegOk ==
  ASSUME NEW k \in Insertions, Asked(k), Len(k.todo) # 1
  PROVE  NextOk([k EXCEPT !.pc = "insert", !.todo = Tail(@)], k.g)
<1>1. /\ Tail(k.todo) \in Seq(KDirs(k.r)) /\ Tail(k.todo) # <<>> /\ k.r \in Rules
  BY SeqSteps, Zenon DEF Asked
<1>2. Tail(k.todo) \in Seq(AllDirs)
  BY <1>1, KDirsIn, SeqOver, Zenon
<1>3. PICK t \in Seq(AllDirs) : t = Tail(k.todo)
  BY <1>2, Zenon
<1>4. PICK q : q = [k EXCEPT !.pc = "insert", !.todo = t]
  BY Zenon
<1>5. q \in Insertions /\ q.todo = t /\ q.r = k.r /\ q.g = k.g
  BY <1>4, Zenon DEF Insertions
<1> QED
  BY <1>1, <1>3, <1>4, <1>5, Zenon DEF NextOk, Asked

LEMMA InsertionTo ==
  ASSUME NEW k \in Insertions, Asked(k), NEW p \in {"insert", "n9e", "links"}
  PROVE  NextOk([k EXCEPT !.pc = p], k.g)
<1>1. PICK q : q = [k EXCEPT !.pc = p]
  BY Zenon
<1>2. q \in Insertions /\ q.todo = k.todo /\ q.r = k.r /\ q.g = k.g
  BY <1>1, Zenon DEF Insertions
<1> QED
  BY <1>1, <1>2, Zenon DEF NextOk, Asked

LEMMA AfterAlertOk ==
  ASSUME NEW k \in Insertions, Asked(k)
  PROVE  NextOk(AfterAlert(k), k.g)
<1>1. NextOk([pc |-> "idle"], k.g)
  BY Zenon DEF NextOk
<1> QED
  BY <1>1, NextLegOk, InsertionTo, Zenon DEF AfterAlert

LEMMA ToLinksOk ==
  ASSUME NEW k, Asked(k), k.todo \in Seq(AllDirs), k.V \in VSets, k.g \in Nat
  PROVE  NextOk(ToLinks(k), k.g)
<1>1. PICK q : q = ToLinks(k)
  BY Zenon
<1>2. q \in Insertions /\ q.todo = k.todo /\ q.r = k.r /\ q.g = k.g
  BY <1>1, Zenon DEF Insertions, ToLinks, Asked
<1> QED
  BY <1>1, <1>2, Zenon DEF NextOk, Asked

LEMMA InsertRuleMoves ==
  ASSUME Serial, AlarmInv, NEW c \in AlarmClients, InsertRule(c)
  PROVE  AlarmInv'
<1>1. call[c].pc = "insert" /\ vmlink' = vmlink /\ anchor' = anchor /\ N9eKept /\ group' = group
  BY Zenon DEF InsertRule, N9eKept, n9e
<1>2. /\ call[c] \in Insertions /\ Asked(call[c]) /\ call[c].g \in group
      /\ DbOk /\ RulesGrouped /\ CallOk /\ CountOk
  BY <1>1, Known, Zenon DEF GroupSide, Creates
<1>3. CASE Draw("dbfail") /\ Return(c) /\ UNCHANGED <<rule, fresh>>
  <2>1. Counted
    BY <1>2, <1>3, DrawCounts, Zenon DEF AlarmEvents
  <2>2. RowsKept
    BY <1>1, <1>3, Zenon DEF RowsKept
  <2> QED
    BY <1>1, <1>3, <2>1, <2>2, Returns, RowsStay, N9eStay, Zenon DEF AnchorPcs
<1> DEFINE new == [pk |-> fresh, r |-> call[c].r, dir |-> Head(call[c].todo), g |-> call[c].g, alert |-> 0]
<1>4. CASE /\ rule' = rule \cup {new} /\ fresh' = fresh + 1 /\ NoDraw
           /\ Continue(c, [call[c] EXCEPT !.pc = "n9e"])
  <2>1. Counted
    BY <1>2, <1>4, NoDrawCounts, Zenon
  <2>2. CallOk' /\ call'[c] = [call[c] EXCEPT !.pc = "n9e"]
    BY <1>2, <1>4, Continues, Zenon
  <2>3. new \in RuleRows /\ new.g \in group
    <3>1. Head(call[c].todo) \in KDirs(call[c].r) /\ call[c].r \in Rules
      BY <1>2, SeqSteps, Zenon DEF Asked
    <3>2. Head(call[c].todo) \in AllDirs
      BY <3>1, KDirsIn, Zenon
    <3>3. fresh \in Nat /\ call[c].g \in Nat
      BY <1>2, Zenon DEF DbOk
    <3> QED
      BY <1>2, <3>1, <3>2, <3>3, Zenon DEF RuleRows
  <2> HIDE DEF new
  <2>4. DbOk'
    BY <1>1, <1>2, <1>4, <2>3 DEF DbOk
  <2>5. RulesGrouped'
    BY <1>1, <1>2, <1>4, <2>3, Zenon DEF RulesGrouped
  <2>6. NextOk(call'[c], call[c].g) /\ call[c].g \in group'
    BY <1>1, <1>2, <2>2, InsertionTo, Zenon
  <2> QED
    BY <1>1, <2>1, <2>2, <2>4, <2>5, <2>6, InsertionGoes, N9eStay, Zenon DEF AnchorPcs
<1> QED
  BY <1>3, <1>4, Zenon DEF InsertRule

(* The alert of the rule is created next. *)
LEMMA AlertNext ==
  ASSUME Serial, AlarmInv, NEW c \in AlarmClients, call[c].pc \notin AnchorPcs,
         call'[c].pc \in {"alert", "store"}, Asked(call[c])', call'[c].todo \in Seq(AllDirs), call'[c].V \in VSets,
         call'[c].g \in group', call'[c].pc = "store" => call'[c].id \in Nat,
         vmlink' = vmlink, anchor' = anchor, Counted, CallOk', DbOk', N9eOk', RulesGrouped'
  PROVE  AlarmInv'
<1>1. GroupSide(call[c])'
  BY Zenon DEF GroupSide, Creates, Deletes, Renders
<1> QED
  BY <1>1, Goes, Zenon DEF AnchorPcs

LEMMA GetOrCreateBusinessGroupMoves ==
  ASSUME Serial, AlarmInv, NEW c \in AlarmClients, GetOrCreateBusinessGroup(c)
  PROVE  AlarmInv'
<1>1. /\ call[c].pc = "n9e" /\ vmlink' = vmlink /\ anchor' = anchor /\ nalert' = nalert
      /\ group' = group /\ rule' = rule
  BY Zenon DEF GetOrCreateBusinessGroup
<1>2. /\ call[c] \in Insertions /\ Asked(call[c]) /\ call[c].g \in group
      /\ DbOk /\ N9eOk /\ RulesGrouped /\ CallOk /\ CountOk
  BY <1>1, Known, Zenon DEF GroupSide, Creates
<1>3. RulesGrouped'
  BY <1>1, <1>2, Zenon DEF RulesGrouped
<1>4. CASE Draw("n9efail") /\ Continue(c, AfterAlert(call[c])) /\ UNCHANGED <<ngroup, cached, fresh>>
  <2>1. Counted
    BY <1>2, <1>4, DrawCounts, Zenon DEF AlarmEvents
  <2>2. RowsKept /\ N9eKept
    BY <1>1, <1>4, Zenon DEF RowsKept, N9eKept
  <2>3. CallOk' /\ call'[c] = AfterAlert(call[c])
    BY <1>2, <1>4, Continues, Zenon
  <2>4. NextOk(call'[c], call[c].g) /\ call[c].g \in group'
    BY <1>1, <1>2, <2>3, AfterAlertOk, Zenon
  <2> QED
    BY <1>1, <2>1, <2>2, <2>3, <2>4, InsertionGoes, RowsStay, N9eStay, Zenon DEF AnchorPcs
<1>5. ASSUME NEW n \in Nat, cached' = n, ngroup' \in Nat, fresh' \in Nat, NoDraw, Continue(c, ToAlert(call[c], n))
      PROVE  AlarmInv'
  <2>1. Counted
    BY <1>2, <1>5, NoDrawCounts, Zenon
  <2>2. CallOk' /\ call'[c] = ToAlert(call[c], n)
    BY <1>2, <1>5, Continues, Zenon
  <2>3. DbOk' /\ N9eOk'
    BY <1>1, <1>2, <1>5, Zenon DEF DbOk, N9eOk
  <2>4. /\ call'[c].pc = "alert" /\ call'[c].r = call[c].r /\ call'[c].todo = call[c].todo
        /\ call'[c].V = call[c].V /\ call'[c].g = call[c].g
    BY <2>2 DEF ToAlert
  <2>5. call[c].todo \in Seq(AllDirs) /\ call[c].V \in VSets
    BY <1>2, Zenon DEF Insertions
  <2>6. Asked(call[c])'
    BY <1>2, <2>4, Zenon DEF Asked
  <2>7. call'[c].todo \in Seq(AllDirs) /\ call'[c].V \in VSets /\ call'[c].g \in group'
    BY <1>1, <1>2, <2>4, <2>5, Zenon
  <2> QED
    BY <1>1, <1>3, <2>1, <2>2, <2>3, <2>4, <2>6, <2>7, AlertNext, Zenon DEF AnchorPcs
<1>6. GetBusinessGroupByName \in Nat /\ ngroup \in Nat /\ cached \in Nat /\ fresh \in Nat /\ fresh + 1 \in Nat
  BY <1>2 DEF GetBusinessGroupByName, N9eOk, DbOk
<1>7. CASE /\ cached' = GetBusinessGroupByName
           /\ Continue(c, ToAlert(call[c], GetBusinessGroupByName)) /\ NoDraw /\ UNCHANGED <<ngroup, fresh>>
  BY <1>5, <1>6, <1>7, Zenon
<1>8. CASE /\ ngroup' = fresh /\ cached' = fresh /\ fresh' = fresh + 1
           /\ Continue(c, ToAlert(call[c], fresh)) /\ NoDraw
  BY <1>5, <1>6, <1>8, Zenon
<1> QED
  BY <1>4, <1>7, <1>8, Zenon DEF GetOrCreateBusinessGroup

LEMMA CreateAlertRuleMoves ==
  ASSUME Serial, AlarmInv, NEW c \in AlarmClients, CreateAlertRule(c)
  PROVE  AlarmInv'
<1>1. /\ call[c].pc = "alert" /\ vmlink' = vmlink /\ anchor' = anchor /\ ngroup' = ngroup /\ cached' = cached
      /\ group' = group /\ rule' = rule
  BY Zenon DEF CreateAlertRule
<1>2. /\ Asked(call[c]) /\ call[c].todo \in Seq(AllDirs) /\ call[c].V \in VSets /\ call[c].g \in group
      /\ DbOk /\ N9eOk /\ RulesGrouped /\ CallOk /\ CountOk
  BY <1>1, Known, Zenon DEF GroupSide, Creates
<1>3. RulesGrouped'
  BY <1>1, <1>2, Zenon DEF RulesGrouped
<1> DEFINE name == NameOf(call[c].r, Head(call[c].todo))
           same == {a \in nalert : a.n = call[c].n /\ a.name = name}
           new == [id |-> fresh, n |-> call[c].n, name |-> name, r |-> call[c].r, dir |-> Head(call[c].todo)]
           store(id) == [pc |-> "store", r |-> call[c].r, todo |-> call[c].todo, V |-> call[c].V, g |-> call[c].g,
                         id |-> id]
           kept == nalert' = nalert /\ fresh' = fresh
           added == nalert' = nalert \cup {new} /\ fresh' = fresh + 1
<1>4. kept \/ added => DbOk' /\ N9eOk'
  <2>1. CASE kept
    BY <1>1, <1>2, <2>1, Zenon DEF DbOk, N9eOk
  <2>2. CASE added
    <3>1. new.id = fresh /\ fresh \in Nat /\ fresh + 1 \in Nat
      BY <1>2 DEF DbOk
    <3> HIDE DEF new
    <3> QED
      BY <1>1, <1>2, <2>2, <3>1, Zenon DEF DbOk, N9eOk
  <2> QED
    BY <2>1, <2>2, Zenon
<1>5. ASSUME DbOk', N9eOk', Counted, Continue(c, ToLinks(call[c])) PROVE AlarmInv'
  <2>1. CallOk' /\ call'[c] = ToLinks(call[c])
    BY <1>2, <1>5, Continues, Zenon
  <2>2. NextOk(call'[c], call[c].g) /\ call[c].g \in group'
    <3>1. call[c].g \in Nat
      BY <1>2, Zenon DEF DbOk
    <3> QED
      BY <1>1, <1>2, <2>1, <3>1, ToLinksOk, Zenon
  <2> QED
    BY <1>1, <1>3, <1>5, <2>1, <2>2, InsertionGoes, Zenon DEF AnchorPcs
<1>6. ASSUME DbOk', N9eOk', NoDraw, NEW i \in Nat, Continue(c, store(i)) PROVE AlarmInv'
  <2>1. CallOk' /\ call'[c] = store(i)
    BY <1>2, <1>6, Continues, Zenon
  <2>2. /\ call'[c].pc = "store" /\ call'[c].r = call[c].r /\ call'[c].todo = call[c].todo
        /\ call'[c].V = call[c].V /\ call'[c].g = call[c].g /\ call'[c].id = i
    BY <2>1
  <2>3. Counted
    BY <1>2, <1>6, NoDrawCounts, Zenon
  <2>4. Asked(call[c])'
    BY <1>2, <2>2, Zenon DEF Asked
  <2>5. call'[c].todo \in Seq(AllDirs) /\ call'[c].V \in VSets /\ call'[c].g \in group' /\ call'[c].id \in Nat
    BY <1>1, <1>2, <1>6, <2>2, Zenon
  <2> QED
    BY <1>1, <1>3, <1>6, <2>1, <2>2, <2>3, <2>4, <2>5, AlertNext, Zenon DEF AnchorPcs
<1>7. Draw("n9efail") \/ NoDraw => Counted
  BY <1>2, DrawCounts, NoDrawCounts, Zenon DEF AlarmEvents
<1>8. CASE same # {} /\ NoDraw /\ Continue(c, store((CHOOSE a \in same : TRUE).id)) /\ kept
  <2>1. (CHOOSE a \in same : TRUE) \in nalert
    BY <1>8, Zenon
  <2>2. (CHOOSE a \in same : TRUE).id \in Nat
    BY <1>2, <2>1, Zenon DEF N9eOk
  <2> HIDE DEF same, store
  <2> QED
    BY <1>4, <1>6, <1>8, <2>2, Zenon
<1>9. CASE added /\ Continue(c, store(fresh)) /\ NoDraw
  <2>1. fresh \in Nat
    BY <1>2, Zenon DEF DbOk
  <2> HIDE DEF added, store
  <2> QED
    BY <1>4, <1>6, <1>9, <2>1, Zenon
<1>10. CASE (added \/ kept) /\ (Draw("n9efail") \/ NoDraw) /\ Continue(c, ToLinks(call[c]))
  <2> HIDE DEF added, kept
  <2> QED
    BY <1>4, <1>5, <1>7, <1>10, Zenon
<1> QED
  BY <1>8, <1>9, <1>10, Zenon DEF CreateAlertRule

LEMMA StoreAlertIDMoves ==
  ASSUME Serial, AlarmInv, NEW c \in AlarmClients, StoreAlertID(c)
  PROVE  AlarmInv'
<1>1. /\ call[c].pc = "store" /\ vmlink' = vmlink /\ anchor' = anchor /\ N9eKept /\ group' = group /\ fresh' = fresh
      /\ Continue(c, ToLinks(call[c]))
  BY Zenon DEF StoreAlertID, N9eKept, n9e
<1>2. /\ Asked(call[c]) /\ call[c].todo \in Seq(AllDirs) /\ call[c].V \in VSets /\ call[c].g \in group
      /\ call[c].id \in Nat /\ DbOk /\ RulesGrouped /\ CallOk /\ CountOk
  BY <1>1, Known, Zenon DEF GroupSide, Creates
<1> DEFINE stored(x) == [x EXCEPT !.alert = call[c].id]
<1>3. Counted /\ (\/ rule' = rule
                 \/ rule' = (rule \ RowsOf(call[c].r)) \cup {stored(x) : x \in RowsOf(call[c].r)})
  BY <1>2, DrawCounts, NoDrawCounts, Zenon DEF StoreAlertID, AlarmEvents
<1>4. ASSUME NEW x \in RuleRows PROVE stored(x) \in RuleRows /\ stored(x).g = x.g
  BY <1>2, <1>4, Zenon DEF RuleRows
<1> HIDE DEF stored
<1>5. ASSUME NEW y \in rule' PROVE y \in RuleRows /\ y.g \in group
  <2>1. \A x \in rule : x \in RuleRows /\ x.g \in group
    BY <1>2, Zenon DEF DbOk, RulesGrouped
  <2>2. y \in rule \/ \E x \in RowsOf(call[c].r) : y = stored(x)
    BY <1>3, <1>5, Zenon
  <2>3. RowsOf(call[c].r) \subseteq rule
    BY Zenon DEF RowsOf
  <2> QED
    BY <1>4, <2>1, <2>2, <2>3, Zenon
<1>6. DbOk' /\ RulesGrouped'
  BY <1>1, <1>2, <1>5, Zenon DEF DbOk, RulesGrouped
<1>7. CallOk' /\ call'[c] = ToLinks(call[c])
  BY <1>1, <1>2, Continues, Zenon
<1>8. call[c].g \in Nat
  BY <1>2, Zenon DEF DbOk
<1>9. NextOk(call'[c], call[c].g) /\ call[c].g \in group'
  BY <1>1, <1>2, <1>7, <1>8, ToLinksOk, Zenon
<1> QED
  BY <1>1, <1>3, <1>6, <1>7, <1>9, InsertionGoes, N9eStay, Zenon DEF AnchorPcs

(* The new links have no threshold. *)
LEMMA LinkNewRuleMoves ==
  ASSUME Serial, AlarmInv, NEW c \in AlarmClients, LinkNewRule(c)
  PROVE  AlarmInv'
<1>1. /\ call[c].pc = "links" /\ anchor' = anchor /\ N9eKept /\ RowsKept /\ NoDraw
      /\ vmlink' = vmlink \cup {Link(call[c].r, t, FALSE) : t \in call[c].V}
      /\ \/ Len(call[c].todo) = 1 /\ Continue(c, [pc |-> "idle"])
         \/ Len(call[c].todo) # 1 /\ Continue(c, [call[c] EXCEPT !.pc = "insert", !.todo = Tail(@)])
  BY Zenon DEF LinkNewRule, RowsKept, N9eKept, n9e
<1>2. /\ call[c] \in Insertions /\ Asked(call[c]) /\ call[c].g \in group
      /\ DbOk /\ RulesGrouped /\ CallOk /\ CountOk
  BY <1>1, Known, Zenon DEF GroupSide, Creates
<1>3. Counted
  BY <1>1, <1>2, NoDrawCounts, Zenon
<1>4. ASSUME NEW l \in vmlink', l.on PROVE l \in vmlink
  <2>1. \A t : Link(call[c].r, t, FALSE).on = FALSE
    BY Zenon DEF Link
  <2> QED
    BY <1>1, <1>4, <2>1, Zenon
<1>5. NextOk([pc |-> "idle"], call[c].g)
  BY Zenon DEF NextOk
<1>6. CallOk' /\ NextOk(call'[c], call[c].g)
  BY <1>1, <1>2, <1>5, Continues, NextLegOk, Zenon
<1>7. call[c].g \in group'
  BY <1>1, <1>2, Zenon DEF RowsKept
<1> QED
  BY <1>1, <1>3, <1>4, <1>6, <1>7, InsertionGoes, RowsStay, N9eStay, Zenon DEF AnchorPcs
-----------------------------------------------------------------------------
(* Deletion. *)

LEMMA DeleteStarts ==
  ASSUME Serial, AlarmInv, NEW c \in AlarmClients, NEW r \in Rules, DeleteN9ERule(c, r)
  PROVE  AlarmInv'
<1> DEFINE x == FirstRow(RowsOf(r))
           g == IF x.g \in group THEN x.g ELSE 0
<1>1. /\ call[c].pc = "idle" /\ Draw("delete") /\ vmlink' = vmlink /\ anchor' = anchor /\ RowsKept /\ N9eKept
      /\ RowsOf(r) # {} /\ Continue(c, [pc |-> "clear", r |-> r, row |-> x, g |-> g])
  BY Zenon DEF DeleteN9ERule, FreeClient, RowsKept, N9eKept, n9e
<1>2. DbOk /\ CallOk /\ CountOk
  BY Known, Zenon
<1>3. x \in RuleRows
  <2>1. RowsOf(r) \subseteq RuleRows
    BY <1>2, Zenon DEF DbOk, RowsOf
  <2> QED
    BY <1>1, <2>1, FirstRowIn, Zenon
<1>4. g \in Nat
  BY <1>3, Zenon DEF RuleRows
<1>5. CallOk' /\ call'[c] = [pc |-> "clear", r |-> r, row |-> x, g |-> g]
  BY <1>1, <1>2, Continues, Zenon
<1> HIDE DEF x, g
<1>6. call'[c].pc = "clear" /\ call'[c].r = r /\ call'[c].row = x /\ call'[c].g = g
  BY <1>5
<1>7. Counted
  BY <1>1, <1>2, DrawCounts, Zenon DEF AlarmEvents
<1>8. GroupSide(call[c])'
  BY <1>3, <1>4, <1>6, Zenon DEF GroupSide, Creates, Deletes, Renders
<1> QED
  BY <1>1, <1>5, <1>6, <1>7, <1>8, Goes, RowsStay, N9eStay, Zenon DEF AnchorPcs

(* The zero is written to a series no anchor has. *)
LEMMA ClearMoves ==
  ASSUME Serial, AlarmInv, NEW c \in AlarmClients, ClearAnchorThresholds(c)
  PROVE  AlarmInv'
<1> DEFINE k == call[c]
           cleared == {Series(k.row.dir, k.r, l.v, NoNic, "none") : l \in VMLinksOf(k.r)}
           q == [pc |-> "unlinkall", r |-> k.r, row |-> k.row, g |-> k.g, seen |-> VMLinksOf(k.r)]
<1>1. /\ k.pc = "clear" /\ vmlink' = vmlink /\ RowsKept /\ N9eKept /\ Continue(c, q)
      /\ \/ anchor' = {a \in anchor : ~ \E s \in cleared : IsSeries(a, s)} /\ NoDraw
         \/ anchor' = anchor /\ Draw("vmfail")
  BY Zenon DEF ClearAnchorThresholds, RowsKept, N9eKept, n9e
<1>2. CallOk /\ CountOk /\ AnchorOk /\ k.r \in Rules /\ k.row \in RuleRows /\ k.g \in Nat
  BY <1>1, Known, Zenon DEF GroupSide, Deletes
<1>3. anchor' = anchor
  <2>1. ASSUME NEW a \in anchor, NEW s \in cleared, IsSeries(a, s) PROVE FALSE
    <3>1. s.labels = "none"
      BY <2>1 DEF Series
    <3>2. s.labels = a.labels
      BY <2>1, Zenon DEF IsSeries
    <3> QED
      BY <1>2, <2>1, <3>1, <3>2, Zenon DEF AnchorOk
  <2> HIDE DEF cleared
  <2> QED
    BY <1>1, <2>1, Zenon
<1>4. Counted
  BY <1>1, <1>2, DrawCounts, NoDrawCounts, Zenon DEF AlarmEvents
<1>5. CallOk' /\ call'[c] = q
  BY <1>1, <1>2, Continues, Zenon
<1>6. call'[c].pc = "unlinkall" /\ call'[c].r = k.r /\ call'[c].row = k.row /\ call'[c].g = k.g
  BY <1>5
<1>7. GroupSide(call[c])'
  BY <1>2, <1>6, Zenon DEF GroupSide, Creates, Deletes, Renders
<1> QED
  BY <1>1, <1>3, <1>4, <1>5, <1>6, <1>7, Goes, RowsStay, N9eStay, Zenon DEF AnchorPcs

(* Links only disappear. *)
LEMMA DeleteLinksMoves ==
  ASSUME Serial, AlarmInv, NEW c \in AlarmClients, DeleteLinks(c)
  PROVE  AlarmInv'
<1> DEFINE q == [pc |-> "unalert", r |-> call[c].r, row |-> call[c].row, g |-> call[c].g]
<1>1. /\ call[c].pc = "unlinkall" /\ anchor' = anchor /\ RowsKept /\ N9eKept /\ Continue(c, q) /\ NoDraw
      /\ \A l \in vmlink' : l \in vmlink
  BY Zenon DEF DeleteLinks, RowsKept, N9eKept, n9e
<1>2. CallOk /\ CountOk /\ call[c].r \in Rules /\ call[c].row \in RuleRows /\ call[c].g \in Nat
  BY <1>1, Known, Zenon DEF GroupSide, Deletes
<1>3. Counted
  BY <1>1, <1>2, NoDrawCounts, Zenon
<1>4. CallOk' /\ call'[c] = q
  BY <1>1, <1>2, Continues, Zenon
<1>5. call'[c].pc = "unalert" /\ call'[c] \in Deletions
  BY <1>2, <1>4 DEF Deletions
<1>6. GroupSide(call[c])'
  BY <1>5, Zenon DEF GroupSide, Creates, Deletes, Renders
<1> QED
  BY <1>1, <1>3, <1>4, <1>5, <1>6, Goes, RowsStay, N9eStay, Zenon DEF AnchorPcs

LEMMA DeletionGoes ==
  ASSUME Serial, AlarmInv, NEW c \in AlarmClients, call[c].pc \notin AnchorPcs,
         call[c] \in Deletions, NEW p \in {"unrow", "count", "ungroup", "unngroup"},
         Continue(c, [call[c] EXCEPT !.pc = p]), p = "ungroup" => \A x \in rule' : x.g # call[c].g,
         vmlink' = vmlink, anchor' = anchor, Counted, DbOk', N9eOk', RulesGrouped'
  PROVE  AlarmInv'
<1>1. CallOk' /\ call'[c] = [call[c] EXCEPT !.pc = p]
  BY Known, Continues, Zenon
<1>2. call'[c] \in Deletions /\ call'[c].pc = p /\ call'[c].g = call[c].g
  BY <1>1, Zenon DEF Deletions
<1>3. GroupSide(call[c])'
  BY <1>2, Zenon DEF GroupSide, Creates, Deletes, Renders
<1> QED
  BY <1>1, <1>2, <1>3, Goes, Zenon DEF AnchorPcs

LEMMA DeleteAlertRuleMoves ==
  ASSUME Serial, AlarmInv, NEW c \in AlarmClients, DeleteAlertRule(c)
  PROVE  AlarmInv'
<1>1. /\ call[c].pc = "unalert" /\ anchor' = anchor /\ vmlink' = vmlink /\ RowsKept /\ ngroup' = ngroup
      /\ Continue(c, [call[c] EXCEPT !.pc = "unrow"])
  BY Zenon DEF DeleteAlertRule, RowsKept
<1>2. CallOk /\ CountOk /\ N9eOk /\ call[c] \in Deletions
  BY <1>1, Known, Zenon DEF GroupSide, Deletes
<1>3. /\ Draw("n9efail") \/ NoDraw
      /\ cached' \in {cached, GetBusinessGroupByName} /\ \A a \in nalert' : a \in nalert
  BY Zenon DEF DeleteAlertRule
<1>4. Counted
  BY <1>2, <1>3, DrawCounts, NoDrawCounts, Zenon DEF AlarmEvents
<1>5. N9eOk'
  BY <1>1, <1>2, <1>3, Zenon DEF N9eOk, GetBusinessGroupByName
<1> QED
  BY <1>1, <1>2, <1>4, <1>5, DeletionGoes, RowsStay, Zenon DEF AnchorPcs

LEMMA DeleteRowMoves ==
  ASSUME Serial, AlarmInv, NEW c \in AlarmClients, DeleteRow(c)
  PROVE  AlarmInv'
<1>1. /\ call[c].pc = "unrow" /\ anchor' = anchor /\ vmlink' = vmlink /\ N9eKept /\ group' = group /\ fresh' = fresh
      /\ \/ Continue(c, [call[c] EXCEPT !.pc = "count"]) /\ NoDraw
         \/ Return(c) /\ Draw("dbfail")
      /\ rule' \subseteq rule
  BY Zenon DEF DeleteRow, N9eKept, n9e
<1>2. CallOk /\ CountOk /\ DbOk /\ RulesGrouped /\ call[c] \in Deletions
  BY <1>1, Known, Zenon DEF GroupSide, Deletes
<1>3. DbOk' /\ RulesGrouped'
  BY <1>1, <1>2, Zenon DEF DbOk, RulesGrouped
<1>4. CASE Continue(c, [call[c] EXCEPT !.pc = "count"]) /\ NoDraw
  <2>1. Counted
    BY <1>2, <1>4, NoDrawCounts, Zenon
  <2> QED
    BY <1>1, <1>2, <1>3, <1>4, <2>1, DeletionGoes, N9eStay, Zenon DEF AnchorPcs
<1>5. CASE Return(c) /\ Draw("dbfail")
  <2>1. Counted
    BY <1>2, <1>5, DrawCounts, Zenon DEF AlarmEvents
  <2> QED
    BY <1>1, <1>3, <1>5, <2>1, Returns, N9eStay, Zenon DEF AnchorPcs
<1> QED
  BY <1>1, <1>4, <1>5, Zenon

(* The count comes after the deletion of the rows. *)
LEMMA CountRulesMoves ==
  ASSUME Serial, AlarmInv, NEW c \in AlarmClients, CountRules(c)
  PROVE  AlarmInv'
<1>1. /\ call[c].pc = "count" /\ anchor' = anchor /\ vmlink' = vmlink /\ RowsKept /\ N9eKept /\ NoDraw
      /\ \/ Continue(c, [call[c] EXCEPT !.pc = "ungroup"]) /\ \A x \in rule : x.g # call[c].g
         \/ Return(c)
  BY Zenon DEF CountRules, RowsKept, N9eKept, n9e
<1>2. CallOk /\ CountOk /\ call[c] \in Deletions
  BY <1>1, Known, Zenon DEF GroupSide, Deletes
<1>3. Counted
  BY <1>1, <1>2, NoDrawCounts, Zenon
<1>4. CASE Continue(c, [call[c] EXCEPT !.pc = "ungroup"]) /\ \A x \in rule : x.g # call[c].g
  <2>1. \A x \in rule' : x.g # call[c].g
    BY <1>1, <1>4, Zenon DEF RowsKept
  <2> QED
    BY <1>1, <1>2, <1>3, <1>4, <2>1, DeletionGoes, RowsStay, N9eStay, Zenon DEF AnchorPcs
<1>5. CASE Return(c)
  BY <1>1, <1>3, <1>5, Returns, RowsStay, N9eStay, Zenon DEF AnchorPcs
<1> QED
  BY <1>1, <1>4, <1>5, Zenon

LEMMA DeleteGroupMoves ==
  ASSUME Serial, AlarmInv, NEW c \in AlarmClients, DeleteGroup(c)
  PROVE  AlarmInv'
<1>1. /\ call[c].pc = "ungroup" /\ anchor' = anchor /\ vmlink' = vmlink /\ N9eKept /\ rule' = rule /\ fresh' = fresh
      /\ Continue(c, [call[c] EXCEPT !.pc = "unngroup"])
      /\ \/ group' = group \ {call[c].g} /\ NoDraw
         \/ group' = group /\ Draw("dbfail")
  BY Zenon DEF DeleteGroup, N9eKept, n9e
<1>2. /\ CallOk /\ CountOk /\ DbOk /\ RulesGrouped /\ call[c] \in Deletions
      /\ \A x \in rule : x.g # call[c].g
  BY <1>1, Known, Zenon DEF GroupSide, Deletes
<1>3. Counted
  BY <1>1, <1>2, DrawCounts, NoDrawCounts, Zenon DEF AlarmEvents
<1>4. DbOk'
  BY <1>1, <1>2, Zenon DEF DbOk
<1>5. RulesGrouped'
  BY <1>1, <1>2, Zenon DEF RulesGrouped
<1> QED
  BY <1>1, <1>2, <1>3, <1>4, <1>5, DeletionGoes, N9eStay, Zenon DEF AnchorPcs

LEMMA DeleteBusinessGroupMoves ==
  ASSUME Serial, AlarmInv, NEW c \in AlarmClients, DeleteBusinessGroupByID(c)
  PROVE  AlarmInv'
<1>1. /\ call[c].pc = "unngroup" /\ anchor' = anchor /\ vmlink' = vmlink /\ RowsKept /\ Return(c)
      /\ NoDraw \/ Draw("n9efail")
      /\ ngroup' \in {0, ngroup} /\ cached' \in {0, cached} /\ \A a \in nalert' : a \in nalert
  BY Zenon DEF DeleteBusinessGroupByID, RowsKept, n9e
<1>2. CountOk /\ N9eOk
  BY Known, Zenon
<1>3. Counted
  BY <1>1, <1>2, DrawCounts, NoDrawCounts, Zenon DEF AlarmEvents
<1>4. N9eOk'
  BY <1>1, <1>2 DEF N9eOk
<1> QED
  BY <1>1, <1>3, <1>4, Returns, RowsStay, Zenon DEF AnchorPcs
-----------------------------------------------------------------------------
(* Anchors. *)

(* A series keeps its rule, VM and interface when it gets a new sample; a    *)
(* new series gets one.                                                    *)
LEMMA WriteKeeps ==
  ASSUME NEW S, NEW l, Anchored(l), anchor' = Write(S)
  PROVE  Anchored(l)'
<1>1. PICK a \in anchor : a.r = l.r /\ a.v = l.v /\ (KindOf[l.r] = "bandwidth" => a.d = l.d)
  BY Zenon DEF Anchored
<1>2. CASE ~ \E s \in S : IsSeries(a, s)
  BY <1>1, <1>2, Zenon DEF Anchored, Write
<1>3. CASE \E s \in S : IsSeries(a, s)
  <2>1. PICK s \in S : IsSeries(a, s)
    BY <1>3, Zenon
  <2>2. s.r = a.r /\ s.v = a.v /\ s.d = a.d
    BY <2>1, Zenon DEF IsSeries
  <2>3. PICK b : b = [dir |-> s.dir, r |-> s.r, v |-> s.v, d |-> s.d, labels |-> s.labels, age |-> 0]
    BY Zenon
  <2>4. b \in anchor'
    BY <2>3, Zenon DEF Write
  <2>5. b.r = s.r /\ b.v = s.v /\ b.d = s.d
    BY <2>3, Zenon
  <2> QED
    BY <1>1, <2>2, <2>4, <2>5, Zenon DEF Anchored
<1> QED
  BY <1>2, <1>3, Zenon

LEMMA WriteHas ==
  ASSUME NEW S, NEW l, NEW s \in S, Of(s, l), anchor' = Write(S)
  PROVE  Anchored(l)'
<1>1. PICK b : b = [dir |-> s.dir, r |-> s.r, v |-> s.v, d |-> s.d, labels |-> s.labels, age |-> 0]
  BY Zenon
<1>2. b \in anchor'
  BY <1>1, Zenon DEF Write
<1>3. b.r = s.r /\ b.v = s.v /\ b.d = s.d
  BY <1>1, Zenon
<1> QED
  BY <1>2, <1>3, Zenon DEF Anchored, Of

LEMMA WriteOk ==
  ASSUME AnchorOk, NEW S, \A s \in S : s.labels # "none", anchor' = Write(S)
  PROVE  AnchorOk'
<1>1. ASSUME NEW b \in anchor'
      PROVE  /\ b = [dir |-> b.dir, r |-> b.r, v |-> b.v, d |-> b.d, labels |-> b.labels, age |-> b.age]
             /\ b.labels # "none"
  <2>1. CASE b \in anchor
    BY <2>1, Zenon DEF AnchorOk
  <2>2. CASE b \notin anchor
    <3>1. PICK s \in S : b = [dir |-> s.dir, r |-> s.r, v |-> s.v, d |-> s.d, labels |-> s.labels, age |-> 0]
      BY <1>1, <2>2, Zenon DEF Write
    <3> QED
      BY <3>1, Zenon
  <2> QED
    BY <2>1, <2>2, Zenon
<1> QED
  BY <1>1, Zenon DEF AnchorOk

(* The first row of a bandwidth rule has a direction. *)
LEMMA RowDir ==
  ASSUME DbOk, NEW r, RowsOf(r) # {}, KindOf[r] = "bandwidth"
  PROVE  FirstRow(RowsOf(r)).dir \in {"in", "out"}
<1>1. RowsOf(r) \subseteq RuleRows
  BY Zenon DEF DbOk, RowsOf
<1>2. FirstRow(RowsOf(r)) \in RowsOf(r)
  BY <1>1, FirstRowIn, Zenon
<1>3. PICK x \in RowsOf(r) : x = FirstRow(RowsOf(r))
  BY <1>2, Zenon
<1>4. x.r = r /\ x \in RuleRows
  BY <1>1, <1>3, Zenon DEF RowsOf
<1> QED
  BY <1>3, <1>4, Zenon DEF RuleRows, KDirs

LEMMA MetadataLabels ==
  ASSUME NEW m \in Metadata
  PROVE  m # "none"
BY Zenon DEF Metadata

(* A request that names the anchors it will write. *)
LEMMA LinkStarts ==
  ASSUME Serial, AlarmInv, NEW c \in AlarmClients, NEW r, NEW T, LinkVMsToRule(c, r, T)
  PROVE  AlarmInv'
<1>1. /\ call[c].pc = "idle" /\ Draw("link") /\ vmlink' = vmlink /\ anchor' = anchor /\ RowsKept /\ N9eKept
      /\ RowsOf(r) # {}
  BY Zenon DEF LinkVMsToRule, FreeClient, RowsKept, N9eKept, n9e
<1>2. DbOk /\ CallOk /\ CountOk /\ AnchorSide(call[c])
  BY Known, Zenon
<1>3. PICK dir : dir = FirstRow(RowsOf(r)).dir
  BY Zenon
<1>4. PICK m \in [T -> Metadata] :
        Continue(c, [pc |-> "anchor", r |-> r, T |-> T, S |-> {Series(dir, r, t[1], t[2], m[t]) : t \in T}])
  BY <1>3, Zenon DEF LinkVMsToRule
<1>5. KindOf[r] = "bandwidth" => dir \in {"in", "out"}
  BY <1>1, <1>2, <1>3, RowDir, Zenon
<1> DEFINE series(t) == Series(dir, r, t[1], t[2], m[t])
           S == {series(t) : t \in T}
<1>6. ASSUME NEW t \in T PROVE Of(series(t), Link(r, t, TRUE)) /\ series(t).labels # "none"
  <2>1. Link(r, t, TRUE).r = r /\ Link(r, t, TRUE).v = t[1] /\ Link(r, t, TRUE).d = t[2]
    BY Zenon DEF Link
  <2>2. m[t] # "none"
    BY <1>4, MetadataLabels, Zenon
  <2>3. PICK s : s = series(t)
    BY Zenon
  <2>4. s.r = r /\ s.v = t[1] /\ s.labels = m[t] /\ (dir \in {"in", "out"} => s.d = t[2])
    BY <2>3, Zenon DEF Series
  <2> HIDE DEF series
  <2> QED
    BY <1>5, <2>1, <2>2, <2>3, <2>4, Zenon DEF Of
<1>7. CallOk' /\ call'[c] = [pc |-> "anchor", r |-> r, T |-> T, S |-> S]
  BY <1>2, <1>4, Continues, Zenon
<1> HIDE DEF series
<1>8. (\A s \in S : s.labels # "none") /\ \A t \in T : \E s \in S : Of(s, Link(r, t, TRUE))
  BY <1>6, Zenon
<1> HIDE DEF S
<1>9. call'[c].pc = "anchor" /\ call'[c].r = r /\ call'[c].T = T /\ call'[c].S = S
  BY <1>7
<1>10. Counted
  BY <1>1, <1>2, DrawCounts, Zenon DEF AlarmEvents
<1>11. Recovers(call[c])'
  BY <1>9, Zenon DEF Recovers
<1>12. Anchors(call[c])'
  <2>1. ASSUME Quiet', NEW l \in vmlink', l.on PROVE Anchored(l)'
    <3>1. Anchored(l)
      BY <1>1, <1>2, <1>10, <2>1, Zenon DEF AnchorSide, Anchors, Counted
    <3> QED
      BY <1>1, <3>1, Zenon DEF Anchored
  <2> QED
    BY <1>8, <1>9, <2>1, Zenon DEF Anchors
<1>13. GroupSide(call[c])'
  BY <1>9, GroupFrame, Zenon DEF GroupPcs
<1> QED
  BY <1>1, <1>7, <1>10, <1>11, <1>12, <1>13, Moves, RowsStay, N9eStay, AnchorsStay, Zenon DEF AnchorSide

(* A request that ends with every threshold anchored. *)
LEMMA AnchoredReturns ==
  ASSUME Serial, AlarmInv, NEW c \in AlarmClients, Return(c), Counted, RowsKept, N9eKept, AnchorOk',
         \A l \in vmlink' : Quiet' /\ l.on => Anchored(l)'
  PROVE  AlarmInv'
<1>1. CallOk' /\ call'[c] = [pc |-> "idle"]
  BY Known, Continues, Zenon DEF Return
<1>2. call'[c].pc = "idle"
  BY <1>1
<1>3. GroupSide(call[c])'
  BY <1>2, GroupFrame, Zenon DEF GroupPcs
<1>4. AnchorSide(call[c])'
  BY <1>2, Zenon DEF AnchorSide, Recovers, Anchors
<1> QED
  BY <1>1, <1>3, <1>4, Moves, RowsStay, N9eStay, Zenon

LEMMA WriteAnchorsMoves ==
  ASSUME Serial, AlarmInv, NEW c \in AlarmClients, WriteAnchors(c)
  PROVE  AlarmInv'
<1>1. call[c].pc = "anchor" /\ vmlink' = vmlink /\ RowsKept /\ N9eKept
  BY Zenon DEF WriteAnchors, RowsKept, N9eKept, n9e
<1>2. CallOk /\ CountOk /\ AnchorOk /\ Anchors(call[c])
  BY Known, Zenon DEF AnchorSide
<1>3. PICK S, T, r : S = call[c].S /\ T = call[c].T /\ r = call[c].r
  BY Zenon
<1>4. /\ \A s \in S : s.labels # "none"
      /\ \A t \in T : \E s \in S : Of(s, Link(r, t, TRUE))
      /\ Quiet => \A l \in vmlink : l.on => Anchored(l)
  BY <1>1, <1>2, <1>3, Zenon DEF Anchors
<1>5. CASE Draw("vmfail") /\ Return(c) /\ UNCHANGED anchor
  <2>1. Counted
    BY <1>2, <1>5, DrawCounts, Zenon DEF AlarmEvents
  <2>2. ASSUME NEW l \in vmlink', Quiet', l.on PROVE Anchored(l)'
    BY <1>1, <1>4, <1>5, <2>1, <2>2, Zenon DEF Anchored, Counted
  <2> QED
    BY <1>1, <1>5, <2>1, <2>2, AnchoredReturns, AnchorsStay, Zenon
<1>6. CASE anchor' = Write(S) /\ NoDraw /\ Continue(c, [pc |-> "linkrows", r |-> r, T |-> T])
  <2>1. Counted
    BY <1>2, <1>6, NoDrawCounts, Zenon
  <2>2. CallOk' /\ call'[c] = [pc |-> "linkrows", r |-> r, T |-> T]
    BY <1>2, <1>6, Continues, Zenon
  <2>3. call'[c].pc = "linkrows" /\ call'[c].r = r /\ call'[c].T = T
    BY <2>2
  <2>4. ASSUME NEW l \in vmlink', Quiet', l.on PROVE Anchored(l)'
    <3>1. Anchored(l)
      BY <1>1, <1>4, <2>1, <2>4, Zenon DEF Counted
    <3> QED
      BY <1>6, <3>1, WriteKeeps, Zenon
  <2>5. ASSUME NEW t \in T PROVE Anchored(Link(r, t, TRUE))'
    <3>1. PICK s \in S : Of(s, Link(r, t, TRUE))
      BY <1>4, <2>5, Zenon
    <3> QED
      BY <1>6, <3>1, WriteHas, Zenon
  <2>6. AnchorSide(call[c])'
    BY <2>3, <2>4, <2>5, Zenon DEF AnchorSide, Recovers, Anchors
  <2>7. GroupSide(call[c])'
    BY <2>3, GroupFrame, Zenon DEF GroupPcs
  <2>8. AnchorOk'
    BY <1>2, <1>4, <1>6, WriteOk, Zenon
  <2> QED
    BY <1>1, <2>1, <2>2, <2>6, <2>7, <2>8, Moves, RowsStay, N9eStay, Zenon
<1> QED
  BY <1>3, <1>5, <1>6, Zenon DEF WriteAnchors

LEMMA CreateLinksMoves ==
  ASSUME Serial, AlarmInv, NEW c \in AlarmClients, CreateLinks(c)
  PROVE  AlarmInv'
<1>1. /\ call[c].pc = "linkrows" /\ anchor' = anchor /\ RowsKept /\ N9eKept /\ Return(c)
      /\ NoDraw \/ Draw("dbfail")
      /\ \A l \in vmlink' : l \in vmlink \/ \E t \in call[c].T : l = Link(call[c].r, t, TRUE)
  BY Zenon DEF CreateLinks, RowsKept, N9eKept, n9e
<1>2. CountOk /\ Anchors(call[c])
  BY Known, Zenon DEF AnchorSide
<1>3. Counted
  BY <1>1, <1>2, DrawCounts, NoDrawCounts, Zenon DEF AlarmEvents
<1>4. ASSUME NEW l \in vmlink', Quiet', l.on PROVE Anchored(l)'
  <2>1. Anchored(l)
    BY <1>1, <1>2, <1>3, <1>4, Zenon DEF Anchors, Counted
  <2> QED
    BY <1>1, <2>1, Zenon DEF Anchored
<1> QED
  BY <1>1, <1>3, <1>4, AnchoredReturns, AnchorsStay, Zenon

LEMMA UnlinkStarts ==
  ASSUME Serial, AlarmInv, NEW c \in AlarmClients, NEW r, NEW T, UnlinkVMsFromRule(c, r, T)
  PROVE  AlarmInv'
<1> DEFINE dir == IF KindOf[r] = "bandwidth" THEN FirstRow(RowsOf(r)).dir ELSE KindOf[r]
<1>1. /\ call[c].pc = "idle" /\ Draw("unlink") /\ vmlink' = vmlink /\ anchor' = anchor /\ RowsKept /\ N9eKept
      /\ Continue(c, [pc |-> "unseries", r |-> r, T |-> T, dir |-> dir])
  BY Zenon DEF UnlinkVMsFromRule, FreeClient, RowsKept, N9eKept, n9e
<1>2. CallOk /\ CountOk
  BY Known, Zenon
<1>3. CallOk' /\ call'[c] = [pc |-> "unseries", r |-> r, T |-> T, dir |-> dir]
  BY <1>1, <1>2, Continues, ZenonT(60)
<1>4. call'[c].pc = "unseries"
  BY <1>3
<1>5. Counted
  BY <1>1, <1>2, DrawCounts, Zenon DEF AlarmEvents
<1>6. GroupSide(call[c])'
  BY <1>4, GroupFrame, Zenon DEF GroupPcs
<1> QED
  BY <1>1, <1>3, <1>4, <1>5, <1>6, Goes, RowsStay, N9eStay, Zenon DEF AnchorPcs

(* The series that go are of VMs whose link rows go next. *)
LEMMA DeleteAnchorSeriesMoves ==
  ASSUME Serial, AlarmInv, NEW c \in AlarmClients, DeleteAnchorSeries(c)
  PROVE  AlarmInv'
<1>1. /\ call[c].pc = "unseries" /\ vmlink' = vmlink /\ RowsKept /\ N9eKept
      /\ NoDraw \/ Draw("vmfail")
      /\ Continue(c, [pc |-> "unlinkrows", r |-> call[c].r, V |-> {t[1] : t \in call[c].T}])
  BY Zenon DEF DeleteAnchorSeries, RowsKept, N9eKept, n9e
<1>2. CallOk /\ CountOk /\ AnchorOk /\ Anchors(call[c])
  BY Known, Zenon DEF AnchorSide
<1> DEFINE T == call[c].T
           r == call[c].r
           V == {t[1] : t \in T}
<1>3. /\ \A a \in anchor' : a \in anchor
      /\ \A a \in anchor : a.r # r \/ a.v \notin V => a \in anchor'
  <2> DEFINE gone(t) == {a \in anchor : a.dir = call[c].dir /\ a.r = r /\ a.v = t[1] /\ t[2] \in {NoNic, a.d}}
  <2> DEFINE left(S) == anchor \ UNION {gone(t) : t \in S}
  <2>1. \/ anchor' = left(T)
        \/ \E S \in SUBSET T : anchor' = left(S)
    BY Zenon DEF DeleteAnchorSeries
  <2> HIDE DEF left, T
  <2>2. PICK S \in SUBSET T : anchor' = left(S)
    BY <2>1, Zenon
  <2> USE DEF left, T
  <2>3. \A t \in S : \A a \in gone(t) : a.r = r /\ a.v \in V
    BY Zenon
  <2> HIDE DEF gone, V, T
  <2> QED
    BY <2>2, <2>3, Zenon
<1>4. CallOk' /\ call'[c] = [pc |-> "unlinkrows", r |-> r, V |-> V]
  BY <1>1, <1>2, Continues, Zenon
<1> HIDE DEF V, r
<1>5. call'[c].pc = "unlinkrows" /\ call'[c].r = r /\ call'[c].V = V
  BY <1>4
<1>6. Counted
  BY <1>1, <1>2, DrawCounts, NoDrawCounts, Zenon DEF AlarmEvents
<1>7. ASSUME NEW l \in vmlink', Quiet', l.on, l.r # r \/ l.v \notin V PROVE Anchored(l)'
  <2>1. Anchored(l)
    BY <1>1, <1>2, <1>6, <1>7, Zenon DEF Anchors, Counted
  <2> QED
    BY <1>3, <1>7, <2>1, Zenon DEF Anchored
<1>8. AnchorSide(call[c])'
  BY <1>5, <1>7, Zenon DEF AnchorSide, Recovers, Anchors
<1>9. GroupSide(call[c])'
  BY <1>5, GroupFrame, Zenon DEF GroupPcs
<1>10. AnchorOk'
  BY <1>2, <1>3, Zenon DEF AnchorOk
<1> QED
  BY <1>1, <1>4, <1>6, <1>8, <1>9, <1>10, Moves, RowsStay, N9eStay, Zenon

LEMMA UnlinkRowsMoves ==
  ASSUME Serial, AlarmInv, NEW c \in AlarmClients, UnlinkRows(c)
  PROVE  AlarmInv'
<1>1. /\ call[c].pc = "unlinkrows" /\ anchor' = anchor /\ RowsKept /\ N9eKept /\ Return(c) /\ NoDraw
      /\ \A l \in vmlink' : l \in vmlink /\ (l.r # call[c].r \/ l.v \notin call[c].V)
  BY Zenon DEF UnlinkRows, RowsKept, N9eKept, n9e
<1>2. CountOk /\ Anchors(call[c])
  BY Known, Zenon DEF AnchorSide
<1>3. Counted
  BY <1>1, <1>2, NoDrawCounts, Zenon
<1>4. ASSUME NEW l \in vmlink', Quiet', l.on PROVE Anchored(l)'
  <2>1. Anchored(l)
    BY <1>1, <1>2, <1>3, <1>4, Zenon DEF Anchors, Counted
  <2> QED
    BY <1>1, <2>1, Zenon DEF Anchored
<1> QED
  BY <1>1, <1>3, <1>4, AnchoredReturns, AnchorsStay, Zenon

LEMMA SyncStarts ==
  ASSUME Serial, AlarmInv, NEW c \in AlarmClients, QueryStaleAnchors(c)
  PROVE  AlarmInv'
<1> DEFINE S == {a \in anchor : a.age = 1}
<1>1. /\ call[c].pc = "idle" /\ Draw("sync") /\ vmlink' = vmlink /\ anchor' = anchor /\ RowsKept /\ N9eKept
      /\ Continue(c, [pc |-> "sync", S |-> S])
  BY Zenon DEF QueryStaleAnchors, FreeClient, RowsKept, N9eKept, n9e
<1>2. CallOk /\ CountOk /\ AnchorOk /\ Anchors(call[c])
  BY Known, Zenon DEF AnchorSide
<1>3. CallOk' /\ call'[c] = [pc |-> "sync", S |-> S]
  BY <1>1, <1>2, Continues, Zenon
<1>4. \A a \in S : a.labels # "none"
  BY <1>2, Zenon DEF AnchorOk
<1> HIDE DEF S
<1>5. call'[c].pc = "sync" /\ call'[c].S = S
  BY <1>3
<1>6. Counted
  BY <1>1, <1>2, DrawCounts, Zenon DEF AlarmEvents
<1>7. ASSUME NEW l \in vmlink', Quiet', l.on PROVE Anchored(l)'
  BY <1>1, <1>2, <1>6, <1>7, Zenon DEF Anchors, Anchored, Counted
<1>8. AnchorSide(call[c])'
  BY <1>4, <1>5, <1>7, Zenon DEF AnchorSide, Recovers, Anchors
<1>9. GroupSide(call[c])'
  BY <1>5, GroupFrame, Zenon DEF GroupPcs
<1> QED
  BY <1>1, <1>3, <1>6, <1>8, <1>9, Moves, RowsStay, N9eStay, AnchorsStay, Zenon

(* A write of samples loses no anchor. *)
LEMMA WriteReturns ==
  ASSUME Serial, AlarmInv, NEW c \in AlarmClients, call[c].pc \in {"sync", "recover"}, Return(c), Counted,
         RowsKept, N9eKept, vmlink' = vmlink, NEW S, \A s \in S : s.labels # "none",
         anchor' = anchor \/ anchor' = Write(S)
  PROVE  AlarmInv'
<1>1. AnchorOk /\ Anchors(call[c])
  BY Known, Zenon DEF AnchorSide
<1>2. ASSUME NEW l \in vmlink', Quiet', l.on PROVE Anchored(l)'
  <2>1. Anchored(l)
    BY <1>1, <1>2, Zenon DEF Anchors, Counted
  <2>2. CASE anchor' = anchor
    BY <2>1, <2>2, Zenon DEF Anchored
  <2>3. CASE anchor' = Write(S)
    BY <2>1, <2>3, WriteKeeps, Zenon
  <2> QED
    BY <2>2, <2>3, Zenon
<1>3. AnchorOk'
  BY <1>1, AnchorsStay, WriteOk, Zenon
<1> QED
  BY <1>2, <1>3, AnchoredReturns, Zenon

LEMMA SyncMoves ==
  ASSUME Serial, AlarmInv, NEW c \in AlarmClients, SyncStaleAnchorsBatch(c)
  PROVE  AlarmInv'
<1> DEFINE key(a) == [dir |-> a.dir, r |-> a.r, v |-> a.v, d |-> a.d, labels |-> a.labels]
           S == {key(a) : a \in call[c].S}
<1>1. /\ call[c].pc = "sync" /\ vmlink' = vmlink /\ RowsKept /\ N9eKept /\ Return(c)
      /\ NoDraw \/ Draw("vmfail")
      /\ anchor' = anchor \/ anchor' = Write(S)
  BY Zenon DEF SyncStaleAnchorsBatch, RowsKept, N9eKept, n9e
<1>2. CountOk /\ \A a \in call[c].S : a.labels # "none"
  BY <1>1, Known, Zenon DEF AnchorSide, Anchors
<1>3. \A s \in S : s.labels # "none"
  <2>1. \A a : key(a).labels = a.labels
    BY Zenon
  <2> HIDE DEF key
  <2> QED
    BY <1>2, <2>1, Zenon
<1>4. Counted
  BY <1>1, <1>2, DrawCounts, NoDrawCounts, Zenon DEF AlarmEvents
<1> HIDE DEF S
<1> QED
  BY <1>1, <1>3, <1>4, WriteReturns, Zenon

LEMMA RecoverStarts ==
  ASSUME Serial, AlarmInv, NEW c \in AlarmClients, RecoverRead(c)
  PROVE  AlarmInv'
<1> DEFINE L == {l \in vmlink : l.on /\ (KindOf[l.r] = "bandwidth" => RowsOf(l.r) # {})}
           dir(l) == IF KindOf[l.r] = "bandwidth" THEN FirstRow(RowsOf(l.r)).dir ELSE KindOf[l.r]
<1>1. /\ call[c].pc = "idle" /\ Draw("recover") /\ vmlink' = vmlink /\ anchor' = anchor /\ RowsKept /\ N9eKept
  BY Zenon DEF RecoverRead, FreeClient, RowsKept, N9eKept, n9e
<1>2. CallOk /\ CountOk /\ DbOk /\ Anchors(call[c])
  BY Known, Zenon DEF AnchorSide
<1>3. PICK m \in [L -> Metadata] :
        Continue(c, [pc |-> "recover", S |-> {Series(dir(l), l.r, l.v, l.d, m[l]) : l \in L}])
  BY Zenon DEF RecoverRead
<1> DEFINE series(l) == Series(dir(l), l.r, l.v, l.d, m[l])
           S == {series(l) : l \in L}
<1>4. ASSUME NEW l \in L PROVE Of(series(l), l) /\ series(l).labels # "none"
  <2>1. PICK e : e = dir(l)
    BY Zenon
  <2>2. KindOf[l.r] = "bandwidth" => e \in {"in", "out"}
    BY <1>2, <2>1, RowDir, Zenon
  <2>3. m[l] # "none"
    BY <1>3, MetadataLabels, Zenon
  <2>4. PICK s : s = Series(e, l.r, l.v, l.d, m[l])
    BY Zenon
  <2>5. s.r = l.r /\ s.v = l.v /\ s.labels = m[l] /\ (e \in {"in", "out"} => s.d = l.d)
    BY <2>4, Zenon DEF Series
  <2>6. s = series(l)
    BY <2>1, <2>4, Zenon
  <2> HIDE DEF series
  <2> QED
    BY <2>2, <2>3, <2>5, <2>6, Zenon DEF Of
<1>5. CallOk' /\ call'[c] = [pc |-> "recover", S |-> S]
  BY <1>2, <1>3, Continues, Zenon
<1> HIDE DEF series
<1>6. /\ \A s \in S : s.labels # "none"
      /\ \A l \in vmlink : l.on /\ RowsOf(l.r) # {} => \E s \in S : Of(s, l)
  BY <1>4, Zenon
<1> HIDE DEF S
<1>7. call'[c].pc = "recover" /\ call'[c].S = S
  BY <1>5
<1>8. Counted
  BY <1>1, <1>2, DrawCounts, Zenon DEF AlarmEvents
<1>9. ASSUME NEW l \in vmlink', Quiet', l.on PROVE Anchored(l)'
  BY <1>1, <1>2, <1>8, <1>9, Zenon DEF Anchors, Anchored, Counted
<1>10. Recovers(call[c])'
  BY <1>1, <1>6, <1>7, Zenon DEF Recovers, RowsOf, RowsKept
<1>11. AnchorSide(call[c])'
  BY <1>7, <1>9, <1>10, Zenon DEF AnchorSide, Anchors
<1>12. GroupSide(call[c])'
  BY <1>7, GroupFrame, Zenon DEF GroupPcs
<1> QED
  BY <1>1, <1>5, <1>8, <1>11, <1>12, Moves, RowsStay, N9eStay, AnchorsStay, Zenon

LEMMA RecoverMoves ==
  ASSUME Serial, AlarmInv, NEW c \in AlarmClients, RecoverWrite(c)
  PROVE  AlarmInv'
<1> DEFINE ofType(D) == {s \in call[c].S : s.dir \in D}
<1>1. call[c].pc = "recover" /\ vmlink' = vmlink /\ RowsKept /\ N9eKept /\ Return(c)
  BY Zenon DEF RecoverWrite, RowsKept, N9eKept, n9e
<1>2. CountOk /\ \A s \in call[c].S : s.labels # "none"
  BY <1>1, Known, Zenon DEF AnchorSide, Recovers
<1>3. CASE anchor' = Write(call[c].S) /\ NoDraw
  <2>1. Counted
    BY <1>2, <1>3, NoDrawCounts, Zenon
  <2> QED
    BY <1>1, <1>2, <1>3, <2>1, WriteReturns, Zenon
<1>4. CASE Draw("vmfail") /\ \E D \in SUBSET AllDirs : anchor' = Write(ofType(D))
  <2>1. Counted
    BY <1>2, <1>4, DrawCounts, Zenon DEF AlarmEvents
  <2>2. PICK D : anchor' = Write(ofType(D))
    BY <1>4, Zenon
  <2>3. \A s \in ofType(D) : s.labels # "none"
    BY <1>2, Zenon
  <2> HIDE DEF ofType
  <2> QED
    BY <1>1, <2>1, <2>2, <2>3, WriteReturns, Zenon
<1> QED
  BY <1>3, <1>4, Zenon DEF RecoverWrite, AllDirs

(* No request is interrupted by a week. *)
LEMMA WeekStep ==
  ASSUME Serial, AlarmInv, NEW c \in AlarmClients, Week
  PROVE  AlarmInv'
<1> DEFINE older(a) == [a EXCEPT !.age = @ + 1]
<1>1. /\ call[c].pc = "idle" /\ Draw("week") /\ vmlink' = vmlink /\ RowsKept /\ N9eKept /\ call' = call
      /\ anchor' = {older(a) : a \in {b \in anchor : b.age = 0}}
  BY Zenon DEF Week, FreeClient, RowsKept, N9eKept, n9e
<1>2. CallOk /\ CountOk /\ AnchorOk
  BY Known, Zenon
<1>3. Counted /\ ~Quiet'
  BY <1>1, <1>2, DrawCounts, Zenon DEF AlarmEvents
<1>4. ASSUME NEW b \in anchor'
      PROVE  /\ b = [dir |-> b.dir, r |-> b.r, v |-> b.v, d |-> b.d, labels |-> b.labels, age |-> b.age]
             /\ b.labels # "none"
  <2>1. PICK a \in anchor : b = older(a)
    BY <1>1, <1>4, Zenon
  <2>2. /\ a = [dir |-> a.dir, r |-> a.r, v |-> a.v, d |-> a.d, labels |-> a.labels, age |-> a.age]
        /\ a.labels # "none"
    BY <1>2, Zenon DEF AnchorOk
  <2>3. b = [dir |-> a.dir, r |-> a.r, v |-> a.v, d |-> a.d, labels |-> a.labels, age |-> a.age + 1]
    BY <2>1, <2>2, Zenon
  <2> QED
    BY <2>2, <2>3, Zenon
<1>5. AnchorOk'
  BY <1>4, Zenon DEF AnchorOk
<1>6. AnchorSide(call[c])'
  BY <1>1, <1>3, Zenon DEF AnchorSide, Recovers, Anchors
<1>7. GroupSide(call[c])'
  BY <1>1, GroupFrame, Zenon DEF GroupPcs
<1>8. CallOk'
  BY <1>1, <1>2, Zenon DEF CallOk
<1> QED
  BY <1>1, <1>3, <1>5, <1>6, <1>7, <1>8, Moves, RowsStay, N9eStay, Zenon

LEMMA DisasterStep ==
  ASSUME Serial, AlarmInv, NEW c \in AlarmClients, Disaster
  PROVE  AlarmInv'
<1>1. Draw("disaster") /\ vmlink' = vmlink /\ RowsKept /\ N9eKept /\ call' = call /\ anchor' = {}
  BY Zenon DEF Disaster, RowsKept, N9eKept, n9e
<1>2. CallOk /\ CountOk /\ GroupSide(call[c]) /\ AnchorSide(call[c])
  BY Known, Zenon
<1>3. Counted /\ ~Quiet'
  BY <1>1, <1>2, DrawCounts, Zenon DEF AlarmEvents
<1>4. AnchorOk'
  BY <1>1, Zenon DEF AnchorOk
<1>5. Recovers(call[c])'
  BY <1>1, <1>2, Zenon DEF AnchorSide, Recovers, RowsOf, RowsKept
<1>6. Anchors(call[c])'
  BY <1>1, <1>2, <1>3, Zenon DEF AnchorSide, Anchors
<1>7. GroupSide(call[c])'
  BY <1>1, <1>2, Zenon DEF GroupSide, Creates, Deletes, Renders, RowsKept
<1>8. CallOk'
  BY <1>1, <1>2, Zenon DEF CallOk
<1> QED
  BY <1>1, <1>3, <1>4, <1>5, <1>6, <1>7, <1>8, Moves, RowsStay, N9eStay, Zenon DEF AnchorSide
-----------------------------------------------------------------------------
(* Node alarm rules and scrape targets touch neither side. *)

LEMMA NodeStarts ==
  ASSUME Serial, AlarmInv, NEW c \in AlarmClients, NEW y \in NodeTypes, CreateNodeAlarmRule(c, y)
  PROVE  AlarmInv'
<1>1. /\ call[c].pc = "idle" /\ Draw("node") /\ vmlink' = vmlink /\ anchor' = anchor /\ N9eKept
      /\ group' = group /\ rule' = rule /\ fresh' = fresh + 1
      /\ Continue(c, [pc |-> "render", pk |-> fresh, todo |-> FilesOf[y]])
  BY Zenon DEF CreateNodeAlarmRule, FreeClient, N9eKept, n9e
<1>2. CallOk /\ CountOk /\ DbOk /\ RulesGrouped
  BY Known, Zenon
<1>3. DbOk' /\ fresh \in Nat
  BY <1>1, <1>2 DEF DbOk
<1>4. RulesGrouped'
  BY <1>1, <1>2, Zenon DEF RulesGrouped
<1>5. CallOk' /\ call'[c] = [pc |-> "render", pk |-> fresh, todo |-> FilesOf[y]]
  BY <1>1, <1>2, Continues, Zenon
<1>6. FilesOf[y] \in Seq(STRING) /\ FilesOf[y] # <<>>
  BY FilesOfAssumption, Zenon
<1>7. call'[c].pc = "render" /\ call'[c] \in Renderings /\ call'[c].todo # <<>>
  BY <1>3, <1>5, <1>6 DEF Renderings
<1>8. GroupSide(call[c])'
  BY <1>7, Zenon DEF GroupSide, Creates, Deletes, Renders
<1>9. Counted
  BY <1>1, <1>2, DrawCounts, Zenon DEF AlarmEvents
<1> QED
  BY <1>1, <1>3, <1>4, <1>5, <1>7, <1>8, <1>9, Goes, N9eStay, Zenon DEF AnchorPcs

LEMMA RenderMoves ==
  ASSUME Serial, AlarmInv, NEW c \in AlarmClients, RenderNodeRule(c)
  PROVE  AlarmInv'
<1>1. /\ call[c].pc = "render" /\ vmlink' = vmlink /\ anchor' = anchor /\ N9eKept /\ RowsKept
      /\ NoDraw \/ Draw("filefail")
      /\ \/ Return(c)
         \/ Len(call[c].todo) # 1 /\ Continue(c, [call[c] EXCEPT !.todo = Tail(@)])
  BY Zenon DEF RenderNodeRule, N9eKept, RowsKept, n9e
<1>2. CallOk /\ CountOk /\ call[c] \in Renderings /\ call[c].todo # <<>>
  BY <1>1, Known, Zenon DEF GroupSide, Renders
<1>3. Counted
  BY <1>1, <1>2, DrawCounts, NoDrawCounts, Zenon DEF AlarmEvents
<1>4. CASE Return(c)
  BY <1>1, <1>3, <1>4, Returns, RowsStay, N9eStay, Zenon DEF AnchorPcs
<1>5. CASE Len(call[c].todo) # 1 /\ Continue(c, [call[c] EXCEPT !.todo = Tail(@)])
  <2>1. CallOk' /\ call'[c] = [call[c] EXCEPT !.todo = Tail(@)]
    BY <1>2, <1>5, Continues, Zenon
  <2>2. call[c].todo \in Seq(STRING)
    BY <1>2, Zenon DEF Renderings
  <2>3. Tail(call[c].todo) \in Seq(STRING) /\ Tail(call[c].todo) # <<>>
    BY <1>2, <1>5, <2>2, SeqSteps, Zenon
  <2>4. call'[c].pc = "render" /\ call'[c] \in Renderings /\ call'[c].todo # <<>>
    BY <1>2, <2>1, <2>3, Zenon DEF Renderings
  <2>5. GroupSide(call[c])'
    BY <2>4, Zenon DEF GroupSide, Creates, Deletes, Renders
  <2> QED
    BY <1>1, <1>3, <2>1, <2>4, <2>5, Goes, RowsStay, N9eStay, Zenon DEF AnchorPcs
<1> QED
  BY <1>1, <1>4, <1>5, Zenon

LEMMA UnnodeStarts ==
  ASSUME Serial, AlarmInv, NEW c \in AlarmClients, NEW x \in nrule, DeleteNodeAlarmRule(c, x)
  PROVE  AlarmInv'
<1>1. /\ call[c].pc = "idle" /\ Draw("unnode") /\ vmlink' = vmlink /\ anchor' = anchor /\ N9eKept /\ RowsKept
      /\ Continue(c, [pc |-> "unrender", F |-> Range(FilesOf[x.type])])
  BY Zenon DEF DeleteNodeAlarmRule, FreeClient, N9eKept, RowsKept, n9e
<1>2. CallOk /\ CountOk
  BY Known, Zenon
<1>3. CallOk' /\ call'[c] = [pc |-> "unrender", F |-> Range(FilesOf[x.type])]
  BY <1>1, <1>2, Continues, Zenon
<1>4. call'[c].pc = "unrender"
  BY <1>3
<1>5. GroupSide(call[c])'
  BY <1>4, GroupFrame, Zenon DEF GroupPcs
<1>6. Counted
  BY <1>1, <1>2, DrawCounts, Zenon DEF AlarmEvents
<1> QED
  BY <1>1, <1>3, <1>4, <1>5, <1>6, Goes, RowsStay, N9eStay, Zenon DEF AnchorPcs

LEMMA UnrenderMoves ==
  ASSUME Serial, AlarmInv, NEW c \in AlarmClients, RemoveNodeFiles(c)
  PROVE  AlarmInv'
<1>1. /\ call[c].pc = "unrender" /\ vmlink' = vmlink /\ anchor' = anchor /\ N9eKept /\ RowsKept
      /\ NoDraw \/ Draw("filefail")
      /\ Return(c)
  BY Zenon DEF RemoveNodeFiles, N9eKept, RowsKept, n9e
<1>2. Counted
  BY <1>1, Known, DrawCounts, NoDrawCounts, Zenon DEF AlarmEvents
<1> QED
  BY <1>1, <1>2, Returns, RowsStay, N9eStay, Zenon DEF AnchorPcs

LEMMA TargetStarts ==
  ASSUME Serial, AlarmInv, NEW c \in AlarmClients, NEW h \in Hosts, NEW on \in BOOLEAN,
         UpdateComputeMonitor(c, h, on)
  PROVE  AlarmInv'
<1>1. /\ call[c].pc = "idle" /\ Draw("target") /\ vmlink' = vmlink /\ anchor' = anchor /\ N9eKept /\ RowsKept
      /\ Continue(c, [pc |-> "target", h |-> h, on |-> on, todo |-> TargetFiles])
  BY Zenon DEF UpdateComputeMonitor, FreeClient, N9eKept, RowsKept, n9e, files
<1>2. CallOk /\ CountOk
  BY Known, Zenon
<1>3. CallOk' /\ call'[c] = [pc |-> "target", h |-> h, on |-> on, todo |-> TargetFiles]
  BY <1>1, <1>2, Continues, Zenon
<1>4. TargetFiles \in Seq({"node", "libvirt"}) /\ TargetFiles # <<>>
  BY DEF TargetFiles
<1>5. call'[c].pc = "target" /\ call'[c] \in Targetings /\ call'[c].todo # <<>>
  BY <1>3, <1>4 DEF Targetings
<1>6. GroupSide(call[c])'
  BY <1>5, Zenon DEF GroupSide, Creates, Deletes, Renders
<1>7. Counted
  BY <1>1, <1>2, DrawCounts, Zenon DEF AlarmEvents
<1> QED
  BY <1>1, <1>3, <1>5, <1>6, <1>7, Goes, RowsStay, N9eStay, Zenon DEF AnchorPcs

LEMMA TargetMoves ==
  ASSUME Serial, AlarmInv, NEW c \in AlarmClients, UpdateComputeTargets(c)
  PROVE  AlarmInv'
<1>1. /\ call[c].pc = "target" /\ vmlink' = vmlink /\ anchor' = anchor /\ N9eKept /\ RowsKept
      /\ NoDraw \/ Draw("filefail")
      /\ \/ Return(c)
         \/ Len(call[c].todo) # 1 /\ Continue(c, [call[c] EXCEPT !.todo = Tail(@)])
  BY Zenon DEF UpdateComputeTargets, N9eKept, RowsKept, n9e
<1>2. CallOk /\ CountOk /\ call[c] \in Targetings /\ call[c].todo # <<>>
  BY <1>1, Known, Zenon DEF GroupSide, Renders
<1>3. Counted
  BY <1>1, <1>2, DrawCounts, NoDrawCounts, Zenon DEF AlarmEvents
<1>4. CASE Return(c)
  BY <1>1, <1>3, <1>4, Returns, RowsStay, N9eStay, Zenon DEF AnchorPcs
<1>5. CASE Len(call[c].todo) # 1 /\ Continue(c, [call[c] EXCEPT !.todo = Tail(@)])
  <2>1. CallOk' /\ call'[c] = [call[c] EXCEPT !.todo = Tail(@)]
    BY <1>2, <1>5, Continues, Zenon
  <2>2. call[c].todo \in Seq({"node", "libvirt"})
    BY <1>2, Zenon DEF Targetings
  <2>3. Tail(call[c].todo) \in Seq({"node", "libvirt"}) /\ Tail(call[c].todo) # <<>>
    BY <1>2, <1>5, <2>2, SeqSteps, Zenon
  <2>4. call'[c].pc = "target" /\ call'[c] \in Targetings /\ call'[c].todo # <<>>
    BY <1>2, <2>1, <2>3, Zenon DEF Targetings
  <2>5. GroupSide(call[c])'
    BY <2>4, Zenon DEF GroupSide, Creates, Deletes, Renders
  <2> QED
    BY <1>1, <1>3, <2>1, <2>4, <2>5, Goes, RowsStay, N9eStay, ZenonT(60) DEF AnchorPcs
<1> QED
  BY <1>1, <1>4, <1>5, Zenon
-----------------------------------------------------------------------------
(* The invariant. *)

LEMMA CreateKinds ==
  ASSUME Serial, AlarmInv, NEW c \in AlarmClients, NEW r \in Rules, NEW V \in VSets,
         CreateCPURule(c, r, V) \/ CreateMemoryRule(c, r, V) \/ CreateBWRule(c, r, V)
  PROVE  AlarmInv'
<1>1. CASE CreateCPURule(c, r, V)
  <2>1. <<"cpu">> \in Seq(KDirs(r)) /\ <<"cpu">> # <<>>
    BY <1>1 DEF CreateCPURule, KDirs
  <2> QED
    BY <1>1, <2>1, CreateStarts, Zenon DEF CreateCPURule
<1>2. CASE CreateMemoryRule(c, r, V)
  <2>1. <<"memory">> \in Seq(KDirs(r)) /\ <<"memory">> # <<>>
    BY <1>2 DEF CreateMemoryRule, KDirs
  <2> QED
    BY <1>2, <2>1, CreateStarts, Zenon DEF CreateMemoryRule
<1>3. CASE CreateBWRule(c, r, V)
  <2>1. Legs \in Seq(KDirs(r)) /\ Legs # <<>>
    BY <1>3, LegsAssumption, Zenon DEF CreateBWRule, KDirs
  <2> QED
    BY <1>3, <2>1, CreateStarts, Zenon DEF CreateBWRule
<1> QED
  BY <1>1, <1>2, <1>3, Zenon

LEMMA HandlerKeeps ==
  ASSUME Serial, AlarmInv, NEW c \in AlarmClients, Handler(c)
  PROVE  AlarmInv'
<1>1. CASE \E r \in Rules : \E T \in Sets(r) \cup {{}} :
             CreateCPURule(c, r, T) \/ CreateMemoryRule(c, r, T) \/ CreateBWRule(c, r, T)
  <2>1. PICK r \in Rules : \E T \in Sets(r) \cup {{}} :
               CreateCPURule(c, r, T) \/ CreateMemoryRule(c, r, T) \/ CreateBWRule(c, r, T)
    BY <1>1, Zenon
  <2>2. PICK T \in Sets(r) \cup {{}} :
               CreateCPURule(c, r, T) \/ CreateMemoryRule(c, r, T) \/ CreateBWRule(c, r, T)
    BY <2>1, Zenon
  <2>3. T \in VSets
    BY <2>1, <2>2, Zenon DEF VSets
  <2> QED
    BY <2>2, <2>3, CreateKinds, Zenon
<1>2. CASE \E r \in Rules : DeleteCPURule(c, r) \/ DeleteMemoryRule(c, r) \/ DeleteBWRules(c, r)
  BY <1>2, DeleteStarts, Zenon DEF DeleteCPURule, DeleteMemoryRule, DeleteBWRules
<1>3. CASE \E r \in Rules : \E T \in Sets(r) : LinkVMsToRule(c, r, T) \/ UnlinkVMsFromRule(c, r, T)
  BY <1>3, LinkStarts, UnlinkStarts, Zenon
<1>4. CASE QueryStaleAnchors(c) \/ RecoverRead(c)
  BY <1>4, SyncStarts, RecoverStarts, Zenon
<1>5. CASE \E y \in NodeTypes : CreateNodeAlarmRule(c, y)
  BY <1>5, NodeStarts, Zenon
<1>6. CASE \E x \in nrule : DeleteNodeAlarmRule(c, x)
  BY <1>6, UnnodeStarts, Zenon
<1>7. CASE \E h \in Hosts, on \in BOOLEAN : UpdateComputeMonitor(c, h, on)
  BY <1>7, TargetStarts, Zenon
<1> QED
  BY <1>1, <1>2, <1>3, <1>4, <1>5, <1>6, <1>7, Zenon DEF Handler

LEMMA HandlerStepKeeps ==
  ASSUME Serial, AlarmInv, NEW c \in AlarmClients, HandlerStep(c)
  PROVE  AlarmInv'
<1>1. CASE \/ FindGroup(c) \/ CreateGroup(c) \/ InsertRule(c) \/ GetOrCreateBusinessGroup(c)
           \/ CreateAlertRule(c) \/ StoreAlertID(c) \/ LinkNewRule(c)
  BY <1>1, FindGroupMoves, CreateGroupMoves, InsertRuleMoves, GetOrCreateBusinessGroupMoves,
     CreateAlertRuleMoves, StoreAlertIDMoves, LinkNewRuleMoves, Zenon
<1>2. CASE \/ ClearAnchorThresholds(c) \/ DeleteLinks(c) \/ DeleteAlertRule(c) \/ DeleteRow(c)
           \/ CountRules(c) \/ DeleteGroup(c) \/ DeleteBusinessGroupByID(c)
  BY <1>2, ClearMoves, DeleteLinksMoves, DeleteAlertRuleMoves, DeleteRowMoves, CountRulesMoves,
     DeleteGroupMoves, DeleteBusinessGroupMoves, Zenon
<1>3. CASE \/ WriteAnchors(c) \/ CreateLinks(c) \/ DeleteAnchorSeries(c) \/ UnlinkRows(c)
           \/ SyncStaleAnchorsBatch(c) \/ RecoverWrite(c)
  BY <1>3, WriteAnchorsMoves, CreateLinksMoves, DeleteAnchorSeriesMoves, UnlinkRowsMoves, SyncMoves,
     RecoverMoves, Zenon
<1>4. CASE RenderNodeRule(c) \/ RemoveNodeFiles(c) \/ UpdateComputeTargets(c)
  BY <1>4, RenderMoves, UnrenderMoves, TargetMoves, Zenon
<1> QED
  BY <1>1, <1>2, <1>3, <1>4, Zenon DEF HandlerStep

LEMMA AlarmStart ==
  ASSUME AlarmInit
  PROVE  AlarmInv
<1>1. \A c \in AlarmClients : call[c].pc = "idle"
  BY Zenon DEF AlarmInit
<1>2. DbOk /\ N9eOk
  BY Zenon DEF AlarmInit, DbOk, N9eOk
<1>3. CallOk /\ CountOk
  BY Zenon DEF AlarmInit, CallOk, CountOk
<1>4. AnchorOk /\ RulesGrouped /\ vmlink = {}
  BY Zenon DEF AlarmInit, AnchorOk, RulesGrouped
<1>5. ASSUME NEW c \in AlarmClients PROVE GroupSide(call[c])
  BY <1>1, Zenon DEF GroupSide, Creates, Deletes, Renders
<1>6. ASSUME NEW c \in AlarmClients PROVE AnchorSide(call[c])
  BY <1>1, <1>4, Zenon DEF AnchorSide, Recovers, Anchors
<1> QED
  BY <1>2, <1>3, <1>4, <1>5, <1>6, Zenon DEF AlarmInv

LEMMA AlarmStutters ==
  ASSUME AlarmInv, UNCHANGED avars
  PROVE  AlarmInv'
<1>1. /\ group' = group /\ rule' = rule /\ vmlink' = vmlink /\ anchor' = anchor /\ fresh' = fresh
      /\ ngroup' = ngroup /\ nalert' = nalert /\ cached' = cached /\ call' = call /\ count' = count
  BY Zenon DEF avars, n9e
<1>2. (DbOk /\ N9eOk /\ AnchorOk /\ CallOk /\ CountOk /\ RulesGrouped)'
  BY <1>1, Zenon DEF AlarmInv, DbOk, N9eOk, AnchorOk, CallOk, CountOk, RulesGrouped
<1>3. ASSUME NEW c \in AlarmClients PROVE GroupSide(call[c])'
  BY <1>1, Known, Zenon DEF GroupSide, Creates, Deletes, Renders
<1>4. ASSUME NEW c \in AlarmClients PROVE AnchorSide(call[c])'
  BY <1>1, Known, ZenonT(60) DEF AnchorSide, Recovers, Anchors, Quiet, NeverAsked, Anchored, RowsOf
<1> QED
  BY <1>2, <1>3, <1>4, Zenon DEF AlarmInv

LEMMA SomeClient ==
  ASSUME Serial
  PROVE  \E c : c \in AlarmClients
<1>1. PICK x : AlarmClients = {x}
  BY Zenon DEF Serial
<1> QED
  BY <1>1, Zenon

LEMMA AlarmKeeps ==
  ASSUME Serial, AlarmInv, [AlarmNext]_avars
  PROVE  AlarmInv'
<1>1. CASE Week \/ Disaster
  BY <1>1, SomeClient, WeekStep, DisasterStep, Zenon
<1>2. CASE \E c \in AlarmClients : Handler(c) \/ HandlerStep(c)
  BY <1>2, HandlerKeeps, HandlerStepKeeps, Zenon
<1>3. CASE UNCHANGED avars
  BY <1>3, AlarmStutters, Zenon
<1> QED
  BY <1>1, <1>2, <1>3, Zenon DEF AlarmNext

(* With requests one after the other, every step of the handlers of        *)
(* apis/alarms.go keeps the invariant, whatever call to the database, N9E  *)
(* or VictoriaMetrics fails.                                               *)
THEOREM AlarmInvariant == AlarmSpec => []AlarmSerialInv
<1>1. AlarmInit => AlarmSerialInv
  BY AlarmStart, Zenon DEF AlarmSerialInv
<1>2. AlarmSerialInv /\ [AlarmNext]_avars => AlarmSerialInv'
  BY AlarmKeeps, Zenon DEF AlarmSerialInv, Serial
<1> QED
  BY <1>1, <1>2, PTL DEF AlarmSpec

(* A rule row names a business group row that lives: the creation of a     *)
(* rule finds or makes the group before it inserts, and the deletion of a  *)
(* rule takes the group only after CountRulesByBusinessGroupUUID found it  *)
(* empty.  For every set of rules, with any call failing.                  *)
THEOREM GroupsOutliveRules == AlarmSpec => []RuleHasGroup
<1>1. AlarmSerialInv => RuleHasGroup
  BY Zenon DEF AlarmSerialInv, AlarmInv, RulesGrouped, RuleHasGroup
<1> QED
  BY <1>1, AlarmInvariant, PTL

(* LinkVMsToRule writes the anchor series before the link rows, and        *)
(* UnlinkVMsFromRule deletes series of no other rule or VM: at rest, a link *)
(* row with a threshold has its anchor, unless a disaster or two weeks     *)
(* without a sample took it.                                               *)
THEOREM LinksAnchored == AlarmSpec => []LinkHasAnchor
<1>1. AlarmSerialInv => LinkHasAnchor
  <2> SUFFICES ASSUME AlarmSerialInv, AlarmAtRest, Serial, NeverAsked({"disaster", "week"}),
                      NEW l \in vmlink, l.on
               PROVE  Anchored(l)
    BY Zenon DEF LinkHasAnchor
  <2>1. PICK c : c \in AlarmClients
    BY SomeClient, Zenon
  <2>2. call[c].pc = "idle" /\ AnchorSide(call[c])
    BY <2>1, Zenon DEF AlarmAtRest, FreeClient, AlarmSerialInv, AlarmInv
  <2> QED
    BY <2>2, Zenon DEF AnchorSide, Anchors, Quiet
<1> QED
  BY <1>1, AlarmInvariant, PTL

(* The step that ends a recovery is its import. *)
LEMMA RecoveryEnds ==
  ASSUME Serial, AlarmInv, [AlarmNext]_avars, NEW c \in AlarmClients,
         call[c].pc = "recover", call'[c].pc = "idle", count' = count
  PROVE  anchor' = Write(call[c].S)
<1>1. ~UNCHANGED avars /\ ~Disaster /\ ~Week
  BY Zenon DEF avars, Disaster, Week, FreeClient
<1>2. ~Handler(c)
  BY Zenon DEF Handler, CreateCPURule, CreateMemoryRule, CreateBWRule, CreateN9ERule, DeleteCPURule,
     DeleteMemoryRule, DeleteBWRules, DeleteN9ERule, LinkVMsToRule, UnlinkVMsFromRule, QueryStaleAnchors,
     RecoverRead, CreateNodeAlarmRule, DeleteNodeAlarmRule, UpdateComputeMonitor, FreeClient
<1>3. HandlerStep(c) => RecoverWrite(c)
  BY Zenon DEF HandlerStep, FindGroup, CreateGroup, InsertRule, GetOrCreateBusinessGroup, CreateAlertRule,
     StoreAlertID, LinkNewRule, ClearAnchorThresholds, DeleteLinks, DeleteAlertRule, DeleteRow, CountRules,
     DeleteGroup, DeleteBusinessGroupByID, WriteAnchors, CreateLinks, DeleteAnchorSeries, UnlinkRows,
     SyncStaleAnchorsBatch, RenderNodeRule, RemoveNodeFiles, UpdateComputeTargets
<1>4. PICK d \in AlarmClients : Handler(d) \/ HandlerStep(d)
  BY <1>1, Zenon DEF AlarmNext
<1>5. d = c
  BY OneClient, Zenon
<1>6. RecoverWrite(c)
  BY <1>2, <1>3, <1>4, <1>5, Zenon
<1>7. ~Draw("vmfail")
  <2>1. count \in [AlarmEvents -> Nat] /\ "vmfail" \in AlarmEvents
    BY Known, Zenon DEF CountOk, AlarmEvents
  <2> QED
    BY <2>1 DEF Draw
<1> QED
  BY <1>6, <1>7, Zenon DEF RecoverWrite

(* RecoverAnchorThresholds rebuilds every anchor from the link rows: when  *)
(* it returns and no import failed, every link row with a threshold whose  *)
(* rule has a row is anchored again, whatever disaster came before or      *)
(* while it ran.                                                           *)
THEOREM RecoveryRestores == AlarmSpec => RecoverRestores
<1>1. ASSUME AlarmSerialInv, [AlarmNext]_avars, NEW c \in AlarmClients,
             Serial, call[c].pc = "recover", call'[c].pc = "idle", count' = count,
             NEW l \in vmlink, l.on, RowsOf(l.r) # {}
      PROVE  Anchored(l)'
  <2>1. AlarmInv
    BY <1>1, Zenon DEF AlarmSerialInv
  <2>2. anchor' = Write(call[c].S)
    BY <1>1, <2>1, RecoveryEnds, Zenon
  <2>3. PICK s \in call[c].S : Of(s, l)
    BY <1>1, <2>1, Known, Zenon DEF AnchorSide, Recovers
  <2> QED
    BY <2>2, <2>3, WriteHas, Zenon
<1>2. AlarmSerialInv /\ [AlarmNext]_avars =>
        [\A c \in AlarmClients :
           (Serial /\ call[c].pc = "recover" /\ call'[c].pc = "idle" /\ count' = count)
             => \A l \in vmlink : (l.on /\ RowsOf(l.r) # {}) => Anchored(l)']_avars
  BY <1>1, Zenon
<1> QED
  BY <1>2, AlarmInvariant, PTL DEF AlarmSpec, RecoverRestores
-----------------------------------------------------------------------------
(***************************************************************************)
(* Rule rows and alert rules.  When no call to the database or to N9E      *)
(* fails, all alert rules are in the group of N9E that the cache names,    *)
(* there is one group row, and only the rule that a request is working on  *)
(* has rows or alert rules without the other.                              *)
(***************************************************************************)
Faultless == NeverAsked({"n9efail", "dbfail"})

(* Requests give different rules different names. *)
NamesApart ==
  \A r, s \in Rules : \A d, e \in AllDirs : NameOf(r, d) = NameOf(s, e) => r = s

GroupOne == fresh # 0 /\ 0 \notin group /\ \A g, h \in group : g = h
N9eOne == cached \in {0, ngroup} /\ (nalert # {} => ngroup # 0)
AlertOk(a) ==
  /\ a.r \in Rules /\ a.dir \in AllDirs /\ a.name = NameOf(a.r, a.dir) /\ a.n = ngroup
  /\ a.id \in Nat /\ a.id # 0 /\ a.id < fresh
AlertsOk == \A a \in nalert : AlertOk(a)
IdsApart == \A a, b \in nalert : a.id = b.id => a.r = b.r

(* Of the rules not in O: rows have alerts, alerts have rows, rows of one   *)
(* rule_id have the same.                                                  *)
RowsServed(O) == \A x \in rule : x.r \notin O => \E a \in nalert : a.id = x.alert /\ a.r = x.r
AlertsServe(O) ==
  \A a \in nalert : KindOf[a.r] # "bandwidth" /\ a.r \notin O => \E x \in rule : x.r = a.r /\ x.alert = a.id
Alike(O) == \A x, y \in rule : x.r = y.r /\ x.r \notin O => x.alert = y.alert
Matched(O) == RowsServed(O) /\ AlertsServe(O) /\ Alike(O)

(* The rule that a request is working on. *)
Open(k) == IF k.pc \in {"n9e", "alert", "store", "unrow"} THEN {k.r} ELSE {}

Single(r) == KindOf[r] # "bandwidth"
Bare(r) == Single(r) => \A a \in nalert : a.r # r

Creating(k) ==
  /\ k.pc \in {"group", "newgroup", "insert"} /\ Single(k.r) => RowsOf(k.r) = {}
  /\ k.pc \in {"group", "newgroup", "insert", "n9e", "alert", "store", "links"} /\ Single(k.r) => Len(k.todo) = 1
  /\ k.pc = "newgroup" => group = {}
  /\ k.pc \in {"n9e", "alert"} => Bare(k.r)
  /\ k.pc \in {"n9e", "alert", "store"} => RowsOf(k.r) # {}
  /\ k.pc = "alert" => k.n = ngroup /\ ngroup # 0
  /\ k.pc = "store" => /\ \E a \in nalert : a.id = k.id /\ a.r = k.r
                       /\ Single(k.r) => \A a \in nalert : a.r = k.r => a.id = k.id

Deleting(k) ==
  /\ k.pc \in {"clear", "unlinkall", "unalert"} => k.row \in rule /\ k.row.r = k.r
  /\ k.pc \in {"clear", "unlinkall", "unalert", "unrow", "count", "ungroup"} => k.g \in group
  /\ k.pc = "unrow" => Bare(k.r)
  /\ k.pc = "unngroup" => rule = {}

Working(k) == Matched(Open(k)) /\ Creating(k) /\ Deleting(k)

ServeInv == GroupOne /\ N9eOne /\ AlertsOk /\ IdsApart /\ \A c \in AlarmClients : Working(call[c])
ServeSerialInv == Serial /\ Faultless => ServeInv

(* Every step counts at most one event. *)
LEMMA AlarmDraws ==
  ASSUME [AlarmNext]_avars
  PROVE  NoDraw \/ \E e \in AlarmEvents : Draw(e)
<1> USE DEF AlarmEvents
<1>1. ASSUME NEW c \in AlarmClients, HandlerStep(c) PROVE NoDraw \/ \E e \in AlarmEvents : Draw(e)
  <2>1. CASE FindGroup(c) \/ CreateGroup(c) \/ InsertRule(c) \/ GetOrCreateBusinessGroup(c)
    BY <2>1, Zenon DEF FindGroup, CreateGroup, InsertRule, GetOrCreateBusinessGroup
  <2>2. CASE CreateAlertRule(c)
    BY <2>2, Zenon DEF CreateAlertRule
  <2>3. CASE StoreAlertID(c) \/ LinkNewRule(c) \/ ClearAnchorThresholds(c) \/ DeleteLinks(c)
    BY <2>3, Zenon DEF StoreAlertID, LinkNewRule, ClearAnchorThresholds, DeleteLinks
  <2>4. CASE DeleteAlertRule(c) \/ DeleteRow(c) \/ CountRules(c) \/ DeleteGroup(c) \/ DeleteBusinessGroupByID(c)
    BY <2>4, Zenon DEF DeleteAlertRule, DeleteRow, CountRules, DeleteGroup, DeleteBusinessGroupByID
  <2>5. CASE WriteAnchors(c) \/ CreateLinks(c) \/ DeleteAnchorSeries(c) \/ UnlinkRows(c)
    BY <2>5, Zenon DEF WriteAnchors, CreateLinks, DeleteAnchorSeries, UnlinkRows
  <2>6. CASE SyncStaleAnchorsBatch(c) \/ RecoverWrite(c)
    BY <2>6, Zenon DEF SyncStaleAnchorsBatch, RecoverWrite
  <2>7. CASE RenderNodeRule(c) \/ RemoveNodeFiles(c) \/ UpdateComputeTargets(c)
    BY <2>7, Zenon DEF RenderNodeRule, RemoveNodeFiles, UpdateComputeTargets
  <2> QED
    BY <1>1, <2>1, <2>2, <2>3, <2>4, <2>5, <2>6, <2>7, Zenon DEF HandlerStep
<1>2. ASSUME NEW c \in AlarmClients, Handler(c) PROVE \E e \in AlarmEvents : Draw(e)
  <2>1. ASSUME NEW r, NEW T, CreateCPURule(c, r, T) \/ CreateMemoryRule(c, r, T) \/ CreateBWRule(c, r, T)
        PROVE  \E e \in AlarmEvents : Draw(e)
    BY <2>1, Zenon DEF CreateCPURule, CreateMemoryRule, CreateBWRule, CreateN9ERule
  <2>2. ASSUME NEW r, DeleteCPURule(c, r) \/ DeleteMemoryRule(c, r) \/ DeleteBWRules(c, r)
        PROVE  \E e \in AlarmEvents : Draw(e)
    BY <2>2, Zenon DEF DeleteCPURule, DeleteMemoryRule, DeleteBWRules, DeleteN9ERule
  <2>3. ASSUME NEW r, NEW T, LinkVMsToRule(c, r, T) \/ UnlinkVMsFromRule(c, r, T)
        PROVE  \E e \in AlarmEvents : Draw(e)
    BY <2>3, Zenon DEF LinkVMsToRule, UnlinkVMsFromRule
  <2>4. CASE QueryStaleAnchors(c) \/ RecoverRead(c)
    BY <2>4, Zenon DEF QueryStaleAnchors, RecoverRead
  <2>5. ASSUME NEW y, CreateNodeAlarmRule(c, y) \/ DeleteNodeAlarmRule(c, y) PROVE \E e \in AlarmEvents : Draw(e)
    BY <2>5, Zenon DEF CreateNodeAlarmRule, DeleteNodeAlarmRule
  <2>6. ASSUME NEW h, NEW on, UpdateComputeMonitor(c, h, on) PROVE \E e \in AlarmEvents : Draw(e)
    BY <2>6, Zenon DEF UpdateComputeMonitor
  <2> QED
    BY <1>2, <2>1, <2>2, <2>3, <2>4, <2>5, <2>6, Zenon DEF Handler
<1>3. CASE Week \/ Disaster
  BY <1>3, Zenon DEF Week, Disaster
<1>4. CASE UNCHANGED avars
  BY <1>4, Zenon DEF avars, NoDraw
<1> QED
  BY <1>1, <1>2, <1>3, <1>4, Zenon DEF AlarmNext

(* What has failed stays counted. *)
LEMMA FaultCounted ==
  ASSUME CountOk, NEW e \in AlarmEvents, Draw(e)
  PROVE  (Faultless' => Faultless) /\ (e \in {"n9efail", "dbfail"} => ~Faultless')
<1>1. count'[e] = count[e] + 1 /\ \A f \in AlarmEvents : f # e => count'[f] = count[f]
  BY DEF Draw, CountOk
<1>2. {"n9efail", "dbfail"} \subseteq AlarmEvents
  BY Zenon DEF AlarmEvents
<1>3. count'[e] # 0
  BY <1>1 DEF CountOk
<1> QED
  BY <1>1, <1>2, <1>3, Zenon DEF Faultless, NeverAsked

LEMMA NoFaults ==
  ASSUME CountOk, Faultless'
  PROVE  ~Draw("n9efail") /\ ~Draw("dbfail")
BY FaultCounted, Zenon DEF AlarmEvents

LEMMA FaultlessBefore ==
  ASSUME CountOk, [AlarmNext]_avars, Faultless'
  PROVE  Faultless
<1>1. CASE NoDraw
  BY <1>1, Zenon DEF NoDraw, Faultless, NeverAsked
<1>2. CASE \E e \in AlarmEvents : Draw(e)
  BY <1>2, FaultCounted, Zenon
<1> QED
  BY <1>1, <1>2, AlarmDraws, Zenon

(* Steps. *)
LEMMA WorkMoves ==
  ASSUME Serial, NEW c \in AlarmClients, GroupOne', N9eOne', AlertsOk', IdsApart', Working(call[c])'
  PROVE  ServeInv'
<1>1. ASSUME NEW d \in AlarmClients PROVE Working(call[d])'
  <2>1. d = c
    BY OneClient, Zenon
  <2> QED
    BY <2>1, Zenon
<1> QED
  BY <1>1, Zenon DEF ServeInv

LEMMA WorkKnown ==
  ASSUME ServeInv, NEW c \in AlarmClients
  PROVE  /\ GroupOne /\ N9eOne /\ AlertsOk /\ IdsApart
         /\ Matched(Open(call[c])) /\ Creating(call[c]) /\ Deleting(call[c])
BY Zenon DEF ServeInv, Working

(* A step that leaves rules and alerts alone. *)
TablesKept == group' = group /\ rule' = rule /\ N9eKept /\ fresh' \in Nat /\ fresh <= fresh'

LEMMA TablesStay ==
  ASSUME ServeInv, fresh \in Nat, TablesKept
  PROVE  GroupOne' /\ N9eOne' /\ AlertsOk' /\ IdsApart' /\ \A O : Matched(O) => Matched(O)'
<1>1. GroupOne /\ N9eOne /\ AlertsOk /\ IdsApart
  BY Zenon DEF ServeInv
<1>2. fresh' # 0
  BY <1>1 DEF TablesKept, GroupOne
<1>3. GroupOne' /\ N9eOne' /\ IdsApart'
  BY <1>1, <1>2, Zenon DEF TablesKept, N9eKept, GroupOne, N9eOne, IdsApart
<1>4. ASSUME NEW i \in Nat, i < fresh PROVE i < fresh'
  BY <1>4 DEF TablesKept
<1>5. ASSUME NEW a \in nalert PROVE AlertOk(a)'
  BY <1>1, <1>4, Zenon DEF TablesKept, N9eKept, AlertsOk, AlertOk
<1>6. AlertsOk'
  BY <1>5, Zenon DEF TablesKept, N9eKept, AlertsOk
<1>7. ASSUME NEW O, Matched(O) PROVE Matched(O)'
  BY <1>7, Zenon DEF TablesKept, N9eKept, Matched, RowsServed, AlertsServe, Alike
<1> QED
  BY <1>3, <1>6, <1>7, Zenon

ServePcs == {"group", "newgroup", "insert", "n9e", "links", "alert", "store", "clear", "unlinkall", "unalert",
             "unrow", "count", "ungroup", "unngroup"}

LEMMA AtRestOpen ==
  ASSUME NEW k, k.pc \notin {"n9e", "alert", "store", "unrow"}
  PROVE  Open(k) = {}
BY Zenon DEF Open

(* What is matched but for the rule that the request works on next. *)
LEMMA MatchedAt ==
  ASSUME NEW c \in AlarmClients, NEW O, Open(call'[c]) = O, Matched(O)'
  PROVE  Matched(Open(call[c]))'
BY Zenon DEF Matched, RowsServed, AlertsServe, Alike

(* The steps of other requests. *)
LEMMA Elsewhere ==
  ASSUME Serial, AlarmInv, ServeInv, NEW c \in AlarmClients, call[c].pc \notin ServePcs, call'[c].pc \notin ServePcs,
         TablesKept
  PROVE  ServeInv'
<1>1. Open(call[c]) = {} /\ Open(call'[c]) = {}
  BY AtRestOpen, Zenon DEF ServePcs
<1>2. Matched(Open(call[c]))
  BY WorkKnown, Zenon
<1>3. Matched({})
  BY <1>1, <1>2, Zenon
<1>4. fresh \in Nat
  BY Known, Zenon DEF DbOk
<1>5. GroupOne' /\ N9eOne' /\ AlertsOk' /\ IdsApart' /\ Matched({})'
  BY <1>3, <1>4, TablesStay, Zenon
<1>6. Creating(call[c])' /\ Deleting(call[c])'
  BY Zenon DEF Creating, Deleting, ServePcs
<1>7. Matched(Open(call[c]))'
  BY <1>1, <1>5, MatchedAt, Zenon
<1>8. Working(call[c])'
  BY <1>6, <1>7, Zenon DEF Working
<1> QED
  BY <1>5, <1>8, WorkMoves, Zenon
-----------------------------------------------------------------------------
(* Creation. *)

(* A step of a request that leaves rules and alerts alone. *)
LEMMA Onwards ==
  ASSUME Serial, AlarmInv, ServeInv, NEW c \in AlarmClients, TablesKept,
         Open(call'[c]) = Open(call[c]), Creating(call[c])', Deleting(call[c])'
  PROVE  ServeInv'
<1>1. Matched(Open(call[c])) /\ fresh \in Nat
  BY WorkKnown, Known, Zenon DEF DbOk
<1>2. PICK O : O = Open(call[c])
  BY Zenon
<1>3. GroupOne' /\ N9eOne' /\ AlertsOk' /\ IdsApart' /\ Matched(O)'
  BY <1>1, <1>2, TablesStay, Zenon
<1>4. Matched(Open(call[c]))'
  BY <1>2, <1>3, MatchedAt, Zenon
<1>5. Working(call[c])'
  BY <1>4, Zenon DEF Working
<1> QED
  BY <1>3, <1>5, WorkMoves, Zenon

LEMMA SameTables ==
  ASSUME AlarmInv, RowsKept, N9eKept
  PROVE  TablesKept
<1>1. fresh \in Nat
  BY Zenon DEF AlarmInv, DbOk
<1> QED
  BY <1>1 DEF RowsKept, TablesKept

LEMMA CreateServes ==
  ASSUME Serial, AlarmInv, ServeInv, NEW c \in AlarmClients, NEW r \in Rules, NEW V, NEW dirs,
         Single(r) => Len(dirs) = 1, CreateN9ERule(c, r, dirs, V)
  PROVE  ServeInv'
<1>1. call[c].pc = "idle" /\ RowsKept /\ N9eKept /\ RowsOf(r) = {}
  BY Zenon DEF CreateN9ERule, FreeClient, RowsKept, N9eKept, n9e
<1>2. call'[c] = [pc |-> "group", r |-> r, todo |-> dirs, V |-> V]
  BY Known, Continues, Zenon DEF CreateN9ERule
<1>3. call'[c].pc = "group" /\ call'[c].r = r /\ call'[c].todo = dirs
  BY <1>2
<1>4. Open(call[c]) = {} /\ Open(call'[c]) = {}
  BY <1>1, <1>3, AtRestOpen, Zenon
<1>5. Creating(call[c])' /\ Deleting(call[c])'
  BY <1>1, <1>3, Zenon DEF Creating, Deleting, RowsKept, RowsOf, Single
<1>6. TablesKept
  BY <1>1, SameTables, Zenon
<1> QED
  BY <1>4, <1>5, <1>6, Onwards, Zenon

LEMMA FindGroupServes ==
  ASSUME Serial, AlarmInv, ServeInv, NEW c \in AlarmClients, FindGroup(c)
  PROVE  ServeInv'
<1>1. call[c].pc = "group" /\ RowsKept /\ N9eKept
  BY Zenon DEF FindGroup, RowsKept, N9eKept, n9e
<1>2. call[c] \in Creations /\ CallOk
  BY <1>1, Known, Zenon DEF GroupSide, Creates
<1>3. /\ call'[c].pc = IF group = {} THEN "newgroup" ELSE "insert"
      /\ call'[c].r = call[c].r /\ call'[c].todo = call[c].todo
  <2>1. CASE group = {}
    <3>1. call'[c] = [call[c] EXCEPT !.pc = "newgroup"]
      BY <1>2, <2>1, Continues, Zenon DEF FindGroup
    <3> QED
      BY <1>2, <2>1, <3>1 DEF Creations
  <2>2. CASE group # {}
    <3>1. call'[c] = [pc |-> "insert", r |-> call[c].r, todo |-> call[c].todo, V |-> call[c].V, g |-> FirstGroup]
      BY <1>2, <2>2, Continues, Zenon DEF FindGroup
    <3> QED
      BY <2>2, <3>1
  <2> QED
    BY <2>1, <2>2, Zenon
<1>4. Creating(call[c])
  BY WorkKnown, Zenon
<1>5. Single(call[c].r) => RowsOf(call[c].r) = {} /\ Len(call[c].todo) = 1
  BY <1>1, <1>4, Zenon DEF Creating
<1>6. Open(call[c]) = {} /\ Open(call'[c]) = {}
  BY <1>1, <1>3, AtRestOpen, Zenon
<1>7. call'[c].pc \in {"newgroup", "insert"} /\ (call'[c].pc = "newgroup" => group' = {})
  BY <1>1, <1>3, Zenon DEF RowsKept
<1>8. Single(call[c].r)' => RowsOf(call[c].r)' = {} /\ Len(call'[c].todo) = 1
  BY <1>1, <1>3, <1>5, Zenon DEF RowsOf, RowsKept, Single
<1>9. Creating(call[c])' /\ Deleting(call[c])'
  BY <1>7, <1>8, Zenon DEF Creating, Deleting, Single, RowsOf
<1>10. TablesKept
  BY <1>1, SameTables, Zenon
<1> QED
  BY <1>6, <1>9, <1>10, Onwards, Zenon

LEMMA CreateGroupServes ==
  ASSUME Serial, AlarmInv, ServeInv, Faultless', NEW c \in AlarmClients, CreateGroup(c)
  PROVE  ServeInv'
<1>1. call[c].pc = "newgroup" /\ CallOk /\ CountOk /\ fresh \in Nat
  BY Known, Zenon DEF CreateGroup, DbOk
<1>2. /\ group' = group \cup {fresh} /\ fresh' = fresh + 1 /\ rule' = rule /\ N9eKept
      /\ Continue(c, [pc |-> "insert", r |-> call[c].r, todo |-> call[c].todo, V |-> call[c].V, g |-> fresh])
  BY <1>1, NoFaults, Zenon DEF CreateGroup, N9eKept, n9e
<1>3. call'[c] = [pc |-> "insert", r |-> call[c].r, todo |-> call[c].todo, V |-> call[c].V, g |-> fresh]
  BY <1>1, <1>2, Continues, Zenon
<1>4. call'[c].pc = "insert" /\ call'[c].r = call[c].r /\ call'[c].todo = call[c].todo
  BY <1>3
<1>5. GroupOne /\ N9eOne /\ AlertsOk /\ IdsApart /\ Matched(Open(call[c])) /\ Creating(call[c])
  BY WorkKnown, Zenon
<1>6. group' = {fresh} /\ fresh # 0 /\ fresh' # 0
  BY <1>1, <1>2, <1>5 DEF Creating, GroupOne
<1>7. GroupOne'
  BY <1>6, Zenon DEF GroupOne
<1>8. N9eOne' /\ IdsApart'
  BY <1>2, <1>5, Zenon DEF N9eKept, N9eOne, IdsApart
<1>9. ASSUME NEW i \in Nat, i < fresh PROVE i < fresh'
  BY <1>1, <1>2, <1>9
<1>10. AlertsOk'
  BY <1>2, <1>5, <1>9, Zenon DEF N9eKept, AlertsOk, AlertOk
<1>11. Open(call[c]) = {} /\ Open(call'[c]) = {}
  BY <1>1, <1>4, AtRestOpen, Zenon
<1>12. Matched(Open(call[c]))'
  BY <1>2, <1>5, <1>11, Zenon DEF N9eKept, Matched, RowsServed, AlertsServe, Alike
<1>13. Creating(call[c])' /\ Deleting(call[c])'
  BY <1>1, <1>2, <1>4, <1>5, Zenon DEF Creating, Deleting, Single, RowsOf
<1> QED
  BY <1>7, <1>8, <1>10, <1>12, <1>13, WorkMoves, Zenon DEF Working

LEMMA InsertRuleServes ==
  ASSUME Serial, AlarmInv, ServeInv, Faultless', NEW c \in AlarmClients, InsertRule(c)
  PROVE  ServeInv'
<1>1. call[c].pc = "insert" /\ CallOk /\ CountOk /\ fresh \in Nat /\ call[c] \in Insertions
  BY Known, Zenon DEF InsertRule, DbOk, GroupSide, Creates
<1>2. PICK k : k = call[c]
  BY Zenon
<1>3. PICK new : new = [pk |-> fresh, r |-> k.r, dir |-> Head(k.todo), g |-> k.g, alert |-> 0]
  BY Zenon
<1>4. /\ rule' = rule \cup {new} /\ fresh' = fresh + 1 /\ group' = group /\ N9eKept
      /\ Continue(c, [k EXCEPT !.pc = "n9e"])
  BY <1>1, <1>2, <1>3, NoFaults, Zenon DEF InsertRule, N9eKept, n9e
<1>5. call'[c] = [k EXCEPT !.pc = "n9e"]
  BY <1>1, <1>4, Continues, Zenon
<1>6. call'[c].pc = "n9e" /\ call'[c].r = k.r /\ call'[c].todo = k.todo
  BY <1>1, <1>2, <1>5 DEF Insertions
<1>7. new.r = k.r
  BY <1>3
<1>8. GroupOne /\ N9eOne /\ AlertsOk /\ IdsApart /\ Matched(Open(call[c])) /\ Creating(call[c])
  BY WorkKnown, Zenon
<1>9. Open(call[c]) = {} /\ Open(call'[c]) = {k.r}
  BY <1>1, <1>6, Zenon DEF Open
<1>10. fresh' # 0 /\ \A i \in Nat : i < fresh => i < fresh'
  BY <1>1, <1>4
<1>11. GroupOne' /\ N9eOne' /\ IdsApart'
  BY <1>4, <1>8, <1>10, Zenon DEF GroupOne, N9eKept, N9eOne, IdsApart
<1>12. AlertsOk'
  BY <1>4, <1>8, <1>10, Zenon DEF N9eKept, AlertsOk, AlertOk
<1>13. Matched({})
  BY <1>8, <1>9, Zenon
<1>14. Matched({k.r})'
  <2>1. RowsServed({k.r})'
    BY <1>4, <1>7, <1>13, Zenon DEF N9eKept, Matched, RowsServed
  <2>2. AlertsServe({k.r})'
    BY <1>4, <1>13, Zenon DEF N9eKept, Matched, AlertsServe
  <2>3. Alike({k.r})'
    BY <1>4, <1>7, <1>13, Zenon DEF Matched, Alike
  <2> QED
    BY <2>1, <2>2, <2>3, Zenon DEF Matched
<1>15. Matched(Open(call[c]))'
  BY <1>9, <1>14, MatchedAt, Zenon
<1>16. RowsOf(k.r)' # {}
  BY <1>4, <1>7, Zenon DEF RowsOf
<1>17. Single(k.r) => RowsOf(k.r) = {} /\ Len(k.todo) = 1
  BY <1>1, <1>2, <1>8, Zenon DEF Creating
<1>18. Bare(k.r)'
  <2>1. ASSUME Single(k.r), NEW a \in nalert, a.r = k.r PROVE FALSE
    <3>1. AlertsServe({}) /\ RowsOf(k.r) = {}
      BY <1>13, <1>17, <2>1, Zenon DEF Matched
    <3>2. \E x \in rule : x.r = k.r
      BY <2>1, <3>1, Zenon DEF AlertsServe, Single
    <3> QED
      BY <3>1, <3>2, Zenon DEF RowsOf
  <2> QED
    BY <1>4, <2>1, Zenon DEF N9eKept, Bare, Single
<1>19. Creating(call[c])' /\ Deleting(call[c])'
  BY <1>6, <1>16, <1>17, <1>18, Zenon DEF Creating, Deleting, Single, RowsOf, Bare
<1> QED
  BY <1>11, <1>12, <1>15, <1>19, WorkMoves, Zenon DEF Working

LEMMA BusinessGroupServes ==
  ASSUME Serial, AlarmInv, ServeInv, Faultless', NEW c \in AlarmClients, GetOrCreateBusinessGroup(c)
  PROVE  ServeInv'
<1>1. call[c].pc = "n9e" /\ CallOk /\ CountOk /\ fresh \in Nat /\ ~Draw("n9efail")
  BY Known, NoFaults, Zenon DEF GetOrCreateBusinessGroup, DbOk
<1>2. group' = group /\ rule' = rule /\ nalert' = nalert
  BY Zenon DEF GetOrCreateBusinessGroup
<1>3. PICK k : k = call[c]
  BY Zenon
<1>4. GroupOne /\ N9eOne /\ AlertsOk /\ IdsApart /\ Matched(Open(call[c])) /\ Creating(call[c])
  BY WorkKnown, Zenon
<1>5. ngroup' = cached' /\ cached' # 0 /\ fresh' \in Nat /\ fresh <= fresh' /\ fresh' # 0
      /\ Continue(c, ToAlert(k, cached')) /\ (nalert # {} => ngroup' = ngroup)
  <2>1. CASE /\ GetBusinessGroupByName # 0 /\ cached' = GetBusinessGroupByName
             /\ Continue(c, ToAlert(call[c], GetBusinessGroupByName)) /\ UNCHANGED <<ngroup, fresh>>
    <3>1. GetBusinessGroupByName = ngroup
      BY <1>4, Zenon DEF GetBusinessGroupByName, N9eOne
    <3> QED
      BY <1>1, <1>3, <1>4, <2>1, <3>1 DEF GroupOne
  <2>2. CASE /\ GetBusinessGroupByName = 0 /\ ngroup' = fresh /\ cached' = fresh /\ fresh' = fresh + 1
             /\ Continue(c, ToAlert(call[c], fresh))
    <3>1. nalert = {} /\ fresh # 0
      BY <1>4, <2>2, Zenon DEF GetBusinessGroupByName, N9eOne, GroupOne
    <3> QED
      BY <1>1, <1>3, <2>2, <3>1
  <2> QED
    BY <1>1, <2>1, <2>2, Zenon DEF GetOrCreateBusinessGroup
<1>6. call'[c] = ToAlert(k, cached')
  BY <1>1, <1>5, Continues, Zenon
<1>7. call'[c].pc = "alert" /\ call'[c].r = k.r /\ call'[c].todo = k.todo /\ call'[c].n = cached'
  BY <1>6 DEF ToAlert
<1>8. \A i \in Nat : i < fresh => i < fresh'
  BY <1>1, <1>5
<1>9. GroupOne' /\ N9eOne' /\ IdsApart'
  BY <1>2, <1>4, <1>5, Zenon DEF GroupOne, N9eOne, IdsApart
<1>10. ASSUME NEW a \in nalert PROVE AlertOk(a)'
  <2>1. AlertOk(a) /\ ngroup' = ngroup
    BY <1>4, <1>5, <1>10, Zenon DEF AlertsOk
  <2> QED
    BY <1>8, <2>1, Zenon DEF AlertOk
<1>11. AlertsOk'
  BY <1>2, <1>10, Zenon DEF AlertsOk
<1>12. Open(call[c]) = {k.r} /\ Open(call'[c]) = {k.r}
  BY <1>1, <1>3, <1>7, Zenon DEF Open
<1>13. Matched(Open(call[c]))'
  <2>1. Matched({k.r})
    BY <1>4, <1>12, Zenon
  <2>2. Matched({k.r})'
    BY <1>2, <2>1, Zenon DEF Matched, RowsServed, AlertsServe, Alike
  <2> QED
    BY <1>12, <2>2, MatchedAt, Zenon
<1>14. Bare(k.r)' /\ RowsOf(k.r)' # {} /\ (Single(k.r) => Len(k.todo) = 1)
  BY <1>1, <1>2, <1>3, <1>4, Zenon DEF Creating, Bare, RowsOf
<1>15. Creating(call[c])' /\ Deleting(call[c])'
  BY <1>5, <1>7, <1>14, Zenon DEF Creating, Deleting, Single, RowsOf, Bare
<1> QED
  BY <1>9, <1>11, <1>13, <1>15, WorkMoves, Zenon DEF Working

(* The request goes on to store the id of an alert rule of its own. *)
ToStore(k, i) == [pc |-> "store", r |-> k.r, todo |-> k.todo, V |-> k.V, g |-> k.g, id |-> i]

LEMMA AlertStored ==
  ASSUME Serial, AlarmInv, NEW c \in AlarmClients, NEW k, k = call[c], call[c].pc = "alert",
         Creating(call[c]), Matched(Open(call[c])), rule' = rule, nalert \subseteq nalert',
         \A a \in nalert' : a \in nalert \/ a.r = k.r,
         NEW b \in nalert', b.r = k.r, Single(k.r) => \A a \in nalert' : a.r = k.r => a.id = b.id,
         Continue(c, ToStore(k, b.id))
  PROVE  Working(call[c])'
<1>1. call'[c] = ToStore(k, b.id)
  BY Known, Continues, Zenon
<1>2. call'[c].pc = "store" /\ call'[c].r = k.r /\ call'[c].todo = k.todo /\ call'[c].id = b.id
  BY <1>1 DEF ToStore
<1>3. Open(call[c]) = {k.r} /\ Open(call'[c]) = {k.r}
  BY <1>2, Zenon DEF Open
<1>4. Matched({k.r})'
  <2>1. Matched({k.r})
    BY <1>3, Zenon
  <2>2. RowsServed({k.r})' /\ Alike({k.r})'
    BY <2>1, Zenon DEF Matched, RowsServed, Alike
  <2>3. AlertsServe({k.r})'
    BY <2>1, Zenon DEF Matched, AlertsServe
  <2> QED
    BY <2>2, <2>3, Zenon DEF Matched
<1>5. Matched(Open(call[c]))'
  BY <1>3, <1>4, MatchedAt, Zenon
<1>6. RowsOf(k.r)' # {} /\ (Single(k.r) => Len(k.todo) = 1)
  BY Zenon DEF Creating, RowsOf
<1>7. \E a \in nalert' : a.id = call'[c].id /\ a.r = call'[c].r
  BY <1>2, Zenon
<1>8. Single(k.r) => \A a \in nalert' : a.r = call'[c].r => a.id = call'[c].id
  BY <1>2, Zenon
<1>9. Creating(call[c])'
  BY <1>2, <1>6, <1>7, <1>8, ZenonT(60) DEF Creating, Single, RowsOf
<1>10. Deleting(call[c])'
  BY <1>2, Zenon DEF Deleting
<1> QED
  BY <1>5, <1>9, <1>10, Zenon DEF Working

LEMMA CreateAlertRuleServes ==
  ASSUME NamesApart, Serial, AlarmInv, ServeInv, Faultless', NEW c \in AlarmClients, CreateAlertRule(c)
  PROVE  ServeInv'
<1>1. /\ call[c].pc = "alert" /\ CallOk /\ CountOk /\ fresh \in Nat /\ ~Draw("n9efail")
      /\ Asked(call[c]) /\ group' = group /\ rule' = rule /\ ngroup' = ngroup /\ cached' = cached
  BY Known, NoFaults, Zenon DEF CreateAlertRule, DbOk, GroupSide, Creates
<1>2. PICK k : k = call[c]
  BY Zenon
<1>3. GroupOne /\ N9eOne /\ AlertsOk /\ IdsApart /\ Matched(Open(call[c])) /\ Creating(call[c])
  BY WorkKnown, Zenon
<1>4. k.n = ngroup /\ ngroup # 0 /\ Bare(k.r) /\ RowsOf(k.r) # {}
  BY <1>1, <1>2, <1>3, Zenon DEF Creating
<1>5. PICK d : d = Head(k.todo)
  BY Zenon
<1>6. k.r \in Rules /\ d \in AllDirs
  <2>1. k.r \in Rules /\ d \in KDirs(k.r)
    BY <1>1, <1>2, <1>5, SeqSteps, Zenon DEF Asked
  <2> QED
    BY <2>1, KDirsIn, Zenon
<1>7. PICK same : same = {a \in nalert : a.n = k.n /\ a.name = NameOf(k.r, d)}
  BY Zenon
<1>8. PICK new : new = [id |-> fresh, n |-> k.n, name |-> NameOf(k.r, d), r |-> k.r, dir |-> d]
  BY Zenon
<1>9. \/ same # {} /\ Continue(c, ToStore(k, (CHOOSE a \in same : TRUE).id)) /\ UNCHANGED <<nalert, fresh>>
      \/ /\ same = {} /\ nalert' = nalert \cup {new} /\ fresh' = fresh + 1
         /\ Continue(c, ToStore(k, fresh))
  BY <1>1, <1>2, <1>4, <1>5, <1>7, <1>8, Zenon DEF CreateAlertRule, ToStore
<1>10. ASSUME NEW a \in same PROVE a \in nalert /\ a.r = k.r
  <2>1. a \in nalert /\ AlertOk(a) /\ a.name = NameOf(k.r, d)
    BY <1>3, <1>7, <1>10, Zenon DEF AlertsOk
  <2> QED
    BY <1>6, <2>1, Zenon DEF AlertOk, NamesApart
<1>11. CASE same # {} /\ Continue(c, ToStore(k, (CHOOSE a \in same : TRUE).id)) /\ UNCHANGED <<nalert, fresh>>
  <2>1. PICK b : b = (CHOOSE a \in same : TRUE)
    BY Zenon
  <2>2. b \in same
    BY <1>11, <2>1, Zenon
  <2>3. b \in nalert' /\ b.r = k.r
    BY <1>10, <1>11, <2>2, Zenon
  <2>4. ~Single(k.r)
    BY <1>4, <1>11, <2>3, Zenon DEF Bare
  <2>5. Continue(c, ToStore(k, b.id))
    BY <1>11, <2>1, Zenon
  <2>6. nalert \subseteq nalert' /\ \A a \in nalert' : a \in nalert \/ a.r = k.r
    BY <1>11, Zenon
  <2>7. Working(call[c])'
    BY <1>1, <1>2, <1>3, <2>3, <2>4, <2>5, <2>6, AlertStored, Zenon
  <2>8. GroupOne' /\ N9eOne' /\ AlertsOk' /\ IdsApart'
    BY <1>1, <1>3, <1>11, Zenon DEF GroupOne, N9eOne, AlertsOk, AlertOk, IdsApart
  <2> QED
    BY <2>7, <2>8, WorkMoves, Zenon
<1>12. CASE /\ same = {} /\ nalert' = nalert \cup {new} /\ fresh' = fresh + 1
            /\ Continue(c, ToStore(k, fresh))
  <2>1. new.id = fresh /\ new.n = k.n /\ new.name = NameOf(k.r, d) /\ new.r = k.r /\ new.dir = d
    BY <1>8
  <2>2. fresh # 0 /\ fresh' # 0 /\ fresh < fresh' /\ \A i \in Nat : i < fresh => i < fresh' /\ i # fresh
    BY <1>1, <1>3, <1>12 DEF GroupOne
  <2>3. GroupOne' /\ N9eOne'
    BY <1>1, <1>3, <1>4, <2>2, Zenon DEF GroupOne, N9eOne
  <2>4. AlertOk(new)'
    BY <1>1, <1>4, <1>6, <2>1, <2>2, Zenon DEF AlertOk
  <2>5. ASSUME NEW a \in nalert PROVE AlertOk(a)' /\ a.id # fresh
    BY <1>1, <1>3, <2>2, <2>5, Zenon DEF AlertsOk, AlertOk
  <2>6. AlertsOk'
    BY <1>12, <2>4, <2>5, Zenon DEF AlertsOk
  <2>7. IdsApart'
    BY <1>3, <1>12, <2>1, <2>5, Zenon DEF IdsApart
  <2>8. nalert \subseteq nalert' /\ new \in nalert' /\ \A a \in nalert' : a \in nalert \/ a.r = k.r
    BY <1>12, <2>1, Zenon
  <2>9. Single(k.r) => \A a \in nalert' : a.r = k.r => a.id = new.id
    BY <1>4, <1>12, Zenon DEF Bare
  <2>10. Continue(c, ToStore(k, new.id))
    BY <1>12, <2>1, Zenon
  <2>11. Working(call[c])'
    BY <1>1, <1>2, <1>3, <2>1, <2>8, <2>9, <2>10, AlertStored, Zenon
  <2> QED
    BY <2>3, <2>6, <2>7, <2>11, WorkMoves, Zenon
<1> QED
  BY <1>9, <1>11, <1>12, Zenon

LEMMA StoreAlertIDServes ==
  ASSUME Serial, AlarmInv, ServeInv, Faultless', NEW c \in AlarmClients, StoreAlertID(c)
  PROVE  ServeInv'
<1>1. /\ call[c].pc = "store" /\ CallOk /\ CountOk /\ ~Draw("dbfail") /\ rule \subseteq RuleRows
      /\ N9eKept /\ group' = group /\ fresh' = fresh /\ Continue(c, ToLinks(call[c]))
  BY Known, NoFaults, Zenon DEF StoreAlertID, DbOk, N9eKept, n9e
<1>2. PICK k : k = call[c]
  BY Zenon
<1> DEFINE stored(x) == [x EXCEPT !.alert = k.id]
<1>3. rule' = (rule \ RowsOf(k.r)) \cup {stored(x) : x \in RowsOf(k.r)}
  BY <1>1, <1>2, Zenon DEF StoreAlertID
<1>4. ASSUME NEW x \in RuleRows PROVE stored(x).r = x.r /\ stored(x).alert = k.id
  BY <1>4 DEF RuleRows
<1> HIDE DEF stored
<1>5. GroupOne /\ N9eOne /\ AlertsOk /\ IdsApart /\ Matched(Open(call[c])) /\ Creating(call[c])
  BY WorkKnown, Zenon
<1>6. Open(call[c]) = {k.r}
  BY <1>1, <1>2, Zenon DEF Open
<1>7. Matched({k.r})
  BY <1>5, <1>6, Zenon
<1>8. call'[c] = ToLinks(k)
  BY <1>1, <1>2, Continues, Zenon
<1>9. call'[c].pc = "links" /\ call'[c].r = k.r /\ call'[c].todo = k.todo
  BY <1>8 DEF ToLinks
<1>10. Open(call'[c]) = {}
  BY <1>9, AtRestOpen, Zenon
<1>11. ASSUME NEW y \in rule' PROVE (y \in rule /\ y.r # k.r) \/ (y.r = k.r /\ y.alert = k.id)
  <2>1. CASE y \in rule \ RowsOf(k.r)
    BY <2>1, Zenon DEF RowsOf
  <2>2. CASE \E x \in RowsOf(k.r) : y = stored(x)
    <3>1. PICK x \in RowsOf(k.r) : y = stored(x)
      BY <2>2, Zenon
    <3>2. x \in RuleRows /\ x.r = k.r
      BY <1>1, <3>1, Zenon DEF RowsOf
    <3> QED
      BY <1>4, <3>1, <3>2, Zenon
  <2> QED
    BY <1>3, <1>11, <2>1, <2>2, Zenon
<1>12. PICK b \in nalert : b.id = k.id /\ b.r = k.r
  BY <1>1, <1>2, <1>5, Zenon DEF Creating
<1>13. RowsServed({})'
  <2>1. ASSUME NEW y \in rule' PROVE \E a \in nalert : a.id = y.alert /\ a.r = y.r
    BY <1>7, <1>11, <1>12, <2>1, Zenon DEF Matched, RowsServed
  <2> QED
    BY <1>1, <2>1, Zenon DEF RowsServed, N9eKept
<1>14. Alike({})'
  <2>1. ASSUME NEW x \in rule', NEW y \in rule', x.r = y.r PROVE x.alert = y.alert
    BY <1>7, <1>11, <2>1, Zenon DEF Matched, Alike
  <2> QED
    BY <2>1, Zenon DEF Alike
<1>15. PICK z \in RowsOf(k.r) : TRUE
  BY <1>1, <1>2, <1>5, Zenon DEF Creating
<1>16. stored(z) \in rule' /\ stored(z).r = k.r /\ stored(z).alert = k.id
  <2>1. z \in RuleRows /\ z.r = k.r
    BY <1>1, <1>15, Zenon DEF RowsOf
  <2> QED
    BY <1>3, <1>4, <1>15, <2>1, Zenon
<1>17. AlertsServe({})'
  <2>1. ASSUME NEW a \in nalert, KindOf[a.r] # "bandwidth" PROVE \E x \in rule' : x.r = a.r /\ x.alert = a.id
    <3>1. CASE a.r = k.r
      <4>1. a.id = k.id
        BY <1>1, <1>2, <1>5, <2>1, <3>1, Zenon DEF Creating, Single
      <4> QED
        BY <1>16, <3>1, <4>1, Zenon
    <3>2. CASE a.r # k.r
      <4>1. PICK x \in rule : x.r = a.r /\ x.alert = a.id
        BY <1>7, <2>1, <3>2, Zenon DEF Matched, AlertsServe
      <4>2. x \in rule'
        BY <1>3, <3>2, <4>1, Zenon DEF RowsOf
      <4> QED
        BY <4>1, <4>2, Zenon
    <3> QED
      BY <3>1, <3>2, Zenon
  <2> QED
    BY <1>1, <2>1, Zenon DEF AlertsServe, N9eKept
<1>18. Matched(Open(call[c]))'
  <2>1. Matched({})'
    BY <1>13, <1>14, <1>17, Zenon DEF Matched
  <2> QED
    BY <1>10, <2>1, MatchedAt, Zenon
<1>19. GroupOne' /\ N9eOne' /\ AlertsOk' /\ IdsApart'
  BY <1>1, <1>5, Zenon DEF GroupOne, N9eOne, AlertsOk, AlertOk, IdsApart, N9eKept
<1>20. Single(k.r) => Len(k.todo) = 1
  BY <1>1, <1>2, <1>5, Zenon DEF Creating
<1>21. Creating(call[c])' /\ Deleting(call[c])'
  BY <1>9, <1>20, Zenon DEF Creating, Deleting, Single
<1> QED
  BY <1>18, <1>19, <1>21, WorkMoves, Zenon DEF Working

LEMMA LinkNewRuleServes ==
  ASSUME Serial, AlarmInv, ServeInv, NEW c \in AlarmClients, LinkNewRule(c)
  PROVE  ServeInv'
<1>1. call[c].pc = "links" /\ CallOk /\ call[c] \in Insertions /\ RowsKept /\ N9eKept
  BY Known, Zenon DEF LinkNewRule, RowsKept, N9eKept, n9e, GroupSide, Creates
<1>2. PICK k : k = call[c]
  BY Zenon
<1>3. call'[c] = IF Len(k.todo) = 1 THEN [pc |-> "idle"] ELSE [k EXCEPT !.pc = "insert", !.todo = Tail(@)]
  BY <1>1, <1>2, Continues, Zenon DEF LinkNewRule
<1>4. TablesKept
  BY <1>1, SameTables, Zenon
<1>5. Open(call[c]) = {} /\ Creating(call[c])
  BY <1>1, AtRestOpen, WorkKnown, Zenon
<1>6. CASE Len(k.todo) = 1
  <2>1. call'[c].pc = "idle"
    BY <1>3, <1>6
  <2>2. Open(call'[c]) = {} /\ Creating(call[c])' /\ Deleting(call[c])'
    BY <2>1, AtRestOpen, Zenon DEF Creating, Deleting
  <2> QED
    BY <1>4, <1>5, <2>2, Onwards, Zenon
<1>7. CASE Len(k.todo) # 1
  <2>1. call'[c] = [k EXCEPT !.pc = "insert", !.todo = Tail(@)]
    BY <1>3, <1>7, Zenon
  <2>2. call'[c].pc = "insert" /\ call'[c].r = k.r
    BY <1>1, <1>2, <2>1 DEF Insertions
  <2>3. ~Single(k.r)
    BY <1>1, <1>2, <1>5, <1>7, Zenon DEF Creating
  <2>4. Open(call'[c]) = {} /\ Creating(call[c])' /\ Deleting(call[c])'
    BY <2>2, <2>3, AtRestOpen, Zenon DEF Creating, Deleting, Single
  <2> QED
    BY <1>4, <1>5, <2>4, Onwards, Zenon
<1> QED
  BY <1>6, <1>7, Zenon
-----------------------------------------------------------------------------
(* Deletion. *)

LEMMA DeleteServes ==
  ASSUME Serial, AlarmInv, ServeInv, NEW c \in AlarmClients, NEW r \in Rules, DeleteN9ERule(c, r)
  PROVE  ServeInv'
<1>1. call[c].pc = "idle" /\ RowsKept /\ N9eKept /\ RowsOf(r) # {} /\ CallOk /\ rule \subseteq RuleRows /\ RulesGrouped
  BY Known, Zenon DEF DeleteN9ERule, FreeClient, RowsKept, N9eKept, n9e, DbOk
<1>2. PICK x : x = FirstRow(RowsOf(r))
  BY Zenon
<1>3. x \in rule /\ x.r = r
  <2>1. RowsOf(r) \subseteq RuleRows
    BY <1>1, Zenon DEF RowsOf
  <2>2. x \in RowsOf(r)
    BY <1>1, <1>2, <2>1, FirstRowIn, Zenon
  <2> QED
    BY <2>2, Zenon DEF RowsOf
<1>4. x.g \in group
  BY <1>1, <1>3, Zenon DEF RulesGrouped
<1>5. call'[c] = [pc |-> "clear", r |-> r, row |-> x, g |-> x.g]
  BY <1>1, <1>2, <1>4, Continues, Zenon DEF DeleteN9ERule
<1>6. call'[c].pc = "clear" /\ call'[c].r = r /\ call'[c].row = x /\ call'[c].g = x.g
  BY <1>5
<1>7. Open(call[c]) = {} /\ Open(call'[c]) = {}
  BY <1>1, <1>6, AtRestOpen, Zenon
<1>8. Creating(call[c])' /\ Deleting(call[c])'
  BY <1>1, <1>3, <1>4, <1>6, Zenon DEF Creating, Deleting, RowsKept
<1>9. TablesKept
  BY <1>1, SameTables, Zenon
<1> QED
  BY <1>7, <1>8, <1>9, Onwards, Zenon

LEMMA ClearServes ==
  ASSUME Serial, AlarmInv, ServeInv, NEW c \in AlarmClients, ClearAnchorThresholds(c)
  PROVE  ServeInv'
<1>1. call[c].pc = "clear" /\ RowsKept /\ N9eKept /\ CallOk
  BY Known, Zenon DEF ClearAnchorThresholds, RowsKept, N9eKept, n9e
<1>2. PICK k : k = call[c]
  BY Zenon
<1>3. PICK S : S = VMLinksOf(k.r)
  BY Zenon
<1>4. call'[c] = [pc |-> "unlinkall", r |-> k.r, row |-> k.row, g |-> k.g, seen |-> S]
  BY <1>1, <1>2, <1>3, Continues, Zenon DEF ClearAnchorThresholds
<1>5. call'[c].pc = "unlinkall" /\ call'[c].r = k.r /\ call'[c].row = k.row /\ call'[c].g = k.g
  BY <1>4
<1>6. Open(call[c]) = {} /\ Open(call'[c]) = {}
  BY <1>1, <1>5, AtRestOpen, Zenon
<1>7. k.row \in rule /\ k.row.r = k.r /\ k.g \in group
  BY <1>1, <1>2, WorkKnown, Zenon DEF Deleting
<1>8. Creating(call[c])' /\ Deleting(call[c])'
  BY <1>1, <1>5, <1>7, Zenon DEF Creating, Deleting, RowsKept
<1>9. TablesKept
  BY <1>1, SameTables, Zenon
<1> QED
  BY <1>6, <1>8, <1>9, Onwards, Zenon

LEMMA DeleteLinksServes ==
  ASSUME Serial, AlarmInv, ServeInv, NEW c \in AlarmClients, DeleteLinks(c)
  PROVE  ServeInv'
<1>1. call[c].pc = "unlinkall" /\ RowsKept /\ N9eKept /\ CallOk
  BY Known, Zenon DEF DeleteLinks, RowsKept, N9eKept, n9e
<1>2. PICK k : k = call[c]
  BY Zenon
<1>3. call'[c] = [pc |-> "unalert", r |-> k.r, row |-> k.row, g |-> k.g]
  BY <1>1, <1>2, Continues, Zenon DEF DeleteLinks
<1>4. call'[c].pc = "unalert" /\ call'[c].r = k.r /\ call'[c].row = k.row /\ call'[c].g = k.g
  BY <1>3
<1>5. Open(call[c]) = {} /\ Open(call'[c]) = {}
  BY <1>1, <1>4, AtRestOpen, Zenon
<1>6. k.row \in rule /\ k.row.r = k.r /\ k.g \in group
  BY <1>1, <1>2, WorkKnown, Zenon DEF Deleting
<1>7. Creating(call[c])' /\ Deleting(call[c])'
  BY <1>1, <1>4, <1>6, Zenon DEF Creating, Deleting, RowsKept
<1>8. TablesKept
  BY <1>1, SameTables, Zenon
<1> QED
  BY <1>5, <1>7, <1>8, Onwards, Zenon

(* The id of the row is that of every alert rule of a CPU or memory rule,   *)
(* and of no alert rule of another one.                                    *)
LEMMA DeleteAlertRuleServes ==
  ASSUME Serial, AlarmInv, ServeInv, Faultless', NEW c \in AlarmClients, DeleteAlertRule(c)
  PROVE  ServeInv'
<1>1. /\ call[c].pc = "unalert" /\ CallOk /\ CountOk /\ ~Draw("n9efail") /\ call[c] \in Deletions
      /\ RowsKept /\ ngroup' = ngroup
  BY Known, NoFaults, Zenon DEF DeleteAlertRule, GroupSide, Deletes, RowsKept
<1>2. PICK k : k = call[c]
  BY Zenon
<1>3. GroupOne /\ N9eOne /\ AlertsOk /\ IdsApart /\ Matched(Open(call[c])) /\ Deleting(call[c])
  BY WorkKnown, Zenon
<1>4. Open(call[c]) = {}
  BY <1>1, AtRestOpen, Zenon
<1>5. Matched({})
  BY <1>3, <1>4, Zenon
<1>6. k.row \in rule /\ k.row.r = k.r /\ k.g \in group
  BY <1>1, <1>2, <1>3, Zenon DEF Deleting
<1>7. PICK b \in nalert : b.id = k.row.alert /\ b.r = k.r
  BY <1>5, <1>6, Zenon DEF Matched, RowsServed
<1>8. k.row.alert # 0 /\ k.g # 0
  BY <1>3, <1>6, <1>7, Zenon DEF AlertsOk, AlertOk, GroupOne
<1>9. GetBusinessGroupByName = ngroup
  BY <1>3, Zenon DEF GetBusinessGroupByName, N9eOne
<1>10. cached' = ngroup /\ nalert' = {a \in nalert : a.id # k.row.alert \/ a.n # ngroup}
  BY <1>1, <1>2, <1>8, <1>9, Zenon DEF DeleteAlertRule
<1>11. nalert' \subseteq nalert /\ \A a \in nalert : a \in nalert' <=> a.id # k.row.alert
  <2>1. \A a \in nalert : a.n = ngroup
    BY <1>3, Zenon DEF AlertsOk, AlertOk
  <2> QED
    BY <1>10, <2>1, Zenon
<1>12. call'[c] = [k EXCEPT !.pc = "unrow"]
  BY <1>1, <1>2, Continues, Zenon DEF DeleteAlertRule
<1>13. call'[c].pc = "unrow" /\ call'[c].r = k.r /\ call'[c].g = k.g
  BY <1>1, <1>2, <1>12 DEF Deletions
<1>14. Open(call'[c]) = {k.r}
  BY <1>13, Zenon DEF Open
<1>15. GroupOne' /\ N9eOne' /\ AlertsOk' /\ IdsApart'
  <2>1. GroupOne' /\ IdsApart'
    BY <1>1, <1>3, <1>11, Zenon DEF GroupOne, IdsApart, RowsKept
  <2>2. N9eOne'
    BY <1>1, <1>3, <1>10, <1>11, Zenon DEF N9eOne
  <2>3. AlertsOk'
    BY <1>1, <1>3, <1>11, Zenon DEF AlertsOk, AlertOk, RowsKept
  <2> QED
    BY <2>1, <2>2, <2>3, Zenon
<1>16. ASSUME NEW x \in rule, x.r # k.r PROVE \E a \in nalert' : a.id = x.alert /\ a.r = x.r
  <2>1. PICK a \in nalert : a.id = x.alert /\ a.r = x.r
    BY <1>5, <1>16, Zenon DEF Matched, RowsServed
  <2>2. a.id # k.row.alert
    BY <1>3, <1>7, <1>16, <2>1, Zenon DEF IdsApart
  <2> QED
    BY <1>11, <2>1, <2>2, Zenon
<1>17. Matched({k.r})'
  <2>1. RowsServed({k.r})'
    BY <1>1, <1>16, Zenon DEF RowsServed, RowsKept
  <2>2. AlertsServe({k.r})' /\ Alike({k.r})'
    BY <1>1, <1>5, <1>11, Zenon DEF Matched, AlertsServe, Alike, RowsKept
  <2> QED
    BY <2>1, <2>2, Zenon DEF Matched
<1>18. Matched(Open(call[c]))'
  BY <1>14, <1>17, MatchedAt, Zenon
<1>19. ASSUME Single(k.r), NEW a \in nalert', a.r = k.r PROVE FALSE
  <2>1. a \in nalert /\ a.id # k.row.alert
    BY <1>11, <1>19, Zenon
  <2>2. PICK x \in rule : x.r = a.r /\ x.alert = a.id
    BY <1>5, <1>19, <2>1, Zenon DEF Matched, AlertsServe, Single
  <2> QED
    BY <1>5, <1>6, <1>19, <2>1, <2>2, Zenon DEF Matched, Alike
<1>20. Creating(call[c])' /\ Deleting(call[c])'
  <2>1. Bare(call[c].r)'
    BY <1>13, <1>19, Zenon DEF Bare, Single
  <2> QED
    BY <1>1, <1>6, <1>13, <2>1, Zenon DEF Creating, Deleting, RowsKept
<1> QED
  BY <1>15, <1>18, <1>20, WorkMoves, Zenon DEF Working

LEMMA DeleteRowServes ==
  ASSUME Serial, AlarmInv, ServeInv, Faultless', NEW c \in AlarmClients, DeleteRow(c)
  PROVE  ServeInv'
<1>1. /\ call[c].pc = "unrow" /\ CallOk /\ CountOk /\ ~Draw("dbfail") /\ call[c] \in Deletions
      /\ group' = group /\ fresh' = fresh /\ N9eKept
  BY Known, NoFaults, Zenon DEF DeleteRow, GroupSide, Deletes, N9eKept, n9e
<1>2. PICK k : k = call[c]
  BY Zenon
<1>3. rule' = rule \ RowsOf(k.r) /\ call'[c] = [k EXCEPT !.pc = "count"]
  BY <1>1, <1>2, Continues, Zenon DEF DeleteRow
<1>4. call'[c].pc = "count" /\ call'[c].g = k.g
  BY <1>1, <1>2, <1>3 DEF Deletions
<1>5. Open(call'[c]) = {} /\ Open(call[c]) = {k.r}
  BY <1>1, <1>2, <1>4, Zenon DEF Open
<1>6. GroupOne /\ N9eOne /\ AlertsOk /\ IdsApart /\ Matched(Open(call[c])) /\ Deleting(call[c])
  BY WorkKnown, Zenon
<1>7. Matched({k.r}) /\ Bare(k.r) /\ k.g \in group
  BY <1>1, <1>2, <1>5, <1>6, Zenon DEF Deleting
<1>8. \A x : x \in rule' <=> x \in rule /\ x.r # k.r
  BY <1>3, Zenon DEF RowsOf
<1>9. RowsServed({})' /\ Alike({})'
  BY <1>1, <1>7, <1>8, Zenon DEF Matched, RowsServed, Alike, N9eKept
<1>10. AlertsServe({})'
  <2>1. ASSUME NEW a \in nalert, KindOf[a.r] # "bandwidth" PROVE \E x \in rule' : x.r = a.r /\ x.alert = a.id
    <3>1. a.r # k.r
      BY <1>7, <2>1, Zenon DEF Bare, Single
    <3>2. PICK x \in rule : x.r = a.r /\ x.alert = a.id
      BY <1>7, <2>1, <3>1, Zenon DEF Matched, AlertsServe
    <3> QED
      BY <1>8, <3>1, <3>2, Zenon
  <2> QED
    BY <1>1, <2>1, Zenon DEF AlertsServe, N9eKept
<1>11. Matched(Open(call[c]))'
  <2>1. Matched({})'
    BY <1>9, <1>10, Zenon DEF Matched
  <2> QED
    BY <1>5, <2>1, MatchedAt, Zenon
<1>12. GroupOne' /\ N9eOne' /\ AlertsOk' /\ IdsApart'
  BY <1>1, <1>6, Zenon DEF GroupOne, N9eOne, AlertsOk, AlertOk, IdsApart, N9eKept
<1>13. Creating(call[c])' /\ Deleting(call[c])'
  BY <1>1, <1>4, <1>7, Zenon DEF Creating, Deleting
<1> QED
  BY <1>11, <1>12, <1>13, WorkMoves, Zenon DEF Working

LEMMA CountRulesServes ==
  ASSUME Serial, AlarmInv, ServeInv, NEW c \in AlarmClients, CountRules(c)
  PROVE  ServeInv'
<1>1. call[c].pc = "count" /\ RowsKept /\ N9eKept /\ CallOk /\ call[c] \in Deletions
  BY Known, Zenon DEF CountRules, RowsKept, N9eKept, n9e, GroupSide, Deletes
<1>2. call[c].g \in group
  BY <1>1, WorkKnown, Zenon DEF Deleting
<1>3. TablesKept
  BY <1>1, SameTables, Zenon
<1>4. call'[c] = [call[c] EXCEPT !.pc = "ungroup"] \/ call'[c] = [pc |-> "idle"]
  BY <1>1, Continues, ZenonT(60) DEF CountRules, Return
<1>5. call'[c].pc = "idle" \/ (call'[c].pc = "ungroup" /\ call'[c].g = call[c].g)
  BY <1>1, <1>4 DEF Deletions
<1>6. Open(call[c]) = {} /\ Open(call'[c]) = {}
  BY <1>1, <1>5, AtRestOpen, Zenon
<1>7. Creating(call[c])' /\ Deleting(call[c])'
  BY <1>1, <1>2, <1>5, Zenon DEF Creating, Deleting, RowsKept
<1> QED
  BY <1>3, <1>6, <1>7, Onwards, Zenon

(* The last group goes when no rule is left. *)
LEMMA DeleteGroupServes ==
  ASSUME Serial, AlarmInv, ServeInv, Faultless', NEW c \in AlarmClients, DeleteGroup(c)
  PROVE  ServeInv'
<1>1. /\ call[c].pc = "ungroup" /\ CallOk /\ CountOk /\ ~Draw("dbfail") /\ call[c] \in Deletions
      /\ RulesGrouped /\ (\A x \in rule : x.g # call[c].g) /\ rule' = rule /\ fresh' = fresh /\ N9eKept
  BY Known, NoFaults, Zenon DEF DeleteGroup, GroupSide, Deletes, N9eKept, n9e
<1>2. group' = group \ {call[c].g} /\ call'[c] = [call[c] EXCEPT !.pc = "unngroup"]
  BY <1>1, Continues, Zenon DEF DeleteGroup
<1>3. call'[c].pc = "unngroup"
  BY <1>1, <1>2 DEF Deletions
<1>4. GroupOne /\ N9eOne /\ AlertsOk /\ IdsApart /\ Matched(Open(call[c])) /\ call[c].g \in group
  BY <1>1, WorkKnown, Zenon DEF Deleting
<1>5. rule = {}
  BY <1>1, <1>4, Zenon DEF RulesGrouped, GroupOne
<1>6. Open(call[c]) = {} /\ Open(call'[c]) = {}
  BY <1>1, <1>3, AtRestOpen, Zenon
<1>7. Matched({})
  BY <1>4, <1>6, Zenon
<1>8. Matched({})'
  BY <1>1, <1>7, Zenon DEF Matched, RowsServed, AlertsServe, Alike, N9eKept
<1>9. Matched(Open(call[c]))'
  BY <1>6, <1>8, MatchedAt, Zenon
<1>10. GroupOne' /\ N9eOne' /\ AlertsOk' /\ IdsApart'
  BY <1>1, <1>2, <1>4, Zenon DEF GroupOne, N9eOne, AlertsOk, AlertOk, IdsApart, N9eKept
<1>11. Creating(call[c])' /\ Deleting(call[c])'
  BY <1>1, <1>3, <1>5, Zenon DEF Creating, Deleting
<1> QED
  BY <1>9, <1>10, <1>11, WorkMoves, Zenon DEF Working

LEMMA DeleteBusinessGroupServes ==
  ASSUME Serial, AlarmInv, ServeInv, NEW c \in AlarmClients, DeleteBusinessGroupByID(c)
  PROVE  ServeInv'
<1>1. call[c].pc = "unngroup" /\ RowsKept /\ CallOk /\ Return(c)
  BY Known, Zenon DEF DeleteBusinessGroupByID, RowsKept
<1>2. call'[c] = [pc |-> "idle"]
  BY <1>1, Continues, Zenon DEF Return
<1>3. call'[c].pc = "idle"
  BY <1>2
<1>4. Open(call[c]) = {} /\ Open(call'[c]) = {}
  BY <1>1, <1>3, AtRestOpen, Zenon
<1>5. Creating(call[c])' /\ Deleting(call[c])'
  BY <1>3, Zenon DEF Creating, Deleting
<1>6. CASE N9eKept
  <2>1. TablesKept
    BY <1>1, <1>6, SameTables, Zenon
  <2> QED
    BY <1>4, <1>5, <2>1, Onwards, Zenon
<1>7. CASE ngroup' = 0 /\ cached' = 0 /\ nalert' = {a \in nalert : a.n # ngroup}
  <2>1. GroupOne /\ AlertsOk /\ rule = {}
    BY <1>1, WorkKnown, Zenon DEF Deleting
  <2>2. nalert' = {}
    BY <1>7, <2>1, Zenon DEF AlertsOk, AlertOk
  <2>3. GroupOne' /\ N9eOne' /\ AlertsOk' /\ IdsApart'
    BY <1>1, <1>7, <2>1, <2>2, Zenon DEF GroupOne, N9eOne, AlertsOk, IdsApart, RowsKept
  <2>4. Matched(Open(call[c]))'
    BY <1>1, <2>1, <2>2, Zenon DEF Matched, RowsServed, AlertsServe, Alike, RowsKept
  <2> QED
    BY <1>5, <2>3, <2>4, WorkMoves, Zenon DEF Working
<1> QED
  BY <1>6, <1>7, Zenon DEF DeleteBusinessGroupByID, N9eKept, n9e
-----------------------------------------------------------------------------
(* The requests that leave rules and alerts alone. *)

LEMMA OtherStep ==
  ASSUME Serial, AlarmInv, ServeInv, NEW c \in AlarmClients, call[c].pc \notin ServePcs,
         NEW q, Continue(c, q), q.pc \notin ServePcs, RowsKept, N9eKept
  PROVE  ServeInv'
<1>1. call'[c].pc \notin ServePcs
  BY Known, Continues, Zenon
<1> QED
  BY <1>1, SameTables, Elsewhere, Zenon

LEMMA OtherReturn ==
  ASSUME Serial, AlarmInv, ServeInv, NEW c \in AlarmClients, call[c].pc \notin ServePcs,
         Return(c), RowsKept, N9eKept
  PROVE  ServeInv'
<1>1. PICK q : q = [pc |-> "idle"]
  BY Zenon
<1>2. q.pc = "idle"
  BY <1>1
<1>3. Continue(c, q)
  BY <1>1, Zenon DEF Return
<1> QED
  BY <1>2, <1>3, OtherStep, Zenon DEF ServePcs

LEMMA LinkServes ==
  ASSUME Serial, AlarmInv, ServeInv, NEW c \in AlarmClients, NEW r, NEW T,
         LinkVMsToRule(c, r, T) \/ UnlinkVMsFromRule(c, r, T)
  PROVE  ServeInv'
<1>1. call[c].pc = "idle" /\ RowsKept /\ N9eKept
  BY Zenon DEF LinkVMsToRule, UnlinkVMsFromRule, FreeClient, RowsKept, N9eKept, n9e
<1>2. CASE LinkVMsToRule(c, r, T)
  <2>1. PICK m : Continue(c, [pc |-> "anchor", r |-> r, T |-> T,
                              S |-> {Series(FirstRow(RowsOf(r)).dir, r, t[1], t[2], m[t]) : t \in T}])
    BY <1>2, Zenon DEF LinkVMsToRule
  <2>2. PICK S : S = {Series(FirstRow(RowsOf(r)).dir, r, t[1], t[2], m[t]) : t \in T}
    BY Zenon
  <2>3. PICK q : q = [pc |-> "anchor", r |-> r, T |-> T, S |-> S]
    BY Zenon
  <2>4. q.pc = "anchor"
    BY <2>3
  <2>5. Continue(c, q)
    BY <2>1, <2>2, <2>3, Zenon
  <2> QED
    BY <1>1, <2>4, <2>5, OtherStep, Zenon DEF ServePcs
<1>3. CASE UnlinkVMsFromRule(c, r, T)
  <2>1. PICK d : d = IF KindOf[r] = "bandwidth" THEN FirstRow(RowsOf(r)).dir ELSE KindOf[r]
    BY Zenon
  <2>2. PICK q : q = [pc |-> "unseries", r |-> r, T |-> T, dir |-> d]
    BY Zenon
  <2>3. q.pc = "unseries"
    BY <2>2
  <2>4. Continue(c, q)
    BY <1>3, <2>1, <2>2, Zenon DEF UnlinkVMsFromRule
  <2> QED
    BY <1>1, <2>3, <2>4, OtherStep, Zenon DEF ServePcs
<1> QED
  BY <1>2, <1>3, Zenon

LEMMA AnchorReadServes ==
  ASSUME Serial, AlarmInv, ServeInv, NEW c \in AlarmClients, QueryStaleAnchors(c) \/ RecoverRead(c)
  PROVE  ServeInv'
<1>1. call[c].pc = "idle" /\ RowsKept /\ N9eKept
  BY Zenon DEF QueryStaleAnchors, RecoverRead, FreeClient, RowsKept, N9eKept, n9e
<1>2. \E p \in {"sync", "recover"} : \E S : Continue(c, [pc |-> p, S |-> S])
  BY Zenon DEF QueryStaleAnchors, RecoverRead
<1>3. PICK p \in {"sync", "recover"} : \E S : Continue(c, [pc |-> p, S |-> S])
  BY <1>2, Zenon
<1>4. PICK S : Continue(c, [pc |-> p, S |-> S])
  BY <1>3, Zenon
<1>5. PICK q : q = [pc |-> p, S |-> S]
  BY Zenon
<1>6. q.pc = p
  BY <1>5
<1> QED
  BY <1>1, <1>3, <1>4, <1>5, <1>6, OtherStep, Zenon DEF ServePcs

LEMMA NodeServes ==
  ASSUME Serial, AlarmInv, ServeInv, NEW c \in AlarmClients, NEW y, CreateNodeAlarmRule(c, y)
  PROVE  ServeInv'
<1>1. call[c].pc = "idle" /\ group' = group /\ rule' = rule /\ fresh' = fresh + 1 /\ N9eKept /\ fresh \in Nat
  BY Known, Zenon DEF CreateNodeAlarmRule, FreeClient, N9eKept, n9e, DbOk
<1>2. TablesKept
  BY <1>1 DEF TablesKept
<1>3. call'[c] = [pc |-> "render", pk |-> fresh, todo |-> FilesOf[y]]
  BY Known, Continues, Zenon DEF CreateNodeAlarmRule
<1>4. call'[c].pc = "render"
  BY <1>3
<1> QED
  BY <1>1, <1>2, <1>4, Elsewhere, Zenon DEF ServePcs

LEMMA FilesServe ==
  ASSUME Serial, AlarmInv, ServeInv, NEW c \in AlarmClients,
         \/ \E x \in nrule : DeleteNodeAlarmRule(c, x)
         \/ \E h \in Hosts, on \in BOOLEAN : UpdateComputeMonitor(c, h, on)
  PROVE  ServeInv'
<1>1. call[c].pc = "idle" /\ RowsKept /\ N9eKept
  BY Zenon DEF DeleteNodeAlarmRule, UpdateComputeMonitor, FreeClient, RowsKept, N9eKept, n9e
<1>2. CASE \E x \in nrule : DeleteNodeAlarmRule(c, x)
  <2>1. PICK x \in nrule : Continue(c, [pc |-> "unrender", F |-> Range(FilesOf[x.type])])
    BY <1>2, Zenon DEF DeleteNodeAlarmRule
  <2>2. PICK F : F = Range(FilesOf[x.type])
    BY Zenon
  <2>3. PICK q : q = [pc |-> "unrender", F |-> F]
    BY Zenon
  <2>4. q.pc = "unrender"
    BY <2>3
  <2> QED
    BY <1>1, <2>1, <2>2, <2>3, <2>4, OtherStep, Zenon DEF ServePcs
<1>3. CASE \E h \in Hosts, on \in BOOLEAN : UpdateComputeMonitor(c, h, on)
  <2>1. PICK h \in Hosts, on \in BOOLEAN : UpdateComputeMonitor(c, h, on)
    BY <1>3, Zenon
  <2>2. PICK q : q = [pc |-> "target", h |-> h, on |-> on, todo |-> TargetFiles]
    BY Zenon
  <2>3. q.pc = "target"
    BY <2>2
  <2> QED
    BY <1>1, <2>1, <2>2, <2>3, OtherStep, Zenon DEF ServePcs, UpdateComputeMonitor
<1> QED
  BY <1>2, <1>3, Zenon

LEMMA AnchorStepServes ==
  ASSUME Serial, AlarmInv, ServeInv, NEW c \in AlarmClients,
         \/ WriteAnchors(c) \/ CreateLinks(c) \/ DeleteAnchorSeries(c) \/ UnlinkRows(c)
         \/ SyncStaleAnchorsBatch(c) \/ RecoverWrite(c) \/ RemoveNodeFiles(c)
  PROVE  ServeInv'
<1>1. RowsKept /\ N9eKept
  BY Zenon DEF WriteAnchors, CreateLinks, DeleteAnchorSeries, UnlinkRows, SyncStaleAnchorsBatch, RecoverWrite,
     RemoveNodeFiles, RowsKept, N9eKept, n9e
<1>2. call[c].pc \notin ServePcs
  BY Zenon DEF WriteAnchors, CreateLinks, DeleteAnchorSeries, UnlinkRows, SyncStaleAnchorsBatch, RecoverWrite,
     RemoveNodeFiles, ServePcs
<1>3. CASE Return(c)
  BY <1>1, <1>2, <1>3, OtherReturn, Zenon
<1>4. CASE Continue(c, [pc |-> "linkrows", r |-> call[c].r, T |-> call[c].T])
  <2>1. PICK q : q = [pc |-> "linkrows", r |-> call[c].r, T |-> call[c].T]
    BY Zenon
  <2>2. q.pc = "linkrows"
    BY <2>1
  <2> QED
    BY <1>1, <1>2, <1>4, <2>1, <2>2, OtherStep, Zenon DEF ServePcs
<1>5. CASE Continue(c, [pc |-> "unlinkrows", r |-> call[c].r, V |-> {t[1] : t \in call[c].T}])
  <2>1. PICK V : V = {t[1] : t \in call[c].T}
    BY Zenon
  <2>2. PICK q : q = [pc |-> "unlinkrows", r |-> call[c].r, V |-> V]
    BY Zenon
  <2>3. q.pc = "unlinkrows"
    BY <2>2
  <2> QED
    BY <1>1, <1>2, <1>5, <2>1, <2>2, <2>3, OtherStep, Zenon DEF ServePcs
<1> QED
  BY <1>3, <1>4, <1>5, Zenon DEF WriteAnchors, CreateLinks, DeleteAnchorSeries, UnlinkRows,
     SyncStaleAnchorsBatch, RecoverWrite, RemoveNodeFiles

LEMMA FileStepServes ==
  ASSUME Serial, AlarmInv, ServeInv, NEW c \in AlarmClients, RenderNodeRule(c) \/ UpdateComputeTargets(c)
  PROVE  ServeInv'
<1>1. RowsKept /\ N9eKept /\ call[c].pc \in {"render", "target"} /\ call[c] \in Renderings \cup Targetings
  BY Known, Zenon DEF RenderNodeRule, UpdateComputeTargets, RowsKept, N9eKept, n9e, GroupSide, Renders
<1>2. CASE Return(c)
  BY <1>1, <1>2, OtherReturn, Zenon DEF ServePcs
<1>3. CASE Continue(c, [call[c] EXCEPT !.todo = Tail(@)])
  <2>1. PICK q : q = [call[c] EXCEPT !.todo = Tail(@)]
    BY Zenon
  <2>2. q.pc = call[c].pc
    BY <1>1, <2>1 DEF Renderings, Targetings
  <2> QED
    BY <1>1, <1>3, <2>1, <2>2, OtherStep, Zenon DEF ServePcs
<1> QED
  BY <1>2, <1>3, Zenon DEF RenderNodeRule, UpdateComputeTargets

(* A step of no request. *)
LEMMA ServeStays ==
  ASSUME Serial, AlarmInv, ServeInv, RowsKept, N9eKept, call' = call
  PROVE  ServeInv'
<1>1. PICK c : c \in AlarmClients
  BY SomeClient, Zenon
<1>2. Creating(call[c]) /\ Deleting(call[c])
  BY <1>1, WorkKnown, Zenon
<1>3. Creating(call[c])'
  BY <1>2, Zenon DEF Creating, RowsKept, N9eKept, RowsOf, Bare, Single
<1>4. Deleting(call[c])'
  BY <1>2, Zenon DEF Deleting, RowsKept, N9eKept, Bare, Single
<1>5. Open(call'[c]) = Open(call[c])
  BY Zenon
<1> QED
  BY <1>1, <1>3, <1>4, <1>5, SameTables, Onwards, Zenon
-----------------------------------------------------------------------------
LEMMA HandlerServes ==
  ASSUME Serial, AlarmInv, ServeInv, NEW c \in AlarmClients, Handler(c)
  PROVE  ServeInv'
<1>1. CASE \E r \in Rules : \E T \in Sets(r) \cup {{}} :
             CreateCPURule(c, r, T) \/ CreateMemoryRule(c, r, T) \/ CreateBWRule(c, r, T)
  <2>1. PICK r \in Rules : \E T \in Sets(r) \cup {{}} :
               CreateCPURule(c, r, T) \/ CreateMemoryRule(c, r, T) \/ CreateBWRule(c, r, T)
    BY <1>1, Zenon
  <2>2. PICK T \in Sets(r) \cup {{}} :
               CreateCPURule(c, r, T) \/ CreateMemoryRule(c, r, T) \/ CreateBWRule(c, r, T)
    BY <2>1, Zenon
  <2>3. Len(<<"cpu">>) = 1 /\ Len(<<"memory">>) = 1
    OBVIOUS
  <2>4. CASE CreateCPURule(c, r, T) \/ CreateMemoryRule(c, r, T)
    BY <2>3, <2>4, CreateServes, Zenon DEF CreateCPURule, CreateMemoryRule
  <2>5. CASE CreateBWRule(c, r, T)
    <3>1. ~Single(r)
      BY <2>5, Zenon DEF CreateBWRule, Single
    <3> QED
      BY <2>5, <3>1, CreateServes, Zenon DEF CreateBWRule
  <2> QED
    BY <2>2, <2>4, <2>5, Zenon
<1>2. CASE \E r \in Rules : DeleteCPURule(c, r) \/ DeleteMemoryRule(c, r) \/ DeleteBWRules(c, r)
  BY <1>2, DeleteServes, Zenon DEF DeleteCPURule, DeleteMemoryRule, DeleteBWRules
<1>3. CASE \E r \in Rules : \E T \in Sets(r) : LinkVMsToRule(c, r, T) \/ UnlinkVMsFromRule(c, r, T)
  BY <1>3, LinkServes, Zenon
<1>4. CASE QueryStaleAnchors(c) \/ RecoverRead(c)
  BY <1>4, AnchorReadServes, Zenon
<1>5. CASE \E y \in NodeTypes : CreateNodeAlarmRule(c, y)
  BY <1>5, NodeServes, Zenon
<1>6. CASE \/ \E x \in nrule : DeleteNodeAlarmRule(c, x)
           \/ \E h \in Hosts, on \in BOOLEAN : UpdateComputeMonitor(c, h, on)
  BY <1>6, FilesServe, Zenon
<1> QED
  BY <1>1, <1>2, <1>3, <1>4, <1>5, <1>6, Zenon DEF Handler

LEMMA HandlerStepServes ==
  ASSUME NamesApart, Serial, AlarmInv, ServeInv, Faultless', NEW c \in AlarmClients, HandlerStep(c)
  PROVE  ServeInv'
<1>1. CASE \/ FindGroup(c) \/ CreateGroup(c) \/ InsertRule(c) \/ GetOrCreateBusinessGroup(c)
           \/ CreateAlertRule(c) \/ StoreAlertID(c) \/ LinkNewRule(c)
  BY <1>1, FindGroupServes, CreateGroupServes, InsertRuleServes, BusinessGroupServes,
     CreateAlertRuleServes, StoreAlertIDServes, LinkNewRuleServes, Zenon
<1>2. CASE \/ ClearAnchorThresholds(c) \/ DeleteLinks(c) \/ DeleteAlertRule(c) \/ DeleteRow(c)
           \/ CountRules(c) \/ DeleteGroup(c) \/ DeleteBusinessGroupByID(c)
  BY <1>2, ClearServes, DeleteLinksServes, DeleteAlertRuleServes, DeleteRowServes, CountRulesServes,
     DeleteGroupServes, DeleteBusinessGroupServes, Zenon
<1>3. CASE \/ WriteAnchors(c) \/ CreateLinks(c) \/ DeleteAnchorSeries(c) \/ UnlinkRows(c)
           \/ SyncStaleAnchorsBatch(c) \/ RecoverWrite(c) \/ RemoveNodeFiles(c)
  BY <1>3, AnchorStepServes, Zenon
<1>4. CASE RenderNodeRule(c) \/ UpdateComputeTargets(c)
  BY <1>4, FileStepServes, Zenon
<1> QED
  BY <1>1, <1>2, <1>3, <1>4, Zenon DEF HandlerStep

LEMMA ServeStart ==
  ASSUME AlarmInit
  PROVE  ServeInv
<1>1. \A c \in AlarmClients : call[c].pc = "idle"
  BY Zenon DEF AlarmInit
<1>2. GroupOne
  BY DEF AlarmInit, GroupOne
<1>3. N9eOne /\ AlertsOk /\ IdsApart
  BY Zenon DEF AlarmInit, N9eOne, AlertsOk, IdsApart
<1>4. ASSUME NEW O PROVE Matched(O)
  BY Zenon DEF AlarmInit, Matched, RowsServed, AlertsServe, Alike
<1>5. ASSUME NEW c \in AlarmClients PROVE Working(call[c])
  BY <1>1, <1>4, <1>5, Zenon DEF Working, Creating, Deleting
<1> QED
  BY <1>2, <1>3, <1>5, Zenon DEF ServeInv

LEMMA ServeKeeps ==
  ASSUME NamesApart, Serial, AlarmInv, ServeInv, [AlarmNext]_avars, Faultless'
  PROVE  ServeInv'
<1>1. CASE Week \/ Disaster \/ UNCHANGED avars
  <2>1. RowsKept /\ N9eKept /\ call' = call
    BY <1>1, Zenon DEF Week, Disaster, avars, RowsKept, N9eKept, n9e
  <2> QED
    BY <2>1, ServeStays, Zenon
<1>2. CASE \E c \in AlarmClients : Handler(c) \/ HandlerStep(c)
  BY <1>2, HandlerServes, HandlerStepServes, Zenon
<1> QED
  BY <1>1, <1>2, Zenon DEF AlarmNext

(* At rest, every rule row stores the id of an alert rule that N9E has for *)
(* its rule_id, and every alert rule of a CPU or memory rule has its row:  *)
(* for every set of rules and every sequence of requests in which no call  *)
(* to the database or to N9E failed.  What it needs is NamesApart:         *)
(* CreateAlertRule takes an alert rule of the same name for its own.       *)
THEOREM AlertsMatchRules ==
  ASSUME NamesApart
  PROVE  AlarmSpec => []AlertsServeRules
<1>1. AlarmInit => ServeSerialInv
  BY ServeStart, Zenon DEF ServeSerialInv
<1>2. AlarmSerialInv /\ ServeSerialInv /\ [AlarmNext]_avars => ServeSerialInv'
  <2> SUFFICES ASSUME AlarmSerialInv, ServeSerialInv, [AlarmNext]_avars, Serial, Faultless'
               PROVE  ServeInv'
    BY Zenon DEF ServeSerialInv, Serial
  <2>1. AlarmInv
    BY Zenon DEF AlarmSerialInv
  <2>2. CountOk
    BY <2>1, Zenon DEF AlarmInv
  <2>3. Faultless
    BY <2>2, FaultlessBefore, Zenon
  <2> QED
    BY <2>1, <2>3, ServeKeeps, Zenon DEF ServeSerialInv
<1>3. ServeSerialInv => AlertsServeRules
  <2> SUFFICES ASSUME ServeSerialInv, AlarmAtRest, Serial, Faultless
               PROVE  /\ \A x \in rule : \E a \in nalert : a.id = x.alert /\ a.r = x.r
                      /\ \A a \in nalert : KindOf[a.r] # "bandwidth" => \E x \in rule : x.alert = a.id
    BY Zenon DEF AlertsServeRules, Faultless
  <2>1. PICK c : c \in AlarmClients
    BY SomeClient, Zenon
  <2>2. call[c].pc = "idle" /\ Matched(Open(call[c]))
    BY <2>1, WorkKnown, Zenon DEF AlarmAtRest, FreeClient, ServeSerialInv
  <2>3. Open(call[c]) = {}
    BY <2>2, AtRestOpen, Zenon
  <2>4. Matched({})
    BY <2>2, <2>3, Zenon
  <2> QED
    BY <2>4, Zenon DEF Matched, RowsServed, AlertsServe
<1> QED
  BY <1>1, <1>2, <1>3, AlarmInvariant, PTL DEF AlarmSpec
-----------------------------------------------------------------------------
(***************************************************************************)
(* Node alarm rules and their files.  A rule whose rendering is under way  *)
(* has the files that are not still to do; a removal under way takes files *)
(* of no rule.                                                             *)
(***************************************************************************)
(* No two types of node alarm share a rule file. *)
FilesApart == \A y, z \in NodeTypes : Range(FilesOf[y]) \cap Range(FilesOf[z]) # {} => y = z

NodeFiles(x) == Range(FilesOf[x.type])
NodeTyped ==
  /\ \A x \in nrule : x.type \in NodeTypes
  /\ \A x, z \in nrule : x.type = z.type => x = z

Rendered(k) ==
  /\ k.pc # "render" => \A x \in nrule : NodeFiles(x) \subseteq nfile
  /\ k.pc = "render" => \A x \in nrule : /\ NodeFiles(x) \subseteq nfile \cup Range(k.todo)
                                         /\ x.pk # k.pk => NodeFiles(x) \subseteq nfile
  /\ k.pc = "unrender" => \A x \in nrule : NodeFiles(x) \cap k.F = {}

NodesInv == NodeTyped /\ \A c \in AlarmClients : Rendered(call[c])
NodesSerialInv == Serial => NodesInv

LEMMA NodesMove ==
  ASSUME Serial, NEW c \in AlarmClients, NodeTyped', Rendered(call[c])'
  PROVE  NodesInv'
<1>1. ASSUME NEW d \in AlarmClients PROVE Rendered(call[d])'
  <2>1. d = c
    BY OneClient, Zenon
  <2> QED
    BY <2>1, Zenon
<1> QED
  BY <1>1, Zenon DEF NodesInv

LEMMA NodesKnown ==
  ASSUME NodesInv, NEW c \in AlarmClients
  PROVE  NodeTyped /\ Rendered(call[c])
BY Zenon DEF NodesInv

(* A step that leaves node alarm rules and their files alone. *)
LEMMA NodesStay ==
  ASSUME Serial, NodesInv, NEW c \in AlarmClients, nrule' = nrule, nfile' = nfile,
         \/ call'[c] = call[c]
         \/ call[c].pc \notin {"render", "unrender"} /\ call'[c].pc \notin {"render", "unrender"}
  PROVE  NodesInv'
<1>1. NodeTyped /\ Rendered(call[c])
  BY NodesKnown, Zenon
<1>2. NodeTyped'
  BY <1>1, Zenon DEF NodeTyped
<1>3. CASE call'[c] = call[c]
  <2>1. Rendered(call[c])'
    BY <1>1, <1>3, Zenon DEF Rendered, NodeFiles
  <2> QED
    BY <1>2, <2>1, NodesMove, Zenon
<1>4. CASE call[c].pc \notin {"render", "unrender"} /\ call'[c].pc \notin {"render", "unrender"}
  <2>1. Rendered(call[c])'
    BY <1>1, <1>4, Zenon DEF Rendered, NodeFiles
  <2> QED
    BY <1>2, <2>1, NodesMove, Zenon
<1> QED
  BY <1>3, <1>4, Zenon

(* The files still to do, after one of them. *)
LEMMA FilesToDo ==
  ASSUME NEW s \in Seq(STRING), s # <<>>
  PROVE  /\ Len(s) # 1 => Range(s) \subseteq {Head(s)} \cup Range(Tail(s))
         /\ Len(s) = 1 => Range(s) \subseteq {Head(s)}
<1>1. Len(s) \in Nat /\ Len(s) # 0 /\ DOMAIN s = 1..Len(s) /\ Head(s) = s[1]
  OBVIOUS
<1>2. ASSUME NEW i \in DOMAIN s, i # 1 PROVE s[i] \in Range(Tail(s)) /\ Len(s) # 1
  <2>1. i \in Nat /\ i - 1 \in 1 .. (Len(s) - 1) /\ Len(s) # 1 /\ (i - 1) + 1 = i
    BY <1>1, <1>2
  <2>2. Tail(s) \in Seq(STRING) /\ Len(Tail(s)) = Len(s) - 1
    BY <1>1
  <2>3. DOMAIN Tail(s) = 1 .. (Len(s) - 1)
    BY <2>2
  <2>4. Tail(s)[i - 1] = s[i]
    BY <1>1, <2>1, <2>2
  <2> QED
    BY <2>1, <2>3, <2>4, Zenon DEF Range
<1>3. ASSUME NEW f \in Range(s) PROVE f = Head(s) \/ (f \in Range(Tail(s)) /\ Len(s) # 1)
  <2>1. PICK i \in DOMAIN s : f = s[i]
    BY Zenon DEF Range
  <2> QED
    BY <1>1, <1>2, <2>1, Zenon
<1> QED
  BY <1>3, Zenon

LEMMA CreateNodeRenders ==
  ASSUME Serial, AlarmInv, NodesInv, NEW c \in AlarmClients, NEW y \in NodeTypes, CreateNodeAlarmRule(c, y)
  PROVE  NodesInv'
<1>1. call[c].pc = "idle" /\ (\A x \in nrule : x.type # y) /\ nfile' = nfile
  BY Zenon DEF CreateNodeAlarmRule, FreeClient
<1>2. PICK new : new = [pk |-> fresh, type |-> y]
  BY Zenon
<1>3. new.pk = fresh /\ new.type = y
  BY <1>2
<1>4. nrule' = nrule \cup {new}
  BY <1>2, Zenon DEF CreateNodeAlarmRule
<1>5. call'[c] = [pc |-> "render", pk |-> fresh, todo |-> FilesOf[y]]
  BY Known, Continues, Zenon DEF CreateNodeAlarmRule
<1>6. call'[c].pc = "render" /\ call'[c].pk = fresh /\ call'[c].todo = FilesOf[y]
  BY <1>5
<1>7. NodeTyped /\ \A x \in nrule : NodeFiles(x) \subseteq nfile
  BY <1>1, NodesKnown, Zenon DEF Rendered
<1>8. NodeTyped'
  BY <1>1, <1>3, <1>4, <1>7, Zenon DEF NodeTyped
<1>9. NodeFiles(new) = Range(call'[c].todo)
  BY <1>3, <1>6, Zenon DEF NodeFiles
<1>10. Rendered(call[c])'
  BY <1>1, <1>3, <1>4, <1>6, <1>7, <1>9, Zenon DEF Rendered, NodeFiles
<1> QED
  BY <1>8, <1>10, NodesMove, Zenon

LEMMA RenderNodeRenders ==
  ASSUME Serial, AlarmInv, NodesInv, NEW c \in AlarmClients, RenderNodeRule(c)
  PROVE  NodesInv'
<1>1. call[c].pc = "render" /\ CallOk /\ call[c] \in Renderings /\ call[c].todo # <<>>
  BY Known, Zenon DEF RenderNodeRule, GroupSide, Renders
<1>2. PICK k : k = call[c]
  BY Zenon
<1>3. k.todo \in Seq(STRING)
  BY <1>1, <1>2 DEF Renderings
<1>4. NodeTyped /\ \A x \in nrule : /\ NodeFiles(x) \subseteq nfile \cup Range(k.todo)
                                    /\ x.pk # k.pk => NodeFiles(x) \subseteq nfile
  BY <1>1, <1>2, NodesKnown, Zenon DEF Rendered
<1>5. CASE /\ nfile' = nfile \cup {Head(k.todo)} /\ UNCHANGED nrule
           /\ IF Len(k.todo) = 1 THEN Return(c) ELSE Continue(c, [k EXCEPT !.todo = Tail(@)])
  <2>1. NodeTyped'
    BY <1>4, <1>5, Zenon DEF NodeTyped
  <2>2. CASE Len(k.todo) = 1
    <3>1. call'[c] = [pc |-> "idle"]
      BY <1>1, <1>5, <2>2, Continues, Zenon DEF Return
    <3>2. call'[c].pc = "idle"
      BY <3>1
    <3>3. Range(k.todo) \subseteq {Head(k.todo)}
      BY <1>1, <1>2, <1>3, <2>2, FilesToDo, Zenon
    <3>4. \A x \in nrule : NodeFiles(x) \subseteq nfile'
      BY <1>4, <1>5, <3>3, Zenon
    <3>5. Rendered(call[c])'
      BY <1>5, <3>2, <3>4, Zenon DEF Rendered, NodeFiles
    <3> QED
      BY <2>1, <3>5, NodesMove, Zenon
  <2>3. CASE Len(k.todo) # 1
    <3>1. call'[c] = [k EXCEPT !.todo = Tail(@)]
      BY <1>1, <1>5, <2>3, Continues, Zenon
    <3>2. call'[c].pc = "render" /\ call'[c].pk = k.pk /\ call'[c].todo = Tail(k.todo)
      BY <1>1, <1>2, <3>1 DEF Renderings
    <3>3. Range(k.todo) \subseteq {Head(k.todo)} \cup Range(Tail(k.todo))
      BY <1>1, <1>2, <1>3, <2>3, FilesToDo, Zenon
    <3>4. \A x \in nrule : /\ NodeFiles(x) \subseteq nfile' \cup Range(Tail(k.todo))
                           /\ x.pk # k.pk => NodeFiles(x) \subseteq nfile'
      BY <1>4, <1>5, <3>3, Zenon
    <3>5. Rendered(call[c])'
      BY <1>5, <3>2, <3>4, Zenon DEF Rendered, NodeFiles
    <3> QED
      BY <2>1, <3>5, NodesMove, Zenon
  <2> QED
    BY <2>2, <2>3, Zenon
<1>6. CASE Return(c) /\ nrule' = {x \in nrule : x.pk # k.pk} /\ UNCHANGED nfile
  <2>1. call'[c] = [pc |-> "idle"]
    BY <1>1, <1>6, Continues, Zenon DEF Return
  <2>2. call'[c].pc = "idle"
    BY <2>1
  <2>3. NodeTyped'
    BY <1>4, <1>6, Zenon DEF NodeTyped
  <2>4. \A x \in nrule' : NodeFiles(x) \subseteq nfile
    BY <1>4, <1>6, Zenon
  <2>5. Rendered(call[c])'
    BY <1>6, <2>2, <2>4, Zenon DEF Rendered, NodeFiles
  <2> QED
    BY <2>3, <2>5, NodesMove, Zenon
<1> QED
  BY <1>2, <1>5, <1>6, Zenon DEF RenderNodeRule

LEMMA DeleteNodeRenders ==
  ASSUME FilesApart, Serial, AlarmInv, NodesInv, NEW c \in AlarmClients, NEW x \in nrule, DeleteNodeAlarmRule(c, x)
  PROVE  NodesInv'
<1>1. call[c].pc = "idle" /\ nrule' = nrule \ {x} /\ nfile' = nfile
  BY Zenon DEF DeleteNodeAlarmRule, FreeClient
<1>2. PICK F : F = NodeFiles(x)
  BY Zenon
<1>3. call'[c] = [pc |-> "unrender", F |-> F]
  BY <1>2, Known, Continues, Zenon DEF DeleteNodeAlarmRule, NodeFiles
<1>4. call'[c].pc = "unrender" /\ call'[c].F = F
  BY <1>3
<1>5. NodeTyped /\ \A z \in nrule : NodeFiles(z) \subseteq nfile
  BY <1>1, NodesKnown, Zenon DEF Rendered
<1>6. NodeTyped'
  BY <1>1, <1>5, Zenon DEF NodeTyped
<1>7. ASSUME NEW z \in nrule' PROVE NodeFiles(z) \subseteq nfile /\ NodeFiles(z) \cap F = {}
  <2>1. z \in nrule /\ z # x
    BY <1>1, <1>7, Zenon
  <2>2. z.type # x.type /\ z.type \in NodeTypes /\ x.type \in NodeTypes
    BY <1>5, <2>1, Zenon DEF NodeTyped
  <2> QED
    BY <1>2, <1>5, <2>1, <2>2, Zenon DEF FilesApart, NodeFiles
<1>8. Rendered(call[c])'
  BY <1>1, <1>4, <1>7, Zenon DEF Rendered, NodeFiles
<1> QED
  BY <1>6, <1>8, NodesMove, Zenon

LEMMA RemoveFilesRenders ==
  ASSUME Serial, AlarmInv, NodesInv, NEW c \in AlarmClients, RemoveNodeFiles(c)
  PROVE  NodesInv'
<1>1. call[c].pc = "unrender" /\ nrule' = nrule /\ Return(c) /\ CallOk
  BY Known, Zenon DEF RemoveNodeFiles
<1>2. PICK S \in SUBSET call[c].F : nfile' = nfile \ S
  BY Zenon DEF RemoveNodeFiles
<1>3. call'[c] = [pc |-> "idle"]
  BY <1>1, Continues, Zenon DEF Return
<1>4. call'[c].pc = "idle"
  BY <1>3
<1>5. NodeTyped /\ \A x \in nrule : NodeFiles(x) \subseteq nfile /\ NodeFiles(x) \cap call[c].F = {}
  BY <1>1, NodesKnown, Zenon DEF Rendered
<1>6. NodeTyped'
  BY <1>1, <1>5, Zenon DEF NodeTyped
<1>7. \A x \in nrule : NodeFiles(x) \subseteq nfile'
  BY <1>2, <1>5, Zenon
<1>8. Rendered(call[c])'
  BY <1>1, <1>4, <1>7, Zenon DEF Rendered, NodeFiles
<1> QED
  BY <1>6, <1>8, NodesMove, Zenon

LEMMA TargetRenders ==
  ASSUME Serial, AlarmInv, NodesInv, NEW c \in AlarmClients, UpdateComputeTargets(c)
  PROVE  NodesInv'
<1>1. call[c].pc = "target" /\ nrule' = nrule /\ nfile' = nfile /\ CallOk /\ call[c] \in Targetings
  BY Known, Zenon DEF UpdateComputeTargets, GroupSide, Renders
<1>2. call'[c] = [pc |-> "idle"] \/ call'[c] = [call[c] EXCEPT !.todo = Tail(@)]
  BY <1>1, Continues, Zenon DEF UpdateComputeTargets, Return
<1>3. call'[c].pc \in {"idle", "target"}
  BY <1>1, <1>2 DEF Targetings
<1> QED
  BY <1>1, <1>3, NodesStay, Zenon


(* What comes next in a request about rules, links or anchors. *)
Otherwise(k) == k.pc \notin {"render", "unrender"}

LEMMA GoesOn ==
  ASSUME AlarmInv, NEW c \in AlarmClients, NEW q, Otherwise(q), Continue(c, q)
  PROVE  Otherwise(call'[c])
<1>1. call'[c] = q
  BY Known, Continues, Zenon
<1> QED
  BY <1>1, Zenon

LEMMA PcSet ==
  ASSUME NEW k \in Creations \cup Insertions \cup Deletions, NEW p, p \notin {"render", "unrender"}
  PROVE  Otherwise([k EXCEPT !.pc = p]) /\ \A t : Otherwise([k EXCEPT !.pc = p, !.todo = t])
<1>1. [k EXCEPT !.pc = p].pc = p
  BY DEF Creations, Insertions, Deletions
<1>2. ASSUME NEW t PROVE [k EXCEPT !.pc = p, !.todo = t].pc = p
  BY DEF Creations, Insertions, Deletions
<1> QED
  BY <1>1, <1>2, Zenon DEF Otherwise

LEMMA CreationShapes ==
  ASSUME NEW r, NEW t, NEW V, NEW g, NEW i
  PROVE  /\ Otherwise([pc |-> "group", r |-> r, todo |-> t, V |-> V])
         /\ Otherwise([pc |-> "insert", r |-> r, todo |-> t, V |-> V, g |-> g])
         /\ Otherwise([pc |-> "alert", r |-> r, todo |-> t, V |-> V, g |-> g, n |-> i])
         /\ Otherwise([pc |-> "store", r |-> r, todo |-> t, V |-> V, g |-> g, id |-> i])
         /\ Otherwise([pc |-> "links", r |-> r, todo |-> t, V |-> V, g |-> g])
BY DEF Otherwise

LEMMA DeletionShapes ==
  ASSUME NEW r, NEW x, NEW g, NEW S
  PROVE  /\ Otherwise([pc |-> "clear", r |-> r, row |-> x, g |-> g])
         /\ Otherwise([pc |-> "unlinkall", r |-> r, row |-> x, g |-> g, seen |-> S])
         /\ Otherwise([pc |-> "unalert", r |-> r, row |-> x, g |-> g])
BY DEF Otherwise

LEMMA AnchorShapes ==
  ASSUME NEW r, NEW T, NEW S, NEW d
  PROVE  /\ Otherwise([pc |-> "anchor", r |-> r, T |-> T, S |-> S])
         /\ Otherwise([pc |-> "linkrows", r |-> r, T |-> T])
         /\ Otherwise([pc |-> "unseries", r |-> r, T |-> T, dir |-> d])
         /\ Otherwise([pc |-> "unlinkrows", r |-> r, V |-> S])
         /\ Otherwise([pc |-> "sync", S |-> S]) /\ Otherwise([pc |-> "recover", S |-> S])
BY DEF Otherwise

LEMMA IdleShape == Otherwise([pc |-> "idle"])
BY DEF Otherwise

LEMMA TargetShape ==
  ASSUME NEW h, NEW on, NEW t
  PROVE  Otherwise([pc |-> "target", h |-> h, on |-> on, todo |-> t])
BY DEF Otherwise

LEMMA ReturnsElsewhere ==
  ASSUME AlarmInv, NEW c \in AlarmClients, Return(c)
  PROVE  Otherwise(call'[c])
BY GoesOn, IdleShape, Zenon DEF Return

LEMMA CreatesElsewhere ==
  ASSUME AlarmInv, NEW c \in AlarmClients,
         \/ FindGroup(c) \/ CreateGroup(c) \/ InsertRule(c) \/ GetOrCreateBusinessGroup(c) \/ LinkNewRule(c)
  PROVE  Otherwise(call'[c])
<1>1. call[c] \in Creations \cup Insertions \cup Deletions
  BY Known, Zenon DEF FindGroup, CreateGroup, InsertRule, GetOrCreateBusinessGroup, LinkNewRule, GroupSide, Creates
<1>2. PICK k : k = call[c]
  BY Zenon
<1>3. CASE \E p \in {"newgroup", "n9e", "links"} : Continue(c, [k EXCEPT !.pc = p])
  <2>1. PICK p \in {"newgroup", "n9e", "links"} : Continue(c, [k EXCEPT !.pc = p])
    BY <1>3, Zenon
  <2>2. Otherwise([k EXCEPT !.pc = p])
    BY <1>1, <1>2, <2>1, PcSet, Zenon
  <2> QED
    BY <2>1, <2>2, GoesOn, Zenon
<1>4. CASE Continue(c, [k EXCEPT !.pc = "insert", !.todo = Tail(@)])
  <2>1. \A t : Otherwise([k EXCEPT !.pc = "insert", !.todo = t])
    BY <1>1, <1>2, PcSet, Zenon
  <2>2. PICK t : t = Tail(k.todo)
    BY Zenon
  <2>3. [k EXCEPT !.pc = "insert", !.todo = Tail(@)] = [k EXCEPT !.pc = "insert", !.todo = t]
    BY <1>1, <1>2, <2>2 DEF Creations, Insertions, Deletions
  <2>4. Continue(c, [k EXCEPT !.pc = "insert", !.todo = t])
    BY <1>4, <2>3, Zenon
  <2> QED
    BY <2>1, <2>4, GoesOn, Zenon
<1>5. CASE Return(c)
  BY <1>5, ReturnsElsewhere, Zenon
<1>6. CASE FindGroup(c)
  <2>1. CASE group = {}
    BY <1>2, <1>3, <1>6, <2>1, Zenon DEF FindGroup
  <2>2. CASE group # {}
    <3>1. Continue(c, [pc |-> "insert", r |-> k.r, todo |-> k.todo, V |-> k.V, g |-> FirstGroup])
      BY <1>2, <1>6, <2>2, Zenon DEF FindGroup
    <3> QED
      BY <3>1, GoesOn, CreationShapes, Zenon
  <2> QED
    BY <2>1, <2>2, Zenon
<1>7. CASE CreateGroup(c)
  BY <1>5, <1>7, GoesOn, CreationShapes, Zenon DEF CreateGroup
<1>8. CASE InsertRule(c)
  BY <1>2, <1>3, <1>5, <1>8, Zenon DEF InsertRule
<1>9. CASE GetOrCreateBusinessGroup(c)
  <2>1. CASE Continue(c, AfterAlert(k))
    BY <1>3, <1>4, <1>5, <2>1, Zenon DEF AfterAlert, Return
  <2>2. CASE \E n : Continue(c, ToAlert(k, n))
    BY <2>2, GoesOn, CreationShapes, Zenon DEF ToAlert
  <2> QED
    BY <1>2, <1>9, <2>1, <2>2, Zenon DEF GetOrCreateBusinessGroup
<1>10. CASE LinkNewRule(c)
  <2>1. CASE Len(k.todo) = 1
    BY <1>2, <1>5, <1>10, <2>1, Zenon DEF LinkNewRule, Return
  <2>2. CASE Len(k.todo) # 1
    BY <1>2, <1>4, <1>10, <2>2, Zenon DEF LinkNewRule
  <2> QED
    BY <2>1, <2>2, Zenon
<1> QED
  BY <1>6, <1>7, <1>8, <1>9, <1>10, Zenon

LEMMA AlertsElsewhere ==
  ASSUME AlarmInv, NEW c \in AlarmClients, CreateAlertRule(c) \/ StoreAlertID(c)
  PROVE  Otherwise(call'[c])
<1>1. PICK k : k = call[c]
  BY Zenon
<1>2. CASE Continue(c, ToLinks(k))
  BY <1>2, GoesOn, CreationShapes, Zenon DEF ToLinks
<1>3. CASE \E i : Continue(c, ToStore(k, i))
  BY <1>3, GoesOn, CreationShapes, Zenon DEF ToStore
<1>4. CASE CreateAlertRule(c)
  <2>1. PICK i : i = (CHOOSE a \in {a \in nalert : a.n = k.n /\ a.name = NameOf(k.r, Head(k.todo))} : TRUE).id
    BY Zenon
  <2>2. Continue(c, ToLinks(k)) \/ Continue(c, ToStore(k, fresh)) \/ Continue(c, ToStore(k, i))
    BY <1>1, <1>4, <2>1, Zenon DEF CreateAlertRule, ToStore
  <2> QED
    BY <1>2, <1>3, <2>2, Zenon
<1>5. CASE StoreAlertID(c)
  BY <1>1, <1>2, <1>5, Zenon DEF StoreAlertID
<1> QED
  BY <1>4, <1>5, Zenon

LEMMA DeletesElsewhere ==
  ASSUME AlarmInv, NEW c \in AlarmClients,
         \/ ClearAnchorThresholds(c) \/ DeleteLinks(c) \/ DeleteAlertRule(c) \/ DeleteRow(c)
         \/ CountRules(c) \/ DeleteGroup(c) \/ DeleteBusinessGroupByID(c)
  PROVE  Otherwise(call'[c])
<1>1. PICK k : k = call[c]
  BY Zenon
<1>2. CASE ClearAnchorThresholds(c)
  <2>1. PICK S : S = VMLinksOf(k.r)
    BY Zenon
  <2>2. Continue(c, [pc |-> "unlinkall", r |-> k.r, row |-> k.row, g |-> k.g, seen |-> S])
    BY <1>1, <1>2, <2>1, Zenon DEF ClearAnchorThresholds
  <2> QED
    BY <2>2, GoesOn, DeletionShapes, Zenon
<1>3. CASE DeleteLinks(c)
  BY <1>3, GoesOn, DeletionShapes, Zenon DEF DeleteLinks
<1>4. CASE DeleteAlertRule(c) \/ DeleteRow(c) \/ CountRules(c) \/ DeleteGroup(c) \/ DeleteBusinessGroupByID(c)
  <2>1. call[c] \in Creations \cup Insertions \cup Deletions
    BY <1>4, Known, Zenon DEF DeleteAlertRule, DeleteRow, CountRules, DeleteGroup, DeleteBusinessGroupByID,
       GroupSide, Deletes
  <2>2. Return(c) \/ \E p \in {"unrow", "count", "ungroup", "unngroup"} : Continue(c, [k EXCEPT !.pc = p])
    BY <1>1, <1>4, Zenon DEF DeleteAlertRule, DeleteRow, CountRules, DeleteGroup, DeleteBusinessGroupByID
  <2>3. CASE Return(c)
    BY <2>3, ReturnsElsewhere, Zenon
  <2>4. CASE \E p \in {"unrow", "count", "ungroup", "unngroup"} : Continue(c, [k EXCEPT !.pc = p])
    <3>1. PICK p \in {"unrow", "count", "ungroup", "unngroup"} : Continue(c, [k EXCEPT !.pc = p])
      BY <2>4, Zenon
    <3>2. Otherwise([k EXCEPT !.pc = p])
      BY <1>1, <2>1, <3>1, PcSet, Zenon
    <3> QED
      BY <3>1, <3>2, GoesOn, Zenon
  <2> QED
    BY <2>2, <2>3, <2>4, Zenon
<1> QED
  BY <1>2, <1>3, <1>4, Zenon

LEMMA AnchorsElsewhere ==
  ASSUME AlarmInv, NEW c \in AlarmClients,
         \/ WriteAnchors(c) \/ CreateLinks(c) \/ DeleteAnchorSeries(c) \/ UnlinkRows(c)
         \/ SyncStaleAnchorsBatch(c) \/ RecoverWrite(c)
  PROVE  Otherwise(call'[c])
<1>1. PICK k : k = call[c]
  BY Zenon
<1>2. PICK V : V = {t[1] : t \in k.T}
  BY Zenon
<1>3. CASE Return(c)
  BY <1>3, ReturnsElsewhere, Zenon
<1>4. CASE Continue(c, [pc |-> "linkrows", r |-> k.r, T |-> k.T])
  BY <1>4, GoesOn, AnchorShapes, Zenon
<1>5. CASE Continue(c, [pc |-> "unlinkrows", r |-> k.r, V |-> V])
  BY <1>5, GoesOn, AnchorShapes, Zenon
<1>6. CASE DeleteAnchorSeries(c)
  BY <1>1, <1>2, <1>5, <1>6, Zenon DEF DeleteAnchorSeries
<1> QED
  BY <1>1, <1>3, <1>4, <1>6, Zenon DEF WriteAnchors, CreateLinks, UnlinkRows, SyncStaleAnchorsBatch, RecoverWrite

LEMMA StartsElsewhere ==
  ASSUME AlarmInv, NEW c \in AlarmClients, NEW r, NEW T, NEW dirs, NEW h, NEW on,
         \/ CreateN9ERule(c, r, dirs, T) \/ DeleteN9ERule(c, r)
         \/ LinkVMsToRule(c, r, T) \/ UnlinkVMsFromRule(c, r, T)
         \/ QueryStaleAnchors(c) \/ RecoverRead(c) \/ UpdateComputeMonitor(c, h, on)
  PROVE  Otherwise(call[c]) /\ Otherwise(call'[c]) /\ UNCHANGED files
<1>1. CASE CreateN9ERule(c, r, dirs, T)
  BY <1>1, GoesOn, CreationShapes, Zenon DEF CreateN9ERule, FreeClient, Otherwise
<1>2. CASE DeleteN9ERule(c, r)
  <2>1. PICK x : x = FirstRow(RowsOf(r))
    BY Zenon
  <2>2. PICK g : g = IF x.g \in group THEN x.g ELSE 0
    BY Zenon
  <2>3. Continue(c, [pc |-> "clear", r |-> r, row |-> x, g |-> g])
    BY <1>2, <2>1, <2>2, Zenon DEF DeleteN9ERule
  <2>4. Otherwise(call'[c])
    BY <2>3, GoesOn, DeletionShapes, Zenon
  <2> QED
    BY <1>2, <2>4, Zenon DEF DeleteN9ERule, FreeClient, Otherwise
<1>3. CASE LinkVMsToRule(c, r, T)
  <2>1. PICK S : Continue(c, [pc |-> "anchor", r |-> r, T |-> T, S |-> S])
    BY <1>3, Zenon DEF LinkVMsToRule
  <2>2. Otherwise(call'[c])
    BY <2>1, GoesOn, AnchorShapes, Zenon
  <2> QED
    BY <1>3, <2>2, Zenon DEF LinkVMsToRule, FreeClient, Otherwise
<1>4. CASE UnlinkVMsFromRule(c, r, T)
  <2>1. PICK d : d = IF KindOf[r] = "bandwidth" THEN FirstRow(RowsOf(r)).dir ELSE KindOf[r]
    BY Zenon
  <2>2. Continue(c, [pc |-> "unseries", r |-> r, T |-> T, dir |-> d])
    BY <1>4, <2>1, Zenon DEF UnlinkVMsFromRule
  <2>3. Otherwise(call'[c])
    BY <2>2, GoesOn, AnchorShapes, Zenon
  <2> QED
    BY <1>4, <2>3, Zenon DEF UnlinkVMsFromRule, FreeClient, Otherwise
<1>5. CASE QueryStaleAnchors(c)
  <2>1. PICK S : Continue(c, [pc |-> "sync", S |-> S])
    BY <1>5, Zenon DEF QueryStaleAnchors
  <2>2. Otherwise(call'[c])
    BY <2>1, GoesOn, AnchorShapes, Zenon
  <2> QED
    BY <1>5, <2>2, Zenon DEF QueryStaleAnchors, FreeClient, Otherwise
<1>6. CASE RecoverRead(c)
  <2>1. PICK S : Continue(c, [pc |-> "recover", S |-> S])
    BY <1>6, Zenon DEF RecoverRead
  <2>2. Otherwise(call'[c])
    BY <2>1, GoesOn, AnchorShapes, Zenon
  <2> QED
    BY <1>6, <2>2, Zenon DEF RecoverRead, FreeClient, Otherwise
<1>7. CASE UpdateComputeMonitor(c, h, on)
  BY <1>7, GoesOn, TargetShape, Zenon DEF UpdateComputeMonitor, FreeClient, Otherwise
<1> QED
  BY <1>1, <1>2, <1>3, <1>4, <1>5, <1>6, <1>7, Zenon
-----------------------------------------------------------------------------
LEMMA NodesUntouched ==
  ASSUME Serial, NodesInv, NEW c \in AlarmClients, UNCHANGED files,
         Otherwise(call[c]), Otherwise(call'[c])
  PROVE  NodesInv'
BY NodesStay, Zenon DEF files, Otherwise

LEMMA HandlerRenders ==
  ASSUME FilesApart, Serial, AlarmInv, NodesInv, NEW c \in AlarmClients, Handler(c)
  PROVE  NodesInv'
<1>1. CASE \E y \in NodeTypes : CreateNodeAlarmRule(c, y)
  BY <1>1, CreateNodeRenders, Zenon
<1>2. CASE \E x \in nrule : DeleteNodeAlarmRule(c, x)
  BY <1>2, DeleteNodeRenders, Zenon
<1>3. CASE \E r, T, dirs, h, on :
             \/ CreateN9ERule(c, r, dirs, T) \/ DeleteN9ERule(c, r)
             \/ LinkVMsToRule(c, r, T) \/ UnlinkVMsFromRule(c, r, T)
             \/ QueryStaleAnchors(c) \/ RecoverRead(c) \/ UpdateComputeMonitor(c, h, on)
  <2>1. Otherwise(call[c]) /\ Otherwise(call'[c]) /\ UNCHANGED files
    BY <1>3, StartsElsewhere, Zenon
  <2> QED
    BY <2>1, NodesUntouched, Zenon
<1> QED
  BY <1>1, <1>2, <1>3, Zenon DEF Handler, CreateCPURule, CreateMemoryRule, CreateBWRule, DeleteCPURule,
     DeleteMemoryRule, DeleteBWRules

LEMMA HandlerStepRenders ==
  ASSUME Serial, AlarmInv, NodesInv, NEW c \in AlarmClients, HandlerStep(c)
  PROVE  NodesInv'
<1>1. CASE RenderNodeRule(c) \/ RemoveNodeFiles(c) \/ UpdateComputeTargets(c)
  BY <1>1, RenderNodeRenders, RemoveFilesRenders, TargetRenders, Zenon
<1>2. CASE \/ FindGroup(c) \/ CreateGroup(c) \/ InsertRule(c) \/ GetOrCreateBusinessGroup(c) \/ LinkNewRule(c)
           \/ CreateAlertRule(c) \/ StoreAlertID(c)
  <2>1. Otherwise(call[c]) /\ UNCHANGED files
    BY <1>2, Zenon DEF FindGroup, CreateGroup, InsertRule, GetOrCreateBusinessGroup, LinkNewRule,
       CreateAlertRule, StoreAlertID, Otherwise
  <2> QED
    BY <1>2, <2>1, CreatesElsewhere, AlertsElsewhere, NodesUntouched, Zenon
<1>3. CASE \/ ClearAnchorThresholds(c) \/ DeleteLinks(c) \/ DeleteAlertRule(c) \/ DeleteRow(c)
           \/ CountRules(c) \/ DeleteGroup(c) \/ DeleteBusinessGroupByID(c)
  <2>1. Otherwise(call[c]) /\ UNCHANGED files
    BY <1>3, Zenon DEF ClearAnchorThresholds, DeleteLinks, DeleteAlertRule, DeleteRow, CountRules, DeleteGroup,
       DeleteBusinessGroupByID, Otherwise
  <2> QED
    BY <1>3, <2>1, DeletesElsewhere, NodesUntouched, Zenon
<1>4. CASE \/ WriteAnchors(c) \/ CreateLinks(c) \/ DeleteAnchorSeries(c) \/ UnlinkRows(c)
           \/ SyncStaleAnchorsBatch(c) \/ RecoverWrite(c)
  <2>1. Otherwise(call[c]) /\ UNCHANGED files
    BY <1>4, Zenon DEF WriteAnchors, CreateLinks, DeleteAnchorSeries, UnlinkRows, SyncStaleAnchorsBatch,
       RecoverWrite, Otherwise
  <2> QED
    BY <1>4, <2>1, AnchorsElsewhere, NodesUntouched, Zenon
<1> QED
  BY <1>1, <1>2, <1>3, <1>4, Zenon DEF HandlerStep

LEMMA NodesKeep ==
  ASSUME FilesApart, Serial, AlarmInv, NodesInv, [AlarmNext]_avars
  PROVE  NodesInv'
<1>1. CASE Week \/ Disaster \/ UNCHANGED avars
  <2>1. nrule' = nrule /\ nfile' = nfile /\ call' = call
    BY <1>1, Zenon DEF Week, Disaster, avars, files
  <2>2. PICK c : c \in AlarmClients
    BY SomeClient, Zenon
  <2>3. call'[c] = call[c]
    BY <2>1, Zenon
  <2> QED
    BY <2>1, <2>2, <2>3, NodesStay, Zenon
<1>2. CASE \E c \in AlarmClients : Handler(c) \/ HandlerStep(c)
  BY <1>2, HandlerRenders, HandlerStepRenders, Zenon
<1> QED
  BY <1>1, <1>2, Zenon DEF AlarmNext

(* At rest, every node alarm rule has all its files in RulesEnabled, for   *)
(* every set of types and files in which no two types share a file, and    *)
(* whatever rendering or removal failed: createNodeAlarmRuleInternal takes *)
(* back the row whose file could not be rendered, and                      *)
(* deleteNodeAlarmRuleInternal removes the files of the deleted type only. *)
THEOREM NodeRulesRendered ==
  ASSUME FilesApart
  PROVE  AlarmSpec => []NodeRuleHasFiles
<1>1. AlarmInit => NodesSerialInv
  BY Zenon DEF AlarmInit, NodesSerialInv, NodesInv, NodeTyped, Rendered
<1>2. AlarmSerialInv /\ NodesSerialInv /\ [AlarmNext]_avars => NodesSerialInv'
  BY NodesKeep, Zenon DEF AlarmSerialInv, NodesSerialInv, Serial
<1>3. NodesSerialInv => NodeRuleHasFiles
  <2> SUFFICES ASSUME NodesSerialInv, AlarmAtRest, Serial
               PROVE  \A x \in nrule : Range(FilesOf[x.type]) \subseteq nfile
    BY Zenon DEF NodeRuleHasFiles
  <2>1. PICK c : c \in AlarmClients
    BY SomeClient, Zenon
  <2>2. call[c].pc = "idle" /\ Rendered(call[c])
    BY <2>1, NodesKnown, Zenon DEF AlarmAtRest, FreeClient, NodesSerialInv
  <2> QED
    BY <2>2, Zenon DEF Rendered, NodeFiles
<1> QED
  BY <1>1, <1>2, <1>3, AlarmInvariant, PTL DEF AlarmSpec
=============================================================================
