----------------------- MODULE ConsistencyGroupProofs -----------------------
(***************************************************************************)
(* Proofs about ConsistencyGroup, for any number of groups, volumes,       *)
(* snapshots and requests, with lost scripts and crashes of the API server *)
(* but without the fault "overlap": the checks of a handler and the writes *)
(* that follow are separate steps, and a second handler in between them    *)
(* may do what the first one has checked against.                          *)
(***************************************************************************)
EXTENDS ConsistencyGroup, TLAPS

GroupKinds == {"create", "delete", "add", "remove"}
SnapKinds == {"snap", "unsnap", "restore"}

CgRows == [status : CGStatus, wds : BOOLEAN]
SnapRows == [status : SnapStatus, g : Groups \cup {None}, wds : BOOLEAN, t : Tasks \cup {None}]
OpRows == [kind : Kinds \cup {"none"}, g : Groups \cup {None}, s : Snapshots \cup {None},
           t : Tasks \cup {None}, vols : SUBSET Volumes, todo : SUBSET Volumes,
           attached : SUBSET Volumes, wds : BOOLEAN, pc : {"row", "mark", "send", "done"},
           job : {"none", "lost", "sent", "cleaned", "replied"}, ok : BOOLEAN]

StoreRows == [groups : SUBSET Groups, vols : [Groups -> SUBSET Volumes], snaps : SUBSET Snapshots,
              taken : [Snapshots -> SUBSET Volumes], bound : SUBSET Volumes]

Types ==
  /\ cg \in [Groups -> CgRows]
  /\ member \in [Groups -> [Volumes -> Nat]]
  /\ snap \in [Snapshots -> SnapRows]
  /\ vol \in [Volumes -> [status : VolumeStatus, inst : Instances \cup {None}]]
  /\ op \in [Slots -> OpRows]
  /\ store \in StoreRows

Has(M) == {v \in Volumes : M[v] > 0}

(* A group of row c, association rows M and volumes V in the storage, which has it or not. *)
GroupOk(c, M, V, has) ==
  /\ \A v \in Volumes : M[v] \in {0, 1}
  /\ c.status = "none" => \A v \in Volumes : M[v] = 0
  /\ c.status = "available" => has /\ c.wds /\ V = Has(M)

(* What a request r of the group's may rely on. *)
CreateOk(r, c, M, V, has) ==
  /\ r.pc = "row" => c.status = "none"
  /\ r.pc # "row" => c.status = "processing" /\ Has(M) \cup r.todo = r.vols
  /\ \A v \in r.todo : M[v] = 0
  /\ r.job = "replied" /\ r.ok => has /\ V = r.vols

DeleteOk(r, c) ==
  /\ r.pc = "row" => c.status \in {"available", "error"}
  /\ r.pc # "row" => c.status = "deleting"

UpdateOk(r, c, M, V, has) ==
  /\ c.wds /\ has
  /\ r.pc = "row" => c.status = "available"
  /\ r.pc # "row" => c.status = "updating"
  /\ r.job = "replied" /\ r.ok => V = Has(M)

AddOk(r, M, V) ==
  /\ r.pc = "row" => \A v \in r.vols : M[v] = 0
  /\ \A v \in r.todo : M[v] = 0
  /\ r.pc # "row" /\ r.job # "replied" => Has(M) \cup r.todo = V \cup r.vols

RemoveOk(r, M, V) ==
  r.pc # "row" /\ r.job # "replied" => Has(M) \ r.todo = V \ r.vols

PhaseOk(r) ==
  /\ r.pc # "done" => r.job = "none"
  /\ r.pc = "done" => r.job \in {"sent", "cleaned", "replied"}
  /\ r.pc # "mark" => r.todo = {}
  /\ r.todo \subseteq r.vols

GroupSlotOk(r, c, M, V, has) ==
  /\ PhaseOk(r)
  /\ r.kind = "create" => CreateOk(r, c, M, V, has)
  /\ r.kind = "delete" => DeleteOk(r, c)
  /\ r.kind \in {"add", "remove"} => UpdateOk(r, c, M, V, has)
  /\ r.kind = "add" => AddOk(r, M, V)
  /\ r.kind = "remove" => RemoveOk(r, M, V)

Group(g) == GroupOk(cg[g], member[g], store.vols[g], g \in store.groups)
GroupSlot(n) == op[n].kind \in GroupKinds =>
  /\ op[n].g \in Groups
  /\ GroupSlotOk(op[n], cg[op[n].g], member[op[n].g], store.vols[op[n].g], op[n].g \in store.groups)

OneServes == \A m, n \in Slots : Serving(m) /\ Serving(n) => m = n

(* No request of the group g is in a slot. *)
Unclaimed(g) == \A m \in Slots : ~(op[m].kind \in GroupKinds /\ op[m].g = g)
GroupsApart == \A m, n \in Slots :
  op[m].kind \in GroupKinds /\ op[n].kind \in GroupKinds /\ op[m].g = op[n].g => m = n

GroupInv ==
  /\ Types
  /\ OneServes
  /\ GroupsApart
  /\ \A g \in Groups : Group(g)
  /\ \A n \in Slots : GroupSlot(n)

(* What a request r for a snapshot of row s may rely on. *)
SnapSlotOk(r, c, M, s, has, T) ==
  /\ PhaseOk(r)
  /\ r.kind \in {"snap", "restore"} => r.vols = Has(M)
  /\ r.kind = "snap" =>
       /\ c.status = "available"
       /\ r.pc = "row" => s.status = "none"
       /\ r.pc # "row" => s.status = "pending" /\ s.g = r.g
       /\ r.job = "replied" /\ r.ok => has /\ T = Has(M)
  /\ r.kind = "unsnap" =>
       /\ s.g = r.g
       /\ r.pc = "row" => s.status \in {"available", "error"}
       /\ r.pc # "row" => s.status = "deleting"
  /\ r.kind = "restore" =>
       /\ s.g = r.g
       /\ r.pc = "row" => s.status = "available"
       /\ r.pc # "row" => s.status = "restoring"

SnapSlot(n) == op[n].kind \in SnapKinds =>
  /\ op[n].g \in Groups /\ op[n].s \in Snapshots
  /\ op[n].kind = "snap" => Unclaimed(op[n].g)
  /\ SnapSlotOk(op[n], cg[op[n].g], member[op[n].g], snap[op[n].s], op[n].s \in store.snaps, store.taken[op[n].s])

LiveSnap(s) == snap[s].status \notin {"none", "deleted"}
Snap(s) ==
  /\ LiveSnap(s) => snap[s].g \in Groups /\ cg[snap[s].g].status # "none" /\ Unclaimed(snap[s].g)
  /\ snap[s].status \in {"available", "restoring"} =>
       s \in store.snaps /\ store.taken[s] = Has(member[snap[s].g])

SnapsApart == \A m, n \in Slots :
  op[m].kind \in SnapKinds /\ op[n].kind \in SnapKinds /\ op[m].s = op[n].s => m = n

SnapInv ==
  /\ GroupInv
  /\ SnapsApart
  /\ \A s \in Snapshots : Snap(s)
  /\ \A n \in Slots : SnapSlot(n)
-----------------------------------------------------------------------------
(* What the steps do to the requests. *)
OnlySlot(n) == op' \in [Slots -> OpRows] /\ \A m \in Slots : m # n => op'[m] = op[m]

(* The request in slot n is the same one, ... *)
Kept(n) ==
  /\ op'[n].kind = op[n].kind /\ op'[n].g = op[n].g /\ op'[n].s = op[n].s
  /\ op'[n].vols = op[n].vols /\ op'[n].wds = op[n].wds
Gone(r) == r.kind = "none" /\ r.pc = "done"

LEMMA FreeRow == Free \in OpRows /\ Gone(Free)
BY Zenon DEF Free, OpRows, Gone

LEMMA BeginRow ==
  ASSUME op \in [Slots -> OpRows], NEW n \in Slots, NEW r \in OpRows, Begin(n, r), "overlap" \notin Faults
  PROVE  OnlySlot(n) /\ op'[n] = r /\ op[n] = Free /\ \A m \in Slots : ~Serving(m)
BY Zenon DEF Begin, MayStart, OnlySlot

(* ... it has written its first row, ... *)
LEMMA WroteRow ==
  ASSUME op \in [Slots -> OpRows], NEW n \in Slots, NEW t \in Tasks \cup {None}, Wrote(n, t)
  PROVE  /\ OnlySlot(n) /\ Kept(n)
         /\ op'[n].todo = op[n].vols /\ op'[n].job = op[n].job /\ op'[n].ok = op[n].ok
         /\ op[n].vols = {} => op'[n].pc = "send"
         /\ op[n].vols # {} => op'[n].pc = "mark"
<1> DEFINE q == [op[n] EXCEPT !.todo = op[n].vols, !.t = t]
           c == IF q.todo = {} THEN "send" ELSE "mark"
           r == [q EXCEPT !.pc = c]
<1>1. op[n] \in OpRows
  BY Zenon
<1>2. /\ q \in OpRows /\ q.kind = op[n].kind /\ q.g = op[n].g /\ q.s = op[n].s /\ q.vols = op[n].vols
      /\ q.wds = op[n].wds /\ q.todo = op[n].vols /\ q.job = op[n].job /\ q.ok = op[n].ok
  BY <1>1, Zenon DEF OpRows
<1>3. op' = [op EXCEPT ![n] = r]
  BY Zenon DEF Wrote, Marking
<1> HIDE DEF q
<1>4. c \in {"mark", "send"} /\ (q.todo = {} => c = "send") /\ (q.todo # {} => c = "mark")
  BY Zenon
<1> HIDE DEF c
<1>5. /\ r \in OpRows /\ r.kind = q.kind /\ r.g = q.g /\ r.s = q.s /\ r.vols = q.vols
      /\ r.wds = q.wds /\ r.todo = q.todo /\ r.job = q.job /\ r.ok = q.ok /\ r.pc = c
  BY <1>2, <1>4, Zenon DEF OpRows
<1> HIDE DEF r
<1>6. OnlySlot(n) /\ op'[n] = r
  BY <1>3, <1>5, Zenon DEF OnlySlot
<1> QED
  BY <1>2, <1>4, <1>5, <1>6, Zenon DEF Kept

(* ... or the row of one volume more, ... *)
LEMMA MarksRow ==
  ASSUME op \in [Slots -> OpRows], NEW n \in Slots, NEW v, NEW K, Marks(n, v, K)
  PROVE  /\ OnlySlot(n) /\ Kept(n)
         /\ op[n].kind \in K /\ op[n].pc = "mark" /\ v \in op[n].todo
         /\ op'[n].todo = op[n].todo \ {v} /\ op'[n].job = op[n].job /\ op'[n].ok = op[n].ok
         /\ op[n].todo \ {v} = {} => op'[n].pc = "send"
         /\ op[n].todo \ {v} # {} => op'[n].pc = "mark"
<1> DEFINE q == [op[n] EXCEPT !.todo = op[n].todo \ {v}]
           c == IF q.todo = {} THEN "send" ELSE "mark"
           r == [q EXCEPT !.pc = c]
<1>1. op[n] \in OpRows
  BY Zenon
<1>2. /\ q \in OpRows /\ q.kind = op[n].kind /\ q.g = op[n].g /\ q.s = op[n].s /\ q.vols = op[n].vols
      /\ q.wds = op[n].wds /\ q.todo = op[n].todo \ {v} /\ q.job = op[n].job /\ q.ok = op[n].ok
  BY <1>1, Zenon DEF OpRows
<1>3. op' = [op EXCEPT ![n] = r] /\ op[n].kind \in K /\ op[n].pc = "mark" /\ v \in op[n].todo
  BY Zenon DEF Marks, Marking
<1> HIDE DEF q
<1>4. c \in {"mark", "send"} /\ (q.todo = {} => c = "send") /\ (q.todo # {} => c = "mark")
  BY Zenon
<1> HIDE DEF c
<1>5. /\ r \in OpRows /\ r.kind = q.kind /\ r.g = q.g /\ r.s = q.s /\ r.vols = q.vols
      /\ r.wds = q.wds /\ r.todo = q.todo /\ r.job = q.job /\ r.ok = q.ok /\ r.pc = c
  BY <1>2, <1>4, Zenon DEF OpRows
<1> HIDE DEF r
<1>6. OnlySlot(n) /\ op'[n] = r
  BY <1>3, <1>5, Zenon DEF OnlySlot
<1> QED
  BY <1>2, <1>3, <1>4, <1>5, <1>6, Zenon DEF Kept

(* ... HyperExecute has been called for it, ... *)
LEMMA SentRow ==
  ASSUME op \in [Slots -> OpRows], NEW n \in Slots, NEW o \in Outcome, Sent(n, o)
  PROVE  /\ OnlySlot(n) /\ op[n].pc = "send"
         /\ \/ Gone(op'[n])
            \/ /\ Kept(n) /\ op'[n].pc = "done" /\ op'[n].job = "sent"
               /\ op'[n].todo = op[n].todo /\ op'[n].ok = op[n].ok
<1> DEFINE q == [op[n] EXCEPT !.pc = "done", !.job = "sent"]
           l == [Free EXCEPT !.g = op[n].g, !.s = op[n].s, !.vols = op[n].vols, !.job = "lost"]
<1>1. op[n] \in OpRows
  BY Zenon
<1>2. /\ q \in OpRows /\ q.kind = op[n].kind /\ q.g = op[n].g /\ q.s = op[n].s /\ q.vols = op[n].vols
      /\ q.wds = op[n].wds /\ q.todo = op[n].todo /\ q.job = "sent" /\ q.ok = op[n].ok /\ q.pc = "done"
  BY <1>1, Zenon DEF OpRows
<1>3. l \in OpRows /\ Gone(l) /\ l.job = "lost"
  BY <1>1, FreeRow, Zenon DEF OpRows, Gone
<1>4. op[n].pc = "send"
  BY Zenon DEF Sent
<1> HIDE DEF q, l
<1>5. op' = [op EXCEPT ![n] = q] \/ op' = [op EXCEPT ![n] = l] \/ op' = [op EXCEPT ![n] = Free]
  <2>1. CASE o = "delivered"
    <3>1. Become(n, q)
      BY <2>1, Zenon DEF Sent, q
    <3> QED
      BY <3>1, <1>2, Zenon DEF Become
  <2>2. CASE o = "lost"
    <3>1. Become(n, l)
      BY <2>2, Zenon DEF Sent, l
    <3> QED
      BY <3>1, <1>3, Zenon DEF Become
  <2>3. CASE o \notin {"delivered", "lost"}
    <3>1. Become(n, Free)
      BY <2>3, Zenon DEF Sent
    <3> QED
      BY <3>1, Zenon DEF Become
  <2> QED
    BY <2>1, <2>2, <2>3, Zenon
<1>6. CASE op' = [op EXCEPT ![n] = q]
  <2>1. OnlySlot(n) /\ op'[n] = q
    BY <1>2, <1>6, Zenon DEF OnlySlot
  <2> QED
    BY <2>1, <1>2, <1>4, Zenon DEF Kept
<1>7. CASE op' = [op EXCEPT ![n] = l] \/ op' = [op EXCEPT ![n] = Free]
  BY <1>3, <1>4, <1>7, FreeRow, Zenon DEF OnlySlot
<1> QED
  BY <1>5, <1>6, <1>7, Zenon

(* ... its script has answered, ... *)
LEMMA AnswerRow ==
  ASSUME op \in [Slots -> OpRows], NEW n \in Slots, NEW good \in BOOLEAN, Answer(n, good)
  PROVE  /\ OnlySlot(n) /\ Kept(n)
         /\ op'[n].todo = op[n].todo /\ op'[n].pc = op[n].pc
         /\ op'[n].job = "replied" /\ op'[n].ok = good
<1> DEFINE r == [op[n] EXCEPT !.job = "replied", !.ok = good]
<1>1. op[n] \in OpRows
  BY Zenon
<1>2. /\ r \in OpRows /\ r.kind = op[n].kind /\ r.g = op[n].g /\ r.s = op[n].s /\ r.vols = op[n].vols
      /\ r.wds = op[n].wds /\ r.todo = op[n].todo /\ r.pc = op[n].pc /\ r.job = "replied" /\ r.ok = good
  BY <1>1, Zenon DEF OpRows
<1>3. op' = [op EXCEPT ![n] = r]
  BY Zenon DEF Answer
<1> HIDE DEF r
<1>4. OnlySlot(n) /\ op'[n] = r
  BY <1>2, <1>3, Zenon DEF OnlySlot
<1> QED
  BY <1>2, <1>4, Zenon DEF Kept

(* ... and the callback has ended it. *)
LEMMA CallbackRow ==
  ASSUME op \in [Slots -> OpRows], NEW n \in Slots, NEW K, Callback(n, K), op[n].pc = "done"
  PROVE  OnlySlot(n) /\ op'[n] = Free /\ op[n].kind \in K /\ op[n].job = "replied" /\ store' = store
<1> DEFINE r == [op[n] EXCEPT !.job = "done"]
<1>1. op[n] \in OpRows
  BY Zenon
<1>2. r.pc = "done" /\ r.job = "done"
  BY <1>1, Zenon DEF OpRows
<1>3. Become(n, r) /\ op[n].kind \in K /\ op[n].job = "replied" /\ store' = store
  BY Zenon DEF Callback
<1> HIDE DEF r
<1>4. op' = [op EXCEPT ![n] = Free]
  BY <1>2, <1>3, Zenon DEF Become
<1> QED
  BY <1>3, <1>4, FreeRow, Zenon DEF OnlySlot
-----------------------------------------------------------------------------
(* A step of the request in slot n, on the group g and on no other. *)
OnlyGroup(g) == \A h \in Groups : h # g =>
  /\ cg'[h] = cg[h] /\ member'[h] = member[h]
  /\ store'.vols[h] = store.vols[h] /\ (h \in store'.groups <=> h \in store.groups)

Turn(n) == Serving(n)' => Serving(n) \/ \A m \in Slots : ~Serving(m)

GroupStep(n, g) ==
  /\ Types' /\ OnlySlot(n) /\ OnlyGroup(g) /\ Turn(n)
  /\ snap' = snap /\ vol' = vol /\ store'.snaps = store.snaps /\ store'.taken = store.taken
  /\ op[n].kind \notin SnapKinds /\ op'[n].kind \notin SnapKinds
  /\ op'[n].kind \in GroupKinds => op'[n].g = g
  /\ Group(g)' /\ GroupSlot(n)'

(* No other request works on g. *)
Alone(n, g) == \A m \in Slots : m # n => ~(op[m].kind \in GroupKinds /\ op[m].g = g)

LEMMA OneServesFrame ==
  ASSUME OneServes, NEW n \in Slots, OnlySlot(n), Turn(n)
  PROVE  OneServes'
BY Zenon DEF OneServes, OnlySlot, Turn, Serving

LEMMA GroupFrame ==
  ASSUME GroupInv, NEW n \in Slots, NEW g \in Groups, GroupStep(n, g), Alone(n, g)
  PROVE  GroupInv'
<1>1. Types' /\ OneServes'
  BY OneServesFrame, Zenon DEF GroupInv, GroupStep
<1>2. \A m \in Slots : m # n => op'[m] = op[m]
  BY Zenon DEF GroupStep, OnlySlot
<1>3. GroupsApart'
  <2> SUFFICES ASSUME NEW x \in Slots, NEW y \in Slots, op'[x].kind \in GroupKinds,
                      op'[y].kind \in GroupKinds, op'[x].g = op'[y].g, x # y
               PROVE  FALSE
    BY Zenon DEF GroupsApart
  <2>1. CASE x # n /\ y # n
    BY <2>1, <1>2, Zenon DEF GroupInv, GroupsApart
  <2>2. CASE x = n
    BY <2>2, <1>2, Zenon DEF GroupStep, Alone
  <2>3. CASE y = n
    BY <2>3, <1>2, Zenon DEF GroupStep, Alone
  <2> QED
    BY <2>1, <2>2, <2>3, Zenon
<1>4. \A h \in Groups : Group(h)'
  <2> SUFFICES ASSUME NEW h \in Groups, h # g PROVE Group(h)'
    BY Zenon DEF GroupStep
  <2>1. Group(h)
    BY Zenon DEF GroupInv
  <2> QED
    BY <2>1, Zenon DEF Group, GroupOk, GroupStep, OnlyGroup
<1>5. \A m \in Slots : GroupSlot(m)'
  <2> SUFFICES ASSUME NEW m \in Slots, m # n, op[m].kind \in GroupKinds PROVE GroupSlot(m)'
    BY <1>2, Zenon DEF GroupStep, GroupSlot
  <2> DEFINE h == op[m].g
  <2>1. GroupSlot(m) /\ h \in Groups /\ h # g /\ op'[m] = op[m]
    BY <1>2, Zenon DEF GroupInv, GroupSlot, Alone
  <2>2. /\ cg'[h] = cg[h] /\ member'[h] = member[h]
        /\ store'.vols[h] = store.vols[h] /\ (h \in store'.groups <=> h \in store.groups)
    BY <2>1, Zenon DEF GroupStep, OnlyGroup
  <2> QED
    BY <2>1, <2>2, Zenon DEF GroupSlot, GroupSlotOk, CreateOk, DeleteOk, UpdateOk, AddOk, RemoveOk
<1> QED
  BY <1>1, <1>3, <1>4, <1>5, Zenon DEF GroupInv

(* A request of a group works alone on it; an idle group has none. *)
LEMMA Works ==
  ASSUME GroupInv, NEW n \in Slots, op[n].kind \in GroupKinds
  PROVE  op[n].g \in Groups /\ Alone(n, op[n].g)
BY Zenon DEF GroupInv, GroupSlot, GroupsApart, Alone

LEMMA AtRest ==
  ASSUME GroupInv, \A m \in Slots : ~Serving(m), NEW g \in Groups,
         cg[g].status \notin {"processing", "deleting", "updating"}
  PROVE  Unclaimed(g)
<1> SUFFICES ASSUME NEW m \in Slots, op[m].kind \in GroupKinds, op[m].g = g PROVE FALSE
  BY Zenon DEF Unclaimed
<1>1. op[m].pc = "done" /\ GroupSlotOk(op[m], cg[g], member[g], store.vols[g], g \in store.groups)
  BY Zenon DEF Serving, GroupInv, GroupSlot
<1> QED
  BY <1>1, Zenon DEF GroupSlotOk, CreateOk, DeleteOk, UpdateOk, GroupKinds

(* The status of a group's row. *)
LEMMA SetCGRow ==
  ASSUME cg \in [Groups -> CgRows], NEW g \in Groups, NEW st \in CGStatus, Exists(g), SetCG(g, st)
  PROVE  /\ cg' \in [Groups -> CgRows] /\ \A h \in Groups : h # g => cg'[h] = cg[h]
         /\ cg'[g].status = st /\ cg'[g].wds = cg[g].wds
<1> DEFINE r == [cg[g] EXCEPT !.status = st]
<1>1. r \in CgRows /\ r.status = st /\ r.wds = cg[g].wds
  <2>1. cg[g] \in CgRows
    BY Zenon
  <2> QED
    BY <2>1, Zenon DEF CgRows
<1>2. cg' = [cg EXCEPT ![g] = r]
  BY Zenon DEF SetCG
<1> HIDE DEF r
<1> QED
  BY <1>1, <1>2, Zenon
-----------------------------------------------------------------------------
(* The requests of a group start. *)
Starts(n, g) ==
  /\ GroupStep(n, g) /\ Alone(n, g) /\ op[n].kind = "none"
  /\ \A m \in Slots : ~Serving(m)

LEMMA StartsFrame ==
  ASSUME GroupInv, "overlap" \notin Faults, NEW n \in Slots, NEW g \in Groups, NEW r \in OpRows,
         Begin(n, r), UNCHANGED <<cg, member, snap, vol, store>>,
         cg[g].status \notin {"processing", "deleting", "updating"},
         r.kind \in GroupKinds, r.g = g,
         GroupSlotOk(r, cg[g], member[g], store.vols[g], g \in store.groups)
  PROVE  Starts(n, g)
<1>1. Types /\ op \in [Slots -> OpRows]
  BY Zenon DEF GroupInv, Types
<1>2. OnlySlot(n) /\ op'[n] = r /\ op[n] = Free /\ \A m \in Slots : ~Serving(m)
  BY <1>1, BeginRow, Zenon
<1>3. Types'
  BY <1>1, <1>2, Zenon DEF Types, OnlySlot
<1>4. OnlyGroup(g) /\ store'.snaps = store.snaps /\ store'.taken = store.taken
  BY Zenon DEF OnlyGroup
<1>5. Group(g)'
  BY Zenon DEF GroupInv, Group
<1>6. GroupSlot(n)'
  BY <1>2, Zenon DEF GroupSlot
<1>7. Alone(n, g)
  BY <1>2, AtRest, Zenon DEF Alone, Unclaimed
<1>8. op[n].kind = "none" /\ op[n].kind \notin SnapKinds /\ op'[n].kind \notin SnapKinds
  BY <1>2, FreeRow, Zenon DEF Gone, GroupKinds, SnapKinds
<1> QED
  BY <1>2, <1>3, <1>4, <1>5, <1>6, <1>7, <1>8, Zenon DEF Starts, GroupStep, Turn

LEMMA CreateStarts ==
  ASSUME GroupInv, "overlap" \notin Faults, NEW n \in Slots, NEW g \in Groups, NEW vs \in SUBSET Volumes,
         Create(n, g, vs)
  PROVE  Starts(n, g)
<1> DEFINE r == [Free EXCEPT !.kind = "create", !.g = g, !.vols = vs, !.pc = "row"]
<1>1. /\ r \in OpRows /\ r.kind = "create" /\ r.g = g /\ r.vols = vs /\ r.pc = "row" /\ r.todo = {}
      /\ r.job = "none"
  BY Zenon DEF Free, OpRows, Kinds
<1>2. cg[g].status = "none" /\ Begin(n, r) /\ UNCHANGED <<cg, member, snap, vol, store>>
  BY Zenon DEF Create
<1> HIDE DEF r
<1>3. GroupSlotOk(r, cg[g], member[g], store.vols[g], g \in store.groups)
  BY <1>1, <1>2, Zenon DEF GroupSlotOk, PhaseOk, CreateOk
<1> QED
  BY <1>1, <1>2, <1>3, StartsFrame, Zenon DEF GroupKinds

LEMMA DeleteStarts ==
  ASSUME GroupInv, "overlap" \notin Faults, NEW n \in Slots, NEW g \in Groups, Delete(n, g)
  PROVE  Starts(n, g)
<1> DEFINE r == [Free EXCEPT !.kind = "delete", !.g = g, !.wds = cg[g].wds, !.pc = "row"]
<1>0. cg[g] \in CgRows
  BY Zenon DEF GroupInv, Types
<1>1. /\ r \in OpRows /\ r.kind = "delete" /\ r.g = g /\ r.pc = "row" /\ r.todo = {} /\ r.job = "none"
  BY <1>0, Zenon DEF Free, OpRows, Kinds, CgRows
<1>2. /\ cg[g].status \notin CGBusy \cup {"none", "deleted"} /\ Begin(n, r)
      /\ UNCHANGED <<cg, member, snap, vol, store>>
  BY Zenon DEF Delete, CanDelete, Exists
<1> HIDE DEF r
<1>3. cg[g].status \in {"available", "error"}
  BY <1>0, <1>2, Zenon DEF CgRows, CGStatus
<1>4. GroupSlotOk(r, cg[g], member[g], store.vols[g], g \in store.groups)
  BY <1>1, <1>3, Zenon DEF GroupSlotOk, PhaseOk, DeleteOk
<1> QED
  BY <1>1, <1>2, <1>3, <1>4, StartsFrame, Zenon DEF GroupKinds

LEMMA AddVolumesStarts ==
  ASSUME GroupInv, "overlap" \notin Faults, NEW n \in Slots, NEW g \in Groups, NEW vs \in SUBSET Volumes,
         AddVolumes(n, g, vs)
  PROVE  Starts(n, g)
<1> DEFINE r == [Free EXCEPT !.kind = "add", !.g = g, !.vols = vs, !.wds = cg[g].wds, !.pc = "row"]
<1>0. cg[g] \in CgRows /\ member \in [Groups -> [Volumes -> Nat]] /\ Group(g)
  BY Zenon DEF GroupInv, Types
<1>1. /\ r \in OpRows /\ r.kind = "add" /\ r.g = g /\ r.vols = vs /\ r.pc = "row" /\ r.todo = {}
      /\ r.job = "none"
  BY <1>0, Zenon DEF Free, OpRows, Kinds, CgRows
<1>2. cg[g].status = "available" /\ Begin(n, r) /\ UNCHANGED <<cg, member, snap, vol, store>>
  BY Zenon DEF AddVolumes, CanUpdate
<1>3. \A v \in vs : member[g][v] = 0
  BY <1>0 DEF AddVolumes, IsVolumeInCG
<1> HIDE DEF r
<1>4. GroupSlotOk(r, cg[g], member[g], store.vols[g], g \in store.groups)
  BY <1>0, <1>1, <1>2, <1>3, Zenon DEF GroupSlotOk, PhaseOk, UpdateOk, AddOk, Group, GroupOk
<1> QED
  BY <1>1, <1>2, <1>4, StartsFrame, Zenon DEF GroupKinds

LEMMA RemoveVolumeStarts ==
  ASSUME GroupInv, "overlap" \notin Faults, NEW n \in Slots, NEW g \in Groups, NEW v \in Volumes,
         RemoveVolume(n, g, v)
  PROVE  Starts(n, g)
<1> DEFINE r == [Free EXCEPT !.kind = "remove", !.g = g, !.vols = {v}, !.wds = cg[g].wds, !.pc = "row"]
<1>0. cg[g] \in CgRows /\ Group(g)
  BY Zenon DEF GroupInv, Types
<1>1. /\ r \in OpRows /\ r.kind = "remove" /\ r.g = g /\ r.vols = {v} /\ r.pc = "row" /\ r.todo = {}
      /\ r.job = "none"
  BY <1>0, Zenon DEF Free, OpRows, Kinds, CgRows
<1>2. cg[g].status = "available" /\ Begin(n, r) /\ UNCHANGED <<cg, member, snap, vol, store>>
  BY Zenon DEF RemoveVolume, CanUpdate
<1> HIDE DEF r
<1>3. GroupSlotOk(r, cg[g], member[g], store.vols[g], g \in store.groups)
  BY <1>0, <1>1, <1>2, Zenon DEF GroupSlotOk, PhaseOk, UpdateOk, RemoveOk, Group, GroupOk
<1> QED
  BY <1>1, <1>2, <1>3, StartsFrame, Zenon DEF GroupKinds
-----------------------------------------------------------------------------
(* The requests of a group go on. *)
LEMMA GoesOn ==
  ASSUME GroupInv, NEW n \in Slots, op[n].kind \in GroupKinds, NEW g \in Groups, g = op[n].g,
         OnlySlot(n), OnlyGroup(g), snap' = snap, vol' = vol,
         cg' \in [Groups -> CgRows], member' \in [Groups -> [Volumes -> Nat]], store' \in StoreRows,
         store'.snaps = store.snaps, store'.taken = store.taken,
         Serving(n)' => Serving(n), Group(g)',
         \/ Gone(op'[n])
         \/ Kept(n) /\ GroupSlotOk(op'[n], cg'[g], member'[g], store'.vols[g], g \in store'.groups)
  PROVE  GroupStep(n, g)
<1>1. Types'
  BY Zenon DEF GroupInv, Types, OnlySlot
<1>2. GroupSlot(n)' /\ op'[n].kind \notin SnapKinds /\ (op'[n].kind \in GroupKinds => op'[n].g = g)
  BY Zenon DEF GroupSlot, Gone, Kept, GroupKinds, SnapKinds
<1>3. op[n].kind \notin SnapKinds /\ Turn(n)
  BY Zenon DEF GroupKinds, SnapKinds, Turn
<1> QED
  BY <1>1, <1>2, <1>3, Zenon DEF GroupStep

(* What is known of such a request. *)
LEMMA Known ==
  ASSUME GroupInv, NEW n \in Slots, op[n].kind \in GroupKinds, NEW g \in Groups, g = op[n].g
  PROVE  /\ op[n] \in OpRows /\ store \in StoreRows
         /\ cg \in [Groups -> CgRows] /\ member \in [Groups -> [Volumes -> Nat]]
         /\ op \in [Slots -> OpRows]
         /\ GroupSlotOk(op[n], cg[g], member[g], store.vols[g], g \in store.groups)
         /\ GroupOk(cg[g], member[g], store.vols[g], g \in store.groups)
BY Zenon DEF GroupInv, Types, GroupSlot, Group

LEMMA StatusRow ==
  ASSUME cg \in [Groups -> CgRows], NEW g \in Groups, NEW st \in CGStatus,
         cg' = [cg EXCEPT ![g].status = st]
  PROVE  /\ cg' \in [Groups -> CgRows] /\ \A h \in Groups : h # g => cg'[h] = cg[h]
         /\ cg'[g].status = st /\ cg'[g].wds = cg[g].wds
<1> DEFINE r == [cg[g] EXCEPT !.status = st]
<1>1. r \in CgRows /\ r.status = st /\ r.wds = cg[g].wds
  <2>1. cg[g] \in CgRows
    BY Zenon
  <2> QED
    BY <2>1, Zenon DEF CgRows
<1>2. cg' = [cg EXCEPT ![g] = r]
  BY Zenon
<1> HIDE DEF r
<1> QED
  BY <1>1, <1>2, Zenon

LEMMA WriteCreateGoesOn ==
  ASSUME GroupInv, NEW n \in Slots, NEW g \in Groups, g = op[n].g, WriteCreate(n)
  PROVE  op[n].kind \in GroupKinds /\ GroupStep(n, g)
<1>1. PICK t \in Tasks : /\ At(n, "create", "row") /\ cg' = [cg EXCEPT ![g].status = "processing"]
                         /\ Wrote(n, t) /\ UNCHANGED <<member, snap, vol, store>>
  BY Zenon DEF WriteCreate
<1>2. op[n].kind = "create" /\ op[n].pc = "row" /\ op[n].kind \in GroupKinds
  BY <1>1, Zenon DEF At, GroupKinds
<1>3. /\ op[n] \in OpRows /\ store \in StoreRows
      /\ cg \in [Groups -> CgRows] /\ member \in [Groups -> [Volumes -> Nat]]
      /\ op \in [Slots -> OpRows]
      /\ GroupSlotOk(op[n], cg[g], member[g], store.vols[g], g \in store.groups)
      /\ GroupOk(cg[g], member[g], store.vols[g], g \in store.groups)
  BY <1>2, Known, Zenon
<1>4. /\ OnlySlot(n) /\ Kept(n)
      /\ op'[n].todo = op[n].vols /\ op'[n].job = op[n].job /\ op'[n].ok = op[n].ok
      /\ op[n].vols = {} => op'[n].pc = "send"
      /\ op[n].vols # {} => op'[n].pc = "mark"
  BY <1>1, <1>3, WroteRow, Zenon
<1>5. /\ cg' \in [Groups -> CgRows] /\ \A h \in Groups : h # g => cg'[h] = cg[h]
      /\ cg'[g].status = "processing"
  BY <1>1, <1>3, StatusRow, Zenon DEF CGStatus, CGBusy
<1>6. member' = member /\ store' = store /\ snap' = snap /\ vol' = vol
  BY <1>1, Zenon
<1>7. op[n].job = "none" /\ \A v \in Volumes : member[g][v] = 0
  BY <1>2, <1>3, Zenon DEF GroupSlotOk, PhaseOk, CreateOk, GroupOk
<1>8. op'[n].pc \in {"mark", "send"} /\ op[n].vols \in SUBSET Volumes
  BY <1>3, <1>4, Zenon DEF OpRows
<1>9. GroupSlotOk(op'[n], cg'[g], member'[g], store'.vols[g], g \in store'.groups)
  BY <1>2, <1>4, <1>5, <1>6, <1>7, <1>8 DEF GroupSlotOk, PhaseOk, CreateOk, Kept, Has
<1>10. Group(g)'
  BY <1>3, <1>5, <1>6, Zenon DEF Group, GroupOk
<1>11. OnlyGroup(g) /\ (Serving(n)' => Serving(n))
  BY <1>2, <1>5, <1>6, Zenon DEF OnlyGroup, Serving
<1> QED
  BY <1>2, <1>3, <1>4, <1>5, <1>6, <1>9, <1>10, <1>11, GoesOn, Zenon

LEMMA WriteDeleteGoesOn ==
  ASSUME GroupInv, NEW n \in Slots, NEW g \in Groups, g = op[n].g, WriteDelete(n)
  PROVE  op[n].kind \in GroupKinds /\ GroupStep(n, g)
<1>1. At(n, "delete", "row") /\ SetCG(g, "deleting") /\ Wrote(n, None) /\ UNCHANGED <<member, snap, vol, store>>
  BY Zenon DEF WriteDelete
<1>2. op[n].kind = "delete" /\ op[n].pc = "row" /\ op[n].kind \in GroupKinds
  BY <1>1, Zenon DEF At, GroupKinds
<1>3. /\ op[n] \in OpRows /\ store \in StoreRows
      /\ cg \in [Groups -> CgRows] /\ member \in [Groups -> [Volumes -> Nat]]
      /\ op \in [Slots -> OpRows]
      /\ GroupSlotOk(op[n], cg[g], member[g], store.vols[g], g \in store.groups)
      /\ GroupOk(cg[g], member[g], store.vols[g], g \in store.groups)
  BY <1>2, Known, Zenon
<1>4. /\ OnlySlot(n) /\ Kept(n)
      /\ op'[n].todo = op[n].vols /\ op'[n].job = op[n].job /\ op'[n].ok = op[n].ok
      /\ op[n].vols = {} => op'[n].pc = "send"
      /\ op[n].vols # {} => op'[n].pc = "mark"
  BY <1>1, <1>3, WroteRow, Zenon
<1>5. op[n].job = "none" /\ cg[g].status \in {"available", "error"}
  BY <1>2, <1>3, Zenon DEF GroupSlotOk, PhaseOk, DeleteOk
<1>6. /\ cg' \in [Groups -> CgRows] /\ \A h \in Groups : h # g => cg'[h] = cg[h]
      /\ cg'[g].status = "deleting" /\ cg'[g].wds = cg[g].wds
  BY <1>1, <1>3, <1>5, SetCGRow, Zenon DEF CGStatus, CGBusy, Exists
<1>7. member' = member /\ store' = store /\ snap' = snap /\ vol' = vol
  BY <1>1, Zenon
<1>8. op'[n].pc \in {"mark", "send"}
  BY <1>4, Zenon
<1>9. GroupSlotOk(op'[n], cg'[g], member'[g], store'.vols[g], g \in store'.groups)
  BY <1>2, <1>3, <1>4, <1>5, <1>6, <1>7, <1>8, Zenon DEF GroupSlotOk, PhaseOk, Kept, DeleteOk
<1>10. Group(g)'
  BY <1>3, <1>6, <1>7, Zenon DEF Group, GroupOk
<1>11. OnlyGroup(g) /\ (Serving(n)' => Serving(n))
  BY <1>2, <1>6, <1>7, Zenon DEF OnlyGroup, Serving
<1> QED
  BY <1>2, <1>3, <1>4, <1>6, <1>7, <1>9, <1>10, <1>11, GoesOn, Zenon

LEMMA WriteAddVolumesGoesOn ==
  ASSUME GroupInv, NEW n \in Slots, NEW g \in Groups, g = op[n].g, WriteAddVolumes(n)
  PROVE  op[n].kind \in GroupKinds /\ GroupStep(n, g)
<1>1. At(n, "add", "row") /\ SetCG(g, "updating") /\ Wrote(n, None) /\ UNCHANGED <<member, snap, vol, store>>
  BY Zenon DEF WriteAddVolumes
<1>2. op[n].kind = "add" /\ op[n].pc = "row" /\ op[n].kind \in GroupKinds
  BY <1>1, Zenon DEF At, GroupKinds
<1>3. /\ op[n] \in OpRows /\ store \in StoreRows
      /\ cg \in [Groups -> CgRows] /\ member \in [Groups -> [Volumes -> Nat]]
      /\ op \in [Slots -> OpRows]
      /\ GroupSlotOk(op[n], cg[g], member[g], store.vols[g], g \in store.groups)
      /\ GroupOk(cg[g], member[g], store.vols[g], g \in store.groups)
  BY <1>2, Known, Zenon
<1>4. /\ OnlySlot(n) /\ Kept(n)
      /\ op'[n].todo = op[n].vols /\ op'[n].job = op[n].job /\ op'[n].ok = op[n].ok
      /\ op[n].vols = {} => op'[n].pc = "send"
      /\ op[n].vols # {} => op'[n].pc = "mark"
  BY <1>1, <1>3, WroteRow, Zenon
<1>5. op[n].job = "none" /\ cg[g].status = "available"
  BY <1>2, <1>3, Zenon DEF GroupSlotOk, PhaseOk, UpdateOk, AddOk, GroupOk
<1>6. /\ cg' \in [Groups -> CgRows] /\ \A h \in Groups : h # g => cg'[h] = cg[h]
      /\ cg'[g].status = "updating" /\ cg'[g].wds = cg[g].wds
  BY <1>1, <1>3, <1>5, SetCGRow, Zenon DEF CGStatus, CGBusy, Exists
<1>7. member' = member /\ store' = store /\ snap' = snap /\ vol' = vol
  BY <1>1, Zenon
<1>8. op'[n].pc \in {"mark", "send"}
  BY <1>4, Zenon
<1>9. GroupSlotOk(op'[n], cg'[g], member'[g], store'.vols[g], g \in store'.groups)
  BY <1>2, <1>3, <1>4, <1>5, <1>6, <1>7, <1>8, Zenon DEF GroupSlotOk, PhaseOk, Kept, UpdateOk, AddOk, GroupOk
<1>10. Group(g)'
  BY <1>3, <1>6, <1>7, Zenon DEF Group, GroupOk
<1>11. OnlyGroup(g) /\ (Serving(n)' => Serving(n))
  BY <1>2, <1>6, <1>7, Zenon DEF OnlyGroup, Serving
<1> QED
  BY <1>2, <1>3, <1>4, <1>6, <1>7, <1>9, <1>10, <1>11, GoesOn, Zenon

LEMMA WriteRemoveVolumeGoesOn ==
  ASSUME GroupInv, NEW n \in Slots, NEW g \in Groups, g = op[n].g, WriteRemoveVolume(n)
  PROVE  op[n].kind \in GroupKinds /\ GroupStep(n, g)
<1>1. At(n, "remove", "row") /\ SetCG(g, "updating") /\ Wrote(n, None) /\ UNCHANGED <<member, snap, vol, store>>
  BY Zenon DEF WriteRemoveVolume
<1>2. op[n].kind = "remove" /\ op[n].pc = "row" /\ op[n].kind \in GroupKinds
  BY <1>1, Zenon DEF At, GroupKinds
<1>3. /\ op[n] \in OpRows /\ store \in StoreRows
      /\ cg \in [Groups -> CgRows] /\ member \in [Groups -> [Volumes -> Nat]]
      /\ op \in [Slots -> OpRows]
      /\ GroupSlotOk(op[n], cg[g], member[g], store.vols[g], g \in store.groups)
      /\ GroupOk(cg[g], member[g], store.vols[g], g \in store.groups)
  BY <1>2, Known, Zenon
<1>4. /\ OnlySlot(n) /\ Kept(n)
      /\ op'[n].todo = op[n].vols /\ op'[n].job = op[n].job /\ op'[n].ok = op[n].ok
      /\ op[n].vols = {} => op'[n].pc = "send"
      /\ op[n].vols # {} => op'[n].pc = "mark"
  BY <1>1, <1>3, WroteRow, Zenon
<1>5. op[n].job = "none" /\ cg[g].status = "available"
  BY <1>2, <1>3, Zenon DEF GroupSlotOk, PhaseOk, UpdateOk, RemoveOk, GroupOk
<1>6. /\ cg' \in [Groups -> CgRows] /\ \A h \in Groups : h # g => cg'[h] = cg[h]
      /\ cg'[g].status = "updating" /\ cg'[g].wds = cg[g].wds
  BY <1>1, <1>3, <1>5, SetCGRow, Zenon DEF CGStatus, CGBusy, Exists
<1>7. member' = member /\ store' = store /\ snap' = snap /\ vol' = vol
  BY <1>1, Zenon
<1>8. op'[n].pc \in {"mark", "send"}
  BY <1>4, Zenon
<1>9. GroupSlotOk(op'[n], cg'[g], member'[g], store'.vols[g], g \in store'.groups)
  BY <1>2, <1>3, <1>4, <1>5, <1>6, <1>7, <1>8, Zenon DEF GroupSlotOk, PhaseOk, Kept, UpdateOk, RemoveOk, GroupOk
<1>10. Group(g)'
  BY <1>3, <1>6, <1>7, Zenon DEF Group, GroupOk
<1>11. OnlyGroup(g) /\ (Serving(n)' => Serving(n))
  BY <1>2, <1>6, <1>7, Zenon DEF OnlyGroup, Serving
<1> QED
  BY <1>2, <1>3, <1>4, <1>6, <1>7, <1>9, <1>10, <1>11, GoesOn, Zenon

(* The association rows of a group. *)
LEMMA MemberRow ==
  ASSUME member \in [Groups -> [Volumes -> Nat]], NEW g \in Groups, NEW v \in Volumes, NEW k \in Nat,
         member' = [member EXCEPT ![g][v] = k]
  PROVE  /\ member' \in [Groups -> [Volumes -> Nat]] /\ \A h \in Groups : h # g => member'[h] = member[h]
         /\ member'[g][v] = k /\ \A w \in Volumes : w # v => member'[g][w] = member[g][w]
<1> DEFINE r == [member[g] EXCEPT ![v] = k]
<1>1. r \in [Volumes -> Nat] /\ r[v] = k /\ \A w \in Volumes : w # v => r[w] = member[g][w]
  <2>1. member[g] \in [Volumes -> Nat]
    BY Zenon
  <2> QED
    BY <2>1, Zenon
<1>2. member' = [member EXCEPT ![g] = r]
  BY Zenon
<1> HIDE DEF r
<1> QED
  BY <1>1, <1>2, Zenon

LEMMA InsertMemberGoesOn ==
  ASSUME GroupInv, NEW n \in Slots, NEW g \in Groups, g = op[n].g, NEW v \in Volumes, InsertMember(n, v)
  PROVE  op[n].kind \in GroupKinds /\ GroupStep(n, g)
<1>1. Marks(n, v, {"create", "add"}) /\ UNCHANGED <<cg, snap, vol, store>>
  BY Zenon DEF InsertMember
<1>2. op[n].kind \in {"create", "add"} /\ op[n].kind \in GroupKinds
  BY <1>1, Zenon DEF Marks, GroupKinds
<1>3. /\ op[n] \in OpRows /\ store \in StoreRows
      /\ cg \in [Groups -> CgRows] /\ member \in [Groups -> [Volumes -> Nat]]
      /\ op \in [Slots -> OpRows]
      /\ GroupSlotOk(op[n], cg[g], member[g], store.vols[g], g \in store.groups)
      /\ GroupOk(cg[g], member[g], store.vols[g], g \in store.groups)
  BY <1>2, Known, Zenon
<1>4. /\ OnlySlot(n) /\ Kept(n) /\ op[n].pc = "mark" /\ v \in op[n].todo
      /\ op'[n].todo = op[n].todo \ {v} /\ op'[n].job = op[n].job /\ op'[n].ok = op[n].ok
      /\ op[n].todo \ {v} = {} => op'[n].pc = "send"
      /\ op[n].todo \ {v} # {} => op'[n].pc = "mark"
  BY <1>1, <1>3, MarksRow, Zenon
<1>5. /\ cg[g].status \in {"processing", "updating"} /\ member[g][v] = 0
      /\ op[n].job = "none" /\ op[n].todo \subseteq op[n].vols /\ \A w \in op[n].todo : member[g][w] = 0
  BY <1>2, <1>3, <1>4, Zenon DEF GroupSlotOk, PhaseOk, CreateOk, UpdateOk, AddOk
<1>6. member' = [member EXCEPT ![g][v] = 1]
  <2> DEFINE k == member[g][v] + 1
  <2>1. member' = [member EXCEPT ![g][v] = k]
    BY Zenon DEF InsertMember
  <2>2. member[g][v] = 0
    BY <1>5, Zenon
  <2>3. k = 1
    BY <2>2
  <2> QED
    BY <2>1, <2>3, Zenon
<1>7. /\ member' \in [Groups -> [Volumes -> Nat]] /\ \A h \in Groups : h # g => member'[h] = member[h]
      /\ member'[g][v] = 1 /\ \A w \in Volumes : w # v => member'[g][w] = member[g][w]
  BY <1>3, <1>6, MemberRow
<1>8. /\ Has(member'[g]) = Has(member[g]) \cup {v}
      /\ \A w \in op[n].todo \ {v} : member'[g][w] = 0
      /\ \A w \in Volumes : member'[g][w] \in {0, 1}
  <2>1. op[n].todo \subseteq Volumes
    BY <1>3, Zenon DEF OpRows
  <2>2. \A w \in Volumes : member'[g][w] \in {0, 1}
    BY <1>3, <1>7, Zenon DEF GroupOk
  <2>3. \A w \in op[n].todo \ {v} : member'[g][w] = 0
    BY <2>1, <1>5, <1>7, Zenon
  <2>4. Has(member'[g]) = Has(member[g]) \cup {v}
    BY <1>7 DEF Has
  <2> QED
    BY <2>2, <2>3, <2>4, Zenon
<1>9. cg' = cg /\ store' = store /\ snap' = snap /\ vol' = vol
  BY <1>1, Zenon
<1>10. op'[n].pc \in {"mark", "send"}
  BY <1>4, Zenon
<1>11. PhaseOk(op'[n])
  BY <1>4, <1>5, Zenon DEF PhaseOk, Kept
<1>12. op[n].kind = "create" => CreateOk(op'[n], cg'[g], member'[g], store'.vols[g], g \in store'.groups)
  BY <1>3, <1>4, <1>5, <1>8, <1>9, <1>10, Zenon DEF GroupSlotOk, CreateOk, Kept
<1>13. op[n].kind = "add" => /\ UpdateOk(op'[n], cg'[g], member'[g], store'.vols[g], g \in store'.groups)
                             /\ AddOk(op'[n], member'[g], store'.vols[g])
  <2> SUFFICES ASSUME op[n].kind = "add"
               PROVE  /\ UpdateOk(op'[n], cg'[g], member'[g], store'.vols[g], g \in store'.groups)
                      /\ AddOk(op'[n], member'[g], store'.vols[g])
    BY Zenon
  <2>1. UpdateOk(op'[n], cg'[g], member'[g], store'.vols[g], g \in store'.groups)
    BY <1>3, <1>4, <1>5, <1>9, <1>10, Zenon DEF GroupSlotOk, UpdateOk, Kept
  <2>2. Has(member[g]) \cup op[n].todo = store.vols[g] \cup op[n].vols
    BY <1>3, <1>4, <1>5, Zenon DEF GroupSlotOk, AddOk
  <2>3. Has(member'[g]) \cup op'[n].todo = store'.vols[g] \cup op'[n].vols
    <3>1. /\ Has(member'[g]) = Has(member[g]) \cup {v} /\ op'[n].todo = op[n].todo \ {v} /\ v \in op[n].todo
          /\ store' = store /\ op'[n].vols = op[n].vols
      BY <1>4, <1>8, <1>9, Zenon DEF Kept
    <3> QED
      BY <2>2, <3>1
  <2> QED
    BY <1>4, <1>8, <1>10, <2>1, <2>3, Zenon DEF AddOk
<1>14. GroupSlotOk(op'[n], cg'[g], member'[g], store'.vols[g], g \in store'.groups)
  BY <1>2, <1>4, <1>11, <1>12, <1>13, Zenon DEF GroupSlotOk, Kept
<1>15. Group(g)'
  BY <1>5, <1>8, <1>9, Zenon DEF Group, GroupOk
<1>16. OnlyGroup(g) /\ (Serving(n)' => Serving(n))
  BY <1>4, <1>7, <1>9, Zenon DEF OnlyGroup, Serving
<1> QED
  BY <1>2, <1>3, <1>4, <1>7, <1>9, <1>14, <1>15, <1>16, GoesOn, Zenon

LEMMA DeleteMemberGoesOn ==
  ASSUME GroupInv, NEW n \in Slots, NEW g \in Groups, g = op[n].g, NEW v \in Volumes, DeleteMember(n, v)
  PROVE  op[n].kind \in GroupKinds /\ GroupStep(n, g)
<1>1. Marks(n, v, {"remove"}) /\ UNCHANGED <<cg, snap, vol, store>>
  BY Zenon DEF DeleteMember
<1>2. op[n].kind = "remove" /\ op[n].kind \in GroupKinds
  BY <1>1, Zenon DEF Marks, GroupKinds
<1>3. /\ op[n] \in OpRows /\ store \in StoreRows
      /\ cg \in [Groups -> CgRows] /\ member \in [Groups -> [Volumes -> Nat]]
      /\ op \in [Slots -> OpRows]
      /\ GroupSlotOk(op[n], cg[g], member[g], store.vols[g], g \in store.groups)
      /\ GroupOk(cg[g], member[g], store.vols[g], g \in store.groups)
  BY <1>2, Known, Zenon
<1>4. /\ OnlySlot(n) /\ Kept(n) /\ op[n].pc = "mark" /\ v \in op[n].todo
      /\ op'[n].todo = op[n].todo \ {v} /\ op'[n].job = op[n].job /\ op'[n].ok = op[n].ok
      /\ op[n].todo \ {v} = {} => op'[n].pc = "send"
      /\ op[n].todo \ {v} # {} => op'[n].pc = "mark"
  BY <1>1, <1>3, MarksRow, Zenon
<1>5. /\ cg[g].status = "updating" /\ member[g][v] \in {0, 1}
      /\ op[n].job = "none" /\ op[n].todo \subseteq op[n].vols
  BY <1>2, <1>3, <1>4, Zenon DEF GroupSlotOk, PhaseOk, UpdateOk, GroupOk
<1>6. member' = [member EXCEPT ![g][v] = 0]
  <2> DEFINE k == IF member[g][v] > 0 THEN member[g][v] - 1 ELSE member[g][v]
  <2>1. member' = [member EXCEPT ![g][v] = k]
    BY Zenon DEF DeleteMember
  <2>2. member[g][v] \in {0, 1}
    BY <1>5, Zenon
  <2>3. k = 0
    BY <2>2
  <2> QED
    BY <2>1, <2>3, Zenon
<1>7. /\ member' \in [Groups -> [Volumes -> Nat]] /\ \A h \in Groups : h # g => member'[h] = member[h]
      /\ member'[g][v] = 0 /\ \A w \in Volumes : w # v => member'[g][w] = member[g][w]
  BY <1>3, <1>6, MemberRow
<1>8. Has(member'[g]) = Has(member[g]) \ {v} /\ \A w \in Volumes : member'[g][w] \in {0, 1}
  <2>1. \A w \in Volumes : member'[g][w] \in {0, 1}
    BY <1>3, <1>7, Zenon DEF GroupOk
  <2>2. Has(member'[g]) = Has(member[g]) \ {v}
    BY <1>7 DEF Has
  <2> QED
    BY <2>1, <2>2, Zenon
<1>9. cg' = cg /\ store' = store /\ snap' = snap /\ vol' = vol
  BY <1>1, Zenon
<1>10. op'[n].pc \in {"mark", "send"}
  BY <1>4, Zenon
<1>11. PhaseOk(op'[n])
  BY <1>4, <1>5, Zenon DEF PhaseOk, Kept
<1>12. /\ UpdateOk(op'[n], cg'[g], member'[g], store'.vols[g], g \in store'.groups)
       /\ RemoveOk(op'[n], member'[g], store'.vols[g])
  <2>1. UpdateOk(op'[n], cg'[g], member'[g], store'.vols[g], g \in store'.groups)
    BY <1>2, <1>3, <1>4, <1>5, <1>9, <1>10, Zenon DEF GroupSlotOk, UpdateOk, Kept
  <2>2. Has(member[g]) \ op[n].todo = store.vols[g] \ op[n].vols
    BY <1>2, <1>3, <1>4, <1>5, Zenon DEF GroupSlotOk, RemoveOk
  <2>3. Has(member'[g]) \ op'[n].todo = store'.vols[g] \ op'[n].vols
    <3>1. /\ Has(member'[g]) = Has(member[g]) \ {v} /\ op'[n].todo = op[n].todo \ {v} /\ v \in op[n].todo
          /\ store' = store /\ op'[n].vols = op[n].vols /\ op[n].todo \subseteq op[n].vols
      BY <1>4, <1>5, <1>8, <1>9, Zenon DEF Kept
    <3> QED
      BY <2>2, <3>1
  <2> QED
    BY <2>1, <2>3, Zenon DEF RemoveOk
<1>13. GroupSlotOk(op'[n], cg'[g], member'[g], store'.vols[g], g \in store'.groups)
  BY <1>2, <1>4, <1>11, <1>12, Zenon DEF GroupSlotOk, Kept
<1>14. Group(g)'
  BY <1>5, <1>8, <1>9, Zenon DEF Group, GroupOk
<1>15. OnlyGroup(g) /\ (Serving(n)' => Serving(n))
  BY <1>4, <1>7, <1>9, Zenon DEF OnlyGroup, Serving
<1> QED
  BY <1>2, <1>3, <1>4, <1>7, <1>9, <1>13, <1>14, <1>15, GoesOn, Zenon

(* HyperExecute is called: SendCreate and SendGroup. *)
LEMMA SendGoesOn ==
  ASSUME GroupInv, NEW n \in Slots, NEW g \in Groups, g = op[n].g, SendCreate(n) \/ SendGroup(n)
  PROVE  op[n].kind \in GroupKinds /\ GroupStep(n, g)
<1>1. op[n].kind \in GroupKinds /\ UNCHANGED <<cg, member, snap, vol, store>>
  BY Zenon DEF SendCreate, SendGroup, GroupKinds
<1>2. PICK o \in Outcome : Sent(n, o)
  BY Zenon DEF SendCreate, SendGroup
<1>3. /\ op[n] \in OpRows /\ store \in StoreRows
      /\ cg \in [Groups -> CgRows] /\ member \in [Groups -> [Volumes -> Nat]]
      /\ op \in [Slots -> OpRows]
      /\ GroupSlotOk(op[n], cg[g], member[g], store.vols[g], g \in store.groups)
      /\ GroupOk(cg[g], member[g], store.vols[g], g \in store.groups)
  BY <1>1, Known, Zenon
<1>4. /\ OnlySlot(n) /\ op[n].pc = "send"
      /\ \/ Gone(op'[n])
         \/ /\ Kept(n) /\ op'[n].pc = "done" /\ op'[n].job = "sent"
            /\ op'[n].todo = op[n].todo /\ op'[n].ok = op[n].ok
  BY <1>2, <1>3, SentRow, Zenon
<1>5. cg' = cg /\ member' = member /\ store' = store /\ snap' = snap /\ vol' = vol
  BY <1>1, Zenon
<1>6. \/ Gone(op'[n])
      \/ Kept(n) /\ GroupSlotOk(op'[n], cg'[g], member'[g], store'.vols[g], g \in store'.groups)
  BY <1>3, <1>4, <1>5, Zenon DEF GroupSlotOk, PhaseOk, CreateOk, DeleteOk, UpdateOk, AddOk, RemoveOk, Kept
<1>7. Group(g)'
  BY <1>3, <1>5, Zenon DEF Group
<1>8. OnlyGroup(g) /\ (Serving(n)' => Serving(n))
  BY <1>4, <1>5, Zenon DEF OnlyGroup, Serving
<1> QED
  BY <1>1, <1>3, <1>4, <1>5, <1>6, <1>7, <1>8, GoesOn, Zenon
-----------------------------------------------------------------------------
(* The scripts of a group: what they make of the group in the storage. *)
StoreGroup(g, has, V) ==
  /\ store' \in StoreRows /\ store'.vols[g] = V /\ (g \in store'.groups <=> has)
  /\ \A h \in Groups : h # g =>
       store'.vols[h] = store.vols[h] /\ (h \in store'.groups <=> h \in store.groups)
  /\ store'.snaps = store.snaps /\ store'.taken = store.taken

LEMMA StoreRow ==
  ASSUME store \in StoreRows, NEW g \in Groups, NEW G \in SUBSET Groups, NEW V \in SUBSET Volumes,
         store' = [store EXCEPT !.groups = G, !.vols = [store.vols EXCEPT ![g] = V]],
         \A h \in Groups : h # g => (h \in G <=> h \in store.groups)
  PROVE  StoreGroup(g, g \in G, V)
<1> DEFINE W == [store.vols EXCEPT ![g] = V]
<1>1. store.vols \in [Groups -> SUBSET Volumes]
  BY Zenon DEF StoreRows
<1>2. W \in [Groups -> SUBSET Volumes] /\ W[g] = V /\ \A h \in Groups : h # g => W[h] = store.vols[h]
  BY <1>1, Zenon
<1> HIDE DEF W
<1>3. /\ store' \in StoreRows /\ store'.groups = G /\ store'.vols = W /\ store'.snaps = store.snaps
      /\ store'.taken = store.taken
  <2>1. store' = [store EXCEPT !.groups = G, !.vols = W]
    BY Zenon DEF W
  <2> QED
    BY <2>1, <1>2, Zenon DEF StoreRows
<1> QED
  BY <1>2, <1>3, Zenon DEF StoreGroup

LEMMA StoreKept ==
  ASSUME store \in StoreRows, NEW g \in Groups, store' = store
  PROVE  StoreGroup(g, g \in store.groups, store.vols[g])
BY Zenon DEF StoreGroup

(* A script answers: the rows stay, and so does the group while it is being worked on. *)
LEMMA ScriptGoesOn ==
  ASSUME GroupInv, NEW n \in Slots, NEW g \in Groups, g = op[n].g, op[n].kind \in GroupKinds,
         op[n].job = "sent", NEW good \in BOOLEAN, Answer(n, good), UNCHANGED <<cg, member, snap, vol>>,
         NEW has \in BOOLEAN, NEW V \in SUBSET Volumes, StoreGroup(g, has, V),
         op[n].kind = "create" /\ good => has /\ V = op[n].vols,
         op[n].kind \in {"add", "remove"} => (has <=> g \in store.groups),
         op[n].kind = "add" /\ good => V = store.vols[g] \cup op[n].vols,
         op[n].kind = "remove" /\ good => V = store.vols[g] \ op[n].vols
  PROVE  GroupStep(n, g)
<1>1. /\ op[n] \in OpRows /\ store \in StoreRows
      /\ cg \in [Groups -> CgRows] /\ member \in [Groups -> [Volumes -> Nat]]
      /\ op \in [Slots -> OpRows]
      /\ GroupSlotOk(op[n], cg[g], member[g], store.vols[g], g \in store.groups)
      /\ GroupOk(cg[g], member[g], store.vols[g], g \in store.groups)
  BY Known, Zenon
<1>2. /\ OnlySlot(n) /\ Kept(n) /\ op'[n].todo = op[n].todo /\ op'[n].pc = op[n].pc
      /\ op'[n].job = "replied" /\ op'[n].ok = good
  BY <1>1, AnswerRow, Zenon
<1>3. op[n].pc = "done" /\ op[n].todo = {}
  BY <1>1, Zenon DEF GroupSlotOk, PhaseOk
<1>4. cg' = cg /\ member' = member /\ snap' = snap /\ vol' = vol
  BY Zenon
<1>5. /\ store' \in StoreRows /\ store'.vols[g] = V /\ (g \in store'.groups <=> has)
      /\ store'.snaps = store.snaps /\ store'.taken = store.taken
  BY Zenon DEF StoreGroup
<1>6. PhaseOk(op'[n])
  BY <1>1, <1>2, <1>3, Zenon DEF GroupSlotOk, PhaseOk, Kept
<1>7. op[n].kind = "create" => CreateOk(op'[n], cg'[g], member'[g], store'.vols[g], g \in store'.groups)
  BY <1>1, <1>2, <1>3, <1>4, <1>5, Zenon DEF GroupSlotOk, CreateOk, Kept
<1>8. op[n].kind = "delete" => DeleteOk(op'[n], cg'[g])
  BY <1>1, <1>2, <1>3, <1>4, Zenon DEF GroupSlotOk, DeleteOk
<1>9. op[n].kind = "add" => /\ UpdateOk(op'[n], cg'[g], member'[g], store'.vols[g], g \in store'.groups)
                            /\ AddOk(op'[n], member'[g], store'.vols[g])
  <2> HAVE op[n].kind = "add"
  <2>1. UpdateOk(op[n], cg[g], member[g], store.vols[g], g \in store.groups) /\ AddOk(op[n], member[g], store.vols[g])
    BY <1>1, Zenon DEF GroupSlotOk
  <2>2. Has(member[g]) \cup op[n].todo = store.vols[g] \cup op[n].vols
    BY <2>1, <1>3, Zenon DEF AddOk
  <2>3. Has(member[g]) = store.vols[g] \cup op[n].vols
    BY <2>2, <1>3, Zenon
  <2>4. good => V = Has(member[g])
    BY <2>3, Zenon
  <2>5. UpdateOk(op'[n], cg'[g], member'[g], store'.vols[g], g \in store'.groups)
    BY <2>1, <2>4, <1>2, <1>3, <1>4, <1>5, Zenon DEF UpdateOk
  <2>6. AddOk(op'[n], member'[g], store'.vols[g])
    BY <1>2, <1>3, Zenon DEF AddOk
  <2> QED
    BY <2>5, <2>6, Zenon
<1>10. op[n].kind = "remove" => /\ UpdateOk(op'[n], cg'[g], member'[g], store'.vols[g], g \in store'.groups)
                                /\ RemoveOk(op'[n], member'[g], store'.vols[g])
  <2> HAVE op[n].kind = "remove"
  <2>1. UpdateOk(op[n], cg[g], member[g], store.vols[g], g \in store.groups) /\ RemoveOk(op[n], member[g], store.vols[g])
    BY <1>1, Zenon DEF GroupSlotOk
  <2>2. Has(member[g]) \ op[n].todo = store.vols[g] \ op[n].vols
    BY <2>1, <1>3, Zenon DEF RemoveOk
  <2>3. Has(member[g]) = store.vols[g] \ op[n].vols
    BY <2>2, <1>3, Zenon
  <2>4. good => V = Has(member[g])
    BY <2>3, Zenon
  <2>5. UpdateOk(op'[n], cg'[g], member'[g], store'.vols[g], g \in store'.groups)
    BY <2>1, <2>4, <1>2, <1>3, <1>4, <1>5, Zenon DEF UpdateOk
  <2>6. RemoveOk(op'[n], member'[g], store'.vols[g])
    BY <1>2, <1>3, Zenon DEF RemoveOk
  <2> QED
    BY <2>5, <2>6, Zenon
<1>11. GroupSlotOk(op'[n], cg'[g], member'[g], store'.vols[g], g \in store'.groups)
  BY <1>2, <1>6, <1>7, <1>8, <1>9, <1>10, Zenon DEF GroupSlotOk, Kept
<1>12. cg[g].status \in {"processing", "deleting", "updating"}
  BY <1>1, <1>3, Zenon DEF GroupSlotOk, CreateOk, DeleteOk, UpdateOk, GroupKinds
<1>13. Group(g)'
  BY <1>1, <1>4, <1>12, Zenon DEF Group, GroupOk
<1>14. OnlyGroup(g) /\ (Serving(n)' => Serving(n))
  BY <1>2, <1>4, Zenon DEF OnlyGroup, Serving, StoreGroup
<1> QED
  BY <1>1, <1>2, <1>4, <1>5, <1>11, <1>13, <1>14, GoesOn, Zenon

LEMMA ScriptCreateGoesOn ==
  ASSUME GroupInv, NEW n \in Slots, NEW g \in Groups, g = op[n].g, ScriptCreate(n)
  PROVE  op[n].kind \in GroupKinds /\ GroupStep(n, g)
<1>1. PICK good \in BOOLEAN : ScriptCreate(n)!(good)
  BY Zenon DEF ScriptCreate
<1>2. /\ op[n].kind = "create" /\ op[n].kind \in GroupKinds /\ op[n].job = "sent" /\ Answer(n, good)
      /\ UNCHANGED <<cg, member, snap, vol>>
  BY <1>1, Zenon DEF GroupKinds, InStore
<1>3. op[n] \in OpRows /\ store \in StoreRows
  BY <1>2, Known, Zenon
<1>4. CASE good
  <2> DEFINE G == store.groups \cup {g}
             V == op[n].vols
  <2>1. G \in SUBSET Groups /\ V \in SUBSET Volumes /\ (g \in G) \in BOOLEAN
    BY <1>3, Zenon DEF OpRows, StoreRows
  <2>2. store' = [store EXCEPT !.groups = G, !.vols = [store.vols EXCEPT ![g] = V]]
    BY <1>1, <1>3, <1>4, Zenon DEF StoreRows
  <2>3. StoreGroup(g, g \in G, V)
    BY <1>3, <2>1, <2>2, StoreRow, Zenon
  <2> QED
    BY <1>2, <1>4, <2>1, <2>3, ScriptGoesOn, Zenon
<1>5. CASE ~good
  <2>1. StoreGroup(g, g \in store.groups, store.vols[g])
    BY <1>1, <1>3, <1>5, StoreKept, Zenon
  <2>2. store.vols[g] \in SUBSET Volumes /\ (g \in store.groups) \in BOOLEAN
    BY <1>3 DEF StoreRows
  <2> QED
    BY <1>2, <1>5, <2>1, <2>2, ScriptGoesOn, Zenon
<1> QED
  BY <1>4, <1>5, Zenon

LEMMA ScriptDeleteGoesOn ==
  ASSUME GroupInv, NEW n \in Slots, NEW g \in Groups, g = op[n].g, ScriptDelete(n)
  PROVE  op[n].kind \in GroupKinds /\ GroupStep(n, g)
<1>1. PICK good \in BOOLEAN : ScriptDelete(n)!(good)
  BY Zenon DEF ScriptDelete
<1>2. /\ op[n].kind = "delete" /\ op[n].kind \in GroupKinds /\ op[n].job = "sent" /\ Answer(n, good)
      /\ UNCHANGED <<cg, member, snap, vol>>
  BY <1>1, Zenon DEF GroupKinds, InStore
<1>3. op[n] \in OpRows /\ store \in StoreRows
  BY <1>2, Known, Zenon
<1>4. CASE good
  <2> DEFINE G == store.groups \ {g}
             V == {}
  <2>1. G \in SUBSET Groups /\ V \in SUBSET Volumes /\ (g \in G) \in BOOLEAN
    BY <1>3 DEF OpRows, StoreRows
  <2>2. store' = [store EXCEPT !.groups = G, !.vols = [store.vols EXCEPT ![g] = V]]
    BY <1>1, <1>3, <1>4, Zenon DEF StoreRows
  <2>3. StoreGroup(g, g \in G, V)
    BY <1>3, <2>1, <2>2, StoreRow, Zenon
  <2> QED
    BY <1>2, <1>4, <2>1, <2>3, ScriptGoesOn, ZenonT(60)
<1>5. CASE ~good
  <2>1. StoreGroup(g, g \in store.groups, store.vols[g])
    BY <1>1, <1>3, <1>5, StoreKept, Zenon
  <2>2. store.vols[g] \in SUBSET Volumes /\ (g \in store.groups) \in BOOLEAN
    BY <1>3 DEF StoreRows
  <2> QED
    BY <1>2, <1>5, <2>1, <2>2, ScriptGoesOn, Zenon
<1> QED
  BY <1>4, <1>5, Zenon

LEMMA ScriptAddVolumesGoesOn ==
  ASSUME GroupInv, NEW n \in Slots, NEW g \in Groups, g = op[n].g, ScriptAddVolumes(n)
  PROVE  op[n].kind \in GroupKinds /\ GroupStep(n, g)
<1>1. PICK good \in BOOLEAN : ScriptAddVolumes(n)!(good)
  BY Zenon DEF ScriptAddVolumes
<1>2. /\ op[n].kind = "add" /\ op[n].kind \in GroupKinds /\ op[n].job = "sent" /\ Answer(n, good)
      /\ UNCHANGED <<cg, member, snap, vol>>
  BY <1>1, Zenon DEF GroupKinds, InStore
<1>3. op[n] \in OpRows /\ store \in StoreRows
  BY <1>2, Known, Zenon
<1>4. CASE good
  <2> DEFINE G == store.groups
             V == store.vols[g] \cup op[n].vols
  <2>1. G \in SUBSET Groups /\ V \in SUBSET Volumes /\ (g \in G) \in BOOLEAN
    BY <1>3 DEF OpRows, StoreRows
  <2>2. store' = [store EXCEPT !.groups = G, !.vols = [store.vols EXCEPT ![g] = V]]
    BY <1>1, <1>3, <1>4, Zenon DEF StoreRows
  <2>3. StoreGroup(g, g \in G, V)
    BY <1>3, <2>1, <2>2, StoreRow, Zenon
  <2> QED
    BY <1>2, <1>4, <2>1, <2>3, ScriptGoesOn, Zenon
<1>5. CASE ~good
  <2>1. StoreGroup(g, g \in store.groups, store.vols[g])
    BY <1>1, <1>3, <1>5, StoreKept, Zenon
  <2>2. store.vols[g] \in SUBSET Volumes /\ (g \in store.groups) \in BOOLEAN
    BY <1>3 DEF StoreRows
  <2> QED
    BY <1>2, <1>5, <2>1, <2>2, ScriptGoesOn, Zenon
<1> QED
  BY <1>4, <1>5, Zenon

LEMMA ScriptRemoveVolumesGoesOn ==
  ASSUME GroupInv, NEW n \in Slots, NEW g \in Groups, g = op[n].g, ScriptRemoveVolumes(n)
  PROVE  op[n].kind \in GroupKinds /\ GroupStep(n, g)
<1>1. PICK good \in BOOLEAN : ScriptRemoveVolumes(n)!(good)
  BY Zenon DEF ScriptRemoveVolumes
<1>2. /\ op[n].kind = "remove" /\ op[n].kind \in GroupKinds /\ op[n].job = "sent" /\ Answer(n, good)
      /\ UNCHANGED <<cg, member, snap, vol>>
  BY <1>1, Zenon DEF GroupKinds, InStore
<1>3. op[n] \in OpRows /\ store \in StoreRows
  BY <1>2, Known, Zenon
<1>4. CASE good
  <2> DEFINE G == store.groups
             V == store.vols[g] \ op[n].vols
  <2>1. G \in SUBSET Groups /\ V \in SUBSET Volumes /\ (g \in G) \in BOOLEAN
    BY <1>3 DEF OpRows, StoreRows
  <2>2. store' = [store EXCEPT !.groups = G, !.vols = [store.vols EXCEPT ![g] = V]]
    BY <1>1, <1>3, <1>4, Zenon DEF StoreRows
  <2>3. StoreGroup(g, g \in G, V)
    BY <1>3, <2>1, <2>2, StoreRow, Zenon
  <2> QED
    BY <1>2, <1>4, <2>1, <2>3, ScriptGoesOn, Zenon
<1>5. CASE ~good
  <2>1. StoreGroup(g, g \in store.groups, store.vols[g])
    BY <1>1, <1>3, <1>5, StoreKept, Zenon
  <2>2. store.vols[g] \in SUBSET Volumes /\ (g \in store.groups) \in BOOLEAN
    BY <1>3 DEF StoreRows
  <2> QED
    BY <1>2, <1>5, <2>1, <2>2, ScriptGoesOn, Zenon
<1> QED
  BY <1>4, <1>5, Zenon
-----------------------------------------------------------------------------
(* The callbacks of a group. *)
LEMMA CallbackGoesOn ==
  ASSUME GroupInv, NEW n \in Slots, NEW g \in Groups, g = op[n].g, op[n].kind \in GroupKinds,
         NEW K, Callback(n, K), snap' = snap, vol' = vol,
         cg' \in [Groups -> CgRows], \A h \in Groups : h # g => cg'[h] = cg[h],
         member' \in [Groups -> [Volumes -> Nat]], \A h \in Groups : h # g => member'[h] = member[h],
         GroupOk(cg'[g], member'[g], store.vols[g], g \in store.groups)
  PROVE  GroupStep(n, g)
<1>1. /\ op[n] \in OpRows /\ store \in StoreRows
      /\ cg \in [Groups -> CgRows] /\ member \in [Groups -> [Volumes -> Nat]]
      /\ op \in [Slots -> OpRows]
      /\ GroupSlotOk(op[n], cg[g], member[g], store.vols[g], g \in store.groups)
      /\ GroupOk(cg[g], member[g], store.vols[g], g \in store.groups)
  BY Known, Zenon
<1>2. op[n].pc = "done"
  BY <1>1, Zenon DEF Callback, GroupSlotOk, PhaseOk
<1>3. OnlySlot(n) /\ op'[n] = Free /\ store' = store
  BY <1>1, <1>2, CallbackRow, Zenon
<1>4. Gone(op'[n]) /\ ~Serving(n)'
  BY <1>3, FreeRow, Zenon DEF Gone, Serving
<1>5. Group(g)' /\ OnlyGroup(g)
  BY <1>3, Zenon DEF Group, OnlyGroup
<1> QED
  BY <1>1, <1>3, <1>4, <1>5, GoesOn, Zenon

LEMMA Replied ==
  ASSUME GroupInv, NEW n \in Slots, NEW g \in Groups, g = op[n].g, op[n].kind \in GroupKinds,
         op[n].job = "replied"
  PROVE  /\ op[n].todo = {} /\ Exists(g) /\ cg[g].status \in {"processing", "deleting", "updating"}
         /\ op[n].kind = "create" /\ op[n].ok => g \in store.groups /\ store.vols[g] = Has(member[g])
         /\ op[n].kind \in {"add", "remove"} /\ op[n].ok =>
              cg[g].wds /\ g \in store.groups /\ store.vols[g] = Has(member[g])
<1>1. /\ op[n] \in OpRows /\ store \in StoreRows
      /\ cg \in [Groups -> CgRows] /\ member \in [Groups -> [Volumes -> Nat]]
      /\ op \in [Slots -> OpRows]
      /\ GroupSlotOk(op[n], cg[g], member[g], store.vols[g], g \in store.groups)
      /\ GroupOk(cg[g], member[g], store.vols[g], g \in store.groups)
  BY Known, Zenon
<1>2. op[n].pc = "done" /\ op[n].todo = {}
  BY <1>1, Zenon DEF GroupSlotOk, PhaseOk
<1>3. cg[g].status \in {"processing", "deleting", "updating"}
  BY <1>1, <1>2, Zenon DEF GroupSlotOk, CreateOk, DeleteOk, UpdateOk, GroupKinds
<1>4. op[n].kind = "create" /\ op[n].ok => g \in store.groups /\ store.vols[g] = Has(member[g])
  <2> HAVE op[n].kind = "create" /\ op[n].ok
  <2>1. Has(member[g]) \cup op[n].todo = op[n].vols /\ g \in store.groups /\ store.vols[g] = op[n].vols
    BY <1>1, <1>2, Zenon DEF GroupSlotOk, CreateOk
  <2> QED
    BY <2>1, <1>2, Zenon
<1>5. op[n].kind \in {"add", "remove"} /\ op[n].ok =>
        cg[g].wds /\ g \in store.groups /\ store.vols[g] = Has(member[g])
  BY <1>1, Zenon DEF GroupSlotOk, UpdateOk
<1> QED
  BY <1>2, <1>3, <1>4, <1>5, Zenon DEF Exists

LEMMA CreateCGWDSGoesOn ==
  ASSUME GroupInv, NEW n \in Slots, NEW g \in Groups, g = op[n].g, CreateCGWDS(n)
  PROVE  op[n].kind \in GroupKinds /\ GroupStep(n, g)
<1>1. Callback(n, {"create"}) /\ UNCHANGED <<member, snap, vol>>
  BY Zenon DEF CreateCGWDS
<1>2. op[n].kind = "create" /\ op[n].kind \in GroupKinds /\ op[n].job = "replied"
  BY <1>1, Zenon DEF Callback, GroupKinds
<1>3. /\ op[n] \in OpRows /\ store \in StoreRows
      /\ cg \in [Groups -> CgRows] /\ member \in [Groups -> [Volumes -> Nat]]
      /\ op \in [Slots -> OpRows]
      /\ GroupSlotOk(op[n], cg[g], member[g], store.vols[g], g \in store.groups)
      /\ GroupOk(cg[g], member[g], store.vols[g], g \in store.groups)
  BY <1>2, Known, Zenon
<1>4. Exists(g) /\ (op[n].ok => g \in store.groups /\ store.vols[g] = Has(member[g]))
  BY <1>2, Replied, Zenon
<1> DEFINE r == [status |-> IF op[n].ok THEN "available" ELSE "error",
                 wds |-> IF op[n].ok THEN TRUE ELSE cg[g].wds]
<1>5. cg' = [cg EXCEPT ![g] = r]
  BY <1>4, Zenon DEF CreateCGWDS
<1>6. /\ r \in CgRows /\ r.status \in {"available", "error"}
      /\ r.status = "available" => op[n].ok /\ r.wds
  <2>1. cg[g] \in CgRows
    BY <1>3, Zenon
  <2> QED
    BY <2>1, Zenon DEF CgRows, CGStatus
<1> HIDE DEF r
<1>7. cg' \in [Groups -> CgRows] /\ cg'[g] = r /\ \A h \in Groups : h # g => cg'[h] = cg[h]
  BY <1>3, <1>5, <1>6, Zenon
<1>8. GroupOk(cg'[g], member'[g], store.vols[g], g \in store.groups)
  BY <1>1, <1>3, <1>4, <1>6, <1>7, Zenon DEF GroupOk
<1> QED
  BY <1>1, <1>2, <1>3, <1>7, <1>8, CallbackGoesOn, Zenon

LEMMA DeleteCGWDSGoesOn ==
  ASSUME GroupInv, NEW n \in Slots, NEW g \in Groups, g = op[n].g, DeleteCGWDS(n)
  PROVE  op[n].kind \in GroupKinds /\ GroupStep(n, g)
<1> DEFINE st == IF op[n].ok THEN "deleted" ELSE "error"
           Z == [v \in Volumes |-> 0]
<1>1. Callback(n, {"delete"}) /\ SetCG(g, st) /\ UNCHANGED <<snap, vol>>
  BY Zenon DEF DeleteCGWDS
<1>2. op[n].kind = "delete" /\ op[n].kind \in GroupKinds /\ op[n].job = "replied"
  BY <1>1, Zenon DEF Callback, GroupKinds
<1>3. /\ op[n] \in OpRows /\ store \in StoreRows
      /\ cg \in [Groups -> CgRows] /\ member \in [Groups -> [Volumes -> Nat]]
      /\ op \in [Slots -> OpRows]
      /\ GroupSlotOk(op[n], cg[g], member[g], store.vols[g], g \in store.groups)
      /\ GroupOk(cg[g], member[g], store.vols[g], g \in store.groups)
  BY <1>2, Known, Zenon
<1>4. Exists(g) /\ st \in {"deleted", "error"}
  BY <1>2, Replied, Zenon
<1>5. member' = member \/ member' = [member EXCEPT ![g] = Z]
  BY Zenon DEF DeleteCGWDS
<1> HIDE DEF st
<1>6. /\ cg' \in [Groups -> CgRows] /\ cg'[g].status = st
      /\ \A h \in Groups : h # g => cg'[h] = cg[h]
  BY <1>1, <1>3, <1>4, SetCGRow, Zenon DEF CGStatus
<1>7. Z \in [Volumes -> Nat] /\ \A v \in Volumes : Z[v] = 0
  BY Zenon
<1> HIDE DEF Z
<1>8. /\ member' \in [Groups -> [Volumes -> Nat]] /\ \A h \in Groups : h # g => member'[h] = member[h]
      /\ member'[g] = member[g] \/ member'[g] = Z
  BY <1>3, <1>5, <1>7, Zenon
<1>9. GroupOk(cg'[g], member'[g], store.vols[g], g \in store.groups)
  BY <1>3, <1>4, <1>6, <1>7, <1>8, Zenon DEF GroupOk
<1> QED
  BY <1>1, <1>2, <1>3, <1>6, <1>8, <1>9, CallbackGoesOn, Zenon

LEMMA AddVolumesToCGWDSGoesOn ==
  ASSUME GroupInv, NEW n \in Slots, NEW g \in Groups, g = op[n].g, AddVolumesToCGWDS(n)
  PROVE  op[n].kind \in GroupKinds /\ GroupStep(n, g)
<1> DEFINE st == IF op[n].ok THEN "available" ELSE "error"
<1>1. Callback(n, {"add"}) /\ SetCG(g, st) /\ UNCHANGED <<member, snap, vol>>
  BY Zenon DEF AddVolumesToCGWDS
<1>2. op[n].kind = "add" /\ op[n].kind \in GroupKinds /\ op[n].job = "replied"
  BY <1>1, Zenon DEF Callback, GroupKinds
<1>3. /\ op[n] \in OpRows /\ store \in StoreRows
      /\ cg \in [Groups -> CgRows] /\ member \in [Groups -> [Volumes -> Nat]]
      /\ op \in [Slots -> OpRows]
      /\ GroupSlotOk(op[n], cg[g], member[g], store.vols[g], g \in store.groups)
      /\ GroupOk(cg[g], member[g], store.vols[g], g \in store.groups)
  BY <1>2, Known, Zenon
<1>4. /\ Exists(g) /\ st \in {"available", "error"}
      /\ st = "available" => cg[g].wds /\ g \in store.groups /\ store.vols[g] = Has(member[g])
  BY <1>2, Replied, Zenon
<1> HIDE DEF st
<1>5. /\ cg' \in [Groups -> CgRows] /\ cg'[g].status = st /\ cg'[g].wds = cg[g].wds
      /\ \A h \in Groups : h # g => cg'[h] = cg[h]
  BY <1>1, <1>3, <1>4, SetCGRow, Zenon DEF CGStatus
<1>6. GroupOk(cg'[g], member'[g], store.vols[g], g \in store.groups)
  BY <1>1, <1>3, <1>4, <1>5, Zenon DEF GroupOk
<1> QED
  BY <1>1, <1>2, <1>3, <1>5, <1>6, CallbackGoesOn, Zenon

LEMMA RemoveVolumesFromCGWDSGoesOn ==
  ASSUME GroupInv, NEW n \in Slots, NEW g \in Groups, g = op[n].g, RemoveVolumesFromCGWDS(n)
  PROVE  op[n].kind \in GroupKinds /\ GroupStep(n, g)
<1> DEFINE st == IF op[n].ok THEN "available" ELSE "error"
<1>1. Callback(n, {"remove"}) /\ SetCG(g, st) /\ UNCHANGED <<member, snap, vol>>
  BY Zenon DEF RemoveVolumesFromCGWDS
<1>2. op[n].kind = "remove" /\ op[n].kind \in GroupKinds /\ op[n].job = "replied"
  BY <1>1, Zenon DEF Callback, GroupKinds
<1>3. /\ op[n] \in OpRows /\ store \in StoreRows
      /\ cg \in [Groups -> CgRows] /\ member \in [Groups -> [Volumes -> Nat]]
      /\ op \in [Slots -> OpRows]
      /\ GroupSlotOk(op[n], cg[g], member[g], store.vols[g], g \in store.groups)
      /\ GroupOk(cg[g], member[g], store.vols[g], g \in store.groups)
  BY <1>2, Known, Zenon
<1>4. /\ Exists(g) /\ st \in {"available", "error"}
      /\ st = "available" => cg[g].wds /\ g \in store.groups /\ store.vols[g] = Has(member[g])
  BY <1>2, Replied, Zenon
<1> HIDE DEF st
<1>5. /\ cg' \in [Groups -> CgRows] /\ cg'[g].status = st /\ cg'[g].wds = cg[g].wds
      /\ \A h \in Groups : h # g => cg'[h] = cg[h]
  BY <1>1, <1>3, <1>4, SetCGRow, Zenon DEF CGStatus
<1>6. GroupOk(cg'[g], member'[g], store.vols[g], g \in store.groups)
  BY <1>1, <1>3, <1>4, <1>5, Zenon DEF GroupOk
<1> QED
  BY <1>1, <1>2, <1>3, <1>5, <1>6, CallbackGoesOn, Zenon
-----------------------------------------------------------------------------
(* Snapshots.  A group that is worked on has none, so a step of its requests  *)
(* leaves them alone.                                                         *)
NoSnaps(g) == \A s \in Snapshots : LiveSnap(s) => snap[s].g # g

LEMMA GroupStepSnaps ==
  ASSUME SnapInv, NEW n \in Slots, NEW g \in Groups, GroupStep(n, g), Alone(n, g),
         \/ op[n].kind \in GroupKinds /\ op[n].g = g
         \/ (\A m \in Slots : ~Serving(m)) /\ NoSnaps(g)
  PROVE  SnapInv'
<1>1. GroupInv'
  BY GroupFrame, Zenon DEF SnapInv
<1>2. \A m \in Slots : m # n => op'[m] = op[m]
  BY Zenon DEF GroupStep, OnlySlot
<1>3. /\ snap' = snap /\ store'.snaps = store.snaps /\ store'.taken = store.taken
      /\ op[n].kind \notin SnapKinds /\ op'[n].kind \notin SnapKinds
      /\ op'[n].kind \in GroupKinds => op'[n].g = g
  BY Zenon DEF GroupStep
<1>4. NoSnaps(g)
  BY Zenon DEF SnapInv, Snap, Unclaimed, NoSnaps
<1>5. \A h \in Groups : h # g => cg'[h] = cg[h] /\ member'[h] = member[h]
  BY Zenon DEF GroupStep, OnlyGroup
<1>6. \A h \in Groups : h # g /\ Unclaimed(h) => Unclaimed(h)'
  BY <1>2, <1>3, Zenon DEF Unclaimed
<1>7. SnapsApart'
  BY <1>2, <1>3, Zenon DEF SnapInv, SnapsApart
<1>8. ASSUME NEW z \in Snapshots PROVE Snap(z)'
  <2>1. Snap(z)
    BY Zenon DEF SnapInv
  <2>2. CASE ~LiveSnap(z)
    BY <2>2, <1>3, Zenon DEF Snap, LiveSnap
  <2>3. CASE LiveSnap(z)
    <3>1. PICK h \in Groups : h = snap[z].g
      BY <2>1, <2>3, Zenon DEF Snap
    <3>2. h # g /\ cg[h].status # "none" /\ Unclaimed(h)
      BY <2>1, <2>3, <3>1, <1>4, Zenon DEF Snap, NoSnaps
    <3>3. cg'[h] = cg[h] /\ member'[h] = member[h] /\ Unclaimed(h)' /\ snap'[z].g = h
      BY <3>1, <3>2, <1>3, <1>5, <1>6, Zenon
    <3>4. snap'[z].g \in Groups /\ cg'[snap'[z].g].status # "none" /\ Unclaimed(snap[z].g)'
      BY <3>2, <3>3, Zenon DEF Unclaimed
    <3> QED
      BY <2>1, <3>1, <3>3, <3>4, <1>3, Zenon DEF Snap
  <2> QED
    BY <2>2, <2>3, Zenon
<1>9. ASSUME NEW m \in Slots, op'[m].kind \in SnapKinds PROVE SnapSlot(m)'
  <2>1. op'[m] = op[m] /\ op[m].kind \in SnapKinds
    BY <1>2, <1>3, <1>9, Zenon
  <2>2. PICK h \in Groups, s \in Snapshots : h = op[m].g /\ s = op[m].s
    BY <2>1, Zenon DEF SnapInv, SnapSlot
  <2>3. /\ op[m].kind = "snap" => Unclaimed(h)
        /\ SnapSlotOk(op[m], cg[h], member[h], snap[s], s \in store.snaps, store.taken[s])
    BY <2>1, <2>2, Zenon DEF SnapInv, SnapSlot
  <2>4. h # g
    <3>1. CASE LiveSnap(s) /\ snap[s].g = h
      BY <3>1, <1>4, Zenon DEF NoSnaps
    <3>2. CASE op[m].kind = "snap" /\ op[m].pc = "row"
      BY <3>2, <2>3, Zenon DEF Unclaimed, Serving
    <3>3. CASE op[m].kind = "snap" /\ op[m].pc # "row"
      BY <3>1, <3>3, <2>2, <2>3, Zenon DEF SnapSlotOk, LiveSnap
    <3>4. CASE op[m].kind \in {"unsnap", "restore"}
      <4>1. snap[s].g = h /\ LiveSnap(s)
        BY <3>4, <2>2, <2>3, Zenon DEF SnapSlotOk, LiveSnap
      <4> QED
        BY <3>1, <4>1, Zenon
    <3> QED
      BY <3>2, <3>3, <3>4, <2>1, Zenon DEF SnapKinds
  <2>5. cg'[h] = cg[h] /\ member'[h] = member[h] /\ (Unclaimed(h) => Unclaimed(h)')
    BY <2>4, <1>5, <1>6, Zenon
  <2>6. op'[m].kind = "snap" => Unclaimed(op[m].g)'
    BY <2>1, <2>2, <2>3, <2>5, Zenon DEF Unclaimed
  <2>7. SnapSlotOk(op'[m], cg'[h], member'[h], snap'[s], s \in store'.snaps, store'.taken[s])
    BY <2>1, <2>3, <2>5, <1>3, Zenon
  <2> QED
    BY <2>1, <2>2, <2>6, <2>7, Zenon DEF SnapSlot
<1>10. \A m \in Slots : SnapSlot(m)'
  BY <1>9, Zenon DEF SnapSlot
<1> QED
  BY <1>1, <1>7, <1>8, <1>10, Zenon DEF SnapInv

(* A step of the request in slot n, on the snapshot s and on no other. *)
OnlySnap(s) == \A z \in Snapshots : z # s =>
  /\ snap'[z] = snap[z] /\ store'.taken[z] = store.taken[z]
  /\ (z \in store'.snaps <=> z \in store.snaps)

GroupsKept == cg' = cg /\ member' = member /\ store'.vols = store.vols /\ store'.groups = store.groups

SnapStep(n, s) ==
  /\ Types' /\ OnlySlot(n) /\ OnlySnap(s) /\ Turn(n) /\ GroupsKept
  /\ op[n].kind \notin GroupKinds /\ op'[n].kind \notin GroupKinds
  /\ op'[n].kind \in SnapKinds => op'[n].s = s
  /\ Snap(s)' /\ SnapSlot(n)'

SnapAlone(n, s) == \A m \in Slots : m # n => ~(op[m].kind \in SnapKinds /\ op[m].s = s)

LEMMA UnclaimedKept ==
  ASSUME NEW n \in Slots, OnlySlot(n), op[n].kind \notin GroupKinds, op'[n].kind \notin GroupKinds,
         NEW h \in Groups
  PROVE  Unclaimed(h)' <=> Unclaimed(h)
BY Zenon DEF OnlySlot, Unclaimed

LEMMA SnapFrame ==
  ASSUME SnapInv, NEW n \in Slots, NEW s \in Snapshots, SnapStep(n, s), SnapAlone(n, s)
  PROVE  SnapInv'
<1>1. \A m \in Slots : m # n => op'[m] = op[m]
  BY Zenon DEF SnapStep, OnlySlot
<1>2. /\ cg' = cg /\ member' = member /\ store'.vols = store.vols /\ store'.groups = store.groups
      /\ op[n].kind \notin GroupKinds /\ op'[n].kind \notin GroupKinds
      /\ op'[n].kind \in SnapKinds => op'[n].s = s
  BY Zenon DEF SnapStep, GroupsKept
<1>3. Types' /\ OneServes'
  BY OneServesFrame, Zenon DEF SnapInv, GroupInv, SnapStep
<1>4. GroupsApart'
  BY <1>1, <1>2, Zenon DEF SnapInv, GroupInv, GroupsApart
<1>5. \A h \in Groups : Group(h)'
  BY <1>2, Zenon DEF SnapInv, GroupInv, Group
<1>6. \A m \in Slots : GroupSlot(m)'
  BY <1>1, <1>2, Zenon DEF SnapInv, GroupInv, GroupSlot
<1>7. \A h \in Groups : Unclaimed(h)' <=> Unclaimed(h)
  BY UnclaimedKept, Zenon DEF SnapStep
<1>8. SnapsApart'
  BY <1>1, <1>2 DEF SnapInv, SnapsApart, SnapAlone
<1>9. ASSUME NEW z \in Snapshots PROVE Snap(z)'
  <2>1. CASE z = s
    BY <2>1, Zenon DEF SnapStep
  <2>2. CASE z # s
    <3>1. Snap(z) /\ snap'[z] = snap[z] /\ store'.taken[z] = store.taken[z]
          /\ (z \in store'.snaps <=> z \in store.snaps)
      BY <2>2, Zenon DEF SnapInv, SnapStep, OnlySnap
    <3>2. CASE ~LiveSnap(z)
      BY <3>1, <3>2, Zenon DEF Snap, LiveSnap
    <3>3. CASE LiveSnap(z)
      <4>1. PICK h \in Groups : h = snap[z].g
        BY <3>1, <3>3, Zenon DEF Snap
      <4>2. cg[h].status # "none" /\ Unclaimed(h)' /\ snap'[z].g = h
        BY <3>1, <3>3, <4>1, <1>7, Zenon DEF Snap
      <4>3. snap'[z].g \in Groups /\ cg'[snap'[z].g].status # "none" /\ Unclaimed(snap[z].g)'
        BY <4>2, <1>2, Zenon DEF Unclaimed
      <4> QED
        BY <3>1, <4>3, <1>2, Zenon DEF Snap
    <3> QED
      BY <3>2, <3>3, Zenon
  <2> QED
    BY <2>1, <2>2, Zenon
<1>10. ASSUME NEW m \in Slots, op'[m].kind \in SnapKinds PROVE SnapSlot(m)'
  <2>1. CASE m = n
    BY <2>1, Zenon DEF SnapStep
  <2>2. CASE m # n
    <3>1. op'[m] = op[m] /\ op[m].kind \in SnapKinds
      BY <1>1, <1>10, <2>2, Zenon
    <3>2. PICK h \in Groups, z \in Snapshots : h = op[m].g /\ z = op[m].s
      BY <3>1, Zenon DEF SnapInv, SnapSlot
    <3>3. /\ op[m].kind = "snap" => Unclaimed(h)
          /\ SnapSlotOk(op[m], cg[h], member[h], snap[z], z \in store.snaps, store.taken[z])
      BY <3>1, <3>2, Zenon DEF SnapInv, SnapSlot
    <3>4. z # s
      BY <2>2, <3>1, <3>2, Zenon DEF SnapAlone
    <3>5. snap'[z] = snap[z] /\ store'.taken[z] = store.taken[z] /\ (z \in store'.snaps <=> z \in store.snaps)
      BY <3>4, Zenon DEF SnapStep, OnlySnap
    <3>6. op'[m].kind = "snap" => Unclaimed(op[m].g)'
      BY <3>1, <3>2, <3>3, <1>7 DEF Unclaimed
    <3>7. SnapSlotOk(op'[m], cg'[h], member'[h], snap'[z], z \in store'.snaps, store'.taken[z])
      BY <3>1, <3>3, <3>5, <1>2 DEF SnapSlotOk
    <3> QED
      BY <3>1, <3>2, <3>6, <3>7, Zenon DEF SnapSlot
  <2> QED
    BY <2>1, <2>2, Zenon
<1>11. \A m \in Slots : SnapSlot(m)'
  BY <1>10, Zenon DEF SnapSlot
<1>12. GroupInv'
  BY <1>3, <1>4, <1>5, <1>6, Zenon DEF GroupInv
<1> QED
  BY <1>8, <1>9, <1>11, <1>12, Zenon DEF SnapInv
-----------------------------------------------------------------------------
(* The requests for a snapshot start. *)
LEMMA SnapAtRest ==
  ASSUME SnapInv, \A m \in Slots : ~Serving(m), NEW s \in Snapshots,
         snap[s].status \notin {"pending", "deleting", "restoring"}
  PROVE  \A m \in Slots : ~(op[m].kind \in SnapKinds /\ op[m].s = s)
<1> SUFFICES ASSUME NEW m \in Slots, op[m].kind \in SnapKinds, op[m].s = s PROVE FALSE
  BY Zenon
<1>1. op[m].pc = "done"
  BY Zenon DEF Serving
<1>2. PICK h \in Groups : SnapSlotOk(op[m], cg[h], member[h], snap[s], s \in store.snaps, store.taken[s])
  BY Zenon DEF SnapInv, SnapSlot
<1> QED
  BY <1>1, <1>2, Zenon DEF SnapSlotOk, SnapKinds

LEMMA SnapStarts ==
  ASSUME SnapInv, "overlap" \notin Faults, NEW n \in Slots, NEW g \in Groups, NEW s \in Snapshots,
         NEW r \in OpRows, Begin(n, r), UNCHANGED <<cg, member, snap, vol, store>>,
         snap[s].status \notin {"pending", "deleting", "restoring"},
         r.kind \in SnapKinds, r.g = g, r.s = s, r.kind = "snap" => Unclaimed(g),
         SnapSlotOk(r, cg[g], member[g], snap[s], s \in store.snaps, store.taken[s])
  PROVE  SnapInv'
<1>1. Types /\ op \in [Slots -> OpRows] /\ Snap(s)
  BY Zenon DEF SnapInv, GroupInv, Types
<1>2. OnlySlot(n) /\ op'[n] = r /\ op[n] = Free /\ \A m \in Slots : ~Serving(m)
  BY <1>1, BeginRow, Zenon
<1>3. Types' /\ Turn(n) /\ OnlySnap(s) /\ GroupsKept
  BY <1>1, <1>2, Zenon DEF Types, OnlySlot, Turn, OnlySnap, GroupsKept
<1>4. SnapAlone(n, s)
  BY <1>2, SnapAtRest, Zenon DEF SnapAlone
<1>5. op[n].kind \notin GroupKinds /\ op'[n].kind \notin GroupKinds
  BY <1>2, FreeRow, Zenon DEF Gone, GroupKinds, SnapKinds
<1>6. \A h \in Groups : Unclaimed(h)' <=> Unclaimed(h)
  BY <1>2, <1>5, UnclaimedKept, Zenon
<1>7. Snap(s)'
  <2>1. CASE ~LiveSnap(s)
    BY <1>1, <2>1, Zenon DEF Snap, LiveSnap
  <2>2. CASE LiveSnap(s)
    <3>1. PICK h \in Groups : h = snap[s].g
      BY <1>1, <2>2, Zenon DEF Snap
    <3>2. Unclaimed(snap[s].g)'
      BY <1>1, <1>6, <2>2, <3>1, Zenon DEF Snap, Unclaimed
    <3> QED
      BY <1>1, <2>2, <3>2, Zenon DEF Snap, LiveSnap
  <2> QED
    BY <2>1, <2>2, Zenon
<1>8. SnapSlot(n)'
  <2>1. op'[n].kind = "snap" => Unclaimed(op[n].g)'
    BY <1>2, <1>6, Zenon DEF Unclaimed
  <2>2. op'[n].g = g /\ op'[n].s = s
    BY <1>2, Zenon
  <2>3. SnapSlotOk(op'[n], cg'[g], member'[g], snap'[s], s \in store'.snaps, store'.taken[s])
    BY <1>2, Zenon
  <2> QED
    BY <2>1, <2>2, <2>3, Zenon DEF SnapSlot
<1>9. SnapStep(n, s)
  BY <1>2, <1>3, <1>5, <1>7, <1>8, Zenon DEF SnapStep
<1> QED
  BY <1>4, <1>9, SnapFrame, Zenon

LEMMA MembersHas == \A g \in Groups : Members(g) = Has(member[g])
BY Zenon DEF Members, Has

LEMMA CreateSnapshotStarts ==
  ASSUME SnapInv, "overlap" \notin Faults, NEW n \in Slots, NEW g \in Groups, NEW s \in Snapshots,
         CreateSnapshot(n, g, s)
  PROVE  SnapInv'
<1> DEFINE r == [Free EXCEPT !.kind = "snap", !.g = g, !.s = s, !.vols = Members(g),
                             !.wds = cg[g].wds, !.pc = "row"]
<1>0. cg[g] \in CgRows /\ op \in [Slots -> OpRows] /\ GroupInv
  BY Zenon DEF SnapInv, GroupInv, Types
<1>1. /\ r \in OpRows /\ r.kind = "snap" /\ r.g = g /\ r.s = s /\ r.vols = Has(member[g]) /\ r.pc = "row"
      /\ r.todo = {} /\ r.job = "none"
  BY <1>0, MembersHas, Zenon DEF Free, OpRows, Kinds, CgRows, Members
<1>2. /\ cg[g].status = "available" /\ snap[s].status = "none" /\ Begin(n, r)
      /\ UNCHANGED <<cg, member, snap, vol, store>>
  BY Zenon DEF CreateSnapshot, CanUpdate
<1> HIDE DEF r
<1>3. Unclaimed(g)
  BY <1>0, <1>1, <1>2, BeginRow, AtRest, Zenon
<1>4. SnapSlotOk(r, cg[g], member[g], snap[s], s \in store.snaps, store.taken[s])
  BY <1>1, <1>2, Zenon DEF SnapSlotOk, PhaseOk
<1> QED
  BY <1>1, <1>2, <1>3, <1>4, SnapStarts, Zenon DEF SnapKinds

LEMMA RestoreSnapshotStarts ==
  ASSUME SnapInv, "overlap" \notin Faults, NEW n \in Slots, NEW g \in Groups, NEW s \in Snapshots,
         RestoreSnapshot(n, g, s)
  PROVE  SnapInv'
<1> DEFINE a == {v \in Members(g) : vol[v].inst # None}
           w == cg[g].wds /\ snap[s].wds
           r == [Free EXCEPT !.kind = "restore", !.g = g, !.s = s, !.vols = Members(g),
                             !.attached = a, !.wds = w, !.pc = "row"]
<1>1. a \in SUBSET Volumes /\ w \in BOOLEAN /\ Members(g) \in SUBSET Volumes
  BY Zenon DEF Members
<1>2. Begin(n, r) /\ UNCHANGED <<cg, member, snap, vol, store>>
  BY Zenon DEF RestoreSnapshot
<1>3. snap[s].status = "available" /\ snap[s].g = g
  BY Zenon DEF RestoreSnapshot, CanRestore, SnapshotsOf
<1> HIDE DEF a, w
<1>4. /\ r \in OpRows /\ r.kind = "restore" /\ r.g = g /\ r.s = s /\ r.vols = Has(member[g]) /\ r.pc = "row"
      /\ r.todo = {} /\ r.job = "none"
  BY <1>1, MembersHas, Zenon DEF Free, OpRows, Kinds
<1> HIDE DEF r
<1>5. SnapSlotOk(r, cg[g], member[g], snap[s], s \in store.snaps, store.taken[s])
  BY <1>3, <1>4, Zenon DEF SnapSlotOk, PhaseOk
<1> QED
  BY <1>2, <1>3, <1>4, <1>5, SnapStarts, Zenon DEF SnapKinds

(* The row of the snapshot s gets the status st. *)
SnapRow(s, st) ==
  /\ snap' \in [Snapshots -> SnapRows] /\ snap'[s].status = st /\ snap'[s].g = snap[s].g
  /\ \A z \in Snapshots : z # s => snap'[z] = snap[z]

LEMMA SnapRowStatus ==
  ASSUME snap \in [Snapshots -> SnapRows], NEW s \in Snapshots, NEW st \in SnapStatus,
         snap' = [snap EXCEPT ![s].status = st]
  PROVE  SnapRow(s, st)
<1> DEFINE r == [snap[s] EXCEPT !.status = st]
<1>1. r \in SnapRows /\ r.status = st /\ r.g = snap[s].g
  <2>1. snap[s] \in SnapRows
    BY Zenon
  <2> QED
    BY <2>1, Zenon DEF SnapRows
<1>2. snap' = [snap EXCEPT ![s] = r]
  BY Zenon
<1> HIDE DEF r
<1> QED
  BY <1>1, <1>2, Zenon DEF SnapRow

LEMMA SnapRowTask ==
  ASSUME snap \in [Snapshots -> SnapRows], NEW s \in Snapshots, NEW st \in SnapStatus,
         NEW u \in Tasks \cup {None}, snap' = [snap EXCEPT ![s].status = st, ![s].t = u]
  PROVE  SnapRow(s, st)
<1> DEFINE r == [snap[s] EXCEPT !.status = st]
           S == [snap EXCEPT ![s] = r]
           q == [S[s] EXCEPT !.t = u]
<1>1. r \in SnapRows /\ r.status = st /\ r.g = snap[s].g
  <2>1. snap[s] \in SnapRows
    BY Zenon
  <2> QED
    BY <2>1, Zenon DEF SnapRows
<1>2. snap' = [S EXCEPT ![s] = q]
  BY Zenon
<1> HIDE DEF r
<1>3. S \in [Snapshots -> SnapRows] /\ S[s] = r /\ \A z \in Snapshots : z # s => S[z] = snap[z]
  BY <1>1, Zenon
<1> HIDE DEF S
<1>4. q \in SnapRows /\ q.status = st /\ q.g = snap[s].g
  BY <1>1, <1>3, Zenon DEF SnapRows
<1> HIDE DEF q
<1> QED
  BY <1>2, <1>3, <1>4, Zenon DEF SnapRow

LEMMA SnapRowWds ==
  ASSUME snap \in [Snapshots -> SnapRows], NEW s \in Snapshots, NEW st \in SnapStatus,
         NEW w \in BOOLEAN, snap' = [snap EXCEPT ![s].status = st, ![s].wds = w]
  PROVE  SnapRow(s, st)
<1> DEFINE r == [snap[s] EXCEPT !.status = st]
           S == [snap EXCEPT ![s] = r]
           q == [S[s] EXCEPT !.wds = w]
<1>1. r \in SnapRows /\ r.status = st /\ r.g = snap[s].g
  <2>1. snap[s] \in SnapRows
    BY Zenon
  <2> QED
    BY <2>1, Zenon DEF SnapRows
<1>2. snap' = [S EXCEPT ![s] = q]
  BY Zenon
<1> HIDE DEF r
<1>3. S \in [Snapshots -> SnapRows] /\ S[s] = r /\ \A z \in Snapshots : z # s => S[z] = snap[z]
  BY <1>1, Zenon
<1> HIDE DEF S
<1>4. q \in SnapRows /\ q.status = st /\ q.g = snap[s].g
  BY <1>1, <1>3, Zenon DEF SnapRows
<1> HIDE DEF q
<1> QED
  BY <1>2, <1>3, <1>4, Zenon DEF SnapRow

(* DeleteSnapshot takes the row of a snapshot without an id away at once. *)
LEMMA DeleteSnapshotStarts ==
  ASSUME SnapInv, "overlap" \notin Faults, NEW n \in Slots, NEW g \in Groups, NEW s \in Snapshots,
         DeleteSnapshot(n, g, s)
  PROVE  SnapInv'
<1>1. /\ MayStart(n) /\ snap[s].g = g /\ snap[s].status \in {"available", "error"}
      /\ UNCHANGED <<cg, member, vol, store>>
  BY Zenon DEF DeleteSnapshot, SnapshotsOf, CanDeleteSnapshot
<1>2. /\ Types /\ op \in [Slots -> OpRows] /\ snap \in [Snapshots -> SnapRows] /\ snap[s] \in SnapRows
      /\ store \in StoreRows
  BY Zenon DEF SnapInv, GroupInv, Types
<1>3. CASE snap[s].status = "error" /\ ~snap[s].wds
  <2>1. snap' = [snap EXCEPT ![s].status = "deleted", ![s].t = None] /\ op' = op
    BY <1>3, Zenon DEF DeleteSnapshot
  <2>2. SnapRow(s, "deleted")
    BY <1>2, <2>1, SnapRowTask, Zenon DEF SnapStatus
  <2>3. op[n] = Free /\ \A m \in Slots : ~Serving(m)
    BY <1>1, Zenon DEF MayStart
  <2>4. Types' /\ OnlySlot(n) /\ Turn(n) /\ OnlySnap(s) /\ GroupsKept
    BY <1>1, <1>2, <2>1, <2>2, <2>3, Zenon DEF Types, OnlySlot, Turn, Serving, OnlySnap, GroupsKept, SnapRow
  <2>5. op'[n].kind \notin GroupKinds /\ op'[n].kind \notin SnapKinds /\ op[n].kind \notin GroupKinds
    BY <2>1, <2>3, FreeRow, Zenon DEF Gone, GroupKinds, SnapKinds
  <2>6. Snap(s)' /\ SnapSlot(n)'
    BY <2>2, <2>5, Zenon DEF SnapRow, Snap, LiveSnap, SnapSlot
  <2>7. SnapAlone(n, s)
    BY <1>1, <2>3, SnapAtRest, Zenon DEF SnapAlone
  <2>8. SnapStep(n, s)
    BY <2>4, <2>5, <2>6, Zenon DEF SnapStep
  <2> QED
    BY <2>7, <2>8, SnapFrame, Zenon
<1>4. CASE ~(snap[s].status = "error" /\ ~snap[s].wds)
  <2> DEFINE r == [Free EXCEPT !.kind = "unsnap", !.g = g, !.s = s, !.wds = snap[s].wds, !.pc = "row"]
  <2>1. op' = [op EXCEPT ![n] = r] /\ snap' = snap
    BY <1>4, Zenon DEF DeleteSnapshot
  <2>2. /\ r \in OpRows /\ r.kind = "unsnap" /\ r.g = g /\ r.s = s /\ r.pc = "row" /\ r.todo = {}
        /\ r.job = "none"
    BY <1>2, Zenon DEF Free, OpRows, Kinds, SnapRows
  <2> HIDE DEF r
  <2>3. Begin(n, r)
    BY <1>1, <2>1, Zenon DEF Begin
  <2>4. SnapSlotOk(r, cg[g], member[g], snap[s], s \in store.snaps, store.taken[s])
    BY <1>1, <2>2, Zenon DEF SnapSlotOk, PhaseOk
  <2> QED
    BY <1>1, <2>1, <2>2, <2>3, <2>4, SnapStarts, Zenon DEF SnapKinds
<1> QED
  BY <1>3, <1>4, Zenon
-----------------------------------------------------------------------------
(* The requests for a snapshot go on.  What is known of one: *)
VolRows == [status : VolumeStatus, inst : Instances \cup {None}]

LEMMA SnapTypes ==
  ASSUME SnapInv
  PROVE  /\ Types /\ op \in [Slots -> OpRows] /\ snap \in [Snapshots -> SnapRows]
         /\ store \in StoreRows /\ vol \in [Volumes -> VolRows]
BY Zenon DEF SnapInv, GroupInv, Types, VolRows

LEMMA SnapKnown ==
  ASSUME SnapInv, NEW n \in Slots, NEW g \in Groups, g = op[n].g, NEW s \in Snapshots, s = op[n].s,
         op[n].kind \in SnapKinds
  PROVE  /\ SnapSlotOk(op[n], cg[g], member[g], snap[s], s \in store.snaps, store.taken[s])
         /\ cg[g].status # "none" /\ Unclaimed(g)
         /\ op[n].pc # "row" => LiveSnap(s)
         /\ op[n].pc # "row" \/ op[n].kind # "snap" => snap[s].g = g
         /\ snap[s].status \in {"available", "restoring"} /\ snap[s].g = g =>
              s \in store.snaps /\ store.taken[s] = Has(member[g])
<1>1. SnapSlotOk(op[n], cg[g], member[g], snap[s], s \in store.snaps, store.taken[s])
  BY Zenon DEF SnapInv, SnapSlot
<1>2. Snap(s)
  BY Zenon DEF SnapInv
<1>3. snap[s].status \in {"available", "restoring"} /\ snap[s].g = g =>
        s \in store.snaps /\ store.taken[s] = Has(member[g])
  BY <1>2, Zenon DEF Snap
<1>4. CASE op[n].kind = "snap" /\ op[n].pc = "row"
  BY <1>1, <1>3, <1>4, Zenon DEF SnapSlotOk, SnapInv, SnapSlot
<1>5. CASE ~(op[n].kind = "snap" /\ op[n].pc = "row")
  <2>1. snap[s].g = g /\ LiveSnap(s)
    BY <1>1, <1>5, Zenon DEF SnapSlotOk, LiveSnap, SnapKinds
  <2>2. cg[g].status # "none" /\ Unclaimed(g)
    BY <1>2, <2>1, Zenon DEF Snap
  <2> QED
    BY <1>1, <1>3, <2>1, <2>2, Zenon
<1> QED
  BY <1>4, <1>5, Zenon

LEMMA SnapGoesOn ==
  ASSUME SnapInv, NEW n \in Slots, NEW g \in Groups, g = op[n].g, NEW s \in Snapshots, s = op[n].s,
         op[n].kind \in SnapKinds, OnlySlot(n), OnlySnap(s), GroupsKept, Serving(n)' => Serving(n),
         snap' \in [Snapshots -> SnapRows], vol' \in [Volumes -> VolRows], store' \in StoreRows,
         snap'[s].status \notin {"none", "deleted"} => snap'[s].g = g,
         snap'[s].status \in {"available", "restoring"} =>
           s \in store'.snaps /\ store'.taken[s] = Has(member[g]),
         \/ Gone(op'[n])
         \/ /\ Kept(n)
            /\ SnapSlotOk(op'[n], cg[g], member[g], snap'[s], s \in store'.snaps, store'.taken[s])
  PROVE  SnapInv'
<1>1. cg[g].status # "none" /\ Unclaimed(g)
  BY SnapKnown, Zenon
<1>2. cg' = cg /\ member' = member
  BY Zenon DEF GroupsKept
<1>3. Types'
  BY <1>2, Zenon DEF SnapInv, GroupInv, Types, OnlySlot, VolRows
<1>4. /\ op[n].kind \notin GroupKinds /\ op'[n].kind \notin GroupKinds
      /\ op'[n].kind \in SnapKinds => op'[n].s = s /\ op'[n].g = g
  BY Zenon DEF Gone, Kept, GroupKinds, SnapKinds
<1>5. Unclaimed(g)'
  BY <1>1, <1>4, UnclaimedKept, Zenon
<1>6. Snap(s)'
  <2>1. snap'[s].status \notin {"none", "deleted"} =>
          snap'[s].g \in Groups /\ cg'[snap'[s].g].status # "none" /\ Unclaimed(snap[s].g)'
    BY <1>1, <1>2, <1>5, Zenon DEF Unclaimed
  <2>2. snap'[s].status \in {"available", "restoring"} =>
          s \in store'.snaps /\ store'.taken[s] = Has(member'[snap'[s].g])
    BY <1>2, Zenon
  <2> QED
    BY <2>1, <2>2, Zenon DEF Snap, LiveSnap
<1>7. SnapSlot(n)'
  <2>1. op'[n].kind \in SnapKinds => Unclaimed(op[n].g)'
    BY <1>4, <1>5, Zenon DEF Unclaimed
  <2>2. op'[n].kind \in SnapKinds =>
          SnapSlotOk(op'[n], cg'[g], member'[g], snap'[s], s \in store'.snaps, store'.taken[s])
    BY <1>2, Zenon DEF Gone, SnapKinds
  <2> QED
    BY <2>1, <2>2, <1>4, Zenon DEF SnapSlot, SnapKinds
<1>8. SnapAlone(n, s)
  BY Zenon DEF SnapInv, SnapsApart, SnapAlone
<1>9. SnapStep(n, s)
  BY <1>3, <1>4, <1>6, <1>7, Zenon DEF SnapStep, Turn
<1> QED
  BY <1>8, <1>9, SnapFrame, Zenon

(* The first write. *)
LEMMA WriteCreateSnapshotGoesOn ==
  ASSUME SnapInv, NEW n \in Slots, NEW g \in Groups, g = op[n].g, NEW s \in Snapshots, s = op[n].s,
         WriteCreateSnapshot(n)
  PROVE  op[n].kind \in SnapKinds /\ SnapInv'
<1> DEFINE row(t) == [status |-> "pending", g |-> g, wds |-> FALSE, t |-> t]
<1>1. PICK t \in Tasks : /\ At(n, "snap", "row") /\ snap' = [snap EXCEPT ![s] = row(t)]
                         /\ Wrote(n, t) /\ UNCHANGED <<cg, member, vol, store>>
  BY Zenon DEF WriteCreateSnapshot
<1>2. op[n].kind = "snap" /\ op[n].pc = "row" /\ op[n].kind \in SnapKinds
  BY <1>1, Zenon DEF At, SnapKinds
<1>3. SnapSlotOk(op[n], cg[g], member[g], snap[s], s \in store.snaps, store.taken[s])
  BY <1>2, SnapKnown, Zenon
<1>4. /\ OnlySlot(n) /\ Kept(n)
      /\ op'[n].todo = op[n].vols /\ op'[n].job = op[n].job /\ op'[n].ok = op[n].ok
      /\ op[n].vols = {} => op'[n].pc = "send"
      /\ op[n].vols # {} => op'[n].pc = "mark"
  BY <1>1, SnapTypes, WroteRow, Zenon
<1>5. row(t) \in SnapRows /\ row(t).status = "pending" /\ row(t).g = g
  BY Zenon DEF SnapRows, SnapStatus, SnapBusy
<1> HIDE DEF row
<1>6. /\ snap' \in [Snapshots -> SnapRows] /\ snap'[s].status = "pending" /\ snap'[s].g = g
      /\ \A z \in Snapshots : z # s => snap'[z] = snap[z]
  BY <1>1, <1>5, SnapTypes, Zenon
<1>7. OnlySnap(s) /\ GroupsKept /\ (Serving(n)' => Serving(n)) /\ store' = store /\ vol' = vol
  BY <1>1, <1>2, <1>6, Zenon DEF OnlySnap, GroupsKept, Serving
<1>8. op'[n].pc \in {"mark", "send"} /\ op[n].job = "none"
  BY <1>2, <1>3, <1>4, Zenon DEF SnapSlotOk, PhaseOk
<1>9. SnapSlotOk(op'[n], cg[g], member[g], snap'[s], s \in store'.snaps, store'.taken[s])
  BY <1>2, <1>3, <1>4, <1>6, <1>8, Zenon DEF SnapSlotOk, PhaseOk, Kept
<1> QED
  BY <1>2, <1>4, <1>6, <1>7, <1>9, SnapTypes, SnapGoesOn, Zenon

LEMMA WriteDeleteSnapshotGoesOn ==
  ASSUME SnapInv, NEW n \in Slots, NEW g \in Groups, g = op[n].g, NEW s \in Snapshots, s = op[n].s,
         WriteDeleteSnapshot(n)
  PROVE  op[n].kind \in SnapKinds /\ SnapInv'
<1>1. PICK t \in Tasks : /\ At(n, "unsnap", "row") /\ SetSnapshot(s, "deleting", t)
                         /\ Wrote(n, t) /\ UNCHANGED <<cg, member, vol, store>>
  BY Zenon DEF WriteDeleteSnapshot
<1>2. op[n].kind = "unsnap" /\ op[n].pc = "row" /\ op[n].kind \in SnapKinds
  BY <1>1, Zenon DEF At, SnapKinds
<1>3. /\ SnapSlotOk(op[n], cg[g], member[g], snap[s], s \in store.snaps, store.taken[s])
      /\ snap[s].g = g
      /\ snap[s].status \in {"available", "restoring"} =>
           s \in store.snaps /\ store.taken[s] = Has(member[g])
  BY <1>2, SnapKnown, Zenon
<1>4. /\ OnlySlot(n) /\ Kept(n)
      /\ op'[n].todo = op[n].vols /\ op'[n].job = op[n].job /\ op'[n].ok = op[n].ok
      /\ op[n].vols = {} => op'[n].pc = "send"
      /\ op[n].vols # {} => op'[n].pc = "mark"
  BY <1>1, SnapTypes, WroteRow, Zenon
<1>5. snap[s].status \in {"available", "error"} /\ op[n].job = "none"
  BY <1>2, <1>3, Zenon DEF SnapSlotOk, PhaseOk
<1>6. SnapRow(s, "deleting")
  <2>1. snap' = [snap EXCEPT ![s].status = "deleting", ![s].t = t]
    BY <1>1, <1>5, Zenon DEF SetSnapshot
  <2> QED
    BY <2>1, SnapTypes, SnapRowTask, Zenon DEF SnapStatus, SnapBusy
<1>7. /\ snap' \in [Snapshots -> SnapRows] /\ snap'[s].status = "deleting" /\ snap'[s].g = g
      /\ OnlySnap(s) /\ GroupsKept /\ (Serving(n)' => Serving(n)) /\ store' = store /\ vol' = vol
  BY <1>1, <1>2, <1>3, <1>6, Zenon DEF SnapRow, OnlySnap, GroupsKept, Serving
<1>8. op'[n].pc \in {"mark", "send"}
  BY <1>4, Zenon
<1>9. SnapSlotOk(op'[n], cg[g], member[g], snap'[s], s \in store'.snaps, store'.taken[s])
  BY <1>2, <1>3, <1>4, <1>5, <1>7, <1>8, Zenon DEF SnapSlotOk, PhaseOk, Kept
<1> QED
  BY <1>2, <1>3, <1>4, <1>5, <1>7, <1>9, SnapTypes, SnapGoesOn, Zenon

LEMMA WriteRestoreGoesOn ==
  ASSUME SnapInv, NEW n \in Slots, NEW g \in Groups, g = op[n].g, NEW s \in Snapshots, s = op[n].s,
         WriteRestore(n)
  PROVE  op[n].kind \in SnapKinds /\ SnapInv'
<1>1. PICK t \in Tasks : /\ At(n, "restore", "row") /\ SetSnapshot(s, "restoring", t)
                         /\ Wrote(n, t) /\ UNCHANGED <<cg, member, vol, store>>
  BY Zenon DEF WriteRestore
<1>2. op[n].kind = "restore" /\ op[n].pc = "row" /\ op[n].kind \in SnapKinds
  BY <1>1, Zenon DEF At, SnapKinds
<1>3. /\ SnapSlotOk(op[n], cg[g], member[g], snap[s], s \in store.snaps, store.taken[s])
      /\ snap[s].g = g
      /\ snap[s].status \in {"available", "restoring"} =>
           s \in store.snaps /\ store.taken[s] = Has(member[g])
  BY <1>2, SnapKnown, Zenon
<1>4. /\ OnlySlot(n) /\ Kept(n)
      /\ op'[n].todo = op[n].vols /\ op'[n].job = op[n].job /\ op'[n].ok = op[n].ok
      /\ op[n].vols = {} => op'[n].pc = "send"
      /\ op[n].vols # {} => op'[n].pc = "mark"
  BY <1>1, SnapTypes, WroteRow, Zenon
<1>5. snap[s].status \in {"available"} /\ op[n].job = "none"
  BY <1>2, <1>3, Zenon DEF SnapSlotOk, PhaseOk
<1>6. SnapRow(s, "restoring")
  <2>1. snap' = [snap EXCEPT ![s].status = "restoring", ![s].t = t]
    BY <1>1, <1>5, Zenon DEF SetSnapshot
  <2> QED
    BY <2>1, SnapTypes, SnapRowTask, Zenon DEF SnapStatus, SnapBusy
<1>7. /\ snap' \in [Snapshots -> SnapRows] /\ snap'[s].status = "restoring" /\ snap'[s].g = g
      /\ OnlySnap(s) /\ GroupsKept /\ (Serving(n)' => Serving(n)) /\ store' = store /\ vol' = vol
  BY <1>1, <1>2, <1>3, <1>6, Zenon DEF SnapRow, OnlySnap, GroupsKept, Serving
<1>8. op'[n].pc \in {"mark", "send"}
  BY <1>4, Zenon
<1>9. SnapSlotOk(op'[n], cg[g], member[g], snap'[s], s \in store'.snaps, store'.taken[s])
  BY <1>2, <1>3, <1>4, <1>5, <1>7, <1>8, Zenon DEF SnapSlotOk, PhaseOk, Kept
<1> QED
  BY <1>2, <1>3, <1>4, <1>5, <1>7, <1>9, SnapTypes, SnapGoesOn, Zenon

(* The volumes' rows. *)
LEMMA VolRow ==
  ASSUME vol \in [Volumes -> VolRows], NEW v \in Volumes, NEW st \in VolumeStatus,
         vol' = [vol EXCEPT ![v].status = st]
  PROVE  /\ vol' \in [Volumes -> VolRows] /\ vol'[v].status = st
         /\ \A w \in Volumes : w # v => vol'[w] = vol[w]
<1> DEFINE r == [vol[v] EXCEPT !.status = st]
<1>1. r \in VolRows /\ r.status = st
  <2>1. vol[v] \in VolRows
    BY Zenon
  <2> QED
    BY <2>1, Zenon DEF VolRows
<1>2. vol' = [vol EXCEPT ![v] = r]
  BY Zenon
<1> HIDE DEF r
<1> QED
  BY <1>1, <1>2, Zenon

LEMMA SetVolumeRow ==
  ASSUME vol \in [Volumes -> VolRows], NEW v \in Volumes, NEW st \in VolumeStatus, SetVolume(v, st)
  PROVE  vol' \in [Volumes -> VolRows] /\ \A w \in Volumes : w # v => vol'[w] = vol[w]
<1>1. vol' = vol \/ vol' = [vol EXCEPT ![v].status = st]
  BY Zenon DEF SetVolume
<1> QED
  BY <1>1, VolRow, Zenon

LEMMA MarkGoesOn ==
  ASSUME SnapInv, NEW n \in Slots, NEW g \in Groups, g = op[n].g, NEW s \in Snapshots, s = op[n].s,
         NEW v \in Volumes, MarkBackuping(n, v) \/ MarkRestoring(n, v)
  PROVE  op[n].kind \in SnapKinds /\ SnapInv'
<1>1. PICK st \in {"backuping", "restoring"}, K \in {{"snap"}, {"restore"}} :
        Marks(n, v, K) /\ SetVolume(v, st) /\ UNCHANGED <<cg, member, snap, store>>
  BY Zenon DEF MarkBackuping, MarkRestoring
<1>2. /\ OnlySlot(n) /\ Kept(n) /\ op[n].kind \in K /\ op[n].pc = "mark" /\ v \in op[n].todo
      /\ op'[n].todo = op[n].todo \ {v} /\ op'[n].job = op[n].job /\ op'[n].ok = op[n].ok
      /\ op[n].todo \ {v} = {} => op'[n].pc = "send"
      /\ op[n].todo \ {v} # {} => op'[n].pc = "mark"
  BY <1>1, SnapTypes, MarksRow, Zenon
<1>3. op[n].kind \in {"snap", "restore"} /\ op[n].kind \in SnapKinds
  BY <1>2, Zenon DEF SnapKinds
<1>4. /\ SnapSlotOk(op[n], cg[g], member[g], snap[s], s \in store.snaps, store.taken[s])
      /\ op[n].pc # "row" => snap[s].g = g
      /\ snap[s].status \in {"available", "restoring"} /\ snap[s].g = g =>
           s \in store.snaps /\ store.taken[s] = Has(member[g])
  BY <1>3, SnapKnown, Zenon
<1>5. vol' \in [Volumes -> VolRows]
  BY <1>1, SnapTypes, SetVolumeRow, Zenon DEF VolumeStatus, VolumeBusy
<1>6. OnlySnap(s) /\ GroupsKept /\ (Serving(n)' => Serving(n)) /\ store' = store /\ snap' = snap
  BY <1>1, <1>2, Zenon DEF OnlySnap, GroupsKept, Serving
<1>7. op'[n].pc \in {"mark", "send"} /\ op[n].job = "none"
  BY <1>2, <1>4, Zenon DEF SnapSlotOk, PhaseOk
<1>8. SnapSlotOk(op'[n], cg[g], member[g], snap'[s], s \in store'.snaps, store'.taken[s])
  BY <1>2, <1>3, <1>4, <1>6, <1>7, Zenon DEF SnapSlotOk, PhaseOk, Kept
<1>9. snap' \in [Snapshots -> SnapRows] /\ store' \in StoreRows /\ snap'[s].g = g
  BY <1>2, <1>4, <1>6, SnapTypes, Zenon
<1> QED
  BY <1>2, <1>3, <1>4, <1>5, <1>6, <1>8, <1>9, SnapGoesOn, Zenon

LEMMA SendSnapshotGoesOn ==
  ASSUME SnapInv, NEW n \in Slots, NEW g \in Groups, g = op[n].g, NEW s \in Snapshots, s = op[n].s,
         SendSnapshot(n)
  PROVE  op[n].kind \in SnapKinds /\ SnapInv'
<1>1. PICK o \in Outcome :
        /\ op[n].kind \in {"snap", "unsnap", "restore"} /\ Sent(n, o) /\ UNCHANGED <<cg, member, vol, store>>
        /\ snap' = IF o = "refused" /\ snap[s].status # "deleted"
                     THEN [snap EXCEPT ![s].status = "error"] ELSE snap
  BY Zenon DEF SendSnapshot
<1>2. op[n].kind \in SnapKinds
  BY <1>1, Zenon DEF SnapKinds
<1>3. /\ SnapSlotOk(op[n], cg[g], member[g], snap[s], s \in store.snaps, store.taken[s])
      /\ op[n].pc # "row" => snap[s].g = g
      /\ snap[s].status \in {"available", "restoring"} /\ snap[s].g = g =>
           s \in store.snaps /\ store.taken[s] = Has(member[g])
  BY <1>2, SnapKnown, Zenon
<1>4. /\ OnlySlot(n) /\ op[n].pc = "send"
      /\ \/ Gone(op'[n])
         \/ /\ Kept(n) /\ op'[n].pc = "done" /\ op'[n].job = "sent"
            /\ op'[n].todo = op[n].todo /\ op'[n].ok = op[n].ok
  BY <1>1, SnapTypes, SentRow, Zenon
<1>5. GroupsKept /\ (Serving(n)' => Serving(n)) /\ store' = store /\ vol' = vol
  BY <1>1, <1>4, Zenon DEF GroupsKept, Serving
<1>6. CASE o = "refused"
  <2>1. Gone(op'[n])
    <3>1. Become(n, Free)
      BY <1>1, <1>6, Zenon DEF Sent
    <3>2. op' = [op EXCEPT ![n] = Free]
      BY <3>1, Zenon DEF Become
    <3> QED
      BY <3>2, SnapTypes, FreeRow, Zenon
  <2>2. snap[s].status # "deleted"
    BY <1>2, <1>4, SnapKnown, Zenon DEF LiveSnap
  <2>3. SnapRow(s, "error")
    BY <1>1, <1>6, <2>2, SnapTypes, SnapRowStatus, Zenon DEF SnapStatus
  <2>4. /\ snap' \in [Snapshots -> SnapRows] /\ snap'[s].status = "error" /\ snap'[s].g = g /\ OnlySnap(s)
    BY <1>3, <1>4, <1>5, <2>3, Zenon DEF SnapRow, OnlySnap
  <2> QED
    BY <1>2, <1>4, <1>5, <2>1, <2>4, SnapTypes, SnapGoesOn, Zenon
<1>7. CASE o # "refused"
  <2>1. snap' = snap /\ OnlySnap(s) /\ snap[s].g = g /\ snap' \in [Snapshots -> SnapRows]
    BY <1>1, <1>3, <1>4, <1>5, <1>7, SnapTypes, Zenon DEF OnlySnap
  <2>2. \/ Gone(op'[n])
        \/ Kept(n) /\ SnapSlotOk(op'[n], cg[g], member[g], snap'[s], s \in store'.snaps, store'.taken[s])
    BY <1>3, <1>4, <1>5, <2>1, Zenon DEF SnapSlotOk, PhaseOk, Kept
  <2> QED
    BY <1>2, <1>3, <1>4, <1>5, <2>1, <2>2, SnapTypes, SnapGoesOn, Zenon
<1> QED
  BY <1>6, <1>7, Zenon
-----------------------------------------------------------------------------
(* The scripts for a snapshot: the storage has it or not, of the volumes T. *)
StoreSnap(s, has, T) ==
  /\ store' \in StoreRows /\ store'.vols = store.vols /\ store'.groups = store.groups
  /\ store'.taken[s] = T /\ (s \in store'.snaps <=> has)
  /\ \A z \in Snapshots : z # s =>
       store'.taken[z] = store.taken[z] /\ (z \in store'.snaps <=> z \in store.snaps)

LEMMA StoreSnapRow ==
  ASSUME store \in StoreRows, NEW s \in Snapshots, NEW S \in SUBSET Snapshots, NEW T \in SUBSET Volumes,
         NEW B \in SUBSET Volumes,
         store' = [store EXCEPT !.snaps = S, !.taken = [store.taken EXCEPT ![s] = T], !.bound = B],
         \A z \in Snapshots : z # s => (z \in S <=> z \in store.snaps)
  PROVE  StoreSnap(s, s \in S, T)
<1> DEFINE W == [store.taken EXCEPT ![s] = T]
<1>1. store.taken \in [Snapshots -> SUBSET Volumes]
  BY Zenon DEF StoreRows
<1>2. W \in [Snapshots -> SUBSET Volumes] /\ W[s] = T /\ \A z \in Snapshots : z # s => W[z] = store.taken[z]
  BY <1>1, Zenon
<1> HIDE DEF W
<1>3. /\ store' \in StoreRows /\ store'.snaps = S /\ store'.taken = W /\ store'.vols = store.vols
      /\ store'.groups = store.groups
  <2>1. store' = [store EXCEPT !.snaps = S, !.taken = W, !.bound = B]
    BY Zenon DEF W
  <2> QED
    BY <2>1, <1>2, Zenon DEF StoreRows
<1> QED
  BY <1>2, <1>3, Zenon DEF StoreSnap

LEMMA StoreSnapKept ==
  ASSUME store \in StoreRows, NEW s \in Snapshots,
         store' = store \/ \E B \in SUBSET Volumes : store' = [store EXCEPT !.bound = B]
  PROVE  StoreSnap(s, s \in store.snaps, store.taken[s])
<1>1. CASE store' = store
  BY <1>1, Zenon DEF StoreSnap
<1>2. CASE \E B \in SUBSET Volumes : store' = [store EXCEPT !.bound = B]
  <2>1. PICK B \in SUBSET Volumes : store' = [store EXCEPT !.bound = B]
    BY <1>2, Zenon
  <2>2. /\ store' \in StoreRows /\ store'.snaps = store.snaps /\ store'.taken = store.taken
        /\ store'.vols = store.vols /\ store'.groups = store.groups
    BY <2>1, Zenon DEF StoreRows
  <2> QED
    BY <2>2, Zenon DEF StoreSnap
<1> QED
  BY <1>1, <1>2, Zenon

LEMMA SnapScriptGoesOn ==
  ASSUME SnapInv, NEW n \in Slots, NEW g \in Groups, g = op[n].g, NEW s \in Snapshots, s = op[n].s,
         op[n].kind \in SnapKinds, op[n].job \in {"sent", "cleaned"}, UNCHANGED <<cg, member, snap, vol>>,
         OnlySlot(n), Kept(n), op'[n].todo = op[n].todo, op'[n].pc = op[n].pc,
         op'[n].job \in {"cleaned", "replied"}, NEW has \in BOOLEAN, NEW T, StoreSnap(s, has, T),
         op[n].kind = "snap" /\ op'[n].job = "replied" /\ op'[n].ok => has /\ T = Has(member[g]),
         op[n].kind = "restore" => (has <=> s \in store.snaps) /\ T = store.taken[s]
  PROVE  SnapInv'
<1>1. /\ SnapSlotOk(op[n], cg[g], member[g], snap[s], s \in store.snaps, store.taken[s])
      /\ op[n].pc # "row" => snap[s].g = g
      /\ snap[s].status \in {"available", "restoring"} /\ snap[s].g = g =>
           s \in store.snaps /\ store.taken[s] = Has(member[g])
  BY SnapKnown, Zenon
<1>2. op[n].pc = "done"
  BY <1>1, Zenon DEF SnapSlotOk, PhaseOk
<1>3. /\ snap' = snap /\ vol' = vol /\ store' \in StoreRows /\ OnlySnap(s) /\ GroupsKept
      /\ store'.taken[s] = T /\ (s \in store'.snaps <=> has)
  BY Zenon DEF StoreSnap, OnlySnap, GroupsKept
<1>4. PhaseOk(op'[n])
  BY <1>1, <1>2, Zenon DEF SnapSlotOk, PhaseOk, Kept
<1>5. SnapSlotOk(op'[n], cg[g], member[g], snap'[s], s \in store'.snaps, store'.taken[s])
  BY <1>1, <1>2, <1>3, <1>4, Zenon DEF SnapSlotOk, Kept
<1>6. snap[s].status \in {"pending", "deleting", "restoring"} /\ (snap[s].status = "restoring" => op[n].kind = "restore")
  BY <1>1, <1>2, Zenon DEF SnapSlotOk, SnapKinds
<1>7. snap'[s].status \in {"available", "restoring"} =>
        s \in store'.snaps /\ store'.taken[s] = Has(member[g])
  BY <1>1, <1>2, <1>3, <1>6, Zenon
<1>8. Serving(n)' => Serving(n)
  BY Zenon DEF Serving
<1>9. snap' \in [Snapshots -> SnapRows] /\ vol' \in [Volumes -> VolRows] /\ snap'[s].g = g
  BY <1>1, <1>2, <1>3, SnapTypes, Zenon
<1> QED
  BY <1>3, <1>5, <1>7, <1>8, <1>9, SnapGoesOn, Zenon

LEMMA ScriptSnapshotGoesOn ==
  ASSUME SnapInv, NEW n \in Slots, NEW g \in Groups, g = op[n].g, NEW s \in Snapshots, s = op[n].s,
         ScriptSnapshot(n)
  PROVE  op[n].kind \in SnapKinds /\ SnapInv'
<1>1. PICK good \in BOOLEAN, made \in BOOLEAN :
        /\ op[n].kind = "snap" /\ op[n].job = "sent" /\ (good => made) /\ Answer(n, good)
        /\ store' = IF made THEN [store EXCEPT !.snaps = @ \cup {s}, !.taken[s] = store.vols[g]] ELSE store
        /\ UNCHANGED <<cg, member, snap, vol>>
  BY Zenon DEF ScriptSnapshot
<1>2. op[n].kind \in SnapKinds
  BY <1>1, Zenon DEF SnapKinds
<1>3. /\ OnlySlot(n) /\ Kept(n) /\ op'[n].todo = op[n].todo /\ op'[n].pc = op[n].pc
      /\ op'[n].job = "replied" /\ op'[n].ok = good
  BY <1>1, SnapTypes, AnswerRow, Zenon
<1>4. store.vols[g] = Has(member[g])
  <2>1. cg[g].status = "available"
    BY <1>1, <1>2, SnapKnown, Zenon DEF SnapSlotOk
  <2> QED
    BY <2>1, Zenon DEF SnapInv, GroupInv, Group, GroupOk
<1>5. store \in StoreRows /\ store.vols[g] \in SUBSET Volumes
  BY SnapTypes, Zenon DEF StoreRows
<1>6. CASE made
  <2> DEFINE S == store.snaps \cup {s}
  <2>1. S \in SUBSET Snapshots /\ (s \in S) /\ store.bound \in SUBSET Volumes
    BY <1>5, Zenon DEF StoreRows
  <2>2. store' = [store EXCEPT !.snaps = S, !.taken = [store.taken EXCEPT ![s] = store.vols[g]], !.bound = store.bound]
    BY <1>1, <1>5, <1>6, Zenon DEF StoreRows
  <2>3. StoreSnap(s, s \in S, store.vols[g])
    BY <1>5, <2>1, <2>2, StoreSnapRow, Zenon
  <2>4. StoreSnap(s, TRUE, store.vols[g])
    BY <2>1, <2>3, Zenon DEF StoreSnap
  <2> QED
    BY <1>1, <1>2, <1>3, <1>4, <2>4, SnapScriptGoesOn, Zenon
<1>7. CASE ~made
  <2>1. StoreSnap(s, s \in store.snaps, store.taken[s]) /\ (s \in store.snaps) \in BOOLEAN
    BY <1>1, <1>5, <1>7, StoreSnapKept
  <2> QED
    BY <1>1, <1>2, <1>3, <1>7, <2>1, SnapScriptGoesOn, Zenon
<1> QED
  BY <1>6, <1>7, Zenon

LEMMA ScriptDeleteSnapshotGoesOn ==
  ASSUME SnapInv, NEW n \in Slots, NEW g \in Groups, g = op[n].g, NEW s \in Snapshots, s = op[n].s,
         ScriptDeleteSnapshot(n)
  PROVE  op[n].kind \in SnapKinds /\ SnapInv'
<1>1. PICK good \in BOOLEAN :
        /\ op[n].kind = "unsnap" /\ op[n].job = "sent" /\ Answer(n, good)
        /\ store' = IF good THEN [store EXCEPT !.snaps = @ \ {s}] ELSE store
        /\ UNCHANGED <<cg, member, snap, vol>>
  BY Zenon DEF ScriptDeleteSnapshot
<1>2. op[n].kind \in SnapKinds
  BY <1>1, Zenon DEF SnapKinds
<1>3. /\ OnlySlot(n) /\ Kept(n) /\ op'[n].todo = op[n].todo /\ op'[n].pc = op[n].pc
      /\ op'[n].job = "replied" /\ op'[n].ok = good
  BY <1>1, SnapTypes, AnswerRow, Zenon
<1>4. store \in StoreRows /\ store.taken[s] \in SUBSET Volumes
  BY SnapTypes, Zenon DEF StoreRows
<1>5. CASE good
  <2>1. /\ store' \in StoreRows /\ store'.snaps = store.snaps \ {s} /\ store'.taken = store.taken
        /\ store'.vols = store.vols /\ store'.groups = store.groups
    BY <1>1, <1>4, <1>5, Zenon DEF StoreRows
  <2>2. StoreSnap(s, FALSE, store.taken[s])
    BY <2>1, Zenon DEF StoreSnap
  <2> QED
    BY <1>1, <1>2, <1>3, <2>2, SnapScriptGoesOn, Zenon
<1>6. CASE ~good
  <2>1. StoreSnap(s, s \in store.snaps, store.taken[s]) /\ (s \in store.snaps) \in BOOLEAN
    BY <1>1, <1>4, <1>6, StoreSnapKept
  <2> QED
    BY <1>1, <1>2, <1>3, <2>1, SnapScriptGoesOn, ZenonT(60)
<1> QED
  BY <1>5, <1>6, Zenon

LEMMA ScriptCleanupGoesOn ==
  ASSUME SnapInv, NEW n \in Slots, NEW g \in Groups, g = op[n].g, NEW s \in Snapshots, s = op[n].s,
         ScriptCleanup(n)
  PROVE  op[n].kind \in SnapKinds /\ SnapInv'
<1> DEFINE r == [op[n] EXCEPT !.job = "cleaned"]
           B == store.bound \ op[n].attached
<1>1. /\ op[n].kind = "restore" /\ op[n].job = "sent" /\ store' = [store EXCEPT !.bound = B]
      /\ op' = [op EXCEPT ![n] = r] /\ UNCHANGED <<cg, member, snap, vol>>
  BY Zenon DEF ScriptCleanup
<1>2. op[n].kind \in SnapKinds /\ op[n] \in OpRows /\ store \in StoreRows /\ op \in [Slots -> OpRows]
  BY <1>1, SnapTypes, Zenon DEF SnapKinds
<1>3. /\ r \in OpRows /\ r.kind = op[n].kind /\ r.g = op[n].g /\ r.s = op[n].s /\ r.vols = op[n].vols
      /\ r.wds = op[n].wds /\ r.todo = op[n].todo /\ r.pc = op[n].pc /\ r.job = "cleaned"
  BY <1>2, Zenon DEF OpRows
<1> HIDE DEF r
<1>4. OnlySlot(n) /\ op'[n] = r
  BY <1>1, <1>2, <1>3, Zenon DEF OnlySlot
<1>5. Kept(n) /\ op'[n].todo = op[n].todo /\ op'[n].pc = op[n].pc /\ op'[n].job = "cleaned"
  BY <1>3, <1>4, Zenon DEF Kept
<1>6. B \in SUBSET Volumes
  BY <1>2, Zenon DEF StoreRows
<1> HIDE DEF B
<1>7. StoreSnap(s, s \in store.snaps, store.taken[s]) /\ (s \in store.snaps) \in BOOLEAN
  BY <1>1, <1>2, <1>6, StoreSnapKept
<1> QED
  BY <1>1, <1>2, <1>4, <1>5, <1>7, SnapScriptGoesOn, Zenon

LEMMA ScriptRestoreGoesOn ==
  ASSUME SnapInv, NEW n \in Slots, NEW g \in Groups, g = op[n].g, NEW s \in Snapshots, s = op[n].s,
         ScriptRestore(n)
  PROVE  op[n].kind \in SnapKinds /\ SnapInv'
<1>1. PICK good \in BOOLEAN, left \in SUBSET op[n].attached :
        /\ op[n].kind = "restore" /\ op[n].job \in {"sent", "cleaned"} /\ Answer(n, good)
        /\ store' = IF op[n].job = "cleaned" THEN [store EXCEPT !.bound = @ \cup (op[n].attached \ left)]
                                             ELSE store
        /\ UNCHANGED <<cg, member, snap, vol>>
  BY Zenon DEF ScriptRestore
<1>2. op[n].kind \in SnapKinds /\ op[n] \in OpRows /\ store \in StoreRows
  BY <1>1, SnapTypes, Zenon DEF SnapKinds
<1>3. /\ OnlySlot(n) /\ Kept(n) /\ op'[n].todo = op[n].todo /\ op'[n].pc = op[n].pc
      /\ op'[n].job = "replied" /\ op'[n].ok = good
  BY <1>1, SnapTypes, AnswerRow, Zenon
<1> DEFINE B == store.bound \cup (op[n].attached \ left)
<1>4. B \in SUBSET Volumes
  BY <1>2, Zenon DEF StoreRows, OpRows
<1>5. store' = store \/ store' = [store EXCEPT !.bound = B]
  BY <1>1, Zenon
<1> HIDE DEF B
<1>6. StoreSnap(s, s \in store.snaps, store.taken[s]) /\ (s \in store.snaps) \in BOOLEAN
  BY <1>2, <1>4, <1>5, StoreSnapKept
<1> QED
  BY <1>1, <1>2, <1>3, <1>6, SnapScriptGoesOn, Zenon
-----------------------------------------------------------------------------
(* The callbacks for a snapshot. *)
LEMMA RestoreStatusesRow ==
  ASSUME vol \in [Volumes -> VolRows], NEW g, RestoreStatuses(g)
  PROVE  /\ vol' \in [Volumes -> VolRows]
         /\ \A v \in Volumes : Marked(v)' => vol'[v] = vol[v] /\ v \notin Members(g)
<1> DEFINE r(v) == [vol[v] EXCEPT !.status = ByInstance(v)]
<1>1. ASSUME NEW v \in Volumes
      PROVE  r(v) \in VolRows /\ r(v).status \in {"attached", "available"}
  <2>1. vol[v] \in VolRows /\ ByInstance(v) \in {"attached", "available"}
    BY Zenon DEF ByInstance
  <2> QED
    BY <2>1, Zenon DEF VolRows, VolumeStatus
<1>2. vol' = [v \in Volumes |-> IF v \in Members(g) /\ vol[v].status # "deleted" THEN r(v) ELSE vol[v]]
  BY Zenon DEF RestoreStatuses
<1> HIDE DEF r
<1>3. vol' \in [Volumes -> VolRows]
  BY <1>1, <1>2, Zenon
<1>4. ASSUME NEW v \in Volumes, Marked(v)' PROVE vol'[v] = vol[v] /\ v \notin Members(g)
  <2>1. vol'[v] = IF v \in Members(g) /\ vol[v].status # "deleted" THEN r(v) ELSE vol[v]
    BY <1>2, Zenon
  <2>2. vol'[v].status \in {"backuping", "restoring"}
    BY <1>4, Zenon DEF Marked
  <2>3. vol'[v] # r(v)
    BY <1>1, <2>2, Zenon
  <2> QED
    BY <2>1, <2>2, <2>3, Zenon
<1> QED
  BY <1>3, <1>4, Zenon

LEMMA SnapReplied ==
  ASSUME SnapInv, NEW n \in Slots, NEW g \in Groups, g = op[n].g, NEW s \in Snapshots, s = op[n].s,
         op[n].kind \in SnapKinds, NEW K, Callback(n, K)
  PROVE  /\ OnlySlot(n) /\ Gone(op'[n]) /\ store' = store /\ op[n].kind \in K /\ op[n].job = "replied"
         /\ op[n].pc = "done" /\ snap[s].g = g
         /\ snap[s].status = CASE op[n].kind = "snap" -> "pending"
                               [] op[n].kind = "unsnap" -> "deleting"
                               [] OTHER -> "restoring"
         /\ op[n].kind = "snap" /\ op[n].ok => s \in store.snaps /\ store.taken[s] = Has(member[g])
<1>1. /\ SnapSlotOk(op[n], cg[g], member[g], snap[s], s \in store.snaps, store.taken[s])
      /\ op[n].pc # "row" => snap[s].g = g
  BY SnapKnown, Zenon
<1>2. op[n].job = "replied" /\ op[n].kind \in K
  BY Zenon DEF Callback
<1>3. op[n].pc = "done"
  BY <1>1, <1>2, Zenon DEF SnapSlotOk, PhaseOk
<1>4. OnlySlot(n) /\ op'[n] = Free /\ store' = store
  BY <1>3, SnapTypes, CallbackRow, Zenon
<1>5. /\ op[n].kind = "snap" => snap[s].status = "pending"
      /\ op[n].kind = "unsnap" => snap[s].status = "deleting"
      /\ op[n].kind = "restore" => snap[s].status = "restoring"
      /\ op[n].kind = "snap" /\ op[n].ok => s \in store.snaps /\ store.taken[s] = Has(member[g])
  BY <1>1, <1>2, <1>3, Zenon DEF SnapSlotOk
<1> QED
  BY <1>1, <1>2, <1>3, <1>4, <1>5, FreeRow, Zenon DEF SnapKinds

LEMMA SnapCallbackGoesOn ==
  ASSUME SnapInv, NEW n \in Slots, NEW g \in Groups, g = op[n].g, NEW s \in Snapshots, s = op[n].s,
         op[n].kind \in SnapKinds, NEW K, Callback(n, K), UNCHANGED <<cg, member>>,
         vol' \in [Volumes -> VolRows], NEW st, SnapRow(s, st),
         st \in {"available", "restoring"} => s \in store.snaps /\ store.taken[s] = Has(member[g])
  PROVE  SnapInv'
<1>1. OnlySlot(n) /\ Gone(op'[n]) /\ store' = store /\ snap[s].g = g
  BY SnapReplied, Zenon
<1>2. /\ snap' \in [Snapshots -> SnapRows] /\ snap'[s].status = st /\ snap'[s].g = g
      /\ OnlySnap(s) /\ GroupsKept /\ (Serving(n)' => Serving(n))
  BY <1>1, Zenon DEF SnapRow, OnlySnap, GroupsKept, Serving, Gone
<1> QED
  BY <1>1, <1>2, SnapTypes, SnapGoesOn, Zenon

LEMMA CreateCGSnapshotWDSGoesOn ==
  ASSUME SnapInv, NEW n \in Slots, NEW g \in Groups, g = op[n].g, NEW s \in Snapshots, s = op[n].s,
         CreateCGSnapshotWDS(n)
  PROVE  op[n].kind \in SnapKinds /\ SnapInv'
<1> DEFINE st == IF op[n].ok THEN "available" ELSE "error"
           w == IF op[n].ok THEN TRUE ELSE snap[s].wds
<1>1. Callback(n, {"snap"}) /\ UNCHANGED <<cg, member>>
  BY Zenon DEF CreateCGSnapshotWDS
<1>2. op[n].kind = "snap" /\ op[n].kind \in SnapKinds
  BY <1>1, Zenon DEF Callback, SnapKinds
<1>3. /\ snap[s].status = "pending" /\ snap[s].g = g
      /\ op[n].ok => s \in store.snaps /\ store.taken[s] = Has(member[g])
  BY <1>1, <1>2, SnapReplied
<1>4. snap' = [snap EXCEPT ![s].status = st, ![s].wds = w] /\ RestoreStatuses(g)
  BY <1>3, Zenon DEF CreateCGSnapshotWDS
<1>5. st \in {"available", "error"} /\ w \in BOOLEAN /\ (st = "available" => op[n].ok)
  <2>1. snap[s] \in SnapRows
    BY SnapTypes, Zenon
  <2> QED
    BY <2>1, Zenon DEF SnapRows
<1> HIDE DEF st, w
<1>6. SnapRow(s, st)
  BY <1>4, <1>5, SnapTypes, SnapRowWds, Zenon DEF SnapStatus
<1>7. vol' \in [Volumes -> VolRows]
  BY <1>4, SnapTypes, RestoreStatusesRow, Zenon
<1> QED
  BY <1>1, <1>2, <1>3, <1>5, <1>6, <1>7, SnapCallbackGoesOn, Zenon

LEMMA DeleteCGSnapshotWDSGoesOn ==
  ASSUME SnapInv, NEW n \in Slots, NEW g \in Groups, g = op[n].g, NEW s \in Snapshots, s = op[n].s,
         DeleteCGSnapshotWDS(n)
  PROVE  op[n].kind \in SnapKinds /\ SnapInv'
<1> DEFINE st == IF op[n].ok THEN "deleted" ELSE "error"
           u == IF op[n].ok THEN None ELSE snap[s].t
<1>1. Callback(n, {"unsnap"}) /\ UNCHANGED <<cg, member, vol>>
  BY Zenon DEF DeleteCGSnapshotWDS
<1>2. op[n].kind = "unsnap" /\ op[n].kind \in SnapKinds
  BY <1>1, Zenon DEF Callback, SnapKinds
<1>3. snap[s].status = "deleting"
  BY <1>1, <1>2, SnapReplied, Zenon
<1>4. snap' = [snap EXCEPT ![s].status = st, ![s].t = u]
  BY <1>3, Zenon DEF DeleteCGSnapshotWDS
<1>5. st \in {"deleted", "error"} /\ u \in Tasks \cup {None}
  <2>1. snap[s] \in SnapRows
    BY SnapTypes, Zenon
  <2> QED
    BY <2>1, Zenon DEF SnapRows
<1> HIDE DEF st, u
<1>6. SnapRow(s, st)
  BY <1>4, <1>5, SnapTypes, SnapRowTask, Zenon DEF SnapStatus
<1> QED
  BY <1>1, <1>2, <1>5, <1>6, SnapTypes, SnapCallbackGoesOn, Zenon

LEMMA RestoreCGSnapshotWDSGoesOn ==
  ASSUME SnapInv, NEW n \in Slots, NEW g \in Groups, g = op[n].g, NEW s \in Snapshots, s = op[n].s,
         RestoreCGSnapshotWDS(n)
  PROVE  op[n].kind \in SnapKinds /\ SnapInv'
<1>1. Callback(n, {"restore"}) /\ UNCHANGED <<cg, member>>
  BY Zenon DEF RestoreCGSnapshotWDS
<1>2. op[n].kind = "restore" /\ op[n].kind \in SnapKinds
  BY <1>1, Zenon DEF Callback, SnapKinds
<1>3. snap[s].status = "restoring" /\ snap[s].g = g
  BY <1>1, <1>2, SnapReplied
<1>4. snap' = [snap EXCEPT ![s].status = "available"] /\ RestoreStatuses(g)
  BY <1>3, Zenon DEF RestoreCGSnapshotWDS
<1>5. SnapRow(s, "available")
  BY <1>4, SnapTypes, SnapRowStatus, Zenon DEF SnapStatus
<1>6. s \in store.snaps /\ store.taken[s] = Has(member[g])
  BY <1>2, <1>3, SnapKnown, Zenon
<1>7. vol' \in [Volumes -> VolRows]
  BY <1>4, SnapTypes, RestoreStatusesRow, Zenon
<1> QED
  BY <1>1, <1>2, <1>5, <1>6, <1>7, SnapCallbackGoesOn, Zenon
-----------------------------------------------------------------------------
(* Steps that touch neither groups nor snapshots, and at most end requests:   *)
(* those of other parts of the system, and the crash of the API server.       *)
Outside ==
  /\ UNCHANGED <<cg, member, snap>> /\ vol' \in [Volumes -> VolRows] /\ store' \in StoreRows
  /\ store'.vols = store.vols /\ store'.groups = store.groups
  /\ store'.snaps = store.snaps /\ store'.taken = store.taken
  /\ op' \in [Slots -> OpRows] /\ \A m \in Slots : op'[m] = op[m] \/ Gone(op'[m])

LEMMA OutsideFrame ==
  ASSUME SnapInv, Outside
  PROVE  SnapInv'
<1>1. /\ cg' = cg /\ member' = member /\ snap' = snap /\ store'.vols = store.vols
      /\ store'.groups = store.groups /\ store'.snaps = store.snaps /\ store'.taken = store.taken
  BY Zenon DEF Outside
<1>2. \A m \in Slots : op'[m] = op[m] \/ Gone(op'[m])
  BY Zenon DEF Outside
<1>3. \A m \in Slots : op'[m].kind \in GroupKinds \cup SnapKinds \/ Serving(m)' => op'[m] = op[m]
  BY <1>2, Zenon DEF Gone, GroupKinds, SnapKinds, Serving
<1>4. Types'
  BY <1>1, SnapTypes, Zenon DEF Types, Outside, VolRows
<1>5. OneServes' /\ GroupsApart' /\ SnapsApart'
  <2>1. OneServes'
    BY <1>3, Zenon DEF SnapInv, GroupInv, OneServes, Serving
  <2>2. GroupsApart'
    BY <1>3, Zenon DEF SnapInv, GroupInv, GroupsApart
  <2>3. SnapsApart'
    BY <1>3, Zenon DEF SnapInv, SnapsApart
  <2> QED
    BY <2>1, <2>2, <2>3, Zenon
<1>6. \A h \in Groups : Group(h)'
  BY <1>1, Zenon DEF SnapInv, GroupInv, Group
<1>7. \A m \in Slots : GroupSlot(m)'
  BY <1>1, <1>3, Zenon DEF SnapInv, GroupInv, GroupSlot
<1>8. \A h \in Groups : Unclaimed(h) => Unclaimed(h)'
  BY <1>3, Zenon DEF Unclaimed
<1>9. ASSUME NEW z \in Snapshots PROVE Snap(z)'
  <2>1. Snap(z)
    BY Zenon DEF SnapInv
  <2>2. LiveSnap(z) => snap[z].g \in Groups /\ Unclaimed(snap[z].g)'
    <3> HAVE LiveSnap(z)
    <3>1. PICK h \in Groups : h = snap[z].g
      BY <2>1, Zenon DEF Snap
    <3>2. Unclaimed(h)'
      BY <1>8, <2>1, <3>1, Zenon DEF Snap
    <3> QED
      BY <1>1, <3>1, <3>2, Zenon DEF Unclaimed
  <2> QED
    BY <1>1, <2>1, <2>2, Zenon DEF Snap, LiveSnap
<1>10. ASSUME NEW m \in Slots, op'[m].kind \in SnapKinds PROVE SnapSlot(m)'
  <2>1. op'[m] = op[m] /\ op[m].kind \in SnapKinds
    BY <1>3, <1>10, Zenon
  <2>2. PICK h \in Groups, z \in Snapshots : h = op[m].g /\ z = op[m].s
    BY <2>1, Zenon DEF SnapInv, SnapSlot
  <2>3. /\ op[m].kind = "snap" => Unclaimed(h)
        /\ SnapSlotOk(op[m], cg[h], member[h], snap[z], z \in store.snaps, store.taken[z])
    BY <2>1, <2>2, Zenon DEF SnapInv, SnapSlot
  <2>4. op'[m].kind = "snap" => Unclaimed(op[m].g)'
    BY <2>1, <2>2, <2>3, <1>8, Zenon DEF Unclaimed
  <2>5. SnapSlotOk(op'[m], cg'[h], member'[h], snap'[z], z \in store'.snaps, store'.taken[z])
    BY <2>1, <2>3, <1>1, Zenon
  <2> QED
    BY <2>1, <2>2, <2>4, <2>5, Zenon DEF SnapSlot
<1>11. \A m \in Slots : SnapSlot(m)'
  BY <1>10, Zenon DEF SnapSlot
<1>12. GroupInv'
  BY <1>4, <1>5, <1>6, <1>7, Zenon DEF GroupInv
<1> QED
  BY <1>5, <1>9, <1>11, <1>12, Zenon DEF SnapInv

(* The life of a volume never marks it as the group's code does. *)
LEMMA VolumeSteps ==
  ASSUME SnapInv, NEW v \in Volumes, VolumeStart(v) \/ VolumeEnd(v) \/ VolumeDelete(v)
  PROVE  Outside /\ \A w \in Volumes : Marked(w)' => Marked(w)
<1>1. UNCHANGED <<cg, member, snap, op>>
  BY Zenon DEF VolumeStart, VolumeEnd, VolumeDelete
<1>2. vol \in [Volumes -> VolRows] /\ store \in StoreRows /\ op \in [Slots -> OpRows] /\ vol[v] \in VolRows
  BY SnapTypes, Zenon
<1>3. /\ store' \in StoreRows /\ store'.vols = store.vols /\ store'.groups = store.groups
      /\ store'.snaps = store.snaps /\ store'.taken = store.taken
  <2>1. \/ store' = store \/ store' = [store EXCEPT !.bound = store.bound \cup {v}]
        \/ store' = [store EXCEPT !.bound = store.bound \ {v}]
    BY Zenon DEF VolumeStart, VolumeEnd, VolumeDelete
  <2> QED
    BY <1>2, <2>1 DEF StoreRows
<1>4. PICK r \in VolRows : vol' = [vol EXCEPT ![v] = r] /\ r.status \notin {"backuping", "restoring"}
  <2>1. CASE VolumeStart(v) \/ VolumeDelete(v)
    <3>1. PICK st \in {"attaching", "detaching", "resizing", "deleted"} : vol' = [vol EXCEPT ![v].status = st]
      BY <2>1, Zenon DEF VolumeStart, VolumeDelete
    <3> DEFINE q == [vol[v] EXCEPT !.status = st]
    <3>2. q \in VolRows /\ q.status = st
      BY <1>2, Zenon DEF VolRows, VolumeStatus, VolumeBusy
    <3>3. vol' = [vol EXCEPT ![v] = q]
      BY <3>1, Zenon
    <3> HIDE DEF q
    <3> QED
      BY <3>2, <3>3, Zenon
  <2>2. CASE VolumeEnd(v)
    <3>1. PICK i \in Instances, good \in BOOLEAN :
            \/ vol' = [vol EXCEPT ![v] = IF good THEN [status |-> "attached", inst |-> i]
                                                ELSE [status |-> "available", inst |-> None]]
            \/ vol' = [vol EXCEPT ![v] = IF good THEN [status |-> "available", inst |-> None]
                                                ELSE [vol[v] EXCEPT !.status = "attached"]]
            \/ vol' = [vol EXCEPT ![v].status = IF good THEN ByInstance(v) ELSE "error"]
      BY <2>2, Zenon DEF VolumeEnd
    <3> DEFINE st == IF good THEN ByInstance(v) ELSE "error"
               a == [status |-> "attached", inst |-> i]
               b == [status |-> "available", inst |-> None]
               c == [vol[v] EXCEPT !.status = "attached"]
               d == [vol[v] EXCEPT !.status = st]
    <3>2. a \in VolRows /\ a.status = "attached" /\ b \in VolRows /\ b.status = "available"
      BY Zenon DEF VolRows, VolumeStatus
    <3>3. c \in VolRows /\ c.status = "attached"
      BY <1>2, Zenon DEF VolRows, VolumeStatus
    <3>4. st \in {"attached", "available", "error"}
      BY Zenon DEF ByInstance
    <3>5. \/ vol' = [vol EXCEPT ![v] = a] \/ vol' = [vol EXCEPT ![v] = b] \/ vol' = [vol EXCEPT ![v] = c]
          \/ vol' = [vol EXCEPT ![v] = d]
      BY <3>1, Zenon
    <3> HIDE DEF st
    <3>6. d \in VolRows /\ d.status = st
      BY <1>2, <3>4, Zenon DEF VolRows, VolumeStatus
    <3> HIDE DEF a, b, c, d
    <3> QED
      BY <3>2, <3>3, <3>4, <3>5, <3>6, Zenon
  <2> QED
    BY <2>1, <2>2, Zenon
<1>5. vol' \in [Volumes -> VolRows] /\ \A w \in Volumes : Marked(w)' => Marked(w)
  BY <1>2, <1>4, Zenon DEF Marked
<1> QED
  BY <1>1, <1>2, <1>3, <1>5, Zenon DEF Outside

LEMMA CrashStep ==
  ASSUME SnapInv, Crash
  PROVE  Outside /\ vol' = vol
<1> DEFINE lost(r) == [Free EXCEPT !.g = r.g, !.s = r.s, !.vols = r.vols, !.job = "lost"]
           Stop(r) == CASE r.pc = "row" -> Free [] r.pc \in {"mark", "send"} -> lost(r) [] OTHER -> r
<1>1. op' = [m \in Slots |-> Stop(op[m])] /\ UNCHANGED <<cg, member, snap, vol, store>>
  BY Zenon DEF Crash
<1>2. op \in [Slots -> OpRows] /\ store \in StoreRows /\ vol \in [Volumes -> VolRows]
  BY SnapTypes, Zenon
<1>3. ASSUME NEW m \in Slots
      PROVE  Stop(op[m]) \in OpRows /\ (Stop(op[m]) = op[m] \/ Gone(Stop(op[m])))
  <2>1. op[m] \in OpRows
    BY <1>2, Zenon
  <2>2. lost(op[m]) \in OpRows /\ Gone(lost(op[m]))
    BY <2>1, FreeRow, Zenon DEF OpRows, Gone, Free
  <2> HIDE DEF lost
  <2>3. op[m].pc \in {"row", "mark", "send", "done"}
    BY <2>1, Zenon DEF OpRows
  <2> QED
    BY <2>1, <2>2, <2>3, FreeRow, Zenon
<1> HIDE DEF Stop
<1>4. op' \in [Slots -> OpRows] /\ \A m \in Slots : op'[m] = op[m] \/ Gone(op'[m])
  BY <1>1, <1>3, Zenon
<1> QED
  BY <1>1, <1>2, <1>4, Zenon DEF Outside
-----------------------------------------------------------------------------
(* The steps of a request, and of its script and callback. *)
GroupStarts(n, g) ==
  \/ \E vs \in SUBSET Volumes : Create(n, g, vs) \/ AddVolumes(n, g, vs)
  \/ \E v \in Volumes : RemoveVolume(n, g, v)
  \/ Delete(n, g)

GroupActs(n) ==
  \/ WriteCreate(n) \/ WriteDelete(n) \/ WriteAddVolumes(n) \/ WriteRemoveVolume(n)
  \/ \E v \in Volumes : InsertMember(n, v) \/ DeleteMember(n, v)
  \/ SendCreate(n) \/ SendGroup(n)
  \/ ScriptCreate(n) \/ ScriptDelete(n) \/ ScriptAddVolumes(n) \/ ScriptRemoveVolumes(n)
  \/ CreateCGWDS(n) \/ DeleteCGWDS(n) \/ AddVolumesToCGWDS(n) \/ RemoveVolumesFromCGWDS(n)

SnapActs(n) ==
  \/ WriteCreateSnapshot(n) \/ WriteDeleteSnapshot(n) \/ WriteRestore(n)
  \/ \E v \in Volumes : MarkBackuping(n, v) \/ MarkRestoring(n, v)
  \/ SendSnapshot(n)
  \/ ScriptSnapshot(n) \/ ScriptDeleteSnapshot(n) \/ ScriptCleanup(n) \/ ScriptRestore(n)
  \/ CreateCGSnapshotWDS(n) \/ DeleteCGSnapshotWDS(n) \/ RestoreCGSnapshotWDS(n)

LEMMA Acts ==
  ASSUME NEW n \in Slots, Handler(n) \/ Script(n) \/ Callbacks(n)
  PROVE  GroupActs(n) \/ SnapActs(n)
BY Zenon DEF Handler, Script, Callbacks, GroupActs, SnapActs

LEMMA ActKinds ==
  ASSUME NEW n \in Slots
  PROVE  /\ GroupActs(n) => op[n].kind \in GroupKinds
         /\ SnapActs(n) => op[n].kind \in SnapKinds
<1>1. GroupActs(n) => op[n].kind \in GroupKinds
  <2> SUFFICES ASSUME GroupActs(n) PROVE op[n].kind \in {"create", "delete", "add", "remove"}
    BY Zenon DEF GroupKinds
  <2>1. CASE WriteCreate(n) \/ WriteDelete(n) \/ WriteAddVolumes(n) \/ WriteRemoveVolume(n)
    BY <2>1, Zenon DEF WriteCreate, WriteDelete, WriteAddVolumes, WriteRemoveVolume, At
  <2>2. CASE \E v \in Volumes : InsertMember(n, v) \/ DeleteMember(n, v)
    BY <2>2, Zenon DEF InsertMember, DeleteMember, Marks
  <2>3. CASE SendCreate(n) \/ SendGroup(n)
    BY <2>3, Zenon DEF SendCreate, SendGroup
  <2>4. CASE ScriptCreate(n) \/ ScriptDelete(n) \/ ScriptAddVolumes(n) \/ ScriptRemoveVolumes(n)
    BY <2>4, Zenon DEF ScriptCreate, ScriptDelete, ScriptAddVolumes, ScriptRemoveVolumes
  <2>5. CASE CreateCGWDS(n) \/ DeleteCGWDS(n) \/ AddVolumesToCGWDS(n) \/ RemoveVolumesFromCGWDS(n)
    BY <2>5, Zenon DEF CreateCGWDS, DeleteCGWDS, AddVolumesToCGWDS, RemoveVolumesFromCGWDS, Callback
  <2> QED
    BY <2>1, <2>2, <2>3, <2>4, <2>5, Zenon DEF GroupActs
<1>2. SnapActs(n) => op[n].kind \in SnapKinds
  <2> SUFFICES ASSUME SnapActs(n) PROVE op[n].kind \in {"snap", "unsnap", "restore"}
    BY Zenon DEF SnapKinds
  <2>1. CASE WriteCreateSnapshot(n) \/ WriteDeleteSnapshot(n) \/ WriteRestore(n)
    BY <2>1, Zenon DEF WriteCreateSnapshot, WriteDeleteSnapshot, WriteRestore, At
  <2>2. CASE \E v \in Volumes : MarkBackuping(n, v) \/ MarkRestoring(n, v)
    BY <2>2, Zenon DEF MarkBackuping, MarkRestoring, Marks
  <2>3. CASE SendSnapshot(n)
    BY <2>3, Zenon DEF SendSnapshot
  <2>4. CASE ScriptSnapshot(n) \/ ScriptDeleteSnapshot(n) \/ ScriptCleanup(n) \/ ScriptRestore(n)
    BY <2>4, Zenon DEF ScriptSnapshot, ScriptDeleteSnapshot, ScriptCleanup, ScriptRestore
  <2>5. CASE CreateCGSnapshotWDS(n) \/ DeleteCGSnapshotWDS(n) \/ RestoreCGSnapshotWDS(n)
    BY <2>5, Zenon DEF CreateCGSnapshotWDS, DeleteCGSnapshotWDS, RestoreCGSnapshotWDS, Callback
  <2> QED
    BY <2>1, <2>2, <2>3, <2>4, <2>5, Zenon DEF SnapActs
<1> QED
  BY <1>1, <1>2, Zenon

LEMMA GroupStartsStep ==
  ASSUME SnapInv, "overlap" \notin Faults, NEW n \in Slots, NEW g \in Groups, GroupStarts(n, g)
  PROVE  Starts(n, g) /\ NoSnaps(g)
<1>1. GroupInv
  BY Zenon DEF SnapInv
<1>2. Starts(n, g)
  BY <1>1, CreateStarts, AddVolumesStarts, RemoveVolumeStarts, DeleteStarts, Zenon DEF GroupStarts
<1>3. cg[g].status = "none" \/ SnapshotsOf(g) = {}
  BY Zenon DEF GroupStarts, Create, AddVolumes, RemoveVolume, Delete
<1>4. NoSnaps(g)
  BY <1>3, Zenon DEF NoSnaps, SnapshotsOf, LiveSnap, SnapInv, Snap
<1> QED
  BY <1>2, <1>4, Zenon

LEMMA GroupActsStep ==
  ASSUME GroupInv, NEW n \in Slots, NEW g \in Groups, g = op[n].g, GroupActs(n)
  PROVE  GroupStep(n, g)
<1>1. CASE WriteCreate(n) \/ WriteDelete(n) \/ WriteAddVolumes(n) \/ WriteRemoveVolume(n)
  BY <1>1, WriteCreateGoesOn, WriteDeleteGoesOn, WriteAddVolumesGoesOn, WriteRemoveVolumeGoesOn, Zenon
<1>2. CASE \E v \in Volumes : InsertMember(n, v) \/ DeleteMember(n, v)
  BY <1>2, InsertMemberGoesOn, DeleteMemberGoesOn, Zenon
<1>3. CASE SendCreate(n) \/ SendGroup(n)
  BY <1>3, SendGoesOn, Zenon
<1>4. CASE ScriptCreate(n) \/ ScriptDelete(n) \/ ScriptAddVolumes(n) \/ ScriptRemoveVolumes(n)
  BY <1>4, ScriptCreateGoesOn, ScriptDeleteGoesOn, ScriptAddVolumesGoesOn, ScriptRemoveVolumesGoesOn, Zenon
<1>5. CASE CreateCGWDS(n) \/ DeleteCGWDS(n) \/ AddVolumesToCGWDS(n) \/ RemoveVolumesFromCGWDS(n)
  BY <1>5, CreateCGWDSGoesOn, DeleteCGWDSGoesOn, AddVolumesToCGWDSGoesOn, RemoveVolumesFromCGWDSGoesOn, Zenon
<1> QED
  BY <1>1, <1>2, <1>3, <1>4, <1>5, Zenon DEF GroupActs

LEMMA SnapActsStep ==
  ASSUME SnapInv, NEW n \in Slots, NEW g \in Groups, g = op[n].g, NEW s \in Snapshots, s = op[n].s,
         SnapActs(n)
  PROVE  SnapInv'
<1>1. CASE WriteCreateSnapshot(n) \/ WriteDeleteSnapshot(n) \/ WriteRestore(n)
  BY <1>1, WriteCreateSnapshotGoesOn, WriteDeleteSnapshotGoesOn, WriteRestoreGoesOn, Zenon
<1>2. CASE \E v \in Volumes : MarkBackuping(n, v) \/ MarkRestoring(n, v)
  BY <1>2, MarkGoesOn, Zenon
<1>3. CASE SendSnapshot(n)
  BY <1>3, SendSnapshotGoesOn, Zenon
<1>4. CASE ScriptSnapshot(n) \/ ScriptDeleteSnapshot(n) \/ ScriptCleanup(n) \/ ScriptRestore(n)
  BY <1>4, ScriptSnapshotGoesOn, ScriptDeleteSnapshotGoesOn, ScriptCleanupGoesOn, ScriptRestoreGoesOn, Zenon
<1>5. CASE CreateCGSnapshotWDS(n) \/ DeleteCGSnapshotWDS(n) \/ RestoreCGSnapshotWDS(n)
  BY <1>5, CreateCGSnapshotWDSGoesOn, DeleteCGSnapshotWDSGoesOn, RestoreCGSnapshotWDSGoesOn, Zenon
<1> QED
  BY <1>1, <1>2, <1>3, <1>4, <1>5, Zenon DEF SnapActs

LEMMA SnapSlotNames ==
  ASSUME SnapInv, NEW n \in Slots, op[n].kind \in SnapKinds
  PROVE  op[n].g \in Groups /\ op[n].s \in Snapshots
BY Zenon DEF SnapInv, SnapSlot

LEMMA Stutters ==
  ASSUME SnapInv, UNCHANGED <<cg, member, snap, vol, op, store>>
  PROVE  Outside
BY SnapTypes, Zenon DEF Outside

LEMMA InitInv == Init => SnapInv
<1> SUFFICES ASSUME Init PROVE SnapInv
  BY Zenon
<1> DEFINE c0 == [status |-> "none", wds |-> FALSE]
           s0 == [status |-> "none", g |-> None, wds |-> FALSE, t |-> None]
           v0 == [status |-> "available", inst |-> None]
<1>1. /\ cg = [g \in Groups |-> c0] /\ member = [g \in Groups |-> [v \in Volumes |-> 0]]
      /\ snap = [s \in Snapshots |-> s0] /\ vol = [v \in Volumes |-> v0] /\ op = [n \in Slots |-> Free]
      /\ store = [groups |-> {}, vols |-> [g \in Groups |-> {}], snaps |-> {},
                  taken |-> [s \in Snapshots |-> {}], bound |-> {}]
  BY Zenon DEF Init
<1>2. /\ c0 \in CgRows /\ c0.status = "none" /\ s0 \in SnapRows /\ s0.status = "none"
      /\ v0 \in [status : VolumeStatus, inst : Instances \cup {None}]
  BY Zenon DEF CgRows, CGStatus, SnapRows, SnapStatus, VolumeStatus
<1> HIDE DEF c0, s0, v0
<1>3. store \in StoreRows
  BY <1>1, Zenon DEF StoreRows
<1>4. Types
  BY <1>1, <1>2, <1>3, FreeRow, Zenon DEF Types
<1>5. \A n \in Slots : op[n].kind = "none" /\ op[n].pc = "done"
  BY <1>1, FreeRow, Zenon DEF Gone
<1>6. OneServes /\ GroupsApart /\ SnapsApart /\ \A n \in Slots : GroupSlot(n) /\ SnapSlot(n)
  BY <1>5, Zenon DEF OneServes, Serving, GroupsApart, SnapsApart, GroupSlot, SnapSlot, GroupKinds, SnapKinds
<1>7. \A g \in Groups : Group(g)
  BY <1>1, <1>2, Zenon DEF Group, GroupOk
<1>8. \A s \in Snapshots : Snap(s)
  BY <1>1, <1>2, Zenon DEF Snap, LiveSnap
<1> QED
  BY <1>4, <1>6, <1>7, <1>8, Zenon DEF SnapInv, GroupInv

(* The ways of Next. *)
LEMMA NextCases ==
  ASSUME [Next]_vars
  PROVE  \/ \E n \in Slots, g \in Groups : GroupStarts(n, g)
         \/ \E n \in Slots, g \in Groups, s \in Snapshots :
              CreateSnapshot(n, g, s) \/ DeleteSnapshot(n, g, s) \/ RestoreSnapshot(n, g, s)
         \/ \E n \in Slots : GroupActs(n)
         \/ \E n \in Slots : SnapActs(n)
         \/ \E v \in Volumes : VolumeStart(v) \/ VolumeEnd(v) \/ VolumeDelete(v)
         \/ Crash
         \/ UNCHANGED <<cg, member, snap, vol, op, store>>
<1>1. CASE UNCHANGED vars
  BY <1>1, Zenon DEF vars
<1>2. CASE Next
  <2>1. CASE \E n \in Slots, g \in Groups : GroupStarts(n, g)
    BY <2>1, Zenon
  <2>2. CASE \E n \in Slots, g \in Groups, s \in Snapshots :
               CreateSnapshot(n, g, s) \/ DeleteSnapshot(n, g, s) \/ RestoreSnapshot(n, g, s)
    BY <2>2, Zenon
  <2>3. CASE \E n \in Slots : Handler(n) \/ Script(n) \/ Callbacks(n)
    BY <2>3, Acts, Zenon
  <2>4. CASE \E v \in Used : VolumeStart(v) \/ VolumeEnd(v) \/ VolumeDelete(v)
    BY <2>4, UsedAssumption, Zenon
  <2>5. CASE \E i \in Instances : PowerAction(i)
    BY <2>5, Zenon DEF PowerAction
  <2>6. CASE Crash
    BY <2>6, Zenon
  <2> QED
    BY <1>2, <2>1, <2>2, <2>3, <2>4, <2>5, <2>6, Zenon DEF Next, GroupStarts
<1> QED
  BY <1>1, <1>2, Zenon

LEMMA StepInv ==
  ASSUME SnapInv, "overlap" \notin Faults, [Next]_vars
  PROVE  SnapInv'
<1>1. CASE \E n \in Slots, g \in Groups : GroupStarts(n, g)
  <2>1. PICK n \in Slots, g \in Groups : GroupStarts(n, g)
    BY <1>1, Zenon
  <2>2. Starts(n, g) /\ NoSnaps(g)
    BY <2>1, GroupStartsStep, Zenon
  <2> QED
    BY <2>2, GroupStepSnaps, Zenon DEF Starts
<1>2. CASE \E n \in Slots, g \in Groups, s \in Snapshots :
             CreateSnapshot(n, g, s) \/ DeleteSnapshot(n, g, s) \/ RestoreSnapshot(n, g, s)
  BY <1>2, CreateSnapshotStarts, DeleteSnapshotStarts, RestoreSnapshotStarts, Zenon
<1>3. CASE \E n \in Slots : GroupActs(n)
  <2>1. PICK n \in Slots : GroupActs(n)
    BY <1>3, Zenon
  <2>2. GroupInv /\ op[n].kind \in GroupKinds
    BY <2>1, ActKinds, Zenon DEF SnapInv
  <2>3. PICK g \in Groups : g = op[n].g
    BY <2>2, Works, Zenon
  <2>4. GroupStep(n, g) /\ Alone(n, g)
    BY <2>1, <2>2, <2>3, GroupActsStep, Works, Zenon
  <2> QED
    BY <2>2, <2>3, <2>4, GroupStepSnaps, Zenon
<1>4. CASE \E n \in Slots : SnapActs(n)
  <2>1. PICK n \in Slots : SnapActs(n)
    BY <1>4, Zenon
  <2>2. PICK g \in Groups, s \in Snapshots : g = op[n].g /\ s = op[n].s
    BY <2>1, ActKinds, SnapSlotNames, Zenon
  <2> QED
    BY <2>1, <2>2, SnapActsStep, Zenon
<1>5. CASE \/ \E v \in Volumes : VolumeStart(v) \/ VolumeEnd(v) \/ VolumeDelete(v)
           \/ Crash \/ UNCHANGED <<cg, member, snap, vol, op, store>>
  BY <1>5, VolumeSteps, CrashStep, Stutters, OutsideFrame, Zenon
<1> QED
  BY <1>1, <1>2, <1>3, <1>4, <1>5, NextCases, Zenon

LEMMA SnapInvariant == ASSUME "overlap" \notin Faults PROVE Spec => []SnapInv
BY InitInv, StepInv, PTL DEF Spec

(***************************************************************************)
(* A group shown as available is in the storage, with exactly the volumes  *)
(* of its association rows: for any number of groups, volumes and          *)
(* requests, whatever scripts fail, get lost or are refused and wherever   *)
(* the API server crashes (AddVolumes, RemoveVolume and their callbacks).  *)
(***************************************************************************)
THEOREM AvailableIsTrue == ASSUME "overlap" \notin Faults PROVE Spec => []RowsMatchStore
<1>1. SnapInv => RowsMatchStore
  BY Zenon DEF SnapInv, GroupInv, Group, GroupOk, RowsMatchStore, Members, Has
<1> QED
  BY <1>1, SnapInvariant, PTL

(***************************************************************************)
(* A snapshot offered for restoring is in the storage and holds the        *)
(* volumes the group has today (the snapshotCount checks of AddVolumes,    *)
(* RemoveVolume and Delete).                                               *)
(***************************************************************************)
THEOREM SnapshotsFit == ASSUME "overlap" \notin Faults PROVE Spec => []SnapshotFits
<1>1. SnapInv => SnapshotFits
  BY Zenon DEF SnapInv, Snap, SnapshotFits, Members, Has
<1> QED
  BY <1>1, SnapInvariant, PTL
-----------------------------------------------------------------------------
(* The snapshot s will unmark the volume v. *)
Covers(s, v) == snap[s].status \in {"pending", "restoring"} /\ v \in Members(snap[s].g)

LEMMA CoversKept ==
  ASSUME MarkedHasSnapshot, \A v \in Volumes : Marked(v)' => Marked(v),
         \A v \in Volumes, s \in Snapshots : Marked(v)' /\ Covers(s, v) => Covers(s, v)'
  PROVE  MarkedHasSnapshot'
BY Zenon DEF MarkedHasSnapshot, Covers

LEMMA SameMembers ==
  ASSUME NEW s \in Snapshots, NEW v \in Volumes, Covers(s, v), snap'[s].g = snap[s].g,
         snap'[s].status \in {"pending", "restoring"}, member'[snap[s].g] = member[snap[s].g]
  PROVE  Covers(s, v)'
BY Zenon DEF Covers, Members

(* A step of a group with no snapshots covers no less, ... *)
LEMMA GroupStepMarks ==
  ASSUME SnapInv, MarkedHasSnapshot, NEW n \in Slots, NEW g \in Groups, GroupStep(n, g), NoSnaps(g)
  PROVE  MarkedHasSnapshot'
<1>1. vol' = vol /\ snap' = snap
  BY Zenon DEF GroupStep
<1>2. ASSUME NEW v \in Volumes, NEW s \in Snapshots, Covers(s, v) PROVE Covers(s, v)'
  <2>1. LiveSnap(s) /\ snap[s].g \in Groups /\ snap[s].g # g
    BY <1>2, Zenon DEF Covers, LiveSnap, NoSnaps, SnapInv, Snap
  <2>2. member'[snap[s].g] = member[snap[s].g]
    BY <2>1, Zenon DEF GroupStep, OnlyGroup
  <2> QED
    BY <1>1, <1>2, <2>2, SameMembers, Zenon DEF Covers
<1> QED
  BY <1>1, <1>2, CoversKept, Zenon DEF Marked

(* ... and neither does one that leaves the snapshots that cover alone. *)
LEMMA SnapStepMarks ==
  ASSUME MarkedHasSnapshot, \A v \in Volumes : Marked(v)' => Marked(v), member' = member,
         NEW s \in Snapshots, \A z \in Snapshots : z # s => snap'[z] = snap[z],
         snap[s].status \in {"pending", "restoring"} => snap'[s] = snap[s]
  PROVE  MarkedHasSnapshot'
<1>1. ASSUME NEW v \in Volumes, NEW z \in Snapshots, Covers(z, v) PROVE Covers(z, v)'
  BY <1>1, SameMembers, Zenon DEF Covers
<1> QED
  BY <1>1, CoversKept, Zenon

LEMMA WriteMarks ==
  ASSUME SnapInv, MarkedHasSnapshot, NEW n \in Slots, NEW g \in Groups, g = op[n].g,
         NEW s \in Snapshots, s = op[n].s,
         WriteCreateSnapshot(n) \/ WriteDeleteSnapshot(n) \/ WriteRestore(n)
  PROVE  MarkedHasSnapshot'
<1>1. op[n].kind \in SnapKinds /\ op[n].pc = "row" /\ member' = member /\ vol' = vol
  BY Zenon DEF WriteCreateSnapshot, WriteDeleteSnapshot, WriteRestore, At, SnapKinds
<1>2. snap[s].status \in {"none", "available", "error"}
  <2>1. SnapSlotOk(op[n], cg[g], member[g], snap[s], s \in store.snaps, store.taken[s])
    BY <1>1, SnapKnown, Zenon
  <2> QED
    BY <1>1, <2>1, Zenon DEF SnapSlotOk, SnapKinds
<1>3. \A z \in Snapshots : z # s => snap'[z] = snap[z]
  <2>1. CASE WriteCreateSnapshot(n)
    BY <2>1, SnapTypes, Zenon DEF WriteCreateSnapshot
  <2>2. CASE WriteDeleteSnapshot(n) \/ WriteRestore(n)
    <3>1. PICK t \in Tasks, st \in {"deleting", "restoring"} : SetSnapshot(s, st, t)
      BY <2>2, Zenon DEF WriteDeleteSnapshot, WriteRestore
    <3>2. snap' = snap \/ snap' = [snap EXCEPT ![s].status = st, ![s].t = t]
      BY <3>1, Zenon DEF SetSnapshot
    <3>3. snap' = snap \/ SnapRow(s, st)
      BY <3>2, SnapTypes, SnapRowTask, Zenon DEF SnapStatus, SnapBusy
    <3> QED
      BY <3>3, Zenon DEF SnapRow
  <2> QED
    BY <2>1, <2>2, Zenon
<1> QED
  BY <1>1, <1>2, <1>3, SnapStepMarks, Zenon DEF Marked

(* CreateSnapshot and RestoreSnapshot mark volumes their snapshot covers. *)
LEMMA MarkMarks ==
  ASSUME SnapInv, MarkedHasSnapshot, NEW n \in Slots, NEW g \in Groups, g = op[n].g,
         NEW s \in Snapshots, s = op[n].s,
         NEW v \in Volumes, MarkBackuping(n, v) \/ MarkRestoring(n, v)
  PROVE  MarkedHasSnapshot'
<1>1. PICK st \in {"backuping", "restoring"}, K \in {{"snap"}, {"restore"}} :
        Marks(n, v, K) /\ SetVolume(v, st) /\ UNCHANGED <<member, snap>>
  BY Zenon DEF MarkBackuping, MarkRestoring
<1>2. op[n].kind \in {"snap", "restore"} /\ op[n].pc = "mark" /\ v \in op[n].todo /\ op[n].kind \in SnapKinds
  BY <1>1, Zenon DEF Marks, SnapKinds
<1>3. /\ SnapSlotOk(op[n], cg[g], member[g], snap[s], s \in store.snaps, store.taken[s])
      /\ snap[s].g = g
  BY <1>2, SnapKnown
<1>4. Covers(s, v)
  <2>1. snap[s].status \in {"pending", "restoring"}
    BY <1>2, <1>3, Zenon DEF SnapSlotOk
  <2>2. v \in Has(member[g])
    BY <1>2, <1>3, Zenon DEF SnapSlotOk, PhaseOk
  <2> QED
    BY <1>3, <2>1, <2>2, MembersHas, Zenon DEF Covers
<1>5. \A w \in Volumes : w # v => vol'[w] = vol[w]
  BY <1>1, SnapTypes, SetVolumeRow, Zenon DEF VolumeStatus, VolumeBusy
<1>6. \A w \in Volumes, z \in Snapshots : Covers(z, w)' <=> Covers(z, w)
  BY <1>1, Zenon DEF Covers, Members
<1>7. ASSUME NEW w \in Volumes, Marked(w)' PROVE \E z \in Snapshots : Covers(z, w)'
  <2>1. CASE w = v
    BY <1>4, <1>6, <2>1, Zenon
  <2>2. CASE w # v
    <3>1. Marked(w)
      BY <1>5, <1>7, <2>2, Zenon DEF Marked
    <3> QED
      BY <1>6, <3>1, Zenon DEF MarkedHasSnapshot, Covers
  <2> QED
    BY <2>1, <2>2, Zenon
<1> QED
  BY <1>7, Zenon DEF MarkedHasSnapshot, Covers

LEMMA SendMarks ==
  ASSUME SnapInv, MarkedHasSnapshot, NEW n \in Slots, NEW g \in Groups, g = op[n].g,
         NEW s \in Snapshots, s = op[n].s,
         "refused" \notin Faults, SendSnapshot(n)
  PROVE  MarkedHasSnapshot'
<1>1. snap' = snap /\ member' = member /\ vol' = vol
  BY Zenon DEF SendSnapshot, Outcome
<1> QED
  BY <1>1, SnapStepMarks, Zenon DEF Marked

LEMMA ScriptMarks ==
  ASSUME SnapInv, MarkedHasSnapshot, NEW n \in Slots, NEW g \in Groups, g = op[n].g,
         NEW s \in Snapshots, s = op[n].s,
         ScriptSnapshot(n) \/ ScriptDeleteSnapshot(n) \/ ScriptCleanup(n) \/ ScriptRestore(n)
  PROVE  MarkedHasSnapshot'
<1>1. snap' = snap /\ member' = member /\ vol' = vol
  BY Zenon DEF ScriptSnapshot, ScriptDeleteSnapshot, ScriptCleanup, ScriptRestore
<1> QED
  BY <1>1, SnapStepMarks, Zenon DEF Marked

(* A callback ends the snapshot's work and unmarks every volume it covered. *)
LEMMA UnmarkMarks ==
  ASSUME SnapInv, MarkedHasSnapshot, NEW n \in Slots, NEW g \in Groups, g = op[n].g,
         NEW s \in Snapshots, s = op[n].s,
         snap[s].g = g, RestoreStatuses(g), NEW st, SnapRow(s, st), member' = member
  PROVE  MarkedHasSnapshot'
<1>1. \A v \in Volumes : Marked(v)' => vol'[v] = vol[v] /\ v \notin Members(g)
  BY SnapTypes, RestoreStatusesRow, Zenon
<1>2. ASSUME NEW v \in Volumes, NEW z \in Snapshots, Marked(v)', Covers(z, v) PROVE Covers(z, v)'
  <2>1. z # s
    BY <1>1, <1>2, Zenon DEF Covers
  <2>2. snap'[z] = snap[z]
    BY <2>1, Zenon DEF SnapRow
  <2> QED
    BY <1>2, <2>2, SameMembers, Zenon DEF Covers
<1>3. \A v \in Volumes : Marked(v)' => Marked(v)
  BY <1>1, Zenon DEF Marked
<1> QED
  BY <1>2, <1>3, CoversKept, Zenon

LEMMA CallbackMarks ==
  ASSUME SnapInv, MarkedHasSnapshot, NEW n \in Slots, NEW g \in Groups, g = op[n].g,
         NEW s \in Snapshots, s = op[n].s,
         CreateCGSnapshotWDS(n) \/ DeleteCGSnapshotWDS(n) \/ RestoreCGSnapshotWDS(n)
  PROVE  MarkedHasSnapshot'
<1>1. PICK K \in {{"snap"}, {"unsnap"}, {"restore"}} : Callback(n, K) /\ member' = member
  BY Zenon DEF CreateCGSnapshotWDS, DeleteCGSnapshotWDS, RestoreCGSnapshotWDS
<1>2. op[n].kind \in SnapKinds
  BY <1>1, Zenon DEF Callback, SnapKinds
<1>3. /\ snap[s].g = g
      /\ snap[s].status = CASE op[n].kind = "snap" -> "pending"
                            [] op[n].kind = "unsnap" -> "deleting"
                            [] OTHER -> "restoring"
  BY <1>1, <1>2, SnapReplied
<1>4. CASE CreateCGSnapshotWDS(n)
  <2> DEFINE st == IF op[n].ok THEN "available" ELSE "error"
             w == IF op[n].ok THEN TRUE ELSE snap[s].wds
  <2>1. op[n].kind = "snap"
    BY <1>4, Zenon DEF CreateCGSnapshotWDS, Callback
  <2>2. snap' = [snap EXCEPT ![s].status = st, ![s].wds = w] /\ RestoreStatuses(g)
    BY <1>3, <1>4, <2>1, Zenon DEF CreateCGSnapshotWDS
  <2>3. st \in SnapStatus /\ w \in BOOLEAN
    <3>1. snap[s] \in SnapRows
      BY SnapTypes, Zenon
    <3> QED
      BY <3>1, Zenon DEF SnapRows, SnapStatus
  <2> HIDE DEF st, w
  <2>4. SnapRow(s, st)
    BY <2>2, <2>3, SnapTypes, SnapRowWds, Zenon
  <2> QED
    BY <1>1, <1>3, <2>2, <2>4, UnmarkMarks, Zenon
<1>5. CASE RestoreCGSnapshotWDS(n)
  <2>1. op[n].kind = "restore"
    BY <1>5, Zenon DEF RestoreCGSnapshotWDS, Callback
  <2>2. snap' = [snap EXCEPT ![s].status = "available"] /\ RestoreStatuses(g)
    BY <1>3, <1>5, <2>1, Zenon DEF RestoreCGSnapshotWDS
  <2>3. SnapRow(s, "available")
    BY <2>2, SnapTypes, SnapRowStatus, Zenon DEF SnapStatus
  <2> QED
    BY <1>1, <1>3, <2>2, <2>3, UnmarkMarks, Zenon
<1>6. CASE DeleteCGSnapshotWDS(n)
  <2> DEFINE st == IF op[n].ok THEN "deleted" ELSE "error"
             u == IF op[n].ok THEN None ELSE snap[s].t
  <2>1. op[n].kind = "unsnap" /\ vol' = vol
    BY <1>6, Zenon DEF DeleteCGSnapshotWDS, Callback
  <2>2. snap' = [snap EXCEPT ![s].status = st, ![s].t = u]
    BY <1>3, <1>6, <2>1, Zenon DEF DeleteCGSnapshotWDS
  <2>3. st \in SnapStatus /\ u \in Tasks \cup {None}
    <3>1. snap[s] \in SnapRows
      BY SnapTypes, Zenon
    <3> QED
      BY <3>1, Zenon DEF SnapRows, SnapStatus
  <2> HIDE DEF st, u
  <2>4. SnapRow(s, st)
    BY <2>2, <2>3, SnapTypes, SnapRowTask, Zenon
  <2> QED
    BY <1>1, <1>3, <2>1, <2>4, SnapStepMarks, Zenon DEF SnapRow, Marked
<1> QED
  BY <1>4, <1>5, <1>6, Zenon

LEMMA SnapStartsMarks ==
  ASSUME SnapInv, MarkedHasSnapshot, NEW n \in Slots, NEW g \in Groups, NEW s \in Snapshots,
         CreateSnapshot(n, g, s) \/ DeleteSnapshot(n, g, s) \/ RestoreSnapshot(n, g, s)
  PROVE  MarkedHasSnapshot'
<1>1. member' = member /\ vol' = vol
  BY Zenon DEF CreateSnapshot, DeleteSnapshot, RestoreSnapshot
<1>2. \/ snap' = snap
      \/ snap[s].status = "error" /\ snap' = [snap EXCEPT ![s].status = "deleted", ![s].t = None]
  BY Zenon DEF CreateSnapshot, DeleteSnapshot, RestoreSnapshot
<1>3. CASE snap' = snap
  BY <1>1, <1>3, SnapStepMarks, Zenon DEF Marked
<1>4. CASE snap[s].status = "error" /\ snap' = [snap EXCEPT ![s].status = "deleted", ![s].t = None]
  <2>1. SnapRow(s, "deleted")
    BY <1>4, SnapTypes, SnapRowTask, Zenon DEF SnapStatus
  <2> QED
    BY <1>1, <1>4, <2>1, SnapStepMarks, Zenon DEF SnapRow, Marked
<1> QED
  BY <1>2, <1>3, <1>4, Zenon

LEMMA StepMarks ==
  ASSUME SnapInv, MarkedHasSnapshot, "overlap" \notin Faults, "refused" \notin Faults, [Next]_vars
  PROVE  MarkedHasSnapshot'
<1>1. CASE \E n \in Slots, g \in Groups : GroupStarts(n, g)
  <2>1. PICK n \in Slots, g \in Groups : GroupStarts(n, g)
    BY <1>1, Zenon
  <2>2. GroupStep(n, g) /\ NoSnaps(g)
    BY <2>1, GroupStartsStep, Zenon DEF Starts
  <2> QED
    BY <2>2, GroupStepMarks, Zenon
<1>2. CASE \E n \in Slots, g \in Groups, s \in Snapshots :
             CreateSnapshot(n, g, s) \/ DeleteSnapshot(n, g, s) \/ RestoreSnapshot(n, g, s)
  BY <1>2, SnapStartsMarks, Zenon
<1>3. CASE \E n \in Slots : GroupActs(n)
  <2>1. PICK n \in Slots : GroupActs(n)
    BY <1>3, Zenon
  <2>2. GroupInv /\ op[n].kind \in GroupKinds
    BY <2>1, ActKinds, Zenon DEF SnapInv
  <2>3. PICK g \in Groups : g = op[n].g
    BY <2>2, Works, Zenon
  <2>4. NoSnaps(g)
    BY <2>2, <2>3, Zenon DEF NoSnaps, SnapInv, Snap, Unclaimed
  <2> QED
    BY <2>1, <2>2, <2>3, <2>4, GroupActsStep, GroupStepMarks, Zenon
<1>4. CASE \E n \in Slots : SnapActs(n)
  <2>1. PICK n \in Slots : SnapActs(n)
    BY <1>4, Zenon
  <2>2. PICK g \in Groups, s \in Snapshots : g = op[n].g /\ s = op[n].s
    BY <2>1, ActKinds, SnapSlotNames, Zenon
  <2> QED
    BY <2>1, <2>2, WriteMarks, MarkMarks, SendMarks, ScriptMarks, CallbackMarks, Zenon DEF SnapActs
<1>5. CASE \E v \in Volumes : VolumeStart(v) \/ VolumeEnd(v) \/ VolumeDelete(v)
  <2>1. Outside /\ \A w \in Volumes : Marked(w)' => Marked(w)
    BY <1>5, VolumeSteps, Zenon
  <2> QED
    BY <2>1, CoversKept, Zenon DEF Outside, Covers, Members
<1>6. CASE Crash \/ UNCHANGED <<cg, member, snap, vol, op, store>>
  <2>1. vol' = vol /\ snap' = snap /\ member' = member
    BY <1>6, Zenon DEF Crash
  <2> QED
    BY <2>1, CoversKept, Zenon DEF Covers, Members, Marked
<1> QED
  BY <1>1, <1>2, <1>3, <1>4, <1>5, <1>6, NextCases, Zenon

(***************************************************************************)
(* No callback forgets a volume: one that CreateSnapshot or                *)
(* RestoreSnapshot marked belongs to a group with a snapshot still pending *)
(* or restoring, as long as HyperExecute is not refused, which marks the   *)
(* snapshot "error" and leaves its volumes busy.                           *)
(***************************************************************************)
THEOREM NoVolumeForgotten ==
  ASSUME "overlap" \notin Faults, "refused" \notin Faults
  PROVE  Spec => []MarkedHasSnapshot
<1>1. Init => MarkedHasSnapshot
  BY DEF Init, MarkedHasSnapshot, Marked
<1> QED
  BY <1>1, StepMarks, SnapInvariant, PTL DEF Spec
=============================================================================
