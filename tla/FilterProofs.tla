---------------------------- MODULE FilterProofs ----------------------------
(***************************************************************************)
(* What the scheduling filter guarantees for any number of hypervisors and *)
(* requests: it refuses a command only when no member of the group has     *)
(* room.                                                                   *)
(***************************************************************************)
EXTENDS DaemonProofs, FiniteSetTheorems, WellFoundedInduction

LEMMA DivMod ==
  ASSUME NEW n \in Nat \ {0}, NEW c \in Nat
  PROVE  c = n * (c \div n) + (c % n) /\ c % n \in 0..n - 1 /\ c \div n \in Nat
OBVIOUS

LEMMA ModUnique ==
  ASSUME NEW n \in Nat \ {0}, NEW q \in Nat, NEW j \in 0..n - 1
  PROVE  (n * q + j) % n = j
OBVIOUS

(* Counting on from c, every remainder comes up once round. *)
LEMMA Round ==
  ASSUME NEW n \in Nat \ {0}, NEW c \in Nat, NEW j \in 0..n - 1
  PROVE  \E k \in 0..n - 1 : (c + k) % n = j
<1>1. PICK q \in Nat, m \in 0..n - 1 : c = n * q + m
  BY DivMod, Zenon
<1>2. CASE m <= j
  <2>1. j - m \in 0..n - 1 /\ c + (j - m) = n * q + j
    BY <1>1, <1>2
  <2>2. (n * q + j) % n = j
    BY <1>1, ModUnique
  <2>3. (c + (j - m)) % n = j
    BY <2>1, <2>2, Zenon
  <2> QED
    BY <2>1, <2>3, Zenon
<1>3. CASE m > j
  <2>1. PICK p : p = q + 1
    BY Zenon
  <2>2. p \in Nat /\ n * p = n * q + n
    BY <1>1, <2>1
  <2>3. PICK k : k = j - m + n
    BY Zenon
  <2>4. k \in 0..n - 1 /\ c + k = n * q + n + j
    BY <1>1, <1>3, <2>3
  <2>5. c + k = n * p + j
    BY <2>2, <2>4, Zenon
  <2>6. (n * p + j) % n = j
    BY <2>2, ModUnique
  <2>7. (c + k) % n = j
    BY <2>5, <2>6, Zenon
  <2> QED
    BY <2>4, <2>7, Zenon
<1> QED
  BY <1>1, <1>2, <1>3

(* The children of a group by rank. *)
Rank(S, h) == Cardinality({x \in S : x < h})

LEMMA RankFacts ==
  ASSUME NEW S \in SUBSET Nat, IsFiniteSet(S)
  PROVE  /\ \A h \in S : Rank(S, h) \in 0..Cardinality(S) - 1
         /\ \A h, i \in S : Rank(S, h) = Rank(S, i) => h = i
         /\ \A j \in 0..Cardinality(S) - 1 : \E h \in S : Rank(S, h) = j
<1> DEFINE below(h) == {x \in S : x < h}
<1>1. Cardinality(S) \in Nat
  BY FS_CardinalityType, Zenon
<1>2. ASSUME NEW h \in S
      PROVE  /\ IsFiniteSet(below(h)) /\ Cardinality(below(h)) \in Nat
             /\ Cardinality(below(h)) \in 0..Cardinality(S) - 1
  <2>1. below(h) \in SUBSET S /\ h \notin below(h)
    BY <1>2
  <2>2. below(h) # S
    BY <1>2, <2>1, Zenon
  <2>3. /\ IsFiniteSet(below(h)) /\ Cardinality(below(h)) <= Cardinality(S)
        /\ Cardinality(S) # Cardinality(below(h))
    BY <2>1, <2>2, FS_Subset, Zenon
  <2>4. Cardinality(below(h)) \in Nat
    BY <2>3, FS_CardinalityType, Zenon
  <2>5. Cardinality(below(h)) \in 0..Cardinality(S) - 1
    <3> HIDE DEF below
    <3> QED
      BY <1>1, <2>3, <2>4
  <2> QED
    BY <2>3, <2>4, <2>5, Zenon
<1>3. ASSUME NEW h \in S, NEW i \in S, h < i
      PROVE  Cardinality(below(h)) < Cardinality(below(i))
  <2>1. below(h) \in SUBSET below(i) /\ h \in below(i) /\ h \notin below(h)
    <3>1. (\A x \in S : x < h => x < i) /\ ~(h < h)
      BY <1>3
    <3> QED
      BY <1>3, <3>1, Zenon
  <2>2. below(h) # below(i)
    BY <2>1, Zenon
  <2>3. IsFiniteSet(below(i)) /\ Cardinality(below(i)) \in Nat /\ Cardinality(below(h)) \in Nat
    BY <1>2, <1>3, Zenon
  <2>4. /\ Cardinality(below(h)) <= Cardinality(below(i))
        /\ Cardinality(below(i)) # Cardinality(below(h))
    BY <2>1, <2>2, <2>3, FS_Subset, Zenon
  <2> HIDE DEF below
  <2> QED
    BY <2>3, <2>4
<1>4. ASSUME NEW h \in S, NEW i \in S, Rank(S, h) = Rank(S, i)
      PROVE  h = i
  <2>1. Cardinality(below(h)) = Cardinality(below(i)) /\ Cardinality(below(h)) \in Nat
    BY <1>2, <1>4, Zenon DEF Rank
  <2>2. ~(h < i) /\ ~(i < h)
    <3>1. PICK x, y : x = Cardinality(below(h)) /\ y = Cardinality(below(i))
      BY Zenon
    <3>2. (h < i => x < y) /\ (i < h => y < x) /\ x = y /\ x \in Nat
      BY <1>3, <2>1, <3>1, Zenon
    <3> HIDE DEF below
    <3> QED
      BY <3>2
  <2> HIDE DEF below
  <2> QED
    BY <2>2
<1>5. PICK f : f = [h \in S |-> Rank(S, h)]
  BY Zenon
<1>6. PICK T : T = 0..Cardinality(S) - 1
  BY Zenon
<1>7. \A h \in S : Rank(S, h) \in T
  BY <1>2, <1>6, Zenon DEF Rank
<1>8. f \in Injection(S, T)
  <2>1. f \in [S -> T] /\ \A h \in S : f[h] = Rank(S, h)
    BY <1>5, <1>7, Zenon
  <2>2. \A h, i \in S : f[h] = f[i] => h = i
    BY <1>4, <2>1, Zenon
  <2> QED
    BY <2>1, <2>2, Zenon DEF Injection, IsInjective
<1>9. IsFiniteSet(T) /\ Cardinality(T) = Cardinality(S)
  <2>1. 0 \in Int /\ Cardinality(S) - 1 \in Int
    BY <1>1
  <2>2. /\ IsFiniteSet(T)
        /\ Cardinality(T) = IF 0 > Cardinality(S) - 1 THEN 0 ELSE Cardinality(S) - 1 - 0 + 1
    BY <1>6, <2>1, FS_Interval, Zenon
  <2> QED
    BY <1>1, <2>2
<1>10. f \in Surjection(S, T)
  BY <1>8, <1>9, FS_Injection, Zenon
<1>11. \A j \in T : \E h \in S : Rank(S, h) = j
  BY <1>5, <1>10, Zenon DEF Surjection
<1> QED
  BY <1>4, <1>6, <1>7, <1>11, Zenon

LEMMA LeastIn ==
  ASSUME NEW A \in SUBSET Nat, A # {}
  PROVE  Min(A) \in A
<1>1. IsWellFoundedOn(OpToRel(<, Nat), Nat)
  BY NatLessThanWellFounded, Zenon
<1>2. PICK x \in A : \A y \in A : ~(<<y, x>> \in OpToRel(<, Nat))
  BY <1>1, WFMin, Zenon
<1>3. \A y \in A : <<y, x>> \in OpToRel(<, Nat) <=> y < x
  BY Zenon DEF OpToRel
<1>4. \A y \in A : ~(y < x)
  BY <1>2, <1>3, Zenon
<1>5. \A y \in A : x <= y
  BY <1>4
<1> QED
  BY <1>5, Zenon DEF Min

(* Every child has its turn, and every turn is that of a child. *)
LEMMA TurnFacts ==
  ASSUME NEW S \in SUBSET Nat, IsFiniteSet(S), S # {}, count \in Nat
  PROVE  /\ \A k \in 0..Cardinality(S) - 1 : Turn(S, k) \in S
         /\ \A h \in S : \E k \in 0..Cardinality(S) - 1 : Turn(S, k) = h
<1>1. PICK n : n = Cardinality(S)
  BY Zenon
<1>2. n \in Nat \ {0}
  BY <1>1, FS_CardinalityType, FS_EmptySet
<1>3. /\ \A h \in S : Rank(S, h) \in 0..n - 1
      /\ \A h, i \in S : Rank(S, h) = Rank(S, i) => h = i
      /\ \A j \in 0..n - 1 : \E h \in S : Rank(S, h) = j
  BY <1>1, RankFacts, Zenon
<1>4. \A j \in 0..n - 1 : Child(S, j) \in S /\ Rank(S, Child(S, j)) = j
  <2> TAKE j \in 0..n - 1
  <2>1. \E h \in S : Rank(S, h) = j
    BY <1>3, Zenon
  <2>2. Child(S, j) = CHOOSE h \in S : Rank(S, h) = j
    BY Zenon DEF Child, Rank
  <2> QED
    BY <2>1, <2>2, Zenon
<1>5. ASSUME NEW k \in 0..n - 1
      PROVE  Turn(S, k) \in S
  <2>1. PICK c : c = count + k
    BY Zenon
  <2>2. c \in Nat
    BY <1>2, <1>5, <2>1
  <2>3. c % n \in 0..n - 1
    BY <1>2, <2>2, DivMod, Zenon
  <2>4. Turn(S, k) = Child(S, c % n)
    BY <1>1, <2>1, Zenon DEF Turn
  <2> QED
    BY <1>4, <2>3, <2>4, Zenon
<1>6. ASSUME NEW h \in S
      PROVE  \E k \in 0..n - 1 : Turn(S, k) = h
  <2>1. PICK j \in 0..n - 1 : j = Rank(S, h)
    BY <1>3, <1>6, Zenon
  <2>2. PICK k \in 0..n - 1 : (count + k) % n = j
    BY <1>2, <2>1, Round, Zenon
  <2>3. Turn(S, k) = Child(S, j)
    BY <1>1, <2>2, Zenon DEF Turn
  <2>4. Child(S, j) = h
    <3>1. Child(S, j) \in S /\ Rank(S, Child(S, j)) = Rank(S, h)
      BY <1>4, <2>1, Zenon
    <3> QED
      BY <1>3, <1>6, <3>1, Zenon
  <2> QED
    BY <2>2, <2>3, <2>4, Zenon
<1> QED
  BY <1>1, <1>5, <1>6, Zenon

(* getBestBranch takes a child that fits if there is one. *)
LEMMA BestBranch ==
  ASSUME NEW S \in SUBSET Hosts, count \in Nat, NEW need, NEW b, b = GetBestBranch(S, need)
  PROVE  /\ b.count \in Nat
         /\ \/ b.host = None /\ \A h \in S : ~ Fits(h, need)
            \/ b.host # None /\ b.host \in S /\ Fits(b.host, need)
<1>1. PICK n : n = Cardinality(S)
  BY Zenon
<1>2. /\ S \in SUBSET Nat /\ None \notin S /\ IsFiniteSet(S) /\ n \in Nat
  <2>1. Hosts \subseteq Nat /\ None \notin Hosts /\ IsFiniteSet(Hosts)
    BY HostsAssumption, Zenon
  <2>2. IsFiniteSet(S)
    BY <2>1, FS_Subset, Zenon
  <2> QED
    BY <1>1, <2>1, <2>2, FS_CardinalityType, Zenon
<1>3. PICK fit : fit = {k \in 0..n - 1 : Fits(Turn(S, k), need)}
  BY Zenon
<1>4. PICK end : end = IF fit = {} THEN n ELSE Min(fit)
  BY Zenon
<1>5. PICK skipped : skipped = {k \in 0..end - 1 : ~Usable(Turn(S, k))}
  BY Zenon
<1>6. b = [host |-> IF fit = {} THEN None ELSE Turn(S, end),
           count |-> (count + 1 + Cardinality(skipped)) % CountBound]
  <2>1. fit = {k \in 0..Cardinality(S) - 1 : Usable(Turn(S, k)) /\ TestResource(Turn(S, k), need)}
    BY <1>1, <1>3, Zenon DEF Fits
  <2>2. end = IF fit = {} THEN Cardinality(S) ELSE Min(fit)
    BY <1>1, <1>4, Zenon
  <2> QED
    BY <1>5, <2>1, <2>2 DEF GetBestBranch
<1>7. PICK x, c : x = (IF fit = {} THEN None ELSE Turn(S, end)) /\ c = Cardinality(skipped)
  BY Zenon
<1>8. b = [host |-> x, count |-> (count + 1 + c) % CountBound]
  BY <1>6, <1>7, Zenon
<1>9. b.host = x /\ b.count = (count + 1 + c) % CountBound
  BY <1>8
<1>10. fit \in SUBSET Nat /\ end \in Nat
  <2>1. fit \in SUBSET (0..n - 1)
    BY <1>3, Zenon
  <2>2. fit \in SUBSET Nat
    BY <2>1
  <2>3. fit # {} => Min(fit) \in Nat
    BY <2>2, LeastIn, Zenon
  <2> QED
    BY <1>2, <1>4, <2>2, <2>3, Zenon
<1>11. c \in Nat
  <2>1. 0 \in Int /\ end - 1 \in Int
    BY <1>10
  <2>2. IsFiniteSet(0..end - 1) /\ skipped \in SUBSET (0..end - 1)
    BY <1>5, <2>1, FS_Interval, Zenon
  <2>3. IsFiniteSet(skipped)
    BY <2>2, FS_Subset, Zenon
  <2> QED
    BY <1>7, <2>3, FS_CardinalityType, Zenon
<1>12. b.count \in Nat
  BY <1>9, <1>11 DEF CountBound
<1>13. CASE fit = {}
  <2>1. x = None
    BY <1>7, <1>13, Zenon
  <2>2. ASSUME NEW h \in S, Fits(h, need)
        PROVE  FALSE
    <3>1. S # {}
      BY <2>2, Zenon
    <3>2. PICK k \in 0..n - 1 : Turn(S, k) = h
      BY <1>1, <1>2, <2>2, <3>1, TurnFacts, Zenon
    <3>3. k \in fit
      BY <1>3, <2>2, <3>2, Zenon
    <3> QED
      BY <1>13, <3>3, Zenon
  <2> QED
    BY <1>9, <1>12, <2>1, <2>2, Zenon
<1>14. CASE fit # {}
  <2>1. end \in fit /\ x = Turn(S, end)
    BY <1>4, <1>7, <1>10, <1>14, LeastIn, Zenon
  <2>2. end \in 0..n - 1 /\ Fits(x, need)
    BY <1>3, <2>1, Zenon
  <2>3. S # {}
    <3>1. n # 0
      BY <1>2, <2>2
    <3> QED
      BY <1>1, <3>1, FS_EmptySet, Zenon
  <2>4. x \in S
    BY <1>1, <1>2, <2>1, <2>2, <2>3, TurnFacts, Zenon
  <2> QED
    BY <1>2, <1>9, <1>12, <2>2, <2>4, Zenon
<1> QED
  BY <1>13, <1>14, Zenon

(* filter_input: what it decides about the first message. *)
Chosen(r, need, S, host) ==
  \/ host = None /\ r \in refused' /\ got' = got /\ \A h \in S : ~ Fits(h, need)
  \/ host \in S /\ Give(r, {host}) /\ Fits(host, need)

LEMMA FilterFacts ==
  ASSUME NEW Q, Q = Plans[plan].requests, Proper(Q), Types(Q), Messages(Q), count \in Nat, FilterInput,
         NEW m, m = Head(down)
  PROVE  /\ count' \in Nat
         /\ m.group > 0 => \E host : Chosen(m.req, Q[m.req].need, sci[m.group], host)
<1>1. PICK best \in BestBranches(m.group, Q[m.req].need) :
        /\ count' = best.count
        /\ IF best.host = None
           THEN refused' = refused \cup {m.req} /\ UNCHANGED <<inbox, got>>
           ELSE Give(m.req, {best.host}) /\ UNCHANGED refused
  BY Zenon DEF FilterInput, Req
<1>2. down # <<>>
  BY Zenon DEF FilterInput
<1>3. Message(Q, m) /\ m.req \in DOMAIN Q /\ m.group \in Int
  BY <1>2, FirstMessage, Zenon
<1>4. sci \in Seq({None} \cup SUBSET Hosts)
  BY Zenon DEF Types
<1>5. CASE m.group > 0
  <2>1. ~(m.group < 0)
    BY <1>3, <1>5
  <2>2. m.group \in DOMAIN sci /\ sci[m.group] # None
    BY <1>3, <2>1, Zenon DEF Message
  <2>3. sci[m.group] \in SUBSET Hosts
    <3>1. sci[m.group] \in {None} \cup SUBSET Hosts
      BY <1>4, <2>2, ElementIn, Zenon
    <3> QED
      BY <2>2, <3>1, Zenon
  <2>4. best = GetBestBranch(sci[m.group], Q[m.req].need)
    BY <1>1, <1>5, Zenon DEF BestBranches
  <2>5. PICK S, need : S = sci[m.group] /\ need = Q[m.req].need
    BY Zenon
  <2>6. /\ best.count \in Nat
        /\ \/ best.host = None /\ \A h \in S : ~ Fits(h, need)
           \/ best.host # None /\ best.host \in S /\ Fits(best.host, need)
    <3>1. S \in SUBSET Hosts /\ best = GetBestBranch(S, need)
      BY <2>3, <2>4, <2>5, Zenon
    <3> QED
      BY <1>4, <3>1, BestBranch, Zenon
  <2>7. Chosen(m.req, need, S, best.host)
    BY <1>1, <2>6, Zenon DEF Chosen
  <2> QED
    BY <1>1, <2>5, <2>6, <2>7, ZenonT(60)
<1>6. CASE ~(m.group > 0)
  <2>1. best \in [host : {None} \cup {h \in Hosts : Usable(h) /\ TestResource(h, Q[m.req].need)},
                  count : {count, (count + 1) % CountBound}]
    BY <1>1, <1>6, Zenon DEF BestBranches
  <2>2. best.count \in {count, (count + 1) % CountBound}
    BY <2>1, Zenon
  <2>3. (count + 1) % CountBound \in Nat
    BY <1>4 DEF CountBound
  <2> QED
    BY <1>1, <1>4, <1>6, <2>2, <2>3, Zenon
<1> QED
  BY <1>5, <1>6, Zenon

(* The filter's counter stays a number. *)
LEMMA CountKept ==
  ASSUME DaemonInv, count \in Nat, [Next]_vars
  PROVE  count' \in Nat
<1>1. CASE FilterInput
  <2>1. PICK Q, m : Q = Plans[plan].requests /\ m = Head(down)
    BY Zenon
  <2>2. InvFor(Q) /\ Proper(Q)
    BY <2>1, PlansProper, Zenon DEF DaemonInv
  <2>3. Types(Q) /\ Messages(Q)
    BY <2>2, Parts, Zenon
  <2> QED
    BY <1>1, <2>1, <2>2, <2>3, FilterFacts, ZenonT(60)
<1>2. CASE Route
  BY <1>2, Zenon DEF Route
<1>3. CASE \E t \in Threads : Thread(t)
  <2>1. PICK t \in Threads : Thread(t)
    BY <1>3, Zenon
  <2>2. CASE Send(t)
    BY <2>2, Zenon DEF Send
  <2>3. CASE Execute(t) \/ Serialize(t)
    BY <2>3, Zenon DEF Execute, Serialize, filter
  <2>4. CASE Find(t) \/ Create(t)
    BY <2>4, Zenon DEF Find, Create, filter
  <2>5. CASE Fill(t)
    BY <2>5, Zenon DEF Fill, filter
  <2>6. CASE FreeGroup(t)
    BY <2>6, Zenon DEF FreeGroup, filter
  <2> QED
    BY <2>1, <2>2, <2>3, <2>4, <2>5, <2>6, Zenon DEF Thread
<1>4. CASE \E h \in Hosts : SetAvailibility(h) \/ Recovery(h)
  BY <1>4, Zenon DEF SetAvailibility, Recovery
<1>5. CASE \E h \in Hosts : Report(h) \/ BackHandler(h)
  BY <1>5, Zenon DEF Report, BackHandler, filter
<1>6. CASE \E l \in lines : DispatchExecute(l)
  BY <1>6, Zenon DEF DispatchExecute, filter
<1>7. CASE UNCHANGED vars
  BY <1>7, Zenon DEF vars, filter
<1> QED
  BY <1>1, <1>2, <1>3, <1>4, <1>5, <1>6, <1>7, Zenon DEF Next

LEMMA Counts == Spec => [](count \in Nat)
<1>1. Init => count \in Nat
  <2> SUFFICES ASSUME Init
               PROVE  count \in Nat
    BY Zenon
  <2>1. count = 0
    BY Zenon DEF Init
  <2> QED
    BY <2>1
<1>2. DaemonInv /\ count \in Nat /\ [Next]_vars => (count \in Nat)'
  BY CountKept, Zenon
<1> QED
  BY <1>1, <1>2, Inductive, PTL DEF Spec

(* The steps that take a message out of the router's queue. *)
LEMMA QueueSteps ==
  ASSUME Next
  PROVE  FilterInput \/ Route \/ down' = down \/ \E m : down' = Append(down, m)
<1>1. ASSUME NEW t \in Threads, Thread(t)
      PROVE  down' = down \/ \E m : down' = Append(down, m)
  <2>1. CASE Send(t)
    BY <2>1, Zenon DEF Send
  <2>2. CASE Execute(t) \/ Serialize(t)
    BY <2>2, Zenon DEF Execute, Serialize, filter
  <2>3. CASE Find(t) \/ Create(t)
    BY <2>3, Zenon DEF Find, Create, filter
  <2>4. CASE Fill(t)
    BY <2>4, Zenon DEF Fill, filter
  <2>5. CASE FreeGroup(t)
    BY <2>5, Zenon DEF FreeGroup, filter
  <2> QED
    BY <1>1, <2>1, <2>2, <2>3, <2>4, <2>5, ZenonT(60) DEF Thread
<1>2. ASSUME NEW h \in Hosts, SetAvailibility(h) \/ Recovery(h)
      PROVE  down' = down
  BY <1>2, Zenon DEF SetAvailibility, Recovery
<1>3. ASSUME NEW h \in Hosts, Report(h) \/ BackHandler(h)
      PROVE  down' = down
  BY <1>3, Zenon DEF Report, BackHandler, filter
<1>4. ASSUME NEW l \in lines, DispatchExecute(l)
      PROVE  down' = down
  BY <1>4, Zenon DEF DispatchExecute, filter
<1> QED
  BY <1>1, <1>2, <1>3, <1>4, Zenon DEF Next

(* getBestBranch: the filter answers error=resource only if no member of   *)
(* the group that is connected had room by its last report, and gives the  *)
(* command to a member that had.  Wherever its counter stands, the loop    *)
(* comes to every member.                                                  *)
THEOREM DecisionsSound == Spec => DecisionSound
<1> DEFINE Takes == down # <<>> /\ down' = Tail(down) /\ Scheduled(Head(down))
<1>1. ASSUME DaemonInv, count \in Nat, [Next]_vars, Takes
      PROVE  Decided(Head(down))
  <2>1. PICK Q, m : Q = Plans[plan].requests /\ m = Head(down)
    BY Zenon
  <2>2. InvFor(Q) /\ Proper(Q)
    BY <1>1, <2>1, PlansProper, Zenon DEF DaemonInv
  <2>3. Types(Q) /\ Messages(Q)
    BY <2>2, Parts, Zenon
  <2>4. down # <<>> /\ down' = Tail(down) /\ Filtered(m.req) /\ m.group > 0
    BY <1>1, <2>1, Zenon DEF Scheduled
  <2>5. down' # down /\ \A x : down' # Append(down, x)
    <3>1. down \in Seq([req : DOMAIN Q, group : Int])
      BY <2>3, Zenon DEF Types
    <3>2. Tail(down) # down /\ \A x : Tail(down) # Append(down, x)
      BY <2>4, <3>1, TailFacts, Zenon
    <3> QED
      BY <2>4, <3>2, Zenon
  <2>6. FilterInput
    <3>1. Next
      BY <1>1, <2>5, Zenon DEF vars, filter
    <3>2. ~ Route
      BY <2>1, <2>4, Zenon DEF Route
    <3> QED
      BY <2>5, <3>1, <3>2, QueueSteps, Zenon
  <2>7. PICK host : Chosen(m.req, Q[m.req].need, sci[m.group], host)
    BY <1>1, <2>1, <2>2, <2>3, <2>4, <2>6, FilterFacts, Zenon
  <2>8. Message(Q, m) /\ m.req \in DOMAIN Q
    BY <2>1, <2>3, <2>4, FirstMessage, Zenon
  <2>9. CASE m.req \in refused' /\ \A h \in sci[m.group] : ~ Fits(h, Q[m.req].need)
    BY <2>1, <2>9, Zenon DEF Decided, Req
  <2>10. CASE host \in sci[m.group] /\ Give(m.req, {host}) /\ Fits(host, Q[m.req].need)
    <3>1. got[m.req] = {}
      BY <2>8, Zenon DEF Message
    <3>2. got'[m.req] = {host}
      BY <2>3, <2>8, <2>10, <3>1, GiveFacts, Zenon
    <3> QED
      BY <2>1, <2>10, <3>2, Zenon DEF Decided, Req
  <2> QED
    BY <2>7, <2>9, <2>10, Zenon DEF Chosen
<1>2. DaemonInv /\ count \in Nat /\ [Next]_vars => [Takes => Decided(Head(down))]_vars
  BY <1>1, Zenon
<1> QED
  BY <1>2, Inductive, Counts, PTL DEF Spec, DecisionSound
=============================================================================
