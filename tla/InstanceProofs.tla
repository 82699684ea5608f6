--------------------------- MODULE InstanceProofs ---------------------------
(***************************************************************************)
(* Proofs about Instance: what the tables say about addresses, for any     *)
(* number of instances, interfaces, addresses and floating addresses, in   *)
(* every scenario but two.  In "trim" the code releases an address that    *)
(* an interface still has; with both "reuse" and "unfip" a floating        *)
(* address may be deleted while its interface still has second addresses.  *)
(***************************************************************************)
EXTENDS Instance, WellFoundedInduction, TLAPS

Sound(p) == p["trim"] = 0 /\ (p["reuse"] = 0 \/ p["unfip"] = 0)

IfaceRows == [live : BOOLEAN, inst : Insts \cup {None}, fip : Fips \cup {None}, primary : BOOLEAN]
AddrRows == [alloc : BOOLEAN, iface : Ifaces \cup {None}, second : Ifaces \cup {None}]
FipRows == [row : BOOLEAN, type : {"floating", "reserved"}, inst : Insts \cup {None}]

(* The columns of interfaces F and addresses A. *)
Rows(F, A) == F \in [Ifaces -> IfaceRows] /\ A \in [Addrs -> AddrRows]

(* AddressOwned of one address. *)
OwnedBy(F, r) ==
  /\ r.alloc <=> (r.iface # None \/ r.second # None)
  /\ r.iface # None => F[r.iface].live
  /\ r.second # None => F[r.second].live
  /\ r.iface # None => r.iface # r.second
Owned(F, A) == \A a \in Addrs : OwnedBy(F, A[a])

(* A live interface has an address, ... *)
Rooted(F, A) == \A f \in Ifaces : F[f].live => \E a \in Addrs : A[a].iface = f

(* ... one without instance has no second addresses, ... *)
Bare(F, A) == \A a \in Addrs : A[a].second # None => F[A[a].second].inst # None

(* ... the second addresses of one that a floating address brought are     *)
(* floating too, those of any other are nobody's own, ...                  *)
PairedBy(F, r) ==
  /\ r.second # None => (F[r.second].fip = None <=> r.iface = None)
  /\ r.iface # None /\ F[r.iface].fip = None => r.second = None
Paired(F, A) == \A a \in Addrs : PairedBy(F, A[a])

(* ... and a floating address has an interface. *)
Backed(F, P) == \A p \in Fips : P[p].row => \E f \in Ifaces : F[f].live /\ F[f].fip = p

Links(F, A) == Rows(F, A) /\ Owned(F, A) /\ Rooted(F, A) /\ Bare(F, A) /\ Paired(F, A)

(* The tables; what they say of instances and native addresses does not matter here. *)
Shape(d) == d = [inst |-> d.inst, iface |-> d.iface, addr |-> d.addr, fip |-> d.fip, native |-> d.native]
Tables(d) == Shape(d) /\ Links(d.iface, d.addr) /\ d.fip \in [Fips -> FipRows] /\ Backed(d.iface, d.fip)

AddressInv == plan \in Plans /\ asked \in [Events -> Nat] /\ Tables(db)
-----------------------------------------------------------------------------
(* Lemmas about interfaces and addresses. *)

(* The smallest of a set of numbers is one of them. *)
LEMMA MinIn ==
  ASSUME NEW S, S \subseteq Nat, S # {}
  PROVE  Min(S) \in S
<1>1. IsWellFoundedOn(OpToRel(<, Nat), Nat)
  BY NatLessThanWellFounded, Zenon
<1>2. PICK x \in S : \A y \in S : ~(<<y, x>> \in OpToRel(<, Nat))
  BY <1>1, WFMin, Zenon
<1>3. \A y \in S : <<y, x>> \in OpToRel(<, Nat) <=> y < x
  BY Zenon DEF OpToRel
<1>4. \A y \in S : ~(y < x)
  BY <1>2, <1>3, Zenon
<1>5. \A y \in S : x =< y
  BY <1>4
<1> QED
  BY <1>5, Zenon DEF Min

(* The address of a row is an interface or none. *)
LEMMA Columns ==
  ASSUME NEW F, NEW A, Rows(F, A)
  PROVE  /\ \A a \in Addrs : /\ A[a].iface \in Ifaces \cup {None} /\ A[a].second \in Ifaces \cup {None}
                             /\ A[a].alloc \in BOOLEAN
         /\ \A f \in Ifaces : /\ F[f].live \in BOOLEAN /\ F[f].inst \in Insts \cup {None}
                              /\ F[f].fip \in Fips \cup {None} /\ F[f].primary \in BOOLEAN
BY Zenon DEF Rows, IfaceRows, AddrRows

(* A new interface f of instance i, for floating address p, gets address a. *)
NewIface(F, F2, f, i, p) ==
  /\ F2 \in [Ifaces -> IfaceRows]
  /\ F2[f].live /\ F2[f].inst = i /\ F2[f].fip = p
  /\ \A g \in Ifaces : g # f => F2[g] = F[g]
NewAddr(A, A2, a, f, s) ==
  /\ A2 \in [Addrs -> AddrRows]
  /\ A2[a].alloc = TRUE /\ A2[a].iface = f /\ A2[a].second = s
  /\ \A b \in Addrs : b # a => A2[b] = A[b]

LEMMA NewIfaceLinks ==
  ASSUME NEW F, NEW A, NEW F2, NEW A2, Links(F, A), NEW f \in Ifaces, ~F[f].live, NEW a \in Addrs, ~A[a].alloc,
         NEW i, NEW p, NewIface(F, F2, f, i, p), NewAddr(A, A2, a, f, None)
  PROVE  Links(F2, A2)
<1>1. Rows(F, A) /\ Owned(F, A) /\ Rooted(F, A) /\ Bare(F, A) /\ Paired(F, A)
  BY Zenon DEF Links
<1>2. f # None
  BY InstanceNetAssumption, Zenon
<1>3. \A b \in Addrs : A[b].iface # f /\ A[b].second # f
  BY <1>1, <1>2, Zenon DEF Owned, OwnedBy
<1>4. \A b \in Addrs : A[b].iface \in Ifaces \cup {None} /\ A[b].second \in Ifaces \cup {None}
  BY <1>1, Columns, Zenon
<1>5. A[a].iface = None /\ A[a].second = None
  BY <1>1, Zenon DEF Owned, OwnedBy
<1>6. \A b \in Addrs : b # a =>
        /\ A2[b] = A[b]
        /\ A[b].iface # None => F2[A[b].iface] = F[A[b].iface]
        /\ A[b].second # None => F2[A[b].second] = F[A[b].second]
  BY <1>3, <1>4, Zenon DEF NewIface, NewAddr
<1>7. A2[a].alloc = TRUE /\ A2[a].iface = f /\ A2[a].second = None /\ F2[f].live
  BY Zenon DEF NewIface, NewAddr
<1>8. Owned(F2, A2)
  <2> SUFFICES ASSUME NEW b \in Addrs PROVE OwnedBy(F2, A2[b])
    BY Zenon DEF Owned
  <2>1. CASE b = a
    BY <2>1, <1>2, <1>7, Zenon DEF OwnedBy
  <2>2. CASE b # a
    BY <2>2, <1>1, <1>6 DEF Owned, OwnedBy
  <2> QED
    BY <2>1, <2>2, Zenon
<1>9. Rooted(F2, A2)
  <2> SUFFICES ASSUME NEW g \in Ifaces, F2[g].live
               PROVE  \E b \in Addrs : A2[b].iface = g
    BY Zenon DEF Rooted
  <2>1. CASE g = f
    BY <2>1, <1>7, Zenon
  <2>2. CASE g # f
    <3>1. PICK b \in Addrs : A[b].iface = g
      BY <2>2, <1>1, Zenon DEF NewIface, Rooted
    <3>2. b # a
      BY <3>1, <1>5, InstanceNetAssumption, Zenon
    <3> QED
      BY <3>1, <3>2, <1>6, Zenon
  <2> QED
    BY <2>1, <2>2, Zenon
<1>10. Bare(F2, A2)
  <2> SUFFICES ASSUME NEW b \in Addrs, A2[b].second # None
               PROVE  F2[A2[b].second].inst # None
    BY Zenon DEF Bare
  <2>1. b # a
    BY <1>7, Zenon
  <2> QED
    BY <2>1, <1>1, <1>6 DEF Bare
<1>11. Paired(F2, A2)
  <2> SUFFICES ASSUME NEW b \in Addrs PROVE PairedBy(F2, A2[b])
    BY Zenon DEF Paired
  <2>1. CASE b = a
    BY <2>1, <1>2, <1>7, Zenon DEF PairedBy
  <2>2. CASE b # a
    BY <2>2, <1>1, <1>6 DEF Paired, PairedBy
  <2> QED
    BY <2>1, <2>2, Zenon
<1>12. Rows(F2, A2)
  BY Zenon DEF NewIface, NewAddr, Rows
<1> QED
  BY <1>8, <1>9, <1>10, <1>11, <1>12, Zenon DEF Links

(* What CreateInterface makes of the tables d. *)
Created(d, e, i, p) ==
  /\ Shape(e) /\ Links(e.iface, e.addr) /\ e.fip = d.fip
  /\ \E f \in Ifaces : ~d.iface[f].live /\ NewIface(d.iface, e.iface, f, i, p)

LEMMA CreateInterfaceLinks ==
  ASSUME NEW d, Shape(d), Links(d.iface, d.addr), NEW i \in Insts \cup {None}, NEW p \in Fips \cup {None},
         NEW net, NEW primary \in BOOLEAN, FreeAddrs(d, net) # {}, FreeIfaces(d) # {}
  PROVE  Created(d, CreateInterface(d, i, p, net, primary), i, p)
<1> DEFINE e == CreateInterface(d, i, p, net, primary)
<1> DEFINE f == FirstFreeIface(d)
           a == Min(FreeAddrs(d, net))
           r == [live |-> TRUE, inst |-> i, fip |-> p, primary |-> primary]
           c == [d EXCEPT !.iface[f] = r]
<1>1. f \in Ifaces /\ ~d.iface[f].live
  BY Zenon DEF FirstFreeIface, FreeIfaces
<1>2. a \in FreeAddrs(d, net)
  BY MinIn, InstanceNetAssumption, Zenon DEF FreeAddrs
<1>3. a \in Addrs /\ ~d.addr[a].alloc
  BY <1>2, Zenon DEF FreeAddrs
<1>4. d.addr[a].iface = None /\ d.addr[a].second = None
  BY <1>3, Zenon DEF Links, Owned, OwnedBy
<1>5. e = AllocateAddress(c, net, f, "native")
  BY Zenon DEF CreateInterface
<1> HIDE DEF e, f, r
<1>6. Shape(c) /\ c.addr = d.addr /\ c.fip = d.fip /\ c.iface = [d.iface EXCEPT ![f] = r]
  BY DEF Shape
<1> HIDE DEF c
<1>7. FreeAddrs(c, net) = FreeAddrs(d, net)
  BY <1>6, Zenon DEF FreeAddrs
<1>8. e = [c EXCEPT !.addr[a] = [@ EXCEPT !.alloc = TRUE, !.iface = f]]
  BY <1>5, <1>7, Zenon DEF AllocateAddress
<1> HIDE DEF a
<1>9. /\ Shape(e) /\ e.iface = c.iface /\ e.fip = c.fip
      /\ e.addr = [c.addr EXCEPT ![a] = [@ EXCEPT !.alloc = TRUE, !.iface = f]]
  BY <1>6, <1>8, Zenon DEF Shape
<1>10. d.addr \in [Addrs -> AddrRows] /\ d.iface \in [Ifaces -> IfaceRows]
  BY Zenon DEF Links, Rows
<1>11. NewAddr(d.addr, e.addr, a, f, None)
  <2>1. d.addr[a] \in AddrRows
    BY <1>3, <1>10, Zenon
  <2>2. LET n == [d.addr[a] EXCEPT !.alloc = TRUE, !.iface = f]
        IN  n \in AddrRows /\ n.alloc = TRUE /\ n.iface = f /\ n.second = None
    BY <2>1, <1>1, <1>4, Zenon DEF AddrRows
  <2> QED
    BY <2>2, <1>3, <1>6, <1>9, <1>10 DEF NewAddr
<1>12. NewIface(d.iface, e.iface, f, i, p)
  <2>1. r \in IfaceRows /\ r.live /\ r.inst = i /\ r.fip = p
    BY Zenon DEF r, IfaceRows
  <2> QED
    BY <2>1, <1>1, <1>6, <1>9, <1>10 DEF NewIface
<1>13. Links(e.iface, e.addr)
  BY <1>1, <1>3, <1>11, <1>12, NewIfaceLinks, Zenon
<1>14. Created(d, e, i, p)
  BY <1>1, <1>6, <1>9, <1>12, <1>13, Zenon DEF Created
<1> QED
  BY <1>14, Zenon DEF e

(* ... which leaves every floating address with its interface. *)
LEMMA CreateInterfaceTables ==
  ASSUME NEW d, Shape(d), Links(d.iface, d.addr), d.fip \in [Fips -> FipRows],
         NEW i \in Insts \cup {None}, NEW p \in Fips \cup {None},
         \A q \in Fips : d.fip[q].row /\ q # p => \E f \in Ifaces : d.iface[f].live /\ d.iface[f].fip = q,
         NEW net, NEW primary \in BOOLEAN, FreeAddrs(d, net) # {}, FreeIfaces(d) # {}
  PROVE  Tables(CreateInterface(d, i, p, net, primary))
<1> DEFINE e == CreateInterface(d, i, p, net, primary)
<1>1. Created(d, e, i, p)
  BY CreateInterfaceLinks, Zenon
<1> HIDE DEF e
<1>2. PICK f \in Ifaces : ~d.iface[f].live /\ NewIface(d.iface, e.iface, f, i, p)
  BY <1>1, Zenon DEF Created
<1>3. Backed(e.iface, e.fip)
  <2> SUFFICES ASSUME NEW q \in Fips, e.fip[q].row
               PROVE  \E g \in Ifaces : e.iface[g].live /\ e.iface[g].fip = q
    BY Zenon DEF Backed
  <2>1. CASE q = p
    BY <2>1, <1>2, Zenon DEF NewIface
  <2>2. CASE q # p
    <3>1. PICK g \in Ifaces : d.iface[g].live /\ d.iface[g].fip = q
      BY <2>2, <1>1, Zenon DEF Created
    <3>2. g # f
      BY <3>1, <1>2, Zenon
    <3> QED
      BY <3>1, <3>2, <1>2, Zenon DEF NewIface
  <2> QED
    BY <2>1, <2>2, Zenon
<1>4. Tables(e)
  BY <1>1, <1>3, Zenon DEF Tables, Created
<1> QED
  BY <1>4, Zenon DEF e

(* What leaves interfaces and addresses alone, and adds no floating address. *)
LEMMA SameLinks ==
  ASSUME NEW d, NEW e, Tables(d), Shape(e), e.iface = d.iface, e.addr = d.addr,
         e.fip \in [Fips -> FipRows], \A p \in Fips : e.fip[p].row => d.fip[p].row
  PROVE  Tables(e)
BY Zenon DEF Tables, Backed

(* An address becomes the second address of an interface that may have it, or of none. *)
Reassigned(F, r, n) ==
  /\ n.iface = r.iface
  /\ n.alloc <=> (n.iface # None \/ n.second # None)
  /\ n.second # None => /\ F[n.second].live /\ F[n.second].inst # None /\ n.iface # n.second
                        /\ F[n.second].fip = None <=> n.iface = None
                        /\ n.iface # None => F[n.iface].fip # None

LEMMA SecondLinks ==
  ASSUME NEW F, NEW A, NEW A2, Links(F, A), A2 \in [Addrs -> AddrRows],
         \A a \in Addrs : A2[a] = A[a] \/ Reassigned(F, A[a], A2[a])
  PROVE  Links(F, A2)
<1>1. Rows(F, A) /\ Owned(F, A) /\ Rooted(F, A) /\ Bare(F, A) /\ Paired(F, A)
  BY Zenon DEF Links
<1>2. Owned(F, A2)
  BY <1>1, Zenon DEF Owned, OwnedBy, Reassigned
<1>3. Rooted(F, A2)
  BY <1>1 DEF Rooted, Reassigned
<1>4. Bare(F, A2)
  BY <1>1, Zenon DEF Bare, Reassigned
<1>5. Paired(F, A2)
  BY <1>1, Zenon DEF Paired, PairedBy, Reassigned
<1>6. Rows(F, A2)
  BY <1>1, Zenon DEF Rows
<1> QED
  BY <1>2, <1>3, <1>4, <1>5, <1>6, Zenon DEF Links

(* An interface without second addresses leaves its instance, or joins one. *)
LEMMA MoveLinks ==
  ASSUME NEW F, NEW A, NEW F2, Links(F, A), F2 \in [Ifaces -> IfaceRows],
         \A f \in Ifaces : F2[f].live = F[f].live /\ F2[f].fip = F[f].fip,
         \A a \in Addrs : A[a].second # None => F2[A[a].second].inst # None
  PROVE  Links(F2, A)
<1>1. Rows(F, A) /\ Owned(F, A) /\ Rooted(F, A) /\ Bare(F, A) /\ Paired(F, A)
  BY Zenon DEF Links
<1>2. \A a \in Addrs : A[a].iface \in Ifaces \cup {None} /\ A[a].second \in Ifaces \cup {None}
  BY <1>1, Columns, Zenon
<1>3. Owned(F2, A)
  BY <1>1, <1>2, Zenon DEF Owned, OwnedBy
<1>4. Rooted(F2, A)
  BY <1>1, Zenon DEF Rooted
<1>5. Bare(F2, A)
  BY Zenon DEF Bare
<1>6. Paired(F2, A)
  BY <1>1, <1>2, Zenon DEF Paired, PairedBy
<1>7. Rows(F2, A)
  BY <1>1, Zenon DEF Rows
<1> QED
  BY <1>3, <1>4, <1>5, <1>6, <1>7, Zenon DEF Links

(* AllocateAddress for one more second address. *)
LEMMA AllocateSecond ==
  ASSUME NEW d, Tables(d), NEW f \in Ifaces, d.iface[f].live, d.iface[f].inst # None, d.iface[f].fip = None,
         NEW net, FreeAddrs(d, net) # {}
  PROVE  Tables(AllocateAddress(d, net, f, "second"))
<1> DEFINE e == AllocateAddress(d, net, f, "second")
           a == Min(FreeAddrs(d, net))
           n == [d.addr[a] EXCEPT !.alloc = TRUE, !.second = f]
<1>1. a \in FreeAddrs(d, net)
  BY MinIn, InstanceNetAssumption, Zenon DEF FreeAddrs
<1>2. a \in Addrs /\ ~d.addr[a].alloc
  BY <1>1, Zenon DEF FreeAddrs
<1>3. d.addr[a].iface = None /\ d.addr \in [Addrs -> AddrRows]
  BY <1>2, Zenon DEF Tables, Links, Rows, Owned, OwnedBy
<1>4. e = [d EXCEPT !.addr[a] = n]
  BY Zenon DEF AllocateAddress
<1> HIDE DEF a, e
<1>5. n \in AddrRows /\ n.alloc = TRUE /\ n.iface = None /\ n.second = f
  BY <1>2, <1>3, Zenon DEF AddrRows
<1> HIDE DEF n
<1>6. Shape(e) /\ e.fip = d.fip /\ e.iface = d.iface /\ e.addr = [d.addr EXCEPT ![a] = n]
  BY <1>4, Zenon DEF Tables, Shape
<1>7. e.addr \in [Addrs -> AddrRows] /\ e.addr[a] = n /\ \A b \in Addrs : b # a => e.addr[b] = d.addr[b]
  BY <1>2, <1>3, <1>5, <1>6, Zenon
<1>8. f # None
  BY InstanceNetAssumption, Zenon
<1>9. Links(d.iface, e.addr)
  <2>1. Reassigned(d.iface, d.addr[a], n)
    BY <1>3, <1>5, <1>8, Zenon DEF Reassigned
  <2> QED
    BY <1>7, <2>1, SecondLinks DEF Tables
<1>10. Tables(e)
  BY <1>6, <1>9, Zenon DEF Tables
<1> QED
  BY <1>10, Zenon DEF e

(* A second address of an interface that no floating address brought is released. *)
LEMMA ReleaseSecond ==
  ASSUME NEW d, Tables(d), NEW f \in Ifaces, d.iface[f].fip = None, NEW a \in SecondsOf(d, f)
  PROVE  Tables([d EXCEPT !.addr[a] = [@ EXCEPT !.second = None, !.alloc = FALSE]])
<1> DEFINE e == [d EXCEPT !.addr[a] = [@ EXCEPT !.second = None, !.alloc = FALSE]]
           n == [d.addr[a] EXCEPT !.second = None, !.alloc = FALSE]
<1>1. a \in Addrs /\ d.addr[a].second = f /\ f # None
  BY InstanceNetAssumption, Zenon DEF SecondsOf
<1>2. d.addr[a].iface = None /\ d.addr \in [Addrs -> AddrRows]
  BY <1>1, Zenon DEF Tables, Links, Rows, Paired, PairedBy
<1>3. n \in AddrRows /\ n.alloc = FALSE /\ n.iface = None /\ n.second = None
  BY <1>1, <1>2, Zenon DEF AddrRows
<1>4. e = [d EXCEPT !.addr[a] = n]
  BY Zenon
<1> HIDE DEF n, e
<1>5. Shape(e) /\ e.fip = d.fip /\ e.iface = d.iface /\ e.addr = [d.addr EXCEPT ![a] = n]
  BY <1>4, Zenon DEF Tables, Shape
<1>6. e.addr \in [Addrs -> AddrRows] /\ e.addr[a] = n /\ \A b \in Addrs : b # a => e.addr[b] = d.addr[b]
  BY <1>1, <1>2, <1>3, <1>5, Zenon
<1>7. Links(d.iface, e.addr)
  <2>1. Reassigned(d.iface, d.addr[a], n)
    BY <1>2, <1>3, Zenon DEF Reassigned
  <2> QED
    BY <1>6, <2>1, SecondLinks DEF Tables
<1>8. Tables(e)
  BY <1>5, <1>7, Zenon DEF Tables
<1> QED
  BY <1>8, Zenon DEF e

(* DeleteInterfaces. *)
LEMMA DeleteInterfacesTables ==
  ASSUME NEW d, Tables(d), NEW fs, fs \subseteq Ifaces
  PROVE  Tables(DeleteInterfaces(d, fs))
<1> DEFINE e == DeleteInterfaces(d, fs)
           F == d.iface
           A == d.addr
           plain == {f \in fs : F[f].fip = None}
           Own(a) == A[a].iface \in plain
           Second(a) == A[a].second \in fs
           Left(f) == IF f \in plain THEN NoIface
                      ELSE IF f \in fs THEN [F[f] EXCEPT !.inst = None, !.primary = FALSE] ELSE F[f]
           Rel(a) == [alloc |-> A[a].alloc /\ ~Own(a) /\ ~(Second(a) /\ A[a].iface = None),
                      iface |-> IF Own(a) THEN None ELSE A[a].iface,
                      second |-> IF Second(a) THEN None ELSE A[a].second]
<1>1. /\ Shape(e) /\ e.fip = d.fip
      /\ e.iface = [f \in Ifaces |-> Left(f)]
      /\ e.addr = [a \in Addrs |-> Rel(a)]
  <2>1. Shape(d)
    BY Zenon DEF Tables
  <2> DEFINE G == [f \in Ifaces |-> Left(f)]
             B == [a \in Addrs |-> Rel(a)]
  <2>2. e = [d EXCEPT !.iface = G, !.addr = B]
    BY Zenon DEF DeleteInterfaces
  <2> HIDE DEF e, G, B
  <2>3. Shape(e) /\ e.fip = d.fip /\ e.iface = G /\ e.addr = B
    BY <2>1, <2>2, Zenon DEF Shape
  <2> QED
    BY <2>3, Zenon DEF G, B
<1>2. Rows(F, A) /\ Owned(F, A) /\ Rooted(F, A) /\ Bare(F, A) /\ Paired(F, A)
  BY Zenon DEF Tables, Links
<1>3. Backed(F, d.fip) /\ d.fip \in [Fips -> FipRows]
  BY Zenon DEF Tables
<1>4. plain \subseteq fs /\ \A f \in fs : f \in plain <=> F[f].fip = None
  BY Zenon
<1>5. /\ \A a \in Addrs : A[a].iface \in Ifaces \cup {None} /\ A[a].second \in Ifaces \cup {None}
      /\ None \notin Ifaces /\ None \notin fs /\ None \notin Fips
  BY <1>2, Columns, InstanceNetAssumption, Zenon
<1> HIDE DEF e, F, A, plain
<1>6. \A f \in Ifaces :
        /\ f \in plain => Left(f) = NoIface
        /\ f \notin fs => Left(f) = F[f]
        /\ f \in fs /\ f \notin plain => Left(f) = [F[f] EXCEPT !.inst = None, !.primary = FALSE]
  BY <1>4, Zenon
<1>7. \A f \in Ifaces : f \in fs /\ f \notin plain =>
        /\ Left(f).live = F[f].live /\ Left(f).fip = F[f].fip /\ Left(f).inst = None
        /\ Left(f) \in IfaceRows
  <2> HIDE DEF Left
  <2> SUFFICES ASSUME NEW f \in Ifaces, f \in fs, f \notin plain
               PROVE  /\ Left(f).live = F[f].live /\ Left(f).fip = F[f].fip /\ Left(f).inst = None
                      /\ Left(f) \in IfaceRows
    BY Zenon
  <2>1. F[f] \in IfaceRows /\ Left(f) = [F[f] EXCEPT !.inst = None, !.primary = FALSE]
    BY <1>2, <1>6, Zenon DEF Rows
  <2> QED
    BY <2>1, Zenon DEF IfaceRows
<1>8. \A f \in Ifaces : Left(f) \in IfaceRows
  <2> HIDE DEF Left
  <2>1. NoIface \in IfaceRows
    BY Zenon DEF NoIface, IfaceRows
  <2>2. \A f \in Ifaces : f \in plain => Left(f) = NoIface
    BY <1>6, Zenon
  <2>3. \A f \in Ifaces : f \notin fs => Left(f) = F[f]
    BY <1>6, Zenon
  <2>4. \A f \in Ifaces : F[f] \in IfaceRows
    BY <1>2, Zenon DEF Rows
  <2> QED
    BY <2>1, <2>2, <2>3, <2>4, <1>7, Zenon
<1>9. \A a \in Addrs :
        /\ Rel(a).alloc <=> (A[a].alloc /\ ~Own(a) /\ ~(Second(a) /\ A[a].iface = None))
        /\ Rel(a) \in AddrRows
        /\ Own(a) => Rel(a).iface = None
        /\ ~Own(a) => Rel(a).iface = A[a].iface
        /\ Second(a) => Rel(a).second = None
        /\ ~Second(a) => Rel(a).second = A[a].second
  <2> SUFFICES ASSUME NEW a \in Addrs
               PROVE  /\ Rel(a).alloc <=> (A[a].alloc /\ ~Own(a) /\ ~(Second(a) /\ A[a].iface = None))
                      /\ Rel(a) \in AddrRows
                      /\ Own(a) => Rel(a).iface = None
                      /\ ~Own(a) => Rel(a).iface = A[a].iface
                      /\ Second(a) => Rel(a).second = None
                      /\ ~Second(a) => Rel(a).second = A[a].second
    BY Zenon
  <2> DEFINE al == A[a].alloc /\ ~Own(a) /\ ~(Second(a) /\ A[a].iface = None)
             fi == IF Own(a) THEN None ELSE A[a].iface
             se == IF Second(a) THEN None ELSE A[a].second
  <2>0. al \in BOOLEAN
    <3> HIDE DEF Own, Second, Rel
    <3>1. A[a].alloc \in BOOLEAN
      BY <1>2, Columns, Zenon
    <3>2. al = TRUE \/ al = FALSE
      BY <3>1, Zenon
    <3> QED
      BY <3>2, Zenon
  <2>1. /\ fi \in Ifaces \cup {None} /\ se \in Ifaces \cup {None}
        /\ Own(a) => fi = None
        /\ ~Own(a) => fi = A[a].iface
        /\ Second(a) => se = None
        /\ ~Second(a) => se = A[a].second
    <3> HIDE DEF Own, Second, al, Rel
    <3> QED
      BY <1>5, Zenon
  <2>2. Rel(a) = [alloc |-> al, iface |-> fi, second |-> se]
    BY Zenon
  <2> HIDE DEF al, fi, se, Rel
  <2>3. Rel(a).alloc = al /\ Rel(a).iface = fi /\ Rel(a).second = se /\ Rel(a) \in AddrRows
    BY <2>0, <2>1, <2>2 DEF AddrRows
  <2>4. Rel(a).alloc <=> (A[a].alloc /\ ~Own(a) /\ ~(Second(a) /\ A[a].iface = None))
    BY <2>3, Zenon DEF al
  <2> QED
    BY <2>1, <2>3, <2>4, Zenon
<1> HIDE DEF Left, Rel
<1>10. /\ \A f \in Ifaces : e.iface[f] = Left(f)
       /\ \A a \in Addrs : e.addr[a] = Rel(a)
  BY <1>1, Zenon
<1>11. Rows(e.iface, e.addr)
  BY <1>1, <1>8, <1>9, ZenonT(60) DEF Rows
<1>12. \A a \in Addrs : Own(a) => A[a].second = None
  BY <1>2, <1>4, <1>5, Zenon DEF Paired, PairedBy
<1>13. Owned(e.iface, e.addr)
  <2> SUFFICES ASSUME NEW a \in Addrs PROVE OwnedBy(e.iface, e.addr[a])
    BY Zenon DEF Owned
  <2>1. OwnedBy(F, A[a])
    BY <1>2, Zenon DEF Owned
  <2>2. CASE Own(a)
    BY <2>1, <2>2, <1>4, <1>5, <1>9, <1>10, <1>12 DEF OwnedBy
  <2>3. CASE ~Own(a)
    <3>1. A[a].iface # None => e.iface[A[a].iface].live = F[A[a].iface].live
      BY <2>3, <1>5, <1>6, <1>7, <1>10, Zenon
    <3>2. A[a].second # None /\ ~Second(a) => e.iface[A[a].second].live = F[A[a].second].live
      BY <1>5, <1>6, <1>10, Zenon
    <3> QED
      BY <3>1, <3>2, <2>1, <2>3, <1>9, <1>10, Zenon DEF OwnedBy
  <2> QED
    BY <2>2, <2>3, Zenon
<1>14. Rooted(e.iface, e.addr)
  <2> SUFFICES ASSUME NEW f \in Ifaces, e.iface[f].live
               PROVE  \E a \in Addrs : e.addr[a].iface = f
    BY Zenon DEF Rooted
  <2>1. f \notin plain
    <3>1. ~NoIface.live
      BY Zenon DEF NoIface
    <3> QED
      BY <3>1, <1>6, <1>10, Zenon
  <2>2. F[f].live
    BY <2>1, <1>6, <1>7, <1>10, Zenon
  <2>3. PICK a \in Addrs : A[a].iface = f
    BY <2>2, <1>2, Zenon DEF Rooted
  <2> QED
    BY <2>1, <2>3, <1>9, <1>10, Zenon
<1>15. Bare(e.iface, e.addr)
  <2> SUFFICES ASSUME NEW a \in Addrs, e.addr[a].second # None
               PROVE  e.iface[e.addr[a].second].inst # None
    BY Zenon DEF Bare
  <2>1. ~Second(a) /\ e.addr[a].second = A[a].second
    BY <1>9, <1>10, Zenon
  <2>2. e.iface[A[a].second] = F[A[a].second]
    BY <2>1, <1>5, <1>6, <1>10, Zenon
  <2> QED
    BY <2>1, <2>2, <1>2, Zenon DEF Bare
<1>16. Paired(e.iface, e.addr)
  <2> SUFFICES ASSUME NEW a \in Addrs PROVE PairedBy(e.iface, e.addr[a])
    BY Zenon DEF Paired
  <2>1. PairedBy(F, A[a])
    BY <1>2, Zenon DEF Paired
  <2>2. CASE Own(a)
    <3>1. e.addr[a].iface = None /\ e.addr[a].second = None
      BY <2>2, <1>5, <1>9, <1>10, <1>12, Zenon
    <3> QED
      BY <3>1, Zenon DEF PairedBy
  <2>3. CASE ~Own(a)
    <3>1. A[a].iface # None => e.iface[A[a].iface].fip = F[A[a].iface].fip
      BY <2>3, <1>5, <1>6, <1>7, <1>10, Zenon
    <3>2. A[a].second # None /\ ~Second(a) => e.iface[A[a].second] = F[A[a].second]
      BY <1>5, <1>6, <1>10, Zenon
    <3> QED
      BY <3>1, <3>2, <2>1, <2>3, <1>9, <1>10, ZenonT(60) DEF PairedBy
  <2> QED
    BY <2>2, <2>3, Zenon
<1>17. Backed(e.iface, e.fip)
  <2> SUFFICES ASSUME NEW p \in Fips, d.fip[p].row
               PROVE  \E f \in Ifaces : e.iface[f].live /\ e.iface[f].fip = p
    BY <1>1, Zenon DEF Backed
  <2>1. PICK f \in Ifaces : F[f].live /\ F[f].fip = p
    BY <1>3, Zenon DEF Backed
  <2>2. f \notin plain
    BY <2>1, <1>4, <1>5, Zenon
  <2> QED
    BY <2>1, <2>2, <1>6, <1>7, <1>10, Zenon
<1>18. Tables(e)
  BY <1>1, <1>3, <1>11, <1>13, <1>14, <1>15, <1>16, <1>17, Zenon DEF Tables, Links
<1> QED
  BY <1>18, Zenon DEF e

(* DeallocateFloatingIp, of an address whose interface has no instance. *)
LEMMA DeallocateTables ==
  ASSUME NEW d, Tables(d), NEW p \in Fips, d.fip[p].row, d.iface[FipIface(d, p)].inst = None
  PROVE  Tables(DeallocateFloatingIp(d, p))
<1> DEFINE e == DeallocateFloatingIp(d, p)
           F == d.iface
           A == d.addr
           f == FipIface(d, p)
           Rel(a) == IF A[a].iface = f THEN NoAddr ELSE A[a]
<1>1. /\ Shape(e)
      /\ e.iface = [F EXCEPT ![f] = NoIface]
      /\ e.addr = [a \in Addrs |-> Rel(a)]
      /\ e.fip = [d.fip EXCEPT ![p] = NoFip]
  <2>1. Shape(d)
    BY Zenon DEF Tables
  <2> DEFINE G == [F EXCEPT ![f] = NoIface]
             B == [a \in Addrs |-> Rel(a)]
             P == [d.fip EXCEPT ![p] = NoFip]
  <2>2. e = [d EXCEPT !.iface = G, !.addr = B, !.fip = P]
    BY Zenon DEF DeallocateFloatingIp
  <2> HIDE DEF e, G, B, P
  <2>3. Shape(e) /\ e.iface = G /\ e.addr = B /\ e.fip = P
    BY <2>1, <2>2, Zenon DEF Shape
  <2> QED
    BY <2>3, Zenon DEF G, B, P
<1>2. Rows(F, A) /\ Owned(F, A) /\ Rooted(F, A) /\ Bare(F, A) /\ Paired(F, A)
  BY Zenon DEF Tables, Links
<1>3. Backed(F, d.fip) /\ d.fip \in [Fips -> FipRows]
  BY Zenon DEF Tables
<1>4. f \in Ifaces /\ F[f].live /\ F[f].fip = p /\ F[f].inst = None
  BY <1>3, Zenon DEF Backed, FipIface
<1>5. /\ \A a \in Addrs : A[a].iface \in Ifaces \cup {None} /\ A[a].second \in Ifaces \cup {None}
      /\ None \notin Ifaces /\ None \notin Fips
  BY <1>2, Columns, InstanceNetAssumption, Zenon
<1> HIDE DEF e, F, A, f
<1>6. \A a \in Addrs : A[a].second # f
  BY <1>2, <1>4, <1>5, Zenon DEF Bare
<1>7. /\ NoAddr \in AddrRows /\ ~NoAddr.alloc /\ NoAddr.iface = None /\ NoAddr.second = None
      /\ NoIface \in IfaceRows /\ ~NoIface.live
      /\ NoFip \in FipRows /\ ~NoFip.row
  BY Zenon DEF NoAddr, NoIface, NoFip, AddrRows, IfaceRows, FipRows
<1>8. /\ \A g \in Ifaces : g # f => e.iface[g] = F[g]
      /\ ~e.iface[f].live
      /\ e.iface \in [Ifaces -> IfaceRows]
  BY <1>1, <1>2, <1>4, <1>7 DEF Rows
<1>9. /\ \A a \in Addrs : A[a].iface = f => e.addr[a] = NoAddr
      /\ \A a \in Addrs : A[a].iface # f => e.addr[a] = A[a]
  BY <1>1
<1>10. e.addr \in [Addrs -> AddrRows]
  BY <1>1, <1>2, <1>7 DEF Rows
<1>11. \A a \in Addrs : A[a].iface # f =>
         /\ A[a].iface # None => e.iface[A[a].iface] = F[A[a].iface]
         /\ A[a].second # None => e.iface[A[a].second] = F[A[a].second]
  BY <1>5, <1>6, <1>8, Zenon
<1>12. Owned(e.iface, e.addr)
  <2> SUFFICES ASSUME NEW a \in Addrs PROVE OwnedBy(e.iface, e.addr[a])
    BY Zenon DEF Owned
  <2>1. CASE A[a].iface = f
    BY <2>1, <1>7, <1>9, Zenon DEF OwnedBy
  <2>2. CASE A[a].iface # f
    BY <2>2, <1>2, <1>9, <1>11 DEF Owned, OwnedBy
  <2> QED
    BY <2>1, <2>2, Zenon
<1>13. Rooted(e.iface, e.addr)
  BY <1>2, <1>8, <1>9 DEF Rooted
<1>14. Bare(e.iface, e.addr)
  <2> SUFFICES ASSUME NEW a \in Addrs, e.addr[a].second # None
               PROVE  e.iface[e.addr[a].second].inst # None
    BY Zenon DEF Bare
  <2>1. A[a].iface # f
    BY <1>7, <1>9, Zenon
  <2> QED
    BY <2>1, <1>2, <1>9, <1>11 DEF Bare
<1>15. Paired(e.iface, e.addr)
  <2> SUFFICES ASSUME NEW a \in Addrs PROVE PairedBy(e.iface, e.addr[a])
    BY Zenon DEF Paired
  <2>1. CASE A[a].iface = f
    BY <2>1, <1>7, <1>9, Zenon DEF PairedBy
  <2>2. CASE A[a].iface # f
    BY <2>2, <1>2, <1>9, <1>11 DEF Paired, PairedBy
  <2> QED
    BY <2>1, <2>2, Zenon
<1>16. e.fip \in [Fips -> FipRows] /\ ~e.fip[p].row /\ \A q \in Fips : q # p => e.fip[q] = d.fip[q]
  BY <1>1, <1>3, <1>7
<1>17. Backed(e.iface, e.fip)
  <2> SUFFICES ASSUME NEW q \in Fips, e.fip[q].row
               PROVE  \E g \in Ifaces : e.iface[g].live /\ e.iface[g].fip = q
    BY Zenon DEF Backed
  <2>1. q # p /\ d.fip[q].row
    BY <1>16, Zenon
  <2>2. PICK g \in Ifaces : F[g].live /\ F[g].fip = q
    BY <2>1, <1>3, Zenon DEF Backed
  <2> QED
    BY <2>1, <2>2, <1>4, <1>8, Zenon
<1>18. Tables(e)
  BY <1>1, <1>8, <1>10, <1>12, <1>13, <1>14, <1>15, <1>16, <1>17, Zenon DEF Tables, Links, Rows
<1> QED
  BY <1>18, Zenon DEF e

(* A list of one or two of the floating addresses in S. *)
LEMMA ListOf ==
  ASSUME NEW S, NEW ps \in PublicIps(S)
  PROVE  ps[1] \in S /\ \A n \in 2..Len(ps) : ps[n] \in S /\ ps[n] # ps[1]
<1>1. CASE \E p \in S : ps = <<p>>
  <2>1. PICK p \in S : ps = <<p>>
    BY <1>1, Zenon
  <2>2. Len(ps) = 1 /\ ps[1] = p
    BY <2>1, Zenon
  <2> QED
    BY <2>2
<1>2. CASE ps \in S \X S /\ ps[1] # ps[2]
  <2>1. PICK p \in S, q \in S : ps = <<p, q>>
    BY <1>2
  <2>2. Len(ps) = 2 /\ ps[1] = p /\ ps[2] = q
    BY <2>1, Zenon
  <2>3. \A n \in 2..2 : n = 2
    OBVIOUS
  <2> QED
    BY <1>2, <2>2, <2>3, Zenon
<1> QED
  BY <1>1, <1>2, Zenon DEF PublicIps

(* DerivePublicInterface. *)
LEMMA DeriveTables ==
  ASSUME NEW d, Tables(d), NEW i \in Insts, NEW keep \in BOOLEAN,
         NEW S, S \subseteq Fips, \A p \in S : d.fip[p].row, NEW ps \in PublicIps(S),
         keep => /\ PrimaryOf(d, i) \in Ifaces /\ d.iface[PrimaryOf(d, i)].live
                 /\ d.iface[PrimaryOf(d, i)].fip = ps[1]
  PROVE  Tables(DerivePublicInterface(d, i, keep, ps))
<1> DEFINE e == DerivePublicInterface(d, i, keep, ps)
           F == d.iface
           A == d.addr
           first == IF keep THEN PrimaryOf(d, i) ELSE FipIface(d, ps[1])
           own == AddrOf(d, first)
           more == {FipAddr(d, ps[n]) : n \in 2..Len(ps)}
           G == [F EXCEPT ![first] = [@ EXCEPT !.inst = i, !.primary = TRUE]]
           New(a) == IF a = own THEN [A[a] EXCEPT !.second = None]
                     ELSE IF a \in more THEN [A[a] EXCEPT !.second = first] ELSE A[a]
           B == [a \in Addrs |-> New(a)]
           P == [p \in Fips |-> IF \E n \in 1..Len(ps) : ps[n] = p
                                THEN [d.fip[p] EXCEPT !.type = "reserved", !.inst = i] ELSE d.fip[p]]
<1>1. Shape(e) /\ e.iface = G /\ e.addr = B /\ e.fip = P
  <2>1. Shape(d)
    BY Zenon DEF Tables
  <2>2. e = [d EXCEPT !.iface = G, !.addr = B, !.fip = P]
    BY Zenon DEF DerivePublicInterface
  <2> HIDE DEF e, G, B, P
  <2> QED
    BY <2>1, <2>2, Zenon DEF Shape
<1>2. Links(F, A) /\ Rows(F, A) /\ Owned(F, A) /\ Rooted(F, A) /\ Bare(F, A)
  BY Zenon DEF Tables, Links
<1>3. Backed(F, d.fip) /\ d.fip \in [Fips -> FipRows]
  BY Zenon DEF Tables
<1>4. ps[1] \in S /\ \A n \in 2..Len(ps) : ps[n] \in S /\ ps[n] # ps[1]
  BY ListOf, Zenon
<1>5. \A p \in S : FipIface(d, p) \in Ifaces /\ F[FipIface(d, p)].live /\ F[FipIface(d, p)].fip = p
  BY <1>3, Zenon DEF Backed, FipIface
<1>6. first \in Ifaces /\ F[first].live /\ F[first].fip = ps[1]
  BY <1>4, <1>5, Zenon
<1>7. \A f \in Ifaces : F[f].live => AddrOf(d, f) \in Addrs /\ A[AddrOf(d, f)].iface = f
  BY <1>2, Zenon DEF Rooted, AddrOf
<1>8. own \in Addrs /\ A[own].iface = first
  BY <1>6, <1>7, ZenonT(60)
<1>9. \A a \in more : /\ a \in Addrs /\ A[a].iface \in Ifaces
                      /\ F[A[a].iface].fip \in S /\ F[A[a].iface].fip # ps[1]
  <2> SUFFICES ASSUME NEW n \in 2..Len(ps)
               PROVE  LET a == FipAddr(d, ps[n])
                      IN  /\ a \in Addrs /\ A[a].iface \in Ifaces
                          /\ F[A[a].iface].fip \in S /\ F[A[a].iface].fip # ps[1]
    BY Zenon
  <2> QED
    BY <1>4, <1>5, <1>7 DEF FipAddr
<1>10. None \notin Ifaces /\ None \notin Fips /\ None \notin Insts
  BY InstanceNetAssumption, Zenon
<1> HIDE DEF e, F, A, first, own, more, New
<1>11. G \in [Ifaces -> IfaceRows] /\ G[first].inst = i
       /\ \A f \in Ifaces : G[f].live = F[f].live /\ G[f].fip = F[f].fip /\ (f # first => G[f] = F[f])
  <2>1. F[first] \in IfaceRows /\ F \in [Ifaces -> IfaceRows]
    BY <1>2, <1>6, Zenon DEF Rows
  <2> DEFINE r == [F[first] EXCEPT !.inst = i, !.primary = TRUE]
  <2>2. r \in IfaceRows /\ r.inst = i /\ r.live = F[first].live /\ r.fip = F[first].fip
    BY <2>1, Zenon DEF IfaceRows
  <2>3. G = [F EXCEPT ![first] = r]
    BY Zenon
  <2> HIDE DEF r, G
  <2> QED
    BY <2>1, <2>2, <2>3, <1>6, Zenon
<1> HIDE DEF G
<1>12. Links(G, A)
  <2>1. \A a \in Addrs : A[a].second # None => A[a].second \in Ifaces
    BY <1>2, Columns, Zenon
  <2>2. \A a \in Addrs : A[a].second # None => G[A[a].second].inst # None
    BY <2>1, <1>2, <1>10, <1>11, Zenon DEF Bare
  <2> QED
    BY <2>2, <1>2, <1>11, MoveLinks
<1>13. \A a \in Addrs : New(a) \in AddrRows /\ (New(a) = A[a] \/ Reassigned(G, A[a], New(a)))
  <2> SUFFICES ASSUME NEW a \in Addrs
               PROVE  New(a) \in AddrRows /\ (New(a) = A[a] \/ Reassigned(G, A[a], New(a)))
    BY Zenon
  <2>1. A[a] \in AddrRows /\ OwnedBy(F, A[a])
    BY <1>2, Zenon DEF Rows, Owned
  <2>2. CASE a = own
    <3>1. New(a) = [A[a] EXCEPT !.second = None]
      BY <2>2, Zenon DEF New
    <3>2. /\ New(a) \in AddrRows /\ New(a).second = None /\ New(a).alloc = A[a].alloc
          /\ New(a).iface = A[a].iface
      BY <3>1, <2>1, Zenon DEF AddrRows
    <3> QED
      BY <3>2, <2>1, <2>2, <1>6, <1>8, <1>10, Zenon DEF Reassigned, OwnedBy
  <2>3. CASE a # own /\ a \in more
    <3>1. New(a) = [A[a] EXCEPT !.second = first]
      BY <2>3, Zenon DEF New
    <3>2. /\ New(a) \in AddrRows /\ New(a).second = first /\ New(a).alloc = A[a].alloc
          /\ New(a).iface = A[a].iface
      BY <3>1, <2>1, <1>6, Zenon DEF AddrRows
    <3>3. A[a].iface \in Ifaces /\ F[A[a].iface].fip # None /\ A[a].iface # first
      BY <2>3, <1>6, <1>9, <1>10, Zenon
    <3>4. ps[1] # None /\ F[first].live
      BY <1>4, <1>6, <1>10, Zenon
    <3> QED
      BY <3>2, <3>3, <3>4, <2>1, <1>6, <1>10, <1>11, Zenon DEF Reassigned, OwnedBy
  <2>4. CASE a # own /\ a \notin more
    BY <2>1, <2>4, Zenon DEF New
  <2> QED
    BY <2>2, <2>3, <2>4, Zenon
<1>14. Links(G, B)
  <2>1. B \in [Addrs -> AddrRows] /\ \A a \in Addrs : B[a] = New(a)
    BY <1>13, Zenon
  <2> HIDE DEF B
  <2> QED
    BY <2>1, <1>12, <1>13, SecondLinks
<1>15. P \in [Fips -> FipRows] /\ \A p \in Fips : P[p].row = d.fip[p].row
  <2>1. \A p \in Fips : d.fip[p] \in FipRows
    BY <1>3, Zenon
  <2>2. \A p \in Fips : LET r == [d.fip[p] EXCEPT !.type = "reserved", !.inst = i]
                        IN  r \in FipRows /\ r.row = d.fip[p].row
    BY <2>1, Zenon DEF FipRows
  <2>3. \A p \in Fips : P[p] = d.fip[p] \/ P[p] = [d.fip[p] EXCEPT !.type = "reserved", !.inst = i]
    BY Zenon
  <2>4. P = [p \in Fips |-> P[p]]
    BY Zenon
  <2> HIDE DEF P
  <2> QED
    BY <2>1, <2>2, <2>3, <2>4, Zenon
<1>16. Backed(G, P)
  <2> HIDE DEF P
  <2> QED
    BY <1>3, <1>11, <1>15 DEF Backed
<1>17. Tables(e)
  <2> HIDE DEF P, B
  <2> QED
    BY <1>1, <1>14, <1>15, <1>16, Zenon DEF Tables
<1> QED
  BY <1>17, Zenon DEF e

(* ReleaseFips. *)
LEMMA ReleaseFipsTables ==
  ASSUME NEW d, Tables(d), NEW S
  PROVE  /\ Tables(ReleaseFips(d, S))
         /\ ReleaseFips(d, S).iface = d.iface /\ ReleaseFips(d, S).addr = d.addr
         /\ \A p \in Fips : ReleaseFips(d, S).fip[p].row = d.fip[p].row
<1> DEFINE e == ReleaseFips(d, S)
           P == [p \in Fips |-> IF p \in S THEN [d.fip[p] EXCEPT !.type = "floating", !.inst = None]
                                ELSE d.fip[p]]
<1>1. Shape(d) /\ d.fip \in [Fips -> FipRows]
  BY Zenon DEF Tables
<1>2. e = [d EXCEPT !.fip = P]
  BY Zenon DEF ReleaseFips
<1>3. P \in [Fips -> FipRows] /\ \A p \in Fips : P[p].row = d.fip[p].row
  <2>1. \A p \in Fips : d.fip[p] \in FipRows
    BY <1>1, Zenon
  <2>2. \A p \in Fips : LET r == [d.fip[p] EXCEPT !.type = "floating", !.inst = None]
                        IN  r \in FipRows /\ r.row = d.fip[p].row
    BY <2>1, Zenon DEF FipRows
  <2>3. \A p \in Fips : P[p] = d.fip[p] \/ P[p] = [d.fip[p] EXCEPT !.type = "floating", !.inst = None]
    BY Zenon
  <2>4. P = [p \in Fips |-> P[p]]
    BY Zenon
  <2> HIDE DEF P
  <2> QED
    BY <2>1, <2>2, <2>3, <2>4, Zenon
<1> HIDE DEF P, e
<1>4. Shape(e) /\ e.iface = d.iface /\ e.addr = d.addr /\ e.fip = P
  BY <1>1, <1>2, Zenon DEF Shape
<1>5. Tables(e)
  BY <1>3, <1>4, SameLinks, Zenon
<1> QED
  BY <1>3, <1>4, <1>5, Zenon DEF e

(* A change of instances and native addresses only. *)
LEMMA Unrelated ==
  ASSUME NEW d, NEW e, Tables(d), Shape(e), e.iface = d.iface, e.addr = d.addr, e.fip = d.fip
  PROVE  Tables(e)
BY SameLinks, Zenon DEF Tables

(* PendingRow changes only the row of the instance. *)
LEMMA PendingTables ==
  ASSUME NEW d, Tables(d), NEW i \in Insts, NEW router \in BOOLEAN, NEW net
  PROVE  /\ Tables(PendingRow(d, i, router)) /\ PendingRow(d, i, router).fip = d.fip
         /\ FreeIfaces(PendingRow(d, i, router)) = FreeIfaces(d)
         /\ FreeAddrs(PendingRow(d, i, router), net) = FreeAddrs(d, net)
<1> DEFINE e == PendingRow(d, i, router)
           I == [d.inst EXCEPT ![i] = [row |-> "live", status |-> "pending", hyper |-> None,
                                       router |-> router, boot |-> TRUE]]
<1>1. e = [d EXCEPT !.inst = I]
  BY Zenon DEF PendingRow
<1> HIDE DEF e, I
<1>2. Shape(e) /\ e.iface = d.iface /\ e.addr = d.addr /\ e.fip = d.fip
  BY <1>1, Zenon DEF Shape, Tables
<1>3. Tables(e)
  BY <1>2, Unrelated, Zenon
<1>4. FreeIfaces(e) = FreeIfaces(d) /\ FreeAddrs(e, net) = FreeAddrs(d, net)
  BY <1>2, Zenon DEF FreeIfaces, FreeAddrs
<1> QED
  BY <1>2, <1>3, <1>4, Zenon DEF e

(* CreateInterface for an instance. *)
LEMMA NicTables ==
  ASSUME NEW d, Tables(d), NEW i \in Insts, NEW net, NEW primary \in BOOLEAN,
         FreeAddrs(d, net) # {}, FreeIfaces(d) # {}
  PROVE  Tables(CreateInterface(d, i, None, net, primary))
<1>1. /\ Shape(d) /\ Links(d.iface, d.addr) /\ d.fip \in [Fips -> FipRows]
      /\ \A q \in Fips : d.fip[q].row /\ q # None => \E f \in Ifaces : d.iface[f].live /\ d.iface[f].fip = q
  BY Zenon DEF Tables, Backed
<1>2. i \in Insts \cup {None} /\ None \in Fips \cup {None}
  BY Zenon
<1> QED
  BY <1>1, <1>2, CreateInterfaceTables, Zenon
-----------------------------------------------------------------------------
(* One lemma per request. *)
LEMMA CreateVpcTables ==
  ASSUME Tables(db), NEW i \in Insts, CreateVpc(i)
  PROVE  Tables(db')
<1> DEFINE d == PendingRow(db, i, TRUE)
<1>1. FreeIfaces(db) # {} /\ FreeAddrs(db, "vpc1") # {} /\ db' = CreateInterface(d, i, None, "vpc1", TRUE)
  BY Zenon DEF CreateVpc, InstanceCreate
<1>2. Tables(d) /\ FreeIfaces(d) # {} /\ FreeAddrs(d, "vpc1") # {}
  <2>1. FreeIfaces(db) # {} /\ FreeAddrs(db, "vpc1") # {}
    BY <1>1, Zenon
  <2>2. Tables(d) /\ FreeIfaces(d) = FreeIfaces(db) /\ FreeAddrs(d, "vpc1") = FreeAddrs(db, "vpc1")
    BY PendingTables, Zenon
  <2> QED
    BY <2>1, <2>2, Zenon
<1> HIDE DEF d
<1> QED
  BY <1>1, <1>2, NicTables, Zenon

LEMMA CreateNativeTables ==
  ASSUME Tables(db), NEW i \in Insts, CreateNative(i)
  PROVE  Tables(db')
<1> DEFINE c == PendingRow(db, i, FALSE)
           d == CreateInterface(c, i, None, "pub", TRUE)
           new == d.native \cup {<<i, AddrOf(d, PrimaryOf(d, i))>>}
<1>1. FreeIfaces(db) # {} /\ FreeAddrs(db, "pub") # {} /\ db' = [d EXCEPT !.native = new]
  BY Zenon DEF CreateNative, InstanceCreate
<1>2. Tables(c) /\ FreeIfaces(c) # {} /\ FreeAddrs(c, "pub") # {}
  <2>1. FreeIfaces(db) # {} /\ FreeAddrs(db, "pub") # {}
    BY <1>1, Zenon
  <2>2. Tables(c) /\ FreeIfaces(c) = FreeIfaces(db) /\ FreeAddrs(c, "pub") = FreeAddrs(db, "pub")
    BY PendingTables, Zenon
  <2> QED
    BY <2>1, <2>2, Zenon
<1> HIDE DEF c
<1>3. Tables(d)
  BY <1>2, NicTables, Zenon
<1> HIDE DEF d, new
<1>4. Shape(db') /\ db'.iface = d.iface /\ db'.addr = d.addr /\ db'.fip = d.fip
  BY <1>1, <1>3, Zenon DEF Tables, Shape
<1> QED
  BY <1>3, <1>4, Unrelated, Zenon

LEMMA CreateReservedTables ==
  ASSUME Tables(db), NEW i \in Insts, CreateReserved(i)
  PROVE  Tables(db')
<1> DEFINE S == {p \in Fips : Unused(db, p)}
           d == PendingRow(db, i, FALSE)
<1>1. PICK ps \in PublicIps(S) : db' = DerivePublicInterface(d, i, FALSE, ps)
  BY Zenon DEF CreateReserved, InstanceCreate
<1>2. Tables(d) /\ d.fip = db.fip
  BY PendingTables, Zenon
<1>3. S \subseteq Fips /\ \A p \in S : d.fip[p].row
  BY <1>2, Zenon DEF Unused
<1> HIDE DEF S, d
<1> QED
  BY <1>1, <1>2, <1>3, DeriveTables, Zenon

LEMMA InstanceDeleteTables ==
  ASSUME Tables(db), NEW i \in Insts, InstanceDelete(i)
  PROVE  Tables(db')
<1> DEFINE d == ReleaseFips(db, FipsOf(db, i))
           rest == {x \in d.native : x[1] # i}
<1>1. db' = [d EXCEPT !.inst[i].status = "deleting", !.inst[i].boot = FALSE, !.native = rest]
  BY Zenon DEF InstanceDelete
<1>2. Tables(d)
  BY ReleaseFipsTables, Zenon
<1> HIDE DEF d, rest
<1>3. Shape(db') /\ db'.iface = d.iface /\ db'.addr = d.addr /\ db'.fip = d.fip
  BY <1>1, <1>2, Zenon DEF Tables, Shape
<1> QED
  BY <1>2, <1>3, Unrelated, Zenon

LEMMA StatusTables ==
  ASSUME Tables(db), NEW i, NEW r, NEW status, NEW c, StatusRequest(r, i, status, c)
  PROVE  Tables(db')
<1>1. db' = [db EXCEPT !.inst[i].status = status]
  BY Zenon DEF StatusRequest
<1>2. Shape(db') /\ db'.iface = db.iface /\ db'.addr = db.addr /\ db'.fip = db.fip
  BY <1>1, Zenon DEF Tables, Shape
<1> QED
  BY <1>2, Unrelated, Zenon

LEMMA InterfaceCreateTables ==
  ASSUME Tables(db), NEW i \in Insts, InterfaceCreate(i)
  PROVE  Tables(db')
<1>1. PICK net \in {"pub", "vpc1", "vpc2"} :
        LET f == FirstFreeIface(db)
            d == CreateInterface(db, i, None, net, IfacesOf(db, i) = {})
        IN  /\ FreeAddrs(db, net) # {} /\ FreeIfaces(db) # {}
            /\ db' = [d EXCEPT !.inst[i].router = @ \/ net # "pub",
                               !.native = IF net = "pub" THEN @ \cup {<<i, AddrOf(d, f)>>} ELSE @]
  BY ZenonT(30) DEF InterfaceCreate
<1> DEFINE d == CreateInterface(db, i, None, net, IfacesOf(db, i) = {})
           new == IF net = "pub" THEN d.native \cup {<<i, AddrOf(d, FirstFreeIface(db))>>} ELSE d.native
           I == [d.inst EXCEPT ![i].router = @ \/ net # "pub"]
<1>2. db' = [d EXCEPT !.inst = I, !.native = new]
  BY <1>1, Zenon
<1>3. (IfacesOf(db, i) = {}) \in BOOLEAN
  BY Zenon
<1>4. Tables(d)
  BY <1>1, <1>3, NicTables, Zenon
<1> HIDE DEF d, new, I
<1>5. Shape(db') /\ db'.iface = d.iface /\ db'.addr = d.addr /\ db'.fip = d.fip
  BY <1>2, <1>4, Zenon DEF Tables, Shape
<1> QED
  BY <1>4, <1>5, Unrelated, Zenon

(* The primary interface that changeAddresses is called for. *)
LEMMA PrimaryLive ==
  ASSUME NEW i \in Insts, Patchable(i)
  PROVE  /\ PrimaryOf(db, i) \in Ifaces /\ db.iface[PrimaryOf(db, i)].live
         /\ db.iface[PrimaryOf(db, i)].inst = i
BY Zenon DEF Patchable, PrimaryOf, IfacesOf

LEMMA PatchGrowTables ==
  ASSUME Tables(db), NEW i \in Insts, PatchGrow(i)
  PROVE  Tables(db')
<1> DEFINE f == PrimaryOf(db, i)
           d == AllocateAddress(db, "pub", f, "second")
           new == d.native \cup {<<i, Min(FreeAddrs(db, "pub"))>>}
<1>1. Patchable(i) /\ db.iface[f].fip = None /\ FreeAddrs(db, "pub") # {} /\ db' = [d EXCEPT !.native = new]
  BY Zenon DEF PatchGrow, PatchTo
<1>2. f \in Ifaces /\ db.iface[f].live /\ db.iface[f].inst # None
  BY <1>1, PrimaryLive, InstanceNetAssumption, Zenon
<1> HIDE DEF f
<1>3. Tables(d)
  BY <1>1, <1>2, AllocateSecond, Zenon
<1> HIDE DEF d, new
<1>4. Shape(db') /\ db'.iface = d.iface /\ db'.addr = d.addr /\ db'.fip = d.fip
  BY <1>1, <1>3, Zenon DEF Tables, Shape
<1> QED
  BY <1>3, <1>4, Unrelated, Zenon

LEMMA PatchShrinkTables ==
  ASSUME Tables(db), NEW i \in Insts, PatchShrink(i), plan["trim"] = 0
  PROVE  Tables(db')
<1> DEFINE f == PrimaryOf(db, i)
<1>1. PICK a \in SecondsOf(db, f) :
        /\ Patchable(i) /\ (db.iface[f].fip = None \/ plan["trim"] > 0)
        /\ db' = [db EXCEPT !.addr[a] = [@ EXCEPT !.second = None, !.alloc = FALSE]]
  BY Zenon DEF PatchShrink, PatchTo
<1>2. f \in Ifaces /\ db.iface[f].fip = None
  BY <1>1, PrimaryLive
<1> HIDE DEF f
<1> QED
  BY <1>1, <1>2, ReleaseSecond, Zenon

(* changeAddresses: the second addresses of f, which a floating address    *)
(* brought, are given up, ...                                              *)
GivenUp(d, e, f) ==
  /\ Shape(e) /\ e.iface = d.iface /\ e.fip = d.fip
  /\ e.addr = [a \in Addrs |-> IF d.addr[a].second = f THEN [d.addr[a] EXCEPT !.second = None] ELSE d.addr[a]]

LEMMA ResetTables ==
  ASSUME NEW d, Tables(d), NEW f \in Ifaces, d.iface[f].fip # None, NEW e, GivenUp(d, e, f)
  PROVE  Tables(e) /\ \A a \in Addrs : e.addr[a].second # f
<1> DEFINE New(a) == IF d.addr[a].second = f THEN [d.addr[a] EXCEPT !.second = None] ELSE d.addr[a]
<1>1. Links(d.iface, d.addr) /\ Owned(d.iface, d.addr) /\ Paired(d.iface, d.addr)
      /\ d.addr \in [Addrs -> AddrRows] /\ f # None
  BY InstanceNetAssumption, Zenon DEF Tables, Links, Rows
<1>2. \A a \in Addrs : /\ New(a) \in AddrRows /\ New(a).second # f
                       /\ (New(a) = d.addr[a] \/ Reassigned(d.iface, d.addr[a], New(a)))
  <2> SUFFICES ASSUME NEW a \in Addrs
               PROVE  /\ New(a) \in AddrRows /\ New(a).second # f
                      /\ (New(a) = d.addr[a] \/ Reassigned(d.iface, d.addr[a], New(a)))
    BY Zenon
  <2>1. d.addr[a] \in AddrRows /\ OwnedBy(d.iface, d.addr[a]) /\ PairedBy(d.iface, d.addr[a])
    BY <1>1, Zenon DEF Owned, Paired
  <2>2. CASE d.addr[a].second = f
    <3>1. New(a) = [d.addr[a] EXCEPT !.second = None]
      BY <2>2, Zenon
    <3> HIDE DEF New
    <3>2. /\ New(a) \in AddrRows /\ New(a).second = None /\ New(a).alloc = d.addr[a].alloc
          /\ New(a).iface = d.addr[a].iface
      BY <3>1, <2>1, Zenon DEF AddrRows
    <3>3. d.addr[a].iface # None
      BY <2>1, <2>2, <1>1, Zenon DEF PairedBy
    <3> QED
      BY <3>2, <3>3, <2>1, <1>1, Zenon DEF Reassigned, OwnedBy
  <2>3. CASE d.addr[a].second # f
    BY <2>1, <2>3, Zenon
  <2> QED
    BY <2>2, <2>3, Zenon
<1> HIDE DEF New
<1>3. e.addr = [a \in Addrs |-> New(a)]
  BY Zenon DEF New, GivenUp
<1>4. e.addr \in [Addrs -> AddrRows] /\ \A a \in Addrs : e.addr[a] = New(a)
  BY <1>2, <1>3, Zenon
<1>5. Links(d.iface, e.addr)
  BY <1>1, <1>2, <1>4, SecondLinks
<1> QED
  BY <1>2, <1>4, <1>5, Zenon DEF Tables, GivenUp

(* ... and f itself leaves the instance. *)
LEMMA LeaveTables ==
  ASSUME NEW d, Tables(d), NEW f \in Ifaces, \A a \in Addrs : d.addr[a].second # f, NEW e, Shape(e),
         e.addr = d.addr, e.fip = d.fip,
         e.iface = [d.iface EXCEPT ![f] = [@ EXCEPT !.inst = None, !.primary = FALSE]]
  PROVE  Tables(e)
<1> DEFINE r == [d.iface[f] EXCEPT !.inst = None, !.primary = FALSE]
<1>1. Links(d.iface, d.addr) /\ Rows(d.iface, d.addr) /\ Bare(d.iface, d.addr) /\ d.iface[f] \in IfaceRows
  BY Zenon DEF Tables, Links, Rows
<1>2. r \in IfaceRows /\ r.live = d.iface[f].live /\ r.fip = d.iface[f].fip
  BY <1>1, Zenon DEF IfaceRows
<1>3. e.iface = [d.iface EXCEPT ![f] = r]
  BY Zenon
<1> HIDE DEF r
<1>4. e.iface \in [Ifaces -> IfaceRows] /\ e.iface[f] = r /\ \A g \in Ifaces : g # f => e.iface[g] = d.iface[g]
  BY <1>1, <1>2, <1>3, Zenon DEF Rows
<1>5. \A g \in Ifaces : e.iface[g].live = d.iface[g].live /\ e.iface[g].fip = d.iface[g].fip
  BY <1>2, <1>4, Zenon
<1>6. \A a \in Addrs : d.addr[a].second # None => e.iface[d.addr[a].second].inst # None
  BY <1>1, <1>4, Columns DEF Bare
<1>7. Links(e.iface, d.addr)
  <2> DEFINE F == d.iface
             A == d.addr
             G == e.iface
  <2>1. Links(F, A) /\ G \in [Ifaces -> IfaceRows]
    BY <1>1, <1>4, Zenon
  <2>2. \A g \in Ifaces : G[g].live = F[g].live /\ G[g].fip = F[g].fip
    BY <1>5, Zenon
  <2>3. \A a \in Addrs : A[a].second # None => G[A[a].second].inst # None
    BY <1>6, Zenon
  <2> HIDE DEF F, A, G
  <2>4. Links(G, A)
    BY <2>1, <2>2, <2>3, MoveLinks
  <2> QED
    BY <2>4, Zenon DEF G, A
<1>8. Backed(e.iface, d.fip)
  BY <1>5 DEF Tables, Backed
<1> QED
  BY <1>7, <1>8, Zenon DEF Tables

LEMMA PatchPublicTables ==
  ASSUME Tables(db), NEW i \in Insts, PatchPublic(i)
  PROVE  Tables(db')
<1> DEFINE f == PrimaryOf(db, i)
           fip == db.iface[f].fip
           S == {p \in Fips : db.fip[p].row /\ (Unused(db, p) \/ db.fip[p].inst = i)}
           old == {p \in Fips : \E a \in SecondsOf(db, f) : /\ db.addr[a].iface # None
                                                            /\ db.iface[db.addr[a].iface].fip = p}
           r1 == ReleaseFips(db, old)
           Bs == [a \in Addrs |-> IF r1.addr[a].second = f THEN [r1.addr[a] EXCEPT !.second = None] ELSE r1.addr[a]]
           d1 == [r1 EXCEPT !.addr = Bs]
           r2 == ReleaseFips(d1, {fip})
           Gs == [r2.iface EXCEPT ![f] = [@ EXCEPT !.inst = None, !.primary = FALSE]]
           d2 == [r2 EXCEPT !.iface = Gs]
<1>1. PICK ps \in PublicIps(S) :
        /\ Patchable(i) /\ fip # None
        /\ db' = DerivePublicInterface(IF ps[1] = fip THEN d1 ELSE d2, i, ps[1] = fip, ps)
  BY Zenon DEF PatchPublic, PatchTo
<1>2. f \in Ifaces /\ db.iface[f].live /\ db.iface[f].inst = i
  BY <1>1, PrimaryLive, Zenon
<1>3. S \subseteq Fips /\ \A p \in S : db.fip[p].row
  BY Zenon
<1>4. PrimaryOf(db, i) = f
  BY Zenon
<1> HIDE DEF f, S
<1>5. /\ Tables(r1) /\ r1.iface = db.iface /\ r1.addr = db.addr
      /\ \A p \in Fips : r1.fip[p].row = db.fip[p].row
  <2> HIDE DEF old
  <2> QED
    BY ReleaseFipsTables, Zenon
<1> HIDE DEF r1
<1>6. Shape(d1) /\ d1.iface = r1.iface /\ d1.fip = r1.fip /\ d1.addr = Bs
  <2>1. Shape(r1)
    BY <1>5, Zenon DEF Tables
  <2> HIDE DEF Bs
  <2> QED
    BY <2>1 DEF Shape
<1> HIDE DEF d1
<1>7. Tables(d1) /\ \A a \in Addrs : d1.addr[a].second # f
  <2>1. r1.iface[f].fip # None
    BY <1>1, <1>5, Zenon
  <2>2. GivenUp(r1, d1, f)
    BY <1>6, Zenon DEF GivenUp
  <2> QED
    BY <2>1, <2>2, <1>2, <1>5, ResetTables, ZenonT(60)
<1> HIDE DEF Bs
<1>8. /\ Tables(r2) /\ r2.iface = d1.iface /\ r2.addr = d1.addr
      /\ \A p \in Fips : r2.fip[p].row = d1.fip[p].row
  <2> HIDE DEF fip
  <2> QED
    BY <1>7, ReleaseFipsTables, Zenon
<1> HIDE DEF r2
<1>9. Shape(d2) /\ d2.iface = Gs /\ d2.fip = r2.fip /\ d2.addr = r2.addr
  <2>1. Shape(r2)
    BY <1>8, Zenon DEF Tables
  <2> HIDE DEF Gs
  <2> QED
    BY <2>1 DEF Shape
<1> HIDE DEF d2
<1>10. Tables(d2)
  <2>1. \A a \in Addrs : r2.addr[a].second # f
    BY <1>7, <1>8, Zenon
  <2> QED
    BY <2>1, <1>2, <1>8, <1>9, LeaveTables, Zenon
<1> HIDE DEF Gs
<1>11. CASE ps[1] = fip
  <2>1. db' = DerivePublicInterface(d1, i, TRUE, ps)
    BY <1>1, <1>11, Zenon
  <2>2. \A p \in S : d1.fip[p].row
    BY <1>3, <1>5, <1>6, Zenon
  <2>3. PrimaryOf(d1, i) = f
    <3>1. d1.iface = db.iface
      BY <1>5, <1>6, Zenon
    <3> QED
      BY <3>1, <1>4, Zenon DEF PrimaryOf, IfacesOf
  <2>4. d1.iface[f].live /\ d1.iface[f].fip = ps[1]
    BY <1>2, <1>5, <1>6, <1>11, Zenon
  <2> QED
    BY <2>1, <2>2, <2>3, <2>4, <1>2, <1>3, <1>7, DeriveTables, Zenon
<1>12. CASE ps[1] # fip
  <2>1. db' = DerivePublicInterface(d2, i, FALSE, ps)
    BY <1>1, <1>12, Zenon
  <2>2. \A p \in S : d2.fip[p].row
    BY <1>3, <1>5, <1>6, <1>8, <1>9, Zenon
  <2> QED
    BY <2>1, <2>2, <1>3, <1>10, DeriveTables, Zenon
<1> QED
  BY <1>11, <1>12, Zenon

(* A floating address is attached, to an instance or to none. *)
LEMMA AttachTables ==
  ASSUME NEW d, Tables(d), NEW p \in Fips, d.fip[p].row, NEW i \in Insts, NEW q, Attach(q, d, p, i)
  PROVE  Tables(db')
<1> DEFINE r == [row |-> TRUE, type |-> "floating", inst |-> i]
           P == [d.fip EXCEPT ![p] = r]
<1>1. db' = [d EXCEPT !.fip = P]
  BY Zenon DEF Attach
<1>2. r \in FipRows
  BY Zenon DEF FipRows
<1> HIDE DEF r
<1>3. P \in [Fips -> FipRows] /\ \A x \in Fips : P[x].row => d.fip[x].row
  BY <1>2, Zenon DEF Tables
<1> HIDE DEF P
<1>4. Shape(db') /\ db'.iface = d.iface /\ db'.addr = d.addr /\ db'.fip = P
  BY <1>1, Zenon DEF Tables, Shape
<1> QED
  BY <1>3, <1>4, SameLinks, Zenon

LEMMA FloatingIpCreateTables ==
  ASSUME Tables(db), NEW p \in Fips, FloatingIpCreate(p)
  PROVE  Tables(db')
<1> DEFINE r == [db.fip[p] EXCEPT !.row = TRUE]
           P == [db.fip EXCEPT ![p] = r]
           c == [db EXCEPT !.fip = P]
           d == CreateInterface(c, None, p, "pub", FALSE)
<1>1. FreeAddrs(db, "pub") # {} /\ FreeIfaces(db) # {}
  BY Zenon DEF FloatingIpCreate
<1>2. db' = d \/ \E i \in Insts : Attach(cmds, d, p, i)
  BY Zenon DEF FloatingIpCreate
<1>3. db.fip \in [Fips -> FipRows] /\ Shape(db) /\ Links(db.iface, db.addr) /\ Backed(db.iface, db.fip)
  BY Zenon DEF Tables
<1>4. r \in FipRows /\ r.row
  <2>1. db.fip[p] \in FipRows
    BY <1>3, Zenon
  <2> QED
    BY <2>1, Zenon DEF FipRows
<1> HIDE DEF r
<1>5. P \in [Fips -> FipRows] /\ P[p] = r /\ \A q \in Fips : q # p => P[q] = db.fip[q]
  BY <1>3, <1>4, Zenon
<1> HIDE DEF P
<1>6. Shape(c) /\ c.iface = db.iface /\ c.addr = db.addr /\ c.fip = P
  BY <1>3 DEF Shape
<1> HIDE DEF c
<1>7. FreeAddrs(c, "pub") # {} /\ FreeIfaces(c) # {}
  BY <1>1, <1>6, Zenon DEF FreeAddrs, FreeIfaces
<1>8. \A q \in Fips : c.fip[q].row /\ q # p => \E f \in Ifaces : c.iface[f].live /\ c.iface[f].fip = q
  BY <1>3, <1>5, <1>6, ZenonT(60) DEF Backed
<1>9. /\ Links(c.iface, c.addr) /\ c.fip \in [Fips -> FipRows]
      /\ None \in Insts \cup {None} /\ p \in Fips \cup {None} /\ FALSE \in BOOLEAN
  BY <1>3, <1>5, <1>6, Zenon
<1>10. Tables(d)
  BY <1>6, <1>7, <1>8, <1>9, CreateInterfaceTables, Zenon
<1>11. d.fip = c.fip
  <2>1. Created(c, d, None, p)
    BY <1>6, <1>7, <1>9, CreateInterfaceLinks, Zenon
  <2> HIDE DEF d
  <2> QED
    BY <2>1, Zenon DEF Created
<1> HIDE DEF d
<1>12. d.fip[p].row
  BY <1>4, <1>5, <1>6, <1>11, Zenon
<1> QED
  BY <1>2, <1>10, <1>12, AttachTables, Zenon

LEMMA FloatingIpAttachTables ==
  ASSUME Tables(db), NEW p \in Fips, FloatingIpAttach(p)
  PROVE  Tables(db')
<1>1. db.fip[p].row /\ \E i \in Insts : Attach(ClearFloating(cmds, p), db, p, i)
  BY Zenon DEF FloatingIpAttach, Found
<1> QED
  BY <1>1, AttachTables, Zenon

LEMMA FloatingIpDetachTables ==
  ASSUME Tables(db), NEW p \in Fips, FloatingIpDetach(p)
  PROVE  Tables(db')
BY ReleaseFipsTables, Zenon DEF FloatingIpDetach

LEMMA FloatingIpDeleteTables ==
  ASSUME AddressInv, Sound(plan), NEW p \in Fips, FloatingIpDelete(p)
  PROVE  Tables(db')
<1>1. Tables(db) /\ db.fip[p].row /\ Cleared(db, p) /\ db' = DeallocateFloatingIp(db, p)
  BY Zenon DEF AddressInv, FloatingIpDelete, Found
<1>2. asked["unfip"] < plan["unfip"] /\ asked["unfip"] \in Nat
  BY Zenon DEF AddressInv, FloatingIpDelete, Ask, Events
<1>3. plan["reuse"] = 0
  BY <1>2 DEF Sound
<1>4. db.iface[FipIface(db, p)].inst = None
  BY <1>1, <1>3 DEF Cleared
<1> QED
  BY <1>1, <1>4, DeallocateTables, Zenon

-----------------------------------------------------------------------------
(* One lemma per callback. *)
LEMMA ClearVMTables ==
  ASSUME Tables(db), NEW c, ClearVM(c)
  PROVE  Tables(db')
<1> DEFINE d == DeleteInterfaces(db, IfacesOf(db, c.inst))
           I == [d.inst EXCEPT ![c.inst] = [@ EXCEPT !.row = "gone", !.status = "deleted"]]
<1>1. db' = db \/ db' = [d EXCEPT !.inst = I]
  BY Zenon DEF ClearVM
<1>2. Tables(d)
  BY DeleteInterfacesTables, Zenon DEF IfacesOf
<1> HIDE DEF d, I
<1>3. db' = [d EXCEPT !.inst = I] => Shape(db') /\ db'.iface = d.iface /\ db'.addr = d.addr /\ db'.fip = d.fip
  BY <1>2, Zenon DEF Tables, Shape
<1> QED
  BY <1>1, <1>2, <1>3, Unrelated, Zenon

LEMMA DetachInterfaceTables ==
  ASSUME Tables(db), NEW c, DetachInterface(c)
  PROVE  Tables(db')
<1> DEFINE f == c.st
           d == DeleteInterfaces(db, {f})
           vpc == \E g \in IfacesOf(d, c.inst) : NetOf(d, g) # "pub"
           I == [d.inst EXCEPT ![c.inst].router = @ /\ vpc]
<1>1. db' = db \/ (f \in IfacesOf(db, c.inst) /\ db' = [d EXCEPT !.inst = I])
  BY Zenon DEF DetachInterface
<1> HIDE DEF I
<1>2. CASE f \in IfacesOf(db, c.inst) /\ db' = [d EXCEPT !.inst = I]
  <2>1. {f} \subseteq Ifaces
    BY <1>2, Zenon DEF IfacesOf
  <2>2. Tables(d)
    BY <2>1, DeleteInterfacesTables, Zenon
  <2> HIDE DEF d, f
  <2>3. Shape(db') /\ db'.iface = d.iface /\ db'.addr = d.addr /\ db'.fip = d.fip
    BY <1>2, <2>2, Zenon DEF Tables, Shape
  <2> QED
    BY <2>2, <2>3, Unrelated, Zenon
<1> HIDE DEF d, f
<1> QED
  BY <1>1, <1>2, Zenon

(* The other callbacks change the row of the instance, or nothing. *)
LEMMA InstChanged ==
  ASSUME Tables(db), NEW I, db' = db \/ db' = [db EXCEPT !.inst = I]
  PROVE  Tables(db')
<1>1. db' = [db EXCEPT !.inst = I] => Shape(db') /\ db'.iface = db.iface /\ db'.addr = db.addr /\ db'.fip = db.fip
  BY Zenon DEF Tables, Shape
<1> QED
  BY <1>1, Unrelated, Zenon

LEMMA CallbackTables ==
  ASSUME Tables(db), NEW c, CallbackHandler(c)
  PROVE  Tables(db')
<1> DEFINE n == c.inst
<1>1. CASE LaunchVM(c)
  <2> DEFINE I == [db.inst EXCEPT ![n].status = c.st, ![n].hyper = c.hyper]
  <2>1. db' = db \/ db' = [db EXCEPT !.inst = I]
    BY <1>1, Zenon DEF LaunchVM
  <2> HIDE DEF I
  <2> QED
    BY <2>1, InstChanged, Zenon
<1>2. CASE LaunchRefused(c)
  <2> DEFINE I == [db.inst EXCEPT ![n].status = "error"]
  <2>1. db' = db \/ db' = [db EXCEPT !.inst = I]
    BY <1>2, Zenon DEF LaunchRefused
  <2> HIDE DEF I
  <2> QED
    BY <2>1, InstChanged, Zenon
<1>3. CASE ClearVM(c)
  BY <1>3, ClearVMTables, Zenon
<1>4. CASE ActionVM(c)
  <2> DEFINE I == [db.inst EXCEPT ![n].status = c.st]
  <2>1. db' = db \/ db' = [db EXCEPT !.inst = I]
    BY <1>4, Zenon DEF ActionVM
  <2> HIDE DEF I
  <2> QED
    BY <2>1, InstChanged, Zenon
<1>5. CASE InstanceStatus(c)
  <2> DEFINE I == [db.inst EXCEPT ![n] = [@ EXCEPT !.row = "live", !.hyper = c.hyper,
                                                   !.status = IF Live(n) THEN c.st ELSE db.inst[n].status]]
  <2>1. db' = db \/ db' = [db EXCEPT !.inst = I]
    BY <1>5, Zenon DEF InstanceStatus
  <2> HIDE DEF I
  <2> QED
    BY <2>1, InstChanged, Zenon
<1>6. CASE DetachInterface(c)
  BY <1>6, DetachInterfaceTables, Zenon
<1> QED
  BY <1>1, <1>2, <1>3, <1>4, <1>5, <1>6, Zenon DEF CallbackHandler
-----------------------------------------------------------------------------
(* The requests, the scripts, and the invariant. *)
LEMMA InstanceRequestTables ==
  ASSUME AddressInv, Sound(plan), NEW i \in Insts, InstanceRequest(i)
  PROVE  Tables(db')
<1>1. Tables(db) /\ plan["trim"] = 0
  BY Zenon DEF AddressInv, Sound
<1>2. CASE CreateVpc(i)
  BY <1>1, <1>2, CreateVpcTables, Zenon
<1>3. CASE CreateNative(i)
  BY <1>1, <1>3, CreateNativeTables, Zenon
<1>4. CASE CreateReserved(i)
  BY <1>1, <1>4, CreateReservedTables, Zenon
<1>5. CASE InstanceDelete(i)
  BY <1>1, <1>5, InstanceDeleteTables, Zenon
<1>6. CASE InstanceDeleteRefused(i) \/ InterfaceDelete(i)
  BY <1>1, <1>6, Zenon DEF InstanceDeleteRefused, InterfaceDelete
<1>7. CASE InstanceUpdate(i) \/ Rescue(i) \/ EndRescue(i) \/ Resize(i) \/ Reinstall(i)
  <2>1. \E r, status, c : StatusRequest(r, i, status, c)
    BY <1>7, Zenon DEF InstanceUpdate, Rescue, EndRescue, Resize, Reinstall
  <2> QED
    BY <2>1, <1>1, StatusTables, Zenon
<1>8. CASE InterfaceCreate(i)
  BY <1>1, <1>8, InterfaceCreateTables, Zenon
<1>9. CASE PatchGrow(i)
  BY <1>1, <1>9, PatchGrowTables, Zenon
<1>10. CASE PatchShrink(i)
  BY <1>1, <1>10, PatchShrinkTables, Zenon
<1>11. CASE PatchPublic(i)
  BY <1>1, <1>11, PatchPublicTables, Zenon
<1> QED
  BY <1>2, <1>3, <1>4, <1>5, <1>6, <1>7, <1>8, <1>9, <1>10, <1>11, Zenon DEF InstanceRequest

LEMMA FloatingRequestTables ==
  ASSUME AddressInv, Sound(plan), NEW p \in Fips, FloatingRequest(p)
  PROVE  Tables(db')
<1>1. Tables(db)
  BY Zenon DEF AddressInv
<1> QED
  BY <1>1, FloatingIpCreateTables, FloatingIpAttachTables, FloatingIpDetachTables, FloatingIpDeleteTables, Zenon
     DEF FloatingRequest

LEMMA ScriptKeepsTables ==
  ASSUME NEW h \in Hosts, Script(h)
  PROVE  db' = db
BY Zenon DEF Script, ScriptLaunch, ScriptClear, ScriptAction, ScriptSyncNic, ScriptDetachNic, ScriptCreateFloating,
       ScriptClearFloating, ScriptResize, ScriptReinstall, ScriptRescue, ScriptEndRescue, Done

(* Every step spends at most what the scenario allows. *)
Spent == UNCHANGED <<plan, asked>> \/ \E r : Ask(r)

LEMMA NextSpends ==
  ASSUME Next
  PROVE  Spent
<1>1. ASSUME NEW i \in Insts, InstanceRequest(i) PROVE \E r : Ask(r)
  <2>1. CASE CreateVpc(i) \/ CreateNative(i) \/ CreateReserved(i)
    <3>1. Ask("create")
      BY <2>1, Zenon DEF CreateVpc, CreateNative, CreateReserved, InstanceCreate
    <3> QED
      BY <3>1, Zenon
  <2>2. CASE InstanceDelete(i) \/ InstanceDeleteRefused(i)
    <3>1. Ask("delete") \/ Ask("held")
      BY <2>2, Zenon DEF InstanceDelete, InstanceDeleteRefused
    <3> QED
      BY <3>1, Zenon
  <2>3. CASE InstanceUpdate(i) \/ Rescue(i) \/ EndRescue(i) \/ Resize(i) \/ Reinstall(i)
    <3>1. \E r, status, c : StatusRequest(r, i, status, c)
      BY <2>3, Zenon DEF InstanceUpdate, Rescue, EndRescue, Resize, Reinstall
    <3> QED
      BY <3>1, Zenon DEF StatusRequest
  <2>4. CASE InterfaceCreate(i) \/ InterfaceDelete(i)
    <3>1. Ask("nic") \/ Ask("unnic")
      BY <2>4, Zenon DEF InterfaceCreate, InterfaceDelete
    <3> QED
      BY <3>1, Zenon
  <2>5. CASE PatchGrow(i) \/ PatchShrink(i) \/ PatchPublic(i)
    <3>1. Ask("patch")
      BY <2>5, Zenon DEF PatchGrow, PatchShrink, PatchPublic, PatchTo
    <3> QED
      BY <3>1, Zenon
  <2> QED
    BY <1>1, <2>1, <2>2, <2>3, <2>4, <2>5, Zenon DEF InstanceRequest
<1>2. \A p \in Fips : FloatingRequest(p) => \E r : Ask(r)
  BY Zenon DEF FloatingRequest, FloatingIpCreate, FloatingIpAttach, FloatingIpDetach, FloatingIpDelete
<1>3. \A h \in Hosts : Script(h) => Spent
  BY Zenon DEF Script, ScriptLaunch, ScriptClear, ScriptAction, ScriptSyncNic, ScriptDetachNic, ScriptCreateFloating,
         ScriptClearFloating, ScriptResize, ScriptReinstall, ScriptRescue, ScriptEndRescue, NoFault, Spent
<1>4. \A h \in Hosts : HostReboot(h) => \E r : Ask(r)
  BY Zenon DEF HostReboot
<1>5. \A h \in Hosts, i \in Insts : HostReport(h, i) => UNCHANGED <<plan, asked>>
  BY Zenon DEF HostReport
<1>6. \A c : CallbackHandler(c) => UNCHANGED <<plan, asked>>
  BY Zenon DEF CallbackHandler, LaunchVM, LaunchRefused, ClearVM, ActionVM, InstanceStatus, DetachInterface, Handle
<1> QED
  BY <1>1, <1>2, <1>3, <1>4, <1>5, <1>6, Zenon DEF Next, Spent

(* The tables stay sound, whatever the order of requests and callbacks. *)
LEMMA AddressStep ==
  ASSUME AddressInv, Sound(plan), [Next]_vars
  PROVE  AddressInv'
<1>1. Tables(db')
  <2>1. Tables(db)
    BY Zenon DEF AddressInv
  <2>2. CASE UNCHANGED vars
    BY <2>1, <2>2, Zenon DEF vars
  <2>3. ASSUME NEW i \in Insts, InstanceRequest(i) PROVE Tables(db')
    BY <2>3, InstanceRequestTables, Zenon
  <2>4. ASSUME NEW p \in Fips, FloatingRequest(p) PROVE Tables(db')
    BY <2>4, FloatingRequestTables, Zenon
  <2>5. ASSUME NEW h \in Hosts, Script(h) \/ HostReboot(h) \/ \E i \in Insts : HostReport(h, i) PROVE Tables(db')
    <3>1. db' = db
      BY <2>5, ScriptKeepsTables, Zenon DEF HostReboot, HostReport
    <3> QED
      BY <2>1, <3>1, Zenon
  <2>6. ASSUME NEW c \in cbs, CallbackHandler(c) PROVE Tables(db')
    BY <2>1, <2>6, CallbackTables, Zenon
  <2> QED
    BY <2>2, <2>3, <2>4, <2>5, <2>6, Zenon DEF Next
<1>2. plan' = plan /\ asked' \in [Events -> Nat]
  <2>1. CASE UNCHANGED vars
    BY <2>1, Zenon DEF vars, AddressInv
  <2>2. CASE Next
    BY <2>2, NextSpends DEF Spent, Ask, AddressInv
  <2> QED
    BY <2>1, <2>2, Zenon
<1> QED
  BY <1>1, <1>2, Zenon DEF AddressInv

LEMMA AddressInit ==
  ASSUME Init
  PROVE  AddressInv
<1>1. /\ Shape(db) /\ db.iface = [f \in Ifaces |-> NoIface] /\ db.addr = [a \in Addrs |-> NoAddr]
      /\ db.fip = [p \in Fips |-> NoFip]
  BY Zenon DEF Init, Shape
<1>2. /\ NoAddr \in AddrRows /\ ~NoAddr.alloc /\ NoAddr.iface = None /\ NoAddr.second = None
      /\ NoIface \in IfaceRows /\ ~NoIface.live
      /\ NoFip \in FipRows /\ ~NoFip.row
  BY Zenon DEF NoAddr, NoIface, NoFip, AddrRows, IfaceRows, FipRows
<1>3. /\ \A f \in Ifaces : db.iface[f] = NoIface
      /\ \A a \in Addrs : db.addr[a] = NoAddr
      /\ \A p \in Fips : db.fip[p] = NoFip
  BY <1>1, Zenon
<1>4. Rows(db.iface, db.addr) /\ db.fip \in [Fips -> FipRows]
  BY <1>1, <1>2, Zenon DEF Rows
<1>5. Owned(db.iface, db.addr)
  BY <1>2, <1>3, Zenon DEF Owned, OwnedBy
<1>6. Rooted(db.iface, db.addr) /\ Bare(db.iface, db.addr) /\ Paired(db.iface, db.addr)
  BY <1>2, <1>3, Zenon DEF Rooted, Bare, Paired, PairedBy
<1>7. Backed(db.iface, db.fip)
  BY <1>2, <1>3, Zenon DEF Backed
<1>8. plan \in Plans /\ asked \in [Events -> Nat]
  BY Zenon DEF Init
<1> QED
  BY <1>1, <1>4, <1>5, <1>6, <1>7, <1>8, Zenon DEF AddressInv, Tables, Links

(* AddressOwned holds in every scenario that neither trims the second      *)
(* addresses of an interface a floating address brought, nor deletes       *)
(* floating addresses whose interface an instance still has: no order of   *)
(* requests (AllocateAddress, changeAddresses, DerivePublicInterface) and  *)
(* callbacks (ClearVM, DetachInterface) leaks an address or gives it out   *)
(* twice, for any number of instances, interfaces and addresses.           *)
THEOREM AddressesOwned ==
  ASSUME \A p \in Plans : Sound(p)
  PROVE  Spec => []AddressOwned
<1>1. Init => AddressInv
  BY AddressInit, Zenon
<1>2. AddressInv /\ [Next]_vars => AddressInv'
  <2>1. AddressInv => Sound(plan)
    BY Zenon DEF AddressInv
  <2> QED
    BY <2>1, AddressStep, Zenon
<1>3. AddressInv => AddressOwned
  BY Zenon DEF AddressInv, Tables, Links, Owned, OwnedBy, AddressOwned
<1> QED
  BY <1>1, <1>2, <1>3, PTL DEF Spec
=============================================================================
