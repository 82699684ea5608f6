------------------------------ MODULE SciRange ------------------------------
(***************************************************************************)
(* Ranges of back end ids (sci/common/range.cpp) and Group, the sorted     *)
(* vector of ranges in which SCI keeps the members of a group              *)
(* (sci/common/group.cpp).                                                 *)
(***************************************************************************)
EXTENDS Integers, Sequences, SequencesExt

(* The ids first, ..., last - 1. *)
Interval(first, last) == [first |-> first, last |-> last]
Ids(r) == r.first..(r.last - 1)

HoldsRange(a, r) == a.first <= r.first /\ r.last <= a.last

Intersects(a, r) ==
  \/ a.first <= r.first /\ r.first < a.last
  \/ a.first < r.last /\ r.last <= a.last
  \/ HoldsRange(a, r) \/ HoldsRange(r, a)

(* Mutant: neighbours do not touch. *)
TouchesStrict(a, r) ==
  \/ a.first <= r.first /\ r.first < a.last
  \/ a.first < r.last /\ r.last <= a.last
  \/ HoldsRange(a, r) \/ HoldsRange(r, a)

Touches(a, r) ==
  \/ a.first <= r.first /\ r.first <= a.last
  \/ a.first <= r.last /\ r.last <= a.last
  \/ HoldsRange(a, r) \/ HoldsRange(r, a)

IsBefore(a, r) == a.last <= r.first

(* a lies inside r and leaves something of r on both sides. *)
Splits(a, r) == r.first < a.first /\ a.last < r.last

Lesser(x, y) == IF x < y THEN x ELSE y
Greater(x, y) == IF x < y THEN y ELSE x

(* Of ranges that touch. *)
Union(a, r) == Interval(Lesser(a.first, r.first), Greater(a.last, r.last))

(* Of ranges a that r does not split; r does not contain a either. *)
Difference(a, r) ==
  IF ~Intersects(a, r) THEN a
  ELSE IF a.first < r.first THEN Interval(a.first, r.first) ELSE Interval(r.last, a.last)

(***************************************************************************)
(* Group.  Add and Delete of a range start at a position and return the    *)
(* one to go on from; a place is a vector and a position in it.            *)
(***************************************************************************)
Place(list, pos) == [list |-> list, pos |-> pos]

(* The first of the positions in stops from pos on, or one past the end. *)
Seek(list, pos, stops) ==
  CHOOSE i \in pos..Len(list) + 1 :
    /\ i <= Len(list) => i \in stops
    /\ \A j \in pos..i - 1 : j \notin stops

(* The range at i takes in those after it while it touches them. *)
Absorb(list, i) ==
  LET merge[n \in 0..Len(list)] ==
        IF n = 0 THEN list
        ELSE LET l == merge[n - 1]
             IN  IF i < Len(l) /\ Touches(l[i], l[i + 1])
                 THEN RemoveAt(ReplaceAt(l, i, Union(l[i], l[i + 1])), i + 1)
                 ELSE l
  IN  merge[Len(list)]

AddRange(place, r) ==
  LET l == place.list
      hit == Seek(l, place.pos, {i \in DOMAIN l : Touches(r, l[i]) \/ IsBefore(r, l[i])})
  IN  IF l # <<>> /\ ~Touches(r, Last(l)) /\ ~IsBefore(r, Last(l))
      THEN Place(Append(l, r), Len(l) + 1)
      ELSE IF hit > Len(l) \/ ~Touches(r, l[hit])
      THEN Place(InsertAt(l, hit, r), hit)
      ELSE Place(Absorb(ReplaceAt(l, hit, Union(r, l[hit])), hit), hit)

DeleteRange(place, r) ==
  LET l == place.list
      hit == Seek(l, place.pos, {i \in DOMAIN l : Intersects(r, l[i]) \/ IsBefore(r, l[i])})
      kept == SelectSeq(SubSeq(l, hit, Len(l)), LAMBDA x : ~HoldsRange(r, x))
  IN  IF hit > Len(l) \/ ~Intersects(r, l[hit])
      THEN Place(l, hit)
      ELSE IF Splits(r, l[hit])
      THEN Place(InsertAt(ReplaceAt(l, hit, Interval(l[hit].first, r.first)),
                          hit + 1, Interval(r.last, l[hit].last)), hit + 1)
      ELSE Place(SubSeq(l, 1, hit - 1) \o [i \in DOMAIN kept |-> Difference(kept[i], r)], hit)

Add(group, other) == FoldLeft(AddRange, Place(group, 1), other).list
Delete(group, other) == FoldLeft(DeleteRange, Place(group, 1), other).list

Single(id) == <<Interval(id, id + 1)>>

HasMember(group, id) == \E i \in DOMAIN group : id \in Ids(group[i])
MembersOf(group) == UNION {Ids(group[i]) : i \in DOMAIN group}

(* Ascending, and with a gap between any two ranges. *)
Normal(group) ==
  /\ \A i \in DOMAIN group : group[i].first < group[i].last
  /\ \A i \in 1..Len(group) - 1 : group[i].last < group[i + 1].first
=============================================================================
