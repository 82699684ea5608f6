---------------------------- MODULE SciGroupSpec ----------------------------
(***************************************************************************)
(* What SCI's manual pages promise an application at the front end: groups *)
(* are sets of back ends, and a broadcast to a group reaches each back end *)
(* that is a member when the front end gets to it, once, and in the order  *)
(* of the broadcasts.  There is no tree here, and no queue but the ones of *)
(* the back ends.                                                          *)
(***************************************************************************)
EXTENDS Integers, Sequences

CONSTANTS
  BackEnds,    \* ids of back ends
  Present,     \* those the application starts with
  Groups,      \* ids of groups: -2, -3, ...
  Messages     \* broadcasts, numbered

VARIABLES
  members,     \* the groups that exist and their members
  owed,        \* the broadcasts that each back end is to get
  got          \* those it has got

vars == <<members, owed, got>>

ALL == -1        \* SCI_GROUP_ALL; what is greater is a single back end
Operators == {"UNION", "INTERSECTION", "DIFFERENCE"}

Combine(op, S, T) ==
  CASE op = "UNION" -> S \cup T [] op = "INTERSECTION" -> S \cap T [] OTHER -> S \ T

Init ==
  /\ members = [g \in {ALL} |-> Present]
  /\ owed = [b \in BackEnds |-> <<>>]
  /\ got = [b \in BackEnds |-> <<>>]

With(g, S) == [x \in DOMAIN members \cup {g} |-> IF x = g THEN S ELSE members[x]]

(* A new group g with members S. *)
NewGroup(g, S) ==
  /\ members' = With(g, S)
  /\ UNCHANGED <<owed, got>>

Create(g) == \E S \in SUBSET members[ALL] : NewGroup(g, S)

(* Of two groups, or of a group and a list of back ends.  A group without  *)
(* members is refused, unless it is a union.                               *)
Operate(g) ==
  \E op \in Operators, a \in DOMAIN members :
    \E T \in {members[c] : c \in DOMAIN members} \cup SUBSET members[ALL] :
      /\ op # "UNION" => Combine(op, members[a], T) # {}
      /\ NewGroup(g, Combine(op, members[a], T))

Free(g) ==
  /\ members' = [x \in DOMAIN members \ {g} |-> members[x]]
  /\ UNCHANGED <<owed, got>>

AddBE(b) ==
  /\ UNCHANGED <<owed, got>>
  /\ members' = With(ALL, members[ALL] \cup {b})

(* Groups without members go. *)
RemoveBE(b) ==
  /\ UNCHANGED <<owed, got>>
  /\ members' = [g \in {g \in DOMAIN members : g = ALL \/ members[g] \ {b} # {}} |->
                   members[g] \ {b}]

Receivers(g) ==
  IF g > ALL THEN {g} \cap members[ALL]
  ELSE IF g \in DOMAIN members THEN members[g] ELSE {}

Bcast(g, m) ==
  /\ owed' = [b \in BackEnds |-> IF b \in Receivers(g) THEN Append(owed[b], m) ELSE owed[b]]
  /\ UNCHANGED <<members, got>>

Deliver(b) ==
  /\ Len(got[b]) < Len(owed[b])
  /\ got' = [got EXCEPT ![b] = Append(@, owed[b][Len(@) + 1])]
  /\ UNCHANGED <<members, owed>>

Next ==
  \/ \E b \in BackEnds : AddBE(b) \/ RemoveBE(b) \/ Deliver(b)
  \/ \E g \in Groups \cup {ALL} \cup BackEnds, m \in Messages : Bcast(g, m)
  \/ \E g \in Groups \cap DOMAIN members : Free(g)
  \/ \E g \in Groups \ DOMAIN members : g \in DOMAIN members' /\ (Create(g) \/ Operate(g))

Spec == Init /\ [][Next]_vars
=============================================================================
