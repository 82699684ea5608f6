------------------------------ MODULE MCDaemon ------------------------------
(* Small instances of Daemon. *)
EXTENDS Daemon

Ask(kind, name, members, need, out) ==
  [kind |-> kind, name |-> name, members |-> members, need |-> need, out |-> out]

X == <<"x">>
List == <<"x", " ", "y">>
Quoted == <<"x", "'", "y">>

(* Two launches of different size in one zone, and one in another. *)
Launches == <<Ask("select", "zone1", {1, 2}, 1, <<X>>),
             Ask("select", "zone1", {1, 2}, 2, <<X, List>>),
             Ask("select", "zone2", {3}, 1, <<X, <<>>, X>>)>>

(* Forwarding rules of one hypervisor sent to two sets of others. *)
Rules == <<Ask("toall", "fdb", {1, 2}, 0, <<X, <<>>>>),
          Ask("toall", "fdb", {2, 3}, 0, <<>>),
          Ask("select", "zone1", {1, 2}, 1, <<X, Quoted>>)>>

(* Commands without a group, with a group made before, and to all. *)
Named == <<Ask("mkgrp", "zone1", {1, 2}, 0, <<>>),
          Ask("group", "zone1", {}, 0, <<X>>),
          Ask("any", None, {}, 0, <<<<>>, X>>)>>
Removed == <<Ask("mkgrp", "fdb", {2, 3}, 0, <<>>),
            Ask("toall", "fdb", {}, 0, <<<<>>, <<>>>>),
            Ask("rmgrp", "fdb", {}, 0, <<>>)>>

(* A hypervisor that SCI does not know. *)
Unknown == <<Ask("select", "zone1", {1, 4}, 1, <<X>>),
            Ask("inter", None, {4}, 0, <<>>),
            Ask("toall", None, {}, 0, <<X>>)>>

Plan(rs, late, flaky, n) ==
  [requests |-> rs, late |-> late, flaky |-> flaky, reports |-> n]

MCPlans == <<Plan(Launches, {1}, {2}, 1), Plan(Rules, {1}, {}, 0), Plan(Named, {3}, {1}, 1),
             Plan(Removed, {}, {}, 0), Plan(Unknown, {2}, {}, 1)>>

(* A launch in zone 1 and a migration away from hypervisor 1. *)
Shared == <<Ask("select", "zone1", {1, 2}, 1, <<>>), Ask("select", "zone1", {2}, 1, <<>>)>>
SharedPlans == <<Plan(Shared, {}, {}, 0)>>
=============================================================================
