---------------------------- MODULE MCMonitoring ----------------------------
(***************************************************************************)
(* The adjustment rules and the alarm rules side by side.  The two parts   *)
(* share no state that either writes, so a scenario exercises one of them. *)
(***************************************************************************)
EXTENDS Adjust, Alarm, TLC

CONSTANTS g1, g2, v1, v2, d1, d2, c1, r1, r2, r3, h1

(* How often each event of E may happen; the ones not named do not. *)
Counts(E, S) == [e \in E |-> IF \E p \in S : p[1] = e THEN (CHOOSE p \in S : p[1] = e)[2] ELSE 0]
Scenario(S) == Counts(Events, S)
AlarmScenario(S) == Counts(AlarmEvents, S)

MCKind == [g \in Groups |-> IF g = g1 THEN "cpu" ELSE "bw"]

(* Both VMs of the CPU rule, both interfaces of one VM of the bandwidth rule. *)
MCTargets(g) == IF g = g1 THEN VMs \X {NoDev} ELSE {v1} \X Devs

MCPlans ==
  {Scenario({}),
   Scenario({<<"create_cpu", 1>>, <<"alert", 1>>, <<"delete", 1>>, <<"toggle", 1>>, <<"fail", 1>>}),
   Scenario({<<"create_cpu", 1>>, <<"alert", 2>>, <<"delete", 1>>}),
   Scenario({<<"create_cpu", 1>>, <<"alert", 1>>, <<"unlink", 1>>, <<"link", 1>>, <<"patch", 1>>}),
   Scenario({<<"create_cpu", 1>>, <<"alert", 1>>, <<"remove", 1>>, <<"link", 1>>, <<"sync", 1>>}),
   Scenario({<<"create_cpu", 1>>, <<"alert", 1>>, <<"overtake", 1>>}),
   Scenario({<<"create_cpu", 1>>, <<"alert", 1>>, <<"lost", 1>>, <<"delete", 1>>}),
   Scenario({<<"create_bw", 1>>, <<"alert", 1>>, <<"delete", 1>>}),
   Scenario({<<"create_bw", 1>>, <<"patch", 1>>, <<"delete", 1>>}),
   Scenario({<<"create_bw", 1>>, <<"unlink", 1>>, <<"link", 1>>, <<"remove", 1>>})}

(* Webhook calls that overlap: Orderly is false, and without it neither     *)
(* LimitRecorded nor CpuLimitEnds holds.                                   *)
RacePlans == {Scenario({<<"create_cpu", 1>>, <<"alert", 1>>, <<"race", 1>>})}

MCKindOf == [r \in Rules |-> IF r = r1 THEN "cpu" ELSE IF r = r2 THEN "memory" ELSE "bandwidth"]
MCLegs == <<"in", "out">>
MCNameOf(r, dir) == <<r, dir>>
MCSets(r) == IF r = r3 THEN {{<<v1, d1>>}, {<<v1, d1>>, <<v1, d2>>}}
             ELSE {{<<v1, NoNic>>}, {<<v1, NoNic>>, <<v2, NoNic>>}}
MCFilesOf == [y \in NodeTypes |-> IF y = "compute" THEN <<"core", "network">> ELSE <<y>>]
MCAlarmPlans ==
  {AlarmScenario({}),
   AlarmScenario({<<"create", 3>>, <<"delete", 1>>, <<"dbfail", 1>>}),
   AlarmScenario({<<"create", 2>>, <<"delete", 2>>, <<"n9efail", 1>>}),
   AlarmScenario({<<"create", 1>>, <<"link", 2>>, <<"unlink", 1>>, <<"nometa", 1>>, <<"dbfail", 1>>}),
   AlarmScenario({<<"create", 1>>, <<"link", 1>>, <<"week", 2>>, <<"sync", 1>>, <<"disaster", 1>>,
                  <<"recover", 1>>, <<"vmfail", 1>>, <<"delete", 1>>}),
   AlarmScenario({<<"node", 3>>, <<"unnode", 1>>, <<"filefail", 2>>, <<"target", 2>>})}

MonitoringInit == Init /\ AlarmInit /\ (plan = Scenario({}) \/ aplan = AlarmScenario({}))
MonitoringNext == (Next /\ UNCHANGED avars) \/ (AlarmNext /\ UNCHANGED vars)
MonitoringSpec == MonitoringInit /\ [][MonitoringNext]_<<vars, avars>> /\ Fairness
=============================================================================
