-------------------------- MODULE MCLoadBalancer --------------------------
EXTENDS LoadBalancer, TLC
CONSTANTS l1, n1, n2, b1, b2, f1, f2, h1, h2, c1, c2

Scenario(S) == [e \in LbEvents |-> IF \E p \in S : p[1] = e THEN (CHOOSE p \in S : p[1] = e)[2] ELSE 0]
MCLbOf == [n \in Listeners |-> l1]
MCListenerOf == [b \in Backends |-> IF b = b1 THEN n1 ELSE n2]
MCZones == {{h1}, {h1, h2}}
MCPlans ==
  {Scenario({<<"lb", 1>>, <<"listener", 2>>, <<"backend", 2>>, <<"fip", 1>>, <<"unlb", 1>>}),
   Scenario({<<"lb", 1>>, <<"listener", 1>>, <<"backend", 1>>, <<"fip", 2>>, <<"unfip", 1>>}),
   Scenario({<<"lb", 1>>, <<"listener", 1>>, <<"backend", 1>>, <<"fip", 1>>, <<"unbackend", 1>>, <<"unlistener", 1>>}),
   Scenario({<<"lb", 1>>, <<"listener", 1>>, <<"backend", 1>>, <<"fip", 1>>, <<"reboot", 1>>, <<"report", 1>>}),
   Scenario({<<"lb", 1>>, <<"listener", 1>>, <<"fip", 1>>, <<"unlb", 1>>, <<"race", 1>>}),
   Scenario({<<"lb", 1>>, <<"patch", 1>>, <<"listener", 1>>, <<"overtake", 1>>, <<"unlb", 1>>}),
   Scenario({<<"lb", 1>>, <<"listener", 1>>, <<"fip", 1>>, <<"refuse", 1>>, <<"unlb", 1>>})}
===========================================================================
