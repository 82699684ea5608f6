----------------------------- MODULE MCInstance -----------------------------
(***************************************************************************)
(* Two instances on up to two hypervisors; addresses 1..3 are public, 4    *)
(* and 5 in the first subnet of the VPC and 6 in the second.               *)
(***************************************************************************)
EXTENDS Instance

CONSTANTS i1, i2, f1, f2, f3, f4, p1, p2

MCNet == [a \in 1..6 |-> IF a <= 3 THEN "pub" ELSE IF a = 6 THEN "vpc2" ELSE "vpc1"]

(* A scenario: the events it contains, with their number. *)
Scenario(S) == [e \in Events |-> IF \E x \in S : x[1] = e
                                 THEN (CHOOSE x \in S : x[1] = e)[2] ELSE 0]

Floating == Scenario({<<"hosts", 2>>, <<"create", 2>>, <<"fip", 1>>, <<"attach", 1>>, <<"delete", 1>>})
Detaching == Scenario({<<"hosts", 1>>, <<"create", 1>>, <<"fip", 2>>, <<"attach", 1>>, <<"unattach", 1>>,
                       <<"unfip", 1>>, <<"delete", 1>>})
Reserved == Scenario({<<"hosts", 1>>, <<"create", 2>>, <<"fip", 2>>, <<"patch", 1>>})
Reused == Scenario({<<"hosts", 1>>, <<"create", 2>>, <<"fip", 2>>, <<"delete", 1>>, <<"reuse", 1>>})
Patched == Scenario({<<"hosts", 2>>, <<"create", 1>>, <<"fip", 2>>, <<"patch", 2>>, <<"reboot", 1>>,
                     <<"delete", 1>>})
Nics == Scenario({<<"hosts", 2>>, <<"create", 1>>, <<"nic", 2>>, <<"unnic", 1>>, <<"fail", 1>>,
                  <<"held", 1>>, <<"delete", 1>>})
Early == Scenario({<<"hosts", 1>>, <<"create", 1>>, <<"nic", 1>>, <<"patch", 1>>, <<"early", 1>>,
                   <<"delete", 1>>})
Rebooted == Scenario({<<"hosts", 1>>, <<"create", 2>>, <<"fip", 1>>, <<"attach", 1>>, <<"reboot", 1>>})
Restarted == Scenario({<<"hosts", 1>>, <<"create", 1>>, <<"fip", 1>>, <<"attach", 1>>, <<"power", 1>>,
                       <<"resize", 1>>, <<"reinstall", 1>>})
Powered == Scenario({<<"hosts", 2>>, <<"create", 1>>, <<"power", 1>>, <<"delete", 1>>, <<"fail", 1>>,
                     <<"report", 1>>})
Rescued == Scenario({<<"hosts", 1>>, <<"create", 1>>, <<"rescue", 1>>, <<"end", 1>>, <<"power", 1>>,
                     <<"fail", 1>>, <<"report", 1>>})
Rebuilt == Scenario({<<"hosts", 1>>, <<"create", 1>>, <<"resize", 1>>, <<"reinstall", 1>>, <<"silent", 1>>,
                     <<"report", 1>>})

MCPlans == {Floating, Detaching, Reserved, Reused, Patched, Nics, Early, Rebooted, Restarted,
            Powered, Rescued, Rebuilt}

LatePlans == {Scenario({<<"hosts", 1>>, <<"create", 1>>, <<"fip", 1>>, <<"attach", 1>>, <<"delete", 1>>,
                        <<"late", 1>>})}
TrimPlans == {Scenario({<<"hosts", 1>>, <<"create", 1>>, <<"fip", 2>>, <<"patch", 1>>, <<"trim", 1>>})}
=============================================================================
