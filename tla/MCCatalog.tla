------------------------------ MODULE MCCatalog ------------------------------
(* Two requests at a time, on two customers: applications, rules and groups,   *)
(* licences and prices are bounded separately, and some mixed.                 *)
EXTENDS HealthChecks, TLC

CONSTANTS s1, s2, m5, t3, vm, rds, acme, emca, k1, k2, r1, r2

MCListed == [k \in {k1, k2} |-> IF k = k1 THEN {vm} ELSE {vm, rds}]
Bound(host, edit, license, algorithm, price, deaths) ==
  [host |-> host, edit |-> edit, license |-> license, algorithm |-> algorithm, price |-> price, deaths |-> deaths]
MCBudgets == {Bound(3, 0, 0, 0, 0, 0), Bound(2, 0, 0, 0, 0, 1), Bound(2, 1, 0, 0, 0, 0), Bound(1, 2, 0, 0, 0, 0),
              Bound(0, 4, 0, 0, 0, 0), Bound(0, 0, 2, 0, 0, 1), Bound(0, 0, 2, 1, 0, 0), Bound(0, 0, 1, 2, 0, 0),
              Bound(1, 0, 1, 0, 0, 0), Bound(0, 1, 1, 0, 0, 0), Bound(0, 0, 0, 0, 3, 0), Bound(0, 0, 0, 0, 2, 1)}
Symmetry == Permutations({r1, r2}) \cup Permutations({s1, s2}) \cup Permutations({m5, t3}) \cup Permutations({acme, emca})
=============================================================================
