--------------------------- MODULE MCLicenseToken ---------------------------
(* Two workers that serve administrators and calls, and an executor.           *)
EXTENDS LicenseToken, TLC

CONSTANTS w1, w2, e1, kid1, kid2, key1, key2

Bound(s, c, r, d) == [settings |-> s, call |-> c, rotate |-> r, deaths |-> d]
MCBudgets == {Bound(3, 1, 0, 0), Bound(2, 3, 1, 0), Bound(2, 1, 0, 1), Bound(1, 2, 0, 1)}
Symmetry == Permutations({w1, w2}) \cup Permutations({kid1, kid2}) \cup Permutations({key1, key2})
=============================================================================
