--------------------------- MODULE MCAccessControl ---------------------------
(* The administrator's user and another; sessions, administration and calls   *)
(* are bounded separately, and mixed.                                          *)
EXTENDS AccessControl, TLC

CONSTANTS root, ann, admin_role, reader, admin_policy, read_only, read, write, c1, c2, a1, a2

MCUsers == {root, ann}
MCCustomer == [u \in MCUsers |-> IF u = root THEN "admin" ELSE "acme"]
MCRoles == {admin_role, reader}
MCPolicies == {admin_policy, read_only}
MCBudgets == {[session |-> 4, edit |-> 0, call |-> 1], [session |-> 1, edit |-> 2, call |-> 1],
              [session |-> 0, edit |-> 3, call |-> 0]}
Symmetry == Permutations({c1, c2}) \cup Permutations({a1, a2})
=============================================================================
