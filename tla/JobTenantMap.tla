---------------------------- MODULE JobTenantMap ----------------------------
(***************************************************************************)
(* The tenant_status_map of a job document: how the API builds it from the *)
(* License Manager's answer, and which of its tenants the executor scans.  *)
(***************************************************************************)
EXTENDS Naturals, Sequences, FiniteSets

CONSTANT Tenants

\* JobTenantStatusEnum.
TenantStatusEnum == {"FORBIDDEN", "RUNNABLE", "SUCCEEDED", "FAILED"}

\* What a tenant's key can hold in the document: a status; "REASON", the text
\* of an exception that the executor stores over the status; "ABSENT", no key.
TenantValue == TenantStatusEnum \cup {"REASON", "ABSENT"}

FailedValue == {"FAILED", "REASON"}

NoTenants == [t \in Tenants |-> "ABSENT"]

\* Every order in which the License Manager may list the tenants of S.
Listings(S) ==
  {f \in [1..Cardinality(S) -> S] : \A i, k \in DOMAIN f : f[i] = f[k] => i = k}

\* allowed[-limit:] when the list is longer than the limit; a limit of None or
\* zero is falsy and restricts nothing (0 stands for both).
CutOff(allowed, limit) ==
  IF limit # 0 /\ Len(allowed) > limit
    THEN {allowed[i] : i \in (Len(allowed) - limit + 1)..Len(allowed)}
    ELSE {}

build_job_tenant_map(forbidden, allowed, limit) ==
  LET listed   == {allowed[i] : i \in 1..Len(allowed)}
      runnable == listed \ CutOff(allowed, limit)
  IN  [t \in Tenants |-> CASE t \in runnable -> "RUNNABLE"
                           [] t \in (listed \cup forbidden) \ runnable -> "FORBIDDEN"
                           [] OTHER -> "ABSENT"]

\* Every tenant of the map that is not forbidden.
get_scan_tenants(map) == {t \in Tenants : map[t] \notin {"FORBIDDEN", "ABSENT"}}
=============================================================================
