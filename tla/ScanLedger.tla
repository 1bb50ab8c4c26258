------------------------------ MODULE ScanLedger ------------------------------
(***************************************************************************)
(* What scanning the tenants of licensed jobs promises, without processes, *)
(* requests or failures: three records are kept about every tenant of a    *)
(* job and they never contradict each other.                               *)
(*                                                                         *)
(*   outcome  what the job document says of the tenant                     *)
(*   record   what the License Manager has on file for it                  *)
(*   results  the algorithms whose results for it were uploaded            *)
(*                                                                         *)
(* JobPipeline implements this specification.                              *)
(***************************************************************************)
EXTENDS JobTenantMap

CONSTANTS Jobs, Algorithms

VARIABLES outcome, record, results

vars == <<outcome, record, results>>

LicenseRecord == {"none", "granted", "SUCCEEDED", "FAILED"}

TypeOK ==
  /\ outcome \in [Jobs -> [Tenants -> TenantValue]]
  /\ record  \in [Jobs -> [Tenants -> LicenseRecord]]
  /\ results \in [Jobs -> SUBSET (Tenants \X Algorithms)]

Init ==
  /\ outcome = [j \in Jobs |-> NoTenants]
  /\ record  = [j \in Jobs |-> [t \in Tenants |-> "none"]]
  /\ results = [j \in Jobs |-> {}]

\* The document appears: the tenants of the job and who of them may be scanned.
Register(j) ==
  /\ outcome[j] = NoTenants
  /\ \E map \in [Tenants -> {"ABSENT", "FORBIDDEN", "RUNNABLE"}] :
       outcome' = [outcome EXCEPT ![j] = map]
  /\ UNCHANGED <<record, results>>

\* A licence is taken for a tenant that may be scanned, once.
Grant(j, t) ==
  /\ outcome[j][t] = "RUNNABLE"
  /\ record[j][t] = "none"
  /\ record' = [record EXCEPT ![j][t] = "granted"]
  /\ UNCHANGED <<outcome, results>>

Upload(j, t, a) ==
  /\ outcome[j][t] = "RUNNABLE"
  /\ record[j][t] = "granted"
  /\ results' = [results EXCEPT ![j] = @ \cup {<<t, a>>}]
  /\ UNCHANGED <<outcome, record>>

Succeed(j, t) ==
  /\ outcome[j][t] = "RUNNABLE"
  /\ record[j][t] = "granted"
  /\ {t} \X Algorithms \subseteq results[j]
  /\ outcome' = [outcome EXCEPT ![j][t] = "SUCCEEDED"]
  /\ UNCHANGED <<record, results>>

\* A success may still be withdrawn while LM has not been told of it.
Fail(j, t) ==
  /\ \/ outcome[j][t] = "RUNNABLE"
     \/ outcome[j][t] = "SUCCEEDED" /\ record[j][t] = "granted"
  /\ \E v \in FailedValue : outcome' = [outcome EXCEPT ![j][t] = v]
  /\ UNCHANGED <<record, results>>

\* LM is told the outcome that the document holds.
Notify(j, t) ==
  /\ record[j][t] = "granted"
  /\ \/ /\ outcome[j][t] = "SUCCEEDED"
        /\ record' = [record EXCEPT ![j][t] = "SUCCEEDED"]
     \/ /\ outcome[j][t] \in FailedValue
        /\ record' = [record EXCEPT ![j][t] = "FAILED"]
  /\ UNCHANGED <<outcome, results>>

Next ==
  \E j \in Jobs :
    \/ Register(j)
    \/ \E t \in Tenants :
         \/ Grant(j, t) \/ Succeed(j, t) \/ Fail(j, t) \/ Notify(j, t)
         \/ \E a \in Algorithms : Upload(j, t, a)

Spec == Init /\ [][Next]_vars

-----------------------------------------------------------------------------
\* A tenant that the licence does not cover costs no licence and is not scanned.
ForbiddenIsUntouched ==
  \A j \in Jobs, t \in Tenants :
    outcome[j][t] \in {"FORBIDDEN", "ABSENT"} =>
      /\ record[j][t] = "none"
      /\ \A a \in Algorithms : <<t, a>> \notin results[j]

\* A success is backed by a licence and by the results of every algorithm.
SuccessIsBacked ==
  \A j \in Jobs, t \in Tenants :
    outcome[j][t] = "SUCCEEDED" =>
      /\ record[j][t] \in {"granted", "SUCCEEDED"}
      /\ {t} \X Algorithms \subseteq results[j]

\* LM never has on file an outcome that the document contradicts.
RecordAgrees ==
  \A j \in Jobs, t \in Tenants :
    /\ record[j][t] = "SUCCEEDED" => outcome[j][t] = "SUCCEEDED"
    /\ record[j][t] = "FAILED"    => outcome[j][t] \in FailedValue

Consistent == ForbiddenIsUntouched /\ SuccessIsBacked /\ RecordAgrees
=============================================================================
