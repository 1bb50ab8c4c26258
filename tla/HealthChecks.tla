----------------------------- MODULE HealthChecks -----------------------------
(***************************************************************************)
(* POST /health-check: what it says of the applications, parents, storages *)
(* and shapes of the Catalog, and whether it answers at all.  It changes   *)
(* nothing, and reads while other requests are at work.                    *)
(*                                                                         *)
(* Buckets and uploaded metrics are the caller's: `buckets' are the        *)
(* storages whose bucket exists, `files' the ones with metric files in the *)
(* expected folders, `cloud' tells the cloud of a shape, `costly' the      *)
(* values of a price above the threshold per processor, `age' the days     *)
(* since the shapes of a cloud were updated.                               *)
(***************************************************************************)
EXTENDS Catalog

Clouds == {"AWS", "AZURE", "GOOGLE"}

CheckTypes == {"APPLICATION", "PARENT", "STORAGE", "SHAPE", "OPERATION_MODE", "SHAPE_UPDATE_DATE"}

\* Mutant: one check that passes is enough.
status_Any(checks) == IF TRUE \in checks THEN "OK" ELSE "NOT_OK"

\* Of a collection of checks, each of which passes or does not.
status(checks) == IF checks # {} /\ checks = {TRUE} THEN "OK" ELSE "NOT_OK"

Result(id, checks) == {[id |-> id, status |-> status(checks)]}

-----------------------------------------------------------------------------
(* Applications: the connection that the application was created with is   *)
(* complete, and neither host nor user are asked for on premises.  Of a    *)
(* storage it is asked whether it is there, not what type it has.          *)

hosts == {a \in AppIds : Active(a, "RIGHTSIZER")}

ApplicationConnectionCheck(a) == TRUE

ApplicationStorageCheck(a) ==
  \A s \in {apps[a].input, apps[a].output} : s # None /\ storages[s] # None

\* The one result for no application is a dictionary: its keys join the answer.
ApplicationCheckHandler ==
  IF hosts = {} THEN {"id", "type", "details", "status"}
  ELSE UNION {Result(a, {ApplicationConnectionCheck(a), ApplicationStorageCheck(a)}) : a \in hosts}

-----------------------------------------------------------------------------
(* Parents: of the RIGHTSIZER applications, the deleted ones too.          *)

checked_parents == UNION {active_parents(a) : a \in {b \in AppIds : apps[b] # None /\ apps[b].type = "RIGHTSIZER"}}

\* Errors of a rule that was validated when it was saved.
_validate_shape_rule(rule) == {}

ParentShapeRuleCheck(p) == \A rule \in Items(p, "rule") : _validate_shape_rule(rule) = {}

ParentCheckHandler ==
  IF checked_parents = {} THEN {"id", "type", "details", "status"}
  ELSE UNION {Result(p, {ParentShapeRuleCheck(p)}) : p \in checked_parents}

-----------------------------------------------------------------------------
(* Storages                                                                *)

StorageBucketCheck(s, buckets) == s \in buckets

MetricFilesCheck(s, buckets, files) ==
  s \in buckets /\ (storages[s].type = "STORAGE" \/ s \in files)

StorageCheckHandler(buckets, files) ==
  LET there == {s \in Storages : storages[s] # None} IN
  IF there = {} THEN {"id", "type", "details", "status"}
  ELSE UNION {Result(s, {StorageBucketCheck(s, buckets), MetricFilesCheck(s, buckets, files)}) : s \in there}

-----------------------------------------------------------------------------
(* Shapes and prices: a price of whatever owner will do for a shape.       *)

known_shapes == {s \in Shapes : shapes[s] # None}

ShapeCountCheck(cloud) == {cloud[s] : s \in known_shapes} = Clouds

RegionPriceCheck(cloud) == {cloud[s] : s \in {t \in Shapes : prices[<<Default, t>>] # None}} = Clouds

MissingPricesCheck == \A s \in known_shapes : \E o \in Owners : prices[<<o, s>>] # None

SuspiciousPriceCheck(costly) ==
  \A s \in known_shapes, o \in Owners : prices[<<o, s>>] # None => prices[<<o, s>>].value \notin costly

ShapeCheckHandler(cloud, costly) ==
  Result("SHAPES", {ShapeCountCheck(cloud), RegionPriceCheck(cloud), MissingPricesCheck, SuspiciousPriceCheck(costly)})

\* No cloud whose shapes were updated longer than 31 days ago; `age' is in days, for
\* the clouds that the setting names.
ShapeLastUpdateDateCheck(age) == DOMAIN age # {} /\ \A c \in DOMAIN age : age[c] <= 31

ShapeUpdateDateCheckHandler(age) == Result("LAST_SHAPE_UPDATE_DATE", {ShapeLastUpdateDateCheck(age)})

-----------------------------------------------------------------------------
(* Pairs of an application and a parent.  The parent that comes with an    *)
(* application has no cloud and no tenant: all pairs are of cloud ALL, of  *)
(* all customers together, and cover the tenants ALL.                      *)

pairs == {pair \in hosts \X ParentIds : pair[2] \in active_parents(pair[1])}

OperationModeConfigurationCheck(pair) == apps[pair[1]].input # None /\ apps[pair[1]].output # None

_get_covered_tenants(pair) == {"ALL"}

\* ALL beside a tenant, or a tenant twice; ALL twice is not seen.
OperationModeCompatibilityCheck ==
  LET covered == UNION {_get_covered_tenants(pair) : pair \in pairs} IN
  /\ "ALL" \in covered => Cardinality(covered) = 1
  /\ \A t \in covered \ {"ALL"} : Cardinality({pair \in pairs : t \in _get_covered_tenants(pair)}) = 1

\* Without a pair, the result is built without its `details': a TypeError.
OperationModeRaises == pairs = {}

OperationModeCheckHandler ==
  (UNION {Result(<<"parent", pair[2]>>, {OperationModeConfigurationCheck(pair)}) : pair \in pairs})
    \cup Result(<<"COMMON">>, {OperationModeCompatibilityCheck})

-----------------------------------------------------------------------------
HealthCheckRaises(types) == "OPERATION_MODE" \in types /\ OperationModeRaises

\* No types: all of them.  Types it does not know are left out.
post(types, buckets, files, cloud, costly, age) ==
  LET chosen == IF types = {} THEN CheckTypes ELSE types \cap CheckTypes
      handler == [t \in CheckTypes |->
        CASE t = "APPLICATION"    -> ApplicationCheckHandler
          [] t = "PARENT"         -> ParentCheckHandler
          [] t = "STORAGE"        -> StorageCheckHandler(buckets, files)
          [] t = "SHAPE"          -> ShapeCheckHandler(cloud, costly)
          [] t = "OPERATION_MODE" -> OperationModeCheckHandler
          [] t = "SHAPE_UPDATE_DATE" -> ShapeUpdateDateCheckHandler(age)]
  IN [code |-> IF chosen = {} THEN 400 ELSE IF HealthCheckRaises(chosen) THEN 500 ELSE 200,
      content |-> [t \in chosen |-> handler[t]]]

Says(answer, type, id) == (CHOOSE result \in answer.content[type] : result.id = id).status

\* With every bucket and file in place, and the shapes of every cloud just updated.
Asked(types) == post(types, Storages, Storages, [s \in Shapes |-> "AWS"], {}, [c \in Clouds |-> 0])

\* The health check is of use: once a customer has a host application, whose creation
\* was not cut short, it answers, says of the application whether its storages are
\* there (they may be deleted under it), and that the pair can be used, whatever was
\* patched and deleted meanwhile.  It never sees a shape rule, since those are of the
\* parents of licensed applications, and misses no price that somebody saved, but for
\* one that a synchronisation replaces.
HealthChecksTellTheTruth ==
  /\ \A a \in hosts : ~Busy(<<"app", a>>) /\ <<"app", a>> \notin died =>
       LET answer == Asked({"APPLICATION", "OPERATION_MODE", "STORAGE"}) IN
       /\ answer.code = 200
       /\ Says(answer, "APPLICATION", a) = "OK" <=> storages[apps[a].input] # None /\ storages[apps[a].output] # None
       /\ \A p \in active_parents(a) : Says(answer, "OPERATION_MODE", <<"parent", p>>) = "OK"
       /\ Says(answer, "OPERATION_MODE", <<"COMMON">>) = "OK"
  /\ \A p \in checked_parents : Items(p, "rule") = {}
  /\ ~MissingPricesCheck =>
       \E s \in known_shapes : \A o \in Owners :
         <<o, s>> \in priced => Busy(<<"price", <<o, s>>>>) \/ <<"price", <<o, s>>>> \in died
=============================================================================
