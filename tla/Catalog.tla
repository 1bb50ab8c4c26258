------------------------------- MODULE Catalog -------------------------------
(***************************************************************************)
(* Applications and parents of the customers: the RIGHTSIZER application   *)
(* (the host of a customer: its storages and a secret), the licensed ones  *)
(* with their parents, the shape rules and resource groups of a parent,    *)
(* Defect Dojo, and the synchronisation of a licence and its algorithms    *)
(* with the License Manager.                                               *)
(*                                                                         *)
(* Application and Parent are models of the modular_sdk library: `save'    *)
(* writes the whole document as it is in the request, also over a changed  *)
(* or deleted one; `update' and `mark_deleted' write fields of the         *)
(* document, if it is there.                                               *)
(***************************************************************************)
EXTENDS ReferenceData

CONSTANTS
  Keys, Listed,             \* licence keys; Listed[k]: the algorithms of the licence
  MaxApps, MaxParents       \* bounds: documents ever created

VARIABLES
  apps,      \* application_id -> None or its document
  parents,   \* parent_id -> None or its document; meta: the rules and groups
  secrets,   \* the applications with a secret in Vault
  made,      \* how many applications, parents, rules and groups were created
  kept,      \* history: parent -> the rules and groups that requests made of it
  dropped    \* history: algorithms that were deleted by a request

catalog == <<apps, parents, secrets, made, kept, dropped>>
vars == <<reference, control, catalog>>

AppIds == 1..MaxApps
ParentIds == 1..MaxParents
ApplicationType == {"RIGHTSIZER", "RIGHTSIZER_LICENSES", "DEFECT_DOJO"}
ParentType == {"RIGHTSIZER_PARENT", "RIGHTSIZER_LICENSES", "DEFECT_DOJO"}

\* Shape rules and resource groups.
Item == [kind : {"rule", "group"}, id : Nat, rev : Nat]

ApplicationDoc ==
  [customer : Customers, type : ApplicationType, deleted : BOOLEAN, input : Storages \cup {None},
   output : Storages \cup {None}, key : Keys \cup {None}, algorithms : SUBSET Algorithms]
ParentDoc == [application : AppIds, type : ParentType, deleted : BOOLEAN, meta : SUBSET Item]

ASSUME DocumentAssumption == None \notin ApplicationDoc \cup ParentDoc \cup Storages \cup Keys
ASSUME ListedAssumption == Listed \in [Keys -> SUBSET Algorithms]
ASSUME BoundsAssumption == MaxApps \in Nat \ {0} /\ MaxParents \in Nat \ {0}

Application(customer, type) ==
  [customer |-> customer, type |-> type, deleted |-> FALSE,
   input |-> None, output |-> None, key |-> None, algorithms |-> {}]

Parent(a, type) == [application |-> a, type |-> type, deleted |-> FALSE, meta |-> {}]

Active(a, type) == apps[a] # None /\ ~apps[a].deleted /\ apps[a].type = type

active_parents(a) ==
  {p \in ParentIds : parents[p] # None /\ parents[p].application = a /\ ~parents[p].deleted}

OnApp(a) == {<<"app", a>>}
OnParent(p) == {<<"parent", p>>}

\* Storages, a public price, and a licensed application with one parent.
Init ==
  /\ ids = 4 /\ request = [r \in Requests |-> Idle] /\ left \in Budgets
  /\ mixed = {} /\ died = {} /\ dropped = {}
  /\ \E in, out \in Storages :
       /\ in # out
       /\ storages = [s \in Storages |-> IF s = in THEN [id |-> 1, type |-> "DATA_SOURCE"]
                                         ELSE IF s = out THEN [id |-> 2, type |-> "STORAGE"] ELSE None]
  /\ \E s \in Shapes, v \in Values :
       /\ shapes = [t \in Shapes |-> IF t = s THEN [id |-> 3, value |-> v] ELSE None]
       /\ prices = [k \in Owners \X Shapes |-> IF k = <<Default, s>> THEN [id |-> 4, value |-> v] ELSE None]
       /\ priced = {<<Default, s>>}
  /\ algorithms = [n \in Algorithms |-> None]
  /\ \E c \in Customers, k \in Keys :
       apps = [a \in AppIds |-> IF a = 1 THEN [Application(c, "RIGHTSIZER_LICENSES") EXCEPT !.key = k] ELSE None]
  /\ parents = [p \in ParentIds |-> IF p = 1 THEN Parent(1, "RIGHTSIZER_LICENSES") ELSE None]
  /\ secrets = {} /\ made = [apps |-> 1, parents |-> 1, settings |-> 0]
  /\ kept = [p \in ParentIds |-> {}]

NewApp == made.apps + 1
NewParent == made.parents + 1

-----------------------------------------------------------------------------
(* Applications                                                            *)

_validate_storage(s, type) == storages[s] # None /\ storages[s].type = type

PostApplication(r, c, in, out) ==
  /\ ~\E a \in AppIds : Active(a, "RIGHTSIZER") /\ apps[a].customer = c
  /\ _validate_storage(in, "DATA_SOURCE") /\ _validate_storage(out, "STORAGE")
  /\ made.apps < MaxApps /\ made' = [made EXCEPT !.apps = NewApp]
  /\ Begin(r, "host", [op |-> "create secret", on |-> OnApp(NewApp) \cup {<<"customer", c>>}, app |-> NewApp,
       document |-> [Application(c, "RIGHTSIZER") EXCEPT !.input = in, !.output = out]])
  /\ UNCHANGED <<reference, ids, apps, parents, secrets, kept, dropped>>

PostDojoApplication(r, c) ==
  /\ made.apps < MaxApps /\ made' = [made EXCEPT !.apps = NewApp]
  /\ Begin(r, "host", [op |-> "create secret", on |-> OnApp(NewApp), app |-> NewApp,
       document |-> Application(c, "DEFECT_DOJO")])
  /\ UNCHANGED <<reference, ids, apps, parents, secrets, kept, dropped>>

\* Before the application is there that it belongs to.
_create_application_secret(r) ==
  LET todo == request[r] IN
  /\ todo.op = "create secret"
  /\ secrets' = secrets \cup {todo.app}
  /\ Continue(r, [todo EXCEPT !.op = "save application"])
  /\ UNCHANGED <<reference, ids, apps, parents, made, kept, dropped>>

SaveApplication(r) ==
  LET todo == request[r] IN
  /\ todo.op = "save application"
  /\ apps' = [apps EXCEPT ![todo.app] = todo.document]
  /\ CASE todo.document.type = "RIGHTSIZER"          -> Continue(r, [todo EXCEPT !.op = "save host parent"])
       [] todo.document.type = "DEFECT_DOJO"         -> Finish(r)
       [] todo.document.type = "RIGHTSIZER_LICENSES" -> Continue(r, [todo EXCEPT !.op = "ask LM"])
  /\ UNCHANGED <<reference, ids, parents, secrets, made, kept, dropped>>

\* The parent of scope ALL that comes with a RIGHTSIZER application.
SaveHostParent(r) ==
  LET todo == request[r] IN
  /\ todo.op = "save host parent"
  /\ made.parents < MaxParents /\ made' = [made EXCEPT !.parents = NewParent]
  /\ parents' = [parents EXCEPT ![NewParent] = Parent(todo.app, "RIGHTSIZER_PARENT")]
  /\ Finish(r)
  /\ UNCHANGED <<reference, ids, apps, secrets, kept, dropped>>

\* Mutant: what the request does not name is unset.
replaced_Unset(new, old) == new

replaced(new, old) == IF new = None THEN old ELSE new

\* in, out: None or the new storage; the password comes with the connection, and with
\* a connection or a storage the meta is written, the storages as they were read.
Connections == {"kept", "changed", "new password"}

PatchApplication(r, a, in, out, connection) ==
  /\ Active(a, "RIGHTSIZER")
  /\ in # None => _validate_storage(in, "DATA_SOURCE")
  /\ out # None => _validate_storage(out, "STORAGE")
  /\ Begin(r, "host", [op |-> IF connection = "new password" THEN "delete secret" ELSE "update application",
       on |-> OnApp(a), app |-> a, storages |-> in # None \/ out # None \/ connection # "kept",
       input |-> replaced(in, apps[a].input), output |-> replaced(out, apps[a].output)])
  /\ UNCHANGED <<reference, ids, catalog>>

\* Mutant: the new secret is created first, under the name of the old one.
secret_steps_Swapped == [first |-> "create", then |-> "delete"]

\* A new password: the old secret is deleted, and one of the same name created.
secret_steps == [first |-> "delete", then |-> "create"]

WriteSecret(r, step) == secrets' = IF step = "delete" THEN secrets \ {request[r].app} ELSE secrets \cup {request[r].app}

DropSecret(r) ==
  /\ request[r].op = "delete secret"
  /\ WriteSecret(r, secret_steps.first)
  /\ Continue(r, [request[r] EXCEPT !.op = "replace secret"])
  /\ UNCHANGED <<reference, ids, apps, parents, made, kept, dropped>>

ReplaceSecret(r) ==
  /\ request[r].op = "replace secret"
  /\ WriteSecret(r, secret_steps.then)
  /\ Continue(r, [request[r] EXCEPT !.op = "update application"])
  /\ UNCHANGED <<reference, ids, apps, parents, made, kept, dropped>>

\* The meta is written as a whole: a storage that another request has changed goes back.
UpdateApplication(r) ==
  LET todo == request[r] IN
  /\ todo.op = "update application"
  /\ apps' = IF apps[todo.app] # None /\ todo.storages
             THEN [apps EXCEPT ![todo.app].input = todo.input, ![todo.app].output = todo.output]
             ELSE apps
  /\ Finish(r)
  /\ UNCHANGED <<reference, ids, parents, secrets, made, kept, dropped>>

StartDelete(r, a, force) ==
  /\ force \/ active_parents(a) = {}
  /\ Begin(r, "host", [op |-> IF force THEN "delete parents" ELSE "mark application", app |-> a,
       on |-> OnApp(a) \cup UNION {OnParent(p) : p \in active_parents(a)}, parents |-> active_parents(a)])
  /\ UNCHANGED <<reference, ids, catalog>>

DeleteApplication(r, a, force) == Active(a, "RIGHTSIZER") /\ StartDelete(r, a, force)

DeleteLicensesApplication(r, a, force) == Active(a, "RIGHTSIZER_LICENSES") /\ StartDelete(r, a, force)

DeleteDojoApplication(r, a, force) ==
  /\ Active(a, "DEFECT_DOJO")
  /\ Begin(r, "host", [op |-> "mark parents", app |-> a, force |-> force,
       on |-> OnApp(a) \cup UNION {OnParent(p) : p \in active_parents(a)}, parents |-> active_parents(a)])
  /\ UNCHANGED <<reference, ids, catalog>>

MarkParent(r) ==
  LET todo == request[r] IN
  /\ todo.op = "mark parents"
  /\ \E p \in todo.parents :
       /\ parents' = IF parents[p] = None THEN parents ELSE [parents EXCEPT ![p].deleted = TRUE]
       /\ Continue(r, [todo EXCEPT !.parents = @ \ {p}])
  /\ UNCHANGED <<reference, ids, apps, secrets, made, kept, dropped>>

AfterMarking(r) ==
  LET todo == request[r] IN
  /\ todo.op = "mark parents" /\ todo.parents = {}
  /\ Continue(r, [op |-> IF todo.force THEN "delete parents" ELSE "mark application",
                  app |-> todo.app, on |-> todo.on, parents |-> {}])
  /\ UNCHANGED <<reference, ids, catalog>>

MarkApplication(r) ==
  LET todo == request[r] IN
  /\ todo.op = "mark application"
  /\ apps' = IF apps[todo.app] = None THEN apps ELSE [apps EXCEPT ![todo.app].deleted = TRUE]
  /\ Finish(r)
  /\ UNCHANGED <<reference, ids, parents, secrets, made, kept, dropped>>

ForceDeleteParent(r) ==
  LET todo == request[r] IN
  /\ todo.op = "delete parents"
  /\ \E p \in todo.parents :
       /\ parents' = [parents EXCEPT ![p] = None]
       /\ Continue(r, [todo EXCEPT !.parents = @ \ {p}])
  /\ UNCHANGED <<reference, ids, apps, secrets, made, kept, dropped>>

\* Whether Vault deletes it or fails, the deletion goes on: a failure is not modelled.
_delete_application_secret(r) ==
  LET todo == request[r] IN
  /\ todo.op = "delete parents" /\ todo.parents = {}
  /\ secrets' = secrets \ {todo.app}
  /\ Continue(r, [todo EXCEPT !.op = "delete application"])
  /\ UNCHANGED <<reference, ids, apps, parents, made, kept, dropped>>

force_delete(r) ==
  LET todo == request[r] IN
  /\ todo.op = "delete application"
  /\ apps' = [apps EXCEPT ![todo.app] = None]
  /\ Finish(r)
  /\ UNCHANGED <<reference, ids, parents, secrets, made, kept, dropped>>

-----------------------------------------------------------------------------
(* Parents of licensed and of Defect Dojo applications                     *)

PostParent(r, a) ==
  /\ Active(a, "RIGHTSIZER_LICENSES")
  /\ Begin(r, "edit", [op |-> "save parent", on |-> OnApp(a), document |-> Parent(a, "RIGHTSIZER_LICENSES")])
  /\ UNCHANGED <<reference, ids, catalog>>

PostDojoParent(r, a) ==
  /\ Active(a, "DEFECT_DOJO")
  /\ Begin(r, "edit", [op |-> "save parent", on |-> OnApp(a), document |-> Parent(a, "DEFECT_DOJO")])
  /\ UNCHANGED <<reference, ids, catalog>>

SaveParent(r) ==
  /\ request[r].op = "save parent"
  /\ made.parents < MaxParents /\ made' = [made EXCEPT !.parents = NewParent]
  /\ parents' = [parents EXCEPT ![NewParent] = request[r].document]
  /\ Finish(r)
  /\ UNCHANGED <<reference, ids, apps, secrets, kept, dropped>>

\* Mutant: the parent of any application is found.
of_licensed_Any(p) == parents[p] # None /\ apps[parents[p].application] # None

\* A parent of a licensed application that is not deleted.
of_licensed(p) == parents[p] # None /\ Active(parents[p].application, "RIGHTSIZER_LICENSES")

of_dojo(p) == parents[p] # None /\ Active(parents[p].application, "DEFECT_DOJO")

RemoveParent(p, force) ==
  /\ parents' = [parents EXCEPT ![p] = IF force THEN None ELSE [@ EXCEPT !.deleted = TRUE]]
  /\ DeleteNow("edit", OnParent(p))
  /\ UNCHANGED <<reference, apps, secrets, made, kept, dropped>>

DeleteParent(p, force) == of_licensed(p) /\ (force \/ ~parents[p].deleted) /\ RemoveParent(p, force)

DeleteDojoParent(p, force) == of_dojo(p) /\ (force \/ ~parents[p].deleted) /\ RemoveParent(p, force)

-----------------------------------------------------------------------------
(* Resource groups and shape rules: the meta of a parent.  A request reads *)
(* the parent, changes the meta and writes it as a whole; `do' is what it  *)
(* does to it.                                                             *)

Items(p, kind) == {item \in parents[p].meta : item.kind = kind}

Applied(meta, do) == (meta \ do.remove) \cup do.add

NewItem(kind) == [kind |-> kind, id |-> made.settings + 1, rev |-> 1]

Edit(r, p, write, do) ==
  /\ Begin(r, "edit", [op |-> write, on |-> OnParent(p), parent |-> p, do |-> do, document |-> parents[p]])
  /\ UNCHANGED <<reference, ids, apps, parents, secrets, kept, dropped>>

get_parent(p) == of_licensed(p) /\ ~parents[p].deleted

PostGroup(r, p) ==
  /\ get_parent(p)
  /\ made' = [made EXCEPT !.settings = @ + 1]
  /\ Edit(r, p, "save group", [remove |-> {}, add |-> {NewItem("group")}])

\* Also in a parent that is marked as deleted.
PatchGroup(r, p, group) ==
  /\ of_licensed(p) /\ group \in Items(p, "group") /\ UNCHANGED made
  /\ Edit(r, p, "save group", [remove |-> {group}, add |-> {[group EXCEPT !.rev = @ + 1]}])

DeleteGroup(r, p, group) ==
  /\ get_parent(p) /\ group \in Items(p, "group") /\ UNCHANGED made
  /\ Edit(r, p, "save group", [remove |-> {group}, add |-> {}])

\* Also to a parent that is marked as deleted.
PostRule(r, p) ==
  /\ of_licensed(p)
  /\ made' = [made EXCEPT !.settings = @ + 1]
  /\ Edit(r, p, "update rules", [remove |-> {}, add |-> {NewItem("rule")}])

\* The meta is not set again: the list that is changed is the one the parent holds.
PatchRule(r, p, rule) ==
  /\ of_licensed(p) /\ rule \in Items(p, "rule") /\ UNCHANGED made
  /\ Edit(r, p, "update rules", [remove |-> {rule}, add |-> {[rule EXCEPT !.rev = @ + 1]}])

DeleteRule(r, p, rule) ==
  /\ get_parent(p) /\ rule \in Items(p, "rule") /\ UNCHANGED made
  /\ Edit(r, p, "update rules", [remove |-> {rule}, add |-> {}])

\* Groups are written with the whole parent.
SaveGroup(r) ==
  LET todo == request[r] IN
  /\ todo.op = "save group"
  /\ parents' = [parents EXCEPT ![todo.parent] =
       [todo.document EXCEPT !.meta = Applied(@, todo.do)]]
  /\ kept' = [kept EXCEPT ![todo.parent] = Applied(@, todo.do)]
  /\ Finish(r)
  /\ UNCHANGED <<reference, ids, apps, secrets, made, dropped>>

\* Mutant: the list of rules is replaced by what the request made.
merged_Only(meta, do) == do.add

merged(meta, do) == Applied(meta, do)

\* Of rules, only the meta is written.
UpdateRules(r) ==
  LET todo == request[r] IN
  /\ todo.op = "update rules"
  /\ parents' = IF parents[todo.parent] = None THEN parents
                ELSE [parents EXCEPT ![todo.parent].meta = merged(todo.document.meta, todo.do)]
  /\ kept' = [kept EXCEPT ![todo.parent] = Applied(@, todo.do)]
  /\ Finish(r)
  /\ UNCHANGED <<reference, ids, apps, secrets, made, dropped>>

-----------------------------------------------------------------------------
(* Licences                                                                *)

get_by_license_key(c, key) ==
  {a \in AppIds : Active(a, "RIGHTSIZER_LICENSES") /\ apps[a].customer = c /\ apps[a].key = key}

\* After the LM has activated the licence for the customer.
PostLicense(r, c, key) ==
  /\ get_by_license_key(c, key) = {}
  /\ made.apps < MaxApps /\ made' = [made EXCEPT !.apps = NewApp]
  /\ Begin(r, "license", [op |-> "save application", on |-> OnApp(NewApp) \cup {<<"license", c, key>>},
       app |-> NewApp, document |-> [Application(c, "RIGHTSIZER_LICENSES") EXCEPT !.key = key]])
  /\ UNCHANGED <<reference, ids, apps, parents, secrets, kept, dropped>>

\* Whether the application is marked as deleted is not asked.
SyncLicense(r, a) ==
  /\ apps[a] # None /\ apps[a].type = "RIGHTSIZER_LICENSES"
  /\ Begin(r, "license", [op |-> "ask LM", on |-> OnApp(a), app |-> a, document |-> apps[a]])
  /\ UNCHANGED <<reference, ids, catalog>>

synchronize_license(r) ==
  LET todo == request[r] IN
  /\ todo.op = "ask LM"
  /\ Continue(r, [op |-> "update license", on |-> todo.on, app |-> todo.app, document |-> todo.document,
                  listed |-> Listed[todo.document.key]])
  /\ UNCHANGED <<reference, ids, catalog>>

\* An answer other than 200 ends the synchronisation, and no answer ends the request.
RefusedByLM(r) ==
  /\ request[r].op = "ask LM"
  /\ Finish(r)
  /\ UNCHANGED <<reference, ids, catalog>>

\* The whole application, as it was before the LM was asked.
update_license(r) ==
  LET todo == request[r] IN
  /\ todo.op = "update license"
  /\ apps' = [apps EXCEPT ![todo.app] = [todo.document EXCEPT !.algorithms = todo.listed]]
  /\ Continue(r, [op |-> "sync algorithms", on |-> todo.on, app |-> todo.app, listed |-> todo.listed,
                  customer |-> todo.document.customer, name |-> None, id |-> None])
  /\ UNCHANGED <<reference, ids, parents, secrets, made, kept, dropped>>

FindAlgorithm(r) ==
  LET todo == request[r] IN
  /\ todo.op = "sync algorithms"
  /\ \E n \in todo.listed :
       Continue(r, [todo EXCEPT !.op = "save algorithm", !.listed = @ \ {n}, !.name = n,
                                !.id = IF algorithms[n] = None THEN None ELSE algorithms[n].id])
  /\ UNCHANGED <<reference, ids, catalog>>

\* Mutant: an algorithm that is not there is passed over.
created_Never(todo) == algorithms

created(todo) == Created(algorithms, todo.name,
  [id |-> ids + 1, customer |-> todo.customer, licensed |-> TRUE, settings |-> "issued"])

\* A new one is refused if another synchronisation has created it: the request fails,
\* with the algorithms after it.  Of an old one, the settings that the LM sent are
\* overwritten, and `licensed' stays as it is.
SaveSyncedAlgorithm(r) ==
  LET todo == request[r]  n == todo.name  IN
  /\ todo.op = "save algorithm"
  /\ IF todo.id = None
     THEN /\ ids' = ids + 1 /\ algorithms' = created(todo)
          /\ dropped' = dropped \ {n}
     ELSE /\ UNCHANGED <<ids, dropped>>
          /\ algorithms' = IF Same(algorithms, n, todo.id)
                           THEN [algorithms EXCEPT ![n].settings = "issued"] ELSE algorithms
  /\ IF todo.id = None /\ algorithms[n] # None
     THEN /\ died' = died \cup todo.on /\ request' = [request EXCEPT ![r] = Idle]
          /\ UNCHANGED <<left, mixed>>
     ELSE Continue(r, [todo EXCEPT !.op = "sync algorithms", !.name = None, !.id = None])
  /\ UNCHANGED <<storages, shapes, prices, priced, apps, parents, secrets, made, kept>>

FinishLicenseSync(r) ==
  /\ request[r].op = "sync algorithms" /\ request[r].listed = {}
  /\ Finish(r)
  /\ UNCHANGED <<reference, ids, catalog>>

RemoveAlgorithm(n) ==
  /\ DeleteAlgorithm(n)
  /\ dropped' = dropped \cup {n}
  /\ UNCHANGED <<apps, parents, secrets, made, kept>>

-----------------------------------------------------------------------------
ReferenceStep(r) ==
  \/ \E s \in Storages, t \in StorageType : PostStorage(r, s, t) /\ UNCHANGED catalog
  \/ \E s \in Storages, t \in StorageType : PatchStorage(r, s, t) /\ UNCHANGED catalog
  \/ SaveStorage(r) /\ UNCHANGED catalog
  \/ SavePatchedStorage(r) /\ UNCHANGED catalog
  \/ \E s \in Shapes, v \in Values : PostShape(r, s, v) /\ UNCHANGED catalog
  \/ \E s \in Shapes, v \in Values : PatchShape(r, s, v) /\ UNCHANGED catalog
  \/ \E s \in Shapes : DeleteShape(r, s) /\ UNCHANGED catalog
  \/ SaveShape(r) /\ UNCHANGED catalog
  \/ SavePatchedShape(r) /\ UNCHANGED catalog
  \/ DeleteListedPrice(r) /\ UNCHANGED catalog
  \/ DeleteShapeItself(r) /\ UNCHANGED catalog
  \/ \E k \in Owners \X Shapes, v \in Values : PostPrice(r, k, v) /\ UNCHANGED catalog
  \/ \E k \in Owners \X Shapes, v \in Values : PatchPrice(r, k, v) /\ UNCHANGED catalog
  \/ SavePrice(r) /\ UNCHANGED catalog
  \/ SavePatchedPrice(r) /\ UNCHANGED catalog
  \/ \E listed \in SUBSET Shapes, v \in Values : SyncPrices(r, listed, v) /\ UNCHANGED catalog
  \/ SavePriceForce(r) /\ UNCHANGED catalog
  \/ DeleteOldPrice(r) /\ UNCHANGED catalog
  \/ SaveNewPrice(r) /\ UNCHANGED catalog
  \/ FinishPriceSync(r) /\ UNCHANGED catalog
  \/ \E n \in Algorithms, c \in Customers : PostAlgorithm(r, n, c) /\ UNCHANGED catalog
  \/ \E n \in Algorithms : PatchAlgorithm(r, n) /\ UNCHANGED catalog
  \/ SaveNewAlgorithm(r) /\ UNCHANGED catalog
  \/ SavePatchedAlgorithm(r) /\ UNCHANGED catalog
  \/ Die(r) /\ UNCHANGED catalog

ApplicationStep(r) ==
  \/ \E c \in Customers, in, out \in Storages : PostApplication(r, c, in, out)
  \/ \E c \in Customers : PostDojoApplication(r, c)
  \/ _create_application_secret(r) \/ SaveApplication(r) \/ SaveHostParent(r)
  \/ \E a \in AppIds, in, out \in Storages \cup {None}, connection \in Connections :
       PatchApplication(r, a, in, out, connection)
  \/ DropSecret(r) \/ ReplaceSecret(r) \/ UpdateApplication(r)
  \/ \E a \in AppIds, force \in BOOLEAN : DeleteApplication(r, a, force)
  \/ \E a \in AppIds, force \in BOOLEAN : DeleteLicensesApplication(r, a, force)
  \/ \E a \in AppIds, force \in BOOLEAN : DeleteDojoApplication(r, a, force)
  \/ MarkParent(r) \/ AfterMarking(r) \/ MarkApplication(r)
  \/ ForceDeleteParent(r) \/ _delete_application_secret(r) \/ force_delete(r)

ParentStep(r) ==
  \/ \E a \in AppIds : PostParent(r, a)
  \/ \E a \in AppIds : PostDojoParent(r, a)
  \/ SaveParent(r)
  \/ \E p \in ParentIds : PostGroup(r, p)
  \/ \E p \in ParentIds : \E g \in kept[p] : PatchGroup(r, p, g)
  \/ \E p \in ParentIds : \E g \in kept[p] : DeleteGroup(r, p, g)
  \/ \E p \in ParentIds : PostRule(r, p)
  \/ \E p \in ParentIds : \E rule \in kept[p] : PatchRule(r, p, rule)
  \/ \E p \in ParentIds : \E rule \in kept[p] : DeleteRule(r, p, rule)
  \/ SaveGroup(r) \/ UpdateRules(r)

LicenseStep(r) ==
  \/ \E c \in Customers, k \in Keys : PostLicense(r, c, k)
  \/ \E a \in AppIds : SyncLicense(r, a)
  \/ synchronize_license(r) \/ RefusedByLM(r) \/ update_license(r)
  \/ FindAlgorithm(r) \/ SaveSyncedAlgorithm(r) \/ FinishLicenseSync(r)

Next ==
  \/ \E r \in Requests : ReferenceStep(r)
  \/ \E r \in Requests : ApplicationStep(r)
  \/ \E r \in Requests : ParentStep(r)
  \/ \E r \in Requests : LicenseStep(r)
  \/ \E p \in ParentIds, force \in BOOLEAN : DeleteParent(p, force)
  \/ \E p \in ParentIds, force \in BOOLEAN : DeleteDojoParent(p, force)
  \/ \E s \in Storages : DeleteStorage(s) /\ UNCHANGED catalog
  \/ \E k \in Owners \X Shapes : DeletePrice(k) /\ UNCHANGED catalog
  \/ \E n \in Algorithms : RemoveAlgorithm(n)

Spec == Init /\ [][Next]_vars

-----------------------------------------------------------------------------
Busy(thing) == \E r \in Requests : thing \in request[r].on

TypeOK ==
  /\ ReferenceOK
  /\ apps \in [AppIds -> ApplicationDoc \cup {None}] /\ parents \in [ParentIds -> ParentDoc \cup {None}]
  /\ made \in [apps : AppIds, parents : ParentIds, settings : Nat]
  /\ \A a \in AppIds : apps[a] # None =>
       /\ a <= made.apps
       /\ apps[a].type = "RIGHTSIZER" => {apps[a].input, apps[a].output} \subseteq Storages
       /\ apps[a].type = "RIGHTSIZER_LICENSES" => apps[a].key \in Keys
  /\ \A p \in ParentIds : parents[p] # None => p <= made.parents /\ parents[p].application <= made.apps
  /\ secrets \subseteq AppIds /\ kept \in [ParentIds -> SUBSET Item] /\ dropped \subseteq Algorithms

\* Rules and groups of one parent come from six handlers, each of which writes the
\* whole list: as long as no two of them, and no deletion, run on a parent at the same
\* time, the list is what the requests that were answered made of it, one by one.
RulesAndGroupsAreKept ==
  \A p \in ParentIds : parents[p] # None /\ <<"parent", p>> \notin mixed =>
    parents[p].meta = kept[p]

\* A RIGHTSIZER application that is not deleted has its parent, whatever is done
\* through the endpoints of parents and of the other applications: only a creation
\* that died between the two documents leaves one without.
HostKeepsItsParent ==
  \A a \in AppIds : Active(a, "RIGHTSIZER") /\ ~Busy(<<"app", a>>) /\ <<"app", a>> \notin died =>
    \E p \in active_parents(a) : parents[p].type = "RIGHTSIZER_PARENT"

\* Vault and the applications agree: when no request works on an application or died
\* on it, its secret is there if the application is, new password or not, and gone if
\* the application is gone, unless a new password met the deletion.
SecretsMatchApplications ==
  \A a \in AppIds : ~Busy(<<"app", a>>) /\ <<"app", a>> \notin died =>
    /\ apps[a] # None /\ apps[a].type # "RIGHTSIZER_LICENSES" => a \in secrets
    /\ a \in secrets /\ <<"app", a>> \notin mixed => apps[a] # None

\* After a synchronisation that was not cut short, every algorithm of the licence is
\* there, or a request has deleted it since: also when the licences of two customers,
\* synchronised at the same time, share an algorithm.
SyncedLicenseIsUsable ==
  \A a \in AppIds : Active(a, "RIGHTSIZER_LICENSES") /\ ~Busy(<<"app", a>>) /\ <<"app", a>> \notin died =>
    \A n \in apps[a].algorithms : algorithms[n] # None \/ n \in dropped
=============================================================================
