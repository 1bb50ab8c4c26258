---------------------------- MODULE ReferenceData ----------------------------
(***************************************************************************)
(* What the API keeps in MongoDB for all customers: storages, shapes,      *)
(* prices of shapes and algorithms, with the requests that change them.    *)
(*                                                                         *)
(* Every request has a thread: it is one action up to its last read and    *)
(* one for each write.  A deletion is one action, since it deletes by id   *)
(* what it has read.  The names are unique in the database, and the write  *)
(* to a document that is gone leaves one without a name that no query by   *)
(* name finds; it is left out here.                                        *)
(***************************************************************************)
EXTENDS Integers, FiniteSets

CONSTANTS
  Requests,      \* threads that serve requests
  Storages, Shapes, Algorithms,   \* names
  Customers,
  Default,       \* the owner of the public prices, DEFAULT_CUSTOMER
  Values,        \* contents of shapes and prices
  Budgets,       \* bound: requests of each sort (host, edit, license, algorithm, price), and deaths
  None

Owners == Customers \cup {Default}
StorageType == {"DATA_SOURCE", "STORAGE"}

StorageDoc   == [id : Nat, type : StorageType]
ShapeDoc     == [id : Nat, value : Values]
PriceDoc     == [id : Nat, value : Values]
AlgorithmDoc == [id : Nat, customer : Customers, licensed : BOOLEAN, settings : {"default", "own", "issued"}]

ASSUME NoneAssumption == None \notin StorageDoc \cup ShapeDoc \cup PriceDoc \cup AlgorithmDoc \cup Nat

VARIABLES
  storages,    \* name -> None or [id, type]
  shapes,      \* name -> None or [id, value]
  prices,      \* owner, shape -> None or [id, value]: of one region and system
  algorithms,  \* name -> None or [id, customer, licensed, settings]
  ids,         \* documents created so far
  request,     \* what a request will do next, with what it has read
  left,
  mixed,       \* history: what two requests worked on at the same time
  died,        \* history: what a request worked on when its process died
  priced       \* history: the prices that were saved and not deleted

reference == <<storages, shapes, prices, algorithms, priced>>
control   == <<ids, request, left, mixed, died>>

Idle == [op |-> "none", on |-> {}]

Others(r) == UNION {request[q].on : q \in Requests \ {r}}

\* A request of `sort' comes in; `todo.on' is what it works on.
Begin(r, sort, todo) ==
  /\ request[r] = Idle
  /\ left[sort] > 0 /\ left' = [left EXCEPT ![sort] = @ - 1]
  /\ request' = [request EXCEPT ![r] = todo]
  /\ mixed' = mixed \cup (todo.on \cap Others(r))
  /\ UNCHANGED died

Continue(r, todo) ==
  /\ request' = [request EXCEPT ![r] = todo]
  /\ mixed' = mixed \cup (todo.on \cap Others(r))
  /\ UNCHANGED <<left, died>>

Finish(r) == Continue(r, Idle)

\* The worker is killed, or a call that the request makes raises.
Die(r) ==
  /\ request[r] # Idle
  /\ left.deaths > 0 /\ left' = [left EXCEPT !.deaths = @ - 1]
  /\ died' = died \cup request[r].on
  /\ request' = [request EXCEPT ![r] = Idle]
  /\ UNCHANGED <<reference, ids, mixed>>

\* One request that deletes and answers.
DeleteNow(sort, on) ==
  /\ left[sort] > 0 /\ left' = [left EXCEPT ![sort] = @ - 1]
  /\ mixed' = mixed \cup (on \cap UNION {request[q].on : q \in Requests})
  /\ UNCHANGED <<ids, request, died>>

\* insert_one under the unique index: `refused' when the name is there.
Created(collection, name, document) ==
  IF collection[name] = None THEN [collection EXCEPT ![name] = document] ELSE collection

Same(collection, name, id) ==
  collection[name] # None /\ collection[name].id = id

ReferenceOK ==
  /\ storages   \in [Storages -> StorageDoc \cup {None}]
  /\ shapes     \in [Shapes -> ShapeDoc \cup {None}]
  /\ prices     \in [Owners \X Shapes -> PriceDoc \cup {None}]
  /\ algorithms \in [Algorithms -> AlgorithmDoc \cup {None}]
  /\ priced     \subseteq Owners \X Shapes

-----------------------------------------------------------------------------
(* Storages                                                                *)

PostStorage(r, s, type) ==
  /\ storages[s] = None
  /\ Begin(r, "host", [op |-> "save storage", on |-> {}, name |-> s, type |-> type])
  /\ UNCHANGED <<reference, ids>>

SaveStorage(r) ==
  /\ request[r].op = "save storage"
  /\ ids' = ids + 1
  /\ storages' = Created(storages, request[r].name, [id |-> ids + 1, type |-> request[r].type])
  /\ Finish(r)
  /\ UNCHANGED <<shapes, prices, algorithms, priced>>

PatchStorage(r, s, type) ==
  /\ storages[s] # None
  /\ Begin(r, "host", [op |-> "update storage", on |-> {}, name |-> s,
                       type |-> type, id |-> storages[s].id])
  /\ UNCHANGED <<reference, ids>>

SavePatchedStorage(r) ==
  LET todo == request[r] IN
  /\ todo.op = "update storage"
  /\ storages' = IF Same(storages, todo.name, todo.id)
                 THEN [storages EXCEPT ![todo.name].type = todo.type] ELSE storages
  /\ Finish(r)
  /\ UNCHANGED <<shapes, prices, algorithms, priced, ids>>

\* Whether an application refers to it is not asked.
DeleteStorage(s) ==
  /\ storages[s] # None
  /\ storages' = [storages EXCEPT ![s] = None]
  /\ DeleteNow("host", {})
  /\ UNCHANGED <<shapes, prices, algorithms, priced>>

-----------------------------------------------------------------------------
(* Shapes                                                                  *)

PostShape(r, s, value) ==
  /\ shapes[s] = None
  /\ Begin(r, "price", [op |-> "save shape", on |-> {}, name |-> s, value |-> value])
  /\ UNCHANGED <<reference, ids>>

SaveShape(r) ==
  /\ request[r].op = "save shape"
  /\ ids' = ids + 1
  /\ shapes' = Created(shapes, request[r].name, [id |-> ids + 1, value |-> request[r].value])
  /\ Finish(r)
  /\ UNCHANGED <<storages, prices, algorithms, priced>>

PatchShape(r, s, value) ==
  /\ shapes[s] # None
  /\ Begin(r, "price", [op |-> "update shape", on |-> {}, name |-> s,
                        value |-> value, id |-> shapes[s].id])
  /\ UNCHANGED <<reference, ids>>

SavePatchedShape(r) ==
  LET todo == request[r] IN
  /\ todo.op = "update shape"
  /\ shapes' = IF Same(shapes, todo.name, todo.id)
               THEN [shapes EXCEPT ![todo.name].value = todo.value] ELSE shapes
  /\ Finish(r)
  /\ UNCHANGED <<storages, prices, algorithms, priced, ids>>

\* The prices of the shape, of every owner, are listed, and then deleted one by one.
DeleteShape(r, s) ==
  /\ shapes[s] # None
  /\ Begin(r, "price", [op |-> "delete shape", on |-> {}, name |-> s, id |-> shapes[s].id,
       listed |-> {[key |-> <<o, s>>, id |-> prices[<<o, s>>].id] : o \in {p \in Owners : prices[<<p, s>>] # None}}])
  /\ UNCHANGED <<reference, ids>>

DeleteListedPrice(r) ==
  LET todo == request[r] IN
  /\ todo.op = "delete shape"
  /\ \E price \in todo.listed :
       /\ Continue(r, [todo EXCEPT !.listed = @ \ {price}])
       /\ IF Same(prices, price.key, price.id)
          THEN prices' = [prices EXCEPT ![price.key] = None] /\ priced' = priced \ {price.key}
          ELSE UNCHANGED <<prices, priced>>
  /\ UNCHANGED <<storages, shapes, algorithms, ids>>

DeleteShapeItself(r) ==
  LET todo == request[r] IN
  /\ todo.op = "delete shape" /\ todo.listed = {}
  /\ shapes' = IF Same(shapes, todo.name, todo.id) THEN [shapes EXCEPT ![todo.name] = None] ELSE shapes
  /\ Finish(r)
  /\ UNCHANGED <<storages, prices, algorithms, priced, ids>>

-----------------------------------------------------------------------------
(* Prices                                                                  *)

\* The shape need not exist.
PostPrice(r, key, value) ==
  /\ prices[key] = None
  /\ Begin(r, "price", [op |-> "save price", on |-> {}, key |-> key, value |-> value])
  /\ UNCHANGED <<reference, ids>>

SavePrice(r) ==
  /\ request[r].op = "save price"
  /\ ids' = ids + 1
  /\ prices' = Created(prices, request[r].key, [id |-> ids + 1, value |-> request[r].value])
  /\ priced' = priced \cup {request[r].key}
  /\ Finish(r)
  /\ UNCHANGED <<storages, shapes, algorithms>>

PatchPrice(r, key, value) ==
  /\ prices[key] # None
  /\ Begin(r, "price", [op |-> "update price", on |-> {}, key |-> key,
                        value |-> value, id |-> prices[key].id])
  /\ UNCHANGED <<reference, ids>>

SavePatchedPrice(r) ==
  LET todo == request[r] IN
  /\ todo.op = "update price"
  /\ prices' = IF Same(prices, todo.key, todo.id)
               THEN [prices EXCEPT ![todo.key].value = todo.value] ELSE prices
  /\ Finish(r)
  /\ UNCHANGED <<storages, shapes, algorithms, priced, ids>>

DeletePrice(key) ==
  /\ prices[key] # None
  /\ prices' = [prices EXCEPT ![key] = None]
  /\ priced' = priced \ {key}
  /\ DeleteNow("price", {})
  /\ UNCHANGED <<storages, shapes, algorithms>>

\* The public prices that AWS lists, of the shapes that have one.
SyncPrices(r, listed, value) ==
  /\ Begin(r, "price", [op |-> "sync prices", on |-> {<<"price", <<Default, s>>>> : s \in listed},
                        listed |-> listed, shape |-> None, value |-> value])
  /\ UNCHANGED <<reference, ids>>

\* Mutant: the price that is there is deleted, and the new one is not saved again.
save_force_Once(key, value) == [prices EXCEPT ![key] = IF @ = None THEN [id |-> ids + 1, value |-> value] ELSE None]

save_force(key, value) == Created(prices, key, [id |-> ids + 1, value |-> value])

\* A price is there when NotUniqueError is raised: it is read, deleted, and saved anew.
SavePriceForce(r) ==
  LET todo == request[r] IN
  /\ todo.op = "sync prices"
  /\ \E s \in todo.listed : LET key == <<Default, s>> IN
       /\ ids' = ids + 1
       /\ prices' = save_force(key, todo.value)
       /\ IF prices[key] = None
          THEN /\ priced' = priced \cup {key}
               /\ Continue(r, [todo EXCEPT !.listed = @ \ {s}])
          ELSE /\ UNCHANGED priced
               /\ Continue(r, [todo EXCEPT !.op = "delete old price", !.shape = s])
  /\ UNCHANGED <<storages, shapes, algorithms>>

\* ShapePrice.objects.get raises if another request has deleted the price.
DeleteOldPrice(r) ==
  LET todo == request[r]  key == <<Default, todo.shape>> IN
  /\ todo.op = "delete old price"
  /\ prices' = [prices EXCEPT ![key] = None]
  /\ IF prices[key] = None THEN Finish(r) ELSE Continue(r, [todo EXCEPT !.op = "save new price"])
  /\ UNCHANGED <<storages, shapes, algorithms, priced, ids>>

\* Again refused if another request has saved one: nobody handles the error here.
SaveNewPrice(r) ==
  LET todo == request[r]  key == <<Default, todo.shape>> IN
  /\ todo.op = "save new price"
  /\ ids' = ids + 1
  /\ prices' = Created(prices, key, [id |-> ids + 1, value |-> todo.value])
  /\ IF prices[key] = None
     THEN /\ priced' = priced \cup {key}
          /\ Continue(r, [todo EXCEPT !.op = "sync prices", !.listed = @ \ {todo.shape}])
     ELSE UNCHANGED priced /\ Finish(r)
  /\ UNCHANGED <<storages, shapes, algorithms>>

FinishPriceSync(r) ==
  /\ request[r].op = "sync prices" /\ request[r].listed = {}
  /\ Finish(r)
  /\ UNCHANGED <<reference, ids>>

-----------------------------------------------------------------------------
(* Algorithms                                                              *)

PostAlgorithm(r, n, customer) ==
  /\ algorithms[n] = None
  /\ Begin(r, "algorithm", [op |-> "create algorithm", on |-> {}, name |-> n, customer |-> customer])
  /\ UNCHANGED <<reference, ids>>

SaveNewAlgorithm(r) ==
  LET todo == request[r] IN
  /\ todo.op = "create algorithm"
  /\ ids' = ids + 1
  /\ algorithms' = Created(algorithms, todo.name,
       [id |-> ids + 1, customer |-> todo.customer, licensed |-> FALSE, settings |-> "default"])
  /\ Finish(r)
  /\ UNCHANGED <<storages, shapes, prices, priced>>

\* Mutant: settings of licensed algorithms are accepted.
allowed_settings_All(n) == TRUE

allowed_settings(n) == ~algorithms[n].licensed

\* By the customer of the algorithm, or an administrator.
PatchAlgorithm(r, n) ==
  /\ algorithms[n] # None /\ allowed_settings(n)
  /\ Begin(r, "algorithm", [op |-> "update algorithm", on |-> {}, name |-> n, id |-> algorithms[n].id])
  /\ UNCHANGED <<reference, ids>>

SavePatchedAlgorithm(r) ==
  LET todo == request[r] IN
  /\ todo.op = "update algorithm"
  /\ algorithms' = IF Same(algorithms, todo.name, todo.id)
                   THEN [algorithms EXCEPT ![todo.name].settings = "own"] ELSE algorithms
  /\ Finish(r)
  /\ UNCHANGED <<storages, shapes, prices, priced, ids>>

DeleteAlgorithm(n) ==
  /\ algorithms[n] # None
  /\ algorithms' = [algorithms EXCEPT ![n] = None]
  /\ DeleteNow("algorithm", {})
  /\ UNCHANGED <<storages, shapes, prices, priced>>

-----------------------------------------------------------------------------
\* The public prices are replaced one by one, by a deletion and a new document, while
\* users create, change and delete prices and shapes and another synchronisation
\* runs: a price that was saved and not deleted is there, unless a request that
\* replaces it is between the two, or died between them.
PriceIsKept ==
  \A key \in priced :
    \/ prices[key] # None
    \/ <<"price", key>> \in died
    \/ \E r \in Requests : request[r].op = "save new price" /\ <<Default, request[r].shape>> = key

\* The settings of a licensed algorithm are the License Manager's, whoever patches,
\* deletes and creates algorithms of its name while licences are synchronised.
LicensedSettingsAreIssued ==
  \A n \in Algorithms : algorithms[n] # None =>
    (algorithms[n].licensed => algorithms[n].settings = "issued")
=============================================================================
