--------------------------- MODULE CatalogProofs ---------------------------
(***************************************************************************)
(* Proofs about ReferenceData, Catalog and HealthChecks, for any requests, *)
(* names and customers, any bounds and any budgets.                        *)
(*                                                                         *)
(* A request holds what it has read, so the properties of the documents    *)
(* are inductive only with what is known of the requests: what they work   *)
(* on is in `on' (RequestType), two that work on one thing are in `mixed'  *)
(* (Overlap), and all that name an application or a parent agree on what   *)
(* it is, whether its document is there, deleted or not yet there (Agreed).*)
(***************************************************************************)
EXTENDS HealthChecks, FiniteSetTheorems, TLAPS

Things ==
  ({"app"} \X AppIds) \cup ({"parent"} \X ParentIds) \cup ({"customer"} \X Customers)
  \cup ({"license"} \X Customers \X Keys) \cup ({"price"} \X (Owners \X Shapes))

Public(s) == <<"price", <<Default, s>>>>

\* What the record of each step of a request holds.
SyncTodo ==
  [op : {"sync prices", "delete old price", "save new price"}, on : SUBSET Things, listed : SUBSET Shapes,
   shape : Shapes \cup {None}, value : Values]

ReferenceTodo(x) ==
  /\ x.op = "save storage" => x \in [op : {"save storage"}, on : {{}}, name : Storages, type : StorageType]
  /\ x.op = "update storage" =>
       x \in [op : {"update storage"}, on : {{}}, name : Storages, type : StorageType, id : Nat]
  /\ x.op = "save shape" => x \in [op : {"save shape"}, on : {{}}, name : Shapes, value : Values]
  /\ x.op = "update shape" => x \in [op : {"update shape"}, on : {{}}, name : Shapes, value : Values, id : Nat]
  /\ x.op = "delete shape" =>
       x \in [op : {"delete shape"}, on : {{}}, name : Shapes, id : Nat,
              listed : SUBSET [key : Owners \X Shapes, id : Nat]]
  /\ x.op = "save price" => x \in [op : {"save price"}, on : {{}}, key : Owners \X Shapes, value : Values]
  /\ x.op = "update price" =>
       x \in [op : {"update price"}, on : {{}}, key : Owners \X Shapes, value : Values, id : Nat]
  /\ x.op \in {"sync prices", "delete old price", "save new price"} =>
       x \in SyncTodo /\ \A s \in x.listed : Public(s) \in x.on
  /\ x.op \in {"delete old price", "save new price"} => x.shape \in Shapes /\ Public(x.shape) \in x.on
  /\ x.op = "create algorithm" =>
       x \in [op : {"create algorithm"}, on : {{}}, name : Algorithms, customer : Customers]
  /\ x.op = "update algorithm" => x \in [op : {"update algorithm"}, on : {{}}, name : Algorithms, id : Nat]

ReferenceOps ==
  {"save storage", "update storage", "save shape", "update shape", "delete shape", "save price",
   "update price", "sync prices", "delete old price", "save new price", "create algorithm",
   "update algorithm"}

HostOps     == {"create secret", "save application", "save host parent"}
PasswordOps == {"delete secret", "replace secret", "update application"}
DeleteOps   == {"delete parents", "delete application", "mark application"}
EditOps     == {"save group", "update rules"}
LicenseOps  == {"ask LM", "update license", "sync algorithms", "save algorithm"}
AppOps      == HostOps \cup PasswordOps \cup DeleteOps \cup {"mark parents"} \cup LicenseOps
CatalogOps  == AppOps \cup EditOps \cup {"save parent"}

CreatedDoc(d) ==
  /\ d \in ApplicationDoc /\ d.algorithms = {}
  /\ d.type = "RIGHTSIZER" => {d.input, d.output} \subseteq Storages
  /\ d.type = "RIGHTSIZER_LICENSES" => d.key \in Keys

LicensedDoc(d) == d \in ApplicationDoc /\ d.type = "RIGHTSIZER_LICENSES" /\ d.key \in Keys

HostTodo     == [op : HostOps, on : SUBSET Things, app : AppIds, document : ApplicationDoc]
PasswordTodo ==
  [op : PasswordOps, on : SUBSET Things, app : AppIds, storages : BOOLEAN, input : Storages, output : Storages]
DeleteTodo   == [op : DeleteOps, on : SUBSET Things, app : AppIds, parents : SUBSET ParentIds]
MarkTodo     ==
  [op : {"mark parents"}, on : SUBSET Things, app : AppIds, force : BOOLEAN, parents : SUBSET ParentIds]
ParentTodo   == [op : {"save parent"}, on : SUBSET Things, document : ParentDoc]
EditTodo     ==
  [op : EditOps, on : SUBSET Things, parent : ParentIds, do : [remove : SUBSET Item, add : SUBSET Item],
   document : ParentDoc]
AskTodo      == [op : {"ask LM"}, on : SUBSET Things, app : AppIds, document : ApplicationDoc]
UpdateTodo   ==
  [op : {"update license"}, on : SUBSET Things, app : AppIds, document : ApplicationDoc,
   listed : SUBSET Algorithms]
SyncedTodo   ==
  [op : {"sync algorithms", "save algorithm"}, on : SUBSET Things, app : AppIds, listed : SUBSET Algorithms,
   customer : Customers, name : Algorithms \cup {None}, id : Nat \cup {None}]

CatalogTodo(x) ==
  /\ x.op \in HostOps =>
       /\ x \in HostTodo /\ CreatedDoc(x.document)
       /\ x.op = "create secret" => x.document.type # "RIGHTSIZER_LICENSES"
       /\ x.op = "save host parent" => x.document.type = "RIGHTSIZER"
  /\ x.op \in PasswordOps => x \in PasswordTodo
  /\ x.op \in DeleteOps => x \in DeleteTodo
  /\ x.op = "mark parents" => x \in MarkTodo
  /\ x.op \in {"delete parents", "mark parents"} => \A p \in x.parents : <<"parent", p>> \in x.on
  /\ x.op = "save parent" =>
       x \in ParentTodo /\ x.document.meta = {} /\ x.document.type # "RIGHTSIZER_PARENT"
  /\ x.op \in EditOps =>
       x \in EditTodo /\ <<"parent", x.parent>> \in x.on
  /\ x.op = "ask LM" => x \in AskTodo /\ LicensedDoc(x.document)
  /\ x.op = "update license" => x \in UpdateTodo /\ LicensedDoc(x.document)
  /\ x.op \in {"sync algorithms", "save algorithm"} => x \in SyncedTodo
  /\ x.op = "save algorithm" => x.name \in Algorithms
  /\ x.op \in AppOps => <<"app", x.app>> \in x.on

TodoOK(x) ==
  /\ x.op \in {"none"} \cup ReferenceOps \cup CatalogOps
  /\ x.op = "none" => x = Idle
  /\ ReferenceTodo(x)
  /\ CatalogTodo(x)

ReferenceType == ReferenceOK /\ ids \in Nat
AppsType ==
  /\ apps \in [AppIds -> ApplicationDoc \cup {None}]
  /\ \A a \in AppIds : apps[a] # None =>
       /\ apps[a].type = "RIGHTSIZER" => {apps[a].input, apps[a].output} \subseteq Storages
       /\ apps[a].type = "RIGHTSIZER_LICENSES" => apps[a].key \in Keys
ParentsType == parents \in [ParentIds -> ParentDoc \cup {None}]
HistoryType == secrets \subseteq AppIds /\ kept \in [ParentIds -> SUBSET Item] /\ dropped \subseteq Algorithms
MadeType == made \in [apps : AppIds, parents : ParentIds, settings : Nat]
RequestType == DOMAIN request = Requests /\ \A r \in Requests : TodoOK(request[r])

TypeInv ==
  ReferenceType /\ AppsType /\ ParentsType /\ HistoryType /\ MadeType /\ RequestType

-----------------------------------------------------------------------------
(* Requests: each step of one moves it, and no other, to its next record.  *)

Moves(r) ==
  /\ request' = [request EXCEPT ![r] = request'[r]]
  /\ mixed' = mixed \cup (request'[r].on \cap Others(r))

\* A request of one collection of ReferenceData begins, goes on or ends.
ReferenceMove(r) ==
  /\ Moves(r) /\ died' = died
  /\ request[r].op \in {"none"} \cup ReferenceOps
  /\ request'[r].op \in {"none"} \cup ReferenceOps /\ TodoOK(request'[r])

LEMMA IdleOK == TodoOK(Idle)
  BY DEF TodoOK, Idle, ReferenceTodo, CatalogTodo, ReferenceOps, HostOps, PasswordOps, DeleteOps, EditOps,
         LicenseOps, AppOps, CatalogOps

LEMMA ReferenceTodoOK ==
  ASSUME NEW x, x.op \in ReferenceOps, ReferenceTodo(x)
  PROVE  TodoOK(x)
  BY DEF TodoOK, CatalogTodo, ReferenceOps, HostOps, PasswordOps, DeleteOps, EditOps, LicenseOps, AppOps

LEMMA CatalogTodoOK ==
  ASSUME NEW x, x.op \in CatalogOps, CatalogTodo(x)
  PROVE  TodoOK(x)
  BY DEF TodoOK, ReferenceTodo, HostOps, PasswordOps, DeleteOps, EditOps, LicenseOps, AppOps, CatalogOps

LEMMA BeginMoves ==
  ASSUME DOMAIN request = Requests, NEW r \in Requests, NEW sort, NEW x, Begin(r, sort, x)
  PROVE  Moves(r) /\ request'[r] = x /\ request[r] = Idle /\ died' = died
  BY DEF Begin, Moves

LEMMA ContinueMoves ==
  ASSUME DOMAIN request = Requests, NEW r \in Requests, NEW x, Continue(r, x)
  PROVE  Moves(r) /\ request'[r] = x /\ died' = died
  BY DEF Continue, Moves

LEMMA FinishMoves ==
  ASSUME DOMAIN request = Requests, NEW r \in Requests, Finish(r)
  PROVE  Moves(r) /\ request'[r] = Idle /\ died' = died
  BY ContinueMoves DEF Finish

LEMMA MovesType ==
  ASSUME RequestType, NEW r \in Requests, request' = [request EXCEPT ![r] = request'[r]], TodoOK(request'[r])
  PROVE  RequestType'
<1>1. DOMAIN request' = Requests
  BY DEF RequestType
<1>2. ASSUME NEW q \in Requests  PROVE TodoOK(request'[q])
  BY <1>2 DEF RequestType
<1> QED  BY <1>1, <1>2 DEF RequestType, TodoOK, ReferenceTodo, CatalogTodo, Public, CreatedDoc, LicensedDoc, Things

LEMMA BeginsReference ==
  ASSUME RequestType, NEW r \in Requests, NEW sort, NEW x, x.op \in ReferenceOps, ReferenceTodo(x),
         Begin(r, sort, x)
  PROVE  ReferenceMove(r)
  BY BeginMoves, ReferenceTodoOK DEF ReferenceMove, RequestType, Idle

LEMMA ContinuesReference ==
  ASSUME RequestType, NEW r \in Requests, request[r].op \in ReferenceOps,
         NEW x, x.op \in ReferenceOps, ReferenceTodo(x), Continue(r, x)
  PROVE  ReferenceMove(r)
  BY ContinueMoves, ReferenceTodoOK DEF ReferenceMove, RequestType

LEMMA FinishesReference ==
  ASSUME RequestType, NEW r \in Requests, request[r].op \in ReferenceOps, Finish(r)
  PROVE  ReferenceMove(r)
  BY FinishMoves, IdleOK DEF ReferenceMove, RequestType, Idle

LEMMA ReferenceStays ==
  ASSUME ReferenceType, UNCHANGED <<reference, ids>>
  PROVE  ReferenceType'
  BY DEF ReferenceType, ReferenceOK, reference

LEMMA NextId ==
  ASSUME ReferenceType, ids' = ids + 1
  PROVE  ids' \in Nat
  BY DEF ReferenceType

LEMMA CreatedType ==
  ASSUME NEW N, NEW D, NEW c \in [N -> D \cup {None}], NEW n \in N, NEW d \in D
  PROVE  Created(c, n, d) \in [N -> D \cup {None}]
  BY DEF Created

-----------------------------------------------------------------------------
(* Types of ReferenceData                                                  *)

LEMMA StorageSteps ==
  ASSUME TypeInv, NEW r \in Requests,
         \/ \E s \in Storages, t \in StorageType : PostStorage(r, s, t)
         \/ \E s \in Storages, t \in StorageType : PatchStorage(r, s, t)
         \/ SaveStorage(r) \/ SavePatchedStorage(r)
  PROVE  ReferenceType' /\ ReferenceMove(r)
<1> USE DEF TypeInv
<1>0. TodoOK(request[r]) /\ ReferenceTodo(request[r])
  BY DEF RequestType, TodoOK
<1>1. ASSUME NEW s \in Storages, NEW t \in StorageType, PostStorage(r, s, t)
      PROVE  ReferenceType' /\ ReferenceMove(r)
  <2> DEFINE x == [op |-> "save storage", on |-> {}, name |-> s, type |-> t]
  <2>1. x.op \in ReferenceOps /\ ReferenceTodo(x)
    BY DEF ReferenceOps, ReferenceTodo
  <2>2. Begin(r, "host", x) /\ UNCHANGED <<reference, ids>>
    BY <1>1 DEF PostStorage
  <2> HIDE DEF x
  <2> QED  BY <2>1, <2>2, BeginsReference, ReferenceStays
<1>2. ASSUME NEW s \in Storages, NEW t \in StorageType, PatchStorage(r, s, t)
      PROVE  ReferenceType' /\ ReferenceMove(r)
  <2> DEFINE x == [op |-> "update storage", on |-> {}, name |-> s, type |-> t, id |-> storages[s].id]
  <2>1. storages[s].id \in Nat
    BY <1>2 DEF PatchStorage, ReferenceType, ReferenceOK, StorageDoc
  <2>2. x.op \in ReferenceOps /\ ReferenceTodo(x)
    BY <2>1 DEF ReferenceOps, ReferenceTodo
  <2>3. Begin(r, "host", x) /\ UNCHANGED <<reference, ids>>
    BY <1>2 DEF PatchStorage
  <2> HIDE DEF x
  <2> QED  BY <2>2, <2>3, BeginsReference, ReferenceStays
<1>3. CASE SaveStorage(r)
  <2>1. request[r].name \in Storages /\ request[r].type \in StorageType
    BY <1>0, <1>3 DEF SaveStorage, ReferenceTodo
  <2>2. [id |-> ids + 1, type |-> request[r].type] \in StorageDoc
    BY <2>1 DEF StorageDoc, ReferenceType
  <2>3. storages' \in [Storages -> StorageDoc \cup {None}]
    BY <2>1, <2>2, <1>3, CreatedType DEF SaveStorage, ReferenceType, ReferenceOK
  <2>4. ReferenceMove(r)
    BY <1>3, FinishesReference DEF SaveStorage, ReferenceOps
  <2>5. ids' \in Nat
    BY <1>3, NextId DEF SaveStorage
  <2> QED  BY <1>3, <2>3, <2>4, <2>5 DEF SaveStorage, ReferenceType, ReferenceOK
<1>4. CASE SavePatchedStorage(r)
  <2>1. request[r].name \in Storages /\ request[r].type \in StorageType
    BY <1>0, <1>4 DEF SavePatchedStorage, ReferenceTodo
  <2>2. storages' \in [Storages -> StorageDoc \cup {None}]
    BY <2>1, <1>4 DEF SavePatchedStorage, Same, ReferenceType, ReferenceOK, StorageDoc
  <2>3. ReferenceMove(r)
    BY <1>4, FinishesReference DEF SavePatchedStorage, ReferenceOps
  <2> QED  BY <1>4, <2>2, <2>3 DEF SavePatchedStorage, ReferenceType, ReferenceOK
<1> QED  BY <1>1, <1>2, <1>3, <1>4

LEMMA ShapeSteps ==
  ASSUME TypeInv, NEW r \in Requests,
         \/ \E s \in Shapes, v \in Values : PostShape(r, s, v)
         \/ \E s \in Shapes, v \in Values : PatchShape(r, s, v)
         \/ \E s \in Shapes : DeleteShape(r, s)
         \/ SaveShape(r) \/ SavePatchedShape(r) \/ DeleteListedPrice(r) \/ DeleteShapeItself(r)
  PROVE  ReferenceType' /\ ReferenceMove(r)
<1> USE DEF TypeInv
<1>0. TodoOK(request[r]) /\ ReferenceTodo(request[r])
  BY DEF RequestType, TodoOK
<1>1. ASSUME NEW s \in Shapes, NEW v \in Values, PostShape(r, s, v)
      PROVE  ReferenceType' /\ ReferenceMove(r)
  <2> DEFINE x == [op |-> "save shape", on |-> {}, name |-> s, value |-> v]
  <2>1. x.op \in ReferenceOps /\ ReferenceTodo(x)
    BY DEF ReferenceOps, ReferenceTodo
  <2>2. Begin(r, "price", x) /\ UNCHANGED <<reference, ids>>
    BY <1>1 DEF PostShape
  <2> HIDE DEF x
  <2> QED  BY <2>1, <2>2, BeginsReference, ReferenceStays
<1>2. ASSUME NEW s \in Shapes, NEW v \in Values, PatchShape(r, s, v)
      PROVE  ReferenceType' /\ ReferenceMove(r)
  <2> DEFINE x == [op |-> "update shape", on |-> {}, name |-> s, value |-> v, id |-> shapes[s].id]
  <2>1. shapes[s].id \in Nat
    BY <1>2 DEF PatchShape, ReferenceType, ReferenceOK, ShapeDoc
  <2>2. x.op \in ReferenceOps /\ ReferenceTodo(x)
    BY <2>1 DEF ReferenceOps, ReferenceTodo
  <2>3. Begin(r, "price", x) /\ UNCHANGED <<reference, ids>>
    BY <1>2 DEF PatchShape
  <2> HIDE DEF x
  <2> QED  BY <2>2, <2>3, BeginsReference, ReferenceStays
<1>3. ASSUME NEW s \in Shapes, DeleteShape(r, s)
      PROVE  ReferenceType' /\ ReferenceMove(r)
  <2> DEFINE l == {[key |-> <<o, s>>, id |-> prices[<<o, s>>].id] : o \in {p \in Owners : prices[<<p, s>>] # None}}
             x == [op |-> "delete shape", on |-> {}, name |-> s, id |-> shapes[s].id, listed |-> l]
  <2>1. shapes[s].id \in Nat
    BY <1>3 DEF DeleteShape, ReferenceType, ReferenceOK, ShapeDoc
  <2>2. \A o \in Owners : prices[<<o, s>>] # None => prices[<<o, s>>].id \in Nat
    <3> TAKE o \in Owners
    <3>1. prices[<<o, s>>] \in PriceDoc \cup {None}
      BY DEF ReferenceType, ReferenceOK
    <3> QED  BY <3>1 DEF PriceDoc
  <2>3. l \subseteq [key : Owners \X Shapes, id : Nat]
    <3>1. ASSUME NEW o \in Owners, prices[<<o, s>>] # None
          PROVE  [key |-> <<o, s>>, id |-> prices[<<o, s>>].id] \in [key : Owners \X Shapes, id : Nat]
      BY <2>2, <3>1
    <3> QED  BY <3>1, Zenon
  <2>4. Begin(r, "price", x) /\ UNCHANGED <<reference, ids>>
    BY <1>3 DEF DeleteShape
  <2> HIDE DEF l
  <2>5. x.op \in ReferenceOps /\ ReferenceTodo(x)
    BY <2>1, <2>3 DEF ReferenceOps, ReferenceTodo
  <2> HIDE DEF x
  <2> QED  BY <2>4, <2>5, BeginsReference, ReferenceStays
<1>4. CASE SaveShape(r)
  <2>1. request[r].name \in Shapes /\ request[r].value \in Values
    BY <1>0, <1>4 DEF SaveShape, ReferenceTodo
  <2>2. [id |-> ids + 1, value |-> request[r].value] \in ShapeDoc
    BY <2>1 DEF ShapeDoc, ReferenceType
  <2>3. shapes' \in [Shapes -> ShapeDoc \cup {None}]
    BY <2>1, <2>2, <1>4, CreatedType DEF SaveShape, ReferenceType, ReferenceOK
  <2>4. ReferenceMove(r)
    BY <1>4, FinishesReference DEF SaveShape, ReferenceOps
  <2>5. ids' \in Nat
    BY <1>4, NextId DEF SaveShape
  <2> QED  BY <1>4, <2>3, <2>4, <2>5 DEF SaveShape, ReferenceType, ReferenceOK
<1>5. CASE SavePatchedShape(r)
  <2>1. request[r].name \in Shapes /\ request[r].value \in Values
    BY <1>0, <1>5 DEF SavePatchedShape, ReferenceTodo
  <2>2. shapes' \in [Shapes -> ShapeDoc \cup {None}]
    BY <2>1, <1>5 DEF SavePatchedShape, Same, ReferenceType, ReferenceOK, ShapeDoc
  <2>3. ReferenceMove(r)
    BY <1>5, FinishesReference DEF SavePatchedShape, ReferenceOps
  <2> QED  BY <1>5, <2>2, <2>3 DEF SavePatchedShape, ReferenceType, ReferenceOK
<1>6. CASE DeleteListedPrice(r)
  <2> DEFINE todo == request[r]
  <2>1. todo \in [op : {"delete shape"}, on : {{}}, name : Shapes, id : Nat,
                  listed : SUBSET [key : Owners \X Shapes, id : Nat]]
    BY <1>0, <1>6 DEF DeleteListedPrice, ReferenceTodo
  <2>2. PICK price \in todo.listed :
          /\ Continue(r, [todo EXCEPT !.listed = @ \ {price}])
          /\ IF Same(prices, price.key, price.id)
             THEN prices' = [prices EXCEPT ![price.key] = None] /\ priced' = priced \ {price.key}
             ELSE UNCHANGED <<prices, priced>>
    BY <1>6 DEF DeleteListedPrice
  <2> DEFINE x == [todo EXCEPT !.listed = @ \ {price}]
  <2>3. x.op = "delete shape" /\ ReferenceTodo(x)
    BY <2>1 DEF ReferenceTodo
  <2>a. Continue(r, x) /\ request[r].op \in ReferenceOps /\ x.op \in ReferenceOps
    BY <1>6, <2>2, <2>3 DEF DeleteListedPrice, ReferenceOps
  <2> HIDE DEF x
  <2>4. ReferenceMove(r)
    BY <2>a, <2>3, ContinuesReference
  <2>5. price.key \in Owners \X Shapes
    BY <2>1
  <2>6. prices' \in [Owners \X Shapes -> PriceDoc \cup {None}] /\ priced' \subseteq Owners \X Shapes
    BY <2>2, <2>5 DEF ReferenceType, ReferenceOK
  <2> QED  BY <1>6, <2>4, <2>6 DEF DeleteListedPrice, ReferenceType, ReferenceOK
<1>7. CASE DeleteShapeItself(r)
  <2>1. request[r].name \in Shapes
    BY <1>0, <1>7 DEF DeleteShapeItself, ReferenceTodo
  <2>2. shapes' \in [Shapes -> ShapeDoc \cup {None}]
    BY <2>1, <1>7 DEF DeleteShapeItself, ReferenceType, ReferenceOK
  <2>3. ReferenceMove(r)
    BY <1>7, FinishesReference DEF DeleteShapeItself, ReferenceOps
  <2> QED  BY <1>7, <2>2, <2>3 DEF DeleteShapeItself, ReferenceType, ReferenceOK
<1> QED  BY <1>1, <1>2, <1>3, <1>4, <1>5, <1>6, <1>7

LEMMA PriceSteps ==
  ASSUME TypeInv, NEW r \in Requests,
         \/ \E k \in Owners \X Shapes, v \in Values : PostPrice(r, k, v)
         \/ \E k \in Owners \X Shapes, v \in Values : PatchPrice(r, k, v)
         \/ SavePrice(r) \/ SavePatchedPrice(r)
  PROVE  ReferenceType' /\ ReferenceMove(r)
<1> USE DEF TypeInv
<1>0. TodoOK(request[r]) /\ ReferenceTodo(request[r])
  BY DEF RequestType, TodoOK
<1>1. ASSUME NEW k \in Owners \X Shapes, NEW v \in Values, PostPrice(r, k, v)
      PROVE  ReferenceType' /\ ReferenceMove(r)
  <2> DEFINE x == [op |-> "save price", on |-> {}, key |-> k, value |-> v]
  <2>1. x.op \in ReferenceOps /\ ReferenceTodo(x)
    BY DEF ReferenceOps, ReferenceTodo
  <2>2. Begin(r, "price", x) /\ UNCHANGED <<reference, ids>>
    BY <1>1 DEF PostPrice
  <2> HIDE DEF x
  <2> QED  BY <2>1, <2>2, BeginsReference, ReferenceStays
<1>2. ASSUME NEW k \in Owners \X Shapes, NEW v \in Values, PatchPrice(r, k, v)
      PROVE  ReferenceType' /\ ReferenceMove(r)
  <2> DEFINE x == [op |-> "update price", on |-> {}, key |-> k, value |-> v, id |-> prices[k].id]
  <2>1. prices[k].id \in Nat
    BY <1>2 DEF PatchPrice, ReferenceType, ReferenceOK, PriceDoc
  <2>2. x.op \in ReferenceOps /\ ReferenceTodo(x)
    BY <2>1 DEF ReferenceOps, ReferenceTodo
  <2>3. Begin(r, "price", x) /\ UNCHANGED <<reference, ids>>
    BY <1>2 DEF PatchPrice
  <2> HIDE DEF x
  <2> QED  BY <2>2, <2>3, BeginsReference, ReferenceStays
<1>3. CASE SavePrice(r)
  <2>1. request[r].key \in Owners \X Shapes /\ request[r].value \in Values
    BY <1>0, <1>3 DEF SavePrice, ReferenceTodo
  <2>2. [id |-> ids + 1, value |-> request[r].value] \in PriceDoc
    BY <2>1 DEF PriceDoc, ReferenceType
  <2>3. prices' \in [Owners \X Shapes -> PriceDoc \cup {None}]
    BY <2>1, <2>2, <1>3, CreatedType DEF SavePrice, ReferenceType, ReferenceOK
  <2>4. ReferenceMove(r)
    BY <1>3, FinishesReference DEF SavePrice, ReferenceOps
  <2>5. ids' \in Nat
    BY <1>3, NextId DEF SavePrice
  <2> QED  BY <1>3, <2>1, <2>3, <2>4, <2>5 DEF SavePrice, ReferenceType, ReferenceOK
<1>4. CASE SavePatchedPrice(r)
  <2>1. request[r].key \in Owners \X Shapes /\ request[r].value \in Values
    BY <1>0, <1>4 DEF SavePatchedPrice, ReferenceTodo
  <2>2. prices' \in [Owners \X Shapes -> PriceDoc \cup {None}]
    BY <2>1, <1>4 DEF SavePatchedPrice, Same, ReferenceType, ReferenceOK, PriceDoc
  <2>3. ReferenceMove(r)
    BY <1>4, FinishesReference DEF SavePatchedPrice, ReferenceOps
  <2> QED  BY <1>4, <2>2, <2>3 DEF SavePatchedPrice, ReferenceType, ReferenceOK
<1> QED  BY <1>1, <1>2, <1>3, <1>4


\* A synchronisation of prices holds what it still has to replace among what it works on.
LEMMA SyncTodoOK ==
  ASSUME NEW x \in SyncTodo, \A s \in x.listed : Public(s) \in x.on,
         x.op # "sync prices" => x.shape \in Shapes /\ Public(x.shape) \in x.on
  PROVE  x.op \in ReferenceOps /\ ReferenceTodo(x)
  BY DEF SyncTodo, ReferenceOps, ReferenceTodo

LEMMA PriceSyncSteps ==
  ASSUME TypeInv, NEW r \in Requests,
         \/ \E listed \in SUBSET Shapes, v \in Values : SyncPrices(r, listed, v)
         \/ SavePriceForce(r) \/ DeleteOldPrice(r) \/ SaveNewPrice(r) \/ FinishPriceSync(r)
  PROVE  ReferenceType' /\ ReferenceMove(r)
<1> USE DEF TypeInv
<1> DEFINE todo == request[r]
<1>0. /\ TodoOK(todo) /\ ReferenceTodo(todo)
      /\ prices \in [Owners \X Shapes -> PriceDoc \cup {None}] /\ priced \subseteq Owners \X Shapes
  BY DEF RequestType, TodoOK, ReferenceType, ReferenceOK
<1>1. ASSUME NEW listed \in SUBSET Shapes, NEW v \in Values, SyncPrices(r, listed, v)
      PROVE  ReferenceType' /\ ReferenceMove(r)
  <2> DEFINE x == [op |-> "sync prices", on |-> {<<"price", <<Default, s>>>> : s \in listed},
                   listed |-> listed, shape |-> None, value |-> v]
  <2>1. x.on \subseteq Things /\ \A s \in x.listed : Public(s) \in x.on
    BY DEF Things, Owners, Public
  <2>2. x \in SyncTodo /\ x.op = "sync prices"
    BY <2>1 DEF SyncTodo
  <2>3. Begin(r, "price", x) /\ UNCHANGED <<reference, ids>>
    BY <1>1 DEF SyncPrices
  <2> HIDE DEF x
  <2> QED  BY <2>1, <2>2, <2>3, SyncTodoOK, BeginsReference, ReferenceStays
<1>2. ASSUME todo.op \in {"sync prices", "delete old price", "save new price"}
      PROVE  /\ todo \in SyncTodo /\ todo.op \in ReferenceOps /\ todo.value \in Values
             /\ \A s \in todo.listed : s \in Shapes /\ <<Default, s>> \in Owners \X Shapes /\ Public(s) \in todo.on
             /\ todo.op # "sync prices" =>
                  /\ todo.shape \in Shapes /\ Public(todo.shape) \in todo.on
                  /\ <<Default, todo.shape>> \in Owners \X Shapes
             /\ [id |-> ids + 1, value |-> todo.value] \in PriceDoc
  <2>1. /\ todo \in SyncTodo /\ todo.op \in ReferenceOps
        /\ \A s \in todo.listed : Public(s) \in todo.on
        /\ todo.op # "sync prices" => todo.shape \in Shapes /\ Public(todo.shape) \in todo.on
    BY <1>0, <1>2 DEF ReferenceTodo, SyncTodo, ReferenceOps
  <2>2. todo.value \in Values /\ todo.listed \subseteq Shapes
    BY <2>1 DEF SyncTodo
  <2>3. \A s \in Shapes : <<Default, s>> \in Owners \X Shapes
    BY DEF Owners
  <2>4. [id |-> ids + 1, value |-> todo.value] \in PriceDoc
    BY <2>2 DEF ReferenceType, PriceDoc
  <2> QED  BY <2>1, <2>2, <2>3, <2>4
<1>3. CASE SavePriceForce(r)
  <2>0. todo.op = "sync prices"
    BY <1>3 DEF SavePriceForce
  <2>1. PICK s \in todo.listed : LET key == <<Default, s>> IN
          /\ ids' = ids + 1
          /\ prices' = save_force(key, todo.value)
          /\ IF prices[key] = None
             THEN /\ priced' = priced \cup {key}
                  /\ Continue(r, [todo EXCEPT !.listed = @ \ {s}])
             ELSE /\ UNCHANGED priced
                  /\ Continue(r, [todo EXCEPT !.op = "delete old price", !.shape = s])
    BY <1>3 DEF SavePriceForce
  <2> DEFINE x == [todo EXCEPT !.listed = @ \ {s}]
             y == [todo EXCEPT !.op = "delete old price", !.shape = s]
  <2>2. /\ x \in SyncTodo /\ x.op = "sync prices" /\ x.listed \subseteq todo.listed /\ x.on = todo.on
        /\ y \in SyncTodo /\ y.listed = todo.listed /\ y.on = todo.on /\ y.shape = s
    BY <1>2, <2>0 DEF SyncTodo
  <2>3. Continue(r, x) \/ Continue(r, y)
    BY <2>1
  <2> HIDE DEF x, y
  <2>4. /\ x.op \in ReferenceOps /\ ReferenceTodo(x)
        /\ y.op \in ReferenceOps /\ ReferenceTodo(y)
    BY <1>2, <2>0, <2>2, SyncTodoOK
  <2>5. ReferenceMove(r)
    BY <1>2, <2>0, <2>3, <2>4, ContinuesReference
  <2>6. prices' \in [Owners \X Shapes -> PriceDoc \cup {None}]
    BY <1>0, <1>2, <2>0, <2>1, CreatedType DEF save_force
  <2>7. ids' \in Nat /\ priced' \subseteq Owners \X Shapes
    BY <1>0, <1>2, <2>0, <2>1, NextId
  <2> QED  BY <1>3, <2>5, <2>6, <2>7 DEF SavePriceForce, ReferenceType, ReferenceOK
<1>4. CASE DeleteOldPrice(r)
  <2>0. todo.op = "delete old price"
    BY <1>4 DEF DeleteOldPrice
  <2> DEFINE x == [todo EXCEPT !.op = "save new price"]
  <2>1. x \in SyncTodo /\ x.listed = todo.listed /\ x.on = todo.on /\ x.shape = todo.shape
    BY <1>2, <2>0 DEF SyncTodo
  <2>2. Continue(r, x) \/ Finish(r)
    BY <1>4 DEF DeleteOldPrice
  <2>3. prices' \in [Owners \X Shapes -> PriceDoc \cup {None}]
    BY <1>0, <1>2, <1>4 DEF DeleteOldPrice
  <2> HIDE DEF x
  <2>4. x.op \in ReferenceOps /\ ReferenceTodo(x)
    BY <1>2, <2>0, <2>1, SyncTodoOK
  <2>5. ReferenceMove(r)
    BY <1>2, <2>0, <2>2, <2>4, ContinuesReference, FinishesReference
  <2> QED  BY <1>4, <2>3, <2>5 DEF DeleteOldPrice, ReferenceType, ReferenceOK
<1>5. CASE SaveNewPrice(r)
  <2>0. todo.op = "save new price"
    BY <1>5 DEF SaveNewPrice
  <2> DEFINE x == [todo EXCEPT !.op = "sync prices", !.listed = @ \ {todo.shape}]
  <2>1. x \in SyncTodo /\ x.op = "sync prices" /\ x.listed \subseteq todo.listed /\ x.on = todo.on
    BY <1>2, <2>0 DEF SyncTodo
  <2>2. Continue(r, x) \/ Finish(r)
    BY <1>5 DEF SaveNewPrice
  <2>3. prices' \in [Owners \X Shapes -> PriceDoc \cup {None}]
    BY <1>0, <1>2, <1>5, CreatedType DEF SaveNewPrice
  <2>4. ids' \in Nat /\ priced' \subseteq Owners \X Shapes
    BY <1>0, <1>2, <1>5, NextId DEF SaveNewPrice
  <2> HIDE DEF x
  <2>5. x.op \in ReferenceOps /\ ReferenceTodo(x)
    BY <1>2, <2>0, <2>1, SyncTodoOK
  <2>6. ReferenceMove(r)
    BY <1>2, <2>0, <2>2, <2>5, ContinuesReference, FinishesReference
  <2> QED  BY <1>5, <2>3, <2>4, <2>6 DEF SaveNewPrice, ReferenceType, ReferenceOK
<1>6. CASE FinishPriceSync(r)
  BY <1>6, FinishesReference, ReferenceStays DEF FinishPriceSync, ReferenceOps
<1> QED  BY <1>1, <1>3, <1>4, <1>5, <1>6

LEMMA AlgorithmSteps ==
  ASSUME TypeInv, NEW r \in Requests,
         \/ \E n \in Algorithms, c \in Customers : PostAlgorithm(r, n, c)
         \/ \E n \in Algorithms : PatchAlgorithm(r, n)
         \/ SaveNewAlgorithm(r) \/ SavePatchedAlgorithm(r)
  PROVE  ReferenceType' /\ ReferenceMove(r)
<1> USE DEF TypeInv
<1>0. TodoOK(request[r]) /\ ReferenceTodo(request[r])
  BY DEF RequestType, TodoOK
<1>1. ASSUME NEW n \in Algorithms, NEW c \in Customers, PostAlgorithm(r, n, c)
      PROVE  ReferenceType' /\ ReferenceMove(r)
  <2> DEFINE x == [op |-> "create algorithm", on |-> {}, name |-> n, customer |-> c]
  <2>1. x.op \in ReferenceOps /\ ReferenceTodo(x)
    BY DEF ReferenceOps, ReferenceTodo
  <2>2. Begin(r, "algorithm", x) /\ UNCHANGED <<reference, ids>>
    BY <1>1 DEF PostAlgorithm
  <2> HIDE DEF x
  <2> QED  BY <2>1, <2>2, BeginsReference, ReferenceStays
<1>2. ASSUME NEW n \in Algorithms, PatchAlgorithm(r, n)
      PROVE  ReferenceType' /\ ReferenceMove(r)
  <2> DEFINE x == [op |-> "update algorithm", on |-> {}, name |-> n, id |-> algorithms[n].id]
  <2>1. algorithms[n].id \in Nat
    BY <1>2 DEF PatchAlgorithm, ReferenceType, ReferenceOK, AlgorithmDoc
  <2>2. x.op \in ReferenceOps /\ ReferenceTodo(x)
    BY <2>1 DEF ReferenceOps, ReferenceTodo
  <2>3. Begin(r, "algorithm", x) /\ UNCHANGED <<reference, ids>>
    BY <1>2 DEF PatchAlgorithm
  <2> HIDE DEF x
  <2> QED  BY <2>2, <2>3, BeginsReference, ReferenceStays
<1>3. CASE SaveNewAlgorithm(r)
  <2>1. request[r].name \in Algorithms /\ request[r].customer \in Customers
    BY <1>0, <1>3 DEF SaveNewAlgorithm, ReferenceTodo
  <2>2. [id |-> ids + 1, customer |-> request[r].customer, licensed |-> FALSE, settings |-> "default"] \in AlgorithmDoc
    BY <2>1 DEF AlgorithmDoc, ReferenceType
  <2>3. algorithms' \in [Algorithms -> AlgorithmDoc \cup {None}]
    BY <2>1, <2>2, <1>3, CreatedType DEF SaveNewAlgorithm, ReferenceType, ReferenceOK
  <2>4. ReferenceMove(r)
    BY <1>3, FinishesReference DEF SaveNewAlgorithm, ReferenceOps
  <2>5. ids' \in Nat
    BY <1>3, NextId DEF SaveNewAlgorithm
  <2> QED  BY <1>3, <2>3, <2>4, <2>5 DEF SaveNewAlgorithm, ReferenceType, ReferenceOK
<1>4. CASE SavePatchedAlgorithm(r)
  <2>1. request[r].name \in Algorithms
    BY <1>0, <1>4 DEF SavePatchedAlgorithm, ReferenceTodo
  <2>2. algorithms' \in [Algorithms -> AlgorithmDoc \cup {None}]
    BY <2>1, <1>4 DEF SavePatchedAlgorithm, Same, ReferenceType, ReferenceOK, AlgorithmDoc
  <2>3. ReferenceMove(r)
    BY <1>4, FinishesReference DEF SavePatchedAlgorithm, ReferenceOps
  <2> QED  BY <1>4, <2>2, <2>3 DEF SavePatchedAlgorithm, ReferenceType, ReferenceOK
<1> QED  BY <1>1, <1>2, <1>3, <1>4

\* A step of a request for storages, shapes, prices or algorithms leaves the documents
\* of the customers alone.
LEMMA ReferenceSteps ==
  ASSUME TypeInv, NEW r \in Requests, ReferenceStep(r), ~Die(r)
  PROVE  ReferenceType' /\ ReferenceMove(r) /\ UNCHANGED catalog
  BY StorageSteps, ShapeSteps, PriceSteps, PriceSyncSteps, AlgorithmSteps DEF ReferenceStep

-----------------------------------------------------------------------------
(* Types of Catalog                                                        *)

\* A request for the documents of a customer begins, goes on, ends or fails.
CatalogMove(r) ==
  /\ Moves(r) /\ (died' = died \/ (request'[r] = Idle /\ died' = died \cup request[r].on))
  /\ request[r].op \in {"none"} \cup CatalogOps
  /\ request'[r].op \in {"none"} \cup CatalogOps /\ TodoOK(request'[r])

LEMMA BeginsCatalog ==
  ASSUME RequestType, NEW r \in Requests, NEW sort, NEW x, x.op \in CatalogOps, CatalogTodo(x),
         Begin(r, sort, x)
  PROVE  CatalogMove(r)
  BY BeginMoves, CatalogTodoOK DEF CatalogMove, RequestType, Idle

LEMMA ContinuesCatalog ==
  ASSUME RequestType, NEW r \in Requests, request[r].op \in CatalogOps,
         NEW x, x.op \in CatalogOps, CatalogTodo(x), Continue(r, x)
  PROVE  CatalogMove(r)
  BY ContinueMoves, CatalogTodoOK DEF CatalogMove, RequestType

LEMMA FinishesCatalog ==
  ASSUME RequestType, NEW r \in Requests, request[r].op \in CatalogOps, Finish(r)
  PROVE  CatalogMove(r)
  BY FinishMoves, IdleOK DEF CatalogMove, RequestType, Idle

LEMMA AppsStay ==
  ASSUME AppsType, UNCHANGED apps
  PROVE  AppsType'
  BY DEF AppsType

LEMMA CatalogStays ==
  ASSUME TypeInv, UNCHANGED catalog
  PROVE  AppsType' /\ ParentsType' /\ HistoryType' /\ MadeType'
  BY DEF TypeInv, catalog, AppsType, ParentsType, HistoryType, MadeType

\* The records of requests, by kind.
LEMMA HostTodoOK ==
  ASSUME NEW x \in HostTodo, CreatedDoc(x.document), <<"app", x.app>> \in x.on,
         x.op = "create secret" => x.document.type # "RIGHTSIZER_LICENSES",
         x.op = "save host parent" => x.document.type = "RIGHTSIZER"
  PROVE  x.op \in CatalogOps /\ CatalogTodo(x)
  BY DEF HostTodo, CatalogTodo, CatalogOps, AppOps, HostOps, PasswordOps, DeleteOps, EditOps, LicenseOps

LEMMA PasswordTodoOK ==
  ASSUME NEW x \in PasswordTodo, <<"app", x.app>> \in x.on
  PROVE  x.op \in CatalogOps /\ CatalogTodo(x)
  BY DEF PasswordTodo, CatalogTodo, CatalogOps, AppOps, HostOps, PasswordOps, DeleteOps, EditOps, LicenseOps

LEMMA DeleteTodoOK ==
  ASSUME NEW x \in DeleteTodo, <<"app", x.app>> \in x.on, \A p \in x.parents : <<"parent", p>> \in x.on
  PROVE  x.op \in CatalogOps /\ CatalogTodo(x)
  BY DEF DeleteTodo, CatalogTodo, CatalogOps, AppOps, HostOps, PasswordOps, DeleteOps, EditOps, LicenseOps

LEMMA MarkTodoOK ==
  ASSUME NEW x \in MarkTodo, <<"app", x.app>> \in x.on, \A p \in x.parents : <<"parent", p>> \in x.on
  PROVE  x.op \in CatalogOps /\ CatalogTodo(x)
  BY DEF MarkTodo, CatalogTodo, CatalogOps, AppOps, HostOps, PasswordOps, DeleteOps, EditOps, LicenseOps

LEMMA ParentTodoOK ==
  ASSUME NEW x \in ParentTodo, x.document.meta = {}, x.document.type # "RIGHTSIZER_PARENT"
  PROVE  x.op \in CatalogOps /\ CatalogTodo(x)
  BY DEF ParentTodo, CatalogTodo, CatalogOps, AppOps, HostOps, PasswordOps, DeleteOps, EditOps, LicenseOps

LEMMA EditTodoOK ==
  ASSUME NEW x \in EditTodo, <<"parent", x.parent>> \in x.on
  PROVE  x.op \in CatalogOps /\ CatalogTodo(x)
  BY DEF EditTodo, CatalogTodo, CatalogOps, AppOps, HostOps, PasswordOps, DeleteOps, EditOps, LicenseOps

LEMMA AskTodoOK ==
  ASSUME NEW x \in AskTodo, <<"app", x.app>> \in x.on, LicensedDoc(x.document)
  PROVE  x.op \in CatalogOps /\ CatalogTodo(x)
  BY DEF AskTodo, CatalogTodo, CatalogOps, AppOps, HostOps, PasswordOps, DeleteOps, EditOps, LicenseOps

LEMMA UpdateTodoOK ==
  ASSUME NEW x \in UpdateTodo, <<"app", x.app>> \in x.on, LicensedDoc(x.document)
  PROVE  x.op \in CatalogOps /\ CatalogTodo(x)
  BY DEF UpdateTodo, CatalogTodo, CatalogOps, AppOps, HostOps, PasswordOps, DeleteOps, EditOps, LicenseOps

LEMMA SyncedTodoOK ==
  ASSUME NEW x \in SyncedTodo, <<"app", x.app>> \in x.on, x.op = "save algorithm" => x.name \in Algorithms
  PROVE  x.op \in CatalogOps /\ CatalogTodo(x)
  BY DEF SyncedTodo, CatalogTodo, CatalogOps, AppOps, HostOps, PasswordOps, DeleteOps, EditOps, LicenseOps

LEMMA ApplicationIsDoc ==
  ASSUME NEW c \in Customers, NEW t \in ApplicationType
  PROVE  /\ Application(c, t) \in ApplicationDoc
         /\ Application(c, t).type = t /\ Application(c, t).algorithms = {} /\ Application(c, t).customer = c
  BY DEF Application, ApplicationDoc

WithStorages(e, in, out) == [e EXCEPT !.input = in, !.output = out]

LEMMA DocWithStorages ==
  ASSUME NEW e \in ApplicationDoc, NEW in \in Storages, NEW out \in Storages
  PROVE  LET d == WithStorages(e, in, out) IN
         /\ d \in ApplicationDoc /\ d.input = in /\ d.output = out
         /\ d.type = e.type /\ d.key = e.key /\ d.algorithms = e.algorithms
  BY DEF ApplicationDoc, WithStorages

LEMMA AppSaved ==
  ASSUME AppsType, NEW a \in AppIds, NEW d \in ApplicationDoc, apps' = [apps EXCEPT ![a] = d],
         d.type = "RIGHTSIZER" => {d.input, d.output} \subseteq Storages,
         d.type = "RIGHTSIZER_LICENSES" => d.key \in Keys
  PROVE  AppsType'
  BY DEF AppsType

LEMMA ThingsAre ==
  /\ \A a \in AppIds : <<"app", a>> \in Things
  /\ \A p \in ParentIds : <<"parent", p>> \in Things
  /\ \A c \in Customers : <<"customer", c>> \in Things
  /\ \A c \in Customers, k \in Keys : <<"license", c, k>> \in Things
<1>1. \A a \in AppIds : <<"app", a>> \in Things
  BY DEF Things
<1>2. \A p \in ParentIds : <<"parent", p>> \in Things
  BY DEF Things
<1>3. \A c \in Customers : <<"customer", c>> \in Things
  BY DEF Things
<1>4. \A c \in Customers, k \in Keys : <<"license", c, k>> \in Things
  BY DEF Things
<1> QED  BY <1>1, <1>2, <1>3, <1>4

LEMMA NewAppId ==
  ASSUME MadeType, made.apps < MaxApps, made' = [made EXCEPT !.apps = NewApp]
  PROVE  /\ NewApp \in AppIds /\ made'.apps = NewApp /\ made'.parents = made.parents
         /\ <<"app", NewApp>> \in Things /\ MadeType'
<1>1. NewApp \in AppIds
  BY BoundsAssumption DEF MadeType, NewApp, AppIds
<1> QED  BY <1>1 DEF MadeType, Things

LEMMA NewParentId ==
  ASSUME MadeType, made.parents < MaxParents, made' = [made EXCEPT !.parents = NewParent]
  PROVE  NewParent \in ParentIds /\ made'.parents = NewParent /\ made'.apps = made.apps /\ MadeType'
<1>1. NewParent \in ParentIds
  BY BoundsAssumption DEF MadeType, NewParent, ParentIds
<1> QED  BY <1>1 DEF MadeType

LEMMA HostSteps ==
  ASSUME TypeInv, NEW r \in Requests,
         \/ \E c \in Customers, in, out \in Storages : PostApplication(r, c, in, out)
         \/ \E c \in Customers : PostDojoApplication(r, c)
         \/ _create_application_secret(r) \/ SaveApplication(r) \/ SaveHostParent(r)
  PROVE  /\ UNCHANGED <<reference, ids>> /\ AppsType' /\ ParentsType' /\ HistoryType' /\ MadeType'
         /\ CatalogMove(r)
<1> DEFINE todo == request[r]
<1>0. /\ TodoOK(todo) /\ CatalogTodo(todo) /\ RequestType /\ AppsType /\ ParentsType /\ HistoryType
      /\ MadeType
  BY DEF TypeInv, RequestType, TodoOK
<1>1. ASSUME NEW c \in Customers, NEW in \in Storages, NEW out \in Storages, PostApplication(r, c, in, out)
      PROVE  /\ UNCHANGED <<reference, ids>> /\ AppsType' /\ ParentsType' /\ HistoryType' /\ MadeType'
             /\ CatalogMove(r)
  <2> DEFINE d == WithStorages(Application(c, "RIGHTSIZER"), in, out)
             on == OnApp(NewApp) \cup {<<"customer", c>>}
             x == [op |-> "create secret", on |-> on, app |-> NewApp, document |-> d]
  <2>1. NewApp \in AppIds /\ <<"app", NewApp>> \in Things /\ MadeType'
    BY <1>0, <1>1, NewAppId DEF PostApplication
  <2>2. /\ d \in ApplicationDoc /\ d.type = "RIGHTSIZER" /\ d.algorithms = {}
        /\ d.input = in /\ d.output = out
    <3>1. LET e == Application(c, "RIGHTSIZER") IN e \in ApplicationDoc /\ e.type = "RIGHTSIZER" /\ e.algorithms = {}
      BY ApplicationIsDoc DEF ApplicationType
    <3> QED  BY <3>1, DocWithStorages
  <2>3. Begin(r, "host", x) /\ UNCHANGED <<reference, ids, apps, parents, secrets, kept, dropped>>
    BY <1>1 DEF PostApplication, WithStorages
  <2> HIDE DEF d
  <2>4. CreatedDoc(d)
    BY <2>2 DEF CreatedDoc
  <2>5. x \in HostTodo /\ <<"app", x.app>> \in x.on
    <3>1. on \subseteq Things /\ <<"app", NewApp>> \in on
      BY <2>1, ThingsAre DEF OnApp
    <3> HIDE DEF on
    <3> QED  BY <2>1, <2>2, <3>1 DEF HostTodo, HostOps
  <2>6. x.op = "create secret" /\ x.document = d
    OBVIOUS
  <2> HIDE DEF x
  <2>7. CatalogMove(r)
    BY <1>0, <2>2, <2>3, <2>4, <2>5, <2>6, HostTodoOK, BeginsCatalog
  <2> QED  BY <1>0, <2>1, <2>3, <2>7, AppsStay DEF ParentsType, HistoryType
<1>2. ASSUME NEW c \in Customers, PostDojoApplication(r, c)
      PROVE  /\ UNCHANGED <<reference, ids>> /\ AppsType' /\ ParentsType' /\ HistoryType' /\ MadeType'
             /\ CatalogMove(r)
  <2> DEFINE d == Application(c, "DEFECT_DOJO")
             x == [op |-> "create secret", on |-> OnApp(NewApp), app |-> NewApp, document |-> d]
  <2>1. NewApp \in AppIds /\ <<"app", NewApp>> \in Things /\ MadeType'
    BY <1>0, <1>2, NewAppId DEF PostDojoApplication
  <2>2. d \in ApplicationDoc /\ d.type = "DEFECT_DOJO" /\ d.algorithms = {}
    BY ApplicationIsDoc DEF ApplicationType
  <2>3. Begin(r, "host", x) /\ UNCHANGED <<reference, ids, apps, parents, secrets, kept, dropped>>
    BY <1>2 DEF PostDojoApplication
  <2> HIDE DEF d
  <2>4. CreatedDoc(d)
    BY <2>2 DEF CreatedDoc
  <2>5. x \in HostTodo /\ <<"app", x.app>> \in x.on
    BY <2>1, <2>2 DEF HostTodo, HostOps, OnApp
  <2>6. x.op = "create secret" /\ x.document = d
    OBVIOUS
  <2> HIDE DEF x
  <2>7. CatalogMove(r)
    BY <1>0, <2>2, <2>3, <2>4, <2>5, <2>6, HostTodoOK, BeginsCatalog
  <2> QED  BY <1>0, <2>1, <2>3, <2>7, AppsStay DEF ParentsType, HistoryType
<1>3. ASSUME todo.op \in HostOps
      PROVE  /\ todo \in HostTodo /\ CreatedDoc(todo.document) /\ <<"app", todo.app>> \in todo.on
             /\ todo.op \in CatalogOps /\ todo.app \in AppIds /\ todo.document \in ApplicationDoc
             /\ todo.op = "create secret" => todo.document.type # "RIGHTSIZER_LICENSES"
  BY <1>0, <1>3 DEF CatalogTodo, HostTodo, CatalogOps, AppOps
<1>4. CASE _create_application_secret(r)
  <2>0. todo.op = "create secret" /\ todo.op \in HostOps
    BY <1>4 DEF _create_application_secret, HostOps
  <2> DEFINE x == [todo EXCEPT !.op = "save application"]
  <2>1. x \in HostTodo /\ x.op = "save application" /\ x.on = todo.on /\ x.app = todo.app /\ x.document = todo.document
    BY <1>3, <2>0 DEF HostTodo, HostOps
  <2>2. Continue(r, x) /\ UNCHANGED <<reference, ids, apps, parents, made, kept, dropped>>
    BY <1>4 DEF _create_application_secret
  <2> HIDE DEF x
  <2>3. CatalogMove(r)
    BY <1>0, <1>3, <2>0, <2>1, <2>2, HostTodoOK, ContinuesCatalog
  <2>4. secrets' \subseteq AppIds
    BY <1>0, <1>3, <1>4, <2>0 DEF _create_application_secret, HistoryType
  <2> QED  BY <1>0, <2>2, <2>3, <2>4, AppsStay DEF ParentsType, HistoryType, MadeType
<1>5. CASE SaveApplication(r)
  <2>0. todo.op = "save application" /\ todo.op \in HostOps
    BY <1>5 DEF SaveApplication, HostOps
  <2> DEFINE x == [todo EXCEPT !.op = "save host parent"]
             y == [todo EXCEPT !.op = "ask LM"]
  <2>1. /\ x \in HostTodo /\ x.op = "save host parent" /\ x.on = todo.on /\ x.app = todo.app
        /\ x.document = todo.document
    BY <1>3, <2>0 DEF HostTodo, HostOps
  <2>2. /\ y \in AskTodo /\ y.op = "ask LM" /\ y.on = todo.on /\ y.app = todo.app
        /\ y.document = todo.document
    BY <1>3, <2>0 DEF HostTodo, AskTodo
  <2>3. /\ apps' = [apps EXCEPT ![todo.app] = todo.document]
        /\ UNCHANGED <<reference, ids, parents, secrets, made, kept, dropped>>
        /\ \/ todo.document.type = "RIGHTSIZER" /\ Continue(r, x)
           \/ todo.document.type = "DEFECT_DOJO" /\ Finish(r)
           \/ todo.document.type = "RIGHTSIZER_LICENSES" /\ Continue(r, y)
    <3>1. todo.document.type \in ApplicationType
      BY <1>3, <2>0 DEF ApplicationDoc
    <3> QED  BY <1>5, <3>1 DEF SaveApplication, ApplicationType
  <2>4. AppsType'
    BY <1>0, <1>3, <2>0, <2>3 DEF AppsType, CreatedDoc
  <2> HIDE DEF x, y
  <2>5. todo.document.type = "RIGHTSIZER_LICENSES" => LicensedDoc(todo.document)
    BY <1>3, <2>0 DEF CreatedDoc, LicensedDoc
  <2>6. CatalogMove(r)
    BY <1>0, <1>3, <2>0, <2>1, <2>2, <2>3, <2>5, HostTodoOK, AskTodoOK, ContinuesCatalog, FinishesCatalog
  <2> QED  BY <1>0, <2>3, <2>4, <2>6 DEF ParentsType, HistoryType, MadeType
<1>6. CASE SaveHostParent(r)
  <2>0. todo.op = "save host parent" /\ todo.op \in HostOps
    BY <1>6 DEF SaveHostParent, HostOps
  <2>1. NewParent \in ParentIds /\ MadeType'
    BY <1>0, <1>6, NewParentId DEF SaveHostParent
  <2>2. Parent(todo.app, "RIGHTSIZER_PARENT") \in ParentDoc
    BY <1>3, <2>0 DEF Parent, ParentDoc, ParentType
  <2>3. ParentsType'
    BY <1>0, <1>6, <2>1, <2>2 DEF SaveHostParent, ParentsType
  <2>4. CatalogMove(r)
    BY <1>0, <1>3, <1>6, <2>0, FinishesCatalog DEF SaveHostParent
  <2> QED  BY <1>0, <1>6, <2>1, <2>3, <2>4, AppsStay DEF SaveHostParent, HistoryType
<1> QED  BY <1>1, <1>2, <1>4, <1>5, <1>6

LEMMA PasswordSteps ==
  ASSUME TypeInv, NEW r \in Requests,
         \/ \E a \in AppIds, in, out \in Storages \cup {None}, connection \in Connections :
              PatchApplication(r, a, in, out, connection)
         \/ DropSecret(r) \/ ReplaceSecret(r) \/ UpdateApplication(r)
  PROVE  /\ UNCHANGED <<reference, ids>> /\ AppsType' /\ ParentsType' /\ HistoryType' /\ MadeType'
         /\ CatalogMove(r)
<1> DEFINE todo == request[r]
<1>0. /\ TodoOK(todo) /\ CatalogTodo(todo) /\ RequestType /\ AppsType /\ ParentsType /\ HistoryType
      /\ MadeType
  BY DEF TypeInv, RequestType, TodoOK
<1>1. ASSUME NEW a \in AppIds, NEW in \in Storages \cup {None}, NEW out \in Storages \cup {None},
             NEW connection \in Connections, PatchApplication(r, a, in, out, connection)
      PROVE  /\ UNCHANGED <<reference, ids>> /\ AppsType' /\ ParentsType' /\ HistoryType' /\ MadeType'
             /\ CatalogMove(r)
  <2> DEFINE i == replaced(in, apps[a].input)
             o == replaced(out, apps[a].output)
             b == in # None \/ out # None \/ connection # "kept"
             x == [op |-> IF connection = "new password" THEN "delete secret" ELSE "update application", on |-> OnApp(a), app |-> a,
                   storages |-> b, input |-> i, output |-> o]
  <2>1. i \in Storages /\ o \in Storages
    BY <1>0, <1>1 DEF PatchApplication, Active, AppsType, replaced
  <2>2. b \in BOOLEAN /\ OnApp(a) \subseteq Things /\ <<"app", a>> \in OnApp(a)
    BY ThingsAre DEF OnApp
  <2>3. Begin(r, "host", x) /\ UNCHANGED <<reference, ids, catalog>>
    BY <1>1 DEF PatchApplication
  <2> HIDE DEF i, o, b
  <2>4. x \in PasswordTodo /\ <<"app", x.app>> \in x.on
    BY <2>1, <2>2 DEF PasswordTodo, PasswordOps
  <2> HIDE DEF x
  <2>5. CatalogMove(r)
    BY <1>0, <2>3, <2>4, PasswordTodoOK, BeginsCatalog
  <2> QED  BY <2>3, <2>5, CatalogStays
<1>2. ASSUME todo.op \in PasswordOps
      PROVE  /\ todo \in PasswordTodo /\ <<"app", todo.app>> \in todo.on /\ todo.op \in CatalogOps
             /\ todo.app \in AppIds /\ todo.input \in Storages /\ todo.output \in Storages
  BY <1>0, <1>2 DEF CatalogTodo, PasswordTodo, CatalogOps, AppOps
<1>3. ASSUME DropSecret(r) \/ ReplaceSecret(r)
      PROVE  /\ UNCHANGED <<reference, ids>> /\ AppsType' /\ ParentsType' /\ HistoryType' /\ MadeType'
             /\ CatalogMove(r)
  <2>0. todo.op \in {"delete secret", "replace secret"} /\ todo.op \in PasswordOps
    BY <1>3 DEF DropSecret, ReplaceSecret, PasswordOps
  <2> DEFINE x == [todo EXCEPT !.op = "replace secret"]
             y == [todo EXCEPT !.op = "update application"]
  <2>1. /\ x \in PasswordTodo /\ x.on = todo.on /\ x.app = todo.app
        /\ y \in PasswordTodo /\ y.on = todo.on /\ y.app = todo.app
    BY <1>2, <2>0 DEF PasswordTodo, PasswordOps
  <2>2. (Continue(r, x) \/ Continue(r, y)) /\ UNCHANGED <<reference, ids, apps, parents, made, kept, dropped>>
    BY <1>3 DEF DropSecret, ReplaceSecret
  <2> HIDE DEF x, y
  <2>3. CatalogMove(r)
    BY <1>0, <1>2, <2>0, <2>1, <2>2, PasswordTodoOK, ContinuesCatalog
  <2>4. secrets' \subseteq AppIds
    BY <1>0, <1>2, <1>3, <2>0 DEF DropSecret, ReplaceSecret, WriteSecret, HistoryType
  <2> QED  BY <1>0, <2>2, <2>3, <2>4, AppsStay DEF ParentsType, HistoryType, MadeType
<1>4. CASE UpdateApplication(r)
  <2>0. todo.op = "update application" /\ todo.op \in PasswordOps
    BY <1>4 DEF UpdateApplication, PasswordOps
  <2>1. AppsType'
    <3>1. CASE apps' = apps
      BY <1>0, <3>1, AppsStay
    <3>2. CASE /\ apps[todo.app] # None
               /\ apps' = [apps EXCEPT ![todo.app].input = todo.input, ![todo.app].output = todo.output]
      <4> DEFINE d == WithStorages(apps[todo.app], todo.input, todo.output)
      <4>0. todo.app \in AppIds /\ todo.input \in Storages /\ todo.output \in Storages
        BY <1>2, <2>0
      <4>1. apps[todo.app] \in ApplicationDoc
        BY <1>0, <1>2, <2>0, <3>2 DEF AppsType
      <4>2. /\ d \in ApplicationDoc /\ d.type = apps[todo.app].type /\ d.key = apps[todo.app].key
            /\ d.input = todo.input /\ d.output = todo.output
        BY <4>0, <4>1, DocWithStorages
      <4>3. apps' = [apps EXCEPT ![todo.app] = d]
        BY <1>0, <1>2, <2>0, <3>2, <4>1 DEF AppsType, ApplicationDoc, WithStorages
      <4>4. d.type = "RIGHTSIZER_LICENSES" => d.key \in Keys
        BY <1>0, <1>2, <2>0, <3>2, <4>2 DEF AppsType
      <4> HIDE DEF d
      <4>5. {d.input, d.output} \subseteq Storages
        BY <4>0, <4>2
      <4> QED  BY <1>0, <4>0, <4>2, <4>3, <4>4, <4>5, AppSaved
    <3> QED  BY <1>4, <3>1, <3>2 DEF UpdateApplication
  <2>2. CatalogMove(r)
    BY <1>0, <1>2, <1>4, <2>0, FinishesCatalog DEF UpdateApplication
  <2> QED  BY <1>0, <1>4, <2>1, <2>2 DEF UpdateApplication, ParentsType, HistoryType, MadeType
<1> QED  BY <1>1, <1>3, <1>4

LEMMA DeleteSteps ==
  ASSUME TypeInv, NEW r \in Requests,
         \/ \E a \in AppIds, force \in BOOLEAN : DeleteApplication(r, a, force)
         \/ \E a \in AppIds, force \in BOOLEAN : DeleteLicensesApplication(r, a, force)
         \/ \E a \in AppIds, force \in BOOLEAN : DeleteDojoApplication(r, a, force)
         \/ MarkParent(r) \/ AfterMarking(r) \/ MarkApplication(r)
         \/ ForceDeleteParent(r) \/ _delete_application_secret(r) \/ force_delete(r)
  PROVE  /\ UNCHANGED <<reference, ids>> /\ AppsType' /\ ParentsType' /\ HistoryType' /\ MadeType'
         /\ CatalogMove(r)
<1> DEFINE todo == request[r]
<1>0. /\ TodoOK(todo) /\ CatalogTodo(todo) /\ RequestType /\ AppsType /\ ParentsType /\ HistoryType
      /\ MadeType
  BY DEF TypeInv, RequestType, TodoOK
<1>1. ASSUME NEW a \in AppIds
      PROVE  LET on == OnApp(a) \cup UNION {OnParent(p) : p \in active_parents(a)} IN
             /\ on \subseteq Things /\ <<"app", a>> \in on /\ \A p \in active_parents(a) : <<"parent", p>> \in on
             /\ active_parents(a) \subseteq ParentIds
  BY ThingsAre DEF OnApp, OnParent, active_parents
<1>2. ASSUME NEW a \in AppIds, NEW force \in BOOLEAN, StartDelete(r, a, force)
      PROVE  /\ UNCHANGED <<reference, ids>> /\ AppsType' /\ ParentsType' /\ HistoryType' /\ MadeType'
             /\ CatalogMove(r)
  <2> DEFINE on == OnApp(a) \cup UNION {OnParent(p) : p \in active_parents(a)}
             x == [op |-> IF force THEN "delete parents" ELSE "mark application", app |-> a, on |-> on,
                   parents |-> active_parents(a)]
  <2>1. Begin(r, "host", x) /\ UNCHANGED <<reference, ids, catalog>>
    BY <1>2 DEF StartDelete
  <2>2. /\ on \subseteq Things /\ <<"app", a>> \in on /\ \A p \in active_parents(a) : <<"parent", p>> \in on
        /\ active_parents(a) \subseteq ParentIds
    BY <1>1
  <2> HIDE DEF on
  <2>3. x \in DeleteTodo /\ <<"app", x.app>> \in x.on /\ \A p \in x.parents : <<"parent", p>> \in x.on
    BY <2>2 DEF DeleteTodo, DeleteOps
  <2> HIDE DEF x
  <2>4. CatalogMove(r)
    BY <1>0, <2>1, <2>3, DeleteTodoOK, BeginsCatalog
  <2> QED  BY <2>1, <2>4, CatalogStays
<1>3. ASSUME NEW a \in AppIds, NEW force \in BOOLEAN, DeleteDojoApplication(r, a, force)
      PROVE  /\ UNCHANGED <<reference, ids>> /\ AppsType' /\ ParentsType' /\ HistoryType' /\ MadeType'
             /\ CatalogMove(r)
  <2> DEFINE on == OnApp(a) \cup UNION {OnParent(p) : p \in active_parents(a)}
             x == [op |-> "mark parents", app |-> a, force |-> force, on |-> on, parents |-> active_parents(a)]
  <2>1. Begin(r, "host", x) /\ UNCHANGED <<reference, ids, catalog>>
    BY <1>3 DEF DeleteDojoApplication
  <2>2. /\ on \subseteq Things /\ <<"app", a>> \in on /\ \A p \in active_parents(a) : <<"parent", p>> \in on
        /\ active_parents(a) \subseteq ParentIds
    BY <1>1
  <2> HIDE DEF on
  <2>3. x \in MarkTodo /\ <<"app", x.app>> \in x.on /\ \A p \in x.parents : <<"parent", p>> \in x.on
    BY <2>2 DEF MarkTodo
  <2> HIDE DEF x
  <2>4. CatalogMove(r)
    BY <1>0, <2>1, <2>3, MarkTodoOK, BeginsCatalog
  <2> QED  BY <2>1, <2>4, CatalogStays
<1>4. CASE MarkParent(r)
  <2>0. todo.op = "mark parents" /\ todo.op \in CatalogOps
    BY <1>4 DEF MarkParent, CatalogOps, AppOps
  <2>1. todo \in MarkTodo /\ <<"app", todo.app>> \in todo.on /\ \A p \in todo.parents : <<"parent", p>> \in todo.on
    BY <1>0, <2>0 DEF CatalogTodo, AppOps
  <2>2. PICK p \in todo.parents :
          /\ parents' = IF parents[p] = None THEN parents ELSE [parents EXCEPT ![p].deleted = TRUE]
          /\ Continue(r, [todo EXCEPT !.parents = @ \ {p}])
    BY <1>4 DEF MarkParent
  <2> DEFINE x == [todo EXCEPT !.parents = @ \ {p}]
  <2>3. x \in MarkTodo /\ x.on = todo.on /\ x.app = todo.app /\ x.parents \subseteq todo.parents
    BY <2>1 DEF MarkTodo
  <2>4. ParentsType'
    <3>1. p \in ParentIds
      BY <2>1 DEF MarkTodo
    <3> QED  BY <1>0, <2>2, <3>1 DEF ParentsType, ParentDoc
  <2>5. Continue(r, x)
    BY <2>2
  <2> HIDE DEF x
  <2>6. CatalogMove(r)
    BY <1>0, <2>0, <2>1, <2>3, <2>5, MarkTodoOK, ContinuesCatalog
  <2> QED  BY <1>0, <1>4, <2>4, <2>6, AppsStay DEF MarkParent, HistoryType, MadeType
<1>5. CASE AfterMarking(r)
  <2>0. todo.op = "mark parents" /\ todo.op \in CatalogOps
    BY <1>5 DEF AfterMarking, CatalogOps, AppOps
  <2>1. todo \in MarkTodo /\ <<"app", todo.app>> \in todo.on
    BY <1>0, <2>0 DEF CatalogTodo, AppOps
  <2> DEFINE x == [op |-> IF todo.force THEN "delete parents" ELSE "mark application",
                   app |-> todo.app, on |-> todo.on, parents |-> {}]
  <2>2. x \in DeleteTodo /\ x.on = todo.on /\ x.app = todo.app /\ x.parents = {}
    BY <2>1 DEF MarkTodo, DeleteTodo, DeleteOps
  <2>3. Continue(r, x) /\ UNCHANGED <<reference, ids, catalog>>
    BY <1>5 DEF AfterMarking
  <2> HIDE DEF x
  <2>4. CatalogMove(r)
    BY <1>0, <2>0, <2>1, <2>2, <2>3, DeleteTodoOK, ContinuesCatalog
  <2> QED  BY <2>3, <2>4, CatalogStays
<1>6. ASSUME todo.op \in DeleteOps
      PROVE  /\ todo \in DeleteTodo /\ <<"app", todo.app>> \in todo.on /\ todo.op \in CatalogOps
             /\ todo.app \in AppIds
             /\ todo.op = "delete parents" => \A p \in todo.parents : <<"parent", p>> \in todo.on
  BY <1>0, <1>6 DEF CatalogTodo, DeleteTodo, CatalogOps, AppOps
<1>7. CASE MarkApplication(r)
  <2>0. todo.op = "mark application" /\ todo.op \in DeleteOps
    BY <1>7 DEF MarkApplication, DeleteOps
  <2>1. AppsType'
    <3> DEFINE a == todo.app
    <3>1. a \in AppIds /\ apps' = IF apps[a] = None THEN apps ELSE [apps EXCEPT ![a].deleted = TRUE]
      BY <1>6, <1>7, <2>0 DEF MarkApplication
    <3>2. AppsType
      BY <1>0
    <3> HIDE DEF a
    <3>3. CASE apps[a] = None
      BY <3>1, <3>2, <3>3 DEF AppsType
    <3>4. CASE apps[a] # None
      <4>1. apps' = [apps EXCEPT ![a].deleted = TRUE]
        BY <3>1, <3>4
      <4> QED  BY <3>1, <3>2, <3>4, <4>1 DEF AppsType, ApplicationDoc
    <3> QED  BY <3>3, <3>4
  <2>2. CatalogMove(r)
    BY <1>0, <1>6, <1>7, <2>0, FinishesCatalog DEF MarkApplication
  <2> QED  BY <1>0, <1>7, <2>1, <2>2 DEF MarkApplication, ParentsType, HistoryType, MadeType
<1>8. CASE ForceDeleteParent(r)
  <2>0. todo.op = "delete parents" /\ todo.op \in DeleteOps
    BY <1>8 DEF ForceDeleteParent, DeleteOps
  <2>2. PICK p \in todo.parents :
          /\ parents' = [parents EXCEPT ![p] = None]
          /\ Continue(r, [todo EXCEPT !.parents = @ \ {p}])
    BY <1>8 DEF ForceDeleteParent
  <2> DEFINE x == [todo EXCEPT !.parents = @ \ {p}]
  <2>3. x \in DeleteTodo /\ x.on = todo.on /\ x.app = todo.app /\ x.parents \subseteq todo.parents
    BY <1>6, <2>0 DEF DeleteTodo
  <2>4. ParentsType'
    BY <1>0, <2>2 DEF ParentsType
  <2>5. Continue(r, x)
    BY <2>2
  <2> HIDE DEF x
  <2>6. CatalogMove(r)
    BY <1>0, <1>6, <2>0, <2>3, <2>5, DeleteTodoOK, ContinuesCatalog
  <2> QED  BY <1>0, <1>8, <2>4, <2>6, AppsStay DEF ForceDeleteParent, HistoryType, MadeType
<1>9. CASE _delete_application_secret(r)
  <2>0. todo.op = "delete parents" /\ todo.op \in DeleteOps /\ todo.parents = {}
    BY <1>9 DEF _delete_application_secret, DeleteOps
  <2> DEFINE x == [todo EXCEPT !.op = "delete application"]
  <2>1. x \in DeleteTodo /\ x.on = todo.on /\ x.app = todo.app /\ x.parents = {}
    BY <1>6, <2>0 DEF DeleteTodo, DeleteOps
  <2>2. Continue(r, x) /\ UNCHANGED <<reference, ids, apps, parents, made, kept, dropped>>
    BY <1>9 DEF _delete_application_secret
  <2> HIDE DEF x
  <2>3. CatalogMove(r)
    BY <1>0, <1>6, <2>0, <2>1, <2>2, DeleteTodoOK, ContinuesCatalog
  <2>4. secrets' \subseteq AppIds
    BY <1>0, <1>9 DEF _delete_application_secret, HistoryType
  <2> QED  BY <1>0, <2>2, <2>3, <2>4, AppsStay DEF ParentsType, HistoryType, MadeType
<1>10. CASE force_delete(r)
  <2>0. todo.op = "delete application" /\ todo.op \in DeleteOps
    BY <1>10 DEF force_delete, DeleteOps
  <2>1. AppsType'
    BY <1>0, <1>10 DEF force_delete, AppsType
  <2>2. CatalogMove(r)
    BY <1>0, <1>6, <1>10, <2>0, FinishesCatalog DEF force_delete
  <2> QED  BY <1>0, <1>10, <2>1, <2>2 DEF force_delete, ParentsType, HistoryType, MadeType
<1> QED  BY <1>2, <1>3, <1>4, <1>5, <1>7, <1>8, <1>9, <1>10 DEF DeleteApplication, DeleteLicensesApplication

LEMMA ParentSteps ==
  ASSUME TypeInv, NEW r \in Requests,
         (\E a \in AppIds : PostParent(r, a)) \/ (\E a \in AppIds : PostDojoParent(r, a)) \/ SaveParent(r)
  PROVE  /\ UNCHANGED <<reference, ids>> /\ AppsType' /\ ParentsType' /\ HistoryType' /\ MadeType'
         /\ CatalogMove(r)
<1> DEFINE todo == request[r]
<1>0. /\ TodoOK(todo) /\ CatalogTodo(todo) /\ RequestType /\ AppsType /\ ParentsType /\ HistoryType
      /\ MadeType
  BY DEF TypeInv, RequestType, TodoOK
<1>1. ASSUME NEW a \in AppIds, PostParent(r, a) \/ PostDojoParent(r, a)
      PROVE  /\ UNCHANGED <<reference, ids>> /\ AppsType' /\ ParentsType' /\ HistoryType' /\ MadeType'
             /\ CatalogMove(r)
  <2>1. PICK t \in {"RIGHTSIZER_LICENSES", "DEFECT_DOJO"} :
          /\ Begin(r, "edit", [op |-> "save parent", on |-> OnApp(a), document |-> Parent(a, t)])
          /\ UNCHANGED <<reference, ids, catalog>>
    BY <1>1 DEF PostParent, PostDojoParent
  <2> DEFINE d == Parent(a, t)
             x == [op |-> "save parent", on |-> OnApp(a), document |-> d]
  <2>2. d \in ParentDoc /\ d.meta = {} /\ d.type # "RIGHTSIZER_PARENT"
    BY DEF Parent, ParentDoc, ParentType
  <2>3. OnApp(a) \subseteq Things
    BY ThingsAre DEF OnApp
  <2>4. Begin(r, "edit", x)
    BY <2>1
  <2> HIDE DEF d
  <2>5. x \in ParentTodo /\ x.document = d
    BY <2>2, <2>3 DEF ParentTodo
  <2> HIDE DEF x
  <2>6. CatalogMove(r)
    BY <1>0, <2>2, <2>4, <2>5, ParentTodoOK, BeginsCatalog
  <2> QED  BY <2>1, <2>6, CatalogStays
<1>2. CASE SaveParent(r)
  <2>0. todo.op = "save parent" /\ todo.op \in CatalogOps
    BY <1>2 DEF SaveParent, CatalogOps
  <2>1. NewParent \in ParentIds /\ MadeType'
    BY <1>0, <1>2, NewParentId DEF SaveParent
  <2>2. todo.document \in ParentDoc
    BY <1>0, <2>0 DEF CatalogTodo, ParentTodo
  <2>3. ParentsType'
    BY <1>0, <1>2, <2>1, <2>2 DEF SaveParent, ParentsType
  <2>4. CatalogMove(r)
    BY <1>0, <1>2, <2>0, FinishesCatalog DEF SaveParent
  <2> QED  BY <1>0, <1>2, <2>1, <2>3, <2>4, AppsStay DEF SaveParent, HistoryType
<1> QED  BY <1>1, <1>2

\* The handlers of rules and groups begin by reading the parent.
EditStep(r) ==
  \/ \E p \in ParentIds : PostGroup(r, p)
  \/ \E p \in ParentIds : \E g \in kept[p] : PatchGroup(r, p, g)
  \/ \E p \in ParentIds : \E g \in kept[p] : DeleteGroup(r, p, g)
  \/ \E p \in ParentIds : PostRule(r, p)
  \/ \E p \in ParentIds : \E rule \in kept[p] : PatchRule(r, p, rule)
  \/ \E p \in ParentIds : \E rule \in kept[p] : DeleteRule(r, p, rule)

Edits == [remove : SUBSET Item, add : SUBSET Item]

LEMMA ItemRevised ==
  ASSUME NEW item \in Item
  PROVE  [item EXCEPT !.rev = @ + 1] \in Item
  BY DEF Item

LEMMA ItemMade ==
  ASSUME MadeType, NEW kind \in {"rule", "group"}
  PROVE  NewItem(kind) \in Item
<1>1. made.settings \in Nat
  BY DEF MadeType
<1> QED  BY <1>1 DEF NewItem, Item

LEMMA MadeSettings ==
  ASSUME MadeType, made' = [made EXCEPT !.settings = @ + 1] \/ made' = made
  PROVE  made'.apps = made.apps /\ made'.parents = made.parents /\ MadeType'
  BY DEF MadeType

LEMMA EditStepReads ==
  ASSUME TypeInv, NEW r \in Requests, EditStep(r)
  PROVE  \E p \in ParentIds, write \in EditOps, do \in Edits :
           of_licensed(p) /\ Edit(r, p, write, do) /\ made'.apps = made.apps /\ made'.parents = made.parents /\ MadeType'
<1>0. HistoryType /\ MadeType /\ "save group" \in EditOps /\ "update rules" \in EditOps
  BY DEF TypeInv, EditOps
<1>1. \A p \in ParentIds : \A item \in kept[p] : item \in Item /\ [item EXCEPT !.rev = @ + 1] \in Item
  BY <1>0, ItemRevised DEF HistoryType
<1>2. /\ NewItem("group") \in Item /\ NewItem("rule") \in Item
      /\ (made' = [made EXCEPT !.settings = @ + 1] \/ made' = made) =>
           made'.apps = made.apps /\ made'.parents = made.parents /\ MadeType'
  BY <1>0, ItemMade, MadeSettings
<1>3. \A items, others \in SUBSET Item : [remove |-> items, add |-> others] \in Edits
  BY DEF Edits
<1>4. ASSUME NEW p \in ParentIds, PostGroup(r, p) \/ PostRule(r, p)
      PROVE  \E write \in EditOps, do \in Edits :
               /\ of_licensed(p) /\ Edit(r, p, write, do)
               /\ made'.apps = made.apps /\ made'.parents = made.parents /\ MadeType'
  <2> DEFINE do(item) == [remove |-> {}, add |-> {item}]
  <2>1. do(NewItem("group")) \in Edits /\ do(NewItem("rule")) \in Edits
    BY <1>2, <1>3
  <2>2. /\ of_licensed(p) /\ made'.apps = made.apps /\ made'.parents = made.parents /\ MadeType'
        /\ \/ Edit(r, p, "save group", do(NewItem("group")))
           \/ Edit(r, p, "update rules", do(NewItem("rule")))
    BY <1>2, <1>4 DEF PostGroup, PostRule, get_parent
  <2> HIDE DEF do
  <2> QED  BY <1>0, <2>1, <2>2
<1>5. ASSUME NEW p \in ParentIds, NEW item \in kept[p],
             PatchGroup(r, p, item) \/ DeleteGroup(r, p, item) \/ PatchRule(r, p, item) \/ DeleteRule(r, p, item)
      PROVE  \E write \in EditOps, do \in Edits :
               /\ of_licensed(p) /\ Edit(r, p, write, do)
               /\ made'.apps = made.apps /\ made'.parents = made.parents /\ MadeType'
  <2>1. {item} \in SUBSET Item /\ {[item EXCEPT !.rev = @ + 1]} \in SUBSET Item /\ {} \in SUBSET Item
    BY <1>1
  <2> DEFINE do == [remove |-> {item}, add |-> {[item EXCEPT !.rev = @ + 1]}]
             undo == [remove |-> {item}, add |-> {}]
  <2>2. do \in Edits /\ undo \in Edits
    BY <1>3, <2>1
  <2>3. /\ of_licensed(p) /\ made'.apps = made.apps /\ made'.parents = made.parents /\ MadeType'
        /\ \E write \in EditOps : Edit(r, p, write, do) \/ Edit(r, p, write, undo)
    BY <1>0, <1>2, <1>5 DEF PatchGroup, DeleteGroup, PatchRule, DeleteRule, get_parent
  <2> HIDE DEF do, undo
  <2> QED  BY <2>2, <2>3
<1> QED  BY <1>4, <1>5 DEF EditStep

LEMMA EditSteps ==
  ASSUME TypeInv, NEW r \in Requests, EditStep(r) \/ SaveGroup(r) \/ UpdateRules(r)
  PROVE  /\ UNCHANGED <<reference, ids>> /\ AppsType' /\ ParentsType' /\ HistoryType' /\ MadeType'
         /\ CatalogMove(r)
<1> DEFINE todo == request[r]
<1>0. /\ TodoOK(todo) /\ CatalogTodo(todo) /\ RequestType /\ AppsType /\ ParentsType /\ HistoryType
      /\ MadeType
  BY DEF TypeInv, RequestType, TodoOK
<1>1. CASE EditStep(r)
  <2>1. PICK p \in ParentIds, write \in EditOps, do \in Edits :
          of_licensed(p) /\ Edit(r, p, write, do) /\ MadeType'
    BY <1>1, EditStepReads
  <2> DEFINE x == [op |-> write, on |-> OnParent(p), parent |-> p, do |-> do, document |-> parents[p]]
  <2>2. parents[p] \in ParentDoc
    BY <1>0, <2>1 DEF ParentsType, of_licensed
  <2>3. OnParent(p) \subseteq Things /\ <<"parent", p>> \in OnParent(p)
    BY ThingsAre DEF OnParent
  <2>4. x \in EditTodo /\ <<"parent", x.parent>> \in x.on
    BY <2>2, <2>3 DEF EditTodo, Edits
  <2>5. Begin(r, "edit", x) /\ UNCHANGED <<reference, ids, apps, parents, secrets, kept, dropped>>
    BY <2>1 DEF Edit
  <2> HIDE DEF x
  <2>6. CatalogMove(r)
    BY <1>0, <2>4, <2>5, EditTodoOK, BeginsCatalog
  <2> QED  BY <1>0, <2>1, <2>5, <2>6, AppsStay DEF ParentsType, HistoryType
<1>2. ASSUME todo.op \in EditOps
      PROVE  /\ todo.op \in CatalogOps /\ todo.parent \in ParentIds /\ todo.document \in ParentDoc
             /\ \A meta \in SUBSET Item : Applied(meta, todo.do) \in SUBSET Item
  <2>1. todo \in EditTodo /\ todo.op \in CatalogOps
    BY <1>0, <1>2 DEF CatalogTodo, CatalogOps
  <2>2. todo.do.add \in SUBSET Item
    BY <2>1 DEF EditTodo
  <2> QED  BY <2>1, <2>2 DEF EditTodo, Applied
<1>3. CASE SaveGroup(r)
  <2>0. todo.op = "save group" /\ todo.op \in EditOps
    BY <1>3 DEF SaveGroup, EditOps
  <2>1. [todo.document EXCEPT !.meta = Applied(@, todo.do)] \in ParentDoc
    BY <1>2, <2>0 DEF ParentDoc
  <2>2. ParentsType'
    BY <1>0, <1>2, <1>3, <2>0, <2>1 DEF SaveGroup, ParentsType
  <2>3. HistoryType'
    BY <1>0, <1>2, <1>3, <2>0 DEF SaveGroup, HistoryType
  <2>4. CatalogMove(r)
    BY <1>0, <1>2, <1>3, <2>0, FinishesCatalog DEF SaveGroup
  <2> QED  BY <1>0, <1>3, <2>2, <2>3, <2>4, AppsStay DEF SaveGroup, MadeType
<1>4. CASE UpdateRules(r)
  <2>0. todo.op = "update rules" /\ todo.op \in EditOps
    BY <1>4 DEF UpdateRules, EditOps
  <2>1. merged(todo.document.meta, todo.do) \in SUBSET Item
    BY <1>2, <2>0 DEF merged, ParentDoc
  <2>2. ParentsType'
    BY <1>0, <1>2, <1>4, <2>0, <2>1 DEF UpdateRules, ParentsType, ParentDoc
  <2>3. HistoryType'
    BY <1>0, <1>2, <1>4, <2>0 DEF UpdateRules, HistoryType
  <2>4. CatalogMove(r)
    BY <1>0, <1>2, <1>4, <2>0, FinishesCatalog DEF UpdateRules
  <2> QED  BY <1>0, <1>4, <2>2, <2>3, <2>4, AppsStay DEF UpdateRules, MadeType
<1> QED  BY <1>1, <1>3, <1>4

LEMMA AlgorithmIssued ==
  ASSUME ids \in Nat, NEW c \in Customers
  PROVE  [id |-> ids + 1, customer |-> c, licensed |-> TRUE, settings |-> "issued"] \in AlgorithmDoc
  BY DEF AlgorithmDoc

LEMMA LicenseSteps ==
  ASSUME TypeInv, NEW r \in Requests, LicenseStep(r)
  PROVE  /\ UNCHANGED <<storages, shapes, prices, priced>> /\ ReferenceType'
         /\ UNCHANGED <<reference, ids>> \/ SaveSyncedAlgorithm(r)
         /\ AppsType' /\ ParentsType' /\ HistoryType' /\ MadeType' /\ CatalogMove(r)
<1> DEFINE todo == request[r]
<1>0. /\ TodoOK(todo) /\ CatalogTodo(todo) /\ RequestType /\ AppsType /\ ParentsType /\ HistoryType
      /\ MadeType /\ ReferenceType
  BY DEF TypeInv, RequestType, TodoOK
<1>1. ASSUME NEW c \in Customers, NEW k \in Keys, PostLicense(r, c, k)
      PROVE  /\ UNCHANGED <<reference, ids>> /\ AppsType' /\ ParentsType' /\ HistoryType' /\ MadeType'
             /\ CatalogMove(r)
  <2> DEFINE d == [Application(c, "RIGHTSIZER_LICENSES") EXCEPT !.key = k]
             on == OnApp(NewApp) \cup {<<"license", c, k>>}
             x == [op |-> "save application", on |-> on, app |-> NewApp, document |-> d]
  <2>1. NewApp \in AppIds /\ <<"app", NewApp>> \in Things /\ MadeType'
    BY <1>0, <1>1, NewAppId DEF PostLicense
  <2>2. /\ d \in ApplicationDoc /\ d.type = "RIGHTSIZER_LICENSES" /\ d.algorithms = {} /\ d.key = k
    <3>1. LET e == Application(c, "RIGHTSIZER_LICENSES") IN
            e \in ApplicationDoc /\ e.type = "RIGHTSIZER_LICENSES" /\ e.algorithms = {}
      BY ApplicationIsDoc DEF ApplicationType
    <3> QED  BY <3>1 DEF ApplicationDoc
  <2>3. Begin(r, "license", x) /\ UNCHANGED <<reference, ids, apps, parents, secrets, kept, dropped>>
    BY <1>1 DEF PostLicense
  <2> HIDE DEF d
  <2>4. CreatedDoc(d)
    BY <2>2 DEF CreatedDoc
  <2>5. on \subseteq Things /\ <<"app", NewApp>> \in on
    BY <2>1, ThingsAre DEF OnApp
  <2> HIDE DEF on
  <2>6. x \in HostTodo /\ <<"app", x.app>> \in x.on /\ x.op = "save application" /\ x.document = d
    BY <2>1, <2>2, <2>5 DEF HostTodo, HostOps
  <2> HIDE DEF x
  <2>7. CatalogMove(r)
    BY <1>0, <2>2, <2>3, <2>4, <2>6, HostTodoOK, BeginsCatalog
  <2> QED  BY <1>0, <2>1, <2>3, <2>7, AppsStay DEF ParentsType, HistoryType
<1>2. ASSUME NEW a \in AppIds, SyncLicense(r, a)
      PROVE  UNCHANGED <<reference, ids, catalog>> /\ CatalogMove(r)
  <2> DEFINE d == apps[a]
             x == [op |-> "ask LM", on |-> OnApp(a), app |-> a, document |-> d]
  <2>1. d \in ApplicationDoc /\ LicensedDoc(d)
    BY <1>0, <1>2 DEF SyncLicense, AppsType, LicensedDoc
  <2>2. OnApp(a) \subseteq Things /\ <<"app", a>> \in OnApp(a)
    BY ThingsAre DEF OnApp
  <2>3. Begin(r, "license", x) /\ UNCHANGED <<reference, ids, catalog>>
    BY <1>2 DEF SyncLicense
  <2> HIDE DEF d
  <2>4. x \in AskTodo /\ <<"app", x.app>> \in x.on /\ LicensedDoc(x.document)
    BY <2>1, <2>2 DEF AskTodo
  <2> HIDE DEF x
  <2> QED  BY <1>0, <2>3, <2>4, AskTodoOK, BeginsCatalog
<1>3. CASE synchronize_license(r)
  <2>0. todo.op = "ask LM" /\ todo.op \in CatalogOps
    BY <1>3 DEF synchronize_license, CatalogOps, AppOps, LicenseOps
  <2>1. todo \in AskTodo /\ <<"app", todo.app>> \in todo.on /\ LicensedDoc(todo.document)
    BY <1>0, <2>0 DEF CatalogTodo, AppOps, LicenseOps
  <2> DEFINE l == Listed[todo.document.key]
             x == [op |-> "update license", on |-> todo.on, app |-> todo.app, document |-> todo.document,
                   listed |-> l]
  <2>2. l \in SUBSET Algorithms
    BY <2>1, ListedAssumption DEF LicensedDoc
  <2>3. Continue(r, x) /\ UNCHANGED <<reference, ids, catalog>>
    BY <1>3 DEF synchronize_license
  <2> HIDE DEF l
  <2>4. x \in UpdateTodo /\ <<"app", x.app>> \in x.on /\ LicensedDoc(x.document)
    BY <2>1, <2>2 DEF AskTodo, UpdateTodo
  <2> HIDE DEF x
  <2>5. CatalogMove(r)
    BY <1>0, <2>0, <2>3, <2>4, UpdateTodoOK, ContinuesCatalog
  <2> QED  BY <2>3, <2>5, CatalogStays, ReferenceStays, <1>0 DEF reference
<1>4. ASSUME RefusedByLM(r) \/ FinishLicenseSync(r)
      PROVE  UNCHANGED <<reference, ids, catalog>> /\ CatalogMove(r)
  <2>1. todo.op \in CatalogOps /\ Finish(r) /\ UNCHANGED <<reference, ids, catalog>>
    BY <1>4 DEF RefusedByLM, FinishLicenseSync, CatalogOps, AppOps, LicenseOps
  <2> QED  BY <1>0, <2>1, FinishesCatalog
<1>5. CASE update_license(r)
  <2>0. todo.op = "update license" /\ todo.op \in CatalogOps
    BY <1>5 DEF update_license, CatalogOps, AppOps, LicenseOps
  <2>1. todo \in UpdateTodo /\ <<"app", todo.app>> \in todo.on /\ LicensedDoc(todo.document)
    BY <1>0, <2>0 DEF CatalogTodo, AppOps, LicenseOps
  <2> DEFINE d == [todo.document EXCEPT !.algorithms = todo.listed]
             x == [op |-> "sync algorithms", on |-> todo.on, app |-> todo.app, listed |-> todo.listed,
                   customer |-> todo.document.customer, name |-> None, id |-> None]
  <2>2. d \in ApplicationDoc /\ d.type = "RIGHTSIZER_LICENSES" /\ d.key \in Keys
    BY <2>1 DEF LicensedDoc, UpdateTodo, ApplicationDoc
  <2>3. /\ apps' = [apps EXCEPT ![todo.app] = d] /\ Continue(r, x)
        /\ UNCHANGED <<reference, ids, parents, secrets, made, kept, dropped>>
    BY <1>5 DEF update_license
  <2>4. todo.document.customer \in Customers
    BY <2>1 DEF LicensedDoc, ApplicationDoc
  <2> HIDE DEF d
  <2>5. x \in SyncedTodo /\ <<"app", x.app>> \in x.on /\ x.op = "sync algorithms"
    BY <2>1, <2>4 DEF UpdateTodo, SyncedTodo
  <2> HIDE DEF x
  <2>6. AppsType'
    BY <1>0, <2>1, <2>2, <2>3, AppSaved DEF UpdateTodo
  <2>7. CatalogMove(r)
    BY <1>0, <2>0, <2>3, <2>5, SyncedTodoOK, ContinuesCatalog
  <2> QED  BY <1>0, <2>3, <2>6, <2>7, ReferenceStays DEF ParentsType, HistoryType, MadeType, reference
<1>6. ASSUME todo.op \in {"sync algorithms", "save algorithm"}
      PROVE  /\ todo \in SyncedTodo /\ <<"app", todo.app>> \in todo.on /\ todo.op \in CatalogOps
             /\ todo.op = "save algorithm" => todo.name \in Algorithms
  BY <1>0, <1>6 DEF CatalogTodo, CatalogOps, AppOps, LicenseOps
<1>7. CASE FindAlgorithm(r)
  <2>0. todo.op = "sync algorithms"
    BY <1>7 DEF FindAlgorithm
  <2>1. PICK n \in todo.listed :
          Continue(r, [todo EXCEPT !.op = "save algorithm", !.listed = @ \ {n}, !.name = n,
                                   !.id = IF algorithms[n] = None THEN None ELSE algorithms[n].id])
    BY <1>7 DEF FindAlgorithm
  <2> DEFINE i == IF algorithms[n] = None THEN None ELSE algorithms[n].id
             x == [todo EXCEPT !.op = "save algorithm", !.listed = @ \ {n}, !.name = n, !.id = i]
  <2>2. n \in Algorithms
    BY <1>6, <2>0 DEF SyncedTodo
  <2>3. i \in Nat \cup {None}
    BY <1>0, <2>2 DEF ReferenceType, ReferenceOK, AlgorithmDoc
  <2>4. Continue(r, x)
    BY <2>1
  <2> HIDE DEF i
  <2>5. x \in SyncedTodo /\ x.on = todo.on /\ x.app = todo.app /\ x.name = n
    BY <1>6, <2>0, <2>2, <2>3 DEF SyncedTodo
  <2> HIDE DEF x
  <2>6. CatalogMove(r)
    BY <1>0, <1>6, <2>0, <2>2, <2>4, <2>5, SyncedTodoOK, ContinuesCatalog
  <2>7. UNCHANGED <<reference, ids, catalog>>
    BY <1>7 DEF FindAlgorithm
  <2> QED  BY <1>0, <2>6, <2>7, CatalogStays, ReferenceStays DEF reference
<1>8. CASE SaveSyncedAlgorithm(r)
  <2> DEFINE n == todo.name
             d == [id |-> ids + 1, customer |-> todo.customer, licensed |-> TRUE, settings |-> "issued"]
             x == [todo EXCEPT !.op = "sync algorithms", !.name = None, !.id = None]
  <2>0. todo.op = "save algorithm" /\ n \in Algorithms /\ todo.customer \in Customers
    BY <1>6, <1>8 DEF SaveSyncedAlgorithm, SyncedTodo
  <2>1. x \in SyncedTodo /\ x.op = "sync algorithms" /\ x.on = todo.on /\ x.app = todo.app
    BY <1>6, <2>0 DEF SyncedTodo
  <2>2. Continue(r, x) \/ (died' = died \cup todo.on /\ request' = [request EXCEPT ![r] = Idle] /\ UNCHANGED mixed)
    BY <1>8 DEF SaveSyncedAlgorithm
  <2> HIDE DEF x
  <2>3. CatalogMove(r)
    <3>1. CASE Continue(r, x)
      BY <1>0, <1>6, <2>0, <2>1, <3>1, SyncedTodoOK, ContinuesCatalog
    <3>2. CASE died' = died \cup todo.on /\ request' = [request EXCEPT ![r] = Idle] /\ UNCHANGED mixed
      <4>1. request'[r] = Idle /\ Idle.on = {}
        BY <1>0, <3>2 DEF RequestType, Idle
      <4>2. Moves(r)
        BY <3>2, <4>1 DEF Moves
      <4>3. TodoOK(request'[r]) /\ request'[r].op = "none"
        BY <4>1, IdleOK DEF Idle
      <4> QED  BY <1>6, <2>0, <3>2, <4>1, <4>2, <4>3 DEF CatalogMove
    <3> QED  BY <2>2, <3>1, <3>2
  <2>4. d \in AlgorithmDoc
    <3>1. ids \in Nat
      BY <1>0 DEF ReferenceType
    <3> QED  BY <2>0, <3>1, AlgorithmIssued
  <2>5. ids' \in Nat
    <3>1. ids' = ids + 1 \/ ids' = ids
      BY <1>8 DEF SaveSyncedAlgorithm
    <3> QED  BY <1>0, <3>1 DEF ReferenceType
  <2>6. algorithms' \in [Algorithms -> AlgorithmDoc \cup {None}]
    <3>1. CASE todo.id = None
      <4>1. algorithms' = Created(algorithms, n, d)
        BY <1>8, <3>1, Zenon DEF SaveSyncedAlgorithm, created
      <4> HIDE DEF d
      <4> QED  BY <1>0, <2>0, <2>4, <4>1, CreatedType DEF ReferenceType, ReferenceOK
    <3>2. CASE todo.id # None
      <4>1. algorithms' = IF Same(algorithms, n, todo.id)
                          THEN [algorithms EXCEPT ![n].settings = "issued"] ELSE algorithms
        BY <1>8, <3>2 DEF SaveSyncedAlgorithm
      <4>2. algorithms \in [Algorithms -> AlgorithmDoc \cup {None}]
        BY <1>0 DEF ReferenceType, ReferenceOK
      <4> QED  BY <2>0, <4>1, <4>2 DEF Same, AlgorithmDoc
    <3> QED  BY <3>1, <3>2
  <2>7. ReferenceType'
    BY <1>0, <1>8, <2>5, <2>6 DEF SaveSyncedAlgorithm, ReferenceType, ReferenceOK
  <2>8. dropped' \subseteq Algorithms
    BY <1>0, <1>8 DEF SaveSyncedAlgorithm, HistoryType
  <2> QED  BY <1>0, <1>8, <2>3, <2>7, <2>8, AppsStay DEF SaveSyncedAlgorithm, ParentsType, HistoryType, MadeType
<1>9. UNCHANGED <<reference, ids>> => UNCHANGED <<storages, shapes, prices, priced>> /\ ReferenceType'
  BY <1>0, ReferenceStays DEF reference
<1> QED  BY <1>1, <1>2, <1>3, <1>4, <1>5, <1>7, <1>8, <1>9, CatalogStays DEF LicenseStep

-----------------------------------------------------------------------------
(* Every step: a request moves, or a deletion changes no request.          *)

LEMMA Deaths ==
  ASSUME TypeInv, NEW r \in Requests, Die(r)
  PROVE  /\ Moves(r) /\ request'[r] = Idle /\ TodoOK(request'[r]) /\ died' = died \cup request[r].on
         /\ UNCHANGED <<reference, ids>>
  BY IdleOK DEF TypeInv, RequestType, Die, Moves, Idle

\* Deletions are one action.
Deletes ==
  /\ request' = request /\ died' = died /\ mixed \subseteq mixed' /\ ids' = ids

LEMMA RemovedParents ==
  ASSUME TypeInv, NEW p \in ParentIds, NEW force \in BOOLEAN, DeleteParent(p, force) \/ DeleteDojoParent(p, force)
  PROVE  /\ Deletes /\ UNCHANGED <<reference, apps, secrets, made, kept, dropped>> /\ ParentsType'
         /\ parents[p] # None
         /\ \/ parents' = [parents EXCEPT ![p] = None]
            \/ parents' = [parents EXCEPT ![p].deleted = TRUE]
         /\ mixed' = mixed \cup (OnParent(p) \cap UNION {request[q].on : q \in Requests})
<1>1. RemoveParent(p, force) /\ parents[p] # None
  BY DEF DeleteParent, DeleteDojoParent, of_licensed, of_dojo
<1>2. parents' = [parents EXCEPT ![p] = None] \/ parents' = [parents EXCEPT ![p].deleted = TRUE]
  BY <1>1 DEF RemoveParent
<1>3. ParentsType'
  BY <1>1, <1>2 DEF TypeInv, ParentsType, ParentDoc
<1> QED  BY <1>1, <1>2, <1>3 DEF RemoveParent, DeleteNow, Deletes

LEMMA Deletions ==
  ASSUME TypeInv,
         \/ \E s \in Storages : DeleteStorage(s) /\ UNCHANGED catalog
         \/ \E k \in Owners \X Shapes : DeletePrice(k) /\ UNCHANGED catalog
         \/ \E n \in Algorithms : RemoveAlgorithm(n)
  PROVE  Deletes /\ ReferenceType' /\ UNCHANGED <<apps, parents, secrets, made, kept>> /\ dropped' \subseteq Algorithms
<1>0. ReferenceType /\ HistoryType
  BY DEF TypeInv
<1>1. ASSUME NEW s \in Storages, DeleteStorage(s) /\ UNCHANGED catalog
      PROVE  Deletes /\ ReferenceType' /\ UNCHANGED catalog
  BY <1>0, <1>1 DEF DeleteStorage, DeleteNow, Deletes, ReferenceType, ReferenceOK
<1>2. ASSUME NEW k \in Owners \X Shapes, DeletePrice(k) /\ UNCHANGED catalog
      PROVE  Deletes /\ ReferenceType' /\ UNCHANGED catalog
  BY <1>0, <1>2 DEF DeletePrice, DeleteNow, Deletes, ReferenceType, ReferenceOK
<1>3. ASSUME NEW n \in Algorithms, RemoveAlgorithm(n)
      PROVE  Deletes /\ ReferenceType' /\ UNCHANGED <<apps, parents, secrets, made, kept>> /\ dropped' \subseteq Algorithms
  BY <1>0, <1>3 DEF RemoveAlgorithm, DeleteAlgorithm, DeleteNow, Deletes, ReferenceType, ReferenceOK, HistoryType
<1> QED  BY <1>0, <1>1, <1>2, <1>3 DEF catalog, HistoryType

LEMMA CatalogSteps ==
  ASSUME TypeInv, NEW r \in Requests, ApplicationStep(r) \/ ParentStep(r) \/ LicenseStep(r)
  PROVE  /\ UNCHANGED <<storages, shapes, prices, priced>> /\ ReferenceType'
         /\ UNCHANGED <<reference, ids>> \/ SaveSyncedAlgorithm(r)
         /\ AppsType' /\ ParentsType' /\ HistoryType' /\ MadeType' /\ CatalogMove(r)
<1>0. ReferenceType
  BY DEF TypeInv
<1>1. CASE ApplicationStep(r)
  <2>1. /\ UNCHANGED <<reference, ids>> /\ AppsType' /\ ParentsType' /\ HistoryType' /\ MadeType' /\ CatalogMove(r)
    BY <1>1, HostSteps, PasswordSteps, DeleteSteps DEF ApplicationStep
  <2> QED  BY <1>0, <2>1, ReferenceStays DEF reference
<1>2. CASE ParentStep(r)
  <2>1. /\ UNCHANGED <<reference, ids>> /\ AppsType' /\ ParentsType' /\ HistoryType' /\ MadeType' /\ CatalogMove(r)
    BY <1>2, ParentSteps, EditSteps DEF ParentStep, EditStep
  <2> QED  BY <1>0, <2>1, ReferenceStays DEF reference
<1> QED  BY <1>1, <1>2, LicenseSteps

LEMMA InitType ==
  ASSUME Init
  PROVE  TypeInv
<1>1. ReferenceType
  BY DEF Init, ReferenceType, ReferenceOK, StorageDoc, StorageType, ShapeDoc, PriceDoc, AlgorithmDoc, Owners
<1>2. PICK c \in Customers, k \in Keys :
        apps = [a \in AppIds |-> IF a = 1 THEN [Application(c, "RIGHTSIZER_LICENSES") EXCEPT !.key = k] ELSE None]
  BY DEF Init
<1> DEFINE d == [Application(c, "RIGHTSIZER_LICENSES") EXCEPT !.key = k]
<1>3. d \in ApplicationDoc /\ d.type = "RIGHTSIZER_LICENSES" /\ d.key = k
  <2>1. LET e == Application(c, "RIGHTSIZER_LICENSES") IN e \in ApplicationDoc /\ e.type = "RIGHTSIZER_LICENSES"
    BY ApplicationIsDoc DEF ApplicationType
  <2> QED  BY <2>1 DEF ApplicationDoc
<1>4. AppsType
  <2>1. apps = [a \in AppIds |-> IF a = 1 THEN d ELSE None]
    BY <1>2
  <2> HIDE DEF d
  <2> QED  BY <1>3, <2>1 DEF AppsType
<1>5. 1 \in AppIds /\ 1 \in ParentIds
  BY BoundsAssumption DEF AppIds, ParentIds
<1>6. ParentsType
  <2>1. Parent(1, "RIGHTSIZER_LICENSES") \in ParentDoc
    BY <1>5 DEF Parent, ParentDoc, ParentType
  <2> QED  BY <2>1 DEF Init, ParentsType
<1>7. HistoryType /\ MadeType
  BY <1>5 DEF Init, HistoryType, MadeType
<1>8. RequestType
  BY IdleOK DEF Init, RequestType
<1> QED  BY <1>1, <1>4, <1>6, <1>7, <1>8 DEF TypeInv

LEMMA NextType ==
  ASSUME TypeInv, [Next]_vars
  PROVE  TypeInv'
<1>0. ReferenceType /\ AppsType /\ ParentsType /\ HistoryType /\ MadeType /\ RequestType
  BY DEF TypeInv
<1>1. ASSUME NEW r \in Requests, ReferenceStep(r)
      PROVE  TypeInv'
  <2>1. UNCHANGED catalog
    BY <1>1 DEF ReferenceStep
  <2>2. CASE Die(r)
    BY <1>0, <2>1, <2>2, Deaths, MovesType, ReferenceStays, CatalogStays DEF TypeInv, Moves
  <2>3. CASE ~Die(r)
    BY <1>0, <1>1, <2>1, <2>3, ReferenceSteps, MovesType, CatalogStays DEF TypeInv, Moves, ReferenceMove
  <2> QED  BY <2>2, <2>3
<1>2. ASSUME NEW r \in Requests, ApplicationStep(r) \/ ParentStep(r) \/ LicenseStep(r)
      PROVE  TypeInv'
  BY <1>0, <1>2, CatalogSteps, MovesType DEF TypeInv, CatalogMove, Moves
<1>3. ASSUME Deletes
      PROVE  RequestType'
  <2>1. DOMAIN request' = Requests /\ \A r \in Requests : TodoOK(request'[r])
    BY <1>0, <1>3 DEF Deletes, RequestType
  <2> QED  BY <2>1 DEF RequestType, TodoOK, ReferenceTodo, CatalogTodo, Public, CreatedDoc, LicensedDoc, Things
<1>4. ASSUME NEW p \in ParentIds, NEW force \in BOOLEAN, DeleteParent(p, force) \/ DeleteDojoParent(p, force)
      PROVE  TypeInv'
  <2>1. /\ Deletes /\ UNCHANGED <<reference, apps, secrets, made, kept, dropped>> /\ ParentsType'
    BY <1>4, RemovedParents
  <2>2. ReferenceType' /\ AppsType' /\ HistoryType' /\ MadeType'
    BY <1>0, <2>1, ReferenceStays, AppsStay DEF Deletes, HistoryType, MadeType
  <2> QED  BY <1>3, <2>1, <2>2 DEF TypeInv
<1>5. ASSUME \/ \E s \in Storages : DeleteStorage(s) /\ UNCHANGED catalog
             \/ \E k \in Owners \X Shapes : DeletePrice(k) /\ UNCHANGED catalog
             \/ \E n \in Algorithms : RemoveAlgorithm(n)
      PROVE  TypeInv'
  <2>1. Deletes /\ ReferenceType' /\ UNCHANGED <<apps, parents, secrets, made, kept>> /\ dropped' \subseteq Algorithms
    BY <1>5, Deletions
  <2>2. AppsType' /\ ParentsType' /\ HistoryType' /\ MadeType'
    BY <1>0, <2>1, AppsStay DEF ParentsType, HistoryType, MadeType
  <2> QED  BY <1>3, <2>1, <2>2 DEF TypeInv
<1>6. CASE UNCHANGED vars
  <2>1. Deletes /\ UNCHANGED <<reference, ids>> /\ UNCHANGED catalog
    BY <1>6 DEF vars, control, Deletes
  <2> QED  BY <1>0, <1>3, <2>1, ReferenceStays, CatalogStays DEF TypeInv
<1> QED  BY <1>1, <1>2, <1>4, <1>5, <1>6 DEF Next

-----------------------------------------------------------------------------
(* Prices                                                                  *)

\* A request is between the deletion of a price and its replacement.
Replacing(key) == \E r \in Requests : request[r].op = "save new price" /\ <<Default, request[r].shape>> = key

Covered(key) == prices[key] # None \/ <<"price", key>> \in died \/ Replacing(key)

LEMMA BeginsIdle ==
  ASSUME NEW r, NEW sort, NEW x, Begin(r, sort, x)
  PROVE  request[r].op = "none"
  BY DEF Begin, Idle

LEMMA OthersReplace ==
  ASSUME RequestType, NEW r \in Requests, Moves(r), request[r].op # "save new price", NEW key, Replacing(key)
  PROVE  Replacing(key)'
  BY DEF Replacing, RequestType, Moves

LEMMA PriceCases ==
  ASSUME NEW r \in Requests, ReferenceStep(r), ~Die(r)
  PROVE  \/ SavePrice(r) \/ SavePatchedPrice(r) \/ DeleteListedPrice(r)
         \/ SavePriceForce(r) \/ DeleteOldPrice(r) \/ SaveNewPrice(r)
         \/ UNCHANGED <<prices, priced>> /\ request[r].op # "save new price"
<1>1. ASSUME NEW s \in Storages, NEW t \in StorageType, PostStorage(r, s, t) \/ PatchStorage(r, s, t)
      PROVE  UNCHANGED <<prices, priced>> /\ request[r].op # "save new price"
  BY <1>1, BeginsIdle DEF PostStorage, PatchStorage, reference
<1>2. ASSUME SaveStorage(r) \/ SavePatchedStorage(r) \/ SaveShape(r) \/ SavePatchedShape(r) \/ DeleteShapeItself(r)
      PROVE  UNCHANGED <<prices, priced>> /\ request[r].op # "save new price"
  BY <1>2, BeginsIdle DEF SaveStorage, SavePatchedStorage, SaveShape, SavePatchedShape, DeleteShapeItself, reference
<1>3. ASSUME NEW s \in Shapes, NEW v \in Values, PostShape(r, s, v) \/ PatchShape(r, s, v)
      PROVE  UNCHANGED <<prices, priced>> /\ request[r].op # "save new price"
  BY <1>3, BeginsIdle DEF PostShape, PatchShape, reference
<1>4. ASSUME NEW k \in Owners \X Shapes, NEW v \in Values, PostPrice(r, k, v) \/ PatchPrice(r, k, v)
      PROVE  UNCHANGED <<prices, priced>> /\ request[r].op # "save new price"
  BY <1>4, BeginsIdle DEF PostPrice, PatchPrice, reference
<1>5. ASSUME NEW listed \in SUBSET Shapes, NEW v \in Values, SyncPrices(r, listed, v)
      PROVE  UNCHANGED <<prices, priced>> /\ request[r].op # "save new price"
  BY <1>5, BeginsIdle DEF SyncPrices, reference
<1>6. ASSUME NEW n \in Algorithms, NEW c \in Customers, PostAlgorithm(r, n, c)
      PROVE  UNCHANGED <<prices, priced>> /\ request[r].op # "save new price"
  BY <1>6, BeginsIdle DEF PostAlgorithm, reference
<1>7. ASSUME FinishPriceSync(r) \/ SaveNewAlgorithm(r) \/ SavePatchedAlgorithm(r)
      PROVE  UNCHANGED <<prices, priced>> /\ request[r].op # "save new price"
  BY <1>7, BeginsIdle DEF FinishPriceSync, SaveNewAlgorithm, SavePatchedAlgorithm, reference
<1>8. ASSUME NEW s \in Shapes, DeleteShape(r, s)
      PROVE  UNCHANGED <<prices, priced>> /\ request[r].op # "save new price"
  BY <1>8, BeginsIdle DEF DeleteShape, reference
<1>9. ASSUME NEW n \in Algorithms, PatchAlgorithm(r, n)
      PROVE  UNCHANGED <<prices, priced>> /\ request[r].op # "save new price"
  BY <1>9, BeginsIdle DEF PatchAlgorithm, reference
<1> QED  BY <1>1, <1>2, <1>3, <1>4, <1>5, <1>6, <1>7, <1>8, <1>9 DEF ReferenceStep

LEMMA PriceSaved ==
  ASSUME ReferenceType, NEW v \in Values, NEW k \in Owners \X Shapes,
         prices' = Created(prices, k, [id |-> ids + 1, value |-> v])
  PROVE  prices'[k] # None /\ \A l \in Owners \X Shapes : prices[l] # None => prices'[l] # None
<1> DEFINE d == [id |-> ids + 1, value |-> v]
<1>1. d # None
  BY NoneAssumption DEF ReferenceType, PriceDoc
<1>2. prices' = Created(prices, k, d)
  OBVIOUS
<1> HIDE DEF d
<1> QED  BY <1>1, <1>2 DEF Created, ReferenceType, ReferenceOK

LEMMA PriceIsKeptNext ==
  ASSUME TypeInv, PriceIsKept, [Next]_vars
  PROVE  PriceIsKept'
<1>0. /\ ReferenceType /\ RequestType /\ priced \subseteq Owners \X Shapes
      /\ prices \in [Owners \X Shapes -> PriceDoc \cup {None}] /\ None \notin PriceDoc
  BY NoneAssumption DEF TypeInv, ReferenceType, ReferenceOK
<1>1. \A key \in priced : key \in Owners \X Shapes /\ Covered(key)
  BY <1>0 DEF PriceIsKept, Covered, Replacing
<1>2. SUFFICES ASSUME NEW key \in priced'  PROVE Covered(key)'
  BY DEF PriceIsKept, Covered, Replacing
<1>3. ASSUME NEW r \in Requests, ReferenceStep(r), ~Die(r)
      PROVE  Covered(key)'
  <2> DEFINE todo == request[r]
  <2>0. TodoOK(todo) /\ ReferenceTodo(todo) /\ Moves(r) /\ died' = died
    BY <1>0, <1>3, ReferenceSteps DEF RequestType, TodoOK, ReferenceMove
  <2>1. CASE SavePrice(r)
    <3>1. todo.key \in Owners \X Shapes /\ todo.value \in Values /\ todo.op = "save price"
      BY <2>0, <2>1 DEF SavePrice, ReferenceTodo
    <3>2. prices'[todo.key] # None /\ \A l \in Owners \X Shapes : prices[l] # None => prices'[l] # None
      BY <1>0, <2>1, <3>1, PriceSaved DEF SavePrice
    <3>3. key = todo.key \/ key \in priced
      BY <2>1 DEF SavePrice
    <3> QED  BY <1>0, <1>1, <2>0, <3>1, <3>2, <3>3, OthersReplace DEF Covered
  <2>2. CASE SavePatchedPrice(r)
    <3>1. todo.op = "update price" /\ todo.key \in Owners \X Shapes /\ todo.value \in Values /\ key \in priced
      BY <2>0, <2>2 DEF SavePatchedPrice, ReferenceTodo
    <3>2. prices[key] # None => prices'[key] # None
      BY <1>0, <1>1, <2>2, <3>1 DEF SavePatchedPrice, Same, PriceDoc
    <3> QED  BY <1>0, <1>1, <2>0, <3>1, <3>2, OthersReplace DEF Covered
  <2>3. CASE DeleteListedPrice(r)
    <3>1. todo.op = "delete shape"
      BY <2>3 DEF DeleteListedPrice
    <3>2. key \in priced /\ (prices[key] # None => prices'[key] # None)
      BY <1>0, <1>1, <2>3 DEF DeleteListedPrice
    <3> QED  BY <1>0, <1>1, <2>0, <3>1, <3>2, OthersReplace DEF Covered
  <2>4. CASE SavePriceForce(r)
    <3>1. todo.op = "sync prices" /\ todo.listed \subseteq Shapes /\ todo.value \in Values
      BY <2>0, <2>4 DEF SavePriceForce, ReferenceTodo, SyncTodo
    <3>2. PICK s \in todo.listed :
            /\ prices' = Created(prices, <<Default, s>>, [id |-> ids + 1, value |-> todo.value])
            /\ priced' = priced \cup {<<Default, s>>} \/ priced' = priced
      BY <2>4 DEF SavePriceForce, save_force
    <3>3. <<Default, s>> \in Owners \X Shapes
      BY <3>1 DEF Owners
    <3>4. prices'[<<Default, s>>] # None /\ \A l \in Owners \X Shapes : prices[l] # None => prices'[l] # None
      BY <1>0, <3>1, <3>2, <3>3, PriceSaved
    <3>5. key = <<Default, s>> \/ key \in priced
      BY <3>2
    <3> QED  BY <1>0, <1>1, <2>0, <3>1, <3>4, <3>5, OthersReplace DEF Covered
  <2>5. CASE DeleteOldPrice(r)
    <3> DEFINE k == <<Default, todo.shape>>
    <3>1. todo.op = "delete old price" /\ todo.shape \in Shapes /\ key \in priced /\ todo \in SyncTodo
      BY <2>0, <2>5 DEF DeleteOldPrice, ReferenceTodo
    <3>2. k \in Owners \X Shapes
      BY <3>1 DEF Owners
    <3>3. CASE key = k /\ prices[k] # None
      <4> DEFINE x == [todo EXCEPT !.op = "save new price"]
      <4>1. request'[r] = x
        BY <1>0, <2>5, <3>3, ContinueMoves DEF DeleteOldPrice, RequestType
      <4>2. x.op = "save new price" /\ x.shape = todo.shape
        BY <3>1 DEF SyncTodo
      <4> HIDE DEF x
      <4> QED  BY <3>3, <4>1, <4>2 DEF Covered, Replacing
    <3>4. CASE ~(key = k /\ prices[k] # None)
      <4>1. prices[key] # None => prices'[key] # None
        BY <1>0, <1>1, <2>5, <3>1, <3>4 DEF DeleteOldPrice
      <4> QED  BY <1>0, <1>1, <2>0, <3>1, <4>1, OthersReplace DEF Covered
    <3> QED  BY <3>3, <3>4
  <2>6. CASE SaveNewPrice(r)
    <3> DEFINE k == <<Default, todo.shape>>
    <3>1. todo.op = "save new price" /\ todo.shape \in Shapes /\ todo.value \in Values
      BY <2>0, <2>6 DEF SaveNewPrice, ReferenceTodo, SyncTodo
    <3>2. k \in Owners \X Shapes
      BY <3>1 DEF Owners
    <3>3. prices'[k] # None /\ \A l \in Owners \X Shapes : prices[l] # None => prices'[l] # None
      BY <1>0, <2>6, <3>1, <3>2, PriceSaved DEF SaveNewPrice
    <3>4. key = k \/ key \in priced
      BY <2>6 DEF SaveNewPrice
    <3>5. key # k /\ Replacing(key) => Replacing(key)'
      BY <1>0, <2>0, <3>1 DEF Replacing, RequestType, Moves
    <3> QED  BY <1>1, <2>0, <3>3, <3>4, <3>5 DEF Covered
  <2>7. CASE UNCHANGED <<prices, priced>> /\ request[r].op # "save new price"
    BY <1>0, <1>1, <2>0, <2>7, OthersReplace DEF Covered
  <2> QED  BY <1>3, <2>1, <2>2, <2>3, <2>4, <2>5, <2>6, <2>7, PriceCases
<1>4. ASSUME NEW r \in Requests, Die(r)
      PROVE  Covered(key)'
  <2>1. /\ Moves(r) /\ died' = died \cup request[r].on /\ prices' = prices /\ key \in priced
    BY <1>4, Deaths DEF reference
  <2>2. CASE request[r].op = "save new price" /\ key = <<Default, request[r].shape>>
    <3>1. <<"price", key>> \in request[r].on
      BY <1>0, <2>2 DEF RequestType, TodoOK, ReferenceTodo, Public
    <3> QED  BY <2>1, <3>1 DEF Covered
  <2>3. CASE ~(request[r].op = "save new price" /\ key = <<Default, request[r].shape>>)
    <3>1. Replacing(key) => Replacing(key)'
      BY <1>0, <2>1, <2>3 DEF Replacing, RequestType, Moves
    <3> QED  BY <1>1, <2>1, <3>1 DEF Covered
  <2> QED  BY <2>2, <2>3
<1>5. ASSUME NEW r \in Requests, ApplicationStep(r) \/ ParentStep(r) \/ LicenseStep(r)
      PROVE  Covered(key)'
  <2>1. UNCHANGED <<prices, priced>> /\ CatalogMove(r)
    BY <1>5, CatalogSteps
  <2>2. /\ Moves(r) /\ died \subseteq died' /\ request[r].op # "save new price"
    BY <2>1 DEF CatalogMove, CatalogOps, AppOps, HostOps, PasswordOps, DeleteOps, LicenseOps, EditOps
  <2> QED  BY <1>0, <1>1, <2>1, <2>2, OthersReplace DEF Covered
<1>6. ASSUME Deletes, key \in priced, prices[key] # None => prices'[key] # None
      PROVE  Covered(key)'
  BY <1>1, <1>6 DEF Deletes, Covered, Replacing
<1>7. ASSUME \/ \E p \in ParentIds, force \in BOOLEAN : DeleteParent(p, force) \/ DeleteDojoParent(p, force)
             \/ \E s \in Storages : DeleteStorage(s) /\ UNCHANGED catalog
             \/ \E k \in Owners \X Shapes : DeletePrice(k) /\ UNCHANGED catalog
             \/ \E n \in Algorithms : RemoveAlgorithm(n)
      PROVE  Covered(key)'
  <2>1. Deletes
    BY <1>7, RemovedParents, Deletions
  <2>2. key \in priced /\ (prices[key] # None => prices'[key] # None)
    <3>1. ASSUME NEW p \in ParentIds, NEW force \in BOOLEAN, DeleteParent(p, force) \/ DeleteDojoParent(p, force)
          PROVE  UNCHANGED <<prices, priced>>
      BY <3>1, RemovedParents DEF reference
    <3>2. ASSUME NEW k \in Owners \X Shapes, DeletePrice(k)
          PROVE  key \in priced /\ (prices[key] # None => prices'[key] # None)
      BY <1>0, <3>2 DEF DeletePrice
    <3>3. ASSUME NEW s \in Storages, DeleteStorage(s)
          PROVE  UNCHANGED <<prices, priced>>
      BY <3>3 DEF DeleteStorage
    <3>4. ASSUME NEW n \in Algorithms, RemoveAlgorithm(n)
          PROVE  UNCHANGED <<prices, priced>>
      BY <3>4 DEF RemoveAlgorithm, DeleteAlgorithm
    <3> QED  BY <1>7, <3>1, <3>2, <3>3, <3>4
  <2> QED  BY <1>6, <2>1, <2>2
<1>8. CASE UNCHANGED vars
  BY <1>6, <1>8 DEF vars, reference, control, Deletes
<1> QED  BY <1>3, <1>4, <1>5, <1>7, <1>8 DEF Next

LEMMA InitPrices ==
  ASSUME Init
  PROVE  PriceIsKept
<1>1. PICK s \in Shapes, v \in Values :
        /\ prices = [k \in Owners \X Shapes |-> IF k = <<Default, s>> THEN [id |-> 4, value |-> v] ELSE None]
        /\ priced = {<<Default, s>>}
  BY DEF Init
<1>2. <<Default, s>> \in Owners \X Shapes /\ [id |-> 4, value |-> v] \in PriceDoc
  BY DEF Owners, PriceDoc
<1>3. prices[<<Default, s>>] # None
  BY <1>1, <1>2, NoneAssumption
<1> QED  BY <1>1, <1>3 DEF PriceIsKept

-----------------------------------------------------------------------------
(* Settings of algorithms                                                  *)

\* Ids are not used twice, and a request that writes settings has read an algorithm
\* that is not licensed.
AlgorithmInv ==
  /\ LicensedSettingsAreIssued
  /\ \A n \in Algorithms : algorithms[n] # None => algorithms[n].id <= ids
  /\ \A r \in Requests : request[r].op = "update algorithm" =>
       /\ request[r].id <= ids
       /\ Same(algorithms, request[r].name, request[r].id) => ~algorithms[request[r].name].licensed

LEMMA ContinuesOp ==
  ASSUME DOMAIN request = Requests, NEW r \in Requests, NEW x, x.op # "update algorithm", Continue(r, x)
  PROVE  request'[r].op # "update algorithm"
  BY DEF Continue

LEMMA AlgorithmCases ==
  ASSUME TypeInv, NEW r \in Requests, ReferenceStep(r), ~Die(r)
  PROVE  \/ \E n \in Algorithms : PatchAlgorithm(r, n)
         \/ SaveNewAlgorithm(r) \/ SavePatchedAlgorithm(r)
         \/ UNCHANGED algorithms /\ (ids' = ids \/ ids' = ids + 1) /\ request'[r].op # "update algorithm"
<1> DEFINE Rest == UNCHANGED algorithms /\ (ids' = ids \/ ids' = ids + 1) /\ request'[r].op # "update algorithm"
<1>0. DOMAIN request = Requests /\ TodoOK(request[r]) /\ ReferenceTodo(request[r]) /\ Idle.op = "none"
  BY DEF TypeInv, RequestType, TodoOK, Idle
<1>1. ASSUME NEW s \in Storages, NEW t \in StorageType, PostStorage(r, s, t) \/ PatchStorage(r, s, t)
      PROVE  Rest
  <2>1. CASE PostStorage(r, s, t)
    BY <1>0, <2>1 DEF PostStorage, reference, Begin
  <2>2. CASE PatchStorage(r, s, t)
    BY <1>0, <2>2 DEF PatchStorage, reference, Begin
  <2> QED  BY <1>1, <2>1, <2>2
<1>2. ASSUME SaveStorage(r) \/ SavePatchedStorage(r) \/ SaveShape(r) \/ SavePatchedShape(r) \/ DeleteShapeItself(r)
      PROVE  Rest
  BY <1>0, <1>2, FinishMoves DEF SaveStorage, SavePatchedStorage, SaveShape, SavePatchedShape, DeleteShapeItself
<1>3. ASSUME NEW s \in Shapes, NEW v \in Values, PostShape(r, s, v) \/ PatchShape(r, s, v)
      PROVE  Rest
  <2>1. CASE PostShape(r, s, v)
    BY <1>0, <2>1 DEF PostShape, reference, Begin
  <2>2. CASE PatchShape(r, s, v)
    BY <1>0, <2>2 DEF PatchShape, reference, Begin
  <2> QED  BY <1>3, <2>1, <2>2
<1>4. ASSUME NEW s \in Shapes, DeleteShape(r, s)
      PROVE  Rest
  BY <1>0, <1>4 DEF DeleteShape, reference, Begin
<1>5. ASSUME NEW k \in Owners \X Shapes, NEW v \in Values, PostPrice(r, k, v) \/ PatchPrice(r, k, v)
      PROVE  Rest
  <2>1. CASE PostPrice(r, k, v)
    BY <1>0, <2>1 DEF PostPrice, reference, Begin
  <2>2. CASE PatchPrice(r, k, v)
    BY <1>0, <2>2 DEF PatchPrice, reference, Begin
  <2> QED  BY <1>5, <2>1, <2>2
<1>6. ASSUME NEW listed \in SUBSET Shapes, NEW v \in Values, SyncPrices(r, listed, v)
      PROVE  Rest
  BY <1>0, <1>6 DEF SyncPrices, reference, Begin
<1>7. ASSUME SavePrice(r) \/ SavePatchedPrice(r) \/ FinishPriceSync(r)
      PROVE  Rest
  BY <1>0, <1>7, FinishMoves DEF SavePrice, SavePatchedPrice, FinishPriceSync, reference
<1>8. CASE DeleteListedPrice(r)
  <2>1. request[r].op = "delete shape"
    BY <1>8 DEF DeleteListedPrice
  <2>2. PICK price : Continue(r, [request[r] EXCEPT !.listed = @ \ {price}])
    BY <1>8 DEF DeleteListedPrice
  <2>3. [request[r] EXCEPT !.listed = @ \ {price}].op = "delete shape"
    BY <1>0, <2>1 DEF ReferenceTodo
  <2>4. request'[r].op = "delete shape"
    BY <1>0, <2>2, <2>3, ContinueMoves
  <2> QED  BY <1>8, <2>4 DEF DeleteListedPrice
<1>9. ASSUME SavePriceForce(r) \/ DeleteOldPrice(r) \/ SaveNewPrice(r)
      PROVE  Rest
  <2>1. request[r] \in SyncTodo
    BY <1>0, <1>9 DEF SavePriceForce, DeleteOldPrice, SaveNewPrice, ReferenceTodo
  <2>2. request[r].op # "update algorithm"
    BY <2>1 DEF SyncTodo
  <2>3. \A s : /\ [request[r] EXCEPT !.listed = @ \ {s}].op # "update algorithm"
               /\ [request[r] EXCEPT !.op = "delete old price", !.shape = s].op # "update algorithm"
               /\ [request[r] EXCEPT !.op = "save new price"].op # "update algorithm"
               /\ [request[r] EXCEPT !.op = "sync prices", !.listed = @ \ {s}].op # "update algorithm"
    BY <2>1, <2>2 DEF SyncTodo
  <2>4. CASE SavePriceForce(r)
    <3>1. PICK s : \/ Continue(r, [request[r] EXCEPT !.listed = @ \ {s}])
                   \/ Continue(r, [request[r] EXCEPT !.op = "delete old price", !.shape = s])
      BY <2>4 DEF SavePriceForce
    <3>2. request'[r].op # "update algorithm"
      BY <1>0, <2>3, <3>1, ContinuesOp
    <3> QED  BY <2>4, <3>2 DEF SavePriceForce
  <2>5. CASE DeleteOldPrice(r)
    <3>1. Finish(r) \/ Continue(r, [request[r] EXCEPT !.op = "save new price"])
      BY <2>5 DEF DeleteOldPrice
    <3>2. request'[r].op # "update algorithm"
      BY <1>0, <2>3, <3>1, ContinuesOp DEF Finish
    <3> QED  BY <2>5, <3>2 DEF DeleteOldPrice
  <2>6. CASE SaveNewPrice(r)
    <3>1. Finish(r) \/ Continue(r, [request[r] EXCEPT !.op = "sync prices", !.listed = @ \ {request[r].shape}])
      BY <2>6 DEF SaveNewPrice
    <3>2. request'[r].op # "update algorithm"
      BY <1>0, <2>3, <3>1, ContinuesOp DEF Finish
    <3> QED  BY <2>6, <3>2 DEF SaveNewPrice
  <2> QED  BY <1>9, <2>4, <2>5, <2>6
<1>10. ASSUME NEW n \in Algorithms, NEW c \in Customers, PostAlgorithm(r, n, c)
       PROVE  Rest
  BY <1>0, <1>10 DEF PostAlgorithm, reference, Begin
<1> QED  BY <1>1, <1>2, <1>3, <1>4, <1>5, <1>6, <1>7, <1>8, <1>9, <1>10 DEF ReferenceStep

\* What a request has read stays as it is while the algorithms do, or get new ids.
LEMMA SettingsStay ==
  ASSUME TypeInv, AlgorithmInv, NEW q \in Requests, request'[q] = request[q], ids' \in Nat, ids <= ids',
         \A n \in Algorithms : algorithms'[n] # None =>
           \/ algorithms'[n].id > ids
           \/ algorithms[n] # None /\ algorithms'[n].id = algorithms[n].id
                /\ (algorithms'[n].licensed => algorithms[n].licensed)
  PROVE  request'[q].op = "update algorithm" =>
           /\ request'[q].id <= ids'
           /\ Same(algorithms', request'[q].name, request'[q].id) => ~algorithms'[request'[q].name].licensed
<1>1. SUFFICES ASSUME request[q].op = "update algorithm"
               PROVE  /\ request[q].id <= ids'
                      /\ Same(algorithms', request[q].name, request[q].id) => ~algorithms'[request[q].name].licensed
  OBVIOUS
<1> DEFINE n == request[q].name
           i == request[q].id
<1>2. ids \in Nat /\ n \in Algorithms /\ i \in Nat /\ i <= ids
  BY <1>1 DEF TypeInv, ReferenceType, RequestType, TodoOK, ReferenceTodo, AlgorithmInv
<1>3. Same(algorithms, n, i) => ~algorithms[n].licensed
  BY <1>1 DEF AlgorithmInv
<1> HIDE DEF n, i
<1>4. i <= ids'
  BY <1>2
<1>5. ASSUME algorithms'[n] # None, algorithms'[n].id = i
      PROVE  algorithms[n] # None /\ algorithms[n].id = i /\ (algorithms'[n].licensed => algorithms[n].licensed)
  BY <1>2, <1>5
<1> QED  BY <1>3, <1>4, <1>5 DEF Same, n, i

\* An algorithm after a step: new, or the one that was there.
Renewed(n) ==
  algorithms'[n] # None =>
    /\ algorithms'[n].id <= ids'
    /\ algorithms'[n].licensed => algorithms'[n].settings = "issued"
    /\ \/ algorithms'[n].id > ids
       \/ algorithms[n] # None /\ algorithms'[n].id = algorithms[n].id
            /\ (algorithms'[n].licensed => algorithms[n].licensed)

LEMMA AlgorithmsRenewed ==
  ASSUME TypeInv, AlgorithmInv, ids' \in Nat, ids <= ids', \A n \in Algorithms : Renewed(n),
         \A q \in Requests : request'[q] = request[q] \/ request'[q].op # "update algorithm"
  PROVE  AlgorithmInv'
<1>1. \A n \in Algorithms : algorithms'[n] # None =>
        \/ algorithms'[n].id > ids
        \/ algorithms[n] # None /\ algorithms'[n].id = algorithms[n].id
             /\ (algorithms'[n].licensed => algorithms[n].licensed)
  BY DEF Renewed
<1>2. ASSUME NEW q \in Requests
      PROVE  request'[q].op = "update algorithm" =>
               /\ request'[q].id <= ids'
               /\ Same(algorithms', request'[q].name, request'[q].id) => ~algorithms'[request'[q].name].licensed
  BY <1>1, SettingsStay
<1>3. \A n \in Algorithms : algorithms'[n] # None =>
        algorithms'[n].id <= ids' /\ (algorithms'[n].licensed => algorithms'[n].settings = "issued")
  BY DEF Renewed
<1> QED  BY <1>2, <1>3 DEF AlgorithmInv, LicensedSettingsAreIssued, Same

LEMMA AlgorithmsStay ==
  ASSUME TypeInv, AlgorithmInv, UNCHANGED algorithms, ids' = ids \/ ids' = ids + 1
  PROVE  ids' \in Nat /\ ids <= ids' /\ \A n \in Algorithms : Renewed(n)
<1>1. ids \in Nat
  BY DEF TypeInv, ReferenceType
<1>2. ids' \in Nat /\ ids <= ids'
  BY <1>1
<1>3. ASSUME NEW n \in Algorithms, algorithms[n] # None
      PROVE  /\ algorithms[n].id <= ids' /\ (algorithms[n].licensed => algorithms[n].settings = "issued")
  <2>1. algorithms[n].id <= ids /\ (algorithms[n].licensed => algorithms[n].settings = "issued")
    BY <1>3 DEF AlgorithmInv, LicensedSettingsAreIssued
  <2>2. algorithms[n].id \in Nat
    BY <1>3 DEF TypeInv, ReferenceType, ReferenceOK, AlgorithmDoc
  <2> QED  BY <1>1, <1>2, <2>1, <2>2
<1> QED  BY <1>2, <1>3 DEF Renewed

LEMMA AlgorithmCreated ==
  ASSUME TypeInv, AlgorithmInv, NEW n \in Algorithms, NEW d \in AlgorithmDoc, d.id = ids + 1,
         d.licensed => d.settings = "issued", algorithms' = Created(algorithms, n, d), ids' = ids + 1
  PROVE  ids' \in Nat /\ ids <= ids' /\ \A m \in Algorithms : Renewed(m)
<1>1. ids \in Nat /\ ids' \in Nat /\ ids < ids' /\ d.id = ids'
  BY DEF TypeInv, ReferenceType
<1>2. algorithms \in [Algorithms -> AlgorithmDoc \cup {None}]
  BY DEF TypeInv, ReferenceType, ReferenceOK
<1>3. ASSUME NEW m \in Algorithms
      PROVE  Renewed(m)
  <2>1. CASE algorithms'[m] = d
    BY <1>1, <2>1 DEF Renewed
  <2>2. CASE algorithms'[m] = algorithms[m]
    <3>1. algorithms[m] # None =>
            algorithms[m].id <= ids /\ (algorithms[m].licensed => algorithms[m].settings = "issued")
      BY DEF AlgorithmInv, LicensedSettingsAreIssued
    <3>2. algorithms[m] # None => algorithms[m].id \in Nat
      BY <1>2 DEF AlgorithmDoc
    <3>3. algorithms[m] # None => algorithms[m].id <= ids'
      BY <1>1, <3>1, <3>2
    <3> QED  BY <2>2, <3>1, <3>3 DEF Renewed
  <2> QED  BY <1>2, <2>1, <2>2 DEF Created
<1> QED  BY <1>1, <1>3

LEMMA IdleOp == Idle.op = "none" /\ Idle.on = {}
  BY DEF Idle

LEMMA AlgorithmInvNext ==
  ASSUME TypeInv, AlgorithmInv, [Next]_vars
  PROVE  AlgorithmInv'
<1>0. /\ ReferenceType /\ RequestType /\ ids \in Nat /\ ReferenceType'
      /\ algorithms \in [Algorithms -> AlgorithmDoc \cup {None}]
  BY NextType DEF TypeInv, ReferenceType, ReferenceOK
<1>1. ASSUME NEW r \in Requests, Moves(r)
      PROVE  \A q \in Requests \ {r} : request'[q] = request[q]
  BY <1>0, <1>1 DEF Moves, RequestType
<1>2. ASSUME NEW r \in Requests, ReferenceStep(r), ~Die(r)
      PROVE  AlgorithmInv'
  <2> DEFINE todo == request[r]
  <2>0. /\ TodoOK(todo) /\ ReferenceTodo(todo) /\ \A q \in Requests \ {r} : request'[q] = request[q]
    BY <1>0, <1>1, <1>2, ReferenceSteps DEF RequestType, TodoOK, ReferenceMove
  <2>1. ASSUME NEW n \in Algorithms, PatchAlgorithm(r, n)
        PROVE  AlgorithmInv'
    <3> DEFINE x == [op |-> "update algorithm", on |-> {}, name |-> n, id |-> algorithms[n].id]
    <3>1. algorithms[n] # None /\ ~algorithms[n].licensed /\ UNCHANGED <<algorithms, ids>>
      BY <2>1 DEF PatchAlgorithm, allowed_settings, reference
    <3>2. request'[r] = x
      <4>1. Begin(r, "algorithm", x)
        BY <2>1 DEF PatchAlgorithm
      <4> HIDE DEF x
      <4> QED  BY <1>0, <4>1, BeginMoves DEF RequestType
    <3>3. x.name = n /\ x.id = algorithms[n].id
      OBVIOUS
    <3> HIDE DEF x
    <3>4. algorithms[n].id <= ids
      BY <3>1 DEF AlgorithmInv
    <3>5. ASSUME NEW q \in Requests, request'[q].op = "update algorithm"
          PROVE  /\ request'[q].id <= ids
                 /\ Same(algorithms, request'[q].name, request'[q].id) => ~algorithms[request'[q].name].licensed
      <4>1. CASE q = r
        BY <3>1, <3>2, <3>3, <3>4, <4>1
      <4>2. CASE q # r
        BY <2>0, <3>5, <4>2 DEF AlgorithmInv
      <4> QED  BY <4>1, <4>2
    <3> QED  BY <3>1, <3>5 DEF AlgorithmInv, LicensedSettingsAreIssued, Same
  <2>2. CASE SaveNewAlgorithm(r)
    <3> DEFINE d == [id |-> ids + 1, customer |-> todo.customer, licensed |-> FALSE, settings |-> "default"]
    <3>1. todo.name \in Algorithms /\ todo.customer \in Customers
      BY <2>0, <2>2 DEF SaveNewAlgorithm, ReferenceTodo
    <3>2. d \in AlgorithmDoc /\ d.id = ids + 1 /\ (d.licensed => d.settings = "issued")
      BY <1>0, <3>1 DEF AlgorithmDoc
    <3>3. algorithms' = Created(algorithms, todo.name, d) /\ ids' = ids + 1
      BY <2>2 DEF SaveNewAlgorithm
    <3> HIDE DEF d
    <3>4. ids' \in Nat /\ ids <= ids' /\ \A m \in Algorithms : Renewed(m)
      BY <3>1, <3>2, <3>3, AlgorithmCreated
    <3>5. request'[r].op # "update algorithm"
      BY <1>0, <2>2, FinishMoves, IdleOp DEF SaveNewAlgorithm, RequestType
    <3> QED  BY <2>0, <3>4, <3>5, AlgorithmsRenewed
  <2>3. CASE SavePatchedAlgorithm(r)
    <3>1. todo.name \in Algorithms /\ todo.op = "update algorithm" /\ ids' = ids
      BY <2>0, <2>3 DEF SavePatchedAlgorithm, ReferenceTodo
    <3>2. ids' \in Nat /\ ids <= ids'
      <4>1. ids \in Nat
        BY <1>0
      <4>2. ids' = ids
        BY <3>1
      <4> QED  BY <4>1, <4>2
    <3>3. request'[r].op # "update algorithm"
      BY <1>0, <2>3, FinishMoves, IdleOp DEF SavePatchedAlgorithm, RequestType
    <3>4. ASSUME NEW m \in Algorithms
          PROVE  Renewed(m)
      <4>1. algorithms[m] # None =>
              algorithms[m].id <= ids /\ (algorithms[m].licensed => algorithms[m].settings = "issued")
        BY DEF AlgorithmInv, LicensedSettingsAreIssued
      <4>2. CASE algorithms'[m] = algorithms[m]
        BY <3>1, <4>1, <4>2 DEF Renewed
      <4>3. CASE algorithms'[m] # algorithms[m]
        <5>1. /\ m = todo.name /\ Same(algorithms, m, todo.id)
              /\ algorithms'[m] = [algorithms[m] EXCEPT !.settings = "own"]
          BY <1>0, <2>3, <3>1, <4>3 DEF SavePatchedAlgorithm
        <5>2. ~algorithms[m].licensed /\ algorithms[m] \in AlgorithmDoc
          BY <1>0, <3>1, <5>1 DEF AlgorithmInv, Same
        <5>3. algorithms'[m].licensed = algorithms[m].licensed /\ algorithms'[m].id = algorithms[m].id
          BY <5>1, <5>2 DEF AlgorithmDoc
        <5> QED  BY <3>1, <4>1, <5>1, <5>2, <5>3 DEF Renewed, Same
      <4> QED  BY <4>2, <4>3
    <3> QED  BY <2>0, <3>2, <3>3, <3>4, AlgorithmsRenewed
  <2>4. CASE UNCHANGED algorithms /\ (ids' = ids \/ ids' = ids + 1) /\ request'[r].op # "update algorithm"
    BY <2>0, <2>4, AlgorithmsStay, AlgorithmsRenewed
  <2> QED  BY <1>2, <2>1, <2>2, <2>3, <2>4, AlgorithmCases
<1>3. ASSUME NEW r \in Requests, Die(r)
      PROVE  AlgorithmInv'
  <2>1. UNCHANGED <<algorithms, ids>> /\ request'[r] = Idle /\ \A q \in Requests \ {r} : request'[q] = request[q]
    BY <1>1, <1>3, Deaths DEF reference
  <2>2. \A q \in Requests : request'[q] = request[q] \/ request'[q].op # "update algorithm"
    BY <2>1, IdleOp
  <2> QED  BY <2>1, <2>2, AlgorithmsStay, AlgorithmsRenewed
<1>4. ASSUME NEW r \in Requests, ApplicationStep(r) \/ ParentStep(r) \/ LicenseStep(r)
      PROVE  AlgorithmInv'
  <2>0. /\ UNCHANGED <<reference, ids>> \/ SaveSyncedAlgorithm(r)
        /\ CatalogMove(r)
    BY <1>4, CatalogSteps
  <2>1. /\ request'[r].op # "update algorithm" /\ \A q \in Requests \ {r} : request'[q] = request[q]
    BY <1>1, <2>0 DEF CatalogMove, CatalogOps, AppOps, HostOps, PasswordOps, DeleteOps, LicenseOps, EditOps
  <2>2. CASE UNCHANGED <<reference, ids>>
    BY <2>1, <2>2, AlgorithmsStay, AlgorithmsRenewed DEF reference
  <2>3. CASE SaveSyncedAlgorithm(r)
    <3> DEFINE todo == request[r]
               n == todo.name
               d == [id |-> ids + 1, customer |-> todo.customer, licensed |-> TRUE, settings |-> "issued"]
    <3>1. n \in Algorithms /\ todo.customer \in Customers
      BY <1>0, <2>3 DEF SaveSyncedAlgorithm, RequestType, TodoOK, CatalogTodo, SyncedTodo
    <3>2. CASE todo.id = None
      <4>1. d \in AlgorithmDoc /\ d.id = ids + 1 /\ d.settings = "issued"
        BY <1>0, <3>1, AlgorithmIssued
      <4>2. algorithms' = Created(algorithms, n, d) /\ ids' = ids + 1
        BY <2>3, <3>2, Zenon DEF SaveSyncedAlgorithm, created
      <4> HIDE DEF d
      <4>3. ids' \in Nat /\ ids <= ids' /\ \A m \in Algorithms : Renewed(m)
        BY <3>1, <4>1, <4>2, AlgorithmCreated
      <4> QED  BY <2>1, <4>3, AlgorithmsRenewed
    <3>3. CASE todo.id # None
      <4>1. /\ ids' = ids
            /\ algorithms' = IF Same(algorithms, n, todo.id)
                             THEN [algorithms EXCEPT ![n].settings = "issued"] ELSE algorithms
        BY <2>3, <3>3 DEF SaveSyncedAlgorithm
      <4>2. ids' \in Nat /\ ids <= ids'
        BY <1>0, <4>1
      <4>3. ASSUME NEW m \in Algorithms
            PROVE  Renewed(m)
        <5>1. algorithms[m] # None =>
                algorithms[m].id <= ids /\ (algorithms[m].licensed => algorithms[m].settings = "issued")
          BY DEF AlgorithmInv, LicensedSettingsAreIssued
        <5>2. CASE algorithms'[m] = algorithms[m]
          BY <4>1, <5>1, <5>2 DEF Renewed
        <5>3. CASE algorithms'[m] # algorithms[m]
          <6>1. m = n /\ algorithms[m] # None /\ algorithms'[m] = [algorithms[m] EXCEPT !.settings = "issued"]
            BY <1>0, <3>1, <4>1, <5>3 DEF Same
          <6>2. algorithms[m] \in AlgorithmDoc
            BY <1>0, <6>1
          <6>3. /\ algorithms'[m].licensed = algorithms[m].licensed /\ algorithms'[m].id = algorithms[m].id
                /\ algorithms'[m].settings = "issued"
            BY <6>1, <6>2 DEF AlgorithmDoc
          <6> QED  BY <4>1, <5>1, <6>1, <6>3 DEF Renewed
        <5> QED  BY <5>2, <5>3
      <4> QED  BY <2>1, <4>2, <4>3, AlgorithmsRenewed
    <3> QED  BY <3>2, <3>3
  <2> QED  BY <2>0, <2>2, <2>3
<1>5. ASSUME Deletes, \A n \in Algorithms : algorithms'[n] = algorithms[n] \/ algorithms'[n] = None
      PROVE  AlgorithmInv'
  <2>1. ids' = ids /\ ids' \in Nat /\ ids <= ids' /\ request' = request
    BY <1>0, <1>5 DEF Deletes
  <2>2. ASSUME NEW n \in Algorithms
        PROVE  Renewed(n)
    BY <1>5, <2>1 DEF Renewed, AlgorithmInv, LicensedSettingsAreIssued
  <2> QED  BY <2>1, <2>2, AlgorithmsRenewed
<1>6. ASSUME \/ \E p \in ParentIds, force \in BOOLEAN : DeleteParent(p, force) \/ DeleteDojoParent(p, force)
             \/ \E s \in Storages : DeleteStorage(s) /\ UNCHANGED catalog
             \/ \E k \in Owners \X Shapes : DeletePrice(k) /\ UNCHANGED catalog
             \/ \E n \in Algorithms : RemoveAlgorithm(n)
      PROVE  AlgorithmInv'
  <2>1. Deletes
    BY <1>6, RemovedParents, Deletions
  <2>2. ASSUME NEW p \in ParentIds, NEW force \in BOOLEAN, DeleteParent(p, force) \/ DeleteDojoParent(p, force)
        PROVE  UNCHANGED algorithms
    BY <2>2, RemovedParents DEF reference
  <2>3. ASSUME NEW n \in Algorithms, RemoveAlgorithm(n)
        PROVE  \A m \in Algorithms : algorithms'[m] = algorithms[m] \/ algorithms'[m] = None
    BY <1>0, <2>3 DEF RemoveAlgorithm, DeleteAlgorithm
  <2>4. ASSUME NEW s \in Storages, DeleteStorage(s)
        PROVE  UNCHANGED algorithms
    BY <2>4 DEF DeleteStorage
  <2>5. ASSUME NEW k \in Owners \X Shapes, DeletePrice(k)
        PROVE  UNCHANGED algorithms
    BY <2>5 DEF DeletePrice
  <2> QED  BY <1>5, <1>6, <2>1, <2>2, <2>3, <2>4, <2>5
<1>7. CASE UNCHANGED vars
  BY <1>5, <1>7 DEF vars, reference, control, Deletes
<1> QED  BY <1>2, <1>3, <1>4, <1>6, <1>7 DEF Next

LEMMA InitAlgorithms ==
  ASSUME Init
  PROVE  AlgorithmInv
  BY DEF Init, AlgorithmInv, LicensedSettingsAreIssued, Idle

-----------------------------------------------------------------------------
(* What an application and a parent are                                    *)

Apps    == 1..made.apps
Parents == 1..made.parents

Kind(type) == IF type = "RIGHTSIZER_PARENT" THEN "RIGHTSIZER" ELSE type

\* Given the type t[a] of every application and the application h[p] of every parent,
\* among the As and Ps that were created:
ParentAgrees(d, t, As) == d.application \in As /\ Kind(d.type) = t[d.application]

TodoAgrees(x, t, h, As, Ps) ==
  /\ x.op \in AppOps => x.app \in As
  /\ x.op \in HostOps \cup {"ask LM", "update license"} => x.document.type = t[x.app]
  /\ x.op \in PasswordOps => t[x.app] = "RIGHTSIZER"
  /\ x.op = "mark parents" => t[x.app] = "DEFECT_DOJO"
  /\ x.op \in LicenseOps => t[x.app] = "RIGHTSIZER_LICENSES"
  /\ x.op \in {"delete parents", "mark parents"} => \A p \in x.parents : p \in Ps /\ h[p] = x.app
  /\ x.op = "save parent" => ParentAgrees(x.document, t, As)
  /\ x.op \in EditOps =>
       /\ x.parent \in Ps /\ h[x.parent] = x.document.application
       /\ x.document.type = "RIGHTSIZER_LICENSES" /\ ParentAgrees(x.document, t, As)

AppsAgree(t) == \A a \in AppIds : apps[a] # None => a \in Apps /\ apps[a].type = t[a]

ParentsAgree(t, h) ==
  \A p \in ParentIds : parents[p] # None =>
    /\ p \in Parents /\ h[p] = parents[p].application /\ ParentAgrees(parents[p], t, Apps)
    /\ parents[p].meta # {} => parents[p].type = "RIGHTSIZER_LICENSES"

Agreement(t, h) ==
  /\ t \in [AppIds -> ApplicationType] /\ h \in [ParentIds -> AppIds]
  /\ AppsAgree(t) /\ ParentsAgree(t, h)
  /\ \A r \in Requests : TodoAgrees(request[r], t, h, Apps, Parents)

Agreed == \E t, h : Agreement(t, h)

\* Documents are only created.
Grows == made'.apps \in Nat /\ made'.parents \in Nat /\ made'.apps >= made.apps /\ made'.parents >= made.parents

LEMMA MadeSets ==
  ASSUME MadeType
  PROVE  Apps \subseteq AppIds /\ Parents \subseteq ParentIds /\ NewApp \notin Apps /\ NewParent \notin Parents
  BY BoundsAssumption DEF MadeType, Apps, Parents, AppIds, ParentIds, NewApp, NewParent

LEMMA GrowsSets ==
  ASSUME MadeType, Grows
  PROVE  Apps \subseteq Apps' /\ Parents \subseteq Parents'
<1>1. made.apps \in Nat /\ made.parents \in Nat
  BY BoundsAssumption DEF MadeType, AppIds, ParentIds
<1> QED  BY <1>1 DEF Grows, Apps, Parents

LEMMA StaysGrows ==
  ASSUME MadeType, made' = made \/ (made'.apps = made.apps /\ made'.parents = made.parents)
  PROVE  Grows
  BY BoundsAssumption DEF MadeType, AppIds, ParentIds, Grows

LEMMA NewAppGrows ==
  ASSUME MadeType, made' = [made EXCEPT !.apps = NewApp]
  PROVE  Grows /\ NewApp \in Apps' /\ Parents' = Parents
<1>1. made.apps \in Nat /\ made.parents \in Nat
  BY BoundsAssumption DEF MadeType, AppIds, ParentIds
<1>2. made'.apps = made.apps + 1 /\ made'.parents = made.parents
  BY DEF MadeType, NewApp
<1> QED  BY <1>1, <1>2 DEF Grows, Apps, Parents, NewApp

LEMMA NewParentGrows ==
  ASSUME MadeType, made' = [made EXCEPT !.parents = NewParent]
  PROVE  Grows /\ NewParent \in Parents' /\ Apps' = Apps
<1>1. made.apps \in Nat /\ made.parents \in Nat
  BY BoundsAssumption DEF MadeType, AppIds, ParentIds
<1>2. made'.parents = made.parents + 1 /\ made'.apps = made.apps
  BY DEF MadeType, NewParent
<1> QED  BY <1>1, <1>2 DEF Grows, Apps, Parents, NewParent

LEMMA TodoAgreesGrows ==
  ASSUME NEW x, NEW t, NEW h, NEW As, NEW Ps, NEW Bs, NEW Qs, As \subseteq Bs, Ps \subseteq Qs,
         TodoAgrees(x, t, h, As, Ps)
  PROVE  TodoAgrees(x, t, h, Bs, Qs)
  BY DEF TodoAgrees, ParentAgrees

\* The type of an application that is not created yet does not matter to what is known.
LEMMA TypeChosen ==
  ASSUME MadeType, NEW t, NEW h, Agreement(t, h), NEW k \in ApplicationType, NewApp \in AppIds
  PROVE  Agreement([t EXCEPT ![NewApp] = k], h)
<1> DEFINE u == [t EXCEPT ![NewApp] = k]
<1>1. u \in [AppIds -> ApplicationType] /\ \A a \in Apps : u[a] = t[a]
  BY MadeSets DEF Agreement
<1> HIDE DEF u
<1>2. AppsAgree(u) /\ ParentsAgree(u, h)
  BY <1>1, MadeSets DEF Agreement, AppsAgree, ParentsAgree, ParentAgrees
<1>3. ASSUME NEW r \in Requests
      PROVE  TodoAgrees(request[r], u, h, Apps, Parents)
  <2>1. TodoAgrees(request[r], t, h, Apps, Parents)
    BY DEF Agreement
  <2>2. request[r].op \in HostOps \cup {"ask LM", "update license"} \cup PasswordOps \cup {"mark parents"} \cup LicenseOps
          => request[r].op \in AppOps
    BY DEF AppOps, LicenseOps
  <2>3. request[r].op \in AppOps => u[request[r].app] = t[request[r].app]
    BY <1>1, <2>1 DEF TodoAgrees
  <2>4. \A d : ParentAgrees(d, t, Apps) => ParentAgrees(d, u, Apps)
    BY <1>1 DEF ParentAgrees
  <2> QED  BY <2>1, <2>2, <2>3, <2>4 DEF TodoAgrees
<1> QED  BY <1>1, <1>2, <1>3 DEF Agreement, u

LEMMA HomeChosen ==
  ASSUME MadeType, NEW t, NEW h, Agreement(t, h), NEW a \in AppIds, NewParent \in ParentIds
  PROVE  Agreement(t, [h EXCEPT ![NewParent] = a])
<1> DEFINE g == [h EXCEPT ![NewParent] = a]
<1>1. g \in [ParentIds -> AppIds] /\ \A p \in Parents : g[p] = h[p]
  BY MadeSets DEF Agreement
<1> HIDE DEF g
<1>2. AppsAgree(t) /\ ParentsAgree(t, g)
  BY <1>1, MadeSets DEF Agreement, ParentsAgree
<1>3. ASSUME NEW r \in Requests
      PROVE  TodoAgrees(request[r], t, g, Apps, Parents)
  <2>1. TodoAgrees(request[r], t, h, Apps, Parents)
    BY DEF Agreement
  <2> QED  BY <1>1, <2>1 DEF TodoAgrees
<1> QED  BY <1>1, <1>2, <1>3 DEF Agreement, g

LEMMA AgreementMoves ==
  ASSUME TypeInv, NEW t, NEW h, Agreement(t, h), Grows, NEW r \in Requests, Moves(r),
         TodoAgrees(request'[r], t, h, Apps', Parents'), AppsAgree(t)', ParentsAgree(t, h)'
  PROVE  Agreement(t, h)'
<1>1. Apps \subseteq Apps' /\ Parents \subseteq Parents'
  BY GrowsSets DEF TypeInv
<1>2. ASSUME NEW q \in Requests
      PROVE  TodoAgrees(request'[q], t, h, Apps', Parents')
  <2>1. CASE q = r
    BY <2>1
  <2>2. CASE q # r
    <3>1. request'[q] = request[q]
      BY <2>2 DEF Moves, TypeInv, RequestType
    <3>2. TodoAgrees(request[q], t, h, Apps, Parents)
      BY DEF Agreement
    <3> QED  BY <1>1, <3>1, <3>2, TodoAgreesGrows
  <2> QED  BY <2>1, <2>2
<1> QED  BY <1>2 DEF Agreement, TodoAgrees, ParentAgrees

LEMMA AppsAgreeStay ==
  ASSUME MadeType, Grows, NEW t, AppsAgree(t), UNCHANGED apps
  PROVE  AppsAgree(t)'
<1>1. Apps \subseteq Apps'
  BY GrowsSets
<1> QED  BY <1>1 DEF AppsAgree

LEMMA ParentsAgreeStay ==
  ASSUME MadeType, Grows, NEW t, NEW h, ParentsAgree(t, h), UNCHANGED parents
  PROVE  ParentsAgree(t, h)'
<1>1. Apps \subseteq Apps' /\ Parents \subseteq Parents'
  BY GrowsSets
<1> QED  BY <1>1 DEF ParentsAgree, ParentAgrees

\* One application is written.
LEMMA AppsAgreeSaved ==
  ASSUME TypeInv, Grows, NEW t, AppsAgree(t), NEW a \in AppIds,
         \A b \in AppIds \ {a} : apps'[b] = apps[b],
         apps'[a] # None => a \in Apps' /\ apps'[a].type = t[a]
  PROVE  AppsAgree(t)'
<1>1. Apps \subseteq Apps'
  BY GrowsSets DEF TypeInv
<1> QED  BY <1>1 DEF AppsAgree

LEMMA ParentsAgreeSaved ==
  ASSUME TypeInv, Grows, NEW t, NEW h, ParentsAgree(t, h), NEW p \in ParentIds,
         \A q \in ParentIds \ {p} : parents'[q] = parents[q],
         parents'[p] # None =>
           /\ p \in Parents' /\ h[p] = parents'[p].application /\ ParentAgrees(parents'[p], t, Apps')
           /\ parents'[p].meta # {} => parents'[p].type = "RIGHTSIZER_LICENSES"
  PROVE  ParentsAgree(t, h)'
<1>1. Apps \subseteq Apps' /\ Parents \subseteq Parents'
  BY GrowsSets DEF TypeInv
<1>2. ASSUME NEW q \in ParentIds, parents'[q] # None
      PROVE  /\ q \in Parents' /\ h[q] = parents'[q].application /\ ParentAgrees(parents'[q], t, Apps')
             /\ parents'[q].meta # {} => parents'[q].type = "RIGHTSIZER_LICENSES"
  <2>1. CASE q = p
    BY <1>2, <2>1
  <2>2. CASE q # p
    BY <1>1, <1>2, <2>2 DEF ParentsAgree, ParentAgrees
  <2> QED  BY <2>1, <2>2
<1> QED  BY <1>2 DEF ParentsAgree, ParentAgrees

LEMMA IdleAgrees ==
  ASSUME NEW x, x.op \in {"none"} \cup ReferenceOps, NEW t, NEW h, NEW As, NEW Ps
  PROVE  TodoAgrees(x, t, h, As, Ps)
  BY DEF TodoAgrees, ReferenceOps, AppOps, HostOps, PasswordOps, DeleteOps, LicenseOps, EditOps


-----------------------------------------------------------------------------
(* What the requests that are under way know                               *)

Overlap == \A q, r \in Requests : q # r => request[q].on \cap request[r].on \subseteq mixed

On(a, ops) == \E r \in Requests : request[r].op \in ops /\ request[r].app = a

\* Only the request that creates an application works on it.
Alone ==
  \A r \in Requests : request[r].op \in {"create secret", "save application"} =>
    /\ apps[request[r].app] = None
    /\ \A q \in Requests \ {r} : request[q].op \in AppOps => request[q].app # request[r].app

\* A request that will write the meta of a parent has read the one that is there.
KeptInv ==
  /\ RulesAndGroupsAreKept
  /\ \A p \in ParentIds \ Parents : kept[p] = {}
  /\ \A r \in Requests : LET x == request[r] IN
       x.op \in EditOps /\ <<"parent", x.parent>> \notin mixed =>
         parents[x.parent] # None /\ x.document.meta = parents[x.parent].meta

HostGoing == {"save host parent", "delete parents", "mark application", "delete application"}

HasHostParent(a) == \E p \in active_parents(a) : parents[p].type = "RIGHTSIZER_PARENT"

HostInv ==
  \A a \in AppIds : Active(a, "RIGHTSIZER") /\ <<"app", a>> \notin died /\ ~On(a, HostGoing) => HasHostParent(a)

SecretDue(a) ==
  /\ apps[a] # None /\ apps[a].type # "RIGHTSIZER_LICENSES" /\ <<"app", a>> \notin died =>
       a \in secrets \/ On(a, {"replace secret", "delete application"})
  /\ a \in secrets /\ <<"app", a>> \notin mixed \cup died => apps[a] # None \/ On(a, {"save application"})

SecretTodo(x) ==
  /\ x.op = "save application" => x.document.type = "RIGHTSIZER_LICENSES" \/ x.app \in secrets
  /\ x.op = "delete application" /\ <<"app", x.app>> \notin mixed => x.app \notin secrets
  /\ x.op \in {"delete secret", "replace secret"} /\ <<"app", x.app>> \notin mixed => apps[x.app] # None

SecretsInv ==
  /\ \A a \in AppIds : SecretDue(a)
  /\ \A r \in Requests : SecretTodo(request[r])

There(n) == algorithms[n] # None \/ n \in dropped

\* An algorithm that a synchronisation has yet to save.
Syncing(a, n) ==
  \E r \in Requests :
    /\ request[r].op \in {"sync algorithms", "save algorithm"} /\ request[r].app = a
    /\ n \in request[r].listed \/ (request[r].op = "save algorithm" /\ n = request[r].name)

SyncInv ==
  /\ \A a \in AppIds : apps[a] # None /\ <<"app", a>> \notin died =>
       \A n \in apps[a].algorithms : There(n) \/ Syncing(a, n)
  /\ \A r \in Requests : request[r].op = "save algorithm" /\ request[r].id # None => There(request[r].name)

-----------------------------------------------------------------------------
(* What a step of a request does to the documents                          *)

Acts(r) == Moves(r) /\ died' = died

Starts(r, ops) == request[r].op = "none" /\ request'[r].op \in ops

Goes(r, op, ops) ==
  /\ request[r].op = op /\ request'[r].op \in ops
  /\ request'[r].app = request[r].app /\ request'[r].on = request[r].on

Ends(r, op) == request[r].op = op /\ request'[r] = Idle

Creates(r) ==
  /\ Starts(r, {"create secret", "save application"}) /\ NewApp \in AppIds /\ request'[r].app = NewApp
  /\ request'[r].op = "save application" => request'[r].document.type = "RIGHTSIZER_LICENSES"
  /\ made' = [made EXCEPT !.apps = NewApp] /\ UNCHANGED <<apps, parents, secrets, kept, dropped>>

SecretSaved(r) ==
  /\ Goes(r, "create secret", {"save application"}) /\ request'[r].document = request[r].document
  /\ secrets' = secrets \cup {request[r].app} /\ UNCHANGED <<apps, parents, made, kept, dropped>>

ApplicationSaved(r) ==
  /\ request[r].op = "save application"
  /\ apps' = [apps EXCEPT ![request[r].app] = request[r].document]
  /\ \/ request[r].document.type = "DEFECT_DOJO" /\ request'[r] = Idle
     \/ /\ request[r].document.type = "RIGHTSIZER" /\ Goes(r, "save application", {"save host parent"})
        /\ request'[r].document = request[r].document
     \/ /\ request[r].document.type = "RIGHTSIZER_LICENSES" /\ Goes(r, "save application", {"ask LM"})
        /\ request'[r].document = request[r].document
  /\ UNCHANGED <<parents, secrets, made, kept, dropped>>

HostParentSaved(r) ==
  /\ Ends(r, "save host parent") /\ NewParent \in ParentIds
  /\ made' = [made EXCEPT !.parents = NewParent]
  /\ parents' = [parents EXCEPT ![NewParent] = Parent(request[r].app, "RIGHTSIZER_PARENT")]
  /\ UNCHANGED <<apps, secrets, kept, dropped>>

LEMMA BeginsWith ==
  ASSUME TypeInv, NEW r \in Requests, NEW sort, NEW x, Begin(r, sort, x)
  PROVE  Acts(r) /\ request[r].op = "none" /\ request'[r] = x
  BY BeginMoves, BeginsIdle DEF TypeInv, RequestType, Acts

LEMMA ContinuesWith ==
  ASSUME TypeInv, NEW r \in Requests, NEW x, Continue(r, x)
  PROVE  Acts(r) /\ request'[r] = x
  BY ContinueMoves DEF TypeInv, RequestType, Acts

LEMMA FinishesWith ==
  ASSUME TypeInv, NEW r \in Requests, Finish(r)
  PROVE  Acts(r) /\ request'[r] = Idle
  BY FinishMoves DEF TypeInv, RequestType, Acts

LEMMA HostEffects ==
  ASSUME TypeInv, NEW r \in Requests,
         \/ \E c \in Customers, in, out \in Storages : PostApplication(r, c, in, out)
         \/ \E c \in Customers : PostDojoApplication(r, c)
         \/ _create_application_secret(r) \/ SaveApplication(r) \/ SaveHostParent(r)
         \/ \E c \in Customers, k \in Keys : PostLicense(r, c, k)
  PROVE  Acts(r) /\ (Creates(r) \/ SecretSaved(r) \/ ApplicationSaved(r) \/ HostParentSaved(r))
<1> DEFINE todo == request[r]
<1>0. TodoOK(todo) /\ CatalogTodo(todo) /\ MadeType
  BY DEF TypeInv, RequestType, TodoOK
<1>1. ASSUME NEW c \in Customers, NEW in \in Storages, NEW out \in Storages, PostApplication(r, c, in, out)
      PROVE  Acts(r) /\ Creates(r)
  <2> DEFINE on == OnApp(NewApp) \cup {<<"customer", c>>}
             d == [Application(c, "RIGHTSIZER") EXCEPT !.input = in, !.output = out]
             x == [op |-> "create secret", on |-> on, app |-> NewApp, document |-> d]
  <2>1. NewApp \in AppIds
    BY <1>0, <1>1, NewAppId DEF PostApplication
  <2>2. Begin(r, "host", x)
    BY <1>1 DEF PostApplication
  <2>3. x.op = "create secret" /\ x.app = NewApp
    OBVIOUS
  <2>4. made' = [made EXCEPT !.apps = NewApp] /\ UNCHANGED <<apps, parents, secrets, kept, dropped>>
    BY <1>1 DEF PostApplication
  <2> HIDE DEF x
  <2>5. Acts(r) /\ request[r].op = "none" /\ request'[r] = x
    BY <2>2, BeginsWith
  <2> QED  BY <2>1, <2>3, <2>4, <2>5 DEF Creates, Starts
<1>2. ASSUME NEW c \in Customers, PostDojoApplication(r, c)
      PROVE  Acts(r) /\ Creates(r)
  <2> DEFINE x == [op |-> "create secret", on |-> OnApp(NewApp), app |-> NewApp,
                   document |-> Application(c, "DEFECT_DOJO")]
  <2>1. NewApp \in AppIds
    BY <1>0, <1>2, NewAppId DEF PostDojoApplication
  <2>2. Begin(r, "host", x)
    BY <1>2 DEF PostDojoApplication
  <2>3. x.op = "create secret" /\ x.app = NewApp
    OBVIOUS
  <2>4. made' = [made EXCEPT !.apps = NewApp] /\ UNCHANGED <<apps, parents, secrets, kept, dropped>>
    BY <1>2 DEF PostDojoApplication
  <2> HIDE DEF x
  <2>5. Acts(r) /\ request[r].op = "none" /\ request'[r] = x
    BY <2>2, BeginsWith
  <2> QED  BY <2>1, <2>3, <2>4, <2>5 DEF Creates, Starts
<1>3. ASSUME NEW c \in Customers, NEW k \in Keys, PostLicense(r, c, k)
      PROVE  Acts(r) /\ Creates(r)
  <2> DEFINE d == [Application(c, "RIGHTSIZER_LICENSES") EXCEPT !.key = k]
             on == OnApp(NewApp) \cup {<<"license", c, k>>}
             x == [op |-> "save application", on |-> on, app |-> NewApp, document |-> d]
  <2>1. NewApp \in AppIds
    BY <1>0, <1>3, NewAppId DEF PostLicense
  <2>2. Begin(r, "license", x)
    BY <1>3 DEF PostLicense
  <2>3. x.op = "save application" /\ x.app = NewApp /\ x.document = d /\ d.type = "RIGHTSIZER_LICENSES"
    BY DEF Application
  <2>4. made' = [made EXCEPT !.apps = NewApp] /\ UNCHANGED <<apps, parents, secrets, kept, dropped>>
    BY <1>3 DEF PostLicense
  <2> HIDE DEF x, d
  <2>5. Acts(r) /\ request[r].op = "none" /\ request'[r] = x
    BY <2>2, BeginsWith
  <2> QED  BY <2>1, <2>3, <2>4, <2>5 DEF Creates, Starts
<1>4. ASSUME todo.op \in HostOps, NEW op \in HostOps \cup {"ask LM"}
      PROVE  LET x == [todo EXCEPT !.op = op] IN
             x.op = op /\ x.app = todo.app /\ x.on = todo.on /\ x.document = todo.document
  BY <1>0, <1>4 DEF CatalogTodo, HostTodo
<1>5. CASE _create_application_secret(r)
  <2> DEFINE x == [todo EXCEPT !.op = "save application"]
  <2>1. todo.op = "create secret" /\ todo.op \in HostOps /\ "save application" \in HostOps
    BY <1>5 DEF _create_application_secret, HostOps
  <2>2. Continue(r, x) /\ secrets' = secrets \cup {todo.app} /\ UNCHANGED <<apps, parents, made, kept, dropped>>
    BY <1>5 DEF _create_application_secret
  <2>3. x.op = "save application" /\ x.app = todo.app /\ x.on = todo.on /\ x.document = todo.document
    BY <1>4, <2>1
  <2> HIDE DEF x
  <2>4. Acts(r) /\ request'[r] = x
    BY <2>2, ContinuesWith
  <2> QED  BY <2>1, <2>2, <2>3, <2>4 DEF SecretSaved, Goes
<1>6. CASE SaveApplication(r)
  <2> DEFINE x == [todo EXCEPT !.op = "save host parent"]
             y == [todo EXCEPT !.op = "ask LM"]
  <2>1. todo.op = "save application" /\ todo.op \in HostOps /\ "save host parent" \in HostOps
    BY <1>6 DEF SaveApplication, HostOps
  <2>2. /\ apps' = [apps EXCEPT ![todo.app] = todo.document]
        /\ CASE todo.document.type = "RIGHTSIZER"          -> Continue(r, x)
             [] todo.document.type = "DEFECT_DOJO"         -> Finish(r)
             [] todo.document.type = "RIGHTSIZER_LICENSES" -> Continue(r, y)
        /\ UNCHANGED <<parents, secrets, made, kept, dropped>>
    BY <1>6 DEF SaveApplication
  <2>3. /\ x.op = "save host parent" /\ x.app = todo.app /\ x.on = todo.on /\ x.document = todo.document
        /\ y.op = "ask LM" /\ y.app = todo.app /\ y.on = todo.on /\ y.document = todo.document
    BY <1>4, <2>1
  <2>4. todo.document.type \in ApplicationType
    BY <1>0, <2>1 DEF CatalogTodo, HostTodo, ApplicationDoc
  <2> HIDE DEF x, y
  <2>5. \/ todo.document.type = "RIGHTSIZER" /\ Continue(r, x)
        \/ todo.document.type = "DEFECT_DOJO" /\ Finish(r)
        \/ todo.document.type = "RIGHTSIZER_LICENSES" /\ Continue(r, y)
    BY <2>2, <2>4 DEF ApplicationType
  <2>6. \/ todo.document.type = "RIGHTSIZER" /\ Acts(r) /\ request'[r] = x
        \/ todo.document.type = "DEFECT_DOJO" /\ Acts(r) /\ request'[r] = Idle
        \/ todo.document.type = "RIGHTSIZER_LICENSES" /\ Acts(r) /\ request'[r] = y
    BY <2>5, ContinuesWith, FinishesWith
  <2> QED  BY <2>1, <2>2, <2>3, <2>6 DEF ApplicationSaved, Goes
<1>7. CASE SaveHostParent(r)
  <2>1. NewParent \in ParentIds
    BY <1>0, <1>7, NewParentId DEF SaveHostParent
  <2>2. Finish(r) /\ Acts(r) /\ request'[r] = Idle
    BY <1>7, FinishesWith DEF SaveHostParent
  <2> QED  BY <1>7, <2>1, <2>2 DEF SaveHostParent, HostParentSaved, Ends
<1> QED  BY <1>1, <1>2, <1>3, <1>5, <1>6, <1>7

PasswordStarts(r) ==
  /\ Starts(r, {"delete secret", "update application"}) /\ UNCHANGED catalog
  /\ \E a \in AppIds : Active(a, "RIGHTSIZER") /\ request'[r].app = a

SecretDropped(r) ==
  /\ Goes(r, "delete secret", {"replace secret"})
  /\ secrets' = secrets \ {request[r].app} /\ UNCHANGED <<apps, parents, made, kept, dropped>>

SecretReplaced(r) ==
  /\ Goes(r, "replace secret", {"update application"})
  /\ secrets' = secrets \cup {request[r].app} /\ UNCHANGED <<apps, parents, made, kept, dropped>>

\* Of an application that is there, only the storages are changed.
ApplicationUpdated(r) ==
  /\ Ends(r, "update application") /\ UNCHANGED <<parents, secrets, made, kept, dropped>>
  /\ LET a == request[r].app IN
     /\ apps[a] = None => apps' = apps
     /\ apps[a] # None => \E d \in ApplicationDoc :
          /\ apps' = [apps EXCEPT ![a] = d] /\ d.type = apps[a].type /\ d.deleted = apps[a].deleted
          /\ d.algorithms = apps[a].algorithms

LEMMA PasswordEffects ==
  ASSUME TypeInv, NEW r \in Requests,
         \/ \E a \in AppIds, in, out \in Storages \cup {None}, connection \in Connections :
              PatchApplication(r, a, in, out, connection)
         \/ DropSecret(r) \/ ReplaceSecret(r) \/ UpdateApplication(r)
  PROVE  Acts(r) /\ (PasswordStarts(r) \/ SecretDropped(r) \/ SecretReplaced(r) \/ ApplicationUpdated(r))
<1> DEFINE todo == request[r]
<1>0. TodoOK(todo) /\ CatalogTodo(todo) /\ AppsType
  BY DEF TypeInv, RequestType, TodoOK
<1>1. ASSUME NEW a \in AppIds, NEW in \in Storages \cup {None}, NEW out \in Storages \cup {None},
             NEW connection \in Connections, PatchApplication(r, a, in, out, connection)
      PROVE  Acts(r) /\ PasswordStarts(r)
  <2> DEFINE b == in # None \/ out # None \/ connection # "kept"
             i == replaced(in, apps[a].input)
             o == replaced(out, apps[a].output)
             x == [op |-> IF connection = "new password" THEN "delete secret" ELSE "update application", on |-> OnApp(a), app |-> a,
                   storages |-> b, input |-> i, output |-> o]
  <2>1. Begin(r, "host", x) /\ Active(a, "RIGHTSIZER") /\ UNCHANGED catalog
    BY <1>1 DEF PatchApplication
  <2>2. x.op \in {"delete secret", "update application"} /\ x.app = a
    OBVIOUS
  <2> HIDE DEF x
  <2>3. Acts(r) /\ request[r].op = "none" /\ request'[r] = x
    BY <2>1, BeginsWith
  <2> QED  BY <2>1, <2>2, <2>3 DEF PasswordStarts, Starts
<1>2. ASSUME todo.op \in PasswordOps, NEW op \in PasswordOps
      PROVE  LET x == [todo EXCEPT !.op = op] IN x.op = op /\ x.app = todo.app /\ x.on = todo.on
  BY <1>0, <1>2 DEF CatalogTodo, PasswordTodo
<1>3. CASE DropSecret(r)
  <2> DEFINE x == [todo EXCEPT !.op = "replace secret"]
  <2>1. todo.op = "delete secret" /\ todo.op \in PasswordOps /\ "replace secret" \in PasswordOps
    BY <1>3 DEF DropSecret, PasswordOps
  <2>2. Continue(r, x) /\ secrets' = secrets \ {todo.app} /\ UNCHANGED <<apps, parents, made, kept, dropped>>
    BY <1>3 DEF DropSecret, WriteSecret, secret_steps
  <2>3. x.op = "replace secret" /\ x.app = todo.app /\ x.on = todo.on
    BY <1>2, <2>1
  <2> HIDE DEF x
  <2>4. Acts(r) /\ request'[r] = x
    BY <2>2, ContinuesWith
  <2> QED  BY <2>1, <2>2, <2>3, <2>4 DEF SecretDropped, Goes
<1>4. CASE ReplaceSecret(r)
  <2> DEFINE x == [todo EXCEPT !.op = "update application"]
  <2>1. todo.op = "replace secret" /\ todo.op \in PasswordOps /\ "update application" \in PasswordOps
    BY <1>4 DEF ReplaceSecret, PasswordOps
  <2>2. Continue(r, x) /\ secrets' = secrets \cup {todo.app} /\ UNCHANGED <<apps, parents, made, kept, dropped>>
    BY <1>4 DEF ReplaceSecret, WriteSecret, secret_steps
  <2>3. x.op = "update application" /\ x.app = todo.app /\ x.on = todo.on
    BY <1>2, <2>1
  <2> HIDE DEF x
  <2>4. Acts(r) /\ request'[r] = x
    BY <2>2, ContinuesWith
  <2> QED  BY <2>1, <2>2, <2>3, <2>4 DEF SecretReplaced, Goes
<1>5. CASE UpdateApplication(r)
  <2>1. todo.op = "update application" /\ todo.op \in PasswordOps
    BY <1>5 DEF UpdateApplication, PasswordOps
  <2>2. todo.app \in AppIds /\ todo.input \in Storages /\ todo.output \in Storages
    BY <1>0, <2>1 DEF CatalogTodo, PasswordTodo
  <2>3. Acts(r) /\ request'[r] = Idle /\ UNCHANGED <<parents, secrets, made, kept, dropped>>
    BY <1>5, FinishesWith DEF UpdateApplication
  <2>4. /\ apps' = IF apps[todo.app] # None /\ todo.storages
                   THEN [apps EXCEPT ![todo.app].input = todo.input, ![todo.app].output = todo.output]
                   ELSE apps
    BY <1>5 DEF UpdateApplication
  <2>5. ASSUME apps[todo.app] # None
        PROVE  \E d \in ApplicationDoc :
                 /\ apps' = [apps EXCEPT ![todo.app] = d] /\ d.type = apps[todo.app].type
                 /\ d.deleted = apps[todo.app].deleted /\ d.algorithms = apps[todo.app].algorithms
    <3> DEFINE e == apps[todo.app]
    <3>1. e \in ApplicationDoc
      BY <1>0, <2>2, <2>5 DEF AppsType
    <3>2. CASE todo.storages
      <4> DEFINE d == WithStorages(e, todo.input, todo.output)
      <4>1. d \in ApplicationDoc
        BY <2>2, <3>1, DocWithStorages
      <4>2. d.type = e.type /\ d.deleted = e.deleted /\ d.algorithms = e.algorithms
        BY <3>1 DEF WithStorages, ApplicationDoc
      <4>3. apps' = [apps EXCEPT ![todo.app] = d]
        BY <1>0, <2>2, <2>4, <2>5, <3>1, <3>2 DEF AppsType, ApplicationDoc, WithStorages
      <4> HIDE DEF d
      <4> QED  BY <4>1, <4>2, <4>3
    <3>3. CASE ~todo.storages
      <4>1. apps' = [apps EXCEPT ![todo.app] = e]
        BY <1>0, <2>2, <2>4, <3>3 DEF AppsType
      <4> QED  BY <3>1, <4>1
    <3> QED  BY <3>2, <3>3
  <2>6. apps[todo.app] = None => apps' = apps
    BY <2>4
  <2> QED  BY <2>1, <2>3, <2>5, <2>6 DEF ApplicationUpdated, Ends
<1> QED  BY <1>1, <1>3, <1>4, <1>5

\* The parents that the deletion is about, and how it begins.
DeleteStarts(r) ==
  /\ UNCHANGED catalog
  /\ \E a \in AppIds :
       /\ request'[r].app = a /\ request'[r].parents = active_parents(a)
       /\ \/ Starts(r, {"delete parents", "mark application"})
               /\ (Active(a, "RIGHTSIZER") \/ Active(a, "RIGHTSIZER_LICENSES"))
          \/ Starts(r, {"mark parents"}) /\ Active(a, "DEFECT_DOJO")

ParentMarked(r) ==
  /\ Goes(r, "mark parents", {"mark parents"}) /\ request'[r].parents \subseteq request[r].parents
  /\ UNCHANGED <<apps, secrets, made, kept, dropped>>
  /\ \E p \in request[r].parents :
       parents' = IF parents[p] = None THEN parents ELSE [parents EXCEPT ![p].deleted = TRUE]

AllMarked(r) ==
  /\ Goes(r, "mark parents", {"delete parents", "mark application"}) /\ request'[r].parents = {}
  /\ UNCHANGED catalog

ApplicationMarked(r) ==
  /\ Ends(r, "mark application") /\ UNCHANGED <<parents, secrets, made, kept, dropped>>
  /\ apps' = IF apps[request[r].app] = None THEN apps ELSE [apps EXCEPT ![request[r].app].deleted = TRUE]

ParentDeleted(r) ==
  /\ Goes(r, "delete parents", {"delete parents"}) /\ request'[r].parents \subseteq request[r].parents
  /\ UNCHANGED <<apps, secrets, made, kept, dropped>>
  /\ \E p \in request[r].parents : parents' = [parents EXCEPT ![p] = None]

SecretDeleted(r) ==
  /\ Goes(r, "delete parents", {"delete application"})
  /\ secrets' = secrets \ {request[r].app} /\ UNCHANGED <<apps, parents, made, kept, dropped>>

ApplicationDeleted(r) ==
  /\ Ends(r, "delete application") /\ UNCHANGED <<parents, secrets, made, kept, dropped>>
  /\ apps' = [apps EXCEPT ![request[r].app] = None]

LEMMA DeleteEffects ==
  ASSUME TypeInv, NEW r \in Requests,
         \/ \E a \in AppIds, force \in BOOLEAN : DeleteApplication(r, a, force)
         \/ \E a \in AppIds, force \in BOOLEAN : DeleteLicensesApplication(r, a, force)
         \/ \E a \in AppIds, force \in BOOLEAN : DeleteDojoApplication(r, a, force)
         \/ MarkParent(r) \/ AfterMarking(r) \/ MarkApplication(r)
         \/ ForceDeleteParent(r) \/ _delete_application_secret(r) \/ force_delete(r)
  PROVE  /\ Acts(r)
         /\ \/ DeleteStarts(r) \/ ParentMarked(r) \/ AllMarked(r) \/ ApplicationMarked(r)
            \/ ParentDeleted(r) \/ SecretDeleted(r) \/ ApplicationDeleted(r)
<1> DEFINE todo == request[r]
<1>0. TodoOK(todo) /\ CatalogTodo(todo)
  BY DEF TypeInv, RequestType, TodoOK
<1>1. ASSUME NEW a \in AppIds, NEW force \in BOOLEAN, DeleteApplication(r, a, force) \/ DeleteLicensesApplication(r, a, force)
      PROVE  Acts(r) /\ DeleteStarts(r)
  <2> DEFINE on == OnApp(a) \cup UNION {OnParent(p) : p \in active_parents(a)}
             ps == active_parents(a)
             x == [op |-> IF force THEN "delete parents" ELSE "mark application", app |-> a, on |-> on,
                   parents |-> ps]
  <2>1. Begin(r, "host", x) /\ UNCHANGED catalog /\ (Active(a, "RIGHTSIZER") \/ Active(a, "RIGHTSIZER_LICENSES"))
    BY <1>1 DEF StartDelete, DeleteApplication, DeleteLicensesApplication
  <2> HIDE DEF on, ps
  <2>2. x.op \in {"delete parents", "mark application"} /\ x.app = a /\ x.parents = ps
    OBVIOUS
  <2> HIDE DEF x
  <2>3. Acts(r) /\ request[r].op = "none" /\ request'[r] = x
    BY <2>1, BeginsWith
  <2> QED  BY <2>1, <2>2, <2>3 DEF DeleteStarts, Starts, ps
<1>2. ASSUME NEW a \in AppIds, NEW force \in BOOLEAN, DeleteDojoApplication(r, a, force)
      PROVE  Acts(r) /\ DeleteStarts(r)
  <2> DEFINE on == OnApp(a) \cup UNION {OnParent(p) : p \in active_parents(a)}
             ps == active_parents(a)
             x == [op |-> "mark parents", app |-> a, force |-> force, on |-> on, parents |-> ps]
  <2>1. Begin(r, "host", x) /\ UNCHANGED catalog /\ Active(a, "DEFECT_DOJO")
    BY <1>2 DEF DeleteDojoApplication
  <2> HIDE DEF on, ps
  <2>2. x.op = "mark parents" /\ x.app = a /\ x.parents = ps
    OBVIOUS
  <2> HIDE DEF x
  <2>3. Acts(r) /\ request[r].op = "none" /\ request'[r] = x
    BY <2>1, BeginsWith
  <2> QED  BY <2>1, <2>2, <2>3 DEF DeleteStarts, Starts, ps
<1>3. CASE MarkParent(r)
  <2>1. PICK p \in todo.parents :
          /\ parents' = IF parents[p] = None THEN parents ELSE [parents EXCEPT ![p].deleted = TRUE]
          /\ Continue(r, [todo EXCEPT !.parents = @ \ {p}])
    BY <1>3 DEF MarkParent
  <2>2. todo.op = "mark parents" /\ todo \in MarkTodo /\ UNCHANGED <<apps, secrets, made, kept, dropped>>
    BY <1>0, <1>3 DEF MarkParent, CatalogTodo
  <2> DEFINE x == [todo EXCEPT !.parents = @ \ {p}]
  <2>3. x.op = "mark parents" /\ x.app = todo.app /\ x.on = todo.on /\ x.parents \subseteq todo.parents
    BY <2>2 DEF MarkTodo
  <2>4. Continue(r, x)
    BY <2>1
  <2> HIDE DEF x
  <2>5. Acts(r) /\ request'[r] = x
    BY <2>4, ContinuesWith
  <2> QED  BY <2>1, <2>2, <2>3, <2>5 DEF ParentMarked, Goes
<1>4. CASE AfterMarking(r)
  <2> DEFINE x == [op |-> IF todo.force THEN "delete parents" ELSE "mark application",
                   app |-> todo.app, on |-> todo.on, parents |-> {}]
  <2>1. todo.op = "mark parents" /\ Continue(r, x) /\ UNCHANGED catalog
    BY <1>4 DEF AfterMarking
  <2>2. x.op \in {"delete parents", "mark application"} /\ x.app = todo.app /\ x.on = todo.on /\ x.parents = {}
    OBVIOUS
  <2> HIDE DEF x
  <2>3. Acts(r) /\ request'[r] = x
    BY <2>1, ContinuesWith
  <2> QED  BY <2>1, <2>2, <2>3 DEF AllMarked, Goes
<1>5. CASE MarkApplication(r)
  <2>1. Acts(r) /\ request'[r] = Idle
    BY <1>5, FinishesWith DEF MarkApplication
  <2> QED  BY <1>5, <2>1 DEF MarkApplication, ApplicationMarked, Ends
<1>6. CASE ForceDeleteParent(r)
  <2>1. PICK p \in todo.parents :
          parents' = [parents EXCEPT ![p] = None] /\ Continue(r, [todo EXCEPT !.parents = @ \ {p}])
    BY <1>6 DEF ForceDeleteParent
  <2>2. todo.op = "delete parents" /\ todo \in DeleteTodo /\ UNCHANGED <<apps, secrets, made, kept, dropped>>
    BY <1>0, <1>6 DEF ForceDeleteParent, CatalogTodo, DeleteOps
  <2> DEFINE x == [todo EXCEPT !.parents = @ \ {p}]
  <2>3. x.op = "delete parents" /\ x.app = todo.app /\ x.on = todo.on /\ x.parents \subseteq todo.parents
    BY <2>2 DEF DeleteTodo
  <2>4. Continue(r, x)
    BY <2>1
  <2> HIDE DEF x
  <2>5. Acts(r) /\ request'[r] = x
    BY <2>4, ContinuesWith
  <2> QED  BY <2>1, <2>2, <2>3, <2>5 DEF ParentDeleted, Goes
<1>7. CASE _delete_application_secret(r)
  <2> DEFINE x == [todo EXCEPT !.op = "delete application"]
  <2>1. todo.op = "delete parents" /\ todo \in DeleteTodo
    BY <1>0, <1>7 DEF _delete_application_secret, CatalogTodo, DeleteOps
  <2>2. Continue(r, x) /\ secrets' = secrets \ {todo.app} /\ UNCHANGED <<apps, parents, made, kept, dropped>>
    BY <1>7 DEF _delete_application_secret
  <2>3. x.op = "delete application" /\ x.app = todo.app /\ x.on = todo.on
    BY <2>1 DEF DeleteTodo
  <2> HIDE DEF x
  <2>4. Acts(r) /\ request'[r] = x
    BY <2>2, ContinuesWith
  <2> QED  BY <2>1, <2>2, <2>3, <2>4 DEF SecretDeleted, Goes
<1>8. CASE force_delete(r)
  <2>1. Acts(r) /\ request'[r] = Idle
    BY <1>8, FinishesWith DEF force_delete
  <2> QED  BY <1>8, <2>1 DEF force_delete, ApplicationDeleted, Ends
<1> QED  BY <1>1, <1>2, <1>3, <1>4, <1>5, <1>6, <1>7, <1>8

ParentStarts(r) ==
  /\ Starts(r, {"save parent"}) /\ UNCHANGED catalog
  /\ \E a \in AppIds, type \in {"RIGHTSIZER_LICENSES", "DEFECT_DOJO"} :
       Active(a, type) /\ request'[r].document = Parent(a, type)

ParentSaved(r) ==
  /\ Ends(r, "save parent") /\ NewParent \in ParentIds
  /\ made' = [made EXCEPT !.parents = NewParent]
  /\ parents' = [parents EXCEPT ![NewParent] = request[r].document]
  /\ UNCHANGED <<apps, secrets, kept, dropped>>

EditStarts(r) ==
  /\ Starts(r, EditOps) /\ UNCHANGED <<apps, parents, secrets, kept, dropped>>
  /\ made'.apps = made.apps /\ made'.parents = made.parents
  /\ \E p \in ParentIds : of_licensed(p) /\ request'[r].parent = p /\ request'[r].document = parents[p]

\* Groups write the parent as it was read, rules the meta of the one that is there.
MetaSaved(r) ==
  /\ request[r].op \in EditOps /\ request'[r] = Idle /\ UNCHANGED <<apps, secrets, made, dropped>>
  /\ LET x == request[r]  p == x.parent IN
     /\ kept' = [kept EXCEPT ![p] = Applied(@, x.do)]
     /\ \/ parents' = [parents EXCEPT ![p] = [x.document EXCEPT !.meta = Applied(@, x.do)]]
        \/ parents' = IF parents[p] = None THEN parents
                      ELSE [parents EXCEPT ![p].meta = Applied(x.document.meta, x.do)]

LEMMA ParentEffects ==
  ASSUME TypeInv, NEW r \in Requests, ParentStep(r)
  PROVE  Acts(r) /\ (ParentStarts(r) \/ ParentSaved(r) \/ EditStarts(r) \/ MetaSaved(r))
<1>0. MadeType
  BY DEF TypeInv
<1>1. ASSUME NEW a \in AppIds, PostParent(r, a) \/ PostDojoParent(r, a)
      PROVE  Acts(r) /\ ParentStarts(r)
  <2>1. PICK type \in {"RIGHTSIZER_LICENSES", "DEFECT_DOJO"} :
          /\ Active(a, type) /\ UNCHANGED catalog
          /\ Begin(r, "edit", [op |-> "save parent", on |-> OnApp(a), document |-> Parent(a, type)])
    BY <1>1 DEF PostParent, PostDojoParent
  <2> DEFINE d == Parent(a, type)
             x == [op |-> "save parent", on |-> OnApp(a), document |-> d]
  <2>2. Begin(r, "edit", x)
    BY <2>1
  <2> HIDE DEF d
  <2>3. x.op = "save parent" /\ x.document = d
    OBVIOUS
  <2> HIDE DEF x
  <2>4. Acts(r) /\ request[r].op = "none" /\ request'[r] = x
    BY <2>2, BeginsWith
  <2> QED  BY <2>1, <2>3, <2>4 DEF ParentStarts, Starts, d
<1>2. CASE SaveParent(r)
  <2>1. NewParent \in ParentIds
    BY <1>0, <1>2, NewParentId DEF SaveParent
  <2>2. Acts(r) /\ request'[r] = Idle
    BY <1>2, FinishesWith DEF SaveParent
  <2> QED  BY <1>2, <2>1, <2>2 DEF SaveParent, ParentSaved, Ends
<1>3. CASE EditStep(r)
  <2>1. PICK p \in ParentIds, write \in EditOps, do \in Edits :
          /\ of_licensed(p) /\ Edit(r, p, write, do)
          /\ made'.apps = made.apps /\ made'.parents = made.parents
    BY <1>3, EditStepReads
  <2> DEFINE d == parents[p]
             x == [op |-> write, on |-> OnParent(p), parent |-> p, do |-> do, document |-> d]
  <2>2. Begin(r, "edit", x) /\ UNCHANGED <<apps, parents, secrets, kept, dropped>>
    BY <2>1 DEF Edit
  <2> HIDE DEF d
  <2>3. x.op = write /\ x.parent = p /\ x.document = d
    OBVIOUS
  <2> HIDE DEF x
  <2>4. Acts(r) /\ request[r].op = "none" /\ request'[r] = x
    BY <2>2, BeginsWith
  <2> QED  BY <2>1, <2>2, <2>3, <2>4 DEF EditStarts, Starts, d
<1>4. CASE SaveGroup(r)
  <2>1. Acts(r) /\ request'[r] = Idle
    BY <1>4, FinishesWith DEF SaveGroup
  <2> QED  BY <1>4, <2>1 DEF SaveGroup, MetaSaved, EditOps
<1>5. CASE UpdateRules(r)
  <2>1. Acts(r) /\ request'[r] = Idle
    BY <1>5, FinishesWith DEF UpdateRules
  <2> QED  BY <1>5, <2>1 DEF UpdateRules, MetaSaved, EditOps, merged
<1> QED  BY <1>1, <1>2, <1>3, <1>4, <1>5 DEF ParentStep, EditStep

SyncStarts(r) ==
  /\ Starts(r, {"ask LM"}) /\ UNCHANGED <<algorithms, catalog>>
  /\ \E a \in AppIds :
       /\ apps[a] # None /\ apps[a].type = "RIGHTSIZER_LICENSES"
       /\ request'[r].app = a /\ request'[r].document = apps[a]

LicenseAsked(r) ==
  /\ Goes(r, "ask LM", {"update license"}) /\ request'[r].document = request[r].document
  /\ UNCHANGED <<algorithms, catalog>>

LicenseUpdated(r) ==
  /\ Goes(r, "update license", {"sync algorithms"}) /\ request'[r].listed = request[r].listed
  /\ apps' = [apps EXCEPT ![request[r].app] = [request[r].document EXCEPT !.algorithms = request[r].listed]]
  /\ UNCHANGED <<algorithms, parents, secrets, made, kept, dropped>>

AlgorithmFound(r) ==
  /\ Goes(r, "sync algorithms", {"save algorithm"}) /\ UNCHANGED <<algorithms, catalog>>
  /\ \E n \in request[r].listed :
       /\ request'[r].name = n /\ request'[r].listed = request[r].listed \ {n}
       /\ request'[r].id # None => algorithms[n] # None

\* Whether the request goes on, or is refused and ends.
AlgorithmSynced(r) ==
  LET n == request[r].name IN
  /\ request[r].op = "save algorithm" /\ UNCHANGED <<apps, parents, secrets, made, kept>>
  /\ \A m \in Algorithms : algorithms[m] # None => algorithms'[m] # None
  /\ IF request[r].id = None THEN algorithms'[n] # None /\ dropped' = dropped \ {n} ELSE dropped' = dropped
  /\ \/ Goes(r, "save algorithm", {"sync algorithms"}) /\ request'[r].listed = request[r].listed /\ died' = died
     \/ request'[r] = Idle /\ died' = died \cup request[r].on

SyncEnds(r) ==
  /\ request'[r] = Idle /\ UNCHANGED <<algorithms, catalog>>
  /\ request[r].op = "ask LM" \/ (request[r].op = "sync algorithms" /\ request[r].listed = {})

LEMMA SyncEffects ==
  ASSUME TypeInv, NEW r \in Requests,
         \/ \E a \in AppIds : SyncLicense(r, a)
         \/ synchronize_license(r) \/ RefusedByLM(r) \/ update_license(r)
         \/ FindAlgorithm(r) \/ FinishLicenseSync(r)
  PROVE  Acts(r) /\ (SyncStarts(r) \/ LicenseAsked(r) \/ LicenseUpdated(r) \/ AlgorithmFound(r) \/ SyncEnds(r))
<1> DEFINE todo == request[r]
<1>0. TodoOK(todo) /\ CatalogTodo(todo)
  BY DEF TypeInv, RequestType, TodoOK
<1>1. ASSUME NEW a \in AppIds, SyncLicense(r, a)
      PROVE  Acts(r) /\ SyncStarts(r)
  <2> DEFINE d == apps[a]
             x == [op |-> "ask LM", on |-> OnApp(a), app |-> a, document |-> d]
  <2>1. /\ Begin(r, "license", x) /\ UNCHANGED <<algorithms, catalog>>
        /\ apps[a] # None /\ apps[a].type = "RIGHTSIZER_LICENSES"
    BY <1>1 DEF SyncLicense, reference
  <2> HIDE DEF d
  <2>2. x.op = "ask LM" /\ x.app = a /\ x.document = d
    OBVIOUS
  <2> HIDE DEF x
  <2>3. Acts(r) /\ request[r].op = "none" /\ request'[r] = x
    BY <2>1, BeginsWith
  <2> QED  BY <2>1, <2>2, <2>3 DEF SyncStarts, Starts, d
<1>2. CASE synchronize_license(r)
  <2> DEFINE l == Listed[todo.document.key]
             x == [op |-> "update license", on |-> todo.on, app |-> todo.app, document |-> todo.document,
                   listed |-> l]
  <2>1. todo.op = "ask LM" /\ Continue(r, x) /\ UNCHANGED <<algorithms, catalog>>
    BY <1>2 DEF synchronize_license, reference
  <2> HIDE DEF l
  <2>2. x.op = "update license" /\ x.app = todo.app /\ x.on = todo.on /\ x.document = todo.document
    OBVIOUS
  <2> HIDE DEF x
  <2>3. Acts(r) /\ request'[r] = x
    BY <2>1, ContinuesWith
  <2> QED  BY <2>1, <2>2, <2>3 DEF LicenseAsked, Goes
<1>3. CASE RefusedByLM(r) \/ FinishLicenseSync(r)
  <2>1. Acts(r) /\ request'[r] = Idle
    BY <1>3, FinishesWith DEF RefusedByLM, FinishLicenseSync
  <2> QED  BY <1>3, <2>1 DEF RefusedByLM, FinishLicenseSync, SyncEnds, reference
<1>4. CASE update_license(r)
  <2> DEFINE x == [op |-> "sync algorithms", on |-> todo.on, app |-> todo.app, listed |-> todo.listed,
                   customer |-> todo.document.customer, name |-> None, id |-> None]
  <2>1. /\ todo.op = "update license" /\ Continue(r, x)
        /\ apps' = [apps EXCEPT ![todo.app] = [todo.document EXCEPT !.algorithms = todo.listed]]
        /\ UNCHANGED <<algorithms, parents, secrets, made, kept, dropped>>
    BY <1>4 DEF update_license, reference
  <2>2. x.op = "sync algorithms" /\ x.app = todo.app /\ x.on = todo.on /\ x.listed = todo.listed
    OBVIOUS
  <2> HIDE DEF x
  <2>3. Acts(r) /\ request'[r] = x
    BY <2>1, ContinuesWith
  <2> QED  BY <2>1, <2>2, <2>3 DEF LicenseUpdated, Goes
<1>5. CASE FindAlgorithm(r)
  <2>1. PICK n \in todo.listed :
          Continue(r, [todo EXCEPT !.op = "save algorithm", !.listed = @ \ {n}, !.name = n,
                                   !.id = IF algorithms[n] = None THEN None ELSE algorithms[n].id])
    BY <1>5 DEF FindAlgorithm
  <2>2. todo.op = "sync algorithms" /\ todo \in SyncedTodo /\ UNCHANGED <<algorithms, catalog>>
    BY <1>0, <1>5 DEF FindAlgorithm, CatalogTodo, reference
  <2> DEFINE i == IF algorithms[n] = None THEN None ELSE algorithms[n].id
             x == [todo EXCEPT !.op = "save algorithm", !.listed = @ \ {n}, !.name = n, !.id = i]
  <2>3. Continue(r, x) /\ (i # None => algorithms[n] # None)
    BY <2>1
  <2> HIDE DEF i
  <2>4. /\ x.op = "save algorithm" /\ x.app = todo.app /\ x.on = todo.on
        /\ x.name = n /\ x.listed = todo.listed \ {n} /\ x.id = i
    BY <2>2 DEF SyncedTodo
  <2> HIDE DEF x
  <2>5. Acts(r) /\ request'[r] = x
    BY <2>3, ContinuesWith
  <2> QED  BY <2>2, <2>3, <2>4, <2>5 DEF AlgorithmFound, Goes
<1> QED  BY <1>1, <1>2, <1>3, <1>4, <1>5

LEMMA SyncedEffects ==
  ASSUME TypeInv, NEW r \in Requests, SaveSyncedAlgorithm(r)
  PROVE  Moves(r) /\ AlgorithmSynced(r)
<1> DEFINE todo == request[r]
           n == todo.name
           d == [id |-> ids + 1, customer |-> todo.customer, licensed |-> TRUE, settings |-> "issued"]
           x == [todo EXCEPT !.op = "sync algorithms", !.name = None, !.id = None]
<1>0. TodoOK(todo) /\ CatalogTodo(todo) /\ RequestType /\ ids \in Nat
  BY DEF TypeInv, RequestType, TodoOK, ReferenceType
<1>1. todo.op = "save algorithm" /\ UNCHANGED <<apps, parents, secrets, made, kept>>
  BY DEF SaveSyncedAlgorithm
<1>2. todo \in SyncedTodo /\ n \in Algorithms /\ todo.customer \in Customers
  BY <1>0, <1>1 DEF CatalogTodo, SyncedTodo
<1>3. /\ algorithms \in [Algorithms -> AlgorithmDoc \cup {None}] /\ d \in AlgorithmDoc
  BY <1>0, <1>2, AlgorithmIssued DEF TypeInv, ReferenceType, ReferenceOK
<1>4. /\ \A m \in Algorithms : algorithms[m] # None => algorithms'[m] # None
      /\ IF todo.id = None THEN algorithms'[n] # None /\ dropped' = dropped \ {n} ELSE dropped' = dropped
  <2>1. CASE todo.id = None
    <3>1. algorithms' = Created(algorithms, n, d) /\ dropped' = dropped \ {n}
      BY <2>1, Zenon DEF SaveSyncedAlgorithm, created
    <3>2. d # None
      BY <1>3, NoneAssumption
    <3> HIDE DEF d
    <3> QED  BY <1>2, <1>3, <2>1, <3>1, <3>2 DEF Created
  <2>2. CASE todo.id # None
    <3>1. /\ algorithms' = IF Same(algorithms, n, todo.id)
                           THEN [algorithms EXCEPT ![n].settings = "issued"] ELSE algorithms
          /\ dropped' = dropped
      BY <2>2 DEF SaveSyncedAlgorithm
    <3>2. Same(algorithms, n, todo.id) => [algorithms[n] EXCEPT !.settings = "issued"] # None
      <4>1. ASSUME Same(algorithms, n, todo.id)
            PROVE  [algorithms[n] EXCEPT !.settings = "issued"] \in AlgorithmDoc
        <5>1. algorithms[n] \in AlgorithmDoc
          BY <1>2, <1>3, <4>1 DEF Same
        <5> QED  BY <5>1 DEF AlgorithmDoc
      <4> QED  BY <4>1, NoneAssumption
    <3> QED  BY <1>2, <1>3, <2>2, <3>1, <3>2
  <2> QED  BY <2>1, <2>2
<1>5. \/ Continue(r, x)
      \/ died' = died \cup todo.on /\ request' = [request EXCEPT ![r] = Idle] /\ UNCHANGED mixed
  BY DEF SaveSyncedAlgorithm
<1>6. x.op = "sync algorithms" /\ x.app = todo.app /\ x.on = todo.on /\ x.listed = todo.listed
  BY <1>2 DEF SyncedTodo
<1> HIDE DEF x
<1>7. CASE Continue(r, x)
  <2>1. Moves(r) /\ died' = died /\ request'[r] = x
    BY <1>7, ContinuesWith DEF Acts
  <2> QED  BY <1>1, <1>4, <1>6, <2>1 DEF AlgorithmSynced, Goes
<1>8. CASE died' = died \cup todo.on /\ request' = [request EXCEPT ![r] = Idle] /\ UNCHANGED mixed
  <2>1. request'[r] = Idle /\ Idle.on = {}
    BY <1>0, <1>8 DEF RequestType, Idle
  <2>2. Moves(r)
    BY <1>8, <2>1 DEF Moves
  <2> QED  BY <1>1, <1>4, <1>8, <2>1, <2>2 DEF AlgorithmSynced
<1> QED  BY <1>5, <1>7, <1>8

-----------------------------------------------------------------------------
(* Every step of Next, by what it does to the documents                    *)

HostAct(r)     == Creates(r) \/ SecretSaved(r) \/ ApplicationSaved(r) \/ HostParentSaved(r)
PasswordAct(r) == PasswordStarts(r) \/ SecretDropped(r) \/ SecretReplaced(r) \/ ApplicationUpdated(r)
DeleteAct(r)   ==
  \/ DeleteStarts(r) \/ ParentMarked(r) \/ AllMarked(r) \/ ApplicationMarked(r)
  \/ ParentDeleted(r) \/ SecretDeleted(r) \/ ApplicationDeleted(r)
ParentAct(r)   == ParentStarts(r) \/ ParentSaved(r) \/ EditStarts(r) \/ MetaSaved(r)
SyncAct(r)     == SyncStarts(r) \/ LicenseAsked(r) \/ LicenseUpdated(r) \/ AlgorithmFound(r) \/ SyncEnds(r)
CatalogAct(r)  == HostAct(r) \/ PasswordAct(r) \/ DeleteAct(r) \/ ParentAct(r) \/ SyncAct(r)

AlgorithmsKept == \A n \in Algorithms : algorithms[n] # None => algorithms'[n] # None

Died(r) ==
  /\ Moves(r) /\ request'[r] = Idle /\ died' = died \cup request[r].on
  /\ UNCHANGED <<algorithms, catalog>>

Refers(r) == ReferenceMove(r) /\ AlgorithmsKept /\ UNCHANGED catalog

\* Not of a RIGHTSIZER application.
ParentRemoved(p) ==
  /\ Deletes /\ UNCHANGED <<algorithms, apps, secrets, made, kept, dropped>>
  /\ of_licensed(p) \/ of_dojo(p)
  /\ parents' = [parents EXCEPT ![p] = None] \/ parents' = [parents EXCEPT ![p].deleted = TRUE]
  /\ \A r \in Requests : <<"parent", p>> \in request[r].on => <<"parent", p>> \in mixed'

Removed ==
  /\ Deletes /\ UNCHANGED <<apps, parents, secrets, made, kept>>
  /\ \A n \in Algorithms : There(n) => There(n)'

LEMMA ReferenceKeeps ==
  ASSUME TypeInv, NEW r \in Requests, ReferenceStep(r), ~Die(r)
  PROVE  AlgorithmsKept
<1>0. algorithms \in [Algorithms -> AlgorithmDoc \cup {None}] /\ ids \in Nat /\ ReferenceTodo(request[r])
  BY DEF TypeInv, ReferenceType, ReferenceOK, RequestType, TodoOK
<1>1. ASSUME NEW n \in Algorithms, PatchAlgorithm(r, n)
      PROVE  AlgorithmsKept
  BY <1>1 DEF PatchAlgorithm, reference, AlgorithmsKept
<1>2. CASE SaveNewAlgorithm(r)
  <2> DEFINE d == [id |-> ids + 1, customer |-> request[r].customer, licensed |-> FALSE, settings |-> "default"]
  <2>0. request[r].customer \in Customers
    BY <1>0, <1>2 DEF SaveNewAlgorithm, ReferenceTodo
  <2>1. d \in AlgorithmDoc
    BY <1>0, <2>0 DEF AlgorithmDoc
  <2>2. d # None /\ algorithms' = Created(algorithms, request[r].name, d)
    BY <1>2, <2>1, NoneAssumption DEF SaveNewAlgorithm
  <2> HIDE DEF d
  <2> QED  BY <1>0, <2>2 DEF Created, AlgorithmsKept
<1>3. CASE SavePatchedAlgorithm(r)
  <2> DEFINE n == request[r].name
  <2>1. CASE Same(algorithms, n, request[r].id) /\ n \in Algorithms
    <3>1. algorithms[n] \in AlgorithmDoc
      BY <1>0, <2>1 DEF Same
    <3>2. [algorithms[n] EXCEPT !.settings = "own"] \in AlgorithmDoc
      BY <3>1 DEF AlgorithmDoc
    <3>3. algorithms' = [algorithms EXCEPT ![n] = [algorithms[n] EXCEPT !.settings = "own"]]
      BY <1>0, <1>3, <2>1 DEF SavePatchedAlgorithm
    <3> QED  BY <1>0, <3>2, <3>3, NoneAssumption DEF AlgorithmsKept
  <2>2. CASE ~Same(algorithms, n, request[r].id)
    BY <1>3, <2>2 DEF SavePatchedAlgorithm, AlgorithmsKept
  <2> QED  BY <1>0, <1>3, <2>1, <2>2 DEF SavePatchedAlgorithm, ReferenceTodo
<1> QED  BY <1>1, <1>2, <1>3, AlgorithmCases DEF AlgorithmsKept

LEMMA NextCases ==
  ASSUME TypeInv, Next
  PROVE  \/ \E r \in Requests : Died(r) \/ Refers(r)
         \/ \E r \in Requests : Acts(r) /\ CatalogAct(r) /\ UNCHANGED algorithms
         \/ \E r \in Requests : Moves(r) /\ AlgorithmSynced(r)
         \/ \E p \in ParentIds : ParentRemoved(p)
         \/ Removed
<1>1. ASSUME NEW r \in Requests, ReferenceStep(r)
      PROVE  Died(r) \/ Refers(r)
  <2>1. UNCHANGED catalog
    BY <1>1 DEF ReferenceStep
  <2>2. CASE Die(r)
    BY <2>1, <2>2, Deaths DEF Died, reference
  <2>3. CASE ~Die(r)
    BY <1>1, <2>1, <2>3, ReferenceSteps, ReferenceKeeps DEF Refers
  <2> QED  BY <2>2, <2>3
<1>2. ASSUME NEW r \in Requests, ApplicationStep(r) \/ ParentStep(r) \/ LicenseStep(r), ~SaveSyncedAlgorithm(r)
      PROVE  Acts(r) /\ CatalogAct(r) /\ UNCHANGED algorithms
  <2>1. UNCHANGED algorithms
    BY <1>2, CatalogSteps DEF reference
  <2>2. CASE ApplicationStep(r)
    <3>1. Acts(r) /\ (HostAct(r) \/ PasswordAct(r) \/ DeleteAct(r))
      BY <2>2, HostEffects, PasswordEffects, DeleteEffects DEF ApplicationStep, HostAct, PasswordAct, DeleteAct
    <3> QED  BY <2>1, <3>1 DEF CatalogAct
  <2>3. CASE ParentStep(r)
    BY <2>1, <2>3, ParentEffects DEF CatalogAct, ParentAct
  <2>4. CASE LicenseStep(r)
    <3>1. Acts(r) /\ (HostAct(r) \/ SyncAct(r))
      BY <1>2, <2>4, HostEffects, SyncEffects DEF LicenseStep, HostAct, SyncAct
    <3> QED  BY <2>1, <3>1 DEF CatalogAct
  <2> QED  BY <1>2, <2>2, <2>3, <2>4
<1>3. ASSUME NEW p \in ParentIds, NEW force \in BOOLEAN, DeleteParent(p, force) \/ DeleteDojoParent(p, force)
      PROVE  ParentRemoved(p)
  <2>1. of_licensed(p) \/ of_dojo(p)
    BY <1>3 DEF DeleteParent, DeleteDojoParent
  <2>2. /\ Deletes /\ UNCHANGED <<reference, apps, secrets, made, kept, dropped>>
        /\ parents' = [parents EXCEPT ![p] = None] \/ parents' = [parents EXCEPT ![p].deleted = TRUE]
        /\ mixed' = mixed \cup (OnParent(p) \cap UNION {request[q].on : q \in Requests})
    BY <1>3, RemovedParents
  <2>3. \A r \in Requests : <<"parent", p>> \in request[r].on => <<"parent", p>> \in mixed'
    BY <2>2 DEF OnParent
  <2> QED  BY <2>1, <2>2, <2>3 DEF ParentRemoved, reference
<1>4. ASSUME \/ \E s \in Storages : DeleteStorage(s) /\ UNCHANGED catalog
             \/ \E k \in Owners \X Shapes : DeletePrice(k) /\ UNCHANGED catalog
             \/ \E n \in Algorithms : RemoveAlgorithm(n)
      PROVE  Removed
  <2>1. Deletes /\ UNCHANGED <<apps, parents, secrets, made, kept>>
    BY <1>4, Deletions
  <2>2. algorithms \in [Algorithms -> AlgorithmDoc \cup {None}]
    BY DEF TypeInv, ReferenceType, ReferenceOK
  <2>3. \/ UNCHANGED <<algorithms, dropped>>
        \/ \E n \in Algorithms : algorithms' = [algorithms EXCEPT ![n] = None] /\ dropped' = dropped \cup {n}
    BY <1>4 DEF DeleteStorage, DeletePrice, RemoveAlgorithm, DeleteAlgorithm, catalog
  <2>4. \A n \in Algorithms : There(n) => There(n)'
    BY <2>2, <2>3 DEF There
  <2> QED  BY <2>1, <2>4 DEF Removed
<1>5. CASE \E r \in Requests : ReferenceStep(r)
  BY <1>1, <1>5
<1>6. CASE \E r \in Requests : ApplicationStep(r) \/ ParentStep(r) \/ LicenseStep(r)
  BY <1>2, <1>6, SyncedEffects
<1> QED  BY <1>3, <1>4, <1>5, <1>6 DEF Next

-----------------------------------------------------------------------------
(* Two requests on one thing                                               *)

LEMMA OverlapMoves ==
  ASSUME TypeInv, Overlap, NEW r \in Requests, Moves(r)
  PROVE  Overlap'
<1>1. /\ mixed' = mixed \cup (request'[r].on \cap Others(r))
      /\ \A q \in Requests \ {r} : request'[q] = request[q]
  BY DEF TypeInv, RequestType, Moves
<1>2. \A q \in Requests \ {r} : request'[r].on \cap request'[q].on \subseteq mixed'
  BY <1>1 DEF Others
<1>3. ASSUME NEW p \in Requests, NEW q \in Requests, p # q
      PROVE  request'[p].on \cap request'[q].on \subseteq mixed'
  <2>1. CASE p = r
    BY <1>2, <1>3, <2>1
  <2>2. CASE q = r
    BY <1>2, <1>3, <2>2
  <2>3. CASE p # r /\ q # r
    BY <1>1, <1>3, <2>3 DEF Overlap
  <2> QED  BY <2>1, <2>2, <2>3
<1> QED  BY <1>3 DEF Overlap

LEMMA OverlapNext ==
  ASSUME TypeInv, Overlap, [Next]_vars
  PROVE  Overlap'
<1>1. ASSUME Deletes
      PROVE  Overlap'
  BY <1>1 DEF Deletes, Overlap
<1>2. CASE Next
  <2>1. \/ \E r \in Requests : Moves(r)
        \/ Deletes
    BY <1>2, NextCases DEF Died, Refers, ReferenceMove, Acts, ParentRemoved, Removed
  <2> QED  BY <1>1, <2>1, OverlapMoves
<1>3. CASE UNCHANGED vars
  BY <1>3 DEF vars, control, Overlap
<1> QED  BY <1>2, <1>3

LEMMA InitOverlap ==
  ASSUME Init
  PROVE  Overlap
  BY IdleOp DEF Init, Overlap

-----------------------------------------------------------------------------
(* Every step keeps the agreement                                          *)

LEMMA AgreementIdle ==
  ASSUME TypeInv, NEW t, NEW h, Agreement(t, h), NEW r \in Requests, Moves(r), UNCHANGED <<apps, parents, made>>,
         TodoAgrees(request'[r], t, h, Apps, Parents)
  PROVE  Agreed'
<1>1. Grows /\ MadeType
  BY StaysGrows DEF TypeInv
<1>2. TodoAgrees(request'[r], t, h, Apps', Parents')
  BY <1>1, GrowsSets, TodoAgreesGrows
<1>3. AppsAgree(t)' /\ ParentsAgree(t, h)'
  BY <1>1, AppsAgreeStay, ParentsAgreeStay DEF Agreement
<1>4. Agreement(t, h)'
  BY <1>1, <1>2, <1>3, AgreementMoves
<1> QED  BY <1>4 DEF Agreed

\* One application or one parent is written, and none is created.
LEMMA AgreementSaved ==
  ASSUME TypeInv, NEW t, NEW h, Agreement(t, h), NEW r \in Requests, Moves(r), UNCHANGED made,
         TodoAgrees(request'[r], t, h, Apps, Parents),
         \/ UNCHANGED apps
         \/ \E a \in AppIds : \E d : apps' = [apps EXCEPT ![a] = d] /\ (d # None => a \in Apps /\ d.type = t[a]),
         \/ UNCHANGED parents
         \/ \E p \in ParentIds : \E d : parents' = [parents EXCEPT ![p] = d] /\ (d # None =>
              /\ p \in Parents /\ h[p] = d.application /\ ParentAgrees(d, t, Apps)
              /\ d.meta # {} => d.type = "RIGHTSIZER_LICENSES")
  PROVE  Agreed'
<1>1. Grows /\ MadeType
  BY StaysGrows DEF TypeInv
<1>2. Apps \subseteq Apps' /\ Parents \subseteq Parents' /\ TodoAgrees(request'[r], t, h, Apps', Parents')
  BY <1>1, GrowsSets, TodoAgreesGrows
<1>3. AppsAgree(t)'
  <2>1. CASE UNCHANGED apps
    BY <1>1, <2>1, AppsAgreeStay DEF Agreement
  <2>2. ASSUME NEW a \in AppIds, NEW d, apps' = [apps EXCEPT ![a] = d], d # None => a \in Apps /\ d.type = t[a]
        PROVE  AppsAgree(t)'
    <3>1. apps'[a] = d /\ \A b \in AppIds \ {a} : apps'[b] = apps[b]
      BY <2>2 DEF TypeInv, AppsType
    <3> QED  BY <1>1, <1>2, <2>2, <3>1, AppsAgreeSaved DEF Agreement
  <2> QED  BY <2>1, <2>2
<1>4. ParentsAgree(t, h)'
  <2>1. CASE UNCHANGED parents
    BY <1>1, <2>1, ParentsAgreeStay DEF Agreement
  <2>2. ASSUME NEW p \in ParentIds, NEW d, parents' = [parents EXCEPT ![p] = d],
               d # None => /\ p \in Parents /\ h[p] = d.application /\ ParentAgrees(d, t, Apps)
                           /\ d.meta # {} => d.type = "RIGHTSIZER_LICENSES"
        PROVE  ParentsAgree(t, h)'
    <3>1. parents'[p] = d /\ \A q \in ParentIds \ {p} : parents'[q] = parents[q]
      BY <2>2 DEF TypeInv, ParentsType
    <3>2. ParentAgrees(d, t, Apps) => ParentAgrees(d, t, Apps')
      BY <1>2 DEF ParentAgrees
    <3> QED  BY <1>1, <1>2, <2>2, <3>1, <3>2, ParentsAgreeSaved DEF Agreement
  <2> QED  BY <2>1, <2>2
<1>5. Agreement(t, h)'
  BY <1>1, <1>2, <1>3, <1>4, AgreementMoves
<1> QED  BY <1>5 DEF Agreed

\* A parent is created for an application that was.
LEMMA AgreementParent ==
  ASSUME TypeInv, NEW t, NEW h, Agreement(t, h), NEW r \in Requests, Moves(r), request'[r] = Idle,
         UNCHANGED apps, made' = [made EXCEPT !.parents = NewParent], NewParent \in ParentIds,
         NEW d, parents' = [parents EXCEPT ![NewParent] = d], d.meta = {}, ParentAgrees(d, t, Apps)
  PROVE  Agreed'
<1>0. PICK g : g = [h EXCEPT ![NewParent] = d.application]
  OBVIOUS
<1>1. Grows /\ NewParent \in Parents' /\ Apps' = Apps /\ MadeType
  BY NewParentGrows DEF TypeInv
<1>2. d.application \in AppIds
  BY MadeSets DEF TypeInv, ParentAgrees
<1>3. Agreement(t, g) /\ g[NewParent] = d.application
  <2>1. Agreement(t, [h EXCEPT ![NewParent] = d.application])
    BY <1>1, <1>2, HomeChosen
  <2> QED  BY <1>0, <2>1 DEF Agreement
<1>4. AppsAgree(t)'
  BY <1>1, <1>3, AppsAgreeStay DEF Agreement
<1>5. parents'[NewParent] = d /\ \A q \in ParentIds \ {NewParent} : parents'[q] = parents[q]
  BY DEF TypeInv, ParentsType
<1>6. ParentsAgree(t, g)'
  BY <1>1, <1>3, <1>5, ParentsAgreeSaved DEF Agreement
<1>7. TodoAgrees(request'[r], t, g, Apps', Parents')
  BY IdleAgrees, IdleOp
<1>8. Agreement(t, g)'
  BY <1>1, <1>3, <1>4, <1>6, <1>7, AgreementMoves
<1> QED  BY <1>8 DEF Agreed

LEMMA AgreementHost ==
  ASSUME TypeInv, TypeInv', NEW t, NEW h, Agreement(t, h), NEW r \in Requests, Moves(r), HostAct(r)
  PROVE  Agreed'
<1> DEFINE x == request[r]
           y == request'[r]
<1>0. /\ MadeType /\ TodoAgrees(x, t, h, Apps, Parents) /\ CatalogTodo(x)
      /\ Apps \subseteq AppIds /\ t \in [AppIds -> ApplicationType] /\ TodoOK(y)
  BY MadeSets DEF TypeInv, Agreement, RequestType, TodoOK
<1>1. CASE Creates(r)
  <2> DEFINE k == y.document.type
  <2>0. PICK u : u = [t EXCEPT ![NewApp] = k]
    OBVIOUS
  <2>1. /\ y.op \in {"create secret", "save application"} /\ y.app = NewApp /\ NewApp \in AppIds
        /\ made' = [made EXCEPT !.apps = NewApp] /\ UNCHANGED <<apps, parents>>
    BY <1>1 DEF Creates, Starts
  <2>2. k \in ApplicationType
    BY <1>0, <2>1 DEF TodoOK, CatalogTodo, HostOps, HostTodo, ApplicationDoc
  <2>3. Grows /\ NewApp \in Apps' /\ Parents' = Parents
    BY <1>0, <2>1, NewAppGrows
  <2>4. Agreement(u, h) /\ u[NewApp] = k
    BY <1>0, <2>0, <2>1, <2>2, TypeChosen
  <2>5. TodoAgrees(y, u, h, Apps', Parents')
    BY <2>1, <2>3, <2>4 DEF TodoAgrees, HostOps, PasswordOps, LicenseOps, EditOps
  <2>6. AppsAgree(u)' /\ ParentsAgree(u, h)'
    BY <1>0, <2>1, <2>3, <2>4, AppsAgreeStay, ParentsAgreeStay DEF Agreement
  <2>7. Agreement(u, h)'
    BY <2>3, <2>4, <2>5, <2>6, AgreementMoves
  <2> QED  BY <2>7 DEF Agreed
<1>2. CASE SecretSaved(r)
  <2>1. /\ x.op = "create secret" /\ y.op = "save application" /\ y.app = x.app /\ y.document = x.document
        /\ UNCHANGED <<apps, parents, made>>
    BY <1>2 DEF SecretSaved, Goes
  <2>2. TodoAgrees(y, t, h, Apps, Parents)
    BY <1>0, <2>1 DEF TodoAgrees, HostOps, PasswordOps, LicenseOps, EditOps, AppOps
  <2> QED  BY <2>1, <2>2, AgreementIdle
<1>3. CASE ApplicationSaved(r)
  <2>1. x.op = "save application" /\ UNCHANGED <<parents, made>> /\ apps' = [apps EXCEPT ![x.app] = x.document]
    BY <1>3 DEF ApplicationSaved
  <2>2. x.app \in Apps /\ x.document.type = t[x.app] /\ x.app \in AppIds
    BY <1>0, <2>1 DEF TodoAgrees, HostOps, AppOps
  <2>3. TodoAgrees(y, t, h, Apps, Parents)
    <3>1. CASE y = Idle
      BY <3>1, IdleAgrees, IdleOp
    <3>2. CASE /\ y.op \in {"save host parent", "ask LM"} /\ y.app = x.app /\ y.document = x.document
               /\ y.op = "ask LM" => x.document.type = "RIGHTSIZER_LICENSES"
      BY <2>2, <3>2 DEF TodoAgrees, HostOps, PasswordOps, LicenseOps, EditOps, AppOps
    <3> QED  BY <1>3, <3>1, <3>2 DEF ApplicationSaved, Goes
  <2> QED  BY <2>1, <2>2, <2>3, AgreementSaved
<1>4. CASE HostParentSaved(r)
  <2> DEFINE d == Parent(x.app, "RIGHTSIZER_PARENT")
  <2>1. /\ x.op = "save host parent" /\ y = Idle /\ UNCHANGED apps
        /\ NewParent \in ParentIds /\ made' = [made EXCEPT !.parents = NewParent]
        /\ parents' = [parents EXCEPT ![NewParent] = d]
    BY <1>4 DEF HostParentSaved, Ends
  <2>2. d.application = x.app /\ d.type = "RIGHTSIZER_PARENT" /\ d.meta = {}
    BY DEF Parent
  <2>3. x.app \in Apps /\ x.document.type = t[x.app] /\ x.document.type = "RIGHTSIZER"
    BY <1>0, <2>1 DEF TodoAgrees, CatalogTodo, HostOps, AppOps
  <2> HIDE DEF d
  <2>4. ParentAgrees(d, t, Apps)
    BY <2>2, <2>3 DEF ParentAgrees, Kind
  <2> QED  BY <2>1, <2>2, <2>4, AgreementParent
<1> QED  BY <1>1, <1>2, <1>3, <1>4 DEF HostAct

LEMMA AgreementPassword ==
  ASSUME TypeInv, NEW t, NEW h, Agreement(t, h), NEW r \in Requests, Moves(r), PasswordAct(r)
  PROVE  Agreed'
<1> DEFINE x == request[r]
           y == request'[r]
<1>0. TodoAgrees(x, t, h, Apps, Parents) /\ CatalogTodo(x) /\ AppsAgree(t)
  BY DEF TypeInv, Agreement, RequestType, TodoOK
<1>1. ASSUME y.op \in PasswordOps, y.app \in Apps, t[y.app] = "RIGHTSIZER"
      PROVE  TodoAgrees(y, t, h, Apps, Parents)
  BY <1>1 DEF TodoAgrees, HostOps, PasswordOps, LicenseOps, EditOps
<1>2. x.op \in PasswordOps => x.app \in Apps /\ t[x.app] = "RIGHTSIZER" /\ x.app \in AppIds
  BY <1>0 DEF TodoAgrees, CatalogTodo, PasswordTodo, AppOps
<1>3. CASE PasswordStarts(r)
  <2>1. y.op \in PasswordOps /\ UNCHANGED <<apps, parents, made>>
    BY <1>3 DEF PasswordStarts, Starts, PasswordOps, catalog
  <2>2. y.app \in Apps /\ t[y.app] = "RIGHTSIZER"
    BY <1>0, <1>3 DEF PasswordStarts, Active, AppsAgree
  <2> QED  BY <1>1, <2>1, <2>2, AgreementIdle
<1>4. CASE SecretDropped(r) \/ SecretReplaced(r)
  <2>1. x.op \in PasswordOps /\ y.op \in PasswordOps /\ y.app = x.app /\ UNCHANGED <<apps, parents, made>>
    BY <1>4 DEF SecretDropped, SecretReplaced, Goes, PasswordOps
  <2> QED  BY <1>1, <1>2, <2>1, AgreementIdle
<1>5. CASE ApplicationUpdated(r)
  <2>1. x.op \in PasswordOps /\ y = Idle /\ UNCHANGED <<parents, made>>
    BY <1>5 DEF ApplicationUpdated, Ends, PasswordOps
  <2>2. TodoAgrees(y, t, h, Apps, Parents)
    BY <2>1, IdleAgrees, IdleOp
  <2>3. CASE apps[x.app] = None
    <3>1. UNCHANGED apps
      BY <1>5, <2>3 DEF ApplicationUpdated
    <3> QED  BY <2>1, <2>2, <3>1, AgreementSaved
  <2>4. CASE apps[x.app] # None
    <3>1. PICK d : apps' = [apps EXCEPT ![x.app] = d] /\ d.type = apps[x.app].type
      BY <1>5, <2>4 DEF ApplicationUpdated
    <3>2. x.app \in AppIds /\ x.app \in Apps /\ d.type = t[x.app]
      BY <1>0, <1>2, <2>1, <2>4, <3>1 DEF AppsAgree
    <3> QED  BY <2>1, <2>2, <3>1, <3>2, AgreementSaved
  <2> QED  BY <2>3, <2>4
<1> QED  BY <1>3, <1>4, <1>5 DEF PasswordAct

LEMMA AgreementDelete ==
  ASSUME TypeInv, NEW t, NEW h, Agreement(t, h), NEW r \in Requests, Moves(r), DeleteAct(r)
  PROVE  Agreed'
<1> DEFINE x == request[r]
           y == request'[r]
<1>0. /\ TodoAgrees(x, t, h, Apps, Parents) /\ CatalogTodo(x) /\ AppsAgree(t) /\ ParentsAgree(t, h)
      /\ AppsType /\ ParentsType
  BY DEF TypeInv, Agreement, RequestType, TodoOK
<1>1. ASSUME y.op \in DeleteOps \cup {"mark parents"}, y.app \in Apps,
             y.op = "mark parents" => t[y.app] = "DEFECT_DOJO",
             y.op \in {"delete parents", "mark parents"} => \A p \in y.parents : p \in Parents /\ h[p] = y.app
      PROVE  TodoAgrees(y, t, h, Apps, Parents)
  BY <1>1 DEF TodoAgrees, HostOps, PasswordOps, LicenseOps, EditOps, DeleteOps
<1>2. x.op \in DeleteOps \cup {"mark parents"} => x.app \in Apps /\ x.app \in AppIds
  BY <1>0 DEF TodoAgrees, CatalogTodo, DeleteTodo, MarkTodo, AppOps
<1>3. x.op = "mark parents" => t[x.app] = "DEFECT_DOJO"
  BY <1>0 DEF TodoAgrees
<1>4. x.op \in {"delete parents", "mark parents"} =>
        \A p \in x.parents : p \in Parents /\ h[p] = x.app /\ p \in ParentIds
  BY <1>0 DEF TodoAgrees, CatalogTodo, DeleteTodo, MarkTodo, DeleteOps
<1>5. y = Idle => TodoAgrees(y, t, h, Apps, Parents)
  BY IdleAgrees, IdleOp
<1>6. CASE DeleteStarts(r)
  <2>1. PICK a \in AppIds :
          /\ y.app = a /\ y.parents = active_parents(a) /\ apps[a] # None
          /\ y.op \in DeleteOps \cup {"mark parents"}
          /\ y.op = "mark parents" => apps[a].type = "DEFECT_DOJO"
    BY <1>6 DEF DeleteStarts, Starts, Active, DeleteOps
  <2>2. a \in Apps /\ apps[a].type = t[a]
    BY <1>0, <2>1 DEF AppsAgree
  <2>3. \A p \in active_parents(a) : p \in Parents /\ h[p] = a
    BY <1>0 DEF active_parents, ParentsAgree
  <2>4. TodoAgrees(y, t, h, Apps, Parents)
    BY <1>1, <2>1, <2>2, <2>3
  <2> QED  BY <1>6, <2>4, AgreementIdle DEF DeleteStarts, catalog
<1>7. CASE ParentMarked(r)
  <2>1. /\ x.op = "mark parents" /\ y.op = "mark parents" /\ y.app = x.app /\ y.parents \subseteq x.parents
        /\ UNCHANGED <<apps, made>>
    BY <1>7 DEF ParentMarked, Goes
  <2>2. TodoAgrees(y, t, h, Apps, Parents)
    BY <1>1, <1>2, <1>3, <1>4, <2>1
  <2>3. PICK p \in x.parents : parents' = IF parents[p] = None THEN parents ELSE [parents EXCEPT ![p].deleted = TRUE]
    BY <1>7 DEF ParentMarked
  <2>4. CASE parents[p] = None
    BY <2>1, <2>2, <2>3, <2>4, AgreementSaved
  <2>5. CASE parents[p] # None
    <3> DEFINE e == parents[p]
    <3>0. p \in ParentIds
      BY <1>4, <2>1
    <3>1. PICK d : d = [e EXCEPT !.deleted = TRUE]
      OBVIOUS
    <3>2. e \in ParentDoc /\ parents' = [parents EXCEPT ![p] = d]
      BY <1>0, <2>3, <2>5, <3>0, <3>1 DEF ParentsType
    <3>3. d.application = e.application /\ d.type = e.type /\ d.meta = e.meta
      BY <3>1, <3>2 DEF ParentDoc
    <3>4. /\ p \in Parents /\ h[p] = d.application /\ ParentAgrees(d, t, Apps)
          /\ d.meta # {} => d.type = "RIGHTSIZER_LICENSES"
      BY <1>0, <2>5, <3>0, <3>3 DEF ParentsAgree, ParentAgrees
    <3> QED  BY <2>1, <2>2, <3>0, <3>2, <3>4, AgreementSaved
  <2> QED  BY <2>4, <2>5
<1>8. CASE AllMarked(r)
  <2>1. /\ x.op = "mark parents" /\ y.op \in {"delete parents", "mark application"} /\ y.app = x.app
        /\ y.parents = {} /\ UNCHANGED <<apps, parents, made>>
    BY <1>8 DEF AllMarked, Goes, catalog
  <2>2. TodoAgrees(y, t, h, Apps, Parents)
    BY <1>1, <1>2, <2>1 DEF DeleteOps
  <2> QED  BY <2>1, <2>2, AgreementIdle
<1>9. CASE ApplicationMarked(r)
  <2>1. x.op = "mark application" /\ y = Idle /\ UNCHANGED <<parents, made>>
    BY <1>9 DEF ApplicationMarked, Ends
  <2>2. x.app \in Apps /\ x.app \in AppIds
    BY <1>2, <2>1 DEF DeleteOps
  <2>3. CASE apps[x.app] = None
    <3>1. UNCHANGED apps
      BY <1>9, <2>3 DEF ApplicationMarked
    <3> QED  BY <1>5, <2>1, <3>1, AgreementSaved
  <2>4. CASE apps[x.app] # None
    <3>1. PICK d : d = [apps[x.app] EXCEPT !.deleted = TRUE]
      OBVIOUS
    <3>2. apps[x.app] \in ApplicationDoc /\ apps' = [apps EXCEPT ![x.app] = d]
      BY <1>0, <1>9, <2>2, <2>4, <3>1 DEF ApplicationMarked, AppsType
    <3>3. d.type = t[x.app]
      BY <1>0, <2>2, <2>4, <3>1, <3>2 DEF AppsAgree, ApplicationDoc
    <3> QED  BY <1>5, <2>1, <2>2, <3>2, <3>3, AgreementSaved
  <2> QED  BY <2>3, <2>4
<1>10. CASE ParentDeleted(r)
  <2>1. /\ x.op = "delete parents" /\ y.op = "delete parents" /\ y.app = x.app /\ y.parents \subseteq x.parents
        /\ UNCHANGED <<apps, made>>
    BY <1>10 DEF ParentDeleted, Goes
  <2>2. TodoAgrees(y, t, h, Apps, Parents)
    BY <1>1, <1>2, <1>4, <2>1 DEF DeleteOps
  <2>3. PICK p \in x.parents : parents' = [parents EXCEPT ![p] = None]
    BY <1>10 DEF ParentDeleted
  <2>4. p \in ParentIds
    BY <1>4, <2>1
  <2> QED  BY <2>1, <2>2, <2>3, <2>4, AgreementSaved
<1>11. CASE SecretDeleted(r)
  <2>1. x.op = "delete parents" /\ y.op = "delete application" /\ y.app = x.app /\ UNCHANGED <<apps, parents, made>>
    BY <1>11 DEF SecretDeleted, Goes
  <2>2. TodoAgrees(y, t, h, Apps, Parents)
    BY <1>1, <1>2, <2>1 DEF DeleteOps
  <2> QED  BY <2>1, <2>2, AgreementIdle
<1>12. CASE ApplicationDeleted(r)
  <2>1. /\ x.op = "delete application" /\ y = Idle /\ UNCHANGED <<parents, made>>
        /\ apps' = [apps EXCEPT ![x.app] = None]
    BY <1>12 DEF ApplicationDeleted, Ends
  <2>2. x.app \in AppIds
    BY <1>2, <2>1 DEF DeleteOps
  <2> QED  BY <1>5, <2>1, <2>2, AgreementSaved
<1> QED  BY <1>6, <1>7, <1>8, <1>9, <1>10, <1>11, <1>12 DEF DeleteAct

LEMMA AgreementParents ==
  ASSUME TypeInv, NEW t, NEW h, Agreement(t, h), NEW r \in Requests, Moves(r), ParentAct(r)
  PROVE  Agreed'
<1> DEFINE x == request[r]
           y == request'[r]
<1>0. /\ TodoAgrees(x, t, h, Apps, Parents) /\ CatalogTodo(x) /\ AppsAgree(t) /\ ParentsAgree(t, h)
      /\ AppsType /\ ParentsType /\ MadeType
  BY DEF TypeInv, Agreement, RequestType, TodoOK
<1>1. CASE ParentStarts(r)
  <2>1. PICK a \in AppIds, type \in {"RIGHTSIZER_LICENSES", "DEFECT_DOJO"} :
          Active(a, type) /\ y.document = Parent(a, type)
    BY <1>1 DEF ParentStarts
  <2>2. a \in Apps /\ t[a] = type
    BY <1>0, <2>1 DEF Active, AppsAgree
  <2>3. ParentAgrees(y.document, t, Apps)
    BY <2>1, <2>2 DEF ParentAgrees, Parent, Kind
  <2>4. y.op = "save parent" /\ UNCHANGED <<apps, parents, made>>
    BY <1>1 DEF ParentStarts, Starts, catalog
  <2>5. TodoAgrees(y, t, h, Apps, Parents)
    BY <2>3, <2>4 DEF TodoAgrees, HostOps, PasswordOps, LicenseOps, EditOps, DeleteOps, AppOps
  <2> QED  BY <2>4, <2>5, AgreementIdle
<1>2. CASE ParentSaved(r)
  <2>1. /\ x.op = "save parent" /\ y = Idle /\ UNCHANGED apps
        /\ NewParent \in ParentIds /\ made' = [made EXCEPT !.parents = NewParent]
        /\ parents' = [parents EXCEPT ![NewParent] = x.document]
    BY <1>2 DEF ParentSaved, Ends
  <2>2. PICK d : d = x.document
    OBVIOUS
  <2>3. d.meta = {} /\ ParentAgrees(d, t, Apps)
    BY <1>0, <2>1, <2>2 DEF TodoAgrees, CatalogTodo
  <2> QED  BY <2>1, <2>2, <2>3, AgreementParent
<1>3. CASE EditStarts(r)
  <2>1. PICK p \in ParentIds : of_licensed(p) /\ y.parent = p /\ y.document = parents[p]
    BY <1>3 DEF EditStarts
  <2>2. y.op \in EditOps /\ UNCHANGED <<apps, parents>> /\ made'.apps = made.apps /\ made'.parents = made.parents
    BY <1>3 DEF EditStarts, Starts
  <2>3. /\ p \in Parents /\ h[p] = parents[p].application /\ ParentAgrees(parents[p], t, Apps)
        /\ parents[p].application \in AppIds
    BY <1>0, <2>1, MadeSets DEF of_licensed, ParentsAgree, ParentAgrees
  <2>4. t[parents[p].application] = "RIGHTSIZER_LICENSES"
    BY <1>0, <2>1, <2>3 DEF of_licensed, Active, AppsAgree
  <2>5. parents[p].type = "RIGHTSIZER_LICENSES"
    BY <2>3, <2>4 DEF ParentAgrees, Kind
  <2>6. TodoAgrees(y, t, h, Apps, Parents)
    BY <2>1, <2>2, <2>3, <2>5 DEF TodoAgrees, HostOps, PasswordOps, LicenseOps, EditOps, DeleteOps, AppOps
  <2>7. Grows
    BY <1>0, <2>2, StaysGrows
  <2>8. TodoAgrees(y, t, h, Apps', Parents')
    BY <1>0, <2>6, <2>7, GrowsSets, TodoAgreesGrows
  <2>9. AppsAgree(t)' /\ ParentsAgree(t, h)'
    BY <1>0, <2>2, <2>7, AppsAgreeStay, ParentsAgreeStay
  <2>10. Agreement(t, h)'
    BY <2>7, <2>8, <2>9, AgreementMoves
  <2> QED  BY <2>10 DEF Agreed
<1>4. CASE MetaSaved(r)
  <2> DEFINE p == x.parent
  <2>1. x.op \in EditOps /\ y = Idle /\ UNCHANGED <<apps, made>>
    BY <1>4 DEF MetaSaved
  <2>2. TodoAgrees(y, t, h, Apps, Parents)
    BY <2>1, IdleAgrees, IdleOp
  <2>3. /\ p \in ParentIds /\ p \in Parents /\ h[p] = x.document.application /\ x.document \in ParentDoc
        /\ x.document.type = "RIGHTSIZER_LICENSES" /\ ParentAgrees(x.document, t, Apps)
    BY <1>0, <2>1 DEF TodoAgrees, CatalogTodo, EditTodo
  <2>4. CASE parents' = [parents EXCEPT ![p] = [x.document EXCEPT !.meta = Applied(@, x.do)]]
    <3>1. PICK d : d = [x.document EXCEPT !.meta = Applied(@, x.do)]
      OBVIOUS
    <3>2. d.application = x.document.application /\ d.type = x.document.type
      BY <2>3, <3>1 DEF ParentDoc
    <3>3. /\ p \in Parents /\ h[p] = d.application /\ ParentAgrees(d, t, Apps)
          /\ d.type = "RIGHTSIZER_LICENSES"
      BY <2>3, <3>2 DEF ParentAgrees
    <3>4. parents' = [parents EXCEPT ![p] = d]
      BY <2>4, <3>1
    <3> QED  BY <2>1, <2>2, <2>3, <3>3, <3>4, AgreementSaved
  <2>5. CASE parents[p] = None /\ parents' = parents
    BY <2>1, <2>2, <2>5, AgreementSaved
  <2>6. CASE parents[p] # None /\ parents' = [parents EXCEPT ![p].meta = Applied(x.document.meta, x.do)]
    <3> DEFINE e == parents[p]
    <3>1. PICK d : d = [e EXCEPT !.meta = Applied(x.document.meta, x.do)]
      OBVIOUS
    <3>2. e \in ParentDoc /\ parents' = [parents EXCEPT ![p] = d]
      BY <1>0, <2>3, <2>6, <3>1 DEF ParentsType
    <3>3. d.application = e.application /\ d.type = e.type
      BY <3>1, <3>2 DEF ParentDoc
    <3>4. h[p] = e.application /\ ParentAgrees(e, t, Apps)
      BY <1>0, <2>3, <2>6 DEF ParentsAgree
    <3>5. e.type = "RIGHTSIZER_LICENSES"
      BY <2>3, <3>4 DEF ParentAgrees, Kind
    <3>6. p \in Parents /\ h[p] = d.application /\ ParentAgrees(d, t, Apps) /\ d.type = "RIGHTSIZER_LICENSES"
      BY <2>3, <3>3, <3>4, <3>5 DEF ParentAgrees
    <3> QED  BY <2>1, <2>2, <2>3, <3>2, <3>6, AgreementSaved
  <2> QED  BY <1>4, <2>4, <2>5, <2>6 DEF MetaSaved
<1> QED  BY <1>1, <1>2, <1>3, <1>4 DEF ParentAct

LEMMA AgreementSync ==
  ASSUME TypeInv, NEW t, NEW h, Agreement(t, h), NEW r \in Requests, Moves(r), SyncAct(r) \/ AlgorithmSynced(r)
  PROVE  Agreed'
<1> DEFINE x == request[r]
           y == request'[r]
<1>0. TodoAgrees(x, t, h, Apps, Parents) /\ CatalogTodo(x) /\ AppsAgree(t) /\ TodoOK(x)
  BY DEF TypeInv, Agreement, RequestType, TodoOK
<1>1. ASSUME y.op \in LicenseOps, y.app \in Apps, t[y.app] = "RIGHTSIZER_LICENSES",
             y.op \in {"ask LM", "update license"} => y.document.type = t[y.app]
      PROVE  TodoAgrees(y, t, h, Apps, Parents)
  BY <1>1 DEF TodoAgrees, HostOps, PasswordOps, LicenseOps, EditOps
<1>2. x.op \in LicenseOps =>
        /\ x.app \in Apps /\ x.app \in AppIds /\ t[x.app] = "RIGHTSIZER_LICENSES"
        /\ x.op \in {"ask LM", "update license"} => x.document.type = t[x.app]
  BY <1>0 DEF TodoAgrees, CatalogTodo, AskTodo, UpdateTodo, SyncedTodo, AppOps, LicenseOps
<1>3. y = Idle => TodoAgrees(y, t, h, Apps, Parents)
  BY IdleAgrees, IdleOp
<1>4. CASE SyncStarts(r)
  <2>1. PICK a \in AppIds :
          apps[a] # None /\ apps[a].type = "RIGHTSIZER_LICENSES" /\ y.app = a /\ y.document = apps[a]
    BY <1>4 DEF SyncStarts
  <2>2. y.op = "ask LM" /\ UNCHANGED <<apps, parents, made>>
    BY <1>4 DEF SyncStarts, Starts, catalog
  <2>3. a \in Apps /\ apps[a].type = t[a]
    BY <1>0, <2>1 DEF AppsAgree
  <2> QED  BY <1>1, <2>1, <2>2, <2>3, AgreementIdle DEF LicenseOps
<1>5. CASE LicenseAsked(r)
  <2>1. /\ x.op = "ask LM" /\ y.op = "update license" /\ y.app = x.app /\ y.document = x.document
        /\ UNCHANGED <<apps, parents, made>>
    BY <1>5 DEF LicenseAsked, Goes, catalog
  <2> QED  BY <1>1, <1>2, <2>1, AgreementIdle DEF LicenseOps
<1>6. CASE LicenseUpdated(r)
  <2>1. /\ x.op = "update license" /\ y.op = "sync algorithms" /\ y.app = x.app /\ UNCHANGED <<parents, made>>
        /\ apps' = [apps EXCEPT ![x.app] = [x.document EXCEPT !.algorithms = x.listed]]
    BY <1>6 DEF LicenseUpdated, Goes
  <2>2. TodoAgrees(y, t, h, Apps, Parents)
    BY <1>1, <1>2, <2>1 DEF LicenseOps
  <2>3. PICK d : d = [x.document EXCEPT !.algorithms = x.listed]
    OBVIOUS
  <2>4. x.document \in ApplicationDoc
    BY <1>0, <2>1 DEF CatalogTodo, LicensedDoc
  <2>5. d.type = x.document.type /\ x.document.type = t[x.app] /\ x.app \in Apps /\ x.app \in AppIds
    BY <1>2, <2>1, <2>3, <2>4 DEF ApplicationDoc, LicenseOps
  <2>6. apps' = [apps EXCEPT ![x.app] = d] /\ (d # None => x.app \in Apps /\ d.type = t[x.app])
    BY <2>1, <2>3, <2>5
  <2>7. UNCHANGED made /\ UNCHANGED parents
    BY <2>1
  <2> QED  BY <2>2, <2>5, <2>6, <2>7, AgreementSaved
<1>7. CASE AlgorithmFound(r)
  <2>1. x.op = "sync algorithms" /\ y.op = "save algorithm" /\ y.app = x.app /\ UNCHANGED <<apps, parents, made>>
    BY <1>7 DEF AlgorithmFound, Goes, catalog
  <2> QED  BY <1>1, <1>2, <2>1, AgreementIdle DEF LicenseOps
<1>8. CASE SyncEnds(r)
  BY <1>3, <1>8, AgreementIdle DEF SyncEnds, catalog
<1>9. CASE AlgorithmSynced(r)
  <2>1. x.op = "save algorithm" /\ UNCHANGED <<apps, parents, made>>
    BY <1>9 DEF AlgorithmSynced
  <2>2. y = Idle \/ (y.op = "sync algorithms" /\ y.app = x.app)
    BY <1>9 DEF AlgorithmSynced, Goes
  <2> QED  BY <1>1, <1>2, <1>3, <2>1, <2>2, AgreementIdle DEF LicenseOps
<1> QED  BY <1>4, <1>5, <1>6, <1>7, <1>8, <1>9 DEF SyncAct

\* A deletion may take a parent away.
LEMMA AgreementDeletes ==
  ASSUME TypeInv, NEW t, NEW h, Agreement(t, h), request' = request, UNCHANGED <<apps, made>>,
         ParentsAgree(t, h)'
  PROVE  Agreed'
<1>1. Grows /\ Apps' = Apps /\ Parents' = Parents
  BY StaysGrows DEF TypeInv, Apps, Parents
<1>2. AppsAgree(t)'
  BY <1>1, AppsAgreeStay DEF TypeInv, Agreement
<1>3. \A r \in Requests : TodoAgrees(request'[r], t, h, Apps', Parents')
  BY <1>1 DEF Agreement
<1>4. Agreement(t, h)'
  BY <1>2, <1>3 DEF Agreement, TodoAgrees, ParentAgrees
<1> QED  BY <1>4 DEF Agreed

LEMMA AgreedNext ==
  ASSUME TypeInv, Agreed, [Next]_vars
  PROVE  Agreed'
<1>0. TypeInv'
  BY NextType
<1>1. PICK t, h : Agreement(t, h)
  BY DEF Agreed
<1>2. ParentsType /\ ParentsAgree(t, h) /\ MadeType
  BY <1>1 DEF TypeInv, Agreement
<1>3. ASSUME NEW r \in Requests, Died(r) \/ Refers(r)
      PROVE  Agreed'
  <2>1. UNCHANGED <<apps, parents, made>> /\ Moves(r)
    BY <1>3 DEF Died, Refers, ReferenceMove, catalog
  <2>2. request'[r].op \in {"none"} \cup ReferenceOps
    BY <1>3, IdleOp DEF Died, Refers, ReferenceMove
  <2> QED  BY <1>1, <2>1, <2>2, IdleAgrees, AgreementIdle
<1>4. ASSUME NEW r \in Requests, Acts(r), CatalogAct(r)
      PROVE  Agreed'
  <2>1. Moves(r)
    BY <1>4 DEF Acts
  <2> QED
    BY <1>0, <1>1, <1>4, <2>1, AgreementHost, AgreementPassword, AgreementDelete, AgreementParents, AgreementSync
    DEF CatalogAct
<1>5. ASSUME NEW r \in Requests, Moves(r), AlgorithmSynced(r)
      PROVE  Agreed'
  BY <1>1, <1>5, AgreementSync
<1>6. ASSUME UNCHANGED <<apps, parents, made, request>>
      PROVE  Agreed'
  <2>1. ParentsAgree(t, h)'
    BY <1>2, <1>6, StaysGrows, ParentsAgreeStay
  <2> QED  BY <1>1, <1>6, <2>1, AgreementDeletes
<1>7. ASSUME NEW p \in ParentIds, ParentRemoved(p)
      PROVE  Agreed'
  <2>1. /\ request' = request /\ UNCHANGED <<apps, made>> /\ parents[p] # None
        /\ parents' = [parents EXCEPT ![p] = None] \/ parents' = [parents EXCEPT ![p].deleted = TRUE]
    BY <1>7 DEF ParentRemoved, Deletes, of_licensed, of_dojo
  <2>2. PICK d : /\ parents' = [parents EXCEPT ![p] = d]
                 /\ d = None \/ d = [parents[p] EXCEPT !.deleted = TRUE]
    BY <1>2, <2>1 DEF ParentsType
  <2>3. parents[p] \in ParentDoc
    BY <1>2, <2>1 DEF ParentsType
  <2>4. d # None => d.application = parents[p].application /\ d.type = parents[p].type /\ d.meta = parents[p].meta
    BY <2>2, <2>3 DEF ParentDoc
  <2>5. parents'[p] = d /\ \A q \in ParentIds \ {p} : parents'[q] = parents[q]
    BY <1>2, <2>2 DEF ParentsType
  <2>6. Grows /\ Parents' = Parents /\ Apps' = Apps
    BY <1>2, <2>1, StaysGrows DEF Parents, Apps
  <2>7. d # None =>
          /\ p \in Parents /\ h[p] = d.application /\ ParentAgrees(d, t, Apps)
          /\ d.meta # {} => d.type = "RIGHTSIZER_LICENSES"
    BY <1>2, <2>1, <2>4 DEF ParentsAgree, ParentAgrees
  <2>8. ParentsAgree(t, h)'
    BY <1>2, <2>5, <2>6, <2>7, ParentsAgreeSaved
  <2> QED  BY <1>1, <2>1, <2>8, AgreementDeletes
<1>8. CASE Removed
  BY <1>6, <1>8 DEF Removed, Deletes
<1>9. CASE UNCHANGED vars
  BY <1>6, <1>9 DEF vars, control, catalog
<1> QED  BY <1>3, <1>4, <1>5, <1>7, <1>8, <1>9, NextCases

LEMMA InitAgreed ==
  ASSUME Init
  PROVE  Agreed
<1>0. TypeInv
  BY InitType
<1> DEFINE t == [a \in AppIds |-> "RIGHTSIZER_LICENSES"]
           h == [p \in ParentIds |-> 1]
<1>1. 1 \in AppIds /\ 1 \in ParentIds /\ made.apps = 1 /\ made.parents = 1 /\ 1 \in Apps /\ 1 \in Parents
  BY BoundsAssumption DEF Init, AppIds, ParentIds, Apps, Parents
<1>2. t \in [AppIds -> ApplicationType] /\ h \in [ParentIds -> AppIds]
  BY <1>1 DEF ApplicationType
<1>3. AppsAgree(t)
  <2>1. PICK c \in Customers, k \in Keys :
          apps = [a \in AppIds |-> IF a = 1 THEN [Application(c, "RIGHTSIZER_LICENSES") EXCEPT !.key = k] ELSE None]
    BY DEF Init
  <2>2. [Application(c, "RIGHTSIZER_LICENSES") EXCEPT !.key = k].type = "RIGHTSIZER_LICENSES"
    BY DEF Application
  <2> QED  BY <1>1, <2>1, <2>2 DEF AppsAgree
<1>4. ParentsAgree(t, h)
  <2>1. parents = [p \in ParentIds |-> IF p = 1 THEN Parent(1, "RIGHTSIZER_LICENSES") ELSE None]
    BY DEF Init
  <2>2. LET d == Parent(1, "RIGHTSIZER_LICENSES") IN
          d.application = 1 /\ d.type = "RIGHTSIZER_LICENSES" /\ d.meta = {}
    BY DEF Parent
  <2> QED  BY <1>1, <2>1, <2>2 DEF ParentsAgree, ParentAgrees, Kind
<1>5. \A r \in Requests : TodoAgrees(request[r], t, h, Apps, Parents)
  BY IdleAgrees, IdleOp DEF Init
<1>6. Agreement(t, h)
  BY <1>2, <1>3, <1>4, <1>5 DEF Agreement
<1> QED  BY <1>6 DEF Agreed

LEMMA AgreedType ==
  ASSUME TypeInv, Agreed
  PROVE  TypeOK
<1>1. PICK t, h : Agreement(t, h)
  BY DEF Agreed
<1>2. made.apps \in Nat /\ made.parents \in Nat
  BY BoundsAssumption DEF TypeInv, MadeType, AppIds, ParentIds
<1>3. \A a \in AppIds : apps[a] # None => a <= made.apps
  BY <1>1, <1>2 DEF Agreement, AppsAgree, Apps
<1>4. \A p \in ParentIds : parents[p] # None => p <= made.parents /\ parents[p].application <= made.apps
  BY <1>1, <1>2 DEF Agreement, ParentsAgree, ParentAgrees, Apps, Parents
<1> QED  BY <1>3, <1>4 DEF TypeOK, TypeInv, ReferenceType, AppsType, ParentsType, MadeType, HistoryType

-----------------------------------------------------------------------------
(* What a request writes, and what another one may rely on                 *)

LEMMA OthersStay ==
  ASSUME TypeInv, NEW r \in Requests, Moves(r)
  PROVE  mixed \subseteq mixed' /\ \A q \in Requests \ {r} : request'[q] = request[q]
  BY DEF TypeInv, RequestType, Moves

LEMMA AppTodo ==
  ASSUME TypeInv, NEW r \in Requests, request[r].op \in AppOps
  PROVE  request[r].app \in AppIds /\ <<"app", request[r].app>> \in request[r].on
<1>1. CatalogTodo(request[r])
  BY DEF TypeInv, RequestType, TodoOK
<1>2. request[r].app \in AppIds
  BY <1>1 DEF CatalogTodo, AppOps, HostTodo, PasswordTodo, DeleteTodo, MarkTodo, LicenseOps, AskTodo, UpdateTodo,
              SyncedTodo
<1> QED  BY <1>1, <1>2 DEF CatalogTodo

LEMMA BothWork ==
  ASSUME TypeInv, Overlap, NEW q \in Requests, NEW r \in Requests, q # r, request[q].op \in AppOps,
         request[r].op \in AppOps, request[q].app = request[r].app
  PROVE  <<"app", request[r].app>> \in mixed
  BY AppTodo DEF Overlap

LEMMA AppIsMade ==
  ASSUME TypeInv, Agreed
  PROVE  /\ NewApp \notin Apps /\ NewParent \notin Parents
         /\ \A a \in AppIds : apps[a] # None => a \in Apps
         /\ \A p \in ParentIds : parents[p] # None => p \in Parents
         /\ \A r \in Requests : request[r].op \in AppOps => request[r].app \in Apps
         /\ \A r \in Requests : request[r].op \in EditOps => request[r].parent \in Parents
<1>1. PICK t, h : Agreement(t, h)
  BY DEF Agreed
<1> QED  BY <1>1, MadeSets DEF TypeInv, Agreement, AppsAgree, ParentsAgree, TodoAgrees

\* Only the application that a request names is written, and a request names one that
\* is there, or a new one.
AppWrites(r) ==
  /\ \/ apps' = apps
     \/ request[r].op \in AppOps /\ \A b \in AppIds \ {request[r].app} : apps'[b] = apps[b]
  /\ request'[r].op \in AppOps =>
       \/ request[r].op \in AppOps /\ request'[r].app = request[r].app
       \/ request'[r].app \in AppIds /\ apps[request'[r].app] # None
       \/ Creates(r)
  /\ request'[r].op \in {"create secret", "save application"} =>
       Creates(r) \/ (request[r].op = "create secret" /\ request'[r].app = request[r].app /\ apps' = apps)

LEMMA ActWrites ==
  ASSUME TypeInv, NEW r \in Requests, CatalogAct(r) \/ AlgorithmSynced(r)
  PROVE  AppWrites(r)
<1>0. AppsType /\ Idle.op \notin AppOps /\ AppOps = AppOps
  BY IdleOp DEF TypeInv, AppOps, HostOps, PasswordOps, DeleteOps, LicenseOps
<1> DEFINE W(a) == \A b \in AppIds \ {a} : apps'[b] = apps[b]
<1>1. \A a, d : apps' = [apps EXCEPT ![a] = d] => W(a)
  BY <1>0 DEF AppsType
<1>2. CASE HostAct(r)
  <2>1. CASE Creates(r)
    BY <2>1 DEF AppWrites, Creates
  <2>2. CASE SecretSaved(r)
    BY <2>2 DEF AppWrites, SecretSaved, Goes, AppOps, HostOps
  <2>3. CASE ApplicationSaved(r)
    <3>1. request[r].op = "save application" /\ request[r].op \in AppOps /\ W(request[r].app)
      BY <1>1, <2>3 DEF ApplicationSaved, AppOps, HostOps
    <3>2. request'[r] = Idle \/ (request'[r].op \in {"save host parent", "ask LM"} /\ request'[r].app = request[r].app)
      BY <2>3 DEF ApplicationSaved, Goes
    <3> QED  BY <1>0, <3>1, <3>2, IdleOp DEF AppWrites
  <2>4. CASE HostParentSaved(r)
    BY <1>0, <2>4, IdleOp DEF AppWrites, HostParentSaved, Ends
  <2> QED  BY <1>2, <2>1, <2>2, <2>3, <2>4 DEF HostAct
<1>3. CASE PasswordAct(r)
  <2>1. CASE PasswordStarts(r)
    BY <2>1 DEF AppWrites, PasswordStarts, Starts, Active, catalog
  <2>2. CASE SecretDropped(r) \/ SecretReplaced(r)
    BY <2>2 DEF AppWrites, SecretDropped, SecretReplaced, Goes, AppOps, PasswordOps
  <2>3. CASE ApplicationUpdated(r)
    <3>1. request[r].op \in AppOps /\ request'[r] = Idle
      BY <2>3 DEF ApplicationUpdated, Ends, AppOps, PasswordOps
    <3>2. apps' = apps \/ W(request[r].app)
      BY <1>1, <2>3 DEF ApplicationUpdated
    <3> QED  BY <1>0, <3>1, <3>2, IdleOp DEF AppWrites
  <2> QED  BY <1>3, <2>1, <2>2, <2>3 DEF PasswordAct
<1>4. CASE DeleteAct(r)
  <2>1. CASE DeleteStarts(r)
    BY <2>1 DEF AppWrites, DeleteStarts, Starts, Active, catalog
  <2>2. CASE ParentMarked(r) \/ AllMarked(r) \/ ParentDeleted(r) \/ SecretDeleted(r)
    <3>1. /\ request[r].op \in AppOps /\ request'[r].app = request[r].app /\ apps' = apps
          /\ request'[r].op \notin {"create secret", "save application"}
      BY <2>2 DEF ParentMarked, AllMarked, ParentDeleted, SecretDeleted, Goes, AppOps, DeleteOps, catalog
    <3> QED  BY <3>1 DEF AppWrites
  <2>3. CASE ApplicationMarked(r) \/ ApplicationDeleted(r)
    <3>1. request[r].op \in AppOps /\ request'[r] = Idle
      BY <2>3 DEF ApplicationMarked, ApplicationDeleted, Ends, AppOps, DeleteOps
    <3>2. apps' = apps \/ W(request[r].app)
      BY <1>0, <2>3 DEF ApplicationMarked, ApplicationDeleted, AppsType
    <3> QED  BY <1>0, <3>1, <3>2, IdleOp DEF AppWrites
  <2> QED  BY <1>4, <2>1, <2>2, <2>3 DEF DeleteAct
<1>5. CASE ParentAct(r)
  <2>1. apps' = apps
    BY <1>5 DEF ParentAct, ParentStarts, ParentSaved, EditStarts, MetaSaved, catalog
  <2>2. request'[r].op \notin AppOps
    BY <1>0, <1>5
    DEF ParentAct, ParentStarts, ParentSaved, EditStarts, MetaSaved, Starts, Ends, AppOps, HostOps, PasswordOps,
        DeleteOps, LicenseOps, EditOps
  <2> QED  BY <2>1, <2>2 DEF AppWrites, AppOps, HostOps
<1>6. CASE SyncAct(r)
  <2>1. CASE SyncStarts(r)
    BY <2>1 DEF AppWrites, SyncStarts, Starts, catalog
  <2>2. CASE LicenseAsked(r) \/ AlgorithmFound(r)
    BY <2>2 DEF AppWrites, LicenseAsked, AlgorithmFound, Goes, AppOps, LicenseOps, catalog
  <2>3. CASE LicenseUpdated(r)
    <3>1. W(request[r].app)
      BY <1>1, <2>3 DEF LicenseUpdated
    <3> QED  BY <2>3, <3>1 DEF AppWrites, LicenseUpdated, Goes, AppOps, LicenseOps
  <2>4. CASE SyncEnds(r)
    BY <1>0, <2>4, IdleOp DEF AppWrites, SyncEnds, catalog
  <2> QED  BY <1>6, <2>1, <2>2, <2>3, <2>4 DEF SyncAct
<1>7. CASE AlgorithmSynced(r)
  <2>1. request'[r] = Idle \/ (request'[r].op = "sync algorithms" /\ request'[r].app = request[r].app)
    BY <1>7 DEF AlgorithmSynced, Goes
  <2> QED  BY <1>0, <1>7, <2>1, IdleOp DEF AppWrites, AlgorithmSynced, AppOps, LicenseOps
<1> QED  BY <1>2, <1>3, <1>4, <1>5, <1>6, <1>7 DEF CatalogAct

LEMMA AloneWrites ==
  ASSUME TypeInv, Agreed, Alone, NEW r \in Requests, Moves(r), AppWrites(r)
  PROVE  Alone'
<1> DEFINE Creating(x) == x.op \in {"create secret", "save application"}
<1>0. /\ \A q \in Requests \ {r} : request'[q] = request[q]
      /\ "create secret" \in AppOps /\ "save application" \in AppOps
  BY OthersStay DEF AppOps, HostOps
<1>1. ASSUME NEW c \in Requests \ {r}, Creating(request[c])
      PROVE  /\ apps'[request[c].app] = None
             /\ \A q \in Requests \ {c} : request'[q].op \in AppOps => request'[q].app # request[c].app
  <2> DEFINE a == request[c].app
  <2>0. request[c].op \in AppOps /\ a \in AppIds /\ a \in Apps
    <3>1. c \in Requests /\ request[c].op \in AppOps
      BY <1>0, <1>1
    <3> QED  BY <3>1, AppTodo, AppIsMade
  <2>1. /\ apps[a] = None /\ a \in AppIds /\ a \in Apps
        /\ \A q \in Requests \ {c} : request[q].op \in AppOps => request[q].app # a
    BY <1>1, <2>0 DEF Alone
  <2>2. apps'[a] = None
    BY <1>1, <2>1 DEF AppWrites
  <2>3. request'[r].op \in AppOps => request'[r].app # a
    <3>1. Creates(r) => request'[r].app # a
      BY <2>1, AppIsMade DEF Creates
    <3> QED  BY <1>1, <2>1, <3>1 DEF AppWrites
  <2> QED  BY <1>0, <2>1, <2>2, <2>3
<1>2. ASSUME Creating(request'[r])
      PROVE  /\ apps'[request'[r].app] = None
             /\ \A q \in Requests \ {r} : request[q].op \in AppOps => request[q].app # request'[r].app
  <2>1. CASE Creates(r)
    <3>1. request'[r].app = NewApp /\ NewApp \in AppIds /\ apps' = apps
      BY <2>1 DEF Creates
    <3> QED  BY <3>1, AppIsMade
  <2>2. CASE request[r].op = "create secret" /\ request'[r].app = request[r].app /\ apps' = apps
    BY <2>2 DEF Alone
  <2> QED  BY <1>2, <2>1, <2>2 DEF AppWrites
<1>3. ASSUME NEW c \in Requests, Creating(request'[c])
      PROVE  /\ apps'[request'[c].app] = None
             /\ \A q \in Requests \ {c} : request'[q].op \in AppOps => request'[q].app # request'[c].app
  <2>1. CASE c = r
    BY <1>0, <1>2, <1>3, <2>1
  <2>2. CASE c # r
    BY <1>0, <1>1, <1>3, <2>2
  <2> QED  BY <2>1, <2>2
<1> QED  BY <1>3 DEF Alone

LEMMA AloneNext ==
  ASSUME TypeInv, Agreed, Alone, [Next]_vars
  PROVE  Alone'
<1>1. ASSUME UNCHANGED apps, request' = request
      PROVE  Alone'
  BY <1>1 DEF Alone
<1>2. ASSUME NEW r \in Requests, Died(r) \/ Refers(r)
      PROVE  Alone'
  <2>1. Moves(r) /\ UNCHANGED apps /\ request'[r].op \in {"none"} \cup ReferenceOps
    BY <1>2, IdleOp DEF Died, Refers, ReferenceMove, catalog
  <2>2. AppWrites(r)
    BY <2>1 DEF AppWrites, ReferenceOps, AppOps, HostOps, PasswordOps, DeleteOps, LicenseOps
  <2> QED  BY <2>1, <2>2, AloneWrites
<1>3. ASSUME NEW r \in Requests, (Acts(r) /\ CatalogAct(r)) \/ (Moves(r) /\ AlgorithmSynced(r))
      PROVE  Alone'
  BY <1>3, ActWrites, AloneWrites DEF Acts
<1>4. CASE (\E p \in ParentIds : ParentRemoved(p)) \/ Removed
  BY <1>1, <1>4 DEF ParentRemoved, Removed, Deletes
<1>5. CASE UNCHANGED vars
  BY <1>1, <1>5 DEF vars, control, catalog
<1> QED  BY <1>2, <1>3, <1>4, <1>5, NextCases

LEMMA InitAlone ==
  ASSUME Init
  PROVE  Alone
  BY IdleOp DEF Init, Alone

-----------------------------------------------------------------------------
(* Rules and groups                                                        *)

SameMeta(p) == parents[p] # None /\ parents'[p] # None /\ parents'[p].meta = parents[p].meta

LEMMA EditTodos ==
  ASSUME TypeInv, NEW r \in Requests, request[r].op \in EditOps
  PROVE  /\ request[r].parent \in ParentIds /\ <<"parent", request[r].parent>> \in request[r].on
         /\ request[r].document \in ParentDoc
  BY DEF TypeInv, RequestType, TodoOK, CatalogTodo, EditTodo

\* Requests that work on a parent do not see it change under them, unless it is mixed.
LEMMA OthersEdit ==
  ASSUME TypeInv, Agreed, Overlap, KeptInv, NEW r \in Requests, Moves(r),
         \A p \in Parents : parents[p] # None => SameMeta(p) \/ <<"parent", p>> \in request[r].on,
         NEW q \in Requests, q # r, request'[q].op \in EditOps, <<"parent", request'[q].parent>> \notin mixed'
  PROVE  /\ parents'[request'[q].parent] # None
         /\ request'[q].document.meta = parents'[request'[q].parent].meta
<1> DEFINE x == request[q]
           p == x.parent
<1>1. request'[q] = x /\ <<"parent", p>> \notin mixed
  BY OthersStay
<1>2. /\ p \in Parents /\ p \in ParentIds /\ <<"parent", p>> \in x.on
  BY <1>1, EditTodos, AppIsMade
<1>3. parents[p] # None /\ x.document.meta = parents[p].meta
  BY <1>1 DEF KeptInv
<1>4. <<"parent", p>> \notin request[r].on
  BY <1>1, <1>2 DEF Overlap
<1> QED  BY <1>1, <1>2, <1>3, <1>4 DEF SameMeta

LEMMA KeptMoves ==
  ASSUME TypeInv, Agreed, Overlap, KeptInv, NEW r \in Requests, Moves(r), Grows, kept' = kept,
         \A p \in ParentIds : parents'[p] # None => SameMeta(p) \/ (p = NewParent /\ parents'[p].meta = {}),
         \A p \in Parents : parents[p] # None => SameMeta(p) \/ <<"parent", p>> \in request[r].on,
         request'[r].op \in EditOps =>
           /\ parents'[request'[r].parent] # None
           /\ request'[r].document.meta = parents'[request'[r].parent].meta
  PROVE  KeptInv'
<1>1. mixed \subseteq mixed' /\ Parents \subseteq Parents' /\ NewParent \notin Parents
  BY OthersStay, GrowsSets, AppIsMade DEF TypeInv
<1>2. ASSUME NEW p \in ParentIds, parents'[p] # None, <<"parent", p>> \notin mixed'
      PROVE  parents'[p].meta = kept'[p]
  BY <1>1, <1>2 DEF KeptInv, RulesAndGroupsAreKept, SameMeta
<1>3. \A p \in ParentIds \ Parents' : kept'[p] = {}
  BY <1>1 DEF KeptInv
<1>4. ASSUME NEW q \in Requests, request'[q].op \in EditOps, <<"parent", request'[q].parent>> \notin mixed'
      PROVE  /\ parents'[request'[q].parent] # None
             /\ request'[q].document.meta = parents'[request'[q].parent].meta
  BY <1>4, OthersEdit
<1> QED  BY <1>2, <1>3, <1>4 DEF KeptInv, RulesAndGroupsAreKept

LEMMA KeptSaved ==
  ASSUME TypeInv, Agreed, Overlap, KeptInv, NEW r \in Requests, Moves(r), MetaSaved(r)
  PROVE  KeptInv'
<1> DEFINE x == request[r]
           p == x.parent
           new == Applied(x.document.meta, x.do)
<1>1. /\ x.op \in EditOps /\ request'[r] = Idle /\ made' = made
      /\ kept' = [kept EXCEPT ![p] = Applied(@, x.do)]
      /\ \/ parents' = [parents EXCEPT ![p] = [x.document EXCEPT !.meta = new]]
         \/ parents[p] = None /\ parents' = parents
         \/ parents[p] # None /\ parents' = [parents EXCEPT ![p].meta = new]
  BY DEF MetaSaved
<1>2. /\ p \in ParentIds /\ p \in Parents /\ <<"parent", p>> \in x.on /\ x.document \in ParentDoc
      /\ ParentsType /\ kept \in [ParentIds -> SUBSET Item]
  BY <1>1, EditTodos, AppIsMade DEF TypeInv, HistoryType
<1>3. /\ \A q \in ParentIds \ {p} : parents'[q] = parents[q] /\ kept'[q] = kept[q]
      /\ kept'[p] = Applied(kept[p], x.do)
  BY <1>1, <1>2 DEF ParentsType
<1>4. ASSUME parents[p] # None
      PROVE  parents'[p].meta = new
  <2>1. parents[p] \in ParentDoc
    BY <1>2, <1>4 DEF ParentsType
  <2>2. CASE parents' = [parents EXCEPT ![p] = [x.document EXCEPT !.meta = new]]
    BY <1>2, <2>2 DEF ParentsType, ParentDoc
  <2>3. CASE parents' = [parents EXCEPT ![p].meta = new]
    BY <1>2, <2>1, <2>3 DEF ParentsType, ParentDoc
  <2> QED  BY <1>1, <1>4, <2>2, <2>3
<1>5. /\ mixed \subseteq mixed' /\ Parents' = Parents
  BY <1>1, OthersStay DEF Parents
<1>6. ASSUME NEW q \in ParentIds, parents'[q] # None, <<"parent", q>> \notin mixed'
      PROVE  parents'[q].meta = kept'[q]
  <2>1. CASE q # p
    BY <1>3, <1>5, <1>6, <2>1 DEF KeptInv, RulesAndGroupsAreKept
  <2>2. CASE q = p
    <3>1. parents[p] # None /\ x.document.meta = parents[p].meta
      BY <1>1, <1>5, <1>6, <2>2 DEF KeptInv
    <3>2. parents[p].meta = kept[p]
      BY <1>2, <1>5, <1>6, <2>2, <3>1 DEF KeptInv, RulesAndGroupsAreKept
    <3> QED  BY <1>3, <1>4, <2>2, <3>1, <3>2
  <2> QED  BY <2>1, <2>2
<1>7. \A q \in ParentIds \ Parents' : kept'[q] = {}
  BY <1>2, <1>3, <1>5 DEF KeptInv
<1>8. ASSUME NEW q \in Requests, request'[q].op \in EditOps, <<"parent", request'[q].parent>> \notin mixed'
      PROVE  /\ parents'[request'[q].parent] # None
             /\ request'[q].document.meta = parents'[request'[q].parent].meta
  <2>1. q # r
    BY <1>1, <1>8, IdleOp DEF EditOps
  <2>2. \A s \in Parents : parents[s] # None => SameMeta(s) \/ <<"parent", s>> \in x.on
    <3>1. Parents \subseteq ParentIds
      BY MadeSets DEF TypeInv
    <3> QED  BY <1>2, <1>3, <3>1 DEF SameMeta
  <2> QED  BY <1>8, <2>1, <2>2, OthersEdit
<1> QED  BY <1>6, <1>7, <1>8 DEF KeptInv, RulesAndGroupsAreKept

\* What the other steps do to parents.
ParentWrites(r) ==
  /\ Grows /\ kept' = kept
  /\ \/ parents' = parents
     \/ NewParent \in ParentIds /\ \E d : parents' = [parents EXCEPT ![NewParent] = d] /\ d.meta = {}
     \/ \E p \in ParentIds :
          /\ <<"parent", p>> \in request[r].on
          /\ \/ parents' = [parents EXCEPT ![p] = None]
             \/ parents[p] # None /\ parents' = [parents EXCEPT ![p].deleted = TRUE]
  /\ request'[r].op \in EditOps =>
       /\ parents' = parents /\ request'[r].parent \in ParentIds /\ parents[request'[r].parent] # None
       /\ request'[r].document = parents[request'[r].parent]

LEMMA ActParents ==
  ASSUME TypeInv, NEW r \in Requests, CatalogAct(r) \/ AlgorithmSynced(r), ~MetaSaved(r)
  PROVE  ParentWrites(r)
<1>0. MadeType /\ CatalogTodo(request[r]) /\ Idle.op \notin EditOps
  BY IdleOp DEF TypeInv, EditOps, RequestType, TodoOK
<1>1. made' = made => Grows
  BY <1>0, StaysGrows
<1>2. CASE HostAct(r)
  <2>1. CASE HostParentSaved(r)
    <3>1. Parent(request[r].app, "RIGHTSIZER_PARENT").meta = {}
      BY DEF Parent
    <3>2. Grows
      BY <1>0, <2>1, NewParentGrows DEF HostParentSaved
    <3>3. request'[r] = Idle /\ kept' = kept /\ NewParent \in ParentIds
          /\ parents' = [parents EXCEPT ![NewParent] = Parent(request[r].app, "RIGHTSIZER_PARENT")]
      BY <2>1 DEF HostParentSaved, Ends
    <3> HIDE DEF Parent
    <3> QED  BY <1>0, <3>1, <3>2, <3>3 DEF ParentWrites
  <2>2. CASE Creates(r)
    BY <1>0, <2>2, NewAppGrows DEF Creates, Starts, ParentWrites, EditOps
  <2>3. CASE SecretSaved(r) \/ ApplicationSaved(r)
    <3>1. made' = made /\ parents' = parents /\ kept' = kept
      BY <2>3 DEF SecretSaved, ApplicationSaved
    <3>2. request'[r].op \notin EditOps
      BY <2>3, IdleOp DEF SecretSaved, ApplicationSaved, Goes, EditOps
    <3> QED  BY <1>1, <3>1, <3>2 DEF ParentWrites
  <2> QED  BY <1>2, <2>1, <2>2, <2>3 DEF HostAct
<1>3. CASE PasswordAct(r)
  <2>1. made' = made /\ parents' = parents /\ kept' = kept
    BY <1>3 DEF PasswordAct, PasswordStarts, SecretDropped, SecretReplaced, ApplicationUpdated, catalog
  <2>2. request'[r].op \notin EditOps
    BY <1>3, IdleOp
    DEF PasswordAct, PasswordStarts, SecretDropped, SecretReplaced, ApplicationUpdated, Starts, Goes, Ends, EditOps
  <2> QED  BY <1>1, <2>1, <2>2 DEF ParentWrites
<1>4. CASE DeleteAct(r)
  <2>1. made' = made /\ kept' = kept
    BY <1>4 DEF DeleteAct, DeleteStarts, ParentMarked, AllMarked, ApplicationMarked, ParentDeleted, SecretDeleted,
                ApplicationDeleted, catalog
  <2>2. request'[r].op \notin EditOps
    BY <1>4, IdleOp
    DEF DeleteAct, DeleteStarts, ParentMarked, AllMarked, ApplicationMarked, ParentDeleted, SecretDeleted,
        ApplicationDeleted, Starts, Goes, Ends, EditOps
  <2>3. request[r].op \in {"mark parents", "delete parents"} =>
          \A p \in request[r].parents : p \in ParentIds /\ <<"parent", p>> \in request[r].on
    BY <1>0 DEF CatalogTodo, DeleteTodo, MarkTodo, DeleteOps
  <2>4. CASE ParentMarked(r) \/ ParentDeleted(r)
    <3>1. PICK p \in request[r].parents :
            \/ parents' = [parents EXCEPT ![p] = None]
            \/ parents' = IF parents[p] = None THEN parents ELSE [parents EXCEPT ![p].deleted = TRUE]
      BY <2>4 DEF ParentMarked, ParentDeleted
    <3>2. p \in ParentIds /\ <<"parent", p>> \in request[r].on
      BY <2>3, <2>4 DEF ParentMarked, ParentDeleted, Goes
    <3>3. \/ parents' = parents
          \/ parents' = [parents EXCEPT ![p] = None]
          \/ parents[p] # None /\ parents' = [parents EXCEPT ![p].deleted = TRUE]
      BY <3>1
    <3> QED  BY <1>1, <2>1, <2>2, <3>2, <3>3 DEF ParentWrites
  <2>5. CASE ~(ParentMarked(r) \/ ParentDeleted(r))
    <3>1. parents' = parents
      BY <1>4, <2>5 DEF DeleteAct, DeleteStarts, AllMarked, ApplicationMarked, SecretDeleted, ApplicationDeleted, catalog
    <3> QED  BY <1>1, <2>1, <2>2, <3>1 DEF ParentWrites
  <2> QED  BY <2>4, <2>5
<1>5. CASE ParentAct(r)
  <2>1. CASE ParentStarts(r)
    BY <1>1, <2>1 DEF ParentStarts, Starts, ParentWrites, EditOps, catalog
  <2>2. CASE ParentSaved(r)
    <3>1. request[r].document.meta = {}
      BY <1>0, <2>2 DEF ParentSaved, Ends, CatalogTodo
    <3>2. Grows
      BY <1>0, <2>2, NewParentGrows DEF ParentSaved
    <3> QED  BY <1>0, <2>2, <3>1, <3>2 DEF ParentSaved, Ends, ParentWrites
  <2>3. CASE EditStarts(r)
    <3>1. Grows
      BY <1>0, <2>3, StaysGrows DEF EditStarts
    <3> QED  BY <2>3, <3>1 DEF EditStarts, of_licensed, ParentWrites
  <2> QED  BY <1>5, <2>1, <2>2, <2>3 DEF ParentAct
<1>6. CASE SyncAct(r)
  <2>1. made' = made /\ parents' = parents /\ kept' = kept
    BY <1>6 DEF SyncAct, SyncStarts, LicenseAsked, LicenseUpdated, AlgorithmFound, SyncEnds, catalog
  <2>2. request'[r].op \notin EditOps
    BY <1>6, IdleOp
    DEF SyncAct, SyncStarts, LicenseAsked, LicenseUpdated, AlgorithmFound, SyncEnds, Starts, Goes, EditOps
  <2> QED  BY <1>1, <2>1, <2>2 DEF ParentWrites
<1>7. CASE AlgorithmSynced(r)
  <2>1. request'[r].op \notin EditOps
    BY <1>7, IdleOp DEF AlgorithmSynced, Goes, EditOps
  <2> QED  BY <1>1, <1>7, <2>1 DEF AlgorithmSynced, ParentWrites
<1> QED  BY <1>2, <1>3, <1>4, <1>5, <1>6, <1>7 DEF CatalogAct

LEMMA KeptWrites ==
  ASSUME TypeInv, Agreed, Overlap, KeptInv, NEW r \in Requests, Moves(r), ParentWrites(r)
  PROVE  KeptInv'
<1>0. ParentsType /\ NewParent \notin Parents /\ Parents \subseteq ParentIds
  BY AppIsMade, MadeSets DEF TypeInv
<1> DEFINE Written ==
             /\ \A p \in ParentIds : parents'[p] # None => SameMeta(p) \/ (p = NewParent /\ parents'[p].meta = {})
             /\ \A p \in Parents : parents[p] # None => SameMeta(p) \/ <<"parent", p>> \in request[r].on
<1>1. Written
  <2>1. CASE parents' = parents
    BY <2>1 DEF SameMeta
  <2>2. ASSUME NewParent \in ParentIds, NEW d, parents' = [parents EXCEPT ![NewParent] = d], d.meta = {}
        PROVE  Written
    BY <1>0, <2>2 DEF ParentsType, SameMeta
  <2>3. ASSUME NEW p \in ParentIds, <<"parent", p>> \in request[r].on,
               \/ parents' = [parents EXCEPT ![p] = None]
               \/ parents[p] # None /\ parents' = [parents EXCEPT ![p].deleted = TRUE]
        PROVE  Written
    <3>1. \A q \in ParentIds \ {p} : parents'[q] = parents[q]
      BY <1>0, <2>3 DEF ParentsType
    <3>2. parents'[p] # None => SameMeta(p)
      <4>1. parents[p] # None => parents[p] \in ParentDoc
        BY <1>0 DEF ParentsType
      <4> QED  BY <1>0, <2>3, <4>1 DEF ParentsType, ParentDoc, SameMeta
    <3> QED  BY <1>0, <2>3, <3>1, <3>2 DEF SameMeta
  <2> QED  BY <2>1, <2>2, <2>3 DEF ParentWrites
<1>2. request'[r].op \in EditOps =>
        /\ parents'[request'[r].parent] # None
        /\ request'[r].document.meta = parents'[request'[r].parent].meta
  BY DEF ParentWrites
<1> QED  BY <1>1, <1>2, KeptMoves DEF ParentWrites

\* A step that leaves the requests alone, and at most takes one parent that is mixed if
\* a request works on it.
LEMMA KeptStays ==
  ASSUME TypeInv, Overlap, KeptInv, request' = request, mixed \subseteq mixed', UNCHANGED <<made, kept>>,
         \/ parents' = parents
         \/ \E p \in ParentIds :
              /\ parents[p] # None
              /\ parents' = [parents EXCEPT ![p] = None] \/ parents' = [parents EXCEPT ![p].deleted = TRUE]
              /\ \A r \in Requests : <<"parent", p>> \in request[r].on => <<"parent", p>> \in mixed'
  PROVE  KeptInv'
<1>1. ASSUME parents' = parents
      PROVE  KeptInv'
  BY <1>1 DEF KeptInv, RulesAndGroupsAreKept, Parents
<1>2. ASSUME NEW p \in ParentIds, parents[p] # None,
             parents' = [parents EXCEPT ![p] = None] \/ parents' = [parents EXCEPT ![p].deleted = TRUE],
             \A r \in Requests : <<"parent", p>> \in request[r].on => <<"parent", p>> \in mixed'
      PROVE  KeptInv'
  <2>1. /\ \A q \in ParentIds \ {p} : parents'[q] = parents[q]
        /\ parents'[p] # None => parents'[p].meta = parents[p].meta
    <3>1. ParentsType /\ parents[p] \in ParentDoc
      BY <1>2 DEF TypeInv, ParentsType
    <3> QED  BY <1>2, <3>1 DEF ParentsType, ParentDoc
  <2>2. RulesAndGroupsAreKept'
    BY <1>2, <2>1 DEF KeptInv, RulesAndGroupsAreKept
  <2>3. \A q \in ParentIds \ Parents' : kept'[q] = {}
    BY DEF KeptInv, Parents
  <2>4. ASSUME NEW r \in Requests, request[r].op \in EditOps, <<"parent", request[r].parent>> \notin mixed'
        PROVE  /\ parents'[request[r].parent] # None
               /\ request[r].document.meta = parents'[request[r].parent].meta
    <3>1. request[r].parent \in ParentIds /\ <<"parent", request[r].parent>> \in request[r].on
      BY <2>4, EditTodos
    <3>2. request[r].parent # p
      BY <1>2, <2>4, <3>1
    <3>3. parents[request[r].parent] # None /\ request[r].document.meta = parents[request[r].parent].meta
      BY <2>4 DEF KeptInv
    <3> QED  BY <2>1, <3>1, <3>2, <3>3
  <2> QED  BY <2>2, <2>3, <2>4 DEF KeptInv
<1> QED  BY <1>1, <1>2

LEMMA KeptNext ==
  ASSUME TypeInv, Agreed, Overlap, KeptInv, [Next]_vars
  PROVE  KeptInv'
<1>1. ASSUME NEW r \in Requests, Died(r) \/ Refers(r)
      PROVE  KeptInv'
  <2>1. Moves(r) /\ UNCHANGED catalog /\ request'[r].op \in {"none"} \cup ReferenceOps
    BY <1>1, IdleOp DEF Died, Refers, ReferenceMove
  <2>2. Grows /\ kept' = kept /\ parents' = parents
    BY <2>1, StaysGrows DEF TypeInv, catalog
  <2>3. ParentWrites(r)
    BY <2>1, <2>2 DEF ParentWrites, ReferenceOps, EditOps
  <2> QED  BY <2>1, <2>3, KeptWrites
<1>2. ASSUME NEW r \in Requests, Moves(r), CatalogAct(r) \/ AlgorithmSynced(r)
      PROVE  KeptInv'
  BY <1>2, ActParents, KeptWrites, KeptSaved
<1>3. ASSUME NEW p \in ParentIds, ParentRemoved(p)
      PROVE  KeptInv'
  <2>1. parents[p] # None
    BY <1>3 DEF ParentRemoved, of_licensed, of_dojo
  <2> QED  BY <1>3, <2>1, KeptStays DEF ParentRemoved, Deletes
<1>4. CASE Removed
  BY <1>4, KeptStays DEF Removed, Deletes
<1>5. CASE UNCHANGED vars
  BY <1>5, KeptStays DEF vars, control, catalog
<1> QED  BY <1>1, <1>2, <1>3, <1>4, <1>5, NextCases DEF Acts

LEMMA InitKept ==
  ASSUME Init
  PROVE  KeptInv
<1>1. /\ parents = [p \in ParentIds |-> IF p = 1 THEN Parent(1, "RIGHTSIZER_LICENSES") ELSE None]
      /\ kept = [p \in ParentIds |-> {}] /\ request = [r \in Requests |-> Idle]
  BY DEF Init
<1>2. RulesAndGroupsAreKept
  <2>1. Parent(1, "RIGHTSIZER_LICENSES").meta = {}
    BY DEF Parent
  <2> QED  BY <1>1, <2>1 DEF RulesAndGroupsAreKept
<1>3. \A r \in Requests : request[r].op \notin EditOps
  BY <1>1, IdleOp DEF EditOps
<1> QED  BY <1>1, <1>2, <1>3 DEF KeptInv

-----------------------------------------------------------------------------
(* The parent of a RIGHTSIZER application                                  *)

LEMMA OfOtherType ==
  ASSUME TypeInv, NEW t, NEW h, Agreement(t, h), NEW p \in ParentIds, parents[p] # None,
         parents[p].type = "RIGHTSIZER_PARENT"
  PROVE  /\ h[p] = parents[p].application /\ t[h[p]] = "RIGHTSIZER" /\ h[p] \in AppIds
         /\ ~of_licensed(p) /\ ~of_dojo(p)
<1>1. h[p] = parents[p].application /\ h[p] \in Apps /\ t[h[p]] = "RIGHTSIZER"
  BY DEF Agreement, ParentsAgree, ParentAgrees, Kind
<1>2. h[p] \in AppIds
  BY <1>1, MadeSets DEF TypeInv
<1>3. apps[h[p]] # None => apps[h[p]].type = "RIGHTSIZER"
  BY <1>1, <1>2 DEF Agreement, AppsAgree
<1> QED  BY <1>1, <1>2, <1>3 DEF of_licensed, of_dojo, Active

\* It is only taken by the deletion of its own application.
LEMMA HostParentStays ==
  ASSUME TypeInv, Agreed, NEW r \in Requests, CatalogAct(r) \/ AlgorithmSynced(r),
         NEW p \in ParentIds, parents[p] # None, parents[p].type = "RIGHTSIZER_PARENT"
  PROVE  \/ parents'[p] = parents[p]
         \/ request'[r].op = "delete parents" /\ request'[r].app = parents[p].application
<1> PICK t, h : Agreement(t, h)
  BY DEF Agreed
<1>0. /\ ParentsType /\ p # NewParent
      /\ TodoAgrees(request[r], t, h, Apps, Parents)
      /\ h[p] = parents[p].application /\ t[h[p]] = "RIGHTSIZER"
  BY AppIsMade, OfOtherType DEF TypeInv, Agreement
<1>1. \A q \in ParentIds \ {p} : \A d : parents' = [parents EXCEPT ![q] = d] => parents'[p] = parents[p]
  BY <1>0 DEF ParentsType
<1>2. CASE HostParentSaved(r)
  BY <1>0, <1>1, <1>2 DEF HostParentSaved
<1>3. CASE ParentSaved(r)
  BY <1>0, <1>1, <1>3 DEF ParentSaved
<1>4. CASE ParentMarked(r)
  <2>1. PICK q \in request[r].parents :
          parents' = IF parents[q] = None THEN parents ELSE [parents EXCEPT ![q].deleted = TRUE]
    BY <1>4 DEF ParentMarked
  <2>2. request[r].op = "mark parents" /\ q \in Parents /\ h[q] = request[r].app /\ t[request[r].app] = "DEFECT_DOJO"
    BY <1>0, <1>4 DEF ParentMarked, Goes, TodoAgrees
  <2>3. q # p /\ q \in ParentIds
    BY <1>0, <2>2, MadeSets DEF TypeInv
  <2> QED  BY <1>0, <2>1, <2>3 DEF ParentsType
<1>5. CASE ParentDeleted(r)
  <2>1. PICK q \in request[r].parents : parents' = [parents EXCEPT ![q] = None]
    BY <1>5 DEF ParentDeleted
  <2>2. /\ request[r].op = "delete parents" /\ request'[r].op = "delete parents"
        /\ request'[r].app = request[r].app
    BY <1>5 DEF ParentDeleted, Goes
  <2>3. q \in Parents /\ h[q] = request[r].app
    BY <1>0, <2>2 DEF TodoAgrees
  <2>4. q \in ParentIds
    BY <2>3, MadeSets DEF TypeInv
  <2> QED  BY <1>0, <1>1, <2>1, <2>2, <2>3, <2>4
<1>6. CASE MetaSaved(r)
  <2> DEFINE x == request[r]
             q == x.parent
  <2>1. x.op \in EditOps
    BY <1>6 DEF MetaSaved
  <2>2. /\ q \in Parents /\ h[q] = x.document.application /\ x.document.type = "RIGHTSIZER_LICENSES"
        /\ ParentAgrees(x.document, t, Apps)
    BY <1>0, <2>1 DEF TodoAgrees
  <2>3. q \in ParentIds
    BY <2>2, MadeSets DEF TypeInv
  <2>4. q # p
    BY <1>0, <2>2 DEF ParentAgrees, Kind
  <2> QED  BY <1>0, <1>6, <2>3, <2>4 DEF MetaSaved, ParentsType
<1>7. CASE ~(HostParentSaved(r) \/ ParentSaved(r) \/ ParentMarked(r) \/ ParentDeleted(r) \/ MetaSaved(r))
  BY <1>7
  DEF CatalogAct, HostAct, PasswordAct, DeleteAct, ParentAct, SyncAct, Creates, SecretSaved, ApplicationSaved,
      PasswordStarts, SecretDropped, SecretReplaced, ApplicationUpdated, DeleteStarts, AllMarked, ApplicationMarked,
      SecretDeleted, ApplicationDeleted, ParentStarts, EditStarts, SyncStarts, LicenseAsked, LicenseUpdated,
      AlgorithmFound, SyncEnds, AlgorithmSynced, catalog
<1> QED  BY <1>2, <1>3, <1>4, <1>5, <1>6, <1>7

\* A RIGHTSIZER application becomes active only when it is created.
LEMMA HostAppStays ==
  ASSUME TypeInv, NEW r \in Requests, CatalogAct(r) \/ AlgorithmSynced(r), NEW a \in AppIds,
         apps'[a] # None, ~apps'[a].deleted, apps'[a].type = "RIGHTSIZER"
  PROVE  \/ Active(a, "RIGHTSIZER")
         \/ request'[r].op = "save host parent" /\ request'[r].app = a
<1>0. AppsType /\ CatalogTodo(request[r])
  BY DEF TypeInv, RequestType, TodoOK
<1> DEFINE x == request[r]
<1>1. CASE ApplicationSaved(r)
  <2>1. CASE x.app = a
    <3>1. apps'[a] = x.document
      BY <1>0, <1>1, <2>1 DEF ApplicationSaved, AppsType
    <3> QED  BY <1>1, <2>1, <3>1 DEF ApplicationSaved, Goes
  <2>2. CASE x.app # a
    BY <1>0, <1>1, <2>2 DEF ApplicationSaved, AppsType, Active
  <2> QED  BY <2>1, <2>2
<1>2. CASE ApplicationUpdated(r)
  BY <1>0, <1>2 DEF ApplicationUpdated, AppsType, Active
<1>3. CASE ApplicationMarked(r)
  <2>1. apps[a] # None => apps[a] \in ApplicationDoc
    BY <1>0 DEF AppsType
  <2> QED  BY <1>0, <1>3, <2>1 DEF ApplicationMarked, AppsType, Active, ApplicationDoc
<1>4. CASE ApplicationDeleted(r)
  BY <1>0, <1>4 DEF ApplicationDeleted, AppsType, Active
<1>5. CASE LicenseUpdated(r)
  <2>1. x.document \in ApplicationDoc /\ x.document.type = "RIGHTSIZER_LICENSES"
    BY <1>0, <1>5 DEF LicenseUpdated, Goes, CatalogTodo, LicensedDoc
  <2>2. [x.document EXCEPT !.algorithms = x.listed].type = "RIGHTSIZER_LICENSES"
    BY <2>1 DEF ApplicationDoc
  <2> QED  BY <1>0, <1>5, <2>2 DEF LicenseUpdated, AppsType, Active
<1>6. CASE ~(ApplicationSaved(r) \/ ApplicationUpdated(r) \/ ApplicationMarked(r) \/ ApplicationDeleted(r)
              \/ LicenseUpdated(r))
  <2>1. apps' = apps
    BY <1>6
    DEF CatalogAct, HostAct, PasswordAct, DeleteAct, ParentAct, SyncAct, Creates, SecretSaved, HostParentSaved,
        PasswordStarts, SecretDropped, SecretReplaced, DeleteStarts, ParentMarked, AllMarked, ParentDeleted,
        SecretDeleted, ParentStarts, ParentSaved, EditStarts, MetaSaved, SyncStarts, LicenseAsked,
        AlgorithmFound, SyncEnds, AlgorithmSynced, catalog
  <2> QED  BY <2>1 DEF Active
<1> QED  BY <1>1, <1>2, <1>3, <1>4, <1>5, <1>6

\* A request that may leave the application without its parent goes on to the end.
LEMMA HostGoingStays ==
  ASSUME TypeInv, NEW r \in Requests, CatalogAct(r) \/ AlgorithmSynced(r), NEW a \in AppIds,
         request[r].op \in HostGoing, request[r].app = a, apps'[a] # None, ~apps'[a].deleted
  PROVE  \/ request'[r].op \in HostGoing /\ request'[r].app = a
         \/ HasHostParent(a)'
<1>0. AppsType /\ ParentsType /\ MadeType
  BY DEF TypeInv
<1>1. CASE HostParentSaved(r)
  <2> DEFINE d == Parent(a, "RIGHTSIZER_PARENT")
  <2>1. NewParent \in ParentIds /\ parents' = [parents EXCEPT ![NewParent] = d]
    BY <1>1 DEF HostParentSaved
  <2>2. d \in ParentDoc /\ d.application = a /\ ~d.deleted /\ d.type = "RIGHTSIZER_PARENT"
    BY <1>0 DEF Parent, ParentDoc, ParentType
  <2>3. d # None
    BY <2>2, DocumentAssumption
  <2> HIDE DEF d
  <2>4. parents'[NewParent] = d
    BY <1>0, <2>1 DEF ParentsType
  <2> DEFINE p == NewParent
  <2>5. p \in active_parents(a)'
    BY <2>1, <2>2, <2>3, <2>4 DEF active_parents
  <2> QED  BY <2>2, <2>4, <2>5 DEF HasHostParent
<1>2. CASE ApplicationMarked(r)
  <2>1. apps[a] # None => apps[a] \in ApplicationDoc
    BY <1>0 DEF AppsType
  <2> QED  BY <1>0, <1>2, <2>1 DEF ApplicationMarked, AppsType, ApplicationDoc
<1>3. CASE ApplicationDeleted(r)
  BY <1>0, <1>3 DEF ApplicationDeleted, AppsType
<1>4. CASE ParentDeleted(r) \/ SecretDeleted(r)
  BY <1>4 DEF ParentDeleted, SecretDeleted, Goes, HostGoing
<1>5. ~(HostParentSaved(r) \/ ApplicationMarked(r) \/ ApplicationDeleted(r) \/ ParentDeleted(r) \/ SecretDeleted(r))
        => request[r].op \notin HostGoing
  BY DEF CatalogAct, HostAct, PasswordAct, DeleteAct, ParentAct, SyncAct, Creates, SecretSaved, ApplicationSaved,
         PasswordStarts, SecretDropped, SecretReplaced, ApplicationUpdated, DeleteStarts, ParentMarked, AllMarked,
         ParentStarts, ParentSaved, EditStarts, MetaSaved, SyncStarts, LicenseAsked, LicenseUpdated,
         AlgorithmFound, SyncEnds, AlgorithmSynced, Starts, Goes, Ends, HostGoing, EditOps
<1> QED  BY <1>1, <1>2, <1>3, <1>4, <1>5

LEMMA HostActs ==
  ASSUME TypeInv, Agreed, HostInv, NEW r \in Requests, Moves(r), CatalogAct(r) \/ AlgorithmSynced(r), died \subseteq died'
  PROVE  HostInv'
<1> SUFFICES ASSUME NEW a \in AppIds, apps'[a] # None, ~apps'[a].deleted, apps'[a].type = "RIGHTSIZER",
                    <<"app", a>> \notin died', ~On(a, HostGoing)'
             PROVE  HasHostParent(a)'
  BY DEF HostInv, Active
<1>0. /\ \A q \in Requests \ {r} : request'[q] = request[q]
      /\ \A q \in Requests : request'[q].op \in HostGoing => request'[q].app # a
  BY OthersStay DEF On
<1>1. Active(a, "RIGHTSIZER") /\ <<"app", a>> \notin died
  <2>1. ~(request'[r].op = "save host parent" /\ request'[r].app = a)
    BY <1>0 DEF HostGoing
  <2> QED  BY <2>1, HostAppStays
<1>2. CASE request[r].op \in HostGoing /\ request[r].app = a
  BY <1>0, <1>2, HostGoingStays
<1>3. CASE ~(request[r].op \in HostGoing /\ request[r].app = a)
  <2>1. ~On(a, HostGoing)
    BY <1>0, <1>3 DEF On
  <2>2. PICK p \in active_parents(a) : parents[p].type = "RIGHTSIZER_PARENT"
    BY <1>1, <2>1 DEF HostInv, HasHostParent
  <2>3. p \in ParentIds /\ parents[p] # None /\ parents[p].application = a
    BY <2>2 DEF active_parents
  <2>4. parents'[p] = parents[p]
    <3>1. ~(request'[r].op = "delete parents" /\ request'[r].app = a)
      BY <1>0 DEF HostGoing
    <3> QED  BY <2>2, <2>3, <3>1, HostParentStays
  <2> QED  BY <2>2, <2>4 DEF HasHostParent, active_parents
<1> QED  BY <1>2, <1>3

LEMMA HostNext ==
  ASSUME TypeInv, Agreed, HostInv, [Next]_vars
  PROVE  HostInv'
<1>1. ASSUME UNCHANGED <<apps, parents, died>>, request' = request
      PROVE  HostInv'
  BY <1>1 DEF HostInv, Active, On, HasHostParent, active_parents
<1>2. ASSUME NEW r \in Requests, Died(r)
      PROVE  HostInv'
  <2>1. /\ UNCHANGED <<apps, parents>> /\ died' = died \cup request[r].on
        /\ \A q \in Requests \ {r} : request'[q] = request[q]
    BY <1>2, OthersStay DEF Died, catalog
  <2>2. ASSUME NEW a \in AppIds, Active(a, "RIGHTSIZER"), <<"app", a>> \notin died', ~On(a, HostGoing)'
        PROVE  ~On(a, HostGoing)
    <3>1. ASSUME request[r].op \in HostGoing, request[r].app = a
          PROVE  FALSE
      <4>1. request[r].op \in AppOps
        BY <3>1 DEF HostGoing, AppOps, HostOps, DeleteOps
      <4> QED  BY <2>1, <2>2, <3>1, <4>1, AppTodo
    <3> QED  BY <2>1, <2>2, <3>1 DEF On
  <2> QED  BY <2>1, <2>2 DEF HostInv, Active, HasHostParent, active_parents
<1>3. ASSUME NEW r \in Requests, Refers(r)
      PROVE  HostInv'
  <2>1. /\ UNCHANGED <<apps, parents, died>> /\ request[r].op \notin HostGoing
        /\ \A q \in Requests \ {r} : request'[q] = request[q]
    BY <1>3, OthersStay DEF Refers, ReferenceMove, catalog, HostGoing, ReferenceOps
  <2>2. \A a \in AppIds : On(a, HostGoing) => On(a, HostGoing)'
    BY <2>1 DEF On
  <2> QED  BY <2>1, <2>2 DEF HostInv, Active, HasHostParent, active_parents
<1>4. ASSUME NEW r \in Requests, (Acts(r) /\ CatalogAct(r)) \/ (Moves(r) /\ AlgorithmSynced(r))
      PROVE  HostInv'
  <2>1. Moves(r) /\ died \subseteq died'
    BY <1>4 DEF Acts, AlgorithmSynced
  <2> QED  BY <1>4, <2>1, HostActs
<1>5. ASSUME NEW p \in ParentIds, ParentRemoved(p)
      PROVE  HostInv'
  <2>1. UNCHANGED <<apps, died>> /\ request' = request
    BY <1>5 DEF ParentRemoved, Deletes
  <2>2. ASSUME NEW q \in ParentIds, parents[q] # None, parents[q].type = "RIGHTSIZER_PARENT"
        PROVE  parents'[q] = parents[q]
    <3>1. q # p
      BY <1>5, <2>2, OfOtherType DEF ParentRemoved, Agreed
    <3> QED  BY <1>5, <3>1 DEF ParentRemoved, TypeInv, ParentsType
  <2>3. \A a \in AppIds : HasHostParent(a) => HasHostParent(a)'
    BY <2>2 DEF HasHostParent, active_parents
  <2> QED  BY <2>1, <2>3 DEF HostInv, Active, On
<1>6. CASE Removed
  BY <1>1, <1>6 DEF Removed, Deletes
<1>7. CASE UNCHANGED vars
  BY <1>1, <1>7 DEF vars, control, catalog
<1> QED  BY <1>2, <1>3, <1>4, <1>5, <1>6, <1>7, NextCases

LEMMA InitHost ==
  ASSUME Init
  PROVE  HostInv
<1>1. PICK c \in Customers, k \in Keys :
        apps = [a \in AppIds |-> IF a = 1 THEN [Application(c, "RIGHTSIZER_LICENSES") EXCEPT !.key = k] ELSE None]
  BY DEF Init
<1>2. [Application(c, "RIGHTSIZER_LICENSES") EXCEPT !.key = k].type = "RIGHTSIZER_LICENSES"
  BY DEF Application
<1> QED  BY <1>1, <1>2 DEF HostInv, Active

-----------------------------------------------------------------------------
(* The secrets of the applications                                         *)

SecretOps == {"save application", "delete application", "delete secret", "replace secret"}

\* Only the secret of the application that a request names is written.
SecretWrites(r) ==
  \/ secrets' = secrets
  \/ request[r].op \in AppOps /\ \A b \in AppIds \ {request[r].app} : b \in secrets' <=> b \in secrets

\* A step keeps the secrets if it does so for the application that it works on.
LEMMA SecretsFrame ==
  ASSUME TypeInv, Agreed, Overlap, Alone, SecretsInv, NEW r \in Requests, Moves(r), AppWrites(r), SecretWrites(r),
         died \subseteq died',
         \A a \in AppIds : request[r].op \in AppOps /\ request[r].app = a => SecretDue(a)',
         SecretTodo(request[r])'
  PROVE  SecretsInv'
<1>0. /\ mixed \subseteq mixed' /\ \A q \in Requests \ {r} : request'[q] = request[q]
      /\ SecretOps \subseteq AppOps
  BY OthersStay DEF SecretOps, AppOps, HostOps, DeleteOps, PasswordOps
<1>1. ASSUME NEW a \in AppIds, ~(request[r].op \in AppOps /\ request[r].app = a)
      PROVE  apps'[a] = apps[a] /\ (a \in secrets' <=> a \in secrets)
  BY <1>1 DEF AppWrites, SecretWrites
<1>2. ASSUME NEW a \in AppIds, ~(request[r].op \in AppOps /\ request[r].app = a)
      PROVE  SecretDue(a)'
  <2>1. apps'[a] = apps[a] /\ (a \in secrets' <=> a \in secrets)
    BY <1>1, <1>2
  <2>2. ASSUME NEW ops, ops \subseteq AppOps, On(a, ops)
        PROVE  On(a, ops)'
    BY <1>0, <1>2, <2>2 DEF On
  <2>3. On(a, {"replace secret", "delete application"}) => On(a, {"replace secret", "delete application"})'
    BY <1>0, <2>2 DEF SecretOps
  <2>4. On(a, {"save application"}) => On(a, {"save application"})'
    BY <1>0, <2>2 DEF SecretOps
  <2> QED  BY <1>0, <2>1, <2>3, <2>4 DEF SecretsInv, SecretDue
<1>3. ASSUME NEW q \in Requests \ {r}
      PROVE  SecretTodo(request[q])'
  <2> DEFINE x == request[q]
  <2>1. x' = x /\ SecretTodo(x)
    BY <1>0 DEF SecretsInv
  <2>2. CASE x.op \notin SecretOps
    BY <2>1, <2>2 DEF SecretTodo, SecretOps
  <2>3. CASE x.op \in SecretOps /\ request[r].op \in AppOps /\ request[r].app = x.app
    <3>1. <<"app", x.app>> \in mixed
      BY <1>0, <2>3, BothWork
    <3>2. x.op # "save application"
      BY <2>3 DEF Alone
    <3> QED  BY <1>0, <2>1, <3>1, <3>2 DEF SecretTodo
  <2>4. CASE x.op \in SecretOps /\ ~(request[r].op \in AppOps /\ request[r].app = x.app)
    <3>1. x.app \in AppIds
      BY <1>0, <2>4, AppTodo
    <3>2. apps'[x.app] = apps[x.app] /\ (x.app \in secrets' <=> x.app \in secrets)
      BY <1>1, <2>4, <3>1
    <3> QED  BY <1>0, <2>1, <3>2 DEF SecretTodo
  <2> QED  BY <2>2, <2>3, <2>4
<1> QED  BY <1>2, <1>3 DEF SecretsInv

LEMMA ActSecrets ==
  ASSUME TypeInv, NEW r \in Requests, CatalogAct(r) \/ AlgorithmSynced(r)
  PROVE  SecretWrites(r)
<1>1. CASE SecretSaved(r) \/ SecretDropped(r) \/ SecretReplaced(r) \/ SecretDeleted(r)
  BY <1>1 DEF SecretSaved, SecretDropped, SecretReplaced, SecretDeleted, Goes, SecretWrites, AppOps, HostOps,
              PasswordOps, DeleteOps
<1>2. CASE ~(SecretSaved(r) \/ SecretDropped(r) \/ SecretReplaced(r) \/ SecretDeleted(r))
  BY <1>2
  DEF CatalogAct, HostAct, PasswordAct, DeleteAct, ParentAct, SyncAct, Creates, ApplicationSaved, HostParentSaved,
      PasswordStarts, ApplicationUpdated, DeleteStarts, ParentMarked, AllMarked, ApplicationMarked, ParentDeleted,
      ApplicationDeleted, ParentStarts, ParentSaved, EditStarts, MetaSaved, SyncStarts, LicenseAsked, LicenseUpdated,
      AlgorithmFound, SyncEnds, AlgorithmSynced, SecretWrites, catalog
<1> QED  BY <1>1, <1>2

SameApps ==
  \A a \in AppIds : /\ apps'[a] = None <=> apps[a] = None
                    /\ apps[a] # None => apps'[a].type = apps[a].type

\* Steps that neither write a secret nor create or remove an application.
Quiet(r) ==
  /\ secrets' = secrets /\ request'[r].op \notin SecretOps /\ SameApps
  /\ request[r].op \notin {"save application", "replace secret", "delete application"}

LEMMA QuietSecrets ==
  ASSUME TypeInv, SecretsInv, NEW r \in Requests, Moves(r), died \subseteq died', Quiet(r)
  PROVE  /\ \A a \in AppIds : SecretDue(a)'
         /\ SecretTodo(request[r])'
<1>1. mixed \subseteq mixed' /\ \A q \in Requests \ {r} : request'[q] = request[q]
  BY OthersStay
<1>2. ASSUME NEW a \in AppIds
      PROVE  SecretDue(a)'
  <2>1. On(a, {"replace secret", "delete application"}) => On(a, {"replace secret", "delete application"})'
    BY <1>1 DEF Quiet, On
  <2>2. On(a, {"save application"}) => On(a, {"save application"})'
    BY <1>1 DEF Quiet, On
  <2> QED  BY <1>1, <2>1, <2>2 DEF SecretsInv, SecretDue, Quiet, SameApps
<1>3. SecretTodo(request[r])'
  BY DEF Quiet, SecretTodo, SecretOps
<1> QED  BY <1>2, <1>3

\* The steps that write a secret, or an application that was not there.
LEMMA SecretSteps ==
  ASSUME TypeInv, Alone, SecretsInv, NEW r \in Requests, Moves(r), died' = died,
         \/ SecretSaved(r) \/ ApplicationSaved(r) \/ SecretDropped(r) \/ SecretReplaced(r)
         \/ SecretDeleted(r) \/ ApplicationDeleted(r) \/ LicenseUpdated(r)
  PROVE  /\ \A a \in AppIds : request[r].op \in AppOps /\ request[r].app = a => SecretDue(a)'
         /\ SecretTodo(request[r])'
<1> DEFINE x == request[r]
           a == x.app
           tag == <<"app", a>>
<1>0. AppsType /\ CatalogTodo(x) /\ mixed \subseteq mixed' /\ SecretTodo(x)
  BY OthersStay DEF TypeInv, RequestType, TodoOK, SecretsInv
<1>1. /\ x.op \in {"create secret", "save application", "delete secret", "replace secret", "delete parents",
                   "delete application", "update license"}
      /\ x.op \in AppOps
  BY DEF SecretSaved, ApplicationSaved, SecretDropped, SecretReplaced, SecretDeleted, ApplicationDeleted,
         LicenseUpdated, Goes, Ends, AppOps, HostOps, PasswordOps, DeleteOps, LicenseOps
<1>2. a \in AppIds
  BY <1>1, AppTodo
<1> DEFINE Due1 == apps'[a] # None /\ apps'[a].type # "RIGHTSIZER_LICENSES" /\ tag \notin died' =>
                     a \in secrets' \/ (request'[r].op \in {"replace secret", "delete application"} /\ request'[r].app = a)
           Due2 == a \in secrets' /\ tag \notin mixed' \cup died' =>
                     apps'[a] # None \/ (request'[r].op = "save application" /\ request'[r].app = a)
<1>3. ASSUME Due1, Due2, SecretTodo(request[r])'
      PROVE  /\ \A b \in AppIds : x.op \in AppOps /\ x.app = b => SecretDue(b)'
             /\ SecretTodo(request[r])'
  <2>1. ASSUME NEW b \in AppIds, x.app = b
        PROVE  SecretDue(b)'
    BY <1>3, <2>1 DEF SecretDue, On
  <2> QED  BY <1>3, <2>1
<1>4. CASE SecretSaved(r)
  <2>1. a \in secrets' /\ request'[r].op = "save application" /\ request'[r].app = a
    BY <1>4 DEF SecretSaved, Goes
  <2>2. SecretTodo(request[r])'
    BY <2>1 DEF SecretTodo
  <2> QED  BY <1>3, <2>1, <2>2
<1>5. CASE ApplicationSaved(r)
  <2>1. apps'[a] = x.document /\ x.document \in ApplicationDoc /\ x.op = "save application" /\ secrets' = secrets
    BY <1>0, <1>2, <1>5 DEF ApplicationSaved, AppsType, CatalogTodo, HostTodo, HostOps
  <2>2. apps'[a] # None
    BY <2>1, DocumentAssumption
  <2>3. x.document.type = "RIGHTSIZER_LICENSES" \/ a \in secrets
    BY <1>0, <2>1 DEF SecretTodo
  <2>4. SecretTodo(request[r])'
    <3>1. request'[r].op \notin SecretOps
      BY <1>5, IdleOp DEF ApplicationSaved, Goes, SecretOps
    <3> QED  BY <3>1 DEF SecretTodo, SecretOps
  <2> QED  BY <1>3, <2>1, <2>2, <2>3, <2>4
<1>6. CASE SecretDropped(r)
  <2>1. /\ a \notin secrets' /\ request'[r].op = "replace secret" /\ request'[r].app = a /\ apps' = apps
        /\ x.op = "delete secret"
    BY <1>6 DEF SecretDropped, Goes
  <2>2. SecretTodo(request[r])'
    BY <1>0, <2>1 DEF SecretTodo
  <2> QED  BY <1>3, <2>1, <2>2
<1>7. CASE SecretReplaced(r)
  <2>1. a \in secrets' /\ request'[r].op = "update application" /\ x.op = "replace secret" /\ apps' = apps
    BY <1>7 DEF SecretReplaced, Goes
  <2>2. tag \notin mixed' => apps'[a] # None
    BY <1>0, <2>1 DEF SecretTodo
  <2>3. SecretTodo(request[r])'
    BY <2>1 DEF SecretTodo
  <2> QED  BY <1>3, <2>1, <2>2, <2>3
<1>8. CASE SecretDeleted(r)
  <2>1. a \notin secrets' /\ request'[r].op = "delete application" /\ request'[r].app = a
    BY <1>8 DEF SecretDeleted, Goes
  <2>2. SecretTodo(request[r])'
    BY <2>1 DEF SecretTodo
  <2> QED  BY <1>3, <2>1, <2>2
<1>9. CASE ApplicationDeleted(r)
  <2>1. apps'[a] = None /\ x.op = "delete application" /\ secrets' = secrets /\ request'[r] = Idle
    BY <1>0, <1>2, <1>9 DEF ApplicationDeleted, Ends, AppsType
  <2>2. tag \notin mixed' => a \notin secrets'
    BY <1>0, <2>1 DEF SecretTodo
  <2>3. SecretTodo(request[r])'
    BY <2>1, IdleOp DEF SecretTodo
  <2> QED  BY <1>3, <2>1, <2>2, <2>3
<1>10. CASE LicenseUpdated(r)
  <2>1. x.op = "update license" /\ request'[r].op = "sync algorithms" /\ secrets' = secrets
        /\ apps' = [apps EXCEPT ![a] = [x.document EXCEPT !.algorithms = x.listed]]
    BY <1>10 DEF LicenseUpdated, Goes
  <2>2. x \in UpdateTodo /\ x.document \in ApplicationDoc /\ x.document.type = "RIGHTSIZER_LICENSES"
    BY <1>0, <2>1 DEF CatalogTodo, LicensedDoc
  <2>3. [x.document EXCEPT !.algorithms = x.listed] \in ApplicationDoc
        /\ [x.document EXCEPT !.algorithms = x.listed].type = "RIGHTSIZER_LICENSES"
    BY <2>2 DEF UpdateTodo, ApplicationDoc
  <2>4. apps'[a] # None /\ apps'[a].type = "RIGHTSIZER_LICENSES"
    BY <1>0, <1>2, <2>1, <2>3, DocumentAssumption DEF AppsType
  <2>5. SecretTodo(request[r])'
    BY <2>1 DEF SecretTodo
  <2> QED  BY <1>3, <2>4, <2>5
<1> QED  BY <1>4, <1>5, <1>6, <1>7, <1>8, <1>9, <1>10

LEMMA QuietSteps ==
  ASSUME TypeInv, NEW r \in Requests,
         \/ HostParentSaved(r) \/ ApplicationUpdated(r) \/ DeleteStarts(r) \/ ParentMarked(r) \/ AllMarked(r)
         \/ ApplicationMarked(r) \/ ParentDeleted(r) \/ ParentAct(r) \/ SyncStarts(r) \/ LicenseAsked(r)
         \/ AlgorithmFound(r) \/ SyncEnds(r) \/ AlgorithmSynced(r)
  PROVE  Quiet(r)
<1>0. AppsType
  BY DEF TypeInv
<1>1. /\ secrets' = secrets
      /\ request'[r].op \notin SecretOps
      /\ request[r].op \notin {"save application", "replace secret", "delete application"}
  BY IdleOp
  DEF HostParentSaved, ApplicationUpdated, DeleteStarts, ParentMarked, AllMarked, ApplicationMarked, ParentDeleted,
      ParentAct, ParentStarts, ParentSaved, EditStarts, MetaSaved, SyncStarts, LicenseAsked, AlgorithmFound, SyncEnds,
      AlgorithmSynced, Starts, Goes, Ends, SecretOps, EditOps, catalog
<1>2. SameApps => Quiet(r)
  BY <1>1 DEF Quiet
<1>3. CASE ApplicationUpdated(r) \/ ApplicationMarked(r)
  <2> DEFINE b == request[r].app
  <2>0. b \in AppIds
    <3>1. request[r].op \in AppOps
      BY <1>3 DEF ApplicationUpdated, ApplicationMarked, Ends, AppOps, PasswordOps, DeleteOps
    <3> QED  BY <3>1, AppTodo
  <2>1. CASE apps[b] = None
    <3>1. apps' = apps
      BY <1>3, <2>1 DEF ApplicationUpdated, ApplicationMarked
    <3> QED  BY <1>2, <3>1 DEF SameApps
  <2>2. CASE apps[b] # None
    <3>1. apps[b] \in ApplicationDoc
      BY <1>0, <2>0, <2>2 DEF AppsType
    <3>2. \E d \in ApplicationDoc : apps' = [apps EXCEPT ![b] = d] /\ d.type = apps[b].type
      <4>1. CASE ApplicationUpdated(r)
        BY <2>2, <4>1 DEF ApplicationUpdated
      <4>2. CASE ApplicationMarked(r)
        <5> DEFINE d == [apps[b] EXCEPT !.deleted = TRUE]
        <5>1. d \in ApplicationDoc /\ d.type = apps[b].type
          BY <3>1 DEF ApplicationDoc
        <5>2. apps' = [apps EXCEPT ![b] = d]
          BY <1>0, <2>0, <2>2, <4>2 DEF ApplicationMarked, AppsType
        <5> HIDE DEF d
        <5> QED  BY <5>1, <5>2
      <4> QED  BY <1>3, <4>1, <4>2
    <3>3. PICK d \in ApplicationDoc : apps' = [apps EXCEPT ![b] = d] /\ d.type = apps[b].type
      BY <3>2
    <3>4. apps'[b] = d /\ d # None /\ \A a \in AppIds \ {b} : apps'[a] = apps[a]
      BY <1>0, <2>0, <3>3, DocumentAssumption DEF AppsType
    <3>5. SameApps
      BY <2>2, <3>3, <3>4 DEF SameApps
    <3> QED  BY <1>2, <3>5
  <2> QED  BY <2>1, <2>2
<1>4. CASE ~(ApplicationUpdated(r) \/ ApplicationMarked(r))
  <2>1. apps' = apps
    BY <1>4
    DEF HostParentSaved, DeleteStarts, ParentMarked, AllMarked, ParentDeleted, ParentAct, ParentStarts, ParentSaved,
        EditStarts, MetaSaved, SyncStarts, LicenseAsked, AlgorithmFound, SyncEnds, AlgorithmSynced, catalog
  <2> QED  BY <1>2, <2>1 DEF SameApps
<1> QED  BY <1>3, <1>4

LEMMA SecretsNext ==
  ASSUME TypeInv, Agreed, Overlap, Alone, SecretsInv, [Next]_vars
  PROVE  SecretsInv'
<1>1. ASSUME UNCHANGED <<apps, secrets, died>>, request' = request, mixed \subseteq mixed'
      PROVE  SecretsInv'
  BY <1>1 DEF SecretsInv, SecretDue, SecretTodo, On
<1>2. ASSUME NEW r \in Requests, Died(r) \/ Refers(r)
      PROVE  SecretsInv'
  <2>1. Moves(r) /\ UNCHANGED catalog /\ request'[r].op \in {"none"} \cup ReferenceOps
    BY <1>2, IdleOp DEF Died, Refers, ReferenceMove
  <2>2. AppWrites(r) /\ SecretWrites(r)
    BY <2>1 DEF AppWrites, SecretWrites, ReferenceOps, AppOps, HostOps, PasswordOps, DeleteOps, LicenseOps, catalog
  <2>3. SecretTodo(request[r])'
    BY <2>1 DEF SecretTodo, ReferenceOps
  <2>4. died \subseteq died'
    BY <1>2 DEF Died, Refers, ReferenceMove
  <2>5. ASSUME NEW a \in AppIds, request[r].op \in AppOps, request[r].app = a
        PROVE  SecretDue(a)'
    <3>1. Died(r)
      BY <1>2, <2>5 DEF Refers, ReferenceMove, ReferenceOps, AppOps, HostOps, PasswordOps, DeleteOps, LicenseOps
    <3>2. <<"app", a>> \in died'
      BY <2>5, <3>1, AppTodo DEF Died
    <3> QED  BY <3>2 DEF SecretDue
  <2> QED  BY <2>1, <2>2, <2>3, <2>4, <2>5, SecretsFrame
<1>3. ASSUME NEW r \in Requests, (Acts(r) /\ CatalogAct(r)) \/ (Moves(r) /\ AlgorithmSynced(r))
      PROVE  SecretsInv'
  <2>1. Moves(r) /\ died \subseteq died' /\ ((CatalogAct(r) /\ died' = died) \/ AlgorithmSynced(r))
    BY <1>3 DEF Acts, AlgorithmSynced
  <2>2. AppWrites(r) /\ SecretWrites(r)
    BY <2>1, ActWrites, ActSecrets
  <2>3. /\ \A a \in AppIds : request[r].op \in AppOps /\ request[r].app = a => SecretDue(a)'
        /\ SecretTodo(request[r])'
    <3>1. CASE Creates(r)
      BY <3>1 DEF Creates, Starts, SecretTodo, AppOps, HostOps, PasswordOps, DeleteOps, LicenseOps
    <3>2. CASE PasswordStarts(r)
      BY <3>2 DEF PasswordStarts, Starts, SecretTodo, Active, catalog, AppOps, HostOps, PasswordOps, DeleteOps,
                  LicenseOps
    <3>3. CASE ~(Creates(r) \/ PasswordStarts(r))
      <4>1. \/ Quiet(r)
            \/ /\ died' = died
               /\ \/ SecretSaved(r) \/ ApplicationSaved(r) \/ SecretDropped(r) \/ SecretReplaced(r)
                  \/ SecretDeleted(r) \/ ApplicationDeleted(r) \/ LicenseUpdated(r)
        BY <2>1, <3>3, QuietSteps DEF CatalogAct, HostAct, PasswordAct, DeleteAct, SyncAct
      <4> QED  BY <2>1, <4>1, QuietSecrets, SecretSteps
    <3> QED  BY <3>1, <3>2, <3>3
  <2> QED  BY <2>1, <2>2, <2>3, SecretsFrame
<1>4. CASE (\E p \in ParentIds : ParentRemoved(p)) \/ Removed
  BY <1>1, <1>4 DEF ParentRemoved, Removed, Deletes
<1>5. CASE UNCHANGED vars
  BY <1>1, <1>5 DEF vars, control, catalog
<1> QED  BY <1>2, <1>3, <1>4, <1>5, NextCases

LEMMA InitSecrets ==
  ASSUME Init
  PROVE  SecretsInv
<1>1. PICK c \in Customers, k \in Keys :
        apps = [a \in AppIds |-> IF a = 1 THEN [Application(c, "RIGHTSIZER_LICENSES") EXCEPT !.key = k] ELSE None]
  BY DEF Init
<1>2. [Application(c, "RIGHTSIZER_LICENSES") EXCEPT !.key = k].type = "RIGHTSIZER_LICENSES"
  BY DEF Application
<1>3. secrets = {} /\ \A r \in Requests : request[r].op = "none"
  BY IdleOp DEF Init
<1> QED  BY <1>1, <1>2, <1>3 DEF SecretsInv, SecretDue, SecretTodo

-----------------------------------------------------------------------------
(* The algorithms of the licences                                          *)

ThereStays == \A n \in Algorithms : There(n) => There(n)'

LEMMA AlgorithmsRemain ==
  ASSUME TypeInv, NEW r \in Requests, Died(r) \/ Refers(r) \/ (CatalogAct(r) /\ UNCHANGED algorithms) \/ AlgorithmSynced(r)
  PROVE  ThereStays
<1>1. CASE Died(r) \/ Refers(r)
  BY <1>1 DEF Died, Refers, AlgorithmsKept, ThereStays, There, catalog
<1>2. CASE CatalogAct(r) /\ UNCHANGED algorithms
  <2>1. dropped' = dropped
    BY <1>2
    DEF CatalogAct, HostAct, PasswordAct, DeleteAct, ParentAct, SyncAct, Creates, SecretSaved, ApplicationSaved,
        HostParentSaved, PasswordStarts, SecretDropped, SecretReplaced, ApplicationUpdated, DeleteStarts, ParentMarked,
        AllMarked, ApplicationMarked, ParentDeleted, SecretDeleted, ApplicationDeleted, ParentStarts, ParentSaved,
        EditStarts, MetaSaved, SyncStarts, LicenseAsked, LicenseUpdated, AlgorithmFound, SyncEnds, catalog
  <2> QED  BY <1>2, <2>1 DEF ThereStays, There
<1>3. CASE AlgorithmSynced(r)
  BY <1>3 DEF AlgorithmSynced, ThereStays, There
<1> QED  BY <1>1, <1>2, <1>3

\* An application gets algorithms only from a synchronisation that is to save them.
LEMMA AlgorithmsListed ==
  ASSUME TypeInv, NEW r \in Requests, CatalogAct(r) \/ AlgorithmSynced(r), NEW a \in AppIds, apps'[a] # None,
         NEW n \in apps'[a].algorithms
  PROVE  \/ apps[a] # None /\ n \in apps[a].algorithms
         \/ Syncing(a, n)'
<1> DEFINE x == request[r]
<1>0. AppsType /\ CatalogTodo(x)
  BY DEF TypeInv, RequestType, TodoOK
<1>1. CASE ApplicationSaved(r)
  <2>1. x.op = "save application" /\ x.document.algorithms = {}
    BY <1>0, <1>1 DEF ApplicationSaved, CatalogTodo, CreatedDoc, HostOps
  <2>2. apps' = [apps EXCEPT ![x.app] = x.document]
    BY <1>1 DEF ApplicationSaved
  <2> QED  BY <1>0, <2>1, <2>2 DEF AppsType
<1>2. CASE ApplicationUpdated(r)
  <2>1. CASE apps[x.app] = None
    <3>1. apps' = apps
      BY <1>2, <2>1 DEF ApplicationUpdated
    <3> QED  BY <3>1
  <2>2. CASE apps[x.app] # None
    <3>1. PICK d \in ApplicationDoc : apps' = [apps EXCEPT ![x.app] = d] /\ d.algorithms = apps[x.app].algorithms
      BY <1>2, <2>2 DEF ApplicationUpdated
    <3> QED  BY <1>0, <2>2, <3>1 DEF AppsType
  <2> QED  BY <2>1, <2>2
<1>3. CASE ApplicationMarked(r)
  <2>1. apps[a] # None => apps[a] \in ApplicationDoc
    BY <1>0 DEF AppsType
  <2>2. apps[a] # None => [apps[a] EXCEPT !.deleted = TRUE].algorithms = apps[a].algorithms
    BY <2>1 DEF ApplicationDoc
  <2>3. apps' = IF apps[x.app] = None THEN apps ELSE [apps EXCEPT ![x.app] = [apps[x.app] EXCEPT !.deleted = TRUE]]
    BY <1>3 DEF ApplicationMarked
  <2> QED  BY <1>0, <2>2, <2>3 DEF AppsType
<1>4. CASE ApplicationDeleted(r)
  BY <1>0, <1>4 DEF ApplicationDeleted, AppsType
<1>5. CASE LicenseUpdated(r)
  <2>1. /\ x.op = "update license" /\ request'[r].op = "sync algorithms" /\ request'[r].app = x.app
        /\ request'[r].listed = x.listed
        /\ apps' = [apps EXCEPT ![x.app] = [x.document EXCEPT !.algorithms = x.listed]]
    BY <1>5 DEF LicenseUpdated, Goes
  <2>2. x.document \in ApplicationDoc
    BY <1>0, <2>1 DEF CatalogTodo, LicensedDoc
  <2>3. [x.document EXCEPT !.algorithms = x.listed].algorithms = x.listed
    BY <2>2 DEF ApplicationDoc
  <2>4. CASE a = x.app
    BY <1>0, <2>1, <2>3, <2>4 DEF AppsType, Syncing
  <2>5. CASE a # x.app
    BY <1>0, <2>1, <2>5 DEF AppsType
  <2> QED  BY <2>4, <2>5
<1>6. CASE ~(ApplicationSaved(r) \/ ApplicationUpdated(r) \/ ApplicationMarked(r) \/ ApplicationDeleted(r)
              \/ LicenseUpdated(r))
  <2>1. apps' = apps
    BY <1>6
    DEF CatalogAct, HostAct, PasswordAct, DeleteAct, ParentAct, SyncAct, Creates, SecretSaved, HostParentSaved,
        PasswordStarts, SecretDropped, SecretReplaced, DeleteStarts, ParentMarked, AllMarked, ParentDeleted,
        SecretDeleted, ParentStarts, ParentSaved, EditStarts, MetaSaved, SyncStarts, LicenseAsked,
        AlgorithmFound, SyncEnds, AlgorithmSynced, catalog
  <2> QED  BY <2>1
<1> QED  BY <1>1, <1>2, <1>3, <1>4, <1>5, <1>6

\* A synchronisation goes on until all are there, or is cut short.
LEMMA SyncingStays ==
  ASSUME TypeInv, SyncInv, NEW r \in Requests, (CatalogAct(r) /\ UNCHANGED algorithms) \/ AlgorithmSynced(r),
         NEW a \in AppIds, <<"app", a>> \notin died', NEW n \in Algorithms,
         request[r].op \in {"sync algorithms", "save algorithm"}, request[r].app = a,
         n \in request[r].listed \/ (request[r].op = "save algorithm" /\ n = request[r].name)
  PROVE  There(n)' \/ Syncing(a, n)'
<1> DEFINE x == request[r]
<1>0. CatalogTodo(x) /\ x.op \in AppOps /\ <<"app", a>> \in x.on
  <2>1. x.op \in AppOps
    BY DEF AppOps, LicenseOps
  <2> QED  BY <2>1, AppTodo DEF TypeInv, RequestType, TodoOK
<1>1. CASE AlgorithmFound(r)
  <2>1. x.op = "sync algorithms" /\ request'[r].op = "save algorithm" /\ request'[r].app = a
    BY <1>1 DEF AlgorithmFound, Goes
  <2>2. n \in request'[r].listed \/ n = request'[r].name
    BY <1>1, <2>1 DEF AlgorithmFound
  <2> QED  BY <2>1, <2>2 DEF Syncing
<1>2. CASE AlgorithmSynced(r)
  <2>1. /\ x.op = "save algorithm" /\ x.name \in Algorithms
        /\ request'[r].op = "sync algorithms" /\ request'[r].app = a /\ request'[r].listed = x.listed
    BY <1>0, <1>2 DEF AlgorithmSynced, Goes, CatalogTodo
  <2>2. CASE n \in x.listed
    BY <2>1, <2>2 DEF Syncing
  <2>3. CASE n = x.name
    <3>1. CASE x.id = None
      BY <1>2, <2>3, <3>1 DEF AlgorithmSynced, There
    <3>2. CASE x.id # None
      <4>1. There(n)
        BY <2>1, <2>3, <3>2 DEF SyncInv
      <4> QED  BY <1>2, <2>1, <2>3, <4>1, AlgorithmsRemain DEF ThereStays
    <3> QED  BY <3>1, <3>2
  <2> QED  BY <2>1, <2>2, <2>3
<1>3. ~SyncEnds(r)
  BY DEF SyncEnds
<1>4. CatalogAct(r) => AlgorithmFound(r)
  BY <1>3
  DEF CatalogAct, HostAct, PasswordAct, DeleteAct, ParentAct, SyncAct, Creates, SecretSaved, ApplicationSaved,
      HostParentSaved, PasswordStarts, SecretDropped, SecretReplaced, ApplicationUpdated, DeleteStarts, ParentMarked,
      AllMarked, ApplicationMarked, ParentDeleted, SecretDeleted, ApplicationDeleted, ParentStarts, ParentSaved,
      EditStarts, MetaSaved, SyncStarts, LicenseAsked, LicenseUpdated, Starts, Goes, Ends, EditOps
<1> QED  BY <1>1, <1>2, <1>4

LEMMA SyncActs ==
  ASSUME TypeInv, SyncInv, NEW r \in Requests, Moves(r), (CatalogAct(r) /\ UNCHANGED algorithms) \/ AlgorithmSynced(r),
         died \subseteq died'
  PROVE  SyncInv'
<1>0. /\ AppsType /\ ThereStays /\ CatalogTodo(request[r])
      /\ \A q \in Requests \ {r} : request'[q] = request[q]
  BY OthersStay, AlgorithmsRemain DEF TypeInv, RequestType, TodoOK
<1>1. ASSUME NEW a \in AppIds, apps'[a] # None, <<"app", a>> \notin died', NEW n \in apps'[a].algorithms
      PROVE  There(n)' \/ Syncing(a, n)'
  <2>1. CASE apps[a] # None /\ n \in apps[a].algorithms
    <3>1. n \in Algorithms
      BY <1>0, <2>1 DEF AppsType, ApplicationDoc
    <3>2. There(n) \/ Syncing(a, n)
      BY <1>1, <2>1 DEF SyncInv
    <3>3. CASE There(n)
      BY <1>0, <3>1, <3>3 DEF ThereStays
    <3>4. CASE Syncing(a, n)
      <4>1. PICK q \in Requests :
              /\ request[q].op \in {"sync algorithms", "save algorithm"} /\ request[q].app = a
              /\ n \in request[q].listed \/ (request[q].op = "save algorithm" /\ n = request[q].name)
        BY <3>4 DEF Syncing
      <4>2. CASE q # r
        BY <1>0, <4>1, <4>2 DEF Syncing
      <4>3. CASE q = r
        <5>1. /\ request[r].op \in {"sync algorithms", "save algorithm"} /\ request[r].app = a
              /\ n \in request[r].listed \/ (request[r].op = "save algorithm" /\ n = request[r].name)
          BY <4>1, <4>3
        <5> QED  BY <1>1, <3>1, <5>1, SyncingStays
      <4> QED  BY <4>2, <4>3
    <3> QED  BY <3>2, <3>3, <3>4
  <2> QED  BY <1>1, <2>1, AlgorithmsListed
<1>2. ASSUME NEW q \in Requests, request'[q].op = "save algorithm", request'[q].id # None
      PROVE  There(request[q].name)'
  <2>1. CASE q # r
    <3>1. request'[q] = request[q] /\ There(request[q].name)
      BY <1>0, <1>2, <2>1 DEF SyncInv
    <3>2. request[q].name \in Algorithms
      BY <1>2, <3>1 DEF TypeInv, RequestType, TodoOK, CatalogTodo
    <3> QED  BY <1>0, <3>1, <3>2 DEF ThereStays, There
  <2>2. CASE q = r
    <3>1. AlgorithmFound(r)
      BY <1>2, <2>2, IdleOp
      DEF CatalogAct, HostAct, PasswordAct, DeleteAct, ParentAct, SyncAct, Creates, SecretSaved, ApplicationSaved,
          HostParentSaved, PasswordStarts, SecretDropped, SecretReplaced, ApplicationUpdated, DeleteStarts, ParentMarked,
          AllMarked, ApplicationMarked, ParentDeleted, SecretDeleted, ApplicationDeleted, ParentStarts, ParentSaved,
          EditStarts, MetaSaved, SyncStarts, LicenseAsked, LicenseUpdated, SyncEnds, AlgorithmSynced, Starts, Goes, Ends,
          EditOps
    <3>2. algorithms[request'[r].name] # None /\ algorithms' = algorithms
      BY <1>2, <2>2, <3>1 DEF AlgorithmFound
    <3> QED  BY <2>2, <3>2 DEF There
  <2> QED  BY <2>1, <2>2
<1> QED  BY <1>1, <1>2 DEF SyncInv, There

LEMMA SyncNext ==
  ASSUME TypeInv, SyncInv, [Next]_vars
  PROVE  SyncInv'
<1>0. /\ \A a \in AppIds : apps[a] # None => apps[a].algorithms \subseteq Algorithms
      /\ \A r \in Requests : request[r].op = "save algorithm" => request[r].name \in Algorithms
  BY DEF TypeInv, AppsType, ApplicationDoc, RequestType, TodoOK, CatalogTodo
<1>1. ASSUME UNCHANGED <<apps, died>>, request' = request, ThereStays
      PROVE  SyncInv'
  <2>1. \A a \in AppIds : \A n : Syncing(a, n) => Syncing(a, n)'
    BY <1>1 DEF Syncing
  <2>2. ASSUME NEW r \in Requests, request[r].op = "save algorithm", request[r].id # None
        PROVE  There(request[r].name)'
    <3>1. There(request[r].name) /\ request[r].name \in Algorithms
      BY <1>0, <2>2 DEF SyncInv
    <3> QED  BY <1>1, <3>1 DEF ThereStays, There
  <2>3. ASSUME NEW a \in AppIds, apps[a] # None, <<"app", a>> \notin died, NEW n \in apps[a].algorithms
        PROVE  There(n)' \/ Syncing(a, n)'
    BY <1>0, <1>1, <2>1, <2>3 DEF SyncInv, ThereStays
  <2> QED  BY <1>1, <2>2, <2>3 DEF SyncInv
<1>2. ASSUME NEW r \in Requests, Died(r) \/ Refers(r)
      PROVE  SyncInv'
  <2>1. /\ apps' = apps /\ ThereStays /\ died \subseteq died'
        /\ request'[r].op \in {"none"} \cup ReferenceOps
        /\ \A q \in Requests \ {r} : request'[q] = request[q]
    BY <1>2, AlgorithmsRemain, OthersStay, IdleOp DEF Died, Refers, ReferenceMove, catalog
  <2>2. ASSUME NEW a \in AppIds, NEW n, <<"app", a>> \notin died', Syncing(a, n)
        PROVE  Syncing(a, n)'
    <3>1. PICK q \in Requests :
            /\ request[q].op \in {"sync algorithms", "save algorithm"} /\ request[q].app = a
            /\ n \in request[q].listed \/ (request[q].op = "save algorithm" /\ n = request[q].name)
      BY <2>2 DEF Syncing
    <3>2. q # r
      <4>1. Died(r) /\ q = r => FALSE
        BY <2>2, <3>1, AppTodo DEF Died, AppOps, LicenseOps
      <4>2. Refers(r) /\ q = r => FALSE
        BY <3>1 DEF Refers, ReferenceMove, ReferenceOps
      <4> QED  BY <1>2, <4>1, <4>2
    <3> QED  BY <2>1, <3>1, <3>2 DEF Syncing
  <2>3. ASSUME NEW q \in Requests, request'[q].op = "save algorithm", request'[q].id # None
        PROVE  There(request[q].name)'
    <3>1. request'[q] = request[q]
      BY <2>1, <2>3 DEF ReferenceOps
    <3>2. There(request[q].name) /\ request[q].name \in Algorithms
      BY <1>0, <2>3, <3>1 DEF SyncInv
    <3> QED  BY <2>1, <3>1, <3>2 DEF ThereStays, There
  <2>4. ASSUME NEW a \in AppIds, apps[a] # None, <<"app", a>> \notin died', NEW n \in apps[a].algorithms
        PROVE  There(n)' \/ Syncing(a, n)'
    BY <1>0, <2>1, <2>2, <2>4 DEF SyncInv, ThereStays
  <2> QED  BY <2>1, <2>3, <2>4 DEF SyncInv, There
<1>3. ASSUME NEW r \in Requests, (Acts(r) /\ CatalogAct(r) /\ UNCHANGED algorithms) \/ (Moves(r) /\ AlgorithmSynced(r))
      PROVE  SyncInv'
  <2>1. Moves(r) /\ died \subseteq died'
    BY <1>3 DEF Acts, AlgorithmSynced
  <2> QED  BY <1>3, <2>1, SyncActs
<1>4. CASE (\E p \in ParentIds : ParentRemoved(p)) \/ Removed
  BY <1>1, <1>4 DEF ParentRemoved, Removed, Deletes, ThereStays, There
<1>5. CASE UNCHANGED vars
  BY <1>1, <1>5 DEF vars, control, reference, catalog, ThereStays, There
<1> QED  BY <1>2, <1>3, <1>4, <1>5, NextCases

LEMMA InitSync ==
  ASSUME Init
  PROVE  SyncInv
<1>1. PICK c \in Customers, k \in Keys :
        apps = [a \in AppIds |-> IF a = 1 THEN [Application(c, "RIGHTSIZER_LICENSES") EXCEPT !.key = k] ELSE None]
  BY DEF Init
<1>2. [Application(c, "RIGHTSIZER_LICENSES") EXCEPT !.key = k].algorithms = {}
  BY DEF Application
<1>3. \A r \in Requests : request[r].op = "none"
  BY IdleOp DEF Init
<1> QED  BY <1>1, <1>2, <1>3 DEF SyncInv

-----------------------------------------------------------------------------
(* What the health check says                                              *)

LEMMA Passing ==
  ASSUME NEW check \in BOOLEAN
  PROVE  status({TRUE, check}) = "OK" <=> check
<1>1. CASE check = TRUE
  BY <1>1 DEF status
<1>2. CASE check = FALSE
  <2>1. {TRUE, check} # {TRUE}
    BY <1>2
  <2> QED  BY <1>2, <2>1 DEF status
<1> QED  BY <1>1, <1>2

LEMMA HostHasPair ==
  ASSUME TypeInv, HostInv, NEW a \in hosts, ~Busy(<<"app", a>>), <<"app", a>> \notin died
  PROVE  a \in AppIds /\ pairs # {}
<1>1. a \in AppIds /\ Active(a, "RIGHTSIZER")
  BY DEF hosts
<1>2. ~On(a, HostGoing)
  <2>1. HostGoing \subseteq AppOps
    BY DEF HostGoing, AppOps, HostOps, DeleteOps
  <2> QED  BY <2>1, AppTodo DEF On, Busy
<1>3. PICK p \in active_parents(a) : parents[p].type = "RIGHTSIZER_PARENT"
  BY <1>1, <1>2 DEF HostInv, HasHostParent
<1>4. <<a, p>> \in pairs
  BY <1>3 DEF pairs, active_parents
<1> QED  BY <1>1, <1>4

LEMMA StoragesOfHosts ==
  ASSUME TypeInv, NEW a \in hosts
  PROVE  /\ apps[a].input # None /\ apps[a].output # None
         /\ ApplicationStorageCheck(a) <=> storages[apps[a].input] # None /\ storages[apps[a].output] # None
<1>1. {apps[a].input, apps[a].output} \subseteq Storages
  BY DEF hosts, Active, TypeInv, AppsType
<1> QED  BY <1>1, DocumentAssumption DEF ApplicationStorageCheck

LEMMA ApplicationAnswer ==
  ASSUME NEW a \in hosts
  PROVE  LET found == CHOOSE result \in ApplicationCheckHandler : result.id = a
         IN  found.status = status({ApplicationConnectionCheck(a), ApplicationStorageCheck(a)})
<1> DEFINE s(b) == status({ApplicationConnectionCheck(b), ApplicationStorageCheck(b)})
           found == CHOOSE result \in ApplicationCheckHandler : result.id = a
<1>1. ApplicationCheckHandler = UNION {{[id |-> b, status |-> s(b)]} : b \in hosts}
  BY DEF ApplicationCheckHandler, Result
<1> HIDE DEF s
<1>2. [id |-> a, status |-> s(a)] \in ApplicationCheckHandler
  BY <1>1
<1>3. \A result \in ApplicationCheckHandler : \E b \in hosts : result.id = b /\ result.status = s(b)
  BY <1>1
<1>4. \E result \in ApplicationCheckHandler : result.id = a
  BY <1>2
<1>5. found \in ApplicationCheckHandler /\ found.id = a
  BY <1>4
<1>6. found.status = s(a)
  BY <1>3, <1>5
<1> QED  BY <1>6 DEF s

\* The results are of a pair, or the common one.
LEMMA OperationModeResults ==
  /\ \A p \in pairs : [id |-> <<"parent", p[2]>>, status |-> status({OperationModeConfigurationCheck(p)})]
                       \in OperationModeCheckHandler
  /\ [id |-> <<"COMMON">>, status |-> status({OperationModeCompatibilityCheck})] \in OperationModeCheckHandler
  /\ \A result \in OperationModeCheckHandler :
       \/ result.id = <<"COMMON">> /\ result.status = status({OperationModeCompatibilityCheck})
       \/ \E p \in pairs : /\ result.id = <<"parent", p[2]>>
                           /\ result.status = status({OperationModeConfigurationCheck(p)})
<1> DEFINE s(p) == status({OperationModeConfigurationCheck(p)})
           c == status({OperationModeCompatibilityCheck})
           common == [id |-> <<"COMMON">>, status |-> c]
           R == UNION {{[id |-> <<"parent", p[2]>>, status |-> s(p)]} : p \in pairs}
<1>1. OperationModeCheckHandler = R \cup {common}
  BY DEF OperationModeCheckHandler, Result
<1> HIDE DEF s, c
<1>2. ASSUME NEW p \in pairs
      PROVE  [id |-> <<"parent", p[2]>>, status |-> s(p)] \in R
  <2> DEFINE e(q) == [id |-> <<"parent", q[2]>>, status |-> s(q)]
  <2>1. R = UNION {{e(q)} : q \in pairs}
    OBVIOUS
  <2> HIDE DEF e, R
  <2>2. e(p) \in R
    BY <2>1
  <2> QED  BY <2>2 DEF e
<1>3. ASSUME NEW result \in R
      PROVE  \E p \in pairs : result.id = <<"parent", p[2]>> /\ result.status = s(p)
  <2>1. PICK S \in {{[id |-> <<"parent", p[2]>>, status |-> s(p)]} : p \in pairs} : result \in S
    OBVIOUS
  <2>2. PICK p \in pairs : S = {[id |-> <<"parent", p[2]>>, status |-> s(p)]}
    BY <2>1
  <2> QED  BY <2>1, <2>2
<1>4. common.id = <<"COMMON">> /\ common.status = c
  OBVIOUS
<1> HIDE DEF R
<1>5. /\ \A p \in pairs : [id |-> <<"parent", p[2]>>, status |-> s(p)] \in OperationModeCheckHandler
      /\ common \in OperationModeCheckHandler
  BY <1>1, <1>2
<1>6. \A result \in OperationModeCheckHandler :
        \/ result.id = <<"COMMON">> /\ result.status = c
        \/ \E p \in pairs : result.id = <<"parent", p[2]>> /\ result.status = s(p)
  BY <1>1, <1>3, <1>4
<1> QED  BY <1>5, <1>6 DEF s, c

LEMMA PairAnswer ==
  ASSUME TypeInv, NEW pair \in pairs, NEW p, pair[2] = p
  PROVE  LET found == CHOOSE result \in OperationModeCheckHandler : result.id = <<"parent", p>>
         IN  found.status = "OK"
<1> DEFINE id == <<"parent", p>>
           found == CHOOSE result \in OperationModeCheckHandler : result.id = id
<1>1. \A q \in pairs : q[1] \in hosts /\ OperationModeConfigurationCheck(q) = TRUE
  <2>1. ASSUME NEW q \in pairs
        PROVE  q[1] \in hosts
    BY DEF pairs
  <2> QED  BY <2>1, StoragesOfHosts DEF OperationModeConfigurationCheck
<1>2. \A q \in pairs : status({OperationModeConfigurationCheck(q)}) = "OK"
  BY <1>1 DEF status
<1>4. \A result \in OperationModeCheckHandler : result.id = <<"COMMON">> \/ result.status = "OK"
  BY <1>2, OperationModeResults
<1>5. [id |-> id, status |-> status({OperationModeConfigurationCheck(pair)})] \in OperationModeCheckHandler
  BY OperationModeResults
<1>6. \E result \in OperationModeCheckHandler : result.id = id
  BY <1>5
<1>7. found \in OperationModeCheckHandler /\ found.id = id
  BY <1>6
<1>8. id # <<"COMMON">>
  OBVIOUS
<1> QED  BY <1>4, <1>7, <1>8

LEMMA CommonAnswer ==
  ASSUME pairs # {}
  PROVE  LET found == CHOOSE result \in OperationModeCheckHandler : result.id = <<"COMMON">>
         IN  found.status = "OK"
<1> DEFINE id == <<"COMMON">>
           found == CHOOSE result \in OperationModeCheckHandler : result.id = id
           covered == UNION {_get_covered_tenants(pair) : pair \in pairs}
<1>1. covered = {"ALL"}
  BY DEF _get_covered_tenants
<1>2. Cardinality({"ALL"}) = 1
  BY FS_Singleton
<1>3. OperationModeCompatibilityCheck = TRUE
  BY <1>1, <1>2 DEF OperationModeCompatibilityCheck
<1>4. status({OperationModeCompatibilityCheck}) = "OK"
  BY <1>3 DEF status
<1>5. [id |-> id, status |-> "OK"] \in OperationModeCheckHandler
  BY <1>4, OperationModeResults
<1>6. \A p : <<"parent", p>> # id
  OBVIOUS
<1>7. \A p \in pairs : <<"parent", p[2]>> # id
  BY <1>6
<1>8. \A result \in OperationModeCheckHandler : result.id = id => result.status = "OK"
  BY <1>4, <1>7, OperationModeResults
<1>9. \E result \in OperationModeCheckHandler : result.id = id
  BY <1>5
<1>10. found \in OperationModeCheckHandler /\ found.id = id
  BY <1>9
<1> QED  BY <1>8, <1>10

LEMMA HealthChecksAreTrue ==
  ASSUME TypeInv, Agreed, HostInv, PriceIsKept
  PROVE  HealthChecksTellTheTruth
<1> DEFINE types == {"APPLICATION", "OPERATION_MODE", "STORAGE"}
           answer == Asked(types)
<1>1. ASSUME pairs # {}
      PROVE  /\ answer.code = 200
             /\ answer.content["APPLICATION"] = ApplicationCheckHandler
             /\ answer.content["OPERATION_MODE"] = OperationModeCheckHandler
  <2> DEFINE cloud == [s \in Shapes |-> "AWS"]
             handler == [t \in CheckTypes |->
               CASE t = "APPLICATION"    -> ApplicationCheckHandler
                 [] t = "PARENT"         -> ParentCheckHandler
                 [] t = "STORAGE"        -> StorageCheckHandler(Storages, Storages)
                 [] t = "SHAPE"          -> ShapeCheckHandler(cloud, {})
                 [] t = "OPERATION_MODE" -> OperationModeCheckHandler
                 [] t = "SHAPE_UPDATE_DATE" -> ShapeUpdateDateCheckHandler([c \in Clouds |-> 0])]
  <2>1. types # {} /\ types \cap CheckTypes = types /\ types \subseteq CheckTypes
    BY DEF CheckTypes
  <2> DEFINE chosen == IF types = {} THEN CheckTypes ELSE types \cap CheckTypes
             given == [code |-> IF chosen = {} THEN 400 ELSE IF HealthCheckRaises(chosen) THEN 500 ELSE 200,
                       content |-> [t \in chosen |-> handler[t]]]
  <2>2. answer = given
    BY DEF Asked, post
  <2>3. handler["APPLICATION"] = ApplicationCheckHandler /\ handler["OPERATION_MODE"] = OperationModeCheckHandler
    BY DEF CheckTypes
  <2>4. ~HealthCheckRaises(types)
    BY <1>1 DEF HealthCheckRaises, OperationModeRaises
  <2> HIDE DEF handler
  <2>5. chosen = types
    BY <2>1
  <2>6. given.code = 200 /\ \A t \in types : given.content[t] = handler[t]
    BY <2>1, <2>4, <2>5
  <2> HIDE DEF answer, given
  <2> QED  BY <2>2, <2>3, <2>6
<1>2. ASSUME NEW a \in hosts, ~Busy(<<"app", a>>), <<"app", a>> \notin died
      PROVE  /\ answer.code = 200
             /\ Says(answer, "APPLICATION", a) = "OK" <=>
                  storages[apps[a].input] # None /\ storages[apps[a].output] # None
             /\ \A p \in active_parents(a) : Says(answer, "OPERATION_MODE", <<"parent", p>>) = "OK"
             /\ Says(answer, "OPERATION_MODE", <<"COMMON">>) = "OK"
  <2>1. pairs # {}
    BY <1>2, HostHasPair
  <2>2. /\ answer.code = 200
        /\ answer.content["APPLICATION"] = ApplicationCheckHandler
        /\ answer.content["OPERATION_MODE"] = OperationModeCheckHandler
    BY <1>1, <2>1
  <2> HIDE DEF answer
  <2>3. Says(answer, "APPLICATION", a) = "OK" <=> storages[apps[a].input] # None /\ storages[apps[a].output] # None
    <3>1. Says(answer, "APPLICATION", a) = status({ApplicationConnectionCheck(a), ApplicationStorageCheck(a)})
      BY <2>2, ApplicationAnswer DEF Says
    <3>2. ApplicationConnectionCheck(a) = TRUE /\ ApplicationStorageCheck(a) \in BOOLEAN
      BY DEF ApplicationConnectionCheck, ApplicationStorageCheck
    <3>3. Says(answer, "APPLICATION", a) = "OK" <=> ApplicationStorageCheck(a)
      BY <3>1, <3>2, Passing
    <3> QED  BY <3>3, StoragesOfHosts
  <2>4. ASSUME NEW p \in active_parents(a)
        PROVE  Says(answer, "OPERATION_MODE", <<"parent", p>>) = "OK"
    <3> DEFINE pair == <<a, p>>
    <3>1. pair \in pairs /\ pair[2] = p
      BY DEF pairs, active_parents
    <3> HIDE DEF pair
    <3> QED  BY <2>2, <3>1, PairAnswer DEF Says
  <2>5. Says(answer, "OPERATION_MODE", <<"COMMON">>) = "OK"
    BY <2>1, <2>2, CommonAnswer DEF Says
  <2> QED  BY <2>2, <2>3, <2>4, <2>5
<1>3. ASSUME NEW p \in checked_parents
      PROVE  Items(p, "rule") = {}
  <2>1. PICK a \in AppIds : apps[a] # None /\ apps[a].type = "RIGHTSIZER" /\ p \in active_parents(a)
    BY DEF checked_parents
  <2>2. p \in ParentIds /\ parents[p] # None /\ parents[p].application = a
    BY <2>1 DEF active_parents
  <2>3. PICK t, h : Agreement(t, h)
    BY DEF Agreed
  <2>4. Kind(parents[p].type) = t[a] /\ t[a] = "RIGHTSIZER"
    BY <2>1, <2>2, <2>3 DEF Agreement, AppsAgree, ParentsAgree, ParentAgrees
  <2>5. parents[p].type # "RIGHTSIZER_LICENSES"
    BY <2>4 DEF Kind
  <2>6. parents[p].meta = {}
    BY <2>2, <2>3, <2>5 DEF Agreement, ParentsAgree
  <2> QED  BY <2>6 DEF Items
<1>4. ASSUME ~MissingPricesCheck
      PROVE  \E s \in known_shapes : \A o \in Owners :
               <<o, s>> \in priced => Busy(<<"price", <<o, s>>>>) \/ <<"price", <<o, s>>>> \in died
  <2>1. PICK s \in known_shapes : \A o \in Owners : prices[<<o, s>>] = None
    BY <1>4 DEF MissingPricesCheck
  <2>2. ASSUME NEW o \in Owners, <<o, s>> \in priced, <<"price", <<o, s>>>> \notin died
        PROVE  Busy(<<"price", <<o, s>>>>)
    <3>1. PICK r \in Requests : request[r].op = "save new price" /\ <<Default, request[r].shape>> = <<o, s>>
      BY <2>1, <2>2 DEF PriceIsKept
    <3>2. Public(request[r].shape) \in request[r].on
      BY <3>1 DEF TypeInv, RequestType, TodoOK, ReferenceTodo
    <3> QED  BY <3>1, <3>2 DEF Public, Busy
  <2> QED  BY <2>1, <2>2
<1> HIDE DEF answer
<1>5. answer = Asked({"APPLICATION", "OPERATION_MODE", "STORAGE"})
  BY DEF answer
<1> QED  BY <1>2, <1>3, <1>4, <1>5 DEF HealthChecksTellTheTruth

-----------------------------------------------------------------------------
(* The theorems                                                            *)

CatalogInv ==
  /\ TypeInv /\ PriceIsKept /\ AlgorithmInv
  /\ Agreed /\ Overlap /\ Alone /\ KeptInv /\ HostInv /\ SecretsInv /\ SyncInv

LEMMA InitInv ==
  ASSUME Init
  PROVE  CatalogInv
  BY InitType, InitPrices, InitAlgorithms, InitAgreed, InitOverlap, InitAlone, InitKept, InitHost, InitSecrets,
     InitSync DEF CatalogInv

LEMMA NextInv ==
  ASSUME CatalogInv, [Next]_vars
  PROVE  CatalogInv'
<1>1. TypeInv' /\ PriceIsKept' /\ AlgorithmInv'
  BY NextType, PriceIsKeptNext, AlgorithmInvNext DEF CatalogInv
<1>2. Agreed' /\ Overlap' /\ Alone'
  BY AgreedNext, OverlapNext, AloneNext DEF CatalogInv
<1>3. KeptInv' /\ HostInv'
  BY KeptNext, HostNext DEF CatalogInv
<1>4. SecretsInv' /\ SyncInv'
  BY SecretsNext, SyncNext DEF CatalogInv
<1> QED  BY <1>1, <1>2, <1>3, <1>4 DEF CatalogInv

\* In every state of the documents and requests, each part of the invariant holds.
LEMMA AlwaysCatalogInv == Spec => []CatalogInv
<1>1. Init => CatalogInv
  BY InitInv
<1>2. CatalogInv /\ [Next]_vars => CatalogInv'
  BY NextInv
<1> QED  BY <1>1, <1>2, PTL DEF Spec

LEMMA NobodyOn ==
  ASSUME TypeInv, NEW a \in AppIds, ~Busy(<<"app", a>>), NEW ops \in SUBSET AppOps
  PROVE  ~On(a, ops)
  BY AppTodo DEF On, Busy

LEMMA SecretsOfInv ==
  ASSUME TypeInv, SecretsInv
  PROVE  SecretsMatchApplications
<1>1. ASSUME NEW a \in AppIds, ~Busy(<<"app", a>>)
      PROVE  ~On(a, {"replace secret", "delete application"}) /\ ~On(a, {"save application"})
  <2>1. {"replace secret", "delete application"} \in SUBSET AppOps /\ {"save application"} \in SUBSET AppOps
    BY DEF AppOps, HostOps, PasswordOps, DeleteOps
  <2> QED  BY <1>1, <2>1, NobodyOn
<1> QED  BY <1>1 DEF SecretsInv, SecretDue, SecretsMatchApplications

LEMMA HostsOfInv ==
  ASSUME TypeInv, HostInv
  PROVE  HostKeepsItsParent
<1>1. HostGoing \in SUBSET AppOps
  BY DEF HostGoing, AppOps, HostOps, DeleteOps
<1> QED  BY <1>1, NobodyOn DEF HostInv, HasHostParent, HostKeepsItsParent

LEMMA SyncedOfInv ==
  ASSUME TypeInv, SyncInv
  PROVE  SyncedLicenseIsUsable
<1>1. ASSUME NEW a \in AppIds, ~Busy(<<"app", a>>)
      PROVE  \A n : ~Syncing(a, n)
  <2>1. {"sync algorithms", "save algorithm"} \in SUBSET AppOps
    BY DEF AppOps, LicenseOps
  <2>2. ~On(a, {"sync algorithms", "save algorithm"})
    BY <1>1, <2>1, NobodyOn
  <2> QED  BY <2>2 DEF On, Syncing
<1> QED  BY <1>1 DEF SyncInv, There, SyncedLicenseIsUsable, Active

\* Documents, requests and histories have their types: what a request has read stays a
\* document that it may write, and no identifier is used that was not given out.
THEOREM TypeCorrect == Spec => []TypeOK
<1>1. CatalogInv => TypeOK
  BY AgreedType DEF CatalogInv
<1> QED  BY <1>1, AlwaysCatalogInv, PTL

\* A public price that was saved and not deleted is there through every order of the
\* steps of synchronisations, users' requests and deaths, but for one that is being
\* replaced (save_force deletes and creates it in two writes).
THEOREM PricesAreKept == Spec => []PriceIsKept
<1>1. CatalogInv => PriceIsKept
  BY DEF CatalogInv
<1> QED  BY <1>1, AlwaysCatalogInv, PTL

\* Nobody but the License Manager sets a licensed algorithm: a patch that was accepted
\* for an algorithm of a user never reaches a licensed one of the same name.
THEOREM SettingsAreIssued == Spec => []LicensedSettingsAreIssued
<1>1. CatalogInv => LicensedSettingsAreIssued
  BY DEF CatalogInv, AlgorithmInv
<1> QED  BY <1>1, AlwaysCatalogInv, PTL

\* The rules and groups of a parent are what the answered requests made of them, if no
\* two requests met on the parent: no write of the whole list, and no write of the
\* whole parent by a group, loses or revives anything.
THEOREM SettingsOfParentsAreKept == Spec => []RulesAndGroupsAreKept
<1>1. CatalogInv => RulesAndGroupsAreKept
  BY DEF CatalogInv, KeptInv
<1> QED  BY <1>1, AlwaysCatalogInv, PTL

\* A RIGHTSIZER application that no request works on has its parent: no endpoint of
\* parents, of licensed or of Defect Dojo applications takes it away.
THEOREM HostsKeepTheirParents == Spec => []HostKeepsItsParent
<1>1. CatalogInv => HostKeepsItsParent
  BY HostsOfInv DEF CatalogInv
<1> QED  BY <1>1, AlwaysCatalogInv, PTL

\* Vault and the applications agree whenever no request works on the application and
\* none died on it.
THEOREM SecretsMatch == Spec => []SecretsMatchApplications
<1>1. CatalogInv => SecretsMatchApplications
  BY SecretsOfInv DEF CatalogInv
<1> QED  BY <1>1, AlwaysCatalogInv, PTL

\* A licence that was synchronised to the end names algorithms that are there, or that
\* a request deleted, also when synchronisations meet on one algorithm.
THEOREM SyncedLicensesAreUsable == Spec => []SyncedLicenseIsUsable
<1>1. CatalogInv => SyncedLicenseIsUsable
  BY SyncedOfInv DEF CatalogInv
<1> QED  BY <1>1, AlwaysCatalogInv, PTL

\* The health check answers, and says of hosts, pairs, rules and prices what is so, in
\* every state that the requests at work can leave.
THEOREM HealthChecksAreOfUse == Spec => []HealthChecksTellTheTruth
<1>1. CatalogInv => HealthChecksTellTheTruth
  BY HealthChecksAreTrue DEF CatalogInv
<1> QED  BY <1>1, AlwaysCatalogInv, PTL
=============================================================================
