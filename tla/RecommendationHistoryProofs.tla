-------------------- MODULE RecommendationHistoryProofs ---------------------
(***************************************************************************)
(* Proofs about RecommendationHistory, for any jobs, users, ids and        *)
(* settings.                                                               *)
(*                                                                         *)
(* That answers outlive the jobs needs the types only, once it is stated   *)
(* with who holds a document.  The simple setting needs what a job knows   *)
(* of the history between its calls of the database: nobody else adds an   *)
(* unanswered document, since the jobs of a resource are Alone (OpenInv),  *)
(* and what it has done so far is on record or pending (RecordInv).        *)
(***************************************************************************)
EXTENDS RecommendationHistory, FiniteSetTheorems, SequenceTheorems, TLAPS

Places   == {"idle", "creating", "updating", "saved", "failed"}
Document == [type : Actions, job : Jobs, content : Actions \cup {"reference"}, answered : BOOLEAN]

DocsType ==
  /\ live \subseteq Ids
  /\ doc \in [live -> Document]
  /\ recent \in Seq(live)
  /\ IsInjective(recent)

JobsType ==
  /\ pc \in [Jobs -> Places]
  /\ actions \in [Jobs -> Seq(Actions)]
  /\ todo \in [Jobs -> Seq(Actions)]
  /\ found \in [Jobs -> Seq(Ids)]
  /\ shadowed \in [Jobs -> BOOLEAN]
  /\ pending \in [Jobs -> Seq(Actions)]
  /\ answering \in [Users -> Ids \cup {NoId}]
  /\ setting \in Settings
  /\ \A j \in Jobs : pc[j] = "updating" => todo[j] # << >>

TypeInv == DocsType /\ JobsType

-----------------------------------------------------------------------------
(* Sequences                                                               *)

LEMMA RemoveAtElements ==
  ASSUME NEW S, NEW s \in Seq(S), NEW n \in DOMAIN s
  PROVE  /\ RemoveAt(s, n) \in Seq(S)
         /\ Len(RemoveAt(s, n)) = Len(s) - 1
         /\ \A k \in 1..(Len(s) - 1) : RemoveAt(s, n)[k] = IF k < n THEN s[k] ELSE s[k + 1]
<1> DEFINE a == SubSeq(s, 1, n - 1)
           b == SubSeq(s, n + 1, Len(s))
<1>0. n \in 1..Len(s) /\ Len(s) \in Nat
  OBVIOUS
<1>1. a \in Seq(S) /\ Len(a) = n - 1 /\ \A k \in 1..(n - 1) : a[k] = s[k]
  BY <1>0
<1>2. b \in Seq(S) /\ Len(b) = Len(s) - n /\ \A k \in 1..(Len(s) - n) : b[k] = s[n + k]
  BY <1>0
<1>3. RemoveAt(s, n) = a \o b
  BY DEF RemoveAt
<1> HIDE DEF a, b
<1>4. a \o b \in Seq(S) /\ Len(a \o b) = Len(s) - 1
  BY <1>0, <1>1, <1>2
<1>5. ASSUME NEW k \in 1..(Len(s) - 1)
      PROVE  (a \o b)[k] = IF k < n THEN s[k] ELSE s[k + 1]
  <2>1. CASE k < n
    BY <2>1, <1>0, <1>1, <1>2
  <2>2. CASE ~(k < n)
    <3> DEFINE m == k - (n - 1)
    <3>1. (a \o b)[k] = b[m]
      <4>1. k \in 1..(Len(a) + Len(b)) /\ k > Len(a) /\ k - Len(a) = m
        BY <2>2, <1>0, <1>1, <1>2
      <4>2. a \in Seq(S) /\ b \in Seq(S)
        BY <1>1, <1>2
      <4>3. (a \o b)[k] = b[k - Len(a)]
        BY <4>1, <4>2
      <4> QED
        BY <4>1, <4>3
    <3>2. m \in 1..(Len(s) - n) /\ n + m = k + 1
      BY <2>2, <1>0
    <3> HIDE DEF m
    <3>3. b[m] = s[n + m]
      BY <3>2, <1>2
    <3>4. (a \o b)[k] = s[k + 1] /\ ~(k < n)
      BY <3>1, <3>2, <3>3, <2>2, <1>0
    <3> QED
      BY <3>4
  <2> QED
    BY <2>1, <2>2
<1> QED
  BY <1>3, <1>4, <1>5

\* What RecentWithout returns: the same documents without d, none twice.
LEMMA WithoutElements ==
  ASSUME recent \in Seq(live), IsInjective(recent), NEW d
  PROVE  /\ RecentWithout(d) \in Seq(live \ {d})
         /\ IsInjective(RecentWithout(d))
         /\ ToSet(RecentWithout(d)) = ToSet(recent) \ {d}
<1>1. CASE d \in ToSet(recent)
  <2> DEFINE n == CHOOSE i \in DOMAIN recent : recent[i] = d
             r == RecentWithout(d)
  <2>1. n \in 1..Len(recent) /\ recent[n] = d /\ Len(recent) \in Nat
    BY <1>1 DEF ToSet
  <2>2. r = RemoveAt(recent, n)
    BY <1>1 DEF RecentWithout
  <2> HIDE DEF n, r
  <2>3. /\ r \in Seq(live) /\ Len(r) = Len(recent) - 1
        /\ \A k \in 1..(Len(recent) - 1) : r[k] = IF k < n THEN recent[k] ELSE recent[k + 1]
    BY <2>1, <2>2, RemoveAtElements
  <2>4. \A i, k \in 1..Len(recent) : recent[i] = recent[k] => i = k
    BY <2>1 DEF IsInjective
  <2>5. \A k \in 1..Len(r) : r[k] # d /\ r[k] \in live /\ r[k] \in ToSet(recent)
    BY <2>1, <2>3, <2>4 DEF ToSet
  <2>6. \A i, k \in 1..Len(r) : r[i] = r[k] => i = k
    BY <2>1, <2>3, <2>4
  <2>7. \A i \in 1..Len(recent) : recent[i] # d => \E k \in 1..Len(r) : r[k] = recent[i]
    <3> SUFFICES ASSUME NEW i \in 1..Len(recent), recent[i] # d
                 PROVE  \E k \in 1..Len(r) : r[k] = recent[i]
      OBVIOUS
    <3>1. CASE i < n
      <4>1. i \in 1..Len(r) /\ r[i] = recent[i]
        BY <3>1, <2>1, <2>3
      <4> QED
        BY <4>1
    <3>2. CASE i > n
      <4>1. i - 1 \in 1..Len(r) /\ r[i - 1] = recent[i]
        BY <3>2, <2>1, <2>3
      <4> QED
        BY <4>1
    <3> QED
      BY <3>1, <3>2, <2>1
  <2>8. r \in Seq(live \ {d})
    BY <2>3, <2>5
  <2>9. DOMAIN r = 1..Len(r) /\ DOMAIN recent = 1..Len(recent)
    BY <2>3
  <2>10. ToSet(r) = ToSet(recent) \ {d}
    BY <2>5, <2>7, <2>9 DEF ToSet
  <2> QED
    BY <2>6, <2>8, <2>9, <2>10 DEF r, IsInjective
<1>2. CASE d \notin ToSet(recent)
  <2>1. RecentWithout(d) = recent
    BY <1>2 DEF RecentWithout
  <2>2. DOMAIN recent = 1..Len(recent) /\ \A i \in 1..Len(recent) : recent[i] # d /\ recent[i] \in live
    BY <1>2 DEF ToSet
  <2>3. recent \in Seq(live \ {d})
    BY <2>2
  <2> QED
    BY <1>2, <2>1, <2>3
<1> QED
  BY <1>1, <1>2

LEMMA Prepended ==
  ASSUME NEW S, NEW d \in S, NEW s \in Seq(S \ {d}), IsInjective(s)
  PROVE  /\ <<d>> \o s \in Seq(S)
         /\ IsInjective(<<d>> \o s)
         /\ ToSet(<<d>> \o s) = {d} \cup ToSet(s)
<1> DEFINE t == <<d>> \o s
<1>1. t \in Seq(S) /\ Len(t) = Len(s) + 1 /\ t[1] = d /\ Len(s) \in Nat
  OBVIOUS
<1>2. \A k \in 1..Len(s) : t[k + 1] = s[k] /\ s[k] # d
  OBVIOUS
<1>3. DOMAIN t = 1..Len(t) /\ DOMAIN s = 1..Len(s)
  BY <1>1
<1> HIDE DEF t
<1>4. \A i \in 1..Len(t) : i = 1 \/ (i - 1 \in 1..Len(s) /\ t[i] = s[i - 1] /\ t[i] # d)
  BY <1>1, <1>2
<1>5. ToSet(t) = {d} \cup ToSet(s)
  <2>1. ASSUME NEW e \in ToSet(t) PROVE e \in {d} \cup ToSet(s)
    <3>1. PICK i \in 1..Len(t) : e = t[i]
      BY <1>3 DEF ToSet
    <3>2. CASE i = 1
      BY <3>1, <3>2, <1>1
    <3>3. CASE i - 1 \in 1..Len(s) /\ t[i] = s[i - 1]
      BY <3>1, <3>3, <1>3 DEF ToSet
    <3> QED
      BY <3>2, <3>3, <1>4
  <2>2. d \in ToSet(t)
    BY <1>1, <1>3 DEF ToSet
  <2>3. ASSUME NEW k \in 1..Len(s) PROVE s[k] \in ToSet(t)
    <3>1. k + 1 \in DOMAIN t /\ t[k + 1] = s[k]
      BY <1>1, <1>2, <1>3
    <3> QED
      BY <3>1 DEF ToSet
  <2> QED
    BY <2>1, <2>2, <2>3, <1>3 DEF ToSet
<1>6. IsInjective(t)
  <2>1. \A i, k \in 1..Len(s) : s[i] = s[k] => i = k
    BY <1>3 DEF IsInjective
  <2>2. ASSUME NEW i \in 1..Len(t), NEW k \in 1..Len(t), t[i] = t[k] PROVE i = k
    <3>1. CASE i = 1
      BY <3>1, <2>2, <1>1, <1>4
    <3>2. CASE i # 1
      <4>1. k # 1
        BY <3>2, <2>2, <1>1, <1>4
      <4>2. i - 1 \in 1..Len(s) /\ k - 1 \in 1..Len(s) /\ s[i - 1] = s[k - 1]
        BY <3>2, <4>1, <2>2, <1>4
      <4>3. i - 1 = k - 1
        BY <4>2, <2>1
      <4> QED
        BY <4>3
    <3> QED
      BY <3>1, <3>2
  <2> QED
    BY <2>2, <1>3 DEF IsInjective
<1> QED
  BY <1>1, <1>5, <1>6 DEF t

\* batch_save inserts documents that are new, in front of the others.
LEMMA InsertedElements ==
  ASSUME TypeInv, NEW n \in Nat, NEW ids \in NewIds(n)
  PROVE  /\ ids \in [1..n -> Ids] /\ IsInjective(ids)
         /\ ToSet(ids) \subseteq Ids \ (live \cup gone)
         /\ Reverse(ids) \o recent \in Seq(live \cup ToSet(ids))
         /\ IsInjective(Reverse(ids) \o recent)
         /\ ToSet(Reverse(ids) \o recent) = ToSet(ids) \cup ToSet(recent)
<1> DEFINE r == Reverse(ids)
           t == r \o recent
           T == live \cup ToSet(ids)
<1>1. ids \in [1..n -> Ids \ (live \cup gone)] /\ IsInjective(ids)
  BY DEF NewIds
<1>2. ToSet(ids) \subseteq Ids \ (live \cup gone) /\ \A k \in 1..n : ids[k] \in ToSet(ids)
  BY <1>1 DEF ToSet
<1>3. ids \in Seq(ToSet(ids)) /\ Len(ids) = n
  BY <1>1, <1>2
<1>4. r = [i \in 1..n |-> ids[(n - i) + 1]]
  BY <1>3 DEF Reverse
<1>5. /\ r \in Seq(ToSet(ids)) /\ Len(r) = n
      /\ \A i \in 1..n : r[i] = ids[(n - i) + 1] /\ r[i] \in ToSet(ids)
  BY <1>2, <1>4
<1> HIDE DEF r
<1>6. recent \in Seq(live) /\ Len(recent) \in Nat /\ DOMAIN recent = 1..Len(recent)
  BY DEF TypeInv, DocsType
<1>7. r \in Seq(T) /\ recent \in Seq(T)
  BY <1>5, <1>6
<1>8. t \in Seq(T) /\ Len(t) = n + Len(recent) /\ DOMAIN t = 1..(n + Len(recent))
  BY <1>5, <1>6, <1>7
<1>9. /\ \A i \in 1..n : t[i] = ids[(n - i) + 1]
      /\ \A i \in 1..Len(recent) : t[n + i] = recent[i]
  BY <1>5, <1>6, <1>7
<1>10. \A i \in 1..Len(recent) : recent[i] \in live
  BY <1>6
<1> HIDE DEF t, T
<1>11. \A i \in DOMAIN t :
         (i \in 1..n /\ t[i] = ids[(n - i) + 1]) \/ (i - n \in 1..Len(recent) /\ t[i] = recent[i - n])
  <2> TAKE i \in DOMAIN t
  <2>1. CASE i \in 1..n
    BY <2>1, <1>9
  <2>2. CASE i > n
    <3> DEFINE m == i - n
    <3>1. m \in 1..Len(recent) /\ n + m = i
      BY <2>2, <1>6, <1>8
    <3> HIDE DEF m
    <3>2. t[n + m] = recent[m]
      BY <3>1, <1>9
    <3>3. m \in 1..Len(recent) /\ t[i] = recent[m]
      BY <3>1, <3>2
    <3> QED
      BY <3>3 DEF m
  <2> QED
    BY <2>1, <2>2, <1>8
<1>12. ToSet(t) = ToSet(ids) \cup ToSet(recent)
  <2>1. ASSUME NEW i \in DOMAIN t PROVE t[i] \in ToSet(ids) \cup ToSet(recent)
    <3>1. CASE i \in 1..n /\ t[i] = ids[(n - i) + 1]
      BY <3>1, <1>2
    <3>2. CASE i - n \in 1..Len(recent) /\ t[i] = recent[i - n]
      BY <3>2, <1>6 DEF ToSet
    <3> QED
      BY <3>1, <3>2, <1>11
  <2>2. ASSUME NEW k \in 1..n PROVE ids[k] \in ToSet(t)
    <3>1. (n - k) + 1 \in 1..n /\ n - ((n - k) + 1) + 1 = k
      OBVIOUS
    <3>2. (n - k) + 1 \in DOMAIN t /\ t[(n - k) + 1] = ids[k]
      BY <3>1, <1>6, <1>8, <1>9
    <3> QED
      BY <3>2 DEF ToSet
  <2>3. ASSUME NEW k \in 1..Len(recent) PROVE recent[k] \in ToSet(t)
    <3>1. n + k \in DOMAIN t /\ t[n + k] = recent[k]
      BY <1>6, <1>8, <1>9
    <3> QED
      BY <3>1 DEF ToSet
  <2>4. DOMAIN ids = 1..n
    BY <1>1
  <2> QED
    BY <2>1, <2>2, <2>3, <2>4, <1>6 DEF ToSet
<1>13. IsInjective(t)
  <2>1. \A i, k \in 1..n : ids[i] = ids[k] => i = k
    BY <1>1 DEF IsInjective
  <2>2. \A i, k \in 1..Len(recent) : recent[i] = recent[k] => i = k
    BY <1>6 DEF TypeInv, DocsType, IsInjective
  <2>3. \A i \in 1..n : ids[i] \notin live
    BY <1>1
  <2>4. ASSUME NEW i \in DOMAIN t, NEW k \in DOMAIN t, t[i] = t[k] PROVE i = k
    <3>1. CASE i \in 1..n /\ k \in 1..n
      <4>1. (n - i) + 1 \in 1..n /\ (n - k) + 1 \in 1..n
        BY <3>1
      <4>2. ids[(n - i) + 1] = ids[(n - k) + 1]
        BY <2>4, <3>1, <1>9
      <4>3. (n - i) + 1 = (n - k) + 1
        BY <4>1, <4>2, <2>1
      <4> QED
        BY <4>3, <3>1
    <3>2. CASE i \notin 1..n /\ k \notin 1..n
      <4>1. /\ i - n \in 1..Len(recent) /\ t[i] = recent[i - n]
            /\ k - n \in 1..Len(recent) /\ t[k] = recent[k - n]
        BY <3>2, <1>11
      <4>2. i - n = k - n
        BY <4>1, <2>2, <2>4
      <4> QED
        BY <4>2, <1>6, <1>8
    <3>3. CASE i \in 1..n /\ k \notin 1..n
      <4>1. (n - i) + 1 \in 1..n /\ t[i] = ids[(n - i) + 1]
        BY <3>3, <1>9
      <4>2. t[i] \notin live
        BY <4>1, <2>3
      <4>3. k - n \in 1..Len(recent) /\ t[k] = recent[k - n]
        BY <3>3, <1>11
      <4>4. t[k] \in live
        BY <4>3, <1>10
      <4> QED
        BY <4>2, <4>4, <2>4
    <3>4. CASE i \notin 1..n /\ k \in 1..n
      <4>1. (n - k) + 1 \in 1..n /\ t[k] = ids[(n - k) + 1]
        BY <3>4, <1>9
      <4>2. t[k] \notin live
        BY <4>1, <2>3
      <4>3. i - n \in 1..Len(recent) /\ t[i] = recent[i - n]
        BY <3>4, <1>11
      <4>4. t[i] \in live
        BY <4>3, <1>10
      <4> QED
        BY <4>2, <4>4, <2>4
    <3> QED
      BY <3>1, <3>2, <3>3, <3>4
  <2> QED
    BY <2>4 DEF IsInjective
<1> QED
  BY <1>1, <1>2, <1>8, <1>12, <1>13 DEF r, t, T

\* What the query loads: each of the documents once.
LEMMA LatestElements ==
  ASSUME TypeInv, NEW docs \in SUBSET ToSet(recent), NEW list \in LatestFirst(docs)
  PROVE  /\ list \in Seq(docs) /\ IsInjective(list)
         /\ Len(list) = Cardinality(docs) /\ DOMAIN list = 1..Len(list)
         /\ docs # {} => Len(list) > 0
<1>1. recent \in Seq(live) /\ IsInjective(recent) /\ DOMAIN recent = 1..Len(recent) /\ Len(recent) \in Nat
  BY DEF TypeInv, DocsType
<1>2. IsFiniteSet(ToSet(recent))
  <2>1. recent \in Surjection(1..Len(recent), ToSet(recent))
    BY <1>1 DEF Surjection, ToSet
  <2> QED
    BY <2>1, <1>1, FS_NatSurjection DEF ExistsSurjection
<1>3. Cardinality(docs) \in Nat /\ (Cardinality(docs) = 0 => docs = {})
  BY <1>2, FS_Subset, FS_CardinalityType, FS_EmptySet
<1>4. /\ list \in [1..Cardinality(docs) -> docs]
      /\ \A i, k \in 1..Cardinality(docs) : i < k =>
           \E m, n \in DOMAIN recent : m < n /\ recent[m] = list[i] /\ recent[n] = list[k]
  BY DEF LatestFirst
<1>5. \A i, k \in 1..Cardinality(docs) : i < k => list[i] # list[k]
  BY <1>1, <1>4 DEF IsInjective
<1>6. \A i, k \in 1..Cardinality(docs) : list[i] = list[k] => i = k
  BY <1>3, <1>5
<1> QED
  BY <1>3, <1>4, <1>6 DEF IsInjective

-----------------------------------------------------------------------------
(* Types                                                                   *)

LEMMA HeadAndTail ==
  ASSUME TypeInv, NEW j \in Jobs, todo[j] # << >>
  PROVE  /\ todo[j] \in Seq(Actions) /\ Head(todo[j]) \in Actions
         /\ Tail(todo[j]) \in Seq(Actions) /\ Len(Tail(todo[j])) = Len(todo[j]) - 1
BY DEF TypeInv, JobsType

\* The documents without one that is deleted.
LEMMA DeleteType ==
  ASSUME TypeInv, NEW old,
         live' = live \ {old}, doc' = [d \in live \ {old} |-> doc[d]], recent' = RecentWithout(old)
  PROVE  DocsType'
<1>1. recent' \in Seq(live \ {old}) /\ IsInjective(recent')
  BY WithoutElements DEF TypeInv, DocsType
<1> QED
  BY <1>1 DEF TypeInv, DocsType

\* A document is updated, and becomes the latest one.
LEMMA UpdateType ==
  ASSUME TypeInv, NEW d \in live, NEW new \in Document,
         live' = live, doc' = [doc EXCEPT ![d] = new], recent' = <<d>> \o RecentWithout(d)
  PROVE  DocsType' /\ ToSet(recent') = {d} \cup ToSet(recent)
<1>1. /\ RecentWithout(d) \in Seq(live \ {d}) /\ IsInjective(RecentWithout(d))
      /\ ToSet(RecentWithout(d)) = ToSet(recent) \ {d}
  BY WithoutElements DEF TypeInv, DocsType
<1>2. recent' \in Seq(live) /\ IsInjective(recent') /\ ToSet(recent') = {d} \cup ToSet(recent)
  BY <1>1, Prepended
<1>3. doc' \in [live -> Document]
  BY DEF TypeInv, DocsType
<1> QED
  BY <1>2, <1>3 DEF TypeInv, DocsType

Inserted(j, ids) ==
  [d \in live \cup ToSet(ids) |->
     IF d \in live THEN doc[d]
     ELSE LET a == pending[j][CHOOSE i \in DOMAIN ids : ids[i] = d] IN
          [type |-> a, job |-> j, content |-> a, answered |-> FALSE]]

\* A new document of j's for the action a.
NewFor(x, j, a) == x.type = a /\ x.job = j /\ x.content = a /\ ~x.answered

\* What is inserted: a document for every pending action, under an id of its own.
LEMMA InsertedDocs ==
  ASSUME TypeInv, NEW j \in Jobs, NEW ids \in NewIds(Len(pending[j]))
  PROVE  /\ Inserted(j, ids) \in [live \cup ToSet(ids) -> Document]
         /\ \A d \in live : Inserted(j, ids)[d] = doc[d]
         /\ \A d \in ToSet(ids) : d \notin live /\ \E i \in 1..Len(pending[j]) :
              d = ids[i] /\ NewFor(Inserted(j, ids)[d], j, pending[j][i])
         /\ \A i \in 1..Len(pending[j]) :
              ids[i] \in ToSet(ids) /\ NewFor(Inserted(j, ids)[ids[i]], j, pending[j][i])
<1> DEFINE n == Len(pending[j])
           Item(i) == [type |-> pending[j][i], job |-> j, content |-> pending[j][i], answered |-> FALSE]
<1>1. pending[j] \in Seq(Actions) /\ n \in Nat /\ \A i \in 1..n : pending[j][i] \in Actions
  BY DEF TypeInv, JobsType
<1>2. ids \in [1..n -> Ids] /\ IsInjective(ids) /\ ToSet(ids) \subseteq Ids \ (live \cup gone)
  BY <1>1, InsertedElements
<1>3. DOMAIN ids = 1..n /\ \A i \in 1..n : ids[i] \in ToSet(ids)
  BY <1>2 DEF ToSet
<1>4. \A i \in 1..n : (CHOOSE k \in DOMAIN ids : ids[k] = ids[i]) = i
  BY <1>2, <1>3 DEF IsInjective
<1>5. \A i \in 1..n : ids[i] \notin live /\ Inserted(j, ids)[ids[i]] = Item(i)
  BY <1>2, <1>3, <1>4 DEF Inserted
<1>6. \A d \in ToSet(ids) : \E i \in 1..n : d = ids[i]
  BY <1>3 DEF ToSet
<1>7. \A i \in 1..n : Item(i) \in Document /\ NewFor(Item(i), j, pending[j][i])
  BY <1>1 DEF Document, NewFor
<1> HIDE DEF Item
<1>8. \A d \in live : Inserted(j, ids)[d] = doc[d] /\ doc[d] \in Document
  BY DEF Inserted, TypeInv, DocsType
<1>9. \A d \in ToSet(ids) : \E i \in 1..n : d = ids[i] /\ Inserted(j, ids)[d] = Item(i)
  BY <1>5, <1>6
<1>10. DOMAIN Inserted(j, ids) = live \cup ToSet(ids) /\ Inserted(j, ids) = [d \in live \cup ToSet(ids) |-> Inserted(j, ids)[d]]
  BY DEF Inserted
<1>11. Inserted(j, ids) \in [live \cup ToSet(ids) -> Document]
  BY <1>7, <1>8, <1>9, <1>10
<1> QED
  BY <1>2, <1>3, <1>5, <1>7, <1>8, <1>9, <1>11

LEMMA InsertType ==
  ASSUME TypeInv, NEW j \in Jobs, NEW ids \in NewIds(Len(pending[j])),
         live' = live \cup ToSet(ids), doc' = Inserted(j, ids), recent' = Reverse(ids) \o recent
  PROVE  DocsType'
<1>1. Len(pending[j]) \in Nat
  BY DEF TypeInv, JobsType
<1>2. /\ ToSet(ids) \subseteq Ids
      /\ recent' \in Seq(live \cup ToSet(ids)) /\ IsInjective(recent')
  BY <1>1, InsertedElements
<1>3. doc' \in [live \cup ToSet(ids) -> Document]
  BY InsertedDocs
<1> QED
  BY <1>2, <1>3 DEF TypeInv, DocsType

LEMMA TypeInit == Init => TypeInv
<1> SUFFICES ASSUME Init PROVE TypeInv
  OBVIOUS
<1>1. doc \in [live -> Document] /\ recent \in Seq(live) /\ IsInjective(recent)
  BY DEF Init, IsInjective
<1> QED
  BY <1>1 DEF Init, TypeInv, DocsType, JobsType, Places

LEMMA TypeStep == TypeInv /\ [Next]_vars => TypeInv'
<1> SUFFICES ASSUME TypeInv, [Next]_vars PROVE TypeInv'
  OBVIOUS
<1>0. DocsType /\ JobsType
  BY DEF TypeInv
<1>1. ASSUME NEW j \in Jobs, process_instance(j) PROVE TypeInv'
  <2>1. PICK list \in setting.lists : /\ actions' = [actions EXCEPT ![j] = list]
                                      /\ todo' = [todo EXCEPT ![j] = list]
    BY <1>1 DEF process_instance
  <2>2. list \in Seq(Actions)
    BY <1>0, SettingsAssumption DEF JobsType
  <2>3. DocsType'
    BY <1>0, <1>1 DEF process_instance, docVars, DocsType
  <2>4. JobsType'
    BY <1>0, <1>1, <2>1, <2>2 DEF process_instance, JobsType, Places
  <2> QED
    BY <2>3, <2>4 DEF TypeInv
<1>2. ASSUME NEW j \in Jobs, BuildItem(j) PROVE TypeInv'
  <2>1. /\ todo[j] # << >> /\ pending' = [pending EXCEPT ![j] = Append(@, Head(todo[j]))]
        /\ todo' = [todo EXCEPT ![j] = Tail(@)]
    BY <1>2 DEF BuildItem
  <2>2. Head(todo[j]) \in Actions /\ Tail(todo[j]) \in Seq(Actions)
    BY <2>1, HeadAndTail
  <2>3. pending' \in [Jobs -> Seq(Actions)] /\ todo' \in [Jobs -> Seq(Actions)]
    BY <1>0, <2>1, <2>2 DEF JobsType
  <2>4. DocsType'
    BY <1>0, <1>2 DEF BuildItem, docVars, DocsType
  <2>5. JobsType'
    BY <1>0, <1>2, <2>3 DEF BuildItem, JobsType
  <2> QED
    BY <2>4, <2>5 DEF TypeInv
<1>3. ASSUME NEW j \in Jobs, FindRecent(j) PROVE TypeInv'
  <2> DEFINE docs == get_recent_recommendation(Head(todo[j]))
  <2>1. PICK list \in LatestFirst(docs) : found' = [found EXCEPT ![j] = list]
    BY <1>3 DEF FindRecent
  <2>2. docs \subseteq ToSet(recent) /\ ToSet(recent) \subseteq Ids
    BY <1>0 DEF get_recent_recommendation, DocsType, ToSet
  <2> HIDE DEF docs
  <2>3. list \in Seq(Ids)
    BY <2>1, <2>2, LatestElements
  <2>4. DocsType'
    BY <1>0, <1>3 DEF FindRecent, docVars, DocsType
  <2>5. JobsType'
    BY <1>0, <1>3, <2>1, <2>3 DEF FindRecent, JobsType, Places
  <2> QED
    BY <2>4, <2>5 DEF TypeInv
<1>4. ASSUME NEW j \in Jobs, DeleteOlder(j) PROVE TypeInv'
  <2> DEFINE old == found[j][2]
  <2>1. /\ live' = live \ {old} /\ doc' = [d \in live \ {old} |-> doc[d]] /\ recent' = RecentWithout(old)
        /\ gone' = gone \cup ({old} \cap live)
        /\ Len(found[j]) > 1 /\ found' = [found EXCEPT ![j] = RemoveAt(@, 2)]
    BY <1>4 DEF DeleteOlder
  <2> HIDE DEF old
  <2>2. DocsType'
    BY <2>1, DeleteType
  <2>3. found[j] \in Seq(Ids) /\ 2 \in DOMAIN found[j]
    BY <1>0, <2>1 DEF JobsType
  <2>4. RemoveAt(found[j], 2) \in Seq(Ids)
    BY <2>3, RemoveAtElements
  <2>5. JobsType'
    BY <1>0, <1>4, <2>1, <2>4 DEF DeleteOlder, JobsType
  <2> QED
    BY <2>2, <2>5 DEF TypeInv
<1>5. ASSUME NEW j \in Jobs, UpdateRecent(j) PROVE TypeInv'
  <2> DEFINE d == found[j][1]
             a == Head(todo[j])
             new == [type |-> a, job |-> j, answered |-> doc[d].answered,
                     content |-> IF shadowed[j] THEN "reference" ELSE a]
  <2>1. /\ d \in live => doc' = [doc EXCEPT ![d] = new] /\ recent' = <<d>> \o RecentWithout(d)
        /\ d \notin live => UNCHANGED <<doc, recent>>
        /\ live' = live /\ todo' = [todo EXCEPT ![j] = Tail(@)]
        /\ found' = [found EXCEPT ![j] = << >>]
    BY <1>5 DEF UpdateRecent
  <2>2. todo[j] # << >> /\ a \in Actions /\ Tail(todo[j]) \in Seq(Actions)
    <3>1. pc[j] = "updating"
      BY <1>5 DEF UpdateRecent
    <3> QED
      BY <1>0, <3>1, HeadAndTail DEF JobsType
  <2>3. DocsType'
    <3>1. CASE d \in live
      <4>1. doc[d].answered \in BOOLEAN /\ shadowed[j] \in BOOLEAN
        BY <1>0, <3>1 DEF DocsType, JobsType, Document
      <4>2. new \in Document
        BY <4>1, <2>2 DEF Document
      <4> HIDE DEF d, new
      <4> QED
        BY <3>1, <4>2, <2>1, UpdateType
    <3>2. CASE d \notin live
      BY <1>0, <2>1, <3>2 DEF DocsType
    <3> QED
      BY <3>1, <3>2
  <2> HIDE DEF d, a, new
  <2>4. JobsType'
    BY <1>0, <1>5, <2>1, <2>2 DEF UpdateRecent, JobsType, Places
  <2> QED
    BY <2>3, <2>4 DEF TypeInv
<1>6. ASSUME NEW j \in Jobs, batch_save(j) PROVE TypeInv'
  <2>1. PICK ids \in NewIds(Len(pending[j])) :
          live' = live \cup ToSet(ids) /\ doc' = Inserted(j, ids) /\ recent' = Reverse(ids) \o recent
    BY <1>6 DEF batch_save, Inserted
  <2>2. DocsType'
    BY <2>1, InsertType
  <2>3. JobsType'
    BY <1>0, <1>6 DEF batch_save, JobsType, Places
  <2> QED
    BY <2>2, <2>3 DEF TypeInv
<1>7. ASSUME NEW j \in Jobs, CreateFails(j) PROVE TypeInv'
  BY <1>0, <1>7 DEF CreateFails, docVars, TypeInv, DocsType, JobsType, Places
<1>8. ASSUME NEW u \in Users, patch(u) PROVE TypeInv'
  <2>1. PICK n \in DOMAIN recent : answering' = [answering EXCEPT ![u] = recent[n]]
    BY <1>8 DEF patch
  <2>2. recent[n] \in Ids
    BY <1>0 DEF DocsType
  <2> QED
    BY <1>0, <1>8, <2>1, <2>2 DEF patch, docVars, jobVars, TypeInv, DocsType, JobsType
<1>9. ASSUME NEW u \in Users, save_feedback(u) PROVE TypeInv'
  <2>1. doc' \in [live -> Document]
    BY <1>0, <1>9 DEF save_feedback, DocsType, Document
  <2>2. DocsType'
    BY <1>0, <1>9, <2>1 DEF save_feedback, DocsType
  <2>3. JobsType'
    BY <1>0, <1>9 DEF save_feedback, jobVars, JobsType
  <2> QED
    BY <2>2, <2>3 DEF TypeInv
<1>10. CASE NewWeek
  <2>1. recent' \in Seq(live) /\ IsInjective(recent')
    BY <1>10 DEF NewWeek, IsInjective
  <2> QED
    BY <1>0, <1>10, <2>1 DEF NewWeek, jobVars, TypeInv, DocsType, JobsType
<1>11. CASE UNCHANGED vars
  BY <1>0, <1>11 DEF vars, docVars, jobVars, TypeInv, DocsType, JobsType
<1> QED
  BY <1>1, <1>2, <1>3, <1>4, <1>5, <1>6, <1>7, <1>8, <1>9, <1>10, <1>11 DEF Next

-----------------------------------------------------------------------------
(* Answers                                                                 *)

\* One step: an answered document that no job holds stays as it is.
LEMMA AnsweredStep ==
  ASSUME TypeInv, [Next]_vars, NEW d \in live, doc[d].answered, Unheld(d)
  PROVE  d \in live' /\ doc'[d] = doc[d] /\ Unheld(d)'
<1>0. DocsType /\ JobsType /\ doc[d] \in Document
  BY DEF TypeInv, DocsType
<1>1. ASSUME UNCHANGED <<live, doc, found>> PROVE d \in live' /\ doc'[d] = doc[d] /\ Unheld(d)'
  BY <1>1 DEF Unheld, ToSet
<1>2. ASSUME NEW j \in Jobs, FindRecent(j) PROVE d \in live' /\ doc'[d] = doc[d] /\ Unheld(d)'
  <2> DEFINE docs == get_recent_recommendation(Head(todo[j]))
  <2>1. PICK list \in LatestFirst(docs) : found' = [found EXCEPT ![j] = list]
    BY <1>2 DEF FindRecent
  <2>2. docs \subseteq ToSet(recent) /\ d \notin docs
    BY DEF get_recent_recommendation
  <2> HIDE DEF docs
  <2>3. list \in Seq(docs)
    BY <2>1, <2>2, LatestElements
  <2>4. d \notin ToSet(list)
    BY <2>2, <2>3 DEF ToSet
  <2>5. \A i \in Jobs : found'[i] = IF i = j THEN list ELSE found[i]
    BY <1>0, <2>1 DEF JobsType
  <2>6. \A i \in Jobs : d \notin ToSet(found'[i])
    BY <2>4, <2>5 DEF Unheld
  <2> QED
    BY <1>2, <2>6 DEF FindRecent, docVars, Unheld, ToSet
<1>3. ASSUME NEW j \in Jobs, DeleteOlder(j) PROVE d \in live' /\ doc'[d] = doc[d] /\ Unheld(d)'
  <2>1. /\ live' = live \ {found[j][2]} /\ doc' = [e \in live \ {found[j][2]} |-> doc[e]]
        /\ Len(found[j]) > 1 /\ found' = [found EXCEPT ![j] = RemoveAt(@, 2)]
    BY <1>3 DEF DeleteOlder
  <2>2. found[j] \in Seq(Ids) /\ 2 \in DOMAIN found[j] /\ DOMAIN found[j] = 1..Len(found[j]) /\ Len(found[j]) \in Nat
    BY <1>0, <2>1 DEF JobsType
  <2>3. \A k \in 1..Len(found[j]) : found[j][k] # d
    BY <2>2 DEF Unheld, ToSet
  <2>4. /\ RemoveAt(found[j], 2) \in Seq(Ids)
        /\ Len(RemoveAt(found[j], 2)) = Len(found[j]) - 1
        /\ \A k \in 1..(Len(found[j]) - 1) :
             RemoveAt(found[j], 2)[k] = IF k < 2 THEN found[j][k] ELSE found[j][k + 1]
    BY <2>2, RemoveAtElements
  <2>10. DOMAIN RemoveAt(found[j], 2) = 1..(Len(found[j]) - 1)
    BY <2>4
  <2>5. \A k \in 1..(Len(found[j]) - 1) : RemoveAt(found[j], 2)[k] # d
    BY <2>2, <2>3, <2>4
  <2>6. d \notin ToSet(RemoveAt(found[j], 2))
    BY <2>5, <2>10 DEF ToSet
  <2>7. \A i \in Jobs : found'[i] = IF i = j THEN RemoveAt(found[j], 2) ELSE found[i]
    BY <1>0, <2>1 DEF JobsType
  <2>8. \A i \in Jobs : d \notin ToSet(found'[i])
    BY <2>6, <2>7 DEF Unheld
  <2>9. found[j][2] # d
    BY <2>2, <2>3
  <2> QED
    BY <2>1, <2>8, <2>9 DEF Unheld, ToSet
<1>4. ASSUME NEW j \in Jobs, found' = [found EXCEPT ![j] = << >>] PROVE Unheld(d)'
  <2>1. \A i \in Jobs : found'[i] = IF i = j THEN << >> ELSE found[i]
    BY <1>0, <1>4 DEF JobsType
  <2>2. d \notin ToSet(<< >>)
    BY DEF ToSet
  <2>3. \A i \in Jobs : d \notin ToSet(found'[i])
    BY <2>1, <2>2 DEF Unheld
  <2> QED
    BY <2>3 DEF Unheld, ToSet
<1>5. ASSUME NEW j \in Jobs, UpdateRecent(j) PROVE d \in live' /\ doc'[d] = doc[d] /\ Unheld(d)'
  <2>1. found[j] \in Seq(Ids) /\ Len(found[j]) = 1
    BY <1>0, <1>5 DEF UpdateRecent, JobsType
  <2>2. found[j][1] # d
    BY <2>1 DEF Unheld, ToSet
  <2>3. doc'[d] = doc[d] /\ live' = live /\ found' = [found EXCEPT ![j] = << >>]
    BY <1>0, <1>5, <2>2 DEF UpdateRecent, DocsType
  <2> QED
    BY <1>4, <2>3
<1>6. ASSUME NEW j \in Jobs, batch_save(j) PROVE d \in live' /\ doc'[d] = doc[d] /\ Unheld(d)'
  <2>1. PICK ids \in NewIds(Len(pending[j])) : live' = live \cup ToSet(ids) /\ doc' = Inserted(j, ids)
    BY <1>6 DEF batch_save, Inserted
  <2>2. doc'[d] = doc[d]
    <3>1. \A e \in live : Inserted(j, ids)[e] = doc[e]
      BY <2>1, InsertedDocs
    <3>2. doc' = Inserted(j, ids)
      BY <2>1
    <3> QED
      BY <3>1, <3>2
  <2>3. found' = found
    BY <1>6 DEF batch_save
  <2> QED
    BY <2>1, <2>2, <2>3 DEF Unheld, ToSet
<1>7. ASSUME NEW j \in Jobs, CreateFails(j) PROVE d \in live' /\ doc'[d] = doc[d] /\ Unheld(d)'
  BY <1>4, <1>7 DEF CreateFails, docVars
<1>8. ASSUME NEW u \in Users, save_feedback(u) PROVE d \in live' /\ doc'[d] = doc[d] /\ Unheld(d)'
  <2>1. doc'[d] = doc[d]
    BY <1>0, <1>8 DEF save_feedback, DocsType, Document
  <2>2. live' = live /\ found' = found
    BY <1>8 DEF save_feedback, jobVars
  <2> QED
    BY <2>1, <2>2 DEF Unheld, ToSet
<1>9. ASSUME NEW j \in Jobs, process_instance(j) \/ BuildItem(j)
      PROVE  UNCHANGED <<live, doc, found>>
  BY <1>9 DEF process_instance, BuildItem, docVars
<1>10. ASSUME NEW u \in Users, patch(u) PROVE UNCHANGED <<live, doc, found>>
  BY <1>10 DEF patch, docVars, jobVars
<1>11. ASSUME NewWeek \/ UNCHANGED vars PROVE UNCHANGED <<live, doc, found>>
  BY <1>11 DEF NewWeek, vars, docVars, jobVars
<1> QED
  BY <1>1, <1>2, <1>3, <1>5, <1>6, <1>7, <1>8, <1>9, <1>10, <1>11 DEF Next

-----------------------------------------------------------------------------
(* The simple setting                                                      *)

Busy(j) == pc[j] \in {"creating", "updating"}

Recorded(j) ==
  \A a \in ToSet(actions[j]) : \E d \in live : doc[d].type = a /\ doc[d].job = j

\* One job at a time; the others have nothing to write.
Alone ==
  /\ \A i, j \in Jobs : Busy(i) /\ Busy(j) => i = j
  /\ \A j \in Jobs : ~Busy(j) => pending[j] = << >>

\* The one action of a job is still to do, or it is pending, or on record.
RecordInv ==
  \A j \in Jobs :
    /\ Len(actions[j]) <= 1
    /\ Busy(j) /\ todo[j] # << >> => todo[j] = actions[j] /\ pending[j] = << >>
    /\ Busy(j) /\ todo[j] = << >> => pending[j] = actions[j] \/ (pending[j] = << >> /\ Recorded(j))

\* What a job has found out is still so: the document it updates is the only open
\* one, and there is none when it builds an item.
OpenInv ==
  /\ \A d, e \in ToSet(recent) : ~doc[d].answered /\ ~doc[e].answered => d = e
  /\ \A j \in Jobs : pending[j] # << >> => \A d \in ToSet(recent) : doc[d].answered
  /\ \A j \in Jobs : pc[j] = "updating" =>
       /\ Len(found[j]) = 1 /\ found[j][1] \in live /\ ~shadowed[j]
       /\ \A d \in ToSet(recent) : ~doc[d].answered => d = found[j][1]

ContentInv == \A d \in live : doc[d].content = doc[d].type

SimpleInv == Alone /\ RecordInv /\ OpenInv /\ ContentInv

HistoryInv == TypeInv /\ (Simple => SimpleInv)

\* A job that has one action and comes to it.
LEMMA OneAction ==
  ASSUME NEW s \in Seq(Actions), Len(s) <= 1, s # << >>
  PROVE  /\ Tail(s) = << >> /\ Append(<< >>, Head(s)) = s /\ ToSet(s) = {Head(s)}
         /\ Len(s) = 1 /\ s[1] = Head(s)
<1> DEFINE t == Append(<< >>, Head(s))
<1>0. Len(s) = 1
  <2>1. Len(s) \in Nat \ {0}
    BY EmptySeq, Zenon
  <2> QED
    BY <2>1
<1>1. Len(s) = 1 /\ s[1] = Head(s) /\ Head(s) \in Actions
  BY <1>0
<1>2. Tail(s) = << >>
  <2>1. Tail(s) \in Seq(Actions) /\ Len(Tail(s)) = 0
    BY <1>1
  <2> QED
    BY <2>1
<1>3. t = s
  <2>1. t \in Seq(Actions) /\ Len(t) = 1 /\ t[1] = Head(s)
    BY <1>1
  <2> HIDE DEF t
  <2> QED
    BY <1>1, <2>1, SeqEqual
<1>4. ToSet(s) = {Head(s)}
  BY <1>1 DEF ToSet
<1> QED
  BY <1>1, <1>2, <1>3, <1>4

LEMMA SimpleInit == Init => SimpleInv
<1> SUFFICES ASSUME Init PROVE SimpleInv
  OBVIOUS
<1>1. ToSet(recent) = {} /\ live = {}
  BY DEF Init, ToSet
<1> QED
  BY <1>1 DEF Init, SimpleInv, Alone, RecordInv, OpenInv, ContentInv, Busy

\* A record stays one when only answers change.
LEMMA RecordStays ==
  ASSUME NEW j \in Jobs, Recorded(j), actions' = actions, live \subseteq live',
         \A d \in live : doc'[d].type = doc[d].type /\ doc'[d].job = doc[d].job
  PROVE  Recorded(j)'
BY DEF Recorded

\* Steps that change the documents at most by an answer, or make them less recent,
\* and leave the jobs alone.
LEMMA OthersStep ==
  ASSUME TypeInv, SimpleInv, UNCHANGED <<live, jobVars>>,
         \A d \in live : /\ doc'[d].type = doc[d].type /\ doc'[d].job = doc[d].job
                         /\ doc'[d].content = doc[d].content
                         /\ doc[d].answered => doc'[d].answered,
         ToSet(recent') \subseteq ToSet(recent)
  PROVE  SimpleInv'
<1>0. ToSet(recent) \subseteq live
  BY DEF TypeInv, DocsType, ToSet
<1>1. pc' = pc /\ actions' = actions /\ todo' = todo /\ found' = found /\ shadowed' = shadowed
      /\ pending' = pending
  BY DEF jobVars
<1>2. Alone'
  BY <1>1 DEF SimpleInv, Alone, Busy
<1>3. RecordInv'
  <2>1. \A j \in Jobs : Recorded(j) => Recorded(j)'
    BY <1>1 DEF Recorded
  <2> QED
    BY <1>1, <2>1 DEF SimpleInv, RecordInv, Busy
<1>4. OpenInv'
  <2>1. \A d \in ToSet(recent') : d \in ToSet(recent) /\ (~doc'[d].answered => ~doc[d].answered)
    BY <1>0
  <2> QED
    BY <1>1, <2>1 DEF SimpleInv, OpenInv
<1>5. ContentInv'
  BY DEF SimpleInv, ContentInv
<1> QED
  BY <1>2, <1>3, <1>4, <1>5 DEF SimpleInv

\* A step of the one busy job: the others have nothing pending and are not updating.
LEMMA OthersRest ==
  ASSUME SimpleInv, NEW j \in Jobs, Busy(j), NEW i \in Jobs, i # j
  PROVE  ~Busy(i) /\ pending[i] = << >> /\ pc[i] # "updating"
BY DEF SimpleInv, Alone, Busy

LEMMA ProcessStep ==
  ASSUME TypeInv, SimpleInv, Simple, NEW j \in Jobs, process_instance(j)
  PROVE  SimpleInv'
<1>0. JobsType
  BY DEF TypeInv
<1>1. PICK list \in setting.lists :
        actions' = [actions EXCEPT ![j] = list] /\ todo' = [todo EXCEPT ![j] = list]
  BY DEF process_instance
<1>2. list \in Seq(Actions) /\ Len(list) <= 1
  BY <1>0, SettingsAssumption DEF Simple, JobsType
<1>3. /\ \A i \in Jobs : ~Busy(i)
      /\ \A i \in Jobs : pending[i] = << >>
      /\ \A i \in Jobs : pc'[i] = IF i = j THEN "creating" ELSE pc[i]
      /\ UNCHANGED <<live, doc, recent, found, shadowed, pending>>
  BY <1>0 DEF process_instance, docVars, Simple, Busy, SimpleInv, Alone, JobsType
<1>4. \A i \in Jobs : Busy(i)' <=> i = j
  BY <1>3 DEF Busy
<1>5. Alone'
  BY <1>3, <1>4 DEF Alone
<1>6. RecordInv'
  <2>1. \A i \in Jobs : /\ actions'[i] = IF i = j THEN list ELSE actions[i]
                        /\ todo'[i] = IF i = j THEN list ELSE todo[i]
    BY <1>0, <1>1 DEF JobsType
  <2>2. \A i \in Jobs : Len(actions'[i]) <= 1
    BY <1>2, <2>1 DEF SimpleInv, RecordInv
  <2> QED
    BY <1>3, <1>4, <2>1, <2>2 DEF RecordInv
<1>7. OpenInv'
  <2>1. \A i \in Jobs : pc'[i] # "updating" /\ pending'[i] = << >>
    BY <1>3 DEF Busy
  <2> QED
    BY <1>3, <2>1 DEF SimpleInv, OpenInv
<1>8. ContentInv'
  BY <1>3 DEF SimpleInv, ContentInv
<1> QED
  BY <1>5, <1>6, <1>7, <1>8 DEF SimpleInv

LEMMA BuildStep ==
  ASSUME TypeInv, SimpleInv, NEW j \in Jobs, BuildItem(j)
  PROVE  SimpleInv'
<1>0. JobsType
  BY DEF TypeInv
<1>1. /\ Busy(j) /\ pc[j] = "creating" /\ todo[j] # << >> /\ get_recent_recommendation(Head(todo[j])) = {}
      /\ pending' = [pending EXCEPT ![j] = Append(@, Head(todo[j]))]
      /\ todo' = [todo EXCEPT ![j] = Tail(@)]
      /\ UNCHANGED <<live, doc, recent, pc, actions, found, shadowed>>
  BY DEF BuildItem, docVars, Busy
<1>2. todo[j] = actions[j] /\ pending[j] = << >> /\ Len(todo[j]) <= 1 /\ todo[j] \in Seq(Actions)
  BY <1>0, <1>1 DEF SimpleInv, RecordInv, JobsType
<1>3. Tail(todo[j]) = << >> /\ Append(<< >>, Head(todo[j])) = todo[j]
  BY <1>1, <1>2, OneAction
<1>4. \A i \in Jobs : /\ pending'[i] = IF i = j THEN actions[j] ELSE pending[i]
                      /\ todo'[i] = IF i = j THEN << >> ELSE todo[i]
  BY <1>0, <1>1, <1>2, <1>3 DEF JobsType
<1>5. Alone'
  BY <1>1, <1>4 DEF SimpleInv, Alone, Busy
<1>6. \A i \in Jobs : i # j => ~Busy(i) /\ pending[i] = << >> /\ pc[i] # "updating"
  BY <1>1, OthersRest
<1>7. RecordInv'
  BY <1>1, <1>4, <1>6 DEF SimpleInv, RecordInv, Busy
<1>8. OpenInv'
  <2>1. \A d \in ToSet(recent) : doc[d].answered
    BY <1>1 DEF get_recent_recommendation
  <2> QED
    BY <1>1, <1>4, <1>6, <2>1 DEF SimpleInv, OpenInv
<1>9. ContentInv'
  BY <1>1 DEF SimpleInv, ContentInv
<1> QED
  BY <1>5, <1>7, <1>8, <1>9 DEF SimpleInv

LEMMA FindStep ==
  ASSUME TypeInv, SimpleInv, NEW j \in Jobs, FindRecent(j)
  PROVE  SimpleInv'
<1>0. JobsType /\ DocsType /\ ToSet(recent) \subseteq live
  BY DEF TypeInv, DocsType, ToSet
<1> DEFINE docs == get_recent_recommendation(Head(todo[j]))
<1>1. /\ Busy(j) /\ pc[j] = "creating" /\ todo[j] # << >> /\ docs # {}
      /\ shadowed' = [shadowed EXCEPT ![j] = FALSE] /\ pc' = [pc EXCEPT ![j] = "updating"]
      /\ UNCHANGED <<live, doc, recent, actions, todo, pending>>
  BY DEF FindRecent, docVars, Busy
<1>2. PICK list \in LatestFirst(docs) : found' = [found EXCEPT ![j] = list]
  BY DEF FindRecent
<1>3. /\ docs \subseteq ToSet(recent) /\ \A d \in docs, e \in docs : d = e
      /\ \A d \in ToSet(recent) : ~doc[d].answered => d \in docs
  BY DEF get_recent_recommendation, SimpleInv, OpenInv
<1> HIDE DEF docs
<1>4. list \in Seq(docs) /\ IsInjective(list) /\ DOMAIN list = 1..Len(list) /\ Len(list) > 0 /\ Len(list) \in Nat
  BY <1>1, <1>2, <1>3, LatestElements
<1>5. Len(list) = 1
  <2>1. CASE Len(list) > 1
    <3>1. 1 \in DOMAIN list /\ 2 \in DOMAIN list /\ list[1] \in docs /\ list[2] \in docs
      BY <2>1, <1>4
    <3>2. list[1] = list[2]
      BY <3>1, <1>3
    <3> QED
      BY <3>1, <3>2, <1>4 DEF IsInjective
  <2> QED
    BY <2>1, <1>4
<1>6. list[1] \in docs
  BY <1>4, <1>5
<1>7. \A i \in Jobs : /\ found'[i] = IF i = j THEN list ELSE found[i]
                      /\ pc'[i] = IF i = j THEN "updating" ELSE pc[i]
                      /\ shadowed'[i] = IF i = j THEN FALSE ELSE shadowed[i]
  BY <1>0, <1>1, <1>2 DEF JobsType
<1>8. \A i \in Jobs : Busy(i)' <=> Busy(i)
  BY <1>1, <1>7 DEF Busy
<1>9. Alone'
  BY <1>1, <1>8 DEF SimpleInv, Alone
<1>10. RecordInv'
  <2>1. \A i \in Jobs : Recorded(i)' <=> Recorded(i)
    BY <1>1 DEF Recorded
  <2> QED
    BY <1>1, <1>8, <2>1 DEF SimpleInv, RecordInv
<1>11. OpenInv'
  <2>1. \A i \in Jobs : i # j => pc[i] # "updating" /\ pending[i] = << >>
    BY <1>1, OthersRest
  <2>2. pending[j] = << >>
    BY <1>1 DEF SimpleInv, RecordInv
  <2>3. \A d \in ToSet(recent) : ~doc[d].answered => d = list[1]
    BY <1>3, <1>6
  <2>4. list[1] \in live
    BY <1>0, <1>3, <1>6
  <2>5. \A i \in Jobs : pc'[i] = "updating" => i = j
    BY <2>1, <1>7
  <2> QED
    BY <1>1, <1>5, <1>7, <2>1, <2>2, <2>3, <2>4, <2>5 DEF SimpleInv, OpenInv
<1>12. ContentInv'
  BY <1>1 DEF SimpleInv, ContentInv
<1> QED
  BY <1>9, <1>10, <1>11, <1>12 DEF SimpleInv

LEMMA UpdateStep ==
  ASSUME TypeInv, SimpleInv, NEW j \in Jobs, UpdateRecent(j)
  PROVE  SimpleInv'
<1>0. JobsType /\ DocsType /\ ToSet(recent) \subseteq live
  BY DEF TypeInv, DocsType, ToSet
<1>1. /\ Busy(j) /\ pc[j] = "updating" /\ todo[j] # << >> /\ found[j][1] \in live /\ ~shadowed[j]
      /\ \A d \in ToSet(recent) : ~doc[d].answered => d = found[j][1]
  BY <1>0 DEF UpdateRecent, Busy, JobsType, SimpleInv, OpenInv
<1>2. PICK d \in live : d = found[j][1]
  BY <1>1
<1> DEFINE a == Head(todo[j])
           new == [type |-> a, job |-> j, answered |-> doc[d].answered, content |-> a]
<1>3. /\ doc' = [doc EXCEPT ![d] = new] /\ recent' = <<d>> \o RecentWithout(d)
      /\ live' = live /\ actions' = actions /\ pending' = pending
      /\ todo' = [todo EXCEPT ![j] = Tail(@)] /\ pc' = [pc EXCEPT ![j] = "creating"]
  BY <1>1, <1>2 DEF UpdateRecent
<1>4. todo[j] = actions[j] /\ pending[j] = << >> /\ Len(todo[j]) <= 1 /\ todo[j] \in Seq(Actions)
  BY <1>0, <1>1 DEF SimpleInv, RecordInv, JobsType
<1>5. Tail(todo[j]) = << >> /\ ToSet(actions[j]) = {a} /\ a \in Actions
  <2>1. Tail(todo[j]) = << >> /\ ToSet(todo[j]) = {a}
    BY <1>1, <1>4, OneAction
  <2>2. a \in Actions
    BY <1>1, HeadAndTail
  <2> QED
    BY <2>1, <2>2, <1>4
<1>6. /\ new \in Document /\ new.type = a /\ new.job = j /\ new.content = a
      /\ new.answered = doc[d].answered
  <2>1. doc[d].answered \in BOOLEAN
    BY <1>0 DEF DocsType, Document
  <2> QED
    BY <2>1, <1>5 DEF Document
<1> HIDE DEF a, new
<1>7. ToSet(recent') = {d} \cup ToSet(recent)
  BY <1>3, <1>6, UpdateType
<1>8. \A e \in live : doc'[e] = IF e = d THEN new ELSE doc[e]
  BY <1>0, <1>3 DEF DocsType
<1>9. \A i \in Jobs : /\ todo'[i] = IF i = j THEN << >> ELSE todo[i]
                      /\ pc'[i] = IF i = j THEN "creating" ELSE pc[i]
  BY <1>0, <1>3, <1>5 DEF JobsType
<1>10. \A i \in Jobs : Busy(i)' <=> Busy(i)
  BY <1>1, <1>9 DEF Busy
<1>11. \A i \in Jobs : i # j => ~Busy(i) /\ pc[i] # "updating" /\ pending[i] = << >>
  BY <1>1, OthersRest
<1>12. Alone'
  BY <1>3, <1>10 DEF SimpleInv, Alone
<1>13. RecordInv'
  <2>1. Recorded(j)'
    BY <1>3, <1>5, <1>6, <1>8 DEF Recorded
  <2> QED
    BY <1>3, <1>4, <1>9, <1>10, <1>11, <2>1 DEF SimpleInv, RecordInv
<1>14. OpenInv'
  <2>1. \A e \in ToSet(recent') : e \in live /\ (~doc'[e].answered => e = d)
    BY <1>0, <1>1, <1>2, <1>6, <1>7, <1>8
  <2>2. \A i \in Jobs : pc'[i] # "updating" /\ pending'[i] = << >>
    BY <1>3, <1>4, <1>9, <1>11
  <2> QED
    BY <2>1, <2>2 DEF OpenInv
<1>15. ContentInv'
  BY <1>3, <1>6, <1>8 DEF SimpleInv, ContentInv
<1> QED
  BY <1>12, <1>13, <1>14, <1>15 DEF SimpleInv

\* What a job has inserted is on record as its own.
LEMMA SavedIsRecorded ==
  ASSUME TypeInv, SimpleInv, NEW j \in Jobs, batch_save(j)
  PROVE  Recorded(j)'
<1>1. Busy(j) /\ todo[j] = << >> /\ actions' = actions
  BY DEF batch_save, Busy
<1>2. PICK ids \in NewIds(Len(pending[j])) : live' = live \cup ToSet(ids) /\ doc' = Inserted(j, ids)
  BY DEF batch_save, Inserted
<1>3. /\ \A d \in live : doc'[d] = doc[d]
      /\ \A i \in 1..Len(pending[j]) : ids[i] \in ToSet(ids) /\ NewFor(doc'[ids[i]], j, pending[j][i])
  <2>1. /\ \A d \in live : Inserted(j, ids)[d] = doc[d]
        /\ \A i \in 1..Len(pending[j]) :
             ids[i] \in ToSet(ids) /\ NewFor(Inserted(j, ids)[ids[i]], j, pending[j][i])
    BY <1>2, InsertedDocs
  <2> QED
    BY <2>1, <1>2
<1>4. CASE pending[j] = actions[j]
  <2>1. pending[j] \in Seq(Actions) /\ DOMAIN actions[j] = 1..Len(pending[j])
    BY <1>4 DEF TypeInv, JobsType
  <2>2. \A a \in ToSet(actions[j]) : \E i \in 1..Len(pending[j]) : a = pending[j][i]
    BY <1>4, <2>1 DEF ToSet
  <2>3. \A i \in 1..Len(pending[j]) :
          ids[i] \in live' /\ doc'[ids[i]].type = pending[j][i] /\ doc'[ids[i]].job = j
    BY <1>2, <1>3 DEF NewFor
  <2>4. \A a \in ToSet(actions[j]) : \E d \in live' : doc'[d].type = a /\ doc'[d].job = j
    BY <2>2, <2>3
  <2> QED
    BY <1>1, <2>4 DEF Recorded
<1>5. CASE Recorded(j)
  BY <1>1, <1>2, <1>3, <1>5, RecordStays
<1> QED
  BY <1>1, <1>4, <1>5 DEF SimpleInv, RecordInv

LEMMA SaveStep ==
  ASSUME TypeInv, SimpleInv, NEW j \in Jobs, batch_save(j)
  PROVE  SimpleInv'
<1>0. JobsType /\ DocsType /\ ToSet(recent) \subseteq live
  BY DEF TypeInv, DocsType, ToSet
<1>1. /\ Busy(j) /\ todo[j] = << >>
      /\ pending' = [pending EXCEPT ![j] = << >>] /\ pc' = [pc EXCEPT ![j] = "saved"]
      /\ UNCHANGED <<actions, todo, found, shadowed>>
  BY DEF batch_save, Busy
<1>2. PICK ids \in NewIds(Len(pending[j])) :
        live' = live \cup ToSet(ids) /\ doc' = Inserted(j, ids) /\ recent' = Reverse(ids) \o recent
  BY DEF batch_save, Inserted
<1>3. Len(pending[j]) \in Nat /\ Len(pending[j]) <= 1 /\ (pending[j] = << >> \/ Len(pending[j]) = 1)
  <2>1. pending[j] \in Seq(Actions) /\ Len(actions[j]) <= 1
    BY <1>0 DEF JobsType, SimpleInv, RecordInv
  <2>2. pending[j] = << >> \/ pending[j] = actions[j]
    BY <1>1 DEF SimpleInv, RecordInv
  <2>3. pending[j] # << >> => Len(pending[j]) \in Nat \ {0}
    BY <2>1, EmptySeq, Zenon
  <2> QED
    BY <2>1, <2>2, <2>3
<1>4. ToSet(recent') = ToSet(ids) \cup ToSet(recent)
  BY <1>2, <1>3, InsertedElements
<1>5. /\ \A d \in live : doc'[d] = doc[d]
      /\ \A d \in ToSet(ids) : d \notin live /\ \E i \in 1..Len(pending[j]) :
           d = ids[i] /\ NewFor(doc'[d], j, pending[j][i])
  <2>1. /\ \A d \in live : Inserted(j, ids)[d] = doc[d]
        /\ \A d \in ToSet(ids) : d \notin live /\ \E i \in 1..Len(pending[j]) :
             d = ids[i] /\ NewFor(Inserted(j, ids)[d], j, pending[j][i])
    BY <1>2, InsertedDocs
  <2> QED
    BY <2>1, <1>2
<1>6. \A d \in ToSet(ids), e \in ToSet(ids) : d = e /\ pending[j] # << >>
  <2> SUFFICES ASSUME NEW d \in ToSet(ids), NEW e \in ToSet(ids) PROVE d = e /\ pending[j] # << >>
    OBVIOUS
  <2>1. PICK i \in 1..Len(pending[j]) : d = ids[i]
    BY <1>5
  <2>2. PICK k \in 1..Len(pending[j]) : e = ids[k]
    BY <1>5
  <2>3. i = 1 /\ k = 1
    BY <1>3, <2>1, <2>2
  <2>4. pending[j] # << >>
    BY <2>1
  <2> QED
    BY <2>1, <2>2, <2>3, <2>4
<1>7. \A i \in Jobs : /\ pending'[i] = IF i = j THEN << >> ELSE pending[i]
                      /\ pc'[i] = IF i = j THEN "saved" ELSE pc[i]
  BY <1>0, <1>1 DEF JobsType
<1>8. \A i \in Jobs : i # j => ~Busy(i) /\ pending[i] = << >> /\ pc[i] # "updating"
  BY <1>1, OthersRest
<1>9. \A i \in Jobs : ~Busy(i)' /\ pending'[i] = << >> /\ pc'[i] # "updating"
  BY <1>7, <1>8 DEF Busy
<1>10. Alone'
  BY <1>9 DEF Alone
<1>11. RecordInv'
  BY <1>1, <1>9 DEF SimpleInv, RecordInv
<1>12. OpenInv'
  <2>1. pending[j] # << >> => \A d \in ToSet(recent) : doc[d].answered
    BY DEF SimpleInv, OpenInv
  <2>2. ASSUME NEW d \in ToSet(recent'), NEW e \in ToSet(recent'), ~doc'[d].answered, ~doc'[e].answered
        PROVE  d = e
    <3>1. CASE d \in ToSet(ids) /\ e \in ToSet(ids)
      BY <3>1, <1>6
    <3>2. CASE d \in ToSet(recent) /\ e \in ToSet(recent)
      BY <3>2, <2>2, <1>0, <1>5 DEF SimpleInv, OpenInv
    <3>3. CASE d \in ToSet(ids) /\ e \in ToSet(recent)
      BY <3>3, <2>1, <2>2, <1>0, <1>5, <1>6
    <3>4. CASE d \in ToSet(recent) /\ e \in ToSet(ids)
      BY <3>4, <2>1, <2>2, <1>0, <1>5, <1>6
    <3> QED
      BY <3>1, <3>2, <3>3, <3>4, <1>4
  <2> QED
    BY <2>2, <1>9 DEF OpenInv
<1>13. ContentInv'
  <2>1. \A d \in ToSet(ids) : doc'[d].content = doc'[d].type
    BY <1>5 DEF NewFor
  <2>2. \A d \in live : doc'[d].content = doc'[d].type
    BY <1>5 DEF SimpleInv, ContentInv
  <2> QED
    BY <1>2, <2>1, <2>2 DEF ContentInv
<1> QED
  BY <1>10, <1>11, <1>12, <1>13 DEF SimpleInv

LEMMA FailStep ==
  ASSUME TypeInv, SimpleInv, NEW j \in Jobs, CreateFails(j)
  PROVE  SimpleInv'
<1>0. JobsType
  BY DEF TypeInv
<1>1. /\ Busy(j) /\ pc' = [pc EXCEPT ![j] = "failed"] /\ pending' = [pending EXCEPT ![j] = << >>]
      /\ UNCHANGED <<live, doc, recent, actions, todo>>
  BY DEF CreateFails, docVars, Busy
<1>2. \A i \in Jobs : i # j => ~Busy(i) /\ pending[i] = << >> /\ pc[i] # "updating"
  BY <1>1, OthersRest
<1>3. \A i \in Jobs : /\ pending'[i] = IF i = j THEN << >> ELSE pending[i]
                      /\ pc'[i] = IF i = j THEN "failed" ELSE pc[i]
  BY <1>0, <1>1 DEF JobsType
<1>4. \A i \in Jobs : ~Busy(i)' /\ pending'[i] = << >> /\ pc'[i] # "updating"
  BY <1>2, <1>3 DEF Busy
<1>5. Alone' /\ RecordInv'
  BY <1>1, <1>4 DEF SimpleInv, Alone, RecordInv
<1>6. OpenInv' /\ ContentInv'
  BY <1>1, <1>4 DEF SimpleInv, OpenInv, ContentInv
<1> QED
  BY <1>5, <1>6 DEF SimpleInv

LEMMA SimpleStep ==
  ASSUME TypeInv, SimpleInv, Simple, [Next]_vars
  PROVE  SimpleInv'
<1>0. DocsType /\ JobsType
  BY DEF TypeInv
<1>1. ASSUME NEW j \in Jobs, DeleteOlder(j) PROVE FALSE
  BY <1>1 DEF DeleteOlder, SimpleInv, OpenInv
<1>2. ASSUME NEW u \in Users, patch(u) PROVE SimpleInv'
  BY <1>2, OthersStep DEF patch, docVars
<1>3. ASSUME NEW u \in Users, save_feedback(u) PROVE SimpleInv'
  <2>1. \A d \in live : /\ doc'[d].type = doc[d].type /\ doc'[d].job = doc[d].job
                        /\ doc'[d].content = doc[d].content
                        /\ doc[d].answered => doc'[d].answered
    BY <1>0, <1>3 DEF save_feedback, DocsType, Document
  <2>2. live' = live /\ recent' = recent /\ UNCHANGED jobVars
    BY <1>3 DEF save_feedback
  <2> QED
    BY <2>1, <2>2, OthersStep
<1>4. CASE NewWeek
  <2>1. ToSet(recent') = {}
    BY <1>4 DEF NewWeek, ToSet
  <2> QED
    BY <1>4, <2>1, OthersStep DEF NewWeek
<1>5. CASE UNCHANGED vars
  BY <1>5, OthersStep DEF vars, docVars
<1>6. ASSUME NEW j \in Jobs, process_instance(j) \/ BuildItem(j) \/ FindRecent(j) PROVE SimpleInv'
  BY <1>6, ProcessStep, BuildStep, FindStep
<1>7. ASSUME NEW j \in Jobs, UpdateRecent(j) \/ batch_save(j) \/ CreateFails(j) PROVE SimpleInv'
  BY <1>7, UpdateStep, SaveStep, FailStep
<1> QED
  BY <1>1, <1>2, <1>3, <1>4, <1>5, <1>6, <1>7 DEF Next

LEMMA SettingStays == [Next]_vars => setting' = setting
BY DEF Next, process_instance, BuildItem, FindRecent, DeleteOlder, UpdateRecent, batch_save, CreateFails,
       patch, save_feedback, NewWeek, vars

LEMMA HistoryStep == HistoryInv /\ [Next]_vars => HistoryInv'
<1> SUFFICES ASSUME HistoryInv, [Next]_vars PROVE HistoryInv'
  OBVIOUS
<1>1. TypeInv'
  BY TypeStep DEF HistoryInv
<1>2. Simple' <=> Simple
  BY SettingStays DEF Simple
<1>3. Simple => SimpleInv'
  BY SimpleStep DEF HistoryInv
<1> QED
  BY <1>1, <1>2, <1>3 DEF HistoryInv

LEMMA AlwaysHistoryInv == Spec => []HistoryInv
<1>1. Init => HistoryInv
  BY TypeInit, SimpleInit DEF HistoryInv
<1> QED
  BY <1>1, HistoryStep, PTL DEF Spec

-----------------------------------------------------------------------------
(* The theorems                                                            *)

\* In the simple setting at most one recent document is unanswered, and every
\* document holds the recommendation for the action it names.
THEOREM HistoryIsUnambiguous == Spec => []OneUnanswered
<1>1. HistoryInv => OneUnanswered
  BY DEF HistoryInv, SimpleInv, OpenInv, ContentInv, OneUnanswered
<1> QED
  BY <1>1, AlwaysHistoryInv, PTL

\* Whatever jobs run at once: a document that is answered while no job holds it is
\* never held, changed or deleted any more.
THEOREM AnswersAreKept == Spec => AnsweredIsKept
<1>1. HistoryInv /\ [Next]_vars =>
        [\A d \in live :
           doc[d].answered /\ Unheld(d) => d \in live' /\ doc'[d] = doc[d] /\ Unheld(d)']_vars
  BY AnsweredStep DEF HistoryInv
<1> QED
  BY <1>1, AlwaysHistoryInv, PTL DEF Spec, AnsweredIsKept

\* In the simple setting a job that has saved its items has a document of its own
\* for the action it recommends.
THEOREM SimpleJobsAreRecorded == Spec => SimpleJobIsRecorded
<1>1. ASSUME HistoryInv, [Next]_vars, NEW j \in Jobs, Simple, pc[j] # "saved", pc'[j] = "saved",
             NEW a \in ToSet(actions[j])
      PROVE  \E d \in live' : doc'[d].type = a /\ doc'[d].job = j
  <2>1. TypeInv /\ SimpleInv /\ JobsType
    BY <1>1 DEF HistoryInv, TypeInv
  <2>2. batch_save(j)
    <3>1. ASSUME NEW i \in Jobs, \/ process_instance(i) \/ BuildItem(i) \/ FindRecent(i) \/ DeleteOlder(i)
                                 \/ UpdateRecent(i) \/ CreateFails(i) \/ (batch_save(i) /\ i # j)
          PROVE  FALSE
      BY <1>1, <2>1, <3>1 DEF process_instance, BuildItem, FindRecent, DeleteOlder, UpdateRecent, batch_save,
            CreateFails, JobsType
    <3>2. ASSUME NEW u \in Users, patch(u) \/ save_feedback(u) PROVE FALSE
      BY <1>1, <3>2 DEF patch, save_feedback, jobVars
    <3>3. ~NewWeek /\ ~UNCHANGED vars
      BY <1>1 DEF NewWeek, vars, jobVars
    <3> QED
      BY <1>1, <3>1, <3>2, <3>3 DEF Next
  <2>3. Recorded(j)' /\ actions' = actions
    BY <2>1, <2>2, SavedIsRecorded DEF batch_save
  <2> QED
    BY <2>3 DEF Recorded
<1>2. HistoryInv /\ [Next]_vars =>
        [\A j \in Jobs : Simple /\ pc[j] # "saved" /\ pc'[j] = "saved" =>
           \A a \in ToSet(actions[j]) :
             \E d \in live' : doc'[d].type = a /\ doc'[d].job = j]_vars
  BY <1>1
<1> QED
  BY <1>2, AlwaysHistoryInv, PTL DEF Spec, SimpleJobIsRecorded
=============================================================================
