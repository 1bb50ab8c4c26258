-------------------------- MODULE AlgorithmProofs --------------------------
(***************************************************************************)
(* Proofs about what RecommendationAlgorithms computes, for any catalogue, *)
(* prices and inputs.                                                      *)
(*                                                                         *)
(* What a list operator returns is stated as the set that its elements     *)
(* are of: a list of shapes that the rules allow stays one, whatever is    *)
(* filtered, sorted, joined and cut.                                       *)
(***************************************************************************)
EXTENDS RecommendationAlgorithms, FiniteSetTheorems, SequenceTheorems, TLAPS

-----------------------------------------------------------------------------
(* Numbers                                                                 *)

Below == {p \in Nat \X Nat : p[1] < p[2]}

LEMMA BelowIsWellFounded == IsWellFoundedOn(Below, Nat)
<1>1. IsWellFoundedOn(OpToRel(<, Nat), Nat)
  BY NatLessThanWellFounded, Zenon
<1>2. OpToRel(<, Nat) = Below
  BY DEF OpToRel, Below
<1> QED
  BY <1>1, <1>2

\* What stands for an induction: of the numbers that violate a claim one is least.
LEMMA Least ==
  ASSUME NEW T \in SUBSET Nat, T # {}
  PROVE  \E m \in T : \A k \in T : m <= k
<1>1. \E m \in T : \A k \in T : <<k, m>> \notin Below
  BY BelowIsWellFounded, WFMin
<1>2. \A k \in T, m \in T : k < m => <<k, m>> \in Below
  BY DEF Below
<1>3. \A k \in T, m \in T : <<k, m>> \notin Below => m <= k
  BY <1>2
<1> QED
  BY <1>1, <1>3

\* Induction over the numbers up to N, for the set of those of which a claim is true.
LEMMA UpTo ==
  ASSUME NEW N \in Nat, NEW G, 0 \in G, \A n \in 1..N : n - 1 \in G => n \in G
  PROVE  \A n \in 0..N : n \in G
<1> DEFINE Bad == {n \in 0..N : n \notin G}
<1>1. ASSUME Bad # {} PROVE FALSE
  <2>1. Bad \in SUBSET Nat
    OBVIOUS
  <2>2. PICK m \in Bad : \A k \in Bad : m <= k
    <3> HIDE DEF Bad
    <3> QED
      BY <1>1, <2>1, Least
  <2>3. m \in 1..N /\ m \notin G /\ m - 1 \in 0..N /\ ~(m <= m - 1)
    OBVIOUS
  <2>4. m - 1 \notin Bad
    <3> HIDE DEF Bad
    <3> QED
      BY <2>2, <2>3
  <2> QED
    BY <2>3, <2>4
<1> QED
  BY <1>1

\* A function can be defined from one number to the next.
Iteration(f, m, S, base, step) ==
  f \in [0..m -> S] /\ f[0] = base /\ \A k \in 1..m : f[k] = step[k][f[k - 1]]

LEMMA Iterates ==
  ASSUME NEW S, NEW base \in S, NEW n \in Nat, NEW step \in [1..n -> [S -> S]]
  PROVE  \E f : Iteration(f, n, S, base, step)
<1> DEFINE Bad == {m \in 0..n : ~\E f : Iteration(f, m, S, base, step)}
<1>1. ASSUME Bad # {} PROVE FALSE
  <2>1. Bad \in SUBSET Nat
    OBVIOUS
  <2>2. PICK m \in Bad : \A k \in Bad : m <= k
    <3> HIDE DEF Bad
    <3> QED
      BY <1>1, <2>1, Least
  <2>3. m \in 0..n /\ m \in Nat /\ ~\E f : Iteration(f, m, S, base, step)
    OBVIOUS
  <2>4. m # 0
    <3>1. Iteration([k \in 0..0 |-> base], 0, S, base, step)
      BY DEF Iteration
    <3> QED
      BY <2>3, <3>1
  <2>5. m - 1 \in 0..n /\ m \in 1..n /\ m - 1 \in Nat
    BY <2>3, <2>4
  <2>6. m - 1 \notin Bad
    <3> HIDE DEF Bad
    <3> QED
      BY <2>2, <2>3, <2>5
  <2>7. PICK f : Iteration(f, m - 1, S, base, step)
    BY <2>5, <2>6
  <2> HIDE DEF Bad
  <2> DEFINE l == m - 1
  <2>8. l \in Nat /\ m = l + 1 /\ Iteration(f, l, S, base, step)
    BY <2>5, <2>7
  <2> HIDE DEF l
  <2>9. f[l] \in S /\ step[m] \in [S -> S]
    BY <2>5, <2>8 DEF Iteration
  <2> DEFINE top == step[m][f[l]]
             g == [k \in 0..m |-> IF k = m THEN top ELSE f[k]]
  <2>10. top \in S
    BY <2>9
  <2> HIDE DEF top
  <2>11. g \in [0..m -> S]
    BY <2>8, <2>10 DEF Iteration
  <2>12. g[0] = base
    BY <2>8 DEF Iteration
  <2>13. ASSUME NEW k \in 1..m PROVE g[k] = step[k][g[k - 1]]
    <3>1. CASE k = m
      <4>1. k - 1 = l /\ g[k] = top /\ g[l] = f[l]
        BY <3>1, <2>8
      <4> QED
        BY <3>1, <4>1 DEF top
    <3>2. CASE k # m
      <4>1. k \in 1..l /\ k - 1 \in 0..m /\ k - 1 # m /\ k \in 0..m
        BY <3>2, <2>8
      <4>2. g[k] = f[k] /\ g[k - 1] = f[k - 1]
        BY <3>2, <4>1
      <4> QED
        BY <2>8, <4>1, <4>2 DEF Iteration
    <3> QED
      BY <3>1, <3>2
  <2> HIDE DEF g
  <2>14. Iteration(g, m, S, base, step)
    BY <2>11, <2>12, <2>13 DEF Iteration
  <2> QED
    BY <2>3, <2>14
<1>2. n \in 0..n /\ n \notin Bad
  BY <1>1
<1> QED
  BY <1>2

-----------------------------------------------------------------------------
(* Lists                                                                   *)

LEMMA JoinElements ==
  ASSUME NEW S, NEW s \in Seq(S), NEW t \in Seq(S)
  PROVE  s \o t \in Seq(S) /\ ToSet(s \o t) = ToSet(s) \cup ToSet(t)
<1>1. /\ s \o t \in Seq(S) /\ Len(s) \in Nat /\ Len(t) \in Nat /\ Len(s \o t) = Len(s) + Len(t)
      /\ DOMAIN s = 1..Len(s) /\ DOMAIN t = 1..Len(t) /\ DOMAIN (s \o t) = 1..(Len(s) + Len(t))
  OBVIOUS
<1>2. \A n \in 1..Len(s) : (s \o t)[n] = s[n] /\ n \in 1..(Len(s) + Len(t))
  BY <1>1
<1>3. \A n \in 1..Len(t) : (s \o t)[Len(s) + n] = t[n] /\ Len(s) + n \in 1..(Len(s) + Len(t))
  BY <1>1
<1>4. \A n \in 1..(Len(s) + Len(t)) : n \in 1..Len(s) \/ (n - Len(s) \in 1..Len(t) /\ n = Len(s) + (n - Len(s)))
  BY <1>1
<1>5. ToSet(s \o t) \subseteq ToSet(s) \cup ToSet(t)
  <2> SUFFICES ASSUME NEW n \in 1..(Len(s) + Len(t)) PROVE (s \o t)[n] \in ToSet(s) \cup ToSet(t)
    BY <1>1 DEF ToSet
  <2>1. CASE n \in 1..Len(s)
    BY <1>1, <1>2, <2>1 DEF ToSet
  <2>2. CASE n \notin 1..Len(s)
    <3> DEFINE k == n - Len(s)
    <3>1. k \in 1..Len(t) /\ n = Len(s) + k
      BY <1>4, <2>2
    <3> HIDE DEF k
    <3>2. (s \o t)[n] = t[k]
      BY <1>3, <3>1
    <3> QED
      BY <1>1, <3>1, <3>2 DEF ToSet
  <2> QED
    BY <2>1, <2>2
<1>6. ToSet(s) \subseteq ToSet(s \o t) /\ ToSet(t) \subseteq ToSet(s \o t)
  BY <1>1, <1>2, <1>3, Zenon DEF ToSet
<1> QED
  BY <1>1, <1>5, <1>6

\* FlattenSeq joins the lists one after the other.
LEMMA FlattenSteps ==
  ASSUME NEW S, NEW lists \in Seq(Seq(S))
  PROVE  \E h \in [0..Len(lists) -> Seq(S)] :
           /\ h[0] = << >> /\ FlattenSeq(lists) = h[Len(lists)]
           /\ \A n \in 1..Len(lists) : h[n] = h[n - 1] \o lists[n]
<1> DEFINE N == Len(lists)
           T == Seq(S)
<1>1. N \in Nat /\ << >> \in T /\ DOMAIN lists = 1..N /\ \A k \in 1..N : lists[k] \in T
  OBVIOUS
<1>2. CASE N = 0
  <2> DEFINE h == [n \in 0..N |-> << >>]
  <2>1. FlattenSeq(lists) = << >>
    BY <1>1, <1>2 DEF FlattenSeq
  <2>2. h \in [0..N -> T] /\ h[0] = << >> /\ h[N] = << >> /\ 1..N = {}
    BY <1>1, <1>2
  <2> QED
    BY <2>1, <2>2
<1>3. CASE N # 0
  <2> DEFINE step == [k \in 1..N |-> [x \in T |-> x \o lists[k]]]
             F(f) == [i \in 1..N |-> IF i = 1 THEN lists[i] ELSE f[i - 1] \o lists[i]]
             h == CHOOSE x : x = F(x)
  <2>1. step \in [1..N -> [T -> T]]
    BY <1>1
  <2>2. FlattenSeq(lists) = h[N]
    BY <1>3 DEF FlattenSeq
  <2> HIDE DEF N, T, step
  <2>3. PICK f : Iteration(f, N, T, << >>, step)
    BY <1>1, <2>1, Iterates
  <2>4. f \in [0..N -> T] /\ f[0] = << >>
    BY <2>3 DEF Iteration
  <2>5. ASSUME NEW k \in 1..N PROVE k - 1 \in 0..N /\ f[k] = f[k - 1] \o lists[k]
    <3> DEFINE x == f[k - 1]
    <3>1. k - 1 \in 0..N
      BY <1>1
    <3>2. x \in T /\ f[k] = step[k][x]
      BY <2>3, <2>4, <3>1 DEF Iteration
    <3> HIDE DEF x
    <3>3. step[k][x] = x \o lists[k]
      BY <3>2 DEF step
    <3> QED
      BY <3>1, <3>2, <3>3 DEF x
  <2>6. f[1] = lists[1]
    <3>1. 1 \in 1..N /\ 1 - 1 = 0
      BY <1>1, <1>3
    <3>2. f[1] = << >> \o lists[1] /\ lists[1] \in Seq(S)
      BY <1>1, <2>4, <2>5, <3>1 DEF T
    <3> QED
      BY <3>2
  <2> DEFINE g == [i \in 1..N |-> f[i]]
  <2>7. g = F(g)
    <3>1. ASSUME NEW i \in 1..N
          PROVE  f[i] = IF i = 1 THEN lists[i] ELSE g[i - 1] \o lists[i]
      <4>1. CASE i = 1
        BY <2>6, <4>1
      <4>2. CASE i # 1
        <5>1. i - 1 \in 1..N
          BY <1>1, <4>2
        <5>2. g[i - 1] = f[i - 1]
          BY <5>1
        <5> QED
          BY <2>5, <4>2, <5>2
      <4> QED
        BY <4>1, <4>2
    <3> QED
      BY <3>1
  <2>8. h = F(h)
    <3> HIDE DEF F, g
    <3> QED
      BY <2>7
  <2> HIDE DEF h
  <2> DEFINE G == {n \in 0..N : n = 0 \/ h[n] = f[n]}
  <2>9. \A n \in 0..N : n \in G
    <3>1. 0 \in G
      BY <1>1
    <3>2. ASSUME NEW n \in 1..N, n - 1 \in G PROVE n \in G
      <4>1. CASE n = 1
        BY <1>1, <2>6, <2>8, <4>1
      <4>2. CASE n # 1
        <5>1. n - 1 # 0
          BY <4>2
        <5>2. h[n] = h[n - 1] \o lists[n] /\ h[n - 1] = f[n - 1]
          BY <2>8, <3>2, <4>2, <5>1
        <5>3. f[n] = f[n - 1] \o lists[n] /\ n \in 0..N
          <6> HIDE DEF F, G
          <6>1. n \in 0..N
            BY <1>1
          <6>2. f[n] = f[n - 1] \o lists[n]
            BY <2>5
          <6> QED
            BY <6>1, <6>2
        <5>4. h[n] = f[n]
          BY <5>2, <5>3
        <5> QED
          BY <5>3, <5>4
      <4> QED
        BY <4>1, <4>2
    <3> HIDE DEF G
    <3> QED
      BY <1>1, <3>1, <3>2, UpTo
  <2>10. N \in G
    BY <1>1, <2>9
  <2>11. h[N] = f[N]
    BY <1>3, <2>10
  <2> QED
    BY <2>2, <2>4, <2>5, <2>11 DEF N, T
<1> QED
  BY <1>2, <1>3

LEMMA FlattenElements ==
  ASSUME NEW S, NEW lists \in Seq(Seq(S))
  PROVE  /\ FlattenSeq(lists) \in Seq(S)
         /\ ToSet(FlattenSeq(lists)) = UNION {ToSet(lists[n]) : n \in DOMAIN lists}
<1> DEFINE N == Len(lists)
           T == Seq(S)
           Lower(k) == UNION {ToSet(lists[n]) : n \in 1..k}
<1>1. N \in Nat /\ DOMAIN lists = 1..N /\ \A k \in 1..N : lists[k] \in T
  OBVIOUS
<1>2. PICK h \in [0..N -> T] :
        /\ h[0] = << >> /\ FlattenSeq(lists) = h[N]
        /\ \A n \in 1..N : h[n] = h[n - 1] \o lists[n]
  BY FlattenSteps
<1> HIDE DEF N, T
<1> DEFINE G == {n \in 0..N : ToSet(h[n]) = Lower(n)}
<1>3. 0 \in G
  <2>1. ToSet(<< >>) = {} /\ 1..0 = {}
    BY DEF ToSet
  <2> QED
    BY <1>1, <1>2, <2>1
<1>4. ASSUME NEW n \in 1..N, n - 1 \in G PROVE n \in G
  <2> DEFINE s == h[n - 1]
  <2>1. n - 1 \in 0..N /\ n \in 0..N /\ 1..n = 1..(n - 1) \cup {n}
    BY <1>1
  <2>2. s \in T /\ lists[n] \in T /\ h[n] = s \o lists[n] /\ ToSet(s) = Lower(n - 1)
    BY <1>1, <1>2, <1>4, <2>1
  <2> HIDE DEF s
  <2>3. ToSet(h[n]) = ToSet(s) \cup ToSet(lists[n])
    BY <2>2, JoinElements DEF T
  <2>4. Lower(n) = Lower(n - 1) \cup ToSet(lists[n])
    BY <2>1
  <2> HIDE DEF Lower
  <2> QED
    BY <2>1, <2>2, <2>3, <2>4
<1>5. N \in G
  <2> HIDE DEF G
  <2>1. N \in 0..N
    BY <1>1
  <2> QED
    BY <1>1, <1>3, <1>4, <2>1, UpTo
<1>6. h[N] \in T
  BY <1>1, <1>2
<1> QED
  BY <1>1, <1>2, <1>5, <1>6 DEF T

\* The first element comes from the first list that has one.
LEMMA FlattenFirst ==
  ASSUME NEW S, NEW lists \in Seq(Seq(S)), FlattenSeq(lists) # << >>
  PROVE  \E n \in DOMAIN lists :
           /\ lists[n] # << >> /\ FlattenSeq(lists)[1] = lists[n][1]
           /\ \A m \in 1..(n - 1) : lists[m] = << >>
<1> DEFINE N == Len(lists)
           T == Seq(S)
           First(k, s) == \E n \in 1..k :
             /\ lists[n] # << >> /\ s[1] = lists[n][1]
             /\ \A m \in 1..(n - 1) : lists[m] = << >>
           Found(k, s) ==
             \/ s = << >> /\ \A m \in 1..k : lists[m] = << >>
             \/ s # << >> /\ First(k, s)
<1>1. N \in Nat /\ DOMAIN lists = 1..N /\ \A k \in 1..N : lists[k] \in T
  OBVIOUS
<1>2. PICK h \in [0..N -> T] :
        /\ h[0] = << >> /\ FlattenSeq(lists) = h[N]
        /\ \A n \in 1..N : h[n] = h[n - 1] \o lists[n]
  BY FlattenSteps
<1> HIDE DEF N, T
<1> DEFINE G == {n \in 0..N : Found(n, h[n])}
<1>3. 0 \in G
  BY <1>1, <1>2
<1>4. ASSUME NEW n \in 1..N, n - 1 \in G PROVE n \in G
  <2> DEFINE s == h[n - 1]
             t == h[n]
  <2>1. n - 1 \in 0..N /\ n \in 0..N /\ \A m \in 1..n : m = n \/ m \in 1..(n - 1)
    BY <1>1
  <2>2. s \in T /\ lists[n] \in T /\ t = s \o lists[n] /\ Found(n - 1, s)
    BY <1>1, <1>2, <1>4, <2>1
  <2> HIDE DEF s, t
  <2>3. CASE s = << >>
    <3>1. t = lists[n] /\ \A m \in 1..(n - 1) : lists[m] = << >>
      BY <2>2, <2>3 DEF T
    <3> QED
      BY <2>1, <3>1 DEF t
  <2>4. CASE s # << >>
    <3>1. t # << >> /\ t[1] = s[1]
      <4>1. s \in Seq(S) /\ lists[n] \in Seq(S) /\ Len(s) >= 1
        BY <2>2, <2>4 DEF T
      <4> QED
        BY <2>2, <4>1
    <3>2. First(n - 1, s)
      BY <2>2, <2>4
    <3>3. \A m \in 1..(n - 1) : m \in 1..n
      BY <1>1
    <3>4. First(n, t)
      BY <3>1, <3>2, <3>3
    <3> QED
      BY <2>1, <3>1, <3>4 DEF t
  <2> QED
    BY <2>3, <2>4
<1>5. N \in G
  <2> HIDE DEF G
  <2>1. N \in 0..N
    BY <1>1
  <2> QED
    BY <1>1, <1>3, <1>4, <2>1, UpTo
<1> QED
  BY <1>1, <1>2, <1>5

LEMMA FilteredElements ==
  ASSUME NEW S, NEW list \in Seq(S), NEW kept
  PROVE  /\ Filtered(list, kept) \in Seq(S \cap kept) /\ Filtered(list, kept) \in Seq(S)
         /\ ToSet(Filtered(list, kept)) = ToSet(list) \cap kept
<1> DEFINE T == S \cap kept
           lists == [n \in DOMAIN list |-> IF list[n] \in kept THEN <<list[n]>> ELSE << >>]
<1>1. DOMAIN list = 1..Len(list) /\ Len(list) \in Nat /\ \A n \in 1..Len(list) : list[n] \in S
  OBVIOUS
<1>2. \A n \in 1..Len(list) :
        lists[n] \in Seq(T) /\ ToSet(lists[n]) = IF list[n] \in kept THEN {list[n]} ELSE {}
  <2> TAKE n \in 1..Len(list)
  <2>1. CASE list[n] \in kept
    <3>1. lists[n] = <<list[n]>> /\ list[n] \in T
      BY <1>1, <2>1
    <3> HIDE DEF lists
    <3>2. ToSet(<<list[n]>>) = {list[n]}
      BY DEF ToSet
    <3> QED
      BY <2>1, <3>1, <3>2
  <2>2. CASE list[n] \notin kept
    <3>1. lists[n] = << >>
      BY <1>1, <2>2
    <3> HIDE DEF lists
    <3>2. ToSet(<< >>) = {}
      BY DEF ToSet
    <3> QED
      BY <2>2, <3>1, <3>2
  <2> QED
    BY <2>1, <2>2
<1>3. lists \in Seq(Seq(T)) /\ DOMAIN lists = 1..Len(list)
  <2>1. lists \in [1..Len(list) -> Seq(T)]
    BY <1>1, <1>2
  <2> HIDE DEF lists
  <2> QED
    BY <1>1, <2>1
<1>4. Filtered(list, kept) = FlattenSeq(lists)
  BY DEF Filtered
<1> HIDE DEF lists, T
<1>5. FlattenSeq(lists) \in Seq(T) /\ ToSet(FlattenSeq(lists)) = UNION {ToSet(lists[n]) : n \in 1..Len(list)}
  BY <1>3, FlattenElements
<1>6. UNION {ToSet(lists[n]) : n \in 1..Len(list)} = ToSet(list) \cap kept
  <2>1. UNION {ToSet(lists[n]) : n \in 1..Len(list)} = {list[n] : n \in 1..Len(list)} \cap kept
    BY <1>2
  <2> QED
    BY <1>1, <2>1 DEF ToSet
<1>7. Seq(T) \subseteq Seq(S)
  BY DEF T
<1> QED
  BY <1>4, <1>5, <1>6, <1>7 DEF T

\* The first element that is left is the first of the list that is kept.
LEMMA FilteredFirst ==
  ASSUME NEW S, NEW list \in Seq(S), NEW kept, Filtered(list, kept) # << >>
  PROVE  \E n \in DOMAIN list :
           /\ list[n] \in kept /\ Filtered(list, kept)[1] = list[n]
           /\ \A m \in 1..(n - 1) : list[m] \notin kept
<1> DEFINE lists == [n \in DOMAIN list |-> IF list[n] \in kept THEN <<list[n]>> ELSE << >>]
<1>1. DOMAIN list = 1..Len(list) /\ Len(list) \in Nat /\ \A n \in 1..Len(list) : list[n] \in S
  OBVIOUS
<1>2. lists \in Seq(Seq(S)) /\ DOMAIN lists = 1..Len(list)
  <2>1. lists \in [1..Len(list) -> Seq(S)]
    BY <1>1
  <2> HIDE DEF lists
  <2> QED
    BY <1>1, <2>1
<1>3. Filtered(list, kept) = FlattenSeq(lists)
  BY DEF Filtered
<1>4. \A n \in 1..Len(list) : lists[n] # << >> => list[n] \in kept /\ lists[n][1] = list[n]
  BY <1>1
<1>5. \A n \in 1..Len(list) : lists[n] = << >> => list[n] \notin kept
  BY <1>1
<1> HIDE DEF lists
<1>6. PICK n \in DOMAIN lists :
        /\ lists[n] # << >> /\ FlattenSeq(lists)[1] = lists[n][1]
        /\ \A m \in 1..(n - 1) : lists[m] = << >>
  BY <1>2, <1>3, FlattenFirst
<1>7. \A m \in 1..(n - 1) : m \in 1..Len(list)
  BY <1>1, <1>2
<1> QED
  BY <1>1, <1>2, <1>3, <1>4, <1>5, <1>6, <1>7

LEMMA DistinctElements ==
  ASSUME NEW S, NEW list \in Seq(S)
  PROVE  Distinct(list) \in Seq(S)
<1> DEFINE lists == [n \in DOMAIN list |->
             IF \E m \in 1..(n - 1) : list[m] = list[n] THEN << >> ELSE <<list[n]>>]
<1>1. DOMAIN list = 1..Len(list) /\ Len(list) \in Nat /\ \A n \in 1..Len(list) : list[n] \in S
  OBVIOUS
<1>2. lists \in [1..Len(list) -> Seq(S)]
  BY <1>1
<1>3. Distinct(list) = FlattenSeq(lists)
  BY DEF Distinct
<1> HIDE DEF lists
<1>4. lists \in Seq(Seq(S))
  BY <1>1, <1>2
<1> QED
  BY <1>3, <1>4, FlattenElements

\* An element is inserted behind those that it does not have to precede, as many as there are.
Ahead(list, x, before) == {n \in DOMAIN list : <<x, list[n]>> \notin before}

LEMMA InsertedPlaces ==
  ASSUME NEW S, NEW list \in Seq(S), NEW x \in S, NEW before
  PROVE  LET k == 1 + Cardinality(Ahead(list, x, before))
             s == Inserted(list, x, before)
         IN  /\ k \in 1..(Len(list) + 1) /\ s \in Seq(S) /\ Len(s) = Len(list) + 1
             /\ \A i \in 1..(Len(list) + 1) :
                  s[i] = IF i < k THEN list[i] ELSE IF i = k THEN x ELSE list[i - 1]
<1> DEFINE N == Len(list)
           k == 1 + Cardinality(Ahead(list, x, before))
           l == SubSeq(list, 1, k - 1)
           r == SubSeq(list, k, N)
           s == Inserted(list, x, before)
<1>1. N \in Nat /\ DOMAIN list = 1..N
  OBVIOUS
<1>2. k \in 1..(N + 1)
  <2> HIDE DEF N
  <2>1. IsFiniteSet(1..N) /\ Cardinality(1..N) = N
    BY <1>1, FS_Interval
  <2>2. Ahead(list, x, before) \in SUBSET (1..N)
    BY <1>1 DEF Ahead
  <2>3. IsFiniteSet(Ahead(list, x, before)) /\ Cardinality(Ahead(list, x, before)) <= N
    BY <2>1, <2>2, FS_Subset
  <2> QED
    BY <1>1, <2>3, FS_CardinalityType
<1>3. s = l \o <<x>> \o r
  BY DEF Inserted, InsertAt, Ahead
<1> HIDE DEF k, s
<1>4. /\ l \in Seq(S) /\ Len(l) = k - 1 /\ \A n \in 1..(k - 1) : l[n] = list[n]
      /\ r \in Seq(S) /\ Len(r) = N - k + 1 /\ \A n \in 1..(N - k + 1) : r[n] = list[k + n - 1]
  <2>1. l \in Seq(S) /\ Len(l) = k - 1 /\ \A n \in 1..(k - 1) : l[n] = list[n]
    BY <1>1, <1>2
  <2>2. r \in Seq(S) /\ Len(r) = N - k + 1
    BY <1>1, <1>2
  <2>3. \A n \in 1..(N - k + 1) : r[n] = list[k + n - 1]
    BY <1>1, <1>2
  <2> QED
    BY <2>1, <2>2, <2>3
<1> HIDE DEF l, r, N
<1> DEFINE lx == l \o <<x>>
<1>5. lx \in Seq(S) /\ Len(lx) = k /\ lx[k] = x /\ \A n \in 1..(k - 1) : lx[n] = list[n]
  <2>1. k \in Nat \ {0} /\ l \in Seq(S) /\ Len(l) = k - 1
    BY <1>1, <1>2, <1>4
  <2>2. lx = Append(l, x)
    BY <2>1
  <2> HIDE DEF lx
  <2>3. lx \in Seq(S) /\ Len(lx) = k /\ lx[k] = x
    BY <2>1, <2>2
  <2>4. \A n \in 1..(k - 1) : lx[n] = l[n]
    BY <2>1, <2>2
  <2> QED
    BY <1>4, <2>3, <2>4
<1>6. s = lx \o r
  BY <1>3
<1> HIDE DEF lx
<1>7. s \in Seq(S) /\ Len(s) = N + 1
  <2>1. lx \in Seq(S) /\ r \in Seq(S)
    BY <1>4, <1>5
  <2>2. s \in Seq(S) /\ Len(s) = Len(lx) + Len(r)
    BY <1>6, <2>1
  <2> QED
    BY <1>1, <1>2, <1>4, <1>5, <2>2
<1>8. ASSUME NEW i \in 1..(N + 1)
      PROVE  s[i] = IF i < k THEN list[i] ELSE IF i = k THEN x ELSE list[i - 1]
  <2>1. CASE i <= k
    <3>1. s[i] = lx[i]
      BY <1>2, <1>4, <1>5, <1>6, <2>1
    <3> QED
      BY <1>1, <1>2, <1>5, <2>1, <3>1
  <2>2. CASE i > k
    <3> DEFINE n == i - k
    <3>1. n \in 1..(N - k + 1) /\ i = k + n /\ k + n - 1 = i - 1
      BY <1>1, <1>2, <2>2
    <3>2. s[i] = r[n]
      BY <1>2, <1>4, <1>5, <1>6, <3>1, SMTT(30)
    <3> QED
      BY <1>2, <1>4, <2>2, <3>1, <3>2
  <2> QED
    BY <1>1, <1>2, <2>1, <2>2
<1> QED
  BY <1>2, <1>7, <1>8 DEF k, s, N

LEMMA InsertedElements ==
  ASSUME NEW S, NEW list \in Seq(S), NEW x \in S, NEW before
  PROVE  ToSet(Inserted(list, x, before)) = ToSet(list) \cup {x}
<1> DEFINE N == Len(list)
           k == 1 + Cardinality(Ahead(list, x, before))
           s == Inserted(list, x, before)
<1>1. /\ k \in 1..(N + 1) /\ s \in Seq(S) /\ Len(s) = N + 1
      /\ \A i \in 1..(N + 1) : s[i] = IF i < k THEN list[i] ELSE IF i = k THEN x ELSE list[i - 1]
  BY InsertedPlaces
<1>2. N \in Nat /\ ToSet(list) = {list[n] : n \in 1..N}
  BY DEF ToSet
<1>3. ToSet(s) = {s[i] : i \in 1..(N + 1)}
  BY <1>1 DEF ToSet
<1> HIDE DEF N, k, s
<1>4. ToSet(s) \subseteq ToSet(list) \cup {x}
  <2> SUFFICES ASSUME NEW i \in 1..(N + 1) PROVE s[i] \in ToSet(list) \cup {x}
    BY <1>3
  <2>1. (i < k => i \in 1..N) /\ (~(i < k) /\ i # k => i - 1 \in 1..N)
    BY <1>1, <1>2
  <2> QED
    BY <1>1, <1>2, <2>1
<1>5. x \in ToSet(s)
  <2>1. s[k] = x
    BY <1>1, <1>2
  <2> QED
    BY <1>1, <1>3, <2>1
<1>6. ToSet(list) \subseteq ToSet(s)
  <2> SUFFICES ASSUME NEW n \in 1..N PROVE list[n] \in ToSet(s)
    BY <1>2
  <2>1. CASE n < k
    <3>1. n \in 1..(N + 1) /\ s[n] = list[n]
      BY <1>1, <1>2, <2>1
    <3> QED
      BY <1>3, <3>1
  <2>2. CASE ~(n < k)
    <3> DEFINE i == n + 1
    <3>1. i \in 1..(N + 1) /\ ~(i < k) /\ i # k /\ i - 1 = n
      BY <1>1, <1>2, <2>2
    <3> HIDE DEF i
    <3>2. s[i] = list[n]
      BY <1>1, <3>1
    <3> QED
      BY <1>3, <3>1, <3>2
  <2> QED
    BY <2>1, <2>2
<1> QED
  BY <1>4, <1>5, <1>6 DEF s

\* A list is sorted by inserting its elements one after the other.
Sortings(S, list, before) ==
  {h \in [0..Len(list) -> Seq(S)] :
     /\ h[0] = << >> /\ Sorted(list, before) = h[Len(list)]
     /\ \A n \in 1..Len(list) : h[n] = Inserted(h[n - 1], list[n], before)}

LEMMA SortedSteps ==
  ASSUME NEW S, NEW list \in Seq(S), NEW before
  PROVE  Sortings(S, list, before) # {}
<1> DEFINE N == Len(list)
           T == Seq(S)
           step == [k \in 1..N |-> [s \in T |-> Inserted(s, list[k], before)]]
           F(f) == [n \in 0..N |-> IF n = 0 THEN << >> ELSE Inserted(f[n - 1], list[n], before)]
<1>1. N \in Nat /\ (\A k \in 1..N : list[k] \in S) /\ << >> \in T
  OBVIOUS
<1>2. step \in [1..N -> [T -> T]]
  <2>1. ASSUME NEW k \in 1..N, NEW s \in T PROVE Inserted(s, list[k], before) \in T
    BY <1>1, InsertedPlaces
  <2> QED
    BY <2>1
<1> HIDE DEF N, T, step
<1>3. PICK f : Iteration(f, N, T, << >>, step)
  BY <1>1, <1>2, Iterates
<1>4. f \in [0..N -> T] /\ f[0] = << >>
  BY <1>3 DEF Iteration
<1>5. ASSUME NEW k \in 1..N PROVE k \in 0..N /\ f[k - 1] \in T /\ f[k] = Inserted(f[k - 1], list[k], before)
  <2> DEFINE s == f[k - 1]
  <2>1. k - 1 \in 0..N /\ k \in 0..N
    BY <1>1
  <2>2. s \in T /\ f[k] = step[k][s]
    BY <1>3, <1>4, <2>1 DEF Iteration
  <2> HIDE DEF s
  <2>3. step[k][s] = Inserted(s, list[k], before)
    BY <2>2 DEF step
  <2> QED
    BY <2>1, <2>2, <2>3 DEF s
<1>6. f = F(f)
  <2>1. \A n \in 0..N : n # 0 => n \in 1..N
    BY <1>1
  <2>2. \A n \in 0..N : f[n] = IF n = 0 THEN << >> ELSE Inserted(f[n - 1], list[n], before)
    BY <1>4, <1>5, <2>1
  <2> QED
    BY <1>4, <2>2
<1> DEFINE h == CHOOSE x : x = F(x)
<1>7. h = F(h)
  <2> HIDE DEF F
  <2> QED
    BY <1>6
<1>8. Sorted(list, before) = h[N]
  BY DEF Sorted, N
<1> HIDE DEF h
<1>9. h[0] = << >> /\ \A n \in 1..N : h[n] = Inserted(h[n - 1], list[n], before)
  <2>1. 0 \in 0..N /\ \A n \in 1..N : n \in 0..N /\ n # 0
    BY <1>1
  <2> QED
    BY <1>7, <2>1
<1> DEFINE G == {n \in 0..N : h[n] \in T}
<1>10. \A n \in 0..N : n \in G
  <2>1. 0 \in G
    BY <1>1, <1>9
  <2>2. ASSUME NEW n \in 1..N, n - 1 \in G PROVE n \in G
    <3> DEFINE s == h[n - 1]
    <3>1. s \in Seq(S) /\ list[n] \in S /\ h[n] = Inserted(s, list[n], before) /\ n \in 0..N
      BY <1>1, <1>9, <2>2 DEF T
    <3> HIDE DEF s
    <3>2. h[n] \in T
      BY <3>1, InsertedPlaces DEF T
    <3> QED
      BY <3>1, <3>2
  <2> HIDE DEF G
  <2> QED
    BY <1>1, <2>1, <2>2, UpTo
<1>11. h \in [0..N -> T]
  BY <1>7, <1>10
<1> QED
  BY <1>8, <1>9, <1>11 DEF N, T, Sortings

LEMMA SortedElements ==
  ASSUME NEW S, NEW list \in Seq(S), NEW before
  PROVE  Sorted(list, before) \in Seq(S) /\ ToSet(Sorted(list, before)) = ToSet(list)
<1> DEFINE N == Len(list)
           T == Seq(S)
           Lower(k) == {list[n] : n \in 1..k}
<1>1. N \in Nat /\ (\A n \in 1..N : list[n] \in S) /\ ToSet(list) = Lower(N)
  BY DEF ToSet
<1>2. PICK h \in [0..N -> T] :
        /\ h[0] = << >> /\ Sorted(list, before) = h[N]
        /\ \A n \in 1..N : h[n] = Inserted(h[n - 1], list[n], before)
  <2>1. Sortings(S, list, before) # {}
    BY SortedSteps
  <2> QED
    BY <2>1 DEF Sortings
<1> HIDE DEF N, T
<1> DEFINE G == {n \in 0..N : ToSet(h[n]) = Lower(n)}
<1>3. 0 \in G
  <2>1. ToSet(<< >>) = {} /\ 1..0 = {}
    BY DEF ToSet
  <2> QED
    BY <1>1, <1>2, <2>1
<1>4. ASSUME NEW n \in 1..N, n - 1 \in G PROVE n \in G
  <2> DEFINE s == h[n - 1]
  <2>1. n - 1 \in 0..N /\ n \in 0..N /\ 1..n = 1..(n - 1) \cup {n}
    BY <1>1
  <2>2. s \in T /\ list[n] \in S /\ h[n] = Inserted(s, list[n], before) /\ ToSet(s) = Lower(n - 1)
    BY <1>1, <1>2, <1>4, <2>1
  <2> HIDE DEF s
  <2>3. ToSet(h[n]) = ToSet(s) \cup {list[n]}
    BY <2>2, InsertedElements DEF T
  <2>4. Lower(n) = Lower(n - 1) \cup {list[n]}
    BY <2>1
  <2> HIDE DEF Lower
  <2> QED
    BY <2>1, <2>2, <2>3, <2>4
<1>5. N \in G
  <2> HIDE DEF G
  <2>1. N \in 0..N
    BY <1>1
  <2> QED
    BY <1>1, <1>3, <1>4, <2>1, UpTo
<1>6. h[N] \in T
  BY <1>1, <1>2
<1> QED
  BY <1>1, <1>2, <1>5, <1>6 DEF T

\* before orders the elements of S up to ties.
Orders(before, S) ==
  /\ \A x, y \in S : <<x, y>> \in before => <<y, x>> \notin before
  /\ \A x, y, z \in S : <<x, y>> \notin before /\ <<y, z>> \notin before => <<x, z>> \notin before

InOrder(list, before) == \A m, n \in DOMAIN list : m < n => <<list[n], list[m]>> \notin before

LEMMA InsertedOrder ==
  ASSUME NEW S, NEW list \in Seq(S), NEW x \in S, NEW before, Orders(before, S), InOrder(list, before)
  PROVE  InOrder(Inserted(list, x, before), before)
<1> DEFINE N == Len(list)
           A == Ahead(list, x, before)
           k == 1 + Cardinality(A)
           s == Inserted(list, x, before)
           Ends == {n \in Nat : n + 1 \notin A}
<1>1. N \in Nat /\ DOMAIN list = 1..N /\ \A n \in 1..N : list[n] \in S
  OBVIOUS
<1>2. /\ k \in 1..(N + 1) /\ s \in Seq(S) /\ Len(s) = N + 1
      /\ \A i \in 1..(N + 1) : s[i] = IF i < k THEN list[i] ELSE IF i = k THEN x ELSE list[i - 1]
  BY InsertedPlaces
<1>3. DOMAIN s = 1..(N + 1)
  BY <1>2
<1> HIDE DEF N, s
<1>4. A \subseteq 1..N
  BY <1>1 DEF Ahead
<1>5. ASSUME NEW n \in A, NEW m \in 1..N, m < n PROVE m \in A
  <2>1. n \in 1..N /\ <<x, list[n]>> \notin before /\ <<list[n], list[m]>> \notin before
    BY <1>1, <1>4, <1>5 DEF Ahead, InOrder
  <2>2. <<x, list[m]>> \notin before
    BY <1>1, <2>1 DEF Orders
  <2> QED
    BY <1>1, <2>2 DEF Ahead
<1>6. PICK u \in Ends : \A n \in Ends : u <= n
  <2>1. N \in Ends
    BY <1>1, <1>4
  <2>2. Ends \in SUBSET Nat /\ Ends # {}
    BY <2>1
  <2> HIDE DEF Ends
  <2> QED
    BY <2>2, Least
<1>7. A = 1..u
  <2>1. u \in Nat /\ u + 1 \notin A
    OBVIOUS
  <2>2. ASSUME NEW n \in 1..u PROVE n \in A
    <3>1. n - 1 \in Nat /\ ~(u <= n - 1) /\ (n - 1) + 1 = n
      BY <2>1
    <3>2. n - 1 \notin Ends
      <4> HIDE DEF Ends
      <4> QED
        BY <1>6, <3>1
    <3> QED
      BY <3>1, <3>2
  <2>3. ASSUME NEW n \in A PROVE n \in 1..u
    <3>1. n \in 1..N
      BY <1>4
    <3>2. n # u + 1
      BY <2>1
    <3>3. ~(u + 1 < n)
      <4> SUFFICES ASSUME u + 1 < n PROVE FALSE
        OBVIOUS
      <4>1. u + 1 \in 1..N
        BY <1>1, <2>1, <3>1
      <4> QED
        BY <1>5, <2>1, <4>1
    <3> QED
      BY <1>1, <2>1, <3>1, <3>2, <3>3
  <2> QED
    BY <2>2, <2>3
<1>8. u \in Nat /\ k = u + 1
  <2>1. u \in Nat
    OBVIOUS
  <2>2. Cardinality(1..u) = u
    BY <2>1, FS_Interval
  <2> QED
    BY <1>7, <2>1, <2>2
<1> HIDE DEF k, Ends
<1>9. ASSUME NEW i \in 1..(N + 1), NEW j \in 1..(N + 1), i < j
      PROVE  <<s[j], s[i]>> \notin before
  <2>1. CASE j < k
    <3>1. s[i] = list[i] /\ s[j] = list[j] /\ i \in 1..N /\ j \in 1..N
      BY <1>1, <1>2, <1>9, <2>1
    <3> QED
      BY <1>1, <1>9, <3>1 DEF InOrder
  <2>2. CASE j = k
    <3>1. s[i] = list[i] /\ s[j] = x /\ i \in A
      BY <1>1, <1>2, <1>7, <1>8, <1>9, <2>2
    <3> QED
      BY <3>1 DEF Ahead
  <2>3. CASE j > k /\ i < k
    <3>1. s[i] = list[i] /\ s[j] = list[j - 1] /\ i \in 1..N /\ j - 1 \in 1..N /\ i < j - 1
      BY <1>1, <1>2, <1>9, <2>3
    <3> QED
      BY <1>1, <3>1 DEF InOrder
  <2>4. CASE j > k /\ i = k
    <3>1. s[i] = x /\ s[j] = list[j - 1] /\ j - 1 \in 1..N /\ j - 1 \notin A
      BY <1>1, <1>2, <1>7, <1>8, <1>9, <2>4
    <3>2. <<x, list[j - 1]>> \in before
      BY <1>1, <3>1 DEF Ahead
    <3> QED
      BY <1>1, <3>1, <3>2 DEF Orders
  <2>5. CASE j > k /\ i > k
    <3>1. s[i] = list[i - 1] /\ s[j] = list[j - 1] /\ i - 1 \in 1..N /\ j - 1 \in 1..N /\ i - 1 < j - 1
      BY <1>1, <1>2, <1>9, <2>5
    <3> QED
      BY <1>1, <3>1 DEF InOrder
  <2> QED
    BY <1>1, <1>2, <2>1, <2>2, <2>3, <2>4, <2>5
<1> QED
  BY <1>3, <1>9 DEF InOrder, s

LEMMA SortedOrder ==
  ASSUME NEW S, NEW list \in Seq(S), NEW before, Orders(before, S)
  PROVE  InOrder(Sorted(list, before), before)
<1> DEFINE N == Len(list)
           T == Seq(S)
<1>1. N \in Nat /\ (\A n \in 1..N : list[n] \in S)
  OBVIOUS
<1>2. PICK h \in [0..N -> T] :
        /\ h[0] = << >> /\ Sorted(list, before) = h[N]
        /\ \A n \in 1..N : h[n] = Inserted(h[n - 1], list[n], before)
  <2>1. Sortings(S, list, before) # {}
    BY SortedSteps
  <2> QED
    BY <2>1 DEF Sortings
<1> HIDE DEF N, T
<1> DEFINE G == {n \in 0..N : InOrder(h[n], before)}
<1>3. 0 \in G
  <2>1. DOMAIN << >> = {}
    OBVIOUS
  <2> QED
    BY <1>1, <1>2, <2>1 DEF InOrder
<1>4. ASSUME NEW n \in 1..N, n - 1 \in G PROVE n \in G
  <2> DEFINE s == h[n - 1]
  <2>1. n - 1 \in 0..N /\ n \in 0..N
    BY <1>1
  <2>2. s \in Seq(S) /\ list[n] \in S /\ h[n] = Inserted(s, list[n], before) /\ InOrder(s, before)
    BY <1>1, <1>2, <1>4, <2>1 DEF T
  <2> HIDE DEF s
  <2>3. InOrder(h[n], before)
    BY <2>2, InsertedOrder
  <2> QED
    BY <2>1, <2>3
<1>5. N \in G
  <2> HIDE DEF G
  <2>1. N \in 0..N
    BY <1>1
  <2> QED
    BY <1>1, <1>3, <1>4, <2>1, UpTo
<1> QED
  BY <1>2, <1>5

\* An element that no other has to precede stays the first one.
LEMMA SortedFirst ==
  ASSUME NEW S, NEW list \in Seq(S), list # << >>, NEW before,
         \A n \in DOMAIN list : <<list[n], list[1]>> \notin before
  PROVE  Sorted(list, before)[1] = list[1]
<1> DEFINE N == Len(list)
           T == Seq(S)
<1>1. N \in Nat /\ N # 0 /\ (\A n \in 1..N : list[n] \in S) /\ DOMAIN list = 1..N
  OBVIOUS
<1>2. PICK h \in [0..N -> T] :
        /\ h[0] = << >> /\ Sorted(list, before) = h[N]
        /\ \A n \in 1..N : h[n] = Inserted(h[n - 1], list[n], before)
  <2>1. Sortings(S, list, before) # {}
    BY SortedSteps
  <2> QED
    BY <2>1 DEF Sortings
<1> HIDE DEF N, T
<1> DEFINE G == {n \in 0..N : n # 0 => h[n] # << >> /\ h[n][1] = list[1]}
<1>3. 0 \in G
  BY <1>1
<1>4. ASSUME NEW n \in 1..N, n - 1 \in G PROVE n \in G
  <2> DEFINE s == h[n - 1]
             t == h[n]
             k == 1 + Cardinality(Ahead(s, list[n], before))
  <2>1. n - 1 \in 0..N /\ n \in 0..N
    BY <1>1
  <2>2. s \in Seq(S) /\ list[n] \in S /\ t = Inserted(s, list[n], before)
    BY <1>1, <1>2, <2>1 DEF T
  <2>3. n - 1 # 0 => s # << >> /\ s[1] = list[1]
    BY <1>4
  <2>4. n - 1 = 0 => s = << >>
    BY <1>2
  <2> HIDE DEF s, t
  <2>5. /\ k \in 1..(Len(s) + 1) /\ t \in Seq(S) /\ Len(t) = Len(s) + 1
        /\ \A i \in 1..(Len(s) + 1) : t[i] = IF i < k THEN s[i] ELSE IF i = k THEN list[n] ELSE s[i - 1]
    BY <2>2, InsertedPlaces
  <2>6. t[1] = list[1]
    <3>1. Len(s) \in Nat /\ 1 \in 1..(Len(s) + 1)
      BY <2>2
    <3>2. CASE n = 1
      <4>1. k = 1
        <5>1. Len(s) = 0
          BY <2>4, <3>2
        <5> HIDE DEF k
        <5> QED
          BY <2>5, <5>1
      <4> HIDE DEF k
      <4> QED
        BY <2>5, <3>1, <3>2, <4>1
    <3>3. CASE n # 1
      <4>1. s # << >> /\ s[1] = list[1] /\ 1 \in DOMAIN s
        BY <2>2, <2>3, <3>3
      <4>2. 1 \in Ahead(s, list[n], before)
        BY <1>1, <4>1 DEF Ahead
      <4>3. 1 < k
        <5> DEFINE A == Ahead(s, list[n], before)
                   M == Len(s)
        <5>1. M \in Nat /\ A \in SUBSET (1..M)
          BY <2>2 DEF Ahead
        <5> HIDE DEF A, M
        <5>2. IsFiniteSet(A)
          <6>1. IsFiniteSet(1..M)
            BY <5>1, FS_Interval
          <6> QED
            BY <5>1, <6>1, FS_Subset
        <5>3. Cardinality(A) \in Nat /\ Cardinality(A) # 0
          BY <4>2, <5>2, FS_CardinalityType, FS_EmptySet DEF A
        <5> QED
          BY <5>3 DEF A
      <4> HIDE DEF k
      <4> QED
        BY <2>5, <3>1, <4>1, <4>3
    <3> QED
      BY <3>2, <3>3
  <2>7. t # << >>
    BY <2>2, <2>5
  <2> QED
    BY <2>1, <2>6, <2>7 DEF t
<1>5. N \in G
  <2> HIDE DEF G
  <2>1. N \in 0..N
    BY <1>1
  <2> QED
    BY <1>1, <1>3, <1>4, <2>1, UpTo
<1> QED
  BY <1>1, <1>2, <1>5

\* A list is summed up one number after the other.
LEMMA TotalSteps ==
  ASSUME NEW list \in Seq(Int)
  PROVE  \E h \in [0..Len(list) -> Int] :
           /\ h[0] = 0 /\ Total(list) = h[Len(list)]
           /\ \A n \in 1..Len(list) : h[n] = h[n - 1] + list[n]
<1> DEFINE N == Len(list)
           T == Int
           step == [k \in 1..N |-> [s \in T |-> s + list[k]]]
           F(f) == [n \in 0..N |-> IF n = 0 THEN 0 ELSE f[n - 1] + list[n]]
<1>1. N \in Nat /\ (\A k \in 1..N : list[k] \in Int)
  OBVIOUS
<1>2. step \in [1..N -> [T -> T]] /\ 0 \in T
  BY <1>1
<1> HIDE DEF N, T, step
<1>3. PICK f : Iteration(f, N, T, 0, step)
  BY <1>1, <1>2, Iterates
<1>4. f \in [0..N -> T] /\ f[0] = 0
  BY <1>3 DEF Iteration
<1>5. ASSUME NEW k \in 1..N PROVE k \in 0..N /\ f[k] = f[k - 1] + list[k]
  <2> DEFINE s == f[k - 1]
  <2>1. k - 1 \in 0..N /\ k \in 0..N
    BY <1>1
  <2>2. s \in T /\ f[k] = step[k][s]
    BY <1>3, <1>4, <2>1 DEF Iteration
  <2> HIDE DEF s
  <2>3. step[k][s] = s + list[k]
    BY <2>2 DEF step
  <2> QED
    BY <2>1, <2>2, <2>3 DEF s
<1>6. f = F(f)
  <2>1. \A n \in 0..N : n # 0 => n \in 1..N
    BY <1>1
  <2>2. \A n \in 0..N : f[n] = IF n = 0 THEN 0 ELSE f[n - 1] + list[n]
    BY <1>4, <1>5, <2>1
  <2> QED
    BY <1>4, <2>2
<1> DEFINE h == CHOOSE x : x = F(x)
<1>7. h = F(h)
  <2> HIDE DEF F
  <2> QED
    BY <1>6
<1>8. Total(list) = h[N]
  BY DEF Total, N
<1> HIDE DEF h
<1>9. h[0] = 0 /\ \A n \in 1..N : h[n] = h[n - 1] + list[n]
  <2>1. 0 \in 0..N /\ \A n \in 1..N : n \in 0..N /\ n # 0
    BY <1>1
  <2> QED
    BY <1>7, <2>1
<1> DEFINE G == {n \in 0..N : h[n] \in Int}
<1>10. \A n \in 0..N : n \in G
  <2>1. 0 \in G
    BY <1>1, <1>9
  <2>2. ASSUME NEW n \in 1..N, n - 1 \in G PROVE n \in G
    BY <1>1, <1>9, <2>2
  <2> HIDE DEF G
  <2> QED
    BY <1>1, <2>1, <2>2, UpTo
<1>11. h \in [0..N -> Int]
  BY <1>7, <1>10
<1> QED
  BY <1>8, <1>9, <1>11 DEF N

LEMMA FunctionIsList ==
  ASSUME NEW S, NEW n \in Nat, NEW f \in [1..n -> S]
  PROVE  f \in Seq(S) /\ Len(f) = n
  OBVIOUS

LEMMA TotalAppended ==
  ASSUME NEW list \in Seq(Int), NEW x \in Int
  PROVE  Total(Append(list, x)) = Total(list) + x /\ Total(list) \in Int
<1> DEFINE N == Len(list)
           more == Append(list, x)
<1>1. /\ N \in Nat /\ more \in Seq(Int) /\ Len(more) = N + 1 /\ more[N + 1] = x
      /\ \A n \in 1..N : more[n] = list[n] /\ list[n] \in Int
  OBVIOUS
<1>2. PICK h \in [0..N -> Int] :
        /\ h[0] = 0 /\ Total(list) = h[N]
        /\ \A n \in 1..N : h[n] = h[n - 1] + list[n]
  BY TotalSteps
<1> HIDE DEF more
<1>3a. PICK f \in [0..Len(more) -> Int] :
        /\ f[0] = 0 /\ Total(more) = f[Len(more)]
        /\ \A n \in 1..Len(more) : f[n] = f[n - 1] + more[n]
  BY <1>1, TotalSteps
<1> HIDE DEF N
<1>3. /\ f \in [0..(N + 1) -> Int] /\ f[0] = 0 /\ Total(more) = f[N + 1]
      /\ \A n \in 1..(N + 1) : f[n] = f[n - 1] + more[n]
  BY <1>1, <1>3a
<1> DEFINE G == {n \in 0..N : f[n] = h[n]}
<1>4. \A n \in 0..N : n \in G
  <2>1. 0 \in G
    BY <1>1, <1>2, <1>3
  <2>2. ASSUME NEW n \in 1..N, n - 1 \in G PROVE n \in G
    <3>1. n \in 1..(N + 1) /\ n \in 0..N
      BY <1>1
    <3>2. f[n] = f[n - 1] + more[n] /\ h[n] = h[n - 1] + list[n] /\ more[n] = list[n] /\ f[n - 1] = h[n - 1]
      BY <1>1, <1>2, <1>3, <2>2, <3>1
    <3> QED
      BY <3>1, <3>2
  <2> HIDE DEF G
  <2> QED
    BY <1>1, <2>1, <2>2, UpTo
<1>5. N \in 0..N /\ N + 1 \in 1..(N + 1) /\ (N + 1) - 1 = N
  BY <1>1
<1>6. f[N] = h[N] /\ h[N] \in Int
  BY <1>2, <1>4, <1>5
<1>7. f[N + 1] = f[N] + x
  BY <1>1, <1>3, <1>5
<1> QED
  BY <1>2, <1>3, <1>6, <1>7 DEF more

LEMMA TotalEmpty == Total(<< >>) = 0
<1>1. << >> \in Seq(Int) /\ Len(<< >>) = 0
  OBVIOUS
<1> QED
  BY <1>1, TotalSteps

\* What is filtered is as many elements as are kept, and weighs as much.
Kept(list, kept) == {n \in DOMAIN list : list[n] \in kept}
Weights(list, w) == [n \in DOMAIN list |-> w[list[n]]]
KeptWeights(list, kept, w) == [n \in DOMAIN list |-> IF n \in Kept(list, kept) THEN w[list[n]] ELSE 0]

LEMMA WeightsAppended ==
  ASSUME NEW S, NEW s \in Seq(S), NEW x \in S, NEW w \in [S -> Int]
  PROVE  /\ Weights(s, w) \in Seq(Int)
         /\ Weights(Append(s, x), w) = Append(Weights(s, w), w[x])
<1> DEFINE N == Len(s)
           l == Weights(s, w)
           more == Append(s, x)
<1>1. DOMAIN s = 1..N /\ N \in Nat /\ \A k \in 1..N : s[k] \in S
  OBVIOUS
<1>2. DOMAIN more = 1..(N + 1) /\ more[N + 1] = x /\ \A k \in 1..N : more[k] = s[k]
  OBVIOUS
<1> HIDE DEF N, more
<1>3. l \in [1..N -> Int] /\ \A k \in 1..N : l[k] = w[s[k]]
  BY <1>1 DEF Weights
<1>4. Weights(more, w) = [k \in 1..(N + 1) |-> w[more[k]]]
  BY <1>2 DEF Weights
<1> HIDE DEF l
<1>5. l \in Seq(Int) /\ Len(l) = N
  BY <1>1, <1>3, FunctionIsList
<1> DEFINE v == w[x]
           m == Append(l, v)
<1>6. v \in Int
  OBVIOUS
<1> HIDE DEF v
<1>7. m \in Seq(Int) /\ Len(m) = N + 1 /\ m[N + 1] = v /\ (\A k \in 1..N : m[k] = l[k]) /\ DOMAIN m = 1..(N + 1)
  BY <1>1, <1>5, <1>6
<1> HIDE DEF m
<1>8. \A k \in 1..(N + 1) : k = N + 1 \/ k \in 1..N
  BY <1>1
<1>9. \A k \in 1..(N + 1) : m[k] = w[more[k]]
  BY <1>2, <1>3, <1>7, <1>8 DEF v
<1>10. m = [k \in 1..(N + 1) |-> w[more[k]]]
  <2>1. m = [k \in 1..(N + 1) |-> m[k]]
    BY <1>7
  <2> QED
    BY <1>9, <2>1
<1> QED
  BY <1>4, <1>5, <1>10 DEF m, l, v, more

LEMMA FilteredCounts ==
  ASSUME NEW S, NEW list \in Seq(S), NEW kept, NEW w \in [S -> Int]
  PROVE  /\ IsFiniteSet(Kept(list, kept))
         /\ Len(Filtered(list, kept)) = Cardinality(Kept(list, kept))
         /\ Total(Weights(Filtered(list, kept), w)) = Total(KeptWeights(list, kept, w))
<1> DEFINE N == Len(list)
           I == Kept(list, kept)
           lists == [n \in DOMAIN list |-> IF list[n] \in kept THEN <<list[n]>> ELSE << >>]
           weights == KeptWeights(list, kept, w)
           First(n) == {k \in I : k <= n}
<1>1. DOMAIN list = 1..N /\ N \in Nat /\ \A n \in 1..N : list[n] \in S
  OBVIOUS
<1>2. lists \in Seq(Seq(S)) /\ Len(lists) = N
  <2>1. lists \in [1..N -> Seq(S)]
    BY <1>1
  <2> HIDE DEF lists
  <2> QED
    BY <1>1, <2>1
<1>3. Filtered(list, kept) = FlattenSeq(lists)
  BY DEF Filtered
<1>4. \A n \in 1..N : lists[n] = IF list[n] \in kept THEN <<list[n]>> ELSE << >>
  BY <1>1
<1> HIDE DEF lists
<1>5a. PICK h \in [0..Len(lists) -> Seq(S)] :
        /\ h[0] = << >> /\ FlattenSeq(lists) = h[Len(lists)]
        /\ \A n \in 1..Len(lists) : h[n] = h[n - 1] \o lists[n]
  BY <1>2, FlattenSteps
<1>5. /\ h \in [0..N -> Seq(S)] /\ h[0] = << >> /\ FlattenSeq(lists) = h[N]
      /\ \A n \in 1..N : h[n] = h[n - 1] \o lists[n]
  BY <1>2, <1>5a
<1>6. weights \in Seq(Int) /\ Len(weights) = N
      /\ \A n \in 1..N : weights[n] = IF list[n] \in kept THEN w[list[n]] ELSE 0
  <2>1. weights \in [1..N -> Int]
    BY <1>1 DEF KeptWeights
  <2>2. \A n \in 1..N : weights[n] = IF list[n] \in kept THEN w[list[n]] ELSE 0
    BY <1>1 DEF KeptWeights, Kept
  <2> HIDE DEF weights
  <2>3. weights \in Seq(Int) /\ Len(weights) = N
    BY <1>1, <2>1, FunctionIsList
  <2> QED
    BY <2>2, <2>3
<1> HIDE DEF weights
<1>7a. PICK g \in [0..Len(weights) -> Int] :
        /\ g[0] = 0 /\ Total(weights) = g[Len(weights)]
        /\ \A n \in 1..Len(weights) : g[n] = g[n - 1] + weights[n]
  BY <1>6, TotalSteps
<1>7. /\ g \in [0..N -> Int] /\ g[0] = 0 /\ Total(weights) = g[N]
      /\ \A n \in 1..N : g[n] = g[n - 1] + weights[n]
  BY <1>6, <1>7a
<1> HIDE DEF N
<1> DEFINE G == {n \in 0..N : /\ IsFiniteSet(First(n)) /\ Len(h[n]) = Cardinality(First(n))
                              /\ Total(Weights(h[n], w)) = g[n]}
<1>8. 0 \in G
  <2>1. First(0) = {}
    BY <1>1 DEF Kept
  <2>2. Weights(<< >>, w) = << >>
    BY DEF Weights
  <2>3. 0 \in 0..N /\ Len(<< >>) = 0
    BY <1>1
  <2> HIDE DEF First
  <2>4. IsFiniteSet(First(0)) /\ Cardinality(First(0)) = 0
    BY <2>1, FS_EmptySet
  <2>5. Len(h[0]) = 0 /\ Total(Weights(h[0], w)) = g[0]
    BY <1>5, <1>7, <2>2, <2>3, TotalEmpty
  <2> QED
    BY <2>3, <2>4, <2>5
<1>9. ASSUME NEW n \in 1..N, n - 1 \in G PROVE n \in G
  <2> DEFINE s == h[n - 1]
             x == list[n]
  <2>1. n - 1 \in 0..N /\ n \in 0..N
    BY <1>1
  <2>2. /\ s \in Seq(S) /\ x \in S /\ h[n] = s \o lists[n] /\ g[n - 1] \in Int
        /\ g[n] = g[n - 1] + weights[n] /\ Len(s) = Cardinality(First(n - 1))
        /\ Total(Weights(s, w)) = g[n - 1]
    <3> HIDE DEF First
    <3> QED
      BY <1>1, <1>5, <1>7, <1>9, <2>1
  <2>0. IsFiniteSet(First(n - 1))
    <3> HIDE DEF First
    <3> QED
      BY <1>9
  <2> HIDE DEF s, x
  <2>3. CASE list[n] \in kept
    <3>1. h[n] = Append(s, x) /\ g[n] = g[n - 1] + w[x] /\ w[x] \in Int
      <4>1. lists[n] = <<x>> /\ weights[n] = w[x]
        BY <1>4, <1>6, <2>3 DEF x
      <4>2. s \o <<x>> = Append(s, x) /\ w[x] \in Int
        BY <2>2, SMTT(30)
      <4> QED
        BY <2>2, <4>1, <4>2
    <3>2. First(n) = First(n - 1) \cup {n} /\ n \notin First(n - 1)
      BY <1>1, <2>3 DEF Kept
    <3> HIDE DEF First
    <3>3. IsFiniteSet(First(n)) /\ Cardinality(First(n)) = Cardinality(First(n - 1)) + 1
      BY <2>0, <3>2, FS_AddElement
    <3>4. Weights(s, w) \in Seq(Int) /\ Weights(Append(s, x), w) = Append(Weights(s, w), w[x])
      <4>1. s \in Seq(S) /\ x \in S
        BY <2>2
      <4> QED
        BY <4>1, WeightsAppended
    <3>5. Total(Weights(h[n], w)) = g[n]
      <4>1. Total(Append(Weights(s, w), w[x])) = Total(Weights(s, w)) + w[x]
        BY <3>1, <3>4, TotalAppended
      <4> QED
        BY <2>2, <3>1, <3>4, <4>1
    <3>6. Len(h[n]) = Len(s) + 1 /\ Len(s) \in Nat
      <4>1. Len(Append(s, x)) = Len(s) + 1 /\ Len(s) \in Nat
        BY <2>2
      <4> QED
        BY <3>1, <4>1
    <3> QED
      BY <2>1, <2>2, <3>3, <3>5, <3>6
  <2>4. CASE list[n] \notin kept
    <3>1. h[n] = s /\ g[n] = g[n - 1]
      <4>1. lists[n] = << >> /\ weights[n] = 0
        BY <1>4, <1>6, <2>4
      <4>2. s \o << >> = s
        BY <2>2
      <4> HIDE DEF First
      <4> QED
        BY <2>2, <4>1, <4>2
    <3>2. First(n) = First(n - 1)
      BY <1>1, <2>4 DEF Kept
    <3> HIDE DEF First
    <3> QED
      BY <2>0, <2>1, <2>2, <3>1, <3>2
  <2> QED
    BY <2>3, <2>4
<1>10. N \in G
  <2> HIDE DEF G
  <2>1. N \in 0..N
    BY <1>1
  <2> QED
    BY <1>1, <1>8, <1>9, <2>1, UpTo
<1>11. First(N) = I
  BY <1>1 DEF Kept
<1> HIDE DEF First, I
<1> QED
  BY <1>3, <1>5, <1>7, <1>10, <1>11 DEF I, weights

LEMMA SetToSeqElements ==
  ASSUME NEW S, IsFiniteSet(S)
  PROVE  SetToSeq(S) \in Seq(S) /\ ToSet(SetToSeq(S)) = S
<1> DEFINE N == Cardinality(S)
           f == CHOOSE f \in [1..N -> S] : IsInjective(f)
<1>1. N \in Nat /\ ExistsBijection(1..N, S)
  BY FS_CardinalityType
<1>2. SetToSeq(S) = f
  BY DEF SetToSeq
<1> HIDE DEF N
<1>3. \E g \in [1..N -> S] : IsInjective(g)
  BY <1>1 DEF ExistsBijection, Bijection, Injection
<1>4. f \in [1..N -> S] /\ IsInjective(f)
  BY <1>3
<1> HIDE DEF f
<1>5. f \in Injection(1..N, S)
  BY <1>4 DEF Injection
<1>6. f \in Surjection(1..N, S)
  <2>1. IsFiniteSet(1..N) /\ Cardinality(1..N) = N
    BY <1>1, FS_Interval
  <2>2. Cardinality(1..N) = Cardinality(S)
    BY <2>1 DEF N
  <2> QED
    BY <1>5, <2>2, FS_Injection
<1>7. f \in Seq(S) /\ DOMAIN f = 1..N
  BY <1>1, <1>4
<1>8. ToSet(f) = S
  BY <1>4, <1>6, <1>7 DEF ToSet, Surjection
<1> QED
  BY <1>2, <1>7, <1>8

LEMMA TakenElements ==
  ASSUME NEW S, NEW list \in Seq(S), NEW n \in Nat
  PROVE  Take(list, n) \in Seq(S)
  BY DEF Take

-----------------------------------------------------------------------------
(* Shapes                                                                  *)

Shapes == ToSet(Catalog)

\* What the rules allow, what is left without rules for the cloud, what suits a trend.
ByRules(q) ==
  {s \in Shapes : /\ HasRule(q.rules, "allow") => s.name \in Names(q.rules, "allow")
                  /\ s.name \notin Names(q.rules, "deny")}
BySeries(q) ==
  {s \in Shapes : (\A r \in q.rules : r.cloud # q.cloud) =>
     /\ q.forbid_change_series => s.series = Shape(q.current).series
     /\ q.forbid_change_family => s.series = Shape(q.current).series \/ s.family = Shape(q.current).family}
Fitting(q, trend) == {s \in Shapes : Suits(s, Shape(q.current), trend)}

\* The shapes whose processor bears a load.
Bearing(q, load) == {s \in Shapes : load["cpu"] * Shape(q.current).cpu <= 100 * s.cpu}

LEMMA CatalogElements == Catalog \in Seq(Shapes)
  BY CatalogAssumption DEF Shapes

LEMMA CurrentShape ==
  ASSUME NEW q, \E s \in Shapes : s.name = q.current
  PROVE  Shape(q.current) \in Shapes
<1>1. DOMAIN Catalog = 1..Len(Catalog)
  BY CatalogElements
<1>2. \E n \in DOMAIN Catalog : Catalog[n].name = q.current
  BY DEF Shapes, ToSet
<1> QED
  BY <1>2 DEF Shape, Shapes, ToSet

LEMMA AllowedElements ==
  ASSUME NEW q
  PROVE  get_allowed_instance_types(Catalog, q.rules) \in Seq(ByRules(q))
<1> DEFINE kept == {s \in ToSet(Catalog) :
             /\ HasRule(q.rules, "allow") => s.name \in Names(q.rules, "allow")
             /\ s.name \notin Names(q.rules, "deny")}
<1>1. get_allowed_instance_types(Catalog, q.rules) = Filtered(Catalog, kept)
  BY DEF get_allowed_instance_types
<1>2. Shapes \cap kept = ByRules(q)
  BY DEF ByRules, Shapes
<1> HIDE DEF kept
<1>3. Filtered(Catalog, kept) \in Seq(Shapes \cap kept)
  BY CatalogElements, FilteredElements
<1> QED
  BY <1>1, <1>2, <1>3

LEMMA CompatibleElements ==
  ASSUME NEW S, NEW shapes \in Seq(S), NEW current, NEW rule
  PROVE  apply_compatibility_filter(shapes, current, rule) \in Seq(S)
<1>1. \A kept : Filtered(shapes, kept) \in Seq(S)
  BY FilteredElements
<1> QED
  BY <1>1 DEF apply_compatibility_filter

LEMMA DividedElements ==
  ASSUME NEW q, NEW action, NEW S \in SUBSET Shapes, NEW shapes \in Seq(S)
  PROVE  divide_by_priority(shapes, q, action) \in Seq(S \cap BySeries(q))
<1> DEFINE current == Shape(q.current)
           rules   == {r \in q.rules : r.cloud = q.cloud}
           Series  == {s \in ToSet(shapes) : s.series = current.series /\ (action = SPLIT \/ s.name # current.name)}
           series  == Filtered(shapes, Series)
           Family  == {s \in ToSet(shapes) \ ToSet(series) : s.family = current.family}
           family  == Filtered(shapes, Family)
           other   == Filtered(shapes, ToSet(shapes) \ (ToSet(series) \cup ToSet(family)))
           first   == IF rules = {} THEN << >> ELSE process_priority_filters(shapes, rules)
           second  == _sort_shapes(series)
           third   == IF q.forbid_change_series THEN << >> ELSE _sort_shapes(family)
           fourth  == IF others_allowed(q) THEN _sort_shapes(other) ELSE << >>
           T       == S \cap BySeries(q)
           free    == \E r \in q.rules : r.cloud = q.cloud
<1>1. divide_by_priority(shapes, q, action) = first \o second \o third \o fourth
  BY DEF divide_by_priority
<1>2. /\ series \in Seq(S \cap Series) /\ family \in Seq(S \cap Family) /\ other \in Seq(S)
  <2> HIDE DEF Series, Family
  <2> QED
    BY FilteredElements
<1>3. \A s \in S : s.series = current.series => s \in T
  BY DEF BySeries
<1>4. \A s \in S : free => s \in T
  BY DEF BySeries
<1>5. \A s \in S : ~q.forbid_change_series /\ s.family = current.family => s \in T
  BY DEF BySeries
<1>6. \A s \in S : others_allowed(q) => s \in T
  BY DEF BySeries, others_allowed
<1>7. S \cap Series \subseteq T /\ (~q.forbid_change_series => S \cap Family \subseteq T)
  BY <1>3, <1>5
<1>8. first \in Seq(T)
  <2>1. CASE rules = {}
    BY <2>1
  <2>2. CASE rules # {}
    <3>1. free /\ S \subseteq T
      BY <1>4, <2>2
    <3>2. process_priority_filters(shapes, rules) \in Seq(S)
      <4> HIDE DEF rules
      <4>1. \A kept : Filtered(shapes, kept) \in Seq(S)
        BY FilteredElements
      <4> QED
        BY <4>1 DEF process_priority_filters
    <3> HIDE DEF T, rules
    <3> QED
      BY <2>2, <3>1, <3>2
  <2> QED
    BY <2>1, <2>2
<1> HIDE DEF first, series, family, other, Series, Family, T, free
<1>9. second \in Seq(T)
  <2>1. series \in Seq(T)
    BY <1>2, <1>7
  <2> QED
    BY <2>1, SortedElements DEF _sort_shapes
<1>10. third \in Seq(T)
  <2>1. CASE q.forbid_change_series
    BY <2>1
  <2>2. CASE ~q.forbid_change_series
    <3>1. family \in Seq(T)
      BY <1>2, <1>7, <2>2
    <3>2. _sort_shapes(family) \in Seq(T)
      BY <3>1, SortedElements DEF _sort_shapes
    <3> QED
      BY <2>2, <3>2
  <2> QED
    BY <2>1, <2>2
<1>11. fourth \in Seq(T)
  <2>1. CASE ~others_allowed(q)
    BY <2>1
  <2>2. CASE others_allowed(q)
    <3>1. other \in Seq(T)
      BY <1>2, <1>6, <2>2
    <3>2. _sort_shapes(other) \in Seq(T)
      BY <3>1, SortedElements DEF _sort_shapes
    <3> QED
      BY <2>2, <3>2
  <2> QED
    BY <2>1, <2>2
<1> HIDE DEF second, third, fourth
<1>12. first \o second \o third \o fourth \in Seq(T)
  BY <1>8, <1>9, <1>10, <1>11
<1> QED
  BY <1>1, <1>12 DEF T

Candidates(q) == ByRules(q) \cap BySeries(q)

LEMMA SuitableElements ==
  ASSUME NEW q, NEW trend, NEW action
  PROVE  suitable_shapes(trend, q, action) \in Seq(Candidates(q) \cap Fitting(q, trend))
<1> DEFINE current == Shape(q.current)
           by_rules == get_allowed_instance_types(Catalog, q.rules)
           filtered == apply_compatibility_filter(by_rules, current, q.compatibility)
           allowed == apply_adjustment(filtered, q.dont_recommend)
           divided == divide_by_priority(allowed, q, action)
           Suited == {s \in ToSet(divided) : Suits(s, current, trend)}
           T == Candidates(q) \cap Fitting(q, trend)
<1>1. suitable_shapes(trend, q, action) = Distinct(Filtered(divided, Suited))
  BY DEF suitable_shapes, _remove_shape_duplicates
<1>2. by_rules \in Seq(ByRules(q)) /\ ByRules(q) \in SUBSET Shapes
  BY AllowedElements DEF ByRules
<1> HIDE DEF by_rules, current
<1>3. filtered \in Seq(ByRules(q))
  BY <1>2, CompatibleElements
<1> HIDE DEF filtered
<1>4. allowed \in Seq(ByRules(q))
  BY <1>3 DEF apply_adjustment
<1> HIDE DEF allowed
<1>5. divided \in Seq(Candidates(q))
  BY <1>2, <1>4, DividedElements DEF Candidates
<1>6. Candidates(q) \cap Suited \subseteq T
  BY DEF Candidates, BySeries, Fitting, current
<1> HIDE DEF divided, Suited, T
<1>7. Filtered(divided, Suited) \in Seq(Candidates(q) \cap Suited)
  BY <1>5, FilteredElements
<1>8. Filtered(divided, Suited) \in Seq(T)
  BY <1>6, <1>7
<1>9. Distinct(Filtered(divided, Suited)) \in Seq(T)
  BY <1>8, DistinctElements
<1> QED
  BY <1>1, <1>9 DEF T

\* The least processor that is looked for bears the load it is looked for.
LEMMA MinRangeSuffices ==
  ASSUME NEW provided \in Nat, NEW threshold \in Int
  PROVE  provided * threshold <= MinRange(provided, threshold)
<1> DEFINE a == AtLeast(threshold, 5)
           x == provided * a
<1>1. a \in Nat /\ threshold <= a
  BY DEF AtLeast
<1> HIDE DEF a
<1>2. x \in Nat /\ provided * threshold <= x /\ provided * threshold \in Int
  <2>1. \A m, n \in Nat : m * n \in Nat
    OBVIOUS
  <2>2. \A c \in Nat, m, n \in Int : m <= n => c * m <= c * n /\ c * m \in Int
    OBVIOUS
  <2> QED
    BY <1>1, <2>1, <2>2
<1>3. 200 * provided * a + 70 = 200 * x + 70
  BY <1>1
<1> HIDE DEF x
<1>4. x <= (200 * x + 70) \div 140
  BY <1>2
<1>5. MinRange(provided, threshold) = AtLeast((200 * x + 70) \div 140, 100)
  BY <1>3 DEF MinRange, a
<1>6. (200 * x + 70) \div 140 \in Int
  BY <1>2
<1>7. MinRange(provided, threshold) >= x /\ MinRange(provided, threshold) \in Int
  BY <1>2, <1>4, <1>5, <1>6 DEF AtLeast
<1> QED
  BY <1>2, <1>7

\* Relaxing the processor's requirement raises the load it is chosen for.
LEMMA ThresholdIsEnough ==
  ASSUME NEW load \in [Metrics -> Int],
         NEW trend \in {add_metric_trends(load), discard_optional_requirements(add_metric_trends(load))}
  PROVE  trend.threshold["cpu"] \in Int /\ load["cpu"] <= trend.threshold["cpu"]
<1> DEFINE t == add_metric_trends(load)
<1>0. load["cpu"] \in Int /\ "cpu" \in Metrics
  BY DEF Metrics
<1>1. t.threshold = load /\ t.result = [m \in Metrics |-> result_direction(load[m])]
  BY DEF add_metric_trends
<1>2. CASE trend = t
  BY <1>0, <1>1, <1>2
<1>3. CASE trend = discard_optional_requirements(t)
  <2>1. trend.threshold = [load EXCEPT ![Optional(t)] = 60]
    BY <1>1, <1>3 DEF discard_optional_requirements
  <2>2. CASE Optional(t) = "cpu"
    <3>1. t.result["cpu"] < 0
      BY <2>2 DEF Optional
    <3>2. result_direction(load["cpu"]) < 0
      BY <1>0, <1>1, <3>1
    <3>3. load["cpu"] < 60
      BY <1>0, <3>2 DEF result_direction
    <3> QED
      BY <1>0, <2>1, <2>2, <3>3
  <2>3. CASE Optional(t) # "cpu"
    BY <1>0, <2>1, <2>3
  <2> QED
    BY <2>2, <2>3
<1> QED
  BY <1>2, <1>3

LEMMA FittingBears ==
  ASSUME NEW q, \E s \in Shapes : s.name = q.current, NEW load \in [Metrics -> Int],
         NEW trend \in {add_metric_trends(load), discard_optional_requirements(add_metric_trends(load))}
  PROVE  Fitting(q, trend) \subseteq Bearing(q, load)
<1> DEFINE current == Shape(q.current)
<1> SUFFICES ASSUME NEW s \in Fitting(q, trend) PROVE s \in Bearing(q, load)
  OBVIOUS
<1>1. s \in Shapes /\ Suits(s, current, trend)
  BY DEF Fitting
<1>2. s.cpu \in Nat /\ current.cpu \in Nat
  <2>1. current \in Shapes
    BY CurrentShape
  <2> QED
    BY <1>1, <2>1, CatalogAssumption DEF Shapes
<1>3. MinRange(current.cpu, trend.threshold["cpu"]) <= 100 * s.cpu
  BY <1>1 DEF Suits
<1>4. trend.threshold["cpu"] \in Int /\ load["cpu"] <= trend.threshold["cpu"]
  BY ThresholdIsEnough
<1>5. load["cpu"] \in Int
  BY DEF Metrics
<1> DEFINE c == current.cpu
           t == trend.threshold["cpu"]
           l == load["cpu"]
<1> HIDE DEF c, t, l
<1>6. c * t <= MinRange(c, t) /\ MinRange(c, t) <= 100 * s.cpu /\ MinRange(c, t) \in Int
  <2>1. c \in Nat /\ t \in Int
    BY <1>2, <1>4 DEF c, t
  <2>2. c * t <= MinRange(c, t)
    BY <2>1, MinRangeSuffices
  <2>3. MinRange(c, t) \in Int
    BY <2>1 DEF MinRange, AtLeast
  <2> QED
    BY <1>3, <2>2, <2>3 DEF c, t
<1>7. l * c <= c * t /\ l * c \in Int /\ c * t \in Int
  <2>1. c \in Nat /\ t \in Int /\ l \in Int /\ l <= t
    BY <1>2, <1>4, <1>5 DEF c, t, l
  <2>2. \A x \in Nat, m, n \in Int : m <= n => m * x <= x * n /\ m * x \in Int /\ x * n \in Int
    OBVIOUS
  <2> QED
    BY <2>1, <2>2
<1>8. l * c <= 100 * s.cpu
  BY <1>2, <1>6, <1>7
<1> QED
  BY <1>1, <1>8 DEF Bearing, c, l

\* What may be recommended for a load: a candidate, or in a SPLIT the shape as it is.
Advisable(q, load) == (Candidates(q) \cup {Shape(q.current)}) \cap Bearing(q, load)

LEMMA PassElements ==
  ASSUME NEW q, \E s \in Shapes : s.name = q.current, NEW load \in [Metrics -> Int], NEW action,
         NEW trend \in {add_metric_trends(load), discard_optional_requirements(add_metric_trends(load))}
  PROVE  Pass(trend, q, action) \in Seq(Advisable(q, load))
<1> DEFINE current == Shape(q.current)
           t == add_metric_trends(load)
<1>1. CASE requires_resize(trend)
  <2>1. suitable_shapes(trend, q, action) \in Seq(Candidates(q) \cap Fitting(q, trend))
    BY SuitableElements
  <2>2. Candidates(q) \cap Fitting(q, trend) \subseteq Advisable(q, load)
    BY FittingBears DEF Advisable
  <2>3. suitable_shapes(trend, q, action) \in Seq(Advisable(q, load))
    BY <2>1, <2>2
  <2> QED
    BY <1>1, <2>3 DEF Pass
<1>2. CASE ~requires_resize(trend)
  <2>0. load["cpu"] \in Int /\ "cpu" \in Metrics
    BY DEF Metrics
  <2>1. t.threshold = load /\ t.result = [m \in Metrics |-> result_direction(load[m])]
    BY DEF add_metric_trends
  <2>2. trend.result["cpu"] = 0
    BY <1>2 DEF requires_resize
  <2>3. t.result["cpu"] = 0
    <3>1. CASE trend = t
      BY <2>2, <3>1
    <3>2. CASE trend = discard_optional_requirements(t)
      <4>1. trend.result = [t.result EXCEPT ![Optional(t)] = Magnitude(@), !["network"] = 0, !["iops"] = 0]
        BY <3>2 DEF discard_optional_requirements
      <4>2. CASE Optional(t) = "cpu"
        <5>1. trend.result["cpu"] = Magnitude(t.result["cpu"])
          BY <2>0, <2>1, <4>1, <4>2
        <5>2. t.result["cpu"] \in Int
          BY <2>0, <2>1 DEF result_direction
        <5> QED
          BY <2>2, <5>1, <5>2 DEF Magnitude
      <4>3. CASE Optional(t) # "cpu"
        BY <2>0, <2>1, <2>2, <4>1, <4>3
      <4> QED
        BY <4>2, <4>3
    <3> QED
      BY <3>1, <3>2
  <2>4. load["cpu"] <= 100
    BY <2>0, <2>1, <2>3 DEF result_direction
  <2>5. current \in Shapes
    BY CurrentShape
  <2>6. load["cpu"] * current.cpu <= 100 * current.cpu
    <3>1. current.cpu \in Nat
      BY <2>5, CatalogAssumption DEF Shapes
    <3>2. \A c \in Nat, l \in Int : l <= 100 => l * c <= 100 * c
      OBVIOUS
    <3> QED
      BY <2>0, <2>4, <3>1, <3>2
  <2>7. current \in Advisable(q, load)
    BY <2>5, <2>6 DEF Advisable, Bearing
  <2> HIDE DEF current
  <2>8. << current >> \in Seq(Advisable(q, load)) /\ << >> \in Seq(Advisable(q, load))
    BY <2>7
  <2> QED
    BY <1>2, <2>8 DEF Pass, current
<1> QED
  BY <1>1, <1>2

LEMMA RecommendedElements ==
  ASSUME NEW q, \E s \in Shapes : s.name = q.current, NEW load \in [Metrics -> Int], NEW action, NEW n \in Nat
  PROVE  recommend_size(add_metric_trends(load), q, action, n) \in Seq(Advisable(q, load))
<1> DEFINE t == add_metric_trends(load)
           relaxed == discard_optional_requirements(t)
           first == Pass(t, q, action)
           last == Pass(relaxed, q, action)
           again == Take(last, 5)
           T == Advisable(q, load)
<1>1. first \in Seq(T) /\ last \in Seq(T)
  BY PassElements
<1>2. recommend_size(t, q, action, n) \in
        {first, Take(first, n), Take(Distinct(first \o again), n)}
  BY DEF recommend_size, _remove_shape_duplicates
<1> HIDE DEF first, last, T
<1>3. again \in Seq(T) /\ Take(first, n) \in Seq(T)
  BY <1>1, TakenElements
<1> HIDE DEF again
<1>4. first \o again \in Seq(T)
  BY <1>1, <1>3
<1>5. Distinct(first \o again) \in Seq(T)
  BY <1>4, DistinctElements
<1>6. Take(Distinct(first \o again), n) \in Seq(T)
  BY <1>5, TakenElements
<1> QED
  BY <1>1, <1>2, <1>3, <1>6 DEF T

\* Of each period with loads that ask for something of their own.
LEMMA TrendElements ==
  ASSUME NEW loads \in Seq([Metrics -> Int])
  PROVE  Trends(loads) \in Seq({add_metric_trends(loads[n]) : n \in DOMAIN loads})
<1> DEFINE T == {add_metric_trends(loads[n]) : n \in DOMAIN loads}
           trends == [n \in DOMAIN loads |-> add_metric_trends(loads[n])]
           lists == [n \in DOMAIN trends |->
             IF \E m \in 1..(n - 1) : trends[m].result = trends[n].result THEN << >> ELSE <<trends[n]>>]
<1>1. DOMAIN loads = 1..Len(loads) /\ Len(loads) \in Nat /\ DOMAIN trends = 1..Len(loads)
  OBVIOUS
<1>2. \A n \in 1..Len(loads) : trends[n] \in T
  BY <1>1
<1>3. Trends(loads) = FlattenSeq(lists)
  BY DEF Trends, remove_duplicates
<1> HIDE DEF T, trends
<1>4. lists \in [1..Len(loads) -> Seq(T)]
  BY <1>1, <1>2
<1> HIDE DEF lists
<1>5. lists \in Seq(Seq(T))
  <2> DEFINE N == Len(loads)
             L == Seq(T)
  <2>1. N \in Nat /\ lists \in [1..N -> L]
    BY <1>1, <1>4
  <2> HIDE DEF N, L
  <2>2. lists \in Seq(L)
    BY <2>1
  <2> QED
    BY <2>2 DEF L
<1> QED
  BY <1>3, <1>5, FlattenElements DEF T

\* The shapes recommended for any of the periods.
Recommendable(q) == UNION {Advisable(q, q.loads[n]) : n \in DOMAIN q.loads}

LEMMA RecommendedShapesElements ==
  ASSUME NEW q, \E s \in Shapes : s.name = q.current, q.loads \in Seq([Metrics -> Int]), q.max_results \in Nat
  PROVE  /\ RecommendedShapes(q) \in Seq(Recommendable(q))
         /\ \E clean \in Seq(Recommendable(q)) : RecommendedShapes(q) = sort_shapes(clean, q)
<1> DEFINE trends == Trends(q.loads)
           action == Action(trends)
           one    == recommend_size(trends[1], q, action, q.max_results)
           lists  == [n \in DOMAIN trends |-> recommend_size(trends[n], q, action, 1)]
           found  == IF Len(trends) = 1 THEN one ELSE FlattenSeq(lists)
           T      == Recommendable(q)
<1>1. trends \in Seq({add_metric_trends(q.loads[n]) : n \in DOMAIN q.loads})
  BY TrendElements
<1>2. \A n \in DOMAIN q.loads : q.loads[n] \in [Metrics -> Int]
  OBVIOUS
<1>3. \A n \in DOMAIN q.loads, m \in Nat :
        recommend_size(add_metric_trends(q.loads[n]), q, action, m) \in Seq(T)
  <2> TAKE n \in DOMAIN q.loads, m \in Nat
  <2>1. recommend_size(add_metric_trends(q.loads[n]), q, action, m) \in Seq(Advisable(q, q.loads[n]))
    <3> HIDE DEF action
    <3> QED
      BY <1>2, RecommendedElements
  <2>2. Advisable(q, q.loads[n]) \subseteq T
    BY DEF Recommendable
  <2> HIDE DEF action, T
  <2> QED
    BY <2>1, <2>2
<1> HIDE DEF action, T
<1>4. \A n \in DOMAIN trends, m \in Nat : recommend_size(trends[n], q, action, m) \in Seq(T)
  <2> TAKE n \in DOMAIN trends, m \in Nat
  <2>1. PICK k \in DOMAIN q.loads : trends[n] = add_metric_trends(q.loads[k])
    <3> HIDE DEF trends
    <3> QED
      BY <1>1
  <2> HIDE DEF trends
  <2> QED
    BY <1>3, <2>1
<1> HIDE DEF trends
<1>5. DOMAIN trends = 1..Len(trends) /\ Len(trends) \in Nat
  BY <1>1
<1>6. found \in Seq(T)
  <2>1. CASE Len(trends) = 1
    BY <1>4, <1>5, <2>1
  <2>2. CASE Len(trends) # 1
    <3>1. lists \in [1..Len(trends) -> Seq(T)]
      BY <1>4, <1>5
    <3> HIDE DEF lists
    <3>2. lists \in Seq(Seq(T))
      BY <1>5, <3>1
    <3>3. FlattenSeq(lists) \in Seq(T)
      BY <3>2, FlattenElements
    <3> QED
      BY <2>2, <3>3
  <2> QED
    BY <2>1, <2>2
<1> DEFINE kept == {s \in ToSet(found) : action = SPLIT \/ s.name # q.current}
           clean == Filtered(Distinct(found), kept)
<1>7. RecommendedShapes(q) = sort_shapes(clean, q)
  BY DEF RecommendedShapes, _cleanup_recommended_shapes, _remove_shape_duplicates, trends, action
<1> HIDE DEF found, kept
<1>8. clean \in Seq(T)
  BY <1>6, DistinctElements, FilteredElements
<1> HIDE DEF clean
<1>9. sort_shapes(clean, q) \in Seq(T)
  BY <1>8, SortedElements DEF sort_shapes
<1> QED
  BY <1>7, <1>8, <1>9 DEF T

-----------------------------------------------------------------------------
(* What the API tells of the shapes                                        *)

\* The API's filters leave what the executor's filters leave.
LEMMA LeftElements ==
  ASSUME NEW rules, IsFiniteSet(rules)
  PROVE  /\ LeftByRules(Catalog, rules) \in Seq(Shapes)
         /\ ToSet(LeftByRules(Catalog, rules)) =
              {s \in Shapes : /\ HasRule(rules, "allow") => s.name \in Names(rules, "allow")
                              /\ s.name \notin Names(rules, "deny")}
<1> DEFINE Allow == {r \in rules : r.action = "allow"}
           Deny  == {r \in rules : r.action = "deny"}
           allow == SetToSeq(Allow)
           deny  == SetToSeq(Deny)
           found == process_allow_filters(Catalog, allow)
           NotDenied  == {s \in ToSet(found) : \A n \in DOMAIN deny : s.name \notin deny[n].names}
           Allowed == {s \in Shapes : HasRule(rules, "allow") => s.name \in Names(rules, "allow")}
<1>1. LeftByRules(Catalog, rules) = Filtered(found, NotDenied)
  BY DEF LeftByRules, process_exclude_filters, RulesFor
<1>2. IsFiniteSet(Allow) /\ IsFiniteSet(Deny)
  BY FS_Subset
<1>3. allow \in Seq(Allow) /\ ToSet(allow) = Allow /\ deny \in Seq(Deny) /\ ToSet(deny) = Deny
  <2> HIDE DEF Allow, Deny
  <2> QED
    BY <1>2, SetToSeqElements
<1> HIDE DEF allow, deny
<1>4. DOMAIN allow = 1..Len(allow) /\ Len(allow) \in Nat
  BY <1>3
<1>5. found \in Seq(Shapes) /\ ToSet(found) = Allowed
  <2>1. CASE allow = << >>
    <3>1. Allow = {}
      BY <1>3, <2>1 DEF ToSet
    <3>2. ~HasRule(rules, "allow")
      BY <3>1 DEF HasRule
    <3> QED
      BY <2>1, <3>2, CatalogElements DEF process_allow_filters, Shapes
  <2>2. CASE allow # << >>
    <3> DEFINE Matching(n) == {s \in Shapes : s.name \in allow[n].names}
               lists == [n \in DOMAIN allow |-> _find_matching(Catalog, allow[n])]
               N == Len(allow)
               L == Seq(Shapes)
    <3>1. \A n \in DOMAIN allow : lists[n] \in L /\ ToSet(lists[n]) = Matching(n)
      <4> TAKE n \in DOMAIN allow
      <4> DEFINE kept == {s \in ToSet(Catalog) : s.name \in allow[n].names}
      <4>1. lists[n] = Filtered(Catalog, kept)
        BY DEF _find_matching
      <4>2. Shapes \cap kept = Matching(n)
        BY DEF Shapes
      <4> HIDE DEF kept, lists, Matching
      <4>3. Filtered(Catalog, kept) \in Seq(Shapes) /\ ToSet(Filtered(Catalog, kept)) = Shapes \cap kept
        BY CatalogElements, FilteredElements DEF Shapes
      <4> QED
        BY <4>1, <4>2, <4>3
    <3>2. found = FlattenSeq(lists)
      BY <2>2 DEF process_allow_filters
    <3>3. N \in Nat /\ lists \in [1..N -> L] /\ DOMAIN lists = DOMAIN allow
      BY <1>4, <3>1
    <3> HIDE DEF lists, N, L, Matching
    <3>4. lists \in Seq(L)
      BY <3>3
    <3>5. /\ FlattenSeq(lists) \in Seq(Shapes)
          /\ ToSet(FlattenSeq(lists)) = UNION {ToSet(lists[n]) : n \in DOMAIN allow}
      BY <3>3, <3>4, FlattenElements DEF L
    <3>6. ToSet(found) = UNION {Matching(n) : n \in DOMAIN allow}
      BY <3>1, <3>2, <3>5
    <3>7. \A s \in Shapes : s.name \in Names(rules, "allow") <=> \E n \in DOMAIN allow : s.name \in allow[n].names
      <4>1. \A x : x \in Names(rules, "allow") <=> \E r \in Allow : x \in r.names
        BY DEF Names
      <4>2. \A r : r \in Allow <=> \E n \in DOMAIN allow : r = allow[n]
        BY <1>3 DEF ToSet
      <4> HIDE DEF Allow
      <4> QED
        BY <4>1, <4>2
    <3>8. HasRule(rules, "allow")
      <4>1. allow[1] \in Allow
        BY <1>3, <1>4, <2>2
      <4> QED
        BY <4>1 DEF HasRule
    <3> QED
      BY <3>2, <3>5, <3>6, <3>7, <3>8 DEF Matching
  <2> QED
    BY <2>1, <2>2
<1> HIDE DEF found
<1>6. Filtered(found, NotDenied) \in Seq(Shapes) /\ ToSet(Filtered(found, NotDenied)) = Allowed \cap NotDenied
  <2> HIDE DEF NotDenied, Allowed
  <2> QED
    BY <1>5, FilteredElements
<1>7. \A s \in Shapes : s.name \in Names(rules, "deny") <=> \E n \in DOMAIN deny : s.name \in deny[n].names
  <2>1. \A x : x \in Names(rules, "deny") <=> \E r \in Deny : x \in r.names
    BY DEF Names
  <2>2. \A r : r \in Deny <=> \E n \in DOMAIN deny : r = deny[n]
    BY <1>3 DEF ToSet
  <2> HIDE DEF Deny
  <2> QED
    BY <2>1, <2>2
<1>8. Allowed \cap NotDenied = {s \in Shapes : /\ HasRule(rules, "allow") => s.name \in Names(rules, "allow")
                                          /\ s.name \notin Names(rules, "deny")}
  BY <1>5, <1>7
<1> QED
  BY <1>1, <1>6, <1>8

\* Without priorities and rules of other clouds the candidates pass the dry run, and are
\* counted as available where the executor forbids the changes that the insights forbid.
LEMMA CandidatesAreForeseen ==
  ASSUME NEW q, IsFiniteSet(q.rules), \E t \in Shapes : t.name = q.current, Plain(q), NEW s \in Candidates(q)
  PROVE  /\ s \in ToSet(dry_run(q.rules, q.cloud))
         /\ q.rules = {} \/ others_allowed(q) => s \in ToSet(available_shapes(q))
<1> DEFINE current == Shape(q.current)
           fit     == LeftByRules(Catalog, q.rules)
           family  == IF q.forbid_change_family THEN get_same_family(fit, current) ELSE fit
<1>1. fit \in Seq(Shapes) /\ ToSet(fit) = ByRules(q)
  BY LeftElements DEF ByRules
<1>2. s \in ByRules(q) /\ s \in BySeries(q) /\ s \in Shapes /\ current \in Shapes
  BY CurrentShape DEF Candidates, ByRules
<1>3. dry_run(q.rules, q.cloud) = fit
  <2>1. {r \in q.rules : r.cloud = q.cloud} = q.rules
    BY DEF Plain
  <2> QED
    BY <2>1 DEF dry_run
<1>4. ASSUME q.rules = {} \/ others_allowed(q)
      PROVE  s \in ToSet(available_shapes(q))
  <2>1. q.forbid_change_series => s.series = current.series
    BY <1>2, <1>4 DEF BySeries, others_allowed
  <2>2. q.forbid_change_family => s.family = current.family
    BY <1>2, <1>4, SeriesAssumption DEF BySeries, others_allowed, Shapes
  <2>3. available_shapes(q) = IF q.forbid_change_series THEN get_same_series(family, current) ELSE family
    BY DEF available_shapes
  <2> HIDE DEF fit, current
  <2>4. family \in Seq(Shapes) /\ s \in ToSet(family)
    <3>1. CASE q.forbid_change_family
      <4> DEFINE kept == {t \in ToSet(fit) : t.family = current.family}
      <4>1. family = Filtered(fit, kept) /\ s \in ToSet(fit) \cap kept
        BY <1>1, <1>2, <2>2, <3>1 DEF get_same_family
      <4> HIDE DEF kept, family
      <4> QED
        BY <1>1, <4>1, FilteredElements
    <3>2. CASE ~q.forbid_change_family
      BY <1>1, <1>2, <3>2
    <3> QED
      BY <3>1, <3>2
  <2> HIDE DEF family
  <2>5. CASE q.forbid_change_series
    <3> DEFINE kept == {t \in ToSet(family) : t.series = current.series}
    <3>1. get_same_series(family, current) = Filtered(family, kept) /\ s \in ToSet(family) \cap kept
      BY <2>1, <2>4, <2>5 DEF get_same_series
    <3> HIDE DEF kept
    <3> QED
      BY <2>3, <2>4, <2>5, <3>1, FilteredElements
  <2>6. CASE ~q.forbid_change_series
    BY <2>3, <2>4, <2>6
  <2> QED
    BY <2>5, <2>6
<1> QED
  BY <1>1, <1>2, <1>3, <1>4

-----------------------------------------------------------------------------
(* Schedules                                                               *)

LEMMA FiniteTimes == IsFiniteSet(TimePoints) /\ IsFiniteSet(WeekDays)
  BY ScheduleAssumption, FS_Interval DEF TimePoints, WeekDays

\* Whatever the median is, a time that never was idle belongs to the action period: the
\* other of the two conditions asks for some idle days.
LEMMA BusyIsAction ==
  ASSUME NEW idle, Len(idle) \in Nat \ {0}, NEW wd
  PROVE  Busy(idle, wd) \subseteq get_action_period(idle, wd)
<1> DEFINE N == Len(idle)
           C == Cardinality(Considered(idle))
<1>1. C \in Nat \ {0}
  <2>1. N \in Nat \ {0} /\ MaxDays \in Nat \ {0}
    BY ScheduleAssumption
  <2>2. Considered(idle) = IF N > MaxDays THEN (N - MaxDays) .. N ELSE 1 .. N
    BY DEF Considered
  <2> HIDE DEF N
  <2>3. CASE N > MaxDays
    <3>1. N - MaxDays \in Int /\ N \in Int /\ ~(N - MaxDays > N)
      BY <2>1
    <3>2. Cardinality((N - MaxDays) .. N) = N - (N - MaxDays) + 1
      BY <3>1, FS_Interval
    <3> QED
      BY <2>1, <2>2, <2>3, <3>2
  <2>4. CASE ~(N > MaxDays)
    <3>1. Cardinality(1 .. N) = N - 1 + 1
      BY <2>1, FS_Interval
    <3> QED
      BY <2>1, <2>2, <2>4, <3>1
  <2> QED
    BY <2>3, <2>4
<1>2. SUFFICES ASSUME NEW p \in TimePoints, count(idle, wd, p) = 0
               PROVE  p \in get_action_period(idle, wd)
  BY DEF Busy
<1>3. ~(4 * WeekLength * count(idle, wd, p) >= 3 * C)
  <2> HIDE DEF C
  <2>1. WeekLength \in Nat /\ 4 * WeekLength * 0 = 0
    BY ScheduleAssumption
  <2> QED
    BY <1>1, <1>2, <2>1
<1> QED
  BY <1>3 DEF get_action_period

\* An interval within a set of times belongs to one of its runs.
LEMMA LongestRun ==
  ASSUME NEW A \in SUBSET TimePoints, NEW a \in TimePoints, NEW b \in TimePoints,
         a <= b, a .. b \subseteq A
  PROVE  \E s \in Runs(A) : s[1] \in TimePoints /\ s[2] \in TimePoints /\ s[1] <= a /\ b <= s[2]
<1>1. Points \in Nat /\ TimePoints = 0 .. Points - 1
  BY ScheduleAssumption DEF TimePoints
<1> DEFINE Starts == {x \in Nat : x <= a /\ x .. b \subseteq A}
           Stops == {x \in Nat : b <= x /\ x + 1 \notin A}
<1>2. PICK l \in Starts : \A x \in Starts : l <= x
  <2>1. a \in Starts
    BY <1>1
  <2>2. Starts \in SUBSET Nat /\ Starts # {}
    BY <2>1
  <2> HIDE DEF Starts
  <2> QED
    BY <2>2, Least
<1>3. PICK u \in Stops : \A x \in Stops : u <= x
  <2>1. Points \in Stops
    BY <1>1
  <2>2. Stops \in SUBSET Nat /\ Stops # {}
    BY <2>1
  <2> HIDE DEF Stops
  <2> QED
    BY <2>2, Least
<1>4. l - 1 \notin A
  <2> SUFFICES ASSUME l - 1 \in A PROVE FALSE
    OBVIOUS
  <2>1. l \in Nat /\ l <= a /\ l .. b \subseteq A /\ l - 1 \in Nat
    BY <1>1
  <2>2. \A x \in (l - 1) .. b : x = l - 1 \/ x \in l .. b
    BY <1>1, <2>1
  <2>3. (l - 1) .. b \subseteq A /\ l - 1 <= a
    BY <1>1, <2>1, <2>2
  <2>4. l - 1 \in Starts
    BY <2>1, <2>3
  <2>5. ~(l <= l - 1)
    BY <2>1
  <2> QED
    BY <1>2, <2>4, <2>5
<1>5. b .. u \subseteq A
  <2>1. u \in Nat /\ b <= u /\ b \in A
    BY <1>1
  <2> SUFFICES ASSUME NEW x \in b .. u, x # b PROVE x \in A
    BY <2>1
  <2>2. x - 1 \in Nat /\ b <= x - 1 /\ ~(u <= x - 1) /\ (x - 1) + 1 = x
    BY <1>1, <2>1
  <2>3. x - 1 \notin Stops
    <3> HIDE DEF Stops
    <3> QED
      BY <1>3, <2>2
  <2> QED
    BY <2>2, <2>3
<1>6. l .. u \subseteq A
  <2>1. \A x \in l .. u : x \in l .. b \/ x \in b .. u
    BY <1>1
  <2> QED
    BY <1>5, <2>1
<1>7. l <= u /\ l \in A /\ u \in A /\ u + 1 \notin A /\ l <= a /\ b <= u
  <2>1. l \in Nat /\ u \in Nat /\ l <= a /\ b <= u /\ u + 1 \notin A
    OBVIOUS
  <2> QED
    BY <1>1, <1>6, <2>1
<1> DEFINE s == <<l, u>>
<1>8. s \in A \X A /\ s[1] = l /\ s[2] = u
  BY <1>7
<1> HIDE DEF s
<1>9. s \in Runs(A)
  BY <1>4, <1>6, <1>7, <1>8 DEF Runs
<1> QED
  BY <1>7, <1>8, <1>9

\* A period that was always busy, and is long enough, is part of a daily schedule.
LEMMA BusyItem ==
  ASSUME NEW idle, Len(idle) \in Nat \ {0}, NEW wd \in WeekDays,
         NEW r \in Runs(Busy(idle, wd)), r[2] - r[1] >= MinDuration
  PROVE  \E i \in get_day_schedule(idle, wd) : wd \in i.days /\ i.start <= r[1] /\ r[2] <= EndOf(i)
<1> DEFINE A == get_action_period(idle, wd)
<1>1. Points \in Nat \ {0, 1} /\ TimePoints = 0 .. Points - 1 /\ MinDuration \in Nat \ {0}
  BY ScheduleAssumption DEF TimePoints
<1>2. r[1] \in TimePoints /\ r[2] \in TimePoints /\ r[1] <= r[2] /\ r[1] .. r[2] \subseteq Busy(idle, wd)
  BY DEF Runs, Busy
<1>3. A \in SUBSET TimePoints /\ Busy(idle, wd) \subseteq A
  BY BusyIsAction DEF get_action_period
<1> HIDE DEF A
<1>4. PICK s \in Runs(A) : s[1] \in TimePoints /\ s[2] \in TimePoints /\ s[1] <= r[1] /\ r[2] <= s[2]
  <2>1. r[1] .. r[2] \subseteq A
    BY <1>2, <1>3
  <2> DEFINE a == r[1]
             b == r[2]
  <2> HIDE DEF a, b
  <2>2. a \in TimePoints /\ b \in TimePoints /\ a <= b /\ a .. b \subseteq A
    BY <1>2, <2>1 DEF a, b
  <2>3. \E s \in Runs(A) : s[1] \in TimePoints /\ s[2] \in TimePoints /\ s[1] <= a /\ b <= s[2]
    BY <1>3, <2>2, LongestRun
  <2> QED
    BY <2>3 DEF a, b
<1> DEFINE i == [days |-> {wd}, start |-> s[1], stop |-> IF s[2] = Points - 1 THEN 0 ELSE s[2]]
<1>5. s[1] < s[2] /\ s[2] - s[1] >= MinDuration
  BY <1>1, <1>2, <1>4
<1>6. i \in to_day_schedule(idle, wd)
  BY <1>4, <1>5 DEF to_day_schedule, A
<1>7. EndOf(i) >= s[2] /\ EndOf(i) \in Int
  BY <1>1, <1>4, <1>5 DEF EndOf
<1>8. i.start = s[1] /\ wd \in i.days
  OBVIOUS
<1> HIDE DEF i
<1>9. duration(i) >= MinDuration
  BY <1>1, <1>4, <1>5, <1>7, <1>8 DEF duration
<1>10. r[2] <= EndOf(i) /\ i.start <= r[1]
  BY <1>1, <1>2, <1>4, <1>7, <1>8
<1> QED
  BY <1>6, <1>8, <1>9, <1>10 DEF get_day_schedule

\* The daily schedules are finitely many items, each of them long enough.
LEMMA DailyItems ==
  ASSUME NEW idle
  PROVE  /\ generate_daily_schedule(idle) \in SUBSET ScheduleItem
         /\ IsFiniteSet(generate_daily_schedule(idle))
         /\ \A i \in generate_daily_schedule(idle) : duration(i) >= MinDuration
<1>1. Points \in Nat \ {0, 1} /\ TimePoints = 0 .. Points - 1
  BY ScheduleAssumption DEF TimePoints
<1> DEFINE Item(p) == [days |-> {p[1]}, start |-> p[2][1], stop |-> IF p[2][2] = Points - 1 THEN 0 ELSE p[2][2]]
           D == WeekDays \X (TimePoints \X TimePoints)
<1>2. ASSUME NEW wd \in WeekDays, NEW i \in to_day_schedule(idle, wd)
      PROVE  i \in ScheduleItem /\ \E p \in D : i = Item(p)
  <2>1. PICK r \in Runs(get_action_period(idle, wd)) :
          i = [days |-> {wd}, start |-> r[1], stop |-> IF r[2] = Points - 1 THEN 0 ELSE r[2]]
    BY <1>2 DEF to_day_schedule
  <2>2. r \in TimePoints \X TimePoints
    BY DEF Runs, get_action_period
  <2>3. r[1] \in TimePoints /\ r[2] \in TimePoints /\ 0 \in TimePoints
    BY <1>1, <2>2
  <2>4. i \in ScheduleItem
    BY <2>1, <2>3 DEF ScheduleItem
  <2> DEFINE p == <<wd, r>>
  <2>5. p \in D /\ i = Item(p)
    BY <2>1, <2>2
  <2> QED
    BY <2>4, <2>5
<1>3. IsFiniteSet(D)
  BY FiniteTimes, FS_Product
<1>4. IsFiniteSet({Item(p) : p \in D})
  <2> DEFINE f == [p \in D |-> Item(p)]
             T == {Item(p) : p \in D}
  <2> HIDE DEF D, Item
  <2>1. f \in Surjection(D, T)
    BY DEF Surjection
  <2> HIDE DEF f, T
  <2>2. IsFiniteSet(T)
    BY <1>3, <2>1, FS_Surjection
  <2> QED
    BY <2>2 DEF T
<1>5. generate_daily_schedule(idle) \subseteq {Item(p) : p \in D}
  BY <1>2 DEF generate_daily_schedule, get_day_schedule
<1>6. IsFiniteSet(generate_daily_schedule(idle))
  <2> HIDE DEF D, Item
  <2> QED
    BY <1>4, <1>5, FS_Subset
<1> QED
  BY <1>2, <1>6 DEF generate_daily_schedule, get_day_schedule

\* What the groups made so far consist of, and that what they took in is in one of them.
GroupsOf(daily) ==
  [grouped   : Seq({Common(Similar(daily, b)) : b \in daily}),
   processed : SUBSET daily,
   keys      : SUBSET (TimePoints \X TimePoints)]

TakenIn(groups, j) == j \in groups.processed \/ <<j.start, j.stop>> \in groups.keys

HasGroup(daily, grouped, j) ==
  \E b \in daily : j \in Similar(daily, b) /\ Common(Similar(daily, b)) \in ToSet(grouped)

LEMMA SimilarByTimes ==
  ASSUME NEW daily \in SUBSET ScheduleItem, NEW i \in daily, NEW j \in daily,
         i.start = j.start, i.stop = j.stop
  PROVE  j \in Similar(daily, i)
<1>1. i.start \in Int /\ i.stop \in Int /\ MaxDiff \in Nat
  BY ScheduleAssumption DEF ScheduleItem, TimePoints
<1>2. distance(i.start, j.start) = 0 /\ distance(i.stop, j.stop) = 0
  BY <1>1 DEF distance
<1> QED
  BY <1>1, <1>2 DEF Similar, is_similar

LEMMA ExtendedGroups ==
  ASSUME NEW daily \in SUBSET ScheduleItem, NEW i \in daily, NEW g \in GroupsOf(daily),
         \A j \in daily : TakenIn(g, j) => HasGroup(daily, g.grouped, j)
  PROVE  LET h == Extended(g, i, daily)
         IN  /\ h \in GroupsOf(daily)
             /\ \A j \in daily : TakenIn(h, j) => HasGroup(daily, h.grouped, j)
             /\ \A j \in daily : TakenIn(g, j) => TakenIn(h, j)
             /\ TakenIn(h, i)
<1> DEFINE h == Extended(g, i, daily)
<1>1. CASE TakenIn(g, i)
  BY <1>1 DEF Extended, TakenIn
<1>2. CASE ~TakenIn(g, i)
  <2> DEFINE T == {Common(Similar(daily, b)) : b \in daily}
             c == Common(Similar(daily, i))
  <2>1. h = [grouped   |-> Append(g.grouped, c),
             processed |-> g.processed \cup Similar(daily, i),
             keys      |-> g.keys \cup {<<i.start, i.stop>>}]
    BY <1>2 DEF Extended, TakenIn
  <2>2. g.grouped \in Seq(T) /\ g.processed \in SUBSET daily /\ g.keys \in SUBSET (TimePoints \X TimePoints) /\ c \in T
    BY DEF GroupsOf
  <2>3. Similar(daily, i) \subseteq daily /\ i \in Similar(daily, i) /\ <<i.start, i.stop>> \in TimePoints \X TimePoints
    <3>1. Similar(daily, i) \subseteq daily
      BY DEF Similar
    <3>2. i \in Similar(daily, i)
      BY SimilarByTimes
    <3>3. i.start \in TimePoints /\ i.stop \in TimePoints
      BY DEF ScheduleItem
    <3> QED
      BY <3>1, <3>2, <3>3
  <2> HIDE DEF T, c, h
  <2>4. Append(g.grouped, c) \in Seq(T) /\ ToSet(Append(g.grouped, c)) = ToSet(g.grouped) \cup {c}
    <3> DEFINE s == g.grouped
    <3>1. s \in Seq(T)
      BY <2>2
    <3> HIDE DEF s
    <3>2. Append(s, c) = s \o <<c>> /\ <<c>> \in Seq(T)
      BY <2>2, <3>1
    <3>3. ToSet(<<c>>) = {c}
      BY DEF ToSet
    <3>4. s \o <<c>> \in Seq(T) /\ ToSet(s \o <<c>>) = ToSet(s) \cup ToSet(<<c>>)
      BY <3>1, <3>2, JoinElements
    <3> QED
      BY <3>2, <3>3, <3>4 DEF s
  <2>5. h \in GroupsOf(daily)
    BY <2>1, <2>2, <2>3, <2>4 DEF GroupsOf, T
  <2>6. ASSUME NEW j \in daily, TakenIn(h, j) PROVE HasGroup(daily, h.grouped, j)
    <3>1. CASE TakenIn(g, j)
      BY <2>1, <2>4, <3>1 DEF HasGroup
    <3>2. CASE j \in Similar(daily, i)
      BY <2>1, <2>4, <3>2 DEF HasGroup, c
    <3>3. CASE <<j.start, j.stop>> = <<i.start, i.stop>>
      <4>1. j \in Similar(daily, i)
        BY <3>3, SimilarByTimes
      <4> QED
        BY <2>1, <2>4, <4>1 DEF HasGroup, c
    <3> QED
      BY <2>1, <2>6, <3>1, <3>2, <3>3 DEF TakenIn
  <2>7. TakenIn(h, i) /\ \A j \in daily : TakenIn(g, j) => TakenIn(h, j)
    BY <2>1, <2>3 DEF TakenIn
  <2> QED
    BY <2>5, <2>6, <2>7 DEF h
<1> QED
  BY <1>1, <1>2

\* Every daily schedule is in a group.
LEMMA GroupsTakeIn ==
  ASSUME NEW daily \in SUBSET ScheduleItem, IsFiniteSet(daily)
  PROVE  /\ Groups(daily) \in Seq({Common(Similar(daily, b)) : b \in daily})
         /\ \A j \in daily : HasGroup(daily, Groups(daily), j)
<1> DEFINE before == {p \in daily \X daily : Earlier(p[1], p[2])}
           sorted == Sorted(SetToSeq(daily), before)
           N == Len(sorted)
           T == GroupsOf(daily)
           base == [grouped |-> << >>, processed |-> {}, keys |-> {}]
           Sound(g) == \A j \in daily : TakenIn(g, j) => HasGroup(daily, g.grouped, j)
           S == {g \in T : Sound(g)}
           step == [k \in 1..N |-> [g \in S |-> Extended(g, sorted[k], daily)]]
           F(f) == [n \in 0..N |-> IF n = 0 THEN base ELSE Extended(f[n - 1], sorted[n], daily)]
<1>1. SetToSeq(daily) \in Seq(daily) /\ ToSet(SetToSeq(daily)) = daily
  BY SetToSeqElements
<1>2. sorted \in Seq(daily) /\ ToSet(sorted) = daily
  <2> HIDE DEF before
  <2> QED
    BY <1>1, SortedElements
<1> HIDE DEF before
<1>3. N \in Nat /\ (\A k \in 1..N : sorted[k] \in daily) /\ daily = {sorted[k] : k \in 1..N}
  <2> HIDE DEF sorted
  <2> QED
    BY <1>2 DEF ToSet
<1>4. base \in S
  BY DEF GroupsOf, TakenIn
<1> HIDE DEF sorted, N
<1>5. ASSUME NEW k \in 1..N, NEW g \in S PROVE Extended(g, sorted[k], daily) \in S
  <2>1. g \in GroupsOf(daily) /\ (\A j \in daily : TakenIn(g, j) => HasGroup(daily, g.grouped, j)) /\ sorted[k] \in daily
    BY <1>3
  <2> QED
    BY <2>1, ExtendedGroups
<1>6. step \in [1..N -> [S -> S]]
  BY <1>5
<1> HIDE DEF T, S, step, base
<1>7. PICK f : Iteration(f, N, S, base, step)
  BY <1>3, <1>4, <1>6, Iterates
<1>8. f \in [0..N -> S] /\ f[0] = base
  BY <1>7 DEF Iteration
<1>9. ASSUME NEW k \in 1..N PROVE f[k] = Extended(f[k - 1], sorted[k], daily)
  <2> DEFINE g == f[k - 1]
  <2>1. k - 1 \in 0..N
    BY <1>3
  <2>2. g \in S /\ f[k] = step[k][g]
    BY <1>7, <1>8, <2>1 DEF Iteration
  <2> HIDE DEF g
  <2>3. step[k][g] = Extended(g, sorted[k], daily)
    BY <2>2 DEF step
  <2> QED
    BY <2>2, <2>3 DEF g
<1>10. f = F(f)
  <2>1. \A n \in 0..N : n # 0 => n \in 1..N
    BY <1>3
  <2>2. \A n \in 0..N : f[n] = IF n = 0 THEN base ELSE Extended(f[n - 1], sorted[n], daily)
    BY <1>8, <1>9, <2>1
  <2> QED
    BY <1>8, <2>2
<1> DEFINE h == CHOOSE x : x = F(x)
<1>11. h = F(h)
  <2> HIDE DEF F
  <2> QED
    BY <1>10
<1>12. Groups(daily) = h[N].grouped
  BY DEF Groups, N, sorted, base, before
<1> HIDE DEF h
<1>13. h[0] = base /\ \A n \in 1..N : h[n] = Extended(h[n - 1], sorted[n], daily)
  <2>1. 0 \in 0..N /\ \A n \in 1..N : n \in 0..N /\ n # 0
    BY <1>3
  <2> QED
    BY <1>11, <2>1
<1> DEFINE Good(n) == h[n] \in S /\ \A k \in 1..n : TakenIn(h[n], sorted[k])
           Bad == {n \in 0..N : ~Good(n)}
<1>14. ASSUME Bad # {} PROVE FALSE
  <2>1. Bad \in SUBSET Nat
    BY <1>3
  <2>2. PICK m \in Bad : \A k \in Bad : m <= k
    <3> HIDE DEF Bad
    <3> QED
      BY <1>14, <2>1, Least
  <2>3. m \in 1..N /\ ~Good(m)
    <3>1. Good(0)
      BY <1>3, <1>4, <1>13
    <3> QED
      BY <1>3, <2>2, <3>1
  <2>4. m - 1 \in 0..N /\ m - 1 < m /\ ~(m <= m - 1)
    BY <1>3, <2>3
  <2>5. Good(m - 1)
    BY <2>2, <2>4
  <2> DEFINE g == h[m - 1]
             e == h[m]
  <2>6. g \in S /\ (\A k \in 1..(m - 1) : TakenIn(g, sorted[k])) /\ e = Extended(g, sorted[m], daily)
    BY <1>13, <2>3, <2>5
  <2> HIDE DEF g
  <2>7. e \in S /\ TakenIn(e, sorted[m]) /\ \A j \in daily : TakenIn(g, j) => TakenIn(e, j)
    <3>1. g \in GroupsOf(daily) /\ (\A j \in daily : TakenIn(g, j) => HasGroup(daily, g.grouped, j)) /\ sorted[m] \in daily
      BY <1>3, <2>3, <2>6 DEF S, T
    <3> QED
      BY <2>6, <3>1, ExtendedGroups DEF S, T
  <2>8. ASSUME NEW k \in 1..m PROVE TakenIn(e, sorted[k])
    <3>1. k = m \/ k \in 1..(m - 1)
      BY <1>3, <2>3
    <3>2. sorted[k] \in daily
      BY <1>3, <2>3
    <3> QED
      BY <2>6, <2>7, <3>1, <3>2
  <2> QED
    BY <2>3, <2>7, <2>8
<1>15. Good(N)
  <2>1. N \in 0..N
    BY <1>3
  <2> QED
    BY <1>14, <2>1
<1>16. Groups(daily) \in Seq({Common(Similar(daily, b)) : b \in daily})
  BY <1>12, <1>15 DEF S, T, GroupsOf
<1>17. \A j \in daily : HasGroup(daily, Groups(daily), j)
  <2>1. \A j \in daily : TakenIn(h[N], j)
    BY <1>3, <1>15
  <2> QED
    BY <1>12, <1>15, <2>1 DEF S
<1> QED
  BY <1>16, <1>17

\* The common schedule begins with the earliest of its group and ends with the latest.
LEMMA CommonTimes ==
  ASSUME NEW daily \in SUBSET ScheduleItem, NEW b \in daily
  PROVE  LET same == Similar(daily, b)
             c    == Common(same)
         IN  /\ c.start \in {j.start : j \in same} /\ \A j \in same : c.start <= j.start
             /\ c.stop \in {j.stop : j \in same} /\ \A j \in same : c.stop >= j.stop
<1> DEFINE same == Similar(daily, b)
           c == Common(same)
<1>1. Points \in Nat \ {0, 1} /\ TimePoints = 0 .. Points - 1
  BY ScheduleAssumption DEF TimePoints
<1>2. \A j \in daily : j.start \in 0 .. Points - 1 /\ j.stop \in 0 .. Points - 1
  BY <1>1 DEF ScheduleItem
<1>3. b \in same /\ \A j \in same : j \in daily
  BY SimilarByTimes DEF Similar
<1> HIDE DEF same
<1>4. c.start \in {j.start : j \in same} /\ \A j \in same : c.start <= j.start
  <2> DEFINE Starts == {j.start : j \in same}
  <2>1. Starts \in SUBSET Nat /\ Starts # {}
    BY <1>2, <1>3
  <2>2. \E s \in Starts : \A t \in Starts : s <= t
    <3> HIDE DEF Starts
    <3> QED
      BY <2>1, Least
  <2>3. \E s \in Starts : \A j \in same : s <= j.start
    BY <2>2
  <2>4. c.start = CHOOSE s \in Starts : \A j \in same : s <= j.start
    BY DEF Common
  <2> HIDE DEF c
  <2> QED
    BY <2>3, <2>4
<1>5. c.stop \in {j.stop : j \in same} /\ \A j \in same : c.stop >= j.stop
  <2> DEFINE Stops == {j.stop : j \in same}
             Rest == {Points - t : t \in Stops}
  <2>1. Rest \in SUBSET Nat /\ Rest # {}
    BY <1>1, <1>2, <1>3
  <2>2. PICK m \in Rest : \A k \in Rest : m <= k
    <3> HIDE DEF Rest
    <3> QED
      BY <2>1, Least
  <2>3. PICK s \in Stops : m = Points - s
    OBVIOUS
  <2>4. ASSUME NEW j \in same PROVE s >= j.stop
    <3>1. j.stop \in Stops
      OBVIOUS
    <3>2. Points - s <= Points - j.stop
      BY <2>2, <2>3, <3>1
    <3>3. s \in Int /\ j.stop \in Int
      BY <1>2, <1>3
    <3> QED
      BY <1>1, <3>2, <3>3
  <2>5. c.stop = CHOOSE t \in Stops : \A j \in same : t >= j.stop
    BY DEF Common
  <2> HIDE DEF c, Stops, Rest
  <2>6. c.stop \in Stops /\ \A j \in same : c.stop >= j.stop
    BY <2>4, <2>5
  <2> QED
    BY <2>6 DEF Stops
<1> QED
  BY <1>4, <1>5 DEF c, same

\* The common schedule of a group runs whenever one of its members does.  One that ends at
\* midnight, "00:00", counts as the earliest end: it is not lost because a member that ends
\* within the distance from "00:00" would be too short.
LEMMA CommonRunsLongest ==
  ASSUME NEW daily \in SUBSET ScheduleItem, \A i \in daily : duration(i) >= MinDuration,
         MinDuration > MaxDiff, NEW b \in daily, NEW i \in Similar(daily, b)
  PROVE  LET c == Common(Similar(daily, b))
         IN  /\ c.start \in TimePoints /\ c.stop \in TimePoints
             /\ i.days \subseteq c.days /\ c.start <= i.start /\ EndOf(i) <= EndOf(c)
<1> DEFINE same == Similar(daily, b)
           c == Common(same)
<1>1. /\ Points \in Nat \ {0, 1} /\ TimePoints = 0 .. Points - 1
      /\ MinDuration \in Nat \ {0} /\ MaxDiff \in Nat
  BY ScheduleAssumption DEF TimePoints
<1>2. \A j \in daily : j.start \in 0 .. Points - 1 /\ j.stop \in 0 .. Points - 1
  BY <1>1 DEF ScheduleItem
<1>3. i \in same /\ \A j \in same : j \in daily /\ is_similar(b, j)
  BY DEF Similar
<1> HIDE DEF same
<1>4. c.start \in {j.start : j \in same} /\ \A j \in same : c.start <= j.start
  BY CommonTimes DEF same
<1>5. c.stop \in {j.stop : j \in same} /\ \A j \in same : c.stop >= j.stop
  BY CommonTimes DEF same
<1>6. i.days \subseteq c.days
  BY <1>3 DEF Common
<1> HIDE DEF c
<1>7. EndOf(i) <= EndOf(c)
  <2>1. i.stop \in 0 .. Points - 1 /\ c.stop \in 0 .. Points - 1 /\ c.stop >= i.stop
    BY <1>2, <1>3, <1>5
  <2>2. CASE c.stop = 0
    BY <1>1, <2>1, <2>2 DEF EndOf
  <2>3. CASE c.stop # 0 /\ i.stop # 0
    BY <1>1, <2>1, <2>3 DEF EndOf
  <2>4. CASE c.stop # 0 /\ i.stop = 0
    <3>1. PICK j \in same : j.stop = c.stop
      BY <1>5
    <3>2. distance(b.stop, i.stop) <= MaxDiff /\ distance(b.stop, j.stop) <= MaxDiff
      BY <1>3 DEF is_similar
    <3>3. b.stop \in 0 .. Points - 1 /\ j.stop \in 0 .. Points - 1 /\ b.start \in 0 .. Points - 1 /\ j.start \in 0 .. Points - 1
      BY <1>2, <1>3
    <3>4. duration(b) >= MinDuration /\ duration(j) >= MinDuration
      BY <1>3
    <3>5. b.stop <= MaxDiff
      BY <1>1, <2>4, <3>2, <3>3 DEF distance
    <3>6. b.stop = 0
      BY <1>1, <3>3, <3>4, <3>5 DEF duration, EndOf
    <3>7. j.stop <= MaxDiff
      BY <1>1, <3>2, <3>3, <3>6 DEF distance
    <3> QED
      BY <1>1, <2>4, <3>1, <3>3, <3>4, <3>7 DEF duration, EndOf
  <2> QED
    BY <2>2, <2>3, <2>4
<1>8. c.start \in TimePoints /\ c.stop \in TimePoints
  BY <1>1, <1>2, <1>3, <1>4, <1>5
<1> QED
  BY <1>3, <1>4, <1>6, <1>7, <1>8 DEF c, same

\* The parts of a schedule are items that run for some time.
Parts == {i \in ScheduleItem : i.start < EndOf(i)}

LEMMA CommonIsPart ==
  ASSUME NEW daily \in SUBSET ScheduleItem, \A i \in daily : duration(i) >= MinDuration, NEW b \in daily
  PROVE  Common(Similar(daily, b)) \in Parts
<1> DEFINE same == Similar(daily, b)
           c == Common(same)
<1>1. Points \in Nat \ {0, 1} /\ TimePoints = 0 .. Points - 1 /\ MinDuration \in Nat \ {0}
  BY ScheduleAssumption DEF TimePoints
<1>2. same \subseteq daily
  BY DEF Similar
<1>3. /\ c.start \in {j.start : j \in same} /\ \A j \in same : c.start <= j.start
      /\ c.stop \in {j.stop : j \in same} /\ \A j \in same : c.stop >= j.stop
  BY CommonTimes
<1>4. \A j \in same : j.start \in TimePoints /\ j.stop \in TimePoints /\ j.days \in SUBSET WeekDays
  BY <1>2 DEF ScheduleItem
<1>5. c \in ScheduleItem
  <2>1. c.start \in TimePoints /\ c.stop \in TimePoints
    BY <1>3, <1>4
  <2>2. c.days \in SUBSET WeekDays
    BY <1>4 DEF Common
  <2>3. c = [days |-> c.days, start |-> c.start, stop |-> c.stop]
    BY DEF Common
  <2> QED
    BY <2>1, <2>2, <2>3 DEF ScheduleItem
<1>6. c.start < EndOf(c)
  <2> HIDE DEF c
  <2>1. c.start \in TimePoints /\ c.stop \in TimePoints
    BY <1>3, <1>4
  <2>2. CASE c.stop = 0
    BY <1>1, <2>1, <2>2 DEF EndOf
  <2>3. CASE c.stop # 0
    <3>1. PICK j \in same : j.stop = c.stop
      BY <1>3
    <3>2. duration(j) >= MinDuration /\ c.start <= j.start /\ j.start \in TimePoints /\ j.stop \in TimePoints
      BY <1>2, <1>3, <1>4
    <3> QED
      BY <1>1, <2>1, <2>3, <3>1, <3>2 DEF duration, EndOf
  <2> QED
    BY <2>2, <2>3
<1> QED
  BY <1>5, <1>6 DEF Parts

\* What grouping makes of the daily schedules.
LEMMA GroupedSchedule ==
  ASSUME NEW idle
  PROVE  LET daily == generate_daily_schedule(idle)
         IN  /\ group_by_days(daily) \in Seq(Parts)
             /\ ToSet(group_by_days(daily)) = ToSet(Groups(daily))
<1> DEFINE daily == generate_daily_schedule(idle)
           before == {q \in ToSet(Groups(daily)) \X ToSet(Groups(daily)) : Longer(q[1], q[2])}
           T == {Common(Similar(daily, b)) : b \in daily}
<1>1. daily \in SUBSET ScheduleItem /\ IsFiniteSet(daily) /\ \A i \in daily : duration(i) >= MinDuration
  BY DailyItems
<1>2. group_by_days(daily) = Sorted(Groups(daily), before)
  BY DEF group_by_days
<1> HIDE DEF daily, before
<1>3. Groups(daily) \in Seq(T) /\ T \subseteq Parts
  BY <1>1, GroupsTakeIn, CommonIsPart
<1> HIDE DEF T
<1>4. group_by_days(daily) \in Seq(T) /\ ToSet(group_by_days(daily)) = ToSet(Groups(daily))
  BY <1>2, <1>3, SortedElements
<1>5. group_by_days(daily) \in Seq(Parts)
  BY <1>3, <1>4
<1> QED
  BY <1>4, <1>5 DEF daily

LEMMA ScheduleParts ==
  ASSUME NEW idle, NEW disabled
  PROVE  generate_schedule(idle, disabled) \in Seq(Parts)
<1> DEFINE always == [days |-> WeekDays, start |-> 0, stop |-> 0]
<1>1. always \in Parts
  <2>1. Points \in Nat \ {0, 1} /\ 0 \in TimePoints
    BY ScheduleAssumption DEF TimePoints
  <2>2. always \in ScheduleItem /\ always.start = 0 /\ EndOf(always) = Points
    BY <2>1 DEF ScheduleItem, EndOf
  <2> QED
    BY <2>1, <2>2 DEF Parts
<1>2. AlwaysRun = <<always>>
  BY DEF AlwaysRun
<1> HIDE DEF always
<1>3. AlwaysRun \in Seq(Parts)
  BY <1>1, <1>2
<1> QED
  BY <1>3, GroupedSchedule DEF generate_schedule

LEMMA ScheduleCoversBusyTime ==
  ASSUME NEW idle, Len(idle) \in Nat, NEW disabled
  PROVE  BusyIsCovered(idle, generate_schedule(idle, disabled))
<1> DEFINE daily == generate_daily_schedule(idle)
           schedule == generate_schedule(idle, disabled)
<1>1. Points \in Nat \ {0, 1} /\ TimePoints = 0 .. Points - 1 /\ MinDays \in Nat \ {0}
  BY ScheduleAssumption DEF TimePoints
<1>2. SUFFICES ASSUME MinDuration > MaxDiff, NEW wd \in WeekDays, NEW r \in Runs(Busy(idle, wd)),
                      r[2] - r[1] >= MinDuration, NEW p \in r[1] .. (r[2] - 1)
               PROVE  Covers(schedule, wd, p)
  BY DEF BusyIsCovered
<1>3. r[1] \in TimePoints /\ r[2] \in TimePoints
  BY DEF Runs, Busy
<1>4. CASE disabled \/ Len(idle) < MinDays
  <2>1. schedule = << [days |-> WeekDays, start |-> 0, stop |-> 0] >>
    BY <1>4 DEF generate_schedule, AlwaysRun
  <2>2. Len(schedule) = 1 /\ schedule[1].days = WeekDays /\ schedule[1].start = 0 /\ EndOf(schedule[1]) = Points
    BY <2>1 DEF EndOf
  <2>3. 0 <= p /\ p < Points
    BY <1>1, <1>3
  <2> QED
    BY <2>2, <2>3 DEF Covers
<1>5. CASE ~(disabled \/ Len(idle) < MinDays)
  <2>1. schedule = group_by_days(daily) /\ Len(idle) \in Nat \ {0}
    BY <1>1, <1>5 DEF generate_schedule
  <2>2. daily \in SUBSET ScheduleItem /\ IsFiniteSet(daily) /\ \A i \in daily : duration(i) >= MinDuration
    BY DailyItems
  <2>3. PICK i \in daily : wd \in i.days /\ i.start <= r[1] /\ r[2] <= EndOf(i)
    BY <1>2, <2>1, BusyItem DEF generate_daily_schedule
  <2> HIDE DEF daily
  <2>4. HasGroup(daily, Groups(daily), i)
    BY <2>2, GroupsTakeIn
  <2>5. PICK b \in daily : i \in Similar(daily, b) /\ Common(Similar(daily, b)) \in ToSet(Groups(daily))
    BY <2>4 DEF HasGroup
  <2> DEFINE c == Common(Similar(daily, b))
  <2>6. schedule \in Seq(Parts) /\ ToSet(schedule) = ToSet(Groups(daily))
    BY <2>1, GroupedSchedule DEF daily
  <2>7. /\ c.start \in TimePoints /\ c.stop \in TimePoints
        /\ i.days \subseteq c.days /\ c.start <= i.start /\ EndOf(i) <= EndOf(c)
    BY <1>2, <2>2, <2>5, CommonRunsLongest
  <2> HIDE DEF c, schedule
  <2>8. PICK n \in 1 .. Len(schedule) : schedule[n] = c
    <3>1. c \in ToSet(schedule)
      BY <2>5, <2>6 DEF c
    <3>2. DOMAIN schedule = 1 .. Len(schedule)
      BY <2>6
    <3>3. ToSet(schedule) = {schedule[n] : n \in 1 .. Len(schedule)}
      BY <3>2 DEF ToSet
    <3> QED
      BY <3>1, <3>3
  <2>9. c.start \in Int /\ EndOf(c) \in Int /\ i.start \in Int /\ EndOf(i) \in Int
    <3>1. i.start \in TimePoints /\ i.stop \in TimePoints
      BY <2>2 DEF ScheduleItem
    <3> QED
      BY <1>1, <2>7, <3>1 DEF EndOf
  <2>10. c.start <= p /\ p < EndOf(c)
    <3>1. r[1] \in Int /\ r[2] \in Int /\ r[1] <= p /\ p < r[2] /\ p \in Int
      BY <1>1, <1>3
    <3>2. c.start <= r[1]
      BY <2>3, <2>7, <2>9, <3>1
    <3>3. r[2] <= EndOf(c)
      BY <2>3, <2>7, <2>9, <3>1
    <3> QED
      BY <2>9, <3>1, <3>2, <3>3
  <2> QED
    BY <2>3, <2>7, <2>8, <2>10 DEF Covers
<1> QED
  BY <1>4, <1>5

-----------------------------------------------------------------------------
(* Savings                                                                 *)

\* Rounding is off by a half at most.
LEMMA Rounding ==
  ASSUME NEW n \in Nat, NEW d \in Nat \ {0}
  PROVE  /\ Round(n, d) \in Int
         /\ 2 * (n - d * Round(n, d)) <= d /\ 2 * (d * Round(n, d) - n) <= d
<1> DEFINE q == n \div d
           r == n % d
           dq == d * q
<1>1. q \in Int /\ r \in 0 .. d - 1 /\ n = dq + r /\ dq \in Int
  BY Z3
<1>2. d * (q + 1) = dq + d
  BY <1>1
<1>3. Round(n, d) = IF 2 * r < d \/ (2 * r = d /\ q % 2 = 0) THEN q ELSE q + 1
  BY DEF Round
<1> HIDE DEF r
<1>4. CASE Round(n, d) = q
  <2>1. 2 * r <= d
    BY <1>1, <1>3, <1>4
  <2>2. d * Round(n, d) = dq
    BY <1>4
  <2> HIDE DEF q, dq
  <2> QED
    BY <1>1, <1>4, <2>1, <2>2
<1>5. CASE Round(n, d) = q + 1
  <2>1. 2 * r >= d
    BY <1>1, <1>3, <1>5
  <2>2. d * Round(n, d) = dq + d
    BY <1>2, <1>5
  <2> HIDE DEF q, dq
  <2> QED
    BY <1>1, <1>5, <2>1, <2>2
<1> QED
  BY <1>3, <1>4, <1>5

\* The points of the week at which a part runs.
Cells(i) == i.days \X (i.start .. EndOf(i) - 1)

LEMMA CellsOfPart ==
  ASSUME NEW i \in Parts
  PROVE  /\ Cells(i) \in SUBSET (WeekDays \X TimePoints) /\ IsFiniteSet(Cells(i))
         /\ Cardinality(Cells(i)) = Cardinality(i.days) * duration(i)
         /\ Cardinality(i.days) \in Nat /\ duration(i) \in Nat
<1>1. Points \in Nat \ {0, 1} /\ TimePoints = 0 .. Points - 1
  BY ScheduleAssumption DEF TimePoints
<1>2. i.days \in SUBSET WeekDays /\ i.start \in TimePoints /\ i.stop \in TimePoints /\ i.start < EndOf(i)
  BY DEF Parts, ScheduleItem
<1>3. EndOf(i) \in 1 .. Points
  BY <1>1, <1>2 DEF EndOf
<1>4. IsFiniteSet(i.days)
  BY <1>2, FiniteTimes, FS_Subset
<1> DEFINE a == i.start
           b == EndOf(i) - 1
<1>5. a \in Nat /\ b \in Nat /\ a <= b /\ b <= Points - 1 /\ duration(i) = b - a + 1
  BY <1>1, <1>2, <1>3 DEF duration
<1>6. Cells(i) = i.days \X (a .. b)
  BY DEF Cells
<1> HIDE DEF a, b
<1>7. IsFiniteSet(a .. b) /\ Cardinality(a .. b) = duration(i)
  BY <1>5, FS_Interval
<1>8. a .. b \subseteq TimePoints
  BY <1>1, <1>5
<1>9. duration(i) \in Nat /\ Cardinality(i.days) \in Nat
  BY <1>4, <1>5, FS_CardinalityType
<1>10. Cells(i) \in SUBSET (WeekDays \X TimePoints)
  BY <1>2, <1>6, <1>8
<1> HIDE DEF Cells
<1>11. IsFiniteSet(Cells(i)) /\ Cardinality(Cells(i)) = Cardinality(i.days) * duration(i)
  BY <1>4, <1>6, <1>7, FS_Product
<1> QED
  BY <1>9, <1>10, <1>11

\* Part by part, what a schedule costs follows the part of the week that it runs.
LEMMA ScheduleCost ==
  ASSUME NEW schedule \in Seq(Parts)
  PROVE  CostsItsRunningTime(schedule)
<1> DEFINE N == Len(schedule)
           W == WeekLength * Points
           A == WeekDays \X TimePoints
           share == [n \in DOMAIN schedule |-> _get_schedule_coverage_percent(schedule[n])]
           C(n) == Cells(schedule[n])
           R(k) == {t \in A : \E n \in 1..k : t \in C(n)}
<1>1. N \in Nat /\ DOMAIN schedule = 1..N /\ \A n \in 1..N : schedule[n] \in Parts
  OBVIOUS
<1>2. W \in Nat \ {0}
  BY ScheduleAssumption
<1>3. IsFiniteSet(A)
  BY FiniteTimes, FS_Product
<1> HIDE DEF N, W, A
<1>4. ASSUME NEW n \in 1..N
      PROVE  /\ C(n) \in SUBSET A /\ IsFiniteSet(C(n)) /\ Cardinality(C(n)) \in Nat
             /\ share[n] \in Int
             /\ 2 * (100 * Cardinality(C(n)) - W * share[n]) <= W
             /\ 2 * (W * share[n] - 100 * Cardinality(C(n))) <= W
  <2> DEFINE i == schedule[n]
             c == Cardinality(i.days) * duration(i)
  <2>1. i \in Parts /\ share[n] = _get_schedule_coverage_percent(i) /\ C(n) = Cells(i)
    BY <1>1
  <2> HIDE DEF i
  <2>2. C(n) \in SUBSET A /\ IsFiniteSet(C(n)) /\ Cardinality(C(n)) = c /\ Cardinality(i.days) \in Nat /\ duration(i) \in Nat
    BY <2>1, CellsOfPart DEF A
  <2>3. c \in Nat /\ 100 * Cardinality(i.days) * duration(i) = 100 * c
    BY <2>2
  <2>4. share[n] = Round(100 * c, W)
    BY <2>1, <2>3 DEF _get_schedule_coverage_percent, W
  <2> HIDE DEF c, C, share
  <2>5. 100 * c \in Nat
    BY <2>3
  <2> QED
    BY <1>2, <2>2, <2>3, <2>4, <2>5, Rounding
<1>5. share \in Seq(Int) /\ Len(share) = N
  <2>1. share \in [1..N -> Int]
    BY <1>1, <1>4
  <2> HIDE DEF share
  <2> QED
    BY <1>1, <2>1
<1>6. Coverage(schedule) = Total(share)
  BY DEF Coverage
<1> HIDE DEF share, C
<1>7. PICK h \in [0..N -> Int] :
        /\ h[0] = 0 /\ Total(share) = h[N]
        /\ \A n \in 1..N : h[n] = h[n - 1] + share[n]
  BY <1>5, TotalSteps
<1>8. R(N) = Running(schedule)
  <2>1. ASSUME NEW t \in A, NEW n \in 1..N
        PROVE  t \in C(n) <=> t[1] \in schedule[n].days /\ schedule[n].start <= t[2] /\ t[2] < EndOf(schedule[n])
    <3> DEFINE i == schedule[n]
    <3>1. Points \in Nat \ {0, 1} /\ TimePoints = 0 .. Points - 1
      BY ScheduleAssumption DEF TimePoints
    <3>2. i.start \in TimePoints /\ i.stop \in TimePoints
      BY <1>1 DEF Parts, ScheduleItem
    <3> HIDE DEF i
    <3>3. i.start \in Int /\ EndOf(i) \in Int
      BY <3>1, <3>2 DEF EndOf
    <3>4. t = <<t[1], t[2]>> /\ t[2] \in Int
      BY <3>1 DEF A
    <3>5. C(n) = i.days \X (i.start .. EndOf(i) - 1)
      BY DEF C, Cells, i
    <3>6. t \in C(n) <=> t[1] \in i.days /\ t[2] \in i.start .. EndOf(i) - 1
      BY <3>4, <3>5
    <3> QED
      BY <3>3, <3>4, <3>6 DEF i
  <2>2. ASSUME NEW t \in A PROVE (\E n \in 1..N : t \in C(n)) <=> Covers(schedule, t[1], t[2])
    BY <2>1 DEF Covers, N
  <2> QED
    BY <2>2 DEF Running, A
<1>9. \A k \in 0..N : IsFiniteSet(R(k)) /\ Cardinality(R(k)) \in Nat
  BY <1>3, FS_Subset, FS_CardinalityType
<1>10. ASSUME NEW k \in 1..N
       PROVE  /\ k - 1 \in 0..N /\ k \in 0..N
              /\ Cardinality(R(k)) <= Cardinality(R(k - 1)) + Cardinality(C(k))
              /\ R(k - 1) \cap C(k) = {} => Cardinality(R(k)) = Cardinality(R(k - 1)) + Cardinality(C(k))
  <2>1. k - 1 \in 0..N /\ k \in 0..N /\ \A n \in 1..k : n = k \/ n \in 1..(k - 1)
    BY <1>1
  <2>2. \A n \in 1..(k - 1) : n \in 1..k
    BY <1>1
  <2>3. k \in 1..k
    BY <1>1
  <2>4. R(k) = R(k - 1) \cup C(k)
    BY <1>4, <2>1, <2>2, <2>3
  <2>5. IsFiniteSet(R(k - 1)) /\ IsFiniteSet(C(k)) /\ Cardinality(C(k)) \in Nat /\ Cardinality(R(k - 1)) \in Nat
    BY <1>4, <1>9, <2>1
  <2> DEFINE x == R(k - 1)
             y == C(k)
  <2> HIDE DEF R, x, y
  <2>6. /\ Cardinality(x \cup y) = Cardinality(x) + Cardinality(y) - Cardinality(x \cap y)
        /\ IsFiniteSet(x \cap y)
    BY <2>5, FS_Union, FS_Intersection DEF x, y
  <2>7. Cardinality(x \cap y) \in Nat /\ (x \cap y = {} => Cardinality(x \cap y) = 0)
    BY <2>6, FS_CardinalityType, FS_EmptySet
  <2> QED
    BY <2>1, <2>4, <2>5, <2>6, <2>7 DEF x, y
<1> HIDE DEF R
<1> DEFINE Lower(k) == 2 * (100 * Cardinality(R(k)) - W * h[k]) <= k * W
           Upper(k) == 2 * (W * h[k] - 100 * Cardinality(R(k))) <= k * W
           G == {k \in 0..N : Lower(k)}
           D == {k \in 0..N : Upper(k)}
<1>11. Cardinality(R(0)) = 0
  <2>1. R(0) = {}
    BY DEF R
  <2> QED
    BY <2>1, FS_EmptySet
<1>12. ASSUME NEW k \in 1..N
       PROVE  \E a \in Int, b \in Int :
                /\ a = W * h[k - 1] /\ b = W * share[k] /\ W * h[k] = a + b
                /\ k * W = (k - 1) * W + W /\ (k - 1) * W \in Int
  <2>1. k - 1 \in 0..N /\ k \in Int
    BY <1>1
  <2>2. h[k - 1] \in Int /\ share[k] \in Int /\ h[k] = h[k - 1] + share[k]
    BY <1>4, <1>7, <2>1
  <2> DEFINE x == h[k - 1]
             y == share[k]
  <2> HIDE DEF x, y
  <2>3. W * (x + y) = W * x + W * y /\ W * x \in Int /\ W * y \in Int
    <3>1. x \in Int /\ y \in Int /\ W \in Int
      BY <1>2, <2>2 DEF x, y
    <3> HIDE DEF W
    <3> QED
      BY <3>1
  <2>4. k * W = (k - 1) * W + W /\ (k - 1) * W \in Int
    BY <1>2, <2>1
  <2> QED
    BY <2>2, <2>3, <2>4 DEF x, y
<1>13. N \in G
  <2>1. 0 \in G
    BY <1>1, <1>2, <1>7, <1>11
  <2>2. ASSUME NEW k \in 1..N, k - 1 \in G PROVE k \in G
    <3>1. PICK a \in Int, b \in Int :
            /\ a = W * h[k - 1] /\ b = W * share[k] /\ W * h[k] = a + b
            /\ k * W = (k - 1) * W + W /\ (k - 1) * W \in Int
      BY <1>12
    <3> DEFINE c == Cardinality(R(k))
               d == Cardinality(R(k - 1))
               e == Cardinality(C(k))
               m == (k - 1) * W
    <3>2. c \in Nat /\ d \in Nat /\ e \in Nat /\ c <= d + e
      BY <1>4, <1>9, <1>10
    <3>3. 2 * (100 * d - a) <= m
      BY <2>2, <3>1
    <3>4. 2 * (100 * e - b) <= W
      BY <1>4, <3>1
    <3> HIDE DEF c, d, e, m
    <3>5. m \in Int
      BY <3>1 DEF m
    <3>6. 2 * (100 * c - (a + b)) <= m + W
      BY <1>2, <3>2, <3>3, <3>4, <3>5
    <3>7. Lower(k)
      BY <3>1, <3>6 DEF c, m
    <3> QED
      BY <1>10, <3>7
  <2>3. N \in 0..N
    BY <1>1
  <2> HIDE DEF G
  <2> QED
    BY <1>1, <2>1, <2>2, <2>3, UpTo
<1>14. ASSUME ~Intercept(schedule) PROVE N \in D
  <2>1. 0 \in D
    BY <1>1, <1>2, <1>7, <1>11
  <2>2. ASSUME NEW k \in 1..N PROVE R(k - 1) \cap C(k) = {}
    <3> SUFFICES ASSUME NEW t \in A, NEW n \in 1..(k - 1), t \in C(n), t \in C(k) PROVE FALSE
      BY <1>4 DEF R
    <3>1. n \in 1..N /\ n # k
      BY <1>1
    <3>2. ASSUME NEW j \in 1..N, t \in C(j) PROVE Covers(<<schedule[j]>>, t[1], t[2])
      <4> DEFINE i == schedule[j]
      <4>1. t \in i.days \X (i.start .. EndOf(i) - 1)
        BY <3>2 DEF C, Cells
      <4>2. i.start \in Int /\ EndOf(i) \in Int
        <5>1. Points \in Nat \ {0, 1} /\ TimePoints = 0 .. Points - 1
          BY ScheduleAssumption DEF TimePoints
        <5>2. i.start \in TimePoints /\ i.stop \in TimePoints
          BY <1>1 DEF Parts, ScheduleItem
        <5> QED
          BY <5>1, <5>2 DEF EndOf
      <4> HIDE DEF i
      <4>3. t[1] \in i.days /\ i.start <= t[2] /\ t[2] < EndOf(i)
        BY <4>1, <4>2
      <4>4. Len(<<i>>) = 1 /\ <<i>>[1] = i /\ 1 \in 1..1
        OBVIOUS
      <4> QED
        BY <4>3, <4>4 DEF Covers, i
    <3> QED
      BY <1>1, <1>14, <3>1, <3>2 DEF Intercept, A
  <2>3. ASSUME NEW k \in 1..N, k - 1 \in D PROVE k \in D
    <3>1. PICK a \in Int, b \in Int :
            /\ a = W * h[k - 1] /\ b = W * share[k] /\ W * h[k] = a + b
            /\ k * W = (k - 1) * W + W /\ (k - 1) * W \in Int
      BY <1>12
    <3> DEFINE c == Cardinality(R(k))
               d == Cardinality(R(k - 1))
               e == Cardinality(C(k))
               m == (k - 1) * W
    <3>2. c \in Nat /\ d \in Nat /\ e \in Nat /\ c = d + e
      BY <1>4, <1>9, <1>10, <2>2
    <3>3. 2 * (a - 100 * d) <= m
      BY <2>3, <3>1
    <3>4. 2 * (b - 100 * e) <= W
      BY <1>4, <3>1
    <3> HIDE DEF c, d, e, m
    <3>5. m \in Int
      BY <3>1 DEF m
    <3>6. 2 * ((a + b) - 100 * c) <= m + W
      BY <1>2, <3>2, <3>3, <3>4, <3>5
    <3>7. Upper(k)
      BY <3>1, <3>6 DEF c, m
    <3> QED
      BY <1>10, <3>7
  <2>4. N \in 0..N
    BY <1>1
  <2> HIDE DEF D
  <2> QED
    BY <1>1, <2>1, <2>3, <2>4, UpTo
<1>15. h[N] = Coverage(schedule)
  BY <1>6, <1>7
<1> QED
  BY <1>8, <1>13, <1>14, <1>15 DEF CostsItsRunningTime, N, W

LEMMA FlattenOne ==
  ASSUME NEW S, NEW list \in Seq(S)
  PROVE  FlattenSeq(<<list>>) = list
<1> DEFINE T == Seq(S)
<1>1. << >> \o list = list
  OBVIOUS
<1>2. <<list>> \in Seq(T) /\ Len(<<list>>) = 1 /\ <<list>>[1] = list
  OBVIOUS
<1>3. PICK h \in [0..1 -> T] :
        /\ h[0] = << >> /\ FlattenSeq(<<list>>) = h[1]
        /\ \A n \in 1..1 : h[n] = h[n - 1] \o <<list>>[n]
  BY <1>2, FlattenSteps
<1>4. h[1] = h[0] \o list
  BY <1>2, <1>3
<1> QED
  BY <1>1, <1>3, <1>4

\* The pairs of shapes of which the first is cheaper, an unknown price being the highest.
Cheaper(S) ==
  {p \in S \X S : Price[p[1].name] # 0 /\ (Price[p[2].name] = 0 \/ Price[p[1].name] < Price[p[2].name])}

LEMMA CheaperOrders ==
  ASSUME NEW S \in SUBSET Shapes
  PROVE  Orders(Cheaper(S), S)
<1>1. \A x \in S : Price[x.name] \in Nat
  BY PriceAssumption DEF Shapes
<1>2. \A x, y \in S : <<x, y>> \in Cheaper(S) <=>
        Price[x.name] # 0 /\ (Price[y.name] = 0 \/ Price[x.name] < Price[y.name])
  BY DEF Cheaper
<1> QED
  BY <1>1, <1>2 DEF Orders

\* The first shape with a price, of those that are sorted by it, is the cheapest.
LEMMA FirstIsCheapest ==
  ASSUME NEW q, q.by_price, NEW clean \in Seq(Shapes), NEW shapes, shapes = sort_shapes(clean, q),
         Priced(shapes) # << >>
  PROVE  /\ Priced(shapes) \in Seq(Shapes)
         /\ \A n \in DOMAIN Priced(shapes) : Price[Priced(shapes)[1].name] <= Price[Priced(shapes)[n].name]
<1> DEFINE S == ToSet(clean)
           kept == {s \in ToSet(shapes) : Price[s.name] # 0}
           priced == Priced(shapes)
<1>1. S \in SUBSET Shapes /\ clean \in Seq(S)
  <2>1. DOMAIN clean = 1..Len(clean) /\ Len(clean) \in Nat /\ \A n \in DOMAIN clean : clean[n] \in Shapes
    OBVIOUS
  <2>2. S \in SUBSET Shapes /\ \A n \in DOMAIN clean : clean[n] \in S
    BY <2>1 DEF ToSet
  <2> HIDE DEF S
  <2> QED
    BY <2>1, <2>2
<1>2. shapes = Sorted(clean, Cheaper(S))
  BY DEF sort_shapes, Cheaper
<1> HIDE DEF S
<1>3. InOrder(shapes, Cheaper(S)) /\ shapes \in Seq(S)
  BY <1>1, <1>2, CheaperOrders, SortedOrder, SortedElements
<1>4. priced = Filtered(shapes, kept)
  BY DEF Priced
<1>5. priced \in Seq(S) /\ ToSet(priced) \subseteq ToSet(shapes) \cap kept
  <2> HIDE DEF kept
  <2>1. Filtered(shapes, kept) \in Seq(S) /\ ToSet(Filtered(shapes, kept)) = ToSet(shapes) \cap kept
    BY <1>3, FilteredElements
  <2> HIDE DEF priced
  <2> QED
    BY <1>4, <2>1
<1>6. PICK n \in DOMAIN shapes :
        /\ priced[1] = shapes[n] /\ shapes[n] \in kept
        /\ \A m \in 1..(n - 1) : shapes[m] \notin kept
  <2> HIDE DEF kept
  <2> QED
    BY <1>3, <1>4, FilteredFirst
<1>7. priced \in Seq(Shapes)
  BY <1>1, <1>5
<1>8. ASSUME NEW k \in DOMAIN priced PROVE Price[priced[1].name] <= Price[priced[k].name]
  <2>1. priced[k] \in kept /\ priced[k] \in ToSet(shapes)
    BY <1>5 DEF ToSet
  <2>2. PICK j \in DOMAIN shapes : shapes[j] = priced[k]
    BY <2>1 DEF ToSet
  <2>3. DOMAIN shapes = 1..Len(shapes) /\ Len(shapes) \in Nat /\ \A m \in DOMAIN shapes : shapes[m] \in S
    BY <1>3
  <2>4. j >= n
    <3> HIDE DEF kept
    <3> QED
      BY <1>6, <2>1, <2>2, <2>3
  <2>5. Price[shapes[n].name] \in Nat /\ Price[shapes[j].name] \in Nat /\ Price[shapes[j].name] # 0
    BY <1>1, <2>1, <2>2, <2>3, PriceAssumption DEF Shapes
  <2>6. CASE j = n
    BY <1>6, <2>2, <2>5, <2>6
  <2>7. CASE n < j
    <3>1. <<shapes[j], shapes[n]>> \notin Cheaper(S)
      BY <1>3, <2>7 DEF InOrder
    <3>2. ~ (Price[shapes[j].name] < Price[shapes[n].name])
      BY <2>3, <2>5, <3>1 DEF Cheaper
    <3> QED
      BY <1>6, <2>2, <2>5, <3>2
  <2> QED
    BY <2>3, <2>4, <2>6, <2>7
<1> QED
  BY <1>7, <1>8

\* A question about shapes is answered with one of these actions.
LEMMA ResizeActions ==
  ASSUME NEW trends
  PROVE  Action(trends) \in {SPLIT, NONE, "SCALE_DOWN", "SCALE_UP", "CHANGE_SHAPE"}
  BY DEF Action, get_resize_action

\* With one action that is not a shutdown, the options are those of its calculator.
LEMMA OneAction ==
  ASSUME NEW q, NEW a, q.actions = <<a>>, a # "SHUTDOWN", NEW S, calculator(a, q) \in Seq(S),
         calculate_savings(q) # << >>
  PROVE  /\ calculate_savings(q) = Sorted(calculator(a, q), {p \in ToSet(calculator(a, q)) \X ToSet(calculator(a, q)) : p[1].cost < p[2].cost})
         /\ calculate_savings(q) \in Seq(S) /\ ToSet(calculate_savings(q)) = ToSet(calculator(a, q))
<1> DEFINE list == calculator(a, q)
           actions == IF "SHUTDOWN" \in ToSet(q.actions) THEN Append(q.actions, "SCALE_DOWN") ELSE q.actions
           lists == [n \in DOMAIN actions |-> calculator(actions[n], q)]
<1>1. actions = <<a>>
  BY DEF ToSet
<1> HIDE DEF actions
<1>2. DOMAIN actions = 1..1 /\ actions[1] = a
  BY <1>1
<1>3. DOMAIN lists = 1..1 /\ lists[1] = list
  BY <1>2
<1>4. lists = <<list>>
  <2> HIDE DEF list
  <2>1. lists = [n \in 1..1 |-> list]
    BY <1>2 DEF list
  <2> QED
    BY <2>1
<1>5. FlattenSeq(lists) = list
  BY <1>4, FlattenOne
<1> DEFINE before == {p \in ToSet(list) \X ToSet(list) : p[1].cost < p[2].cost}
<1>6. calculate_savings(q) = Sorted(list, before)
  <2> DEFINE options == FlattenSeq(lists)
  <2>1. calculate_savings(q) = IF Price[q.current] = 0 THEN << >>
          ELSE Sorted(options, {p \in ToSet(options) \X ToSet(options) : p[1].cost < p[2].cost})
    BY DEF calculate_savings, actions
  <2> HIDE DEF options, list, lists
  <2>2. options = list
    BY <1>5 DEF options
  <2> QED
    BY <2>1, <2>2
<1> HIDE DEF before, list
<1> QED
  BY <1>6, SortedElements DEF before, list

\* The options of changing to a shape come in the order of the shapes that have a price.
ChangesTo(a, S) == {Option(a, s.name, 100 * Price[s.name]) : s \in S}

LEMMA ResizeOptions ==
  ASSUME NEW a, NEW shapes, NEW S, Priced(shapes) \in Seq(S)
  PROVE  LET list == _calculate_resize_saving(a, shapes)
         IN  /\ list \in Seq(ChangesTo(a, S))
             /\ Len(list) = Len(Priced(shapes))
             /\ \A n \in DOMAIN list : list[n] = Option(a, Priced(shapes)[n].name, 100 * Price[Priced(shapes)[n].name])
<1> DEFINE priced == Priced(shapes)
           T == ChangesTo(a, S)
           list == [n \in DOMAIN priced |-> Option(a, priced[n].name, 100 * Price[priced[n].name])]
<1>1. _calculate_resize_saving(a, shapes) = list
  BY DEF _calculate_resize_saving
<1>2. DOMAIN priced = 1..Len(priced) /\ Len(priced) \in Nat /\ \A n \in DOMAIN priced : priced[n] \in S
  OBVIOUS
<1>3. \A n \in DOMAIN priced : list[n] \in T
  BY <1>2 DEF ChangesTo
<1> HIDE DEF T
<1>4. list \in [1..Len(priced) -> T]
  BY <1>2, <1>3
<1>5. \A n \in DOMAIN list : list[n] = Option(a, priced[n].name, 100 * Price[priced[n].name])
  OBVIOUS
<1> HIDE DEF list, priced
<1>6. list \in Seq(T) /\ Len(list) = Len(priced)
  BY <1>2, <1>4
<1> QED
  BY <1>1, <1>5, <1>6 DEF T, priced

LEMMA FirstShapeSaves ==
  ASSUME NEW q, \E s \in Shapes : s.name = q.current, q.loads \in Seq([Metrics -> Int]), q.max_results \in Nat
  PROVE  FirstShapeSavesMost(q, RecommendedShapes(q))
<1> DEFINE shapes == RecommendedShapes(q)
           a == Action(Trends(q.loads))
           r == [actions |-> <<a>>, current |-> q.current, shapes |-> shapes,
                 share |-> [n \in DOMAIN shapes |-> 100 \div Len(shapes)], schedule |-> AlwaysRun]
           options == calculate_savings(r)
           list == calculator(a, r)
<1>1. SUFFICES ASSUME q.by_price, options # << >>, options[1].target # NONE
               PROVE  options[1].target = Priced(shapes)[1].name
  BY DEF FirstShapeSavesMost
<1>2. a \in {SPLIT, NONE, "SCALE_DOWN", "SCALE_UP", "CHANGE_SHAPE"}
  BY ResizeActions
<1> HIDE DEF a
<1>3. r.actions = <<a>> /\ r.shapes = shapes /\ a # "SHUTDOWN"
  BY <1>2 DEF SPLIT, NONE
<1> HIDE DEF shapes, r
<1>4. CASE a = NONE
  <2>1. list = << >>
    BY <1>4 DEF calculator, NONE, SPLIT
  <2>2. list \in Seq({}) /\ options # << >>
    BY <1>1, <2>1
  <2>3. options \in Seq({})
    <3> HIDE DEF options
    <3> QED
      BY <1>3, <2>2, OneAction DEF options
  <2> HIDE DEF options, list
  <2> QED
    BY <2>2, <2>3
<1>5. CASE a = SPLIT
  <2> DEFINE o == Option(SPLIT, NONE, Total([n \in DOMAIN r.shapes |-> r.share[n] * Price[r.shapes[n].name]]))
  <2>1. list = _calculate_split_saving(r.shapes, r.share)
    BY <1>5 DEF calculator, SPLIT
  <2>2. list = << >> \/ list = <<o>>
    BY <2>1 DEF _calculate_split_saving
  <2>3. o.target = NONE
    BY DEF Option
  <2> HIDE DEF o, list
  <2>4. list \in Seq({o})
    <3>1. << >> \in Seq({o}) /\ <<o>> \in Seq({o})
      OBVIOUS
    <3> QED
      BY <2>2, <3>1
  <2>5. options \in Seq({o})
    BY <1>1, <1>3, <2>4, OneAction DEF list
  <2> HIDE DEF options
  <2>6. options[1] = o
    BY <1>1, <2>5
  <2> QED
    BY <1>1, <2>3, <2>6
<1>6. CASE a \in {"SCALE_DOWN", "SCALE_UP", "CHANGE_SHAPE"}
  <2> DEFINE priced == Priced(shapes)
             before == {p \in ToSet(list) \X ToSet(list) : p[1].cost < p[2].cost}
             T == ChangesTo(a, Shapes)
  <2>1. list = _calculate_resize_saving(a, shapes)
    BY <1>3, <1>6 DEF calculator, SPLIT
  <2>2. PICK clean \in Seq(Recommendable(q)) : shapes = sort_shapes(clean, q)
    BY RecommendedShapesElements DEF shapes
  <2>3. clean \in Seq(Shapes)
    <3>1. Recommendable(q) \subseteq Shapes
      BY DEF Recommendable, Advisable, Bearing
    <3> QED
      BY <2>2, <3>1
  <2>4. priced \in Seq(Shapes)
    <3>1. shapes \in Seq(Shapes)
      BY <2>2, <2>3, SortedElements DEF sort_shapes
    <3> QED
      BY <3>1, FilteredElements DEF Priced
  <2>5. /\ list \in Seq(T) /\ Len(list) = Len(priced)
        /\ \A n \in DOMAIN list : list[n] = Option(a, priced[n].name, 100 * Price[priced[n].name])
    <3> HIDE DEF list, priced
    <3> QED
      BY <2>1, <2>4, ResizeOptions DEF priced
  <2> HIDE DEF T
  <2>6. options = Sorted(list, before) /\ ToSet(options) = ToSet(list) /\ options \in Seq(T)
    BY <1>1, <1>3, <2>5, OneAction
  <2> HIDE DEF options, list, before, priced
  <2>7. options # << >> /\ list # << >> /\ priced # << >>
    <3>1. options # << >> /\ options[1] \in ToSet(options)
      BY <1>1, <2>6 DEF ToSet
    <3>2. DOMAIN list # {}
      BY <2>6, <3>1 DEF ToSet
    <3> QED
      BY <2>4, <2>5, <3>1, <3>2
  <2>8. \A n \in DOMAIN priced : Price[priced[1].name] <= Price[priced[n].name]
    BY <1>1, <2>2, <2>3, <2>7, FirstIsCheapest DEF priced
  <2>9. DOMAIN list = 1..Len(list) /\ Len(list) \in Nat /\ Len(list) # 0 /\ DOMAIN priced = 1..Len(list)
        /\ \A n \in DOMAIN priced : Price[priced[n].name] \in Nat
    <3>1. DOMAIN list = 1..Len(list) /\ Len(list) \in Nat /\ DOMAIN priced = 1..Len(list)
      BY <2>4, <2>5
    <3>2. Len(list) # 0
      BY <2>5, <2>7
    <3>3. \A n \in DOMAIN priced : priced[n] \in Shapes
      BY <2>4
    <3> QED
      BY <3>1, <3>2, <3>3, PriceAssumption DEF Shapes
  <2>10. \A n \in DOMAIN list : <<list[n], list[1]>> \notin before
    <3> TAKE n \in DOMAIN list
    <3>1. list[n].cost = 100 * Price[priced[n].name] /\ list[1].cost = 100 * Price[priced[1].name]
      BY <2>5, <2>9 DEF Option
    <3>2. ~ (list[n].cost < list[1].cost)
      BY <2>8, <2>9, <3>1
    <3> QED
      BY <3>2 DEF before
  <2>11. options[1] = list[1]
    BY <2>5, <2>6, <2>7, <2>10, SortedFirst
  <2>12. list[1].target = priced[1].name
    BY <2>5, <2>9 DEF Option
  <2> QED
    BY <2>11, <2>12 DEF priced
<1> QED
  BY <1>2, <1>4, <1>5, <1>6

-----------------------------------------------------------------------------
(* Autoscaling groups                                                      *)

\* Of some numbers of a list one is the greatest.
LEMMA Greatest ==
  ASSUME NEW N \in Nat, NEW d \in [1..N -> Nat], NEW J \in SUBSET (1..N), J # {}
  PROVE  \E m \in J : \A k \in J : d[k] <= d[m]
<1> DEFINE G == {n \in 0..N : \A K \in SUBSET (1..n) : K # {} => \E m \in K : \A k \in K : d[k] <= d[m]}
<1>1. 0 \in G
  <2>1. 1..0 = {} /\ 0 \in 0..N
    OBVIOUS
  <2> QED
    BY <2>1
<1>2. ASSUME NEW n \in 1..N, n - 1 \in G PROVE n \in G
  <2>1. n \in 0..N /\ 1..n = 1..(n - 1) \cup {n} /\ 1..n \subseteq 1..N
    OBVIOUS
  <2>2. ASSUME NEW K \in SUBSET (1..n), K # {} PROVE \E m \in K : \A k \in K : d[k] <= d[m]
    <3> DEFINE L == K \ {n}
    <3>1. L \in SUBSET (1..(n - 1)) /\ \A k \in K : k \in L \/ k = n
      BY <2>1
    <3>2. \A k \in K : d[k] \in Nat
      BY <2>1
    <3>3. CASE L = {}
      <4>1. n \in K /\ \A k \in K : k = n
        BY <2>2, <3>1, <3>3
      <4> QED
        BY <3>2, <4>1
    <3>4. CASE L # {}
      <4>1. PICK m \in L : \A k \in L : d[k] <= d[m]
        BY <1>2, <3>1, <3>4
      <4>2. CASE n \notin K \/ d[n] <= d[m]
        BY <3>1, <4>1, <4>2
      <4>3. CASE n \in K /\ ~(d[n] <= d[m])
        <5>1. \A k \in L : k \in K /\ d[k] <= d[n]
          BY <3>2, <4>1, <4>3
        <5>2. d[n] <= d[n]
          BY <3>2, <4>3
        <5> QED
          BY <3>1, <4>3, <5>1, <5>2
      <4> QED
        BY <4>2, <4>3
    <3> QED
      BY <3>3, <3>4
  <2> QED
    BY <2>1, <2>2
<1>3. N \in G
  <2> HIDE DEF G
  <2>1. N \in 0..N
    OBVIOUS
  <2> QED
    BY <1>1, <1>2, <2>1, UpTo
<1> QED
  BY <1>3

\* A group's resources are a list of members.
LEMMA GroupFields ==
  ASSUME NEW g \in ScalingGroup
  PROVE  /\ g.resources \in Seq(Member) /\ Len(g.resources) \in Nat
         /\ DOMAIN g.resources = 1..Len(g.resources)
         /\ \A i \in DOMAIN g.resources : g.resources[i] \in Member
         /\ g.min \in Nat /\ g.max \in Nat /\ g.step \in Nat /\ g.min + g.max > 1
         /\ g.desired \in Nat
  BY DEF ScalingGroup

\* No two types are the most frequent.
LEMMA OneType ==
  ASSUME NEW g \in ScalingGroup, NEW t \in _find_non_matching_autoscaling_resources(g)
  PROVE  _find_non_matching_autoscaling_resources(g) = {t}
<1>1. \A o : IsFiniteSet(OfType(g, o)) /\ Cardinality(OfType(g, o)) \in Nat
  <2> TAKE o
  <2>1. OfType(g, o) \subseteq 1..Len(g.resources)
    BY GroupFields DEF OfType, Loaded
  <2>2. IsFiniteSet(1..Len(g.resources))
    BY GroupFields, FS_Interval
  <2> QED
    BY <2>1, <2>2, FS_Subset, FS_CardinalityType
<1>2. ASSUME NEW o \in _find_non_matching_autoscaling_resources(g), o # t PROVE FALSE
  <2>1. o \in Types(g) \ {t} /\ t \in Types(g) \ {o}
    BY <1>2 DEF _find_non_matching_autoscaling_resources
  <2>2. /\ Cardinality(OfType(g, t)) > Cardinality(OfType(g, o))
        /\ Cardinality(OfType(g, o)) > Cardinality(OfType(g, t))
    BY <2>1 DEF _find_non_matching_autoscaling_resources
  <2> QED
    BY <1>1, <2>2
<1> QED
  BY <1>2

\* The resources that run, as process_autoscaling_group finds them.
Targets(g, t) == _filter_outdated_resources(g, OfType(g, t))
PeerSet(g) ==
  LET newest == Max({g.resources[i].day : i \in {i \in Loaded(g) :
                   g.resources[i].type \in _find_non_matching_autoscaling_resources(g)}})
  IN  {r \in ToSet(g.resources) :
        ~r.failed /\ r.day = newest /\ r.type \in _find_non_matching_autoscaling_resources(g)}

LEMMA TargetsArePeers ==
  ASSUME NEW g \in ScalingGroup, NEW t \in _find_non_matching_autoscaling_resources(g)
  PROVE  /\ Targets(g, t) = Kept(g.resources, PeerSet(g))
         /\ Targets(g, t) \subseteq OfType(g, t) /\ Targets(g, t) # {}
         /\ Peers(g) = Filtered(g.resources, PeerSet(g))
<1> DEFINE N == Len(g.resources)
           d == [i \in 1..N |-> g.resources[i].day]
           J == OfType(g, t)
           D == {g.resources[i].day : i \in J}
           last == Max(D)
<1>1. _find_non_matching_autoscaling_resources(g) = {t} /\ t \in Types(g)
  BY OneType DEF _find_non_matching_autoscaling_resources
<1>2. N \in Nat /\ DOMAIN g.resources = 1..N /\ \A i \in 1..N : g.resources[i] \in Member
  BY GroupFields
<1>3. d \in [1..N -> Nat] /\ \A i \in 1..N : d[i] = g.resources[i].day
  BY <1>2 DEF Member
<1>4. J \in SUBSET (1..N) /\ J # {}
  BY <1>1, <1>2 DEF OfType, Types, Loaded
<1>5. J = {i \in Loaded(g) : g.resources[i].type \in _find_non_matching_autoscaling_resources(g)}
  BY <1>1 DEF OfType
<1> HIDE DEF J, N, d
<1>6. PICK m \in J : \A k \in J : d[k] <= d[m]
  BY <1>2, <1>3, <1>4, Greatest
<1>7. last \in D /\ \A x \in D : last >= x
  <2>1. d[m] \in D /\ \A x \in D : d[m] >= x
    BY <1>3, <1>4, <1>6
  <2> HIDE DEF D
  <2> QED
    BY <2>1 DEF Max
<1>8. \A i \in J : g.resources[i].day \in Nat /\ g.resources[i].day \in D
  BY <1>2, <1>4 DEF Member
<1>9. last \in Nat /\ \E i \in J : g.resources[i].day = last
  <2> HIDE DEF last
  <2> QED
    BY <1>7, <1>8
<1> DEFINE M == {r \in ToSet(g.resources) : ~r.failed /\ r.day = last /\ r.type \in {t}}
<1>10. PeerSet(g) = M
  BY <1>1, <1>5 DEF PeerSet
<1>11. Targets(g, t) = {i \in J : g.resources[i].day >= last}
  BY DEF Targets, _filter_outdated_resources, J
<1>12. \A i \in J : g.resources[i].day >= last <=> g.resources[i].day = last
  <2> HIDE DEF last, D
  <2> QED
    BY <1>7, <1>8, <1>9
<1> HIDE DEF last, D
<1>13. \A i \in DOMAIN g.resources : i \in J <=> ~g.resources[i].failed /\ g.resources[i].type = t
  BY DEF J, OfType, Loaded
<1>14. \A i \in DOMAIN g.resources : g.resources[i] \in ToSet(g.resources)
  BY DEF ToSet
<1>15. Kept(g.resources, M) = {i \in J : g.resources[i].day >= last}
  BY <1>2, <1>4, <1>12, <1>13, <1>14 DEF Kept
<1>16. Targets(g, t) \subseteq J /\ Targets(g, t) # {}
  BY <1>9, <1>11, <1>12
<1> QED
  BY <1>10, <1>11, <1>15, <1>16 DEF Peers, PeerSet, J

LEMMA RoundedInt ==
  ASSUME NEW n \in Int, NEW d \in Nat \ {0}
  PROVE  Round(n, d) \in Int
<1>1. n \div d \in Int
  BY Z3
<1> QED
  BY <1>1 DEF Round

\* What is recommended follows the action, for any number of instances.
LEMMA ScaledNumbers ==
  ASSUME NEW g \in ScalingGroup, NEW targets, Cardinality(targets) \in Nat \ {0}, TotalLoad(g, targets) \in Int
  PROVE  LET n == Cardinality(targets)
             scaled == Scaled(g, targets)
         IN  /\ scaled.action \in {"SCALE_UP", "SCALE_DOWN", "NO_ACTION"} /\ scaled.current = n
             /\ scaled.recommended \in Int
             /\ scaled.action = "SCALE_UP" => scaled.recommended >= n
             /\ scaled.action = "SCALE_DOWN" => scaled.recommended <= n
             /\ scaled.action = "NO_ACTION" => scaled.recommended = n
<1> DEFINE n == Cardinality(targets)
           scaled == Scaled(g, targets)
           action == get_autoscaling_group_scale_action(g, targets)
           auto == _get_autoscaling_scale_step(g, targets)
           step == IF action = "NO_ACTION" THEN 0 ELSE auto
           mean == Round(g.min + g.max, 2)
           desired == IF g.desired # NotStored THEN g.desired ELSE mean
           share == Round(10000, desired)
           load == TotalLoad(g, targets)
           needed == Round(load * share, 10000)
<1>1. g.min + g.max \in Nat /\ g.min + g.max > 1 /\ g.step \in Nat
  BY GroupFields
<1>2. desired \in Nat \ {0}
  <2> DEFINE both == g.min + g.max
  <2>1. both \in Nat /\ both > 1
    BY <1>1
  <2> HIDE DEF both
  <2>2. Round(both, 2) \in Int /\ 2 * (both - 2 * Round(both, 2)) <= 2
    BY <2>1, Rounding
  <2>3. mean \in Nat \ {0}
    BY <2>1, <2>2 DEF both
  <2> HIDE DEF mean
  <2> QED
    BY <2>3, GroupFields DEF NotStored
<1> HIDE DEF desired, mean, load
<1>3. share \in Int
  BY <1>2, RoundedInt
<1> HIDE DEF share
<1>4. needed \in Int
  BY <1>3, RoundedInt DEF load
<1>5. auto = IF g.step # AutoDetect THEN g.step ELSE IF n - needed < 0 THEN -(n - needed) ELSE n - needed
  BY DEF _get_autoscaling_scale_step, _get_autoscaling_thresholds, desired, mean, share, load
<1> HIDE DEF needed
<1>6. step \in Nat
  BY <1>1, <1>4, <1>5
<1>7. action \in {"SCALE_UP", "SCALE_DOWN", "NO_ACTION"}
  BY DEF get_autoscaling_group_scale_action
<1>8. scaled = IF action = "SCALE_DOWN" /\ step >= n
               THEN IF g.step = AutoDetect THEN format_autoscaling_recommendation("SCALE_DOWN", n, n - 1)
                    ELSE format_autoscaling_recommendation("NO_ACTION", n, 0)
               ELSE format_autoscaling_recommendation(action, n, step)
  BY DEF Scaled, Blocked
<1> HIDE DEF action, step, scaled
<1>9. ASSUME NEW k \in Int
      PROVE  /\ format_autoscaling_recommendation("SCALE_UP", n, k) = [action |-> "SCALE_UP", current |-> n, recommended |-> n + k]
             /\ format_autoscaling_recommendation("SCALE_DOWN", n, k) = [action |-> "SCALE_DOWN", current |-> n, recommended |-> n - k]
             /\ format_autoscaling_recommendation("NO_ACTION", n, k) = [action |-> "NO_ACTION", current |-> n, recommended |-> n]
  BY DEF format_autoscaling_recommendation
<1>10. CASE action = "SCALE_DOWN" /\ step >= n
  <2>1. n - 1 \in Int /\ n - (n - 1) <= n
    OBVIOUS
  <2> QED
    BY <1>6, <1>8, <1>9, <1>10, <2>1 DEF scaled
<1>11. CASE action = "SCALE_DOWN" /\ ~(step >= n)
  BY <1>6, <1>8, <1>9, <1>11 DEF scaled
<1>12. CASE action = "SCALE_UP"
  BY <1>6, <1>8, <1>9, <1>12 DEF scaled
<1>13. CASE action = "NO_ACTION"
  BY <1>6, <1>8, <1>9, <1>13 DEF scaled
<1> QED
  BY <1>7, <1>10, <1>11, <1>12, <1>13

LEMMA ScaledAlike ==
  ASSUME NEW g, NEW h, h.min = g.min, h.max = g.max, h.step = g.step,
         h.desired = g.desired, NEW T, NEW U,
         Cardinality(U) = Cardinality(T), TotalLoad(h, U) = TotalLoad(g, T)
  PROVE  Scaled(h, U) = Scaled(g, T)
<1>1. get_autoscaling_group_scale_action(h, U) = get_autoscaling_group_scale_action(g, T)
  BY DEF get_autoscaling_group_scale_action
<1>2. _get_autoscaling_scale_step(h, U) = _get_autoscaling_scale_step(g, T)
  BY DEF _get_autoscaling_scale_step, _get_autoscaling_thresholds
<1> QED
  BY <1>1, <1>2 DEF Scaled

\* The resources that run are as many, and have as much load, alone as among the others.
LEMMA PeersAlone ==
  ASSUME NEW g \in ScalingGroup, NEW t \in _find_non_matching_autoscaling_resources(g)
  PROVE  LET targets == Targets(g, t)
             alone == [g EXCEPT !.resources = Peers(g)]
         IN  /\ Len(Peers(g)) = Cardinality(targets) /\ Cardinality(targets) \in Nat \ {0}
             /\ TotalLoad(g, targets) \in Int
             /\ Scaled(alone, DOMAIN Peers(g)) = Scaled(g, targets)
<1> DEFINE list == g.resources
           kept == PeerSet(g)
           peers == Peers(g)
           targets == Targets(g, t)
           w == [r \in Member |-> r.load]
           alone == [g EXCEPT !.resources = peers]
<1>1. list \in Seq(Member) /\ DOMAIN list = 1..Len(list) /\ Len(list) \in Nat /\ \A i \in DOMAIN list : list[i] \in Member
  BY GroupFields
<1>2. targets = Kept(list, kept) /\ peers = Filtered(list, kept)
  BY TargetsArePeers
<1>3. w \in [Member -> Int] /\ \A r \in Member : w[r] = r.load
  BY DEF Member
<1>4. /\ alone.resources = peers /\ alone.min = g.min /\ alone.max = g.max /\ alone.step = g.step
      /\ alone.desired = g.desired
  BY DEF ScalingGroup
<1> HIDE DEF list, kept, peers, targets, w, alone
<1>5. /\ IsFiniteSet(targets) /\ Len(peers) = Cardinality(targets)
      /\ Total(Weights(peers, w)) = Total(KeptWeights(list, kept, w))
  BY <1>1, <1>2, <1>3, FilteredCounts
<1>6. peers \in Seq(Member) /\ DOMAIN peers = 1..Len(peers) /\ Len(peers) \in Nat /\ \A i \in DOMAIN peers : peers[i] \in Member
  <2>1. peers \in Seq(Member)
    BY <1>1, <1>2, FilteredElements
  <2> QED
    BY <2>1
<1>7. TotalLoad(alone, DOMAIN peers) = Total(Weights(peers, w))
  <2>1. [i \in DOMAIN peers |-> IF i \in DOMAIN peers THEN peers[i].load ELSE 0] = [i \in DOMAIN peers |-> w[peers[i]]]
    BY <1>3, <1>6
  <2> QED
    BY <1>4, <2>1 DEF TotalLoad, Weights
<1>8. TotalLoad(g, targets) = Total(KeptWeights(list, kept, w))
  <2>1. [i \in DOMAIN list |-> IF i \in targets THEN list[i].load ELSE 0]
          = [i \in DOMAIN list |-> IF i \in targets THEN w[list[i]] ELSE 0]
    BY <1>1, <1>3
  <2> QED
    BY <1>2, <2>1 DEF TotalLoad, KeptWeights, list
<1>9. TotalLoad(g, targets) \in Int
  <2> DEFINE weights == [i \in DOMAIN list |-> IF i \in targets THEN list[i].load ELSE 0]
  <2>1. weights \in [1..Len(list) -> Int]
    BY <1>1 DEF Member
  <2> HIDE DEF weights
  <2>2. weights \in Seq(Int)
    BY <1>1, <2>1, FunctionIsList
  <2>3. Total(weights) \in Int
    BY <2>2, TotalAppended
  <2> QED
    BY <2>3 DEF TotalLoad, weights, list
<1>10. Cardinality(DOMAIN peers) = Len(peers)
  BY <1>6, FS_Interval
<1>11. Cardinality(targets) \in Nat \ {0}
  <2>1. targets # {}
    BY TargetsArePeers DEF targets
  <2> QED
    BY <1>5, <2>1, FS_CardinalityType, FS_EmptySet
<1>12. Scaled(alone, DOMAIN peers) = Scaled(g, targets)
  BY <1>4, <1>5, <1>7, <1>8, <1>10, ScaledAlike
<1> QED
  BY <1>5, <1>9, <1>11, <1>12 DEF alone, peers, targets

\* A group's recommendation is for the resources that run, and is repeated while it cools down.
LEMMA PeersCount ==
  ASSUME NEW g \in ScalingGroup
  PROVE  OnlyPeersCount(g, process_autoscaling_group(g))
<1> DEFINE sizing == process_autoscaling_group(g)
           types == _find_non_matching_autoscaling_resources(g)
           t == CHOOSE x \in types : TRUE
           targets == Targets(g, t)
           scaled == Scaled(g, targets)
           peers == Peers(g)
           alone == Scaled([g EXCEPT !.resources = peers], DOMAIN peers)
           next == [g EXCEPT !.last = create_group_recommendation(g, sizing)]
           again == process_autoscaling_group(next)
           members == [i \in DOMAIN g.resources |->
                         IF i \in Loaded(g) THEN dump_autoscaling_resource(g, t, targets, i)
                         ELSE dump_autoscaling_failed_resource]
<1> HIDE DEF t
<1>1. SUFFICES ASSUME New(sizing)
      PROVE  /\ sizing.current = Len(peers)
             /\ alone.action = sizing.action /\ alone.current = sizing.current /\ alone.recommended = sizing.recommended
             /\ CoolingDown(next) /\ (\A n \in DOMAIN peers : peers[n].meta) =>
                  again.current = sizing.current /\ again.recommended = sizing.recommended
  BY DEF OnlyPeersCount
<1>2. ~CoolingDown(g)
  BY <1>1 DEF New, process_autoscaling_group, dump_group_report_from_recommendation
<1>3. types # {}
  BY <1>1, <1>2 DEF New, process_autoscaling_group
<1>4. t \in types
  BY <1>3 DEF t
<1>5. sizing = [action |-> scaled.action, current |-> scaled.current, recommended |-> scaled.recommended, members |-> members]
  BY <1>2, <1>3 DEF process_autoscaling_group, Targets, t
<1>6. /\ Len(peers) = Cardinality(targets) /\ Cardinality(targets) \in Nat \ {0}
      /\ TotalLoad(g, targets) \in Int /\ alone = scaled
  BY <1>4, PeersAlone
<1> HIDE DEF scaled
<1>7. /\ scaled.action \in {"SCALE_UP", "SCALE_DOWN", "NO_ACTION"} /\ scaled.current = Cardinality(targets)
      /\ scaled.recommended \in Int
      /\ scaled.action = "SCALE_UP" => scaled.recommended >= Cardinality(targets)
      /\ scaled.action = "SCALE_DOWN" => scaled.recommended <= Cardinality(targets)
      /\ scaled.action = "NO_ACTION" => scaled.recommended = Cardinality(targets)
  BY <1>6, ScaledNumbers DEF scaled
<1> HIDE DEF sizing, targets, peers, alone, members, types
<1>8. ASSUME CoolingDown(next), \A n \in DOMAIN peers : peers[n].meta
      PROVE  again.current = Cardinality(targets) /\ again.recommended = scaled.recommended
  <2> DEFINE last == next.last
             n == Cardinality(last.members)
             step == IF n > last.recommended THEN n - last.recommended ELSE last.recommended - n
             past == format_autoscaling_recommendation(last.action, n, step)
  <2>1. last = create_group_recommendation(g, sizing)
    BY DEF ScalingGroup
  <2>2. last.action = scaled.action /\ last.recommended = scaled.recommended
        /\ last.members = {i \in DOMAIN members : members[i] = "NO_ACTION" /\ g.resources[i].meta}
    BY <1>5, <2>1 DEF create_group_recommendation
  <2>3. targets \subseteq Loaded(g) /\ targets \subseteq DOMAIN g.resources /\ \A i \in targets : g.resources[i] \in ToSet(peers)
    <3>1. targets = Kept(g.resources, PeerSet(g)) /\ targets \subseteq OfType(g, t) /\ peers = Filtered(g.resources, PeerSet(g))
      BY <1>4, TargetsArePeers DEF targets, peers, types
    <3>2. ToSet(peers) = ToSet(g.resources) \cap PeerSet(g)
      BY <3>1, GroupFields, FilteredElements
    <3>3. targets \subseteq Loaded(g) /\ targets \subseteq DOMAIN g.resources
      BY <3>1 DEF OfType, Loaded
    <3>4. \A i \in targets : g.resources[i] \in PeerSet(g) /\ g.resources[i] \in ToSet(g.resources)
      BY <3>1, <3>3 DEF Kept, ToSet
    <3> QED
      BY <3>2, <3>3, <3>4
  <2>4. \A i \in targets : g.resources[i].meta
    BY <1>8, <2>3 DEF ToSet
  <2>5. \A i \in DOMAIN g.resources : members[i] = "NO_ACTION" <=> i \in targets
    BY <2>3 DEF members, dump_autoscaling_resource, dump_autoscaling_failed_resource, Unreported
  <2>6. DOMAIN members = DOMAIN g.resources
    BY DEF members
  <2>7. last.members = targets
    BY <2>2, <2>3, <2>4, <2>5, <2>6
  <2>8. again = [action |-> "PAST", current |-> n, recommended |-> past.recommended,
                 members |-> [i \in last.members |-> "NO_ACTION"]]
    BY <1>8 DEF process_autoscaling_group, dump_group_report_from_recommendation
  <2> HIDE DEF last, again
  <2>9. past.recommended = scaled.recommended
    <3>1. n = Cardinality(targets) /\ n \in Nat /\ last.action = scaled.action /\ last.recommended = scaled.recommended
      BY <1>6, <2>2, <2>7
    <3>2. past.recommended = IF last.action = "SCALE_UP" THEN n + step
                             ELSE IF last.action = "SCALE_DOWN" THEN n - step ELSE n
      BY DEF format_autoscaling_recommendation
    <3> HIDE DEF past, n
    <3> QED
      BY <1>7, <3>1, <3>2
  <2> QED
    BY <2>7, <2>8, <2>9
<1> QED
  BY <1>5, <1>6, <1>7, <1>8

-----------------------------------------------------------------------------
(* Quotients and extremes                                                  *)

LEMMA Quotient ==
  ASSUME NEW t \in Nat, NEW s \in Nat \ {0}
  PROVE  /\ t \div s \in Nat
         /\ s * (t \div s) \in Nat
         /\ s * (t \div s) <= t /\ t < s * (t \div s) + s
         /\ t - (t % s) = s * (t \div s)
<1> DEFINE k == t \div s
           r == t % s
<1>1. k \in Int /\ r \in 0 .. s - 1 /\ t = s * k + r /\ s * k \in Int
  BY Z3
<1>2. k \in Nat
  BY Z3
<1> QED
  BY <1>1, <1>2

LEMMA Multiples ==
  ASSUME NEW s \in Nat \ {0}, NEW k \in Nat, NEW l \in Nat
  PROVE  /\ s * k \in Nat /\ s * (k + 1) = s * k + s
         /\ k < l => s * k + s <= s * l
         /\ k <= l => s * k <= s * l
  BY Z3

LEMMA QuotientIs ==
  ASSUME NEW t \in Nat, NEW s \in Nat \ {0}, NEW k \in Nat, s * k <= t, t < s * k + s
  PROVE  t \div s = k
<1> DEFINE q == t \div s
<1>1. q \in Nat /\ s * q \in Nat /\ s * q <= t /\ t < s * q + s
  BY Quotient
<1> HIDE DEF q
<1>2. s * k \in Nat /\ (q < k => s * q + s <= s * k) /\ (k < q => s * k + s <= s * q)
  BY <1>1, Multiples
<1>3. ~(q < k) /\ ~(k < q)
  BY <1>1, <1>2
<1> QED
  BY <1>1, <1>3 DEF q

LEMMA QuotientOrder ==
  ASSUME NEW t \in Nat, NEW u \in Nat, NEW s \in Nat \ {0}, t <= u
  PROVE  t \div s <= u \div s
<1> DEFINE p == t \div s
           q == u \div s
<1>1. /\ p \in Nat /\ s * p \in Nat /\ s * p <= t
      /\ q \in Nat /\ s * q \in Nat /\ u < s * q + s
  BY Quotient
<1> HIDE DEF p, q
<1>2. q < p => s * q + s <= s * p
  BY <1>1, Multiples
<1> QED
  BY <1>1, <1>2 DEF p, q

LEMMA Bottom ==
  ASSUME NEW S \in SUBSET Nat, S # {}
  PROVE  Min(S) \in S /\ Min(S) \in Nat /\ \A x \in S : Min(S) <= x
<1>1. \E m \in S : \A k \in S : m <= k
  BY Least
<1> QED
  BY <1>1 DEF Min

LEMMA Top ==
  ASSUME NEW S \in SUBSET Nat, IsFiniteSet(S), S # {}
  PROVE  Max(S) \in S /\ Max(S) \in Nat /\ \A x \in S : x <= Max(S)
<1>1. PICK n \in Nat : ExistsBijection(1..n, S)
  BY FS_CardinalityType
<1>2. PICK d : d \in Bijection(1..n, S)
  BY <1>1 DEF ExistsBijection
<1>3. d \in [1..n -> S] /\ \A x \in S : \E k \in 1..n : d[k] = x
  BY <1>2 DEF Bijection, Surjection, Injection
<1>4. d \in [1..n -> Nat] /\ 1..n # {}
  BY <1>3
<1>5. PICK m \in 1..n : \A k \in 1..n : d[k] <= d[m]
  BY <1>4, Greatest
<1>6. d[m] \in S /\ \A x \in S : d[m] >= x
  BY <1>3, <1>4, <1>5
<1>7. \E x \in S : \A y \in S : x >= y
  BY <1>6
<1>8. Max(S) \in S /\ \A y \in S : Max(S) >= y
  BY <1>7 DEF Max
<1> QED
  BY <1>8

\* What is a bound of a set and in it is its extreme.
LEMMA TopIs ==
  ASSUME NEW S \in SUBSET Int, NEW m \in S, \A x \in S : x <= m
  PROVE  Max(S) = m
<1>1. \E x \in S : \A y \in S : x >= y
  OBVIOUS
<1> DEFINE x == Max(S)
<1>2. x \in S /\ \A y \in S : x >= y
  BY <1>1 DEF Max
<1> HIDE DEF x
<1>3. x \in Int /\ m \in Int /\ x >= m /\ x <= m
  BY <1>2
<1> QED
  BY <1>3 DEF x

LEMMA BottomIs ==
  ASSUME NEW S \in SUBSET Int, NEW m \in S, \A x \in S : m <= x
  PROVE  Min(S) = m
<1>1. \E x \in S : \A y \in S : x <= y
  OBVIOUS
<1> DEFINE x == Min(S)
<1>2. x \in S /\ \A y \in S : x <= y
  BY <1>1 DEF Min
<1> HIDE DEF x
<1>3. x \in Int /\ m \in Int /\ x <= m /\ x >= m
  BY <1>2
<1> QED
  BY <1>3 DEF x

LEMMA TopOfTwo ==
  ASSUME NEW a \in Int, NEW b \in Int
  PROVE  Max({a, b}) = IF a <= b THEN b ELSE a
<1>1. {a, b} \in SUBSET Int /\ a \in {a, b} /\ b \in {a, b}
  OBVIOUS
<1>2. CASE a <= b
  <2>1. \A x \in {a, b} : x <= b
    BY <1>2
  <2> QED
    BY <1>1, <1>2, <2>1, TopIs
<1>3. CASE ~(a <= b)
  <2>1. \A x \in {a, b} : x <= a
    BY <1>3
  <2> QED
    BY <1>1, <1>3, <2>1, TopIs
<1> QED
  BY <1>2, <1>3

\* The numbers of a list that are all as great as a number have a sum as great as if they
\* were equal to it.
LEMMA TotalAtLeast ==
  ASSUME NEW list \in Seq(Int), NEW c \in Nat, \A n \in 1..Len(list) : c <= list[n]
  PROVE  Total(list) \in Int /\ c * Len(list) <= Total(list)
<1> DEFINE N == Len(list)
<1>1. N \in Nat /\ \A n \in 1..N : list[n] \in Int
  OBVIOUS
<1>2. PICK h \in [0..N -> Int] :
        /\ h[0] = 0 /\ Total(list) = h[N]
        /\ \A n \in 1..N : h[n] = h[n - 1] + list[n]
  BY TotalSteps
<1> DEFINE G == {n \in 0..N : c * n <= h[n]}
<1>3. 0 \in G
  BY <1>1, <1>2
<1>4. ASSUME NEW n \in 1..N, n - 1 \in G PROVE n \in G
  <2> DEFINE a == c * (n - 1)
             b == c * n
  <2>1. a \in Int /\ b \in Int /\ b = a + c
    BY <1>1
  <2>2. a <= h[n - 1] /\ h[n] = h[n - 1] + list[n] /\ h[n - 1] \in Int /\ c <= list[n] /\ list[n] \in Int
    BY <1>1, <1>2, <1>4
  <2> HIDE DEF a
  <2>3. b <= h[n]
    <3>1. n \in 0..N
      BY <1>1
    <3>2. h[n] \in Int
      BY <3>1
    <3> DEFINE x == h[n]
               y == h[n - 1]
               z == list[n]
    <3>3. a <= y /\ x = y + z /\ y \in Int /\ c <= z /\ z \in Int /\ x \in Int
      BY <2>2, <3>2
    <3> HIDE DEF b, x, y, z
    <3>4. b <= x
      BY <2>1, <3>3
    <3> QED
      BY <3>4 DEF x
  <2> QED
    BY <2>3
<1>5. N \in G
  <2> HIDE DEF G
  <2>1. N \in 0..N
    BY <1>1
  <2> QED
    BY <1>1, <1>3, <1>4, <2>1, UpTo
<1>6. N \in 0..N
  BY <1>1
<1> QED
  BY <1>2, <1>5, <1>6

\* The mean of such numbers is as great, and so is what it is rounded down to.
LEMMA MeanAtLeast ==
  ASSUME NEW list \in Seq(Int), NEW c \in Nat, Len(list) # 0, \A n \in 1..Len(list) : c <= list[n]
  PROVE  Total(list) \div Len(list) \in Int /\ c <= Total(list) \div Len(list)
<1> DEFINE n == Len(list)
           t == Total(list)
           q == t \div n
<1>0. n \in Nat \ {0}
  OBVIOUS
<1>1. t \in Int /\ c * n <= t /\ n \in Nat \ {0}
  <2>1. t \in Int /\ c * n <= t
    BY TotalAtLeast
  <2> QED
    BY <1>0, <2>1
<1>2. c * n \in Nat
  BY <1>1
<1> HIDE DEF t, n
<1>3. t \in Nat
  BY <1>1, <1>2
<1>4. q \in Nat /\ n * q \in Nat /\ t < n * q + n
  BY <1>1, <1>3, Quotient
<1> HIDE DEF q
<1>5. q < c => n * q + n <= n * c
  BY <1>1, <1>4, Multiples
<1>6. n * c = c * n
  BY <1>1
<1>7. c <= q
  <2> DEFINE x == n * q
             y == n * c
  <2>1. /\ x \in Nat /\ t < x + n /\ y \in Nat /\ y <= t
        /\ q < c => x + n <= y
    BY <1>1, <1>2, <1>4, <1>5, <1>6
  <2> HIDE DEF x, y
  <2> QED
    BY <1>1, <1>3, <1>4, <2>1
<1> QED
  BY <1>4, <1>7 DEF q, t, n

-----------------------------------------------------------------------------
(* What the metrics are read into                                          *)

LEMMA MergedSeries ==
  ASSUME NEW q, IsQuestion(q)
  PROVE  IsSeries(merge_metric_files(q.files))
<1> DEFINE N == Len(q.files)
           domains == {DOMAIN q.files[n] : n \in 1..N}
           of(t) == {n \in 1..N : t \in DOMAIN q.files[n]}
           all == merge_metric_files(q.files)
<1>1. N \in Nat /\ DOMAIN q.files = 1..N /\ \A n \in 1..N : IsSeries(q.files[n])
  BY DEF IsQuestion
<1>2. all = [t \in UNION domains |-> q.files[Max(of(t))][t]]
  BY <1>1 DEF merge_metric_files
<1>3. \A n \in 1..N : /\ IsFiniteSet(DOMAIN q.files[n]) /\ DOMAIN q.files[n] \subseteq Nat
                      /\ \A t \in DOMAIN q.files[n] : q.files[n][t] \in Nat \cup {NoData}
  BY <1>1 DEF IsSeries
<1>4. IsFiniteSet(UNION domains) /\ UNION domains \subseteq Nat
  <2>1. IsFiniteSet(1..N)
    BY <1>1, FS_Interval
  <2> DEFINE f == [n \in 1..N |-> DOMAIN q.files[n]]
  <2>2. f \in Surjection(1..N, domains)
    BY DEF Surjection
  <2> HIDE DEF f
  <2>3. IsFiniteSet(domains)
    <3> HIDE DEF domains
    <3> QED
      BY <2>1, <2>2, FS_Surjection
  <2>4. \A D \in domains : IsFiniteSet(D) /\ D \subseteq Nat
    BY <1>3
  <2> HIDE DEF domains
  <2> QED
    BY <2>3, <2>4, FS_UNION
<1>5. ASSUME NEW t \in UNION domains PROVE q.files[Max(of(t))][t] \in Nat \cup {NoData}
  <2>1. of(t) # {} /\ of(t) \in SUBSET Nat /\ of(t) \subseteq 1..N
    OBVIOUS
  <2>2. IsFiniteSet(of(t))
    <3>1. IsFiniteSet(1..N)
      BY <1>1, FS_Interval
    <3> HIDE DEF of
    <3> QED
      BY <2>1, <3>1, FS_Subset
  <2>3. Max(of(t)) \in of(t)
    <3> HIDE DEF of
    <3> QED
      BY <2>1, <2>2, Top
  <2> QED
    BY <1>3, <2>3
<1> HIDE DEF domains, of
<1> QED
  BY <1>2, <1>4, <1>5 DEF IsSeries

LEMMA KnownMeta ==
  ASSUME NEW entries \in Seq(MetaEntry)
  PROVE  _read_meta_file(entries) \in MetaEntry
<1> DEFINE N == Len(entries)
           T == MetaEntry
           step == [k \in 1..N |-> [known \in T |-> Updated(known, entries[k])]]
           F(f) == [n \in 0..N |-> IF n = 0 THEN NoMeta ELSE Updated(f[n - 1], entries[n])]
<1>1. N \in Nat /\ \A k \in 1..N : entries[k] \in T
  OBVIOUS
<1>2. step \in [1..N -> [T -> T]] /\ NoMeta \in T
  <2>1. \A known \in T, entry \in T : Updated(known, entry) \in T
    BY DEF Updated, MetaEntry
  <2>2. NoMeta \in T
    BY DEF NoMeta, MetaEntry
  <2> HIDE DEF T
  <2> QED
    BY <1>1, <2>1, <2>2
<1> HIDE DEF N, T, step
<1>3. PICK f : Iteration(f, N, T, NoMeta, step)
  BY <1>1, <1>2, Iterates
<1>4. f \in [0..N -> T] /\ f[0] = NoMeta
  BY <1>3 DEF Iteration
<1>5. ASSUME NEW k \in 1..N PROVE k \in 0..N /\ f[k] = Updated(f[k - 1], entries[k])
  <2> DEFINE s == f[k - 1]
  <2>1. k - 1 \in 0..N /\ k \in 0..N
    BY <1>1
  <2>2. s \in T /\ f[k] = step[k][s]
    BY <1>3, <1>4, <2>1 DEF Iteration
  <2> HIDE DEF s
  <2>3. step[k][s] = Updated(s, entries[k])
    BY <2>2 DEF step
  <2> QED
    BY <2>1, <2>2, <2>3 DEF s
<1>6. f = F(f)
  <2>1. \A n \in 0..N : n # 0 => n \in 1..N
    BY <1>1
  <2>2. \A n \in 0..N : f[n] = IF n = 0 THEN NoMeta ELSE Updated(f[n - 1], entries[n])
    BY <1>4, <1>5, <2>1
  <2> QED
    BY <1>4, <2>2
<1> DEFINE h == CHOOSE x : x = F(x)
<1>7. h = F(h)
  <2> HIDE DEF F
  <2> QED
    BY <1>6
<1>8. _read_meta_file(entries) = h[N]
  BY DEF _read_meta_file, N
<1> HIDE DEF h
<1>9. h[0] = NoMeta /\ \A n \in 1..N : h[n] = Updated(h[n - 1], entries[n])
  <2>1. 0 \in 0..N /\ \A n \in 1..N : n \in 0..N /\ n # 0
    BY <1>1
  <2> QED
    BY <1>7, <2>1
<1> DEFINE G == {n \in 0..N : h[n] = f[n]}
<1>10. \A n \in 0..N : n \in G
  <2>1. 0 \in G
    BY <1>1, <1>4, <1>9
  <2>2. ASSUME NEW n \in 1..N, n - 1 \in G PROVE n \in G
    BY <1>1, <1>5, <1>9, <2>2
  <2> HIDE DEF G
  <2> QED
    BY <1>1, <2>1, <2>2, UpTo
<1>11. N \in 0..N
  BY <1>1
<1> QED
  BY <1>4, <1>8, <1>10, <1>11 DEF T

LEMMA SettingsRange ==
  ASSUME NEW s, ValidSettings(s)
  PROVE  /\ s.max_days \in Nat /\ s.max_days >= 7 /\ s.min_days \in Nat /\ s.min_days >= 1
         /\ s.factor \in Nat \ {0} /\ s.threshold \in Nat \ {0}
<1>1. s.max_days \in 7 .. 365 /\ s.min_days \in 1 .. 90
  BY DEF ValidSettings
<1>2. s.max_days \in Nat /\ s.max_days >= 7
  <2>1. \A n \in 7 .. 365 : n \in Nat /\ n >= 7
    OBVIOUS
  <2> QED
    BY <1>1, <2>1
<1>3. s.min_days \in Nat /\ s.min_days >= 1
  <2>1. \A n \in 1 .. 90 : n \in Nat /\ n >= 1
    OBVIOUS
  <2> QED
    BY <1>1, <2>1
<1> QED
  BY <1>2, <1>3 DEF ValidSettings

\* What is left of the metrics, up to their last time and from the time from which they
\* count on, is one series without gaps that lasts a day at least.
LEMMA UsedSeries ==
  ASSUME NEW q, IsQuestion(q), load_df(q, _read_meta_file(q.meta)) # << >>
  PROVE  /\ UsedFrom(q) \in Nat /\ LastTime(q) \in Nat /\ UsedFrom(q) + Points <= LastTime(q)
         /\ \E u \in [UsedFrom(q) .. LastTime(q) -> Nat \cup {NoData}] :
              /\ load_df(q, _read_meta_file(q.meta)) = group_by_time(u, q.settings)
              /\ \A t \in UsedFrom(q) .. LastTime(q) :
                   t \in DOMAIN merge_metric_files(q.files) => u[t] = merge_metric_files(q.files)[t]
<1> DEFINE all == merge_metric_files(q.files)
           meta == _read_meta_file(q.meta)
           s == q.settings
           left == {t \in DOMAIN all : \A a \in q.applied : t > a}
           cut == trim_from_appliance_date(all, q.applied)
           filled == fill_missing_timestamps(cut)
           used == discard_start(filled, meta.creation, s.discard)
           u == get_last_period(used, s.max_days)
           lo == Min(left)
           hi == Max(left)
           busy == {t \in left : all[t] > 0}
           start == CASE meta.creation # NoTime -> Max({meta.creation, lo})
                      [] meta.creation = NoTime /\ s.discard /\ busy # {} -> Min(busy)
                      [] OTHER -> lo
<1>1. /\ DOMAIN cut # {} /\ DOMAIN used # {}
      /\ ~((Max(DOMAIN used) - Min(DOMAIN used)) \div Points < s.min_days)
      /\ load_df(q, meta) = group_by_time(u, s)
  <2> HIDE DEF cut, filled, used
  <2> SUFFICES ASSUME DOMAIN cut = {} \/ DOMAIN used = {}
                        \/ (Max(DOMAIN used) - Min(DOMAIN used)) \div Points < s.min_days
               PROVE  load_df(q, meta) = << >>
    BY DEF load_df, cut, filled, used
  <2> QED
    BY DEF load_df, cut, filled, used
<1>2. IsSeries(all) /\ ValidSettings(s) /\ q.meta \in Seq(MetaEntry) /\ q.applied \subseteq Nat
  BY MergedSeries DEF IsQuestion
<1>3. meta.creation \in Nat \cup {NoTime} /\ NoTime = -1 /\ NoData = -1
  <2>1. meta \in MetaEntry
    BY <1>2, KnownMeta
  <2> QED
    BY <2>1 DEF MetaEntry, NoTime, NoData
<1>4. s.max_days \in Nat /\ s.max_days >= 7 /\ s.min_days \in Nat /\ s.min_days >= 1
  BY <1>2, SettingsRange
<1>5. Points \in Nat /\ Points >= 2
  BY ScheduleAssumption
<1>6. cut = [t \in left |-> all[t]]
  BY DEF trim_from_appliance_date, Restrict
<1>7. /\ left # {} /\ left \in SUBSET Nat /\ IsFiniteSet(left) /\ left \subseteq DOMAIN all
      /\ IsFiniteSet(DOMAIN all) /\ DOMAIN all \in SUBSET Nat
      /\ \A t \in DOMAIN all : all[t] \in Nat \cup {NoData}
  <2>1. IsFiniteSet(DOMAIN all) /\ DOMAIN all \in SUBSET Nat /\ \A t \in DOMAIN all : all[t] \in Nat \cup {NoData}
    BY <1>2 DEF IsSeries
  <2>2. left # {} /\ left \subseteq DOMAIN all
    BY <1>1, <1>6
  <2> HIDE DEF left, all
  <2> QED
    BY <2>1, <2>2, FS_Subset
<1>8. lo \in left /\ hi \in left /\ lo \in Nat /\ hi \in Nat /\ \A t \in left : lo <= t /\ t <= hi
  <2> HIDE DEF left
  <2> QED
    BY <1>7, Bottom, Top
<1>9. LastTime(q) = hi
  <2>1. \A t \in DOMAIN all : t <= hi
    <3> SUFFICES ASSUME NEW t \in DOMAIN all, ~(t <= hi) PROVE FALSE
      OBVIOUS
    <3>1. t \in Nat /\ t > hi
      BY <1>7, <1>8
    <3>2. \A a \in q.applied : hi > a /\ a \in Nat
      BY <1>2, <1>8
    <3>3. t \in left
      <4> HIDE DEF hi, all
      <4> QED
        BY <1>8, <3>1, <3>2
    <3> HIDE DEF left
    <3> QED
      BY <1>8, <3>3
  <2>2. hi \in DOMAIN all /\ DOMAIN all \in SUBSET Int
    BY <1>7, <1>8
  <2> HIDE DEF hi, all
  <2>3. Max(DOMAIN all) = hi
    BY <2>1, <2>2, TopIs
  <2> QED
    BY <2>3 DEF LastTime, all
<1>10. \A t \in DOMAIN all : t >= lo => t \in left
  <2>1. \A a \in q.applied : lo > a /\ a \in Nat
    BY <1>2, <1>8
  <2> HIDE DEF lo, all
  <2> QED
    BY <1>7, <1>8, <2>1
<1>11. filled = [t \in lo .. hi |-> IF t \in left THEN all[t] ELSE 0]
  <2>1. DOMAIN cut = left
    BY <1>6
  <2>2. \A t \in left : cut[t] = all[t]
    BY <1>6
  <2> HIDE DEF cut, left, all
  <2> QED
    BY <2>1, <2>2 DEF fill_missing_timestamps
<1> HIDE DEF cut, filled
<1>12. DOMAIN filled = lo .. hi /\ \A t \in lo .. hi : filled[t] = IF t \in left THEN all[t] ELSE 0
  BY <1>11
<1>13. /\ used = [t \in start .. hi |-> filled[t]]
       /\ start \in Nat /\ lo <= start /\ start <= hi
  <2> DEFINE loaded == {t \in DOMAIN filled : filled[t] \notin {0, NoData}}
  <2>1. loaded = busy
    <3>1. \A t \in lo .. hi : filled[t] \notin {0, NoData} <=> t \in left /\ all[t] > 0
      <4> SUFFICES ASSUME NEW t \in lo .. hi PROVE filled[t] \notin {0, NoData} <=> t \in left /\ all[t] > 0
        OBVIOUS
      <4>1. filled[t] = IF t \in left THEN all[t] ELSE 0
        BY <1>12
      <4>2. t \in left => all[t] \in Nat \cup {-1}
        BY <1>3, <1>7
      <4> HIDE DEF left, all
      <4> QED
        BY <1>3, <4>1, <4>2
    <3>2. left \subseteq lo .. hi
      <4> HIDE DEF left, lo, hi
      <4> QED
        BY <1>7, <1>8
    <3> HIDE DEF left, all, lo, hi
    <3> QED
      BY <1>12, <3>1, <3>2
  <2>2. used = IF meta.creation # NoTime THEN [t \in {t \in lo .. hi : t >= meta.creation} |-> filled[t]]
               ELSE IF s.discard /\ busy # {} THEN [t \in {t \in lo .. hi : t >= Min(busy)} |-> filled[t]]
               ELSE filled
    <3> HIDE DEF busy, lo, hi
    <3> QED
      BY <1>12, <2>1 DEF discard_start, Restrict
  <2> HIDE DEF loaded, used
  <2>3. CASE meta.creation # NoTime
    <3> DEFINE c == meta.creation
    <3>1. c \in Nat /\ start = Max({c, lo})
      BY <1>3, <2>3
    <3>2. used = [t \in {t \in lo .. hi : t >= c} |-> filled[t]]
      BY <2>2, <2>3
    <3>3. c <= hi
      <4>1. {t \in lo .. hi : t >= c} # {}
        BY <1>1, <3>2
      <4> HIDE DEF lo, hi, c
      <4> QED
        BY <1>8, <3>1, <4>1
    <3> HIDE DEF c, start, lo, hi
    <3>4. Max({c, lo}) = IF c <= lo THEN lo ELSE c
      <4>1. c \in Int /\ lo \in Int
        BY <1>8, <3>1
      <4> QED
        BY <4>1, TopOfTwo
    <3>5. start \in Nat /\ lo <= start /\ start <= hi /\ {t \in lo .. hi : t >= c} = start .. hi
      <4>1. lo \in Nat /\ hi \in Nat /\ lo <= hi
        BY <1>8
      <4>2. start = IF c <= lo THEN lo ELSE c
        BY <3>1, <3>4
      <4>3. start \in Nat /\ lo <= start /\ start <= hi
        BY <3>1, <3>3, <4>1, <4>2
      <4>4. \A t \in lo .. hi : t >= c <=> t >= start
        BY <3>1, <4>1, <4>2
      <4> QED
        BY <4>1, <4>3, <4>4
    <3> QED
      BY <3>2, <3>5
  <2>4. CASE meta.creation = NoTime /\ s.discard /\ busy # {}
    <3> DEFINE c == Min(busy)
    <3>1. start = c /\ used = [t \in {t \in lo .. hi : t >= c} |-> filled[t]]
      BY <2>2, <2>4
    <3>2. busy \in SUBSET Nat /\ busy \subseteq left
      BY <1>7
    <3>3. c \in busy /\ c \in Nat
      <4> HIDE DEF busy
      <4> QED
        BY <2>4, <3>2, Bottom
    <3>4. lo <= c /\ c <= hi
      <4> HIDE DEF busy, c, lo, hi, left
      <4> QED
        BY <1>8, <3>2, <3>3
    <3> HIDE DEF c, start, lo, hi
    <3>5. {t \in lo .. hi : t >= c} = c .. hi
      BY <1>8, <3>3, <3>4
    <3> QED
      BY <3>1, <3>3, <3>4, <3>5
  <2>5. CASE meta.creation = NoTime /\ ~(s.discard /\ busy # {})
    <3>1. start = lo /\ used = filled
      BY <2>2, <2>5
    <3> HIDE DEF start, lo, hi, left, all
    <3>2. filled = [t \in lo .. hi |-> filled[t]]
      BY <1>11
    <3> QED
      BY <1>8, <3>1, <3>2
  <2> QED
    BY <2>3, <2>4, <2>5
<1> DEFINE first == IF start >= hi - s.max_days * Points THEN start ELSE hi - s.max_days * Points
<1>14. UsedFrom(q) = Max({start, hi - s.max_days * Points})
  BY DEF UsedFrom
<1> HIDE DEF used, start, lo, hi
<1>15. DOMAIN used = start .. hi
  BY <1>13
<1>16. Max(DOMAIN used) = hi /\ Min(DOMAIN used) = start
  <2>1. hi \in DOMAIN used /\ start \in DOMAIN used /\ DOMAIN used \in SUBSET Int
    BY <1>8, <1>13, <1>15
  <2>2. \A t \in DOMAIN used : start <= t /\ t <= hi
    BY <1>8, <1>13, <1>15
  <2> HIDE DEF used
  <2> QED
    BY <2>1, <2>2, TopIs, BottomIs
<1>17. start + Points <= hi
  <2> DEFINE d == hi - start
             k == d \div Points
  <2>1. d \in Nat
    BY <1>8, <1>13
  <2> HIDE DEF d
  <2>2. k \in Nat /\ Points * k \in Nat /\ Points * k <= d
    BY <1>5, <2>1, Quotient
  <2>3. k >= 1
    <3>1. ~(k < s.min_days)
      BY <1>1, <1>16 DEF d
    <3> HIDE DEF k
    <3> QED
      BY <1>4, <2>2, <3>1
  <2> HIDE DEF k
  <2>4. Points * 1 <= Points * k /\ Points * 1 = Points
    BY <1>5, <2>2, <2>3, Multiples
  <2> QED
    BY <1>5, <1>8, <1>13, <2>1, <2>2, <2>4 DEF d
<1> DEFINE w == s.max_days * Points
<1>18. w \in Nat /\ Points <= w
  <2>1. Points * 1 <= Points * s.max_days /\ Points * 1 = Points /\ Points * s.max_days \in Nat
    BY <1>4, <1>5, Multiples
  <2>2. w = Points * s.max_days
    BY <1>4, <1>5
  <2> QED
    BY <2>1, <2>2
<1>19. u = [t \in {t \in start .. hi : t >= hi - w} |-> used[t]]
  BY <1>15, <1>16 DEF get_last_period, Restrict
<1> HIDE DEF w, u
<1>20. first \in Nat /\ first >= start /\ first + Points <= hi /\ UsedFrom(q) = first
  <2>1. first = IF start >= hi - w THEN start ELSE hi - w
    BY DEF w
  <2>2. UsedFrom(q) = Max({start, hi - w})
    BY <1>14 DEF w
  <2> HIDE DEF first
  <2>3. Max({start, hi - w}) = first
    <3>1. start \in Int /\ hi - w \in Int /\ Max({start, hi - w}) = IF start <= hi - w THEN hi - w ELSE start
      BY <1>8, <1>13, <1>18, TopOfTwo
    <3> QED
      BY <2>1, <3>1
  <2> QED
    BY <1>5, <1>8, <1>13, <1>17, <1>18, <2>1, <2>2, <2>3
<1>21. u = [t \in first .. hi |-> used[t]]
  <2>1. {t \in start .. hi : t >= hi - w} = first .. hi
    <3>1. first = IF start >= hi - w THEN start ELSE hi - w
      BY DEF w
    <3> HIDE DEF first
    <3> QED
      BY <1>8, <1>13, <1>18, <3>1
  <2> QED
    BY <1>19, <2>1
<1> HIDE DEF first
<1>22. ASSUME NEW t \in first .. hi
       PROVE  /\ u[t] \in Nat \cup {NoData}
              /\ t \in DOMAIN all => u[t] = all[t]
  <2>1. t \in start .. hi /\ t \in lo .. hi /\ t >= lo
    BY <1>8, <1>13, <1>20
  <2>2. u[t] = IF t \in left THEN all[t] ELSE 0
    BY <1>12, <1>13, <1>21, <2>1
  <2> HIDE DEF left, all
  <2> QED
    BY <1>3, <1>7, <1>10, <2>1, <2>2
<1>23. u \in [first .. hi -> Nat \cup {NoData}]
  BY <1>21, <1>22
<1>24. /\ u \in [UsedFrom(q) .. LastTime(q) -> Nat \cup {NoData}]
       /\ \A t \in UsedFrom(q) .. LastTime(q) : t \in DOMAIN all => u[t] = all[t]
  BY <1>9, <1>20, <1>22, <1>23
<1> HIDE DEF all, left, busy
<1> QED
  BY <1>1, <1>8, <1>9, <1>20, <1>24 DEF all

-----------------------------------------------------------------------------
(* The bins and days of a series                                          *)

\* The times of a day.
LEMMA DayIs ==
  ASSUME NEW t \in Nat, NEW d \in Nat
  PROVE  /\ Points * d \in Nat /\ day(t) \in Nat
         /\ day(t) = d <=> Points * d <= t /\ t < Points * d + Points
<1> DEFINE k == day(t)
<1>1. Points \in Nat \ {0} /\ Points * d \in Nat
  BY ScheduleAssumption
<1>2. k \in Nat /\ Points * k <= t /\ t < Points * k + Points
  BY <1>1, Quotient DEF day
<1>3. Points * d <= t /\ t < Points * d + Points => k = d
  BY <1>1, QuotientIs DEF day
<1> QED
  BY <1>1, <1>2, <1>3

LEMMA DayOrder ==
  ASSUME NEW t \in Nat, NEW u \in Nat, t <= u
  PROVE  day(t) <= day(u)
  BY QuotientOrder, ScheduleAssumption DEF day

\* A day is filled by two bins or more.
LEMMA BinsOfDay ==
  ASSUME NEW s, ValidSettings(s), NEW d, NEW last
  PROVE  LET step == StepOf(d, last, s)
             m    == Points \div step
         IN  /\ step \in Nat \ {0} /\ m \in Nat /\ m >= 2 /\ Points = step * m
             /\ StepOf(d, last, s) \in {1, s.factor}
<1> DEFINE step == StepOf(d, last, s)
           m    == Points \div step
           P    == Points
<1>1. s.factor \in Nat \ {0} /\ P % s.factor = 0 /\ 2 * s.factor <= P
  BY DEF ValidSettings
<1>2. P \in Nat /\ P >= 2
  BY ScheduleAssumption
<1>3. step \in {1, s.factor}
  BY DEF StepOf
<1>4. step \in Nat \ {0} /\ P % step = 0 /\ 2 * step <= P
  BY <1>1, <1>2, <1>3
<1> HIDE DEF step
<1>5. m \in Nat /\ P - (P % step) = step * m /\ step * m \in Nat
  BY <1>2, <1>4, Quotient DEF P
<1> HIDE DEF m, P
<1>6. P = step * m
  BY <1>2, <1>4, <1>5
<1>7. m >= 2
  <2>1. m < 2 => step * m + step <= step * 2
    BY <1>4, <1>5, Multiples
  <2>2. step * 2 = 2 * step
    BY <1>4
  <2> QED
    BY <1>4, <1>5, <1>6, <2>1, <2>2
<1> QED
  BY <1>3, <1>4, <1>5, <1>6, <1>7 DEF step, m, P

\* The bins of a day are those that start on it.
LEMMA BinsStay ==
  ASSUME NEW step \in Nat \ {0}, NEW m \in Nat, Points = step * m, NEW d \in Nat, NEW k \in Nat,
         NEW e, e = m * d
  PROVE  /\ e \in Nat /\ step * k \in Nat /\ step * e = Points * d
         /\ e <= k /\ k <= e + m - 1 => day(step * k) = d
         /\ day(step * k) = d => e <= k /\ k <= e + m - 1
<1> DEFINE t == step * k
<1>1. e \in Nat /\ t \in Nat
  BY Multiples
<1>2. step * e = Points * d
  BY Z3
<1>3. step * (e + m) = Points * d + Points
  BY <1>1, <1>2
<1>4. day(t) = d <=> Points * d <= t /\ t < Points * d + Points
  <2> HIDE DEF t
  <2> QED
    BY <1>1, DayIs
<1>5. /\ e <= k => step * e <= step * k
      /\ k < e => step * k + step <= step * e
  BY <1>1, Multiples
<1>6. /\ k < e + m => step * k + step <= step * (e + m)
      /\ e + m <= k => step * (e + m) <= step * k
  <2> DEFINE f == e + m
  <2>1. f \in Nat
    BY <1>1
  <2> HIDE DEF f
  <2>2. /\ k < f => step * k + step <= step * f
        /\ f <= k => step * f <= step * k
    BY <2>1, Multiples
  <2> QED
    BY <2>2 DEF f
<1>7. Points * d \in Nat /\ Points \in Nat
  BY DayIs, ScheduleAssumption
<1> DEFINE x == Points * d
<1> HIDE DEF x
<1>8. day(t) = d <=> e <= k /\ k < e + m
  <2>1. /\ t = step * k /\ t \in Nat /\ x \in Nat /\ x = step * e /\ x + Points = step * (e + m) /\ Points \in Nat
        /\ (day(t) = d <=> x <= t /\ t < x + Points)
    BY <1>1, <1>2, <1>3, <1>4, <1>7 DEF x
  <2> HIDE DEF t
  <2> QED
    BY <1>1, <1>5, <1>6, <2>1
<1>9. e <= k /\ k <= e + m - 1 <=> e <= k /\ k < e + m
  BY <1>1
<1> QED
  BY <1>1, <1>2, <1>8, <1>9 DEF t

\* Where the bin of a time is.
LEMMA BinOfTime ==
  ASSUME NEW step \in Nat \ {0}, NEW m \in Nat, Points = step * m, NEW t \in Nat
  PROVE  /\ t \div step \in Nat /\ t - (t % step) = step * (t \div step) /\ step * (t \div step) \in Nat
         /\ step * (t \div step) <= t /\ t < step * (t \div step) + step
         /\ day(step * (t \div step)) = day(t)
<1> DEFINE k == t \div step
           d == day(t)
           e == m * d
<1>1. /\ k \in Nat /\ step * k \in Nat /\ step * k <= t /\ t < step * k + step
      /\ t - (t % step) = step * k
  BY Quotient
<1>2. d \in Nat
  BY Quotient, ScheduleAssumption DEF day
<1>3. Points * d <= t /\ t < Points * d + Points /\ Points * d \in Nat
  <2> HIDE DEF d
  <2> QED
    BY <1>2, DayIs DEF d
<1> HIDE DEF k, d
<1>4. e \in Nat /\ step * e = Points * d /\ (e <= k /\ k <= e + m - 1 => day(step * k) = d)
  <2>1. k \in Nat /\ e = m * d
    BY <1>1
  <2> HIDE DEF e
  <2>2. e \in Nat /\ step * e = Points * d
    BY <1>2, <2>1, BinsStay
  <2>3. e <= k /\ k <= e + m - 1 => day(step * k) = d
    BY <1>2, <2>1, BinsStay
  <2> QED
    BY <2>2, <2>3
<1> HIDE DEF e
<1>5. k < e => step * k + step <= step * e
  BY <1>1, <1>4, Multiples
<1>6. e + m <= k => step * (e + m) <= step * k
  <2>1. e + m \in Nat
    BY <1>4
  <2> QED
    BY <1>1, <2>1, Multiples
<1>7. step * (e + m) = Points * d + Points
  BY <1>4
<1>8. e <= k /\ k < e + m
  <2>1. Points \in Nat
    BY ScheduleAssumption
  <2> DEFINE x == Points * d
  <2>2. x \in Nat /\ x <= t /\ t < x + Points /\ step * e = x /\ step * (e + m) = x + Points
    BY <1>3, <1>4, <1>7
  <2> HIDE DEF x
  <2> QED
    BY <1>1, <1>4, <1>5, <1>6, <2>1, <2>2
<1>9. day(step * k) = d
  BY <1>1, <1>4, <1>8
<1> QED
  BY <1>1, <1>9 DEF k, d

\* The bins of the day d of a series from a to b.
Bins(d, a, b, s) ==
  LET step == StepOf(d, day(b), s)
      m    == Points \div step
  IN  (IF d = day(a) THEN a \div step ELSE m * d) .. (IF d = day(b) THEN b ELSE m * d + m - 1)

\* Every bin of a day but the ones before the first time and after the last holds a record.
LEMMA BinsHold ==
  ASSUME NEW s, ValidSettings(s), NEW a \in Nat, NEW b \in Nat, day(a) < day(b),
         NEW d \in day(a) .. day(b)
  PROVE  LET step == StepOf(d, day(b), s)
         IN  {t \div step : t \in {t \in a .. b : day(t) = d}} = Bins(d, a, b, s)
<1> DEFINE L == day(b)
           F == day(a)
           step == StepOf(d, L, s)
           m == Points \div step
           e == m * d
           lo == IF d = F THEN a \div step ELSE e
           hi == IF d = L THEN b ELSE e + m - 1
<1>1. L \in Nat /\ F \in Nat /\ d \in Nat /\ F <= d /\ d <= L /\ F < L
  <2>1. L \in Nat /\ F \in Nat
    BY DayIs, 0 \in Nat
  <2> QED
    BY <2>1
<1>2. step \in Nat \ {0} /\ m \in Nat /\ m >= 2 /\ Points = step * m
  BY BinsOfDay
<1>3. d = L => step = 1 /\ m = Points
  <2>1. s.threshold \in Nat \ {0}
    BY SettingsRange
  <2>2. d = L => ~IsOld(d, L, s.threshold)
    BY <1>1, <2>1 DEF IsOld
  <2>3. Points \in Nat /\ Points \div 1 = Points
    BY ScheduleAssumption
  <2> QED
    BY <2>2, <2>3 DEF StepOf
<1>4. Bins(d, a, b, s) = lo .. hi
  BY DEF Bins
<1>5. Points \in Nat /\ a <= b
  <2>1. b < a => L <= F
    BY DayOrder
  <2> HIDE DEF L, F
  <2> QED
    BY <1>1, <2>1, ScheduleAssumption
<1> HIDE DEF L, F, step, m
<1>0. e = m * d
  OBVIOUS
<1> HIDE DEF e
<1>6. e \in Nat /\ step * e = Points * d
  BY <1>0, <1>1, <1>2, BinsStay, 0 \in Nat
<1>7. \A k \in Nat : e <= k /\ k <= e + m - 1 <=> day(step * k) = d
  <2> SUFFICES ASSUME NEW k \in Nat PROVE e <= k /\ k <= e + m - 1 <=> day(step * k) = d
    OBVIOUS
  <2>1. e <= k /\ k <= e + m - 1 => day(step * k) = d
    BY <1>0, <1>1, <1>2, BinsStay
  <2>2. ASSUME day(step * k) = d PROVE e <= k /\ k <= e + m - 1
    <3>1. e <= k
      BY <1>0, <1>1, <1>2, <2>2, BinsStay
    <3>2. k <= e + m - 1
      BY <1>0, <1>1, <1>2, <2>2, BinsStay
    <3> QED
      BY <3>1, <3>2
  <2> QED
    BY <2>1, <2>2
<1>8. a \div step \in Nat /\ step * (a \div step) <= a /\ day(a) = F /\ day(b) = L
  BY <1>2, Quotient DEF F, L
<1>9. ASSUME NEW t \in a .. b, day(t) = d PROVE t \div step \in lo .. hi
  <2> DEFINE k == t \div step
  <2>1. t \in Nat /\ a <= t /\ t <= b
    OBVIOUS
  <2>2. k \in Nat /\ day(step * k) = d
    BY <1>2, <1>9, <2>1, BinOfTime
  <2>3. e <= k /\ k <= e + m - 1
    <3> HIDE DEF k
    <3> QED
      BY <1>7, <2>2
  <2>4. a \div step <= k
    BY <1>2, <2>1, QuotientOrder
  <2>5. d = L => k = t
    BY <1>3, <2>1
  <2> HIDE DEF k
  <2> QED
    BY <1>2, <1>6, <1>8, <2>1, <2>2, <2>3, <2>4, <2>5 DEF k
<1>10. ASSUME NEW k \in lo .. hi PROVE \E t \in a .. b : day(t) = d /\ t \div step = k
  <2>1. lo \in Nat /\ k \in Nat
    BY <1>6, <1>8
  <2>2. CASE d = L
    <3>1. d # F /\ step = 1 /\ e <= k /\ k <= b /\ m = Points
      BY <1>1, <1>3, <2>2
    <3>2. step * k = k /\ k \div step = k
      BY <2>1, <3>1
    <3>3. e = Points * d
      BY <1>6, <3>1
    <3>4. b < Points * d + Points
      BY <1>1, <1>8, <2>2, DayIs
    <3>5. day(k) = d
      <4>1. k <= e + m - 1
        BY <1>5, <1>6, <2>1, <3>1, <3>3, <3>4
      <4> QED
        BY <1>7, <2>1, <3>1, <3>2, <4>1
    <3>6. a <= k
      <4>1. k < a => day(k) <= day(a)
        BY <2>1, DayOrder
      <4> QED
        BY <1>1, <1>8, <2>1, <2>2, <3>5, <4>1
    <3> QED
      BY <2>1, <3>1, <3>2, <3>5, <3>6
  <2>3. CASE d # L /\ (d = F => step * k >= a)
    <3>1. e <= k /\ k <= e + m - 1
      <4>1. CASE d # F
        BY <2>3, <4>1
      <4>2. CASE d = F
        <5>1. a \div step <= k /\ k <= e + m - 1
          BY <2>3, <4>2
        <5>2. e <= a \div step
          <6>1. day(step * (a \div step)) = F
            BY <1>2, <1>8, BinOfTime
          <6> QED
            BY <1>7, <1>8, <4>2, <6>1
        <5> QED
          BY <1>6, <1>8, <2>1, <5>1, <5>2
      <4> QED
        BY <4>1, <4>2
    <3> DEFINE t == step * k
    <3>2. t \in Nat /\ day(t) = d
      BY <1>2, <1>7, <2>1, <3>1, Multiples
    <3>3. t \div step = k
      <4>1. step * k <= t /\ t < step * k + step
        BY <1>2, <3>2
      <4> QED
        BY <1>2, <2>1, <3>2, <4>1, QuotientIs
    <3> HIDE DEF t
    <3>4. a <= t
      <4>1. t < a => day(t) <= day(a)
        BY <3>2, DayOrder
      <4> QED
        BY <1>1, <1>8, <2>3, <3>2, <4>1 DEF t
    <3>5. t <= b
      <4>1. b < t => day(b) <= day(t)
        BY <3>2, DayOrder
      <4> QED
        BY <1>1, <1>8, <2>3, <3>2, <4>1
    <3> QED
      BY <3>2, <3>3, <3>4, <3>5
  <2>4. CASE d # L /\ d = F /\ ~(step * k >= a)
    <3>1. a \div step <= k
      BY <2>4
    <3>2. k <= a \div step
      <4> DEFINE p == a \div step
      <4>1. p \in Nat /\ a < step * p + step
        BY <1>2, Quotient
      <4> HIDE DEF p
      <4>2. p < k => step * p + step <= step * k
        BY <1>2, <2>1, <4>1, Multiples
      <4>3. step * k \in Nat /\ step * p \in Nat
        BY <1>2, <2>1, <4>1
      <4> QED
        BY <1>2, <2>1, <2>4, <4>1, <4>2, <4>3 DEF p
    <3>3. a \div step = k
      BY <1>8, <2>1, <3>1, <3>2
    <3> QED
      BY <1>5, <1>8, <2>4, <3>3
  <2> QED
    BY <2>2, <2>3, <2>4
<1>11. {t \div step : t \in {t \in a .. b : day(t) = d}} = lo .. hi
  <2> HIDE DEF lo, hi
  <2> QED
    BY <1>9, <1>10
<1> QED
  BY <1>4, <1>11 DEF step, L

\* What the averages of a series are days of.
LEMMA GroupedDays ==
  ASSUME NEW s, ValidSettings(s), NEW a \in Nat, NEW b \in Nat, day(a) < day(b),
         NEW u \in [a .. b -> Nat \cup {NoData}]
  PROVE  LET df == group_by_time(u, s)
         IN  /\ Max(DOMAIN df) = b /\ Days(df) = day(a) .. day(b)
             /\ \A d \in day(a) .. day(b) :
                  LET step == StepOf(d, day(b), s)
                  IN  /\ OfDay(df, d) = {step * k : k \in Bins(d, a, b, s)}
                      /\ Cardinality(OfDay(df, d)) = Cardinality(Bins(d, a, b, s))
<1> DEFINE df == group_by_time(u, s)
           L == day(b)
           F == day(a)
           Step(d) == StepOf(d, L, s)
           bin(t) == Step(day(t)) * (t \div Step(day(t)))
<1>1. L \in Nat /\ F \in Nat /\ F < L
  BY DayIs, 0 \in Nat
<1>2. a <= b
  <2>1. b < a => L <= F
    BY DayOrder
  <2> HIDE DEF L, F
  <2> QED
    BY <1>1, <2>1
<1>3. \A d : Step(d) \in Nat \ {0} /\ Points = Step(d) * (Points \div Step(d)) /\ Points \div Step(d) \in Nat
  BY BinsOfDay
<1>4. Step(L) = 1
  <2>1. s.threshold \in Nat \ {0}
    BY SettingsRange
  <2>2. ~IsOld(L, L, s.threshold)
    BY <1>1, <2>1 DEF IsOld
  <2> QED
    BY <2>2 DEF StepOf
<1>5. DOMAIN u = a .. b /\ Max(a .. b) = b
  <2>1. a .. b \in SUBSET Int /\ b \in a .. b /\ \A t \in a .. b : t <= b
    BY <1>2
  <2> QED
    BY <2>1, TopIs
<1>6. \A t \in a .. b : t \in Nat /\ t - (t % Step(day(t))) = bin(t) /\ bin(t) \in Nat /\ bin(t) <= t /\ day(bin(t)) = day(t)
  <2> HIDE DEF Step
  <2> SUFFICES ASSUME NEW t \in a .. b
               PROVE  t \in Nat /\ t - (t % Step(day(t))) = bin(t) /\ bin(t) \in Nat /\ bin(t) <= t /\ day(bin(t)) = day(t)
    OBVIOUS
  <2>1. t \in Nat
    OBVIOUS
  <2> QED
    BY <1>3, <2>1, BinOfTime
<1>7. DOMAIN df = {bin(t) : t \in a .. b}
  <2>1. DOMAIN df = {t - (t % StepOf(day(t), day(Max(DOMAIN u)), s)) : t \in DOMAIN u}
    BY DEF group_by_time
  <2>2. DOMAIN df = {t - (t % Step(day(t))) : t \in a .. b}
    BY <1>5, <2>1
  <2> HIDE DEF df, bin, Step
  <2> QED
    BY <1>6, <2>2
<1> HIDE DEF df
<1>8. Max(DOMAIN df) = b
  <2>1. bin(b) = b
    BY <1>4
  <2> HIDE DEF bin
  <2>2. b \in DOMAIN df
    BY <1>2, <1>7, <2>1
  <2>3. \A t \in DOMAIN df : t \in Int /\ t <= b
    BY <1>6, <1>7
  <2> QED
    BY <2>2, <2>3, TopIs
<1>9. \A d : OfDay(df, d) = {bin(t) : t \in {t \in a .. b : day(t) = d}}
  <2> HIDE DEF bin
  <2> QED
    BY <1>6, <1>7 DEF OfDay
<1>10. ASSUME NEW d \in F .. L
       PROVE  /\ OfDay(df, d) = {Step(d) * k : k \in Bins(d, a, b, s)}
              /\ Cardinality(OfDay(df, d)) = Cardinality(Bins(d, a, b, s))
  <2> DEFINE K == Bins(d, a, b, s)
             step == Step(d)
  <2>1. {t \div step : t \in {t \in a .. b : day(t) = d}} = K
    BY <1>1, BinsHold
  <2>2. \A t \in {t \in a .. b : day(t) = d} : bin(t) = step * (t \div step)
    OBVIOUS
  <2>3. step \in Nat \ {0}
    BY <1>3
  <2> HIDE DEF step, K, bin
  <2>4. OfDay(df, d) = {step * k : k \in K}
    BY <1>9, <2>1, <2>2
  <2>5. K \subseteq Nat
    <3>1. ASSUME NEW t \in a .. b PROVE t \div step \in Nat
      <4>1. t \in Nat
        OBVIOUS
      <4> QED
        BY <2>3, <4>1, Quotient
    <3> QED
      BY <2>1, <3>1
  <2>6. IsFiniteSet(K)
    <3>1. StepOf(d, L, s) = Step(d)
      OBVIOUS
    <3>2. /\ a \div Step(d) \in Int /\ (Points \div Step(d)) * d \in Int /\ Points \div Step(d) \in Int
      BY <1>1, <1>3
    <3> DEFINE m == Points \div Step(d)
               lo == IF d = F THEN a \div Step(d) ELSE m * d
               hi == IF d = L THEN b ELSE m * d + m - 1
    <3>3. K = lo .. hi
      BY DEF K, Bins
    <3> HIDE DEF Step
    <3>4. lo \in Int /\ hi \in Int
      BY <3>2
    <3> HIDE DEF lo, hi
    <3> QED
      BY <3>3, <3>4, FS_Interval
  <2> DEFINE f == [k \in K |-> step * k]
  <2>7. f \in Bijection(K, OfDay(df, d))
    <3>1. \A k \in K, l \in K : step * k = step * l => k = l
      <4> SUFFICES ASSUME NEW k \in K, NEW l \in K, step * k = step * l PROVE k = l
        OBVIOUS
      <4>1. k \in Nat /\ l \in Nat
        BY <2>5
      <4>2. (k < l => step * k + step <= step * l) /\ (l < k => step * l + step <= step * k) /\ step * k \in Nat
        BY <2>3, <4>1, Multiples
      <4> QED
        BY <2>3, <4>1, <4>2
    <3> QED
      BY <2>4, <3>1 DEF Bijection, Injection, Surjection, IsInjective
  <2> HIDE DEF f
  <2>8. Cardinality(OfDay(df, d)) = Cardinality(K)
    BY <2>6, <2>7, FS_Bijection DEF ExistsBijection
  <2> QED
    BY <2>4, <2>8 DEF step, K
<1>11. Days(df) = F .. L
  <2>1. \A t \in a .. b : day(t) \in F .. L
    <3> SUFFICES ASSUME NEW t \in a .. b PROVE day(t) \in F .. L
      OBVIOUS
    <3>1. t \in Nat /\ a <= t /\ t <= b
      OBVIOUS
    <3>2. F <= day(t) /\ day(t) <= L /\ day(t) \in Nat
      BY <3>1, DayOrder, DayIs, 0 \in Nat
    <3> QED
      BY <3>2
  <2>2. Days(df) \subseteq F .. L
    <3> HIDE DEF bin
    <3> QED
      BY <1>6, <1>7, <2>1 DEF Days
  <2>3. ASSUME NEW d \in F .. L PROVE d \in Days(df)
    <3>1. \E t \in a .. b : day(t) = d
      <4>1. CASE d = F
        BY <1>2, <4>1
      <4>2. CASE d # F
        <5> DEFINE t == Points * d
        <5>0. d \in Nat
          BY <1>1
        <5>1. t \in Nat /\ Points \in Nat \ {0}
          BY <5>0, DayIs, ScheduleAssumption
        <5>2. day(t) = d
          <6>1. Points * d <= t /\ t < Points * d + Points
            BY <5>1
          <6> QED
            BY <5>0, <5>1, <6>1, DayIs
        <5> HIDE DEF t
        <5>3. t < a => day(t) <= F
          BY <5>1, DayOrder
        <5>4. t <= b
          <6>1. Points * d <= Points * L
            BY <1>1, <5>0, <5>1, Multiples
          <6>2. Points * L <= b /\ Points * L \in Nat
            BY <1>1, DayIs
          <6> QED
            BY <5>1, <6>1, <6>2 DEF t
        <5>5. a <= t
          BY <1>1, <4>2, <5>1, <5>2, <5>3
        <5> QED
          BY <5>1, <5>2, <5>4, <5>5
      <4> QED
        BY <4>1, <4>2
    <3> HIDE DEF bin
    <3> QED
      BY <1>6, <1>7, <3>1 DEF Days
  <2> QED
    BY <2>2, <2>3
<1> QED
  BY <1>8, <1>10, <1>11 DEF df

\* Days are left out if they are the first or the last one and a bin of them is empty.
LEMMA DaysDivided ==
  ASSUME NEW s, ValidSettings(s), NEW a \in Nat, NEW b \in Nat, day(a) < day(b),
         NEW u \in [a .. b -> Nat \cup {NoData}]
  PROVE  divide_by_days(group_by_time(u, s), s) =
           {d \in day(a) .. day(b) : /\ a <= d * Points + StepOf(d, day(b), s) - 1
                                     /\ (d + 1) * Points - 1 <= b}
<1> DEFINE df == group_by_time(u, s)
           L == day(b)
           F == day(a)
           Step(d) == StepOf(d, L, s)
           step == Step(F)
           m == Points \div step
           P == Points
<1>1. L \in Nat /\ F \in Nat /\ F < L
  BY DayIs, 0 \in Nat
<1>2. Days(df) = F .. L /\ \A d \in F .. L : Cardinality(OfDay(df, d)) = Cardinality(Bins(d, a, b, s))
  BY GroupedDays
<1> HIDE DEF df
<1>3. Min(Days(df)) = F /\ Max(Days(df)) = L
  <2>1. F .. L \in SUBSET Int /\ F \in F .. L /\ L \in F .. L /\ \A d \in F .. L : F <= d /\ d <= L
    BY <1>1
  <2> HIDE DEF F, L
  <2> QED
    BY <1>2, <2>1, TopIs, BottomIs
<1>4. divide_by_days(df, s) =
        (F .. L) \ ({d \in {L} : Cardinality(OfDay(df, d)) < Points} \cup
                    {d \in {F} : Cardinality(OfDay(df, d)) < m})
  BY <1>2, <1>3 DEF divide_by_days
<1>5. /\ step \in Nat \ {0} /\ m \in Nat /\ m >= 2 /\ P = step * m /\ P \in Nat \ {0}
  BY BinsOfDay, ScheduleAssumption
<1>6. Step(L) = 1 /\ P \div 1 = P
  <2>1. s.threshold \in Nat \ {0}
    BY SettingsRange
  <2>2. ~IsOld(L, L, s.threshold)
    BY <1>1, <2>1 DEF IsOld
  <2>3. P \in Nat /\ P \div 1 = P
    BY ScheduleAssumption
  <2> QED
    BY <2>2, <2>3 DEF StepOf
<1>7. /\ P * L \in Nat /\ P * L <= b /\ b < P * L + P
      /\ P * F \in Nat /\ P * F <= a /\ a < P * F + P
  BY <1>1, DayIs
<1> DEFINE e == m * F
           k == a \div step
<1>8. Bins(L, a, b, s) = (P * L) .. b
  BY <1>1, <1>6 DEF Bins
<1>9. Bins(F, a, b, s) = k .. (e + m - 1)
  BY <1>1 DEF Bins
<1>10. k \in Nat /\ step * k \in Nat /\ step * k <= a /\ a < step * k + step
  BY <1>5, Quotient
<1>11. e \in Nat /\ step * e = P * F
  <2>1. e = m * F
    OBVIOUS
  <2> HIDE DEF e, m, step
  <2> QED
    BY <1>1, <1>5, <2>1, BinsStay, 0 \in Nat
<1>12. Cardinality(OfDay(df, L)) < P <=> b < P * L + P - 1
  <2>0. L \in F .. L
    BY <1>1
  <2>1. Cardinality(OfDay(df, L)) = Cardinality((P * L) .. b)
    BY <1>2, <1>8, <2>0
  <2> DEFINE x == P * L
  <2> HIDE DEF x
  <2>2. Cardinality(x .. b) = b - x + 1
    BY <1>7, FS_Interval DEF x
  <2>3. x \in Nat /\ Cardinality(OfDay(df, L)) = b - x + 1
    BY <1>7, <2>1, <2>2 DEF x
  <2>4. b - x + 1 < P <=> b < x + P - 1
    BY <1>5, <2>3
  <2> QED
    BY <2>3, <2>4 DEF x
<1>13. Cardinality(OfDay(df, F)) < m <=> a >= P * F + step
  <2>0. F \in F .. L
    BY <1>1
  <2>1. Cardinality(OfDay(df, F)) = Cardinality(k .. (e + m - 1))
    BY <1>2, <1>9, <2>0
  <2> HIDE DEF k, e, m
  <2>2. k < e + m
    <3>1. e + m <= k => step * (e + m) <= step * k
      <4>1. e + m \in Nat
        BY <1>5, <1>11
      <4> QED
        BY <1>5, <1>10, <4>1, Multiples
    <3>2. step * (e + m) = P * F + P
      BY <1>5, <1>11
    <3> DEFINE x == P * F
    <3>3. x \in Nat /\ a < x + P /\ step * (e + m) = x + P
      BY <1>7, <3>2
    <3> HIDE DEF x, P, step
    <3> QED
      BY <1>5, <1>10, <1>11, <3>1, <3>3
  <2>3. Cardinality(k .. (e + m - 1)) = e + m - k
    BY <1>5, <1>10, <1>11, <2>2, FS_Interval
  <2>4. Cardinality(OfDay(df, F)) < m <=> e < k
    <3> DEFINE n == Cardinality(OfDay(df, F))
    <3>1. n = e + m - k
      BY <2>1, <2>3
    <3>2. e \in Nat /\ k \in Nat /\ m \in Nat
      BY <1>5, <1>10, <1>11
    <3> HIDE DEF n
    <3>3. n < m <=> e < k
      BY <3>1, <3>2
    <3> QED
      BY <3>3 DEF n
  <2>5. e < k => step * e + step <= step * k
    BY <1>5, <1>10, <1>11, Multiples
  <2>6. k <= e => step * k <= step * e
    BY <1>5, <1>10, <1>11, Multiples
  <2>7. e < k <=> a >= P * F + step
    <3> DEFINE x == P * F
    <3>1. x \in Nat /\ step * e = x
      BY <1>7, <1>11
    <3> HIDE DEF x
    <3>2. e < k <=> a >= x + step
      <4> HIDE DEF step
      <4> QED
        BY <1>5, <1>10, <1>11, <2>5, <2>6, <3>1
    <3> QED
      BY <3>2 DEF x
  <2> QED
    BY <2>4, <2>7
<1>14. ASSUME NEW d \in F .. L
       PROVE  /\ d * P \in Nat
              /\ d # F => a < d * P
              /\ d # L => (d + 1) * P - 1 <= b
              /\ (d + 1) * P = d * P + P
              /\ d = F => d * P = P * F
              /\ d = L => d * P = P * L
  <2>1. d \in Nat /\ F <= d /\ d <= L
    BY <1>1
  <2> HIDE DEF F, L, P
  <2>2. d * P = P * d /\ (d + 1) * P = P * (d + 1)
    BY <1>5, <2>1
  <2>3. P * d \in Nat /\ P * (d + 1) = P * d + P
    BY <1>5, <2>1, Multiples
  <2>4. F < d => P * F + P <= P * d
    BY <1>1, <1>5, <2>1, Multiples
  <2>5. d < L => P * d + P <= P * L
    BY <1>1, <1>5, <2>1, Multiples
  <2> DEFINE x == P * d
             y == P * F
             z == P * L
             w == (d + 1) * P
             v == d * P
  <2>6. v = x /\ w = x + P /\ x \in Nat
    BY <2>2, <2>3
  <2>7. (F < d => y + P <= x) /\ (d < L => x + P <= z)
    BY <2>4, <2>5
  <2>8. y \in Nat /\ z \in Nat /\ z <= b /\ b < z + P /\ y <= a /\ a < y + P
    BY <1>7
  <2>9. (d = F => x = y) /\ (d = L => x = z)
    OBVIOUS
  <2> HIDE DEF x, y, z, w, v
  <2>10. v \in Nat /\ w = v + P /\ (d = F => v = y) /\ (d = L => v = z)
    BY <2>6, <2>9
  <2>0. P \in Nat /\ (d # F => F < d) /\ (d # L => d < L)
    BY <1>1, <1>5, <2>1
  <2>11. d # F => a < v
    BY <2>0, <2>6, <2>7, <2>8
  <2>12. d # L => w - 1 <= b
    BY <2>0, <2>6, <2>7, <2>8
  <2> QED
    BY <2>10, <2>11, <2>12 DEF y, z, w, v
<1>15. \A d \in F .. L : Step(d) \in Nat \ {0}
  BY BinsOfDay
<1>16. ASSUME NEW d \in F .. L
       PROVE  (d = L /\ Cardinality(OfDay(df, d)) < P) \/ (d = F /\ Cardinality(OfDay(df, d)) < m)
                <=> ~(a <= d * P + Step(d) - 1 /\ (d + 1) * P - 1 <= b)
  <2> DEFINE x == d * P
             y == (d + 1) * P
             t == Step(d)
             G == d = L /\ Cardinality(OfDay(df, d)) < P
             H == d = F /\ Cardinality(OfDay(df, d)) < m
  <2>1. x \in Nat /\ y = x + P /\ t \in Nat \ {0} /\ P \in Nat \ {0} /\ F # L
    BY <1>1, <1>5, <1>14, <1>15
  <2>2. d # F => a < x
    BY <1>14
  <2>3. d # L => y - 1 <= b
    BY <1>14
  <2>4. d = L => (G <=> b < x + P - 1)
    BY <1>12, <1>14
  <2>5. d = F => (H <=> a >= x + t)
    BY <1>13, <1>14
  <2>6. (d # L => ~G) /\ (d # F => ~H)
    OBVIOUS
  <2> HIDE DEF x, y, t, P, F, L
  <2>7. CASE d = L
    <3>1. ~H /\ (G <=> b < x + P - 1) /\ a < x
      BY <2>1, <2>2, <2>4, <2>6, <2>7
    <3>2. G \/ H <=> ~(a <= x + t - 1 /\ y - 1 <= b)
      <4> HIDE DEF G, H
      <4>1. a <= x + t - 1
        BY <2>1, <3>1
      <4>2. b < x + P - 1 <=> ~(y - 1 <= b)
        BY <2>1
      <4> QED
        BY <3>1, <4>1, <4>2
    <3> QED
      BY <3>2 DEF x, y, t
  <2>8. CASE d = F
    <3>1. ~G /\ (H <=> a >= x + t) /\ y - 1 <= b
      BY <2>1, <2>3, <2>5, <2>6, <2>8
    <3>2. G \/ H <=> ~(a <= x + t - 1 /\ y - 1 <= b)
      <4> HIDE DEF G, H
      <4>1. a >= x + t <=> ~(a <= x + t - 1)
        BY <2>1
      <4> QED
        BY <3>1, <4>1
    <3> QED
      BY <3>2 DEF x, y, t
  <2>9. CASE d # L /\ d # F
    <3>1. ~G /\ ~H /\ a < x /\ y - 1 <= b
      BY <2>2, <2>3, <2>6, <2>9
    <3>2. a <= x + t - 1
      BY <2>1, <3>1
    <3> QED
      BY <3>1, <3>2 DEF x, y, t
  <2> QED
    BY <2>7, <2>8, <2>9
<1> HIDE DEF m, F, L
<1>17. divide_by_days(df, s) = {d \in F .. L : a <= d * P + Step(d) - 1 /\ (d + 1) * P - 1 <= b}
  BY <1>4, <1>16
<1> QED
  BY <1>17 DEF df, F, L

-----------------------------------------------------------------------------
(* What is busy for a whole day is not shut down                           *)

\* An average is as great as every record of its day is.
LEMMA BinMean ==
  ASSUME NEW s, ValidSettings(s), NEW a \in Nat, NEW b \in Nat, day(a) < day(b),
         NEW u \in [a .. b -> Nat \cup {NoData}], NEW d \in day(a) .. day(b), NEW c \in Nat,
         \A t \in a .. b : day(t) = d => c <= u[t],
         NEW x \in OfDay(group_by_time(u, s), d)
  PROVE  /\ group_by_time(u, s)[x] \in Int
         /\ c <= group_by_time(u, s)[x]
<1> DEFINE df == group_by_time(u, s)
           L == day(b)
           Step(t) == StepOf(day(t), L, s)
           bin(t) == t - (t % Step(t))
           records == {t \in a .. b : bin(t) = x}
           n == Cardinality(records)
           lo == Min(records)
           hi == Max(records)
           list == [i \in 1 .. n |-> u[lo + i - 1]]
<1>1. a <= b /\ L \in Nat
  <2>1. b < a => L <= day(a)
    BY DayOrder
  <2>2. L \in Nat /\ day(a) \in Nat
    BY DayIs, 0 \in Nat
  <2> HIDE DEF L
  <2>3. day(a) < L
    BY DEF L
  <2> QED
    BY <2>1, <2>2, <2>3
<1>2. DOMAIN u = a .. b /\ Max(a .. b) = b
  <2>1. a .. b \in SUBSET Int /\ b \in a .. b /\ \A t \in a .. b : t <= b
    BY <1>1
  <2> QED
    BY <2>1, TopIs
<1>3. x \in DOMAIN df /\ day(x) = d
  BY DEF OfDay
<1>4. /\ DOMAIN df = {bin(t) : t \in a .. b}
      /\ \A y \in {bin(t) : t \in a .. b} :
           df[y] = LET r == {t \in a .. b : bin(t) = y}
                   IN  Total([i \in 1 .. Cardinality(r) |-> u[Min(r) + i - 1]]) \div Cardinality(r)
  BY <1>2 DEF group_by_time
<1> HIDE DEF df
<1>5. records # {} /\ df[x] = Total(list) \div n
  <2> HIDE DEF bin
  <2> QED
    BY <1>3, <1>4
<1>6. \A t \in records : t \in Nat /\ a <= t /\ t <= b /\ day(t) = d
  <2> SUFFICES ASSUME NEW t \in records PROVE t \in Nat /\ a <= t /\ t <= b /\ day(t) = d
    OBVIOUS
  <2>1. t \in Nat /\ a <= t /\ t <= b /\ bin(t) = x
    OBVIOUS
  <2> DEFINE step == Step(t)
             m == Points \div step
  <2>2. step \in Nat \ {0} /\ m \in Nat /\ Points = step * m
    BY BinsOfDay
  <2>3. x = t - (t % step)
    BY <2>1
  <2> HIDE DEF step, m, bin, records
  <2>4. day(x) = day(t)
    BY <2>1, <2>2, <2>3, BinOfTime
  <2> QED
    BY <1>3, <2>1, <2>4
<1>7. records \in SUBSET Nat /\ IsFiniteSet(records)
  <2>1. records \subseteq a .. b /\ IsFiniteSet(a .. b)
    BY FS_Interval
  <2> HIDE DEF records
  <2> QED
    BY <1>6, <2>1, FS_Subset
<1> HIDE DEF records
<1>8. lo \in records /\ hi \in records /\ lo \in Nat /\ hi \in Nat /\ \A t \in records : lo <= t /\ t <= hi
  BY <1>5, <1>7, Bottom, Top
<1>9. n \in Nat \ {0} /\ n <= hi - lo + 1
  <2>1. n \in Nat /\ n # 0
    BY <1>5, <1>7, FS_CardinalityType, FS_EmptySet
  <2> HIDE DEF lo, hi
  <2>2. records \subseteq lo .. hi /\ lo <= hi
    BY <1>7, <1>8
  <2>3. IsFiniteSet(lo .. hi) /\ Cardinality(lo .. hi) = hi - lo + 1
    BY <1>8, <2>2, FS_Interval
  <2>4. n <= Cardinality(lo .. hi)
    BY <2>2, <2>3, FS_Subset
  <2> QED
    BY <2>1, <2>3, <2>4
<1> HIDE DEF n, lo, hi
<1>10. ASSUME NEW i \in 1 .. n PROVE u[lo + i - 1] \in Int /\ c <= u[lo + i - 1]
  <2> DEFINE t == lo + i - 1
  <2>1. t \in Nat /\ lo <= t /\ t <= hi
    BY <1>8, <1>9
  <2>2. a <= lo /\ hi <= b /\ day(lo) = d /\ day(hi) = d
    BY <1>6, <1>8
  <2> HIDE DEF t
  <2>3. t \in a .. b
    BY <1>8, <2>1, <2>2
  <2>4. d <= day(t) /\ day(t) <= d /\ day(t) \in Int
    <3>1. day(lo) <= day(t)
      BY <1>8, <2>1, DayOrder
    <3>2. day(t) <= day(hi)
      BY <1>8, <2>1, DayOrder
    <3>3. day(t) \in Nat
      BY <2>1, DayIs, 0 \in Nat
    <3> QED
      BY <2>2, <3>1, <3>2, <3>3
  <2>5. d \in Int
    BY <1>1
  <2>6. day(t) = d
    BY <2>4, <2>5
  <2>7. u[t] \in Nat \cup {NoData} /\ c <= u[t]
    BY <2>3, <2>6
  <2> QED
    BY <2>7 DEF t, NoData
<1>11. list \in Seq(Int) /\ Len(list) = n /\ \A i \in 1 .. n : c <= list[i]
  <2>1. list \in [1 .. n -> Int] /\ n \in Nat
    BY <1>9, <1>10
  <2>2. \A i \in 1 .. n : c <= list[i]
    BY <1>10
  <2> HIDE DEF list
  <2> QED
    BY <2>1, <2>2, FunctionIsList
<1> HIDE DEF list
<1>12. Total(list) \div n \in Int /\ c <= Total(list) \div n
  <2>1. Len(list) # 0
    BY <1>9, <1>11
  <2>2. \A i \in 1 .. Len(list) : c <= list[i]
    BY <1>11
  <2>3. Total(list) \div Len(list) \in Int /\ c <= Total(list) \div Len(list)
    BY <1>11, <2>1, <2>2, MeanAtLeast
  <2> QED
    BY <1>11, <2>3
<1> QED
  BY <1>5, <1>12 DEF df

\* What bears the greatest threshold is over utilised.
LEMMA HighestClass ==
  ASSUME NEW s, ValidSettings(s)
  PROVE  /\ Max(ToSet(s.thresholds)) \in Nat
         /\ \A load \in Int : Max(ToSet(s.thresholds)) <= load => ClassOf(load, s.thresholds) = 4
<1> DEFINE T == s.thresholds
           S == ToSet(T)
           c == Max(S)
<1>1. T \in [1 .. 3 -> 0 .. 100]
  BY DEF ValidSettings
<1> HIDE DEF T
<1>2. S \subseteq 0 .. 100 /\ T[1] \in S /\ T[2] \in S /\ T[3] \in S
  <2>1. 1 \in DOMAIN T /\ 2 \in DOMAIN T /\ 3 \in DOMAIN T
    BY <1>1
  <2> QED
    BY <1>1, <2>1 DEF ToSet
<1> HIDE DEF S
<1>3. S \in SUBSET Nat /\ IsFiniteSet(S) /\ S # {}
  <2>1. IsFiniteSet(0 .. 100) /\ 0 .. 100 \subseteq Nat
    <3>1. 0 \in Int /\ 100 \in Int
      OBVIOUS
    <3>2. IsFiniteSet(0 .. 100)
      BY <3>1, FS_Interval
    <3> QED
      BY <3>2
  <2> QED
    BY <1>2, <2>1, FS_Subset
<1>4. c \in Nat /\ \A t \in S : t <= c
  BY <1>3, Top
<1> HIDE DEF c
<1>5. ASSUME NEW load \in Int, c <= load PROVE ClassOf(load, T) = 4
  <2>1. T[1] \in Int /\ T[2] \in Int /\ T[3] \in Int
    <3>1. \A t \in S : t \in Int
      BY <1>3
    <3> QED
      BY <1>2, <3>1
  <2>2. T[1] <= load /\ T[2] <= load /\ T[3] <= load
    BY <1>2, <1>4, <1>5, <2>1
  <2>3. ~(load < T[1]) /\ ~(load < T[2]) /\ ~(load < T[3])
    BY <2>1, <2>2
  <2> QED
    BY <2>3 DEF ClassOf
<1> QED
  BY <1>4, <1>5 DEF T, S, c

\* Two points in a row are an idle period, whatever their number.
LEMMA RunIsPeriod ==
  ASSUME NEW x \in Nat, NEW y \in Nat, x < y
  PROVE  get_time_ranges(x .. y) # {}
<1> DEFINE r == <<x, y>>
           A == x .. y
<1>1. r \in A \X A /\ r[1] = x /\ r[2] = y
  OBVIOUS
<1>2. x - 1 \notin A /\ y + 1 \notin A /\ x .. y \subseteq A
  OBVIOUS
<1> HIDE DEF r, A
<1>3. r \in Runs(A) /\ r[1] < r[2]
  BY <1>1, <1>2 DEF Runs
<1>4. {p \in Runs(A) : p[1] < p[2]} # {}
  BY <1>3
<1> QED
  BY <1>4 DEF get_time_ranges, A

\* A day that is busy from midnight to midnight has a period in the highest class.
LEMMA BusyDayHasPeriod ==
  ASSUME NEW s, ValidSettings(s), NEW a \in Nat, NEW b \in Nat, day(a) < day(b),
         NEW u \in [a .. b -> Nat \cup {NoData}], NEW d \in day(a) .. day(b),
         a <= d * Points + StepOf(d, day(b), s) - 1, (d + 1) * Points - 1 <= b,
         \A t \in a .. b : day(t) = d => Max(ToSet(s.thresholds)) <= u[t]
  PROVE  process_day(group_by_time(u, s), d, 4, s) # {}
<1> DEFINE df == group_by_time(u, s)
           L == day(b)
           F == day(a)
           step == StepOf(d, L, s)
           m == Points \div step
           K == Bins(d, a, b, s)
           e == m * d
           lo == IF d = F THEN a \div step ELSE e
           hi == IF d = L THEN b ELSE e + m - 1
<1>1. L \in Nat /\ F \in Nat /\ d \in Nat /\ F <= d /\ d <= L /\ F < L
  <2>1. L \in Nat /\ F \in Nat
    BY DayIs, 0 \in Nat
  <2> QED
    BY <2>1
<1>2. step \in Nat \ {0} /\ m \in Nat /\ m >= 2 /\ Points = step * m /\ Points \in Nat
  BY BinsOfDay, ScheduleAssumption
<1>3. /\ Max(DOMAIN df) = b
      /\ OfDay(df, d) = {step * k : k \in K}
  BY GroupedDays
<1>4. \A x \in OfDay(df, d) : ClassOf(df[x], s.thresholds) = 4
  <2>1. Max(ToSet(s.thresholds)) \in Nat
    BY HighestClass
  <2>2. ASSUME NEW x \in OfDay(df, d) PROVE df[x] \in Int /\ Max(ToSet(s.thresholds)) <= df[x]
    BY <2>1, BinMean
  <2> HIDE DEF df
  <2> QED
    BY <2>2, HighestClass
<1>5. K = lo .. hi
  BY DEF Bins
<1>6. e \in Nat /\ step * e = Points * d
  <2>1. e = m * d
    OBVIOUS
  <2> HIDE DEF e, m, step
  <2> QED
    BY <1>1, <1>2, <2>1, BinsStay, 0 \in Nat
<1>7. d = L => step = 1 /\ m = Points
  <2>1. s.threshold \in Nat \ {0}
    BY SettingsRange
  <2>2. d = L => ~IsOld(d, L, s.threshold)
    BY <1>1, <2>1 DEF IsOld
  <2>3. Points \in Nat /\ Points \div 1 = Points
    BY ScheduleAssumption
  <2> QED
    BY <2>2, <2>3 DEF StepOf
<1> DEFINE y == d * Points
           z == (d + 1) * Points
<1>8. y \in Nat /\ y = Points * d /\ z = y + Points
  <2> DEFINE P == Points
  <2>1. P \in Nat
    BY <1>2
  <2> HIDE DEF P
  <2>2. d * P = P * d /\ P * d \in Nat /\ (d + 1) * P = d * P + P
    BY <1>1, <2>1
  <2> QED
    BY <2>2 DEF P
<1>9. a <= y + step - 1 /\ z - 1 <= b
  OBVIOUS
<1> HIDE DEF y, z, step, m, e, L, F, K, df
<1>10. lo \in Nat /\ lo <= e
  <2>1. CASE d # F
    BY <1>6, <2>1
  <2>2. CASE d = F
    <3> DEFINE k == a \div step
    <3>1. k \in Nat /\ step * k \in Nat /\ step * k <= a
      BY <1>2, Quotient
    <3> HIDE DEF k
    <3>2. e < k => step * e + step <= step * k
      BY <1>2, <1>6, <3>1, Multiples
    <3>3. step * e = y
      BY <1>6, <1>8
    <3>4. k <= e
      BY <1>2, <1>6, <1>8, <1>9, <3>1, <3>2, <3>3
    <3> QED
      BY <2>2, <3>1, <3>4 DEF k
  <2> QED
    BY <2>1, <2>2
<1>11. hi \in Nat /\ lo < hi
  <2>1. CASE d # L
    BY <1>2, <1>6, <1>10, <2>1
  <2>2. CASE d = L
    <3>1. step = 1 /\ m = Points /\ hi = b
      BY <1>7, <2>2
    <3>2. e = y
      BY <1>6, <1>8, <3>1
    <3> QED
      BY <1>2, <1>6, <1>8, <1>9, <1>10, <3>1, <3>2
  <2> QED
    BY <2>1, <2>2
<1> HIDE DEF lo, hi
<1>12. {t \div step : t \in {t \in OfDay(df, d) : ClassOf(df[t], s.thresholds) = 4}} = lo .. hi
  <2>1. {t \in OfDay(df, d) : ClassOf(df[t], s.thresholds) = 4} = OfDay(df, d)
    BY <1>4
  <2>2. ASSUME NEW k \in lo .. hi PROVE (step * k) \div step = k
    <3>1. k \in Nat
      BY <1>10, <1>11
    <3>2. step * k \in Nat /\ step * k <= step * k /\ step * k < step * k + step
      BY <1>2, <3>1, Multiples
    <3> QED
      BY <1>2, <3>1, <3>2, QuotientIs
  <2> QED
    BY <1>3, <1>5, <2>1, <2>2
<1>13. get_time_ranges(lo .. hi) # {}
  BY <1>10, <1>11, RunIsPeriod
<1>14. process_day(df, d, 4, s) = get_time_ranges(lo .. hi)
  <2>1. StepOf(d, day(Max(DOMAIN df)), s) = step
    BY <1>3 DEF step, L
  <2> QED
    BY <1>12, <2>1 DEF process_day
<1> QED
  BY <1>13, <1>14 DEF df

\* What the analysis promises of any question.
LEMMA AnalysisIsWhole ==
  ASSUME NEW q, IsQuestion(q)
  PROVE  DaysAreWhole(q, AnalyseMetrics(q))
<1> DEFINE all == merge_metric_files(q.files)
           s == q.settings
           meta == _read_meta_file(q.meta)
           df == load_df(q, meta)
           periods == divide_on_periods(df, s)
           days == divide_by_days(df, s)
           a == UsedFrom(q)
           b == LastTime(q)
           c == Max(ToSet(s.thresholds))
           found == AnalyseMetrics(q)
<1>1. SUFFICES ASSUME found.status = "OK"
               PROVE  /\ found.days = WholeDays(q)
                      /\ found.shutdown =>
                           \A d \in found.days :
                             ~ \A t \in (d * Points) .. (d * Points + Points - 1) :
                                 t \in DOMAIN all /\ all[t] >= c
  BY DEF DaysAreWhole
<1>2. /\ df # << >>
      /\ found.days = days
      /\ found.shutdown <=> \A k \in Classes \ {1} : periods[k] = {}
  <2>1. /\ ~validate_metric_file(q) => found = Failure("ERROR")
        /\ validate_metric_file(q) /\ to_adjustments(meta) = Actions => found = Failure("POSTPONED")
        /\ validate_metric_file(q) /\ to_adjustments(meta) # Actions /\ df = << >> => found = Failure("ERROR")
        /\ validate_metric_file(q) /\ to_adjustments(meta) # Actions /\ df # << >> =>
             found = [status   |-> "OK",
                       days     |-> days,
                       trends   |-> get_non_straight_periods(df, periods, s),
                       shutdown |-> \A k \in Classes \ {1} : periods[k] = {}]
    BY DEF AnalyseMetrics
  <2>2. found # Failure("ERROR") /\ found # Failure("POSTPONED")
    BY <1>1 DEF Failure
  <2> HIDE DEF found, df, periods, days
  <2> QED
    BY <2>1, <2>2
<1> HIDE DEF found
<1>3. ValidSettings(s) /\ IsSeries(all)
  BY MergedSeries DEF IsQuestion
<1>4. a \in Nat /\ b \in Nat /\ a + Points <= b
  BY <1>2, UsedSeries
<1>5. PICK u \in [a .. b -> Nat \cup {NoData}] :
        /\ df = group_by_time(u, s)
        /\ \A t \in a .. b : t \in DOMAIN all => u[t] = all[t]
  BY <1>2, UsedSeries
<1> HIDE DEF df
<1>6. days = {d \in day(a) .. day(b) : /\ a <= d * Points + StepOf(d, day(b), s) - 1
                                       /\ (d + 1) * Points - 1 <= b}
      /\ day(a) < day(b)
  <2> HIDE DEF a, b, s
  <2>1. day(a) < day(b)
    <3> DEFINE F == day(a)
               L == day(b)
    <3>1. F \in Nat /\ L \in Nat
      BY <1>4, DayIs
    <3>2. /\ Points * F \in Nat /\ Points * F <= a
          /\ Points * L \in Nat /\ b < Points * L + Points
      BY <1>4, <3>1, DayIs
    <3> HIDE DEF F, L
    <3>3. L <= F => Points * L <= Points * F
      BY <3>1, ScheduleAssumption, Multiples
    <3> DEFINE x == Points * F
               y == Points * L
    <3>4. x \in Nat /\ y \in Nat /\ x <= a /\ b < y + Points /\ (L <= F => y <= x) /\ Points \in Nat
      BY <3>2, <3>3, ScheduleAssumption
    <3> HIDE DEF x, y
    <3>5. F < L
      BY <1>4, <3>1, <3>4
    <3> QED
      BY <3>5 DEF F, L
  <2> QED
    BY <1>3, <1>4, <1>5, <2>1, DaysDivided
<1>7. days = WholeDays(q)
  BY <1>6 DEF WholeDays
<1>8. ASSUME NEW d \in days,
             \A t \in (d * Points) .. (d * Points + Points - 1) : t \in DOMAIN all /\ all[t] >= c
      PROVE  \E k \in Classes \ {1} : periods[k] # {}
  <2>1. /\ d \in day(a) .. day(b)
        /\ a <= d * Points + StepOf(d, day(b), s) - 1 /\ (d + 1) * Points - 1 <= b
    BY <1>6
  <2> HIDE DEF days, a, b, s, all, periods, c
  <2>2. d \in Nat
    <3>1. day(a) \in Nat /\ day(b) \in Nat
      BY <1>4, DayIs
    <3> QED
      BY <2>1, <3>1
  <2>3. ASSUME NEW t \in a .. b, day(t) = d PROVE c <= u[t]
    <3>1. t \in Nat
      BY <1>4
    <3>2. Points * d \in Nat /\ Points * d <= t /\ t < Points * d + Points
      BY <2>2, <2>3, <3>1, DayIs
    <3> DEFINE x == d * Points
    <3>3. x = Points * d /\ Points \in Nat
      BY <2>2, ScheduleAssumption
    <3> HIDE DEF x
    <3>4. x \in Nat /\ t \in x .. x + Points - 1
      BY <3>1, <3>2, <3>3
    <3>5. t \in DOMAIN all /\ all[t] >= c
      BY <1>8, <3>4 DEF x
    <3>6. u[t] = all[t] /\ u[t] \in Nat \cup {NoData}
      BY <1>5, <3>5
    <3>7. c \in Nat
      BY <1>3, HighestClass DEF c
    <3> QED
      BY <3>5, <3>6, <3>7 DEF NoData
  <2>4. process_day(df, d, 4, s) # {}
    <3>1. process_day(group_by_time(u, s), d, 4, s) # {}
      <4>1. \A t \in a .. b : day(t) = d => Max(ToSet(s.thresholds)) <= u[t]
        BY <2>3 DEF c
      <4> QED
        BY <1>3, <1>4, <1>6, <2>1, <4>1, BusyDayHasPeriod
    <3> QED
      BY <1>5, <3>1
  <2>5. PICK r \in process_day(df, d, 4, s) : TRUE
    BY <2>4
  <2>6. 4 \in Classes /\ 4 # 1
    BY DEF Classes
  <2>7. periods[4] = UNION {{<<e, p>> : p \in process_day(df, e, 4, s)} : e \in days}
    BY <2>6 DEF periods, divide_on_periods, days
  <2>8. <<d, r>> \in periods[4]
    BY <1>8, <2>5, <2>7
  <2> QED
    BY <2>6, <2>8
<1> HIDE DEF days, periods, all, c
<1> QED
  BY <1>1, <1>2, <1>7, <1>8 DEF all, c

-----------------------------------------------------------------------------
(* The mails                                                               *)

\* A quotient by a positive number and what is left.
LEMMA Division ==
  ASSUME NEW n \in Int, NEW d \in Nat \ {0}
  PROVE  /\ n \div d \in Int /\ n % d \in Int /\ 0 <= n % d /\ n % d < d
         /\ n = d * (n \div d) + (n % d)
  BY Z3

LEMMA Products ==
  ASSUME NEW a \in Int, NEW b \in Int, NEW c \in Nat
  PROVE  /\ a * c \in Int /\ b * c \in Int
         /\ a <= b => a * c <= b * c
         /\ a < b /\ c # 0 => a * c < b * c
  BY Z3

\* The greater of two fractions is not rounded to the smaller number.
LEMMA RoundOrder ==
  ASSUME NEW n \in Int, NEW d \in Nat \ {0}, NEW m \in Int, NEW e \in Nat \ {0}, n * e <= m * d
  PROVE  Round(n, d) <= Round(m, e)
<1> DEFINE p == n \div d
           r == n % d
           q == m \div e
           s == m % e
<1>1. p \in Int /\ r \in Int /\ 0 <= r /\ r < d /\ n = d * p + r
  BY Division
<1>2. q \in Int /\ s \in Int /\ 0 <= s /\ s < e /\ m = e * q + s
  BY Division
<1>3. Round(n, d) = IF 2 * r < d \/ (2 * r = d /\ p % 2 = 0) THEN p ELSE p + 1
  BY DEF Round
<1>4. Round(m, e) = IF 2 * s < e \/ (2 * s = e /\ q % 2 = 0) THEN q ELSE q + 1
  BY DEF Round
<1> HIDE DEF p, r, q, s
<1> DEFINE de == d * e
           pde == p * de
           qde == q * de
           re == r * e
           sd == s * d
<1>5. de \in Nat \ {0} /\ pde \in Int /\ qde \in Int /\ re \in Int /\ sd \in Int
  BY <1>1, <1>2, Z3
<1>6. n * e = pde + re /\ m * d = qde + sd
  <2>1. n * e = (d * p + r) * e /\ m * d = (e * q + s) * d
    BY <1>1, <1>2
  <2>2. (d * p + r) * e = p * (d * e) + r * e
    BY <1>1, Z3
  <2>3. (e * q + s) * d = q * (d * e) + s * d
    BY <1>2, Z3
  <2> QED
    BY <2>1, <2>2, <2>3
<1>7. 0 <= re /\ re < de
  <2>1. 0 * e <= r * e /\ r * e < d * e
    BY <1>1, Products
  <2> QED
    BY <2>1
<1>8. 0 <= sd /\ sd < de
  <2>1. 0 * d <= s * d /\ s * d < e * d
    BY <1>2, Products
  <2> QED
    BY <2>1
<1>9. pde + re <= qde + sd
  BY <1>6
<1>10. ASSUME q < p PROVE FALSE
  <2>1. q + 1 <= p /\ q + 1 \in Int
    BY <1>1, <1>2, <1>10
  <2>2. (q + 1) * de <= p * de /\ (q + 1) * de = qde + de
    BY <1>1, <1>2, <1>5, <2>1, Products, Z3
  <2> HIDE DEF de, pde, qde, re, sd
  <2>3. qde + de <= pde
    BY <2>2 DEF pde
  <2> QED
    BY <1>5, <1>7, <1>8, <1>9, <2>3
<1>11. CASE p < q
  BY <1>1, <1>2, <1>3, <1>4, <1>11
<1>12. CASE p = q
  <2>1. pde = qde
    BY <1>12
  <2>2. re <= sd
    <3> HIDE DEF pde, qde, re, sd
    <3> QED
      BY <1>5, <1>9, <2>1
  <2>3. ASSUME 2 * r > d PROVE 2 * s > e
    <3>1. d * e < (2 * r) * e
      BY <1>1, <2>3, Products
    <3>2. (2 * r) * e = 2 * re /\ (2 * s) * d = 2 * sd
      BY <1>1, <1>2
    <3>3. ~(2 * s > e) => (2 * s) * d <= e * d
      BY <1>2, Products
    <3>4. e * d = de
      OBVIOUS
    <3> HIDE DEF de, re, sd
    <3> QED
      BY <1>2, <1>5, <2>2, <3>1, <3>2, <3>3, <3>4 DEF de
  <2>4. ASSUME 2 * r = d PROVE 2 * s >= e
    <3>1. 2 * re = de
      <4>1. (2 * r) * e = d * e
        BY <2>4
      <4> QED
        BY <1>1, <4>1
    <3>2. (2 * s) * d = 2 * sd
      BY <1>2
    <3>3. 2 * s < e => (2 * s) * d < e * d
      BY <1>2, Products
    <3>4. e * d = de
      OBVIOUS
    <3> HIDE DEF de, re, sd
    <3> QED
      BY <1>2, <1>5, <2>2, <3>1, <3>2, <3>3, <3>4 DEF de
  <2> QED
    BY <1>1, <1>2, <1>3, <1>4, <1>12, <2>3, <2>4
<1> QED
  BY <1>1, <1>2, <1>10, <1>11, <1>12

\* A whole number is not changed.
LEMMA RoundWhole ==
  ASSUME NEW n \in Int
  PROVE  Round(n, 1) = n
<1>1. n \div 1 = n /\ n % 1 = 0
  BY Z3
<1> QED
  BY <1>1 DEF Round

\* A list of numbers has a greatest and a smallest one.
LEMMA ListTop ==
  ASSUME NEW list \in Seq(Int), list # << >>
  PROVE  /\ Max(ToSet(list)) \in ToSet(list) /\ Max(ToSet(list)) \in Int
         /\ \A x \in ToSet(list) : x <= Max(ToSet(list))
<1> DEFINE N == Len(list)
           G == {n \in 0..N : n # 0 => \E m \in 1..n : \A k \in 1..n : list[k] <= list[m]}
<1>1. N \in Nat \ {0} /\ \A n \in 1..N : list[n] \in Int
  OBVIOUS
<1>2. ToSet(list) = {list[n] : n \in 1..N}
  BY DEF ToSet
<1> HIDE DEF N
<1>3. 0 \in G
  BY <1>1
<1>4. ASSUME NEW n \in 1..N, n - 1 \in G PROVE n \in G
  <2>1. n \in 0..N /\ 1..n = 1..(n - 1) \cup {n} /\ list[n] \in Int /\ \A k \in 1..n : list[k] \in Int
    BY <1>1
  <2>2. CASE n = 1
    BY <2>1, <2>2
  <2>3. CASE n # 1
    <3>1. PICK m \in 1..(n - 1) : \A k \in 1..(n - 1) : list[k] <= list[m]
      BY <1>4, <2>3
    <3>2. CASE list[n] <= list[m]
      BY <2>1, <3>1, <3>2
    <3>3. CASE ~(list[n] <= list[m])
      <4>1. \A k \in 1..n : list[k] <= list[n]
        BY <2>1, <3>1, <3>3
      <4> QED
        BY <2>1, <4>1
    <3> QED
      BY <3>2, <3>3
  <2> QED
    BY <2>2, <2>3
<1>5. N \in G
  <2> HIDE DEF G
  <2>1. N \in 0..N
    BY <1>1
  <2> QED
    BY <1>1, <1>3, <1>4, <2>1, UpTo
<1>6. PICK m \in 1..N : \A k \in 1..N : list[k] <= list[m]
  BY <1>1, <1>5
<1>7. /\ ToSet(list) \in SUBSET Int /\ list[m] \in ToSet(list)
      /\ \A x \in ToSet(list) : x <= list[m]
  BY <1>1, <1>2, <1>6
<1> QED
  BY <1>7, TopIs

LEMMA ListBottom ==
  ASSUME NEW list \in Seq(Int), list # << >>
  PROVE  /\ Min(ToSet(list)) \in ToSet(list) /\ Min(ToSet(list)) \in Int
         /\ \A x \in ToSet(list) : Min(ToSet(list)) <= x
<1> DEFINE N == Len(list)
           less == [n \in 1..N |-> -list[n]]
<1>1. N \in Nat \ {0} /\ \A n \in 1..N : list[n] \in Int
  OBVIOUS
<1>2. ToSet(list) = {list[n] : n \in 1..N}
  BY DEF ToSet
<1>3. less \in Seq(Int) /\ less # << >> /\ DOMAIN less = 1..N
  <2> HIDE DEF N
  <2>1. less \in [1..N -> Int]
    BY <1>1
  <2> HIDE DEF less
  <2> QED
    BY <1>1, <2>1
<1>4. ToSet(less) = {-list[n] : n \in 1..N}
  BY <1>3 DEF ToSet
<1>5. Max(ToSet(less)) \in ToSet(less) /\ \A x \in ToSet(less) : x <= Max(ToSet(less))
  BY <1>3, ListTop
<1> HIDE DEF N, less
<1>6. PICK m \in 1..N : Max(ToSet(less)) = -list[m]
  BY <1>4, <1>5
<1>7. \A n \in 1..N : -list[n] <= -list[m]
  BY <1>4, <1>5, <1>6
<1>8. \A n \in 1..N : list[m] <= list[n]
  BY <1>1, <1>7
<1>9. /\ ToSet(list) \in SUBSET Int /\ list[m] \in ToSet(list)
      /\ \A x \in ToSet(list) : list[m] <= x
  BY <1>1, <1>2, <1>8
<1> QED
  BY <1>9, BottomIs

\* A list is multiplied one number after the other.
LEMMA ProductSteps ==
  ASSUME NEW list \in Seq(Int)
  PROVE  \E h \in [0..Len(list) -> Int] :
           /\ h[0] = 1 /\ Product(list) = h[Len(list)]
           /\ \A n \in 1..Len(list) : h[n] = h[n - 1] * list[n]
<1> DEFINE N == Len(list)
           T == Int
           step == [k \in 1..N |-> [s \in T |-> s * list[k]]]
           F(f) == [n \in 0..N |-> IF n = 0 THEN 1 ELSE f[n - 1] * list[n]]
<1>1. N \in Nat /\ (\A k \in 1..N : list[k] \in Int)
  OBVIOUS
<1>2. step \in [1..N -> [T -> T]] /\ 1 \in T
  BY <1>1
<1> HIDE DEF N, T, step
<1>3. PICK f : Iteration(f, N, T, 1, step)
  BY <1>1, <1>2, Iterates
<1>4. f \in [0..N -> T] /\ f[0] = 1
  BY <1>3 DEF Iteration
<1>5. ASSUME NEW k \in 1..N PROVE k \in 0..N /\ f[k] = f[k - 1] * list[k]
  <2> DEFINE s == f[k - 1]
  <2>1. k - 1 \in 0..N /\ k \in 0..N
    BY <1>1
  <2>2. s \in T /\ f[k] = step[k][s]
    BY <1>3, <1>4, <2>1 DEF Iteration
  <2> HIDE DEF s
  <2>3. step[k][s] = s * list[k]
    BY <2>2 DEF step
  <2> QED
    BY <2>1, <2>2, <2>3 DEF s
<1>6. f = F(f)
  <2>1. \A n \in 0..N : n # 0 => n \in 1..N
    BY <1>1
  <2>2. \A n \in 0..N : f[n] = IF n = 0 THEN 1 ELSE f[n - 1] * list[n]
    BY <1>4, <1>5, <2>1
  <2> QED
    BY <1>4, <2>2
<1> DEFINE h == CHOOSE x : x = F(x)
<1>7. h = F(h)
  <2> HIDE DEF F
  <2> QED
    BY <1>6
<1>8. Product(list) = h[N]
  BY DEF Product, N
<1> HIDE DEF h
<1>9. h[0] = 1 /\ \A n \in 1..N : h[n] = h[n - 1] * list[n]
  <2>1. 0 \in 0..N /\ \A n \in 1..N : n \in 0..N /\ n # 0
    BY <1>1
  <2> QED
    BY <1>7, <2>1
<1> DEFINE G == {n \in 0..N : h[n] \in Int}
<1>10. \A n \in 0..N : n \in G
  <2>1. 0 \in G
    BY <1>1, <1>9
  <2>2. ASSUME NEW n \in 1..N, n - 1 \in G PROVE n \in G
    <3>1. h[n] = h[n - 1] * list[n] /\ h[n - 1] \in Int /\ list[n] \in Int /\ n \in 0..N
      BY <1>1, <1>9, <2>2
    <3> DEFINE x == h[n - 1]
               y == list[n]
    <3>2. x * y \in Int
      BY <3>1
    <3> QED
      BY <3>1, <3>2
  <2> HIDE DEF G
  <2> QED
    BY <1>1, <2>1, <2>2, UpTo
<1>11. h \in [0..N -> T]
  BY <1>7, <1>10 DEF T
<1> QED
  BY <1>8, <1>9, <1>11 DEF N, T

\* What is needed of a recommendation in a mail.
IsItem(f) ==
  /\ f.price \in Nat \ {0}
  /\ f.percents \in Seq(Int) /\ f.percents # << >> /\ \A p \in ToSet(f.percents) : p <= 100

LEMMA PercentOfPrice ==
  ASSUME NEW s \in Int, NEW price \in Nat \ {0}, s <= price
  PROVE  Round(100 * s, price) \in Int /\ Round(100 * s, price) <= 100
<1>1. (100 * s) * 1 <= 100 * price /\ 100 * s \in Int
  OBVIOUS
<1>2. Round(100 * s, price) <= Round(100, 1)
  <2> DEFINE x == 100 * s
  <2>1. x \in Int /\ x * 1 <= 100 * price
    BY <1>1
  <2> HIDE DEF x
  <2>2. Round(x, price) <= Round(100, 1)
    BY <2>1, RoundOrder, 1 \in Nat \ {0}, 100 \in Int
  <2> QED
    BY <2>2 DEF x
<1>3. Round(100, 1) = 100
  BY RoundWhole, 100 \in Int
<1> QED
  BY <1>1, <1>2, <1>3, RoundedInt

LEMMA PercentsOfPrice ==
  ASSUME NEW d, d.price \in Nat \ {0}, NEW list \in Seq(Int), list # << >>,
         \A s \in ToSet(list) : s <= d.price
  PROVE  /\ Percents(d, list) \in Seq(Int) /\ Percents(d, list) # << >>
         /\ \A p \in ToSet(Percents(d, list)) : p <= 100
<1> DEFINE N == Len(list)
           percents == Percents(d, list)
<1>1. N \in Nat \ {0} /\ DOMAIN list = 1..N /\ \A n \in 1..N : list[n] \in Int /\ list[n] <= d.price
  BY DEF ToSet
<1>2. \A n \in 1..N : Round(100 * list[n], d.price) \in Int /\ Round(100 * list[n], d.price) <= 100
  BY <1>1, PercentOfPrice
<1>3. percents = [n \in 1..N |-> Round(100 * list[n], d.price)]
  BY <1>1 DEF Percents
<1> HIDE DEF N, percents
<1>4. percents \in [1..N -> Int] /\ \A n \in 1..N : percents[n] <= 100
  BY <1>2, <1>3
<1>5. percents \in Seq(Int) /\ Len(percents) = N
  BY <1>1, <1>4, FunctionIsList
<1> QED
  BY <1>1, <1>4, <1>5 DEF percents, ToSet

LEMMA ReverseElements ==
  ASSUME NEW S, NEW list \in Seq(S)
  PROVE  Reverse(list) \in Seq(S) /\ Len(Reverse(list)) = Len(list) /\ ToSet(Reverse(list)) \subseteq ToSet(list)
<1> DEFINE N == Len(list)
           r == Reverse(list)
<1>1. N \in Nat /\ ToSet(list) = {list[n] : n \in 1..N} /\ \A n \in 1..N : list[n] \in S
  BY DEF ToSet
<1>2. r = [i \in 1..N |-> list[(N - i) + 1]]
  BY DEF Reverse
<1> HIDE DEF N, r
<1>3. \A i \in 1..N : (N - i) + 1 \in 1..N
  BY <1>1
<1>4. r \in [1..N -> S] /\ \A i \in 1..N : r[i] \in ToSet(list)
  BY <1>1, <1>2, <1>3
<1>5. r \in Seq(S) /\ Len(r) = N
  BY <1>1, <1>4, FunctionIsList
<1> QED
  BY <1>4, <1>5 DEF r, N, ToSet

\* A recommendation in a mail is about the resource of its document, and no percent of
\* what it saves is more than all.
LEMMA FormattedFields ==
  ASSUME NEW d, IsDocument(d), Usable(d), NEW f \in ToSet(format_recommendation(d))
  PROVE  f.resource = d.resource /\ f.type = d.type /\ f.price = d.price /\ IsItem(f)
<1>1. /\ d.price \in Nat \ {0} /\ d.savings \in Seq(Int) /\ d.savings # << >>
      /\ \A s \in ToSet(d.savings) : s <= d.price
  BY DEF IsDocument, Usable
<1>2. \A x : ToSet(<<x>>) = {x}
  BY DEF ToSet
<1>3. ToSet(<< >>) = {}
  BY DEF ToSet
<1>4. CASE d.type = "SHUTDOWN"
  <2>1. f = _format_shutdown_recommendation(d)
    BY <1>2, <1>4 DEF format_recommendation
  <2>2. <<100>> \in Seq(Int) /\ <<100>> # << >> /\ \A p \in ToSet(<<100>>) : p <= 100
    BY <1>2
  <2> QED
    BY <1>1, <2>1, <2>2 DEF _format_shutdown_recommendation, Formatted, IsItem
<1>5. CASE d.type = "SCHEDULE"
  <2>1. f = _format_schedule_recommendation(d)
    BY <1>2, <1>5 DEF format_recommendation
  <2> DEFINE list == Percents(d, d.savings)
  <2>2. list \in Seq(Int) /\ list # << >> /\ \A p \in ToSet(list) : p <= 100
    BY <1>1, PercentsOfPrice
  <2> HIDE DEF list
  <2>3. f = Formatted(d, Ascending(d.savings), list)
    BY <2>1 DEF _format_schedule_recommendation, list
  <2> QED
    BY <1>1, <2>2, <2>3 DEF Formatted, IsItem
<1>6. CASE d.type \in {"CHANGE_SHAPE", "SCALE_UP", "SCALE_DOWN", "SPLIT"}
  <2>1. f = _format_resize_recommendation(d)
    BY <1>2, <1>6 DEF format_recommendation
  <2> DEFINE all == Reverse(d.savings)
             ends == IF Len(all) > 2 THEN <<all[1], all[Len(all)]>> ELSE all
             list == Percents(d, ends)
  <2>2. all \in Seq(Int) /\ Len(all) # 0 /\ Len(all) \in Nat /\ \A s \in ToSet(all) : s <= d.price
    <3>1. Len(d.savings) # 0 /\ Len(d.savings) \in Nat
      BY <1>1
    <3> QED
      BY <1>1, <3>1, ReverseElements
  <2>3. f = Formatted(d, ends, list)
    BY <2>1 DEF _format_resize_recommendation
  <2> HIDE DEF all
  <2>4. ends \in Seq(Int) /\ ends # << >> /\ \A s \in ToSet(ends) : s <= d.price
    <3>1. CASE Len(all) > 2
      <4>1. 1 \in DOMAIN all /\ Len(all) \in DOMAIN all
        BY <2>2, <3>1
      <4> DEFINE x == all[1]
                 y == all[Len(all)]
      <4>2. x \in Int /\ y \in Int /\ x \in ToSet(all) /\ y \in ToSet(all)
        BY <2>2, <4>1 DEF ToSet
      <4>3. ends = <<x, y>>
        BY <3>1
      <4> HIDE DEF x, y, ends
      <4>4. ToSet(<<x, y>>) = {x, y}
        BY DEF ToSet
      <4>5. <<x, y>> \in Seq(Int) /\ <<x, y>> # << >>
        BY <4>2
      <4> QED
        BY <2>2, <4>2, <4>3, <4>4, <4>5
    <3>2. CASE ~(Len(all) > 2)
      <4>1. ends = all /\ all # << >>
        BY <2>2, <3>2
      <4> QED
        BY <2>2, <4>1
    <3> QED
      BY <3>1, <3>2
  <2> HIDE DEF ends
  <2>5. list \in Seq(Int) /\ list # << >> /\ \A p \in ToSet(list) : p <= 100
    BY <1>1, <2>4, PercentsOfPrice
  <2> HIDE DEF list
  <2> QED
    BY <1>1, <2>3, <2>5 DEF Formatted, IsItem
<1>7. CASE d.type \notin {"SHUTDOWN", "SCHEDULE", "CHANGE_SHAPE", "SCALE_UP", "SCALE_DOWN", "SPLIT"}
  <2>1. format_recommendation(d) = << >>
    BY <1>7 DEF format_recommendation
  <2> QED
    BY <1>3, <2>1
<1> QED
  BY <1>4, <1>5, <1>6, <1>7

\* No saving that a mail shows exceeds the price shown with it.
HasSavings(f) ==
  /\ f.price \in Nat
  /\ f.saving \in Seq(Int) /\ f.saving # << >> /\ \A s \in ToSet(f.saving) : s <= f.price

LEMMA FormattedSavings ==
  ASSUME NEW d, IsDocument(d), Usable(d), NEW f \in ToSet(format_recommendation(d))
  PROVE  HasSavings(f)
<1>1. /\ d.price \in Nat /\ d.savings \in Seq(Int) /\ Len(d.savings) \in Nat \ {0}
      /\ \A s \in ToSet(d.savings) : s <= d.price
  BY DEF IsDocument, Usable
<1>2. \A x : ToSet(<<x>>) = {x}
  BY DEF ToSet
<1>3. ToSet(<< >>) = {}
  BY DEF ToSet
<1> DEFINE up == Ascending(d.savings)
           down == Reverse(d.savings)
<1>4. up \in Seq(Int) /\ up # << >> /\ \A s \in ToSet(up) : s <= d.price
  <2>1. up \in Seq(Int) /\ ToSet(up) = ToSet(d.savings)
    BY <1>1, SortedElements DEF Ascending
  <2>2. d.savings[1] \in ToSet(d.savings)
    BY <1>1 DEF ToSet
  <2>3. up # << >>
    BY <1>3, <2>1, <2>2
  <2> QED
    BY <1>1, <2>1, <2>3
<1>5. down \in Seq(Int) /\ Len(down) = Len(d.savings) /\ \A s \in ToSet(down) : s <= d.price
  BY <1>1, ReverseElements
<1> HIDE DEF up, down
<1>6. CASE d.type = "SHUTDOWN"
  <2>1. f = _format_shutdown_recommendation(d)
    BY <1>2, <1>6 DEF format_recommendation
  <2>2. f.price = d.price /\ f.saving = up
    BY <2>1 DEF _format_shutdown_recommendation, Formatted, up
  <2> QED
    BY <1>1, <1>4, <2>2 DEF HasSavings
<1>7. CASE d.type = "SCHEDULE"
  <2>1. f = _format_schedule_recommendation(d)
    BY <1>2, <1>7 DEF format_recommendation
  <2>2. f.price = d.price /\ f.saving = up
    BY <2>1 DEF _format_schedule_recommendation, Formatted, up
  <2> QED
    BY <1>1, <1>4, <2>2 DEF HasSavings
<1>8. CASE d.type \in {"CHANGE_SHAPE", "SCALE_UP", "SCALE_DOWN", "SPLIT"}
  <2> DEFINE ends == IF Len(down) > 2 THEN <<down[1], down[Len(down)]>> ELSE down
  <2>1. f = _format_resize_recommendation(d)
    BY <1>2, <1>8 DEF format_recommendation
  <2>2. f.price = d.price /\ f.saving = ends
    BY <2>1 DEF _format_resize_recommendation, Formatted, down
  <2>3. ends \in Seq(Int) /\ ends # << >> /\ \A s \in ToSet(ends) : s <= d.price
    <3>1. CASE Len(down) > 2
      <4> DEFINE x == down[1]
                 y == down[Len(down)]
      <4>1. x \in Int /\ y \in Int /\ x \in ToSet(down) /\ y \in ToSet(down)
        BY <1>1, <1>5, <3>1 DEF ToSet
      <4>2. ends = <<x, y>>
        BY <3>1
      <4> HIDE DEF x, y, ends
      <4>3. ToSet(<<x, y>>) = {x, y} /\ <<x, y>> \in Seq(Int) /\ <<x, y>> # << >>
        BY <4>1 DEF ToSet
      <4> QED
        BY <1>5, <4>1, <4>2, <4>3
    <3>2. CASE ~(Len(down) > 2)
      <4>1. ends = down /\ down # << >>
        BY <1>1, <1>5, <3>2
      <4> QED
        BY <1>5, <4>1
    <3> QED
      BY <3>1, <3>2
  <2> QED
    BY <1>1, <2>2, <2>3 DEF HasSavings
<1>9. CASE d.type \notin {"SHUTDOWN", "SCHEDULE", "CHANGE_SHAPE", "SCALE_UP", "SCALE_DOWN", "SPLIT"}
  <2>1. format_recommendation(d) = << >>
    BY <1>9 DEF format_recommendation
  <2> QED
    BY <1>3, <2>1
<1> QED
  BY <1>6, <1>7, <1>8, <1>9

\* One factor more: of x the share y is left, then q percents of that.
LEMMA ShareStarts ==
  ASSUME NEW x \in Nat, NEW y \in Nat, NEW c \in Nat, y <= x
  PROVE  100 * (y * c) <= c * (x * 100)
<1>1. y * c <= x * c /\ y * c \in Int /\ x * c \in Int
  BY Products
<1>2. c * (x * 100) = 100 * (x * c)
  BY Z3
<1> DEFINE a == y * c
           b == x * c
<1>3. a <= b /\ a \in Int /\ b \in Int
  BY <1>1
<1> HIDE DEF a, b
<1>4. 100 * a <= 100 * b
  BY <1>3
<1> QED
  BY <1>2, <1>4 DEF a, b

LEMMA ShareStays ==
  ASSUME NEW x \in Nat, NEW y \in Nat, NEW c \in Nat, NEW q \in Nat, q <= 100, 100 * y <= c * x
  PROVE  100 * (y * q) <= c * (x * 100)
<1> DEFINE a == 100 * y
           b == c * x
<1>1. a \in Nat /\ b \in Nat /\ a <= b
  BY Z3
<1>2. 100 * (y * q) = a * q /\ c * (x * 100) = 100 * b
  BY Z3
<1> HIDE DEF a, b
<1>3. a * q <= b * q /\ a * q \in Int /\ b * q \in Int
  BY <1>1, Products
<1>4. q * b <= 100 * b /\ q * b \in Int
  BY <1>1, Products
<1>5. b * q = q * b
  BY <1>1
<1> QED
  BY <1>1, <1>2, <1>3, <1>4, <1>5

LEMMA ShareSmaller ==
  ASSUME NEW x \in Nat, NEW y \in Nat, NEW q \in Nat, q <= 100, y <= x
  PROVE  y * q <= x * 100
<1>1. q * y <= 100 * y /\ q * y \in Int /\ y * q = q * y
  BY Products
<1> QED
  BY <1>1

\* All shares together are at most the whole, and if none is negative at least each of them.
LEMMA SavingShare ==
  ASSUME NEW list \in Seq(Int), \A n \in DOMAIN list : list[n] <= 100
  PROVE  LET g == get_saving_percent(list)
         IN  /\ g.whole \in Nat \ {0} /\ g.part \in Int /\ g.part <= g.whole
             /\ (\A n \in DOMAIN list : 0 <= list[n]) => \A n \in DOMAIN list : list[n] * g.whole <= 100 * g.part
             /\ Len(list) = 1 => g.part = list[1] /\ g.whole = 100
<1> DEFINE N == Len(list)
           hundreds == [n \in DOMAIN list |-> 100]
           lefts == [n \in DOMAIN list |-> 100 - list[n]]
           g == get_saving_percent(list)
           whole == Product(hundreds)
           rest == Product(lefts)
<1>1. N \in Nat /\ DOMAIN list = 1..N /\ \A n \in 1..N : list[n] \in Int /\ list[n] <= 100
  OBVIOUS
<1>2. g.whole = whole /\ g.part = whole - rest
  BY DEF get_saving_percent
<1>3. /\ hundreds \in Seq(Int) /\ Len(hundreds) = N /\ lefts \in Seq(Int) /\ Len(lefts) = N
      /\ \A n \in 1..N : hundreds[n] = 100 /\ lefts[n] = 100 - list[n]
  <2> HIDE DEF N
  <2>1. hundreds \in [1..N -> Int] /\ lefts \in [1..N -> Int]
    BY <1>1
  <2>2. \A n \in 1..N : hundreds[n] = 100 /\ lefts[n] = 100 - list[n]
    BY <1>1
  <2> HIDE DEF hundreds, lefts
  <2> QED
    BY <1>1, <2>1, <2>2, FunctionIsList
<1> HIDE DEF g, N, hundreds, lefts
<1>4. PICK w \in [0..N -> Int] :
        w[0] = 1 /\ whole = w[N] /\ \A n \in 1..N : w[n] = w[n - 1] * hundreds[n]
  <2>1. hundreds \in Seq(Int) /\ Len(hundreds) = N
    BY <1>3
  <2>2. \E h \in [0..Len(hundreds) -> Int] :
          /\ h[0] = 1 /\ Product(hundreds) = h[Len(hundreds)]
          /\ \A n \in 1..Len(hundreds) : h[n] = h[n - 1] * hundreds[n]
    BY <2>1, ProductSteps
  <2> QED
    BY <2>1, <2>2
<1>5. PICK r \in [0..N -> Int] :
        r[0] = 1 /\ rest = r[N] /\ \A n \in 1..N : r[n] = r[n - 1] * lefts[n]
  <2>1. lefts \in Seq(Int) /\ Len(lefts) = N
    BY <1>3
  <2>2. \E h \in [0..Len(lefts) -> Int] :
          /\ h[0] = 1 /\ Product(lefts) = h[Len(lefts)]
          /\ \A n \in 1..Len(lefts) : h[n] = h[n - 1] * lefts[n]
    BY <2>1, ProductSteps
  <2> QED
    BY <2>1, <2>2
<1>6. N \in 0..N
  BY <1>1
<1> HIDE DEF whole, rest
<1> DEFINE Positive == {n \in 0..N : 0 < w[n] /\ 0 <= r[n]}
<1>7. ASSUME NEW n \in 1..N
      PROVE  /\ n \in 0..N /\ n - 1 \in 0..N
             /\ w[n - 1] \in Int /\ r[n - 1] \in Int
             /\ w[n] = w[n - 1] * 100 /\ r[n] = r[n - 1] * (100 - list[n])
             /\ list[n] \in Int /\ list[n] <= 100
  <2>1. n \in 0..N /\ n - 1 \in 0..N
    BY <1>1
  <2> QED
    BY <1>1, <1>3, <1>4, <1>5, <2>1
<1>8. \A n \in 0..N : n \in Positive
  <2>1. 0 \in Positive
    BY <1>1, <1>4, <1>5
  <2>2. ASSUME NEW n \in 1..N, n - 1 \in Positive PROVE n \in Positive
    <3> DEFINE x == w[n - 1]
               y == r[n - 1]
               q == 100 - list[n]
    <3>1. /\ x \in Int /\ y \in Int /\ 0 < x /\ 0 <= y /\ w[n] = x * 100 /\ r[n] = y * q
          /\ q \in Nat
      BY <1>7, <2>2
    <3> HIDE DEF x, y, q
    <3>2. 0 * q <= y * q
      BY <3>1, Products
    <3>3. 0 < w[n] /\ 0 <= r[n]
      BY <3>1, <3>2
    <3> QED
      BY <1>7, <3>3
  <2> HIDE DEF Positive
  <2> QED
    BY <1>1, <2>1, <2>2, UpTo
<1>9. 0 < whole /\ 0 <= rest /\ whole \in Int /\ rest \in Int
  BY <1>4, <1>5, <1>6, <1>8
<1>10. \A n \in 0..N : w[n] \in Nat /\ r[n] \in Nat
  BY <1>8
<1> HIDE DEF Positive
<1>11. ASSUME \A n \in 1..N : 0 <= list[n], NEW k \in 1..N
       PROVE  list[k] * whole <= 100 * (whole - rest)
  <2> DEFINE c == 100 - list[k]
             Smaller == {n \in 0..N : r[n] <= w[n]}
             G == {n \in 0..N : n >= k => 100 * r[n] <= c * w[n]}
  <2>1. list[k] \in Int /\ c \in Nat /\ k \in Nat \ {0} /\ N >= k
    <3>1. list[k] \in Int /\ 0 <= list[k] /\ list[k] <= 100
      BY <1>1, <1>11
    <3>2. k \in Nat \ {0} /\ N >= k
      BY <1>1
    <3> HIDE DEF N
    <3> QED
      BY <3>1, <3>2
  <2>2. ASSUME NEW n \in 1..N
        PROVE  \E x, y, q \in Nat :
                 /\ x = w[n - 1] /\ y = r[n - 1] /\ q = 100 - list[n] /\ q <= 100
                 /\ w[n] = x * 100 /\ r[n] = y * q
    <3> DEFINE a == list[n]
    <3>0. a \in Int /\ 0 <= a /\ a <= 100
      BY <1>1, <1>11
    <3> HIDE DEF a
    <3>1. 100 - a \in Nat /\ 100 - a <= 100
      BY <3>0
    <3>2. w[n - 1] \in Nat /\ r[n - 1] \in Nat
      BY <1>7, <1>10
    <3>3. w[n] = w[n - 1] * 100 /\ r[n] = r[n - 1] * (100 - a)
      BY <1>7 DEF a
    <3> QED
      BY <3>1, <3>2, <3>3 DEF a
  <2>3. \A n \in 0..N : n \in Smaller
    <3>1. 0 \in Smaller
      BY <1>1, <1>4, <1>5
    <3>2. ASSUME NEW n \in 1..N, n - 1 \in Smaller PROVE n \in Smaller
      <4>1. PICK x, y, q \in Nat :
              /\ x = w[n - 1] /\ y = r[n - 1] /\ q = 100 - list[n] /\ q <= 100
              /\ w[n] = x * 100 /\ r[n] = y * q
        BY <2>2
      <4>2. y * q <= x * 100
        BY <3>2, <4>1, ShareSmaller
      <4> QED
        BY <1>7, <4>1, <4>2
    <3> HIDE DEF Smaller
    <3> QED
      BY <1>1, <3>1, <3>2, UpTo
  <2>4. 0 \in G
    BY <1>1, <2>1
  <2>5. ASSUME NEW n \in 1..N, n - 1 \in G PROVE n \in G
    <3>1. PICK x, y, q \in Nat :
            /\ x = w[n - 1] /\ y = r[n - 1] /\ q = 100 - list[n] /\ q <= 100
            /\ w[n] = x * 100 /\ r[n] = y * q
      BY <2>2
    <3>2. n \in 0..N /\ n - 1 \in 0..N
      BY <1>7
    <3>3. CASE n = k
      <4>1. q = c /\ y <= x
        BY <2>3, <3>1, <3>2, <3>3
      <4> HIDE DEF c
      <4>2. 100 * (y * c) <= c * (x * 100)
        BY <2>1, <4>1, ShareStarts
      <4> QED
        BY <3>1, <3>2, <4>1, <4>2
    <3>4. CASE n > k
      <4>1. n - 1 >= k
        BY <2>1, <3>4
      <4>2. 100 * y <= c * x
        BY <2>5, <3>1, <4>1
      <4> HIDE DEF c
      <4>3. 100 * (y * q) <= c * (x * 100)
        BY <2>1, <3>1, <4>2, ShareStays
      <4> QED
        BY <3>1, <3>2, <4>3
    <3>5. CASE ~(n >= k)
      BY <3>2, <3>5
    <3> QED
      BY <2>1, <3>2, <3>3, <3>4, <3>5
  <2>6. 100 * rest <= c * whole
    <3>1. N \in G
      <4> HIDE DEF G
      <4> QED
        BY <1>1, <1>6, <2>4, <2>5, UpTo
    <3> QED
      BY <1>4, <1>5, <2>1, <3>1
  <2> HIDE DEF G, Smaller
  <2> DEFINE p == list[k]
             pw == p * whole
  <2>7. p \in Int /\ c = 100 - p
    BY <2>1
  <2> HIDE DEF p, c
  <2>8. c * whole = 100 * whole - pw /\ pw \in Int
    <3>1. (100 - p) * whole = 100 * whole - p * whole
      BY <1>9, <2>7, Z3
    <3> QED
      BY <1>9, <2>7, <3>1
  <2> DEFINE cw == c * whole
  <2>9. cw = 100 * whole - pw /\ 100 * rest <= cw
    BY <2>6, <2>8
  <2> HIDE DEF pw, cw
  <2>10. pw <= 100 * (whole - rest)
    BY <1>9, <2>8, <2>9
  <2> QED
    BY <2>10 DEF pw, p
<1>12. ASSUME N = 1 PROVE whole - rest = list[1] /\ whole = 100
  <2>1. 1 \in 1..N /\ list[1] \in Int
    BY <1>1, <1>12
  <2>2. w[1] = 1 * 100 /\ r[1] = 1 * (100 - list[1])
    BY <1>4, <1>5, <1>7, <2>1
  <2> QED
    BY <1>4, <1>5, <1>12, <2>1, <2>2
<1>13. g.whole \in Nat \ {0} /\ g.part \in Int /\ g.part <= g.whole
  BY <1>2, <1>9
<1>14. (\A n \in DOMAIN list : 0 <= list[n]) => \A n \in DOMAIN list : list[n] * g.whole <= 100 * g.part
  BY <1>1, <1>2, <1>11
<1>15. Len(list) = 1 => g.part = list[1] /\ g.whole = 100
  BY <1>2, <1>12 DEF N
<1> QED
  BY <1>13, <1>14, <1>15 DEF g

\* What shares save of a price is no more than it, and if none is negative no less than
\* what each of them saves.
LEMMA SharesSave ==
  ASSUME NEW list \in Seq(Int), \A n \in DOMAIN list : list[n] <= 100, NEW price \in Nat \ {0}
  PROVE  LET g == get_saving_percent(list)
             saved == Round(price * g.part, g.whole)
         IN  /\ saved \in Int /\ saved <= price
             /\ (\A n \in DOMAIN list : 0 <= list[n]) \/ Len(list) = 1 =>
                  \A n \in DOMAIN list : Round(price * list[n], 100) <= saved
<1> DEFINE g == get_saving_percent(list)
           part == g.part
           whole == g.whole
           x == price * part
<1>1. /\ whole \in Nat \ {0} /\ part \in Int /\ part <= whole
      /\ (\A n \in DOMAIN list : 0 <= list[n]) => \A n \in DOMAIN list : list[n] * whole <= 100 * part
      /\ Len(list) = 1 => part = list[1] /\ whole = 100
  BY SavingShare
<1> HIDE DEF part, whole
<1>2. x \in Int
  BY <1>1
<1>3. Round(x, whole) \in Int
  BY <1>1, <1>2, RoundedInt
<1>4. Round(x, whole) <= price
  <2>1. part * price <= whole * price /\ x * 1 = part * price /\ price * whole = whole * price
    BY <1>1, Products
  <2>2. x * 1 <= price * whole
    BY <2>1
  <2> HIDE DEF x
  <2>3. Round(x, whole) <= Round(price, 1)
    BY <1>1, <1>2, <2>2, RoundOrder, 1 \in Nat \ {0}
  <2>4. Round(price, 1) = price
    BY RoundWhole
  <2> QED
    BY <2>3, <2>4
<1>5. ASSUME (\A n \in DOMAIN list : 0 <= list[n]) \/ Len(list) = 1, NEW n \in DOMAIN list
      PROVE  Round(price * list[n], 100) <= Round(x, whole)
  <2> DEFINE p == list[n]
             y == price * p
  <2>1. p \in Int
    OBVIOUS
  <2>2. p * whole <= 100 * part
    <3>1. CASE Len(list) = 1
      <4>1. p = list[1]
        BY <3>1
      <4> QED
        BY <1>1, <2>1, <3>1, <4>1
    <3>2. CASE \A m \in DOMAIN list : 0 <= list[m]
      BY <1>1, <3>2
    <3> QED
      BY <1>5, <3>1, <3>2
  <2> HIDE DEF p
  <2>3. y \in Int /\ y * whole <= x * 100
    <3> DEFINE a == p * whole
               b == 100 * part
    <3>1. a \in Int /\ b \in Int /\ a <= b
      BY <1>1, <2>1, <2>2
    <3>2. y * whole = a * price /\ x * 100 = b * price /\ y \in Int
      BY <1>1, <2>1, Z3
    <3> HIDE DEF a, b, x, y
    <3>3. a * price <= b * price
      BY <3>1, Products
    <3> QED
      BY <3>2, <3>3
  <2> HIDE DEF x, y
  <2>4. Round(y, 100) <= Round(x, whole)
    BY <1>1, <1>2, <2>3, RoundOrder, 100 \in Nat \ {0}
  <2> QED
    BY <2>4 DEF y, p
<1> QED
  BY <1>3, <1>4, <1>5 DEF x, part, whole

\* What the options of a resource save is no more than its price, and no less than what
\* each of them promises.
LEMMA OwnSaving ==
  ASSUME NEW S, NEW own \in Seq(S), own # << >>, \A n \in DOMAIN own : IsItem(own[n]),
         NEW price \in Nat \ {0}
  PROVE  LET saving == Max(_get_resource_saving(own, price))
         IN  /\ saving \in Int /\ saving <= price
             /\ \A n \in DOMAIN own : Round(price * BestPercent(own[n]), 100) <= saving
<1> DEFINE N == Len(own)
           least == [n \in DOMAIN own |-> LeastPercent(own[n])]
           best == [n \in DOMAIN own |-> BestPercent(own[n])]
           losses == Filtered(least, {p \in ToSet(least) : p <= 0})
           gains == Filtered(best, {p \in ToSet(best) : p >= 0})
           lower == IF losses # << >> THEN losses ELSE <<Min(ToSet(least))>>
           upper == IF gains # << >> THEN gains ELSE <<Max(ToSet(best))>>
           saved(list) == Round(price * get_saving_percent(list).part, get_saving_percent(list).whole)
<1>1. N \in Nat \ {0} /\ DOMAIN own = 1..N
  OBVIOUS
<1>2. ASSUME NEW n \in 1..N
      PROVE  /\ LeastPercent(own[n]) \in Int /\ LeastPercent(own[n]) <= 100
             /\ BestPercent(own[n]) \in Int /\ BestPercent(own[n]) <= 100
  <2> DEFINE list == own[n].percents
  <2>1. list \in Seq(Int) /\ list # << >> /\ \A p \in ToSet(list) : p <= 100
    BY <1>1, <1>2 DEF IsItem
  <2> HIDE DEF list
  <2>2. /\ Min(ToSet(list)) \in ToSet(list) /\ Min(ToSet(list)) \in Int
        /\ Max(ToSet(list)) \in ToSet(list) /\ Max(ToSet(list)) \in Int
    BY <2>1, ListTop, ListBottom
  <2> QED
    BY <2>1, <2>2 DEF LeastPercent, BestPercent, list
<1>3. /\ least \in Seq(Int) /\ Len(least) = N /\ \A n \in 1..N : least[n] = LeastPercent(own[n])
      /\ best \in Seq(Int) /\ Len(best) = N /\ \A n \in 1..N : best[n] = BestPercent(own[n])
  <2> HIDE DEF N
  <2>1. least \in [1..N -> Int] /\ best \in [1..N -> Int]
    BY <1>1, <1>2
  <2>2. \A n \in 1..N : least[n] = LeastPercent(own[n]) /\ best[n] = BestPercent(own[n])
    BY <1>1
  <2> HIDE DEF least, best
  <2> QED
    BY <1>1, <2>1, <2>2, FunctionIsList
<1>4. _get_resource_saving(own, price) = {saved(lower), saved(upper)}
  BY DEF _get_resource_saving, _get_min_saving_percent, _get_max_saving_percent
<1> HIDE DEF N, least, best
<1>5. /\ ToSet(least) = {least[n] : n \in 1..N} /\ least # << >>
      /\ ToSet(best) = {best[n] : n \in 1..N} /\ best # << >>
  <2>1. \A s : s \in Seq(Int) /\ Len(s) = N => ToSet(s) = {s[n] : n \in 1..N} /\ s # << >>
    BY <1>1 DEF ToSet
  <2> QED
    BY <1>3, <2>1
<1>6. /\ \A x \in ToSet(least) : x \in Int /\ x <= 100
      /\ \A x \in ToSet(best) : x \in Int /\ x <= 100
  BY <1>2, <1>3, <1>5
<1>7. lower \in Seq(Int) /\ \A n \in DOMAIN lower : lower[n] <= 100
  <2>1. CASE losses # << >>
    <3>1. losses \in Seq(Int) /\ ToSet(losses) \subseteq ToSet(least)
      <4> DEFINE kept == {p \in ToSet(least) : p <= 0}
      <4> HIDE DEF kept
      <4>1. Filtered(least, kept) \in Seq(Int) /\ ToSet(Filtered(least, kept)) = ToSet(least) \cap kept
        BY <1>3, FilteredElements
      <4> QED
        BY <4>1 DEF kept
    <3>2. lower = losses
      BY <2>1
    <3> HIDE DEF lower, losses
    <3> QED
      BY <1>6, <3>1, <3>2 DEF ToSet
  <2>2. CASE losses = << >>
    <3> DEFINE x == Min(ToSet(least))
    <3>1. x \in ToSet(least)
      BY <1>3, <1>5, ListBottom
    <3>2. lower = <<x>>
      BY <2>2
    <3> HIDE DEF lower, losses, x
    <3> QED
      BY <1>6, <3>1, <3>2
  <2> QED
    BY <2>1, <2>2
<1>8. /\ upper \in Seq(Int) /\ \A n \in DOMAIN upper : upper[n] <= 100
      /\ (\A n \in DOMAIN upper : 0 <= upper[n]) \/ Len(upper) = 1
      /\ \A x \in ToSet(best) : \E n \in DOMAIN upper : upper[n] >= x
  <2>1. CASE gains # << >>
    <3>1. gains \in Seq(Int) /\ ToSet(gains) = {p \in ToSet(best) : p >= 0}
      <4> DEFINE kept == {p \in ToSet(best) : p >= 0}
      <4>1. ToSet(best) \cap kept = kept
        OBVIOUS
      <4> HIDE DEF kept
      <4>2. Filtered(best, kept) \in Seq(Int) /\ ToSet(Filtered(best, kept)) = ToSet(best) \cap kept
        BY <1>3, FilteredElements
      <4> QED
        BY <4>1, <4>2 DEF kept
    <3>2. upper = gains
      BY <2>1
    <3>3. upper \in Seq(Int) /\ upper # << >> /\ ToSet(upper) = {p \in ToSet(best) : p >= 0}
      BY <2>1, <3>1, <3>2
    <3> HIDE DEF upper, gains
    <3>4. /\ 1 \in DOMAIN upper
          /\ \A n \in DOMAIN upper : upper[n] \in ToSet(best) /\ upper[n] \in Int /\ 0 <= upper[n] /\ upper[n] <= 100
      <4>1. 1 \in DOMAIN upper
        BY <3>3
      <4>2. \A n \in DOMAIN upper : upper[n] \in ToSet(upper)
        BY DEF ToSet
      <4> QED
        BY <1>6, <3>3, <4>1, <4>2
    <3>5. \A x \in ToSet(best) : \E n \in DOMAIN upper : upper[n] >= x
      <4> SUFFICES ASSUME NEW x \in ToSet(best) PROVE \E n \in DOMAIN upper : upper[n] >= x
        OBVIOUS
      <4>1. x \in Int
        BY <1>6
      <4>2. CASE x >= 0
        <5>1. x \in ToSet(upper)
          BY <3>3, <4>2
        <5>2. PICK n \in DOMAIN upper : upper[n] = x
          BY <5>1 DEF ToSet
        <5> QED
          BY <4>1, <5>2
      <4>3. CASE ~(x >= 0)
        <5>1. upper[1] >= x
          BY <3>4, <4>1, <4>3
        <5> QED
          BY <3>4, <5>1
      <4> QED
        BY <4>2, <4>3
    <3> QED
      BY <3>3, <3>4, <3>5
  <2>2. CASE gains = << >>
    <3> DEFINE x == Max(ToSet(best))
    <3>1. x \in ToSet(best) /\ x \in Int /\ \A y \in ToSet(best) : y <= x
      BY <1>3, <1>5, ListTop
    <3>2. upper = <<x>>
      BY <2>2
    <3> HIDE DEF upper, gains, x
    <3>3. upper \in Seq(Int) /\ Len(upper) = 1 /\ DOMAIN upper = {1} /\ upper[1] = x
      BY <3>1, <3>2
    <3>4. \A y \in ToSet(best) : x >= y
      BY <1>6, <3>1
    <3> QED
      BY <1>6, <3>1, <3>3, <3>4
  <2> QED
    BY <2>1, <2>2
<1> HIDE DEF lower, upper
<1>9. saved(lower) \in Int /\ saved(lower) <= price
  BY <1>7, SharesSave
<1>10. /\ saved(upper) \in Int /\ saved(upper) <= price
       /\ \A n \in DOMAIN upper : Round(price * upper[n], 100) <= saved(upper)
  BY <1>8, SharesSave
<1> DEFINE a == saved(lower)
           b == saved(upper)
           saving == Max(_get_resource_saving(own, price))
<1>11. saving \in Int /\ saving <= price /\ b <= saving
  <2>1. saving = Max({a, b}) /\ a \in Int /\ b \in Int /\ a <= price /\ b <= price
    BY <1>4, <1>9, <1>10
  <2> HIDE DEF a, b, saving
  <2>2. Max({a, b}) = IF a <= b THEN b ELSE a
    BY <2>1, TopOfTwo
  <2> QED
    BY <2>1, <2>2
<1>12. ASSUME NEW n \in DOMAIN own PROVE Round(price * BestPercent(own[n]), 100) <= saving
  <2> DEFINE x == best[n]
             y == price * x
  <2>1. x \in ToSet(best) /\ x \in Int /\ x = BestPercent(own[n])
    BY <1>1, <1>3, <1>5, <1>6
  <2>2. PICK m \in DOMAIN upper : upper[m] >= x
    BY <1>8, <2>1
  <2> DEFINE z == upper[m]
             u == price * z
  <2>3. z \in Int /\ z >= x
    BY <1>8, <2>2
  <2>4. Round(u, 100) <= b
    BY <1>10, <2>2
  <2> HIDE DEF x, z
  <2>5. u \in Int /\ y \in Int /\ y * 100 <= u * 100
    <3>1. x * price <= z * price /\ x * price = y /\ z * price = u /\ y \in Int /\ u \in Int
      BY <2>1, <2>3, Products
    <3> HIDE DEF y, u
    <3>2. y <= u /\ y \in Int /\ u \in Int
      BY <3>1
    <3> QED
      BY <3>2
  <2> HIDE DEF y, u, b, saving
  <2>6. Round(y, 100) <= Round(u, 100)
    BY <2>5, RoundOrder, 100 \in Nat \ {0}
  <2>7. Round(y, 100) \in Int /\ Round(u, 100) \in Int
    BY <2>5, RoundedInt, 100 \in Nat \ {0}
  <2>8. Round(y, 100) <= saving
    BY <1>10, <1>11, <2>4, <2>6, <2>7 DEF b
  <2> QED
    BY <2>1, <2>8 DEF y
<1> QED
  BY <1>11, <1>12 DEF saving

LEMMA PickedElements ==
  ASSUME NEW S, NEW list \in Seq(S), NEW places
  PROVE  /\ Picked(list, places) \in Seq(S)
         /\ \A x \in ToSet(Picked(list, places)) : \E n \in DOMAIN list : n \in places /\ x = list[n]
<1> DEFINE lists == [n \in DOMAIN list |-> IF n \in places THEN <<list[n]>> ELSE << >>]
<1>1. DOMAIN list = 1..Len(list) /\ Len(list) \in Nat /\ \A n \in 1..Len(list) : list[n] \in S
  OBVIOUS
<1>2. \A n \in 1..Len(list) :
        lists[n] \in Seq(S) /\ ToSet(lists[n]) = IF n \in places THEN {list[n]} ELSE {}
  <2> TAKE n \in 1..Len(list)
  <2>1. CASE n \in places
    <3>1. lists[n] = <<list[n]>> /\ list[n] \in S
      BY <1>1, <2>1
    <3> HIDE DEF lists
    <3>2. ToSet(<<list[n]>>) = {list[n]}
      BY DEF ToSet
    <3> QED
      BY <2>1, <3>1, <3>2
  <2>2. CASE n \notin places
    <3>1. lists[n] = << >>
      BY <1>1, <2>2
    <3> HIDE DEF lists
    <3>2. ToSet(<< >>) = {}
      BY DEF ToSet
    <3> QED
      BY <2>2, <3>1, <3>2
  <2> QED
    BY <2>1, <2>2
<1>3. lists \in Seq(Seq(S)) /\ DOMAIN lists = 1..Len(list)
  <2>1. lists \in [1..Len(list) -> Seq(S)]
    BY <1>1, <1>2
  <2> HIDE DEF lists
  <2> QED
    BY <1>1, <2>1
<1>4. Picked(list, places) = FlattenSeq(lists)
  BY DEF Picked
<1> HIDE DEF lists
<1>5. FlattenSeq(lists) \in Seq(S) /\ ToSet(FlattenSeq(lists)) = UNION {ToSet(lists[n]) : n \in 1..Len(list)}
  BY <1>3, FlattenElements
<1>6. ASSUME NEW x \in UNION {ToSet(lists[n]) : n \in 1..Len(list)}
      PROVE  \E n \in DOMAIN list : n \in places /\ x = list[n]
  <2>1. PICK n \in 1..Len(list) : x \in ToSet(lists[n])
    OBVIOUS
  <2> QED
    BY <1>1, <1>2, <2>1
<1> QED
  BY <1>4, <1>5, <1>6

\* The documents that count for a mail, and of those the ones of a resource.
Recent(documents, since) == {d \in ToSet(documents) : Usable(d) /\ d.at > since}
SameResource(docs, d) == {e \in docs : e.resource = d.resource}

\* d is by the job that saved the last document of its resource.
ByLastJob(d, docs) ==
  \E g \in SameResource(docs, d) : g.job = d.job /\ \A e \in SameResource(docs, d) : e.at <= g.at

LEMMA LatestInOrder ==
  ASSUME NEW documents, IsHistory(documents), NEW since \in Int
  PROVE  LET list == Latest(Filtered(documents, {d \in ToSet(documents) : d.at > since}))
         IN  /\ list \in Seq(ToSet(documents)) /\ ToSet(list) = Recent(documents, since)
             /\ \A m, n \in DOMAIN list : m < n => list[n].at <= list[m].at
<1> DEFINE D == ToSet(documents)
           late == {d \in D : d.at > since}
           recent == Filtered(documents, late)
           good == {d \in ToSet(recent) : Usable(d)}
           usable == Filtered(recent, good)
           before == {p \in ToSet(usable) \X ToSet(usable) : p[1].at > p[2].at}
           list == Latest(recent)
<1>1. documents \in Seq(D) /\ \A d \in D : d.at \in Int
  BY DEF IsHistory, IsDocument
<1>2. list = Sorted(usable, before)
  BY DEF Latest
<1> HIDE DEF list, before
<1>3. recent \in Seq(D) /\ ToSet(recent) = D \cap late
  <2> HIDE DEF D, late
  <2>1. Filtered(documents, late) \in Seq(D) /\ ToSet(Filtered(documents, late)) = ToSet(documents) \cap late
    BY <1>1, FilteredElements
  <2> QED
    BY <2>1 DEF D
<1>4. usable \in Seq(D) /\ ToSet(usable) = ToSet(recent) \cap good
  <2> HIDE DEF D, recent, good
  <2> QED
    BY <1>3, FilteredElements
<1>5. ToSet(usable) = Recent(documents, since)
  <2>1. ToSet(recent) = late
    BY <1>3
  <2>2. good \subseteq ToSet(recent)
    OBVIOUS
  <2> HIDE DEF recent, usable
  <2> QED
    BY <1>4, <2>1, <2>2 DEF Recent
<1> HIDE DEF usable
<1> DEFINE U == ToSet(usable)
<1>6. usable \in Seq(U) /\ U \subseteq D
  <2>1. DOMAIN usable = 1..Len(usable) /\ Len(usable) \in Nat /\ \A n \in 1..Len(usable) : usable[n] \in D
    BY <1>4
  <2>2. \A n \in 1..Len(usable) : usable[n] \in U
    BY <2>1 DEF ToSet
  <2>3. U \subseteq D
    BY <2>1 DEF ToSet
  <2> HIDE DEF U
  <2> QED
    BY <1>4, <2>1, <2>2, <2>3
<1>7. Orders(before, U)
  <2>1. \A x, y \in U : <<x, y>> \in before <=> x.at > y.at
    BY DEF before
  <2>2. \A x \in U : x.at \in Int
    BY <1>1, <1>6
  <2> HIDE DEF U
  <2>3. \A x, y \in U : <<x, y>> \in before => <<y, x>> \notin before
    BY <2>1, <2>2
  <2>4. ASSUME NEW x \in U, NEW y \in U, NEW z \in U, <<x, y>> \notin before, <<y, z>> \notin before
        PROVE  <<x, z>> \notin before
    BY <2>1, <2>2, <2>4
  <2> QED
    BY <2>3, <2>4 DEF Orders
<1>8. list \in Seq(U) /\ ToSet(list) = U /\ InOrder(list, before)
  <2> HIDE DEF U
  <2>1. Sorted(usable, before) \in Seq(U) /\ ToSet(Sorted(usable, before)) = ToSet(usable)
    BY <1>6, SortedElements
  <2>2. InOrder(Sorted(usable, before), before)
    BY <1>6, <1>7, SortedOrder
  <2> QED
    BY <1>2, <2>1, <2>2 DEF U
<1>9. ASSUME NEW m \in DOMAIN list, NEW n \in DOMAIN list, m < n PROVE list[n].at <= list[m].at
  <2>1. <<list[n], list[m]>> \notin before
    BY <1>8, <1>9 DEF InOrder
  <2>2. list[n] \in U /\ list[m] \in U
    BY <1>8
  <2>3. list[n].at \in Int /\ list[m].at \in Int
    BY <1>1, <1>6, <2>2
  <2>4. ~(list[n].at > list[m].at)
    BY <2>1, <2>2 DEF before
  <2> QED
    BY <2>3, <2>4
<1>10. list \in Seq(D)
  <2>1. Seq(U) \subseteq Seq(D)
    BY <1>6
  <2> QED
    BY <1>8, <2>1
<1> QED
  BY <1>5, <1>8, <1>9, <1>10 DEF list, recent, D, late

LEMMA LatestJob ==
  ASSUME NEW documents, IsHistory(documents), NEW since \in Int
  PROVE  LET chosen == filter_latest_job_resource(Filtered(documents, {d \in ToSet(documents) : d.at > since}))
         IN  /\ chosen \in Seq(ToSet(documents))
             /\ \A d \in ToSet(chosen) : d \in Recent(documents, since) /\ ByLastJob(d, Recent(documents, since))
             /\ \A d, e \in ToSet(chosen) : d.resource = e.resource => d.job = e.job
<1> DEFINE R == Recent(documents, since)
           recent == Filtered(documents, {d \in ToSet(documents) : d.at > since})
           list == Latest(recent)
           chosen == filter_latest_job_resource(recent)
           Places(r) == {n \in DOMAIN list : list[n].resource = r}
           first(r) == Min(Places(r))
           kept == {n \in DOMAIN list :
                      /\ list[n].job = list[first(list[n].resource)].job
                      /\ \A m \in 1 .. n - 1 : \/ list[m].resource # list[n].resource
                                               \/ list[m].type # list[n].type
                                               \/ ~(list[m].job = list[first(list[m].resource)].job)}
<1>1. /\ list \in Seq(ToSet(documents)) /\ ToSet(list) = R
      /\ \A m, n \in DOMAIN list : m < n => list[n].at <= list[m].at
  BY LatestInOrder
<1>2. chosen = Picked(list, kept)
  BY DEF filter_latest_job_resource
<1>3. \A d \in R : d.at \in Int
  BY DEF Recent, IsHistory, IsDocument
<1> HIDE DEF R, list, chosen
<1>4. DOMAIN list = 1..Len(list) /\ Len(list) \in Nat /\ R = {list[n] : n \in DOMAIN list}
  BY <1>1 DEF ToSet
<1>5. ASSUME NEW n \in DOMAIN list
      PROVE  LET m == first(list[n].resource)
             IN  /\ m \in DOMAIN list /\ list[m].resource = list[n].resource
                 /\ \A k \in DOMAIN list : list[k].resource = list[n].resource => list[k].at <= list[m].at
  <2> DEFINE T == Places(list[n].resource)
             m == Min(T)
  <2>1. T \in SUBSET Nat /\ n \in T
    BY <1>4
  <2>2. m \in T /\ \A k \in T : m <= k
    <3> HIDE DEF T
    <3> QED
      BY <2>1, Bottom
  <2> HIDE DEF m
  <2>3. m \in DOMAIN list /\ list[m].resource = list[n].resource
    BY <2>2
  <2>4. ASSUME NEW k \in DOMAIN list, list[k].resource = list[n].resource PROVE list[k].at <= list[m].at
    <3>1. m <= k
      BY <2>2, <2>4
    <3>2. CASE m = k
      <4>1. list[m].at \in Int
        BY <1>3, <1>4, <2>3
      <4> QED
        BY <3>2, <4>1
    <3>3. CASE m # k
      <4>1. m < k
        BY <1>4, <2>3, <3>1, <3>3
      <4> QED
        BY <1>1, <2>3, <4>1
    <3> QED
      BY <3>2, <3>3
  <2> QED
    BY <2>3, <2>4 DEF m
<1>6. /\ chosen \in Seq(ToSet(documents))
      /\ \A d \in ToSet(chosen) : \E n \in DOMAIN list : n \in kept /\ d = list[n]
  <2> HIDE DEF kept
  <2> QED
    BY <1>1, <1>2, PickedElements
<1>7. ASSUME NEW d \in ToSet(chosen)
      PROVE  d \in R /\ first(d.resource) \in DOMAIN list /\ d.job = list[first(d.resource)].job
  <2>1. PICK n \in DOMAIN list : n \in kept /\ d = list[n]
    BY <1>6
  <2>2. list[n].job = list[first(list[n].resource)].job
    BY <2>1
  <2> HIDE DEF kept, first
  <2> QED
    BY <1>4, <1>5, <2>1, <2>2
<1>8. ASSUME NEW d \in ToSet(chosen) PROVE ByLastJob(d, R)
  <2>1. PICK n \in DOMAIN list : d = list[n]
    BY <1>6
  <2> DEFINE m == first(d.resource)
             g == list[m]
  <2>2. /\ m \in DOMAIN list /\ g.resource = d.resource
        /\ \A k \in DOMAIN list : list[k].resource = d.resource => list[k].at <= g.at
    BY <1>5, <2>1
  <2>3. g.job = d.job
    BY <1>7
  <2> HIDE DEF m
  <2>4. g \in R
    BY <1>4, <2>2
  <2>5. \A e \in R : e.resource = d.resource => e.at <= g.at
    BY <1>4, <2>2
  <2> QED
    BY <2>2, <2>3, <2>4, <2>5 DEF ByLastJob, SameResource
<1>9. \A d, e \in ToSet(chosen) : d.resource = e.resource => d.job = e.job
  <2> HIDE DEF first
  <2> QED
    BY <1>7
<1> QED
  BY <1>6, <1>7, <1>8, <1>9 DEF R, chosen

\* The sum of numbers that are as great as others, and one of them by p greater.
LEMMA TotalExceeds ==
  ASSUME NEW N \in Nat, NEW x \in [1..N -> Int], NEW y \in [1..N -> Int],
         NEW j \in Nat \ {0}, NEW p \in Nat,
         \A n \in 1..N : x[n] <= y[n], j <= N => x[j] + p <= y[j]
  PROVE  /\ Total(x) \in Int /\ Total(y) \in Int /\ Total(x) <= Total(y)
         /\ j <= N => Total(x) + p <= Total(y)
<1>1. x \in Seq(Int) /\ Len(x) = N /\ y \in Seq(Int) /\ Len(y) = N
  BY FunctionIsList
<1>2. PICK h \in [0..N -> Int] :
        h[0] = 0 /\ Total(x) = h[N] /\ \A n \in 1..N : h[n] = h[n - 1] + x[n]
  <2>1. \E g \in [0..Len(x) -> Int] :
          /\ g[0] = 0 /\ Total(x) = g[Len(x)]
          /\ \A n \in 1..Len(x) : g[n] = g[n - 1] + x[n]
    BY <1>1, TotalSteps
  <2>2. Len(x) = N
    BY <1>1
  <2> QED
    BY <2>1, <2>2
<1>3. PICK k \in [0..N -> Int] :
        k[0] = 0 /\ Total(y) = k[N] /\ \A n \in 1..N : k[n] = k[n - 1] + y[n]
  <2>1. \E g \in [0..Len(y) -> Int] :
          /\ g[0] = 0 /\ Total(y) = g[Len(y)]
          /\ \A n \in 1..Len(y) : g[n] = g[n - 1] + y[n]
    BY <1>1, TotalSteps
  <2>2. Len(y) = N
    BY <1>1
  <2> QED
    BY <2>1, <2>2
<1> DEFINE G == {n \in 0..N : h[n] <= k[n] /\ (j <= n => h[n] + p <= k[n])}
<1>4. 0 \in G
  BY <1>2, <1>3
<1>5. ASSUME NEW n \in 1..N, n - 1 \in G PROVE n \in G
  <2> DEFINE a == h[n - 1]
             b == k[n - 1]
             s == x[n]
             t == y[n]
  <2>1. /\ a \in Int /\ b \in Int /\ s \in Int /\ t \in Int /\ n \in 0..N
        /\ h[n] = a + s /\ k[n] = b + t /\ a <= b /\ s <= t
        /\ j < n => a + p <= b
        /\ j = n => s + p <= t
    <3>1. n - 1 \in 0..N /\ n \in 0..N /\ (j < n => j <= n - 1)
      OBVIOUS
    <3>2. a \in Int /\ b \in Int /\ s \in Int /\ t \in Int
      BY <3>1
    <3>3. h[n] = a + s /\ k[n] = b + t /\ s <= t
      BY <1>2, <1>3
    <3>4. a <= b /\ (j < n => a + p <= b)
      BY <1>5, <3>1
    <3>5. j = n => s + p <= t
      OBVIOUS
    <3> QED
      BY <3>1, <3>2, <3>3, <3>4, <3>5
  <2> HIDE DEF a, b, s, t
  <2> QED
    BY <2>1
<1>6. N \in G
  <2> HIDE DEF G
  <2>1. N \in 0..N
    OBVIOUS
  <2> QED
    BY <1>4, <1>5, <2>1, UpTo
<1> QED
  BY <1>2, <1>3, <1>6

\* The sums of a list of recommendations: each resource counts once, and its gain with its
\* price.
LEMMA SummarySaves ==
  ASSUME NEW S, NEW list \in Seq(S), \A f \in ToSet(list) : HasSavings(f)
  PROVE  SavesItsCost(_resources_summary(list))
<1> DEFINE N == Len(list)
           used(n) == \E m \in 1 .. n - 1 : list[m].resource = list[n].resource
           losses == [n \in DOMAIN list |-> IF used(n) THEN 0 ELSE Loss(list[n])]
           gains == [n \in DOMAIN list |-> IF used(n) THEN 0 ELSE Gain(list[n])]
           prices == [n \in DOMAIN list |-> IF used(n) THEN 0 ELSE list[n].price]
           zeros == [n \in DOMAIN list |-> 0]
           summary == _resources_summary(list)
<1>1. N \in Nat /\ DOMAIN list = 1..N
  OBVIOUS
<1>2. ASSUME NEW n \in 1..N
      PROVE  /\ Loss(list[n]) \in Int /\ Loss(list[n]) <= 0
             /\ Gain(list[n]) \in Int /\ list[n].price \in Int /\ Gain(list[n]) <= list[n].price
             /\ 0 <= list[n].price
  <2> DEFINE f == list[n]
             k == Len(f.saving)
             x == f.saving[1]
             y == f.saving[k]
  <2>1. HasSavings(f)
    BY <1>1, <1>2 DEF ToSet
  <2>2. f.price \in Nat /\ k \in Nat \ {0}
    BY <2>1 DEF HasSavings
  <2>3. x \in Int /\ y \in Int /\ y <= f.price
    <3>1. x \in Int /\ y \in Int /\ y \in ToSet(f.saving)
      BY <2>1, <2>2 DEF HasSavings, ToSet
    <3> QED
      BY <2>1, <3>1 DEF HasSavings
  <2>4. Loss(f) = (IF k <= 2 /\ x < 0 THEN x ELSE 0) /\ Gain(f) = IF k <= 2 /\ y > 0 THEN y ELSE 0
    BY DEF Loss, Gain
  <2> HIDE DEF x, y, k
  <2> QED
    BY <2>2, <2>3, <2>4
<1>3. /\ losses \in [1..N -> Int] /\ gains \in [1..N -> Int] /\ prices \in [1..N -> Int]
      /\ zeros \in [1..N -> Int]
      /\ \A n \in 1..N : losses[n] <= zeros[n] /\ gains[n] <= prices[n]
  <2> HIDE DEF N, used
  <2> QED
    BY <1>1, <1>2
<1>4. /\ summary.estimated_saving = <<Total(losses), Total(gains)>>
      /\ summary.current_estimated_cost = Total(prices)
  BY <1>1 DEF _resources_summary, Counted
<1> HIDE DEF summary, losses, gains, prices
<1>5. Total(zeros) = 0
  <2>1. zeros \in Seq(Int) /\ Len(zeros) = N
    BY <1>1, <1>3, FunctionIsList
  <2>2. PICK g \in [0..N -> Int] :
          g[0] = 0 /\ Total(zeros) = g[N] /\ \A n \in 1..N : g[n] = g[n - 1] + zeros[n]
    <3> HIDE DEF N, zeros
    <3>1. \E g \in [0..Len(zeros) -> Int] :
            /\ g[0] = 0 /\ Total(zeros) = g[Len(zeros)]
            /\ \A n \in 1..Len(zeros) : g[n] = g[n - 1] + zeros[n]
      BY <2>1, TotalSteps
    <3> QED
      BY <2>1, <3>1
  <2> DEFINE G == {n \in 0..N : g[n] = 0}
  <2>3. 0 \in G
    BY <1>1, <2>2
  <2>4. ASSUME NEW n \in 1..N, n - 1 \in G PROVE n \in G
    <3>1. zeros[n] = 0 /\ n \in 0..N
      BY <1>1
    <3>2. g[n] = g[n - 1] + zeros[n]
      BY <2>2
    <3>3. g[n - 1] = 0
      BY <2>4
    <3> QED
      BY <3>1, <3>2, <3>3
  <2>5. N \in G
    <3> HIDE DEF G, N
    <3>1. N \in 0..N
      BY <1>1
    <3> QED
      BY <1>1, <2>3, <2>4, <3>1, UpTo
  <2> QED
    BY <2>2, <2>5
<1> HIDE DEF zeros, N
<1> DEFINE j == N + 1
<1>6. j \in Nat \ {0} /\ ~(j <= N) /\ 0 \in Nat
  BY <1>1
<1> HIDE DEF j
<1>7. Total(losses) <= Total(zeros)
  BY <1>1, <1>3, <1>6, TotalExceeds
<1>8. Total(gains) <= Total(prices)
  BY <1>1, <1>3, <1>6, TotalExceeds
<1> QED
  BY <1>4, <1>5, <1>7, <1>8 DEF SavesItsCost, summary

\* What the first ones of the resources in a list cost, if they are in a set.
Prices(list, resources) ==
  [n \in DOMAIN list |->
     IF (\E m \in 1 .. n - 1 : list[m].resource = list[n].resource) \/ list[n].resource \notin resources
     THEN 0 ELSE list[n].price]

\* A list of which all elements are in another one does not cost more: each resource
\* counts once, and has one price.
LEMMA CostAtMost ==
  ASSUME NEW S, NEW a \in Seq(S), NEW b \in Seq(S), ToSet(a) \subseteq ToSet(b),
         \A x \in ToSet(b) : x.price \in Nat,
         \A x, y \in ToSet(b) : x.resource = y.resource => x.price = y.price
  PROVE  Counted(a, [n \in DOMAIN a |-> a[n].price]) <= Counted(b, [n \in DOMAIN b |-> b[n].price])
<1> DEFINE N == Len(a)
           M == Len(b)
           usedA(n) == \E m \in 1 .. n - 1 : a[m].resource = a[n].resource
           usedB(n) == \E m \in 1 .. n - 1 : b[m].resource = b[n].resource
           x == [n \in DOMAIN a |-> IF usedA(n) THEN 0 ELSE a[n].price]
           y == [n \in DOMAIN b |-> IF usedB(n) THEN 0 ELSE b[n].price]
           Seen(k) == {a[m].resource : m \in 1..k}
           z(k) == Prices(b, Seen(k))
<1>1. /\ N \in Nat /\ DOMAIN a = 1..N /\ M \in Nat /\ DOMAIN b = 1..M
      /\ ToSet(a) = {a[n] : n \in 1..N} /\ ToSet(b) = {b[n] : n \in 1..M}
  BY DEF ToSet
<1>2. /\ \A n \in 1..N : a[n] \in ToSet(b) /\ a[n].price \in Nat
      /\ \A n \in 1..M : b[n] \in ToSet(b) /\ b[n].price \in Nat
  BY <1>1
<1>3. Counted(a, [n \in DOMAIN a |-> a[n].price]) = Total(x)
  <2> DEFINE amounts == [n \in DOMAIN a |-> a[n].price]
  <2>1. [n \in DOMAIN a |-> IF usedA(n) THEN 0 ELSE amounts[n]] = x
    OBVIOUS
  <2> HIDE DEF amounts, x
  <2> QED
    BY <2>1 DEF Counted, amounts
<1>4. Counted(b, [n \in DOMAIN b |-> b[n].price]) = Total(y)
  <2> DEFINE amounts == [n \in DOMAIN b |-> b[n].price]
  <2>1. [n \in DOMAIN b |-> IF usedB(n) THEN 0 ELSE amounts[n]] = y
    OBVIOUS
  <2> HIDE DEF amounts, y
  <2> QED
    BY <2>1 DEF Counted, amounts
<1>5. x \in [1..N -> Int] /\ \A n \in 1..N : x[n] = IF usedA(n) THEN 0 ELSE a[n].price
  BY <1>1, <1>2
<1>6. y \in [1..M -> Int] /\ \A n \in 1..M : y[n] = IF usedB(n) THEN 0 ELSE b[n].price
  BY <1>1, <1>2
<1>7. ASSUME NEW k
      PROVE  /\ z(k) \in [1..M -> Int]
             /\ \A n \in 1..M : z(k)[n] = IF usedB(n) \/ b[n].resource \notin Seen(k) THEN 0 ELSE b[n].price
  BY <1>1, <1>2 DEF Prices
<1>8. x \in Seq(Int) /\ Len(x) = N
  <2> HIDE DEF N, x
  <2> QED
    BY <1>1, <1>5, FunctionIsList
<1> HIDE DEF N, M, x, y, z
<1>9. PICK h \in [0..N -> Int] :
        h[0] = 0 /\ Total(x) = h[N] /\ \A n \in 1..N : h[n] = h[n - 1] + x[n]
  BY <1>8, TotalSteps
<1> DEFINE G == {k \in 0..N : h[k] <= Total(z(k))}
<1>10. 0 \in G
  <2> DEFINE zeros == [n \in 1..M |-> 0]
  <2>1. z(0) \in Seq(Int) /\ Len(z(0)) = M /\ \A n \in 1..Len(z(0)) : 0 <= z(0)[n]
    <3>1. z(0) \in Seq(Int) /\ Len(z(0)) = M
      BY <1>1, <1>7, FunctionIsList
    <3>2. \A n \in 1..M : 0 <= z(0)[n]
      BY <1>2, <1>7
    <3> QED
      BY <3>1, <3>2
  <2>2. Total(z(0)) \in Int /\ 0 * Len(z(0)) <= Total(z(0))
    BY <2>1, TotalAtLeast, 0 \in Nat
  <2>3. 0 * Len(z(0)) = 0
    BY <1>1, <2>1
  <2> QED
    BY <1>1, <1>9, <2>2, <2>3
<1>11. ASSUME NEW k \in 1..N, k - 1 \in G PROVE k \in G
  <2>1. k - 1 \in 0..N /\ k \in 0..N /\ h[k] = h[k - 1] + x[k] /\ h[k - 1] <= Total(z(k - 1)) /\ h[k - 1] \in Int
    BY <1>1, <1>9, <1>11
  <2> DEFINE r == a[k].resource
  <2>2. Seen(k) = Seen(k - 1) \cup {r}
    <3>1. 1..k = 1..(k - 1) \cup {k}
      BY <1>1
    <3> QED
      BY <3>1
  <2>3. CASE usedA(k)
    <3>1. r \in Seen(k - 1)
      BY <2>3
    <3>2. Seen(k) = Seen(k - 1)
      BY <2>2, <3>1
    <3>3. z(k) = z(k - 1)
      BY <3>2 DEF z
    <3>4. h[k] = h[k - 1]
      BY <1>5, <2>1, <2>3
    <3> QED
      BY <2>1, <3>3, <3>4
  <2>4. CASE ~usedA(k)
    <3>1. r \notin Seen(k - 1) /\ x[k] = a[k].price
      BY <1>5, <2>4
    <3> DEFINE T == {n \in 1..M : b[n].resource = r}
               p == a[k].price
    <3>2. p \in Nat /\ T \in SUBSET Nat /\ T # {}
      <4>1. PICK n \in 1..M : a[k] = b[n]
        BY <1>1, <1>2
      <4>2. n \in T
        BY <4>1
      <4>3. T \in SUBSET Nat
        BY <1>1
      <4> QED
        BY <1>2, <4>2, <4>3
    <3>3. PICK j \in T : \A n \in T : j <= n
      <4> HIDE DEF T
      <4> QED
        BY <3>2, Least
    <3>4. j \in 1..M /\ b[j].resource = r /\ ~usedB(j)
      <4>1. ASSUME NEW m \in 1 .. j - 1, b[m].resource = b[j].resource PROVE FALSE
        <5>1. m \in T /\ ~(j <= m)
          BY <1>1, <4>1
        <5> QED
          BY <3>3, <5>1
      <4> QED
        BY <4>1
    <3>5. b[j].price = p
      BY <1>1, <1>2, <3>4
    <3> HIDE DEF T, p, usedB
    <3>6. z(k)[j] = p /\ z(k - 1)[j] = 0
      <4> HIDE DEF Seen
      <4> QED
        BY <1>7, <2>2, <3>1, <3>4, <3>5
    <3>7. \A n \in 1..M : z(k - 1)[n] <= z(k)[n]
      <4> SUFFICES ASSUME NEW n \in 1..M PROVE z(k - 1)[n] <= z(k)[n]
        OBVIOUS
      <4>1. b[n].resource \in Seen(k - 1) => b[n].resource \in Seen(k)
        BY <2>2
      <4> HIDE DEF Seen
      <4>2. b[n].price \in Nat
        BY <1>2
      <4>3. z(k)[n] = IF usedB(n) \/ b[n].resource \notin Seen(k) THEN 0 ELSE b[n].price
        BY <1>7 DEF usedB
      <4>4. z(k - 1)[n] = IF usedB(n) \/ b[n].resource \notin Seen(k - 1) THEN 0 ELSE b[n].price
        BY <1>7 DEF usedB
      <4> QED
        BY <4>1, <4>2, <4>3, <4>4
    <3> DEFINE u == z(k - 1)
               v == z(k)
    <3>8. u \in [1..M -> Int] /\ v \in [1..M -> Int] /\ u[j] + p <= v[j] /\ (\A n \in 1..M : u[n] <= v[n])
      BY <1>7, <3>2, <3>6, <3>7
    <3>9. M \in Nat /\ j \in Nat \ {0} /\ j <= M
      BY <1>1, <3>4
    <3> HIDE DEF u, v
    <3>10. Total(u) \in Int /\ Total(v) \in Int /\ Total(u) + p <= Total(v)
      BY <3>2, <3>8, <3>9, TotalExceeds
    <3>11. h[k - 1] <= Total(u) /\ h[k] = h[k - 1] + p
      BY <2>1, <3>1 DEF p, u
    <3>12. h[k] <= Total(v)
      <4> DEFINE c == h[k - 1]
                 d == h[k]
                 e == Total(u)
                 g == Total(v)
      <4>1. c \in Int /\ e \in Int /\ g \in Int /\ c <= e /\ d = c + p /\ e + p <= g
        BY <2>1, <3>10, <3>11
      <4> HIDE DEF c, d, e, g
      <4>2. d <= g
        BY <3>2, <4>1
      <4> QED
        BY <4>2 DEF d, g
    <3> QED
      BY <2>1, <3>12 DEF v
  <2> QED
    BY <2>3, <2>4
<1>12. Total(x) <= Total(z(N))
  <2> HIDE DEF G
  <2>1. N \in 0..N
    BY <1>1
  <2>2. N \in G
    BY <1>1, <1>10, <1>11, <2>1, UpTo
  <2> QED
    BY <1>9, <2>2 DEF G
<1>13. /\ Total(z(N)) \in Int /\ Total(y) \in Int /\ Total(z(N)) <= Total(y)
  <2> DEFINE u == z(N)
  <2>1. u \in [1..M -> Int] /\ \A n \in 1..M : u[n] <= y[n]
    <3>1. \A n \in 1..M : u[n] = 0 \/ u[n] = y[n]
      BY <1>6, <1>7
    <3>2. \A n \in 1..M : 0 <= y[n] /\ y[n] \in Int
      BY <1>2, <1>6
    <3>3. u \in [1..M -> Int]
      BY <1>7
    <3> HIDE DEF u
    <3>4. \A n \in 1..M : y[n] <= y[n]
      BY <3>2
    <3> QED
      BY <3>1, <3>2, <3>3, <3>4
  <2>2. 1 <= M => u[1] + 0 <= y[1]
    <3>1. 1 <= M => 1 \in 1..M
      BY <1>1
    <3>2. 1 <= M => u[1] \in Int /\ u[1] <= y[1]
      BY <2>1, <3>1
    <3> QED
      BY <3>2
  <2> HIDE DEF u
  <2>3. Total(u) \in Int /\ Total(y) \in Int /\ Total(u) <= Total(y)
    BY <1>1, <1>6, <2>1, <2>2, TotalExceeds, 1 \in Nat \ {0}, 0 \in Nat
  <2> QED
    BY <2>3 DEF u
<1>14. Total(x) \in Int
  BY <1>1, <1>9
<1> DEFINE c == Total(x)
           d == Total(z(N))
           e == Total(y)
<1>15. c \in Int /\ d \in Int /\ e \in Int /\ c <= d /\ d <= e
  BY <1>12, <1>13, <1>14
<1> HIDE DEF c, d, e
<1>16. c <= e
  BY <1>15
<1> QED
  BY <1>3, <1>4, <1>16 DEF c, e

\* Nor does it have more resources.
LEMMA CountAtMost ==
  ASSUME NEW S, NEW a \in Seq(S), NEW b \in Seq(S), ToSet(a) \subseteq ToSet(b)
  PROVE  Cardinality({a[n].resource : n \in DOMAIN a}) <= Cardinality({b[n].resource : n \in DOMAIN b})
<1> DEFINE A == {a[n].resource : n \in DOMAIN a}
           B == {b[n].resource : n \in DOMAIN b}
           f == [n \in DOMAIN b |-> b[n].resource]
<1>1. A \subseteq B
  <2> SUFFICES ASSUME NEW n \in DOMAIN a PROVE a[n].resource \in B
    OBVIOUS
  <2>1. a[n] \in ToSet(b)
    BY DEF ToSet
  <2>2. PICK m \in DOMAIN b : a[n] = b[m]
    BY <2>1 DEF ToSet
  <2> QED
    BY <2>2
<1>2. IsFiniteSet(DOMAIN b)
  <2>1. DOMAIN b = 1..Len(b) /\ Len(b) \in Nat
    OBVIOUS
  <2> QED
    BY <2>1, FS_Interval, 1 \in Int
<1>3. IsFiniteSet(B)
  <2>1. f \in [DOMAIN b -> B] /\ \A y \in B : \E n \in DOMAIN b : f[n] = y
    OBVIOUS
  <2> HIDE DEF f, B
  <2>2. f \in Surjection(DOMAIN b, B)
    BY <2>1 DEF Surjection
  <2> QED
    BY <1>2, <2>2, FS_Surjection
<1> HIDE DEF A, B
<1>4. Cardinality(A) <= Cardinality(B)
  BY <1>1, <1>3, FS_Subset
<1> QED
  BY <1>4 DEF A, B

\* All that the documents of a set may become.
AllFormatted(docs) == UNION {ToSet(format_recommendation(d)) : d \in docs}

LEMMA FormattedElements ==
  ASSUME NEW D, NEW chosen \in Seq(D)
  PROVE  /\ FormattedAll(chosen) \in Seq(AllFormatted(D))
         /\ \A f \in ToSet(FormattedAll(chosen)) : \E d \in ToSet(chosen) : f \in ToSet(format_recommendation(d))
<1> DEFINE N == Len(chosen)
           S == AllFormatted(D)
           lists == [n \in DOMAIN chosen |-> format_recommendation(chosen[n])]
<1>1. N \in Nat /\ DOMAIN chosen = 1..N /\ \A n \in 1..N : chosen[n] \in D /\ chosen[n] \in ToSet(chosen)
  BY DEF ToSet
<1>2. ASSUME NEW d \in D PROVE format_recommendation(d) \in Seq(S)
  <2> DEFINE list == format_recommendation(d)
  <2>1. list = << >> \/ \E x : list = <<x>>
    BY DEF format_recommendation
  <2>2. ToSet(list) \subseteq S
    BY DEF AllFormatted
  <2> HIDE DEF list, S
  <2>3. ASSUME list = << >> PROVE list \in Seq(S)
    BY <2>3
  <2>4. ASSUME list # << >> PROVE list \in Seq(S)
    <3>1. PICK x : list = <<x>>
      BY <2>1, <2>4
    <3>2. ToSet(<<x>>) = {x}
      BY DEF ToSet
    <3>3. x \in S
      BY <2>2, <3>1, <3>2
    <3> QED
      BY <3>1, <3>3
  <2> QED
    BY <2>3, <2>4 DEF list
<1>3. lists \in Seq(Seq(S)) /\ DOMAIN lists = 1..N /\ \A n \in 1..N : lists[n] = format_recommendation(chosen[n])
  <2> HIDE DEF N, S
  <2>1. lists \in [1..N -> Seq(S)] /\ \A n \in 1..N : lists[n] = format_recommendation(chosen[n])
    BY <1>1, <1>2
  <2> HIDE DEF lists
  <2> QED
    BY <1>1, <2>1
<1>4. FormattedAll(chosen) = FlattenSeq(lists)
  BY DEF FormattedAll
<1> HIDE DEF N, S, lists
<1>5. FlattenSeq(lists) \in Seq(S) /\ ToSet(FlattenSeq(lists)) = UNION {ToSet(lists[n]) : n \in 1..N}
  BY <1>3, FlattenElements
<1>6. ASSUME NEW f \in ToSet(FormattedAll(chosen))
      PROVE  \E d \in ToSet(chosen) : f \in ToSet(format_recommendation(d))
  <2>1. PICK n \in 1..N : f \in ToSet(lists[n])
    BY <1>4, <1>5
  <2> QED
    BY <1>1, <1>3, <2>1
<1> QED
  BY <1>4, <1>5, <1>6 DEF S

LEMMA DistinctAll ==
  ASSUME NEW S, NEW list \in Seq(S)
  PROVE  Distinct(list) \in Seq(S) /\ ToSet(Distinct(list)) = ToSet(list)
<1> DEFINE N == Len(list)
           lists == [n \in DOMAIN list |->
             IF \E m \in 1..(n - 1) : list[m] = list[n] THEN << >> ELSE <<list[n]>>]
<1>1. DOMAIN list = 1..N /\ N \in Nat /\ \A n \in 1..N : list[n] \in S
  OBVIOUS
<1>2. ToSet(list) = {list[n] : n \in 1..N}
  BY <1>1 DEF ToSet
<1>3. lists \in [1..N -> Seq(S)] /\ DOMAIN lists = 1..N
  BY <1>1
<1>4. ASSUME NEW n \in 1..N
      PROVE  /\ ToSet(lists[n]) \subseteq {list[n]}
             /\ ~(\E m \in 1..(n - 1) : list[m] = list[n]) => ToSet(lists[n]) = {list[n]}
  <2>1. CASE \E m \in 1..(n - 1) : list[m] = list[n]
    <3>1. lists[n] = << >>
      BY <1>1, <2>1
    <3> HIDE DEF lists
    <3>2. ToSet(<< >>) = {}
      BY DEF ToSet
    <3> QED
      BY <2>1, <3>1, <3>2
  <2>2. CASE ~(\E m \in 1..(n - 1) : list[m] = list[n])
    <3>1. lists[n] = <<list[n]>>
      BY <1>1, <2>2
    <3> HIDE DEF lists
    <3>2. ToSet(<<list[n]>>) = {list[n]}
      BY DEF ToSet
    <3> QED
      BY <3>1, <3>2
  <2> QED
    BY <2>1, <2>2
<1>5. Distinct(list) = FlattenSeq(lists)
  BY DEF Distinct
<1> HIDE DEF lists, N
<1>6. lists \in Seq(Seq(S))
  BY <1>1, <1>3
<1>7. FlattenSeq(lists) \in Seq(S) /\ ToSet(FlattenSeq(lists)) = UNION {ToSet(lists[n]) : n \in 1..N}
  BY <1>3, <1>6, FlattenElements
<1>8. ToSet(FlattenSeq(lists)) \subseteq ToSet(list)
  <2> SUFFICES ASSUME NEW n \in 1..N PROVE ToSet(lists[n]) \subseteq ToSet(list)
    BY <1>7
  <2> QED
    BY <1>2, <1>4
<1>9. ASSUME NEW x \in ToSet(list) PROVE x \in ToSet(FlattenSeq(lists))
  <2> DEFINE T == {n \in 1..N : list[n] = x}
  <2>1. T \in SUBSET Nat /\ T # {}
    BY <1>1, <1>2
  <2>2. PICK j \in T : \A n \in T : j <= n
    <3> HIDE DEF T
    <3> QED
      BY <2>1, Least
  <2>3. j \in 1..N /\ list[j] = x
    OBVIOUS
  <2>4. ASSUME NEW m \in 1..(j - 1), list[m] = list[j] PROVE FALSE
    <3>1. m \in T /\ ~(j <= m)
      BY <1>1, <2>3, <2>4
    <3> QED
      BY <2>2, <3>1
  <2>5. ToSet(lists[j]) = {x}
    BY <1>4, <2>3, <2>4
  <2> QED
    BY <1>7, <2>3, <2>5
<1> QED
  BY <1>5, <1>7, <1>8, <1>9

LEMMA CutElements ==
  ASSUME NEW S, NEW list \in Seq(S), NEW length \in Nat \ {0}
  PROVE  /\ Cut(list, length) \in Seq(S) /\ ToSet(Cut(list, length)) \subseteq ToSet(list)
         /\ Len(Cut(list, length)) = IF Len(list) < length THEN Len(list) ELSE length
         /\ \A n \in 1..Len(Cut(list, length)) : n \in DOMAIN list /\ Cut(list, length)[n] = list[n]
<1> DEFINE m == IF Len(list) < length THEN Len(list) ELSE length
           c == SubSeq(list, 1, m)
<1>1. Cut(list, length) = c
  BY DEF Cut
<1>2. Len(list) \in Nat /\ DOMAIN list = 1..Len(list) /\ m \in Nat /\ m <= Len(list) /\ \A n \in 1..Len(list) : list[n] \in S
  OBVIOUS
<1> HIDE DEF m
<1>3. \A n \in 1..m : n \in 1..Len(list)
  BY <1>2
<1>4. c \in Seq(S) /\ Len(c) = m /\ \A n \in 1..m : c[n] = list[n]
  BY <1>2
<1> HIDE DEF c
<1>5. ToSet(c) \subseteq ToSet(list)
  <2>1. DOMAIN c = 1..m
    BY <1>4
  <2> QED
    BY <1>2, <1>3, <1>4, <2>1 DEF ToSet
<1> QED
  BY <1>1, <1>2, <1>3, <1>4, <1>5 DEF m

LEMMA DetailedElements ==
  ASSUME NEW S, NEW formatted \in Seq(S)
  PROVE  LET by_type == divide_by_recommendation_type(formatted)
         IN  /\ DOMAIN by_type = {f.type : f \in ToSet(formatted)}
             /\ \A t \in DOMAIN by_type : by_type[t] \in Seq(S) /\ ToSet(by_type[t]) \subseteq ToSet(formatted)
             /\ Displayed(formatted, by_type) \in Seq(S)
             /\ ToSet(Displayed(formatted, by_type)) \subseteq ToSet(formatted)
<1> DEFINE T == {f.type : f \in ToSet(formatted)}
           by_type == divide_by_recommendation_type(formatted)
           OwnType(t) == Filtered(formatted, {f \in ToSet(formatted) : f.type = t})
           Before(list) == {p \in ToSet(list) \X ToSet(list) : BestSaving(p[1]) > BestSaving(p[2])}
<1>1. by_type = [t \in T |-> Cut(Sorted(OwnType(t), Before(OwnType(t))), MaxPerType)]
  BY DEF divide_by_recommendation_type
<1> HIDE DEF by_type, Before
<1>2. ASSUME NEW t \in T PROVE by_type[t] \in Seq(S) /\ ToSet(by_type[t]) \subseteq ToSet(formatted)
  <2> DEFINE own == OwnType(t)
             kept == {f \in ToSet(formatted) : f.type = t}
             sorted == Sorted(own, Before(own))
  <2>1. own \in Seq(S) /\ ToSet(own) \subseteq ToSet(formatted)
    <3> HIDE DEF kept
    <3>1. Filtered(formatted, kept) \in Seq(S) /\ ToSet(Filtered(formatted, kept)) = ToSet(formatted) \cap kept
      BY FilteredElements
    <3> QED
      BY <3>1 DEF kept
  <2>2. by_type[t] = Cut(sorted, MaxPerType)
    BY <1>1
  <2> HIDE DEF own
  <2>3. sorted \in Seq(S) /\ ToSet(sorted) = ToSet(own)
    BY <2>1, SortedElements
  <2> HIDE DEF sorted
  <2>4. Cut(sorted, MaxPerType) \in Seq(S) /\ ToSet(Cut(sorted, MaxPerType)) \subseteq ToSet(sorted)
    BY <2>3, CutElements, LengthsAssumption
  <2> QED
    BY <2>1, <2>2, <2>3, <2>4
<1>3. DOMAIN by_type = T
  BY <1>1
<1> DEFINE N == Len(formatted)
           all == [n \in DOMAIN formatted |-> formatted[n].type]
           types == Distinct(all)
           K == Len(types)
           lists == [n \in DOMAIN types |-> by_type[types[n]]]
<1>4. types \in Seq(T)
  <2>1. N \in Nat /\ DOMAIN formatted = 1..N /\ \A n \in 1..N : formatted[n].type \in T
    BY DEF ToSet
  <2> HIDE DEF N, T
  <2>2. all \in [1..N -> T]
    BY <2>1
  <2> HIDE DEF all
  <2>3. all \in Seq(T)
    BY <2>1, <2>2, FunctionIsList
  <2> QED
    BY <2>3, DistinctAll
<1>5. Displayed(formatted, by_type) = FlattenSeq(lists)
  BY DEF Displayed
<1> HIDE DEF types, T
<1>6. K \in Nat /\ DOMAIN types = 1..K /\ \A n \in 1..K : types[n] \in T
  BY <1>4
<1> HIDE DEF K
<1>7. lists \in [1..K -> Seq(S)] /\ \A n \in 1..K : ToSet(lists[n]) \subseteq ToSet(formatted)
  BY <1>2, <1>6
<1> HIDE DEF lists
<1>8. lists \in Seq(Seq(S)) /\ DOMAIN lists = 1..K
  BY <1>6, <1>7
<1>9. FlattenSeq(lists) \in Seq(S) /\ ToSet(FlattenSeq(lists)) = UNION {ToSet(lists[n]) : n \in 1..K}
  BY <1>8, FlattenElements
<1>10. ToSet(FlattenSeq(lists)) \subseteq ToSet(formatted)
  BY <1>7, <1>9
<1> QED
  BY <1>2, <1>3, <1>5, <1>9, <1>10 DEF by_type, T

LEMMA ListElements ==
  ASSUME NEW S, NEW list \in Seq(S)
  PROVE  Len(list) \in Nat /\ ToSet(list) = {list[n] : n \in 1..Len(list)}
<1>1. DOMAIN list = 1..Len(list) /\ Len(list) \in Nat
  OBVIOUS
<1> QED
  BY <1>1 DEF ToSet

\* A resource that may come first saves no more than it costs, and no less than any
\* recommendation for it promises.
LEMMA PriorityFields ==
  ASSUME NEW S, NEW formatted \in Seq(S), \A f \in ToSet(formatted) : IsItem(f),
         \A f, g \in ToSet(formatted) : f.resource = g.resource => f.price = g.price,
         NEW r, \E f \in ToSet(formatted) : f.resource = r
  PROVE  LET i == PriorityItem(formatted, r)
         IN  /\ i.resource = r /\ Max(i.saving) \in Int /\ Max(i.saving) <= i.price
             /\ \A f \in ToSet(formatted) : f.resource = r => Round(f.price * BestPercent(f), 100) <= Max(i.saving)
<1> DEFINE kept == {f \in ToSet(formatted) : f.resource = r}
           own == Filtered(formatted, kept)
           i == PriorityItem(formatted, r)
           price == own[1].price
           saving == Max(_get_resource_saving(own, price))
<1>1. own \in Seq(S) /\ ToSet(own) = kept
  <2>1. ToSet(formatted) \cap kept = kept
    OBVIOUS
  <2> HIDE DEF kept
  <2> QED
    BY <2>1, FilteredElements
<1>2. i = [resource |-> r, price |-> price, saving |-> _get_resource_saving(own, price)]
  BY DEF PriorityItem
<1>3. kept # {}
  OBVIOUS
<1> HIDE DEF own
<1>4. /\ own # << >> /\ DOMAIN own = 1..Len(own) /\ Len(own) \in Nat \ {0}
      /\ \A n \in DOMAIN own : own[n] \in kept
      /\ \A f \in kept : \E n \in DOMAIN own : own[n] = f
  <2>1. ToSet(own) = {own[n] : n \in DOMAIN own}
    BY DEF ToSet
  <2>2. ToSet(own) # {}
    BY <1>1, <1>3
  <2> HIDE DEF kept
  <2>3. own # << >>
    BY <2>1, <2>2
  <2> QED
    BY <1>1, <2>1, <2>3
<1>5. /\ \A n \in DOMAIN own : IsItem(own[n])
      /\ own[1] \in kept
  BY <1>4
<1>6. price \in Nat \ {0} /\ \A f \in kept : f.price = price
  BY <1>5 DEF IsItem
<1> HIDE DEF kept, price
<1>7. /\ saving \in Int /\ saving <= price
      /\ \A n \in DOMAIN own : Round(price * BestPercent(own[n]), 100) <= saving
  BY <1>1, <1>4, <1>5, <1>6, OwnSaving
<1>8. i.resource = r /\ i.price = price /\ Max(i.saving) = saving
  BY <1>2
<1> HIDE DEF i, saving
<1>9. ASSUME NEW f \in ToSet(formatted), f.resource = r
      PROVE  Round(f.price * BestPercent(f), 100) <= saving
  <2>1. f \in kept
    BY <1>9 DEF kept
  <2>2. PICK n \in DOMAIN own : own[n] = f
    BY <1>4, <2>1
  <2>3. f.price = price
    BY <1>6, <2>1
  <2> QED
    BY <1>7, <2>2, <2>3
<1> QED
  BY <1>7, <1>8, <1>9 DEF i

\* The resources that come first are the ones that save most: what promises more than the
\* threshold is only left out for others that save as much.
LEMMA PriorityPromotes ==
  ASSUME NEW S, NEW formatted \in Seq(S), \A f \in ToSet(formatted) : IsItem(f),
         \A f, g \in ToSet(formatted) : f.resource = g.resource => f.price = g.price,
         NEW threshold \in Int, NEW report,
         report.high_priority = Cut(get_priority(formatted, threshold), MaxPriority)
  PROVE  /\ \A i \in ToSet(report.high_priority) : SavesTogether(i, ToSet(formatted))
         /\ \A f \in ToSet(formatted) : Promoted(f, report, threshold)
<1> DEFINE N == Len(formatted)
           all == [n \in DOMAIN formatted |-> formatted[n].resource]
           resources == Distinct(all)
           items == [n \in DOMAIN resources |-> PriorityItem(formatted, resources[n])]
           kept == {i \in ToSet(items) : threshold > 0 => Max(i.saving) > threshold}
           high == Filtered(items, kept)
           before == {p \in ToSet(high) \X ToSet(high) : Max(p[1].saving) > Max(p[2].saving)}
           sorted == Sorted(high, before)
           top == report.high_priority
           R == {f.resource : f \in ToSet(formatted)}
           I == {PriorityItem(formatted, r) : r \in R}
<1>1. get_priority(formatted, threshold) = sorted
  BY DEF get_priority
<1>2. top = Cut(sorted, MaxPriority)
  BY <1>1
<1>3. resources \in Seq(R) /\ ToSet(resources) = R
  <2>1. N \in Nat /\ DOMAIN formatted = 1..N /\ \A n \in 1..N : formatted[n].resource \in R
    BY DEF ToSet
  <2>2. R = {formatted[n].resource : n \in 1..N}
    BY <2>1 DEF ToSet
  <2>3. \A n \in 1..N : all[n] = formatted[n].resource
    BY <2>1
  <2> HIDE DEF N, R
  <2>4. all \in [1..N -> R]
    BY <2>1
  <2> HIDE DEF all
  <2>5. all \in Seq(R) /\ Len(all) = N
    BY <2>1, <2>4, FunctionIsList
  <2>6. ToSet(all) = {all[n] : n \in 1..N}
    BY <2>5, ListElements
  <2>7. ToSet(all) = R
    BY <2>2, <2>3, <2>6
  <2> QED
    BY <2>5, <2>7, DistinctAll
<1> HIDE DEF sorted, before, high, resources
<1>4. ASSUME NEW r \in R
      PROVE  LET i == PriorityItem(formatted, r)
             IN  /\ i.resource = r /\ Max(i.saving) \in Int /\ Max(i.saving) <= i.price
                 /\ \A f \in ToSet(formatted) : f.resource = r => Round(f.price * BestPercent(f), 100) <= Max(i.saving)
  <2>1. \E f \in ToSet(formatted) : f.resource = r
    OBVIOUS
  <2> QED
    BY <2>1, PriorityFields
<1>5. items \in Seq(I) /\ ToSet(items) = I
  <2> DEFINE K == Len(resources)
  <2>1. K \in Nat /\ DOMAIN resources = 1..K /\ (\A n \in 1..K : resources[n] \in R) /\ R = {resources[n] : n \in 1..K}
    <3> HIDE DEF R
    <3>1. K \in Nat /\ DOMAIN resources = 1..K /\ \A n \in 1..K : resources[n] \in R
      BY <1>3
    <3>2. R = {resources[n] : n \in DOMAIN resources}
      BY <1>3 DEF ToSet
    <3> QED
      BY <3>1, <3>2
  <2> HIDE DEF K, R
  <2>2. items \in [1..K -> I] /\ \A n \in 1..K : items[n] = PriorityItem(formatted, resources[n])
    BY <2>1
  <2>3. I = {PriorityItem(formatted, resources[n]) : n \in 1..K}
    BY <2>1
  <2> HIDE DEF items, I
  <2>4. items \in Seq(I) /\ Len(items) = K
    BY <2>1, <2>2, FunctionIsList
  <2>5. ToSet(items) = {items[n] : n \in 1..K}
    BY <2>4, ListElements
  <2> QED
    BY <2>2, <2>3, <2>4, <2>5
<1> HIDE DEF items, I
<1>6. high \in Seq(I) /\ ToSet(high) = kept /\ kept \subseteq I
  <2>1. ToSet(items) \cap kept = kept /\ kept \subseteq I
    BY <1>5
  <2> HIDE DEF kept
  <2> QED
    BY <1>5, <2>1, FilteredElements DEF high
<1>7. \A i \in I : Max(i.saving) \in Int /\ Max(i.saving) <= i.price
  BY <1>4 DEF I
<1> DEFINE H == ToSet(high)
<1>8. high \in Seq(H)
  <2>1. DOMAIN high = 1..Len(high) /\ Len(high) \in Nat
    BY <1>6
  <2>2. \A n \in 1..Len(high) : high[n] \in H
    BY <2>1 DEF ToSet
  <2> HIDE DEF H
  <2> QED
    BY <1>6, <2>1, <2>2
<1>9. Orders(before, H)
  <2>1. \A x, y \in H : <<x, y>> \in before <=> Max(x.saving) > Max(y.saving)
    BY DEF before
  <2>2. \A x \in H : Max(x.saving) \in Int
    BY <1>6, <1>7
  <2> HIDE DEF H
  <2>3. \A x, y \in H : <<x, y>> \in before => <<y, x>> \notin before
    BY <2>1, <2>2
  <2>4. ASSUME NEW x \in H, NEW y \in H, NEW z \in H, <<x, y>> \notin before, <<y, z>> \notin before
        PROVE  <<x, z>> \notin before
    <3> DEFINE a == Max(x.saving)
               b == Max(y.saving)
               c == Max(z.saving)
    <3>1. a \in Int /\ b \in Int /\ c \in Int /\ ~(a > b) /\ ~(b > c)
      BY <2>1, <2>2, <2>4
    <3>2. <<x, z>> \in before <=> a > c
      BY <2>1
    <3> HIDE DEF a, b, c
    <3> QED
      BY <3>1, <3>2
  <2> QED
    BY <2>3, <2>4 DEF Orders
<1>10. sorted \in Seq(H) /\ ToSet(sorted) = H /\ InOrder(sorted, before)
  <2> HIDE DEF H
  <2>1. Sorted(high, before) \in Seq(H) /\ ToSet(Sorted(high, before)) = ToSet(high)
    BY <1>8, SortedElements
  <2>2. InOrder(Sorted(high, before), before)
    BY <1>8, <1>9, SortedOrder
  <2> QED
    BY <2>1, <2>2 DEF H, sorted
<1>11. /\ top \in Seq(H) /\ ToSet(top) \subseteq ToSet(sorted)
       /\ Len(top) = IF Len(sorted) < MaxPriority THEN Len(sorted) ELSE MaxPriority
       /\ \A n \in 1..Len(top) : n \in DOMAIN sorted /\ top[n] = sorted[n]
  <2> HIDE DEF H
  <2> QED
    BY <1>2, <1>10, CutElements, LengthsAssumption
<1> HIDE DEF top
<1>12. ASSUME NEW i \in ToSet(top) PROVE SavesTogether(i, ToSet(formatted))
  <2>1. i \in I
    BY <1>6, <1>10, <1>11
  <2>2. PICK r \in R : i = PriorityItem(formatted, r)
    BY <2>1 DEF I
  <2> QED
    BY <1>4, <2>2 DEF SavesTogether, Promise
<1>13. ASSUME NEW f \in ToSet(formatted) PROVE Promoted(f, report, threshold)
  <2> DEFINE promise == Round(f.price * BestPercent(f), 100)
             item == PriorityItem(formatted, f.resource)
             best == Max(item.saving)
  <2>1. f.resource \in R
    OBVIOUS
  <2>2. item.resource = f.resource /\ best \in Int /\ promise <= best /\ item \in I
    BY <1>4, <2>1 DEF I
  <2>3. promise \in Int
    <3> DEFINE x == f.price * BestPercent(f)
    <3>1. f.price \in Nat /\ BestPercent(f) \in Int
      BY ListTop DEF IsItem, BestPercent
    <3>2. x \in Int
      BY <3>1
    <3> HIDE DEF x
    <3>3. Round(x, 100) \in Int
      BY <3>2, RoundedInt, 100 \in Nat \ {0}
    <3> QED
      BY <3>3 DEF x
  <2> SUFFICES ASSUME promise > threshold
               PROVE  \/ \E i \in ToSet(top) : i.resource = f.resource
                      \/ Len(top) = MaxPriority /\ \A i \in ToSet(top) : Max(i.saving) >= promise
    BY DEF Promoted, Promise, top
  <2> HIDE DEF promise, item
  <2>4. best > threshold
    BY <2>2, <2>3
  <2>5. item \in kept
    BY <1>5, <2>2, <2>4
  <2>6. item \in ToSet(sorted)
    BY <1>6, <1>10, <2>5
  <2>7. PICK k \in DOMAIN sorted : sorted[k] = item
    BY <2>6 DEF ToSet
  <2>8. DOMAIN sorted = 1..Len(sorted) /\ Len(sorted) \in Nat /\ MaxPriority \in Nat \ {0}
    BY <1>10, LengthsAssumption
  <2>9. DOMAIN top = 1..Len(top)
    BY <1>11
  <2>10. CASE k <= MaxPriority
    <3>1. k \in 1..Len(top)
      BY <1>11, <2>7, <2>8, <2>10
    <3>2. top[k] = item
      BY <1>11, <2>7, <3>1
    <3>3. item \in ToSet(top)
      BY <2>9, <3>1, <3>2 DEF ToSet
    <3> QED
      BY <2>2, <3>3
  <2>11. CASE ~(k <= MaxPriority)
    <3> DEFINE L == Len(sorted)
    <3>0. k \in Nat /\ k <= L /\ L \in Nat /\ MaxPriority < k
      BY <2>8, <2>11
    <3> HIDE DEF L
    <3>1. Len(top) = MaxPriority
      <4>1. ~(L < MaxPriority)
        BY <2>8, <3>0
      <4>2. Len(top) = IF L < MaxPriority THEN L ELSE MaxPriority
        BY <1>11 DEF L
      <4> QED
        BY <4>1, <4>2
    <3>2. ASSUME NEW i \in ToSet(top) PROVE Max(i.saving) >= promise
      <4>1. PICK n \in 1..Len(top) : top[n] = i
        BY <2>9 DEF ToSet
      <4>2. n \in DOMAIN sorted /\ sorted[n] = i /\ n < k
        <5>1. n \in DOMAIN sorted /\ sorted[n] = i
          BY <1>11, <4>1
        <5>2. n \in 1..MaxPriority
          BY <3>1
        <5>3. n < k
          BY <2>8, <3>0, <5>2
        <5> QED
          BY <5>1, <5>3
      <4>3. <<item, i>> \notin before
        BY <1>10, <2>7, <4>2 DEF InOrder
      <4>4. item \in ToSet(high) /\ i \in ToSet(high)
        BY <1>10, <1>11, <2>6
      <4>5. ~(best > Max(i.saving))
        BY <4>3, <4>4 DEF before
      <4>6. Max(i.saving) \in Int
        BY <1>6, <1>7, <4>4
      <4> HIDE DEF best
      <4> QED
        BY <2>2, <2>3, <4>5, <4>6
    <3> QED
      BY <3>1, <3>2
  <2> QED
    BY <2>10, <2>11
<1> QED
  BY <1>12, <1>13 DEF top

\* A mail shows what the latest job recommends, in the right order, and its sums hold.
LEMMA ReportsAreTrue ==
  ASSUME NEW documents, IsHistory(documents), NEW since \in Int, NEW threshold \in Int,
         generate_report(documents, since, threshold) # NoReport
  PROVE  ReportIsTrue(documents, since, threshold, generate_report(documents, since, threshold))
<1> DEFINE D == ToSet(documents)
           Rc == Recent(documents, since)
           chosen == filter_latest_job_resource(Filtered(documents, {d \in ToSet(documents) : d.at > since}))
           formatted == FormattedAll(chosen)
           S == AllFormatted(D)
           by_type == divide_by_recommendation_type(formatted)
           shownSums == Displayed(formatted, by_type)
           report == generate_report(documents, since, threshold)
           shown == UNION {ToSet(report.detailed[t]) : t \in DOMAIN report.detailed}
<1>1. report = [kind |-> "report", detailed |-> by_type,
                high_priority |-> Cut(get_priority(formatted, threshold), MaxPriority),
                total |-> _resources_summary(formatted), displayed |-> _resources_summary(shownSums)]
  BY DEF generate_report
<1> HIDE DEF report
<1>2. /\ report.detailed = by_type
      /\ report.high_priority = Cut(get_priority(formatted, threshold), MaxPriority)
      /\ report.total = _resources_summary(formatted) /\ report.displayed = _resources_summary(shownSums)
  BY <1>1
<1>3. /\ chosen \in Seq(D)
      /\ \A d \in ToSet(chosen) : d \in Rc /\ ByLastJob(d, Rc)
      /\ \A d, e \in ToSet(chosen) : d.resource = e.resource => d.job = e.job
  BY LatestJob
<1>4. /\ \A d \in Rc : d \in D /\ Usable(d) /\ IsDocument(d)
      /\ \A d, e \in D : d.resource = e.resource /\ d.job = e.job => d.price = e.price
      /\ \A d \in D : d.at \in Int
  BY DEF Recent, IsHistory, IsDocument
<1>5. Rc = {d \in D : Usable(d) /\ d.at > since}
  BY DEF Recent
<1> HIDE DEF chosen, Rc, D
<1>6. /\ formatted \in Seq(S)
      /\ \A f \in ToSet(formatted) : \E d \in ToSet(chosen) : f \in ToSet(format_recommendation(d))
  BY <1>3, FormattedElements
<1> HIDE DEF formatted, S
<1>7. ASSUME NEW f \in ToSet(formatted)
      PROVE  \E d \in ToSet(chosen) :
               /\ d \in Rc /\ f \in ToSet(format_recommendation(d))
               /\ f.resource = d.resource /\ f.type = d.type /\ f.price = d.price /\ IsItem(f)
  <2>1. PICK d \in ToSet(chosen) : f \in ToSet(format_recommendation(d))
    BY <1>6
  <2>2. d \in Rc /\ IsDocument(d) /\ Usable(d)
    BY <1>3, <1>4
  <2>3. f.resource = d.resource /\ f.type = d.type /\ f.price = d.price /\ IsItem(f)
    BY <2>1, <2>2, FormattedFields
  <2> QED
    BY <2>1, <2>2, <2>3
<1>8. \A f \in ToSet(formatted) : IsItem(f)
  BY <1>7
<1>9. ASSUME NEW f \in ToSet(formatted), NEW g \in ToSet(formatted), f.resource = g.resource
      PROVE  f.price = g.price
  <2>1. PICK d \in ToSet(chosen) : d \in Rc /\ f.resource = d.resource /\ f.price = d.price
    BY <1>7
  <2>2. PICK e \in ToSet(chosen) : e \in Rc /\ g.resource = e.resource /\ g.price = e.price
    BY <1>7
  <2>3. d.job = e.job
    BY <1>3, <1>9, <2>1, <2>2
  <2> QED
    BY <1>4, <1>9, <2>1, <2>2, <2>3
<1>10. /\ \A t \in DOMAIN by_type : ToSet(by_type[t]) \subseteq ToSet(formatted)
       /\ shownSums \in Seq(S) /\ ToSet(shownSums) \subseteq ToSet(formatted)
  BY <1>6, DetailedElements
<1>11. /\ \A i \in ToSet(report.high_priority) : SavesTogether(i, ToSet(formatted))
       /\ \A f \in ToSet(formatted) : Promoted(f, report, threshold)
  BY <1>2, <1>6, <1>8, <1>9, PriorityPromotes
<1> HIDE DEF by_type, shownSums
<1>12. ASSUME NEW f \in ToSet(formatted) PROVE IsLatest(f, documents, since)
  <2> DEFINE of(d) == {e \in Rc : e.resource = d.resource}
             overtaken(d) == \E e \in of(d) : \A g \in of(d) : g.job = d.job => e.at > g.at
  <2>1. PICK d \in Rc : /\ ByLastJob(d, Rc) /\ f \in ToSet(format_recommendation(d))
                        /\ f.resource = d.resource /\ f.type = d.type
    BY <1>3, <1>7
  <2>2. ~overtaken(d)
    <3>1. PICK g \in of(d) : g.job = d.job /\ \A e \in of(d) : e.at <= g.at
      BY <2>1 DEF ByLastJob, SameResource
    <3>2. \A e \in of(d) : e.at \in Int /\ g.at \in Int
      BY <1>4
    <3>3. ASSUME NEW e \in of(d) PROVE ~(e.at > g.at)
      BY <3>1, <3>2
    <3> HIDE DEF of
    <3> QED
      BY <3>1, <3>3
  <2> HIDE DEF overtaken
  <2>3. \E x \in Rc : /\ x.resource = f.resource /\ x.type = f.type
                      /\ f \in ToSet(format_recommendation(x)) /\ ~overtaken(x)
    BY <2>1, <2>2
  <2> QED
    BY <1>5, <2>3 DEF IsLatest, D, overtaken
<1>13. \A f \in shown : f \in ToSet(formatted)
  BY <1>2, <1>10
<1>14. /\ report.displayed.resource_count = Cardinality({shownSums[n].resource : n \in DOMAIN shownSums})
       /\ report.displayed.current_estimated_cost = Counted(shownSums, [n \in DOMAIN shownSums |-> shownSums[n].price])
       /\ report.total.resource_count = Cardinality({formatted[n].resource : n \in DOMAIN formatted})
       /\ report.total.current_estimated_cost = Counted(formatted, [n \in DOMAIN formatted |-> formatted[n].price])
  BY <1>2 DEF _resources_summary
<1>15. report.displayed.resource_count <= report.total.resource_count
  <2>1. Cardinality({shownSums[n].resource : n \in DOMAIN shownSums})
          <= Cardinality({formatted[n].resource : n \in DOMAIN formatted})
    BY <1>6, <1>10, CountAtMost
  <2> QED
    BY <1>14, <2>1
<1>16. report.displayed.current_estimated_cost <= report.total.current_estimated_cost
  <2>1. \A f \in ToSet(formatted) : f.price \in Nat
    BY <1>8 DEF IsItem
  <2>2. Counted(shownSums, [n \in DOMAIN shownSums |-> shownSums[n].price])
          <= Counted(formatted, [n \in DOMAIN formatted |-> formatted[n].price])
    BY <1>6, <1>9, <1>10, <2>1, CostAtMost
  <2> QED
    BY <1>14, <2>2
<1>17. \A f \in shown : IsLatest(f, documents, since) /\ Promoted(f, report, threshold)
  BY <1>11, <1>12, <1>13
<1>18. \A i \in ToSet(report.high_priority) : SavesTogether(i, shown)
  BY <1>11, <1>13 DEF SavesTogether
<1>19. SavesItsCost(report.total) /\ SavesItsCost(report.displayed)
  <2>1. \A f \in ToSet(formatted) : HasSavings(f)
    <3> SUFFICES ASSUME NEW f \in ToSet(formatted) PROVE HasSavings(f)
      OBVIOUS
    <3>1. PICK d \in ToSet(chosen) : d \in Rc /\ f \in ToSet(format_recommendation(d))
      BY <1>7
    <3> QED
      BY <1>4, <3>1, FormattedSavings
  <2>2. \A f \in ToSet(shownSums) : HasSavings(f)
    BY <1>10, <2>1
  <2> QED
    BY <1>2, <1>6, <1>10, <2>1, <2>2, SummarySaves
<1> HIDE DEF shown
<1> QED
  BY <1>15, <1>16, <1>17, <1>18, <1>19 DEF ReportIsTrue, shown, report

\* All mails of a request are.
LEMMA MailsOfRequest ==
  ASSUME NEW q, IsRequest(q)
  PROVE  MailsAreTrue(q, handle_request(q))
<1>1. ASSUME NEW n \in DOMAIN handle_request(q), handle_request(q)[n] # NoReport
      PROVE  ReportIsTrue(q.tenants[n].documents, q.since, q.threshold, handle_request(q)[n])
  <2>1. q.customer
    <3>1. ~q.customer => DOMAIN handle_request(q) = {}
      BY DEF handle_request
    <3> QED
      BY <3>1
  <2>2. /\ n \in DOMAIN q.tenants
        /\ handle_request(q)[n] = IF q.tenants[n].known
                                  THEN generate_report(q.tenants[n].documents, q.since, q.threshold)
                                  ELSE NoReport
    BY <2>1 DEF handle_request
  <2>3. /\ q.tenants[n].known
        /\ handle_request(q)[n] = generate_report(q.tenants[n].documents, q.since, q.threshold)
    BY <1>1, <2>2
  <2>4. IsHistory(q.tenants[n].documents) /\ q.since \in Int /\ q.threshold \in Int
    BY <2>2, <2>3 DEF IsRequest
  <2> QED
    BY <1>1, <2>3, <2>4, ReportsAreTrue
<1> QED
  BY <1>1 DEF MailsAreTrue

-----------------------------------------------------------------------------
(* What RecommendationAlgorithms answers                                   *)

\* An answer is that of the algorithm for the question that was asked.
AnswersInv ==
  /\ done \in BOOLEAN
  /\ kind = "sizes" => input \in ResizeInputs /\ (done => answer = RecommendedShapes(input))
  /\ kind = "schedule" => input \in ScheduleInputs /\ (done => answer = generate_schedule(input.idle, input.disabled))
  /\ kind = "group" => input \in GroupInputs /\ (done => answer = process_autoscaling_group(input))
  /\ kind = "metrics" => input \in MetricsInputs /\ (done => answer = AnalyseMetrics(input))
  /\ kind = "report" => input \in ReportInputs /\ (done => answer = handle_request(input))

LEMMA AnswersInit == Init => AnswersInv
  BY DEF Init, AnswersInv

LEMMA AnswersStep == AnswersInv /\ [Next]_vars => AnswersInv'
<1> SUFFICES ASSUME AnswersInv, [Next]_vars PROVE AnswersInv'
  OBVIOUS
<1> USE DEF AnswersInv
<1>1. CASE GenerateSchedule
  BY <1>1 DEF GenerateSchedule
<1>2. CASE RecommendSize
  BY <1>2 DEF RecommendSize
<1>3. CASE AutoscaleGroup
  BY <1>3 DEF AutoscaleGroup
<1>4. CASE ReadMetrics
  BY <1>4 DEF ReadMetrics
<1>5. CASE SendReports
  BY <1>5 DEF SendReports
<1>6. CASE UNCHANGED vars
  BY <1>6 DEF vars
<1> QED
  BY <1>1, <1>2, <1>3, <1>4, <1>5, <1>6 DEF Next

\* What any recommendation consists of.
LEMMA AnsweredShapes ==
  ASSUME AnswersInv, IsSizes
  PROVE  /\ \E t \in Shapes : t.name = input.current
         /\ IsFiniteSet(input.rules)
         /\ Shape(input.current) \in Shapes
         /\ \A s \in ToSet(answer) :
              /\ s \in Candidates(input) \/ s = Shape(input.current)
              /\ \E n \in DOMAIN input.loads : s \in Bearing(input, input.loads[n])
<1>1. input \in ResizeInputs /\ answer = RecommendedShapes(input)
  BY DEF AnswersInv, IsSizes
<1>2. /\ \E t \in Shapes : t.name = input.current
      /\ input.loads \in Seq([Metrics -> Int]) /\ input.max_results \in Nat /\ IsFiniteSet(input.rules)
  BY <1>1, ResizeAssumption DEF Shapes
<1>3. answer \in Seq(Recommendable(input))
  BY <1>1, <1>2, RecommendedShapesElements
<1>4. ToSet(answer) \subseteq Recommendable(input)
  BY <1>3 DEF ToSet
<1> QED
  BY <1>2, <1>4, CurrentShape DEF Recommendable, Advisable

\* The name of the current shape is its name in the catalogue.
LEMMA CurrentName ==
  ASSUME NEW name, \E s \in Shapes : s.name = name
  PROVE  Shape(name).name = name
<1>1. \E n \in DOMAIN Catalog : Catalog[n].name = name
  BY DEF Shapes, ToSet
<1> QED
  BY <1>1 DEF Shape

\* Relaxing a requirement does not lead to a processor that is too small (recommend_size,
\* discard_optional_requirements), for every catalogue, load and set of rules.
THEOREM CpuBearsTheLoad == Spec => []CpuIsEnough
<1>1. AnswersInv => CpuIsEnough
  BY AnsweredShapes DEF CpuIsEnough, RoomForCpu, Bearing
<1> QED
  BY <1>1, AnswersInit, AnswersStep, PTL DEF Spec

\* No priority, relaxation or second pass leads past the parent's rules and settings
\* (recommend_size, get_allowed_instance_types, divide_by_priority).
THEOREM RulesAlwaysHold == Spec => []ShapeRulesKept
<1>1. ASSUME AnswersInv, IsSizes PROVE RulesKept(input, answer)
  BY <1>1, AnsweredShapes, CurrentName DEF RulesKept, Candidates, ByRules
<1>2. ASSUME AnswersInv, IsSizes PROVE SeriesKept(input, answer)
  BY <1>2, AnsweredShapes DEF SeriesKept, Candidates, BySeries
<1>3. AnswersInv => ShapeRulesKept
  BY <1>1, <1>2 DEF ShapeRulesKept
<1> QED
  BY <1>3, AnswersInit, AnswersStep, PTL DEF Spec

\* The API's copies of the filters leave every shape that the executor recommends
\* (parent_resize_insights_processor.py, shape_rule_dry_run_processor.py).
THEOREM ApiForeseesRecommendations == Spec => []RecommendationIsForeseen
<1>1. ASSUME AnswersInv, IsSizes, Plain(input), NEW s \in ToSet(answer), s.name # input.current
      PROVE  /\ s \in ToSet(dry_run(input.rules, input.cloud))
             /\ input.rules = {} \/ others_allowed(input) => s \in ToSet(available_shapes(input))
  <2>1. s \in Candidates(input)
    BY <1>1, AnsweredShapes, CurrentName
  <2>2. IsFiniteSet(input.rules) /\ \E t \in Shapes : t.name = input.current
    BY <1>1, AnsweredShapes
  <2> QED
    BY <1>1, <2>1, <2>2, CandidatesAreForeseen
<1>2. AnswersInv => RecommendationIsForeseen
  BY <1>1 DEF RecommendationIsForeseen, Foreseen
<1> QED
  BY <1>2, AnswersInit, AnswersStep, PTL DEF Spec
\* Neither the median, nor the grouping of similar days, nor the sorting stops an instance
\* in a period that is never idle on that weekday (schedule_service.py,
\* _generate_daily_schedule and _group_by_days), for days of any length and any metrics.
THEOREM BusyTimesAreScheduled == Spec => []BusyTimeIsScheduled
<1>1. ASSUME AnswersInv, IsSchedule PROVE BusyIsCovered(input.idle, answer)
  <2>1. input \in ScheduleInputs /\ answer = generate_schedule(input.idle, input.disabled)
    BY <1>1 DEF AnswersInv, IsSchedule
  <2>2. Len(input.idle) \in Nat
    BY <2>1, ScheduleInputsAssumption
  <2> QED
    BY <2>1, <2>2, ScheduleCoversBusyTime
<1>2. AnswersInv => BusyTimeIsScheduled
  BY <1>1 DEF BusyTimeIsScheduled
<1> QED
  BY <1>2, AnswersInit, AnswersStep, PTL DEF Spec

\* The savings agree with the recommendation that they are computed for, in their own
\* order and from their own prices (saving_service.py, calculate_savings).
THEOREM SavingsMatch == Spec => []SavingsMatchRecommendation
<1>1. ASSUME AnswersInv, IsSchedule PROVE CostsItsRunningTime(answer)
  <2>1. answer = generate_schedule(input.idle, input.disabled)
    BY <1>1 DEF AnswersInv, IsSchedule
  <2> QED
    BY <2>1, ScheduleParts, ScheduleCost
<1>2. ASSUME AnswersInv, IsSizes PROVE FirstShapeSavesMost(input, answer)
  <2>1. input \in ResizeInputs /\ answer = RecommendedShapes(input)
    BY <1>2 DEF AnswersInv, IsSizes
  <2>2. /\ \E t \in Shapes : t.name = input.current
        /\ input.loads \in Seq([Metrics -> Int]) /\ input.max_results \in Nat
    BY <2>1, ResizeAssumption DEF Shapes
  <2> QED
    BY <2>1, <2>2, FirstShapeSaves
<1>3. AnswersInv => SavingsMatchRecommendation
  BY <1>1, <1>2 DEF SavingsMatchRecommendation
<1> QED
  BY <1>3, AnswersInit, AnswersStep, PTL DEF Spec

\* Resources of another type, without recent metrics or that could not be loaded change
\* neither the load nor the number of a group's resources, and the next scan repeats the
\* recommendation while the group cools down (process_autoscaling_group,
\* dump_group_report_from_recommendation), for groups of any size.
THEOREM PeersSizeTheGroup == Spec => []GroupIsSizedByItsPeers
<1>1. ASSUME AnswersInv, IsGroup PROVE OnlyPeersCount(input, answer)
  <2>1. input \in ScalingGroup /\ answer = process_autoscaling_group(input)
    BY <1>1, GroupInputsAssumption DEF AnswersInv, IsGroup
  <2> QED
    BY <2>1, PeersCount
<1>2. AnswersInv => GroupIsSizedByItsPeers
  BY <1>1 DEF GroupIsSizedByItsPeers
<1> QED
  BY <1>2, AnswersInit, AnswersStep, PTL DEF Spec

\* For every length of a day, threshold day and averaged step the settings allow, and all
\* files, meta files and applied recommendations: cutting, filling, averaging and dropping
\* incomplete days (load_df, group_by_time, divide_by_days) leave the whole days of the
\* metrics that count and no other one, and what is over utilised for one of them has a
\* period of that class, so that its schedule is not left empty (divide_on_periods).
THEOREM WholeDaysAnalysed == Spec => []WholeDaysAreAnalysed
<1>1. AnswersInv => WholeDaysAreAnalysed
  <2> SUFFICES ASSUME AnswersInv, IsMetrics PROVE DaysAreWhole(input, answer)
    BY DEF WholeDaysAreAnalysed
  <2>1. input \in MetricsInputs /\ answer = AnalyseMetrics(input)
    BY DEF AnswersInv, IsMetrics
  <2>2. IsQuestion(input)
    BY <2>1, MetricsInputsAssumption
  <2> QED
    BY <2>1, <2>2, AnalysisIsWhole
<1> QED
  BY <1>1, AnswersInit, AnswersStep, PTL DEF Spec

\* For histories, tenants and thresholds of any size: what a mail shows of a resource is by
\* the job that saved its last usable document (filter_latest_job_resource), what the
\* recommendations for a resource at the top save together is neither less than the best of
\* them promises nor more than the resource costs (get_saving_percent, get_priority), what
\* promises more than the threshold is only left out for others that save as much, a sum
\* of savings never exceeds the cost it goes with, and cutting the lists never makes the
\* number of resources or their cost exceed the total (divide_by_recommendation_type,
\* _resources_summary).
THEOREM MailsTellTheTruth == Spec => []MailMatchesHistory
<1>1. AnswersInv => MailMatchesHistory
  <2> SUFFICES ASSUME AnswersInv, IsReport PROVE MailsAreTrue(input, answer)
    BY DEF MailMatchesHistory
  <2>1. input \in ReportInputs /\ answer = handle_request(input)
    BY DEF AnswersInv, IsReport
  <2>2. IsRequest(input)
    BY <2>1, ReportInputsAssumption
  <2> QED
    BY <2>1, <2>2, MailsOfRequest
<1> QED
  BY <1>1, AnswersInit, AnswersStep, PTL DEF Spec
=============================================================================
