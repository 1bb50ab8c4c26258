-------------------------- MODULE TenantScanProofs --------------------------
(***************************************************************************)
(* Proofs about TenantScan, for any resources, settings, answers and       *)
(* bounds.                                                                 *)
(*                                                                         *)
(* The files that resource groups leave are built from group to group, and *)
(* the first group that loses a file must be found: both are inductions    *)
(* over numbers, stated here with the least number that violates a claim.  *)
(***************************************************************************)
EXTENDS TenantScan, FiniteSetTheorems, SequenceTheorems, TLAPS

-----------------------------------------------------------------------------
(* Numbers                                                                 *)

Below == {p \in Nat \X Nat : p[1] < p[2]}

LEMMA BelowIsWellFounded == IsWellFoundedOn(Below, Nat)
<1>1. IsWellFoundedOn(OpToRel(<, Nat), Nat)
  BY NatLessThanWellFounded
<1>2. OpToRel(<, Nat) = Below
  BY DEF OpToRel, Below
<1> QED
  BY <1>1, <1>2

\* What stands for an induction: of the numbers that violate a claim one is least.
LEMMA Least ==
  ASSUME NEW T \in SUBSET Nat, T # {}
  PROVE  \E m \in T : \A k \in T : m <= k
<1>1. \E m \in T : \A k \in T : <<k, m>> \notin Below
  BY BelowIsWellFounded, WFMin
<1>2. \A k \in T, m \in T : k < m => <<k, m>> \in Below
  BY DEF Below
<1>3. \A k \in T, m \in T : <<k, m>> \notin Below => m <= k
  BY <1>2
<1> QED
  BY <1>1, <1>3

LEMMA Greatest ==
  ASSUME NEW n \in Nat, NEW T \in SUBSET (0..n), T # {}
  PROVE  \E m \in T : \A k \in T : k <= m
<1> DEFINE U == {n - k : k \in T}
<1>0. \A k \in T : n - k \in Nat
  <2>1. \A k \in T : k \in 0..n
    OBVIOUS
  <2> QED
    BY <2>1
<1>1. U \in SUBSET Nat /\ U # {}
  BY <1>0
<1>2. PICK u \in U : \A v \in U : u <= v
  BY <1>1, Least
<1>3. PICK m \in T : u = n - m
  BY <1>2
<1>4. ASSUME NEW k \in T PROVE k <= m
  <2>1. n - k \in U
    OBVIOUS
  <2>2. u <= n - k
    BY <1>2, <2>1
  <2> QED
    BY <1>3, <2>2
<1> QED
  BY <1>4

\* A function can be defined from one number to the next.
Iteration(f, m, S, base, step) ==
  f \in [0..m -> S] /\ f[0] = base /\ \A k \in 1..m : f[k] = step[k][f[k - 1]]

LEMMA Iterates ==
  ASSUME NEW S, NEW base \in S, NEW n \in Nat, NEW step \in [1..n -> [S -> S]]
  PROVE  \E f : Iteration(f, n, S, base, step)
<1> DEFINE Bad == {m \in 0..n : ~\E f : Iteration(f, m, S, base, step)}
<1>1. ASSUME Bad # {} PROVE FALSE
  <2>1. Bad \in SUBSET Nat
    OBVIOUS
  <2>2. PICK m \in Bad : \A k \in Bad : m <= k
    <3> HIDE DEF Bad
    <3> QED
      BY <1>1, <2>1, Least
  <2>3. m \in 0..n /\ m \in Nat /\ ~\E f : Iteration(f, m, S, base, step)
    OBVIOUS
  <2>4. m # 0
    <3>1. Iteration([k \in 0..0 |-> base], 0, S, base, step)
      BY DEF Iteration
    <3> QED
      BY <2>3, <3>1
  <2>5. m - 1 \in 0..n /\ m \in 1..n /\ m - 1 \in Nat
    BY <2>3, <2>4
  <2>6. m - 1 \notin Bad
    <3> HIDE DEF Bad
    <3> QED
      BY <2>2, <2>3, <2>5
  <2>7. PICK f : Iteration(f, m - 1, S, base, step)
    BY <2>5, <2>6
  <2> HIDE DEF Bad
  <2> DEFINE l == m - 1
  <2>8. l \in Nat /\ m = l + 1 /\ Iteration(f, l, S, base, step)
    BY <2>5, <2>7
  <2> HIDE DEF l
  <2>9. f[l] \in S /\ step[m] \in [S -> S]
    BY <2>5, <2>8 DEF Iteration
  <2> DEFINE top == step[m][f[l]]
             g == [k \in 0..m |-> IF k = m THEN top ELSE f[k]]
  <2>10. top \in S
    BY <2>9
  <2> HIDE DEF top
  <2>11. g \in [0..m -> S]
    BY <2>8, <2>10 DEF Iteration
  <2>12. g[0] = base
    BY <2>8 DEF Iteration
  <2>13. ASSUME NEW k \in 1..m PROVE g[k] = step[k][g[k - 1]]
    <3>1. CASE k = m
      <4>1. k - 1 = l /\ g[k] = top /\ g[l] = f[l]
        BY <3>1, <2>8
      <4> QED
        BY <3>1, <4>1 DEF top
    <3>2. CASE k # m
      <4>1. k \in 1..l /\ k - 1 \in 0..m /\ k - 1 # m /\ k \in 0..m
        BY <3>2, <2>8
      <4>2. g[k] = f[k] /\ g[k - 1] = f[k - 1]
        BY <3>2, <4>1
      <4> QED
        BY <2>8, <4>1, <4>2 DEF Iteration
    <3> QED
      BY <3>1, <3>2
  <2> HIDE DEF g
  <2>14. Iteration(g, m, S, base, step)
    BY <2>11, <2>12, <2>13 DEF Iteration
  <2> QED
    BY <2>3, <2>14
<1>2. n \in 0..n /\ n \notin Bad
  BY <1>1
<1> QED
  BY <1>2

-----------------------------------------------------------------------------
(* Lists                                                                   *)

\* What Those returns: an element for each of the places.
LEMMA ThoseElements ==
  ASSUME NEW S, NEW list \in Seq(S), NEW places \in SUBSET (DOMAIN list)
  PROVE  /\ Those(list, places) \in Seq(S)
         /\ Len(Those(list, places)) = Cardinality(places)
         /\ \A n \in 1..Len(Those(list, places)) : \E k \in places : Those(list, places)[n] = list[k]
         /\ places # {} => Len(Those(list, places)) > 0
<1> DEFINE C == Cardinality(places)
           Upto(k) == {i \in places : i <= k}
           rank == [k \in places |-> Cardinality(Upto(k))]
<1>1. places \subseteq Nat /\ places \subseteq 1..Len(list) /\ Len(list) \in Nat
  OBVIOUS
<1>2. IsFiniteSet(places) /\ C \in Nat
  <2>1. IsFiniteSet(1..Len(list))
    BY <1>1, FS_Interval
  <2>2. IsFiniteSet(places)
    BY <1>1, <2>1, FS_Subset
  <2> QED
    BY <2>2, FS_CardinalityType
<1>3. \A k \in places : IsFiniteSet(Upto(k)) /\ Cardinality(Upto(k)) \in 1..C
  <2> TAKE k \in places
  <2>1. Upto(k) \in SUBSET places /\ k \in Upto(k)
    BY <1>1
  <2>2. IsFiniteSet(Upto(k)) /\ Cardinality(Upto(k)) <= C
    BY <1>2, <2>1, FS_Subset
  <2>3. Cardinality(Upto(k)) \in Nat /\ Cardinality(Upto(k)) # 0
    BY <2>1, <2>2, FS_CardinalityType, FS_EmptySet
  <2> QED
    BY <1>2, <2>2, <2>3
<1>4. ASSUME NEW i \in places, NEW k \in places, i < k PROVE rank[i] # rank[k]
  <2>1. Upto(i) \in SUBSET Upto(k) /\ k \in Upto(k) /\ k \notin Upto(i)
    BY <1>1, <1>4
  <2>2. IsFiniteSet(Upto(k))
    BY <1>3
  <2>3. Upto(k) # Upto(i)
    BY <2>1
  <2> HIDE DEF Upto
  <2>4. Cardinality(Upto(i)) # Cardinality(Upto(k))
    BY <2>1, <2>2, <2>3, FS_Subset
  <2> QED
    BY <2>4
<1>5. rank \in [places -> 1..C]
  BY <1>3
<1> HIDE DEF Upto
<1>6. rank \in Injection(places, 1..C)
  <2>1. ASSUME NEW i \in places, NEW k \in places, rank[i] = rank[k] PROVE i = k
    <3>1. i \in Nat /\ k \in Nat
      BY <1>1
    <3>2. ~(i < k) /\ ~(k < i)
      BY <1>4, <2>1
    <3> QED
      BY <3>1, <3>2
  <2> HIDE DEF rank
  <2>2. DOMAIN rank = places
    BY <1>5
  <2> QED
    BY <1>5, <2>1, <2>2 DEF Injection, IsInjective
<1>7. IsFiniteSet(1..C) /\ Cardinality(1..C) = C
  BY <1>2, FS_Interval
<1>8. rank \in Surjection(places, 1..C)
  BY <1>6, <1>7, FS_Injection
<1>9. \A n \in 1..C : \E k \in places : rank[k] = n
  BY <1>8 DEF Surjection
<1>10. \A n \in 1..C : \E k \in places : Cardinality({i \in places : i <= k}) = n
  BY <1>9 DEF Upto
<1>11. Those(list, places) = [n \in 1..C |-> list[CHOOSE k \in places : Cardinality({i \in places : i <= k}) = n]]
  BY DEF Those
<1>12. \A n \in 1..C : \E k \in places : Those(list, places)[n] = list[k]
  BY <1>10, <1>11
<1>13. \A n \in 1..C : Those(list, places)[n] \in S
  BY <1>1, <1>12
<1>14. Those(list, places) \in Seq(S) /\ Len(Those(list, places)) = C
  <2> DEFINE those == Those(list, places)
  <2>1. DOMAIN those = 1..C /\ those = [n \in 1..C |-> those[n]]
    BY <1>11
  <2>2. \A n \in 1..C : those[n] \in S
    BY <1>13
  <2> HIDE DEF those, C
  <2>3. those \in [1..C -> S]
    BY <2>1, <2>2
  <2>4. those \in Seq(S)
    BY <1>2, <2>3, SeqDef
  <2>5. Len(those) = C
    BY <1>2, <2>1, <2>4
  <2> QED
    BY <2>4, <2>5 DEF those
<1>15. places # {} => C > 0
  BY <1>2, FS_EmptySet
<1> QED
  BY <1>12, <1>14, <1>15

-----------------------------------------------------------------------------
(* Resource groups                                                         *)

\* What puts a resource into groups of a configured one: its allowed ARNs or tags.
Related(config, r) ==
  IF config.arns # {} THEN Labels[r].arns \cap config.arns
  ELSE {<<k, Labels[r].tags[k]>> : k \in config.tags \cap DOMAIN Labels[r].tags}

LEMMA DivideIsByRelated ==
  ASSUME NEW config, NEW F
  PROVE  divide(config, F, Labels) =
           [groups     |-> [t \in UNION {Related(config, r) : r \in F} |-> {r \in F : t \in Related(config, r)}],
            individual |-> {r \in F : Related(config, r) = {}}]
<1>1. CASE config.arns # {}
  BY <1>1 DEF divide, divide_by_native_resource_groups, Related
<1>2. CASE config.arns = {}
  BY <1>2 DEF divide, divide_by_tag_keys, Related
<1> QED
  BY <1>1, <1>2

LEMMA DivisionParts ==
  ASSUME NEW config, NEW F
  PROVE  LET d == divide(config, F, Labels) IN
         /\ d.individual = {r \in F : Related(config, r) = {}}
         /\ DOMAIN d.groups = UNION {Related(config, r) : r \in F}
         /\ \A t \in DOMAIN d.groups : d.groups[t] = {r \in F : t \in Related(config, r)}
<1> DEFINE gs == [t \in UNION {Related(config, r) : r \in F} |-> {r \in F : t \in Related(config, r)}]
           is == {r \in F : Related(config, r) = {}}
           d  == divide(config, F, Labels)
<1>1. d = [groups |-> gs, individual |-> is]
  BY DivideIsByRelated
<1>2. /\ DOMAIN gs = UNION {Related(config, r) : r \in F}
      /\ \A t \in DOMAIN gs : gs[t] = {r \in F : t \in Related(config, r)}
  OBVIOUS
<1> HIDE DEF gs, d
<1>3. d.groups = gs /\ d.individual = is
  BY <1>1
<1> QED
  BY <1>2, <1>3 DEF d

LEMMA MatchesIsRelated ==
  ASSUME NEW config, NEW r
  PROVE  Matches(config, r) <=> Related(config, r) # {}
<1> DEFINE F == {r}
<1>1. r \in F /\ \A o \in F : o = r
  OBVIOUS
<1>2. Matches(config, r) <=> divide(config, F, Labels).individual = {}
  BY DEF Matches
<1> HIDE DEF F
<1>3. divide(config, F, Labels).individual = {o \in F : Related(config, o) = {}}
  BY DivisionParts
<1> QED
  BY <1>1, <1>2, <1>3

\* The files that are left are built from one configured group to the next.
LEMMA FilesLeftIsBuilt ==
  ASSUME NEW C, NEW configs \in Seq(C), NEW F
  PROVE  LET left == FilesLeft(configs, F, Labels) IN
         /\ left \in [0..Len(configs) -> SUBSET F]
         /\ left[0] = F
         /\ \A k \in 1..Len(configs) :
              left[k] = IF DOMAIN divide(configs[k], left[k - 1], Labels).groups = {} THEN left[k - 1]
                        ELSE left[k - 1] \ divide(configs[k], left[k - 1], Labels).individual
<1> DEFINE n == Len(configs)
           division(k, G) == divide(configs[k], G, Labels)
           after(k, G) == IF DOMAIN division(k, G).groups = {} THEN G ELSE G \ division(k, G).individual
           step == [k \in 1..n |-> [G \in SUBSET F |-> after(k, G)]]
           left == FilesLeft(configs, F, Labels)
           rec(g) == [k \in 0..n |-> IF k = 0 THEN F ELSE after(k, g[k - 1])]
<1>1. n \in Nat
  OBVIOUS
<1>2. \A k \in 1..n, G \in SUBSET F : after(k, G) \in SUBSET F
  OBVIOUS
<1>3. F \in SUBSET F
  OBVIOUS
<1>4. left = CHOOSE g : g = rec(g)
  BY DEF FilesLeft
<1> HIDE DEF after, n, left
<1>5. step \in [1..n -> [SUBSET F -> SUBSET F]]
  BY <1>2
<1>6. \A k \in 1..n, G \in SUBSET F : step[k][G] = after(k, G)
  OBVIOUS
<1> HIDE DEF step
<1>7. PICK f : Iteration(f, n, SUBSET F, F, step)
  BY <1>1, <1>3, <1>5, Iterates
<1>8. f \in [0..n -> SUBSET F] /\ f[0] = F /\ \A k \in 1..n : f[k] = step[k][f[k - 1]]
  BY <1>7 DEF Iteration
<1>9. \A k \in 1..n : k - 1 \in 0..n /\ k # 0 /\ k \in 0..n
  BY <1>1
<1>10. \A k \in 0..n : k = 0 \/ k \in 1..n
  BY <1>1
<1>11. \A k \in 1..n : f[k] = after(k, f[k - 1])
  BY <1>6, <1>8, <1>9
<1>12. \A k \in 0..n : f[k] = IF k = 0 THEN F ELSE after(k, f[k - 1])
  BY <1>8, <1>9, <1>10, <1>11
<1>13. f = rec(f)
  BY <1>8, <1>12
<1>14. left = rec(left)
  <2> HIDE DEF rec
  <2> QED
    BY <1>4, <1>13
<1>15. DOMAIN left = 0..n
  BY <1>14
<1>16. left[0] = F
  <2>1. 0 \in 0..n
    BY <1>1
  <2> QED
    BY <1>14, <2>1
<1>17. \A k \in 1..n : left[k] = after(k, left[k - 1])
  <2>1. \A k \in 0..n : left[k] = IF k = 0 THEN F ELSE after(k, left[k - 1])
    BY <1>14
  <2> QED
    BY <1>9, <2>1
<1>18. \A k \in 0..n : left[k] \in SUBSET F
  <2> DEFINE bad == {k \in 0..n : left[k] \notin SUBSET F}
  <2>1. ASSUME bad # {} PROVE FALSE
    <3>1. bad \in SUBSET Nat
      BY <1>1
    <3>2. PICK m \in bad : \A k \in bad : m <= k
      <4> HIDE DEF bad
      <4> QED
        BY <2>1, <3>1, Least
    <3>3. m \in 0..n /\ left[m] \notin SUBSET F
      OBVIOUS
    <3>4. m \in 1..n
      BY <1>3, <1>10, <1>16, <3>3
    <3>5. m - 1 \in 0..n /\ ~(m <= m - 1)
      BY <1>1, <3>4
    <3>6. left[m - 1] \in SUBSET F
      BY <3>2, <3>5
    <3> QED
      BY <1>2, <1>17, <3>3, <3>4, <3>6
  <2> QED
    BY <2>1
<1>19. left \in [0..n -> SUBSET F]
  BY <1>14, <1>18
<1>20. /\ left \in [0..n -> SUBSET F]
       /\ left[0] = F
       /\ \A k \in 1..n : left[k] = after(k, left[k - 1])
  BY <1>16, <1>17, <1>19
<1> QED
  BY <1>20 DEF after, n, left

\* What the lists of places that resolve_tenant_parent_meta_map searches hold.
LEMMA MaxOfPlaces ==
  ASSUME NEW n \in Nat, NEW T \in SUBSET (1..n), T # {}
  PROVE  Max(T) \in T /\ Min(T) \in T
<1>1. T \in SUBSET (0..n) /\ T \in SUBSET Nat
  OBVIOUS
<1>2. \E m \in T : \A k \in T : m >= k
  <2>1. PICK m \in T : \A k \in T : k <= m
    BY <1>1, Greatest
  <2> QED
    BY <2>1, <1>1
<1>3. \E m \in T : \A k \in T : m <= k
  BY <1>1, Least
<1> QED
  BY <1>2, <1>3 DEF Max, Min

LEMMA MaxIsGreatest ==
  ASSUME NEW n \in Nat, NEW T \in SUBSET (0..n), T # {}
  PROVE  Max(T) \in T /\ \A k \in T : k <= Max(T)
<1>1. \A k \in T : k \in Nat
  OBVIOUS
<1>2. PICK m \in T : \A k \in T : k <= m
  BY Greatest
<1>3. \A k \in T : m >= k
  BY <1>1, <1>2
<1>4. Max(T) \in T /\ \A k \in T : Max(T) >= k
  BY <1>3 DEF Max
<1> QED
  BY <1>1, <1>4

Configs(s) == UNION {ToSet(p.groups) : p \in ToSet(Settings[s].parents)}

LEMMA ResourceGroupsType ==
  ASSUME setting \in DOMAIN Settings
  PROVE  /\ ResourceGroups \in Seq(Configs(setting))
         /\ \A config \in Configs(setting) : IsFiniteSet(config.arns) /\ IsFiniteSet(config.tags)
<1> DEFINE parents == Settings[setting].parents
           own == {k \in DOMAIN parents : parents[k].scope = "SPECIFIC" /\ parents[k].tenant = Tenant}
           all == {k \in DOMAIN parents : parents[k].scope = "ALL"}
<1>1. Settings[setting] \in ToSet(Settings)
  BY DEF ToSet
<1>2. parents \in Seq(ToSet(parents))
  BY <1>1, SettingsAssumption
<1>3. \A p \in ToSet(parents) :
        /\ p.groups \in Seq(ToSet(p.groups))
        /\ \A c \in ToSet(p.groups) : IsFiniteSet(c.arns) /\ IsFiniteSet(c.tags)
  BY <1>1, SettingsAssumption
<1>4. ResourceGroups = IF own # {} THEN parents[Max(own)].groups
                       ELSE IF all # {} THEN parents[Min(all)].groups ELSE << >>
  BY DEF ResourceGroups, resolve_tenant_parent_meta_map
<1>5. Configs(setting) = UNION {ToSet(p.groups) : p \in ToSet(parents)}
  BY DEF Configs
<1>6. own \in SUBSET (1..Len(parents)) /\ all \in SUBSET (1..Len(parents)) /\ Len(parents) \in Nat
      /\ DOMAIN parents = 1..Len(parents)
  <2> HIDE DEF parents
  <2> QED
    BY <1>2
<1> HIDE DEF parents, own, all
<1>7. \A k \in DOMAIN parents : parents[k] \in ToSet(parents)
  BY DEF ToSet
<1>8. \A k \in DOMAIN parents : parents[k].groups \in Seq(Configs(setting))
  <2> TAKE k \in DOMAIN parents
  <2> DEFINE gs == parents[k].groups
  <2>1. gs \in Seq(ToSet(gs)) /\ ToSet(gs) \subseteq Configs(setting)
    BY <1>3, <1>5, <1>7
  <2> HIDE DEF gs
  <2>2. gs \in Seq(Configs(setting))
    BY <2>1, SeqMonotonic
  <2> QED
    BY <2>2 DEF gs
<1>9. ResourceGroups \in Seq(Configs(setting))
  <2>1. own # {} => Max(own) \in DOMAIN parents
    BY <1>6, MaxOfPlaces
  <2>2. all # {} => Min(all) \in DOMAIN parents
    BY <1>6, MaxOfPlaces
  <2>3. << >> \in Seq(Configs(setting))
    BY EmptySeq
  <2> QED
    BY <1>4, <1>8, <2>1, <2>2, <2>3
<1> QED
  BY <1>3, <1>5, <1>9

LEMMA ImageIsFinite ==
  ASSUME NEW S, IsFiniteSet(S), NEW f, f = [x \in S |-> f[x]]
  PROVE  IsFiniteSet({f[x] : x \in S})
<1> DEFINE T == {f[x] : x \in S}
<1>1. f \in [S -> T]
  OBVIOUS
<1>2. \A t \in T : \E x \in S : f[x] = t
  OBVIOUS
<1> HIDE DEF T
<1>3. f \in Surjection(S, T)
  BY <1>1, <1>2 DEF Surjection
<1>4. IsFiniteSet(T)
  BY <1>3, FS_Surjection
<1> QED
  BY <1>4 DEF T

LEMMA RelatedIsFinite ==
  ASSUME NEW config, NEW r, IsFiniteSet(config.arns), IsFiniteSet(config.tags)
  PROVE  IsFiniteSet(Related(config, r))
<1>1. CASE config.arns # {}
  <2>1. Related(config, r) \in SUBSET config.arns
    BY <1>1 DEF Related
  <2> QED
    BY <2>1, FS_Subset
<1>2. CASE config.arns = {}
  <2> DEFINE keys == config.tags \cap DOMAIN Labels[r].tags
             f == [k \in keys |-> <<k, Labels[r].tags[k]>>]
  <2>1. keys \in SUBSET config.tags
    OBVIOUS
  <2>2. Related(config, r) = {f[k] : k \in keys}
    BY <1>2 DEF Related
  <2>3. f = [k \in keys |-> f[k]]
    OBVIOUS
  <2> HIDE DEF f, keys
  <2>4. IsFiniteSet(keys)
    BY <2>1, FS_Subset
  <2> QED
    BY <2>2, <2>3, <2>4, ImageIsFinite
<1> QED
  BY <1>1, <1>2

\* What a division leaves, takes out and calls a group.
LEMMA Division ==
  ASSUME setting \in DOMAIN Settings, NEW F \in SUBSET Resources
  PROVE  LET division == DivideByConfigs(ResourceGroups, F, Labels) IN
         /\ division.files \subseteq F
         /\ \A r \in F \ division.files : TakenOut(r)
         /\ \A g \in DOMAIN division.groups : \A r \in division.groups[g] : r \in F /\ InGroup(r)
         /\ \A r \in Resources : IsFiniteSet({g \in DOMAIN division.groups : r \in division.groups[g]})
<1> DEFINE C == Configs(setting)
           configs == ResourceGroups
           n == Len(configs)
           left == FilesLeft(configs, F, Labels)
           found(k) == divide(configs[k], left[k - 1], Labels).groups
           keys == UNION {{k} \X DOMAIN found(k) : k \in DOMAIN configs}
           groups == [g \in keys |-> found(g[1])[g[2]]]
           division == DivideByConfigs(ResourceGroups, F, Labels)
<1>1. configs \in Seq(C) /\ \A c \in C : IsFiniteSet(c.arns) /\ IsFiniteSet(c.tags)
  BY ResourceGroupsType
<1>2. division = [files |-> left[n], groups |-> groups]
  BY DEF DivideByConfigs
<1>3. division.files = left[n] /\ division.groups = groups
  <2> HIDE DEF division, left, n, groups
  <2> QED
    BY <1>2
<1> HIDE DEF configs, left, division
<1>4. n \in Nat /\ DOMAIN configs = 1..n /\ \A k \in 1..n : configs[k] \in C
  BY <1>1
<1>5. /\ left \in [0..n -> SUBSET F]
      /\ left[0] = F
      /\ \A k \in 1..n :
           left[k] = IF DOMAIN divide(configs[k], left[k - 1], Labels).groups = {} THEN left[k - 1]
                     ELSE left[k - 1] \ divide(configs[k], left[k - 1], Labels).individual
  BY <1>1, FilesLeftIsBuilt DEF left
<1> HIDE DEF n
<1>6. \A k \in 1..n : k - 1 \in 0..n /\ k \in 0..n /\ left[k - 1] \in SUBSET F
  BY <1>4, <1>5
<1>7. ASSUME NEW k \in 1..n
      PROVE  /\ divide(configs[k], left[k - 1], Labels).individual = {r \in left[k - 1] : Related(configs[k], r) = {}}
             /\ DOMAIN found(k) = UNION {Related(configs[k], r) : r \in left[k - 1]}
             /\ \A t \in DOMAIN found(k) : found(k)[t] = {r \in left[k - 1] : t \in Related(configs[k], r)}
  BY DivisionParts
<1>8. left[n] \subseteq F
  <2>1. n \in 0..n
    BY <1>4
  <2> QED
    BY <1>5, <2>1
<1>9. \A k \in 1..n : configs[k] \in ToSet(ResourceGroups)
  BY <1>4 DEF ToSet, configs
<1>10. ASSUME NEW r \in F \ left[n] PROVE TakenOut(r)
  <2> DEFINE T == {k \in 0..n : r \notin left[k]}
  <2>1. T \in SUBSET Nat /\ n \in T
    BY <1>4
  <2>2. PICK k \in T : \A m \in T : k <= m
    <3> HIDE DEF T
    <3> QED
      BY <2>1, Least
  <2>3. k \in 0..n /\ r \notin left[k] /\ r \in F
    OBVIOUS
  <2>4. k \in 1..n
    <3>1. k # 0
      BY <1>5, <2>3
    <3> QED
      BY <1>4, <2>3, <3>1
  <2>5. r \in left[k - 1]
    <3>1. k - 1 \in 0..n /\ ~(k <= k - 1)
      BY <1>4, <2>4
    <3> QED
      BY <2>2, <3>1
  <2>6. DOMAIN found(k) # {} /\ r \in divide(configs[k], left[k - 1], Labels).individual
    BY <1>5, <2>3, <2>4, <2>5
  <2>7. Related(configs[k], r) = {}
    BY <1>7, <2>4, <2>6
  <2>8. PICK o \in left[k - 1] : Related(configs[k], o) # {}
    BY <1>7, <2>4, <2>6
  <2>9. o \in Resources \ {r}
    BY <1>6, <2>4, <2>7, <2>8
  <2> QED
    BY <1>9, <2>4, <2>7, <2>8, <2>9, MatchesIsRelated DEF TakenOut
<1>11. ASSUME NEW g \in DOMAIN groups
       PROVE  g[1] \in 1..n /\ g[2] \in DOMAIN found(g[1]) /\ g = <<g[1], g[2]>> /\ groups[g] = found(g[1])[g[2]]
  <2>1. g \in keys
    OBVIOUS
  <2>2. PICK k \in 1..n : g \in {k} \X DOMAIN found(k)
    BY <1>4, <2>1
  <2> QED
    BY <2>1, <2>2
<1> HIDE DEF groups
<1>12. ASSUME NEW g \in DOMAIN groups, NEW r \in groups[g]
       PROVE  r \in F /\ g[2] \in Related(configs[g[1]], r) /\ InGroup(r)
  <2>1. r \in left[g[1] - 1] /\ g[2] \in Related(configs[g[1]], r)
    BY <1>7, <1>11
  <2>2. r \in F
    BY <1>6, <1>11, <2>1
  <2> QED
    BY <1>9, <1>11, <2>1, <2>2, MatchesIsRelated DEF InGroup
<1>13. ASSUME NEW r \in Resources PROVE IsFiniteSet({g \in DOMAIN groups : r \in groups[g]})
  <2> DEFINE G == {g \in DOMAIN groups : r \in groups[g]}
             f == [k \in 1..n |-> {k} \X Related(configs[k], r)]
             P == {f[k] : k \in 1..n}
  <2>1. f = [k \in 1..n |-> f[k]] /\ \A k \in 1..n : f[k] = {k} \X Related(configs[k], r)
    OBVIOUS
  <2>2. \A g \in G : g \in {g[1]} \X Related(configs[g[1]], r) /\ g[1] \in 1..n
    BY <1>11, <1>12
  <2> HIDE DEF f
  <2>3. G \subseteq UNION P
    BY <2>1, <2>2
  <2>4. IsFiniteSet(1..n)
    BY <1>4, FS_Interval
  <2>5. IsFiniteSet(P)
    <3> DEFINE K == 1..n
    <3>1. IsFiniteSet(K) /\ f = [k \in K |-> f[k]]
      BY <2>1, <2>4
    <3> HIDE DEF K
    <3>2. IsFiniteSet({f[k] : k \in K})
      BY <3>1, ImageIsFinite
    <3> QED
      BY <3>2 DEF K
  <2>6. ASSUME NEW k \in 1..n PROVE IsFiniteSet(f[k])
    <3>1. IsFiniteSet(Related(configs[k], r))
      BY <1>1, <1>4, RelatedIsFinite
    <3>2. IsFiniteSet({k})
      BY FS_Singleton
    <3> QED
      BY <2>1, <3>1, <3>2, FS_Product
  <2>7. \A p \in P : IsFiniteSet(p)
    BY <2>6
  <2> HIDE DEF P, G
  <2>8. IsFiniteSet(UNION P)
    BY <2>5, <2>7, FS_UNION
  <2>9. IsFiniteSet(G)
    BY <2>3, <2>8, FS_Subset
  <2> QED
    BY <2>9 DEF G
<1> QED
  BY <1>3, <1>8, <1>10, <1>12, <1>13 DEF division

-----------------------------------------------------------------------------
(* The inductive invariant                                                 *)

Actions == {"SCALE_UP", "SCALE_DOWN", "CHANGE_SHAPE", "SPLIT", "SCHEDULE", "SHUTDOWN",
            "NO_ACTION", "ERROR"}
Lines == [actions : Seq(Actions), schedule : 0..Week, by : {"scan", "history", "group"}, upto : Nat]
Recommendations == [resource : Resources, type : Actions, saved : BOOLEAN]

\* How far the dates of a setting may be ahead of the storage's.
AheadOf(place) == IF Settings[place].zone > 0 THEN 1 ELSE 0

\* The documents that a resource may have: of a day and of a scan that have been, and dated
\* ahead of the day only if the setting's timezone is.
DocsUpTo(day, job, place) ==
  {d \in [type : Actions, captured : Nat, upto : 1..day, job : 1..job, refused : BOOLEAN] :
     d.captured <= d.upto + AheadOf(place)}
ItemsUpTo(day, job, place) ==
  [base : Seq(DocsUpTo(day, job, place)), item : DocsUpTo(day, job, place)]
Docs(r)  == DocsUpTo(days[r], scan, setting)
Items(r) == ItemsUpTo(days[r], scan, setting)

\* The day that what is said of a resource must at least have seen.
Due(r) == captured[r] - AheadOf(setting)

LinesUpTo(day) ==
  {l \in Lines : l.by = "group" \/ l.actions = <<"ERROR">> \/ l.upto >= day}

\* What a scan says of a member before its group is compared: only that it failed.
QuietLines == {l \in Lines : l.by = "scan" => l.actions = <<"ERROR">>}

TypeInv ==
  /\ setting \in DOMAIN Settings
  /\ days \in [Resources -> 0..MaxDay] /\ captured \in [Resources -> 0..MaxDay]
  /\ scan \in 0..MaxScans /\ pc \in Steps /\ force \in BOOLEAN
  /\ lost \subseteq Resources /\ unchanged \subseteq Resources /\ files \subseteq Resources
  /\ unchanged \cap files = {}
  /\ DOMAIN reports = Resources

DocsInv ==
  /\ DOMAIN docs = Resources /\ DOMAIN past = Resources
  /\ \A r \in Resources : docs[r] \in Seq(Docs(r)) /\ past[r] \in Seq(Docs(r))

ResultsInv ==
  /\ DOMAIN results \subseteq Members /\ DOMAIN items = DOMAIN results
  /\ \A r \in DOMAIN results : results[r] \in Answers /\ items[r] \in Seq(Items(r))

\* What Defect Dojo may be told of is reported, and by itself.
DojoInv ==
  /\ findings \subseteq tenant_recommendations /\ tenant_recommendations \subseteq Recommendations
  /\ pc # "idle" => \A i \in tenant_recommendations : i.resource \notin Members /\ reports[i.resource] # << >>

DaysInv ==
  /\ \A r \in Resources :
       /\ captured[r] <= days[r]
       /\ r \in files => captured[r] > 0
       /\ r \in unchanged => past[r] # << >> /\ past[r][1].captured >= captured[r]
  /\ pc # "idle" => scan > 0

\* What each step leaves to the later ones.
StepInv ==
  /\ pc = "download" => reports = Nothing /\ tenant_recommendations = {}
  /\ pc \in {"idle", "download"} => files = {} /\ unchanged = {}
  /\ pc \in {"push", "filter", "uploaded"} => files = {}
  /\ pc \notin {"process", "push"} => results = << >>

CoverInv == \A r \in Resources : reports[r] \in Seq(LinesUpTo(Due(r)))

Out     == {r \in Resources : TakenOut(r)}
Grouped == {r \in Resources : InGroup(r)}

\* The resources still to be reported.
Waiting == files \cup DOMAIN results \cup (IF pc = "dump" THEN unchanged ELSE {})

ReportedInv ==
  pc \notin {"idle", "download"} =>
    \A r \in Resources \ lost : captured[r] > 0 /\ r \notin Out => r \in Waiting \/ reports[r] # << >>

OnceInv ==
  \A r \in Resources \ (Members \cup Grouped) :
    Len(reports[r]) <= 1 /\ (r \in Waiting => reports[r] = << >>)

\* Until the group is compared, its scan has written nothing but errors of its members.
FreshInv ==
  IF pc \in {"filter", "uploaded"} THEN ~Contradict(FreshLines) /\ ~SchedulesDiffer(FreshLines)
  ELSE \A r \in Members : reports[r] \in Seq(QuietLines)

ScanInv ==
  /\ TypeInv /\ DocsInv /\ ResultsInv /\ DojoInv /\ DaysInv /\ StepInv
  /\ CoverInv /\ ReportedInv /\ OnceInv /\ FreshInv

-----------------------------------------------------------------------------
(* What is written about a resource                                        *)

\* The action lists that get_general_action returns never mix the directions.
LEMMA ActionLists ==
  ASSUME NEW a \in GeneralActions
  PROVE  /\ a \in Seq(Actions) /\ Len(a) \in Nat /\ Len(a) > 0 /\ a[1] \in Actions
         /\ ToSet(a) \subseteq Actions
         /\ "SCALE_UP" \in ToSet(a) =>
              ToSet(a) \cap {"NO_ACTION", "ERROR", "SCALE_DOWN", "SHUTDOWN", "CHANGE_SHAPE"} = {}
         /\ ToSet(a) \cap {"SCALE_DOWN", "SHUTDOWN"} # {} =>
              ToSet(a) \cap {"NO_ACTION", "ERROR", "SCALE_UP", "CHANGE_SHAPE"} = {}
         /\ "SCHEDULE" \in ToSet(a) => ToSet(a) \cap {"NO_ACTION", "ERROR"} = {}
<1>1. CASE \E x \in Actions : a = <<x>>
  <2>1. PICK x \in Actions : a = <<x>>
    BY <1>1
  <2>2. ToSet(a) = {x} /\ Len(a) = 1 /\ a[1] = x /\ a \in Seq(Actions)
    BY <2>1 DEF ToSet
  <2> QED
    BY <2>2
<1>2. CASE \E x \in {"SCALE_UP", "SCALE_DOWN", "CHANGE_SHAPE", "SPLIT"} : a = <<"SCHEDULE", x>>
  <2>1. PICK x \in {"SCALE_UP", "SCALE_DOWN", "CHANGE_SHAPE", "SPLIT"} : a = <<"SCHEDULE", x>>
    BY <1>2
  <2>2. "SCHEDULE" \in Actions /\ x \in Actions
    BY DEF Actions
  <2>3. ToSet(a) = {"SCHEDULE", x} /\ Len(a) = 2 /\ a[1] = "SCHEDULE" /\ a \in Seq(Actions)
    BY <2>1, <2>2 DEF ToSet
  <2> QED
    BY <2>2, <2>3
<1>3. (\E x \in Actions : a = <<x>>)
      \/ \E x \in {"SCALE_UP", "SCALE_DOWN", "CHANGE_SHAPE", "SPLIT"} : a = <<"SCHEDULE", x>>
  BY DEF GeneralActions, Actions
<1> QED
  BY <1>1, <1>2, <1>3

LEMMA NoActionIsAnActionList ==
  /\ <<"NO_ACTION">> \in GeneralActions /\ <<"ERROR">> \in GeneralActions
  /\ ToSet(<<"NO_ACTION">>) = {"NO_ACTION"}
<1>1. <<"NO_ACTION">> \in GeneralActions /\ <<"ERROR">> \in GeneralActions
  BY DEF GeneralActions
<1>2. ToSet(<<"NO_ACTION">>) = {"NO_ACTION"}
  BY DEF ToSet
<1> QED
  BY <1>1, <1>2

LEMMA WeekType ==
  /\ Week \in Nat /\ Week = 10080 /\ 0 \in 0..Week
  /\ \A k \in 0..Week : k \in Nat
BY DEF Week

\* What _filter_group does to a group: everyone keeps a report, the directions agree and
\* so do the schedules that are left.
LEMMA GroupIsCompared ==
  ASSUME NEW res, \A r \in DOMAIN res : res[r] \in Answers
  PROVE  LET group == _filter_group(res) IN
         /\ \A r \in DOMAIN res : /\ group.times[r] \in Nat /\ group.times[r] > 0
                                  /\ group.reports[r].actions \in GeneralActions
                                  /\ group.reports[r].schedule \in 0..Week
         /\ \A r, o \in DOMAIN res :
              /\ "SCALE_UP" \in ToSet(group.reports[r].actions) =>
                   ToSet(group.reports[o].actions) \cap {"SCALE_DOWN", "SHUTDOWN"} = {}
              /\ Scheduled(group.reports[r]) /\ Scheduled(group.reports[o]) =>
                   100 * group.reports[r].schedule >= 95 * group.reports[o].schedule
<1> DEFINE D == DOMAIN res
           open == {r \in D : ~Settled(res[r])}
           On(kinds) == {r \in open : Has(res[r], kinds)}
           members == On(Resizing)
           planned == On({"SCHEDULE"})
           resized == _filter_resize(res, members)
           final == _filter_schedule(resized, planned)
           Listed1(r) == {k \in DOMAIN res[r].actions :
                            res[r].actions[k] \in Resizing \cup {"SCHEDULE", "SPLIT"}}
           times == [r \in D |-> IF r \in open THEN Cardinality(Listed1(r)) ELSE 1]
           group == _filter_group(res)
<1>1. group = [reports |-> final, times |-> times]
  BY DEF _filter_group
<1>2. group.reports = final /\ group.times = times
  <2> HIDE DEF group, final, times
  <2> QED
    BY <1>1
<1>3. \A r \in D : res[r] \in [actions : GeneralActions, schedule : 0..Week, shapes : BOOLEAN]
  BY AnswersAssumption
<1>4. ASSUME NEW r \in D PROVE times[r] \in Nat /\ times[r] > 0
  <2>1. CASE r \in open
    <3> DEFINE a == res[r].actions
    <3>1. a \in GeneralActions /\ ToSet(a) \cap {"NO_ACTION", "ERROR"} = {}
      BY <1>3, <2>1 DEF Settled, Has
    <3> HIDE DEF a
    <3>2. a \in Seq(Actions) /\ Len(a) \in Nat /\ Len(a) > 0 /\ a[1] \in ToSet(a) /\ a[1] \in Actions
      BY <3>1, ActionLists DEF ToSet
    <3>3. a[1] \in Resizing \cup {"SCHEDULE", "SPLIT"}
      BY <3>1, <3>2 DEF Actions, Resizing
    <3>4. 1 \in DOMAIN a /\ IsFiniteSet(DOMAIN a)
      BY <3>2, FS_Interval
    <3>5. Listed1(r) \in SUBSET (DOMAIN a) /\ 1 \in Listed1(r)
      BY <3>3, <3>4 DEF a
    <3>6. times[r] = Cardinality(Listed1(r))
      BY <2>1
    <3> HIDE DEF Listed1, times
    <3>7. IsFiniteSet(Listed1(r)) /\ Listed1(r) # {}
      BY <3>4, <3>5, FS_Subset
    <3>8. Cardinality(Listed1(r)) \in Nat /\ Cardinality(Listed1(r)) # 0
      BY <3>7, FS_CardinalityType, FS_EmptySet
    <3> QED
      BY <3>6, <3>8
  <2>2. CASE r \notin open
    BY <2>2
  <2> QED
    BY <2>1, <2>2
<1> DEFINE grown == \E r \in members : Has(res[r], {"SCALE_UP"})
           acceptable == {"CHANGE_SHAPE"} \cup (IF grown THEN {"SCALE_UP"} ELSE {"SCALE_DOWN", "SHUTDOWN"})
<1>5. DOMAIN resized = D
      /\ \A r \in D : resized[r] = IF r \in members /\ ~Has(res[r], acceptable) THEN Discarded(res[r]) ELSE res[r]
  BY DEF _filter_resize
<1>6. \A r \in D : Discarded(res[r]).actions = <<"NO_ACTION">>
                   /\ Discarded(res[r]) \in [actions : GeneralActions, schedule : 0..Week, shapes : BOOLEAN]
  BY <1>3, NoActionIsAnActionList DEF Discarded
<1> HIDE DEF resized, members, acceptable
<1>7. \A r \in D : resized[r] \in [actions : GeneralActions, schedule : 0..Week, shapes : BOOLEAN]
  BY <1>3, <1>5, <1>6
<1> DEFINE custom == {o \in planned : resized[o].schedule \in 1..(Week - 1)}
           schedules == {resized[o].schedule : o \in custom}
           late == {r \in custom : 100 * resized[r].schedule < 95 * Max(schedules)}
<1>8. \A r \in D : final[r] = IF r \in late THEN [resized[r] EXCEPT !.schedule = Week] ELSE resized[r]
  BY <1>5 DEF _filter_schedule
<1> HIDE DEF final, late, custom, schedules
<1>s. ASSUME NEW r \in D
      PROVE  /\ final[r].actions = resized[r].actions /\ final[r].schedule \in 0..Week
             /\ r \in late => final[r].schedule = Week
             /\ r \notin late => final[r] = resized[r]
  <2> DEFINE x == resized[r]
             e == [x EXCEPT !.schedule = Week]
  <2>1. x \in [actions : GeneralActions, schedule : 0..Week, shapes : BOOLEAN]
    BY <1>7
  <2>2. final[r] = IF r \in late THEN e ELSE x
    BY <1>8
  <2> HIDE DEF x
  <2>3. e.actions = x.actions /\ e.schedule = Week /\ x.schedule \in 0..Week
    BY <2>1
  <2> HIDE DEF e
  <2>4. Week \in 0..Week
    BY WeekType
  <2> QED
    BY <2>2, <2>3, <2>4 DEF x
<1>9. \A r \in D : final[r].actions \in GeneralActions
  BY <1>7, <1>s
<1>10. \A r \in D : final[r].actions = res[r].actions \/ final[r].actions = <<"NO_ACTION">>
  BY <1>5, <1>6, <1>s
<1>11. ASSUME NEW r \in D, NEW o \in D, "SCALE_UP" \in ToSet(final[r].actions),
              ToSet(final[o].actions) \cap {"SCALE_DOWN", "SHUTDOWN"} # {}
       PROVE  FALSE
  <2>1. final[r].actions = res[r].actions /\ final[o].actions = res[o].actions
    BY <1>10, <1>11, NoActionIsAnActionList
  <2>2. ToSet(res[r].actions) \cap {"NO_ACTION", "ERROR"} = {} /\ "SCALE_UP" \in ToSet(res[r].actions)
    BY <1>3, <1>11, <2>1, ActionLists
  <2>3. ToSet(res[o].actions) \cap {"NO_ACTION", "ERROR", "SCALE_UP", "CHANGE_SHAPE"} = {}
        /\ ToSet(res[o].actions) \cap {"SCALE_DOWN", "SHUTDOWN"} # {}
    BY <1>3, <1>11, <2>1, ActionLists
  <2>4. r \in members /\ Has(res[r], {"SCALE_UP"})
    BY <2>2 DEF members, Settled, Has, Resizing
  <2>5. acceptable = {"CHANGE_SHAPE", "SCALE_UP"}
    BY <2>4 DEF acceptable
  <2>6. o \in members
    BY <2>3 DEF members, Settled, Has, Resizing
  <2>7. ~Has(res[o], acceptable)
    BY <2>3, <2>5 DEF Has
  <2>8. resized[o].actions = <<"NO_ACTION">>
    BY <1>5, <1>6, <2>6, <2>7
  <2>9. final[o].actions = <<"NO_ACTION">>
    BY <1>s, <2>8
  <2> QED
    BY <1>11, <2>9, NoActionIsAnActionList
\* A schedule that is left is none of the late ones, and no schedule is longer than the longest.
<1>12. ASSUME NEW r \in D, NEW o \in D, Scheduled(final[r]), Scheduled(final[o])
       PROVE  100 * final[r].schedule >= 95 * final[o].schedule
  <2>1. ASSUME NEW q \in D, Scheduled(final[q])
        PROVE  q \in custom /\ q \notin late /\ final[q].schedule = resized[q].schedule
    <3>1. "SCHEDULE" \in ToSet(final[q].actions) /\ final[q].schedule \in 1..(Week - 1)
      BY <2>1 DEF Scheduled
    <3>2. final[q].actions = res[q].actions
      BY <1>10, <3>1, NoActionIsAnActionList
    <3>3. q \in planned
      BY <1>3, <3>1, <3>2, ActionLists DEF Settled, Has
    <3>4. q \notin late
      <4>1. Week \notin 1..(Week - 1)
        BY WeekType
      <4> QED
        BY <1>s, <3>1, <4>1
    <3>5. final[q] = resized[q]
      BY <1>s, <3>4
    <3> QED
      BY <3>1, <3>3, <3>4, <3>5 DEF custom
  <2>2. r \in custom /\ r \notin late /\ o \in custom
    BY <1>12, <2>1
  <2>3. schedules \in SUBSET (0..Week) /\ resized[o].schedule \in schedules /\ schedules # {}
    <3>1. \A k \in 1..(Week - 1) : k \in 0..Week
      BY WeekType
    <3>2. \A q \in custom : resized[q].schedule \in 1..(Week - 1)
      BY DEF custom
    <3> QED
      BY <2>2, <3>1, <3>2 DEF schedules
  <2>4. Max(schedules) \in schedules /\ \A k \in schedules : k <= Max(schedules)
    <3>1. Week \in Nat
      BY WeekType
    <3> QED
      BY <2>3, <3>1, MaxIsGreatest
  <2>5. /\ resized[r].schedule \in Nat /\ resized[o].schedule \in Nat /\ Max(schedules) \in Nat
        /\ resized[o].schedule <= Max(schedules)
    <3>1. /\ resized[r].schedule \in 0..Week /\ resized[o].schedule \in 0..Week
          /\ Max(schedules) \in 0..Week /\ resized[o].schedule <= Max(schedules)
      BY <1>7, <2>3, <2>4
    <3>2. \A k \in 0..Week : k \in Nat
      BY WeekType
    <3> QED
      BY <3>1, <3>2
  <2>6. ~(100 * resized[r].schedule < 95 * Max(schedules))
    BY <2>2 DEF late
  <2>7. final[r].schedule = resized[r].schedule /\ final[o].schedule = resized[o].schedule
    BY <1>12, <2>1
  <2> DEFINE a == resized[r].schedule
             b == resized[o].schedule
             m == Max(schedules)
  <2>8. a \in Nat /\ b \in Nat /\ m \in Nat /\ b <= m /\ ~(100 * a < 95 * m)
    BY <2>5, <2>6
  <2> HIDE DEF a, b, m
  <2>9. 100 * a >= 95 * b
    BY <2>8
  <2> QED
    BY <2>7, <2>9 DEF a, b
<1> QED
  BY <1>2, <1>4, <1>9, <1>s, <1>11, <1>12

LEMMA ReverseType ==
  ASSUME NEW S, NEW s \in Seq(S)
  PROVE  Reverse(s) \in Seq(S)
<1>1. Len(s) \in Nat /\ \A k \in 1..Len(s) : Len(s) - k + 1 \in 1..Len(s)
  OBVIOUS
<1>2. \A k \in 1..Len(s) : s[Len(s) - k + 1] \in S
  BY <1>1
<1>3. Reverse(s) = [k \in 1..Len(s) |-> s[Len(s) - k + 1]]
  BY DEF Reverse
<1> DEFINE n == Len(s)
<1>4. Reverse(s) \in [1..n -> S]
  BY <1>2, <1>3
<1> HIDE DEF n
<1>5. n \in Nat
  BY <1>1 DEF n
<1> QED
  BY <1>4, <1>5, SeqDef

\* The dates that the records of a day may have.
LocalDates(day) == {d \in Nat : d <= day + AheadOf(setting)}

LEMMA LocalDateType ==
  ASSUME setting \in DOMAIN Settings, NEW day \in Nat, day > 0, NEW hour \in 0..(DayHours - 1)
  PROVE  local_date(day, hour) \in LocalDates(day)
<1> DEFINE zone == Settings[setting].zone
<1>1. zone \in (1 - DayHours)..(DayHours - 1) /\ DayHours \in Nat \ {0}
  BY SettingsAssumption, BoundsAssumption DEF ToSet
<1> HIDE DEF zone
<1>2. local_date(day, hour) = IF hour + zone < 0 THEN day - 1 ELSE IF hour + zone < DayHours THEN day ELSE day + 1
  BY DEF local_date, zone
<1>3. AheadOf(setting) = IF zone > 0 THEN 1 ELSE 0
  BY DEF AheadOf, zone
<1> QED
  BY <1>1, <1>2, <1>3 DEF LocalDates

LEMMA NewDocType ==
  ASSUME TypeInv, DaysInv, pc # "idle", NEW r \in Resources, captured[r] > 0, NEW action \in Actions,
         NEW date \in LocalDates(captured[r])
  PROVE  NewDoc(action, r, date) \in Docs(r)
<1>1. captured[r] \in 1..days[r]
  BY DEF TypeInv, DaysInv
<1>2. scan \in 1..scan
  BY DEF TypeInv, DaysInv
<1> QED
  BY <1>1, <1>2 DEF NewDoc, Docs, DocsUpTo, LocalDates

LEMMA CreatedType ==
  ASSUME TypeInv, DocsInv, DaysInv, pc # "idle", NEW r \in Resources, captured[r] > 0,
         NEW actions \in GeneralActions, NEW date \in LocalDates(captured[r])
  PROVE  Created(actions, r, date).docs \in Seq(Docs(r)) /\ Created(actions, r, date).items \in Seq(Items(r))
<1> DEFINE open == {k \in DOMAIN docs[r] : ~docs[r][k].refused}
           kept == Those(docs[r], DOMAIN docs[r] \ open)
           first == Those(docs[r], open)[1]
           updated(k) == IF k = 1 THEN first ELSE NewDoc(actions[k - 1], r, date)
           made == Created(actions, r, date)
<1>1. docs[r] \in Seq(Docs(r)) /\ open \in SUBSET DOMAIN docs[r] /\ DOMAIN docs[r] \ open \in SUBSET DOMAIN docs[r]
  BY DEF DocsInv
<1>2. actions \in Seq(Actions) /\ Len(actions) \in Nat /\ Len(actions) > 0 /\ DOMAIN actions = 1..Len(actions)
      /\ \A k \in DOMAIN actions : actions[k] \in Actions
  BY ActionLists
<1>3. \A action \in Actions : NewDoc(action, r, date) \in Docs(r)
  BY NewDocType
<1>4. Last(actions) \in Actions
  BY <1>2 DEF Last
<1> HIDE DEF open, made
<1>5. CASE open = {}
  <2> DEFINE its == [k \in DOMAIN actions |-> [base |-> << >>, item |-> NewDoc(actions[k], r, date)]]
  <2>1. made = [docs |-> docs[r], items |-> its]
    BY <1>5 DEF Created, made, open
  <2>2. \A k \in DOMAIN actions : [base |-> << >>, item |-> NewDoc(actions[k], r, date)] \in Items(r)
    BY <1>2, <1>3 DEF Items, ItemsUpTo, Docs
  <2>3. its \in Seq(Items(r))
    BY <1>2, <2>2
  <2> HIDE DEF its
  <2> QED
    BY <1>1, <2>1, <2>3 DEF made
<1>6. CASE open # {}
  <2> DEFINE its == [k \in DOMAIN actions |-> [base |-> <<updated(k)>>, item |-> updated(k)]]
             new == <<NewDoc(Last(actions), r, date)>> \o kept
  <2>1. made = [docs |-> new, items |-> its]
    BY <1>6 DEF Created, made, open
  <2>2. kept \in Seq(Docs(r))
    BY <1>1, ThoseElements
  <2>3. first \in Docs(r)
    <3> DEFINE those == Those(docs[r], open)
    <3>1. those \in Seq(Docs(r)) /\ Len(those) > 0
      BY <1>1, <1>6, ThoseElements
    <3> HIDE DEF those
    <3>2. those[1] \in Docs(r)
      BY <3>1
    <3> QED
      BY <3>2 DEF those
  <2> HIDE DEF kept, first
  <2>4. ASSUME NEW k \in DOMAIN actions PROVE updated(k) \in Docs(r)
    <3>1. CASE k = 1
      BY <2>3, <3>1
    <3>2. CASE k # 1
      <4>1. k - 1 \in DOMAIN actions
        BY <1>2, <3>2
      <4> QED
        BY <1>2, <1>3, <3>2, <4>1
    <3> QED
      BY <3>1, <3>2
  <2> HIDE DEF updated
  <2>5. \A k \in DOMAIN actions : [base |-> <<updated(k)>>, item |-> updated(k)] \in Items(r)
    <3> TAKE k \in DOMAIN actions
    <3>1. <<updated(k)>> \in Seq(Docs(r))
      BY <2>4
    <3> QED
      BY <2>4, <3>1 DEF Items, ItemsUpTo, Docs
  <2>6. its \in Seq(Items(r))
    BY <1>2, <2>5
  <2>7. <<NewDoc(Last(actions), r, date)>> \in Seq(Docs(r))
    BY <1>3, <1>4
  <2>8. new \in Seq(Docs(r))
    BY <2>2, <2>7
  <2> HIDE DEF its, new
  <2> QED
    BY <2>1, <2>6, <2>8 DEF made
<1> QED
  BY <1>5, <1>6 DEF made

LEMMA InsertedType ==
  ASSUME NEW r \in Resources, NEW list \in Seq(Docs(r)), NEW made \in Seq(Items(r))
  PROVE  Inserted(list, made) \in Seq(Docs(r))
<1> DEFINE places == {k \in DOMAIN made : made[k].base = << >>}
           new == Those(made, places)
           docs_ == [k \in DOMAIN new |-> new[k].item]
<1>1. new \in Seq(Items(r))
  <2>1. places \in SUBSET DOMAIN made
    OBVIOUS
  <2> HIDE DEF places
  <2> QED
    BY <2>1, ThoseElements
<1>2. Inserted(list, made) = Reverse(docs_) \o list
  BY DEF Inserted
<1> HIDE DEF new
<1>3. DOMAIN new = 1..Len(new) /\ Len(new) \in Nat /\ \A k \in DOMAIN new : new[k] \in Items(r)
  BY <1>1
<1>4. docs_ \in Seq(Docs(r))
  <2>1. \A k \in DOMAIN new : new[k].item \in Docs(r)
    BY <1>3 DEF Items, ItemsUpTo, Docs
  <2> QED
    BY <1>3, <2>1
<1> HIDE DEF docs_
<1>5. Reverse(docs_) \in Seq(Docs(r))
  BY <1>4, ReverseType
<1> QED
  BY <1>2, <1>5

LEMMA SyncedType ==
  ASSUME NEW r \in Resources, NEW list \in Seq(Docs(r)), NEW made \in Seq(Items(r)), made # << >>,
         NEW report, report.actions \in GeneralActions
  PROVE  Synced(list, made, report) \in Seq(Docs(r))
<1> DEFINE last == Last(made)
           type == sync_history_item(last.item, report).type
           new == IF last.base = << >> THEN [made EXCEPT ![Len(made)].item.type = type] ELSE made
           old == IF last.base # << >> /\ type # last.base[1].type /\ list # << >>
                    THEN [list EXCEPT ![1].type = type] ELSE list
<1>1. Len(made) \in DOMAIN made /\ \A k \in DOMAIN made : made[k] \in Items(r)
  BY EmptySeq
<1>2. last \in Items(r)
  BY <1>1 DEF Last
<1> HIDE DEF last
<1>3. last.item \in Docs(r)
  BY <1>2 DEF Items, ItemsUpTo, Docs
<1>4. type = report.actions[1]
  BY <1>3 DEF sync_history_item, Docs, DocsUpTo
<1>5. type \in Actions
  BY <1>4, ActionLists
<1>6. Synced(list, made, report) = Inserted(old, new)
  BY DEF Synced, last
<1> HIDE DEF type
<1>7. new \in Seq(Items(r))
  <2> DEFINE n == Len(made)
             item == [made[n] EXCEPT !.item.type = type]
  <2>1. made[n] \in Items(r)
    BY <1>1
  <2>2. item \in Items(r)
    BY <1>5, <2>1 DEF Items, ItemsUpTo, Docs, DocsUpTo
  <2>3. [made EXCEPT ![Len(made)].item.type = type] = [made EXCEPT ![n] = item]
    OBVIOUS
  <2>4. [made EXCEPT ![n] = item] \in Seq(Items(r))
    <3> HIDE DEF item
    <3> QED
      BY <1>1, <2>2
  <2> QED
    BY <2>3, <2>4
<1>8. old \in Seq(Docs(r))
  <2>1. CASE list # << >>
    <3>1. 1 \in DOMAIN list /\ list[1] \in Docs(r)
      BY <2>1, EmptySeq
    <3> DEFINE doc == [list[1] EXCEPT !.type = type]
    <3>2. doc \in Docs(r)
      BY <1>5, <3>1 DEF Docs, DocsUpTo
    <3>3. [list EXCEPT ![1].type = type] = [list EXCEPT ![1] = doc]
      OBVIOUS
    <3>4. [list EXCEPT ![1] = doc] \in Seq(Docs(r))
      <4> HIDE DEF doc
      <4> QED
        BY <3>1, <3>2
    <3> QED
      BY <3>3, <3>4
  <2>2. CASE list = << >>
    BY <2>2
  <2> QED
    BY <2>1, <2>2
<1> HIDE DEF new, old
<1> QED
  BY <1>6, <1>7, <1>8, InsertedType

LEMMA PastReportType ==
  ASSUME NEW r \in Resources, NEW list \in Seq(Docs(r)), list # << >>, days[r] \in Nat
  PROVE  /\ PastReport(list) \in Lines /\ PastReport(list).upto = list[1].upto
         /\ PastReport(list).upto >= list[1].captured - AheadOf(setting)
         /\ PastReport(list).by = "history"
<1> DEFINE types == [k \in DOMAIN list |-> list[k].type]
<1>1. 1 \in DOMAIN list /\ DOMAIN list = 1..Len(list) /\ Len(list) \in Nat /\ \A k \in DOMAIN list : list[k] \in Docs(r)
  BY EmptySeq
<1>2. \A k \in DOMAIN list : list[k].type \in Actions
  BY <1>1 DEF Docs, DocsUpTo
<1>3. types \in Seq(Actions)
  BY <1>1, <1>2
<1>4. list[1].upto \in Nat /\ list[1].captured \in Nat /\ list[1].captured <= list[1].upto + AheadOf(setting)
  BY <1>1 DEF Docs, DocsUpTo
<1>5. PastReport(list) = [actions |-> types, schedule |-> 0, by |-> "history", upto |-> list[1].upto]
  BY DEF PastReport, Line
<1> HIDE DEF types
<1>7. PastReport(list) \in Lines
  BY <1>3, <1>4, <1>5, WeekType DEF Lines
<1>8. list[1].upto >= list[1].captured - AheadOf(setting)
  BY <1>4 DEF AheadOf
<1> QED
  BY <1>5, <1>7, <1>8

LEMMA Grown ==
  ASSUME NEW S, NEW s \in Seq(S)
  PROVE  /\ \A e \in S : /\ Append(s, e) \in Seq(S) /\ Append(s, e) # << >>
                         /\ s = << >> => Len(Append(s, e)) <= 1
         /\ \A t \in Seq(S) : s \o t \in Seq(S) /\ (s # << >> \/ t # << >> => s \o t # << >>)
<1>1. \A e \in S : Append(s, e) \in Seq(S) /\ Len(Append(s, e)) = Len(s) + 1 /\ Len(s) \in Nat
  OBVIOUS
<1>2. \A t \in Seq(S) : s \o t \in Seq(S) /\ Len(s \o t) = Len(s) + Len(t) /\ Len(t) \in Nat
  OBVIOUS
<1>3. Len(<< >>) = 0 /\ \A t \in Seq(S) : t # << >> => Len(t) \in Nat \ {0}
  BY EmptySeq
<1>4. \A e \in S : /\ Append(s, e) \in Seq(S) /\ Append(s, e) # << >>
                   /\ s = << >> => Len(Append(s, e)) <= 1
  BY <1>1, <1>3
<1>5. ASSUME NEW t \in Seq(S), s # << >> \/ t # << >> PROVE s \o t # << >>
  BY <1>2, <1>3, <1>5
<1> QED
  BY <1>2, <1>4, <1>5

-----------------------------------------------------------------------------
(* Steps                                                                   *)

LEMMA SettingStays ==
  ASSUME setting' = setting
  PROVE  Members' = Members /\ Out' = Out /\ Grouped' = Grouped
<1>1. Labels' = Labels /\ Members' = Members
  BY DEF Labels, Members, LabelsOf, MembersOf
<1>2. ResourceGroups' = ResourceGroups
  BY DEF ResourceGroups
<1>3. Out' = Out
  BY <1>1, <1>2 DEF Out, TakenOut, Matches
<1>4. Grouped' = Grouped
  BY <1>1, <1>2 DEF Grouped, InGroup, Matches
<1> QED
  BY <1>1, <1>3, <1>4

LEMMA DocsGrow ==
  ASSUME NEW d \in Nat, NEW e \in Nat, NEW m \in Nat, NEW n \in Nat, d <= e, m <= n, NEW s
  PROVE  /\ Seq(DocsUpTo(d, m, s)) \subseteq Seq(DocsUpTo(e, n, s))
         /\ Seq(ItemsUpTo(d, m, s)) \subseteq Seq(ItemsUpTo(e, n, s))
<1>1. DocsUpTo(d, m, s) \subseteq DocsUpTo(e, n, s)
  BY DEF DocsUpTo
<1>2. \A q \in Seq(DocsUpTo(d, m, s)) : q \in Seq(DocsUpTo(e, n, s))
  BY <1>1, SeqMonotonic
<1>3. ItemsUpTo(d, m, s) \subseteq ItemsUpTo(e, n, s)
  BY <1>1, <1>2 DEF ItemsUpTo
<1>4. \A q \in Seq(ItemsUpTo(d, m, s)) : q \in Seq(ItemsUpTo(e, n, s))
  BY <1>3, SeqMonotonic
<1> QED
  BY <1>2, <1>4

LEMMA InitScanInv == Init => ScanInv
<1> SUFFICES ASSUME Init PROVE ScanInv
  OBVIOUS
<1>1. TypeInv
  <2>1. 0 \in 0..MaxDay /\ 0 \in 0..MaxScans
    BY BoundsAssumption
  <2> DEFINE zero == [r \in Resources |-> 0]
  <2>2. zero \in [Resources -> 0..MaxDay]
    BY <2>1
  <2>3. days = zero /\ captured = zero
    BY DEF Init
  <2> HIDE DEF zero
  <2>4. DOMAIN reports = Resources
    BY DEF Init, Nothing
  <2>5. /\ setting \in DOMAIN Settings /\ scan = 0 /\ pc = "idle" /\ force = FALSE
        /\ lost = {} /\ unchanged = {} /\ files = {}
    BY DEF Init
  <2> QED
    BY <2>1, <2>2, <2>3, <2>4, <2>5 DEF TypeInv, Steps
<1>2. DocsInv /\ ResultsInv
  <2>1. \A S : << >> \in Seq(S)
    BY EmptySeq
  <2>2. DOMAIN << >> = {}
    OBVIOUS
  <2> QED
    BY <2>1, <2>2 DEF Init, DocsInv, ResultsInv, Nothing
<1>3. DojoInv /\ DaysInv /\ StepInv
  BY DEF Init, DojoInv, DaysInv, StepInv
<1>4. CoverInv /\ ReportedInv /\ FreshInv
  BY EmptySeq DEF Init, CoverInv, ReportedInv, FreshInv, Nothing, MembersOf, Members
<1>5. OnceInv
  <2>1. Len(<< >>) = 0
    BY EmptySeq
  <2> QED
    BY <2>1 DEF Init, OnceInv, Nothing
<1> QED
  BY <1>1, <1>2, <1>3, <1>4, <1>5 DEF ScanInv

\* Members are resources.
LEMMA MembersAreResources ==
  ASSUME setting \in DOMAIN Settings
  PROVE  Members \subseteq Resources
BY DEF Members, MembersOf

LEMMA NewMetricsScanInv ==
  ASSUME ScanInv, NEW q \in Resources, NewMetrics(q)
  PROVE  ScanInv'
<1> USE DEF NewMetrics, scanVars
<1>1. TypeInv'
  BY BoundsAssumption DEF ScanInv, TypeInv
<1>2. \A r \in Resources : days[r] \in Nat /\ days'[r] \in Nat /\ days[r] <= days'[r] /\ scan \in Nat
  BY BoundsAssumption DEF ScanInv, TypeInv
<1>3. \A r \in Resources : /\ Seq(DocsUpTo(days[r], scan, setting)) \subseteq Seq(DocsUpTo(days'[r], scan, setting))
                           /\ Seq(ItemsUpTo(days[r], scan, setting)) \subseteq Seq(ItemsUpTo(days'[r], scan, setting))
  BY <1>2, DocsGrow
<1>4. DocsInv'
  BY <1>3 DEF ScanInv, DocsInv, Docs
<1>5. Members' = Members /\ Out' = Out /\ Grouped' = Grouped
  BY SettingStays
<1>6. ResultsInv'
  <2>1. DOMAIN results \subseteq Resources
    BY MembersAreResources DEF ScanInv, ResultsInv, TypeInv
  <2> QED
    BY <1>3, <1>5, <2>1 DEF ScanInv, ResultsInv, Items
<1>7. DojoInv'
  BY <1>5 DEF ScanInv, DojoInv
<1>8. DaysInv'
  BY <1>2 DEF ScanInv, DaysInv, TypeInv
<1>9. StepInv' /\ CoverInv'
  BY DEF ScanInv, StepInv, CoverInv, Due
<1>10. ReportedInv' /\ OnceInv'
  BY <1>5 DEF ScanInv, ReportedInv, OnceInv, Waiting
<1>11. FreshInv'
  BY <1>5 DEF ScanInv, FreshInv, FreshLines, Contradict, SchedulesDiffer
<1> QED
  BY <1>1, <1>4, <1>6, <1>7, <1>8, <1>9, <1>10, <1>11 DEF ScanInv

LEMMA RefuseScanInv ==
  ASSUME ScanInv, NEW q \in Resources, Refuse(q)
  PROVE  ScanInv'
<1> USE DEF Refuse, scanVars
<1>1. TypeInv'
  BY DEF ScanInv, TypeInv
<1>2. DocsInv'
  <2> DEFINE D == Docs(q)
             doc == [docs[q][1] EXCEPT !.refused = TRUE]
             list == [docs[q] EXCEPT ![1] = doc]
  <2>1. docs[q] \in Seq(D) /\ docs[q] # << >>
    BY DEF ScanInv, DocsInv
  <2>2. 1 \in DOMAIN docs[q] /\ docs[q][1] \in D
    <3> HIDE DEF D
    <3> QED
      BY <2>1, EmptySeq
  <2>3. doc \in D
    BY <2>2 DEF Docs, DocsUpTo
  <2>4. docs' = [docs EXCEPT ![q] = list]
    OBVIOUS
  <2> HIDE DEF D, doc
  <2>5. list \in Seq(D)
    BY <2>1, <2>2, <2>3
  <2>6. \A r \in Resources : Docs(r)' = Docs(r)
    BY DEF Docs
  <2> HIDE DEF list
  <2> QED
    BY <2>4, <2>5, <2>6 DEF ScanInv, DocsInv, D
<1>5. Members' = Members /\ Out' = Out /\ Grouped' = Grouped
  BY SettingStays
<1>6. ResultsInv'
  BY <1>5 DEF ScanInv, ResultsInv, Items
<1>7. DojoInv' /\ DaysInv' /\ StepInv' /\ CoverInv'
  BY <1>5 DEF ScanInv, DojoInv, DaysInv, StepInv, CoverInv, Due
<1>10. ReportedInv' /\ OnceInv'
  BY <1>5 DEF ScanInv, ReportedInv, OnceInv, Waiting
<1>11. FreshInv'
  BY <1>5 DEF ScanInv, FreshInv, FreshLines, Contradict, SchedulesDiffer
<1> QED
  BY <1>1, <1>2, <1>6, <1>7, <1>10, <1>11 DEF ScanInv

LEMMA StartScanScanInv ==
  ASSUME ScanInv, StartScan
  PROVE  ScanInv'
<1> USE DEF StartScan
<1>1. TypeInv'
  BY BoundsAssumption DEF ScanInv, TypeInv, Nothing, Steps
<1>2. \A r \in Resources : days[r] \in Nat /\ scan \in Nat /\ scan' \in Nat /\ scan <= scan' /\ days[r] <= days[r]
  BY BoundsAssumption DEF ScanInv, TypeInv
<1>3. \A r \in Resources : Seq(DocsUpTo(days[r], scan, setting)) \subseteq Seq(DocsUpTo(days[r], scan', setting))
  BY <1>2, DocsGrow
<1>4. DocsInv'
  <2>1. \A r \in Resources : get_tenant_recommendation(r) \in Seq(Docs(r))
    <3> TAKE r \in Resources
    <3> DEFINE places == {k \in DOMAIN docs[r] : docs[r][k].job = docs[r][1].job}
    <3>1. places \in SUBSET DOMAIN docs[r] /\ docs[r] \in Seq(Docs(r))
      BY DEF ScanInv, DocsInv
    <3>2. get_tenant_recommendation(r) = Those(docs[r], places)
      BY DEF get_tenant_recommendation
    <3> HIDE DEF places
    <3> QED
      BY <3>1, <3>2, ThoseElements
  <2>2. \A r \in Resources : << >> \in Seq(Docs(r))
    BY EmptySeq
  <2>3. DOMAIN past' = Resources /\ \A r \in Resources : past'[r] \in Seq(Docs(r))
    BY <2>1, <2>2 DEF Nothing
  <2> QED
    BY <1>3, <2>3 DEF ScanInv, DocsInv, Docs
<1>5. Members' = Members /\ Out' = Out /\ Grouped' = Grouped
  BY SettingStays
<1>6. ResultsInv'
  BY DEF ResultsInv
<1>7. DojoInv'
  BY DEF DojoInv
<1>8. DaysInv'
  <2>1. \A r \in Resources : captured'[r] = 0 /\ days'[r] = days[r] /\ days[r] \in Nat
    BY <1>2
  <2>2. scan' > 0
    BY DEF ScanInv, TypeInv
  <2> QED
    BY <2>1, <2>2 DEF DaysInv
<1>9. StepInv'
  BY DEF StepInv
<1>10. CoverInv'
  BY EmptySeq DEF CoverInv, Nothing
<1>11. ReportedInv'
  BY DEF ReportedInv
<1>12. OnceInv'
  <2>1. Len(<< >>) = 0
    BY EmptySeq
  <2> QED
    BY <2>1 DEF OnceInv, Nothing
<1>13. FreshInv'
  <2>1. Members' \subseteq Resources
    BY <1>5, MembersAreResources DEF ScanInv, TypeInv
  <2> QED
    BY <2>1, EmptySeq DEF FreshInv, Nothing
<1> QED
  BY <1>1, <1>4, <1>6, <1>7, <1>8, <1>9, <1>10, <1>11, <1>12, <1>13 DEF ScanInv

LEMMA ErrorReportLine ==
  /\ \A day : ErrorReport \in LinesUpTo(day)
  /\ ErrorReport \in QuietLines
<1>1. <<"ERROR">> \in Seq(Actions)
  BY DEF Actions
<1>2. ErrorReport \in Lines /\ ErrorReport.actions = <<"ERROR">>
  BY <1>1, WeekType DEF ErrorReport, Line, Lines
<1> QED
  BY <1>2 DEF LinesUpTo, QuietLines

LEMMA DownloadMetricsScanInv ==
  ASSUME ScanInv, DownloadMetrics
  PROVE  ScanInv'
<1> DEFINE insufficient == IF force THEN {} ELSE filter_keys_by_occurrence_count
           same == IF force THEN {} ELSE filter_keys_without_updates \ insufficient
<1>1. /\ pc = "download" /\ pc' = "dump"
      /\ lost' \in SUBSET (Listed \ (insufficient \cup same))
      /\ unchanged' = same
      /\ files' = Listed \ (insufficient \cup same \cup lost')
      /\ captured' = days
      /\ reports' = [r \in Resources |-> IF r \in insufficient THEN <<ErrorReport>> ELSE << >>]
      /\ force' = FALSE /\ UNCHANGED <<setting, days, docs, scan, past, results, items, dojoVars>>
  BY DEF DownloadMetrics
<1>2. insufficient \subseteq Listed /\ same \subseteq Listed /\ insufficient \cap same = {}
      /\ \A r \in same : past[r] # << >> /\ ~(past[r][1].captured < days[r])
  BY DEF filter_keys_by_occurrence_count, filter_keys_without_updates
<1>3. Listed = {r \in Resources : days[r] > 0}
  BY DEF Listed
<1> HIDE DEF insufficient, same
<1>4. Members' = Members /\ Out' = Out /\ Grouped' = Grouped
  BY <1>1, SettingStays
<1>5. results = << >> /\ DOMAIN results = {} /\ tenant_recommendations = {}
  BY <1>1 DEF ScanInv, StepInv
<1>6. TypeInv'
  <2>1. /\ lost' \subseteq Resources /\ unchanged' \subseteq Resources /\ files' \subseteq Resources
        /\ unchanged' \cap files' = {} /\ DOMAIN reports' = Resources
    BY <1>1, <1>2, <1>3
  <2> QED
    BY <1>1, <2>1 DEF ScanInv, TypeInv, Steps
<1>7. DocsInv'
  BY <1>1 DEF ScanInv, DocsInv, Docs
<1>8. ResultsInv'
  BY <1>1, <1>4 DEF ScanInv, ResultsInv, Items
<1>9. DojoInv'
  BY <1>1, <1>5 DEF ScanInv, DojoInv, dojoVars
<1>10. DaysInv'
  <2>1. \A r \in Resources : captured'[r] = days'[r] /\ days[r] \in Nat
    BY <1>1 DEF ScanInv, TypeInv
  <2>2. \A r \in Resources : r \in files' => captured'[r] > 0
    BY <1>1, <1>3
  <2>3. ASSUME NEW r \in Resources, r \in unchanged' PROVE past'[r] # << >> /\ past'[r][1].captured >= captured'[r]
    <3>1. past[r] \in Seq(Docs(r)) /\ past[r] # << >> /\ ~(past[r][1].captured < days[r])
      BY <1>1, <1>2, <2>3 DEF ScanInv, DocsInv
    <3>2. past[r][1] \in Docs(r)
      BY <3>1, EmptySeq
    <3>3. past[r][1].captured \in Nat
      BY <3>2 DEF Docs, DocsUpTo
    <3>4. past[r][1].captured >= days[r]
      BY <2>1, <3>1, <3>3
    <3> QED
      BY <1>1, <3>1, <3>4
  <2>4. scan' > 0
    BY <1>1 DEF ScanInv, DaysInv
  <2>5. \A r \in Resources : captured'[r] <= days'[r]
    BY <1>1, <2>1
  <2> QED
    BY <2>2, <2>3, <2>4, <2>5 DEF DaysInv
<1>11. StepInv'
  BY <1>1, <1>5 DEF StepInv
<1>12. CoverInv'
  <2>1. ASSUME NEW day PROVE <<ErrorReport>> \in Seq(LinesUpTo(day)) /\ << >> \in Seq(LinesUpTo(day))
    BY ErrorReportLine, EmptySeq
  <2>2. \A r \in Resources : reports'[r] = <<ErrorReport>> \/ reports'[r] = << >>
    BY <1>1
  <2> QED
    BY <2>1, <2>2 DEF CoverInv
<1>13. ReportedInv'
  <2> SUFFICES ASSUME NEW r \in Resources \ lost', captured'[r] > 0
               PROVE  r \in Waiting' \/ reports'[r] # << >>
    BY DEF ReportedInv
  <2>1. r \in insufficient \/ r \in same \/ r \in files'
    BY <1>1, <1>3
  <2>2. r \in insufficient => reports'[r] = <<ErrorReport>>
    BY <1>1
  <2>3. r \in same => r \in Waiting'
    BY <1>1 DEF Waiting
  <2>4. r \in files' => r \in Waiting'
    BY DEF Waiting
  <2> QED
    BY <2>1, <2>2, <2>3, <2>4
<1>14. OnceInv'
  <2>1. Len(<<ErrorReport>>) = 1 /\ Len(<< >>) = 0
    BY EmptySeq
  <2>2. \A r \in Waiting' : r \notin insufficient
    BY <1>1, <1>2, <1>5 DEF Waiting
  <2> QED
    BY <1>1, <2>1, <2>2 DEF OnceInv
<1>15. FreshInv'
  <2>1. <<ErrorReport>> \in Seq(QuietLines) /\ << >> \in Seq(QuietLines)
    BY ErrorReportLine, EmptySeq
  <2>2. Members' \subseteq Resources
    BY <1>4, MembersAreResources DEF ScanInv, TypeInv
  <2>3. \A r \in Members' : reports'[r] \in Seq(QuietLines)
    BY <1>1, <2>1, <2>2
  <2> QED
    BY <1>1, <2>3 DEF FreshInv
<1> QED
  BY <1>6, <1>7, <1>8, <1>9, <1>10, <1>11, <1>12, <1>13, <1>14, <1>15 DEF ScanInv

LEMMA ValidateAndDumpScanInv ==
  ASSUME ScanInv, ValidateAndDump
  PROVE  ScanInv'
<1>1. /\ pc = "dump" /\ pc' = "divide"
      /\ past' = Nothing /\ unchanged' = {}
      /\ UNCHANGED <<setting, days, docs, scan, force, captured, lost, results, items, dojoVars>>
  BY DEF ValidateAndDump
<1>2. PICK invalid \in SUBSET files :
        /\ files' = files \ invalid
        /\ reports' = [r \in Resources |->
             IF r \in invalid THEN Append(reports[r], ErrorReport)
             ELSE IF r \in unchanged THEN Append(reports[r], PastReport(past[r])) ELSE reports[r]]
  BY DEF ValidateAndDump
<1>3. Members' = Members /\ Out' = Out /\ Grouped' = Grouped
  BY <1>1, SettingStays
<1>4. results = << >> /\ DOMAIN results = {}
  BY <1>1 DEF ScanInv, StepInv
<1>5. files \subseteq Resources /\ unchanged \cap files = {} /\ Members \subseteq Resources
  BY MembersAreResources DEF ScanInv, TypeInv
\* Each resource gets at most one line, which is right.
<1>6. ASSUME NEW r \in Resources, r \in invalid \/ r \in unchanged
      PROVE  \E l \in LinesUpTo(Due(r)) \cap QuietLines : reports'[r] = Append(reports[r], l)
  <2>1. CASE r \in invalid
    <3>1. reports'[r] = Append(reports[r], ErrorReport)
      BY <1>2, <2>1
    <3> QED
      BY <3>1, ErrorReportLine
  <2>2. CASE r \notin invalid /\ r \in unchanged
    <3> DEFINE l == PastReport(past[r])
    <3>1. reports'[r] = Append(reports[r], l)
      BY <1>2, <2>2
    <3>2. /\ past[r] \in Seq(Docs(r)) /\ past[r] # << >> /\ past[r][1].captured >= captured[r]
          /\ days[r] \in Nat /\ captured[r] \in Nat
      BY <2>2 DEF ScanInv, DocsInv, DaysInv, TypeInv
    <3>3. l \in Lines /\ l.upto >= past[r][1].captured - AheadOf(setting) /\ l.by = "history"
      BY <3>2, PastReportType
    <3>4. past[r][1] \in Docs(r)
      BY <3>2, EmptySeq
    <3>5. l.upto >= Due(r)
      <4>1. l.upto \in Nat /\ past[r][1].captured \in Nat /\ AheadOf(setting) \in Nat
        BY <3>3, <3>4 DEF Lines, Docs, DocsUpTo, AheadOf
      <4> HIDE DEF l
      <4> QED
        BY <3>2, <3>3, <4>1 DEF Due
    <3>6. l \in LinesUpTo(Due(r)) \cap QuietLines
      BY <3>3, <3>5 DEF LinesUpTo, QuietLines
    <3> QED
      BY <3>1, <3>6
  <2> QED
    BY <1>6, <2>1, <2>2
<1>7. \A r \in Resources : r \notin invalid /\ r \notin unchanged => reports'[r] = reports[r]
  BY <1>2
<1>8. TypeInv'
  <2>1. DOMAIN reports' = Resources /\ files' \subseteq Resources /\ unchanged' \cap files' = {}
    BY <1>1, <1>2, <1>5
  <2> QED
    BY <1>1, <2>1 DEF ScanInv, TypeInv, Steps
<1>9. DocsInv'
  BY <1>1, EmptySeq DEF ScanInv, DocsInv, Docs, Nothing
<1>10. ResultsInv'
  BY <1>1, <1>3 DEF ScanInv, ResultsInv, Items
<1>11. \A r \in Resources : reports[r] # << >> \/ r \in invalid \/ r \in unchanged => reports'[r] # << >>
  <2> TAKE r \in Resources
  <2>1. reports[r] \in Seq(LinesUpTo(Due(r)))
    BY DEF ScanInv, CoverInv
  <2>2. CASE r \in invalid \/ r \in unchanged
    BY <1>6, <2>1, <2>2, Grown
  <2> QED
    BY <1>7, <2>2
<1>12. DojoInv'
  <2>1. \A i \in tenant_recommendations : i.resource \in Resources
    BY DEF ScanInv, DojoInv, Recommendations
  <2> QED
    BY <1>1, <1>3, <1>11, <2>1 DEF ScanInv, DojoInv, dojoVars
<1>13. DaysInv' /\ StepInv'
  BY <1>1, <1>2, <1>4 DEF ScanInv, DaysInv, StepInv
<1>14. CoverInv'
  <2> SUFFICES ASSUME NEW r \in Resources PROVE reports'[r] \in Seq(LinesUpTo(Due(r)))
    BY <1>1 DEF CoverInv, Due
  <2>1. reports[r] \in Seq(LinesUpTo(Due(r)))
    BY DEF ScanInv, CoverInv
  <2>2. CASE r \in invalid \/ r \in unchanged
    BY <1>6, <2>1, <2>2, Grown
  <2> QED
    BY <1>7, <2>1, <2>2
<1>15. ReportedInv'
  <2> SUFFICES ASSUME NEW r \in Resources \ lost', captured'[r] > 0, r \notin Out'
               PROVE  r \in Waiting' \/ reports'[r] # << >>
    BY DEF ReportedInv
  <2>1. r \in files \/ r \in unchanged \/ reports[r] # << >>
    BY <1>1, <1>3, <1>4 DEF ScanInv, ReportedInv, Waiting
  <2>2. r \in files => r \in files' \/ r \in invalid
    BY <1>2
  <2> QED
    BY <1>11, <2>1, <2>2 DEF Waiting
<1>16. OnceInv'
  <2> SUFFICES ASSUME NEW r \in Resources \ (Members \cup Grouped)
               PROVE  Len(reports'[r]) <= 1 /\ (r \in Waiting' => reports'[r] = << >>)
    BY <1>3 DEF OnceInv
  <2>1. Len(reports[r]) <= 1 /\ (r \in files \cup unchanged => reports[r] = << >>)
    BY <1>1 DEF ScanInv, OnceInv, Waiting
  <2>2. reports[r] \in Seq(LinesUpTo(Due(r)))
    BY DEF ScanInv, CoverInv
  <2>3. r \in Waiting' => r \notin invalid /\ r \notin unchanged /\ r \in files
    BY <1>1, <1>2, <1>4, <1>5 DEF Waiting
  <2>4. CASE r \in invalid \/ r \in unchanged
    <3>1. Len(reports'[r]) <= 1
      BY <1>6, <2>1, <2>2, <2>4, Grown
    <3> QED
      BY <2>3, <2>4, <3>1
  <2>5. CASE r \notin invalid /\ r \notin unchanged
    BY <1>7, <2>1, <2>3, <2>5
  <2> QED
    BY <2>4, <2>5
<1>17. FreshInv'
  <2> SUFFICES ASSUME NEW r \in Members PROVE reports'[r] \in Seq(QuietLines)
    BY <1>1, <1>3 DEF FreshInv
  <2>1. reports[r] \in Seq(QuietLines) /\ r \in Resources
    BY <1>1, <1>5 DEF ScanInv, FreshInv
  <2>2. CASE r \in invalid \/ r \in unchanged
    BY <1>6, <2>1, <2>2, Grown
  <2> QED
    BY <1>7, <2>1, <2>2
<1> QED
  BY <1>8, <1>9, <1>10, <1>12, <1>13, <1>14, <1>15, <1>16, <1>17 DEF ScanInv

LEMMA DivideIntoGroupsScanInv ==
  ASSUME ScanInv, DivideIntoGroups
  PROVE  ScanInv'
<1> DEFINE division == DivideByConfigs(ResourceGroups, files, Labels)
           member == UNION {division.groups[g] : g \in DOMAIN division.groups}
           of(r) == {g \in DOMAIN division.groups : r \in division.groups[g]}
<1>1. /\ pc = "divide" /\ pc' = "process" /\ files' = division.files
      /\ UNCHANGED <<setting, days, docs, scan, force, past, captured, lost, unchanged, results, items, dojoVars>>
  BY DEF DivideIntoGroups
<1>2. PICK said \in [member -> {"NO_ACTION", "SHUTDOWN", "ERROR", "nothing"}] :
        reports' = [r \in Resources |->
          IF r \notin member \/ (r \in member /\ said[r] = "nothing") THEN reports[r]
          ELSE reports[r] \o [k \in 1..Cardinality(of(r)) |-> Line(<<said[r]>>, 0, "group", 0)]]
  BY DEF DivideIntoGroups
<1>3. setting \in DOMAIN Settings /\ files \in SUBSET Resources /\ Members \subseteq Resources
  BY MembersAreResources DEF ScanInv, TypeInv
<1>4. /\ division.files \subseteq files
      /\ \A r \in files \ division.files : TakenOut(r)
      /\ \A g \in DOMAIN division.groups : \A r \in division.groups[g] : r \in files /\ InGroup(r)
      /\ \A r \in Resources : IsFiniteSet(of(r))
  BY <1>3, Division
<1> HIDE DEF division
<1>5. member \subseteq files /\ \A r \in member : r \in Grouped
  BY <1>3, <1>4 DEF Grouped
<1> HIDE DEF member
<1>6. Members' = Members /\ Out' = Out /\ Grouped' = Grouped
  BY <1>1, SettingStays
<1>7. results = << >> /\ DOMAIN results = {}
  BY <1>1 DEF ScanInv, StepInv
\* What a group says of a resource are right lines.
<1>8. ASSUME NEW r \in Resources
      PROVE  \/ reports'[r] = reports[r]
             \/ r \in Grouped /\ \E t \in Seq(LinesUpTo(Due(r))) \cap Seq(QuietLines) : reports'[r] = reports[r] \o t
  <2>1. CASE r \notin member \/ said[r] = "nothing"
    BY <1>2, <2>1
  <2>2. CASE r \in member /\ said[r] # "nothing"
    <3> DEFINE l == Line(<<said[r]>>, 0, "group", 0)
               n == Cardinality(of(r))
               t == [k \in 1..n |-> l]
    <3>1. reports'[r] = reports[r] \o t
      BY <1>2, <2>2
    <3>2. n \in Nat
      BY <1>4, FS_CardinalityType
    <3>3. said[r] \in Actions
      BY <2>2 DEF Actions
    <3>4. <<said[r]>> \in Seq(Actions)
      BY <3>3
    <3>5. l \in Lines /\ l.by = "group"
      BY <3>4, WeekType DEF Line, Lines
    <3> HIDE DEF l, n
    <3>6. l \in LinesUpTo(Due(r)) /\ l \in QuietLines
      BY <3>5 DEF LinesUpTo, QuietLines
    <3>7. t \in Seq(LinesUpTo(Due(r))) /\ t \in Seq(QuietLines)
      BY <3>2, <3>6
    <3> QED
      BY <1>5, <2>2, <3>1, <3>7
  <2> QED
    BY <2>1, <2>2
<1>9. TypeInv'
  <2>1. DOMAIN reports' = Resources /\ files' \subseteq Resources /\ unchanged' \cap files' = {}
    BY <1>1, <1>2, <1>3, <1>4 DEF ScanInv, TypeInv
  <2> QED
    BY <1>1, <2>1 DEF ScanInv, TypeInv, Steps
<1>10. DocsInv'
  BY <1>1 DEF ScanInv, DocsInv, Docs
<1>11. ResultsInv'
  BY <1>1, <1>6 DEF ScanInv, ResultsInv, Items
<1>12. \A r \in Resources : reports[r] # << >> => reports'[r] # << >>
  <2> TAKE r \in Resources
  <2>1. reports[r] \in Seq(LinesUpTo(Due(r)))
    BY DEF ScanInv, CoverInv
  <2> QED
    BY <1>8, <2>1, Grown
<1>13. DojoInv'
  <2>1. \A i \in tenant_recommendations : i.resource \in Resources
    BY DEF ScanInv, DojoInv, Recommendations
  <2> QED
    BY <1>1, <1>6, <1>12, <2>1 DEF ScanInv, DojoInv, dojoVars
<1>14. DaysInv' /\ StepInv'
  BY <1>1, <1>4, <1>7 DEF ScanInv, DaysInv, StepInv
<1>15. CoverInv'
  <2> SUFFICES ASSUME NEW r \in Resources PROVE reports'[r] \in Seq(LinesUpTo(Due(r)))
    BY <1>1 DEF CoverInv, Due
  <2>1. reports[r] \in Seq(LinesUpTo(Due(r)))
    BY DEF ScanInv, CoverInv
  <2> QED
    BY <1>8, <2>1, Grown
<1>16. ReportedInv'
  <2> SUFFICES ASSUME NEW r \in Resources \ lost, captured[r] > 0, r \notin Out
               PROVE  r \in Waiting' \/ reports'[r] # << >>
    BY <1>1, <1>6 DEF ReportedInv
  <2>1. r \in files \/ reports[r] # << >>
    BY <1>1, <1>7 DEF ScanInv, ReportedInv, Waiting
  <2>2. r \in files => r \in files'
    BY <1>1, <1>4 DEF Out
  <2> QED
    BY <1>12, <2>1, <2>2 DEF Waiting
<1>17. OnceInv'
  <2> SUFFICES ASSUME NEW r \in Resources \ (Members \cup Grouped)
               PROVE  Len(reports'[r]) <= 1 /\ (r \in Waiting' => reports'[r] = << >>)
    BY <1>6 DEF OnceInv
  <2>1. Len(reports[r]) <= 1 /\ (r \in files => reports[r] = << >>)
    BY <1>1 DEF ScanInv, OnceInv, Waiting
  <2>2. reports'[r] = reports[r]
    BY <1>8
  <2>3. r \in Waiting' => r \in files
    BY <1>1, <1>4, <1>7 DEF Waiting
  <2> QED
    BY <2>1, <2>2, <2>3
<1>18. FreshInv'
  <2> SUFFICES ASSUME NEW r \in Members PROVE reports'[r] \in Seq(QuietLines)
    BY <1>1, <1>6 DEF FreshInv
  <2>1. reports[r] \in Seq(QuietLines) /\ r \in Resources
    BY <1>1, <1>3 DEF ScanInv, FreshInv
  <2> QED
    BY <1>8, <2>1, Grown
<1> QED
  BY <1>9, <1>10, <1>11, <1>13, <1>14, <1>15, <1>16, <1>17, <1>18 DEF ScanInv

LEMMA PushFindingsScanInv ==
  ASSUME ScanInv, PushFindings
  PROVE  ScanInv'
<1> DEFINE recommended == {i \in tenant_recommendations : i.type # "NO_ACTION"}
<1>1. /\ pc = "process" /\ pc' = "push" /\ files = {}
      /\ UNCHANGED <<setting, days, docs, scan, force, past, captured, lost, unchanged, files, results, items, reports>>
      /\ tenant_recommendations' = findings'
      /\ findings' = {} \/ findings' = recommended
  BY DEF PushFindings
<1>2. recommended \subseteq tenant_recommendations
  OBVIOUS
<1> HIDE DEF recommended
<1>3. Members' = Members /\ Out' = Out /\ Grouped' = Grouped
  BY <1>1, SettingStays
<1>4. TypeInv'
  BY <1>1 DEF ScanInv, TypeInv, Steps
<1>5. DocsInv' /\ ResultsInv'
  BY <1>1, <1>3 DEF ScanInv, DocsInv, ResultsInv, Docs, Items
<1>6. DojoInv'
  BY <1>1, <1>2, <1>3 DEF ScanInv, DojoInv, Recommendations
<1>7. DaysInv' /\ StepInv' /\ CoverInv'
  BY <1>1 DEF ScanInv, DaysInv, StepInv, CoverInv, Due
<1>8. Waiting' = Waiting
  BY <1>1 DEF Waiting
<1>9. ReportedInv' /\ OnceInv'
  BY <1>1, <1>3, <1>8 DEF ScanInv, ReportedInv, OnceInv
<1>10. FreshInv'
  BY <1>1, <1>3 DEF ScanInv, FreshInv
<1> QED
  BY <1>4, <1>5, <1>6, <1>7, <1>9, <1>10 DEF ScanInv

LEMMA upload_job_resultsScanInv ==
  ASSUME ScanInv, upload_job_results
  PROVE  ScanInv'
<1> USE DEF upload_job_results, dojoVars
<1>1. Members' = Members /\ Out' = Out /\ Grouped' = Grouped
  BY SettingStays
<1>2. TypeInv'
  BY DEF ScanInv, TypeInv, Steps
<1>3. DocsInv' /\ ResultsInv'
  BY <1>1 DEF ScanInv, DocsInv, ResultsInv, Docs, Items
<1>4. DojoInv'
  BY <1>1 DEF ScanInv, DojoInv
<1>5. DaysInv' /\ StepInv' /\ CoverInv'
  BY DEF ScanInv, DaysInv, StepInv, CoverInv, Due
<1>6. Waiting' = Waiting
  BY DEF Waiting
<1>7. ReportedInv' /\ OnceInv'
  BY <1>1, <1>6 DEF ScanInv, ReportedInv, OnceInv
<1>8. FreshInv'
  BY <1>1 DEF ScanInv, FreshInv, FreshLines, Contradict, SchedulesDiffer
<1> QED
  BY <1>2, <1>3, <1>4, <1>5, <1>7, <1>8 DEF ScanInv

LEMMA FailsScanInv ==
  ASSUME ScanInv, Fails
  PROVE  ScanInv'
<1> USE DEF Fails, dojoVars
<1>1. Members' = Members /\ Out' = Out /\ Grouped' = Grouped
  BY SettingStays
<1>2. \A S : << >> \in Seq(S)
  BY EmptySeq
<1>3. \A r \in Resources : reports'[r] = << >> /\ captured'[r] = 0 /\ past'[r] = << >>
  BY DEF Nothing
<1>4. TypeInv'
  <2>1. 0 \in 0..MaxDay
    BY BoundsAssumption
  <2>2. captured' \in [Resources -> 0..MaxDay] /\ DOMAIN reports' = Resources
    BY <2>1 DEF Nothing
  <2>3. lost' = {} /\ unchanged' = {} /\ files' = {} /\ pc' \in Steps
    BY DEF Steps
  <2> QED
    BY <2>2, <2>3 DEF ScanInv, TypeInv
<1>5. DocsInv'
  <2>1. DOMAIN past' = Resources
    BY DEF Nothing
  <2> QED
    BY <1>2, <1>3, <2>1 DEF ScanInv, DocsInv, Docs
<1>6. ResultsInv'
  BY DEF ResultsInv
<1>7. DojoInv'
  BY DEF ScanInv, DojoInv
<1>8. DaysInv'
  <2>1. \A r \in Resources : days'[r] \in Nat
    BY DEF ScanInv, TypeInv
  <2> QED
    BY <1>3, <2>1 DEF DaysInv
<1>9. StepInv'
  BY DEF StepInv
<1>10. CoverInv'
  BY <1>2, <1>3 DEF CoverInv
<1>11. ReportedInv'
  BY DEF ReportedInv
<1>12. OnceInv'
  <2>1. Len(<< >>) = 0
    BY EmptySeq
  <2> QED
    BY <1>3, <2>1 DEF OnceInv
<1>13. FreshInv'
  <2>1. Members' \subseteq Resources
    BY <1>1, MembersAreResources DEF ScanInv, TypeInv
  <2> QED
    BY <1>2, <1>3, <2>1 DEF FreshInv
<1> QED
  BY <1>4, <1>5, <1>6, <1>7, <1>8, <1>9, <1>10, <1>11, <1>12, <1>13 DEF ScanInv

LEMMA process_instanceScanInv ==
  ASSUME ScanInv, NEW q \in Resources, process_instance(q)
  PROVE  ScanInv'
<1>1. /\ pc = "process" /\ q \in files /\ files' = files \ {q}
      /\ UNCHANGED <<setting, days, scan, pc, force, past, captured, lost, unchanged, findings>>
  BY DEF process_instance
<1>2. PICK a \in Answer(q), date \in local_dates(captured[q]) :
        LET made == IF a.actions = <<"ERROR">> THEN [docs |-> docs[q], items |-> << >>]
                    ELSE Created(a.actions, q, date)
        IN IF q \in Members
             THEN /\ results' = With(results, q, a)
                  /\ items'   = With(items, q, made.items)
                  /\ docs'    = [docs EXCEPT ![q] = made.docs]
                  /\ UNCHANGED <<reports, tenant_recommendations>>
             ELSE /\ reports' = [reports EXCEPT ![q] = Append(@, Line(a.actions, a.schedule, "scan", captured[q]))]
                  /\ \E saved \in BOOLEAN :
                       /\ docs' = [docs EXCEPT ![q] = IF saved THEN Inserted(made.docs, made.items)
                                                      ELSE made.docs]
                       /\ tenant_recommendations' = tenant_recommendations \cup
                            {ItemInMemory(q, i, saved) : i \in ToSet(made.items)}
                  /\ UNCHANGED <<results, items>>
  BY DEF process_instance
<1> DEFINE made == IF a.actions = <<"ERROR">> THEN [docs |-> docs[q], items |-> << >>]
                   ELSE Created(a.actions, q, date)
<1>3. a \in Answers /\ a.actions \in GeneralActions
  BY <1>2, AnswersAssumption DEF Answer
<1>4. made.docs \in Seq(Docs(q)) /\ made.items \in Seq(Items(q))
  <2>1. TypeInv /\ DocsInv /\ DaysInv /\ pc # "idle" /\ captured[q] > 0
    BY <1>1 DEF ScanInv, DaysInv
  <2>2. CASE a.actions = <<"ERROR">>
    <3>1. << >> \in Seq(Items(q)) /\ docs[q] \in Seq(Docs(q))
      BY <2>1, EmptySeq DEF DocsInv
    <3> QED
      BY <2>2, <3>1
  <2>3. CASE a.actions # <<"ERROR">>
    <3>1. date \in LocalDates(captured[q])
      BY <1>2, <2>1, LocalDateType DEF TypeInv, local_dates
    <3>2. Created(a.actions, q, date).docs \in Seq(Docs(q)) /\ Created(a.actions, q, date).items \in Seq(Items(q))
      BY <1>3, <2>1, <3>1, CreatedType
    <3> QED
      BY <2>3, <3>2
  <2> QED
    BY <2>2, <2>3
<1> DEFINE l == Line(a.actions, a.schedule, "scan", captured[q])
<1>5. l \in LinesUpTo(Due(q))
  <2>1. a.actions \in Seq(Actions) /\ a.schedule \in 0..Week
    BY <1>3, ActionLists, AnswersAssumption
  <2>2. captured[q] \in Nat /\ captured[q] >= Due(q)
    BY DEF ScanInv, TypeInv, Due, AheadOf
  <2>3. l \in Lines /\ l.upto = captured[q]
    BY <2>1, <2>2 DEF Line, Lines
  <2> QED
    BY <2>2, <2>3 DEF LinesUpTo
\* Either a member, which waits for the group, or a resource reported at once.
<1>6. \/ /\ q \in Members
         /\ results' = With(results, q, a) /\ items' = With(items, q, made.items)
         /\ docs'[q] = made.docs
         /\ UNCHANGED <<reports, tenant_recommendations>>
      \/ /\ q \notin Members
         /\ reports' = [reports EXCEPT ![q] = Append(@, l)]
         /\ docs'[q] = made.docs \/ docs'[q] = Inserted(made.docs, made.items)
         /\ \E saved \in BOOLEAN : tenant_recommendations' = tenant_recommendations \cup
                                     {ItemInMemory(q, i, saved) : i \in ToSet(made.items)}
         /\ UNCHANGED <<results, items>>
  <2>1. DOMAIN docs = Resources
    BY DEF ScanInv, DocsInv
  <2> HIDE DEF made, l
  <2>2. CASE q \in Members
    <3>1. /\ results' = With(results, q, a) /\ items' = With(items, q, made.items)
          /\ docs' = [docs EXCEPT ![q] = made.docs] /\ UNCHANGED <<reports, tenant_recommendations>>
      BY <1>2, <2>2 DEF made
    <3> QED
      BY <2>1, <2>2, <3>1
  <2>3. CASE q \notin Members
    <3>1. /\ reports' = [reports EXCEPT ![q] = Append(@, l)]
          /\ \E saved \in BOOLEAN :
               /\ docs' = [docs EXCEPT ![q] = IF saved THEN Inserted(made.docs, made.items) ELSE made.docs]
               /\ tenant_recommendations' = tenant_recommendations \cup
                    {ItemInMemory(q, i, saved) : i \in ToSet(made.items)}
          /\ UNCHANGED <<results, items>>
      BY <1>2, <2>3 DEF made, l
    <3> QED
      BY <2>1, <2>3, <3>1
  <2> QED
    BY <2>2, <2>3
<1>7. DOMAIN docs' = Resources /\ \A r \in Resources : r # q => docs'[r] = docs[r]
  <2>1. DOMAIN docs = Resources
    BY DEF ScanInv, DocsInv
  <2>2. \E list : docs' = [docs EXCEPT ![q] = list]
    <3>1. CASE q \in Members
      BY <1>2, <3>1
    <3>2. CASE q \notin Members
      BY <1>2, <3>2
    <3> QED
      BY <3>1, <3>2
  <2> QED
    BY <2>1, <2>2
<1> HIDE DEF made, l
<1>8. Members' = Members /\ Out' = Out /\ Grouped' = Grouped
  BY <1>1, SettingStays
<1>9. /\ setting \in DOMAIN Settings /\ files \subseteq Resources /\ Members \subseteq Resources
      /\ DOMAIN reports = Resources
  BY MembersAreResources DEF ScanInv, TypeInv
<1>10. DOMAIN reports' = Resources /\ \A r \in Resources : r # q \/ q \in Members => reports'[r] = reports[r]
  BY <1>6, <1>9
<1>11. q \notin Members => reports'[q] = Append(reports[q], l)
  BY <1>6, <1>9
<1>12. DOMAIN results \subseteq DOMAIN results' /\ DOMAIN results' \subseteq DOMAIN results \cup {q}
       /\ (q \in Members => q \in DOMAIN results')
       /\ (q \notin Members => results' = results)
  BY <1>6 DEF With
<1>13. TypeInv'
  <2>1. files' \subseteq Resources /\ unchanged' \cap files' = {}
    BY <1>1, <1>9 DEF ScanInv, TypeInv
  <2> QED
    BY <1>1, <1>10, <2>1 DEF ScanInv, TypeInv
<1>14. DocsInv'
  <2>1. docs'[q] \in Seq(Docs(q))
    <3>1. Inserted(made.docs, made.items) \in Seq(Docs(q))
      BY <1>4, InsertedType
    <3> QED
      BY <1>4, <1>6, <3>1
  <2>2. \A r \in Resources : docs'[r] \in Seq(Docs(r))
    BY <1>7, <2>1 DEF ScanInv, DocsInv
  <2> QED
    BY <1>1, <1>7, <2>2 DEF ScanInv, DocsInv, Docs
<1>15. ResultsInv'
  <2>1. CASE q \in Members
    <3>1. DOMAIN results' = DOMAIN results \cup {q} /\ DOMAIN items' = DOMAIN items \cup {q}
          /\ results'[q] = a /\ items'[q] = made.items
          /\ (\A r \in DOMAIN results : r # q => results'[r] = results[r])
          /\ \A r \in DOMAIN items : r # q => items'[r] = items[r]
      BY <1>6, <2>1 DEF With
    <3>2. /\ DOMAIN results \subseteq Members /\ DOMAIN items = DOMAIN results
          /\ \A r \in DOMAIN results : results[r] \in Answers /\ items[r] \in Seq(Items(r))
      BY DEF ScanInv, ResultsInv
    <3>3. \A r \in DOMAIN results' : results'[r] \in Answers /\ items'[r] \in Seq(Items(r))
      BY <1>3, <1>4, <3>1, <3>2
    <3> QED
      BY <1>1, <1>8, <2>1, <3>1, <3>2, <3>3 DEF ResultsInv, Items
  <2>2. CASE q \notin Members
    <3>1. results' = results /\ items' = items
      BY <1>6, <2>2
    <3> QED
      BY <1>1, <1>8, <3>1 DEF ScanInv, ResultsInv, Items
  <2> QED
    BY <2>1, <2>2
<1>16. reports[q] \in Seq(LinesUpTo(Due(q)))
  BY <1>9 DEF ScanInv, CoverInv
<1>17. q \notin Members => reports'[q] # << >> /\ reports'[q] \in Seq(LinesUpTo(Due(q)))
  BY <1>5, <1>11, <1>16, Grown
<1>18. DojoInv'
  <2>1. /\ findings \subseteq tenant_recommendations /\ tenant_recommendations \subseteq Recommendations
        /\ \A i \in tenant_recommendations : i.resource \notin Members /\ reports[i.resource] # << >>
    BY <1>1 DEF ScanInv, DojoInv
  <2>2. \A i \in tenant_recommendations : i.resource \in Resources
    BY <2>1 DEF Recommendations
  <2>3. CASE q \in Members
    BY <1>1, <1>6, <1>8, <2>1, <2>3 DEF DojoInv
  <2>4. CASE q \notin Members
    <3>1. PICK saved \in BOOLEAN : tenant_recommendations' = tenant_recommendations \cup
                                     {ItemInMemory(q, i, saved) : i \in ToSet(made.items)}
      BY <1>6, <2>4
    <3>2. ASSUME NEW i \in ToSet(made.items)
          PROVE  ItemInMemory(q, i, saved) \in Recommendations /\ ItemInMemory(q, i, saved).resource = q
      <4>1. i \in Items(q)
        BY <1>4 DEF ToSet
      <4>2. i.item.type \in Actions /\ i.base \in Seq(Docs(q))
        BY <4>1 DEF Items, ItemsUpTo, Docs, DocsUpTo
      <4>3. CASE i.base = << >>
        BY <4>2, <4>3 DEF ItemInMemory, Recommendations
      <4>4. CASE i.base # << >>
        <5>1. i.base[1] \in Docs(q)
          BY <4>2, <4>4, EmptySeq
        <5>2. i.base[1].type \in Actions
          BY <5>1 DEF Docs, DocsUpTo
        <5> QED
          BY <4>4, <5>2 DEF ItemInMemory, Recommendations
      <4> QED
        BY <4>3, <4>4
    <3>3. \A i \in tenant_recommendations' : i \in tenant_recommendations \/ (i \in Recommendations /\ i.resource = q)
      BY <3>1, <3>2
    <3>4. \A i \in tenant_recommendations' : i.resource \notin Members /\ reports'[i.resource] # << >>
      BY <1>10, <1>17, <2>1, <2>2, <2>4, <3>3
    <3>5. findings' \subseteq tenant_recommendations' /\ tenant_recommendations' \subseteq Recommendations
      BY <1>1, <2>1, <3>1, <3>3
    <3> QED
      BY <1>8, <3>4, <3>5 DEF DojoInv, Recommendations
  <2> QED
    BY <2>3, <2>4
<1>19. DaysInv'
  BY <1>1 DEF ScanInv, DaysInv
<1>20. StepInv'
  BY <1>1 DEF ScanInv, StepInv
<1>21. CoverInv'
  BY <1>1, <1>10, <1>17 DEF ScanInv, CoverInv, Due
<1>22. ReportedInv'
  <2> SUFFICES ASSUME NEW r \in Resources \ lost, captured[r] > 0, r \notin Out
               PROVE  r \in Waiting' \/ reports'[r] # << >>
    BY <1>1, <1>8 DEF ReportedInv
  <2>1. r \in files \/ r \in DOMAIN results \/ reports[r] # << >>
    BY <1>1 DEF ScanInv, ReportedInv, Waiting
  <2>2. CASE r = q
    BY <1>10, <1>12, <1>17, <2>2 DEF Waiting
  <2>3. CASE r # q
    BY <1>1, <1>10, <1>12, <2>1, <2>3 DEF Waiting
  <2> QED
    BY <2>2, <2>3
<1>23. OnceInv'
  <2> SUFFICES ASSUME NEW r \in Resources \ (Members \cup Grouped)
               PROVE  Len(reports'[r]) <= 1 /\ (r \in Waiting' => reports'[r] = << >>)
    BY <1>8 DEF OnceInv
  <2>1. Len(reports[r]) <= 1 /\ (r \in files \cup DOMAIN results => reports[r] = << >>)
    BY <1>1 DEF ScanInv, OnceInv, Waiting
  <2>2. Waiting' = files' \cup DOMAIN results'
    BY <1>1 DEF Waiting
  <2>3. CASE r = q
    <3>1. reports[q] = << >> /\ reports'[q] = Append(reports[q], l)
      BY <1>1, <1>11, <2>1, <2>3
    <3>2. Len(reports'[q]) <= 1
      BY <1>5, <1>16, <3>1, Grown
    <3>3. q \notin files' /\ q \notin DOMAIN results'
      BY <1>1, <1>12, <2>3 DEF ScanInv, ResultsInv
    <3> QED
      BY <2>2, <2>3, <3>2, <3>3
  <2>4. CASE r # q
    BY <1>1, <1>10, <1>12, <2>1, <2>2, <2>4
  <2> QED
    BY <2>3, <2>4
<1>24. FreshInv'
  <2> SUFFICES ASSUME NEW r \in Members PROVE reports'[r] \in Seq(QuietLines)
    BY <1>1, <1>8 DEF FreshInv
  <2>1. reports[r] \in Seq(QuietLines) /\ reports'[r] = reports[r]
    BY <1>1, <1>9, <1>10 DEF ScanInv, FreshInv
  <2> QED
    BY <2>1
<1> QED
  BY <1>13, <1>14, <1>15, <1>18, <1>19, <1>20, <1>21, <1>22, <1>23, <1>24 DEF ScanInv

LEMMA FilterGroupScanInv ==
  ASSUME ScanInv, FilterGroup
  PROVE  ScanInv'
<1> DEFINE group == _filter_group(results)
           line(r) == Line(group.reports[r].actions, group.reports[r].schedule, "scan", captured[r])
<1>1. /\ pc = "push" /\ pc' = "filter" /\ results' = << >> /\ items' = << >>
      /\ UNCHANGED <<setting, days, scan, force, past, captured, lost, unchanged, files, dojoVars>>
  BY DEF FilterGroup
<1>2. reports' = [r \in Resources |->
        IF r \in DOMAIN results THEN reports[r] \o [k \in 1..group.times[r] |-> line(r)] ELSE reports[r]]
  BY DEF FilterGroup
<1>3. PICK saved \in BOOLEAN :
        docs' = [r \in Resources |->
          IF r \in DOMAIN results /\ items[r] # << >> /\ saved
            THEN Synced(docs[r], items[r], group.reports[r]) ELSE docs[r]]
  BY DEF FilterGroup
<1>4. /\ DOMAIN results \subseteq Members /\ Members \subseteq Resources
      /\ \A r \in DOMAIN results : results[r] \in Answers /\ items[r] \in Seq(Items(r))
  BY MembersAreResources DEF ScanInv, ResultsInv, TypeInv
<1>5. /\ \A r \in DOMAIN results : /\ group.times[r] \in Nat /\ group.times[r] > 0
                                   /\ group.reports[r].actions \in GeneralActions
                                   /\ group.reports[r].schedule \in 0..Week
      /\ \A r, o \in DOMAIN results :
           /\ "SCALE_UP" \in ToSet(group.reports[r].actions) =>
                ToSet(group.reports[o].actions) \cap {"SCALE_DOWN", "SHUTDOWN"} = {}
           /\ Scheduled(group.reports[r]) /\ Scheduled(group.reports[o]) =>
                100 * group.reports[r].schedule >= 95 * group.reports[o].schedule
  BY <1>4, GroupIsCompared
<1> HIDE DEF group
<1>6. Members' = Members /\ Out' = Out /\ Grouped' = Grouped
  BY <1>1, SettingStays
<1>7. DOMAIN results' = {} /\ DOMAIN items' = {}
  BY <1>1
<1>8. ASSUME NEW r \in DOMAIN results
      PROVE  /\ line(r) \in LinesUpTo(Due(r))
             /\ \E n \in Nat : n > 0 /\ reports'[r] = reports[r] \o [k \in 1..n |-> line(r)]
  <2>1. group.reports[r].actions \in Seq(Actions) /\ captured[r] \in Nat /\ captured[r] >= Due(r)
        /\ group.reports[r].schedule \in 0..Week
    BY <1>4, <1>5, ActionLists DEF ScanInv, TypeInv, Due, AheadOf
  <2>2. line(r) \in LinesUpTo(Due(r))
    <3>1. line(r) \in Lines /\ line(r).upto = captured[r]
      BY <2>1 DEF Line, Lines
    <3> HIDE DEF line
    <3> QED
      BY <2>1, <3>1 DEF LinesUpTo
  <2> DEFINE n == group.times[r]
  <2>3. n \in Nat /\ n > 0 /\ reports'[r] = reports[r] \o [k \in 1..n |-> line(r)]
    BY <1>2, <1>4, <1>5
  <2> HIDE DEF n, line
  <2> QED
    BY <2>2, <2>3
<1>9. \A r \in Resources \ DOMAIN results : reports'[r] = reports[r]
  BY <1>2
<1>10. \A r \in Resources : reports[r] \in Seq(LinesUpTo(Due(r)))
  BY DEF ScanInv, CoverInv
<1>11. ASSUME NEW r \in DOMAIN results
       PROVE  reports'[r] \in Seq(LinesUpTo(Due(r))) /\ reports'[r] # << >>
  <2> DEFINE l == line(r)
  <2>1. PICK n \in Nat : n > 0 /\ reports'[r] = reports[r] \o [k \in 1..n |-> l]
    BY <1>8
  <2>2. l \in LinesUpTo(Due(r))
    BY <1>8
  <2> HIDE DEF l
  <2> DEFINE t == [k \in 1..n |-> l]
  <2>3. t \in Seq(LinesUpTo(Due(r))) /\ Len(t) = n
    BY <2>2
  <2>4. reports'[r] = reports[r] \o t /\ reports[r] \in Seq(LinesUpTo(Due(r)))
    BY <1>4, <1>10, <2>1
  <2> HIDE DEF t
  <2>5. t # << >>
    <3>1. Len(<< >>) = 0
      BY EmptySeq
    <3> QED
      BY <2>1, <2>3, <3>1
  <2> QED
    BY <2>3, <2>4, <2>5, Grown
<1>12. TypeInv'
  BY <1>1, <1>2 DEF ScanInv, TypeInv, Steps
<1>13. DocsInv'
  <2>1. ASSUME NEW r \in Resources PROVE docs'[r] \in Seq(Docs(r))
    <3>1. docs[r] \in Seq(Docs(r))
      BY DEF ScanInv, DocsInv
    <3>2. CASE r \in DOMAIN results /\ items[r] # << >> /\ saved
      <4>1. docs'[r] = Synced(docs[r], items[r], group.reports[r])
        BY <1>3, <3>2
      <4>2. items[r] \in Seq(Items(r)) /\ items[r] # << >> /\ group.reports[r].actions \in GeneralActions
        BY <1>4, <1>5, <3>2
      <4> QED
        BY <3>1, <4>1, <4>2, SyncedType
    <3>3. CASE ~(r \in DOMAIN results /\ items[r] # << >> /\ saved)
      BY <1>3, <3>1, <3>3
    <3> QED
      BY <3>2, <3>3
  <2> QED
    BY <1>1, <1>3, <2>1 DEF ScanInv, DocsInv, Docs
<1>14. ResultsInv'
  BY <1>7 DEF ResultsInv
<1>15. \A r \in Resources : reports[r] # << >> => reports'[r] # << >>
  BY <1>9, <1>11
<1>16. DojoInv'
  <2>1. \A i \in tenant_recommendations : i.resource \in Resources
    BY DEF ScanInv, DojoInv, Recommendations
  <2> QED
    BY <1>1, <1>6, <1>15, <2>1 DEF ScanInv, DojoInv, dojoVars
<1>17. DaysInv' /\ StepInv'
  BY <1>1, <1>7 DEF ScanInv, DaysInv, StepInv
<1>18. CoverInv'
  BY <1>1, <1>9, <1>10, <1>11 DEF CoverInv, Due
<1>19. ReportedInv'
  <2> SUFFICES ASSUME NEW r \in Resources \ lost, captured[r] > 0, r \notin Out
               PROVE  r \in Waiting' \/ reports'[r] # << >>
    BY <1>1, <1>6 DEF ReportedInv
  <2>1. r \in files \/ r \in DOMAIN results \/ reports[r] # << >>
    BY <1>1 DEF ScanInv, ReportedInv, Waiting
  <2>2. r \in files => r \in Waiting'
    BY <1>1 DEF Waiting
  <2> QED
    BY <1>11, <1>15, <2>1, <2>2
<1>20. OnceInv'
  <2> SUFFICES ASSUME NEW r \in Resources \ (Members \cup Grouped)
               PROVE  Len(reports'[r]) <= 1 /\ (r \in Waiting' => reports'[r] = << >>)
    BY <1>6 DEF OnceInv
  <2>1. Len(reports[r]) <= 1 /\ (r \in files => reports[r] = << >>)
    BY DEF ScanInv, OnceInv, Waiting
  <2>2. reports'[r] = reports[r]
    BY <1>4, <1>9
  <2>3. Waiting' = files
    BY <1>1, <1>7 DEF Waiting
  <2> QED
    BY <2>1, <2>2, <2>3
\* All that a scan says of the members was either quiet or compared.
<1>21. FreshInv'
  <2>1. ASSUME NEW r \in Members, NEW x \in ToSet(reports'[r]), x.by = "scan"
        PROVE  \/ x.actions = <<"ERROR">>
               \/ /\ r \in DOMAIN results /\ x.actions = group.reports[r].actions
                  /\ x.schedule = group.reports[r].schedule
    <3>1. reports[r] \in Seq(QuietLines)
      BY <1>1 DEF ScanInv, FreshInv
    <3>2. CASE r \in DOMAIN results
      <4> DEFINE l == line(r)
                 S == QuietLines \cup {l}
      <4>1. PICK n \in Nat : reports'[r] = reports[r] \o [k \in 1..n |-> l]
        BY <1>8, <3>2
      <4>2. l.actions = group.reports[r].actions /\ l.schedule = group.reports[r].schedule
        BY DEF Line
      <4> HIDE DEF l
      <4>3. [k \in 1..n |-> l] \in Seq(S)
        OBVIOUS
      <4>4. reports[r] \in Seq(S)
        <5>1. QuietLines \subseteq S
          OBVIOUS
        <5> HIDE DEF S
        <5> QED
          BY <3>1, <5>1, SeqMonotonic
      <4> HIDE DEF S
      <4>5. reports'[r] \in Seq(S)
        BY <4>1, <4>3, <4>4
      <4>6. x \in S
        BY <2>1, <4>5 DEF ToSet
      <4> QED
        BY <2>1, <3>2, <4>2, <4>6 DEF S, QuietLines
    <3>3. CASE r \notin DOMAIN results
      <4>1. reports'[r] \in Seq(QuietLines)
        BY <1>4, <1>9, <3>1, <3>3
      <4>2. x \in QuietLines
        BY <2>1, <4>1 DEF ToSet
      <4> QED
        BY <2>1, <4>2 DEF QuietLines
    <3> QED
      BY <3>2, <3>3
  <2>2. ToSet(<<"ERROR">>) = {"ERROR"}
    BY DEF ToSet
  <2>3. ASSUME NEW r \in Members, NEW o \in Members, NEW x \in ToSet(reports'[r]), NEW y \in ToSet(reports'[o]),
               x.by = "scan", y.by = "scan", Grows(x), Shrinks(y)
        PROVE  FALSE
    <3>1. r \in DOMAIN results /\ x.actions = group.reports[r].actions
      BY <2>1, <2>2, <2>3 DEF Grows
    <3>2. o \in DOMAIN results /\ y.actions = group.reports[o].actions
      BY <2>1, <2>2, <2>3 DEF Shrinks
    <3> QED
      BY <1>5, <2>3, <3>1, <3>2 DEF Grows, Shrinks
  <2>4. ~Contradict(FreshLines)'
    BY <1>6, <2>3 DEF Contradict, FreshLines
  <2>5. ASSUME NEW r \in Members, NEW o \in Members, NEW x \in ToSet(reports'[r]), NEW y \in ToSet(reports'[o]),
               x.by = "scan", y.by = "scan", Scheduled(x), Scheduled(y), 100 * x.schedule < 95 * y.schedule
        PROVE  FALSE
    <3>1. r \in DOMAIN results /\ x.actions = group.reports[r].actions /\ x.schedule = group.reports[r].schedule
      BY <2>1, <2>2, <2>5 DEF Scheduled
    <3>2. o \in DOMAIN results /\ y.actions = group.reports[o].actions /\ y.schedule = group.reports[o].schedule
      BY <2>1, <2>2, <2>5 DEF Scheduled
    <3>3. Scheduled(group.reports[r]) /\ Scheduled(group.reports[o])
      BY <2>5, <3>1, <3>2 DEF Scheduled
    <3>4. 100 * group.reports[r].schedule >= 95 * group.reports[o].schedule
      BY <1>5, <3>1, <3>2, <3>3
    <3> DEFINE a == x.schedule
               b == y.schedule
    <3>5. a \in 0..Week /\ b \in 0..Week
      BY <1>5, <3>1, <3>2
    <3>6. a \in Nat /\ b \in Nat
      <4>1. \A k \in 0..Week : k \in Nat
        BY WeekType
      <4> HIDE DEF a, b
      <4> QED
        BY <3>5, <4>1
    <3>7. 100 * a >= 95 * b /\ 100 * a < 95 * b
      BY <2>5, <3>1, <3>2, <3>4
    <3> HIDE DEF a, b
    <3> QED
      BY <3>6, <3>7
  <2>6. ~SchedulesDiffer(FreshLines)'
    BY <1>6, <2>5 DEF SchedulesDiffer, FreshLines
  <2> QED
    BY <1>1, <2>4, <2>6 DEF FreshInv
<1> QED
  BY <1>12, <1>13, <1>14, <1>16, <1>17, <1>18, <1>19, <1>20, <1>21 DEF ScanInv

LEMMA NextScanInv == ScanInv /\ [Next]_vars => ScanInv'
<1> SUFFICES ASSUME ScanInv, [Next]_vars PROVE ScanInv'
  OBVIOUS
<1>1. ASSUME NEW r \in Resources, NewMetrics(r) \/ Refuse(r) \/ process_instance(r) PROVE ScanInv'
  BY <1>1, NewMetricsScanInv, RefuseScanInv, process_instanceScanInv
<1>2. CASE StartScan
  BY <1>2, StartScanScanInv
<1>3. CASE DownloadMetrics
  BY <1>3, DownloadMetricsScanInv
<1>4. CASE ValidateAndDump
  BY <1>4, ValidateAndDumpScanInv
<1>5. CASE DivideIntoGroups
  BY <1>5, DivideIntoGroupsScanInv
<1>6. CASE PushFindings
  BY <1>6, PushFindingsScanInv
<1>7. CASE FilterGroup
  BY <1>7, FilterGroupScanInv
<1>8. CASE upload_job_results
  BY <1>8, upload_job_resultsScanInv
<1>9. CASE Fails
  BY <1>9, FailsScanInv
<1>10. CASE UNCHANGED vars
  <2> USE <1>10 DEF vars
  <2>1. Members' = Members /\ Out' = Out /\ Grouped' = Grouped
    BY SettingStays
  <2>2. TypeInv' /\ DocsInv' /\ ResultsInv'
    BY <2>1 DEF ScanInv, TypeInv, DocsInv, ResultsInv, Docs, Items
  <2>3. DojoInv' /\ DaysInv' /\ StepInv' /\ CoverInv'
    BY <2>1 DEF ScanInv, DojoInv, DaysInv, StepInv, CoverInv, Due
  <2>4. ReportedInv' /\ OnceInv'
    BY <2>1 DEF ScanInv, ReportedInv, OnceInv, Waiting
  <2>5. FreshInv'
    BY <2>1 DEF ScanInv, FreshInv, FreshLines, Contradict, SchedulesDiffer
  <2> QED
    BY <2>2, <2>3, <2>4, <2>5 DEF ScanInv
<1> QED
  BY <1>1, <1>2, <1>3, <1>4, <1>5, <1>6, <1>7, <1>8, <1>9, <1>10 DEF Next

LEMMA ScanInvHolds == Spec => []ScanInv
BY InitScanInv, NextScanInv, PTL DEF Spec

-----------------------------------------------------------------------------
(* What it implies                                                         *)

\* The history holds only documents of scans that have been, and dated no later than their
\* timezone allows, whoever wrote,
\* refused or overwrote them; and no resource is both downloaded and left as it was.
THEOREM ScanTypes == Spec => []TypeOK
<1>1. ScanInv => TypeOK
  <2> SUFFICES ASSUME ScanInv PROVE TypeOK
    OBVIOUS
  <2>1. ASSUME NEW r \in Resources, NEW k \in DOMAIN docs[r]
        PROVE  docs[r][k].captured \in 0..(days[r] + Ahead) /\ docs[r][k].job \in 1..scan
    <3>1. docs[r] \in Seq(Docs(r))
      BY DEF ScanInv, DocsInv
    <3>2. docs[r][k] \in Docs(r)
      BY <3>1
    <3>3. days[r] \in Nat /\ Ahead = AheadOf(setting) /\ AheadOf(setting) \in Nat
      BY DEF ScanInv, TypeInv, Ahead, AheadOf
    <3> QED
      BY <3>2, <3>3 DEF Docs, DocsUpTo
  <2> QED
    BY <2>1 DEF ScanInv, TypeInv, ResultsInv, DojoInv, TypeOK
<1> QED
  BY <1>1, ScanInvHolds, PTL

\* Every resource whose metrics arrived is reported by an uploaded scan, or taken out by a
\* resource group that does not match it; once, if it is in no group.
THEOREM ReportsAreComplete == Spec => []EveryResourceIsReported
<1>1. ScanInv => EveryResourceIsReported
  <2> SUFFICES ASSUME ScanInv, pc = "uploaded"
               PROVE  /\ \A r \in Resources \ lost :
                           /\ captured[r] > 0 /\ ~TakenOut(r) => reports[r] # << >>
                           /\ r \notin Members /\ ~InGroup(r) => Len(reports[r]) <= 1
                      /\ \A f \in findings : f.resource \notin Members /\ reports[f.resource] # << >>
    BY DEF EveryResourceIsReported, Uploaded
  <2>1. Waiting = {}
    <3>1. results = << >> /\ files = {}
      BY DEF ScanInv, StepInv
    <3>2. DOMAIN results = {}
      BY <3>1
    <3> QED
      BY <3>1, <3>2 DEF Waiting
  <2>2. ASSUME NEW r \in Resources \ lost, captured[r] > 0, ~TakenOut(r) PROVE reports[r] # << >>
    BY <2>1, <2>2 DEF ScanInv, ReportedInv, Out
  <2>3. ASSUME NEW r \in Resources, r \notin Members, ~InGroup(r) PROVE Len(reports[r]) <= 1
    BY <2>3 DEF ScanInv, OnceInv, Grouped
  <2>4. ASSUME NEW f \in findings PROVE f.resource \notin Members /\ reports[f.resource] # << >>
    BY DEF ScanInv, DojoInv
  <2> QED
    BY <2>2, <2>3, <2>4
<1> QED
  BY <1>1, ScanInvHolds, PTL

\* What an uploaded scan says of a resource by itself takes every day into account that the
\* storage held, also when it is repeated from the history; but for the last one, where the
\* target timezone is ahead of the storage's.
THEOREM ReportsAreUpToDate == Spec => []ReportsCoverTheMetrics
<1>1. ScanInv => ReportsCoverTheMetrics
  <2> SUFFICES ASSUME ScanInv, NEW r \in Resources, NEW line \in ToSet(reports[r]),
                      line.by # "group", line.actions # <<"ERROR">>
               PROVE  line.upto + Ahead >= captured[r]
    BY DEF ReportsCoverTheMetrics
  <2>1. reports[r] \in Seq(LinesUpTo(Due(r)))
    BY DEF ScanInv, CoverInv
  <2>2. line \in LinesUpTo(Due(r))
    BY <2>1 DEF ToSet
  <2>3. line.upto \in Nat /\ captured[r] \in Nat /\ Ahead = AheadOf(setting) /\ AheadOf(setting) \in Nat
    BY <2>2 DEF LinesUpTo, Lines, ScanInv, TypeInv, Ahead, AheadOf
  <2> QED
    BY <2>2, <2>3 DEF LinesUpTo, Due
<1> QED
  BY <1>1, ScanInvHolds, PTL

\* In an uploaded scan no analysed member of the tag group shrinks while another grows, and
\* the schedules of those to be scheduled are nearly as long as one another.
THEOREM GroupsAreConsistent == Spec => []FreshGroupIsConsistent
<1>1. ScanInv => FreshGroupIsConsistent
  BY DEF ScanInv, FreshInv, FreshLines, FreshGroupIsConsistent, Uploaded
<1> QED
  BY <1>1, ScanInvHolds, PTL
=============================================================================
