------------------------ MODULE SubprocessPoolProofs ------------------------
(***************************************************************************)
(* Proofs about SubprocessPool, for any number of workers, jobs and pids   *)
(* and any limit.                                                          *)
(*                                                                         *)
(* What ties the maps to the processes is that a job belongs to one pid at *)
(* most (JobInv), and that the pid a worker has just received is not       *)
(* reused before it is stored (ChildInv).  The limit is kept by the map:   *)
(* CountInv leaves room in it for the executor that is being started.      *)
(***************************************************************************)
EXTENDS SubprocessPool, FiniteSetTheorems, TLAPS

JobInv ==
  /\ \A p \in Pids : job[p] # NoJob => job[p] \in ids
  /\ \A p, q \in Pids : job[p] = job[q] /\ job[p] # NoJob => p = q
  /\ \A p \in Pids :
       /\ kind[p] \in {"running", "signalled", "zombie"} => job[p] # NoJob
       /\ kind[p] \in {"free", "other"} => job[p] = NoJob

ChildInv ==
  \A w \in Workers : req[w] = "spawned" =>
    /\ child[w] \in Pids /\ job[child[w]] # NoJob /\ parent[child[w]] = w
    /\ ~early => kind[child[w]] = "running"

CountInv ==
  \A w \in Workers :
    /\ Count(processes[w]) <= MaxJobs
    /\ req[w] \in {"checked", "spawned"} => Count(processes[w]) < MaxJobs

IInv ==
  TypeOK /\ JobInv /\ ChildInv /\ CountInv /\ TrackedIsOwnExecutor /\ RunningChildIsTracked

-----------------------------------------------------------------------------
(* Types                                                                   *)

LEMMA PrunedType ==
  ASSUME TypeOK, NEW w \in Workers
  PROVE  Pruned(w) \in [Jobs -> Pids \cup {NoPid}]
BY DEF TypeOK, Pruned

LEMMA TypeStep == TypeOK /\ JobInv /\ ChildInv /\ [Next]_vars => TypeOK'
<1> SUFFICES ASSUME TypeOK, JobInv, ChildInv, [Next]_vars PROVE TypeOK'
  OBVIOUS
<1>1. ASSUME NEW w \in Workers, check_ability_to_start_job(w) PROVE TypeOK'
  BY <1>1, PrunedType DEF check_ability_to_start_job, TypeOK
<1>2. ASSUME NEW w \in Workers, Reject(w) PROVE TypeOK'
  BY <1>2 DEF Reject, TypeOK
<1>3. ASSUME NEW w \in Workers, Track(w) PROVE TypeOK'
  <2>1. kind' \in [Pids -> PidKind]
    BY <1>3 DEF Track, Collect, ChildInv, TypeOK, PidKind
  <2>2. processes' \in [Workers -> [Jobs -> Pids \cup {NoPid}]]
    <3>1. child[w] \in Pids
      BY <1>3 DEF Track, ChildInv
    <3>2. [Pruned(w) EXCEPT ![job[child[w]]] = child[w]] \in [Jobs -> Pids \cup {NoPid}]
      BY <3>1, PrunedType
    <3>3. QED
      BY <1>3, <3>2 DEF Track, TypeOK
  <2>3. QED
    BY <1>3, <2>1, <2>2 DEF Track, Collect, TypeOK
<1>4. ASSUME NEW w \in Workers, WorkerRestart(w) PROVE TypeOK'
  BY <1>4 DEF WorkerRestart, TypeOK, PidKind
<1>5. ASSUME NEW w \in Workers, NEW j \in Jobs, terminate_job(w, j) PROVE TypeOK'
  <2>1. kind' \in [Pids -> PidKind]
    BY <1>5, PrunedType DEF terminate_job, TypeOK, PidKind
  <2>2. processes' \in [Workers -> [Jobs -> Pids \cup {NoPid}]]
    BY <1>5, PrunedType DEF terminate_job, TypeOK
  <2>3. QED
    BY <1>5, <2>1, <2>2 DEF terminate_job, TypeOK
<1>6. ASSUME NEW w \in Workers, NEW j \in Jobs, NEW p \in Pids, Popen(w, j, p) PROVE TypeOK'
  BY <1>6 DEF Popen, TypeOK, PidKind
<1>7. ASSUME NEW p \in Pids, Exit(p) \/ Recycle(p) \/ OtherStarts(p) \/ OtherEnds(p) PROVE TypeOK'
  BY <1>7 DEF Exit, Recycle, OtherStarts, OtherEnds, TypeOK, PidKind
<1>8. CASE UNCHANGED vars
  BY <1>8 DEF vars, TypeOK
<1>9. QED
  BY <1>1, <1>2, <1>3, <1>4, <1>5, <1>6, <1>7, <1>8 DEF Next

-----------------------------------------------------------------------------
(* Jobs and pids                                                           *)

LEMMA JobStep == IInv /\ [Next]_vars => JobInv'
<1> SUFFICES ASSUME IInv, [Next]_vars PROVE JobInv'
  OBVIOUS
<1> USE DEF IInv, TypeOK, JobInv
<1>1. ASSUME NEW w \in Workers, check_ability_to_start_job(w) \/ Reject(w) PROVE JobInv'
  BY <1>1 DEF check_ability_to_start_job, Reject
<1>2. ASSUME NEW w \in Workers, Track(w) PROVE JobInv'
  BY <1>2 DEF Track, Collect, ChildInv
<1>3. ASSUME NEW w \in Workers, WorkerRestart(w) PROVE JobInv'
  BY <1>3 DEF WorkerRestart
<1>4. ASSUME NEW w \in Workers, NEW j \in Jobs, terminate_job(w, j) PROVE JobInv'
  <2>1. UNCHANGED <<job, ids>>
    BY <1>4 DEF terminate_job
  <2>2. \A p \in Pids : kind'[p] \in {"running", "signalled", "zombie"} =>
          kind[p] \in {"running", "signalled", "zombie"}
    BY <1>4 DEF terminate_job, Pruned, check_if_process_is_running, PidKind
  <2>3. \A p \in Pids : kind'[p] \in {"free", "other"} => kind[p] = kind'[p]
    BY <1>4 DEF terminate_job, Pruned, check_if_process_is_running, PidKind
  <2>4. QED
    BY <2>1, <2>2, <2>3
<1>5. ASSUME NEW w \in Workers, NEW j \in Jobs, NEW p \in Pids, Popen(w, j, p) PROVE JobInv'
  BY <1>5, NoneAssumption DEF Popen
<1>6. ASSUME NEW p \in Pids, Exit(p) \/ Recycle(p) \/ OtherStarts(p) \/ OtherEnds(p) PROVE JobInv'
  BY <1>6 DEF Exit, Recycle, OtherStarts, OtherEnds
<1>7. CASE UNCHANGED vars
  BY <1>7 DEF vars
<1>8. QED
  BY <1>1, <1>2, <1>3, <1>4, <1>5, <1>6, <1>7 DEF Next

\* Without early ends, a worker signals only its own executors, never the one that
\* another worker is starting.
LEMMA ChildStep == IInv /\ [Next]_vars => ChildInv'
<1> SUFFICES ASSUME IInv, [Next]_vars PROVE ChildInv'
  OBVIOUS
<1> USE DEF IInv, TypeOK, JobInv, ChildInv
<1>1. ASSUME NEW w \in Workers, check_ability_to_start_job(w) \/ Reject(w) PROVE ChildInv'
  BY <1>1 DEF check_ability_to_start_job, Reject
<1>2. ASSUME NEW w \in Workers, Track(w) PROVE ChildInv'
  BY <1>2 DEF Track, Collect
<1>3. ASSUME NEW w \in Workers, WorkerRestart(w) PROVE ChildInv'
  BY <1>3 DEF WorkerRestart
<1>4. ASSUME NEW w \in Workers, NEW j \in Jobs, terminate_job(w, j) PROVE ChildInv'
  <2> SUFFICES ASSUME NEW v \in Workers, req'[v] = "spawned", ~early
               PROVE  kind'[child[v]] = "running"
    BY <1>4 DEF terminate_job
  <2>1. v # w /\ req[v] = "spawned" /\ kind[child[v]] = "running" /\ parent[child[v]] = v
    BY <1>4 DEF terminate_job
  <2>2. Pruned(w)[j] # child[v]
    BY <2>1, <1>4, NoneAssumption DEF terminate_job, Pruned, TrackedIsOwnExecutor
  <2>3. QED
    BY <1>4, <2>1, <2>2, PrunedType DEF terminate_job
<1>5. ASSUME NEW w \in Workers, NEW j \in Jobs, NEW p \in Pids, Popen(w, j, p) PROVE ChildInv'
  <2> SUFFICES ASSUME NEW v \in Workers, req'[v] = "spawned"
               PROVE  /\ child'[v] \in Pids /\ job'[child'[v]] # NoJob /\ parent'[child'[v]] = v
                      /\ ~early => kind'[child'[v]] = "running"
    BY <1>5 DEF Popen
  <2>1. CASE v = w
    BY <2>1, <1>5, NoneAssumption DEF Popen
  <2>2. CASE v # w
    <3>1. req[v] = "spawned" /\ child'[v] = child[v] /\ child[v] # p
      BY <2>2, <1>5 DEF Popen
    <3>2. QED
      BY <3>1, <1>5 DEF Popen
  <2>3. QED
    BY <2>1, <2>2
<1>6. ASSUME NEW p \in Pids, Exit(p) PROVE ChildInv'
  BY <1>6 DEF Exit
<1>7. ASSUME NEW p \in Pids, Recycle(p) \/ OtherStarts(p) \/ OtherEnds(p) PROVE ChildInv'
  BY <1>7 DEF Recycle, OtherStarts, OtherEnds
<1>8. CASE UNCHANGED vars
  BY <1>8 DEF vars
<1>9. QED
  BY <1>1, <1>2, <1>3, <1>4, <1>5, <1>6, <1>7, <1>8 DEF Next

-----------------------------------------------------------------------------
(* The maps and the processes agree                                        *)

LEMMA RunningStep == IInv /\ [Next]_vars => RunningChildIsTracked'
<1> SUFFICES ASSUME IInv, [Next]_vars,
                    NEW v \in Workers, NEW q \in Pids, kind'[q] = "running", parent'[q] = v
             PROVE  processes'[v][job'[q]] = q \/ (req'[v] = "spawned" /\ child'[v] = q)
  BY DEF RunningChildIsTracked
<1> USE DEF IInv, TypeOK, JobInv, RunningChildIsTracked
<1> DEFINE Goal == processes'[v][job'[q]] = q \/ (req'[v] = "spawned" /\ child'[v] = q)
<1>a. ASSUME UNCHANGED <<kind, job, parent>>, NEW w \in Workers,
             processes' = [processes EXCEPT ![w] = Pruned(w)],
             req[w] # "spawned", \A u \in Workers \ {w} : req'[u] = req[u], UNCHANGED child
      PROVE  Goal
  BY <1>a DEF Pruned, check_if_process_is_running
<1>1. ASSUME NEW w \in Workers, check_ability_to_start_job(w) PROVE Goal
  BY <1>1, <1>a DEF check_ability_to_start_job
<1>2. ASSUME NEW w \in Workers, Reject(w) PROVE Goal
  BY <1>2 DEF Reject
<1>3. ASSUME NEW w \in Workers, Track(w) PROVE Goal
  <2>1. kind[q] = "running" /\ job[q] \in Jobs /\ job' = job /\ parent[q] = v
    BY <1>3 DEF Track, Collect, ChildInv
  <2>2. CASE v # w
    BY <2>1, <2>2, <1>3 DEF Track, Collect
  <2>3. CASE v = w
    <3>1. CASE child[w] = q
      BY <2>1, <2>3, <3>1, <1>3, PrunedType DEF Track
    <3>2. CASE child[w] # q
      <4>1. processes[w][job[q]] = q
        BY <2>1, <2>3, <3>2
      <4>2. Pruned(w)[job[q]] = q
        BY <4>1, <2>1, NoneAssumption DEF Pruned, check_if_process_is_running
      <4>3. job[q] # job[child[w]]
        BY <2>1, <3>2, <1>3, NoneAssumption DEF Track, ChildInv
      <4>4. QED
        BY <4>2, <4>3, <2>1, <2>3, <1>3, PrunedType DEF Track
    <3>3. QED
      BY <3>1, <3>2
  <2>4. QED
    BY <2>2, <2>3
<1>4. ASSUME NEW w \in Workers, WorkerRestart(w) PROVE Goal
  BY <1>4, NoneAssumption DEF WorkerRestart
<1>5. ASSUME NEW w \in Workers, NEW j \in Jobs, terminate_job(w, j) PROVE Goal
  <2>1. kind[q] = "running" /\ parent[q] = v /\ job' = job /\ job[q] \in Jobs
    BY <1>5, PrunedType DEF terminate_job
  <2>2. CASE v # w
    BY <2>1, <2>2, <1>5 DEF terminate_job
  <2>3. CASE v = w
    <3>1. processes[w][job[q]] = q
      BY <2>1, <2>3, <1>5 DEF terminate_job
    <3>2. Pruned(w)[job[q]] = q
      BY <3>1, <2>1, NoneAssumption DEF Pruned, check_if_process_is_running
    <3>3. job[q] # j
      BY <3>2, <2>1, <1>5, NoneAssumption, PrunedType DEF terminate_job
    <3>4. QED
      BY <3>2, <3>3, <2>1, <2>3, <1>5, PrunedType DEF terminate_job
  <2>4. QED
    BY <2>2, <2>3
<1>6. ASSUME NEW w \in Workers, NEW j \in Jobs, NEW p \in Pids, Popen(w, j, p) PROVE Goal
  <2>1. CASE q = p
    BY <2>1, <1>6, NoneAssumption DEF Popen
  <2>2. CASE q # p
    BY <2>2, <1>6 DEF Popen
  <2>3. QED
    BY <2>1, <2>2
<1>7. ASSUME NEW p \in Pids, Exit(p) \/ OtherStarts(p) \/ OtherEnds(p) PROVE Goal
  BY <1>7 DEF Exit, OtherStarts, OtherEnds
<1>8. ASSUME NEW p \in Pids, Recycle(p) PROVE Goal
  BY <1>8 DEF Recycle
<1>9. CASE UNCHANGED vars
  BY <1>9 DEF vars
<1>10. QED
  BY <1>1, <1>2, <1>3, <1>4, <1>5, <1>6, <1>7, <1>8, <1>9 DEF Next

LEMMA TrackedStep == IInv /\ [Next]_vars => TrackedIsOwnExecutor'
<1> DEFINE Own(v, i, q) == \/ kind[q] \in {"running", "zombie"} /\ job[q] = i /\ parent[q] = v
                           \/ kind[q] = "freed" /\ req[v] = "spawned"
<1> SUFFICES ASSUME IInv, [Next]_vars, ~early,
                    NEW v \in Workers, NEW i \in Jobs, processes'[v][i] # NoPid
             PROVE  Own(v, i, processes[v][i])'
  BY DEF TrackedIsOwnExecutor, Next, vars, check_ability_to_start_job, Reject, Track, Collect,
         WorkerRestart, terminate_job, Popen, Exit, Recycle, OtherStarts, OtherEnds
<1> USE DEF IInv, TypeOK, JobInv
<1>a. ASSUME processes[v][i] # NoPid PROVE processes[v][i] \in Pids /\ Own(v, i, processes[v][i])
  BY <1>a DEF TrackedIsOwnExecutor
<1>b. ASSUME NEW m \in Jobs, Pruned(v)[m] # NoPid
      PROVE  /\ Pruned(v)[m] = processes[v][m] /\ processes[v][m] \in Pids
             /\ kind[processes[v][m]] \in {"running", "zombie"}
             /\ job[processes[v][m]] = m /\ parent[processes[v][m]] = v
  BY <1>b DEF Pruned, check_if_process_is_running, TrackedIsOwnExecutor
<1>1. ASSUME NEW w \in Workers, check_ability_to_start_job(w) PROVE Own(v, i, processes[v][i])'
  <2>1. CASE v = w
    BY <1>1, <1>b, <2>1 DEF check_ability_to_start_job
  <2>2. CASE v # w
    BY <1>1, <1>a, <2>2 DEF check_ability_to_start_job
  <2>3. QED
    BY <2>1, <2>2
<1>2. ASSUME NEW w \in Workers, Reject(w) PROVE Own(v, i, processes[v][i])'
  BY <1>2, <1>a DEF Reject
<1>3. ASSUME NEW w \in Workers, Track(w) PROVE Own(v, i, processes[v][i])'
  <2>1. UNCHANGED <<kind, job, parent>> /\ child[w] \in Pids /\ kind[child[w]] = "running"
        /\ parent[child[w]] = w
    BY <1>3 DEF Track, Collect, ChildInv
  <2>2. CASE v = w /\ i = job[child[w]]
    BY <1>3, <2>1, <2>2, PrunedType DEF Track
  <2>3. CASE v = w /\ i # job[child[w]]
    BY <1>3, <1>b, <2>1, <2>3, PrunedType DEF Track
  <2>4. CASE v # w
    BY <1>3, <1>a, <2>1, <2>4 DEF Track, Collect
  <2>5. QED
    BY <2>2, <2>3, <2>4
<1>4. ASSUME NEW w \in Workers, WorkerRestart(w) PROVE Own(v, i, processes[v][i])'
  <2>1. v # w /\ processes'[v][i] = processes[v][i]
    BY <1>4 DEF WorkerRestart
  <2>2. QED
    BY <1>4, <1>a, <2>1 DEF WorkerRestart
<1>5. ASSUME NEW w \in Workers, NEW j \in Jobs, terminate_job(w, j)
      PROVE  Own(v, i, processes[v][i])'
  <2>1. UNCHANGED <<job, parent, req>>
    BY <1>5 DEF terminate_job
  <2>2. CASE Pruned(w)[j] = NoPid
    <3>1. kind' = kind
      BY <1>5, <2>2 DEF terminate_job
    <3>2. CASE v = w
      BY <1>5, <1>b, <2>1, <3>1, <3>2, PrunedType DEF terminate_job
    <3>3. CASE v # w
      BY <1>5, <1>a, <2>1, <3>1, <3>3 DEF terminate_job
    <3>4. QED
      BY <3>2, <3>3
  <2>3. CASE Pruned(w)[j] # NoPid
    <3> DEFINE t == Pruned(w)[j]
    <3>1. t \in Pids /\ kind[t] \in {"running", "zombie"} /\ job[t] = j /\ parent[t] = w
      BY <2>3 DEF Pruned, check_if_process_is_running, TrackedIsOwnExecutor
    <3>2. \A q \in Pids \ {t} : kind'[q] = kind[q]
      BY <1>5, <3>1 DEF terminate_job
    <3>3. CASE v = w
      <4>1. i # j /\ processes'[v][i] = Pruned(v)[i]
        BY <1>5, <3>3, PrunedType DEF terminate_job
      <4>2. QED
        BY <4>1, <1>b, <2>1, <3>1, <3>2
    <3>4. CASE v # w
      <4>1. processes'[v][i] = processes[v][i]
        BY <1>5, <3>4 DEF terminate_job
      <4>2. processes[v][i] # t
        BY <4>1, <1>a, <1>5, <3>1, <3>4 DEF terminate_job
      <4>3. QED
        BY <4>1, <4>2, <1>a, <2>1, <3>2
    <3>5. QED
      BY <3>3, <3>4
  <2>4. QED
    BY <2>2, <2>3
<1>6. ASSUME NEW w \in Workers, NEW j \in Jobs, NEW p \in Pids, Popen(w, j, p)
      PROVE  Own(v, i, processes[v][i])'
  <2>1. processes'[v][i] = processes[v][i] /\ processes[v][i] # p
    BY <1>6, <1>a DEF Popen
  <2>2. QED
    BY <1>6, <1>a, <2>1 DEF Popen
<1>7. ASSUME NEW p \in Pids, Exit(p) PROVE Own(v, i, processes[v][i])'
  BY <1>7, <1>a, NoneAssumption DEF Exit
<1>8. ASSUME NEW p \in Pids, Recycle(p) PROVE Own(v, i, processes[v][i])'
  BY <1>8, <1>a DEF Recycle
<1>9. ASSUME NEW p \in Pids, OtherStarts(p) \/ OtherEnds(p) PROVE Own(v, i, processes[v][i])'
  BY <1>9, <1>a DEF OtherStarts, OtherEnds
<1>10. CASE UNCHANGED vars
  BY <1>10, <1>a DEF vars
<1>11. QED
  BY <1>1, <1>2, <1>3, <1>4, <1>5, <1>6, <1>7, <1>8, <1>9, <1>10 DEF Next

-----------------------------------------------------------------------------
(* The limit                                                               *)

LEMMA CountSmaller ==
  ASSUME NEW f, NEW g, \A j \in Jobs : f[j] # NoPid => g[j] # NoPid
  PROVE  Count(f) <= Count(g) /\ Count(f) \in Nat /\ Count(g) \in Nat
<1> DEFINE F == {j \in Jobs : f[j] # NoPid}
           G == {j \in Jobs : g[j] # NoPid}
<1>1. IsFiniteSet(G)
  BY FS_Subset, JobsAssumption
<1>2. F \in SUBSET G
  OBVIOUS
<1>3. IsFiniteSet(F) /\ Cardinality(F) <= Cardinality(G)
  BY <1>1, <1>2, FS_Subset
<1>4. Cardinality(F) \in Nat /\ Cardinality(G) \in Nat
  BY <1>1, <1>3, FS_CardinalityType
<1>5. QED
  BY <1>3, <1>4 DEF Count

LEMMA CountOneMore ==
  ASSUME NEW f, NEW g, NEW i \in Jobs, \A j \in Jobs \ {i} : f[j] # NoPid => g[j] # NoPid
  PROVE  Count(f) <= Count(g) + 1 /\ Count(f) \in Nat /\ Count(g) \in Nat
<1> DEFINE F == {j \in Jobs : f[j] # NoPid}
           G == {j \in Jobs : g[j] # NoPid}
<1>1. IsFiniteSet(G)
  BY FS_Subset, JobsAssumption
<1>2. Cardinality(G) \in Nat
  BY <1>1, FS_CardinalityType
<1>3. IsFiniteSet(G \cup {i}) /\ Cardinality(G \cup {i}) <= Cardinality(G) + 1
        /\ Cardinality(G \cup {i}) \in Nat
  BY <1>1, <1>2, FS_AddElement
<1>4. F \in SUBSET (G \cup {i})
  OBVIOUS
<1>5. IsFiniteSet(F) /\ Cardinality(F) <= Cardinality(G \cup {i})
  BY <1>3, <1>4, FS_Subset
<1>6. Cardinality(F) \in Nat
  BY <1>5, FS_CardinalityType
<1>7. QED
  BY <1>2, <1>3, <1>5, <1>6 DEF Count

LEMMA CountStep == IInv /\ [Next]_vars => CountInv'
<1> SUFFICES ASSUME IInv, [Next]_vars, NEW v \in Workers
             PROVE  /\ Count(processes'[v]) <= MaxJobs
                    /\ req'[v] \in {"checked", "spawned"} => Count(processes'[v]) < MaxJobs
  BY DEF CountInv, Count
<1> DEFINE Goal == /\ Count(processes'[v]) <= MaxJobs
                   /\ req'[v] \in {"checked", "spawned"} => Count(processes'[v]) < MaxJobs
<1> USE MaxJobsAssumption DEF IInv, TypeOK, CountInv
<1>a. ASSUME \A j \in Jobs : processes'[v][j] # NoPid => processes[v][j] # NoPid
      PROVE  Count(processes'[v]) <= Count(processes[v])
             /\ Count(processes'[v]) \in Nat /\ Count(processes[v]) \in Nat
  BY <1>a, CountSmaller
<1>b. ASSUME \A j \in Jobs : processes'[v][j] # NoPid => processes[v][j] # NoPid,
             req'[v] \in {"checked", "spawned"} => req[v] \in {"checked", "spawned"}
      PROVE  Goal
  BY <1>a, <1>b
<1>1. ASSUME NEW w \in Workers, check_ability_to_start_job(w) PROVE Goal
  <2>1. CASE v = w
    <3>1. \A j \in Jobs : processes'[v][j] # NoPid => processes[v][j] # NoPid
      BY <1>1, <2>1 DEF check_ability_to_start_job, Pruned
    <3>2. processes'[v] = Pruned(w)
      BY <1>1, <2>1 DEF check_ability_to_start_job
    <3>3. req'[v] \in {"checked", "spawned"} => ~(Count(Pruned(w)) >= MaxJobs)
      BY <1>1, <2>1 DEF check_ability_to_start_job
    <3>4. QED
      BY <1>a, <3>1, <3>2, <3>3
  <2>2. CASE v # w
    BY <1>1, <1>b, <2>2 DEF check_ability_to_start_job
  <2>3. QED
    BY <2>1, <2>2
<1>2. ASSUME NEW w \in Workers, Reject(w) PROVE Goal
  BY <1>2, <1>b DEF Reject
<1>3. ASSUME NEW w \in Workers, Track(w) PROVE Goal
  <2>1. CASE v = w
    <3> DEFINE i == job[child[w]]
    <3>1. i \in Jobs
      BY <1>3 DEF Track, ChildInv
    <3>2. processes'[v] = [Pruned(w) EXCEPT ![i] = child[w]] /\ req'[v] = "idle"
      BY <1>3, <2>1 DEF Track, Collect
    <3>3. \A j \in Jobs \ {i} : processes'[v][j] # NoPid => processes[v][j] # NoPid
      BY <2>1, <3>2 DEF Pruned
    <3>4. Count(processes'[v]) <= Count(processes[v]) + 1
          /\ Count(processes'[v]) \in Nat /\ Count(processes[v]) \in Nat
      BY <3>1, <3>3, CountOneMore
    <3>5. Count(processes[v]) < MaxJobs
      BY <1>3, <2>1 DEF Track
    <3>6. QED
      BY <3>2, <3>4, <3>5
  <2>2. CASE v # w
    BY <1>3, <1>b, <2>2 DEF Track, Collect
  <2>3. QED
    BY <2>1, <2>2
<1>4. ASSUME NEW w \in Workers, WorkerRestart(w) PROVE Goal
  BY <1>4, <1>b DEF WorkerRestart
<1>5. ASSUME NEW w \in Workers, NEW j \in Jobs, terminate_job(w, j) PROVE Goal
  <2>1. \A i \in Jobs : processes'[v][i] # NoPid => processes[v][i] # NoPid
    BY <1>5 DEF terminate_job, Pruned
  <2>2. QED
    BY <1>5, <1>b, <2>1 DEF terminate_job
<1>6. ASSUME NEW w \in Workers, NEW j \in Jobs, NEW p \in Pids, Popen(w, j, p) PROVE Goal
  BY <1>6, <1>b DEF Popen
<1>7. ASSUME NEW p \in Pids, Exit(p) \/ Recycle(p) \/ OtherStarts(p) \/ OtherEnds(p) PROVE Goal
  BY <1>7, <1>b DEF Exit, Recycle, OtherStarts, OtherEnds
<1>8. CASE UNCHANGED vars
  BY <1>8, <1>b DEF vars
<1>9. QED
  BY <1>1, <1>2, <1>3, <1>4, <1>5, <1>6, <1>7, <1>8 DEF Next

LEMMA OneMore ==
  ASSUME NEW S, NEW x, IsFiniteSet(S)
  PROVE  /\ IsFiniteSet(S \cup {x}) /\ Cardinality(S \cup {x}) <= Cardinality(S) + 1
         /\ Cardinality(S \cup {x}) \in Nat
<1>1. Cardinality(S) \in Nat
  BY FS_CardinalityType
<1>2. QED
  BY <1>1, FS_AddElement

\* The running children that are in the map are as many as their jobs there; the
\* one that is being started comes on top, and CountInv has room for it.
LEMMA CountLimits == IInv => RunningWithinLimit
<1> SUFFICES ASSUME IInv, NEW w \in Workers
             PROVE  Cardinality({p \in Pids : kind[p] = "running" /\ parent[p] = w}) <= MaxJobs
  BY DEF RunningWithinLimit
<1> USE MaxJobsAssumption DEF IInv, TypeOK
<1> DEFINE R == {p \in Pids : kind[p] = "running" /\ parent[p] = w}
           T == {p \in R : processes[w][job[p]] = p}
           J == {j \in Jobs : processes[w][j] # NoPid}
           f == [p \in T |-> job[p]]
<1>1. IsFiniteSet(J) /\ Cardinality(J) \in Nat /\ Cardinality(J) = Count(processes[w])
  BY FS_Subset, FS_CardinalityType, JobsAssumption DEF Count
<1>2. f \in Injection(T, J)
  <2>1. \A p \in T : job[p] \in J
    BY NoneAssumption DEF JobInv
  <2>2. \A p, q \in T : job[p] = job[q] => p = q
    BY NoneAssumption DEF JobInv
  <2>3. QED
    BY <2>1, <2>2 DEF Injection, IsInjective
<1>3. IsFiniteSet(T) /\ Cardinality(T) <= Cardinality(J)
  BY <1>1, <1>2, FS_Injection
<1>4. Cardinality(T) \in Nat
  BY <1>3, FS_CardinalityType
<1>5. CASE req[w] = "spawned"
  <2>1. R \in SUBSET (T \cup {child[w]})
    BY DEF RunningChildIsTracked
  <2>2. IsFiniteSet(T \cup {child[w]}) /\ Cardinality(T \cup {child[w]}) <= Cardinality(T) + 1
          /\ Cardinality(T \cup {child[w]}) \in Nat
    BY <1>3, OneMore
  <2>3. IsFiniteSet(R) /\ Cardinality(R) <= Cardinality(T \cup {child[w]})
    BY <2>1, <2>2, FS_Subset
  <2>4. Cardinality(R) \in Nat
    BY <2>3, FS_CardinalityType
  <2>5. Cardinality(J) < MaxJobs
    BY <1>1, <1>5 DEF CountInv
  <2>6. QED
    BY <1>1, <1>3, <1>4, <2>2, <2>3, <2>4, <2>5
<1>6. CASE req[w] # "spawned"
  <2>1. R = T
    BY <1>6 DEF RunningChildIsTracked
  <2>2. Cardinality(R) = Cardinality(T)
    BY <2>1
  <2>3. Cardinality(J) <= MaxJobs
    BY <1>1 DEF CountInv
  <2> HIDE DEF R, T, J
  <2>4. Cardinality(R) <= MaxJobs
    BY <1>1, <1>3, <1>4, <2>2, <2>3
  <2>5. QED
    BY <2>4 DEF R
<1>7. QED
  BY <1>5, <1>6

-----------------------------------------------------------------------------
(* The theorems                                                            *)

LEMMA InvInit == Init => IInv
<1> SUFFICES ASSUME Init PROVE IInv
  OBVIOUS
<1> USE DEF Init
<1>1. TypeOK
  BY DEF TypeOK, PidKind
<1>2. JobInv /\ ChildInv /\ TrackedIsOwnExecutor /\ RunningChildIsTracked
  BY DEF JobInv, ChildInv, TrackedIsOwnExecutor, RunningChildIsTracked
<1>3. CountInv
  <2>1. \A w \in Workers : {j \in Jobs : processes[w][j] # NoPid} = {}
    OBVIOUS
  <2>2. \A w \in Workers : Count(processes[w]) = 0
    BY <2>1, FS_EmptySet DEF Count
  <2>3. QED
    BY <2>2, MaxJobsAssumption DEF CountInv
<1>4. QED
  BY <1>1, <1>2, <1>3 DEF IInv

LEMMA PoolInvariant == Spec => []IInv
<1>1. IInv /\ [Next]_vars => IInv'
  <2>1. IInv => TypeOK /\ JobInv /\ ChildInv
    BY DEF IInv
  <2>2. QED
    BY <2>1, TypeStep, JobStep, ChildStep, CountStep, TrackedStep, RunningStep DEF IInv
<1>2. QED
  BY InvInit, <1>1, PTL DEF Spec

\* The state of BatchToSubprocessAdapter and of the processes of the host keeps
\* its types: in particular every worker's map holds pids under job ids.
THEOREM PoolTypeCorrect == Spec => []TypeOK
<1>1. IInv => TypeOK
  BY DEF IInv
<1>2. QED
  BY PoolInvariant, <1>1, PTL

\* terminate_job and the count of _processes only ever meet the worker's own
\* executors, of the very job, whatever pids the host hands out.
THEOREM TrackedIsOwnTheorem == Spec => []TrackedIsOwnExecutor
<1>1. IInv => TrackedIsOwnExecutor
  BY DEF IInv
<1>2. QED
  BY PoolInvariant, <1>1, PTL

\* A worker never loses sight of an executor it started, outside of submit_job.
THEOREM RunningIsTrackedTheorem == Spec => []RunningChildIsTracked
<1>1. IInv => RunningChildIsTracked
  BY DEF IInv
<1>2. QED
  BY PoolInvariant, <1>1, PTL

\* check_ability_to_start_job keeps a worker's executors within
\* MAX_NUMBER_OF_JOBS, though it counts the map and not the processes.
THEOREM WithinLimitTheorem == Spec => []RunningWithinLimit
<1>1. QED
  BY PoolInvariant, CountLimits, PTL
=============================================================================
