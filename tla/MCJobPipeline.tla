---------------------------- MODULE MCJobPipeline ----------------------------
(* Instances of JobPipeline for TLC.                                       *)
EXTENDS JobPipeline, TLC

\* Workers are interchangeable, and so are jobs, tenants and algorithms; used by the runs without
\* liveness properties only.
Symmetry ==
  Permutations(Jobs) \cup Permutations(Workers) \cup Permutations(Tenants)
    \cup Permutations(Algorithms)
=============================================================================
