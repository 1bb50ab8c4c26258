-------------------------- MODULE MCSubprocessPool --------------------------
(* Instances of SubprocessPool for TLC.                                    *)
EXTENDS SubprocessPool, TLC

Symmetry == Permutations(Workers) \cup Permutations(Jobs) \cup Permutations(Pids)
=============================================================================
