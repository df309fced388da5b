-------------------------- MODULE MCManagedSessions --------------------------
(* Instances of ManagedSessions for TLC. *)
EXTENDS ManagedSessions, TLC

Symmetry == UNION {Permutations(S) : S \in {Sessions, Convs, Tasks, Commands}}
=============================================================================
