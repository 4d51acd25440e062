-------------------------- MODULE MCReplicaManager --------------------------
(* Symmetry for checking ReplicaManager with TLC. *)
EXTENDS ReplicaManager, TLC

\* All but the first leader are alike.
Symmetry == Permutations(Replica \ {InitialLeader})

=============================================================================
