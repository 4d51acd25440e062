------------------------ MODULE MCPassiveReplication ------------------------
(* Values of the constants of PassiveReplication for TLC. *)
EXTENDS PassiveReplication, TLC

CONSTANTS alice, bob

\* Users.db as a former run left it.
AliceDb == << [user |-> alice, followers |-> {}] >>

ThreadSymmetry == Permutations(Thread)

\* Bound: what the backup has not received yet.
FewUpdates == Len(updates) <= 2

=============================================================================
