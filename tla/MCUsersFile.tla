---------------------------- MODULE MCUsersFile ----------------------------
(* Values of the constants of UsersFile for TLC. *)
EXTENDS UsersFile

CONSTANTS alice, bob, carol

\* Users.db of a first start: none.
EmptyDb == <<>>

ThreadSymmetry == Permutations(Thread)

=============================================================================
