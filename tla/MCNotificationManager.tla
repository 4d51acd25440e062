----------------------- MODULE MCNotificationManager ------------------------
(* Symmetry for checking NotificationManager with TLC. *)
EXTENDS NotificationManager, TLC

Symmetry == Permutations(Username) \cup Permutations(Thread)

=============================================================================
