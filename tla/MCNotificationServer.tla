------------------------ MODULE MCNotificationServer ------------------------
(* Values of the constants of NotificationServer for TLC. *)
EXTENDS NotificationServer, TLC

CONSTANTS alice, bob

\* Users.db: bob follows alice.
MCInitialDb == << [user |-> alice, followers |-> {bob}],
                  [user |-> bob,   followers |-> {}] >>

\* Bound of the run with a third user, who is not in the file: alone alice tweets and is
\* followed.
OnlyAliceTweets ==
    /\ \A u \in DOMAIN m_users : u # alice => m_users[u].m_followers = {}
    /\ \A t \in Thread : handler[t] = "sending" => username[t] = alice

ThreadSymmetry == Permutations(Thread)

=============================================================================
