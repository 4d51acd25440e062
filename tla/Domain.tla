------------------------------- MODULE Domain -------------------------------
(***************************************************************************)
(* The names every server component shares: the users of the system and    *)
(* the threads of one server process.  A thread stands for one connection: *)
(* its ConnectionHandler and the NotificationConsumer it starts.           *)
(***************************************************************************)
EXTENDS Integers, Sequences, FiniteSets

CONSTANTS
    Username,   \* user identifiers ("@alice", ...)
    Thread      \* thread identifiers; never reused, handler threads are not joined

ASSUME UsernamesAreFinite == IsFiniteSet(Username)

\* "e is somewhere in the list or queue q".
InList(q, e) == \E i \in DOMAIN q : q[i] = e

=============================================================================
