--------------------------- MODULE ProfileManager ---------------------------
(***************************************************************************)
(* The users of a server: who follows whom, which sessions are open, and   *)
(* the CSV file Users.db that keeps users and followers across restarts    *)
(* (src/server/profile).  Every method runs under m_mutex, so each is one  *)
(* action.                                                                 *)
(*                                                                         *)
(* m_followers is a list that addFollower sorts and searches: a set here.  *)
(* A row of Users.db is <<user, follower, follower, ...>>: a record.       *)
(***************************************************************************)
EXTENDS Domain

CONSTANTS
    MAX_SESSIONS_PER_USER,   \* User.hpp; 2 in the code
    InitialDb                \* the rows Users.db holds when the leader starts

VARIABLES
    m_users,   \* username -> [m_id, m_followers, m_sessions]
    usersDb    \* the rows of Users.db, in file order

profileVars == <<m_users, usersDb>>

User == [m_id : Nat, m_followers : SUBSET Username, m_sessions : Seq(Thread)]
Row  == [user : Username, followers : SUBSET Username]

ASSUME MaxSessionsAssumption == MAX_SESSIONS_PER_USER \in 1 .. 2
ASSUME InitialDbAssumption ==
    /\ InitialDb \in Seq(Row)
    /\ \A i \in DOMAIN InitialDb :
         /\ InitialDb[i].user \notin InitialDb[i].followers
         /\ \A j \in DOMAIN InitialDb :
              InitialDb[i].user = InitialDb[j].user => i = j
-----------------------------------------------------------------------------
(* The file.                                                               *)

\* ProfilePersistency::readUsers: the first row of a user wins (emplace),
\* addFollower drops the user himself, and ids count the rows from 1.
FirstRow(rows, u) ==
    CHOOSE i \in DOMAIN rows :
        /\ rows[i].user = u
        /\ \A j \in DOMAIN rows : rows[j].user = u => i <= j

\* Mutant of ReadUsers: the ids are left as the default constructor sets them.
ReadUsersWithoutIds(rows) ==
    [u \in {rows[i].user : i \in DOMAIN rows} |->
        [m_id |-> -1, m_followers |-> rows[FirstRow(rows, u)].followers \ {u}, m_sessions |-> <<>>]]

ReadUsers(rows) ==
    [u \in {rows[i].user : i \in DOMAIN rows} |->
        [m_id        |-> FirstRow(rows, u),
         m_followers |-> rows[FirstRow(rows, u)].followers \ {u},
         m_sessions  |-> <<>>]]

\* ProfilePersistency::saveNewUser and CSVWriter::append.
SaveNewUser(u) == usersDb' = Append(usersDb, [user |-> u, followers |-> {}])

\* Mutant of SaveNewFollower: a new follower is not saved.
SaveNoFollower(u, follower) == UNCHANGED usersDb

\* ProfilePersistency::saveNewFollower and CSVWriter::appendToLine, which adds
\* the column to every row whose first column is the user.
SaveNewFollower(u, follower) ==
    usersDb' = [i \in DOMAIN usersDb |->
                   IF usersDb[i].user = u
                   THEN [usersDb[i] EXCEPT !.followers = @ \cup {follower}]
                   ELSE usersDb[i]]
-----------------------------------------------------------------------------
(* The sessions of a user.                                                 *)

\* Mutant of RemoveSession: the oldest session goes, whichever is closed.
RemoveOldestSession(sessions, t) == IF sessions = <<>> THEN sessions ELSE Tail(sessions)

\* User::removeSession looks at the two ends of the list only.
RemoveSession(sessions, t) ==
    CASE sessions = <<>>                 -> sessions
      [] sessions # <<>> /\ sessions[1] = t -> Tail(sessions)
      [] sessions # <<>> /\ sessions[1] # t /\ sessions[Len(sessions)] = t
                                         -> SubSeq(sessions, 1, Len(sessions) - 1)
      [] OTHER                           -> sessions

\* startSession, when it answers true: a free slot, or a new user.
StartSession(u, t) ==
    \/ /\ u \in DOMAIN m_users
       /\ Len(m_users[u].m_sessions) < MAX_SESSIONS_PER_USER
       /\ m_users' = [m_users EXCEPT ![u].m_sessions = Append(@, t)]
       /\ UNCHANGED usersDb
    \/ /\ u \notin DOMAIN m_users
       /\ m_users' = [v \in DOMAIN m_users \cup {u} |->
                         IF v = u
                         THEN [m_id        |-> Cardinality(DOMAIN m_users),
                               m_followers |-> {},
                               m_sessions  |-> <<t>>]
                         ELSE m_users[v]]
       /\ SaveNewUser(u)

CloseSession(u, t) ==
    /\ u \in DOMAIN m_users
    /\ m_users' = [m_users EXCEPT ![u].m_sessions = RemoveSession(@, t)]
    /\ UNCHANGED usersDb
-----------------------------------------------------------------------------
(* Following.                                                              *)

\* Mutant of CanFollow: addFollower does not compare the names.
CanFollowHimself(follower, u) ==
    /\ {follower, u} \subseteq DOMAIN m_users
    /\ follower \notin m_users[u].m_followers

CanFollow(follower, u) ==
    /\ {follower, u} \subseteq DOMAIN m_users
    /\ follower # u
    /\ follower \notin m_users[u].m_followers

Follow(follower, u) ==
    /\ CanFollow(follower, u)
    /\ m_users' = [m_users EXCEPT ![u].m_followers = @ \cup {follower}]
    /\ SaveNewFollower(u, follower)

FollowersOf(u) == IF u \in DOMAIN m_users THEN m_users[u].m_followers ELSE {}
-----------------------------------------------------------------------------
(* Replication: what the callback sends and what a backup makes of it.     *)

\* User::serialize, then User::deserialize: sessions are not restored, and
\* ProfileManager::deserialize skips a user that is not User::isValid.
Snapshot(users) ==
    [u \in {v \in DOMAIN users : users[v].m_id > 0} |->
        [users[u] EXCEPT !.m_sessions = <<>>]]

\* The process dies and is started again as leader: loadUsers.
Restart ==
    /\ m_users' = ReadUsers(usersDb)
    /\ UNCHANGED usersDb
-----------------------------------------------------------------------------
ProfileInit ==
    /\ usersDb = InitialDb
    /\ m_users = ReadUsers(InitialDb)

\* The session a handler opens is its own, and it closes that one only.
OpenSessions == UNION {{m_users[u].m_sessions[i] : i \in DOMAIN m_users[u].m_sessions}
                          : u \in DOMAIN m_users}

ProfileNext ==
    \/ \E u \in Username, t \in Thread \ OpenSessions : StartSession(u, t)
    \/ \E u \in DOMAIN m_users : \E t \in OpenSessions :
          InList(m_users[u].m_sessions, t) /\ CloseSession(u, t)
    \/ \E f, u \in Username : Follow(f, u)
    \/ Restart

ProfileSpec == ProfileInit /\ [][ProfileNext]_profileVars
-----------------------------------------------------------------------------
ProfileTypeOK ==
    /\ DOMAIN m_users \subseteq Username
    /\ m_users \in [DOMAIN m_users -> User]
    /\ usersDb \in Seq(Row)

\* Users.db holds one row for every user in memory and for no other, with the
\* same followers (startSession and follow save what they change).
DbMirrorsMemory ==
    /\ DOMAIN m_users = {usersDb[i].user : i \in DOMAIN usersDb}
    /\ \A i, j \in DOMAIN usersDb : usersDb[i].user = usersDb[j].user => i = j
    /\ \A i \in DOMAIN usersDb :
         usersDb[i].followers = m_users[usersDb[i].user].m_followers

\* Neither addFollower nor a reload lets a user follow himself.
NobodyFollowsHimself == \A u \in DOMAIN m_users : u \notin m_users[u].m_followers

\* A user's sessions are different threads, and no more than he has slots.
Distinct(q) == \A i, j \in DOMAIN q : q[i] = q[j] => i = j
SessionsFitTheSlots == \A u \in DOMAIN m_users :
    Distinct(m_users[u].m_sessions) /\ Len(m_users[u].m_sessions) <= MAX_SESSIONS_PER_USER

\* The inductive invariant: a reload gives back what memory held only if the
\* rows are those of memory and name nobody as his own follower.
ProfileInv ==
    /\ ProfileTypeOK
    /\ DbMirrorsMemory
    /\ NobodyFollowsHimself
    /\ SessionsFitTheSlots

\* No step, a crash and reload included, forgets a user or a follower.
NothingForgotten ==
    [][\A u \in DOMAIN m_users :
          /\ u \in DOMAIN m_users'
          /\ m_users[u].m_followers \subseteq m_users'[u].m_followers]_profileVars

\* closeSession frees the slot of the session it is given, and of no other:
\* looking at the two ends of the list is enough for two sessions.
CloseFreesItsSlot ==
    [][\A u \in DOMAIN m_users : \A t \in Thread :
          (InList(m_users[u].m_sessions, t) /\ CloseSession(u, t)) =>
             {s \in Thread : InList(m_users'[u].m_sessions, s)} =
             {s \in Thread : InList(m_users[u].m_sessions, s)} \ {t}]_profileVars

=============================================================================
