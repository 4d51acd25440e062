----------------------- MODULE PassiveReplicationProofs -----------------------
(***************************************************************************)
(* What PassiveReplication guarantees for any users, any threads, any      *)
(* Users.db to start from, any number of updates on their way and any      *)
(* number of leaders that die.                                             *)
(***************************************************************************)
EXTENDS PassiveReplication, ManagerProofs

-----------------------------------------------------------------------------
(* First and last positions.                                               *)

LEMMA Least ==
    ASSUME NEW S \in SUBSET Nat, S # {}
    PROVE  \E i \in S : \A j \in S : i <= j
<1> DEFINE R == OpToRel(<, Nat)
<1>1. IsWellFoundedOn(R, Nat)
  BY NatLessThanWellFounded, Zenon
<1>2. \A x, y \in Nat : <<x, y>> \in R <=> x < y
  BY Zenon DEF OpToRel
<1> HIDE DEF R
<1>3. PICK i \in S : \A j \in S : ~(<<j, i>> \in R)
  BY <1>1, WFMin
<1>4. \A j \in S : i \in Nat /\ j \in Nat /\ ~(j < i)
  BY <1>2, <1>3
<1> QED
  BY <1>4

LEMMA Greatest ==
    ASSUME NEW n \in Nat, NEW S \in SUBSET (1 .. n), S # {}
    PROVE  \E i \in S : \A j \in S : j <= i
<1> DEFINE T == {n - i : i \in S}
<1>1. \A i \in S : n - i \in Nat
  OBVIOUS
<1>2. T \in SUBSET Nat
  BY <1>1
<1>3. T # {}
  OBVIOUS
<1> HIDE DEF T
<1>4. PICK k \in T : \A j \in T : k <= j
  BY <1>2, <1>3, Least
<1>5. PICK i \in S : k = n - i
  BY DEF T
<1>6. \A j \in S : n - j \in T
  BY DEF T
<1>7. \A j \in S : n - i <= n - j
  BY <1>4, <1>5, <1>6
<1> QED
  BY <1>7
-----------------------------------------------------------------------------
(* Sequences of packets.                                                   *)

OfItself(q) == q \in Seq({q[i] : i \in DOMAIN q})

LEMMA IsOfItself ==
    ASSUME NEW S, NEW q \in Seq(S)
    PROVE  OfItself(q)
<1>1. Len(q) \in Nat /\ DOMAIN q = 1 .. Len(q) /\ q \in [1 .. Len(q) -> S]
  BY LenProperties
<1> DEFINE V == {q[i] : i \in DOMAIN q}
<1>2. q \in [1 .. Len(q) -> V]
  BY <1>1
<1> HIDE DEF V
<1>3. q \in Seq(V)
  BY <1>1, <1>2, SeqDef
<1> QED
  BY <1>3 DEF OfItself, V

LEMMA AppendedUpdate ==
    ASSUME NEW q, OfItself(q), NEW p
    PROVE  /\ OfItself(Append(q, p))
           /\ Len(q) \in Nat
           /\ DOMAIN q = 1 .. Len(q)
           /\ DOMAIN Append(q, p) = 1 .. Len(q) + 1
           /\ \A i \in DOMAIN q : Append(q, p)[i] = q[i]
           /\ Append(q, p)[Len(q) + 1] = p
<1> DEFINE V == {q[i] : i \in DOMAIN q}
           W == V \cup {p}
<1>1. q \in Seq(V)
  BY DEF OfItself
<1> HIDE DEF V
<1>2. Len(q) \in Nat /\ DOMAIN q = 1 .. Len(q) /\ q \in [1 .. Len(q) -> V]
  BY <1>1, LenProperties
<1>3. q \in [1 .. Len(q) -> W] /\ p \in W
  BY <1>2
<1> HIDE DEF W
<1>4. q \in Seq(W)
  BY <1>2, <1>3, SeqDef
<1>5. /\ Append(q, p) \in Seq(W)
      /\ Len(Append(q, p)) = Len(q) + 1
      /\ \A i \in 1 .. Len(q) : Append(q, p)[i] = q[i]
      /\ Append(q, p)[Len(q) + 1] = p
  BY <1>3, <1>4, AppendProperties
<1>6. OfItself(Append(q, p)) /\ DOMAIN Append(q, p) = 1 .. Len(q) + 1
  BY <1>5, IsOfItself, LenProperties
<1> QED
  BY <1>2, <1>5, <1>6

LEMMA ReceivedUpdate ==
    ASSUME NEW q, OfItself(q), q # <<>>
    PROVE  /\ OfItself(Tail(q))
           /\ Len(q) \in Nat \ {0}
           /\ DOMAIN q = 1 .. Len(q)
           /\ DOMAIN Tail(q) = 1 .. Len(q) - 1
           /\ \A i \in DOMAIN Tail(q) : Tail(q)[i] = q[i + 1]
           /\ Head(q) = q[1]
<1> DEFINE V == {q[i] : i \in DOMAIN q}
<1>1. q \in Seq(V)
  BY DEF OfItself
<1> HIDE DEF V
<1>2. Len(q) \in Nat /\ DOMAIN q = 1 .. Len(q) /\ Len(q) # 0
  BY <1>1, LenProperties, EmptySeq
<1>3. /\ Tail(q) \in Seq(V) /\ Len(Tail(q)) = Len(q) - 1
      /\ \A i \in 1 .. Len(Tail(q)) : Tail(q)[i] = q[i + 1]
      /\ Head(q) = q[1]
  BY <1>1, HeadTailProperties
<1>4. OfItself(Tail(q)) /\ DOMAIN Tail(q) = 1 .. Len(q) - 1
  BY <1>3, IsOfItself, LenProperties
<1> QED
  BY <1>2, <1>3, <1>4

LEMMA LostUpdates ==
    ASSUME NEW q, OfItself(q), NEW n \in 0 .. Len(q)
    PROVE  /\ OfItself(SubSeq(q, 1, n))
           /\ DOMAIN SubSeq(q, 1, n) = 1 .. n
           /\ DOMAIN q = 1 .. Len(q) /\ Len(q) \in Nat
           /\ \A i \in 1 .. n : i \in DOMAIN q /\ SubSeq(q, 1, n)[i] = q[i]
<1> DEFINE V == {q[i] : i \in DOMAIN q}
<1>1. q \in Seq(V)
  BY DEF OfItself
<1> HIDE DEF V
<1>2. Len(q) \in Nat /\ DOMAIN q = 1 .. Len(q)
  BY <1>1, LenProperties
<1>3. \A i \in 1 .. n : i \in DOMAIN q
  BY <1>2
<1>4. /\ SubSeq(q, 1, n) \in Seq(V)
      /\ Len(SubSeq(q, 1, n)) = n
      /\ \A i \in 1 .. n : SubSeq(q, 1, n)[i] = q[i]
  BY <1>1, <1>2, <1>3, SubSeqProperties
<1>5. OfItself(SubSeq(q, 1, n)) /\ DOMAIN SubSeq(q, 1, n) = 1 .. n
  BY <1>4, IsOfItself, LenProperties
<1> QED
  BY <1>2, <1>3, <1>4, <1>5
-----------------------------------------------------------------------------
(* No older.                                                               *)

LEMMA NoOlderProfileTransitive ==
    ASSUME NEW a, NEW b, NEW c, NoOlderProfile(a, b), NoOlderProfile(b, c)
    PROVE  NoOlderProfile(a, c)
BY DEF NoOlderProfile

LEMMA NoOlderDataTransitive ==
    ASSUME NEW a, NEW b, NEW c, NoOlderData(a, b), NoOlderData(b, c),
           a.m_nextId \in Nat, b.m_nextId \in Nat, c.m_nextId \in Nat
    PROVE  NoOlderData(a, c)
BY DEF NoOlderData

IsPayload(type, data) ==
    IF type = "UPDATE_PROFILE" THEN IsProfile(data) ELSE data \in NotificationData

LEMMA NoOlderReflexive ==
    ASSUME NEW type \in UpdateType, NEW a, IsPayload(type, a)
    PROVE  NoOlder(a, a, type)
<1>1. CASE type = "UPDATE_PROFILE"
  BY <1>1 DEF NoOlder, NoOlderProfile
<1>2. CASE type # "UPDATE_PROFILE"
  <2>1. a.m_nextId \in Nat
    BY <1>2 DEF IsPayload, NotificationData
  <2>2. a.m_nextId <= a.m_nextId
    BY <2>1
  <2> QED BY <1>2, <2>2 DEF NoOlder, NoOlderData
<1> QED BY <1>1, <1>2

LEMMA NoOlderTransitive ==
    ASSUME NEW type \in UpdateType, NEW a, NEW b, NEW c,
           IsPayload(type, a), IsPayload(type, b), IsPayload(type, c),
           NoOlder(a, b, type), NoOlder(b, c, type)
    PROVE  NoOlder(a, c, type)
<1>1. CASE type = "UPDATE_PROFILE"
  BY <1>1, NoOlderProfileTransitive DEF NoOlder
<1>2. CASE type # "UPDATE_PROFILE"
  <2>1. a.m_nextId \in Nat /\ b.m_nextId \in Nat /\ c.m_nextId \in Nat
    BY <1>2 DEF IsPayload, NotificationData
  <2> QED BY <1>2, <2>1, NoOlderDataTransitive DEF NoOlder
<1> QED BY <1>1, <1>2
-----------------------------------------------------------------------------
(* The file only grows.                                                    *)

LEMMA FirstRowIsFirst ==
    ASSUME NEW rows \in Seq(Row), NEW u, \E i \in DOMAIN rows : rows[i].user = u
    PROVE  /\ FirstRow(rows, u) \in DOMAIN rows
           /\ rows[FirstRow(rows, u)].user = u
           /\ \A j \in DOMAIN rows : rows[j].user = u => FirstRow(rows, u) <= j
<1> DEFINE S == {i \in DOMAIN rows : rows[i].user = u}
<1>1. Len(rows) \in Nat /\ DOMAIN rows = 1 .. Len(rows)
  BY LenProperties
<1>2. S \in SUBSET Nat
  BY <1>1
<1>3. S # {}
  OBVIOUS
<1>4. PICK i \in S : \A j \in S : i <= j
  BY <1>2, <1>3, Least
<1>5. \E k \in DOMAIN rows :
         /\ rows[k].user = u
         /\ \A j \in DOMAIN rows : rows[j].user = u => k <= j
  BY <1>4
<1> QED
  BY <1>5 DEF FirstRow

\* Rows that keep their users, and more rows after them, change no first row.
LEMMA FirstRowStays ==
    ASSUME NEW rows \in Seq(Row), NEW more \in Seq(Row), Len(rows) <= Len(more),
           \A i \in DOMAIN rows : more[i].user = rows[i].user,
           NEW u, \E i \in DOMAIN rows : rows[i].user = u
    PROVE  FirstRow(more, u) = FirstRow(rows, u)
<1> DEFINE f == FirstRow(rows, u)
           g == FirstRow(more, u)
<1>1. /\ Len(rows) \in Nat /\ DOMAIN rows = 1 .. Len(rows)
      /\ Len(more) \in Nat /\ DOMAIN more = 1 .. Len(more)
  BY LenProperties
<1>2. /\ f \in DOMAIN rows /\ rows[f].user = u
      /\ \A j \in DOMAIN rows : rows[j].user = u => f <= j
  BY FirstRowIsFirst
<1>3. \A i \in DOMAIN rows : i \in DOMAIN more
  BY <1>1
<1>4. /\ g \in DOMAIN more /\ more[g].user = u
      /\ \A j \in DOMAIN more : more[j].user = u => g <= j
  BY <1>3, FirstRowIsFirst
<1> HIDE DEF f, g
<1>5. g <= f
  BY <1>2, <1>3, <1>4
<1>6. g \in DOMAIN rows
  BY <1>1, <1>2, <1>4, <1>5
<1>7. f <= g
  BY <1>2, <1>4, <1>6
<1>8. f \in Int /\ g \in Int
  BY <1>1, <1>2, <1>4
<1> QED
  BY <1>5, <1>7, <1>8 DEF f, g

LEMMA GrownFile ==
    ASSUME NEW rows \in Seq(Row), NEW more \in Seq(Row), Len(rows) <= Len(more),
           \A i \in DOMAIN rows :
              more[i].user = rows[i].user /\ rows[i].followers \subseteq more[i].followers
    PROVE  NoOlderProfile(ReadUsers(more), ReadUsers(rows))
<1> SUFFICES ASSUME NEW u \in DOMAIN ReadUsers(rows)
             PROVE  /\ u \in DOMAIN ReadUsers(more)
                    /\ ReadUsers(rows)[u].m_followers \subseteq ReadUsers(more)[u].m_followers
  BY DEF NoOlderProfile
<1>1. PICK i \in DOMAIN rows : rows[i].user = u
  BY DEF ReadUsers
<1>2. DOMAIN rows \subseteq DOMAIN more
  <2>1. /\ Len(rows) \in Nat /\ DOMAIN rows = 1 .. Len(rows)
        /\ Len(more) \in Nat /\ DOMAIN more = 1 .. Len(more)
    BY LenProperties
  <2> QED BY <2>1
<1>3. u \in {more[j].user : j \in DOMAIN more}
  BY <1>1, <1>2
<1>4. FirstRow(more, u) = FirstRow(rows, u) /\ FirstRow(rows, u) \in DOMAIN rows
  BY <1>1, FirstRowStays, FirstRowIsFirst
<1>5. /\ ReadUsers(rows)[u].m_followers = rows[FirstRow(rows, u)].followers \ {u}
      /\ ReadUsers(more)[u].m_followers = more[FirstRow(more, u)].followers \ {u}
  BY <1>1, <1>3 DEF ReadUsers
<1> QED
  BY <1>3, <1>4, <1>5 DEF ReadUsers
-----------------------------------------------------------------------------
(* What the profile operations do to what is saved and sent.               *)

LEMMA RemovedIsList ==
    ASSUME NEW q \in Seq(Thread), NEW t
    PROVE  RemoveSession(q, t) \in Seq(Thread)
<1>1. CASE q = <<>>
  BY <1>1 DEF RemoveSession
<1>2. CASE q # <<>> /\ q[1] = t
  BY <1>2, HeadTailProperties DEF RemoveSession
<1>3. CASE q # <<>> /\ q[1] # t /\ q[Len(q)] = t
  <2>1. Len(q) \in Nat /\ \A i \in 1 .. Len(q) - 1 : q[i] \in Thread
    BY LenProperties, ElementOfSeq
  <2>2. SubSeq(q, 1, Len(q) - 1) \in Seq(Thread)
    BY <2>1, SubSeqProperties
  <2> QED BY <1>3, <2>2 DEF RemoveSession
<1>4. CASE q # <<>> /\ q[1] # t /\ q[Len(q)] # t
  BY <1>4 DEF RemoveSession
<1> QED BY <1>1, <1>2, <1>3, <1>4

LEMMA SnapshotIsProfile ==
    ASSUME NEW users, IsProfile(users)
    PROVE  /\ IsProfile(Snapshot(users))
           /\ NoOlderProfile(users, Snapshot(users))
<1>1. DOMAIN users \subseteq Username /\ users \in [DOMAIN users -> User]
  BY DEF IsProfile
<1>2. \A u \in DOMAIN users : [users[u] EXCEPT !.m_sessions = <<>>] \in User
  BY <1>1, EmptySeq DEF User
<1>3. \A u \in DOMAIN users :
         [users[u] EXCEPT !.m_sessions = <<>>].m_followers = users[u].m_followers
  BY <1>1 DEF User
<1> QED
  BY <1>1, <1>2, <1>3 DEF Snapshot, IsProfile, NoOlderProfile

\* A user keeps his number, and so his place in the snapshots.
LEMMA SnapshotGrows ==
    ASSUME NEW old, NEW new, IsProfile(old), IsProfile(new), NoOlderProfile(new, old),
           \A u \in DOMAIN old : new[u].m_id = old[u].m_id
    PROVE  NoOlderProfile(Snapshot(new), Snapshot(old))
<1> SUFFICES ASSUME NEW u \in DOMAIN Snapshot(old)
             PROVE  /\ u \in DOMAIN Snapshot(new)
                    /\ Snapshot(old)[u].m_followers \subseteq Snapshot(new)[u].m_followers
  BY DEF NoOlderProfile
<1>1. u \in DOMAIN old /\ old[u].m_id > 0 /\ u \in DOMAIN new /\ new[u].m_id > 0
  BY DEF Snapshot, NoOlderProfile
<1>2. old[u] \in User /\ new[u] \in User /\ old[u].m_followers \subseteq new[u].m_followers
  BY <1>1 DEF IsProfile, NoOlderProfile
<1>3. /\ Snapshot(old)[u] = [old[u] EXCEPT !.m_sessions = <<>>]
      /\ Snapshot(new)[u] = [new[u] EXCEPT !.m_sessions = <<>>]
  BY <1>1 DEF Snapshot
<1>4. /\ Snapshot(old)[u].m_followers = old[u].m_followers
      /\ Snapshot(new)[u].m_followers = new[u].m_followers
  BY <1>2, <1>3 DEF User
<1> QED
  BY <1>1, <1>2, <1>4 DEF Snapshot

\* Sessions are not in it.
LEMMA SnapshotHasNoSessions ==
    ASSUME NEW old, NEW new, IsProfile(old), IsProfile(new), DOMAIN new = DOMAIN old,
           \A u \in DOMAIN old : new[u].m_id = old[u].m_id /\
                                 new[u].m_followers = old[u].m_followers
    PROVE  Snapshot(new) = Snapshot(old)
<1>1. ASSUME NEW u \in DOMAIN old
      PROVE  [new[u] EXCEPT !.m_sessions = <<>>] = [old[u] EXCEPT !.m_sessions = <<>>]
  <2>1. old[u] \in User /\ new[u] \in User
    BY DEF IsProfile
  <2> QED BY <2>1 DEF User
<1>2. {v \in DOMAIN new : new[v].m_id > 0} = {v \in DOMAIN old : old[v].m_id > 0}
  OBVIOUS
<1> QED
  BY <1>1, <1>2 DEF Snapshot

\* What an operation of the ProfileManager may do: the file and memory grow, the
\* file covers memory if it did, and the users there were keep their numbers.
Grown ==
    /\ ProfileTypeOK'
    /\ NoOlderProfile(ReadUsers(usersDb'), ReadUsers(usersDb))
    /\ FileCoversMemory => FileCoversMemory'
    /\ NoOlderProfile(Snapshot(m_users'), Snapshot(m_users))

LEMMA SessionEffect ==
    ASSUME ProfileTypeOK, NEW u \in DOMAIN m_users, NEW s \in Seq(Thread),
           m_users' = [m_users EXCEPT ![u].m_sessions = s], usersDb' = usersDb
    PROVE  Grown /\ Snapshot(m_users') = Snapshot(m_users)
<1>1. IsProfile(m_users) /\ usersDb \in Seq(Row)
  BY DEF ProfileTypeOK, IsProfile
<1>2. \A v \in DOMAIN m_users : m_users[v] \in User
  BY <1>1 DEF IsProfile
<1>3. m_users' = [m_users EXCEPT ![u] = [m_users[u] EXCEPT !.m_sessions = s]]
  OBVIOUS
<1>4. /\ [m_users[u] EXCEPT !.m_sessions = s] \in User
      /\ [m_users[u] EXCEPT !.m_sessions = s].m_id = m_users[u].m_id
      /\ [m_users[u] EXCEPT !.m_sessions = s].m_followers = m_users[u].m_followers
  BY <1>2 DEF User
<1>5. /\ DOMAIN m_users' = DOMAIN m_users
      /\ \A v \in DOMAIN m_users :
           /\ m_users'[v] \in User
           /\ m_users'[v].m_id = m_users[v].m_id
           /\ m_users'[v].m_followers = m_users[v].m_followers
      /\ m_users' \in [DOMAIN m_users -> User]
  BY <1>1, <1>2, <1>3, <1>4 DEF IsProfile
<1>6. ProfileTypeOK' /\ IsProfile(m_users')
  BY <1>1, <1>5 DEF ProfileTypeOK, IsProfile
<1>7. NoOlderProfile(m_users, m_users')
  BY <1>5 DEF NoOlderProfile
<1>8. FileCoversMemory => FileCoversMemory'
  <2> SUFFICES ASSUME NoOlderProfile(ReadUsers(usersDb), m_users)
               PROVE  NoOlderProfile(ReadUsers(usersDb), m_users')
    BY DEF FileCoversMemory, FileCovers
  <2> QED BY <1>7, NoOlderProfileTransitive
<1>9. Snapshot(m_users') = Snapshot(m_users)
  BY <1>1, <1>5, <1>6, SnapshotHasNoSessions
<1>10. /\ NoOlderProfile(ReadUsers(usersDb'), ReadUsers(usersDb))
       /\ NoOlderProfile(Snapshot(m_users'), Snapshot(m_users))
  BY <1>9 DEF NoOlderProfile
<1> QED BY <1>6, <1>8, <1>9, <1>10 DEF Grown

LEMMA NewUserEffect ==
    ASSUME ProfileTypeOK, NEW u \in Username, u \notin DOMAIN m_users, NEW t \in Thread,
           StartSession(u, t)
    PROVE  Grown
<1> DEFINE new == [m_id |-> Cardinality(DOMAIN m_users), m_followers |-> {},
                   m_sessions |-> <<t>>]
           row == [user |-> u, followers |-> {}]
<1>1. IsProfile(m_users) /\ usersDb \in Seq(Row)
  BY DEF ProfileTypeOK, IsProfile
<1>2. /\ m_users' = [v \in DOMAIN m_users \cup {u} |-> IF v = u THEN new ELSE m_users[v]]
      /\ usersDb' = Append(usersDb, row)
  BY DEF StartSession, SaveNewUser
<1>3. Cardinality(DOMAIN m_users) \in Nat
  BY <1>1, UsernamesAreFinite, FS_Subset, FS_CardinalityType DEF IsProfile
<1>4. new \in User /\ new.m_followers = {} /\ row \in Row /\ row.user = u /\ row.followers = {}
  BY <1>3 DEF User, Row
<1> HIDE DEF new, row
<1>5. /\ DOMAIN m_users' = DOMAIN m_users \cup {u} /\ m_users'[u] = new
      /\ \A v \in DOMAIN m_users : m_users'[v] = m_users[v]
      /\ IsProfile(m_users')
  BY <1>1, <1>2, <1>4 DEF IsProfile
<1>6. /\ usersDb' \in Seq(Row) /\ Len(usersDb') = Len(usersDb) + 1 /\ Len(usersDb) \in Nat
      /\ DOMAIN usersDb = 1 .. Len(usersDb) /\ DOMAIN usersDb' = 1 .. Len(usersDb) + 1
      /\ \A i \in DOMAIN usersDb : usersDb'[i] = usersDb[i]
      /\ usersDb'[Len(usersDb) + 1] = row
  <2>1. /\ usersDb' \in Seq(Row) /\ Len(usersDb') = Len(usersDb) + 1
        /\ \A i \in 1 .. Len(usersDb) : usersDb'[i] = usersDb[i]
        /\ usersDb'[Len(usersDb) + 1] = row
    BY <1>1, <1>2, <1>4, AppendProperties
  <2> QED BY <1>1, <2>1, LenProperties
<1>7. ProfileTypeOK'
  BY <1>5, <1>6 DEF ProfileTypeOK, IsProfile
<1>8. NoOlderProfile(ReadUsers(usersDb'), ReadUsers(usersDb))
  <2>1. Len(usersDb) <= Len(usersDb')
    BY <1>6
  <2> QED BY <1>1, <1>6, <2>1, GrownFile
<1>9. ASSUME FileCoversMemory
      PROVE  FileCoversMemory'
  <2>1. NoOlderProfile(ReadUsers(usersDb'), m_users)
    BY <1>8, <1>9, NoOlderProfileTransitive DEF FileCoversMemory, FileCovers
  <2>2. u \in DOMAIN ReadUsers(usersDb')
    <3>1. Len(usersDb) + 1 \in DOMAIN usersDb'
      BY <1>6
    <3> QED BY <3>1, <1>4, <1>6 DEF ReadUsers
  <2>3. NoOlderProfile(ReadUsers(usersDb'), m_users')
    BY <1>4, <1>5, <2>1, <2>2 DEF NoOlderProfile
  <2> QED BY <2>3 DEF FileCoversMemory, FileCovers
<1>10. NoOlderProfile(m_users', m_users) /\ \A v \in DOMAIN m_users : m_users'[v].m_id = m_users[v].m_id
  BY <1>5 DEF NoOlderProfile
<1>11. NoOlderProfile(Snapshot(m_users'), Snapshot(m_users))
  BY <1>1, <1>5, <1>10, SnapshotGrows
<1> QED BY <1>7, <1>8, <1>9, <1>11 DEF Grown

LEMMA FollowEffect ==
    ASSUME ProfileTypeOK, NEW f \in Username, NEW u \in Username, Follow(f, u)
    PROVE  Grown
<1>1. /\ IsProfile(m_users) /\ usersDb \in Seq(Row)
      /\ u \in DOMAIN m_users /\ f # u
      /\ m_users' = [m_users EXCEPT ![u].m_followers = @ \cup {f}]
  BY DEF ProfileTypeOK, IsProfile, Follow, CanFollow
<1>2. \A v \in DOMAIN m_users : m_users[v] \in User
  BY <1>1 DEF IsProfile
<1>3. /\ DOMAIN m_users' = DOMAIN m_users
      /\ m_users'[u].m_followers = m_users[u].m_followers \cup {f}
      /\ \A v \in DOMAIN m_users : m_users'[v] \in User /\ m_users'[v].m_id = m_users[v].m_id
      /\ \A v \in DOMAIN m_users : v # u => m_users'[v] = m_users[v]
      /\ m_users' \in [DOMAIN m_users -> User]
  BY <1>1, <1>2 DEF IsProfile, User
<1>4. /\ Len(usersDb) \in Nat /\ DOMAIN usersDb = 1 .. Len(usersDb)
      /\ \A i \in DOMAIN usersDb : usersDb[i] \in Row
  BY <1>1, LenProperties, ElementOfSeq
<1>5. /\ DOMAIN usersDb' = DOMAIN usersDb
      /\ usersDb' = [i \in DOMAIN usersDb |-> usersDb'[i]]
      /\ \A i \in DOMAIN usersDb :
           /\ usersDb'[i].user = usersDb[i].user
           /\ usersDb'[i].followers = IF usersDb[i].user = u
                                      THEN usersDb[i].followers \cup {f}
                                      ELSE usersDb[i].followers
           /\ usersDb'[i] \in Row
  BY <1>4 DEF Follow, SaveNewFollower, Row
<1>6. usersDb' \in Seq(Row) /\ Len(usersDb) <= Len(usersDb')
  <2>1. usersDb' \in [1 .. Len(usersDb) -> Row]
    BY <1>4, <1>5
  <2>2. usersDb' \in Seq(Row)
    BY <1>4, <2>1, SeqDef
  <2>3. Len(usersDb') = Len(usersDb)
    BY <1>4, <1>5, <2>2, LenProperties
  <2> QED BY <1>4, <2>2, <2>3
<1>7. ProfileTypeOK' /\ IsProfile(m_users')
  BY <1>1, <1>3, <1>6 DEF ProfileTypeOK, IsProfile
<1>8. NoOlderProfile(ReadUsers(usersDb'), ReadUsers(usersDb))
  BY <1>1, <1>5, <1>6, GrownFile
<1>9. ASSUME FileCoversMemory
      PROVE  FileCoversMemory'
  <2>1. NoOlderProfile(ReadUsers(usersDb'), m_users)
    BY <1>8, <1>9, NoOlderProfileTransitive DEF FileCoversMemory, FileCovers
  <2>2. u \in DOMAIN ReadUsers(usersDb) /\ u \in DOMAIN ReadUsers(usersDb')
    BY <1>1, <1>9, <2>1 DEF FileCoversMemory, FileCovers, NoOlderProfile
  <2>3. PICK i \in DOMAIN usersDb' : usersDb'[i].user = u
    BY <2>2 DEF ReadUsers
  <2>4. /\ FirstRow(usersDb', u) \in DOMAIN usersDb'
        /\ usersDb'[FirstRow(usersDb', u)].user = u
    BY <1>6, <2>3, FirstRowIsFirst
  <2>5. f \in usersDb'[FirstRow(usersDb', u)].followers
    BY <1>5, <2>4
  <2>6. f \in ReadUsers(usersDb')[u].m_followers
    BY <1>1, <2>2, <2>5 DEF ReadUsers
  <2>7. NoOlderProfile(ReadUsers(usersDb'), m_users')
    BY <1>1, <1>3, <2>1, <2>6 DEF NoOlderProfile
  <2> QED BY <2>7 DEF FileCoversMemory, FileCovers
<1>10. NoOlderProfile(m_users', m_users) /\ \A v \in DOMAIN m_users : m_users'[v].m_id = m_users[v].m_id
  <2>1. \A v \in DOMAIN m_users : m_users[v].m_followers \subseteq m_users'[v].m_followers
    BY <1>3
  <2> QED BY <1>3, <2>1 DEF NoOlderProfile
<1>11. NoOlderProfile(Snapshot(m_users'), Snapshot(m_users))
  BY <1>1, <1>7, <1>10, SnapshotGrows
<1> QED BY <1>7, <1>8, <1>9, <1>11 DEF Grown
-----------------------------------------------------------------------------
(* What the notification operations do to what is sent.                    *)

\* What an operation of the NotificationManager may do.
Later ==
    /\ NotificationTypeOK'
    /\ m_nextId <= m_nextId'
    /\ known \subseteq known'

LEMMA NotificationsAreData ==
    ASSUME NotificationTypeOK
    PROVE  Notifications \in NotificationData
BY DEF NotificationTypeOK, Notifications, NotificationData

LEMMA SendEffectOnData ==
    ASSUME NotificationTypeOK, NEW s \in Username, NEW to \in SUBSET Username, Send(s, to)
    PROVE  Later
<1> DEFINE new    == Ref(s, m_nextId)
           stored1 == [id |-> m_nextId, pendingCount |-> StillPending(to)]
<1>1. /\ new \in Pending /\ m_nextId \in Nat \ {0} /\ known \subseteq Username
      /\ m_nextId' = m_nextId + 1
      /\ UNCHANGED <<known, m_subscribersQueue>>
      /\ m_notifications \in [Username -> SUBSET Stored]
      /\ m_pendingQueue \in [Username -> Seq(Pending)]
      /\ m_subscribersQueue \in [Username -> SUBSET Thread]
      /\ m_queue \in [Thread -> Seq(Pending)]
  BY RefIsPending DEF Send, NotificationTypeOK
<1>2. StillPending(to) \in Int
  BY SendCounts
<1>3. m_notifications' \in [Username -> SUBSET Stored]
  <2>1. stored1 \in Stored
    BY <1>1, <1>2 DEF Stored
  <2>2. m_notifications' = [t \in Username |-> m_notifications'[t]]
    BY <1>1 DEF Send
  <2>3. \A t \in Username :
           m_notifications'[t] = IF t = s /\ StillPending(to) > 0
                                 THEN m_notifications[t] \cup {stored1}
                                 ELSE m_notifications[t]
    BY SendEffect
  <2> HIDE DEF stored1
  <2>4. \A t \in Username : m_notifications'[t] \in SUBSET Stored
    BY <1>1, <2>1, <2>3
  <2> QED BY <2>2, <2>4
<1>4. m_pendingQueue' \in [Username -> Seq(Pending)] /\ m_queue' \in [Thread -> Seq(Pending)]
  BY <1>1, AppendProperties DEF Send
<1> QED
  BY <1>1, <1>3, <1>4 DEF Later, NotificationTypeOK

LEMMA SubscribeEffectOnData ==
    ASSUME NotificationTypeOK, NEW u \in Username, NEW c \in Thread, Subscribe(u, c)
    PROVE  Later
<1> DEFINE pending == m_pendingQueue[u]
           found   == Found(pending)
<1>1. /\ m_nextId \in Nat \ {0} /\ known \subseteq Username
      /\ m_nextId' = m_nextId /\ known' = known \cup {u}
      /\ m_notifications \in [Username -> SUBSET Stored]
      /\ m_pendingQueue \in [Username -> Seq(Pending)]
      /\ m_subscribersQueue \in [Username -> SUBSET Thread]
      /\ m_queue \in [Thread -> Seq(Pending)]
      /\ m_subscribersQueue' = [m_subscribersQueue EXCEPT ![u] = @ \cup {c}]
      /\ m_pendingQueue' = [m_pendingQueue EXCEPT ![u] = <<>>]
      /\ m_notifications' = Claim(pending)
  BY DEF Subscribe, NotificationTypeOK
<1>2. pending \in Seq(Pending)
  BY <1>1
<1>3. found \in Seq(Pending)
  BY <1>2, FoundIsQueue
<1>4. m_queue' = [d \in Thread |-> IF d \in m_subscribersQueue'[u]
                                   THEN m_queue[d] \o found ELSE m_queue[d]]
  BY DEF Subscribe
<1> HIDE DEF found
<1>5. m_queue' \in [Thread -> Seq(Pending)]
  BY <1>1, <1>3, <1>4, ConcatProperties
<1>6. m_notifications' \in [Username -> SUBSET Stored]
  <2>1. ASSUME NEW n \in Stored
        PROVE  [n EXCEPT !.pendingCount = @ - 1] \in Stored
    BY DEF Stored
  <2>2. ASSUME NEW s \in Username
        PROVE  Claim(pending)[s] \in SUBSET Stored
    <3> DEFINE claimed == {n \in m_notifications[s] : InList(pending, Ref(s, n.id))}
    <3>1. claimed \in SUBSET Stored /\ m_notifications[s] \in SUBSET Stored
      BY <1>1
    <3>2. Claim(pending)[s] = (m_notifications[s] \ claimed) \cup
            {[n EXCEPT !.pendingCount = @ - 1] : n \in {m \in claimed : m.pendingCount > 1}}
      BY DEF Claim
    <3> HIDE DEF claimed
    <3> QED BY <3>1, <3>2, <2>1
  <2>3. Claim(pending) = [s \in Username |-> Claim(pending)[s]]
    BY DEF Claim
  <2> QED BY <1>1, <2>2, <2>3
<1>7. m_pendingQueue' \in [Username -> Seq(Pending)]
  BY <1>1, EmptySeq
<1>8. m_subscribersQueue' \in [Username -> SUBSET Thread]
  BY <1>1
<1> QED
  BY <1>1, <1>5, <1>6, <1>7, <1>8 DEF Later, NotificationTypeOK

LEMMA UnsubscribeEffectOnData ==
    ASSUME NotificationTypeOK, NEW u \in Username, NEW c \in Thread, Unsubscribe(u, c)
    PROVE  Later
<1>1. m_subscribersQueue' \in [Username -> SUBSET Thread]
  BY DEF Unsubscribe, NotificationTypeOK
<1> QED
  BY <1>1 DEF Later, Unsubscribe, NotificationTypeOK

LEMMA RemoveEffectOnData ==
    ASSUME NotificationTypeOK, NEW c \in Thread, Remove(c)
    PROVE  Later /\ Notifications' = Notifications
<1>1. m_queue' \in [Thread -> Seq(Pending)]
  BY HeadTailProperties DEF Remove, NotificationTypeOK
<1> QED
  BY <1>1 DEF Later, Remove, NotificationTypeOK, Notifications
-----------------------------------------------------------------------------
(* The latest update of a kind.                                            *)

LastOf(q, type, k) ==
    /\ DOMAIN q \subseteq Int
    /\ k \in DOMAIN q
    /\ q[k].type = type
    /\ \A j \in DOMAIN q : q[j].type = type => j <= k

LEMMA LatestIsLast ==
    ASSUME NEW q, NEW type, NEW copy, NEW k, LastOf(q, type, k)
    PROVE  Latest(q, type, copy) = q[k].payload
<1> DEFINE sent == {i \in DOMAIN q : q[i].type = type}
           last == CHOOSE i \in sent : \A j \in sent : j <= i
<1>1. k \in sent /\ \A j \in sent : j <= k
  BY DEF LastOf
<1>2. last \in sent /\ \A j \in sent : j <= last
  BY <1>1
<1>3. sent \subseteq Int
  BY DEF LastOf
<1>4. Latest(q, type, copy) = q[last].payload
  BY <1>1 DEF Latest
<1> HIDE DEF sent, last
<1>5. last = k
  BY <1>1, <1>2, <1>3
<1> QED
  BY <1>4, <1>5

LEMMA LatestOfNone ==
    ASSUME NEW q, NEW type, NEW copy, \A j \in DOMAIN q : q[j].type # type
    PROVE  Latest(q, type, copy) = copy
BY DEF Latest

LEMMA LastOfType ==
    ASSUME NEW q, OfItself(q), NEW type, NEW i \in DOMAIN q, q[i].type = type
    PROVE  \E k \in DOMAIN q : LastOf(q, type, k)
<1> DEFINE S == {j \in DOMAIN q : q[j].type = type}
<1>1. Len(q) \in Nat /\ DOMAIN q = 1 .. Len(q)
  BY AppendedUpdate
<1>2. S \in SUBSET (1 .. Len(q))
  BY <1>1
<1>3. S # {}
  OBVIOUS
<1>4. PICK k \in S : \A j \in S : j <= k
  BY <1>1, <1>2, <1>3, Greatest
<1> QED
  BY <1>1, <1>4 DEF LastOf

LEMMA LatestAppended ==
    ASSUME NEW q, OfItself(q), NEW p, NEW type, NEW copy
    PROVE  Latest(Append(q, p), type, copy) =
              IF p.type = type THEN p.payload ELSE Latest(q, type, copy)
<1> DEFINE a == Append(q, p)
<1>1. /\ Len(q) \in Nat /\ DOMAIN q = 1 .. Len(q) /\ DOMAIN a = 1 .. Len(q) + 1
      /\ \A i \in DOMAIN q : a[i] = q[i]
      /\ a[Len(q) + 1] = p
  BY AppendedUpdate
<1> HIDE DEF a
<1>2. /\ DOMAIN q \subseteq Int /\ DOMAIN a \subseteq Int
      /\ DOMAIN q \subseteq DOMAIN a /\ Len(q) + 1 \in DOMAIN a
      /\ \A i \in DOMAIN a : i <= Len(q) + 1
      /\ \A i \in DOMAIN a : i \in DOMAIN q \/ i = Len(q) + 1
  BY <1>1
<1>3. CASE p.type = type
  <2>1. LastOf(a, type, Len(q) + 1)
    BY <1>1, <1>2, <1>3 DEF LastOf
  <2>2. Latest(a, type, copy) = a[Len(q) + 1].payload
    BY <2>1, LatestIsLast
  <2> QED BY <2>2, <1>1, <1>3 DEF a
<1>4. CASE p.type # type /\ \E i \in DOMAIN q : q[i].type = type
  <2>1. PICK k \in DOMAIN q : LastOf(q, type, k)
    BY <1>4, LastOfType
  <2>2. Latest(q, type, copy) = q[k].payload
    BY <2>1, LatestIsLast
  <2>3. \A j \in DOMAIN a : a[j].type = type => j <= k
    BY <2>1, <1>1, <1>2, <1>4 DEF LastOf
  <2>4. k \in DOMAIN a /\ a[k] = q[k]
    BY <1>1, <1>2
  <2>5. LastOf(a, type, k)
    BY <2>1, <2>3, <2>4, <1>2 DEF LastOf
  <2>6. Latest(a, type, copy) = a[k].payload
    BY <2>5, LatestIsLast
  <2> QED BY <2>2, <2>4, <2>6, <1>4 DEF a
<1>5. CASE p.type # type /\ \A i \in DOMAIN q : q[i].type # type
  <2>1. \A j \in DOMAIN a : a[j].type # type
    BY <1>1, <1>2, <1>5
  <2>2. Latest(a, type, copy) = copy /\ Latest(q, type, copy) = copy
    BY <2>1, <1>5, LatestOfNone
  <2> QED BY <2>2, <1>5 DEF a
<1> QED BY <1>3, <1>4, <1>5

\* What is received is what the copy is from then on: nothing else changes.
LEMMA LatestReceived ==
    ASSUME NEW q, OfItself(q), q # <<>>, NEW type, NEW copy
    PROVE  Latest(Tail(q), type, IF Head(q).type = type THEN Head(q).payload ELSE copy) =
              Latest(q, type, copy)
<1> DEFINE t == Tail(q)
           received == IF q[1].type = type THEN q[1].payload ELSE copy
<1>1. /\ Len(q) \in Nat \ {0} /\ DOMAIN q = 1 .. Len(q) /\ DOMAIN t = 1 .. Len(q) - 1
      /\ \A i \in DOMAIN t : t[i] = q[i + 1]
      /\ Head(q) = q[1] /\ OfItself(t)
  BY ReceivedUpdate
<1> HIDE DEF t
<1>2. /\ DOMAIN q \subseteq Int /\ DOMAIN t \subseteq Int /\ 1 \in DOMAIN q
      /\ \A i \in DOMAIN t : i + 1 \in DOMAIN q
      /\ \A i \in DOMAIN q : i = 1 \/ (i - 1 \in DOMAIN t /\ (i - 1) + 1 = i)
  BY <1>1
<1>3. CASE \E i \in DOMAIN t : t[i].type = type
  <2>1. PICK k \in DOMAIN t : LastOf(t, type, k)
    BY <1>1, <1>3, LastOfType
  <2>2. Latest(t, type, received) = t[k].payload
    BY <2>1, LatestIsLast
  <2>3. k + 1 \in DOMAIN q /\ q[k + 1] = t[k] /\ k \in Int /\ k >= 1
    BY <1>1, <1>2
  <2>4. ASSUME NEW j \in DOMAIN q, q[j].type = type
        PROVE  j <= k + 1
    <3>1. CASE j = 1
      BY <2>3, <3>1
    <3>2. CASE j # 1
      <4>1. j - 1 \in DOMAIN t /\ (j - 1) + 1 = j
        BY <1>2, <3>2
      <4>2. t[j - 1] = q[j]
        BY <1>1, <4>1
      <4>3. j - 1 <= k
        BY <2>1, <2>4, <4>1, <4>2 DEF LastOf
      <4> QED BY <4>3, <2>3, <1>2
    <3> QED BY <3>1, <3>2
  <2>5. LastOf(q, type, k + 1)
    BY <2>1, <2>3, <2>4, <1>2 DEF LastOf
  <2>6. Latest(q, type, copy) = q[k + 1].payload
    BY <2>5, LatestIsLast
  <2> QED BY <2>2, <2>3, <2>6, <1>1 DEF t
<1>4. CASE ~ \E i \in DOMAIN t : t[i].type = type
  <2>1. Latest(t, type, received) = received
    BY <1>4, LatestOfNone
  <2>2. ASSUME NEW j \in DOMAIN q, q[j].type = type
        PROVE  j = 1
    <3>1. CASE j # 1
      <4>1. j - 1 \in DOMAIN t /\ (j - 1) + 1 = j
        BY <1>2, <3>1
      <4> QED BY <4>1, <1>1, <1>4, <2>2
    <3> QED BY <3>1
  <2>3. CASE q[1].type = type
    <3>1. LastOf(q, type, 1)
      BY <2>2, <2>3, <1>2 DEF LastOf
    <3>2. Latest(q, type, copy) = q[1].payload
      BY <3>1, LatestIsLast
    <3> QED BY <2>1, <2>3, <3>2, <1>1 DEF t
  <2>4. CASE q[1].type # type
    <3>1. Latest(q, type, copy) = copy
      BY <2>2, <2>4, LatestOfNone
    <3> QED BY <2>1, <2>4, <3>1, <1>1 DEF t
  <2> QED BY <2>3, <2>4
<1> QED BY <1>3, <1>4
-----------------------------------------------------------------------------
(* The inductive invariant: what all operations of the leader have in common. *)

LEMMA InvTypes ==
    ASSUME ReplicationInv
    PROVE  /\ OfItself(updates)
           /\ \A i \in DOMAIN updates :
                /\ updates[i].type \in UpdateType
                /\ IsPayload(updates[i].type, updates[i].payload)
           /\ \A type \in UpdateType :
                IsPayload(type, PresentOf(type)) /\ IsPayload(type, CopyOf(type))
<1>1. ReplicationTypeOK
  BY DEF ReplicationInv
<1>2. OfItself(updates)
  BY <1>1 DEF ReplicationTypeOK, OfItself
<1>3. ASSUME NEW i \in DOMAIN updates
      PROVE  /\ updates[i].type \in UpdateType
             /\ IsPayload(updates[i].type, updates[i].payload)
  <2>1. IsUpdate(updates[i])
    BY <1>1 DEF ReplicationTypeOK
  <2> QED BY <2>1 DEF IsUpdate, UpdateType, IsPayload
<1>4. IsProfile(Snapshot(m_users)) /\ Notifications \in NotificationData
  <2>1. IsProfile(m_users) /\ NotificationTypeOK
    BY <1>1 DEF ReplicationTypeOK, ProfileTypeOK, IsProfile
  <2> QED BY <2>1, SnapshotIsProfile, NotificationsAreData
<1>5. ASSUME NEW type \in UpdateType
      PROVE  IsPayload(type, PresentOf(type)) /\ IsPayload(type, CopyOf(type))
  BY <1>1, <1>4 DEF ReplicationTypeOK, IsPayload, PresentOf, CopyOf
<1> QED
  BY <1>2, <1>3, <1>5

LEMMA NothingOfProfilesChanges == ProfileTypeOK /\ UNCHANGED profileVars => Grown
<1> SUFFICES ASSUME ProfileTypeOK, UNCHANGED profileVars
             PROVE  Grown
  OBVIOUS
<1>1. m_users' = m_users /\ usersDb' = usersDb
  BY DEF profileVars
<1>2. ProfileTypeOK'
  BY <1>1 DEF ProfileTypeOK
<1>3. FileCoversMemory => FileCoversMemory'
  BY <1>1 DEF FileCoversMemory, FileCovers
<1>4. /\ NoOlderProfile(ReadUsers(usersDb'), ReadUsers(usersDb))
      /\ NoOlderProfile(Snapshot(m_users'), Snapshot(m_users))
  BY <1>1 DEF NoOlderProfile
<1> QED BY <1>2, <1>3, <1>4 DEF Grown

LEMMA NothingOfNotificationsChanges ==
    NotificationTypeOK /\ UNCHANGED notificationVars => Later
<1> SUFFICES ASSUME NotificationTypeOK, UNCHANGED notificationVars
             PROVE  Later
  OBVIOUS
<1>1. UNCHANGED <<known, m_nextId, m_notifications, m_pendingQueue, m_subscribersQueue, m_queue>>
  BY DEF notificationVars
<1>2. NotificationTypeOK'
  BY <1>1 DEF NotificationTypeOK
<1>3. m_nextId \in Nat
  BY DEF NotificationTypeOK
<1> QED BY <1>1, <1>2, <1>3 DEF Later

\* Both managers, as a leader that is up changes them.
LEMMA LeaderGetsNewer ==
    ASSUME ReplicationInv, leader = "up", UNCHANGED <<profileCopy, notificationCopy>>,
           Grown, Later
    PROVE  \A type \in UpdateType :
              /\ CopyOf(type)' = CopyOf(type)
              /\ IsPayload(type, PresentOf(type)')
              /\ NoOlder(PresentOf(type)', CopyOf(type), type)
              /\ \A i \in DOMAIN updates : updates[i].type = type =>
                    NoOlder(PresentOf(type)', updates[i].payload, type)
<1> SUFFICES ASSUME NEW type \in UpdateType
             PROVE  /\ CopyOf(type)' = CopyOf(type)
                    /\ IsPayload(type, PresentOf(type)')
                    /\ NoOlder(PresentOf(type)', CopyOf(type), type)
                    /\ \A i \in DOMAIN updates : updates[i].type = type =>
                          NoOlder(PresentOf(type)', updates[i].payload, type)
  OBVIOUS
<1>1. CopyOf(type)' = CopyOf(type)
  BY DEF CopyOf
<1>2. IsPayload(type, PresentOf(type)')
  <2>1. IsProfile(m_users') /\ NotificationTypeOK'
    BY DEF Grown, Later, ProfileTypeOK, IsProfile
  <2>2. IsProfile(Snapshot(m_users'))
    BY <2>1, SnapshotIsProfile
  <2>3. Notifications' \in NotificationData
    BY <2>1 DEF NotificationTypeOK, Notifications, NotificationData
  <2> QED BY <2>2, <2>3 DEF IsPayload, PresentOf
<1>3. NoOlder(PresentOf(type)', PresentOf(type), type)
  <2>1. NoOlderProfile(Snapshot(m_users'), Snapshot(m_users))
    BY DEF Grown
  <2>2. NoOlderData(Notifications', Notifications)
    BY DEF Later, NoOlderData, Notifications
  <2> QED BY <2>1, <2>2 DEF NoOlder, PresentOf
<1>4. IsPayload(type, PresentOf(type)) /\ IsPayload(type, CopyOf(type))
  BY InvTypes
<1>5. NoOlder(PresentOf(type), CopyOf(type), type)
  BY DEF ReplicationInv, UpdatesGetNewer
<1>6. PICK new : new = PresentOf(type)'
  OBVIOUS
<1>7. NoOlder(new, CopyOf(type), type)
  BY <1>2, <1>3, <1>4, <1>5, <1>6, NoOlderTransitive
<1>8. ASSUME NEW i \in DOMAIN updates, updates[i].type = type
      PROVE  NoOlder(new, updates[i].payload, type)
  <2>1. IsPayload(type, updates[i].payload)
    BY <1>8, InvTypes
  <2>2. NoOlder(PresentOf(type), updates[i].payload, type)
    BY <1>8 DEF ReplicationInv, UpdatesGetNewer
  <2> QED BY <2>1, <2>2, <1>2, <1>3, <1>4, <1>6, NoOlderTransitive
<1> QED
  BY <1>1, <1>2, <1>6, <1>7, <1>8

\* What does not depend on what is sent.
LEMMA LeaderKeeps ==
    ASSUME ReplicationInv, leader = "up", UNCHANGED <<backupVars, leader, crashes>>,
           Grown, Later
    PROVE  /\ ProfileTypeOK' /\ NotificationTypeOK'
           /\ leader' \in {"up", "down"} /\ handshake' \in HandshakePhase
           /\ stored' \in NotificationData /\ IsProfile(profileCopy')
           /\ notificationCopy' \in NotificationData
           /\ crashes' \in 0 .. MaxCrashes
           /\ FileCoversMemory'
           /\ FileCovers(profileCopy)'
           /\ \A users : FileCovers(users) => NoOlderProfile(ReadUsers(usersDb'), users)
           /\ handshake \in {"none", "profile sent", "half read"} =>
                 notificationCopy' = NoNotifications /\ NoOlderData(Notifications, stored)'
<1>1. ReplicationTypeOK /\ ProfileTypeOK' /\ NotificationTypeOK'
  BY DEF ReplicationInv, Grown, Later
<1>2. FileCoversMemory'
  BY DEF ReplicationInv, Grown
<1>3. \A users : FileCovers(users) => NoOlderProfile(ReadUsers(usersDb'), users)
  BY NoOlderProfileTransitive DEF FileCovers, Grown
<1>4. FileCovers(profileCopy)'
  <2>1. FileCovers(profileCopy) /\ profileCopy' = profileCopy
    BY DEF ReplicationInv, FileCoversCopies, backupVars
  <2> QED BY <2>1, <1>3 DEF FileCovers
<1>5. ASSUME handshake \in {"none", "profile sent", "half read"}
      PROVE  notificationCopy' = NoNotifications /\ NoOlderData(Notifications, stored)'
  <2>1. notificationCopy = NoNotifications /\ NoOlderData(Notifications, stored)
    BY <1>5 DEF ReplicationInv, ReadBeforeSent
  <2>2. stored' = stored /\ notificationCopy' = notificationCopy /\ stored \in NotificationData
    BY <1>1 DEF backupVars, ReplicationTypeOK
  <2>3. /\ stored.m_nextId <= m_nextId /\ stored.known \subseteq known
        /\ m_nextId <= m_nextId' /\ known \subseteq known'
    BY <2>1 DEF NoOlderData, Notifications, Later
  <2>4. stored.m_nextId \in Nat /\ m_nextId \in Nat /\ m_nextId' \in Nat
    BY <1>1, <2>2 DEF NotificationData, ReplicationTypeOK, NotificationTypeOK
  <2>5. stored.m_nextId <= m_nextId' /\ stored.known \subseteq known'
    BY <2>3, <2>4
  <2> QED BY <2>1, <2>2, <2>5 DEF NoOlderData, Notifications
<1> QED
  BY <1>1, <1>2, <1>3, <1>4, <1>5 DEF ReplicationTypeOK, backupVars

\* Nothing is sent: there is nobody to send to, or nothing to send.
LEMMA QuietStep ==
    ASSUME ReplicationInv, leader = "up", UNCHANGED <<backupVars, leader, crashes>>,
           Grown, Later, UNCHANGED <<updates, sentSince>>,
           \/ ~IsMember
           \/ Snapshot(m_users') = Snapshot(m_users) /\ Notifications' = Notifications
    PROVE  ReplicationInv'
<1>1. /\ UNCHANGED <<handshake, stored, profileCopy, notificationCopy>>
      /\ UNCHANGED <<updates, sentSince, leader, crashes>>
  BY DEF backupVars
<1>2. ReplicationTypeOK'
  <2>1. ReplicationTypeOK
    BY DEF ReplicationInv
  <2>2. /\ ProfileTypeOK' /\ NotificationTypeOK'
        /\ leader' \in {"up", "down"} /\ handshake' \in HandshakePhase
        /\ stored' \in NotificationData /\ IsProfile(profileCopy')
        /\ notificationCopy' \in NotificationData
        /\ crashes' \in 0 .. MaxCrashes
    BY LeaderKeeps
  <2> QED BY <1>1, <2>1, <2>2 DEF ReplicationTypeOK
<1>3. EveryChangeIsSent'
  <2> SUFFICES ASSUME NEW type \in sentSince
               PROVE  Latest(updates, type, CopyOf(type)') = PresentOf(type)'
    BY <1>1 DEF EveryChangeIsSent
  <2>1. sentSince \subseteq UpdateType /\ (sentSince # {} => IsMember)
    BY DEF ReplicationInv, ReplicationTypeOK, OnlyMembersAreSent
  <2>2. Latest(updates, type, CopyOf(type)) = PresentOf(type)
    BY DEF ReplicationInv, EveryChangeIsSent
  <2>3. CopyOf(type)' = CopyOf(type) /\ PresentOf(type)' = PresentOf(type)
    BY <1>1, <2>1 DEF CopyOf, PresentOf
  <2> QED BY <2>2, <2>3
<1>4. FileCoversMemory'
  BY LeaderKeeps
<1>5. OnlyMembersAreSent'
  BY <1>1 DEF ReplicationInv, OnlyMembersAreSent, IsMember
<1>6. FileCoversCopies'
  <2>1. /\ FileCovers(profileCopy)'
        /\ \A users : FileCovers(users) => NoOlderProfile(ReadUsers(usersDb'), users)
    BY LeaderKeeps
  <2> QED BY <1>1, <2>1 DEF ReplicationInv, FileCoversCopies, FileCovers
<1>7. UpdatesGetNewer'
  <2>1. \A type \in UpdateType :
           /\ CopyOf(type)' = CopyOf(type)
           /\ NoOlder(PresentOf(type)', CopyOf(type), type)
           /\ \A i \in DOMAIN updates : updates[i].type = type =>
                 NoOlder(PresentOf(type)', updates[i].payload, type)
    BY <1>1, LeaderGetsNewer
  <2> QED BY <1>1, <2>1 DEF ReplicationInv, UpdatesGetNewer
<1>8. ReadBeforeSent'
  <2>1. handshake \in {"none", "profile sent", "half read"} =>
           notificationCopy' = NoNotifications /\ NoOlderData(Notifications, stored)'
    BY LeaderKeeps
  <2> QED BY <1>1, <2>1 DEF ReplicationInv, ReadBeforeSent
<1> QED
  BY <1>2, <1>3, <1>4, <1>5, <1>6, <1>7, <1>8 DEF ReplicationInv

\* A packet put behind the others, no older than they are.
LEMMA AddedUpdate ==
    ASSUME ReplicationInv, leader = "up", leader' = leader,
           UNCHANGED <<profileCopy, notificationCopy>>, Grown, Later,
           NEW p, p.type \in UpdateType, IsPayload(p.type, p.payload),
           updates' = Append(updates, p),
           NoOlder(p.payload, CopyOf(p.type), p.type),
           NoOlder(PresentOf(p.type)', p.payload, p.type),
           \A i \in DOMAIN updates : updates[i].type = p.type =>
              NoOlder(p.payload, updates[i].payload, p.type)
    PROVE  /\ updates' \in Seq({updates'[i] : i \in DOMAIN updates'})
           /\ \A i \in DOMAIN updates' : IsUpdate(updates'[i])
           /\ UpdatesGetNewer'
<1>1. /\ OfItself(updates) /\ OfItself(updates')
      /\ Len(updates) \in Nat /\ DOMAIN updates = 1 .. Len(updates)
      /\ DOMAIN updates' = 1 .. Len(updates) + 1
      /\ \A i \in DOMAIN updates : updates'[i] = updates[i]
      /\ updates'[Len(updates) + 1] = p
  BY InvTypes, AppendedUpdate
<1>2. \A i \in DOMAIN updates' : i \in DOMAIN updates \/ i = Len(updates) + 1
  BY <1>1
<1>3. IsUpdate(p)
  BY DEF IsPayload, IsUpdate, UpdateType
<1>4. \A i \in DOMAIN updates' : IsUpdate(updates'[i])
  BY <1>1, <1>2, <1>3 DEF ReplicationInv, ReplicationTypeOK
<1>5. UpdatesGetNewer'
  <2>1. \A type \in UpdateType :
           /\ CopyOf(type)' = CopyOf(type)
           /\ NoOlder(PresentOf(type)', CopyOf(type), type)
           /\ \A i \in DOMAIN updates : updates[i].type = type =>
                 NoOlder(PresentOf(type)', updates[i].payload, type)
    BY LeaderGetsNewer
  <2>2. ASSUME NEW type \in UpdateType, NEW i \in DOMAIN updates', updates'[i].type = type
        PROVE  /\ NoOlder(updates'[i].payload, CopyOf(type), type)
               /\ NoOlder(PresentOf(type)', updates'[i].payload, type)
    <3>1. CASE i \in DOMAIN updates
      BY <3>1, <1>1, <2>1, <2>2 DEF ReplicationInv, UpdatesGetNewer
    <3>2. CASE i = Len(updates) + 1
      BY <3>2, <1>1, <2>2
    <3> QED BY <3>1, <3>2, <1>2
  <2>3. ASSUME NEW type \in UpdateType, NEW i \in DOMAIN updates', updates'[i].type = type,
               NEW j \in DOMAIN updates', i < j, updates'[j].type = type
        PROVE  NoOlder(updates'[j].payload, updates'[i].payload, type)
    <3>1. i \in DOMAIN updates
      BY <1>1, <2>3
    <3>2. CASE j \in DOMAIN updates
      BY <3>1, <3>2, <1>1, <2>3 DEF ReplicationInv, UpdatesGetNewer
    <3>3. CASE j = Len(updates) + 1
      BY <3>1, <3>3, <1>1, <2>3
    <3> QED BY <3>2, <3>3, <1>2
  <2> QED BY <2>1, <2>2, <2>3 DEF UpdatesGetNewer
<1> QED
  BY <1>1, <1>4, <1>5 DEF OfItself

\* A manager sends what it has become.
LEMMA SendingStep ==
    ASSUME ReplicationInv, leader = "up", UNCHANGED <<backupVars, leader, crashes>>,
           Grown, Later, IsMember, NEW type \in UpdateType,
           updates' = Append(updates, [type |-> type, payload |-> PresentOf(type)']),
           sentSince' = sentSince \cup {type},
           \A other \in UpdateType : other # type => PresentOf(other)' = PresentOf(other)
    PROVE  ReplicationInv'
<1>1. /\ UNCHANGED <<handshake, stored, profileCopy, notificationCopy>>
      /\ UNCHANGED <<leader, crashes>>
  BY DEF backupVars
<1>2. PICK p : p = [type |-> type, payload |-> PresentOf(type)']
  OBVIOUS
<1>3. p.type = type /\ p.payload = PresentOf(type)' /\ updates' = Append(updates, p)
  BY <1>2
<1>4. \A kind \in UpdateType :
         /\ CopyOf(kind)' = CopyOf(kind)
         /\ IsPayload(kind, PresentOf(kind)')
         /\ NoOlder(PresentOf(kind)', CopyOf(kind), kind)
         /\ \A i \in DOMAIN updates : updates[i].type = kind =>
               NoOlder(PresentOf(kind)', updates[i].payload, kind)
  BY <1>1, LeaderGetsNewer
<1>5. /\ p.type \in UpdateType /\ IsPayload(p.type, p.payload)
      /\ NoOlder(p.payload, CopyOf(p.type), p.type)
      /\ NoOlder(PresentOf(p.type)', p.payload, p.type)
      /\ \A i \in DOMAIN updates : updates[i].type = p.type =>
            NoOlder(p.payload, updates[i].payload, p.type)
  BY <1>3, <1>4, NoOlderReflexive
<1>6. /\ updates' \in Seq({updates'[i] : i \in DOMAIN updates'})
      /\ \A i \in DOMAIN updates' : IsUpdate(updates'[i])
      /\ UpdatesGetNewer'
  BY <1>1, <1>3, <1>5, AddedUpdate
<1>7. ReplicationTypeOK'
  <2>1. sentSince' \subseteq UpdateType
    BY DEF ReplicationInv, ReplicationTypeOK
  <2>2. /\ ProfileTypeOK' /\ NotificationTypeOK'
        /\ leader' \in {"up", "down"} /\ handshake' \in HandshakePhase
        /\ stored' \in NotificationData /\ IsProfile(profileCopy')
        /\ notificationCopy' \in NotificationData
        /\ crashes' \in 0 .. MaxCrashes
    BY LeaderKeeps
  <2> QED BY <1>6, <2>1, <2>2 DEF ReplicationTypeOK
<1>8. EveryChangeIsSent'
  <2> SUFFICES ASSUME NEW kind \in sentSince'
               PROVE  Latest(updates', kind, CopyOf(kind)') = PresentOf(kind)'
    BY <1>1 DEF EveryChangeIsSent
  <2>1. OfItself(updates) /\ kind \in UpdateType
    BY InvTypes DEF ReplicationInv, ReplicationTypeOK
  <2>2. CopyOf(kind)' = CopyOf(kind)
    BY <1>4, <2>1
  <2>3. Latest(updates', kind, CopyOf(kind)) =
           IF p.type = kind THEN p.payload ELSE Latest(updates, kind, CopyOf(kind))
    BY <1>3, <2>1, LatestAppended
  <2>4. CASE kind = type
    BY <2>4, <2>2, <2>3, <1>3
  <2>5. CASE kind # type
    <3>1. kind \in sentSince
      BY <2>5
    <3>2. Latest(updates, kind, CopyOf(kind)) = PresentOf(kind)
      BY <3>1 DEF ReplicationInv, EveryChangeIsSent
    <3>3. PresentOf(kind)' = PresentOf(kind)
      BY <2>1, <2>5
    <3> QED BY <2>5, <2>2, <2>3, <3>2, <3>3, <1>3
  <2> QED BY <2>4, <2>5
<1>9. FileCoversMemory'
  BY LeaderKeeps
<1>10. OnlyMembersAreSent'
  BY <1>1 DEF OnlyMembersAreSent, IsMember
<1>11. FileCoversCopies'
  <2>1. /\ FileCovers(profileCopy)'
        /\ FileCoversMemory'
        /\ \A users : FileCovers(users) => NoOlderProfile(ReadUsers(usersDb'), users)
    BY LeaderKeeps
  <2>2. /\ Len(updates) \in Nat /\ DOMAIN updates = 1 .. Len(updates)
        /\ DOMAIN updates' = 1 .. Len(updates) + 1
        /\ \A i \in DOMAIN updates : updates'[i] = updates[i]
        /\ updates'[Len(updates) + 1] = p
    BY <1>3, InvTypes, AppendedUpdate
  <2>3. ASSUME NEW i \in DOMAIN updates', updates'[i].type = "UPDATE_PROFILE"
        PROVE  NoOlderProfile(ReadUsers(usersDb'), updates'[i].payload)
    <3>1. CASE i \in DOMAIN updates
      BY <3>1, <2>1, <2>2, <2>3 DEF ReplicationInv, FileCoversCopies
    <3>2. CASE i = Len(updates) + 1
      <4>1. p.payload = Snapshot(m_users')
        BY <3>2, <2>2, <2>3, <1>3 DEF PresentOf
      <4>2. NoOlderProfile(m_users', Snapshot(m_users'))
        <5>1. IsProfile(m_users')
          BY DEF Grown, ProfileTypeOK, IsProfile
        <5> QED BY <5>1, SnapshotIsProfile
      <4>3. NoOlderProfile(ReadUsers(usersDb'), m_users')
        BY <2>1 DEF FileCoversMemory, FileCovers
      <4> QED BY <3>2, <2>2, <4>1, <4>2, <4>3, NoOlderProfileTransitive
    <3>3. i \in DOMAIN updates \/ i = Len(updates) + 1
      BY <2>2
    <3> QED BY <3>1, <3>2, <3>3
  <2> QED BY <2>1, <2>3 DEF FileCoversCopies, FileCovers
<1>12. ReadBeforeSent'
  BY <1>1 DEF ReadBeforeSent, IsMember
<1> QED
  BY <1>6, <1>7, <1>8, <1>9, <1>10, <1>11, <1>12 DEF ReplicationInv
-----------------------------------------------------------------------------
(* The leader's operations, one by one.                                    *)

\* sendProfileUpdate, to a member or to nobody.
LEMMA ProfileUpdateStep ==
    ASSUME ReplicationInv, leader = "up", UNCHANGED <<notificationVars, backupVars, leader, crashes>>,
           Grown, SendProfileUpdate
    PROVE  ReplicationInv'
<1>1. /\ NotificationTypeOK /\ UNCHANGED notificationVars
      /\ UNCHANGED <<backupVars, leader, crashes>>
  BY DEF ReplicationInv, ReplicationTypeOK
<1>2. Later
  BY <1>1, NothingOfNotificationsChanges
<1>3. Notifications' = Notifications
  BY <1>1 DEF notificationVars, Notifications
<1>4. CASE ~IsMember
  <2>1. UNCHANGED <<updates, sentSince>>
    BY <1>4 DEF SendProfileUpdate, SendUpdate
  <2> QED BY <1>1, <1>2, <1>4, <2>1, QuietStep
<1>5. CASE IsMember
  <2>1. PICK type \in UpdateType : type = "UPDATE_PROFILE"
    BY DEF UpdateType
  <2>2. PresentOf(type)' = Snapshot(m_users')
    BY <2>1 DEF PresentOf
  <2>3. UpdateProfile(m_users') = [type |-> type, payload |-> PresentOf(type)']
    BY <2>1, <2>2 DEF UpdateProfile
  <2>4. /\ updates' = Append(updates, [type |-> type, payload |-> PresentOf(type)'])
        /\ sentSince' = sentSince \cup {type}
    BY <1>5, <2>3 DEF SendProfileUpdate, SendUpdate
  <2>5. \A other \in UpdateType : other # type => PresentOf(other)' = PresentOf(other)
    BY <1>3, <2>1 DEF PresentOf
  <2> QED BY <1>1, <1>2, <1>5, <2>4, <2>5, SendingStep
<1> QED BY <1>4, <1>5

\* sendNotificationUpdate.
LEMMA NotificationUpdateStep ==
    ASSUME ReplicationInv, leader = "up", UNCHANGED <<profileVars, backupVars, leader, crashes>>,
           Later, SendNotificationUpdate
    PROVE  ReplicationInv'
<1>1. /\ ProfileTypeOK /\ UNCHANGED profileVars
      /\ UNCHANGED <<backupVars, leader, crashes>>
  BY DEF ReplicationInv, ReplicationTypeOK
<1>2. Grown
  BY <1>1, NothingOfProfilesChanges
<1>3. Snapshot(m_users') = Snapshot(m_users)
  BY <1>1 DEF profileVars
<1>4. CASE ~IsMember
  <2>1. UNCHANGED <<updates, sentSince>>
    BY <1>4 DEF SendNotificationUpdate, SendUpdate
  <2> QED BY <1>1, <1>2, <1>4, <2>1, QuietStep
<1>5. CASE IsMember
  <2>1. PICK type \in UpdateType : type = "UPDATE_NOTIFICATION"
    BY DEF UpdateType
  <2>2. PresentOf(type)' = Notifications'
    BY <2>1 DEF PresentOf
  <2>3. UpdateNotification(Notifications') = [type |-> type, payload |-> PresentOf(type)']
    BY <2>1, <2>2 DEF UpdateNotification
  <2>4. /\ updates' = Append(updates, [type |-> type, payload |-> PresentOf(type)'])
        /\ sentSince' = sentSince \cup {type}
    BY <1>5, <2>3 DEF SendNotificationUpdate, SendUpdate
  <2>5. \A other \in UpdateType : other # type => PresentOf(other)' = PresentOf(other)
    BY <1>3, <2>1 DEF PresentOf, UpdateType
  <2> QED BY <1>1, <1>2, <1>5, <2>4, <2>5, SendingStep
<1> QED BY <1>4, <1>5

LEMMA LoginKeepsReplication ==
    ASSUME ReplicationInv, NEW u \in Username, NEW t \in Thread, Login(u, t)
    PROVE  ReplicationInv'
<1>1. /\ leader = "up" /\ StartSession(u, t)
      /\ UNCHANGED <<notificationVars, backupVars, leader, crashes>>
      /\ ProfileTypeOK /\ NotificationTypeOK
  BY DEF Login, ReplicationInv, ReplicationTypeOK
<1>2. CASE u \in DOMAIN m_users
  <2> DEFINE s == Append(m_users[u].m_sessions, t)
  <2>1. /\ m_users' = [m_users EXCEPT ![u].m_sessions = s] /\ usersDb' = usersDb
        /\ UNCHANGED <<updates, sentSince>>
    BY <1>1, <1>2 DEF StartSession, Login
  <2>2. m_users[u].m_sessions \in Seq(Thread)
    BY <1>1, <1>2 DEF ProfileTypeOK, User
  <2>3. s \in Seq(Thread)
    BY <2>2, AppendProperties
  <2> HIDE DEF s
  <2>4. Grown /\ Snapshot(m_users') = Snapshot(m_users)
    BY <1>1, <1>2, <2>1, <2>3, SessionEffect
  <2>5. Later /\ Notifications' = Notifications
    BY <1>1, NothingOfNotificationsChanges DEF notificationVars, Notifications
  <2>6. UNCHANGED <<backupVars, leader, crashes>>
    BY <1>1
  <2> QED BY <1>1, <2>1, <2>4, <2>5, <2>6, QuietStep
<1>3. CASE u \notin DOMAIN m_users
  <2>1. Grown
    BY <1>1, <1>3, NewUserEffect
  <2>2. SendProfileUpdate
    BY <1>3 DEF Login
  <2> QED BY <1>1, <2>1, <2>2, ProfileUpdateStep
<1> QED BY <1>2, <1>3

LEMMA LogoutKeepsReplication ==
    ASSUME ReplicationInv, NEW u \in Username, NEW t \in Thread, Logout(u, t)
    PROVE  ReplicationInv'
<1> DEFINE s == RemoveSession(m_users[u].m_sessions, t)
<1>1. /\ leader = "up" /\ u \in DOMAIN m_users
      /\ m_users' = [m_users EXCEPT ![u].m_sessions = s] /\ usersDb' = usersDb
      /\ UNCHANGED notificationVars
      /\ UNCHANGED <<backupVars, leader, crashes>>
      /\ UNCHANGED <<updates, sentSince>>
      /\ ProfileTypeOK /\ NotificationTypeOK
  BY DEF Logout, CloseSession, ReplicationInv, ReplicationTypeOK
<1>2. m_users[u].m_sessions \in Seq(Thread)
  BY <1>1 DEF ProfileTypeOK, User
<1>3. s \in Seq(Thread)
  BY <1>2, RemovedIsList
<1> HIDE DEF s
<1>4. Grown /\ Snapshot(m_users') = Snapshot(m_users)
  BY <1>1, <1>3, SessionEffect
<1>5. Later /\ Notifications' = Notifications
  BY <1>1, NothingOfNotificationsChanges DEF notificationVars, Notifications
<1> QED BY <1>1, <1>4, <1>5, QuietStep

LEMMA FollowUserKeepsReplication ==
    ASSUME ReplicationInv, NEW u \in Username, NEW t \in Thread, FollowUser(t, u)
    PROVE  ReplicationInv'
<1>1. /\ leader = "up" /\ SendProfileUpdate
      /\ UNCHANGED <<notificationVars, backupVars, leader, crashes>>
      /\ ProfileTypeOK
  BY DEF FollowUser, ReplicationInv, ReplicationTypeOK
<1>2. PICK f \in DOMAIN m_users : Follow(f, u)
  BY DEF FollowUser
<1>3. f \in Username
  BY <1>1, <1>2 DEF ProfileTypeOK
<1>4. Grown
  BY <1>1, <1>2, <1>3, FollowEffect
<1> QED BY <1>1, <1>4, ProfileUpdateStep

LEMMA NotificationOperationKeepsReplication ==
    ASSUME ReplicationInv, NEW t \in Thread,
           SendTweet(t) \/ SubscribeSession(t) \/ UnsubscribeSession(t)
    PROVE  ReplicationInv'
<1>1. /\ leader = "up" /\ SendNotificationUpdate
      /\ UNCHANGED <<profileVars, backupVars, leader, crashes>>
      /\ ProfileTypeOK /\ NotificationTypeOK
  BY DEF SendTweet, SubscribeSession, UnsubscribeSession, ReplicationInv, ReplicationTypeOK
<1>2. CASE SendTweet(t)
  <2>1. PICK s \in DOMAIN m_users :
           \E followers \in SUBSET FollowersOf(s) : Send(s, followers)
    BY <1>2 DEF SendTweet
  <2>2. s \in Username /\ m_users[s] \in User
    BY <1>1 DEF ProfileTypeOK
  <2>3. FollowersOf(s) \in SUBSET Username
    BY <2>2 DEF FollowersOf, User
  <2>4. PICK followers \in SUBSET Username : Send(s, followers)
    BY <2>1, <2>3
  <2>5. Later
    BY <1>1, <2>2, <2>4, SendEffectOnData
  <2> QED BY <1>1, <2>5, NotificationUpdateStep
<1>3. CASE SubscribeSession(t)
  <2>1. PICK u \in DOMAIN m_users : Subscribe(u, t)
    BY <1>3 DEF SubscribeSession
  <2>2. u \in Username
    BY <1>1 DEF ProfileTypeOK
  <2>3. Later
    BY <1>1, <2>1, <2>2, SubscribeEffectOnData
  <2> QED BY <1>1, <2>3, NotificationUpdateStep
<1>4. CASE UnsubscribeSession(t)
  <2>1. PICK u \in Username : Unsubscribe(u, t)
    BY <1>4 DEF UnsubscribeSession
  <2>2. Later
    BY <1>1, <2>1, UnsubscribeEffectOnData
  <2> QED BY <1>1, <2>2, NotificationUpdateStep
<1> QED BY <1>2, <1>3, <1>4

LEMMA ConsumeKeepsReplication ==
    ASSUME ReplicationInv, NEW t \in Thread, Consume(t)
    PROVE  ReplicationInv'
<1>1. /\ leader = "up" /\ Remove(t)
      /\ UNCHANGED profileVars
      /\ UNCHANGED <<backupVars, leader, crashes>>
      /\ UNCHANGED <<updates, sentSince>>
      /\ ProfileTypeOK /\ NotificationTypeOK
  BY DEF Consume, ReplicationInv, ReplicationTypeOK
<1>2. Later /\ Notifications' = Notifications
  BY <1>1, RemoveEffectOnData
<1>3. Grown /\ Snapshot(m_users') = Snapshot(m_users)
  BY <1>1, NothingOfProfilesChanges DEF profileVars
<1> QED BY <1>1, <1>2, <1>3, QuietStep
-----------------------------------------------------------------------------
(* answerStartHandshake.                                                   *)

LEMMA HandshakeKeeps ==
    ASSUME ReplicationInv, NEW from \in HandshakePhase, NEW to \in HandshakePhase,
           from # "member", to # "none", Handshake(from, to)
    PROVE  /\ Grown /\ Later
           /\ leader = "up" /\ leader' = leader
           /\ UNCHANGED <<m_users, usersDb>>
           /\ UNCHANGED <<known, m_nextId, m_notifications, m_pendingQueue>>
           /\ UNCHANGED <<profileCopy, notificationCopy, sentSince, crashes>>
           /\ handshake = from /\ handshake' = to
           /\ \A type \in UpdateType : PresentOf(type)' = PresentOf(type)
           /\ ProfileTypeOK' /\ NotificationTypeOK' /\ FileCoversMemory'
           /\ sentSince = {} /\ EveryChangeIsSent' /\ OnlyMembersAreSent'
           /\ FileCovers(profileCopy)'
<1>1. /\ leader = "up" /\ leader' = leader
      /\ UNCHANGED profileVars /\ UNCHANGED notificationVars
      /\ UNCHANGED <<profileCopy, notificationCopy, sentSince, crashes>>
      /\ handshake = from /\ handshake' = to
      /\ ProfileTypeOK /\ NotificationTypeOK
  BY DEF Handshake, ReplicationInv, ReplicationTypeOK
<1>2. /\ UNCHANGED <<m_users, usersDb>>
      /\ UNCHANGED <<known, m_nextId, m_notifications, m_pendingQueue>>
  BY <1>1 DEF profileVars, notificationVars
<1>3. Grown /\ Later
  BY <1>1, NothingOfProfilesChanges, NothingOfNotificationsChanges
<1>4. \A type \in UpdateType : PresentOf(type)' = PresentOf(type)
  BY <1>2 DEF PresentOf, Notifications
<1>5. sentSince = {}
  BY <1>1 DEF ReplicationInv, OnlyMembersAreSent, IsMember
<1>6. EveryChangeIsSent' /\ OnlyMembersAreSent'
  BY <1>1, <1>5 DEF EveryChangeIsSent, OnlyMembersAreSent
<1>7. FileCoversMemory' /\ FileCovers(profileCopy)'
  BY <1>1, <1>2 DEF ReplicationInv, FileCoversMemory, FileCoversCopies, FileCovers
<1>8. ProfileTypeOK' /\ NotificationTypeOK'
  BY <1>3 DEF Grown, Later
<1> QED
  BY <1>1, <1>2, <1>3, <1>4, <1>5, <1>6, <1>7, <1>8

LEMMA HandshakeProfileKeepsReplication == ReplicationInv /\ HandshakeProfile => ReplicationInv'
<1> SUFFICES ASSUME ReplicationInv, HandshakeProfile
             PROVE  ReplicationInv'
  OBVIOUS
<1>1. /\ Handshake("none", "profile sent") /\ stored' = stored
      /\ updates' = Append(updates, UpdateProfile(m_users))
  BY DEF HandshakeProfile
<1>2. PICK p : p = UpdateProfile(m_users)
  OBVIOUS
<1>3. /\ Grown /\ Later
      /\ leader = "up" /\ leader' = leader
      /\ UNCHANGED <<m_users, usersDb>>
      /\ UNCHANGED <<known, m_nextId, m_notifications, m_pendingQueue>>
      /\ UNCHANGED <<profileCopy, notificationCopy, sentSince, crashes>>
      /\ handshake = "none" /\ handshake' = "profile sent"
      /\ \A type \in UpdateType : PresentOf(type)' = PresentOf(type)
      /\ ProfileTypeOK' /\ NotificationTypeOK' /\ FileCoversMemory'
      /\ sentSince = {} /\ EveryChangeIsSent' /\ OnlyMembersAreSent'
      /\ FileCovers(profileCopy)'
  BY <1>1, HandshakeKeeps DEF HandshakePhase
<1>4. /\ p.type = "UPDATE_PROFILE" /\ p.type \in UpdateType
      /\ p.payload = Snapshot(m_users) /\ p.payload = PresentOf(p.type)
  BY <1>2 DEF UpdateProfile, UpdateType, PresentOf
<1>5. \A type \in UpdateType :
         IsPayload(type, PresentOf(type)) /\ NoOlder(PresentOf(type), CopyOf(type), type)
  BY <1>3, InvTypes DEF ReplicationInv, UpdatesGetNewer
<1>6. updates = <<>> /\ DOMAIN updates = {}
  <2>1. updates = <<>>
    BY <1>3 DEF ReplicationInv, OnlyMembersAreSent
  <2>2. DOMAIN <<>> = {}
    OBVIOUS
  <2> QED BY <2>1, <2>2
<1>7. NoOlder(PresentOf(p.type), p.payload, p.type)
  BY <1>4, <1>5, NoOlderReflexive
<1>8. /\ updates' \in Seq({updates'[i] : i \in DOMAIN updates'})
      /\ \A i \in DOMAIN updates' : IsUpdate(updates'[i])
      /\ UpdatesGetNewer'
  <2>1. /\ IsPayload(p.type, p.payload) /\ updates' = Append(updates, p)
        /\ NoOlder(p.payload, CopyOf(p.type), p.type)
        /\ NoOlder(PresentOf(p.type)', p.payload, p.type)
        /\ \A i \in DOMAIN updates : updates[i].type = p.type =>
              NoOlder(p.payload, updates[i].payload, p.type)
    BY <1>1, <1>2, <1>3, <1>4, <1>5, <1>6, <1>7
  <2> QED BY <2>1, <1>3, <1>4, AddedUpdate
<1>9. \A i \in DOMAIN updates' : updates'[i] = p
  <2>1. /\ Len(updates) \in Nat /\ DOMAIN updates = 1 .. Len(updates)
        /\ DOMAIN updates' = 1 .. Len(updates) + 1 /\ updates'[Len(updates) + 1] = p
    BY <1>1, <1>2, InvTypes, AppendedUpdate
  <2>2. \A i \in DOMAIN updates' : i \in DOMAIN updates \/ i = Len(updates) + 1
    BY <2>1
  <2> QED BY <2>1, <2>2, <1>6
<1>10. ReplicationTypeOK'
  BY <1>1, <1>3, <1>8 DEF ReplicationInv, ReplicationTypeOK, HandshakePhase
<1>11. FileCoversCopies'
  <2>1. NoOlderProfile(m_users, Snapshot(m_users))
    <3>1. IsProfile(m_users)
      BY DEF ReplicationInv, ReplicationTypeOK, ProfileTypeOK, IsProfile
    <3> QED BY <3>1, SnapshotIsProfile
  <2>2. NoOlderProfile(ReadUsers(usersDb'), p.payload)
    BY <2>1, <1>3, <1>4, NoOlderProfileTransitive DEF ReplicationInv, FileCoversMemory, FileCovers
  <2> QED BY <2>2, <1>3, <1>9 DEF FileCoversCopies, FileCovers
<1>12. ReadBeforeSent'
  <2>1. notificationCopy = NoNotifications /\ NoOlderData(Notifications, stored)
    BY <1>3 DEF ReplicationInv, ReadBeforeSent
  <2>2. NoOlderData(Notifications, stored)'
    BY <2>1, <1>1, <1>3 DEF NoOlderData, Notifications
  <2> QED BY <2>1, <2>2, <1>3, <1>4, <1>9 DEF ReadBeforeSent
<1> QED
  BY <1>3, <1>8, <1>10, <1>11, <1>12 DEF ReplicationInv

LEMMA HandshakeReadKeepsReplication == ReplicationInv /\ HandshakeRead => ReplicationInv'
<1> SUFFICES ASSUME ReplicationInv, HandshakeRead
             PROVE  ReplicationInv'
  OBVIOUS
<1>1. /\ Handshake("profile sent", "half read")
      /\ stored' = Notifications /\ updates' = updates
  BY DEF HandshakeRead
<1>2. /\ leader = "up" /\ leader' = leader
      /\ UNCHANGED <<m_users, usersDb>>
      /\ UNCHANGED <<known, m_nextId, m_notifications, m_pendingQueue>>
      /\ UNCHANGED <<profileCopy, notificationCopy, sentSince, crashes>>
      /\ handshake = "profile sent" /\ handshake' = "half read"
      /\ \A type \in UpdateType : PresentOf(type)' = PresentOf(type)
      /\ ProfileTypeOK' /\ NotificationTypeOK' /\ FileCoversMemory'
      /\ EveryChangeIsSent' /\ OnlyMembersAreSent'
  BY <1>1, HandshakeKeeps DEF HandshakePhase
<1>3. Notifications \in NotificationData
  BY NotificationsAreData DEF ReplicationInv, ReplicationTypeOK
<1>4. ReplicationTypeOK'
  BY <1>1, <1>2, <1>3 DEF ReplicationInv, ReplicationTypeOK, HandshakePhase
<1>5. FileCoversCopies'
  BY <1>1, <1>2 DEF ReplicationInv, FileCoversCopies, FileCovers
<1>6. UpdatesGetNewer'
  BY <1>1, <1>2 DEF ReplicationInv, UpdatesGetNewer, CopyOf
<1>7. ReadBeforeSent'
  <2>1. m_nextId \in Nat
    BY DEF ReplicationInv, ReplicationTypeOK, NotificationTypeOK
  <2>2. stored'.m_nextId = m_nextId /\ stored'.known = known
    BY <1>1 DEF Notifications
  <2>3. NoOlderData(Notifications, stored)'
    <3>1. m_nextId' = m_nextId /\ known' = known
      BY <1>2
    <3>2. m_nextId <= m_nextId
      BY <2>1
    <3>3. stored'.m_nextId <= m_nextId' /\ stored'.known \subseteq known'
      BY <2>2, <3>1, <3>2
    <3> QED BY <3>3 DEF NoOlderData, Notifications
  <2>4. /\ notificationCopy = NoNotifications
        /\ \A i \in DOMAIN updates : updates[i].type # "UPDATE_NOTIFICATION"
    BY <1>2 DEF ReplicationInv, ReadBeforeSent
  <2> QED BY <2>3, <2>4, <1>1, <1>2 DEF ReadBeforeSent
<1> QED
  BY <1>2, <1>4, <1>5, <1>6, <1>7 DEF ReplicationInv

LEMMA HandshakeNotificationsKeepsReplication ==
    ReplicationInv /\ HandshakeNotifications => ReplicationInv'
<1> SUFFICES ASSUME ReplicationInv, HandshakeNotifications
             PROVE  ReplicationInv'
  OBVIOUS
<1> DEFINE data == [stored EXCEPT !.known = known, !.m_pendingQueue = m_pendingQueue]
<1>1. /\ Handshake("half read", "notifications sent") /\ stored' = NoNotifications
      /\ updates' = Append(updates, UpdateNotification(data))
  BY DEF HandshakeNotifications
<1>2. PICK p : p = UpdateNotification(data)
  OBVIOUS
<1>3. /\ Grown /\ Later
      /\ leader = "up" /\ leader' = leader
      /\ UNCHANGED <<m_users, usersDb>>
      /\ UNCHANGED <<known, m_nextId, m_notifications, m_pendingQueue>>
      /\ UNCHANGED <<profileCopy, notificationCopy, sentSince, crashes>>
      /\ handshake = "half read" /\ handshake' = "notifications sent"
      /\ \A type \in UpdateType : PresentOf(type)' = PresentOf(type)
      /\ ProfileTypeOK' /\ NotificationTypeOK' /\ FileCoversMemory'
      /\ sentSince = {} /\ EveryChangeIsSent' /\ OnlyMembersAreSent'
      /\ FileCovers(profileCopy)'
  BY <1>1, HandshakeKeeps DEF HandshakePhase
<1>4. p.type = "UPDATE_NOTIFICATION" /\ p.type \in UpdateType /\ p.payload = data
  BY <1>2 DEF UpdateNotification, UpdateType
<1>5. /\ stored \in NotificationData
      /\ known \subseteq Username /\ m_pendingQueue \in [Username -> Seq(Pending)]
      /\ m_nextId \in Nat /\ stored.m_nextId \in Nat \ {0}
  BY DEF ReplicationInv, ReplicationTypeOK, NotificationTypeOK, NotificationData
<1>6. /\ data \in NotificationData
      /\ data.m_nextId = stored.m_nextId /\ data.known = known
  BY <1>5 DEF NotificationData
<1>7. NoNotifications \in NotificationData
  BY EmptySeq DEF NoNotifications, NotificationData
<1> HIDE DEF data
<1>8. /\ notificationCopy = NoNotifications
      /\ \A i \in DOMAIN updates : updates[i].type # "UPDATE_NOTIFICATION"
      /\ stored.m_nextId <= m_nextId
  BY <1>3 DEF ReplicationInv, ReadBeforeSent, NoOlderData, Notifications
<1>9. NoOlder(p.payload, CopyOf(p.type), p.type)
  <2>1. CopyOf(p.type) = NoNotifications
    BY <1>4, <1>8 DEF CopyOf
  <2>2. NoNotifications.m_nextId = 1 /\ NoNotifications.known = {}
    BY DEF NoNotifications
  <2>3. NoOlderData(data, NoNotifications)
    BY <2>2, <1>5, <1>6 DEF NoOlderData
  <2> QED BY <2>1, <2>3, <1>4 DEF NoOlder
<1>10. NoOlder(PresentOf(p.type)', p.payload, p.type)
  <2>1. PresentOf(p.type)' = Notifications
    BY <1>3, <1>4 DEF PresentOf
  <2>2. NoOlderData(Notifications, data)
    BY <1>5, <1>6, <1>8 DEF NoOlderData, Notifications
  <2> QED BY <2>1, <2>2, <1>4 DEF NoOlder
<1>11. /\ updates' \in Seq({updates'[i] : i \in DOMAIN updates'})
       /\ \A i \in DOMAIN updates' : IsUpdate(updates'[i])
       /\ UpdatesGetNewer'
  <2>1. /\ IsPayload(p.type, p.payload) /\ updates' = Append(updates, p)
        /\ \A i \in DOMAIN updates : updates[i].type = p.type =>
              NoOlder(p.payload, updates[i].payload, p.type)
    BY <1>1, <1>2, <1>4, <1>6, <1>8 DEF IsPayload
  <2> QED BY <2>1, <1>3, <1>4, <1>9, <1>10, AddedUpdate
<1>12. ReplicationTypeOK'
  BY <1>1, <1>3, <1>7, <1>11 DEF ReplicationInv, ReplicationTypeOK, HandshakePhase
<1>13. FileCoversCopies'
  <2>1. /\ Len(updates) \in Nat /\ DOMAIN updates = 1 .. Len(updates)
        /\ DOMAIN updates' = 1 .. Len(updates) + 1 /\ updates'[Len(updates) + 1] = p
        /\ \A i \in DOMAIN updates : updates'[i] = updates[i]
    <3>1. OfItself(updates) /\ updates' = Append(updates, p)
      BY <1>1, <1>2, InvTypes
    <3> QED BY <3>1, AppendedUpdate
  <2>2. \A i \in DOMAIN updates' : i \in DOMAIN updates \/ i = Len(updates) + 1
    BY <2>1
  <2>3. \A i \in DOMAIN updates' : updates'[i].type = "UPDATE_PROFILE" =>
           i \in DOMAIN updates /\ updates'[i] = updates[i]
    BY <2>1, <2>2, <1>4
  <2> QED BY <2>3, <1>3 DEF ReplicationInv, FileCoversCopies, FileCovers
<1>14. ReadBeforeSent'
  BY <1>3 DEF ReadBeforeSent
<1> QED
  BY <1>3, <1>11, <1>12, <1>13, <1>14 DEF ReplicationInv

LEMMA HandshakeEndKeepsReplication == ReplicationInv /\ HandshakeEnd => ReplicationInv'
<1> SUFFICES ASSUME ReplicationInv, HandshakeEnd
             PROVE  ReplicationInv'
  OBVIOUS
<1>1. /\ Handshake("notifications sent", "member")
      /\ stored' = stored /\ updates' = updates
  BY DEF HandshakeEnd
<1>2. /\ leader = "up" /\ leader' = leader
      /\ UNCHANGED <<m_users, usersDb>>
      /\ UNCHANGED <<profileCopy, notificationCopy, sentSince, crashes>>
      /\ handshake = "notifications sent" /\ handshake' = "member"
      /\ \A type \in UpdateType : PresentOf(type)' = PresentOf(type)
      /\ ProfileTypeOK' /\ NotificationTypeOK' /\ FileCoversMemory'
      /\ EveryChangeIsSent' /\ OnlyMembersAreSent'
  BY <1>1, HandshakeKeeps DEF HandshakePhase
<1>3. ReplicationTypeOK'
  BY <1>1, <1>2 DEF ReplicationInv, ReplicationTypeOK, HandshakePhase
<1>4. FileCoversCopies'
  BY <1>1, <1>2 DEF ReplicationInv, FileCoversCopies, FileCovers
<1>5. UpdatesGetNewer'
  BY <1>1, <1>2 DEF ReplicationInv, UpdatesGetNewer, CopyOf
<1>6. ReadBeforeSent'
  BY <1>2 DEF ReadBeforeSent
<1> QED
  BY <1>2, <1>3, <1>4, <1>5, <1>6 DEF ReplicationInv
-----------------------------------------------------------------------------
(* The backup, the crash and the take-over.                                *)

LEMMA ReceiveUpdateKeepsReplication == ReplicationInv /\ ReceiveUpdate => ReplicationInv'
<1> SUFFICES ASSUME ReplicationInv, ReceiveUpdate
             PROVE  ReplicationInv'
  OBVIOUS
<1> DEFINE head == updates[1]
<1>1. /\ updates # <<>> /\ updates' = Tail(updates)
      /\ UNCHANGED profileVars /\ UNCHANGED notificationVars
      /\ UNCHANGED <<handshake, stored, leader, sentSince, crashes>>
      /\ ReplicationTypeOK
  BY DEF ReceiveUpdate, ReplicationInv
<1>2. /\ UNCHANGED <<m_users, usersDb>>
      /\ UNCHANGED <<known, m_nextId, m_notifications, m_pendingQueue, m_subscribersQueue, m_queue>>
  BY <1>1 DEF profileVars, notificationVars
<1>3. OfItself(updates)
  BY InvTypes
<1>4. /\ OfItself(updates')
      /\ Len(updates) \in Nat \ {0}
      /\ DOMAIN updates = 1 .. Len(updates)
      /\ DOMAIN updates' = 1 .. Len(updates) - 1
      /\ \A i \in DOMAIN updates' : updates'[i] = updates[i + 1]
      /\ Head(updates) = head
  BY <1>1, <1>3, ReceivedUpdate
<1>5. /\ 1 \in DOMAIN updates
      /\ \A i \in DOMAIN updates' : i \in Int /\ i + 1 \in DOMAIN updates /\ 1 < i + 1
      /\ \A i, j \in DOMAIN updates' : i < j => i + 1 < j + 1
  BY <1>4
<1>6. head.type \in UpdateType /\ IsPayload(head.type, head.payload)
  BY <1>5, InvTypes
<1>7. \A type \in UpdateType :
         CopyOf(type)' = IF Head(updates).type = type THEN Head(updates).payload ELSE CopyOf(type)
  BY <1>4, <1>6 DEF ReceiveUpdate, CopyOf, UpdateType
<1>8. \A type \in UpdateType : PresentOf(type)' = PresentOf(type)
  BY <1>2 DEF PresentOf, Notifications
<1>9. ReplicationTypeOK'
  <2>1. ProfileTypeOK' /\ NotificationTypeOK'
    BY <1>1, <1>2 DEF ReplicationTypeOK, ProfileTypeOK, NotificationTypeOK
  <2>2. IsProfile(profileCopy') /\ notificationCopy' \in NotificationData
    BY <1>1, <1>4, <1>6 DEF ReceiveUpdate, IsPayload, UpdateType, ReplicationTypeOK
  <2>3. /\ updates' \in Seq({updates'[i] : i \in DOMAIN updates'})
        /\ \A i \in DOMAIN updates' : IsUpdate(updates'[i])
    BY <1>1, <1>4, <1>5 DEF OfItself, ReplicationTypeOK
  <2> QED BY <1>1, <2>1, <2>2, <2>3 DEF ReplicationTypeOK
<1>10. EveryChangeIsSent'
  <2> SUFFICES ASSUME leader = "up", NEW type \in sentSince
               PROVE  Latest(updates', type, CopyOf(type)') = PresentOf(type)'
    BY <1>1 DEF EveryChangeIsSent
  <2>1. type \in UpdateType
    BY <1>1 DEF ReplicationTypeOK
  <2>2. Latest(updates, type, CopyOf(type)) = PresentOf(type)
    BY DEF ReplicationInv, EveryChangeIsSent
  <2>3. PICK copy : copy = CopyOf(type)
    OBVIOUS
  <2>4. Latest(Tail(updates), type,
               IF Head(updates).type = type THEN Head(updates).payload ELSE copy) =
           Latest(updates, type, copy)
    BY <1>1, <1>3, LatestReceived
  <2> QED BY <1>1, <1>7, <1>8, <2>1, <2>2, <2>3, <2>4
<1>11. FileCoversMemory'
  BY <1>2 DEF ReplicationInv, FileCoversMemory, FileCovers
<1>12. OnlyMembersAreSent'
  BY <1>1 DEF ReplicationInv, OnlyMembersAreSent, IsMember
<1>13. FileCoversCopies'
  <2>1. /\ FileCovers(profileCopy)
        /\ \A i \in DOMAIN updates :
              updates[i].type = "UPDATE_PROFILE" => FileCovers(updates[i].payload)
    BY DEF ReplicationInv, FileCoversCopies
  <2>2. FileCovers(profileCopy')
    <3>1. CASE head.type = "UPDATE_PROFILE"
      <4>1. profileCopy' = head.payload
        BY <3>1, <1>4 DEF ReceiveUpdate
      <4> QED BY <4>1, <3>1, <2>1, <1>5
    <3>2. CASE head.type # "UPDATE_PROFILE"
      BY <3>2, <1>4, <2>1 DEF ReceiveUpdate
    <3> QED BY <3>1, <3>2
  <2>3. \A i \in DOMAIN updates' :
           updates'[i].type = "UPDATE_PROFILE" => FileCovers(updates'[i].payload)
    BY <2>1, <1>4, <1>5
  <2> QED BY <2>2, <2>3, <1>2 DEF FileCoversCopies, FileCovers
<1>14. UpdatesGetNewer'
  <2> SUFFICES ASSUME NEW type \in UpdateType
               PROVE  /\ leader' = "up" => NoOlder(PresentOf(type)', CopyOf(type)', type)
                      /\ \A i \in DOMAIN updates' : updates'[i].type = type =>
                            /\ NoOlder(updates'[i].payload, CopyOf(type)', type)
                            /\ leader' = "up" =>
                                  NoOlder(PresentOf(type)', updates'[i].payload, type)
                            /\ \A j \in DOMAIN updates' : i < j /\ updates'[j].type = type =>
                                  NoOlder(updates'[j].payload, updates'[i].payload, type)
    BY DEF UpdatesGetNewer
  <2>1. /\ leader = "up" => NoOlder(PresentOf(type), CopyOf(type), type)
        /\ \A i \in DOMAIN updates : updates[i].type = type =>
              /\ NoOlder(updates[i].payload, CopyOf(type), type)
              /\ leader = "up" => NoOlder(PresentOf(type), updates[i].payload, type)
              /\ \A j \in DOMAIN updates : i < j /\ updates[j].type = type =>
                    NoOlder(updates[j].payload, updates[i].payload, type)
    BY DEF ReplicationInv, UpdatesGetNewer
  <2>2. CASE head.type = type
    <3>1. CopyOf(type)' = head.payload
      BY <2>2, <1>4, <1>7
    <3>2. leader = "up" => NoOlder(PresentOf(type), head.payload, type)
      BY <2>1, <2>2, <1>5
    <3>3. \A j \in DOMAIN updates : 1 < j /\ updates[j].type = type =>
             NoOlder(updates[j].payload, head.payload, type)
      BY <2>1, <2>2, <1>5
    <3> QED BY <3>1, <3>2, <3>3, <2>1, <1>1, <1>4, <1>5, <1>8
  <2>3. CASE head.type # type
    <3>1. CopyOf(type)' = CopyOf(type)
      BY <2>3, <1>4, <1>7
    <3> QED BY <3>1, <2>1, <1>1, <1>4, <1>5, <1>8
  <2> QED BY <2>2, <2>3
<1>15. ReadBeforeSent'
  <2> SUFFICES ASSUME handshake \in {"none", "profile sent", "half read"}
               PROVE  /\ notificationCopy' = NoNotifications
                      /\ \A i \in DOMAIN updates' : updates'[i].type # "UPDATE_NOTIFICATION"
                      /\ leader' = "up" => NoOlderData(Notifications, stored)'
    BY <1>1 DEF ReadBeforeSent
  <2>1. /\ notificationCopy = NoNotifications
        /\ \A i \in DOMAIN updates : updates[i].type # "UPDATE_NOTIFICATION"
        /\ leader = "up" => NoOlderData(Notifications, stored)
    BY DEF ReplicationInv, ReadBeforeSent
  <2>2. head.type = "UPDATE_PROFILE"
    BY <2>1, <1>5, <1>6 DEF UpdateType
  <2>3. notificationCopy' = notificationCopy
    BY <2>2, <1>4 DEF ReceiveUpdate
  <2>4. \A i \in DOMAIN updates' : updates'[i].type # "UPDATE_NOTIFICATION"
    BY <2>1, <1>4, <1>5
  <2>5. leader' = "up" => NoOlderData(Notifications, stored)'
    BY <2>1, <1>1, <1>2 DEF NoOlderData, Notifications
  <2> QED BY <2>1, <2>3, <2>4, <2>5
<1> QED
  BY <1>9, <1>10, <1>11, <1>12, <1>13, <1>14, <1>15 DEF ReplicationInv

LEMMA CrashKeepsReplication == ReplicationInv /\ Crash => ReplicationInv'
<1> SUFFICES ASSUME ReplicationInv, Crash
             PROVE  ReplicationInv'
  OBVIOUS
<1>1. /\ crashes < MaxCrashes /\ leader' = "down" /\ crashes' = crashes + 1
      /\ UNCHANGED profileVars /\ UNCHANGED notificationVars
      /\ UNCHANGED <<handshake, stored, profileCopy, notificationCopy, sentSince>>
      /\ ReplicationTypeOK
  BY DEF Crash, ReplicationInv, backupVars
<1>2. /\ UNCHANGED <<m_users, usersDb>>
      /\ UNCHANGED <<known, m_nextId, m_notifications, m_pendingQueue, m_subscribersQueue, m_queue>>
  BY <1>1 DEF profileVars, notificationVars
<1>3. PICK n \in 0 .. Len(updates) : updates' = SubSeq(updates, 1, n)
  BY DEF Crash
<1>4. /\ OfItself(updates')
      /\ DOMAIN updates' = 1 .. n
      /\ DOMAIN updates = 1 .. Len(updates) /\ Len(updates) \in Nat
      /\ \A i \in DOMAIN updates' : i \in DOMAIN updates /\ updates'[i] = updates[i]
  BY <1>3, InvTypes, LostUpdates
<1>5. ReplicationTypeOK'
  <2>1. ProfileTypeOK' /\ NotificationTypeOK'
    BY <1>1, <1>2 DEF ReplicationTypeOK, ProfileTypeOK, NotificationTypeOK
  <2>2. crashes' \in 0 .. MaxCrashes
    BY <1>1, MaxCrashesAssumption DEF ReplicationTypeOK
  <2>3. /\ updates' \in Seq({updates'[i] : i \in DOMAIN updates'})
        /\ \A i \in DOMAIN updates' : IsUpdate(updates'[i])
    BY <1>1, <1>4 DEF OfItself, ReplicationTypeOK
  <2> QED BY <1>1, <2>1, <2>2, <2>3 DEF ReplicationTypeOK
<1>6. EveryChangeIsSent'
  BY <1>1 DEF EveryChangeIsSent
<1>7. FileCoversMemory'
  BY <1>2 DEF ReplicationInv, FileCoversMemory, FileCovers
<1>8. OnlyMembersAreSent'
  <2>1. sentSince' # {} => IsMember'
    BY <1>1 DEF ReplicationInv, OnlyMembersAreSent, IsMember
  <2>2. ASSUME handshake' = "none"
        PROVE  updates' = <<>>
    <3>1. updates = <<>>
      BY <2>2, <1>1 DEF ReplicationInv, OnlyMembersAreSent
    <3>2. DOMAIN <<>> = {}
      OBVIOUS
    <3>3. DOMAIN updates' = {}
      BY <3>1, <3>2, <1>4
    <3>4. updates' \in Seq({updates'[i] : i \in DOMAIN updates'})
      BY <1>4 DEF OfItself
    <3>5. Len(updates') = 0
      BY <3>3, <3>4, LenProperties
    <3> QED BY <3>4, <3>5, EmptySeq
  <2> QED BY <2>1, <2>2 DEF OnlyMembersAreSent
<1>9. FileCoversCopies'
  BY <1>1, <1>2, <1>4 DEF ReplicationInv, FileCoversCopies, FileCovers
<1>10. UpdatesGetNewer'
  <2>1. \A type \in UpdateType : CopyOf(type)' = CopyOf(type)
    BY <1>1 DEF CopyOf
  <2> QED BY <2>1, <1>1, <1>4 DEF ReplicationInv, UpdatesGetNewer
<1>11. ReadBeforeSent'
  BY <1>1, <1>4 DEF ReplicationInv, ReadBeforeSent
<1> QED
  BY <1>5, <1>6, <1>7, <1>8, <1>9, <1>10, <1>11 DEF ReplicationInv

LEMMA TakeOverKeepsReplication == ReplicationInv /\ TakeOver => ReplicationInv'
<1> SUFFICES ASSUME ReplicationInv, TakeOver
             PROVE  ReplicationInv'
  OBVIOUS
<1>1. /\ updates = <<>> /\ updates' = updates /\ leader' = "up"
      /\ m_users' = profileCopy /\ usersDb' = usersDb
      /\ known' = notificationCopy.known
      /\ m_nextId' = notificationCopy.m_nextId
      /\ m_notifications' = notificationCopy.m_notifications
      /\ m_pendingQueue' = notificationCopy.m_pendingQueue
      /\ m_subscribersQueue' = [u \in Username |-> {}]
      /\ m_queue' = [t \in Thread |-> <<>>]
      /\ handshake' = "none" /\ stored' = NoNotifications
      /\ profileCopy' = [u \in {} |-> {}] /\ notificationCopy' = NoNotifications
      /\ sentSince' = {} /\ crashes' = crashes
      /\ ReplicationTypeOK
  BY DEF TakeOver, ReplicationInv
<1>2. DOMAIN updates' = {}
  <2>1. DOMAIN <<>> = {}
    OBVIOUS
  <2> QED BY <2>1, <1>1
<1>3. /\ NoNotifications \in NotificationData
      /\ NoNotifications.m_nextId = 1 /\ NoNotifications.known = {}
  BY EmptySeq DEF NoNotifications, NotificationData
<1>4. /\ IsProfile(profileCopy) /\ usersDb \in Seq(Row) /\ notificationCopy \in NotificationData
  BY <1>1 DEF ReplicationTypeOK, ProfileTypeOK
<1>5. ReplicationTypeOK'
  <2>1. ProfileTypeOK'
    BY <1>1, <1>4 DEF ProfileTypeOK, IsProfile
  <2>2. NotificationTypeOK'
    BY <1>1, <1>4, EmptySeq DEF NotificationTypeOK, NotificationData
  <2>3. IsProfile(profileCopy')
    BY <1>1 DEF IsProfile
  <2> QED BY <1>1, <1>3, <2>1, <2>2, <2>3 DEF ReplicationTypeOK, HandshakePhase
<1>6. EveryChangeIsSent' /\ OnlyMembersAreSent'
  BY <1>1 DEF EveryChangeIsSent, OnlyMembersAreSent
<1>7. FileCoversMemory'
  BY <1>1 DEF ReplicationInv, FileCoversCopies, FileCoversMemory, FileCovers
<1>8. FileCoversCopies'
  BY <1>1, <1>2 DEF FileCoversCopies, FileCovers, NoOlderProfile
<1>9. NoOlderData(Notifications', NoNotifications)
  <2>1. m_nextId' \in Nat \ {0}
    BY <1>1, <1>4 DEF NotificationData
  <2> QED BY <2>1, <1>3 DEF NoOlderData, Notifications
<1>10. UpdatesGetNewer'
  <2>1. NoOlderProfile(Snapshot(m_users'), profileCopy')
    BY <1>1 DEF NoOlderProfile
  <2>2. \A type \in UpdateType : NoOlder(PresentOf(type)', CopyOf(type)', type)
    BY <2>1, <1>1, <1>9 DEF NoOlder, PresentOf, CopyOf
  <2> QED BY <2>2, <1>2 DEF UpdatesGetNewer
<1>11. ReadBeforeSent'
  <2>1. NoOlderData(Notifications, stored)'
    BY <1>1, <1>9 DEF NoOlderData, Notifications
  <2> QED BY <2>1, <1>1, <1>2 DEF ReadBeforeSent
<1> QED
  BY <1>5, <1>6, <1>7, <1>8, <1>10, <1>11 DEF ReplicationInv
-----------------------------------------------------------------------------
(* The invariant.                                                          *)

LEMMA ReplicationInitHasInv == ReplicationInit => ReplicationInv
<1> SUFFICES ASSUME ReplicationInit
             PROVE  ReplicationInv
  OBVIOUS
<1>1. /\ ProfileInit /\ NotificationInit(DOMAIN m_users)
      /\ leader = "up" /\ handshake = "none" /\ stored = NoNotifications /\ updates = <<>>
      /\ profileCopy = [u \in {} |-> {}] /\ notificationCopy = NoNotifications
      /\ sentSince = {} /\ crashes = 0
  BY DEF ReplicationInit
<1>2. ProfileTypeOK
  BY <1>1, ProfileInitHasInv DEF ProfileInv
<1>3. NotificationTypeOK
  <2>1. DOMAIN m_users \in SUBSET Username
    BY <1>2 DEF ProfileTypeOK
  <2> QED BY <1>1, <2>1, InitHasInv DEF NotificationInv
<1>4. DOMAIN updates = {} /\ OfItself(updates)
  <2>1. DOMAIN <<>> = {} /\ <<>> \in Seq({})
    BY EmptySeq
  <2>2. {updates[i] : i \in DOMAIN updates} = {}
    BY <2>1, <1>1
  <2> QED BY <2>1, <2>2, <1>1 DEF OfItself
<1>5. /\ NoNotifications \in NotificationData
      /\ NoNotifications.m_nextId = 1 /\ NoNotifications.known = {}
  BY EmptySeq DEF NoNotifications, NotificationData
<1>6. ReplicationTypeOK
  <2>1. IsProfile(profileCopy)
    BY <1>1 DEF IsProfile
  <2>2. crashes \in 0 .. MaxCrashes
    BY <1>1, MaxCrashesAssumption
  <2> QED
    BY <1>1, <1>2, <1>3, <1>4, <1>5, <2>1, <2>2 DEF ReplicationTypeOK, HandshakePhase, OfItself
<1>7. EveryChangeIsSent /\ OnlyMembersAreSent
  BY <1>1 DEF EveryChangeIsSent, OnlyMembersAreSent
<1>8. FileCoversMemory
  BY <1>1 DEF ProfileInit, FileCoversMemory, FileCovers, NoOlderProfile
<1>9. FileCoversCopies
  BY <1>1, <1>4 DEF FileCoversCopies, FileCovers, NoOlderProfile
<1>10. NoOlderData(Notifications, NoNotifications)
  <2>1. m_nextId = 1
    BY <1>1 DEF NotificationInit
  <2> QED BY <2>1, <1>5 DEF NoOlderData, Notifications
<1>11. UpdatesGetNewer
  <2>1. NoOlderProfile(Snapshot(m_users), profileCopy)
    BY <1>1 DEF NoOlderProfile
  <2>2. \A type \in UpdateType : NoOlder(PresentOf(type), CopyOf(type), type)
    BY <2>1, <1>1, <1>10 DEF NoOlder, PresentOf, CopyOf
  <2> QED BY <2>2, <1>4 DEF UpdatesGetNewer
<1>12. ReadBeforeSent
  BY <1>1, <1>4, <1>10 DEF ReadBeforeSent
<1> QED
  BY <1>6, <1>7, <1>8, <1>9, <1>11, <1>12 DEF ReplicationInv

LEMMA ReplicationFrame == ReplicationInv /\ UNCHANGED replicationVars => ReplicationInv'
<1> SUFFICES ASSUME ReplicationInv, UNCHANGED replicationVars
             PROVE  ReplicationInv'
  OBVIOUS
<1>1. /\ UNCHANGED <<m_users, usersDb>>
      /\ UNCHANGED <<known, m_nextId, m_notifications, m_pendingQueue, m_subscribersQueue, m_queue>>
      /\ UNCHANGED <<handshake, stored, profileCopy, notificationCopy>>
      /\ UNCHANGED <<leader, updates, sentSince, crashes>>
  BY DEF replicationVars, profileVars, notificationVars, backupVars
<1>2. ReplicationTypeOK'
  BY <1>1 DEF ReplicationInv, ReplicationTypeOK, ProfileTypeOK, NotificationTypeOK
<1>3. \A type : PresentOf(type)' = PresentOf(type) /\ CopyOf(type)' = CopyOf(type)
  BY <1>1 DEF PresentOf, CopyOf, Notifications
<1>4. EveryChangeIsSent' /\ UpdatesGetNewer'
  BY <1>1, <1>3 DEF ReplicationInv, EveryChangeIsSent, UpdatesGetNewer
<1>5. FileCoversMemory' /\ FileCoversCopies'
  BY <1>1 DEF ReplicationInv, FileCoversMemory, FileCoversCopies, FileCovers
<1>6. OnlyMembersAreSent'
  BY <1>1 DEF ReplicationInv, OnlyMembersAreSent, IsMember
<1>7. ReadBeforeSent'
  BY <1>1 DEF ReplicationInv, ReadBeforeSent, NoOlderData, Notifications
<1> QED
  BY <1>2, <1>4, <1>5, <1>6, <1>7 DEF ReplicationInv

LEMMA ReplicationStepKeepsInv ==
    ReplicationInv /\ [ReplicationNext]_replicationVars => ReplicationInv'
<1> SUFFICES ASSUME ReplicationInv, [ReplicationNext]_replicationVars
             PROVE  ReplicationInv'
  OBVIOUS
<1>1. ASSUME NEW u \in Username, NEW t \in Thread, Login(u, t) \/ Logout(u, t) \/ FollowUser(t, u)
      PROVE  ReplicationInv'
  BY <1>1, LoginKeepsReplication, LogoutKeepsReplication, FollowUserKeepsReplication
<1>2. ASSUME NEW t \in Thread,
             SendTweet(t) \/ SubscribeSession(t) \/ UnsubscribeSession(t) \/ Consume(t)
      PROVE  ReplicationInv'
  BY <1>2, NotificationOperationKeepsReplication, ConsumeKeepsReplication
<1>3. CASE HandshakeProfile \/ HandshakeRead \/ HandshakeNotifications \/ HandshakeEnd
  BY <1>3, HandshakeProfileKeepsReplication, HandshakeReadKeepsReplication,
     HandshakeNotificationsKeepsReplication, HandshakeEndKeepsReplication
<1>4. CASE ReceiveUpdate \/ Crash \/ TakeOver
  BY <1>4, ReceiveUpdateKeepsReplication, CrashKeepsReplication, TakeOverKeepsReplication
<1> QED
  BY <1>1, <1>2, <1>3, <1>4, ReplicationFrame DEF ReplicationNext

\* The inductive invariant holds whatever is lost in a crash and however the
\* handshake falls between the updates.
THEOREM ReplicationInvariant == ReplicationSpec => []ReplicationInv
BY ReplicationInitHasInv, ReplicationStepKeepsInv, PTL DEF ReplicationSpec

\* From the first update a member is sent on, what he will have when he has
\* received everything is what the leader has: no operation forgets the callback.
THEOREM EveryChangeIsAlwaysSent == ReplicationSpec => []EveryChangeIsSent
BY ReplicationInvariant, PTL DEF ReplicationInv

\* A restart from Users.db finds every user and follower that the present leader
\* has, through any number of fail-overs and the rows they double.
THEOREM FileAlwaysCoversMemory == ReplicationSpec => []FileCoversMemory
BY ReplicationInvariant, PTL DEF ReplicationInv

\* What is received is no older than what the backup had.
LEMMA CopiesGetNewer ==
    ASSUME ReplicationInv, [ReplicationNext]_replicationVars, leader = leader'
    PROVE  /\ NoOlderData(notificationCopy', notificationCopy)
           /\ NoOlderProfile(profileCopy', profileCopy)
<1>1. notificationCopy \in NotificationData /\ IsProfile(profileCopy)
  BY DEF ReplicationInv, ReplicationTypeOK
<1>2. CASE UNCHANGED <<profileCopy, notificationCopy>>
  <2>1. notificationCopy.m_nextId <= notificationCopy.m_nextId
    <3>1. notificationCopy.m_nextId \in Nat
      BY <1>1 DEF NotificationData
    <3> QED BY <3>1
  <2> QED BY <2>1, <1>2 DEF NoOlderData, NoOlderProfile
<1>3. CASE ReceiveUpdate
  <2>1. /\ updates # <<>> /\ OfItself(updates)
    BY <1>3, InvTypes DEF ReceiveUpdate
  <2>2. 1 \in DOMAIN updates /\ Head(updates) = updates[1]
    BY <2>1, ReceivedUpdate
  <2>3. PICK p : p = updates[1]
    OBVIOUS
  <2>4. p.type \in UpdateType /\ NoOlder(p.payload, CopyOf(p.type), p.type)
    BY <2>2, <2>3, InvTypes DEF ReplicationInv, UpdatesGetNewer
  <2>5. CASE p.type = "UPDATE_PROFILE"
    <3>1. profileCopy' = p.payload /\ notificationCopy' = notificationCopy
      BY <2>2, <2>3, <2>5, <1>3 DEF ReceiveUpdate
    <3>2. NoOlderProfile(p.payload, profileCopy)
      BY <2>4, <2>5 DEF NoOlder, CopyOf
    <3>3. notificationCopy.m_nextId \in Nat
      BY <1>1 DEF NotificationData
    <3>4. NoOlderData(notificationCopy, notificationCopy)
      BY <3>3 DEF NoOlderData
    <3> QED BY <3>1, <3>2, <3>4
  <2>6. CASE p.type # "UPDATE_PROFILE"
    <3>1. notificationCopy' = p.payload /\ profileCopy' = profileCopy
      BY <2>2, <2>3, <2>6, <1>3 DEF ReceiveUpdate
    <3>2. NoOlderData(p.payload, notificationCopy)
      BY <2>4, <2>6 DEF NoOlder, CopyOf
    <3>3. NoOlderProfile(profileCopy, profileCopy)
      BY DEF NoOlderProfile
    <3> QED BY <3>1, <3>2, <3>3
  <2> QED BY <2>5, <2>6
<1>4. CASE Crash \/ TakeOver
  BY <1>4 DEF Crash, TakeOver
<1>5. CASE UNCHANGED replicationVars
  BY <1>2, <1>5 DEF replicationVars, backupVars
<1>6. CASE HandshakeProfile \/ HandshakeRead \/ HandshakeNotifications \/ HandshakeEnd
  BY <1>2, <1>6 DEF HandshakeProfile, HandshakeRead, HandshakeNotifications, HandshakeEnd, Handshake
<1>7. CASE \E u \in Username, t \in Thread : Login(u, t) \/ Logout(u, t) \/ FollowUser(t, u)
  BY <1>2, <1>7 DEF Login, Logout, FollowUser, backupVars
<1>8. CASE \E t \in Thread :
              SendTweet(t) \/ SubscribeSession(t) \/ UnsubscribeSession(t) \/ Consume(t)
  BY <1>2, <1>8 DEF SendTweet, SubscribeSession, UnsubscribeSession, Consume, backupVars
<1> QED
  BY <1>3, <1>4, <1>5, <1>6, <1>7, <1>8 DEF ReplicationNext

\* A backup's copy of each manager only gets newer while one leader leads it,
\* although the packets of the handshake are read under no mutex.
THEOREM CopiesNeverGoBackwards == ReplicationSpec => CopiesNeverGoBack
<1>1. ReplicationInv /\ [ReplicationNext]_replicationVars =>
         (leader = leader' =>
            /\ NoOlderData(notificationCopy', notificationCopy)
            /\ NoOlderProfile(profileCopy', profileCopy))
  BY CopiesGetNewer
<1> QED
  BY <1>1, ReplicationInvariant, PTL DEF ReplicationSpec, CopiesNeverGoBack

=============================================================================
