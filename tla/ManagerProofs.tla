---------------------------- MODULE ManagerProofs ----------------------------
(***************************************************************************)
(* What ProfileManager guarantees for any users, any threads and any       *)
(* Users.db to start from, and what NotificationManager guarantees for any *)
(* users, any consumers and any number of notifications.                   *)
(***************************************************************************)
EXTENDS ProfileManager, NotificationManager, SubsequencesProofs

-----------------------------------------------------------------------------
(* The sessions of a user.                                                 *)

\* The list after a session is added to it.
LEMMA AddedSession ==
    ASSUME NEW q \in Seq(Thread), Distinct(q), NEW t \in Thread, ~InList(q, t)
    PROVE  /\ Append(q, t) \in Seq(Thread)
           /\ Distinct(Append(q, t))
           /\ \A s : InList(Append(q, t), s) <=> InList(q, s) \/ s = t
<1> DEFINE a == Append(q, t)
<1>1. /\ a \in Seq(Thread) /\ Len(a) = Len(q) + 1
      /\ \A i \in 1 .. Len(q) : a[i] = q[i]
      /\ a[Len(q) + 1] = t
  BY AppendProperties
<1>2. /\ Len(q) \in Nat /\ DOMAIN q = 1 .. Len(q) /\ DOMAIN a = 1 .. Len(q) + 1
  BY <1>1, LenProperties
<1> HIDE DEF a
<1>3. \A i \in DOMAIN a : i \in DOMAIN q \/ i = Len(q) + 1
  BY <1>2
<1>4. Distinct(a)
  <2> SUFFICES ASSUME NEW i \in DOMAIN a, NEW j \in DOMAIN a, a[i] = a[j]
               PROVE  i = j
    BY DEF Distinct
  <2>1. CASE i \in DOMAIN q /\ j \in DOMAIN q
    BY <2>1, <1>1, <1>2 DEF Distinct
  <2>2. CASE i = Len(q) + 1 \/ j = Len(q) + 1
    BY <2>2, <1>1, <1>2, <1>3 DEF InList
  <2> QED BY <2>1, <2>2, <1>3
<1>5. DOMAIN q \subseteq DOMAIN a /\ Len(q) + 1 \in DOMAIN a
  BY <1>2
<1>6. \A s : InList(a, s) <=> InList(q, s) \/ s = t
  BY <1>1, <1>2, <1>3, <1>5 DEF InList
<1> QED BY <1>1, <1>4, <1>6 DEF a

\* Two slots have no middle: looking at the ends of the list finds any session.
LEMMA RemovedSession ==
    ASSUME NEW q \in Seq(Thread), Distinct(q), Len(q) <= 2, NEW t \in Thread
    PROVE  /\ RemoveSession(q, t) \in Seq(Thread)
           /\ Distinct(RemoveSession(q, t))
           /\ Len(RemoveSession(q, t)) = IF InList(q, t) THEN Len(q) - 1 ELSE Len(q)
           /\ \A s : InList(RemoveSession(q, t), s) <=> InList(q, s) /\ s # t
<1> DEFINE r == RemoveSession(q, t)
<1>1. /\ Len(q) \in 0 .. 2 /\ DOMAIN q = 1 .. Len(q) /\ q \in [1 .. Len(q) -> Thread]
  <2>1. /\ Len(q) \in Nat /\ DOMAIN q = 1 .. Len(q) /\ q \in [1 .. Len(q) -> Thread]
    BY LenProperties
  <2> QED BY <2>1
<1>2. CASE Len(q) = 0
  <2>1. q = <<>>
    BY <1>2, EmptySeq, LenProperties
  <2>2. r = q
    BY <2>1 DEF RemoveSession
  <2> QED BY <1>1, <1>2, <2>2 DEF InList, Distinct
<1>3. CASE Len(q) > 0 /\ q[1] = t
  <2>1. q # <<>>
    BY <1>3, EmptySeq
  <2>2. r = Tail(q)
    BY <1>3, <2>1 DEF RemoveSession
  <2>3. /\ r \in Seq(Thread) /\ Len(r) = Len(q) - 1 /\ DOMAIN r = 1 .. Len(q) - 1
        /\ \A i \in 1 .. Len(q) - 1 : r[i] = q[i + 1]
    BY <2>1, <2>2, HeadTailProperties, LenProperties
  <2> HIDE DEF r
  <2>4. CASE Len(q) = 1
    <3>1. DOMAIN r = {} /\ DOMAIN q = {1}
      BY <1>1, <2>3, <2>4
    <3>2. Distinct(r) /\ InList(q, t) /\ \A s : InList(r, s) <=> InList(q, s) /\ s # t
      BY <3>1, <1>3 DEF InList, Distinct
    <3> QED BY <3>2, <2>3 DEF r
  <2>5. CASE Len(q) = 2
    <3>1. DOMAIN r = {1} /\ r[1] = q[2] /\ DOMAIN q = {1, 2} /\ q[2] # t
      BY <1>1, <1>3, <2>3, <2>5 DEF Distinct
    <3>2. Distinct(r) /\ InList(q, t) /\ \A s : InList(r, s) <=> InList(q, s) /\ s # t
      BY <3>1, <1>3 DEF InList, Distinct
    <3> QED BY <3>2, <2>3 DEF r
  <2>6. Len(q) = 1 \/ Len(q) = 2
    BY <1>1, <1>3
  <2> QED BY <2>4, <2>5, <2>6
<1>4. CASE Len(q) > 0 /\ q[1] # t /\ q[Len(q)] = t
  <2>1. q # <<>>
    BY <1>4, EmptySeq
  <2>2. r = SubSeq(q, 1, Len(q) - 1)
    BY <1>4, <2>1 DEF RemoveSession
  <2>3. Len(q) = 2
    BY <1>1, <1>4
  <2>4. /\ r \in Seq(Thread) /\ Len(r) = 1 /\ r[1] = q[1]
    BY <1>1, <2>2, <2>3, SubSeqProperties
  <2>5. DOMAIN r = {1} /\ DOMAIN q = {1, 2} /\ q[1] # t /\ q[2] = t
    BY <1>1, <1>4, <2>3, <2>4, LenProperties
  <2> HIDE DEF r
  <2>6. /\ Distinct(r) /\ InList(q, t)
        /\ \A s : InList(r, s) <=> InList(q, s) /\ s # t
    BY <2>4, <2>5 DEF InList, Distinct
  <2> QED BY <2>3, <2>4, <2>6 DEF r
<1>5. CASE Len(q) > 0 /\ q[1] # t /\ q[Len(q)] # t
  <2>1. q # <<>>
    BY <1>5, EmptySeq
  <2>2. r = q
    BY <1>5, <2>1 DEF RemoveSession
  <2>3. ~InList(q, t)
    BY <1>1, <1>5 DEF InList
  <2> QED BY <2>2, <2>3
<1>6. Len(q) = 0 \/ Len(q) > 0
  BY <1>1
<1> QED BY <1>2, <1>3, <1>4, <1>5, <1>6

-----------------------------------------------------------------------------
(* The inductive invariant.                                                *)

\* What the reader makes of a file with one row per user.
LEMMA ReadBack ==
    ASSUME NEW rows \in Seq(Row),
           \A i, j \in DOMAIN rows : rows[i].user = rows[j].user => i = j,
           \A i \in DOMAIN rows : rows[i].user \notin rows[i].followers
    PROVE  /\ DOMAIN ReadUsers(rows) = {rows[i].user : i \in DOMAIN rows}
           /\ ReadUsers(rows) \in [DOMAIN ReadUsers(rows) -> User]
           /\ \A i \in DOMAIN rows :
                /\ ReadUsers(rows)[rows[i].user].m_followers = rows[i].followers
                /\ ReadUsers(rows)[rows[i].user].m_sessions = <<>>
<1> DEFINE users == ReadUsers(rows)
<1>1. DOMAIN users = {rows[i].user : i \in DOMAIN rows}
  BY DEF ReadUsers
<1>2. ASSUME NEW i \in DOMAIN rows
      PROVE  /\ users[rows[i].user] \in User
             /\ users[rows[i].user].m_followers = rows[i].followers
             /\ users[rows[i].user].m_sessions = <<>>
  <2>1. FirstRow(rows, rows[i].user) = i
    <3>1. \A j \in DOMAIN rows : rows[j].user = rows[i].user => j = i
      OBVIOUS
    <3>2. i <= i
      BY LenProperties
    <3> QED BY <3>1, <3>2 DEF FirstRow
  <2>2. i \in Nat /\ rows[i] \in Row
    BY LenProperties, ElementOfSeq
  <2>3. rows[i].followers \ {rows[i].user} = rows[i].followers
    OBVIOUS
  <2>4. users[rows[i].user] = [m_id |-> i, m_followers |-> rows[i].followers, m_sessions |-> <<>>]
    BY <2>1, <2>3 DEF ReadUsers
  <2>5. <<>> \in Seq(Thread) /\ rows[i].followers \in SUBSET Username
    BY <2>2, EmptySeq DEF Row
  <2> QED BY <2>2, <2>4, <2>5 DEF User
<1>3. users = [u \in DOMAIN users |-> users[u]]
  BY DEF ReadUsers
<1> HIDE DEF users
<1>4. \A u \in DOMAIN users : users[u] \in User
  BY <1>1, <1>2
<1>5. users \in [DOMAIN users -> User]
  BY <1>3, <1>4
<1> QED BY <1>1, <1>2, <1>5 DEF users

LEMMA LoadedFileHasInv ==
    ASSUME usersDb \in Seq(Row), m_users = ReadUsers(usersDb),
           \A i, j \in DOMAIN usersDb : usersDb[i].user = usersDb[j].user => i = j,
           \A i \in DOMAIN usersDb : usersDb[i].user \notin usersDb[i].followers
    PROVE  ProfileInv
<1>1. /\ DOMAIN m_users = {usersDb[i].user : i \in DOMAIN usersDb}
      /\ m_users \in [DOMAIN m_users -> User]
      /\ \A i \in DOMAIN usersDb :
           /\ m_users[usersDb[i].user].m_followers = usersDb[i].followers
           /\ m_users[usersDb[i].user].m_sessions = <<>>
  BY ReadBack
<1>2. \A i \in DOMAIN usersDb : usersDb[i].user \in Username
  <2>1. \A i \in DOMAIN usersDb : usersDb[i] \in Row
    BY LenProperties, ElementOfSeq
  <2> QED BY <2>1 DEF Row
<1>3. ProfileTypeOK
  BY <1>1, <1>2 DEF ProfileTypeOK
<1>4. DbMirrorsMemory
  BY <1>1 DEF DbMirrorsMemory
<1>5. NobodyFollowsHimself
  BY <1>1 DEF NobodyFollowsHimself
<1>6. SessionsFitTheSlots
  <2>1. Distinct(<<>>) /\ Len(<<>>) <= MAX_SESSIONS_PER_USER
    BY MaxSessionsAssumption, EmptySeq DEF Distinct
  <2> QED BY <2>1, <1>1 DEF SessionsFitTheSlots
<1> QED BY <1>3, <1>4, <1>5, <1>6 DEF ProfileInv

LEMMA StartSessionKeepsInv ==
    ASSUME ProfileInv, NEW u \in Username, NEW t \in Thread, t \notin OpenSessions,
           StartSession(u, t)
    PROVE  ProfileInv'
<1> USE DEF ProfileInv
<1>1. /\ DOMAIN m_users \subseteq Username /\ m_users \in [DOMAIN m_users -> User]
      /\ usersDb \in Seq(Row)
      /\ \A i \in DOMAIN usersDb : usersDb[i] \in Row
  BY LenProperties, ElementOfSeq DEF ProfileTypeOK
<1>2. CASE u \in DOMAIN m_users
  <2> DEFINE q == m_users[u].m_sessions
  <2>1. /\ Len(q) < MAX_SESSIONS_PER_USER
        /\ m_users' = [m_users EXCEPT ![u].m_sessions = Append(@, t)]
        /\ usersDb' = usersDb
    BY <1>2 DEF StartSession
  <2>2. q \in Seq(Thread) /\ Distinct(q) /\ ~InList(q, t)
    BY <1>1, <1>2 DEF SessionsFitTheSlots, User, OpenSessions, InList
  <2>3. Append(q, t) \in Seq(Thread) /\ Distinct(Append(q, t)) /\ Len(Append(q, t)) = Len(q) + 1
    BY <2>2, AddedSession, AppendProperties
  <2>4. Len(Append(q, t)) <= MAX_SESSIONS_PER_USER
    BY <2>1, <2>2, <2>3, LenProperties, MaxSessionsAssumption
  <2>5. /\ DOMAIN m_users' = DOMAIN m_users
        /\ m_users'[u].m_sessions = Append(q, t) /\ m_users'[u] \in User
        /\ m_users'[u].m_followers = m_users[u].m_followers
        /\ \A v \in DOMAIN m_users : v # u => m_users'[v] = m_users[v]
        /\ m_users' \in [DOMAIN m_users' -> User]
    BY <1>1, <1>2, <2>1, <2>3 DEF User
  <2> HIDE DEF q
  <2>6. \A v \in DOMAIN m_users : m_users'[v].m_followers = m_users[v].m_followers
    BY <2>5
  <2>7. ProfileTypeOK'
    BY <1>1, <2>1, <2>5 DEF ProfileTypeOK
  <2>8. DbMirrorsMemory' /\ NobodyFollowsHimself'
    BY <2>1, <2>5, <2>6 DEF DbMirrorsMemory, NobodyFollowsHimself
  <2>9. SessionsFitTheSlots'
    BY <2>3, <2>4, <2>5 DEF SessionsFitTheSlots
  <2> QED BY <2>7, <2>8, <2>9
<1>3. CASE u \notin DOMAIN m_users
  <2> DEFINE new == [m_id |-> Cardinality(DOMAIN m_users), m_followers |-> {},
                     m_sessions |-> <<t>>]
             row == [user |-> u, followers |-> {}]
  <2>1. /\ m_users' = [v \in DOMAIN m_users \cup {u} |-> IF v = u THEN new ELSE m_users[v]]
        /\ usersDb' = Append(usersDb, row)
    BY <1>3 DEF StartSession, SaveNewUser
  <2>2. Cardinality(DOMAIN m_users) \in Nat
    BY <1>1, UsernamesAreFinite, FS_Subset, FS_CardinalityType
  <2>3. new \in User /\ new.m_followers = {} /\ new.m_sessions = <<t>>
    BY <2>2 DEF User
  <2>4. row \in Row /\ row.user = u /\ row.followers = {}
    BY DEF Row
  <2> HIDE DEF new, row
  <2>5. /\ DOMAIN m_users' = DOMAIN m_users \cup {u} /\ m_users'[u] = new
        /\ \A v \in DOMAIN m_users : m_users'[v] = m_users[v]
        /\ m_users' \in [DOMAIN m_users' -> User]
    BY <1>1, <1>3, <2>1, <2>3
  <2>6. /\ usersDb' \in Seq(Row) /\ DOMAIN usersDb' = DOMAIN usersDb \cup {Len(usersDb) + 1}
        /\ \A i \in DOMAIN usersDb : usersDb'[i] = usersDb[i]
        /\ usersDb'[Len(usersDb) + 1] = row
    <3>1. /\ usersDb' \in Seq(Row) /\ Len(usersDb') = Len(usersDb) + 1
          /\ \A i \in 1 .. Len(usersDb) : usersDb'[i] = usersDb[i]
          /\ usersDb'[Len(usersDb) + 1] = row
      BY <1>1, <2>1, <2>4, AppendProperties
    <3>2. /\ DOMAIN usersDb' = 1 .. Len(usersDb) + 1 /\ DOMAIN usersDb = 1 .. Len(usersDb)
          /\ Len(usersDb) \in Nat
      BY <1>1, <3>1, LenProperties
    <3> QED BY <3>1, <3>2
  <2>7. ProfileTypeOK'
    BY <1>1, <2>5, <2>6 DEF ProfileTypeOK
  <2>8. DbMirrorsMemory'
    <3>1. \A i \in DOMAIN usersDb : usersDb[i].user \in DOMAIN m_users /\ usersDb[i].user # u
      BY <1>3 DEF DbMirrorsMemory
    <3>2. DOMAIN m_users' = {usersDb'[i].user : i \in DOMAIN usersDb'}
      BY <2>4, <2>5, <2>6 DEF DbMirrorsMemory
    <3>3. \A i, j \in DOMAIN usersDb' : usersDb'[i].user = usersDb'[j].user => i = j
      BY <2>4, <2>6, <3>1 DEF DbMirrorsMemory
    <3>4. ASSUME NEW i \in DOMAIN usersDb'
          PROVE  usersDb'[i].followers = m_users'[usersDb'[i].user].m_followers
      <4>1. CASE i \in DOMAIN usersDb
        BY <4>1, <2>5, <2>6, <3>1 DEF DbMirrorsMemory
      <4>2. CASE i = Len(usersDb) + 1
        BY <4>2, <2>3, <2>4, <2>5, <2>6
      <4> QED BY <4>1, <4>2, <2>6
    <3> QED BY <3>2, <3>3, <3>4 DEF DbMirrorsMemory
  <2>9. NobodyFollowsHimself'
    BY <2>3, <2>5 DEF NobodyFollowsHimself
  <2>10. SessionsFitTheSlots'
    <3>1. Distinct(<<t>>) /\ Len(<<t>>) <= MAX_SESSIONS_PER_USER
      BY MaxSessionsAssumption DEF Distinct
    <3> QED BY <3>1, <2>3, <2>5 DEF SessionsFitTheSlots
  <2> QED BY <2>7, <2>8, <2>9, <2>10
<1> QED BY <1>2, <1>3

LEMMA CloseSessionKeepsInv ==
    ASSUME ProfileInv, NEW u \in DOMAIN m_users, NEW t \in Thread, CloseSession(u, t)
    PROVE  ProfileInv'
<1> USE DEF ProfileInv
<1> DEFINE q == m_users[u].m_sessions
<1>1. /\ DOMAIN m_users \subseteq Username /\ m_users \in [DOMAIN m_users -> User]
      /\ m_users' = [m_users EXCEPT ![u].m_sessions = RemoveSession(@, t)]
      /\ usersDb' = usersDb
  BY DEF ProfileTypeOK, CloseSession
<1>2. q \in Seq(Thread) /\ Distinct(q) /\ Len(q) <= 2 /\ Len(q) <= MAX_SESSIONS_PER_USER
  <2>1. q \in Seq(Thread) /\ Distinct(q) /\ Len(q) <= MAX_SESSIONS_PER_USER
    BY <1>1 DEF SessionsFitTheSlots, User
  <2> QED BY <2>1, LenProperties, MaxSessionsAssumption
<1>3. /\ RemoveSession(q, t) \in Seq(Thread) /\ Distinct(RemoveSession(q, t))
      /\ Len(RemoveSession(q, t)) \in {Len(q) - 1, Len(q)}
  BY <1>2, RemovedSession
<1>4. Len(RemoveSession(q, t)) <= MAX_SESSIONS_PER_USER
  BY <1>2, <1>3, LenProperties, MaxSessionsAssumption
<1>5. /\ DOMAIN m_users' = DOMAIN m_users
      /\ m_users'[u].m_sessions = RemoveSession(q, t)
      /\ m_users'[u].m_followers = m_users[u].m_followers
      /\ \A v \in DOMAIN m_users : v # u => m_users'[v] = m_users[v]
      /\ m_users' \in [DOMAIN m_users' -> User]
  BY <1>1, <1>3 DEF User
<1> HIDE DEF q
<1>6. ProfileTypeOK'
  BY <1>1, <1>5 DEF ProfileTypeOK
<1>7. \A v \in DOMAIN m_users : m_users'[v].m_followers = m_users[v].m_followers
  BY <1>5
<1>8. DbMirrorsMemory' /\ NobodyFollowsHimself'
  BY <1>1, <1>5, <1>7 DEF DbMirrorsMemory, NobodyFollowsHimself
<1>9. SessionsFitTheSlots'
  BY <1>3, <1>4, <1>5 DEF SessionsFitTheSlots
<1> QED BY <1>6, <1>8, <1>9

LEMMA FollowKeepsInv ==
    ASSUME ProfileInv, NEW f \in Username, NEW u \in Username, Follow(f, u)
    PROVE  ProfileInv'
<1> USE DEF ProfileInv
<1>1. /\ DOMAIN m_users \subseteq Username /\ m_users \in [DOMAIN m_users -> User]
      /\ usersDb \in Seq(Row)
      /\ \A i \in DOMAIN usersDb : usersDb[i] \in Row
      /\ u \in DOMAIN m_users /\ f # u
      /\ m_users' = [m_users EXCEPT ![u].m_followers = @ \cup {f}]
  BY LenProperties, ElementOfSeq DEF ProfileTypeOK, Follow, CanFollow
<1>2. /\ DOMAIN usersDb' = DOMAIN usersDb
      /\ usersDb' = [i \in DOMAIN usersDb |-> usersDb'[i]]
      /\ \A i \in DOMAIN usersDb :
           /\ usersDb'[i].user = usersDb[i].user
           /\ usersDb'[i].followers = IF usersDb[i].user = u
                                      THEN usersDb[i].followers \cup {f}
                                      ELSE usersDb[i].followers
           /\ usersDb'[i] \in Row
  BY <1>1 DEF Follow, SaveNewFollower, Row
<1>3. /\ DOMAIN m_users' = DOMAIN m_users
      /\ m_users'[u].m_followers = m_users[u].m_followers \cup {f}
      /\ \A v \in DOMAIN m_users : m_users'[v].m_sessions = m_users[v].m_sessions
      /\ \A v \in DOMAIN m_users : v # u => m_users'[v] = m_users[v]
      /\ m_users' \in [DOMAIN m_users' -> User]
  BY <1>1 DEF User
<1>4. usersDb' \in Seq(Row)
  <2>1. Len(usersDb) \in Nat /\ DOMAIN usersDb = 1 .. Len(usersDb)
    BY <1>1, LenProperties
  <2>2. usersDb' \in [1 .. Len(usersDb) -> Row]
    BY <1>2, <2>1
  <2> QED BY <2>1, <2>2, SeqDef
<1>5. ProfileTypeOK'
  BY <1>1, <1>3, <1>4 DEF ProfileTypeOK
<1>6. DbMirrorsMemory'
  <2>1. /\ DOMAIN m_users = {usersDb[i].user : i \in DOMAIN usersDb}
        /\ \A i, j \in DOMAIN usersDb : usersDb[i].user = usersDb[j].user => i = j
        /\ \A i \in DOMAIN usersDb :
             /\ usersDb[i].user \in DOMAIN m_users
             /\ usersDb[i].followers = m_users[usersDb[i].user].m_followers
    BY DEF DbMirrorsMemory
  <2>2. \A i \in DOMAIN usersDb : usersDb'[i].user = usersDb[i].user
    BY <1>2
  <2>3. DOMAIN m_users' = {usersDb'[i].user : i \in DOMAIN usersDb'}
    <3>1. {usersDb'[i].user : i \in DOMAIN usersDb} = {usersDb[i].user : i \in DOMAIN usersDb}
      BY <2>2
    <3> QED BY <3>1, <2>1, <1>2, <1>3
  <2>4. ASSUME NEW i \in DOMAIN usersDb
        PROVE  usersDb'[i].followers = m_users'[usersDb'[i].user].m_followers
    <3>1. CASE usersDb[i].user = u
      BY <3>1, <1>2, <1>3, <2>1, <2>2
    <3>2. CASE usersDb[i].user # u
      <4>1. m_users'[usersDb[i].user] = m_users[usersDb[i].user]
        BY <3>2, <1>3, <2>1
      <4>2. usersDb'[i].followers = usersDb[i].followers
        BY <3>2, <1>2
      <4> QED BY <4>1, <4>2, <2>1, <2>2
    <3> QED BY <3>1, <3>2
  <2>5. \A i, j \in DOMAIN usersDb' : usersDb'[i].user = usersDb'[j].user => i = j
    BY <1>2, <2>1, <2>2
  <2> QED BY <1>2, <2>3, <2>4, <2>5 DEF DbMirrorsMemory
<1>7. NobodyFollowsHimself'
  BY <1>1, <1>3 DEF NobodyFollowsHimself
<1>8. SessionsFitTheSlots'
  BY <1>3 DEF SessionsFitTheSlots
<1> QED BY <1>5, <1>6, <1>7, <1>8

LEMMA RestartKeepsInv == ProfileInv /\ Restart => ProfileInv'
<1> SUFFICES ASSUME ProfileInv, Restart
             PROVE  ProfileInv'
  OBVIOUS
<1> USE DEF ProfileInv
<1>1. usersDb' = usersDb /\ m_users' = ReadUsers(usersDb) /\ usersDb \in Seq(Row)
  BY DEF Restart, ProfileTypeOK
<1>2. /\ \A i, j \in DOMAIN usersDb : usersDb[i].user = usersDb[j].user => i = j
      /\ \A i \in DOMAIN usersDb : usersDb[i].user \notin usersDb[i].followers
  BY DEF DbMirrorsMemory, NobodyFollowsHimself
<1>3. /\ DOMAIN m_users' = DOMAIN m_users
      /\ m_users' \in [DOMAIN m_users' -> User]
      /\ \A u \in DOMAIN m_users :
           m_users'[u].m_followers = m_users[u].m_followers /\ m_users'[u].m_sessions = <<>>
  BY <1>1, <1>2, ReadBack DEF DbMirrorsMemory
<1>4. ProfileTypeOK' /\ DbMirrorsMemory' /\ NobodyFollowsHimself'
  BY <1>1, <1>3 DEF ProfileTypeOK, DbMirrorsMemory, NobodyFollowsHimself
<1>5. SessionsFitTheSlots'
  <2>1. Distinct(<<>>) /\ Len(<<>>) <= MAX_SESSIONS_PER_USER
    BY MaxSessionsAssumption, EmptySeq DEF Distinct
  <2> QED BY <2>1, <1>3 DEF SessionsFitTheSlots
<1> QED BY <1>4, <1>5

LEMMA ProfileInitHasInv == ProfileInit => ProfileInv
<1> SUFFICES ASSUME ProfileInit
             PROVE  ProfileInv
  OBVIOUS
<1>1. /\ usersDb \in Seq(Row)
      /\ \A i, j \in DOMAIN usersDb : usersDb[i].user = usersDb[j].user => i = j
      /\ \A i \in DOMAIN usersDb : usersDb[i].user \notin usersDb[i].followers
  BY InitialDbAssumption DEF ProfileInit
<1> QED BY <1>1, LoadedFileHasInv DEF ProfileInit

LEMMA ProfileStepKeepsInv == ProfileInv /\ [ProfileNext]_profileVars => ProfileInv'
<1> SUFFICES ASSUME ProfileInv, [ProfileNext]_profileVars
             PROVE  ProfileInv'
  OBVIOUS
<1>1. ASSUME NEW u \in Username, NEW t \in Thread \ OpenSessions, StartSession(u, t)
      PROVE  ProfileInv'
  BY <1>1, StartSessionKeepsInv
<1>2. ASSUME NEW u \in DOMAIN m_users, NEW t \in OpenSessions, CloseSession(u, t)
      PROVE  ProfileInv'
  <2>1. t \in Thread
    BY LenProperties, ElementOfSeq DEF OpenSessions, ProfileInv, ProfileTypeOK, User
  <2> QED BY <1>2, <2>1, CloseSessionKeepsInv
<1>3. ASSUME NEW f \in Username, NEW u \in Username, Follow(f, u)
      PROVE  ProfileInv'
  BY <1>3, FollowKeepsInv
<1>4. CASE UNCHANGED profileVars
  BY <1>4 DEF profileVars, ProfileInv, ProfileTypeOK, DbMirrorsMemory, NobodyFollowsHimself,
              SessionsFitTheSlots
<1> QED
  BY <1>1, <1>2, <1>3, <1>4, RestartKeepsInv DEF ProfileNext

\* The inductive invariant holds of every behaviour, reloads included.
THEOREM ProfileInvariant == ProfileSpec => []ProfileInv
BY ProfileInitHasInv, ProfileStepKeepsInv, PTL DEF ProfileSpec

\* The state of the profile manager is always of its type.
THEOREM ProfileTypeCorrect == ProfileSpec => []ProfileTypeOK
BY ProfileInvariant, PTL DEF ProfileInv

\* Users.db and memory agree after every operation: startSession and follow save
\* what they change, and nothing else changes what is saved.
THEOREM DbAlwaysMirrorsMemory == ProfileSpec => []DbMirrorsMemory
BY ProfileInvariant, PTL DEF ProfileInv
-----------------------------------------------------------------------------
(* The action properties.                                                  *)

\* No step forgets a user or a follower.
LEMMA StepForgetsNothing ==
    ASSUME ProfileInv, [ProfileNext]_profileVars
    PROVE  \A u \in DOMAIN m_users :
              /\ u \in DOMAIN m_users'
              /\ m_users[u].m_followers \subseteq m_users'[u].m_followers
<1> DEFINE Kept == \A u \in DOMAIN m_users :
                      /\ u \in DOMAIN m_users'
                      /\ m_users[u].m_followers \subseteq m_users'[u].m_followers
<1>1. m_users \in [DOMAIN m_users -> User]
  BY DEF ProfileInv, ProfileTypeOK
<1>2. ASSUME NEW u \in Username, NEW t \in Thread, StartSession(u, t)
      PROVE  Kept
  <2>1. CASE u \in DOMAIN m_users
    <3>1. m_users' = [m_users EXCEPT ![u].m_sessions = Append(@, t)]
      BY <1>2, <2>1 DEF StartSession
    <3> QED
      BY <1>1, <3>1 DEF User
  <2>2. CASE u \notin DOMAIN m_users
    <3>1. DOMAIN m_users' = DOMAIN m_users \cup {u}
      BY <1>2, <2>2 DEF StartSession
    <3>2. \A v \in DOMAIN m_users : m_users'[v] = m_users[v]
      BY <1>2, <2>2 DEF StartSession
    <3> QED
      BY <3>1, <3>2
  <2> QED
    BY <2>1, <2>2
<1>3. ASSUME NEW u \in DOMAIN m_users, NEW t, CloseSession(u, t)
      PROVE  Kept
  BY <1>1, <1>3 DEF CloseSession, User
<1>4. ASSUME NEW f \in Username, NEW u \in Username, Follow(f, u)
      PROVE  Kept
  BY <1>1, <1>4 DEF Follow, CanFollow, User
<1>5. CASE Restart
  <2>1. m_users' = ReadUsers(usersDb) /\ usersDb \in Seq(Row)
    BY <1>5 DEF Restart, ProfileInv, ProfileTypeOK
  <2>2. /\ \A i, j \in DOMAIN usersDb : usersDb[i].user = usersDb[j].user => i = j
        /\ \A i \in DOMAIN usersDb : usersDb[i].user \notin usersDb[i].followers
    BY DEF ProfileInv, DbMirrorsMemory, NobodyFollowsHimself
  <2>3. /\ DOMAIN m_users' = {usersDb[i].user : i \in DOMAIN usersDb}
        /\ \A i \in DOMAIN usersDb :
             m_users'[usersDb[i].user].m_followers = usersDb[i].followers
    BY <2>1, <2>2, ReadBack
  <2> QED BY <2>3 DEF ProfileInv, DbMirrorsMemory
<1>6. CASE UNCHANGED profileVars
  BY <1>6 DEF profileVars
<1> QED BY <1>2, <1>3, <1>4, <1>5, <1>6 DEF ProfileNext

\* What was granted to a user survives every step, a reload from the file
\* included: there it is what the rows hold.
THEOREM NothingIsForgotten == ProfileSpec => NothingForgotten
<1>1. ProfileInv /\ [ProfileNext]_profileVars =>
        \A u \in DOMAIN m_users :
           /\ u \in DOMAIN m_users'
           /\ m_users[u].m_followers \subseteq m_users'[u].m_followers
  BY StepForgetsNothing
<1> QED BY <1>1, ProfileInvariant, PTL DEF ProfileSpec, NothingForgotten

\* closeSession takes the session it is given out of the list, and no other,
\* although it looks at the two ends of the list only.
THEOREM CloseAlwaysFreesItsSlot == ProfileSpec => CloseFreesItsSlot
<1> DEFINE Freed == \A u \in DOMAIN m_users : \A t \in Thread :
                      (InList(m_users[u].m_sessions, t) /\ CloseSession(u, t)) =>
                         {s \in Thread : InList(m_users'[u].m_sessions, s)} =
                         {s \in Thread : InList(m_users[u].m_sessions, s)} \ {t}
<1>1. ASSUME ProfileInv
      PROVE  Freed
  <2> SUFFICES ASSUME NEW u \in DOMAIN m_users, NEW t \in Thread, CloseSession(u, t)
               PROVE  {s \in Thread : InList(m_users'[u].m_sessions, s)} =
                      {s \in Thread : InList(m_users[u].m_sessions, s)} \ {t}
    OBVIOUS
  <2> DEFINE q == m_users[u].m_sessions
  <2>1. q \in Seq(Thread) /\ Distinct(q) /\ Len(q) <= 2
    <3>1. q \in Seq(Thread) /\ Distinct(q) /\ Len(q) <= MAX_SESSIONS_PER_USER
      BY <1>1 DEF ProfileInv, ProfileTypeOK, SessionsFitTheSlots, User
    <3> QED BY <3>1, LenProperties, MaxSessionsAssumption
  <2>2. m_users'[u].m_sessions = RemoveSession(q, t)
    BY <1>1 DEF CloseSession, ProfileInv, ProfileTypeOK, User
  <2>3. \A s : InList(RemoveSession(q, t), s) <=> InList(q, s) /\ s # t
    BY <2>1, RemovedSession
  <2> QED BY <2>2, <2>3
<1> QED BY <1>1, ProfileInvariant, PTL DEF ProfileSpec, CloseFreesItsSlot
-----------------------------------------------------------------------------
(* Queues of notifications.                                                *)

LEMMA RefIsPending ==
    ASSUME NEW s \in Username, NEW id \in Nat
    PROVE  Ref(s, id) \in Pending
BY DEF Ref, Pending

LEMMA AppendedList ==
    ASSUME NEW S, NEW q \in Seq(S), NEW p \in S, NEW e
    PROVE  /\ Append(q, p) \in Seq(S)
           /\ InList(Append(q, p), e) <=> InList(q, e) \/ e = p
<1>1. /\ Append(q, p) \in Seq(S)
      /\ DOMAIN Append(q, p) = 1 .. Len(q) + 1
      /\ \A i \in 1 .. Len(q) : Append(q, p)[i] = q[i]
      /\ Append(q, p)[Len(q) + 1] = p
  BY AppendProperties, LenProperties
<1>2. Len(q) \in Nat /\ DOMAIN q = 1 .. Len(q)
  BY LenProperties
<1>3. ASSUME NEW i \in DOMAIN Append(q, p)
      PROVE  i \in DOMAIN q \/ i = Len(q) + 1
  BY <1>1, <1>2
<1>4. DOMAIN q \subseteq DOMAIN Append(q, p) /\ Len(q) + 1 \in DOMAIN Append(q, p)
  BY <1>1, <1>2
<1> QED
  BY <1>1, <1>2, <1>3, <1>4 DEF InList

\* A notification newer than all in the queue keeps the queue in order.
LEMMA AppendedInOrder ==
    ASSUME NEW q \in Seq(Pending), NEW s \in Username, NEW id \in Nat,
           Increasing(q), \A i \in DOMAIN q : q[i].notificationId < id
    PROVE  /\ Increasing(Append(q, Ref(s, id)))
           /\ \A i \in DOMAIN Append(q, Ref(s, id)) :
                Append(q, Ref(s, id))[i].notificationId < id + 1
<1> DEFINE a == Append(q, Ref(s, id))
<1>1. /\ a \in Seq(Pending)
      /\ DOMAIN a = 1 .. Len(q) + 1
      /\ \A i \in 1 .. Len(q) : a[i] = q[i]
      /\ a[Len(q) + 1] = Ref(s, id)
  BY AppendProperties, LenProperties, RefIsPending
<1>2. Len(q) \in Nat /\ DOMAIN q = 1 .. Len(q)
  BY LenProperties
<1>3. a[Len(q) + 1].notificationId = id
  BY <1>1 DEF Ref
<1>4. \A i \in DOMAIN q : q[i].notificationId \in Nat
  <2>1. q \in [1 .. Len(q) -> Pending]
    BY LenProperties
  <2> QED BY <2>1, <1>2 DEF Pending
<1> HIDE DEF a
<1>5. ASSUME NEW i \in DOMAIN a
      PROVE  a[i].notificationId < id + 1
  <2>1. CASE i \in 1 .. Len(q)
    BY <2>1, <1>1, <1>2, <1>4
  <2>2. CASE i = Len(q) + 1
    BY <2>2, <1>3
  <2> QED BY <2>1, <2>2, <1>1, <1>2
<1>6. ASSUME NEW i \in DOMAIN a, NEW j \in DOMAIN a, i < j
      PROVE  a[i].notificationId < a[j].notificationId
  <2>1. i \in 1 .. Len(q)
    BY <1>1, <1>2, <1>6
  <2>2. CASE j \in 1 .. Len(q)
    BY <2>1, <2>2, <1>1, <1>2, <1>6 DEF Increasing
  <2>3. CASE j = Len(q) + 1
    BY <2>1, <2>3, <1>1, <1>2, <1>3
  <2> QED BY <2>2, <2>3, <1>1, <1>2
<1> QED
  BY <1>5, <1>6 DEF Increasing, a

LEMMA TailInOrder ==
    ASSUME NEW q \in Seq(Pending), q # <<>>, Increasing(q), NEW id \in Nat,
           \A i \in DOMAIN q : q[i].notificationId < id
    PROVE  /\ Tail(q) \in Seq(Pending)
           /\ Increasing(Tail(q))
           /\ \A i \in DOMAIN Tail(q) : Tail(q)[i].notificationId < id
<1>1. /\ Tail(q) \in Seq(Pending)
      /\ Len(Tail(q)) = Len(q) - 1
      /\ \A i \in 1 .. Len(Tail(q)) : Tail(q)[i] = q[i + 1]
  BY HeadTailProperties
<1>2. /\ Len(q) \in Nat /\ DOMAIN q = 1 .. Len(q)
      /\ DOMAIN Tail(q) = 1 .. Len(q) - 1
  BY <1>1, LenProperties
<1>3. ASSUME NEW i \in DOMAIN Tail(q)
      PROVE  i + 1 \in DOMAIN q /\ Tail(q)[i] = q[i + 1] /\ i \in Int
  BY <1>1, <1>2
<1> QED
  BY <1>1, <1>2, <1>3 DEF Increasing

-----------------------------------------------------------------------------
(* The inductive invariant.                                                *)

LEMMA InitHasInv ==
    ASSUME NEW users \in SUBSET Username, NotificationInit(users)
    PROVE  NotificationInv
<1>1. NotificationTypeOK
  BY EmptySeq DEF NotificationInit, NotificationTypeOK
<1>2. InSendingOrder /\ NothingPendingWhileOnline /\ PendingResolves
  BY DEF NotificationInit, InSendingOrder, Increasing, Fresh, NothingPendingWhileOnline,
         PendingResolves
<1>3. StoredOnce /\ UnknownHaveNothing /\ CountCoversHolders
  BY DEF NotificationInit, StoredOnce, UnknownHaveNothing, CountCoversHolders
<1> QED
  BY <1>1, <1>2, <1>3 DEF NotificationInv

\* A send counts at least the queues it writes to.
LEMMA SendCounts ==
    ASSUME NotificationTypeOK, NEW followers \in SUBSET Username
    PROVE  /\ StillPending(followers) \in Int
           /\ Cardinality(Offline(followers)) <= StillPending(followers)
           /\ Offline(followers) # {} => StillPending(followers) > 0
<1> DEFINE on == Online(followers)
           off == Offline(followers)
<1>1. IsFiniteSet(followers)
  BY UsernamesAreFinite, FS_Subset
<1>2. on \subseteq followers /\ off \subseteq followers \ on
  BY DEF Online, Offline
<1>3. IsFiniteSet(on) /\ IsFiniteSet(followers \ on) /\ IsFiniteSet(off)
  BY <1>1, <1>2, FS_Subset
<1>4. Cardinality(followers \ on) = Cardinality(followers) - Cardinality(on)
  <2>1. Cardinality(followers \ on) = Cardinality(followers) - Cardinality(followers \cap on)
    BY <1>1, FS_Difference
  <2>2. followers \cap on = on
    BY <1>2
  <2> QED BY <2>1, <2>2
<1>5. Cardinality(off) <= Cardinality(followers \ on)
  BY <1>2, <1>3, FS_Subset
<1>6. /\ Cardinality(followers) \in Nat /\ Cardinality(on) \in Nat
      /\ Cardinality(off) \in Nat
      /\ off # {} => Cardinality(off) # 0
  BY <1>1, <1>3, FS_CardinalityType, FS_EmptySet
<1> QED
  BY <1>4, <1>5, <1>6 DEF StillPending

\* What a send changes, queue by queue and list by list.
LEMMA SendEffect ==
    ASSUME NotificationTypeOK, NEW s \in Username, NEW to \in SUBSET Username, Send(s, to)
    PROVE  /\ \A u \in Username :
                m_pendingQueue'[u] = IF u \in Offline(to)
                                     THEN Append(m_pendingQueue[u], Ref(s, m_nextId))
                                     ELSE m_pendingQueue[u]
           /\ \A c \in Thread :
                m_queue'[c] = IF \E f \in Online(to) : c \in m_subscribersQueue[f]
                              THEN Append(m_queue[c], Ref(s, m_nextId)) ELSE m_queue[c]
           /\ \A t \in Username :
                m_notifications'[t] =
                    IF t = s /\ StillPending(to) > 0
                    THEN m_notifications[t] \cup
                            {[id |-> m_nextId, pendingCount |-> StillPending(to)]}
                    ELSE m_notifications[t]
<1> DEFINE new    == Ref(s, m_nextId)
           stored == [id |-> m_nextId, pendingCount |-> StillPending(to)]
<1>1. StillPending(to) \in Int
  BY SendCounts
<1>2. \A u \in Username :
         m_pendingQueue'[u] = IF u \in Offline(to)
                              THEN Append(m_pendingQueue[u], new) ELSE m_pendingQueue[u]
  BY DEF Send
<1>3. \A c \in Thread :
         m_queue'[c] = IF \E f \in Online(to) : c \in m_subscribersQueue[f]
                       THEN Append(m_queue[c], new) ELSE m_queue[c]
  BY DEF Send
<1>4. \A t \in Username :
         m_notifications'[t] = IF t = s /\ StillPending(to) > 0
                               THEN m_notifications[t] \cup {stored} ELSE m_notifications[t]
  <2>1. m_notifications' = [m_notifications EXCEPT ![s] =
                               IF StillPending(to) <= 0 THEN @ ELSE @ \cup {stored}]
    BY DEF Send
  <2>2. m_notifications \in [Username -> SUBSET Stored]
    BY DEF NotificationTypeOK
  <2>3. CASE StillPending(to) <= 0
    BY <2>1, <2>2, <2>3, <1>1
  <2>4. CASE StillPending(to) > 0
    <3>1. ~(StillPending(to) <= 0)
      BY <2>4, <1>1
    <3> QED BY <2>1, <2>2, <3>1, <2>4
  <2>5. StillPending(to) <= 0 \/ StillPending(to) > 0
    BY <1>1
  <2> QED BY <2>3, <2>4, <2>5
<1> QED BY <1>2, <1>3, <1>4

LEMMA SendKeepsInv ==
    ASSUME NotificationInv, NEW s \in Username, NEW to \in SUBSET (Username \ {s}),
           Send(s, to)
    PROVE  NotificationInv'
<1> DEFINE new    == Ref(s, m_nextId)
           stored == [id |-> m_nextId, pendingCount |-> StillPending(to)]
<1> USE DEF NotificationInv
<1>1. /\ NotificationTypeOK /\ new \in Pending /\ m_nextId \in Nat \ {0}
      /\ s \in known /\ to \subseteq Username
      /\ m_nextId' = m_nextId + 1
      /\ UNCHANGED <<known, m_subscribersQueue>>
  BY RefIsPending DEF Send, CanCreate, NotificationTypeOK
<1>2. /\ StillPending(to) \in Int
      /\ Cardinality(Offline(to)) <= StillPending(to)
      /\ Offline(to) # {} => StillPending(to) > 0
  BY <1>1, SendCounts
<1>3. \A u \in Username :
         m_pendingQueue'[u] = IF u \in Offline(to)
                              THEN Append(m_pendingQueue[u], new) ELSE m_pendingQueue[u]
  BY <1>1, SendEffect
<1>4. \A c \in Thread :
         m_queue'[c] = IF \E f \in Online(to) : c \in m_subscribersQueue[f]
                       THEN Append(m_queue[c], new) ELSE m_queue[c]
  BY <1>1, SendEffect
<1>5. \A t \in Username :
         m_notifications'[t] = IF t = s /\ StillPending(to) > 0
                               THEN m_notifications[t] \cup {stored} ELSE m_notifications[t]
  BY <1>1, SendEffect
<1>6. NotificationTypeOK'
  <2>1. m_notifications' \in [Username -> SUBSET Stored]
    <3>1. stored \in Stored
      BY <1>1, <1>2 DEF Stored
    <3>2. DOMAIN m_notifications' = Username
      BY <1>1 DEF Send, NotificationTypeOK
    <3>3. m_notifications' = [t \in Username |-> m_notifications'[t]]
      BY <1>1, <3>2 DEF Send, NotificationTypeOK
    <3>4. \A t \in Username : m_notifications'[t] \in SUBSET Stored
      BY <1>1, <1>5, <3>1 DEF NotificationTypeOK
    <3> QED BY <3>3, <3>4
  <2>2. m_pendingQueue' \in [Username -> Seq(Pending)]
    BY <1>1, AppendProperties DEF Send, NotificationTypeOK
  <2>3. m_queue' \in [Thread -> Seq(Pending)]
    BY <1>1, AppendProperties DEF Send, NotificationTypeOK
  <2> QED BY <1>1, <2>1, <2>2, <2>3 DEF NotificationTypeOK
<1>7. InSendingOrder'
  <2>1. ASSUME NEW q \in Seq(Pending), Increasing(q), Fresh(q)
        PROVE  /\ Increasing(Append(q, new))
               /\ \A i \in DOMAIN Append(q, new) :
                     Append(q, new)[i].notificationId < m_nextId'
               /\ \A i \in DOMAIN q : q[i].notificationId < m_nextId'
    <3>1. Len(q) \in Nat /\ DOMAIN q = 1 .. Len(q) /\ q \in [1 .. Len(q) -> Pending]
      BY LenProperties
    <3>2. \A i \in DOMAIN q : q[i].notificationId \in Nat
      BY <3>1 DEF Pending
    <3> QED BY <1>1, <2>1, <3>2, AppendedInOrder DEF Fresh
  <2>2. ASSUME NEW u \in Username
        PROVE  Increasing(m_pendingQueue[u])' /\ Fresh(m_pendingQueue[u])'
    <3>1. /\ m_pendingQueue[u] \in Seq(Pending)
          /\ Increasing(m_pendingQueue[u]) /\ Fresh(m_pendingQueue[u])
      BY <1>1 DEF InSendingOrder, NotificationTypeOK
    <3>2. CASE u \in Offline(to)
      BY <3>1, <3>2, <2>1, <1>3 DEF Increasing, Fresh
    <3>3. CASE u \notin Offline(to)
      BY <3>1, <3>3, <2>1, <1>3 DEF Increasing, Fresh
    <3> QED BY <3>2, <3>3
  <2>3. ASSUME NEW c \in Thread
        PROVE  Increasing(m_queue[c])' /\ Fresh(m_queue[c])'
    <3>1. /\ m_queue[c] \in Seq(Pending)
          /\ Increasing(m_queue[c]) /\ Fresh(m_queue[c])
      BY <1>1 DEF InSendingOrder, NotificationTypeOK
    <3>2. CASE m_queue'[c] = Append(m_queue[c], new)
      BY <3>1, <3>2, <2>1 DEF Increasing, Fresh
    <3>3. CASE m_queue'[c] = m_queue[c]
      BY <3>1, <3>3, <2>1 DEF Increasing, Fresh
    <3> QED BY <3>2, <3>3, <1>4
  <2> QED BY <2>2, <2>3 DEF InSendingOrder
<1>8. \A t \in Username : \A n \in m_notifications[t] :
         n \in Stored /\ n.id \in Nat /\ n.id < m_nextId
  BY <1>1 DEF NotificationTypeOK, StoredOnce, Stored
<1>9. StoredOnce'
  <2> SUFFICES ASSUME NEW t \in Username, NEW n \in m_notifications'[t],
                      NEW m \in m_notifications'[t]
               PROVE  n.id < m_nextId' /\ (n.id = m.id => n = m)
    BY DEF StoredOnce
  <2>1. /\ n \in m_notifications[t] \/ n = stored
        /\ m \in m_notifications[t] \/ m = stored
    BY <1>5
  <2> QED BY <2>1, <1>1, <1>8 DEF StoredOnce
<1>10. UnknownHaveNothing'
  BY <1>1, <1>3, <1>5 DEF UnknownHaveNothing, Offline
<1>11. ASSUME NEW u \in Username, NEW e
       PROVE  InList(m_pendingQueue'[u], e) <=>
                InList(m_pendingQueue[u], e) \/ (u \in Offline(to) /\ e = new)
  <2>1. m_pendingQueue[u] \in Seq(Pending)
    BY <1>1 DEF NotificationTypeOK
  <2> QED BY <2>1, <1>1, <1>3, AppendedList
<1>12. PendingResolves'
  <2> SUFFICES ASSUME NEW u \in Username, NEW i \in DOMAIN m_pendingQueue'[u]
               PROVE  IsStored(m_pendingQueue[u][i])'
    BY DEF PendingResolves
  <2> DEFINE p == m_pendingQueue'[u][i]
  <2>1. InList(m_pendingQueue'[u], p)
    BY DEF InList
  <2>2. CASE InList(m_pendingQueue[u], p)
    <3>1. IsStored(p)
      BY <2>2 DEF InList, PendingResolves
    <3>2. p.sender \in Username
      BY <3>1, <1>1 DEF IsStored, NotificationTypeOK
    <3>3. m_notifications[p.sender] \subseteq m_notifications'[p.sender]
      BY <3>2, <1>5
    <3> QED BY <3>1, <3>3, <1>1 DEF IsStored
  <2>3. CASE u \in Offline(to) /\ p = new
    <3>1. stored \in m_notifications'[s]
      BY <2>3, <1>2, <1>5
    <3> QED BY <3>1, <2>3, <1>1 DEF IsStored, Ref
  <2> QED BY <2>1, <2>2, <2>3, <1>11
<1>13. CountCoversHolders'
  <2> SUFFICES ASSUME NEW t \in Username, NEW n \in m_notifications'[t]
               PROVE  n.pendingCount >= Cardinality(Holders(t, n.id)') /\ n.pendingCount > 0
    BY DEF CountCoversHolders
  <2>1. CASE n \in m_notifications[t]
    <3>1. Ref(t, n.id) # new
      BY <2>1, <1>1, <1>8 DEF Ref
    <3>2. Holders(t, n.id)' = Holders(t, n.id)
      BY <3>1, <1>11 DEF Holders
    <3> QED BY <2>1, <3>2 DEF CountCoversHolders
  <2>2. CASE t = s /\ StillPending(to) > 0 /\ n = stored
    <3>1. \A u \in Username : ~InList(m_pendingQueue[u], new)
      <4> SUFFICES ASSUME NEW u \in Username, NEW i \in DOMAIN m_pendingQueue[u],
                          m_pendingQueue[u][i] = new
                   PROVE  FALSE
        BY DEF InList
      <4>1. new.notificationId < m_nextId
        BY DEF InSendingOrder, Fresh
      <4> QED BY <4>1, <1>1 DEF Ref
    <3>2. Offline(to) \subseteq Username
      BY <1>1 DEF Offline
    <3>3. Holders(s, n.id)' = Offline(to)
      BY <2>2, <3>1, <3>2, <1>11 DEF Holders
    <3> QED BY <2>2, <3>3, <1>2
  <2> QED BY <2>1, <2>2, <1>5
<1>14. NothingPendingWhileOnline'
  BY <1>1, <1>3 DEF NothingPendingWhileOnline, Offline
<1> QED
  BY <1>6, <1>7, <1>9, <1>10, <1>12, <1>13, <1>14

LEMMA TwoMembers ==
    ASSUME NEW S, IsFiniteSet(S), NEW a \in S, NEW b \in S, a # b
    PROVE  Cardinality(S) >= 2
<1>1. IsFiniteSet(S \ {a}) /\ Cardinality(S \ {a}) = Cardinality(S) - 1
  BY FS_RemoveElement
<1>2. S \ {a} # {}
  OBVIOUS
<1> QED
  BY <1>1, <1>2, FS_EmptySet, FS_CardinalityType

\* What subscribe hands over is a queue, whether it finds every entry or not.
LEMMA FoundIsQueue ==
    ASSUME NEW q \in Seq(Pending)
    PROVE  Found(q) \in Seq(Pending)
<1>1. {i \in DOMAIN q : IsStored(q[i])} \in SUBSET (1 .. Len(q))
  BY LenProperties
<1> QED
  BY <1>1, EntriesAreSequence DEF Found

\* If it finds every entry, that is the pending queue as it is.
LEMMA FoundAll ==
    ASSUME NEW q \in Seq(Pending), \A i \in DOMAIN q : IsStored(q[i])
    PROVE  Found(q) = q
<1>1. {i \in DOMAIN q : IsStored(q[i])} = 1 .. Len(q)
  BY LenProperties
<1> QED
  BY <1>1, EntriesAll DEF Found

LEMMA HoldersAreFinite ==
    ASSUME NEW s, NEW id
    PROVE  IsFiniteSet(Holders(s, id))
BY UsernamesAreFinite, FS_Subset DEF Holders

\* What a subscription changes: the pending queue is handed over as it is, and
\* nothing goes to the other sessions of the user.  The elements of a new list
\* come from the old: one that is claimed has one reference less.
LEMMA SubscribeEffect ==
    ASSUME NotificationInv, NEW u \in Username, NEW c \in Thread,
           m_queue[c] = <<>>, Subscribe(u, c)
    PROVE  /\ \A v \in Username : m_pendingQueue'[v] = IF v = u THEN <<>> ELSE m_pendingQueue[v]
           /\ \A d \in Thread : m_queue'[d] = IF d = c THEN m_pendingQueue[u] ELSE m_queue[d]
           /\ \A t \in Username : \A new \in m_notifications'[t] :
                \E n \in m_notifications[t] :
                   /\ n \in Stored /\ new \in Stored /\ new.id = n.id
                   /\ \/ ~InList(m_pendingQueue[u], Ref(t, n.id)) /\ new = n
                      \/ /\ InList(m_pendingQueue[u], Ref(t, n.id)) /\ n.pendingCount > 1
                         /\ new = [n EXCEPT !.pendingCount = @ - 1]
                         /\ new.pendingCount = n.pendingCount - 1
<1> DEFINE pending == m_pendingQueue[u]
           Claimed(t) == {n \in m_notifications[t] : InList(pending, Ref(t, n.id))}
<1> USE DEF NotificationInv
<1>1. /\ NotificationTypeOK /\ pending \in Seq(Pending)
      /\ m_subscribersQueue' = [m_subscribersQueue EXCEPT ![u] = @ \cup {c}]
      /\ m_pendingQueue' = [m_pendingQueue EXCEPT ![u] = <<>>]
  BY DEF Subscribe, NotificationTypeOK
<1>2. \A v \in Username : m_pendingQueue'[v] = IF v = u THEN <<>> ELSE m_pendingQueue[v]
  BY <1>1 DEF NotificationTypeOK
<1>3. Found(pending) = pending
  BY <1>1, FoundAll DEF PendingResolves
<1>4. \A d \in Thread : m_queue'[d] = IF d = c THEN pending ELSE m_queue[d]
  <2> SUFFICES ASSUME NEW d \in Thread
               PROVE  m_queue'[d] = IF d = c THEN pending ELSE m_queue[d]
    OBVIOUS
  <2>1. m_queue'[d] = IF d \in m_subscribersQueue'[u]
                      THEN m_queue[d] \o pending ELSE m_queue[d]
    BY <1>3 DEF Subscribe
  <2>2. m_subscribersQueue'[u] = m_subscribersQueue[u] \cup {c}
    BY <1>1 DEF NotificationTypeOK
  <2>3. CASE d = c
    BY <2>1, <2>2, <2>3, <1>1, ConcatEmptySeq
  <2>4. CASE d # c /\ d \in m_subscribersQueue[u]
    <3>1. pending = <<>> /\ m_queue[d] \in Seq(Pending)
      BY <2>4, <1>1 DEF NothingPendingWhileOnline, NotificationTypeOK
    <3> QED BY <3>1, <2>1, <2>4, ConcatEmptySeq
  <2>5. CASE d # c /\ d \notin m_subscribersQueue[u]
    BY <2>1, <2>2, <2>5
  <2> QED BY <2>3, <2>4, <2>5
<1>5. \A t \in Username :
        m_notifications'[t] = (m_notifications[t] \ Claimed(t)) \cup
            {[n EXCEPT !.pendingCount = @ - 1] : n \in {m \in Claimed(t) : m.pendingCount > 1}}
  BY DEF Subscribe, Claim
<1>6. ASSUME NEW t \in Username, NEW new \in m_notifications'[t]
      PROVE  \E n \in m_notifications[t] :
               /\ n \in Stored /\ new \in Stored /\ new.id = n.id
               /\ \/ n \notin Claimed(t) /\ new = n
                  \/ /\ n \in Claimed(t) /\ n.pendingCount > 1
                     /\ new = [n EXCEPT !.pendingCount = @ - 1]
                     /\ new.pendingCount = n.pendingCount - 1
  <2>1. m_notifications[t] \subseteq Stored
    BY <1>1 DEF NotificationTypeOK
  <2>2. CASE new \in m_notifications[t] \ Claimed(t)
    BY <2>1, <2>2
  <2>3. ASSUME NEW n \in Claimed(t), n.pendingCount > 1,
               new = [n EXCEPT !.pendingCount = @ - 1]
        PROVE  /\ n \in Stored /\ new \in Stored /\ new.id = n.id
               /\ new.pendingCount = n.pendingCount - 1
    BY <2>1, <2>3 DEF Stored
  <2> QED BY <2>2, <2>3, <1>5
<1> QED BY <1>2, <1>4, <1>6

LEMMA SubscribeKeepsInv ==
    ASSUME NotificationInv, NEW u \in Username, NEW c \in Thread,
           ~Subscribed(c), m_queue[c] = <<>>, Subscribe(u, c)
    PROVE  NotificationInv'
<1> DEFINE pending == m_pendingQueue[u]
           Claimed(t) == {n \in m_notifications[t] : InList(pending, Ref(t, n.id))}
<1> USE DEF NotificationInv
<1>1. /\ NotificationTypeOK /\ pending \in Seq(Pending)
      /\ known' = known \cup {u} /\ m_nextId' = m_nextId
      /\ m_subscribersQueue' = [m_subscribersQueue EXCEPT ![u] = @ \cup {c}]
      /\ m_pendingQueue' = [m_pendingQueue EXCEPT ![u] = <<>>]
  BY DEF Subscribe, NotificationTypeOK
<1>2. \A v \in Username : m_pendingQueue'[v] = IF v = u THEN <<>> ELSE m_pendingQueue[v]
  BY <1>1 DEF NotificationTypeOK
<1>4. \A d \in Thread : m_queue'[d] = IF d = c THEN pending ELSE m_queue[d]
  BY SubscribeEffect
<1>5. \A t \in Username :
        m_notifications'[t] = (m_notifications[t] \ Claimed(t)) \cup
            {[n EXCEPT !.pendingCount = @ - 1] : n \in {m \in Claimed(t) : m.pendingCount > 1}}
  BY DEF Subscribe, Claim
<1>6. ASSUME NEW t \in Username, NEW new \in m_notifications'[t]
      PROVE  \E n \in m_notifications[t] :
               /\ n \in Stored /\ new \in Stored /\ new.id = n.id
               /\ \/ n \notin Claimed(t) /\ new = n
                  \/ /\ n \in Claimed(t) /\ n.pendingCount > 1
                     /\ new = [n EXCEPT !.pendingCount = @ - 1]
                     /\ new.pendingCount = n.pendingCount - 1
  BY SubscribeEffect
<1>7. NotificationTypeOK'
  <2>1. m_notifications' \in [Username -> SUBSET Stored]
    <3>1. m_notifications' = [t \in Username |-> m_notifications'[t]]
      BY DEF Subscribe, Claim
    <3> QED BY <3>1, <1>6
  <2>2. m_queue' \in [Thread -> Seq(Pending)]
    <3>1. m_queue' = [d \in Thread |-> m_queue'[d]]
      BY DEF Subscribe
    <3>2. \A d \in Thread : m_queue'[d] \in Seq(Pending)
      BY <1>1, <1>4 DEF NotificationTypeOK
    <3> QED BY <3>1, <3>2
  <2>3. m_pendingQueue' \in [Username -> Seq(Pending)]
    BY <1>1, EmptySeq DEF NotificationTypeOK
  <2>4. m_subscribersQueue' \in [Username -> SUBSET Thread]
    BY <1>1 DEF NotificationTypeOK
  <2> QED BY <1>1, <2>1, <2>2, <2>3, <2>4 DEF NotificationTypeOK
<1>8. InSendingOrder'
  <2>1. ASSUME NEW v \in Username
        PROVE  Increasing(m_pendingQueue[v])' /\ Fresh(m_pendingQueue[v])'
    BY <1>1, <1>2 DEF InSendingOrder, Increasing, Fresh
  <2>2. ASSUME NEW d \in Thread
        PROVE  Increasing(m_queue[d])' /\ Fresh(m_queue[d])'
    BY <1>1, <1>4 DEF InSendingOrder, Increasing, Fresh
  <2> QED BY <2>1, <2>2 DEF InSendingOrder
<1>9. StoredOnce'
  <2> SUFFICES ASSUME NEW t \in Username, NEW n \in m_notifications'[t],
                      NEW m \in m_notifications'[t]
               PROVE  n.id < m_nextId' /\ (n.id = m.id => n = m)
    BY DEF StoredOnce
  <2>1. PICK a \in m_notifications[t] :
               /\ n.id = a.id
               /\ \/ a \notin Claimed(t) /\ n = a
                  \/ a \in Claimed(t) /\ n = [a EXCEPT !.pendingCount = @ - 1]
    BY <1>6
  <2>2. PICK b \in m_notifications[t] :
               /\ m.id = b.id
               /\ \/ b \notin Claimed(t) /\ m = b
                  \/ b \in Claimed(t) /\ m = [b EXCEPT !.pendingCount = @ - 1]
    BY <1>6
  <2> QED BY <2>1, <2>2, <1>1 DEF StoredOnce
<1>10. UnknownHaveNothing'
  <2> SUFFICES ASSUME NEW v \in Username \ known'
               PROVE  /\ m_notifications'[v] = {} /\ m_pendingQueue'[v] = <<>>
                      /\ m_subscribersQueue'[v] = {}
    BY DEF UnknownHaveNothing
  <2>1. /\ v # u /\ v \in Username
        /\ m_notifications[v] = {} /\ m_pendingQueue[v] = <<>> /\ m_subscribersQueue[v] = {}
    BY <1>1 DEF UnknownHaveNothing
  <2>2. m_notifications'[v] = {}
    BY <2>1, <1>6
  <2>3. m_subscribersQueue'[v] = {}
    BY <2>1, <1>1 DEF NotificationTypeOK
  <2> QED BY <2>1, <2>2, <2>3, <1>2
\* The users that wait for a notification: u no longer does.
<1>11. ASSUME NEW t \in Username, NEW id
       PROVE  Holders(t, id)' = Holders(t, id) \ {u}
  BY <1>2 DEF Holders, InList
<1>12. PendingResolves'
  <2> SUFFICES ASSUME NEW v \in Username, NEW i \in DOMAIN m_pendingQueue'[v]
               PROVE  IsStored(m_pendingQueue[v][i])'
    BY DEF PendingResolves
  <2>1. v # u /\ m_pendingQueue'[v] = m_pendingQueue[v] /\ i \in DOMAIN m_pendingQueue[v]
    BY <1>2
  <2> DEFINE p == m_pendingQueue[v][i]
  <2>2. p \in Pending
    BY <2>1, <1>1, LenProperties, ElementOfSeq DEF NotificationTypeOK
  <2>3. p.sender \in known /\ p.sender \in Username
    BY <2>1, <1>1 DEF PendingResolves, IsStored, NotificationTypeOK
  <2>4. PICK n \in m_notifications[p.sender] : n.id = p.notificationId
    BY <2>1 DEF PendingResolves, IsStored
  <2>5. p = Ref(p.sender, n.id)
    BY <2>2, <2>4 DEF Ref, Pending
  <2>6. v \in Holders(p.sender, n.id)
    BY <2>1, <2>5 DEF Holders, InList
  <2>7. \E new \in m_notifications'[p.sender] : new.id = n.id
    <3>1. CASE n \notin Claimed(p.sender)
      BY <3>1, <2>3, <1>5
    <3>2. CASE n \in Claimed(p.sender)
      <4>1. u \in Holders(p.sender, n.id)
        BY <3>2 DEF Holders
      <4>2. Cardinality(Holders(p.sender, n.id)) >= 2
        BY <4>1, <2>1, <2>6, TwoMembers, HoldersAreFinite
      <4>3. /\ n.pendingCount >= Cardinality(Holders(p.sender, n.id))
            /\ n \in Stored
        BY <2>3, <1>1 DEF CountCoversHolders, NotificationTypeOK
      <4>4. n.pendingCount > 1
        BY <4>2, <4>3, FS_CardinalityType, HoldersAreFinite DEF Stored
      <4>5. [n EXCEPT !.pendingCount = @ - 1] \in m_notifications'[p.sender]
        BY <3>2, <4>4, <2>3, <1>5
      <4>6. [n EXCEPT !.pendingCount = @ - 1].id = n.id
        BY <4>3 DEF Stored
      <4> QED BY <4>5, <4>6
    <3> QED BY <3>1, <3>2
  <2> QED BY <2>1, <2>3, <2>4, <2>7, <1>1 DEF IsStored
<1>13. CountCoversHolders'
  <2> SUFFICES ASSUME NEW t \in Username, NEW new \in m_notifications'[t]
               PROVE  /\ new.pendingCount >= Cardinality(Holders(t, new.id)')
                      /\ new.pendingCount > 0
    BY DEF CountCoversHolders
  <2>1. PICK n \in m_notifications[t] :
               /\ n \in Stored /\ new.id = n.id
               /\ \/ n \notin Claimed(t) /\ new = n
                  \/ /\ n \in Claimed(t) /\ n.pendingCount > 1
                     /\ new.pendingCount = n.pendingCount - 1
    BY <1>6
  <2> DEFINE H == Holders(t, n.id)
  <2>2. n.pendingCount >= Cardinality(H) /\ n.pendingCount > 0 /\ n.pendingCount \in Int
    BY <2>1 DEF CountCoversHolders, Stored
  <2>3. IsFiniteSet(H) /\ IsFiniteSet(H \ {u}) /\ Holders(t, new.id)' = H \ {u}
    BY <2>1, <1>11, HoldersAreFinite, FS_Subset
  <2>4. Cardinality(H) \in Nat /\ Cardinality(H \ {u}) \in Nat
    BY <2>3, FS_CardinalityType
  <2>5. CASE n \notin Claimed(t)
    <3>1. Cardinality(H \ {u}) <= Cardinality(H)
      BY <2>3, FS_Subset
    <3> QED BY <3>1, <2>1, <2>2, <2>3, <2>4, <2>5
  <2>6. CASE n \in Claimed(t)
    <3>1. u \in H
      BY <2>6 DEF Holders
    <3>2. Cardinality(H \ {u}) = Cardinality(H) - 1
      BY <3>1, <2>3, FS_RemoveElement
    <3> HIDE DEF H
    <3> QED BY <3>2, <2>1, <2>2, <2>3, <2>4, <2>6
  <2> QED BY <2>5, <2>6
<1>14. NothingPendingWhileOnline'
  BY <1>1, <1>2 DEF NothingPendingWhileOnline, NotificationTypeOK
<1> QED
  BY <1>7, <1>8, <1>9, <1>10, <1>12, <1>13, <1>14

LEMMA UnsubscribeKeepsInv ==
    ASSUME NotificationInv, NEW u \in Username, NEW c \in Thread, Unsubscribe(u, c)
    PROVE  NotificationInv'
<1> USE DEF NotificationInv
<1>1. /\ m_subscribersQueue' = [m_subscribersQueue EXCEPT ![u] = @ \ {c}]
      /\ UNCHANGED <<known, m_nextId, m_notifications, m_pendingQueue, m_queue>>
  BY DEF Unsubscribe
<1>2. NotificationTypeOK'
  BY <1>1 DEF NotificationTypeOK
<1>3. \A v \in Username : m_subscribersQueue'[v] \subseteq m_subscribersQueue[v]
  BY <1>1 DEF NotificationTypeOK
<1>4. InSendingOrder' /\ StoredOnce' /\ PendingResolves' /\ CountCoversHolders'
  BY <1>1 DEF InSendingOrder, Increasing, Fresh, StoredOnce, PendingResolves, IsStored,
              CountCoversHolders, Holders
<1>5. UnknownHaveNothing' /\ NothingPendingWhileOnline'
  BY <1>1, <1>3 DEF UnknownHaveNothing, NothingPendingWhileOnline
<1> QED
  BY <1>2, <1>4, <1>5

LEMMA RemoveKeepsInv ==
    ASSUME NotificationInv, NEW c \in Thread, Remove(c)
    PROVE  NotificationInv'
<1> USE DEF NotificationInv
<1>1. /\ m_queue[c] # <<>> /\ m_queue[c] \in Seq(Pending)
      /\ m_queue' = [m_queue EXCEPT ![c] = Tail(@)]
      /\ m_queue \in [Thread -> Seq(Pending)] /\ m_nextId \in Nat
      /\ UNCHANGED <<known, m_nextId, m_notifications, m_pendingQueue, m_subscribersQueue>>
  BY DEF Remove, NotificationTypeOK
<1>2. /\ Tail(m_queue[c]) \in Seq(Pending)
      /\ Increasing(Tail(m_queue[c]))
      /\ \A i \in DOMAIN Tail(m_queue[c]) : Tail(m_queue[c])[i].notificationId < m_nextId
  BY <1>1, TailInOrder DEF InSendingOrder, Fresh
<1>3. NotificationTypeOK'
  BY <1>1, <1>2 DEF NotificationTypeOK
<1>4. InSendingOrder'
  <2>1. ASSUME NEW d \in Thread
        PROVE  Increasing(m_queue[d])' /\ Fresh(m_queue[d])'
    <3>1. CASE d = c
      BY <3>1, <1>1, <1>2 DEF Increasing, Fresh
    <3>2. CASE d # c
      BY <3>2, <1>1 DEF InSendingOrder, Increasing, Fresh
    <3> QED BY <3>1, <3>2
  <2> QED BY <2>1, <1>1 DEF InSendingOrder, Increasing, Fresh
<1>5. StoredOnce' /\ PendingResolves' /\ CountCoversHolders' /\ UnknownHaveNothing'
      /\ NothingPendingWhileOnline'
  BY <1>1 DEF StoredOnce, PendingResolves, IsStored, CountCoversHolders, Holders,
              UnknownHaveNothing, NothingPendingWhileOnline
<1> QED
  BY <1>3, <1>4, <1>5

LEMMA StepKeepsInv == NotificationInv /\ [NotificationNext]_notificationVars => NotificationInv'
<1> SUFFICES ASSUME NotificationInv, [NotificationNext]_notificationVars
             PROVE  NotificationInv'
  OBVIOUS
<1>1. ASSUME NEW s \in Username, NEW followers \in SUBSET (Username \ {s}), Send(s, followers)
      PROVE  NotificationInv'
  BY <1>1, SendKeepsInv
<1>2. ASSUME NEW u \in Username, NEW c \in Thread,
             ~Subscribed(c), m_queue[c] = <<>>, Subscribe(u, c)
      PROVE  NotificationInv'
  BY <1>2, SubscribeKeepsInv
<1>3. ASSUME NEW u \in known, NEW c \in Thread, Unsubscribe(u, c)
      PROVE  NotificationInv'
  BY <1>3, UnsubscribeKeepsInv DEF NotificationInv, NotificationTypeOK
<1>4. ASSUME NEW c \in Thread, Remove(c)
      PROVE  NotificationInv'
  BY <1>4, RemoveKeepsInv
<1>5. CASE UNCHANGED notificationVars
  <2> USE <1>5 DEF notificationVars, NotificationInv
  <2>1. NotificationTypeOK'
    BY DEF NotificationTypeOK
  <2>2. InSendingOrder'
    BY DEF InSendingOrder, Increasing, Fresh
  <2>3. PendingResolves' /\ CountCoversHolders'
    BY DEF PendingResolves, IsStored, CountCoversHolders, Holders
  <2>4. StoredOnce' /\ UnknownHaveNothing' /\ NothingPendingWhileOnline'
    BY DEF StoredOnce, UnknownHaveNothing, NothingPendingWhileOnline
  <2> QED BY <2>1, <2>2, <2>3, <2>4
<1> QED
  BY <1>1, <1>2, <1>3, <1>4, <1>5 DEF NotificationNext

\* The inductive invariant holds of every behaviour of the manager: send,
\* subscribe and unsubscribe keep it whatever the order they come in.
THEOREM NotificationInvariant == NotificationSpec => []NotificationInv
<1>1. ASSUME \E users \in SUBSET Username : NotificationInit(users)
      PROVE  NotificationInv
  BY <1>1, InitHasInv
<1> QED
  BY <1>1, StepKeepsInv, PTL DEF NotificationSpec

\* The state of the manager is always of its type.
THEOREM NotificationTypeCorrect == NotificationSpec => []NotificationTypeOK
BY NotificationInvariant, PTL DEF NotificationInv

\* The copy a pending entry refers to is always there: findNotification erases a
\* notification only when no other follower is owed it.
THEOREM PendingAlwaysResolves == NotificationSpec => []PendingResolves
BY NotificationInvariant, PTL DEF NotificationInv

\* pendingCount never falls below the number of queues that refer to the copy.
THEOREM CountAlwaysCovers == NotificationSpec => []CountCoversHolders
BY NotificationInvariant, PTL DEF NotificationInv

\* A follower who is online has nothing pending, whatever the interleaving of
\* send and subscribe.
THEOREM OnlineHaveNothingPending == NotificationSpec => []NothingPendingWhileOnline
BY NotificationInvariant, PTL DEF NotificationInv

\* No queue ever holds a notification twice or out of order.
THEOREM AlwaysInSendingOrder == NotificationSpec => []InSendingOrder
BY NotificationInvariant, PTL DEF NotificationInv
-----------------------------------------------------------------------------
(* The manager implements the mailboxes.                                   *)

LEMMA StepIsMailboxStep ==
    NotificationInv /\ [NotificationNext]_notificationVars
        => [Mailbox!MailboxNext]_Mailbox!mailboxVars
<1> SUFFICES ASSUME NotificationInv, [NotificationNext]_notificationVars
             PROVE  [Mailbox!MailboxNext]_Mailbox!mailboxVars
  OBVIOUS
<1>1. ASSUME NEW s \in Username, NEW to \in SUBSET (Username \ {s}), Send(s, to)
      PROVE  Mailbox!Post(s, to \cap known)
  BY <1>1 DEF Send, CanCreate, Online, Offline, Ref, Mailbox!Post, Mailbox!Message
<1>2. ASSUME NEW u \in Username, NEW c \in Thread, Subscribe(u, c)
      PROVE  Mailbox!Listen(u, c)
  <2>1. Found(m_pendingQueue[u]) = m_pendingQueue[u]
    BY FoundAll DEF NotificationInv, NotificationTypeOK, PendingResolves
  <2> QED BY <1>2, <2>1 DEF Subscribe, Mailbox!Listen
<1>3. ASSUME NEW u \in Username, NEW c \in Thread, Unsubscribe(u, c)
      PROVE  Mailbox!Leave(u, c)
  BY <1>3 DEF Unsubscribe, Mailbox!Leave
<1>4. ASSUME NEW c \in Thread, Remove(c)
      PROVE  Mailbox!Take(c)
  BY <1>4 DEF Remove, Mailbox!Take
<1>5. CASE UNCHANGED notificationVars
  BY <1>5 DEF notificationVars, Mailbox!mailboxVars
<1>6. known \subseteq Username
  BY DEF NotificationInv, NotificationTypeOK
<1> QED
  BY <1>1, <1>2, <1>3, <1>4, <1>5, <1>6 DEF NotificationNext, Mailbox!MailboxNext

\* Every behaviour of the manager is one of the mailboxes: a tweet reaches each
\* follower with a queue exactly once, at once or when he next logs in, although
\* only one counted copy of it is kept.
THEOREM ManagerImplementsMailboxes == NotificationSpec => ImplementsMailboxes
<1>1. ASSUME \E users \in SUBSET Username : NotificationInit(users)
      PROVE  Mailbox!MailboxInit
  BY <1>1 DEF NotificationInit, Mailbox!MailboxInit
<1> QED
  BY <1>1, NotificationInvariant, StepIsMailboxStep, PTL
     DEF NotificationSpec, ImplementsMailboxes, Mailbox!MailboxSpec

=============================================================================
