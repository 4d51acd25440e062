------------------------- MODULE PassiveReplication -------------------------
(***************************************************************************)
(* The data the leader keeps for its clients, and the copy of a backup.    *)
(* After an update a manager calls back the ReplicaManager, which sends    *)
(* its serialized form to the replicas of m_replicasVector; a newcomer is  *)
(* sent both managers first.  If the leader dies, the backup goes on with  *)
(* its copy (ReplicaManager has the election) and with the same Users.db.  *)
(*                                                                         *)
(* The managers' variables are those of the leader.  A callback runs under *)
(* its manager's mutex, so it belongs to the manager's action.  The        *)
(* handshake runs in the main thread and takes no mutex: serialize goes    *)
(* through the notifications first and the queues after, and the newcomer  *)
(* is put into m_replicasVector last.                                      *)
(***************************************************************************)
EXTENDS ProfileManager, NotificationManager

CONSTANT MaxCrashes   \* bound: how many leaders die

ASSUME MaxCrashesAssumption == MaxCrashes \in Nat

VARIABLES
    leader,             \* "up", or "down" between a crash and the take-over
    handshake,          \* how far answerStartHandshake is with the backup
    stored,             \* what serialize has read of the NotificationManager
    updates,            \* packets sent to the backup and not received yet
    profileCopy,        \* the backup's m_users
    notificationCopy,   \* the backup's NotificationManager
    sentSince,          \* history: kinds of update sent to the backup as a member
    crashes

backupVars == <<handshake, stored, profileCopy, notificationCopy>>
replicationVars == <<profileVars, notificationVars, backupVars, leader, updates,
                     sentSince, crashes>>

UpdateType == {"UPDATE_PROFILE", "UPDATE_NOTIFICATION"}

HandshakePhase == {"none", "profile sent", "half read", "notifications sent", "member"}

\* What the callback of the NotificationManager serializes and deserialize restores:
\* not the subscribers, and not the queues of their consumers.
Notifications == [known |-> known, m_nextId |-> m_nextId,
                  m_notifications |-> m_notifications, m_pendingQueue |-> m_pendingQueue]

NoNotifications == [known |-> {}, m_nextId |-> 1,
                    m_notifications |-> [u \in Username |-> {}],
                    m_pendingQueue |-> [u \in Username |-> <<>>]]

UpdateProfile(users)     == [type |-> "UPDATE_PROFILE", payload |-> Snapshot(users)]
UpdateNotification(data) == [type |-> "UPDATE_NOTIFICATION", payload |-> data]

IsMember == handshake = "member"

ReplicationInit ==
    /\ ProfileInit
    /\ NotificationInit(DOMAIN m_users)
    /\ leader = "up"
    /\ handshake = "none"
    /\ stored = NoNotifications
    /\ updates = <<>>
    /\ profileCopy = [u \in {} |-> {}]
    /\ notificationCopy = NoNotifications
    /\ sentSince = {}
    /\ crashes = 0
-----------------------------------------------------------------------------
(* The leader at work.                                                     *)

\* sendProfileUpdate and sendNotificationUpdate.
SendUpdate(packet) ==
    IF IsMember
    THEN /\ updates' = Append(updates, packet)
         /\ sentSince' = sentSince \cup {packet.type}
    ELSE UNCHANGED <<updates, sentSince>>

SendProfileUpdate      == SendUpdate(UpdateProfile(m_users'))
SendNotificationUpdate == SendUpdate(UpdateNotification(Notifications'))

\* Only a new user is an update; sessions are not replicated.
Login(u, t) ==
    /\ leader = "up"
    /\ t \notin OpenSessions
    /\ StartSession(u, t)
    /\ IF u \in DOMAIN m_users THEN UNCHANGED <<updates, sentSince>> ELSE SendProfileUpdate
    /\ UNCHANGED <<notificationVars, backupVars, leader, crashes>>

Logout(u, t) ==
    /\ leader = "up"
    /\ ~Subscribed(t)
    /\ u \in DOMAIN m_users /\ InList(m_users[u].m_sessions, t)
    /\ CloseSession(u, t)
    /\ UNCHANGED <<notificationVars, backupVars, leader, updates, sentSince, crashes>>

\* Mutant of FollowUser: the callback is not called.
FollowUnsent(t, u) ==
    /\ leader = "up"
    /\ \E f \in DOMAIN m_users : InList(m_users[f].m_sessions, t) /\ Follow(f, u)
    /\ UNCHANGED <<notificationVars, backupVars, leader, updates, sentSince, crashes>>

FollowUser(t, u) ==
    /\ leader = "up"
    /\ \E f \in DOMAIN m_users : InList(m_users[f].m_sessions, t) /\ Follow(f, u)
    /\ SendProfileUpdate
    /\ UNCHANGED <<notificationVars, backupVars, leader, crashes>>

\* The followers were read some time before: they may be more by now.
SendTweet(t) ==
    /\ leader = "up"
    /\ \E s \in DOMAIN m_users : \E followers \in SUBSET FollowersOf(s) :
          InList(m_users[s].m_sessions, t) /\ Send(s, followers)
    /\ SendNotificationUpdate
    /\ UNCHANGED <<profileVars, backupVars, leader, crashes>>

SubscribeSession(t) ==
    /\ leader = "up"
    /\ ~Subscribed(t) /\ m_queue[t] = <<>>
    /\ \E u \in DOMAIN m_users : InList(m_users[u].m_sessions, t) /\ Subscribe(u, t)
    /\ SendNotificationUpdate
    /\ UNCHANGED <<profileVars, backupVars, leader, crashes>>

UnsubscribeSession(t) ==
    /\ leader = "up"
    /\ \E u \in Username : t \in m_subscribersQueue[u] /\ Unsubscribe(u, t)
    /\ SendNotificationUpdate
    /\ UNCHANGED <<profileVars, backupVars, leader, crashes>>

Consume(t) ==
    /\ leader = "up"
    /\ Remove(t)
    /\ UNCHANGED <<profileVars, backupVars, leader, updates, sentSince, crashes>>
-----------------------------------------------------------------------------
(* answerStartHandshake.                                                   *)

Handshake(from, to) ==
    /\ leader = "up"
    /\ handshake = from
    /\ handshake' = to
    /\ UNCHANGED <<profileVars, notificationVars, profileCopy, notificationCopy, leader,
                   sentSince, crashes>>

HandshakeProfile ==
    /\ Handshake("none", "profile sent")
    /\ updates' = Append(updates, UpdateProfile(m_users))
    /\ UNCHANGED stored

\* The first loop of NotificationManager::serialize ...
HandshakeRead ==
    /\ Handshake("profile sent", "half read")
    /\ stored' = Notifications
    /\ UNCHANGED updates

\* ... and the second.  A user who subscribed for the first time in between is only
\* in the second part of the packet: the copy has his queue and no list of his tweets,
\* and would refuse them if it led.  known, which is one set, hides that.
HandshakeNotifications ==
    /\ Handshake("half read", "notifications sent")
    /\ updates' = Append(updates,
          UpdateNotification([stored EXCEPT !.known = known, !.m_pendingQueue = m_pendingQueue]))
    /\ stored' = NoNotifications

HandshakeEnd ==
    /\ Handshake("notifications sent", "member")
    /\ UNCHANGED <<stored, updates>>
-----------------------------------------------------------------------------
(* The backup.                                                             *)

\* Mutant of ReceiveUpdate: a handler thread for each packet, in any order.
ReceiveAnyUpdate ==
    /\ \E i \in DOMAIN updates :
          /\ updates' = SubSeq(updates, 1, i - 1) \o SubSeq(updates, i + 1, Len(updates))
          /\ IF updates[i].type = "UPDATE_PROFILE"
             THEN profileCopy' = updates[i].payload /\ UNCHANGED notificationCopy
             ELSE notificationCopy' = updates[i].payload /\ UNCHANGED profileCopy
    /\ UNCHANGED <<profileVars, notificationVars, handshake, stored, leader, sentSince, crashes>>

\* ReplicaHandler: update() replaces the whole manager.
ReceiveUpdate ==
    /\ updates # <<>>
    /\ updates' = Tail(updates)
    /\ IF Head(updates).type = "UPDATE_PROFILE"
       THEN profileCopy' = Head(updates).payload /\ UNCHANGED notificationCopy
       ELSE notificationCopy' = Head(updates).payload /\ UNCHANGED profileCopy
    /\ UNCHANGED <<profileVars, notificationVars, handshake, stored, leader, sentSince, crashes>>

\* The leader dies, perhaps with packets it had still to send.
Crash ==
    /\ leader = "up"
    /\ crashes < MaxCrashes
    /\ leader' = "down"
    /\ crashes' = crashes + 1
    /\ \E n \in 0 .. Len(updates) : updates' = SubSeq(updates, 1, n)
    /\ UNCHANGED <<profileVars, notificationVars, backupVars, sentSince>>

\* The backup has read what there was to read, sees the connection end, is
\* elected and serves the clients.  It has no backup yet.
TakeOver ==
    /\ leader = "down"
    /\ handshake # "none"
    /\ updates = <<>>
    /\ leader' = "up"
    /\ m_users' = profileCopy
    /\ known' = notificationCopy.known
    /\ m_nextId' = notificationCopy.m_nextId
    /\ m_notifications' = notificationCopy.m_notifications
    /\ m_pendingQueue' = notificationCopy.m_pendingQueue
    /\ m_subscribersQueue' = [u \in Username |-> {}]
    /\ m_queue' = [t \in Thread |-> <<>>]
    /\ handshake' = "none"
    /\ stored' = NoNotifications
    /\ profileCopy' = [u \in {} |-> {}]
    /\ notificationCopy' = NoNotifications
    /\ sentSince' = {}
    /\ UNCHANGED <<usersDb, updates, crashes>>
-----------------------------------------------------------------------------
ReplicationNext ==
    \/ \E u \in Username, t \in Thread : Login(u, t) \/ Logout(u, t) \/ FollowUser(t, u)
    \/ \E t \in Thread :
          SendTweet(t) \/ SubscribeSession(t) \/ UnsubscribeSession(t) \/ Consume(t)
    \/ HandshakeProfile \/ HandshakeRead \/ HandshakeNotifications \/ HandshakeEnd
    \/ ReceiveUpdate \/ Crash \/ TakeOver

ReplicationSpec == ReplicationInit /\ [][ReplicationNext]_replicationVars
-----------------------------------------------------------------------------
NotificationData ==
    [known : SUBSET Username, m_nextId : Nat \ {0},
     m_notifications : [Username -> SUBSET Stored], m_pendingQueue : [Username -> Seq(Pending)]]

IsProfile(users) == DOMAIN users \subseteq Username /\ users \in [DOMAIN users -> User]

IsUpdate(p) ==
    \/ p.type = "UPDATE_PROFILE" /\ IsProfile(p.payload)
    \/ p.type = "UPDATE_NOTIFICATION" /\ p.payload \in NotificationData

ReplicationTypeOK ==
    /\ ProfileTypeOK
    /\ NotificationTypeOK
    /\ leader \in {"up", "down"}
    /\ handshake \in HandshakePhase
    /\ stored \in NotificationData
    /\ IsProfile(profileCopy)
    /\ notificationCopy \in NotificationData
    /\ updates \in Seq({updates[i] : i \in DOMAIN updates})
    /\ \A i \in DOMAIN updates : IsUpdate(updates[i])
    /\ sentSince \subseteq UpdateType
    /\ crashes \in 0 .. MaxCrashes

\* What a backup has of a kind, and what the leader would send it now.
CopyOf(type)    == IF type = "UPDATE_PROFILE" THEN profileCopy ELSE notificationCopy
PresentOf(type) == IF type = "UPDATE_PROFILE" THEN Snapshot(m_users) ELSE Notifications

\* What the backup will have of a kind when it has received the packets.
Latest(packets, type, copy) ==
    LET sent == {i \in DOMAIN packets : packets[i].type = type}
    IN  IF sent = {} THEN copy ELSE packets[CHOOSE i \in sent : \A j \in sent : j <= i].payload

\* From the first update a member is sent on, nothing changes at the leader that
\* is not on its way to him: no operation forgets the callback, and none changes
\* what is serialized without one.
EveryChangeIsSent == leader = "up" =>
    \A type \in sentSince : Latest(updates, type, CopyOf(type)) = PresentOf(type)

\* One state of a manager is no older than another.
NoOlderData(new, old) ==
    /\ old.m_nextId <= new.m_nextId
    /\ old.known \subseteq new.known
NoOlderProfile(new, old) == \A u \in DOMAIN old :
    /\ u \in DOMAIN new
    /\ old[u].m_followers \subseteq new[u].m_followers
NoOlder(new, old, type) ==
    IF type = "UPDATE_PROFILE" THEN NoOlderProfile(new, old) ELSE NoOlderData(new, old)

\* A backup's copy never goes back to an older state, the handshake included,
\* whose packets are not ordered with the callbacks by any mutex.  (Users and followers
\* only grow; of the notifications, which are also claimed and erased, it compares the
\* next number and the users.)
CopiesNeverGoBack ==
    [][leader = leader' =>
         /\ NoOlderData(notificationCopy', notificationCopy)
         /\ NoOlderProfile(profileCopy', profileCopy)
      ]_replicationVars

\* Whatever a fail-over loses in memory, the file still has: a restart from
\* Users.db finds every user and follower the present leader has, although a
\* user the copy lacked may by now have a second row.
FileCovers(users) == NoOlderProfile(ReadUsers(usersDb), users)
FileCoversMemory == FileCovers(m_users)
-----------------------------------------------------------------------------
(* What the three above rest on, as one inductive invariant.               *)

\* Updates are sent to a member only.
OnlyMembersAreSent ==
    /\ sentSince # {} => IsMember
    /\ handshake = "none" => updates = <<>>

\* The file covers what a backup has and will have, and so its memory when it leads.
FileCoversCopies ==
    /\ FileCovers(profileCopy)
    /\ \A i \in DOMAIN updates :
          updates[i].type = "UPDATE_PROFILE" => FileCovers(updates[i].payload)

\* The copy, the updates on their way in their order, and the state of a leader
\* that is up are ever newer states of a manager.
UpdatesGetNewer == \A type \in UpdateType :
    /\ leader = "up" => NoOlder(PresentOf(type), CopyOf(type), type)
    /\ \A i \in DOMAIN updates : updates[i].type = type =>
          /\ NoOlder(updates[i].payload, CopyOf(type), type)
          /\ leader = "up" => NoOlder(PresentOf(type), updates[i].payload, type)
          /\ \A j \in DOMAIN updates : i < j /\ updates[j].type = type =>
                NoOlder(updates[j].payload, updates[i].payload, type)

\* Until serialize has gone through the NotificationManager nothing of it was sent,
\* and what serialize has read of it is not newer than what is there.
ReadBeforeSent ==
    handshake \in {"none", "profile sent", "half read"} =>
        /\ notificationCopy = NoNotifications
        /\ \A i \in DOMAIN updates : updates[i].type # "UPDATE_NOTIFICATION"
        /\ leader = "up" => NoOlderData(Notifications, stored)

\* All of it.
ReplicationInv ==
    /\ ReplicationTypeOK
    /\ EveryChangeIsSent
    /\ FileCoversMemory
    /\ OnlyMembersAreSent
    /\ FileCoversCopies
    /\ UpdatesGetNewer
    /\ ReadBeforeSent

=============================================================================
