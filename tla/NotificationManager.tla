------------------------ MODULE NotificationManager ------------------------
(***************************************************************************)
(* NotificationManager, the NotificationQueue of each user and the Queue   *)
(* inside each NotificationConsumer (src/server/notification).  send,      *)
(* subscribe and unsubscribe hold m_mutex from end to end, so each is one  *)
(* action; a consumer empties its own queue concurrently.                  *)
(*                                                                         *)
(* The maps m_notifications and m_pendingQueues always get their keys      *)
(* together (subscribe, loadUsers): "known" is that key set.  The list of  *)
(* stored notifications of a sender is a set, its elements told apart by   *)
(* their ids; a notification is what the pending queues keep of it, its    *)
(* sender and id.                                                          *)
(***************************************************************************)
EXTENDS Domain, Subsequences

CONSTANT MaxId   \* bound: how many notifications the server numbers

VARIABLES
    known,                \* users with an entry in the two maps
    m_nextId,             \* id of the next notification
    m_notifications,      \* sender -> stored notifications still owed to somebody
    m_pendingQueue,       \* user -> PendingNotifications, oldest first
    m_subscribersQueue,   \* user -> consumers of his open sessions
    m_queue               \* consumer -> notifications it has still to send

notificationVars == <<known, m_nextId, m_notifications, m_pendingQueue,
                      m_subscribersQueue, m_queue>>

ASSUME MaxIdAssumption == MaxId \in Nat

Pending == [sender : Username, notificationId : Nat]
Stored  == [id : Nat, pendingCount : Int]

Ref(sender, id) == [sender |-> sender, notificationId |-> id]
-----------------------------------------------------------------------------
(* send                                                                    *)

\* Mutant of Offline: insert queues the notification even for who has got it.
OfflineOrNot(followers) == followers \cap known

\* NotificationQueue::insert delivers to the subscribers of a follower if there
\* are any and queues the notification otherwise.  A follower without a
\* queue is skipped, and still counted in pendingCount.
Online(followers)  == {f \in followers \cap known : m_subscribersQueue[f] # {}}
Offline(followers) == {f \in followers \cap known : m_subscribersQueue[f] = {}}

\* Mutants of StillPending: the list is taken to be one shorter than it is; what
\* insert answers is not looked at.
StillPendingButOne(followers) == Cardinality(followers) - Cardinality(Online(followers)) - 1
StillPendingAll(followers)    == Cardinality(followers)

\* pendingCount after the loop over the followers.
StillPending(followers) == Cardinality(followers) - Cardinality(Online(followers))

\* createNotification answers true.
CanCreate(sender) == sender \in known /\ m_nextId <= MaxId

Send(sender, followers) ==
    /\ CanCreate(sender)
    /\ m_nextId' = m_nextId + 1
    /\ m_queue' = [c \in Thread |->
                      IF \E f \in Online(followers) : c \in m_subscribersQueue[f]
                      THEN Append(m_queue[c], Ref(sender, m_nextId))
                      ELSE m_queue[c]]
    /\ m_pendingQueue' = [u \in Username |->
                      IF u \in Offline(followers)
                      THEN Append(m_pendingQueue[u], Ref(sender, m_nextId))
                      ELSE m_pendingQueue[u]]
    /\ m_notifications' = [m_notifications EXCEPT ![sender] =
                      IF StillPending(followers) <= 0
                      THEN @
                      ELSE @ \cup {[id           |-> m_nextId,
                                    pendingCount |-> StillPending(followers)]}]
    /\ UNCHANGED <<known, m_subscribersQueue>>
-----------------------------------------------------------------------------
(* subscribe, unsubscribe                                                  *)

IsStored(p) ==
    /\ p.sender \in known
    /\ \E n \in m_notifications[p.sender] : n.id = p.notificationId

\* What the loop of subscribe hands over: the entries findNotification finds, in
\* order.  (PendingResolves: it finds them all.)
Found(q) == Entries(q, {i \in DOMAIN q : IsStored(q[i])})

\* Mutant of Claim: the first who claims a notification takes it away.
ClaimUncounted(q) ==
    [s \in Username |-> {n \in m_notifications[s] : ~InList(q, Ref(s, n.id))}]

\* findNotification on every entry of q: one reference less, and the stored
\* notification goes when none is left.
Claim(q) ==
    [s \in Username |->
        LET claimed == {n \in m_notifications[s] : InList(q, Ref(s, n.id))}
        IN  (m_notifications[s] \ claimed) \cup
            {[n EXCEPT !.pendingCount = @ - 1] : n \in {m \in claimed : m.pendingCount > 1}}]

Subscribe(u, c) ==
    /\ m_subscribersQueue' = [m_subscribersQueue EXCEPT ![u] = @ \cup {c}]
    /\ known' = known \cup {u}
    /\ m_queue' = [d \in Thread |->
                      IF d \in m_subscribersQueue'[u]
                      THEN m_queue[d] \o Found(m_pendingQueue[u])
                      ELSE m_queue[d]]
    /\ m_notifications' = Claim(m_pendingQueue[u])
    /\ m_pendingQueue' = [m_pendingQueue EXCEPT ![u] = <<>>]
    /\ UNCHANGED m_nextId

Unsubscribe(u, c) ==
    /\ m_subscribersQueue' = [m_subscribersQueue EXCEPT ![u] = @ \ {c}]
    /\ UNCHANGED <<known, m_nextId, m_notifications, m_pendingQueue, m_queue>>

\* Mutant of Remove: the front is read and not popped.
Peek(c) == m_queue[c] # <<>> /\ UNCHANGED notificationVars

\* Queue::tryRemoveFor of the consumer, when it returns an element.
Remove(c) ==
    /\ m_queue[c] # <<>>
    /\ m_queue' = [m_queue EXCEPT ![c] = Tail(@)]
    /\ UNCHANGED <<known, m_nextId, m_notifications, m_pendingQueue, m_subscribersQueue>>
-----------------------------------------------------------------------------
\* Mutant of NotificationInit: the first notification gets number 0.
NotificationInitAtZero(users) ==
    /\ known = users
    /\ m_nextId = 0
    /\ m_notifications = [u \in Username |-> {}]
    /\ m_pendingQueue = [u \in Username |-> <<>>]
    /\ m_subscribersQueue = [u \in Username |-> {}]
    /\ m_queue = [c \in Thread |-> <<>>]

\* loadUsers at the start of the leader: the users of Users.db are known.
NotificationInit(users) ==
    /\ known = users
    /\ m_nextId = 1
    /\ m_notifications = [u \in Username |-> {}]
    /\ m_pendingQueue = [u \in Username |-> <<>>]
    /\ m_subscribersQueue = [u \in Username |-> {}]
    /\ m_queue = [c \in Thread |-> <<>>]

\* A NotificationConsumer subscribes once, to its own user, with an empty queue.
Subscribed(c) == \E u \in Username : c \in m_subscribersQueue[u]

NotificationNext ==
    \/ \E s \in Username : \E followers \in SUBSET (Username \ {s}) : Send(s, followers)
    \/ \E u \in Username, c \in Thread :
          ~Subscribed(c) /\ m_queue[c] = <<>> /\ Subscribe(u, c)
    \/ \E u \in known, c \in Thread : c \in m_subscribersQueue[u] /\ Unsubscribe(u, c)
    \/ \E c \in Thread : Remove(c)

NotificationSpec ==
    /\ \E users \in SUBSET Username : NotificationInit(users)
    /\ [][NotificationNext]_notificationVars
-----------------------------------------------------------------------------
NotificationTypeOK ==
    /\ known \subseteq Username
    /\ m_nextId \in Nat \ {0}
    /\ m_notifications \in [Username -> SUBSET Stored]
    /\ m_pendingQueue \in [Username -> Seq(Pending)]
    /\ m_subscribersQueue \in [Username -> SUBSET Thread]
    /\ m_queue \in [Thread -> Seq(Pending)]

\* The users whose pending queue refers to notification id of s.
Holders(s, id) == {u \in Username : InList(m_pendingQueue[u], Ref(s, id))}

\* Every pending entry still finds its notification: the one copy the sender's
\* list keeps is never erased while some offline follower is owed it.
PendingResolves == \A u \in Username : \A i \in DOMAIN m_pendingQueue[u] :
    IsStored(m_pendingQueue[u][i])

\* pendingCount is at least the number of queues that refer to the notification
\* (more only if a follower without a queue was counted when it was sent).
CountCoversHolders == \A s \in Username : \A n \in m_notifications[s] :
    n.pendingCount >= Cardinality(Holders(s, n.id)) /\ n.pendingCount > 0

\* A user with an open subscription has nothing pending: insert and subscribe
\* leave no notification behind that nobody would hand over.
NothingPendingWhileOnline == \A u \in Username :
    m_subscribersQueue[u] # {} => m_pendingQueue[u] = <<>>

Increasing(q) == \A i, j \in DOMAIN q : i < j => q[i].notificationId < q[j].notificationId
Fresh(q) == \A i \in DOMAIN q : q[i].notificationId < m_nextId

\* Queues hold notifications in the order they were sent, each once.
InSendingOrder ==
    /\ \A u \in Username : Increasing(m_pendingQueue[u]) /\ Fresh(m_pendingQueue[u])
    /\ \A c \in Thread : Increasing(m_queue[c]) /\ Fresh(m_queue[c])

\* A sender's list names each notification once, and only numbers already given.
StoredOnce == \A s \in Username : \A n, m \in m_notifications[s] :
    n.id < m_nextId /\ (n.id = m.id => n = m)

\* A user who is not known has nothing.
UnknownHaveNothing == \A u \in Username \ known :
    m_notifications[u] = {} /\ m_pendingQueue[u] = <<>> /\ m_subscribersQueue[u] = {}

\* The inductive invariant: what the safety of the counting rests on.
NotificationInv ==
    /\ NotificationTypeOK
    /\ InSendingOrder
    /\ StoredOnce
    /\ UnknownHaveNothing
    /\ PendingResolves
    /\ CountCoversHolders
    /\ NothingPendingWhileOnline
-----------------------------------------------------------------------------
Mailbox == INSTANCE Mailboxes WITH
    member    <- known,
    next      <- m_nextId,
    waiting   <- m_pendingQueue,
    listeners <- m_subscribersQueue,
    inbox     <- m_queue

\* The reference counting is invisible: each send posts to every follower who has
\* a queue, each subscribe hands over everything that was waiting.
ImplementsMailboxes == Mailbox!MailboxSpec

=============================================================================
