# Notification System: TLA+ specifications

Specifications of the notification system ("Twitter clone") of this repository:
TLA+ modules, TLC configurations that check them on small instances, and proofs
checked by TLAPS. Paths such as `ConnectionHandler.cpp:33` are relative to
`src/src/`.

    tlc -config MCNotificationServer.cfg MCNotificationServer   # a run
    tlapm ManagerProofs.tla                                     # the proofs

`PROJECT.json` lists the components, the runs, a mutant for every property that
is expected to hold, the source lines of every definition, the hazards the
properties are aimed at, the findings and the theorems.

## 1. Inventory

Three kinds of process: **clients** connect to a **front-end**, which opens a
connection to the server for each of them and relays packets both ways; the
server runs inside the leader of a group of **replica managers**, the others
being its backups.

| Component | State | Operations | Interacts with | What is hard | What makes it correct |
|---|---|---|---|---|---|
| Profiles (`server/profile`) | `m_users`: id, followers, at most 2 sessions; `Users.db` | startSession, closeSession, follow, followersOf, loadUsers, update, (de)serialize | handlers call it under its mutex; a callback sends its serialized form to the backups | restart from the file, the id given to a new user, which session a close removes | the file mirrors memory; nothing granted is forgotten; no slot leaks |
| Notifications (`server/notification`) | per sender a list of stored notifications with `pendingCount`, per user a queue of references and his subscribers, `m_nextId` | send, subscribe, unsubscribe, loadUsers, update, (de)serialize | handlers send, consumers subscribe with a reference to their own queue | one counted copy, claimed by each follower who logs in; subscription while others send | a pending reference always resolves; delivered in order, once; counts exact |
| Server threads (`ServerHandler`, `ConnectionHandler`, `NotificationConsumer`, `routes`) | a handler and a consumer thread per connection, stop flag, the consumer's queue | login, SEND, FOLLOW, CLOSE; the consumer's loop | both managers, and one TCP connection written by two threads | every interleaving between two manager calls, shutdown of the consumer, time-outs of its queue | sessions match handlers; no dangling subscriber; no loss or repetition |
| Replica manager (`server/replication`) | leader flag, id, list of replicas with their connections, two election flags, a condition variable | join, answer a newcomer, election, coordinator, take-over | other replicas by TCP; front-ends by NEW_LEADER; the managers' callbacks | crashes at any step, lost wake-ups, flags cleared while set, ids | one leader; elections end; service resumes |
| Front-end (`frontend`) | a handler and a server consumer per client, `shouldRestablish` | relay, reconnect after NEW_LEADER | client, server, replica managers | deletion of a connection another thread reads; a flag cleared too late | every client is reconnected to the new leader |
| Client (`client`) | connection, receiver thread, `shouldReconnect`, the UI | login, commands, reconnect | front-end | the flag is cleared after the new receiver started | the receiver runs while there is a connection |
| Library (`lib`) | blocking queue, flag, thread, packets, sockets, CSV | | used by all | time-out against insertion, byte framing, crash inside a file write | what is written is read back |
| User interface (`client/ui`) | windows, the notification list | draw, scroll | client | paging arithmetic | the list stays in range |

## 2. Modules

| Module | Models | Status |
|---|---|---|
| `Domain` | users and threads, shared by the server modules | done |
| `ProfileManager` | `ProfileManager`, `User`, `ProfilePersistency` and the rows of `Users.db` | done |
| `UsersFile` | `CSVReader`, `CSVWriter`: `Users.db` as text, crashes inside a save; extends `ProfileManager` | done |
| `NotificationManager` | `NotificationManager`, `NotificationQueue`, the consumers' `Queue` | done |
| `Mailboxes` | abstract: what the notification service promises | done |
| `NotificationServer` | the threads of the server, composed of the two managers | done |
| `Connection` | one direction of a `TCPConnection`: packets, bytes, pieces | done |
| `Channel` | abstract: what the path from a session's queue to its reader promises | done |
| `Delivery` | one session: `Queue` as a monitor, consumer, handler, bytes, reader; extends `Connection` and `Subsequences` | done |
| `ReplicaManager` | joining, the bully election, crashes | done |
| `PassiveReplication` | the update callbacks, UPDATE packets, a backup's copy, fail-over; composed of the two managers | done for one backup |
| `Frontend` | `app_frontend`, `ClientHandler`, `ServerConsumer`, and as its environment the client, the leader and its successor | done for one front-end |
| `Client` | `app_client`, `ConnectionConsumer`, the paging of `NotificationList` | done |
| `Subsequences` | picking entries out of a sequence by their indexes | done |
| `SubsequencesProofs` | lemmas about `Subsequences` | done |
| `ManagerProofs` | proofs about `ProfileManager` and `NotificationManager` | done |
| `NotificationServerProofs`, `FrontendProofs`, `ClientProofs`, `PassiveReplicationProofs`, `ReplicaManagerProofs`, `DeliveryProofs` | proofs about the modules of these names | done |
| `MC*` | values of the constants and symmetry for TLC | done |

What is left: `PassiveReplication` further, that is, an abstract replicated store it
implements, with the proof, and several backups with different copies, of which the
election picks one.

### ProfileManager

State: `m_users` (user to id, followers, sessions) and `usersDb`, the rows of the
file. Every method runs from end to end under `m_mutex`, so one action each:
`StartSession`, `CloseSession`, `Follow`; `Restart` is a crash of the process
followed by a start as leader, which reloads the file. `m_followers` is a set:
`addFollower` sorts and searches it, so no follower is in it twice. Calls that
answer false change nothing and are not actions.

### UsersFile

Below the rows of `ProfileManager`: `file` is the text, a sequence of names,
commas and newlines (a name holds neither). `ReadAll`, `AppendRow`, `AppendToLine`
are the readers and writers of `lib/csv` on it, with the newline that goes before
a row and never behind one, the empty file that has one empty line, and the
overwriting that truncates nothing. A save is two steps, `Open`, which creates a
missing file, and `WriteUser` or `WriteFollower`; between them the process may
`Crash` and load again, which fails for good (`broken`) when a row is empty. Both
run under the mutex. Assumed: what is written between open and close reaches the
file in one `write()`, which holds up to the buffer of an `fstream` (8191 bytes);
beyond it a crash could leave a row cut in two. `SavesWhatItSpecifies` says that on
the text the operations are those `ProfileManager` specifies on rows, so what holds
there holds here.

### NotificationManager and Mailboxes

State: `known` (the keys of `m_notifications` and `m_pendingQueues`, which are
always added together), `m_nextId`, the stored notifications of each sender with
their `pendingCount`, the pending queues, the subscribers, and the `Queue` of each
consumer. `send`, `subscribe`, `unsubscribe` hold the mutex throughout: `Send`,
`Subscribe` (with the loop that drains the pending queue: `Found` and `Claim`),
`Unsubscribe`; `Remove` is a consumer taking an element.

`Mailboxes` is what this should amount to: a message is posted to mailboxes and
handed to those who listen, or kept for the first who does. It has neither stored
copies nor counts. `ImplementsMailboxes` is the refinement: waiting references are
waiting messages, consumers' queues are in-boxes.

### NotificationServer

Extends both managers. A thread `t` is a connection: `handler[t]` is where
`ConnectionHandler::run` is, `consumer[t]` where `NotificationConsumer::run` is. An
action is one manager call or one access to what the two threads share (the stop
flag, the connection); a loop iteration is split where another thread can come in
between, so SEND is `ReadFollowers` and `SendTweet`. `sent` is a history variable:
what was answered "Sent!", to which followers, and which of them had no queue
(`missed`). An element the consumer took is in `held` until it is written.
`ServerHandler`'s loop that accepts connections has no state: a thread in phase
"idle" is a connection whose LOGIN has not come.

### Connection, Channel and Delivery

`Connection` turns packets into bytes and back: `Send` is one `::send` of a whole
packet, `ReceivePiece`, `ReceiveSize`, `ReceivePacket` are the loop of `receiveAll` in
its two uses by `receive`. A byte of the size field stands for the size it spells, a
byte of the rest for its packet and position. `link` is what became of the
connection: "closed" by the writer (after which what was sent may be cut off by a
reset), "reset" when the reader is gone, "killed" when a send to him raised SIGPIPE.

`Delivery` is one session from `Queue::insert` to the reader. The push and
`notify_one` are two steps, since the mutex is released between them; the senders
hold the manager's mutex over both, so one sender at a time, and `unsubscribe`
waits for him. `tryRemoveFor` is `LookAtQueue`, `SpuriousWakeUp`, `TimeOut` and
`ReturnNothing`. The handler answers requests on the same connection, and stops,
joins and deletes. `Channel` is what this should amount to: a FIFO of which the
youngest elements may be lost once the session has ended. Under the mapping
`InTransit` is what is on the wire, in the consumer's hand and in the queue; on the
wire are the notifications whose last byte is (`LastBytes`, `OnTheWire`), since the
reader has one when he has its last byte. `Framed` says what the reader relies on
when he cuts the stream: he is in a field, and from its beginning on the bytes are
packets, one behind the other. `Orderly` relates the places of the consumer and the
handler: who is stopped, joined and closed after whom.

### Frontend

One process. `main` is where `main()` is in its loop, `todo` the handlers
`restablishConnections` has still to treat; `handler[h]` and `consumer[h][n]` are
the threads of client `h`. Connections and consumers of a handler are numbered: 1 is
what `run()` started and joins, n the one the (n-1)-th reconnection made.
`serverConn` is `m_serverConn`, `on` the connection a consumer is in `recv()` on, which
may be another. What `m_mutex` protects is one action; `ConsumerLoop` and
`SendClose` read without it. A deleted object keeps its memory, and `close()` does
not wake a thread in `recv()` on the same descriptor: it returns when the server
closes. The environment is the client (connects, requests, leaves), the leader
(`LeaderCrash`), and the replica elected after it, which announces itself and then
listens (`Announce`, `Listen`; of its short connection only the handler that sets
the flag is kept), and of each server the one `ConnectionHandler` at the other end
(`ServerAuthorize`, `ServerRefuse`, `ServerClose`): it grants a LOGIN with a name or
refuses the connection, either only as its first answer, and ends a session only after
CLOSE or at the end of the stream. A send to who has closed may raise SIGPIPE, which ends
the process as a `NULL` pointer does (`SendMayFail`, `crashed`).

### Client

`main` is where `main()` is, `receiver[n]` where the receiver of the n-th connection
is; deleting a receiver detaches its thread, which runs on. `tryLogin` takes the
first packet as the answer. A failed reconnection leaves `connection` at `NULL`, which
the next command uses. The feed is its size and `m_showingBegin`; `CanShowNext` has
the unsigned subtraction, modulo `SIZE_MAX + 1`. The front-ends are what they write and
the loss of a connection. `ClientInv` says that no receiver reads a connection on which
`tryLogin` waits (`AnswerIsForLogin`), that `main()` uses the last connection made or
none, and that a reconnection follows a loss (`LossIsTheCause`).

### ReplicaManager

A replica has a main thread (`pc`) and one handler per connection. `chan[p][r]` is a
TCP stream, in order; a crash may lose what the receiver has not read, nothing else
is lost or duplicated. `backlog` holds connections that are not accepted yet.
`conn[r][p]` is r's end: "closing" lies between the end of the stream, when an
election may be requested (`ReplicaHandler.cpp:90-91`), and `close()` (line 93), when
`removeClosedConnections` sees it. `WaitForAnswer`, `ReceiveAnswer` and
`SpuriousWakeUp` model the condition variable as it is used: a notification without a
waiter is lost, and a wait without a predicate may return although nobody has answered.
`startElection` is tested before `accept`, so one newcomer may still be answered after it
was set: the phase "flagged". A replica that a SIGPIPE ends is one that crashes. The
two-second sleep is untimed: it may last as short or as long as any other step.
`ReceiveState` takes the list and connects to its members in one step; nothing
that happens in between is visible to the steps. The ids are compared as in the
code (the lower is the "greater"). The data the replicas exchange is left out, and
so is what the front-ends do with NEW_LEADER.

`IsOpen(r, p)`: a question of `r` to `p` is open, its ELECTION on the way or the ANSWER on
its way back. `MayBeLost(r, p)`: it may be lost, because one of the two has crashed, or
has led already and closed the connection with the leader it replaced.
`NobodyGreaterIsIgnored` is what the code gives of an election's purpose: whoever is about
to lead has asked every replica its list calls greater and has ignored no answer; one that
really is greater has not answered yet, or after `lostElection` was looked at for the
last time, or cannot. More does not hold: a wait that returns by itself with
`lostElection` still false counts as won, and the replica may lead while a greater one is
about to tell it that it has lost (`ReplicaManager.cpp:193`, 196). The property relates
the loop over the list (`next`), the answers, which name neither the round nor the
question, and the ids at both ends, which may differ from those in the lists.

### PassiveReplication

The managers' variables are those of the leader; `profileCopy` and
`notificationCopy` are the backup's managers; `updates` is the connection between
them. A callback runs inside the manager's method and under its mutex, so
`Login`, `FollowUser`, `SendTweet`, `SubscribeSession` and `UnsubscribeSession` are a
manager action together with `SendUpdate`; closing a session and consuming a
notification call nothing back. `answerStartHandshake` runs in the main thread
and takes no mutex: it is four actions, `HandshakeProfile`, `HandshakeRead` and
`HandshakeNotifications` (the two loops of `serialize`) and `HandshakeEnd`
(`m_replicasVector.push_back`), with client threads between any two. One thing the
model does not show: a user who subscribes for the first time between the two loops of
`serialize` is in the copy's `m_pendingQueues` and not in its `m_notifications`, and such a
copy, if it led, would refuse his tweets; `known` is one set. `TakeOver` is
the end of the election `ReplicaManager` models: the backup's copy becomes the
leader's state, all sessions and subscribers are gone, and a new backup may join.
Assumed: the replicas run in one directory, as the commands of `src/README.md`
do, so `Users.db` is one file. `sentSince` is a history variable: the kinds of
update a member has been sent.

`EveryChangeIsSent` is the consistency the code does give: from the first update
of a kind on, the last packet of that kind, sent or received, is the leader's
state. Before it, a backup may miss a change made during its handshake (section 3).
`CopiesNeverGoBack` compares users and followers, and of the notifications `m_nextId` and
`known`: lists and queues shrink as well as grow, so which of two is the older cannot be
read off them.

## 3. Runs

Expected to hold:

| Run | Bounds | Shows |
|---|---|---|
| `profiles` | 3 users, no file at first, 3 threads, 2 sessions per user | `SavesWhatItSpecifies`, `DbMirrorsMemory`, `NothingForgotten` across crashes inside a save; `BreaksOnlyAtFirst`; `CloseFreesItsSlot` |
| `notifications` | 3 users, 2 consumers, 3 notifications | the inductive invariant and its parts; `ImplementsMailboxes` |
| `server` | 3 users (1 not in the file; only one tweets and is followed), 3 connections, 2 notifications | the inductive invariant `ServerInv` and its parts: sessions, subscribers, order, no loss or repetition, exact counts, correct use of the notification manager |
| `server_liveness` | 2 users, 2 connections, 1 session per user | `StoppedSessionsEnd`, `QueuedIsSent` |
| `delivery` | 3 notifications, 2 answers, a size field of 3 bytes, packets of 1 and 2 | the inductive invariant `DeliveryInv`; `ImplementsChannel`; `QueuedArrives` |
| `replicas` | 3 replicas, 2 crashes | the inductive invariant `RMInv`; `NoTakeoverFromARunningLeader`, `NobodyGreaterIsIgnored`; `ServiceResumes` (after the first crash), `LeaderIsKnown` |
| `frontend` | 1 client, 1 change of leader, 1 request on its way | the inductive invariant `FrontendInv`; `RequestsAreLoggedIn`, `OpenIsRead`; `LossIsNoticed`, `HandlersEnd` |
| `client` | 3 connections, 2 notifications, 1 packet on its way, pages of 1, a `SIZE_MAX` of 7 | the inductive invariant `ClientInv`; `LossLeadsToReconnection`; `PageStaysFull` |
| `replication` | 2 users (1 in the file), 2 threads, 1 session per user, 1 notification, 1 fail-over, 2 packets on their way | the inductive invariant `ReplicationInv`; `EveryChangeIsSent`, `CopiesNeverGoBack`, `FileCoversMemory` |

Expected to be violated, each by a short behaviour of the code:

| Run | Property | The code |
|---|---|---|
| `login` | `LoginAnsweredFirst` | a pending notification can be sent before the answer to LOGIN |
| `election_ends` | `ElectionEnds` | an ANSWER handled before the wait is lost |
| `reconnect` | `ClientsAreReconnected` | the flag is cleared after the reconnections, which are tried once and may come before the new server listens; and the old consumer closes the new connection |

The three causes in `reconnect` are independent: with two of them mended in the model and
the third left the property is still violated, whichever is left; with all three mended
(the flag cleared before the reconnections, the new leader listening before it announces
itself, a consumer closing only the connection it read) it holds on this instance.

Other things the models do that a reader of the code should know of; no property
here forbids them:

- The first user of a fresh server has id 0 (`ProfileManager.cpp:87`); a backup
  drops users whose id is not positive (line 132), so he is in no copy (`Snapshot`).
- A tweet sent between a follower's login and his subscription, or before the
  sender's own, is answered "Sent!" and never reaches him
  (`NotificationManager.cpp:24`, 109); `missed` in `sent` records whom.
- What changes between the copy a newcomer is sent and his entry in the list
  (`ReplicaManager.cpp:155-165`) is not sent to him until the next change of its
  kind; `EveryChangeIsSent` starts at the first update.
- A newcomer whose leader dies before it has answered keeps id -1
  (`ReplicaManager.cpp:256`), has nobody to ask, and leads beside the replica the
  others elect.
- A newcomer gets the length of the leader's list as its id (`ReplicaManager.cpp:287`),
  which another may have after a departure. With four replicas and two crashes two of
  them, connected with each other, can lead at once: one has id -1 because its answer
  was lost with the leader, the other knows it under the duplicate id, which is not
  greater than its own. `NobodyGreaterIsIgnored` is what does hold: the lists are obeyed.
- `wait()` has no predicate (`ReplicaManager.cpp:193`). If it returns by itself and the
  answer takes longer than the two seconds of line 103, a replica announces itself
  although a greater one has not answered; the late answer is taken for one of whatever
  election it meets (`SpuriousWakeUp`).
- A user who subscribes for the first time while a newcomer's copy is serialized is in
  one half of it only (section 2, PassiveReplication).
- A crash between the creation of `Users.db` and the first row leaves a file that no
  server can load (`broken` in `UsersFile`).
- A request of the front-end or a packet for the client, sent when the other end is
  closed, may end the front-end by SIGPIPE (`SendMayFail`).
- `ClientHandler.cpp:76-79` tests and uses `m_serverConn` without the mutex, and a
  consumer can set it to `NULL` in between (`crashed` in `Frontend`).
- A first consumer that was replaced while it was in `recv()` may wait for ever
  for a server that never heard of the change, and its handler with it
  (`HandlersEnd` excepts replaced connections).
- A client's new receiver may read `shouldReconnect` before it is cleared and end
  although "Reconnected!" is shown (`app_client.cpp:107-110`): nothing more is
  received on that connection, and nothing notices its loss. `LossLeadsToReconnection`
  is about receivers that listen.
- A receiver that has reported its loss may look at the flag only after `main()` has
  reconnected and cleared it: it reads the end of its old connection again and sets the
  flag again, so that a good connection is replaced (`ConnectionConsumer.cpp:22-27`,
  `app_client.cpp:110`). One loss can cost as many reconnections as it gets the chance.
- After a failed reconnection the next command uses `NULL`; a connection lost while
  a LOGIN waits for its answer does the same (`app_client.cpp:138`).
- A feed shorter than a page can be scrolled past its end (`NotificationList.cpp:24`).

Why the bounds are enough: three users are a sender with one follower online and
one offline (or two of either), and rows before, at and behind the one a follower is
added to; three threads fill the two slots of a user and leave one to be refused or
to belong to another;
two connections of one user and one of another are all the ways a notification
can be shared between sessions; two notifications show any inversion. The third
user of `server` is not in the file: he logs in, follows, and can be counted before he has
subscribed, and a notification can be counted for two and claimed by one after the other.
That one user alone tweets and is followed is a state constraint (`OnlyAliceTweets`);
nothing a follower does differs for two senders, whose lists and counts are separate, and
in `notifications` everybody sends. In a group
of three a crash leaves an election between two, a second crash an election whose
candidate dies, after which a waiting replica may wait for ever, so
`ServiceResumes` promises nothing then. In `replication` one user is in the file and
the other is created by his login, one follows the other, and the crash may come
with packets unsent; with three packets on their way (1.5 million states) the
properties hold as well. In `delivery` one notification
can be on the wire, one in hand and one in the queue, with an answer before or
between; a size field of three bytes and a body of two are cut in every way. In
`frontend` one change of leader replaces one connection, early or late; handlers of
two clients share only the flag and the vector. Two changes of leader (5.3 million
states) were checked for the invariants alone: they hold. In `client` the third
connection is one that replaces a replacement, and with a `SIZE_MAX` of 7 the subtraction in
`CanShowNext` wraps for feeds shorter than a page and does not for longer ones. `MaxId` and `MaxCrashes` bound the
counters; the guards that use them are marked in the modules. Thread and replica
symmetry is used in safety runs only.
What is queued when a session is stopped is lost with the consumer
(`NotificationConsumer.cpp:22`): `QueuedIsSent` promises delivery to a session that
is not stopped, no more.

Deadlock is not checked where the system may rightly stop: `Users.db` broken, a
session of `Delivery` over, the front-end process or the client gone, every connection
served by `NotificationServer` may be over, every replica of `ReplicaManager` idle or
crashed, the leader of `PassiveReplication` dead before it had a backup. `notifications` checks it.

Fairness: `FairServerSpec` has weak fairness of what each handler and each consumer
thread does of its own accord: threads are scheduled by the operating system, all
mutexes are held for finitely long, and `join` returns once the consumer has. What a
client asks for is not fair. `FairRMSpec` has weak fairness of the main thread and of
every handler of a running replica; `Start` and `Crash` are not fair, and nothing makes
a wait return by itself.
`FairDeliverySpec`: the consumer, the sender between push and notify, the join, the
reader, and the time-out of a wait that nobody ends. `FairFrontendSpec`: the main
thread, each handler, each consumer, and the server's handler of a connection; and
after a crash a replica is elected and listens, which is what the election promises.
`FairClientSpec`: the threads, and a user who keeps pressing keys and leaves the
notification window; main() looks at the flag only after a key. A LOGIN that was
sent is answered or its connection is lost.

A mutant in `PROJECT.json` is a definition of the module changed the way a bug would
change it (they are marked "Mutant of ..." in the modules, next to the definition
they stand for). Each property that holds fails with its mutant.

## 4. Proofs

Every theorem is about all values of the constants: any finite set of users, any
threads, replicas and clients, any bounds. The assumptions are those the modules name
(`UsernamesAreFinite`, `MaxIdAssumption`, `InitialLeaderAssumption`, `MaxCrashesAssumption`
and their like). Each module has one inductive invariant, which TLC checks on the
run of the module before it is proved; the step is proved action by action, each on
the conjuncts it can disturb, and the properties of the runs follow from it.

`ManagerProofs`, on notifications: `NotificationInv`. Its heart is `PendingResolves` (a pending
reference finds its notification) and `CountCoversHolders` (the count is at least the
number of queues that hold a reference, and positive). Neither is inductive alone:
a claim that leaves others owed must leave a positive count, which needs the count
to cover the other holders; that a claim takes one holder away needs each queue to
hold a reference once (`InSendingOrder`) and one stored copy per number
(`StoredOnce`); a new notification must not be taken for an old one (numbers below
`m_nextId`); a follower without a queue must hold nothing (`UnknownHaveNothing`).
`NothingPendingWhileOnline` is what makes `Subscribe` hand the pending entries to one
subscriber and no other. The refinement of `Mailboxes` follows: because every pending
entry resolves, `Found` is the whole queue, and the steps are those of `Mailboxes`.

`ManagerProofs`, on profiles: `ProfileInv` (the rows of `Users.db` are the users in memory, one
row each, nobody follows himself, and no thread has two slots of a user), from which `DbMirrorsMemory`,
`NothingForgotten` and `CloseFreesItsSlot` follow.

`NotificationServerProofs`: that `ServerSpec` implies `NotificationSpec` and
`ProfileSpec`, step by step, so that the theorems above are theorems about the
server; and `ServerInv`, which relates the threads to the managers: sessions to
handlers, subscribers to consumers, and what was answered "Sent!" to where it is
now (pending with its count, in a consumer's queue, in hand, or handed over).

`FrontendProofs`: `FrontendInv`. A connection that carries a request carried its LOGIN
first because a handler that replaces a connection sends the LOGIN under the mutex;
the invariant says whose name a handler knows and that the connection he has now carries
his LOGIN (`KnownAreLoggedIn`), that a server serves only whom it has a LOGIN of
(`ServedAreLoggedIn`), that one connection is replaced at a time, by the last one
made (`OneIsCurrent`), and that a handler has at most one more per announced round
(`RoundsAreAnnounced`).

`ClientProofs`: `ClientInv`. A receiver is started only when LOGIN was answered, and the
connection a reconnection makes is one nobody has used (`LastIsUsed`); so the receivers left
over from lost connections, which run on, read those and never take the answer to a
LOGIN. That the page stays full needs the feed to fit into a `size_t`, which it does because
a packet read is a notification less on its way: `OneMore` and `OneLess` count them, the
latter by an injection of what is left into what there was.

`PassiveReplicationProofs`: `ReplicationInv`, on top of both managers' invariants. A copy
is as old as the last packet it got; packets in transit are in the order in which the
leader's state grew, those of the handshake included, and the last one is the
leader's state unless no update of its kind was sent yet. After a fail-over memory may
know less than the file: `FileCoversMemory` is inductive with it.

`ReplicaManagerProofs`: `RMInv`, in three parts. `Newcomer`: nobody has a word for a replica
that was not started, and the first a newcomer reads is the leader's answer, since the
leader does not list it before that. `FirstLeaderAlone`: while the first leader runs,
nobody has another leader's connection, no election is asked for, and a connection
is closed only if its other end crashed; later, only if an end crashed or has taken over
(`ClosedForAReason`). The election: `WordsAreTrue` says that a question carries its
asker's id and that a "Won" on its way is true; `ElectionOf` says, unless the election is
lost already, which replicas of the list are left: who is greater has an open question, or
one that may be lost, or is still to be asked. A wait that returns by itself
leaves the question open, which `ElectionOf` allows, and the answer, when it comes, counts
for whatever election runs then. It is inductive because ids change only from -1, and
because a connection delivers in order.

`DeliveryProofs`: `DeliveryInv`, that is `Framed` and `Orderly`, for every length of the size
field and of the packets. A packet is sent by one `::send()`, so what a writer appends
begins where a packet ends; a reader who takes exactly the length that the size field
spelled is again where a packet ends. What a close cuts off is a tail, which `Follows`
allows. From it the refinement of `Channel`, step by step: only the end of a packet
hands a notification over, and it is the first on the wire; only the consumer's `Send`
puts one on, behind those that are there, and it is the head of what was behind them.
The notifications on the wire are the entries of the stream at the `LastBytes`, and
`SubsequencesProofs` says how such a selection changes when the sequence grows at its end,
or loses its front or its tail.

`SubsequencesProofs` proves facts about `Entries` for the proofs of the notification
manager, the replica manager and `Delivery`: it takes the entry of each rank, and what it
returns is read off an enumeration of the selected indexes (`Enumerates`).

Only model-checked: `UsersFile` (its text is read and written by folds, that is, by
recursion over data) and all liveness (the prover handles neither fairness nor
ENABLED here): `ServiceResumes`, `LeaderIsKnown`, `StoppedSessionsEnd`, `QueuedIsSent`,
`QueuedArrives`, `LossIsNoticed`, `HandlersEnd`, `LossLeadsToReconnection`.

## 5. Not modelled

- The UDP socket (no program uses it), ncurses drawing and text input, logging, the
  wording of answers, and the string helpers, which work on characters.
- The text of headers and of serialized profiles and notifications: a packet is
  what it says. The terminator written behind a buffer (`NotificationManager.cpp:191`,
  217, `NotificationQueue.cpp:80`, `Notification.cpp:44`) is not.
- User names that hold a comma or a newline; a save of more than 8191 bytes that is
  cut in two by a crash.
- Two packets interleaved on a connection whose send buffer is full.
- `startServerInAnyAddress`: which address a front-end listens at.
- Uses of deleted memory: connections and consumers of the front-end, receivers of the
  client whose threads run on,
  `m_leaderConn` (`ReplicaManager.cpp:111`); and a connection set to `NULL` between the
  loop's test and `receive()` in `ServerConsumer.cpp:23-25`.
- 32-bit truncation of thread ids in `m_subscribersQueue`, the race between
  `Thread::start` and `getId`, and data races on `m_replicasVector`.
- Which of the two parts of a serialized `NotificationManager` knows a user.
