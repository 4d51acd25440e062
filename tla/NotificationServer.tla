------------------------- MODULE NotificationServer -------------------------
(***************************************************************************)
(* The notification server of the leader: ServerHandler accepts a          *)
(* connection, a ConnectionHandler serves its requests, and the            *)
(* NotificationConsumer the handler starts sends the notifications.  All   *)
(* of them share one ProfileManager and one NotificationManager.           *)
(*                                                                         *)
(* A thread t is one connection: its handler thread, which is never joined *)
(* or reused, and its consumer thread.  Each manager call is one action    *)
(* (it holds the manager's mutex); between two calls anything may happen.  *)
(* The answers to requests are left out except that to LOGIN: they are     *)
(* written by the handler between two of its own steps.                    *)
(***************************************************************************)
EXTENDS ProfileManager, NotificationManager

VARIABLES
    handler,     \* thread -> where ConnectionHandler::run is
    username,    \* thread -> sessionToken.first
    followers,   \* thread -> what followersOf answered to SendTweetRoute
    consumer,    \* thread -> where NotificationConsumer::run is
    shouldStop,  \* thread -> m_shouldStop of the consumer
    held,        \* thread -> the notification removed and not yet sent
    toClient,    \* thread -> packets written to the connection
    sent         \* history: the SEND requests answered with "Sent!"

threadVars == <<handler, username, followers, consumer, shouldStop, held>>
serverVars == <<profileVars, notificationVars, threadVars, toClient, sent>>

HandlerPhase  == {"idle", "authorized", "greeting", "serving", "sending", "joining", "done"}
ConsumerPhase == {"none", "subscribing", "looping", "removing", "waiting", "sending",
                  "leaving", "returned", "deleted"}

LoginSuccess == [type |-> "SUCCESS"]
Data(p)      == [type |-> "DATA", data |-> p]
Packet       == {LoginSuccess} \cup [type : {"DATA"}, data : Pending]
SentTweet    == [sender : Username, notificationId : Nat,
                 followers : SUBSET Username, missed : SUBSET Username]

ServerInit ==
    /\ ProfileInit
    /\ NotificationInit(DOMAIN m_users)
    /\ handler = [t \in Thread |-> "idle"]
    /\ username = [t \in Thread |-> ""]
    /\ followers = [t \in Thread |-> {}]
    /\ consumer = [t \in Thread |-> "none"]
    /\ shouldStop = [t \in Thread |-> FALSE]
    /\ held = [t \in Thread |-> <<>>]
    /\ toClient = [t \in Thread |-> <<>>]
    /\ sent = {}
-----------------------------------------------------------------------------
(* The handler.                                                            *)

Step(pc, t, from, to) ==
    /\ pc[t] = from
    /\ pc' = [pc EXCEPT ![t] = to]

\* ServerHandler::run starts a handler for a new connection, and authorizeSession
\* opens the session the LOGIN request asks for.
AuthorizeSession(t, u) ==
    /\ Step(handler, t, "idle", "authorized")
    /\ StartSession(u, t)
    /\ username' = [username EXCEPT ![t] = u]
    /\ UNCHANGED <<notificationVars, followers, consumer, shouldStop, held, toClient, sent>>

\* authorizeSession fails: no LOGIN request, a closed connection, or no session
\* left for the user.  "Connection refused.", and the handler is done.
Refuse(t) ==
    /\ Step(handler, t, "idle", "done")
    /\ UNCHANGED <<profileVars, notificationVars, username, followers, consumer,
                   shouldStop, held, toClient, sent>>

\* The consumer runs before the client has its answer.
StartConsumer(t) ==
    /\ Step(handler, t, "authorized", "greeting")
    /\ consumer' = [consumer EXCEPT ![t] = "subscribing"]
    /\ UNCHANGED <<profileVars, notificationVars, username, followers, shouldStop,
                   held, toClient, sent>>

SendLoginResponse(t) ==
    /\ Step(handler, t, "greeting", "serving")
    /\ toClient' = [toClient EXCEPT ![t] = Append(@, LoginSuccess)]
    /\ UNCHANGED <<profileVars, notificationVars, username, followers, consumer,
                   shouldStop, held, sent>>

\* SendTweetRoute reads the followers first ...  (The first guard is the bound MaxId.)
ReadFollowers(t) ==
    /\ m_nextId + Cardinality({h \in Thread : handler[h] = "sending"}) <= MaxId
    /\ Step(handler, t, "serving", "sending")
    /\ followers' = [followers EXCEPT ![t] = FollowersOf(username[t])]
    /\ UNCHANGED <<profileVars, notificationVars, username, consumer, shouldStop,
                   held, toClient, sent>>

\* ... and sends to those, whatever has changed since.  A sender without a list
\* yet (createNotification answers false) is told "Sent!" all the same.
SendTweet(t) ==
    /\ Step(handler, t, "sending", "serving")
    /\ IF username[t] \in known
       THEN /\ Send(username[t], followers[t])
            /\ sent' = sent \cup {[sender |-> username[t], notificationId |-> m_nextId,
                                   followers |-> followers[t],
                                   missed |-> followers[t] \ known]}
       ELSE /\ sent' = sent \cup {[sender |-> username[t], notificationId |-> 0,
                                   followers |-> followers[t], missed |-> followers[t]]}
            /\ UNCHANGED notificationVars
    /\ followers' = [followers EXCEPT ![t] = {}]
    /\ UNCHANGED <<profileVars, username, consumer, shouldStop, held, toClient>>

\* FollowRoute.  A request that cannot be granted changes nothing.
FollowUser(t, u) ==
    /\ handler[t] = "serving"
    /\ Follow(username[t], u)
    /\ UNCHANGED <<notificationVars, threadVars, toClient, sent>>

\* CLOSE, or the connection is lost: consumerThread->stop().
StopConsumer(t) ==
    /\ Step(handler, t, "serving", "joining")
    /\ shouldStop' = [shouldStop EXCEPT ![t] = TRUE]
    /\ UNCHANGED <<profileVars, notificationVars, username, followers, consumer, held,
                   toClient, sent>>

\* Mutants of EndSession: the session stays open; the consumer is not joined.
EndWithoutClose(t) ==
    /\ consumer[t] = "returned"
    /\ Step(handler, t, "joining", "done")
    /\ consumer' = [consumer EXCEPT ![t] = "deleted"]
    /\ UNCHANGED <<profileVars, notificationVars, username, followers, shouldStop, held,
                   toClient, sent>>

EndWithoutJoin(t) ==
    /\ Step(handler, t, "joining", "done")
    /\ consumer' = [consumer EXCEPT ![t] = "deleted"]
    /\ CloseSession(username[t], t)
    /\ UNCHANGED <<notificationVars, username, followers, shouldStop, held, toClient, sent>>

\* join() returns, the consumer is deleted with the queue inside it, and the
\* session is closed.
EndSession(t) ==
    /\ consumer[t] = "returned"
    /\ Step(handler, t, "joining", "done")
    /\ consumer' = [consumer EXCEPT ![t] = "deleted"]
    /\ CloseSession(username[t], t)
    /\ UNCHANGED <<notificationVars, username, followers, shouldStop, held, toClient, sent>>
-----------------------------------------------------------------------------
(* The consumer.                                                           *)

ConsumerSubscribe(t) ==
    /\ Step(consumer, t, "subscribing", "looping")
    /\ Subscribe(username[t], t)
    /\ UNCHANGED <<profileVars, handler, username, followers, shouldStop, held,
                   toClient, sent>>

\* Mutant of ConsumerLoop: while (true).
ConsumerLoopForever(t) ==
    /\ Step(consumer, t, "looping", "removing")
    /\ UNCHANGED <<profileVars, notificationVars, handler, username, followers,
                   shouldStop, held, toClient, sent>>

\* while (shouldStop() == false)
ConsumerLoop(t) ==
    /\ consumer[t] = "looping"
    /\ consumer' = [consumer EXCEPT ![t] = IF shouldStop[t] THEN "leaving" ELSE "removing"]
    /\ UNCHANGED <<profileVars, notificationVars, handler, username, followers,
                   shouldStop, held, toClient, sent>>

\* tryRemoveFor finds the queue empty and waits.
ConsumerWait(t) ==
    /\ m_queue[t] = <<>>
    /\ Step(consumer, t, "removing", "waiting")
    /\ UNCHANGED <<profileVars, notificationVars, handler, username, followers,
                   shouldStop, held, toClient, sent>>

\* Mutant of ConsumerRemove: only a notify makes it look at the queue.
ConsumerRemoveNotified(t) ==
    /\ consumer[t] = "waiting"
    /\ Remove(t)
    /\ held' = [held EXCEPT ![t] = <<Head(m_queue[t])>>]
    /\ consumer' = [consumer EXCEPT ![t] = "sending"]
    /\ UNCHANGED <<profileVars, handler, username, followers, shouldStop, toClient, sent>>

\* tryRemoveFor returns an element, at once or after a notify.
ConsumerRemove(t) ==
    /\ consumer[t] \in {"removing", "waiting"}
    /\ Remove(t)
    /\ held' = [held EXCEPT ![t] = <<Head(m_queue[t])>>]
    /\ consumer' = [consumer EXCEPT ![t] = "sending"]
    /\ UNCHANGED <<profileVars, handler, username, followers, shouldStop, toClient, sent>>

\* 1500 ms are over: nothing is returned, even if an element has just come.
ConsumerTimeout(t) ==
    /\ Step(consumer, t, "waiting", "looping")
    /\ UNCHANGED <<profileVars, notificationVars, handler, username, followers,
                   shouldStop, held, toClient, sent>>

ConsumerSend(t) ==
    /\ Step(consumer, t, "sending", "looping")
    /\ toClient' = [toClient EXCEPT ![t] = Append(@, Data(Head(held[t])))]
    /\ held' = [held EXCEPT ![t] = <<>>]
    /\ UNCHANGED <<profileVars, notificationVars, handler, username, followers,
                   shouldStop, sent>>

ConsumerUnsubscribe(t) ==
    /\ Step(consumer, t, "leaving", "returned")
    /\ Unsubscribe(username[t], t)
    /\ UNCHANGED <<profileVars, handler, username, followers, shouldStop, held,
                   toClient, sent>>
-----------------------------------------------------------------------------
\* What a client may ask for, at any time or never.
ClientRequest(t) ==
    \/ Refuse(t) \/ ReadFollowers(t) \/ StopConsumer(t)
    \/ \E u \in Username : AuthorizeSession(t, u) \/ FollowUser(t, u)

\* What the handler does of its own accord once asked.
HandlerStep(t) ==
    \/ StartConsumer(t) \/ SendLoginResponse(t) \/ SendTweet(t)
    \/ EndSession(t)

ConsumerStep(t) ==
    \/ ConsumerSubscribe(t) \/ ConsumerLoop(t) \/ ConsumerWait(t) \/ ConsumerRemove(t)
    \/ ConsumerTimeout(t) \/ ConsumerSend(t) \/ ConsumerUnsubscribe(t)

ServerNext == \E t \in Thread : ClientRequest(t) \/ HandlerStep(t) \/ ConsumerStep(t)

ServerSpec == ServerInit /\ [][ServerNext]_serverVars

\* The operating system runs every thread that can run.
FairServerSpec ==
    ServerSpec /\ \A t \in Thread : WF_serverVars(HandlerStep(t)) /\ WF_serverVars(ConsumerStep(t))
-----------------------------------------------------------------------------
ServerTypeOK ==
    /\ ProfileTypeOK
    /\ NotificationTypeOK
    /\ handler \in [Thread -> HandlerPhase]
    /\ username \in [Thread -> Username \cup {""}]
    /\ followers \in [Thread -> SUBSET Username]
    /\ consumer \in [Thread -> ConsumerPhase]
    /\ shouldStop \in [Thread -> BOOLEAN]
    /\ held \in [Thread -> Seq(Pending)]
    /\ toClient \in [Thread -> Seq(Packet)]
    /\ sent \subseteq SentTweet

HasSession(t) == handler[t] \notin {"idle", "done"}

\* The sessions of a user are exactly the connections that are logged in as him,
\* each listed once: no slot leaks and none is freed under a running handler.
SessionsMirrorHandlers == \A u \in Username :
    LET open == {t \in Thread : HasSession(t) /\ username[t] = u} IN
    IF u \in DOMAIN m_users
    THEN /\ {t \in Thread : InList(m_users[u].m_sessions, t)} = open
         /\ Len(m_users[u].m_sessions) = Cardinality(open)
    ELSE open = {}

\* m_subscribersQueue holds references to queues inside consumers: a subscribed
\* consumer is running for that user, and is not deleted before it unsubscribes.
SubscribersAreAlive == \A u \in Username : \A c \in m_subscribersQueue[u] :
    username[c] = u /\ consumer[c] \in {"looping", "removing", "waiting", "sending", "leaving"}

\* What a connection has still to be sent: in hand and queued.
ToSend(t)        == held[t] \o m_queue[t]
HandedOver(t, p) == InList(toClient[t], Data(p)) \/ InList(ToSend(t), p)

\* A client gets the notifications in the order the server numbered them and
\* none twice, those that waited for his login included.
InOrderOnce == \A t \in Thread :
    /\ \A i, j \in DOMAIN toClient[t] :
         i < j /\ toClient[t][i] # LoginSuccess /\ toClient[t][j] # LoginSuccess =>
            toClient[t][i].data.notificationId < toClient[t][j].data.notificationId
    /\ \A i \in DOMAIN toClient[t], k \in DOMAIN ToSend(t) :
         toClient[t][i] # LoginSuccess =>
            toClient[t][i].data.notificationId < ToSend(t)[k].notificationId
    /\ Increasing(ToSend(t))

\* A notification taken from a sender is, for every follower it was queued for,
\* either still pending or handed to a session of his, never both: a second
\* session does not get it again, and a login does not lose it.
PendingOrHandedOver ==
    \A r \in {x \in sent : x.notificationId # 0} : \A f \in r.followers \ r.missed :
        LET p == Ref(r.sender, r.notificationId)
        IN  InList(m_pendingQueue[f], p) #
            (\E t \in Thread : username[t] = f /\ HandedOver(t, p))

\* pendingCount counts the queues that still refer to the notification, and the
\* followers that had no queue when it was sent.
PendingCountExact == \A s \in Username : \A n \in m_notifications[s] :
    \E r \in sent :
        /\ r.sender = s
        /\ r.notificationId = n.id
        /\ n.pendingCount = Cardinality(Holders(s, n.id)) + Cardinality(r.missed)

\* How the phases of the two threads of a connection go together, and what the
\* connection has in each.
PhasesAgree == \A t \in Thread :
    /\ handler[t] \in {"idle", "authorized"} => consumer[t] = "none"
    /\ handler[t] = "done" => consumer[t] \in {"none", "deleted"}
    /\ HasSession(t) => username[t] \in DOMAIN m_users
    /\ username[t] \notin followers[t]
    /\ handler[t] # "sending" => followers[t] = {}
    /\ Len(held[t]) = IF consumer[t] = "sending" THEN 1 ELSE 0
    /\ consumer[t] \in {"none", "subscribing"} =>
         m_queue[t] = <<>> /\ \A i \in DOMAIN toClient[t] : toClient[t][i] = LoginSuccess

\* The converse of SubscribersAreAlive.
TheAliveAreSubscribed == \A t \in Thread :
    consumer[t] \in {"looping", "removing", "waiting", "sending", "leaving"} =>
        t \in m_subscribersQueue[username[t]]

\* What was answered, written or taken from a queue has a number already given.
NumbersAreGiven ==
    /\ \A t \in Thread : Fresh(ToSend(t))
    /\ \A t \in Thread : \A i \in DOMAIN toClient[t] :
         toClient[t][i] # LoginSuccess => toClient[t][i].data.notificationId < m_nextId
    /\ \A r \in sent : r.notificationId < m_nextId

\* The inductive invariant.
ServerInv ==
    /\ ServerTypeOK
    /\ ProfileInv
    /\ NotificationInv
    /\ PhasesAgree
    /\ SessionsMirrorHandlers
    /\ SubscribersAreAlive
    /\ TheAliveAreSubscribed
    /\ NumbersAreGiven
    /\ InOrderOnce
    /\ PendingOrHandedOver
    /\ PendingCountExact

\* The handlers and consumers call the NotificationManager in the ways its own
\* specification allows, so what holds there holds here.
UsesNotificationManager == NotificationSpec

\* A session that is asked to stop gives its slot back.
StoppedSessionsEnd == \A t \in Thread : handler[t] = "joining" ~> handler[t] = "done"

\* What is in the queue of a consumer is sent, unless the session is stopped.
QueuedIsSent == \A t \in Thread, s \in Username, id \in 1 .. MaxId :
    InList(m_queue[t], Ref(s, id)) ~>
        (InList(toClient[t], Data(Ref(s, id))) \/ shouldStop[t])
-----------------------------------------------------------------------------
(* What the documents or the clients expect and the code does not give.    *)

\* The first packet a client receives answers its LOGIN.
LoginAnsweredFirst == \A t \in Thread :
    toClient[t] # <<>> => toClient[t][1] = LoginSuccess

=============================================================================
