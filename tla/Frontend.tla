------------------------------ MODULE Frontend ------------------------------
(***************************************************************************)
(* One front-end process.  Its main thread accepts clients, opens for each *)
(* a connection to the server and starts a ClientHandler; when a new       *)
(* leader announces itself it opens those connections again.  A handler    *)
(* passes requests on to the server; ServerConsumers pass on what the      *)
(* server sends.                                                           *)
(*                                                                         *)
(* A handler is named after its client.  The n-th connection it was given  *)
(* is number n; consumer n was started for it and number 1 is the one      *)
(* run() itself starts and joins.  NULL is 0.  Everything under m_mutex is *)
(* one action.  Deleting an object another thread still uses (a consumer,  *)
(* or a connection one receives on) leaves the memory as it was.           *)
(*                                                                         *)
(* The vector of handlers is a set: the loop over it may take them in any  *)
(* order.                                                                  *)
(*                                                                         *)
(* A new leader is a client for a moment: it connects, writes NEW_LEADER   *)
(* and leaves (notifyFrontends).  Of its handler only the thread that sets *)
(* the flag is kept: the connection it is given serves nobody.             *)
(***************************************************************************)
EXTENDS Integers, Sequences, FiniteSets

CONSTANTS
    Client,       \* clients, each connecting once
    Announcer,    \* the connections of new leaders, one for each change of leader
    MaxRequests   \* requests of one client on their way to the front-end

ASSUME FrontendAssumption ==
    /\ Client \cap Announcer = {}
    /\ IsFiniteSet(Announcer)
    /\ MaxRequests \in Nat \ {0}

NULL    == 0
MaxConn == 1 + Cardinality(Announcer)   \* each announcement opens at most one more
Number  == 1 .. MaxConn

VARIABLES
    \* the program
    shouldRestablish,  \* the flag all threads share
    main,              \* where main() is
    clientHandlers,    \* what the vector holds
    todo,              \* the handlers the loop over it still has to do
    current,           \* the one whose connection it has just replaced, if any
    made,              \* handler -> number of the last connection made for it
    handler,           \* handler -> where ClientHandler::run is
    isFinished, named, \* handler -> isFinished, and whether its username is known
    serverConn,        \* handler -> number in m_serverConn
    consumer,          \* handler -> number -> where ServerConsumer::run is
    on,                \* handler -> number -> connection that consumer is in recv() on
    crashed,           \* a NULL pointer was used: the process is gone
    \* the world
    client,            \* handler -> what the client knows
    notice,            \* announcer -> where its NEW_LEADER is
    requests,          \* handler -> packets from the client not yet treated
    backlog,           \* connections not yet accepted
    leader,            \* whether a server listens
    peer,              \* handler -> number -> where the server's ConnectionHandler is
    closed,            \* handler -> numbers closed by the front-end
    sent               \* handler -> number -> kinds of packets written to it

mainVars     == <<main, clientHandlers, todo, current, made>>
handlerVars  == <<handler, isFinished, named>>
consumerVars == <<consumer, on>>
worldVars    == <<client, notice, requests, backlog, leader>>
linkVars     == <<peer, closed, sent>>
frontendVars == <<shouldRestablish, mainVars, handlerVars, serverConn, consumerVars,
                  crashed, worldVars, linkVars>>

HandlerPhase  == {"none", "starting", "receiving", "locking", "closing", "joining", "done"}
ConsumerPhase == {"none", "looping", "receiving", "leaving", "ended"}

\* The server's end: the connection is made ("open"), the LOGIN granted ("serving") or
\* answered by "Connection refused.", which is followed by its end.
PeerPhase     == {"none", "open", "serving", "refusing", "refused", "closed"}

FrontendInit ==
    /\ shouldRestablish = FALSE
    /\ main = "checking"
    /\ clientHandlers = {}
    /\ todo = {}
    /\ current = {}
    /\ made = [h \in Client |-> 0]
    /\ handler = [h \in Client |-> "none"]
    /\ isFinished = [h \in Client |-> TRUE]
    /\ named = [h \in Client |-> FALSE]
    /\ serverConn = [h \in Client |-> NULL]
    /\ consumer = [h \in Client |-> [n \in Number |-> "none"]]
    /\ on = [h \in Client |-> [n \in Number |-> NULL]]
    /\ crashed = FALSE
    /\ client = [h \in Client |-> "absent"]
    /\ notice = [a \in Announcer |-> "absent"]
    /\ requests = [h \in Client |-> <<>>]
    /\ backlog = <<>>
    /\ leader = "listening"
    /\ peer = [h \in Client |-> [n \in Number |-> "none"]]
    /\ closed = [h \in Client |-> {}]
    /\ sent = [h \in Client |-> [n \in Number |-> {}]]
-----------------------------------------------------------------------------
(* Connections to the server.                                              *)

\* connect() to SERVER_ADDR, and the first packets written on the connection.
Connect(h, packets) ==
    /\ made' = [made EXCEPT ![h] = @ + 1]
    /\ IF leader = "listening"
       THEN /\ peer' = [peer EXCEPT ![h][made'[h]] = "open"]
            /\ sent' = [sent EXCEPT ![h][made'[h]] = packets]
       ELSE UNCHANGED <<peer, sent>>

\* What connect() returns.
Connection(h) == IF leader = "listening" THEN made'[h] ELSE NULL

\* The server has an end of the connection, and has closed it.
Connected(h, n) == peer[h][n] \in {"open", "serving", "refusing"}
Lost(h, n)      == peer[h][n] \in {"refused", "closed"}

\* A send() to who has closed the connection may raise SIGPIPE, which nobody handles.
SendMayFail(gone) == crashed' \in {FALSE, gone}
-----------------------------------------------------------------------------
(* main()                                                                  *)

\* accept(800): a connection that waits is accepted and its handler started.
Accept ==
    /\ main = "accepting"
    /\ main' = "checking"
    /\ backlog # <<>> /\ Head(backlog) \in Client
    /\ LET h == Head(backlog) IN
         /\ Connect(h, {})
         /\ serverConn' = [serverConn EXCEPT ![h] = Connection(h)]
         /\ handler' = [handler EXCEPT ![h] = "starting"]
         /\ clientHandlers' = clientHandlers \cup {h}
    /\ backlog' = Tail(backlog)
    /\ UNCHANGED <<shouldRestablish, todo, current, isFinished, named, consumerVars, crashed,
                   client, notice, requests, leader, closed>>

\* The same for a new leader, whose handler has something to read.
AcceptNotice ==
    /\ main = "accepting"
    /\ main' = "checking"
    /\ backlog # <<>> /\ Head(backlog) \in Announcer
    /\ notice' = [notice EXCEPT ![Head(backlog)] = "accepted"]
    /\ backlog' = Tail(backlog)
    /\ UNCHANGED <<shouldRestablish, clientHandlers, todo, current, made, handlerVars,
                   serverConn, consumerVars, crashed, client, requests, leader, linkVars>>

\* Nobody came within 800 ms.
AcceptTimeout ==
    /\ main = "accepting"
    /\ main' = "checking"
    /\ backlog = <<>>
    /\ UNCHANGED <<shouldRestablish, clientHandlers, todo, current, made, handlerVars,
                   serverConn, consumerVars, crashed, worldVars, linkVars>>

\* If the flag is set: drop the handlers that are finished, or have not begun yet.
CheckFlag ==
    /\ main = "checking"
    /\ IF shouldRestablish
       THEN /\ main' = "restablishing"
            /\ clientHandlers' = {h \in clientHandlers : ~isFinished[h]}
            /\ todo' = clientHandlers'
       ELSE /\ main' = "accepting"
            /\ UNCHANGED <<clientHandlers, todo>>
    /\ UNCHANGED <<shouldRestablish, current, made, handlerVars, serverConn, consumerVars,
                   crashed, worldVars, linkVars>>

Replace(h, n) ==
    /\ closed' = [closed EXCEPT ![h] = @ \cup ({serverConn[h]} \ {NULL})]
    /\ serverConn' = [serverConn EXCEPT ![h] = n]

\* Mutant of Reconnect: the new server is not told who the client is.
ReconnectSilently ==
    /\ main = "restablishing"
    /\ main' = "restarting"
    /\ \E h \in todo :
         /\ Connect(h, {})
         /\ Replace(h, Connection(h))
         /\ current' = {h}
         /\ todo' = todo \ {h}
    /\ UNCHANGED <<shouldRestablish, clientHandlers, handlerVars, consumerVars, crashed,
                   worldVars>>

\* The next handler: connect, log in by the name it has at that moment, and
\* setServerConnection: the old connection is closed and the new one takes its place.
Reconnect ==
    /\ main = "restablishing"
    /\ main' = "restarting"
    /\ \E h \in todo :
         /\ Connect(h, {IF named[h] THEN "LOGIN" ELSE "LOGIN without name"})
         /\ Replace(h, Connection(h))
         /\ current' = {h}
         /\ todo' = todo \ {h}
    /\ UNCHANGED <<shouldRestablish, clientHandlers, handlerVars, consumerVars, crashed,
                   worldVars>>

\* Mutant of RestartServerConsumer: nobody reads the new connection.
RestartNoConsumer ==
    /\ main = "restarting"
    /\ main' = "restablishing"
    /\ current' = {}
    /\ UNCHANGED <<shouldRestablish, clientHandlers, todo, made, handlerVars,
                   serverConn, consumerVars, crashed, worldVars, linkVars>>

\* m_serverConsumer is replaced; if one was there, its thread is detached.
RestartServerConsumer ==
    /\ main = "restarting"
    /\ main' = "restablishing"
    /\ \E h \in current : consumer' = [consumer EXCEPT ![h][made[h]] = "looping"]
    /\ current' = {}
    /\ UNCHANGED <<shouldRestablish, clientHandlers, todo, made, handlerVars,
                   serverConn, on, crashed, worldVars, linkVars>>

\* Mutant of Restablished: the flag is not cleared.
RestablishedStill ==
    /\ main = "restablishing"
    /\ todo = {}
    /\ main' = "accepting"
    /\ UNCHANGED <<shouldRestablish, clientHandlers, todo, current, made, handlerVars,
                   serverConn, consumerVars, crashed, worldVars, linkVars>>

\* Only now is the flag cleared: a NEW_LEADER that came meanwhile is forgotten.
Restablished ==
    /\ main = "restablishing"
    /\ todo = {}
    /\ main' = "accepting"
    /\ shouldRestablish' = FALSE
    /\ UNCHANGED <<clientHandlers, todo, current, made, handlerVars, serverConn,
                   consumerVars, crashed, worldVars, linkVars>>
-----------------------------------------------------------------------------
(* ClientHandler::run                                                      *)

Step(pc, h, from, to) ==
    /\ pc[h] = from
    /\ pc' = [pc EXCEPT ![h] = to]

HandlerStart(h) ==
    /\ Step(handler, h, "starting", "receiving")
    /\ consumer' = [consumer EXCEPT ![h][1] = "looping"]
    /\ isFinished' = [isFinished EXCEPT ![h] = FALSE]
    /\ UNCHANGED <<shouldRestablish, mainVars, named, serverConn, on, crashed, worldVars,
                   linkVars>>

\* A request is received; the name of a LOGIN is noted before the mutex is taken.
HandlerReceive(h) ==
    /\ requests[h] # <<>>
    /\ Step(handler, h, "receiving", "locking")
    /\ named' = [named EXCEPT ![h] = @ \/ Head(requests[h]) = "LOGIN"]
    /\ UNCHANGED <<shouldRestablish, mainVars, isFinished, serverConn, consumerVars, crashed,
                   worldVars, linkVars>>

\* An ERROR reaches the client: while he waits for the answer to LOGIN he gives up.
Answered(h, ok) ==
    client' = [client EXCEPT ![h] =
        IF @ = "waiting" THEN IF ok THEN "serving" ELSE "gone" ELSE @]

Forward(h, p) == sent' = [sent EXCEPT ![h][serverConn[h]] = @ \cup {p}]

\* Under the mutex: the request is passed on, or refused while there is no server.
HandleRequest(h) ==
    /\ Step(handler, h, "locking", "receiving")
    /\ requests' = [requests EXCEPT ![h] = Tail(@)]
    /\ IF serverConn[h] = NULL \/ shouldRestablish
       THEN /\ Answered(h, FALSE)
            /\ SendMayFail(client[h] = "gone")
            /\ UNCHANGED sent
       ELSE /\ Forward(h, Head(requests[h]))
            /\ SendMayFail(Lost(h, serverConn[h]))
            /\ UNCHANGED client
    /\ UNCHANGED <<shouldRestablish, mainVars, isFinished, named, serverConn, consumerVars,
                   notice, backlog, leader, peer, closed>>

\* The request is NEW_LEADER.
HandleNewLeader(a) ==
    /\ Step(notice, a, "accepted", "done")
    /\ shouldRestablish' = TRUE
    /\ UNCHANGED <<mainVars, handlerVars, serverConn, consumerVars, crashed, client, requests,
                   backlog, leader, linkVars>>

\* The client is gone: m_serverConn is looked at without the mutex ...
LoseClient(h) ==
    /\ requests[h] = <<>> /\ client[h] = "gone"
    /\ handler[h] = "receiving"
    /\ handler' = [handler EXCEPT ![h] = IF serverConn[h] = NULL THEN "joining" ELSE "closing"]
    /\ UNCHANGED <<shouldRestablish, mainVars, isFinished, named, serverConn, consumerVars,
                   crashed, worldVars, linkVars>>

\* Mutant of SendClose: the connection is left as it is.
SendNoClose(h) ==
    /\ Step(handler, h, "closing", "joining")
    /\ UNCHANGED <<shouldRestablish, mainVars, isFinished, named, serverConn, consumerVars,
                   crashed, worldVars, linkVars>>

\* ... and used, whatever main() or a consumer has made of it.
SendClose(h) ==
    /\ Step(handler, h, "closing", "joining")
    /\ IF serverConn[h] = NULL
       THEN /\ crashed' = TRUE
            /\ UNCHANGED <<sent, closed>>
       ELSE /\ Forward(h, "CLOSE")
            /\ closed' = [closed EXCEPT ![h] = @ \cup {serverConn[h]}]
            /\ SendMayFail(Lost(h, serverConn[h]))
    /\ UNCHANGED <<shouldRestablish, mainVars, isFinished, named, serverConn, consumerVars,
                   worldVars, peer>>

\* Only the first consumer is joined.
HandlerEnd(h) ==
    /\ consumer[h][1] = "ended"
    /\ Step(handler, h, "joining", "done")
    /\ isFinished' = [isFinished EXCEPT ![h] = TRUE]
    /\ UNCHANGED <<shouldRestablish, mainVars, named, serverConn, consumerVars, crashed,
                   worldVars, linkVars>>
-----------------------------------------------------------------------------
(* ServerConsumer::run                                                     *)

ConsumerStep(h, n, from, to) ==
    /\ consumer[h][n] = from
    /\ consumer' = [consumer EXCEPT ![h][n] = to]

\* while (m_serverConn != NULL && m_shouldRestablish.get() == false), and the start
\* of m_serverConn->receive(), which fails at once on a closed connection.
ConsumerLoop(h, n) ==
    LET c == serverConn[h] IN
    /\ IF c # NULL /\ c \notin closed[h] /\ ~shouldRestablish
       THEN /\ ConsumerStep(h, n, "looping", "receiving")
            /\ on' = [on EXCEPT ![h][n] = c]
       ELSE /\ ConsumerStep(h, n, "looping", "leaving")
            /\ UNCHANGED on
    /\ UNCHANGED <<shouldRestablish, mainVars, handlerVars, serverConn, crashed, worldVars,
                   linkVars>>

\* A packet of the server, passed on to the client: "Connection refused.", or what a
\* session sends, errors included.
ConsumerForward(h, n) ==
    /\ ConsumerStep(h, n, "receiving", "looping")
    /\ peer[h][on[h][n]] \in {"serving", "refusing"}
    /\ \E ok \in BOOLEAN :
         /\ ok => peer[h][on[h][n]] = "serving"
         /\ Answered(h, ok)
    /\ SendMayFail(client[h] = "gone")
    /\ on' = [on EXCEPT ![h][n] = NULL]
    /\ UNCHANGED <<shouldRestablish, mainVars, handlerVars, serverConn,
                   notice, requests, backlog, leader, linkVars>>

\* recv() ends when the server's end is closed.  That the front-end closes its own
\* descriptor does not wake it up.
ConsumerLost(h, n) ==
    /\ ConsumerStep(h, n, "receiving", "leaving")
    /\ Lost(h, on[h][n])
    /\ on' = [on EXCEPT ![h][n] = NULL]
    /\ UNCHANGED <<shouldRestablish, mainVars, handlerVars, serverConn, crashed,
                   worldVars, linkVars>>

\* Mutant of ConsumerEnd: the connection is left to the handler.
ConsumerEndOnly(h, n) ==
    /\ ConsumerStep(h, n, "leaving", "ended")
    /\ UNCHANGED <<shouldRestablish, mainVars, handlerVars, serverConn, on, crashed,
                   worldVars, linkVars>>

\* Whatever connection the handler has by now is closed and deleted.
ConsumerEnd(h, n) ==
    /\ ConsumerStep(h, n, "leaving", "ended")
    /\ Replace(h, NULL)
    /\ UNCHANGED <<shouldRestablish, mainVars, handlerVars, on, crashed, worldVars, peer, sent>>
-----------------------------------------------------------------------------
(* Clients and servers.                                                    *)

programVars == <<shouldRestablish, mainVars, handlerVars, serverConn, consumerVars, crashed>>

ClientConnect(h) ==
    /\ Step(client, h, "absent", "waiting")
    /\ requests' = [requests EXCEPT ![h] = <<"LOGIN">>]
    /\ backlog' = Append(backlog, h)
    /\ UNCHANGED <<programVars, notice, leader, linkVars>>

ClientRequest(h) ==
    /\ client[h] = "serving"
    /\ Len(requests[h]) < MaxRequests
    /\ requests' = [requests EXCEPT ![h] = Append(@, "SEND")]
    /\ UNCHANGED <<programVars, client, notice, backlog, leader, linkVars>>

ClientQuit(h) ==
    /\ Step(client, h, "serving", "gone")
    /\ UNCHANGED <<programVars, notice, requests, backlog, leader, linkVars>>

\* A consumer is inside recv() on connection n.
Reading(h, n) == \E k \in Number : consumer[h][k] = "receiving" /\ on[h][k] = n

\* The server reads the end of the connection: not before the front-end has closed it
\* and the last recv() on it has returned.
AtEnd(h, n) == n \in closed[h] /\ ~Reading(h, n)

\* authorizeSession: a LOGIN with a name, as the first packet, is granted ...
ServerAuthorize(h, n) ==
    /\ peer[h][n] = "open"
    /\ sent[h][n] \cap {"LOGIN", "LOGIN without name"} = {"LOGIN"}
    /\ peer' = [peer EXCEPT ![h][n] = "serving"]
    /\ UNCHANGED <<programVars, worldVars, closed, sent>>

\* ... or refused, if the user has no session left, as is everything else that comes
\* first.
ServerRefuse(h, n) ==
    /\ peer[h][n] = "open"
    /\ sent[h][n] # {} \/ AtEnd(h, n)
    /\ peer' = [peer EXCEPT ![h][n] = "refusing"]
    /\ UNCHANGED <<programVars, worldVars, closed, sent>>

\* A refused connection is closed; a session only after CLOSE or at its end.
ServerClose(h, n) ==
    /\ \/ /\ peer[h][n] = "refusing"
          /\ peer' = [peer EXCEPT ![h][n] = "refused"]
       \/ /\ peer[h][n] = "serving"
          /\ "CLOSE" \in sent[h][n] \/ AtEnd(h, n)
          /\ peer' = [peer EXCEPT ![h][n] = "closed"]
    /\ UNCHANGED <<programVars, worldVars, closed, sent>>

LeaderCrash ==
    /\ leader = "listening"
    /\ \E a \in Announcer : notice[a] = "absent"
    /\ leader' = "down"
    /\ peer' = [h \in Client |-> [n \in Number |->
                   IF Connected(h, n) THEN "closed" ELSE peer[h][n]]]
    /\ UNCHANGED <<programVars, client, notice, requests, backlog, closed, sent>>

\* notifyFrontends of the replica that was elected ...
Announce(a) ==
    /\ leader = "down"
    /\ leader' = "elected"
    /\ Step(notice, a, "absent", "waiting")
    /\ backlog' = Append(backlog, a)
    /\ UNCHANGED <<programVars, client, requests, linkVars>>

\* ... which starts its ServerHandler afterwards.
Listen ==
    /\ leader = "elected"
    /\ leader' = "listening"
    /\ UNCHANGED <<programVars, client, notice, requests, backlog, linkVars>>
-----------------------------------------------------------------------------
MainNext == Accept \/ AcceptNotice \/ AcceptTimeout \/ CheckFlag \/ Reconnect
            \/ RestartServerConsumer \/ Restablished

HandlerNext(h) == HandlerStart(h) \/ HandlerReceive(h) \/ HandleRequest(h) \/ LoseClient(h)
                  \/ SendClose(h) \/ HandlerEnd(h)

\* What a consumer does without a packet of the server.
ConsumerNext(h, n) == ConsumerLoop(h, n) \/ ConsumerLost(h, n) \/ ConsumerEnd(h, n)

\* What the server's ConnectionHandler does of its own accord.
ServerNext(h, n) == ServerAuthorize(h, n) \/ ServerRefuse(h, n) \/ ServerClose(h, n)

NoticeNext == \E a \in Announcer : HandleNewLeader(a)

ElectedNext == Listen \/ \E a \in Announcer : Announce(a)

\* What nobody has to do.
FreeNext ==
    \/ LeaderCrash
    \/ \E h \in Client : ClientConnect(h) \/ ClientRequest(h) \/ ClientQuit(h)
    \/ \E h \in Client, n \in Number : ConsumerForward(h, n)

FrontendNext ==
    /\ ~crashed
    /\ \/ MainNext
       \/ \E h \in Client : HandlerNext(h)
       \/ \E h \in Client, n \in Number : ConsumerNext(h, n) \/ ServerNext(h, n)
       \/ NoticeNext
       \/ ElectedNext
       \/ FreeNext

FrontendSpec == FrontendInit /\ [][FrontendNext]_frontendVars

\* The operating system runs every thread that can run, the server's too; after a crash
\* a replica is elected and listens.
FairFrontendSpec ==
    /\ FrontendSpec
    /\ WF_frontendVars(~crashed /\ MainNext)
    /\ WF_frontendVars(~crashed /\ NoticeNext)
    /\ WF_frontendVars(~crashed /\ ElectedNext)
    /\ \A h \in Client : WF_frontendVars(~crashed /\ HandlerNext(h))
    /\ \A h \in Client, n \in Number :
          /\ WF_frontendVars(~crashed /\ ConsumerNext(h, n))
          /\ WF_frontendVars(~crashed /\ ServerNext(h, n))
-----------------------------------------------------------------------------
Packet == {"LOGIN", "LOGIN without name", "SEND", "CLOSE"}

FrontendTypeOK ==
    /\ shouldRestablish \in BOOLEAN
    /\ main \in {"checking", "accepting", "restablishing", "restarting"}
    /\ clientHandlers \subseteq Client
    /\ todo \subseteq Client
    /\ current \subseteq Client
    /\ made \in [Client -> 0 .. MaxConn]
    /\ handler \in [Client -> HandlerPhase]
    /\ isFinished \in [Client -> BOOLEAN]
    /\ named \in [Client -> BOOLEAN]
    /\ serverConn \in [Client -> Number \cup {NULL}]
    /\ consumer \in [Client -> [Number -> ConsumerPhase]]
    /\ on \in [Client -> [Number -> Number \cup {NULL}]]
    /\ crashed \in BOOLEAN
    /\ client \in [Client -> {"absent", "waiting", "serving", "gone"}]
    /\ notice \in [Announcer -> {"absent", "waiting", "accepted", "done"}]
    /\ requests \in [Client -> Seq({"LOGIN", "SEND"})]
    /\ backlog \in Seq(Client \cup Announcer)
    /\ leader \in {"listening", "down", "elected"}
    /\ peer \in [Client -> [Number -> PeerPhase]]
    /\ closed \in [Client -> SUBSET Number]
    /\ sent \in [Client -> [Number -> SUBSET Packet]]

\* No connection carries a request before the LOGIN of its client: neither the
\* first one, nor one that replaces a lost one between two requests.
RequestsAreLoggedIn == \A h \in Client, n \in Number :
    "SEND" \in sent[h][n] => "LOGIN" \in sent[h][n]

\* Somebody attends to every connection a handler has: a consumer that reads it,
\* will read it or will close it, unless it is just being put in place.
Attends(h, n) ==
    \/ consumer[h][n] \in {"looping", "leaving"}
    \/ consumer[h][n] = "receiving" /\ on[h][n] = serverConn[h]
OpenIsRead == \A h \in Client : serverConn[h] # NULL =>
    \/ \E n \in Number : Attends(h, n)
    \/ handler[h] = "starting"
    \/ h \in current

(* What the three above rest on, as one inductive invariant.               *)

\* A client the server has answered, or who sends requests, is known by name, and
\* the connection his handler has now carries his LOGIN.
IsKnown(h) ==
    \/ \E n \in Number : "LOGIN" \in sent[h][n]
    \/ client[h] = "serving"
    \/ \E i \in DOMAIN requests[h] : requests[h][i] = "SEND"
KnownAreLoggedIn == \A h \in Client : IsKnown(h) =>
    named[h] /\ (serverConn[h] # NULL => "LOGIN" \in sent[h][serverConn[h]])

\* What a server grants is a LOGIN with a name.
ServedAreLoggedIn == \A h \in Client, n \in Number :
    peer[h][n] = "serving" => "LOGIN" \in sent[h][n]

\* A handler that does not exist yet has nothing, and what it treats was received.
HandlersBegin == \A h \in Client :
    /\ client[h] = "absent" => handler[h] = "none"
    /\ handler[h] = "none" => made[h] = 0 /\ ~named[h] /\ h \notin clientHandlers \cup todo
    /\ handler[h] = "locking" =>
          requests[h] # <<>> /\ (Head(requests[h]) = "LOGIN" => named[h])

\* A consumer in recv() is in recv() on a connection.
ReceiversReceive == \A h \in Client, n \in Number :
    consumer[h][n] = "receiving" => on[h][n] # NULL

\* What waits to be accepted has not been, and waits only once.
BacklogIsNew ==
    /\ \A i \in DOMAIN backlog :
          /\ backlog[i] \in Client =>
                client[backlog[i]] # "absent" /\ handler[backlog[i]] = "none"
          /\ backlog[i] \in Announcer => notice[backlog[i]] = "waiting"
    /\ \A i, j \in DOMAIN backlog : backlog[i] = backlog[j] => i = j

\* One connection is replaced at a time, by the last one made.
OneIsCurrent ==
    /\ current # {} => main = "restarting"
    /\ \A h, k \in current : h = k
    /\ \A h \in current : made[h] \in Number

\* A handler gets one connection when it is made and one in each round; every round
\* has an announcement of its own that was treated before.
Treated == {a \in Announcer : notice[a] = "done"}
Spares(h) == shouldRestablish /\ (main \in {"checking", "accepting"} \/ h \in todo)
RoundsAreAnnounced ==
    /\ main \in {"restablishing", "restarting"} => shouldRestablish
    /\ shouldRestablish => Treated # {}
    /\ \A h \in Client :
          made[h] <= IF Spares(h) THEN Cardinality(Treated) ELSE 1 + Cardinality(Treated)

\* All of it.
FrontendInv ==
    /\ FrontendTypeOK
    /\ RequestsAreLoggedIn
    /\ OpenIsRead
    /\ KnownAreLoggedIn
    /\ ServedAreLoggedIn
    /\ HandlersBegin
    /\ ReceiversReceive
    /\ BacklogIsNew
    /\ OneIsCurrent
    /\ RoundsAreAnnounced

\* When the server's end of a connection is closed, the handler stops using it.
LossIsNoticed == \A h \in Client, n \in Number :
    (serverConn[h] = n /\ Lost(h, n)) ~> (serverConn[h] # n \/ crashed)

\* When its client is gone a handler ends, and the server has closed the session.
\* Not so if the connection was replaced: the first consumer may then wait for ever
\* for a server that never heard of the change.
HandlersEnd == \A h \in Client :
    client[h] = "gone" ~> (handler[h] = "done" \/ made[h] > 1 \/ crashed)
-----------------------------------------------------------------------------
(* What the client is told and the code does not give.                     *)

\* A client who is served has, in the end, a connection to the server that runs, if
\* none of his LOGINs is refused.
ClientsAreReconnected == \A h \in Client :
    client[h] = "serving" ~>
        \/ client[h] = "gone" \/ leader # "listening" \/ crashed
        \/ \E n \in Number : peer[h][n] = "refused"
        \/ serverConn[h] # NULL /\ Connected(h, serverConn[h])

=============================================================================
