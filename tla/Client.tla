------------------------------- MODULE Client -------------------------------
(***************************************************************************)
(* The client of one user: main() reads the keyboard and sends commands, a *)
(* ConnectionConsumer (the receiver) shows what comes from the front-end.  *)
(* When a receiver loses the connection it sets shouldReconnect; main()    *)
(* looks at the flag at the next key, connects to any front-end, logs in   *)
(* and starts another receiver.                                            *)
(*                                                                         *)
(* The n-th connection that was made is number n, NULL is 0; connections   *)
(* are not deleted before main() returns, and receiver n reads connection  *)
(* n for ever.  Deleting a receiver leaves its thread running.             *)
(***************************************************************************)
EXTENDS Integers, Sequences, FiniteSets

CONSTANTS
    MaxConn,        \* connections made in the life of the client
    MaxItems,       \* notifications that reach it
    MaxUnread,      \* packets on their way to it on one connection
    itemsPerPage,   \* NotificationList::itemsPerPage()
    SIZE_MAX        \* the greatest size_t

ASSUME ClientAssumption ==
    /\ {MaxConn, MaxItems, MaxUnread, itemsPerPage, SIZE_MAX} \subseteq Nat \ {0}
    /\ MaxItems <= SIZE_MAX /\ itemsPerPage <= SIZE_MAX

VARIABLES
    shouldReconnect, \* the flag
    main,            \* where main() is
    event,           \* the key it treats
    connection,      \* number of the connection main() uses
    receiver,        \* number -> where ConnectionConsumer::run is
    size, begin,     \* m_list.size() and m_showingBegin of the feed
    made,            \* the world: connections made ...
    peer,            \* ... the front-end's end of each ...
    inbox            \* ... and what the front-end wrote and nobody read

mainVars   == <<main, event, connection, made>>
feedVars   == <<size, begin>>
clientVars == <<shouldReconnect, mainVars, receiver, feedVars, peer, inbox>>

Number == 1 .. MaxConn
NULL   == 0
Event  == {"c", "n", "other"}
Packet == {"SUCCESS", "ERROR", "DATA"}

Stopped == main \in {"exited", "crashed"}

\* connectToAnyProvider finds a front-end, LOGIN is sent on the connection.
Connect(n) ==
    /\ made' = n
    /\ connection' = n
    /\ peer' = [peer EXCEPT ![n] = "open"]

\* Nobody listens at any of the addresses.
ConnectToNobody == connection' = NULL /\ UNCHANGED <<made, peer>>

ClientInit ==
    /\ shouldReconnect = FALSE
    /\ main = "login"
    /\ event = "other"
    /\ connection = 1
    /\ made = 1
    /\ receiver = [n \in Number |-> "none"]
    /\ size = 0 /\ begin = 0
    /\ peer = [n \in Number |-> IF n = 1 THEN "open" ELSE "none"]
    /\ inbox = [n \in Number |-> <<>>]
-----------------------------------------------------------------------------
(* main()                                                                  *)

TakePacket(n) == inbox' = [inbox EXCEPT ![n] = Tail(@)]

\* tryLogin receives the first packet, whatever it is, as the answer.
LoginAnswered ==
    /\ main \in {"login", "relogin"}
    /\ inbox[connection] # <<>>
    /\ TakePacket(connection)
    /\ IF Head(inbox[connection]) = "SUCCESS"
       THEN /\ receiver' = [receiver EXCEPT ![connection] = "checking"]
            /\ main' = IF main = "login" THEN "looping" ELSE "clearing"
       ELSE /\ main' = IF main = "login" THEN "exited" ELSE "clearing"
            /\ UNCHANGED receiver
    /\ UNCHANGED <<shouldReconnect, event, connection, made, feedVars, peer>>

\* receive() returns NULL and tryLogin uses it.
LoginLost ==
    /\ main \in {"login", "relogin"}
    /\ inbox[connection] = <<>> /\ peer[connection] = "closed"
    /\ main' = "crashed"
    /\ UNCHANGED <<shouldReconnect, event, connection, made, receiver, feedVars, peer, inbox>>

\* Mutant of PressKey: the flag is cleared before it is acted on.
PressKeyForgetfully(e) ==
    /\ main = "looping"
    /\ event' = e
    /\ main' = "event"
    /\ shouldReconnect' = FALSE
    /\ UNCHANGED <<connection, made, peer, receiver, feedVars, inbox>>

\* Mutant of PressKey: the receiver is started before LOGIN is answered.
PressKeyReceiving(e) ==
    /\ main = "looping"
    /\ event' = e
    /\ IF shouldReconnect
       THEN \/ /\ made < MaxConn
               /\ Connect(made + 1)
               /\ receiver' = [receiver EXCEPT ![made + 1] = "checking"]
               /\ main' = "relogin"
            \/ /\ ConnectToNobody
               /\ main' = "clearing"
               /\ UNCHANGED receiver
       ELSE /\ main' = "event"
            /\ UNCHANGED <<connection, made, peer, receiver>>
    /\ UNCHANGED <<shouldReconnect, feedVars, inbox>>

\* A key other than F1, and the look at the flag that follows it.
PressKey(e) ==
    /\ main = "looping"
    /\ event' = e
    /\ IF shouldReconnect
       THEN \/ /\ made < MaxConn
               /\ Connect(made + 1)
               /\ main' = "relogin"
            \/ /\ ConnectToNobody
               /\ main' = "clearing"
       ELSE /\ main' = "event"
            /\ UNCHANGED <<connection, made, peer>>
    /\ UNCHANGED <<shouldReconnect, receiver, feedVars, inbox>>

\* Connected or not, the flag is cleared after the new receiver was started.
ClearFlag ==
    /\ main = "clearing"
    /\ main' = "event"
    /\ shouldReconnect' = FALSE
    /\ UNCHANGED <<event, connection, made, receiver, feedVars, peer, inbox>>

\* handleCommand: SEND and FOLLOW are sent, other text is not; NULL is used too.
Command ==
    /\ main = "event" /\ event = "c"
    /\ \/ main' = "looping"
       \/ connection = NULL /\ main' = "crashed"
    /\ UNCHANGED <<shouldReconnect, event, connection, made, receiver, feedVars, peer, inbox>>

OpenWindow ==
    /\ main = "event" /\ event = "n"
    /\ main' = "window"
    /\ UNCHANGED <<shouldReconnect, event, connection, made, receiver, feedVars, peer, inbox>>

OtherKey ==
    /\ main = "event" /\ event = "other"
    /\ main' = "looping"
    /\ UNCHANGED <<shouldReconnect, event, connection, made, receiver, feedVars, peer, inbox>>

\* F1: out of the notification window, or out of the program.
PressF1 ==
    /\ main \in {"window", "looping"}
    /\ main' = IF main = "window" THEN "looping" ELSE "exited"
    /\ UNCHANGED <<shouldReconnect, event, connection, made, receiver, feedVars, peer, inbox>>
-----------------------------------------------------------------------------
(* NotificationList in the notification window.                            *)

\* Mutant of CanShowNext: one too far.
CanShowOneMore == begin <= (size - itemsPerPage) % (SIZE_MAX + 1)

\* m_showingBegin < m_list.size() - itemsPerPage(), in unsigned arithmetic: with
\* fewer items than a page holds the difference is huge.
CanShowNext == begin < (size - itemsPerPage) % (SIZE_MAX + 1)

\* (The first guard is the bound MaxItems.)
ShowNext ==
    /\ begin < MaxItems
    /\ main = "window"
    /\ CanShowNext
    /\ begin' = begin + 1
    /\ UNCHANGED <<shouldReconnect, mainVars, receiver, size, peer, inbox>>

ShowPrevious ==
    /\ main = "window"
    /\ begin > 0
    /\ begin' = begin - 1
    /\ UNCHANGED <<shouldReconnect, mainVars, receiver, size, peer, inbox>>
-----------------------------------------------------------------------------
(* ConnectionConsumer::run                                                 *)

ReceiverCheck(n) ==
    /\ receiver[n] = "checking"
    /\ receiver' = [receiver EXCEPT ![n] = IF shouldReconnect THEN "ended" ELSE "receiving"]
    /\ UNCHANGED <<shouldReconnect, mainVars, feedVars, peer, inbox>>

\* DATA goes to the top of the feed, SUCCESS and ERROR are shown.
Receive(n) ==
    /\ receiver[n] = "receiving"
    /\ inbox[n] # <<>>
    /\ TakePacket(n)
    /\ size' = IF Head(inbox[n]) = "DATA" THEN size + 1 ELSE size
    /\ receiver' = [receiver EXCEPT ![n] = "checking"]
    /\ UNCHANGED <<shouldReconnect, mainVars, begin, peer>>

\* "Connection lost. Trying to reconnect..."
ReceiveNothing(n) ==
    /\ receiver[n] = "receiving"
    /\ inbox[n] = <<>> /\ peer[n] = "closed"
    /\ shouldReconnect' = TRUE
    /\ receiver' = [receiver EXCEPT ![n] = "checking"]
    /\ UNCHANGED <<mainVars, feedVars, peer, inbox>>
-----------------------------------------------------------------------------
(* The front-ends.                                                         *)

\* Notifications on their way.
Unread == {e \in Number \X (1 .. MaxUnread) :
              e[2] <= Len(inbox[e[1]]) /\ inbox[e[1]][e[2]] = "DATA"}

FrontendSend(n, p) ==
    /\ peer[n] = "open"
    /\ Len(inbox[n]) < MaxUnread
    /\ p = "DATA" => size + Cardinality(Unread) < MaxItems
    /\ inbox' = [inbox EXCEPT ![n] = Append(@, p)]
    /\ UNCHANGED <<shouldReconnect, mainVars, receiver, feedVars, peer>>

FrontendLost(n) ==
    /\ n < MaxConn
    /\ peer[n] = "open"
    /\ peer' = [peer EXCEPT ![n] = "closed"]
    /\ UNCHANGED <<shouldReconnect, mainVars, receiver, feedVars, inbox>>
-----------------------------------------------------------------------------
UserNext == (\E e \in Event : PressKey(e)) \/ PressF1 \/ ShowNext \/ ShowPrevious

MainNext == LoginAnswered \/ LoginLost \/ ClearFlag \/ Command \/ OpenWindow \/ OtherKey

ReceiverNext(n) == ReceiverCheck(n) \/ Receive(n) \/ ReceiveNothing(n)

FrontendNext == \E n \in Number :
    FrontendLost(n) \/ \E p \in Packet : FrontendSend(n, p)

ClientNext ==
    /\ ~Stopped
    /\ \/ UserNext
       \/ MainNext
       \/ \E n \in Number : ReceiverNext(n)
       \/ FrontendNext

ClientSpec == ClientInit /\ [][ClientNext]_clientVars

\* The threads run; the user keeps pressing keys and does not stay in the
\* notification window; a front-end answers a LOGIN or is lost.
FairClientSpec ==
    /\ ClientSpec
    /\ WF_clientVars(~Stopped /\ MainNext)
    /\ \A n \in Number : WF_clientVars(~Stopped /\ ReceiverNext(n))
    /\ WF_clientVars(main = "looping" /\ \E e \in Event : PressKey(e))
    /\ WF_clientVars(main = "window" /\ PressF1)
    /\ WF_clientVars(main = "relogin" /\ inbox[connection] = <<>> /\ FrontendNext)
-----------------------------------------------------------------------------
ClientTypeOK ==
    /\ shouldReconnect \in BOOLEAN
    /\ main \in {"login", "looping", "relogin", "clearing", "event", "window", "exited", "crashed"}
    /\ event \in Event
    /\ connection \in Number \cup {NULL}
    /\ made \in Number
    /\ receiver \in [Number -> {"none", "checking", "receiving", "ended"}]
    /\ size \in 0 .. MaxItems
    /\ begin \in 0 .. MaxItems
    /\ peer \in [Number -> {"none", "open", "closed"}]
    /\ inbox \in [Number -> Seq(Packet)]

\* The bounds on what the front-ends send hold for what they have sent.
FeedFits ==
    /\ \A n \in Number : Len(inbox[n]) <= MaxUnread
    /\ size + Cardinality(Unread) <= MaxItems

\* A connection that was not made has no ends and no receiver, and main() uses
\* the last one made or none.
LastIsUsed ==
    /\ connection \in {made, NULL}
    /\ \A n \in Number : n > made => receiver[n] = "none" /\ peer[n] = "none" /\ inbox[n] = <<>>

\* While tryLogin waits for its answer no receiver reads the same connection:
\* the answer to LOGIN cannot be taken by another thread.
AnswerIsForLogin ==
    main \in {"login", "relogin"} => connection = made /\ receiver[made] = "none"

\* Only a receiver that lost its connection asks for another, and what it asked
\* for is not forgotten while main() sees to it.
LossIsTheCause ==
    /\ shouldReconnect => \E n \in Number : receiver[n] # "none" /\ peer[n] = "closed"
    /\ main \in {"relogin", "clearing"} => shouldReconnect

\* The inductive invariant of the proofs.
ClientInv ==
    /\ ClientTypeOK
    /\ FeedFits
    /\ LastIsUsed
    /\ AnswerIsForLogin
    /\ LossIsTheCause

\* A receiver that listens when its connection is lost gets the user another
\* connection, or the program ends: no clearing of the flag, for this or an
\* earlier loss, makes main() miss it.
LossLeadsToReconnection == \A n \in Number :
    (receiver[n] = "receiving" /\ connection = n /\ peer[n] = "closed") ~>
        (connection # n \/ Stopped)

\* Once the feed fills a page and shows a full one, no key and no notification
\* makes it show less.
FullPage == itemsPerPage <= size /\ begin <= size - itemsPerPage
PageStaysFull == [][FullPage => FullPage']_clientVars

=============================================================================
