------------------------------ MODULE Delivery ------------------------------
(***************************************************************************)
(* The path of a notification from the queue of a session to the receiver  *)
(* at the other end of its connection: Queue::insert and tryRemoveFor at   *)
(* the level of mutex and condition variable, the loop of the              *)
(* NotificationConsumer, the handler that answers requests on the same     *)
(* connection, and the reader that cuts the bytes into packets.            *)
(*                                                                         *)
(* Notification n is the n-th that is inserted.  The senders hold the      *)
(* mutex of the NotificationManager from the push to the notification of   *)
(* the condition variable, and subscribe and unsubscribe want it too.      *)
(***************************************************************************)
EXTENDS Connection, Subsequences

CONSTANTS
    MaxNotifications,   \* inserted in the life of the session
    MaxAnswers          \* requests the handler answers

Notification == 1 .. MaxNotifications

\* The packets of a session: a DATA packet per notification, and answers.
Data(n) == [type |-> "DATA", id |-> n]
Success == [type |-> "SUCCESS", id |-> 0]

ASSUME DeliveryAssumption ==
    /\ {MaxNotifications, MaxAnswers} \subseteq Nat
    /\ Packet = {Data(n) : n \in Notification} \cup {Success}

VARIABLES
    queue,       \* m_queue
    notifying,   \* a sender has pushed and not called notify_one yet
    consumer,    \* where NotificationConsumer::run and its tryRemoveFor are
    held,        \* what the consumer took and has not sent
    shouldStop,  \* m_shouldStop
    handler,     \* where ConnectionHandler::run is
    inserted,    \* history: notifications pushed
    answers,     \* requests answered
    history      \* the notifications the reader has got

sessionVars  == <<queue, notifying, consumer, held, shouldStop, handler, inserted, answers>>
deliveryVars == <<sessionVars, history, connectionVars>>

DeliveryInit ==
    /\ ConnectionInit
    /\ queue = <<>> /\ notifying = FALSE
    /\ consumer = "checking" /\ held = <<>>
    /\ shouldStop = FALSE /\ handler = "receiving"
    /\ inserted = 0 /\ answers = 0
    /\ history = <<>>
-----------------------------------------------------------------------------
(* A sender, in Queue::insert.                                             *)

Insert ==
    /\ inserted < MaxNotifications
    /\ consumer # "ended" /\ ~notifying
    /\ inserted' = inserted + 1
    /\ queue' = Append(queue, inserted')
    /\ notifying' = TRUE
    /\ UNCHANGED <<consumer, held, shouldStop, handler, answers, history, connectionVars>>

\* notify_one: nobody waiting, nobody woken.
Notify ==
    /\ notifying
    /\ notifying' = FALSE
    /\ consumer' = IF consumer = "waiting" THEN "awake" ELSE consumer
    /\ UNCHANGED <<queue, held, shouldStop, handler, inserted, answers, history, connectionVars>>
-----------------------------------------------------------------------------
(* The consumer.                                                           *)

ConsumerVarsOnly == UNCHANGED <<notifying, shouldStop, handler, inserted, answers, history>>

\* while (shouldStop() == false)
CheckStop ==
    /\ consumer = "checking"
    /\ consumer' = IF shouldStop THEN "leaving" ELSE "entering"
    /\ UNCHANGED <<queue, held, connectionVars>>
    /\ ConsumerVarsOnly

\* Mutant of TakeFront: what is returned stays in the queue.
TakeAndKeep ==
    /\ held' = <<Head(queue)>>
    /\ UNCHANGED queue

TakeFront ==
    /\ held' = <<Head(queue)>>
    /\ queue' = Tail(queue)

\* Mutant of LookAtQueue: who has been woken does not look at the queue again.
LookOnce ==
    /\ consumer = "entering"
    /\ IF queue = <<>>
       THEN consumer' = "waiting" /\ UNCHANGED <<queue, held>>
       ELSE consumer' = "sending" /\ TakeFront
    /\ UNCHANGED connectionVars
    /\ ConsumerVarsOnly

\* The test of the while loop of tryRemoveFor, at its start and after a wake-up
\* that was no timeout: wait, which releases the mutex, or take the front.
LookAtQueue ==
    /\ consumer \in {"entering", "awake"}
    /\ IF queue = <<>>
       THEN consumer' = "waiting" /\ UNCHANGED <<queue, held>>
       ELSE consumer' = "sending" /\ TakeFront
    /\ UNCHANGED connectionVars
    /\ ConsumerVarsOnly

SpuriousWakeUp ==
    /\ consumer = "waiting"
    /\ consumer' = "awake"
    /\ UNCHANGED <<queue, held, connectionVars>>
    /\ ConsumerVarsOnly

\* wait_for() times out after 1.5 seconds; a notification after that wakes nobody.
TimeOut ==
    /\ consumer = "waiting"
    /\ consumer' = "timedout"
    /\ UNCHANGED <<queue, held, connectionVars>>
    /\ ConsumerVarsOnly

\* Nothing is returned, whatever has come into the queue by now.
ReturnNothing ==
    /\ consumer = "timedout"
    /\ consumer' = "checking"
    /\ UNCHANGED <<queue, held, connectionVars>>
    /\ ConsumerVarsOnly

SendData ==
    /\ consumer = "sending"
    /\ Send(Data(held[1]))
    /\ held' = <<>>
    /\ consumer' = "checking"
    /\ UNCHANGED queue
    /\ ConsumerVarsOnly

\* unsubscribe() waits for the sender that holds the manager's mutex.
Unsubscribe ==
    /\ consumer = "leaving" /\ ~notifying
    /\ consumer' = "ended"
    /\ UNCHANGED <<queue, held, connectionVars>>
    /\ ConsumerVarsOnly

ConsumerStep ==
    CheckStop \/ LookAtQueue \/ ReturnNothing \/ SendData \/ Unsubscribe
-----------------------------------------------------------------------------
(* The handler of the connection.                                          *)

HandlerVarsOnly == UNCHANGED <<queue, notifying, consumer, held, inserted, history>>

\* The answer to a request goes out on the consumer's connection.
SendAnswer ==
    /\ answers < MaxAnswers
    /\ handler = "receiving"
    /\ Send(Success)
    /\ answers' = answers + 1
    /\ UNCHANGED <<shouldStop, handler>>
    /\ HandlerVarsOnly

\* CLOSE, or the connection is lost.
Stop ==
    /\ handler = "receiving"
    /\ shouldStop' = TRUE
    /\ handler' = "joining"
    /\ UNCHANGED <<answers, connectionVars>>
    /\ HandlerVarsOnly

\* join, delete the consumer with its queue, delete the connection.
Join ==
    /\ handler = "joining" /\ consumer = "ended"
    /\ handler' = "finished"
    /\ CloseWriter
    /\ UNCHANGED <<shouldStop, answers>>
    /\ HandlerVarsOnly
-----------------------------------------------------------------------------
(* The other end.                                                          *)

ReceiveField == (ReceivePiece \/ ReceiveSize) /\ UNCHANGED <<sessionVars, history>>

ReceiveWhole(p) ==
    /\ ReceivePacket(p)
    /\ history' = IF p.type = "DATA" THEN Append(history, p.id) ELSE history
    /\ UNCHANGED sessionVars

ReaderLeaves == CloseReader /\ UNCHANGED <<sessionVars, history>>

ReaderStep == ReceiveField \/ \E p \in Packet : ReceiveWhole(p)
-----------------------------------------------------------------------------
\* The process runs until SIGPIPE kills it.
ServerStep ==
    /\ link # "killed"
    /\ \/ Insert \/ Notify
       \/ ConsumerStep \/ SpuriousWakeUp \/ TimeOut
       \/ SendAnswer \/ Stop \/ Join

DeliveryNext == ServerStep \/ ReaderStep \/ ReaderLeaves

DeliverySpec == DeliveryInit /\ [][DeliveryNext]_deliveryVars

\* Threads are scheduled and a wait comes to an end; nobody must stop, leave or
\* insert.
FairDeliverySpec ==
    /\ DeliverySpec
    /\ WF_deliveryVars(link # "killed" /\ Notify)
    /\ WF_deliveryVars(link # "killed" /\ ConsumerStep)
    /\ WF_deliveryVars(link # "killed" /\ TimeOut)
    /\ WF_deliveryVars(link # "killed" /\ Join)
    /\ WF_deliveryVars(ReaderStep)
-----------------------------------------------------------------------------
DeliveryTypeOK ==
    /\ ConnectionTypeOK
    /\ queue \in Seq(Notification) /\ held \in Seq(Notification) /\ Len(held) <= 1
    /\ notifying \in BOOLEAN /\ shouldStop \in BOOLEAN
    /\ consumer \in {"checking", "entering", "waiting", "awake", "timedout", "sending",
                     "leaving", "ended"}
    /\ handler \in {"receiving", "joining", "finished"}
    /\ inserted \in 0 .. MaxNotifications /\ answers \in 0 .. MaxAnswers
    /\ history \in Seq(Notification)

\* The notifications whose last byte is among some bytes, in the order of those bytes.
IsLastByte(b)    == "packet" \in DOMAIN b /\ b.packet.type = "DATA" /\ b.position = SizeOf(b.packet)
LastBytes(bytes) == {i \in DOMAIN bytes : IsLastByte(bytes[i])}
Ids(ends)        == [i \in DOMAIN ends |-> ends[i].packet.id]
Arriving(bytes)  == Ids(Entries(bytes, LastBytes(bytes)))

\* The notifications on the connection.
OnTheWire == Arriving(stream)

\* Queue, consumer, handler and bytes together are a channel: notifications
\* arrive in the order of their insertion, each once and whole, whatever the
\* handler sends between them and however recv() cuts the stream; some may be
\* missing at the end only when the session was stopped or the reader has left.
InTransit == IF link = "open" THEN OnTheWire \o held \o (IF consumer = "ended" THEN <<>> ELSE queue)
             ELSE OnTheWire
AsChannel == INSTANCE Channel WITH
    Message   <- Notification,
    inTransit <- InTransit,
    received  <- history,
    broken    <- shouldStop \/ link # "open"
ImplementsChannel == AsChannel!ChannelSpec

-----------------------------------------------------------------------------
(* The parts of the inductive invariant.                                   *)

\* The bytes from the field the reader is in to the last one that was sent.
Bytes == buffer \o stream

\* What follows the first i bytes are the bytes t, or as many of them as there are.
Follows(bytes, i, t) == \A j \in DOMAIN t : i + j \in DOMAIN bytes => bytes[i + j] = t[j]

EndsPacket(b) == "packet" \in DOMAIN b /\ b.position = SizeOf(b.packet)

\* Each byte that ends a packet is followed by a packet, as far as there are bytes.
PacketByPacket(bytes) == \A i \in DOMAIN bytes :
    EndsPacket(bytes[i]) => \E p \in Packet : Follows(bytes, i, Serialize(p))

\* However the stream was cut so far, the reader is at the beginning of a field and
\* the bytes from there on are packets, one after the other; whole ones, as long as
\* both ends are there.
Framed ==
    /\ Len(buffer) < want
    /\ field = "size" => want = sizeFieldLength /\ \E p \in Packet : Follows(Bytes, 0, Serialize(p))
    /\ field = "packet" => \E p \in Packet : want = SizeOf(p) /\ Follows(Bytes, 0, Body(p))
    /\ PacketByPacket(Bytes)
    /\ link = "open" => IF Bytes = <<>> THEN field = "size" ELSE EndsPacket(Bytes[Len(Bytes)])
    /\ link \in {"reset", "killed"} => stream = <<>>

\* The consumer has something in hand exactly when it is about to send it, leaves
\* because it was told to, and is joined before its connection is closed.
Orderly ==
    /\ consumer = "sending" <=> held # <<>>
    /\ consumer \in {"leaving", "ended"} => shouldStop
    /\ handler = "receiving" <=> ~shouldStop
    /\ link = "closed" => handler = "finished"
    /\ handler = "finished" => consumer = "ended" /\ link # "open"

DeliveryInv == DeliveryTypeOK /\ Framed /\ Orderly
-----------------------------------------------------------------------------
\* What is inserted reaches the reader, or the session ends: no wake-up that is
\* lost between push and notify_one, no timeout and no short recv() leaves a
\* notification behind.
QueuedArrives == \A n \in Notification :
    inserted >= n ~> \/ \E i \in DOMAIN history : history[i] = n
                     \/ shouldStop \/ link # "open"

=============================================================================
