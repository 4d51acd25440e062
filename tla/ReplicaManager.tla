--------------------------- MODULE ReplicaManager ---------------------------
(***************************************************************************)
(* The replica managers: how a replica joins the leader and the others,    *)
(* and the bully election that follows the loss of a leader                *)
(* (ReplicaManager, ReplicaHandler).  The data they replicate is left out. *)
(*                                                                         *)
(* A replica is one process: it runs until it crashes; a process started   *)
(* again is another replica.  It has a main thread (ReplicaManager::run)   *)
(* and a handler thread per connection.  Any two replicas have at most one *)
(* connection, a reliable FIFO in each direction until an end crashes or   *)
(* closes it; a crash may also take with it what was not received yet.     *)
(***************************************************************************)
EXTENDS Integers, Sequences, FiniteSets, Subsequences

CONSTANTS
    Replica,
    InitialLeader,   \* started with one argument, the others with the leader's port
    MaxCrashes       \* bound: how many replicas crash

ASSUME InitialLeaderAssumption == InitialLeader \in Replica
ASSUME MaxCrashesAssumption == MaxCrashes \in Nat

VARIABLES
    pc,                     \* where the main thread is
    id,                     \* m_info.id; the lower, the greater the replica
    m_isLeader,
    m_leaderConn,           \* the replica it joined, or NULL
    m_replicasVector,       \* the other replicas it knows, with their ids
    startElection, lostElection,
    next,                   \* sendElection: index into m_replicasVector
    conn,                   \* conn[r][p]: r's end of the connection and its handler
    m_isConnectedToLeader,  \* flag of each handler
    backlog,                \* connections with their HELLO, not accepted yet
    chan,                   \* chan[p][r]: what p has sent and r not received
    serving                 \* replicas whose ServerHandler listens

electionVars == <<startElection, lostElection, next>>
connVars     == <<conn, m_isConnectedToLeader, backlog, chan>>
rmVars == <<pc, id, m_isLeader, m_leaderConn, m_replicasVector, electionVars, connVars,
            serving>>

NULL == "NULL"

MainPhase == {"off", "hello", "loop", "flagged", "electing", "sent", "waiting", "woken",
              "sleeping", "announcing", "notifying", "resetting", "crashed"}
ConnPhase == {"none", "open", "closing", "closed"}

Id      == Nat \cup {-1}
Info    == [peer : Replica, id : Id]
Message == [type : {"REPLICAS"}, id : Nat, replicas : Seq(Info)] \cup
           [type : {"ELECTION"}, id : Id] \cup
           [type : {"ANSWER"}, lost : BOOLEAN] \cup
           [type : {"COORDINATOR"}]

Replicas(i, infos) == [type |-> "REPLICAS", id |-> i, replicas |-> infos]
Election(i)        == [type |-> "ELECTION", id |-> i]
Answer(lost)       == [type |-> "ANSWER", lost |-> lost]
Coordinator        == [type |-> "COORDINATOR"]

Alive(r)   == pc[r] \notin {"off", "crashed"}
Crashed(r) == pc[r] = "crashed"

\* What r sends to a replica that is gone, or closed the connection, is lost.
Reaches(r, p) == ~Crashed(p) /\ conn[p][r] # "closed"
Sent(r, p, msg) == IF Reaches(r, p) THEN [chan EXCEPT ![r][p] = Append(@, msg)] ELSE chan

\* Some entry of the list s is about p.
Lists(s, p) == \E i \in DOMAIN s : s[i].peer = p

Goto(r, from, to) ==
    /\ pc[r] = from
    /\ pc' = [pc EXCEPT ![r] = to]

\* removeClosedConnections
OpenReplicas(r) ==
    LET known == m_replicasVector[r]
    IN  Entries(known, {i \in DOMAIN known : conn[r][known[i].peer] # "closed"})

RMInit ==
    /\ pc = [r \in Replica |-> IF r = InitialLeader THEN "loop" ELSE "off"]
    /\ id = [r \in Replica |-> -1]
    /\ m_isLeader = [r \in Replica |-> r = InitialLeader]
    /\ m_leaderConn = [r \in Replica |-> NULL]
    /\ m_replicasVector = [r \in Replica |-> <<>>]
    /\ startElection = [r \in Replica |-> FALSE]
    /\ lostElection = [r \in Replica |-> FALSE]
    /\ next = [r \in Replica |-> 1]
    /\ conn = [r \in Replica |-> [p \in Replica |-> "none"]]
    /\ m_isConnectedToLeader = [r \in Replica |-> [p \in Replica |-> FALSE]]
    /\ backlog = [r \in Replica |-> <<>>]
    /\ chan = [r \in Replica |-> [p \in Replica |-> <<>>]]
    /\ serving = {InitialLeader}
-----------------------------------------------------------------------------
(* Joining.                                                                *)

\* A replica is started with the port of a leader: connect and sendHello.  A
\* leader that is gone is not tried again.
Start(r, p) ==
    /\ pc[r] = "off"
    /\ m_isLeader[p]
    /\ \/ /\ Alive(p)
          /\ pc' = [pc EXCEPT ![r] = "hello"]
          /\ m_leaderConn' = [m_leaderConn EXCEPT ![r] = p]
          /\ backlog' = [backlog EXCEPT ![p] = Append(@, [peer |-> r, id |-> id[r]])]
       \/ /\ Crashed(p)
          /\ pc' = [pc EXCEPT ![r] = "loop"]
          /\ UNCHANGED <<m_leaderConn, backlog>>
    /\ UNCHANGED <<id, m_isLeader, m_replicasVector, electionVars, conn,
                   m_isConnectedToLeader, chan, serving>>

\* accept and answerStartHandshake.  A leader numbers the newcomer with the
\* length of its list and sends him the list; any replica adds him to its own.
\* startElection was tested before the accept: one newcomer may still be answered
\* after it was set, and no second.
Accept(r) ==
    /\ Goto(r, "loop", IF startElection[r] THEN "flagged" ELSE "loop")
    /\ backlog[r] # <<>>
    /\ LET hello == Head(backlog[r])
           known == OpenReplicas(r)
           newId == IF m_isLeader[r] THEN Len(known) ELSE hello.id
       IN  /\ m_replicasVector' = [m_replicasVector EXCEPT ![r] =
                                      Append(known, [peer |-> hello.peer, id |-> newId])]
           /\ conn' = [conn EXCEPT ![r][hello.peer] = "open"]
           /\ chan' = IF m_isLeader[r]
                      THEN Sent(r, hello.peer, Replicas(newId, known)) ELSE chan
    /\ backlog' = [backlog EXCEPT ![r] = Tail(@)]
    /\ UNCHANGED <<id, m_isLeader, m_leaderConn, electionVars, m_isConnectedToLeader,
                   serving>>

\* Mutant of ReceiveState: every handler is told that its peer leads.
ReceiveStateFromLeaders(r) ==
    /\ Goto(r, "hello", "loop")
    /\ chan[m_leaderConn[r]][r] # <<>>
    /\ LET leader == m_leaderConn[r]
           state  == Head(chan[leader][r])
           infos  == Entries(state.replicas,
                             {i \in DOMAIN state.replicas : Alive(state.replicas[i].peer)})
       IN  /\ id' = [id EXCEPT ![r] = state.id]
           /\ m_replicasVector' = [m_replicasVector EXCEPT ![r] = infos]
           /\ conn' = [conn EXCEPT ![r] = [p \in Replica |->
                          IF p = leader \/ Lists(infos, p) THEN "open" ELSE @[p]]]
           /\ m_isConnectedToLeader' = [m_isConnectedToLeader EXCEPT ![r] =
                                           [p \in Replica |-> p = leader \/ Lists(infos, p)]]
           /\ backlog' = [p \in Replica |->
                 IF Lists(infos, p) THEN Append(backlog[p], [peer |-> r, id |-> state.id])
                                    ELSE backlog[p]]
           /\ chan' = [chan EXCEPT ![leader][r] = Tail(@)]
    /\ UNCHANGED <<m_isLeader, m_leaderConn, electionVars, serving>>

\* runStartHandshake, from receiveState on: the replica takes its id, and
\* connects to the replicas of the list that still run.
ReceiveState(r) ==
    /\ Goto(r, "hello", "loop")
    /\ chan[m_leaderConn[r]][r] # <<>>
    /\ LET leader == m_leaderConn[r]
           state  == Head(chan[leader][r])
           infos  == Entries(state.replicas,
                             {i \in DOMAIN state.replicas : Alive(state.replicas[i].peer)})
       IN  /\ id' = [id EXCEPT ![r] = state.id]
           /\ m_replicasVector' = [m_replicasVector EXCEPT ![r] = infos]
           /\ conn' = [conn EXCEPT ![r] = [p \in Replica |->
                          IF p = leader \/ Lists(infos, p) THEN "open" ELSE @[p]]]
           /\ m_isConnectedToLeader' = [m_isConnectedToLeader EXCEPT ![r][leader] = TRUE]
           /\ backlog' = [p \in Replica |->
                 IF Lists(infos, p) THEN Append(backlog[p], [peer |-> r, id |-> state.id])
                                    ELSE backlog[p]]
           /\ chan' = [chan EXCEPT ![leader][r] = Tail(@)]
    /\ UNCHANGED <<m_isLeader, m_leaderConn, electionVars, serving>>

\* The leader is gone before it answered: receiveState returns nothing, the id
\* stays -1, and the handler of the dead connection is started all the same.
HelloUnanswered(r) ==
    /\ Goto(r, "hello", "loop")
    /\ Crashed(m_leaderConn[r])
    /\ chan[m_leaderConn[r]][r] = <<>>
    /\ conn' = [conn EXCEPT ![r][m_leaderConn[r]] = "open"]
    /\ m_isConnectedToLeader' = [m_isConnectedToLeader EXCEPT ![r][m_leaderConn[r]] = TRUE]
    /\ UNCHANGED <<id, m_isLeader, m_leaderConn, m_replicasVector, electionVars, backlog,
                   chan, serving>>
-----------------------------------------------------------------------------
(* The election, in the main thread.                                       *)

StartElection(r) ==
    /\ startElection[r]
    /\ Goto(r, "loop", "electing") \/ Goto(r, "flagged", "electing")
    /\ m_replicasVector' = [m_replicasVector EXCEPT ![r] = OpenReplicas(r)]
    /\ next' = [next EXCEPT ![r] = 1]
    /\ UNCHANGED <<id, m_isLeader, m_leaderConn, startElection, lostElection, connVars,
                   serving>>

\* The replicas that sendElection has still to ask: those greater than r.
Greater(r) == {i \in next[r] .. Len(m_replicasVector[r]) : m_replicasVector[r][i].id < id[r]}

SendElection(r) ==
    /\ Goto(r, "electing", "sent")
    /\ \E i \in Greater(r) :
          /\ \A j \in Greater(r) : i <= j
          /\ chan' = Sent(r, m_replicasVector[r][i].peer, Election(id[r]))
          /\ next' = [next EXCEPT ![r] = i + 1]
    /\ UNCHANGED <<id, m_isLeader, m_leaderConn, m_replicasVector, startElection,
                   lostElection, conn, m_isConnectedToLeader, backlog, serving>>

NobodyLeftToAsk(r) ==
    /\ Goto(r, "electing", "sleeping")
    /\ Greater(r) = {}
    /\ UNCHANGED <<id, m_isLeader, m_leaderConn, m_replicasVector, electionVars, connVars,
                   serving>>

\* receivedAnswerCV.wait: whatever was notified before is not seen.
WaitForAnswer(r) ==
    /\ Goto(r, "sent", "waiting")
    /\ UNCHANGED <<id, m_isLeader, m_leaderConn, m_replicasVector, electionVars, connVars,
                   serving>>

\* wait may also return by itself: it has no predicate, and the election goes on as
\* if the answer had come.
SpuriousWakeUp(r) ==
    /\ Goto(r, "waiting", "woken")
    /\ UNCHANGED <<id, m_isLeader, m_leaderConn, m_replicasVector, electionVars, connVars,
                   serving>>

AfterAnswer(r) ==
    /\ Goto(r, "woken", IF lostElection[r] THEN "sleeping" ELSE "electing")
    /\ UNCHANGED <<id, m_isLeader, m_leaderConn, m_replicasVector, electionVars, connVars,
                   serving>>

\* Two seconds later.
Decide(r) ==
    /\ Goto(r, "sleeping", IF lostElection[r] THEN "resetting" ELSE "announcing")
    /\ UNCHANGED <<id, m_isLeader, m_leaderConn, m_replicasVector, electionVars, connVars,
                   serving>>

SendCoordinator(r) ==
    /\ Goto(r, "announcing", "notifying")
    /\ chan' = [chan EXCEPT ![r] = [p \in Replica |->
                  IF Lists(m_replicasVector[r], p) /\ Reaches(r, p)
                  THEN Append(@[p], Coordinator) ELSE @[p]]]
    /\ UNCHANGED <<id, m_isLeader, m_leaderConn, m_replicasVector, electionVars, conn,
                   m_isConnectedToLeader, backlog, serving>>

\* notifyFrontends (the front-ends are not part of this module), m_isLeader,
\* delete m_leaderConn.
TakeOver(r) ==
    /\ Goto(r, "notifying", "resetting")
    /\ m_isLeader' = [m_isLeader EXCEPT ![r] = TRUE]
    /\ m_leaderConn' = [m_leaderConn EXCEPT ![r] = NULL]
    /\ conn' = [conn EXCEPT ![r] = [p \in Replica |->
                  IF p = m_leaderConn[r] THEN "closed" ELSE @[p]]]
    /\ UNCHANGED <<id, m_replicasVector, electionVars, m_isConnectedToLeader, backlog, chan,
                   serving>>

\* Mutant of ResetElection: the new leader goes back to accepting replicas and
\* starts no server.
ResetWithoutServer(r) ==
    /\ Goto(r, "resetting", "loop")
    /\ startElection' = [startElection EXCEPT ![r] = FALSE]
    /\ lostElection' = [lostElection EXCEPT ![r] = FALSE]
    /\ UNCHANGED <<id, m_isLeader, m_leaderConn, m_replicasVector, next, connVars, serving>>

\* The flags are cleared, whoever has set them since, and the loop starts
\* again: a leader starts its ServerHandler if nobody holds the port.
ResetElection(r) ==
    /\ Goto(r, "resetting", "loop")
    /\ startElection' = [startElection EXCEPT ![r] = FALSE]
    /\ lostElection' = [lostElection EXCEPT ![r] = FALSE]
    /\ serving' = IF m_isLeader[r] /\ serving = {} THEN {r} ELSE serving
    /\ UNCHANGED <<id, m_isLeader, m_leaderConn, m_replicasVector, next, connVars>>
-----------------------------------------------------------------------------
(* ReplicaHandler::run, the handler of r for its connection with p.        *)

Receive(r, p, type) ==
    /\ Alive(r)
    /\ conn[r][p] = "open"
    /\ chan[p][r] # <<>>
    /\ Head(chan[p][r]).type = type

Consumed(r, p) == [chan EXCEPT ![p][r] = Tail(@)]

\* Mutant of ReceiveElection: the answer is always "Won".
AnswerWon(r, p) ==
    /\ Receive(r, p, "ELECTION")
    /\ startElection' = [startElection EXCEPT ![r] = TRUE]
    /\ chan' = IF Reaches(r, p)
               THEN [Consumed(r, p) EXCEPT ![r][p] = Append(@, Answer(FALSE))]
               ELSE Consumed(r, p)
    /\ UNCHANGED <<pc, id, m_isLeader, m_leaderConn, m_replicasVector, lostElection, next,
                   conn, m_isConnectedToLeader, backlog, serving>>

\* Whoever asks a greater replica, or an equal one, has lost.
ReceiveElection(r, p) ==
    /\ Receive(r, p, "ELECTION")
    /\ startElection' = [startElection EXCEPT ![r] = TRUE]
    /\ chan' = IF Reaches(r, p)
               THEN [Consumed(r, p) EXCEPT ![r][p] =
                        Append(@, Answer(~(Head(chan[p][r]).id < id[r])))]
               ELSE Consumed(r, p)
    /\ UNCHANGED <<pc, id, m_isLeader, m_leaderConn, m_replicasVector, lostElection, next,
                   conn, m_isConnectedToLeader, backlog, serving>>

\* Mutant of ReceiveCoordinator: who leads is not noted.
ReceiveCoordinatorUnnoted(r, p) ==
    /\ Receive(r, p, "COORDINATOR")
    /\ chan' = Consumed(r, p)
    /\ UNCHANGED <<pc, id, m_isLeader, m_leaderConn, m_replicasVector, electionVars, conn,
                   m_isConnectedToLeader, backlog, serving>>

ReceiveCoordinator(r, p) ==
    /\ Receive(r, p, "COORDINATOR")
    /\ m_isConnectedToLeader' = [m_isConnectedToLeader EXCEPT ![r][p] = TRUE]
    /\ chan' = Consumed(r, p)
    /\ UNCHANGED <<pc, id, m_isLeader, m_leaderConn, m_replicasVector, electionVars, conn,
                   backlog, serving>>

\* notify_one wakes the main thread only if it waits already.
ReceiveAnswer(r, p) ==
    /\ Receive(r, p, "ANSWER")
    /\ lostElection' = [lostElection EXCEPT ![r] = @ \/ Head(chan[p][r]).lost]
    /\ pc' = [pc EXCEPT ![r] = IF @ = "waiting" THEN "woken" ELSE @]
    /\ chan' = Consumed(r, p)
    /\ UNCHANGED <<id, m_isLeader, m_leaderConn, m_replicasVector, startElection, next,
                   conn, m_isConnectedToLeader, backlog, serving>>

\* A peer that is a leader too answers a HELLO with REPLICAS: no handler reads it.
ReceiveOther(r, p) ==
    /\ Receive(r, p, "REPLICAS")
    /\ chan' = Consumed(r, p)
    /\ UNCHANGED <<pc, id, m_isLeader, m_leaderConn, m_replicasVector, electionVars, conn,
                   m_isConnectedToLeader, backlog, serving>>

\* Mutant of ConnectionLost: the loss of any replica starts an election.
AnyConnectionLost(r, p) ==
    /\ Alive(r)
    /\ conn[r][p] = "open"
    /\ chan[p][r] = <<>>
    /\ Crashed(p) \/ conn[p][r] = "closed"
    /\ conn' = [conn EXCEPT ![r][p] = "closing"]
    /\ startElection' = [startElection EXCEPT ![r] = TRUE]
    /\ UNCHANGED <<pc, id, m_isLeader, m_leaderConn, m_replicasVector, lostElection, next,
                   m_isConnectedToLeader, backlog, chan, serving>>

\* receive() returns NULL: the connection with a leader starts an election ...
ConnectionLost(r, p) ==
    /\ Alive(r)
    /\ conn[r][p] = "open"
    /\ chan[p][r] = <<>>
    /\ Crashed(p) \/ conn[p][r] = "closed"
    /\ conn' = [conn EXCEPT ![r][p] = "closing"]
    /\ startElection' = [startElection EXCEPT ![r] = @ \/ m_isConnectedToLeader[r][p]]
    /\ UNCHANGED <<pc, id, m_isLeader, m_leaderConn, m_replicasVector, lostElection, next,
                   m_isConnectedToLeader, backlog, chan, serving>>

\* ... and is closed after that.
CloseConnection(r, p) ==
    /\ Alive(r)
    /\ conn[r][p] = "closing"
    /\ conn' = [conn EXCEPT ![r][p] = "closed"]
    /\ UNCHANGED <<pc, id, m_isLeader, m_leaderConn, m_replicasVector, electionVars,
                   m_isConnectedToLeader, backlog, chan, serving>>
-----------------------------------------------------------------------------
\* The process dies, with what its sockets had not sent to some of the others.
Crash(r) ==
    /\ Alive(r)
    /\ Cardinality({p \in Replica : Crashed(p)}) < MaxCrashes
    /\ pc' = [pc EXCEPT ![r] = "crashed"]
    /\ \E lost \in SUBSET Replica :
          chan' = [q \in Replica |-> [p \in Replica |->
                     IF p = r \/ (q = r /\ p \in lost) THEN <<>> ELSE chan[q][p]]]
    /\ backlog' = [backlog EXCEPT ![r] = <<>>]
    /\ serving' = serving \ {r}
    /\ UNCHANGED <<id, m_isLeader, m_leaderConn, m_replicasVector, electionVars, conn,
                   m_isConnectedToLeader>>

MainStep(r) ==
    \/ Accept(r) \/ ReceiveState(r) \/ HelloUnanswered(r)
    \/ StartElection(r) \/ SendElection(r) \/ NobodyLeftToAsk(r) \/ WaitForAnswer(r)
    \/ AfterAnswer(r) \/ Decide(r) \/ SendCoordinator(r) \/ TakeOver(r) \/ ResetElection(r)

HandlerStep(r, p) ==
    \/ ReceiveElection(r, p) \/ ReceiveCoordinator(r, p) \/ ReceiveAnswer(r, p)
    \/ ReceiveOther(r, p) \/ ConnectionLost(r, p) \/ CloseConnection(r, p)

RMNext ==
    \/ \E r, p \in Replica : Start(r, p) \/ HandlerStep(r, p)
    \/ \E r \in Replica : MainStep(r) \/ SpuriousWakeUp(r) \/ Crash(r)

RMSpec == RMInit /\ [][RMNext]_rmVars

\* Every thread of a running process that can run does; nothing makes an
\* operator start a replica, a replica crash, or a wait return by itself.
FairRMSpec ==
    /\ RMSpec
    /\ \A r \in Replica : WF_rmVars(MainStep(r))
    /\ \A r, p \in Replica : WF_rmVars(HandlerStep(r, p))
-----------------------------------------------------------------------------
RMTypeOK ==
    /\ pc \in [Replica -> MainPhase]
    /\ id \in [Replica -> Id]
    /\ m_isLeader \in [Replica -> BOOLEAN]
    /\ m_leaderConn \in [Replica -> Replica \cup {NULL}]
    /\ m_replicasVector \in [Replica -> Seq(Info)]
    /\ startElection \in [Replica -> BOOLEAN]
    /\ lostElection \in [Replica -> BOOLEAN]
    /\ next \in [Replica -> Nat \ {0}]
    /\ conn \in [Replica -> [Replica -> ConnPhase]]
    /\ m_isConnectedToLeader \in [Replica -> [Replica -> BOOLEAN]]
    /\ backlog \in [Replica -> Seq(Info)]
    /\ chan \in [Replica -> [Replica -> Seq(Message)]]
    /\ serving \subseteq Replica

Leaders == {r \in Replica : Alive(r) /\ m_isLeader[r]}

\* Nobody takes over from the first leader while it runs, whoever joins, leaves
\* or asks for an election.
NoTakeoverFromARunningLeader ==
    Leaders \ {InitialLeader} # {} => Crashed(InitialLeader)

\* info, as r knows it, names a greater replica; and it really is one, or an equal.
KnownGreater(r, info) == info.id < id[r]
IsGreater(r, p) == id[p] <= id[r]

\* A question of r to p is open: its ELECTION is on the way, or the ANSWER to it.
IsOpen(r, p) ==
    \/ \E i \in DOMAIN chan[r][p] : chan[r][p][i].type = "ELECTION"
    \/ \E i \in DOMAIN chan[p][r] : chan[p][r][i].type = "ANSWER"

\* A question of r to p may be lost: one of the two is gone, or has led already and
\* closed their connection.
MayBeLost(r, p) == \E q \in {r, p} : Crashed(q) \/ m_isLeader[q]

\* Who is about to lead has asked every replica that is greater by its list, and
\* ignores no answer: whoever really is greater has not answered yet, or too late, or
\* cannot.  So it may lead although another is greater: wait() may return without an
\* answer.  Answers carry no name and nothing ties one to its question; one that has
\* arrived counts all the same.  (The ids in the lists may be wrong: a second leader
\* numbers a newcomer again.)
NobodyGreaterIsIgnored == \A r \in Replica : pc[r] \in {"announcing", "notifying"} =>
    \A i \in DOMAIN m_replicasVector[r] :
        LET p == m_replicasVector[r][i].peer
        IN  KnownGreater(r, m_replicasVector[r][i]) =>
                \/ ~IsGreater(r, p)
                \/ IsOpen(r, p) \/ MayBeLost(r, p) \/ lostElection[r]
-----------------------------------------------------------------------------
(* The parts of the inductive invariant.                                   *)

\* A replica that was not started is in no list, and nobody has a word for it.
Unknown(r) == \A p \in Replica :
    /\ ~Lists(m_replicasVector[p], r)
    /\ ~Lists(backlog[p], r)
    /\ chan[p][r] = <<>>
    /\ \A q \in Replica : \A i \in DOMAIN chan[p][q] :
          chan[p][q][i].type = "REPLICAS" => ~Lists(chan[p][q][i].replicas, r)

\* A newcomer has sent nothing but its HELLO, and the first it gets from the leader
\* is the answer: until then the leader does not have it in its list.
Newcomer(r) ==
    /\ pc[r] \in {"off", "hello"} =>
          /\ ~m_isLeader[r] /\ id[r] = -1
          /\ \A p \in Replica : conn[r][p] = "none" /\ chan[r][p] = <<>>
    /\ pc[r] = "off" => Unknown(r)
    /\ pc[r] = "hello" =>
          LET leader == m_leaderConn[r]
          IN  /\ leader \in Replica
              /\ m_isLeader[leader]
              /\ chan[leader][r] # <<>> => Head(chan[leader][r]).type = "REPLICAS"
              /\ Lists(m_replicasVector[leader], r) => Crashed(leader) \/ chan[leader][r] # <<>>

\* As long as the first leader runs, there is no other and no election, and only
\* those who lost their connection because its other end crashed close it.
FirstLeaderAlone == ~Crashed(InitialLeader) => \A r \in Replica :
    /\ pc[r] \in {"off", "hello", "loop", "crashed"}
    /\ pc[InitialLeader] = "loop"
    /\ ~startElection[r]
    /\ m_isLeader[r] <=> r = InitialLeader
    /\ pc[r] = "hello" => m_leaderConn[r] = InitialLeader
    /\ \A p \in Replica :
          /\ m_isConnectedToLeader[r][p] => p = InitialLeader
          /\ conn[r][p] \in {"closing", "closed"} => Crashed(p)
          /\ \A i \in DOMAIN chan[r][p] : chan[r][p][i].type = "REPLICAS"

InElection == {"electing", "sent", "waiting", "woken", "sleeping", "announcing", "notifying"}

\* The questions of r and the answers to it: a newcomer has asked nobody, a question
\* carries the id of r, and a "Won" on its way is true.
WordsAreTrue(r) == \A p \in Replica :
    /\ pc[r] \in {"off", "hello"} => ~IsOpen(r, p)
    /\ \A i \in DOMAIN chan[r][p] :
          chan[r][p][i].type = "ELECTION" => chan[r][p][i].id = id[r]
    /\ \A i \in DOMAIN chan[p][r] :
          chan[p][r][i].type = "ANSWER" /\ ~chan[p][r][i].lost => ~IsGreater(r, p)

\* Election of r, unless it is lost already: whoever is greater by its list is not, or
\* has not answered yet, or cannot, or is not asked yet; at the end nobody is left to ask.
ElectionOf(r) == pc[r] \in InElection /\ ~lostElection[r] =>
    \A i \in DOMAIN m_replicasVector[r] :
        KnownGreater(r, m_replicasVector[r][i]) =>
            LET p == m_replicasVector[r][i].peer
            IN  \/ ~IsGreater(r, p) \/ IsOpen(r, p) \/ MayBeLost(r, p)
                \/ pc[r] \in {"electing", "sent", "waiting", "woken"} /\ i >= next[r]

\* A connection is closed only after one of its ends has crashed, or taken over.
ClosedForAReason == \A r, p \in Replica :
    conn[r][p] \in {"closing", "closed"} => MayBeLost(r, p)

RMInv ==
    /\ RMTypeOK
    /\ FirstLeaderAlone
    /\ ClosedForAReason
    /\ \A r \in Replica : Newcomer(r) /\ (~Crashed(r) => WordsAreTrue(r) /\ ElectionOf(r))
-----------------------------------------------------------------------------
Joined == {r \in Replica : Alive(r) /\ m_leaderConn[r] # NULL}

\* When the server is lost and some replica had joined, one of them serves, unless
\* another is lost as well: who waits for its answer waits for ever (ElectionEnds).
ServiceResumes ==
    (serving = {} /\ Joined # {}) ~>
        (serving # {} \/ Joined = {} \/ Cardinality({r \in Replica : Crashed(r)}) > 1)

\* Whoever has a connection with a new leader comes to know that it leads.
LeaderIsKnown == \A r, p \in Replica :
    (p \in Leaders \ {InitialLeader} /\ Alive(r) /\ conn[r][p] = "open" /\ conn[p][r] = "open")
        ~> (m_isConnectedToLeader[r][p] \/ Crashed(p) \/ Crashed(r))
-----------------------------------------------------------------------------
(* What the source says and the code does not give.                        *)

\* An election a replica starts comes to an end.
ElectionEnds == \A r \in Replica : pc[r] = "electing" ~> pc[r] \in {"loop", "crashed"}

=============================================================================
