------------------------ MODULE ReplicaManagerProofs ------------------------
(***************************************************************************)
(* What ReplicaManager guarantees for any replicas and any number of       *)
(* crashes.                                                                *)
(***************************************************************************)
EXTENDS ReplicaManager, SubsequencesProofs

-----------------------------------------------------------------------------
(* Messages and channels.                                                  *)

LEMMA MessageFields ==
    ASSUME NEW m \in Message
    PROVE  /\ m.type \in {"REPLICAS", "ELECTION", "ANSWER", "COORDINATOR"}
           /\ m.type = "REPLICAS" => m.id \in Nat /\ m.replicas \in Seq(Info)
           /\ m.type = "ELECTION" => m.id \in Id
           /\ m.type = "ANSWER" => m.lost \in BOOLEAN
BY DEF Message

LEMMA SentMessages ==
    /\ Coordinator \in Message /\ Coordinator.type = "COORDINATOR"
    /\ \A lost \in BOOLEAN :
          /\ Answer(lost) \in Message
          /\ Answer(lost).type = "ANSWER" /\ Answer(lost).lost = lost
    /\ \A i \in Id :
          /\ Election(i) \in Message
          /\ Election(i).type = "ELECTION" /\ Election(i).id = i
    /\ \A i \in Nat, infos \in Seq(Info) :
          /\ Replicas(i, infos) \in Message
          /\ Replicas(i, infos).type = "REPLICAS" /\ Replicas(i, infos).replicas = infos
BY DEF Message, Coordinator, Answer, Election, Replicas

LEMMA Appended ==
    ASSUME NEW T, NEW s \in Seq(T), NEW m \in T
    PROVE  /\ Len(s) \in Nat /\ DOMAIN s = 1 .. Len(s)
           /\ Append(s, m) \in Seq(T) /\ Append(s, m) # <<>>
           /\ DOMAIN Append(s, m) = 1 .. Len(s) + 1
           /\ \A i \in 1 .. Len(s) : Append(s, m)[i] = s[i]
           /\ Append(s, m)[Len(s) + 1] = m
           /\ s # <<>> => Head(Append(s, m)) = Head(s)
           /\ s = <<>> => Head(Append(s, m)) = m
<1>1. Len(s) \in Nat /\ DOMAIN s = 1 .. Len(s) /\ (s = <<>> <=> Len(s) = 0)
  BY LenProperties, EmptySeq
<1>2. /\ Append(s, m) \in Seq(T)
      /\ Len(Append(s, m)) = Len(s) + 1
      /\ \A i \in 1 .. Len(s) : Append(s, m)[i] = s[i]
      /\ Append(s, m)[Len(s) + 1] = m
  BY AppendProperties
<1>3. DOMAIN Append(s, m) = 1 .. Len(s) + 1 /\ Append(s, m) # <<>>
  BY <1>1, <1>2, LenProperties, EmptySeq
<1>4. /\ Head(Append(s, m)) = Append(s, m)[1]
      /\ s # <<>> => Head(s) = s[1]
  BY <1>2, <1>3, HeadTailProperties
<1> QED
  BY <1>1, <1>2, <1>3, <1>4

LEMMA Received ==
    ASSUME NEW T, NEW s \in Seq(T), s # <<>>
    PROVE  /\ Len(s) \in Nat \ {0} /\ DOMAIN s = 1 .. Len(s)
           /\ Head(s) = s[1] /\ Head(s) \in T
           /\ Tail(s) \in Seq(T)
           /\ DOMAIN Tail(s) = 1 .. Len(s) - 1
           /\ \A i \in DOMAIN Tail(s) : i + 1 \in DOMAIN s /\ Tail(s)[i] = s[i + 1]
<1>1. Len(s) \in Nat /\ DOMAIN s = 1 .. Len(s) /\ Len(s) # 0
  BY LenProperties, EmptySeq
<1>2. /\ Tail(s) \in Seq(T) /\ Len(Tail(s)) = Len(s) - 1
      /\ \A i \in 1 .. Len(Tail(s)) : Tail(s)[i] = s[i + 1]
      /\ Head(s) = s[1] /\ Head(s) \in T
  BY HeadTailProperties
<1>3. DOMAIN Tail(s) = 1 .. Len(s) - 1
  BY <1>2, LenProperties
<1> QED
  BY <1>1, <1>2, <1>3

LEMMA SentTo ==
    ASSUME RMTypeOK, NEW r \in Replica, NEW p \in Replica, NEW m \in Message
    PROVE  /\ Sent(r, p, m) \in [Replica -> [Replica -> Seq(Message)]]
           /\ \A x, y \in Replica : Sent(r, p, m)[x][y] =
                 IF x = r /\ y = p /\ Reaches(r, p) THEN Append(chan[x][y], m)
                                                    ELSE chan[x][y]
<1>1. chan \in [Replica -> [Replica -> Seq(Message)]]
  BY DEF RMTypeOK
<1>2. Append(chan[r][p], m) \in Seq(Message)
  BY <1>1, Appended
<1> QED
  BY <1>1, <1>2 DEF Sent

LEMMA ConsumedFrom ==
    ASSUME RMTypeOK, NEW r \in Replica, NEW p \in Replica, chan[p][r] # <<>>
    PROVE  /\ Consumed(r, p) \in [Replica -> [Replica -> Seq(Message)]]
           /\ \A x, y \in Replica : Consumed(r, p)[x][y] =
                 IF x = p /\ y = r THEN Tail(chan[x][y]) ELSE chan[x][y]
           /\ Head(chan[p][r]) \in Message
<1>1. chan \in [Replica -> [Replica -> Seq(Message)]]
  BY DEF RMTypeOK
<1>2. Tail(chan[p][r]) \in Seq(Message) /\ Head(chan[p][r]) \in Message
  BY <1>1, Received
<1> QED
  BY <1>1, <1>2 DEF Consumed

\* What a replica keeps of its list.
LEMMA OpenReplicasAreListed ==
    ASSUME RMTypeOK, NEW r \in Replica
    PROVE  /\ OpenReplicas(r) \in Seq(Info)
           /\ Len(OpenReplicas(r)) \in Nat
           /\ \A p : Lists(OpenReplicas(r), p) => Lists(m_replicasVector[r], p)
<1> DEFINE known == m_replicasVector[r]
           S == {i \in DOMAIN known : conn[r][known[i].peer] # "closed"}
<1>1. known \in Seq(Info) /\ DOMAIN known = 1 .. Len(known)
  BY LenProperties DEF RMTypeOK
<1>2. S \in SUBSET (1 .. Len(known))
  BY <1>1
<1>3. OpenReplicas(r) = Entries(known, S)
  BY DEF OpenReplicas
<1> HIDE DEF known, S
<1>4. /\ Entries(known, S) \in Seq(Info)
      /\ \A k \in DOMAIN Entries(known, S) : \E i \in S : Entries(known, S)[k] = known[i]
  BY <1>1, <1>2, EntriesAreSequence
<1>5. \A p : Lists(Entries(known, S), p) => Lists(known, p)
  BY <1>1, <1>2, <1>4 DEF Lists
<1> QED
  BY <1>3, <1>4, <1>5, LenProperties DEF known

\* The replicas of a list that run.
Running(s) == Entries(s, {i \in DOMAIN s : Alive(s[i].peer)})

LEMMA RunningAreListed ==
    ASSUME NEW s \in Seq(Info)
    PROVE  /\ Running(s) \in Seq(Info)
           /\ \A p : Lists(Running(s), p) => Lists(s, p) /\ Alive(p)
<1> DEFINE S == {i \in DOMAIN s : Alive(s[i].peer)}
<1>1. DOMAIN s = 1 .. Len(s)
  BY LenProperties
<1>2. S \in SUBSET (1 .. Len(s)) /\ \A i \in S : i \in DOMAIN s /\ Alive(s[i].peer)
  BY <1>1
<1>3. Running(s) = Entries(s, S)
  BY DEF Running
<1> HIDE DEF S
<1>4. /\ Entries(s, S) \in Seq(Info)
      /\ \A k \in DOMAIN Entries(s, S) : \E i \in S : Entries(s, S)[k] = s[i]
  BY <1>2, EntriesAreSequence
<1>5. \A p : Lists(Entries(s, S), p) => Lists(s, p) /\ Alive(p)
  BY <1>2, <1>4 DEF Lists
<1> QED
  BY <1>3, <1>4, <1>5
-----------------------------------------------------------------------------
(* Types.                                                                  *)

LEMMA StartType ==
    ASSUME RMTypeOK, NEW r \in Replica, NEW p \in Replica, Start(r, p)
    PROVE  RMTypeOK'
<1>1. /\ pc' \in [Replica -> MainPhase]
      /\ m_leaderConn' \in [Replica -> Replica \cup {NULL}]
  <2>1. pc \in [Replica -> MainPhase] /\ "hello" \in MainPhase /\ "loop" \in MainPhase
    BY DEF RMTypeOK, MainPhase
  <2>2. m_leaderConn \in [Replica -> Replica \cup {NULL}]
    BY DEF RMTypeOK
  <2>3. \/ /\ pc' = [pc EXCEPT ![r] = "hello"]
           /\ m_leaderConn' = [m_leaderConn EXCEPT ![r] = p]
        \/ pc' = [pc EXCEPT ![r] = "loop"] /\ m_leaderConn' = m_leaderConn
    BY DEF Start
  <2> QED
    BY <2>1, <2>2, <2>3
<1>2. [peer |-> r, id |-> id[r]] \in Info /\ backlog[p] \in Seq(Info)
  BY DEF RMTypeOK, Info
<1>3. Append(backlog[p], [peer |-> r, id |-> id[r]]) \in Seq(Info)
  BY <1>2, Appended
<1>4. backlog' \in [Replica -> Seq(Info)]
  <2>1. backlog \in [Replica -> Seq(Info)]
    BY DEF RMTypeOK
  <2>2. \/ backlog' = [backlog EXCEPT ![p] = Append(backlog[p], [peer |-> r, id |-> id[r]])]
        \/ backlog' = backlog
    BY DEF Start
  <2> QED
    BY <1>3, <2>1, <2>2
<1> QED
  BY <1>1, <1>4 DEF RMTypeOK, Start, electionVars

LEMMA AcceptEffect ==
    ASSUME RMTypeOK, NEW r \in Replica, Accept(r)
    PROVE  LET hello == Head(backlog[r])
               newId == IF m_isLeader[r] THEN Len(OpenReplicas(r)) ELSE hello.id
           IN  /\ backlog[r] # <<>> /\ hello = backlog[r][1] /\ hello \in Info
               /\ newId \in Id /\ (m_isLeader[r] => newId \in Nat)
               /\ [peer |-> hello.peer, id |-> newId] \in Info
               /\ OpenReplicas(r) \in Seq(Info)
               /\ m_isLeader[r] => Replicas(newId, OpenReplicas(r)) \in Message
<1>1. backlog[r] # <<>> /\ backlog[r] \in Seq(Info) /\ m_isLeader[r] \in BOOLEAN
  BY DEF RMTypeOK, Accept
<1>2. Head(backlog[r]) \in Info /\ Head(backlog[r]) = backlog[r][1]
  BY <1>1, Received
<1>3. OpenReplicas(r) \in Seq(Info) /\ Len(OpenReplicas(r)) \in Nat
  BY OpenReplicasAreListed
<1> DEFINE newId == IF m_isLeader[r] THEN Len(OpenReplicas(r)) ELSE Head(backlog[r]).id
<1>4. newId \in Id /\ (m_isLeader[r] => newId \in Nat)
  BY <1>1, <1>2, <1>3 DEF Info, Id
<1> HIDE DEF newId
<1>5. [peer |-> Head(backlog[r]).peer, id |-> newId] \in Info
  BY <1>2, <1>4 DEF Info
<1>6. m_isLeader[r] => Replicas(newId, OpenReplicas(r)) \in Message
  BY <1>3, <1>4, SentMessages
<1> QED
  BY <1>1, <1>2, <1>3, <1>4, <1>5, <1>6 DEF newId

LEMMA AcceptType ==
    ASSUME RMTypeOK, NEW r \in Replica, Accept(r)
    PROVE  RMTypeOK'
<1> DEFINE hello == Head(backlog[r])
           known == OpenReplicas(r)
           newId == IF m_isLeader[r] THEN Len(known) ELSE hello.id
           info  == [peer |-> hello.peer, id |-> newId]
           msg   == Replicas(newId, known)
<1>1. /\ backlog[r] # <<>> /\ hello \in Info /\ info \in Info /\ known \in Seq(Info)
      /\ m_isLeader[r] => msg \in Message
  BY AcceptEffect
<1>2. hello.peer \in Replica
  BY <1>1 DEF Info
<1>3. /\ m_replicasVector' = [m_replicasVector EXCEPT ![r] = Append(known, info)]
      /\ conn' = [conn EXCEPT ![r][hello.peer] = "open"]
      /\ chan' = IF m_isLeader[r] THEN Sent(r, hello.peer, msg) ELSE chan
      /\ backlog' = [backlog EXCEPT ![r] = Tail(@)]
      /\ \E phase \in {"loop", "flagged"} : pc' = [pc EXCEPT ![r] = phase]
      /\ UNCHANGED <<id, m_isLeader, m_leaderConn, electionVars,
                     m_isConnectedToLeader, serving>>
  BY DEF Accept, Goto
<1> HIDE DEF hello, known, newId, info, msg
<1>4. Append(known, info) \in Seq(Info)
  BY <1>1, Appended
<1>5. m_replicasVector' \in [Replica -> Seq(Info)]
  BY <1>3, <1>4 DEF RMTypeOK
<1>6. conn' \in [Replica -> [Replica -> ConnPhase]]
  BY <1>2, <1>3 DEF RMTypeOK, ConnPhase
<1>7. chan' \in [Replica -> [Replica -> Seq(Message)]]
  BY <1>1, <1>2, <1>3, SentTo DEF RMTypeOK
<1>8. Tail(backlog[r]) \in Seq(Info)
  BY <1>1, Received DEF RMTypeOK
<1>9. backlog' \in [Replica -> Seq(Info)]
  BY <1>3, <1>8 DEF RMTypeOK
<1>10. pc' \in [Replica -> MainPhase]
  BY <1>3 DEF RMTypeOK, MainPhase
<1> QED
  BY <1>3, <1>5, <1>6, <1>7, <1>9, <1>10 DEF RMTypeOK, electionVars

LEMMA ReceiveStateEffect ==
    ASSUME RMTypeOK, NEW r \in Replica, Newcomer(r), ReceiveState(r)
    PROVE  LET leader == m_leaderConn[r]
               state  == Head(chan[leader][r])
               infos  == Running(state.replicas)
           IN  /\ leader \in Replica /\ m_isLeader[leader]
               /\ pc[r] = "hello" /\ pc' = [pc EXCEPT ![r] = "loop"]
               /\ chan[leader][r] # <<>>
               /\ state = chan[leader][r][1] /\ 1 \in DOMAIN chan[leader][r]
               /\ state \in Message /\ state.type = "REPLICAS"
               /\ state.id \in Nat /\ infos \in Seq(Info)
               /\ \A p : Lists(infos, p) => Lists(state.replicas, p) /\ Alive(p)
               /\ id' = [id EXCEPT ![r] = state.id]
               /\ m_replicasVector' = [m_replicasVector EXCEPT ![r] = infos]
               /\ conn' = [conn EXCEPT ![r] = [p \in Replica |->
                              IF p = leader \/ Lists(infos, p) THEN "open" ELSE conn[r][p]]]
               /\ m_isConnectedToLeader' =
                     [m_isConnectedToLeader EXCEPT ![r][leader] = TRUE]
               /\ backlog' = [p \in Replica |->
                     IF Lists(infos, p) THEN Append(backlog[p], [peer |-> r, id |-> state.id])
                                        ELSE backlog[p]]
               /\ chan' = Consumed(r, leader)
<1> DEFINE leader == m_leaderConn[r]
           state  == Head(chan[leader][r])
           infos  == Running(state.replicas)
<1>1. pc[r] = "hello" /\ chan[leader][r] # <<>> /\ pc' = [pc EXCEPT ![r] = "loop"]
  BY DEF ReceiveState, Goto
<1>2. leader \in Replica /\ m_isLeader[leader] /\ state.type = "REPLICAS"
  BY <1>1 DEF Newcomer
<1>3. chan[leader][r] \in Seq(Message)
  BY <1>2 DEF RMTypeOK
<1>4. state \in Message /\ state = chan[leader][r][1] /\ 1 \in DOMAIN chan[leader][r]
  BY <1>1, <1>3, Received
<1>5. state.id \in Nat /\ state.replicas \in Seq(Info)
  BY <1>2, <1>4, MessageFields
<1>6. infos \in Seq(Info) /\ \A p : Lists(infos, p) => Lists(state.replicas, p) /\ Alive(p)
  BY <1>5, RunningAreListed
<1>7. /\ id' = [id EXCEPT ![r] = state.id]
      /\ m_replicasVector' = [m_replicasVector EXCEPT ![r] = infos]
      /\ conn' = [conn EXCEPT ![r] = [p \in Replica |->
                     IF p = leader \/ Lists(infos, p) THEN "open" ELSE conn[r][p]]]
      /\ m_isConnectedToLeader' = [m_isConnectedToLeader EXCEPT ![r][leader] = TRUE]
      /\ backlog' = [p \in Replica |->
            IF Lists(infos, p) THEN Append(backlog[p], [peer |-> r, id |-> state.id])
                               ELSE backlog[p]]
      /\ chan' = Consumed(r, leader)
  BY Zenon DEF ReceiveState, Running, Consumed
<1> QED
  BY <1>1, <1>2, <1>4, <1>5, <1>6, <1>7

LEMMA ReceiveStateType ==
    ASSUME RMTypeOK, NEW r \in Replica, Newcomer(r), ReceiveState(r)
    PROVE  RMTypeOK'
<1> DEFINE leader == m_leaderConn[r]
           state  == Head(chan[leader][r])
           infos  == Running(state.replicas)
           info   == [peer |-> r, id |-> state.id]
<1>1. /\ leader \in Replica
      /\ pc' = [pc EXCEPT ![r] = "loop"]
      /\ chan[leader][r] # <<>>
      /\ state.id \in Nat /\ infos \in Seq(Info)
      /\ id' = [id EXCEPT ![r] = state.id]
      /\ m_replicasVector' = [m_replicasVector EXCEPT ![r] = infos]
      /\ conn' = [conn EXCEPT ![r] = [p \in Replica |->
                     IF p = leader \/ Lists(infos, p) THEN "open" ELSE conn[r][p]]]
      /\ m_isConnectedToLeader' = [m_isConnectedToLeader EXCEPT ![r][leader] = TRUE]
      /\ backlog' = [p \in Replica |->
            IF Lists(infos, p) THEN Append(backlog[p], info) ELSE backlog[p]]
      /\ chan' = Consumed(r, leader)
  BY ReceiveStateEffect
<1>2. UNCHANGED <<m_isLeader, m_leaderConn, electionVars, serving>>
  BY DEF ReceiveState
<1>3. info \in Info
  BY <1>1 DEF Info, Id
<1> HIDE DEF leader, state, infos, info
<1>4. \A p \in Replica : Append(backlog[p], info) \in Seq(Info)
  BY <1>3, Appended DEF RMTypeOK
<1>5. backlog' \in [Replica -> Seq(Info)]
  BY <1>1, <1>4 DEF RMTypeOK
<1>6. chan' \in [Replica -> [Replica -> Seq(Message)]]
  BY <1>1, ConsumedFrom
<1>7. conn' \in [Replica -> [Replica -> ConnPhase]]
  BY <1>1 DEF RMTypeOK, ConnPhase
<1>8. /\ pc' \in [Replica -> MainPhase]
      /\ id' \in [Replica -> Id]
  BY <1>1 DEF RMTypeOK, MainPhase, Id
<1>9. m_replicasVector' \in [Replica -> Seq(Info)]
  BY <1>1 DEF RMTypeOK
<1>10. m_isConnectedToLeader' \in [Replica -> [Replica -> BOOLEAN]]
  BY <1>1 DEF RMTypeOK
<1> QED
  BY <1>2, <1>5, <1>6, <1>7, <1>8, <1>9, <1>10 DEF RMTypeOK, electionVars
LEMMA HelloUnansweredType ==
    ASSUME RMTypeOK, NEW r \in Replica, Newcomer(r), HelloUnanswered(r)
    PROVE  RMTypeOK'
<1> DEFINE leader == m_leaderConn[r]
<1>1. leader \in Replica
  BY DEF Newcomer, HelloUnanswered, Goto
<1>2. /\ pc' = [pc EXCEPT ![r] = "loop"]
      /\ conn' = [conn EXCEPT ![r][leader] = "open"]
      /\ m_isConnectedToLeader' = [m_isConnectedToLeader EXCEPT ![r][leader] = TRUE]
      /\ UNCHANGED <<id, m_isLeader, m_leaderConn, m_replicasVector, electionVars,
                     backlog, chan, serving>>
  BY DEF HelloUnanswered, Goto
<1> HIDE DEF leader
<1>3. pc' \in [Replica -> MainPhase]
  BY <1>2 DEF RMTypeOK, MainPhase
<1>4. conn' \in [Replica -> [Replica -> ConnPhase]]
  BY <1>1, <1>2 DEF RMTypeOK, ConnPhase
<1>5. m_isConnectedToLeader' \in [Replica -> [Replica -> BOOLEAN]]
  BY <1>1, <1>2 DEF RMTypeOK
<1> QED
  BY <1>2, <1>3, <1>4, <1>5 DEF RMTypeOK, electionVars

LEMMA StartElectionType ==
    ASSUME RMTypeOK, NEW r \in Replica, StartElection(r)
    PROVE  RMTypeOK'
<1>1. OpenReplicas(r) \in Seq(Info)
  BY OpenReplicasAreListed
<1>2. /\ pc' = [pc EXCEPT ![r] = "electing"]
      /\ m_replicasVector' = [m_replicasVector EXCEPT ![r] = OpenReplicas(r)]
      /\ next' = [next EXCEPT ![r] = 1]
      /\ UNCHANGED <<id, m_isLeader, m_leaderConn, startElection, lostElection, connVars,
                     serving>>
  BY DEF StartElection, Goto
<1>3. pc' \in [Replica -> MainPhase]
  BY <1>2 DEF RMTypeOK, MainPhase
<1>4. m_replicasVector' \in [Replica -> Seq(Info)] /\ next' \in [Replica -> Nat \ {0}]
  BY <1>1, <1>2 DEF RMTypeOK
<1> QED
  BY <1>2, <1>3, <1>4 DEF RMTypeOK, connVars

LEMMA SendElectionEffect ==
    ASSUME RMTypeOK, NEW r \in Replica, SendElection(r)
    PROVE  \E i \in Greater(r) :
              LET q == m_replicasVector[r][i].peer
              IN  /\ i \in Nat \ {0} /\ i \in DOMAIN m_replicasVector[r] /\ q \in Replica
                  /\ \A j \in Greater(r) : i <= j
                  /\ Election(id[r]) \in Message
                  /\ Election(id[r]).type = "ELECTION" /\ Election(id[r]).id = id[r]
                  /\ chan' = Sent(r, q, Election(id[r]))
                  /\ next' = [next EXCEPT ![r] = i + 1]
<1>1. PICK i \in Greater(r) :
         /\ \A j \in Greater(r) : i <= j
         /\ chan' = Sent(r, m_replicasVector[r][i].peer, Election(id[r]))
         /\ next' = [next EXCEPT ![r] = i + 1]
  BY DEF SendElection
<1>2. m_replicasVector[r] \in Seq(Info) /\ next[r] \in Nat \ {0} /\ id[r] \in Id
  BY DEF RMTypeOK
<1>3. /\ Len(m_replicasVector[r]) \in Nat
      /\ DOMAIN m_replicasVector[r] = 1 .. Len(m_replicasVector[r])
  BY <1>2, LenProperties
<1>4. i \in next[r] .. Len(m_replicasVector[r])
  BY DEF Greater
<1>5. i \in 1 .. Len(m_replicasVector[r]) /\ i \in Nat \ {0}
  BY <1>2, <1>3, <1>4
<1>6. m_replicasVector[r][i] \in Info
  BY <1>2, <1>5, ElementOfSeq
<1>7. m_replicasVector[r][i].peer \in Replica
  BY <1>6 DEF Info
<1> QED
  BY <1>1, <1>2, <1>3, <1>5, <1>7, SentMessages

LEMMA SendElectionType ==
    ASSUME RMTypeOK, NEW r \in Replica, SendElection(r)
    PROVE  RMTypeOK'
<1>1. PICK i \in Greater(r) :
         /\ i \in Nat \ {0} /\ m_replicasVector[r][i].peer \in Replica
         /\ Election(id[r]) \in Message
         /\ chan' = Sent(r, m_replicasVector[r][i].peer, Election(id[r]))
         /\ next' = [next EXCEPT ![r] = i + 1]
  BY SendElectionEffect
<1>2. chan' \in [Replica -> [Replica -> Seq(Message)]]
  BY <1>1, SentTo
<1>3. next' \in [Replica -> Nat \ {0}]
  BY <1>1 DEF RMTypeOK
<1>4. pc' \in [Replica -> MainPhase]
  BY DEF RMTypeOK, MainPhase, SendElection, Goto
<1> QED
  BY <1>2, <1>3, <1>4 DEF RMTypeOK, SendElection

LEMMA NobodyLeftToAskType ==
    ASSUME RMTypeOK, NEW r \in Replica, NobodyLeftToAsk(r)
    PROVE  RMTypeOK'
<1>1. pc' \in [Replica -> MainPhase]
  BY DEF RMTypeOK, MainPhase, NobodyLeftToAsk, Goto
<1> QED
  BY <1>1 DEF RMTypeOK, NobodyLeftToAsk, electionVars, connVars

LEMMA WaitForAnswerType ==
    ASSUME RMTypeOK, NEW r \in Replica, WaitForAnswer(r)
    PROVE  RMTypeOK'
<1>1. pc' \in [Replica -> MainPhase]
  BY DEF RMTypeOK, MainPhase, WaitForAnswer, Goto
<1> QED
  BY <1>1 DEF RMTypeOK, WaitForAnswer, electionVars, connVars

LEMMA SpuriousWakeUpType ==
    ASSUME RMTypeOK, NEW r \in Replica, SpuriousWakeUp(r)
    PROVE  RMTypeOK'
<1>1. pc' \in [Replica -> MainPhase]
  BY DEF RMTypeOK, MainPhase, SpuriousWakeUp, Goto
<1> QED
  BY <1>1 DEF RMTypeOK, SpuriousWakeUp, electionVars, connVars

LEMMA AfterAnswerType ==
    ASSUME RMTypeOK, NEW r \in Replica, AfterAnswer(r)
    PROVE  RMTypeOK'
<1>1. pc' \in [Replica -> MainPhase]
  BY DEF RMTypeOK, MainPhase, AfterAnswer, Goto
<1> QED
  BY <1>1 DEF RMTypeOK, AfterAnswer, electionVars, connVars

LEMMA DecideType ==
    ASSUME RMTypeOK, NEW r \in Replica, Decide(r)
    PROVE  RMTypeOK'
<1>1. pc' \in [Replica -> MainPhase]
  BY DEF RMTypeOK, MainPhase, Decide, Goto
<1> QED
  BY <1>1 DEF RMTypeOK, Decide, electionVars, connVars

LEMMA SendCoordinatorEffect ==
    ASSUME RMTypeOK, NEW r \in Replica, SendCoordinator(r)
    PROVE  /\ chan' \in [Replica -> [Replica -> Seq(Message)]]
           /\ \A x, y \in Replica : chan'[x][y] =
                 IF x = r /\ Lists(m_replicasVector[r], y) /\ Reaches(r, y)
                 THEN Append(chan[x][y], Coordinator) ELSE chan[x][y]
<1>1. chan \in [Replica -> [Replica -> Seq(Message)]]
  BY DEF RMTypeOK
<1>2. \A y \in Replica : Append(chan[r][y], Coordinator) \in Seq(Message)
  BY <1>1, Appended, SentMessages
<1>3. chan' = [chan EXCEPT ![r] = [p \in Replica |->
                  IF Lists(m_replicasVector[r], p) /\ Reaches(r, p)
                  THEN Append(chan[r][p], Coordinator) ELSE chan[r][p]]]
  BY Zenon DEF SendCoordinator
<1> QED
  BY <1>1, <1>2, <1>3

LEMMA SendCoordinatorType ==
    ASSUME RMTypeOK, NEW r \in Replica, SendCoordinator(r)
    PROVE  RMTypeOK'
<1>1. chan' \in [Replica -> [Replica -> Seq(Message)]]
  BY SendCoordinatorEffect
<1>2. pc' \in [Replica -> MainPhase]
  BY DEF RMTypeOK, MainPhase, SendCoordinator, Goto
<1>3. UNCHANGED <<id, m_isLeader, m_leaderConn, m_replicasVector, electionVars, conn,
                  m_isConnectedToLeader, backlog, serving>>
  BY DEF SendCoordinator
<1> QED
  BY <1>1, <1>2, <1>3 DEF RMTypeOK, electionVars

LEMMA TakeOverType ==
    ASSUME RMTypeOK, NEW r \in Replica, TakeOver(r)
    PROVE  RMTypeOK'
<1>1. /\ pc' = [pc EXCEPT ![r] = "resetting"]
      /\ m_isLeader' = [m_isLeader EXCEPT ![r] = TRUE]
      /\ m_leaderConn' = [m_leaderConn EXCEPT ![r] = NULL]
      /\ conn' = [conn EXCEPT ![r] = [p \in Replica |->
                     IF p = m_leaderConn[r] THEN "closed" ELSE conn[r][p]]]
      /\ UNCHANGED <<id, m_replicasVector, electionVars, m_isConnectedToLeader, backlog,
                     chan, serving>>
  BY Zenon DEF TakeOver, Goto
<1>2. pc' \in [Replica -> MainPhase]
  BY <1>1 DEF RMTypeOK, MainPhase
<1>3. m_isLeader' \in [Replica -> BOOLEAN]
  BY <1>1 DEF RMTypeOK
<1>4. m_leaderConn' \in [Replica -> Replica \cup {NULL}]
  BY <1>1 DEF RMTypeOK
<1>5. conn' \in [Replica -> [Replica -> ConnPhase]]
  BY <1>1 DEF RMTypeOK, ConnPhase
<1> QED
  BY <1>1, <1>2, <1>3, <1>4, <1>5 DEF RMTypeOK, electionVars

LEMMA ResetElectionType ==
    ASSUME RMTypeOK, NEW r \in Replica, ResetElection(r)
    PROVE  RMTypeOK'
<1>1. /\ pc' = [pc EXCEPT ![r] = "loop"]
      /\ startElection' = [startElection EXCEPT ![r] = FALSE]
      /\ lostElection' = [lostElection EXCEPT ![r] = FALSE]
      /\ serving' \in {{r}, serving}
      /\ UNCHANGED <<id, m_isLeader, m_leaderConn, m_replicasVector, next, connVars>>
  BY DEF ResetElection, Goto
<1>2. pc' \in [Replica -> MainPhase]
  BY <1>1 DEF RMTypeOK, MainPhase
<1> QED
  BY <1>1, <1>2 DEF RMTypeOK, connVars
-----------------------------------------------------------------------------
(* Types: the handlers and the crash.                                      *)

LEMMA ReceiveEffect ==
    ASSUME RMTypeOK, NEW r \in Replica, NEW p \in Replica, NEW type, Receive(r, p, type)
    PROVE  /\ chan[p][r] # <<>> /\ chan[p][r] \in Seq(Message)
           /\ 1 \in DOMAIN chan[p][r] /\ Head(chan[p][r]) = chan[p][r][1]
           /\ Head(chan[p][r]) \in Message
           /\ Head(chan[p][r]).type = type
           /\ conn[r][p] = "open" /\ Alive(r)
<1>1. chan[p][r] # <<>> /\ chan[p][r] \in Seq(Message)
  BY DEF Receive, RMTypeOK
<1>2. /\ 1 \in DOMAIN chan[p][r] /\ Head(chan[p][r]) = chan[p][r][1]
      /\ Head(chan[p][r]) \in Message
  BY <1>1, Received
<1> QED
  BY <1>1, <1>2 DEF Receive

LEMMA ReceiveElectionEffect ==
    ASSUME RMTypeOK, NEW r \in Replica, NEW p \in Replica, ReceiveElection(r, p)
    PROVE  LET question == Head(chan[p][r])
               answer   == Answer(~(question.id < id[r]))
           IN  /\ answer \in Message /\ answer.type = "ANSWER"
               /\ answer.lost = ~(question.id < id[r])
               /\ chan' \in [Replica -> [Replica -> Seq(Message)]]
               /\ \A x, y \in Replica : chan'[x][y] =
                     IF x = r /\ y = p /\ Reaches(r, p)
                     THEN Append(Consumed(r, p)[x][y], answer) ELSE Consumed(r, p)[x][y]
<1> DEFINE answer == Answer(~(Head(chan[p][r]).id < id[r]))
<1>1. Receive(r, p, "ELECTION")
  BY DEF ReceiveElection
<1>2. chan[p][r] # <<>>
  BY <1>1, ReceiveEffect
<1>3. Consumed(r, p) \in [Replica -> [Replica -> Seq(Message)]]
  BY <1>2, ConsumedFrom
<1>4. (~(Head(chan[p][r]).id < id[r])) \in BOOLEAN
  OBVIOUS
<1>5. /\ answer \in Message /\ answer.type = "ANSWER"
      /\ answer.lost = ~(Head(chan[p][r]).id < id[r])
  BY <1>4, SentMessages
<1>6. chan' = IF Reaches(r, p)
              THEN [Consumed(r, p) EXCEPT ![r][p] = Append(@, answer)] ELSE Consumed(r, p)
  BY DEF ReceiveElection
<1> DEFINE rest == Consumed(r, p)
<1> HIDE DEF answer, rest
<1>7. Append(rest[r][p], answer) \in Seq(Message)
  BY <1>3, <1>5, Appended DEF rest
<1>8. rest \in [Replica -> [Replica -> Seq(Message)]]
  BY <1>3 DEF rest
<1>9. chan' = IF Reaches(r, p) THEN [rest EXCEPT ![r][p] = Append(@, answer)] ELSE rest
  BY <1>6 DEF rest
<1>10. /\ chan' \in [Replica -> [Replica -> Seq(Message)]]
       /\ \A x, y \in Replica : chan'[x][y] =
             IF x = r /\ y = p /\ Reaches(r, p) THEN Append(rest[x][y], answer) ELSE rest[x][y]
  BY <1>7, <1>8, <1>9
<1> QED
  BY <1>5, <1>10 DEF answer, rest

LEMMA ReceiveElectionType ==
    ASSUME RMTypeOK, NEW r \in Replica, NEW p \in Replica, ReceiveElection(r, p)
    PROVE  RMTypeOK'
<1>1. chan' \in [Replica -> [Replica -> Seq(Message)]]
  BY ReceiveElectionEffect
<1>2. /\ startElection' = [startElection EXCEPT ![r] = TRUE]
      /\ UNCHANGED <<pc, id, m_isLeader, m_leaderConn, m_replicasVector, lostElection, next,
                     conn, m_isConnectedToLeader, backlog, serving>>
  BY DEF ReceiveElection
<1> QED
  BY <1>1, <1>2 DEF RMTypeOK

LEMMA ReceiveCoordinatorType ==
    ASSUME RMTypeOK, NEW r \in Replica, NEW p \in Replica, ReceiveCoordinator(r, p)
    PROVE  RMTypeOK'
<1>1. /\ Receive(r, p, "COORDINATOR")
      /\ m_isConnectedToLeader' = [m_isConnectedToLeader EXCEPT ![r][p] = TRUE]
      /\ chan' = Consumed(r, p)
      /\ UNCHANGED <<pc, id, m_isLeader, m_leaderConn, m_replicasVector, electionVars, conn,
                     backlog, serving>>
  BY DEF ReceiveCoordinator
<1>2. chan' \in [Replica -> [Replica -> Seq(Message)]]
  BY <1>1, ReceiveEffect, ConsumedFrom
<1>3. m_isConnectedToLeader' \in [Replica -> [Replica -> BOOLEAN]]
  BY <1>1 DEF RMTypeOK
<1> QED
  BY <1>1, <1>2, <1>3 DEF RMTypeOK, electionVars

LEMMA ReceiveAnswerEffect ==
    ASSUME RMTypeOK, NEW r \in Replica, NEW p \in Replica, ReceiveAnswer(r, p)
    PROVE  /\ Receive(r, p, "ANSWER") /\ chan[p][r] # <<>>
           /\ Head(chan[p][r]).lost \in BOOLEAN
           /\ lostElection' = [lostElection EXCEPT
                                  ![r] = lostElection[r] \/ Head(chan[p][r]).lost]
           /\ pc' = [pc EXCEPT ![r] = IF pc[r] = "waiting" THEN "woken" ELSE pc[r]]
           /\ chan' = Consumed(r, p)
<1>1. Receive(r, p, "ANSWER") /\ chan' = Consumed(r, p)
  BY DEF ReceiveAnswer
<1>2. chan[p][r] # <<>> /\ Head(chan[p][r]).lost \in BOOLEAN
  BY <1>1, ReceiveEffect, MessageFields
<1>3. /\ lostElection' = [lostElection EXCEPT ![r] = lostElection[r] \/ Head(chan[p][r]).lost]
      /\ pc' = [pc EXCEPT ![r] = IF pc[r] = "waiting" THEN "woken" ELSE pc[r]]
  BY Zenon DEF ReceiveAnswer
<1> QED
  BY <1>1, <1>2, <1>3

LEMMA ReceiveAnswerType ==
    ASSUME RMTypeOK, NEW r \in Replica, NEW p \in Replica, ReceiveAnswer(r, p)
    PROVE  RMTypeOK'
<1>1. /\ chan[p][r] # <<>>
      /\ lostElection' = [lostElection EXCEPT
                             ![r] = lostElection[r] \/ Head(chan[p][r]).lost]
      /\ pc' = [pc EXCEPT ![r] = IF pc[r] = "waiting" THEN "woken" ELSE pc[r]]
      /\ chan' = Consumed(r, p)
  BY ReceiveAnswerEffect
<1>2. chan' \in [Replica -> [Replica -> Seq(Message)]]
  BY <1>1, ConsumedFrom
<1>3. (lostElection[r] \/ Head(chan[p][r]).lost) \in BOOLEAN
  OBVIOUS
<1>4. lostElection' \in [Replica -> BOOLEAN]
  <2> DEFINE lost == lostElection[r] \/ Head(chan[p][r]).lost
  <2>1. lost \in BOOLEAN /\ lostElection' = [lostElection EXCEPT ![r] = lost]
    BY <1>1, <1>3
  <2> HIDE DEF lost
  <2> QED
    BY <2>1 DEF RMTypeOK
<1>5. pc' \in [Replica -> MainPhase]
  BY <1>1 DEF RMTypeOK, MainPhase
<1>6. UNCHANGED <<id, m_isLeader, m_leaderConn, m_replicasVector, startElection, next,
                  conn, m_isConnectedToLeader, backlog, serving>>
  BY DEF ReceiveAnswer
<1> QED
  BY <1>2, <1>4, <1>5, <1>6 DEF RMTypeOK

LEMMA ReceiveOtherType ==
    ASSUME RMTypeOK, NEW r \in Replica, NEW p \in Replica, ReceiveOther(r, p)
    PROVE  RMTypeOK'
<1>1. Receive(r, p, "REPLICAS") /\ chan' = Consumed(r, p)
  BY DEF ReceiveOther
<1>2. chan' \in [Replica -> [Replica -> Seq(Message)]]
  BY <1>1, ReceiveEffect, ConsumedFrom
<1> QED
  BY <1>2 DEF RMTypeOK, ReceiveOther, electionVars

LEMMA ConnectionLostType ==
    ASSUME RMTypeOK, NEW r \in Replica, NEW p \in Replica, ConnectionLost(r, p)
    PROVE  RMTypeOK'
<1>1. /\ conn' = [conn EXCEPT ![r][p] = "closing"]
      /\ startElection' = [startElection EXCEPT
                              ![r] = startElection[r] \/ m_isConnectedToLeader[r][p]]
      /\ UNCHANGED <<pc, id, m_isLeader, m_leaderConn, m_replicasVector, lostElection, next,
                     m_isConnectedToLeader, backlog, chan, serving>>
  BY Zenon DEF ConnectionLost
<1>2. conn' \in [Replica -> [Replica -> ConnPhase]]
  BY <1>1 DEF RMTypeOK, ConnPhase
<1>3. startElection' \in [Replica -> BOOLEAN]
  <2> DEFINE start == startElection[r] \/ m_isConnectedToLeader[r][p]
  <2>1. start \in BOOLEAN
    OBVIOUS
  <2>2. startElection' = [startElection EXCEPT ![r] = start]
    BY <1>1
  <2> HIDE DEF start
  <2> QED
    BY <2>1, <2>2 DEF RMTypeOK
<1> QED
  BY <1>1, <1>2, <1>3 DEF RMTypeOK

LEMMA CloseConnectionType ==
    ASSUME RMTypeOK, NEW r \in Replica, NEW p \in Replica, CloseConnection(r, p)
    PROVE  RMTypeOK'
<1>1. conn' \in [Replica -> [Replica -> ConnPhase]]
  BY DEF RMTypeOK, ConnPhase, CloseConnection
<1> QED
  BY <1>1 DEF RMTypeOK, CloseConnection, electionVars

LEMMA CrashEffect ==
    ASSUME RMTypeOK, NEW r \in Replica, Crash(r)
    PROVE  /\ pc' = [pc EXCEPT ![r] = "crashed"]
           /\ chan' \in [Replica -> [Replica -> Seq(Message)]]
           /\ \A x, y \in Replica :
                 /\ chan'[x][y] = chan[x][y] \/ chan'[x][y] = <<>>
                 /\ y = r => chan'[x][y] = <<>>
                 /\ x # r /\ y # r => chan'[x][y] = chan[x][y]
           /\ backlog' = [backlog EXCEPT ![r] = <<>>]
           /\ UNCHANGED <<id, m_isLeader, m_leaderConn, m_replicasVector, electionVars, conn,
                          m_isConnectedToLeader>>
<1>1. PICK lost \in SUBSET Replica :
         chan' = [q \in Replica |-> [p \in Replica |->
                    IF p = r \/ (q = r /\ p \in lost) THEN <<>> ELSE chan[q][p]]]
  BY DEF Crash
<1>2. chan \in [Replica -> [Replica -> Seq(Message)]] /\ <<>> \in Seq(Message)
  BY EmptySeq DEF RMTypeOK
<1>3. chan' \in [Replica -> [Replica -> Seq(Message)]]
  BY <1>1, <1>2
<1> QED
  BY <1>1, <1>3 DEF Crash

LEMMA CrashType ==
    ASSUME RMTypeOK, NEW r \in Replica, Crash(r)
    PROVE  RMTypeOK'
<1>1. /\ pc' = [pc EXCEPT ![r] = "crashed"]
      /\ chan' \in [Replica -> [Replica -> Seq(Message)]]
      /\ backlog' = [backlog EXCEPT ![r] = <<>>]
      /\ UNCHANGED <<id, m_isLeader, m_leaderConn, m_replicasVector, electionVars, conn,
                     m_isConnectedToLeader>>
  BY CrashEffect
<1>2. pc' \in [Replica -> MainPhase]
  BY <1>1 DEF RMTypeOK, MainPhase
<1>3. backlog' \in [Replica -> Seq(Info)]
  BY <1>1, EmptySeq DEF RMTypeOK
<1>4. serving' = serving \ {r}
  BY DEF Crash
<1> QED
  BY <1>1, <1>2, <1>3, <1>4 DEF RMTypeOK, electionVars

LEMMA TypeStep ==
    ASSUME RMTypeOK, \A r \in Replica : Newcomer(r), [RMNext]_rmVars
    PROVE  RMTypeOK'
<1>1. ASSUME NEW r \in Replica, NEW p \in Replica, Start(r, p)
      PROVE  RMTypeOK'
  BY <1>1, StartType
<1>2. ASSUME NEW r \in Replica, NEW p \in Replica, HandlerStep(r, p)
      PROVE  RMTypeOK'
  BY <1>2, ReceiveElectionType, ReceiveCoordinatorType, ReceiveAnswerType,
     ReceiveOtherType, ConnectionLostType, CloseConnectionType DEF HandlerStep
<1>3. ASSUME NEW r \in Replica, MainStep(r) \/ SpuriousWakeUp(r)
      PROVE  RMTypeOK'
  BY <1>3, SpuriousWakeUpType, AcceptType, ReceiveStateType, HelloUnansweredType, StartElectionType,
     SendElectionType, NobodyLeftToAskType, WaitForAnswerType, AfterAnswerType, DecideType,
     SendCoordinatorType, TakeOverType, ResetElectionType DEF MainStep
<1>4. ASSUME NEW r \in Replica, Crash(r)
      PROVE  RMTypeOK'
  BY <1>4, CrashType
<1>5. CASE UNCHANGED rmVars
  BY <1>5 DEF RMTypeOK, rmVars, electionVars, connVars
<1> QED
  BY <1>1, <1>2, <1>3, <1>4, <1>5 DEF RMNext
-----------------------------------------------------------------------------
(* Newcomers.                                                              *)

\* What a step does not do to a newcomer s: it does not move it, ...
KeepsPlace(s) ==
    /\ pc'[s] \in {"off", "hello"} =>
          /\ pc'[s] = pc[s] /\ m_isLeader'[s] = m_isLeader[s] /\ id'[s] = id[s]
          /\ m_leaderConn'[s] = m_leaderConn[s] /\ conn'[s] = conn[s]
    /\ \A p \in Replica : /\ m_isLeader[p] => m_isLeader'[p]
                          /\ pc[p] = "crashed" => pc'[p] = "crashed"

\* ... it does not put it in a list, of its leader if it has one, ...
NotListedAnew(s) == \A p \in Replica :
    /\ pc'[s] = "off" \/ p = m_leaderConn[s] =>
          (Lists(m_replicasVector'[p], s) => Lists(m_replicasVector[p], s))
    /\ pc'[s] = "off" => (Lists(backlog'[p], s) => Lists(backlog[p], s))

\* ... and it does not send for it, of it, or before the answer of its leader.
ChannelsKept(s) ==
    /\ pc'[s] \in {"off", "hello"} => \A p \in Replica : chan'[s][p] = <<>>
    /\ pc'[s] = "off" => \A p \in Replica :
          /\ chan'[p][s] = <<>>
          /\ \A q \in Replica : \A i \in DOMAIN chan'[p][q] :
                chan'[p][q][i].type = "REPLICAS" => ~Lists(chan'[p][q][i].replicas, s)
    /\ pc'[s] = "hello" =>
          LET leader == m_leaderConn[s]
          IN  \/ chan'[leader][s] = chan[leader][s]
              \/ /\ chan[leader][s] # <<>> /\ chan'[leader][s] # <<>>
                 /\ Head(chan'[leader][s]) = Head(chan[leader][s])
              \/ pc'[leader] = "crashed" /\ chan'[leader][s] = <<>>

LEMMA NewcomerFrame ==
    ASSUME NEW s \in Replica, Newcomer(s), KeepsPlace(s), NotListedAnew(s), ChannelsKept(s)
    PROVE  Newcomer(s)'
<1>1. ASSUME pc'[s] \in {"off", "hello"}
      PROVE  /\ ~m_isLeader'[s] /\ id'[s] = -1
             /\ \A p \in Replica : conn'[s][p] = "none" /\ chan'[s][p] = <<>>
  BY <1>1 DEF Newcomer, KeepsPlace, ChannelsKept
<1>2. ASSUME pc'[s] = "off"
      PROVE  Unknown(s)'
  <2>1. pc[s] = "off" /\ Unknown(s)
    BY <1>2 DEF Newcomer, KeepsPlace
  <2> QED
    BY <1>2, <2>1 DEF Unknown, NotListedAnew, ChannelsKept
<1>3. ASSUME pc'[s] = "hello"
      PROVE  /\ m_leaderConn'[s] \in Replica
             /\ m_isLeader'[m_leaderConn'[s]]
             /\ chan'[m_leaderConn'[s]][s] # <<>> =>
                   Head(chan'[m_leaderConn'[s]][s]).type = "REPLICAS"
             /\ Lists(m_replicasVector'[m_leaderConn'[s]], s) =>
                   pc'[m_leaderConn'[s]] = "crashed" \/ chan'[m_leaderConn'[s]][s] # <<>>
  <2>1. pc[s] = "hello" /\ m_leaderConn'[s] = m_leaderConn[s]
    BY <1>3 DEF KeepsPlace
  <2> DEFINE leader == m_leaderConn[s]
  <2>2. /\ leader \in Replica /\ m_isLeader[leader]
        /\ chan[leader][s] # <<>> => Head(chan[leader][s]).type = "REPLICAS"
        /\ Lists(m_replicasVector[leader], s) => Crashed(leader) \/ chan[leader][s] # <<>>
    BY <2>1 DEF Newcomer
  <2>3. \/ chan'[leader][s] = chan[leader][s]
        \/ /\ chan[leader][s] # <<>> /\ chan'[leader][s] # <<>>
           /\ Head(chan'[leader][s]) = Head(chan[leader][s])
        \/ pc'[leader] = "crashed" /\ chan'[leader][s] = <<>>
    BY <1>3 DEF ChannelsKept
  <2>4. /\ m_isLeader'[leader] /\ (pc[leader] = "crashed" => pc'[leader] = "crashed")
        /\ Lists(m_replicasVector'[leader], s) => Lists(m_replicasVector[leader], s)
    BY <2>2 DEF KeepsPlace, NotListedAnew
  <2> HIDE DEF leader
  <2>5. /\ leader \in Replica /\ m_isLeader'[leader]
        /\ chan'[leader][s] # <<>> => Head(chan'[leader][s]).type = "REPLICAS"
        /\ Lists(m_replicasVector'[leader], s) =>
              pc'[leader] = "crashed" \/ chan'[leader][s] # <<>>
    BY <2>2, <2>3, <2>4 DEF Crashed
  <2> QED
    BY <2>1, <2>5 DEF leader
<1> QED
  BY <1>1, <1>2, <1>3 DEF Newcomer, Crashed

LEMMA ChannelsUnchanged ==
    ASSUME NEW s \in Replica, Newcomer(s), KeepsPlace(s), UNCHANGED chan
    PROVE  ChannelsKept(s)
BY DEF Newcomer, KeepsPlace, ChannelsKept, Unknown

LEMMA ChannelsConsumed ==
    ASSUME RMTypeOK, NEW s \in Replica, Newcomer(s), KeepsPlace(s),
           NEW r \in Replica, NEW p \in Replica, chan[p][r] # <<>>,
           pc'[s] = "hello" => s # r,
           chan' = Consumed(r, p)
    PROVE  ChannelsKept(s)
<1>1. \A x, y \in Replica :
         chan'[x][y] = IF x = p /\ y = r THEN Tail(chan[x][y]) ELSE chan[x][y]
  BY ConsumedFrom
<1>2. /\ DOMAIN Tail(chan[p][r]) \in SUBSET Int
      /\ \A i \in DOMAIN Tail(chan[p][r]) :
            i + 1 \in DOMAIN chan[p][r] /\ Tail(chan[p][r])[i] = chan[p][r][i + 1]
  <2>1. chan[p][r] \in Seq(Message)
    BY DEF RMTypeOK
  <2> QED
    BY <2>1, Received
<1>3. ASSUME pc'[s] \in {"off", "hello"}, NEW y \in Replica
      PROVE  chan'[s][y] = <<>>
  <2>1. chan[s][y] = <<>>
    BY <1>3 DEF Newcomer, KeepsPlace
  <2> QED
    BY <1>1, <2>1
<1>4. ASSUME pc'[s] = "off", NEW x \in Replica
      PROVE  /\ chan'[x][s] = <<>>
             /\ \A y \in Replica : \A i \in DOMAIN chan'[x][y] :
                   chan'[x][y][i].type = "REPLICAS" => ~Lists(chan'[x][y][i].replicas, s)
  <2>1. Unknown(s)
    BY <1>4 DEF Newcomer, KeepsPlace
  <2>2. chan[x][s] = <<>>
    BY <2>1 DEF Unknown
  <2>3. ASSUME NEW y \in Replica, NEW i \in DOMAIN chan'[x][y]
        PROVE  \E j \in DOMAIN chan[x][y] : chan'[x][y][i] = chan[x][y][j]
    <3>1. CASE x = p /\ y = r
      <4>1. chan'[x][y] = Tail(chan[p][r])
        BY <1>1, <3>1
      <4> QED
        BY <1>2, <3>1, <4>1
    <3>2. CASE ~(x = p /\ y = r)
      BY <1>1, <3>2
    <3> QED
      BY <3>1, <3>2
  <2>4. \A y \in Replica : \A j \in DOMAIN chan[x][y] :
           chan[x][y][j].type = "REPLICAS" => ~Lists(chan[x][y][j].replicas, s)
    BY <2>1 DEF Unknown
  <2> QED
    BY <1>1, <2>2, <2>3, <2>4
<1>5. ASSUME pc'[s] = "hello"
      PROVE  chan'[m_leaderConn[s]][s] = chan[m_leaderConn[s]][s]
  <2>1. m_leaderConn[s] \in Replica
    BY <1>5 DEF Newcomer, KeepsPlace
  <2> QED
    BY <1>1, <1>5, <2>1
<1> QED
  BY <1>3, <1>4, <1>5 DEF ChannelsKept

\* Appending a message m from r to p, who may be the newcomer only if there is
\* something for it already; m is not about the newcomer.
LEMMA ChannelsAppended ==
    ASSUME RMTypeOK, NEW s \in Replica, Newcomer(s), KeepsPlace(s),
           NEW r \in Replica, pc'[s] \in {"off", "hello"} => s # r,
           NEW m \in Message,
           m.type = "REPLICAS" /\ pc'[s] = "off" => ~Lists(m.replicas, s),
           NEW To \in SUBSET Replica,
           pc'[s] = "off" => s \notin To,
           pc'[s] = "hello" /\ r = m_leaderConn[s] /\ s \in To => chan[r][s] # <<>>,
           \A x, y \in Replica :
              chan'[x][y] = IF x = r /\ y \in To THEN Append(chan[x][y], m) ELSE chan[x][y]
    PROVE  ChannelsKept(s)
<1>1. ASSUME NEW x \in Replica, NEW y \in Replica
      PROVE  /\ Append(chan[x][y], m) # <<>>
             /\ DOMAIN chan[x][y] = 1 .. Len(chan[x][y]) /\ Len(chan[x][y]) \in Nat
             /\ DOMAIN Append(chan[x][y], m) = 1 .. Len(chan[x][y]) + 1
             /\ \A i \in 1 .. Len(chan[x][y]) : Append(chan[x][y], m)[i] = chan[x][y][i]
             /\ Append(chan[x][y], m)[Len(chan[x][y]) + 1] = m
             /\ chan[x][y] # <<>> => Head(Append(chan[x][y], m)) = Head(chan[x][y])
  <2>1. chan[x][y] \in Seq(Message)
    BY DEF RMTypeOK
  <2> QED
    BY <2>1, Appended
<1>2. ASSUME NEW x \in Replica, NEW y \in Replica, NEW i \in DOMAIN chan'[x][y]
      PROVE  \/ chan'[x][y][i] = m
             \/ \E j \in DOMAIN chan[x][y] : chan'[x][y][i] = chan[x][y][j]
  <2>1. CASE x = r /\ y \in To
    <3>1. chan'[x][y] = Append(chan[x][y], m) /\ i \in 1 .. Len(chan[x][y]) + 1
      <4>1. chan'[x][y] = Append(chan[x][y], m)
        BY <2>1
      <4>2. DOMAIN Append(chan[x][y], m) = 1 .. Len(chan[x][y]) + 1
        BY <1>1
      <4> QED
        BY <4>1, <4>2
    <3>2. i \in 1 .. Len(chan[x][y]) \/ i = Len(chan[x][y]) + 1
      BY <1>1, <3>1
    <3> QED
      BY <1>1, <3>1, <3>2
  <2> QED
    BY <2>1
<1>3. ASSUME pc'[s] \in {"off", "hello"}, NEW y \in Replica
      PROVE  chan'[s][y] = <<>>
  BY <1>3 DEF Newcomer, KeepsPlace
<1>4. ASSUME pc'[s] = "off", NEW x \in Replica
      PROVE  /\ chan'[x][s] = <<>>
             /\ \A y \in Replica : \A i \in DOMAIN chan'[x][y] :
                   chan'[x][y][i].type = "REPLICAS" => ~Lists(chan'[x][y][i].replicas, s)
  <2>1. Unknown(s)
    BY <1>4 DEF Newcomer, KeepsPlace
  <2>2. chan[x][s] = <<>>
    BY <2>1 DEF Unknown
  <2>3. \A y \in Replica : \A j \in DOMAIN chan[x][y] :
           chan[x][y][j].type = "REPLICAS" => ~Lists(chan[x][y][j].replicas, s)
    BY <2>1 DEF Unknown
  <2> QED
    BY <1>2, <1>4, <2>2, <2>3
<1>5. ASSUME pc'[s] = "hello"
      PROVE  LET leader == m_leaderConn[s]
             IN  \/ chan'[leader][s] = chan[leader][s]
                 \/ /\ chan[leader][s] # <<>> /\ chan'[leader][s] # <<>>
                    /\ Head(chan'[leader][s]) = Head(chan[leader][s])
  <2> DEFINE leader == m_leaderConn[s]
  <2>1. leader \in Replica
    BY <1>5 DEF Newcomer, KeepsPlace
  <2>2. leader = r /\ s \in To => chan[leader][s] # <<>>
    BY <1>5
  <2> HIDE DEF leader
  <2>3. \/ chan'[leader][s] = chan[leader][s]
        \/ /\ chan[leader][s] # <<>> /\ chan'[leader][s] # <<>>
           /\ Head(chan'[leader][s]) = Head(chan[leader][s])
    <3>1. CASE leader = r /\ s \in To
      <4>1. chan'[leader][s] = Append(chan[leader][s], m) /\ chan[leader][s] # <<>>
        BY <2>1, <2>2, <3>1
      <4>2. /\ Append(chan[leader][s], m) # <<>>
            /\ chan[leader][s] # <<>> => Head(Append(chan[leader][s], m)) = Head(chan[leader][s])
        BY <1>1, <2>1
      <4> QED
        BY <4>1, <4>2
    <3>2. CASE ~(leader = r /\ s \in To)
      BY <2>1, <3>2
    <3> QED
      BY <3>1, <3>2
  <2> QED
    BY <2>3 DEF leader
<1> QED
  BY <1>3, <1>4, <1>5 DEF ChannelsKept
\* A step of r, which is neither before nor after the step a newcomer.
LEMMA PlacesKept ==
    ASSUME RMTypeOK, NEW s \in Replica, NEW r \in Replica, NEW phase,
           phase \notin {"off", "hello"}, pc[r] # "crashed",
           pc' = [pc EXCEPT ![r] = phase],
           \A x \in Replica : x # r =>
              /\ id'[x] = id[x] /\ m_isLeader'[x] = m_isLeader[x]
              /\ m_leaderConn'[x] = m_leaderConn[x] /\ conn'[x] = conn[x],
           m_isLeader[r] => m_isLeader'[r]
    PROVE  KeepsPlace(s)
<1>1. pc \in [Replica -> MainPhase]
  BY DEF RMTypeOK
<1>2. pc'[r] = phase /\ \A x \in Replica : x # r => pc'[x] = pc[x]
  BY <1>1
<1> QED
  BY <1>2 DEF KeepsPlace

LEMMA ListsUnchanged ==
    ASSUME NEW s \in Replica, UNCHANGED <<m_replicasVector, backlog>>
    PROVE  NotListedAnew(s)
BY DEF NotListedAnew

\* The owner of an open connection is no newcomer.
LEMMA HandlersOwner ==
    ASSUME RMTypeOK, NEW r \in Replica, NEW p \in Replica, Newcomer(r), conn[r][p] # "none"
    PROVE  pc[r] \notin {"off", "hello"}
BY DEF Newcomer

LEMMA HandlersPlacesKept ==
    ASSUME RMTypeOK, NEW s \in Replica, NEW r \in Replica, NEW p \in Replica,
           Newcomer(r), conn[r][p] # "none", Alive(r),
           UNCHANGED <<pc, id, m_isLeader, m_leaderConn>>,
           \A x \in Replica : x # r => conn'[x] = conn[x]
    PROVE  KeepsPlace(s)
<1>1. pc[r] \notin {"off", "hello", "crashed"}
  BY HandlersOwner DEF Alive
<1>2. pc' = [pc EXCEPT ![r] = pc[r]]
  BY DEF RMTypeOK
<1> QED
  BY <1>1, <1>2, PlacesKept

LEMMA StartNewcomer ==
    ASSUME RMTypeOK, \A q \in Replica : Newcomer(q), NEW s \in Replica,
           NEW r \in Replica, NEW p \in Replica, Start(r, p)
    PROVE  Newcomer(s)'
<1>1. /\ pc[r] = "off" /\ m_isLeader[p]
      /\ \/ /\ pc' = [pc EXCEPT ![r] = "hello"]
            /\ m_leaderConn' = [m_leaderConn EXCEPT ![r] = p]
            /\ backlog' = [backlog EXCEPT ![p] = Append(@, [peer |-> r, id |-> id[r]])]
         \/ pc' = [pc EXCEPT ![r] = "loop"] /\ UNCHANGED <<m_leaderConn, backlog>>
      /\ UNCHANGED <<id, m_isLeader, m_replicasVector, conn, chan>>
  BY DEF Start, electionVars
<1>2. pc \in [Replica -> MainPhase] /\ m_leaderConn \in [Replica -> Replica \cup {NULL}]
      /\ backlog \in [Replica -> Seq(Info)]
  BY DEF RMTypeOK
<1>3. Unknown(r) /\ Newcomer(r)
  BY <1>1 DEF Newcomer
<1>4. CASE s = r
  <2>1. /\ ~m_isLeader'[r] /\ id'[r] = -1
        /\ \A q \in Replica : conn'[r][q] = "none" /\ chan'[r][q] = <<>>
    BY <1>1, <1>3 DEF Newcomer
  <2>2. pc'[r] \in {"hello", "loop"}
    BY <1>1, <1>2
  <2>3. ASSUME pc'[r] = "hello"
        PROVE  m_leaderConn'[r] = p
    BY <1>1, <1>2, <2>3
  <2>4. m_isLeader'[p] /\ chan'[p][r] = <<>> /\ ~Lists(m_replicasVector'[p], r)
    BY <1>1, <1>3 DEF Unknown
  <2> QED
    BY <1>4, <2>1, <2>2, <2>3, <2>4 DEF Newcomer
<1>5. CASE s # r
  <2>1. pc'[s] = pc[s] /\ m_leaderConn'[s] = m_leaderConn[s]
    BY <1>1, <1>2, <1>5
  <2>2. \A q \in Replica : pc[q] = "crashed" => pc'[q] = "crashed"
    BY <1>1, <1>2
  <2>3. KeepsPlace(s)
    BY <1>1, <2>1, <2>2 DEF KeepsPlace
  <2>4. ASSUME NEW q \in Replica, Lists(backlog'[q], s)
        PROVE  Lists(backlog[q], s)
    <3>1. /\ Len(backlog[q]) \in Nat /\ DOMAIN backlog[q] = 1 .. Len(backlog[q])
          /\ LET new == Append(backlog[q], [peer |-> r, id |-> id[r]])
             IN  /\ DOMAIN new = 1 .. Len(backlog[q]) + 1
                 /\ \A i \in 1 .. Len(backlog[q]) : new[i] = backlog[q][i]
                 /\ new[Len(backlog[q]) + 1].peer = r
      <4>1. [peer |-> r, id |-> id[r]] \in Info /\ backlog[q] \in Seq(Info)
        BY DEF RMTypeOK, Info
      <4> QED
        BY <4>1, Appended
    <3>2. backlog'[q] \in {backlog[q], Append(backlog[q], [peer |-> r, id |-> id[r]])}
      BY <1>1, <1>2
    <3> DEFINE new == Append(backlog[q], [peer |-> r, id |-> id[r]])
    <3>3. Lists(new, s) => Lists(backlog[q], s)
      <4> HIDE DEF new
      <4> SUFFICES ASSUME NEW i \in DOMAIN new, new[i].peer = s
                   PROVE  \E j \in DOMAIN backlog[q] : backlog[q][j].peer = s
        BY DEF Lists
      <4>1. i # Len(backlog[q]) + 1
        BY <1>5, <3>1 DEF new
      <4>2. i \in 1 .. Len(backlog[q])
        BY <3>1, <4>1 DEF new
      <4> QED
        BY <3>1, <4>2 DEF new
    <3> QED
      BY <2>4, <3>2, <3>3
  <2>5. NotListedAnew(s)
    BY <1>1, <2>4 DEF NotListedAnew
  <2> QED
    BY <1>1, <2>3, <2>5, ChannelsUnchanged, NewcomerFrame
<1> QED
  BY <1>4, <1>5

LEMMA ReceiveElectionNewcomer ==
    ASSUME RMTypeOK, \A q \in Replica : Newcomer(q), NEW s \in Replica,
           NEW r \in Replica, NEW p \in Replica, ReceiveElection(r, p)
    PROVE  Newcomer(s)'
<1>1. /\ chan[p][r] # <<>> /\ chan[p][r] \in Seq(Message)
      /\ conn[r][p] = "open" /\ Alive(r)
  BY ReceiveEffect DEF ReceiveElection
<1>2. KeepsPlace(s) /\ NotListedAnew(s)
  BY <1>1, HandlersPlacesKept, ListsUnchanged DEF ReceiveElection
<1> DEFINE answer == Answer(~(Head(chan[p][r]).id < id[r]))
<1>3. /\ answer \in Message /\ answer.type = "ANSWER"
      /\ chan' \in [Replica -> [Replica -> Seq(Message)]]
      /\ \A x, y \in Replica : chan'[x][y] =
            IF x = r /\ y = p /\ Reaches(r, p)
            THEN Append(Consumed(r, p)[x][y], answer) ELSE Consumed(r, p)[x][y]
  BY ReceiveElectionEffect
<1>4. /\ Consumed(r, p) \in [Replica -> [Replica -> Seq(Message)]]
      /\ \A x, y \in Replica : Consumed(r, p)[x][y] =
            IF x = p /\ y = r THEN Tail(chan[x][y]) ELSE chan[x][y]
  BY <1>1, ConsumedFrom
<1> HIDE DEF answer
<1>5. ASSUME NEW x \in Replica, NEW y \in Replica, NEW i \in DOMAIN chan'[x][y]
      PROVE  \/ chan'[x][y][i].type = "ANSWER"
             \/ \E j \in DOMAIN chan[x][y] : chan'[x][y][i] = chan[x][y][j]
  <2> DEFINE rest == Consumed(r, p)[x][y]
  <2>1. rest \in Seq(Message)
    BY <1>4
  <2>2. \A k \in DOMAIN rest : \E j \in DOMAIN chan[x][y] : rest[k] = chan[x][y][j]
    <3>1. CASE x = p /\ y = r
      <4>1. rest = Tail(chan[p][r])
        BY <1>4, <3>1
      <4>2. \A k \in DOMAIN Tail(chan[p][r]) :
               k + 1 \in DOMAIN chan[p][r] /\ Tail(chan[p][r])[k] = chan[p][r][k + 1]
        BY <1>1, Received
      <4> QED
        BY <3>1, <4>1, <4>2
    <3>2. CASE ~(x = p /\ y = r)
      BY <1>4, <3>2
    <3> QED
      BY <3>1, <3>2
  <2>3. chan'[x][y] = rest \/ chan'[x][y] = Append(rest, answer)
    BY <1>3
  <2> HIDE DEF rest
  <2>4. /\ Len(rest) \in Nat /\ DOMAIN rest = 1 .. Len(rest)
        /\ DOMAIN Append(rest, answer) = 1 .. Len(rest) + 1
        /\ \A k \in 1 .. Len(rest) : Append(rest, answer)[k] = rest[k]
        /\ Append(rest, answer)[Len(rest) + 1] = answer
    BY <1>3, <2>1, Appended
  <2>5. CASE chan'[x][y] = rest
    BY <2>2, <2>5
  <2>6. CASE chan'[x][y] = Append(rest, answer)
    <3>1. i \in 1 .. Len(rest) \/ i = Len(rest) + 1
      BY <2>4, <2>6
    <3>2. CASE i \in 1 .. Len(rest)
      <4>1. i \in DOMAIN rest /\ chan'[x][y][i] = rest[i]
        BY <2>4, <2>6, <3>2
      <4> QED
        BY <2>2, <4>1
    <3>3. CASE i = Len(rest) + 1
      <4>1. chan'[x][y][i] = answer
        BY <2>4, <2>6, <3>3
      <4> QED
        BY <1>3, <4>1
    <3> QED
      BY <3>1, <3>2, <3>3
  <2> QED
    BY <2>3, <2>5, <2>6
<1>6. ASSUME pc'[s] \in {"off", "hello"}
      PROVE  /\ s # r /\ s # p /\ pc[s] = pc'[s]
             /\ \A x \in Replica : chan'[x][s] = chan[x][s] /\ chan'[s][x] = chan[s][x]
  <2>1. pc[s] = pc'[s]
    BY <1>2, <1>6 DEF KeepsPlace
  <2>2. s # r
    BY <1>1, <1>6, <2>1, HandlersOwner
  <2>3. s # p
    BY <1>1, <1>6, <2>1 DEF Newcomer
  <2> QED
    BY <1>3, <1>4, <2>1, <2>2, <2>3
<1>7. ASSUME pc'[s] = "off", NEW x \in Replica, NEW y \in Replica, NEW i \in DOMAIN chan'[x][y],
             chan'[x][y][i].type = "REPLICAS"
      PROVE  ~Lists(chan'[x][y][i].replicas, s)
  <2>1. Unknown(s)
    BY <1>6, <1>7 DEF Newcomer
  <2>2. PICK j \in DOMAIN chan[x][y] : chan'[x][y][i] = chan[x][y][j]
    BY <1>5, <1>7
  <2> QED
    BY <1>7, <2>1, <2>2 DEF Unknown
<1>8. pc'[s] \in {"off", "hello"} => \A y \in Replica : chan'[s][y] = <<>>
  BY <1>6 DEF Newcomer
<1>9. pc'[s] = "off" => \A x \in Replica : chan'[x][s] = <<>>
  BY <1>6 DEF Newcomer, Unknown
<1>10. pc'[s] = "hello" => chan'[m_leaderConn[s]][s] = chan[m_leaderConn[s]][s]
  BY <1>6 DEF Newcomer
<1>11. ChannelsKept(s)
  BY <1>7, <1>8, <1>9, <1>10 DEF ChannelsKept
<1> QED
  BY <1>2, <1>11, NewcomerFrame

\* The other handler steps.
LEMMA HandlerNewcomer ==
    ASSUME RMTypeOK, \A q \in Replica : Newcomer(q), NEW s \in Replica,
           NEW r \in Replica, NEW p \in Replica, HandlerStep(r, p)
    PROVE  Newcomer(s)'
<1>1. ASSUME NEW type, Receive(r, p, type)
      PROVE  /\ chan[p][r] # <<>> /\ conn[r][p] = "open" /\ Alive(r)
             /\ pc[r] \notin {"off", "hello", "crashed"}
  BY <1>1, HandlersOwner DEF Receive, Alive
<1>2. ASSUME Receive(r, p, "COORDINATOR") \/ Receive(r, p, "REPLICAS") \/ Receive(r, p, "ANSWER"),
             KeepsPlace(s), chan' = Consumed(r, p)
      PROVE  ChannelsKept(s)
  <2>1. chan[p][r] # <<>> /\ pc[r] \notin {"off", "hello", "crashed"}
    BY <1>1, <1>2
  <2>2. pc'[s] = "hello" => s # r
    BY <1>2, <2>1 DEF KeepsPlace
  <2> QED
    BY <1>2, <2>1, <2>2, ChannelsConsumed
<1>3. CASE ReceiveCoordinator(r, p)
  <2>1. /\ Receive(r, p, "COORDINATOR") /\ chan' = Consumed(r, p)
        /\ UNCHANGED <<pc, id, m_isLeader, m_leaderConn, m_replicasVector, conn, backlog>>
    BY <1>3 DEF ReceiveCoordinator
  <2>2. KeepsPlace(s) /\ NotListedAnew(s)
    BY <1>1, <2>1, HandlersPlacesKept, ListsUnchanged
  <2> QED
    BY <1>2, <2>1, <2>2, NewcomerFrame
<1>4. CASE ReceiveOther(r, p)
  <2>1. /\ Receive(r, p, "REPLICAS") /\ chan' = Consumed(r, p)
        /\ UNCHANGED <<pc, id, m_isLeader, m_leaderConn, m_replicasVector, conn, backlog>>
    BY <1>4 DEF ReceiveOther
  <2>2. KeepsPlace(s) /\ NotListedAnew(s)
    BY <1>1, <2>1, HandlersPlacesKept, ListsUnchanged
  <2> QED
    BY <1>2, <2>1, <2>2, NewcomerFrame
<1>5. CASE ReceiveAnswer(r, p)
  <2> DEFINE phase == IF pc[r] = "waiting" THEN "woken" ELSE pc[r]
  <2>1. /\ Receive(r, p, "ANSWER") /\ chan' = Consumed(r, p)
        /\ pc' = [pc EXCEPT ![r] = phase]
        /\ UNCHANGED <<id, m_isLeader, m_leaderConn, m_replicasVector, conn, backlog>>
    BY <1>5, ReceiveAnswerEffect DEF ReceiveAnswer
  <2>2. pc[r] \notin {"off", "hello", "crashed"} /\ phase \notin {"off", "hello"}
    BY <1>1, <2>1
  <2> HIDE DEF phase
  <2>3. KeepsPlace(s) /\ NotListedAnew(s)
    BY <2>1, <2>2, PlacesKept, ListsUnchanged
  <2> QED
    BY <1>2, <2>1, <2>3, NewcomerFrame
<1>6. CASE ConnectionLost(r, p) \/ CloseConnection(r, p)
  <2>1. /\ Alive(r) /\ conn[r][p] # "none" /\ UNCHANGED chan
        /\ UNCHANGED <<pc, id, m_isLeader, m_leaderConn, m_replicasVector, backlog>>
        /\ \E phase : conn' = [conn EXCEPT ![r][p] = phase]
    BY <1>6 DEF ConnectionLost, CloseConnection
  <2>2. \A x \in Replica : x # r => conn'[x] = conn[x]
    BY <2>1 DEF RMTypeOK
  <2>3. KeepsPlace(s) /\ NotListedAnew(s)
    BY <2>1, <2>2, HandlersPlacesKept, ListsUnchanged
  <2> QED
    BY <2>1, <2>3, ChannelsUnchanged, NewcomerFrame
<1> QED
  BY <1>3, <1>4, <1>5, <1>6, ReceiveElectionNewcomer DEF HandlerStep
LEMMA ListsAppend ==
    ASSUME NEW list \in Seq(Info), NEW info \in Info, NEW p
    PROVE  Lists(Append(list, info), p) <=> Lists(list, p) \/ info.peer = p
<1>1. /\ Len(list) \in Nat /\ DOMAIN list = 1 .. Len(list)
      /\ DOMAIN Append(list, info) = 1 .. Len(list) + 1
      /\ \A i \in 1 .. Len(list) : Append(list, info)[i] = list[i]
      /\ Append(list, info)[Len(list) + 1] = info
  BY Appended
<1> DEFINE n == Len(list)
           longer == Append(list, info)
<1> HIDE DEF n, longer
<1>2. /\ n \in Nat /\ DOMAIN list = 1 .. n /\ DOMAIN longer = 1 .. n + 1
      /\ \A i \in 1 .. n : longer[i] = list[i]
      /\ longer[n + 1] = info
  BY <1>1 DEF n, longer
<1>3. \A i \in 1 .. n + 1 : i \in 1 .. n \/ i = n + 1
  BY <1>2
<1>4. (\E i \in DOMAIN longer : longer[i].peer = p) <=>
         (\E i \in DOMAIN list : list[i].peer = p) \/ info.peer = p
  BY <1>2, <1>3
<1> QED
  BY <1>4 DEF Lists, longer

LEMMA ListsTail ==
    ASSUME NEW list \in Seq(Info), list # <<>>, NEW p, Lists(Tail(list), p)
    PROVE  Lists(list, p)
<1>1. \A i \in DOMAIN Tail(list) : i + 1 \in DOMAIN list /\ Tail(list)[i] = list[i + 1]
  BY Received
<1> QED
  BY <1>1 DEF Lists

LEMMA AcceptNewcomer ==
    ASSUME RMTypeOK, \A q \in Replica : Newcomer(q), NEW s \in Replica,
           NEW r \in Replica, Accept(r)
    PROVE  Newcomer(s)'
<1> DEFINE hello == Head(backlog[r])
           known == OpenReplicas(r)
           newId == IF m_isLeader[r] THEN Len(known) ELSE hello.id
           info  == [peer |-> hello.peer, id |-> newId]
           msg   == Replicas(newId, known)
           To    == IF m_isLeader[r] /\ Reaches(r, hello.peer) THEN {hello.peer} ELSE {}
<1>1. /\ backlog[r] # <<>> /\ hello = backlog[r][1] /\ hello \in Info
      /\ info \in Info /\ known \in Seq(Info)
      /\ m_isLeader[r] => msg \in Message /\ msg.type = "REPLICAS" /\ msg.replicas = known
  <2>1. /\ backlog[r] # <<>> /\ hello = backlog[r][1] /\ hello \in Info
        /\ info \in Info /\ known \in Seq(Info)
        /\ newId \in Id /\ (m_isLeader[r] => newId \in Nat)
    BY AcceptEffect
  <2> HIDE DEF hello, newId, known
  <2> QED
    BY <2>1, SentMessages
<1>2. hello.peer \in Replica /\ info.peer = hello.peer
  BY <1>1 DEF Info
<1>0. /\ pc[r] = "loop" /\ pc'[r] \in {"loop", "flagged"}
      /\ \A x \in Replica : x # r => pc'[x] = pc[x]
  BY DEF Accept, Goto, RMTypeOK
<1>3. /\ m_replicasVector' = [m_replicasVector EXCEPT ![r] = Append(known, info)]
      /\ conn' = [conn EXCEPT ![r][hello.peer] = "open"]
      /\ chan' = IF m_isLeader[r] THEN Sent(r, hello.peer, msg) ELSE chan
      /\ backlog' = [backlog EXCEPT ![r] = Tail(@)]
      /\ UNCHANGED <<id, m_isLeader, m_leaderConn>>
  BY DEF Accept
<1>4. Lists(backlog[r], hello.peer)
  <2>1. 1 \in DOMAIN backlog[r]
    BY <1>1, Received DEF RMTypeOK
  <2> QED
    BY <1>1, <2>1 DEF Lists
<1>5. \A q : Lists(known, q) => Lists(m_replicasVector[r], q)
  BY OpenReplicasAreListed
<1> HIDE DEF hello, known, newId, info, msg
<1>6. \A x, y \in Replica :
         chan'[x][y] = IF x = r /\ y \in To THEN Append(chan[x][y], msg) ELSE chan[x][y]
  <2>1. CASE m_isLeader[r]
    <3> DEFINE peer == hello.peer
    <3>1. peer \in Replica /\ msg \in Message /\ chan' = Sent(r, peer, msg)
      BY <1>1, <1>2, <1>3, <2>1
    <3>2. \A y : y \in To <=> y = peer /\ Reaches(r, peer)
      BY <2>1
    <3> HIDE DEF peer, To
    <3>3. \A x, y \in Replica : Sent(r, peer, msg)[x][y] =
             IF x = r /\ y = peer /\ Reaches(r, peer) THEN Append(chan[x][y], msg)
                                                      ELSE chan[x][y]
      BY <3>1, SentTo
    <3> QED
      BY <3>1, <3>2, <3>3
  <2>2. CASE ~m_isLeader[r]
    BY <1>3, <2>2
  <2> QED
    BY <2>1, <2>2
<1>7. \A x \in Replica : x # r => conn'[x] = conn[x]
  BY <1>3 DEF RMTypeOK
<1>8. /\ m_replicasVector'[r] = Append(known, info)
      /\ \A x \in Replica : x # r => m_replicasVector'[x] = m_replicasVector[x]
  BY <1>3 DEF RMTypeOK
<1>9. To \in SUBSET Replica
  BY <1>2
<1>10. CASE s = hello.peer
  <2>1. ~Unknown(s)
    BY <1>4, <1>10 DEF Unknown
  <2>2. /\ Newcomer(s) /\ pc[s] # "off"
        /\ IF s = r THEN pc'[s] \in {"loop", "flagged"} ELSE pc'[s] = pc[s]
    BY <1>0, <2>1 DEF Newcomer
  <2>3. CASE pc[s] = "hello"
    <3> DEFINE leader == m_leaderConn[s]
    <3>1. /\ s # r /\ ~m_isLeader'[s] /\ id'[s] = -1
          /\ \A q \in Replica : conn'[s][q] = "none" /\ chan'[s][q] = <<>>
      BY <1>0, <1>3, <1>6, <1>7, <2>2, <2>3 DEF Newcomer
    <3>2. /\ leader \in Replica /\ m_isLeader[leader] /\ m_isLeader'[leader]
          /\ m_leaderConn'[s] = leader
          /\ chan[leader][s] # <<>> => Head(chan[leader][s]).type = "REPLICAS"
          /\ Lists(m_replicasVector[leader], s) => Crashed(leader) \/ chan[leader][s] # <<>>
      BY <1>3, <2>2, <2>3 DEF Newcomer
    <3> HIDE DEF leader
    <3>3. /\ chan'[leader][s] # <<>> => Head(chan'[leader][s]).type = "REPLICAS"
          /\ Lists(m_replicasVector'[leader], s) =>
                pc'[leader] = "crashed" \/ chan'[leader][s] # <<>>
      <4>1. CASE leader = r
        <5>1. Reaches(r, s)
          BY <2>2, <2>3 DEF Reaches, Crashed, Newcomer
        <5>2. chan'[r][s] = Append(chan[r][s], msg) /\ msg \in Message /\ msg.type = "REPLICAS"
          BY <1>1, <1>6, <1>10, <3>2, <4>1, <5>1
        <5>3. chan[r][s] \in Seq(Message)
          BY DEF RMTypeOK
        <5>4. /\ Append(chan[r][s], msg) # <<>>
              /\ chan[r][s] # <<>> => Head(Append(chan[r][s], msg)) = Head(chan[r][s])
              /\ chan[r][s] = <<>> => Head(Append(chan[r][s], msg)) = msg
          BY <5>2, <5>3, Appended
        <5> QED
          BY <3>2, <4>1, <5>2, <5>4
      <4>2. CASE leader # r
        BY <1>0, <1>3, <1>6, <1>8, <3>2, <4>2 DEF Crashed
      <4> QED
        BY <4>1, <4>2
    <3>4. pc'[s] = "hello" /\ m_leaderConn'[s] = leader
      BY <2>2, <2>3, <3>1, <3>2
    <3> QED
      BY <3>1, <3>2, <3>3, <3>4 DEF Newcomer, Crashed
  <2>4. CASE pc[s] # "hello"
    BY <2>2, <2>4 DEF Newcomer
  <2> QED
    BY <2>3, <2>4
<1>11. CASE s # hello.peer
  <2>1. KeepsPlace(s)
    <3>1. s = r => pc'[s] \notin {"off", "hello"}
      BY <1>0
    <3>2. s # r => pc'[s] = pc[s] /\ conn'[s] = conn[s]
      BY <1>0, <1>7
    <3>3. \A p \in Replica : pc[p] = "crashed" => pc'[p] = "crashed"
      BY <1>0
    <3> QED
      BY <1>3, <3>1, <3>2, <3>3 DEF KeepsPlace
  <2>2. ASSUME Lists(m_replicasVector'[r], s)
        PROVE  Lists(m_replicasVector[r], s)
    BY <1>1, <1>2, <1>5, <1>8, <1>11, <2>2, ListsAppend
  <2>3. ASSUME NEW q \in Replica, Lists(backlog'[q], s)
        PROVE  Lists(backlog[q], s)
    <3>1. backlog[q] \in Seq(Info)
      BY DEF RMTypeOK
    <3>2. CASE q = r
      <4>1. backlog'[q] = Tail(backlog[q]) /\ backlog[q] # <<>>
        BY <1>1, <1>3, <3>2 DEF RMTypeOK
      <4> QED
        BY <2>3, <3>1, <4>1, ListsTail
    <3>3. CASE q # r
      BY <1>3, <2>3, <3>3 DEF RMTypeOK
    <3> QED
      BY <3>2, <3>3
  <2>4. NotListedAnew(s)
    BY <1>8, <2>2, <2>3 DEF NotListedAnew
  <2>5. ChannelsKept(s)
    <3>1. CASE m_isLeader[r]
      <4>1. pc'[s] \in {"off", "hello"} => s # r
        BY <1>0
      <4>2. pc'[s] = "off" => ~Lists(msg.replicas, s)
        BY <1>0, <1>1, <1>5, <3>1 DEF Newcomer, Unknown
      <4>3. s \notin To
        BY <1>11
      <4> HIDE DEF To
      <4> QED
        BY <1>1, <1>6, <1>9, <2>1, <3>1, <4>1, <4>2, <4>3, ChannelsAppended
    <3>2. CASE ~m_isLeader[r]
      BY <1>3, <2>1, <3>2, ChannelsUnchanged
    <3> QED
      BY <3>1, <3>2
  <2> QED
    BY <2>1, <2>4, <2>5, NewcomerFrame
<1> QED
  BY <1>10, <1>11
LEMMA ReceiveStateNewcomer ==
    ASSUME RMTypeOK, \A q \in Replica : Newcomer(q), NEW s \in Replica,
           NEW r \in Replica, ReceiveState(r)
    PROVE  Newcomer(s)'
<1> DEFINE leader == m_leaderConn[r]
           state  == Head(chan[leader][r])
           infos  == Running(state.replicas)
           info   == [peer |-> r, id |-> state.id]
<1>1. /\ leader \in Replica
      /\ pc[r] = "hello" /\ pc' = [pc EXCEPT ![r] = "loop"]
      /\ chan[leader][r] # <<>>
      /\ state.id \in Nat /\ infos \in Seq(Info)
      /\ \A p : Lists(infos, p) => Alive(p)
      /\ id' = [id EXCEPT ![r] = state.id]
      /\ m_replicasVector' = [m_replicasVector EXCEPT ![r] = infos]
      /\ conn' = [conn EXCEPT ![r] = [p \in Replica |->
                     IF p = leader \/ Lists(infos, p) THEN "open" ELSE conn[r][p]]]
      /\ backlog' = [p \in Replica |->
            IF Lists(infos, p) THEN Append(backlog[p], info) ELSE backlog[p]]
      /\ chan' = Consumed(r, leader)
  BY ReceiveStateEffect
<1>2. UNCHANGED <<m_isLeader, m_leaderConn>>
  BY DEF ReceiveState
<1>3. info \in Info /\ info.peer = r
  BY <1>1 DEF Info, Id
<1>4. ~m_isLeader[r]
  BY <1>1 DEF Newcomer
<1> HIDE DEF leader, state, infos, info
<1>5. pc'[r] = "loop" /\ \A x \in Replica : x # r => pc'[x] = pc[x]
  BY <1>1 DEF RMTypeOK
<1>6. /\ m_replicasVector'[r] = infos
      /\ \A x \in Replica : x # r => /\ m_replicasVector'[x] = m_replicasVector[x]
                                     /\ conn'[x] = conn[x] /\ id'[x] = id[x]
  BY <1>1 DEF RMTypeOK
<1>7. KeepsPlace(s)
  BY <1>1, <1>2, <1>6, PlacesKept
<1>8. CASE s = r
  BY <1>5, <1>8 DEF Newcomer
<1>9. CASE s # r
  <2>1. ASSUME NEW p \in Replica, pc'[s] = "off" \/ (pc'[s] = "hello" /\ p = m_leaderConn[s]),
               Lists(m_replicasVector'[p], s)
        PROVE  Lists(m_replicasVector[p], s)
    <3>1. CASE pc'[s] = "off"
      <4>1. ~Lists(infos, s)
        BY <1>1, <1>5, <1>9, <3>1 DEF Alive
      <4> QED
        BY <1>6, <2>1, <4>1
    <3>2. CASE pc'[s] = "hello" /\ p = m_leaderConn[s]
      <4>1. m_isLeader[p]
        BY <1>5, <1>9, <3>2 DEF Newcomer
      <4> QED
        BY <1>4, <1>6, <2>1, <4>1
    <3> QED
      BY <2>1, <3>1, <3>2
  <2>2. ASSUME NEW p \in Replica, Lists(backlog'[p], s)
        PROVE  Lists(backlog[p], s)
    <3>1. backlog[p] \in Seq(Info)
      BY DEF RMTypeOK
    <3>2. Lists(Append(backlog[p], info), s) <=> Lists(backlog[p], s) \/ info.peer = s
      BY <1>3, <3>1, ListsAppend
    <3> QED
      BY <1>1, <1>3, <1>9, <2>2, <3>2
  <2>3. CASE pc'[s] \in {"off", "hello"}
    <3>1. NotListedAnew(s)
      BY <2>1, <2>2, <2>3 DEF NotListedAnew
    <3>2. ChannelsKept(s)
      BY <1>1, <1>7, <1>9, ChannelsConsumed
    <3> QED
      BY <1>7, <3>1, <3>2, NewcomerFrame
  <2>4. CASE pc'[s] \notin {"off", "hello"}
    BY <2>4 DEF Newcomer
  <2> QED
    BY <2>3, <2>4
<1> QED
  BY <1>8, <1>9

\* A step of the main thread that neither sends nor receives, nor adds to a list.
LEMMA QuietMainNewcomer ==
    ASSUME RMTypeOK, \A q \in Replica : Newcomer(q), NEW s \in Replica,
           NEW r \in Replica, NEW phase, phase \notin {"off", "hello"}, pc[r] # "crashed",
           pc' = [pc EXCEPT ![r] = phase], m_isLeader[r] => m_isLeader'[r],
           \A x \in Replica : x # r =>
              /\ m_isLeader'[x] = m_isLeader[x] /\ m_leaderConn'[x] = m_leaderConn[x]
              /\ conn'[x] = conn[x] /\ m_replicasVector'[x] = m_replicasVector[x],
           \A p : Lists(m_replicasVector'[r], p) => Lists(m_replicasVector[r], p),
           UNCHANGED <<id, backlog, chan>>
    PROVE  Newcomer(s)'
<1>1. KeepsPlace(s)
  BY PlacesKept
<1>2. NotListedAnew(s)
  BY DEF NotListedAnew
<1> QED
  BY <1>1, <1>2, ChannelsUnchanged, NewcomerFrame

LEMMA HelloUnansweredNewcomer ==
    ASSUME RMTypeOK, \A q \in Replica : Newcomer(q), NEW s \in Replica,
           NEW r \in Replica, HelloUnanswered(r)
    PROVE  Newcomer(s)'
<1>1. /\ pc[r] = "hello" /\ pc' = [pc EXCEPT ![r] = "loop"]
      /\ conn' = [conn EXCEPT ![r][m_leaderConn[r]] = "open"]
      /\ UNCHANGED <<id, m_isLeader, m_leaderConn, m_replicasVector, backlog, chan>>
  BY DEF HelloUnanswered, Goto
<1>2. \A x \in Replica : x # r => conn'[x] = conn[x]
  BY <1>1 DEF RMTypeOK
<1> QED
  BY <1>1, <1>2, QuietMainNewcomer

LEMMA StartElectionNewcomer ==
    ASSUME RMTypeOK, \A q \in Replica : Newcomer(q), NEW s \in Replica,
           NEW r \in Replica, StartElection(r)
    PROVE  Newcomer(s)'
<1>1. /\ pc[r] \in {"loop", "flagged"} /\ pc' = [pc EXCEPT ![r] = "electing"]
      /\ m_replicasVector' = [m_replicasVector EXCEPT ![r] = OpenReplicas(r)]
      /\ UNCHANGED <<id, m_isLeader, m_leaderConn, conn, backlog, chan>>
  BY DEF StartElection, Goto, connVars
<1>2. /\ m_replicasVector'[r] = OpenReplicas(r)
      /\ \A x \in Replica : x # r => m_replicasVector'[x] = m_replicasVector[x]
  BY <1>1 DEF RMTypeOK
<1>3. \A p : Lists(m_replicasVector'[r], p) => Lists(m_replicasVector[r], p)
  BY <1>2, OpenReplicasAreListed
<1> QED
  BY <1>1, <1>2, <1>3, QuietMainNewcomer

\* The steps in which the main thread only moves on.
MovesOn(r) == \/ NobodyLeftToAsk(r) \/ WaitForAnswer(r) \/ SpuriousWakeUp(r)
              \/ AfterAnswer(r) \/ Decide(r)

LEMMA MovesOnEffect ==
    ASSUME NEW r \in Replica, MovesOn(r)
    PROVE  /\ pc[r] \in InElection
           /\ \E phase \in InElection \cup {"resetting"} : pc' = [pc EXCEPT ![r] = phase]
           /\ UNCHANGED <<id, m_isLeader, m_leaderConn, m_replicasVector, startElection,
                          lostElection, next, conn, m_isConnectedToLeader, backlog, chan>>
BY DEF MovesOn, NobodyLeftToAsk, WaitForAnswer, SpuriousWakeUp, AfterAnswer, Decide, Goto,
       InElection, electionVars, connVars

LEMMA MovesOnNewcomer ==
    ASSUME RMTypeOK, \A q \in Replica : Newcomer(q), NEW s \in Replica,
           NEW r \in Replica, MovesOn(r)
    PROVE  Newcomer(s)'
<1>1. PICK phase \in InElection \cup {"resetting"} : pc' = [pc EXCEPT ![r] = phase]
  BY MovesOnEffect
<1>2. phase \notin {"off", "hello"} /\ pc[r] # "crashed"
  BY MovesOnEffect DEF InElection
<1>3. UNCHANGED <<id, m_isLeader, m_leaderConn, m_replicasVector, conn, backlog, chan>>
  BY MovesOnEffect
<1> QED
  BY <1>1, <1>2, <1>3, QuietMainNewcomer

LEMMA TakeOverNewcomer ==
    ASSUME RMTypeOK, \A q \in Replica : Newcomer(q), NEW s \in Replica,
           NEW r \in Replica, TakeOver(r)
    PROVE  Newcomer(s)'
<1>1. /\ pc[r] = "notifying" /\ pc' = [pc EXCEPT ![r] = "resetting"]
      /\ m_isLeader' = [m_isLeader EXCEPT ![r] = TRUE]
      /\ m_leaderConn' = [m_leaderConn EXCEPT ![r] = NULL]
      /\ \E e : conn' = [conn EXCEPT ![r] = e]
      /\ UNCHANGED <<id, m_replicasVector, backlog, chan>>
  BY DEF TakeOver, Goto
<1>2. /\ m_isLeader'[r]
      /\ \A x \in Replica : x # r =>
            /\ m_isLeader'[x] = m_isLeader[x] /\ m_leaderConn'[x] = m_leaderConn[x]
            /\ conn'[x] = conn[x]
  BY <1>1 DEF RMTypeOK
<1> QED
  BY <1>1, <1>2, QuietMainNewcomer

LEMMA ResetElectionNewcomer ==
    ASSUME RMTypeOK, \A q \in Replica : Newcomer(q), NEW s \in Replica,
           NEW r \in Replica, ResetElection(r)
    PROVE  Newcomer(s)'
<1>1. /\ pc[r] = "resetting" /\ pc' = [pc EXCEPT ![r] = "loop"]
      /\ UNCHANGED <<id, m_isLeader, m_leaderConn, m_replicasVector, conn, backlog, chan>>
  BY DEF ResetElection, Goto, connVars
<1> QED
  BY <1>1, QuietMainNewcomer

\* A replica that is in somebody's list is no newcomer who waits for his answer.
LEMMA ListedNewcomer ==
    ASSUME NEW r \in Replica, NEW q \in Replica, pc[r] \notin {"off", "hello", "crashed"},
           Newcomer(q), Lists(m_replicasVector[r], q)
    PROVE  /\ pc[q] # "off"
           /\ pc[q] = "hello" /\ r = m_leaderConn[q] => chan[r][q] # <<>>
BY DEF Newcomer, Unknown, Crashed

LEMMA SendElectionNewcomer ==
    ASSUME RMTypeOK, \A q \in Replica : Newcomer(q), NEW s \in Replica,
           NEW r \in Replica, SendElection(r)
    PROVE  Newcomer(s)'
<1> DEFINE m == Election(id[r])
<1>1. PICK i \in Greater(r) :
         /\ i \in DOMAIN m_replicasVector[r] /\ m_replicasVector[r][i].peer \in Replica
         /\ m \in Message /\ m.type = "ELECTION"
         /\ chan' = Sent(r, m_replicasVector[r][i].peer, m)
  BY SendElectionEffect
<1> DEFINE q == m_replicasVector[r][i].peer
           To == IF Reaches(r, q) THEN {q} ELSE {}
<1>2. /\ pc[r] = "electing" /\ pc' = [pc EXCEPT ![r] = "sent"]
      /\ UNCHANGED <<id, m_isLeader, m_leaderConn, m_replicasVector, conn, backlog>>
  BY DEF SendElection, Goto
<1>3. KeepsPlace(s) /\ NotListedAnew(s)
  BY <1>2, PlacesKept, ListsUnchanged
<1>4. Lists(m_replicasVector[r], q)
  BY <1>1 DEF Lists
<1>5. /\ q \in Replica /\ m \in Message /\ m.type = "ELECTION" /\ chan' = Sent(r, q, m)
      /\ pc[q] # "off"
      /\ pc[q] = "hello" /\ r = m_leaderConn[q] => chan[r][q] # <<>>
  BY <1>1, <1>2, <1>4, ListedNewcomer
<1> HIDE DEF m, q
<1>6. \A x, y \in Replica : Sent(r, q, m)[x][y] =
         IF x = r /\ y = q /\ Reaches(r, q) THEN Append(chan[x][y], m) ELSE chan[x][y]
  BY <1>5, SentTo
<1>7. /\ To \in SUBSET Replica /\ \A y : y \in To <=> y = q /\ Reaches(r, q)
  BY <1>5
<1> HIDE DEF To
<1>8. \A x, y \in Replica :
         chan'[x][y] = IF x = r /\ y \in To THEN Append(chan[x][y], m) ELSE chan[x][y]
  BY <1>5, <1>6, <1>7
<1>9. pc'[r] = "sent" /\ \A x \in Replica : x # r => pc'[x] = pc[x]
  BY <1>2 DEF RMTypeOK
<1>10. pc'[s] \in {"off", "hello"} => s # r
  BY <1>9
<1>11. pc'[s] = "off" => s \notin To
  BY <1>5, <1>7, <1>9
<1>12. pc'[s] = "hello" /\ r = m_leaderConn[s] /\ s \in To => chan[r][s] # <<>>
  BY <1>5, <1>7, <1>9
<1>13. ChannelsKept(s)
  BY <1>3, <1>5, <1>7, <1>8, <1>10, <1>11, <1>12, ChannelsAppended
<1> QED
  BY <1>3, <1>13, NewcomerFrame

LEMMA SendCoordinatorNewcomer ==
    ASSUME RMTypeOK, \A q \in Replica : Newcomer(q), NEW s \in Replica,
           NEW r \in Replica, SendCoordinator(r)
    PROVE  Newcomer(s)'
<1> DEFINE To == {p \in Replica : Lists(m_replicasVector[r], p) /\ Reaches(r, p)}
<1>1. /\ pc[r] = "announcing" /\ pc' = [pc EXCEPT ![r] = "notifying"]
      /\ UNCHANGED <<id, m_isLeader, m_leaderConn, m_replicasVector, conn, backlog>>
  BY DEF SendCoordinator, Goto
<1>2. KeepsPlace(s) /\ NotListedAnew(s)
  BY <1>1, PlacesKept, ListsUnchanged
<1>3. Coordinator \in Message /\ Coordinator.type = "COORDINATOR"
  BY SentMessages
<1>4. \A x, y \in Replica :
         chan'[x][y] = IF x = r /\ y \in To THEN Append(chan[x][y], Coordinator) ELSE chan[x][y]
  BY SendCoordinatorEffect
<1>5. s \in To => /\ pc[s] # "off"
                  /\ pc[s] = "hello" /\ r = m_leaderConn[s] => chan[r][s] # <<>>
  BY <1>1, ListedNewcomer
<1>6. To \in SUBSET Replica
  OBVIOUS
<1> HIDE DEF To
<1>7. pc'[r] = "notifying" /\ \A x \in Replica : x # r => pc'[x] = pc[x]
  BY <1>1 DEF RMTypeOK
<1>8. pc'[s] \in {"off", "hello"} => s # r
  BY <1>7
<1>9. pc'[s] = "off" => s \notin To
  BY <1>5, <1>7
<1>10. pc'[s] = "hello" /\ r = m_leaderConn[s] /\ s \in To => chan[r][s] # <<>>
  BY <1>5, <1>7
<1>11. ChannelsKept(s)
  BY <1>2, <1>3, <1>4, <1>6, <1>8, <1>9, <1>10, ChannelsAppended
<1> QED
  BY <1>2, <1>11, NewcomerFrame

LEMMA CrashNewcomer ==
    ASSUME RMTypeOK, \A q \in Replica : Newcomer(q), NEW s \in Replica,
           NEW r \in Replica, Crash(r)
    PROVE  Newcomer(s)'
<1>1. /\ pc' = [pc EXCEPT ![r] = "crashed"]
      /\ \A x, y \in Replica :
            /\ chan'[x][y] = chan[x][y] \/ chan'[x][y] = <<>>
            /\ x # r /\ y # r => chan'[x][y] = chan[x][y]
      /\ backlog' = [backlog EXCEPT ![r] = <<>>]
      /\ UNCHANGED <<id, m_isLeader, m_leaderConn, m_replicasVector, conn>>
  BY CrashEffect
<1>2. pc'[r] = "crashed" /\ \A x \in Replica : x # r => pc'[x] = pc[x]
  BY <1>1 DEF RMTypeOK
<1>3. KeepsPlace(s)
  BY <1>1, <1>2 DEF KeepsPlace
<1>4. \A q \in Replica : Lists(backlog'[q], s) => Lists(backlog[q], s)
  <2> SUFFICES ASSUME NEW q \in Replica
               PROVE  Lists(backlog'[q], s) => Lists(backlog[q], s)
    OBVIOUS
  <2>1. backlog'[q] = backlog[q] \/ backlog'[q] = <<>>
    BY <1>1 DEF RMTypeOK
  <2>2. ~Lists(<<>>, s)
    BY DEF Lists
  <2> QED
    BY <2>1, <2>2
<1>5. NotListedAnew(s)
  BY <1>1, <1>4 DEF NotListedAnew
<1>6. ASSUME pc'[s] \in {"off", "hello"}, NEW y \in Replica
      PROVE  chan'[s][y] = <<>>
  BY <1>1, <1>3, <1>6 DEF Newcomer, KeepsPlace
<1>7. ASSUME pc'[s] = "off", NEW x \in Replica
      PROVE  /\ chan'[x][s] = <<>>
             /\ \A y \in Replica : \A i \in DOMAIN chan'[x][y] :
                   chan'[x][y][i].type = "REPLICAS" => ~Lists(chan'[x][y][i].replicas, s)
  <2>1. Unknown(s)
    BY <1>3, <1>7 DEF Newcomer, KeepsPlace
  <2>2. ASSUME NEW y \in Replica, NEW i \in DOMAIN chan'[x][y]
        PROVE  chan'[x][y] = chan[x][y]
    BY <1>1, <2>2
  <2> QED
    BY <1>1, <2>1, <2>2 DEF Unknown
<1>8. ASSUME pc'[s] = "hello"
      PROVE  \/ chan'[m_leaderConn[s]][s] = chan[m_leaderConn[s]][s]
             \/ pc'[m_leaderConn[s]] = "crashed" /\ chan'[m_leaderConn[s]][s] = <<>>
  <2>1. m_leaderConn[s] \in Replica /\ s # r
    BY <1>2, <1>3, <1>8 DEF Newcomer, KeepsPlace
  <2> QED
    BY <1>1, <1>2, <2>1
<1>9. ChannelsKept(s)
  BY <1>6, <1>7, <1>8 DEF ChannelsKept
<1> QED
  BY <1>3, <1>5, <1>9, NewcomerFrame

LEMMA NewcomerStep ==
    ASSUME RMTypeOK, \A q \in Replica : Newcomer(q), [RMNext]_rmVars, NEW s \in Replica
    PROVE  Newcomer(s)'
<1>1. ASSUME NEW r \in Replica, NEW p \in Replica, Start(r, p) \/ HandlerStep(r, p)
      PROVE  Newcomer(s)'
  BY <1>1, StartNewcomer, HandlerNewcomer
<1>2. ASSUME NEW r \in Replica, MainStep(r) \/ SpuriousWakeUp(r)
      PROVE  Newcomer(s)'
  BY <1>2, AcceptNewcomer, ReceiveStateNewcomer, HelloUnansweredNewcomer,
     StartElectionNewcomer, SendElectionNewcomer, MovesOnNewcomer, SendCoordinatorNewcomer,
     TakeOverNewcomer, ResetElectionNewcomer DEF MainStep, MovesOn
<1>3. ASSUME NEW r \in Replica, Crash(r)
      PROVE  Newcomer(s)'
  BY <1>3, CrashNewcomer
<1>4. CASE UNCHANGED rmVars
  BY <1>4 DEF Newcomer, Unknown, Lists, Crashed, rmVars, connVars
<1> QED
  BY <1>1, <1>2, <1>3, <1>4 DEF RMNext
-----------------------------------------------------------------------------
(* The first leader.                                                       *)

\* Every message of chan' was there, or tells a newcomer of the replicas.
LEMMA StaysReplicas ==
    ASSUME RMTypeOK, NEW x \in Replica, NEW y \in Replica,
           \A i \in DOMAIN chan[x][y] : chan[x][y][i].type = "REPLICAS",
           \/ chan'[x][y] = chan[x][y]
           \/ chan'[x][y] = <<>>
           \/ chan[x][y] # <<>> /\ chan'[x][y] = Tail(chan[x][y])
           \/ \E m \in Message : /\ m.type = "REPLICAS"
                                 /\ chan'[x][y] = Append(chan[x][y], m)
    PROVE  \A i \in DOMAIN chan'[x][y] : chan'[x][y][i].type = "REPLICAS"
<1> DEFINE old == chan[x][y]
           new == chan'[x][y]
<1>1. old \in Seq(Message)
  BY DEF RMTypeOK
<1>2. \A i \in DOMAIN old : old[i].type = "REPLICAS"
  OBVIOUS
<1>3. CASE new = old
  BY <1>2, <1>3
<1>4. CASE new = <<>>
  BY <1>4
<1>5. CASE old # <<>> /\ new = Tail(old)
  <2>1. \A i \in DOMAIN Tail(old) : i + 1 \in DOMAIN old /\ Tail(old)[i] = old[i + 1]
    BY <1>1, <1>5, Received
  <2> HIDE DEF old, new
  <2>2. \A i \in DOMAIN new : new[i].type = "REPLICAS"
    BY <1>2, <1>5, <2>1
  <2> QED
    BY <2>2 DEF new
<1>6. CASE \E m \in Message : m.type = "REPLICAS" /\ new = Append(old, m)
  <2>1. PICK m \in Message : m.type = "REPLICAS" /\ new = Append(old, m)
    BY <1>6
  <2> HIDE DEF old, new
  <2>2. /\ Len(old) \in Nat /\ DOMAIN old = 1 .. Len(old)
        /\ DOMAIN Append(old, m) = 1 .. Len(old) + 1
        /\ \A i \in 1 .. Len(old) : Append(old, m)[i] = old[i]
        /\ Append(old, m)[Len(old) + 1] = m
    BY <1>1, Appended
  <2>3. \A i \in 1 .. Len(old) + 1 : i \in 1 .. Len(old) \/ i = Len(old) + 1
    BY <2>2
  <2>4. \A i \in DOMAIN new : new[i].type = "REPLICAS"
    BY <1>2, <2>1, <2>2, <2>3
  <2> QED
    BY <2>4 DEF new
<1> QED
  BY <1>3, <1>4, <1>5, <1>6

\* FirstLeaderAlone of r, while the first leader runs.
AloneWith(r) ==
    /\ pc[r] \in {"off", "hello", "loop", "crashed"}
    /\ ~startElection[r]
    /\ m_isLeader[r] <=> r = InitialLeader
    /\ pc[r] = "hello" => m_leaderConn[r] = InitialLeader
    /\ \A p \in Replica :
          /\ m_isConnectedToLeader[r][p] => p = InitialLeader
          /\ conn[r][p] \in {"closing", "closed"} => pc[p] = "crashed"
          /\ \A i \in DOMAIN chan[r][p] : chan[r][p][i].type = "REPLICAS"

LEMMA AloneIsAll ==
    FirstLeaderAlone <=> (pc[InitialLeader] # "crashed" =>
                            /\ pc[InitialLeader] = "loop"
                            /\ \A r \in Replica : AloneWith(r))
BY InitialLeaderAssumption DEF FirstLeaderAlone, AloneWith, Crashed

\* A step in which only the channels, and the place or the connections of r change.
LEMMA AloneFrame ==
    ASSUME RMTypeOK, RMTypeOK', \A q \in Replica : AloneWith(q), pc[InitialLeader] = "loop",
           NEW r \in Replica, r # InitialLeader \/ pc'[r] = pc[r],
           \A x \in Replica : x # r => pc'[x] = pc[x] /\ m_leaderConn'[x] = m_leaderConn[x],
           \A q \in Replica : pc[q] = "crashed" => pc'[q] = "crashed",
           UNCHANGED <<m_isLeader, startElection>>,
           pc'[r] \in {"off", "hello", "loop", "crashed"},
           pc'[r] = "hello" => m_leaderConn'[r] = InitialLeader,
           \A x, p \in Replica :
              /\ m_isConnectedToLeader'[x][p] => m_isConnectedToLeader[x][p] \/ p = InitialLeader
              /\ \/ conn'[x][p] \in {"open", conn[x][p]}
                 \/ pc[p] = "crashed",
           \A x, p \in Replica :
              \/ chan'[x][p] = chan[x][p]
              \/ chan'[x][p] = <<>>
              \/ chan[x][p] # <<>> /\ chan'[x][p] = Tail(chan[x][p])
              \/ \E m \in Message : /\ m.type = "REPLICAS"
                                    /\ chan'[x][p] = Append(chan[x][p], m)
    PROVE  pc'[InitialLeader] = "loop" /\ \A q \in Replica : AloneWith(q)'
<1>1. \A x, p \in Replica : \A i \in DOMAIN chan'[x][p] : chan'[x][p][i].type = "REPLICAS"
  BY StaysReplicas DEF AloneWith
<1>2. pc'[InitialLeader] = "loop"
  BY InitialLeaderAssumption
<1>3. ASSUME NEW q \in Replica
      PROVE  /\ pc'[q] \in {"off", "hello", "loop", "crashed"}
             /\ ~startElection'[q]
             /\ m_isLeader'[q] <=> q = InitialLeader
             /\ pc'[q] = "hello" => m_leaderConn'[q] = InitialLeader
  BY DEF AloneWith
<1>4. ASSUME NEW q \in Replica, NEW p \in Replica
      PROVE  /\ m_isConnectedToLeader'[q][p] => p = InitialLeader
             /\ conn'[q][p] \in {"closing", "closed"} => pc'[p] = "crashed"
  BY DEF AloneWith
<1> QED
  BY <1>1, <1>2, <1>3, <1>4 DEF AloneWith

LEMMA CrashedForGood ==
    ASSUME RMTypeOK, [RMNext]_rmVars, NEW q \in Replica, pc[q] = "crashed"
    PROVE  pc'[q] = "crashed"
<1>1. pc \in [Replica -> MainPhase]
  BY DEF RMTypeOK
<1>2. ASSUME NEW r \in Replica, NEW p \in Replica, Start(r, p)
      PROVE  pc[r] # "crashed" /\ \E phase : pc' = [pc EXCEPT ![r] = phase]
  BY <1>2 DEF Start
<1>3. ASSUME NEW r \in Replica, NEW p \in Replica, HandlerStep(r, p)
      PROVE  pc[r] # "crashed" /\ (pc' = pc \/ \E phase : pc' = [pc EXCEPT ![r] = phase])
  BY <1>3 DEF HandlerStep, ReceiveElection, ReceiveCoordinator, ReceiveAnswer, ReceiveOther,
              Receive, ConnectionLost, CloseConnection, Alive
<1>4. ASSUME NEW r \in Replica, MainStep(r) \/ SpuriousWakeUp(r)
      PROVE  pc[r] # "crashed" /\ \E phase : pc' = [pc EXCEPT ![r] = phase]
  <2>1. CASE Accept(r)
    BY <2>1 DEF Accept, Goto
  <2>2. CASE ReceiveState(r) \/ HelloUnanswered(r) \/ StartElection(r) \/ SendElection(r)
             \/ TakeOver(r) \/ ResetElection(r) \/ SendCoordinator(r)
    BY <2>2 DEF ReceiveState, HelloUnanswered, StartElection, SendElection, TakeOver,
                ResetElection, SendCoordinator, Goto
  <2>3. CASE MovesOn(r)
    BY <2>3, MovesOnEffect DEF InElection
  <2> QED
    BY <1>4, <2>1, <2>2, <2>3 DEF MainStep, MovesOn
<1>5. ASSUME NEW r \in Replica, Crash(r)
      PROVE  pc' = [pc EXCEPT ![r] = "crashed"]
  BY <1>5 DEF Crash
<1>6. CASE UNCHANGED rmVars
  BY <1>6 DEF rmVars
<1>7. ASSUME NEW r \in Replica, pc[r] # "crashed",
             pc' = pc \/ \E phase : pc' = [pc EXCEPT ![r] = phase]
      PROVE  pc'[q] = "crashed"
  BY <1>1, <1>7
<1>8. ASSUME NEW r \in Replica, pc' = [pc EXCEPT ![r] = "crashed"]
      PROVE  pc'[q] = "crashed"
  BY <1>1, <1>8
<1> QED
  BY <1>2, <1>3, <1>4, <1>5, <1>6, <1>7, <1>8 DEF RMNext

LEMMA FirstLeaderStep ==
    ASSUME RMTypeOK, RMTypeOK', \A q \in Replica : Newcomer(q), FirstLeaderAlone,
           [RMNext]_rmVars
    PROVE  FirstLeaderAlone'
<1> DEFINE Goal == pc'[InitialLeader] = "loop" /\ \A q \in Replica : AloneWith(q)'
<1>1. FirstLeaderAlone' <=> (pc'[InitialLeader] # "crashed" => Goal)
  BY InitialLeaderAssumption DEF FirstLeaderAlone, AloneWith, Crashed
<1> SUFFICES ASSUME pc'[InitialLeader] # "crashed"
             PROVE  Goal
  BY <1>1
<1>2. \A q \in Replica : pc[q] = "crashed" => pc'[q] = "crashed"
  BY CrashedForGood
<1>3. pc[InitialLeader] = "loop" /\ \A q \in Replica : AloneWith(q)
  BY <1>2, AloneIsAll, InitialLeaderAssumption
<1>4. pc \in [Replica -> MainPhase] /\ conn \in [Replica -> [Replica -> ConnPhase]]
      /\ m_isConnectedToLeader \in [Replica -> [Replica -> BOOLEAN]]
      /\ m_leaderConn \in [Replica -> Replica \cup {NULL}]
  BY DEF RMTypeOK
<1>5. ASSUME NEW r \in Replica, NEW p \in Replica, Start(r, p)
      PROVE  Goal
  <2>1. /\ pc[r] = "off" /\ p = InitialLeader
        /\ \/ /\ pc' = [pc EXCEPT ![r] = "hello"]
              /\ m_leaderConn' = [m_leaderConn EXCEPT ![r] = p]
           \/ pc' = [pc EXCEPT ![r] = "loop"] /\ UNCHANGED m_leaderConn
        /\ UNCHANGED <<m_isLeader, startElection, m_isConnectedToLeader, conn, chan>>
    BY <1>3, <1>5 DEF Start, AloneWith, electionVars
  <2>2. \A x \in Replica : x # r => pc'[x] = pc[x] /\ m_leaderConn'[x] = m_leaderConn[x]
    BY <1>4, <2>1
  <2>3. /\ pc'[r] \in {"hello", "loop"} /\ r # InitialLeader
        /\ pc'[r] = "hello" => m_leaderConn'[r] = InitialLeader
    BY <1>3, <1>4, <2>1
  <2> HIDE DEF Goal
  <2> QED
    BY <1>2, <1>3, <2>1, <2>2, <2>3, AloneFrame DEF Goal
<1>6. ASSUME NEW r \in Replica, NEW p \in Replica, HandlerStep(r, p)
      PROVE  Goal
  <2>1. ASSUME NEW type, Receive(r, p, type)
        PROVE  type = "REPLICAS"
    <3>1. 1 \in DOMAIN chan[p][r] /\ chan[p][r][1].type = type
      BY <2>1, ReceiveEffect
    <3> QED
      BY <1>3, <3>1 DEF AloneWith
  <2>2. ~ReceiveElection(r, p) /\ ~ReceiveCoordinator(r, p) /\ ~ReceiveAnswer(r, p)
    <3>1. ~Receive(r, p, "ELECTION") /\ ~Receive(r, p, "COORDINATOR") /\ ~Receive(r, p, "ANSWER")
      BY <2>1
    <3> QED
      BY <3>1 DEF ReceiveElection, ReceiveCoordinator, ReceiveAnswer
  <2>3. CASE ReceiveOther(r, p)
    <3>1. /\ chan[p][r] # <<>> /\ chan' = Consumed(r, p)
          /\ UNCHANGED <<pc, m_isLeader, m_leaderConn, startElection, conn,
                         m_isConnectedToLeader>>
      BY <2>3, ReceiveEffect DEF ReceiveOther, electionVars
    <3>2. \A x, y \in Replica :
             \/ chan'[x][y] = chan[x][y]
             \/ chan[x][y] # <<>> /\ chan'[x][y] = Tail(chan[x][y])
      BY <3>1, ConsumedFrom
    <3>3. /\ pc[r] \in {"off", "hello", "loop", "crashed"}
          /\ pc[r] = "hello" => m_leaderConn[r] = InitialLeader
      BY <1>3 DEF AloneWith
    <3> QED
      BY <1>2, <1>3, <3>1, <3>2, <3>3, AloneFrame
  <2>4. CASE ConnectionLost(r, p) \/ CloseConnection(r, p)
    <3>1. /\ Alive(r)
          /\ \E phase : conn' = [conn EXCEPT ![r][p] = phase]
          /\ UNCHANGED <<pc, m_isLeader, m_leaderConn, m_isConnectedToLeader, chan>>
      BY <2>4 DEF ConnectionLost, CloseConnection
    <3>2. pc[p] = "crashed"
      <4>1. pc[p] = "crashed" \/ conn[p][r] = "closed" \/ conn[r][p] = "closing"
        BY <2>4 DEF ConnectionLost, CloseConnection, Crashed
      <4>2. pc[r] # "crashed"
        BY <3>1 DEF Alive
      <4> QED
        BY <1>3, <4>1, <4>2 DEF AloneWith
    <3>3. UNCHANGED startElection
      <4>1. CASE ConnectionLost(r, p)
        <5>1. ~m_isConnectedToLeader[r][p]
          BY <1>3, <3>2 DEF AloneWith
        <5>2. startElection' = [startElection EXCEPT ![r] = startElection[r] \/ FALSE]
          BY <4>1, <5>1 DEF ConnectionLost
        <5>3. ~startElection[r] /\ startElection \in [Replica -> BOOLEAN]
          BY <1>3 DEF AloneWith, RMTypeOK
        <5> QED
          BY <5>2, <5>3
      <4>2. CASE CloseConnection(r, p)
        BY <4>2 DEF CloseConnection, electionVars
      <4> QED
        BY <2>4, <4>1, <4>2
    <3>4. \A x, y \in Replica : conn'[x][y] = conn[x][y] \/ pc[y] = "crashed"
      BY <1>4, <3>1, <3>2
    <3>5. /\ pc[r] \in {"off", "hello", "loop", "crashed"}
          /\ pc[r] = "hello" => m_leaderConn[r] = InitialLeader
      BY <1>3 DEF AloneWith
    <3> QED
      BY <1>2, <1>3, <3>1, <3>3, <3>4, <3>5, AloneFrame
  <2> QED
    BY <1>6, <2>2, <2>3, <2>4 DEF HandlerStep
<1>7. ASSUME NEW r \in Replica, MainStep(r) \/ SpuriousWakeUp(r)
      PROVE  Goal
  <2>1. pc[r] \in {"off", "hello", "loop", "crashed"} /\ ~startElection[r]
    BY <1>3 DEF AloneWith
  <2>2. CASE Accept(r)
    <3> DEFINE hello == Head(backlog[r])
               newId == IF m_isLeader[r] THEN Len(OpenReplicas(r)) ELSE hello.id
               msg   == Replicas(newId, OpenReplicas(r))
    <3>1. /\ hello \in Info /\ (m_isLeader[r] => msg \in Message)
          /\ m_isLeader[r] => msg.type = "REPLICAS"
      BY <2>2, AcceptEffect DEF Replicas
    <3>2. /\ hello.peer \in Replica
          /\ conn' = [conn EXCEPT ![r][hello.peer] = "open"]
          /\ chan' = IF m_isLeader[r] THEN Sent(r, hello.peer, msg) ELSE chan
          /\ UNCHANGED <<m_isLeader, m_leaderConn, startElection, m_isConnectedToLeader>>
      BY <2>2, <3>1 DEF Accept, Info, electionVars
    <3>0. UNCHANGED pc
      BY <1>4, <2>1, <2>2 DEF Accept, Goto
    <3> HIDE DEF hello, newId, msg
    <3>3. \A x, y \in Replica : \/ chan'[x][y] = chan[x][y]
                                \/ m_isLeader[r] /\ chan'[x][y] = Append(chan[x][y], msg)
      <4>1. CASE m_isLeader[r]
        <5> DEFINE peer == hello.peer
        <5>1. peer \in Replica /\ msg \in Message /\ chan' = Sent(r, peer, msg)
          BY <3>1, <3>2, <4>1
        <5> HIDE DEF peer
        <5>2. \A x, y \in Replica :
                 Sent(r, peer, msg)[x][y] = IF x = r /\ y = peer /\ Reaches(r, peer)
                                            THEN Append(chan[x][y], msg) ELSE chan[x][y]
          BY <5>1, SentTo
        <5> QED
          BY <4>1, <5>1, <5>2
      <4>2. CASE ~m_isLeader[r]
        BY <3>2, <4>2
      <4> QED
        BY <4>1, <4>2
    <3>4. \A x, y \in Replica : conn'[x][y] \in {"open", conn[x][y]}
      BY <1>4, <3>2
    <3>5. pc[r] = "hello" => m_leaderConn[r] = InitialLeader
      BY <1>3 DEF AloneWith
    <3> QED
      BY <1>2, <1>3, <2>1, <3>0, <3>1, <3>2, <3>3, <3>4, <3>5, AloneFrame
  <2>3. CASE ReceiveState(r)
    <3> DEFINE leader == m_leaderConn[r]
    <3>1. /\ leader \in Replica /\ pc[r] = "hello" /\ pc' = [pc EXCEPT ![r] = "loop"]
          /\ chan[leader][r] # <<>> /\ chan' = Consumed(r, leader)
          /\ m_isConnectedToLeader' = [m_isConnectedToLeader EXCEPT ![r][leader] = TRUE]
      BY <2>3, ReceiveStateEffect
    <3>2. UNCHANGED <<m_isLeader, m_leaderConn, startElection>>
      BY <2>3 DEF ReceiveState, electionVars
    <3>3. \A x, y \in Replica : conn'[x][y] \in {"open", conn[x][y]}
      <4>1. \E e \in [Replica -> {"open"} \cup ConnPhase] :
               /\ conn' = [conn EXCEPT ![r] = e]
               /\ \A y \in Replica : e[y] \in {"open", conn[r][y]}
        <5> DEFINE infos == Running(Head(chan[leader][r]).replicas)
                   e == [y \in Replica |->
                           IF y = leader \/ Lists(infos, y) THEN "open" ELSE conn[r][y]]
        <5>1. conn' = [conn EXCEPT ![r] = e]
          BY <2>3, ReceiveStateEffect
        <5>2. \A y \in Replica : e[y] \in {"open", conn[r][y]}
          OBVIOUS
        <5>3. e \in [Replica -> {"open"} \cup ConnPhase]
          BY <1>4
        <5> QED
          BY <5>1, <5>2, <5>3
      <4> QED
        BY <1>4, <4>1
    <3>4. leader = InitialLeader /\ r # InitialLeader
      BY <1>3, <3>1 DEF AloneWith
    <3> HIDE DEF leader
    <3>5. \A x, y \in Replica :
             \/ chan'[x][y] = chan[x][y]
             \/ chan[x][y] # <<>> /\ chan'[x][y] = Tail(chan[x][y])
      BY <3>1, ConsumedFrom
    <3>6. \A x, y \in Replica :
             m_isConnectedToLeader'[x][y] => m_isConnectedToLeader[x][y] \/ y = InitialLeader
      BY <1>4, <3>1, <3>4
    <3>7. pc'[r] = "loop" /\ \A x \in Replica : x # r => pc'[x] = pc[x]
      BY <1>4, <3>1
    <3> QED
      BY <1>2, <1>3, <3>2, <3>3, <3>4, <3>5, <3>6, <3>7, AloneFrame
  <2>4. ~HelloUnanswered(r)
    BY <1>3 DEF HelloUnanswered, Goto, AloneWith, Crashed
  <2>5. ~StartElection(r)
    BY <2>1 DEF StartElection
  <2>6. ~MovesOn(r)
    BY <2>1, MovesOnEffect DEF InElection
  <2>7. ~SendElection(r) /\ ~SendCoordinator(r) /\ ~TakeOver(r) /\ ~ResetElection(r)
    BY <2>1 DEF SendElection, SendCoordinator, TakeOver, ResetElection, Goto
  <2> QED
    BY <1>7, <2>2, <2>3, <2>4, <2>5, <2>6, <2>7 DEF MainStep, MovesOn
<1>8. ASSUME NEW r \in Replica, Crash(r)
      PROVE  Goal
  <2>1. /\ pc' = [pc EXCEPT ![r] = "crashed"]
        /\ \A x, y \in Replica : chan'[x][y] = chan[x][y] \/ chan'[x][y] = <<>>
        /\ UNCHANGED <<m_isLeader, m_leaderConn, startElection, conn, m_isConnectedToLeader>>
    BY <1>8, CrashEffect DEF electionVars
  <2>2. r # InitialLeader
    BY <1>4, <2>1
  <2>3. pc'[r] = "crashed" /\ \A x \in Replica : x # r => pc'[x] = pc[x]
    BY <1>4, <2>1
  <2> QED
    BY <1>2, <1>3, <2>1, <2>2, <2>3, AloneFrame
<1>9. CASE UNCHANGED rmVars
  BY <1>3, <1>9 DEF AloneWith, rmVars, electionVars, connVars
<1> QED
  BY <1>5, <1>6, <1>7, <1>8, <1>9 DEF RMNext
-----------------------------------------------------------------------------
(* What a step keeps: who has crashed or leads, and the ids.               *)

LEMMA LeadersStay ==
    ASSUME RMTypeOK, [RMNext]_rmVars, NEW q \in Replica, m_isLeader[q]
    PROVE  m_isLeader'[q]
<1>1. ASSUME NEW r \in Replica, NEW p \in Replica, Start(r, p) \/ HandlerStep(r, p)
      PROVE  UNCHANGED m_isLeader
  BY <1>1 DEF Start, HandlerStep, ReceiveElection, ReceiveCoordinator, ReceiveAnswer,
              ReceiveOther, ConnectionLost, CloseConnection
<1>2. ASSUME NEW r \in Replica, MainStep(r) \/ SpuriousWakeUp(r)
      PROVE  m_isLeader' = m_isLeader \/ m_isLeader' = [m_isLeader EXCEPT ![r] = TRUE]
  BY <1>2, MovesOnEffect DEF MainStep, MovesOn, Accept, ReceiveState, HelloUnanswered,
     StartElection, SendElection, SendCoordinator, TakeOver, ResetElection
<1>3. ASSUME NEW r \in Replica, Crash(r)
      PROVE  UNCHANGED m_isLeader
  BY <1>3 DEF Crash
<1>4. CASE UNCHANGED rmVars
  BY <1>4 DEF rmVars
<1> QED
  BY <1>1, <1>2, <1>3, <1>4 DEF RMNext, RMTypeOK

LEMMA MayBeLostStays ==
    ASSUME RMTypeOK, [RMNext]_rmVars, NEW r \in Replica, NEW p \in Replica, MayBeLost(r, p)
    PROVE  MayBeLost(r, p)'
<1>1. PICK q \in {r, p} : Crashed(q) \/ m_isLeader[q]
  BY DEF MayBeLost
<1>2. q \in Replica /\ (Crashed(q)' \/ m_isLeader'[q])
  BY <1>1, CrashedForGood, LeadersStay DEF Crashed
<1> QED
  BY <1>1, <1>2 DEF MayBeLost

\* A newcomer gets an id, nobody else another one.
IdsKept == \A p \in Replica : id'[p] = id[p] \/ id[p] = -1

LEMMA IdsStep ==
    ASSUME RMTypeOK, [RMNext]_rmVars, \A q \in Replica : Newcomer(q)
    PROVE  IdsKept
<1>1. ASSUME NEW r \in Replica, NEW p \in Replica, Start(r, p) \/ HandlerStep(r, p)
      PROVE  UNCHANGED id
  BY <1>1 DEF Start, HandlerStep, ReceiveElection, ReceiveCoordinator, ReceiveAnswer,
              ReceiveOther, ConnectionLost, CloseConnection
<1>2. ASSUME NEW r \in Replica, MainStep(r) \/ SpuriousWakeUp(r)
      PROVE  IdsKept
  <2>1. CASE ReceiveState(r)
    <3>1. id[r] = -1 /\ \E i : id' = [id EXCEPT ![r] = i]
      BY <2>1 DEF ReceiveState, Goto, Newcomer
    <3> QED
      BY <3>1 DEF IdsKept, RMTypeOK
  <2>2. CASE ~ReceiveState(r)
    <3>1. UNCHANGED id
      BY <1>2, <2>2, MovesOnEffect DEF MainStep, MovesOn, Accept, HelloUnanswered,
         StartElection, SendElection, SendCoordinator, TakeOver, ResetElection
    <3> QED
      BY <3>1 DEF IdsKept
  <2> QED
    BY <2>1, <2>2
<1>3. ASSUME NEW r \in Replica, Crash(r)
      PROVE  UNCHANGED id
  BY <1>3 DEF Crash
<1>4. CASE UNCHANGED rmVars
  BY <1>4 DEF rmVars, IdsKept
<1> QED
  BY <1>1, <1>2, <1>3, <1>4 DEF RMNext, IdsKept

LEMMA StillNotGreater ==
    ASSUME RMTypeOK, RMTypeOK', NEW s \in Replica, NEW p \in Replica, IdsKept, id'[s] = id[s],
           ~IsGreater(s, p)
    PROVE  ~IsGreater(s, p)'
<1>1. id[s] \in Id /\ id[p] \in Id /\ id'[p] \in Id
  BY DEF RMTypeOK
<1>2. id[s] < id[p] /\ id[p] # -1
  BY <1>1 DEF IsGreater, Id
<1>3. id'[p] = id[p]
  BY <1>2 DEF IdsKept
<1> QED
  BY <1>3 DEF IsGreater

\* Connections are closed when the other end is, or by a new leader.
LEMMA ClosedStep ==
    ASSUME RMTypeOK, RMTypeOK', [RMNext]_rmVars, ClosedForAReason
    PROVE  ClosedForAReason'
<1> DEFINE Same(x, y) == conn'[x][y] = conn[x][y] \/ conn'[x][y] = "open"
<1>0. conn \in [Replica -> [Replica -> ConnPhase]]
      /\ m_isLeader \in [Replica -> BOOLEAN]
  BY DEF RMTypeOK
<1>1. SUFFICES \A x, y \in Replica : Same(x, y) \/ MayBeLost(x, y)'
  <2>1. ASSUME NEW x \in Replica, NEW y \in Replica, Same(x, y) \/ MayBeLost(x, y)',
               conn'[x][y] \in {"closing", "closed"}
        PROVE  MayBeLost(x, y)'
    BY <2>1, MayBeLostStays DEF ClosedForAReason
  <2> QED
    BY <2>1 DEF ClosedForAReason
<1>2. ASSUME NEW r \in Replica, NEW p \in Replica, Start(r, p) \/ HandlerStep(r, p),
             NEW x \in Replica, NEW y \in Replica
      PROVE  Same(x, y) \/ MayBeLost(x, y)'
  <2>1. CASE ConnectionLost(r, p) \/ CloseConnection(r, p)
    <3>1. \E phase : conn' = [conn EXCEPT ![r][p] = phase]
      BY <2>1 DEF ConnectionLost, CloseConnection
    <3>2. Crashed(p) \/ conn[p][r] = "closed" \/ conn[r][p] = "closing"
      BY <2>1 DEF ConnectionLost, CloseConnection
    <3>3. MayBeLost(r, p)
      BY <3>2 DEF ClosedForAReason, MayBeLost
    <3>4. MayBeLost(r, p)'
      BY <3>3, MayBeLostStays
    <3>5. (x = r /\ y = p) \/ conn'[x][y] = conn[x][y]
      BY <1>0, <3>1
    <3> QED
      BY <3>4, <3>5
  <2>2. CASE ~(ConnectionLost(r, p) \/ CloseConnection(r, p))
    <3>1. UNCHANGED conn
      BY <1>2, <2>2 DEF Start, HandlerStep, ReceiveElection, ReceiveCoordinator,
                        ReceiveAnswer, ReceiveOther
    <3> QED
      BY <3>1
  <2> QED
    BY <2>1, <2>2
<1>3. ASSUME NEW r \in Replica, MainStep(r) \/ SpuriousWakeUp(r),
             NEW x \in Replica, NEW y \in Replica
      PROVE  Same(x, y) \/ MayBeLost(x, y)'
  <2>1. CASE Accept(r)
    <3>1. \E p : conn' = [conn EXCEPT ![r][p] = "open"]
      BY <2>1 DEF Accept
    <3> QED
      BY <1>0, <3>1
  <2>2. CASE ReceiveState(r)
    <3>1. \E infos : conn' = [conn EXCEPT ![r] = [p \in Replica |->
             IF p = m_leaderConn[r] \/ Lists(infos, p) THEN "open" ELSE conn[r][p]]]
      BY <2>2 DEF ReceiveState
    <3> QED
      BY <1>0, <3>1
  <2>3. CASE HelloUnanswered(r)
    <3>1. \E p : conn' = [conn EXCEPT ![r][p] = "open"]
      BY <2>3 DEF HelloUnanswered
    <3> QED
      BY <1>0, <3>1
  <2>4. CASE TakeOver(r)
    <3>1. /\ m_isLeader' = [m_isLeader EXCEPT ![r] = TRUE]
          /\ \E e : conn' = [conn EXCEPT ![r] = e]
      BY <2>4 DEF TakeOver
    <3>2. x = r => MayBeLost(x, y)'
      BY <1>0, <3>1 DEF MayBeLost
    <3>3. x # r => conn'[x][y] = conn[x][y]
      BY <1>0, <3>1
    <3> QED
      BY <3>2, <3>3
  <2>5. CASE ~(Accept(r) \/ ReceiveState(r) \/ HelloUnanswered(r) \/ TakeOver(r))
    <3>1. UNCHANGED conn
      BY <1>3, <2>5, MovesOnEffect DEF MainStep, MovesOn, StartElection, SendElection,
         SendCoordinator, ResetElection, connVars
    <3> QED
      BY <3>1
  <2> QED
    BY <2>1, <2>2, <2>3, <2>4, <2>5
<1>4. ASSUME NEW r \in Replica, Crash(r)
      PROVE  UNCHANGED conn
  BY <1>4 DEF Crash
<1>5. CASE UNCHANGED rmVars
  BY <1>5 DEF rmVars, connVars
<1> QED
  BY <1>2, <1>3, <1>4, <1>5 DEF RMNext
-----------------------------------------------------------------------------
(* Questions and answers in a channel.                                     *)

Has(q, t) == \E i \in DOMAIN q : q[i].type = t

\* Each message of type t in the channel was there before.
Old(new, old, t) == \A i \in DOMAIN new :
    new[i].type = t => \E j \in DOMAIN old : new[i] = old[j]

\* Nothing happened to the channel that concerns messages of type t.
Quiet(new, old, t) ==
    \/ new = old
    \/ old # <<>> /\ Head(old).type # t /\ new = Tail(old)
    \/ \E m \in Message : m.type # t /\ new = Append(old, m)

LEMMA OldTail ==
    ASSUME NEW q \in Seq(Message), q # <<>>, NEW t
    PROVE  Old(Tail(q), q, t)
<1>1. \A i \in DOMAIN Tail(q) : i + 1 \in DOMAIN q /\ Tail(q)[i] = q[i + 1]
  BY Received
<1> QED
  BY <1>1 DEF Old

LEMMA OldAppend ==
    ASSUME NEW q \in Seq(Message), NEW m \in Message, NEW t, m.type # t
    PROVE  Old(Append(q, m), q, t)
<1>1. /\ DOMAIN q = 1 .. Len(q) /\ Len(q) \in Nat
      /\ DOMAIN Append(q, m) = 1 .. Len(q) + 1
      /\ \A i \in 1 .. Len(q) : Append(q, m)[i] = q[i]
      /\ Append(q, m)[Len(q) + 1] = m
  BY Appended
<1>2. \A i \in DOMAIN Append(q, m) : i = Len(q) + 1 \/ i \in DOMAIN q
  BY <1>1
<1> QED
  BY <1>1, <1>2 DEF Old

LEMMA HasAppend ==
    ASSUME NEW q \in Seq(Message), NEW m \in Message
    PROVE  /\ \A t : Has(q, t) => Has(Append(q, m), t)
           /\ Has(Append(q, m), m.type)
<1>1. /\ DOMAIN q = 1 .. Len(q) /\ Len(q) \in Nat
      /\ DOMAIN Append(q, m) = 1 .. Len(q) + 1
      /\ \A i \in 1 .. Len(q) : Append(q, m)[i] = q[i]
      /\ Append(q, m)[Len(q) + 1] = m
  BY Appended
<1>2. Len(q) + 1 \in DOMAIN Append(q, m) /\ \A i \in DOMAIN q : i \in DOMAIN Append(q, m)
  BY <1>1
<1> QED
  BY <1>1, <1>2 DEF Has

LEMMA HasTail ==
    ASSUME NEW q \in Seq(Message), q # <<>>, NEW t, Head(q).type # t, Has(q, t)
    PROVE  Has(Tail(q), t)
<1>1. PICK i \in DOMAIN q : q[i].type = t
  BY DEF Has
<1>2. /\ Len(q) \in Nat \ {0} /\ DOMAIN q = 1 .. Len(q) /\ Head(q) = q[1]
      /\ DOMAIN Tail(q) = 1 .. Len(q) - 1
      /\ \A j \in DOMAIN Tail(q) : Tail(q)[j] = q[j + 1]
  BY Received
<1>3. i # 1
  BY <1>1, <1>2
<1>4. i - 1 \in DOMAIN Tail(q) /\ i - 1 + 1 = i
  BY <1>1, <1>2, <1>3
<1>5. Tail(q)[i - 1] = q[i]
  BY <1>2, <1>4
<1> QED
  BY <1>1, <1>4, <1>5 DEF Has

LEMMA QuietChannel ==
    ASSUME NEW old \in Seq(Message), NEW new, NEW t, Quiet(new, old, t)
    PROVE  Old(new, old, t) /\ (Has(old, t) => Has(new, t))
<1>1. CASE new = old
  BY <1>1 DEF Old
<1>2. CASE old # <<>> /\ Head(old).type # t /\ new = Tail(old)
  BY <1>2, OldTail, HasTail
<1>3. CASE \E m \in Message : m.type # t /\ new = Append(old, m)
  <2>1. PICK m \in Message : m.type # t /\ new = Append(old, m)
    BY <1>3
  <2>2. Old(Append(old, m), old, t)
    BY <2>1, OldAppend
  <2>3. Has(old, t) => Has(Append(old, m), t)
    BY HasAppend
  <2> QED
    BY <2>1, <2>2, <2>3
<1> QED
  BY <1>1, <1>2, <1>3 DEF Quiet

LEMMA OpenHas ==
    ASSUME NEW s, NEW p
    PROVE  /\ IsOpen(s, p) <=> Has(chan[s][p], "ELECTION") \/ Has(chan[p][s], "ANSWER")
           /\ IsOpen(s, p)' <=> Has(chan'[s][p], "ELECTION") \/ Has(chan'[p][s], "ANSWER")
BY DEF IsOpen, Has
-----------------------------------------------------------------------------
(* How a step changes what s has asked and what it was answered.           *)

Outside == {"off", "hello"}

QuietFor(s) == \A p \in Replica :
    /\ Quiet(chan'[s][p], chan[s][p], "ELECTION")
    /\ Quiet(chan'[p][s], chan[p][s], "ANSWER")

\* What is new is true.
NewIsTrue(s) == \A p \in Replica :
    /\ \/ Old(chan'[s][p], chan[s][p], "ELECTION")
       \/ /\ pc'[s] \notin Outside
          /\ \A i \in DOMAIN chan'[s][p] :
                chan'[s][p][i].type = "ELECTION" => chan'[s][p][i].id = id'[s]
    /\ \/ Old(chan'[p][s], chan[p][s], "ANSWER")
       \/ /\ pc'[s] \notin Outside
          /\ \A i \in DOMAIN chan'[p][s] :
                chan'[p][s][i].type = "ANSWER" /\ ~chan'[p][s][i].lost => ~IsGreater(s, p)'

\* An open question does not go unanswered, or cannot be answered any more.
NothingGone(s) == \A p \in Replica :
    IsOpen(s, p) => IsOpen(s, p)' \/ MayBeLost(s, p)' \/ ~IsGreater(s, p) \/ lostElection'[s]

LEMMA QuietIsFine ==
    ASSUME RMTypeOK, NEW s \in Replica, QuietFor(s)
    PROVE  NewIsTrue(s) /\ NothingGone(s)
<1>1. ASSUME NEW x \in Replica, NEW y \in Replica, NEW t, Quiet(chan'[x][y], chan[x][y], t)
      PROVE  /\ Old(chan'[x][y], chan[x][y], t)
             /\ Has(chan[x][y], t) => Has(chan'[x][y], t)
  <2> DEFINE old == chan[x][y]
             new == chan'[x][y]
  <2>1. old \in Seq(Message) /\ Quiet(new, old, t)
    BY <1>1 DEF RMTypeOK
  <2> HIDE DEF old, new
  <2>2. Old(new, old, t) /\ (Has(old, t) => Has(new, t))
    BY <2>1, QuietChannel
  <2> QED
    BY <2>2 DEF old, new
<1>2. \A p \in Replica :
         /\ Old(chan'[s][p], chan[s][p], "ELECTION")
         /\ Old(chan'[p][s], chan[p][s], "ANSWER")
         /\ Has(chan[s][p], "ELECTION") => Has(chan'[s][p], "ELECTION")
         /\ Has(chan[p][s], "ANSWER") => Has(chan'[p][s], "ANSWER")
  BY <1>1 DEF QuietFor
<1>3. \A p \in Replica : IsOpen(s, p) => IsOpen(s, p)'
  BY <1>2, OpenHas
<1> QED
  BY <1>2, <1>3 DEF NewIsTrue, NothingGone

\* Most steps neither send nor receive a question or an answer.
LEMMA QuietForAll ==
    ASSUME RMTypeOK, NEW s \in Replica,
           \A x, y \in Replica :
              \/ chan'[x][y] = chan[x][y]
              \/ /\ chan[x][y] # <<>> /\ chan'[x][y] = Tail(chan[x][y])
                 /\ Head(chan[x][y]).type \in {"REPLICAS", "COORDINATOR"}
              \/ \E m \in Message : /\ m.type \in {"REPLICAS", "COORDINATOR"}
                                    /\ chan'[x][y] = Append(chan[x][y], m)
    PROVE  NewIsTrue(s) /\ NothingGone(s)
<1>1. ASSUME NEW x \in Replica, NEW y \in Replica, NEW t \in {"ELECTION", "ANSWER"}
      PROVE  Quiet(chan'[x][y], chan[x][y], t)
  BY <1>1 DEF Quiet
<1> QED
  BY <1>1, QuietIsFine DEF QuietFor

LEMMA WordsFrame ==
    ASSUME RMTypeOK, RMTypeOK', NEW s \in Replica, WordsAreTrue(s), IdsKept,
           id'[s] = id[s] \/ pc[s] \in Outside,
           pc'[s] \in Outside => pc[s] \in Outside,
           NewIsTrue(s)
    PROVE  WordsAreTrue(s)'
<1>1. SUFFICES ASSUME NEW p \in Replica
               PROVE  /\ pc'[s] \in Outside => ~IsOpen(s, p)'
                      /\ \A i \in DOMAIN chan'[s][p] :
                            chan'[s][p][i].type = "ELECTION" => chan'[s][p][i].id = id'[s]
                      /\ \A i \in DOMAIN chan'[p][s] :
                            chan'[p][s][i].type = "ANSWER" /\ ~chan'[p][s][i].lost
                               => ~IsGreater(s, p)'
  BY DEF WordsAreTrue, Outside
<1> DEFINE question == chan[s][p]
           asked    == chan'[s][p]
           answer   == chan[p][s]
           answered == chan'[p][s]
<1>2. /\ pc[s] \in Outside => ~Has(question, "ELECTION") /\ ~Has(answer, "ANSWER")
      /\ \A i \in DOMAIN question : question[i].type = "ELECTION" => question[i].id = id[s]
      /\ \A i \in DOMAIN answer :
            answer[i].type = "ANSWER" /\ ~answer[i].lost => ~IsGreater(s, p)
  BY OpenHas DEF WordsAreTrue, Outside
<1>3. /\ \/ Old(asked, question, "ELECTION")
         \/ /\ pc'[s] \notin Outside
            /\ \A i \in DOMAIN asked : asked[i].type = "ELECTION" => asked[i].id = id'[s]
      /\ \/ Old(answered, answer, "ANSWER")
         \/ /\ pc'[s] \notin Outside
            /\ \A i \in DOMAIN answered :
                  answered[i].type = "ANSWER" /\ ~answered[i].lost => ~IsGreater(s, p)'
  BY DEF NewIsTrue
<1>4. IsOpen(s, p)' <=> Has(asked, "ELECTION") \/ Has(answered, "ANSWER")
  BY OpenHas
<1> HIDE DEF question, asked, answer, answered
<1>5. ASSUME Old(asked, question, "ELECTION"),
             NEW i \in DOMAIN asked, asked[i].type = "ELECTION"
      PROVE  pc[s] \notin Outside /\ asked[i].id = id'[s]
  <2>1. PICK j \in DOMAIN question : asked[i] = question[j]
    BY <1>5 DEF Old
  <2>2. Has(question, "ELECTION") /\ question[j].id = id[s]
    BY <1>2, <1>5, <2>1 DEF Has
  <2> QED
    BY <1>2, <2>1, <2>2
<1>6. ASSUME Old(answered, answer, "ANSWER"),
             NEW i \in DOMAIN answered, answered[i].type = "ANSWER"
      PROVE  pc[s] \notin Outside /\ (~answered[i].lost => ~IsGreater(s, p)')
  <2>1. PICK j \in DOMAIN answer : answered[i] = answer[j]
    BY <1>6 DEF Old
  <2>2. Has(answer, "ANSWER") /\ (~answer[j].lost => ~IsGreater(s, p))
    BY <1>2, <1>6, <2>1 DEF Has
  <2>3. pc[s] \notin Outside
    BY <1>2, <2>2
  <2>4. ~IsGreater(s, p) => ~IsGreater(s, p)'
    BY <2>3, StillNotGreater
  <2> QED
    BY <2>1, <2>2, <2>3, <2>4
<1>7. pc'[s] \in Outside => ~Has(asked, "ELECTION") /\ ~Has(answered, "ANSWER")
  BY <1>3, <1>5, <1>6 DEF Has
<1>8. \A i \in DOMAIN asked : asked[i].type = "ELECTION" => asked[i].id = id'[s]
  BY <1>3, <1>5
<1>9. \A i \in DOMAIN answered :
         answered[i].type = "ANSWER" /\ ~answered[i].lost => ~IsGreater(s, p)'
  BY <1>3, <1>6
<1> QED
  BY <1>4, <1>7, <1>8, <1>9 DEF asked, answered

Asking == {"electing", "sent", "waiting", "woken"}

\* Who is greater than s was asked, and what became of it.
Settled(s, p) == ~IsGreater(s, p) \/ IsOpen(s, p) \/ MayBeLost(s, p)

LEMMA ElectionSettled ==
    ASSUME RMTypeOK, RMTypeOK', NEW s \in Replica, NEW p \in Replica, Settled(s, p),
           [RMNext]_rmVars, IdsKept, id'[s] = id[s], NothingGone(s)
    PROVE  Settled(s, p)' \/ lostElection'[s]
<1>1. ~IsGreater(s, p) => ~IsGreater(s, p)'
  BY StillNotGreater
<1>2. MayBeLost(s, p) => MayBeLost(s, p)'
  BY MayBeLostStays
<1>3. IsOpen(s, p) =>
         IsOpen(s, p)' \/ MayBeLost(s, p)' \/ ~IsGreater(s, p) \/ lostElection'[s]
  BY DEF NothingGone
<1>4. Settled(s, p)' <=> ~IsGreater(s, p)' \/ IsOpen(s, p)' \/ MayBeLost(s, p)'
  BY DEF Settled
<1> QED
  BY <1>1, <1>2, <1>3, <1>4 DEF Settled

LEMMA ElectionFrame ==
    ASSUME RMTypeOK, RMTypeOK', NEW s \in Replica, ElectionOf(s), [RMNext]_rmVars, IdsKept,
           id'[s] = id[s], next'[s] = next[s], m_replicasVector'[s] = m_replicasVector[s],
           lostElection[s] => lostElection'[s],
           pc'[s] \in InElection => pc[s] \in InElection,
           pc[s] \in Asking /\ pc'[s] \notin Asking /\ ~lostElection'[s] => Greater(s) = {},
           NothingGone(s)
    PROVE  ElectionOf(s)'
<1>1. SUFFICES ASSUME pc'[s] \in InElection, ~lostElection'[s],
                      NEW i \in DOMAIN m_replicasVector[s],
                      KnownGreater(s, m_replicasVector[s][i])
               PROVE  \/ Settled(s, m_replicasVector[s][i].peer)'
                      \/ pc'[s] \in Asking /\ i >= next[s]
  BY DEF ElectionOf, KnownGreater, Settled, Asking
<1> DEFINE p == m_replicasVector[s][i].peer
<1>2. p \in Replica /\ i \in 1 .. Len(m_replicasVector[s])
  <2>1. m_replicasVector[s] \in Seq(Info)
    BY DEF RMTypeOK
  <2>2. m_replicasVector[s][i] \in Info /\ i \in 1 .. Len(m_replicasVector[s])
    BY <2>1, LenProperties, ElementOfSeq
  <2> QED
    BY <2>2 DEF Info
<1>3. Settled(s, p) \/ (pc[s] \in Asking /\ i >= next[s])
  <2>1. pc[s] \in InElection /\ ~lostElection[s]
    <3>1. lostElection[s] \in BOOLEAN /\ lostElection'[s] \in BOOLEAN
      BY DEF RMTypeOK
    <3> QED
      BY <1>1, <3>1
  <2>2. \A j \in DOMAIN m_replicasVector[s] :
           KnownGreater(s, m_replicasVector[s][j]) =>
              \/ Settled(s, m_replicasVector[s][j].peer)
              \/ pc[s] \in Asking /\ j >= next[s]
    BY <2>1 DEF ElectionOf, Settled, Asking
  <2> QED
    BY <1>1, <2>2
<1>4. i >= next[s] => i \in Greater(s)
  <2>1. next[s] \in Nat /\ Len(m_replicasVector[s]) \in Nat
    BY LenProperties DEF RMTypeOK
  <2> QED
    BY <1>1, <1>2, <2>1 DEF Greater, KnownGreater
<1>5. p' = p
  OBVIOUS
<1> HIDE DEF p
<1>6. Settled(s, p) => Settled(s, p)'
  BY <1>1, <1>2, <1>5, ElectionSettled
<1>7. Settled(s, p)' \/ (pc'[s] \in Asking /\ i >= next[s])
  BY <1>1, <1>3, <1>4, <1>6
<1> QED
  BY <1>5, <1>7 DEF p

LEMMA ElectionOver ==
    ASSUME NEW s, pc'[s] \notin InElection
    PROVE  ElectionOf(s)'
BY DEF ElectionOf
-----------------------------------------------------------------------------
(* The election, action by action.                                         *)

Sound(s) == WordsAreTrue(s) /\ ElectionOf(s)

\* A step that leaves alone what s knows and where it is.
Stays(s) == /\ pc'[s] = pc[s] /\ id'[s] = id[s]
            /\ next'[s] = next[s] /\ m_replicasVector'[s] = m_replicasVector[s]
            /\ lostElection[s] => lostElection'[s]

LEMMA StaysSound ==
    ASSUME RMTypeOK, RMTypeOK', NEW s \in Replica, Sound(s), [RMNext]_rmVars, IdsKept,
           Stays(s), NewIsTrue(s), NothingGone(s)
    PROVE  Sound(s)'
<1>1. WordsAreTrue(s)'
  BY WordsFrame DEF Sound, Stays
<1>2. pc[s] \in Asking /\ pc'[s] \notin Asking /\ ~lostElection'[s] => Greater(s) = {}
  BY DEF Stays
<1>3. pc'[s] \in InElection => pc[s] \in InElection
  BY DEF Stays
<1>4. ElectionOf(s)'
  BY <1>2, <1>3, ElectionFrame DEF Sound, Stays
<1> QED
  BY <1>1, <1>4 DEF Sound

\* A step of s that neither ends in an election nor starts as a newcomer.
LEMMA OverSound ==
    ASSUME RMTypeOK, RMTypeOK', NEW s \in Replica, Sound(s), IdsKept,
           id'[s] = id[s] \/ pc[s] \in Outside,
           pc'[s] \in Outside => pc[s] \in Outside,
           pc'[s] \notin InElection, NewIsTrue(s)
    PROVE  Sound(s)'
<1>1. WordsAreTrue(s)'
  BY WordsFrame DEF Sound
<1> QED
  BY <1>1, ElectionOver DEF Sound

LEMMA ChannelsSame ==
    ASSUME RMTypeOK, NEW s \in Replica, UNCHANGED chan
    PROVE  NewIsTrue(s) /\ NothingGone(s)
BY QuietForAll

LEMMA StartSound ==
    ASSUME RMTypeOK, RMTypeOK', [RMNext]_rmVars, IdsKept, NEW s \in Replica, Sound(s),
           NEW r \in Replica, NEW p \in Replica, Start(r, p)
    PROVE  Sound(s)'
<1>1. /\ pc[r] = "off" /\ \E phase \in {"hello", "loop"} : pc' = [pc EXCEPT ![r] = phase]
      /\ UNCHANGED <<id, m_replicasVector, next, lostElection, chan>>
      /\ pc \in [Replica -> MainPhase]
  BY DEF Start, electionVars, RMTypeOK
<1>2. NewIsTrue(s) /\ NothingGone(s)
  BY <1>1, ChannelsSame
<1>3. CASE s # r
  <2>1. Stays(s)
    BY <1>1, <1>3 DEF Stays
  <2> QED
    BY <1>2, <2>1, StaysSound
<1>4. CASE s = r
  <2>1. id'[s] = id[s] /\ pc[s] \in Outside /\ pc'[s] \notin InElection
    BY <1>1, <1>4 DEF Outside, InElection
  <2> QED
    BY <1>2, <2>1, OverSound
<1> QED
  BY <1>3, <1>4

LEMMA AcceptSound ==
    ASSUME RMTypeOK, RMTypeOK', [RMNext]_rmVars, IdsKept, NEW s \in Replica, Sound(s),
           NEW r \in Replica, Accept(r)
    PROVE  Sound(s)'
<1> DEFINE hello == Head(backlog[r])
           newId == IF m_isLeader[r] THEN Len(OpenReplicas(r)) ELSE hello.id
           msg   == Replicas(newId, OpenReplicas(r))
<1>1. /\ hello \in Info /\ (m_isLeader[r] => msg \in Message)
      /\ m_isLeader[r] => msg.type = "REPLICAS"
  BY AcceptEffect DEF Replicas
<1>2. /\ pc[r] = "loop" /\ hello.peer \in Replica
      /\ \E phase \in {"loop", "flagged"} : pc' = [pc EXCEPT ![r] = phase]
      /\ \E v : m_replicasVector' = [m_replicasVector EXCEPT ![r] = v]
      /\ chan' = IF m_isLeader[r] THEN Sent(r, hello.peer, msg) ELSE chan
      /\ UNCHANGED <<id, next, lostElection>>
      /\ pc \in [Replica -> MainPhase] /\ m_replicasVector \in [Replica -> Seq(Info)]
  BY <1>1 DEF Accept, Goto, Info, electionVars, RMTypeOK
<1> HIDE DEF hello, newId, msg
<1>3. \A x, y \in Replica : \/ chan'[x][y] = chan[x][y]
                            \/ \E m \in Message : /\ m.type = "REPLICAS"
                                                  /\ chan'[x][y] = Append(chan[x][y], m)
  <2>1. CASE m_isLeader[r]
    <3> DEFINE peer == hello.peer
    <3>1. peer \in Replica /\ msg \in Message /\ chan' = Sent(r, peer, msg)
      BY <1>1, <1>2, <2>1
    <3> HIDE DEF peer
    <3>2. \A x, y \in Replica :
             Sent(r, peer, msg)[x][y] = IF x = r /\ y = peer /\ Reaches(r, peer)
                                        THEN Append(chan[x][y], msg) ELSE chan[x][y]
      BY <3>1, SentTo
    <3> QED
      BY <1>1, <2>1, <3>1, <3>2
  <2>2. CASE ~m_isLeader[r]
    BY <1>2, <2>2
  <2> QED
    BY <2>1, <2>2
<1>4. NewIsTrue(s) /\ NothingGone(s)
  BY <1>3, QuietForAll
<1>5. CASE s # r
  <2>1. Stays(s)
    BY <1>2, <1>5 DEF Stays
  <2> QED
    BY <1>4, <2>1, StaysSound
<1>6. CASE s = r
  <2>1. id'[s] = id[s] /\ pc'[s] \notin Outside /\ pc'[s] \notin InElection
    BY <1>2, <1>6 DEF Outside, InElection
  <2> QED
    BY <1>4, <2>1, OverSound
<1> QED
  BY <1>5, <1>6

LEMMA ReceiveStateSound ==
    ASSUME RMTypeOK, RMTypeOK', [RMNext]_rmVars, IdsKept, NEW s \in Replica, Sound(s),
           NEW r \in Replica, ReceiveState(r), Newcomer(r)
    PROVE  Sound(s)'
<1> DEFINE leader == m_leaderConn[r]
<1>1. /\ leader \in Replica /\ pc[r] = "hello" /\ pc' = [pc EXCEPT ![r] = "loop"]
      /\ chan[leader][r] # <<>> /\ chan' = Consumed(r, leader)
      /\ Head(chan[leader][r]).type = "REPLICAS"
      /\ \E i : id' = [id EXCEPT ![r] = i]
      /\ \E v : m_replicasVector' = [m_replicasVector EXCEPT ![r] = v]
  <2>1. /\ leader \in Replica /\ pc[r] = "hello" /\ pc' = [pc EXCEPT ![r] = "loop"]
        /\ chan[leader][r] # <<>> /\ chan' = Consumed(r, leader)
        /\ Head(chan[leader][r]).type = "REPLICAS"
        /\ id' = [id EXCEPT ![r] = Head(chan[leader][r]).id]
        /\ m_replicasVector' =
              [m_replicasVector EXCEPT ![r] = Running(Head(chan[leader][r]).replicas)]
    BY ReceiveStateEffect
  <2> QED
    BY <2>1
<1>2. UNCHANGED <<next, lostElection>>
  BY DEF ReceiveState, electionVars
<1> HIDE DEF leader
<1>3. \A x, y \in Replica : \/ chan'[x][y] = chan[x][y]
                            \/ /\ chan[x][y] # <<>> /\ chan'[x][y] = Tail(chan[x][y])
                               /\ Head(chan[x][y]).type = "REPLICAS"
  BY <1>1, ConsumedFrom
<1>4. NewIsTrue(s) /\ NothingGone(s)
  BY <1>3, QuietForAll
<1>5. CASE s # r
  <2>1. Stays(s)
    BY <1>1, <1>2, <1>5 DEF Stays, RMTypeOK
  <2> QED
    BY <1>4, <2>1, StaysSound
<1>6. CASE s = r
  <2>1. pc[s] \in Outside /\ pc'[s] \notin InElection
    BY <1>1, <1>6 DEF Outside, InElection, RMTypeOK
  <2> QED
    BY <1>4, <2>1, OverSound
<1> QED
  BY <1>5, <1>6

LEMMA HelloUnansweredSound ==
    ASSUME RMTypeOK, RMTypeOK', [RMNext]_rmVars, IdsKept, NEW s \in Replica, Sound(s),
           NEW r \in Replica, HelloUnanswered(r)
    PROVE  Sound(s)'
<1>1. /\ pc[r] = "hello" /\ pc' = [pc EXCEPT ![r] = "loop"]
      /\ UNCHANGED <<id, next, chan, lostElection, m_replicasVector>>
      /\ pc \in [Replica -> MainPhase]
  BY DEF HelloUnanswered, Goto, electionVars, RMTypeOK
<1>2. NewIsTrue(s) /\ NothingGone(s)
  BY <1>1, ChannelsSame
<1>3. CASE s # r
  <2>1. Stays(s)
    BY <1>1, <1>3 DEF Stays
  <2> QED
    BY <1>2, <2>1, StaysSound
<1>4. CASE s = r
  <2>1. pc[s] \in Outside /\ pc'[s] \notin InElection
    BY <1>1, <1>4 DEF Outside, InElection
  <2> QED
    BY <1>2, <2>1, OverSound
<1> QED
  BY <1>3, <1>4

LEMMA StartElectionSound ==
    ASSUME RMTypeOK, RMTypeOK', [RMNext]_rmVars, IdsKept, NEW s \in Replica, Sound(s),
           NEW r \in Replica, StartElection(r)
    PROVE  Sound(s)'
<1>1. /\ pc[r] \in {"loop", "flagged"} /\ pc' = [pc EXCEPT ![r] = "electing"]
      /\ next' = [next EXCEPT ![r] = 1]
      /\ m_replicasVector' = [m_replicasVector EXCEPT ![r] = OpenReplicas(r)]
      /\ UNCHANGED <<id, chan, lostElection>>
      /\ pc \in [Replica -> MainPhase] /\ next \in [Replica -> Nat \ {0}]
      /\ m_replicasVector \in [Replica -> Seq(Info)]
  BY DEF StartElection, Goto, connVars, RMTypeOK
<1>2. NewIsTrue(s) /\ NothingGone(s)
  BY <1>1, ChannelsSame
<1>3. CASE s # r
  <2>1. Stays(s)
    BY <1>1, <1>3 DEF Stays
  <2> QED
    BY <1>2, <2>1, StaysSound
<1>4. CASE s = r
  <2>1. pc'[s] = "electing" /\ next'[s] = 1 /\ id'[s] = id[s]
    BY <1>1, <1>4
  <2>2. WordsAreTrue(s)'
    <3>1. pc'[s] \notin Outside
      BY <2>1 DEF Outside
    <3> QED
      BY <1>2, <2>1, <3>1, WordsFrame DEF Sound
  <2>3. ElectionOf(s)'
    <3>1. m_replicasVector'[s] \in Seq(Info)
      BY DEF RMTypeOK
    <3>2. \A i \in DOMAIN m_replicasVector'[s] : i >= next'[s]
      BY <2>1, <3>1, LenProperties
    <3> QED
      BY <2>1, <3>2 DEF ElectionOf
  <2> QED
    BY <2>2, <2>3 DEF Sound
<1> QED
  BY <1>3, <1>4

\* The question is on its way, or lost because the one asked is gone or has led.
LEMMA SendElectionSound ==
    ASSUME RMTypeOK, RMTypeOK', [RMNext]_rmVars, IdsKept, NEW s \in Replica, Sound(s),
           ClosedForAReason, NEW r \in Replica, SendElection(r)
    PROVE  Sound(s)'
<1> DEFINE known == m_replicasVector[r]
<1>1. PICK k \in Greater(r) :
         /\ k \in Nat \ {0} /\ k \in DOMAIN known /\ known[k].peer \in Replica
         /\ \A j \in Greater(r) : k <= j
         /\ Election(id[r]) \in Message
         /\ Election(id[r]).type = "ELECTION" /\ Election(id[r]).id = id[r]
         /\ chan' = Sent(r, known[k].peer, Election(id[r]))
         /\ next' = [next EXCEPT ![r] = k + 1]
  BY SendElectionEffect
<1>2. /\ pc[r] = "electing" /\ pc' = [pc EXCEPT ![r] = "sent"]
      /\ UNCHANGED <<id, m_replicasVector, lostElection>>
      /\ pc \in [Replica -> MainPhase] /\ next \in [Replica -> Nat \ {0}]
  BY DEF SendElection, Goto, RMTypeOK
<1>3. PICK q \in Replica, msg \in Message :
         /\ q = known[k].peer /\ msg.type = "ELECTION" /\ msg.id = id[r]
         /\ chan' = Sent(r, q, msg)
  BY <1>1
<1>4. \A x, y \in Replica : chan'[x][y] = IF x = r /\ y = q /\ Reaches(r, q)
                                          THEN Append(chan[x][y], msg) ELSE chan[x][y]
  <2>1. \A x, y \in Replica : Sent(r, q, msg)[x][y] =
           IF x = r /\ y = q /\ Reaches(r, q) THEN Append(chan[x][y], msg) ELSE chan[x][y]
    BY SentTo
  <2> QED
    BY <1>3, <2>1
<1>5. CASE s # r
  <2>1. \A x, y \in Replica : \/ chan'[x][y] = chan[x][y]
                              \/ x = r /\ chan'[x][y] = Append(chan[x][y], msg)
    BY <1>4
  <2>2. QuietFor(s)
    BY <1>3, <1>5, <2>1 DEF QuietFor, Quiet
  <2>3. Stays(s)
    BY <1>1, <1>2, <1>5 DEF Stays
  <2> QED
    BY <2>2, <2>3, QuietIsFine, StaysSound
<1>6. CASE s = r
  <2>1. pc'[r] = "sent" /\ next'[r] = k + 1 /\ id'[r] = id[r]
    BY <1>1, <1>2
  <2>2. ASSUME NEW x \in Replica, NEW y \in Replica
        PROVE  /\ Old(chan'[x][y], chan[x][y], "ANSWER")
               /\ \A t : Has(chan[x][y], t) => Has(chan'[x][y], t)
               /\ x = r /\ y = q /\ Reaches(r, q) => Has(chan'[x][y], "ELECTION")
    <3> DEFINE old == chan[x][y]
               new == chan'[x][y]
    <3>1. old \in Seq(Message)
      BY DEF RMTypeOK
    <3>2. \/ new = old /\ ~(x = r /\ y = q /\ Reaches(r, q))
          \/ new = Append(old, msg)
      BY <1>4
    <3> HIDE DEF old, new
    <3>3. CASE new = old /\ ~(x = r /\ y = q /\ Reaches(r, q))
      BY <3>3 DEF Old, old, new
    <3>4. CASE new = Append(old, msg)
      <4>1. Old(Append(old, msg), old, "ANSWER")
        BY <1>3, <3>1, OldAppend
      <4>2. /\ \A t : Has(old, t) => Has(Append(old, msg), t)
            /\ Has(Append(old, msg), "ELECTION")
        BY <1>3, <3>1, HasAppend
      <4> QED
        BY <3>4, <4>1, <4>2 DEF old, new
    <3> QED
      BY <3>2, <3>3, <3>4
  <2>3. ASSUME NEW y \in Replica, NEW i \in DOMAIN chan'[r][y], chan'[r][y][i].type = "ELECTION"
        PROVE  chan'[r][y][i].id = id[r]
    <3> DEFINE old == chan[r][y]
               new == chan'[r][y]
    <3>1. old \in Seq(Message)
      BY DEF RMTypeOK
    <3>2. new = old \/ new = Append(old, msg)
      BY <1>4
    <3>3. \A j \in DOMAIN old : old[j].type = "ELECTION" => old[j].id = id[r]
      BY <1>6 DEF Sound, WordsAreTrue
    <3>4. i \in DOMAIN new /\ new[i].type = "ELECTION"
      BY <2>3
    <3> HIDE DEF old, new
    <3>5. CASE new = Append(old, msg)
      <4>1. /\ DOMAIN old = 1 .. Len(old) /\ Len(old) \in Nat
            /\ DOMAIN new = 1 .. Len(old) + 1
            /\ \A j \in 1 .. Len(old) : new[j] = old[j]
            /\ new[Len(old) + 1] = msg
        BY <1>3, <3>1, <3>5, Appended
      <4>2. i = Len(old) + 1 \/ i \in DOMAIN old
        BY <3>4, <4>1
      <4>3. new[i].id = id[r]
        BY <1>3, <3>3, <3>4, <4>1, <4>2
      <4> QED
        BY <4>3 DEF new
    <3>6. CASE new = old
      <4>1. new[i].id = id[r]
        BY <3>3, <3>4, <3>6
      <4> QED
        BY <4>1 DEF new
    <3> QED
      BY <3>2, <3>5, <3>6
  <2>4. WordsAreTrue(r)'
    <3>1. pc'[r] \notin Outside
      BY <2>1 DEF Outside
    <3>2. NewIsTrue(r)
      BY <2>1, <2>2, <2>3, <3>1 DEF NewIsTrue
    <3> QED
      BY <1>6, <2>1, <3>1, <3>2, WordsFrame DEF Sound
  <2>5. \A p \in Replica : IsOpen(r, p) => IsOpen(r, p)'
    BY <2>2, OpenHas
  <2>6. Settled(r, q)'
    <3>1. CASE Reaches(r, q)
      <4>1. IsOpen(r, q)'
        BY <1>3, <2>2, <3>1, OpenHas
      <4> QED
        BY <4>1 DEF Settled
    <3>2. CASE ~Reaches(r, q)
      <4>1. Crashed(q) \/ conn[q][r] = "closed"
        BY <3>2 DEF Reaches
      <4>2. MayBeLost(r, q)
        BY <1>3, <4>1 DEF ClosedForAReason, MayBeLost
      <4>3. MayBeLost(r, q)'
        BY <1>3, <4>2, MayBeLostStays
      <4> QED
        BY <4>3 DEF Settled
    <3> QED
      BY <3>1, <3>2
  <2>7. ASSUME ~lostElection'[r], NEW i \in DOMAIN m_replicasVector[r],
               KnownGreater(r, m_replicasVector[r][i])
        PROVE  Settled(r, m_replicasVector[r][i].peer)' \/ i >= k + 1
    <3>1. PICK p \in Replica : /\ p = m_replicasVector[r][i].peer
                             /\ i \in 1 .. Len(m_replicasVector[r])
                             /\ Len(m_replicasVector[r]) \in Nat
      <4>1. m_replicasVector[r] \in Seq(Info)
        BY DEF RMTypeOK
      <4>2. m_replicasVector[r][i] \in Info /\ i \in 1 .. Len(m_replicasVector[r])
            /\ Len(m_replicasVector[r]) \in Nat
        BY <4>1, LenProperties, ElementOfSeq
      <4> QED
        BY <4>2 DEF Info
    <3>2. Settled(r, p) \/ i >= next[r]
      <4>1. pc[r] \in InElection /\ ~lostElection[r]
        BY <1>2, <2>7 DEF InElection
      <4> QED
        BY <1>6, <2>7, <3>1, <4>1 DEF Sound, ElectionOf, Settled
    <3>3. i >= next[r] => i = k \/ i >= k + 1
      <4>1. i >= next[r] => i \in Greater(r)
        BY <1>2, <2>7, <3>1 DEF Greater, KnownGreater
      <4>2. i >= next[r] => k <= i
        BY <1>1, <4>1
      <4> QED
        BY <1>1, <3>1, <4>2
    <3>4. i = k => p = q
      BY <1>3, <3>1
    <3>5. m_replicasVector'[r][i].peer = p
      BY <1>2, <3>1
    <3>6. Settled(r, p) => Settled(r, p)'
      <4>1. NothingGone(r)
        BY <2>5 DEF NothingGone
      <4> QED
        BY <2>1, <2>7, <3>1, <4>1, ElectionSettled
    <3>7. i = k => Settled(r, p)'
      <4>1. SUFFICES ASSUME i = k
                     PROVE  Settled(r, p)'
        OBVIOUS
      <4>2. p = q /\ Settled(r, q)'
        BY <2>6, <3>4, <4>1
      <4> QED
        BY <3>1, <4>2
    <3> QED
      BY <3>2, <3>3, <3>5, <3>6, <3>7
  <2>8. ElectionOf(r)'
    <3>1. ASSUME ~lostElection'[r], NEW i \in DOMAIN m_replicasVector'[r],
                 KnownGreater(r, m_replicasVector[r][i])'
          PROVE  Settled(r, m_replicasVector[r][i].peer)' \/ i >= next'[r]
      <4>1. i \in DOMAIN m_replicasVector[r] /\ KnownGreater(r, m_replicasVector[r][i])
        BY <1>2, <3>1 DEF KnownGreater
      <4>2. Settled(r, m_replicasVector[r][i].peer)' \/ i >= k + 1
        BY <2>7, <3>1, <4>1
      <4> QED
        BY <2>1, <4>2
    <3> QED
      BY <2>1, <3>1 DEF ElectionOf, Settled
  <2> QED
    BY <1>6, <2>4, <2>8 DEF Sound
<1> QED
  BY <1>5, <1>6

LEMMA MovesOnSound ==
    ASSUME RMTypeOK, RMTypeOK', [RMNext]_rmVars, IdsKept, NEW s \in Replica, Sound(s),
           NEW r \in Replica, MovesOn(r)
    PROVE  Sound(s)'
<1>1. /\ pc[r] \in InElection
      /\ \E phase \in InElection \cup {"resetting"} : pc' = [pc EXCEPT ![r] = phase]
      /\ UNCHANGED <<id, next, chan, lostElection, m_replicasVector>>
      /\ pc \in [Replica -> MainPhase]
  BY MovesOnEffect DEF RMTypeOK
<1>2. NewIsTrue(s) /\ NothingGone(s)
  BY <1>1, ChannelsSame
<1>3. CASE s # r
  <2>1. Stays(s)
    BY <1>1, <1>3 DEF Stays
  <2> QED
    BY <1>2, <2>1, StaysSound
<1>4. CASE s = r
  <2>1. pc[s] \in Asking /\ pc'[s] \notin Asking /\ ~lostElection'[s] => Greater(s) = {}
    <3>1. \/ pc[s] = "electing" /\ pc'[s] = "sleeping" /\ Greater(s) = {}
          \/ pc[s] = "sent" /\ pc'[s] = "waiting"
          \/ pc[s] = "waiting" /\ pc'[s] = "woken"
          \/ pc[s] = "woken" /\ pc'[s] = IF lostElection[s] THEN "sleeping" ELSE "electing"
          \/ pc[s] = "sleeping"
      BY <1>1, <1>4 DEF MovesOn, NobodyLeftToAsk, WaitForAnswer, SpuriousWakeUp, AfterAnswer,
         Decide, Goto
    <3> QED
      BY <1>1, <3>1 DEF Asking
  <2>2. pc[s] \in InElection /\ pc'[s] \notin Outside /\ id'[s] = id[s]
    BY <1>1, <1>4 DEF InElection, Outside
  <2>3. WordsAreTrue(s)'
    BY <1>2, <2>2, WordsFrame DEF Sound
  <2>4. ElectionOf(s)'
    BY <1>1, <1>2, <2>1, <2>2, ElectionFrame DEF Sound
  <2> QED
    BY <2>3, <2>4 DEF Sound
<1> QED
  BY <1>3, <1>4

LEMMA SendCoordinatorSound ==
    ASSUME RMTypeOK, RMTypeOK', [RMNext]_rmVars, IdsKept, NEW s \in Replica, Sound(s),
           NEW r \in Replica, SendCoordinator(r)
    PROVE  Sound(s)'
<1>1. /\ pc[r] = "announcing" /\ pc' = [pc EXCEPT ![r] = "notifying"]
      /\ UNCHANGED <<id, next, lostElection, m_replicasVector>>
      /\ pc \in [Replica -> MainPhase]
  BY DEF SendCoordinator, Goto, electionVars, RMTypeOK
<1>2. NewIsTrue(s) /\ NothingGone(s)
  <2>1. Coordinator \in Message /\ Coordinator.type = "COORDINATOR"
    BY SentMessages
  <2>2. \A x, y \in Replica : \/ chan'[x][y] = chan[x][y]
                              \/ chan'[x][y] = Append(chan[x][y], Coordinator)
    BY SendCoordinatorEffect
  <2> QED
    BY <2>1, <2>2, QuietForAll
<1>3. CASE s # r
  <2>1. Stays(s)
    BY <1>1, <1>3 DEF Stays
  <2> QED
    BY <1>2, <2>1, StaysSound
<1>4. CASE s = r
  <2>1. /\ pc[s] \in InElection /\ pc[s] \notin Asking /\ pc'[s] \notin Outside
        /\ id'[s] = id[s]
    BY <1>1, <1>4 DEF InElection, Outside, Asking
  <2>2. WordsAreTrue(s)'
    BY <1>2, <2>1, WordsFrame DEF Sound
  <2>3. ElectionOf(s)'
    BY <1>1, <1>2, <2>1, ElectionFrame DEF Sound
  <2> QED
    BY <2>2, <2>3 DEF Sound
<1> QED
  BY <1>3, <1>4

LEMMA TakeOverSound ==
    ASSUME RMTypeOK, RMTypeOK', [RMNext]_rmVars, IdsKept, NEW s \in Replica, Sound(s),
           NEW r \in Replica, TakeOver(r) \/ ResetElection(r)
    PROVE  Sound(s)'
<1>1. /\ \E phase \in {"resetting", "loop"} : pc' = [pc EXCEPT ![r] = phase]
      /\ lostElection' = lostElection \/ lostElection' = [lostElection EXCEPT ![r] = FALSE]
      /\ UNCHANGED <<id, next, chan, m_replicasVector>>
      /\ pc \in [Replica -> MainPhase] /\ lostElection \in [Replica -> BOOLEAN]
  BY DEF TakeOver, ResetElection, Goto, electionVars, connVars, RMTypeOK
<1>2. NewIsTrue(s) /\ NothingGone(s)
  BY <1>1, ChannelsSame
<1>3. CASE s # r
  <2>1. Stays(s)
    BY <1>1, <1>3 DEF Stays
  <2> QED
    BY <1>2, <2>1, StaysSound
<1>4. CASE s = r
  <2>1. id'[s] = id[s] /\ pc'[s] \notin Outside /\ pc'[s] \notin InElection
    BY <1>1, <1>4 DEF Outside, InElection
  <2> QED
    BY <1>2, <2>1, OverSound
<1> QED
  BY <1>3, <1>4

\* The question is taken out, and its answer is on its way: a "Won" is true.
LEMMA ReceiveElectionSound ==
    ASSUME RMTypeOK, RMTypeOK', [RMNext]_rmVars, IdsKept, NEW s \in Replica, Sound(s),
           ~Crashed(s), ClosedForAReason,
           NEW r \in Replica, NEW p \in Replica, ReceiveElection(r, p)
    PROVE  Sound(s)'
<1>1. PICK question \in Message, answer \in Message :
         /\ chan[p][r] # <<>> /\ 1 \in DOMAIN chan[p][r]
         /\ Head(chan[p][r]) = question /\ question = chan[p][r][1]
         /\ question.type = "ELECTION" /\ answer.type = "ANSWER"
         /\ answer.lost = ~(question.id < id[r])
         /\ \A x, y \in Replica : chan'[x][y] =
               IF x = r /\ y = p /\ Reaches(r, p)
               THEN Append(Consumed(r, p)[x][y], answer) ELSE Consumed(r, p)[x][y]
  <2>1. Receive(r, p, "ELECTION")
    BY DEF ReceiveElection
  <2>2. /\ chan[p][r] # <<>> /\ 1 \in DOMAIN chan[p][r]
        /\ Head(chan[p][r]) \in Message /\ Head(chan[p][r]) = chan[p][r][1]
        /\ Head(chan[p][r]).type = "ELECTION"
    BY <2>1, ReceiveEffect
  <2> DEFINE reply == Answer(~(Head(chan[p][r]).id < id[r]))
  <2>3. /\ reply \in Message /\ reply.type = "ANSWER"
        /\ reply.lost = ~(Head(chan[p][r]).id < id[r])
        /\ \A x, y \in Replica : chan'[x][y] =
              IF x = r /\ y = p /\ Reaches(r, p)
              THEN Append(Consumed(r, p)[x][y], reply) ELSE Consumed(r, p)[x][y]
    BY ReceiveElectionEffect
  <2> HIDE DEF reply
  <2> QED
    BY <2>2, <2>3
<1>2. \A x, y \in Replica :
         /\ Consumed(r, p)[x][y] = IF x = p /\ y = r THEN Tail(chan[x][y]) ELSE chan[x][y]
         /\ Consumed(r, p)[x][y] \in Seq(Message)
  <2>1. Consumed(r, p) \in [Replica -> [Replica -> Seq(Message)]]
    BY <1>1, ConsumedFrom
  <2>2. \A x, y \in Replica : Consumed(r, p)[x][y] =
           IF x = p /\ y = r THEN Tail(chan[x][y]) ELSE chan[x][y]
    BY <1>1, ConsumedFrom
  <2> QED
    BY <2>1, <2>2
<1>3. Stays(s)
  BY DEF ReceiveElection, Stays
<1>4. CASE s # p
  <2>1. ASSUME NEW y \in Replica
        PROVE  /\ Quiet(chan'[s][y], chan[s][y], "ELECTION")
               /\ Quiet(chan'[y][s], chan[y][s], "ANSWER")
    <3>1. chan'[s][y] = chan[s][y] \/ chan'[s][y] = Append(chan[s][y], answer)
      <4>1. Consumed(r, p)[s][y] = chan[s][y]
        BY <1>2, <1>4
      <4>2. \/ chan'[s][y] = Consumed(r, p)[s][y]
            \/ chan'[s][y] = Append(Consumed(r, p)[s][y], answer)
        BY <1>1
      <4> QED
        BY <4>1, <4>2
    <3>2. chan'[y][s] = Consumed(r, p)[y][s]
      BY <1>1, <1>4
    <3>3. \/ chan'[y][s] = chan[y][s]
          \/ y = p /\ s = r /\ chan'[y][s] = Tail(chan[y][s])
      BY <1>2, <3>2
    <3> QED
      BY <1>1, <3>1, <3>3 DEF Quiet
  <2>2. QuietFor(s)
    BY <2>1 DEF QuietFor
  <2> QED
    BY <1>3, <2>2, QuietIsFine, StaysSound
<1>5. CASE s = p
  <2>1. question.id = id[p] /\ pc[p] \notin Outside
    <3>1. IsOpen(p, r)
      BY <1>1 DEF IsOpen
    <3> QED
      BY <1>1, <1>5, <3>1 DEF Sound, WordsAreTrue, Outside
  <2>2. ~answer.lost => ~IsGreater(p, r)'
    <3>1. ~answer.lost => id[p] < id[r]
      BY <1>1, <2>1
    <3>2. id[p] \in Id /\ id[r] \in Id /\ id' = id
      BY DEF RMTypeOK, ReceiveElection
    <3> QED
      BY <3>1, <3>2 DEF IsGreater, Id
  <2>3. ASSUME NEW x \in Replica, NEW y \in Replica
        PROVE  /\ Old(Consumed(r, p)[x][y], chan[x][y], "ELECTION")
               /\ Old(Consumed(r, p)[x][y], chan[x][y], "ANSWER")
    <3>1. chan[x][y] \in Seq(Message)
      BY DEF RMTypeOK
    <3>2. \/ Consumed(r, p)[x][y] = chan[x][y]
          \/ chan[x][y] # <<>> /\ Consumed(r, p)[x][y] = Tail(chan[x][y])
      BY <1>1, <1>2
    <3>3. Old(chan[x][y], chan[x][y], "ELECTION") /\ Old(chan[x][y], chan[x][y], "ANSWER")
      BY DEF Old
    <3>4. chan[x][y] # <<>> => /\ Old(Tail(chan[x][y]), chan[x][y], "ELECTION")
                               /\ Old(Tail(chan[x][y]), chan[x][y], "ANSWER")
      BY <3>1, OldTail
    <3> QED
      BY <3>2, <3>3, <3>4
  <2>4. ASSUME NEW y \in Replica
        PROVE  Old(chan'[p][y], chan[p][y], "ELECTION")
    <3> DEFINE kept == Consumed(r, p)[p][y]
               new  == chan'[p][y]
               old  == chan[p][y]
    <3>1. kept \in Seq(Message) /\ Old(kept, old, "ELECTION")
      BY <1>2, <2>3
    <3>2. new = kept \/ new = Append(kept, answer)
      BY <1>1
    <3> HIDE DEF kept, new, old
    <3>3. Old(Append(kept, answer), kept, "ELECTION")
      BY <1>1, <3>1, OldAppend
    <3>4. new = Append(kept, answer) => Old(new, old, "ELECTION")
      <4>1. SUFFICES ASSUME new = Append(kept, answer),
                            NEW i \in DOMAIN new, new[i].type = "ELECTION"
                     PROVE  \E j \in DOMAIN old : new[i] = old[j]
        BY DEF Old
      <4>2. PICK j \in DOMAIN kept : new[i] = kept[j]
        BY <3>3, <4>1 DEF Old
      <4>3. PICK k \in DOMAIN old : kept[j] = old[k]
        BY <3>1, <4>1, <4>2 DEF Old
      <4> QED
        BY <4>2, <4>3
    <3> QED
      BY <3>1, <3>2, <3>4 DEF new, old
  <2>5. ASSUME NEW y \in Replica
        PROVE  \/ Old(chan'[y][p], chan[y][p], "ANSWER")
               \/ \A i \in DOMAIN chan'[y][p] :
                     chan'[y][p][i].type = "ANSWER" /\ ~chan'[y][p][i].lost
                        => ~IsGreater(p, y)'
    <3>1. CASE chan'[y][p] = Consumed(r, p)[y][p]
      BY <2>3, <3>1
    <3>2. CASE chan'[y][p] # Consumed(r, p)[y][p]
      <4> DEFINE kept == Consumed(r, p)[y][p]
                 new  == chan'[y][p]
                 old  == chan[y][p]
      <4>1. y = r /\ new = Append(kept, answer)
        BY <1>1, <3>2
      <4>2. kept \in Seq(Message) /\ Old(kept, old, "ANSWER")
        BY <1>2, <2>3
      <4>3. \A j \in DOMAIN old : old[j].type = "ANSWER" /\ ~old[j].lost => ~IsGreater(p, y)'
        <5>1. \A j \in DOMAIN old : old[j].type = "ANSWER" /\ ~old[j].lost => ~IsGreater(p, y)
          BY <1>5 DEF Sound, WordsAreTrue
        <5>2. id' = id
          BY DEF ReceiveElection
        <5> QED
          BY <5>1, <5>2 DEF IsGreater
      <4> HIDE DEF kept, new, old
      <4>4. /\ DOMAIN kept = 1 .. Len(kept) /\ Len(kept) \in Nat
            /\ DOMAIN new = 1 .. Len(kept) + 1
            /\ \A i \in 1 .. Len(kept) : new[i] = kept[i]
            /\ new[Len(kept) + 1] = answer
        BY <4>1, <4>2, Appended
      <4>5. ASSUME NEW i \in DOMAIN new, new[i].type = "ANSWER", ~new[i].lost
            PROVE  ~IsGreater(p, y)'
        <5>1. i = Len(kept) + 1 \/ i \in DOMAIN kept
          BY <4>4
        <5>2. CASE i = Len(kept) + 1
          BY <2>2, <4>1, <4>4, <4>5, <5>2
        <5>3. CASE i \in DOMAIN kept
          <6>1. PICK j \in DOMAIN old : kept[i] = old[j]
            BY <4>2, <4>4, <4>5, <5>3 DEF Old
          <6> QED
            BY <4>3, <4>4, <4>5, <5>3, <6>1
        <5> QED
          BY <5>1, <5>2, <5>3
      <4> QED
        BY <4>5 DEF new
    <3> QED
      BY <3>1, <3>2
  <2>6. NewIsTrue(p)
    <3>1. pc'[p] \notin Outside
      BY <1>3, <1>5, <2>1 DEF Stays
    <3> QED
      BY <2>4, <2>5, <3>1 DEF NewIsTrue
  <2>7. NothingGone(p)
    <3>1. SUFFICES ASSUME NEW y \in Replica, IsOpen(p, y)
                   PROVE  IsOpen(p, y)' \/ MayBeLost(p, y)'
      BY DEF NothingGone
    <3>2. CASE y # r
      <4>1. chan'[p][y] = chan[p][y] /\ chan'[y][p] = chan[y][p]
        BY <1>1, <1>2, <3>2
      <4> QED
        BY <3>1, <4>1 DEF IsOpen
    <3>3. CASE y = r /\ Reaches(r, p)
      <4>1. chan'[r][p] = Append(Consumed(r, p)[r][p], answer)
        BY <1>1, <3>3
      <4>2. Has(Append(Consumed(r, p)[r][p], answer), "ANSWER")
        <5> DEFINE kept == Consumed(r, p)[r][p]
        <5>1. kept \in Seq(Message)
          BY <1>2
        <5> HIDE DEF kept
        <5>2. Has(Append(kept, answer), "ANSWER")
          BY <1>1, <5>1, HasAppend
        <5> QED
          BY <5>2 DEF kept
      <4>3. Has(chan'[r][p], "ANSWER")
        BY <4>1, <4>2
      <4> QED
        BY <3>3, <4>3, OpenHas
    <3>4. CASE y = r /\ ~Reaches(r, p)
      <4>1. conn[p][r] = "closed"
        BY <1>5, <3>4 DEF Reaches
      <4>2. MayBeLost(p, r)
        BY <4>1 DEF ClosedForAReason
      <4> QED
        BY <3>4, <4>2, MayBeLostStays
    <3> QED
      BY <3>2, <3>3, <3>4
  <2> QED
    BY <1>3, <1>5, <2>6, <2>7, StaysSound
<1> QED
  BY <1>4, <1>5

\* The answer is taken out, and counts: r has lost, or p is not greater.
LEMMA ReceiveAnswerSound ==
    ASSUME RMTypeOK, RMTypeOK', [RMNext]_rmVars, IdsKept, NEW s \in Replica, Sound(s),
           NEW r \in Replica, NEW p \in Replica, ReceiveAnswer(r, p)
    PROVE  Sound(s)'
<1>1. PICK answer \in Message :
         /\ chan[p][r] # <<>> /\ 1 \in DOMAIN chan[p][r] /\ chan[p][r] \in Seq(Message)
         /\ Head(chan[p][r]) = answer /\ answer = chan[p][r][1]
         /\ answer.type = "ANSWER"
         /\ lostElection' = [lostElection EXCEPT ![r] = lostElection[r] \/ answer.lost]
         /\ pc' = [pc EXCEPT ![r] = IF pc[r] = "waiting" THEN "woken" ELSE pc[r]]
         /\ chan' = Consumed(r, p)
         /\ answer.lost \in BOOLEAN
  <2>1. /\ Receive(r, p, "ANSWER") /\ Head(chan[p][r]).lost \in BOOLEAN
        /\ lostElection' = [lostElection EXCEPT ![r] = lostElection[r] \/ Head(chan[p][r]).lost]
        /\ pc' = [pc EXCEPT ![r] = IF pc[r] = "waiting" THEN "woken" ELSE pc[r]]
        /\ chan' = Consumed(r, p)
    BY ReceiveAnswerEffect
  <2>2. /\ chan[p][r] # <<>> /\ chan[p][r] \in Seq(Message)
        /\ 1 \in DOMAIN chan[p][r] /\ Head(chan[p][r]) = chan[p][r][1]
        /\ Head(chan[p][r]) \in Message /\ Head(chan[p][r]).type = "ANSWER"
    BY <2>1, ReceiveEffect
  <2> QED
    BY <2>1, <2>2
<1>2. /\ UNCHANGED <<id, next, m_replicasVector>>
      /\ pc \in [Replica -> MainPhase] /\ lostElection \in [Replica -> BOOLEAN]
  BY DEF ReceiveAnswer, RMTypeOK
<1>3. \A x, y \in Replica : chan'[x][y] = IF x = p /\ y = r THEN Tail(chan[x][y]) ELSE chan[x][y]
  BY <1>1, ConsumedFrom
<1>4. CASE s # r
  <2>1. QuietFor(s)
    BY <1>1, <1>3, <1>4 DEF QuietFor, Quiet
  <2>2. Stays(s)
    BY <1>1, <1>2, <1>4 DEF Stays
  <2> QED
    BY <2>1, <2>2, QuietIsFine, StaysSound
<1>5. CASE s = r
  <2>1. NewIsTrue(r)
    <3>1. ASSUME NEW x \in Replica, NEW y \in Replica, NEW t
          PROVE  Old(chan'[x][y], chan[x][y], t)
      <4>1. chan[x][y] \in Seq(Message)
        BY DEF RMTypeOK
      <4>2. chan[x][y] # <<>> => Old(Tail(chan[x][y]), chan[x][y], t)
        BY <4>1, OldTail
      <4>3. Old(chan[x][y], chan[x][y], t)
        BY DEF Old
      <4>4. \/ chan'[x][y] = chan[x][y]
            \/ chan[x][y] # <<>> /\ chan'[x][y] = Tail(chan[x][y])
        BY <1>1, <1>3
      <4> QED
        BY <4>2, <4>3, <4>4
    <3> QED
      BY <3>1 DEF NewIsTrue
  <2>2. answer.lost \/ ~IsGreater(r, p)
    BY <1>1, <1>5 DEF Sound, WordsAreTrue
  <2>3. lostElection'[r] <=> lostElection[r] \/ answer.lost
    BY <1>1, <1>2
  <2>4. NothingGone(r)
    <3>1. SUFFICES ASSUME NEW y \in Replica, IsOpen(r, y)
                   PROVE  IsOpen(r, y)' \/ ~IsGreater(r, y) \/ lostElection'[r]
      BY DEF NothingGone
    <3>2. CASE y # p
      <4>1. chan'[r][y] = chan[r][y] /\ chan'[y][r] = chan[y][r]
        BY <1>3, <3>2
      <4> QED
        BY <3>1, <4>1 DEF IsOpen
    <3>3. CASE y = p
      BY <2>2, <2>3, <3>3
    <3> QED
      BY <3>2, <3>3
  <2>5. /\ pc'[r] \in Outside => pc[r] \in Outside
        /\ pc'[r] \in InElection => pc[r] \in InElection
        /\ pc[r] \in Asking => pc'[r] \in Asking
    <3>1. pc'[r] = pc[r] \/ (pc[r] = "waiting" /\ pc'[r] = "woken")
      BY <1>1, <1>2
    <3> QED
      BY <3>1 DEF Outside, InElection, Asking
  <2>6. WordsAreTrue(r)'
    BY <1>2, <1>5, <2>1, <2>5, WordsFrame DEF Sound
  <2>7. ElectionOf(r)'
    BY <1>2, <1>5, <2>3, <2>4, <2>5, ElectionFrame DEF Sound
  <2> QED
    BY <1>5, <2>6, <2>7 DEF Sound
<1> QED
  BY <1>4, <1>5

LEMMA HandlerSound ==
    ASSUME RMTypeOK, RMTypeOK', [RMNext]_rmVars, IdsKept, NEW s \in Replica, Sound(s),
           ~Crashed(s), ClosedForAReason,
           NEW r \in Replica, NEW p \in Replica, HandlerStep(r, p)
    PROVE  Sound(s)'
<1>1. CASE ReceiveElection(r, p)
  BY <1>1, ReceiveElectionSound
<1>2. CASE ReceiveAnswer(r, p)
  BY <1>2, ReceiveAnswerSound
<1>3. CASE ReceiveCoordinator(r, p) \/ ReceiveOther(r, p)
  <2>1. PICK type \in {"REPLICAS", "COORDINATOR"} : Receive(r, p, type)
    BY <1>3 DEF ReceiveCoordinator, ReceiveOther
  <2>2. /\ chan[p][r] # <<>> /\ Head(chan[p][r]).type = type /\ chan' = Consumed(r, p)
        /\ UNCHANGED <<pc, id, next, lostElection, m_replicasVector>>
    <3>1. chan[p][r] # <<>> /\ Head(chan[p][r]).type = type
      BY <2>1, ReceiveEffect
    <3> QED
      BY <1>3, <3>1 DEF ReceiveCoordinator, ReceiveOther, electionVars
  <2>3. \A x, y \in Replica :
           \/ chan'[x][y] = chan[x][y]
           \/ /\ chan[x][y] # <<>> /\ chan'[x][y] = Tail(chan[x][y])
              /\ Head(chan[x][y]).type \in {"REPLICAS", "COORDINATOR"}
    BY <2>2, ConsumedFrom
  <2>4. NewIsTrue(s) /\ NothingGone(s)
    BY <2>3, QuietForAll
  <2>5. Stays(s)
    BY <2>2 DEF Stays
  <2> QED
    BY <2>4, <2>5, StaysSound
<1>4. CASE ConnectionLost(r, p) \/ CloseConnection(r, p)
  <2>1. UNCHANGED <<pc, id, next, lostElection, m_replicasVector, chan>>
    BY <1>4 DEF ConnectionLost, CloseConnection, electionVars
  <2>2. Stays(s)
    BY <2>1 DEF Stays
  <2> QED
    BY <2>1, <2>2, ChannelsSame, StaysSound
<1> QED
  BY <1>1, <1>2, <1>3, <1>4 DEF HandlerStep

\* A question to a replica that crashes is lost.
LEMMA CrashSound ==
    ASSUME RMTypeOK, RMTypeOK', [RMNext]_rmVars, IdsKept, NEW s \in Replica, Sound(s),
           NEW r \in Replica, Crash(r), s # r
    PROVE  Sound(s)'
<1>1. /\ pc' = [pc EXCEPT ![r] = "crashed"]
      /\ \A x, y \in Replica : /\ chan'[x][y] = chan[x][y] \/ chan'[x][y] = <<>>
                               /\ x # r /\ y # r => chan'[x][y] = chan[x][y]
      /\ UNCHANGED <<id, next, lostElection, m_replicasVector>>
  <2>1. \A x, y \in Replica : /\ chan'[x][y] = chan[x][y] \/ chan'[x][y] = <<>>
                              /\ x # r /\ y # r => chan'[x][y] = chan[x][y]
    BY CrashEffect
  <2>2. /\ pc' = [pc EXCEPT ![r] = "crashed"]
        /\ UNCHANGED <<id, next, lostElection, m_replicasVector>>
    BY CrashEffect DEF electionVars
  <2> QED
    BY <2>1, <2>2
<1>2. Stays(s) /\ pc'[r] = "crashed"
  <2>1. pc \in [Replica -> MainPhase]
    BY DEF RMTypeOK
  <2> QED
    BY <1>1, <2>1 DEF Stays
<1>3. NewIsTrue(s)
  BY <1>1 DEF NewIsTrue, Old
<1>4. NothingGone(s)
  <2>1. SUFFICES ASSUME NEW y \in Replica, IsOpen(s, y)
                 PROVE  IsOpen(s, y)' \/ MayBeLost(s, y)'
    BY DEF NothingGone
  <2>2. CASE y = r
    <3>1. Crashed(r)'
      BY <1>2 DEF Crashed
    <3> QED
      BY <2>2, <3>1 DEF MayBeLost
  <2>3. CASE y # r
    <3>1. chan'[s][y] = chan[s][y] /\ chan'[y][s] = chan[y][s]
      BY <1>1, <2>3
    <3> QED
      BY <2>1, <3>1 DEF IsOpen
  <2> QED
    BY <2>2, <2>3
<1> QED
  BY <1>2, <1>3, <1>4, StaysSound

\* The step lemma of the election.
LEMMA SoundStep ==
    ASSUME RMTypeOK, RMTypeOK', [RMNext]_rmVars, \A q \in Replica : Newcomer(q),
           ClosedForAReason, NEW s \in Replica, ~Crashed(s) => Sound(s), ~Crashed(s)'
    PROVE  Sound(s)'
<1>1. ~Crashed(s) /\ Sound(s) /\ IdsKept
  BY CrashedForGood, IdsStep DEF Crashed
<1>2. ASSUME NEW r \in Replica, NEW p \in Replica, Start(r, p)
      PROVE  Sound(s)'
  BY <1>1, <1>2, StartSound
<1>3. ASSUME NEW r \in Replica, NEW p \in Replica, HandlerStep(r, p)
      PROVE  Sound(s)'
  BY <1>1, <1>3, HandlerSound
<1>4. ASSUME NEW r \in Replica, MainStep(r) \/ SpuriousWakeUp(r)
      PROVE  Sound(s)'
  <2>1. CASE Accept(r)
    BY <1>1, <2>1, AcceptSound
  <2>2. CASE ReceiveState(r)
    BY <1>1, <2>2, ReceiveStateSound
  <2>3. CASE HelloUnanswered(r)
    BY <1>1, <2>3, HelloUnansweredSound
  <2>4. CASE StartElection(r)
    BY <1>1, <2>4, StartElectionSound
  <2>5. CASE SendElection(r)
    BY <1>1, <2>5, SendElectionSound
  <2>6. CASE MovesOn(r)
    BY <1>1, <2>6, MovesOnSound
  <2>7. CASE SendCoordinator(r)
    BY <1>1, <2>7, SendCoordinatorSound
  <2>8. CASE TakeOver(r) \/ ResetElection(r)
    BY <1>1, <2>8, TakeOverSound
  <2> QED
    BY <1>4, <2>1, <2>2, <2>3, <2>4, <2>5, <2>6, <2>7, <2>8 DEF MainStep, MovesOn
<1>5. ASSUME NEW r \in Replica, Crash(r)
      PROVE  Sound(s)'
  <2>1. s # r
    <3>1. pc' = [pc EXCEPT ![r] = "crashed"]
      BY <1>5, CrashEffect
    <3> QED
      BY <3>1 DEF RMTypeOK, Crashed
  <2> QED
    BY <1>1, <1>5, <2>1, CrashSound
<1>6. CASE UNCHANGED rmVars
  <2>1. UNCHANGED <<pc, id, next, lostElection, m_replicasVector, chan>>
    BY <1>6 DEF rmVars, electionVars, connVars
  <2>2. Stays(s)
    BY <2>1 DEF Stays
  <2> QED
    BY <1>1, <2>1, <2>2, ChannelsSame, StaysSound
<1> QED
  BY <1>2, <1>3, <1>4, <1>5, <1>6 DEF RMNext
-----------------------------------------------------------------------------
(* The invariant.                                                          *)

LEMMA InitInvariant == RMInit => RMInv
<1> SUFFICES ASSUME RMInit
             PROVE  RMInv
  OBVIOUS
<1>1. RMTypeOK
  <2>1. <<>> \in Seq(Info) /\ <<>> \in Seq(Message)
    BY EmptySeq
  <2>2. /\ pc \in [Replica -> MainPhase]
        /\ id \in [Replica -> Id]
        /\ m_isLeader \in [Replica -> BOOLEAN]
        /\ m_leaderConn \in [Replica -> Replica \cup {NULL}]
        /\ next \in [Replica -> Nat \ {0}]
    BY DEF RMInit, MainPhase, Id
  <2>3. /\ startElection \in [Replica -> BOOLEAN]
        /\ lostElection \in [Replica -> BOOLEAN]
        /\ conn \in [Replica -> [Replica -> ConnPhase]]
        /\ m_isConnectedToLeader \in [Replica -> [Replica -> BOOLEAN]]
    BY DEF RMInit, ConnPhase
  <2>4. /\ m_replicasVector \in [Replica -> Seq(Info)]
        /\ backlog \in [Replica -> Seq(Info)]
        /\ chan \in [Replica -> [Replica -> Seq(Message)]]
        /\ serving \subseteq Replica
    BY <2>1, InitialLeaderAssumption DEF RMInit
  <2> QED
    BY <2>2, <2>3, <2>4 DEF RMTypeOK
<1>2. \A r, p \in Replica : /\ chan[r][p] = <<>> /\ DOMAIN chan[r][p] = {}
                            /\ m_replicasVector[r] = <<>> /\ DOMAIN m_replicasVector[r] = {}
                            /\ backlog[r] = <<>> /\ DOMAIN backlog[r] = {}
                            /\ conn[r][p] = "none" /\ ~m_isConnectedToLeader[r][p]
  BY DEF RMInit
<1>3. \A r \in Replica : /\ pc[r] \in {"off", "loop"}
                         /\ r = InitialLeader <=> pc[r] = "loop"
                         /\ m_isLeader[r] <=> r = InitialLeader
                         /\ id[r] = -1 /\ ~startElection[r] /\ ~lostElection[r]
  BY DEF RMInit
<1>4. FirstLeaderAlone
  BY <1>2, <1>3, InitialLeaderAssumption DEF FirstLeaderAlone
<1>5. ClosedForAReason
  BY <1>2 DEF ClosedForAReason
<1>6. ASSUME NEW r \in Replica
      PROVE  Newcomer(r)
  <2>1. Unknown(r)
    BY <1>2 DEF Unknown, Lists
  <2> QED
    BY <1>2, <1>3, <2>1 DEF Newcomer
<1>7. ASSUME NEW r \in Replica
      PROVE  WordsAreTrue(r) /\ ElectionOf(r)
  <2>1. \A p \in Replica : ~IsOpen(r, p)
    BY <1>2 DEF IsOpen
  <2> QED
    BY <1>2, <1>3, <2>1 DEF WordsAreTrue, ElectionOf
<1> QED
  BY <1>1, <1>4, <1>5, <1>6, <1>7 DEF RMInv

LEMMA InvariantStep == RMInv /\ [RMNext]_rmVars => RMInv'
<1> SUFFICES ASSUME RMInv, [RMNext]_rmVars
             PROVE  RMInv'
  OBVIOUS
<1>1. /\ RMTypeOK /\ FirstLeaderAlone /\ ClosedForAReason
      /\ \A r \in Replica : Newcomer(r) /\ (~Crashed(r) => Sound(r))
  BY DEF RMInv, Sound
<1>2. RMTypeOK'
  BY <1>1, TypeStep
<1>3. \A r \in Replica : Newcomer(r)'
  BY <1>1, <1>2, NewcomerStep
<1>4. FirstLeaderAlone'
  BY <1>1, <1>2, FirstLeaderStep
<1>5. ClosedForAReason'
  BY <1>1, <1>2, ClosedStep
<1>6. \A r \in Replica : ~Crashed(r)' => Sound(r)'
  BY <1>1, <1>2, SoundStep
<1> QED
  BY <1>2, <1>3, <1>4, <1>5, <1>6 DEF RMInv, Sound

\* In every behaviour of the replica managers, with any number of replicas and of
\* crashes, wherever wait() returns without a notification, the inductive invariant
\* holds: the types, the lone first leader, why connections are closed, who knows a
\* newcomer, that questions and answers are true, and what an election has settled
\* (ReplicaManager::run, sendElection).
THEOREM RMInvariant == RMSpec => []RMInv
BY InitInvariant, InvariantStep, PTL DEF RMSpec

\* Nobody takes over from the first leader while it runs: the handlers set
\* startElection only when the connection of a leader is lost.
THEOREM NobodyTakesOver == RMSpec => []NoTakeoverFromARunningLeader
<1>1. RMInv => NoTakeoverFromARunningLeader
  BY DEF RMInv, FirstLeaderAlone, NoTakeoverFromARunningLeader, Leaders
<1> QED
  BY <1>1, RMInvariant, PTL

\* Who is about to announce itself ignores no greater replica: sendElection has asked
\* each one its list names, and the answer is not there, came too late, or said that it
\* is not greater; spurious returns of wait() included.
THEOREM NobodyGreaterIsEverIgnored == RMSpec => []NobodyGreaterIsIgnored
<1>1. RMInv => NobodyGreaterIsIgnored
  <2>1. SUFFICES ASSUME RMInv, NEW r \in Replica, pc[r] \in {"announcing", "notifying"},
                        ~lostElection[r], NEW i \in DOMAIN m_replicasVector[r],
                        KnownGreater(r, m_replicasVector[r][i])
                 PROVE  Settled(r, m_replicasVector[r][i].peer)
    BY DEF NobodyGreaterIsIgnored, Settled
  <2>2. ~Crashed(r) /\ pc[r] \in InElection /\ pc[r] \notin Asking
    BY <2>1 DEF Crashed, InElection, Asking
  <2>3. ElectionOf(r)
    BY <2>1, <2>2 DEF RMInv
  <2> QED
    BY <2>1, <2>2, <2>3 DEF ElectionOf, Settled, Asking
<1> QED
  BY <1>1, RMInvariant, PTL

=============================================================================
