--------------------------- MODULE FrontendProofs ---------------------------
(***************************************************************************)
(* What TLAPS proves of Frontend for any number of clients and of changes  *)
(* of leader: FrontendInv is an inductive invariant, so no server sees a   *)
(* request before the LOGIN of its client, and no connection is left       *)
(* without a consumer.                                                     *)
(***************************************************************************)
EXTENDS Frontend, FiniteSetTheorems, SequenceTheorems, TLAPS

-----------------------------------------------------------------------------
(* Numbers of connections.                                                 *)

\* What is treated is counted by a number no greater than that of the announcers,
\* and there is at least one if anything is.
LEMMA TreatedIsCounted ==
    /\ Cardinality(Announcer) \in Nat
    /\ Cardinality(Treated) \in 0 .. Cardinality(Announcer)
    /\ Treated # {} => Cardinality(Treated) >= 1
<1>1. IsFiniteSet(Announcer)
  BY FrontendAssumption
<1>2. Treated \subseteq Announcer
  BY DEF Treated
<1>3. /\ Cardinality(Treated) <= Cardinality(Announcer)
      /\ IsFiniteSet(Treated)
  BY <1>1, <1>2, FS_Subset
<1>4. Cardinality(Announcer) \in Nat /\ Cardinality(Treated) \in Nat
  BY <1>1, <1>3, FS_CardinalityType
<1>5. Treated # {} => Cardinality(Treated) # 0
  BY <1>3, FS_EmptySet
<1> QED
  BY <1>3, <1>4, <1>5

\* When one more announcement has been treated there is one more to count.
LEMMA OneMoreIsTreated ==
    ASSUME NEW a \in Announcer, notice[a] = "accepted",
           notice \in [Announcer -> {"absent", "waiting", "accepted", "done"}],
           notice' = [notice EXCEPT ![a] = "done"]
    PROVE  /\ Treated' # {}
           /\ Cardinality(Treated') = Cardinality(Treated) + 1
<1>1. Treated' = Treated \cup {a} /\ a \notin Treated
  BY DEF Treated
<1>2. IsFiniteSet(Treated)
  BY FrontendAssumption, FS_Subset DEF Treated
<1> QED
  BY <1>1, <1>2, FS_AddElement

\* The numbers connections have, and the one the handler's first consumer is for.
LEMMA NumberFacts ==
    /\ MaxConn \in Nat \ {0}
    /\ 1 \in Number
    /\ Number = 1 .. MaxConn
    /\ NULL = 0 /\ NULL \notin Number
    /\ \A n \in Number : n \in Nat /\ n # NULL
BY TreatedIsCounted DEF MaxConn, Number, NULL

\* A change of what one connection of one handler has, or none: what is written,
\* the server's end, and the consumers.
LEMMA SentChanged ==
    ASSUME FrontendTypeOK, NEW h \in Client, NEW n \in Number, NEW s \in SUBSET Packet,
           sent' = sent \/ sent' = [sent EXCEPT ![h][n] = s]
    PROVE  /\ sent' \in [Client -> [Number -> SUBSET Packet]]
           /\ \A u \in Client, w \in Number :
                sent'[u][w] = sent[u][w] \/ (u = h /\ w = n /\ sent'[u][w] = s)
           /\ sent' = [sent EXCEPT ![h][n] = s] => sent'[h][n] = s
<1>1. [sent[h] EXCEPT ![n] = s] \in [Number -> SUBSET Packet]
  BY DEF FrontendTypeOK
<1>2. CASE sent' = [sent EXCEPT ![h][n] = s]
  <2>1. sent' = [sent EXCEPT ![h] = [sent[h] EXCEPT ![n] = s]]
    BY <1>2
  <2> QED
    BY <1>1, <2>1 DEF FrontendTypeOK
<1>3. CASE sent' # [sent EXCEPT ![h][n] = s]
  BY <1>3 DEF FrontendTypeOK
<1> QED
  BY <1>2, <1>3

LEMMA PeerChanged ==
    ASSUME FrontendTypeOK, NEW h \in Client, NEW n \in Number,
           NEW s \in PeerPhase, peer' = peer \/ peer' = [peer EXCEPT ![h][n] = s]
    PROVE  /\ peer' \in [Client -> [Number -> PeerPhase]]
           /\ \A u \in Client, w \in Number :
                peer'[u][w] = peer[u][w] \/ (u = h /\ w = n /\ peer'[u][w] = s)
<1>1. [peer[h] EXCEPT ![n] = s] \in [Number -> PeerPhase]
  BY DEF FrontendTypeOK
<1>2. peer' = peer \/ peer' = [peer EXCEPT ![h] = [peer[h] EXCEPT ![n] = s]]
  OBVIOUS
<1>3. CASE peer' = peer
  BY <1>3 DEF FrontendTypeOK
<1>4. CASE peer' = [peer EXCEPT ![h] = [peer[h] EXCEPT ![n] = s]]
  BY <1>1, <1>4 DEF FrontendTypeOK
<1> QED
  BY <1>2, <1>3, <1>4

LEMMA ConsumerChanged ==
    ASSUME FrontendTypeOK, NEW h \in Client, NEW n \in Number, NEW s \in ConsumerPhase,
           consumer' = [consumer EXCEPT ![h][n] = s]
    PROVE  /\ consumer' \in [Client -> [Number -> ConsumerPhase]]
           /\ \A u \in Client, w \in Number :
                consumer'[u][w] = consumer[u][w] \/ (u = h /\ w = n)
           /\ consumer'[h][n] = s
<1>1. [consumer[h] EXCEPT ![n] = s] \in [Number -> ConsumerPhase]
  BY DEF FrontendTypeOK
<1>2. consumer' = [consumer EXCEPT ![h] = [consumer[h] EXCEPT ![n] = s]]
  OBVIOUS
<1> QED
  BY <1>1, <1>2 DEF FrontendTypeOK

LEMMA OnChanged ==
    ASSUME FrontendTypeOK, NEW h \in Client, NEW n \in Number, NEW c \in Number \cup {NULL},
           on' = [on EXCEPT ![h][n] = c]
    PROVE  /\ on' \in [Client -> [Number -> Number \cup {NULL}]]
           /\ \A u \in Client, w \in Number : on'[u][w] = on[u][w] \/ (u = h /\ w = n)
           /\ on'[h][n] = c
<1>1. [on[h] EXCEPT ![n] = c] \in [Number -> Number \cup {NULL}]
  BY DEF FrontendTypeOK
<1>2. on' = [on EXCEPT ![h] = [on[h] EXCEPT ![n] = c]]
  OBVIOUS
<1> QED
  BY <1>1, <1>2 DEF FrontendTypeOK

-----------------------------------------------------------------------------
(* What a step that leaves alone what a conjunct reads keeps of it.        *)

LEMMA Frames ==
    ASSUME FrontendInv
    PROVE  /\ UNCHANGED sent => RequestsAreLoggedIn'
           /\ UNCHANGED <<consumer, on, serverConn, handler, current>> => OpenIsRead'
           /\ UNCHANGED <<sent, client, requests, named, serverConn>> => KnownAreLoggedIn'
           /\ UNCHANGED <<peer, sent>> => ServedAreLoggedIn'
           /\ UNCHANGED <<client, handler, made, named, clientHandlers, todo, requests>>
              => HandlersBegin'
           /\ UNCHANGED <<consumer, on>> => ReceiversReceive'
           /\ UNCHANGED <<backlog, client, handler, notice>> => BacklogIsNew'
           /\ UNCHANGED <<current, main, made>> => OneIsCurrent'
           /\ UNCHANGED <<shouldRestablish, main, notice, made, todo>> => RoundsAreAnnounced'
<1>1. UNCHANGED sent => RequestsAreLoggedIn'
  BY DEF FrontendInv, RequestsAreLoggedIn
<1>2. UNCHANGED <<consumer, on, serverConn, handler, current>> => OpenIsRead'
  BY DEF FrontendInv, OpenIsRead, Attends
<1>3. UNCHANGED <<sent, client, requests, named, serverConn>> => KnownAreLoggedIn'
  BY DEF FrontendInv, KnownAreLoggedIn, IsKnown
<1>4. UNCHANGED <<client, handler, made, named, clientHandlers, todo, requests>>
      => HandlersBegin'
  BY DEF FrontendInv, HandlersBegin
<1>5. UNCHANGED <<backlog, client, handler, notice>> => BacklogIsNew'
  BY DEF FrontendInv, BacklogIsNew
<1>6. UNCHANGED <<current, main, made>> => OneIsCurrent'
  BY DEF FrontendInv, OneIsCurrent
<1>7. UNCHANGED <<consumer, on>> => ReceiversReceive'
  BY DEF FrontendInv, ReceiversReceive
<1>8. UNCHANGED <<shouldRestablish, main, notice, made, todo>> => RoundsAreAnnounced'
  BY DEF FrontendInv, RoundsAreAnnounced, Spares, Treated
<1>9. UNCHANGED <<peer, sent>> => ServedAreLoggedIn'
  BY DEF FrontendInv, ServedAreLoggedIn
<1> QED
  BY <1>1, <1>2, <1>3, <1>4, <1>5, <1>6, <1>7, <1>8, <1>9

\* Who is served already stays logged in if what was sent to him stays sent.
LEMMA ServedStay ==
    ASSUME FrontendInv,
           \A h \in Client, n \in Number : peer'[h][n] = "serving" =>
               /\ peer[h][n] = "serving"
               /\ "LOGIN" \in sent[h][n] => "LOGIN" \in sent'[h][n]
    PROVE  ServedAreLoggedIn'
BY DEF FrontendInv, ServedAreLoggedIn

\* A send ends the process or not.
LEMMA SendEnds ==
    ASSUME NEW gone \in BOOLEAN, SendMayFail(gone)
    PROVE  crashed' \in BOOLEAN
BY DEF SendMayFail

-----------------------------------------------------------------------------
(* main()                                                                  *)

\* Nothing has been made for a handler before it is accepted.
LEMMA AcceptKeepsInv ==
    ASSUME FrontendInv, Accept
    PROVE  FrontendInv'
<1> DEFINE h == Head(backlog)
<1> USE NumberFacts
<1>1. FrontendTypeOK /\ HandlersBegin /\ BacklogIsNew /\ OneIsCurrent /\ RoundsAreAnnounced
  BY DEF FrontendInv
<1>2. /\ backlog \in Seq(Client \cup Announcer) /\ backlog # <<>> /\ h \in Client
      /\ h = backlog[1] /\ 1 \in DOMAIN backlog
      /\ backlog' = Tail(backlog) /\ backlog' \in Seq(Client \cup Announcer)
      /\ \A i \in DOMAIN backlog' : i + 1 \in DOMAIN backlog /\ backlog'[i] = backlog[i + 1]
                                   /\ i + 1 # 1 /\ i \in Nat
  BY <1>1, HeadTailProperties DEF Accept, FrontendTypeOK
<1>3. handler[h] = "none" /\ client[h] # "absent"
  BY <1>1, <1>2 DEF BacklogIsNew
<1>4. made[h] = 0 /\ ~named[h] /\ h \notin todo /\ main = "accepting"
  BY <1>1, <1>2, <1>3 DEF HandlersBegin, Accept
<1> HIDE DEF h
<1>5. /\ made' = [made EXCEPT ![h] = 1] /\ made'[h] = 1
      /\ handler' = [handler EXCEPT ![h] = "starting"]
      /\ serverConn' = [serverConn EXCEPT ![h] = IF leader = "listening" THEN 1 ELSE NULL]
      /\ clientHandlers' = clientHandlers \cup {h}
      /\ main' = "checking"
      /\ UNCHANGED <<shouldRestablish, todo, current, isFinished, named, consumer, on, crashed,
                     client, notice, requests, leader, closed>>
  BY <1>1, <1>2, <1>4 DEF Accept, Connect, Connection, FrontendTypeOK, consumerVars, h
<1>6. /\ peer' \in [Client -> [Number -> PeerPhase]]
      /\ sent' \in [Client -> [Number -> SUBSET Packet]]
      /\ \A k \in Client, n \in Number :
            sent'[k][n] = sent[k][n] \/ (k = h /\ n = 1 /\ sent'[k][n] = {})
      /\ \A k \in Client, n \in Number :
            \/ peer'[k][n] = peer[k][n] /\ sent'[k][n] = sent[k][n]
            \/ peer'[k][n] = "open"
  <2>1. \/ /\ peer' = peer
           /\ sent' = sent
        \/ /\ peer' = [peer EXCEPT ![h][1] = "open"]
           /\ sent' = [sent EXCEPT ![h][1] = {}]
    BY <1>5 DEF Accept, Connect, h
  <2>2. /\ {} \in SUBSET Packet /\ "open" \in PeerPhase
        /\ 1 \in Number /\ h \in Client /\ FrontendTypeOK
    BY <1>1, <1>2, NumberFacts DEF PeerPhase
  <2>3. peer' \in [Client -> [Number -> PeerPhase]]
    BY <2>1, <2>2, PeerChanged
  <2>4. /\ sent' \in [Client -> [Number -> SUBSET Packet]]
        /\ \A u \in Client, w \in Number :
                sent'[u][w] = sent[u][w] \/ (u = h /\ w = 1 /\ sent'[u][w] = {})
    <3>1. sent' = sent \/ sent' = [sent EXCEPT ![h][1] = {}]
      BY <2>1
    <3> QED
      BY <2>2, <3>1, SentChanged
  <2>5. ASSUME NEW k \in Client, NEW n \in Number
        PROVE  \/ peer'[k][n] = peer[k][n] /\ sent'[k][n] = sent[k][n]
               \/ peer'[k][n] = "open"
    <3>1. CASE peer' = peer /\ sent' = sent
      BY <3>1
    <3>2. CASE /\ peer' = [peer EXCEPT ![h][1] = "open"]
               /\ sent' = [sent EXCEPT ![h][1] = {}]
      <4>1. CASE k = h /\ n = 1
        BY <2>2, <3>2, <4>1 DEF FrontendTypeOK
      <4>2. CASE ~(k = h /\ n = 1)
        BY <2>2, <3>2, <4>2 DEF FrontendTypeOK
      <4> QED
        BY <4>1, <4>2
    <3> QED
      BY <2>1, <3>1, <3>2
  <2> QED
    BY <2>3, <2>4, <2>5
<1>7. FrontendTypeOK'
  <2>2. made' \in [Client -> 0 .. MaxConn]
    BY <1>1, <1>2, <1>5 DEF FrontendTypeOK
  <2> QED
    BY <1>1, <1>2, <1>5, <1>6, <2>2 DEF FrontendTypeOK, HandlerPhase
<1>8. RequestsAreLoggedIn'
  BY <1>1, <1>2, <1>6 DEF FrontendInv, FrontendTypeOK, RequestsAreLoggedIn
<1>9. OpenIsRead'
  BY <1>1, <1>2, <1>5 DEF FrontendInv, FrontendTypeOK, OpenIsRead, Attends
<1>10. KnownAreLoggedIn'
  <2>1. KnownAreLoggedIn /\ serverConn \in [Client -> Number \cup {NULL}]
    BY <1>1 DEF FrontendInv, FrontendTypeOK
  <2> SUFFICES ASSUME NEW k \in Client, IsKnown(k)'
               PROVE  named'[k] /\ (serverConn'[k] # NULL => "LOGIN" \in sent'[k][serverConn'[k]])
    BY DEF KnownAreLoggedIn
  <2>2. named' = named /\ IsKnown(k)
    <3>1. \A n \in Number : "LOGIN" \in sent'[k][n] => "LOGIN" \in sent[k][n]
      BY <1>6
    <3> QED
      BY <1>5, <3>1 DEF IsKnown, Accept, handlerVars
  <2>3. named[k] /\ (serverConn[k] # NULL => "LOGIN" \in sent[k][serverConn[k]])
    BY <2>1, <2>2 DEF KnownAreLoggedIn
  <2>4. k # h
    BY <1>4, <2>3
  <2>5. serverConn'[k] = serverConn[k] /\ \A n \in Number : sent'[k][n] = sent[k][n]
    BY <1>5, <1>6, <2>1, <2>4
  <2> QED
    BY <2>1, <2>2, <2>3, <2>5
<1>11. HandlersBegin'
  BY <1>1, <1>2, <1>3, <1>5 DEF FrontendTypeOK, HandlersBegin
<1>12. BacklogIsNew'
  BY <1>1, <1>2, <1>5 DEF FrontendTypeOK, BacklogIsNew
<1>13. OneIsCurrent'
  BY <1>1, <1>4, <1>5 DEF OneIsCurrent
<1>14. RoundsAreAnnounced'
  <2>1. Treated' = Treated
    BY <1>5 DEF Treated
  <2> QED
    BY <1>1, <1>2, <1>4, <1>5, <2>1, TreatedIsCounted DEF FrontendTypeOK, RoundsAreAnnounced, Spares
<1>15. ServedAreLoggedIn'
  <2>1. \A k \in Client, n \in Number : peer'[k][n] = "serving" =>
           peer[k][n] = "serving" /\ sent'[k][n] = sent[k][n]
    BY <1>6
  <2> QED
    BY <2>1, ServedStay
<1> QED
  BY <1>5, <1>7, <1>8, <1>9, <1>10, <1>11, <1>12, <1>13, <1>14, <1>15, Frames DEF FrontendInv

LEMMA AcceptNoticeKeepsInv ==
    ASSUME FrontendInv, AcceptNotice
    PROVE  FrontendInv'
<1> DEFINE a == Head(backlog)
<1>1. FrontendTypeOK /\ HandlersBegin /\ BacklogIsNew /\ OneIsCurrent /\ RoundsAreAnnounced
  BY DEF FrontendInv
<1>2. /\ backlog \in Seq(Client \cup Announcer) /\ backlog # <<>> /\ a \in Announcer
      /\ a = backlog[1] /\ 1 \in DOMAIN backlog
      /\ backlog' = Tail(backlog) /\ backlog' \in Seq(Client \cup Announcer)
      /\ \A i \in DOMAIN backlog' : i + 1 \in DOMAIN backlog /\ backlog'[i] = backlog[i + 1]
                                   /\ i + 1 # 1 /\ i \in Nat
  BY <1>1, HeadTailProperties DEF AcceptNotice, FrontendTypeOK
<1>3. notice[a] = "waiting"
  BY <1>1, <1>2 DEF BacklogIsNew
<1> HIDE DEF a
<1>4. /\ notice' = [notice EXCEPT ![a] = "accepted"]
      /\ main = "accepting" /\ main' = "checking"
      /\ UNCHANGED <<shouldRestablish, clientHandlers, todo, current, made, handler, isFinished,
                     named, serverConn, consumer, on, crashed, client, requests, leader, peer,
                     closed, sent>>
  BY DEF AcceptNotice, handlerVars, consumerVars, linkVars, a
<1>5. FrontendTypeOK'
  BY <1>1, <1>2, <1>4 DEF FrontendTypeOK
<1>6. BacklogIsNew'
  BY <1>1, <1>2, <1>4, FrontendAssumption DEF FrontendTypeOK, BacklogIsNew
<1>7. OneIsCurrent'
  BY <1>1, <1>4 DEF OneIsCurrent
<1>8. RoundsAreAnnounced'
  <2>1. Treated' = Treated
    BY <1>1, <1>2, <1>3, <1>4 DEF Treated, FrontendTypeOK
  <2> QED
    BY <1>1, <1>4, <2>1 DEF RoundsAreAnnounced, Spares
<1> QED
  BY <1>4, <1>5, <1>6, <1>7, <1>8, Frames DEF FrontendInv

LEMMA AcceptTimeoutKeepsInv ==
    ASSUME FrontendInv, AcceptTimeout
    PROVE  FrontendInv'
<1>1. FrontendTypeOK /\ OneIsCurrent /\ RoundsAreAnnounced
  BY DEF FrontendInv
<1>2. /\ main = "accepting" /\ main' = "checking"
      /\ UNCHANGED <<shouldRestablish, clientHandlers, todo, current, made, handler, isFinished,
                     named, serverConn, consumer, on, crashed, client, notice, requests, backlog,
                     leader, peer, closed, sent>>
  BY DEF AcceptTimeout, handlerVars, consumerVars, worldVars, linkVars
<1>3. FrontendTypeOK'
  BY <1>1, <1>2 DEF FrontendTypeOK
<1>4. OneIsCurrent'
  BY <1>1, <1>2 DEF OneIsCurrent
<1>5. RoundsAreAnnounced'
  BY <1>1, <1>2 DEF RoundsAreAnnounced, Spares, Treated
<1> QED
  BY <1>2, <1>3, <1>4, <1>5, Frames DEF FrontendInv

\* A round begins, and everybody in it has a connection to spare.
LEMMA CheckFlagKeepsInv ==
    ASSUME FrontendInv, CheckFlag
    PROVE  FrontendInv'
<1>1. FrontendTypeOK /\ HandlersBegin /\ OneIsCurrent /\ RoundsAreAnnounced
  BY DEF FrontendInv
<1>2. /\ main = "checking"
      /\ clientHandlers' \subseteq clientHandlers
      /\ todo' = todo \/ todo' = clientHandlers'
      /\ IF shouldRestablish THEN main' = "restablishing" ELSE main' = "accepting"
      /\ UNCHANGED <<shouldRestablish, current, made, handler, isFinished,
                     named, serverConn, consumer, on, crashed, client, notice, requests, backlog,
                     leader, peer, closed, sent>>
  BY DEF CheckFlag, handlerVars, consumerVars, worldVars, linkVars
<1>3. FrontendTypeOK'
  <2>1. main' \in {"checking", "accepting", "restablishing", "restarting"}
    BY <1>2
  <2>2. clientHandlers' \subseteq Client /\ todo' \subseteq Client
    BY <1>1, <1>2 DEF FrontendTypeOK
  <2> QED
    BY <1>1, <1>2, <2>1, <2>2 DEF FrontendTypeOK
<1>4. HandlersBegin'
  BY <1>1, <1>2 DEF HandlersBegin
<1>5. OneIsCurrent'
  BY <1>1, <1>2 DEF OneIsCurrent
<1>6. RoundsAreAnnounced'
  <2>1. Treated' = Treated
    BY <1>2 DEF Treated
  <2>2. \A h \in Client : made[h] <= 1 + Cardinality(Treated)
    BY <1>1, TreatedIsCounted DEF RoundsAreAnnounced, FrontendTypeOK
  <2> QED
    BY <1>1, <1>2, <2>1, <2>2 DEF RoundsAreAnnounced, Spares
<1> QED
  BY <1>2, <1>3, <1>4, <1>5, <1>6, Frames DEF FrontendInv

\* The connection to spare is used, and the LOGIN is on it if the name is known.
LEMMA ReconnectKeepsInv ==
    ASSUME FrontendInv, Reconnect
    PROVE  FrontendInv'
<1>1. FrontendTypeOK /\ KnownAreLoggedIn /\ HandlersBegin /\ OneIsCurrent /\ RoundsAreAnnounced
  BY DEF FrontendInv
<1>2. PICK h \in todo :
         /\ Connect(h, {IF named[h] THEN "LOGIN" ELSE "LOGIN without name"})
         /\ Replace(h, Connection(h))
         /\ current' = {h}
         /\ todo' = todo \ {h}
  BY DEF Reconnect
<1> DEFINE n == made[h] + 1
           p == {IF named[h] THEN "LOGIN" ELSE "LOGIN without name"}
<1>3. /\ main = "restablishing" /\ main' = "restarting" /\ current = {}
      /\ h \in Client /\ handler[h] # "none"
      /\ UNCHANGED <<shouldRestablish, clientHandlers, handler, isFinished, named, consumer, on,
                     crashed, client, notice, requests, backlog, leader>>
  BY <1>1, <1>2 DEF Reconnect, FrontendTypeOK, HandlersBegin, OneIsCurrent,
                    handlerVars, consumerVars, worldVars
<1>4. /\ n \in Number
      /\ made[h] <= Cardinality(Treated)
  <2>1. Spares(h)
    BY <1>1, <1>2, <1>3 DEF RoundsAreAnnounced, Spares
  <2>2. made[h] <= Cardinality(Treated)
    BY <1>1, <1>3, <2>1 DEF RoundsAreAnnounced
  <2>3. made[h] \in Nat
    BY <1>1, <1>3, NumberFacts DEF FrontendTypeOK
  <2> QED
    BY <2>2, <2>3, TreatedIsCounted DEF Number, MaxConn
<1>5. /\ made' = [made EXCEPT ![h] = n] /\ made'[h] = n
      /\ serverConn' = [serverConn EXCEPT ![h] = IF leader = "listening" THEN n ELSE NULL]
      /\ closed' = [closed EXCEPT ![h] = @ \cup ({serverConn[h]} \ {NULL})]
      /\ \/ leader = "listening" /\ sent' = [sent EXCEPT ![h][n] = p]
                                 /\ peer' = [peer EXCEPT ![h][n] = "open"]
         \/ leader # "listening" /\ sent' = sent /\ peer' = peer
  BY <1>1, <1>2, <1>3 DEF Connect, Connection, Replace, FrontendTypeOK
<1>6. p \in SUBSET Packet /\ "SEND" \notin p /\ (named[h] => "LOGIN" \in p)
      /\ ("LOGIN" \in p => named[h])
  BY DEF Packet
<1> HIDE DEF n, p
<1>7. /\ sent' \in [Client -> [Number -> SUBSET Packet]]
      /\ \A u \in Client, w \in Number :
            sent'[u][w] = sent[u][w] \/ (u = h /\ w = n /\ sent'[u][w] = p)
      /\ leader = "listening" => sent'[h][n] = p
  <2>1. PICK m \in Number, q \in SUBSET Packet : m = n /\ q = p
    BY <1>4, <1>6
  <2>2. sent' = sent \/ sent' = [sent EXCEPT ![h][m] = q]
    BY <1>5, <2>1
  <2>3. /\ sent' \in [Client -> [Number -> SUBSET Packet]]
        /\ \A u \in Client, w \in Number :
              sent'[u][w] = sent[u][w] \/ (u = h /\ w = m /\ sent'[u][w] = q)
        /\ sent' = [sent EXCEPT ![h][m] = q] => sent'[h][m] = q
    BY <1>1, <1>3, <2>2, SentChanged
  <2> QED
    BY <1>5, <2>1, <2>3
<1>8. /\ peer' \in [Client -> [Number -> PeerPhase]]
      /\ \A u \in Client, w \in Number :
            \/ peer'[u][w] = peer[u][w] /\ sent'[u][w] = sent[u][w]
            \/ peer'[u][w] = "open"
  <2>1. PICK m \in Number : m = n
    BY <1>4
  <2>2. \/ peer' = [peer EXCEPT ![h][m] = "open"]
        \/ peer' = peer /\ sent' = sent
    BY <1>5, <2>1
  <2>3. "open" \in PeerPhase
    BY DEF PeerPhase
  <2>4. peer' \in [Client -> [Number -> PeerPhase]]
    BY <1>1, <1>3, <2>2, <2>3, PeerChanged
  <2>5. ASSUME NEW u \in Client, NEW w \in Number
        PROVE  \/ peer'[u][w] = peer[u][w] /\ sent'[u][w] = sent[u][w]
               \/ peer'[u][w] = "open"
    <3>1. CASE u = h /\ w = m
      BY <1>1, <1>3, <2>2, <3>1 DEF FrontendTypeOK
    <3>2. CASE ~(u = h /\ w = m)
      <4>1. sent'[u][w] = sent[u][w]
        BY <1>7, <2>1, <3>2
      <4>2. peer'[u][w] = peer[u][w]
        BY <1>1, <1>3, <2>2, <3>2 DEF FrontendTypeOK
      <4> QED
        BY <4>1, <4>2
    <3> QED
      BY <3>1, <3>2
  <2> QED
    BY <2>4, <2>5
<1>9. FrontendTypeOK'
  <2>1. made' \in [Client -> 0 .. MaxConn]
    BY <1>1, <1>3, <1>4, <1>5, NumberFacts DEF FrontendTypeOK
  <2>2. /\ serverConn' \in [Client -> Number \cup {NULL}]
        /\ closed' \in [Client -> SUBSET Number]
    BY <1>1, <1>3, <1>4, <1>5 DEF FrontendTypeOK
  <2>3. todo' \subseteq Client /\ current' \subseteq Client
    BY <1>1, <1>2, <1>3 DEF FrontendTypeOK
  <2> QED
    BY <1>1, <1>3, <1>7, <1>8, <2>1, <2>2, <2>3 DEF FrontendTypeOK
<1>10. RequestsAreLoggedIn'
  BY <1>6, <1>7 DEF FrontendInv, RequestsAreLoggedIn
<1>11. OpenIsRead'
  BY <1>1, <1>2, <1>3, <1>5 DEF FrontendInv, FrontendTypeOK, OpenIsRead, Attends
<1>12. KnownAreLoggedIn'
  <2> SUFFICES ASSUME NEW k \in Client, IsKnown(k)'
               PROVE  /\ named[k]
                      /\ serverConn'[k] # NULL => "LOGIN" \in sent'[k][serverConn'[k]]
    BY <1>3 DEF KnownAreLoggedIn
  <2>1. IsKnown(k) \/ (k = h /\ named[h])
    BY <1>3, <1>6, <1>7 DEF IsKnown
  <2>2. named[k]
    BY <1>1, <2>1 DEF KnownAreLoggedIn
  <2>3. CASE k = h
    BY <1>1, <1>3, <1>5, <1>6, <1>7, <2>2, <2>3 DEF FrontendTypeOK
  <2>4. CASE k # h
    <3>1. /\ serverConn'[k] = serverConn[k] /\ serverConn[k] \in Number \cup {NULL}
          /\ \A w \in Number : sent'[k][w] = sent[k][w]
      BY <1>1, <1>5, <1>7, <2>4 DEF FrontendTypeOK
    <3> QED
      BY <1>1, <2>1, <2>2, <2>4, <3>1 DEF KnownAreLoggedIn
  <2> QED
    BY <2>3, <2>4
<1>13. HandlersBegin'
  BY <1>1, <1>2, <1>3, <1>5 DEF FrontendTypeOK, HandlersBegin
<1>14. OneIsCurrent'
  BY <1>2, <1>3, <1>4, <1>5 DEF OneIsCurrent
<1>15. RoundsAreAnnounced'
  <2>1. Treated' = Treated
    BY <1>3 DEF Treated
  <2>2. n = made[h] + 1 /\ made[h] \in Nat
    BY <1>1, <1>3, NumberFacts DEF n, FrontendTypeOK
  <2>3. shouldRestablish' /\ Treated' # {}
    BY <1>1, <1>3, <2>1 DEF RoundsAreAnnounced
  <2>4. ASSUME NEW k \in Client
        PROVE  made'[k] <= IF Spares(k)' THEN Cardinality(Treated) ELSE 1 + Cardinality(Treated)
    <3>1. CASE k = h
      <4>1. ~Spares(k)'
        BY <1>2, <1>3, <3>1 DEF Spares
      <4> QED
        BY <1>4, <1>5, <2>2, <3>1, <4>1, TreatedIsCounted
    <3>2. CASE k # h
      <4>1. made'[k] = made[k] /\ made[k] \in Nat
        BY <1>1, <1>5, <3>2, NumberFacts DEF FrontendTypeOK
      <4>2. Spares(k)' <=> Spares(k)
        BY <1>2, <1>3, <3>2 DEF Spares
      <4> QED
        BY <1>1, <4>1, <4>2 DEF RoundsAreAnnounced
    <3> QED
      BY <3>1, <3>2
  <2> QED
    BY <1>3, <2>1, <2>3, <2>4 DEF RoundsAreAnnounced
<1>16. ServedAreLoggedIn'
  <2>1. \A k \in Client, w \in Number : peer'[k][w] = "serving" =>
           peer[k][w] = "serving" /\ sent'[k][w] = sent[k][w]
    BY <1>8
  <2> QED
    BY <2>1, ServedStay
<1> QED
  BY <1>3, <1>9, <1>10, <1>11, <1>12, <1>13, <1>14, <1>15, <1>16, Frames DEF FrontendInv

\* The replaced connection has its consumer.
LEMMA RestartServerConsumerKeepsInv ==
    ASSUME FrontendInv, RestartServerConsumer
    PROVE  FrontendInv'
<1>1. FrontendTypeOK /\ OneIsCurrent /\ RoundsAreAnnounced
  BY DEF FrontendInv
<1>2. PICK h \in current : consumer' = [consumer EXCEPT ![h][made[h]] = "looping"]
  BY DEF RestartServerConsumer
<1>3. /\ main = "restarting" /\ main' = "restablishing" /\ current' = {}
      /\ h \in Client /\ current = {h} /\ made[h] \in Number
      /\ UNCHANGED <<shouldRestablish, clientHandlers, todo, made, handler, isFinished, named,
                     serverConn, on, crashed, client, notice, requests, backlog, leader, peer,
                     closed, sent>>
  BY <1>1, <1>2 DEF RestartServerConsumer, FrontendTypeOK, OneIsCurrent, handlerVars, worldVars,
                    linkVars
<1>4. "looping" \in ConsumerPhase
  BY DEF ConsumerPhase
<1>5. /\ consumer' \in [Client -> [Number -> ConsumerPhase]]
      /\ \A u \in Client, w \in Number :
            consumer'[u][w] = consumer[u][w] \/ (u = h /\ w = made[h])
      /\ consumer'[h][made[h]] = "looping"
  BY <1>1, <1>2, <1>3, <1>4, ConsumerChanged
<1>6. FrontendTypeOK'
  BY <1>1, <1>3, <1>5 DEF FrontendTypeOK
<1>7. OpenIsRead'
  BY <1>3, <1>5 DEF FrontendInv, OpenIsRead, Attends
<1>8. ReceiversReceive'
  BY <1>3, <1>5 DEF FrontendInv, ReceiversReceive
<1>9. OneIsCurrent'
  BY <1>3 DEF OneIsCurrent
<1>10. RoundsAreAnnounced'
  BY <1>1, <1>3 DEF RoundsAreAnnounced, Spares, Treated
<1> QED
  BY <1>3, <1>6, <1>7, <1>8, <1>9, <1>10, Frames DEF FrontendInv

LEMMA RestablishedKeepsInv ==
    ASSUME FrontendInv, Restablished
    PROVE  FrontendInv'
<1>1. FrontendTypeOK /\ OneIsCurrent /\ RoundsAreAnnounced
  BY DEF FrontendInv
<1>2. /\ main = "restablishing" /\ main' = "accepting" /\ todo = {} /\ shouldRestablish' = FALSE
      /\ UNCHANGED <<clientHandlers, todo, current, made, handler, isFinished, named, serverConn,
                     consumer, on, crashed, client, notice, requests, backlog, leader, peer,
                     closed, sent>>
  BY DEF Restablished, handlerVars, consumerVars, worldVars, linkVars
<1>3. FrontendTypeOK'
  BY <1>1, <1>2 DEF FrontendTypeOK
<1>4. OneIsCurrent'
  BY <1>1, <1>2 DEF OneIsCurrent
<1>5. RoundsAreAnnounced'
  BY <1>1, <1>2 DEF RoundsAreAnnounced, Spares, Treated
<1> QED
  BY <1>2, <1>3, <1>4, <1>5, Frames DEF FrontendInv

-----------------------------------------------------------------------------
(* ClientHandler::run                                                      *)

\* One packet more on the connection the handler has.
LEMMA ForwardAdds ==
    ASSUME FrontendTypeOK, NEW h \in Client, serverConn[h] # NULL, NEW p \in Packet,
           Forward(h, p)
    PROVE  /\ sent' \in [Client -> [Number -> SUBSET Packet]]
           /\ \A u \in Client, w \in Number : sent'[u][w] =
                IF u = h /\ w = serverConn[h] THEN sent[u][w] \cup {p} ELSE sent[u][w]
<1>1. PICK n \in Number : n = serverConn[h]
  BY DEF FrontendTypeOK
<1>g. sent[h] \in [Number -> SUBSET Packet]
  BY DEF FrontendTypeOK
<1>i. sent[h][n] \in SUBSET Packet
  BY <1>g
<1>2. PICK s \in SUBSET Packet : s = sent[h][n] \cup {p}
  BY <1>i
<1>3. sent' = [sent EXCEPT ![h][n] = s]
  BY <1>1, <1>2 DEF Forward
<1>4. /\ sent' \in [Client -> [Number -> SUBSET Packet]]
      /\ \A u \in Client, w \in Number :
            sent'[u][w] = sent[u][w] \/ (u = h /\ w = n /\ sent'[u][w] = s)
      /\ sent' = [sent EXCEPT ![h][n] = s] => sent'[h][n] = s
  <2>1. sent' = sent \/ sent' = [sent EXCEPT ![h][n] = s]
    BY <1>3
  <2> QED
    BY <2>1, SentChanged
<1>5. \A u \in Client, w \in Number : ~(u = h /\ w = n) => sent'[u][w] = sent[u][w]
  <2>1. sent' = [sent EXCEPT ![h] = [sent[h] EXCEPT ![n] = s]]
    BY <1>3
  <2> QED
    BY <2>1 DEF FrontendTypeOK
<1>6. sent'[h][n] = sent[h][n] \cup {p}
  BY <1>2, <1>3, <1>4
<1>7. ASSUME NEW u \in Client, NEW w \in Number
      PROVE  sent'[u][w] = IF u = h /\ w = n THEN sent[u][w] \cup {p} ELSE sent[u][w]
  BY <1>5, <1>6
<1> QED
  BY <1>1, <1>4, <1>7

LEMMA HandlerStartKeepsInv ==
    ASSUME FrontendInv, NEW h \in Client, HandlerStart(h)
    PROVE  FrontendInv'
<1>1. FrontendTypeOK /\ HandlersBegin /\ BacklogIsNew
  BY DEF FrontendInv
<1>2. /\ handler[h] = "starting"
      /\ handler' = [handler EXCEPT ![h] = "receiving"]
      /\ consumer' = [consumer EXCEPT ![h][1] = "looping"]
      /\ isFinished' = [isFinished EXCEPT ![h] = FALSE]
      /\ UNCHANGED <<shouldRestablish, main, clientHandlers, todo, current, made, named,
                     serverConn, on, crashed, client, notice, requests, backlog, leader, peer,
                     closed, sent>>
  BY DEF HandlerStart, Step, mainVars, worldVars, linkVars
<1>3. 1 \in Number /\ "looping" \in ConsumerPhase
  BY NumberFacts DEF ConsumerPhase
<1>4. /\ consumer' \in [Client -> [Number -> ConsumerPhase]]
      /\ \A u \in Client, w \in Number :
            consumer'[u][w] = consumer[u][w] \/ (u = h /\ w = 1)
      /\ consumer'[h][1] = "looping"
  BY <1>1, <1>2, <1>3, ConsumerChanged
<1>5. FrontendTypeOK'
  BY <1>1, <1>2, <1>4 DEF FrontendTypeOK, HandlerPhase
<1>6. OpenIsRead'
  BY <1>1, <1>2, <1>3, <1>4 DEF FrontendInv, FrontendTypeOK, OpenIsRead, Attends
<1>7. HandlersBegin'
  BY <1>1, <1>2 DEF HandlersBegin, FrontendTypeOK
<1>8. ReceiversReceive'
  BY <1>2, <1>4 DEF FrontendInv, ReceiversReceive
<1>9. BacklogIsNew'
  BY <1>1, <1>2 DEF BacklogIsNew, FrontendTypeOK
<1> QED
  BY <1>2, <1>5, <1>6, <1>7, <1>8, <1>9, Frames DEF FrontendInv

LEMMA HandlerReceiveKeepsInv ==
    ASSUME FrontendInv, NEW h \in Client, HandlerReceive(h)
    PROVE  FrontendInv'
<1>1. FrontendTypeOK /\ HandlersBegin /\ BacklogIsNew /\ KnownAreLoggedIn
  BY DEF FrontendInv
<1>2. /\ handler[h] = "receiving" /\ requests[h] # <<>>
      /\ handler' = [handler EXCEPT ![h] = "locking"]
      /\ named' = [named EXCEPT ![h] = @ \/ Head(requests[h]) = "LOGIN"]
      /\ UNCHANGED <<shouldRestablish, main, clientHandlers, todo, current, made, isFinished,
                     serverConn, consumer, on, crashed, client, notice, requests, backlog, leader,
                     peer, closed, sent>>
  BY DEF HandlerReceive, Step, mainVars, consumerVars, worldVars, linkVars
<1>3. \A k \in Client : /\ named[k] => named'[k]
                        /\ k # h => (named'[k] => named[k])
                        /\ Head(requests[h]) = "LOGIN" => named'[h]
  BY <1>1, <1>2 DEF FrontendTypeOK
<1>4. FrontendTypeOK'
  <2>1. named' \in [Client -> BOOLEAN]
    BY <1>1, <1>2 DEF FrontendTypeOK
  <2> QED
    BY <1>1, <1>2, <2>1 DEF FrontendTypeOK, HandlerPhase
<1>5. OpenIsRead'
  BY <1>1, <1>2 DEF FrontendInv, FrontendTypeOK, OpenIsRead, Attends
<1>6. KnownAreLoggedIn'
  BY <1>1, <1>2, <1>3 DEF KnownAreLoggedIn, IsKnown
<1>7. HandlersBegin'
  BY <1>1, <1>2, <1>3 DEF HandlersBegin, FrontendTypeOK
<1>8. BacklogIsNew'
  BY <1>1, <1>2 DEF BacklogIsNew, FrontendTypeOK
<1> QED
  BY <1>2, <1>4, <1>5, <1>6, <1>7, <1>8, Frames DEF FrontendInv

\* What is refused makes nobody known; what is passed on is either the LOGIN of a
\* handler that has its name or the request of one whose LOGIN was passed on.
LEMMA HandleRequestKeepsInv ==
    ASSUME FrontendInv, NEW h \in Client, HandleRequest(h)
    PROVE  FrontendInv'
<1> DEFINE p == Head(requests[h])
<1>1. FrontendTypeOK /\ HandlersBegin /\ BacklogIsNew /\ KnownAreLoggedIn
  BY DEF FrontendInv
<1>2. /\ handler[h] = "locking"
      /\ handler' = [handler EXCEPT ![h] = "receiving"]
      /\ requests' = [requests EXCEPT ![h] = Tail(@)]
      /\ \/ client' = [client EXCEPT ![h] = IF @ = "waiting" THEN "gone" ELSE @] /\ sent' = sent
         \/ serverConn[h] # NULL /\ Forward(h, p) /\ client' = client
      /\ UNCHANGED <<shouldRestablish, main, clientHandlers, todo, current, made, isFinished, named,
                     serverConn, consumer, on, notice, backlog, leader, peer, closed>>
  BY DEF HandleRequest, Answered, Step, mainVars, consumerVars
<1>3. /\ requests[h] \in Seq({"LOGIN", "SEND"}) /\ requests[h] # <<>>
      /\ p = "LOGIN" => named[h]
  BY <1>1, <1>2 DEF HandlersBegin, FrontendTypeOK
<1>4. /\ p \in {"LOGIN", "SEND"} /\ p = requests[h][1] /\ 1 \in DOMAIN requests[h]
      /\ Tail(requests[h]) \in Seq({"LOGIN", "SEND"})
      /\ \A i \in DOMAIN Tail(requests[h]) :
            i + 1 \in DOMAIN requests[h] /\ Tail(requests[h])[i] = requests[h][i + 1]
  BY <1>3, HeadTailProperties
<1>5. p \in Packet
  BY <1>4 DEF Packet
<1> HIDE DEF p
<1>6. /\ requests' \in [Client -> Seq({"LOGIN", "SEND"})]
      /\ requests'[h] = Tail(requests[h])
      /\ \A k \in Client : k # h => requests'[k] = requests[k]
  BY <1>1, <1>2, <1>4 DEF FrontendTypeOK
<1>7. /\ client' \in [Client -> {"absent", "waiting", "serving", "gone"}]
      /\ \A k \in Client : /\ client'[k] = "serving" => client[k] = "serving"
                           /\ client'[k] = "absent" <=> client[k] = "absent"
  BY <1>1, <1>2 DEF FrontendTypeOK
<1>8. /\ sent' \in [Client -> [Number -> SUBSET Packet]]
      /\ \A u \in Client, w \in Number :
            \/ sent'[u][w] = sent[u][w]
            \/ u = h /\ w = serverConn[h] /\ sent'[u][w] = sent[u][w] \cup {p}
  <2>1. CASE sent' = sent
    BY <1>1, <2>1 DEF FrontendTypeOK
  <2>2. CASE serverConn[h] # NULL /\ Forward(h, p)
    <3>1. /\ sent' \in [Client -> [Number -> SUBSET Packet]]
          /\ \A u \in Client, w \in Number : sent'[u][w] =
               IF u = h /\ w = serverConn[h] THEN sent[u][w] \cup {p} ELSE sent[u][w]
      BY <1>1, <1>5, <2>2, ForwardAdds
    <3> QED
      BY <3>1
  <2> QED
    BY <1>2, <2>1, <2>2
<1>9. FrontendTypeOK'
  <2>1. (client[h] = "gone") \in BOOLEAN /\ Lost(h, serverConn[h]) \in BOOLEAN
    BY DEF Lost
  <2>2. SendMayFail(client[h] = "gone") \/ SendMayFail(Lost(h, serverConn[h]))
    BY DEF HandleRequest
  <2>3. crashed' \in BOOLEAN
    BY <2>1, <2>2, SendEnds
  <2> QED
    BY <1>1, <1>2, <1>6, <1>7, <1>8, <2>3 DEF FrontendTypeOK, HandlerPhase
<1>10. p = "SEND" => IsKnown(h)
  BY <1>4 DEF IsKnown
<1>11. RequestsAreLoggedIn'
  <2> SUFFICES ASSUME NEW u \in Client, NEW w \in Number, "SEND" \in sent'[u][w]
               PROVE  "LOGIN" \in sent'[u][w]
    BY DEF RequestsAreLoggedIn
  <2>1. CASE "SEND" \in sent[u][w]
    BY <1>8, <2>1 DEF FrontendInv, RequestsAreLoggedIn
  <2>2. CASE "SEND" \notin sent[u][w]
    <3>1. u = h /\ w = serverConn[h] /\ p = "SEND" /\ sent'[u][w] = sent[u][w] \cup {p}
      BY <1>8, <2>2
    <3>2. "LOGIN" \in sent[h][serverConn[h]]
      BY <1>1, <1>10, <3>1, NumberFacts DEF KnownAreLoggedIn
    <3> QED
      BY <3>1, <3>2
  <2> QED
    BY <2>1, <2>2
<1>12. OpenIsRead'
  BY <1>1, <1>2 DEF FrontendInv, FrontendTypeOK, OpenIsRead, Attends
<1>13. KnownAreLoggedIn'
  <2> SUFFICES ASSUME NEW k \in Client, IsKnown(k)'
               PROVE  /\ named[k]
                      /\ serverConn[k] # NULL => "LOGIN" \in sent'[k][serverConn[k]]
    BY <1>2 DEF KnownAreLoggedIn
  <2>1. serverConn[k] # NULL => serverConn[k] \in Number
    BY <1>1 DEF FrontendTypeOK
  <2>2. IsKnown(k) \/ (k = h /\ p = "LOGIN" /\ "LOGIN" \in sent'[h][serverConn[h]])
    <3>1. CASE \E n \in Number : "LOGIN" \in sent'[k][n]
      <4>1. PICK n \in Number : "LOGIN" \in sent'[k][n]
        BY <3>1
      <4>2. \/ "LOGIN" \in sent[k][n]
            \/ k = h /\ n = serverConn[h] /\ p = "LOGIN"
        BY <1>4, <1>8, <4>1
      <4> QED
        BY <4>1, <4>2 DEF IsKnown
    <3>2. CASE client'[k] = "serving"
      BY <1>7, <3>2 DEF IsKnown
    <3>3. CASE \E i \in DOMAIN requests'[k] : requests'[k][i] = "SEND"
      <4>1. CASE k = h
        BY <1>4, <1>6, <3>3, <4>1 DEF IsKnown
      <4>2. CASE k # h
        BY <1>6, <3>3, <4>2 DEF IsKnown
      <4> QED
        BY <4>1, <4>2
    <3> QED
      BY <3>1, <3>2, <3>3 DEF IsKnown
  <2>3. CASE IsKnown(k)
    BY <1>1, <1>8, <2>1, <2>3 DEF KnownAreLoggedIn
  <2>4. CASE k = h /\ p = "LOGIN" /\ "LOGIN" \in sent'[h][serverConn[h]]
    BY <1>3, <2>4
  <2> QED
    BY <2>2, <2>3, <2>4
<1>14. HandlersBegin'
  BY <1>1, <1>2, <1>6, <1>7 DEF HandlersBegin, FrontendTypeOK
<1>15. BacklogIsNew'
  BY <1>1, <1>2, <1>7 DEF BacklogIsNew, FrontendTypeOK
<1>16. ServedAreLoggedIn'
  <2>1. \A k \in Client, w \in Number : "LOGIN" \in sent[k][w] => "LOGIN" \in sent'[k][w]
    BY <1>8
  <2> QED
    BY <1>2, <2>1, ServedStay
<1> QED
  BY <1>2, <1>9, <1>11, <1>12, <1>13, <1>14, <1>15, <1>16, Frames DEF FrontendInv

LEMMA HandleNewLeaderKeepsInv ==
    ASSUME FrontendInv, NEW a \in Announcer, HandleNewLeader(a)
    PROVE  FrontendInv'
<1>1. FrontendTypeOK /\ BacklogIsNew /\ RoundsAreAnnounced
  BY DEF FrontendInv
<1>2. /\ notice[a] = "accepted" /\ notice' = [notice EXCEPT ![a] = "done"]
      /\ shouldRestablish' = TRUE
      /\ UNCHANGED <<main, clientHandlers, todo, current, made, handler, isFinished, named,
                     serverConn, consumer, on, crashed, client, requests, backlog, leader, peer,
                     closed, sent>>
  BY DEF HandleNewLeader, Step, mainVars, handlerVars, consumerVars, linkVars
<1>3. FrontendTypeOK'
  BY <1>1, <1>2 DEF FrontendTypeOK
<1>4. BacklogIsNew'
  BY <1>1, <1>2 DEF BacklogIsNew, FrontendTypeOK
<1>5. RoundsAreAnnounced'
  <2>1. Treated' # {} /\ Cardinality(Treated') = Cardinality(Treated) + 1
    BY <1>1, <1>2, OneMoreIsTreated DEF FrontendTypeOK
  <2>2. Cardinality(Treated) \in Nat
    BY TreatedIsCounted
  <2>3. \A h \in Client : made[h] <= 1 + Cardinality(Treated) /\ made[h] \in Nat
    BY <1>1, <2>2, NumberFacts DEF RoundsAreAnnounced, FrontendTypeOK
  <2> QED
    BY <1>2, <2>1, <2>2, <2>3 DEF RoundsAreAnnounced
<1> QED
  BY <1>2, <1>3, <1>4, <1>5, Frames DEF FrontendInv

\* LoseClient and HandlerEnd move the handler on, and nothing else is asked of it.
LEMMA HandlerMovesOn ==
    ASSUME FrontendInv, NEW h \in Client, NEW s \in {"closing", "joining", "done"},
           handler[h] \in {"receiving", "closing", "joining"},
           handler' = [handler EXCEPT ![h] = s], isFinished' \in [Client -> BOOLEAN],
           UNCHANGED <<shouldRestablish, main, clientHandlers, todo, current, made, named,
                       serverConn, consumer, on, client, notice, requests, backlog, leader, peer>>
    PROVE  /\ handler' \in [Client -> HandlerPhase]
           /\ OpenIsRead'
           /\ HandlersBegin'
           /\ BacklogIsNew'
<1>1. FrontendTypeOK /\ HandlersBegin /\ BacklogIsNew /\ OpenIsRead
  BY DEF FrontendInv
<1>2. handler' \in [Client -> HandlerPhase]
  BY <1>1 DEF FrontendTypeOK, HandlerPhase
<1>3. OpenIsRead'
  BY <1>1 DEF FrontendTypeOK, OpenIsRead, Attends
<1>4. HandlersBegin'
  BY <1>1 DEF HandlersBegin, FrontendTypeOK
<1>5. BacklogIsNew'
  BY <1>1 DEF BacklogIsNew, FrontendTypeOK
<1> QED
  BY <1>2, <1>3, <1>4, <1>5

LEMMA LoseClientKeepsInv ==
    ASSUME FrontendInv, NEW h \in Client, LoseClient(h)
    PROVE  FrontendInv'
<1>1. FrontendTypeOK
  BY DEF FrontendInv
<1>2. PICK s \in {"closing", "joining", "done"} : handler' = [handler EXCEPT ![h] = s]
  BY DEF LoseClient
<1>3. /\ handler[h] \in {"receiving", "closing", "joining"}
      /\ UNCHANGED <<shouldRestablish, main, clientHandlers, todo, current, made, isFinished, named,
                     serverConn, consumer, on, crashed, client, notice, requests, backlog, leader,
                     peer, closed, sent>>
  BY DEF LoseClient, mainVars, consumerVars, worldVars, linkVars
<1>4. isFinished' \in [Client -> BOOLEAN]
  BY <1>1, <1>3 DEF FrontendTypeOK
<1>5. /\ handler' \in [Client -> HandlerPhase]
      /\ OpenIsRead' /\ HandlersBegin' /\ BacklogIsNew'
  BY <1>2, <1>3, <1>4, HandlerMovesOn
<1>6. FrontendTypeOK'
  BY <1>1, <1>3, <1>5 DEF FrontendTypeOK
<1> QED
  BY <1>3, <1>5, <1>6, Frames DEF FrontendInv

LEMMA HandlerEndKeepsInv ==
    ASSUME FrontendInv, NEW h \in Client, HandlerEnd(h)
    PROVE  FrontendInv'
<1>1. FrontendTypeOK
  BY DEF FrontendInv
<1>2. /\ handler[h] \in {"receiving", "closing", "joining"}
      /\ handler' = [handler EXCEPT ![h] = "done"]
      /\ isFinished' = [isFinished EXCEPT ![h] = TRUE]
      /\ UNCHANGED <<shouldRestablish, main, clientHandlers, todo, current, made, named,
                     serverConn, consumer, on, crashed, client, notice, requests, backlog, leader,
                     peer, closed, sent>>
  BY DEF HandlerEnd, Step, mainVars, consumerVars, worldVars, linkVars
<1>3. isFinished' \in [Client -> BOOLEAN]
  BY <1>1, <1>2 DEF FrontendTypeOK
<1>4. "done" \in {"closing", "joining", "done"}
  OBVIOUS
<1>5. /\ handler' \in [Client -> HandlerPhase]
      /\ OpenIsRead' /\ HandlersBegin' /\ BacklogIsNew'
  BY <1>2, <1>3, <1>4, HandlerMovesOn
<1>6. FrontendTypeOK'
  BY <1>1, <1>2, <1>3, <1>5 DEF FrontendTypeOK
<1> QED
  BY <1>2, <1>5, <1>6, Frames DEF FrontendInv

\* A CLOSE is no request, and a closed connection keeps its consumer.
LEMMA SendCloseKeepsInv ==
    ASSUME FrontendInv, NEW h \in Client, SendClose(h)
    PROVE  FrontendInv'
<1>1. FrontendTypeOK /\ KnownAreLoggedIn
  BY DEF FrontendInv
<1>2. /\ handler[h] \in {"receiving", "closing", "joining"}
      /\ handler' = [handler EXCEPT ![h] = "joining"]
      /\ closed' = closed \/ (serverConn[h] # NULL
                              /\ closed' = [closed EXCEPT ![h] = @ \cup {serverConn[h]}])
      /\ sent' = sent \/ (serverConn[h] # NULL /\ Forward(h, "CLOSE"))
      /\ UNCHANGED <<shouldRestablish, main, clientHandlers, todo, current, made, isFinished, named,
                     serverConn, consumer, on, client, notice, requests, backlog, leader, peer>>
  BY <1>1 DEF SendClose, Step, mainVars, consumerVars, worldVars, FrontendTypeOK
<1>3. /\ sent' \in [Client -> [Number -> SUBSET Packet]]
      /\ \A u \in Client, w \in Number :
            sent'[u][w] = sent[u][w] \/ sent'[u][w] = sent[u][w] \cup {"CLOSE"}
  <2>1. CASE sent' = sent
    BY <1>1, <2>1 DEF FrontendTypeOK
  <2>2. CASE serverConn[h] # NULL /\ Forward(h, "CLOSE")
    <3>1. "CLOSE" \in Packet
      BY DEF Packet
    <3>2. /\ sent' \in [Client -> [Number -> SUBSET Packet]]
          /\ \A u \in Client, w \in Number : sent'[u][w] =
               IF u = h /\ w = serverConn[h] THEN sent[u][w] \cup {"CLOSE"} ELSE sent[u][w]
      BY <1>1, <2>2, <3>1, ForwardAdds
    <3> QED
      BY <3>2
  <2> QED
    BY <1>2, <2>1, <2>2
<1>4. \A u \in Client, w \in Number, p \in {"LOGIN", "SEND"} :
         p \in sent'[u][w] <=> p \in sent[u][w]
  BY <1>3
<1>5. "joining" \in {"closing", "joining", "done"} /\ isFinished' \in [Client -> BOOLEAN]
  BY <1>1, <1>2 DEF FrontendTypeOK
<1>6. /\ handler' \in [Client -> HandlerPhase]
      /\ OpenIsRead' /\ HandlersBegin' /\ BacklogIsNew'
  BY <1>2, <1>5, HandlerMovesOn
<1>7. FrontendTypeOK'
  <2>1. closed' \in [Client -> SUBSET Number]
    <3>1. closed \in [Client -> SUBSET Number] /\ serverConn[h] \in Number \cup {NULL}
      BY <1>1 DEF FrontendTypeOK
    <3>2. CASE closed' = closed
      BY <3>1, <3>2
    <3>3. CASE serverConn[h] # NULL /\ closed' = [closed EXCEPT ![h] = @ \cup {serverConn[h]}]
      BY <3>1, <3>3
    <3> QED
      BY <1>2, <3>2, <3>3
  <2>2. crashed' \in BOOLEAN
    <3>1. Lost(h, serverConn[h]) \in BOOLEAN
      BY DEF Lost
    <3>2. crashed' = TRUE \/ SendMayFail(Lost(h, serverConn[h]))
      BY DEF SendClose
    <3> QED
      BY <3>1, <3>2, SendEnds
  <2> QED
    BY <1>1, <1>2, <1>3, <1>6, <2>1, <2>2 DEF FrontendTypeOK
<1>8. RequestsAreLoggedIn'
  BY <1>4 DEF FrontendInv, RequestsAreLoggedIn
<1>9. KnownAreLoggedIn'
  <2>1. \A k \in Client : serverConn[k] # NULL => serverConn[k] \in Number
    BY <1>1 DEF FrontendTypeOK
  <2>2. \A k \in Client : IsKnown(k)' <=> IsKnown(k)
    BY <1>2, <1>4 DEF IsKnown
  <2> QED
    BY <1>1, <1>2, <1>4, <2>1, <2>2 DEF KnownAreLoggedIn
<1>10. ServedAreLoggedIn'
  BY <1>2, <1>4, ServedStay
<1> QED
  BY <1>2, <1>6, <1>7, <1>8, <1>9, <1>10, Frames DEF FrontendInv

-----------------------------------------------------------------------------
(* ServerConsumer::run                                                     *)

LEMMA ConsumerLoopKeepsInv ==
    ASSUME FrontendInv, NEW h \in Client, NEW n \in Number, ConsumerLoop(h, n)
    PROVE  FrontendInv'
<1>1. FrontendTypeOK
  BY DEF FrontendInv
<1>2. UNCHANGED <<shouldRestablish, main, clientHandlers, todo, current, made, handler, isFinished,
                  named, serverConn, crashed, client, notice, requests, backlog, leader, peer,
                  closed, sent>>
  BY DEF ConsumerLoop, mainVars, handlerVars, worldVars, linkVars
<1>3. CASE /\ consumer' = [consumer EXCEPT ![h][n] = "leaving"]
           /\ on' = on
  <2>1. "leaving" \in ConsumerPhase
    BY DEF ConsumerPhase
  <2>2. /\ consumer' \in [Client -> [Number -> ConsumerPhase]]
        /\ \A u \in Client, w \in Number :
              consumer'[u][w] = consumer[u][w] \/ (u = h /\ w = n)
        /\ consumer'[h][n] = "leaving"
    BY <1>1, <1>3, <2>1, ConsumerChanged
  <2>3. FrontendTypeOK'
    BY <1>1, <1>2, <1>3, <2>2 DEF FrontendTypeOK
  <2>4. OpenIsRead'
    BY <1>2, <1>3, <2>2 DEF FrontendInv, OpenIsRead, Attends
  <2>5. ReceiversReceive'
    BY <1>3, <2>2 DEF FrontendInv, ReceiversReceive
  <2> QED
    BY <1>2, <2>3, <2>4, <2>5, Frames DEF FrontendInv
<1>4. CASE /\ serverConn[h] # NULL
           /\ consumer' = [consumer EXCEPT ![h][n] = "receiving"]
           /\ on' = [on EXCEPT ![h][n] = serverConn[h]]
  <2>1. "receiving" \in ConsumerPhase /\ serverConn[h] \in Number \cup {NULL}
    BY <1>1 DEF ConsumerPhase, FrontendTypeOK
  <2>2. /\ consumer' \in [Client -> [Number -> ConsumerPhase]]
        /\ \A u \in Client, w \in Number :
              consumer'[u][w] = consumer[u][w] \/ (u = h /\ w = n)
        /\ consumer'[h][n] = "receiving"
    BY <1>1, <1>4, <2>1, ConsumerChanged
  <2>3. PICK c \in Number \cup {NULL} : c = serverConn[h]
    BY <2>1
  <2>4. on' = [on EXCEPT ![h][n] = c]
    BY <1>4, <2>3
  <2>5. /\ on' \in [Client -> [Number -> Number \cup {NULL}]]
        /\ \A u \in Client, w \in Number : on'[u][w] = on[u][w] \/ (u = h /\ w = n)
        /\ on'[h][n] = c
    <3>1. on \in [Client -> [Number -> Number \cup {NULL}]]
      BY <1>1 DEF FrontendTypeOK
    <3>2. [on[h] EXCEPT ![n] = c] \in [Number -> Number \cup {NULL}]
      BY <3>1
    <3>3. on' = [on EXCEPT ![h] = [on[h] EXCEPT ![n] = c]]
      BY <2>4
    <3> QED
      BY <3>1, <3>2, <3>3
  <2>6. FrontendTypeOK'
    BY <1>1, <1>2, <2>2, <2>5 DEF FrontendTypeOK
  <2>7. OpenIsRead'
    BY <1>2, <2>2, <2>3, <2>5 DEF FrontendInv, OpenIsRead, Attends
  <2>8. ReceiversReceive'
    BY <1>4, <2>2, <2>3, <2>5 DEF FrontendInv, ReceiversReceive
  <2> QED
    BY <1>2, <2>6, <2>7, <2>8, Frames DEF FrontendInv
<1> QED
  BY <1>3, <1>4 DEF ConsumerLoop, ConsumerStep

\* A consumer that leaves recv(), with or without a packet.
LEMMA ConsumerReceived ==
    ASSUME FrontendInv, NEW h \in Client, NEW n \in Number, NEW s \in {"looping", "leaving"},
           consumer' = [consumer EXCEPT ![h][n] = s], on' = [on EXCEPT ![h][n] = NULL],
           UNCHANGED <<serverConn, handler, current>>
    PROVE  /\ consumer' \in [Client -> [Number -> ConsumerPhase]]
           /\ on' \in [Client -> [Number -> Number \cup {NULL}]]
           /\ OpenIsRead'
           /\ ReceiversReceive'
<1>1. FrontendTypeOK /\ s \in ConsumerPhase /\ NULL \in Number \cup {NULL}
  BY DEF FrontendInv, ConsumerPhase
<1>2. /\ consumer' \in [Client -> [Number -> ConsumerPhase]]
      /\ \A u \in Client, w \in Number :
            consumer'[u][w] = consumer[u][w] \/ (u = h /\ w = n)
      /\ consumer'[h][n] = s
  BY <1>1, ConsumerChanged
<1>3. /\ on' \in [Client -> [Number -> Number \cup {NULL}]]
      /\ \A u \in Client, w \in Number : on'[u][w] = on[u][w] \/ (u = h /\ w = n)
      /\ on'[h][n] = NULL
  BY <1>1, OnChanged
<1>4. OpenIsRead'
  BY <1>2, <1>3 DEF FrontendInv, OpenIsRead, Attends
<1>5. ReceiversReceive'
  BY <1>2, <1>3 DEF FrontendInv, ReceiversReceive
<1> QED
  BY <1>2, <1>3, <1>4, <1>5

\* The client is served from now on only if a LOGIN was answered.
LEMMA ConsumerForwardKeepsInv ==
    ASSUME FrontendInv, NEW h \in Client, NEW n \in Number, ConsumerForward(h, n)
    PROVE  FrontendInv'
<1>1. /\ FrontendTypeOK /\ KnownAreLoggedIn /\ HandlersBegin /\ BacklogIsNew
      /\ ReceiversReceive /\ ServedAreLoggedIn
  BY DEF FrontendInv
<1>2. /\ consumer[h][n] = "receiving"
      /\ consumer' = [consumer EXCEPT ![h][n] = "looping"]
      /\ on' = [on EXCEPT ![h][n] = NULL]
      /\ UNCHANGED <<shouldRestablish, main, clientHandlers, todo, current, made, handler,
                     isFinished, named, serverConn, notice, requests, backlog, leader,
                     peer, closed, sent>>
  BY DEF ConsumerForward, ConsumerStep, mainVars, handlerVars, linkVars
<1>3. PICK ok \in BOOLEAN : /\ ok => peer[h][on[h][n]] = "serving"
                           /\ client' = [client EXCEPT ![h] =
                                 IF @ = "waiting" THEN IF ok THEN "serving" ELSE "gone" ELSE @]
  BY DEF ConsumerForward, Answered
<1>4. ok => IsKnown(h)
  <2>1. on[h][n] \in Number
    BY <1>1, <1>2 DEF FrontendTypeOK, ReceiversReceive
  <2> QED
    BY <1>1, <1>3, <2>1 DEF IsKnown, ServedAreLoggedIn
<1>5. /\ client' \in [Client -> {"absent", "waiting", "serving", "gone"}]
      /\ \A k \in Client : /\ client'[k] = "absent" <=> client[k] = "absent"
                           /\ client'[k] = "serving" => client[k] = "serving" \/ (k = h /\ ok)
  BY <1>1, <1>3 DEF FrontendTypeOK
<1>6. "looping" \in {"looping", "leaving"}
  OBVIOUS
<1>7. /\ consumer' \in [Client -> [Number -> ConsumerPhase]]
      /\ on' \in [Client -> [Number -> Number \cup {NULL}]]
      /\ OpenIsRead' /\ ReceiversReceive'
  BY <1>2, <1>6, ConsumerReceived
<1>8. FrontendTypeOK'
  <2>1. (client[h] = "gone") \in BOOLEAN /\ SendMayFail(client[h] = "gone")
    BY DEF ConsumerForward
  <2>2. crashed' \in BOOLEAN
    BY <2>1, SendEnds
  <2> QED
    BY <1>1, <1>2, <1>5, <1>7, <2>2 DEF FrontendTypeOK
<1>9. KnownAreLoggedIn'
  <2>1. \A k \in Client : IsKnown(k)' => IsKnown(k)
    BY <1>2, <1>4, <1>5 DEF IsKnown
  <2> QED
    BY <1>1, <1>2, <2>1 DEF KnownAreLoggedIn
<1>10. HandlersBegin'
  BY <1>1, <1>2, <1>5 DEF HandlersBegin
<1>11. BacklogIsNew'
  BY <1>1, <1>2, <1>5 DEF BacklogIsNew
<1> QED
  BY <1>2, <1>7, <1>8, <1>9, <1>10, <1>11, Frames DEF FrontendInv

LEMMA ConsumerLostKeepsInv ==
    ASSUME FrontendInv, NEW h \in Client, NEW n \in Number, ConsumerLost(h, n)
    PROVE  FrontendInv'
<1>1. FrontendTypeOK /\ "leaving" \in {"looping", "leaving"}
  BY DEF FrontendInv
<1>2. /\ consumer' = [consumer EXCEPT ![h][n] = "leaving"]
      /\ on' = [on EXCEPT ![h][n] = NULL]
      /\ UNCHANGED <<shouldRestablish, main, clientHandlers, todo, current, made, handler,
                     isFinished, named, serverConn, crashed, client, notice, requests, backlog,
                     leader, peer, closed, sent>>
  BY DEF ConsumerLost, ConsumerStep, mainVars, handlerVars, worldVars, linkVars
<1>3. /\ consumer' \in [Client -> [Number -> ConsumerPhase]]
      /\ on' \in [Client -> [Number -> Number \cup {NULL}]]
      /\ OpenIsRead' /\ ReceiversReceive'
  BY <1>1, <1>2, ConsumerReceived
<1>4. FrontendTypeOK'
  BY <1>1, <1>2, <1>3 DEF FrontendTypeOK
<1> QED
  BY <1>2, <1>3, <1>4, Frames DEF FrontendInv

\* The handler is left without a connection, not with one nobody reads.
LEMMA ConsumerEndKeepsInv ==
    ASSUME FrontendInv, NEW h \in Client, NEW n \in Number, ConsumerEnd(h, n)
    PROVE  FrontendInv'
<1>1. FrontendTypeOK /\ KnownAreLoggedIn
  BY DEF FrontendInv
<1>2. /\ consumer' = [consumer EXCEPT ![h][n] = "ended"]
      /\ serverConn' = [serverConn EXCEPT ![h] = NULL]
      /\ closed' = [closed EXCEPT ![h] = @ \cup ({serverConn[h]} \ {NULL})]
      /\ UNCHANGED <<shouldRestablish, main, clientHandlers, todo, current, made, handler,
                     isFinished, named, on, crashed, client, notice, requests, backlog, leader,
                     peer, sent>>
  BY DEF ConsumerEnd, ConsumerStep, Replace, mainVars, handlerVars, worldVars
<1>3. "ended" \in ConsumerPhase
  BY DEF ConsumerPhase
<1>4. /\ consumer' \in [Client -> [Number -> ConsumerPhase]]
      /\ \A u \in Client, w \in Number :
            consumer'[u][w] = consumer[u][w] \/ (u = h /\ w = n)
      /\ consumer'[h][n] = "ended"
  BY <1>1, <1>2, <1>3, ConsumerChanged
<1>5. /\ serverConn' \in [Client -> Number \cup {NULL}] /\ serverConn'[h] = NULL
      /\ \A k \in Client : k # h => serverConn'[k] = serverConn[k]
      /\ closed' \in [Client -> SUBSET Number]
  BY <1>1, <1>2 DEF FrontendTypeOK
<1>6. FrontendTypeOK'
  BY <1>1, <1>2, <1>4, <1>5 DEF FrontendTypeOK
<1>7. OpenIsRead'
  BY <1>2, <1>4, <1>5 DEF FrontendInv, OpenIsRead, Attends
<1>8. KnownAreLoggedIn'
  BY <1>1, <1>2, <1>5 DEF KnownAreLoggedIn, IsKnown
<1>9. ReceiversReceive'
  BY <1>2, <1>4 DEF FrontendInv, ReceiversReceive
<1> QED
  BY <1>2, <1>6, <1>7, <1>8, <1>9, Frames DEF FrontendInv

-----------------------------------------------------------------------------
(* Clients and servers.                                                    *)

\* What none of them touches.
LEMMA WorldFrames ==
    ASSUME FrontendInv, UNCHANGED programVars, UNCHANGED sent
    PROVE  RequestsAreLoggedIn' /\ OpenIsRead' /\ ReceiversReceive' /\ OneIsCurrent'
<1>1. UNCHANGED <<consumer, on, serverConn, handler, current, main, made, sent>>
  BY DEF programVars, mainVars, handlerVars, consumerVars
<1> QED
  BY <1>1, Frames

\* His LOGIN is in the queue, no request is.
LEMMA ClientConnectKeepsInv ==
    ASSUME FrontendInv, NEW h \in Client, ClientConnect(h)
    PROVE  FrontendInv'
<1>1. FrontendTypeOK /\ KnownAreLoggedIn /\ HandlersBegin /\ BacklogIsNew
  BY DEF FrontendInv
<1>2. /\ client[h] = "absent" /\ client' = [client EXCEPT ![h] = "waiting"]
      /\ requests' = [requests EXCEPT ![h] = <<"LOGIN">>]
      /\ backlog' = Append(backlog, h)
      /\ UNCHANGED programVars
      /\ UNCHANGED <<shouldRestablish, main, clientHandlers, todo, current, made, handler,
                     isFinished, named, serverConn, consumer, on, crashed, notice, leader, peer,
                     closed, sent>>
  BY DEF ClientConnect, Step, programVars, mainVars, handlerVars, consumerVars, linkVars
<1>3. /\ <<"LOGIN">> \in Seq({"LOGIN", "SEND"}) /\ Len(<<"LOGIN">>) = 1
      /\ \A i \in DOMAIN <<"LOGIN">> : <<"LOGIN">>[i] # "SEND"
  OBVIOUS
<1>4. /\ client' \in [Client -> {"absent", "waiting", "serving", "gone"}]
      /\ client'[h] = "waiting" /\ \A k \in Client : k # h => client'[k] = client[k]
      /\ requests' \in [Client -> Seq({"LOGIN", "SEND"})]
      /\ requests'[h] = <<"LOGIN">> /\ \A k \in Client : k # h => requests'[k] = requests[k]
  BY <1>1, <1>2, <1>3 DEF FrontendTypeOK
<1>5. /\ backlog \in Seq(Client \cup Announcer) /\ backlog' \in Seq(Client \cup Announcer)
      /\ Len(backlog) \in Nat /\ DOMAIN backlog = 1 .. Len(backlog)
      /\ DOMAIN backlog' = 1 .. Len(backlog) + 1
      /\ backlog'[Len(backlog) + 1] = h
      /\ \A i \in DOMAIN backlog : backlog'[i] = backlog[i]
  BY <1>1, <1>2, AppendProperties DEF FrontendTypeOK
<1>6. handler[h] = "none"
  BY <1>1, <1>2 DEF HandlersBegin
<1>7. FrontendTypeOK'
  BY <1>1, <1>2, <1>4, <1>5 DEF FrontendTypeOK
<1>8. KnownAreLoggedIn'
  <2>1. \A k \in Client : IsKnown(k)' => IsKnown(k)
    BY <1>2, <1>3, <1>4 DEF IsKnown
  <2> QED
    BY <1>1, <1>2, <2>1 DEF KnownAreLoggedIn
<1>9. HandlersBegin'
  BY <1>1, <1>2, <1>4, <1>6 DEF HandlersBegin
<1>10. BacklogIsNew'
  <2>1. \A i \in DOMAIN backlog : backlog[i] # h
    BY <1>1, <1>2 DEF BacklogIsNew
  <2>2. \A i \in DOMAIN backlog' : i \in DOMAIN backlog \/ i = Len(backlog) + 1
    BY <1>5
  <2>3. ASSUME NEW i \in DOMAIN backlog'
        PROVE  /\ backlog'[i] \in Client =>
                     client'[backlog'[i]] # "absent" /\ handler[backlog'[i]] = "none"
               /\ backlog'[i] \in Announcer => notice[backlog'[i]] = "waiting"
    <3>1. CASE i \in DOMAIN backlog
      BY <1>1, <1>4, <1>5, <2>1, <3>1 DEF BacklogIsNew
    <3>2. CASE i = Len(backlog) + 1
      BY <1>4, <1>5, <1>6, <3>2, FrontendAssumption
    <3> QED
      BY <2>2, <3>1, <3>2
  <2>4. ASSUME NEW i \in DOMAIN backlog', NEW j \in DOMAIN backlog', backlog'[i] = backlog'[j]
        PROVE  i = j
    BY <1>1, <1>5, <2>1, <2>2, <2>4 DEF BacklogIsNew
  <2> QED
    BY <1>2, <2>3, <2>4 DEF BacklogIsNew
<1> QED
  BY <1>2, <1>7, <1>8, <1>9, <1>10, WorldFrames, Frames DEF FrontendInv

\* Only who is served sends requests, and he is known.
LEMMA ClientRequestKeepsInv ==
    ASSUME FrontendInv, NEW h \in Client, ClientRequest(h)
    PROVE  FrontendInv'
<1> DEFINE q == Append(requests[h], "SEND")
<1>1. FrontendTypeOK /\ KnownAreLoggedIn /\ HandlersBegin
  BY DEF FrontendInv
<1>2. /\ client[h] = "serving"
      /\ requests' = [requests EXCEPT ![h] = q]
      /\ UNCHANGED programVars
      /\ UNCHANGED <<shouldRestablish, main, clientHandlers, todo, current, made, handler,
                     isFinished, named, serverConn, consumer, on, crashed, client, notice, backlog,
                     leader, peer, closed, sent>>
  BY DEF ClientRequest, programVars, mainVars, handlerVars, consumerVars, linkVars
<1>3. /\ requests[h] \in Seq({"LOGIN", "SEND"})
      /\ q \in Seq({"LOGIN", "SEND"}) /\ q # <<>>
      /\ requests[h] # <<>> => Head(q) = Head(requests[h])
  <2>1. requests[h] \in Seq({"LOGIN", "SEND"})
    BY <1>1 DEF FrontendTypeOK
  <2> QED
    <3>1. /\ q \in Seq({"LOGIN", "SEND"}) /\ Len(q) = Len(requests[h]) + 1
          /\ \A i \in 1 .. Len(requests[h]) : q[i] = requests[h][i]
      BY <2>1, AppendProperties
    <3>2. Len(requests[h]) \in Nat /\ (requests[h] # <<>> => 1 \in 1 .. Len(requests[h]))
      BY <2>1, EmptySeq
    <3> HIDE DEF q
    <3>3. q # <<>>
      BY <3>1, <3>2
    <3>4. requests[h] # <<>> => Head(q) = q[1] /\ Head(requests[h]) = requests[h][1]
      BY <2>1, <3>1, <3>3, HeadTailProperties
    <3> QED
      BY <2>1, <3>1, <3>2, <3>3, <3>4
<1> HIDE DEF q
<1>4. /\ requests' \in [Client -> Seq({"LOGIN", "SEND"})]
      /\ requests'[h] = q /\ \A k \in Client : k # h => requests'[k] = requests[k]
  BY <1>1, <1>2, <1>3 DEF FrontendTypeOK
<1>5. FrontendTypeOK'
  BY <1>1, <1>2, <1>4 DEF FrontendTypeOK
<1>6. KnownAreLoggedIn'
  <2>1. IsKnown(h)
    BY <1>2 DEF IsKnown
  <2>2. \A k \in Client : IsKnown(k)' => IsKnown(k)
    BY <1>2, <1>4, <2>1 DEF IsKnown
  <2> QED
    BY <1>1, <1>2, <2>2 DEF KnownAreLoggedIn
<1>7. HandlersBegin'
  BY <1>1, <1>2, <1>3, <1>4 DEF HandlersBegin
<1> QED
  BY <1>2, <1>5, <1>6, <1>7, WorldFrames, Frames DEF FrontendInv

LEMMA ClientQuitKeepsInv ==
    ASSUME FrontendInv, NEW h \in Client, ClientQuit(h)
    PROVE  FrontendInv'
<1>1. FrontendTypeOK /\ KnownAreLoggedIn /\ HandlersBegin /\ BacklogIsNew
  BY DEF FrontendInv
<1>2. /\ client[h] = "serving" /\ client' = [client EXCEPT ![h] = "gone"]
      /\ UNCHANGED programVars
      /\ UNCHANGED <<shouldRestablish, main, clientHandlers, todo, current, made, handler,
                     isFinished, named, serverConn, consumer, on, crashed, notice, requests, backlog,
                     leader, peer, closed, sent>>
  BY DEF ClientQuit, Step, programVars, mainVars, handlerVars, consumerVars, linkVars
<1>3. /\ client' \in [Client -> {"absent", "waiting", "serving", "gone"}]
      /\ \A k \in Client : /\ client'[k] = "absent" <=> client[k] = "absent"
                           /\ client'[k] = "serving" => client[k] = "serving"
  BY <1>1, <1>2 DEF FrontendTypeOK
<1>4. FrontendTypeOK'
  BY <1>1, <1>2, <1>3 DEF FrontendTypeOK
<1>5. KnownAreLoggedIn'
  BY <1>1, <1>2, <1>3 DEF KnownAreLoggedIn, IsKnown
<1>6. HandlersBegin'
  BY <1>1, <1>2, <1>3 DEF HandlersBegin
<1>7. BacklogIsNew'
  BY <1>1, <1>2, <1>3 DEF BacklogIsNew
<1> QED
  BY <1>2, <1>4, <1>5, <1>6, <1>7, WorldFrames, Frames DEF FrontendInv

\* What becomes of the servers touches only their ends of the connections.
LEMMA ServersKeepInv ==
    ASSUME FrontendInv,
           LeaderCrash \/ Listen \/ \E h \in Client, n \in Number : ServerNext(h, n)
    PROVE  FrontendInv'
<1>1. FrontendTypeOK
  BY DEF FrontendInv
<1>2. /\ UNCHANGED programVars
      /\ UNCHANGED <<shouldRestablish, main, clientHandlers, todo, current, made, handler,
                     isFinished, named, serverConn, consumer, on, crashed, client, notice, requests,
                     backlog, closed, sent>>
      /\ leader' \in {"listening", "down", "elected"}
  BY <1>1 DEF LeaderCrash, Listen, ServerNext, ServerAuthorize, ServerRefuse, ServerClose,
              programVars, mainVars, handlerVars, consumerVars, worldVars, linkVars, FrontendTypeOK
<1>3. /\ peer' \in [Client -> [Number -> PeerPhase]]
      /\ \A k \in Client, w \in Number :
            peer'[k][w] = "serving" => peer[k][w] = "serving" \/ "LOGIN" \in sent[k][w]
  <2>1. CASE LeaderCrash
    <3>1. peer' = [h \in Client |-> [n \in Number |->
                      IF Connected(h, n) THEN "closed" ELSE peer[h][n]]]
      BY <2>1 DEF LeaderCrash
    <3> QED
      BY <1>1, <3>1 DEF FrontendTypeOK, PeerPhase
  <2>2. CASE Listen
    BY <1>1, <2>2 DEF Listen, linkVars, FrontendTypeOK
  <2>3. CASE \E h \in Client, n \in Number : ServerNext(h, n)
    <3>1. PICK h \in Client, n \in Number, s \in PeerPhase :
             /\ peer' = [peer EXCEPT ![h][n] = s]
             /\ s = "serving" => "LOGIN" \in sent[h][n]
      BY <2>3 DEF ServerNext, ServerAuthorize, ServerRefuse, ServerClose, PeerPhase
    <3>2. /\ peer' \in [Client -> [Number -> PeerPhase]]
          /\ \A u \in Client, w \in Number :
                peer'[u][w] = peer[u][w] \/ (u = h /\ w = n /\ peer'[u][w] = s)
      BY <1>1, <3>1, PeerChanged
    <3> QED
      BY <3>1, <3>2
  <2> QED
    BY <2>1, <2>2, <2>3
<1>4. FrontendTypeOK'
  BY <1>1, <1>2, <1>3 DEF FrontendTypeOK
<1>5. ServedAreLoggedIn'
  BY <1>2, <1>3 DEF FrontendInv, ServedAreLoggedIn
<1> QED
  BY <1>2, <1>4, <1>5, WorldFrames, Frames DEF FrontendInv

LEMMA AnnounceKeepsInv ==
    ASSUME FrontendInv, NEW a \in Announcer, Announce(a)
    PROVE  FrontendInv'
<1>1. FrontendTypeOK /\ BacklogIsNew /\ RoundsAreAnnounced
  BY DEF FrontendInv
<1>2. /\ notice[a] = "absent" /\ notice' = [notice EXCEPT ![a] = "waiting"]
      /\ backlog' = Append(backlog, a)
      /\ leader' = "elected"
      /\ UNCHANGED programVars
      /\ UNCHANGED <<shouldRestablish, main, clientHandlers, todo, current, made, handler,
                     isFinished, named, serverConn, consumer, on, crashed, client, requests, peer,
                     closed, sent>>
  BY DEF Announce, Step, programVars, mainVars, handlerVars, consumerVars, linkVars
<1>3. /\ notice' \in [Announcer -> {"absent", "waiting", "accepted", "done"}]
      /\ notice'[a] = "waiting" /\ \A b \in Announcer : b # a => notice'[b] = notice[b]
  BY <1>1, <1>2 DEF FrontendTypeOK
<1>4. /\ backlog \in Seq(Client \cup Announcer) /\ backlog' \in Seq(Client \cup Announcer)
      /\ Len(backlog) \in Nat /\ DOMAIN backlog = 1 .. Len(backlog)
      /\ DOMAIN backlog' = 1 .. Len(backlog) + 1
      /\ backlog'[Len(backlog) + 1] = a
      /\ \A i \in DOMAIN backlog : backlog'[i] = backlog[i]
  BY <1>1, <1>2, AppendProperties DEF FrontendTypeOK
<1>5. FrontendTypeOK'
  BY <1>1, <1>2, <1>3, <1>4 DEF FrontendTypeOK
<1>6. BacklogIsNew'
  <2>1. \A i \in DOMAIN backlog : backlog[i] # a
    BY <1>1, <1>2 DEF BacklogIsNew
  <2>2. \A i \in DOMAIN backlog' : i \in DOMAIN backlog \/ i = Len(backlog) + 1
    BY <1>4
  <2>3. ASSUME NEW i \in DOMAIN backlog'
        PROVE  /\ backlog'[i] \in Client =>
                     client[backlog'[i]] # "absent" /\ handler[backlog'[i]] = "none"
               /\ backlog'[i] \in Announcer => notice'[backlog'[i]] = "waiting"
    <3>1. CASE i \in DOMAIN backlog
      BY <1>1, <1>3, <1>4, <2>1, <3>1 DEF BacklogIsNew
    <3>2. CASE i = Len(backlog) + 1
      BY <1>3, <1>4, <3>2, FrontendAssumption
    <3> QED
      BY <2>2, <3>1, <3>2
  <2>4. ASSUME NEW i \in DOMAIN backlog', NEW j \in DOMAIN backlog', backlog'[i] = backlog'[j]
        PROVE  i = j
    BY <1>1, <1>4, <2>1, <2>2, <2>4 DEF BacklogIsNew
  <2> QED
    BY <1>2, <2>3, <2>4 DEF BacklogIsNew
<1>7. RoundsAreAnnounced'
  <2>1. Treated' = Treated
    BY <1>2, <1>3 DEF Treated
  <2> QED
    BY <1>1, <1>2, <2>1 DEF RoundsAreAnnounced, Spares
<1> QED
  BY <1>2, <1>5, <1>6, <1>7, WorldFrames, Frames DEF FrontendInv

-----------------------------------------------------------------------------
(* The invariant.                                                          *)

LEMMA InitEstablishesInv == FrontendInit => FrontendInv
<1> SUFFICES ASSUME FrontendInit
             PROVE  FrontendInv
  OBVIOUS
<1>1. FrontendTypeOK
  <2>1. /\ made \in [Client -> 0 .. MaxConn]
        /\ consumer \in [Client -> [Number -> ConsumerPhase]]
        /\ handler \in [Client -> HandlerPhase]
        /\ serverConn \in [Client -> Number \cup {NULL}]
        /\ on \in [Client -> [Number -> Number \cup {NULL}]]
    BY NumberFacts DEF FrontendInit, HandlerPhase, ConsumerPhase
  <2>2. /\ peer \in [Client -> [Number -> PeerPhase]]
        /\ closed \in [Client -> SUBSET Number]
        /\ sent \in [Client -> [Number -> SUBSET Packet]]
    BY DEF FrontendInit, PeerPhase
  <2>3. /\ requests \in [Client -> Seq({"LOGIN", "SEND"})]
        /\ backlog \in Seq(Client \cup Announcer)
    BY DEF FrontendInit
  <2> QED
    BY <2>1, <2>2, <2>3 DEF FrontendInit, FrontendTypeOK
<1>2. RequestsAreLoggedIn /\ OpenIsRead /\ ReceiversReceive
  BY DEF FrontendInit, RequestsAreLoggedIn, OpenIsRead, ReceiversReceive
<1>3. KnownAreLoggedIn /\ ServedAreLoggedIn
  BY DEF FrontendInit, KnownAreLoggedIn, IsKnown, ServedAreLoggedIn
<1>4. HandlersBegin /\ BacklogIsNew /\ OneIsCurrent
  BY DEF FrontendInit, HandlersBegin, BacklogIsNew, OneIsCurrent
<1>5. RoundsAreAnnounced
  BY TreatedIsCounted DEF FrontendInit, RoundsAreAnnounced, Spares
<1> QED
  BY <1>1, <1>2, <1>3, <1>4, <1>5 DEF FrontendInv

LEMMA NextKeepsInv == FrontendInv /\ [FrontendNext]_frontendVars => FrontendInv'
<1> SUFFICES ASSUME FrontendInv, [FrontendNext]_frontendVars
             PROVE  FrontendInv'
  OBVIOUS
<1>1. CASE MainNext
  BY <1>1, AcceptKeepsInv, AcceptNoticeKeepsInv, AcceptTimeoutKeepsInv, CheckFlagKeepsInv,
     ReconnectKeepsInv, RestartServerConsumerKeepsInv, RestablishedKeepsInv
  DEF MainNext
<1>2. ASSUME NEW h \in Client, HandlerNext(h)
      PROVE  FrontendInv'
  BY <1>2, HandlerStartKeepsInv, HandlerReceiveKeepsInv, HandleRequestKeepsInv,
     LoseClientKeepsInv, SendCloseKeepsInv, HandlerEndKeepsInv
  DEF HandlerNext
<1>3. ASSUME NEW h \in Client, NEW n \in Number, ConsumerNext(h, n)
      PROVE  FrontendInv'
  BY <1>3, ConsumerLoopKeepsInv, ConsumerLostKeepsInv, ConsumerEndKeepsInv DEF ConsumerNext
<1>8. ASSUME NEW h \in Client, NEW n \in Number, ServerNext(h, n)
      PROVE  FrontendInv'
  BY <1>8, ServersKeepInv
<1>4. CASE NoticeNext
  BY <1>4, HandleNewLeaderKeepsInv DEF NoticeNext
<1>5. CASE ElectedNext
  BY <1>5, ServersKeepInv, AnnounceKeepsInv DEF ElectedNext
<1>6. CASE FreeNext
  BY <1>6, ServersKeepInv, ClientConnectKeepsInv, ClientRequestKeepsInv, ClientQuitKeepsInv,
     ConsumerForwardKeepsInv
  DEF FreeNext
<1>7. CASE UNCHANGED frontendVars
  <2>1. UNCHANGED <<shouldRestablish, main, clientHandlers, todo, current, made, handler,
                    isFinished, named, serverConn, consumer, on, crashed, client, notice, requests,
                    backlog, leader, peer, closed, sent>>
    BY <1>7 DEF frontendVars, mainVars, handlerVars, consumerVars, worldVars, linkVars
  <2>2. FrontendTypeOK'
    BY <2>1 DEF FrontendInv, FrontendTypeOK
  <2> QED
    BY <2>1, <2>2, Frames DEF FrontendInv
<1> QED
  BY <1>1, <1>2, <1>3, <1>4, <1>5, <1>6, <1>7, <1>8 DEF FrontendNext

\* Whatever the clients, the consumers and the changes of leader do, in whatever
\* order, the front-end (main, ClientHandler::run, ServerConsumer::run) keeps all of
\* FrontendInv.
THEOREM FrontendInvariant == FrontendSpec => []FrontendInv
<1> QED
  BY InitEstablishesInv, NextKeepsInv, PTL DEF FrontendSpec

\* No server receives a request of ClientHandler::run on a connection that did not
\* carry the LOGIN of that client first, however often connections are replaced.
THEOREM RequestsAreAlwaysLoggedIn == FrontendSpec => []RequestsAreLoggedIn
<1>1. FrontendInv => RequestsAreLoggedIn
  BY DEF FrontendInv
<1> QED
  BY <1>1, FrontendInvariant, PTL

\* Every m_serverConn is attended to by a ServerConsumer, the detached ones included.
THEOREM OpenIsAlwaysRead == FrontendSpec => []OpenIsRead
<1>1. FrontendInv => OpenIsRead
  BY DEF FrontendInv
<1> QED
  BY <1>1, FrontendInvariant, PTL
=============================================================================
