---------------------------- MODULE ClientProofs ----------------------------
(***************************************************************************)
(* What the client guarantees for any number of connections, any length of *)
(* the feed, any size of a page and any width of size_t.                   *)
(***************************************************************************)
EXTENDS Client, FiniteSetTheorems, SequenceTheorems, TLAPS

-----------------------------------------------------------------------------
(* What is on its way.                                                     *)

\* The notifications in any inboxes: Unread is DataIn(inbox).
DataIn(box) ==
    {e \in Number \X (1 .. MaxUnread) :
        e[2] <= Len(box[e[1]]) /\ box[e[1]][e[2]] = "DATA"}

LEMMA BoundFacts ==
    /\ {MaxConn, MaxItems, MaxUnread, itemsPerPage, SIZE_MAX} \subseteq Nat \ {0}
    /\ MaxItems <= SIZE_MAX /\ itemsPerPage <= SIZE_MAX
BY ClientAssumption DEF ClientAssumption

\* Cardinalities of notifications are numbers.
LEMMA DataIsFinite ==
    ASSUME NEW box
    PROVE  IsFiniteSet(DataIn(box)) /\ Cardinality(DataIn(box)) \in Nat
<1>1. IsFiniteSet(Number) /\ IsFiniteSet(1 .. MaxUnread)
  BY BoundFacts, FS_Interval DEF Number
<1>2. IsFiniteSet(Number \X (1 .. MaxUnread))
  BY <1>1, FS_Product
<1>3. DataIn(box) \in SUBSET (Number \X (1 .. MaxUnread))
  BY DEF DataIn
<1> QED
  BY <1>2, <1>3, FS_Subset, FS_CardinalityType

LEMMA UnreadIsData ==
    Unread = DataIn(inbox) /\ Unread' = DataIn(inbox')
BY DEF Unread, DataIn

\* A packet more is at most one notification more, and none if it is no DATA.
LEMMA OneMore ==
    ASSUME NEW box \in [Number -> Seq(Packet)], NEW n \in Number, NEW p \in Packet
    PROVE  LET new == [box EXCEPT ![n] = Append(@, p)] IN
           /\ new \in [Number -> Seq(Packet)]
           /\ \A m \in Number : Len(new[m]) = IF m = n THEN Len(box[m]) + 1 ELSE Len(box[m])
           /\ Cardinality(DataIn(new)) <= Cardinality(DataIn(box)) + 1
           /\ p # "DATA" => Cardinality(DataIn(new)) <= Cardinality(DataIn(box))
<1> DEFINE new == [box EXCEPT ![n] = Append(@, p)]
<1>1. box[n] \in Seq(Packet)
  OBVIOUS
<1>2. /\ Append(box[n], p) \in Seq(Packet)
      /\ Len(Append(box[n], p)) = Len(box[n]) + 1
      /\ \A i \in 1 .. Len(box[n]) : Append(box[n], p)[i] = box[n][i]
      /\ Append(box[n], p)[Len(box[n]) + 1] = p
  BY <1>1, AppendProperties
<1>3. Len(box[n]) \in Nat
  BY <1>1, LenProperties
<1>4. /\ new \in [Number -> Seq(Packet)]
      /\ \A m \in Number : new[m] = IF m = n THEN Append(box[n], p) ELSE box[m]
  BY <1>2
<1> HIDE DEF new
<1>5. ASSUME NEW m \in Number, NEW i \in 1 .. MaxUnread, <<m, i>> \in DataIn(new)
      PROVE  <<m, i>> \in DataIn(box) \/ (p = "DATA" /\ <<m, i>> = <<n, Len(box[n]) + 1>>)
  <2>1. i <= Len(new[m]) /\ new[m][i] = "DATA"
    BY <1>5 DEF DataIn
  <2>2. CASE m = n /\ i \in 1 .. Len(box[n])
    BY <2>1, <2>2, <1>2, <1>4 DEF DataIn
  <2>3. CASE m = n /\ i = Len(box[n]) + 1
    BY <2>1, <2>3, <1>2, <1>4
  <2>4. CASE m # n
    BY <2>1, <2>4, <1>4 DEF DataIn
  <2>5. m = n => i \in 1 .. Len(box[n]) \/ i = Len(box[n]) + 1
    BY <2>1, <1>2, <1>3, <1>4
  <2> QED
    BY <2>2, <2>3, <2>4, <2>5
<1>6. \A e \in DataIn(new) :
        e \in DataIn(box) \/ (p = "DATA" /\ e = <<n, Len(box[n]) + 1>>)
  <2>1. \A e \in DataIn(new) : \E m \in Number, i \in 1 .. MaxUnread : e = <<m, i>>
    BY DEF DataIn
  <2> QED
    BY <1>5, <2>1
<1> DEFINE bigger == DataIn(box) \cup {<<n, Len(box[n]) + 1>>}
<1>7. Cardinality(DataIn(new)) <= Cardinality(DataIn(box)) + 1
  <2>1. /\ IsFiniteSet(bigger)
        /\ \/ Cardinality(bigger) = Cardinality(DataIn(box))
           \/ Cardinality(bigger) = Cardinality(DataIn(box)) + 1
    BY DataIsFinite, FS_AddElement
  <2>2. DataIn(new) \in SUBSET bigger
    BY <1>6
  <2>3. Cardinality(DataIn(new)) <= Cardinality(bigger)
    BY <2>1, <2>2, FS_Subset
  <2> QED
    BY <2>1, <2>3, DataIsFinite
<1>8. ASSUME p # "DATA"
      PROVE  Cardinality(DataIn(new)) <= Cardinality(DataIn(box))
  <2>1. DataIn(new) \in SUBSET DataIn(box)
    BY <1>6, <1>8
  <2> QED
    BY <2>1, DataIsFinite, FS_Subset
<1>9. \A m \in Number : Len(new[m]) = IF m = n THEN Len(box[m]) + 1 ELSE Len(box[m])
  BY <1>2, <1>4
<1> QED
  BY <1>4, <1>7, <1>8, <1>9 DEF new

\* A packet read is a packet less on its way, and a notification less if it is DATA.
LEMMA OneLess ==
    ASSUME NEW box \in [Number -> Seq(Packet)], NEW n \in Number, box[n] # <<>>,
           \A m \in Number : Len(box[m]) <= MaxUnread
    PROVE  LET new == [box EXCEPT ![n] = Tail(@)] IN
           /\ new \in [Number -> Seq(Packet)]
           /\ \A m \in Number : Len(new[m]) <= MaxUnread
           /\ Cardinality(DataIn(new)) <= Cardinality(DataIn(box))
           /\ Head(box[n]) = "DATA" =>
                Cardinality(DataIn(new)) + 1 <= Cardinality(DataIn(box))
<1> DEFINE new == [box EXCEPT ![n] = Tail(@)]
           rest == DataIn(box) \ {<<n, 1>>}
           old  == [e \in DataIn(new) |-> <<e[1], IF e[1] = n THEN e[2] + 1 ELSE e[2]>>]
<1>1. box[n] \in Seq(Packet) /\ box[n] # <<>>
  OBVIOUS
<1>2. /\ Tail(box[n]) \in Seq(Packet) /\ Len(Tail(box[n])) = Len(box[n]) - 1
      /\ \A i \in 1 .. Len(Tail(box[n])) : Tail(box[n])[i] = box[n][i + 1]
      /\ Head(box[n]) = box[n][1]
  BY <1>1, HeadTailProperties
<1>3. Len(box[n]) \in Nat \ {0} /\ Len(box[n]) <= MaxUnread /\ MaxUnread \in Nat
  BY <1>1, LenProperties, EmptySeq, BoundFacts
<1>4. /\ new \in [Number -> Seq(Packet)]
      /\ \A m \in Number : new[m] = IF m = n THEN Tail(box[n]) ELSE box[m]
  BY <1>2
<1> HIDE DEF new
<1>5. ASSUME NEW m \in Number, NEW i \in 1 .. MaxUnread, <<m, i>> \in DataIn(new)
      PROVE  IF m = n THEN <<m, i + 1>> \in rest ELSE <<m, i>> \in rest
  <2>1. i <= Len(new[m]) /\ new[m][i] = "DATA"
    BY <1>5 DEF DataIn
  <2>2. CASE m = n
    <3>1. i \in 1 .. Len(Tail(box[n])) /\ i + 1 <= Len(box[n]) /\ i + 1 \in 1 .. MaxUnread
      BY <2>1, <2>2, <1>2, <1>3, <1>4
    <3>2. box[n][i + 1] = "DATA"
      BY <2>1, <2>2, <3>1, <1>2, <1>4
    <3>3. <<m, i + 1>> \in DataIn(box)
      BY <2>2, <3>1, <3>2 DEF DataIn
    <3> QED
      BY <2>2, <3>3
  <2>3. CASE m # n
    BY <2>1, <2>3, <1>4 DEF DataIn
  <2> QED
    BY <2>2, <2>3
<1>6. \A e \in DataIn(new) : \E m \in Number, i \in 1 .. MaxUnread : e = <<m, i>>
  BY DEF DataIn
<1>7. old \in [DataIn(new) -> rest]
  <2> SUFFICES ASSUME NEW e \in DataIn(new)
               PROVE  <<e[1], IF e[1] = n THEN e[2] + 1 ELSE e[2]>> \in rest
    OBVIOUS
  <2>1. PICK m \in Number, i \in 1 .. MaxUnread : e = <<m, i>>
    BY <1>6
  <2> QED
    BY <1>5, <2>1
<1>8. old \in Injection(DataIn(new), rest)
  <2> SUFFICES ASSUME NEW d \in DataIn(new), NEW e \in DataIn(new), old[d] = old[e]
               PROVE  d = e
    BY <1>7 DEF Injection, IsInjective
  <2>1. PICK m \in Number, i \in 1 .. MaxUnread : d = <<m, i>>
    BY <1>6
  <2>2. PICK l \in Number, j \in 1 .. MaxUnread : e = <<l, j>>
    BY <1>6
  <2>3. /\ old[d] = <<m, IF m = n THEN i + 1 ELSE i>>
        /\ old[e] = <<l, IF l = n THEN j + 1 ELSE j>>
    BY <2>1, <2>2
  <2>4. m = l /\ (IF m = n THEN i + 1 ELSE i) = (IF l = n THEN j + 1 ELSE j)
    BY <2>3
  <2> QED
    BY <2>1, <2>2, <2>4
<1> HIDE DEF old
<1>9. /\ IsFiniteSet(rest) /\ Cardinality(rest) <= Cardinality(DataIn(box))
      /\ <<n, 1>> \in DataIn(box) => Cardinality(rest) = Cardinality(DataIn(box)) - 1
  <2>1. IsFiniteSet(DataIn(box)) /\ Cardinality(DataIn(box)) \in Nat
    BY DataIsFinite
  <2>2. /\ IsFiniteSet(rest)
        /\ Cardinality(rest) = IF <<n, 1>> \in DataIn(box)
                               THEN Cardinality(DataIn(box)) - 1 ELSE Cardinality(DataIn(box))
    BY <2>1, FS_RemoveElement
  <2> QED
    BY <2>1, <2>2
<1>10. Cardinality(DataIn(new)) <= Cardinality(rest)
  BY <1>8, <1>9, FS_Injection
<1>11. Head(box[n]) = "DATA" => <<n, 1>> \in DataIn(box)
  BY <1>2, <1>3 DEF DataIn
<1>12. \A m \in Number : Len(new[m]) <= MaxUnread
  BY <1>2, <1>3, <1>4
<1>13. /\ Cardinality(DataIn(new)) <= Cardinality(DataIn(box))
       /\ Head(box[n]) = "DATA" =>
            Cardinality(DataIn(new)) + 1 <= Cardinality(DataIn(box))
  <2>1. /\ Cardinality(DataIn(new)) \in Nat /\ Cardinality(DataIn(box)) \in Nat
        /\ Cardinality(rest) \in Nat
    BY <1>9, DataIsFinite, FS_CardinalityType
  <2> QED
    BY <1>9, <1>10, <1>11, <2>1
<1> QED
  BY <1>4, <1>12, <1>13 DEF new
-----------------------------------------------------------------------------
(* The inductive invariant: what steps leave alone.                        *)

LEMMA FeedUntouched ==
    ASSUME FeedFits, UNCHANGED <<size, inbox>>
    PROVE  FeedFits'
BY DEF FeedFits, Unread

\* A step of main() that neither connects nor logs in.
LEMMA MainGoesOn ==
    ASSUME ClientInv, event' \in Event,
           main' \in {"looping", "event", "window", "exited", "crashed"},
           shouldReconnect' \in BOOLEAN, shouldReconnect' => shouldReconnect,
           UNCHANGED <<connection, made, receiver, feedVars, peer, inbox>>
    PROVE  ClientInv'
<1>1. UNCHANGED <<size, begin>>
  BY DEF feedVars
<1>2. ClientTypeOK'
  BY <1>1 DEF ClientInv, ClientTypeOK
<1>3. FeedFits'
  BY <1>1, FeedUntouched DEF ClientInv
<1>4. LastIsUsed'
  BY DEF ClientInv, LastIsUsed
<1>5. AnswerIsForLogin'
  BY DEF AnswerIsForLogin
<1>6. LossIsTheCause'
  <2>1. main' \notin {"relogin", "clearing"}
    OBVIOUS
  <2>2. shouldReconnect' => \E n \in Number : receiver'[n] # "none" /\ peer'[n] = "closed"
    BY DEF ClientInv, LossIsTheCause
  <2> QED
    BY <2>1, <2>2 DEF LossIsTheCause
<1> QED
  BY <1>2, <1>3, <1>4, <1>5, <1>6 DEF ClientInv

-----------------------------------------------------------------------------
(* main()                                                                  *)

LEMMA LoginAnsweredKeepsInv ==
    ASSUME ClientInv, LoginAnswered
    PROVE  ClientInv'
<1>1. /\ ClientTypeOK /\ FeedFits /\ LastIsUsed /\ AnswerIsForLogin /\ LossIsTheCause
      /\ main \in {"login", "relogin"} /\ connection = made /\ made \in Number
      /\ connection \in Number /\ inbox[connection] # <<>>
      /\ inbox \in [Number -> Seq(Packet)]
      /\ \A m \in Number : Len(inbox[m]) <= MaxUnread
  BY DEF LoginAnswered, ClientInv, ClientTypeOK, AnswerIsForLogin, FeedFits
<1>2. /\ inbox' = [inbox EXCEPT ![connection] = Tail(@)]
      /\ UNCHANGED <<shouldReconnect, event, connection, made, size, begin, peer>>
      /\ main' \in {"looping", "clearing", "exited"}
      /\ main' = "clearing" => main = "relogin"
      /\ receiver' = receiver \/ receiver' = [receiver EXCEPT ![connection] = "checking"]
  BY <1>1 DEF LoginAnswered, TakePacket, feedVars
<1>3. /\ inbox' \in [Number -> Seq(Packet)]
      /\ \A m \in Number : Len(inbox'[m]) <= MaxUnread
      /\ Cardinality(DataIn(inbox')) <= Cardinality(DataIn(inbox))
  BY <1>1, <1>2, OneLess
<1>4. /\ receiver' \in [Number -> {"none", "checking", "receiving", "ended"}]
      /\ \A m \in Number : receiver'[m] = receiver[m] \/ (m = made /\ receiver'[m] = "checking")
  BY <1>1, <1>2 DEF ClientTypeOK
<1>5. ClientTypeOK'
  BY <1>1, <1>2, <1>3, <1>4 DEF ClientTypeOK
<1>6. FeedFits'
  <2>1. /\ size \in Nat /\ MaxItems \in Nat
        /\ Cardinality(DataIn(inbox)) \in Nat /\ Cardinality(DataIn(inbox')) \in Nat
    BY <1>1, BoundFacts, DataIsFinite DEF ClientTypeOK
  <2>2. size + Cardinality(DataIn(inbox)) <= MaxItems
    BY <1>1, UnreadIsData DEF FeedFits
  <2>3. size' + Cardinality(DataIn(inbox')) <= MaxItems
    BY <2>1, <2>2, <1>2, <1>3
  <2> QED
    BY <2>3, <1>3, UnreadIsData DEF FeedFits
<1>7. LastIsUsed'
  <2>1. \A m \in Number : m > made => m # made
    BY <1>1 DEF Number
  <2>2. \A m \in Number : m # made => inbox'[m] = inbox[m]
    BY <1>1, <1>2
  <2> QED
    BY <2>1, <2>2, <1>1, <1>2, <1>4 DEF LastIsUsed
<1>8. AnswerIsForLogin'
  BY <1>2 DEF AnswerIsForLogin
<1>9. LossIsTheCause'
  BY <1>1, <1>2, <1>4 DEF LossIsTheCause
<1> QED
  BY <1>5, <1>6, <1>7, <1>8, <1>9 DEF ClientInv

\* Another connection, whose LOGIN waits for its answer.
LEMMA ReconnectionKeepsInv ==
    ASSUME ClientInv, shouldReconnect, made < MaxConn, Connect(made + 1),
           main' = "relogin", event' \in Event,
           UNCHANGED <<shouldReconnect, receiver, feedVars, inbox>>
    PROVE  ClientInv'
<1>1. /\ ClientTypeOK /\ FeedFits /\ LastIsUsed /\ LossIsTheCause
      /\ made \in Number /\ peer \in [Number -> {"none", "open", "closed"}]
  BY DEF ClientInv, ClientTypeOK
<1>2. /\ made + 1 \in Number /\ made \in Nat
      /\ \A m \in Number : m > made + 1 => m > made /\ m # made + 1
  BY <1>1, BoundFacts DEF Number
<1>3. /\ made' = made + 1 /\ connection' = made + 1
      /\ peer' = [peer EXCEPT ![made + 1] = "open"]
      /\ UNCHANGED <<shouldReconnect, receiver, size, begin, inbox>>
  BY DEF Connect, feedVars
<1>4. /\ peer' \in [Number -> {"none", "open", "closed"}]
      /\ \A m \in Number : m # made + 1 => peer'[m] = peer[m]
  BY <1>1, <1>2, <1>3
<1>5. made + 1 > made /\ receiver[made + 1] = "none" /\ peer[made + 1] = "none"
  BY <1>1, <1>2 DEF LastIsUsed
<1>6. ClientTypeOK'
  BY <1>1, <1>2, <1>3, <1>4 DEF ClientTypeOK
<1>7. FeedFits'
  BY <1>1, <1>3, FeedUntouched
<1>8. LastIsUsed'
  BY <1>1, <1>2, <1>3, <1>4 DEF LastIsUsed
<1>9. AnswerIsForLogin'
  BY <1>3, <1>5 DEF AnswerIsForLogin
<1>10. LossIsTheCause'
  <2>1. PICK m \in Number : receiver[m] # "none" /\ peer[m] = "closed"
    BY <1>1 DEF LossIsTheCause
  <2>2. receiver'[m] # "none" /\ peer'[m] = "closed"
    BY <2>1, <1>3, <1>4, <1>5
  <2> QED
    BY <2>2, <1>3 DEF LossIsTheCause
<1> QED
  BY <1>6, <1>7, <1>8, <1>9, <1>10 DEF ClientInv

\* No front-end listens: main() goes on without a connection.
LEMMA NoReconnectionKeepsInv ==
    ASSUME ClientInv, shouldReconnect, ConnectToNobody, main' = "clearing", event' \in Event,
           UNCHANGED <<shouldReconnect, receiver, feedVars, inbox>>
    PROVE  ClientInv'
<1>1. connection' = NULL /\ UNCHANGED <<shouldReconnect, made, receiver, size, begin, peer, inbox>>
  BY DEF ConnectToNobody, feedVars
<1>2. ClientTypeOK'
  BY <1>1 DEF ClientInv, ClientTypeOK
<1>3. FeedFits'
  BY <1>1, FeedUntouched DEF ClientInv
<1>4. LastIsUsed'
  BY <1>1 DEF ClientInv, LastIsUsed
<1>5. AnswerIsForLogin'
  BY DEF AnswerIsForLogin
<1>6. LossIsTheCause'
  BY <1>1 DEF ClientInv, LossIsTheCause
<1> QED
  BY <1>2, <1>3, <1>4, <1>5, <1>6 DEF ClientInv

LEMMA PressKeyKeepsInv ==
    ASSUME ClientInv, NEW e \in Event, PressKey(e)
    PROVE  ClientInv'
<1>1. event' \in Event /\ UNCHANGED <<shouldReconnect, receiver, feedVars, inbox>>
  BY DEF PressKey
<1>2. \/ shouldReconnect /\ made < MaxConn /\ Connect(made + 1) /\ main' = "relogin"
      \/ shouldReconnect /\ ConnectToNobody /\ main' = "clearing"
      \/ main' = "event" /\ UNCHANGED <<connection, made, peer>>
  BY DEF PressKey
<1>3. shouldReconnect \in BOOLEAN
  BY DEF ClientInv, ClientTypeOK
<1> QED
  BY <1>1, <1>2, <1>3, MainGoesOn, ReconnectionKeepsInv, NoReconnectionKeepsInv

LEMMA MainNextKeepsInv ==
    ASSUME ClientInv, MainNext
    PROVE  ClientInv'
<1>1. shouldReconnect \in BOOLEAN /\ event \in Event
  BY DEF ClientInv, ClientTypeOK
<1>2. CASE LoginAnswered
  BY <1>2, LoginAnsweredKeepsInv
<1>3. CASE LoginLost
  BY <1>1, <1>3, MainGoesOn DEF LoginLost
<1>4. CASE ClearFlag
  BY <1>1, <1>4, MainGoesOn DEF ClearFlag
<1>5. CASE Command
  BY <1>1, <1>5, MainGoesOn DEF Command
<1>6. CASE OpenWindow
  BY <1>1, <1>6, MainGoesOn DEF OpenWindow
<1>7. CASE OtherKey
  BY <1>1, <1>7, MainGoesOn DEF OtherKey
<1> QED
  BY <1>2, <1>3, <1>4, <1>5, <1>6, <1>7 DEF MainNext

-----------------------------------------------------------------------------
(* The pages of the feed.                                                  *)

\* The unsigned subtraction is the subtraction when the feed fills a page.
LEMMA NoWrap ==
    ASSUME ClientInv, itemsPerPage <= size
    PROVE  (size - itemsPerPage) % (SIZE_MAX + 1) = size - itemsPerPage
<1>1. /\ size \in 0 .. MaxItems /\ MaxItems \in Nat /\ itemsPerPage \in Nat /\ SIZE_MAX \in Nat
      /\ MaxItems <= SIZE_MAX
  BY BoundFacts DEF ClientInv, ClientTypeOK
<1>2. \A a, m \in Nat : a < m => a % m = a
  OBVIOUS
<1>3. /\ size - itemsPerPage \in Nat /\ SIZE_MAX + 1 \in Nat
      /\ size - itemsPerPage < SIZE_MAX + 1
  BY <1>1
<1> QED
  BY <1>2, <1>3

LEMMA PagingKeepsInv ==
    ASSUME ClientInv, ShowNext \/ ShowPrevious
    PROVE  ClientInv'
<1>1. /\ main = "window" /\ begin' \in 0 .. MaxItems
      /\ UNCHANGED <<shouldReconnect, main, event, connection, made, receiver, size, peer, inbox>>
  <2>1. begin \in 0 .. MaxItems /\ MaxItems \in Nat
    BY BoundFacts DEF ClientInv, ClientTypeOK
  <2>2. CASE ShowNext
    BY <2>1, <2>2 DEF ShowNext, mainVars
  <2>3. CASE ShowPrevious
    BY <2>1, <2>3 DEF ShowPrevious, mainVars
  <2> QED
    BY <2>2, <2>3
<1>2. ClientTypeOK'
  BY <1>1 DEF ClientInv, ClientTypeOK
<1>3. FeedFits'
  BY <1>1, FeedUntouched DEF ClientInv
<1>4. LastIsUsed' /\ AnswerIsForLogin' /\ LossIsTheCause'
  BY <1>1 DEF ClientInv, LastIsUsed, AnswerIsForLogin, LossIsTheCause
<1> QED
  BY <1>2, <1>3, <1>4 DEF ClientInv

LEMMA UserNextKeepsInv ==
    ASSUME ClientInv, UserNext
    PROVE  ClientInv'
<1>1. CASE \E e \in Event : PressKey(e)
  BY <1>1, PressKeyKeepsInv
<1>2. CASE PressF1
  <2>1. shouldReconnect \in BOOLEAN /\ event \in Event
    BY DEF ClientInv, ClientTypeOK
  <2> QED
    BY <2>1, <1>2, MainGoesOn DEF PressF1
<1>3. CASE ShowNext \/ ShowPrevious
  BY <1>3, PagingKeepsInv
<1> QED
  BY <1>1, <1>2, <1>3 DEF UserNext

-----------------------------------------------------------------------------
(* ConnectionConsumer::run                                                 *)

\* What a receiver and the front-ends leave alone.
LEMMA MainUntouched ==
    ASSUME UNCHANGED mainVars
    PROVE  UNCHANGED <<main, event, connection, made>>
BY DEF mainVars

\* A step of a receiver changes its own place and no other; main() does not wait
\* for an answer on its connection.
LEMMA ReceiverMoves ==
    ASSUME ClientInv, NEW n \in Number, receiver[n] # "none",
           NEW place \in {"checking", "receiving", "ended"},
           receiver' = [receiver EXCEPT ![n] = place], UNCHANGED mainVars, UNCHANGED peer,
           \A m \in Number : m # n => inbox'[m] = inbox[m]
    PROVE  /\ receiver' \in [Number -> {"none", "checking", "receiving", "ended"}]
           /\ \A m \in Number : receiver[m] # "none" => receiver'[m] # "none"
           /\ LastIsUsed'
           /\ AnswerIsForLogin'
<1>1. /\ receiver \in [Number -> {"none", "checking", "receiving", "ended"}] /\ made \in Number
      /\ UNCHANGED <<main, event, connection, made, peer>>
  BY MainUntouched DEF ClientInv, ClientTypeOK
<1>2. /\ receiver' \in [Number -> {"none", "checking", "receiving", "ended"}]
      /\ \A m \in Number : receiver'[m] = IF m = n THEN place ELSE receiver[m]
  BY <1>1
<1>3. ~(n > made)
  BY DEF ClientInv, LastIsUsed
<1>4. LastIsUsed'
  BY <1>1, <1>2, <1>3 DEF ClientInv, LastIsUsed
<1>5. AnswerIsForLogin'
  BY <1>1, <1>2 DEF ClientInv, AnswerIsForLogin
<1> QED
  BY <1>2, <1>4, <1>5

LEMMA ReceiverCheckKeepsInv ==
    ASSUME ClientInv, NEW n \in Number, ReceiverCheck(n)
    PROVE  ClientInv'
<1>1. PICK place \in {"checking", "receiving", "ended"} :
         receiver' = [receiver EXCEPT ![n] = place]
  BY DEF ReceiverCheck
<1>2. /\ receiver[n] # "none" /\ UNCHANGED mainVars
      /\ UNCHANGED <<shouldReconnect, main, event, connection, made, size, begin, peer, inbox>>
  BY DEF ReceiverCheck, mainVars, feedVars
<1>3. /\ receiver' \in [Number -> {"none", "checking", "receiving", "ended"}]
      /\ \A m \in Number : receiver[m] # "none" => receiver'[m] # "none"
      /\ LastIsUsed' /\ AnswerIsForLogin'
  BY <1>1, <1>2, ReceiverMoves
<1>4. ClientTypeOK'
  BY <1>2, <1>3 DEF ClientInv, ClientTypeOK
<1>5. FeedFits'
  BY <1>2, FeedUntouched DEF ClientInv
<1>6. LossIsTheCause'
  BY <1>2, <1>3 DEF ClientInv, LossIsTheCause
<1> QED
  BY <1>3, <1>4, <1>5, <1>6 DEF ClientInv

LEMMA ReceiveKeepsInv ==
    ASSUME ClientInv, NEW n \in Number, Receive(n)
    PROVE  ClientInv'
<1>1. /\ inbox \in [Number -> Seq(Packet)] /\ size \in Nat
      /\ \A m \in Number : Len(inbox[m]) <= MaxUnread
      /\ size + Cardinality(DataIn(inbox)) <= MaxItems
  BY UnreadIsData DEF ClientInv, ClientTypeOK, FeedFits
<1>2. /\ receiver[n] # "none" /\ inbox[n] # <<>>
      /\ inbox' = [inbox EXCEPT ![n] = Tail(@)]
      /\ size' = IF Head(inbox[n]) = "DATA" THEN size + 1 ELSE size
      /\ receiver' = [receiver EXCEPT ![n] = "checking"]
      /\ UNCHANGED mainVars
      /\ UNCHANGED <<shouldReconnect, main, event, connection, made, begin, peer>>
  BY DEF Receive, TakePacket, mainVars
<1>3. /\ inbox' \in [Number -> Seq(Packet)]
      /\ \A m \in Number : Len(inbox'[m]) <= MaxUnread
      /\ Cardinality(DataIn(inbox')) <= Cardinality(DataIn(inbox))
      /\ Head(inbox[n]) = "DATA" => Cardinality(DataIn(inbox')) + 1 <= Cardinality(DataIn(inbox))
  BY <1>1, <1>2, OneLess
<1>4. \A m \in Number : m # n => inbox'[m] = inbox[m]
  BY <1>1, <1>2
<1>5. /\ receiver' \in [Number -> {"none", "checking", "receiving", "ended"}]
      /\ \A m \in Number : receiver[m] # "none" => receiver'[m] # "none"
      /\ LastIsUsed' /\ AnswerIsForLogin'
  BY <1>2, <1>4, ReceiverMoves
<1>6. /\ size' \in Nat /\ Cardinality(DataIn(inbox')) \in Nat /\ MaxItems \in Nat
      /\ size' + Cardinality(DataIn(inbox')) <= MaxItems
  <2>1. /\ Cardinality(DataIn(inbox)) \in Nat /\ Cardinality(DataIn(inbox')) \in Nat
        /\ MaxItems \in Nat
    BY BoundFacts, DataIsFinite
  <2>2. size' \in Nat /\ (size' = size \/ (Head(inbox[n]) = "DATA" /\ size' = size + 1))
    BY <1>1, <1>2
  <2> QED
    BY <2>1, <2>2, <1>1, <1>3
<1>7. FeedFits'
  BY <1>3, <1>6, UnreadIsData DEF FeedFits
<1>8. size' \in 0 .. MaxItems
  BY <1>6
<1>9. ClientTypeOK'
  BY <1>2, <1>3, <1>5, <1>8 DEF ClientInv, ClientTypeOK
<1>10. LossIsTheCause'
  BY <1>2, <1>5 DEF ClientInv, LossIsTheCause
<1> QED
  BY <1>5, <1>7, <1>9, <1>10 DEF ClientInv

LEMMA ReceiveNothingKeepsInv ==
    ASSUME ClientInv, NEW n \in Number, ReceiveNothing(n)
    PROVE  ClientInv'
<1>1. /\ receiver[n] # "none" /\ peer[n] = "closed" /\ shouldReconnect' = TRUE
      /\ receiver' = [receiver EXCEPT ![n] = "checking"] /\ UNCHANGED mainVars
      /\ UNCHANGED <<main, event, connection, made, size, begin, peer, inbox>>
  BY DEF ReceiveNothing, mainVars, feedVars
<1>2. /\ receiver' \in [Number -> {"none", "checking", "receiving", "ended"}]
      /\ \A m \in Number : receiver[m] # "none" => receiver'[m] # "none"
      /\ LastIsUsed' /\ AnswerIsForLogin'
  BY <1>1, ReceiverMoves
<1>3. ClientTypeOK'
  BY <1>1, <1>2 DEF ClientInv, ClientTypeOK
<1>4. FeedFits'
  BY <1>1, FeedUntouched DEF ClientInv
<1>5. LossIsTheCause'
  BY <1>1, <1>2 DEF LossIsTheCause
<1> QED
  BY <1>2, <1>3, <1>4, <1>5 DEF ClientInv

-----------------------------------------------------------------------------
(* The front-ends.                                                         *)

LEMMA FrontendSendKeepsInv ==
    ASSUME ClientInv, NEW n \in Number, NEW p \in Packet, FrontendSend(n, p)
    PROVE  ClientInv'
<1>1. /\ inbox \in [Number -> Seq(Packet)] /\ size \in Nat /\ made \in Number
      /\ \A m \in Number : Len(inbox[m]) <= MaxUnread
      /\ size + Cardinality(DataIn(inbox)) <= MaxItems
  BY UnreadIsData DEF ClientInv, ClientTypeOK, FeedFits
<1>2. /\ peer[n] = "open" /\ Len(inbox[n]) < MaxUnread
      /\ p = "DATA" => size + Cardinality(DataIn(inbox)) < MaxItems
      /\ inbox' = [inbox EXCEPT ![n] = Append(@, p)]
      /\ UNCHANGED <<shouldReconnect, main, event, connection, made, receiver, size, begin, peer>>
  BY UnreadIsData DEF FrontendSend, mainVars, feedVars
<1>3. /\ inbox' \in [Number -> Seq(Packet)]
      /\ \A m \in Number : Len(inbox'[m]) = IF m = n THEN Len(inbox[m]) + 1 ELSE Len(inbox[m])
      /\ Cardinality(DataIn(inbox')) <= Cardinality(DataIn(inbox)) + 1
      /\ p # "DATA" => Cardinality(DataIn(inbox')) <= Cardinality(DataIn(inbox))
  BY <1>1, <1>2, OneMore
<1>4. FeedFits'
  <2>1. /\ Cardinality(DataIn(inbox)) \in Nat /\ Cardinality(DataIn(inbox')) \in Nat
        /\ MaxItems \in Nat /\ MaxUnread \in Nat
    BY BoundFacts, DataIsFinite
  <2>2. Len(inbox[n]) \in Nat
    BY <1>1, LenProperties
  <2>3. \A m \in Number : Len(inbox'[m]) <= MaxUnread
    BY <2>1, <2>2, <1>1, <1>2, <1>3
  <2>4. size' + Cardinality(DataIn(inbox')) <= MaxItems
    BY <2>1, <1>1, <1>2, <1>3
  <2> QED
    BY <2>3, <2>4, UnreadIsData DEF FeedFits
<1>5. ClientTypeOK'
  BY <1>2, <1>3 DEF ClientInv, ClientTypeOK
<1>6. LastIsUsed'
  <2>1. ~(n > made)
    BY <1>2 DEF ClientInv, LastIsUsed
  <2>2. \A m \in Number : m # n => inbox'[m] = inbox[m]
    BY <1>1, <1>2
  <2> QED
    BY <2>1, <2>2, <1>2 DEF ClientInv, LastIsUsed
<1>7. AnswerIsForLogin' /\ LossIsTheCause'
  BY <1>2 DEF ClientInv, AnswerIsForLogin, LossIsTheCause
<1> QED
  BY <1>4, <1>5, <1>6, <1>7 DEF ClientInv

LEMMA FrontendLostKeepsInv ==
    ASSUME ClientInv, NEW n \in Number, FrontendLost(n)
    PROVE  ClientInv'
<1>1. /\ peer[n] = "open" /\ peer' = [peer EXCEPT ![n] = "closed"]
      /\ UNCHANGED <<shouldReconnect, main, event, connection, made, receiver, size, begin, inbox>>
  BY DEF FrontendLost, mainVars, feedVars
<1>2. /\ peer' \in [Number -> {"none", "open", "closed"}]
      /\ \A m \in Number : peer'[m] = IF m = n THEN "closed" ELSE peer[m]
  BY <1>1 DEF ClientInv, ClientTypeOK
<1>3. ClientTypeOK'
  BY <1>1, <1>2 DEF ClientInv, ClientTypeOK
<1>4. FeedFits'
  BY <1>1, FeedUntouched DEF ClientInv
<1>5. LastIsUsed'
  BY <1>1, <1>2 DEF ClientInv, LastIsUsed
<1>6. AnswerIsForLogin'
  BY <1>1 DEF ClientInv, AnswerIsForLogin
<1>7. LossIsTheCause'
  BY <1>1, <1>2 DEF ClientInv, LossIsTheCause
<1> QED
  BY <1>3, <1>4, <1>5, <1>6, <1>7 DEF ClientInv

-----------------------------------------------------------------------------
(* The theorems.                                                           *)

LEMMA InitEstablishesInv == ClientInit => ClientInv
<1> SUFFICES ASSUME ClientInit PROVE ClientInv
  OBVIOUS
<1>1. 1 \in Number /\ MaxItems \in Nat /\ MaxUnread \in Nat
  BY BoundFacts DEF Number
<1>2. <<>> \in Seq(Packet) /\ Len(<<>>) = 0
  BY EmptySeq
<1>3. inbox = [n \in Number |-> <<>>] /\ inbox \in [Number -> Seq(Packet)]
  BY <1>2 DEF ClientInit
<1>4. ClientTypeOK
  <2>1. /\ receiver \in [Number -> {"none", "checking", "receiving", "ended"}]
        /\ peer \in [Number -> {"none", "open", "closed"}]
    BY DEF ClientInit
  <2>2. /\ event \in Event /\ connection \in Number /\ made \in Number
        /\ size \in 0 .. MaxItems /\ begin \in 0 .. MaxItems
    BY <1>1 DEF ClientInit, Event
  <2>3. shouldReconnect \in BOOLEAN /\ main = "login"
    BY DEF ClientInit
  <2> QED
    BY <2>1, <2>2, <2>3, <1>3 DEF ClientTypeOK
<1>5. FeedFits
  <2>1. \A n \in Number : Len(inbox[n]) = 0
    BY <1>2, <1>3
  <2>2. Unread = {}
    BY <2>1, <1>1 DEF Unread
  <2>3. Cardinality(Unread) = 0
    BY <2>2, FS_EmptySet
  <2> QED
    BY <2>1, <2>3, <1>1 DEF FeedFits, ClientInit
<1>6. LastIsUsed
  BY <1>1, <1>3 DEF ClientInit, LastIsUsed, Number
<1>7. AnswerIsForLogin /\ LossIsTheCause
  BY <1>1 DEF ClientInit, AnswerIsForLogin, LossIsTheCause
<1> QED
  BY <1>4, <1>5, <1>6, <1>7 DEF ClientInv

LEMMA NextKeepsInv ==
    ASSUME ClientInv, [ClientNext]_clientVars
    PROVE  ClientInv'
<1>1. CASE UserNext
  BY <1>1, UserNextKeepsInv
<1>2. CASE MainNext
  BY <1>2, MainNextKeepsInv
<1>3. ASSUME NEW n \in Number, ReceiverNext(n)
      PROVE  ClientInv'
  BY <1>3, ReceiverCheckKeepsInv, ReceiveKeepsInv, ReceiveNothingKeepsInv DEF ReceiverNext
<1>4. CASE FrontendNext
  BY <1>4, FrontendLostKeepsInv, FrontendSendKeepsInv DEF FrontendNext
<1>5. CASE UNCHANGED clientVars
  <2>1. UNCHANGED <<shouldReconnect, main, event, connection, made, receiver, size, begin, peer,
                    inbox>>
    BY <1>5 DEF clientVars, mainVars, feedVars
  <2>2. ClientTypeOK' /\ FeedFits'
    BY <2>1, FeedUntouched DEF ClientInv, ClientTypeOK
  <2> QED
    BY <2>1, <2>2 DEF ClientInv, LastIsUsed, AnswerIsForLogin, LossIsTheCause
<1> QED
  BY <1>1, <1>2, <1>3, <1>4, <1>5 DEF ClientNext

\* Whatever keys are pressed, connections lost and notifications sent: the answer
\* to a LOGIN is read by tryLogin and by no receiver, and main() reconnects only
\* because a receiver lost its connection.
THEOREM ClientInvariant == ClientSpec => []ClientInv
<1>1. ClientInv /\ [ClientNext]_clientVars => ClientInv'
  BY NextKeepsInv
<1> QED
  BY InitEstablishesInv, <1>1, PTL DEF ClientSpec

\* A feed that shows a full page shows one after every key and every
\* notification, in spite of the unsigned subtraction, whatever the width of
\* size_t.
THEOREM PageAlwaysStaysFull == ClientSpec => PageStaysFull
<1>1. ASSUME ClientInv, [ClientNext]_clientVars, FullPage
      PROVE  FullPage'
  <2>1. /\ size \in Nat /\ begin \in Nat /\ itemsPerPage \in Nat
        /\ itemsPerPage <= size /\ begin <= size - itemsPerPage
    BY <1>1, BoundFacts DEF ClientInv, ClientTypeOK, FullPage
  <2>2. CASE ShowNext
    <3>1. begin < size - itemsPerPage /\ begin' = begin + 1 /\ size' = size
      BY <2>1, <2>2, <1>1, NoWrap DEF ShowNext, CanShowNext
    <3> QED
      BY <2>1, <3>1 DEF FullPage
  <2>3. CASE ShowPrevious
    BY <2>1, <2>3 DEF ShowPrevious, FullPage
  <2>4. ASSUME NEW n \in Number, Receive(n)
        PROVE  FullPage'
    <3>1. begin' = begin /\ (size' = size \/ size' = size + 1)
      BY <2>4 DEF Receive
    <3>2. itemsPerPage <= size' /\ begin' <= size' - itemsPerPage
      BY <2>1, <3>1
    <3> QED
      BY <3>2 DEF FullPage
  <2>5. CASE UNCHANGED feedVars
    BY <2>1, <2>5 DEF feedVars, FullPage
  <2>6. \/ UNCHANGED feedVars \/ ShowNext \/ ShowPrevious \/ \E n \in Number : Receive(n)
    BY <1>1 DEF ClientNext, clientVars, UserNext, MainNext, ReceiverNext, FrontendNext, PressKey,
                PressF1, LoginAnswered, LoginLost, ClearFlag, Command, OpenWindow, OtherKey,
                ReceiverCheck, ReceiveNothing, FrontendLost, FrontendSend
  <2> QED
    BY <2>2, <2>3, <2>4, <2>5, <2>6
<1> QED
  BY <1>1, ClientInvariant, PTL DEF ClientSpec, PageStaysFull
=============================================================================
