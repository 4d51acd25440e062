---------------------- MODULE NotificationServerProofs ----------------------
(***************************************************************************)
(* What NotificationServer guarantees for any users, any connections and   *)
(* any number of notifications.  What the two managers guarantee is taken  *)
(* from the proofs about them.                                             *)
(***************************************************************************)
EXTENDS NotificationServer, ManagerProofs

-----------------------------------------------------------------------------
(* Sequences.                                                              *)

LEMMA OneElement ==
    ASSUME NEW S, NEW q \in Seq(S), Len(q) = 1
    PROVE  q # <<>> /\ q = <<q[1]>> /\ Head(q) = q[1]
<1>1. q # <<>>
  BY EmptySeq
<1>2. q[1] \in S
  BY ElementOfSeq
<1>3. <<q[1]>> \in Seq(S) /\ Len(<<q[1]>>) = 1
  BY <1>2
<1> QED BY <1>1, <1>3, SeqEqual

LEMMA HeadThenTail ==
    ASSUME NEW S, NEW q \in Seq(S), q # <<>>
    PROVE  <<Head(q)>> \o Tail(q) = q
<1> DEFINE h == <<Head(q)>>
<1>1. /\ Head(q) \in S /\ Tail(q) \in Seq(S) /\ Head(q) = q[1] /\ Len(Tail(q)) = Len(q) - 1
      /\ \A i \in 1 .. Len(Tail(q)) : Tail(q)[i] = q[i + 1]
  BY HeadTailProperties
<1>2. h \in Seq(S) /\ Len(h) = 1 /\ h[1] = Head(q)
  BY <1>1
<1> HIDE DEF h
<1> DEFINE c == h \o Tail(q)
<1>3. /\ c \in Seq(S) /\ Len(c) = 1 + Len(Tail(q))
      /\ \A i \in 1 .. 1 + Len(Tail(q)) : c[i] = IF i <= 1 THEN h[i] ELSE Tail(q)[i - 1]
  <2>1. \A x, y \in Seq(S) :
           /\ x \o y \in Seq(S) /\ Len(x \o y) = Len(x) + Len(y)
           /\ \A i \in 1 .. Len(x) + Len(y) : (x \o y)[i] = IF i <= Len(x) THEN x[i] ELSE y[i - Len(x)]
    BY ConcatProperties
  <2> DEFINE u == Tail(q)
  <2>2. h \in Seq(S) /\ u \in Seq(S) /\ Len(h) = 1
    BY <1>1, <1>2
  <2> HIDE DEF u
  <2>3. /\ h \o u \in Seq(S) /\ Len(h \o u) = 1 + Len(u)
        /\ \A i \in 1 .. 1 + Len(u) : (h \o u)[i] = IF i <= 1 THEN h[i] ELSE u[i - 1]
    <3>1. /\ h \o u \in Seq(S) /\ Len(h \o u) = Len(h) + Len(u)
          /\ \A i \in 1 .. Len(h) + Len(u) :
                (h \o u)[i] = IF i <= Len(h) THEN h[i] ELSE u[i - Len(h)]
      BY <2>1, <2>2, Zenon
    <3> QED
      BY <2>2, <3>1, Zenon
  <2> QED
    BY <2>3 DEF u
<1>4. Len(q) \in Nat /\ Len(Tail(q)) \in Nat
  BY <1>1, LenProperties
<1> HIDE DEF c
<1>5. Len(c) = Len(q)
  BY <1>1, <1>3, <1>4
<1>6. ASSUME NEW i \in 1 .. Len(q)
      PROVE  c[i] = q[i]
  <2>1. CASE i = 1
    BY <1>1, <1>2, <1>3, <1>4, <2>1
  <2>2. CASE i # 1
    <3> DEFINE j == i - 1
    <3>1. j \in 1 .. Len(Tail(q)) /\ j + 1 = i
      BY <1>1, <1>4, <2>2
    <3>2. c[i] = Tail(q)[j]
      BY <1>1, <1>3, <1>4, <2>2
    <3> HIDE DEF j
    <3> QED
      BY <1>1, <3>1, <3>2
  <2> QED
    BY <2>1, <2>2
<1> QED BY <1>3, <1>5, <1>6, SeqEqual DEF c, h

-----------------------------------------------------------------------------
(* The managers are called in the ways their specifications allow.         *)

\* The types of what a connection has, and what its phases say of it.
LEMMA Connections ==
    ASSUME ServerInv, NEW t \in Thread
    PROVE  /\ username[t] \in Username \cup {""} /\ followers[t] \in SUBSET Username
           /\ held[t] \in Seq(Pending) /\ toClient[t] \in Seq(Packet) /\ m_queue[t] \in Seq(Pending)
           /\ consumer[t] \notin {"none", "deleted"} => HasSession(t)
           /\ HasSession(t) => username[t] \in DOMAIN m_users /\ username[t] \in Username
           /\ DOMAIN m_users \subseteq Username /\ known \subseteq Username
<1>1. ServerTypeOK /\ PhasesAgree
  BY DEF ServerInv
<1>2. DOMAIN m_users \subseteq Username /\ known \subseteq Username
  BY <1>1 DEF ServerTypeOK, ProfileTypeOK, NotificationTypeOK
<1>3. /\ username[t] \in Username \cup {""} /\ followers[t] \in SUBSET Username
      /\ held[t] \in Seq(Pending) /\ toClient[t] \in Seq(Packet) /\ m_queue[t] \in Seq(Pending)
  BY <1>1 DEF ServerTypeOK, NotificationTypeOK
<1>4. consumer[t] \notin {"none", "deleted"} => HasSession(t)
  BY <1>1 DEF PhasesAgree, HasSession
<1>5. HasSession(t) => username[t] \in DOMAIN m_users
  BY <1>1 DEF PhasesAgree
<1> QED BY <1>2, <1>3, <1>4, <1>5

LEMMA SessionIsListed ==
    ASSUME ServerInv, NEW t \in Thread, NEW u \in DOMAIN m_users
    PROVE  InList(m_users[u].m_sessions, t) <=> HasSession(t) /\ username[t] = u
BY Connections DEF ServerInv, SessionsMirrorHandlers

LEMMA ServerStepIsProfileStep ==
    ServerInv /\ [ServerNext]_serverVars => [ProfileNext]_profileVars
<1> SUFFICES ASSUME ServerInv, NEW t \in Thread,
                    ClientRequest(t) \/ HandlerStep(t) \/ ConsumerStep(t)
             PROVE  [ProfileNext]_profileVars
  BY DEF ServerNext, serverVars, profileVars
<1>1. ASSUME NEW u \in Username, AuthorizeSession(t, u)
      PROVE  ProfileNext
  <2>1. handler[t] = "idle" /\ StartSession(u, t)
    BY <1>1 DEF AuthorizeSession, Step
  <2>2. t \notin OpenSessions
    BY <2>1, SessionIsListed DEF OpenSessions, InList, HasSession
  <2> QED BY <2>1, <2>2 DEF ProfileNext
<1>2. ASSUME NEW u \in Username, FollowUser(t, u)
      PROVE  ProfileNext
  <2>1. Follow(username[t], u) /\ username[t] \in Username
    BY <1>2, Connections DEF FollowUser, Follow, CanFollow
  <2> QED BY <2>1 DEF ProfileNext
<1>3. ASSUME EndSession(t)
      PROVE  ProfileNext
  <2>1. CloseSession(username[t], t) /\ HasSession(t)
    BY <1>3 DEF EndSession, Step, HasSession
  <2>2. username[t] \in DOMAIN m_users /\ InList(m_users[username[t]].m_sessions, t)
    BY <2>1, Connections, SessionIsListed
  <2>3. t \in OpenSessions
    BY <2>2 DEF OpenSessions, InList
  <2> QED BY <2>1, <2>2, <2>3 DEF ProfileNext
<1>4. ASSUME \/ Refuse(t) \/ ReadFollowers(t) \/ StopConsumer(t) \/ StartConsumer(t)
             \/ SendLoginResponse(t) \/ SendTweet(t)
      PROVE  UNCHANGED profileVars
  BY <1>4 DEF Refuse, ReadFollowers, StopConsumer, StartConsumer, SendLoginResponse, SendTweet
<1>5. ASSUME ConsumerStep(t)
      PROVE  UNCHANGED profileVars
  BY <1>5 DEF ConsumerStep, ConsumerSubscribe, ConsumerLoop, ConsumerWait, ConsumerRemove,
              ConsumerTimeout, ConsumerSend, ConsumerUnsubscribe
<1> QED
  BY <1>1, <1>2, <1>3, <1>4, <1>5 DEF ClientRequest, HandlerStep

LEMMA ServerStepIsNotificationStep ==
    ServerInv /\ [ServerNext]_serverVars => [NotificationNext]_notificationVars
<1> SUFFICES ASSUME ServerInv, NEW t \in Thread,
                    ClientRequest(t) \/ HandlerStep(t) \/ ConsumerStep(t)
             PROVE  [NotificationNext]_notificationVars
  BY DEF ServerNext, serverVars, notificationVars
<1>1. ASSUME SendTweet(t)
      PROVE  [NotificationNext]_notificationVars
  <2>1. CASE username[t] \in known
    <3>1. Send(username[t], followers[t])
      BY <1>1, <2>1 DEF SendTweet
    <3>2. username[t] \in Username /\ followers[t] \in SUBSET (Username \ {username[t]})
      BY <2>1, Connections DEF ServerInv, PhasesAgree
    <3> QED BY <3>1, <3>2 DEF NotificationNext
  <2>2. CASE username[t] \notin known
    BY <1>1, <2>2 DEF SendTweet
  <2> QED BY <2>1, <2>2
<1>2. ASSUME ConsumerSubscribe(t)
      PROVE  NotificationNext
  <2>1. consumer[t] = "subscribing" /\ Subscribe(username[t], t)
    BY <1>2 DEF ConsumerSubscribe, Step
  <2>2. username[t] \in Username /\ m_queue[t] = <<>>
    BY <2>1, Connections DEF ServerInv, PhasesAgree
  <2>3. ~Subscribed(t)
    BY <2>1 DEF Subscribed, ServerInv, SubscribersAreAlive
  <2> QED BY <2>1, <2>2, <2>3 DEF NotificationNext
<1>3. ASSUME ConsumerUnsubscribe(t)
      PROVE  NotificationNext
  <2>1. consumer[t] = "leaving" /\ Unsubscribe(username[t], t)
    BY <1>3 DEF ConsumerUnsubscribe, Step
  <2>2. username[t] \in Username /\ t \in m_subscribersQueue[username[t]]
    BY <2>1, Connections DEF ServerInv, TheAliveAreSubscribed
  <2>3. username[t] \in known
    BY <2>2 DEF ServerInv, NotificationInv, UnknownHaveNothing
  <2> QED BY <2>1, <2>2, <2>3 DEF NotificationNext
<1>4. ASSUME ConsumerRemove(t)
      PROVE  NotificationNext
  BY <1>4 DEF ConsumerRemove, NotificationNext
<1>5. ASSUME ConsumerLoop(t) \/ ConsumerWait(t) \/ ConsumerTimeout(t) \/ ConsumerSend(t)
      PROVE  UNCHANGED notificationVars
  BY <1>5 DEF ConsumerLoop, ConsumerWait, ConsumerTimeout, ConsumerSend
<1>6. ASSUME ClientRequest(t) \/ StartConsumer(t) \/ SendLoginResponse(t) \/ EndSession(t)
      PROVE  UNCHANGED notificationVars
  BY <1>6 DEF ClientRequest, Refuse, ReadFollowers, StopConsumer, AuthorizeSession, FollowUser,
              StartConsumer, SendLoginResponse, EndSession
<1> QED
  BY <1>1, <1>2, <1>3, <1>4, <1>5, <1>6 DEF HandlerStep, ConsumerStep
-----------------------------------------------------------------------------
(* The threads: types, phases, sessions and subscriptions.                 *)

ThreadTypes ==
    /\ handler \in [Thread -> HandlerPhase]
    /\ username \in [Thread -> Username \cup {""}]
    /\ followers \in [Thread -> SUBSET Username]
    /\ consumer \in [Thread -> ConsumerPhase]
    /\ shouldStop \in [Thread -> BOOLEAN]
    /\ held \in [Thread -> Seq(Pending)]
    /\ toClient \in [Thread -> Seq(Packet)]

LEMMA PacketTypes ==
    /\ LoginSuccess \in Packet
    /\ \A p \in Pending : Data(p) \in Packet /\ Data(p).data = p /\ Data(p) # LoginSuccess
    /\ \A p \in Packet : p # LoginSuccess => p.data \in Pending /\ p = Data(p.data)
BY DEF Packet, Data, LoginSuccess

LEMMA FollowersAreUsers ==
    ASSUME ServerInv, NEW u
    PROVE  FollowersOf(u) \in SUBSET Username /\ u \notin FollowersOf(u)
<1>1. m_users \in [DOMAIN m_users -> User]
  BY DEF ServerInv, ProfileInv, ProfileTypeOK
<1> QED BY <1>1 DEF FollowersOf, User, ServerInv, ProfileInv, NobodyFollowsHimself

LEMMA StepKeepsTypes ==
    ASSUME ServerInv, NEW t \in Thread, ClientRequest(t) \/ HandlerStep(t) \/ ConsumerStep(t)
    PROVE  ThreadTypes' /\ (sent \subseteq SentTweet)'
<1>1. ThreadTypes /\ sent \subseteq SentTweet /\ m_nextId \in Nat /\ known \subseteq Username
  BY DEF ServerInv, ServerTypeOK, NotificationTypeOK, ThreadTypes
<1> DEFINE OK == ThreadTypes' /\ (sent \subseteq SentTweet)'
<1>2. ASSUME Refuse(t) \/ StopConsumer(t) \/ (\E u \in Username : AuthorizeSession(t, u) \/ FollowUser(t, u))
      PROVE  OK
  <2>1. CASE Refuse(t)
    BY <1>1, <2>1 DEF Refuse, Step, ThreadTypes, HandlerPhase
  <2>2. CASE StopConsumer(t)
    BY <1>1, <2>2 DEF StopConsumer, Step, ThreadTypes, HandlerPhase
  <2>3. ASSUME NEW u \in Username, AuthorizeSession(t, u)
        PROVE  OK
    BY <1>1, <2>3 DEF AuthorizeSession, Step, ThreadTypes, HandlerPhase
  <2>4. ASSUME NEW u \in Username, FollowUser(t, u)
        PROVE  OK
    BY <1>1, <2>4 DEF FollowUser, threadVars, Step, ThreadTypes, HandlerPhase
  <2> QED
    BY <1>2, <2>1, <2>2, <2>3, <2>4
<1>3. ASSUME ReadFollowers(t)
      PROVE  OK
  BY <1>1, <1>3, FollowersAreUsers DEF ReadFollowers, Step, ThreadTypes, HandlerPhase
<1>4. ASSUME StartConsumer(t) \/ EndSession(t)
      PROVE  OK
  BY <1>1, <1>4 DEF StartConsumer, EndSession, Step, ThreadTypes, HandlerPhase, ConsumerPhase
<1>5. ASSUME SendLoginResponse(t)
      PROVE  OK
  <2>1. Append(toClient[t], LoginSuccess) \in Seq(Packet)
    BY <1>1, PacketTypes, AppendProperties DEF ThreadTypes
  <2> QED BY <1>1, <1>5, <2>1 DEF SendLoginResponse, Step, ThreadTypes, HandlerPhase
<1>6. ASSUME SendTweet(t)
      PROVE  OK
  <2>1. /\ handler' = [handler EXCEPT ![t] = "serving"] /\ followers' = [followers EXCEPT ![t] = {}]
        /\ UNCHANGED <<username, consumer, shouldStop, held, toClient>>
    BY <1>6 DEF SendTweet, Step
  <2>2. ThreadTypes'
    BY <1>1, <2>1 DEF ThreadTypes, HandlerPhase
  <2>3. \A id \in Nat, f \in SUBSET Username, m \in SUBSET Username : username[t] \in Username =>
           [sender |-> username[t], notificationId |-> id, followers |-> f, missed |-> m] \in SentTweet
    BY DEF SentTweet
  <2>4. HasSession(t) /\ username[t] \in Username /\ followers[t] \in SUBSET Username
    BY <1>6, Connections DEF SendTweet, Step, HasSession
  <2>5. sent' \subseteq SentTweet
    BY <1>1, <1>6, <2>3, <2>4 DEF SendTweet
  <2> QED BY <2>2, <2>5
<1>7. ASSUME \/ ConsumerSubscribe(t) \/ ConsumerLoop(t) \/ ConsumerWait(t) \/ ConsumerTimeout(t)
             \/ ConsumerUnsubscribe(t)
      PROVE  OK
  <2>1. CASE ConsumerSubscribe(t)
    BY <1>1, <2>1 DEF ConsumerSubscribe, Step, ThreadTypes, ConsumerPhase
  <2>2. CASE ConsumerLoop(t) \/ ConsumerWait(t) \/ ConsumerTimeout(t)
    BY <1>1, <2>2 DEF ConsumerLoop, ConsumerWait, ConsumerTimeout, Step, ThreadTypes, ConsumerPhase
  <2>3. CASE ConsumerUnsubscribe(t)
    BY <1>1, <2>3 DEF ConsumerUnsubscribe, Step, ThreadTypes, ConsumerPhase
  <2> QED
    BY <1>7, <2>1, <2>2, <2>3
<1>8. ASSUME ConsumerRemove(t)
      PROVE  OK
  <2>1. m_queue[t] \in Seq(Pending) /\ m_queue[t] # <<>>
    BY <1>8, Connections DEF ConsumerRemove, Remove
  <2>2. <<Head(m_queue[t])>> \in Seq(Pending)
    BY <2>1, HeadTailProperties
  <2> QED BY <1>1, <1>8, <2>2 DEF ConsumerRemove, ThreadTypes, ConsumerPhase
<1>9. ASSUME ConsumerSend(t)
      PROVE  OK
  <2>1. held[t] \in Seq(Pending) /\ held[t] # <<>>
    <3>1. held[t] \in Seq(Pending) /\ Len(held[t]) = 1
      BY <1>9, Connections DEF ConsumerSend, Step, ServerInv, PhasesAgree
    <3> QED BY <3>1, OneElement
  <2>2. Append(toClient[t], Data(Head(held[t]))) \in Seq(Packet) /\ <<>> \in Seq(Pending)
    BY <1>1, <2>1, HeadTailProperties, PacketTypes, AppendProperties, EmptySeq DEF ThreadTypes
  <2> QED BY <1>1, <1>9, <2>2 DEF ConsumerSend, Step, ThreadTypes, ConsumerPhase
<1> QED
  BY <1>2, <1>3, <1>4, <1>5, <1>6, <1>7, <1>8, <1>9 DEF ClientRequest, HandlerStep, ConsumerStep

LEMMA UsersStay ==
    ASSUME ServerInv, [ServerNext]_serverVars
    PROVE  DOMAIN m_users \subseteq DOMAIN m_users'
BY ServerStepIsProfileStep, StepForgetsNothing DEF ServerInv

\* Nothing is queued for a consumer that has not subscribed.
LEMMA UnsubscribedGetNothing ==
    ASSUME ServerInv, NEW t \in Thread, ClientRequest(t) \/ HandlerStep(t) \/ ConsumerStep(t),
           NEW d \in Thread, consumer[d] \in {"none", "subscribing"},
           consumer'[d] \in {"none", "subscribing"}
    PROVE  m_queue'[d] = m_queue[d]
<1>1. NotificationInv /\ NotificationTypeOK /\ ThreadTypes
  BY DEF ServerInv, NotificationInv, ServerTypeOK, ThreadTypes
<1>2. \A u \in Username : d \notin m_subscribersQueue[u]
  BY DEF ServerInv, SubscribersAreAlive
<1>3. ASSUME SendTweet(t)
      PROVE  m_queue'[d] = m_queue[d]
  <2>1. CASE username[t] \in known
    <3>1. Send(username[t], followers[t])
      BY <1>3, <2>1 DEF SendTweet
    <3>2. username[t] \in Username /\ followers[t] \in SUBSET Username
      BY <2>1, Connections
    <3> QED BY <1>1, <1>2, <3>1, <3>2, SendEffect DEF Online
  <2>2. CASE username[t] \notin known
    BY <1>3, <2>2 DEF SendTweet, notificationVars
  <2> QED BY <2>1, <2>2
<1>4. ASSUME ConsumerSubscribe(t)
      PROVE  m_queue'[d] = m_queue[d]
  <2>1. /\ consumer[t] = "subscribing" /\ Subscribe(username[t], t)
        /\ consumer' = [consumer EXCEPT ![t] = "looping"]
    BY <1>4 DEF ConsumerSubscribe, Step
  <2>2. d # t
    BY <1>1, <2>1 DEF ThreadTypes
  <2>3. m_queue[t] = <<>> /\ username[t] \in Username
    BY <2>1, Connections DEF ServerInv, PhasesAgree
  <2> QED BY <1>1, <2>1, <2>2, <2>3, SubscribeEffect
<1>5. ASSUME ConsumerRemove(t)
      PROVE  m_queue'[d] = m_queue[d]
  BY <1>1, <1>5 DEF ConsumerRemove, Remove, NotificationTypeOK
<1>6. ASSUME ConsumerLoop(t) \/ ConsumerWait(t) \/ ConsumerTimeout(t) \/ ConsumerSend(t)
             \/ ConsumerUnsubscribe(t)
      PROVE  m_queue'[d] = m_queue[d]
  BY <1>6 DEF ConsumerLoop, ConsumerWait, ConsumerTimeout, ConsumerSend, ConsumerUnsubscribe,
              Unsubscribe, notificationVars
<1>7. ASSUME ClientRequest(t) \/ StartConsumer(t) \/ SendLoginResponse(t) \/ EndSession(t)
      PROVE  m_queue'[d] = m_queue[d]
  BY <1>7 DEF ClientRequest, Refuse, ReadFollowers, StopConsumer, AuthorizeSession, FollowUser,
              StartConsumer, SendLoginResponse, EndSession, notificationVars
<1> QED
  BY <1>3, <1>4, <1>5, <1>6, <1>7 DEF HandlerStep, ConsumerStep

\* A step of one connection leaves the threads of the others alone.
LEMMA OthersStay ==
    ASSUME ThreadTypes, NEW t \in Thread, ClientRequest(t) \/ HandlerStep(t) \/ ConsumerStep(t),
           NEW d \in Thread, d # t
    PROVE  /\ handler'[d] = handler[d] /\ username'[d] = username[d] /\ followers'[d] = followers[d]
           /\ consumer'[d] = consumer[d] /\ held'[d] = held[d] /\ toClient'[d] = toClient[d]
<1> USE DEF ThreadTypes, Step
<1>1. CASE ClientRequest(t)
  BY <1>1 DEF ClientRequest, Refuse, ReadFollowers, StopConsumer, AuthorizeSession, FollowUser,
              threadVars
<1>2. CASE HandlerStep(t)
  BY <1>2 DEF HandlerStep, StartConsumer, SendLoginResponse, SendTweet, EndSession
<1>3. CASE ConsumerStep(t)
  BY <1>3 DEF ConsumerStep, ConsumerSubscribe, ConsumerLoop, ConsumerWait, ConsumerRemove,
              ConsumerTimeout, ConsumerSend, ConsumerUnsubscribe
<1> QED BY <1>1, <1>2, <1>3

LEMMA StepKeepsPhases ==
    ASSUME ServerInv, NEW t \in Thread, ClientRequest(t) \/ HandlerStep(t) \/ ConsumerStep(t)
    PROVE  PhasesAgree'
<1>1. ThreadTypes /\ PhasesAgree /\ SubscribersAreAlive
  BY DEF ServerInv, ServerTypeOK, ThreadTypes
<1>2. DOMAIN m_users \subseteq DOMAIN m_users'
  BY UsersStay DEF ServerNext
<1>3. \A d \in Thread : /\ consumer[d] \in {"none", "subscribing"}
                         /\ consumer'[d] \in {"none", "subscribing"}
                        => m_queue'[d] = <<>>
  BY <1>1, UnsubscribedGetNothing DEF PhasesAgree
<1> DEFINE OK(d) ==
      /\ handler'[d] \in {"idle", "authorized"} => consumer'[d] = "none"
      /\ handler'[d] = "done" => consumer'[d] \in {"none", "deleted"}
      /\ handler'[d] \notin {"idle", "done"} => username'[d] \in DOMAIN m_users'
      /\ username'[d] \notin followers'[d]
      /\ handler'[d] # "sending" => followers'[d] = {}
      /\ Len(held'[d]) = IF consumer'[d] = "sending" THEN 1 ELSE 0
      /\ consumer'[d] \in {"none", "subscribing"} =>
           m_queue'[d] = <<>> /\ \A i \in DOMAIN toClient'[d] : toClient'[d][i] = LoginSuccess
<1> SUFFICES \A d \in Thread : OK(d)
  BY DEF PhasesAgree, HasSession
<1> USE DEF PhasesAgree, HasSession, Step, ThreadTypes
<1>4. ASSUME NEW d \in Thread, d # t
      PROVE  OK(d)
  <2>1. /\ handler'[d] = handler[d] /\ username'[d] = username[d] /\ followers'[d] = followers[d]
        /\ consumer'[d] = consumer[d] /\ held'[d] = held[d] /\ toClient'[d] = toClient[d]
    BY <1>1, <1>4, OthersStay
  <2>2. /\ handler[d] \in {"idle", "authorized"} => consumer[d] = "none"
        /\ handler[d] = "done" => consumer[d] \in {"none", "deleted"}
        /\ handler[d] \notin {"idle", "done"} => username[d] \in DOMAIN m_users'
        /\ username[d] \notin followers[d]
        /\ handler[d] # "sending" => followers[d] = {}
        /\ Len(held[d]) = IF consumer[d] = "sending" THEN 1 ELSE 0
        /\ consumer[d] \in {"none", "subscribing"} =>
             m_queue'[d] = <<>> /\ \A i \in DOMAIN toClient[d] : toClient[d][i] = LoginSuccess
    BY <1>1, <1>2, <1>3, <2>1
  <2> QED BY <2>1, <2>2
<1> SUFFICES OK(t)
  BY <1>4
<1>5. ASSUME Refuse(t) \/ StopConsumer(t)
      PROVE  OK(t)
  <2>1. CASE Refuse(t)
    BY <1>1, <1>2, <1>3, <2>1 DEF Refuse
  <2>2. CASE StopConsumer(t)
    BY <1>1, <1>2, <1>3, <2>2 DEF StopConsumer
  <2> QED
    BY <1>5, <2>1, <2>2
<1>6. ASSUME NEW u \in Username, AuthorizeSession(t, u)
      PROVE  OK(t)
  <2>1. u \in DOMAIN m_users'
    BY <1>6 DEF AuthorizeSession, StartSession, ServerInv, ServerTypeOK, ProfileTypeOK
  <2> QED BY <1>1, <1>2, <1>3, <1>6, <2>1 DEF AuthorizeSession
<1>7. ASSUME NEW u \in Username, FollowUser(t, u)
      PROVE  OK(t)
  BY <1>1, <1>2, <1>3, <1>7 DEF FollowUser, threadVars
<1>8. ASSUME ReadFollowers(t)
      PROVE  OK(t)
  BY <1>1, <1>2, <1>3, <1>8, FollowersAreUsers DEF ReadFollowers
<1>9. ASSUME SendTweet(t)
      PROVE  OK(t)
  BY <1>1, <1>2, <1>3, <1>9 DEF SendTweet
<1>10. ASSUME StartConsumer(t)
      PROVE  OK(t)
  BY <1>1, <1>2, <1>3, <1>10 DEF StartConsumer
<1>11. ASSUME EndSession(t)
      PROVE  OK(t)
  BY <1>1, <1>2, <1>3, <1>11 DEF EndSession
<1>12. ASSUME SendLoginResponse(t)
      PROVE  OK(t)
  <2>1. (\A i \in DOMAIN toClient[t] : toClient[t][i] = LoginSuccess) =>
           \A i \in DOMAIN toClient'[t] : toClient'[t][i] = LoginSuccess
    <3>1. toClient'[t] = Append(toClient[t], LoginSuccess) /\ toClient[t] \in Seq(Packet)
      BY <1>1, <1>12 DEF SendLoginResponse
    <3>2. /\ Len(toClient'[t]) = Len(toClient[t]) + 1 /\ toClient'[t] \in Seq(Packet)
          /\ \A i \in 1 .. Len(toClient[t]) : toClient'[t][i] = toClient[t][i]
          /\ toClient'[t][Len(toClient[t]) + 1] = LoginSuccess
      BY <3>1, AppendProperties, PacketTypes
    <3>3. /\ DOMAIN toClient'[t] = 1 .. Len(toClient[t]) + 1
          /\ DOMAIN toClient[t] = 1 .. Len(toClient[t]) /\ Len(toClient[t]) \in Nat
      BY <3>1, <3>2, LenProperties
    <3> QED BY <3>2, <3>3
  <2> QED BY <1>1, <1>2, <1>3, <1>12, <2>1 DEF SendLoginResponse
<1>13. ASSUME ConsumerSubscribe(t) \/ ConsumerLoop(t) \/ ConsumerWait(t) \/ ConsumerTimeout(t)
             \/ ConsumerUnsubscribe(t)
      PROVE  OK(t)
  <2>1. CASE ConsumerSubscribe(t)
    BY <1>1, <1>2, <1>3, <2>1 DEF ConsumerSubscribe
  <2>2. CASE ConsumerLoop(t)
    BY <1>1, <1>2, <1>3, <2>2 DEF ConsumerLoop
  <2>3. CASE ConsumerWait(t)
    BY <1>1, <1>2, <1>3, <2>3 DEF ConsumerWait
  <2>4. CASE ConsumerTimeout(t)
    BY <1>1, <1>2, <1>3, <2>4 DEF ConsumerTimeout
  <2>5. CASE ConsumerUnsubscribe(t)
    BY <1>1, <1>2, <1>3, <2>5 DEF ConsumerUnsubscribe
  <2> QED
    BY <1>13, <2>1, <2>2, <2>3, <2>4, <2>5
<1>14. ASSUME ConsumerRemove(t)
      PROVE  OK(t)
  <2>1. Len(<<Head(m_queue[t])>>) = 1
    OBVIOUS
  <2> QED BY <1>1, <1>2, <1>3, <1>14, <2>1 DEF ConsumerRemove
<1>15. ASSUME ConsumerSend(t)
      PROVE  OK(t)
  <2>1. Len(<<>>) = 0
    BY EmptySeq
  <2>2. /\ consumer[t] = "sending" /\ consumer' = [consumer EXCEPT ![t] = "looping"]
        /\ held' = [held EXCEPT ![t] = <<>>]
        /\ UNCHANGED <<handler, username, followers>>
    BY <1>15 DEF ConsumerSend
  <2>3. consumer'[t] = "looping" /\ held'[t] = <<>>
    BY <1>1, <2>2
  <2>4. /\ handler[t] \notin {"idle", "authorized", "done"}
        /\ username[t] \in DOMAIN m_users
        /\ username[t] \notin followers[t] /\ (handler[t] # "sending" => followers[t] = {})
    BY <1>1, <2>2
  <2> QED BY <1>2, <2>1, <2>2, <2>3, <2>4
<1> QED
  BY <1>5, <1>6, <1>7, <1>8, <1>9, <1>10, <1>11, <1>12, <1>13, <1>14, <1>15
     DEF ClientRequest, HandlerStep, ConsumerStep

LEMMA SessionsCount ==
    ASSUME NEW q \in Seq(Thread), Distinct(q)
    PROVE  Cardinality({s \in Thread : InList(q, s)}) = Len(q)
<1> DEFINE S == {s \in Thread : InList(q, s)}
<1>1. Len(q) \in Nat /\ DOMAIN q = 1 .. Len(q) /\ q \in [1 .. Len(q) -> Thread]
  BY LenProperties
<1>2. q \in [1 .. Len(q) -> S]
  BY <1>1 DEF InList
<1>3. q \in Bijection(1 .. Len(q), S)
  BY <1>1, <1>2 DEF Bijection, Injection, Surjection, IsInjective, Distinct, InList
<1> QED BY <1>1, <1>3, FS_CountingElements DEF ExistsBijection

\* Who is in the session lists after a step: who was, the thread of a new
\* session, and no longer the thread whose session has ended.
LEMMA ListedAfter ==
    ASSUME ServerInv, NEW t \in Thread, NEW u \in DOMAIN m_users', NEW d \in Thread
    PROVE  /\ \A v \in Username : AuthorizeSession(t, v) =>
                (InList(m_users'[u].m_sessions, d) <=>
                    \/ u \in DOMAIN m_users /\ InList(m_users[u].m_sessions, d)
                    \/ u = v /\ d = t)
           /\ EndSession(t) =>
                /\ u \in DOMAIN m_users
                /\ InList(m_users'[u].m_sessions, d) <=>
                      InList(m_users[u].m_sessions, d) /\ ~(u = username[t] /\ d = t)
           /\ \A v \in Username : FollowUser(t, v) =>
                /\ u \in DOMAIN m_users
                /\ m_users'[u].m_sessions = m_users[u].m_sessions
<1>1. /\ m_users \in [DOMAIN m_users -> User] /\ DOMAIN m_users \subseteq Username
      /\ SessionsFitTheSlots /\ MAX_SESSIONS_PER_USER \in 1 .. 2
  BY MaxSessionsAssumption DEF ServerInv, ProfileInv, ProfileTypeOK
<1>2. \A v \in DOMAIN m_users :
         /\ m_users[v] \in User /\ m_users[v].m_sessions \in Seq(Thread)
         /\ Distinct(m_users[v].m_sessions) /\ Len(m_users[v].m_sessions) <= 2
  BY <1>1, LenProperties DEF User, SessionsFitTheSlots
<1>3. ASSUME NEW v \in Username, AuthorizeSession(t, v)
      PROVE  InList(m_users'[u].m_sessions, d) <=>
                    \/ u \in DOMAIN m_users /\ InList(m_users[u].m_sessions, d)
                    \/ u = v /\ d = t
  <2>1. StartSession(v, t) /\ handler[t] = "idle"
    BY <1>3 DEF AuthorizeSession, Step
  <2>2. CASE v \in DOMAIN m_users
    <3>1. m_users' = [m_users EXCEPT ![v].m_sessions = Append(@, t)]
      BY <2>1, <2>2 DEF StartSession
    <3>2. /\ u \in DOMAIN m_users
          /\ m_users'[u].m_sessions = IF u = v THEN Append(m_users[u].m_sessions, t)
                                               ELSE m_users[u].m_sessions
      BY <3>1, <1>1, <1>2 DEF User
    <3>3. ~InList(m_users[v].m_sessions, t)
      BY <2>1, <2>2, SessionIsListed DEF HasSession
    <3>4. u = v => (InList(Append(m_users[u].m_sessions, t), d) <=>
                       InList(m_users[u].m_sessions, d) \/ d = t)
      BY <1>2, <2>2, <3>3, AddedSession
    <3> QED BY <3>2, <3>4
  <2>3. CASE v \notin DOMAIN m_users
    <3>1. /\ DOMAIN m_users' = DOMAIN m_users \cup {v}
          /\ m_users'[u].m_sessions = IF u = v THEN <<t>> ELSE m_users[u].m_sessions
      BY <2>1, <2>3 DEF StartSession
    <3>2. InList(<<t>>, d) <=> d = t
      BY DEF InList
    <3> QED BY <2>3, <3>1, <3>2
  <2> QED BY <2>2, <2>3
<1>4. ASSUME EndSession(t)
      PROVE  /\ u \in DOMAIN m_users
             /\ InList(m_users'[u].m_sessions, d) <=>
                      InList(m_users[u].m_sessions, d) /\ ~(u = username[t] /\ d = t)
  <2>1. m_users' = [m_users EXCEPT ![username[t]].m_sessions = RemoveSession(@, t)]
        /\ username[t] \in DOMAIN m_users
    BY <1>4 DEF EndSession, CloseSession
  <2>2. /\ u \in DOMAIN m_users
        /\ m_users'[u].m_sessions = IF u = username[t]
                                    THEN RemoveSession(m_users[u].m_sessions, t)
                                    ELSE m_users[u].m_sessions
    BY <2>1, <1>1, <1>2 DEF User
  <2>3. InList(RemoveSession(m_users[u].m_sessions, t), d) <=>
           InList(m_users[u].m_sessions, d) /\ d # t
    BY <1>2, <2>2, RemovedSession
  <2> QED BY <2>2, <2>3
<1>5. ASSUME NEW v \in Username, FollowUser(t, v)
      PROVE  /\ u \in DOMAIN m_users
             /\ m_users'[u].m_sessions = m_users[u].m_sessions
  <2>1. /\ m_users' = [m_users EXCEPT ![v].m_followers = @ \cup {username[t]}]
        /\ v \in DOMAIN m_users
    BY <1>5 DEF FollowUser, Follow, CanFollow
  <2> QED BY <2>1, <1>1, <1>2 DEF User
<1> QED BY <1>3, <1>4, <1>5

LEMMA StepKeepsSessions ==
    ASSUME ServerInv, NEW t \in Thread, ClientRequest(t) \/ HandlerStep(t) \/ ConsumerStep(t)
    PROVE  SessionsMirrorHandlers'
<1>1. ProfileInv' /\ PhasesAgree' /\ ThreadTypes /\ PhasesAgree
  <2>1. [ProfileNext]_profileVars
    BY ServerStepIsProfileStep DEF ServerNext
  <2> QED BY <2>1, ProfileStepKeepsInv, StepKeepsPhases DEF ServerInv, ServerTypeOK, ThreadTypes
<1> DEFINE Open(u, d) == handler'[d] \notin {"idle", "done"} /\ username'[d] = u
<1>2. ASSUME NEW u \in DOMAIN m_users', NEW d \in Thread
      PROVE  InList(m_users'[u].m_sessions, d) <=> Open(u, d)
  <2>1. u \in DOMAIN m_users =>
          (InList(m_users[u].m_sessions, d) <=> handler[d] \notin {"idle", "done"} /\ username[d] = u)
    BY SessionIsListed DEF HasSession
  <2>2. u \notin DOMAIN m_users => ~(handler[d] \notin {"idle", "done"} /\ username[d] = u)
    BY <1>1 DEF PhasesAgree, HasSession
  <2>3. d # t => handler'[d] = handler[d] /\ username'[d] = username[d]
    BY <1>1, OthersStay
  <2>4. ASSUME NEW v \in Username, AuthorizeSession(t, v)
        PROVE  InList(m_users'[u].m_sessions, d) <=> Open(u, d)
    <3>1. InList(m_users'[u].m_sessions, d) <=>
                    \/ u \in DOMAIN m_users /\ InList(m_users[u].m_sessions, d)
                    \/ u = v /\ d = t
      BY <2>4, ListedAfter
    <3>2. handler[t] = "idle" /\ handler'[t] = "authorized" /\ username'[t] = v
      BY <2>4, <1>1 DEF AuthorizeSession, Step, ThreadTypes
    <3> QED BY <2>1, <2>2, <2>3, <3>1, <3>2
  <2>5. ASSUME EndSession(t)
        PROVE  InList(m_users'[u].m_sessions, d) <=> Open(u, d)
    <3>1. /\ u \in DOMAIN m_users
          /\ InList(m_users'[u].m_sessions, d) <=>
                      InList(m_users[u].m_sessions, d) /\ ~(u = username[t] /\ d = t)
      BY <2>5, ListedAfter
    <3>2. handler'[t] = "done"
      BY <2>5, <1>1 DEF EndSession, Step, ThreadTypes
    <3> QED BY <2>1, <2>3, <3>1, <3>2
  <2>6. ASSUME NEW v \in Username, FollowUser(t, v)
        PROVE  InList(m_users'[u].m_sessions, d) <=> Open(u, d)
    <3>1. u \in DOMAIN m_users /\ m_users'[u].m_sessions = m_users[u].m_sessions
      BY <2>6, ListedAfter
    <3> QED BY <2>1, <2>6, <3>1 DEF FollowUser, threadVars
  <2>7. ASSUME m_users' = m_users, username' = username, d = t => HasSession(d)' = HasSession(d)
        PROVE  InList(m_users'[u].m_sessions, d) <=> Open(u, d)
    BY <2>1, <2>2, <2>3, <2>7 DEF HasSession
  <2>8. CASE Refuse(t) \/ ReadFollowers(t) \/ StopConsumer(t)
    BY <2>7, <2>8, <1>1 DEF Refuse, ReadFollowers, StopConsumer, Step, ThreadTypes, HasSession,
                            profileVars
  <2>9. CASE StartConsumer(t) \/ SendLoginResponse(t) \/ SendTweet(t)
    BY <2>7, <2>9, <1>1 DEF StartConsumer, SendLoginResponse, SendTweet, Step, ThreadTypes,
                            HasSession, profileVars
  <2>10. CASE ConsumerStep(t)
    BY <2>7, <2>10 DEF ConsumerStep, ConsumerSubscribe, ConsumerLoop, ConsumerWait, ConsumerRemove,
              ConsumerTimeout, ConsumerSend, ConsumerUnsubscribe, HasSession, profileVars
  <2> QED BY <2>4, <2>5, <2>6, <2>8, <2>9, <2>10 DEF ClientRequest, HandlerStep
<1>3. ASSUME NEW u \in Username, u \notin DOMAIN m_users', NEW d \in Thread
      PROVE  ~Open(u, d)
  BY <1>1, <1>3 DEF PhasesAgree, HasSession
<1>4. ASSUME NEW u \in DOMAIN m_users'
      PROVE  Len(m_users'[u].m_sessions) =
                Cardinality({d \in Thread : InList(m_users'[u].m_sessions, d)})
  <2>1. m_users'[u].m_sessions \in Seq(Thread) /\ Distinct(m_users'[u].m_sessions)
    BY <1>1 DEF ProfileInv, ProfileTypeOK, User, SessionsFitTheSlots, Distinct
  <2> QED BY <2>1, SessionsCount
<1>5. ASSUME NEW u \in Username
      PROVE  IF u \in DOMAIN m_users'
             THEN /\ {d \in Thread : InList(m_users'[u].m_sessions, d)} = {d \in Thread : Open(u, d)}
                  /\ Len(m_users'[u].m_sessions) = Cardinality({d \in Thread : Open(u, d)})
             ELSE {d \in Thread : Open(u, d)} = {}
  <2>1. CASE u \in DOMAIN m_users'
    <3>1. {d \in Thread : InList(m_users'[u].m_sessions, d)} = {d \in Thread : Open(u, d)}
      BY <1>2, <2>1
    <3> QED BY <1>4, <2>1, <3>1
  <2>2. CASE u \notin DOMAIN m_users'
    BY <1>3, <2>2
  <2> QED BY <2>1, <2>2
<1> QED BY <1>5 DEF SessionsMirrorHandlers, HasSession, InList

\* SubscribersAreAlive and its converse, together.
Alive == {"looping", "removing", "waiting", "sending", "leaving"}
SubscribedAreAlive == \A u \in Username, c \in Thread :
    c \in m_subscribersQueue[u] <=> username[c] = u /\ consumer[c] \in Alive

LEMMA AliveMeansSubscribed ==
    ASSUME ServerInv
    PROVE  SubscribedAreAlive
<1>1. m_subscribersQueue \in [Username -> SUBSET Thread]
  BY DEF ServerInv, NotificationInv, NotificationTypeOK
<1> QED BY <1>1 DEF ServerInv, SubscribersAreAlive, TheAliveAreSubscribed, SubscribedAreAlive, Alive

LEMMA StepKeepsSubscribers ==
    ASSUME ServerInv, NEW t \in Thread, ClientRequest(t) \/ HandlerStep(t) \/ ConsumerStep(t)
    PROVE  SubscribersAreAlive' /\ TheAliveAreSubscribed'
<1>1. /\ ThreadTypes /\ PhasesAgree /\ PhasesAgree' /\ DOMAIN m_users' \subseteq Username
      /\ m_subscribersQueue \in [Username -> SUBSET Thread]
  <2>1. [ProfileNext]_profileVars
    BY ServerStepIsProfileStep DEF ServerNext
  <2>2. ProfileInv'
    BY <2>1, ProfileStepKeepsInv DEF ServerInv
  <2> QED BY <2>2, StepKeepsPhases
          DEF ServerInv, ServerTypeOK, NotificationTypeOK, ThreadTypes, ProfileInv, ProfileTypeOK
<1>2. m_subscribersQueue' \in [Username -> SUBSET Thread]
  <2>1. [NotificationNext]_notificationVars
    BY ServerStepIsNotificationStep DEF ServerNext
  <2> QED BY <2>1, StepKeepsInv DEF ServerInv, NotificationInv, NotificationTypeOK
<1>3. ASSUME NEW u \in Username, NEW c \in Thread
      PROVE  c \in m_subscribersQueue'[u] <=> username'[c] = u /\ consumer'[c] \in Alive
  <2>1. c \in m_subscribersQueue[u] <=> username[c] = u /\ consumer[c] \in Alive
    BY AliveMeansSubscribed DEF SubscribedAreAlive
  <2>2. c # t => username'[c] = username[c] /\ consumer'[c] = consumer[c]
    BY <1>1, OthersStay
  <2>3. CASE m_subscribersQueue' = m_subscribersQueue /\ username' = username
             /\ (consumer'[t] \in Alive <=> consumer[t] \in Alive)
    BY <2>1, <2>2, <2>3
  <2>4. ASSUME NEW v \in Username, AuthorizeSession(t, v)
        PROVE  c \in m_subscribersQueue'[u] <=> username'[c] = u /\ consumer'[c] \in Alive
    <3>1. /\ handler[t] = "idle" /\ m_subscribersQueue' = m_subscribersQueue
          /\ consumer' = consumer
      BY <2>4 DEF AuthorizeSession, Step, notificationVars
    <3>2. consumer[t] = "none"
      BY <1>1, <3>1 DEF PhasesAgree
    <3> QED BY <2>1, <2>2, <3>1, <3>2 DEF Alive
  <2>5. CASE \E v \in Username : FollowUser(t, v)
    BY <2>3, <2>5 DEF FollowUser, threadVars, notificationVars
  <2>6. CASE Refuse(t) \/ ReadFollowers(t) \/ StopConsumer(t)
    BY <2>3, <2>6 DEF Refuse, ReadFollowers, StopConsumer, notificationVars
  <2>7. CASE SendLoginResponse(t) \/ SendTweet(t)
    BY <2>3, <2>7 DEF SendLoginResponse, SendTweet, Send, notificationVars
  <2>8. CASE StartConsumer(t)
    <3>1. handler[t] = "authorized" /\ consumer' = [consumer EXCEPT ![t] = "subscribing"]
          /\ m_subscribersQueue' = m_subscribersQueue /\ username' = username
      BY <2>8 DEF StartConsumer, Step, notificationVars
    <3>2. consumer[t] = "none" /\ consumer'[t] = "subscribing"
      BY <1>1, <3>1 DEF PhasesAgree, ThreadTypes
    <3> QED BY <2>3, <3>1, <3>2 DEF Alive
  <2>9. CASE EndSession(t)
    <3>1. consumer[t] = "returned" /\ consumer'[t] = "deleted"
          /\ m_subscribersQueue' = m_subscribersQueue /\ username' = username
      BY <2>9, <1>1 DEF EndSession, notificationVars, ThreadTypes
    <3> QED BY <2>3, <3>1 DEF Alive
  <2>10. CASE ConsumerLoop(t) \/ ConsumerWait(t) \/ ConsumerTimeout(t) \/ ConsumerSend(t)
              \/ ConsumerRemove(t)
    <3>1. m_subscribersQueue' = m_subscribersQueue /\ username' = username
      BY <2>10 DEF ConsumerLoop, ConsumerWait, ConsumerTimeout, ConsumerSend, ConsumerRemove,
                   Remove, notificationVars
    <3>2. consumer[t] \in Alive /\ consumer'[t] \in Alive
      BY <2>10, <1>1 DEF ConsumerLoop, ConsumerWait, ConsumerTimeout, ConsumerSend, ConsumerRemove,
                   Step, Alive, ThreadTypes
    <3> QED BY <2>3, <3>1, <3>2
  <2>11. CASE ConsumerSubscribe(t)
    <3>1. /\ consumer[t] = "subscribing" /\ consumer' = [consumer EXCEPT ![t] = "looping"]
          /\ m_subscribersQueue' = [m_subscribersQueue EXCEPT ![username[t]] = @ \cup {t}]
          /\ username' = username
      BY <2>11 DEF ConsumerSubscribe, Step, Subscribe
    <3>2. username[t] \in Username /\ consumer'[t] = "looping" /\ "looping" \in Alive
      BY <3>1, <1>1, Connections DEF ThreadTypes, Alive
    <3>3. m_subscribersQueue'[u] = IF u = username[t] THEN m_subscribersQueue[u] \cup {t}
                                   ELSE m_subscribersQueue[u]
      BY <1>1, <3>1
    <3> QED BY <2>1, <2>2, <3>1, <3>2, <3>3
  <2>12. CASE ConsumerUnsubscribe(t)
    <3>1. /\ consumer[t] = "leaving" /\ consumer' = [consumer EXCEPT ![t] = "returned"]
          /\ m_subscribersQueue' = [m_subscribersQueue EXCEPT ![username[t]] = @ \ {t}]
          /\ username' = username
      BY <2>12 DEF ConsumerUnsubscribe, Step, Unsubscribe
    <3>2. username[t] \in Username /\ consumer'[t] = "returned" /\ "returned" \notin Alive
      BY <3>1, <1>1, Connections DEF ThreadTypes, Alive
    <3>3. m_subscribersQueue'[u] = IF u = username[t] THEN m_subscribersQueue[u] \ {t}
                                   ELSE m_subscribersQueue[u]
      BY <1>1, <3>1
    <3> QED BY <2>1, <2>2, <3>1, <3>2, <3>3
  <2> QED
    BY <2>4, <2>5, <2>6, <2>7, <2>8, <2>9, <2>10, <2>11, <2>12
       DEF ClientRequest, HandlerStep, ConsumerStep
<1>4. ASSUME NEW c \in Thread, consumer'[c] \in Alive
      PROVE  username'[c] \in Username
  BY <1>1, <1>4 DEF PhasesAgree, HasSession, Alive
<1>5. SubscribersAreAlive'
  BY <1>2, <1>3 DEF SubscribersAreAlive, Alive
<1>6. TheAliveAreSubscribed'
  BY <1>3, <1>4 DEF TheAliveAreSubscribed, Alive
<1> QED BY <1>5, <1>6

-----------------------------------------------------------------------------
(* The packets of a connection and what it has still to be sent.           *)

\* A connection that has been written T and has Q still to be sent, when the
\* numbers below n are given.
InOrder(T, Q, n) ==
    /\ \A i, j \in DOMAIN T : i < j /\ T[i] # LoginSuccess /\ T[j] # LoginSuccess =>
          T[i].data.notificationId < T[j].data.notificationId
    /\ \A i \in DOMAIN T, k \in DOMAIN Q :
          T[i] # LoginSuccess => T[i].data.notificationId < Q[k].notificationId
    /\ Increasing(Q)
    /\ \A i \in DOMAIN T : T[i] # LoginSuccess => T[i].data.notificationId < n
    /\ \A k \in DOMAIN Q : Q[k].notificationId < n

\* "p was written or is still to be sent."
Has(T, Q, p) == InList(T, Data(p)) \/ InList(Q, p)

LEMMA SeqFacts ==
    ASSUME NEW S, NEW q \in Seq(S)
    PROVE  /\ Len(q) \in Nat /\ DOMAIN q = 1 .. Len(q) /\ \A i \in DOMAIN q : q[i] \in S
BY LenProperties, ElementOfSeq

LEMMA AppendFacts ==
    ASSUME NEW S, NEW q \in Seq(S), NEW p \in S
    PROVE  /\ Append(q, p) \in Seq(S)
           /\ DOMAIN Append(q, p) = 1 .. Len(q) + 1
           /\ \A i \in DOMAIN q : Append(q, p)[i] = q[i]
           /\ Append(q, p)[Len(q) + 1] = p
           /\ \A i \in DOMAIN Append(q, p) : i \in DOMAIN q \/ i = Len(q) + 1
<1>1. /\ Append(q, p) \in Seq(S) /\ DOMAIN Append(q, p) = 1 .. Len(q) + 1
      /\ \A i \in 1 .. Len(q) : Append(q, p)[i] = q[i]
      /\ Append(q, p)[Len(q) + 1] = p
  BY AppendProperties, LenProperties
<1>2. Len(q) \in Nat /\ DOMAIN q = 1 .. Len(q)
  BY LenProperties
<1> QED BY <1>1, <1>2

LEMMA TailFacts ==
    ASSUME NEW S, NEW q \in Seq(S), q # <<>>
    PROVE  /\ Tail(q) \in Seq(S) /\ Head(q) = q[1] /\ 1 \in DOMAIN q
           /\ \A i \in DOMAIN Tail(q) : i + 1 \in DOMAIN q /\ Tail(q)[i] = q[i + 1] /\ i \in Nat \ {0}
           /\ \A e : InList(q, e) <=> e = Head(q) \/ InList(Tail(q), e)
<1>1. /\ Tail(q) \in Seq(S) /\ Head(q) = q[1] /\ Len(Tail(q)) = Len(q) - 1 /\ Len(q) >= 1
      /\ \A i \in 1 .. Len(Tail(q)) : Tail(q)[i] = q[i + 1]
  BY HeadTailProperties
<1>2. Len(q) \in Nat /\ DOMAIN q = 1 .. Len(q) /\ DOMAIN Tail(q) = 1 .. Len(q) - 1
  BY <1>1, LenProperties
<1>3. \A i \in DOMAIN Tail(q) : i + 1 \in DOMAIN q /\ Tail(q)[i] = q[i + 1] /\ i \in Nat \ {0}
  BY <1>1, <1>2
<1>4. \A i \in DOMAIN q : i = 1 \/ (i - 1 \in DOMAIN Tail(q) /\ Tail(q)[i - 1] = q[i])
  BY <1>1, <1>2
<1>5. 1 \in DOMAIN q
  BY <1>1, <1>2
<1> QED BY <1>1, <1>3, <1>4, <1>5 DEF InList

\* The numbers of what is written and queued.
LEMMA StreamNumbers ==
    ASSUME NEW T \in Seq(Packet), NEW Q \in Seq(Pending)
    PROVE  /\ \A i \in DOMAIN T : /\ T[i] \in Packet
                                  /\ T[i] # LoginSuccess => T[i].data.notificationId \in Nat
           /\ \A k \in DOMAIN Q : Q[k] \in Pending /\ Q[k].notificationId \in Nat
<1>1. \A p \in Pending : p.notificationId \in Nat
  BY DEF Pending
<1> QED BY <1>1, SeqFacts, PacketTypes

LEMMA LaterNumbers ==
    ASSUME NEW T \in Seq(Packet), NEW Q \in Seq(Pending), NEW n \in Nat, NEW m \in Nat, n <= m,
           InOrder(T, Q, n)
    PROVE  InOrder(T, Q, m)
BY StreamNumbers DEF InOrder

LEMMA GreetingInOrder ==
    ASSUME NEW T \in Seq(Packet), NEW Q \in Seq(Pending), NEW n \in Nat, InOrder(T, Q, n)
    PROVE  /\ InOrder(Append(T, LoginSuccess), Q, n)
           /\ \A p \in Pending : Has(Append(T, LoginSuccess), Q, p) <=> Has(T, Q, p)
<1> DEFINE A == Append(T, LoginSuccess)
<1>1. /\ \A i \in DOMAIN T : A[i] = T[i]
      /\ A[Len(T) + 1] = LoginSuccess
      /\ \A i \in DOMAIN A : i \in DOMAIN T \/ i = Len(T) + 1
  BY AppendFacts, PacketTypes
<1>2. \A p \in Pending : InList(A, Data(p)) <=> InList(T, Data(p))
  BY AppendedList, PacketTypes
<1> HIDE DEF A
<1>3. InOrder(A, Q, n)
  BY <1>1 DEF InOrder
<1> QED BY <1>2, <1>3 DEF Has, A

LEMMA QueuedInOrder ==
    ASSUME NEW T \in Seq(Packet), NEW Q \in Seq(Pending), NEW n \in Nat, NEW s \in Username,
           InOrder(T, Q, n)
    PROVE  /\ InOrder(T, Append(Q, Ref(s, n)), n + 1)
           /\ \A p \in Pending : Has(T, Append(Q, Ref(s, n)), p) <=> Has(T, Q, p) \/ p = Ref(s, n)
<1> DEFINE A == Append(Q, Ref(s, n))
<1>1. Ref(s, n) \in Pending /\ Ref(s, n).notificationId = n
  BY RefIsPending DEF Ref
<1>2. /\ \A i \in DOMAIN Q : A[i] = Q[i]
      /\ A[Len(Q) + 1] = Ref(s, n)
      /\ \A i \in DOMAIN A : i \in DOMAIN Q \/ i = Len(Q) + 1
  BY <1>1, AppendFacts
<1>3. Increasing(A) /\ \A i \in DOMAIN A : A[i].notificationId < n + 1
  BY AppendedInOrder DEF InOrder
<1>4. \A p \in Pending : InList(A, p) <=> InList(Q, p) \/ p = Ref(s, n)
  BY <1>1, AppendedList
<1> HIDE DEF A
<1>5. \A i \in DOMAIN T : T[i] # LoginSuccess =>
         T[i].data.notificationId \in Nat /\ T[i].data.notificationId < n
  BY StreamNumbers DEF InOrder
<1>6. InOrder(T, A, n + 1)
  BY <1>1, <1>2, <1>3, <1>5 DEF InOrder
<1> QED BY <1>4, <1>6 DEF Has, A

LEMMA ResumedInOrder ==
    ASSUME NEW T \in Seq(Packet), NEW Q \in Seq(Pending), NEW n \in Nat,
           \A i \in DOMAIN T : T[i] = LoginSuccess,
           Increasing(Q), \A k \in DOMAIN Q : Q[k].notificationId < n
    PROVE  /\ InOrder(T, Q, n)
           /\ \A p \in Pending : Has(T, Q, p) <=> InList(Q, p)
<1>1. \A p \in Pending : ~InList(T, Data(p))
  BY PacketTypes DEF InList
<1> QED BY <1>1 DEF InOrder, Has

LEMMA SentInOrder ==
    ASSUME NEW T \in Seq(Packet), NEW Q \in Seq(Pending), Q # <<>>, NEW n \in Nat, InOrder(T, Q, n)
    PROVE  /\ InOrder(Append(T, Data(Head(Q))), Tail(Q), n)
           /\ \A p \in Pending : Has(Append(T, Data(Head(Q))), Tail(Q), p) <=> Has(T, Q, p)
<1> DEFINE A == Append(T, Data(Head(Q)))
           R == Tail(Q)
<1>1. /\ R \in Seq(Pending) /\ Head(Q) = Q[1] /\ 1 \in DOMAIN Q /\ Head(Q) \in Pending
      /\ \A i \in DOMAIN R : i + 1 \in DOMAIN Q /\ R[i] = Q[i + 1] /\ i \in Nat \ {0}
      /\ \A e : InList(Q, e) <=> e = Head(Q) \/ InList(R, e)
  BY TailFacts, SeqFacts
<1>2. Data(Head(Q)) \in Packet /\ Data(Head(Q)) # LoginSuccess /\ Data(Head(Q)).data = Head(Q)
  BY <1>1, PacketTypes
<1>3. /\ \A i \in DOMAIN T : A[i] = T[i]
      /\ A[Len(T) + 1] = Data(Head(Q))
      /\ \A i \in DOMAIN A : i \in DOMAIN T \/ i = Len(T) + 1
      /\ Len(T) \in Nat /\ DOMAIN T = 1 .. Len(T)
  BY <1>2, AppendFacts, SeqFacts
<1>4. Increasing(R) /\ \A k \in DOMAIN R : R[k].notificationId < n
  BY TailInOrder DEF InOrder
<1>5. \A p \in Pending : InList(A, Data(p)) <=> InList(T, Data(p)) \/ p = Head(Q)
  <2>1. \A p \in Pending : InList(A, Data(p)) <=> InList(T, Data(p)) \/ Data(p) = Data(Head(Q))
    BY <1>2, AppendedList
  <2> QED BY <2>1, <1>1, PacketTypes
<1> HIDE DEF A, R
<1>6. \A i \in DOMAIN T : T[i] # LoginSuccess => T[i].data.notificationId < Head(Q).notificationId
  BY <1>1 DEF InOrder
<1>7. \A k \in DOMAIN R : Head(Q).notificationId < R[k].notificationId
  <2>1. ASSUME NEW k \in DOMAIN R
        PROVE  Head(Q).notificationId < R[k].notificationId
    <3>1. k + 1 \in DOMAIN Q /\ R[k] = Q[k + 1] /\ 1 < k + 1
      BY <1>1, <2>1
    <3> QED BY <1>1, <3>1 DEF InOrder, Increasing
  <2> QED BY <2>1
<1>8. Head(Q).notificationId < n /\ Head(Q).notificationId \in Nat
  BY <1>1, StreamNumbers DEF InOrder
<1>9. \A i \in DOMAIN A : A[i] # LoginSuccess =>
          /\ \A k \in DOMAIN R : A[i].data.notificationId < R[k].notificationId
          /\ A[i].data.notificationId < n
  <2>1. ASSUME NEW i \in DOMAIN T, T[i] # LoginSuccess, NEW k \in DOMAIN R
        PROVE  T[i].data.notificationId < R[k].notificationId
    BY <1>1, <2>1 DEF InOrder
  <2>2. \A i \in DOMAIN T : T[i] # LoginSuccess => T[i].data.notificationId < n
    BY DEF InOrder
  <2> QED BY <1>2, <1>3, <1>7, <1>8, <2>1, <2>2
<1>10. \A i, j \in DOMAIN A : i < j /\ A[i] # LoginSuccess /\ A[j] # LoginSuccess =>
          A[i].data.notificationId < A[j].data.notificationId
  <2>1. ASSUME NEW i \in DOMAIN A, NEW j \in DOMAIN A, i < j,
               A[i] # LoginSuccess, A[j] # LoginSuccess
        PROVE  A[i].data.notificationId < A[j].data.notificationId
    <3>1. i \in DOMAIN T
      BY <1>3, <2>1
    <3>2. CASE j \in DOMAIN T
      BY <1>3, <2>1, <3>1, <3>2 DEF InOrder
    <3>3. CASE j = Len(T) + 1
      BY <1>2, <1>3, <1>6, <2>1, <3>1, <3>3
    <3> QED BY <1>3, <3>2, <3>3
  <2> QED BY <2>1
<1>11. InOrder(A, R, n)
  BY <1>4, <1>9, <1>10 DEF InOrder
<1>12. \A p \in Pending : Has(A, R, p) <=> Has(T, Q, p)
  BY <1>1, <1>5 DEF Has
<1> QED BY <1>11, <1>12 DEF A, R

\* A notification of t's user goes to connection d at once.
SendsTo(t, d) ==
    /\ SendTweet(t)
    /\ username[t] \in known
    /\ \E f \in Online(followers[t]) : d \in m_subscribersQueue[f]

\* Connection d gets what waited for its user.
Resumes(t, d) == ConsumerSubscribe(t) /\ d = t

\* What a connection has does not change, or it is greeted, or gets its next one.
Stays(d) ==
    \/ toClient'[d] = toClient[d] /\ ToSend(d)' = ToSend(d)
    \/ toClient'[d] = Append(toClient[d], LoginSuccess) /\ ToSend(d)' = ToSend(d)
    \/ /\ ToSend(d) # <<>>
       /\ toClient'[d] = Append(toClient[d], Data(Head(ToSend(d))))
       /\ ToSend(d)' = Tail(ToSend(d))

LEMMA OneThenRest ==
    ASSUME NEW S, NEW h \in Seq(S), Len(h) = 1, NEW q \in Seq(S)
    PROVE  h \o q # <<>> /\ Head(h \o q) = Head(h) /\ Tail(h \o q) = q
<1>1. h # <<>> /\ h = <<h[1]>> /\ Head(h) = h[1] /\ h[1] \in S
  BY OneElement, ElementOfSeq
<1> DEFINE c == h \o q
<1>2. /\ c \in Seq(S) /\ Len(c) = Len(q) + 1 /\ Len(q) \in Nat
      /\ \A i \in 1 .. Len(q) + 1 : c[i] = IF i <= 1 THEN h[i] ELSE q[i - 1]
  <2>1. /\ c \in Seq(S) /\ Len(c) = Len(h) + Len(q)
        /\ \A i \in 1 .. Len(h) + Len(q) : c[i] = IF i <= Len(h) THEN h[i] ELSE q[i - Len(h)]
    BY ConcatProperties
  <2>2. Len(q) \in Nat
    BY LenProperties
  <2> HIDE DEF c
  <2>3. 1 + Len(q) = Len(q) + 1
    BY <2>2
  <2> QED BY <2>1, <2>2, <2>3
<1> HIDE DEF c
<1>3. c # <<>>
  BY <1>2, EmptySeq
<1>4. /\ Head(c) = c[1] /\ Tail(c) \in Seq(S) /\ Len(Tail(c)) = Len(c) - 1
      /\ \A i \in 1 .. Len(Tail(c)) : Tail(c)[i] = c[i + 1]
  BY <1>2, <1>3, HeadTailProperties
<1>5. Head(c) = h[1]
  BY <1>2, <1>4
<1>6. Len(Tail(c)) = Len(q) /\ \A i \in 1 .. Len(q) : Tail(c)[i] = q[i]
  BY <1>2, <1>4
<1>7. Tail(c) = q
  BY <1>4, <1>6, SeqEqual
<1> QED BY <1>1, <1>3, <1>5, <1>7 DEF c

LEMMA AppendedBehind ==
    ASSUME NEW S, NEW h \in Seq(S), NEW q \in Seq(S), NEW p \in S
    PROVE  h \o Append(q, p) = Append(h \o q, p)
<1>1. <<p>> \in Seq(S) /\ h \o q \in Seq(S)
  BY ConcatProperties
<1>2. Append(q, p) = q \o <<p>> /\ Append(h \o q, p) = (h \o q) \o <<p>>
  BY <1>1, AppendIsConcat
<1>3. \A x \in Seq(S) : (h \o q) \o x = h \o (q \o x)
  BY ConcatAssociative
<1> QED BY <1>1, <1>2, <1>3

LEMMA StreamTypes ==
    ASSUME ServerInv, NEW d \in Thread
    PROVE  /\ held[d] \in Seq(Pending) /\ m_queue[d] \in Seq(Pending)
           /\ ToSend(d) \in Seq(Pending) /\ toClient[d] \in Seq(Packet)
           /\ (consumer[d] # "sending" => held[d] = <<>> /\ ToSend(d) = m_queue[d])
           /\ (consumer[d] = "sending" => Len(held[d]) = 1)
<1>1. held[d] \in Seq(Pending) /\ m_queue[d] \in Seq(Pending) /\ toClient[d] \in Seq(Packet)
  BY Connections
<1>2. Len(held[d]) = IF consumer[d] = "sending" THEN 1 ELSE 0
  BY DEF ServerInv, PhasesAgree
<1>3. ToSend(d) \in Seq(Pending)
  BY <1>1, ConcatProperties DEF ToSend
<1>4. consumer[d] # "sending" => held[d] = <<>>
  BY <1>1, <1>2, EmptySeq
<1>5. <<>> \o m_queue[d] = m_queue[d]
  BY <1>1, ConcatEmptySeq
<1> QED BY <1>1, <1>2, <1>3, <1>4, <1>5 DEF ToSend

LEMMA StreamStep ==
    ASSUME ServerInv, NEW t \in Thread, ClientRequest(t) \/ HandlerStep(t) \/ ConsumerStep(t),
           NEW d \in Thread
    PROVE  /\ SendsTo(t, d) =>
                /\ toClient'[d] = toClient[d]
                /\ ToSend(d)' = Append(ToSend(d), Ref(username[t], m_nextId))
           /\ Resumes(t, d) =>
                /\ toClient'[d] = toClient[d] /\ \A i \in DOMAIN toClient[d] : toClient[d][i] = LoginSuccess
                /\ ToSend(d) = <<>> /\ ToSend(d)' = m_pendingQueue[username[d]]
           /\ ~SendsTo(t, d) /\ ~Resumes(t, d) => Stays(d)
<1>1. NotificationInv /\ NotificationTypeOK /\ ThreadTypes /\ PhasesAgree
  BY DEF ServerInv, NotificationInv, ServerTypeOK, ThreadTypes
<1>2. /\ held[d] \in Seq(Pending) /\ m_queue[d] \in Seq(Pending)
      /\ (consumer[d] # "sending" => held[d] = <<>> /\ ToSend(d) = m_queue[d])
      /\ (consumer[d] = "sending" => Len(held[d]) = 1)
  BY StreamTypes
<1>3. ASSUME toClient' = toClient, held' = held, m_queue'[d] = m_queue[d]
      PROVE  Stays(d)
  BY <1>3 DEF Stays, ToSend
<1>4. ASSUME SendTweet(t)
      PROVE  /\ toClient'[d] = toClient[d]
             /\ SendsTo(t, d) => ToSend(d)' = Append(ToSend(d), Ref(username[t], m_nextId))
             /\ ~SendsTo(t, d) => Stays(d)
  <2>1. toClient' = toClient /\ held' = held
    BY <1>4 DEF SendTweet
  <2>2. CASE username[t] \in known
    <3>1. Send(username[t], followers[t]) /\ username[t] \in Username
          /\ followers[t] \in SUBSET Username
      BY <1>4, <2>2, Connections DEF SendTweet
    <3>2. m_queue'[d] = IF SendsTo(t, d) THEN Append(m_queue[d], Ref(username[t], m_nextId))
                                         ELSE m_queue[d]
      BY <1>1, <1>4, <2>2, <3>1, SendEffect DEF SendsTo
    <3>3. held[d] \o Append(m_queue[d], Ref(username[t], m_nextId)) =
             Append(held[d] \o m_queue[d], Ref(username[t], m_nextId))
      <4>1. Ref(username[t], m_nextId) \in Pending
        BY <1>1, <3>1, RefIsPending DEF NotificationTypeOK
      <4>2. \A h, q \in Seq(Pending), p \in Pending : h \o Append(q, p) = Append(h \o q, p)
        BY AppendedBehind
      <4>3. held[d] \in Seq(Pending) /\ m_queue[d] \in Seq(Pending)
        BY <1>2
      <4> QED BY <4>1, <4>2, <4>3, Zenon
    <3> QED BY <1>3, <2>1, <3>2, <3>3 DEF ToSend
  <2>3. CASE username[t] \notin known
    <3>1. m_queue' = m_queue
      BY <1>4, <2>3 DEF SendTweet, notificationVars
    <3> QED BY <1>3, <2>1, <2>3, <3>1 DEF SendsTo
  <2> QED BY <2>2, <2>3
<1>5. ASSUME ConsumerSubscribe(t)
      PROVE  /\ Resumes(t, d) =>
                  /\ toClient'[d] = toClient[d]
                  /\ \A i \in DOMAIN toClient[d] : toClient[d][i] = LoginSuccess
                  /\ ToSend(d) = <<>> /\ ToSend(d)' = m_pendingQueue[username[d]]
             /\ ~Resumes(t, d) => Stays(d)
  <2>1. /\ consumer[t] = "subscribing" /\ Subscribe(username[t], t)
        /\ toClient' = toClient /\ held' = held
    BY <1>5 DEF ConsumerSubscribe, Step
  <2>2. m_queue[t] = <<>> /\ \A i \in DOMAIN toClient[t] : toClient[t][i] = LoginSuccess
    BY <1>1, <2>1 DEF PhasesAgree
  <2>3. username[t] \in Username
    BY <2>1, Connections
  <2>4. m_queue'[d] = IF d = t THEN m_pendingQueue[username[t]] ELSE m_queue[d]
    BY <1>1, <2>1, <2>2, <2>3, SubscribeEffect
  <2>5. CASE d = t
    <3>1. held'[d] = <<>> /\ ToSend(d) = <<>>
      BY <1>2, <2>1, <2>2, <2>5
    <3>2. m_pendingQueue[username[t]] \in Seq(Pending)
      BY <1>1, <2>3 DEF NotificationTypeOK
    <3>3. <<>> \o m_pendingQueue[username[t]] = m_pendingQueue[username[t]]
      BY <3>2, ConcatEmptySeq
    <3>4. ToSend(d)' = m_pendingQueue[username[d]]
      BY <2>4, <2>5, <3>1, <3>3 DEF ToSend
    <3> QED BY <1>5, <2>1, <2>2, <2>5, <3>1, <3>4 DEF Resumes
  <2>6. CASE d # t
    BY <1>3, <2>1, <2>4, <2>6 DEF Resumes
  <2> QED BY <2>5, <2>6
<1>6. ASSUME ConsumerRemove(t)
      PROVE  Stays(d)
  <2>1. /\ consumer[t] \in {"removing", "waiting"} /\ m_queue[t] # <<>>
        /\ m_queue' = [m_queue EXCEPT ![t] = Tail(@)]
        /\ held' = [held EXCEPT ![t] = <<Head(m_queue[t])>>] /\ toClient' = toClient
    BY <1>6 DEF ConsumerRemove, Remove
  <2>2. CASE d = t
    <3>1. held'[d] = <<Head(m_queue[d])>> /\ m_queue'[d] = Tail(m_queue[d]) /\ ToSend(d) = m_queue[d]
      BY <1>1, <1>2, <2>1, <2>2 DEF ThreadTypes, NotificationTypeOK
    <3>2. <<Head(m_queue[d])>> \o Tail(m_queue[d]) = m_queue[d]
      BY <1>2, <2>1, <2>2, HeadThenTail
    <3> QED BY <2>1, <3>1, <3>2 DEF Stays, ToSend
  <2>3. CASE d # t
    <3>1. held'[d] = held[d] /\ m_queue'[d] = m_queue[d] /\ toClient'[d] = toClient[d]
      BY <1>1, <2>1, <2>3 DEF ThreadTypes, NotificationTypeOK
    <3> QED BY <3>1 DEF Stays, ToSend
  <2> QED BY <2>2, <2>3
<1>7. ASSUME ConsumerSend(t)
      PROVE  Stays(d)
  <2>1. /\ consumer[t] = "sending" /\ m_queue' = m_queue
        /\ held' = [held EXCEPT ![t] = <<>>]
        /\ toClient' = [toClient EXCEPT ![t] = Append(@, Data(Head(held[t])))]
    BY <1>7 DEF ConsumerSend, Step, notificationVars
  <2>2. CASE d = t
    <3>1. /\ held'[d] = <<>> /\ m_queue'[d] = m_queue[d]
          /\ toClient'[d] = Append(toClient[d], Data(Head(held[d]))) /\ Len(held[d]) = 1
      BY <1>1, <1>2, <2>1, <2>2 DEF ThreadTypes
    <3>2. ToSend(d) # <<>> /\ Head(ToSend(d)) = Head(held[d]) /\ Tail(ToSend(d)) = m_queue[d]
      BY <1>2, <3>1, OneThenRest DEF ToSend
    <3>3. <<>> \o m_queue[d] = m_queue[d]
      BY <1>2, ConcatEmptySeq
    <3>4. ToSend(d)' = m_queue[d]
      BY <3>1, <3>3 DEF ToSend
    <3> QED BY <3>1, <3>2, <3>4 DEF Stays
  <2>3. CASE d # t
    <3>1. held'[d] = held[d] /\ m_queue'[d] = m_queue[d] /\ toClient'[d] = toClient[d]
      BY <1>1, <2>1, <2>3 DEF ThreadTypes
    <3> QED BY <3>1 DEF Stays, ToSend
  <2> QED BY <2>2, <2>3
<1>8. ASSUME SendLoginResponse(t)
      PROVE  Stays(d)
  <2>1. /\ m_queue' = m_queue /\ held' = held
        /\ toClient' = [toClient EXCEPT ![t] = Append(@, LoginSuccess)]
    BY <1>8 DEF SendLoginResponse, notificationVars
  <2>2. toClient'[d] = toClient[d] \/ toClient'[d] = Append(toClient[d], LoginSuccess)
    BY <1>1, <2>1 DEF ThreadTypes
  <2> QED BY <2>1, <2>2 DEF Stays, ToSend
<1>9. ASSUME ClientRequest(t) \/ StartConsumer(t) \/ EndSession(t)
      PROVE  Stays(d)
  <2>1. m_queue' = m_queue /\ held' = held /\ toClient' = toClient
    BY <1>9 DEF ClientRequest, Refuse, ReadFollowers, StopConsumer, AuthorizeSession, FollowUser,
              StartConsumer, EndSession, notificationVars, threadVars
  <2> QED BY <1>3, <2>1
<1>10. ASSUME ConsumerLoop(t) \/ ConsumerWait(t) \/ ConsumerTimeout(t) \/ ConsumerUnsubscribe(t)
       PROVE  Stays(d)
  <2>1. m_queue' = m_queue /\ held' = held /\ toClient' = toClient
    BY <1>10 DEF ConsumerLoop, ConsumerWait, ConsumerTimeout, ConsumerUnsubscribe, Unsubscribe,
                 notificationVars
  <2> QED BY <1>3, <2>1
<1>11. SendsTo(t, d) => SendTweet(t)
  BY DEF SendsTo
<1>12. Resumes(t, d) => ConsumerSubscribe(t)
  BY DEF Resumes
<1> QED
  BY <1>4, <1>5, <1>6, <1>7, <1>8, <1>9, <1>10, <1>11, <1>12 DEF HandlerStep, ConsumerStep

\* The number and the record of a tweet.
Tweet(t) ==
    IF username[t] \in known
    THEN [sender |-> username[t], notificationId |-> m_nextId,
          followers |-> followers[t], missed |-> followers[t] \ known]
    ELSE [sender |-> username[t], notificationId |-> 0,
          followers |-> followers[t], missed |-> followers[t]]

LEMMA NumbersAfter ==
    ASSUME ServerInv, NEW t \in Thread, ClientRequest(t) \/ HandlerStep(t) \/ ConsumerStep(t)
    PROVE  /\ m_nextId \in Nat \ {0} /\ m_nextId' \in Nat \ {0}
           /\ m_nextId' = IF SendTweet(t) /\ username[t] \in known THEN m_nextId + 1 ELSE m_nextId
           /\ sent' = IF SendTweet(t) THEN sent \cup {Tweet(t)} ELSE sent
<1>1. m_nextId \in Nat \ {0}
  BY DEF ServerInv, NotificationInv, NotificationTypeOK
<1>2. CASE SendTweet(t)
  BY <1>1, <1>2 DEF SendTweet, Send, notificationVars, Tweet
<1>3. CASE ~SendTweet(t)
  <2>1. CASE ClientRequest(t) \/ StartConsumer(t) \/ SendLoginResponse(t) \/ EndSession(t)
    BY <1>1, <1>3, <2>1
       DEF ClientRequest, Refuse, ReadFollowers, StopConsumer, AuthorizeSession, FollowUser,
           StartConsumer, SendLoginResponse, EndSession, notificationVars
  <2>2. CASE ConsumerStep(t)
    BY <1>1, <1>3, <2>2
       DEF ConsumerStep, ConsumerSubscribe, ConsumerLoop, ConsumerWait, ConsumerRemove,
           ConsumerTimeout, ConsumerSend, ConsumerUnsubscribe, Subscribe, Unsubscribe, Remove,
           notificationVars
  <2> QED BY <1>3, <2>1, <2>2 DEF HandlerStep
<1> QED BY <1>2, <1>3

LEMMA ConnectionsInOrder ==
    ASSUME ServerInv, NEW d \in Thread
    PROVE  InOrder(toClient[d], ToSend(d), m_nextId)
BY DEF ServerInv, InOrderOnce, NumbersAreGiven, Fresh, InOrder

LEMMA StepKeepsOrder ==
    ASSUME ServerInv, NEW t \in Thread, ClientRequest(t) \/ HandlerStep(t) \/ ConsumerStep(t)
    PROVE  InOrderOnce' /\ NumbersAreGiven'
<1>1. /\ m_nextId \in Nat \ {0} /\ m_nextId' \in Nat \ {0}
      /\ m_nextId' = IF SendTweet(t) /\ username[t] \in known THEN m_nextId + 1 ELSE m_nextId
      /\ sent' = IF SendTweet(t) THEN sent \cup {Tweet(t)} ELSE sent
  BY NumbersAfter
<1>2. ASSUME NEW d \in Thread
      PROVE  InOrder(toClient'[d], ToSend(d)', m_nextId')
  <2> DEFINE T == toClient[d]
             Q == ToSend(d)
             n == m_nextId
  <2>1. T \in Seq(Packet) /\ Q \in Seq(Pending) /\ InOrder(T, Q, n) /\ n \in Nat
    BY <1>1, StreamTypes, ConnectionsInOrder
  <2>2. /\ SendsTo(t, d) =>
                /\ toClient'[d] = T
                /\ ToSend(d)' = Append(Q, Ref(username[t], n))
        /\ Resumes(t, d) =>
                /\ toClient'[d] = T /\ \A i \in DOMAIN T : T[i] = LoginSuccess
                /\ Q = <<>> /\ ToSend(d)' = m_pendingQueue[username[d]]
        /\ ~SendsTo(t, d) /\ ~Resumes(t, d) => Stays(d)
    BY StreamStep
  <2>3. CASE SendsTo(t, d)
    <3>1. username[t] \in Username /\ m_nextId' = n + 1
      BY <1>1, <2>3, Connections DEF SendsTo
    <3>2. InOrder(T, Append(Q, Ref(username[t], n)), n + 1)
      BY <2>1, <3>1, QueuedInOrder
    <3> QED BY <2>2, <2>3, <3>1, <3>2
  <2>4. CASE Resumes(t, d) /\ ~SendsTo(t, d)
    <3>1. username[d] \in Username
      BY <2>4, Connections DEF Resumes, ConsumerSubscribe, Step
    <3>2. /\ m_pendingQueue[username[d]] \in Seq(Pending)
          /\ Increasing(m_pendingQueue[username[d]])
          /\ \A k \in DOMAIN m_pendingQueue[username[d]] :
                m_pendingQueue[username[d]][k].notificationId < n
      BY <3>1 DEF ServerInv, NotificationInv, NotificationTypeOK, InSendingOrder, Fresh
    <3>3. InOrder(T, m_pendingQueue[username[d]], n)
      BY <2>1, <2>2, <2>4, <3>2, ResumedInOrder
    <3>4. m_nextId' = n
      BY <2>4, <1>1 DEF Resumes, ConsumerSubscribe, Subscribe
    <3> QED BY <2>2, <2>4, <3>3, <3>4
  <2>5. CASE ~SendsTo(t, d) /\ ~Resumes(t, d)
    <3>1. Stays(d)
      BY <2>2, <2>5
    <3>2. InOrder(toClient'[d], ToSend(d)', n)
      <4>1. CASE toClient'[d] = T /\ ToSend(d)' = Q
        BY <2>1, <4>1
      <4>2. CASE toClient'[d] = Append(T, LoginSuccess) /\ ToSend(d)' = Q
        BY <2>1, <4>2, GreetingInOrder
      <4>3. CASE Q # <<>> /\ toClient'[d] = Append(T, Data(Head(Q))) /\ ToSend(d)' = Tail(Q)
        BY <2>1, <4>3, SentInOrder
      <4> QED BY <3>1, <4>1, <4>2, <4>3 DEF Stays
    <3>3. toClient'[d] \in Seq(Packet) /\ ToSend(d)' \in Seq(Pending)
      <4>1. CASE toClient'[d] = T /\ ToSend(d)' = Q
        BY <2>1, <4>1
      <4>2. CASE toClient'[d] = Append(T, LoginSuccess) /\ ToSend(d)' = Q
        BY <2>1, <4>2, AppendFacts, PacketTypes
      <4>3. CASE Q # <<>> /\ toClient'[d] = Append(T, Data(Head(Q))) /\ ToSend(d)' = Tail(Q)
        <5>1. Tail(Q) \in Seq(Pending) /\ Head(Q) \in Pending
          BY <2>1, <4>3, TailFacts, SeqFacts
        <5> QED BY <2>1, <4>3, <5>1, AppendFacts, PacketTypes
      <4> QED BY <3>1, <4>1, <4>2, <4>3 DEF Stays
    <3>4. n <= m_nextId'
      BY <1>1
    <3> QED BY <1>1, <2>1, <3>2, <3>3, <3>4, LaterNumbers
  <2> QED BY <2>3, <2>4, <2>5
<1>3. InOrderOnce'
  BY <1>2 DEF InOrderOnce, InOrder
<1>4. ASSUME NEW r \in sent'
      PROVE  r.notificationId < m_nextId'
  <2>1. r \in sent => r.notificationId < m_nextId /\ r.notificationId \in Nat
    BY DEF ServerInv, NumbersAreGiven, ServerTypeOK, SentTweet
  <2>2. SendTweet(t) => Tweet(t).notificationId < m_nextId'
    BY <1>1 DEF Tweet
  <2> QED BY <1>1, <1>4, <2>1, <2>2
<1>5. NumbersAreGiven'
  BY <1>2, <1>4 DEF NumbersAreGiven, InOrder, Fresh
<1> QED BY <1>3, <1>5

-----------------------------------------------------------------------------
(* What is owed to the followers of a tweet.                               *)

\* t's user sends a tweet that has a list to go to.
Tweets(t) == SendTweet(t) /\ username[t] \in known

LEMMA NoOtherStep ==
    ASSUME ServerInv, NEW t \in Thread, ConsumerSubscribe(t)
    PROVE  ~Tweets(t)
BY DEF ServerInv, ServerTypeOK, ConsumerSubscribe, Tweets, SendTweet, Step

\* What waits for a user after a step, and who waits with it.
LEMMA PendingAfter ==
    ASSUME ServerInv, NEW t \in Thread, ClientRequest(t) \/ HandlerStep(t) \/ ConsumerStep(t),
           NEW f \in Username
    PROVE  m_pendingQueue'[f] =
             CASE ConsumerSubscribe(t) /\ f = username[t] -> <<>>
               [] Tweets(t) /\ f \in Offline(followers[t]) ->
                     Append(m_pendingQueue[f], Ref(username[t], m_nextId))
               [] OTHER -> m_pendingQueue[f]
<1>1. NotificationInv /\ NotificationTypeOK /\ PhasesAgree
  BY DEF ServerInv, NotificationInv
<1>2. CASE ConsumerSubscribe(t)
  <2>1. /\ consumer[t] = "subscribing" /\ Subscribe(username[t], t) /\ username[t] \in Username
        /\ m_queue[t] = <<>>
    BY <1>1, <1>2, Connections DEF ConsumerSubscribe, Step, PhasesAgree
  <2> QED BY <1>1, <1>2, <2>1, NoOtherStep, SubscribeEffect
<1>3. CASE Tweets(t)
  <2>1. /\ Send(username[t], followers[t]) /\ username[t] \in Username
        /\ followers[t] \in SUBSET Username
    BY <1>3, Connections DEF Tweets, SendTweet
  <2> QED BY <1>1, <1>3, <2>1, NoOtherStep, SendEffect
<1>4. CASE ~ConsumerSubscribe(t) /\ ~Tweets(t)
  <2>1. CASE ClientRequest(t) \/ StartConsumer(t) \/ SendLoginResponse(t) \/ EndSession(t)
    BY <1>4, <2>1
       DEF ClientRequest, Refuse, ReadFollowers, StopConsumer, AuthorizeSession, FollowUser,
           StartConsumer, SendLoginResponse, EndSession, notificationVars
  <2>2. CASE SendTweet(t)
    BY <1>4, <2>2 DEF SendTweet, Tweets, notificationVars
  <2>3. CASE ConsumerStep(t)
    BY <1>4, <2>3
       DEF ConsumerStep, ConsumerLoop, ConsumerWait, ConsumerRemove, ConsumerTimeout, ConsumerSend,
           ConsumerUnsubscribe, Unsubscribe, Remove, notificationVars
  <2> QED BY <1>4, <2>1, <2>2, <2>3 DEF HandlerStep
<1> QED BY <1>2, <1>3, <1>4

LEMMA WaitsAfter ==
    ASSUME ServerInv, NEW t \in Thread, ClientRequest(t) \/ HandlerStep(t) \/ ConsumerStep(t),
           NEW f \in Username, NEW p \in Pending
    PROVE  InList(m_pendingQueue'[f], p) <=>
             \/ InList(m_pendingQueue[f], p) /\ ~(ConsumerSubscribe(t) /\ f = username[t])
             \/ Tweets(t) /\ f \in Offline(followers[t]) /\ p = Ref(username[t], m_nextId)
<1> DEFINE new == Ref(username[t], m_nextId)
<1>1. m_pendingQueue[f] \in Seq(Pending) /\ m_nextId \in Nat
  BY DEF ServerInv, NotificationInv, NotificationTypeOK
<1>2. Tweets(t) => new \in Pending
  BY <1>1, Connections, RefIsPending DEF Tweets
<1>3. Tweets(t) => (InList(Append(m_pendingQueue[f], new), p) <=> InList(m_pendingQueue[f], p) \/ p = new)
  BY <1>1, <1>2, AppendedList
<1>4. ~InList(<<>>, p)
  BY DEF InList
<1>5. m_pendingQueue'[f] =
             CASE ConsumerSubscribe(t) /\ f = username[t] -> <<>>
               [] Tweets(t) /\ f \in Offline(followers[t]) -> Append(m_pendingQueue[f], new)
               [] OTHER -> m_pendingQueue[f]
  BY PendingAfter
<1> QED BY <1>3, <1>4, <1>5, NoOtherStep

LEMMA HandedAfter ==
    ASSUME ServerInv, NEW t \in Thread, ClientRequest(t) \/ HandlerStep(t) \/ ConsumerStep(t),
           NEW d \in Thread, NEW p \in Pending
    PROVE  HandedOver(d, p)' <=>
             \/ HandedOver(d, p)
             \/ SendsTo(t, d) /\ p = Ref(username[t], m_nextId)
             \/ Resumes(t, d) /\ InList(m_pendingQueue[username[d]], p)
<1> DEFINE T == toClient[d]
           Q == ToSend(d)
           n == m_nextId
<1>1. T \in Seq(Packet) /\ Q \in Seq(Pending) /\ InOrder(T, Q, n) /\ n \in Nat
  BY NumbersAfter, StreamTypes, ConnectionsInOrder
<1>2. /\ SendsTo(t, d) =>
              /\ toClient'[d] = T
              /\ ToSend(d)' = Append(Q, Ref(username[t], n))
      /\ Resumes(t, d) =>
              /\ toClient'[d] = T /\ \A i \in DOMAIN T : T[i] = LoginSuccess
              /\ Q = <<>> /\ ToSend(d)' = m_pendingQueue[username[d]]
      /\ ~SendsTo(t, d) /\ ~Resumes(t, d) => Stays(d)
  BY StreamStep
<1>3. ~(SendsTo(t, d) /\ Resumes(t, d))
  BY NoOtherStep DEF SendsTo, Tweets, Resumes
<1>4. HandedOver(d, p) <=> Has(T, Q, p)
  BY DEF HandedOver, Has
<1>5. HandedOver(d, p)' <=> Has(toClient'[d], ToSend(d)', p)
  BY DEF HandedOver, Has, InList, Data
<1>6. CASE SendsTo(t, d)
  <2>1. username[t] \in Username
    BY <1>6, Connections DEF SendsTo
  <2>2. Has(T, Append(Q, Ref(username[t], n)), p) <=> Has(T, Q, p) \/ p = Ref(username[t], n)
    BY <1>1, <2>1, QueuedInOrder
  <2> QED BY <1>2, <1>3, <1>4, <1>5, <1>6, <2>2
<1>7. CASE Resumes(t, d)
  <2>1. ~InList(T, Data(p)) /\ ~InList(<<>>, p)
    BY <1>2, <1>7, PacketTypes DEF InList
  <2> QED BY <1>2, <1>3, <1>4, <1>5, <1>7, <2>1 DEF Has
<1>8. CASE ~SendsTo(t, d) /\ ~Resumes(t, d)
  <2>1. CASE toClient'[d] = T /\ ToSend(d)' = Q
    BY <1>4, <1>5, <1>8, <2>1
  <2>2. CASE toClient'[d] = Append(T, LoginSuccess) /\ ToSend(d)' = Q
    <3>1. Has(Append(T, LoginSuccess), Q, p) <=> Has(T, Q, p)
      BY <1>1, GreetingInOrder
    <3> QED BY <1>4, <1>5, <1>8, <2>2, <3>1
  <2>3. CASE Q # <<>> /\ toClient'[d] = Append(T, Data(Head(Q))) /\ ToSend(d)' = Tail(Q)
    <3>1. Has(Append(T, Data(Head(Q))), Tail(Q), p) <=> Has(T, Q, p)
      BY <1>1, <2>3, SentInOrder
    <3> QED BY <1>4, <1>5, <1>8, <2>3, <3>1
  <2> QED BY <1>2, <1>8, <2>1, <2>2, <2>3 DEF Stays
<1> QED BY <1>6, <1>7, <1>8

\* "p was handed to a session of f."
Reached(f, p) == \E d \in Thread : username[d] = f /\ HandedOver(d, p)

\* A connection that has not logged in yet has nothing.
LEMMA IdleHasNothing ==
    ASSUME ServerInv, NEW d \in Thread, handler[d] = "idle", NEW p \in Pending
    PROVE  ~HandedOver(d, p)
<1>1. consumer[d] = "none" /\ m_queue[d] = <<>> /\ \A i \in DOMAIN toClient[d] : toClient[d][i] = LoginSuccess
  BY DEF ServerInv, PhasesAgree
<1>2. ToSend(d) = <<>>
  BY <1>1, StreamTypes
<1> QED BY <1>1, <1>2, PacketTypes DEF HandedOver, InList

LEMMA ReachedAfter ==
    ASSUME ServerInv, NEW t \in Thread, ClientRequest(t) \/ HandlerStep(t) \/ ConsumerStep(t),
           NEW f \in Username, NEW p \in Pending
    PROVE  Reached(f, p)' <=>
             \/ Reached(f, p)
             \/ Tweets(t) /\ f \in Online(followers[t]) /\ p = Ref(username[t], m_nextId)
             \/ ConsumerSubscribe(t) /\ f = username[t] /\ InList(m_pendingQueue[f], p)
<1>1. ThreadTypes /\ SubscribedAreAlive /\ m_subscribersQueue \in [Username -> SUBSET Thread]
  BY AliveMeansSubscribed DEF ServerInv, ServerTypeOK, ThreadTypes, NotificationTypeOK
<1>2. \A d \in Thread : HandedOver(d, p)' <=>
             \/ HandedOver(d, p)
             \/ SendsTo(t, d) /\ p = Ref(username[t], m_nextId)
             \/ Resumes(t, d) /\ InList(m_pendingQueue[username[d]], p)
  BY HandedAfter
<1>3. \A d \in Thread : username'[d] = username[d] \/ (handler[d] = "idle" /\ d = t /\ \E u \in Username : AuthorizeSession(t, u))
  <2>1. \A d \in Thread : d # t => username'[d] = username[d]
    BY <1>1, OthersStay
  <2>2. CASE Refuse(t) \/ ReadFollowers(t) \/ StopConsumer(t) \/ (\E u \in Username : FollowUser(t, u))
    BY <2>2 DEF Refuse, ReadFollowers, StopConsumer, FollowUser, threadVars
  <2>3. CASE HandlerStep(t)
    BY <2>3 DEF HandlerStep, StartConsumer, SendLoginResponse, SendTweet, EndSession
  <2>4. CASE ConsumerStep(t)
    BY <2>4 DEF ConsumerStep, ConsumerSubscribe, ConsumerLoop, ConsumerWait, ConsumerRemove,
                ConsumerTimeout, ConsumerSend, ConsumerUnsubscribe
  <2>5. CASE \E u \in Username : AuthorizeSession(t, u)
    BY <2>1, <2>5 DEF AuthorizeSession, Step
  <2> QED BY <2>2, <2>3, <2>4, <2>5 DEF ClientRequest
\* A log-in gives a name to a connection that has nothing, and does nothing else.
<1>4. ASSUME NEW d \in Thread
      PROVE  username'[d] = f /\ HandedOver(d, p)' <=> username[d] = f /\ HandedOver(d, p)'
  <2>1. CASE username'[d] = username[d]
    BY <2>1
  <2>2. CASE handler[d] = "idle" /\ d = t /\ \E u \in Username : AuthorizeSession(t, u)
    <3>1. ~HandedOver(d, p)
      BY <2>2, IdleHasNothing
    <3>2. ~SendTweet(t) /\ ~ConsumerSubscribe(t)
      BY <2>2, <1>1 DEF AuthorizeSession, Step, SendTweet, ConsumerSubscribe, ThreadTypes
    <3> QED BY <1>2, <3>1, <3>2 DEF SendsTo, Resumes
  <2> QED BY <1>3, <2>1, <2>2
<1>5. Reached(f, p)' <=> \E d \in Thread : username[d] = f /\ HandedOver(d, p)'
  BY <1>4 DEF Reached
<1>6. (\E d \in Thread : username[d] = f /\ SendsTo(t, d)) <=> Tweets(t) /\ f \in Online(followers[t])
  <2>1. ASSUME NEW d \in Thread, username[d] = f, SendsTo(t, d)
        PROVE  Tweets(t) /\ f \in Online(followers[t])
    <3>1. PICK g \in Online(followers[t]) : d \in m_subscribersQueue[g]
      BY <2>1 DEF SendsTo
    <3>2. followers[t] \in SUBSET Username /\ g \in Username
      BY <1>1, <3>1 DEF Online, ThreadTypes
    <3>3. username[d] = g
      BY <1>1, <3>1, <3>2 DEF SubscribedAreAlive
    <3> QED BY <2>1, <3>1, <3>3 DEF SendsTo, Tweets
  <2>2. ASSUME Tweets(t), f \in Online(followers[t])
        PROVE  \E d \in Thread : username[d] = f /\ SendsTo(t, d)
    <3>1. m_subscribersQueue[f] # {}
      BY <2>2 DEF Online
    <3>2. PICK d \in Thread : d \in m_subscribersQueue[f]
      BY <1>1, <3>1
    <3>3. username[d] = f
      BY <1>1, <3>2 DEF SubscribedAreAlive
    <3> QED BY <2>2, <3>2, <3>3 DEF SendsTo, Tweets
  <2> QED BY <2>1, <2>2
<1>7. (\E d \in Thread : username[d] = f /\ Resumes(t, d)) <=> ConsumerSubscribe(t) /\ f = username[t]
  BY DEF Resumes
<1> QED BY <1>2, <1>5, <1>6, <1>7 DEF Reached

\* The numbers of the notifications a follower has or waits for are given.
LEMMA NewIsNowhere ==
    ASSUME ServerInv, NEW f \in Username, NEW s \in Username
    PROVE  ~InList(m_pendingQueue[f], Ref(s, m_nextId)) /\ ~Reached(f, Ref(s, m_nextId))
<1>1. m_nextId \in Nat /\ Ref(s, m_nextId).notificationId = m_nextId
  BY NumbersAfter DEF Ref, ServerInv, NotificationInv, NotificationTypeOK
<1>2. ~InList(m_pendingQueue[f], Ref(s, m_nextId))
  BY <1>1 DEF InList, ServerInv, NotificationInv, InSendingOrder, Fresh
<1>3. ASSUME NEW d \in Thread, HandedOver(d, Ref(s, m_nextId))
      PROVE  FALSE
  <2>1. InOrder(toClient[d], ToSend(d), m_nextId)
    BY ConnectionsInOrder
  <2>2. Data(Ref(s, m_nextId)) # LoginSuccess /\ Data(Ref(s, m_nextId)).data = Ref(s, m_nextId)
    BY <1>1, RefIsPending, PacketTypes
  <2> QED BY <1>1, <1>3, <2>1, <2>2 DEF HandedOver, InList, InOrder
<1> QED BY <1>2, <1>3 DEF Reached

LEMMA StepKeepsOwed ==
    ASSUME ServerInv, NEW t \in Thread, ClientRequest(t) \/ HandlerStep(t) \/ ConsumerStep(t)
    PROVE  PendingOrHandedOver'
<1>1. /\ m_nextId \in Nat \ {0} /\ sent' = IF SendTweet(t) THEN sent \cup {Tweet(t)} ELSE sent
      /\ sent \subseteq SentTweet /\ sent' \subseteq SentTweet
      /\ \A r \in sent : r.notificationId < m_nextId
  BY NumbersAfter, StepKeepsTypes DEF ServerInv, ServerTypeOK, NumbersAreGiven
<1>2. ASSUME NEW r \in sent', r.notificationId # 0, NEW f \in r.followers \ r.missed
      PROVE  InList(m_pendingQueue'[f], Ref(r.sender, r.notificationId)) <=>
             ~Reached(f, Ref(r.sender, r.notificationId))'
  <2> DEFINE p == Ref(r.sender, r.notificationId)
  <2>1. r \in SentTweet /\ f \in Username /\ r.sender \in Username /\ p \in Pending
    BY <1>1, <1>2, RefIsPending DEF SentTweet
  <2>2. /\ InList(m_pendingQueue'[f], p) <=>
             \/ InList(m_pendingQueue[f], p) /\ ~(ConsumerSubscribe(t) /\ f = username[t])
             \/ Tweets(t) /\ f \in Offline(followers[t]) /\ p = Ref(username[t], m_nextId)
        /\ Reached(f, p)' <=>
             \/ Reached(f, p)
             \/ Tweets(t) /\ f \in Online(followers[t]) /\ p = Ref(username[t], m_nextId)
             \/ ConsumerSubscribe(t) /\ f = username[t] /\ InList(m_pendingQueue[f], p)
    BY <2>1, WaitsAfter, ReachedAfter
  <2>3. CASE r \in sent
    <3>1. InList(m_pendingQueue[f], p) <=> ~Reached(f, p)
      <4>1. InList(m_pendingQueue[f], p) # Reached(f, p)
        BY <1>2, <2>3 DEF ServerInv, PendingOrHandedOver, Reached
      <4> QED BY <4>1 DEF InList, Reached
    <3>2. p # Ref(username[t], m_nextId)
      BY <1>1, <2>1, <2>3 DEF Ref, SentTweet
    <3> QED BY <2>2, <3>1, <3>2
  <2>4. CASE r \notin sent
    <3>1. SendTweet(t) /\ r = Tweet(t)
      BY <1>1, <1>2, <2>4
    <3>2. username[t] \in known
      BY <1>2, <3>1 DEF Tweet
    <3>3. /\ Tweets(t) /\ p = Ref(username[t], m_nextId) /\ f \in followers[t] \cap known
          /\ username[t] \in Username
      BY <1>2, <2>1, <3>1, <3>2 DEF Tweet, Tweets
    <3>4. ~InList(m_pendingQueue[f], p) /\ ~Reached(f, p)
      BY <2>1, <3>3, NewIsNowhere
    <3>5. f \in Offline(followers[t]) <=> f \notin Online(followers[t])
      BY <3>3 DEF Online, Offline
    <3> QED BY <2>2, <3>3, <3>4, <3>5
  <2> QED BY <2>3, <2>4
<1> QED BY <1>2 DEF PendingOrHandedOver, Reached, InList

\* A send counts the queues it writes to and the followers who have none.
LEMMA SendCountsAll ==
    ASSUME NotificationTypeOK, NEW to \in SUBSET Username
    PROVE  StillPending(to) = Cardinality(Offline(to)) + Cardinality(to \ known)
<1> DEFINE on == Online(to)
           off == Offline(to)
           missed == to \ known
<1>1. IsFiniteSet(to)
  BY UsernamesAreFinite, FS_Subset
<1>2. on \subseteq to /\ off \subseteq to /\ missed \subseteq to
  BY DEF Online, Offline
<1>3. to \ on = off \cup missed /\ off \cap missed = {} /\ to \cap on = on
  BY DEF Online, Offline
<1>4. /\ IsFiniteSet(on) /\ IsFiniteSet(off) /\ IsFiniteSet(missed) /\ IsFiniteSet(to \ on)
  BY <1>1, <1>2, FS_Subset
<1>5. Cardinality(to \ on) = Cardinality(to) - Cardinality(on)
  BY <1>1, <1>3, FS_Difference
<1>6. Cardinality(off \cup missed) = Cardinality(off) + Cardinality(missed) - Cardinality(off \cap missed)
  BY <1>4, FS_Union
<1>7. Cardinality(off \cap missed) = 0
  BY <1>3, FS_EmptySet
<1>8. /\ Cardinality(to) \in Nat /\ Cardinality(on) \in Nat
      /\ Cardinality(off) \in Nat /\ Cardinality(missed) \in Nat
  BY <1>1, <1>4, FS_CardinalityType
<1>9. StillPending(to) = Cardinality(to) - Cardinality(on)
  BY DEF StillPending
<1>10. Cardinality(to \ on) = Cardinality(off \cup missed)
  BY <1>3
<1> HIDE DEF on, off, missed
<1>11. StillPending(to) = Cardinality(off) + Cardinality(missed)
  BY <1>5, <1>6, <1>7, <1>8, <1>9, <1>10
<1> QED BY <1>11 DEF off, missed

\* The queues that refer to a notification after a step.
LEMMA HoldersAfter ==
    ASSUME ServerInv, NEW t \in Thread, ClientRequest(t) \/ HandlerStep(t) \/ ConsumerStep(t),
           NEW s \in Username, NEW id \in Nat
    PROVE  Holders(s, id)' =
             CASE ConsumerSubscribe(t) -> Holders(s, id) \ {username[t]}
               [] Tweets(t) /\ s = username[t] /\ id = m_nextId -> Offline(followers[t])
               [] OTHER -> Holders(s, id)
<1>1. Ref(s, id) \in Pending
  BY RefIsPending
<1>2. \A f \in Username : InList(m_pendingQueue'[f], Ref(s, id)) <=>
             \/ InList(m_pendingQueue[f], Ref(s, id)) /\ ~(ConsumerSubscribe(t) /\ f = username[t])
             \/ Tweets(t) /\ f \in Offline(followers[t]) /\ Ref(s, id) = Ref(username[t], m_nextId)
  BY <1>1, WaitsAfter
<1>3. Ref(s, id) = Ref(username[t], m_nextId) <=> s = username[t] /\ id = m_nextId
  BY DEF Ref
<1>4. id = m_nextId => \A f \in Username : ~InList(m_pendingQueue[f], Ref(s, id))
  BY NewIsNowhere
<1>5. Offline(followers[t]) \subseteq Username
  BY Connections DEF Offline
<1>6. Holders(s, id)' = {f \in Username : InList(m_pendingQueue'[f], Ref(s, id))}
  BY DEF Holders, InList, Ref
<1>7. CASE ConsumerSubscribe(t)
  BY <1>2, <1>6, <1>7, NoOtherStep DEF Holders
<1>8. CASE ~ConsumerSubscribe(t) /\ Tweets(t) /\ s = username[t] /\ id = m_nextId
  BY <1>2, <1>4, <1>5, <1>6, <1>8
<1>9. CASE ~ConsumerSubscribe(t) /\ ~(Tweets(t) /\ s = username[t] /\ id = m_nextId)
  BY <1>2, <1>3, <1>6, <1>9 DEF Holders
<1> QED BY <1>7, <1>8, <1>9

\* The stored notifications after a step.
LEMMA StoredAfter ==
    ASSUME ServerInv, NEW t \in Thread, ClientRequest(t) \/ HandlerStep(t) \/ ConsumerStep(t),
           NEW s \in Username, NEW new \in m_notifications'[s]
    PROVE  \/ ~ConsumerSubscribe(t) /\ new \in m_notifications[s]
           \/ /\ Tweets(t) /\ s = username[t]
              /\ new = [id |-> m_nextId, pendingCount |-> StillPending(followers[t])]
           \/ /\ ConsumerSubscribe(t)
              /\ \E n \in m_notifications[s] :
                   /\ new.id = n.id
                   /\ \/ username[t] \notin Holders(s, n.id) /\ new = n
                      \/ username[t] \in Holders(s, n.id) /\ new.pendingCount = n.pendingCount - 1
<1>1. NotificationInv /\ NotificationTypeOK /\ PhasesAgree
  BY DEF ServerInv, NotificationInv
<1>2. CASE ConsumerSubscribe(t)
  <2>1. /\ consumer[t] = "subscribing" /\ Subscribe(username[t], t) /\ username[t] \in Username
        /\ m_queue[t] = <<>>
    BY <1>1, <1>2, Connections DEF ConsumerSubscribe, Step, PhasesAgree
  <2>2. \E n \in m_notifications[s] :
           /\ n \in Stored /\ new \in Stored /\ new.id = n.id
           /\ \/ ~InList(m_pendingQueue[username[t]], Ref(s, n.id)) /\ new = n
              \/ /\ InList(m_pendingQueue[username[t]], Ref(s, n.id))
                 /\ new.pendingCount = n.pendingCount - 1
    BY <1>1, <2>1, SubscribeEffect
  <2> QED BY <1>2, <2>1, <2>2 DEF Holders
<1>3. CASE Tweets(t)
  <2>1. /\ Send(username[t], followers[t]) /\ username[t] \in Username
        /\ followers[t] \in SUBSET Username
    BY <1>3, Connections DEF Tweets, SendTweet
  <2>2. \A to \in SUBSET Username, v \in Username : Send(v, to) =>
           \A u \in Username : m_notifications'[u] =
               IF u = v /\ StillPending(to) > 0
               THEN m_notifications[u] \cup {[id |-> m_nextId, pendingCount |-> StillPending(to)]}
               ELSE m_notifications[u]
    BY <1>1, SendEffect
  <2>3. \/ new \in m_notifications[s]
        \/ /\ s = username[t]
           /\ new = [id |-> m_nextId, pendingCount |-> StillPending(followers[t])]
    <3>1. m_notifications'[s] =
             IF s = username[t] /\ StillPending(followers[t]) > 0
             THEN m_notifications[s] \cup
                     {[id |-> m_nextId, pendingCount |-> StillPending(followers[t])]}
             ELSE m_notifications[s]
      BY <2>1, <2>2, Zenon
    <3> QED BY <3>1
  <2> QED BY <1>3, <2>3, NoOtherStep
<1>4. CASE ~ConsumerSubscribe(t) /\ ~Tweets(t)
  <2>1. CASE ClientRequest(t) \/ StartConsumer(t) \/ SendLoginResponse(t) \/ EndSession(t)
    BY <1>4, <2>1
       DEF ClientRequest, Refuse, ReadFollowers, StopConsumer, AuthorizeSession, FollowUser,
           StartConsumer, SendLoginResponse, EndSession, notificationVars
  <2>2. CASE SendTweet(t)
    BY <1>4, <2>2 DEF SendTweet, Tweets, notificationVars
  <2>3. CASE ConsumerStep(t)
    BY <1>4, <2>3
       DEF ConsumerStep, ConsumerLoop, ConsumerWait, ConsumerRemove, ConsumerTimeout, ConsumerSend,
           ConsumerUnsubscribe, Unsubscribe, Remove, notificationVars
  <2> QED BY <1>4, <2>1, <2>2, <2>3 DEF HandlerStep
<1> QED BY <1>2, <1>3, <1>4

LEMMA StepKeepsCount ==
    ASSUME ServerInv, NEW t \in Thread, ClientRequest(t) \/ HandlerStep(t) \/ ConsumerStep(t)
    PROVE  PendingCountExact'
<1>1. /\ NotificationTypeOK /\ StoredOnce /\ PendingCountExact /\ m_nextId \in Nat
      /\ sent \subseteq SentTweet
  BY DEF ServerInv, NotificationInv, NotificationTypeOK, ServerTypeOK
<1>2. sent \subseteq sent' /\ (SendTweet(t) => Tweet(t) \in sent')
  BY NumbersAfter
<1>3. ASSUME NEW s \in Username, NEW new \in m_notifications'[s]
      PROVE  \E r \in sent' :
               /\ r.sender = s
               /\ r.notificationId = new.id
               /\ new.pendingCount = Cardinality(Holders(s, new.id)') + Cardinality(r.missed)
  <2>1. \A n \in m_notifications[s] : n \in Stored /\ n.id \in Nat /\ n.id < m_nextId
    BY <1>1 DEF NotificationTypeOK, Stored, StoredOnce
  <2>2. CASE ~ConsumerSubscribe(t) /\ new \in m_notifications[s]
    <3>1. PICK r \in sent : /\ r.sender = s /\ r.notificationId = new.id
                            /\ new.pendingCount = Cardinality(Holders(s, new.id)) + Cardinality(r.missed)
      BY <1>1, <2>2 DEF PendingCountExact
    <3>2. new.id \in Nat /\ new.id # m_nextId
      BY <1>1, <2>1, <2>2
    <3>3. Holders(s, new.id)' = Holders(s, new.id)
      BY <2>2, <3>2, HoldersAfter
    <3> QED BY <1>2, <3>1, <3>3
  <2>3. CASE /\ Tweets(t) /\ s = username[t]
             /\ new = [id |-> m_nextId, pendingCount |-> StillPending(followers[t])]
    <3>1. /\ Tweet(t) \in sent' /\ Tweet(t).sender = s /\ Tweet(t).notificationId = m_nextId
          /\ Tweet(t).missed = followers[t] \ known
      BY <1>2, <2>3 DEF Tweets, Tweet
    <3>2. new.id = m_nextId /\ new.id \in Nat /\ new.pendingCount = StillPending(followers[t])
      BY <1>1, <2>3
    <3>3. StillPending(followers[t]) = Cardinality(Offline(followers[t])) + Cardinality(followers[t] \ known)
      BY <1>1, Connections, SendCountsAll
    <3>4. ~ConsumerSubscribe(t)
      BY <2>3, NoOtherStep
    <3>5. Holders(s, new.id)' = Offline(followers[t])
      BY <2>3, <3>2, <3>4, HoldersAfter
    <3> QED BY <3>1, <3>2, <3>3, <3>5
  <2>4. CASE ConsumerSubscribe(t)
    <3>1. PICK n \in m_notifications[s] :
             /\ new.id = n.id
             /\ \/ username[t] \notin Holders(s, n.id) /\ new = n
                \/ username[t] \in Holders(s, n.id) /\ new.pendingCount = n.pendingCount - 1
      BY <2>4, StoredAfter, NoOtherStep
    <3>2. PICK r \in sent : /\ r.sender = s /\ r.notificationId = n.id
                            /\ n.pendingCount = Cardinality(Holders(s, n.id)) + Cardinality(r.missed)
      BY <1>1 DEF PendingCountExact
    <3> DEFINE H == Holders(s, n.id)
               u == username[t]
    <3>3. Holders(s, new.id)' = H \ {u}
      BY <2>1, <2>4, <3>1, HoldersAfter
    <3>4. IsFiniteSet(H) /\ Cardinality(H) \in Nat
      BY HoldersAreFinite, FS_CardinalityType
    <3>5. Cardinality(r.missed) \in Nat
      <4>1. r.missed \subseteq Username
        BY <1>1 DEF SentTweet
      <4> QED BY <4>1, UsernamesAreFinite, FS_Subset, FS_CardinalityType
    <3>6. r \in sent'
      BY <1>2
    <3>7. CASE u \notin H
      <4>1. H \ {u} = H
        BY <3>7
      <4> QED BY <3>1, <3>2, <3>3, <3>6, <3>7, <4>1
    <3>8. CASE u \in H
      <4>1. Cardinality(H \ {u}) = Cardinality(H) - 1
        BY <3>4, <3>8, FS_RemoveElement
      <4>2. new.pendingCount = n.pendingCount - 1
        BY <3>1, <3>8
      <4> HIDE DEF H
      <4>3. new.pendingCount = Cardinality(H \ {u}) + Cardinality(r.missed)
        BY <3>2, <3>4, <3>5, <4>1, <4>2 DEF H
      <4> QED BY <3>1, <3>2, <3>3, <3>6, <4>3
    <3> QED BY <3>7, <3>8
  <2> QED BY <2>2, <2>3, <2>4, StoredAfter
<1> QED BY <1>3 DEF PendingCountExact, Holders, InList, Ref

-----------------------------------------------------------------------------
(* The inductive invariant.                                                *)

LEMMA ServerInitHasInv == ServerInit => ServerInv
<1> SUFFICES ASSUME ServerInit
             PROVE  ServerInv
  OBVIOUS
<1>1. /\ handler = [t \in Thread |-> "idle"] /\ username = [t \in Thread |-> ""]
      /\ followers = [t \in Thread |-> {}] /\ consumer = [t \in Thread |-> "none"]
      /\ shouldStop = [t \in Thread |-> FALSE] /\ held = [t \in Thread |-> <<>>]
      /\ toClient = [t \in Thread |-> <<>>] /\ sent = {}
      /\ NotificationInit(DOMAIN m_users)
  BY DEF ServerInit
<1>2. /\ m_queue = [t \in Thread |-> <<>>] /\ m_nextId = 1
      /\ m_notifications = [u \in Username |-> {}]
      /\ m_subscribersQueue = [u \in Username |-> {}]
  BY <1>1 DEF NotificationInit
<1>3. ProfileInv
  BY ProfileInitHasInv DEF ServerInit
<1>4. NotificationInv
  BY <1>1, <1>3, InitHasInv DEF ProfileInv, ProfileTypeOK
<1>5. ServerTypeOK
  BY <1>1, <1>3, <1>4, EmptySeq
     DEF ServerTypeOK, ProfileInv, NotificationInv, HandlerPhase, ConsumerPhase
<1>6. Len(<<>>) = 0 /\ \A t \in Thread : ToSend(t) = <<>> /\ DOMAIN ToSend(t) = {} /\ DOMAIN toClient[t] = {}
  <2>1. <<>> \in Seq(Pending) /\ Len(<<>>) = 0
    BY EmptySeq
  <2>2. \A t \in Thread : ToSend(t) = <<>>
    BY <1>1, <1>2, <2>1, ConcatEmptySeq DEF ToSend
  <2>3. DOMAIN <<>> = {}
    OBVIOUS
  <2>4. \A t \in Thread : toClient[t] = <<>>
    BY <1>1
  <2> QED BY <2>1, <2>2, <2>3, <2>4
<1>7. PhasesAgree
  <2>1. ASSUME NEW t \in Thread
        PROVE  /\ handler[t] = "idle" /\ consumer[t] = "none" /\ followers[t] = {}
               /\ held[t] = <<>> /\ m_queue[t] = <<>> /\ DOMAIN toClient[t] = {}
    BY <1>1, <1>2, <1>6
  <2> QED BY <1>6, <2>1 DEF PhasesAgree, HasSession
<1>8. SessionsMirrorHandlers
  <2>1. ASSUME NEW u \in DOMAIN m_users
        PROVE  m_users[u].m_sessions = <<>>
    BY DEF ServerInit, ProfileInit, ReadUsers
  <2>2. \A u : {t \in Thread : HasSession(t) /\ username[t] = u} = {}
    BY <1>1 DEF HasSession
  <2>3. Cardinality({}) = 0
    BY FS_EmptySet
  <2>4. \A t : ~InList(<<>>, t)
    BY DEF InList
  <2> QED BY <1>6, <2>1, <2>2, <2>3, <2>4 DEF SessionsMirrorHandlers
<1>9. SubscribersAreAlive /\ TheAliveAreSubscribed
  BY <1>1, <1>2 DEF SubscribersAreAlive, TheAliveAreSubscribed
<1>10. NumbersAreGiven /\ InOrderOnce
  BY <1>1, <1>6 DEF NumbersAreGiven, Fresh, InOrderOnce, Increasing
<1>11. PendingOrHandedOver /\ PendingCountExact
  BY <1>1, <1>2 DEF PendingOrHandedOver, PendingCountExact
<1> QED
  BY <1>3, <1>4, <1>5, <1>7, <1>8, <1>9, <1>10, <1>11 DEF ServerInv

LEMMA StutterKeepsServerInv ==
    ASSUME ServerInv, UNCHANGED serverVars
    PROVE  ServerInv'
<1>1. UNCHANGED <<profileVars, notificationVars>>
  BY DEF serverVars
<1>2. ProfileInv' /\ NotificationInv'
  BY <1>1, ProfileStepKeepsInv, StepKeepsInv DEF ServerInv
<1>3. /\ m_users' = m_users /\ known' = known /\ m_nextId' = m_nextId
      /\ m_notifications' = m_notifications /\ m_pendingQueue' = m_pendingQueue
      /\ m_subscribersQueue' = m_subscribersQueue /\ m_queue' = m_queue
      /\ handler' = handler /\ username' = username /\ followers' = followers
      /\ consumer' = consumer /\ shouldStop' = shouldStop /\ held' = held
      /\ toClient' = toClient /\ sent' = sent
  BY DEF serverVars, profileVars, notificationVars, threadVars
<1> USE DEF ServerInv
<1>4. ServerTypeOK'
  BY <1>2, <1>3 DEF ServerTypeOK, ProfileInv, NotificationInv
<1>5. PhasesAgree'
  BY <1>3 DEF PhasesAgree, HasSession
<1>6. SessionsMirrorHandlers'
  <2>1. ASSUME NEW u \in Username
        PROVE  {d \in Thread : HasSession(d)' /\ username'[d] = u} =
               {d \in Thread : HasSession(d) /\ username[d] = u}
    BY <1>3 DEF HasSession
  <2>2. SessionsMirrorHandlers
    OBVIOUS
  <2> QED BY <1>3, <2>1, <2>2 DEF SessionsMirrorHandlers, InList
<1>7. SubscribersAreAlive' /\ TheAliveAreSubscribed'
  BY <1>3 DEF SubscribersAreAlive, TheAliveAreSubscribed
<1>8. NumbersAreGiven' /\ InOrderOnce'
  BY <1>3 DEF NumbersAreGiven, InOrderOnce, Fresh, Increasing, ToSend
<1>9. PendingOrHandedOver'
  <2>1. \A d \in Thread : \A p : HandedOver(d, p)' <=> HandedOver(d, p)
    BY <1>3 DEF HandedOver, InList, ToSend, Data
  <2>2. PendingOrHandedOver
    OBVIOUS
  <2> QED BY <1>3, <2>1, <2>2 DEF PendingOrHandedOver, InList, Ref
<1>10. PendingCountExact'
  <2>1. ASSUME NEW s \in Username, NEW n \in m_notifications[s]
        PROVE  Holders(s, n.id)' = Holders(s, n.id)
    BY <1>3 DEF Holders, InList, Ref
  <2>2. PendingCountExact
    OBVIOUS
  <2> QED BY <1>3, <2>1, <2>2 DEF PendingCountExact
<1> QED BY <1>2, <1>4, <1>5, <1>6, <1>7, <1>8, <1>9, <1>10

LEMMA ServerStepKeepsInv == ServerInv /\ [ServerNext]_serverVars => ServerInv'
<1> SUFFICES ASSUME ServerInv, [ServerNext]_serverVars
             PROVE  ServerInv'
  OBVIOUS
<1>1. CASE UNCHANGED serverVars
  BY <1>1, StutterKeepsServerInv
<1>2. ASSUME NEW t \in Thread, ClientRequest(t) \/ HandlerStep(t) \/ ConsumerStep(t)
      PROVE  ServerInv'
  <2>1. ProfileInv' /\ NotificationInv'
    BY ServerStepIsProfileStep, ServerStepIsNotificationStep, ProfileStepKeepsInv, StepKeepsInv
       DEF ServerInv
  <2>2. ServerTypeOK'
    BY <1>2, <2>1, StepKeepsTypes DEF ServerTypeOK, ThreadTypes, ProfileInv, NotificationInv
  <2>3. /\ PhasesAgree' /\ SessionsMirrorHandlers'
        /\ SubscribersAreAlive' /\ TheAliveAreSubscribed'
    BY <1>2, StepKeepsPhases, StepKeepsSessions, StepKeepsSubscribers
  <2>4. /\ NumbersAreGiven' /\ InOrderOnce'
        /\ PendingOrHandedOver' /\ PendingCountExact'
    BY <1>2, StepKeepsOrder, StepKeepsOwed, StepKeepsCount
  <2> QED BY <2>1, <2>2, <2>3, <2>4 DEF ServerInv
<1> QED BY <1>1, <1>2 DEF ServerNext

\* The inductive invariant holds of every behaviour of the server, whatever the
\* interleaving of its handlers and consumers.
THEOREM ServerInvariant == ServerSpec => []ServerInv
BY ServerInitHasInv, ServerStepKeepsInv, PTL DEF ServerSpec

\* No slot of a user leaks and none is freed under a running handler:
\* authorizeSession takes one, the end of the handler gives that one back.
THEOREM SessionsAlwaysMirrorHandlers == ServerSpec => []SessionsMirrorHandlers
BY ServerInvariant, PTL DEF ServerInv

\* NotificationManager never holds the queue of a consumer that was deleted: the
\* handler joins the consumer, which has unsubscribed before it returns.
THEOREM SubscribersAreAlwaysAlive == ServerSpec => []SubscribersAreAlive
BY ServerInvariant, PTL DEF ServerInv

\* A connection is sent its notifications in the order of their numbers, none
\* twice, those that waited for the log-in first.
THEOREM AlwaysInOrderOnce == ServerSpec => []InOrderOnce
BY ServerInvariant, PTL DEF ServerInv

\* A tweet is never lost between send and subscribe: it waits for a follower or
\* it was handed to a session of his, and never both.
THEOREM AlwaysPendingOrHandedOver == ServerSpec => []PendingOrHandedOver
BY ServerInvariant, PTL DEF ServerInv

\* pendingCount is exactly the number of queues that refer to the notification
\* and of followers that had no queue when it was sent.
THEOREM PendingCountAlwaysExact == ServerSpec => []PendingCountExact
BY ServerInvariant, PTL DEF ServerInv

\* The threads call NotificationManager in the ways its specification allows, so
\* all that is proved of it holds in the server.
THEOREM ServerUsesNotificationManager == ServerSpec => UsesNotificationManager
<1>1. ASSUME ServerInit
      PROVE  \E users \in SUBSET Username : NotificationInit(users)
  <2>1. DOMAIN m_users \in SUBSET Username
    BY <1>1, ServerInitHasInv DEF ServerInv, ProfileInv, ProfileTypeOK
  <2> QED BY <1>1, <2>1 DEF ServerInit
<1> QED
  BY <1>1, ServerInvariant, ServerStepIsNotificationStep, PTL
     DEF ServerSpec, UsesNotificationManager, NotificationSpec

\* And ProfileManager likewise: a thread opens one session at most, and closes
\* only the session it opened.
THEOREM ServerUsesProfileManager == ServerSpec => ProfileSpec
BY ServerInvariant, ServerStepIsProfileStep, PTL DEF ServerSpec, ServerInit, ProfileSpec

=============================================================================
