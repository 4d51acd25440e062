--------------------------- MODULE DeliveryProofs ---------------------------
(***************************************************************************)
(* The bytes on a connection stay packets, one after the other, however    *)
(* they are cut; and queue, consumer, handler and bytes together implement *)
(* Channel.                                                                *)
(***************************************************************************)
EXTENDS Delivery, SubsequencesProofs

USE DEF Notification

-----------------------------------------------------------------------------
(* Packets and their bytes.                                                *)

\* The size of a packet fits in front of a body that is not empty.
LEMMA Sizes ==
    /\ sizeFieldLength \in Nat /\ sizeFieldLength > 0
    /\ \A p \in Packet : SizeOf(p) \in Nat /\ SizeOf(p) > 0
    /\ MaxNotifications \in Nat /\ MaxAnswers \in Nat
  BY ConnectionAssumption, DeliveryAssumption

\* The packets of a session are answers and notifications.
LEMMA Packets ==
    /\ Success \in Packet /\ Success.type # "DATA"
    /\ \A n \in Notification : Data(n) \in Packet /\ Data(n).type = "DATA" /\ Data(n).id = n
    /\ \A p \in Packet : p.type = "DATA" => p.id \in Notification /\ p = Data(p.id)
<1>1. Packet = {Data(n) : n \in Notification} \cup {Success}
  BY DeliveryAssumption
<1>2. Success.type = "SUCCESS" /\ \A n : Data(n).type = "DATA" /\ Data(n).id = n
  BY DEF Success, Data
<1>3. ASSUME NEW p \in Packet, p.type = "DATA"
      PROVE  p.id \in Notification /\ p = Data(p.id)
  <2>1. p # Success
    BY <1>2, <1>3
  <2>2. PICK n \in Notification : p = Data(n)
    BY <1>1, <2>1
  <2> QED
    BY <1>2, <2>2
<1>4. Success \in Packet /\ \A n \in Notification : Data(n) \in Packet
  BY <1>1
<1> QED
  BY <1>2, <1>3, <1>4

\* A byte of the size field ends nothing; one of the body ends the packet if it is
\* the last of it.
LEMMA BytesOfAPacket ==
    ASSUME NEW p \in Packet
    PROVE  /\ SizeByte(SizeOf(p)) \in Byte
           /\ SizeByte(SizeOf(p)).size = SizeOf(p)
           /\ ~EndsPacket(SizeByte(SizeOf(p))) /\ ~IsLastByte(SizeByte(SizeOf(p)))
           /\ \A i \in 1 .. SizeOf(p) :
                /\ PacketByte(p, i) \in Byte
                /\ PacketByte(p, i).packet = p
                /\ EndsPacket(PacketByte(p, i)) <=> i = SizeOf(p)
                /\ IsLastByte(PacketByte(p, i)) <=> p.type = "DATA" /\ i = SizeOf(p)
<1>1. SizeByte(SizeOf(p)) \in Byte
  BY DEF SizeByte, Byte
<1>2. SizeByte(SizeOf(p)).size = SizeOf(p) /\ "packet" \notin DOMAIN SizeByte(SizeOf(p))
  BY DEF SizeByte
<1>3. ASSUME NEW i \in 1 .. SizeOf(p)
      PROVE  /\ PacketByte(p, i) \in Byte
             /\ PacketByte(p, i).packet = p /\ PacketByte(p, i).position = i
             /\ "packet" \in DOMAIN PacketByte(p, i)
  <2>1. PacketByte(p, i) \in [packet : {p}, position : 1 .. SizeOf(p)]
    BY DEF PacketByte
  <2>2. PacketByte(p, i) \in Byte
    BY <2>1 DEF Byte
  <2> QED
    BY <2>2 DEF PacketByte
<1> QED
  BY <1>1, <1>2, <1>3 DEF EndsPacket, IsLastByte

\* A byte is one of the size field or one of the body of some packet.
LEMMA BytesAreOfPackets ==
    ASSUME NEW b \in Byte
    PROVE  \E p \in Packet : \/ b = SizeByte(SizeOf(p))
                             \/ \E i \in 1 .. SizeOf(p) : b = PacketByte(p, i)
<1>1. CASE b \in [size : {SizeOf(p) : p \in Packet}]
  BY <1>1 DEF SizeByte
<1>2. CASE b \in UNION {[packet : {p}, position : 1 .. SizeOf(p)] : p \in Packet}
  <2>1. PICK p \in Packet : b \in [packet : {p}, position : 1 .. SizeOf(p)]
    BY <1>2
  <2>2. b.position \in 1 .. SizeOf(p) /\ b = PacketByte(p, b.position)
    BY <2>1 DEF PacketByte
  <2> QED
    BY <2>2
<1> QED
  BY <1>1, <1>2 DEF Byte

\* The last byte of a notification names it.
LEMMA LastByteNames ==
    ASSUME NEW b \in Byte, IsLastByte(b)
    PROVE  b.packet.id \in Notification
<1>1. PICK p \in Packet : \/ b = SizeByte(SizeOf(p))
                          \/ \E i \in 1 .. SizeOf(p) : b = PacketByte(p, i)
  BY BytesAreOfPackets
<1>2. b # SizeByte(SizeOf(p))
  BY BytesOfAPacket
<1>3. PICK i \in 1 .. SizeOf(p) : b = PacketByte(p, i)
  BY <1>1, <1>2
<1>4. b.packet = p /\ p.type = "DATA"
  BY <1>3, BytesOfAPacket
<1> QED
  BY <1>4, Packets

\* The body of a packet: its bytes, the last of which alone ends it.
LEMMA BodyOfAPacket ==
    ASSUME NEW p \in Packet
    PROVE  /\ Body(p) \in Seq(Byte) /\ Len(Body(p)) = SizeOf(p) /\ DOMAIN Body(p) = 1 .. SizeOf(p)
           /\ \A i \in 1 .. SizeOf(p) :
                /\ Body(p)[i] = PacketByte(p, i)
                /\ EndsPacket(Body(p)[i]) <=> i = SizeOf(p)
                /\ IsLastByte(Body(p)[i]) <=> p.type = "DATA" /\ i = SizeOf(p)
<1>1. SizeOf(p) \in Nat
  BY Sizes
<1>2. /\ DOMAIN Body(p) = 1 .. SizeOf(p)
      /\ \A i \in 1 .. SizeOf(p) : Body(p)[i] = PacketByte(p, i)
  BY DEF Body
<1>3. Body(p) \in [1 .. SizeOf(p) -> Byte]
  BY BytesOfAPacket DEF Body
<1>4. Body(p) \in Seq(Byte)
  BY <1>1, <1>3, SeqDef
<1>5. Len(Body(p)) = SizeOf(p)
  BY <1>1, <1>2, <1>4, LenProperties
<1> QED
  BY <1>2, <1>4, <1>5, BytesOfAPacket

\* The same of the whole packet, the size field in front.
LEMMA SerializedPacket ==
    ASSUME NEW p \in Packet
    PROVE  /\ Serialize(p) \in Seq(Byte)
           /\ Len(Serialize(p)) = sizeFieldLength + SizeOf(p)
           /\ DOMAIN Serialize(p) = 1 .. sizeFieldLength + SizeOf(p)
           /\ \A i \in 1 .. sizeFieldLength : Serialize(p)[i] = SizeByte(SizeOf(p))
           /\ \A i \in 1 .. SizeOf(p) : Serialize(p)[sizeFieldLength + i] = PacketByte(p, i)
           /\ \A i \in 1 .. sizeFieldLength + SizeOf(p) :
                /\ EndsPacket(Serialize(p)[i]) <=> i = sizeFieldLength + SizeOf(p)
                /\ IsLastByte(Serialize(p)[i])
                     <=> p.type = "DATA" /\ i = sizeFieldLength + SizeOf(p)
<1> DEFINE sizes == [i \in 1 .. sizeFieldLength |-> SizeByte(SizeOf(p))]
           body == Body(p)
<1>1. sizeFieldLength \in Nat /\ sizeFieldLength > 0 /\ SizeOf(p) \in Nat /\ SizeOf(p) > 0
  BY Sizes
<1>2. sizes \in [1 .. sizeFieldLength -> Byte] /\ DOMAIN sizes = 1 .. sizeFieldLength
  BY BytesOfAPacket
<1>3. \A i \in 1 .. sizeFieldLength : sizes[i] = SizeByte(SizeOf(p))
  OBVIOUS
<1>4. Serialize(p) = sizes \o body
  BY DEF Serialize
<1> HIDE DEF sizes, body
<1>5. sizes \in Seq(Byte)
  BY <1>1, <1>2, SeqDef
<1>6. Len(sizes) = sizeFieldLength
  BY <1>1, <1>2, <1>5, LenProperties
<1>7. body \in Seq(Byte) /\ Len(body) = SizeOf(p)
      /\ \A i \in 1 .. SizeOf(p) : body[i] = PacketByte(p, i)
  BY BodyOfAPacket DEF body
<1>8. /\ sizes \o body \in Seq(Byte)
      /\ Len(sizes \o body) = sizeFieldLength + SizeOf(p)
      /\ \A i \in 1 .. sizeFieldLength + SizeOf(p) : (sizes \o body)[i] =
              IF i <= sizeFieldLength THEN sizes[i] ELSE body[i - sizeFieldLength]
  <2>1. /\ sizes \o body \in Seq(Byte)
        /\ Len(sizes \o body) = Len(sizes) + Len(body)
        /\ \A i \in 1 .. Len(sizes) + Len(body) : (sizes \o body)[i] =
                IF i <= Len(sizes) THEN sizes[i] ELSE body[i - Len(sizes)]
    BY <1>5, <1>7, ConcatProperties
  <2> QED
    BY <1>6, <1>7, <2>1
<1> DEFINE s == Serialize(p)
<1> HIDE DEF s
<1>9. /\ s \in Seq(Byte) /\ Len(s) = sizeFieldLength + SizeOf(p)
      /\ DOMAIN s = 1 .. sizeFieldLength + SizeOf(p)
  BY <1>4, <1>8, LenProperties DEF s
<1>10. \A i \in 1 .. sizeFieldLength : s[i] = SizeByte(SizeOf(p))
  BY <1>1, <1>3, <1>4, <1>8 DEF s
<1>11. ASSUME NEW i \in 1 .. SizeOf(p)
       PROVE  s[sizeFieldLength + i] = PacketByte(p, i)
  <2>1. /\ sizeFieldLength + i \in 1 .. sizeFieldLength + SizeOf(p)
        /\ ~(sizeFieldLength + i <= sizeFieldLength) /\ sizeFieldLength + i - sizeFieldLength = i
    BY <1>1
  <2> DEFINE k == sizeFieldLength + i
  <2>2. k \in 1 .. sizeFieldLength + SizeOf(p) /\ ~(k <= sizeFieldLength) /\ k - sizeFieldLength = i
    BY <1>1, <2>1
  <2> HIDE DEF k
  <2>3. s[k] = body[k - sizeFieldLength]
    BY <1>4, <1>8, <2>2 DEF s
  <2>4. s[k] = PacketByte(p, i)
    BY <1>7, <2>2, <2>3
  <2> QED
    BY <2>4 DEF k
<1>12. ASSUME NEW i \in 1 .. sizeFieldLength + SizeOf(p)
       PROVE  /\ EndsPacket(s[i]) <=> i = sizeFieldLength + SizeOf(p)
              /\ IsLastByte(s[i]) <=> p.type = "DATA" /\ i = sizeFieldLength + SizeOf(p)
  <2>1. CASE i <= sizeFieldLength
    <3>1. s[i] = SizeByte(SizeOf(p)) /\ i # sizeFieldLength + SizeOf(p)
      BY <1>1, <1>10, <2>1
    <3> QED
      BY <3>1, BytesOfAPacket
  <2>2. CASE ~(i <= sizeFieldLength)
    <3> DEFINE j == i - sizeFieldLength
    <3>1. j \in 1 .. SizeOf(p) /\ sizeFieldLength + j = i
          /\ (j = SizeOf(p) <=> i = sizeFieldLength + SizeOf(p))
      BY <1>1, <2>2
    <3> HIDE DEF j
    <3>2. s[i] = PacketByte(p, j)
      BY <1>11, <3>1
    <3> QED
      BY <3>1, <3>2, BytesOfAPacket
  <2> QED
    BY <2>1, <2>2
<1> QED
  BY <1>9, <1>10, <1>11, <1>12 DEF s
-----------------------------------------------------------------------------
(* Sequences that are cut and put together.                                *)

\* What is left of a sequence without its first n entries, and its first n entries.
LEMMA Cut ==
    ASSUME NEW T, NEW b \in Seq(T), NEW n \in 0 .. Len(b)
    PROVE  /\ SubSeq(b, n + 1, Len(b)) \in Seq(T)
           /\ Len(SubSeq(b, n + 1, Len(b))) = Len(b) - n
           /\ \A i \in 1 .. Len(b) - n : SubSeq(b, n + 1, Len(b))[i] = b[n + i]
           /\ SubSeq(b, 1, n) \in Seq(T)
           /\ Len(SubSeq(b, 1, n)) = n
           /\ \A i \in 1 .. n : SubSeq(b, 1, n)[i] = b[i]
<1> DEFINE m == Len(b)
           d == SubSeq(b, n + 1, m)
           f == SubSeq(b, 1, n)
<1>1. m \in Nat /\ n \in Nat /\ n <= m
  BY LenProperties
<1>2. \A i \in 1 .. m : b[i] \in T
  BY ElementOfSeq
<1> HIDE DEF m
<1>3. /\ d \in Seq(T)
      /\ Len(d) = IF n + 1 <= m THEN m - (n + 1) + 1 ELSE 0
      /\ \A i \in 1 .. m - (n + 1) + 1 : d[i] = b[n + 1 + i - 1]
  <2>1. \A i \in n + 1 .. m : b[i] \in T
    BY <1>1, <1>2
  <2> QED
    BY <1>1, <2>1, SubSeqProperties
<1>4. /\ f \in Seq(T)
      /\ Len(f) = IF 1 <= n THEN n - 1 + 1 ELSE 0
      /\ \A i \in 1 .. n - 1 + 1 : f[i] = b[1 + i - 1]
  <2>1. \A i \in 1 .. n : b[i] \in T
    BY <1>1, <1>2
  <2> QED
    BY <1>1, <2>1, SubSeqProperties
<1> HIDE DEF d, f
<1>5. Len(d) = m - n /\ Len(f) = n
  BY <1>1, <1>3, <1>4
<1>6. ASSUME NEW i \in 1 .. m - n
      PROVE  d[i] = b[n + i]
  <2>1. i \in 1 .. m - (n + 1) + 1 /\ n + 1 + i - 1 = n + i
    BY <1>1
  <2> QED
    BY <1>3, <2>1
<1>7. ASSUME NEW i \in 1 .. n
      PROVE  f[i] = b[i]
  <2>1. i \in 1 .. n - 1 + 1 /\ 1 + i - 1 = i
    BY <1>1
  <2> QED
    BY <1>4, <2>1
<1> QED
  BY <1>3, <1>4, <1>5, <1>6, <1>7 DEF d, f, m

\* One sequence behind another: where each entry stands.
LEMMA Joined ==
    ASSUME NEW T, NEW a \in Seq(T), NEW b \in Seq(T)
    PROVE  /\ a \o b \in Seq(T)
           /\ Len(a \o b) = Len(a) + Len(b)
           /\ Len(a) \in Nat /\ Len(b) \in Nat
           /\ \A i \in 1 .. Len(a) : (a \o b)[i] = a[i]
           /\ \A i \in 1 .. Len(b) : (a \o b)[Len(a) + i] = b[i]
<1> DEFINE c == a \o b
           m == Len(a)
           n == Len(b)
<1>1. /\ c \in Seq(T) /\ Len(c) = m + n
      /\ \A i \in 1 .. m + n : c[i] = IF i <= m THEN a[i] ELSE b[i - m]
  BY ConcatProperties
<1>2. m \in Nat /\ n \in Nat
  BY LenProperties
<1> HIDE DEF c, m, n
<1>3. \A i \in 1 .. m : c[i] = a[i]
  BY <1>1, <1>2
<1>4. ASSUME NEW i \in 1 .. n
      PROVE  c[m + i] = b[i]
  <2> DEFINE k == m + i
  <2>1. k \in 1 .. m + n /\ ~(k <= m) /\ k - m = i
    BY <1>2
  <2> HIDE DEF k
  <2>2. c[k] = b[i]
    BY <1>1, <2>1
  <2> QED
    BY <2>2 DEF k
<1> QED
  BY <1>1, <1>2, <1>3, <1>4 DEF c, m, n

\* Joining three sequences, it does not matter which two come first.
LEMMA JoiningThree ==
    ASSUME NEW T
    PROVE  \A x, y, z \in Seq(T) : (x \o y) \o z = x \o (y \o z)
  BY ConcatAssociative

\* Moving the front of what is behind to the end of what is before changes nothing.
LEMMA MovedPiece ==
    ASSUME NEW T, NEW a \in Seq(T), NEW b \in Seq(T), NEW n \in 0 .. Len(b)
    PROVE  /\ a \o SubSeq(b, 1, n) \in Seq(T)
           /\ Len(a \o SubSeq(b, 1, n)) = Len(a) + n
           /\ (a \o SubSeq(b, 1, n)) \o SubSeq(b, n + 1, Len(b)) = a \o b
<1> DEFINE f == SubSeq(b, 1, n)
           d == SubSeq(b, n + 1, Len(b))
<1>1. f \in Seq(T) /\ d \in Seq(T) /\ Len(f) = n /\ Len(d) = Len(b) - n
  BY Cut
<1>2. n \in Nat /\ Len(b) \in Nat
  BY LenProperties
<1> HIDE DEF f, d
<1>3. f \o d = b
  <2>1. /\ f \o d \in Seq(T)
        /\ Len(f \o d) = Len(f) + Len(d)
        /\ \A i \in 1 .. Len(f) : (f \o d)[i] = f[i]
        /\ \A i \in 1 .. Len(d) : (f \o d)[Len(f) + i] = d[i]
    BY <1>1, Joined
  <2>2. \A i \in 1 .. n : f[i] = b[i]
    BY Cut DEF f
  <2>3. \A i \in 1 .. Len(b) - n : d[i] = b[n + i]
    BY Cut DEF d
  <2>4. Len(f \o d) = Len(b)
    BY <1>1, <1>2, <2>1
  <2>5. ASSUME NEW i \in 1 .. Len(b)
        PROVE  (f \o d)[i] = b[i]
    <3>1. CASE i <= n
      BY <1>1, <1>2, <2>1, <2>2, <3>1
    <3>2. CASE ~(i <= n)
      <4> DEFINE j == i - n
      <4>1. j \in 1 .. Len(b) - n /\ n + j = i
        BY <1>2, <3>2
      <4> HIDE DEF j
      <4>2. (f \o d)[n + j] = d[j] /\ d[j] = b[n + j]
        BY <1>1, <2>1, <2>3, <4>1
      <4> QED
        BY <4>1, <4>2
    <3> QED
      BY <3>1, <3>2
  <2> DEFINE e == f \o d
  <2> HIDE DEF e
  <2>6. e \in Seq(T) /\ Len(e) = Len(b) /\ \A i \in 1 .. Len(e) : e[i] = b[i]
    BY <2>1, <2>4, <2>5 DEF e
  <2>7. e = b
    BY <2>6, SeqEqual
  <2> QED
    BY <2>7 DEF e
<1>4. (a \o f) \o d = a \o (f \o d)
  <2>1. \A x, y, z \in Seq(T) : (x \o y) \o z = x \o (y \o z)
    BY JoiningThree
  <2> QED
    BY <1>1, <2>1
<1>5. a \o f \in Seq(T) /\ Len(a \o f) = Len(a) + n
  <2>1. a \o f \in Seq(T) /\ Len(a \o f) = Len(a) + Len(f)
    BY <1>1, Joined
  <2> QED
    BY <1>1, <2>1
<1> QED
  BY <1>3, <1>4, <1>5 DEF f, d

\* What follows in a sequence follows in each part that is cut out of it.
LEMMA FollowsInParts ==
    ASSUME NEW T, NEW b \in Seq(T), NEW n \in 0 .. Len(b), NEW t \in Seq(T), NEW i \in Nat
    PROVE  /\ Follows(b, n + i, t) => Follows(SubSeq(b, n + 1, Len(b)), i, t)
           /\ Follows(b, i, t) => Follows(SubSeq(b, 1, n), i, t)
<1> DEFINE d == SubSeq(b, n + 1, Len(b))
           f == SubSeq(b, 1, n)
<1>1. /\ d \in Seq(T) /\ f \in Seq(T) /\ Len(f) = n /\ Len(d) = Len(b) - n
      /\ \A k \in 1 .. Len(b) - n : d[k] = b[n + k]
      /\ \A k \in 1 .. n : f[k] = b[k]
  BY Cut
<1> HIDE DEF d, f
<1>2. /\ Len(b) \in Nat /\ n \in Nat /\ n <= Len(b) /\ Len(t) \in Nat
      /\ DOMAIN b = 1 .. Len(b) /\ DOMAIN t = 1 .. Len(t)
      /\ DOMAIN d = 1 .. Len(b) - n /\ DOMAIN f = 1 .. n
  BY <1>1, LenProperties
<1>3. ASSUME Follows(b, n + i, t)
      PROVE  Follows(d, i, t)
  <2> SUFFICES ASSUME NEW j \in DOMAIN t, i + j \in DOMAIN d
               PROVE  d[i + j] = t[j]
    BY DEF Follows
  <2>1. i + j \in 1 .. Len(b) - n
    BY <1>2
  <2>2. n + i + j \in DOMAIN b /\ n + i + j = n + (i + j)
    BY <1>2, <2>1
  <2>3. b[n + i + j] = t[j]
    BY <1>3, <2>2 DEF Follows
  <2>4. d[i + j] = b[n + (i + j)]
    BY <1>1, <2>1
  <2> QED
    BY <2>2, <2>3, <2>4
<1>4. ASSUME Follows(b, i, t)
      PROVE  Follows(f, i, t)
  <2> SUFFICES ASSUME NEW j \in DOMAIN t, i + j \in DOMAIN f
               PROVE  f[i + j] = t[j]
    BY DEF Follows
  <2>1. i + j \in 1 .. n /\ i + j \in DOMAIN b
    BY <1>2
  <2>2. b[i + j] = t[j]
    BY <1>4, <2>1 DEF Follows
  <2> QED
    BY <1>1, <2>1, <2>2
<1> QED
  BY <1>3, <1>4 DEF d, f
-----------------------------------------------------------------------------
(* The notifications among some bytes.                                     *)

NotificationEnd == {b \in Byte : IsLastByte(b)}

\* Last bytes as a sequence of their own.
LEMMA EndsAreSequence ==
    ASSUME NEW b \in Seq(Byte), NEW S \in SUBSET LastBytes(b)
    PROVE  /\ S \in SUBSET (1 .. Len(b))
           /\ Entries(b, S) \in Seq(NotificationEnd)
<1>1. /\ Len(b) \in Nat /\ DOMAIN b = 1 .. Len(b)
      /\ \A i \in DOMAIN b : b[i] \in Byte
  BY LenProperties, ElementOfSeq
<1>2. S \in SUBSET (1 .. Len(b)) /\ \A i \in S : b[i] \in NotificationEnd
  BY <1>1 DEF LastBytes, NotificationEnd
<1> DEFINE e == Entries(b, S)
<1>3. /\ e \in Seq(Byte)
      /\ \A k \in DOMAIN e : \E i \in S : e[k] = b[i]
  BY <1>2, EntriesAreSequence
<1> HIDE DEF e
<1>4. Len(e) \in Nat /\ DOMAIN e = 1 .. Len(e) /\ e \in [1 .. Len(e) -> Byte]
  BY <1>3, LenProperties
<1>5. e \in [1 .. Len(e) -> NotificationEnd]
  BY <1>2, <1>3, <1>4
<1>6. e \in Seq(NotificationEnd)
  BY <1>4, <1>5, SeqDef
<1> QED
  BY <1>2, <1>6 DEF e

\* Ids is a sequence of notifications, as long as that of their last bytes.
LEMMA IdsOfEnds ==
    ASSUME NEW e \in Seq(NotificationEnd)
    PROVE  /\ Ids(e) \in Seq(Notification)
           /\ Len(Ids(e)) = Len(e) /\ Len(e) \in Nat
           /\ \A i \in 1 .. Len(e) : Ids(e)[i] = e[i].packet.id /\ e[i] \in NotificationEnd
<1>1. Len(e) \in Nat /\ DOMAIN e = 1 .. Len(e) /\ \A i \in 1 .. Len(e) : e[i] \in NotificationEnd
  BY LenProperties, ElementOfSeq
<1>2. \A b \in NotificationEnd : b.packet.id \in Notification
  BY LastByteNames DEF NotificationEnd
<1> HIDE DEF Notification
<1>3. Ids(e) = [i \in 1 .. Len(e) |-> e[i].packet.id]
  BY <1>1 DEF Ids
<1>4. Ids(e) \in [1 .. Len(e) -> Notification]
  BY <1>1, <1>2, <1>3
<1>5. Ids(e) \in Seq(Notification)
  BY <1>1, <1>4, SeqDef
<1>6. DOMAIN Ids(e) = 1 .. Len(e)
  BY <1>3
<1>7. Len(Ids(e)) = Len(e)
  BY <1>1, <1>5, <1>6, LenProperties
<1> QED
  BY <1>1, <1>3, <1>5, <1>7

\* One more last byte is one more notification.
LEMMA IdsOfAppend ==
    ASSUME NEW e \in Seq(NotificationEnd), NEW b \in NotificationEnd
    PROVE  Ids(Append(e, b)) = Append(Ids(e), b.packet.id)
<1> HIDE DEF Notification
<1> DEFINE f == Append(e, b)
           id == b.packet.id
           x == Ids(f)
           y == Append(Ids(e), id)
<1>1. id \in Notification
  BY LastByteNames DEF NotificationEnd
<1>2. /\ f \in Seq(NotificationEnd) /\ Len(f) = Len(e) + 1
      /\ \A i \in 1 .. Len(e) : f[i] = e[i]
      /\ f[Len(e) + 1] = b
  BY AppendProperties
<1>3. /\ Ids(e) \in Seq(Notification) /\ Len(Ids(e)) = Len(e) /\ Len(e) \in Nat
      /\ \A i \in 1 .. Len(e) : Ids(e)[i] = e[i].packet.id
  BY IdsOfEnds
<1> HIDE DEF f
<1>4. /\ x \in Seq(Notification) /\ Len(x) = Len(f)
      /\ \A i \in 1 .. Len(f) : x[i] = f[i].packet.id
  BY <1>2, IdsOfEnds
<1>5. /\ y \in Seq(Notification) /\ Len(y) = Len(e) + 1
      /\ \A i \in 1 .. Len(e) : y[i] = Ids(e)[i]
      /\ y[Len(e) + 1] = id
  <2> HIDE DEF id
  <2>1. /\ y \in Seq(Notification) /\ Len(y) = Len(Ids(e)) + 1
        /\ \A i \in 1 .. Len(Ids(e)) : y[i] = Ids(e)[i]
        /\ y[Len(Ids(e)) + 1] = id
    BY <1>1, <1>3, AppendProperties
  <2> QED
    BY <1>3, <2>1
<1> HIDE DEF x, y
<1>6. \A i \in 1 .. Len(e) + 1 : x[i] = y[i]
  <2> SUFFICES ASSUME NEW i \in 1 .. Len(e) + 1
               PROVE  x[i] = y[i]
    OBVIOUS
  <2>1. CASE i = Len(e) + 1
    BY <1>2, <1>4, <1>5, <2>1
  <2>2. CASE i # Len(e) + 1
    <3>1. i \in 1 .. Len(e)
      BY <1>3, <2>2
    <3> QED
      BY <1>2, <1>3, <1>4, <1>5, <3>1
  <2> QED
    BY <2>1, <2>2
<1>7. x = y
  BY <1>2, <1>4, <1>5, <1>6, SeqEqual
<1> QED
  BY <1>7 DEF x, y, f

\* Without its first last byte a sequence is without its first notification.
LEMMA IdsOfTail ==
    ASSUME NEW e \in Seq(NotificationEnd), e # <<>>
    PROVE  /\ Ids(e) # <<>>
           /\ Head(Ids(e)) = Head(e).packet.id
           /\ Tail(Ids(e)) = Ids(Tail(e))
<1> HIDE DEF Notification
<1> DEFINE f == Tail(e)
           x == Ids(f)
           y == Tail(Ids(e))
<1>1. /\ Ids(e) \in Seq(Notification) /\ Len(Ids(e)) = Len(e) /\ Len(e) \in Nat
      /\ \A i \in 1 .. Len(e) : Ids(e)[i] = e[i].packet.id
  BY IdsOfEnds
<1>2. Len(e) > 0 /\ Ids(e) # <<>>
  BY <1>1, EmptySeq
<1>3. /\ f \in Seq(NotificationEnd) /\ Len(f) = Len(e) - 1
      /\ \A i \in 1 .. Len(f) : f[i] = e[i + 1]
  BY HeadTailProperties
<1> HIDE DEF f
<1>4. /\ x \in Seq(Notification) /\ Len(x) = Len(f)
      /\ \A i \in 1 .. Len(f) : x[i] = f[i].packet.id
  BY <1>3, IdsOfEnds
<1>5. /\ y \in Seq(Notification) /\ Len(y) = Len(Ids(e)) - 1
      /\ \A i \in 1 .. Len(y) : y[i] = Ids(e)[i + 1]
  BY <1>1, <1>2, HeadTailProperties
<1> HIDE DEF x, y
<1>6. Len(x) = Len(y)
  BY <1>1, <1>3, <1>4, <1>5
<1>7. \A i \in 1 .. Len(x) : x[i] = y[i]
  <2> SUFFICES ASSUME NEW i \in 1 .. Len(x)
               PROVE  x[i] = y[i]
    OBVIOUS
  <2>1. i + 1 \in 1 .. Len(e) /\ i \in 1 .. Len(f) /\ i \in 1 .. Len(y)
    BY <1>1, <1>3, <1>4, <1>6
  <2>2. x[i] = e[i + 1].packet.id
    BY <1>3, <1>4, <2>1
  <2>3. y[i] = e[i + 1].packet.id
    BY <1>1, <1>5, <2>1
  <2> QED
    BY <2>2, <2>3
<1>8. x = y
  BY <1>4, <1>5, <1>6, <1>7, SeqEqual
<1>9. Head(Ids(e)) = Head(e).packet.id
  <2>1. Head(Ids(e)) = Ids(e)[1] /\ Head(e) = e[1] /\ 1 \in 1 .. Len(e)
    BY <1>1, <1>2
  <2> QED
    BY <1>1, <2>1
<1> QED
  BY <1>2, <1>8, <1>9 DEF x, y, f

\* The first k last bytes are those of the first k notifications.
LEMMA IdsOfPrefix ==
    ASSUME NEW e \in Seq(NotificationEnd), NEW k \in 0 .. Len(e)
    PROVE  /\ Ids(SubSeq(e, 1, k)) = SubSeq(Ids(e), 1, k)
           /\ k \in 0 .. Len(Ids(e))
<1> HIDE DEF Notification
<1> DEFINE f == SubSeq(e, 1, k)
           x == Ids(f)
           y == SubSeq(Ids(e), 1, k)
<1>1. /\ Ids(e) \in Seq(Notification) /\ Len(Ids(e)) = Len(e) /\ Len(e) \in Nat
      /\ \A i \in 1 .. Len(e) : Ids(e)[i] = e[i].packet.id
  BY IdsOfEnds
<1>2. k \in 0 .. Len(Ids(e))
  BY <1>1
<1>3. /\ f \in Seq(NotificationEnd) /\ Len(f) = k
      /\ \A i \in 1 .. k : f[i] = e[i]
  BY Cut
<1> HIDE DEF f
<1>4. /\ x \in Seq(Notification) /\ Len(x) = k
      /\ \A i \in 1 .. k : x[i] = f[i].packet.id
  BY <1>3, IdsOfEnds
<1>5. /\ y \in Seq(Notification) /\ Len(y) = k
      /\ \A i \in 1 .. k : y[i] = Ids(e)[i]
  BY <1>1, <1>2, Cut
<1> HIDE DEF x, y
<1>6. \A i \in 1 .. k : x[i] = y[i]
  <2> SUFFICES ASSUME NEW i \in 1 .. k
               PROVE  x[i] = y[i]
    OBVIOUS
  <2>1. i \in 1 .. Len(e)
    BY <1>1
  <2> QED
    BY <1>1, <1>3, <1>4, <1>5, <2>1
<1>7. x = y
  BY <1>4, <1>5, <1>6, SeqEqual
<1> QED
  BY <1>2, <1>7 DEF x, y, f

\* The last bytes of packets behind the first n bytes.
EndsBehind(b, n) == {i \in LastBytes(b) : n < i}

\* The last bytes behind the first n are those of what is left without these n.
LEMMA EndsOfTheRest ==
    ASSUME NEW b \in Seq(Byte), NEW n \in 0 .. Len(b)
    PROVE  LET d == SubSeq(b, n + 1, Len(b))
           IN  Entries(b, EndsBehind(b, n)) = Entries(d, LastBytes(d))
<1> DEFINE d == SubSeq(b, n + 1, Len(b))
           S == LastBytes(d)
           m == Len(d)
<1>1. /\ d \in Seq(Byte) /\ Len(d) = Len(b) - n
      /\ \A i \in 1 .. Len(b) - n : d[i] = b[n + i]
  BY Cut
<1> HIDE DEF d
<1>2. /\ DOMAIN d = 1 .. Len(b) - n /\ DOMAIN b = 1 .. Len(b)
      /\ Len(b) \in Nat /\ n \in Nat /\ n <= Len(b) /\ m \in Nat
  BY <1>1, LenProperties
<1>3. S \in SUBSET (1 .. m)
  BY <1>1, <1>2 DEF LastBytes
<1>4. \A i \in S : b[i + n] = d[i] /\ i \in 1 .. Len(b) - n
  <2> SUFFICES ASSUME NEW i \in S
               PROVE  b[i + n] = d[i] /\ i \in 1 .. Len(b) - n
    OBVIOUS
  <2>1. i \in 1 .. Len(b) - n
    BY <1>2 DEF LastBytes
  <2>2. i + n = n + i
    BY <1>2, <2>1
  <2> QED
    BY <1>1, <2>1, <2>2
<1>5. EndsBehind(b, n) = Moved(S, n)
  <2>1. ASSUME NEW j \in LastBytes(b), n < j
        PROVE  \E i \in S : j = i + n
    <3>1. j \in 1 .. Len(b) /\ IsLastByte(b[j])
      BY <1>2 DEF LastBytes
    <3> DEFINE i == j - n
    <3>2. i \in 1 .. Len(b) - n /\ n + i = j /\ j = i + n
      BY <1>2, <2>1, <3>1
    <3> HIDE DEF i
    <3>3. i \in S
      BY <1>1, <1>2, <3>1, <3>2 DEF LastBytes
    <3> QED
      BY <3>2, <3>3
  <2>2. ASSUME NEW i \in S
        PROVE  i + n \in LastBytes(b) /\ n < i + n
    <3>1. i + n \in DOMAIN b /\ n < i + n
      BY <1>2, <1>4
    <3>2. IsLastByte(d[i]) /\ b[i + n] = d[i]
      BY <1>4 DEF LastBytes
    <3>3. IsLastByte(b[i + n])
      BY <3>2
    <3> QED
      BY <3>1, <3>3 DEF LastBytes
  <2> QED
    BY <2>1, <2>2 DEF Moved, EndsBehind
<1> HIDE DEF S, m
<1>6. Entries(b, Moved(S, n)) = Entries(d, S)
  <2>1. m \in Nat /\ n \in Nat /\ S \in SUBSET (1 .. m)
    BY <1>2, <1>3
  <2>2. \A i \in S : b[i + n] = d[i]
    BY <1>4
  <2>3. Shifted(d, b, m, n, S)
    BY <2>1, <2>2 DEF Shifted
  <2> QED
    BY <2>3, EntriesMoved
<1> QED
  BY <1>5, <1>6 DEF d, S

\* Bytes without the end of a notification are received: the same are still to come.
LEMMA ArrivingWithoutAnEnd ==
    ASSUME NEW b \in Seq(Byte), NEW n \in 0 .. Len(b),
           \A i \in 1 .. n : ~IsLastByte(b[i])
    PROVE  Arriving(SubSeq(b, n + 1, Len(b))) = Arriving(b)
<1>1. n \in Nat /\ Len(b) \in Nat /\ DOMAIN b = 1 .. Len(b)
  BY LenProperties
<1>2. LastBytes(b) = EndsBehind(b, n)
  BY <1>1 DEF EndsBehind, LastBytes
<1> QED
  BY <1>2, EndsOfTheRest DEF Arriving

\* Bytes up to the first end of a notification are received: that one has arrived,
\* the others are still to come.
LEMMA ArrivingWithAnEnd ==
    ASSUME NEW b \in Seq(Byte), NEW n \in 1 .. Len(b), IsLastByte(b[n]),
           \A i \in 1 .. n - 1 : ~IsLastByte(b[i])
    PROVE  /\ Arriving(b) # <<>>
           /\ Head(Arriving(b)) = b[n].packet.id
           /\ Arriving(SubSeq(b, n + 1, Len(b))) = Tail(Arriving(b))
<1> DEFINE d == SubSeq(b, n + 1, Len(b))
           S == LastBytes(d)
           E == LastBytes(b)
           e == Entries(b, E)
<1>1. n \in 0 .. Len(b) /\ n \in Nat /\ Len(b) \in Nat /\ DOMAIN b = 1 .. Len(b)
  BY LenProperties
<1>2. n \in E
  BY <1>1 DEF LastBytes
<1>3. ASSUME NEW j \in E
      PROVE  n <= j /\ j \in Nat
  <2>1. j \in 1 .. Len(b) /\ IsLastByte(b[j])
    BY <1>1 DEF LastBytes
  <2>2. j \notin 1 .. n - 1
    BY <2>1
  <2> QED
    BY <1>1, <2>1, <2>2
<1>4. E \ {n} = EndsBehind(b, n)
  BY <1>1, <1>3 DEF EndsBehind
<1>5. Entries(b, EndsBehind(b, n)) = Entries(d, S)
  BY <1>1, EndsOfTheRest
<1>6. E \in SUBSET (1 .. Len(b)) /\ Entries(b, E) \in Seq(NotificationEnd)
  BY EndsAreSequence
<1> HIDE DEF S, E, d
<1>7. e # <<>> /\ Head(e) = b[n] /\ Tail(e) = Entries(b, E \ {n})
  BY <1>2, <1>3, <1>6, EntriesHeadAndTail
<1>8. e \in Seq(NotificationEnd)
  BY <1>6
<1> HIDE DEF e
<1>9. Ids(e) # <<>> /\ Head(Ids(e)) = Head(e).packet.id /\ Tail(Ids(e)) = Ids(Tail(e))
  BY <1>7, <1>8, IdsOfTail
<1>10. Arriving(b) = Ids(e) /\ Arriving(d) = Ids(Entries(d, S))
  BY DEF Arriving, e, E, S
<1>11. Head(Arriving(b)) = b[n].packet.id /\ Arriving(b) # <<>>
  BY <1>7, <1>9, <1>10
<1>12. Arriving(d) = Tail(Arriving(b))
  BY <1>4, <1>5, <1>7, <1>9, <1>10
<1> QED
  BY <1>11, <1>12 DEF d

\* The last bytes are lost: so are, if any, the last notifications.
LEMMA ArrivingOfPrefix ==
    ASSUME NEW b \in Seq(Byte), NEW n \in 0 .. Len(b)
    PROVE  /\ Arriving(b) \in Seq(Notification)
           /\ \E k \in 0 .. Len(Arriving(b)) :
                 Arriving(SubSeq(b, 1, n)) = SubSeq(Arriving(b), 1, k)
<1> DEFINE f == SubSeq(b, 1, n)
           S == LastBytes(f)
           E == LastBytes(b)
<1>1. /\ f \in Seq(Byte) /\ Len(f) = n
      /\ \A i \in 1 .. n : f[i] = b[i]
  BY Cut
<1> HIDE DEF f
<1>2. /\ DOMAIN f = 1 .. n /\ DOMAIN b = 1 .. Len(b)
      /\ Len(b) \in Nat /\ n \in Nat /\ n <= Len(b)
  BY <1>1, LenProperties
<1>3. S \in SUBSET (1 .. n)
  BY <1>2 DEF LastBytes
<1>4. \A i \in S : b[i] = f[i]
  BY <1>1, <1>3
<1>5. UpTo(E, n) = S
  <2>1. \A i \in 1 .. n : i \in 1 .. Len(b) /\ (i \in E <=> i \in S)
    BY <1>1, <1>2 DEF LastBytes
  <2>2. \A i \in E : i <= n <=> i \in 1 .. n
    BY <1>2 DEF LastBytes
  <2>3. \A i \in S : i \in E /\ i <= n
    BY <1>2, <1>3, <2>1
  <2> QED
    BY <2>1, <2>2, <2>3 DEF UpTo
<1>6. E \in SUBSET (1 .. Len(b)) /\ Entries(b, E) \in Seq(NotificationEnd)
  BY EndsAreSequence
<1> HIDE DEF S, E
<1>7. Entries(b, UpTo(E, n)) = Entries(f, S)
  <2>1. Entries(b, S) = Entries(f, S)
    BY <1>2, <1>3, <1>4, EntriesAgree
  <2> QED
    BY <1>5, <2>1
<1> DEFINE e == Entries(b, E)
<1>8. \E k \in 0 .. Len(e) : Entries(b, UpTo(E, n)) = SubSeq(e, 1, k)
  BY <1>2, <1>6, EntriesPrefix
<1>9. e \in Seq(NotificationEnd)
  BY <1>6
<1> HIDE DEF e
<1> PICK k \in 0 .. Len(e) : Entries(b, UpTo(E, n)) = SubSeq(e, 1, k)
  BY <1>8
<1>10. Ids(SubSeq(e, 1, k)) = SubSeq(Ids(e), 1, k) /\ k \in 0 .. Len(Ids(e))
  BY <1>9, IdsOfPrefix
<1>11. Ids(e) \in Seq(Notification)
  BY <1>9, IdsOfEnds
<1>12. Arriving(b) = Ids(e) /\ Arriving(f) = Ids(Entries(f, S))
  BY DEF Arriving, e, E, S
<1>13. Arriving(f) = SubSeq(Arriving(b), 1, k)
  BY <1>7, <1>10, <1>12
<1>14. Arriving(b) \in Seq(Notification) /\ k \in 0 .. Len(Arriving(b))
  BY <1>10, <1>11, <1>12
<1> QED
  BY <1>13, <1>14 DEF f

\* A packet is sent behind the other bytes.
LEMMA PacketBehind ==
    ASSUME NEW b \in Seq(Byte), NEW p \in Packet
    PROVE  /\ b \o Serialize(p) \in Seq(Byte)
           /\ Len(b \o Serialize(p)) = Len(b) + (sizeFieldLength + SizeOf(p))
           /\ \A i \in 1 .. Len(b) : (b \o Serialize(p))[i] = b[i]
           /\ \A i \in 1 .. sizeFieldLength + SizeOf(p) :
                 (b \o Serialize(p))[Len(b) + i] = Serialize(p)[i]
<1> DEFINE t == Serialize(p)
<1>1. t \in Seq(Byte) /\ Len(t) = sizeFieldLength + SizeOf(p)
  BY SerializedPacket
<1> HIDE DEF t
<1>2. /\ b \o t \in Seq(Byte)
      /\ Len(b \o t) = Len(b) + Len(t)
      /\ \A i \in 1 .. Len(b) : (b \o t)[i] = b[i]
      /\ \A i \in 1 .. Len(t) : (b \o t)[Len(b) + i] = t[i]
  <2>1. t \in Seq(Byte)
    BY <1>1
  <2> QED
    BY <2>1, Joined
<1> QED
  BY <1>1, <1>2 DEF t

\* A notification that is sent is one more to come; an answer is not.
LEMMA ArrivingAfterSend ==
    ASSUME NEW b \in Seq(Byte), NEW p \in Packet
    PROVE  Arriving(b \o Serialize(p)) =
              IF p.type = "DATA" THEN Append(Arriving(b), p.id) ELSE Arriving(b)
<1> DEFINE c == b \o Serialize(p)
           S == LastBytes(b)
           E == LastBytes(c)
           l == sizeFieldLength + SizeOf(p)
           last == Len(b) + l
<1>1. /\ Serialize(p) \in Seq(Byte) /\ Len(Serialize(p)) = l
      /\ \A i \in 1 .. l : IsLastByte(Serialize(p)[i]) <=> p.type = "DATA" /\ i = l
      /\ Serialize(p)[l] = PacketByte(p, SizeOf(p))
  <2>1. SizeOf(p) \in 1 .. SizeOf(p)
    BY Sizes
  <2> QED
    BY <2>1, SerializedPacket
<1>2. l \in Nat /\ l > 0
  BY Sizes
<1> HIDE DEF l
<1>3. /\ c \in Seq(Byte) /\ Len(c) = last
      /\ \A i \in 1 .. Len(b) : c[i] = b[i]
      /\ \A i \in 1 .. l : c[Len(b) + i] = Serialize(p)[i]
  BY PacketBehind DEF l
<1> HIDE DEF c
<1>4. /\ DOMAIN b = 1 .. Len(b) /\ DOMAIN c = 1 .. last
      /\ Len(b) \in Nat /\ last \in Nat
  BY <1>2, <1>3, LenProperties
<1>5. S \in SUBSET (1 .. Len(b))
  BY <1>4 DEF LastBytes
<1>6. \A i \in S : c[i] = b[i]
  BY <1>3, <1>5
<1>7. \A i \in 1 .. Len(b) : i \in 1 .. last /\ (i \in E <=> i \in S)
  BY <1>2, <1>3, <1>4 DEF LastBytes
<1>8. ASSUME NEW i \in 1 .. last, i \notin 1 .. Len(b)
      PROVE  i \in E <=> p.type = "DATA" /\ i = last
  <2> DEFINE j == i - Len(b)
  <2>1. j \in 1 .. l /\ Len(b) + j = i /\ (j = l <=> i = last)
    BY <1>2, <1>4, <1>8
  <2> HIDE DEF j
  <2>2. c[i] = Serialize(p)[j]
    BY <1>3, <2>1
  <2>3. IsLastByte(c[i]) <=> p.type = "DATA" /\ i = last
    BY <1>1, <2>1, <2>2
  <2> QED
    BY <1>4, <2>3 DEF LastBytes
<1>9. last \in 1 .. last /\ last \notin 1 .. Len(b)
  BY <1>2, <1>4
<1>10. E = IF p.type = "DATA" THEN S \cup {last} ELSE S
  <2>1. E \in SUBSET (1 .. last)
    BY <1>4 DEF LastBytes
  <2> HIDE DEF E, S, last
  <2> QED
    BY <1>5, <1>7, <1>8, <1>9, <2>1
<1>11. Entries(c, S) = Entries(b, S)
  <2> DEFINE m == Len(b)
  <2>1. m \in Nat /\ S \in SUBSET (1 .. m)
    BY <1>4, <1>5
  <2> HIDE DEF S, m
  <2> QED
    BY <1>6, <2>1, EntriesAgree
<1>12. Arriving(b) = Ids(Entries(b, S)) /\ Arriving(c) = Ids(Entries(c, E))
  BY DEF Arriving
<1>13. Entries(b, S) \in Seq(NotificationEnd)
  BY EndsAreSequence
<1>14. CASE p.type = "DATA"
  <2>1. c[last] = PacketByte(p, SizeOf(p)) /\ c[last].packet.id = p.id
    <3>1. l \in 1 .. l
      BY <1>2
    <3>2. c[last] = PacketByte(p, SizeOf(p))
      BY <1>1, <1>3, <3>1
    <3> QED
      BY <3>2 DEF PacketByte
  <2>2. c[last] \in NotificationEnd
    <3>1. c[last] \in Byte
      BY <1>3, <1>9, ElementOfSeq
    <3>2. last \in E
      BY <1>8, <1>9, <1>14
    <3> QED
      BY <3>1, <3>2 DEF LastBytes, NotificationEnd
  <2>3. \A i \in S : i < last
    <3> HIDE DEF S
    <3> QED
      BY <1>2, <1>4, <1>5
  <2>4. S \in SUBSET (1 .. Len(c)) /\ last \in 1 .. Len(c)
    <3> HIDE DEF S
    <3> QED
      BY <1>3, <1>5, <1>7, <1>9
  <2> HIDE DEF S, last, E
  <2>5. Entries(c, S \cup {last}) = Append(Entries(c, S), c[last])
    BY <1>3, <2>3, <2>4, EntriesAppended
  <2>6. Entries(c, E) = Append(Entries(b, S), c[last])
    BY <1>10, <1>11, <1>14, <2>5
  <2> DEFINE e == Entries(b, S)
             x == c[last]
  <2>7. e \in Seq(NotificationEnd) /\ x \in NotificationEnd
    BY <1>13, <2>2
  <2> HIDE DEF e, x
  <2>8. Ids(Append(e, x)) = Append(Ids(e), x.packet.id)
    BY <2>7, IdsOfAppend
  <2>9. Arriving(c) = Append(Arriving(b), p.id)
    BY <1>12, <2>1, <2>6, <2>8 DEF e, x
  <2> QED
    BY <1>14, <2>9 DEF c
<1>15. CASE p.type # "DATA"
  <2> HIDE DEF S, E
  <2>1. Arriving(c) = Arriving(b)
    BY <1>10, <1>11, <1>12, <1>15
  <2> QED
    BY <1>15, <2>1 DEF c
<1> QED
  BY <1>14, <1>15

\* Without bytes nothing arrives.
LEMMA ArrivingOfNothing == Arriving(<<>>) = <<>>
<1> DEFINE S == LastBytes(<<>>)
           e == Entries(<<>>, S)
<1>1. S = {}
  BY DEF LastBytes
<1>2. <<>> \in Seq(Byte)
  BY EmptySeq
<1>3. e \in Seq(NotificationEnd)
  BY <1>2, EndsAreSequence
<1>4. DOMAIN e = 1 .. Cardinality(S) /\ Cardinality(S) = 0
  BY <1>1, FS_EmptySet DEF Entries
<1> HIDE DEF e, S
<1>5. Len(e) = 0
  BY <1>3, <1>4, LenProperties
<1>6. Len(Ids(e)) = 0 /\ Ids(e) \in Seq(Notification)
  BY <1>3, <1>5, IdsOfEnds
<1>7. Ids(e) = <<>>
  BY <1>6, EmptySeq
<1> QED
  BY <1>7 DEF e, S, Arriving
-----------------------------------------------------------------------------
(* The bytes of a connection, as a reader and a writer change them.        *)

\* Only the last byte of t ends a packet, if that one does.
EndsAtMostLast(t) == \A j \in DOMAIN t : EndsPacket(t[j]) => j = Len(t)

\* Neither end of the bytes disturbs what is left of them.
LEMMA PacketByPacketInParts ==
    ASSUME NEW b \in Seq(Byte), NEW n \in 0 .. Len(b), PacketByPacket(b)
    PROVE  /\ PacketByPacket(SubSeq(b, n + 1, Len(b)))
           /\ PacketByPacket(SubSeq(b, 1, n))
<1> DEFINE d == SubSeq(b, n + 1, Len(b))
           f == SubSeq(b, 1, n)
<1>1. /\ d \in Seq(Byte) /\ f \in Seq(Byte) /\ Len(f) = n /\ Len(d) = Len(b) - n
      /\ \A k \in 1 .. Len(b) - n : d[k] = b[n + k]
      /\ \A k \in 1 .. n : f[k] = b[k]
  BY Cut
<1>2. \A i \in Nat, t \in Seq(Byte) :
         /\ Follows(b, n + i, t) => Follows(d, i, t)
         /\ Follows(b, i, t) => Follows(f, i, t)
  BY FollowsInParts
<1> HIDE DEF d, f
<1>3. /\ Len(b) \in Nat /\ n \in Nat /\ n <= Len(b) /\ DOMAIN b = 1 .. Len(b)
      /\ DOMAIN d = 1 .. Len(b) - n /\ DOMAIN f = 1 .. n
  BY <1>1, LenProperties
<1>4. ASSUME NEW i \in DOMAIN d, EndsPacket(d[i])
      PROVE  \E p \in Packet : Follows(d, i, Serialize(p))
  <2>1. i \in 1 .. Len(b) - n /\ n + i \in DOMAIN b /\ i \in Nat
    BY <1>3
  <2>2. EndsPacket(b[n + i])
    BY <1>1, <1>4, <2>1
  <2> PICK p \in Packet : Follows(b, n + i, Serialize(p))
    BY <2>1, <2>2 DEF PacketByPacket
  <2>3. Serialize(p) \in Seq(Byte)
    BY SerializedPacket
  <2> QED
    BY <1>2, <2>1, <2>3
<1>5. ASSUME NEW i \in DOMAIN f, EndsPacket(f[i])
      PROVE  \E p \in Packet : Follows(f, i, Serialize(p))
  <2>1. i \in 1 .. n /\ i \in DOMAIN b /\ i \in Nat
    BY <1>3
  <2>2. EndsPacket(b[i])
    BY <1>1, <1>5, <2>1
  <2> PICK p \in Packet : Follows(b, i, Serialize(p))
    BY <2>1, <2>2 DEF PacketByPacket
  <2>3. Serialize(p) \in Seq(Byte)
    BY SerializedPacket
  <2> QED
    BY <1>2, <2>1, <2>3
<1> QED
  BY <1>4, <1>5 DEF PacketByPacket, d, f

\* What followed in bytes that end with a packet is there as a whole, and is not
\* disturbed by what comes behind.
LEMMA FollowsAfterSend ==
    ASSUME NEW b \in Seq(Byte), b # <<>>, EndsPacket(b[Len(b)]), NEW p \in Packet,
           NEW t \in Seq(Byte), EndsAtMostLast(t), NEW i \in Nat, i < Len(b),
           Follows(b, i, t)
    PROVE  Follows(b \o Serialize(p), i, t)
<1> DEFINE c == b \o Serialize(p)
           l == sizeFieldLength + SizeOf(p)
<1>1. /\ c \in Seq(Byte) /\ Len(c) = Len(b) + l
      /\ \A j \in 1 .. Len(b) : c[j] = b[j]
  BY PacketBehind
<1> HIDE DEF c
<1>2. /\ Len(b) \in Nat /\ DOMAIN b = 1 .. Len(b) /\ Len(t) \in Nat /\ DOMAIN t = 1 .. Len(t)
  BY LenProperties
<1>3. i + Len(t) <= Len(b)
  <2> DEFINE j == Len(b) - i
  <2>1. ASSUME Len(b) < i + Len(t)
        PROVE  FALSE
    <3>0. /\ j \in 1 .. Len(t) /\ j # Len(t) /\ i + j = Len(b)
          /\ Len(b) \in 1 .. Len(b)
      <4> DEFINE x == Len(b)
                 y == Len(t)
      <4>1. x \in Nat /\ y \in Nat /\ i \in Nat /\ i < x /\ x < i + y
        BY <1>2, <2>1
      <4> HIDE DEF x, y
      <4>2. x - i \in 1 .. y /\ x - i # y /\ i + (x - i) = x /\ x \in 1 .. x
        BY <4>1
      <4> QED
        BY <4>2 DEF x, y
    <3>1. j \in DOMAIN t /\ j # Len(t) /\ i + j = Len(b) /\ Len(b) \in DOMAIN b
      BY <1>2, <3>0
    <3> HIDE DEF j
    <3>2. b[Len(b)] = t[j]
      BY <3>1 DEF Follows
    <3> QED
      BY <3>1, <3>2 DEF EndsAtMostLast
  <2>2. i \in Nat /\ Len(b) \in Nat /\ Len(t) \in Nat
    BY <1>2
  <2> QED
    BY <2>1, <2>2
<1>4. ASSUME NEW j \in DOMAIN t
      PROVE  c[i + j] = t[j]
  <2>1. i + j \in 1 .. Len(b) /\ i + j \in DOMAIN b
    BY <1>2, <1>3
  <2>2. c[i + j] = b[i + j]
    BY <1>1, <2>1
  <2> QED
    BY <2>1, <2>2 DEF Follows
<1> QED
  BY <1>4 DEF Follows, c

\* A whole packet is sent behind whole packets.
LEMMA PacketByPacketAfterSend ==
    ASSUME NEW b \in Seq(Byte), PacketByPacket(b), b = <<>> \/ EndsPacket(b[Len(b)]),
           NEW p \in Packet
    PROVE  LET c == b \o Serialize(p)
           IN  /\ PacketByPacket(c)
               /\ c # <<>> /\ EndsPacket(c[Len(c)])
               /\ Follows(c, Len(b), Serialize(p))
<1> DEFINE c == b \o Serialize(p)
           l == sizeFieldLength + SizeOf(p)
<1>1. /\ c \in Seq(Byte) /\ Len(c) = Len(b) + l
      /\ \A j \in 1 .. Len(b) : c[j] = b[j]
      /\ \A j \in 1 .. l : c[Len(b) + j] = Serialize(p)[j]
  BY PacketBehind
<1>2. /\ Serialize(p) \in Seq(Byte) /\ Len(Serialize(p)) = l /\ DOMAIN Serialize(p) = 1 .. l
      /\ \A j \in 1 .. l : EndsPacket(Serialize(p)[j]) <=> j = l
  BY SerializedPacket
<1>3. l \in Nat /\ l > 0
  BY Sizes
<1>4. \A q \in Packet, i \in Nat :
        b # <<>> /\ i < Len(b) /\ Follows(b, i, Serialize(q)) => Follows(c, i, Serialize(q))
  <2> SUFFICES ASSUME NEW q \in Packet, NEW i \in Nat,
                      b # <<>>, i < Len(b), Follows(b, i, Serialize(q))
               PROVE  Follows(c, i, Serialize(q))
    OBVIOUS
  <2> DEFINE t == Serialize(q)
  <2>1. t \in Seq(Byte) /\ EndsAtMostLast(t)
    BY SerializedPacket DEF EndsAtMostLast
  <2>2. Follows(b, i, t) /\ EndsPacket(b[Len(b)])
    OBVIOUS
  <2> HIDE DEF t
  <2>3. Follows(b \o Serialize(p), i, t)
    BY <2>1, <2>2, FollowsAfterSend
  <2> QED
    BY <2>3 DEF t
<1> HIDE DEF c, l
<1>5. /\ Len(b) \in Nat /\ DOMAIN b = 1 .. Len(b)
      /\ Len(c) \in Nat /\ DOMAIN c = 1 .. Len(c)
      /\ b = <<>> <=> Len(b) = 0
  BY <1>1, LenProperties, EmptySeq
<1>6. Follows(c, Len(b), Serialize(p))
  BY <1>1, <1>2 DEF Follows
<1>7. c # <<>> /\ EndsPacket(c[Len(c)])
  <2>1. l \in 1 .. l
    BY <1>3
  <2>2. c[Len(c)] = Serialize(p)[l]
    BY <1>1, <2>1
  <2>3. Len(c) # 0
    BY <1>1, <1>3, <1>5
  <2> QED
    BY <1>2, <2>1, <2>2, <2>3
<1>8. ASSUME NEW i \in DOMAIN c, EndsPacket(c[i])
      PROVE  \E q \in Packet : Follows(c, i, Serialize(q))
  <2>1. CASE i < Len(b)
    <3>1. i \in DOMAIN b /\ i \in 1 .. Len(b) /\ i \in Nat /\ b # <<>>
      BY <1>5, <2>1
    <3>2. EndsPacket(b[i])
      BY <1>1, <1>8, <3>1
    <3>3. PICK q \in Packet : Follows(b, i, Serialize(q))
      BY <3>1, <3>2 DEF PacketByPacket
    <3> QED
      BY <1>4, <2>1, <3>1, <3>3
  <2>2. CASE i = Len(b)
    BY <1>6, <2>2
  <2>3. CASE i > Len(b)
    <3> DEFINE j == i - Len(b)
    <3>1. j \in 1 .. l /\ Len(b) + j = i /\ i \in Nat
      BY <1>1, <1>3, <1>5, <2>3
    <3> HIDE DEF j
    <3>2. EndsPacket(Serialize(p)[j])
      BY <1>1, <1>8, <3>1
    <3>3. i = Len(c)
      BY <1>1, <1>2, <3>1, <3>2
    <3>4. ASSUME NEW k \in 1 .. l
          PROVE  i + k \notin DOMAIN c
      BY <1>3, <1>5, <3>3
    <3>5. Follows(c, i, Serialize(p))
      BY <1>2, <3>4 DEF Follows
    <3> QED
      BY <3>5
  <2>4. i \in Nat
    BY <1>5
  <2> QED
    BY <1>5, <2>1, <2>2, <2>3, <2>4
<1> QED
  BY <1>6, <1>7, <1>8 DEF PacketByPacket, c

\* What recv() gives and what it leaves, as parts of all the bytes.
LEMMA Receiving ==
    ASSUME ConnectionTypeOK, NEW n \in 0 .. Len(stream)
    PROVE  /\ Bytes \in Seq(Byte) /\ Len(Bytes) = Len(buffer) + Len(stream)
           /\ Len(buffer) \in Nat /\ Len(stream) \in Nat
           /\ Received(n) \in Seq(Byte) /\ Len(Received(n)) = Len(buffer) + n
           /\ Rest(n) \in Seq(Byte) /\ Len(Rest(n)) = Len(stream) - n
           /\ Received(n) \o Rest(n) = Bytes
           /\ \A i \in 1 .. Len(buffer) + n : Received(n)[i] = Bytes[i]
           /\ \A i \in 1 .. Len(stream) : stream[i] = Bytes[Len(buffer) + i]
           /\ Rest(n) = SubSeq(Bytes, Len(buffer) + n + 1, Len(Bytes))
<1> DEFINE r == Received(n)
           d == Rest(n)
           m == Len(buffer) + n
<1>1. stream \in Seq(Byte) /\ buffer \in Seq(Byte) /\ n \in Nat
  BY DEF ConnectionTypeOK
<1>2. /\ Bytes \in Seq(Byte) /\ Len(Bytes) = Len(buffer) + Len(stream)
      /\ Len(buffer) \in Nat /\ Len(stream) \in Nat
      /\ \A i \in 1 .. Len(stream) : stream[i] = Bytes[Len(buffer) + i]
  BY <1>1, Joined DEF Bytes
<1>3. r \in Seq(Byte) /\ Len(r) = m /\ r \o d = Bytes
  <2>1. /\ buffer \o SubSeq(stream, 1, n) \in Seq(Byte)
        /\ Len(buffer \o SubSeq(stream, 1, n)) = Len(buffer) + n
        /\ (buffer \o SubSeq(stream, 1, n)) \o SubSeq(stream, n + 1, Len(stream)) = buffer \o stream
    <3>1. \A a, b \in Seq(Byte) : \A k \in 0 .. Len(b) :
             /\ a \o SubSeq(b, 1, k) \in Seq(Byte)
             /\ Len(a \o SubSeq(b, 1, k)) = Len(a) + k
             /\ (a \o SubSeq(b, 1, k)) \o SubSeq(b, k + 1, Len(b)) = a \o b
      BY MovedPiece
    <3> QED
      BY <1>1, <3>1
  <2> QED
    BY <2>1, Zenon DEF Received, Rest, Bytes
<1>4. d \in Seq(Byte) /\ Len(d) = Len(stream) - n
      /\ \A i \in 1 .. Len(stream) - n : d[i] = stream[n + i]
  BY <1>1, Cut DEF Rest
<1> HIDE DEF r, d
<1>5. \A i \in 1 .. Len(r) : (r \o d)[i] = r[i]
  <2>1. \A a, b \in Seq(Byte) : \A i \in 1 .. Len(a) : (a \o b)[i] = a[i]
    BY Joined
  <2> QED
    BY <1>3, <1>4, <2>1
<1>6. \A i \in 1 .. m : r[i] = Bytes[i]
  BY <1>3, <1>5
<1>7. m \in 0 .. Len(Bytes)
  BY <1>1, <1>2
<1> DEFINE e == SubSeq(Bytes, m + 1, Len(Bytes))
<1>8. /\ e \in Seq(Byte) /\ Len(e) = Len(Bytes) - m
      /\ \A i \in 1 .. Len(Bytes) - m : e[i] = Bytes[m + i]
  BY <1>2, <1>7, Cut
<1> HIDE DEF e
<1>9. Len(e) = Len(d)
  BY <1>1, <1>2, <1>4, <1>8
<1>10. ASSUME NEW i \in 1 .. Len(d)
       PROVE  d[i] = e[i]
  <2>1. i \in 1 .. Len(stream) - n /\ i \in 1 .. Len(Bytes) - m
    BY <1>1, <1>2, <1>4
  <2>2. n + i \in 1 .. Len(stream) /\ Len(buffer) + (n + i) = m + i
    BY <1>1, <1>2, <2>1
  <2>3. d[i] = stream[n + i] /\ stream[n + i] = Bytes[Len(buffer) + (n + i)]
    BY <1>2, <1>4, <2>1, <2>2
  <2>4. e[i] = Bytes[m + i]
    BY <1>8, <2>1
  <2> QED
    BY <2>2, <2>3, <2>4
<1>11. d = e
  BY <1>4, <1>8, <1>9, <1>10, SeqEqual
<1> QED
  BY <1>2, <1>3, <1>4, <1>6, <1>11 DEF r, d, e
-----------------------------------------------------------------------------
(* Framed, step by step of the connection.                                 *)

Framing == ConnectionTypeOK /\ Framed

\* Of the bytes of the current field only the last can end a packet, and only if
\* the field is no size field.
LEMMA FieldBytes ==
    ASSUME Framing
    PROVE  \A j \in 1 .. want :
              j \in DOMAIN Bytes /\ EndsPacket(Bytes[j]) => j = want /\ field = "packet"
<1> SUFFICES ASSUME NEW j \in 1 .. want, j \in DOMAIN Bytes, EndsPacket(Bytes[j])
             PROVE  j = want /\ field = "packet"
  OBVIOUS
<1>1. want \in Nat /\ field \in {"size", "packet"}
  BY DEF Framing, ConnectionTypeOK
<1>2. 0 + j = j
  BY <1>1
<1>3. CASE field = "size"
  <2> PICK p \in Packet : Follows(Bytes, 0, Serialize(p))
    BY <1>3 DEF Framing, Framed
  <2>1. want = sizeFieldLength
    BY <1>3 DEF Framing, Framed
  <2>2. /\ DOMAIN Serialize(p) = 1 .. sizeFieldLength + SizeOf(p)
        /\ Serialize(p)[j] = SizeByte(SizeOf(p))
    BY <2>1, SerializedPacket
  <2>3. j \in DOMAIN Serialize(p)
    BY <2>1, <2>2, Sizes
  <2>4. Bytes[j] = SizeByte(SizeOf(p))
    BY <1>2, <2>2, <2>3 DEF Follows
  <2> QED
    BY <2>4, BytesOfAPacket
<1>4. CASE field = "packet"
  <2> PICK p \in Packet : want = SizeOf(p) /\ Follows(Bytes, 0, Body(p))
    BY <1>4 DEF Framing, Framed
  <2>1. /\ j \in DOMAIN Body(p)
        /\ EndsPacket(Body(p)[j]) <=> j = SizeOf(p)
    BY BodyOfAPacket
  <2>2. Bytes[j] = Body(p)[j]
    BY <1>2, <2>1 DEF Follows
  <2> QED
    BY <1>4, <2>1, <2>2
<1> QED
  BY <1>1, <1>3, <1>4

\* A piece of a field moves from the stream to the buffer: the bytes are the same.
LEMMA PieceKeepsFraming ==
    ASSUME Framing, ReceivePiece
    PROVE  Framing'
<1> PICK n \in 1 .. Len(stream) :
        n < Remaining /\ buffer' = Received(n) /\ stream' = Rest(n)
  BY DEF ReceivePiece
<1>1. want' = want /\ field' = field /\ link' = link
  BY DEF ReceivePiece
<1>2. ConnectionTypeOK /\ Framed
  BY DEF Framing
<1>3. n \in 0 .. Len(stream)
  OBVIOUS
<1>4. /\ Received(n) \in Seq(Byte) /\ Len(Received(n)) = Len(buffer) + n
      /\ Rest(n) \in Seq(Byte) /\ Received(n) \o Rest(n) = Bytes
      /\ Len(buffer) \in Nat /\ Len(stream) \in Nat
  BY <1>2, <1>3, Receiving
<1>5. Bytes' = Bytes
  BY <1>4 DEF Bytes
<1>6. Len(buffer') < want'
  <2>1. want \in Nat
    BY <1>2 DEF ConnectionTypeOK
  <2>2. Len(buffer) + n < want
    BY <1>4, <2>1 DEF Remaining
  <2> QED
    BY <1>1, <1>4, <2>2
<1>7. stream # <<>>
  BY <1>4
<1>8. ConnectionTypeOK'
  BY <1>1, <1>2, <1>4 DEF ConnectionTypeOK
<1>9. Framed'
  BY <1>1, <1>2, <1>5, <1>6, <1>7 DEF Framed
<1> QED
  BY <1>8, <1>9 DEF Framing

\* The size field is read: what follows is the body of the packet it belongs to.
LEMMA SizeKeepsFraming ==
    ASSUME Framing, ReceiveSize
    PROVE  Framing'
<1> PICK n \in 1 .. Len(stream) :
        Filled(n) /\ want' = Received(n)[1].size /\ stream' = Rest(n)
  BY DEF ReceiveSize
<1>1. field = "size" /\ field' = "packet" /\ buffer' = <<>> /\ link' = link
  BY DEF ReceiveSize
<1>2. ConnectionTypeOK /\ Framed
  BY DEF Framing
<1>3. n \in 0 .. Len(stream)
  OBVIOUS
<1>4. /\ Bytes \in Seq(Byte) /\ Len(Bytes) = Len(buffer) + Len(stream)
      /\ Len(buffer) \in Nat /\ Len(stream) \in Nat
      /\ Rest(n) \in Seq(Byte)
      /\ \A i \in 1 .. Len(buffer) + n : Received(n)[i] = Bytes[i]
      /\ Rest(n) = SubSeq(Bytes, Len(buffer) + n + 1, Len(Bytes))
  BY <1>2, <1>3, Receiving
<1>5. want \in Nat /\ want = sizeFieldLength /\ want > 0
  BY <1>1, <1>2, Sizes DEF ConnectionTypeOK, Framed
<1>6. Len(buffer) + n = want
  BY <1>4, <1>5 DEF Filled, Remaining
<1> PICK p \in Packet : Follows(Bytes, 0, Serialize(p))
  BY <1>1, <1>2 DEF Framed
<1>7. /\ want \in 0 .. Len(Bytes) /\ 1 \in 1 .. want
      /\ DOMAIN Bytes = 1 .. Len(Bytes)
  BY <1>4, <1>5, <1>6, LenProperties
<1>8. SizeOf(p) \in Nat /\ SizeOf(p) > 0
  BY Sizes
<1>9. want' = SizeOf(p)
  <2>1. 1 \in DOMAIN Serialize(p) /\ Serialize(p)[1] = SizeByte(SizeOf(p))
    BY <1>5, <1>8, SerializedPacket
  <2>2. 0 + 1 \in DOMAIN Bytes
    BY <1>7
  <2>3. Bytes[1] = Serialize(p)[1]
    BY <2>1, <2>2 DEF Follows
  <2>4. Received(n)[1] = Bytes[1]
    BY <1>4, <1>6, <1>7
  <2> QED
    BY <2>1, <2>3, <2>4, BytesOfAPacket
<1> DEFINE d == SubSeq(Bytes, want + 1, Len(Bytes))
<1>10. /\ d \in Seq(Byte) /\ Len(d) = Len(Bytes) - want
       /\ \A i \in 1 .. Len(Bytes) - want : d[i] = Bytes[want + i]
  BY <1>4, <1>7, Cut
<1>11. Bytes' = d
  <2>1. stream' = d /\ d \in Seq(Byte)
    BY <1>4, <1>6, <1>10
  <2> QED
    BY <1>1, <2>1, ConcatEmptySeq DEF Bytes
<1>12. PacketByPacket(d)
  BY <1>2, <1>4, <1>7, PacketByPacketInParts DEF Framed
<1> HIDE DEF d
<1>13. DOMAIN d = 1 .. Len(Bytes) - want
  BY <1>10, LenProperties
<1>14. Follows(d, 0, Body(p))
  <2> SUFFICES ASSUME NEW j \in DOMAIN Body(p), 0 + j \in DOMAIN d
               PROVE  d[0 + j] = Body(p)[j]
    BY DEF Follows
  <2>1. j \in 1 .. SizeOf(p) /\ Body(p)[j] = PacketByte(p, j)
    BY BodyOfAPacket
  <2>2. 0 + j = j /\ j \in 1 .. Len(Bytes) - want
    BY <1>13, <2>1
  <2>3. 0 + (want + j) = want + j /\ want + j \in DOMAIN Bytes
    BY <1>5, <1>7, <2>2
  <2>4. want + j \in DOMAIN Serialize(p) /\ Serialize(p)[want + j] = PacketByte(p, j)
    BY <1>5, <1>8, <2>1, SerializedPacket
  <2>5. Bytes[want + j] = Serialize(p)[want + j]
    BY <2>3, <2>4 DEF Follows
  <2> QED
    BY <1>10, <2>1, <2>2, <2>4, <2>5
<1>15. link = "open" => d # <<>> /\ EndsPacket(d[Len(d)])
  <2> SUFFICES ASSUME link = "open"
               PROVE  d # <<>> /\ EndsPacket(d[Len(d)])
    OBVIOUS
  <2>1. Len(Bytes) # 0 /\ Len(Bytes) \in DOMAIN Bytes /\ Len(Bytes) \in Nat
    BY <1>4, <1>5, <1>7
  <2>2. EndsPacket(Bytes[Len(Bytes)])
    BY <1>1, <1>2, <2>1 DEF Framed
  <2>3. Len(Bytes) \notin 1 .. want
    BY <1>1, <2>1, <2>2, FieldBytes
  <2> DEFINE k == Len(Bytes) - want
  <2>4. k \in 1 .. k /\ want + k = Len(Bytes) /\ k # 0
    BY <1>5, <2>1, <2>3
  <2>5. d[k] = Bytes[want + k] /\ Len(d) = k
    BY <1>10, <2>4
  <2> HIDE DEF k
  <2>6. d # <<>>
    BY <2>4, <2>5
  <2> QED
    BY <2>2, <2>4, <2>5, <2>6
<1>16. link \notin {"reset", "killed"}
  <2>1. stream # <<>>
    BY <1>4
  <2> QED
    BY <1>2, <2>1 DEF Framed
<1>17. ConnectionTypeOK'
  BY <1>1, <1>2, <1>4, <1>8, <1>9, EmptySeq DEF ConnectionTypeOK
<1>18. Framed'
  <2>1. Len(buffer') < want'
    BY <1>1, <1>8, <1>9
  <2> QED
    BY <1>1, <1>9, <1>11, <1>12, <1>14, <1>15, <1>16, <2>1 DEF Framed
<1> QED
  BY <1>17, <1>18 DEF Framing

\* The packet is read: its last byte is followed by the next packet.
LEMMA PacketKeepsFraming ==
    ASSUME Framing, NEW q \in Packet, ReceivePacket(q)
    PROVE  Framing'
<1> PICK n \in 1 .. Len(stream) :
        Filled(n) /\ Received(n) = Body(q) /\ stream' = Rest(n)
  BY DEF ReceivePacket
<1>1. /\ field = "packet" /\ field' = "size" /\ buffer' = <<>> /\ link' = link
      /\ want' = sizeFieldLength
  BY DEF ReceivePacket
<1>2. ConnectionTypeOK /\ Framed
  BY DEF Framing
<1>3. n \in 0 .. Len(stream)
  OBVIOUS
<1>4. /\ Bytes \in Seq(Byte) /\ Len(Bytes) = Len(buffer) + Len(stream)
      /\ Len(buffer) \in Nat /\ Len(stream) \in Nat
      /\ Rest(n) \in Seq(Byte)
      /\ Len(Received(n)) = Len(buffer) + n
      /\ \A i \in 1 .. Len(buffer) + n : Received(n)[i] = Bytes[i]
      /\ Rest(n) = SubSeq(Bytes, Len(buffer) + n + 1, Len(Bytes))
  BY <1>2, <1>3, Receiving
<1>5. want \in Nat
  BY <1>2 DEF ConnectionTypeOK
<1>6. Len(buffer) + n = want
  BY <1>4, <1>5 DEF Filled, Remaining
<1>7. /\ want = SizeOf(q) /\ want > 0
      /\ \A j \in 1 .. want : Body(q)[j] = Bytes[j]
      /\ EndsPacket(Body(q)[want])
  <2>1. want = SizeOf(q) /\ want > 0
    BY <1>4, <1>6, BodyOfAPacket, Sizes
  <2>2. \A j \in 1 .. want : Body(q)[j] = Bytes[j]
    BY <1>4, <1>6
  <2>3. want \in 1 .. want
    BY <1>5, <2>1
  <2> QED
    BY <2>1, <2>2, <2>3, BodyOfAPacket
<1>8. /\ want \in 0 .. Len(Bytes) /\ want \in 1 .. want /\ want \in DOMAIN Bytes
      /\ DOMAIN Bytes = 1 .. Len(Bytes)
  BY <1>4, <1>5, <1>6, <1>7, LenProperties
<1>9. EndsPacket(Bytes[want])
  BY <1>7, <1>8
<1> PICK p \in Packet : Follows(Bytes, want, Serialize(p))
  BY <1>2, <1>8, <1>9 DEF Framed, PacketByPacket
<1> DEFINE d == SubSeq(Bytes, want + 1, Len(Bytes))
<1>10. /\ d \in Seq(Byte) /\ Len(d) = Len(Bytes) - want
       /\ \A i \in 1 .. Len(Bytes) - want : d[i] = Bytes[want + i]
  BY <1>4, <1>8, Cut
<1>11. Bytes' = d
  <2>1. stream' = d /\ d \in Seq(Byte)
    BY <1>4, <1>6, <1>10
  <2> QED
    BY <1>1, <2>1, ConcatEmptySeq DEF Bytes
<1>12. PacketByPacket(d)
  BY <1>2, <1>4, <1>8, PacketByPacketInParts DEF Framed
<1>13. Follows(d, 0, Serialize(p))
  <2>1. Serialize(p) \in Seq(Byte) /\ 0 \in Nat /\ want + 0 = want
    BY <1>5, SerializedPacket
  <2>2. Follows(Bytes, want + 0, Serialize(p))
    BY <2>1
  <2> QED
    BY <1>4, <1>8, <2>1, <2>2, FollowsInParts
<1> HIDE DEF d
<1>14. link = "open" /\ d # <<>> => EndsPacket(d[Len(d)])
  <2> SUFFICES ASSUME link = "open", d # <<>>
               PROVE  EndsPacket(d[Len(d)])
    OBVIOUS
  <2> DEFINE k == Len(Bytes) - want
  <2>1. Bytes # <<>> /\ Len(Bytes) \in Nat
    BY <1>4, <1>8
  <2>2. EndsPacket(Bytes[Len(Bytes)])
    BY <1>2, <2>1 DEF Framed
  <2>3. Len(d) # 0 /\ Len(d) \in Nat
    BY <1>10, EmptySeq, LenProperties
  <2>4. k \in 1 .. k /\ want + k = Len(Bytes) /\ Len(d) = k
    BY <1>5, <1>10, <2>1, <2>3
  <2>5. d[k] = Bytes[want + k]
    BY <1>10, <2>4
  <2> QED
    BY <2>2, <2>4, <2>5
<1>15. link \notin {"reset", "killed"}
  <2>1. stream # <<>>
    BY <1>4
  <2> QED
    BY <1>2, <2>1 DEF Framed
<1>16. ConnectionTypeOK'
  BY <1>1, <1>2, <1>4, Sizes, EmptySeq DEF ConnectionTypeOK
<1>17. Framed'
  <2>1. Len(buffer') < want'
    BY <1>1, Sizes
  <2> QED
    BY <1>1, <1>11, <1>12, <1>13, <1>14, <1>15, <2>1 DEF Framed
<1> QED
  BY <1>16, <1>17 DEF Framing

\* A packet is sent as a whole, behind whole packets.
LEMMA SendKeepsFraming ==
    ASSUME Framing, NEW p \in Packet, Send(p)
    PROVE  Framing'
<1>1. ConnectionTypeOK /\ Framed
  BY DEF Framing
<1>2. buffer' = buffer /\ want' = want /\ field' = field
  BY DEF Send
<1>3. CASE link = "open" /\ stream' = stream \o Serialize(p) /\ link' = link
  <2>1. /\ stream \in Seq(Byte) /\ buffer \in Seq(Byte) /\ Serialize(p) \in Seq(Byte)
        /\ Bytes \in Seq(Byte)
    BY <1>1, SerializedPacket, Joined DEF ConnectionTypeOK, Bytes
  <2> DEFINE c == Bytes \o Serialize(p)
  <2>2. Bytes' = c
    <3> DEFINE t == Serialize(p)
    <3> HIDE DEF t
    <3>1. (buffer \o stream) \o t = buffer \o (stream \o t)
      <4>1. \A x, y, z \in Seq(Byte) : (x \o y) \o z = x \o (y \o z)
        BY JoiningThree
      <4> QED
        BY <2>1, <4>1 DEF t
    <3> QED
      BY <1>2, <1>3, <3>1 DEF Bytes, t
  <2>3. stream' \in Seq(Byte)
    BY <1>3, <2>1, PacketBehind
  <2>4. Bytes = <<>> => field = "size"
    BY <1>1, <1>3 DEF Framed
  <2>5. Bytes # <<>> => EndsPacket(Bytes[Len(Bytes)])
    BY <1>1, <1>3 DEF Framed
  <2>6. /\ PacketByPacket(c)
        /\ c # <<>> /\ EndsPacket(c[Len(c)])
        /\ Follows(c, Len(Bytes), Serialize(p))
    BY <1>1, <2>1, <2>5, PacketByPacketAfterSend DEF Framed
  <2>7. ASSUME NEW t \in Seq(Byte), EndsAtMostLast(t), Follows(Bytes, 0, t), Bytes # <<>>
        PROVE  Follows(c, 0, t)
    <3>1. 0 \in Nat /\ 0 < Len(Bytes)
      BY <2>1, <2>7, LenProperties, EmptySeq
    <3> QED
      BY <2>1, <2>5, <2>7, <3>1, FollowsAfterSend
  <2>8. \A q \in Packet : /\ Serialize(q) \in Seq(Byte) /\ EndsAtMostLast(Serialize(q))
                          /\ Body(q) \in Seq(Byte) /\ EndsAtMostLast(Body(q))
    <3> SUFFICES ASSUME NEW q \in Packet
                 PROVE  /\ Serialize(q) \in Seq(Byte) /\ EndsAtMostLast(Serialize(q))
                        /\ Body(q) \in Seq(Byte) /\ EndsAtMostLast(Body(q))
      OBVIOUS
    <3>1. Serialize(q) \in Seq(Byte) /\ EndsAtMostLast(Serialize(q))
      BY SerializedPacket DEF EndsAtMostLast
    <3>2. Body(q) \in Seq(Byte) /\ EndsAtMostLast(Body(q))
      BY BodyOfAPacket DEF EndsAtMostLast
    <3> QED
      BY <3>1, <3>2
  <2> HIDE DEF c
  <2>9. field = "size" => want = sizeFieldLength /\ \E q \in Packet : Follows(c, 0, Serialize(q))
    <3> SUFFICES ASSUME field = "size"
                 PROVE  want = sizeFieldLength /\ \E q \in Packet : Follows(c, 0, Serialize(q))
      OBVIOUS
    <3>1. want = sizeFieldLength
      BY <1>1 DEF Framed
    <3>2. CASE Bytes = <<>>
      <4>1. Len(Bytes) = 0
        BY <2>1, <3>2, EmptySeq
      <4> QED
        BY <2>6, <3>1, <4>1
    <3>3. CASE Bytes # <<>>
      <4> PICK q \in Packet : Follows(Bytes, 0, Serialize(q))
        BY <1>1 DEF Framed
      <4> QED
        BY <2>7, <2>8, <3>1, <3>3
    <3> QED
      BY <3>2, <3>3
  <2>10. field = "packet" => \E q \in Packet : want = SizeOf(q) /\ Follows(c, 0, Body(q))
    <3> SUFFICES ASSUME field = "packet"
                 PROVE  \E q \in Packet : want = SizeOf(q) /\ Follows(c, 0, Body(q))
      OBVIOUS
    <3>1. Bytes # <<>>
      BY <2>4
    <3> PICK q \in Packet : want = SizeOf(q) /\ Follows(Bytes, 0, Body(q))
      BY <1>1 DEF Framed
    <3> QED
      BY <2>7, <2>8, <3>1
  <2>11. Len(buffer) < want
    BY <1>1 DEF Framed
  <2>12. ConnectionTypeOK'
    BY <1>1, <1>2, <1>3, <2>3 DEF ConnectionTypeOK
  <2>13. Framed'
    BY <1>2, <1>3, <2>2, <2>6, <2>9, <2>10, <2>11 DEF Framed
  <2> QED
    BY <2>12, <2>13 DEF Framing
<1>4. CASE link = "reset" /\ link' \in {"reset", "killed"} /\ stream' = stream
  <2>1. Bytes' = Bytes
    BY <1>2, <1>4 DEF Bytes
  <2>2. ConnectionTypeOK'
    BY <1>1, <1>2, <1>4 DEF ConnectionTypeOK
  <2>3. Framed'
    BY <1>1, <1>2, <1>4, <2>1 DEF Framed
  <2> QED
    BY <2>2, <2>3 DEF Framing
<1> QED
  BY <1>3, <1>4 DEF Send

\* The last bytes are lost when an end closes: what is left begins as before.
LEMMA LossKeepsFraming ==
    ASSUME Framing, NEW n \in 0 .. Len(stream), stream' = SubSeq(stream, 1, n),
           buffer' = buffer, want' = want, field' = field,
           link' \in {"closed", "reset", "killed"},
           link' \in {"reset", "killed"} => stream' = <<>>
    PROVE  Framing'
<1>1. ConnectionTypeOK /\ Framed
  BY DEF Framing
<1>2. /\ Bytes \in Seq(Byte) /\ Len(Bytes) = Len(buffer) + Len(stream)
      /\ Len(buffer) \in Nat /\ Len(stream) \in Nat
      /\ Received(n) \in Seq(Byte) /\ Len(Received(n)) = Len(buffer) + n
      /\ \A i \in 1 .. Len(buffer) + n : Received(n)[i] = Bytes[i]
  BY <1>1, Receiving
<1> DEFINE m == Len(buffer) + n
           f == SubSeq(Bytes, 1, m)
<1>3. m \in 0 .. Len(Bytes)
  BY <1>2
<1>4. /\ f \in Seq(Byte) /\ Len(f) = m
      /\ \A i \in 1 .. m : f[i] = Bytes[i]
  BY <1>2, <1>3, Cut
<1>5. PacketByPacket(f)
  BY <1>1, <1>2, <1>3, PacketByPacketInParts DEF Framed
<1>6. \A t \in Seq(Byte) : Follows(Bytes, 0, t) => Follows(f, 0, t)
  <2>1. 0 \in Nat
    OBVIOUS
  <2> QED
    BY <1>2, <1>3, <2>1, FollowsInParts
<1> HIDE DEF f, m
<1>7. Bytes' = f
  <2> DEFINE r == Received(n)
  <2>1. r \in Seq(Byte) /\ Len(r) = m /\ \A i \in 1 .. m : r[i] = Bytes[i]
    BY <1>2 DEF m
  <2>2. Bytes' = r
    BY DEF Bytes, Received
  <2> HIDE DEF r
  <2>3. Len(r) = Len(f) /\ \A i \in 1 .. Len(r) : r[i] = f[i]
    BY <1>4, <2>1
  <2>4. r = f
    BY <1>4, <2>1, <2>3, SeqEqual
  <2> QED
    BY <2>2, <2>4
<1>8. \A p \in Packet : Serialize(p) \in Seq(Byte) /\ Body(p) \in Seq(Byte)
  BY SerializedPacket, BodyOfAPacket
<1>9. stream' \in Seq(Byte)
  BY <1>1, Cut DEF ConnectionTypeOK
<1>10. ConnectionTypeOK'
  BY <1>1, <1>9 DEF ConnectionTypeOK
<1>11. field = "size" => want = sizeFieldLength /\ \E p \in Packet : Follows(f, 0, Serialize(p))
  BY <1>1, <1>6, <1>8 DEF Framed
<1>12. field = "packet" => \E p \in Packet : want = SizeOf(p) /\ Follows(f, 0, Body(p))
  BY <1>1, <1>6, <1>8 DEF Framed
<1>13. Len(buffer) < want
  BY <1>1 DEF Framed
<1>14. Framed'
  BY <1>5, <1>7, <1>11, <1>12, <1>13 DEF Framed
<1> QED
  BY <1>10, <1>14 DEF Framing

\* ::close() of the writer.
LEMMA CloseWriterKeepsFraming ==
    ASSUME Framing, CloseWriter
    PROVE  Framing' /\ \E n \in 0 .. Len(stream) : stream' = SubSeq(stream, 1, n)
<1>1. ConnectionTypeOK /\ Framed
  BY DEF Framing
<1> PICK n \in 0 .. Len(stream) : stream' = SubSeq(stream, 1, n)
  BY DEF CloseWriter
<1>2. /\ buffer' = buffer /\ want' = want /\ field' = field
      /\ link' = IF link = "open" THEN "closed" ELSE link
  BY DEF CloseWriter
<1>3. link' \in {"closed", "reset", "killed"}
  BY <1>1, <1>2 DEF ConnectionTypeOK
<1>4. ASSUME link' \in {"reset", "killed"}
      PROVE  stream' = <<>>
  <2>1. stream = <<>>
    BY <1>1, <1>2, <1>4 DEF Framed
  <2>2. stream \in Seq(Byte) /\ Len(stream) = 0
    BY <1>1, <2>1, EmptySeq DEF ConnectionTypeOK
  <2>3. stream' \in Seq(Byte) /\ Len(stream') = n /\ n = 0
    BY <2>2, Cut
  <2> QED
    BY <2>3, EmptySeq
<1> QED
  BY <1>2, <1>3, <1>4, LossKeepsFraming

\* The reader goes.
LEMMA CloseReaderKeepsFraming ==
    ASSUME Framing, CloseReader
    PROVE  Framing'
<1>1. ConnectionTypeOK /\ Framed
  BY DEF Framing
<1>2. /\ buffer' = buffer /\ want' = want /\ field' = field
      /\ link' = "reset" /\ stream' = <<>>
  BY DEF CloseReader
<1>3. 0 \in 0 .. Len(stream) /\ SubSeq(stream, 1, 0) = <<>>
  <2>1. stream \in Seq(Byte) /\ Len(stream) \in Nat
    BY <1>1, LenProperties DEF ConnectionTypeOK
  <2> QED
    BY <2>1, SubSeqEmpty
<1> DEFINE n == 0
<1>4. n \in 0 .. Len(stream) /\ stream' = SubSeq(stream, 1, n)
  BY <1>2, <1>3
<1> HIDE DEF n
<1> QED
  BY <1>2, <1>4, LossKeepsFraming

\* Nobody touches the connection.
LEMMA NothingKeepsFraming ==
    ASSUME Framing, UNCHANGED connectionVars
    PROVE  Framing'
<1>1. Bytes' = Bytes
  BY DEF Bytes, connectionVars
<1> QED
  BY <1>1 DEF Framing, ConnectionTypeOK, Framed, connectionVars
-----------------------------------------------------------------------------
(* The inductive invariant.                                                *)

\* Type correctness without the connection.
SessionTypeOK ==
    /\ queue \in Seq(Notification) /\ held \in Seq(Notification) /\ Len(held) <= 1
    /\ notifying \in BOOLEAN /\ shouldStop \in BOOLEAN
    /\ consumer \in {"checking", "entering", "waiting", "awake", "timedout", "sending",
                     "leaving", "ended"}
    /\ handler \in {"receiving", "joining", "finished"}
    /\ inserted \in 0 .. MaxNotifications /\ answers \in 0 .. MaxAnswers
    /\ history \in Seq(Notification)

\* The invariant, the connection apart from the rest.
LEMMA InvIsParts == DeliveryInv <=> Framing /\ SessionTypeOK /\ Orderly
  BY DEF DeliveryInv, DeliveryTypeOK, Framing, SessionTypeOK

\* What the consumer has in hand is one notification.
LEMMA Held ==
    ASSUME SessionTypeOK, held # <<>>
    PROVE  Len(held) = 1 /\ held[1] \in Notification
<1> DEFINE N == Notification
<1>1. held \in Seq(N) /\ Len(held) <= 1
  BY DEF SessionTypeOK
<1> HIDE DEF N
<1>2. Len(held) \in Nat /\ Len(held) # 0
  BY <1>1, EmptySeq
<1>3. Len(held) = 1 /\ 1 \in 1 .. Len(held)
  <2> DEFINE l == Len(held)
  <2>1. l \in Nat /\ l # 0 /\ l <= 1
    BY <1>1, <1>2
  <2> HIDE DEF l
  <2>2. l = 1
    BY <2>1
  <2> QED
    BY <2>2 DEF l
<1>4. held[1] \in N
  BY <1>1, <1>3, ElementOfSeq
<1> QED
  BY <1>3, <1>4 DEF N

\* The invariant holds when the session is set up.
LEMMA DeliveryInitially == DeliveryInit => DeliveryInv
<1> SUFFICES ASSUME DeliveryInit
             PROVE  DeliveryInv
  OBVIOUS
<1>1. stream = <<>> /\ buffer = <<>> /\ want = sizeFieldLength /\ field = "size" /\ link = "open"
  BY DEF DeliveryInit, ConnectionInit
<1>2. <<>> \in Seq(Byte) /\ Len(<<>>) = 0 /\ <<>> \in Seq(Notification)
  BY EmptySeq
<1>3. Bytes = <<>>
  BY <1>1, <1>2, ConcatEmptySeq DEF Bytes
<1>4. PacketByPacket(<<>>) /\ Follows(<<>>, 0, Serialize(Success))
  BY DEF PacketByPacket, Follows
<1>5. ConnectionTypeOK
  BY <1>1, <1>2, Sizes DEF ConnectionTypeOK
<1>6. Framed
  BY <1>1, <1>2, <1>3, <1>4, Sizes, Packets DEF Framed
<1>7. SessionTypeOK
  <2>1. 0 \in 0 .. MaxNotifications /\ 0 \in 0 .. MaxAnswers
    BY Sizes
  <2>2. queue = <<>> /\ held = <<>> /\ history = <<>> /\ Len(held) <= 1
    BY <1>2 DEF DeliveryInit
  <2> QED
    BY <1>2, <2>1, <2>2 DEF DeliveryInit, SessionTypeOK
<1>8. Orderly
  BY <1>1 DEF DeliveryInit, Orderly
<1> QED
  BY <1>5, <1>6, <1>7, <1>8, InvIsParts DEF Framing

\* No step of a session disturbs the framing.
LEMMA FramingStep ==
    ASSUME Framing, SessionTypeOK, Orderly, [DeliveryNext]_deliveryVars
    PROVE  Framing'
<1>1. ASSUME UNCHANGED connectionVars
      PROVE  Framing'
  BY <1>1, NothingKeepsFraming
<1>2. CASE Insert \/ Notify \/ CheckStop \/ LookAtQueue \/ ReturnNothing \/ Unsubscribe
           \/ SpuriousWakeUp \/ TimeOut \/ Stop
  BY <1>1, <1>2 DEF Insert, Notify, CheckStop, LookAtQueue, ReturnNothing, Unsubscribe,
                    SpuriousWakeUp, TimeOut, Stop
<1>3. CASE SendData
  <2>1. consumer = "sending" /\ Send(Data(held[1]))
    BY <1>3 DEF SendData
  <2>2. held[1] \in Notification
    BY <2>1, Held DEF Orderly
  <2>3. Data(held[1]) \in Packet
    BY <2>2, Packets
  <2> QED
    BY <2>1, <2>3, SendKeepsFraming
<1>4. CASE SendAnswer
  <2>1. Send(Success)
    BY <1>4 DEF SendAnswer
  <2> QED
    BY <2>1, Packets, SendKeepsFraming
<1>5. CASE Join
  BY <1>5, CloseWriterKeepsFraming DEF Join
<1>6. CASE ReceiveField
  BY <1>6, PieceKeepsFraming, SizeKeepsFraming DEF ReceiveField
<1>7. ASSUME NEW p \in Packet, ReceiveWhole(p)
      PROVE  Framing'
  BY <1>7, PacketKeepsFraming DEF ReceiveWhole
<1>8. CASE ReaderLeaves
  BY <1>8, CloseReaderKeepsFraming DEF ReaderLeaves
<1>9. CASE UNCHANGED deliveryVars
  BY <1>1, <1>9 DEF deliveryVars, connectionVars
<1> QED
  BY <1>2, <1>3, <1>4, <1>5, <1>6, <1>7, <1>8, <1>9
     DEF DeliveryNext, ServerStep, ConsumerStep, ReaderStep

\* The steps that send or close change the link in one direction only.
LEMMA LinkSteps ==
    ASSUME Framing
    PROVE  /\ \A p \in Packet : Send(p) => /\ link # "open" => link' # "open"
                                           /\ link # "closed" => link' # "closed"
           /\ CloseWriter => link' # "open"
           /\ CloseReader => link' = "reset"
           /\ ReceiveField => link' = link
           /\ \A p \in Packet : ReceiveWhole(p) => link' = link
  BY DEF Send, CloseWriter, CloseReader, ReceiveField, ReceivePiece, ReceiveSize,
         ReceiveWhole, ReceivePacket, Framing, ConnectionTypeOK

\* The consumer and the handler keep their order.
LEMMA OrderlyStep ==
    ASSUME Framing, SessionTypeOK, Orderly, [DeliveryNext]_deliveryVars
    PROVE  Orderly'
<1>1. CASE Insert
  BY <1>1 DEF Insert, Orderly, connectionVars
<1>2. CASE Notify
  BY <1>2 DEF Notify, Orderly, connectionVars
<1>3. CASE CheckStop
  BY <1>3 DEF CheckStop, ConsumerVarsOnly, Orderly, connectionVars
<1>4. CASE LookAtQueue
  <2>1. consumer \in {"entering", "awake"} /\ link' = link /\ held = <<>>
    BY <1>4 DEF LookAtQueue, connectionVars, Orderly
  <2>2. \/ consumer' = "waiting" /\ held' = held
        \/ consumer' = "sending" /\ held' = <<Head(queue)>>
    BY <1>4 DEF LookAtQueue, TakeFront
  <2>3. <<Head(queue)>> # <<>>
    OBVIOUS
  <2> QED
    BY <1>4, <2>1, <2>2, <2>3 DEF LookAtQueue, ConsumerVarsOnly, Orderly
<1>5. CASE ReturnNothing
  BY <1>5 DEF ReturnNothing, ConsumerVarsOnly, Orderly, connectionVars
<1>6. CASE SendData
  <2>1. held[1] \in Notification /\ Send(Data(held[1]))
    BY <1>6, Held DEF SendData, Orderly
  <2>2. Data(held[1]) \in Packet
    BY <2>1, Packets
  <2>3. (link # "open" => link' # "open") /\ (link # "closed" => link' # "closed")
    BY <2>1, <2>2, LinkSteps
  <2> QED
    BY <1>6, <2>3 DEF SendData, ConsumerVarsOnly, Orderly
<1>7. CASE Unsubscribe
  BY <1>7 DEF Unsubscribe, ConsumerVarsOnly, Orderly, connectionVars
<1>8. CASE SpuriousWakeUp
  BY <1>8 DEF SpuriousWakeUp, ConsumerVarsOnly, Orderly, connectionVars
<1>9. CASE TimeOut
  BY <1>9 DEF TimeOut, ConsumerVarsOnly, Orderly, connectionVars
<1>10. CASE SendAnswer
  <2>1. (link # "open" => link' # "open") /\ (link # "closed" => link' # "closed")
    BY <1>10, LinkSteps, Packets DEF SendAnswer
  <2> QED
    BY <1>10, <2>1 DEF SendAnswer, HandlerVarsOnly, Orderly
<1>11. CASE Stop
  BY <1>11 DEF Stop, HandlerVarsOnly, Orderly, connectionVars
<1>12. CASE Join
  <2>1. link' # "open"
    BY <1>12, LinkSteps DEF Join
  <2> QED
    BY <1>12, <2>1 DEF Join, HandlerVarsOnly, Orderly
<1>13. CASE ReceiveField
  <2>1. link' = link
    BY <1>13, LinkSteps
  <2> QED
    BY <1>13, <2>1 DEF ReceiveField, sessionVars, Orderly
<1>14. ASSUME NEW p \in Packet, ReceiveWhole(p)
       PROVE  Orderly'
  <2>1. link' = link
    BY <1>14, LinkSteps
  <2> QED
    BY <1>14, <2>1 DEF ReceiveWhole, sessionVars, Orderly
<1>15. CASE ReaderLeaves
  <2>1. link' = "reset"
    BY <1>15, LinkSteps DEF ReaderLeaves
  <2> QED
    BY <1>15, <2>1 DEF ReaderLeaves, sessionVars, Orderly
<1>16. CASE UNCHANGED deliveryVars
  BY <1>16 DEF deliveryVars, sessionVars, connectionVars, Orderly
<1> QED
  BY <1>1, <1>2, <1>3, <1>4, <1>5, <1>6, <1>7, <1>8, <1>9, <1>10, <1>11, <1>12, <1>13,
     <1>14, <1>15, <1>16 DEF DeliveryNext, ServerStep, ConsumerStep, ReaderStep

\* Every variable of the session keeps its type.
LEMMA SessionTypeStep ==
    ASSUME SessionTypeOK, [DeliveryNext]_deliveryVars
    PROVE  SessionTypeOK'
<1> DEFINE N == Notification
<1>1. queue \in Seq(N) /\ held \in Seq(N) /\ history \in Seq(N) /\ <<>> \in Seq(N)
  BY EmptySeq DEF SessionTypeOK
<1>2. MaxNotifications \in Nat /\ MaxAnswers \in Nat
  BY Sizes
<1>3. CASE Insert
  <2>1. inserted' \in 0 .. MaxNotifications /\ inserted' \in N
    BY <1>2, <1>3 DEF Insert, SessionTypeOK
  <2> HIDE DEF N
  <2>2. Append(queue, inserted') \in Seq(N)
    BY <1>1, <2>1, AppendProperties
  <2>3. queue' \in Seq(Notification)
    BY <1>3, <2>2 DEF Insert, N
  <2> QED
    BY <1>3, <2>1, <2>3 DEF Insert, SessionTypeOK
<1>4. CASE Notify
  BY <1>4 DEF Notify, SessionTypeOK
<1>5. CASE CheckStop
  BY <1>5 DEF CheckStop, ConsumerVarsOnly, SessionTypeOK
<1>6. CASE LookAtQueue
  <2>1. CASE queue = <<>>
    BY <1>6, <2>1 DEF LookAtQueue, ConsumerVarsOnly, SessionTypeOK
  <2>2. CASE queue # <<>>
    <3>1. consumer' = "sending" /\ held' = <<Head(queue)>> /\ queue' = Tail(queue)
      BY <1>6, <2>2 DEF LookAtQueue, TakeFront
    <3> DEFINE h == Head(queue)
    <3> HIDE DEF N
    <3>2. h \in N /\ Tail(queue) \in Seq(N)
      BY <1>1, <2>2, HeadTailProperties
    <3> HIDE DEF h
    <3>3. <<h>> \in Seq(N) /\ Len(<<h>>) <= 1
      BY <3>2
    <3>4. queue' \in Seq(Notification) /\ held' \in Seq(Notification) /\ Len(held') <= 1
      BY <3>1, <3>2, <3>3 DEF h, N
    <3> QED
      BY <1>6, <3>1, <3>4 DEF LookAtQueue, ConsumerVarsOnly, SessionTypeOK
  <2> QED
    BY <2>1, <2>2
<1>7. CASE ReturnNothing
  BY <1>7 DEF ReturnNothing, ConsumerVarsOnly, SessionTypeOK
<1>8. CASE SendData
  <2>1. held' = <<>> /\ Len(<<>>) <= 1 /\ <<>> \in Seq(Notification)
    BY <1>1, <1>8 DEF SendData
  <2> QED
    BY <1>8, <2>1 DEF SendData, ConsumerVarsOnly, SessionTypeOK
<1>9. CASE Unsubscribe
  BY <1>9 DEF Unsubscribe, ConsumerVarsOnly, SessionTypeOK
<1>10. CASE SpuriousWakeUp
  BY <1>10 DEF SpuriousWakeUp, ConsumerVarsOnly, SessionTypeOK
<1>11. CASE TimeOut
  BY <1>11 DEF TimeOut, ConsumerVarsOnly, SessionTypeOK
<1>12. CASE SendAnswer
  <2>1. answers' \in 0 .. MaxAnswers
    BY <1>2, <1>12 DEF SendAnswer, SessionTypeOK
  <2> QED
    BY <1>12, <2>1 DEF SendAnswer, HandlerVarsOnly, SessionTypeOK
<1>13. CASE Stop
  BY <1>13 DEF Stop, HandlerVarsOnly, SessionTypeOK
<1>14. CASE Join
  BY <1>14 DEF Join, HandlerVarsOnly, SessionTypeOK
<1>15. CASE ReceiveField
  BY <1>15 DEF ReceiveField, sessionVars, SessionTypeOK
<1>16. ASSUME NEW p \in Packet, ReceiveWhole(p)
       PROVE  SessionTypeOK'
  <2>1. history' \in Seq(Notification)
    <3>1. CASE p.type = "DATA"
      <4> DEFINE id == p.id
      <4>1. id \in N /\ history' = Append(history, id)
        BY <1>16, <3>1, Packets DEF ReceiveWhole
      <4> HIDE DEF N, id
      <4>2. history' \in Seq(N)
        BY <1>1, <4>1, AppendProperties
      <4> QED
        BY <4>2 DEF N
    <3>2. CASE p.type # "DATA"
      BY <1>1, <1>16, <3>2 DEF ReceiveWhole
    <3> QED
      BY <3>1, <3>2
  <2> QED
    BY <1>16, <2>1 DEF ReceiveWhole, sessionVars, SessionTypeOK
<1>17. CASE ReaderLeaves
  BY <1>17 DEF ReaderLeaves, sessionVars, SessionTypeOK
<1>18. CASE UNCHANGED deliveryVars
  BY <1>18 DEF deliveryVars, sessionVars, SessionTypeOK
<1> QED
  BY <1>3, <1>4, <1>5, <1>6, <1>7, <1>8, <1>9, <1>10, <1>11, <1>12, <1>13,
     <1>14, <1>15, <1>16, <1>17, <1>18 DEF DeliveryNext, ServerStep, ConsumerStep, ReaderStep

\* Whatever the pieces in which recv() cuts the stream, the reader is always at the
\* beginning of a field, and what follows are packets (TCPConnection::receiveAll,
\* receive); and the consumer leaves only when told to, before its connection is
\* deleted (ConnectionHandler::run).
THEOREM DeliveryInvariant == DeliverySpec => []DeliveryInv
<1>1. DeliveryInit => DeliveryInv
  BY DeliveryInitially
<1>2. DeliveryInv /\ [DeliveryNext]_deliveryVars => DeliveryInv'
  <2> SUFFICES ASSUME DeliveryInv, [DeliveryNext]_deliveryVars
               PROVE  DeliveryInv'
    OBVIOUS
  <2>1. Framing /\ SessionTypeOK /\ Orderly
    BY InvIsParts
  <2>2. Framing' /\ SessionTypeOK' /\ Orderly'
    BY <2>1, FramingStep, SessionTypeStep, OrderlyStep
  <2> QED
    BY <2>2, InvIsParts DEF DeliveryInv, DeliveryTypeOK, Framing, SessionTypeOK
<1> QED
  BY <1>1, <1>2, PTL DEF DeliverySpec
-----------------------------------------------------------------------------
(* The session is a channel.                                               *)

\* A sequence in front of another, one of which changes at an end.
LEMMA ConcatEnds ==
    ASSUME NEW T, NEW a \in Seq(T), NEW b \in Seq(T), NEW m \in T
    PROVE  /\ a \o Append(b, m) = Append(a \o b, m)
           /\ Append(a, m) \o b = a \o (<<m>> \o b)
           /\ Len(a) \in 0 .. Len(a \o b) /\ SubSeq(a \o b, 1, Len(a)) = a
           /\ a # <<>> => /\ a \o b # <<>> /\ Head(a \o b) = Head(a)
                          /\ Tail(a \o b) = Tail(a) \o b
<1>1. /\ a \o b \in Seq(T) /\ Len(a \o b) = Len(a) + Len(b)
      /\ Len(a) \in Nat /\ Len(b) \in Nat
      /\ \A i \in 1 .. Len(a) : (a \o b)[i] = a[i]
      /\ \A i \in 1 .. Len(b) : (a \o b)[Len(a) + i] = b[i]
  BY Joined
<1>2. <<m>> \in Seq(T)
  OBVIOUS
<1>3. a \o Append(b, m) = Append(a \o b, m)
  <2>1. Append(b, m) = b \o <<m>> /\ Append(a \o b, m) = (a \o b) \o <<m>>
    BY <1>1, AppendIsConcat
  <2>2. (a \o b) \o <<m>> = a \o (b \o <<m>>)
    BY <1>2, ConcatAssociative
  <2> QED
    BY <2>1, <2>2
<1>4. Append(a, m) \o b = a \o (<<m>> \o b)
  <2>1. Append(a, m) = a \o <<m>>
    BY AppendIsConcat
  <2>2. (a \o <<m>>) \o b = a \o (<<m>> \o b)
    BY <1>2, ConcatAssociative
  <2> QED
    BY <2>1, <2>2
<1> DEFINE c == a \o b
           f == SubSeq(c, 1, Len(a))
<1>5. Len(a) \in 0 .. Len(c)
  BY <1>1
<1>6. f = a
  <2> HIDE DEF c
  <2>1. /\ c \in Seq(T) /\ \A i \in 1 .. Len(a) : c[i] = a[i]
    BY <1>1 DEF c
  <2>2. f \in Seq(T) /\ Len(f) = Len(a) /\ \A i \in 1 .. Len(a) : f[i] = c[i]
    BY <1>5, <2>1, Cut
  <2> HIDE DEF f
  <2> QED
    BY <2>1, <2>2, SeqEqual
<1>7. ASSUME a # <<>>
      PROVE  c # <<>> /\ Head(c) = Head(a) /\ Tail(c) = Tail(a) \o b
  <2> DEFINE t == Tail(a)
             u == t \o b
             v == Tail(c)
  <2>1. Len(a) # 0 /\ Len(a) \in Nat /\ 1 \in 1 .. Len(a)
    BY <1>1, <1>7, EmptySeq
  <2>2. /\ t \in Seq(T) /\ Len(t) = Len(a) - 1
        /\ \A i \in 1 .. Len(t) : t[i] = a[i + 1]
    BY <1>7, HeadTailProperties
  <2>3. c \in Seq(T) /\ Len(c) = Len(a) + Len(b) /\ c[1] = a[1]
    BY <1>1, <2>1
  <2>a. /\ \A i \in 1 .. Len(a) : c[i] = a[i]
        /\ \A i \in 1 .. Len(b) : c[Len(a) + i] = b[i]
    BY <1>1
  <2> HIDE DEF c, t
  <2>4. c # <<>>
    BY <1>1, <2>1, <2>3
  <2>5. Head(c) = Head(a)
    BY <1>7, <2>3, <2>4
  <2>6. /\ u \in Seq(T) /\ Len(u) = Len(t) + Len(b)
        /\ \A i \in 1 .. Len(t) : u[i] = t[i]
        /\ \A i \in 1 .. Len(b) : u[Len(t) + i] = b[i]
    <3>1. t \in Seq(T)
      BY <2>2
    <3> QED
      BY <3>1, Joined
  <2>7. /\ v \in Seq(T) /\ Len(v) = Len(c) - 1
        /\ \A i \in 1 .. Len(v) : v[i] = c[i + 1]
    BY <2>3, <2>4, HeadTailProperties
  <2> HIDE DEF u, v
  <2>8. Len(u) = Len(v) /\ Len(v) = (Len(a) - 1) + Len(b)
    BY <1>1, <2>2, <2>3, <2>6, <2>7
  <2>9. ASSUME NEW i \in 1 .. Len(v)
        PROVE  v[i] = u[i]
    <3>1. v[i] = c[i + 1]
      BY <2>7
    <3>2. CASE i <= Len(a) - 1
      <4>1. i \in 1 .. Len(t) /\ i + 1 \in 1 .. Len(a)
        BY <1>1, <2>2, <2>8, <3>2
      <4>2. u[i] = t[i] /\ t[i] = a[i + 1]
        BY <2>2, <2>6, <4>1
      <4>3. c[i + 1] = a[i + 1]
        BY <2>a, <4>1
      <4> QED
        BY <3>1, <4>2, <4>3
    <3>3. CASE ~(i <= Len(a) - 1)
      <4> DEFINE j == i + 1 - Len(a)
      <4>1. j \in 1 .. Len(b) /\ Len(a) + j = i + 1 /\ Len(t) + j = i
        BY <1>1, <2>2, <2>8, <3>3
      <4> HIDE DEF j
      <4>2. c[Len(a) + j] = b[j] /\ u[Len(t) + j] = b[j]
        BY <2>a, <2>6, <4>1
      <4> QED
        BY <3>1, <4>1, <4>2
    <3> QED
      BY <3>2, <3>3
  <2>10. v = u
    BY <2>6, <2>7, <2>8, <2>9, SeqEqual
  <2> QED
    BY <2>4, <2>5, <2>10 DEF u, v, t
<1> QED
  BY <1>3, <1>4, <1>5, <1>6, <1>7

\* The front of a queue and the rest are the queue.
LEMMA HeadThenTail ==
    ASSUME NEW T, NEW s \in Seq(T), s # <<>>
    PROVE  Head(s) \in T /\ Tail(s) \in Seq(T) /\ <<Head(s)>> \o Tail(s) = s
<1> DEFINE h == Head(s)
           t == Tail(s)
           f == <<h>>
           c == f \o t
<1>1. /\ h \in T /\ t \in Seq(T) /\ Len(t) = Len(s) - 1 /\ Len(s) \in Nat
      /\ \A i \in 1 .. Len(t) : t[i] = s[i + 1]
  BY HeadTailProperties, LenProperties
<1>2. h = s[1]
  OBVIOUS
<1> HIDE DEF h, t
<1>3. f \in Seq(T) /\ Len(f) = 1 /\ f[1] = h
  BY <1>1
<1> HIDE DEF f
<1>4. /\ c \in Seq(T) /\ Len(c) = Len(f) + Len(t)
      /\ \A i \in 1 .. Len(f) : c[i] = f[i]
      /\ \A i \in 1 .. Len(t) : c[Len(f) + i] = t[i]
  <2>1. f \in Seq(T) /\ t \in Seq(T)
    BY <1>1, <1>3
  <2> QED
    BY <2>1, Joined
<1> HIDE DEF c
<1>5. Len(c) = Len(s)
  BY <1>1, <1>3, <1>4
<1>6. ASSUME NEW i \in 1 .. Len(c)
      PROVE  c[i] = s[i]
  <2>1. CASE i = 1
    BY <1>2, <1>3, <1>4, <2>1
  <2>2. CASE i # 1
    <3> DEFINE j == i - 1
    <3>1. j \in 1 .. Len(t) /\ 1 + j = i /\ j + 1 = i
      BY <1>1, <1>5, <2>2
    <3> HIDE DEF j
    <3>2. c[1 + j] = t[j] /\ t[j] = s[j + 1]
      BY <1>1, <1>3, <1>4, <3>1
    <3> QED
      BY <3>1, <3>2
  <2> QED
    BY <2>1, <2>2
<1>7. c = s
  BY <1>4, <1>5, <1>6, SeqEqual
<1> QED
  BY <1>1, <1>7 DEF c, f, h, t

\* What a receiver of bytes does to the notifications on the connection.
LEMMA WireAfterReceiving ==
    ASSUME Framing
    PROVE  /\ ReceiveField => OnTheWire' = OnTheWire
           /\ \A p \in Packet : ReceiveWhole(p) =>
                IF p.type = "DATA"
                THEN OnTheWire # <<>> /\ Head(OnTheWire) = p.id /\ OnTheWire' = Tail(OnTheWire)
                ELSE OnTheWire' = OnTheWire
<1>1. ConnectionTypeOK /\ stream \in Seq(Byte) /\ want \in Nat
  BY DEF Framing, ConnectionTypeOK
<1>2. ASSUME NEW n \in 1 .. Len(stream)
      PROVE  /\ n \in 0 .. Len(stream) /\ Len(buffer) \in Nat
             /\ Len(Received(n)) = Len(buffer) + n
             /\ \A i \in 1 .. Len(buffer) + n : Received(n)[i] = Bytes[i]
             /\ \A i \in 1 .. n : stream[i] = Bytes[Len(buffer) + i]
                                  /\ Len(buffer) + i \in DOMAIN Bytes
  <2>1. n \in 0 .. Len(stream)
    OBVIOUS
  <2>2. /\ Bytes \in Seq(Byte) /\ Len(Bytes) = Len(buffer) + Len(stream)
        /\ Len(buffer) \in Nat /\ Len(stream) \in Nat
        /\ Len(Received(n)) = Len(buffer) + n
        /\ \A i \in 1 .. Len(buffer) + n : Received(n)[i] = Bytes[i]
        /\ \A i \in 1 .. Len(stream) : stream[i] = Bytes[Len(buffer) + i]
    BY <1>1, <2>1, Receiving
  <2>3. DOMAIN Bytes = 1 .. Len(Bytes)
    BY <2>2, LenProperties
  <2>4. ASSUME NEW i \in 1 .. n
        PROVE  stream[i] = Bytes[Len(buffer) + i] /\ Len(buffer) + i \in DOMAIN Bytes
    <3>1. i \in 1 .. Len(stream) /\ Len(buffer) + i \in 1 .. Len(Bytes)
      BY <2>2
    <3> QED
      BY <2>2, <2>3, <3>1
  <2> QED
    BY <2>1, <2>2, <2>4
<1>3. \A b : IsLastByte(b) => EndsPacket(b)
  BY DEF IsLastByte, EndsPacket
<1>4. ASSUME ReceivePiece
      PROVE  OnTheWire' = OnTheWire
  <2> PICK n \in 1 .. Len(stream) : n < Remaining /\ stream' = Rest(n)
    BY <1>4 DEF ReceivePiece
  <2>1. \A i \in 1 .. n : ~IsLastByte(stream[i])
    <3> SUFFICES ASSUME NEW i \in 1 .. n, IsLastByte(stream[i])
                 PROVE  FALSE
      OBVIOUS
    <3> DEFINE j == Len(buffer) + i
    <3>1. j \in 1 .. want /\ j # want
      BY <1>1, <1>2 DEF Remaining
    <3>2. j \in DOMAIN Bytes /\ stream[i] = Bytes[j]
      BY <1>2
    <3> HIDE DEF j
    <3>3. EndsPacket(Bytes[j])
      BY <1>3, <3>2
    <3> QED
      BY <3>1, <3>2, <3>3, FieldBytes
  <2>2. Arriving(SubSeq(stream, n + 1, Len(stream))) = Arriving(stream)
    BY <1>1, <1>2, <2>1, ArrivingWithoutAnEnd
  <2> QED
    BY <2>2 DEF OnTheWire, Rest
<1>5. ASSUME ReceiveSize
      PROVE  OnTheWire' = OnTheWire
  <2> PICK n \in 1 .. Len(stream) : Filled(n) /\ stream' = Rest(n)
    BY <1>5 DEF ReceiveSize
  <2>0. field = "size"
    BY <1>5 DEF ReceiveSize
  <2>1. \A i \in 1 .. n : ~IsLastByte(stream[i])
    <3> SUFFICES ASSUME NEW i \in 1 .. n, IsLastByte(stream[i])
                 PROVE  FALSE
      OBVIOUS
    <3> DEFINE j == Len(buffer) + i
    <3>1. j \in 1 .. want
      BY <1>1, <1>2 DEF Filled, Remaining
    <3>2. j \in DOMAIN Bytes /\ stream[i] = Bytes[j]
      BY <1>2
    <3> HIDE DEF j
    <3>3. EndsPacket(Bytes[j])
      BY <1>3, <3>2
    <3> QED
      BY <2>0, <3>1, <3>2, <3>3, FieldBytes
  <2>2. Arriving(SubSeq(stream, n + 1, Len(stream))) = Arriving(stream)
    BY <1>1, <1>2, <2>1, ArrivingWithoutAnEnd
  <2> QED
    BY <2>2 DEF OnTheWire, Rest
<1>6. ASSUME NEW p \in Packet, ReceiveWhole(p)
      PROVE  IF p.type = "DATA"
             THEN OnTheWire # <<>> /\ Head(OnTheWire) = p.id /\ OnTheWire' = Tail(OnTheWire)
             ELSE OnTheWire' = OnTheWire
  <2> PICK n \in 1 .. Len(stream) : Filled(n) /\ Received(n) = Body(p) /\ stream' = Rest(n)
    BY <1>6 DEF ReceiveWhole, ReceivePacket
  <2> DEFINE m == Len(buffer)
  <2>1. m \in Nat /\ m + n = SizeOf(p)
    BY <1>2, BodyOfAPacket
  <2> HIDE DEF m
  <2>2. ASSUME NEW i \in 1 .. n
        PROVE  /\ stream[i] = PacketByte(p, m + i)
               /\ IsLastByte(stream[i]) <=> p.type = "DATA" /\ i = n
    <3>1. m + i \in 1 .. m + n /\ m + i \in 1 .. SizeOf(p) /\ (m + i = SizeOf(p) <=> i = n)
      BY <2>1
    <3> DEFINE j == m + i
    <3>2. stream[i] = Bytes[j] /\ Received(n)[j] = Bytes[j]
      BY <1>2, <3>1 DEF m
    <3>3. /\ Body(p)[j] = PacketByte(p, j)
          /\ IsLastByte(Body(p)[j]) <=> p.type = "DATA" /\ j = SizeOf(p)
      BY <3>1, BodyOfAPacket
    <3>4. stream[i] = Body(p)[j]
      BY <3>2
    <3> QED
      BY <3>1, <3>3, <3>4
  <2>3. CASE p.type = "DATA"
    <3>1. n \in 1 .. n
      OBVIOUS
    <3>2. IsLastByte(stream[n]) /\ stream[n].packet = p
      <4>1. stream[n] = PacketByte(p, m + n) /\ IsLastByte(stream[n])
        BY <2>2, <2>3, <3>1
      <4> QED
        BY <4>1 DEF PacketByte
    <3>3. \A i \in 1 .. n - 1 : ~IsLastByte(stream[i])
      <4> SUFFICES ASSUME NEW i \in 1 .. n - 1
                   PROVE  ~IsLastByte(stream[i])
        OBVIOUS
      <4>1. i \in 1 .. n /\ i # n
        OBVIOUS
      <4> QED
        BY <2>2, <4>1
    <3>4. /\ Arriving(stream) # <<>> /\ Head(Arriving(stream)) = stream[n].packet.id
          /\ Arriving(SubSeq(stream, n + 1, Len(stream))) = Tail(Arriving(stream))
      BY <1>1, <3>2, <3>3, ArrivingWithAnEnd
    <3> QED
      BY <2>3, <3>2, <3>4 DEF OnTheWire, Rest
  <2>4. CASE p.type # "DATA"
    <3>1. \A i \in 1 .. n : ~IsLastByte(stream[i])
      BY <2>2, <2>4
    <3>2. Arriving(SubSeq(stream, n + 1, Len(stream))) = Arriving(stream)
      BY <1>1, <1>2, <3>1, ArrivingWithoutAnEnd
    <3> QED
      BY <2>4, <3>2 DEF OnTheWire, Rest
  <2> QED
    BY <2>3, <2>4
<1> QED
  BY <1>4, <1>5, <1>6 DEF ReceiveField
Broken     == shouldStop \/ link # "open"

ChannelStep == [AsChannel!ChannelNext]_(AsChannel!channelVars)

\* A step of the channel in which nothing happens to it.
LEMMA Stutters ==
    ASSUME InTransit' = InTransit, history' = history, Broken' <=> Broken
    PROVE  ChannelStep
  BY DEF ChannelStep, AsChannel!channelVars, Broken

\* A notification is put in.
LEMMA Puts ==
    ASSUME NEW m \in Notification, InTransit' = Append(InTransit, m), history' = history,
           Broken' <=> Broken
    PROVE  ChannelStep
  BY DEF ChannelStep, AsChannel!ChannelNext, AsChannel!Put, Broken

\* A notification is taken out.
LEMMA Takes ==
    ASSUME InTransit # <<>>, InTransit' = Tail(InTransit),
           history' = Append(history, Head(InTransit)), Broken' <=> Broken
    PROVE  ChannelStep
  BY DEF ChannelStep, AsChannel!ChannelNext, AsChannel!Take, Broken

\* The session breaks, perhaps with the loss of the last notifications.
LEMMA Breaks ==
    ASSUME Broken', NEW n \in 0 .. Len(InTransit), InTransit' = SubSeq(InTransit, 1, n),
           history' = history
    PROVE  ChannelStep
  BY DEF ChannelStep, AsChannel!ChannelNext, AsChannel!Break, Broken

\* What is not on the connection yet.
Waiting == held \o (IF consumer = "ended" THEN <<>> ELSE queue)

\* What is on its way: on the connection, and while that is open in the session.
LEMMA OnItsWay == DeliveryInv =>
           /\ OnTheWire \in Seq(Notification) /\ held \in Seq(Notification)
           /\ queue \in Seq(Notification) /\ Waiting \in Seq(Notification)
           /\ InTransit \in Seq(Notification)
           /\ link = "open" => InTransit = OnTheWire \o Waiting
           /\ link # "open" => InTransit = OnTheWire
           /\ OnTheWire \o <<>> = OnTheWire
<1> SUFFICES ASSUME DeliveryInv
             PROVE  /\ OnTheWire \in Seq(Notification) /\ held \in Seq(Notification)
                    /\ queue \in Seq(Notification) /\ Waiting \in Seq(Notification)
                    /\ InTransit \in Seq(Notification)
                    /\ link = "open" => InTransit = OnTheWire \o Waiting
                    /\ link # "open" => InTransit = OnTheWire
                    /\ OnTheWire \o <<>> = OnTheWire
  OBVIOUS
<1> DEFINE N == Notification
           rest == IF consumer = "ended" THEN <<>> ELSE queue
<1>1. stream \in Seq(Byte) /\ held \in Seq(N) /\ queue \in Seq(N) /\ <<>> \in Seq(N)
  BY EmptySeq DEF DeliveryInv, DeliveryTypeOK, ConnectionTypeOK
<1>2. OnTheWire \in Seq(N)
  <2>1. 0 \in 0 .. Len(stream)
    BY <1>1, LenProperties
  <2> QED
    BY <1>1, <2>1, ArrivingOfPrefix DEF OnTheWire
<1> HIDE DEF N
<1>3. rest \in Seq(N)
  BY <1>1
<1>4. Waiting = held \o rest
  BY DEF Waiting
<1>5. link = "open" => InTransit = (OnTheWire \o held) \o rest
  BY DEF InTransit
<1>6. link # "open" => InTransit = OnTheWire
  BY DEF InTransit
<1> HIDE DEF rest
<1>7. /\ held \o rest \in Seq(N)
      /\ (OnTheWire \o held) \o rest = OnTheWire \o (held \o rest)
  <2>1. held \o rest \in Seq(N)
    BY <1>1, <1>3, ConcatProperties
  <2>2. (OnTheWire \o held) \o rest = OnTheWire \o (held \o rest)
    <3>1. \A x, y, z \in Seq(N) : (x \o y) \o z = x \o (y \o z)
      BY JoiningThree
    <3> QED
      BY <1>1, <1>2, <1>3, <3>1
  <2> QED
    BY <2>1, <2>2
<1>8. OnTheWire \o (held \o rest) \in Seq(N) /\ OnTheWire \o <<>> = OnTheWire
  BY <1>2, <1>7, ConcatProperties, ConcatEmptySeq
<1>9. InTransit \in Seq(N)
  BY <1>2, <1>5, <1>6, <1>7, <1>8
<1> QED
  BY <1>1, <1>2, <1>4, <1>5, <1>6, <1>7, <1>8, <1>9 DEF N

\* The two cases of it.
LEMMA OpenOrNot == DeliveryInv => /\ link = "open" => InTransit = OnTheWire \o Waiting
                                  /\ link # "open" => InTransit = OnTheWire
  BY OnItsWay

\* The same bytes carry the same notifications.
LEMMA SameWire ==
    ASSUME UNCHANGED stream
    PROVE  OnTheWire' = OnTheWire
  BY DEF OnTheWire

\* What is sent is the last of the connection.
LEMMA WireAfterSend ==
    ASSUME Framing, NEW p \in Packet, Send(p)
    PROVE  \/ /\ link = "open" /\ link' = "open"
              /\ OnTheWire' = IF p.type = "DATA" THEN Append(OnTheWire, p.id) ELSE OnTheWire
           \/ link # "open" /\ link' # "open" /\ OnTheWire' = OnTheWire
<1>1. stream \in Seq(Byte)
  BY DEF Framing, ConnectionTypeOK
<1>2. CASE link = "open" /\ stream' = stream \o Serialize(p) /\ link' = link
  BY <1>1, <1>2, ArrivingAfterSend DEF OnTheWire
<1>3. CASE link = "reset" /\ link' \in {"reset", "killed"} /\ stream' = stream
  BY <1>3, SameWire
<1> QED
  BY <1>2, <1>3 DEF Send

\* Every step of a session is one of the channel, or none.
LEMMA StepIsChannelStep ==
    ASSUME DeliveryInv, DeliveryInv', [DeliveryNext]_deliveryVars
    PROVE  ChannelStep
<1> DEFINE N == Notification
           W == OnTheWire
<1>1. Framing /\ SessionTypeOK /\ Orderly
  BY InvIsParts
<1>2. /\ W \in Seq(N) /\ held \in Seq(N) /\ queue \in Seq(N) /\ Waiting \in Seq(N)
      /\ InTransit \in Seq(N)
      /\ link = "open" => InTransit = W \o Waiting
      /\ link # "open" => InTransit = W
      /\ W \o <<>> = W
  BY OnItsWay
<1>3. /\ link' = "open" => InTransit' = W' \o Waiting'
      /\ link' # "open" => InTransit' = W'
  <2>1. (DeliveryInv => /\ link = "open" => InTransit = OnTheWire \o Waiting
                        /\ link # "open" => InTransit = OnTheWire)'
    BY OpenOrNot, PTL
  <2> QED
    BY <2>1
<1>e. <<>> \in Seq(N)
  BY EmptySeq
<1> HIDE DEF N, W
<1>4. ASSUME W' = W, link' = link, Waiting' = Waiting
      PROVE  InTransit' = InTransit
  BY <1>2, <1>3, <1>4
<1>5. UNCHANGED stream => W' = W
  BY SameWire DEF W
<1>6. ASSUME W' = W, link' = link, Waiting' = Waiting, shouldStop' = shouldStop,
             history' = history
      PROVE  ChannelStep
  BY <1>4, <1>6, Stutters DEF Broken

\* The whole of a sequence is a prefix of it.
<1>7. Len(InTransit) \in 0 .. Len(InTransit)
      /\ SubSeq(InTransit, 1, Len(InTransit)) = InTransit
  BY <1>2, SubSeqFull, LenProperties
<1>8. ASSUME InTransit' = InTransit, Broken', history' = history
      PROVE  ChannelStep
  BY <1>7, <1>8, Breaks
<1>10. CASE Insert
  <2>1. /\ consumer # "ended" /\ consumer' = consumer /\ held' = held
        /\ link' = link /\ stream' = stream /\ shouldStop' = shouldStop /\ history' = history
        /\ queue' = Append(queue, inserted') /\ inserted' \in N
    BY <1>1, <1>10, Sizes DEF Insert, connectionVars, SessionTypeOK, N
  <2> DEFINE m == inserted'
  <2>2. Waiting' = Append(Waiting, m)
    <3>1. Waiting = held \o queue /\ Waiting' = held \o Append(queue, m)
      BY <2>1 DEF Waiting
    <3> HIDE DEF m
    <3>2. m \in N
      BY <2>1 DEF m
    <3> QED
      BY <1>2, <3>1, <3>2, ConcatEnds
  <2>3. CASE link = "open"
    <3>1. InTransit' = W \o Append(Waiting, m)
      BY <1>3, <1>5, <2>1, <2>2, <2>3
    <3>2. m \in N
      BY <2>1
    <3> HIDE DEF m
    <3>3. InTransit' = Append(InTransit, m)
      BY <1>2, <2>3, <3>1, <3>2, ConcatEnds
    <3> QED
      BY <2>1, <3>2, <3>3, Puts DEF Broken, N
  <2>4. CASE link # "open"
    <3>1. InTransit' = InTransit
      BY <1>2, <1>3, <1>5, <2>1, <2>4
    <3> QED
      BY <2>1, <3>1, Stutters DEF Broken
  <2> QED
    BY <2>3, <2>4
<1>11. CASE Notify
  <2>1. /\ queue' = queue /\ held' = held /\ UNCHANGED stream /\ link' = link
        /\ shouldStop' = shouldStop /\ history' = history
        /\ consumer' = "ended" <=> consumer = "ended"
    BY <1>11 DEF Notify, connectionVars
  <2> QED
    BY <1>5, <1>6, <2>1 DEF Waiting
<1>12. CASE CheckStop \/ ReturnNothing \/ SpuriousWakeUp \/ TimeOut
  <2>1. /\ queue' = queue /\ held' = held /\ UNCHANGED stream /\ link' = link
        /\ shouldStop' = shouldStop /\ history' = history
        /\ consumer' # "ended" /\ consumer # "ended"
    BY <1>12 DEF CheckStop, ReturnNothing, SpuriousWakeUp, TimeOut, ConsumerVarsOnly,
                 connectionVars
  <2> QED
    BY <1>5, <1>6, <2>1 DEF Waiting
<1>13. CASE LookAtQueue
  <2>1. /\ UNCHANGED stream /\ link' = link /\ shouldStop' = shouldStop /\ history' = history
        /\ consumer # "ended" /\ consumer' # "ended" /\ held = <<>>
    BY <1>1, <1>13 DEF LookAtQueue, ConsumerVarsOnly, connectionVars, Orderly
  <2>2. Waiting = <<>> \o queue /\ Waiting' = held' \o queue'
    BY <2>1 DEF Waiting
  <2>3. Waiting' = Waiting
    <3>1. CASE queue = <<>>
      BY <1>13, <2>1, <2>2, <3>1 DEF LookAtQueue
    <3>2. CASE queue # <<>>
      <4>1. held' = <<Head(queue)>> /\ queue' = Tail(queue)
        BY <1>13, <3>2 DEF LookAtQueue, TakeFront
      <4>2. <<Head(queue)>> \o Tail(queue) = queue
        BY <1>2, <3>2, HeadThenTail
      <4>3. <<>> \o queue = queue
        BY <1>2, ConcatEmptySeq
      <4> QED
        BY <2>2, <4>1, <4>2, <4>3
    <3> QED
      BY <3>1, <3>2
  <2> QED
    BY <1>5, <1>6, <2>1, <2>3
<1>14. CASE SendData
  <2>1. /\ consumer = "sending" /\ consumer' = "checking" /\ held' = <<>> /\ queue' = queue
        /\ shouldStop' = shouldStop /\ history' = history /\ Send(Data(held[1]))
    BY <1>14 DEF SendData, ConsumerVarsOnly
  <2> DEFINE h == held[1]
  <2>2. h \in N /\ Len(held) = 1
    BY <1>1, <2>1, Held DEF Orderly, N
  <2>3. Data(h) \in Packet /\ Data(h).type = "DATA" /\ Data(h).id = h
    BY <2>2, Packets DEF N
  <2> HIDE DEF h
  <2>4. held = <<h>>
    <3>1. held \in Seq(N) /\ Len(held) = 1 /\ held[1] = h
      BY <1>2, <2>2 DEF h
    <3>2. <<h>> \in Seq(N) /\ Len(<<h>>) = 1 /\ <<h>>[1] = h
      BY <2>2
    <3>3. \A i \in 1 .. Len(held) : held[i] = <<h>>[i]
      <4>1. \A i \in 1 .. Len(held) : i = 1
        BY <3>1
      <4> QED
        BY <3>1, <3>2, <4>1
    <3> QED
      BY <3>1, <3>2, <3>3, SeqEqual
  <2>5. \/ link = "open" /\ link' = "open" /\ W' = Append(W, h)
        \/ link # "open" /\ link' # "open" /\ W' = W
    BY <1>1, <2>1, <2>3, WireAfterSend DEF W, h
  <2>6. CASE link = "open" /\ link' = "open" /\ W' = Append(W, h)
    <3>1. Waiting = <<h>> \o queue /\ Waiting' = <<>> \o queue
      BY <2>1, <2>4 DEF Waiting
    <3>2. <<>> \o queue = queue
      BY <1>2, ConcatEmptySeq
    <3>3. InTransit' = Append(W, h) \o queue /\ InTransit = W \o (<<h>> \o queue)
      BY <1>2, <1>3, <2>6, <3>1, <3>2
    <3>4. InTransit' = InTransit
      <4>1. W \in Seq(N) /\ queue \in Seq(N) /\ h \in N
        BY <1>2, <2>2
      <4>2. Append(W, h) \o queue = W \o (<<h>> \o queue)
        BY <4>1, ConcatEnds
      <4> QED
        BY <3>3, <4>2
    <3> QED
      BY <2>1, <2>6, <3>4, Stutters DEF Broken
  <2>7. CASE link # "open" /\ link' # "open" /\ W' = W
    <3>1. InTransit' = InTransit
      BY <1>2, <1>3, <2>7
    <3> QED
      BY <2>1, <2>7, <3>1, Stutters DEF Broken
  <2> QED
    BY <2>5, <2>6, <2>7
<1>15. CASE Unsubscribe
  <2>1. /\ consumer = "leaving" /\ consumer' = "ended" /\ held' = held /\ queue' = queue
        /\ UNCHANGED stream /\ link' = link /\ shouldStop' = shouldStop /\ history' = history
    BY <1>15 DEF Unsubscribe, ConsumerVarsOnly, connectionVars
  <2>2. held = <<>> /\ shouldStop
    BY <1>1, <2>1 DEF Orderly
  <2>3. Broken' /\ (Broken' <=> Broken)
    BY <2>1, <2>2 DEF Broken
  <2>4. CASE link = "open"
    <3>1. Waiting' = <<>>
      <4>1. Waiting' = <<>> \o <<>>
        BY <2>1, <2>2 DEF Waiting
      <4> QED
        BY <1>e, <4>1, ConcatEmptySeq
    <3>2. InTransit' = W
      BY <1>2, <1>3, <1>5, <2>1, <2>4, <3>1
    <3> DEFINE n == Len(W)
    <3>3. InTransit = W \o Waiting
      BY <1>2, <2>4
    <3>4. n \in 0 .. Len(InTransit) /\ SubSeq(InTransit, 1, n) = W
      <4>0. CASE N = {}
        <5>1. \A s \in Seq(N) : s = <<>>
          BY <4>0, ElementOfSeq, EmptySeq, LenProperties
        <5>2. W = <<>> /\ InTransit = <<>> /\ Len(<<>>) = 0
          BY <1>2, <5>1
        <5> QED
          BY <5>2, <1>7
      <4>1. CASE N # {}
        <5> PICK m \in N : TRUE
          BY <4>1
        <5> QED
          BY <1>2, <3>3, ConcatEnds
      <4> QED
        BY <4>0, <4>1
    <3> HIDE DEF n
    <3> QED
      BY <2>1, <2>3, <3>2, <3>4, Breaks
  <2>5. CASE link # "open"
    <3>1. InTransit' = InTransit
      BY <1>2, <1>3, <1>5, <2>1, <2>5
    <3> QED
      BY <2>1, <2>3, <3>1, Stutters
  <2> QED
    BY <2>4, <2>5
<1>16. CASE SendAnswer
  <2>1. /\ consumer' = consumer /\ held' = held /\ queue' = queue
        /\ shouldStop' = shouldStop /\ history' = history /\ Send(Success)
    BY <1>16 DEF SendAnswer, HandlerVarsOnly
  <2>2. Success \in Packet /\ Success.type # "DATA"
    BY Packets
  <2>3. \/ link = "open" /\ link' = "open" /\ W' = W
        \/ link # "open" /\ link' # "open" /\ W' = W
    BY <1>1, <2>1, <2>2, WireAfterSend DEF W
  <2>4. Waiting' = Waiting
    BY <2>1 DEF Waiting
  <2>5. InTransit' = InTransit
    BY <1>2, <1>3, <2>3, <2>4
  <2> QED
    BY <2>1, <2>3, <2>5, Stutters DEF Broken
<1>17. CASE Stop
  <2>1. /\ consumer' = consumer /\ held' = held /\ queue' = queue /\ history' = history
        /\ shouldStop' /\ UNCHANGED stream /\ link' = link
    BY <1>17 DEF Stop, HandlerVarsOnly, connectionVars
  <2>2. InTransit' = InTransit
    BY <1>4, <1>5, <2>1 DEF Waiting
  <2> QED
    BY <1>8, <2>1, <2>2 DEF Broken
<1>18. CASE Join
  <2>1. /\ handler = "joining" /\ consumer = "ended" /\ shouldStop' = shouldStop
        /\ history' = history /\ CloseWriter
    BY <1>18 DEF Join, HandlerVarsOnly
  <2>2. held = <<>> /\ shouldStop
    BY <1>1, <2>1 DEF Orderly
  <2>3. link' # "open"
    BY <1>1, <2>1, LinkSteps
  <2>4. InTransit = W
    <3>1. Waiting = <<>> \o <<>>
      BY <2>1, <2>2 DEF Waiting
    <3>2. Waiting = <<>>
      BY <1>e, <3>1, ConcatEmptySeq
    <3> QED
      BY <1>2, <3>2
  <2>5. InTransit' = W'
    BY <1>3, <2>3
  <2>6. \E k \in 0 .. Len(W) : W' = SubSeq(W, 1, k)
    <3> PICK n \in 0 .. Len(stream) : stream' = SubSeq(stream, 1, n)
      BY <1>1, <2>1, CloseWriterKeepsFraming
    <3>1. stream \in Seq(Byte)
      BY <1>1 DEF Framing, ConnectionTypeOK
    <3> QED
      BY <3>1, ArrivingOfPrefix DEF W, OnTheWire
  <2>7. \E k \in 0 .. Len(InTransit) : InTransit' = SubSeq(InTransit, 1, k)
    BY <2>4, <2>5, <2>6
  <2>8. Broken'
    BY <2>3 DEF Broken
  <2> QED
    BY <2>1, <2>7, <2>8, Breaks
<1>19. CASE ReceiveField
  <2>1. W' = W
    BY <1>1, <1>19, WireAfterReceiving DEF W
  <2>2. link' = link
    BY <1>1, <1>19, LinkSteps
  <2> QED
    BY <1>6, <1>19, <2>1, <2>2 DEF ReceiveField, sessionVars, Waiting
<1>20. ASSUME NEW p \in Packet, ReceiveWhole(p)
       PROVE  ChannelStep
  <2>1. link' = link
    BY <1>1, <1>20, LinkSteps
  <2>2. IF p.type = "DATA"
        THEN W # <<>> /\ Head(W) = p.id /\ W' = Tail(W)
        ELSE W' = W
    BY <1>1, <1>20, WireAfterReceiving DEF W
  <2>3. /\ shouldStop' = shouldStop /\ Waiting' = Waiting
        /\ history' = IF p.type = "DATA" THEN Append(history, p.id) ELSE history
    BY <1>20 DEF ReceiveWhole, sessionVars, Waiting
  <2>4. CASE p.type = "DATA"
    <3>1. InTransit # <<>> /\ Head(InTransit) = Head(W) /\ InTransit' = Tail(InTransit)
      <4>1. CASE link = "open"
        <5> PICK m \in N : m = p.id
          BY <2>4, Packets DEF N
        <5>1. InTransit = W \o Waiting /\ InTransit' = Tail(W) \o Waiting
          BY <1>2, <1>3, <2>1, <2>2, <2>3, <2>4, <4>1
        <5>2. /\ W \o Waiting # <<>> /\ Head(W \o Waiting) = Head(W)
              /\ Tail(W \o Waiting) = Tail(W) \o Waiting
          BY <1>2, <2>2, <2>4, ConcatEnds
        <5> QED
          BY <5>1, <5>2
      <4>2. CASE link # "open"
        BY <1>2, <1>3, <2>1, <2>2, <2>4, <4>2
      <4> QED
        BY <4>1, <4>2
    <3>2. history' = Append(history, Head(InTransit))
      BY <2>2, <2>3, <2>4, <3>1
    <3> QED
      BY <2>1, <2>3, <3>1, <3>2, Takes DEF Broken
  <2>5. CASE p.type # "DATA"
    BY <1>6, <2>1, <2>2, <2>3, <2>5
  <2> QED
    BY <2>4, <2>5
<1>21. CASE ReaderLeaves
  <2>1. link' = "reset" /\ stream' = <<>> /\ history' = history
    BY <1>21 DEF ReaderLeaves, CloseReader
  <2>2. InTransit' = <<>>
    <3>1. W' = Arriving(<<>>)
      BY <2>1 DEF W, OnTheWire
    <3> QED
      BY <1>3, <2>1, <3>1, ArrivingOfNothing
  <2> DEFINE n == 0
  <2>3. n \in 0 .. Len(InTransit) /\ SubSeq(InTransit, 1, n) = <<>>
    BY <1>2, LenProperties, SubSeqEmpty
  <2> HIDE DEF n
  <2>4. Broken'
    BY <2>1 DEF Broken
  <2> QED
    BY <2>1, <2>2, <2>3, <2>4, Breaks
<1>22. CASE UNCHANGED deliveryVars
  BY <1>5, <1>6, <1>22 DEF deliveryVars, sessionVars, connectionVars, Waiting
<1> QED
  BY <1>10, <1>11, <1>12, <1>13, <1>14, <1>15, <1>16, <1>17, <1>18, <1>19, <1>20, <1>21, <1>22
     DEF DeliveryNext, ServerStep, ConsumerStep, ReaderStep

\* Every behaviour of a session is one of the channel: however threads, timeouts and
\* recv() are timed, notifications reach the reader in the order of their insertion,
\* each once and whole, and only the last may be missing, once the session is
\* stopped or an end has closed.
THEOREM DeliveryImplementsChannel == DeliverySpec => ImplementsChannel
<1>1. DeliveryInit => AsChannel!ChannelInit
  <2> SUFFICES ASSUME DeliveryInit
               PROVE  AsChannel!ChannelInit
    OBVIOUS
  <2>1. OnTheWire = <<>>
    BY ArrivingOfNothing DEF DeliveryInit, ConnectionInit, OnTheWire
  <2>2. (<<>> \o <<>>) \o <<>> = <<>>
    <3>1. <<>> \in Seq(Notification)
      BY EmptySeq
    <3>2. <<>> \o <<>> = <<>>
      BY <3>1, ConcatEmptySeq
    <3> QED
      BY <3>2
  <2>3. InTransit = <<>>
    BY <2>1, <2>2 DEF InTransit, DeliveryInit, ConnectionInit
  <2> QED
    BY <2>3 DEF AsChannel!ChannelInit, DeliveryInit, ConnectionInit
<1>2. DeliveryInv /\ DeliveryInv' /\ [DeliveryNext]_deliveryVars
         => [AsChannel!ChannelNext]_(AsChannel!channelVars)
  BY StepIsChannelStep DEF ChannelStep
<1> QED
  BY <1>1, <1>2, DeliveryInvariant, PTL
     DEF DeliverySpec, ImplementsChannel, AsChannel!ChannelSpec

\* What the type invariant says holds of every reachable state.
COROLLARY DeliveryTypeCorrect == DeliverySpec => []DeliveryTypeOK
<1>1. DeliveryInv => DeliveryTypeOK
  BY DEF DeliveryInv
<1> QED
  BY <1>1, DeliveryInvariant, PTL

=============================================================================
