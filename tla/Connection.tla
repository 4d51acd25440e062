----------------------------- MODULE Connection -----------------------------
(***************************************************************************)
(* One direction of a TCPConnection: packets become a stream of bytes, the *)
(* stream arrives in pieces of any length, and the reader cuts it into     *)
(* packets again by the size field in front of each (Packet::serialize,    *)
(* TCPConnection::receiveAll, receive).                                    *)
(*                                                                         *)
(* A byte of the size field is the size it spells; a byte of the rest of a *)
(* packet is the packet and its position.  One ::send() of a whole packet  *)
(* is one write: two threads may share a connection.                       *)
(***************************************************************************)
EXTENDS Integers, Sequences

CONSTANTS
    sizeFieldLength,   \* Packet::sizeFieldLength; 10 in the code
    Packet,            \* the packets that are sent
    SizeOf(_)          \* packet -> length of its header and payload

ASSUME ConnectionAssumption ==
    /\ sizeFieldLength \in Nat \ {0}
    /\ \A p \in Packet : SizeOf(p) \in Nat \ {0}

VARIABLES
    stream,   \* bytes sent and not yet received
    buffer,   \* bytes of the current field, in receiveAll
    want,     \* length of that field
    field,    \* "size" or "packet"
    link      \* "open", "closed" by the writer, "reset", or the writer was "killed"

connectionVars == <<stream, buffer, want, field, link>>

SizeByte(n)    == [size |-> n]
PacketByte(p, i) == [packet |-> p, position |-> i]
Byte == [size : {SizeOf(p) : p \in Packet}]
        \cup UNION {[packet : {p}, position : 1 .. SizeOf(p)] : p \in Packet}

\* Packet::serialize: the size field and the header and payload behind it.
Body(p)      == [i \in 1 .. SizeOf(p) |-> PacketByte(p, i)]
Serialize(p) == [i \in 1 .. sizeFieldLength |-> SizeByte(SizeOf(p))] \o Body(p)

ConnectionInit ==
    /\ stream = <<>>
    /\ buffer = <<>>
    /\ want = sizeFieldLength
    /\ field = "size"
    /\ link = "open"
-----------------------------------------------------------------------------
(* The writer.                                                             *)

\* ::send() of a whole packet.  To a reader that is gone it is lost, or raises
\* SIGPIPE, which nobody handles.
Send(p) ==
    /\ \/ /\ link = "open"
          /\ stream' = stream \o Serialize(p)
          /\ UNCHANGED link
       \/ /\ link = "reset"
          /\ link' \in {"reset", "killed"}
          /\ UNCHANGED stream
    /\ UNCHANGED <<buffer, want, field>>

\* ::close(): what was sent may still be read, unless the other end has sent
\* something that was not: then the kernel resets the connection.
CloseWriter ==
    /\ link' = IF link = "open" THEN "closed" ELSE link
    /\ \E n \in 0 .. Len(stream) : stream' = SubSeq(stream, 1, n)
    /\ UNCHANGED <<buffer, want, field>>
-----------------------------------------------------------------------------
(* The reader.                                                             *)

\* recv() gives some of the bytes that are there, never more than are asked for.
Remaining   == want - Len(buffer)
Received(n) == buffer \o SubSeq(stream, 1, n)
Rest(n)     == SubSeq(stream, n + 1, Len(stream))

\* Mutant of Filled: recv() is called once, whatever it gives.
ReadOnce(n) == n <= Remaining

\* The loop of receiveAll ends.
Filled(n) == n = Remaining

\* The loop of receiveAll goes on.
ReceivePiece ==
    /\ \E n \in 1 .. Len(stream) :
          /\ n < Remaining
          /\ buffer' = Received(n)
          /\ stream' = Rest(n)
    /\ UNCHANGED <<want, field, link>>

\* The size field is complete: std::stoul.
ReceiveSize ==
    /\ field = "size"
    /\ \E n \in 1 .. Len(stream) :
          /\ Filled(n)
          /\ want' = Received(n)[1].size
          /\ stream' = Rest(n)
    /\ field' = "packet"
    /\ buffer' = <<>>
    /\ UNCHANGED link

\* The packet is complete: Packet::deserialize, and receive() returns p.
ReceivePacket(p) ==
    /\ field = "packet"
    /\ \E n \in 1 .. Len(stream) :
          /\ Filled(n)
          /\ Received(n) = Body(p)
          /\ stream' = Rest(n)
    /\ want' = sizeFieldLength
    /\ field' = "size"
    /\ buffer' = <<>>
    /\ UNCHANGED link

\* Nothing is left to read and the writer has closed: receive() returns NULL.
AtEnd == stream = <<>> /\ link = "closed"

\* The process of the reader ends.
CloseReader ==
    /\ link = "open"
    /\ link' = "reset"
    /\ stream' = <<>>
    /\ UNCHANGED <<buffer, want, field>>
-----------------------------------------------------------------------------
ConnectionTypeOK ==
    /\ stream \in Seq(Byte)
    /\ buffer \in Seq(Byte)
    /\ want \in Nat
    /\ field \in {"size", "packet"}
    /\ link \in {"open", "closed", "reset", "killed"}
=============================================================================
