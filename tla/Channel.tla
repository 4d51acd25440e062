------------------------------ MODULE Channel ------------------------------
(***************************************************************************)
(* What the path from a notification queue to the receiver of its client   *)
(* promises: what is put in comes out in that order, each once, and only   *)
(* when the session has ended may the last ones be missing.                *)
(***************************************************************************)
EXTENDS Naturals, Sequences

CONSTANT Message

VARIABLES
    inTransit,   \* put in and not taken yet
    received,    \* taken, in order
    broken       \* the session is ending or the connection is lost

channelVars == <<inTransit, received, broken>>

ChannelInit == inTransit = <<>> /\ received = <<>> /\ broken = FALSE

Put(m) ==
    /\ inTransit' = Append(inTransit, m)
    /\ UNCHANGED <<received, broken>>

Take ==
    /\ inTransit # <<>>
    /\ inTransit' = Tail(inTransit)
    /\ received' = Append(received, Head(inTransit))
    /\ UNCHANGED broken

\* The session ends; from then on the youngest messages may be lost.
Break ==
    /\ broken' = TRUE
    /\ \E n \in 0 .. Len(inTransit) : inTransit' = SubSeq(inTransit, 1, n)
    /\ UNCHANGED received

ChannelNext == (\E m \in Message : Put(m)) \/ Take \/ Break

ChannelSpec == ChannelInit /\ [][ChannelNext]_channelVars
=============================================================================
