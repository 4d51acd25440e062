----------------------------- MODULE Mailboxes ------------------------------
(***************************************************************************)
(* What the notification service of the server promises, without saying    *)
(* how: every member has a mailbox.  A message posted to a member goes to  *)
(* everyone who listens to his mailbox, and waits in it if nobody does;    *)
(* whoever starts to listen is handed all that waits, in posting order.    *)
(*                                                                         *)
(* NotificationManager keeps one counted copy of a message in its sender's *)
(* list and references to it in the queues of the followers.  That it      *)
(* implements this module says that the counting never loses a message.    *)
(***************************************************************************)
EXTENDS Domain

VARIABLES
    member,     \* users with a mailbox
    next,       \* number of the next message
    waiting,    \* member -> messages nobody has been handed yet
    listeners,  \* member -> who listens
    inbox       \* listener -> messages handed to him, not yet taken

mailboxVars == <<member, next, waiting, listeners, inbox>>

Message(sender, number) == [sender |-> sender, notificationId |-> number]

MailboxInit ==
    /\ member \subseteq Username
    /\ next = 1
    /\ waiting = [u \in Username |-> <<>>]
    /\ listeners = [u \in Username |-> {}]
    /\ inbox = [c \in Thread |-> <<>>]

Post(s, to) ==
    /\ s \in member
    /\ to \subseteq member
    /\ next' = next + 1
    /\ waiting' = [u \in Username |->
          IF u \in to /\ listeners[u] = {}
          THEN Append(waiting[u], Message(s, next)) ELSE waiting[u]]
    /\ inbox' = [c \in Thread |->
          IF \E u \in to : c \in listeners[u]
          THEN Append(inbox[c], Message(s, next)) ELSE inbox[c]]
    /\ UNCHANGED <<member, listeners>>

Listen(u, c) ==
    /\ member' = member \cup {u}
    /\ listeners' = [listeners EXCEPT ![u] = @ \cup {c}]
    /\ inbox' = [d \in Thread |->
          IF d \in listeners'[u] THEN inbox[d] \o waiting[u] ELSE inbox[d]]
    /\ waiting' = [waiting EXCEPT ![u] = <<>>]
    /\ UNCHANGED next

Leave(u, c) ==
    /\ listeners' = [listeners EXCEPT ![u] = @ \ {c}]
    /\ UNCHANGED <<member, next, waiting, inbox>>

Take(c) ==
    /\ inbox[c] # <<>>
    /\ inbox' = [inbox EXCEPT ![c] = Tail(@)]
    /\ UNCHANGED <<member, next, waiting, listeners>>

MailboxNext ==
    \/ \E s \in Username, to \in SUBSET Username : Post(s, to)
    \/ \E u \in Username, c \in Thread : Listen(u, c) \/ Leave(u, c)
    \/ \E c \in Thread : Take(c)

MailboxSpec == MailboxInit /\ [][MailboxNext]_mailboxVars

=============================================================================
