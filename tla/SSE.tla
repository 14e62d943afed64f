------------------------------- MODULE SSE -------------------------------
(***************************************************************************)
(* Order events for the admins: publish_admin_order_event publishes to a   *)
(* Redis channel, the one listener task of SSEManager fans every message   *)
(* out to a bounded queue per client, and GET /admin/realtime/orders       *)
(* streams its queue to the client.                                        *)
(*                                                                         *)
(*   Redis -> inbox -> listener -> queue[c] -> held[c] -> client c         *)
(*                                                                         *)
(* A message is its number in the order Redis published it.  The fan-out   *)
(* is one step: no holder of the lock awaits anything, so the lock is      *)
(* always free, and put_nowait does not await.                             *)
(***************************************************************************)
EXTENDS Integers, Sequences, SequencesExt, FiniteSets

CONSTANTS Clients,   \* requests of admins for the stream
          Capacity,  \* maxsize of a client's queue (100 in the code)
          MaxMessages,  \* bound on the messages published
          MaxBreaks  \* bound on the breaks of the Redis subscription

ASSUME BoundsAssumption ==
    /\ Capacity \in Nat \ {0}
    /\ MaxMessages \in Nat
    /\ MaxBreaks \in Nat

VARIABLES published,      \* messages published so far
          subscribed,     \* Redis has the subscription of this process
          inbox,          \* messages on their way to the listener
          running,        \* SSEManager is connected and its listener runs
          admin_clients,  \* clients whose queue is registered
          queue,          \* the queue of each client
          held,           \* message each generator is sending, or 0
          stage,          \* where each generator is
          gone,           \* clients that closed their connection
          breaks,         \* breaks of the subscription so far
          offered,        \* history: what was fanned out to each queue
          heard           \* history: what each client received

managerVars == <<subscribed, inbox, running, breaks>>
clientVars == <<admin_clients, queue, held, stage, gone, offered, heard>>
vars == <<published, managerVars, clientVars>>

Stages == {"away", "check", "wait", "send", "closed"}
Messages == 1..MaxMessages

TypeOK ==
    /\ published \in 0..MaxMessages
    /\ subscribed \in BOOLEAN
    /\ inbox \in Seq(Messages)
    /\ running \in BOOLEAN
    /\ admin_clients \subseteq Clients
    /\ queue \in [Clients -> Seq(Messages)]
    /\ \A c \in Clients : Len(queue[c]) <= Capacity
    /\ held \in [Clients -> 0..MaxMessages]
    /\ stage \in [Clients -> Stages]
    /\ gone \subseteq Clients
    /\ breaks \in 0..MaxBreaks
    /\ offered \in [Clients -> Seq(Messages)]
    /\ heard \in [Clients -> Seq(Messages)]

Init ==
    /\ published = 0
    /\ subscribed = FALSE
    /\ inbox = <<>>
    /\ running = FALSE
    /\ admin_clients = {}
    /\ queue = [c \in Clients |-> <<>>]
    /\ held = [c \in Clients |-> 0]
    /\ stage = [c \in Clients |-> "away"]
    /\ gone = {}
    /\ breaks = 0
    /\ offered = [c \in Clients |-> <<>>]
    /\ heard = [c \in Clients |-> <<>>]

----------------------------------------------------------------------------
\* The manager.

(* lifespan: SSEManager.connect, before any request is served. *)
Connect ==
    /\ ~running
    /\ running' = TRUE
    /\ subscribed' = TRUE
    /\ UNCHANGED <<published, inbox, breaks, clientVars>>

(* SSEManager.disconnect: the server shuts down once its streams have      *)
(* ended; a restart connects again.  Messages the listener has not read    *)
(* yet are dropped.                                                        *)
Disconnect ==
    /\ running
    /\ \A c \in Clients : stage[c] \in {"away", "closed"}
    /\ running' = FALSE
    /\ subscribed' = FALSE
    /\ inbox' = <<>>
    /\ admin_clients' = {}
    /\ UNCHANGED <<published, breaks, queue, held, stage, gone, offered, heard>>

(* PUBLISH reaches the subscribers of that moment. *)
Publish ==
    /\ published < MaxMessages
    /\ published' = published + 1
    /\ inbox' = IF subscribed THEN Append(inbox, published') ELSE inbox
    /\ UNCHANGED <<subscribed, running, breaks, clientVars>>

(* The connection of the subscription breaks; what was on its way is lost. *)
Break ==
    /\ subscribed
    /\ breaks < MaxBreaks
    /\ breaks' = breaks + 1
    /\ subscribed' = FALSE
    /\ inbox' = <<>>
    /\ UNCHANGED <<published, running, clientVars>>

(* get_message raises, the loop logs it and polls again, and the client    *)
(* library connects and subscribes anew.                                   *)
Resubscribe ==
    /\ running
    /\ ~subscribed
    /\ subscribed' = TRUE
    /\ UNCHANGED <<published, inbox, running, breaks, clientVars>>

(* Faulty variant: a queue without maxsize.                                *)
FaultyOfferUnbounded(q, m) == Append(q, m)

(* Faulty variant: a full queue refuses the new message.                   *)
FaultyOffer(q, m) == IF Len(q) >= Capacity THEN q ELSE Append(q, m)

(* Faulty variant: the oldest message goes while there is room for one.    *)
FaultyOfferEarly(q, m) == IF Len(q) >= Capacity - 1 THEN Append(Tail(q), m) ELSE Append(q, m)

(* put_nowait, after get_nowait when the queue is full. *)
Offer(q, m) == IF Len(q) >= Capacity THEN Append(Tail(q), m) ELSE Append(q, m)

(* Faulty variant: a message is tried again while some queue is full.      *)
FaultyFanout ==
    /\ running
    /\ inbox # <<>>
    /\ inbox' = IF \E c \in admin_clients : Len(queue[c]) = Capacity
                THEN inbox ELSE Tail(inbox)
    /\ queue' = [c \in Clients |-> IF c \in admin_clients
                                   THEN Offer(queue[c], Head(inbox)) ELSE queue[c]]
    /\ offered' = [c \in Clients |-> IF c \in admin_clients
                                     THEN Append(offered[c], Head(inbox)) ELSE offered[c]]
    /\ UNCHANGED <<published, subscribed, running, breaks,
                   admin_clients, held, stage, gone, heard>>

(* The listener takes a message, and _fanout_admin offers it to all.       *)
Fanout ==
    /\ running
    /\ inbox # <<>>
    /\ inbox' = Tail(inbox)
    /\ queue' = [c \in Clients |-> IF c \in admin_clients
                                   THEN Offer(queue[c], Head(inbox)) ELSE queue[c]]
    /\ offered' = [c \in Clients |-> IF c \in admin_clients
                                     THEN Append(offered[c], Head(inbox)) ELSE offered[c]]
    /\ UNCHANGED <<published, subscribed, running, breaks,
                   admin_clients, held, stage, gone, heard>>

----------------------------------------------------------------------------
\* A stream.

(* The generator of client c goes on to another stage. *)
Go(c, to) == stage' = [stage EXCEPT ![c] = to]

(* subscribe_admin *)
Subscribe(c) ==
    /\ running
    /\ stage[c] = "away"
    /\ admin_clients' = admin_clients \cup {c}
    /\ Go(c, "check")
    /\ UNCHANGED <<published, managerVars, queue, held, gone, offered, heard>>

(* The finally clause: unsubscribe_admin. *)
Close(c) ==
    /\ admin_clients' = admin_clients \ {c}
    /\ Go(c, "closed")

(* request.is_disconnected() *)
Check(c) ==
    /\ stage[c] = "check"
    /\ \/ c \in gone /\ Close(c)
       \/ c \notin gone /\ Go(c, "wait") /\ UNCHANGED admin_clients
    /\ UNCHANGED <<published, managerVars, queue, held, gone, offered, heard>>

(* queue.get() *)
Take(c) ==
    /\ stage[c] = "wait"
    /\ queue[c] # <<>>
    /\ held' = [held EXCEPT ![c] = Head(queue[c])]
    /\ queue' = [queue EXCEPT ![c] = Tail(@)]
    /\ Go(c, "send")
    /\ UNCHANGED <<published, managerVars, admin_clients, gone, offered, heard>>

(* wait_for times out and a ping is sent: at the latest moment, when a     *)
(* message has just been put, the message stays in the queue.              *)
Ping(c) ==
    /\ stage[c] = "wait"
    /\ Go(c, "check")
    /\ UNCHANGED <<published, managerVars, admin_clients, queue, held, gone,
                   offered, heard>>

(* A frame is handed to the connection; a client that is slow to read      *)
(* delays this step for as long as it likes.                               *)
Send(c) ==
    /\ stage[c] = "send"
    /\ heard' = [heard EXCEPT ![c] = IF c \in gone THEN @ ELSE Append(@, held[c])]
    /\ held' = [held EXCEPT ![c] = 0]
    /\ Go(c, "check")
    /\ UNCHANGED <<published, managerVars, admin_clients, queue, gone, offered>>

(* Faulty variant: the queue is left registered when a stream is cancelled. *)
FaultyCancel(c) ==
    /\ c \in gone
    /\ stage[c] \in {"wait", "send"}
    /\ Go(c, "closed")
    /\ held' = [held EXCEPT ![c] = 0]
    /\ UNCHANGED <<published, managerVars, admin_clients, queue, gone, offered, heard>>

(* The server sees the disconnect first and cancels the response: the      *)
(* finally clause runs wherever the generator was.                         *)
Cancel(c) ==
    /\ c \in gone
    /\ stage[c] \in {"wait", "send"}
    /\ Close(c)
    /\ held' = [held EXCEPT ![c] = 0]
    /\ UNCHANGED <<published, managerVars, queue, gone, offered, heard>>

(* The client closes its connection, or the connection breaks. *)
Leave(c) ==
    /\ stage[c] \in {"check", "wait", "send"}
    /\ c \notin gone
    /\ gone' = gone \cup {c}
    /\ UNCHANGED <<published, managerVars, admin_clients, queue, held, stage,
                   offered, heard>>

StreamStep(c) == Check(c) \/ Take(c) \/ Ping(c) \/ Send(c) \/ Cancel(c)

ManagerStep == Resubscribe \/ Fanout

Next ==
    \/ Connect \/ Disconnect \/ Publish \/ Break \/ ManagerStep
    \/ \E c \in Clients : Subscribe(c) \/ Leave(c) \/ StreamStep(c)

Spec == Init /\ [][Next]_vars

(* The listener and the generators are scheduled, a subscription that      *)
(* broke is made again, and a client reads what it is sent or leaves.  A   *)
(* timeout passes over a message only when that comes in the same moment:  *)
(* one that is there when queue.get() is called is taken without waiting,  *)
(* so pings cannot keep it for ever (strong fairness of Take).             *)
FairSpec ==
    /\ Spec
    /\ WF_vars(ManagerStep)
    /\ \A c \in Clients : WF_vars(StreamStep(c)) /\ SF_vars(Take(c))

----------------------------------------------------------------------------
\* Properties.

(* What a client has, holds and is still to get, in that order. *)
Seen(c) ==
    heard[c] \o (IF held[c] = 0 THEN <<>> ELSE <<held[c]>>) \o queue[c]

(* A client hears events in the order they were published and none twice,  *)
(* across full queues and broken subscriptions.                            *)
HeardInOrder ==
    \A c \in Clients : \A i, j \in DOMAIN Seen(c) :
        i < j => Seen(c)[i] < Seen(c)[j]

(* A full queue drops its oldest events and keeps the newest state flowing *)
(* (sse_manager.py:156): what waits for a client is the latest it was      *)
(* offered, without a gap.                                                 *)
PendingIsNewest ==
    \A c \in Clients : IsSuffix(queue[c], offered[c])

(* Only a client that falls behind by a whole queue misses an event: an    *)
(* event it was offered and will not see has Capacity newer ones.          *)
OnlyLateMiss ==
    \A c \in Clients \ gone : \A i \in DOMAIN offered[c] :
        offered[c][i] \notin ToSet(Seen(c)) => Len(offered[c]) - i >= Capacity

(* What the admins may rely on, and that the stream keeps it: the comments *)
(* "drop oldest ... to keep newest state flowing" (sse_manager.py:156) and *)
(* the order of the channel, said of what a client hears.                  *)
Events == INSTANCE Feed
ImplementsFeed == Events!Spec

(* No disconnected client leaves a queue behind (realtime/router.py:41).   *)
NoLeak ==
    \A c \in Clients : c \in gone ~> c \notin admin_clients

(* An event on its way to the process reaches every client that is         *)
(* connected, or newer events take its place, unless the subscription      *)
(* breaks under it or the client leaves.                                   *)
EventArrives ==
    \A c \in Clients : \A m \in Messages :
        (c \in admin_clients /\ m \in ToSet(inbox))
            ~> (\/ heard[c] # <<>> /\ heard[c][Len(heard[c])] >= m
                \/ m \notin ToSet(inbox \o offered[c])
                \/ c \in gone)

=============================================================================
