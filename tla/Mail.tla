------------------------------ MODULE Mail ------------------------------
(***************************************************************************)
(* Mails: the API publishes them to a durable queue of RabbitMQ, and the   *)
(* SMTP worker, a process of its own, consumes it one message at a time:   *)
(*                                                                         *)
(*   published -> queue -> worker: send -> arrived, acknowledged           *)
(*                                    '--> lost, rejected for good         *)
(*                                                                         *)
(* A message is named by the request that published it.  Publishing goes   *)
(* through the default exchange, which drops a message for a queue nobody  *)
(* has declared yet; the worker declares it when it first starts.  What    *)
(* the broker holds survives (delivery_mode 2, durable queue), and a       *)
(* message that is neither acknowledged nor rejected when the worker dies  *)
(* goes back to the place it had.                                          *)
(***************************************************************************)
EXTENDS Deployment, Sequences

VARIABLES declared,   \* the queue exists
          queue,      \* messages ready for the worker
          worker,     \* what the worker is doing
          arrived,    \* mails handed to the mail server, in order
          lost,       \* messages dropped or rejected
          published   \* history: messages the queue accepted, in order

mailVars == <<declared, queue, worker, arrived, lost, published>>

Down == [stage |-> "down"]
Idle == [stage |-> "idle"]
Working == [stage : {"send", "ack"}, mail : Requests]
Busy == worker \notin {Down, Idle}

MailTypeOK ==
    /\ declared \in BOOLEAN
    /\ queue \in Seq(Requests)
    /\ worker \in {Down, Idle} \cup Working
    /\ arrived \in Seq(Requests)
    /\ lost \subseteq Requests
    /\ published \in Seq(Requests)

MailInit ==
    /\ declared = FALSE
    /\ queue = <<>>
    /\ worker = Down
    /\ arrived = <<>>
    /\ lost = {}
    /\ published = <<>>

----------------------------------------------------------------------------

(* messaging_service.publish *)
Enqueue(m) ==
    /\ \/ /\ declared
          /\ queue' = Append(queue, m)
          /\ published' = Append(published, m)
          /\ UNCHANGED lost
       \/ /\ ~declared
          /\ lost' = lost \cup {m}
          /\ UNCHANGED <<queue, published>>
    /\ UNCHANGED <<declared, worker, arrived>>

(* start_email_worker; Docker starts it again whenever it died. *)
StartWorker ==
    /\ worker = Down
    /\ worker' = Idle
    /\ declared' = TRUE
    /\ UNCHANGED <<queue, arrived, lost, published>>

(* prefetch_count=1: the next message comes when the last one is settled.  *)
Take ==
    /\ worker = Idle
    /\ queue # <<>>
    /\ worker' = [stage |-> "send", mail |-> Head(queue)]
    /\ queue' = Tail(queue)
    /\ UNCHANGED <<declared, arrived, lost, published>>

(* _send_smtp *)
SendMail ==
    /\ worker.stage = "send"
    /\ arrived' = Append(arrived, worker.mail)
    /\ worker' = [worker EXCEPT !.stage = "ack"]
    /\ UNCHANGED <<declared, queue, lost, published>>

(* Faulty variant: nobody acknowledges a mail that was sent.               *)
FaultyAcknowledge ==
    /\ worker.stage = "ack"
    /\ worker' = [worker EXCEPT !.stage = "unsettled"]
    /\ UNCHANGED <<declared, queue, arrived, lost, published>>

(* message.process() leaves without an exception. *)
Acknowledge ==
    /\ worker.stage = "ack"
    /\ worker' = Idle
    /\ UNCHANGED <<declared, queue, arrived, lost, published>>

(* SMTP raises, the mail accepted or not: message.process() rejects the    *)
(* message without requeueing it.                                          *)
SendFails ==
    /\ worker.stage = "send"
    /\ Fault
    /\ worker' = Idle
    /\ lost' = lost \cup {worker.mail}
    /\ arrived' = Append(arrived, worker.mail) \/ UNCHANGED arrived
    /\ UNCHANGED <<declared, queue, published>>

(* Faulty variant: the broker took the message as settled when it gave it. *)
FaultyWorkerCrash ==
    /\ worker # Down
    /\ Fault
    /\ worker' = Down
    /\ UNCHANGED <<declared, queue, arrived, lost, published>>

(* The worker process dies; the broker takes its message back. *)
WorkerCrash ==
    /\ worker # Down
    /\ Fault
    /\ worker' = Down
    /\ queue' = IF Busy THEN <<worker.mail>> \o queue ELSE queue
    /\ UNCHANGED <<declared, arrived, lost, published>>

WorkerStep == StartWorker \/ Take \/ SendMail \/ Acknowledge

MailStep ==
    \/ WorkerStep /\ UNCHANGED faults
    \/ SendFails \/ WorkerCrash

----------------------------------------------------------------------------
\* Properties.

(* The messages the broker still has: the worker's and those in the queue. *)
Pending == (IF Busy THEN <<worker.mail>> ELSE <<>>) \o queue

(* No mail is lost on the way, and none overtakes another: what the broker *)
(* has is the end of what it accepted, everything before that has arrived  *)
(* or was rejected by the mail server, whenever the worker dies.           *)
MailPipeline ==
    LET settled == Len(published) - Len(Pending)
    IN  /\ settled >= 0
        /\ \A i \in 1..Len(published) :
              IF i > settled THEN Pending[i - settled] = published[i]
              ELSE published[i] \in lost \/ \E j \in DOMAIN arrived : arrived[j] = published[i]

(* The whole promise to the API at once: broker and worker are an outbox   *)
(* that loses no mail but a rejected one and lets none overtake another.   *)
Box == INSTANCE Outbox WITH
           sent <- published,
           due <- Len(published) - Len(Pending) + 1
ImplementsOutbox == Box!Spec

(* Mails arrive in the order in which they were published, a mail possibly *)
(* twice in a row: the last mail a customer gets is the newest.            *)
MailsInOrder ==
    \A i, j \in DOMAIN arrived :
        i < j => \E a, b \in DOMAIN published :
                    a <= b /\ published[a] = arrived[i] /\ published[b] = arrived[j]

(* Every mail the queue accepted is sent or rejected in the end, through   *)
(* crashes of the worker.                                                  *)
MailSettled ==
    \A m \in Requests :
        (\E i \in DOMAIN published : published[i] = m)
            ~> (m \in lost \/ \E j \in DOMAIN arrived : arrived[j] = m)

=============================================================================
