---------------------------- MODULE Mail_proofs ----------------------------
(***************************************************************************)
(* Lemmas about the way of a mail, for any number of mails, failures and   *)
(* crashes of the worker.  Accounts_proofs makes theorems of them: there   *)
(* is the API that publishes the mails.                                    *)
(***************************************************************************)
EXTENDS Mail, SequenceTheorems, TLAPS

----------------------------------------------------------------------------
\* Types.

LEMMA EnqueueType ==
  ASSUME MailTypeOK, NEW m \in Requests, Enqueue(m)
  PROVE  MailTypeOK'
  <1>1. queue' \in Seq(Requests) /\ published' \in Seq(Requests)
    <2>1. /\ Append(queue, m) \in Seq(Requests)
          /\ Append(published, m) \in Seq(Requests)
      BY AppendProperties DEF MailTypeOK
    <2>2. QED  BY <2>1 DEF Enqueue, MailTypeOK
  <1>2. lost' \subseteq Requests
    BY DEF MailTypeOK, Enqueue
  <1>3. QED  BY <1>1, <1>2 DEF MailTypeOK, Enqueue

LEMMA MailSame ==
  ASSUME MailTypeOK, UNCHANGED mailVars
  PROVE  MailTypeOK'
  BY DEF MailTypeOK, mailVars

LEMMA WorkerFacts ==
  ASSUME MailTypeOK
  PROVE  /\ worker.stage \in {"send", "ack"} => Busy
         /\ Busy => worker \in Working
         /\ Busy => worker.mail \in Requests /\ worker.stage \in {"send", "ack"}
         /\ worker # Down /\ ~Busy => worker = Idle
  BY DEF MailTypeOK, Busy, Down, Idle, Working

LEMMA MailStepType ==
  ASSUME MailTypeOK, faults \in 0..MaxFaults, MailStep
  PROVE  MailTypeOK' /\ faults' \in 0..MaxFaults
  <1>1. CASE StartWorker /\ UNCHANGED faults
    BY <1>1 DEF StartWorker, MailTypeOK
  <1>2. CASE Take /\ UNCHANGED faults
    <2>1. Head(queue) \in Requests /\ Tail(queue) \in Seq(Requests)
      BY <1>2 DEF Take, MailTypeOK
    <2>2. QED  BY <1>2, <2>1 DEF Take, MailTypeOK, Working
  <1>3. CASE SendMail /\ UNCHANGED faults
    BY <1>3, WorkerFacts DEF SendMail, MailTypeOK, Working
  <1>4. CASE Acknowledge /\ UNCHANGED faults
    BY <1>4 DEF Acknowledge, MailTypeOK
  <1>5. CASE SendFails
    <2>1. faults' \in 0..MaxFaults
      BY <1>5, MaxFaultsAssumption DEF SendFails, Fault
    <2>2. QED  BY <1>5, <2>1, WorkerFacts DEF SendFails, MailTypeOK
  <1>6. CASE WorkerCrash
    <2>1. faults' \in 0..MaxFaults
      BY <1>6, MaxFaultsAssumption DEF WorkerCrash, Fault
    <2>2. queue' \in Seq(Requests)
      <3>1. CASE Busy
        <4>1. worker.mail \in Requests
          BY <3>1, WorkerFacts
        <4>2. <<worker.mail>> \in Seq(Requests) /\ queue \in Seq(Requests)
          BY <4>1 DEF MailTypeOK
        <4>3. QED  BY <1>6, <3>1, <4>2, ConcatProperties DEF WorkerCrash
      <3>2. CASE ~Busy
        BY <1>6, <3>2 DEF WorkerCrash, MailTypeOK
      <3>3. QED  BY <3>1, <3>2
    <2>3. QED  BY <1>6, <2>1, <2>2 DEF WorkerCrash, MailTypeOK
  <1>7. QED
    BY <1>1, <1>2, <1>3, <1>4, <1>5, <1>6 DEF MailStep, WorkerStep

----------------------------------------------------------------------------
\* What the broker has.

LEMMA PendingFacts ==
  ASSUME MailTypeOK
  PROVE  /\ Pending \in Seq(Requests)
         /\ Busy => Pending = <<worker.mail>> \o queue
         /\ Busy => Len(Pending) = 1 + Len(queue) /\ Pending[1] = worker.mail
         /\ ~Busy => Pending = queue
  <1>1. queue \in Seq(Requests)
    BY DEF MailTypeOK
  <1>2. CASE Busy
    <2>1. worker.mail \in Requests
      BY <1>2, WorkerFacts
    <2>2. <<worker.mail>> \in Seq(Requests) /\ Len(<<worker.mail>>) = 1 /\ <<worker.mail>>[1] = worker.mail
      BY <2>1
    <2>3. Pending = <<worker.mail>> \o queue
      BY <1>2 DEF Pending
    <2>4. QED  BY <1>1, <1>2, <2>2, <2>3, ConcatProperties
  <1>3. CASE ~Busy
    <2>1. Pending = <<>> \o queue
      BY <1>3 DEF Pending
    <2>2. Pending = queue
      BY <1>1, <2>1, ConcatEmptySeq
    <2>3. QED  BY <1>1, <1>3, <2>2
  <1>4. QED  BY <1>2, <1>3

LEMMA TailOfCons ==
  ASSUME NEW m \in Requests, NEW s \in Seq(Requests)
  PROVE  Tail(<<m>> \o s) = s
  <1> DEFINE c == <<m>> \o s
  <1>1. c \in Seq(Requests) /\ Len(c) = Len(s) + 1 /\ \A i \in 1..Len(s) : c[i + 1] = s[i]
    OBVIOUS
  <1>2. Len(s) \in Nat
    BY LenProperties
  <1> HIDE DEF c
  <1>3. c # <<>>
    BY <1>1, <1>2, EmptySeq
  <1>4. Tail(c) \in Seq(Requests) /\ Len(Tail(c)) = Len(s) /\ \A i \in 1..Len(s) : Tail(c)[i] = c[i + 1]
    BY <1>1, <1>2, <1>3, HeadTailProperties
  <1>5. Tail(c) = s
    BY <1>1, <1>4, SeqEqual
  <1>6. QED  BY <1>5 DEF c

(* The three things that can happen to the mails on their way: what is     *)
(* pending stays, perhaps after the first of it arrived, or a mail comes   *)
(* too early; one comes; the first leaves, and it was the last to arrive   *)
(* or is rejected.                                                         *)
Arrival == arrived' = arrived \/ (Len(Pending) > 0 /\ arrived' = Append(arrived, Pending[1]))
Early == published = <<>> /\ arrived' = arrived /\ \E m \in Requests : lost' = lost \cup {m}
Stays ==
    /\ Pending' = Pending /\ published' = published
    /\ (lost' = lost /\ Arrival) \/ Early
Comes ==
    \E m \in Requests : /\ Pending' = Append(Pending, m)
                        /\ published' = Append(published, m)
                        /\ UNCHANGED <<lost, arrived>>
LastArrived(m) == arrived # <<>> /\ arrived[Len(arrived)] = m
Leaves ==
    /\ Len(Pending) > 0
    /\ Pending' = Tail(Pending) /\ published' = published
    /\ \/ LastArrived(Pending[1]) /\ UNCHANGED <<lost, arrived>>
       \/ lost' = lost \cup {Pending[1]} /\ Arrival

HasArrived(m) == \E i \in DOMAIN arrived : arrived[i] = m

(* A mail to be acknowledged was the last to arrive, and nothing was       *)
(* accepted before the queue was there.                                    *)
WorkerTrue ==
    /\ worker.stage = "ack" => LastArrived(worker.mail)
    /\ declared \/ published = <<>>

LEMMA MovesFacts ==
  ASSUME MailTypeOK
  PROVE  /\ Stays \/ Leaves => lost \subseteq lost' /\ Arrival
         /\ Leaves => Pending[1] \in lost' \/ HasArrived(Pending[1])
  <1>1. \A m : LastArrived(m) => HasArrived(m)
    <2>1. arrived # <<>> => Len(arrived) \in DOMAIN arrived
      BY EmptySeq, LenProperties DEF MailTypeOK
    <2>2. QED  BY <2>1 DEF LastArrived, HasArrived
  <1>2. QED  BY <1>1 DEF Stays, Leaves, Early, Arrival

LEMMA EnqueueMoves ==
  ASSUME MailTypeOK, WorkerTrue, NEW m \in Requests, Enqueue(m)
  PROVE  Stays \/ Comes
  <1>1. Busy' <=> Busy
    BY DEF Enqueue, Busy
  <1>2. CASE declared
    <2>1. queue' = Append(queue, m) /\ worker' = worker
      BY <1>2 DEF Enqueue
    <2>2. Pending' = (IF Busy THEN <<worker.mail>> ELSE <<>>) \o Append(queue, m)
      BY <1>1, <2>1 DEF Pending
    <2>3. Pending' = Append(Pending, m)
      <3>1. ASSUME NEW s \in Seq(Requests)
            PROVE  s \o Append(queue, m) = Append(s \o queue, m)
        <4>1. queue \in Seq(Requests)
          BY DEF MailTypeOK
        <4>2. QED  BY <4>1, AppendIsConcat, ConcatAssociative, ConcatProperties
      <3>2. (IF Busy THEN <<worker.mail>> ELSE <<>>) \in Seq(Requests)
        BY WorkerFacts, EmptySeq
      <3>3. QED  BY <2>2, <3>1, <3>2 DEF Pending
    <2>4. QED  BY <1>2, <2>3 DEF Enqueue, Comes
  <1>3. CASE ~declared
    <2>1. Pending' = Pending
      BY <1>1, <1>3 DEF Enqueue, Pending
    <2>2. QED  BY <1>3, <2>1 DEF Enqueue, Stays, Early, WorkerTrue
  <1>4. QED  BY <1>2, <1>3

LEMMA WorkerMoves ==
  ASSUME MailTypeOK, WorkerTrue, MailStep
  PROVE  Stays \/ Leaves
  <1> USE DEF Arrival
  <1>1. queue \in Seq(Requests)
    BY DEF MailTypeOK
  <1>2. CASE StartWorker
    <2>1. ~Busy /\ ~Busy'
      BY <1>2 DEF StartWorker, Busy
    <2>2. QED  BY <1>2, <2>1 DEF StartWorker, Pending, Stays
  <1>3. CASE Take
    <2>1. ~Busy /\ Busy' /\ worker'.mail = Head(queue) /\ queue' = Tail(queue)
      BY <1>3 DEF Take, Busy, Down, Idle
    <2>2. Pending' = <<Head(queue)>> \o Tail(queue)
      BY <2>1 DEF Pending
    <2>3. Pending' = queue /\ Pending = queue
      BY <1>1, <1>3, <2>1, <2>2, HeadTailProperties, PendingFacts DEF Take
    <2>4. QED  BY <1>3, <2>3 DEF Take, Stays
  <1>4. CASE SendMail
    <2>1. Busy /\ worker \in Working
      BY <1>4, WorkerFacts DEF SendMail
    <2>2. worker' = [worker EXCEPT !.stage = "ack"]
      BY <1>4 DEF SendMail
    <2>3. Busy' /\ worker'.mail = worker.mail /\ queue' = queue
      BY <1>4, <2>1, <2>2 DEF SendMail, Busy, Down, Idle, Working
    <2>4. Pending' = Pending
      BY <2>1, <2>3 DEF Pending
    <2>5. Len(Pending) > 0 /\ Pending[1] = worker.mail
      BY <1>1, <2>1, PendingFacts
    <2>6. QED  BY <1>4, <2>4, <2>5 DEF SendMail, Stays
  <1>5. CASE Acknowledge
    <2>1. Busy /\ ~Busy' /\ queue' = queue
      BY <1>5, WorkerFacts DEF Acknowledge, Busy
    <2>2. worker.mail \in Requests
      BY <2>1, WorkerFacts
    <2>3. Pending' = queue
      BY <1>1, <2>1, ConcatEmptySeq DEF Pending
    <2>4. Tail(Pending) = queue /\ Len(Pending) > 0 /\ Pending[1] = worker.mail
      BY <1>1, <2>1, <2>2, PendingFacts, TailOfCons
    <2>5. LastArrived(Pending[1])
      BY <1>5, <2>4 DEF WorkerTrue, Acknowledge
    <2>6. QED  BY <1>5, <2>3, <2>4, <2>5 DEF Acknowledge, Leaves
  <1>6. CASE SendFails
    <2>1. Busy /\ ~Busy' /\ queue' = queue
      BY <1>6, WorkerFacts DEF SendFails, Busy
    <2>2. worker.mail \in Requests
      BY <2>1, WorkerFacts
    <2>3. Pending' = queue
      BY <1>1, <2>1, ConcatEmptySeq DEF Pending
    <2>4. Tail(Pending) = queue /\ Len(Pending) > 0 /\ Pending[1] = worker.mail
      BY <1>1, <2>1, <2>2, PendingFacts, TailOfCons
    <2>5. QED  BY <1>6, <2>3, <2>4 DEF SendFails, Leaves
  <1>7. CASE WorkerCrash
    <2>1. ~Busy'
      BY <1>7 DEF WorkerCrash, Busy
    <2>2. Pending' = <<>> \o queue'
      BY <2>1 DEF Pending
    <2>3. queue' = Pending
      BY <1>7, PendingFacts DEF WorkerCrash
    <2>4. Pending' = Pending
      BY <2>2, <2>3, PendingFacts, ConcatEmptySeq
    <2>5. QED  BY <1>7, <2>4 DEF WorkerCrash, Stays
  <1>8. QED
    BY <1>2, <1>3, <1>4, <1>5, <1>6, <1>7 DEF MailStep, WorkerStep

LEMMA WorkerTrueStep ==
  ASSUME MailTypeOK, WorkerTrue,
         MailStep \/ (\E m \in Requests : Enqueue(m)) \/ UNCHANGED mailVars
  PROVE  WorkerTrue'
  <1>1. declared' \/ published' = <<>>
    BY DEF WorkerTrue, MailStep, WorkerStep, StartWorker, Take, SendMail, Acknowledge,
           SendFails, WorkerCrash, Enqueue, mailVars
  <1>2. CASE SendMail
    <2>1. worker.mail \in Requests /\ worker \in Working
      BY <1>2, WorkerFacts DEF SendMail
    <2>2. worker'.mail = worker.mail
      BY <1>2, <2>1 DEF SendMail, Working
    <2>3. /\ arrived' # <<>>
          /\ arrived'[Len(arrived')] = worker.mail
      BY <1>2, <2>1, AppendProperties, LenProperties DEF SendMail, MailTypeOK
    <2>4. QED  BY <1>1, <2>2, <2>3 DEF WorkerTrue, LastArrived
  <1>3. CASE ~SendMail
    <2>1. \/ worker' = worker /\ arrived' = arrived
          \/ worker'.stage # "ack"
      BY <1>3 DEF MailStep, WorkerStep, StartWorker, Take, Acknowledge, SendFails, WorkerCrash,
                  Enqueue, mailVars, Down, Idle
    <2>2. QED  BY <1>1, <2>1 DEF WorkerTrue, LastArrived
  <1>4. QED  BY <1>2, <1>3

----------------------------------------------------------------------------
\* The invariant: where every mail the queue accepted is.

Over == Len(published) - Len(Pending)

PendingIsEnd ==
    /\ Over >= 0
    /\ \A i \in 1..Len(Pending) : published[Over + i] = Pending[i]
OverSettled ==
    \A i \in 1..Over : published[i] \in lost \/ HasArrived(published[i])

(* What arrived was published, and its turn had come. *)
ArrivedInTurn ==
    \A i \in DOMAIN arrived :
        \E a \in 1..Len(published) : a <= Over + 1 /\ published[a] = arrived[i]

MailInv == PendingIsEnd /\ OverSettled /\ ArrivedInTurn /\ MailsInOrder

LEMMA ArrivalKeeps ==
  ASSUME MailTypeOK, Arrival, NEW m, HasArrived(m)
  PROVE  HasArrived(m)'
  <1>1. CASE arrived' = arrived
    BY <1>1 DEF HasArrived
  <1>2. CASE Len(Pending) > 0 /\ arrived' = Append(arrived, Pending[1])
    <2>1. Pending[1] \in Requests /\ arrived \in Seq(Requests)
      BY <1>2, PendingFacts DEF MailTypeOK
    <2>2. PICK i \in 1..Len(arrived) : arrived[i] = m
      BY <2>1 DEF HasArrived
    <2>3. i \in DOMAIN arrived' /\ arrived'[i] = m
      BY <1>2, <2>1, <2>2
    <2>4. QED  BY <2>3 DEF HasArrived
  <1>3. QED  BY <1>1, <1>2 DEF Arrival

(* Whatever arrives comes after, and from no later than its turn. *)
LEMMA InTurnKept ==
  ASSUME MailTypeOK, PendingIsEnd, ArrivedInTurn, MailsInOrder, Arrival,
         published' = published
  PROVE  /\ \A i \in DOMAIN arrived' :
               \E a \in 1..Len(published) : a <= Over + 1 /\ published[a] = arrived'[i]
         /\ MailsInOrder'
  <1>1. published \in Seq(Requests) /\ arrived \in Seq(Requests) /\ Pending \in Seq(Requests)
    BY PendingFacts DEF MailTypeOK
  <1>2. Len(published) \in Nat /\ Len(arrived) \in Nat /\ Len(Pending) \in Nat /\ Over \in Int
    BY <1>1, LenProperties DEF Over
  <1>3. CASE arrived' = arrived
    BY <1>3 DEF ArrivedInTurn, MailsInOrder
  <1>4. CASE Len(Pending) > 0 /\ arrived' = Append(arrived, Pending[1])
    <2> DEFINE n == Len(arrived) + 1
    <2>1. Pending[1] \in Requests
      BY <1>1, <1>4
    <2>2. /\ DOMAIN arrived' = 1..n
          /\ \A i \in 1..Len(arrived) : arrived'[i] = arrived[i]
          /\ arrived'[n] = Pending[1]
      BY <1>1, <1>2, <1>4, <2>1
    <2>3. Over + 1 \in 1..Len(published) /\ published[Over + 1] = Pending[1]
      BY <1>2, <1>4 DEF PendingIsEnd, Over
    <2>4. ASSUME NEW i \in 1..n
          PROVE  \E a \in 1..Len(published) : a <= Over + 1 /\ published[a] = arrived'[i]
      <3>1. CASE i = n
        BY <1>2, <2>2, <2>3, <3>1
      <3>2. CASE i # n
        <4>1. i \in 1..Len(arrived) /\ i \in DOMAIN arrived
          BY <1>1, <1>2, <3>2
        <4>2. QED  BY <2>2, <4>1 DEF ArrivedInTurn
      <3>3. QED  BY <3>1, <3>2
    <2>5. ASSUME NEW i \in 1..n, NEW j \in 1..n, i < j
          PROVE  \E a, b \in DOMAIN published :
                    a <= b /\ published[a] = arrived'[i] /\ published[b] = arrived'[j]
      <3>1. DOMAIN published = 1..Len(published) /\ DOMAIN arrived = 1..Len(arrived)
        BY <1>1
      <3>2. CASE j = n
        <4>1. PICK a \in 1..Len(published) : a <= Over + 1 /\ published[a] = arrived'[i]
          BY <2>4
        <4>2. a <= Over + 1 /\ published[Over + 1] = arrived'[j]
          BY <2>2, <2>3, <3>2, <4>1
        <4>3. QED  BY <2>3, <3>1, <4>1, <4>2
      <3>3. CASE j # n
        <4>1. i \in DOMAIN arrived /\ j \in DOMAIN arrived
          BY <1>2, <2>5, <3>1, <3>3
        <4>2. arrived'[i] = arrived[i] /\ arrived'[j] = arrived[j]
          BY <2>2, <3>1, <4>1
        <4>3. QED  BY <2>5, <4>1, <4>2 DEF MailsInOrder
      <3>4. QED  BY <3>2, <3>3
    <2>6. \A i, j \in DOMAIN arrived' :
             i < j => \E a, b \in DOMAIN published' :
                         a <= b /\ published'[a] = arrived'[i] /\ published'[b] = arrived'[j]
      BY <2>2, <2>5
    <2>7. QED  BY <2>2, <2>4, <2>6 DEF MailsInOrder
  <1>5. QED  BY <1>3, <1>4 DEF Arrival

LEMMA StaysInv ==
  ASSUME MailTypeOK, MailInv, Stays
  PROVE  MailInv'
  <1>1. Over' = Over /\ Arrival /\ lost \subseteq lost'
    BY MovesFacts DEF Stays, Over
  <1>2. PendingIsEnd'
    BY <1>1 DEF Stays, MailInv, PendingIsEnd
  <1>3. OverSettled'
    <2>1. ASSUME NEW i \in 1..Over
          PROVE  published[i] \in lost' \/ HasArrived(published[i])'
      BY <1>1, ArrivalKeeps DEF MailInv, OverSettled, Stays
    <2>2. QED  BY <1>1, <2>1 DEF Stays, OverSettled, HasArrived
  <1>4. ArrivedInTurn' /\ MailsInOrder'
    BY <1>1, InTurnKept DEF Stays, MailInv, ArrivedInTurn
  <1>5. QED  BY <1>2, <1>3, <1>4 DEF MailInv

LEMMA ComesInv ==
  ASSUME MailTypeOK, MailInv, Comes
  PROVE  MailInv'
  <1> PICK m \in Requests : /\ Pending' = Append(Pending, m)
                            /\ published' = Append(published, m)
                            /\ UNCHANGED <<lost, arrived>>
    BY DEF Comes
  <1>1. published \in Seq(Requests) /\ arrived \in Seq(Requests) /\ Pending \in Seq(Requests)
    BY PendingFacts DEF MailTypeOK
  <1>2. Len(published) \in Nat /\ Len(Pending) \in Nat /\ Over \in Int
    BY <1>1, LenProperties DEF Over
  <1>3. /\ Len(published') = Len(published) + 1
        /\ Len(Pending') = Len(Pending) + 1
        /\ \A i \in 1..Len(published) : published'[i] = published[i]
        /\ \A i \in 1..Len(Pending) : Pending'[i] = Pending[i]
        /\ published'[Len(published) + 1] = m
        /\ Pending'[Len(Pending) + 1] = m
    BY <1>1, <1>2, AppendProperties
  <1>4. Over' = Over
    BY <1>2, <1>3 DEF Over
  <1>5. PendingIsEnd'
    <2>1. ASSUME NEW i \in 1..Len(Pending')
          PROVE  published'[Over + i] = Pending'[i]
      <3>1. CASE i = Len(Pending) + 1
        BY <1>2, <1>3, <3>1 DEF Over
      <3>2. CASE i # Len(Pending) + 1
        <4>1. i \in 1..Len(Pending) /\ Over + i \in 1..Len(published)
          BY <1>2, <1>3, <3>2 DEF Over, MailInv, PendingIsEnd
        <4>2. QED  BY <1>3, <4>1 DEF MailInv, PendingIsEnd
      <3>3. QED  BY <3>1, <3>2
    <2>2. QED  BY <1>4, <2>1 DEF MailInv, PendingIsEnd
  <1>6. OverSettled'
    <2>1. ASSUME NEW i \in 1..Over
          PROVE  /\ published'[i] \in lost' \/ HasArrived(published[i])'
                 /\ published'[i] = published[i]
      <3>1. i \in 1..Len(published)
        BY <1>2 DEF Over
      <3>2. QED  BY <1>3, <3>1 DEF MailInv, OverSettled, HasArrived
    <2>2. QED  BY <1>4, <2>1 DEF OverSettled, HasArrived
  <1>7. ArrivedInTurn'
    <2>1. ASSUME NEW i \in DOMAIN arrived
          PROVE  \E a \in 1..Len(published') : a <= Over + 1 /\ published'[a] = arrived[i]
      <3>1. PICK a \in 1..Len(published) : a <= Over + 1 /\ published[a] = arrived[i]
        BY DEF MailInv, ArrivedInTurn
      <3>2. a \in 1..Len(published') /\ published'[a] = arrived[i]
        BY <1>2, <1>3, <3>1
      <3>3. QED  BY <3>1, <3>2
    <2>2. QED  BY <1>4, <2>1 DEF ArrivedInTurn
  <1>8. MailsInOrder'
    <2>1. DOMAIN published = 1..Len(published) /\ DOMAIN published' = 1..Len(published')
      BY <1>1, AppendProperties
    <2>2. \A a \in DOMAIN published : a \in DOMAIN published' /\ published'[a] = published[a]
      BY <1>2, <1>3, <2>1
    <2>3. QED  BY <2>2 DEF MailInv, MailsInOrder
  <1>9. QED  BY <1>5, <1>6, <1>7, <1>8 DEF MailInv

LEMMA LeavesInv ==
  ASSUME MailTypeOK, MailInv, Leaves
  PROVE  MailInv'
  <1>1. published \in Seq(Requests) /\ arrived \in Seq(Requests) /\ Pending \in Seq(Requests)
    BY PendingFacts DEF MailTypeOK
  <1>2. Len(published) \in Nat /\ Len(Pending) \in Nat /\ Over \in Int
    BY <1>1, LenProperties DEF Over
  <1>3. /\ Pending # <<>> /\ published' = published /\ Arrival
        /\ Pending' = Tail(Pending) /\ lost \subseteq lost'
    BY EmptySeq, MovesFacts DEF Leaves
  <1>4. /\ Len(Pending') = Len(Pending) - 1
        /\ \A i \in 1..(Len(Pending) - 1) : Pending'[i] = Pending[i + 1]
    BY <1>1, <1>2, <1>3, HeadTailProperties
  <1>5. Over' = Over + 1
    BY <1>2, <1>3, <1>4 DEF Over
  <1>6. Over >= 0 /\ published[Over + 1] = Pending[1]
    BY <1>2 DEF MailInv, PendingIsEnd, Leaves
  <1>7. PendingIsEnd'
    <2>1. ASSUME NEW i \in 1..Len(Pending')
          PROVE  published[Over + 1 + i] = Pending'[i]
      <3>1. i \in 1..(Len(Pending) - 1) /\ i + 1 \in 1..Len(Pending)
        BY <1>2, <1>4
      <3>2. published[Over + (i + 1)] = Pending[i + 1]
        BY <3>1 DEF MailInv, PendingIsEnd
      <3>3. Over + (i + 1) = Over + 1 + i
        BY <1>2, <3>1
      <3>4. QED  BY <1>4, <3>1, <3>2, <3>3
    <2>2. QED  BY <1>2, <1>3, <1>5, <1>6, <2>1 DEF PendingIsEnd
  <1>8. OverSettled'
    <2>1. ASSUME NEW i \in 1..(Over + 1)
          PROVE  published[i] \in lost' \/ HasArrived(published[i])'
      <3>1. CASE i = Over + 1
        <4>1. published[i] \in lost' \/ HasArrived(published[i])
          BY <1>6, <3>1, MovesFacts
        <4>2. QED  BY <1>3, <4>1, ArrivalKeeps
      <3>2. CASE i # Over + 1
        <4>1. i \in 1..Over
          BY <1>2, <3>2
        <4>2. published[i] \in lost \/ HasArrived(published[i])
          BY <4>1 DEF MailInv, OverSettled
        <4>3. QED  BY <1>3, <4>2, ArrivalKeeps
      <3>3. QED  BY <3>1, <3>2
    <2>2. QED  BY <1>3, <1>5, <2>1 DEF OverSettled, HasArrived
  <1>9. ArrivedInTurn' /\ MailsInOrder'
    <2>1. /\ \A i \in DOMAIN arrived' :
               \E a \in 1..Len(published) : a <= Over + 1 /\ published[a] = arrived'[i]
          /\ MailsInOrder'
      BY <1>3, InTurnKept DEF MailInv
    <2>2. \A a \in 1..Len(published) : a <= Over + 1 => a <= Over' + 1
      BY <1>2, <1>5
    <2>3. QED  BY <1>3, <2>1, <2>2 DEF ArrivedInTurn
  <1>10. QED  BY <1>7, <1>8, <1>9 DEF MailInv

LEMMA MailSafe ==
  ASSUME MailTypeOK, MailInv
  PROVE  MailPipeline
  <1>1. published \in Seq(Requests) /\ Pending \in Seq(Requests)
    BY PendingFacts DEF MailTypeOK
  <1>2. Len(published) \in Nat /\ Len(Pending) \in Nat /\ Over \in Int
    BY <1>1, LenProperties DEF Over
  <1>3. ASSUME NEW i \in 1..Len(published)
        PROVE  IF i > Over THEN Pending[i - Over] = published[i]
               ELSE published[i] \in lost \/ HasArrived(published[i])
    <2>1. CASE i > Over
      <3>1. i - Over \in 1..Len(Pending) /\ Over + (i - Over) = i
        BY <1>2, <2>1 DEF Over
      <3>2. QED  BY <2>1, <3>1 DEF MailInv, PendingIsEnd
    <2>2. CASE ~(i > Over)
      <3>1. i \in 1..Over
        BY <1>2, <2>2
      <3>2. QED  BY <2>2, <3>1 DEF MailInv, OverSettled
    <2>3. QED  BY <2>1, <2>2
  <1>4. QED  BY <1>3 DEF MailPipeline, Over, HasArrived, MailInv, PendingIsEnd

(* One step of the mails on their way, as any step of the system is. *)
LEMMA MailStepInv ==
  ASSUME MailTypeOK, WorkerTrue, MailInv,
         MailStep \/ (\E m \in Requests : Enqueue(m)) \/ UNCHANGED mailVars
  PROVE  WorkerTrue' /\ MailInv'
  <1>1. CASE UNCHANGED mailVars
    <2>1. Stays
      BY <1>1 DEF mailVars, Stays, Arrival, Pending, Busy
    <2>2. QED  BY <2>1, WorkerTrueStep, StaysInv, <1>1
  <1>2. CASE MailStep \/ (\E m \in Requests : Enqueue(m))
    BY <1>2, WorkerTrueStep, WorkerMoves, EnqueueMoves, StaysInv, ComesInv, LeavesInv
  <1>3. QED  BY <1>1, <1>2

LEMMA InitMail ==
  ASSUME MailInit
  PROVE  WorkerTrue /\ MailInv
  <1>1. Pending = <<>> \o <<>> /\ published = <<>> /\ arrived = <<>>
    BY DEF MailInit, Pending, Busy
  <1>2. <<>> \in Seq(Requests) /\ <<>> \o <<>> = <<>>
    BY EmptySeq, ConcatEmptySeq
  <1>3. Over = 0 /\ Len(Pending) = 0 /\ DOMAIN arrived = {}
    BY <1>1, <1>2, EmptySeq DEF Over
  <1>4. WorkerTrue
    BY DEF WorkerTrue, MailInit, Down
  <1>5. QED
    BY <1>3, <1>4 DEF MailInv, PendingIsEnd, OverSettled, ArrivedInTurn, MailsInOrder

----------------------------------------------------------------------------
\* Broker and worker implement Outbox.

(* The first pending mail is the one that is due. *)
LEMMA DueIsFirst ==
  ASSUME MailTypeOK, PendingIsEnd
  PROVE  /\ Over \in Nat /\ Len(published) \in Nat /\ Len(Pending) \in Nat
         /\ Len(Pending) > 0 => /\ Over + 1 \in 1..Len(published)
                               /\ published[Over + 1] = Pending[1]
  <1>1. published \in Seq(Requests) /\ Pending \in Seq(Requests)
    BY PendingFacts DEF MailTypeOK
  <1>2. Len(published) \in Nat /\ Len(Pending) \in Nat
    BY <1>1, LenProperties
  <1>3. QED  BY <1>2 DEF PendingIsEnd, Over

LEMMA ArrivalBox ==
  ASSUME MailTypeOK, PendingIsEnd, Arrival
  PROVE  UNCHANGED arrived \/ (Box!Waiting /\ Box!GoesOut)
  <1>1. CASE arrived' = arrived
    BY <1>1
  <1>2. CASE Len(Pending) > 0 /\ arrived' = Append(arrived, Pending[1])
    BY <1>2, DueIsFirst DEF Box!Waiting, Box!GoesOut, Over
  <1>3. QED  BY <1>1, <1>2 DEF Arrival

LEMMA StaysBox ==
  ASSUME MailTypeOK, PendingIsEnd, Stays
  PROVE  [Box!Next]_(Box!vars)
  <1>1. UNCHANGED <<published, Len(published) - Len(Pending) + 1>>
    BY DEF Stays
  <1>2. CASE lost' = lost /\ Arrival
    <2>1. Box!Deliver \/ UNCHANGED Box!vars
      BY <1>1, <1>2, ArrivalBox DEF Box!Deliver, Box!vars
    <2>2. QED  BY <2>1 DEF Box!Next
  <1>3. CASE Early
    <2>1. \E m \in Requests : Box!Drop(m)
      BY <1>1, <1>3 DEF Early, Box!Drop
    <2>2. QED  BY <2>1 DEF Box!Next
  <1>4. QED  BY <1>2, <1>3 DEF Stays

LEMMA ComesBox ==
  ASSUME MailTypeOK, Comes
  PROVE  [Box!Next]_(Box!vars)
  <1>1. PICK m \in Requests : /\ Pending' = Append(Pending, m)
                             /\ published' = Append(published, m)
                             /\ UNCHANGED <<lost, arrived>>
    BY DEF Comes
  <1>2. published \in Seq(Requests) /\ Pending \in Seq(Requests)
    BY PendingFacts DEF MailTypeOK
  <1>3. /\ Len(published) \in Nat /\ Len(Pending) \in Nat
        /\ Len(published') = Len(published) + 1
        /\ Len(Pending') = Len(Pending) + 1
    BY <1>1, <1>2, AppendProperties, LenProperties
  <1>4. UNCHANGED (Len(published) - Len(Pending) + 1)
    BY <1>3
  <1>5. Box!Accept(m)
    BY <1>1, <1>4 DEF Box!Accept
  <1>6. QED  BY <1>5 DEF Box!Next

LEMMA LeavesBox ==
  ASSUME MailTypeOK, PendingIsEnd, Leaves
  PROVE  [Box!Next]_(Box!vars)
  <1>1. published \in Seq(Requests) /\ Pending \in Seq(Requests) /\ Pending # <<>>
    BY PendingFacts, EmptySeq DEF MailTypeOK, Leaves
  <1>2. /\ Len(published) \in Nat /\ Len(Pending) \in Nat
        /\ Len(Pending') = Len(Pending) - 1
    BY <1>1, HeadTailProperties, LenProperties DEF Leaves
  <1>3. /\ published' = published
        /\ (Len(published) - Len(Pending) + 1)' = (Len(published) - Len(Pending) + 1) + 1
    <2>1. published' = published /\ Len(published') = Len(published)
      BY DEF Leaves
    <2>2. QED  BY <1>2, <2>1
  <1>4. /\ Box!Waiting
        /\ published[Len(published) - Len(Pending) + 1] = Pending[1]
    BY DueIsFirst DEF Leaves, Over, Box!Waiting
  <1>5. CASE LastArrived(Pending[1]) /\ UNCHANGED <<lost, arrived>>
    <2>1. Box!Settle
      BY <1>3, <1>4, <1>5 DEF LastArrived, Box!Settle
    <2>2. QED  BY <2>1 DEF Box!Next
  <1>6. CASE lost' = lost \cup {Pending[1]} /\ Arrival
    <2>1. Box!Reject
      BY <1>3, <1>4, <1>6, ArrivalBox DEF Box!Reject
    <2>2. QED  BY <2>1 DEF Box!Next
  <1>7. QED  BY <1>5, <1>6 DEF Leaves

(* One step of the mails on their way is a step of the outbox, or none.    *)
LEMMA MailStepBox ==
  ASSUME MailTypeOK, WorkerTrue, MailInv,
         MailStep \/ (\E m \in Requests : Enqueue(m)) \/ UNCHANGED mailVars
  PROVE  [Box!Next]_(Box!vars)
  <1>1. CASE UNCHANGED mailVars
    BY <1>1 DEF mailVars, Box!vars, Pending, Busy
  <1>2. CASE MailStep \/ (\E m \in Requests : Enqueue(m))
    BY <1>2, WorkerMoves, EnqueueMoves, StaysBox, ComesBox, LeavesBox DEF MailInv
  <1>3. QED  BY <1>1, <1>2

LEMMA InitBox ==
  ASSUME MailInit
  PROVE  Box!Init
  <1>1. published = <<>> /\ Len(published) = 0 /\ Len(Pending) = 0
    <2>1. Pending = <<>> \o <<>> /\ published = <<>>
      BY DEF MailInit, Pending, Busy
    <2>2. QED  BY <2>1, EmptySeq, ConcatEmptySeq
  <1>2. QED  BY <1>1 DEF MailInit, Box!Init

=============================================================================
