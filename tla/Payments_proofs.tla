-------------------------- MODULE Payments_proofs --------------------------
(***************************************************************************)
(* Theorems of Payments, for any number of requests, keys, carts, webhook  *)
(* workers, copies of an event and failures, and for handlers of any       *)
(* speed.                                                                  *)
(***************************************************************************)
EXTENDS Payments, Checkout_proofs

----------------------------------------------------------------------------
\* Type correctness.

(* What a worker has in hand. *)
LEMMA TaskFacts ==
  ASSUME WebhookTypeOK, NEW w \in Workers
  PROVE  /\ Idle \in Tasks
         /\ At(w, "idle") <=> task[w] = Idle
         /\ task[w] # Idle => Event(w) \in Events
         /\ At(w, "publish") => task[w].message \in Messages
         /\ task[w].stage \in {"idle", "received", "dispatch", "publish"}
  BY DEF WebhookTypeOK, Tasks, Idle, Event, At

LEMMA EventFacts ==
  ASSUME NEW e \in Events
  PROVE  /\ e.order \in Requests \cup {NoRequest}
         /\ SaysPaid(e) \/ SaysFailed(e) => e.order \in Requests
         /\ ~(SaysPaid(e) /\ SaysFailed(e))
  BY NoiseAssumption DEF Events, OrderKinds, SaysPaid, SaysFailed

(* The tasks a worker may be given. *)
LEMMA BecomeType ==
  ASSUME WebhookTypeOK, NEW w \in Workers, NEW t \in Tasks, Become(w, t)
  PROVE  task' \in [Workers -> Tasks]
  BY DEF WebhookTypeOK, Become

LEMMA AnswerType ==
  ASSUME WebhookTypeOK, NEW w \in Workers, task[w] # Idle,
         Accept(w) \/ Reject(w) \/ Break(w)
  PROVE  /\ task' \in [Workers -> Tasks]
         /\ acked' \subseteq Events
         /\ refused' \subseteq Events
  BY TaskFacts, BecomeType DEF Accept, Reject, Break, WebhookTypeOK

(* A committed transaction keeps the rows within their statuses. *)
LEMMA CommitType ==
  ASSUME StoreTypeOK, WebhookTypeOK, NEW w \in Workers, task[w] # Idle,
         CommitAlone(w) \/ CommitPaid(w) \/ CommitFailed(w)
  PROVE  /\ StoreTypeOK'
         /\ registered' \subseteq Events
  <1>1. Event(w) \in Events
    BY TaskFacts
  <1>2. StoreTypeOK'
    BY DEF CommitAlone, CommitPaid, CommitFailed, UpdatePaymentStatus, UpdateOrderStatus,
           storeVars, StoreTypeOK, OrderStatuses, PaymentStatuses
  <1>3. QED  BY <1>1, <1>2 DEF CommitAlone, CommitPaid, CommitFailed, WebhookTypeOK

LEMMA AnnounceType ==
  ASSUME WebhookTypeOK, NEW w \in Workers, At(w, "publish"), Announce(w)
  PROVE  announced' \in [Requests -> [Messages -> Nat]]
  <1> DEFINE o == Event(w).order
             m == task[w].message
  <1>1. m \in Messages
    BY TaskFacts
  <1>2. announced' = [announced EXCEPT ![o] =
                         [announced[o] EXCEPT ![m] = announced[o][m] + 1]]
    BY DEF Announce
  <1> HIDE DEF o, m
  <1>3. CASE o \in Requests
    <2>1. announced[o] \in [Messages -> Nat] /\ announced[o][m] + 1 \in Nat
      BY <1>1, <1>3 DEF WebhookTypeOK
    <2>2. [announced[o] EXCEPT ![m] = announced[o][m] + 1] \in [Messages -> Nat]
      BY <2>1
    <2>3. QED  BY <1>2, <2>2 DEF WebhookTypeOK
  <1>4. CASE o \notin Requests
    BY <1>2, <1>4 DEF WebhookTypeOK
  <1>5. QED  BY <1>3, <1>4

(* Every step of a worker, its failures included. *)
LEMMA WebhookStepType ==
  ASSUME PaymentTypeOK, WebhookStep, UNCHANGED checkoutVars
  PROVE  PaymentTypeOK'
  <1> USE DEF PaymentTypeOK
  <1>1. PICK w \in Workers :
          \/ \E e \in Events : Deliver(w, e)
          \/ WorkerStep(w)
          \/ TransactionFails(w) \/ CommitUnacknowledged(w) \/ PublishFails(w)
    BY DEF WebhookStep
  <1>2. ASSUME UNCHANGED stripeVars, faults' \in 0..MaxFaults, StoreTypeOK'
        PROVE  TypeOK'
    BY <1>2, StripeType DEF TypeOK, checkoutVars
  <1>3. TypeOK /\ StoreTypeOK /\ WebhookTypeOK
    BY DEF TypeOK
  <1>4. CASE \E e \in Events : Deliver(w, e)
    <2>1. PICK e \in Events : Deliver(w, e)
      BY <1>4
    <2>2. task' \in [Workers -> Tasks]
      <3>1. [stage |-> "received", event |-> e] \in Tasks
        BY DEF Tasks
      <3>2. QED  BY <1>3, <2>1, <3>1, BecomeType DEF Deliver
    <2>3. TypeOK'
      BY <1>2, <1>3, <2>1, StoreType, FaultType DEF Deliver
    <2>4. QED  BY <2>1, <2>2, <2>3 DEF Deliver, WebhookTypeOK
  <1>5. CASE Register(w)
    <2>1. task[w] # Idle /\ Event(w) \in Events
      BY <1>3, <1>5, TaskFacts DEF Register, At, Idle
    <2>2. /\ task' \in [Workers -> Tasks]
          /\ acked' \subseteq Events /\ refused' \subseteq Events
      <3>1. [stage |-> "dispatch", event |-> Event(w)] \in Tasks
        BY <2>1 DEF Tasks
      <3>2. QED  BY <1>3, <1>5, <2>1, <3>1, BecomeType, AnswerType DEF Register, WebhookTypeOK
    <2>3. TypeOK'
      BY <1>2, <1>3, <1>5, StoreType, FaultType DEF Register
    <2>4. QED  BY <1>5, <2>2, <2>3 DEF Register, WebhookTypeOK
  <1>6. CASE Ignore(w) \/ Refuse(w)
    <2>1. task[w] # Idle /\ Event(w) \in Events
      BY <1>3, <1>6, TaskFacts DEF Ignore, CommitAlone, Refuse, At, Idle
    <2>2. /\ task' \in [Workers -> Tasks]
          /\ acked' \subseteq Events /\ refused' \subseteq Events
      BY <1>3, <1>6, <2>1, AnswerType DEF Ignore, CommitAlone, Refuse
    <2>3. TypeOK'
      BY <1>2, <1>3, <1>6, StoreType, FaultType DEF Ignore, CommitAlone, Refuse
    <2>4. QED  BY <1>6, <2>1, <2>2, <2>3 DEF Ignore, CommitAlone, Refuse, WebhookTypeOK
  <1>7. CASE SettlePaid(w) \/ SettleFailed(w) \/ CommitUnacknowledged(w)
    <2>1. task[w] # Idle /\ Event(w) \in Events
      BY <1>3, <1>7, TaskFacts
         DEF SettlePaid, SettleFailed, CommitUnacknowledged, CommitAlone, CommitPaid,
             CommitFailed, At, Idle
    <2>2. CommitAlone(w) \/ CommitPaid(w) \/ CommitFailed(w)
      BY <1>7 DEF SettlePaid, SettleFailed, CommitUnacknowledged
    <2>3. StoreTypeOK' /\ registered' \subseteq Events
      BY <1>3, <2>1, <2>2, CommitType
    <2>4. /\ task' \in [Workers -> Tasks]
          /\ acked' \subseteq Events /\ refused' \subseteq Events
      <3>1. \A m \in Messages :
              [stage |-> "publish", event |-> Event(w), message |-> m] \in Tasks
        BY <2>1 DEF Tasks
      <3>2. CASE SettlePaid(w)
        BY <1>3, <3>1, <3>2, BecomeType DEF SettlePaid, WebhookTypeOK, Messages
      <3>3. CASE SettleFailed(w)
        BY <1>3, <3>1, <3>3, BecomeType DEF SettleFailed, WebhookTypeOK, Messages
      <3>4. CASE CommitUnacknowledged(w)
        BY <1>3, <2>1, <3>4, AnswerType DEF CommitUnacknowledged
      <3>5. QED  BY <1>7, <3>2, <3>3, <3>4
    <2>5. TypeOK'
      BY <1>2, <1>3, <1>7, <2>3, FaultType
         DEF SettlePaid, SettleFailed, CommitUnacknowledged
    <2>6. QED
      BY <1>7, <2>3, <2>4, <2>5
         DEF SettlePaid, SettleFailed, CommitUnacknowledged, WebhookTypeOK
  <1>8. CASE Publish(w) \/ PublishFails(w)
    <2>1. task[w] # Idle /\ At(w, "publish")
      BY <1>3, <1>8, TaskFacts DEF Publish, PublishFails, At, Idle
    <2>2. /\ task' \in [Workers -> Tasks]
          /\ acked' \subseteq Events /\ refused' \subseteq Events
      BY <1>3, <1>8, <2>1, AnswerType DEF Publish, PublishFails
    <2>3. announced' \in [Requests -> [Messages -> Nat]]
      BY <1>3, <1>8, <2>1, AnnounceType DEF Publish, PublishFails, WebhookTypeOK
    <2>4. TypeOK'
      BY <1>2, <1>3, <1>8, StoreType, FaultType DEF Publish, PublishFails
    <2>5. QED  BY <1>8, <2>2, <2>3, <2>4 DEF Publish, PublishFails, WebhookTypeOK
  <1>9. CASE TransactionFails(w)
    <2>1. task[w] # Idle
      BY <1>9 DEF TransactionFails, Idle
    <2>2. /\ task' \in [Workers -> Tasks]
          /\ acked' \subseteq Events /\ refused' \subseteq Events
      BY <1>3, <1>9, <2>1, AnswerType DEF TransactionFails
    <2>3. TypeOK'
      BY <1>2, <1>3, <1>9, StoreType, FaultType DEF TransactionFails
    <2>4. QED  BY <1>9, <2>2, <2>3 DEF TransactionFails, WebhookTypeOK
  <1>10. QED
    BY <1>1, <1>4, <1>5, <1>6, <1>7, <1>8, <1>9 DEF WorkerStep

(* What happens at Stripe. *)
LEMMA CustomerType ==
  ASSUME StripeTypeOK, NEW o \in Requests, CustomerStep(o)
  PROVE  StripeTypeOK'
  <1>1. ASSUME NEW to \in SessionStates, NEW kind \in OrderKinds, NEW from,
               Occur(o, from, to, kind)
        PROVE  StripeTypeOK'
    <2>1. PICK n \in 1..Copies :
            emitted' = emitted \cup [kind : {kind}, order : {o}, copy : 1..n]
      BY <1>1 DEF Occur
    <2>2. [kind : {kind}, order : {o}, copy : 1..n] \subseteq Events
      BY CopiesAssumption DEF Events
    <2>3. QED  BY <1>1, <2>1, <2>2 DEF Occur, StripeTypeOK
  <1>2. QED
    BY <1>1 DEF CustomerStep, Pay, PayLater, Settle, Decline, Expire, SessionStates, OrderKinds

LEMMA PaymentTypeInit == PaymentInit => PaymentTypeOK
  <1>1. WebhookInit => WebhookTypeOK
    BY DEF WebhookInit, WebhookTypeOK, Tasks, Messages
  <1>2. QED  BY <1>1, InitType DEF PaymentInit, PaymentTypeOK

LEMMA PaymentTypeStep ==
  ASSUME PaymentTypeOK, [PaymentNext]_paymentVars
  PROVE  PaymentTypeOK'
  <1>1. ASSUME UNCHANGED webhookVars
        PROVE  WebhookTypeOK'
    BY <1>1 DEF PaymentTypeOK, WebhookTypeOK, webhookVars
  <1>2. CASE CheckoutStep /\ UNCHANGED webhookVars
    BY <1>1, <1>2, NextType DEF Next, PaymentTypeOK
  <1>3. CASE WebhookStep /\ UNCHANGED checkoutVars
    BY <1>3, WebhookStepType
  <1>4. ASSUME NEW o \in Requests, CustomerStep(o)
        PROVE  PaymentTypeOK'
    <2>1. StripeTypeOK'
      BY <1>4, CustomerType DEF PaymentTypeOK, TypeOK
    <2>2. UNCHANGED <<storeVars, faults, checkoutVars, webhookVars>>
      BY <1>4 DEF CustomerStep
    <2>3. QED
      BY <1>1, <2>1, <2>2
         DEF PaymentTypeOK, TypeOK, StoreTypeOK, storeVars, checkoutVars
  <1>5. CASE ProcessCrash
    <2>1. TypeOK'
      BY <1>5, FaultType, StoreType, StripeType
         DEF ProcessCrash, CrashHandlers, PaymentTypeOK, TypeOK, Places, InFlight, Owning
    <2>2. WebhookTypeOK'
      BY <1>5 DEF ProcessCrash, CrashWorkers, PaymentTypeOK, WebhookTypeOK, Tasks
    <2>3. QED  BY <2>1, <2>2 DEF PaymentTypeOK
  <1>6. CASE UNCHANGED paymentVars
    BY <1>1, <1>6, NextType DEF paymentVars, PaymentTypeOK
  <1>7. QED
    BY <1>2, <1>3, <1>4, <1>5, <1>6 DEF PaymentNext

(* The rows, records, sessions and workers of the payment path stay well   *)
(* typed.                                                                  *)
THEOREM PaymentTypeCorrect == PaymentSpec => []PaymentTypeOK
  <1>1. PaymentTypeOK /\ [PaymentNext]_paymentVars => PaymentTypeOK'
    BY PaymentTypeStep
  <1>2. QED  BY PaymentTypeInit, <1>1, PTL DEF PaymentSpec

----------------------------------------------------------------------------
\* The rows and the money.

(* Handlers that have not inserted their rows yet, and those that may      *)
(* still overwrite the payment.                                            *)
Unborn == {"new", "lookup", "claim", "relookup", "create"}
Early == Unborn \cup {"call", "mark", "refuse"}

(* A completed record, or an answer, holds the URL of page o. *)
Recorded(o) == \E i \in IdemKeys : record[i].state = "completed" /\ record[i].order = o
Known(o) == Disclosed(o) \/ Recorded(o)

(* The order and its payment are there, and so is the page. *)
Solid(o) ==
    /\ orders[o] # "absent"
    /\ payments[o] \notin {"absent", "pending"}
    /\ session[o] # "none"

(* The two rows come together, and before the session. *)
RowsTogether(o) ==
    /\ orders[o] \in {"absent", "pending", "paid", "payment_failed"}
    /\ orders[o] = "absent" <=> payments[o] = "absent"
    /\ session[o] # "none" => orders[o] # "absent"
    /\ pc[o] \in Unborn => orders[o] = "absent"
    /\ pc[o] = "call" => orders[o] # "absent" /\ session[o] = "none"
    /\ pc[o] = "mark" => session[o] # "none"

(* While a handler may still overwrite the payment, nobody knows the page, *)
(* so that nobody can have paid there.                                     *)
PageHidden(o) ==
    /\ pc[o] \in Early => ~Known(o) /\ session[o] \in {"none", "open", "expired"}
    /\ Known(o) \/ pc[o] \in {"complete", "reply"} => Solid(o)

(* The rows say of the money what Stripe's session says. *)
MoneyTrue(o) ==
    /\ orders[o] = "paid" <=> payments[o] = "paid"
    /\ orders[o] = "paid" => Charged(o)
    /\ orders[o] = "payment_failed" => session[o] \in {"expired", "declined"}

(* So does every event, whenever it is delivered. *)
EventsTrue ==
    \A e \in emitted :
        /\ SaysPaid(e) /\ ~Ignored(e) => Charged(e.order)
        /\ SaysFailed(e) => session[e.order] \in {"expired", "declined"}

TasksEmitted == \A w \in Workers : task[w] # Idle => Event(w) \in emitted

RowsInv == \A o \in Requests : RowsTogether(o) /\ PageHidden(o) /\ MoneyTrue(o)

MoneyInv ==
    /\ RowsInv
    /\ EventsTrue
    /\ TasksEmitted

----------------------------------------------------------------------------
\* What a step of handler h does to the rows of h, to its page and to its
\* place; those of other requests stay.

RowsShape(h) ==
    \/ /\ UNCHANGED <<orders, payments, session>>
       /\ pc'[h] \in Unborn => pc[h] \in Unborn
       /\ pc'[h] # "call" /\ pc'[h] # "mark" /\ pc'[h] # "complete"
       /\ pc'[h] = "reply" => pc[h] = "complete"
       /\ pc'[h] = "refuse" => pc[h] = "call"
    \/ /\ pc[h] = "create" /\ pc'[h] \in {"call", "fail"}
       /\ InsertOrder(h) /\ InsertPayment(h) /\ UNCHANGED session
    \/ /\ pc[h] = "call" /\ pc'[h] \in {"mark", "refuse"}
       /\ session' = [session EXCEPT ![h] = "open"]
       /\ UNCHANGED <<orders, payments>>
    \/ /\ pc[h] \in {"mark", "refuse"} /\ pc'[h] \in {"savefail", "fail"}
       /\ \E status \in {"requires_action", "failed"} : OverwritePayment(h, status)
       /\ UNCHANGED <<orders, session>>
    \/ /\ pc[h] = "mark" /\ pc'[h] = "complete"
       /\ OverwritePayment(h, "requires_action")
       /\ UNCHANGED <<orders, session>>

(* A page becomes known only through its own handler, when the row is      *)
(* marked.                                                                 *)
KnownShape(h) ==
    \A o \in Requests : Known(o)' => Known(o) \/ (o = h /\ pc[h] \in {"complete", "reply"})

MoneyShape(h) ==
    /\ pc[h] \notin {"done", "crashed"}
    /\ \A o \in Requests \ {h} : pc'[o] = pc[o]
    /\ RowsShape(h)
    /\ KnownShape(h)
    /\ UNCHANGED emitted

(* A handler that returns something else than a URL, and writes no         *)
(* completed record, makes nothing known.                                  *)
LEMMA QuietKnown ==
  ASSUME TypeOK, NEW h \in Requests,
         \/ UNCHANGED answer
         \/ \E a \in Answers : Return(h, a) /\ (a.kind = "url" => Recorded(a.order)),
         \/ UNCHANGED record
         \/ \E r \in Records : SetRecord(h, r) /\ r.state # "completed"
  PROVE  \A o \in Requests : Known(o)' => Known(o)
  <1> TAKE o \in Requests
  <1>1. Disclosed(o)' => Known(o)
    <2> SUFFICES ASSUME NEW g \in Requests, answer'[g] = Url(o)
                 PROVE  Known(o)
      BY DEF Disclosed, Url
    <2>1. CASE answer'[g] = answer[g]
      BY <2>1 DEF Known, Disclosed
    <2>2. CASE answer'[g] # answer[g]
      <3>1. PICK a \in Answers : Return(h, a) /\ (a.kind = "url" => Recorded(a.order))
        BY <2>2
      <3>2. a = Url(o)
        BY <2>2, <3>1 DEF Return, TypeOK
      <3>3. a.kind = "url" /\ a.order = o
        BY <3>2 DEF Url
      <3>4. QED  BY <3>1, <3>3 DEF Known
    <2>3. QED  BY <2>1, <2>2
  <1>2. Recorded(o)' => Recorded(o)
    <2> SUFFICES ASSUME NEW i \in IdemKeys, record'[i].state = "completed",
                        record'[i].order = o
                 PROVE  Recorded(o)
      BY DEF Recorded
    <2>1. record'[i] = record[i]
      BY DEF SetRecord, TypeOK
    <2>2. QED  BY <2>1 DEF Recorded
  <1>3. QED  BY <1>1, <1>2 DEF Known

(* A replay says no more than its record. *)
LEMMA ReplayKnown ==
  ASSUME TypeOK, NEW h \in Requests, record[IdemKey(h)] # NoRecord
  PROVE  LET a == Replay(h, record[IdemKey(h)])
         IN  a \in Answers /\ (a.kind = "url" => Recorded(a.order))
  <1> DEFINE r == record[IdemKey(h)]
             a == Replay(h, r)
  <1>1. r \in Records /\ IdemKey(h) \in IdemKeys
    BY WellFormed DEF TypeOK
  <1>2. a \in Answers
    BY <1>1, ReplayType
  <1>3. ASSUME a.kind = "url"
        PROVE  Recorded(a.order)
    <2>1. a = Url(r.order) /\ r.state = "completed"
      BY <1>1, <1>3 DEF Replay, Said, Url, Records, NoRecord
    <2>2. a.order = r.order
      BY <2>1 DEF Url
    <2>3. QED  BY <1>1, <2>1, <2>2 DEF Recorded
  <1>4. QED  BY <1>2, <1>3

(* The handler's own URL, in its record or its answer. *)
LEMMA OwnKnown ==
  ASSUME TypeOK, NEW h \in Requests,
         UNCHANGED answer \/ Return(h, Url(h)) \/ Return(h, Said("error")),
         UNCHANGED record \/ SetRecord(h, Outcome(h, "completed"))
  PROVE  \A o \in Requests : Known(o)' => Known(o) \/ o = h
  <1> TAKE o \in Requests
  <1>1. Disclosed(o)' => Disclosed(o) \/ o = h
    BY DEF Disclosed, Return, Url, Said, TypeOK
  <1>2. Recorded(o)' => Recorded(o) \/ o = h
    <2> SUFFICES ASSUME NEW i \in IdemKeys, record'[i].state = "completed",
                        record'[i].order = o
                 PROVE  Recorded(o) \/ o = h
      BY DEF Recorded
    <2>1. record'[i] = record[i] \/ record'[i] = Outcome(h, "completed")
      BY DEF SetRecord, TypeOK
    <2>2. QED  BY <2>1 DEF Recorded, Outcome
  <1>3. QED  BY <1>1, <1>2 DEF Known

(* The control of a step: only the place of h changes. *)
LEMMA OnlyPlace ==
  ASSUME TypeOK, NEW h \in Requests,
         (\E to \in Places : Move(h, to)) \/ (\E a \in Answers : Return(h, a))
  PROVE  /\ \A o \in Requests \ {h} : pc'[o] = pc[o]
         /\ \A to : Move(h, to) => pc'[h] = to
         /\ \A a : Return(h, a) => pc'[h] = "done"
  BY DEF TypeOK, Move, Return

LEMMA HandlerMoney ==
  ASSUME TypeOK, NEW h \in Requests,
         Receive(h) \/ RejectContext(h) \/ HandlerStep(h)
  PROVE  MoneyShape(h)
  <1> USE DEF MoneyShape, RowsShape, KnownShape, Unborn, Places, InFlight, Owning,
              storeVars, stripeVars
  <1>1. CASE Receive(h)
    BY <1>1, OnlyPlace, QuietKnown DEF Receive, Move
  <1>2. CASE RejectContext(h)
    BY <1>2, OnlyPlace, QuietKnown, PlainAnswer DEF RejectContext
  <1>3. CASE Lookup(h)
    <2>1. CASE record[IdemKey(h)] = NoRecord /\ Move(h, "claim")
      BY <1>3, <2>1, OnlyPlace, QuietKnown DEF Lookup, Move
    <2>2. CASE record[IdemKey(h)] # NoRecord /\ Return(h, Replay(h, record[IdemKey(h)]))
      BY <1>3, <2>2, OnlyPlace, QuietKnown, ReplayKnown DEF Lookup
    <2>3. QED  BY <1>3, <2>1, <2>2 DEF Lookup
  <1>4. CASE Claim(h)
    <2>1. \A o \in Requests : Known(o)' => Known(o)
      BY <1>4, QuietKnown, PlainRecord DEF Claim, Move
    <2>2. QED  BY <1>4, <2>1, OnlyPlace DEF Claim
  <1>5. CASE Relookup(h)
    <2>1. CASE record[IdemKey(h)] = NoRecord /\ Return(h, Said("in_progress"))
      BY <1>5, <2>1, OnlyPlace, QuietKnown, PlainAnswer DEF Relookup
    <2>2. CASE record[IdemKey(h)] # NoRecord /\ Return(h, Replay(h, record[IdemKey(h)]))
      BY <1>5, <2>2, OnlyPlace, QuietKnown, ReplayKnown DEF Relookup
    <2>3. QED  BY <1>5, <2>1, <2>2 DEF Relookup
  <1>6. CASE CreateOrder(h)
    BY <1>6, OnlyPlace, QuietKnown DEF CreateOrder, Move
  <1>7. CASE CallStripe(h)
    BY <1>7, OnlyPlace, QuietKnown DEF CallStripe, AcceptSession, RefuseSession, Move
  <1>8. CASE MarkRequiresAction(h)
    BY <1>8, OnlyPlace, QuietKnown DEF MarkRequiresAction, Move
  <1>9. CASE SaveCompleted(h)
    BY <1>9, OnlyPlace, OwnKnown DEF SaveCompleted, Move
  <1>10. CASE Reply(h)
    BY <1>10, OnlyPlace, OwnKnown, WellFormed DEF Reply
  <1>11. CASE MarkFailed(h)
    BY <1>11, OnlyPlace, QuietKnown DEF MarkFailed, Move
  <1>12. CASE SaveFailed(h)
    BY <1>12, OnlyPlace, QuietKnown, PlainAnswer, PlainRecord DEF SaveFailed
  <1>13. CASE HandleErrorSave(h)
    BY <1>13, OnlyPlace, QuietKnown, PlainAnswer, PlainRecord DEF HandleErrorSave
  <1>14. CASE HandleErrorRelease(h)
    BY <1>14, OnlyPlace, QuietKnown, PlainAnswer, PlainRecord DEF HandleErrorRelease
  <1>15. QED
    BY <1>1, <1>2, <1>3, <1>4, <1>5, <1>6, <1>7, <1>8, <1>9, <1>10, <1>11,
       <1>12, <1>13, <1>14 DEF HandlerStep

LEMMA FaultMoney ==
  ASSUME TypeOK, NEW h \in Requests, HandlerFault(h)
  PROVE  MoneyShape(h)
  <1> USE DEF MoneyShape, RowsShape, KnownShape, Unborn, Places, InFlight, Owning,
              storeVars, stripeVars
  <1>1. CASE ReadFails(h)
    BY <1>1, OnlyPlace, QuietKnown, PlainAnswer DEF ReadFails
  <1>2. CASE ClaimFails(h)
    BY <1>2, OnlyPlace, QuietKnown, PlainAnswer, PlainRecord DEF ClaimFails
  <1>3. CASE CreateOrderFails(h)
    BY <1>3, OnlyPlace, QuietKnown DEF CreateOrderFails, Move
  <1>4. CASE CallStripeFails(h)
    BY <1>4, OnlyPlace, QuietKnown DEF CallStripeFails, AcceptSession, Move
  <1>5. CASE MarkFails(h)
    BY <1>5, OnlyPlace, QuietKnown DEF MarkFails, Move
  <1>6. CASE SaveFails(h)
    <2>1. CASE pc[h] = "complete"
      BY <1>6, <2>1, OnlyPlace, OwnKnown DEF SaveFails, RecordMaybe, Move
    <2>2. CASE pc[h] = "savefail"
      BY <1>6, <2>2, OnlyPlace, QuietKnown, PlainRecord DEF SaveFails, RecordMaybe, Move
    <2>3. QED  BY <1>6, <2>1, <2>2 DEF SaveFails
  <1>7. CASE HandleErrorFails(h)
    BY <1>7, OnlyPlace, QuietKnown, PlainAnswer, PlainRecord DEF HandleErrorFails, RecordMaybe
  <1>8. QED
    BY <1>1, <1>2, <1>3, <1>4, <1>5, <1>6, <1>7 DEF HandlerFault

----------------------------------------------------------------------------
\* The steps keep the invariant.

(* A session that was paid, declined or has expired stays so, and with it  *)
(* what the events say.                                                    *)
SessionsStay ==
    \A o \in Requests :
        /\ Charged(o) => Charged(o)'
        /\ session[o] \in {"expired", "declined"} => session'[o] = session[o]

LEMMA OldEvents ==
  ASSUME TypeOK, EventsTrue, SessionsStay, UNCHANGED emitted
  PROVE  EventsTrue'
  <1> SUFFICES ASSUME NEW e \in emitted
               PROVE  /\ SaysPaid(e) /\ ~Ignored(e) => Charged(e.order)'
                      /\ SaysFailed(e) => session'[e.order] \in {"expired", "declined"}
    BY DEF EventsTrue, SaysPaid, SaysFailed, Ignored
  <1>1. e \in Events
    BY DEF TypeOK, StripeTypeOK
  <1>2. SaysPaid(e) \/ SaysFailed(e) => e.order \in Requests
    BY <1>1, EventFacts
  <1>3. QED  BY <1>2 DEF EventsTrue, SessionsStay

LEMMA OldTasks ==
  ASSUME TasksEmitted, emitted \subseteq emitted',
         \A w \in Workers : task'[w] # Idle =>
             task'[w] = task[w] \/ (task[w] # Idle /\ Event(w)' = Event(w))
  PROVE  TasksEmitted'
  BY DEF TasksEmitted, Event

(* A request whose rows, page and place a step leaves alone. *)
LEMMA SameRequest ==
  ASSUME NEW o \in Requests, RowsTogether(o), PageHidden(o), MoneyTrue(o),
         orders'[o] = orders[o], payments'[o] = payments[o], session'[o] = session[o],
         pc'[o] = pc[o], Known(o)' => Known(o)
  PROVE  RowsTogether(o)' /\ PageHidden(o)' /\ MoneyTrue(o)'
  BY DEF RowsTogether, PageHidden, MoneyTrue, Solid, Charged

(* A handler keeps what the rows say, whether there are webhooks or not. *)
LEMMA ShapeRows ==
  ASSUME TypeOK, RowsInv, NEW h \in Requests, MoneyShape(h)
  PROVE  RowsInv' /\ SessionsStay
  <1>1. /\ pc[h] = "call" => session[h] = "none"
        /\ RowsTogether(h) /\ PageHidden(h) /\ MoneyTrue(h)
    BY DEF RowsInv, RowsTogether
  <1>2. SessionsStay
    BY <1>1 DEF MoneyShape, RowsShape, SessionsStay, Charged, TypeOK, StripeTypeOK
  <1>3. ASSUME NEW o \in Requests, o # h
        PROVE  RowsTogether(o)' /\ PageHidden(o)' /\ MoneyTrue(o)'
    <2>1. /\ orders'[o] = orders[o] /\ payments'[o] = payments[o]
          /\ session'[o] = session[o] /\ pc'[o] = pc[o]
      BY <1>3 DEF MoneyShape, RowsShape, InsertOrder, InsertPayment, OverwritePayment,
                  TypeOK, StoreTypeOK, StripeTypeOK
    <2>2. Known(o)' => Known(o)
      BY <1>3 DEF MoneyShape, KnownShape
    <2>3. QED  BY <2>1, <2>2, SameRequest DEF RowsInv
  <1>4. RowsTogether(h)' /\ PageHidden(h)' /\ MoneyTrue(h)'
    <2>1. Known(h)' => Known(h) \/ pc[h] \in {"complete", "reply"}
      BY DEF MoneyShape, KnownShape
    <2>2. Known(h)' => Solid(h)
      BY <1>1, <2>1 DEF PageHidden
    <2>3. pc[h] \in Early => ~Known(h)'
      BY <1>1, <2>1 DEF PageHidden, Early, Unborn
    <2>4. CASE /\ UNCHANGED <<orders, payments, session>>
               /\ pc'[h] \in Unborn => pc[h] \in Unborn
               /\ pc'[h] # "call" /\ pc'[h] # "mark" /\ pc'[h] # "complete"
               /\ pc'[h] = "reply" => pc[h] = "complete"
               /\ pc'[h] = "refuse" => pc[h] = "call"
      <3>1. pc'[h] \in Early => pc[h] \in Early
        BY <2>4 DEF Early, Unborn
      <3>2. RowsTogether(h)' /\ MoneyTrue(h)'
        BY <1>1, <2>4 DEF RowsTogether, MoneyTrue, Charged
      <3>3. PageHidden(h)'
        BY <1>1, <2>2, <2>3, <2>4, <3>1 DEF PageHidden, Solid
      <3>4. QED  BY <3>2, <3>3
    <2>5. CASE /\ pc[h] = "create" /\ pc'[h] \in {"call", "fail"}
               /\ InsertOrder(h) /\ InsertPayment(h) /\ UNCHANGED session
      <3>1. orders'[h] = "pending" /\ payments'[h] = "pending" /\ session'[h] = session[h]
        BY <2>5 DEF InsertOrder, InsertPayment, TypeOK, StoreTypeOK
      <3>2. session[h] = "none" /\ ~Known(h)'
        BY <1>1, <2>3, <2>5 DEF RowsTogether, Early, Unborn
      <3>3. QED
        BY <2>5, <3>1, <3>2 DEF RowsTogether, PageHidden, MoneyTrue, Early, Unborn
    <2>6. CASE /\ pc[h] = "call" /\ pc'[h] \in {"mark", "refuse"}
               /\ session' = [session EXCEPT ![h] = "open"]
               /\ UNCHANGED <<orders, payments>>
      <3>1. session'[h] = "open" /\ ~Known(h)'
        BY <2>3, <2>6 DEF TypeOK, StripeTypeOK, Early
      <3>2. QED
        BY <1>1, <2>6, <3>1
           DEF RowsTogether, PageHidden, MoneyTrue, Early, Unborn, Charged
    <2>7. CASE /\ pc[h] \in {"mark", "refuse"} /\ pc'[h] \in {"savefail", "fail", "complete"}
               /\ pc'[h] = "complete" => pc[h] = "mark"
               /\ \E status \in {"requires_action", "failed"} : OverwritePayment(h, status)
               /\ UNCHANGED <<orders, session>>
      <3>1. /\ payments[h] # "absent" => payments'[h] \in {"requires_action", "failed"}
            /\ payments[h] = "absent" => payments'[h] = "absent"
        BY <2>7 DEF OverwritePayment, TypeOK, StoreTypeOK
      <3>2. ~Charged(h) /\ ~Known(h)'
        BY <1>1, <2>3, <2>7 DEF PageHidden, Charged, Early
      <3>3. orders[h] # "paid" /\ payments'[h] # "paid"
        BY <1>1, <3>1, <3>2 DEF MoneyTrue
      <3>4. MoneyTrue(h)' /\ RowsTogether(h)'
        BY <1>1, <2>7, <3>1, <3>3 DEF MoneyTrue, RowsTogether, Charged, Unborn
      <3>5. pc'[h] = "complete" => Solid(h)'
        BY <1>1, <2>7, <3>1 DEF RowsTogether, Solid
      <3>6. QED  BY <2>7, <3>2, <3>4, <3>5 DEF PageHidden, Early, Unborn
    <2>8. QED
      BY <2>4, <2>5, <2>6, <2>7 DEF MoneyShape, RowsShape
  <1>5. QED  BY <1>2, <1>3, <1>4 DEF RowsInv

LEMMA ShapeMoney ==
  ASSUME TypeOK, MoneyInv, UNCHANGED webhookVars, NEW h \in Requests, MoneyShape(h)
  PROVE  MoneyInv'
  <1>1. RowsInv' /\ SessionsStay
    BY ShapeRows DEF MoneyInv
  <1>2. EventsTrue' /\ TasksEmitted'
    BY <1>1, OldEvents, OldTasks DEF MoneyInv, MoneyShape, webhookVars
  <1>3. QED  BY <1>1, <1>2 DEF MoneyInv

(* What a transaction commits for the order of its event. *)
LEMMA CommitEffect ==
  ASSUME PaymentTypeOK, MoneyInv, NEW w \in Workers, CommitPaid(w) \/ CommitFailed(w)
  PROVE  LET o == Event(w).order
         IN  /\ o \in Requests
             /\ \A p \in Requests \ {o} : orders'[p] = orders[p] /\ payments'[p] = payments[p]
             /\ PaymentIsOpen(o) /\ orders[o] \in {"pending", "payment_failed"}
             /\ \/ /\ CommitPaid(w) /\ Charged(o)
                   /\ orders[o] = "pending" /\ orders'[o] = "paid" /\ payments'[o] = "paid"
                \/ /\ CommitFailed(w) /\ session[o] \in {"expired", "declined"}
                   /\ orders'[o] = "payment_failed" /\ payments'[o] = "failed"
  <1> DEFINE e == Event(w)
             o == e.order
  <1>1. e \in emitted /\ e \in Events
    BY TaskFacts DEF CommitPaid, CommitFailed, MoneyInv, TasksEmitted, At, Idle,
                     PaymentTypeOK, TypeOK, StripeTypeOK
  <1>2. o \in Requests
    BY <1>1, EventFacts DEF CommitPaid, CommitFailed
  <1>3. MoneyTrue(o) /\ RowsTogether(o)
    BY <1>2 DEF MoneyInv, RowsInv
  <1>4. PaymentIsOpen(o) /\ payments[o] # "paid" /\ orders[o] # "paid"
    BY <1>3 DEF CommitPaid, CommitFailed, Settleable, PaymentIsOpen, MoneyTrue
  <1>5. orders[o] \in {"pending", "payment_failed"}
    BY <1>3, <1>4 DEF CommitPaid, CommitFailed, Valid, RowsTogether
  <1>6. CASE CommitPaid(w)
    <2>1. Charged(o)
      BY <1>1, <1>6 DEF CommitPaid, MoneyInv, EventsTrue
    <2>2. orders[o] = "pending"
      BY <1>4, <1>6 DEF CommitPaid, Settleable, OrderIsOpen
    <2>3. /\ orders'[o] = "paid" /\ payments'[o] = "paid"
          /\ \A p \in Requests \ {o} : orders'[p] = orders[p] /\ payments'[p] = payments[p]
      BY <1>2, <1>4, <1>6, <2>2
         DEF CommitPaid, UpdatePaymentStatus, UpdateOrderStatus, OrderIsOpen,
             PaymentTypeOK, TypeOK, StoreTypeOK
    <2>4. QED  BY <1>2, <1>4, <1>5, <1>6, <2>1, <2>2, <2>3
  <1>7. CASE CommitFailed(w)
    <2>1. session[o] \in {"expired", "declined"}
      BY <1>1, <1>7 DEF CommitFailed, MoneyInv, EventsTrue
    <2>2. orders[o] \in {"pending", "payment_failed"}
      BY <1>5
    <2>3. /\ orders'[o] = "payment_failed" /\ payments'[o] = "failed"
          /\ \A p \in Requests \ {o} : orders'[p] = orders[p] /\ payments'[p] = payments[p]
      BY <1>2, <1>4, <1>7, <2>2
         DEF CommitFailed, UpdatePaymentStatus, UpdateOrderStatus, OrderIsOpen,
             PaymentTypeOK, TypeOK, StoreTypeOK
    <2>4. QED  BY <1>2, <1>4, <1>5, <1>7, <2>1, <2>3
  <1>8. QED  BY <1>6, <1>7

LEMMA CommitMoney ==
  ASSUME PaymentTypeOK, MoneyInv, NEW w \in Workers, CommitPaid(w) \/ CommitFailed(w),
         UNCHANGED <<stripeVars, checkoutVars>>
  PROVE  \A p \in Requests : RowsTogether(p)' /\ PageHidden(p)' /\ MoneyTrue(p)'
  <1>0. PICK o \in Requests : o = Event(w).order
    BY CommitEffect
  <1>1. \A p \in Requests : /\ session'[p] = session[p] /\ pc'[p] = pc[p]
                            /\ Known(p)' <=> Known(p)
    BY DEF stripeVars, checkoutVars, Known, Disclosed, Recorded
  <1>2. /\ \A p \in Requests \ {o} : orders'[p] = orders[p] /\ payments'[p] = payments[p]
        /\ orders[o] \in {"pending", "payment_failed"}
        /\ \/ Charged(o) /\ orders'[o] = "paid" /\ payments'[o] = "paid"
           \/ /\ session[o] \in {"expired", "declined"}
              /\ orders'[o] = "payment_failed" /\ payments'[o] = "failed"
    BY <1>0, CommitEffect
  <1>3. RowsTogether(o) /\ PageHidden(o) /\ MoneyTrue(o)
    BY DEF MoneyInv, RowsInv
  <1>4. RowsTogether(o)'
    BY <1>1, <1>2, <1>3 DEF RowsTogether, Unborn
  <1>5. PageHidden(o)'
    BY <1>1, <1>2, <1>3 DEF PageHidden, Solid
  <1>6. MoneyTrue(o)'
    BY <1>1, <1>2 DEF MoneyTrue, Charged
  <1>7. ASSUME NEW p \in Requests \ {o}
        PROVE  RowsTogether(p)' /\ PageHidden(p)' /\ MoneyTrue(p)'
    BY <1>1, <1>2, SameRequest DEF MoneyInv, RowsInv
  <1>8. QED  BY <1>4, <1>5, <1>6, <1>7

LEMMA WebhookMoney ==
  ASSUME PaymentTypeOK, MoneyInv, WebhookStep, UNCHANGED checkoutVars
  PROVE  MoneyInv'
  <1>1. PICK w \in Workers :
          \/ \E e \in Events : Deliver(w, e)
          \/ WorkerStep(w)
          \/ TransactionFails(w) \/ CommitUnacknowledged(w) \/ PublishFails(w)
    BY DEF WebhookStep
  <1>2. UNCHANGED stripeVars
    BY <1>1 DEF Deliver, WorkerStep, Register, Ignore, CommitAlone, Refuse, SettlePaid, SettleFailed,
                Publish, TransactionFails, CommitUnacknowledged, PublishFails
  <1>3. EventsTrue'
    BY <1>2, OldEvents DEF stripeVars, SessionsStay, MoneyInv, PaymentTypeOK, Charged
  <1>4. TasksEmitted'
    <2>1. CASE \E e \in Events : Deliver(w, e)
      <3>1. PICK e \in Events : Deliver(w, e)
        BY <2>1
      <3>2. e \in emitted
        BY <3>1 DEF Deliver
      <3>3. \A v \in Workers : task'[v] = task[v] \/ Event(v)' = e
        BY <3>1 DEF Deliver, Become, Event, PaymentTypeOK, WebhookTypeOK
      <3>4. QED  BY <1>2, <3>2, <3>3 DEF TasksEmitted, MoneyInv, stripeVars, Event
    <2>2. CASE ~ \E e \in Events : Deliver(w, e)
      <3>1. task[w] # Idle
        BY <1>1, <2>2 DEF WorkerStep, Register, Ignore, CommitAlone, Refuse, SettlePaid, SettleFailed,
              CommitPaid, CommitFailed, Publish, TransactionFails, CommitUnacknowledged,
              PublishFails, At, Idle
      <3>2. task'[w] = Idle \/ Event(w)' = Event(w)
        BY <1>1, <2>2 DEF WorkerStep, Register, Ignore, CommitAlone, Refuse, SettlePaid, SettleFailed,
              Publish, TransactionFails, CommitUnacknowledged, PublishFails,
              Accept, Reject, Break, Become, Event, PaymentTypeOK, WebhookTypeOK
      <3>3. \A v \in Workers \ {w} : task'[v] = task[v]
        BY <1>1, <2>2 DEF WorkerStep, Register, Ignore, CommitAlone, Refuse, SettlePaid, SettleFailed,
              Publish, TransactionFails, CommitUnacknowledged, PublishFails,
              Accept, Reject, Break, Become, PaymentTypeOK, WebhookTypeOK
      <3>4. QED  BY <1>2, <3>1, <3>2, <3>3, OldTasks DEF MoneyInv, stripeVars
    <2>3. QED  BY <2>1, <2>2
  <1>5. \A p \in Requests : RowsTogether(p)' /\ PageHidden(p)' /\ MoneyTrue(p)'
    <2>1. CASE CommitPaid(w) \/ CommitFailed(w)
      BY <1>2, <2>1, CommitMoney
    <2>2. CASE UNCHANGED storeVars
      BY <1>2, <2>2, SameRequest
         DEF storeVars, stripeVars, checkoutVars, Known, Disclosed, Recorded, MoneyInv, RowsInv
    <2>3. QED
      BY <1>1, <2>1, <2>2 DEF Deliver, WorkerStep, Register, Ignore, CommitAlone, Refuse, SettlePaid,
         SettleFailed, Publish, TransactionFails, CommitUnacknowledged, PublishFails
  <1>6. QED  BY <1>3, <1>4, <1>5 DEF MoneyInv, RowsInv

(* The customers act on pages that are known, whose rows nobody overwrites *)
(* any more, or a page expires.                                            *)
LEMMA CustomerMoney ==
  ASSUME PaymentTypeOK, MoneyInv, NEW o \in Requests, CustomerStep(o)
  PROVE  MoneyInv'
  <1>1. /\ UNCHANGED <<storeVars, checkoutVars, webhookVars>>
        /\ RowsTogether(o) /\ PageHidden(o) /\ MoneyTrue(o)
        /\ \A p \in Requests : Known(p)' <=> Known(p)
    BY DEF CustomerStep, MoneyInv, RowsInv, Known, Disclosed, Recorded, checkoutVars
  <1>2. PICK from, to, kind :
          /\ Occur(o, from, to, kind)
          /\ \/ from = "open" /\ to = "paid" /\ kind = "completed" /\ Known(o)
             \/ from = "open" /\ to = "processing" /\ kind = "completed_unpaid" /\ Known(o)
             \/ from = "processing" /\ to = "settled" /\ kind = "async_succeeded"
             \/ from = "processing" /\ to = "declined" /\ kind = "async_failed"
             \/ from = "open" /\ to = "expired" /\ kind = "expired"
    BY DEF CustomerStep, Pay, PayLater, Settle, Decline, Expire, Known
  <1>3. /\ session[o] = from /\ session'[o] = to
        /\ \A p \in Requests \ {o} : session'[p] = session[p]
        /\ emitted \subseteq emitted'
        /\ \A e \in emitted' \ emitted : e.kind = kind /\ e.order = o
    BY <1>2 DEF Occur, PaymentTypeOK, TypeOK, StripeTypeOK
  <1>4. SessionsStay
    BY <1>2, <1>3 DEF SessionsStay, Charged
  <1>5. EventsTrue'
    <2>1. ASSUME NEW e \in emitted
          PROVE  /\ SaysPaid(e) /\ ~Ignored(e) => Charged(e.order)'
                 /\ SaysFailed(e) => session'[e.order] \in {"expired", "declined"}
      <3>1. SaysPaid(e) \/ SaysFailed(e) => e.order \in Requests
        BY EventFacts DEF PaymentTypeOK, TypeOK, StripeTypeOK
      <3>2. QED  BY <1>4, <3>1 DEF EventsTrue, MoneyInv, SessionsStay
    <2>2. ASSUME NEW e \in emitted' \ emitted
          PROVE  /\ SaysPaid(e) /\ ~Ignored(e) => Charged(e.order)'
                 /\ SaysFailed(e) => session'[e.order] \in {"expired", "declined"}
      BY <1>2, <1>3 DEF SaysPaid, SaysFailed, Ignored, Charged
    <2>3. QED  BY <2>1, <2>2 DEF EventsTrue, SaysPaid, SaysFailed, Ignored
  <1>6. TasksEmitted'
    BY <1>1, <1>3 DEF TasksEmitted, MoneyInv, webhookVars, Event
  <1>7. RowsTogether(o)' /\ PageHidden(o)' /\ MoneyTrue(o)'
    <2>1. /\ orders'[o] = orders[o] /\ payments'[o] = payments[o] /\ pc'[o] = pc[o]
      BY <1>1 DEF storeVars, checkoutVars
    <2>2. from \in {"open", "processing"} /\ to # "none"
      BY <1>2
    <2>3. RowsTogether(o)'
      BY <1>1, <1>3, <2>1, <2>2 DEF RowsTogether
    <2>4. PageHidden(o)'
      BY <1>1, <1>2, <1>3, <2>1 DEF PageHidden, Solid
    <2>5. MoneyTrue(o)'
      BY <1>1, <1>2, <1>3, <2>1 DEF MoneyTrue, Charged
    <2>6. QED  BY <2>3, <2>4, <2>5
  <1>8. ASSUME NEW p \in Requests \ {o}
        PROVE  RowsTogether(p)' /\ PageHidden(p)' /\ MoneyTrue(p)'
    BY <1>1, <1>3, SameRequest DEF MoneyInv, RowsInv, storeVars, checkoutVars
  <1>9. QED  BY <1>5, <1>6, <1>7, <1>8 DEF MoneyInv, RowsInv

(* Time and crashes forget records and handlers, nothing else. *)
LEMMA ForgetRows ==
  ASSUME TypeOK, RowsInv, (\E i \in IdemKeys : ExpireRecord(i)) \/ CrashHandlers
  PROVE  RowsInv' /\ UNCHANGED <<storeVars, stripeVars>>
  <1>1. UNCHANGED <<storeVars, stripeVars, answer>>
    BY DEF ExpireRecord, CrashHandlers
  <1>2. \A o \in Requests : pc'[o] = pc[o] \/ pc'[o] = "crashed"
    BY DEF ExpireRecord, CrashHandlers, TypeOK
  <1>3. \A i \in IdemKeys : record'[i] = record[i] \/ record'[i] = NoRecord
    BY DEF ExpireRecord, CrashHandlers, TypeOK
  <1>4. \A o \in Requests : Known(o)' => Known(o)
    BY <1>1, <1>3 DEF Known, Disclosed, Recorded, NoRecord
  <1>5. ASSUME NEW o \in Requests
        PROVE  RowsTogether(o)' /\ PageHidden(o)' /\ MoneyTrue(o)'
    BY <1>1, <1>2, <1>4
       DEF RowsInv, storeVars, stripeVars, RowsTogether, PageHidden, MoneyTrue, Solid,
           Charged, Early, Unborn
  <1>6. QED  BY <1>1, <1>5 DEF RowsInv

LEMMA ForgetMoney ==
  ASSUME PaymentTypeOK, MoneyInv,
         \/ UNCHANGED webhookVars /\ \E i \in IdemKeys : ExpireRecord(i)
         \/ ProcessCrash
  PROVE  MoneyInv'
  <1>1. RowsInv' /\ UNCHANGED <<storeVars, stripeVars>>
    BY ForgetRows DEF ProcessCrash, PaymentTypeOK, MoneyInv
  <1>2. \A w \in Workers : task'[w] = task[w] \/ task'[w] = Idle
    BY DEF ProcessCrash, CrashWorkers, webhookVars
  <1>3. EventsTrue' /\ TasksEmitted'
    BY <1>1, <1>2, OldEvents, OldTasks
       DEF stripeVars, SessionsStay, MoneyInv, PaymentTypeOK, Charged
  <1>4. QED  BY <1>1, <1>3 DEF MoneyInv

LEMMA InitRows == Init => RowsInv
  <1> SUFFICES ASSUME Init, NEW o \in Requests
               PROVE  RowsTogether(o) /\ PageHidden(o) /\ MoneyTrue(o)
    BY DEF RowsInv
  <1>1. ~Known(o)
    BY DEF Init, Known, Disclosed, Recorded, NoRecord, Said, Url
  <1>2. QED
    BY <1>1 DEF Init, StoreInit, StripeInit, RowsTogether, PageHidden, MoneyTrue

LEMMA MoneyInit == PaymentInit => MoneyInv
  <1> SUFFICES ASSUME PaymentInit  PROVE MoneyInv
    OBVIOUS
  <1>1. EventsTrue
    BY NoiseAssumption DEF PaymentInit, Init, StripeInit, EventsTrue, SaysPaid, SaysFailed
  <1>2. TasksEmitted
    BY DEF PaymentInit, WebhookInit, TasksEmitted
  <1>3. QED  BY <1>1, <1>2, InitRows DEF MoneyInv, PaymentInit

LEMMA MoneyStep ==
  ASSUME PaymentTypeOK, MoneyInv, [PaymentNext]_paymentVars
  PROVE  MoneyInv'
  <1>1. CASE CheckoutStep /\ UNCHANGED webhookVars
    BY <1>1, HandlerMoney, FaultMoney, ShapeMoney, ForgetMoney
       DEF CheckoutStep, PaymentTypeOK
  <1>2. CASE WebhookStep /\ UNCHANGED checkoutVars
    BY <1>2, WebhookMoney
  <1>3. ASSUME NEW o \in Requests, CustomerStep(o)
        PROVE  MoneyInv'
    BY <1>3, CustomerMoney
  <1>4. CASE ProcessCrash
    BY <1>4, ForgetMoney
  <1>5. CASE UNCHANGED paymentVars
    <2>1. /\ UNCHANGED <<storeVars, stripeVars, checkoutVars, webhookVars>>
          /\ \A o \in Requests : Known(o)' => Known(o)
      BY <1>5 DEF paymentVars, vars, Known, Disclosed, Recorded, checkoutVars
    <2>2. EventsTrue' /\ TasksEmitted'
      BY <2>1, OldEvents, OldTasks
         DEF stripeVars, webhookVars, SessionsStay, MoneyInv, PaymentTypeOK, Charged
    <2>3. \A o \in Requests : RowsTogether(o)' /\ PageHidden(o)' /\ MoneyTrue(o)'
      BY <2>1, SameRequest DEF MoneyInv, RowsInv, storeVars, stripeVars, checkoutVars
    <2>4. QED  BY <2>2, <2>3 DEF MoneyInv, RowsInv
  <1>6. QED
    BY <1>1, <1>2, <1>3, <1>4, <1>5 DEF PaymentNext

(* The inductive invariant of the money: what the rows, the events and the *)
(* places of the handlers say of each other.                               *)
THEOREM MoneyCorrect == PaymentSpec => [](PaymentTypeOK /\ MoneyInv)
  <1>1. PaymentTypeOK /\ MoneyInv /\ [PaymentNext]_paymentVars => MoneyInv'
    BY MoneyStep
  <1>2. QED  BY MoneyInit, PaymentTypeCorrect, <1>1, PTL DEF PaymentSpec

(* An order is paid exactly when its payment is, although two endpoints    *)
(* write the two rows and one of them does not look at what it overwrites. *)
THEOREM PaidTogetherCorrect == PaymentSpec => []PaidTogether
  <1>1. MoneyInv => PaidTogether
    BY DEF MoneyInv, RowsInv, MoneyTrue, PaidTogether
  <1>2. QED  BY <1>1, MoneyCorrect, PTL

(* No order is paid unless Stripe took the money. *)
THEOREM PaidIsGenuineCorrect == PaymentSpec => []PaidIsGenuine
  <1>1. MoneyInv => PaidIsGenuine
    BY DEF MoneyInv, RowsInv, MoneyTrue, PaidIsGenuine
  <1>2. QED  BY <1>1, MoneyCorrect, PTL

(* An order whose money Stripe took is never written off. *)
THEOREM ChargedNotFailedCorrect == PaymentSpec => []ChargedNotFailed
  <1>1. ASSUME MoneyInv, NEW o \in Requests, Charged(o)
        PROVE  orders[o] = "pending" \/ orders[o] = "paid"
    <2>1. MoneyTrue(o) /\ RowsTogether(o)
      BY <1>1 DEF MoneyInv, RowsInv
    <2>2. QED  BY <1>1, <2>1 DEF MoneyTrue, RowsTogether, Charged
  <1>2. MoneyInv => ChargedNotFailed
    BY <1>1 DEF ChargedNotFailed
  <1>3. QED  BY <1>2, MoneyCorrect, PTL

LEMMA RowsBack ==
  ASSUME TypeOK, RowsInv
  PROVE  CompletedRecordBacked
  <1>1. ASSUME NEW i \in IdemKeys, record[i].state = "completed"
        PROVE  Solid(record[i].order)
    <2>1. record[i].order \in Requests
      BY <1>1 DEF TypeOK, Records, NoRecord
    <2>2. PageHidden(record[i].order) /\ Known(record[i].order)
      BY <1>1, <2>1 DEF RowsInv, Known, Recorded
    <2>3. QED  BY <2>2 DEF PageHidden
  <1>2. QED  BY <1>1 DEF CompletedRecordBacked, Solid

(* A record that replays a URL is never ahead of the database. *)
THEOREM RecordBackedCorrect == PaymentSpec => []CompletedRecordBacked
  <1>1. PaymentTypeOK /\ MoneyInv => CompletedRecordBacked
    BY RowsBack DEF PaymentTypeOK, MoneyInv
  <1>2. QED  BY <1>1, MoneyCorrect, PTL

(* So it is while nobody pays and no event comes: the checkout alone keeps *)
(* the order of its writes.                                                *)
THEOREM CheckoutRecordBacked == Spec => []CompletedRecordBacked
  <1>1. TypeOK /\ RowsInv /\ [Next]_vars => RowsInv'
    <2> SUFFICES ASSUME TypeOK, RowsInv, [Next]_vars
                 PROVE  RowsInv'
      OBVIOUS
    <2>1. ASSUME NEW h \in Requests,
                 Receive(h) \/ RejectContext(h) \/ HandlerStep(h) \/ HandlerFault(h)
          PROVE  RowsInv'
      BY <2>1, HandlerMoney, FaultMoney, ShapeRows
    <2>2. CASE (\E i \in IdemKeys : ExpireRecord(i)) \/ CrashHandlers
      BY <2>2, ForgetRows
    <2>3. CASE UNCHANGED vars
      <3>1. /\ UNCHANGED <<storeVars, stripeVars, checkoutVars>>
            /\ \A o \in Requests : Known(o)' => Known(o)
        BY <2>3 DEF vars, Known, Disclosed, Recorded, checkoutVars
      <3>2. QED
        BY <3>1, SameRequest DEF RowsInv, storeVars, stripeVars, checkoutVars
    <2>4. QED  BY <2>1, <2>2, <2>3 DEF Next, CheckoutStep, Crash
  <1>2. TypeOK /\ RowsInv => CompletedRecordBacked
    BY RowsBack
  <1>3. QED  BY <1>1, <1>2, InitRows, TypeCorrect, PTL DEF Spec

----------------------------------------------------------------------------
\* Nothing takes back an outcome.

(* An order that is paid, or written off, stays so. *)
OutcomesStay ==
    \A o \in Requests : orders[o] \in {"paid", "payment_failed"} => orders'[o] = orders[o]

LEMMA StepKeepsOutcomes ==
  ASSUME PaymentTypeOK, MoneyInv, PaymentNext
  PROVE  /\ OutcomesStay
         /\ \A o \in Requests : orders[o] = "paid" => payments'[o] = "paid"
  <1>1. ASSUME UNCHANGED storeVars
        PROVE  /\ OutcomesStay
               /\ \A o \in Requests : orders[o] = "paid" => payments'[o] = "paid"
    BY <1>1 DEF storeVars, OutcomesStay, MoneyInv, RowsInv, MoneyTrue
  <1>2. ASSUME NEW h \in Requests, MoneyShape(h), NEW o \in Requests,
               orders[o] \in {"paid", "payment_failed"}
        PROVE  /\ orders'[o] = orders[o]
               /\ orders[o] = "paid" => payments'[o] = "paid"
    <2>1. RowsTogether(o) /\ PageHidden(o) /\ MoneyTrue(o)
      BY DEF MoneyInv, RowsInv
    <2>2. o = h => pc[h] \notin Unborn
      BY <1>2, <2>1 DEF RowsTogether
    <2>3. o = h /\ orders[o] = "paid" => pc[h] \notin {"mark", "refuse"}
      BY <2>1 DEF PageHidden, MoneyTrue, Charged, Early
    <2>4. QED
      BY <1>2, <2>1, <2>2, <2>3
         DEF MoneyShape, RowsShape, InsertOrder, InsertPayment, OverwritePayment,
             MoneyTrue, Unborn, PaymentTypeOK, TypeOK, StoreTypeOK
  <1>3. CASE CheckoutStep
    <2>1. CASE \E h \in Requests :
                 Receive(h) \/ RejectContext(h) \/ HandlerStep(h) \/ HandlerFault(h)
      <3>1. PICK h \in Requests : MoneyShape(h)
        BY <2>1, HandlerMoney, FaultMoney DEF PaymentTypeOK
      <3>2. QED  BY <1>2, <3>1 DEF OutcomesStay
    <2>2. CASE \E i \in IdemKeys : ExpireRecord(i)
      BY <1>1, <2>2 DEF ExpireRecord
    <2>3. QED  BY <1>3, <2>1, <2>2 DEF CheckoutStep
  <1>4. CASE WebhookStep
    <2>1. PICK w \in Workers :
            \/ \E e \in Events : Deliver(w, e)
            \/ WorkerStep(w)
            \/ TransactionFails(w) \/ CommitUnacknowledged(w) \/ PublishFails(w)
      BY <1>4 DEF WebhookStep
    <2>2. CASE CommitPaid(w) \/ CommitFailed(w)
      <3>1. PICK e \in Requests :
              /\ \A p \in Requests \ {e} : orders'[p] = orders[p] /\ payments'[p] = payments[p]
              /\ orders[e] \in {"pending", "payment_failed"}
              /\ orders[e] = "payment_failed" => orders'[e] = "payment_failed"
        BY <2>2, CommitEffect
      <3>2. QED  BY <3>1 DEF OutcomesStay, MoneyInv, RowsInv, MoneyTrue
    <2>3. CASE UNCHANGED storeVars
      BY <1>1, <2>3
    <2>4. QED
      BY <2>1, <2>2, <2>3 DEF Deliver, WorkerStep, Register, Ignore, CommitAlone, Refuse, SettlePaid,
         SettleFailed, Publish, TransactionFails, CommitUnacknowledged, PublishFails
  <1>5. CASE ProcessCrash \/ \E o \in Requests : CustomerStep(o)
    BY <1>1, <1>5 DEF ProcessCrash, CrashHandlers, CustomerStep
  <1>6. QED
    BY <1>3, <1>4, <1>5 DEF PaymentNext

(* Nothing that happens after an order was paid takes it back, nor its     *)
(* payment.                                                                *)
THEOREM PaidIsFinalCorrect == PaymentSpec => PaidIsFinal
  <1> DEFINE Kept == \A o \in Requests :
                orders[o] = "paid" => orders'[o] = "paid" /\ payments'[o] = "paid"
  <1>1. PaymentTypeOK /\ MoneyInv /\ [PaymentNext]_paymentVars => [Kept]_paymentVars
    BY StepKeepsOutcomes DEF OutcomesStay
  <1>2. QED  BY <1>1, MoneyCorrect, PTL DEF PaymentSpec, PaidIsFinal

----------------------------------------------------------------------------
\* Handlers that are quick against the lifetime of their page.

(* A page only expires once its handler is done with it, so that an order  *)
(* that was written off has a payment that was, too.                       *)
TimelyInv ==
    \A o \in Requests :
        /\ session[o] = "expired" => pc[o] \in {"done", "crashed"}
        /\ orders[o] = "payment_failed" => payments[o] = "failed"

LEMMA TimelyStep ==
  ASSUME ~Stalls, PaymentTypeOK, MoneyInv, TimelyInv, [PaymentNext]_paymentVars
  PROVE  TimelyInv'
  <1>1. ASSUME NEW h \in Requests, MoneyShape(h), NEW o \in Requests
        PROVE  /\ session'[o] = "expired" => pc'[o] \in {"done", "crashed"}
               /\ orders'[o] = "payment_failed" => payments'[o] = "failed"
    <2>1. CASE o # h
      BY <1>1, <2>1 DEF MoneyShape, RowsShape, InsertOrder, InsertPayment, OverwritePayment,
                        TimelyInv, PaymentTypeOK, TypeOK, StoreTypeOK, StripeTypeOK
    <2>2. CASE o = h
      <3>1. session[h] # "expired"
        BY <1>1 DEF TimelyInv, MoneyShape
      <3>2. session'[h] # "expired"
        BY <1>1, <3>1 DEF MoneyShape, RowsShape, PaymentTypeOK, TypeOK, StripeTypeOK
      <3>3. orders[h] = "payment_failed" => pc[h] \notin Early
        BY <3>1 DEF MoneyInv, RowsInv, MoneyTrue, PageHidden
      <3>4. orders'[h] = "payment_failed" => payments'[h] = "failed"
        BY <1>1, <3>3 DEF MoneyShape, RowsShape, InsertOrder, TimelyInv, Early, Unborn,
                          PaymentTypeOK, TypeOK, StoreTypeOK
      <3>5. QED  BY <2>2, <3>2, <3>4
    <2>3. QED  BY <2>1, <2>2
  <1>2. CASE CheckoutStep
    <2>1. CASE \E h \in Requests :
                 Receive(h) \/ RejectContext(h) \/ HandlerStep(h) \/ HandlerFault(h)
      <3>1. PICK h \in Requests : MoneyShape(h)
        BY <2>1, HandlerMoney, FaultMoney DEF PaymentTypeOK
      <3>2. QED  BY <1>1, <3>1 DEF TimelyInv
    <2>2. CASE \E i \in IdemKeys : ExpireRecord(i)
      BY <2>2 DEF ExpireRecord, TimelyInv, storeVars, stripeVars
    <2>3. QED  BY <1>2, <2>1, <2>2 DEF CheckoutStep
  <1>3. CASE WebhookStep /\ UNCHANGED checkoutVars
    <2>1. PICK w \in Workers :
            \/ \E e \in Events : Deliver(w, e)
            \/ WorkerStep(w)
            \/ TransactionFails(w) \/ CommitUnacknowledged(w) \/ PublishFails(w)
      BY <1>3 DEF WebhookStep
    <2>2. UNCHANGED <<session, pc>>
      BY <1>3, <2>1 DEF Deliver, WorkerStep, Register, Ignore, CommitAlone, Refuse, SettlePaid,
         SettleFailed, Publish, TransactionFails, CommitUnacknowledged, PublishFails,
         stripeVars, checkoutVars
    <2>3. CASE CommitPaid(w) \/ CommitFailed(w)
      <3>1. PICK e \in Requests :
              /\ \A p \in Requests \ {e} : orders'[p] = orders[p] /\ payments'[p] = payments[p]
              /\ orders'[e] = "payment_failed" => payments'[e] = "failed"
        BY <2>3, CommitEffect
      <3>2. QED  BY <2>2, <3>1 DEF TimelyInv
    <2>4. CASE UNCHANGED storeVars
      BY <2>2, <2>4 DEF storeVars, TimelyInv
    <2>5. QED
      BY <2>1, <2>3, <2>4 DEF Deliver, WorkerStep, Register, Ignore, CommitAlone, Refuse, SettlePaid,
         SettleFailed, Publish, TransactionFails, CommitUnacknowledged, PublishFails
  <1>4. ASSUME NEW o \in Requests, CustomerStep(o)
        PROVE  TimelyInv'
    <2>1. UNCHANGED <<storeVars, pc>>
      BY <1>4 DEF CustomerStep, checkoutVars
    <2>2. ASSUME NEW p \in Requests, session'[p] = "expired", session[p] # "expired"
          PROVE  pc[p] \in {"done", "crashed"}
      <3>1. p = o /\ session[p] = "open" /\ ~Owns(p)
        BY <1>4, <2>2 DEF CustomerStep, Pay, PayLater, Settle, Decline, Expire, Occur,
                          PaymentTypeOK, TypeOK, StripeTypeOK
      <3>2. pc[p] \notin Unborn
        BY <3>1 DEF MoneyInv, RowsInv, RowsTogether
      <3>3. QED
        BY <3>1, <3>2 DEF Owns, Owning, Unborn, PaymentTypeOK, TypeOK, Places, InFlight
    <2>3. QED  BY <2>1, <2>2 DEF TimelyInv, storeVars
  <1>5. CASE ProcessCrash
    <2>1. \A o \in Requests : pc'[o] = pc[o] \/ pc'[o] = "crashed"
      BY <1>5 DEF ProcessCrash, CrashHandlers, PaymentTypeOK, TypeOK
    <2>2. QED
      BY <1>5, <2>1 DEF ProcessCrash, CrashHandlers, TimelyInv, storeVars, stripeVars
  <1>6. CASE UNCHANGED paymentVars
    BY <1>6 DEF paymentVars, vars, checkoutVars, storeVars, stripeVars, TimelyInv
  <1>7. QED
    BY <1>2, <1>3, <1>4, <1>5, <1>6 DEF PaymentNext

LEMMA TimelyCorrect ==
  ASSUME ~Stalls
  PROVE  PaymentSpec => [](PaymentTypeOK /\ MoneyInv /\ TimelyInv)
  <1>1. PaymentInit => TimelyInv
    BY DEF PaymentInit, Init, StoreInit, StripeInit, TimelyInv
  <1>2. PaymentTypeOK /\ MoneyInv /\ TimelyInv /\ [PaymentNext]_paymentVars => TimelyInv'
    BY TimelyStep
  <1>3. QED  BY <1>1, <1>2, MoneyCorrect, PTL DEF PaymentSpec

(* A failed order has a failed payment, as long as no handler outlasts its *)
(* page.                                                                   *)
THEOREM FailedTogetherCorrect ==
  ASSUME ~Stalls
  PROVE  PaymentSpec => []FailedTogether
  <1>1. TimelyInv => FailedTogether
    BY DEF TimelyInv, FailedTogether
  <1>2. QED  BY <1>1, TimelyCorrect, PTL

----------------------------------------------------------------------------
\* Announcements.

(* Messages of M the admins heard of order o, and workers about to tell    *)
(* them one.                                                               *)
Heard(o, M) ==
    (IF "order_paid" \in M THEN announced[o]["order_paid"] ELSE 0)
      + (IF "order_payment_failed" \in M THEN announced[o]["order_payment_failed"] ELSE 0)
Telling(w, o, M) == At(w, "publish") /\ Event(w).order = o /\ task[w].message \in M

(* The order has an outcome that a message of M is about. *)
Final(o, M) ==
    \/ orders[o] = "paid"
    \/ orders[o] = "payment_failed" /\ "order_payment_failed" \in M

(* A message is told once, by one worker, and about an outcome. *)
OnceInv(M) ==
    \A o \in Requests :
        /\ Heard(o, M) <= 1
        /\ Heard(o, M) > 0 => Final(o, M)
        /\ \A w \in Workers : Telling(w, o, M) => Final(o, M) /\ Heard(o, M) = 0
        /\ \A v, w \in Workers : Telling(v, o, M) /\ Telling(w, o, M) => v = w

LEMMA HeardType ==
  ASSUME WebhookTypeOK, NEW o \in Requests, NEW M
  PROVE  Heard(o, M) \in Nat
  BY DEF Heard, WebhookTypeOK, Messages

(* Steps that announce nothing and give no worker a message. *)
LEMMA QuietOnce ==
  ASSUME NEW M, OnceInv(M), OutcomesStay,
         UNCHANGED announced,
         \A w \in Workers : task'[w] = task[w] \/ ~At(w, "publish")'
  PROVE  OnceInv(M)'
  <1>1. \A o \in Requests : Heard(o, M)' = Heard(o, M)
    BY DEF Heard
  <1>2. \A o \in Requests : Final(o, M) => Final(o, M)'
    BY DEF Final, OutcomesStay
  <1>3. \A w \in Workers, o \in Requests : Telling(w, o, M)' => Telling(w, o, M)
    BY DEF Telling, At, Event
  <1>4. QED  BY <1>1, <1>2, <1>3 DEF OnceInv

(* A transaction that commits an outcome finds none, so nobody was told.   *)
LEMMA SettleOnce ==
  ASSUME PaymentTypeOK, MoneyInv, OutcomesStay, NEW M, OnceInv(M),
         "order_payment_failed" \in M => TimelyInv,
         NEW w \in Workers, SettlePaid(w) \/ SettleFailed(w)
  PROVE  OnceInv(M)'
  <1>1. CommitPaid(w) \/ CommitFailed(w)
    BY DEF SettlePaid, SettleFailed
  <1>2. PICK e \in Requests :
          /\ Event(w).order = e
          /\ orders[e] \in {"pending", "payment_failed"} /\ PaymentIsOpen(e)
          /\ \/ SettlePaid(w) /\ orders[e] = "pending" /\ orders'[e] = "paid"
             \/ SettleFailed(w) /\ orders'[e] = "payment_failed"
    BY <1>1, CommitEffect DEF SettlePaid, SettleFailed, CommitPaid, CommitFailed, SaysPaid,
                              SaysFailed
  <1>3. PICK m \in Messages :
          /\ task' = [task EXCEPT ![w] =
                        [stage |-> "publish", event |-> Event(w), message |-> m]]
          /\ \/ SettlePaid(w) /\ m = "order_paid"
             \/ SettleFailed(w) /\ m = "order_payment_failed"
    BY DEF SettlePaid, SettleFailed, Become, Messages
  <1>4. /\ \A o \in Requests : Heard(o, M)' = Heard(o, M) /\ (Final(o, M) => Final(o, M)')
        /\ \A v \in Workers \ {w}, o \in Requests : Telling(v, o, M)' => Telling(v, o, M)
        /\ \A o \in Requests : Telling(w, o, M)' => o = e /\ m \in M
    BY <1>2, <1>3 DEF SettlePaid, SettleFailed, Heard, Final, OutcomesStay, Telling, At,
                      Event, PaymentTypeOK, WebhookTypeOK
  <1>5. ASSUME m \in M
        PROVE  /\ ~Final(e, M) /\ Final(e, M)'
               /\ Heard(e, M) = 0
               /\ \A v \in Workers : ~Telling(v, e, M)
    <2>1. orders[e] = "pending" \/ "order_payment_failed" \notin M
      BY <1>2 DEF TimelyInv, PaymentIsOpen
    <2>2. ~Final(e, M)
      BY <1>2, <2>1 DEF Final
    <2>3. Final(e, M)'
      BY <1>2, <1>3, <1>5 DEF Final, SettlePaid, SettleFailed, CommitPaid, CommitFailed,
                              SaysPaid, SaysFailed
    <2>4. Heard(e, M) \in Nat
      BY HeardType DEF PaymentTypeOK
    <2>5. QED  BY <2>2, <2>3, <2>4 DEF OnceInv
  <1>6. QED  BY <1>4, <1>5 DEF OnceInv

(* The one worker that tells the admins of an outcome tells them once.     *)
LEMMA TellOnce ==
  ASSUME PaymentTypeOK, OutcomesStay, NEW M, OnceInv(M),
         NEW w \in Workers, Publish(w) \/ PublishFails(w)
  PROVE  OnceInv(M)'
  <1>1. /\ At(w, "publish")
        /\ ~At(w, "publish")'
        /\ \A v \in Workers \ {w} : task'[v] = task[v]
        /\ Announce(w) \/ UNCHANGED announced
    BY DEF Publish, PublishFails, Accept, Break, Become, At, Idle, PaymentTypeOK, WebhookTypeOK
  <1>2. CASE UNCHANGED announced
    BY <1>1, <1>2, QuietOnce
  <1>3. CASE Announce(w)
    <2>1. task[w].message \in Messages
      BY <1>1, TaskFacts DEF PaymentTypeOK
    <2>2. ASSUME NEW o \in Requests
          PROVE  \/ Heard(o, M)' = Heard(o, M)
                 \/ Telling(w, o, M) /\ Heard(o, M)' = Heard(o, M) + 1
      <3>1. CASE Event(w).order # o
        <4>1. announced'[o] = announced[o]
          BY <1>3, <3>1 DEF Announce, PaymentTypeOK, WebhookTypeOK
        <4>2. QED  BY <4>1 DEF Heard
      <3>2. CASE Event(w).order = o
        <4>1. \A k \in Messages :
                announced'[o][k] = IF k = task[w].message THEN announced[o][k] + 1
                                   ELSE announced[o][k]
          BY <1>3, <2>1, <3>2 DEF Announce, PaymentTypeOK, WebhookTypeOK
        <4>2. \A k \in Messages : announced[o][k] \in Nat
          BY DEF PaymentTypeOK, WebhookTypeOK
        <4>3. QED  BY <1>1, <2>1, <3>2, <4>1, <4>2 DEF Heard, Telling, Messages
      <3>3. QED  BY <3>1, <3>2
    <2>3. \A v \in Workers, o \in Requests : Telling(v, o, M)' => v # w /\ Telling(v, o, M)
      BY <1>1 DEF Telling, At, Event
    <2>4. \A o \in Requests : Final(o, M) => Final(o, M)'
      BY DEF Final, OutcomesStay
    <2>5. \A o \in Requests : Heard(o, M) \in Nat
      BY HeardType DEF PaymentTypeOK
    <2>6. QED  BY <2>2, <2>3, <2>4, <2>5 DEF OnceInv
  <1>4. QED  BY <1>1, <1>2, <1>3

LEMMA OnceStep ==
  ASSUME PaymentTypeOK, MoneyInv, NEW M, OnceInv(M),
         "order_payment_failed" \in M => TimelyInv,
         [PaymentNext]_paymentVars
  PROVE  OnceInv(M)'
  <1>1. OutcomesStay
    BY StepKeepsOutcomes
       DEF paymentVars, vars, storeVars, OutcomesStay
  <1>2. ASSUME UNCHANGED webhookVars
        PROVE  OnceInv(M)'
    BY <1>1, <1>2, QuietOnce DEF webhookVars
  <1>3. CASE WebhookStep
    <2>1. PICK w \in Workers :
            \/ \E e \in Events : Deliver(w, e)
            \/ WorkerStep(w)
            \/ TransactionFails(w) \/ CommitUnacknowledged(w) \/ PublishFails(w)
      BY <1>3 DEF WebhookStep
    <2>2. CASE SettlePaid(w) \/ SettleFailed(w)
      BY <1>1, <2>2, SettleOnce
    <2>3. CASE Publish(w) \/ PublishFails(w)
      BY <1>1, <2>3, TellOnce
    <2>4. CASE \/ \E e \in Events : Deliver(w, e)
               \/ Register(w) \/ Ignore(w) \/ Refuse(w)
               \/ TransactionFails(w) \/ CommitUnacknowledged(w)
      <3>1. UNCHANGED announced
        BY <2>4 DEF Deliver, Register, Ignore, CommitAlone, Refuse, TransactionFails, CommitUnacknowledged
      <3>2. \A v \in Workers : task'[v] = task[v] \/ ~At(v, "publish")'
        BY <2>4 DEF Deliver, Register, Ignore, CommitAlone, Refuse, TransactionFails,
              CommitUnacknowledged, Accept, Reject, Break, Become, At, Idle,
              PaymentTypeOK, WebhookTypeOK
      <3>3. QED  BY <1>1, <3>1, <3>2, QuietOnce
    <2>5. QED  BY <2>1, <2>2, <2>3, <2>4 DEF WorkerStep
  <1>4. CASE ProcessCrash
    BY <1>1, <1>4, QuietOnce DEF ProcessCrash, CrashWorkers, At, Idle
  <1>5. CASE \/ CheckoutStep /\ UNCHANGED webhookVars
             \/ \E o \in Requests : CustomerStep(o)
             \/ UNCHANGED paymentVars
    BY <1>2, <1>5 DEF CustomerStep, paymentVars
  <1>6. QED  BY <1>3, <1>4, <1>5 DEF PaymentNext

LEMMA OnceInit ==
  ASSUME PaymentInit, NEW M
  PROVE  OnceInv(M)
  <1> SUFFICES ASSUME NEW o \in Requests
               PROVE  Heard(o, M) = 0 /\ \A w \in Workers : ~Telling(w, o, M)
    <2>1. \A n : n = 0 => n <= 1 /\ ~(n > 0)
      OBVIOUS
    <2>2. QED  BY <2>1, Zenon DEF OnceInv
  <1>1. announced[o]["order_paid"] = 0 /\ announced[o]["order_payment_failed"] = 0
    BY DEF PaymentInit, WebhookInit, Messages
  <1>2. Heard(o, M) = 0
    BY <1>1 DEF Heard
  <1>3. \A w \in Workers : ~Telling(w, o, M)
    BY DEF PaymentInit, WebhookInit, Telling, At, Idle
  <1>4. QED  BY <1>2, <1>3

(* They hear of one outcome at most, as long as no handler outlasts its    *)
(* page.                                                                   *)
THEOREM OneOutcomeCorrect ==
  ASSUME ~Stalls
  PROVE  PaymentSpec => []OneOutcomePerOrder
  <1>1. PaymentInit => OnceInv(Messages)
    BY OnceInit
  <1>2. PaymentTypeOK /\ MoneyInv /\ TimelyInv /\ OnceInv(Messages)
          /\ [PaymentNext]_paymentVars => OnceInv(Messages)'
    BY OnceStep
  <1>3. OnceInv(Messages) => OneOutcomePerOrder
    BY DEF OnceInv, Heard, OneOutcomePerOrder, Messages
  <1>4. QED  BY <1>1, <1>2, <1>3, TimelyCorrect, PTL DEF PaymentSpec

----------------------------------------------------------------------------
\* The payment path as a whole implements PayOnce.

(* Whoever paid at a page, or tried to, had been sent there. *)
PayersTold ==
    \A o \in Requests :
        session[o] \in {"paid", "processing", "settled", "declined"} => Disclosed(o)

(* What the webhook, the customers and a crash leave as it is. *)
PagesAlone ==
    /\ UNCHANGED <<req, stripeKey, record, answer>>
    /\ \A h \in Requests : pc'[h] = pc[h] \/ (pc[h] \in InFlight /\ pc'[h] = "crashed")
    /\ \A o \in Requests : session'[o] # "none" => session[o] # "none"

LEMMA AlonePages ==
  ASSUME TypeOK, PageInv, PagesAlone
  PROVE  PageInv'
  <1>1. PagesStay
    BY DEF PagesAlone, PagesStay, IsPage
  <1>2. RecordHasPage' /\ AnswerHasPage'
    BY <1>1, SameRecords, SameAnswers DEF PagesAlone, PageInv
  <1>3. SessionHasKey'
    BY <1>1 DEF PagesAlone, PageInv, SessionHasKey, PagesStay
  <1>4. Unanswered'
    BY DEF PagesAlone, PageInv, Unanswered, InFlight, Owning
  <1>5. PastCall'
    BY <1>1 DEF PagesAlone, PageInv, PastCall, PagesStay
  <1>6. QED  BY <1>2, <1>3, <1>4, <1>5 DEF PageInv

LEMMA WebhookAlone ==
  ASSUME WebhookStep, UNCHANGED checkoutVars
  PROVE  UNCHANGED <<stripeVars, checkoutVars>>
  BY DEF WebhookStep, Deliver, WorkerStep, Register, Ignore, CommitAlone, Refuse, SettlePaid,
         SettleFailed, Publish, TransactionFails, CommitUnacknowledged, PublishFails

LEMMA CrashAlone ==
  ASSUME PaymentTypeOK, ProcessCrash
  PROVE  PagesAlone /\ UNCHANGED session
  BY DEF ProcessCrash, CrashHandlers, PagesAlone, stripeVars, PaymentTypeOK, TypeOK

(* One session moves on, and only where somebody knew the page. *)
LEMMA CustomerMoves ==
  ASSUME PaymentTypeOK, PayersTold, NEW o \in Requests, CustomerStep(o)
  PROVE  /\ UNCHANGED <<req, stripeKey, record, answer, pc>>
         /\ \A p \in Requests \ {o} : session'[p] = session[p]
         /\ session[o] # "none"
         /\ session'[o] # "expired" => Disclosed(o)
         /\ ~Charged(o)
  BY DEF CustomerStep, Pay, PayLater, Settle, Decline, Expire, Occur, checkoutVars,
         PayersTold, Charged, PaymentTypeOK, TypeOK, StripeTypeOK

LEMMA PromiseInit == PaymentInit => PageInv /\ PayersTold /\ Once!Init
  BY InitPages, InitRefines DEF PaymentInit, Init, StripeInit, PayersTold

(* A handler's answer stays the answer, so a page that was disclosed stays *)
(* so; and a handler only ever makes a session open.                       *)
LEMMA ShapeTold ==
  ASSUME TypeOK, PageInv, PayersTold, NEW h \in Requests, Shape(h)
  PROVE  PayersTold'
  <1>1. ASSUME NEW o \in Requests, Disclosed(o)
        PROVE  Disclosed(o)'
    <2>1. PICK g \in Requests : answer[g] = Url(o)
      BY <1>1 DEF Disclosed
    <2>2. g # h
      BY <2>1 DEF Shape, PageInv, Unanswered, Url, Said
    <2>3. answer'[g] = answer[g]
      BY <2>2 DEF Shape, ControlShape, Move, Return, TypeOK
    <2>4. QED  BY <2>1, <2>3 DEF Disclosed, Url
  <1>2. \A o \in Requests : session'[o] = session[o] \/ session'[o] = "open"
    BY DEF Shape, AcceptSession, stripeVars, TypeOK, StripeTypeOK
  <1>3. QED  BY <1>1, <1>2 DEF PayersTold

(* Every step keeps the invariant of the pages, and that payers were told. *)
LEMMA PromiseStep ==
  ASSUME PaymentTypeOK, PageInv, PayersTold, [PaymentNext]_paymentVars
  PROVE  PageInv' /\ PayersTold' /\ [Once!Next]_(Once!vars)
  <1>1. ASSUME UNCHANGED <<req, stripeKey, answer, session>>
        PROVE  PayersTold' /\ UNCHANGED Once!vars
    <2>1. UNCHANGED {o \in Requests : Charged(o)}
      BY <1>1, SameCollected
    <2>2. PayersTold'
      BY <1>1 DEF PayersTold, Disclosed, Url
    <2>3. QED  BY <1>1, <2>1, <2>2, SameTold DEF Once!vars
  <1>2. CASE CheckoutStep /\ UNCHANGED webhookVars
    <2>1. PageInv' /\ [Once!Next]_(Once!vars)
      BY <1>2, NextPages, NextRefines DEF Next, PaymentTypeOK
    <2>2. CASE \E h \in Requests :
                 Receive(h) \/ RejectContext(h) \/ HandlerStep(h) \/ HandlerFault(h)
      BY <2>1, <2>2, HandlerShape, FaultShape, ShapeTold DEF PaymentTypeOK
    <2>3. CASE \E i \in IdemKeys : ExpireRecord(i)
      BY <1>1, <2>1, <2>3 DEF ExpireRecord, stripeVars
    <2>4. QED  BY <1>2, <2>2, <2>3 DEF CheckoutStep
  <1>3. CASE WebhookStep /\ UNCHANGED checkoutVars
    <2>1. UNCHANGED <<stripeVars, checkoutVars>>
      BY <1>3, WebhookAlone
    <2>2. PageInv'
      BY <2>1, AlonePages DEF PagesAlone, stripeVars, checkoutVars, PaymentTypeOK
    <2>3. QED  BY <1>1, <2>1, <2>2 DEF stripeVars, checkoutVars
  <1>4. ASSUME NEW o \in Requests, CustomerStep(o)
        PROVE  PageInv' /\ PayersTold' /\ [Once!Next]_(Once!vars)
    <2>1. /\ UNCHANGED <<req, stripeKey, record, answer, pc>>
          /\ \A p \in Requests \ {o} : session'[p] = session[p]
          /\ session[o] # "none"
          /\ session'[o] # "expired" => Disclosed(o)
          /\ ~Charged(o)
      BY <1>4, CustomerMoves
    <2>2. PageInv'
      BY <2>1, AlonePages DEF PagesAlone, PaymentTypeOK
    <2>3. PayersTold'
      BY <2>1 DEF PayersTold, Disclosed, Url
    <2>4. CASE Charged(o)'
      <3>1. PICK h \in Requests : answer[h] = Url(o)
        BY <2>1, <2>4 DEF Charged, Disclosed
      <3>2. Told(h) = o
        BY <3>1 DEF Told, Url
      <3>3. {p \in Requests : Charged(p)}' = {p \in Requests : Charged(p)} \cup {o}
        BY <2>1, <2>4 DEF Charged
      <3>4. Once!Collect(h, o)
        BY <2>1, <3>2, <3>3, SameTold DEF Once!Collect
      <3>5. QED  BY <2>2, <2>3, <3>4 DEF Once!Next
    <2>5. CASE ~Charged(o)'
      <3>1. UNCHANGED {p \in Requests : Charged(p)}
        BY <2>1, <2>5, SameCollected
      <3>2. QED  BY <2>1, <2>2, <2>3, <3>1, SameTold DEF Once!vars
    <2>6. QED  BY <2>4, <2>5
  <1>5. CASE ProcessCrash
    <2>1. PageInv'
      BY <1>5, CrashAlone, AlonePages DEF PaymentTypeOK
    <2>2. QED  BY <1>1, <1>5, <2>1, CrashAlone DEF PagesAlone
  <1>6. CASE UNCHANGED paymentVars
    <2>1. PageInv'
      BY <1>6, NextPages DEF paymentVars, PaymentTypeOK
    <2>2. QED
      BY <1>1, <1>6, <2>1 DEF paymentVars, vars, checkoutVars, stripeVars
  <1>7. QED
    BY <1>2, <1>3, <1>4, <1>5, <1>6 DEF PaymentNext

(* With customers who pay, delayed payments, webhooks and crashes of both  *)
(* endpoints, the promise to the clients holds: one page per key, told to  *)
(* those who asked for it, and paid once, by one of them.                  *)
THEOREM PaymentsImplementPayOnce == PaymentSpec => ImplementsPayOnce
  <1>1. PaymentTypeOK /\ PageInv /\ PayersTold /\ [PaymentNext]_paymentVars
          => PageInv' /\ PayersTold' /\ [Once!Next]_(Once!vars)
    BY PromiseStep
  <1>2. QED
    BY <1>1, PromiseInit, PaymentTypeCorrect, PTL
       DEF PaymentSpec, ImplementsPayOnce, Once!Spec

(* Whoever is sent to a page is sent to the one page of the key, which     *)
(* asks for what that client asked for, also while customers pay, webhooks *)
(* are processed and both endpoints crash.                                 *)
THEOREM PaymentsOnePage == PaymentSpec => [](UrlMatchesRequest /\ OnePagePerKey)
  <1>1. PaymentTypeOK /\ PageInv /\ PayersTold /\ [PaymentNext]_paymentVars
          => PageInv' /\ PayersTold'
    BY PromiseStep
  <1>2. PaymentTypeOK /\ PageInv => UrlMatchesRequest /\ OnePagePerKey
    BY PagesSafe DEF PaymentTypeOK
  <1>3. QED
    BY <1>1, <1>2, PromiseInit, PaymentTypeCorrect, PTL DEF PaymentSpec

(* One attempt per key at a time, with the webhook, the customers and a    *)
(* crash of both endpoints around it, provided no handler outlasts the TTL *)
(* of its record.                                                          *)
THEOREM PaymentsSingleFlight ==
  ASSUME ~Stalls
  PROVE  PaymentSpec => []SingleFlight
  <1>1. PaymentInit => OwnersHold /\ SingleFlight
    BY DEF PaymentInit, Init, OwnersHold, SingleFlight, Owns, Owning
  <1>2. ASSUME PaymentTypeOK, OwnersHold, SingleFlight, [PaymentNext]_paymentVars
        PROVE  OwnersHold' /\ SingleFlight'
    <2>1. CASE CheckoutStep
      BY <1>2, <2>1, NextLocks DEF Next, PaymentTypeOK
    <2>2. CASE UNCHANGED checkoutVars
      BY <1>2, <2>2 DEF checkoutVars, OwnersHold, SingleFlight, Owns, IdemKey
    <2>3. CASE ProcessCrash
      <3>1. \A h \in Requests : ~Owns(h)'
        BY <2>3 DEF ProcessCrash, CrashHandlers, Owns, InFlight, Owning
      <3>2. QED  BY <3>1 DEF OwnersHold, SingleFlight
    <2>4. QED
      BY <1>2, <2>1, <2>2, <2>3 DEF PaymentNext, CustomerStep, paymentVars, vars
  <1>3. QED  BY <1>1, <1>2, PaymentTypeCorrect, PTL DEF PaymentSpec

----------------------------------------------------------------------------
\* The payment path as a whole implements OrderLife.

(* A worker about to tell of an order's failure tells of one.              *)
FailuresTrue ==
    \A w \in Workers :
        At(w, "publish") =>
            /\ Event(w).order \in Requests
            /\ task[w].message = "order_payment_failed" =>
                  orders[Event(w).order] = "payment_failed"

LEMMA FailuresKept ==
  ASSUME FailuresTrue, OutcomesStay,
         \A w \in Workers : task'[w] = task[w] \/ ~At(w, "publish")'
  PROVE  FailuresTrue'
  BY DEF FailuresTrue, OutcomesStay, At, Event

LEMMA FailuresStep ==
  ASSUME PaymentTypeOK, MoneyInv, FailuresTrue, [PaymentNext]_paymentVars
  PROVE  FailuresTrue'
  <1>1. OutcomesStay
    BY StepKeepsOutcomes DEF paymentVars, vars, storeVars, OutcomesStay
  <1>2. ASSUME UNCHANGED task
        PROVE  FailuresTrue'
    BY <1>1, <1>2, FailuresKept
  <1>3. CASE WebhookStep
    <2>1. PICK w \in Workers :
            \/ \E e \in Events : Deliver(w, e)
            \/ WorkerStep(w)
            \/ TransactionFails(w) \/ CommitUnacknowledged(w) \/ PublishFails(w)
      BY <1>3 DEF WebhookStep
    <2>2. CASE SettlePaid(w)
      <3>1. /\ task'[w].message = "order_paid" /\ Event(w)' = Event(w)
            /\ \A v \in Workers \ {w} : task'[v] = task[v]
        BY <2>2 DEF SettlePaid, Become, Event, PaymentTypeOK, WebhookTypeOK
      <3>2. Event(w).order \in Requests
        BY <2>2, CommitEffect DEF SettlePaid
      <3>3. QED  BY <1>1, <3>1, <3>2 DEF FailuresTrue, OutcomesStay, At, Event
    <2>3. CASE SettleFailed(w)
      <3>1. /\ Event(w)' = Event(w)
            /\ \A v \in Workers \ {w} : task'[v] = task[v]
        BY <2>3 DEF SettleFailed, Become, Event, PaymentTypeOK, WebhookTypeOK
      <3>2. Event(w).order \in Requests /\ orders'[Event(w).order] = "payment_failed"
        BY <2>3, CommitEffect
           DEF SettleFailed, CommitPaid, CommitFailed, SaysPaid, SaysFailed
      <3>3. QED  BY <1>1, <3>1, <3>2 DEF FailuresTrue, OutcomesStay, At, Event
    <2>4. CASE \/ \E e \in Events : Deliver(w, e)
               \/ Register(w) \/ Ignore(w) \/ Refuse(w) \/ Publish(w)
               \/ TransactionFails(w) \/ CommitUnacknowledged(w) \/ PublishFails(w)
      <3>1. \A v \in Workers : task'[v] = task[v] \/ ~At(v, "publish")'
        BY <2>4 DEF Deliver, Register, Ignore, CommitAlone, Refuse, Publish, TransactionFails,
              CommitUnacknowledged, PublishFails, Accept, Reject, Break, Become, At,
              Idle, PaymentTypeOK, WebhookTypeOK
      <3>2. QED  BY <1>1, <3>1, FailuresKept
    <2>5. QED  BY <2>1, <2>2, <2>3, <2>4 DEF WorkerStep
  <1>4. CASE ProcessCrash
    BY <1>1, <1>4, FailuresKept DEF ProcessCrash, CrashWorkers, At, Idle
  <1>5. CASE \/ CheckoutStep /\ UNCHANGED webhookVars
             \/ \E o \in Requests : CustomerStep(o)
             \/ UNCHANGED paymentVars
    BY <1>2, <1>5 DEF CustomerStep, paymentVars, webhookVars
  <1>6. QED  BY <1>3, <1>4, <1>5 DEF PaymentNext

(* Who heard that an order failed heard the truth. *)
FailuresHeard ==
    \A o \in Requests :
        announced[o]["order_payment_failed"] > 0 => orders[o] = "payment_failed"

LEMMA HeardStep ==
  ASSUME PaymentTypeOK, MoneyInv, FailuresTrue, FailuresHeard, [PaymentNext]_paymentVars
  PROVE  FailuresHeard'
  <1>1. OutcomesStay
    BY StepKeepsOutcomes DEF paymentVars, vars, storeVars, OutcomesStay
  <1>2. CASE UNCHANGED announced
    BY <1>1, <1>2 DEF FailuresHeard, OutcomesStay
  <1>3. ASSUME NEW w \in Workers, At(w, "publish"), Announce(w)
        PROVE  FailuresHeard'
    <2>1. \A o \in Requests :
             \/ announced'[o]["order_payment_failed"] = announced[o]["order_payment_failed"]
             \/ o = Event(w).order /\ task[w].message = "order_payment_failed"
      BY <1>3 DEF Announce, PaymentTypeOK, WebhookTypeOK, Messages
    <2>2. QED  BY <1>1, <1>3, <2>1 DEF FailuresHeard, FailuresTrue, OutcomesStay
  <1>4. QED
    BY <1>2, <1>3 DEF PaymentNext, CustomerStep, ProcessCrash, CrashWorkers, paymentVars,
       webhookVars, WebhookStep, Deliver, WorkerStep, Register, Ignore, CommitAlone, Refuse, SettlePaid,
       SettleFailed, Publish, TransactionFails, CommitUnacknowledged, PublishFails

(* Whose money is still due.                                               *)
LEMMA MoneyFacts ==
  ASSUME PaymentTypeOK, NEW o \in Requests
  PROVE  /\ Money(o) = "taken" <=> Charged(o)
         /\ Money(o) = "lost" <=> session[o] \in {"declined", "expired"}
         /\ Money(o) = "due" <=> session[o] \in {"none", "open", "processing"}
  BY DEF Money, Charged, PaymentTypeOK, TypeOK, StripeTypeOK, SessionStates

LEMMA SameMoney ==
  ASSUME \A o \in Requests : Money(o)' = Money(o)
  PROVE  UNCHANGED [o \in Requests |-> Money(o)]
  OBVIOUS

(* A session that can still be paid belongs to an order that waits for it. *)
LEMMA OpenIsPending ==
  ASSUME MoneyInv, NEW o \in Requests, session[o] \in {"open", "processing"}
  PROVE  orders[o] = "pending"
  BY DEF MoneyInv, RowsInv, RowsTogether, MoneyTrue, Charged

LEMMA HandlerLives ==
  ASSUME PaymentTypeOK, MoneyInv, NEW h \in Requests, MoneyShape(h), UNCHANGED announced
  PROVE  [Life!Next]_(Life!vars)
  <1>1. CASE UNCHANGED <<orders, session>>
    BY <1>1, SameMoney DEF Life!vars, Money
  <1>2. CASE pc[h] = "create" /\ InsertOrder(h) /\ UNCHANGED session
    <2>1. orders[h] = "absent"
      BY <1>2 DEF MoneyInv, RowsInv, RowsTogether, Unborn
    <2>2. UNCHANGED [o \in Requests |-> Money(o)]
      BY <1>2, SameMoney DEF Money
    <2>3. Life!Place(h)
      BY <1>2, <2>1, <2>2 DEF InsertOrder, Life!Place, Life!Mark
    <2>4. QED  BY <2>3 DEF Life!Next
  <1>3. CASE /\ pc[h] = "call" /\ UNCHANGED orders
             /\ session' = [session EXCEPT ![h] = "open"]
    <2>1. session[h] = "none"
      BY <1>3 DEF MoneyInv, RowsInv, RowsTogether
    <2>2. \A o \in Requests : Money(o)' = Money(o)
      BY <1>3, <2>1 DEF Money, PaymentTypeOK, TypeOK, StripeTypeOK
    <2>3. QED  BY <1>3, <2>2, SameMoney DEF Life!vars
  <1>4. QED  BY <1>1, <1>2, <1>3 DEF MoneyShape, RowsShape

LEMMA CommitLives ==
  ASSUME PaymentTypeOK, PaymentTypeOK', MoneyInv,
         NEW w \in Workers, CommitPaid(w) \/ CommitFailed(w),
         UNCHANGED <<session, announced>>
  PROVE  [Life!Next]_(Life!vars)
  <1>1. PICK o \in Requests :
          /\ \A p \in Requests \ {o} : orders'[p] = orders[p]
          /\ orders[o] \in {"pending", "payment_failed"}
          /\ \/ Charged(o) /\ orders[o] = "pending" /\ orders'[o] = "paid"
             \/ session[o] \in {"expired", "declined"} /\ orders'[o] = "payment_failed"
    BY CommitEffect
  <1>2. orders' = [orders EXCEPT ![o] = orders'[o]]
    BY <1>1 DEF PaymentTypeOK, TypeOK, StoreTypeOK
  <1>3. UNCHANGED [p \in Requests |-> Money(p)]
    BY SameMoney DEF Money
  <1>4. CASE Charged(o) /\ orders[o] = "pending" /\ orders'[o] = "paid"
    <2>1. Life!Book(o)
      BY <1>2, <1>3, <1>4, MoneyFacts DEF Life!Book, Life!Mark
    <2>2. QED  BY <2>1 DEF Life!Next
  <1>5. CASE /\ session[o] \in {"expired", "declined"} /\ orders[o] = "pending"
             /\ orders'[o] = "payment_failed"
    <2>1. Life!WriteOff(o)
      BY <1>2, <1>3, <1>5, MoneyFacts DEF Life!WriteOff, Life!Mark
    <2>2. QED  BY <2>1 DEF Life!Next
  <1>6. CASE orders[o] = "payment_failed" /\ orders'[o] = "payment_failed"
    <2>1. orders' = orders
      BY <1>1, <1>6 DEF PaymentTypeOK, TypeOK, StoreTypeOK
    <2>2. QED  BY <1>3, <2>1 DEF Life!vars
  <1>7. QED  BY <1>1, <1>4, <1>5, <1>6

(* A message says what the order's row says, and the good news are new.    *)
LEMMA TellLives ==
  ASSUME PaymentTypeOK, OnceInv({"order_paid"}), FailuresTrue,
         NEW w \in Workers, At(w, "publish"), Announce(w),
         UNCHANGED <<orders, session>>
  PROVE  [Life!Next]_(Life!vars)
  <1>1. task[w].message \in Messages /\ Event(w).order \in Requests
    BY TaskFacts DEF PaymentTypeOK, FailuresTrue
  <1>2. PICK o \in Requests : o = Event(w).order
    BY <1>1
  <1>3. UNCHANGED [p \in Requests |-> Money(p)]
    BY SameMoney DEF Money
  <1>4. CASE task[w].message = "order_paid"
    <2>1. Telling(w, o, {"order_paid"})
      BY <1>2, <1>4 DEF Telling
    <2>2. Heard(o, {"order_paid"}) = 0 /\ Final(o, {"order_paid"})
      BY <2>1 DEF OnceInv
    <2>3. announced[o]["order_paid"] = 0 /\ orders[o] = "paid"
      BY <2>2 DEF Heard, Final, PaymentTypeOK, WebhookTypeOK, Messages
    <2>4. Life!TellPaid(o)
      BY <1>2, <1>3, <1>4, <2>3 DEF Announce, Life!TellPaid, Life!Tell
    <2>5. QED  BY <2>4 DEF Life!Next
  <1>5. CASE task[w].message = "order_payment_failed"
    <2>1. orders[o] = "payment_failed"
      BY <1>2, <1>5 DEF FailuresTrue
    <2>2. Life!TellFailed(o)
      BY <1>2, <1>3, <1>5, <2>1 DEF Announce, Life!TellFailed, Life!Tell
    <2>3. QED  BY <2>2 DEF Life!Next
  <1>6. QED  BY <1>1, <1>4, <1>5 DEF Messages

LEMMA CustomerLives ==
  ASSUME PaymentTypeOK, MoneyInv, NEW o \in Requests, CustomerStep(o)
  PROVE  [Life!Next]_(Life!vars)
  <1>1. /\ UNCHANGED <<orders, announced>>
        /\ session[o] \in {"open", "processing"}
        /\ session'[o] \in {"paid", "processing", "settled", "declined", "expired"}
        /\ \A p \in Requests \ {o} : session'[p] = session[p]
    BY DEF CustomerStep, Pay, PayLater, Settle, Decline, Expire, Occur, storeVars,
           webhookVars, PaymentTypeOK, TypeOK, StripeTypeOK
  <1>2. orders[o] = "pending" /\ Money(o) = "due"
    BY <1>1, OpenIsPending, MoneyFacts
  <1>3. [p \in Requests |-> Money(p)]'
          = [[p \in Requests |-> Money(p)] EXCEPT ![o] = Money(o)']
    BY <1>1 DEF Money
  <1>4. Money(o)' \in {"due", "taken", "lost"}
    BY DEF Money
  <1>5. CASE Money(o)' = "due"
    <2>1. \A p \in Requests : Money(p)' = Money(p)
      BY <1>1, <1>2, <1>5 DEF Money
    <2>2. QED  BY <1>1, <2>1, SameMoney DEF Life!vars
  <1>6. CASE Money(o)' \in {"taken", "lost"}
    <2>1. Life!Decide(o, Money(o)')
      BY <1>1, <1>2, <1>3 DEF Life!Decide
    <2>2. QED  BY <1>6, <2>1 DEF Life!Next
  <1>7. QED  BY <1>4, <1>5, <1>6

(* What the messages to the admins say of the orders. *)
LifeInv == OnceInv({"order_paid"}) /\ FailuresTrue /\ FailuresHeard

LEMMA LifeInit == PaymentInit => LifeInv /\ Life!Init
  <1> SUFFICES ASSUME PaymentInit
               PROVE  LifeInv /\ Life!Init
    OBVIOUS
  <1>1. OnceInv({"order_paid"})
    BY OnceInit
  <1>2. FailuresTrue /\ FailuresHeard
    BY DEF PaymentInit, WebhookInit, FailuresTrue, FailuresHeard, At, Idle, Messages
  <1>3. [o \in Requests |-> Money(o)] = [o \in Requests |-> "due"]
    BY DEF PaymentInit, Init, StripeInit, Money
  <1>4. QED
    BY <1>1, <1>2, <1>3
       DEF PaymentInit, Init, StoreInit, WebhookInit, Messages, LifeInv, Life!Init

(* Every step of the payment path is a step in the life of one order, or   *)
(* none of its business.                                                   *)
LEMMA LifeStep ==
  ASSUME PaymentTypeOK, MoneyInv, LifeInv, [PaymentNext]_paymentVars
  PROVE  LifeInv' /\ [Life!Next]_(Life!vars)
  <1> USE DEF LifeInv
  <1>0. PaymentTypeOK' /\ LifeInv'
    <2>1. PaymentTypeOK' /\ FailuresTrue' /\ FailuresHeard'
      BY PaymentTypeStep, FailuresStep, HeardStep
    <2>2. OnceInv({"order_paid"})'
      BY OnceStep
    <2>3. QED  BY <2>1, <2>2
  <1> SUFFICES [Life!Next]_(Life!vars)
    BY <1>0
  <1>1. ASSUME UNCHANGED <<orders, session, announced>>
        PROVE  [Life!Next]_(Life!vars)
    BY <1>1, SameMoney DEF Life!vars, Money
  <1>2. CASE CheckoutStep /\ UNCHANGED webhookVars
    <2>1. CASE \E h \in Requests :
                 Receive(h) \/ RejectContext(h) \/ HandlerStep(h) \/ HandlerFault(h)
      <3>1. PICK h \in Requests : MoneyShape(h)
        BY <2>1, HandlerMoney, FaultMoney DEF PaymentTypeOK
      <3>2. QED  BY <1>2, <3>1, HandlerLives DEF webhookVars
    <2>2. CASE \E i \in IdemKeys : ExpireRecord(i)
      BY <1>1, <1>2, <2>2 DEF ExpireRecord, storeVars, stripeVars, webhookVars
    <2>3. QED  BY <1>2, <2>1, <2>2 DEF CheckoutStep
  <1>3. CASE WebhookStep /\ UNCHANGED checkoutVars
    <2>1. PICK w \in Workers :
            \/ \E e \in Events : Deliver(w, e)
            \/ WorkerStep(w)
            \/ TransactionFails(w) \/ CommitUnacknowledged(w) \/ PublishFails(w)
      BY <1>3 DEF WebhookStep
    <2>2. UNCHANGED session
      BY <1>3, WebhookAlone DEF stripeVars
    <2>3. CASE SettlePaid(w) \/ SettleFailed(w) \/ CommitUnacknowledged(w)
      <3>1. /\ CommitAlone(w) \/ CommitPaid(w) \/ CommitFailed(w)
            /\ UNCHANGED announced
        BY <2>3 DEF SettlePaid, SettleFailed, CommitUnacknowledged
      <3>2. CASE CommitAlone(w)
        BY <1>1, <2>2, <3>1, <3>2 DEF CommitAlone, storeVars
      <3>3. CASE CommitPaid(w) \/ CommitFailed(w)
        BY <1>0, <2>2, <3>1, <3>3, CommitLives
      <3>4. QED  BY <3>1, <3>2, <3>3
    <2>4. CASE Publish(w) \/ PublishFails(w)
      <3>1. At(w, "publish") /\ UNCHANGED orders /\ (Announce(w) \/ UNCHANGED announced)
        BY <2>4 DEF Publish, PublishFails, storeVars
      <3>2. QED  BY <1>1, <2>2, <3>1, TellLives
    <2>5. CASE \/ \E e \in Events : Deliver(w, e)
               \/ Register(w) \/ Ignore(w) \/ Refuse(w) \/ TransactionFails(w)
      BY <1>1, <2>2, <2>5 DEF Deliver, Register, Ignore, CommitAlone, Refuse, TransactionFails, storeVars
    <2>6. QED  BY <2>1, <2>3, <2>4, <2>5 DEF WorkerStep
  <1>4. CASE \E o \in Requests : CustomerStep(o)
    BY <1>4, CustomerLives
  <1>5. CASE ProcessCrash
    BY <1>1, <1>5 DEF ProcessCrash, CrashHandlers, CrashWorkers, storeVars, stripeVars
  <1>6. CASE UNCHANGED paymentVars
    BY <1>1, <1>6 DEF paymentVars, vars, storeVars, stripeVars, webhookVars
  <1>7. QED
    BY <1>2, <1>3, <1>4, <1>5, <1>6 DEF PaymentNext

(* Requests, customers, events and crashes together move an order as the   *)
(* shop expects it: the order follows the money, once and for good, and    *)
(* the messages follow the order.                                          *)
THEOREM PaymentsImplementOrderLife == PaymentSpec => ImplementsOrderLife
  <1>1. PaymentTypeOK /\ MoneyInv /\ LifeInv /\ [PaymentNext]_paymentVars
          => LifeInv' /\ [Life!Next]_(Life!vars)
    BY LifeStep
  <1>2. QED
    BY <1>1, LifeInit, MoneyCorrect, PTL
       DEF PaymentSpec, ImplementsOrderLife, Life!Spec

(* The admins hear at most once that an order was paid, whatever fails and *)
(* however often Stripe says so, and never also that it failed, even when  *)
(* handlers outlast their pages.                                           *)
THEOREM PaidAnnouncedOnceCorrect == PaymentSpec => []PaidAnnouncedOnce
  <1>1. PaymentTypeOK /\ MoneyInv /\ LifeInv /\ [PaymentNext]_paymentVars => LifeInv'
    BY LifeStep
  <1>2. PaymentTypeOK /\ LifeInv => PaidAnnouncedOnce
    <2> SUFFICES ASSUME PaymentTypeOK, LifeInv, NEW o \in Requests
                 PROVE  /\ announced[o]["order_paid"] <= 1
                        /\ \/ announced[o]["order_paid"] = 0
                           \/ announced[o]["order_payment_failed"] = 0
      BY DEF PaidAnnouncedOnce
    <2>1. /\ Heard(o, {"order_paid"}) = announced[o]["order_paid"]
          /\ announced[o]["order_paid"] \in Nat
          /\ announced[o]["order_payment_failed"] \in Nat
      BY DEF Heard, PaymentTypeOK, WebhookTypeOK, Messages
    <2>2. /\ announced[o]["order_paid"] <= 1
          /\ announced[o]["order_paid"] > 0 => orders[o] = "paid"
      BY <2>1 DEF LifeInv, OnceInv, Final
    <2>3. announced[o]["order_payment_failed"] > 0 => orders[o] = "payment_failed"
      BY DEF LifeInv, FailuresHeard
    <2>4. QED  BY <2>1, <2>2, <2>3
  <1>3. QED  BY <1>1, <1>2, LifeInit, MoneyCorrect, PTL DEF PaymentSpec

=============================================================================
