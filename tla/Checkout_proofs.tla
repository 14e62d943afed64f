------------------------- MODULE Checkout_proofs -------------------------
(***************************************************************************)
(* Theorems of Checkout, for any number of requests, tokens, keys, carts   *)
(* and failures.                                                           *)
(***************************************************************************)
EXTENDS Checkout, TLAPS

----------------------------------------------------------------------------
\* Type correctness.

(* The initial states are well-typed. *)
LEMMA InitType == Init => TypeOK
  BY MaxFaultsAssumption, NoRequestAssumption
     DEF Init, TypeOK, StoreInit, StripeInit, StoreTypeOK, StripeTypeOK,
         SessionStates, Events, Places, Records, NoRecord, Answers, Said

(* What a handler writes to Redis and what it answers is well-formed. *)
LEMMA WellFormed ==
  ASSUME TypeOK, NEW h \in Requests
  PROVE  /\ IdemKey(h) \in IdemKeys
         /\ RequestHash(h) \in Hashes
         /\ NoRecord \in Records
         /\ Processing(h) \in Records
         /\ Outcome(h, "completed") \in Records
         /\ Outcome(h, "failed") \in Records
         /\ Url(h) \in Answers
         /\ \A k \in {"none", "in_progress", "conflict", "error"} : Said(k) \in Answers
  BY DEF TypeOK, Contents, IdemKeys, IdemKey, Hashes, RequestHash, Records,
         NoRecord, Processing, Outcome, Answers, Url, Said

(* Whatever record is replayed, the client gets an answer. *)
LEMMA ReplayType ==
  ASSUME TypeOK, NEW h \in Requests, NEW r \in Records, r # NoRecord
  PROVE  Replay(h, r) \in Answers
  BY WellFormed DEF Records, Replay, Answers, Url, Said, NoRecord

(* The parts of the type that the building blocks of an action preserve. *)
LEMMA MoveType ==
  ASSUME TypeOK, NEW h \in Requests, NEW to \in Places, Move(h, to)
  PROVE  /\ req' \in [Requests -> Contents]
         /\ pc' \in [Requests -> Places]
         /\ answer' \in [Requests -> Answers]
  BY DEF TypeOK, Move

(* The same for a handler that returns. *)
LEMMA ReturnType ==
  ASSUME TypeOK, NEW h \in Requests, NEW a \in Answers, Return(h, a)
  PROVE  /\ req' \in [Requests -> Contents]
         /\ pc' \in [Requests -> Places]
         /\ answer' \in [Requests -> Answers]
  BY DEF TypeOK, Return, Places

(* Redis holds records after a write, whether it was executed or not. *)
LEMMA RecordType ==
  ASSUME TypeOK, NEW h \in Requests, NEW r \in Records,
         SetRecord(h, r) \/ UNCHANGED record
  PROVE  record' \in [IdemKeys -> Records]
  BY WellFormed DEF TypeOK, SetRecord

(* The budget of failures is kept. *)
LEMMA FaultType ==
  ASSUME TypeOK, Fault \/ UNCHANGED faults
  PROVE  faults' \in 0..MaxFaults
  BY MaxFaultsAssumption DEF TypeOK, Fault

(* The rows stay within the statuses of schema.sql. *)
LEMMA StoreType ==
  ASSUME StoreTypeOK,
         \/ \E o \in Requests :
              \/ InsertOrder(o) /\ InsertPayment(o)
              \/ OverwritePayment(o, "requires_action") /\ UNCHANGED orders
              \/ OverwritePayment(o, "failed") /\ UNCHANGED orders
         \/ UNCHANGED storeVars
  PROVE  StoreTypeOK'
  BY DEF StoreTypeOK, InsertOrder, InsertPayment, OverwritePayment, storeVars,
         OrderStatuses, PaymentStatuses

(* Stripe's state stays well-typed when a handler calls it. *)
LEMMA StripeType ==
  ASSUME StripeTypeOK,
         \/ \E k \in Keys, o \in Requests : AcceptSession(k, o)
         \/ UNCHANGED stripeVars
  PROVE  StripeTypeOK'
  BY DEF StripeTypeOK, AcceptSession, stripeVars, SessionStates, Events

(* Every step of a handler, one action at a time. *)
LEMMA HandlerType ==
  ASSUME TypeOK, NEW h \in Requests,
         Receive(h) \/ RejectContext(h) \/ HandlerStep(h)
  PROVE  TypeOK'
<1>1. req[h].key \in Keys
  BY DEF TypeOK, Contents
<1>2. record[IdemKey(h)] \in Records
  BY WellFormed DEF TypeOK
<1> USE DEF Places, InFlight, Owning, storeVars, stripeVars
<1>3. CASE Receive(h)
  BY <1>3, MoveType, StoreType, StripeType DEF Receive, TypeOK
<1>4. CASE RejectContext(h)
  BY <1>4, ReturnType, StoreType, StripeType, WellFormed DEF RejectContext, TypeOK
<1>5. CASE Lookup(h)
  BY <1>2, <1>5, MoveType, ReturnType, ReplayType, StoreType, StripeType
     DEF Lookup, TypeOK
<1>6. CASE Claim(h)
  BY <1>6, MoveType, RecordType, WellFormed, StoreType, StripeType DEF Claim, TypeOK
<1>7. CASE Relookup(h)
  BY <1>2, <1>7, ReturnType, ReplayType, WellFormed, StoreType, StripeType
     DEF Relookup, TypeOK
<1>8. CASE CreateOrder(h)
  BY <1>8, MoveType, StoreType, StripeType DEF CreateOrder, TypeOK
<1>9. CASE CallStripe(h)
  BY <1>1, <1>9, MoveType, StoreType, StripeType DEF CallStripe, RefuseSession, TypeOK
<1>10. CASE MarkRequiresAction(h)
  BY <1>10, MoveType, StoreType, StripeType DEF MarkRequiresAction, TypeOK
<1>11. CASE SaveCompleted(h)
  BY <1>11, MoveType, RecordType, WellFormed, StoreType, StripeType
     DEF SaveCompleted, TypeOK
<1>12. CASE Reply(h)
  BY <1>12, ReturnType, WellFormed, StoreType, StripeType DEF Reply, TypeOK
<1>13. CASE MarkFailed(h)
  BY <1>13, MoveType, StoreType, StripeType DEF MarkFailed, TypeOK
<1>14. CASE SaveFailed(h)
  BY <1>14, ReturnType, RecordType, WellFormed, StoreType, StripeType
     DEF SaveFailed, TypeOK
<1>15. CASE HandleErrorSave(h)
  BY <1>15, ReturnType, RecordType, WellFormed, StoreType, StripeType
     DEF HandleErrorSave, TypeOK
<1>16. CASE HandleErrorRelease(h)
  BY <1>16, ReturnType, RecordType, WellFormed, StoreType, StripeType
     DEF HandleErrorRelease, TypeOK
<1> QED
  BY <1>3, <1>4, <1>5, <1>6, <1>7, <1>8, <1>9, <1>10, <1>11, <1>12, <1>13,
     <1>14, <1>15, <1>16 DEF HandlerStep

(* Every failing call of a handler. *)
LEMMA HandlerFaultType ==
  ASSUME TypeOK, NEW h \in Requests, HandlerFault(h)
  PROVE  TypeOK'
<1>1. req[h].key \in Keys
  BY DEF TypeOK, Contents
<1> USE DEF Places, InFlight, Owning, storeVars, stripeVars
<1>2. CASE ReadFails(h)
  BY <1>2, ReturnType, FaultType, WellFormed, StoreType, StripeType
     DEF ReadFails, TypeOK
<1>3. CASE ClaimFails(h)
  BY <1>3, ReturnType, FaultType, RecordType, WellFormed, StoreType, StripeType
     DEF ClaimFails, TypeOK
<1>4. CASE CreateOrderFails(h)
  BY <1>4, MoveType, FaultType, StoreType, StripeType DEF CreateOrderFails, TypeOK
<1>5. CASE CallStripeFails(h)
  BY <1>1, <1>5, MoveType, FaultType, StoreType, StripeType DEF CallStripeFails, TypeOK
<1>6. CASE MarkFails(h)
  <2>1. StoreTypeOK'
    BY <1>6, StoreType DEF MarkFails, TypeOK, storeVars
  <2> QED
    BY <1>6, <2>1, MoveType, FaultType, StripeType DEF MarkFails, TypeOK
<1>7. CASE SaveFails(h)
  BY <1>7, MoveType, FaultType, RecordType, WellFormed, StoreType, StripeType
     DEF SaveFails, RecordMaybe, TypeOK
<1>8. CASE HandleErrorFails(h)
  BY <1>8, ReturnType, FaultType, RecordType, WellFormed, StoreType, StripeType
     DEF HandleErrorFails, RecordMaybe, TypeOK
<1> QED
  BY <1>2, <1>3, <1>4, <1>5, <1>6, <1>7, <1>8 DEF HandlerFault

(* Every step keeps the types. *)
LEMMA NextType == TypeOK /\ [Next]_vars => TypeOK'
<1> SUFFICES ASSUME TypeOK, [Next]_vars
             PROVE  TypeOK'
  OBVIOUS
<1> USE DEF storeVars, stripeVars
<1>1. CASE \E i \in IdemKeys : ExpireRecord(i)
  BY <1>1, StoreType, StripeType DEF ExpireRecord, TypeOK, Records
<1>2. CASE Crash
  BY <1>2, FaultType, StoreType, StripeType
     DEF Crash, CrashHandlers, TypeOK, Places
<1>3. CASE UNCHANGED vars
  BY <1>3, StoreType, StripeType DEF vars, checkoutVars, TypeOK
<1>4. CASE \E h \in Requests : Receive(h) \/ RejectContext(h) \/ HandlerStep(h)
  BY <1>4, HandlerType
<1>5. CASE \E h \in Requests : HandlerFault(h)
  BY <1>5, HandlerFaultType
<1> QED
  BY <1>1, <1>2, <1>3, <1>4, <1>5 DEF Next, CheckoutStep

(* The variables keep their types: in particular the statuses stay within  *)
(* the CHECK constraints of schema.sql and every Redis record is one that  *)
(* _resolve_replay_response understands.                                   *)
THEOREM TypeCorrect == Spec => []TypeOK
<1>1. Init => TypeOK
  BY InitType
<1>2. TypeOK /\ [Next]_vars => TypeOK'
  BY NextType
<1> QED
  BY <1>1, <1>2, PTL DEF Spec

----------------------------------------------------------------------------
\* One page per key.

(* Nobody was told anything by a handler that has not returned. *)
Unanswered == \A h \in Requests : pc[h] # "done" => answer[h] = Said("none")

(* Page o is the page of its key. *)
IsPage(o) == stripeKey[req[o].key] = o

(* A session was made under the key of its request. *)
SessionHasKey == \A o \in Requests : session[o] # "none" => IsPage(o)

(* A handler past a successful call has the page of its key. *)
PastCall ==
    \A h \in Requests : pc[h] \in {"mark", "complete", "reply"} => IsPage(h)

(* A completed record holds the page of a request with its key and hash. *)
RecordHasPage ==
    \A i \in IdemKeys, o \in Requests :
        record[i].state = "completed" /\ record[i].order = o =>
            IsPage(o) /\ IdemKey(o) = i /\ record[i].hash = RequestHash(o)

(* So does a URL. *)
AnswerHasPage ==
    \A h, o \in Requests : answer[h] = Url(o) => IsPage(o) /\ req[o] = req[h]

PageInv ==
    /\ Unanswered
    /\ SessionHasKey
    /\ PastCall
    /\ RecordHasPage
    /\ AnswerHasPage

(* What a request asks for never changes, and a page stays one. *)
PagesStay == req' = req /\ \A o \in Requests : IsPage(o) => IsPage(o)'

(* Stripe gives a key away only once. *)
LEMMA StepKeepsPages ==
  ASSUME TypeOK,
         UNCHANGED req,
         \/ \E h \in Requests : AcceptSession(req[h].key, h)
         \/ UNCHANGED stripeKey
  PROVE  PagesStay
  BY NoRequestAssumption DEF TypeOK, StripeTypeOK, AcceptSession, PagesStay, IsPage, Contents

(* The answers and records of a step that leaves them alone. *)
LEMMA SameAnswers ==
  ASSUME TypeOK, PagesStay, AnswerHasPage, UNCHANGED answer
  PROVE  AnswerHasPage'
  BY DEF PagesStay, AnswerHasPage, IsPage, Url

(* A step that writes no record keeps the records backed by pages. *)
LEMMA SameRecords ==
  ASSUME TypeOK, PagesStay, RecordHasPage, UNCHANGED record
  PROVE  RecordHasPage'
  BY DEF PagesStay, RecordHasPage, IsPage, IdemKey, RequestHash

(* A step that does not call Stripe keeps every session under its key. *)
LEMMA SameSessions ==
  ASSUME TypeOK, PagesStay, SessionHasKey, UNCHANGED session
  PROVE  SessionHasKey'
  BY DEF PagesStay, SessionHasKey, IsPage

(* A replayed URL fits the request. *)
LEMMA ReplayHasPage ==
  ASSUME TypeOK, RecordHasPage, NEW h \in Requests,
         record[IdemKey(h)] # NoRecord,
         Replay(h, record[IdemKey(h)]).kind = "url"
  PROVE  LET o == Replay(h, record[IdemKey(h)]).order
         IN  o \in Requests /\ IsPage(o) /\ req[o] = req[h]
<1> DEFINE r == record[IdemKey(h)]
           o == r.order
<1>1. r \in Records /\ IdemKey(h) \in IdemKeys
  BY WellFormed DEF TypeOK
<1>2. Replay(h, r) = Url(o) /\ r.hash = RequestHash(h) /\ r.state = "completed"
  BY <1>1 DEF Replay, Said, Url, Records, NoRecord
<1>3. o \in Requests
  BY <1>1, <1>2 DEF Records, NoRecord
<1>4. IsPage(o) /\ IdemKey(o) = IdemKey(h) /\ RequestHash(h) = RequestHash(o)
  BY <1>1, <1>2, <1>3 DEF RecordHasPage
<1>5. req[o] = req[h]
  BY <1>3, <1>4 DEF TypeOK, Contents, IdemKey, RequestHash
<1> QED
  BY <1>2, <1>3, <1>4, <1>5 DEF Url

(* What a step of handler h, or a failing call of it, may do as far as     *)
(* pages are concerned: every action is of this shape (HandlerShape), and  *)
(* whatever is of this shape keeps PageInv and implements PayOnce.         *)
ControlShape(h) ==
    \/ \E to \in Places \ {"done"} :
         Move(h, to) /\ (to \in {"mark", "complete", "reply"} => IsPage(h)')
    \/ \E a \in Answers :
         /\ Return(h, a)
         /\ UNCHANGED stripeVars
         /\ a.kind = "url" =>
              a.order \in Requests /\ IsPage(a.order) /\ req[a.order] = req[h]

RecordShape(h) ==
    \/ UNCHANGED record
    \/ \E r \in Records :
         /\ SetRecord(h, r)
         /\ r.state = "completed" => r = Outcome(h, "completed") /\ IsPage(h)

Shape(h) ==
    /\ pc[h] # "done"
    /\ ControlShape(h)
    /\ RecordShape(h)
    /\ AcceptSession(req[h].key, h) \/ UNCHANGED stripeVars

(* An answer that is not a URL. *)
LEMMA PlainAnswer ==
  ASSUME NEW k \in {"none", "in_progress", "conflict", "error"}
  PROVE  Said(k) \in Answers /\ Said(k).kind # "url"
  BY DEF Said, Answers

(* A record without a URL. *)
LEMMA PlainRecord ==
  ASSUME TypeOK, NEW h \in Requests
  PROVE  \A r \in {NoRecord, Processing(h), Outcome(h, "failed")} :
            r \in Records /\ r.state # "completed"
<1>1. NoRecord.state # "completed"
  BY DEF NoRecord
<1>2. Processing(h).state # "completed"
  BY DEF Processing
<1>3. Outcome(h, "failed").state # "completed"
  BY DEF Outcome
<1> QED
  BY <1>1, <1>2, <1>3, WellFormed

(* Every step of a handler has that shape. *)
LEMMA HandlerShape ==
  ASSUME TypeOK, PageInv, NEW h \in Requests,
         Receive(h) \/ RejectContext(h) \/ HandlerStep(h)
  PROVE  Shape(h)
<1> USE DEF Shape, Places, InFlight, Owning
<1>1. CASE Receive(h)
  BY <1>1 DEF Receive, ControlShape, RecordShape
<1>2. CASE RejectContext(h)
  BY <1>2, PlainAnswer DEF RejectContext, ControlShape, RecordShape, stripeVars
<1>3. CASE Lookup(h)
  <2>1. CASE record[IdemKey(h)] = NoRecord /\ Move(h, "claim")
    BY <1>3, <2>1 DEF Lookup, ControlShape, RecordShape
  <2>2. CASE record[IdemKey(h)] # NoRecord /\ Return(h, Replay(h, record[IdemKey(h)]))
    <3>1. Replay(h, record[IdemKey(h)]) \in Answers
      BY <2>2, WellFormed, ReplayType DEF TypeOK
    <3>2. ControlShape(h)
      BY <1>3, <2>2, <3>1, ReplayHasPage DEF Lookup, PageInv, ControlShape, stripeVars
    <3> QED
      BY <1>3, <3>2 DEF Lookup, RecordShape
  <2> QED
    BY <1>3, <2>1, <2>2 DEF Lookup
<1>4. CASE Claim(h)
  <2>1. ControlShape(h)
    BY <1>4 DEF Claim, ControlShape
  <2>2. RecordShape(h)
    BY <1>4, PlainRecord DEF Claim, RecordShape
  <2> QED
    BY <1>4, <2>1, <2>2 DEF Claim
<1>5. CASE Relookup(h)
  <2>1. CASE record[IdemKey(h)] = NoRecord /\ Return(h, Said("in_progress"))
    BY <1>5, <2>1, PlainAnswer DEF Relookup, ControlShape, RecordShape, stripeVars
  <2>2. CASE record[IdemKey(h)] # NoRecord /\ Return(h, Replay(h, record[IdemKey(h)]))
    <3>1. Replay(h, record[IdemKey(h)]) \in Answers
      BY <2>2, WellFormed, ReplayType DEF TypeOK
    <3>2. ControlShape(h)
      BY <1>5, <2>2, <3>1, ReplayHasPage DEF Relookup, PageInv, ControlShape, stripeVars
    <3> QED
      BY <1>5, <3>2 DEF Relookup, RecordShape
  <2> QED
    BY <1>5, <2>1, <2>2 DEF Relookup
<1>6. CASE CreateOrder(h)
  BY <1>6 DEF CreateOrder, ControlShape, RecordShape
<1>7. CASE CallStripe(h)
  <2>1. CASE AcceptSession(req[h].key, h) /\ Move(h, "mark")
    <3>1. IsPage(h)'
      BY <2>1 DEF AcceptSession, Move, IsPage, TypeOK, StripeTypeOK, Contents
    <3> QED
      BY <1>7, <2>1, <3>1 DEF CallStripe, ControlShape, RecordShape
  <2>2. CASE RefuseSession(req[h].key) /\ Move(h, "refuse")
    BY <1>7, <2>2 DEF CallStripe, RefuseSession, ControlShape, RecordShape
  <2> QED
    BY <1>7, <2>1, <2>2 DEF CallStripe
<1>8. CASE MarkRequiresAction(h)
  <2>1. IsPage(h) /\ IsPage(h)'
    BY <1>8 DEF MarkRequiresAction, Move, PageInv, PastCall, IsPage, stripeVars
  <2> QED
    BY <1>8, <2>1 DEF MarkRequiresAction, ControlShape, RecordShape
<1>9. CASE SaveCompleted(h)
  <2>1. IsPage(h) /\ IsPage(h)'
    BY <1>9 DEF SaveCompleted, Move, PageInv, PastCall, IsPage, stripeVars
  <2>2. RecordShape(h)
    BY <1>9, <2>1, WellFormed DEF SaveCompleted, RecordShape
  <2> QED
    BY <1>9, <2>1, <2>2 DEF SaveCompleted, ControlShape
<1>10. CASE Reply(h)
  <2>1. IsPage(h)
    BY <1>10 DEF Reply, PageInv, PastCall
  <2>2. Url(h) \in Answers /\ Url(h).order = h
    BY WellFormed DEF Url
  <2>3. ControlShape(h)
    BY <1>10, <2>1, <2>2 DEF Reply, ControlShape, stripeVars
  <2> QED
    BY <1>10, <2>3 DEF Reply, RecordShape, stripeVars
<1>11. CASE MarkFailed(h)
  BY <1>11 DEF MarkFailed, ControlShape, RecordShape
<1>12. CASE SaveFailed(h)
  BY <1>12, PlainAnswer, PlainRecord
     DEF SaveFailed, ControlShape, RecordShape, stripeVars
<1>13. CASE HandleErrorSave(h)
  BY <1>13, PlainAnswer, PlainRecord
     DEF HandleErrorSave, ControlShape, RecordShape, stripeVars
<1>14. CASE HandleErrorRelease(h)
  BY <1>14, PlainAnswer, PlainRecord
     DEF HandleErrorRelease, ControlShape, RecordShape, stripeVars
<1> QED
  BY <1>1, <1>2, <1>3, <1>4, <1>5, <1>6, <1>7, <1>8, <1>9, <1>10, <1>11,
     <1>12, <1>13, <1>14 DEF HandlerStep

(* So has every failing call of a handler. *)
LEMMA FaultShape ==
  ASSUME TypeOK, PageInv, NEW h \in Requests, HandlerFault(h)
  PROVE  Shape(h)
<1> USE DEF Shape, Places, InFlight, Owning
<1>1. CASE ReadFails(h)
  BY <1>1, PlainAnswer DEF ReadFails, ControlShape, RecordShape, stripeVars
<1>2. CASE ClaimFails(h)
  BY <1>2, PlainAnswer, PlainRecord DEF ClaimFails, ControlShape, RecordShape, stripeVars
<1>3. CASE CreateOrderFails(h)
  BY <1>3 DEF CreateOrderFails, ControlShape, RecordShape
<1>4. CASE CallStripeFails(h)
  BY <1>4 DEF CallStripeFails, ControlShape, RecordShape
<1>5. CASE MarkFails(h)
  BY <1>5 DEF MarkFails, ControlShape, RecordShape
<1>6. CASE SaveFails(h)
  <2>1. ControlShape(h)
    BY <1>6 DEF SaveFails, ControlShape
  <2>2. RecordShape(h)
    BY <1>6, PlainRecord, WellFormed
       DEF SaveFails, RecordMaybe, RecordShape, PageInv, PastCall
  <2> QED
    BY <1>6, <2>1, <2>2 DEF SaveFails
<1>7. CASE HandleErrorFails(h)
  <2>1. ControlShape(h)
    BY <1>7, PlainAnswer DEF HandleErrorFails, ControlShape, stripeVars
  <2>2. RecordShape(h)
    BY <1>7, PlainRecord DEF HandleErrorFails, RecordMaybe, RecordShape
  <2> QED
    BY <1>7, <2>1, <2>2 DEF HandleErrorFails
<1> QED
  BY <1>1, <1>2, <1>3, <1>4, <1>5, <1>6, <1>7 DEF HandlerFault

(* A step of that shape keeps the invariant. *)
LEMMA ShapeKeeps ==
  ASSUME TypeOK, PageInv, NEW h \in Requests, Shape(h)
  PROVE  PageInv'
<1>1. UNCHANGED req
  BY DEF Shape, ControlShape, Move, Return
<1>2. PagesStay
  BY <1>1, StepKeepsPages DEF Shape, stripeVars
<1>3. Unanswered'
  BY DEF Shape, ControlShape, Move, Return, TypeOK, PageInv, Unanswered
<1>4. SessionHasKey'
  <2>1. CASE UNCHANGED stripeVars
    BY <1>2, <2>1, SameSessions DEF PageInv, stripeVars
  <2>2. CASE AcceptSession(req[h].key, h)
    <3>1. IsPage(h)'
      BY <1>1, <2>2 DEF AcceptSession, IsPage, TypeOK, StripeTypeOK, Contents
    <3> QED
      BY <1>2, <2>2, <3>1
         DEF AcceptSession, SessionHasKey, PagesStay, PageInv, TypeOK, StripeTypeOK
  <2> QED
    BY <2>1, <2>2 DEF Shape
<1>5. PastCall'
  <2>1. CASE \E to \in Places \ {"done"} :
               Move(h, to) /\ (to \in {"mark", "complete", "reply"} => IsPage(h)')
    BY <1>2, <2>1 DEF Move, PastCall, PagesStay, PageInv, TypeOK
  <2>2. CASE \E a \in Answers : Return(h, a)
    BY <1>2, <2>2 DEF Return, PastCall, PagesStay, PageInv, TypeOK
  <2> QED
    BY <2>1, <2>2 DEF Shape, ControlShape
<1>6. RecordHasPage'
  <2>1. CASE UNCHANGED record
    BY <1>2, <2>1, SameRecords DEF PageInv
  <2>2. CASE \E r \in Records :
               /\ SetRecord(h, r)
               /\ r.state = "completed" => r = Outcome(h, "completed") /\ IsPage(h)
    <3>1. PICK r \in Records :
               /\ SetRecord(h, r)
               /\ r.state = "completed" => r = Outcome(h, "completed") /\ IsPage(h)
      BY <2>2
    <3> SUFFICES ASSUME NEW i \in IdemKeys, NEW o \in Requests,
                        record'[i].state = "completed", record'[i].order = o
                 PROVE  IsPage(o)' /\ IdemKey(o)' = i /\ record'[i].hash = RequestHash(o)'
      BY DEF RecordHasPage
    <3>2. CASE i = IdemKey(h)
      <4>1. record'[i] = r
        BY <3>1, <3>2 DEF SetRecord, TypeOK
      <4>2. r = Outcome(h, "completed") /\ IsPage(h)
        BY <3>1, <4>1
      <4>3. r.order = h /\ r.hash = RequestHash(h)
        BY <4>2 DEF Outcome
      <4> QED
        BY <1>2, <3>2, <4>1, <4>2, <4>3 DEF PagesStay, IdemKey, RequestHash
    <3>3. CASE i # IdemKey(h)
      <4>1. record'[i] = record[i]
        BY <3>1, <3>3 DEF SetRecord, TypeOK
      <4> QED
        BY <1>2, <4>1 DEF PageInv, RecordHasPage, PagesStay, IdemKey, RequestHash
    <3> QED
      BY <3>2, <3>3
  <2> QED
    BY <2>1, <2>2 DEF Shape, RecordShape
<1>7. AnswerHasPage'
  <2>1. CASE UNCHANGED answer
    BY <1>2, <2>1, SameAnswers DEF PageInv
  <2>2. CASE \E a \in Answers :
               /\ Return(h, a)
               /\ a.kind = "url" =>
                    a.order \in Requests /\ IsPage(a.order) /\ req[a.order] = req[h]
    <3>1. PICK a \in Answers :
               /\ Return(h, a)
               /\ a.kind = "url" =>
                    a.order \in Requests /\ IsPage(a.order) /\ req[a.order] = req[h]
      BY <2>2
    <3> SUFFICES ASSUME NEW g \in Requests, NEW o \in Requests, answer'[g] = Url(o)
                 PROVE  IsPage(o)' /\ req'[o] = req'[g]
      BY DEF AnswerHasPage, Url
    <3>2. CASE g = h
      <4>1. a.kind = "url" /\ a.order = o
        BY <3>1, <3>2 DEF Return, TypeOK, Url
      <4> QED
        BY <1>2, <3>1, <3>2, <4>1 DEF PagesStay
    <3>3. CASE g # h
      <4>1. answer[g] = Url(o)
        BY <3>1, <3>3 DEF Return, TypeOK
      <4> QED
        BY <1>2, <4>1 DEF PageInv, AnswerHasPage, PagesStay
    <3> QED
      BY <3>2, <3>3
  <2> QED
    BY <2>1, <2>2 DEF Shape, ControlShape, Move
<1> QED
  BY <1>3, <1>4, <1>5, <1>6, <1>7 DEF PageInv

(* The invariant holds before anything is called. *)
LEMMA InitPages == Init => PageInv
  BY DEF Init, StripeInit, PageInv, Unanswered, SessionHasKey, PastCall,
         RecordHasPage, AnswerHasPage, NoRecord, Said, Url

(* Every step keeps the invariant. *)
LEMMA NextPages ==
  ASSUME TypeOK, PageInv, [Next]_vars
  PROVE  PageInv'
<1>1. CASE \E h \in Requests :
             Receive(h) \/ RejectContext(h) \/ HandlerStep(h) \/ HandlerFault(h)
  BY <1>1, HandlerShape, FaultShape, ShapeKeeps
<1>2. CASE \E i \in IdemKeys : ExpireRecord(i)
  <2>1. PICK i \in IdemKeys : ExpireRecord(i)
    BY <1>2
  <2>2. PagesStay
    BY <2>1 DEF ExpireRecord, PagesStay, IsPage, stripeVars
  <2>3. RecordHasPage'
    <3> SUFFICES ASSUME NEW j \in IdemKeys, NEW o \in Requests,
                        record'[j].state = "completed", record'[j].order = o
                 PROVE  IsPage(o)' /\ IdemKey(o)' = j /\ record'[j].hash = RequestHash(o)'
      BY DEF RecordHasPage
    <3>1. record'[j] = record[j]
      BY <2>1 DEF ExpireRecord, TypeOK, NoRecord
    <3> QED
      BY <2>2, <3>1 DEF PageInv, RecordHasPage, PagesStay, IdemKey, RequestHash
  <2>4. AnswerHasPage' /\ SessionHasKey'
    BY <2>1, <2>2, SameAnswers, SameSessions DEF ExpireRecord, stripeVars, PageInv
  <2> QED
    BY <2>1, <2>2, <2>3, <2>4
       DEF PageInv, ExpireRecord, Unanswered, PastCall, PagesStay
<1>3. CASE Crash
  <2>1. PagesStay
    BY <1>3 DEF Crash, CrashHandlers, PagesStay, IsPage, stripeVars
  <2>2. RecordHasPage' /\ AnswerHasPage' /\ SessionHasKey'
    BY <1>3, <2>1, SameRecords, SameAnswers, SameSessions
       DEF Crash, CrashHandlers, stripeVars, PageInv
  <2>3. \A h \in Requests : pc'[h] = pc[h] \/ (pc[h] \in InFlight /\ pc'[h] = "crashed")
    BY <1>3 DEF Crash, CrashHandlers, TypeOK
  <2>4. Unanswered'
    BY <1>3, <2>3 DEF Crash, CrashHandlers, PageInv, Unanswered, InFlight, Owning
  <2>5. PastCall'
    BY <2>1, <2>3 DEF PageInv, PastCall, PagesStay
  <2> QED
    BY <2>2, <2>4, <2>5 DEF PageInv
<1>4. CASE UNCHANGED vars
  BY <1>4 DEF vars, checkoutVars, stripeVars, PageInv, Unanswered, SessionHasKey,
              PastCall, RecordHasPage, AnswerHasPage, IsPage, IdemKey, RequestHash, Url
<1> QED
  BY <1>1, <1>2, <1>3, <1>4 DEF Next, CheckoutStep

(* The inductive invariant: behind every URL that is recorded, answered or  *)
(* about to be answered is the one page of its key.                        *)
THEOREM PagesCorrect == Spec => [](TypeOK /\ PageInv)
<1>1. Init => TypeOK /\ PageInv
  BY InitType, InitPages
<1>2. TypeOK /\ PageInv /\ [Next]_vars => TypeOK' /\ PageInv'
  BY NextType, NextPages
<1> QED
  BY <1>1, <1>2, PTL DEF Spec

LEMMA PagesSafe ==
  ASSUME TypeOK, PageInv
  PROVE  UrlMatchesRequest /\ OnePagePerKey
<1>1. ASSUME NEW h \in Requests, answer[h].kind = "url"
      PROVE  IsPage(answer[h].order) /\ req[answer[h].order] = req[h]
  <2>1. answer[h] = Url(answer[h].order) /\ answer[h].order \in Requests
    BY <1>1 DEF TypeOK, Answers, Url
  <2> QED
    BY <2>1 DEF PageInv, AnswerHasPage
<1>2. UrlMatchesRequest
  BY <1>1 DEF UrlMatchesRequest
<1>3. OnePagePerKey
  BY <1>1 DEF OnePagePerKey, IsPage
<1> QED
  BY <1>2, <1>3

(* The page a client is sent to collects what that client asked for. *)
THEOREM UrlCorrect == Spec => []UrlMatchesRequest
<1>1. TypeOK /\ PageInv => UrlMatchesRequest
  BY PagesSafe
<1> QED
  BY <1>1, PagesCorrect, PTL

(* All URLs handed out under one idempotency key are the same page. *)
THEOREM OnePageCorrect == Spec => []OnePagePerKey
<1>1. TypeOK /\ PageInv => OnePagePerKey
  BY PagesSafe
<1> QED
  BY <1>1, PagesCorrect, PTL

----------------------------------------------------------------------------
\* Checkout implements PayOnce.

(* The abstract state is initial before anything is called. *)
LEMMA InitRefines == Init => Once!Init
<1> SUFFICES ASSUME Init
             PROVE  Once!Init
  OBVIOUS
<1>1. \A h \in Requests : Told(h) = NoRequest
  BY DEF Init, Told, Said
<1>2. \A o \in Requests : ~Charged(o)
  BY DEF Init, StripeInit, Charged
<1> QED
  BY <1>1, <1>2 DEF Init, StripeInit, Once!Init

(* The values PayOnce sees, when nothing they depend on changes. *)
LEMMA SameTold ==
  ASSUME UNCHANGED answer
  PROVE  UNCHANGED [h \in Requests |-> Told(h)]
  BY DEF Told

(* No step of the checkout takes money. *)
LEMMA SameCollected ==
  ASSUME \A o \in Requests : session'[o] = session[o] \/ (~Charged(o) /\ ~Charged(o)')
  PROVE  UNCHANGED {o \in Requests : Charged(o)}
  BY DEF Charged

(* A step of that shape opens a page, tells a client of one, or stutters. *)
LEMMA ShapeRefines ==
  ASSUME TypeOK, PageInv, NEW h \in Requests, Shape(h)
  PROVE  [Once!Next]_(Once!vars)
<1>1. UNCHANGED req
  BY DEF Shape, ControlShape, Move, Return
<1>2. CASE AcceptSession(req[h].key, h) /\ UNCHANGED answer
  <2>1. session[h] = "none"
    BY <1>2, NoRequestAssumption
       DEF AcceptSession, PageInv, SessionHasKey, IsPage, TypeOK, StripeTypeOK
  <2>2. UNCHANGED {o \in Requests : Charged(o)}
    BY <1>2, <2>1, SameCollected DEF AcceptSession, Charged, TypeOK, StripeTypeOK
  <2>3. Once!Open(h)
    BY <1>1, <1>2, <2>2, SameTold DEF AcceptSession, Once!Open
  <2> QED
    BY <2>3 DEF Once!Next
<1>3. CASE UNCHANGED stripeVars /\ UNCHANGED answer
  <2>1. UNCHANGED {o \in Requests : Charged(o)}
    BY <1>3, SameCollected DEF stripeVars
  <2> QED
    BY <1>1, <1>3, <2>1, SameTold DEF Once!vars, stripeVars
<1>4. CASE \E a \in Answers :
             /\ Return(h, a)
             /\ UNCHANGED stripeVars
             /\ a.kind = "url" =>
                  a.order \in Requests /\ IsPage(a.order) /\ req[a.order] = req[h]
  <2>1. PICK a \in Answers :
             /\ Return(h, a)
             /\ UNCHANGED stripeVars
             /\ a.kind = "url" =>
                  a.order \in Requests /\ IsPage(a.order) /\ req[a.order] = req[h]
    BY <1>4
  <2>2. UNCHANGED {o \in Requests : Charged(o)}
    BY <2>1, SameCollected DEF stripeVars
  <2>3. answer'[h] = a /\ \A g \in Requests \ {h} : answer'[g] = answer[g]
    BY <2>1 DEF Return, TypeOK
  <2>4. Told(h) = NoRequest
    BY DEF Shape, PageInv, Unanswered, Told, Said
  <2>5. CASE a.kind = "url"
    <3>1. [g \in Requests |-> Told(g)]' =
            [[g \in Requests |-> Told(g)] EXCEPT ![h] = a.order]
      BY <2>3, <2>5 DEF Told
    <3>2. Once!Tell(h, a.order)
      BY <1>1, <2>1, <2>2, <2>4, <2>5, <3>1 DEF Once!Tell, IsPage, stripeVars
    <3> QED
      BY <2>1, <2>5, <3>2 DEF Once!Next
  <2>6. CASE a.kind # "url"
    <3>1. UNCHANGED [g \in Requests |-> Told(g)]
      <4>1. \A g \in Requests : Told(g)' = Told(g)
        BY <2>3, <2>4, <2>6 DEF Told
      <4> QED
        BY <4>1
    <3> QED
      BY <1>1, <2>1, <2>2, <3>1 DEF Once!vars, stripeVars
  <2> QED
    BY <2>5, <2>6
<1> QED
  BY <1>2, <1>3, <1>4 DEF Shape, ControlShape, Move

(* Every step of Checkout is a step of PayOnce or a stutter. *)
LEMMA NextRefines ==
  ASSUME TypeOK, PageInv, [Next]_vars
  PROVE  [Once!Next]_(Once!vars)
<1>1. CASE \E h \in Requests :
             Receive(h) \/ RejectContext(h) \/ HandlerStep(h) \/ HandlerFault(h)
  BY <1>1, HandlerShape, FaultShape, ShapeRefines
<1>2. CASE UNCHANGED <<req, answer, stripeVars>>
  <2>1. UNCHANGED {o \in Requests : Charged(o)}
    BY <1>2, SameCollected DEF stripeVars
  <2> QED
    BY <1>2, <2>1, SameTold DEF Once!vars, stripeVars
<1> QED
  BY <1>1, <1>2
     DEF Next, CheckoutStep, ExpireRecord, Crash, CrashHandlers, vars, checkoutVars

(* The checkout keeps the promise of PayOnce. *)
THEOREM CheckoutImplementsPayOnce == Spec => ImplementsPayOnce
<1>1. Init => Once!Init
  BY InitRefines
<1>2. TypeOK /\ PageInv /\ [Next]_vars => [Once!Next]_(Once!vars)
  BY NextRefines
<1> QED
  BY <1>1, <1>2, PagesCorrect, PTL DEF Spec, ImplementsPayOnce, Once!Spec

----------------------------------------------------------------------------
\* One attempt at a time.

(* The record of a handler that owns its key is there. *)
OwnersHold == \A h \in Requests : Owns(h) => record[IdemKey(h)] # NoRecord

(* What a step of h may do to its key: an owner that goes on keeps its     *)
(* record there, and one that is not the owner leaves a taken key alone.   *)
LockShape(h) ==
    /\ UNCHANGED req
    /\ \A g \in Requests \ {h} : pc'[g] = pc[g]
    /\ \A i \in IdemKeys \ {IdemKey(h)} : record'[i] = record[i]
    /\ Owns(h)' => record'[IdemKey(h)] # NoRecord
    /\ ~Owns(h) => \/ record[IdemKey(h)] = NoRecord
                   \/ UNCHANGED record /\ ~Owns(h)'

(* A handler that moves past the claim, or away, is the only one that does. *)
LEMMA MoveOwns ==
  ASSUME TypeOK, NEW h \in Requests, NEW to, Move(h, to)
  PROVE  /\ UNCHANGED req
         /\ \A g \in Requests \ {h} : pc'[g] = pc[g]
         /\ Owns(h)' <=> to \in Owning
  BY DEF TypeOK, Move, Owns

(* A handler that returns owns nothing any more. *)
LEMMA ReturnOwns ==
  ASSUME TypeOK, NEW h \in Requests, NEW a, Return(h, a)
  PROVE  /\ UNCHANGED req
         /\ \A g \in Requests \ {h} : pc'[g] = pc[g]
         /\ ~Owns(h)'
  BY DEF TypeOK, Return, Owns, Owning

(* A write touches the record of one key. *)
LEMMA SetRecordOwns ==
  ASSUME TypeOK, NEW h \in Requests, NEW r, SetRecord(h, r)
  PROVE  /\ record'[IdemKey(h)] = r
         /\ \A i \in IdemKeys \ {IdemKey(h)} : record'[i] = record[i]
  BY WellFormed DEF TypeOK, SetRecord

(* What handlers write is never mistaken for an absent record. *)
LEMMA WrittenRecord ==
  ASSUME NEW h \in Requests
  PROVE  /\ Processing(h) # NoRecord
         /\ Outcome(h, "completed") # NoRecord
         /\ Outcome(h, "failed") # NoRecord
<1>1. NoRecord.state = "absent"
  BY DEF NoRecord
<1>2. Processing(h).state = "processing"
  BY DEF Processing
<1>3. Outcome(h, "completed").state = "completed" /\ Outcome(h, "failed").state = "failed"
  BY DEF Outcome
<1> QED
  BY <1>1, <1>2, <1>3

(* Steps that leave Redis alone. *)
LEMMA QuietLock ==
  ASSUME TypeOK, OwnersHold, NEW h \in Requests, UNCHANGED record,
         \/ \E to \in Places : Move(h, to) /\ (to \in Owning => Owns(h))
         \/ \E a : Return(h, a)
  PROVE  LockShape(h)
<1>1. CASE \E to \in Places : Move(h, to) /\ (to \in Owning => Owns(h))
  BY <1>1, MoveOwns, WellFormed DEF LockShape, OwnersHold
<1>2. CASE \E a : Return(h, a)
  BY <1>2, ReturnOwns DEF LockShape
<1> QED
  BY <1>1, <1>2

(* Every step of a handler takes the lock, keeps it or gives it up. *)
LEMMA HandlerLock ==
  ASSUME TypeOK, OwnersHold, NEW h \in Requests,
         Receive(h) \/ RejectContext(h) \/ HandlerStep(h) \/ HandlerFault(h)
  PROVE  LockShape(h)
<1> USE DEF Places, InFlight, Owning
<1>1. CASE Receive(h) \/ RejectContext(h) \/ Lookup(h) \/ Relookup(h) \/ ReadFails(h)
  BY <1>1, QuietLock DEF Receive, RejectContext, Lookup, Relookup, ReadFails
<1>2. CASE \/ CreateOrder(h) \/ CallStripe(h) \/ MarkRequiresAction(h) \/ Reply(h)
           \/ MarkFailed(h) \/ CreateOrderFails(h) \/ CallStripeFails(h) \/ MarkFails(h)
  <2>1. Owns(h)
    BY <1>2 DEF Owns, CreateOrder, CallStripe, MarkRequiresAction, Reply, MarkFailed,
                CreateOrderFails, CallStripeFails, MarkFails
  <2> QED
    BY <1>2, <2>1, QuietLock
       DEF CreateOrder, CallStripe, MarkRequiresAction, Reply, MarkFailed,
           CreateOrderFails, CallStripeFails, MarkFails
<1>3. CASE Claim(h)
  <2>1. CASE record[IdemKey(h)] = NoRecord /\ SetRecord(h, Processing(h)) /\ Move(h, "create")
    BY <2>1, MoveOwns, SetRecordOwns, WrittenRecord, WellFormed DEF LockShape
  <2>2. CASE Move(h, "relookup") /\ UNCHANGED record
    BY <2>2, QuietLock
  <2> QED
    BY <1>3, <2>1, <2>2 DEF Claim
<1>4. CASE ClaimFails(h)
  <2>1. CASE record[IdemKey(h)] = NoRecord /\ SetRecord(h, Processing(h))
    BY <1>4, <2>1, ReturnOwns, SetRecordOwns DEF LockShape, ClaimFails
  <2>2. CASE UNCHANGED record
    BY <1>4, <2>2, QuietLock DEF ClaimFails
  <2> QED
    BY <1>4, <2>1, <2>2 DEF ClaimFails
<1>5. CASE SaveCompleted(h)
  BY <1>5, MoveOwns, SetRecordOwns, WrittenRecord DEF LockShape, SaveCompleted, Owns
<1>6. CASE SaveFailed(h) \/ HandleErrorSave(h) \/ HandleErrorRelease(h)
  BY <1>6, ReturnOwns, SetRecordOwns
     DEF LockShape, SaveFailed, HandleErrorSave, HandleErrorRelease, Owns
<1>7. CASE SaveFails(h)
  <2>1. Owns(h) /\ Move(h, "fail")
    BY <1>7 DEF SaveFails, Owns
  <2>2. CASE UNCHANGED record
    BY <2>1, <2>2, QuietLock
  <2>3. CASE SetRecord(h, Outcome(h, "completed")) \/ SetRecord(h, Outcome(h, "failed"))
    BY <2>1, <2>3, MoveOwns, SetRecordOwns, WrittenRecord DEF LockShape
  <2> QED
    BY <1>7, <2>2, <2>3 DEF SaveFails, RecordMaybe
<1>8. CASE HandleErrorFails(h)
  <2>1. Owns(h) /\ Return(h, Said("error"))
    BY <1>8 DEF HandleErrorFails, Owns
  <2>2. CASE UNCHANGED record
    BY <2>1, <2>2, QuietLock
  <2>3. CASE SetRecord(h, NoRecord) \/ SetRecord(h, Outcome(h, "failed"))
    BY <2>1, <2>3, ReturnOwns, SetRecordOwns DEF LockShape
  <2> QED
    BY <1>8, <2>2, <2>3 DEF HandleErrorFails, RecordMaybe
<1> QED
  BY <1>1, <1>2, <1>3, <1>4, <1>5, <1>6, <1>7, <1>8 DEF HandlerStep, HandlerFault

(* A step of that shape keeps one owner per record. *)
LEMMA LockKeeps ==
  ASSUME TypeOK, OwnersHold, SingleFlight, NEW h \in Requests, LockShape(h)
  PROVE  OwnersHold' /\ SingleFlight'
<1>1. \A g \in Requests : IdemKey(g)' = IdemKey(g) /\ IdemKey(g) \in IdemKeys
  BY WellFormed DEF LockShape, IdemKey
<1>2. \A g \in Requests \ {h} : Owns(g)' = Owns(g)
  BY DEF LockShape, Owns
<1>3. \A g \in Requests \ {h} :
        Owns(g) /\ IdemKey(g) = IdemKey(h) => ~Owns(h)' /\ UNCHANGED record
  <2> SUFFICES ASSUME NEW g \in Requests \ {h}, Owns(g), IdemKey(g) = IdemKey(h)
               PROVE  ~Owns(h)' /\ UNCHANGED record
    OBVIOUS
  <2>1. ~Owns(h)
    BY DEF SingleFlight
  <2>2. record[IdemKey(h)] # NoRecord
    BY DEF OwnersHold
  <2> QED
    BY <2>1, <2>2 DEF LockShape
<1>4. OwnersHold'
  <2> SUFFICES ASSUME NEW g \in Requests, Owns(g)'
               PROVE  record'[IdemKey(g)] # NoRecord
    BY <1>1 DEF OwnersHold
  <2>1. CASE g = h
    BY <2>1 DEF LockShape
  <2>2. CASE g # h /\ IdemKey(g) = IdemKey(h)
    BY <1>2, <1>3, <2>2 DEF OwnersHold
  <2>3. CASE g # h /\ IdemKey(g) # IdemKey(h)
    BY <1>1, <1>2, <2>3 DEF OwnersHold, LockShape
  <2> QED
    BY <2>1, <2>2, <2>3
<1>5. SingleFlight'
  <2> SUFFICES ASSUME NEW f \in Requests, NEW g \in Requests, f # g,
                      IdemKey(f) = IdemKey(g)
               PROVE  ~(Owns(f)' /\ Owns(g)')
    BY <1>1 DEF SingleFlight
  <2>1. CASE f # h /\ g # h
    BY <1>2, <2>1 DEF SingleFlight
  <2>2. CASE f = h \/ g = h
    BY <1>2, <1>3, <2>2
  <2> QED
    BY <2>1, <2>2
<1> QED
  BY <1>4, <1>5

(* Every step does, as long as no record expires under its owner. *)
LEMMA NextLocks ==
  ASSUME ~Stalls, TypeOK, OwnersHold, SingleFlight, [Next]_vars
  PROVE  OwnersHold' /\ SingleFlight'
<1>1. CASE \E h \in Requests :
             Receive(h) \/ RejectContext(h) \/ HandlerStep(h) \/ HandlerFault(h)
  BY <1>1, HandlerLock, LockKeeps
<1>2. CASE \E i \in IdemKeys : ExpireRecord(i)
  BY <1>2 DEF ExpireRecord, OwnersHold, SingleFlight, Owns, IdemKey, TypeOK
<1>3. CASE Crash
  <2>1. \A h \in Requests : ~Owns(h)'
    BY <1>3 DEF Crash, CrashHandlers, Owns, InFlight, Owning
  <2> QED
    BY <2>1 DEF OwnersHold, SingleFlight
<1>4. CASE UNCHANGED vars
  BY <1>4 DEF vars, checkoutVars, OwnersHold, SingleFlight, Owns, IdemKey
<1> QED
  BY <1>1, <1>2, <1>3, <1>4 DEF Next, CheckoutStep

(* No two handlers work under one key at a time, whatever fails, provided  *)
(* none outlasts the TTL of its record.                                    *)
THEOREM SingleFlightCorrect ==
  ASSUME ~Stalls
  PROVE  Spec => []SingleFlight
<1>1. Init => OwnersHold /\ SingleFlight
  BY DEF Init, OwnersHold, SingleFlight, Owns, Owning
<1>2. TypeOK /\ OwnersHold /\ SingleFlight /\ [Next]_vars
        => OwnersHold' /\ SingleFlight'
  BY NextLocks
<1> QED
  BY <1>1, <1>2, TypeCorrect, PTL DEF Spec

=============================================================================
