---------------------------- MODULE Checkout ----------------------------
(***************************************************************************)
(* POST /checkout/stripe.  Each request h runs start_stripe_checkout in a  *)
(* task of its own; between two awaits any other task may run, so every    *)
(* call to Redis, PostgreSQL or Stripe is a step of its own:               *)
(*                                                                         *)
(*   new - lookup -+- claim -+- create - call -+- mark - complete - reply  *)
(*                 |         |                 '- refuse - savefail        *)
(*                 |         '- relookup                                   *)
(*                 '- (replay)                                             *)
(*                                                                         *)
(* An exception leads to _handle_error: to "fail" when the ids of the      *)
(* order and the payment are known, to "release" when only the Redis key   *)
(* is, to an error answer when not even that is.                           *)
(*                                                                         *)
(* The Redis record of an idempotency key is kept under the session token  *)
(* and the key, and holds a hash of the validated checkout context, which  *)
(* itself names the session token.                                         *)
(***************************************************************************)
EXTENDS Store, Stripe

CONSTANTS Tokens,  \* anonymous session tokens
          Carts,   \* validated carts: table, rows and prices
          Stalls   \* TRUE: a handler may outlast the TTL of its Redis record
                   \* and the lifetime of its Stripe session

ASSUME StallsAssumption == Stalls \in BOOLEAN

VARIABLES req,     \* what each request carries
          pc,      \* where its handler is
          record,  \* the idempotency records in Redis
          answer   \* what its client was told

checkoutVars == <<req, pc, record, answer>>
vars == <<storeVars, faults, stripeVars, checkoutVars>>

----------------------------------------------------------------------------
\* Values.

Contents == [token : Tokens, key : Keys, cart : Carts]

(* build_checkout_idempotency_key *)
IdemKeys == Tokens \X Keys
IdemKey(h) == <<req[h].token, req[h].key>>

(* build_request_hash *)
Hashes == Tokens \X Carts
RequestHash(h) == <<req[h].token, req[h].cart>>

NoRecord == [state |-> "absent"]
Processing(h) == [state |-> "processing", hash |-> RequestHash(h)]
Outcome(h, state) == [state |-> state, hash |-> RequestHash(h), order |-> h]

Records == {NoRecord}
             \cup [state : {"processing"}, hash : Hashes]
             \cup [state : {"completed", "failed"}, hash : Hashes, order : Requests]

(* The checkoutUrl of an answer is named by the order it collects. *)
Url(o) == [kind |-> "url", order |-> o]
Said(kind) == [kind |-> kind]
Answers == [kind : {"none", "in_progress", "conflict", "error"}]
             \cup [kind : {"url"}, order : Requests]

Owning == {"create", "call", "mark", "complete", "reply", "refuse",
           "savefail", "fail", "release"}
InFlight == {"lookup", "claim", "relookup"} \cup Owning
Places == {"new", "done", "crashed"} \cup InFlight

(* Handlers that hold the claim on their idempotency key. *)
Owns(h) == pc[h] \in Owning

TypeOK ==
    /\ StoreTypeOK
    /\ StripeTypeOK
    /\ faults \in 0..MaxFaults
    /\ req \in [Requests -> Contents]
    /\ pc \in [Requests -> Places]
    /\ record \in [IdemKeys -> Records]
    /\ answer \in [Requests -> Answers]

Init ==
    /\ StoreInit
    /\ StripeInit
    /\ faults = 0
    /\ req \in [Requests -> Contents]
    /\ pc = [h \in Requests |-> "new"]
    /\ record = [i \in IdemKeys |-> NoRecord]
    /\ answer = [h \in Requests |-> Said("none")]

----------------------------------------------------------------------------
\* Building blocks.

(* Handler h goes on to another place, and nobody is told anything. *)
Move(h, to) ==
    /\ pc' = [pc EXCEPT ![h] = to]
    /\ UNCHANGED <<req, answer>>

(* Handler h returns. *)
Return(h, a) ==
    /\ pc' = [pc EXCEPT ![h] = "done"]
    /\ answer' = [answer EXCEPT ![h] = a]
    /\ UNCHANGED req

(* save_payload and the deletion of the key: no condition on what was there *)
SetRecord(h, r) == record' = [record EXCEPT ![IdemKey(h)] = r]

(* A write that was executed although its reply was an error, or was not. *)
RecordMaybe(h, r) == SetRecord(h, r) \/ UNCHANGED record

(* Faulty variant: a replay does not compare the request hash.             *)
FaultyReplay(h, r) ==
    IF r.state = "processing"       THEN Said("in_progress")
    ELSE IF r.state = "failed"      THEN Said("error")
    ELSE Url(r.order)

(* _resolve_replay_response, for a record that is there. *)
Replay(h, r) ==
    IF r.hash # RequestHash(h)        THEN Said("conflict")
    ELSE IF r.state = "processing"    THEN Said("in_progress")
    ELSE IF r.state = "failed"        THEN Said("error")
    ELSE Url(r.order)

----------------------------------------------------------------------------
\* The handler when nothing fails.

(* build_checkout_context accepts the cart. *)
Receive(h) ==
    /\ pc[h] = "new"
    /\ Move(h, "lookup")
    /\ UNCHANGED <<storeVars, faults, stripeVars, record>>

(* build_checkout_context refuses it: empty cart, inactive table, product  *)
(* missing or unavailable.                                                 *)
RejectContext(h) ==
    /\ pc[h] = "new"
    /\ Return(h, Said("error"))
    /\ UNCHANGED <<storeVars, faults, stripeVars, record>>

(* GET: an existing record answers the request. *)
Lookup(h) ==
    /\ pc[h] = "lookup"
    /\ \/ /\ record[IdemKey(h)] = NoRecord
          /\ Move(h, "claim")
       \/ /\ record[IdemKey(h)] # NoRecord
          /\ Return(h, Replay(h, record[IdemKey(h)]))
    /\ UNCHANGED <<storeVars, faults, stripeVars, record>>

(* Faulty variant: SET without NX.                                         *)
FaultyClaim(h) ==
    /\ pc[h] = "claim"
    /\ SetRecord(h, Processing(h))
    /\ Move(h, "create")
    /\ UNCHANGED <<storeVars, faults, stripeVars>>

(* SET NX EX of the "processing" record. *)
Claim(h) ==
    /\ pc[h] = "claim"
    /\ \/ /\ record[IdemKey(h)] = NoRecord
          /\ SetRecord(h, Processing(h))
          /\ Move(h, "create")
       \/ /\ record[IdemKey(h)] # NoRecord
          /\ Move(h, "relookup")
          /\ UNCHANGED record
    /\ UNCHANGED <<storeVars, faults, stripeVars>>

(* The GET after a lost SET NX; the record may be gone again. *)
Relookup(h) ==
    /\ pc[h] = "relookup"
    /\ \/ /\ record[IdemKey(h)] = NoRecord
          /\ Return(h, Said("in_progress"))
       \/ /\ record[IdemKey(h)] # NoRecord
          /\ Return(h, Replay(h, record[IdemKey(h)]))
    /\ UNCHANGED <<storeVars, faults, stripeVars, record>>

(* One transaction inserts the order, its items and its payment. *)
CreateOrder(h) ==
    /\ pc[h] = "create"
    /\ InsertOrder(h)
    /\ InsertPayment(h)
    /\ Move(h, "call")
    /\ UNCHANGED <<faults, stripeVars, record>>

(* Faulty variant: the record is saved without the UPDATE of the payment.  *)
FaultyCallStripe(h) ==
    /\ pc[h] = "call"
    /\ \/ AcceptSession(req[h].key, h) /\ Move(h, "complete")
       \/ RefuseSession(req[h].key) /\ Move(h, "refuse")
    /\ UNCHANGED <<storeVars, faults, record>>

(* initiate_checkout_session: every error of Stripe's becomes a response   *)
(* with status False.                                                      *)
CallStripe(h) ==
    /\ pc[h] = "call"
    /\ \/ AcceptSession(req[h].key, h) /\ Move(h, "mark")
       \/ RefuseSession(req[h].key) /\ Move(h, "refuse")
    /\ UNCHANGED <<storeVars, faults, record>>

MarkRequiresAction(h) ==
    /\ pc[h] = "mark"
    /\ OverwritePayment(h, "requires_action")
    /\ Move(h, "complete")
    /\ UNCHANGED <<orders, faults, stripeVars, record>>

(* Faulty variant: the record is saved while the UPDATE is still to come.  *)
FaultySaveCompleted(h) ==
    /\ pc[h] = "complete"
    /\ SetRecord(h, Outcome(h, "completed"))
    /\ Move(h, "mark")
    /\ UNCHANGED <<storeVars, faults, stripeVars>>

SaveCompleted(h) ==
    /\ pc[h] = "complete"
    /\ SetRecord(h, Outcome(h, "completed"))
    /\ Move(h, "reply")
    /\ UNCHANGED <<storeVars, faults, stripeVars>>

Reply(h) ==
    /\ pc[h] = "reply"
    /\ Return(h, Url(h))
    /\ UNCHANGED <<storeVars, faults, stripeVars, record>>

MarkFailed(h) ==
    /\ pc[h] = "refuse"
    /\ OverwritePayment(h, "failed")
    /\ Move(h, "savefail")
    /\ UNCHANGED <<orders, faults, stripeVars, record>>

SaveFailed(h) ==
    /\ pc[h] = "savefail"
    /\ SetRecord(h, Outcome(h, "failed"))
    /\ Return(h, Said("error"))
    /\ UNCHANGED <<storeVars, faults, stripeVars>>

----------------------------------------------------------------------------
\* _handle_error.

HandleErrorSave(h) ==
    /\ pc[h] = "fail"
    /\ SetRecord(h, Outcome(h, "failed"))
    /\ Return(h, Said("error"))
    /\ UNCHANGED <<storeVars, faults, stripeVars>>

HandleErrorRelease(h) ==
    /\ pc[h] = "release"
    /\ SetRecord(h, NoRecord)
    /\ Return(h, Said("error"))
    /\ UNCHANGED <<storeVars, faults, stripeVars>>

----------------------------------------------------------------------------
\* Failing calls.

(* A GET of initialize_checkout_request raises: redis_key is still None    *)
(* and _handle_error cleans up nothing.                                    *)
ReadFails(h) ==
    /\ pc[h] \in {"lookup", "relookup"}
    /\ Fault
    /\ Return(h, Said("error"))
    /\ UNCHANGED <<storeVars, stripeVars, record>>

(* The SET NX raises, executed or not; redis_key is still None. *)
ClaimFails(h) ==
    /\ pc[h] = "claim"
    /\ Fault
    /\ \/ record[IdemKey(h)] = NoRecord /\ SetRecord(h, Processing(h))
       \/ UNCHANGED record
    /\ Return(h, Said("error"))
    /\ UNCHANGED <<storeVars, stripeVars>>

(* A statement of the transaction raises and it is rolled back (payment_id *)
(* is None), or the COMMIT raises, executed or not (both ids are known).   *)
CreateOrderFails(h) ==
    /\ pc[h] = "create"
    /\ Fault
    /\ \/ Move(h, "release") /\ UNCHANGED storeVars
       \/ Move(h, "fail") /\ UNCHANGED storeVars
       \/ Move(h, "fail") /\ InsertOrder(h) /\ InsertPayment(h)
    /\ UNCHANGED <<stripeVars, record>>

(* Stripe is not reached, or its reply is lost after it made the session. *)
CallStripeFails(h) ==
    /\ pc[h] = "call"
    /\ Fault
    /\ \/ AcceptSession(req[h].key, h)
       \/ UNCHANGED stripeVars
    /\ Move(h, "refuse")
    /\ UNCHANGED <<storeVars, record>>

(* One of the two UPDATE statements raises, executed or not. *)
MarkFails(h) ==
    /\ Fault
    /\ \/ pc[h] = "mark" /\ OverwritePayment(h, "requires_action")
       \/ pc[h] = "refuse" /\ OverwritePayment(h, "failed")
       \/ pc[h] \in {"mark", "refuse"} /\ UNCHANGED payments
    /\ Move(h, "fail")
    /\ UNCHANGED <<orders, stripeVars, record>>

(* save_payload raises in start_stripe_checkout, executed or not. *)
SaveFails(h) ==
    /\ Fault
    /\ \/ pc[h] = "complete" /\ RecordMaybe(h, Outcome(h, "completed"))
       \/ pc[h] = "savefail" /\ RecordMaybe(h, Outcome(h, "failed"))
    /\ Move(h, "fail")
    /\ UNCHANGED <<storeVars, stripeVars>>

(* Redis raises inside _handle_error, the command executed or not: the     *)
(* exception leaves start_stripe_checkout and becomes a plain 500.         *)
HandleErrorFails(h) ==
    /\ Fault
    /\ \/ pc[h] = "fail" /\ RecordMaybe(h, Outcome(h, "failed"))
       \/ pc[h] = "release" /\ RecordMaybe(h, NoRecord)
    /\ Return(h, Said("error"))
    /\ UNCHANGED <<storeVars, stripeVars>>

----------------------------------------------------------------------------
\* Time and crashes.

(* Faulty variant: "processing" records are stored without a TTL.          *)
FaultyExpireRecord(i) ==
    /\ record[i].state \in {"completed", "failed"}
    /\ Stalls \/ \A h \in Requests : IdemKey(h) = i => ~Owns(h)
    /\ record' = [record EXCEPT ![i] = NoRecord]
    /\ UNCHANGED <<storeVars, faults, stripeVars, req, pc, answer>>

(* The TTL of a record runs out.  A handler is quick against that hour     *)
(* unless Stalls.                                                          *)
ExpireRecord(i) ==
    /\ record[i] # NoRecord
    /\ Stalls \/ \A h \in Requests : IdemKey(h) = i => ~Owns(h)
    /\ record' = [record EXCEPT ![i] = NoRecord]
    /\ UNCHANGED <<storeVars, faults, stripeVars, req, pc, answer>>

(* The API process dies with every request it is serving; the stores stay. *)
CrashHandlers ==
    /\ pc' = [h \in Requests |-> IF pc[h] \in InFlight THEN "crashed" ELSE pc[h]]
    /\ UNCHANGED <<storeVars, stripeVars, req, record, answer>>

Crash ==
    /\ \E h \in Requests : pc[h] \in InFlight
    /\ Fault
    /\ CrashHandlers

----------------------------------------------------------------------------
\* The specification.

HandlerStep(h) ==
    \/ Lookup(h) \/ Claim(h) \/ Relookup(h)
    \/ CreateOrder(h) \/ CallStripe(h)
    \/ MarkRequiresAction(h) \/ SaveCompleted(h) \/ Reply(h)
    \/ MarkFailed(h) \/ SaveFailed(h)
    \/ HandleErrorSave(h) \/ HandleErrorRelease(h)

HandlerFault(h) ==
    \/ ReadFails(h) \/ ClaimFails(h) \/ CreateOrderFails(h)
    \/ CallStripeFails(h) \/ MarkFails(h) \/ SaveFails(h)
    \/ HandleErrorFails(h)

CheckoutStep ==
    \/ \E h \in Requests : \/ Receive(h) \/ RejectContext(h)
                           \/ HandlerStep(h) \/ HandlerFault(h)
    \/ \E i \in IdemKeys : ExpireRecord(i)

Next == CheckoutStep \/ Crash

Spec == Init /\ [][Next]_vars

(* The event loop runs every task that is ready, calls end, and a TTL runs *)
(* out; nobody has to send a request, and nothing has to fail.             *)
CheckoutFairness ==
    /\ \A h \in Requests : WF_vars(HandlerStep(h))
    /\ \A i \in IdemKeys : WF_vars(ExpireRecord(i))

----------------------------------------------------------------------------
\* Properties.

(* One attempt per key: while its record lives, no two handlers of one     *)
(* session token and idempotency key are past the claim, whatever fails    *)
(* and wherever a handler is overtaken (test "idem-race" of                *)
(* test_idempotency_service.py tries two interleavings of it).             *)
SingleFlight ==
    \A g, h \in Requests :
        g # h /\ IdemKey(g) = IdemKey(h) => ~(Owns(g) /\ Owns(h))

(* The page a client is sent to collects an order of that client's own     *)
(* session, key and cart: a replay never leaks another session's URL and   *)
(* never answers a changed cart with the old total.                        *)
UrlMatchesRequest ==
    \A h \in Requests :
        answer[h].kind = "url" => req[answer[h].order] = req[h]

(* Retrying never opens a second page to pay: all URLs ever handed out for *)
(* an idempotency key are one page, even after the record expired, the     *)
(* process crashed or two handlers ran at once.                            *)
OnePagePerKey ==
    \A g, h \in Requests :
        /\ answer[g].kind = "url" /\ answer[h].kind = "url"
        /\ req[g].key = req[h].key
        => answer[g].order = answer[h].order

(* A record that replays a URL is backed by a committed order whose page   *)
(* exists and whose payment row was moved out of "pending": the record is  *)
(* never ahead of the database.                                            *)
CompletedRecordBacked ==
    \A i \in IdemKeys :
        record[i].state = "completed" =>
            LET o == record[i].order
            IN  /\ orders[o] # "absent"
                /\ payments[o] \notin {"absent", "pending"}
                /\ session[o] # "none"

(* The whole promise at once: Checkout implements PayOnce.                 *)
Told(h) == IF answer[h].kind = "url" THEN answer[h].order ELSE NoRequest
Once == INSTANCE PayOnce WITH
            page <- stripeKey,
            told <- [h \in Requests |-> Told(h)],
            collected <- {o \in Requests : Charged(o)}
ImplementsPayOnce == Once!Spec

(* Every key is usable again after its TTL: no failure or crash leaves a   *)
(* "processing" record that blocks the key for ever.                       *)
KeyFreed ==
    \A i \in IdemKeys :
        (record[i].state = "processing") ~> (record[i].state # "processing")

=============================================================================
