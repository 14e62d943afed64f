-------------------------- MODULE Connections --------------------------
(***************************************************************************)
(* Connections to PostgreSQL: a pool of Size connections, and requests     *)
(* that keep the one they got to their end.                                *)
(*                                                                         *)
(*   guarded   waiting - guard - statement                                 *)
(*   checkout  waiting - stripe - mark                                     *)
(*   webhook   waiting - body - register - dispatch - commit - publish     *)
(*                                                                         *)
(* What a request waits for is a connection, an event id that another      *)
(* transaction has inserted but not committed, or a row another            *)
(* transaction has locked.  Statements are abstracted to their locks: an   *)
(* UPDATE outside a transaction needs its row to be free for a moment.     *)
(*                                                                         *)
(* Requests that use no connection are left out: logout, the operations of *)
(* the cart that need no product, and the admins' stream, whose dependency *)
(* returns a guard and does not run it (routes/realtime/router.py:16).     *)
(***************************************************************************)
EXTENDS Naturals, FiniteSets

CONSTANTS Requests,  \* requests that need a connection
          Orders,    \* orders, each with its payment
          Copies,    \* bound on the events about one order
          Size       \* max_size of the pool (3 in the code)

ASSUME SizeAssumption == Size \in Nat \ {0}
ASSUME CopiesAssumption == Copies \in Nat \ {0}

VARIABLES job,       \* what each request is for
          pc,        \* where it is
          taken,     \* connections in use: whose, and its first or second
          processed  \* the committed rows of stripe_events

vars == <<job, pc, taken, processed>>

NoJob == [kind |-> "none"]
Events == Orders \X (1..Copies)
Jobs == [kind : {"guarded"}]
          \cup [kind : {"checkout"}, order : Orders]
          \cup [kind : {"webhook"}, event : Events]

Connected == {"guard", "statement", "stripe", "mark",
              "body", "register", "dispatch", "commit", "publish"}
InProgress == Connected \cup {"waiting"}

TypeOK ==
    /\ job \in [Requests -> Jobs \cup {NoJob}]
    /\ pc \in [Requests -> InProgress \cup {"new", "done"}]
    /\ taken \subseteq Requests \X {1, 2}
    /\ processed \subseteq Events
    /\ \A r \in Requests :
          /\ pc[r] \in InProgress => job[r] # NoJob
          /\ pc[r] \in {"stripe", "mark"} => job[r].kind = "checkout"
          /\ pc[r] \in {"body", "register", "dispatch", "commit"}
                => job[r].kind = "webhook"

Init ==
    /\ job = [r \in Requests |-> NoJob]
    /\ pc = [r \in Requests |-> "new"]
    /\ taken = {}
    /\ processed = {}

----------------------------------------------------------------------------
\* The pool and the locks.

Free == Cardinality(taken) < Size
Active == {r \in Requests : pc[r] \in InProgress}

(* The open transactions that have inserted an event, and those that have  *)
(* the rows of an order: SELECT ... FOR UPDATE OF o, p takes both.         *)
Inserted(e) == {r \in Requests : pc[r] \in {"dispatch", "commit"} /\ job[r].event = e}
Locked(o) == {r \in Requests : pc[r] = "commit" /\ job[r].event[1] = o}

Go(r, place) ==
    /\ pc' = [pc EXCEPT ![r] = place]
    /\ UNCHANGED <<job, taken>>

(* The request is answered; get_db gives its connection back. *)
Finish(r) ==
    /\ pc' = [pc EXCEPT ![r] = "done"]
    /\ taken' = {t \in taken : t[1] # r}
    /\ UNCHANGED job

----------------------------------------------------------------------------
\* Requests.

Receive(r) ==
    /\ pc[r] = "new"
    /\ \E j \in Jobs : job' = [job EXCEPT ![r] = j]
    /\ pc' = [pc EXCEPT ![r] = "waiting"]
    /\ UNCHANGED <<taken, processed>>

FirstPlace(kind) ==
    CASE kind = "guarded"  -> "guard"
      [] kind = "checkout" -> "stripe"
      [] kind = "webhook"  -> "body"

(* get_db: pool.acquire, without a timeout.  Any request that waits may be *)
(* the next: a newcomer can overtake the one the pool is waking up.        *)
Acquire(r) ==
    /\ pc[r] = "waiting"
    /\ Free
    /\ taken' = taken \cup {<<r, 1>>}
    /\ pc' = [pc EXCEPT ![r] = FirstPlace(job[r].kind)]
    /\ UNCHANGED <<job, processed>>

(* Faulty variant: the endpoint takes a connection of its own.             *)
FaultyGuard(r) ==
    /\ pc[r] = "guard"
    /\ Free
    /\ taken' = taken \cup {<<r, 2>>}
    /\ pc' = [pc EXCEPT ![r] = "statement"]
    /\ UNCHANGED <<job, processed>>

(* The guard has read the account.  The endpoint depends on the very same  *)
(* get_db and gets the connection the guard has.                           *)
Guard(r) ==
    /\ pc[r] = "guard"
    /\ Go(r, "statement")
    /\ UNCHANGED processed

Statement(r) ==
    /\ pc[r] = "statement"
    /\ Finish(r)
    /\ UNCHANGED processed

(* The order is inserted and Stripe answers; the connection is kept.       *)
CallStripe(r) ==
    /\ pc[r] = "stripe"
    /\ Go(r, "mark")
    /\ UNCHANGED processed

(* UPDATE payments, which waits for a webhook that has the row. *)
Mark(r) ==
    /\ pc[r] = "mark"
    /\ Locked(job[r].order) = {}
    /\ Finish(r)
    /\ UNCHANGED processed

(* request.body(): the endpoint reads the event after it got a connection, *)
(* and waits for as long as Stripe takes to send it.                       *)
ReadBody(r) ==
    /\ pc[r] = "body"
    /\ Go(r, "register")
    /\ UNCHANGED processed

(* INSERT ... ON CONFLICT DO NOTHING waits for an open transaction with    *)
(* the same event id; what is committed already is a duplicate.            *)
Register(r) ==
    /\ pc[r] = "register"
    /\ Inserted(job[r].event) = {}
    /\ IF job[r].event \in processed THEN Finish(r) ELSE Go(r, "dispatch")
    /\ UNCHANGED processed

(* SELECT ... FOR UPDATE OF o, p *)
LockRows(r) ==
    /\ pc[r] = "dispatch"
    /\ Locked(job[r].event[1]) = {}
    /\ Go(r, "commit")
    /\ UNCHANGED processed

(* An event without consequences commits without locking a row. *)
Ignore(r) ==
    /\ pc[r] = "dispatch"
    /\ processed' = processed \cup {job[r].event}
    /\ Finish(r)

(* The rows are written, or were before, and the transaction ends. *)
Commit(r) ==
    /\ pc[r] = "commit"
    /\ processed' = processed \cup {job[r].event}
    /\ Go(r, "publish") \/ Finish(r)

Publish(r) ==
    /\ pc[r] = "publish"
    /\ Finish(r)
    /\ UNCHANGED processed

(* Faulty variant: the connection is given back on the good path only.     *)
FaultyLeave(r) ==
    /\ pc[r] \in Connected
    /\ pc' = [pc EXCEPT ![r] = "done"]
    /\ UNCHANGED <<job, taken, processed>>

(* The request is refused or replayed, or a call raises: its transaction   *)
(* is rolled back and it is answered.                                      *)
Leave(r) ==
    /\ pc[r] \in Connected
    /\ Finish(r)
    /\ UNCHANGED processed

RequestStep(r) ==
    \/ Acquire(r) \/ Guard(r) \/ Statement(r) \/ CallStripe(r) \/ Mark(r)
    \/ ReadBody(r) \/ Register(r) \/ LockRows(r) \/ Ignore(r) \/ Commit(r) \/ Publish(r)

Next == \E r \in Requests : Receive(r) \/ RequestStep(r) \/ Leave(r)

Spec == Init /\ [][Next]_vars

(* Tasks that can go on are scheduled, calls to PostgreSQL and Redis end,  *)
(* and so do those to Stripe, whose client has a timeout; and Stripe sends *)
(* the body of what it posts or hangs up, for nothing else would end that  *)
(* read.                                                                   *)
FairSpec == Spec /\ \A r \in Requests : WF_vars(RequestStep(r))

----------------------------------------------------------------------------
\* Properties.

(* What a request in progress may have to wait for. *)
Blocked(r) ==
    \/ pc[r] = "waiting" /\ ~Free
    \/ pc[r] = "mark" /\ Locked(job[r].order) # {}
    \/ pc[r] = "register" /\ Inserted(job[r].event) # {}
    \/ pc[r] = "dispatch" /\ Locked(job[r].event[1]) # {}

(* Somebody can always go on: those who wait for a connection wait for     *)
(* requests that never want a second one, and those who wait for a row or  *)
(* an event id wait for transactions that have a connection.               *)
SomebodyRuns == Active # {} => \E r \in Active : ~Blocked(r)

(* The connections in use are those of the requests in progress, one each: *)
(* none is lost with a request that failed or was answered early.          *)
OneEach == taken = {<<r, 1>> : r \in {s \in Requests : pc[s] \in Connected}}

(* Every request gets its connection in the end, though the others keep    *)
(* theirs through calls to Stripe and waits for locks, and overtake.       *)
Served == \A r \in Requests : (pc[r] = "waiting") ~> (pc[r] \in Connected)

=============================================================================
