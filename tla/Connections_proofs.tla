------------------------ MODULE Connections_proofs ------------------------
(***************************************************************************)
(* Proofs about Connections, for every number of requests, orders, events  *)
(* and connections.                                                        *)
(***************************************************************************)
EXTENDS Connections, FiniteSetTheorems, TLAPS

(* Where a first place leads is known by the kind of job. *)
LEMMA FirstPlaceConnected ==
    ASSUME NEW j \in Jobs
    PROVE  /\ FirstPlace(j.kind) \in Connected
           /\ FirstPlace(j.kind) \notin {"mark", "dispatch", "commit"}
           /\ FirstPlace(j.kind) \in {"body", "register"} => j.kind = "webhook"
           /\ FirstPlace(j.kind) = "stripe" => j.kind = "checkout"
  BY DEF Jobs, FirstPlace, Connected

(* A request answered leaves the others as they were. *)
LEMMA FinishKeeps ==
    ASSUME TypeOK, OneEach, NEW r \in Requests, Finish(r),
           processed' \in SUBSET Events
    PROVE  TypeOK' /\ OneEach'
  <1>1. job' = job /\ pc' = [pc EXCEPT ![r] = "done"]
    BY DEF Finish
  <1>2. TypeOK'
    BY <1>1 DEF Finish, TypeOK, InProgress, Connected
  <1>3. OneEach'
    BY <1>1 DEF Finish, TypeOK, OneEach, Connected
  <1>4. QED  BY <1>2, <1>3

(* A request that goes on keeps its connection. *)
LEMMA GoKeeps ==
    ASSUME TypeOK, OneEach, NEW r \in Requests, NEW place \in Connected,
           pc[r] \in Connected, Go(r, place), processed' \in SUBSET Events,
           place \in {"stripe", "mark"} => job[r].kind = "checkout",
           place \in {"body", "register", "dispatch", "commit"} => job[r].kind = "webhook"
    PROVE  TypeOK' /\ OneEach'
  <1>1. job' = job /\ taken' = taken /\ pc' = [pc EXCEPT ![r] = place]
    BY DEF Go
  <1>2. TypeOK'
    BY <1>1 DEF TypeOK, InProgress, Connected
  <1>3. {s \in Requests : pc'[s] \in Connected} = {s \in Requests : pc[s] \in Connected}
    BY <1>1 DEF TypeOK
  <1>4. OneEach'
    BY <1>1, <1>3 DEF OneEach
  <1>5. QED  BY <1>2, <1>4

LEMMA InvInit == Init => TypeOK /\ OneEach
  BY DEF Init, TypeOK, OneEach, Connected, InProgress

(* Every step of a request keeps its type and its one connection. *)
LEMMA InvStep ==
    ASSUME TypeOK, OneEach, [Next]_vars
    PROVE  TypeOK' /\ OneEach'
  <1>1. CASE UNCHANGED vars
    <2>1. UNCHANGED job /\ UNCHANGED pc /\ UNCHANGED taken /\ UNCHANGED processed
      BY <1>1 DEF vars
    <2>2. TypeOK'
      BY <2>1 DEF TypeOK
    <2>3. OneEach'
      BY <2>1 DEF OneEach
    <2>4. QED  BY <2>2, <2>3
  <1>2. ASSUME NEW r \in Requests, Receive(r)  PROVE TypeOK' /\ OneEach'
    <2>1. PICK j \in Jobs : job' = [job EXCEPT ![r] = j]
      BY <1>2 DEF Receive
    <2>2. /\ pc[r] = "new" /\ pc' = [pc EXCEPT ![r] = "waiting"]
          /\ taken' = taken /\ processed' = processed
      BY <1>2 DEF Receive
    <2>3. j # NoJob
      BY DEF Jobs, NoJob
    <2>4. TypeOK'
      BY <2>1, <2>2, <2>3 DEF TypeOK, InProgress
    <2>5. {s \in Requests : pc'[s] \in Connected} = {s \in Requests : pc[s] \in Connected}
      BY <2>2 DEF TypeOK, Connected
    <2>6. OneEach'
      BY <2>2, <2>5 DEF OneEach
    <2>7. QED  BY <2>4, <2>6
  <1>3. ASSUME NEW r \in Requests, Acquire(r)  PROVE TypeOK' /\ OneEach'
    <2> DEFINE place == FirstPlace(job[r].kind)
    <2>1. pc[r] = "waiting" /\ job' = job /\ processed' = processed
      BY <1>3 DEF Acquire
    <2>2. pc' = [pc EXCEPT ![r] = place] /\ taken' = taken \cup {<<r, 1>>}
      BY <1>3 DEF Acquire
    <2>3. job[r] \in Jobs
      BY <2>1 DEF TypeOK, InProgress
    <2>4. /\ place \in Connected /\ place \notin {"mark", "dispatch", "commit"}
          /\ place \in {"body", "register"} => job[r].kind = "webhook"
          /\ place = "stripe" => job[r].kind = "checkout"
      BY <2>3, FirstPlaceConnected
    <2>5. TypeOK'
      BY <2>1, <2>2, <2>3, <2>4 DEF TypeOK, InProgress
    <2>6. {s \in Requests : pc'[s] \in Connected}
            = {s \in Requests : pc[s] \in Connected} \cup {r}
      BY <2>2, <2>4 DEF TypeOK
    <2>7. OneEach'
      BY <2>2, <2>6 DEF OneEach
    <2>8. QED  BY <2>5, <2>7
  <1>4. ASSUME NEW r \in Requests, Guard(r) \/ CallStripe(r)  PROVE TypeOK' /\ OneEach'
    <2>1. processed' \in SUBSET Events
      BY <1>4 DEF Guard, CallStripe, TypeOK
    <2>2. CASE Guard(r)
      BY <2>1, <2>2, GoKeeps DEF Guard, Connected
    <2>3. CASE CallStripe(r)
      <3>1. job[r].kind = "checkout"
        BY <2>3 DEF CallStripe, TypeOK, InProgress, Connected
      <3>2. QED  BY <2>1, <2>3, <3>1, GoKeeps DEF CallStripe, Connected
    <2>4. QED  BY <1>4, <2>2, <2>3
  <1>5. ASSUME NEW r \in Requests, ReadBody(r) \/ Register(r) \/ LockRows(r) \/ Commit(r)
        PROVE TypeOK' /\ OneEach'
    <2>1. job[r] \in Jobs /\ job[r].kind = "webhook" /\ pc[r] \in Connected
      BY <1>5 DEF ReadBody, Register, LockRows, Commit, TypeOK, InProgress, Connected
    <2>2. job[r].event \in Events
      BY <2>1 DEF Jobs
    <2>3. processed' \in SUBSET Events
      BY <1>5, <2>2 DEF ReadBody, Register, LockRows, Commit, TypeOK
    <2>4. Finish(r) \/ \E place \in {"register", "dispatch", "commit", "publish"} : Go(r, place)
      BY <1>5 DEF ReadBody, Register, LockRows, Commit
    <2>5. QED  BY <2>1, <2>3, <2>4, FinishKeeps, GoKeeps DEF Connected
  <1>6. ASSUME NEW r \in Requests, Ignore(r)  PROVE TypeOK' /\ OneEach'
    <2>1. job[r] \in Jobs /\ job[r].kind = "webhook"
      BY <1>6 DEF Ignore, TypeOK, InProgress, Connected
    <2>2. processed' \in SUBSET Events
      BY <1>6, <2>1 DEF Ignore, TypeOK, Jobs
    <2>3. QED  BY <1>6, <2>2, FinishKeeps DEF Ignore
  <1>7. ASSUME NEW r \in Requests, Statement(r) \/ Mark(r) \/ Publish(r) \/ Leave(r)
        PROVE TypeOK' /\ OneEach'
    <2>1. Finish(r) /\ processed' \in SUBSET Events
      BY <1>7 DEF Statement, Mark, Publish, Leave, TypeOK
    <2>2. QED  BY <2>1, FinishKeeps
  <1>8. QED
    BY <1>1, <1>2, <1>3, <1>4, <1>5, <1>6, <1>7 DEF Next, RequestStep

(* Every request keeps exactly the connection it was given, from the guard *)
(* to its end, whichever way it ends.                                      *)
THEOREM OneEachCorrect == Spec => [](TypeOK /\ OneEach)
  <1>1. Init => TypeOK /\ OneEach
    BY InvInit
  <1>2. TypeOK /\ OneEach /\ [Next]_vars => (TypeOK /\ OneEach)'
    BY InvStep
  <1>3. QED  BY <1>1, <1>2, PTL DEF Spec

----------------------------------------------------------------------------
\* Nobody waits for ever for somebody who waits.

(* A transaction that has rows can commit. *)
LEMMA OwnerRuns ==
    ASSUME NEW s \in Requests, pc[s] = "commit"
    PROVE  s \in Active /\ ~Blocked(s)
  BY DEF Active, InProgress, Connected, Blocked

(* A transaction that has inserted an event can go on, or waits for one    *)
(* that can.                                                               *)
LEMMA InserterRuns ==
    ASSUME NEW s \in Requests, pc[s] \in {"dispatch", "commit"}
    PROVE  \E t \in Active : ~Blocked(t)
  <1>1. CASE pc[s] = "commit"
    BY <1>1, OwnerRuns
  <1>2. CASE pc[s] = "dispatch" /\ Locked(job[s].event[1]) = {}
    BY <1>2 DEF Active, InProgress, Connected, Blocked
  <1>3. CASE pc[s] = "dispatch" /\ Locked(job[s].event[1]) # {}
    <2>1. PICK t \in Requests : pc[t] = "commit"
      BY <1>3 DEF Locked
    <2>2. QED  BY <2>1, OwnerRuns
  <1>4. QED  BY <1>1, <1>2, <1>3

(* Whoever waits for a connection waits for requests that have one and     *)
(* never ask for another; whoever waits for a lock, for a transaction.     *)
LEMMA RunnerExists ==
    ASSUME TypeOK, OneEach
    PROVE  SomebodyRuns
  <1>1. SUFFICES ASSUME NEW r \in Active  PROVE \E t \in Active : ~Blocked(t)
    BY DEF SomebodyRuns
  <1>2. CASE taken = {}
    <2>1. Cardinality(taken) = 0
      BY <1>2, FS_EmptySet
    <2>2. Free
      BY <2>1, SizeAssumption DEF Free
    <2>3. r \in Requests /\ pc[r] \notin Connected
      BY <1>2 DEF OneEach, Active
    <2>4. pc[r] = "waiting"
      BY <2>3 DEF Active, InProgress
    <2>5. QED  BY <2>2, <2>4 DEF Blocked
  <1>3. CASE taken # {}
    <2>1. PICK s \in Requests : pc[s] \in Connected
      BY <1>3 DEF OneEach
    <2>2. s \in Active
      BY <2>1 DEF Active, InProgress
    <2>3. CASE pc[s] = "mark" /\ Locked(job[s].order) # {}
      <3>1. PICK t \in Requests : pc[t] = "commit"
        BY <2>3 DEF Locked
      <3>2. QED  BY <3>1, OwnerRuns
    <2>4. CASE pc[s] = "register" /\ Inserted(job[s].event) # {}
      <3>1. PICK t \in Requests : pc[t] \in {"dispatch", "commit"}
        BY <2>4 DEF Inserted
      <3>2. QED  BY <3>1, InserterRuns
    <2>5. CASE pc[s] = "dispatch"
      BY <2>5, InserterRuns
    <2>6. CASE ~Blocked(s)
      BY <2>2, <2>6
    <2>7. QED  BY <2>1, <2>3, <2>4, <2>5, <2>6 DEF Blocked, Connected
  <1>4. QED  BY <1>2, <1>3

(* However few connections there are and however the requests meet at the  *)
(* rows and event ids, they never all wait for each other.                 *)
THEOREM NoDeadlock == Spec => []SomebodyRuns
  <1>1. TypeOK /\ OneEach => SomebodyRuns
    BY RunnerExists
  <1>2. QED  BY <1>1, OneEachCorrect, PTL

=============================================================================
