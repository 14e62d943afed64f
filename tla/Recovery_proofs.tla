--------------------------- MODULE Recovery_proofs ---------------------------
(***************************************************************************)
(* Accounts implements Recovery, for every number of accounts, addresses,  *)
(* requests, browsers and failures.                                        *)
(***************************************************************************)
EXTENDS Accounts_proofs

----------------------------------------------------------------------------
\* What the refinement needs besides the invariants of the codes.

(* A request for a code knows no account before it has looked; what was    *)
(* published is a code that was stored; what a client types was mailed.    *)
LookupsFresh ==
    \A r \in Requests : At(r, "lookup") => User(r) = NoUser /\ task[r].email = "none"
PublishedMade ==
    \A i \in 1..Len(published) : Made(published[i]) /\ Key(published[i]) \in Keys
TypedMailed ==
    \A v \in Requests :
        task[v] # New /\ Kind(v) = "validate" /\ Op(v).code # Wrong => HasArrived(Op(v).code)

RecoveryInv == LookupsFresh /\ PublishedMade /\ TypedMailed

LEMMA Publishes ==
  ASSUME NEW r \in Requests, RequestStep(r) \/ CallFails(r)
  PROVE  UNCHANGED mailVars \/ (At(r, "publish") /\ Enqueue(r))
  BY DEF RequestStep, CallFails, Create, Login, GoogleFind, GoogleInsert, Lookup, Store,
     Publish, Verify, Compare, Delete, Write, Rename

LEMMA Receives ==
  ASSUME Shaped, NEW r \in Requests, Receive(r)
  PROVE  /\ task[r] = New /\ task'[r] # New
         /\ \A q \in Requests \ {r} : task'[q] = task[q]
         /\ task'[r].user = NoUser /\ task'[r].email = "none"
         /\ Kind(r)' = "validate" /\ Op(r)'.code # Wrong => HasArrived(Op(r)'.code)
         /\ ~Accepted(r)'
         /\ UNCHANGED <<users, codes, mailVars>>
  <1> PICK c \in Clients, op \in Ops :
          /\ op.kind = "validate" =>
                op.code = Wrong \/ \E i \in DOMAIN arrived : arrived[i] = op.code
          /\ Become(r, [pc |-> FirstPlace(op.kind), client |-> c, op |-> op,
                        auth |-> auth[c], token |-> reset[c],
                        user |-> NoUser, email |-> "none"])
    BY DEF Receive
  <1>1. /\ task'[r].op = op /\ task'[r].pc = FirstPlace(op.kind)
        /\ task'[r].user = NoUser /\ task'[r].email = "none"
        /\ \A q \in Requests \ {r} : task'[q] = task[q]
    BY DEF Become, Shaped, TypeOK
  <1>2. FirstPlace(op.kind) # "new"
    <2>1. op.kind \in {"forget", "rename", "create", "google", "login", "validate",
                       "update", "logout"}
      BY DEF Ops
    <2>2. QED  BY <2>1 DEF FirstPlace
  <1>3. op.kind = "validate" => FirstPlace(op.kind) = "verify"
    BY DEF FirstPlace
  <1>4. ~Accepted(r)'
    BY <1>1, <1>3 DEF Accepted, Done, At, Kind
  <1>5. QED  BY <1>1, <1>2, <1>4 DEF Receive, New, Kind, Op, HasArrived

(* A mail that arrived was accepted by the queue, and arrivals stay.       *)
LEMMA Arrives ==
  ASSUME MailTypeOK, WorkerTrue, MailInv, MailStep
  PROVE  /\ \A m : HasArrived(m) => HasArrived(m)'
         /\ published' = published
         /\ \/ arrived' = arrived
            \/ \E i \in 1..Len(published) : arrived' = Append(arrived, published[i])
  <1>1. Arrival
    BY WorkerMoves, MovesFacts
  <1>2. published' = published
    BY WorkerMoves DEF Stays, Leaves
  <1>3. \A m : HasArrived(m) => HasArrived(m)'
    BY <1>1, ArrivalKeeps
  <1>4. Len(Pending) > 0 => \E i \in 1..Len(published) : published[i] = Pending[1]
    BY DueIsFirst DEF MailInv
  <1>5. QED  BY <1>1, <1>2, <1>3, <1>4 DEF Arrival

(* What was published stays so, and what is added was stored before.       *)
LEMMA PublishedStep ==
  ASSUME Shaped, PublishedMade, [Next]_vars,
         \/ published' = published
         \/ \E r \in Requests : /\ published' = Append(published, r)
                                /\ Made(r) /\ Key(r) \in Keys
  PROVE  PublishedMade'
  <1>1. published \in Seq(Requests) /\ Len(published) \in Nat
    BY LenProperties DEF Shaped, TypeOK, MailTypeOK
  <1>2. SUFFICES ASSUME NEW i \in 1..Len(published')
                 PROVE  (Made(published[i]) /\ Key(published[i]) \in Keys)'
    BY DEF PublishedMade
  <1> PICK f : f = published'[i]
    OBVIOUS
  <1>3. Made(f) /\ Key(f) \in Keys
    <2>1. CASE published' = published
      BY <2>1 DEF PublishedMade
    <2>2. ASSUME NEW r \in Requests, published' = Append(published, r), Made(r), Key(r) \in Keys
          PROVE  Made(f) /\ Key(f) \in Keys
      <3>1. (i \in 1..Len(published) /\ f = published[i]) \/ f = r
        BY <1>1, <2>2
      <3>2. QED  BY <2>2, <3>1 DEF PublishedMade
    <2>3. QED  BY <2>1, <2>2
  <1>4. Made(f)' /\ Key(f)' \in Keys
    BY <1>3, MadeStays
  <1>5. QED  BY <1>4 DEF Made, Key, Kind

LEMMA RecoveryInvStep ==
  ASSUME Shaped, CodeInv, WorkerTrue, MailInv, RecoveryInv, [Next]_vars
  PROVE  RecoveryInv'
  <1>a. MailTypeOK
    BY DEF Shaped, TypeOK
  <1>2. ASSUME published' = published
        PROVE  PublishedMade'
    BY <1>2, PublishedStep DEF RecoveryInv
  <1>3. CASE UNCHANGED task /\ (MailStep \/ UNCHANGED mailVars)
    <2>1. published' = published /\ \A m : HasArrived(m) => HasArrived(m)'
      BY <1>a, <1>3, Arrives DEF mailVars, HasArrived
    <2>2. LookupsFresh' /\ TypedMailed'
      BY <1>3, <2>1 DEF RecoveryInv, LookupsFresh, TypedMailed, At, User, Kind, Op
    <2>3. QED  BY <1>2, <2>1, <2>2 DEF RecoveryInv
  <1>4. ASSUME NEW r \in Requests, Receive(r)
        PROVE  RecoveryInv'
    <2>1. UNCHANGED mailVars
      BY <1>4, Receives
    <2>2. LookupsFresh'
      BY <1>4, Receives DEF RecoveryInv, LookupsFresh, At, User
    <2>3. \A m : HasArrived(m)' <=> HasArrived(m)
      BY <2>1 DEF HasArrived, mailVars
    <2>4. TypedMailed'
      BY <1>4, <2>3, Receives DEF RecoveryInv, TypedMailed, Kind, Op
    <2>5. QED  BY <1>2, <2>1, <2>2, <2>4 DEF RecoveryInv, mailVars
  <1>5. ASSUME NEW r \in Requests, RequestStep(r) \/ CallFails(r)
        PROVE  RecoveryInv'
    <2>1. Moves(r) /\ task[r] # New
      BY <1>5, StepMoves DEF Moves, Places, New
    <2>2. LookupsFresh'
      <3>1. ~At(r, "lookup")'
        BY <2>1 DEF Moves, May, At, Places
      <3>2. QED  BY <2>1, <3>1 DEF RecoveryInv, LookupsFresh, Moves, At, User
    <2>3. \A m : HasArrived(m)' <=> HasArrived(m)
      BY <1>5, Publishes DEF HasArrived, mailVars, Enqueue
    <2>4. TypedMailed'
      BY <2>1, <2>3 DEF RecoveryInv, TypedMailed, Moves, Kind, Op
    <2>5. CASE UNCHANGED mailVars
      BY <1>2, <2>2, <2>4, <2>5 DEF RecoveryInv, mailVars
    <2>6. CASE At(r, "publish") /\ Enqueue(r)
      <3>1. Kind(r) = "forget" /\ Key(r) \in Keys
        BY <2>6 DEF Shaped, Control, At, Key, Keys, User
      <3>2. Made(r)
        <4>1. task[r].pc = "publish"
          BY <2>6 DEF At
        <4>2. QED  BY <3>1, <4>1 DEF Made
      <3>3. PublishedMade'
        BY <2>6, <3>1, <3>2, PublishedStep DEF Enqueue, RecoveryInv
      <3>4. QED  BY <2>2, <2>4, <3>3 DEF RecoveryInv
    <2>7. QED  BY <1>5, <2>5, <2>6, Publishes
  <1>6. CASE Crash
    <2>1. UNCHANGED mailVars /\ \A m : HasArrived(m)' <=> HasArrived(m)
      BY <1>6 DEF Crash, HasArrived, mailVars
    <2>2. ASSUME NEW r \in Requests
          PROVE  /\ task'[r] = task[r] \/ task'[r] = [task[r] EXCEPT !.pc = "crashed"]
                 /\ task[r] # New => task[r] \in Started
                 /\ task'[r] # New => task[r] # New
      <3>1. /\ task'[r] = task[r] \/ (r \in Open /\ task'[r] = [task[r] EXCEPT !.pc = "crashed"])
            /\ r \in Open => task[r] # New
        BY <1>6 DEF Crash, Open, New, Places
      <3>2. QED  BY <3>1, ShapedParts DEF RequestOK
    <2>3. LookupsFresh'
      <3>1. \A r \in Requests : At(r, "lookup")' => task'[r] = task[r]
        <4> SUFFICES ASSUME NEW r \in Requests, At(r, "lookup")'
                     PROVE  task'[r] = task[r]
          OBVIOUS
        <4>1. task'[r].pc = "lookup"
          BY DEF At
        <4>2. CASE r \in Open
          <5>1. task[r] \in Started
            <6>1. task[r].pc \in Places /\ New.pc \notin Places
              BY <4>2 DEF Open, New, Places
            <6>2. QED  BY <2>2, <6>1
          <5>2. task'[r] = [task[r] EXCEPT !.pc = "crashed"]
            BY <1>6, <4>2 DEF Crash
          <5>3. QED  BY <4>1, <5>1, <5>2 DEF Started
        <4>3. QED  BY <1>6, <4>2 DEF Crash
      <3>2. QED  BY <3>1 DEF RecoveryInv, LookupsFresh, At, User
    <2>4. TypedMailed'
      <3>1. \A r \in Requests : task'[r] # New => task[r] # New /\ task'[r].op = task[r].op
        BY <2>2 DEF Started
      <3>2. QED  BY <2>1, <3>1 DEF RecoveryInv, TypedMailed, Kind, Op
    <2>5. QED  BY <1>2, <2>1, <2>3, <2>4 DEF RecoveryInv, mailVars
  <1>7. QED
    BY <1>3, <1>4, <1>5, <1>6 DEF Next, vars, accountVars, ExpireCode, ExpireCookie

LEMMA InitRecovery == Init => RecoveryInv
  <1> SUFFICES ASSUME Init  PROVE RecoveryInv
    OBVIOUS
  <1>1. LookupsFresh /\ TypedMailed
    BY DEF Init, LookupsFresh, TypedMailed, At, New
  <1>2. Len(published) = 0
    BY EmptySeq DEF Init, MailInit
  <1>3. QED  BY <1>1, <1>2 DEF RecoveryInv, PublishedMade

----------------------------------------------------------------------------
\* How the abstract state moves.

LEMMA OwnerIs ==
  /\ \A f \in Requests : task[f] # New /\ Kind(f) = "forget" => CodeOwner[f] = Key(f)
  /\ \A f : Made(f) => f \in Requests /\ CodeOwner[f] = Key(f)
  BY DEF CodeOwner, Made, New

(* A request that moves keeps the owner of its code, unless it has just    *)
(* found it, and spends a code only at its end.                            *)
LEMMA MovedOwner ==
  ASSUME Shaped, NEW r \in Requests, Moves(r),
         At(r, "lookup") => task'[r].user = task[r].user /\ task'[r].email = task[r].email
  PROVE  CodeOwner' = CodeOwner
  <1>1. /\ task[r] # New /\ task'[r] # New /\ Kind(r)' = Kind(r)
        /\ \A q \in Requests \ {r} : task'[q] = task[q]
    BY DEF Moves, Places, New, May, Kind
  <1>2. ASSUME Kind(r) = "forget"
        PROVE  Key(r)' = Key(r)
    <2>1. task[r].pc \in {"lookup", "store", "publish"}
      BY <1>2 DEF Moves, Shaped, Control, At, Places
    <2>2. QED  BY <2>1 DEF Moves, Late, At, Key
  <1>3. ASSUME NEW f \in Requests
        PROVE  /\ (task'[f] # New /\ Kind(f)' = "forget") <=> (task[f] # New /\ Kind(f) = "forget")
               /\ task[f] # New /\ Kind(f) = "forget" => Key(f)' = Key(f)
    <2>1. CASE f = r
      BY <1>1, <1>2, <2>1
    <2>2. CASE f # r
      BY <1>1, <2>2 DEF Kind, Key
    <2>3. QED  BY <2>1, <2>2
  <1>4. QED  BY <1>3 DEF CodeOwner

LEMMA MovedAccepted ==
  ASSUME Shaped, NEW r \in Requests, Moves(r)
  PROVE  /\ \A w \in Requests \ {r} : (Accepted(w)' <=> Accepted(w)) /\ Op(w)' = Op(w)
         /\ ~Accepted(r) /\ Op(r)' = Op(r)
         /\ Accepted(r)' <=> At(r, "delete") /\ task'[r].pc = "ok"
  <1>1. /\ task[r].pc \in Places /\ task'[r] # New /\ task[r] # New
        /\ \A q \in Requests \ {r} : task'[q] = task[q]
    BY DEF Moves, Places, New, May
  <1>2. ~Accepted(r)
    BY <1>1 DEF Accepted, Done, At, Places
  <1>3. Op(r)' = Op(r) /\ Kind(r)' = Kind(r)
    BY DEF Moves, Op, Kind
  <1>4. At(r, "delete") => Kind(r) = "validate"
    BY DEF Shaped, Control, At
  <1>5. Kind(r) = "validate" /\ task'[r].pc = "ok" => At(r, "delete")
    BY DEF Moves, May, Shaped, Control, At
  <1>6. Accepted(r)' <=> At(r, "delete") /\ task'[r].pc = "ok"
    BY <1>1, <1>3, <1>4, <1>5 DEF Accepted, Done, At
  <1>7. QED  BY <1>1, <1>2, <1>3, <1>6 DEF Accepted, Done, At, Kind, Op

LEMMA MovedSpent ==
  ASSUME Shaped, NEW r \in Requests, Moves(r)
  PROVE  SpentCodes' = IF At(r, "delete") /\ task'[r].pc = "ok"
                       THEN SpentCodes \cup {Op(r).code} ELSE SpentCodes
  BY MovedAccepted DEF SpentCodes

LEMMA SameAccepted ==
  ASSUME \A w \in Requests : Accepted(w)' <=> Accepted(w),
         \A w \in Requests : Accepted(w) => Op(w)' = Op(w)
  PROVE  SpentCodes' = SpentCodes
  BY DEF SpentCodes

(* The code under one key is replaced or removed. *)
LEMMA ValidPut ==
  ASSUME Shaped, CodeInv, NEW k \in Keys, NEW x \in Requests \cup {NoRequest},
         codes' = [codes EXCEPT ![k] = x], NEW f, CodeOwner[f] = k
  PROVE  ValidCodes' = (Safe!Beside(f) \cup {x}) \ {NoRequest}
  <1>1. /\ \A j \in Keys : codes'[j] = IF j = k THEN x ELSE codes[j]
        /\ codes \in [Keys -> Requests \cup {NoRequest}]
    BY DEF Shaped, TypeOK
  <1>2. \A j \in Keys : codes[j] # NoRequest => CodeOwner[codes[j]] = j
    BY OwnerIs DEF CodeInv, StoredCodes
  <1>3. ASSUME NEW g, g # NoRequest
        PROVE  g \in ValidCodes' <=> g \in Safe!Beside(f) \/ g = x
    <2>1. g \in ValidCodes' <=> \E j \in Keys : codes'[j] = g
      BY <1>3 DEF ValidCodes
    <2>2. g \in Safe!Beside(f) <=> CodeOwner[g] # k /\ \E j \in Keys : codes[j] = g
      BY <1>3 DEF ValidCodes, Safe!Beside
    <2>3. QED  BY <1>1, <1>2, <1>3, <2>1, <2>2
  <1>4. NoRequest \notin ValidCodes'
    BY DEF ValidCodes
  <1>5. QED  BY <1>3, <1>4

LEMMA ValidLapse ==
  ASSUME Shaped, CodeInv, NEW k \in Keys, codes' = [codes EXCEPT ![k] = NoRequest]
  PROVE  \/ ValidCodes' = ValidCodes
         \/ \E f \in Requests : ValidCodes' = ValidCodes \ {f}
  <1>1. /\ \A j \in Keys : codes'[j] = IF j = k THEN NoRequest ELSE codes[j]
        /\ codes \in [Keys -> Requests \cup {NoRequest}]
    BY DEF Shaped, TypeOK
  <1>2. \A j \in Keys : codes[j] # NoRequest => CodeOwner[codes[j]] = j
    BY OwnerIs DEF CodeInv, StoredCodes
  <1>3. CASE codes[k] = NoRequest
    BY <1>1, <1>3 DEF ValidCodes
  <1>4. CASE codes[k] # NoRequest
    <2>1. \A j \in Keys : codes[j] = codes[k] => j = k
      BY <1>2, <1>4
    <2>2. ASSUME NEW g
          PROVE  g \in ValidCodes' <=> g \in ValidCodes \ {codes[k]}
      <3>1. g \in ValidCodes' <=> g # NoRequest /\ \E j \in Keys : codes'[j] = g
        BY DEF ValidCodes
      <3>2. g \in ValidCodes <=> g # NoRequest /\ \E j \in Keys : codes[j] = g
        BY DEF ValidCodes
      <3>3. QED  BY <1>1, <2>1, <3>1, <3>2
    <2>3. QED  BY <1>1, <1>4, <2>2
  <1>5. QED  BY <1>3, <1>4

----------------------------------------------------------------------------
\* Each step of a request is a step of the recovery.

Step == [Safe!Next]_(Safe!vars)

LEMMA NothingHappens ==
  ASSUME UNCHANGED <<users, CodeOwner, ValidCodes, MailedCodes, SpentCodes>>
  PROVE  Step
  BY DEF Step, Safe!vars, Safe!codeVars

(* What a request does to the stores, and where. *)
LEMMA Touches ==
  ASSUME NEW r \in Requests, RequestStep(r) \/ CallFails(r)
  PROVE  /\ arrived' = arrived
         /\ \/ UNCHANGED <<users, codes>>
            \/ At(r, "store") /\ SetCode(r, r) /\ UNCHANGED users
            \/ At(r, "delete") /\ SetCode(r, NoRequest) /\ UNCHANGED users
            \/ At(r, "write") /\ SetPassword(r) /\ UNCHANGED codes
            \/ At(r, "rename") /\ SetEmail(r) /\ UNCHANGED codes
            \/ At(r, "insert") /\ (\E u \in Users : Insert(r, u)) /\ UNCHANGED codes
  BY DEF RequestStep, CallFails, Create, Login, GoogleFind, GoogleInsert, Lookup, Store,
     Publish, Verify, Compare, Delete, Write, Rename, Enqueue, mailVars, historyVars

LEMMA Frees ==
  ASSUME NEW e, NEW u, Holder(e) \subseteq {u}
  PROVE  Safe!Free(e, u)
  BY DEF Holder, Safe!Free

LEMMA UsersStep ==
  ASSUME Shaped, CodeInv, BackedInv, NEW r \in Requests, Moves(r),
         codes' = codes, arrived' = arrived,
         \/ At(r, "write") /\ SetPassword(r)
         \/ At(r, "rename") /\ SetEmail(r)
         \/ At(r, "insert") /\ \E u \in Users : Insert(r, u)
  PROVE  Step
  <1>1. UNCHANGED <<CodeOwner, ValidCodes, MailedCodes, SpentCodes>>
    BY MovedOwner, MovedSpent DEF At, ValidCodes, MailedCodes
  <1> USE DEF Step, Safe!codeVars
  <1>2. CASE At(r, "write") /\ SetPassword(r)
    <2>1. PICK v \in Requests : /\ Accepted(v) /\ User(v) = User(r)
                                /\ User(Op(v).code) = User(r)
      BY <1>2 DEF BackedInv, TasksBacked, Backed
    <2>2. Op(v).code \in SpentCodes
      BY <2>1 DEF SpentCodes
    <2>3. CodeOwner[Op(v).code] = Key(Op(v).code)
      BY <2>1, OwnerIs DEF CodeInv, CodesUsed
    <2>4. CodeOwner[Op(v).code][1] = User(r)
      BY <2>1, <2>3 DEF Key, User
    <2>5. User(r) \in Users
      BY <1>2 DEF Shaped, Control, At
    <2>6. Safe!Change(r, User(r))
      BY <1>1, <1>2, <2>2, <2>4 DEF Safe!Change, SetPassword
    <2>7. QED  BY <2>5, <2>6 DEF Safe!Next
  <1>3. CASE At(r, "rename") /\ SetEmail(r)
    <2>1. User(r) \in Users /\ Exists(User(r)) /\ Kind(r) = "rename" /\ task[r] \in Started
      BY <1>3, OwnerExists, ShapedParts DEF Shaped, Control, At, New, RequestOK
    <2>2. Op(r).email \in Emails
      BY <2>1 DEF Started, Ops, Op, Kind
    <2>3. Safe!Move(User(r), Op(r).email)
      BY <1>1, <1>3, <2>1, Frees DEF Safe!Move, SetEmail, Exists
    <2>4. QED  BY <2>1, <2>2, <2>3 DEF Safe!Next
  <1>4. ASSUME NEW u \in Users, At(r, "insert"), Insert(r, u)
        PROVE  Step
    <2>1. Kind(r) \in {"create", "google"} /\ task[r] \in Started
      BY <1>4, ShapedParts DEF Shaped, Control, At, New, RequestOK
    <2>2. Op(r).email \in Emails
      BY <2>1 DEF Started, Ops, Op, Kind
    <2>3. Safe!Register(r, u, Op(r).email)
      BY <1>1, <1>4, Frees DEF Safe!Register, Insert, Exists, Taken
    <2>4. QED  BY <2>2, <2>3 DEF Safe!Next
  <1>5. QED  BY <1>2, <1>3, <1>4

LEMMA StoreStep ==
  ASSUME Shaped, CodeInv, NEW r \in Requests, Moves(r), At(r, "store"), SetCode(r, r),
         users' = users, arrived' = arrived
  PROVE  Step
  <1>1. UNCHANGED <<users, CodeOwner, MailedCodes, SpentCodes>>
    BY MovedOwner, MovedSpent DEF At, MailedCodes
  <1>2. Kind(r) = "forget" /\ Key(r) \in Keys /\ task[r] # New /\ User(r) \in Users
    BY DEF Shaped, Control, At, Key, Keys, User, New
  <1>3. CodeOwner[r] = Key(r)
    BY <1>2, OwnerIs
  <1>4. CodeOwner[r] # <<NoUser, "none">>
    BY <1>2, <1>3, NamesAssumption DEF Key, User
  <1>5. r \notin SpentCodes
    BY DEF SpentCodes, CodeInv, CodesUsed, Made, At
  <1>6. ValidCodes' = Safe!Beside(r) \cup {r}
    <2>1. ValidCodes' = (Safe!Beside(r) \cup {r}) \ {NoRequest}
      BY <1>2, <1>3, ValidPut DEF SetCode
    <2>2. NoRequest \notin Safe!Beside(r) \cup {r}
      BY NoRequestAssumption DEF Safe!Beside, ValidCodes
    <2>3. QED  BY <2>1, <2>2
  <1>7. Safe!Put(r)
    BY <1>1, <1>4, <1>5, <1>6 DEF Safe!Put
  <1>8. QED  BY <1>7 DEF Step, Safe!Next

LEMMA DeleteStep ==
  ASSUME Shaped, CodeInv, RecoveryInv, NEW r \in Requests, Moves(r), At(r, "delete"),
         SetCode(r, NoRequest), users' = users, arrived' = arrived
  PROVE  Step
  <1>1. UNCHANGED <<users, CodeOwner, MailedCodes>>
    BY MovedOwner DEF At, MailedCodes
  <1>2. /\ Kind(r) = "validate" /\ Key(r) \in Keys /\ task[r] # New
        /\ Op(r).code \in Requests
    BY DEF Shaped, Control, At, Key, Keys, User, New
  <1> PICK f \in Requests : f = Op(r).code
    BY <1>2
  <1>3. CASE task'[r].pc = "ok"
    <2>1. SpentCodes' = SpentCodes \cup {f}
      BY <1>3, MovedSpent
    <2>2. f \in MailedCodes
      <3>1. f # Wrong
        BY NamesAssumption
      <3>2. HasArrived(f)
        BY <1>2, <3>1 DEF RecoveryInv, TypedMailed
      <3>3. QED  BY <3>2 DEF HasArrived, MailedCodes
    <2>3. CodeOwner[f] = Key(r)
      BY OwnerIs DEF CodeInv, CodesMatched
    <2>4. ValidCodes' = Safe!Beside(f)
      <3>1. ValidCodes' = (Safe!Beside(f) \cup {NoRequest}) \ {NoRequest}
        BY <1>2, <2>3, ValidPut DEF SetCode
      <3>2. NoRequest \notin Safe!Beside(f)
        BY DEF Safe!Beside, ValidCodes
      <3>3. QED  BY <3>1, <3>2
    <2>5. Safe!Spend(f)
      BY <1>1, <2>1, <2>2, <2>4 DEF Safe!Spend
    <2>6. QED  BY <2>5 DEF Step, Safe!Next
  <1>4. CASE task'[r].pc # "ok"
    <2>1. SpentCodes' = SpentCodes
      BY <1>4, MovedSpent
    <2>2. ValidCodes' = ValidCodes \/ \E g \in Requests : ValidCodes' = ValidCodes \ {g}
      BY <1>2, ValidLapse DEF SetCode
    <2>3. CASE ValidCodes' = ValidCodes
      BY <1>1, <2>1, <2>3, NothingHappens
    <2>4. ASSUME NEW g \in Requests, ValidCodes' = ValidCodes \ {g}
          PROVE  Step
      <3>1. Safe!Lapse(g)
        BY <1>1, <2>1, <2>4 DEF Safe!Lapse
      <3>2. QED  BY <3>1 DEF Step, Safe!Next
    <2>5. QED  BY <2>2, <2>3, <2>4
  <1>5. QED  BY <1>3, <1>4

(* A request for a code finds its account, and the code is drawn for it.   *)
LEMMA DrawStep ==
  ASSUME Shaped, CodeInv, RecoveryInv, NEW r \in Requests, Moves(r), At(r, "lookup"),
         UNCHANGED <<users, codes>>, arrived' = arrived,
         NEW u \in Users, Exists(u), GoWith(r, "store", u)
  PROVE  Step
  <1>1. UNCHANGED <<users, ValidCodes, MailedCodes, SpentCodes>>
    BY MovedSpent DEF At, ValidCodes, MailedCodes
  <1>2. /\ Kind(r) = "forget" /\ task[r] # New /\ task[r] \in Started
        /\ User(r) = NoUser /\ task[r].email = "none"
    <2>1. Kind(r) = "forget" /\ task[r] # New
      BY DEF Shaped, Control, At, New
    <2>2. QED  BY <2>1, ShapedParts DEF RequestOK, RecoveryInv, LookupsFresh
  <1>3. CodeOwner[r] = <<NoUser, "none">>
    BY <1>2, OwnerIs DEF Key, User
  <1>4. task' = [task EXCEPT ![r] =
                    [task[r] EXCEPT !.pc = "store", !.user = u, !.email = users[u].email]]
    BY DEF GoWith, Become
  <1>5. /\ task'[r].user = u /\ task'[r].email = users[u].email /\ task'[r].op = task[r].op
        /\ task'[r] # New /\ \A q \in Requests \ {r} : task'[q] = task[q]
    BY <1>2, <1>4 DEF Started, Shaped, TypeOK, New, Moves
  <1>6. CodeOwner' = [CodeOwner EXCEPT ![r] = <<u, users[u].email>>]
    <2>1. CodeOwner \in [Requests -> {CodeOwner[f] : f \in Requests}]
      BY DEF CodeOwner
    <2>2. ASSUME NEW f \in Requests
          PROVE  CodeOwner'[f] = IF f = r THEN <<u, users[u].email>> ELSE CodeOwner[f]
      <3>1. CASE f = r
        BY <1>2, <1>5, <3>1 DEF CodeOwner, Kind, Key
      <3>2. CASE f # r
        BY <1>5, <3>2 DEF CodeOwner, Kind, Key
      <3>3. QED  BY <3>1, <3>2
    <2>3. QED  BY <2>2 DEF CodeOwner
  <1>7. Safe!Draw(r, u)
    BY <1>1, <1>3, <1>6 DEF Safe!Draw, Exists
  <1>8. QED  BY <1>7 DEF Step, Safe!Next

LEMMA LookupStep ==
  ASSUME Shaped, CodeInv, RecoveryInv, NEW r \in Requests, RequestStep(r) \/ CallFails(r),
         At(r, "lookup")
  PROVE  Step
  <1>1. Moves(r)
    BY StepMoves
  <1>2. UNCHANGED <<users, codes>> /\ arrived' = arrived
    BY Touches DEF At
  <1>3. Lookup(r) \/ CallFails(r)
    BY DEF RequestStep, Create, Login, GoogleFind, GoogleInsert, Store, Publish,
       Verify, Compare, Delete, Write, Rename, At
  <1>4. /\ Kind(r) = "forget" /\ task[r] # New /\ task[r] \in Started
    <2>1. Kind(r) = "forget" /\ task[r] # New
      BY DEF Shaped, Control, At, New
    <2>2. QED  BY <2>1, ShapedParts DEF RequestOK
  <1>5. CASE Go(r, "error")
    <2>1. task'[r].user = task[r].user /\ task'[r].email = task[r].email
      BY <1>4, <1>5 DEF Go, Become, Started, Shaped, TypeOK
    <2>2. UNCHANGED <<CodeOwner, SpentCodes>>
      BY <1>1, <2>1, MovedOwner, MovedSpent DEF At
    <2>3. QED  BY <1>2, <2>2, NothingHappens DEF ValidCodes, MailedCodes
  <1>6. ASSUME NEW u \in Holder(Op(r).email), GoWith(r, "store", u)
        PROVE  Step
    <2>1. Op(r).email \in Emails
      BY <1>4 DEF Started, Ops, Op, Kind
    <2>2. QED  BY <1>1, <1>2, <1>6, <2>1, HolderFacts, DrawStep
  <1>7. QED  BY <1>3, <1>5, <1>6 DEF Lookup, CallFails, Refuse

LEMMA RequestSteps ==
  ASSUME Shaped, CodeInv, BackedInv, RecoveryInv,
         NEW r \in Requests, RequestStep(r) \/ CallFails(r)
  PROVE  Step
  <1>1. Moves(r)
    BY StepMoves
  <1>2. CASE At(r, "lookup")
    BY <1>2, LookupStep
  <1>3. CASE ~At(r, "lookup") /\ UNCHANGED <<users, codes>>
    <2>2. CASE At(r, "delete") /\ task'[r].pc = "ok"
      <3>1. SetCode(r, NoRequest)
        <4>1. ~Go(r, "error")
          BY <2>2, GoesTo DEF At, New
        <4>2. Delete(r)
          BY <2>2, <4>1 DEF RequestStep, CallFails, Refuse, Create, Login, GoogleFind,
             GoogleInsert, Lookup, Store, Publish, Verify, Compare, Write, Rename, At
        <4>3. QED  BY <4>2 DEF Delete
      <3>2. QED  BY <1>1, <1>3, <2>2, <3>1, DeleteStep, Touches
    <2>3. CASE ~(At(r, "delete") /\ task'[r].pc = "ok")
      <3>1. UNCHANGED <<CodeOwner, SpentCodes>>
        BY <1>1, <1>3, <2>3, MovedOwner, MovedSpent
      <3>2. QED  BY <1>3, <3>1, NothingHappens, Touches DEF ValidCodes, MailedCodes
    <2>4. QED  BY <2>2, <2>3
  <1>4. CASE At(r, "store") /\ SetCode(r, r) /\ UNCHANGED users
    BY <1>1, <1>4, StoreStep, Touches
  <1>5. CASE At(r, "delete") /\ SetCode(r, NoRequest) /\ UNCHANGED users
    BY <1>1, <1>5, DeleteStep, Touches
  <1>6. CASE /\ UNCHANGED codes
             /\ \/ At(r, "write") /\ SetPassword(r)
                \/ At(r, "rename") /\ SetEmail(r)
                \/ At(r, "insert") /\ \E u \in Users : Insert(r, u)
    BY <1>1, <1>6, UsersStep, Touches
  <1>7. QED  BY <1>2, <1>3, <1>4, <1>5, <1>6, Touches

----------------------------------------------------------------------------
\* The other steps, and the theorem.

LEMMA MailRecovers ==
  ASSUME Shaped, CodeInv, WorkerTrue, MailInv, RecoveryInv, MailStep, UNCHANGED accountVars
  PROVE  Step
  <1>1. UNCHANGED <<users, CodeOwner, ValidCodes, SpentCodes>>
    BY DEF accountVars, CodeOwner, ValidCodes, SpentCodes, Key, Kind, Accepted, Done, At, Op
  <1>2. CASE arrived' = arrived
    BY <1>1, <1>2, NothingHappens DEF MailedCodes
  <1>3. ASSUME NEW i \in 1..Len(published), arrived' = Append(arrived, published[i])
        PROVE  Step
    <2> PICK f : f = published[i]
      OBVIOUS
    <2>1. Made(f) /\ Key(f) \in Keys /\ f \in Requests
      BY DEF RecoveryInv, PublishedMade, Made
    <2>2. CodeOwner[f] # <<NoUser, "none">>
      BY <2>1, OwnerIs, NamesAssumption DEF Key, Keys
    <2>3. MailedCodes' = MailedCodes \cup {f}
      <3>1. arrived \in Seq(Requests) /\ Len(arrived) \in Nat
        BY LenProperties DEF Shaped, TypeOK, MailTypeOK
      <3>2. /\ DOMAIN arrived = 1..Len(arrived) /\ DOMAIN arrived' = 1..(Len(arrived) + 1)
            /\ \A j \in 1..Len(arrived) : arrived'[j] = arrived[j]
            /\ arrived'[Len(arrived) + 1] = f
        BY <1>3, <2>1, <3>1
      <3>3. ASSUME NEW m
            PROVE  m \in MailedCodes' <=> m \in MailedCodes \/ m = f
        <4>1. 1..(Len(arrived) + 1) = (1..Len(arrived)) \cup {Len(arrived) + 1}
          BY <3>1
        <4>2. m \in MailedCodes' <=> \E j \in 1..(Len(arrived) + 1) : arrived'[j] = m
          BY <3>2 DEF MailedCodes
        <4>3. m \in MailedCodes <=> \E j \in 1..Len(arrived) : arrived[j] = m
          BY <3>2 DEF MailedCodes
        <4>4. QED  BY <3>2, <4>1, <4>2, <4>3
      <3>4. QED  BY <3>3
    <2>4. Safe!Post(f)
      BY <1>1, <2>2, <2>3 DEF Safe!Post
    <2>5. QED  BY <2>1, <2>4 DEF Step, Safe!Next
  <1>4. QED  BY <1>2, <1>3, Arrives DEF Shaped, TypeOK

LEMMA ReceiveRecovers ==
  ASSUME Shaped, NEW r \in Requests, Receive(r)
  PROVE  Step
  <1>1. \A f \in Requests : Accepted(f)' <=> Accepted(f)
    <2>1. ~Accepted(r)
      BY Receives DEF Accepted, Done
    <2>2. QED  BY <2>1, Receives DEF Accepted, Done, At, Kind
  <1>2. \A f \in Requests : Accepted(f) => Op(f)' = Op(f)
    <2>1. ~Accepted(r)
      BY Receives DEF Accepted, Done
    <2>2. QED  BY <2>1, Receives DEF Op
  <1>3. CodeOwner' = CodeOwner
    <2>1. ASSUME NEW f \in Requests
          PROVE  CodeOwner'[f] = CodeOwner[f]
      <3>1. CASE f # r
        BY <3>1, Receives DEF CodeOwner, Kind, Key
      <3>2. CASE f = r
        BY <3>2, Receives DEF CodeOwner, Kind, Key
      <3>3. QED  BY <3>1, <3>2
    <2>2. QED  BY <2>1 DEF CodeOwner
  <1>4. SpentCodes' = SpentCodes
    BY <1>1, <1>2, SameAccepted
  <1>5. QED  BY <1>3, <1>4, Receives, NothingHappens DEF ValidCodes, MailedCodes, mailVars

LEMMA CrashRecovers ==
  ASSUME Shaped, Crash
  PROVE  Step
  <1>1. ASSUME NEW f \in Requests, task[f] # New
        PROVE  /\ task'[f] = task[f] \/ (f \in Open /\ task'[f].pc = "crashed")
               /\ task'[f].op = task[f].op /\ task'[f].user = task[f].user
               /\ task'[f].email = task[f].email /\ task'[f] # New
    <2>1. task[f] \in Started
      BY <1>1, ShapedParts DEF RequestOK
    <2>2. CASE f \in Open
      <3>1. task'[f] = [task[f] EXCEPT !.pc = "crashed"]
        BY <2>2 DEF Crash
      <3>2. QED  BY <2>1, <2>2, <3>1 DEF Started, New
    <2>3. CASE f \notin Open
      BY <1>1, <2>3 DEF Crash
    <2>4. QED  BY <2>2, <2>3
  <1>2. ASSUME NEW f \in Requests, task[f] = New
        PROVE  task'[f] = New
    BY <1>2 DEF Crash, Open, New, Places
  <1>3. CodeOwner' = CodeOwner
    <2>1. ASSUME NEW f \in Requests
          PROVE  CodeOwner'[f] = CodeOwner[f]
      BY <1>1, <1>2 DEF CodeOwner, Kind, Key
    <2>2. QED  BY <2>1 DEF CodeOwner
  <1>4. SpentCodes' = SpentCodes
    <2>1. \A w \in Requests : Accepted(w)' <=> Accepted(w)
      BY <1>1, <1>2 DEF Accepted, Done, At, Kind, Open, Places
    <2>2. \A w \in Requests : Accepted(w) => Op(w)' = Op(w)
      BY <1>1 DEF Accepted, Done, Op
    <2>3. QED  BY <2>1, <2>2, SameAccepted
  <1>5. UNCHANGED <<users, ValidCodes, MailedCodes>>
    BY DEF Crash, ValidCodes, MailedCodes, mailVars
  <1>6. QED  BY <1>3, <1>4, <1>5, NothingHappens

LEMMA StepsRecover ==
  ASSUME Shaped, CodeInv, BackedInv, WorkerTrue, MailInv, RecoveryInv, [Next]_vars
  PROVE  Step
  <1>1. ASSUME task' = task
        PROVE  UNCHANGED <<CodeOwner, SpentCodes>>
    BY <1>1 DEF CodeOwner, SpentCodes, Key, Kind, Accepted, Done, At, Op
  <1>2. ASSUME NEW k \in Keys, ExpireCode(k)
        PROVE  Step
    <2>1. UNCHANGED <<users, CodeOwner, MailedCodes, SpentCodes>>
      BY <1>1, <1>2 DEF ExpireCode, MailedCodes, mailVars
    <2>2. ValidCodes' = ValidCodes \/ \E f \in Requests : ValidCodes' = ValidCodes \ {f}
      BY <1>2, ValidLapse DEF ExpireCode
    <2>3. CASE ValidCodes' = ValidCodes
      BY <2>1, <2>3, NothingHappens
    <2>4. ASSUME NEW f \in Requests, ValidCodes' = ValidCodes \ {f}
          PROVE  Step
      <3>1. Safe!Lapse(f)
        BY <2>1, <2>4 DEF Safe!Lapse
      <3>2. QED  BY <3>1 DEF Step, Safe!Next
    <2>5. QED  BY <2>2, <2>3, <2>4
  <1>3. CASE UNCHANGED <<users, codes, task, mailVars>>
    BY <1>1, <1>3, NothingHappens DEF ValidCodes, MailedCodes, mailVars
  <1>4. \A c \in Clients : ExpireCookie(c) => UNCHANGED <<users, codes, task, mailVars>>
    BY DEF ExpireCookie
  <1>5. UNCHANGED vars => UNCHANGED <<users, codes, task, mailVars>>
    BY DEF vars, accountVars
  <1>6. QED
    BY <1>2, <1>3, <1>4, <1>5, RequestSteps, ReceiveRecovers, CrashRecovers, MailRecovers
       DEF Next

LEMMA InitRecovers == Init => Safe!Init
  <1> SUFFICES ASSUME Init  PROVE Safe!Init
    OBVIOUS
  <1>1. ASSUME NEW u \in Users, users[u] # NoRow
        PROVE  Safe!Free(users[u].email, u) /\ users[u].password \notin Requests
    <2>1. users[u].password = OldPassword
      BY <1>1 DEF Init
    <2>2. Safe!Free(users[u].email, u)
      BY <1>1 DEF Init, Exists, Safe!Free
    <2>3. QED  BY <2>1, <2>2, NamesAssumption
  <1>2. CodeOwner = [f \in Requests |-> <<NoUser, "none">>]
    BY DEF Init, CodeOwner
  <1>3. ValidCodes = {}
    BY DEF Init, ValidCodes
  <1>4. MailedCodes = {}
    BY EmptySeq DEF Init, MailInit, MailedCodes
  <1>5. SpentCodes = {}
    BY DEF Init, SpentCodes, Accepted, Done
  <1>6. QED  BY <1>1, <1>2, <1>3, <1>4, <1>5 DEF Safe!Init

(* Requests, Redis, RabbitMQ, the mail worker and the cookies together are *)
(* a recovery: an account's password is changed only after a code drawn    *)
(* for that account was mailed to its address and accepted, and a code     *)
(* that was accepted or replaced never counts again, whatever overlaps,    *)
(* fails or crashes.                                                       *)
THEOREM AccountsImplementRecovery == Spec => ImplementsRecovery
  <1> DEFINE All == Shaped /\ CodeInv /\ BackedInv /\ WorkerTrue /\ MailInv /\ RecoveryInv
  <1>1. Init => All
    BY InitShaped, InitCodes, InitBacked, InitMail, InitRecovery DEF Init
  <1>2. All /\ [Next]_vars => All'
    <2> SUFFICES ASSUME All, [Next]_vars  PROVE All'
      OBVIOUS
    <2>1. Shaped' /\ CodeInv' /\ BackedInv' /\ RecoveryInv'
      BY NextShaped, CodeInvStep, BackedInvStep, RecoveryInvStep
    <2>2. WorkerTrue' /\ MailInv'
      BY MailSteps, MailStepInv DEF Shaped, TypeOK
    <2>3. QED  BY <2>1, <2>2
  <1>3. Init => Safe!Init
    BY InitRecovers
  <1>4. All /\ [Next]_vars => [Safe!Next]_(Safe!vars)
    BY StepsRecover DEF Step
  <1> HIDE DEF All
  <1>5. QED  BY <1>1, <1>2, <1>3, <1>4, PTL DEF Spec, ImplementsRecovery, Safe!Spec

=============================================================================
