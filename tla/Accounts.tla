---------------------------- MODULE Accounts ----------------------------
(***************************************************************************)
(* Accounts and their cookies: /users, /auth and the guards of             *)
(* dependencies/auth.py.  A request runs in a task of its own:             *)
(*                                                                         *)
(*   create, login, rename   one statement (rename: after its guard)       *)
(*   google                  find - insert                                 *)
(*   forget                  lookup - store - publish                      *)
(*   validate                verify - compare - delete                     *)
(*   update                  verify - write                                *)
(*                                                                         *)
(* The reset code of an account is kept in Redis under the account's id    *)
(* and e-mail address.  A code is named by the request that made it, a     *)
(* password by the request that set it: two random codes are taken to      *)
(* differ, and a password matches the hash of itself alone.                *)
(*                                                                         *)
(* A cookie holds a signed token, so a client has just the tokens it was   *)
(* given.  A reset token names its account, the address at that time, and  *)
(* whether the code was already validated (canUpdate).                     *)
(***************************************************************************)
EXTENDS Mail, FiniteSets

CONSTANTS Users,    \* ids of the users table
          Emails,
          Clients,  \* browsers
          MaxOpen   \* bound on the requests served at once

ASSUME MaxOpenAssumption == MaxOpen \in Nat \ {0}

VARIABLES users,   \* the users table
          codes,   \* the reset codes in Redis
          auth,    \* the "auth" cookie of each client
          reset,   \* the "auth_reset" cookie of each client
          task,    \* the requests
          expired,    \* history: codes that ran out
          overlapped  \* history: two requests were served at once

accountVars == <<users, codes, auth, reset, task, expired, overlapped>>
vars == <<accountVars, mailVars, faults>>

----------------------------------------------------------------------------
\* Values.

NoUser == "nobody"
NoToken == [user |-> NoUser]
NoRow == [email |-> "none"]
Wrong == "wrong code"
OldPassword == "old password"

ASSUME NamesAssumption ==
    /\ NoUser \notin Users
    /\ "none" \notin Emails
    /\ Wrong \notin Requests \cup {NoRequest}
    /\ OldPassword \notin Requests

Rows == [email : Emails, password : Requests \cup {OldPassword}]
Tokens == [user : Users, email : Emails, canUpdate : BOOLEAN, code : Requests]
Keys == Users \X Emails

Ops == [kind : {"forget", "rename", "create", "google", "login"}, email : Emails]
         \cup [kind : {"validate"}, code : Requests \cup {Wrong}]
         \cup [kind : {"update", "logout"}]

Exists(u) == users[u] # NoRow
Holder(email) == {u \in Users : users[u].email = email}
Taken(email) == Holder(email) # {}

New == [pc |-> "new"]
Places == {"find", "insert", "login", "lookup", "store", "publish", "verify",
           "compare", "delete", "write", "rename"}
Served == {"ok", "error"}
Open == {r \in Requests : task[r].pc \in Places}

Started ==
    [pc : Places \cup Served \cup {"crashed"}, client : Clients, op : Ops,
     auth : Users \cup {NoUser}, token : Tokens \cup {NoToken},
     user : Users \cup {NoUser}, email : Emails \cup {"none"}]
Tasks == {New} \cup Started

TypeOK ==
    /\ MailTypeOK
    /\ faults \in 0..MaxFaults
    /\ users \in [Users -> Rows \cup {NoRow}]
    /\ codes \in [Keys -> Requests \cup {NoRequest}]
    /\ auth \in [Clients -> Users \cup {NoUser}]
    /\ reset \in [Clients -> Tokens \cup {NoToken}]
    /\ task \in [Requests -> Tasks]
    /\ expired \subseteq Requests
    /\ overlapped \in BOOLEAN
    /\ \A u, v \in Users : Exists(u) /\ users[u].email = users[v].email => u = v

(* Some accounts are there, and some clients are logged in. *)
Init ==
    /\ MailInit
    /\ faults = 0
    /\ users \in [Users -> [email : Emails, password : {OldPassword}] \cup {NoRow}]
    /\ \A u, v \in Users : Exists(u) /\ users[u].email = users[v].email => u = v
    /\ codes = [k \in Keys |-> NoRequest]
    /\ auth \in [Clients -> {u \in Users : Exists(u)} \cup {NoUser}]
    /\ reset = [c \in Clients |-> NoToken]
    /\ task = [r \in Requests |-> New]
    /\ expired = {}
    /\ overlapped = FALSE

----------------------------------------------------------------------------
\* Building blocks.

At(r, place) == task[r].pc = place
Op(r) == task[r].op
Kind(r) == task[r].op.kind
Client(r) == task[r].client
User(r) == task[r].user
Key(r) == <<task[r].user, task[r].email>>

Become(r, t) == task' = [task EXCEPT ![r] = t]
Go(r, place) == Become(r, [task[r] EXCEPT !.pc = place])

(* The request goes on with the row of user u. *)
GoWith(r, place, u) ==
    Become(r, [task[r] EXCEPT !.pc = place, !.user = u, !.email = users[u].email])

(* The answer, and the cookies it sets. *)
Refuse(r) == Go(r, "error") /\ UNCHANGED <<auth, reset>>
Accept(r) == Go(r, "ok") /\ UNCHANGED <<auth, reset>>
LogIn(r, u) ==
    /\ Become(r, [task[r] EXCEPT !.pc = "ok", !.user = u])
    /\ auth' = [auth EXCEPT ![Client(r)] = u]
    /\ UNCHANGED reset
GiveToken(r, canUpdate, code) ==
    /\ Go(r, "ok")
    /\ reset' = [reset EXCEPT ![Client(r)] =
          [user |-> User(r), email |-> task[r].email,
           canUpdate |-> canUpdate, code |-> code]]
    /\ UNCHANGED auth

SetCode(r, value) == codes' = [codes EXCEPT ![Key(r)] = value]
SetPassword(r) == users' = [users EXCEPT ![User(r)].password = r]

(* The addresses of users are UNIQUE. *)
SetEmail(r) ==
    /\ Holder(Op(r).email) \subseteq {User(r)}
    /\ users' = [users EXCEPT ![User(r)].email = Op(r).email]

(* Faulty variant: no constraint stops a second account at an address.     *)
FaultyInsert(r, u) ==
    /\ ~Exists(u)
    /\ users' = [users EXCEPT ![u] = [email |-> Op(r).email, password |-> r]]

(* A new account gets an id nobody has. *)
Insert(r, u) ==
    /\ ~Taken(Op(r).email)
    /\ ~Exists(u)
    /\ users' = [users EXCEPT ![u] = [email |-> Op(r).email, password |-> r]]

(* Requests that may insert a row; there is a free id for each. *)
Creators == {r \in Open : Kind(r) \in {"create", "google"}}
RoomFor(op) ==
    op.kind \in {"create", "google"} =>
        Cardinality(Creators) < Cardinality({u \in Users : ~Exists(u)})

FirstPlace(kind) ==
    CASE kind = "forget" -> "lookup"
      [] kind \in {"validate", "update", "rename"} -> "verify"
      [] kind = "google" -> "find"
      [] kind = "create" -> "insert"
      [] kind = "login" -> "login"
      [] kind = "logout" -> "ok"

historyVars == <<expired, overlapped>>

----------------------------------------------------------------------------
\* Requests.

(* A request arrives with the cookies its client has just then.  A code    *)
(* the client types is one of a mail that arrived, or a wrong one.  logout *)
(* has nothing to await and clears both cookies at once.                   *)
Receive(r) ==
    /\ task[r] = New
    /\ Cardinality(Open) < MaxOpen
    /\ overlapped' = (overlapped \/ Open # {})
    /\ \E c \in Clients, op \in Ops :
          /\ RoomFor(op)
          /\ op.kind = "validate" =>
                op.code = Wrong \/ \E i \in DOMAIN arrived : arrived[i] = op.code
          /\ Become(r, [pc |-> FirstPlace(op.kind), client |-> c, op |-> op,
                        auth |-> auth[c], token |-> reset[c],
                        user |-> NoUser, email |-> "none"])
          /\ IF op.kind = "logout"
             THEN /\ auth' = [auth EXCEPT ![c] = NoUser]
                  /\ reset' = [reset EXCEPT ![c] = NoToken]
             ELSE UNCHANGED <<auth, reset>>
    /\ UNCHANGED <<users, codes, expired, mailVars, faults>>

(* user_service.create: "Email already registered", or a new account. *)
Create(r) ==
    /\ At(r, "insert") /\ Kind(r) = "create"
    /\ \/ Taken(Op(r).email) /\ Refuse(r) /\ UNCHANGED users
       \/ Accept(r) /\ \E u \in Users : Insert(r, u)
    /\ UNCHANGED <<codes, historyVars, mailVars, faults>>

(* login: the row, and whether the password typed is its password. *)
Login(r) ==
    /\ At(r, "login")
    /\ \/ Refuse(r)
       \/ \E u \in Holder(Op(r).email) : LogIn(r, u)
    /\ UNCHANGED <<users, codes, historyVars, mailVars, faults>>

(* google_login: Google vouches for the address. *)
GoogleFind(r) ==
    /\ At(r, "find")
    /\ \/ \E u \in Holder(Op(r).email) : LogIn(r, u)
       \/ ~Taken(Op(r).email) /\ Go(r, "insert") /\ UNCHANGED <<auth, reset>>
    /\ UNCHANGED <<users, codes, historyVars, mailVars, faults>>

(* The INSERT of a first login, which another one may have overtaken.      *)
GoogleInsert(r) ==
    /\ At(r, "insert") /\ Kind(r) = "google"
    /\ \/ Taken(Op(r).email) /\ Refuse(r) /\ UNCHANGED users
       \/ \E u \in Users : Insert(r, u) /\ LogIn(r, u)
    /\ UNCHANGED <<codes, historyVars, mailVars, faults>>

(* forget_password *)
Lookup(r) ==
    /\ At(r, "lookup")
    /\ \/ \E u \in Holder(Op(r).email) : GoWith(r, "store", u)
       \/ ~Taken(Op(r).email) /\ Go(r, "error")
    /\ UNCHANGED <<users, codes, auth, reset, historyVars, mailVars, faults>>

(* Faulty variant: a code that is still there is kept.                     *)
FaultyStore(r) ==
    /\ At(r, "store")
    /\ IF codes[Key(r)] = NoRequest THEN SetCode(r, r) ELSE UNCHANGED codes
    /\ Go(r, "publish")
    /\ UNCHANGED <<users, auth, reset, historyVars, mailVars, faults>>

(* SETEX: a new code takes the place of the old one. *)
Store(r) ==
    /\ At(r, "store")
    /\ SetCode(r, r)
    /\ Go(r, "publish")
    /\ UNCHANGED <<users, auth, reset, historyVars, mailVars, faults>>

Publish(r) ==
    /\ At(r, "publish")
    /\ Enqueue(r)
    /\ GiveToken(r, FALSE, r)
    /\ UNCHANGED <<users, codes, historyVars, faults>>

(* Faulty variant: the stage of a reset token is not looked at.            *)
FaultyAdmits(r) ==
    CASE Kind(r) = "rename"   -> task[r].auth # NoUser
      [] Kind(r) = "validate" -> task[r].token # NoToken
      [] Kind(r) = "update"   -> task[r].token # NoToken

(* validate_token: what each guard asks of the cookies. *)
Admits(r) ==
    CASE Kind(r) = "rename"   -> task[r].auth # NoUser
      [] Kind(r) = "validate" -> task[r].token # NoToken /\ ~task[r].token.canUpdate
      [] Kind(r) = "update"   -> task[r].token # NoToken /\ task[r].token.canUpdate

AdmittedUser(r) == IF Kind(r) = "rename" THEN task[r].auth ELSE task[r].token.user
NextPlace(kind) ==
    CASE kind = "validate" -> "compare"
      [] kind = "update"   -> "write"
      [] kind = "rename"   -> "rename"

(* Faulty variant: the request goes on with the address of its token.      *)
FaultyVerify(r) ==
    /\ At(r, "verify")
    /\ \/ /\ Admits(r)
          /\ Become(r, [task[r] EXCEPT !.pc = NextPlace(Kind(r)),
                !.user = AdmittedUser(r),
                !.email = IF Kind(r) = "rename" THEN users[AdmittedUser(r)].email
                          ELSE task[r].token.email])
       \/ ~Admits(r) /\ Go(r, "error")
    /\ UNCHANGED <<users, codes, auth, reset, historyVars, mailVars, faults>>

(* verify_token reads the account's row: from here on the request has the  *)
(* address of this moment, not the one in its token.                       *)
Verify(r) ==
    /\ At(r, "verify")
    /\ \/ Admits(r) /\ GoWith(r, NextPlace(Kind(r)), AdmittedUser(r))
       \/ ~Admits(r) /\ Go(r, "error")
    /\ UNCHANGED <<users, codes, auth, reset, historyVars, mailVars, faults>>

(* validate_reset_code *)
Compare(r) ==
    /\ At(r, "compare")
    /\ IF codes[Key(r)] = Op(r).code THEN Go(r, "delete") ELSE Go(r, "error")
    /\ UNCHANGED <<users, codes, auth, reset, historyVars, mailVars, faults>>

(* Faulty variant: the code is left to run out.                            *)
FaultyDelete(r) ==
    /\ At(r, "delete")
    /\ GiveToken(r, TRUE, Op(r).code)
    /\ UNCHANGED <<users, codes, historyVars, mailVars, faults>>

Delete(r) ==
    /\ At(r, "delete")
    /\ SetCode(r, NoRequest)
    /\ GiveToken(r, TRUE, Op(r).code)
    /\ UNCHANGED <<users, historyVars, mailVars, faults>>

(* update_password_after_reset *)
Write(r) ==
    /\ At(r, "write")
    /\ SetPassword(r)
    /\ Go(r, "ok")
    /\ reset' = [reset EXCEPT ![Client(r)] = NoToken]
    /\ UNCHANGED <<codes, auth, historyVars, mailVars, faults>>

(* update_me: "Email already in use", or the new address. *)
Rename(r) ==
    /\ At(r, "rename")
    /\ \/ SetEmail(r) /\ Accept(r)
       \/ Taken(Op(r).email) /\ User(r) \notin Holder(Op(r).email) /\ Refuse(r) /\ UNCHANGED users
    /\ UNCHANGED <<codes, historyVars, mailVars, faults>>

----------------------------------------------------------------------------
\* Failing calls, time and crashes.

(* A call raises, its command executed or not: "Internal server error". *)
CallFails(r) ==
    /\ r \in Open
    /\ Fault
    /\ Refuse(r)
    /\ \/ UNCHANGED <<users, codes, mailVars>>
       \/ At(r, "store") /\ SetCode(r, r) /\ UNCHANGED <<users, mailVars>>
       \/ At(r, "delete") /\ SetCode(r, NoRequest) /\ UNCHANGED <<users, mailVars>>
       \/ At(r, "publish") /\ Enqueue(r) /\ UNCHANGED <<users, codes>>
       \/ /\ \/ At(r, "write") /\ SetPassword(r)
             \/ At(r, "rename") /\ SetEmail(r)
             \/ At(r, "insert") /\ \E u \in Users : Insert(r, u)
          /\ UNCHANGED <<codes, mailVars>>
    /\ UNCHANGED historyVars

(* The TTL of a code, RESET_CODE_REDIS_TTL, runs out. *)
ExpireCode(k) ==
    /\ codes[k] # NoRequest
    /\ codes' = [codes EXCEPT ![k] = NoRequest]
    /\ expired' = expired \cup {codes[k]}
    /\ UNCHANGED <<users, auth, reset, task, overlapped, mailVars, faults>>

(* The browser drops a cookie, whose token ends with it. *)
ExpireCookie(c) ==
    /\ \/ /\ auth[c] # NoUser
          /\ auth' = [auth EXCEPT ![c] = NoUser]
          /\ UNCHANGED reset
       \/ /\ reset[c] # NoToken
          /\ reset' = [reset EXCEPT ![c] = NoToken]
          /\ UNCHANGED auth
    /\ UNCHANGED <<users, codes, task, historyVars, mailVars, faults>>

(* The API process dies with the requests it is serving. *)
Crash ==
    /\ Open # {}
    /\ Fault
    /\ task' = [r \in Requests |->
                    IF r \in Open THEN [task[r] EXCEPT !.pc = "crashed"] ELSE task[r]]
    /\ UNCHANGED <<users, codes, auth, reset, historyVars, mailVars>>

RequestStep(r) ==
    \/ Create(r) \/ Login(r) \/ GoogleFind(r) \/ GoogleInsert(r)
    \/ Lookup(r) \/ Store(r) \/ Publish(r)
    \/ Verify(r) \/ Compare(r) \/ Delete(r) \/ Write(r) \/ Rename(r)

Next ==
    \/ \E r \in Requests : Receive(r) \/ RequestStep(r) \/ CallFails(r)
    \/ \E k \in Keys : ExpireCode(k)
    \/ \E c \in Clients : ExpireCookie(c)
    \/ Crash
    \/ MailStep /\ UNCHANGED accountVars

Spec == Init /\ [][Next]_vars

(* The worker runs until the queue is empty, and Docker starts it again;   *)
(* the mail server answers or closes the connection, for _send_smtp sets   *)
(* no timeout of its own.                                                  *)
FairSpec == Spec /\ WF_vars(WorkerStep /\ UNCHANGED <<accountVars, faults>>)

----------------------------------------------------------------------------
\* Properties.

Done(r, kind) == task[r] # New /\ Kind(r) = kind /\ At(r, "ok")
Accepted(v) == Done(v, "validate")

(* A reset code counts at the address its mail went to, and for the        *)
(* account it was made for: once the account has another address, the mail *)
(* is worth nothing (verify_token reads the row, and the key of the code   *)
(* has the address in it).  A rename served at the same time may still     *)
(* slip in between the guard and the comparison.                           *)
CodeAtAddress ==
    [][\A v \in Requests :
          Accepted(v)' /\ ~Accepted(v) =>
              LET f == Op(v).code
              IN  /\ f \in Requests /\ Kind(f) = "forget"
                  /\ User(f) = User(v) /\ Op(f).email = task[v].email
                  /\ ~overlapped => users[User(v)].email = Op(f).email]_vars

(* Nobody's password is reset without a code of that account having been   *)
(* validated first: a reset token of the first stage is not enough.        *)
ChangeBacked ==
    \A u \in Users : \A r \in Requests :
        Exists(u) /\ users[u].password = r /\ Kind(r) = "update" =>
            \E v \in Requests : Accepted(v) /\ User(v) = u /\ User(Op(v).code) = u

(* A code that was accepted is gone for good, even when a second request   *)
(* with it, another mail or a failure runs into the validation.            *)
CodeSpent ==
    \A v \in Requests : Accepted(v) => \A k \in Keys : codes[k] # Op(v).code

(* The whole promise to the owner of an account at once: the requests, the *)
(* codes in Redis, the mails and the cookies are a recovery in which only  *)
(* a code that was mailed for the account and accepted opens its password. *)
CodeOwner ==
    [f \in Requests |-> IF task[f] # New /\ Kind(f) = "forget" THEN Key(f)
                        ELSE <<NoUser, "none">>]
ValidCodes == {codes[k] : k \in Keys} \ {NoRequest}
MailedCodes == {arrived[i] : i \in DOMAIN arrived}
SpentCodes == {Op(v).code : v \in {w \in Requests : Accepted(w)}}
Safe == INSTANCE Recovery WITH
            Nobody <- <<NoUser, "none">>,
            owner  <- CodeOwner,
            valid  <- ValidCodes,
            mailed <- MailedCodes,
            spent  <- SpentCodes
ImplementsRecovery == Safe!Spec

(* The code in the newest mail to an address is the one that works, until  *)
(* it is used or runs out, however many were asked for.                    *)
NewestMailWorks ==
    ~overlapped /\ faults = 0 /\ Open = {} =>
        \A i \in DOMAIN published :
            LET f == published[i]
            IN  \/ codes[Key(f)] = f
                \/ f \in expired
                \/ \E v \in Requests : Accepted(v) /\ Op(v).code = f
                \/ \E j \in DOMAIN published : i < j /\ Key(published[j]) = Key(f)

=============================================================================
