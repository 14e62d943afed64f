-------------------------- MODULE Accounts_proofs --------------------------
(***************************************************************************)
(* Theorems of Accounts and of the mails it sends, for any number of       *)
(* requests, accounts, addresses, browsers, requests served at once and    *)
(* failures.                                                               *)
(***************************************************************************)
EXTENDS Accounts, Mail_proofs

AllPlaces == Places \cup Served \cup {"crashed"}

----------------------------------------------------------------------------
\* Types, and what a request has learned by the time it is where it is.

(* The places a request of each kind can be at, and whose row it has. *)
Control(r) ==
    /\ At(r, "find") => Kind(r) = "google"
    /\ At(r, "insert") => Kind(r) \in {"create", "google"}
    /\ At(r, "login") => Kind(r) = "login"
    /\ task[r].pc \in {"lookup", "store", "publish"} => Kind(r) = "forget"
    /\ At(r, "verify") => Kind(r) \in {"validate", "update", "rename"}
    /\ task[r].pc \in {"compare", "delete"} => Kind(r) = "validate"
    /\ At(r, "delete") => Op(r).code \in Requests
    /\ At(r, "write") => Kind(r) = "update"
    /\ At(r, "rename") => Kind(r) = "rename"
    /\ task[r].pc \in {"store", "publish", "compare", "delete", "write", "rename"} =>
          User(r) \in Users /\ task[r].email \in Emails

(* Cookies, tokens and requests name accounts that are there. *)
Known(u) == u = NoUser \/ Exists(u)
NamesExist ==
    /\ \A c \in Clients : Known(auth[c]) /\ Known(reset[c].user)
    /\ \A r \in Requests : task[r] # New =>
          Known(task[r].auth) /\ Known(task[r].token.user) /\ Known(task[r].user)

Shaped == TypeOK /\ NamesExist /\ \A r \in Requests : Control(r)

(* An account stays. *)
AccountsStay == \A u \in Users : Exists(u) => Exists(u)'

LEMMA NewTask ==
  ASSUME NEW t \in Tasks
  PROVE  /\ t.pc = "new" <=> t = New
         /\ t # New => t \in Started
         /\ New \notin Started
  BY DEF Tasks, Started, New, Places, Served

LEMMA TokenFacts ==
  /\ NoToken.user = NoUser
  /\ \A t \in Tokens : t # NoToken /\ t.user \in Users
  BY NamesAssumption DEF NoToken, Tokens, NoUser

LEMMA RowFacts ==
  /\ NoRow.email \notin Emails
  /\ \A row \in Rows : row # NoRow /\ row.email \in Emails
  BY NamesAssumption DEF NoRow, Rows

(* A place that is not the last is one of a request that was received. *)
LEMMA AtFacts ==
  ASSUME TypeOK, NEW r \in Requests, task[r].pc # "new"
  PROVE  /\ task[r] \in Started
         /\ task[r].client \in Clients
         /\ Op(r) \in Ops
         /\ task[r].auth \in Users \cup {NoUser}
         /\ task[r].token \in Tokens \cup {NoToken}
         /\ User(r) \in Users \cup {NoUser}
         /\ task[r].email \in Emails \cup {"none"}
         /\ Kind(r) \in {"forget", "rename", "create", "google", "login"} => Op(r).email \in Emails
         /\ Kind(r) = "validate" => Op(r).code \in Requests \cup {Wrong}
  <1>1. task[r] \in Started
    BY NewTask DEF TypeOK, New
  <1>2. Op(r) \in Ops
    BY <1>1 DEF Started, Op
  <1>3. /\ Kind(r) \in {"forget", "rename", "create", "google", "login"} => Op(r).email \in Emails
        /\ Kind(r) = "validate" => Op(r).code \in Requests \cup {Wrong}
    BY <1>2 DEF Ops, Kind, Op
  <1>4. QED  BY <1>1, <1>2, <1>3 DEF Started, User

(* A request goes on. *)
LEMMA BecomeType ==
  ASSUME TypeOK, NEW r \in Requests, NEW t \in Started, Become(r, t)
  PROVE  /\ task' \in [Requests -> Tasks]
         /\ task'[r] = t
         /\ \A q \in Requests \ {r} : task'[q] = task[q]
  BY DEF TypeOK, Become, Tasks

LEMMA GoType ==
  ASSUME TypeOK, NEW r \in Requests, task[r].pc # "new", NEW place \in AllPlaces, Go(r, place)
  PROVE  /\ task' \in [Requests -> Tasks]
         /\ task'[r] = [task[r] EXCEPT !.pc = place]
         /\ task'[r] \in Started
         /\ \A q \in Requests \ {r} : task'[q] = task[q]
  <1>1. [task[r] EXCEPT !.pc = place] \in Started
    BY AtFacts DEF Started, AllPlaces
  <1>2. QED  BY <1>1, BecomeType DEF Go

LEMMA GoWithType ==
  ASSUME TypeOK, NEW r \in Requests, task[r].pc # "new", NEW place \in AllPlaces,
         NEW u \in Users, Exists(u), GoWith(r, place, u)
  PROVE  /\ task' \in [Requests -> Tasks]
         /\ task'[r] = [task[r] EXCEPT !.pc = place, !.user = u, !.email = users[u].email]
         /\ task'[r] \in Started
         /\ users[u].email \in Emails
         /\ \A q \in Requests \ {r} : task'[q] = task[q]
  <1>1. users[u].email \in Emails
    BY RowFacts DEF TypeOK, Exists
  <1>2. [task[r] EXCEPT !.pc = place, !.user = u, !.email = users[u].email] \in Started
    BY <1>1, AtFacts DEF Started, AllPlaces
  <1>3. QED  BY <1>1, <1>2, BecomeType DEF GoWith

LEMMA LogInType ==
  ASSUME TypeOK, NEW r \in Requests, task[r].pc # "new", NEW u \in Users, LogIn(r, u)
  PROVE  /\ task' \in [Requests -> Tasks]
         /\ task'[r] = [task[r] EXCEPT !.pc = "ok", !.user = u]
         /\ task'[r] \in Started
         /\ \A q \in Requests \ {r} : task'[q] = task[q]
         /\ auth' \in [Clients -> Users \cup {NoUser}]
         /\ \A c \in Clients : auth'[c] = auth[c] \/ auth'[c] = u
         /\ reset' = reset
  <1>1. [task[r] EXCEPT !.pc = "ok", !.user = u] \in Started
    BY AtFacts DEF Started, Served
  <1>2. QED  BY <1>1, BecomeType DEF LogIn, TypeOK


----------------------------------------------------------------------------
\* The users table.

(* No address belongs to two accounts. *)
AddressesUnique == \A u, v \in Users : Exists(u) /\ users[u].email = users[v].email => u = v
UsersOK == users \in [Users -> Rows \cup {NoRow}] /\ AddressesUnique

LEMMA PasswordSet ==
  ASSUME TypeOK, NEW r \in Requests, User(r) \in Users, Exists(User(r)), SetPassword(r)
  PROVE  UsersOK' /\ AccountsStay
  <1> PICK x \in Users : x = User(r)
    OBVIOUS
  <1>1. users' = [users EXCEPT ![x] = [users[x] EXCEPT !.password = r]]
    BY DEF SetPassword
  <1>2. users[x] \in Rows
    BY DEF TypeOK, Exists
  <1>3. /\ [users[x] EXCEPT !.password = r] \in Rows
        /\ [users[x] EXCEPT !.password = r].email = users[x].email
    BY <1>2 DEF Rows
  <1>4. \A u \in Users : users'[u].email = users[u].email /\ (Exists(u)' <=> Exists(u))
    <2> TAKE u \in Users
    <2>1. CASE u = x
      BY <2>1, <1>1, <1>3, RowFacts DEF TypeOK, Exists
    <2>2. CASE u # x
      BY <2>2, <1>1 DEF TypeOK, Exists
    <2>3. QED  BY <2>1, <2>2
  <1>5. QED
    BY <1>1, <1>3, <1>4 DEF UsersOK, AddressesUnique, AccountsStay, TypeOK

LEMMA EmailSet ==
  ASSUME TypeOK, NEW r \in Requests, User(r) \in Users, Exists(User(r)),
         Op(r).email \in Emails, SetEmail(r)
  PROVE  UsersOK' /\ AccountsStay
  <1> PICK x \in Users : x = User(r)
    OBVIOUS
  <1> PICK e \in Emails : e = Op(r).email
    OBVIOUS
  <1>1. users' = [users EXCEPT ![x] = [users[x] EXCEPT !.email = e]]
    BY DEF SetEmail
  <1>2. users[x] \in Rows
    BY DEF TypeOK, Exists
  <1>3. /\ [users[x] EXCEPT !.email = e] \in Rows
        /\ [users[x] EXCEPT !.email = e].email = e
    BY <1>2 DEF Rows
  <1>4. \A u \in Users : u # x => users[u].email # e
    BY DEF SetEmail, Holder
  <1>5. /\ users'[x].email = e /\ Exists(x)'
        /\ \A u \in Users : u # x => users'[u] = users[u]
    BY <1>1, <1>3, RowFacts DEF TypeOK, Exists
  <1>6. users' \in [Users -> Rows \cup {NoRow}]
    BY <1>1, <1>3 DEF TypeOK
  <1>7. AddressesUnique'
    BY <1>4, <1>5 DEF AddressesUnique, TypeOK, Exists
  <1>8. QED  BY <1>5, <1>6, <1>7 DEF UsersOK, AccountsStay, Exists

LEMMA RowInserted ==
  ASSUME TypeOK, NEW r \in Requests, Op(r).email \in Emails, NEW x \in Users, Insert(r, x)
  PROVE  UsersOK' /\ AccountsStay /\ Exists(x)'
  <1> DEFINE row == [email |-> Op(r).email, password |-> r]
  <1>1. users' = [users EXCEPT ![x] = row]
    BY DEF Insert
  <1>2. row \in Rows /\ row # NoRow /\ row.email = Op(r).email
    BY RowFacts DEF Rows
  <1>3. \A u \in Users : users[u].email # Op(r).email
    BY DEF Insert, Taken, Holder
  <1>4. /\ users'[x] = row /\ Exists(x)'
        /\ \A u \in Users : u # x => users'[u] = users[u]
    BY <1>1, <1>2 DEF TypeOK, Exists
  <1>5. users' \in [Users -> Rows \cup {NoRow}]
    BY <1>1, <1>2 DEF TypeOK
  <1>6. AddressesUnique'
    BY <1>2, <1>3, <1>4 DEF AddressesUnique, TypeOK, Exists
  <1>7. QED  BY <1>4, <1>5, <1>6 DEF UsersOK, AccountsStay, Exists

LEMMA UsersSame ==
  ASSUME TypeOK, UNCHANGED users
  PROVE  UsersOK' /\ AccountsStay
  BY DEF TypeOK, UsersOK, AddressesUnique, AccountsStay, Exists

----------------------------------------------------------------------------
\* The invariant of the API.

CookiesOK ==
    /\ auth \in [Clients -> Users \cup {NoUser}]
    /\ reset \in [Clients -> Tokens \cup {NoToken}]
    /\ \A c \in Clients : Known(auth[c]) /\ Known(reset[c].user)
RestOK ==
    /\ MailTypeOK
    /\ faults \in 0..MaxFaults
    /\ codes \in [Keys -> Requests \cup {NoRequest}]
    /\ expired \subseteq Requests
    /\ overlapped \in BOOLEAN
RequestOK(r) ==
    /\ task[r] \in Started
    /\ Known(task[r].auth) /\ Known(task[r].token.user) /\ Known(task[r].user)
    /\ Control(r)

LEMMA ShapedParts ==
  Shaped <=> /\ UsersOK /\ CookiesOK /\ RestOK /\ task \in [Requests -> Tasks]
             /\ \A r \in Requests : task[r] # New => RequestOK(r)
  <1>1. ASSUME task \in [Requests -> Tasks], NEW r \in Requests
        PROVE  /\ task[r] # New => task[r] \in Started
               /\ task[r] = New => Control(r)
    BY <1>1, NewTask DEF Control, At, New
  <1>2. QED
    BY <1>1 DEF Shaped, TypeOK, NamesExist, UsersOK, AddressesUnique, CookiesOK, RestOK, RequestOK

LEMMA ShapedNext ==
  ASSUME UsersOK', CookiesOK', RestOK', task' \in [Requests -> Tasks],
         \A r \in Requests : task'[r] # New => RequestOK(r)'
  PROVE  Shaped'
  <1>1. ASSUME NEW r \in Requests, task'[r] = New
        PROVE  Control(r)'
    BY <1>1, NewTask DEF Control, At, New
  <1>2. QED
    BY <1>1 DEF Shaped, TypeOK, NamesExist, UsersOK, AddressesUnique, CookiesOK, RestOK, RequestOK

(* A name that meant an account means one still. *)
LEMMA StillKnown ==
  ASSUME AccountsStay, NEW u \in Users \cup {NoUser}, Known(u)
  PROVE  u = NoUser \/ Exists(u)'
  BY DEF AccountsStay, Known

LEMMA KnownType ==
  ASSUME Shaped
  PROVE  /\ \A c \in Clients : reset[c].user \in Users \cup {NoUser}
         /\ \A r \in Requests : task[r].pc # "new" =>
               /\ task[r].token.user \in Users \cup {NoUser}
               /\ RequestOK(r)
  <1>1. \A t \in Tokens \cup {NoToken} : t.user \in Users \cup {NoUser}
    BY TokenFacts
  <1>2. ASSUME NEW r \in Requests, task[r].pc # "new"
        PROVE  task[r].token.user \in Users \cup {NoUser} /\ RequestOK(r)
    <2>1. task[r].token \in Tokens \cup {NoToken}
      BY <1>2, AtFacts DEF Shaped
    <2>2. task[r] # New
      BY <1>2 DEF New
    <2>3. QED  BY <1>1, <2>1, <2>2, ShapedParts
  <1>3. QED  BY <1>1, <1>2 DEF Shaped, TypeOK

LEMMA CookiesSame ==
  ASSUME Shaped, AccountsStay, UNCHANGED <<auth, reset>>
  PROVE  CookiesOK'
  BY ShapedParts, StillKnown, KnownType DEF CookiesOK, Known

(* It is enough to look at the request that takes the step. *)
LEMMA OthersShaped ==
  ASSUME Shaped, NEW r \in Requests, task' \in [Requests -> Tasks],
         \A q \in Requests \ {r} : task'[q] = task[q],
         AccountsStay, UsersOK', CookiesOK', RestOK', RequestOK(r)'
  PROVE  Shaped'
  <1>1. ASSUME NEW q \in Requests \ {r}, task[q] # New
        PROVE  RequestOK(q)'
    <2>1. task'[q] = task[q] /\ RequestOK(q)
      BY <1>1, ShapedParts
    <2>2. /\ task[q].auth \in Users \cup {NoUser}
          /\ task[q].token.user \in Users \cup {NoUser}
          /\ task[q].user \in Users \cup {NoUser}
      BY <2>1, TokenFacts DEF RequestOK, Started
    <2>3. QED
      BY <2>1, <2>2, StillKnown DEF RequestOK, Known, Control, At, Kind, Op, User
  <1>2. \A q \in Requests : task'[q] # New => RequestOK(q)'
    BY <1>1
  <1>3. QED  BY <1>2, ShapedNext

(* A request only changes its place. *)
LEMMA MovedOK ==
  ASSUME Shaped, NEW r \in Requests, task[r].pc # "new", NEW place \in AllPlaces,
         Go(r, place), AccountsStay,
         Control(r)'
  PROVE  RequestOK(r)'
  <1>1. /\ RequestOK(r)
        /\ task[r].auth \in Users \cup {NoUser}
        /\ task[r].token.user \in Users \cup {NoUser}
        /\ task[r].user \in Users \cup {NoUser}
    BY KnownType, AtFacts DEF Shaped, User
  <1>2. task'[r] = [task[r] EXCEPT !.pc = place] /\ task'[r] \in Started
    BY GoType DEF Shaped
  <1>3. /\ task'[r].auth = task[r].auth /\ task'[r].token = task[r].token
        /\ task'[r].user = task[r].user
    BY <1>1, <1>2 DEF RequestOK, Started
  <1>4. QED  BY <1>1, <1>2, <1>3, StillKnown DEF RequestOK, Known

(* A request ends, which asks for nothing more of it. *)
LEMMA Ended ==
  ASSUME Shaped, NEW r \in Requests, task[r].pc # "new", NEW place \in Served \cup {"crashed"},
         Go(r, place), AccountsStay, UsersOK', CookiesOK', RestOK'
  PROVE  Shaped'
  <1>1. place \in AllPlaces
    BY DEF AllPlaces
  <1>2. /\ task'[r] = [task[r] EXCEPT !.pc = place]
        /\ task' \in [Requests -> Tasks]
        /\ \A q \in Requests \ {r} : task'[q] = task[q]
    BY <1>1, GoType DEF Shaped
  <1>3. task'[r].pc = place
    BY <1>2, AtFacts DEF Started, Shaped
  <1>4. Control(r)'
    BY <1>3 DEF Control, At, Served
  <1>5. QED  BY <1>1, <1>2, <1>4, MovedOK, OthersShaped

(* A request goes on with the row of a user. *)
LEMMA GoneOnWith ==
  ASSUME Shaped, NEW r \in Requests, task[r].pc # "new",
         NEW place \in AllPlaces, NEW u \in Users, Exists(u), GoWith(r, place, u),
         Control(r)', AccountsStay, UsersOK', CookiesOK', RestOK'
  PROVE  Shaped'
  <1>1. /\ task' \in [Requests -> Tasks]
        /\ task'[r] = [task[r] EXCEPT !.pc = place, !.user = u, !.email = users[u].email]
        /\ task'[r] \in Started
        /\ \A q \in Requests \ {r} : task'[q] = task[q]
    BY GoWithType DEF Shaped
  <1>2. /\ task'[r].auth = task[r].auth /\ task'[r].token = task[r].token
        /\ task'[r].user = u
    BY <1>1, AtFacts DEF Started, Shaped
  <1>3. /\ Known(task[r].auth) /\ Known(task[r].token.user)
        /\ task[r].auth \in Users \cup {NoUser}
        /\ task[r].token.user \in Users \cup {NoUser}
    BY KnownType, AtFacts DEF RequestOK, Shaped
  <1>4. RequestOK(r)'
    BY <1>1, <1>2, <1>3, StillKnown DEF RequestOK, Known, AccountsStay
  <1>5. QED  BY <1>1, <1>4, OthersShaped

(* A client is logged in as an account that is there. *)
LEMMA LoggedIn ==
  ASSUME Shaped, NEW r \in Requests, task[r].pc # "new", NEW u \in Users, LogIn(r, u),
         Exists(u)', AccountsStay, UsersOK', RestOK'
  PROVE  Shaped'
  <1>1. /\ task' \in [Requests -> Tasks]
        /\ task'[r] = [task[r] EXCEPT !.pc = "ok", !.user = u]
        /\ task'[r] \in Started
        /\ \A q \in Requests \ {r} : task'[q] = task[q]
        /\ auth' \in [Clients -> Users \cup {NoUser}]
        /\ \A c \in Clients : auth'[c] = auth[c] \/ auth'[c] = u
        /\ reset' = reset
    BY LogInType DEF Shaped
  <1>2. /\ task'[r].auth = task[r].auth /\ task'[r].token = task[r].token
        /\ task'[r].user = u /\ task'[r].pc = "ok"
    BY <1>1, AtFacts DEF Started, Shaped
  <1>3. /\ Known(task[r].auth) /\ Known(task[r].token.user)
        /\ task[r].auth \in Users \cup {NoUser}
        /\ task[r].token.user \in Users \cup {NoUser}
    BY KnownType, AtFacts DEF RequestOK, Shaped
  <1>4. Control(r)'
    BY <1>2 DEF Control, At
  <1>5. RequestOK(r)'
    BY <1>1, <1>2, <1>3, <1>4, StillKnown DEF RequestOK, Known
  <1>6. CookiesOK'
    <2>1. /\ auth \in [Clients -> Users \cup {NoUser}]
          /\ reset \in [Clients -> Tokens \cup {NoToken}]
          /\ \A c \in Clients : Known(auth[c]) /\ Known(reset[c].user)
                                /\ reset[c].user \in Users \cup {NoUser}
      BY ShapedParts, KnownType DEF CookiesOK
    <2>2. ASSUME NEW c \in Clients
          PROVE  Known(auth[c])' /\ Known(reset[c].user)'
      BY <1>1, <2>1, StillKnown DEF Known
    <2>3. QED  BY <1>1, <2>1, <2>2 DEF CookiesOK
  <1>7. QED  BY <1>1, <1>5, <1>6, OthersShaped

(* A token a client gets names the account of its request. *)
LEMMA TokenGiven ==
  ASSUME Shaped, NEW r \in Requests, task[r].pc # "new", NEW b \in BOOLEAN, NEW m \in Requests,
         User(r) \in Users, task[r].email \in Emails, GiveToken(r, b, m),
         AccountsStay, UsersOK', RestOK'
  PROVE  Shaped'
  <1> PICK u \in Users : u = User(r)
    OBVIOUS
  <1> PICK e \in Emails : e = task[r].email
    OBVIOUS
  <1> DEFINE t == [user |-> u, email |-> e, canUpdate |-> b, code |-> m]
  <1>1. Known(u)
    BY KnownType DEF RequestOK, User
  <1>2. Exists(u)'
    BY <1>1, NamesAssumption DEF Known, AccountsStay
  <1>3. t \in Tokens /\ t.user = u
    BY DEF Tokens
  <1>4. /\ reset' = [reset EXCEPT ![Client(r)] = t]
        /\ auth' = auth
    BY DEF GiveToken
  <1>5. CookiesOK'
    <2>1. /\ auth \in [Clients -> Users \cup {NoUser}]
          /\ reset \in [Clients -> Tokens \cup {NoToken}]
          /\ \A c \in Clients : Known(auth[c]) /\ Known(reset[c].user)
                                /\ reset[c].user \in Users \cup {NoUser}
      BY ShapedParts, KnownType DEF CookiesOK
    <2>2. /\ reset' \in [Clients -> Tokens \cup {NoToken}]
          /\ \A c \in Clients : reset'[c] = reset[c] \/ reset'[c].user = u
      <3> HIDE DEF t
      <3>1. QED  BY <1>3, <1>4, <2>1
    <2>3. ASSUME NEW c \in Clients
          PROVE  Known(auth[c])' /\ Known(reset[c].user)'
      BY <1>2, <1>4, <2>1, <2>2, StillKnown DEF Known
    <2>4. QED  BY <1>4, <2>1, <2>2, <2>3 DEF CookiesOK
  <1>6. QED  BY <1>5, Ended DEF GiveToken, Served

----------------------------------------------------------------------------
\* Every step keeps the invariant.

LEMMA RestSame ==
  ASSUME Shaped, UNCHANGED <<codes, historyVars, mailVars, faults>>
  PROVE  RestOK'
  BY ShapedParts, MailSame DEF RestOK, historyVars

LEMMA CodeStored ==
  ASSUME Shaped, NEW r \in Requests, NEW value \in Requests \cup {NoRequest}, SetCode(r, value)
  PROVE  codes' \in [Keys -> Requests \cup {NoRequest}]
  BY DEF SetCode, Shaped, TypeOK

LEMMA InitShaped == Init => Shaped
  <1> SUFFICES ASSUME Init PROVE Shaped
    OBVIOUS
  <1>1. UsersOK
    <2>1. [email : Emails, password : {OldPassword}] \subseteq Rows
      BY DEF Rows
    <2>2. QED  BY <2>1 DEF Init, UsersOK, AddressesUnique, Exists
  <1>2. CookiesOK
    <2>1. \A c \in Clients : reset[c] = NoToken /\ auth[c] \in {u \in Users : Exists(u)} \cup {NoUser}
      BY DEF Init
    <2>2. \A c \in Clients : Known(auth[c]) /\ Known(reset[c].user)
      BY <2>1, TokenFacts DEF Known
    <2>3. auth \in [Clients -> Users \cup {NoUser}] /\ reset \in [Clients -> Tokens \cup {NoToken}]
      BY DEF Init
    <2>4. QED  BY <2>2, <2>3 DEF CookiesOK
  <1>3. RestOK
    <2>1. MailTypeOK
      BY EmptySeq DEF Init, MailInit, MailTypeOK
    <2>2. /\ 0 \in 0..MaxFaults
          /\ [k \in Keys |-> NoRequest] \in [Keys -> Requests \cup {NoRequest}]
      BY MaxFaultsAssumption
    <2>3. QED  BY <2>1, <2>2 DEF Init, RestOK
  <1>4. \A r \in Requests : task[r] = New
    BY DEF Init
  <1>5. task \in [Requests -> Tasks]
    BY DEF Init, Tasks
  <1>6. QED  BY <1>1, <1>2, <1>3, <1>4, <1>5, ShapedParts

LEMMA ReceiveShaped ==
  ASSUME Shaped, NEW r \in Requests, Receive(r)
  PROVE  Shaped'
  <1> PICK c \in Clients, op \in Ops :
          /\ Become(r, [pc |-> FirstPlace(op.kind), client |-> c, op |-> op,
                        auth |-> auth[c], token |-> reset[c],
                        user |-> NoUser, email |-> "none"])
          /\ IF op.kind = "logout"
             THEN /\ auth' = [auth EXCEPT ![c] = NoUser]
                  /\ reset' = [reset EXCEPT ![c] = NoToken]
             ELSE UNCHANGED <<auth, reset>>
    BY DEF Receive
  <1> DEFINE t == [pc |-> FirstPlace(op.kind), client |-> c, op |-> op,
                   auth |-> auth[c], token |-> reset[c],
                   user |-> NoUser, email |-> "none"]
  <1>1. op.kind \in {"forget", "rename", "create", "google", "login", "validate", "update", "logout"}
    BY DEF Ops
  <1>2. FirstPlace(op.kind) \in {"lookup", "verify", "find", "insert", "login", "ok"}
    BY <1>1 DEF FirstPlace
  <1>3. /\ auth[c] \in Users \cup {NoUser} /\ reset[c] \in Tokens \cup {NoToken}
        /\ Known(auth[c]) /\ Known(reset[c].user) /\ Known(NoUser)
        /\ reset[c].user \in Users \cup {NoUser}
    BY ShapedParts, KnownType DEF CookiesOK, Known
  <1>4. t \in Started
    BY <1>2, <1>3 DEF Started, Places, Served
  <1>5. /\ task' \in [Requests -> Tasks]
        /\ task'[r] = t
        /\ \A q \in Requests \ {r} : task'[q] = task[q]
    BY <1>4, BecomeType DEF Shaped
  <1>6. UsersOK' /\ AccountsStay
    BY UsersSame DEF Receive, Shaped
  <1>7. Control(r)'
    BY <1>1, <1>5 DEF Control, FirstPlace, At, Kind, Op
  <1>8. RequestOK(r)'
    BY <1>3, <1>4, <1>5, <1>6, <1>7, StillKnown DEF RequestOK, Known
  <1>9. CookiesOK'
    <2>1. CASE op.kind = "logout"
      <3>1. \A d \in Clients : /\ auth'[d] = NoUser \/ auth'[d] = auth[d]
                               /\ reset'[d] = NoToken \/ reset'[d] = reset[d]
        BY <2>1, ShapedParts DEF CookiesOK
      <3>2. \A d \in Clients : Known(auth[d])' /\ Known(reset[d].user)'
        BY <3>1, <1>6, ShapedParts, KnownType, TokenFacts, StillKnown DEF CookiesOK, Known
      <3>3. QED  BY <2>1, <3>2, ShapedParts DEF CookiesOK
    <2>2. CASE op.kind # "logout"
      BY <2>2, <1>6, CookiesSame
    <2>3. QED  BY <2>1, <2>2
  <1>10. RestOK'
    BY ShapedParts, MailSame DEF Receive, RestOK
  <1>11. QED  BY <1>5, <1>6, <1>8, <1>9, <1>10, OthersShaped

LEMMA RefuseShaped ==
  ASSUME Shaped, NEW r \in Requests, task[r].pc # "new", Refuse(r) \/ Accept(r),
         AccountsStay, UsersOK', RestOK'
  PROVE  Shaped'
  BY CookiesSame, Ended DEF Refuse, Accept, Served

LEMMA HolderFacts ==
  ASSUME Shaped, NEW e \in Emails, NEW u \in Holder(e)
  PROVE  u \in Users /\ Exists(u)
  BY RowFacts DEF Holder, Exists

LEMMA CreateShaped ==
  ASSUME Shaped, NEW r \in Requests, Create(r)
  PROVE  Shaped'
  <1>1. task[r].pc # "new" /\ Op(r).email \in Emails
    BY AtFacts DEF Create, At, Shaped
  <1>2. RestOK'
    BY RestSame DEF Create
  <1>3. UsersOK' /\ AccountsStay
    BY <1>1, UsersSame, RowInserted DEF Create, Shaped
  <1>4. QED  BY <1>1, <1>2, <1>3, RefuseShaped DEF Create

LEMMA LoginShaped ==
  ASSUME Shaped, NEW r \in Requests, Login(r)
  PROVE  Shaped'
  <1>1. task[r].pc # "new" /\ Kind(r) = "login" /\ Op(r).email \in Emails
    BY AtFacts DEF Login, At, Shaped, Control
  <1>2. RestOK' /\ UsersOK' /\ AccountsStay
    BY RestSame, UsersSame DEF Login, Shaped
  <1>3. CASE Refuse(r)
    BY <1>1, <1>2, <1>3, RefuseShaped
  <1>4. ASSUME NEW u \in Holder(Op(r).email), LogIn(r, u)
        PROVE  Shaped'
    BY <1>1, <1>2, <1>4, HolderFacts, LoggedIn DEF AccountsStay
  <1>5. QED  BY <1>3, <1>4 DEF Login

LEMMA GoogleFindShaped ==
  ASSUME Shaped, NEW r \in Requests, GoogleFind(r)
  PROVE  Shaped'
  <1>1. task[r].pc # "new" /\ Kind(r) = "google" /\ Op(r).email \in Emails
    BY AtFacts DEF GoogleFind, At, Shaped, Control
  <1>2. RestOK' /\ UsersOK' /\ AccountsStay
    BY RestSame, UsersSame DEF GoogleFind, Shaped
  <1>3. ASSUME NEW u \in Holder(Op(r).email), LogIn(r, u)
        PROVE  Shaped'
    BY <1>1, <1>2, <1>3, HolderFacts, LoggedIn DEF AccountsStay
  <1>4. CASE Go(r, "insert") /\ UNCHANGED <<auth, reset>>
    <2>1. "insert" \in AllPlaces
      BY DEF AllPlaces, Places
    <2>2. /\ task'[r] = [task[r] EXCEPT !.pc = "insert"] /\ task'[r] \in Started
          /\ task' \in [Requests -> Tasks]
          /\ \A q \in Requests \ {r} : task'[q] = task[q]
      BY <1>1, <1>4, <2>1, GoType DEF Shaped
    <2>3. task'[r].pc = "insert" /\ task'[r].op = task[r].op
      BY <1>1, <2>2, AtFacts DEF Started, Shaped
    <2>4. Control(r)'
      BY <1>1, <2>3 DEF Control, At, Kind, Op
    <2>5. QED
      BY <1>1, <1>2, <1>4, <2>1, <2>2, <2>4, CookiesSame, MovedOK, OthersShaped
  <1>5. QED  BY <1>3, <1>4 DEF GoogleFind

LEMMA GoogleInsertShaped ==
  ASSUME Shaped, NEW r \in Requests, GoogleInsert(r)
  PROVE  Shaped'
  <1>1. task[r].pc # "new" /\ Op(r).email \in Emails
    BY AtFacts DEF GoogleInsert, At, Shaped
  <1>2. RestOK'
    BY RestSame DEF GoogleInsert
  <1>3. CASE Refuse(r) /\ UNCHANGED users
    BY <1>1, <1>2, <1>3, UsersSame, RefuseShaped DEF Shaped
  <1>4. ASSUME NEW u \in Users, Insert(r, u), LogIn(r, u)
        PROVE  Shaped'
    BY <1>1, <1>2, <1>4, RowInserted, LoggedIn DEF Shaped
  <1>5. QED  BY <1>3, <1>4 DEF GoogleInsert

LEMMA LookupShaped ==
  ASSUME Shaped, NEW r \in Requests, Lookup(r)
  PROVE  Shaped'
  <1>1. task[r].pc # "new" /\ Kind(r) = "forget" /\ Op(r).email \in Emails
    BY AtFacts DEF Lookup, At, Shaped, Control
  <1>2. RestOK' /\ UsersOK' /\ AccountsStay
    BY RestSame, UsersSame DEF Lookup, Shaped
  <1>3. CookiesOK'
    BY <1>2, CookiesSame DEF Lookup
  <1>4. ASSUME NEW u \in Holder(Op(r).email), GoWith(r, "store", u)
        PROVE  Shaped'
    <2>1. "store" \in AllPlaces
      BY DEF AllPlaces, Places
    <2>2. u \in Users /\ Exists(u)
      BY <1>1, HolderFacts
    <2>3. /\ task'[r] = [task[r] EXCEPT !.pc = "store", !.user = u, !.email = users[u].email]
          /\ users[u].email \in Emails
      BY <1>1, <1>4, <2>1, <2>2, GoWithType DEF Shaped
    <2>4. /\ task'[r].pc = "store" /\ task'[r].op = task[r].op
          /\ task'[r].user = u /\ task'[r].email \in Emails
      BY <1>1, <2>3, AtFacts DEF Started, Shaped
    <2>5. Control(r)'
      BY <1>1, <2>2, <2>4 DEF Control, At, Kind, Op, User
    <2>6. QED  BY <1>1, <1>2, <1>3, <1>4, <2>1, <2>2, <2>5, GoneOnWith
  <1>5. CASE Go(r, "error")
    BY <1>1, <1>2, <1>3, <1>5, Ended DEF Served
  <1>6. QED  BY <1>4, <1>5 DEF Lookup

LEMMA StoreShaped ==
  ASSUME Shaped, NEW r \in Requests, Store(r)
  PROVE  Shaped'
  <1>1. /\ task[r].pc # "new" /\ Kind(r) = "forget"
        /\ User(r) \in Users /\ task[r].email \in Emails
    BY DEF Store, At, Shaped, Control
  <1>2. UsersOK' /\ AccountsStay
    BY UsersSame DEF Store, Shaped
  <1>3. RestOK'
    BY ShapedParts, MailSame, CodeStored DEF Store, RestOK, historyVars
  <1>4. CookiesOK'
    BY <1>2, CookiesSame DEF Store
  <1>5. "publish" \in AllPlaces
    BY DEF AllPlaces, Places
  <1>6. /\ task'[r] = [task[r] EXCEPT !.pc = "publish"]
        /\ task' \in [Requests -> Tasks]
        /\ \A q \in Requests \ {r} : task'[q] = task[q]
    BY <1>1, <1>5, GoType DEF Shaped, Store
  <1>7. /\ task'[r].pc = "publish" /\ task'[r].op = task[r].op
        /\ task'[r].user = task[r].user /\ task'[r].email = task[r].email
    BY <1>1, <1>6, AtFacts DEF Started, Shaped
  <1>8. Control(r)'
    BY <1>1, <1>7 DEF Control, At, Kind, Op, User
  <1>9. QED
    BY <1>1, <1>2, <1>3, <1>4, <1>5, <1>6, <1>8, MovedOK, OthersShaped DEF Store

LEMMA PublishShaped ==
  ASSUME Shaped, NEW r \in Requests, Publish(r)
  PROVE  Shaped'
  <1>1. task[r].pc # "new" /\ User(r) \in Users /\ task[r].email \in Emails
    BY DEF Publish, At, Shaped, Control
  <1>2. UsersOK' /\ AccountsStay
    BY UsersSame DEF Publish, Shaped
  <1>3. RestOK'
    BY ShapedParts, EnqueueType DEF Publish, RestOK, historyVars
  <1>4. QED  BY <1>1, <1>2, <1>3, TokenGiven DEF Publish

LEMMA VerifyShaped ==
  ASSUME Shaped, NEW r \in Requests, Verify(r)
  PROVE  Shaped'
  <1>1. task[r].pc # "new" /\ Kind(r) \in {"validate", "update", "rename"}
    BY DEF Verify, At, Shaped, Control
  <1>2. RestOK' /\ UsersOK' /\ AccountsStay
    BY RestSame, UsersSame DEF Verify, Shaped
  <1>3. CookiesOK'
    BY <1>2, CookiesSame DEF Verify
  <1>4. CASE Go(r, "error")
    BY <1>1, <1>2, <1>3, <1>4, Ended DEF Served
  <1>5. CASE Admits(r) /\ GoWith(r, NextPlace(Kind(r)), AdmittedUser(r))
    <2>1. /\ task[r].token \in Tokens \cup {NoToken}
          /\ Known(task[r].auth) /\ Known(task[r].token.user)
          /\ task[r].auth \in Users \cup {NoUser}
      BY <1>1, KnownType, AtFacts DEF RequestOK, Shaped
    <2>2. AdmittedUser(r) \in Users /\ Exists(AdmittedUser(r))
      <3>1. CASE Kind(r) = "rename"
        BY <1>5, <2>1, <3>1 DEF Admits, AdmittedUser, Known
      <3>2. CASE Kind(r) # "rename"
        <4>1. task[r].token \in Tokens /\ AdmittedUser(r) = task[r].token.user
          BY <1>1, <1>5, <2>1, <3>2 DEF Admits, AdmittedUser
        <4>2. AdmittedUser(r) \in Users /\ AdmittedUser(r) # NoUser
          BY <4>1, TokenFacts, NamesAssumption
        <4>3. QED  BY <2>1, <4>1, <4>2 DEF Known
      <3>3. QED  BY <3>1, <3>2
    <2>3. /\ Kind(r) = "validate" => NextPlace(Kind(r)) = "compare"
          /\ Kind(r) = "update" => NextPlace(Kind(r)) = "write"
          /\ Kind(r) = "rename" => NextPlace(Kind(r)) = "rename"
      BY DEF NextPlace
    <2>4. NextPlace(Kind(r)) \in AllPlaces
      BY <1>1, <2>3 DEF AllPlaces, Places
    <2> PICK u \in Users : u = AdmittedUser(r)
      BY <2>2
    <2> PICK place \in AllPlaces : place = NextPlace(Kind(r))
      BY <2>4
    <2>5. /\ task'[r] = [task[r] EXCEPT !.pc = place, !.user = u, !.email = users[u].email]
          /\ users[u].email \in Emails
      <3>1. TypeOK /\ GoWith(r, place, u) /\ task[r].pc # "new"
        BY <1>1, <1>5 DEF Shaped
      <3>2. Exists(u)
        BY <2>2
      <3>3. users[u].email \in Emails
        BY <3>1, <3>2, RowFacts DEF TypeOK, Exists
      <3>4. QED  BY <3>1, <3>3 DEF GoWith, Become, TypeOK
    <2>6. /\ task'[r].pc = place /\ task'[r].op = task[r].op
          /\ task'[r].user = u /\ task'[r].email \in Emails
      <3>1. task[r] \in Started
        BY <1>1, AtFacts DEF Shaped
      <3>2. QED  BY <2>5, <3>1 DEF Started
    <2>7. Control(r)'
      BY <1>1, <2>2, <2>3, <2>6 DEF Control, At, Kind, Op, User
    <2>8. QED  BY <1>1, <1>2, <1>3, <1>5, <2>2, <2>4, <2>7, GoneOnWith
  <1>6. QED  BY <1>4, <1>5 DEF Verify

LEMMA CompareShaped ==
  ASSUME Shaped, NEW r \in Requests, Compare(r)
  PROVE  Shaped'
  <1>1. /\ task[r].pc # "new" /\ Kind(r) = "validate"
        /\ User(r) \in Users /\ task[r].email \in Emails
    BY DEF Compare, At, Shaped, Control
  <1>2. RestOK' /\ UsersOK' /\ AccountsStay
    BY RestSame, UsersSame DEF Compare, Shaped
  <1>3. CookiesOK'
    BY <1>2, CookiesSame DEF Compare
  <1>4. CASE Go(r, "error")
    BY <1>1, <1>2, <1>3, <1>4, Ended DEF Served
  <1>5. CASE codes[Key(r)] = Op(r).code /\ Go(r, "delete")
    <2>1. "delete" \in AllPlaces
      BY DEF AllPlaces, Places
    <2>2. /\ task'[r] = [task[r] EXCEPT !.pc = "delete"]
          /\ task' \in [Requests -> Tasks]
          /\ \A q \in Requests \ {r} : task'[q] = task[q]
      BY <1>1, <1>5, <2>1, GoType DEF Shaped
    <2>3. /\ task'[r].pc = "delete" /\ task'[r].op = task[r].op
          /\ task'[r].user = task[r].user /\ task'[r].email = task[r].email
      BY <1>1, <2>2, AtFacts DEF Started, Shaped
    <2>4. Op(r).code \in Requests
      <3>1. Key(r) \in Keys
        BY <1>1 DEF Key, Keys, User
      <3>2. codes[Key(r)] \in Requests \cup {NoRequest}
        BY <3>1, ShapedParts DEF RestOK
      <3>3. Op(r).code \in Requests \cup {Wrong}
        BY <1>1, AtFacts DEF Shaped
      <3>4. QED  BY <1>5, <3>2, <3>3, NamesAssumption
    <2>5. Control(r)'
      BY <1>1, <2>3, <2>4 DEF Control, At, Kind, Op, User
    <2>6. QED
      BY <1>1, <1>2, <1>3, <1>5, <2>1, <2>2, <2>5, MovedOK, OthersShaped
  <1>6. QED  BY <1>4, <1>5 DEF Compare

LEMMA DeleteShaped ==
  ASSUME Shaped, NEW r \in Requests, Delete(r)
  PROVE  Shaped'
  <1>1. /\ task[r].pc # "new" /\ User(r) \in Users /\ task[r].email \in Emails
        /\ Op(r).code \in Requests
    BY DEF Delete, At, Shaped, Control
  <1>2. UsersOK' /\ AccountsStay
    BY UsersSame DEF Delete, Shaped
  <1>3. RestOK'
    BY ShapedParts, MailSame, CodeStored DEF Delete, RestOK, historyVars
  <1>4. GiveToken(r, TRUE, Op(r).code)
    BY DEF Delete
  <1>5. QED  BY <1>1, <1>2, <1>3, <1>4, TokenGiven

(* The account of a request that is about to write is there. *)
LEMMA OwnerExists ==
  ASSUME Shaped, NEW r \in Requests, task[r].pc # "new", User(r) \in Users
  PROVE  Exists(User(r))
  BY KnownType, NamesAssumption DEF RequestOK, Known, User

LEMMA WriteShaped ==
  ASSUME Shaped, NEW r \in Requests, Write(r)
  PROVE  Shaped'
  <1>1. task[r].pc # "new" /\ User(r) \in Users
    BY DEF Write, At, Shaped, Control
  <1>2. UsersOK' /\ AccountsStay
    BY <1>1, OwnerExists, PasswordSet DEF Write, Shaped
  <1>3. RestOK'
    BY RestSame DEF Write
  <1>4. CookiesOK'
    <2>1. /\ auth \in [Clients -> Users \cup {NoUser}]
          /\ reset \in [Clients -> Tokens \cup {NoToken}]
          /\ \A c \in Clients : /\ Known(auth[c]) /\ Known(reset[c].user)
                                /\ auth[c] \in Users \cup {NoUser}
                                /\ reset[c].user \in Users \cup {NoUser}
      BY ShapedParts, KnownType DEF CookiesOK
    <2>2. auth' = auth /\ reset' = [reset EXCEPT ![Client(r)] = NoToken]
      BY DEF Write
    <2>3. ASSUME NEW c \in Clients
          PROVE  Known(auth[c])' /\ Known(reset[c].user)'
      BY <1>2, <2>1, <2>2, TokenFacts, StillKnown DEF Known
    <2>4. QED  BY <2>1, <2>2, <2>3 DEF CookiesOK
  <1>5. QED  BY <1>1, <1>2, <1>3, <1>4, Ended DEF Write, Served

LEMMA RenameShaped ==
  ASSUME Shaped, NEW r \in Requests, Rename(r)
  PROVE  Shaped'
  <1>1. /\ task[r].pc # "new" /\ Kind(r) = "rename"
        /\ User(r) \in Users /\ Op(r).email \in Emails
    BY AtFacts DEF Rename, At, Shaped, Control
  <1>2. UsersOK' /\ AccountsStay
    BY <1>1, OwnerExists, EmailSet, UsersSame DEF Rename, Shaped
  <1>3. RestOK'
    BY RestSame DEF Rename
  <1>4. QED  BY <1>1, <1>2, <1>3, RefuseShaped DEF Rename

LEMMA CallFailsShaped ==
  ASSUME Shaped, NEW r \in Requests, CallFails(r)
  PROVE  Shaped'
  <1>1. task[r].pc # "new" /\ Refuse(r) /\ faults' \in 0..MaxFaults /\ UNCHANGED historyVars
    BY ShapedParts, MaxFaultsAssumption DEF CallFails, Open, Places, Fault, RestOK
  <1>2. UsersOK' /\ AccountsStay
    <2>1. CASE UNCHANGED users
      BY <2>1, UsersSame DEF Shaped
    <2>2. CASE At(r, "write") /\ SetPassword(r)
      BY <1>1, <2>2, OwnerExists, PasswordSet DEF Shaped, Control, At
    <2>3. CASE At(r, "rename") /\ SetEmail(r)
      <3>1. Op(r).email \in Emails /\ User(r) \in Users
        BY <1>1, <2>3, AtFacts DEF Shaped, Control, At
      <3>2. QED  BY <1>1, <2>3, <3>1, OwnerExists, EmailSet DEF Shaped
    <2>4. ASSUME At(r, "insert"), NEW u \in Users, Insert(r, u)
          PROVE  UsersOK' /\ AccountsStay
      <3>1. Op(r).email \in Emails
        BY <1>1, <2>4, AtFacts DEF Shaped, Control
      <3>2. QED  BY <2>4, <3>1, RowInserted DEF Shaped
    <2>5. QED  BY <2>1, <2>2, <2>3, <2>4 DEF CallFails
  <1>3. RestOK'
    <2>1. codes' \in [Keys -> Requests \cup {NoRequest}]
      BY CodeStored DEF CallFails, Shaped, TypeOK
    <2>2. MailTypeOK'
      BY MailSame, EnqueueType DEF CallFails, Shaped, TypeOK
    <2>3. QED  BY <1>1, <2>1, <2>2, ShapedParts DEF RestOK, historyVars
  <1>4. QED  BY <1>1, <1>2, <1>3, RefuseShaped

(* No request takes the step. *)
LEMMA TasksSame ==
  ASSUME Shaped, UNCHANGED task, AccountsStay, UsersOK', CookiesOK', RestOK'
  PROVE  Shaped'
  <1>1. ASSUME NEW q \in Requests, task[q] # New
        PROVE  RequestOK(q)'
    <2>1. task'[q] = task[q] /\ RequestOK(q)
      BY <1>1, ShapedParts
    <2>2. /\ task[q].auth \in Users \cup {NoUser}
          /\ task[q].token.user \in Users \cup {NoUser}
          /\ task[q].user \in Users \cup {NoUser}
      BY <2>1, TokenFacts DEF RequestOK, Started
    <2>3. QED
      BY <2>1, <2>2, StillKnown DEF RequestOK, Known, Control, At, Kind, Op, User
  <1>2. \A q \in Requests : task'[q] # New => RequestOK(q)'
    BY <1>1
  <1>3. task' \in [Requests -> Tasks]
    BY ShapedParts
  <1>4. QED  BY <1>2, <1>3, ShapedNext

LEMMA ExpireCodeShaped ==
  ASSUME Shaped, NEW k \in Keys, ExpireCode(k)
  PROVE  Shaped'
  <1>1. UsersOK' /\ AccountsStay
    BY UsersSame DEF ExpireCode, Shaped
  <1>2. RestOK'
    BY ShapedParts, MailSame DEF ExpireCode, RestOK
  <1>3. QED  BY <1>1, <1>2, CookiesSame, TasksSame DEF ExpireCode

LEMMA ExpireCookieShaped ==
  ASSUME Shaped, NEW c \in Clients, ExpireCookie(c)
  PROVE  Shaped'
  <1>1. UsersOK' /\ AccountsStay /\ RestOK'
    BY UsersSame, RestSame DEF ExpireCookie, Shaped
  <1>2. CookiesOK'
    <2>1. /\ auth \in [Clients -> Users \cup {NoUser}]
          /\ reset \in [Clients -> Tokens \cup {NoToken}]
          /\ \A d \in Clients : /\ Known(auth[d]) /\ Known(reset[d].user)
                                /\ auth[d] \in Users \cup {NoUser}
                                /\ reset[d].user \in Users \cup {NoUser}
      BY ShapedParts, KnownType DEF CookiesOK
    <2>2. /\ auth' \in [Clients -> Users \cup {NoUser}]
          /\ reset' \in [Clients -> Tokens \cup {NoToken}]
          /\ \A d \in Clients : /\ auth'[d] = auth[d] \/ auth'[d] = NoUser
                                /\ reset'[d] = reset[d] \/ reset'[d] = NoToken
      BY <2>1 DEF ExpireCookie
    <2>3. ASSUME NEW d \in Clients
          PROVE  Known(auth[d])' /\ Known(reset[d].user)'
      BY <1>1, <2>1, <2>2, TokenFacts, StillKnown DEF Known
    <2>4. QED  BY <2>2, <2>3 DEF CookiesOK
  <1>3. QED  BY <1>1, <1>2, TasksSame DEF ExpireCookie

LEMMA CrashShaped ==
  ASSUME Shaped, Crash
  PROVE  Shaped'
  <1>1. UsersOK' /\ AccountsStay
    BY UsersSame DEF Crash, Shaped
  <1>2. RestOK'
    BY ShapedParts, MailSame, MaxFaultsAssumption DEF Crash, RestOK, Fault, historyVars
  <1>3. CookiesOK'
    BY <1>1, CookiesSame DEF Crash
  <1>4. ASSUME NEW q \in Requests, task[q] # New
        PROVE  RequestOK(q)' /\ task'[q] \in Tasks
    <2>1. /\ RequestOK(q)
          /\ task'[q] = IF q \in Open THEN [task[q] EXCEPT !.pc = "crashed"] ELSE task[q]
      BY <1>4, ShapedParts DEF Crash
    <2>2. /\ task[q].auth \in Users \cup {NoUser}
          /\ task[q].token.user \in Users \cup {NoUser}
          /\ task[q].user \in Users \cup {NoUser}
          /\ task[q] \in Started
      BY <2>1, TokenFacts DEF RequestOK, Started
    <2>3. /\ task'[q] \in Started
          /\ task'[q].pc = task[q].pc \/ task'[q].pc = "crashed"
          /\ task'[q].op = task[q].op /\ task'[q].auth = task[q].auth
          /\ task'[q].token = task[q].token /\ task'[q].user = task[q].user
          /\ task'[q].email = task[q].email
      BY <2>1, <2>2 DEF Started
    <2>4. Control(q)'
      BY <2>1, <2>3 DEF RequestOK, Control, At, Kind, Op, User
    <2>5. QED
      BY <1>1, <2>1, <2>2, <2>3, <2>4, StillKnown DEF RequestOK, Known, Tasks
  <1>5. \A q \in Requests : task[q] = New => task'[q] = New
    BY DEF Crash, Open, Places, New
  <1>6. task' \in [Requests -> Tasks]
    <2>1. \A q \in Requests : task'[q] \in Tasks
      BY <1>4, <1>5 DEF Tasks
    <2> DEFINE step(q) == IF q \in Open THEN [task[q] EXCEPT !.pc = "crashed"] ELSE task[q]
    <2>2. task' = [q \in Requests |-> step(q)]
      BY DEF Crash
    <2> HIDE DEF step
    <2>3. \A q \in Requests : step(q) \in Tasks
      BY <2>1, <2>2
    <2>4. QED  BY <2>2, <2>3
  <1>7. \A q \in Requests : task'[q] # New => RequestOK(q)'
    BY <1>4, <1>5
  <1>8. QED  BY <1>1, <1>2, <1>3, <1>6, <1>7, ShapedNext

LEMMA MailStepShaped ==
  ASSUME Shaped, MailStep, UNCHANGED accountVars
  PROVE  Shaped'
  <1>1. UsersOK' /\ AccountsStay
    BY UsersSame DEF accountVars, Shaped
  <1>2. RestOK'
    BY ShapedParts, MailStepType DEF accountVars, RestOK
  <1>3. QED  BY <1>1, <1>2, CookiesSame, TasksSame DEF accountVars

LEMMA NextShaped ==
  ASSUME Shaped, [Next]_vars
  PROVE  Shaped'
  <1>1. ASSUME NEW r \in Requests, Receive(r) \/ RequestStep(r) \/ CallFails(r)
        PROVE  Shaped'
    BY <1>1, ReceiveShaped, CreateShaped, LoginShaped, GoogleFindShaped, GoogleInsertShaped,
       LookupShaped, StoreShaped, PublishShaped, VerifyShaped, CompareShaped, DeleteShaped,
       WriteShaped, RenameShaped, CallFailsShaped DEF RequestStep
  <1>2. CASE UNCHANGED vars
    <2>1. UsersOK' /\ AccountsStay
      BY <1>2, UsersSame DEF vars, accountVars, Shaped
    <2>2. RestOK'
      BY <1>2, RestSame DEF vars, accountVars, historyVars
    <2>3. QED  BY <1>2, <2>1, <2>2, CookiesSame, TasksSame DEF vars, accountVars
  <1>3. QED
    BY <1>1, <1>2, ExpireCodeShaped, ExpireCookieShaped, CrashShaped, MailStepShaped DEF Next

(* Types: among them, no address ever belongs to two accounts, whatever    *)
(* registrations, first Google logins and renames run into each other.     *)
THEOREM AccountsTypeCorrect == Spec => []TypeOK
  <1>1. Init => Shaped
    BY InitShaped
  <1>2. Shaped /\ [Next]_vars => Shaped'
    BY NextShaped
  <1>3. Shaped => TypeOK
    BY DEF Shaped
  <1>4. QED  BY <1>1, <1>2, <1>3, PTL DEF Spec

----------------------------------------------------------------------------
\* What a step does to the request that takes it.

May(from, to) ==
    \/ to = "error"
    \/ from \in {"find", "insert", "login", "publish", "delete", "write", "rename"} /\ to = "ok"
    \/ from = "find" /\ to = "insert"
    \/ from = "lookup" /\ to = "store"
    \/ from = "store" /\ to = "publish"
    \/ from = "verify" /\ to \in {"compare", "write", "rename"}
    \/ from = "compare" /\ to = "delete"

Late == {"store", "publish", "compare", "delete", "write", "rename"}

Moves(r) ==
    /\ task[r].pc \in Places
    /\ \A q \in Requests \ {r} : task'[q] = task[q]
    /\ May(task[r].pc, task'[r].pc)
    /\ task'[r].op = task[r].op
    /\ task'[r].token = task[r].token
    /\ task[r].pc \in Late => task'[r].user = task[r].user /\ task'[r].email = task[r].email

LEMMA GoMoves ==
  ASSUME Shaped, NEW r \in Requests, task[r].pc \in Places, NEW place \in AllPlaces,
         May(task[r].pc, place), Go(r, place)
  PROVE  Moves(r)
  <1>1. task[r] \in Started /\ task[r].pc # "new"
    BY AtFacts DEF Shaped, Places
  <1>2. task' = [task EXCEPT ![r] = [task[r] EXCEPT !.pc = place]]
    BY DEF Go, Become
  <1>3. /\ task'[r].op = task[r].op /\ task'[r].token = task[r].token
        /\ task'[r].user = task[r].user /\ task'[r].email = task[r].email
        /\ task'[r].pc = place
        /\ \A q \in Requests \ {r} : task'[q] = task[q]
    BY <1>1, <1>2 DEF Started, Shaped, TypeOK
  <1>4. QED  BY <1>3 DEF Moves

LEMMA GoWithMoves ==
  ASSUME Shaped, NEW r \in Requests, task[r].pc \in Places \ Late, NEW place \in AllPlaces,
         May(task[r].pc, place), NEW u, GoWith(r, place, u)
  PROVE  /\ Moves(r)
         /\ task'[r].user = u
         /\ task'[r].pc = place
  <1>1. task[r] \in Started /\ task[r].pc # "new"
    BY AtFacts DEF Shaped, Places
  <1>2. task' = [task EXCEPT ![r] =
                    [task[r] EXCEPT !.pc = place, !.user = u, !.email = users[u].email]]
    BY DEF GoWith, Become
  <1>3. /\ task'[r].op = task[r].op /\ task'[r].token = task[r].token
        /\ task'[r].pc = place /\ task'[r].user = u
        /\ \A q \in Requests \ {r} : task'[q] = task[q]
    BY <1>1, <1>2 DEF Started, Shaped, TypeOK
  <1>4. QED  BY <1>3 DEF Moves

LEMMA LogInMoves ==
  ASSUME Shaped, NEW r \in Requests, task[r].pc \in {"find", "insert", "login"},
         NEW u, LogIn(r, u)
  PROVE  Moves(r)
  <1>1. task[r] \in Started /\ task[r].pc \in Places /\ task[r].pc # "new"
    BY AtFacts DEF Shaped, Places
  <1>2. task' = [task EXCEPT ![r] = [task[r] EXCEPT !.pc = "ok", !.user = u]]
    BY DEF LogIn, Become
  <1>3. /\ task'[r].op = task[r].op /\ task'[r].token = task[r].token
        /\ task'[r].pc = "ok"
        /\ \A q \in Requests \ {r} : task'[q] = task[q]
    BY <1>1, <1>2 DEF Started, Shaped, TypeOK
  <1>4. QED  BY <1>1, <1>3 DEF Moves, May, Late

LEMMA StepMoves ==
  ASSUME Shaped, NEW r \in Requests, RequestStep(r) \/ CallFails(r)
  PROVE  Moves(r)
  <1> USE DEF May
  <1>1. \A p \in Places \cup {"ok", "error"} : p \in AllPlaces
    BY DEF AllPlaces, Served
  <1>2. /\ {"find", "insert", "login", "lookup", "store", "publish", "verify",
            "compare", "delete", "write", "rename"} \subseteq Places
        /\ {"find", "insert", "login", "lookup", "verify"} \subseteq Places \ Late
    BY DEF Places, Late
  <1>3. ASSUME Refuse(r), task[r].pc \in Places
        PROVE  Moves(r)
    BY <1>1, <1>3, GoMoves DEF Refuse
  <1>4. CASE Create(r)
    BY <1>1, <1>2, <1>3, <1>4, GoMoves DEF Create, At, Accept
  <1>5. CASE Login(r)
    BY <1>2, <1>3, <1>5, LogInMoves DEF Login, At
  <1>6. CASE GoogleFind(r)
    BY <1>1, <1>2, <1>6, GoMoves, LogInMoves DEF GoogleFind, At
  <1>7. CASE GoogleInsert(r)
    BY <1>2, <1>3, <1>7, LogInMoves DEF GoogleInsert, At
  <1>8. CASE Lookup(r)
    BY <1>1, <1>2, <1>8, GoMoves, GoWithMoves DEF Lookup, At
  <1>9. CASE Store(r)
    BY <1>1, <1>2, <1>9, GoMoves DEF Store, At
  <1>10. CASE Publish(r)
    BY <1>1, <1>2, <1>10, GoMoves DEF Publish, At, GiveToken
  <1>11. CASE Verify(r)
    <2>1. At(r, "verify") /\ Kind(r) \in {"validate", "update", "rename"}
      BY <1>11 DEF Verify, Shaped, Control
    <2>2. NextPlace(Kind(r)) \in {"compare", "write", "rename"}
      BY <2>1 DEF NextPlace
    <2>3. QED  BY <1>1, <1>2, <1>11, <2>1, <2>2, GoMoves, GoWithMoves DEF Verify, At
  <1>12. CASE Compare(r)
    BY <1>1, <1>2, <1>12, GoMoves DEF Compare, At
  <1>13. CASE Delete(r)
    BY <1>1, <1>2, <1>13, GoMoves DEF Delete, At, GiveToken
  <1>14. CASE Write(r)
    BY <1>1, <1>2, <1>14, GoMoves DEF Write, At
  <1>15. CASE Rename(r)
    BY <1>1, <1>2, <1>3, <1>15, GoMoves DEF Rename, At, Accept
  <1>16. CASE CallFails(r)
    BY <1>3, <1>16 DEF CallFails, Open
  <1>17. QED
    BY <1>4, <1>5, <1>6, <1>7, <1>8, <1>9, <1>10, <1>11, <1>12, <1>13, <1>14, <1>15, <1>16
       DEF RequestStep

LEMMA GoesTo ==
  ASSUME Shaped, NEW r \in Requests, task[r] # New, NEW place, Go(r, place)
  PROVE  task'[r].pc = place
  <1>1. task[r] \in Started
    BY ShapedParts DEF RequestOK
  <1>2. task' = [task EXCEPT ![r] = [task[r] EXCEPT !.pc = place]]
    BY DEF Go, Become
  <1>3. QED  BY <1>1, <1>2 DEF Started, Shaped, TypeOK

Crashes(r) ==
    /\ task[r].pc \in Places
    /\ task'[r].pc = "crashed"
    /\ task'[r].op = task[r].op /\ task'[r].token = task[r].token
    /\ task'[r].user = task[r].user /\ task'[r].email = task[r].email

LEMMA TaskStep ==
  ASSUME Shaped, [Next]_vars, NEW r \in Requests, task[r] # New
  PROVE  \/ task'[r] = task[r]
         \/ Moves(r) /\ (RequestStep(r) \/ CallFails(r))
         \/ Crashes(r) /\ UNCHANGED <<users, codes, auth, reset>>
  <1>1. ASSUME NEW q \in Requests, Receive(q)
        PROVE  task'[r] = task[r]
    <2>1. q # r /\ \E t : Become(q, t)
      BY <1>1 DEF Receive
    <2>2. QED  BY <2>1 DEF Become
  <1>2. ASSUME NEW q \in Requests, RequestStep(q) \/ CallFails(q)
        PROVE  IF q = r THEN Moves(r) ELSE task'[r] = task[r]
    BY <1>2, StepMoves DEF Moves
  <1>3. CASE Crash
    <2>1. CASE r \in Open
      <3>1. task[r] \in Started /\ task[r].pc \in Places
        BY <2>1, ShapedParts DEF RequestOK, Open
      <3>2. task'[r] = [task[r] EXCEPT !.pc = "crashed"]
        BY <1>3, <2>1 DEF Crash
      <3>3. QED  BY <1>3, <3>1, <3>2 DEF Started, Crashes, Crash
    <2>2. CASE r \notin Open
      BY <1>3, <2>2 DEF Crash
    <2>3. QED  BY <2>1, <2>2
  <1>4. QED
    BY <1>1, <1>2, <1>3 DEF Next, vars, accountVars, ExpireCode, ExpireCookie

(* A request that has just been received. *)
LEMMA JustReceived ==
  ASSUME Shaped, [Next]_vars, NEW r \in Requests, task[r] = New, task'[r] # New
  PROVE  /\ task'[r].pc \in {"lookup", "verify", "find", "insert", "login", "ok"}
         /\ task'[r].pc = "ok" => task'[r].op.kind = "logout"
         /\ \E c \in Clients : task'[r].token = reset[c]
         /\ task'[r].email = "none"
         /\ UNCHANGED <<users, codes>>
         /\ \A c \in Clients : reset'[c] \in {reset[c], NoToken}
  <1>1. ASSUME NEW q \in Requests, RequestStep(q) \/ CallFails(q)
        PROVE  FALSE
    <2>1. Moves(q)
      BY <1>1, StepMoves
    <2>2. task[r].pc \notin Places
      BY DEF New, Places
    <2>3. QED  BY <2>1, <2>2 DEF Moves
  <1>2. ASSUME NEW q \in Requests, Receive(q)
        PROVE  q = r
    BY <1>2 DEF Receive, Become, Shaped, TypeOK
  <1>3. ~Crash
    BY DEF Crash, Open, Places, New
  <1>4. Receive(r)
    BY <1>1, <1>2, <1>3 DEF Next, vars, accountVars, ExpireCode, ExpireCookie
  <1> PICK c \in Clients, op \in Ops :
          /\ Become(r, [pc |-> FirstPlace(op.kind), client |-> c, op |-> op,
                        auth |-> auth[c], token |-> reset[c],
                        user |-> NoUser, email |-> "none"])
          /\ IF op.kind = "logout"
             THEN /\ auth' = [auth EXCEPT ![c] = NoUser]
                  /\ reset' = [reset EXCEPT ![c] = NoToken]
             ELSE UNCHANGED <<auth, reset>>
    BY <1>4 DEF Receive
  <1>5. /\ task'[r].pc = FirstPlace(op.kind) /\ task'[r].op = op
        /\ task'[r].token = reset[c] /\ task'[r].email = "none"
    BY DEF Become, Shaped, TypeOK
  <1>6. op.kind \in {"forget", "rename", "create", "google", "login", "validate", "update", "logout"}
    BY DEF Ops
  <1>7. /\ FirstPlace(op.kind) \in {"lookup", "verify", "find", "insert", "login", "ok"}
        /\ FirstPlace(op.kind) = "ok" => op.kind = "logout"
    BY <1>6 DEF FirstPlace
  <1>8. \A d \in Clients : reset'[d] \in {reset[d], NoToken}
    BY DEF Shaped, TypeOK
  <1>9. QED  BY <1>4, <1>5, <1>7, <1>8 DEF Receive

----------------------------------------------------------------------------
\* A code is used once.

(* The request has stored its code, if it made one. *)
Made(f) ==
    /\ f \in Requests
    /\ task[f].pc \in {"publish", "ok", "error", "crashed"}
    /\ Kind(f) = "forget"

StoredCodes == \A k \in Keys : codes[k] # NoRequest => Made(codes[k]) /\ Key(codes[k]) = k
CodesMatched ==
    \A v \in Requests : At(v, "delete") => Made(Op(v).code) /\ Key(Op(v).code) = Key(v)
CodesUsed ==
    \A v \in Requests : Accepted(v) => /\ Made(Op(v).code)
                                       /\ User(Op(v).code) = User(v)
                                       /\ \A k \in Keys : codes[k] # Op(v).code
CodeInv == StoredCodes /\ CodesMatched /\ CodesUsed

LEMMA MadeStays ==
  ASSUME Shaped, [Next]_vars, NEW f, Made(f)
  PROVE  /\ Made(f)'
         /\ Key(f)' = Key(f) /\ User(f)' = User(f)
  <1>1. f \in Requests /\ task[f] # New
    BY DEF Made, New
  <1>2. CASE task'[f] = task[f]
    BY <1>1, <1>2 DEF Made, Key, User, Kind
  <1>3. CASE Moves(f)
    BY <1>1, <1>3 DEF Moves, Made, May, Places, Late, Key, User, Kind
  <1>4. CASE Crashes(f)
    BY <1>1, <1>4 DEF Crashes, Made, Key, User, Kind
  <1>5. QED  BY <1>1, <1>2, <1>3, <1>4, TaskStep

(* What can become of the code under a key. *)
LEMMA CodesMove ==
  ASSUME Shaped, [Next]_vars, NEW k \in Keys
  PROVE  \/ codes'[k] \in {codes[k], NoRequest}
         \/ \E r \in Requests : /\ At(r, "store") /\ codes'[k] = r
                                /\ Made(r)' /\ Key(r)' = k
  <1>1. ASSUME NEW r \in Requests, RequestStep(r) \/ CallFails(r)
        PROVE  \/ codes'[k] \in {codes[k], NoRequest}
               \/ At(r, "store") /\ codes'[k] = r /\ Made(r)' /\ Key(r)' = k
    <2>1. \/ UNCHANGED codes
          \/ At(r, "delete") /\ SetCode(r, NoRequest)
          \/ At(r, "store") /\ SetCode(r, r)
      BY <1>1 DEF RequestStep, CallFails, Create, Login, GoogleFind, GoogleInsert, Lookup, Store,
                  Publish, Verify, Compare, Delete, Write, Rename
    <2>2. CASE At(r, "store") /\ SetCode(r, r)
      <3>1. Moves(r) /\ Kind(r) = "forget"
        BY <1>1, <2>2, StepMoves DEF Shaped, Control, At
      <3>2. Made(r)' /\ Key(r)' = Key(r)
        BY <2>2, <3>1 DEF Moves, Made, May, Late, Key, Kind, Op, At
      <3>3. codes'[k] = IF k = Key(r) THEN r ELSE codes[k]
        BY <2>2 DEF SetCode, Shaped, TypeOK
      <3>4. QED  BY <2>2, <3>2, <3>3
    <2>3. CASE At(r, "delete") /\ SetCode(r, NoRequest)
      BY <2>3 DEF SetCode, Shaped, TypeOK
    <2>4. QED  BY <2>1, <2>2, <2>3
  <1>2. ASSUME NEW j \in Keys, ExpireCode(j)
        PROVE  codes'[k] \in {codes[k], NoRequest}
    BY <1>2 DEF ExpireCode, Shaped, TypeOK
  <1>3. QED
    BY <1>1, <1>2 DEF Next, vars, accountVars, Receive, ExpireCookie, Crash

LEMMA MatchedStep ==
  ASSUME Shaped, CodeInv, [Next]_vars, NEW v \in Requests, At(v, "delete")'
  PROVE  Made(Op(v).code)' /\ Key(Op(v).code)' = Key(v)'
  <1>1. task[v] # New
    BY JustReceived DEF At, New
  <1>2. CASE task'[v] = task[v]
    <2>1. Made(Op(v).code) /\ Key(Op(v).code) = Key(v)
      BY <1>2 DEF CodeInv, CodesMatched, At
    <2>2. Op(v)' = Op(v) /\ Key(v)' = Key(v)
      BY <1>2 DEF Op, Key
    <2> PICK f : f = Op(v).code
      OBVIOUS
    <2>3. Made(f)' /\ Key(f)' = Key(f)
      BY <2>1, MadeStays
    <2>4. Op(v)'.code = f
      BY <2>2
    <2>5. QED  BY <2>1, <2>2, <2>3, <2>4 DEF Key, Op
  <1>3. CASE Moves(v) /\ (RequestStep(v) \/ CallFails(v))
    <2>1. At(v, "compare")
      BY <1>3 DEF Moves, May, At
    <2>2. ~CallFails(v)
      <3>1. ~Go(v, "error")
        BY <1>1, GoesTo DEF At
      <3>2. QED  BY <3>1 DEF CallFails, Refuse
    <2>3. Compare(v)
      BY <1>3, <2>1, <2>2 DEF RequestStep, Create, Login, GoogleFind, GoogleInsert, Lookup,
         Store, Publish, Verify, Delete, Write, Rename, At
    <2>4. Kind(v) = "validate" /\ User(v) \in Users /\ task[v].email \in Emails
      BY <2>1 DEF Shaped, Control, At
    <2> PICK f : f = Op(v).code
      OBVIOUS
    <2>5. f = codes[Key(v)]
      <3>1. ~Go(v, "error")
        BY <1>1, GoesTo DEF At
      <3>2. QED  BY <2>3, <3>1 DEF Compare
    <2>6. Key(v) \in Keys
      BY <2>4 DEF Key, Keys, User
    <2>7. Op(v)' = Op(v) /\ Key(v)' = Key(v)
      BY <1>3, <2>1 DEF Moves, Op, Key, Late, At
    <2>8. f \in Requests
      BY <2>7, NextShaped DEF Shaped, Control
    <2>9. Made(f) /\ Key(f) = Key(v)
      BY <2>5, <2>6, <2>8, NoRequestAssumption DEF CodeInv, StoredCodes
    <2>10. Made(f)' /\ Key(f)' = Key(f)
      BY <2>9, MadeStays
    <2>11. QED  BY <2>7, <2>9, <2>10 DEF Key, Op
  <1>4. CASE Crashes(v)
    BY <1>4 DEF Crashes, At
  <1>5. QED  BY <1>1, <1>2, <1>3, <1>4, TaskStep

(* How a request comes to have validated a code. *)
LEMMA JustAccepted ==
  ASSUME Shaped, [Next]_vars, NEW v \in Requests, Accepted(v)', ~Accepted(v)
  PROVE  /\ At(v, "delete") /\ Delete(v)
         /\ codes' = [codes EXCEPT ![Key(v)] = NoRequest]
         /\ Op(v)' = Op(v) /\ Key(v)' = Key(v) /\ User(v)' = User(v)
  <1>1. task[v] # New
    BY JustReceived DEF Accepted, Done, At, Kind
  <1>2. Moves(v) /\ (RequestStep(v) \/ CallFails(v))
    BY <1>1, TaskStep DEF Accepted, Done, At, Kind, Crashes
  <1>3. Kind(v) = "validate"
    BY <1>2 DEF Moves, Accepted, Done, Kind
  <1>4. At(v, "delete")
    BY <1>2, <1>3 DEF Moves, May, Accepted, Done, At, Shaped, Control
  <1>5. ~CallFails(v)
    <2>1. ~Go(v, "error")
      BY <1>1, GoesTo DEF Accepted, Done, At
    <2>2. QED  BY <2>1 DEF CallFails, Refuse
  <1>6. Delete(v)
    BY <1>2, <1>4, <1>5 DEF RequestStep, Create, Login, GoogleFind, GoogleInsert, Lookup,
       Store, Publish, Verify, Compare, Write, Rename, At
  <1>7. QED
    BY <1>2, <1>4, <1>6 DEF Delete, SetCode, Moves, Late, At, Op, Key, User

LEMMA UsedStep ==
  ASSUME Shaped, CodeInv, [Next]_vars, NEW v \in Requests, Accepted(v)'
  PROVE  /\ Made(Op(v).code)'
         /\ User(Op(v).code)' = User(v)'
         /\ \A k \in Keys : codes'[k] # Op(v)'.code
  <1> PICK f : f = Op(v).code
    OBVIOUS
  <1>1. CASE Accepted(v)
    <2>1. task[v] # New /\ task[v].pc \notin Places
      BY <1>1 DEF Accepted, Done, At, Places
    <2>2. task'[v] = task[v]
      BY <2>1, TaskStep DEF Moves, Crashes
    <2>3. Made(f) /\ User(f) = User(v) /\ \A k \in Keys : codes[k] # f
      BY <1>1 DEF CodeInv, CodesUsed
    <2>4. Op(v)' = Op(v) /\ User(v)' = User(v)
      BY <2>2 DEF Op, User
    <2>5. Made(f)' /\ User(f)' = User(f)
      BY <2>3, MadeStays
    <2>6. ASSUME NEW k \in Keys PROVE codes'[k] # f
      <3>1. ASSUME NEW r \in Requests, At(r, "store"), codes'[k] = r PROVE codes'[k] # f
        BY <2>3, <3>1 DEF Made, At
      <3>2. f # NoRequest
        BY <2>3, NoRequestAssumption DEF Made
      <3>3. QED  BY <2>3, <3>1, <3>2, CodesMove
    <2>7. QED  BY <2>3, <2>4, <2>5, <2>6 DEF Op, User
  <1>2. CASE ~Accepted(v)
    <2>1. /\ At(v, "delete")
          /\ codes' = [codes EXCEPT ![Key(v)] = NoRequest]
          /\ Op(v)' = Op(v) /\ User(v)' = User(v)
      BY <1>2, JustAccepted
    <2>2. Made(f) /\ Key(f) = Key(v)
      BY <2>1 DEF CodeInv, CodesMatched
    <2>3. Made(f)' /\ User(f)' = User(f) /\ User(f) = User(v)
      BY <2>2, MadeStays DEF Key, User
    <2>4. ASSUME NEW k \in Keys PROVE codes'[k] # f
      <3>1. f # NoRequest
        BY <2>2, NoRequestAssumption DEF Made
      <3>2. codes'[k] = IF k = Key(v) THEN NoRequest ELSE codes[k]
        BY <2>1 DEF Shaped, TypeOK
      <3>3. codes[k] = f => k = Key(v)
        BY <2>2, <3>1 DEF CodeInv, StoredCodes
      <3>4. QED  BY <3>1, <3>2, <3>3
    <2>5. QED  BY <2>1, <2>3, <2>4 DEF Op, User
  <1>3. QED  BY <1>1, <1>2

LEMMA CodeInvStep ==
  ASSUME Shaped, CodeInv, [Next]_vars
  PROVE  CodeInv'
  <1>1. ASSUME NEW k \in Keys, codes'[k] # NoRequest
        PROVE  Made(codes[k])' /\ Key(codes[k])' = k
    <2>1. CASE codes'[k] = codes[k]
      <3> PICK f : f = codes[k]
        OBVIOUS
      <3>1. Made(f) /\ Key(f) = k
        BY <1>1, <2>1 DEF CodeInv, StoredCodes
      <3>2. Made(f)' /\ Key(f)' = k
        BY <3>1, MadeStays
      <3>3. codes'[k] = f
        BY <2>1
      <3>4. QED  BY <3>2, <3>3 DEF Made, Key, Kind
    <2>2. ASSUME NEW r \in Requests, codes'[k] = r, Made(r)', Key(r)' = k
          PROVE  Made(codes[k])' /\ Key(codes[k])' = k
      BY <2>2 DEF Made, Key, Kind
    <2>3. QED  BY <1>1, <2>1, <2>2, CodesMove
  <1>2. StoredCodes'
    BY <1>1 DEF StoredCodes
  <1>3. CodesMatched'
    BY MatchedStep DEF CodesMatched
  <1>4. CodesUsed'
    BY UsedStep DEF CodesUsed
  <1>5. QED  BY <1>2, <1>3, <1>4 DEF CodeInv

LEMMA InitCodes == Init => CodeInv
  BY DEF Init, CodeInv, StoredCodes, CodesMatched, CodesUsed, Accepted, Done, At, New, Keys

LEMMA CodesAlways == Spec => [](Shaped /\ CodeInv)
  <1>1. Init => Shaped /\ CodeInv
    BY InitShaped, InitCodes
  <1>2. Shaped /\ CodeInv /\ [Next]_vars => (Shaped /\ CodeInv)'
    BY NextShaped, CodeInvStep
  <1>3. QED  BY <1>1, <1>2, PTL DEF Spec

(* A reset code that was accepted is gone for good.                        *)
THEOREM CodeSpentCorrect == Spec => []CodeSpent
  <1>1. Shaped /\ CodeInv => CodeSpent
    BY DEF CodeInv, CodesUsed, CodeSpent
  <1>2. QED  BY <1>1, CodesAlways, PTL

----------------------------------------------------------------------------
\* A password is reset by a validated code.

Backed(u) ==
    \E v \in Requests : Accepted(v) /\ User(v) = u /\ User(Op(v).code) = u
CanUpdate(t) == t \in Tokens /\ t.canUpdate

CookiesBacked == \A c \in Clients : CanUpdate(reset[c]) => Backed(reset[c].user)
TasksBacked ==
    \A r \in Requests :
        /\ task[r] # New /\ CanUpdate(task[r].token) => Backed(task[r].token.user)
        /\ At(r, "write") => Backed(User(r))
PasswordsBacked ==
    \A u \in Users : \A r \in Requests :
        Exists(u) /\ users[u].password = r =>
            task[r] # New /\ (Kind(r) = "update" => Backed(u))
BackedInv == CookiesBacked /\ TasksBacked /\ PasswordsBacked

(* A code that was validated stays so. *)
LEMMA BackedStays ==
  ASSUME Shaped, CodeInv, [Next]_vars, NEW u, Backed(u)
  PROVE  Backed(u)'
  <1> PICK v \in Requests : Accepted(v) /\ User(v) = u /\ User(Op(v).code) = u
    BY DEF Backed
  <1>1. task[v] # New /\ task[v].pc \notin Places
    BY DEF Accepted, Done, At, Places
  <1>2. task'[v] = task[v]
    BY <1>1, TaskStep DEF Moves, Crashes
  <1> PICK f : f = Op(v).code
    OBVIOUS
  <1>3. Made(f)
    BY DEF CodeInv, CodesUsed
  <1>4. User(f)' = u
    BY <1>3, MadeStays
  <1>5. Accepted(v)' /\ User(v)' = u /\ Op(v)'.code = f
    BY <1>1, <1>2 DEF Accepted, Done, At, User, Kind, Op
  <1>6. QED  BY <1>4, <1>5 DEF Backed, User, Op

LEMMA DeleteBacks ==
  ASSUME Shaped, CodeInv, [Next]_vars, NEW r \in Requests, Delete(r)
  PROVE  Backed(User(r))'
  <1> PICK u : u = User(r)
    OBVIOUS
  <1> PICK f : f = Op(r).code
    OBVIOUS
  <1>1. task[r] # New /\ At(r, "delete") /\ Kind(r) = "validate"
    BY DEF Delete, At, New, Shaped, Control
  <1>2. Made(f) /\ User(f) = u
    BY <1>1 DEF CodeInv, CodesMatched, Key, User
  <1>3. User(f)' = u
    BY <1>2, MadeStays
  <1>4. Moves(r) /\ task'[r].pc = "ok"
    BY <1>1, StepMoves, GoesTo DEF RequestStep, Delete, GiveToken
  <1>5. Accepted(r)' /\ User(r)' = u /\ Op(r)'.code = f
    BY <1>1, <1>4 DEF Moves, Late, Accepted, Done, At, User, Kind, Op, New
  <1>6. QED  BY <1>3, <1>5 DEF Backed, User, Op

(* The reset cookies a step may leave. *)
LEMMA ResetMoves ==
  ASSUME Shaped, CodeInv, [Next]_vars, NEW c \in Clients, CanUpdate(reset[c])'
  PROVE  reset'[c] = reset[c] \/ Backed(reset[c].user)'
  <1>1. CanUpdate(NoToken) = FALSE
    BY TokenFacts DEF CanUpdate
  <1>2. ASSUME reset'[c] \in {reset[c], NoToken}
        PROVE  reset'[c] = reset[c]
    BY <1>1, <1>2 DEF CanUpdate
  <1>3. ASSUME NEW r \in Requests, Publish(r)
        PROVE  reset'[c] = reset[c]
    <2>1. GiveToken(r, FALSE, r)
      BY <1>3 DEF Publish
    <2>2. reset' = [reset EXCEPT ![Client(r)] =
                      [user |-> User(r), email |-> task[r].email,
                       canUpdate |-> FALSE, code |-> r]]
      BY <2>1 DEF GiveToken
    <2>3. QED  BY <2>2 DEF CanUpdate, Shaped, TypeOK
  <1>4. ASSUME NEW r \in Requests, Delete(r)
        PROVE  reset'[c] = reset[c] \/ Backed(reset[c].user)'
    <2> PICK u : u = User(r)
      OBVIOUS
    <2>1. GiveToken(r, TRUE, Op(r).code)
      BY <1>4 DEF Delete
    <2>2. reset' = [reset EXCEPT ![Client(r)] =
                      [user |-> u, email |-> task[r].email,
                       canUpdate |-> TRUE, code |-> Op(r).code]]
      BY <2>1 DEF GiveToken
    <2>3. reset'[c] = reset[c] \/ reset'[c].user = u
      BY <2>2 DEF Shaped, TypeOK
    <2>4. User(r)' = u
      <3>1. At(r, "delete") /\ Moves(r)
        BY <1>4, StepMoves DEF RequestStep, Delete
      <3>2. QED  BY <3>1 DEF Moves, At, Late, User
    <2>5. Backed(u)'
      BY <1>4, <2>4, DeleteBacks DEF Backed
    <2>6. QED  BY <2>3, <2>5 DEF Backed
  <1>5. ASSUME NEW r \in Requests, RequestStep(r) \/ CallFails(r), ~Publish(r), ~Delete(r)
        PROVE  reset'[c] = reset[c]
    <2>1. CASE Write(r)
      BY <1>2, <2>1 DEF Write, Shaped, TypeOK
    <2>2. CASE ~Write(r)
      BY <1>5, <2>2 DEF RequestStep, CallFails, Create, Login, GoogleFind, GoogleInsert, Lookup,
         Store, Verify, Compare, Rename, Refuse, Accept, LogIn
    <2>3. QED  BY <2>1, <2>2
  <1>6. ASSUME NEW r \in Requests, Receive(r)
        PROVE  reset'[c] = reset[c]
    BY <1>2, <1>6 DEF Receive, Shaped, TypeOK
  <1>7. ASSUME NEW d \in Clients, ExpireCookie(d)
        PROVE  reset'[c] = reset[c]
    BY <1>2, <1>7 DEF ExpireCookie, Shaped, TypeOK
  <1>8. QED
    BY <1>3, <1>4, <1>5, <1>6, <1>7 DEF Next, vars, accountVars, ExpireCode, Crash

(* The passwords a step may leave. *)
LEMMA PasswordMoves ==
  ASSUME Shaped, [Next]_vars, NEW u \in Users, NEW p \in Requests,
         Exists(u)', users'[u].password = p
  PROVE  \/ Exists(u) /\ users[u].password = p
         \/ At(p, "insert") /\ Kind(p) \in {"create", "google"}
         \/ At(p, "write") /\ User(p) = u
  <1>1. ASSUME NEW r \in Requests, NEW x \in Users, Insert(r, x), At(r, "insert")
        PROVE  \/ Exists(u) /\ users[u].password = p
               \/ At(p, "insert") /\ Kind(p) \in {"create", "google"}
    <2>1. users' = [users EXCEPT ![x] = [email |-> Op(r).email, password |-> r]]
      BY <1>1 DEF Insert
    <2>2. CASE x = u
      BY <1>1, <2>1, <2>2 DEF Shaped, TypeOK, Control
    <2>3. CASE x # u
      BY <2>1, <2>3 DEF Shaped, TypeOK, Exists
    <2>4. QED  BY <2>2, <2>3
  <1>2. ASSUME NEW r \in Requests, At(r, "write"), SetPassword(r)
        PROVE  \/ Exists(u) /\ users[u].password = p
               \/ At(p, "write") /\ User(p) = u
    <2>1. User(r) \in Users /\ Exists(User(r))
      BY <1>2, OwnerExists DEF Shaped, Control, At
    <2>2. users' = [users EXCEPT ![User(r)] = [users[User(r)] EXCEPT !.password = r]]
      BY <1>2 DEF SetPassword
    <2>3. CASE User(r) = u
      <3>1. users[u] \in Rows
        BY <2>1, <2>3 DEF Shaped, TypeOK, Exists
      <3>2. users'[u].password = r
        BY <2>2, <2>3, <3>1 DEF Rows, Shaped, TypeOK
      <3>3. QED  BY <1>2, <2>3, <3>2
    <2>4. CASE User(r) # u
      BY <2>1, <2>2, <2>4 DEF Shaped, TypeOK, Exists
    <2>5. QED  BY <2>3, <2>4
  <1>3. ASSUME NEW r \in Requests, At(r, "rename"), SetEmail(r)
        PROVE  Exists(u) /\ users[u].password = p
    <2>1. User(r) \in Users /\ Exists(User(r))
      BY <1>3, OwnerExists DEF Shaped, Control, At
    <2>2. users' = [users EXCEPT ![User(r)] = [users[User(r)] EXCEPT !.email = Op(r).email]]
      BY <1>3 DEF SetEmail
    <2>3. CASE User(r) = u
      <3>1. users[u] \in Rows
        BY <2>1, <2>3 DEF Shaped, TypeOK, Exists
      <3>2. users'[u].password = users[u].password
        BY <2>2, <2>3, <3>1 DEF Rows, Shaped, TypeOK
      <3>3. QED  BY <2>1, <2>3, <3>2
    <2>4. CASE User(r) # u
      BY <2>1, <2>2, <2>4 DEF Shaped, TypeOK, Exists
    <2>5. QED  BY <2>3, <2>4
  <1>4. CASE UNCHANGED users
    BY <1>4 DEF Exists
  <1>5. ASSUME NEW r \in Requests, RequestStep(r) \/ CallFails(r)
        PROVE  \/ UNCHANGED users
               \/ \E x \in Users : Insert(r, x) /\ At(r, "insert")
               \/ At(r, "write") /\ SetPassword(r)
               \/ At(r, "rename") /\ SetEmail(r)
    BY <1>5 DEF RequestStep, CallFails, Create, Login, GoogleFind, GoogleInsert, Lookup, Store,
       Publish, Verify, Compare, Delete, Write, Rename
  <1>6. QED
    BY <1>1, <1>2, <1>3, <1>4, <1>5 DEF Next, vars, accountVars, Receive, ExpireCode,
       ExpireCookie, Crash

(* How a request comes to where it writes a new password. *)
LEMMA JustAdmitted ==
  ASSUME Shaped, [Next]_vars, NEW r \in Requests, At(r, "write")', ~At(r, "write")
  PROVE  /\ task[r] # New /\ CanUpdate(task[r].token)
         /\ User(r)' = task[r].token.user
  <1>1. task[r] # New
    BY JustReceived DEF At, New
  <1>2. Moves(r) /\ (RequestStep(r) \/ CallFails(r))
    BY <1>1, TaskStep DEF At, Crashes
  <1>3. At(r, "verify")
    BY <1>2 DEF Moves, May, At
  <1>4. Kind(r) = "update"
    <2>1. Kind(r)' = "update"
      BY NextShaped DEF Shaped, Control
    <2>2. QED  BY <1>2, <2>1 DEF Moves, Kind
  <1>5. ~Go(r, "error")
    BY <1>1, GoesTo DEF At
  <1>6. Verify(r)
    BY <1>2, <1>3, <1>5 DEF RequestStep, CallFails, Refuse, Create, Login, GoogleFind,
       GoogleInsert, Lookup, Store, Publish, Compare, Delete, Write, Rename, At
  <1>7. /\ task[r].token # NoToken /\ task[r].token.canUpdate
        /\ GoWith(r, "write", task[r].token.user)
    BY <1>4, <1>5, <1>6 DEF Verify, Admits, AdmittedUser, NextPlace
  <1>8. task[r].token \in Tokens
    BY <1>1, <1>7, ShapedParts DEF RequestOK, Started
  <1>9. task'[r].user = task[r].token.user
    <2>1. task[r] \in Started
      BY <1>1, ShapedParts DEF RequestOK
    <2>2. QED  BY <1>7, <2>1 DEF GoWith, Become, Started, Shaped, TypeOK
  <1>10. QED  BY <1>1, <1>7, <1>8, <1>9 DEF CanUpdate, User

LEMMA BackedInvStep ==
  ASSUME Shaped, CodeInv, BackedInv, [Next]_vars
  PROVE  BackedInv'
  <1>1. CookiesBacked'
    <2>1. ASSUME NEW c \in Clients, CanUpdate(reset[c])'
          PROVE  Backed(reset[c].user)'
      <3>1. CASE reset'[c] = reset[c]
        <4> PICK u : u = reset[c].user
          OBVIOUS
        <4>1. Backed(u)
          BY <2>1, <3>1 DEF BackedInv, CookiesBacked, CanUpdate
        <4>2. Backed(u)'
          BY <4>1, BackedStays
        <4>3. reset'[c].user = u
          BY <3>1
        <4>4. QED  BY <4>2, <4>3 DEF Backed
      <3>2. QED  BY <2>1, <3>1, ResetMoves
    <2>2. QED  BY <2>1 DEF CookiesBacked
  <1>2. TasksBacked'
    <2>1. ASSUME NEW r \in Requests, task'[r] # New, CanUpdate(task[r].token)'
          PROVE  Backed(task[r].token.user)'
      <3> PICK t : t = task'[r].token
        OBVIOUS
      <3>1. CASE task[r] = New
        <4>1. PICK c \in Clients : t = reset[c]
          BY <2>1, <3>1, JustReceived
        <4>2. Backed(t.user)
          BY <2>1, <4>1 DEF BackedInv, CookiesBacked, CanUpdate
        <4>3. QED  BY <4>2, BackedStays DEF Backed
      <3>2. CASE task[r] # New
        <4>1. task[r].token = t
          BY <3>2, TaskStep DEF Moves, Crashes
        <4>2. Backed(t.user)
          BY <2>1, <3>2, <4>1 DEF BackedInv, TasksBacked, CanUpdate
        <4>3. QED  BY <4>2, BackedStays DEF Backed
      <3>3. QED  BY <3>1, <3>2
    <2>2. ASSUME NEW r \in Requests, At(r, "write")'
          PROVE  Backed(User(r))'
      <3> PICK u : u = User(r)'
        OBVIOUS
      <3>1. CASE At(r, "write")
        <4>1. task[r] # New
          BY <3>1 DEF At, New
        <4>2. User(r) = u
          BY <3>1, <4>1, TaskStep DEF Moves, Crashes, User, At, Late
        <4>3. Backed(u)
          BY <3>1, <4>2 DEF BackedInv, TasksBacked
        <4>4. QED  BY <4>3, BackedStays DEF Backed
      <3>2. CASE ~At(r, "write")
        <4>1. task[r] # New /\ CanUpdate(task[r].token) /\ u = task[r].token.user
          BY <2>2, <3>2, JustAdmitted
        <4>2. Backed(u)
          BY <4>1 DEF BackedInv, TasksBacked
        <4>3. QED  BY <4>2, BackedStays DEF Backed
      <3>3. QED  BY <3>1, <3>2
    <2>3. QED  BY <2>1, <2>2 DEF TasksBacked
  <1>3. PasswordsBacked'
    <2>1. ASSUME NEW u \in Users, NEW r \in Requests, Exists(u)', users'[u].password = r
          PROVE  task'[r] # New /\ (Kind(r)' = "update" => Backed(u)')
      <3>1. task[r] # New /\ (Kind(r) = "update" => Backed(u))
        <4>1. CASE Exists(u) /\ users[u].password = r
          BY <4>1 DEF BackedInv, PasswordsBacked
        <4>2. CASE At(r, "insert") /\ Kind(r) \in {"create", "google"}
          BY <4>2 DEF At, New
        <4>3. CASE At(r, "write") /\ User(r) = u
          BY <4>3 DEF At, New, BackedInv, TasksBacked
        <4>4. QED  BY <2>1, <4>1, <4>2, <4>3, PasswordMoves
      <3>2. task'[r] # New /\ Kind(r)' = Kind(r)
        <4>1. task[r] # New
          BY <3>1
        <4>2. CASE task'[r] = task[r]
          BY <4>1, <4>2 DEF Kind
        <4>3. CASE Moves(r)
          BY <4>3 DEF Moves, May, New, Kind
        <4>4. CASE Crashes(r)
          BY <4>4 DEF Crashes, New, Kind
        <4>5. QED  BY <4>1, <4>2, <4>3, <4>4, TaskStep
      <3>3. QED  BY <3>1, <3>2, BackedStays
    <2>2. QED  BY <2>1 DEF PasswordsBacked
  <1>4. QED  BY <1>1, <1>2, <1>3 DEF BackedInv

LEMMA InitBacked == Init => BackedInv
  <1> SUFFICES ASSUME Init PROVE BackedInv
    OBVIOUS
  <1>1. CookiesBacked
    BY TokenFacts DEF Init, CookiesBacked, CanUpdate
  <1>2. TasksBacked
    BY DEF Init, TasksBacked, At, New
  <1>3. PasswordsBacked
    <2>1. ASSUME NEW u \in Users, Exists(u)
          PROVE  users[u].password = OldPassword
      BY <2>1 DEF Init, Exists
    <2>2. QED  BY <2>1, NamesAssumption DEF PasswordsBacked
  <1>4. QED  BY <1>1, <1>2, <1>3 DEF BackedInv

(* Nobody's password is reset without a code of that account having been   *)
(* validated first: the cookie of the first stage is not enough, whatever  *)
(* requests, failures and new addresses come between.                      *)
THEOREM ChangeBackedCorrect == Spec => []ChangeBacked
  <1>1. Init => BackedInv
    BY InitBacked
  <1>2. Shaped /\ CodeInv /\ BackedInv /\ [Next]_vars => BackedInv'
    BY BackedInvStep
  <1>3. BackedInv => ChangeBacked
    BY DEF BackedInv, PasswordsBacked, ChangeBacked, Backed
  <1>4. QED  BY <1>1, <1>2, <1>3, CodesAlways, PTL DEF Spec

----------------------------------------------------------------------------
\* The mails of the API.

LEMMA MailSteps ==
  ASSUME [Next]_vars
  PROVE  MailStep \/ (\E m \in Requests : Enqueue(m)) \/ UNCHANGED mailVars
  <1>1. ASSUME NEW r \in Requests, RequestStep(r) \/ CallFails(r)
        PROVE  Enqueue(r) \/ UNCHANGED mailVars
    BY <1>1 DEF RequestStep, CallFails, Create, Login, GoogleFind, GoogleInsert, Lookup, Store,
       Publish, Verify, Compare, Delete, Write, Rename
  <1>2. QED
    BY <1>1 DEF Next, vars, Receive, ExpireCode, ExpireCookie, Crash

LEMMA MailAlways == Spec => [](Shaped /\ WorkerTrue /\ MailInv)
  <1>1. Init => Shaped /\ WorkerTrue /\ MailInv
    BY InitShaped, InitMail DEF Init
  <1>2. Shaped /\ WorkerTrue /\ MailInv /\ [Next]_vars => (Shaped /\ WorkerTrue /\ MailInv)'
    BY NextShaped, MailSteps, MailStepInv DEF Shaped, TypeOK
  <1>3. QED  BY <1>1, <1>2, PTL DEF Spec

(* No mail is lost on the way and none overtakes another, whenever the     *)
(* worker or the API dies.                                                 *)
THEOREM MailPipelineCorrect == Spec => []MailPipeline
  <1>1. Shaped /\ MailInv => MailPipeline
    BY MailSafe DEF Shaped, TypeOK
  <1>2. QED  BY <1>1, MailAlways, PTL

(* Mails arrive in the order in which they were published.                 *)
THEOREM MailsInOrderCorrect == Spec => []MailsInOrder
  <1>1. MailInv => MailsInOrder
    BY DEF MailInv
  <1>2. QED  BY <1>1, MailAlways, PTL

(* To the API, broker and worker are an outbox: mails go out one after the *)
(* other in the order in which they were accepted, each until it arrived   *)
(* or was rejected, whichever process dies.                                *)
THEOREM MailsImplementOutbox == Spec => ImplementsOutbox
  <1>1. Init => Box!Init
    BY InitBox DEF Init
  <1>2. Shaped /\ WorkerTrue /\ MailInv /\ [Next]_vars => [Box!Next]_(Box!vars)
    BY MailSteps, MailStepBox DEF Shaped, TypeOK
  <1>3. QED  BY <1>1, <1>2, MailAlways, PTL DEF Spec, ImplementsOutbox, Box!Spec

----------------------------------------------------------------------------
\* A code counts at the address its mail went to.

(* The address a code was asked for is the one it is stored under. *)
AddressKept ==
    \A f \in Requests :
        task[f] # New /\ Kind(f) = "forget" /\ task[f].email \in Emails =>
            task[f].email = Op(f).email

(* As long as requests are served one at a time, the address a request has *)
(* read is the one the account has.                                        *)
Alone == ~overlapped => \A q, r \in Open : q = r
RowFresh ==
    ~overlapped =>
        \A r \in Requests :
            task[r].pc \in {"compare", "delete"} => users[User(r)].email = task[r].email

AddressInv == AddressKept /\ Alone /\ RowFresh

(* An address changes hands in a rename only, and a new account gets one.  *)
LEMMA KeptAddress ==
  ASSUME Shaped, [Next]_vars, NEW f \in Requests, task'[f] # New, Kind(f)' = "forget",
         task'[f].email \in Emails, AddressKept
  PROVE  task'[f].email = Op(f)'.email
  <1>1. task[f] # New
    BY JustReceived, NamesAssumption
  <1>2. CASE task'[f] = task[f]
    BY <1>1, <1>2 DEF AddressKept, Kind, Op
  <1>3. CASE Crashes(f)
    BY <1>1, <1>3 DEF AddressKept, Kind, Op, Crashes
  <1>4. CASE Moves(f) /\ (RequestStep(f) \/ CallFails(f))
    <2>1. Kind(f) = "forget" /\ Op(f)' = Op(f)
      BY <1>4 DEF Moves, Kind, Op
    <2>2. task[f].pc \in {"lookup", "store", "publish"}
      <3>1. task[f].pc \in Places /\ Control(f)
        BY <1>4 DEF Moves, Shaped
      <3>2. QED  BY <2>1, <3>1 DEF Places, Control, At
    <2>3. CASE task[f].pc \in {"store", "publish"}
      BY <1>1, <1>4, <2>1, <2>3 DEF Moves, Late, AddressKept
    <2>4. CASE task[f].pc = "lookup"
      <3> PICK t \in Started : t = task[f]
        BY <1>1, ShapedParts DEF RequestOK
      <3>1. CASE Go(f, "error")
        <4>1. task'[f].email = task[f].email
          BY <3>1 DEF Go, Become, Started, Shaped, TypeOK
        <4>2. QED  BY <1>1, <2>1, <4>1 DEF AddressKept
      <3>2. ASSUME NEW u \in Holder(Op(f).email), GoWith(f, "store", u)
            PROVE  task'[f].email = Op(f)'.email
        <4>1. users[u].email = Op(f).email
          BY DEF Holder
        <4>2. task'[f].email = users[u].email
          BY <3>2 DEF GoWith, Become, Started, Shaped, TypeOK
        <4>3. QED  BY <2>1, <4>1, <4>2
      <3>3. Lookup(f) \/ CallFails(f)
        BY <1>4, <2>4 DEF RequestStep, Create, Login, GoogleFind, GoogleInsert, Store, Publish,
           Verify, Compare, Delete, Write, Rename, At
      <3>4. QED  BY <3>1, <3>2, <3>3 DEF Lookup, CallFails, Refuse
    <2>5. QED  BY <2>2, <2>3, <2>4
  <1>5. QED  BY <1>1, <1>2, <1>3, <1>4, TaskStep

(* Who is served after a step. *)
LEMMA AloneStep ==
  ASSUME Shaped, [Next]_vars, Alone
  PROVE  Alone'
  <1>1. ASSUME NEW r \in Requests, Receive(r), ~overlapped'
        PROVE  \A q \in Open' : q = r
    <2>1. Open = {}
      BY <1>1 DEF Receive, Shaped, TypeOK
    <2>2. \A q \in Requests \ {r} : task'[q] = task[q]
      BY <1>1 DEF Receive, Become, Shaped, TypeOK
    <2>3. QED  BY <2>1, <2>2 DEF Open
  <1>2. ASSUME NEW r \in Requests, RequestStep(r) \/ CallFails(r)
        PROVE  Open' \subseteq Open /\ overlapped' = overlapped
    <2>1. Moves(r)
      BY <1>2, StepMoves
    <2>2. Open' \subseteq Open
      BY <2>1 DEF Moves, Open
    <2>3. overlapped' = overlapped
      BY <1>2 DEF RequestStep, CallFails, Create, Login, GoogleFind, GoogleInsert, Lookup, Store,
         Publish, Verify, Compare, Delete, Write, Rename, historyVars
    <2>4. QED  BY <2>2, <2>3
  <1>3. CASE Crash
    BY <1>3 DEF Crash, Open, Places, historyVars, Alone, Shaped, TypeOK
  <1>4. CASE task' = task /\ overlapped' = overlapped
    BY <1>4 DEF Alone, Open
  <1>5. QED
    BY <1>1, <1>2, <1>3, <1>4 DEF Alone, Next, vars, accountVars, ExpireCode, ExpireCookie,
       historyVars

LEMMA FreshStep ==
  ASSUME Shaped, [Next]_vars, AddressInv, ~overlapped',
         NEW r \in Requests, task'[r].pc \in {"compare", "delete"}
  PROVE  users'[User(r)'].email = task'[r].email
  <1>1. task[r] # New
    BY JustReceived, NewTask DEF New
  <1>2. CASE task'[r] = task[r]
    <2>1. r \in Open /\ ~overlapped
      <3>1. r \in Open
        BY <1>2 DEF Open, Places
      <3>2. \A q \in Requests : Receive(q) => overlapped'
        BY <3>1 DEF Receive
      <3>3. overlapped' = overlapped
        BY <3>2 DEF Next, vars, accountVars, RequestStep, CallFails, Create, Login, GoogleFind,
           GoogleInsert, Lookup, Store, Publish, Verify, Compare, Delete, Write, Rename,
           ExpireCode, ExpireCookie, Crash, historyVars
      <3>4. QED  BY <3>1, <3>3
    <2>2. ASSUME NEW q \in Requests, RequestStep(q) \/ CallFails(q)
          PROVE  FALSE
      <3>1. Moves(q)
        BY <2>2, StepMoves
      <3>2. q \in Open
        BY <3>1 DEF Moves, Open
      <3>3. q = r
        BY <2>1, <3>2 DEF AddressInv, Alone
      <3>4. QED  BY <1>2, <3>1, <3>3 DEF Moves, May
    <2>3. UNCHANGED users
      BY <2>2 DEF Next, vars, accountVars, Receive, ExpireCode, ExpireCookie, Crash
    <2>4. QED  BY <1>2, <2>1, <2>3 DEF AddressInv, RowFresh, User
  <1>3. CASE Moves(r) /\ (RequestStep(r) \/ CallFails(r))
    <2>1. overlapped' = overlapped
      BY <1>3 DEF RequestStep, CallFails, Create, Login, GoogleFind, GoogleInsert, Lookup, Store,
         Publish, Verify, Compare, Delete, Write, Rename, historyVars
    <2>2. ~Go(r, "error")
      BY <1>1, GoesTo
    <2>3. task[r].pc \in {"verify", "compare"}
      BY <1>3 DEF Moves, May
    <2>4. Verify(r) \/ Compare(r)
      BY <1>3, <2>2, <2>3 DEF RequestStep, CallFails, Refuse, Create, Login, GoogleFind,
         GoogleInsert, Lookup, Store, Publish, Delete, Write, Rename, At
    <2>5. CASE Verify(r)
      <3> PICK u : u = AdmittedUser(r)
        OBVIOUS
      <3> PICK place : place = NextPlace(Kind(r))
        OBVIOUS
      <3>1. GoWith(r, place, u) /\ users' = users
        BY <2>2, <2>5 DEF Verify
      <3>2. task[r] \in Started
        BY <1>1, ShapedParts DEF RequestOK
      <3>3. task'[r].user = u /\ task'[r].email = users[u].email
        BY <3>1, <3>2 DEF GoWith, Become, Started, Shaped, TypeOK
      <3>4. QED  BY <3>1, <3>3 DEF User
    <2>6. CASE Compare(r)
      BY <1>3, <2>1, <2>6 DEF Moves, Late, Compare, At, AddressInv, RowFresh, User
    <2>7. QED  BY <2>4, <2>5, <2>6
  <1>4. CASE Crashes(r)
    BY <1>4 DEF Crashes
  <1>5. QED  BY <1>1, <1>2, <1>3, <1>4, TaskStep

LEMMA AddressAlways == Spec => [](Shaped /\ CodeInv /\ AddressInv)
  <1>1. Init => AddressInv
    BY DEF Init, AddressInv, AddressKept, Alone, RowFresh, Open, New, Places
  <1>2. Shaped /\ AddressInv /\ [Next]_vars => AddressInv'
    BY KeptAddress, AloneStep, FreshStep DEF AddressInv, AddressKept, RowFresh
  <1>3. QED  BY <1>1, <1>2, CodesAlways, PTL DEF Spec

(* A code is accepted for the account it was made for and at the address   *)
(* its mail went to.                                                       *)
THEOREM CodeAtAddressCorrect == Spec => CodeAtAddress
  <1>1. ASSUME Shaped, CodeInv, AddressInv, [Next]_vars,
               NEW v \in Requests, Accepted(v)', ~Accepted(v)
        PROVE  LET f == Op(v).code
               IN  /\ f \in Requests /\ Kind(f) = "forget"
                   /\ User(f) = User(v) /\ Op(f).email = task[v].email
                   /\ ~overlapped => users[User(v)].email = Op(f).email
    <2> PICK f : f = Op(v).code
      OBVIOUS
    <2>1. At(v, "delete")
      BY <1>1, JustAccepted
    <2>2. Made(f) /\ Key(f) = Key(v)
      BY <1>1, <2>1 DEF CodeInv, CodesMatched
    <2>3. task[v].email \in Emails
      BY <1>1, <2>1 DEF Shaped, Control, At
    <2>4. User(f) = User(v) /\ task[f].email = task[v].email
      BY <2>2 DEF Key, User
    <2>5. Op(f).email = task[v].email
      BY <1>1, <2>2, <2>3, <2>4 DEF AddressInv, AddressKept, Made, New
    <2>6. ~overlapped => users[User(v)].email = task[v].email
      BY <1>1, <2>1 DEF AddressInv, RowFresh, At
    <2>7. QED  BY <2>2, <2>4, <2>5, <2>6 DEF Made
  <1>2. Shaped /\ CodeInv /\ AddressInv /\ [Next]_vars =>
           [\A v \in Requests :
               Accepted(v)' /\ ~Accepted(v) =>
                   LET f == Op(v).code
                   IN  /\ f \in Requests /\ Kind(f) = "forget"
                       /\ User(f) = User(v) /\ Op(f).email = task[v].email
                       /\ ~overlapped => users[User(v)].email = Op(f).email]_vars
    BY <1>1
  <1>3. QED  BY <1>2, AddressAlways, PTL DEF Spec, CodeAtAddress

----------------------------------------------------------------------------
\* The code of the newest mail works.

Used(f) == \E v \in Requests : Accepted(v) /\ Op(v).code = f

(* The code works, or ran out, or was used. *)
Stands(f) == codes[Key(f)] = f \/ f \in expired \/ Used(f)

(* A newer mail took the place of mail i, or is just about to. *)
Overtaken(i) ==
    \/ \E j \in DOMAIN published : i < j /\ Key(published[j]) = Key(published[i])
    \/ \E r \in Requests : At(r, "publish") /\ Key(r) = Key(published[i])

Calm == ~overlapped /\ faults = 0

(* As long as requests are served one at a time and nothing fails: a code  *)
(* gets into Redis just before its mail is published, and out only when it *)
(* runs out, is used, or is replaced by the next.                          *)
MailsStand ==
    \A i \in DOMAIN published :
        /\ Made(published[i]) /\ Key(published[i]) \in Keys
        /\ Stands(published[i]) \/ Overtaken(i)
SenderStands == \A r \in Requests : At(r, "publish") => Stands(r)
DeleterMatches ==
    \A v \in Requests : At(v, "delete") => codes[Key(v)] \in {NoRequest, Op(v).code}
NewestInv ==
    Calm => /\ published # <<>> => declared
            /\ MailsStand
            /\ SenderStands
            /\ DeleterMatches

LEMMA AcceptedStays ==
  ASSUME Shaped, [Next]_vars, NEW v \in Requests, Accepted(v)
  PROVE  task'[v] = task[v] /\ Accepted(v)'
  <1>1. task[v] # New /\ task[v].pc \notin Places
    BY DEF Accepted, Done, At, Places
  <1>2. task'[v] = task[v]
    BY <1>1, TaskStep DEF Moves, Crashes
  <1>3. QED  BY <1>2 DEF Accepted, Done, At, Kind

LEMMA UsedStays ==
  ASSUME Shaped, [Next]_vars, NEW f, Used(f)
  PROVE  Used(f)'
  <1>1. PICK v \in Requests : Accepted(v) /\ Op(v).code = f
    BY DEF Used
  <1>2. task'[v] = task[v] /\ Accepted(v)'
    BY <1>1, AcceptedStays
  <1>3. QED  BY <1>1, <1>2 DEF Used, Op

(* A calm state comes from a calm state, by a step that does not fail.     *)
LEMMA CalmBefore ==
  ASSUME Shaped, [Next]_vars, Calm'
  PROVE  /\ Calm
         /\ expired \subseteq expired'
         /\ \A r \in Requests : ~CallFails(r)
         /\ ~Crash
         /\ MailStep => WorkerStep
  <1>1. ~Fault /\ faults' = faults
    <2>1. ~Fault
      BY DEF Fault, Calm, Shaped, TypeOK
    <2>2. QED
      BY <2>1 DEF Next, vars, Receive, RequestStep, CallFails, ExpireCode, ExpireCookie, Crash,
         MailStep, SendFails, WorkerCrash, Create, Login, GoogleFind, GoogleInsert, Lookup,
         Store, Publish, Verify, Compare, Delete, Write, Rename
  <1>2. ~overlapped /\ expired \subseteq expired'
    BY DEF Calm, Next, vars, accountVars, historyVars, Receive, RequestStep, CallFails,
       ExpireCode, ExpireCookie, Crash, Create, Login, GoogleFind, GoogleInsert, Lookup,
       Store, Publish, Verify, Compare, Delete, Write, Rename, Shaped, TypeOK
  <1>3. QED
    BY <1>1, <1>2 DEF Calm, CallFails, Crash, MailStep, SendFails, WorkerCrash

(* Whoever is where it was is the same request still.                      *)
LEMMA StaysPut ==
  ASSUME Shaped, [Next]_vars, NEW r \in Requests, NEW p \in {"publish", "delete"},
         At(r, p), At(r, p)'
  PROVE  task'[r] = task[r]
  <1>1. task[r] # New
    BY DEF At, New
  <1>2. QED  BY <1>1, TaskStep DEF At, Moves, May, Crashes

(* Steps that publish nothing and store no code.                           *)
Quiet ==
    /\ published' = published
    /\ declared => declared'
    /\ \A k \in Keys :
          \/ codes'[k] = codes[k]
          \/ codes'[k] = NoRequest /\ codes[k] = NoRequest
          \/ /\ codes'[k] = NoRequest
             /\ \E f \in Requests : f = codes[k] /\ (f \in expired' \/ Used(f)')
    /\ \A r \in Requests :
          /\ At(r, "publish")' <=> At(r, "publish")
          /\ At(r, "delete")' =>
                At(r, "delete") \/ codes'[Key(r)'] = Op(r)'.code

(* A code that stands does after such a step, or if its key is left alone. *)
LEMMA StandsStays ==
  ASSUME Shaped, [Next]_vars, expired \subseteq expired', NEW f, Made(f), Stands(f),
         \/ codes'[Key(f)] = codes[Key(f)]
         \/ codes[Key(f)] = f => f \in expired' \/ Used(f)'
  PROVE  Stands(f)'
  <1>1. Made(f)' /\ Key(f)' = Key(f)
    BY MadeStays
  <1>2. Used(f) => Used(f)'
    BY UsedStays
  <1>3. Stands(f)' <=> codes'[Key(f)'] = f \/ f \in expired' \/ Used(f)'
    BY DEF Stands
  <1>4. QED  BY <1>1, <1>2, <1>3 DEF Stands

LEMMA QuietStands ==
  ASSUME Shaped, [Next]_vars, expired \subseteq expired', Quiet,
         NEW f, Made(f), Key(f) \in Keys, Stands(f)
  PROVE  Stands(f)'
  <1>1. f \in Requests /\ f # NoRequest
    BY NoRequestAssumption DEF Made
  <1>2. \/ codes'[Key(f)] = codes[Key(f)]
        \/ codes[Key(f)] = NoRequest
        \/ \E g \in Requests : g = codes[Key(f)] /\ (g \in expired' \/ Used(g)')
    BY DEF Quiet
  <1>3. QED  BY <1>1, <1>2, StandsStays

(* Requests about to publish or to delete know the account.                *)
LEMMA LateFacts ==
  ASSUME Shaped, NEW r \in Requests
  PROVE  /\ At(r, "publish") => Made(r) /\ Key(r) \in Keys
         /\ At(r, "delete") => Key(r) \in Keys
  BY DEF Shaped, Control, At, Made, Key, User, Keys

LEMMA QuietNewest ==
  ASSUME Shaped, NewestInv, Calm, [Next]_vars, expired \subseteq expired', Quiet
  PROVE  NewestInv'
  <1>1. published' = published /\ (published # <<>> => declared')
    BY DEF Quiet, NewestInv
  <1>2. ASSUME NEW i \in DOMAIN published
        PROVE  /\ Made(published[i])' /\ Key(published[i])' \in Keys
               /\ Stands(published[i])' \/ Overtaken(i)'
    <2> PICK f : f = published[i]
      OBVIOUS
    <2>1. Made(f) /\ Key(f) \in Keys /\ (Stands(f) \/ Overtaken(i))
      BY DEF NewestInv, MailsStand
    <2>2. Made(f)' /\ Key(f)' = Key(f) /\ published'[i] = f
      BY <1>1, <2>1, MadeStays
    <2>3. CASE Stands(f)
      <3>1. Stands(f)'
        BY <2>1, <2>3, QuietStands
      <3>2. QED  BY <2>1, <2>2, <3>1 DEF Made, Kind, Key, Stands, Used
    <2>4. ASSUME NEW j \in DOMAIN published, i < j, Key(published[j]) = Key(f)
          PROVE  Overtaken(i)'
      <3> PICK g : g = published[j]
        OBVIOUS
      <3>1. Made(g) /\ Key(g) = Key(f)
        BY <2>4 DEF NewestInv, MailsStand
      <3>2. Key(g)' = Key(f)'
        BY <2>2, <3>1, MadeStays
      <3>3. published'[j] = g /\ j \in DOMAIN published'
        BY <1>1
      <3>4. QED  BY <2>2, <2>4, <3>2, <3>3 DEF Overtaken, Key
    <2>5. ASSUME NEW r \in Requests, At(r, "publish"), Key(r) = Key(f)
          PROVE  Overtaken(i)'
      <3>1. At(r, "publish")' /\ Made(r)
        BY <2>5, LateFacts DEF Quiet
      <3>2. Key(r)' = Key(r)
        BY <3>1, MadeStays
      <3>3. QED  BY <2>2, <2>5, <3>1, <3>2 DEF Overtaken, Key
    <2>6. QED
      BY <2>1, <2>2, <2>3, <2>4, <2>5 DEF Overtaken, Made, Kind, Key
  <1>3. MailsStand'
    BY <1>1, <1>2 DEF MailsStand
  <1>4. SenderStands'
    <2>1. ASSUME NEW r \in Requests, At(r, "publish")'
          PROVE  Stands(r)'
      <3>1. At(r, "publish") /\ Made(r) /\ Key(r) \in Keys
        BY <2>1, LateFacts DEF Quiet
      <3>2. QED  BY <3>1, QuietStands DEF NewestInv, SenderStands
    <2>2. QED  BY <2>1 DEF SenderStands
  <1>5. DeleterMatches'
    <2>1. ASSUME NEW v \in Requests, At(v, "delete")'
          PROVE  codes'[Key(v)'] \in {NoRequest, Op(v)'.code}
      <3>1. CASE codes'[Key(v)'] = Op(v)'.code
        BY <3>1
      <3>2. CASE At(v, "delete")
        <4>1. task'[v] = task[v]
          BY <2>1, <3>2, StaysPut
        <4>2. Key(v)' = Key(v) /\ Op(v)' = Op(v) /\ Key(v) \in Keys
          BY <3>2, <4>1, LateFacts DEF Key, Op
        <4>3. codes'[Key(v)] \in {NoRequest, codes[Key(v)]}
          BY <4>2 DEF Quiet
        <4>4. QED  BY <3>2, <4>2, <4>3 DEF NewestInv, DeleterMatches
      <3>3. QED  BY <2>1, <3>1, <3>2 DEF Quiet
    <2>2. QED  BY <2>1 DEF DeleterMatches
  <1>6. QED  BY <1>1, <1>3, <1>4, <1>5 DEF NewestInv

(* Requests other than the one that moves are not open. *)
LEMMA OthersShut ==
  ASSUME Alone, Calm, NEW r \in Requests, Moves(r)
  PROVE  \A q \in Requests \ {r} :
            task'[q] = task[q] /\ ~At(q, "publish") /\ ~At(q, "delete")
                               /\ ~At(q, "publish")' /\ ~At(q, "delete")'
  BY DEF Alone, Calm, Moves, Open, Places, At

(* A code is stored: whatever mail went out for its key is overtaken. *)
LEMMA StoreNewest ==
  ASSUME Shaped, Alone, NewestInv, Calm, [Next]_vars, NEW r \in Requests, Store(r)
  PROVE  NewestInv'
  <1>1. Moves(r) /\ At(r, "store")
    BY StepMoves DEF RequestStep, Store
  <1>2. /\ task'[r].pc = "publish" /\ Key(r)' = Key(r) /\ Key(r) \in Keys
        /\ \A q \in Requests \ {r} : ~At(q, "publish") /\ ~At(q, "publish")' /\ ~At(q, "delete")'
    <2>1. task[r] # New
      BY <1>1 DEF At, New
    <2>2. task'[r].pc = "publish"
      BY <2>1, GoesTo DEF Store
    <2>3. Key(r)' = Key(r) /\ Key(r) \in Keys
      BY <1>1 DEF Moves, Late, At, Key, Shaped, Control, User, Keys
    <2>4. QED  BY <1>1, <2>2, <2>3, OthersShut
  <1>3. codes' = [codes EXCEPT ![Key(r)] = r] /\ UNCHANGED <<published, declared, expired>>
    BY DEF Store, SetCode, mailVars, historyVars
  <1>4. ASSUME NEW i \in DOMAIN published
        PROVE  /\ Made(published[i])' /\ Key(published[i])' \in Keys
               /\ Stands(published[i])' \/ Overtaken(i)'
    <2> PICK f : f = published[i]
      OBVIOUS
    <2>1. Made(f) /\ Key(f) \in Keys /\ (Stands(f) \/ Overtaken(i))
      BY DEF NewestInv, MailsStand
    <2>2. Made(f)' /\ Key(f)' = Key(f) /\ published'[i] = f
      BY <1>3, <2>1, MadeStays
    <2>3. CASE Key(f) = Key(r)
      BY <1>2, <2>2, <2>3 DEF Overtaken, At, Made, Kind, Key
    <2>4. CASE Key(f) # Key(r) /\ Stands(f)
      <3>1. codes'[Key(f)] = codes[Key(f)]
        BY <1>3, <2>1, <2>4 DEF Shaped, TypeOK
      <3>2. Stands(f)'
        BY <1>3, <2>1, <2>4, <3>1, StandsStays
      <3>3. QED  BY <2>1, <2>2, <3>2 DEF Made, Kind, Key, Stands, Used
    <2>5. ASSUME NEW j \in DOMAIN published, i < j, Key(published[j]) = Key(f)
          PROVE  Overtaken(i)'
      <3> PICK g : g = published[j]
        OBVIOUS
      <3>1. Made(g) /\ Key(g) = Key(f)
        BY <2>5 DEF NewestInv, MailsStand
      <3>2. Key(g)' = Key(f)'
        BY <2>2, <3>1, MadeStays
      <3>3. published'[j] = g /\ j \in DOMAIN published'
        BY <1>3
      <3>4. QED  BY <2>2, <2>5, <3>2, <3>3 DEF Overtaken, Key
    <2>6. ~ \E q \in Requests : At(q, "publish")
      BY <1>1, <1>2 DEF At
    <2>7. QED
      BY <2>1, <2>2, <2>3, <2>4, <2>5, <2>6 DEF Overtaken, Made, Kind, Key
  <1>5. MailsStand'
    BY <1>3, <1>4 DEF MailsStand
  <1>6. SenderStands'
    <2>1. codes'[Key(r)'] = r
      BY <1>2, <1>3 DEF Shaped, TypeOK
    <2>2. QED  BY <1>2, <2>1 DEF SenderStands, Stands
  <1>7. DeleterMatches'
    BY <1>2 DEF DeleterMatches, At
  <1>8. QED  BY <1>3, <1>5, <1>6, <1>7 DEF NewestInv

(* Its mail is published: whatever was about to be overtaken is. *)
LEMMA PublishNewest ==
  ASSUME Shaped, Alone, NewestInv, Calm, [Next]_vars, NEW r \in Requests, Publish(r)
  PROVE  NewestInv'
  <1>1. Moves(r) /\ At(r, "publish") /\ Made(r) /\ Key(r) \in Keys
    BY StepMoves, LateFacts DEF RequestStep, Publish
  <1>2. /\ task'[r].pc = "ok" /\ Made(r)' /\ Key(r)' = Key(r)
        /\ \A q \in Requests : ~At(q, "publish")' /\ ~At(q, "delete")'
        /\ \A q \in Requests \ {r} : ~At(q, "publish")
    <2>1. task[r] # New
      BY <1>1 DEF At, New
    <2>2. task'[r].pc = "ok"
      BY <2>1, GoesTo DEF Publish, GiveToken
    <2>3. QED  BY <1>1, <2>2, MadeStays, OthersShut DEF At
  <1>3. UNCHANGED <<codes, expired>> /\ Enqueue(r)
    BY DEF Publish, historyVars
  <1>4. SenderStands' /\ DeleterMatches'
    BY <1>2 DEF SenderStands, DeleterMatches
  <1>5. CASE ~declared
    <2>1. published = <<>> /\ published' = published
      BY <1>3, <1>5 DEF Enqueue, NewestInv
    <2>2. DOMAIN published' = {}
      BY <2>1, EmptySeq
    <2>3. QED  BY <1>4, <2>1, <2>2 DEF NewestInv, MailsStand
  <1>6. CASE declared
    <2>1. published \in Seq(Requests)
      BY DEF Shaped, TypeOK, MailTypeOK
    <2> PICK n \in Nat : n = Len(published)
      BY <2>1, LenProperties
    <2>2. /\ DOMAIN published = 1..n /\ DOMAIN published' = 1..(n + 1)
          /\ published'[n + 1] = r
          /\ \A j \in 1..n : published'[j] = published[j]
      BY <1>3, <1>6, <2>1, AppendProperties, LenProperties DEF Enqueue
    <2>3. ASSUME NEW f, Made(f), Key(f) \in Keys, Stands(f)
          PROVE  Stands(f)'
      BY <1>3, <2>3, StandsStays
    <2>4. ASSUME NEW i \in 1..n
          PROVE  /\ Made(published[i])' /\ Key(published[i])' \in Keys
                 /\ Stands(published[i])' \/ Overtaken(i)'
      <3> PICK f : f = published[i]
        OBVIOUS
      <3>1. Made(f) /\ Key(f) \in Keys /\ (Stands(f) \/ Overtaken(i))
        BY <2>2 DEF NewestInv, MailsStand
      <3>2. Made(f)' /\ Key(f)' = Key(f) /\ published'[i] = f
        BY <2>2, <3>1, MadeStays
      <3>3. CASE Stands(f)
        BY <2>3, <3>1, <3>2, <3>3 DEF Made, Kind, Key, Stands, Used
      <3>4. ASSUME NEW j \in DOMAIN published, i < j, Key(published[j]) = Key(f)
            PROVE  Overtaken(i)'
        <4> PICK g : g = published[j]
          OBVIOUS
        <4>1. Made(g) /\ Key(g) = Key(f)
          BY <3>4 DEF NewestInv, MailsStand
        <4>2. Key(g)' = Key(f)'
          BY <3>2, <4>1, MadeStays
        <4>3. published'[j] = g /\ j \in DOMAIN published'
          BY <2>2
        <4>4. QED  BY <3>2, <3>4, <4>2, <4>3 DEF Overtaken, Key
      <3>5. ASSUME Key(r) = Key(f)
            PROVE  Overtaken(i)'
        <4>1. n + 1 \in DOMAIN published' /\ i < n + 1
          BY <2>2
        <4>2. Key(published[n + 1])' = Key(published[i])'
          BY <1>2, <2>2, <3>2, <3>5 DEF Key
        <4>3. QED  BY <4>1, <4>2 DEF Overtaken
      <3>6. Overtaken(i) => Overtaken(i)'
        BY <1>2, <3>4, <3>5 DEF Overtaken
      <3>7. QED  BY <3>1, <3>2, <3>3, <3>6 DEF Made, Kind, Key
    <2>5. Made(published[n + 1])' /\ Key(published[n + 1])' \in Keys /\ Stands(published[n + 1])'
      <3>1. Stands(r)'
        BY <1>1, <2>3 DEF NewestInv, SenderStands
      <3>2. QED  BY <1>1, <1>2, <2>2, <3>1 DEF Made, Kind, Key, Stands, Used
    <2>6. MailsStand'
      BY <2>2, <2>4, <2>5 DEF MailsStand
    <2>7. QED  BY <1>3, <1>4, <1>6, <2>6 DEF NewestInv, Enqueue
  <1>7. QED  BY <1>5, <1>6

(* All other steps are quiet. *)
LEMMA QuietSteps ==
  ASSUME Shaped, Alone, NewestInv, Calm, [Next]_vars, Calm',
         \A r \in Requests : ~Store(r) /\ ~Publish(r)
  PROVE  Quiet
  <1>1. ASSUME NEW r \in Requests, Receive(r)
        PROVE  Quiet
    <2>1. task[r] = New /\ task'[r].pc \notin {"publish", "delete"}
      BY <1>1, JustReceived, NewTask DEF Receive, New
    <2>2. \A q \in Requests \ {r} : task'[q] = task[q]
      BY <1>1 DEF Receive, Become, Shaped, TypeOK
    <2>3. QED  BY <1>1, <2>1, <2>2 DEF Receive, Quiet, mailVars, At, New
  <1>2. ASSUME NEW r \in Requests, RequestStep(r)
        PROVE  Quiet
    <2>1. Moves(r) /\ task[r] # New
      BY <1>2, StepMoves DEF Moves, New, Places
    <2>2. UNCHANGED mailVars /\ ~At(r, "publish") /\ ~At(r, "store")
      BY <1>2, <2>1 DEF RequestStep, Create, Login, GoogleFind, GoogleInsert, Lookup, Verify,
         Compare, Delete, Write, Rename, At
    <2>3. ~At(r, "publish")'
      BY <2>1, <2>2 DEF Moves, May, At
    <2>4. At(r, "delete")' => codes'[Key(r)'] = Op(r)'.code
      <3>1. ASSUME At(r, "delete")'
            PROVE  codes'[Key(r)'] = Op(r)'.code
        <4>1. At(r, "compare")
          BY <2>1, <3>1 DEF Moves, May, At
        <4>2. Compare(r)
          BY <1>2, <4>1 DEF RequestStep, Create, Login, GoogleFind, GoogleInsert, Lookup,
             Store, Publish, Verify, Delete, Write, Rename, At
        <4>3. ~Go(r, "error")
          BY <2>1, <3>1, GoesTo DEF At
        <4>4. Key(r)' = Key(r) /\ Op(r)' = Op(r)
          BY <2>1, <4>1 DEF Moves, Late, At, Key, Op, User
        <4>5. QED  BY <4>2, <4>3, <4>4 DEF Compare
      <3>2. QED  BY <3>1
    <2>5. CASE Delete(r)
      <3> PICK f : f = Op(r).code
        OBVIOUS
      <3>1. At(r, "delete") /\ Kind(r) = "validate" /\ f \in Requests
        BY <2>5 DEF Delete, Shaped, Control, At
      <3>2. codes[Key(r)] \in {NoRequest, f}
        BY <3>1 DEF NewestInv, DeleterMatches
      <3>3. Used(f)'
        <4>1. task'[r].pc = "ok"
          BY <2>1, <2>5, GoesTo DEF Delete, GiveToken
        <4>2. Op(r)' = Op(r)
          BY <2>1 DEF Moves, Op
        <4>3. Accepted(r)'
          BY <3>1, <4>1, <4>2 DEF Accepted, Done, At, Kind, Op, New
        <4>4. QED  BY <4>2, <4>3 DEF Used
      <3>4. ASSUME NEW k \in Keys
            PROVE  \/ codes'[k] = codes[k]
                   \/ codes'[k] = NoRequest /\ codes[k] = NoRequest
                   \/ codes'[k] = NoRequest /\ \E g \in Requests : g = codes[k] /\ Used(g)'
        <4>1. codes'[k] = IF k = Key(r) THEN NoRequest ELSE codes[k]
          BY <2>5 DEF Delete, SetCode, Shaped, TypeOK
        <4>2. QED  BY <3>1, <3>2, <3>3, <4>1
      <3>5. QED
        BY <2>1, <2>2, <2>3, <2>4, <3>4, OthersShut DEF Quiet, mailVars
    <2>6. CASE ~Delete(r)
      <3>1. UNCHANGED codes
        BY <1>2, <2>6 DEF RequestStep, Create, Login, GoogleFind, GoogleInsert, Lookup, Verify,
           Compare, Write, Rename
      <3>2. QED  BY <2>1, <2>2, <2>3, <2>4, <3>1, OthersShut DEF Quiet, mailVars
    <2>7. QED  BY <2>5, <2>6
  <1>3. ASSUME NEW k \in Keys, ExpireCode(k)
        PROVE  Quiet
    <2>1. \A j \in Keys : codes'[j] = IF j = k THEN NoRequest ELSE codes[j]
      BY <1>3 DEF ExpireCode, Shaped, TypeOK
    <2>2. codes[k] \in Requests /\ codes[k] \in expired'
      BY <1>3 DEF ExpireCode, Shaped, TypeOK
    <2>3. QED  BY <1>3, <2>1, <2>2 DEF ExpireCode, Quiet, mailVars, At
  <1>4. CASE UNCHANGED <<codes, task>> /\ (UNCHANGED mailVars \/ WorkerStep)
    <2>1. published' = published /\ (declared => declared')
      BY <1>4 DEF mailVars, WorkerStep, StartWorker, Take, SendMail, Acknowledge
    <2>2. QED  BY <1>4, <2>1 DEF Quiet, At
  <1>5. QED
    BY <1>1, <1>2, <1>3, <1>4, CalmBefore DEF Next, vars, accountVars, ExpireCookie

LEMMA NewestStep ==
  ASSUME Shaped, Alone, NewestInv, [Next]_vars
  PROVE  NewestInv'
  <1>1. CASE ~Calm'
    BY <1>1 DEF NewestInv
  <1>2. CASE Calm'
    <2>1. Calm /\ expired \subseteq expired'
      BY <1>2, CalmBefore
    <2>2. QED  BY <1>2, <2>1, StoreNewest, PublishNewest, QuietSteps, QuietNewest
  <1>3. QED  BY <1>1, <1>2

LEMMA InitNewest == Init => NewestInv
  <1>1. DOMAIN <<>> = {}
    BY EmptySeq
  <1>2. QED
    BY <1>1 DEF Init, MailInit, NewestInv, MailsStand, SenderStands, DeleterMatches, At, New

(* The code in the newest mail to an address is the one that works, until  *)
(* it is used or runs out, as long as nothing fails and requests are       *)
(* served one at a time.                                                   *)
THEOREM NewestMailCorrect == Spec => []NewestMailWorks
  <1>1. Init => NewestInv
    BY InitNewest
  <1>2. Shaped /\ AddressInv /\ NewestInv /\ [Next]_vars => NewestInv'
    BY NewestStep DEF AddressInv
  <1>3. Shaped /\ NewestInv => NewestMailWorks
    <2>1. ASSUME Open = {}, NEW r \in Requests
          PROVE  ~At(r, "publish")
      BY <2>1 DEF Open, At, Places
    <2>2. QED
      BY <2>1 DEF NewestInv, Calm, MailsStand, Stands, Used, Overtaken, NewestMailWorks
  <1>4. QED  BY <1>1, <1>2, <1>3, AddressAlways, PTL DEF Spec

=============================================================================
