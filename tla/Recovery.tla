---------------------------- MODULE Recovery ----------------------------
(***************************************************************************)
(* What the owner of an account may rely on: the password of an account    *)
(* changes only after a code that was drawn for it was mailed and spent,   *)
(* however many codes were asked for and whatever fails on the way.  The   *)
(* newest code of an account at an address takes the place of an older     *)
(* one, and a code that was spent never counts again.                      *)
(***************************************************************************)
CONSTANTS Requests,  \* they name the codes drawn and the passwords set
          Users, Emails,
          NoRow,     \* an id without an account
          Nobody     \* the owner of a code not drawn yet

VARIABLES users,   \* accounts: address and password
          owner,   \* the account and the address each code was drawn for
          valid,   \* codes that count
          mailed,  \* codes that a mail brought to their address
          spent    \* codes that were accepted

codeVars == <<owner, valid, mailed, spent>>
vars == <<users, codeVars>>

(* At e there is no account but u. *)
Free(e, u) == \A v \in Users : users[v].email = e => v = u

Init ==
    /\ \A u \in Users : users[u] # NoRow =>
          Free(users[u].email, u) /\ users[u].password \notin Requests
    /\ owner = [f \in Requests |-> Nobody]
    /\ valid = {}
    /\ mailed = {}
    /\ spent = {}

Register(r, u, e) ==
    /\ users[u] = NoRow
    /\ Free(e, u)
    /\ users' = [users EXCEPT ![u] = [email |-> e, password |-> r]]
    /\ UNCHANGED codeVars

Move(u, e) ==
    /\ users[u] # NoRow
    /\ Free(e, u)
    /\ users' = [users EXCEPT ![u].email = e]
    /\ UNCHANGED codeVars

Draw(f, u) ==
    /\ users[u] # NoRow
    /\ owner[f] = Nobody
    /\ owner' = [owner EXCEPT ![f] = <<u, users[u].email>>]
    /\ UNCHANGED <<users, valid, mailed, spent>>

(* Codes for another account or address than f. *)
Beside(f) == {g \in valid : owner[g] # owner[f]}

Put(f) ==
    /\ owner[f] # Nobody
    /\ f \notin spent
    /\ valid' = Beside(f) \cup {f}
    /\ UNCHANGED <<users, owner, mailed, spent>>

Post(f) ==
    /\ owner[f] # Nobody
    /\ mailed' = mailed \cup {f}
    /\ UNCHANGED <<users, owner, valid, spent>>

Lapse(f) ==
    /\ valid' = valid \ {f}
    /\ UNCHANGED <<users, owner, mailed, spent>>

Spend(f) ==
    /\ f \in mailed
    /\ spent' = spent \cup {f}
    /\ valid' = Beside(f)
    /\ UNCHANGED <<users, owner, mailed>>

Change(r, u) ==
    /\ \E f \in spent : owner[f][1] = u
    /\ users' = [users EXCEPT ![u].password = r]
    /\ UNCHANGED codeVars

Next ==
    \/ \E u \in Users, e \in Emails : Move(u, e) \/ \E r \in Requests : Register(r, u, e)
    \/ \E r \in Requests, u \in Users : Draw(r, u) \/ Change(r, u)
    \/ \E f \in Requests : Put(f) \/ Post(f) \/ Lapse(f) \/ Spend(f)

Spec == Init /\ [][Next]_vars

=============================================================================
