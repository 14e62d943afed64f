---------------------------- MODULE PayOnce ----------------------------
(***************************************************************************)
(* What a client may rely on when it retries POST /checkout/stripe under   *)
(* one Idempotency-Key: for each key at most one page to pay is ever made, *)
(* every client that is sent to a page is sent to that one and asked for   *)
(* just what it describes, and it is paid at most once and only by someone *)
(* who was sent to it.                                                     *)
(***************************************************************************)
CONSTANTS Requests, NoRequest, Keys

VARIABLES req,       \* what each request asks for, whatever it is; req[h].key
                     \* is its key
          page,      \* [Keys -> the request whose order the page collects]
          told,      \* [Requests -> the page the client was sent to]
          collected  \* orders that were paid

vars == <<req, page, told, collected>>

Init ==
    /\ page = [k \in Keys |-> NoRequest]
    /\ told = [h \in Requests |-> NoRequest]
    /\ collected = {}

Open(o) ==
    /\ page[req[o].key] = NoRequest
    /\ page' = [page EXCEPT ![req[o].key] = o]
    /\ UNCHANGED <<req, told, collected>>

Tell(h, o) ==
    /\ told[h] = NoRequest
    /\ page[req[o].key] = o
    /\ req[h] = req[o]
    /\ told' = [told EXCEPT ![h] = o]
    /\ UNCHANGED <<req, page, collected>>

Collect(h, o) ==
    /\ told[h] = o
    /\ o \notin collected
    /\ collected' = collected \cup {o}
    /\ UNCHANGED <<req, page, told>>

Next ==
    \/ \E o \in Requests : Open(o)
    \/ \E h, o \in Requests : Tell(h, o) \/ Collect(h, o)

Spec == Init /\ [][Next]_vars

=============================================================================
