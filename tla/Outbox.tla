----------------------------- MODULE Outbox -----------------------------
(***************************************************************************)
(* What a sender of mails may rely on, whatever dies on the way: mails go  *)
(* out in the order in which they were accepted, each until it has arrived *)
(* or was rejected; one may arrive again, but only until the next one is   *)
(* due.  Mails that come before the outbox is set up are dropped.          *)
(***************************************************************************)
EXTENDS Naturals, Sequences

CONSTANT Requests

VARIABLES sent,     \* mails the outbox accepted, in order
          due,      \* position in sent of the mail to go out next
          arrived,  \* what the mail server was handed, in order
          lost      \* mails that were dropped or rejected

vars == <<sent, due, arrived, lost>>

Init ==
    /\ sent = <<>>
    /\ due = 1
    /\ arrived = <<>>
    /\ lost = {}

Drop(m) ==
    /\ sent = <<>>
    /\ lost' = lost \cup {m}
    /\ UNCHANGED <<sent, due, arrived>>

Accept(m) ==
    /\ sent' = Append(sent, m)
    /\ UNCHANGED <<due, arrived, lost>>

Waiting == due \in 1..Len(sent)
GoesOut == arrived' = Append(arrived, sent[due])

Deliver ==
    /\ Waiting
    /\ GoesOut
    /\ UNCHANGED <<sent, due, lost>>

(* The mail that is due is the one that arrived last. *)
Settle ==
    /\ Waiting
    /\ arrived # <<>> /\ arrived[Len(arrived)] = sent[due]
    /\ due' = due + 1
    /\ UNCHANGED <<sent, arrived, lost>>

Reject ==
    /\ Waiting
    /\ lost' = lost \cup {sent[due]}
    /\ GoesOut \/ UNCHANGED arrived
    /\ due' = due + 1
    /\ UNCHANGED sent

Next ==
    \/ \E m \in Requests : Drop(m) \/ Accept(m)
    \/ Deliver \/ Settle \/ Reject

Spec == Init /\ [][Next]_vars

=============================================================================
