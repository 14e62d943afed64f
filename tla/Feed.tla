------------------------------ MODULE Feed ------------------------------
(***************************************************************************)
(* What an admin may rely on when watching the orders, however slow the    *)
(* browser is and whatever becomes of connections and subscriptions: of    *)
(* the events that happen while it is connected, a client hears every one  *)
(* in turn, or leaves one out only when it is Capacity events behind.      *)
(***************************************************************************)
EXTENDS Integers, Sequences

CONSTANTS Clients,
          Messages,  \* events, numbered in the order they happen
          Capacity   \* how far a client may fall behind

VARIABLES offered,  \* events that happened while each client was connected
          heard     \* events each client heard, in its order

vars == <<offered, heard>>

Init ==
    /\ offered = [c \in Clients |-> <<>>]
    /\ heard = [c \in Clients |-> <<>>]

(* An event happens, and the clients C are connected. *)
Happen(m, C) ==
    /\ \A c \in C : \A i \in 1..Len(offered[c]) : offered[c][i] < m
    /\ offered' = [c \in Clients |-> IF c \in C THEN Append(offered[c], m) ELSE offered[c]]
    /\ UNCHANGED heard

Heard(c, m) == \E k \in 1..Len(heard[c]) : heard[c][k] = m

(* A client hears event i of those it was offered, newer than all it       *)
(* heard; earlier ones it has not heard are Capacity events back.          *)
Hear(c, i) ==
    /\ \A k \in 1..Len(heard[c]) : heard[c][k] < offered[c][i]
    /\ \A j \in 1..(i - 1) :
          Heard(c, offered[c][j]) \/ Len(offered[c]) - j >= Capacity
    /\ heard' = [heard EXCEPT ![c] = Append(@, offered[c][i])]
    /\ UNCHANGED offered

Next ==
    \/ \E m \in Messages, C \in SUBSET Clients : Happen(m, C)
    \/ \E c \in Clients : \E i \in 1..Len(offered[c]) : Hear(c, i)

Spec == Init /\ [][Next]_vars

=============================================================================
