----------------------------- MODULE SSE_proofs -----------------------------
(***************************************************************************)
(* Proofs about SSE, for every number of clients, messages and breaks and  *)
(* every capacity of the queues.                                           *)
(***************************************************************************)
EXTENDS SSE, SequenceTheorems, TLAPS

----------------------------------------------------------------------------
\* Sequences of messages.

Inc(s) == \A i, j \in DOMAIN s : i < j => s[i] < s[j]
Before(s, t) == \A i \in DOMAIN s : \A j \in DOMAIN t : s[i] < t[j]
Below(s, m) == \A i \in DOMAIN s : s[i] <= m

LEMMA TailFacts ==
    ASSUME NEW s \in Seq(Nat), s # <<>>
    PROVE  /\ Tail(s) \in Seq(Nat)
           /\ \A i \in DOMAIN Tail(s) : i + 1 \in DOMAIN s /\ Tail(s)[i] = s[i + 1]
           /\ 1 \in DOMAIN s /\ Head(s) = s[1]
           /\ Head(s) \in Nat
  OBVIOUS

LEMMA AppendFacts ==
    ASSUME NEW s \in Seq(Nat), NEW m \in Nat
    PROVE  /\ Append(s, m) \in Seq(Nat)
           /\ \A i \in DOMAIN Append(s, m) :
                 \/ i \in DOMAIN s /\ Append(s, m)[i] = s[i]
                 \/ i = Len(s) + 1 /\ Append(s, m)[i] = m
  OBVIOUS

LEMMA IncAppend ==
    ASSUME NEW s \in Seq(Nat), NEW m \in Nat, Inc(s), Before(s, <<m>>)
    PROVE  Inc(Append(s, m))
  <1>1. \A i \in DOMAIN s : s[i] < m
    BY DEF Before
  <1>2. QED  BY <1>1, AppendFacts DEF Inc

LEMMA IncTail ==
    ASSUME NEW s \in Seq(Nat), s # <<>>, Inc(s)
    PROVE  Inc(Tail(s)) /\ Before(<<Head(s)>>, Tail(s))
  <1>1. Inc(Tail(s))
    BY TailFacts DEF Inc
  <1>2. \A j \in DOMAIN Tail(s) : s[1] < Tail(s)[j]
    BY TailFacts DEF Inc
  <1>3. QED  BY <1>1, <1>2, TailFacts DEF Before

LEMMA BeforeAppend ==
    ASSUME NEW s \in Seq(Nat), NEW t \in Seq(Nat), NEW m \in Nat
    PROVE  /\ Before(s, t) /\ Before(s, <<m>>) => Before(s, Append(t, m))
           /\ Before(s, t) /\ Before(<<m>>, t) => Before(Append(s, m), t)
  BY AppendFacts DEF Before

LEMMA BeforeTail ==
    ASSUME NEW s \in Seq(Nat), NEW t \in Seq(Nat), Before(s, t)
    PROVE  /\ s # <<>> => Before(Tail(s), t) /\ Before(<<Head(s)>>, t)
           /\ t # <<>> => Before(s, Tail(t)) /\ Before(s, <<Head(t)>>)
  BY TailFacts DEF Before

LEMMA IncConcat ==
    ASSUME NEW s \in Seq(Nat), NEW t \in Seq(Nat), Inc(s), Inc(t), Before(s, t)
    PROVE  Inc(s \o t)
  <1>1. \A i \in DOMAIN (s \o t) :
          \/ i \in DOMAIN s /\ (s \o t)[i] = s[i]
          \/ i > Len(s) /\ i - Len(s) \in DOMAIN t /\ (s \o t)[i] = t[i - Len(s)]
    OBVIOUS
  <1>2. s \o t \in Seq(Nat)
    OBVIOUS
  <1>3. QED  BY <1>1, <1>2 DEF Inc, Before

LEMMA BeforeConcat ==
    ASSUME NEW s \in Seq(Nat), NEW t \in Seq(Nat), NEW u \in Seq(Nat),
           Before(s, t), Before(s, u)
    PROVE  Before(s, t \o u)
  <1>1. \A i \in DOMAIN (t \o u) :
          \/ i \in DOMAIN t /\ (t \o u)[i] = t[i]
          \/ i - Len(t) \in DOMAIN u /\ (t \o u)[i] = u[i - Len(t)]
    OBVIOUS
  <1>2. QED  BY <1>1 DEF Before

(* What put_nowait, after get_nowait, does to a queue. *)
LEMMA OfferFacts ==
    ASSUME NEW q \in Seq(Messages), NEW m \in Messages, Len(q) <= Capacity
    PROVE  /\ Offer(q, m) \in Seq(Messages)
           /\ Len(Offer(q, m)) <= Capacity
           /\ \/ Offer(q, m) = Append(q, m)
              \/ q # <<>> /\ Offer(q, m) = Append(Tail(q), m)
  <1>1. CASE Len(q) >= Capacity
    <2>1. q # <<>> /\ Offer(q, m) = Append(Tail(q), m)
      BY <1>1, BoundsAssumption DEF Offer
    <2>2. Tail(q) \in Seq(Messages) /\ Len(Tail(q)) = Len(q) - 1
      BY <2>1
    <2>3. Append(Tail(q), m) \in Seq(Messages) /\ Len(Append(Tail(q), m)) = Len(q)
      BY <2>2
    <2>4. QED  BY <2>1, <2>3
  <1>2. CASE ~(Len(q) >= Capacity)
    BY <1>2, BoundsAssumption DEF Offer
  <1>3. QED  BY <1>1, <1>2

----------------------------------------------------------------------------
\* Types.

(* A generator holds a message exactly while it sends it. *)
Holding == \A c \in Clients : (stage[c] = "send") <=> (held[c] # 0)

LEMMA TypeInit == Init => TypeOK /\ Holding
  <1>1. \A S : <<>> \in Seq(S) /\ Len(<<>>) = 0
    OBVIOUS
  <1> SUFFICES ASSUME Init  PROVE TypeOK /\ Holding
    OBVIOUS
  <1>2. /\ queue \in [Clients -> Seq(Messages)]
        /\ \A c \in Clients : Len(queue[c]) <= Capacity
        /\ held \in [Clients -> 0..MaxMessages]
        /\ stage \in [Clients -> Stages]
        /\ offered \in [Clients -> Seq(Messages)]
        /\ heard \in [Clients -> Seq(Messages)]
    BY <1>1, BoundsAssumption DEF Init, Stages
  <1>3. published \in 0..MaxMessages /\ breaks \in 0..MaxBreaks /\ inbox \in Seq(Messages)
    BY <1>1, BoundsAssumption DEF Init
  <1>4. Holding
    BY DEF Init, Holding
  <1>5. QED  BY <1>2, <1>3, <1>4 DEF Init, TypeOK

LEMMA TypeStep ==
    ASSUME TypeOK, Holding, [Next]_vars
    PROVE  TypeOK' /\ Holding'
  <1> USE BoundsAssumption
  <1>a. <<>> \in Seq(Messages)
    OBVIOUS
  <1>1. CASE Connect
    BY <1>1 DEF TypeOK, Holding, Connect, clientVars
  <1>2. CASE Disconnect
    <2>1. inbox' \in Seq(Messages) /\ admin_clients' \subseteq Clients
      BY <1>2, <1>a DEF Disconnect
    <2>2. QED  BY <1>2, <2>1 DEF TypeOK, Holding, Disconnect
  <1>3. CASE Publish
    <2>1. published + 1 \in Messages /\ published' \in 0..MaxMessages
      BY <1>3 DEF TypeOK, Publish, Messages
    <2>2. inbox' \in Seq(Messages)
      BY <1>3, <2>1 DEF TypeOK, Publish
    <2>3. QED  BY <1>3, <2>1, <2>2 DEF TypeOK, Holding, Publish, clientVars
  <1>4. CASE Break
    <2>1. inbox' \in Seq(Messages) /\ breaks' \in 0..MaxBreaks
      BY <1>4, <1>a DEF TypeOK, Break
    <2>2. QED  BY <1>4, <2>1 DEF TypeOK, Holding, Break, clientVars
  <1>5. CASE Resubscribe
    BY <1>5 DEF TypeOK, Holding, Resubscribe, clientVars
  <1>6. CASE Fanout
    <2>1. Head(inbox) \in Messages /\ inbox' \in Seq(Messages)
      BY <1>6 DEF TypeOK, Fanout
    <2>2. \A c \in Clients : queue'[c] = queue[c] \/ queue'[c] = Offer(queue[c], Head(inbox))
      BY <1>6 DEF Fanout
    <2>3. \A c \in Clients : /\ Offer(queue[c], Head(inbox)) \in Seq(Messages)
                            /\ Len(Offer(queue[c], Head(inbox))) <= Capacity
      BY <2>1, OfferFacts DEF TypeOK
    <2>4. queue' \in [Clients -> Seq(Messages)]
      BY <1>6, <2>3 DEF TypeOK, Fanout
    <2>5. \A c \in Clients : Len(queue'[c]) <= Capacity
      BY <2>2, <2>3 DEF TypeOK
    <2>6. offered' \in [Clients -> Seq(Messages)]
      BY <1>6, <2>1 DEF TypeOK, Fanout
    <2>7. QED  BY <1>6, <2>1, <2>4, <2>5, <2>6 DEF TypeOK, Holding, Fanout
  <1>7. ASSUME NEW c \in Clients, Subscribe(c)  PROVE TypeOK' /\ Holding'
    BY <1>7 DEF TypeOK, Holding, Subscribe, Go, managerVars, Stages
  <1>8. ASSUME NEW c \in Clients, Leave(c)  PROVE TypeOK' /\ Holding'
    BY <1>8 DEF TypeOK, Holding, Leave, managerVars
  <1>9. ASSUME NEW c \in Clients, Check(c)  PROVE TypeOK' /\ Holding'
    BY <1>9 DEF TypeOK, Holding, Check, Close, Go, managerVars, Stages
  <1>10. ASSUME NEW c \in Clients, Take(c)  PROVE TypeOK' /\ Holding'
    <2>1. /\ Head(queue[c]) \in Messages
          /\ Tail(queue[c]) \in Seq(Messages)
          /\ Len(Tail(queue[c])) <= Capacity
      BY <1>10 DEF TypeOK, Take
    <2>2. Head(queue[c]) \in 0..MaxMessages /\ Head(queue[c]) # 0
      BY <2>1 DEF Messages
    <2>3. QED  BY <1>10, <2>1, <2>2 DEF TypeOK, Holding, Take, Go, managerVars, Stages
  <1>11. ASSUME NEW c \in Clients, Ping(c)  PROVE TypeOK' /\ Holding'
    BY <1>11 DEF TypeOK, Holding, Ping, Go, managerVars, Stages
  <1>12. ASSUME NEW c \in Clients, Send(c)  PROVE TypeOK' /\ Holding'
    <2>1. held[c] \in Messages
      BY <1>12 DEF TypeOK, Holding, Send, Messages
    <2>2. heard' \in [Clients -> Seq(Messages)]
      BY <1>12, <2>1 DEF TypeOK, Send
    <2>3. QED  BY <1>12, <2>2 DEF TypeOK, Holding, Send, Go, managerVars, Stages
  <1>13. ASSUME NEW c \in Clients, Cancel(c)  PROVE TypeOK' /\ Holding'
    BY <1>13 DEF TypeOK, Holding, Cancel, Close, Go, managerVars, Stages
  <1>14. CASE UNCHANGED vars
    BY <1>14 DEF TypeOK, Holding, vars, managerVars, clientVars
  <1>15. QED
    BY <1>1, <1>2, <1>3, <1>4, <1>5, <1>6, <1>7, <1>8, <1>9, <1>10, <1>11, <1>12,
       <1>13, <1>14 DEF Next, ManagerStep, StreamStep

(* The types, and what a generator holds. *)
THEOREM StreamTypes == Spec => [](TypeOK /\ Holding)
  <1>1. TypeOK /\ Holding /\ [Next]_vars => (TypeOK /\ Holding)'
    BY TypeStep
  <1>2. QED  BY TypeInit, <1>1, PTL DEF Spec

----------------------------------------------------------------------------
\* The order of the messages.

Hold(c) == IF held[c] = 0 THEN <<>> ELSE <<held[c]>>

(* Along a message's way to a client the numbers fall: what the client has *)
(* heard is older than what its generator holds, that is older than what   *)
(* waits in its queue, and all of it than what the listener is yet to read.*)
Order(h, d, q, b, p) ==
    /\ Inc(h) /\ Inc(q)
    /\ Before(h, d) /\ Before(h, q) /\ Before(d, q)
    /\ Before(h, b) /\ Before(d, b) /\ Before(q, b)
    /\ Below(h, p) /\ Below(d, p) /\ Below(q, p)

Ordered(c) == Order(heard[c], Hold(c), queue[c], inbox, published)

InboxOrdered == Inc(inbox) /\ Below(inbox, published)

OrderInv == InboxOrdered /\ \A c \in Clients : Ordered(c)

LEMMA SeqTypes ==
    ASSUME TypeOK, NEW c \in Clients
    PROVE  /\ heard[c] \in Seq(Nat) /\ queue[c] \in Seq(Nat) /\ Hold(c) \in Seq(Nat)
           /\ inbox \in Seq(Nat) /\ published \in Nat /\ held[c] \in Nat
  <1>1. Messages \subseteq Nat
    BY DEF Messages
  <1>2. \A s \in Seq(Messages) : s \in Seq(Nat)
    BY <1>1, SeqMonotonic
  <1>3. held[c] \in Nat /\ published \in Nat
    BY BoundsAssumption DEF TypeOK
  <1>4. Hold(c) \in Seq(Nat)
    BY <1>3 DEF Hold
  <1>5. QED  BY <1>2, <1>3, <1>4 DEF TypeOK

(* What each action does to the way of one client. *)
LEMMA OrderPublish ==
    ASSUME NEW h \in Seq(Nat), NEW d \in Seq(Nat), NEW q \in Seq(Nat),
           NEW b \in Seq(Nat), NEW p \in Nat, Order(h, d, q, b, p)
    PROVE  /\ Order(h, d, q, b, p + 1)
           /\ Order(h, d, q, Append(b, p + 1), p + 1)
           /\ Order(h, d, q, <<>>, p)
  <1>1. \A s \in Seq(Nat) : Below(s, p) => Below(s, p + 1) /\ Before(s, <<p + 1>>)
    BY DEF Below, Before
  <1>2. \A s \in Seq(Nat) : Before(s, <<>>)
    BY DEF Before
  <1>3. \A s \in Seq(Nat) :
          Before(s, b) /\ Before(s, <<p + 1>>) => Before(s, Append(b, p + 1))
    BY BeforeAppend
  <1>4. QED  BY <1>1, <1>2, <1>3 DEF Order

LEMMA OrderFanout ==
    ASSUME NEW h \in Seq(Nat), NEW d \in Seq(Nat), NEW q \in Seq(Nat),
           NEW b \in Seq(Nat), NEW p \in Nat, Order(h, d, q, b, p),
           b # <<>>, Inc(b), Below(b, p)
    PROVE  /\ Order(h, d, q, Tail(b), p)
           /\ Order(h, d, Append(q, Head(b)), Tail(b), p)
           /\ q # <<>> => Order(h, d, Append(Tail(q), Head(b)), Tail(b), p)
  <1> DEFINE m == Head(b)
  <1>1. /\ m \in Nat /\ Tail(b) \in Seq(Nat) /\ <<m>> \in Seq(Nat)
        /\ m = b[1] /\ 1 \in DOMAIN b /\ m <= p
    BY TailFacts DEF Below
  <1>2. Before(<<m>>, Tail(b))
    BY IncTail
  <1>3. /\ Before(h, Tail(b)) /\ Before(d, Tail(b)) /\ Before(q, Tail(b))
        /\ Before(h, <<m>>) /\ Before(d, <<m>>) /\ Before(q, <<m>>)
    BY BeforeTail DEF Order
  <1>4. Order(h, d, q, Tail(b), p)
    BY <1>3 DEF Order
  <1>5. ASSUME NEW r \in Seq(Nat), Order(h, d, r, Tail(b), p), Before(r, <<m>>)
        PROVE  Order(h, d, Append(r, m), Tail(b), p)
    <2>1. Inc(Append(r, m))
      BY <1>1, <1>5, IncAppend DEF Order
    <2>2. /\ Before(h, Append(r, m)) /\ Before(d, Append(r, m))
          /\ Before(Append(r, m), Tail(b))
      BY <1>1, <1>2, <1>3, <1>5, BeforeAppend DEF Order
    <2>3. Below(Append(r, m), p)
      BY <1>1, <1>5, AppendFacts DEF Order, Below
    <2>4. QED  BY <1>5, <2>1, <2>2, <2>3 DEF Order
  <1>6. ASSUME q # <<>>
        PROVE  /\ Order(h, d, Tail(q), Tail(b), p) /\ Before(Tail(q), <<m>>)
               /\ Tail(q) \in Seq(Nat)
    <2>1. Inc(Tail(q)) /\ Tail(q) \in Seq(Nat)
      BY <1>6, IncTail, TailFacts DEF Order
    <2>2. /\ Before(h, Tail(q)) /\ Before(d, Tail(q)) /\ Before(Tail(q), Tail(b))
          /\ Before(Tail(q), <<m>>)
      BY <1>1, <1>3, <1>6, BeforeTail DEF Order
    <2>3. Below(Tail(q), p)
      BY <1>6, TailFacts DEF Order, Below
    <2>4. QED  BY <1>4, <2>1, <2>2, <2>3 DEF Order
  <1>7. QED  BY <1>3, <1>4, <1>5, <1>6

LEMMA OrderTake ==
    ASSUME NEW h \in Seq(Nat), NEW q \in Seq(Nat), NEW b \in Seq(Nat), NEW p \in Nat,
           Order(h, <<>>, q, b, p), q # <<>>
    PROVE  Order(h, <<Head(q)>>, Tail(q), b, p)
  <1>1. Inc(Tail(q)) /\ Before(<<Head(q)>>, Tail(q))
    BY IncTail DEF Order
  <1>2. /\ Before(h, <<Head(q)>>) /\ Before(h, Tail(q))
        /\ Before(<<Head(q)>>, b) /\ Before(Tail(q), b)
    BY BeforeTail DEF Order
  <1>3. Below(<<Head(q)>>, p) /\ Below(Tail(q), p)
    BY TailFacts DEF Order, Below
  <1>4. QED  BY <1>1, <1>2, <1>3 DEF Order

LEMMA OrderSend ==
    ASSUME NEW h \in Seq(Nat), NEW q \in Seq(Nat), NEW b \in Seq(Nat), NEW p \in Nat,
           NEW d \in Seq(Nat), Order(h, d, q, b, p)
    PROVE  /\ Order(h, <<>>, q, b, p)
           /\ \A m \in Nat : d = <<m>> => Order(Append(h, m), <<>>, q, b, p)
  <1>1. \A s \in Seq(Nat) : Before(s, <<>>) /\ Before(<<>>, s) /\ Below(<<>>, p)
    BY DEF Before, Below
  <1>2. Order(h, <<>>, q, b, p)
    BY <1>1 DEF Order
  <1>3. ASSUME NEW m \in Nat, d = <<m>>
        PROVE  Order(Append(h, m), <<>>, q, b, p)
    <2>1. Inc(Append(h, m)) /\ Append(h, m) \in Seq(Nat)
      BY <1>3, IncAppend, AppendFacts DEF Order
    <2>2. Before(Append(h, m), q) /\ Before(Append(h, m), b)
      BY <1>3, BeforeAppend DEF Order
    <2>3. Below(<<m>>, p) /\ m <= p
      BY <1>3 DEF Order, Below
    <2>4. Below(Append(h, m), p)
      BY <2>3, AppendFacts DEF Order, Below
    <2>5. QED  BY <1>1, <2>1, <2>2, <2>4 DEF Order
  <1>4. QED  BY <1>2, <1>3

LEMMA OrderInit == Init => OrderInv
  <1> SUFFICES ASSUME Init  PROVE OrderInv
    OBVIOUS
  <1>1. ASSUME NEW c \in Clients
        PROVE  heard[c] = <<>> /\ queue[c] = <<>> /\ Hold(c) = <<>> /\ inbox = <<>>
    BY DEF Init, Hold
  <1>2. Inc(<<>>) /\ Before(<<>>, <<>>) /\ Below(<<>>, published)
    BY DEF Inc, Before, Below
  <1>3. \A c \in Clients : Ordered(c)
    BY <1>1, <1>2 DEF Ordered, Order
  <1>4. InboxOrdered
    BY <1>2 DEF Init, InboxOrdered
  <1>5. QED  BY <1>3, <1>4 DEF OrderInv

(* A step leaves the way of every client it does not touch as it was.      *)
LEMMA OrderedSame ==
    ASSUME NEW c \in Clients, Ordered(c),
           heard'[c] = heard[c], held'[c] = held[c], queue'[c] = queue[c],
           inbox' = inbox, published' = published
    PROVE  Ordered(c)'
  BY DEF Ordered, Hold

LEMMA OrderStep ==
    ASSUME TypeOK, Holding, OrderInv, [Next]_vars
    PROVE  OrderInv'
  <1>a. \A c \in Clients : Ordered(c)
    BY DEF OrderInv
  <1>b. Inc(<<>>) /\ \A p : Below(<<>>, p)
    BY DEF Inc, Below
  <1>c. ASSUME NEW c \in Clients, inbox' = inbox, published' = published,
               \A e \in Clients : e # c => /\ heard'[e] = heard[e] /\ held'[e] = held[e]
                                           /\ queue'[e] = queue[e],
               Ordered(c)'
        PROVE  OrderInv'
    BY <1>a, <1>c, OrderedSame DEF OrderInv, InboxOrdered
  <1>d. ASSUME inbox' = inbox, published' = published, heard' = heard, held' = held,
               queue' = queue
        PROVE  OrderInv'
    BY <1>a, <1>d, OrderedSame DEF OrderInv, InboxOrdered
  <1>1. CASE Connect
    BY <1>1, <1>d DEF Connect, clientVars
  <1>2. CASE Disconnect \/ Break
    <2>1. /\ inbox' = <<>> /\ published' = published
          /\ heard' = heard /\ held' = held /\ queue' = queue
      BY <1>2 DEF Disconnect, Break, clientVars
    <2>2. \A c \in Clients : Order(heard[c], Hold(c), queue[c], <<>>, published)
      BY <1>a, SeqTypes, OrderPublish DEF Ordered
    <2>3. \A c \in Clients : Ordered(c)'
      BY <2>1, <2>2 DEF Ordered, Hold
    <2>4. QED  BY <1>b, <2>1, <2>3 DEF OrderInv, InboxOrdered
  <1>3. CASE Publish
    <2>1. /\ published' = published + 1
          /\ inbox' = inbox \/ inbox' = Append(inbox, published + 1)
          /\ heard' = heard /\ held' = held /\ queue' = queue
      BY <1>3 DEF Publish, clientVars
    <2>2. \A c \in Clients :
            /\ Order(heard[c], Hold(c), queue[c], inbox, published + 1)
            /\ Order(heard[c], Hold(c), queue[c], Append(inbox, published + 1), published + 1)
      BY <1>a, SeqTypes, OrderPublish DEF Ordered
    <2>3. \A c \in Clients : Ordered(c)'
      BY <2>1, <2>2 DEF Ordered, Hold
    <2>4. published \in Nat /\ inbox \in Seq(Nat) /\ published + 1 \in Nat
      BY BoundsAssumption, SeqMonotonic DEF TypeOK, Messages
    <2>5. Before(inbox, <<published + 1>>) /\ Below(inbox, published + 1)
      BY <2>4 DEF OrderInv, InboxOrdered, Below, Before
    <2>6. /\ Inc(Append(inbox, published + 1))
          /\ Below(Append(inbox, published + 1), published + 1)
      BY <2>4, <2>5, IncAppend, AppendFacts DEF OrderInv, InboxOrdered, Below
    <2>7. InboxOrdered'
      BY <2>1, <2>5, <2>6 DEF OrderInv, InboxOrdered
    <2>8. QED  BY <2>3, <2>7 DEF OrderInv
  <1>4. CASE Resubscribe
    BY <1>4, <1>d DEF Resubscribe, clientVars
  <1>5. CASE Fanout
    <2>1. inbox # <<>> /\ inbox \in Seq(Nat) /\ published \in Nat
      BY <1>5, BoundsAssumption, SeqMonotonic DEF Fanout, TypeOK, Messages
    <2>2. Head(inbox) \in Messages
      BY <1>5 DEF Fanout, TypeOK
    <2>3. ASSUME NEW c \in Clients
          PROVE  Ordered(c)'
      <3>1. /\ heard'[c] = heard[c] /\ held'[c] = held[c]
            /\ inbox' = Tail(inbox) /\ published' = published
            /\ queue'[c] = queue[c] \/ queue'[c] = Offer(queue[c], Head(inbox))
        BY <1>5 DEF Fanout
      <3>2. /\ Order(heard[c], Hold(c), queue[c], Tail(inbox), published)
            /\ Order(heard[c], Hold(c), Append(queue[c], Head(inbox)), Tail(inbox), published)
            /\ queue[c] # <<>> => Order(heard[c], Hold(c), Append(Tail(queue[c]), Head(inbox)),
                                        Tail(inbox), published)
        BY <1>a, <2>1, SeqTypes, OrderFanout DEF Ordered, OrderInv, InboxOrdered
      <3>3. \/ Offer(queue[c], Head(inbox)) = Append(queue[c], Head(inbox))
            \/ /\ queue[c] # <<>>
               /\ Offer(queue[c], Head(inbox)) = Append(Tail(queue[c]), Head(inbox))
        BY <2>2, OfferFacts DEF TypeOK
      <3>4. QED  BY <3>1, <3>2, <3>3 DEF Ordered, Hold
    <2>4. Inc(Tail(inbox)) /\ Below(Tail(inbox), published)
      BY <2>1, IncTail, TailFacts DEF OrderInv, InboxOrdered, Below
    <2>5. InboxOrdered'
      BY <1>5, <2>4 DEF Fanout, InboxOrdered
    <2>6. QED  BY <2>3, <2>5 DEF OrderInv
  <1>6. ASSUME NEW c \in Clients, Subscribe(c) \/ Leave(c) \/ Check(c) \/ Ping(c)
        PROVE  OrderInv'
    BY <1>6, <1>d DEF Subscribe, Leave, Check, Ping, managerVars
  <1>7. ASSUME NEW c \in Clients, Take(c)  PROVE OrderInv'
    <2>1. /\ heard' = heard /\ inbox' = inbox /\ published' = published
          /\ queue[c] # <<>> /\ held[c] = 0
          /\ held'[c] = Head(queue[c]) /\ queue'[c] = Tail(queue[c])
          /\ \A e \in Clients : e # c => held'[e] = held[e] /\ queue'[e] = queue[e]
      BY <1>7 DEF Take, TypeOK, Holding, managerVars
    <2>2. Head(queue[c]) # 0
      <3>1. Head(queue[c]) \in Messages
        BY <2>1 DEF TypeOK
      <3>2. QED  BY <3>1 DEF Messages
    <2>3. Order(heard[c], <<Head(queue[c])>>, Tail(queue[c]), inbox, published)
      BY <1>a, <2>1, SeqTypes, OrderTake DEF Ordered, Hold
    <2>4. Ordered(c)'
      BY <2>1, <2>2, <2>3 DEF Ordered, Hold
    <2>5. QED  BY <1>c, <2>1, <2>4
  <1>8. ASSUME NEW c \in Clients, Send(c) \/ Cancel(c)  PROVE OrderInv'
    <2>1. /\ queue' = queue /\ inbox' = inbox /\ published' = published
          /\ held'[c] = 0
          /\ held[c] # 0 => Hold(c) = <<held[c]>>
          /\ heard'[c] = heard[c] \/ (heard'[c] = Append(heard[c], held[c]) /\ held[c] # 0)
          /\ \A e \in Clients : e # c => held'[e] = held[e] /\ heard'[e] = heard[e]
      BY <1>8 DEF Send, Cancel, TypeOK, Holding, Hold, managerVars
    <2>2. /\ Order(heard[c], <<>>, queue[c], inbox, published)
          /\ held[c] # 0 => Order(Append(heard[c], held[c]), <<>>, queue[c], inbox, published)
      BY <1>a, <2>1, SeqTypes, OrderSend DEF Ordered
    <2>3. Ordered(c)'
      BY <2>1, <2>2 DEF Ordered, Hold
    <2>4. QED  BY <1>c, <2>1, <2>3
  <1>9. CASE UNCHANGED vars
    BY <1>9, <1>d DEF vars, managerVars, clientVars
  <1>10. QED
    BY <1>1, <1>2, <1>3, <1>4, <1>5, <1>6, <1>7, <1>8, <1>9
    DEF Next, ManagerStep, StreamStep

LEMMA OrderHeard ==
    ASSUME TypeOK, OrderInv
    PROVE  HeardInOrder
  <1> SUFFICES ASSUME NEW c \in Clients
               PROVE  Inc(Seen(c))
    BY DEF HeardInOrder, Inc
  <1>1. /\ heard[c] \in Seq(Nat) /\ Hold(c) \in Seq(Nat) /\ queue[c] \in Seq(Nat)
        /\ Order(heard[c], Hold(c), queue[c], inbox, published)
    BY SeqTypes DEF OrderInv, Ordered
  <1>2. Inc(Hold(c))
    BY DEF Hold, Inc
  <1>3. Inc(Hold(c) \o queue[c]) /\ Hold(c) \o queue[c] \in Seq(Nat)
    BY <1>1, <1>2, IncConcat DEF Order
  <1>4. Before(heard[c], Hold(c) \o queue[c])
    BY <1>1, BeforeConcat DEF Order
  <1>5. Inc(heard[c] \o (Hold(c) \o queue[c]))
    BY <1>1, <1>3, <1>4, IncConcat DEF Order
  <1>6. ASSUME NEW h \in Seq(Nat), NEW d \in Seq(Nat), NEW q \in Seq(Nat)
        PROVE  h \o (d \o q) = (h \o d) \o q
    <2>1. \A S : \A s, t, u \in Seq(S) : (s \o t) \o u = s \o (t \o u)
      BY ConcatAssociative, Zenon
    <2>2. QED  BY <2>1
  <1>7. QED  BY <1>1, <1>5, <1>6 DEF Seen, Hold

(* However slow a client, however small its queue and however often the    *)
(* subscription breaks, what it hears is in the order of publication, with *)
(* no event twice.                                                         *)
THEOREM HeardInOrderCorrect == Spec => []HeardInOrder
  <1>1. OrderInv /\ TypeOK /\ Holding /\ [Next]_vars => OrderInv'
    BY OrderStep
  <1>2. TypeOK /\ OrderInv => HeardInOrder
    BY OrderHeard
  <1>3. QED  BY OrderInit, StreamTypes, <1>1, <1>2, PTL DEF Spec

----------------------------------------------------------------------------
\* What waits for a client is the latest it was offered.

(* s is the end of t, said of their elements. *)
EndOf(s, t) ==
    /\ Len(s) <= Len(t)
    /\ \A i \in 1..Len(s) : s[i] = t[Len(t) - Len(s) + i]

LEMMA EndIsSuffix ==
    ASSUME NEW s \in Seq(Nat), NEW t \in Seq(Nat), EndOf(s, t)
    PROVE  IsSuffix(s, t)
  <1> DEFINE n == Len(s)
             a == Reverse(s)
             b == Reverse(t)
  <1>1. a = [i \in 1..Len(s) |-> s[(Len(s) - i) + 1]]
    BY DEF Reverse
  <1>2. a \in Seq(Nat) /\ Len(a) = Len(s)
    BY <1>1
  <1>3. b = [i \in 1..Len(t) |-> t[(Len(t) - i) + 1]]
    BY DEF Reverse
  <1>4. b \in Seq(Nat) /\ Len(b) = Len(t)
    BY <1>3
  <1>5. n \in Nat /\ Len(t) \in Nat /\ n <= Len(t)
    BY DEF EndOf
  <1>6. ASSUME NEW i \in 1..n
        PROVE  a[i] = b[i]
    <2>1. i \in 1..Len(t) /\ (n - i) + 1 \in 1..n
      BY <1>5
    <2>2. s[(n - i) + 1] = t[Len(t) - n + ((n - i) + 1)]
      BY <2>1 DEF EndOf
    <2>3. Len(t) - n + ((n - i) + 1) = (Len(t) - i) + 1
      BY <1>5
    <2>4. QED  BY <1>1, <1>3, <2>1, <2>2, <2>3
  <1> HIDE DEF a, b, n
  <1>7. SubSeq(a, 1, n) = SubSeq(b, 1, n)
    <2>1. /\ SubSeq(a, 1, n) \in Seq(Nat) /\ Len(SubSeq(a, 1, n)) = n
          /\ \A i \in 1..n : SubSeq(a, 1, n)[i] = a[i]
      BY <1>2, <1>5 DEF n
    <2>2. /\ SubSeq(b, 1, n) \in Seq(Nat) /\ Len(SubSeq(b, 1, n)) = n
          /\ \A i \in 1..n : SubSeq(b, 1, n)[i] = b[i]
      BY <1>4, <1>5
    <2>3. QED  BY <1>6, <2>1, <2>2, SeqEqual
  <1>8. IsPrefix(a, b)
    BY <1>2, <1>4, <1>5, <1>7 DEF IsPrefix, n
  <1>9. QED  BY <1>8 DEF IsSuffix, a, b

LEMMA EndAppend ==
    ASSUME NEW s \in Seq(Nat), NEW t \in Seq(Nat), NEW m \in Nat, EndOf(s, t)
    PROVE  /\ EndOf(Append(s, m), Append(t, m))
           /\ s # <<>> => EndOf(Tail(s), t)
  <1>1. EndOf(Append(s, m), Append(t, m))
    <2>1. /\ Len(Append(s, m)) = Len(s) + 1 /\ Len(Append(t, m)) = Len(t) + 1
          /\ Len(s) \in Nat /\ Len(t) \in Nat /\ Len(s) <= Len(t)
      BY DEF EndOf
    <2>2. ASSUME NEW i \in 1..(Len(s) + 1)
          PROVE  Append(s, m)[i] = Append(t, m)[(Len(t) + 1) - (Len(s) + 1) + i]
      <3>1. CASE i = Len(s) + 1
        <4>1. (Len(t) + 1) - (Len(s) + 1) + i = Len(t) + 1
          BY <2>1, <3>1
        <4>2. Append(s, m)[Len(s) + 1] = m /\ Append(t, m)[Len(t) + 1] = m
          OBVIOUS
        <4>3. QED  BY <3>1, <4>1, <4>2
      <3>2. CASE i \in 1..Len(s)
        <4>1. /\ (Len(t) + 1) - (Len(s) + 1) + i = Len(t) - Len(s) + i
              /\ Len(t) - Len(s) + i \in 1..Len(t)
          BY <2>1, <3>2
        <4>2. /\ Append(s, m)[i] = s[i]
              /\ Append(t, m)[Len(t) - Len(s) + i] = t[Len(t) - Len(s) + i]
          BY <3>2, <4>1
        <4>3. QED  BY <3>2, <4>1, <4>2 DEF EndOf
      <3>3. QED  BY <2>1, <3>1, <3>2
    <2> DEFINE a == Append(s, m)
               b == Append(t, m)
    <2>3. Len(a) <= Len(b) /\ Len(a) = Len(s) + 1 /\ Len(b) = Len(t) + 1
      BY <2>1
    <2>4. \A i \in 1..(Len(s) + 1) : a[i] = b[(Len(t) + 1) - (Len(s) + 1) + i]
      BY <2>2
    <2> HIDE DEF a, b
    <2>5. EndOf(a, b)
      BY <2>3, <2>4 DEF EndOf
    <2>6. QED  BY <2>5 DEF a, b
  <1>2. ASSUME s # <<>>
        PROVE  EndOf(Tail(s), t)
    <2>1. /\ Len(Tail(s)) = Len(s) - 1 /\ Len(s) \in Nat \ {0}
          /\ Len(t) \in Nat /\ Len(s) <= Len(t)
      BY <1>2 DEF EndOf
    <2>2. ASSUME NEW i \in 1..(Len(s) - 1)
          PROVE  Tail(s)[i] = t[Len(t) - (Len(s) - 1) + i]
      <3>1. Tail(s)[i] = s[i + 1] /\ i + 1 \in 1..Len(s)
        BY <1>2, <2>1
      <3>2. s[i + 1] = t[Len(t) - Len(s) + (i + 1)]
        BY <3>1 DEF EndOf
      <3>3. Len(t) - Len(s) + (i + 1) = Len(t) - (Len(s) - 1) + i
        BY <2>1
      <3>4. QED  BY <3>1, <3>2, <3>3
    <2>3. QED  BY <2>1, <2>2 DEF EndOf
  <1>3. QED  BY <1>1, <1>2

PendingInv == \A c \in Clients : EndOf(queue[c], offered[c])

LEMMA PendingTypes ==
    ASSUME TypeOK, NEW c \in Clients
    PROVE  queue[c] \in Seq(Nat) /\ offered[c] \in Seq(Nat)
  <1>1. Messages \subseteq Nat
    BY DEF Messages
  <1>2. QED  BY <1>1, SeqMonotonic DEF TypeOK

LEMMA PendingStep ==
    ASSUME TypeOK, PendingInv, [Next]_vars
    PROVE  PendingInv'
  <1>1. ASSUME queue' = queue, offered' = offered
        PROVE  PendingInv'
    BY <1>1 DEF PendingInv
  <1>2. CASE Fanout
    <2>1. Head(inbox) \in Messages /\ Head(inbox) \in Nat
      <3>1. Head(inbox) \in Messages
        BY <1>2 DEF Fanout, TypeOK
      <3>2. QED  BY <3>1 DEF Messages
    <2>2. SUFFICES ASSUME NEW c \in Clients
                   PROVE  EndOf(queue[c], offered[c])'
      BY DEF PendingInv
    <2>3. EndOf(queue[c], offered[c]) /\ queue[c] \in Seq(Nat) /\ offered[c] \in Seq(Nat)
      BY PendingTypes DEF PendingInv
    <2>4. CASE c \notin admin_clients
      BY <1>2, <2>3, <2>4 DEF Fanout
    <2>5. CASE c \in admin_clients
      <3>1. /\ queue'[c] = Offer(queue[c], Head(inbox))
            /\ offered'[c] = Append(offered[c], Head(inbox))
        BY <1>2, <2>5 DEF Fanout
      <3>2. /\ EndOf(Append(queue[c], Head(inbox)), Append(offered[c], Head(inbox)))
            /\ queue[c] # <<>> =>
                 EndOf(Append(Tail(queue[c]), Head(inbox)), Append(offered[c], Head(inbox)))
        BY <2>1, <2>3, EndAppend, TailFacts
      <3>3. \/ Offer(queue[c], Head(inbox)) = Append(queue[c], Head(inbox))
            \/ /\ queue[c] # <<>>
               /\ Offer(queue[c], Head(inbox)) = Append(Tail(queue[c]), Head(inbox))
        BY <2>1, OfferFacts DEF TypeOK
      <3>4. QED  BY <3>1, <3>2, <3>3
    <2>6. QED  BY <2>4, <2>5
  <1>3. ASSUME NEW c \in Clients, Take(c)  PROVE PendingInv'
    <2>1. /\ offered' = offered /\ queue[c] # <<>> /\ queue'[c] = Tail(queue[c])
          /\ \A e \in Clients : e # c => queue'[e] = queue[e]
      BY <1>3 DEF Take, TypeOK
    <2>2. EndOf(Tail(queue[c]), offered[c])
      BY <2>1, PendingTypes, EndAppend DEF PendingInv
    <2>3. QED  BY <2>1, <2>2 DEF PendingInv
  <1>4. CASE Connect \/ Disconnect \/ Publish \/ Break \/ Resubscribe \/ UNCHANGED vars
    BY <1>1, <1>4 DEF Connect, Disconnect, Publish, Break, Resubscribe, vars, clientVars
  <1>5. ASSUME NEW c \in Clients,
               Subscribe(c) \/ Leave(c) \/ Check(c) \/ Ping(c) \/ Send(c) \/ Cancel(c)
        PROVE  PendingInv'
    BY <1>1, <1>5 DEF Subscribe, Leave, Check, Ping, Send, Cancel
  <1>6. QED
    BY <1>2, <1>3, <1>4, <1>5 DEF Next, ManagerStep, StreamStep

(* A full queue loses its oldest events only: what waits for a client is   *)
(* always the latest of what it was offered, without a gap.                *)
THEOREM PendingIsNewestCorrect == Spec => []PendingIsNewest
  <1>1. Init => PendingInv
    BY DEF Init, PendingInv, EndOf
  <1>2. TypeOK /\ PendingInv /\ [Next]_vars => PendingInv'
    BY PendingStep
  <1>3. TypeOK /\ PendingInv => PendingIsNewest
    BY PendingTypes, EndIsSuffix DEF PendingInv, PendingIsNewest
  <1>4. QED  BY StreamTypes, <1>1, <1>2, <1>3, PTL DEF Spec

----------------------------------------------------------------------------
\* Who misses an event.

In(x, s) == \E i \in 1..Len(s) : s[i] = x
Shown(c, x) == In(x, heard[c]) \/ x = held[c] \/ In(x, queue[c])

(* An event that a client who is still there was offered is on its way, or *)
(* has a whole queue of newer ones behind it.                              *)
LateOne(c) ==
    \A i \in 1..Len(offered[c]) :
        Shown(c, offered[c][i]) \/ Len(offered[c]) - i >= Capacity
LateInv == \A c \in Clients \ gone : LateOne(c)

LEMMA InAppend ==
    ASSUME NEW s \in Seq(Nat), NEW m \in Nat
    PROVE  /\ \A x : In(x, Append(s, m)) <=> In(x, s) \/ x = m
           /\ \A i \in 1..Len(s) : Append(s, m)[i] = s[i]
           /\ Append(s, m)[Len(s) + 1] = m /\ Len(Append(s, m)) = Len(s) + 1
  <1>1. /\ Len(Append(s, m)) = Len(s) + 1 /\ Append(s, m)[Len(s) + 1] = m
        /\ \A i \in 1..Len(s) : Append(s, m)[i] = s[i]
        /\ Len(s) \in Nat
    OBVIOUS
  <1> PICK t : t = Append(s, m)
    OBVIOUS
  <1>2. ASSUME NEW x PROVE In(x, t) <=> In(x, s) \/ x = m
    BY <1>1 DEF In
  <1>3. QED  BY <1>1, <1>2

LEMMA InTail ==
    ASSUME NEW s \in Seq(Nat), s # <<>>
    PROVE  \A x : In(x, s) => x = Head(s) \/ In(x, Tail(s))
  <1>1. /\ Len(Tail(s)) = Len(s) - 1 /\ Len(s) \in Nat \ {0} /\ Head(s) = s[1]
        /\ \A i \in 1..(Len(s) - 1) : Tail(s)[i] = s[i + 1]
    OBVIOUS
  <1> PICK t : t = Tail(s)
    OBVIOUS
  <1>2. ASSUME NEW x, NEW i \in 1..Len(s), s[i] = x, x # Head(s)
        PROVE  In(x, t)
    <2>1. i - 1 \in 1..Len(t) /\ t[i - 1] = x
      BY <1>1, <1>2
    <2>2. QED  BY <2>1 DEF In
  <1>3. QED  BY <1>2 DEF In

LEMMA InConcat ==
    ASSUME NEW s \in Seq(Nat), NEW t \in Seq(Nat)
    PROVE  \A x : In(x, s) \/ In(x, t) => In(x, s \o t)
  <1>1. /\ Len(s \o t) = Len(s) + Len(t) /\ Len(s) \in Nat /\ Len(t) \in Nat
        /\ \A i \in 1..Len(s) : (s \o t)[i] = s[i]
        /\ \A i \in 1..Len(t) : (s \o t)[Len(s) + i] = t[i]
    OBVIOUS
  <1> PICK u : u = s \o t
    OBVIOUS
  <1>2. ASSUME NEW x, In(x, s) PROVE In(x, u)
    BY <1>1, <1>2 DEF In
  <1>3. ASSUME NEW x, NEW i \in 1..Len(t), t[i] = x PROVE In(x, u)
    <2>1. Len(s) + i \in 1..Len(u) /\ u[Len(s) + i] = x
      BY <1>1, <1>3
    <2>2. QED  BY <2>1 DEF In
  <1>4. QED  BY <1>2, <1>3 DEF In

(* The queue that drops its head drops the event Capacity places back.     *)
LEMMA LateOffer ==
    ASSUME NEW q \in Seq(Nat), NEW f \in Seq(Nat), NEW m \in Nat, NEW H,
           EndOf(q, f), Len(q) <= Capacity,
           \A i \in 1..Len(f) : f[i] \in H \/ In(f[i], q) \/ Len(f) - i >= Capacity
    PROVE  \A i \in 1..Len(Append(f, m)) :
              \/ Append(f, m)[i] \in H \/ In(Append(f, m)[i], Offer(q, m))
              \/ Len(Append(f, m)) - i >= Capacity
  <1>1. /\ Len(f) \in Nat /\ Len(q) \in Nat /\ Capacity \in Nat \ {0}
        /\ Len(Append(f, m)) = Len(f) + 1 /\ Append(f, m)[Len(f) + 1] = m
        /\ \A i \in 1..Len(f) : Append(f, m)[i] = f[i]
    BY InAppend, BoundsAssumption
  <1>2. In(m, Offer(q, m))
    <2>1. CASE Len(q) >= Capacity
      <3>1. Tail(q) \in Seq(Nat)
        BY <1>1, <2>1
      <3>2. QED  BY <2>1, <3>1, InAppend DEF Offer
    <2>2. CASE ~(Len(q) >= Capacity)
      BY <2>2, InAppend DEF Offer
    <2>3. QED  BY <2>1, <2>2
  <1>3. ASSUME NEW i \in 1..Len(f)
        PROVE  \/ f[i] \in H \/ In(f[i], Offer(q, m)) \/ (Len(f) + 1) - i >= Capacity
    <2>1. CASE f[i] \in H \/ Len(f) - i >= Capacity
      BY <1>1, <2>1
    <2>2. CASE In(f[i], q) /\ ~(Len(q) >= Capacity)
      BY <2>2, InAppend DEF Offer
    <2>3. CASE Len(q) >= Capacity /\ (Len(f) + 1) - i < Capacity
      <3>1. Len(q) = Capacity /\ Tail(q) \in Seq(Nat) /\ Len(Tail(q)) = Len(q) - 1
        BY <1>1, <2>3
      <3> PICK k \in 2..Len(q) : i = Len(f) - Len(q) + k
        <4> Len(q) <= Len(f)
          BY DEF EndOf
        <4>1. Len(f) - Len(q) \in Nat /\ i - (Len(f) - Len(q)) \in 2..Len(q)
          BY <1>1, <2>3, <3>1
        <4>2. i = Len(f) - Len(q) + (i - (Len(f) - Len(q)))
          BY <1>1
        <4>3. QED  BY <4>1, <4>2
      <3>2. q[k] = f[i]
        <4>1. k \in 1..Len(q)
          BY <1>1
        <4>2. q[k] = f[Len(f) - Len(q) + k]
          BY <4>1 DEF EndOf
        <4>3. QED  BY <4>2
      <3>3. Tail(q)[k - 1] = q[k] /\ k - 1 \in 1..Len(Tail(q))
        BY <1>1, <3>1
      <3>4. In(f[i], Tail(q))
        BY <3>2, <3>3 DEF In
      <3>5. QED  BY <2>3, <3>1, <3>4, InAppend DEF Offer
    <2>4. (Len(f) + 1) - i >= Capacity \/ (Len(f) + 1) - i < Capacity
      BY <1>1
    <2>5. f[i] \in H \/ In(f[i], q) \/ Len(f) - i >= Capacity
      OBVIOUS
    <2>6. QED  BY <2>1, <2>2, <2>3, <2>4, <2>5
  <1>4. ASSUME NEW i \in 1..(Len(f) + 1)
        PROVE  \/ Append(f, m)[i] \in H \/ In(Append(f, m)[i], Offer(q, m))
               \/ (Len(f) + 1) - i >= Capacity
    <2>1. i \in 1..Len(f) \/ i = Len(f) + 1
      BY <1>1
    <2>2. CASE i \in 1..Len(f)
      BY <1>1, <1>3, <2>2
    <2>3. CASE i = Len(f) + 1
      BY <1>1, <1>2, <2>3
    <2>4. QED  BY <2>1, <2>2, <2>3
  <1>5. QED  BY <1>1, <1>4

LEMMA LateSame ==
    ASSUME NEW c \in Clients \ gone, LateOne(c),
           offered'[c] = offered[c], \A x : Shown(c, x) => Shown(c, x)'
    PROVE  LateOne(c)'
  BY DEF LateOne

LEMMA LateStep ==
    ASSUME TypeOK, Holding, PendingInv, LateInv, [Next]_vars
    PROVE  LateInv'
  <1>1. SUFFICES ASSUME NEW c \in Clients, c \notin gone'
                 PROVE  LateOne(c)'
    BY DEF LateInv
  <1>2. gone \subseteq gone'
    BY DEF Next, ManagerStep, StreamStep, Connect, Disconnect, Publish, Break, Resubscribe,
           Fanout, Subscribe, Leave, Check, Take, Ping, Send, Cancel, vars, clientVars
  <1>3. c \notin gone /\ LateOne(c)
    BY <1>1, <1>2 DEF LateInv
  <1>4. heard[c] \in Seq(Nat) /\ queue[c] \in Seq(Nat) /\ offered[c] \in Seq(Nat)
    BY SeqTypes, PendingTypes
  <1>5. CASE UNCHANGED <<heard, queue, held, offered>>
    <2>1. \A x : Shown(c, x) => Shown(c, x)'
      BY <1>5 DEF Shown
    <2>2. QED  BY <1>3, <1>5, <2>1, LateSame
  <1>6. CASE Fanout
    <2>1. Head(inbox) \in Messages /\ Head(inbox) \in Nat
      <3>1. Head(inbox) \in Messages
        BY <1>6 DEF Fanout, TypeOK
      <3>2. QED  BY <3>1 DEF Messages
    <2>2. UNCHANGED <<heard, held>>
      BY <1>6 DEF Fanout
    <2>3. CASE c \notin admin_clients
      <3>1. queue'[c] = queue[c] /\ offered'[c] = offered[c]
        BY <1>6, <2>3 DEF Fanout
      <3>2. \A x : Shown(c, x) => Shown(c, x)'
        BY <2>2, <3>1 DEF Shown
      <3>3. QED  BY <1>3, <3>1, <3>2, LateSame
    <2>4. CASE c \in admin_clients
      <3> PICK m \in Nat : m = Head(inbox)
        BY <2>1
      <3> PICK H : \A x : x \in H <=> x \in Nat /\ (In(x, heard[c]) \/ x = held[c])
        <4> DEFINE G == {x \in Nat : In(x, heard[c]) \/ x = held[c]}
        <4>1. \A x : x \in G <=> x \in Nat /\ (In(x, heard[c]) \/ x = held[c])
          OBVIOUS
        <4> HIDE DEF G
        <4>2. QED  BY <4>1
      <3>1. /\ queue'[c] = Offer(queue[c], m)
            /\ offered'[c] = Append(offered[c], m)
        BY <1>6, <2>4 DEF Fanout
      <3>2. \A i \in 1..Len(offered[c]) :
               \/ offered[c][i] \in H \/ In(offered[c][i], queue[c])
               \/ Len(offered[c]) - i >= Capacity
        <4>1. \A i \in 1..Len(offered[c]) : offered[c][i] \in Nat
          BY <1>4
        <4>2. QED  BY <1>3, <4>1 DEF LateOne, Shown
      <3>3. EndOf(queue[c], offered[c]) /\ Len(queue[c]) <= Capacity
        BY DEF PendingInv, TypeOK
      <3>4. \A i \in 1..Len(offered'[c]) :
               \/ offered'[c][i] \in H \/ In(offered'[c][i], queue'[c])
               \/ Len(offered'[c]) - i >= Capacity
        BY <1>4, <3>1, <3>2, <3>3, LateOffer
      <3>5. \A x : x \in H => Shown(c, x)'
        BY <2>2 DEF Shown
      <3>6. \A x : In(x, queue'[c]) => Shown(c, x)'
        BY DEF Shown, In
      <3>7. QED  BY <3>4, <3>5, <3>6 DEF LateOne
    <2>5. QED  BY <2>3, <2>4
  <1>7. ASSUME NEW e \in Clients, Take(e)
        PROVE  LateOne(c)'
    <2>1. UNCHANGED <<heard, offered>>
      BY <1>7 DEF Take
    <2>2. CASE e = c
      <3>1. /\ queue[c] # <<>> /\ queue'[c] = Tail(queue[c]) /\ held'[c] = Head(queue[c])
            /\ held[c] = 0
        BY <1>7, <2>2 DEF Take, TypeOK, Holding
      <3>2. \A i \in 1..Len(offered[c]) : offered[c][i] # 0
        <4>1. offered[c] \in Seq(Messages) /\ 0 \notin Messages
          BY DEF TypeOK, Messages
        <4>2. QED  BY <4>1
      <3>3. \A x : x # 0 /\ Shown(c, x) => In(x, heard[c]) \/ In(x, queue[c])
        BY <3>1 DEF Shown
      <3>4. \A x : In(x, queue[c]) => x = held'[c] \/ In(x, queue'[c])
        BY <1>4, <3>1, InTail
      <3>5. \A x : x # 0 /\ Shown(c, x) => Shown(c, x)'
        <4>1. \A x : In(x, heard[c]) => In(x, heard[c])'
          BY <2>1 DEF In
        <4>2. \A x : In(x, queue'[c]) => In(x, queue[c])'
          BY DEF In
        <4>3. QED  BY <3>3, <3>4, <4>1, <4>2 DEF Shown
      <3>6. QED  BY <1>3, <2>1, <3>2, <3>5 DEF LateOne
    <2>3. CASE e # c
      <3>1. queue'[c] = queue[c] /\ held'[c] = held[c]
        BY <1>7, <2>3 DEF Take, TypeOK
      <3>2. \A x : Shown(c, x) => Shown(c, x)'
        BY <2>1, <3>1 DEF Shown
      <3>3. QED  BY <1>3, <2>1, <3>2, LateSame
    <2>4. QED  BY <2>2, <2>3
  <1>8. ASSUME NEW e \in Clients, Send(e)
        PROVE  LateOne(c)'
    <2>1. UNCHANGED <<queue, offered>>
      BY <1>8 DEF Send
    <2>2. CASE e = c
      <3>1. heard'[c] = Append(heard[c], held[c]) /\ held[c] \in Nat
        BY <1>3, <1>8, <2>2 DEF Send, TypeOK
      <3>2. \A x : In(x, heard[c]) \/ x = held[c] => In(x, heard'[c])
        BY <1>4, <3>1, InAppend
      <3>3. \A x : In(x, heard'[c]) => In(x, heard[c])'
        BY DEF In
      <3>4. \A x : Shown(c, x) => Shown(c, x)'
        BY <2>1, <3>2, <3>3 DEF Shown
      <3>5. QED  BY <1>3, <2>1, <3>4, LateSame
    <2>3. CASE e # c
      <3>1. heard'[c] = heard[c] /\ held'[c] = held[c]
        BY <1>8, <2>3 DEF Send, TypeOK
      <3>2. \A x : Shown(c, x) => Shown(c, x)'
        BY <2>1, <3>1 DEF Shown
      <3>3. QED  BY <1>3, <2>1, <3>2, LateSame
    <2>4. QED  BY <2>2, <2>3
  <1>9. ASSUME NEW e \in Clients, Cancel(e)
        PROVE  LateOne(c)'
    <2>1. /\ UNCHANGED <<queue, offered, heard>> /\ held'[c] = held[c]
      BY <1>3, <1>9 DEF Cancel, TypeOK
    <2>2. \A x : Shown(c, x) => Shown(c, x)'
      BY <2>1 DEF Shown
    <2>3. QED  BY <1>3, <2>1, <2>2, LateSame
  <1>10. CASE Connect \/ Disconnect \/ Publish \/ Break \/ Resubscribe \/ UNCHANGED vars
    BY <1>5, <1>10 DEF Connect, Disconnect, Publish, Break, Resubscribe, vars, clientVars
  <1>11. ASSUME NEW e \in Clients, Subscribe(e) \/ Leave(e) \/ Check(e) \/ Ping(e)
         PROVE  LateOne(c)'
    BY <1>5, <1>11 DEF Subscribe, Leave, Check, Ping
  <1>12. QED
    BY <1>6, <1>7, <1>8, <1>9, <1>10, <1>11 DEF Next, ManagerStep, StreamStep

(* An event is missed only by a client that lets a whole queue of newer    *)
(* events pile up, whatever other clients do.                              *)
THEOREM OnlyLateMissCorrect == Spec => []OnlyLateMiss
  <1>1. Init => PendingInv /\ LateInv
    BY DEF Init, PendingInv, EndOf, LateInv, LateOne
  <1>2. TypeOK /\ Holding /\ PendingInv /\ LateInv /\ [Next]_vars => PendingInv' /\ LateInv'
    BY PendingStep, LateStep
  <1>3. TypeOK /\ LateInv => OnlyLateMiss
    <2> SUFFICES ASSUME TypeOK, LateInv, NEW c \in Clients \ gone,
                        NEW i \in DOMAIN offered[c]
                 PROVE  offered[c][i] \notin ToSet(Seen(c)) => Len(offered[c]) - i >= Capacity
      BY DEF OnlyLateMiss
    <2>1. heard[c] \in Seq(Nat) /\ queue[c] \in Seq(Nat) /\ Hold(c) \in Seq(Nat)
      BY SeqTypes
    <2>2. offered[c][i] \in Messages /\ i \in 1..Len(offered[c])
      BY DEF TypeOK
    <2>3. held[c] # 0 => In(held[c], Hold(c))
      BY DEF Hold, In
    <2>4. offered[c][i] # 0
      BY <2>2 DEF Messages
    <2>5. Seen(c) = (heard[c] \o Hold(c)) \o queue[c] /\ heard[c] \o Hold(c) \in Seq(Nat)
      BY <2>1 DEF Seen, Hold
    <2>6. Shown(c, offered[c][i]) => In(offered[c][i], Seen(c))
      BY <2>1, <2>3, <2>4, <2>5, InConcat DEF Shown
    <2>7. In(offered[c][i], Seen(c)) => offered[c][i] \in ToSet(Seen(c))
      <3>1. Seen(c) \in Seq(Nat)
        BY <2>1, <2>5
      <3>2. QED  BY <3>1 DEF In, ToSet
    <2>8. QED  BY <2>2, <2>6, <2>7 DEF LateInv, LateOne
  <1>4. QED  BY StreamTypes, <1>1, <1>2, <1>3, PTL DEF Spec

----------------------------------------------------------------------------
\* The stream is a feed.

(* What a client was offered is in order and older than what the listener  *)
(* is yet to read, and what its generator holds is of it.                  *)
OfferOne(c) ==
    /\ Order(<<>>, <<>>, offered[c], inbox, published)
    /\ held[c] # 0 => In(held[c], offered[c])

FeedInv == \A c \in Clients : OfferOne(c)

LEMMA EmptyOrder ==
    ASSUME NEW q \in Seq(Nat), NEW b \in Seq(Nat), NEW p \in Nat
    PROVE  Order(<<>>, <<>>, q, b, p) <=> Inc(q) /\ Before(q, b) /\ Below(q, p)
  BY DEF Order, Inc, Before, Below

LEMMA OfferSame ==
    ASSUME NEW c \in Clients, OfferOne(c), offered'[c] = offered[c],
           inbox' = inbox, published' = published, held'[c] = held[c] \/ held'[c] = 0
    PROVE  OfferOne(c)'
  BY DEF OfferOne

LEMMA FeedStep ==
    ASSUME TypeOK, Holding, InboxOrdered, PendingInv, FeedInv, [Next]_vars
    PROVE  FeedInv'
  <1> SUFFICES ASSUME NEW c \in Clients  PROVE OfferOne(c)'
    BY DEF FeedInv
  <1>a. /\ OfferOne(c) /\ offered[c] \in Seq(Nat) /\ queue[c] \in Seq(Nat)
        /\ inbox \in Seq(Nat) /\ published \in Nat
    BY SeqTypes, PendingTypes DEF FeedInv
  <1>b. <<>> \in Seq(Nat)
    OBVIOUS
  <1>1. CASE Connect \/ Resubscribe \/ UNCHANGED vars
    BY <1>1, <1>a, OfferSame DEF Connect, Resubscribe, vars, clientVars, managerVars
  <1>2. CASE Disconnect \/ Break
    <2>1. /\ inbox' = <<>> /\ published' = published
          /\ offered' = offered /\ held' = held
      BY <1>2 DEF Disconnect, Break, clientVars
    <2>2. Order(<<>>, <<>>, offered[c], <<>>, published)
      BY <1>a, <1>b, OrderPublish DEF OfferOne
    <2>3. QED  BY <1>a, <2>1, <2>2 DEF OfferOne
  <1>3. CASE Publish
    <2>1. /\ published' = published + 1
          /\ inbox' = inbox \/ inbox' = Append(inbox, published + 1)
          /\ offered' = offered /\ held' = held
      BY <1>3 DEF Publish, clientVars
    <2>2. /\ Order(<<>>, <<>>, offered[c], inbox, published + 1)
          /\ Order(<<>>, <<>>, offered[c], Append(inbox, published + 1), published + 1)
      BY <1>a, <1>b, OrderPublish DEF OfferOne
    <2>3. QED  BY <1>a, <2>1, <2>2 DEF OfferOne
  <1>4. CASE Fanout
    <2>1. /\ inbox # <<>> /\ inbox' = Tail(inbox) /\ published' = published /\ held' = held
          /\ offered'[c] = offered[c] \/ offered'[c] = Append(offered[c], Head(inbox))
      BY <1>4 DEF Fanout
    <2>2. /\ Order(<<>>, <<>>, offered[c], Tail(inbox), published)
          /\ Order(<<>>, <<>>, Append(offered[c], Head(inbox)), Tail(inbox), published)
      BY <1>a, <1>b, <2>1, OrderFanout DEF OfferOne, InboxOrdered
    <2>3. Head(inbox) \in Nat
      BY <1>a, <2>1, TailFacts
    <2>4. held[c] # 0 => In(held[c], Append(offered[c], Head(inbox)))
      BY <1>a, <2>3, InAppend DEF OfferOne
    <2>5. QED  BY <1>a, <2>1, <2>2, <2>4 DEF OfferOne
  <1>5. ASSUME NEW e \in Clients, Take(e)  PROVE OfferOne(c)'
    <2>1. /\ offered' = offered /\ inbox' = inbox /\ published' = published
          /\ queue[e] # <<>> /\ held'[e] = Head(queue[e])
          /\ e # c => held'[c] = held[c]
      BY <1>5 DEF Take, TypeOK, managerVars
    <2>2. CASE e # c
      BY <1>a, <2>1, <2>2, OfferSame
    <2>3. CASE e = c
      <3>1. /\ 1 \in 1..Len(queue[c]) /\ Head(queue[c]) = queue[c][1]
            /\ EndOf(queue[c], offered[c])
        BY <1>a, <2>1, <2>3 DEF PendingInv
      <3>2. /\ queue[c][1] = offered[c][Len(offered[c]) - Len(queue[c]) + 1]
            /\ Len(offered[c]) - Len(queue[c]) + 1 \in 1..Len(offered[c])
        <4>1. /\ Len(queue[c]) \in Nat \ {0} /\ Len(offered[c]) \in Nat
              /\ Len(queue[c]) <= Len(offered[c])
          BY <1>a, <3>1 DEF EndOf
        <4>2. queue[c][1] = offered[c][Len(offered[c]) - Len(queue[c]) + 1]
          BY <3>1 DEF EndOf
        <4>3. \A n \in Nat, l \in Nat \ {0} : l <= n => n - l + 1 \in 1..n
          OBVIOUS
        <4>4. Len(offered[c]) - Len(queue[c]) + 1 \in 1..Len(offered[c])
          BY <4>1, <4>3
        <4>5. QED  BY <4>2, <4>4
      <3>3. In(Head(queue[c]), offered[c])
        BY <3>1, <3>2 DEF In
      <3>4. QED  BY <1>a, <2>1, <2>3, <3>3 DEF OfferOne
    <2>4. QED  BY <2>2, <2>3
  <1>6. ASSUME NEW e \in Clients, Send(e) \/ Cancel(e)  PROVE OfferOne(c)'
    <2>1. /\ offered' = offered /\ inbox' = inbox /\ published' = published
          /\ held'[c] = held[c] \/ held'[c] = 0
      BY <1>6 DEF Send, Cancel, TypeOK, managerVars
    <2>2. QED  BY <1>a, <2>1, OfferSame
  <1>7. ASSUME NEW e \in Clients, Subscribe(e) \/ Leave(e) \/ Check(e) \/ Ping(e)
        PROVE  OfferOne(c)'
    BY <1>7, <1>a, OfferSame DEF Subscribe, Leave, Check, Ping, managerVars
  <1>8. QED
    BY <1>1, <1>2, <1>3, <1>4, <1>5, <1>6, <1>7 DEF Next, ManagerStep, StreamStep

(* What is fanned out happens to the clients that are registered.          *)
LEMMA FanoutHappens ==
    ASSUME TypeOK, FeedInv, Fanout
    PROVE  \E m \in Messages, C \in SUBSET Clients : Events!Happen(m, C)
  <1>1. /\ Head(inbox) \in Messages /\ 1 \in DOMAIN inbox /\ Head(inbox) = inbox[1]
        /\ admin_clients \in SUBSET Clients
    BY DEF Fanout, TypeOK
  <1>2. ASSUME NEW c \in admin_clients, NEW i \in 1..Len(offered[c])
        PROVE  offered[c][i] < Head(inbox)
    <2>1. c \in Clients
      BY <1>1
    <2>2. Before(offered[c], inbox) /\ i \in DOMAIN offered[c]
      BY <2>1, PendingTypes DEF FeedInv, OfferOne, Order
    <2>3. QED  BY <1>1, <2>2 DEF Before
  <1>3. Events!Happen(Head(inbox), admin_clients)
    BY <1>2 DEF Fanout, Events!Happen
  <1>4. QED  BY <1>1, <1>3

(* What a client is sent is newer than all it heard, and what it was       *)
(* offered before and has not heard is a whole queue back.                 *)
LEMMA SendHears ==
    ASSUME TypeOK, Holding, OrderInv, LateInv, PendingInv, FeedInv,
           NEW c \in Clients, Send(c), c \notin gone
    PROVE  \E i \in 1..Len(offered[c]) : Events!Hear(c, i)
  <1>1. /\ heard[c] \in Seq(Nat) /\ queue[c] \in Seq(Nat) /\ offered[c] \in Seq(Nat)
        /\ held[c] \in Nat /\ held[c] # 0 /\ Hold(c) = <<held[c]>>
    BY SeqTypes, PendingTypes DEF Send, Holding, Hold
  <1>2. PICK i \in 1..Len(offered[c]) : offered[c][i] = held[c]
    BY <1>1 DEF FeedInv, OfferOne, In
  <1>3. /\ \A k \in 1..Len(heard[c]) : heard[c][k] < held[c]
        /\ \A k \in 1..Len(queue[c]) : held[c] < queue[c][k]
    <2>1. Before(heard[c], <<held[c]>>) /\ Before(<<held[c]>>, queue[c])
      BY <1>1 DEF OrderInv, Ordered, Order
    <2>2. QED  BY <1>1, <2>1 DEF Before
  <1>4. ASSUME NEW j \in 1..(i - 1)
        PROVE  Events!Heard(c, offered[c][j]) \/ Len(offered[c]) - j >= Capacity
    <2>1. j \in 1..Len(offered[c]) /\ offered[c][j] < held[c] /\ offered[c][j] \in Nat
      <3>1. Inc(offered[c])
        BY DEF FeedInv, OfferOne, Order
      <3>2. QED  BY <1>1, <1>2, <3>1 DEF Inc
    <2>2. Shown(c, offered[c][j]) \/ Len(offered[c]) - j >= Capacity
      BY <2>1 DEF LateInv, LateOne
    <2>3. offered[c][j] # held[c]
      BY <1>1, <2>1
    <2>4. ~In(offered[c][j], queue[c])
      BY <1>1, <1>3, <2>1 DEF In
    <2>5. In(offered[c][j], heard[c]) => Events!Heard(c, offered[c][j])
      BY DEF In, Events!Heard
    <2>6. QED  BY <2>2, <2>3, <2>4, <2>5 DEF Shown
  <1>5. heard' = [heard EXCEPT ![c] = Append(@, held[c])] /\ offered' = offered
    BY DEF Send
  <1>6. Events!Hear(c, i)
    BY <1>2, <1>3, <1>4, <1>5 DEF Events!Hear
  <1>7. QED  BY <1>6

LEMMA FeedSteps ==
    ASSUME TypeOK, Holding, OrderInv, LateInv, PendingInv, FeedInv, [Next]_vars
    PROVE  [Events!Next]_(Events!vars)
  <1> USE DEF Events!vars
  <1>1. CASE Fanout
    BY <1>1, FanoutHappens DEF Events!Next
  <1>2. ASSUME NEW c \in Clients, Send(c)
        PROVE  [Events!Next]_(Events!vars)
    <2>1. CASE c \in gone
      <3>1. heard' = heard /\ offered' = offered
        BY <1>2, <2>1 DEF Send, TypeOK
      <3>2. QED  BY <3>1
    <2>2. CASE c \notin gone
      BY <1>2, <2>2, SendHears DEF Events!Next
    <2>3. QED  BY <2>1, <2>2
  <1>3. CASE Connect \/ Disconnect \/ Publish \/ Break \/ Resubscribe \/ UNCHANGED vars
    BY <1>3 DEF Connect, Disconnect, Publish, Break, Resubscribe, vars, clientVars
  <1>4. ASSUME NEW c \in Clients,
               Subscribe(c) \/ Leave(c) \/ Check(c) \/ Ping(c) \/ Take(c) \/ Cancel(c)
        PROVE  [Events!Next]_(Events!vars)
    BY <1>4 DEF Subscribe, Leave, Check, Ping, Take, Cancel
  <1>5. QED
    BY <1>1, <1>2, <1>3, <1>4 DEF Next, ManagerStep, StreamStep

StreamInv == OrderInv /\ PendingInv /\ LateInv /\ FeedInv

(* The stream implements the feed: each client hears the events of its     *)
(* time in order, and leaves one out only when it is a queue behind.       *)
THEOREM StreamImplementsFeed == Spec => ImplementsFeed
  <1>1. Init => StreamInv
    <2> SUFFICES ASSUME Init  PROVE StreamInv
      OBVIOUS
    <2>1. PendingInv /\ LateInv
      BY DEF Init, PendingInv, EndOf, LateInv, LateOne
    <2>2. FeedInv
      BY DEF Init, FeedInv, OfferOne, Order, Inc, Before, Below
    <2>3. QED  BY OrderInit, <2>1, <2>2 DEF StreamInv
  <1>2. TypeOK /\ Holding /\ StreamInv /\ [Next]_vars => StreamInv'
    BY OrderStep, PendingStep, LateStep, FeedStep DEF StreamInv, OrderInv
  <1>3. Init => Events!Init
    BY DEF Init, Events!Init
  <1>4. TypeOK /\ Holding /\ StreamInv /\ [Next]_vars => [Events!Next]_(Events!vars)
    BY FeedSteps DEF StreamInv
  <1>5. QED
    BY StreamTypes, <1>1, <1>2, <1>3, <1>4, PTL DEF Spec, ImplementsFeed, Events!Spec

=============================================================================
