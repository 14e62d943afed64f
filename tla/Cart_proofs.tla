---------------------------- MODULE Cart_proofs ----------------------------
(***************************************************************************)
(* Theorems of Cart, for any number of requests, tokens, tables, products, *)
(* prices, changes by the shop and failures.                               *)
(***************************************************************************)
EXTENDS Cart, SequenceTheorems, TLAPS

----------------------------------------------------------------------------
\* Carts.

Lines == {Line(q, u) : q \in Nat \ {0}, u \in Prices}
Items == UNION {[S -> Lines] : S \in SUBSET Products}
CartOf(table, items) == [table |-> table, items |-> items, subtotal |-> Sum(items)]
Carts == {CartOf(table, items) : table \in Tables, items \in Items}

(* The sum over no items is where the fold starts.                         *)
LEMMA EmptySum == Sum(NoItems) = 0
  <1>1. DOMAIN NoItems = {}
    BY DEF NoItems
  <1> DEFINE H(g) == [s \in SUBSET {} |->
                        IF s = {} THEN 0
                        ELSE LET x == CHOOSE y \in s : TRUE
                             IN  NoItems[x].lineTotal + g[s \ {x}]]
             it == CHOOSE g : g = H(g)
  <1>2. it = H(it)
    <2>1. [s \in SUBSET {} |-> 0] = H([s \in SUBSET {} |-> 0])
      OBVIOUS
    <2> HIDE DEF H
    <2>2. \E g : g = H(g)
      BY <2>1
    <2>3. QED  BY <2>2
  <1>3. it[{}] = 0
    <2> HIDE DEF it
    <2>1. QED  BY <1>2
  <1>4. Sum(NoItems) = it[{}]
    BY <1>1, Zenon DEF Sum, FoldFunction, FoldFunctionOnSet, MapThenFoldSet
  <1>5. QED  BY <1>3, <1>4

LEMMA LineFacts ==
  ASSUME NEW q, NEW u
  PROVE  /\ Line(q, u).quantity = q
         /\ Line(q, u).unitPrice = u
         /\ Line(q, u).lineTotal = q * u
  BY DEF Line

LEMMA LinesFacts ==
  ASSUME NEW line \in Lines
  PROVE  /\ line.quantity \in Nat /\ line.quantity > 0
         /\ line.unitPrice \in Prices
         /\ line.lineTotal = line.quantity * line.unitPrice
         /\ line.lineTotal \in Nat
         /\ line = Line(line.quantity, line.unitPrice)
  <1> PICK q \in Nat \ {0}, u \in Prices : line = Line(q, u)
    BY DEF Lines
  <1>1. q \in Nat /\ q > 0 /\ u \in Nat /\ q * u \in Nat
    BY NumbersAssumption
  <1>2. QED  BY <1>1, LineFacts

LEMMA ItemsFacts ==
  ASSUME NEW items \in Items
  PROVE  /\ DOMAIN items \subseteq Products
         /\ \A p \in DOMAIN items : items[p] \in Lines
         /\ items = [p \in DOMAIN items |-> items[p]]
  BY DEF Items

LEMMA ItemsIntro ==
  ASSUME NEW S \in SUBSET Products, NEW items \in [S -> Lines]
  PROVE  items \in Items
  BY DEF Items

LEMMA NoItemsFacts == NoItems \in Items /\ DOMAIN NoItems = {}
  <1>1. NoItems \in [{} -> Lines] /\ DOMAIN NoItems = {}
    BY DEF NoItems
  <1>2. QED  BY <1>1, ItemsIntro

LEMMA CartFacts ==
  ASSUME NEW c \in Carts
  PROVE  /\ c.table \in Tables /\ c.items \in Items
         /\ c.subtotal = Sum(c.items)
         /\ c = CartOf(c.table, c.items)
         /\ c # NoCart /\ c.table # NoCart.table
         /\ \A items \in Items :
               Priced(c, items) = CartOf(c.table, items) /\ Priced(c, items) \in Carts
  <1> PICK table \in Tables, items \in Items : c = CartOf(table, items)
    BY DEF Carts
  <1>1. c.table = table /\ c.items = items /\ c.subtotal = Sum(items)
    BY DEF CartOf
  <1>2. NoCart.table = "none" /\ table # "none"
    BY NamesAssumption DEF NoCart
  <1>3. ASSUME NEW others \in Items
        PROVE  Priced(c, others) = CartOf(table, others)
    BY <1>1 DEF Priced, CartOf
  <1>4. QED  BY <1>1, <1>2, <1>3 DEF Carts

LEMMA EmptyCartFacts ==
  ASSUME NEW table \in Tables
  PROVE  /\ EmptyCart(table) \in Carts
         /\ EmptyCart(table).table = table
         /\ EmptyCart(table).items = NoItems
  <1>1. EmptyCart(table) = CartOf(table, NoItems)
    BY EmptySum DEF EmptyCart, CartOf
  <1>2. QED  BY <1>1, NoItemsFacts DEF Carts, CartOf

----------------------------------------------------------------------------
\* Types, and what a request has read by the time it is where it is.

Busy == {"load", "cached", "select", "fill", "save", "open", "validate"}
Running ==
    [pc : Busy, token : Tokens \cup {NoToken}, op : Ops, cart : Carts \cup {NoCart},
     row : Rows \cup {NoRow}, from : Nat]
Bills == [pc : {"done"}, cart : Carts, bill : Items, from : Nat, to : Nat]
TaskSet == {New, Done} \cup Running \cup Bills

(* What a request at a place holds. *)
Fit(t) ==
    /\ \/ t.token \in issued
       \/ t.token = NoToken /\ t.op.kind = "menu" /\ t.cart = NoCart
    /\ t.pc = "load" => t.cart = NoCart
    /\ t.pc \in {"cached", "select", "fill"} => t.op.kind = "add"
    /\ t.pc = "fill" => t.row \in Rows
    /\ t.pc = "save" => /\ t.op.kind \in {"add", "set", "remove", "clear"}
                        /\ t.op.kind = "add" => t.row \in Rows /\ t.row.available
    /\ t.pc = "validate" => t.op.kind = "checkout"
    /\ t.pc = "open" => t.op.kind = "menu"
    /\ t.pc \in Busy \ {"load", "open"} => t.cart \in Carts

ShopOK ==
    /\ rows \in [Products -> Rows \cup {NoRow}]
    /\ cache \in [Products -> Rows \cup {NoRow}]
SessionsOK ==
    /\ session \in [Tokens -> Carts \cup {NoCart}]
    /\ issued \subseteq Tokens
    /\ \A t \in Tokens : session[t] # NoCart => t \in issued
TasksOK ==
    /\ task \in [Requests -> TaskSet]
    /\ \A r \in Requests : task[r] \in Running => Fit(task[r])
CountsOK ==
    /\ changes \in 0..MaxChanges
    /\ faults \in 0..MaxFaults
    /\ onSale \in Seq(SUBSET (Products \X Prices))
    /\ wanted \in [Tokens -> [Products -> Nat]]
    /\ overlapped \subseteq Tokens

TypeInv == ShopOK /\ SessionsOK /\ TasksOK /\ CountsOK

LEMMA PlaceFacts ==
  ASSUME TypeInv, NEW r \in Requests
  PROVE  /\ task[r].pc \in Busy <=> task[r] \in Running
         /\ task[r].pc \in Busy => Fit(task[r])
         /\ task[r].pc \in Places
         /\ task[r] \in Running => task[r].token \in issued \cup {NoToken}
  BY DEF TypeInv, TasksOK, TaskSet, Running, Bills, New, Done, Busy, Places, Fit

LEMMA OpFacts ==
  ASSUME NEW op \in Ops
  PROVE  /\ op.kind \in {"add", "set", "remove", "clear", "get", "checkout", "menu"}
         /\ op.kind \in {"add", "set", "remove"} => op.product \in Products
         /\ op.kind \in {"add", "set"} => op.quantity \in Nat /\ op.quantity > 0
         /\ op.kind = "menu" => op.table \in Tables
  <1>1. op.kind \in {"add", "set"} => op.quantity \in Quantities
    BY DEF Ops
  <1>2. \A q \in Quantities : q \in Nat /\ q > 0
    BY NumbersAssumption
  <1>3. QED  BY <1>1, <1>2 DEF Ops

LEMMA RowFacts ==
  /\ \A row \in Rows : row # NoRow /\ row.price \in Prices
  /\ \A row \in Rows : row.active
  /\ ~NoRow.active
  <1>1. \A row \in Rows : row.active = TRUE /\ row.price \in Prices
    BY DEF Rows
  <1>2. NoRow.active = FALSE
    BY DEF NoRow
  <1>3. QED  BY <1>1, <1>2

(* What is on sale is a set of products and prices. *)
LEMMA SoldType ==
  ASSUME NEW table \in [Products -> Rows \cup {NoRow}]
  PROVE  /\ SoldBy(table) \subseteq Products \X Prices
         /\ \A p \in Products : \A price :
               <<p, price>> \in SoldBy(table) <=>
                   table[p] # NoRow /\ table[p].available /\ table[p].price = price
  <1>1. \A p \in Products : table[p].active => table[p] \in Rows
    BY RowFacts
  <1>2. \A p \in Products : table[p] # NoRow <=> table[p].active
    BY RowFacts
  <1>3. \A p \in Products : table[p] \in Rows => table[p].price \in Prices
    BY RowFacts
  <1>4. QED  BY <1>1, <1>2, <1>3 DEF SoldBy

(* A request takes a step. *)
LEMMA TaskPut ==
  ASSUME TypeInv, NEW r \in Requests, NEW t \in TaskSet, Become(r, t),
         issued \subseteq issued', t \in Running => Fit(t)'
  PROVE  /\ TasksOK'
         /\ task'[r] = t
         /\ \A q \in Requests \ {r} : task'[q] = task[q]
  <1>1. /\ task' \in [Requests -> TaskSet]
        /\ task'[r] = t
        /\ \A q \in Requests \ {r} : task'[q] = task[q]
    BY DEF TypeInv, TasksOK, Become
  <1>2. ASSUME NEW q \in Requests \ {r}, task[q] \in Running
        PROVE  Fit(task[q])'
    <2>1. Fit(task[q]) /\ task'[q] = task[q]
      BY <1>1, <1>2 DEF TypeInv, TasksOK
    <2>2. QED  BY <2>1 DEF Fit
  <1>3. \A q \in Requests : task'[q] \in Running => Fit(task[q])'
    <2>1. Fit(task[r])' <=> Fit(t)'
      BY <1>1 DEF Fit
    <2>2. QED  BY <1>1, <1>2, <2>1
  <1>4. QED  BY <1>1, <1>3 DEF TasksOK

LEMMA TasksSame ==
  ASSUME TypeInv, UNCHANGED <<task, issued>>
  PROVE  TasksOK'
  BY DEF TypeInv, TasksOK, Fit

LEMMA Finished ==
  ASSUME TypeInv, NEW r \in Requests, Finish(r), issued \subseteq issued'
  PROVE  TasksOK' /\ task'[r] = Done /\ \A q \in Requests \ {r} : task'[q] = task[q]
  <1>1. Done \in TaskSet /\ Done \notin Running
    BY DEF TaskSet, Done, Running, Busy
  <1>2. QED  BY <1>1, TaskPut DEF Finish

(* The request keeps what it has when it only goes on. *)
Kept(old, new) == new.token = old.token /\ new.op = old.op /\ new.from = old.from

LEMMA Went ==
  ASSUME TypeInv, NEW r \in Requests, task[r] \in Running, NEW place \in Busy, Go(r, place)
  PROVE  /\ task'[r] \in Running /\ task'[r].pc = place
         /\ Kept(task[r], task'[r])
         /\ task'[r].cart = task[r].cart /\ task'[r].row = task[r].row
         /\ \A q \in Requests \ {r} : task'[q] = task[q]
         /\ task' \in [Requests -> TaskSet]
  <1> DEFINE t == [task[r] EXCEPT !.pc = place]
  <1>1. /\ t \in Running /\ t.pc = place /\ t.token = task[r].token /\ t.op = task[r].op
        /\ t.from = task[r].from /\ t.cart = task[r].cart /\ t.row = task[r].row
    BY DEF Running
  <1>2. task' = [task EXCEPT ![r] = t]
    BY DEF Go, Become
  <1> HIDE DEF t
  <1>3. QED  BY <1>1, <1>2 DEF TypeInv, TasksOK, Kept, TaskSet

LEMMA WentWith ==
  ASSUME TypeInv, NEW r \in Requests, task[r] \in Running, NEW place \in Busy,
         NEW row \in Rows, GoWith(r, place, row)
  PROVE  /\ task'[r] \in Running /\ task'[r].pc = place
         /\ Kept(task[r], task'[r])
         /\ task'[r].cart = task[r].cart /\ task'[r].row = row
         /\ \A q \in Requests \ {r} : task'[q] = task[q]
         /\ task' \in [Requests -> TaskSet]
  <1> DEFINE t == [task[r] EXCEPT !.pc = place, !.row = row]
  <1>1. /\ t \in Running /\ t.pc = place /\ t.token = task[r].token /\ t.op = task[r].op
        /\ t.from = task[r].from /\ t.cart = task[r].cart /\ t.row = row
    BY DEF Running
  <1>2. task' = [task EXCEPT ![r] = t]
    BY DEF GoWith, Become
  <1> HIDE DEF t
  <1>3. QED  BY <1>1, <1>2 DEF TypeInv, TasksOK, Kept, TaskSet

(* It is enough to look at the request that takes the step. *)
LEMMA FitStep ==
  ASSUME TypeInv, NEW r \in Requests, task' \in [Requests -> TaskSet],
         \A q \in Requests \ {r} : task'[q] = task[q], issued \subseteq issued',
         task'[r] \in Running => Fit(task[r])'
  PROVE  TasksOK'
  <1>1. ASSUME NEW q \in Requests \ {r}, task[q] \in Running
        PROVE  Fit(task[q])'
    <2>1. Fit(task[q]) /\ task'[q] = task[q]
      BY <1>1 DEF TypeInv, TasksOK
    <2>2. QED  BY <2>1 DEF Fit
  <1>2. QED  BY <1>1 DEF TasksOK

(* Nothing but a request and its history has changed. *)
LEMMA RestSame ==
  ASSUME TypeInv, UNCHANGED <<rows, cache, session, issued, changes, faults, historyVars>>
  PROVE  ShopOK' /\ SessionsOK' /\ CountsOK'
  BY DEF TypeInv, ShopOK, SessionsOK, CountsOK, historyVars

LEMMA InitType == Init => TypeInv
  <1> SUFFICES ASSUME Init PROVE TypeInv
    OBVIOUS
  <1>1. ShopOK /\ SessionsOK
    BY DEF Init, ShopOK, SessionsOK
  <1>2. TasksOK
    <2>1. New \in TaskSet /\ New \notin Running
      BY DEF TaskSet, New, Running, Busy
    <2>2. QED  BY <2>1 DEF Init, TasksOK
  <1>3. CountsOK
    <2>1. SoldBy(rows) \in SUBSET (Products \X Prices)
      BY SoldType, <1>1 DEF ShopOK
    <2>2. 0 \in 0..MaxChanges /\ 0 \in 0..MaxFaults
      BY NumbersAssumption
    <2>3. QED  BY <2>1, <2>2 DEF Init, CountsOK
  <1>4. QED  BY <1>1, <1>2, <1>3 DEF TypeInv

LEMMA ReceiveType ==
  ASSUME TypeInv, NEW r \in Requests, Receive(r)
  PROVE  /\ TypeInv'
         /\ \E op \in Ops, t \in issued \cup {NoToken} :
               /\ task'[r] = [pc |-> "load", token |-> t, op |-> op, cart |-> NoCart,
                              row |-> NoRow, from |-> Len(onSale)]
               /\ Watch(t)
         /\ \A q \in Requests \ {r} : task'[q] = task[q]
         /\ UNCHANGED <<rows, cache, session, issued, changes, faults, onSale>>
  <1> PICK op \in Ops, token \in issued \cup {NoToken} :
          /\ token = NoToken => op.kind = "menu"
          /\ Watch(token)
          /\ Become(r, [pc |-> "load", token |-> token, op |-> op, cart |-> NoCart,
                        row |-> NoRow, from |-> Len(onSale)])
    BY DEF Receive
  <1> DEFINE t == [pc |-> "load", token |-> token, op |-> op, cart |-> NoCart,
                   row |-> NoRow, from |-> Len(onSale)]
  <1>1. Len(onSale) \in Nat /\ token \in Tokens \cup {NoToken}
    BY LenProperties DEF TypeInv, CountsOK, SessionsOK
  <1>2. t \in Running
    BY <1>1 DEF Running, Busy
  <1>3. UNCHANGED <<rows, cache, session, issued, changes, faults, onSale>>
    BY DEF Receive
  <1>4. Fit(t)'
    BY <1>3 DEF Fit
  <1>5. TasksOK' /\ task'[r] = t /\ \A q \in Requests \ {r} : task'[q] = task[q]
    BY <1>2, <1>3, <1>4, TaskPut DEF TaskSet
  <1>6. overlapped' \subseteq Tokens /\ wanted' \in [Tokens -> [Products -> Nat]]
    <2>1. \A p \in Products : token # NoToken => Held(token, p) \in Nat
      <3>1. \A p \in Products :
               token # NoToken /\ session[token] # NoCart /\ p \in DOMAIN session[token].items
                  => session[token].items[p].quantity \in Nat
        BY <1>1, CartFacts, ItemsFacts, LinesFacts DEF TypeInv, SessionsOK
      <3>2. QED  BY <3>1 DEF Held
    <2>2. overlapped \subseteq Tokens /\ wanted \in [Tokens -> [Products -> Nat]]
      BY DEF TypeInv, CountsOK
    <2>3. CASE wanted' = wanted
      BY <1>1, <2>2, <2>3 DEF Watch
    <2>4. CASE /\ wanted' = [wanted EXCEPT ![token] = [p \in Products |-> Held(token, p)]]
               /\ token # NoToken
      <3>1. [p \in Products |-> Held(token, p)] \in [Products -> Nat]
        BY <2>1, <2>4
      <3>2. wanted' \in [Tokens -> [Products -> Nat]]
        BY <1>1, <2>2, <2>4, <3>1
      <3>3. overlapped' \subseteq Tokens
        BY <1>1, <2>2 DEF Watch
      <3>4. QED  BY <3>2, <3>3
    <2>5. QED  BY <2>3, <2>4 DEF Watch
  <1>7. QED
    BY <1>3, <1>5, <1>6 DEF TypeInv, ShopOK, SessionsOK, CountsOK

LEMMA LoadType ==
  ASSUME TypeInv, NEW r \in Requests, Load(r)
  PROVE  /\ TypeInv'
         /\ task[r] \in Running /\ At(r, "load")
         /\ \/ task'[r] = Done
            \/ /\ task'[r] \in Running /\ Kept(task[r], task'[r])
               /\ task'[r].row = task[r].row
               /\ task'[r].cart =
                     IF task[r].token = NoToken THEN NoCart ELSE session[task[r].token]
         /\ \A q \in Requests \ {r} : task'[q] = task[q]
         /\ UNCHANGED <<rows, cache, session, issued, changes, faults, historyVars>>
  <1> PICK found \in Carts \cup {NoCart} :
         found = IF task[r].token = NoToken THEN NoCart ELSE session[task[r].token]
    <2>1. At(r, "load") /\ task[r] \in Running
      BY PlaceFacts DEF Load, At, Busy
    <2>2. QED  BY <2>1 DEF TypeInv, SessionsOK, Running
  <1>1. /\ At(r, "load") /\ task[r] \in Running /\ Fit(task[r])
        /\ UNCHANGED <<rows, cache, session, issued, changes, faults, historyVars>>
    BY PlaceFacts DEF Load, At, Busy
  <1>2. Op(r) \in Ops /\ Op(r) = task[r].op
    BY <1>1 DEF Op, Running
  <1>3. ShopOK' /\ SessionsOK' /\ CountsOK' /\ issued \subseteq issued'
    BY <1>1, RestSame
  <1>4. CASE Finish(r)
    BY <1>1, <1>3, <1>4, Finished DEF TypeInv
  <1>5. CASE ~Finish(r)
    <2> PICK next \in {"cached", "save", "validate", "open"} :
           /\ Become(r, [task[r] EXCEPT !.pc = next, !.cart = found])
           /\ found # NoCart \/ Op(r).kind = "menu"
           /\ next = "cached" => Op(r).kind = "add"
           /\ next = "save" => Op(r).kind \in {"set", "remove", "clear"}
           /\ next = "validate" => Op(r).kind = "checkout"
           /\ next = "open" => Op(r).kind = "menu"
      BY <1>2, <1>5, OpFacts DEF Load
    <2> PICK t \in Running :
           /\ t = [task[r] EXCEPT !.pc = next, !.cart = found]
           /\ t.pc = next /\ t.cart = found /\ t.token = task[r].token
           /\ t.op = task[r].op /\ t.row = task[r].row /\ t.from = task[r].from
      <3> DEFINE new == [task[r] EXCEPT !.pc = next, !.cart = found]
      <3>1. next \in Busy
        BY DEF Busy
      <3>2. /\ new \in Running /\ new.pc = next /\ new.cart = found
            /\ new.token = task[r].token /\ new.op = task[r].op
            /\ new.row = task[r].row /\ new.from = task[r].from
        BY <1>1, <3>1 DEF Running
      <3>3. QED  BY <3>2
    <2>1. Fit(t)'
      <3>1. \/ t.token \in issued
            \/ t.token = NoToken /\ t.op.kind = "menu" /\ t.cart = NoCart
        <4>1. task[r].token \in issued \/ (task[r].token = NoToken /\ task[r].op.kind = "menu")
          BY <1>1 DEF Fit
        <4>2. QED  BY <4>1
      <3>2. t.pc \in Busy \ {"load", "open"} => t.cart \in Carts
        BY <1>2
      <3>3. QED  BY <1>1, <1>2, <3>1, <3>2 DEF Fit
    <2>2. TasksOK' /\ task'[r] = t /\ \A q \in Requests \ {r} : task'[q] = task[q]
      BY <1>3, <2>1, TaskPut DEF TaskSet
    <2>3. QED  BY <1>1, <1>3, <2>2 DEF TypeInv, Kept
  <1>6. QED  BY <1>4, <1>5

LEMMA OpenType ==
  ASSUME TypeInv, NEW r \in Requests, Open(r)
  PROVE  /\ TypeInv' /\ At(r, "open")
         /\ task'[r] = Done
         /\ \A q \in Requests \ {r} : task'[q] = task[q]
         /\ \/ UNCHANGED <<session, issued>>
            \/ \E t \in Tokens \ issued, table \in Tables :
                  /\ issued' = issued \cup {t}
                  /\ session' = [session EXCEPT ![t] = EmptyCart(table)]
         /\ UNCHANGED <<rows, cache, changes, faults, historyVars>>
  <1>1. /\ At(r, "open") /\ Finish(r) /\ task[r] \in Running /\ Fit(task[r])
        /\ UNCHANGED <<rows, cache, changes, faults, historyVars>>
    BY PlaceFacts DEF Open, At, Busy
  <1>2. Op(r).table \in Tables
    BY <1>1, OpFacts DEF Op, At, Fit, Running
  <1>3. \/ UNCHANGED <<session, issued>>
        \/ \E t \in Tokens \ issued, table \in Tables :
              /\ issued' = issued \cup {t}
              /\ session' = [session EXCEPT ![t] = EmptyCart(table)]
    BY <1>2 DEF Open
  <1>4. SessionsOK' /\ issued \subseteq issued'
    BY <1>3, EmptyCartFacts DEF TypeInv, SessionsOK
  <1>5. ShopOK' /\ CountsOK'
    BY <1>1 DEF TypeInv, ShopOK, CountsOK, historyVars
  <1>6. QED  BY <1>1, <1>3, <1>4, <1>5, Finished DEF TypeInv

(* Reading the product, from the cache or from its row.                    *)
LEMMA LookType ==
  ASSUME TypeInv, NEW r \in Requests, ReadCache(r) \/ Select(r)
  PROVE  /\ TypeInv'
         /\ task[r] \in Running
         /\ \/ task'[r] = Done
            \/ /\ task'[r] \in Running /\ Kept(task[r], task'[r])
               /\ task'[r].cart = task[r].cart
               /\ \/ task'[r].pc = "select"
                  \/ /\ task'[r].pc \in {"fill", "save"}
                     /\ task'[r].row \in Rows
                     /\ \/ task'[r].row = cache[task[r].op.product]
                        \/ task'[r].row = rows[task[r].op.product]
         /\ \A q \in Requests \ {r} : task'[q] = task[q]
         /\ task[r].op.product \in Products
         /\ UNCHANGED <<rows, cache, session, issued, changes, faults, historyVars>>
  <1>1. /\ task[r] \in Running /\ Fit(task[r]) /\ task[r].pc \in {"cached", "select"}
        /\ UNCHANGED <<rows, cache, session, issued, changes, faults, historyVars>>
    BY PlaceFacts DEF ReadCache, Select, At, Busy
  <1>2. /\ task[r].op.kind = "add" /\ task[r].op.product \in Products
        /\ task[r].cart \in Carts /\ task[r].token \in issued
    BY <1>1, OpFacts DEF Fit, Running, Busy
  <1>3. /\ cache[task[r].op.product] \in Rows \cup {NoRow}
        /\ rows[task[r].op.product] \in Rows \cup {NoRow}
    BY <1>2 DEF TypeInv, ShopOK
  <1>4. ShopOK' /\ SessionsOK' /\ CountsOK' /\ issued \subseteq issued'
    BY <1>1, RestSame
  <1>5. CASE Finish(r)
    BY <1>1, <1>2, <1>4, <1>5, Finished DEF TypeInv
  <1>6. CASE Go(r, "select")
    <2>1. /\ task'[r] \in Running /\ task'[r].pc = "select"
          /\ Kept(task[r], task'[r]) /\ task'[r].cart = task[r].cart
          /\ \A q \in Requests \ {r} : task'[q] = task[q]
          /\ task' \in [Requests -> TaskSet]
      BY <1>1, <1>6, Went DEF Busy
    <2>2. Fit(task[r])'
      BY <1>1, <1>2, <2>1 DEF Fit, Kept
    <2>3. TasksOK'
      BY <1>4, <2>1, <2>2, FitStep DEF Fit
    <2>4. QED  BY <1>1, <1>2, <1>4, <2>1, <2>3 DEF TypeInv
  <1>7. CASE \E place \in {"fill", "save"}, row \in Rows :
                /\ GoWith(r, place, row)
                /\ place = "save" => row.available
                /\ row = cache[task[r].op.product] \/ row = rows[task[r].op.product]
    <2> PICK place \in {"fill", "save"}, row \in Rows :
                /\ GoWith(r, place, row)
                /\ place = "save" => row.available
                /\ row = cache[task[r].op.product] \/ row = rows[task[r].op.product]
      BY <1>7
    <2>1. /\ task'[r] \in Running /\ task'[r].pc = place
          /\ Kept(task[r], task'[r])
          /\ task'[r].cart = task[r].cart /\ task'[r].row = row
          /\ \A q \in Requests \ {r} : task'[q] = task[q]
          /\ task' \in [Requests -> TaskSet]
      BY <1>1, WentWith DEF Busy
    <2>2. Fit(task[r])'
      BY <1>1, <1>2, <2>1 DEF Fit, Kept
    <2>3. TasksOK'
      BY <1>4, <2>1, <2>2, FitStep DEF Fit
    <2>4. QED  BY <1>1, <1>2, <1>4, <2>1, <2>3 DEF TypeInv
  <1>8. Finish(r) \/ Go(r, "select")
          \/ \E place \in {"fill", "save"}, row \in Rows :
                /\ GoWith(r, place, row)
                /\ place = "save" => row.available
                /\ row = cache[task[r].op.product] \/ row = rows[task[r].op.product]
    BY <1>3 DEF ReadCache, Select, Op
  <1>9. QED  BY <1>5, <1>6, <1>7, <1>8

LEMMA FillType ==
  ASSUME TypeInv, NEW r \in Requests, Fill(r)
  PROVE  /\ TypeInv'
         /\ task[r] \in Running /\ task[r].row \in Rows /\ task[r].pc = "fill"
         /\ \/ task'[r] = Done
            \/ /\ task'[r] \in Running /\ Kept(task[r], task'[r])
               /\ task'[r].cart = task[r].cart /\ task'[r].row = task[r].row
         /\ \A q \in Requests \ {r} : task'[q] = task[q]
         /\ cache' = [cache EXCEPT ![task[r].op.product] = task[r].row]
         /\ UNCHANGED <<rows, session, issued, changes, faults, historyVars>>
  <1>1. /\ task[r] \in Running /\ Fit(task[r]) /\ task[r].pc = "fill"
        /\ cache' = [cache EXCEPT ![task[r].op.product] = task[r].row]
        /\ UNCHANGED <<rows, session, issued, changes, faults, historyVars>>
    BY PlaceFacts DEF Fill, At, Busy, Op
  <1>2. /\ task[r].op.kind = "add" /\ task[r].op.product \in Products
        /\ task[r].cart \in Carts /\ task[r].token \in issued /\ task[r].row \in Rows
    BY <1>1, OpFacts DEF Fit, Running, Busy
  <1>3. ShopOK' /\ SessionsOK' /\ CountsOK' /\ issued \subseteq issued'
    BY <1>1, <1>2 DEF TypeInv, ShopOK, SessionsOK, CountsOK, historyVars
  <1>4. CASE Finish(r)
    BY <1>1, <1>2, <1>3, <1>4, Finished DEF TypeInv
  <1>5. CASE task[r].row.available /\ Go(r, "save")
    <2>1. /\ task'[r] \in Running /\ task'[r].pc = "save"
          /\ Kept(task[r], task'[r])
          /\ task'[r].cart = task[r].cart /\ task'[r].row = task[r].row
          /\ \A q \in Requests \ {r} : task'[q] = task[q]
          /\ task' \in [Requests -> TaskSet]
      BY <1>1, <1>5, Went DEF Busy
    <2>2. Fit(task[r])'
      BY <1>1, <1>2, <1>5, <2>1 DEF Fit, Kept
    <2>3. TasksOK'
      BY <1>3, <2>1, <2>2, FitStep DEF Fit
    <2>4. QED  BY <1>1, <1>2, <1>3, <2>1, <2>3 DEF TypeInv
  <1>6. QED  BY <1>4, <1>5 DEF Fill

(* A request about to write holds a whole cart, and so is what it writes.  *)
Saves(r) == At(r, "save") /\ (Op(r).kind \in {"set", "remove"} => Holds(r))

LEMMA ChangedFacts ==
  ASSUME TypeInv, NEW r \in Requests, Saves(r)
  PROVE  /\ task[r] \in Running /\ Copy(r) \in Carts
         /\ task[r].token \in issued
         /\ Op(r) \in Ops /\ Op(r).kind \in {"add", "set", "remove", "clear"}
         /\ Changed(r) \in Carts
         /\ Changed(r).table = Copy(r).table
         /\ Op(r).kind = "add" => Changed(r).items = Add(r) /\ task[r].row \in Rows
         /\ Op(r).kind = "set" => Changed(r).items = Set(r)
         /\ Op(r).kind = "remove" => Changed(r).items = Remove(r)
         /\ Op(r).kind = "clear" => Changed(r).items = NoItems
  <1>1. /\ task[r] \in Running /\ Fit(task[r]) /\ task[r].pc = "save"
        /\ Copy(r) = task[r].cart /\ Op(r) = task[r].op
    BY PlaceFacts DEF Saves, At, Busy, Copy, Op
  <1>2. /\ Copy(r) \in Carts /\ Op(r) \in Ops
        /\ Op(r).kind \in {"add", "set", "remove", "clear"}
        /\ Op(r).kind = "add" => task[r].row \in Rows
    BY <1>1 DEF Fit, Running, Busy
  <1>3. task[r].token \in issued
    <2>1. Copy(r) # NoCart
      BY <1>2, CartFacts
    <2>2. QED  BY <1>1, <2>1 DEF Fit
  <1>4. /\ Copy(r).items \in Items /\ Copy(r).table \in Tables
        /\ DOMAIN Copy(r).items \subseteq Products
        /\ \A p \in DOMAIN Copy(r).items : Copy(r).items[p] \in Lines
    BY <1>2, CartFacts, ItemsFacts
  <1>5. \A q \in Nat \ {0}, u \in Prices : Line(q, u) \in Lines
    BY DEF Lines
  <1>6. CASE Op(r).kind = "add"
    <2>1. Op(r).product \in Products /\ Op(r).quantity \in Nat \ {0}
      BY <1>2, <1>6, OpFacts
    <2>2. Added(r) \in Lines
      <3>1. CASE Holds(r)
        <4>1. Copy(r).items[Op(r).product] \in Lines
          BY <1>4, <3>1 DEF Holds
        <4>2. Copy(r).items[Op(r).product].quantity + Op(r).quantity \in Nat \ {0}
          BY <4>1, <2>1, LinesFacts
        <4>3. QED  BY <4>1, <4>2, <1>5, <3>1, LinesFacts DEF Added
      <3>2. CASE ~Holds(r)
        BY <1>2, <1>5, <1>6, <2>1, <3>2, RowFacts DEF Added
      <3>3. QED  BY <3>1, <3>2
    <2>3. Add(r) \in [DOMAIN Copy(r).items \cup {Op(r).product} -> Lines]
      BY <1>4, <2>2 DEF Add
    <2>4. Add(r) \in Items
      BY <1>4, <2>1, <2>3, ItemsIntro
    <2>5. Changed(r) = Priced(Copy(r), Add(r))
      BY <1>6 DEF Changed
    <2>6. QED  BY <1>1, <1>2, <1>3, <1>6, <2>4, <2>5, CartFacts DEF CartOf
  <1>7. CASE Op(r).kind = "set"
    <2>1. Op(r).product \in DOMAIN Copy(r).items /\ Op(r).quantity \in Nat \ {0}
      BY <1>2, <1>7, OpFacts DEF Saves, Holds
    <2>2. Line(Op(r).quantity, Copy(r).items[Op(r).product].unitPrice) \in Lines
      BY <1>4, <1>5, <2>1, LinesFacts
    <2>3. Copy(r).items \in [DOMAIN Copy(r).items -> Lines]
      BY <1>4, ItemsFacts
    <2>4. Set(r) \in [DOMAIN Copy(r).items -> Lines]
      BY <2>1, <2>2, <2>3 DEF Set
    <2>5. Set(r) \in Items
      BY <1>4, <2>4, ItemsIntro
    <2>6. Changed(r) = Priced(Copy(r), Set(r))
      BY <1>7 DEF Changed
    <2>7. QED  BY <1>1, <1>2, <1>3, <1>7, <2>5, <2>6, CartFacts DEF CartOf
  <1>8. CASE Op(r).kind = "remove"
    <2>1. Remove(r) \in [DOMAIN Copy(r).items \ {Op(r).product} -> Lines]
      BY <1>4 DEF Remove, Restrict
    <2>2. Remove(r) \in Items
      BY <1>4, <2>1, ItemsIntro
    <2>3. Changed(r) = Priced(Copy(r), Remove(r))
      BY <1>8 DEF Changed
    <2>4. QED  BY <1>1, <1>2, <1>3, <1>8, <2>2, <2>3, CartFacts DEF CartOf
  <1>9. CASE Op(r).kind = "clear"
    <2>1. Changed(r) = Priced(Copy(r), NoItems)
      BY <1>9 DEF Changed
    <2>2. QED  BY <1>1, <1>2, <1>3, <1>9, <2>1, NoItemsFacts, CartFacts DEF CartOf
  <1>10. QED  BY <1>2, <1>6, <1>7, <1>8, <1>9

(* The cart is written, or the call fails before it is.                    *)
Wrote(r) == Saves(r) /\ Write(r) /\ Count(r) /\ UNCHANGED issued
Unwritten == UNCHANGED <<session, issued, wanted>>

LEMMA WroteType ==
  ASSUME TypeInv, NEW r \in Requests, Wrote(r)
  PROVE  SessionsOK' /\ wanted' \in [Tokens -> [Products -> Nat]]
  <1>1. /\ Changed(r) \in Carts /\ task[r].token \in Tokens /\ task[r].token \in issued
        /\ Op(r) \in Ops
    BY ChangedFacts DEF Wrote, TypeInv, SessionsOK
  <1>2. SessionsOK'
    BY <1>1 DEF Wrote, Write, TypeInv, SessionsOK
  <1>3. ASSUME NEW p \in Products PROVE Asked(r, p) \in Nat
    <2>1. wanted[task[r].token][p] \in Nat
      BY <1>1 DEF TypeInv, CountsOK
    <2>2. QED  BY <1>1, <2>1, ChangedFacts, OpFacts DEF Asked, Wrote
  <1>4. QED  BY <1>1, <1>2, <1>3 DEF Wrote, Count, TypeInv, CountsOK

(* What the steps that end a request do.                                   *)
Ends(r) ==
    \/ NotInCart(r) \/ Save(r) \/ SaveFails(r) \/ CallFails(r)

LEMMA EndsType ==
  ASSUME TypeInv, NEW r \in Requests, Ends(r)
  PROVE  /\ TypeInv'
         /\ task'[r] = Done /\ task[r] \in Running
         /\ \A q \in Requests \ {r} : task'[q] = task[q]
         /\ Wrote(r) \/ Unwritten
         /\ \/ UNCHANGED cache
            \/ /\ At(r, "fill") /\ task[r].row \in Rows
               /\ cache' = [cache EXCEPT ![task[r].op.product] = task[r].row]
         /\ UNCHANGED <<rows, issued, changes, onSale, overlapped>>
  <1>1. /\ Finish(r) /\ task[r] \in Running /\ Fit(task[r])
        /\ UNCHANGED <<rows, issued, changes, onSale, overlapped>>
        /\ Wrote(r) \/ Unwritten
        /\ UNCHANGED cache
             \/ (At(r, "fill") /\ cache' = [cache EXCEPT ![task[r].op.product] = task[r].row])
        /\ faults' = faults \/ (faults < MaxFaults /\ faults' = faults + 1)
    BY PlaceFacts
       DEF Ends, NotInCart, Save, SaveFails, CallFails, At, Busy, Wrote, Saves, Unwritten,
           historyVars, Op
  <1>2. At(r, "fill") => task[r].row \in Rows /\ task[r].op.product \in Products
    BY <1>1, OpFacts DEF Fit, At, Running
  <1>3. SessionsOK' /\ wanted' \in [Tokens -> [Products -> Nat]]
    BY <1>1, WroteType DEF Unwritten, TypeInv, SessionsOK, CountsOK
  <1>4. ShopOK'
    BY <1>1, <1>2 DEF TypeInv, ShopOK
  <1>5. CountsOK'
    BY <1>1, <1>3, NumbersAssumption DEF TypeInv, CountsOK
  <1>6. TasksOK' /\ task'[r] = Done /\ \A q \in Requests \ {r} : task'[q] = task[q]
    BY <1>1, Finished
  <1>7. QED  BY <1>1, <1>2, <1>3, <1>4, <1>5, <1>6 DEF TypeInv

LEMMA ValidateType ==
  ASSUME TypeInv, NEW r \in Requests, Validate(r)
  PROVE  /\ TypeInv'
         /\ task[r] \in Running /\ Copy(r) \in Carts
         /\ \/ task'[r] = Done
            \/ /\ \A p \in DOMAIN Copy(r).items : Sellable(p)
               /\ task'[r] = [pc |-> "done", cart |-> Copy(r), bill |-> Bill(Copy(r)),
                              from |-> task[r].from, to |-> Len(onSale)]
               /\ Bill(Copy(r)) \in Items
         /\ \A q \in Requests \ {r} : task'[q] = task[q]
         /\ UNCHANGED <<rows, cache, session, issued, changes, faults, historyVars>>
  <1>1. /\ task[r] \in Running /\ Fit(task[r]) /\ task[r].pc = "validate"
        /\ Copy(r) = task[r].cart
        /\ UNCHANGED <<rows, cache, session, issued, changes, faults, historyVars>>
    BY PlaceFacts DEF Validate, At, Busy, Copy
  <1>2. Copy(r) \in Carts
    BY <1>1 DEF Fit, Busy
  <1>3. ShopOK' /\ SessionsOK' /\ CountsOK' /\ issued \subseteq issued'
    BY <1>1, RestSame
  <1>4. CASE Finish(r)
    BY <1>1, <1>2, <1>3, <1>4, Finished DEF TypeInv
  <1>5. CASE ~Finish(r)
    <2> DEFINE t == [pc |-> "done", cart |-> Copy(r), bill |-> Bill(Copy(r)),
                     from |-> task[r].from, to |-> Len(onSale)]
    <2>1. Become(r, t) /\ \A p \in DOMAIN Copy(r).items : Sellable(p)
      BY <1>5 DEF Validate
    <2>2. /\ DOMAIN Copy(r).items \subseteq Products
          /\ \A p \in DOMAIN Copy(r).items : Copy(r).items[p] \in Lines
      BY <1>2, CartFacts, ItemsFacts
    <2>3. ASSUME NEW p \in DOMAIN Copy(r).items
          PROVE  Line(Copy(r).items[p].quantity, rows[p].price) \in Lines
      <3>1. rows[p] \in Rows
        BY <2>1, <2>2 DEF Sellable, TypeInv, ShopOK
      <3>2. Copy(r).items[p].quantity \in Nat \ {0} /\ rows[p].price \in Prices
        BY <2>2, <3>1, LinesFacts, RowFacts
      <3>3. QED  BY <3>2 DEF Lines
    <2>4. Bill(Copy(r)) \in Items
      <3>1. Bill(Copy(r)) \in [DOMAIN Copy(r).items -> Lines]
        BY <2>3 DEF Bill
      <3>2. QED  BY <3>1, <2>2, ItemsIntro
    <2>5. Len(onSale) \in Nat /\ task[r].from \in Nat
      BY <1>1, LenProperties DEF TypeInv, CountsOK, Running
    <2>6. t \in Bills /\ t \notin Running
      BY <1>2, <2>4, <2>5 DEF Bills, Running, Busy
    <2>7. TasksOK' /\ task'[r] = t /\ \A q \in Requests \ {r} : task'[q] = task[q]
      BY <1>3, <2>1, <2>6, TaskPut DEF TaskSet
    <2>8. QED  BY <1>1, <1>2, <1>3, <2>1, <2>4, <2>7 DEF TypeInv
  <1>6. QED  BY <1>4, <1>5

LEMMA ShopType ==
  ASSUME TypeInv,
         \/ \E t \in Tokens : ExpireSession(t)
         \/ \E p \in Products : ExpireProduct(p) \/ ChangeProduct(p)
  PROVE  /\ TypeInv' /\ UNCHANGED <<task, issued, wanted, overlapped>>
         /\ \/ UNCHANGED <<rows, onSale, changes>>
            \/ /\ onSale' = Append(onSale, SoldBy(rows')) /\ changes' = changes + 1
               /\ rows' \in [Products -> Rows \cup {NoRow}]
               /\ SoldBy(rows') \in SUBSET (Products \X Prices)
         /\ \/ UNCHANGED session
            \/ \E t \in Tokens : /\ session' = [session EXCEPT ![t] = NoCart]
                                 /\ \A r \in InFlight(t) : At(r, "load")
         /\ \/ UNCHANGED cache
            \/ \E p \in Products : cache' = [cache EXCEPT ![p] = NoRow]
  <1>1. CASE \E t \in Tokens : ExpireSession(t)
    <2> PICK t \in Tokens : ExpireSession(t)
      BY <1>1
    <2>1. /\ session' = [session EXCEPT ![t] = NoCart]
          /\ \A r \in InFlight(t) : At(r, "load")
          /\ UNCHANGED <<rows, cache, issued, task, changes, faults, onSale, wanted, overlapped>>
      BY DEF ExpireSession, historyVars
    <2>2. TasksOK' /\ ShopOK' /\ CountsOK'
      BY <2>1, TasksSame DEF TypeInv, ShopOK, CountsOK
    <2>3. SessionsOK'
      BY <2>1 DEF TypeInv, SessionsOK
    <2>4. QED  BY <2>1, <2>2, <2>3 DEF TypeInv
  <1>2. CASE \E p \in Products : ExpireProduct(p)
    <2> PICK p \in Products : ExpireProduct(p)
      BY <1>2
    <2>1. /\ cache' = [cache EXCEPT ![p] = NoRow]
          /\ UNCHANGED <<rows, session, issued, task, changes, faults, onSale, wanted, overlapped>>
      BY DEF ExpireProduct, historyVars
    <2>2. TasksOK' /\ SessionsOK' /\ CountsOK'
      BY <2>1, TasksSame DEF TypeInv, SessionsOK, CountsOK
    <2>3. ShopOK'
      BY <2>1 DEF TypeInv, ShopOK
    <2>4. QED  BY <2>1, <2>2, <2>3 DEF TypeInv
  <1>3. CASE \E p \in Products : ChangeProduct(p)
    <2> PICK p \in Products : ChangeProduct(p)
      BY <1>3
    <2> PICK row \in Rows \cup {NoRow} : rows' = [rows EXCEPT ![p] = row]
      BY DEF ChangeProduct
    <2>1. /\ changes < MaxChanges /\ changes' = changes + 1
          /\ onSale' = Append(onSale, SoldBy(rows'))
          /\ UNCHANGED <<cache, session, issued, task, faults, wanted, overlapped>>
      BY DEF ChangeProduct
    <2>2. TasksOK' /\ SessionsOK'
      BY <2>1, TasksSame DEF TypeInv, SessionsOK
    <2>3. rows' \in [Products -> Rows \cup {NoRow}] /\ ShopOK'
      BY <2>1 DEF TypeInv, ShopOK
    <2>4. SoldBy(rows') \in SUBSET (Products \X Prices)
      BY <2>3, SoldType
    <2>5. CountsOK'
      <3>1. onSale' \in Seq(SUBSET (Products \X Prices))
        BY <2>1, <2>4, AppendProperties DEF TypeInv, CountsOK
      <3>2. changes' \in 0..MaxChanges
        BY <2>1, NumbersAssumption DEF TypeInv, CountsOK
      <3>3. QED  BY <2>1, <3>1, <3>2 DEF TypeInv, CountsOK
    <2>6. QED  BY <2>1, <2>2, <2>3, <2>4, <2>5 DEF TypeInv
  <1>4. QED  BY <1>1, <1>2, <1>3

(* The steps of the program, sorted by the lemmas above.                   *)
LEMMA NextSplit ==
  Next <=>
    \/ \E r \in Requests :
          \/ Receive(r) \/ Load(r) \/ Open(r) \/ ReadCache(r) \/ Select(r)
          \/ Fill(r) \/ Validate(r) \/ Ends(r)
    \/ \/ \E t \in Tokens : ExpireSession(t)
       \/ \E p \in Products : ExpireProduct(p) \/ ChangeProduct(p)
  BY DEF Next, RequestStep, Ends

LEMMA NextType == TypeInv /\ [Next]_vars => TypeInv'
  <1> SUFFICES ASSUME TypeInv, [Next]_vars PROVE TypeInv'
    OBVIOUS
  <1>1. CASE Next
    BY <1>1, NextSplit, ReceiveType, LoadType, OpenType, LookType, FillType,
       ValidateType, EndsType, ShopType
  <1>2. CASE UNCHANGED vars
    BY <1>2, TasksSame DEF vars, historyVars, TypeInv, ShopOK, SessionsOK, CountsOK
  <1>3. QED  BY <1>1, <1>2

(* Every variable keeps its type: rows, cached products, carts, requests   *)
(* and histories are always of the kind the code's schemas promise.        *)
THEOREM CartTypeCorrect == Spec => []TypeOK
  <1>1. TypeInv => TypeOK
    <2> SUFFICES ASSUME TypeInv PROVE TypeOK
      OBVIOUS
    <2>1. ASSUME NEW c \in Carts PROVE IsCart(c)
      <3>1. /\ c.table \in Tables /\ DOMAIN c.items \subseteq Products
            /\ \A p \in DOMAIN c.items : c.items[p] \in Lines
        BY CartFacts, ItemsFacts
      <3>2. QED  BY <3>1, LinesFacts DEF IsCart
    <2>2. \A t \in Tokens : session[t] # NoCart => IsCart(session[t]) /\ t \in issued
      BY <2>1 DEF TypeInv, SessionsOK
    <2>3. \A r \in Requests : task[r].pc \in Places
      BY PlaceFacts
    <2>4. QED  BY <2>2, <2>3 DEF TypeOK, TypeInv, ShopOK, SessionsOK, CountsOK
  <1>2. QED  BY <1>1, InitType, NextType, PTL DEF Spec

(* A cart that is shown adds up, whatever requests interleave and fail:    *)
(* every copy is written whole, with the subtotal of the items it has.     *)
THEOREM CartAddsUpCorrect == Spec => []CartAddsUp
  <1>1. TypeInv => CartAddsUp
    <2> SUFFICES ASSUME TypeInv, NEW t \in Tokens, session[t] # NoCart
                 PROVE  LET items == session[t].items
                        IN  /\ session[t].subtotal = Sum(items)
                            /\ \A p \in DOMAIN items :
                                  /\ items[p].quantity > 0
                                  /\ items[p].lineTotal = items[p].quantity * items[p].unitPrice
      BY DEF CartAddsUp
    <2>1. session[t] \in Carts
      BY DEF TypeInv, SessionsOK
    <2>2. /\ session[t].subtotal = Sum(session[t].items)
          /\ \A p \in DOMAIN session[t].items : session[t].items[p] \in Lines
      BY <2>1, CartFacts, ItemsFacts
    <2>3. QED  BY <2>2, LinesFacts
  <1>2. QED  BY <1>1, InitType, NextType, PTL DEF Spec

----------------------------------------------------------------------------
\* A token stays with its table.

(* A running request that holds a cart holds one of the table its token    *)
(* has now; nothing is written under a token that was never handed out.    *)
OfTable(r) ==
    LET t == task[r].token
    IN  task[r] \in Running /\ task[r].cart # NoCart =>
            t \in issued /\ session[t] # NoCart /\ session[t].table = task[r].cart.table
TableInv == TypeInv /\ \A r \in Requests : OfTable(r)

(* What a step may do to the sessions.                                     *)
TableStep ==
    \A t \in Tokens :
        session[t] # NoCart /\ session'[t] # NoCart
          => session'[t].table = session[t].table

LEMMA OfTableKept ==
  ASSUME TypeInv, NEW q \in Requests, OfTable(q), task'[q] = task[q],
         issued \subseteq issued',
         \A t \in issued : session[t] # NoCart =>
             session'[t] # NoCart /\ session'[t].table = session[t].table
  PROVE  OfTable(q)'
  BY DEF OfTable

LEMMA TableNext ==
  ASSUME TableInv, [Next]_vars
  PROVE  TableInv' /\ TableStep
  <1> USE DEF TableInv
  <1>0. TypeInv'
    BY NextType
  <1>1. ASSUME NEW r \in Requests, task'[r] \notin Running,
               \A q \in Requests \ {r} : task'[q] = task[q],
               UNCHANGED <<session, issued>>
        PROVE  TableInv' /\ TableStep
    <2>1. \A q \in Requests \ {r} : OfTable(q)'
      BY <1>1, OfTableKept
    <2>2. OfTable(r)'
      BY <1>1 DEF OfTable
    <2>3. TableStep
      BY <1>1 DEF TableStep
    <2>4. QED  BY <1>0, <2>1, <2>2, <2>3
  <1>2. ASSUME NEW r \in Requests, task[r] \in Running,
               Kept(task[r], task'[r]), task'[r].cart = task[r].cart,
               \A q \in Requests \ {r} : task'[q] = task[q],
               UNCHANGED <<session, issued>>
        PROVE  TableInv' /\ TableStep
    <2>1. \A q \in Requests \ {r} : OfTable(q)'
      BY <1>2, OfTableKept
    <2>2. OfTable(r)'
      BY <1>2 DEF OfTable, Kept
    <2>3. TableStep
      BY <1>2 DEF TableStep
    <2>4. QED  BY <1>0, <2>1, <2>2, <2>3
  <1>d. Done \notin Running
    BY DEF Done, Running, Busy
  <1>3. ASSUME NEW r \in Requests, Receive(r) PROVE TableInv' /\ TableStep
    <2>1. /\ task'[r].cart = NoCart /\ UNCHANGED <<session, issued>>
          /\ \A q \in Requests \ {r} : task'[q] = task[q]
      <3>1. \E op \in Ops, t \in issued \cup {NoToken} :
               task'[r] = [pc |-> "load", token |-> t, op |-> op, cart |-> NoCart,
                           row |-> NoRow, from |-> Len(onSale)]
        BY <1>3, ReceiveType
      <3>2. task'[r].cart = NoCart
        BY <3>1
      <3>3. QED  BY <1>3, <3>2, ReceiveType
    <2>2. \A q \in Requests \ {r} : OfTable(q)'
      BY <2>1, OfTableKept
    <2>3. OfTable(r)' /\ TableStep
      BY <2>1 DEF OfTable, TableStep
    <2>4. QED  BY <1>0, <2>2, <2>3
  <1>4. ASSUME NEW r \in Requests, Load(r) PROVE TableInv' /\ TableStep
    <2>1. CASE task'[r] = Done
      BY <1>1, <1>4, <1>d, <2>1, LoadType
    <2>2. CASE task'[r] # Done
      <3>1. /\ task[r] \in Running /\ task'[r].token = task[r].token
            /\ task'[r].cart = IF task[r].token = NoToken THEN NoCart
                               ELSE session[task[r].token]
            /\ \A q \in Requests \ {r} : task'[q] = task[q]
            /\ UNCHANGED <<session, issued>>
        BY <1>4, <2>2, LoadType DEF Kept
      <3>2. task[r].token \in Tokens \cup {NoToken}
        BY <3>1 DEF Running
      <3>3. OfTable(r)'
        BY <3>1, <3>2 DEF OfTable, TypeInv, SessionsOK
      <3>4. \A q \in Requests \ {r} : OfTable(q)'
        BY <3>1, OfTableKept
      <3>5. TableStep
        BY <3>1 DEF TableStep
      <3>6. QED  BY <1>0, <3>3, <3>4, <3>5
    <2>3. QED  BY <2>1, <2>2
  <1>5. ASSUME NEW r \in Requests, Open(r) PROVE TableInv' /\ TableStep
    <2>1. /\ task'[r] = Done /\ \A q \in Requests \ {r} : task'[q] = task[q]
          /\ \/ UNCHANGED <<session, issued>>
             \/ \E t \in Tokens \ issued, table \in Tables :
                   /\ issued' = issued \cup {t}
                   /\ session' = [session EXCEPT ![t] = EmptyCart(table)]
      BY <1>5, OpenType
    <2>2. \A t \in issued : session'[t] = session[t]
      BY <2>1 DEF TypeInv, SessionsOK
    <2>3. \A q \in Requests \ {r} : OfTable(q)'
      BY <2>1, <2>2, OfTableKept
    <2>4. OfTable(r)'
      BY <1>d, <2>1 DEF OfTable
    <2>5. TableStep
      BY <2>2 DEF TableStep, TypeInv, SessionsOK
    <2>6. QED  BY <1>0, <2>3, <2>4, <2>5
  <1>6. ASSUME NEW r \in Requests, ReadCache(r) \/ Select(r) PROVE TableInv' /\ TableStep
    BY <1>1, <1>2, <1>6, <1>d, LookType
  <1>7. ASSUME NEW r \in Requests, Fill(r) PROVE TableInv' /\ TableStep
    BY <1>1, <1>2, <1>7, <1>d, FillType
  <1>8. ASSUME NEW r \in Requests, Validate(r) PROVE TableInv' /\ TableStep
    <2>1. task'[r] = Done \/ task'[r].pc = "done"
      <3>1. \/ task'[r] = Done
            \/ task'[r] = [pc |-> "done", cart |-> Copy(r), bill |-> Bill(Copy(r)),
                           from |-> task[r].from, to |-> Len(onSale)]
        BY <1>8, ValidateType
      <3>2. QED  BY <3>1
    <2>2. task'[r] \notin Running
      BY <1>d, <2>1 DEF Running, Busy
    <2>3. QED  BY <1>1, <1>8, <2>2, ValidateType
  <1>9. ASSUME NEW r \in Requests, Ends(r) PROVE TableInv' /\ TableStep
    <2>1. /\ task'[r] = Done /\ \A q \in Requests \ {r} : task'[q] = task[q]
          /\ Wrote(r) \/ Unwritten
      BY <1>9, EndsType
    <2>2. CASE Unwritten
      BY <1>1, <1>d, <2>1, <2>2 DEF Unwritten
    <2>3. CASE Wrote(r)
      <3>1. /\ task[r] \in Running /\ Copy(r) \in Carts /\ Changed(r) \in Carts
            /\ Changed(r).table = Copy(r).table /\ Copy(r) = task[r].cart
            /\ Changed(r) # NoCart /\ Copy(r) # NoCart
        BY <2>3, ChangedFacts, CartFacts DEF Wrote, Copy
      <3>2. /\ session[task[r].token].table = Copy(r).table
            /\ task[r].token \in Tokens
        BY <3>1 DEF OfTable, TypeInv, SessionsOK
      <3>3. \A t \in Tokens : session[t] # NoCart =>
                session'[t] # NoCart /\ session'[t].table = session[t].table
        BY <2>3, <3>1, <3>2 DEF Wrote, Write, TypeInv, SessionsOK
      <3>4. \A q \in Requests \ {r} : OfTable(q)'
        BY <2>1, <2>3, <3>3, OfTableKept DEF Wrote, TypeInv, SessionsOK
      <3>5. OfTable(r)'
        BY <1>d, <2>1 DEF OfTable
      <3>6. QED  BY <1>0, <3>3, <3>4, <3>5 DEF TableStep
    <2>4. QED  BY <2>1, <2>2, <2>3
  <1>10. ASSUME \/ \E t \in Tokens : ExpireSession(t)
                \/ \E p \in Products : ExpireProduct(p) \/ ChangeProduct(p)
         PROVE  TableInv' /\ TableStep
    <2>1. /\ UNCHANGED <<task, issued>>
          /\ \/ UNCHANGED session
             \/ \E t \in Tokens : /\ session' = [session EXCEPT ![t] = NoCart]
                                  /\ \A r \in InFlight(t) : At(r, "load")
      BY <1>10, ShopType
    <2>2. ASSUME NEW q \in Requests PROVE OfTable(q)'
      <3>1. CASE UNCHANGED session
        BY <2>1, <3>1, OfTableKept
      <3>2. ASSUME NEW t \in Tokens, session' = [session EXCEPT ![t] = NoCart],
                   \A r \in InFlight(t) : At(r, "load")
            PROVE  OfTable(q)'
        <4>1. task[q] \in Running /\ task[q].cart # NoCart => task[q].token # t
          <5>1. task[q] \in Running => task[q].pc \notin {"new", "done"}
            BY DEF Running, Busy
          <5>2. task[q] \in Running /\ task[q].pc = "load" => task[q].cart = NoCart
            BY DEF TypeInv, TasksOK, Fit
          <5>3. QED  BY <3>2, <5>1, <5>2 DEF InFlight, At
        <4>2. QED  BY <2>1, <3>2, <4>1 DEF OfTable, TypeInv, SessionsOK
      <3>3. QED  BY <2>1, <3>1, <3>2
    <2>3. TableStep
      BY <2>1 DEF TableStep, TypeInv, SessionsOK
    <2>4. QED  BY <1>0, <2>2, <2>3
  <1>11. CASE UNCHANGED vars
    <2>1. UNCHANGED <<task, session, issued>>
      BY <1>11 DEF vars
    <2>2. \A q \in Requests : OfTable(q)'
      BY <2>1, OfTableKept
    <2>3. TableStep
      BY <2>1 DEF TableStep
    <2>4. QED  BY <1>0, <2>2, <2>3
  <1>12. QED
    BY NextSplit, <1>3, <1>4, <1>5, <1>6, <1>7, <1>8, <1>9, <1>10, <1>11

(* A session never moves to another table: an open session is written only *)
(* by requests that loaded it, and another table means another token.      *)
THEOREM TokenKeepsTableCorrect == Spec => TokenKeepsTable
  <1>1. Init => TableInv
    <2>1. Init => \A r \in Requests : task[r] \notin Running
      BY DEF Init, New, Running, Busy
    <2>2. QED  BY <2>1, InitType DEF TableInv, OfTable
  <1>2. TableInv /\ [Next]_vars => TableInv'
    BY TableNext
  <1>3. TableInv /\ [Next]_vars => [TableStep]_vars
    BY TableNext
  <1>4. QED  BY <1>1, <1>2, <1>3, PTL DEF Spec, TokenKeepsTable, TableStep

----------------------------------------------------------------------------
\* Prices and bills.

Real(p, price) == \E i \in DOMAIN onSale : <<p, price>> \in onSale[i]
RealItems(items) == \A p \in DOMAIN items : Real(p, items[p].unitPrice)
RealRow(row, p) == row \in Rows /\ row.available => Real(p, row.price)

(* The history ends with what is on sale now. *)
Latest == Len(onSale) = changes + 1 /\ onSale[Len(onSale)] = SoldBy(rows)

(* The history only grows. *)
Past ==
    /\ DOMAIN onSale \subseteq DOMAIN onSale'
    /\ \A i \in DOMAIN onSale : onSale'[i] = onSale[i]
    /\ Len(onSale) <= Len(onSale')

Carried(r) ==
    task[r] \in Running =>
        /\ task[r].from \in 1..Len(onSale)
        /\ task[r].cart # NoCart => RealItems(task[r].cart.items)
        /\ task[r].pc \in {"fill", "save"} /\ task[r].op.kind = "add"
              => RealRow(task[r].row, task[r].op.product)
BilledWell(r) ==
    Billed(r) =>
        /\ task[r].from >= 1 /\ task[r].to <= Len(onSale)
        /\ \E i \in task[r].from..task[r].to :
              \A p \in DOMAIN task[r].bill :
                  <<p, task[r].bill[p].unitPrice>> \in onSale[i]
        /\ (\A p \in DOMAIN task[r].bill : Steady(p))
              => Sum(task[r].bill) = task[r].cart.subtotal

PriceInv ==
    /\ TypeInv
    /\ Latest
    /\ \A p \in Products : RealRow(cache[p], p)
    /\ \A t \in Tokens : session[t] # NoCart => RealItems(session[t].items)
    /\ \A r \in Requests : Carried(r) /\ BilledWell(r)

LEMMA BilledFacts ==
  ASSUME TypeInv, NEW r \in Requests
  PROVE  /\ Billed(r) => task[r] \in Bills /\ task[r] \notin Running
         /\ task[r] \in Running => ~Billed(r)
         /\ ~("bill" \in DOMAIN Done)
  BY DEF TypeInv, TasksOK, TaskSet, New, Done, Running, Bills, Busy, Billed

LEMMA HistoryFacts ==
  ASSUME TypeInv
  PROVE  /\ Len(onSale) \in Nat /\ changes \in Nat
         /\ DOMAIN onSale = 1..Len(onSale)
  BY LenProperties, NumbersAssumption DEF TypeInv, CountsOK

LEMMA PastNext ==
  ASSUME TypeInv, Latest, Next
  PROVE  Past /\ Latest'
  <1>h. Len(onSale) \in Nat /\ changes \in Nat /\ DOMAIN onSale = 1..Len(onSale)
    BY HistoryFacts
  <1>1. CASE UNCHANGED <<rows, onSale, changes>>
    BY <1>1, <1>h DEF Past, Latest
  <1>2. CASE /\ onSale' = Append(onSale, SoldBy(rows')) /\ changes' = changes + 1
             /\ SoldBy(rows') \in SUBSET (Products \X Prices)
    <2>1. onSale \in Seq(SUBSET (Products \X Prices))
      BY DEF TypeInv, CountsOK
    <2>2. /\ Len(onSale') = Len(onSale) + 1
          /\ \A i \in 1..Len(onSale) : onSale'[i] = onSale[i]
          /\ onSale'[Len(onSale) + 1] = SoldBy(rows')
          /\ DOMAIN onSale' = 1..Len(onSale')
      BY <1>2, <2>1, AppendProperties, LenProperties
    <2>3. Past
      BY <1>2, <1>h, <2>2 DEF Past
    <2>4. Latest'
      BY <1>2, <1>h, <2>2 DEF Latest
    <2>5. QED  BY <2>3, <2>4
  <1>3. ASSUME NEW r \in Requests,
               \/ Receive(r) \/ Load(r) \/ Open(r) \/ ReadCache(r) \/ Select(r)
               \/ Fill(r) \/ Validate(r) \/ Ends(r)
        PROVE  UNCHANGED <<rows, onSale, changes>>
    BY <1>3, ReceiveType, LoadType, OpenType, LookType, FillType, ValidateType, EndsType
       DEF historyVars
  <1>4. QED  BY NextSplit, <1>1, <1>2, <1>3, ShopType

LEMMA RealKept ==
  ASSUME Past
  PROVE  /\ \A p, price : Real(p, price) => Real(p, price)'
         /\ \A items : RealItems(items) => RealItems(items)'
         /\ \A row, p : RealRow(row, p) => RealRow(row, p)'
         /\ \A p : Steady(p)' => Steady(p)
  <1>1. /\ \A p, price : Real(p, price) => Real(p, price)'
        /\ \A items : RealItems(items) => RealItems(items)'
        /\ \A row, p : RealRow(row, p) => RealRow(row, p)'
    BY DEF Past, Real, RealItems, RealRow
  <1>2. ASSUME NEW p, Steady(p)' PROVE Steady(p)
    BY <1>2 DEF Past, Steady
  <1>3. QED  BY <1>1, <1>2

LEMMA RowIsReal ==
  ASSUME TypeInv, Latest, NEW p \in Products
  PROVE  RealRow(rows[p], p)
  <1>1. rows \in [Products -> Rows \cup {NoRow}]
    BY DEF TypeInv, ShopOK
  <1>2. rows[p] \in Rows /\ rows[p].available => <<p, rows[p].price>> \in SoldBy(rows)
    BY <1>1, SoldType, RowFacts
  <1>3. Len(onSale) \in DOMAIN onSale
    BY HistoryFacts DEF Latest
  <1>4. QED  BY <1>2, <1>3 DEF RealRow, Real, Latest

LEMMA OtherPriced ==
  ASSUME PriceInv, TypeInv', Past, NEW q \in Requests, task'[q] = task[q]
  PROVE  Carried(q)' /\ BilledWell(q)'
  <1>h. /\ Len(onSale) \in Nat /\ Len(onSale)' \in Nat
        /\ DOMAIN onSale = 1..Len(onSale) /\ Len(onSale) <= Len(onSale')
    <2>1. Len(onSale) \in Nat /\ DOMAIN onSale = 1..Len(onSale)
      BY HistoryFacts DEF PriceInv
    <2>2. Len(onSale') \in Nat
      BY LenProperties DEF TypeInv, CountsOK
    <2>3. QED  BY <2>1, <2>2 DEF Past
  <1>1. Carried(q)'
    <2>1. Carried(q)
      BY DEF PriceInv
    <2>2. QED  BY <1>h, <2>1, RealKept DEF Carried
  <1>2. BilledWell(q)'
    <2>1. SUFFICES ASSUME Billed(q)' PROVE BilledWell(q)'
      BY DEF BilledWell
    <2>2. Billed(q) /\ BilledWell(q) /\ task[q] \in Bills
      BY <2>1, BilledFacts DEF PriceInv, Billed
    <2>3. task[q].from \in Nat /\ task[q].to \in Nat
      BY <2>2 DEF Bills
    <2> PICK i \in task[q].from..task[q].to :
           \A p \in DOMAIN task[q].bill : <<p, task[q].bill[p].unitPrice>> \in onSale[i]
      BY <2>2 DEF BilledWell
    <2>4. i \in DOMAIN onSale
      BY <1>h, <2>2, <2>3 DEF BilledWell
    <2>5. onSale'[i] = onSale[i]
      BY <2>4 DEF Past
    <2>6. \A p \in DOMAIN task[q].bill : Steady(p)' => Steady(p)
      BY RealKept
    <2>7. QED  BY <1>h, <2>2, <2>3, <2>5, <2>6 DEF BilledWell, Past
  <1>3. QED  BY <1>1, <1>2

(* The step of a request, when nothing is written.                         *)
LEMMA QuietPriced ==
  ASSUME PriceInv, TypeInv', Past, Latest', NEW r \in Requests,
         \A q \in Requests \ {r} : task'[q] = task[q],
         UNCHANGED <<session, cache>>, Carried(r)', BilledWell(r)'
  PROVE  PriceInv'
  <1>1. \A q \in Requests : Carried(q)' /\ BilledWell(q)'
    <2>1. \A q \in Requests \ {r} : Carried(q)' /\ BilledWell(q)'
      BY OtherPriced
    <2>2. QED  BY <2>1
  <1>2. (\A t \in Tokens : session[t] # NoCart => RealItems(session[t].items))'
    BY RealKept DEF PriceInv
  <1>3. (\A p \in Products : RealRow(cache[p], p))'
    BY RealKept DEF PriceInv
  <1>4. QED  BY <1>1, <1>2, <1>3 DEF PriceInv

LEMMA DonePriced ==
  ASSUME NEW r \in Requests, task'[r] = Done
  PROVE  Carried(r)' /\ BilledWell(r)'
  <1>1. Done \notin Running /\ "bill" \notin DOMAIN Done
    BY DEF Done, Running, Busy
  <1>2. QED  BY <1>1 DEF Carried, BilledWell, Billed

(* A running request that goes on with what it has.                        *)
LEMMA GoneOnPriced ==
  ASSUME PriceInv, TypeInv', Past, NEW r \in Requests,
         task[r] \in Running, task'[r] \in Running, Kept(task[r], task'[r]),
         task'[r].cart # NoCart =>
             \/ task'[r].cart = task[r].cart
             \/ \E t \in Tokens : task'[r].cart = session[t],
         task'[r].pc \in {"fill", "save"} /\ task[r].op.kind = "add"
             => RealRow(task'[r].row, task[r].op.product)
  PROVE  Carried(r)' /\ BilledWell(r)'
  <1>1. BilledWell(r)'
    <2>1. task'[r].pc \in Busy
      BY DEF Running
    <2>2. QED  BY <2>1 DEF BilledWell, Billed, Busy
  <1>2. task[r].from \in 1..Len(onSale) /\ Len(onSale) \in Nat /\ Len(onSale') \in Nat
        /\ task'[r].from = task[r].from /\ task'[r].op = task[r].op
    BY LenProperties DEF PriceInv, Carried, Kept, TypeInv, CountsOK
  <1>3. task'[r].from \in 1..Len(onSale')
    BY <1>2 DEF Past
  <1>4. task'[r].cart # NoCart => RealItems(task'[r].cart.items)
    BY DEF PriceInv, Carried
  <1>5. RealItems(task'[r].cart.items) => RealItems(task[r].cart.items)'
    BY RealKept
  <1>6. RealRow(task'[r].row, task[r].op.product) => RealRow(task[r].row, task[r].op.product)'
    BY <1>2, RealKept
  <1>7. Carried(r)'
    BY <1>2, <1>3, <1>4, <1>5, <1>6 DEF Carried
  <1>8. QED  BY <1>1, <1>7

(* What a request writes was real, line by line.                           *)
LEMMA WrittenReal ==
  ASSUME PriceInv, NEW r \in Requests, Saves(r)
  PROVE  RealItems(Changed(r).items)
  <1>1. /\ task[r] \in Running /\ Copy(r) \in Carts /\ Copy(r) = task[r].cart
        /\ Op(r) = task[r].op /\ Op(r).kind \in {"add", "set", "remove", "clear"}
        /\ task[r].pc = "save"
    BY ChangedFacts DEF PriceInv, Copy, Op, Saves, At
  <1>2. RealItems(Copy(r).items)
    BY <1>1, CartFacts DEF PriceInv, Carried
  <1>3. CASE Op(r).kind = "add"
    <2>1. Changed(r).items = Add(r)
      BY <1>3, ChangedFacts DEF PriceInv
    <2>2. task[r].row \in Rows /\ task[r].row.available
      BY <1>1, <1>3, PlaceFacts DEF PriceInv, Fit, Busy
    <2>3. Real(Op(r).product, task[r].row.price)
      BY <1>1, <1>3, <2>2 DEF PriceInv, Carried, RealRow
    <2>4. Real(Op(r).product, Added(r).unitPrice)
      BY <1>2, <2>3, LineFacts DEF Added, Holds, RealItems
    <2>5. QED  BY <1>2, <2>1, <2>4 DEF Add, RealItems
  <1>4. CASE Op(r).kind = "set"
    <2>1. Changed(r).items = Set(r)
      BY <1>4, ChangedFacts DEF PriceInv
    <2>2. QED  BY <1>2, <2>1, LineFacts DEF Set, RealItems
  <1>5. CASE Op(r).kind = "remove"
    <2>1. Changed(r).items = Remove(r)
      BY <1>5, ChangedFacts DEF PriceInv
    <2>2. QED  BY <1>2, <2>1 DEF Remove, Restrict, RealItems
  <1>6. CASE Op(r).kind = "clear"
    <2>1. Changed(r).items = NoItems
      BY <1>6, ChangedFacts DEF PriceInv
    <2>2. QED  BY <2>1, NoItemsFacts DEF RealItems
  <1>7. QED  BY <1>1, <1>3, <1>4, <1>5, <1>6

(* A bill of steady prices is the cart.                                    *)
LEMMA BillSame ==
  ASSUME TypeInv, Latest, NEW c \in Carts, RealItems(c.items),
         \A p \in DOMAIN c.items : Sellable(p) /\ Steady(p)
  PROVE  Bill(c) = c.items
  <1>1. Len(onSale) \in DOMAIN onSale /\ onSale[Len(onSale)] = SoldBy(rows)
    BY HistoryFacts DEF Latest
  <1>2. /\ DOMAIN c.items \subseteq Products
        /\ \A p \in DOMAIN c.items : c.items[p] \in Lines
        /\ c.items = [p \in DOMAIN c.items |-> c.items[p]]
    BY CartFacts, ItemsFacts
  <1>3. ASSUME NEW p \in DOMAIN c.items
        PROVE  Line(c.items[p].quantity, rows[p].price) = c.items[p]
    <2> PICK i \in DOMAIN onSale : <<p, c.items[p].unitPrice>> \in onSale[i]
      BY DEF RealItems, Real
    <2>1. <<p, rows[p].price>> \in onSale[Len(onSale)] /\ rows[p].price \in Prices
      BY <1>1, <1>2, SoldType, RowFacts DEF TypeInv, ShopOK, Sellable
    <2>2. rows[p].price = c.items[p].unitPrice
      BY <1>1, <1>2, <2>1, LinesFacts DEF Steady
    <2>3. QED  BY <1>2, <2>2, LinesFacts
  <1>4. QED  BY <1>2, <1>3 DEF Bill

LEMMA ValidatePriced ==
  ASSUME PriceInv, TypeInv', Past, Latest', NEW r \in Requests, Validate(r)
  PROVE  PriceInv'
  <1>1. /\ task[r] \in Running /\ Copy(r) \in Carts /\ Copy(r) = task[r].cart
        /\ \A q \in Requests \ {r} : task'[q] = task[q]
        /\ UNCHANGED <<rows, cache, session, issued, changes, faults, onSale>>
    BY ValidateType DEF PriceInv, Copy, historyVars
  <1>2. CASE task'[r] = Done
    BY <1>1, <1>2, DonePriced, QuietPriced
  <1>3. CASE task'[r] # Done
    <2>1. /\ \A p \in DOMAIN Copy(r).items : Sellable(p)
          /\ task'[r] = [pc |-> "done", cart |-> Copy(r), bill |-> Bill(Copy(r)),
                         from |-> task[r].from, to |-> Len(onSale)]
          /\ Bill(Copy(r)) \in Items
      BY <1>3, ValidateType DEF PriceInv
    <2>2. /\ task'[r].pc = "done" /\ task'[r].cart = Copy(r)
          /\ task'[r].bill = Bill(Copy(r))
          /\ task'[r].from = task[r].from /\ task'[r].to = Len(onSale)
      BY <2>1
    <2>3. task'[r] \notin Running
      BY <2>2 DEF Running, Busy
    <2>4. /\ task[r].from \in 1..Len(onSale) /\ Len(onSale) \in Nat
          /\ onSale[Len(onSale)] = SoldBy(rows)
          /\ RealItems(Copy(r).items)
      BY <1>1, CartFacts, HistoryFacts DEF PriceInv, Carried, Latest
    <2>5. ASSUME NEW p \in DOMAIN Bill(Copy(r))
          PROVE  <<p, Bill(Copy(r))[p].unitPrice>> \in onSale[Len(onSale)]
      <3>1. p \in DOMAIN Copy(r).items /\ Bill(Copy(r))[p].unitPrice = rows[p].price
        BY LineFacts DEF Bill
      <3>2. p \in Products /\ Sellable(p)
        BY <1>1, <2>1, <3>1, CartFacts, ItemsFacts
      <3>3. QED  BY <2>4, <3>1, <3>2, SoldType DEF Sellable, PriceInv, TypeInv, ShopOK
    <2>6. (\A p \in DOMAIN Bill(Copy(r)) : Steady(p))
            => Sum(Bill(Copy(r))) = Copy(r).subtotal
      <3>1. DOMAIN Bill(Copy(r)) = DOMAIN Copy(r).items
        BY DEF Bill
      <3>2. QED  BY <1>1, <2>1, <2>4, <3>1, BillSame, CartFacts DEF PriceInv
    <2>s. \A p \in DOMAIN Bill(Copy(r)) : Steady(p)' <=> Steady(p)
      BY <1>1 DEF Steady
    <2>7. Len(onSale) \in task'[r].from..task'[r].to
      BY <2>2, <2>4
    <2>8. BilledWell(r)'
      BY <1>1, <2>2, <2>4, <2>5, <2>6, <2>s, <2>7 DEF BilledWell
    <2>9. Carried(r)'
      BY <2>3 DEF Carried
    <2>10. QED  BY <1>1, <2>8, <2>9, QuietPriced
  <1>4. QED  BY <1>2, <1>3

LEMMA EndsPriced ==
  ASSUME PriceInv, TypeInv', Past, Latest', NEW r \in Requests, Ends(r)
  PROVE  PriceInv'
  <1>1. /\ task'[r] = Done /\ task[r] \in Running
        /\ \A q \in Requests \ {r} : task'[q] = task[q]
        /\ Wrote(r) \/ Unwritten
        /\ \/ UNCHANGED cache
           \/ /\ At(r, "fill") /\ task[r].row \in Rows
              /\ cache' = [cache EXCEPT ![task[r].op.product] = task[r].row]
    BY EndsType DEF PriceInv
  <1>2. \A q \in Requests : Carried(q)' /\ BilledWell(q)'
    BY <1>1, OtherPriced, DonePriced
  <1>3. ASSUME NEW p \in Products PROVE RealRow(cache[p], p)'
    <2>1. CASE UNCHANGED cache
      <3>1. RealRow(cache[p], p)
        BY DEF PriceInv
      <3>2. QED  BY <2>1, <3>1, RealKept
    <2>2. CASE /\ At(r, "fill") /\ task[r].row \in Rows
               /\ cache' = [cache EXCEPT ![task[r].op.product] = task[r].row]
      <3>1. task[r].op.kind = "add" /\ task[r].pc = "fill"
        BY <1>1, <2>2 DEF PriceInv, TypeInv, TasksOK, Fit, At
      <3>2. RealRow(task[r].row, task[r].op.product) /\ RealRow(cache[p], p)
        BY <1>1, <3>1 DEF PriceInv, Carried
      <3>3. cache'[p] = cache[p] \/ (p = task[r].op.product /\ cache'[p] = task[r].row)
        BY <2>2 DEF PriceInv, TypeInv, ShopOK
      <3>4. RealRow(cache'[p], p)
        BY <3>2, <3>3
      <3>5. QED  BY <3>4, RealKept
    <2>3. QED  BY <1>1, <2>1, <2>2
  <1>4. ASSUME NEW t \in Tokens, session'[t] # NoCart
        PROVE  RealItems(session'[t].items)
    <2>1. CASE Unwritten
      BY <1>4, <2>1 DEF PriceInv, Unwritten
    <2>2. CASE Wrote(r)
      <3>1. RealItems(Changed(r).items)
        BY <2>2, WrittenReal DEF Wrote
      <3>2. session'[t] = session[t] \/ session'[t] = Changed(r)
        BY <2>2 DEF Wrote, Write, PriceInv, TypeInv, SessionsOK
      <3>3. QED  BY <1>4, <3>1, <3>2 DEF PriceInv
    <2>3. QED  BY <1>1, <2>1, <2>2
  <1>5. \A t \in Tokens : session'[t] # NoCart => RealItems(session[t].items)'
    BY <1>4, RealKept
  <1>6. QED  BY <1>2, <1>3, <1>5 DEF PriceInv

LEMMA RequestPriced ==
  ASSUME PriceInv, TypeInv', Past, Latest', NEW r \in Requests,
         \/ Receive(r) \/ Load(r) \/ ReadCache(r) \/ Select(r)
  PROVE  PriceInv'
  <1>1. CASE Receive(r)
    <2> PICK op \in Ops, t \in issued \cup {NoToken} :
           task'[r] = [pc |-> "load", token |-> t, op |-> op, cart |-> NoCart,
                       row |-> NoRow, from |-> Len(onSale)]
      BY <1>1, ReceiveType DEF PriceInv
    <2>1. /\ task'[r].pc = "load" /\ task'[r].cart = NoCart /\ task'[r].from = Len(onSale)
          /\ \A q \in Requests \ {r} : task'[q] = task[q]
          /\ UNCHANGED <<cache, session, onSale>>
      BY <1>1, ReceiveType DEF PriceInv
    <2>2. Len(onSale) \in 1..Len(onSale)
      BY HistoryFacts DEF PriceInv, Latest
    <2>3. Carried(r)' /\ BilledWell(r)'
      BY <2>1, <2>2 DEF Carried, BilledWell, Billed
    <2>4. QED  BY <2>1, <2>3, QuietPriced
  <1>2. CASE Load(r)
    <2>1. /\ task[r] \in Running
          /\ \A q \in Requests \ {r} : task'[q] = task[q]
          /\ UNCHANGED <<cache, session>>
      BY <1>2, LoadType DEF PriceInv
    <2>2. CASE task'[r] = Done
      BY <2>1, <2>2, DonePriced, QuietPriced
    <2>3. CASE task'[r] # Done
      <3>1. /\ task'[r] \in Running /\ Kept(task[r], task'[r])
            /\ task'[r].cart = IF task[r].token = NoToken THEN NoCart
                               ELSE session[task[r].token]
        BY <1>2, <2>3, LoadType DEF PriceInv
      <3>2. task[r].token \in Tokens \cup {NoToken} /\ task[r].op = Op(r) /\ Op(r) \in Ops
        BY <2>1 DEF Running, Op
      <3>3. ~(task'[r].pc \in {"fill", "save"} /\ task[r].op.kind = "add")
        <4>1. Become(r, [task[r] EXCEPT !.pc = "cached", !.cart = task'[r].cart])
                 \/ task[r].op.kind # "add"
          BY <1>2, <2>3, <3>1, <3>2 DEF Load, Finish, Become, PriceInv, TypeInv, TasksOK
        <4>2. task[r].op.kind = "add" => task'[r].pc = "cached"
          BY <4>1, <2>1 DEF Become, PriceInv, TypeInv, TasksOK, Running
        <4>3. QED  BY <4>2
      <3>4. Carried(r)' /\ BilledWell(r)'
        BY <2>1, <3>1, <3>2, <3>3, GoneOnPriced
      <3>5. QED  BY <2>1, <3>4, QuietPriced
    <2>4. QED  BY <2>2, <2>3
  <1>3. CASE ReadCache(r) \/ Select(r)
    <2>1. /\ task[r] \in Running /\ task[r].op.product \in Products
          /\ \A q \in Requests \ {r} : task'[q] = task[q]
          /\ UNCHANGED <<cache, session>>
      BY <1>3, LookType DEF PriceInv
    <2>2. CASE task'[r] = Done
      BY <2>1, <2>2, DonePriced, QuietPriced
    <2>3. CASE task'[r] # Done
      <3>1. /\ task'[r] \in Running /\ Kept(task[r], task'[r])
            /\ task'[r].cart = task[r].cart
            /\ \/ task'[r].pc = "select"
               \/ task'[r].row = cache[task[r].op.product]
               \/ task'[r].row = rows[task[r].op.product]
        BY <1>3, <2>3, LookType DEF PriceInv
      <3>2. /\ RealRow(cache[task[r].op.product], task[r].op.product)
            /\ RealRow(rows[task[r].op.product], task[r].op.product)
        BY <2>1, RowIsReal DEF PriceInv
      <3>3. Carried(r)' /\ BilledWell(r)'
        BY <2>1, <3>1, <3>2, GoneOnPriced
      <3>4. QED  BY <2>1, <3>3, QuietPriced
    <2>4. QED  BY <2>2, <2>3
  <1>4. QED  BY <1>1, <1>2, <1>3

LEMMA OpenPriced ==
  ASSUME PriceInv, TypeInv', Past, Latest', NEW r \in Requests, Open(r)
  PROVE  PriceInv'
  <1>1. /\ task'[r] = Done /\ \A q \in Requests \ {r} : task'[q] = task[q]
        /\ UNCHANGED cache
        /\ \/ UNCHANGED <<session, issued>>
           \/ \E t \in Tokens \ issued, table \in Tables :
                 session' = [session EXCEPT ![t] = EmptyCart(table)]
    BY OpenType DEF PriceInv
  <1>2. \A q \in Requests : Carried(q)' /\ BilledWell(q)'
    BY <1>1, OtherPriced, DonePriced
  <1>3. ASSUME NEW t \in Tokens, session'[t] # NoCart
        PROVE  RealItems(session'[t].items)
    <2>1. \/ session'[t] = session[t]
          \/ \E table \in Tables : session'[t] = EmptyCart(table)
      BY <1>1 DEF PriceInv, TypeInv, SessionsOK
    <2>2. RealItems(NoItems)
      BY NoItemsFacts DEF RealItems
    <2>3. QED  BY <1>3, <2>1, <2>2, EmptyCartFacts DEF PriceInv
  <1>4. \A t \in Tokens : session'[t] # NoCart => RealItems(session[t].items)'
    BY <1>3, RealKept
  <1>5. (\A p \in Products : RealRow(cache[p], p))'
    BY <1>1, RealKept DEF PriceInv
  <1>6. QED  BY <1>2, <1>4, <1>5 DEF PriceInv

LEMMA FillPriced ==
  ASSUME PriceInv, TypeInv', Past, Latest', NEW r \in Requests, Fill(r)
  PROVE  PriceInv'
  <1>1. /\ task[r] \in Running /\ task[r].row \in Rows /\ task[r].pc = "fill"
        /\ \A q \in Requests \ {r} : task'[q] = task[q]
        /\ cache' = [cache EXCEPT ![task[r].op.product] = task[r].row]
        /\ UNCHANGED session
        /\ \/ task'[r] = Done
           \/ /\ task'[r] \in Running /\ Kept(task[r], task'[r])
              /\ task'[r].cart = task[r].cart /\ task'[r].row = task[r].row
    BY FillType DEF PriceInv
  <1>2. RealRow(task[r].row, task[r].op.product)
    BY <1>1 DEF PriceInv, Carried, TypeInv, TasksOK, Fit
  <1>3. Carried(r)' /\ BilledWell(r)'
    BY <1>1, <1>2, DonePriced, GoneOnPriced
  <1>4. \A q \in Requests : Carried(q)' /\ BilledWell(q)'
    BY <1>1, <1>3, OtherPriced
  <1>5. ASSUME NEW p \in Products PROVE RealRow(cache[p], p)'
    <2>1. cache'[p] = cache[p] \/ (p = task[r].op.product /\ cache'[p] = task[r].row)
      BY <1>1 DEF PriceInv, TypeInv, ShopOK
    <2>2. RealRow(cache'[p], p)
      BY <1>2, <2>1 DEF PriceInv
    <2>3. QED  BY <2>2, RealKept
  <1>6. (\A t \in Tokens : session[t] # NoCart => RealItems(session[t].items))'
    BY <1>1, RealKept DEF PriceInv
  <1>7. QED  BY <1>4, <1>5, <1>6 DEF PriceInv

LEMMA ShopPriced ==
  ASSUME PriceInv, TypeInv', Past, Latest',
         \/ \E t \in Tokens : ExpireSession(t)
         \/ \E p \in Products : ExpireProduct(p) \/ ChangeProduct(p)
  PROVE  PriceInv'
  <1>1. /\ UNCHANGED task
        /\ \/ UNCHANGED session
           \/ \E t \in Tokens : session' = [session EXCEPT ![t] = NoCart]
        /\ \/ UNCHANGED cache
           \/ \E p \in Products : cache' = [cache EXCEPT ![p] = NoRow]
    BY ShopType DEF PriceInv
  <1>2. \A q \in Requests : Carried(q)' /\ BilledWell(q)'
    BY <1>1, OtherPriced
  <1>3. ASSUME NEW t \in Tokens, session'[t] # NoCart
        PROVE  RealItems(session[t].items)'
    <2>1. session'[t] = session[t]
      BY <1>1, <1>3 DEF PriceInv, TypeInv, SessionsOK
    <2>2. RealItems(session'[t].items)
      BY <1>3, <2>1 DEF PriceInv
    <2>3. QED  BY <2>2, RealKept
  <1>4. ASSUME NEW p \in Products PROVE RealRow(cache[p], p)'
    <2>1. cache'[p] = cache[p] \/ cache'[p] = NoRow
      BY <1>1 DEF PriceInv, TypeInv, ShopOK
    <2>2. RealRow(cache'[p], p)
      BY <2>1, RowFacts DEF PriceInv, RealRow
    <2>3. QED  BY <2>2, RealKept
  <1>5. QED  BY <1>2, <1>3, <1>4 DEF PriceInv

LEMMA PriceNext == PriceInv /\ [Next]_vars => PriceInv'
  <1> SUFFICES ASSUME PriceInv, [Next]_vars PROVE PriceInv'
    OBVIOUS
  <1>1. TypeInv'
    BY NextType DEF PriceInv
  <1>2. CASE Next
    <2>1. Past /\ Latest'
      BY <1>2, PastNext DEF PriceInv
    <2>2. QED
      BY <1>1, <1>2, <2>1, NextSplit, RequestPriced, OpenPriced, FillPriced,
         ValidatePriced, EndsPriced, ShopPriced
  <1>3. CASE UNCHANGED vars
    <2>1. UNCHANGED <<rows, cache, session, task, changes, onSale>>
      BY <1>3 DEF vars, historyVars
    <2>2. Past /\ Latest'
      BY <2>1, HistoryFacts DEF PriceInv, Latest, Past
    <2>3. \A q \in Requests : Carried(q)' /\ BilledWell(q)'
      BY <1>1, <2>1, <2>2, OtherPriced
    <2>4. (\A p \in Products : RealRow(cache[p], p))'
      BY <2>1, <2>2, RealKept DEF PriceInv
    <2>5. (\A t \in Tokens : session[t] # NoCart => RealItems(session[t].items))'
      BY <2>1, <2>2, RealKept DEF PriceInv
    <2>6. QED  BY <1>1, <2>2, <2>3, <2>4, <2>5 DEF PriceInv
  <1>4. QED  BY <1>2, <1>3

LEMMA PriceInit == Init => PriceInv
  <1> SUFFICES ASSUME Init PROVE PriceInv
    OBVIOUS
  <1>1. TypeInv
    BY InitType
  <1>2. Latest
    BY DEF Init, Latest
  <1>3. \A p \in Products : RealRow(cache[p], p)
    BY RowFacts DEF Init, RealRow
  <1>4. \A r \in Requests : Carried(r) /\ BilledWell(r)
    BY DEF Init, New, Carried, BilledWell, Billed, Running, Busy
  <1>5. \A t \in Tokens : session[t] = NoCart
    BY DEF Init
  <1>6. QED  BY <1>1, <1>2, <1>3, <1>4, <1>5 DEF PriceInv

(* The cache lets no product into a cart that was never on sale, and none  *)
(* at a price it never had.                                                *)
THEOREM PriceWasRealCorrect == Spec => []PriceWasReal
  <1>1. PriceInv => PriceWasReal
    BY DEF PriceInv, RealItems, Real, PriceWasReal
  <1>2. QED  BY <1>1, PriceInit, PriceNext, PTL DEF Spec

(* What is billed was on sale together, at these prices, at a moment       *)
(* between the arrival of the checkout and its bill.                       *)
THEOREM BillOfOneMomentCorrect == Spec => []BillOfOneMoment
  <1>1. PriceInv => BillOfOneMoment
    BY DEF PriceInv, BilledWell, BillOfOneMoment
  <1>2. QED  BY <1>1, PriceInit, PriceNext, PTL DEF Spec

(* What was never on sale at two prices is billed as the cart showed it.   *)
THEOREM BillIsSubtotalCorrect == Spec => []BillIsSubtotal
  <1>1. PriceInv => BillIsSubtotal
    BY DEF PriceInv, BilledWell, BillIsSubtotal
  <1>2. QED  BY <1>1, PriceInit, PriceNext, PTL DEF Spec

----------------------------------------------------------------------------
\* Nothing is lost.

Flies(r, t) == task[r] \in Running /\ task[r].token = t
Match(items, want) ==
    \A p \in Products : want[p] = IF p \in DOMAIN items THEN items[p].quantity ELSE 0

(* Where requests follow one another: at most one runs, and its copy is    *)
(* the cart in Redis.                                                      *)
Orderly(t) ==
    /\ \A r, q \in Requests : Flies(r, t) /\ Flies(q, t) => r = q
    /\ session[t] # NoCart => Match(session[t].items, wanted[t])
    /\ \A r \in Requests : Flies(r, t) /\ task[r].cart # NoCart => task[r].cart = session[t]

LossInv ==
    /\ TypeInv
    /\ \A t \in Tokens \ issued : \A p \in Products : wanted[t][p] = 0
    /\ \A t \in Tokens \ overlapped : Orderly(t)

LEMMA FliesFacts ==
  ASSUME TypeInv
  PROVE  /\ \A t : InFlight(t) = {r \in Requests : Flies(r, t)}
         /\ \A r \in Requests, t \in Tokens : Flies(r, t) => t \in issued
  <1>1. \A r \in Requests : task[r] \in Running <=> ~At(r, "new") /\ ~At(r, "done")
    BY DEF TypeInv, TasksOK, TaskSet, New, Done, Running, Bills, Busy, At
  <1>2. \A r \in Requests, t \in Tokens : Flies(r, t) => t \in issued
    BY NamesAssumption DEF TypeInv, TasksOK, Fit, Flies
  <1>3. QED  BY <1>1, <1>2 DEF InFlight, Flies

(* A request goes on, with the copy it has or the cart it loads, or ends.  *)
LEMMA QuietOrderly ==
  ASSUME LossInv, TypeInv', NEW r \in Requests,
         \A q \in Requests \ {r} : task'[q] = task[q],
         UNCHANGED <<session, issued, wanted, overlapped>>,
         \/ task'[r] \notin Running
         \/ /\ task[r] \in Running /\ task'[r].token = task[r].token
            /\ \/ task'[r].cart = task[r].cart
               \/ task'[r].cart = NoCart
               \/ task'[r].token \in Tokens /\ task'[r].cart = session[task'[r].token]
  PROVE  LossInv'
  <1>1. ASSUME NEW t \in Tokens \ overlapped PROVE Orderly(t)'
    <2>1. Orderly(t)
      BY DEF LossInv
    <2>2. \A q \in Requests : Flies(q, t)' => Flies(q, t)
      BY DEF Flies
    <2>3. \A q, p \in Requests : Flies(q, t)' /\ Flies(p, t)' => q = p
      BY <2>1, <2>2 DEF Orderly
    <2>4. ASSUME NEW q \in Requests, Flies(q, t)', task'[q].cart # NoCart
          PROVE  task'[q].cart = session[t]
      <3>1. CASE q = r
        BY <2>1, <2>2, <2>4, <3>1 DEF Orderly, Flies
      <3>2. CASE q # r
        BY <2>1, <2>2, <2>4, <3>2 DEF Orderly
      <3>3. QED  BY <3>1, <3>2
    <2>5. session'[t] # NoCart => Match(session'[t].items, wanted'[t])
      BY <2>1 DEF Orderly
    <2>6. QED  BY <2>3, <2>4, <2>5 DEF Orderly, Match
  <1>2. QED  BY <1>1 DEF LossInv

LEMMA ReceiveOrderly ==
  ASSUME LossInv, TypeInv', NEW r \in Requests, Receive(r)
  PROVE  LossInv'
  <1> PICK op \in Ops, token \in issued \cup {NoToken} :
         /\ task'[r] = [pc |-> "load", token |-> token, op |-> op, cart |-> NoCart,
                        row |-> NoRow, from |-> Len(onSale)]
         /\ Watch(token)
    BY ReceiveType DEF LossInv
  <1>1. /\ \A q \in Requests \ {r} : task'[q] = task[q]
        /\ UNCHANGED <<session, issued>>
        /\ task'[r].cart = NoCart /\ task'[r].token = token
    BY ReceiveType DEF LossInv
  <1>2. ASSUME NEW t \in Tokens \ overlapped' PROVE Orderly(t)'
    <2>1. /\ \A q, p \in Requests : Flies(q, t) /\ Flies(p, t) => q = p
          /\ t = token => \A q \in Requests : ~Flies(q, t)
          /\ \A q \in Requests : Flies(q, t) /\ task[q].cart # NoCart
                                   => task[q].cart = session[t]
          /\ session[t] # NoCart => Match(session[t].items, wanted'[t])
      <3>1. t \in Tokens /\ token # NoToken => token \in Tokens
        BY <1>2 DEF LossInv, TypeInv, SessionsOK
      <3>2. CASE t = token /\ t \in overlapped
        <4>1. InFlight(t) = {} /\ wanted' = [wanted EXCEPT ![t] = [p \in Products |-> Held(t, p)]]
          BY <1>2, <3>2, NamesAssumption DEF Watch
        <4>2. \A q \in Requests : ~Flies(q, t)
          BY <4>1, FliesFacts DEF LossInv
        <4>3. session[t] # NoCart => Match(session[t].items, wanted'[t])
          BY <1>2, <4>1 DEF Match, Held, LossInv, TypeInv, CountsOK
        <4>4. QED  BY <4>2, <4>3
      <3>3. CASE ~(t = token /\ t \in overlapped)
        <4>1. t \notin overlapped /\ (t = token => InFlight(t) = {}) /\ wanted'[t] = wanted[t]
          BY <1>2, <3>1, <3>3, NamesAssumption DEF Watch, LossInv, TypeInv, CountsOK
        <4>2. Orderly(t) /\ (t = token => \A q \in Requests : ~Flies(q, t))
          BY <1>2, <4>1, FliesFacts DEF LossInv
        <4>3. QED  BY <4>1, <4>2 DEF Orderly
      <3>4. QED  BY <3>2, <3>3
    <2>2. \A q \in Requests \ {r} : Flies(q, t)' <=> Flies(q, t)
      BY <1>1 DEF Flies
    <2>3. Flies(r, t)' => t = token
      BY <1>1 DEF Flies
    <2>4. \A q, p \in Requests : Flies(q, t)' /\ Flies(p, t)' => q = p
      BY <2>1, <2>2, <2>3
    <2>5. \A q \in Requests : Flies(q, t)' /\ task'[q].cart # NoCart
                                => task'[q].cart = session[t]
      BY <1>1, <2>1, <2>2
    <2>6. session'[t] # NoCart => Match(session'[t].items, wanted'[t])
      BY <1>1, <2>1
    <2>7. QED  BY <1>1, <2>4, <2>5, <2>6 DEF Orderly, Match
  <1>3. \A t \in Tokens \ issued : wanted'[t] = wanted[t]
    BY NamesAssumption DEF Watch, LossInv, TypeInv, CountsOK
  <1>4. QED  BY <1>1, <1>2, <1>3 DEF LossInv

LEMMA OpenOrderly ==
  ASSUME LossInv, TypeInv', NEW r \in Requests, Open(r)
  PROVE  LossInv'
  <1>1. /\ task'[r] = Done /\ \A q \in Requests \ {r} : task'[q] = task[q]
        /\ UNCHANGED <<wanted, overlapped>>
        /\ \/ UNCHANGED <<session, issued>>
           \/ \E t \in Tokens \ issued, table \in Tables :
                 /\ issued' = issued \cup {t}
                 /\ session' = [session EXCEPT ![t] = EmptyCart(table)]
    BY OpenType DEF LossInv, historyVars
  <1>2. Done \notin Running
    BY DEF Done, Running, Busy
  <1>3. CASE UNCHANGED <<session, issued>>
    BY <1>1, <1>2, <1>3, QuietOrderly
  <1>4. ASSUME NEW new \in Tokens \ issued, NEW table \in Tables,
               issued' = issued \cup {new},
               session' = [session EXCEPT ![new] = EmptyCart(table)]
        PROVE  LossInv'
    <2>1. ASSUME NEW t \in Tokens \ overlapped PROVE Orderly(t)'
      <3>1. Orderly(t)
        BY DEF LossInv
      <3>2. \A q \in Requests : Flies(q, t)' => Flies(q, t) /\ t # new /\ task'[q] = task[q]
        BY <1>1, <1>2, FliesFacts DEF Flies, LossInv
      <3>3. CASE t = new
        <4>1. session'[t].items = NoItems
          BY <1>4, <3>3, EmptyCartFacts DEF LossInv, TypeInv, SessionsOK
        <4>2. \A p \in Products : wanted'[t][p] = 0
          BY <1>1, <3>3 DEF LossInv
        <4>3. Match(session'[t].items, wanted'[t])
          BY <4>1, <4>2, NoItemsFacts DEF Match
        <4>4. QED  BY <3>2, <3>3, <4>3 DEF Orderly, Match
      <3>4. CASE t # new
        <4>1. session'[t] = session[t] /\ wanted'[t] = wanted[t]
          BY <1>1, <1>4, <3>4 DEF LossInv, TypeInv, SessionsOK
        <4>2. session'[t] # NoCart => Match(session'[t].items, wanted'[t])
          BY <3>1, <4>1 DEF Orderly
        <4>3. QED  BY <3>1, <3>2, <4>1, <4>2 DEF Orderly, Match
      <3>5. QED  BY <3>3, <3>4
    <2>2. QED  BY <1>1, <1>4, <2>1 DEF LossInv
  <1>5. QED  BY <1>1, <1>3, <1>4

(* What a request writes over the cart it read is what was asked for.      *)
LEMMA WrittenMatches ==
  ASSUME LossInv, NEW r \in Requests, Saves(r),
         Match(Copy(r).items, wanted[task[r].token])
  PROVE  \A p \in Products :
            Asked(r, p) = IF p \in DOMAIN Changed(r).items
                          THEN Changed(r).items[p].quantity ELSE 0
  <1>1. /\ Op(r) \in Ops /\ Op(r).kind \in {"add", "set", "remove", "clear"}
        /\ Copy(r) \in Carts
    BY ChangedFacts DEF LossInv
  <1>2. \A p \in DOMAIN Copy(r).items : p \in Products /\ Copy(r).items[p].quantity \in Nat
    BY <1>1, CartFacts, ItemsFacts, LinesFacts
  <1>3. CASE Op(r).kind = "add"
    <2>1. Changed(r).items = Add(r) /\ Op(r).product \in Products /\ Op(r).quantity \in Nat
      BY <1>1, <1>3, ChangedFacts, OpFacts DEF LossInv
    <2>2. Added(r).quantity = IF Holds(r)
                              THEN Copy(r).items[Op(r).product].quantity + Op(r).quantity
                              ELSE Op(r).quantity
      BY LineFacts DEF Added
    <2>3. QED  BY <1>2, <1>3, <2>1, <2>2 DEF Add, Holds, Asked, Match
  <1>4. CASE Op(r).kind = "set"
    <2>1. Changed(r).items = Set(r) /\ Op(r).product \in DOMAIN Copy(r).items
      BY <1>4, ChangedFacts DEF LossInv, Saves, Holds
    <2>2. QED  BY <1>2, <1>4, <2>1, LineFacts DEF Set, Asked, Match
  <1>5. CASE Op(r).kind = "remove"
    <2>1. Changed(r).items = Remove(r)
      BY <1>5, ChangedFacts DEF LossInv
    <2>2. QED  BY <1>2, <1>5, <2>1 DEF Remove, Restrict, Asked, Match
  <1>6. CASE Op(r).kind = "clear"
    <2>1. Changed(r).items = NoItems
      BY <1>6, ChangedFacts DEF LossInv
    <2>2. QED  BY <1>6, <2>1, NoItemsFacts DEF Asked
  <1>7. QED  BY <1>1, <1>3, <1>4, <1>5, <1>6

LEMMA EndsOrderly ==
  ASSUME LossInv, TypeInv', NEW r \in Requests, Ends(r)
  PROVE  LossInv'
  <1>1. /\ task'[r] = Done /\ \A q \in Requests \ {r} : task'[q] = task[q]
        /\ UNCHANGED <<issued, overlapped>>
        /\ Wrote(r) \/ Unwritten
    BY EndsType DEF LossInv
  <1>2. Done \notin Running
    BY DEF Done, Running, Busy
  <1>3. CASE Unwritten
    BY <1>1, <1>2, <1>3, QuietOrderly DEF Unwritten
  <1>4. CASE Wrote(r)
    <2> PICK own \in issued : own = task[r].token
      BY <1>4, ChangedFacts DEF LossInv, Wrote
    <2>1. /\ task[r] \in Running /\ Copy(r) \in Carts /\ Copy(r) = task[r].cart
          /\ own \in Tokens /\ Saves(r)
          /\ session' = [session EXCEPT ![own] = Changed(r)]
          /\ wanted' = [wanted EXCEPT ![own] = [p \in Products |-> Asked(r, p)]]
      BY <1>4, ChangedFacts DEF LossInv, TypeInv, SessionsOK, Wrote, Write, Count, Copy
    <2>2. ASSUME NEW t \in Tokens \ overlapped PROVE Orderly(t)'
      <3>1. Orderly(t)
        BY DEF LossInv
      <3>2. \A q \in Requests : Flies(q, t)' => Flies(q, t) /\ q # r /\ task'[q] = task[q]
        BY <1>1, <1>2 DEF Flies
      <3>3. CASE t = own
        <4>1. Flies(r, t) /\ task[r].cart # NoCart
          BY <2>1, <3>3, CartFacts DEF Flies
        <4>2. Copy(r) = session[t] /\ Match(Copy(r).items, wanted[task[r].token])
          BY <2>1, <3>1, <3>3, <4>1 DEF Orderly
        <4>3. \A p \in Products : wanted'[t][p] = IF p \in DOMAIN Changed(r).items
                                                  THEN Changed(r).items[p].quantity ELSE 0
          BY <2>1, <3>3, <4>2, WrittenMatches DEF LossInv, TypeInv, CountsOK
        <4>4. Match(session'[t].items, wanted'[t])
          BY <2>1, <3>3, <4>3 DEF Match, LossInv, TypeInv, SessionsOK
        <4>5. \A q \in Requests : ~Flies(q, t)'
          BY <3>1, <3>2, <4>1 DEF Orderly
        <4>6. QED  BY <4>4, <4>5 DEF Orderly, Match
      <3>4. CASE t # own
        <4>1. session'[t] = session[t] /\ wanted'[t] = wanted[t]
          BY <2>1, <3>4 DEF LossInv, TypeInv, SessionsOK, CountsOK
        <4>2. session'[t] # NoCart => Match(session'[t].items, wanted'[t])
          BY <3>1, <4>1 DEF Orderly
        <4>3. QED  BY <3>1, <3>2, <4>1, <4>2 DEF Orderly, Match
      <3>5. QED  BY <3>3, <3>4
    <2>3. \A t \in Tokens \ issued : wanted'[t] = wanted[t]
      BY <2>1 DEF LossInv, TypeInv, CountsOK
    <2>4. QED  BY <1>1, <2>2, <2>3 DEF LossInv
  <1>5. QED  BY <1>1, <1>3, <1>4

LEMMA ShopOrderly ==
  ASSUME LossInv, TypeInv',
         \/ \E t \in Tokens : ExpireSession(t)
         \/ \E p \in Products : ExpireProduct(p) \/ ChangeProduct(p)
  PROVE  LossInv'
  <1>1. /\ UNCHANGED <<task, issued, wanted, overlapped>>
        /\ \/ UNCHANGED session
           \/ \E t \in Tokens : /\ session' = [session EXCEPT ![t] = NoCart]
                                /\ \A r \in InFlight(t) : At(r, "load")
    BY ShopType DEF LossInv
  <1>2. ASSUME NEW t \in Tokens \ overlapped PROVE Orderly(t)'
    <2>1. Orderly(t) /\ \A q \in Requests : Flies(q, t)' <=> Flies(q, t)
      BY <1>1 DEF LossInv, Flies
    <2>2. CASE session'[t] = session[t]
      <3>1. session'[t] # NoCart => Match(session'[t].items, wanted'[t])
        BY <1>1, <2>1, <2>2 DEF Orderly
      <3>2. QED  BY <1>1, <2>1, <2>2, <3>1 DEF Orderly, Match
    <2>3. CASE session'[t] # session[t]
      <3>1. session'[t] = NoCart /\ \A r \in InFlight(t) : At(r, "load")
        BY <1>1, <2>3 DEF LossInv, TypeInv, SessionsOK
      <3>2. \A q \in Requests : Flies(q, t) => task[q].cart = NoCart
        BY <3>1, FliesFacts DEF LossInv, TypeInv, TasksOK, Fit, Flies, At
      <3>3. QED  BY <1>1, <2>1, <3>1, <3>2 DEF Orderly
    <2>4. QED  BY <2>2, <2>3
  <1>3. QED  BY <1>1, <1>2 DEF LossInv

LEMMA LossNext == LossInv /\ [Next]_vars => LossInv'
  <1> SUFFICES ASSUME LossInv, [Next]_vars PROVE LossInv'
    OBVIOUS
  <1>1. TypeInv'
    BY NextType DEF LossInv
  <1>2. Done \notin Running
    BY DEF Done, Running, Busy
  <1>3. ASSUME NEW r \in Requests, Load(r) PROVE LossInv'
    <2>1. task[r].token \in Tokens \cup {NoToken}
      BY <1>3, LoadType DEF LossInv, Running
    <2>2. QED
      BY <1>1, <1>2, <1>3, <2>1, LoadType, QuietOrderly DEF LossInv, Kept, historyVars
  <1>4. ASSUME NEW r \in Requests, ReadCache(r) \/ Select(r) PROVE LossInv'
    BY <1>1, <1>2, <1>4, LookType, QuietOrderly DEF LossInv, Kept, historyVars
  <1>5. ASSUME NEW r \in Requests, Fill(r) PROVE LossInv'
    BY <1>1, <1>2, <1>5, FillType, QuietOrderly DEF LossInv, Kept, historyVars
  <1>6. ASSUME NEW r \in Requests, Validate(r) PROVE LossInv'
    <2>1. task'[r] = Done \/ task'[r].pc = "done"
      <3>1. \/ task'[r] = Done
            \/ task'[r] = [pc |-> "done", cart |-> Copy(r), bill |-> Bill(Copy(r)),
                           from |-> task[r].from, to |-> Len(onSale)]
        BY <1>6, ValidateType DEF LossInv
      <3>2. QED  BY <3>1
    <2>2. task'[r] \notin Running
      BY <1>2, <2>1 DEF Running, Busy
    <2>3. QED  BY <1>1, <1>6, <2>2, ValidateType, QuietOrderly DEF LossInv, historyVars
  <1>7. CASE UNCHANGED vars
    <2>1. UNCHANGED <<session, issued, task, wanted, overlapped>>
      BY <1>7 DEF vars, historyVars
    <2>2. ASSUME NEW t \in Tokens \ overlapped PROVE Orderly(t)'
      <3>1. Orderly(t) /\ \A q \in Requests : Flies(q, t)' <=> Flies(q, t)
        BY <2>1 DEF LossInv, Flies
      <3>2. session'[t] # NoCart => Match(session'[t].items, wanted'[t])
        BY <2>1, <3>1 DEF Orderly
      <3>3. QED  BY <2>1, <3>1, <3>2 DEF Orderly, Match
    <2>3. QED  BY <1>1, <2>1, <2>2 DEF LossInv
  <1>8. QED
    BY <1>1, <1>3, <1>4, <1>5, <1>6, <1>7, NextSplit, ReceiveOrderly, OpenOrderly,
       EndsOrderly, ShopOrderly

(* Only requests that overlap lose a change.                               *)
THEOREM NothingLostCorrect == Spec => []NothingLost
  <1>1. Init => LossInv
    <2> SUFFICES ASSUME Init PROVE LossInv
      OBVIOUS
    <2>1. \A r \in Requests : task[r] \notin Running
      BY DEF Init, New, Running, Busy
    <2>2. \A t \in Tokens : session[t] = NoCart /\ \A p \in Products : wanted[t][p] = 0
      BY DEF Init
    <2>3. QED  BY <2>1, <2>2, InitType DEF LossInv, Orderly, Flies
  <1>2. LossInv => NothingLost
    BY DEF LossInv, Orderly, Match, Held, NothingLost
  <1>3. QED  BY <1>1, <1>2, LossNext, PTL DEF Spec

=============================================================================
