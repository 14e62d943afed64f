------------------------------ MODULE Cart ------------------------------
(***************************************************************************)
(* The anonymous cart: GET /menu, /cart and the reading half of            *)
(* POST /checkout/stripe.  The whole cart is one JSON value in Redis.      *)
(* Every request loads it, changes its own copy and writes the copy back:  *)
(*                                                                         *)
(*   new - load -+- cached -+- save           add                          *)
(*               |          '- select - fill - save                        *)
(*               |- save                      set, remove, clear           *)
(*               |- validate                  checkout                     *)
(*               '- open                      menu                         *)
(*                                                                         *)
(* "add" reads the product through a cache that nobody invalidates; the    *)
(* checkout reads the rows themselves.  Money is a whole number of cents:  *)
(* round(_, 2) gives the float nearest to it.                              *)
(***************************************************************************)
EXTENDS Naturals, Sequences, Functions, TLC

CONSTANTS Requests,    \* requests of the clients
          Tokens,      \* session tokens, unguessable and never reused
          Tables,      \* active tables
          Products,
          Prices,
          Quantities,  \* quantities a request may name (1..100 in the code)
          MaxChanges,  \* bound on the changes the shop makes to its products
          MaxFaults    \* bound on the calls to Redis and PostgreSQL that fail

ASSUME NumbersAssumption ==
    /\ Prices \subseteq Nat
    /\ Quantities \subseteq Nat \ {0}
    /\ MaxChanges \in Nat
    /\ MaxFaults \in Nat

VARIABLES rows,     \* the products table
          cache,    \* the products in Redis
          session,  \* the carts in Redis
          issued,   \* tokens handed out so far
          task,     \* the requests
          changes,  \* changes of the products table so far
          faults,   \* failing calls so far
          onSale,   \* history: what was on sale at which price, change by change
          wanted,   \* history: what the requests of a session asked for
          overlapped  \* history: sessions whose latest requests ran at once

historyVars == <<onSale, wanted, overlapped>>
vars == <<rows, cache, session, issued, task, changes, faults, historyVars>>

----------------------------------------------------------------------------
\* Values.

(* A row with is_active = FALSE is as good as none. *)
NoRow == [active |-> FALSE]
Rows == [active : {TRUE}, price : Prices, available : BOOLEAN]

Line(quantity, price) ==
    [quantity |-> quantity, unitPrice |-> price, lineTotal |-> quantity * price]
Sum(items) == FoldFunction(LAMBDA line, sum : line.lineTotal + sum, 0, items)

(* Faulty variant: the subtotal counts every product once.                 *)
FaultyPriced(cart, items) ==
    [cart EXCEPT !.items = items,
                 !.subtotal = FoldFunction(LAMBDA line, sum : line.unitPrice + sum,
                                           0, items)]

(* A cart with other items; _recalculate_subtotal goes over all of them.   *)
Priced(cart, items) == [table |-> cart.table, items |-> items, subtotal |-> Sum(items)]

NoItems == [p \in {} |-> 0]
NoCart == [table |-> "none"]
EmptyCart(table) == [table |-> table, items |-> NoItems, subtotal |-> 0]

Ops == [kind : {"add", "set"}, product : Products, quantity : Quantities]
         \cup [kind : {"remove"}, product : Products]
         \cup [kind : {"clear", "get", "checkout"}]
         \cup [kind : {"menu"}, table : Tables]

(* A menu request may carry no cookie. *)
NoToken == "no cookie"

ASSUME NamesAssumption == NoToken \notin Tokens /\ "none" \notin Tables

New == [pc |-> "new"]
Done == [pc |-> "done"]
Places == {"new", "done", "load", "cached", "select", "fill", "save", "open",
           "validate"}

IsCart(c) ==
    /\ c.table \in Tables
    /\ DOMAIN c.items \subseteq Products
    /\ \A p \in DOMAIN c.items :
          /\ c.items[p].quantity \in Nat
          /\ c.items[p].unitPrice \in Prices
          /\ c.items[p].lineTotal \in Nat

TypeOK ==
    /\ rows \in [Products -> Rows \cup {NoRow}]
    /\ cache \in [Products -> Rows \cup {NoRow}]
    /\ DOMAIN session = Tokens
    /\ \A t \in Tokens : session[t] # NoCart => IsCart(session[t]) /\ t \in issued
    /\ issued \subseteq Tokens
    /\ \A r \in Requests : task[r].pc \in Places
    /\ changes \in 0..MaxChanges
    /\ faults \in 0..MaxFaults
    /\ onSale \in Seq(SUBSET (Products \X Prices))
    /\ wanted \in [Tokens -> [Products -> Nat]]
    /\ overlapped \subseteq Tokens

SoldBy(table) ==
    {<<p, table[p].price>> :
        p \in {q \in Products : table[q].active /\ table[q].available}}

Init ==
    /\ rows \in [Products -> Rows]
    /\ cache = [p \in Products |-> NoRow]
    /\ session = [t \in Tokens |-> NoCart]
    /\ issued = {}
    /\ task = [r \in Requests |-> New]
    /\ changes = 0
    /\ faults = 0
    /\ onSale = <<SoldBy(rows)>>
    /\ wanted = [t \in Tokens |-> [p \in Products |-> 0]]
    /\ overlapped = {}

----------------------------------------------------------------------------
\* Building blocks.

At(r, place) == task[r].pc = place
Become(r, t) == task' = [task EXCEPT ![r] = t]
Finish(r) == Become(r, Done)
Go(r, place) == Become(r, [task[r] EXCEPT !.pc = place])
GoWith(r, place, row) == Become(r, [task[r] EXCEPT !.pc = place, !.row = row])
InFlight(t) == {r \in Requests : ~At(r, "new") /\ ~At(r, "done") /\ task[r].token = t}

(* The request's own copy, and the item it is about. *)
Copy(r) == task[r].cart
Op(r) == task[r].op
Holds(r) == Op(r).product \in DOMAIN Copy(r).items

(* Faulty variant: an item that is there already is replaced.              *)
FaultyAdd(r) ==
    (Op(r).product :> Line(Op(r).quantity, task[r].row.price)) @@ Copy(r).items

(* add_item: an item that is there keeps the price it was first added at.  *)
Added(r) ==
    IF Holds(r)
    THEN LET line == Copy(r).items[Op(r).product]
         IN  Line(line.quantity + Op(r).quantity, line.unitPrice)
    ELSE Line(Op(r).quantity, task[r].row.price)
Add(r) ==
    [p \in DOMAIN Copy(r).items \cup {Op(r).product} |->
        IF p = Op(r).product THEN Added(r) ELSE Copy(r).items[p]]

(* Faulty variant: the quantity is taken off the one in the cart.          *)
FaultySet(r) ==
    [Copy(r).items EXCEPT ![Op(r).product] =
        Line(@.quantity - Op(r).quantity, @.unitPrice)]

(* update_item_quantity *)
Set(r) ==
    [Copy(r).items EXCEPT ![Op(r).product] = Line(Op(r).quantity, @.unitPrice)]

(* remove_item *)
Remove(r) == Restrict(Copy(r).items, DOMAIN Copy(r).items \ {Op(r).product})

Changed(r) ==
    Priced(Copy(r), CASE Op(r).kind = "add"    -> Add(r)
                      [] Op(r).kind = "set"    -> Set(r)
                      [] Op(r).kind = "remove" -> Remove(r)
                      [] Op(r).kind = "clear"  -> NoItems)

(* set_by_key of the session: SETEX, whatever is there now. *)
Write(r) == session' = [session EXCEPT ![task[r].token] = Changed(r)]

(* History: the quantities the customer asked for, request by request. *)
Asked(r, p) ==
    LET before == wanted[task[r].token][p]
    IN  IF Op(r).kind # "clear" /\ Op(r).product # p
        THEN before
        ELSE CASE Op(r).kind = "add" -> before + Op(r).quantity
               [] Op(r).kind = "set" -> Op(r).quantity
               [] Op(r).kind \in {"remove", "clear"} -> 0
Count(r) ==
    wanted' = [wanted EXCEPT ![task[r].token] = [p \in Products |-> Asked(r, p)]]

----------------------------------------------------------------------------
\* The requests.

(* History: of overlapping requests one may undo the other; from the next   *)
(* request that comes alone on, what the cart holds then is the baseline.  *)
Held(t, p) ==
    IF session[t] # NoCart /\ p \in DOMAIN session[t].items
    THEN session[t].items[p].quantity ELSE 0
Watch(t) ==
    \/ t = NoToken /\ UNCHANGED <<wanted, overlapped>>
    \/ /\ t # NoToken /\ InFlight(t) # {}
       /\ overlapped' = overlapped \cup {t}
       /\ UNCHANGED wanted
    \/ /\ t # NoToken /\ InFlight(t) = {}
       /\ overlapped' = overlapped \ {t}
       /\ wanted' = IF t \in overlapped
                    THEN [wanted EXCEPT ![t] = [p \in Products |-> Held(t, p)]]
                    ELSE wanted

(* A request arrives, with the cookie of a session that was opened. *)
Receive(r) ==
    /\ At(r, "new")
    /\ \E op \in Ops, t \in issued \cup {NoToken} :
          /\ t = NoToken => op.kind = "menu"
          /\ Watch(t)
          /\ Become(r, [pc |-> "load", token |-> t, op |-> op, cart |-> NoCart,
                        row |-> NoRow, from |-> Len(onSale)])
    /\ UNCHANGED <<rows, cache, session, issued, changes, faults, onSale>>

(* _load_session_context.  Without a session only the menu goes on.        *)
Load(r) ==
    LET t == task[r].token
        found == IF t = NoToken THEN NoCart ELSE session[t]
        next == CASE Op(r).kind = "add"                       -> "cached"
                  [] Op(r).kind \in {"set", "remove", "clear"} -> "save"
                  [] Op(r).kind = "checkout"                  -> "validate"
                  [] Op(r).kind = "menu"                      -> "open"
                  [] Op(r).kind = "get"                       -> "done"
        there == found # NoCart
        served == there \/ Op(r).kind = "menu"
    IN  /\ At(r, "load")
        /\ IF served /\ next # "done"
           THEN Become(r, [task[r] EXCEPT !.pc = next, !.cart = found])
           ELSE Finish(r)
        /\ UNCHANGED <<rows, cache, session, issued, changes, faults, historyVars>>

(* Faulty variant: one token for all the tables a customer visits.         *)
FaultyOpen(r) ==
    /\ At(r, "open")
    /\ \/ /\ Copy(r) # NoCart
          /\ session' = [session EXCEPT ![task[r].token] =
                            [Copy(r) EXCEPT !.table = Op(r).table]]
          /\ UNCHANGED <<issued, wanted>>
       \/ /\ Copy(r) = NoCart
          /\ \E t \in Tokens \ issued :
                /\ issued' = issued \cup {t}
                /\ session' = [session EXCEPT ![t] = EmptyCart(Op(r).table)]
          /\ UNCHANGED wanted
    /\ Finish(r)
    /\ UNCHANGED <<rows, cache, changes, faults, onSale, overlapped>>

(* bootstrap_session: the session is kept when it is of this table.        *)
Open(r) ==
    /\ At(r, "open")
    /\ \/ /\ Copy(r).table = Op(r).table
          /\ UNCHANGED <<session, issued>>
       \/ /\ Copy(r).table # Op(r).table
          /\ \E t \in Tokens \ issued :
                /\ issued' = issued \cup {t}
                /\ session' = [session EXCEPT ![t] = EmptyCart(Op(r).table)]
    /\ Finish(r)
    /\ UNCHANGED <<rows, cache, changes, faults, historyVars>>

(* Faulty variant: a cached product is taken to be available.              *)
FaultyReadCache(r) ==
    LET hit == cache[Op(r).product]
    IN  /\ At(r, "cached")
        /\ \/ hit = NoRow /\ Go(r, "select")
           \/ hit # NoRow /\ GoWith(r, "save", hit)
        /\ UNCHANGED <<rows, cache, session, issued, changes, faults, historyVars>>

(* get_product_by_id, first the cache. *)
ReadCache(r) ==
    LET hit == cache[Op(r).product]
    IN  /\ At(r, "cached")
        /\ \/ hit = NoRow /\ Go(r, "select")
           \/ hit # NoRow /\ ~hit.available /\ Finish(r)
           \/ hit # NoRow /\ hit.available /\ GoWith(r, "save", hit)
        /\ UNCHANGED <<rows, cache, session, issued, changes, faults, historyVars>>

Select(r) ==
    LET row == rows[Op(r).product]
    IN  /\ At(r, "select")
        /\ \/ row = NoRow /\ Finish(r)
           \/ row # NoRow /\ GoWith(r, "fill", row)
        /\ UNCHANGED <<rows, cache, session, issued, changes, faults, historyVars>>

(* What was read goes to the cache, available or not and out of date or    *)
(* not.                                                                    *)
Fill(r) ==
    /\ At(r, "fill")
    /\ cache' = [cache EXCEPT ![Op(r).product] = task[r].row]
    /\ \/ ~task[r].row.available /\ Finish(r)
       \/ task[r].row.available /\ Go(r, "save")
    /\ UNCHANGED <<rows, session, issued, changes, faults, historyVars>>

(* "Item not found in cart" *)
NotInCart(r) ==
    /\ At(r, "save")
    /\ Op(r).kind \in {"set", "remove"}
    /\ ~Holds(r)
    /\ Finish(r)
    /\ UNCHANGED <<rows, cache, session, issued, changes, faults, historyVars>>

Save(r) ==
    /\ At(r, "save")
    /\ Op(r).kind \in {"set", "remove"} => Holds(r)
    /\ Write(r)
    /\ Count(r)
    /\ Finish(r)
    /\ UNCHANGED <<rows, cache, issued, changes, faults, onSale, overlapped>>

(* build_checkout_context.  One SELECT prices all items by their rows, not *)
(* by the cart; it refuses the cart when a product is gone or unavailable. *)
Sellable(p) == rows[p] # NoRow /\ rows[p].available

(* Faulty variant: the bill takes the prices of the cart.                  *)
FaultyBill(cart) == cart.items

Bill(cart) ==
    [p \in DOMAIN cart.items |-> Line(cart.items[p].quantity, rows[p].price)]

Validate(r) ==
    LET cart == Copy(r)
    IN  /\ At(r, "validate")
        /\ \/ /\ cart.items # NoItems
              /\ \A p \in DOMAIN cart.items : Sellable(p)
              /\ Become(r, [pc |-> "done", cart |-> cart, bill |-> Bill(cart),
                            from |-> task[r].from, to |-> Len(onSale)])
           \/ /\ cart.items = NoItems \/ \E p \in DOMAIN cart.items : ~Sellable(p)
              /\ Finish(r)
        /\ UNCHANGED <<rows, cache, session, issued, changes, faults, historyVars>>

(* Another call to Redis or PostgreSQL raises.  The cached product may have *)
(* been written; a new session whose answer is lost is reached by nobody.  *)
CallFails(r) ==
    /\ task[r].pc \in {"load", "cached", "select", "fill", "open", "validate"}
    /\ faults < MaxFaults
    /\ faults' = faults + 1
    /\ \/ At(r, "fill") /\ cache' = [cache EXCEPT ![Op(r).product] = task[r].row]
       \/ UNCHANGED cache
    /\ Finish(r)
    /\ UNCHANGED <<rows, session, issued, changes, historyVars>>

(* The SETEX of a cart raises, executed or not: the customer is told that  *)
(* it failed.  What was asked for then is what was executed.               *)
SaveFails(r) ==
    /\ At(r, "save")
    /\ Op(r).kind \in {"set", "remove"} => Holds(r)
    /\ faults < MaxFaults
    /\ faults' = faults + 1
    /\ \/ Write(r) /\ Count(r)
       \/ UNCHANGED <<session, wanted>>
    /\ Finish(r)
    /\ UNCHANGED <<rows, cache, issued, changes, onSale, overlapped>>

----------------------------------------------------------------------------
\* Time and the shop.

(* A load renews the TTL, which is long against a request. *)
ExpireSession(t) ==
    /\ session[t] # NoCart
    /\ \A r \in InFlight(t) : At(r, "load")
    /\ session' = [session EXCEPT ![t] = NoCart]
    /\ UNCHANGED <<rows, cache, issued, task, changes, faults, historyVars>>

ExpireProduct(p) ==
    /\ cache[p] # NoRow
    /\ cache' = [cache EXCEPT ![p] = NoRow]
    /\ UNCHANGED <<rows, session, issued, task, changes, faults, historyVars>>

(* Nothing in the program writes products: the shop does, in the database. *)
ChangeProduct(p) ==
    /\ changes < MaxChanges
    /\ changes' = changes + 1
    /\ \E row \in Rows \cup {NoRow} : rows' = [rows EXCEPT ![p] = row]
    /\ onSale' = Append(onSale, SoldBy(rows'))
    /\ UNCHANGED <<cache, session, issued, task, faults, wanted, overlapped>>

RequestStep(r) ==
    \/ Load(r) \/ Open(r) \/ ReadCache(r) \/ Select(r) \/ Fill(r)
    \/ NotInCart(r) \/ Save(r) \/ Validate(r)

Next ==
    \/ \E r \in Requests : Receive(r) \/ RequestStep(r) \/ CallFails(r) \/ SaveFails(r)
    \/ \E t \in Tokens : ExpireSession(t)
    \/ \E p \in Products : ExpireProduct(p) \/ ChangeProduct(p)

Spec == Init /\ [][Next]_vars

----------------------------------------------------------------------------
\* Properties.

(* Whatever requests interleave and fail, the cart a customer is shown     *)
(* adds up, and no line of it is empty.                                    *)
CartAddsUp ==
    \A t \in Tokens :
        session[t] # NoCart =>
            LET items == session[t].items
            IN  /\ session[t].subtotal = Sum(items)
                /\ \A p \in DOMAIN items :
                      /\ items[p].quantity > 0
                      /\ items[p].lineTotal = items[p].quantity * items[p].unitPrice

(* A product is in a cart only at a price at which it was once on sale:    *)
(* the cache, filled and expired at any moment, never lets a product in    *)
(* that was unavailable all along, nor at a price it never had.            *)
PriceWasReal ==
    \A t \in Tokens :
        session[t] # NoCart =>
            \A p \in DOMAIN session[t].items :
                \E i \in DOMAIN onSale : <<p, session[t].items[p].unitPrice>> \in onSale[i]

(* What a customer is billed for was all on sale together at the billed    *)
(* prices at one moment of the checkout request, however old the cart and  *)
(* the cached products are.                                                *)
Billed(r) == task[r].pc = "done" /\ "bill" \in DOMAIN task[r]

BillOfOneMoment ==
    \A r \in Requests :
        Billed(r) =>
            \E i \in task[r].from..task[r].to :
                \A p \in DOMAIN task[r].bill :
                    <<p, task[r].bill[p].unitPrice>> \in onSale[i]

(* Only a change of price makes a bill differ from its cart: when what is  *)
(* billed was never on sale at two prices, the customer is billed just     *)
(* what the cart showed, whatever else the shop changed meanwhile.         *)
Steady(p) ==
    \A i, j \in DOMAIN onSale, c, d \in Prices :
        <<p, c>> \in onSale[i] /\ <<p, d>> \in onSale[j] => c = d

BillIsSubtotal ==
    \A r \in Requests :
        Billed(r) /\ (\A p \in DOMAIN task[r].bill : Steady(p))
            => Sum(task[r].bill) = task[r].cart.subtotal

(* A token stays with its table: no late write of a request that came with *)
(* an earlier cookie moves an order to another table.                      *)
TokenKeepsTable ==
    [][\A t \in Tokens :
         session[t] # NoCart /\ session'[t] # NoCart
           => session'[t].table = session[t].table]_vars

(* Only a request that overlaps another of its session can undo a change:  *)
(* as long as they follow one another, and again after an overlap is over, *)
(* the cart holds the quantities asked for.                                *)
NothingLost ==
    \A t \in Tokens \ overlapped :
        session[t] # NoCart => \A p \in Products : Held(t, p) = wanted[t][p]

=============================================================================
