---------------------------- MODULE OrderGateway ----------------------------
(***************************************************************************)
(* src/client/client.gateway.ts and src/order/order.service.ts: a guest    *)
(* sends the cart of the session to the kitchen, as the session's order or *)
(* as an addition to it.                                                   *)
(***************************************************************************)
EXTENDS CartGateway

\* Entries a guest's device may know of session g: those of the cart, those that
\* were ordered, and those that were taken out of the cart (an id nothing uses any
\* more, of any guest there ever was).
Known(g) ==
  LET unused == Pick(FreshItems)
  IN {e \in Entry :
        \/ e \in ToSet(group[g].cart)
        \/ \E f \in FoodsOfOrder(g) :
             food[f].item = e.id /\ food[f].client = e.user
        \/ e.id \in unused /\ e.user \in Clients /\ client[e.user].status # "none"}

\* The list in a guest's message is whatever its device shows: the cart, or one
\* that is out of date; nothing compares it with the row.  An empty one is
\* refused (validateMenuList).
OrderLists(g) ==
  ({group[g].cart} \cup BoundedSeq(Known(g), MaxList)) \ {<<>>}

\* Each entry becomes a PENDING FoodOrder row with an id of its own.
FoodOf(g, e) == [status |-> "PENDING", order |-> g, client |-> e.user,
                item |-> e.id]
AddFoods(g, cart) ==
  \E id \in Pick(Injection(DOMAIN cart,
                          {f \in Foods : food[f].status = "none"})) :
     food' = [f \in Foods |->
                IF \E i \in DOMAIN cart : id[i] = f
                THEN FoodOf(g, cart[CHOOSE i \in DOMAIN cart : id[i] = f])
                ELSE food[f]]

\* handleCreateOrder up to the read of the table with its orders.
\* flag: the table has an order that is not checked out.
CreateOrder(h) ==
  /\ \E s \in Sockets, g \in Existing :
       LET t == socket[s].room
       IN /\ socket[s].live
          /\ t # None
          /\ group[g].table = t
          /\ \E list \in OrderLists(g) :
               Accept(h, "create",
                 [Idle EXCEPT !.pc = "orderGroup", !.t = t, !.g = g,
                              !.cart = list, !.flag = OpenOrders(t) # {}])
  /\ UNCHANGED <<rows, socket>>

OrderReadGroup(h) ==
  /\ At(h, "orderGroup")
  /\ IF group[req[h].g].status = "REJECT" \/ req[h].flag
     THEN Answer(h)
     ELSE Goto(h, "insertOrder")
  /\ UNCHANGED <<rows, socket, budget>>

\* When the session has an order by now, the handler starts again.
InsertOrder_Again(h) ==
  LET r == req[h]
  IN /\ At(h, "insertOrder")
     /\ order[r.g].status # "none"
     /\ Goto(h, "orderGroup")
     /\ UNCHANGED <<rows, socket, budget>>

\* The session has at most one order: clientGroupId is unique.
InsertOrder(h) ==
  LET r == req[h]
  IN /\ At(h, "insertOrder")
     /\ \/ /\ order[r.g].status = "none"
           /\ order' = [order EXCEPT ![r.g] = [status |-> "NOT_CHECKOUT",
                                               table |-> r.t,
                                               overall |-> "PENDING"]]
           /\ AddFoods(r.g, r.cart)
           /\ req' = [req EXCEPT ![h] = [@ EXCEPT !.pc = "clearCart",
                                                  !.cart = <<>>]]
        \/ /\ order[r.g].status # "none"
           /\ Answer(h)
           /\ UNCHANGED <<order, food>>
     /\ UNCHANGED <<group, bill, client, socket, budget>>

\* The cart is kept after it was ordered.
ClearCart_Keep(h) ==
  /\ At(h, "clearCart")
  /\ Goto(h, "noti")
  /\ UNCHANGED <<rows, socket, budget>>

ClearCart(h) ==
  /\ At(h, "clearCart")
  /\ group' = [group EXCEPT ![req[h].g].cart = <<>>]
  /\ Goto(h, "noti")
  /\ UNCHANGED <<order, bill, food, client, socket, budget>>

----------------------------------------------------------------------------
\* handleUpdateOrder, up to the read of the order: the guest adds a list of food
\* (<<>>: none) and chooses how to split the bill (method), both, or neither.
UpdateOrder(h) ==
  /\ \E s \in Sockets, g \in Existing, method \in BOOLEAN :
       LET t == socket[s].room
       IN /\ socket[s].live
          /\ t # None
          /\ group[g].table = t
          /\ order[g].status \notin {"none", "CANCEL"}
          /\ \E list \in OrderLists(g) \cup {<<>>} :
               Accept(h, "update",
                 [Idle EXCEPT !.pc = IF method /\ bill[g].status # "none"
                                     THEN "setMethod" ELSE "updateWrite",
                              !.t = t, !.g = g, !.cart = list])
  /\ UNCHANGED <<rows, socket>>

\* Fails when the bill was deleted in the meantime.
SetBillMethod(h) ==
  /\ At(h, "setMethod")
  /\ IF bill[req[h].g].status = "none" THEN Answer(h) ELSE Goto(h, "updateWrite")
  /\ UNCHANGED <<rows, socket, budget>>

\* Food is added to an order that stays ALL_SERVED.
UpdateWrite_KeepOverall(h) ==
  LET r == req[h]
  IN /\ At(h, "updateWrite")
     /\ AddFoods(r.g, r.cart)
     /\ req' = [req EXCEPT ![h] = [@ EXCEPT !.pc = "clearCart",
                                            !.cart = <<>>]]
     /\ UNCHANGED <<group, order, bill, client, socket, budget>>

\* The order goes to the table the guest names; added food makes it PENDING.
UpdateWrite(h) ==
  LET r == req[h]
  IN /\ At(h, "updateWrite")
     /\ order' = [order EXCEPT ![r.g] =
                    [@ EXCEPT !.table = r.t,
                              !.overall = IF r.cart = <<>>
                                          THEN order[r.g].overall
                                          ELSE "PENDING"]]
     /\ AddFoods(r.g, r.cart)
     /\ req' = [req EXCEPT ![h] = [@ EXCEPT !.pc = "clearCart",
                                            !.cart = <<>>]]
     /\ UNCHANGED <<group, bill, client, socket, budget>>
=============================================================================
