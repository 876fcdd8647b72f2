------------------------------ MODULE Menuler ------------------------------
(***************************************************************************)
(* The server: every handler of the WebSocket gateway, and of the REST     *)
(* operations on a table's session and guests, run concurrently over the   *)
(* same rows, and the properties of the whole.                             *)
(***************************************************************************)
EXTENDS GuestGateway, CartGateway, OrderGateway, AdminGateway

\* A message reaches the server, which has a handler free for it.
Arrive(h) ==
  /\ At(h, "idle") /\ budget > 0
  /\ \/ JoinTable(h) \/ LeaveTable(h) \/ Disconnect(h)
     \/ SelectFood(h) \/ DeselectFood(h)
     \/ CreateOrder(h) \/ UpdateOrder(h)
     \/ AdminUpdateClientOrder(h) \/ AdminDeleteClientList(h)
     \/ DeleteClientIdInFoodOrder(h)
     \/ WsClearTable(h) \/ ClearTable(h)

\* An awaited database call completes and its handler runs to the next one.
Continue(h) ==
  \/ FindSession(h) \/ CreateSession(h) \/ Notify(h)
  \/ CheckUsername(h) \/ FindClient(h) \/ CreateClient(h) \/ Reconnect(h)
  \/ LeaveReadFoods(h) \/ LeaveDeleteClient(h) \/ GoOffline(h)
  \/ SelectReadBill(h) \/ SelectPush(h)
  \/ DeselectReadBill(h) \/ DeselectWrite(h)
  \/ OrderReadGroup(h) \/ InsertOrder(h) \/ ClearCart(h)
  \/ SetBillMethod(h) \/ UpdateWrite(h)
  \/ FoodWrite(h) \/ AdminReadOrder(h) \/ CreateBill(h) \/ SetBill(h)
  \/ AdminWriteOrder(h) \/ CompleteSession(h)
  \/ CancelDeleteBill(h) \/ CancelReopenOrder(h)
  \/ ExpelReadClient(h) \/ ExpelWriteCart(h) \/ ExpelReadFoods(h)
  \/ ExpelDeleteFood(h) \/ ExpelDeleteClient(h)
  \/ RejectReadOrder(h) \/ RejectReadFoods(h) \/ RejectFood(h)
  \/ RejectSession(h)

\* The bound on requests is used up and every one was answered.  A state in
\* which requests are left that cannot go on is a deadlock.
Rest ==
  /\ \A h \in Handlers : At(h, "idle")
  /\ UNCHANGED vars

Next ==
  \/ \E h \in Handlers : Arrive(h) \/ Continue(h)
  \/ Crash
  \/ Rest

Spec == Init /\ [][Next]_vars

\* The event loop resumes every handler whose awaited call has completed, and
\* the database completes every call.
Fairness == \A h \in Handlers : WF_vars(Continue(h))
FairSpec == Spec /\ Fairness

----------------------------------------------------------------------------
\* Sessions.

\* Two handlers may both find no session and both create one, but only handlers
\* that run at the same time: a table never has more open sessions than there
\* are requests in progress, and with requests one at a time it has one, apart
\* from those a waiter opened again with a clearTable message
\* (getCurrentClientGroupOrNew).
Reopened == {g \in Groups : group[g].reopened}
SessionsBounded ==
  \A t \in Tables :
    Cardinality(InProgress(t) \ Reopened) <= Cardinality(Handlers)

\* The sessions of the rows are the sessions of TableSessions: opened for one
\* table they never leave, at most Handlers of them at a time, and opened again
\* by nobody but a waiter (getCurrentClientGroupOrNew, clearTable).
Over(t) == {g \in Groups : /\ group[g].status \in {"COMPLETED", "REJECT"}
                           /\ group[g].table = t}
Promise == INSTANCE TableSessions
  WITH Sessions <- Groups, Limit <- Cardinality(Handlers),
       open     <- [t \in Tables |-> InProgress(t)],
       closed   <- [t \in Tables |-> Over(t)],
       reopened <- Reopened
KeepsPromise == Promise!Spec

\* The order CANCEL and the session REJECT are written together, so no guest of
\* an open session has an order that the kitchen was told to drop, unless a waiter
\* opened the session again (adminUpdateClientOrder, clearTable of the client
\* service).
CancelledOrderClosesSession ==
  \A g \in Groups : order[g].status = "CANCEL" =>
    group[g].status # "IN_PROGRESS" \/ group[g].reopened

\* A table with an order that is not checked out has a session, the one thing
\* getCurrentClientGroupOrNew can return for it: otherwise every handler of the
\* table fails and none can create a session.
OpenOrderHasSession ==
  \A t \in Tables : OpenOrders(t) # {} => InProgress(t) # {}

----------------------------------------------------------------------------
\* Carts and orders.

\* Pushes, whole-list writes from an older copy and removals by different
\* handlers never leave one entry twice in a cart (selectFood, deselectFood,
\* deleteFoodOrderOrRemoveClientInFoodOrder).
CartEntriesUnique ==
  \A g \in Groups : \A i, j \in DOMAIN group[g].cart :
    group[g].cart[i].id = group[g].cart[j].id => i = j

Quiet == \A h \in Handlers : At(h, "idle")

\* Between requests no cart still holds an entry that was sent to the kitchen, so
\* that the guests do not send it again with the next list, whatever list was sent
\* (createOrder, updateOrder).
OrderedLeavesCart ==
  Quiet => \A f \in Foods, g \in Groups :
    HasFood(f) => food[f].item \notin Ids(group[g].cart)

\* Between requests the status of an order and of its bill agree: BILLING has a
\* bill to pay, PAID a paid one (adminUpdateClientOrder, handleCancelBill).
BillMatchesOrder ==
  Quiet => \A g \in Groups :
    /\ order[g].status = "BILLING" => bill[g].status = "NOT_PAID"
    /\ order[g].status = "PAID" => bill[g].status = "PAID"

\* Between requests an order marked ALL_SERVED has no food still to be served,
\* so the kitchen is not told to stop too early (overallFoodStatus).
ServedMeansServed ==
  Quiet => \A g \in Groups : order[g].overall = "ALL_SERVED" =>
    \A f \in FoodsOfOrder(g) : food[f].status \notin {"PENDING", "COOKING"}

----------------------------------------------------------------------------
\* Progress.

\* How many calls a handler that waits at l may still make before it answers,
\* all writes under one Promise.all counted once.
CallsFrom(l) ==
  CASE l \in {"noti", "expelFood", "rejectGroup"} -> 1
    [] l \in {"deleteClient", "push", "deselectWrite", "clearCart", "complete",
              "expelFoods", "rejectFood"} -> 2
    [] l \in {"leaveFoods", "selectBill", "deselectBill", "insertOrder",
              "updateWrite", "expelCart", "rejectFoods"} -> 3
    [] l \in {"createClient", "reconnect", "offline", "orderGroup", "setMethod",
              "adminWrite", "cancelBill", "cancelOrder", "expelRead",
              "rejectOrder"} -> 4
    [] l \in {"findClient", "setBill", "cancel"} -> 5
    [] l \in {"checkName", "createBill"} -> 6
    [] l = "adminRead" -> 7
    [] l = "foodWrite" -> 8
    [] OTHER -> 0

\* During getCurrentClientGroupOrNew its own calls and those of the caller.
CallsLeft(r) ==
  CASE r.pc = "find"        -> CallsFrom(r.ret) + 2
    [] r.pc = "createGroup" -> CallsFrom(r.ret) + 1
    [] OTHER                -> CallsFrom(r.pc)

\* A request gets nearer to its answer by having fewer calls to make, or fewer of
\* the writes under one Promise.all.
Nearer(h) ==
  \/ CallsLeft(req'[h]) < CallsLeft(req[h])
  \/ /\ req'[h].pc = req[h].pc
     /\ req'[h].foods \subseteq req[h].foods /\ req'[h].foods # req[h].foods

\* No handler goes round in a circle, whatever the others do to the rows it reads:
\* every call that completes brings its request nearer to the answer, and nothing
\* else that happens takes it further away (all handlers of the gateway).
RequestsWindDown ==
  [][\A h \in Handlers :
       /\ Continue(h) => Nearer(h)
       /\ ~At(h, "idle") => req'[h] = req[h] \/ Nearer(h)]_vars

\* The session of a paid bill is open only as long as the request that took the
\* payment is on its way to close it: nobody else has to, and a second payment, a
\* cancelled bill or a move in between does not make the server forget it.  Only a
\* waiter's clearTable can leave it open (adminUpdateClientOrder).
PaymentInHand ==
  \A g \in Groups :
    bill[g].status = "PAID" /\ group[g].status = "IN_PROGRESS"
      /\ ~group[g].reopened =>
        \E h \in Handlers : /\ req[h].pc \in {"adminWrite", "complete"}
                           /\ req[h].g = g /\ req[h].paid

\* Every handler comes to an answer.
EveryRequestAnswered == \A h \in Handlers : ~At(h, "idle") ~> At(h, "idle")

\* Once a bill is paid the session ends, so the table becomes free, unless a waiter
\* opens it again.
PaymentClosesSession ==
  \A g \in Groups : bill[g].status = "PAID" ~>
    group[g].status # "IN_PROGRESS" \/ group[g].reopened

----------------------------------------------------------------------------
\* Statements of the code's own messages that its handlers do not keep.

\* clearTable answers 'cleared table' (client.gateway.ts:464): a session that is
\* over leaves no order at the table that is not checked out.
ClearedTableIsFree ==
  \A g \in Groups : group[g].status \in {"COMPLETED", "REJECT"} =>
    order[g].status # "NOT_CHECKOUT"

\* 'You can not choose food because you are in billing progress'
\* (client.gateway.ts:244): no food joins an order whose bill is made out.
NoFoodWhileBilling ==
  [][\A f \in Foods : food[f].status = "none" /\ food'[f].status = "PENDING"
       => ~InBilling(food'[f].order)]_vars

\* 'previous order still not check out' (order.service.ts:46): a table has at
\* most one order that is not checked out.
OneOpenOrderPerTable ==
  \A t \in Tables : \A g, k \in OpenOrders(t) : g = k

\* '${event.username} deselected ${deselectedFood.foodName}'
\* (client.gateway.ts:335): deselecting takes the named entry out of the cart and
\* no other.
DeselectRemovesNamed ==
  [][\A h \in Handlers :
       At(h, "deselectWrite") /\ ~At(h, "deselectWrite")' =>
         Ids(req[h].cart) \ Ids(group'[req[h].g].cart) \subseteq {req[h].item}]_vars
============================================================================
