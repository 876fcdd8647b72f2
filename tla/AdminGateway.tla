---------------------------- MODULE AdminGateway ----------------------------
(***************************************************************************)
(* src/client/client.gateway.ts: what a waiter does to an order, its bill  *)
(* and its session (updateClientOrder and the WebSocket clearTable).       *)
(***************************************************************************)
EXTENDS ClientService

AfterLists(d) ==
  IF d.status = "BILLING" THEN "createBill"
  ELSE IF d.bill # None THEN "setBill"
  ELSE "adminWrite"

\* updateClientOrder arrives.  It cancels the bill, or changes the food it lists
\* (at most one, which the order must hold), or goes on to read the order.
AdminUpdateClientOrder(h) ==
  /\ \E g \in {k \in Groups : order[k].status # "none"}, d \in AdminDtos :
     \E F \in IF d.food = None THEN {{}} ELSE {{f} : f \in FoodsOfOrder(g)} :
       /\ ~d.expel
       /\ Accept(h, "admin",
            [Idle EXCEPT !.g = g, !.dto = d, !.foods = F,
                         !.pc = IF d.bill = "CANCEL" THEN "cancel"
                                ELSE IF F # {} THEN "foodWrite"
                                ELSE "adminRead"])
  /\ UNCHANGED <<rows, socket>>

\* deleteClientList names a guest: nothing awaits the removal, so it becomes a
\* task of its own, and the handler goes on to read the order.
AdminDeleteClientList(h) ==
  /\ \E g \in {k \in Groups : order[k].status # "none"}, d \in AdminDtos,
        c \in {k \in Clients : HasClient(k)}, task \in Handlers \ {h} :
       /\ d.expel
       /\ "admin" \in Kinds
       /\ budget > 0
       /\ At(h, "idle")
       /\ At(task, "idle")
       /\ budget' = budget - 1
       /\ req' = [req EXCEPT
                    ![h] = [Idle EXCEPT !.pc = "adminRead", !.g = g, !.dto = d],
                    ![task] = [Idle EXCEPT !.pc = "expelRead", !.c = c]]
  /\ UNCHANGED <<rows, socket>>

FoodWrite(h) ==
  LET r == req[h]
  IN /\ At(h, "foodWrite")
     /\ \E f \in r.foods :
          \/ /\ HasFood(f)
             /\ food' = IF r.dto.food = "DELETE"
                        THEN [food EXCEPT ![f] = [NoFood EXCEPT
                                                    !.status = "deleted"]]
                        ELSE [food EXCEPT ![f].status = r.dto.food]
             /\ req' = [req EXCEPT ![h] = [@ EXCEPT !.pc = "adminRead",
                                                    !.foods = {}]]
          \/ /\ ~HasFood(f)
             /\ Answer(h)
             /\ UNCHANGED food
     /\ UNCHANGED <<group, order, bill, client, socket, budget>>

\* flag: some food of the order is not served yet.  foods: what is charged.
AdminReadOrder(h) ==
  LET r == req[h]
      F == FoodsOfOrder(r.g)
  IN /\ At(h, "adminRead")
     /\ req' = [req EXCEPT ![h] =
                  [@ EXCEPT
                     !.pc = AfterLists(r.dto),
                     !.flag = \E f \in F : food[f].status \in {"COOKING",
                                                               "PENDING"},
                     !.foods = IF r.dto.status = "BILLING"
                               THEN {f \in F : food[f].status # "CANCEL"}
                               ELSE {}]]
     /\ UNCHANGED <<rows, socket, budget>>

\* handleBill: the order has at most one bill (orderId is unique).
CreateBill(h) ==
  LET r == req[h]
  IN /\ At(h, "createBill")
     /\ \/ /\ bill[r.g].status = "none"
           /\ bill' = [bill EXCEPT ![r.g] = [status |-> "NOT_PAID",
                                             foods |-> r.foods]]
           /\ req' = [req EXCEPT ![h] =
                        [@ EXCEPT !.pc = IF r.dto.bill # None THEN "setBill"
                                                              ELSE "adminWrite",
                                  !.foods = {}]]
        \/ /\ bill[r.g].status # "none"
           /\ Answer(h)
           /\ UNCHANGED bill
     /\ UNCHANGED <<group, order, food, client, socket, budget>>

\* A bill that is not there is waited for.
SetBill_Wait(h) ==
  LET r      == req[h]
      status == IF r.dto.bill = "KEEP" THEN bill[r.g].status ELSE r.dto.bill
  IN /\ At(h, "setBill")
     /\ bill[r.g].status # "none"
     /\ bill' = [bill EXCEPT ![r.g].status = status]
     /\ req' = [req EXCEPT ![h] = [@ EXCEPT !.pc = "adminWrite",
                                            !.paid = (status = "PAID")]]
     /\ UNCHANGED <<group, order, food, client, socket, budget>>

\* A dto without a status leaves the bill as it is.  isPaid is what the row says
\* after the write.
SetBill(h) ==
  LET r      == req[h]
      status == IF r.dto.bill = "KEEP" THEN bill[r.g].status ELSE r.dto.bill
  IN /\ At(h, "setBill")
     /\ \/ /\ bill[r.g].status # "none"
           /\ bill' = [bill EXCEPT ![r.g].status = status]
           /\ req' = [req EXCEPT ![h] = [@ EXCEPT !.pc = "adminWrite",
                                                  !.paid = (status = "PAID")]]
        \/ /\ bill[r.g].status = "none"
           /\ Answer(h)
           /\ UNCHANGED bill
     /\ UNCHANGED <<group, order, food, client, socket, budget>>

\* The session of a cancelled order stays open.
AdminWriteOrder_NoReject(h) ==
  LET r == req[h]
  IN /\ At(h, "adminWrite")
     /\ r.dto.status # None
     /\ order' = [order EXCEPT ![r.g].status = r.dto.status]
     /\ Call(h, order[r.g].table, "noti")
     /\ UNCHANGED <<group, bill, food, client, socket, budget>>

\* A payment does not reach the order.
AdminWriteOrder_NotPaid(h) ==
  LET r == req[h]
  IN /\ At(h, "adminWrite")
     /\ r.paid
     /\ Goto(h, "complete")
     /\ UNCHANGED <<rows, socket, budget>>

\* One nested write of the order and, when it is cancelled, of its session.
AdminWriteOrder(h) ==
  LET r      == req[h]
      d      == r.dto
      status == IF r.paid THEN "PAID"
                ELSE IF d.status # None THEN d.status ELSE order[r.g].status
      table  == IF d.transfer # None THEN d.transfer ELSE order[r.g].table
  IN /\ At(h, "adminWrite")
     /\ order' = [order EXCEPT ![r.g] =
                    [status |-> status, table |-> table,
                     overall |-> IF r.flag THEN "PENDING" ELSE "ALL_SERVED"]]
     /\ group' = IF d.status = "CANCEL"
                 THEN [group EXCEPT ![r.g].status = "REJECT"]
                 ELSE group
     /\ IF r.paid THEN Goto(h, "complete")
        ELSE IF status = "PAID" THEN Goto(h, "noti")
        ELSE Call(h, table, "noti")
     /\ UNCHANGED <<bill, food, client, socket, budget>>

\* The session of a paid order stays open.
CompleteSession_Skip(h) ==
  /\ At(h, "complete")
  /\ Goto(h, "noti")
  /\ UNCHANGED <<rows, socket, budget>>

CompleteSession(h) ==
  /\ At(h, "complete")
  /\ group' = [group EXCEPT ![req[h].g].status = "COMPLETED"]
  /\ Goto(h, "noti")
  /\ UNCHANGED <<order, bill, food, client, socket, budget>>

----------------------------------------------------------------------------
\* handleCancelBill issues both writes under one Promise.all; they happen in
\* either order, the second also when the first one fails.

CancelDeleteBill(h) ==
  LET r      == req[h]
      failed == bill[r.g].status = "none"
  IN /\ r.pc \in {"cancel", "cancelBill"}
     /\ bill' = [bill EXCEPT ![r.g] = NoBill]
     /\ req' = [req EXCEPT ![h] =
                  IF r.pc = "cancel"
                  THEN [@ EXCEPT !.pc = "cancelOrder", !.failed = failed]
                  ELSE IF failed THEN Idle
                  ELSE [@ EXCEPT !.pc = "find", !.ret = "noti"]]
     /\ UNCHANGED <<group, order, food, client, socket, budget>>

\* The order keeps its status when its bill is deleted.
CancelReopenOrder_Keep(h) ==
  LET r == req[h]
  IN /\ r.pc \in {"cancel", "cancelOrder"}
     /\ req' = [req EXCEPT ![h] =
                  [@ EXCEPT !.pc = IF r.pc = "cancel" THEN "cancelBill"
                                                      ELSE "find",
                            !.ret = "noti", !.t = order[r.g].table]]
     /\ UNCHANGED <<rows, socket, budget>>

CancelReopenOrder(h) ==
  LET r == req[h]
  IN /\ r.pc \in {"cancel", "cancelOrder"}
     /\ order' = [order EXCEPT ![r.g].status = "NOT_CHECKOUT"]
     /\ req' = [req EXCEPT ![h] =
                  IF r.failed THEN Idle
                  ELSE [@ EXCEPT !.pc = IF r.pc = "cancel" THEN "cancelBill"
                                                           ELSE "find",
                                 !.ret = "noti", !.t = order[r.g].table]]
     /\ UNCHANGED <<group, bill, food, client, socket, budget>>

----------------------------------------------------------------------------
\* deleteFoodOrderOrRemoveClientInFoodOrder, which removes guest c: c's entries
\* from the cart (unless that empties it), c's food, c's row.  The REST operation
\* awaits it; deleteClientList does not.
DeleteClientIdInFoodOrder(h) ==
  /\ \E c \in {k \in Clients : HasClient(k)} :
       Accept(h, "expel", [Idle EXCEPT !.pc = "expelRead", !.c = c])
  /\ UNCHANGED <<rows, socket>>

\* The entries of a cart that guest c did not select, in their order.
Without(cart, c) ==
  LET kept[i \in 0..Len(cart)] ==
        IF i = 0 THEN <<>>
        ELSE IF cart[i].user = c THEN kept[i - 1]
        ELSE Append(kept[i - 1], cart[i])
  IN kept[Len(cart)]

ExpelReadClient(h) ==
  LET c    == req[h].c
      g    == client[c].group
      kept == Without(group[g].cart, c)
  IN /\ At(h, "expelRead")
     /\ IF HasClient(c)
        THEN req' = [req EXCEPT ![h] =
                       [@ EXCEPT !.pc = IF kept # <<>> THEN "expelCart"
                                                       ELSE "expelFoods",
                                 !.g = g, !.cart = kept]]
        ELSE Answer(h)
     /\ UNCHANGED <<rows, socket, budget>>

ExpelWriteCart(h) ==
  LET r == req[h]
  IN /\ At(h, "expelCart")
     /\ group' = [group EXCEPT ![r.g].cart = r.cart]
     /\ req' = [req EXCEPT ![h] = [@ EXCEPT !.pc = "expelFoods",
                                            !.cart = <<>>]]
     /\ UNCHANGED <<order, bill, food, client, socket, budget>>

ExpelReadFoods(h) ==
  /\ At(h, "expelFoods")
  /\ req' = [req EXCEPT ![h] = [@ EXCEPT !.pc = "expelFood",
                                         !.foods = FoodsOfClient(req[h].c)]]
  /\ UNCHANGED <<rows, socket, budget>>

\* One of the deletions under Promise.all; when a row is gone already the guest
\* is kept, but the deletions already issued still happen.
ExpelDeleteFood(h) ==
  LET r == req[h]
  IN /\ At(h, "expelFood")
     /\ \E f \in r.foods :
          /\ food' = IF HasFood(f)
                     THEN [food EXCEPT ![f] = [NoFood EXCEPT
                                                 !.status = "deleted"]]
                     ELSE food
          /\ req' = [req EXCEPT ![h] =
                       [@ EXCEPT !.foods = r.foods \ {f},
                                 !.failed = r.failed \/ ~HasFood(f)]]
     /\ UNCHANGED <<group, order, bill, client, socket, budget>>

ExpelDeleteClient(h) ==
  LET r == req[h]
  IN /\ At(h, "expelFood")
     /\ r.foods = {}
     /\ client' = IF r.failed \/ ~HasClient(r.c) THEN client
                  ELSE [client EXCEPT ![r.c] = [NoClient EXCEPT
                                                  !.status = "deleted"]]
     /\ Answer(h)
     /\ UNCHANGED <<group, order, bill, food, socket, budget>>

----------------------------------------------------------------------------
\* The WebSocket clearTable writes the status it was sent, and nothing else.  Any
\* status will do, so a session that is over may be opened again; without one
\* nothing is written.
WsClearTable(h) ==
  /\ \E g \in Existing, status \in ClearStatuses :
       /\ Accept(h, "clear", Idle)
       /\ group' = [group EXCEPT
                      ![g].status = status,
                      ![g].reopened = @ \/ (status = "IN_PROGRESS" /\
                                            group[g].status # "IN_PROGRESS")]
  /\ UNCHANGED <<order, bill, food, client, socket>>
=============================================================================
