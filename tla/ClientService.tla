--------------------------- MODULE ClientService ---------------------------
(***************************************************************************)
(* src/client/client.service.ts: the look-up of a table's current session, *)
(* which most handlers call, the broadcast most handlers end with, and the *)
(* REST operation that clears a table.                                     *)
(***************************************************************************)
EXTENDS Store

\* A handler calls getCurrentClientGroupOrNew(t) and continues at label l.
Call(h, t, l) ==
  req' = [req EXCEPT ![h] = [@ EXCEPT !.pc = "find", !.ret = l, !.t = t]]

\* The call returns session g, or undefined when g is None.  Only deselectFood
\* goes on using the cart that was read with the session.
Return(h, g, cart) ==
  req' = [req EXCEPT ![h] =
            [@ EXCEPT !.pc = req[h].ret, !.g = g,
                      !.cart = IF req[h].ret = "deselectBill" THEN cart
                                                              ELSE <<>>]]

\* Faulty variants (suffix after the underscore) change one thing an action does;
\* the runs must tell them from the code.

\* A look-up that heeds open orders but not the sessions of the table.
FindSession_OrdersOnly(h) ==
  /\ At(h, "find")
  /\ IF OpenOrders(req[h].t) = {} THEN Goto(h, "createGroup")
                                  ELSE Return(h, None, <<>>)
  /\ UNCHANGED <<rows, socket, budget>>

\* getCurrentClientGroupOrNew reads the table with its orders and sessions.
FindSession(h) ==
  /\ At(h, "find")
  /\ LET t == req[h].t
     IN \/ \E g \in InProgress(t) : Return(h, g, group[g].cart)
        \/ /\ InProgress(t) = {}
           /\ OpenOrders(t) # {}
           /\ Return(h, None, <<>>)
        \/ /\ InProgress(t) = {}
           /\ OpenOrders(t) = {}
           /\ Goto(h, "createGroup")
  /\ UNCHANGED <<rows, socket, budget>>

NewSession(t) == [NoGroup EXCEPT !.status = "IN_PROGRESS", !.table = t]

\* A session that is over is opened again instead of making a new row.
CreateSession_Reuse(h) ==
  /\ At(h, "createGroup")
  /\ \E g \in Pick({k \in Groups : group[k].status # "IN_PROGRESS"}) :
       /\ group' = [group EXCEPT ![g] = NewSession(req[h].t)]
       /\ Return(h, g, <<>>)
  /\ UNCHANGED <<order, bill, food, client, socket, budget>>

\* ... and creates a session when it found neither.
CreateSession(h) ==
  /\ At(h, "createGroup")
  /\ \E g \in Pick(Groups \ Existing) :
       /\ group' = [group EXCEPT ![g] = NewSession(req[h].t)]
       /\ Return(h, g, <<>>)
  /\ UNCHANGED <<order, bill, food, client, socket, budget>>

\* notiToTable and the reply: it changes no row, and a handler that reaches it
\* without a session or a table answers with an error instead.
Notify(h) ==
  /\ At(h, "noti")
  /\ Answer(h)
  /\ UNCHANGED <<rows, socket, budget>>

----------------------------------------------------------------------------
\* clearTable (REST): the table's session is rejected and its order cancelled.
ClearTable(h) ==
  /\ \E t \in Tables : \E g \in InProgress(t) :
       Accept(h, "reject", [Idle EXCEPT !.pc = "rejectOrder", !.g = g])
  /\ UNCHANGED <<rows, socket>>

\* flag: the session had an order when it was read.
RejectReadOrder(h) ==
  LET found == order[req[h].g].status # "none"
  IN /\ At(h, "rejectOrder")
     /\ req' = [req EXCEPT ![h] =
                  [@ EXCEPT !.pc = IF found THEN "rejectFoods"
                                            ELSE "rejectGroup",
                            !.flag = found]]
     /\ UNCHANGED <<rows, socket, budget>>

RejectReadFoods(h) ==
  LET found == FoodsOfOrder(req[h].g)
  IN /\ At(h, "rejectFoods")
     /\ req' = [req EXCEPT ![h] =
                  [@ EXCEPT !.pc = IF found = {} THEN "rejectGroup"
                                                 ELSE "rejectFood",
                            !.foods = found]]
     /\ UNCHANGED <<rows, socket, budget>>

\* One of the updates under Promise.all; if a row is gone the handler answers
\* with an error, but the updates already issued still happen.
RejectFood(h) ==
  /\ At(h, "rejectFood")
  /\ \E f \in req[h].foods :
       LET rest   == req[h].foods \ {f}
           failed == req[h].failed \/ ~HasFood(f)
       IN /\ food' = IF HasFood(f) THEN [food EXCEPT ![f].status = "CANCEL"]
                                   ELSE food
          /\ req' = [req EXCEPT ![h] =
                       IF rest # {} THEN [@ EXCEPT !.foods = rest,
                                                   !.failed = failed]
                       ELSE IF failed THEN Idle
                       ELSE [@ EXCEPT !.pc = "rejectGroup", !.foods = {}]]
  /\ UNCHANGED <<group, order, bill, client, socket, budget>>

\* The session gets the status meant for the order.
RejectSession_WrongEnum(h) ==
  /\ At(h, "rejectGroup")
  /\ group' = [group EXCEPT ![req[h].g].status = "CANCEL"]
  /\ Answer(h)
  /\ UNCHANGED <<order, bill, food, client, socket, budget>>

\* One nested write: the session and, if one was read, its order.
RejectSession(h) ==
  LET g == req[h].g
  IN /\ At(h, "rejectGroup")
     /\ group' = [group EXCEPT ![g].status = "REJECT"]
     /\ order' = IF req[h].flag THEN [order EXCEPT ![g].status = "CANCEL"]
                                ELSE order
     /\ Answer(h)
     /\ UNCHANGED <<bill, food, client, socket, budget>>
============================================================================
