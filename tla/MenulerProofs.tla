---------------------------- MODULE MenulerProofs ----------------------------
(***************************************************************************)
(* Theorems of the server for any number of requests at a time: a          *)
(* cancelled order closes its session and an open one has its session, a   *)
(* table's open sessions are bounded by the handlers, the sessions         *)
(* implement TableSessions, no entry is in a cart twice, every request     *)
(* gets nearer to its answer, and a paid bill closes its session; all of   *)
(* them but for sessions that a waiter's clearTable opened again.          *)
(***************************************************************************)
EXTENDS RequestMoves, FiniteSetTheorems

----------------------------------------------------------------------------
\* What a step may do to the sessions.  Only CreateSession makes one, and only
\* WsClearTable opens one again; any other step closes at most one and moves none
\* to another table.

Closed == {"COMPLETED", "REJECT"}
ClosesAtMostOne ==
  /\ \A g \in Groups : /\ group'[g].table = group[g].table
                       /\ group'[g].reopened = group[g].reopened
  /\ \/ \A g \in Groups : group'[g].status = group[g].status
     \/ \E k \in Existing :
          /\ group'[k].status \in Closed
          /\ \A g \in Groups \ {k} : group'[g].status = group[g].status

ReopensOne ==
  \E k \in Groups :
    /\ group[k].status \in Closed
    /\ group'[k].status = "IN_PROGRESS" /\ group'[k].reopened
    /\ group'[k].table = group[k].table
    /\ \A g \in Groups \ {k} : group'[g] = group[g]

\* A step that writes no session closes none.
LEMMA SameGroups ==
  ASSUME UNCHANGED group
  PROVE  ClosesAtMostOne
BY DEF ClosesAtMostOne

\* Nor does a step that writes a cart.
LEMMA CartOnly ==
  ASSUME TypeOK, NEW g, NEW k, group' = [group EXCEPT ![g].cart = k]
  PROVE  ClosesAtMostOne
<1>1. \A x \in Groups : /\ group'[x].status = group[x].status
                        /\ group'[x].table = group[x].table
                        /\ group'[x].reopened = group[x].reopened
  BY DEF TypeOK, GroupRow
<1> QED
  BY <1>1 DEF ClosesAtMostOne

\* A write of a closed status closes one session.
LEMMA StatusOnly ==
  ASSUME TypeOK, NEW k \in Existing, NEW x \in Closed,
         group' = [group EXCEPT ![k].status = x]
  PROVE  ClosesAtMostOne
<1>1. \A g \in Groups :
        /\ group'[g].table = group[g].table
        /\ group'[g].reopened = group[g].reopened
        /\ group'[g].status = IF g = k THEN x ELSE group[g].status
  BY DEF TypeOK, GroupRow, Existing
<1> QED
  BY <1>1 DEF ClosesAtMostOne

\* A waiter's clearTable closes a session, opens it again, or leaves it.
LEMMA ClearStep ==
  ASSUME TypeInv, NEW k \in Existing, NEW x \in ClearStatuses,
         group' = [group EXCEPT ![k] = Cleared(group[k], x)]
  PROVE  ClosesAtMostOne \/ ReopensOne
<1>1. /\ k \in Groups /\ group \in [Groups -> GroupRow]
      /\ group[k].status \in GroupStatus /\ x \in GroupStatus
  BY InputAssumption DEF TypeInv, TypeOK, Existing, GroupRow
<1> DEFINE again == x = "IN_PROGRESS" /\ group[k].status # "IN_PROGRESS"
<1>2. /\ Cleared(group[k], x).status = x
      /\ Cleared(group[k], x).table = group[k].table
      /\ Cleared(group[k], x).reopened = (group[k].reopened \/ again)
  BY <1>1 DEF Cleared, GroupRow
<1>3. /\ \A g \in Groups \ {k} : group'[g] = group[g]
      /\ group'[k].status = x /\ group'[k].table = group[k].table
      /\ group'[k].reopened = (group[k].reopened \/ again)
  BY <1>1, <1>2
<1>4. group[k].reopened \in BOOLEAN
  BY <1>1 DEF GroupRow
<1>5. CASE again
  <2>1. group[k].status \in Closed
    BY <1>1, <1>5 DEF GroupStatus, Closed
  <2> QED
    BY <1>1, <1>3, <1>5, <2>1 DEF ReopensOne
<1>6. CASE ~again /\ x = "IN_PROGRESS"
  BY <1>1, <1>3, <1>4, <1>6 DEF ClosesAtMostOne
<1>7. CASE ~again /\ x # "IN_PROGRESS"
  <2>1. x \in Closed
    BY <1>1, <1>7 DEF GroupStatus, Closed
  <2> QED
    BY <1>1, <1>3, <1>4, <1>7, <2>1 DEF ClosesAtMostOne
<1> QED
  BY <1>5, <1>6, <1>7

\* Every step but CreateSession closes at most one session, or opens one again.
LEMMA SessionStep ==
  ASSUME TypeInv, [Next]_vars, ~ \E h \in Handlers : CreateSession(h)
  PROVE  ClosesAtMostOne \/ ReopensOne
<1>1. TypeOK
  BY DEF TypeInv
<1>2. ASSUME NEW h \in Handlers, Arrive(h) PROVE ClosesAtMostOne \/ ReopensOne
  <2>1. CASE WsClearTable(h)
    BY <2>1, WsClearTableMove, ClearStep
  <2>2. CASE ~WsClearTable(h)
    <3>1. UNCHANGED group
      BY <1>2, <2>2
         DEF Arrive, rows, JoinTable, LeaveTable, Disconnect, SelectFood,
             DeselectFood, CreateOrder, UpdateOrder, AdminUpdateClientOrder,
             AdminDeleteClientList, DeleteClientIdInFoodOrder, ClearTable
    <3> QED
      BY SMTT(30), <3>1, SameGroups
  <2> QED
    BY <2>1, <2>2
<1>3. ASSUME NEW h \in Handlers, Continue(h) PROVE ClosesAtMostOne
  <2>1. CASE SelectPush(h) \/ DeselectWrite(h) \/ ClearCart(h) \/ ExpelWriteCart(h)
    <3>1. PICK g, k : group' = [group EXCEPT ![g].cart = k]
      <4>1. CASE SelectPush(h)
        BY <4>1 DEF SelectPush
      <4>2. CASE DeselectWrite(h)
        BY <4>2 DEF DeselectWrite
      <4>3. CASE ClearCart(h)
        BY <4>3 DEF ClearCart
      <4>4. CASE ExpelWriteCart(h)
        BY <4>4 DEF ExpelWriteCart
      <4> QED
        BY <2>1, <4>1, <4>2, <4>3, <4>4
    <3> QED
      BY <1>1, <3>1, CartOnly
  <2>2. CASE RejectSession(h) \/ CompleteSession(h) \/ AdminWriteOrder(h)
    <3>1. req[h].g \in Existing
      BY <2>2, SessionFit
         DEF TypeInv, RejectSession, CompleteSession, AdminWriteOrder, At,
             SessionLabels, OrderLabels, RejectLabels
    <3>2. \/ UNCHANGED group
          \/ \E x \in Closed : group' = [group EXCEPT ![req[h].g].status = x]
      BY <2>2 DEF RejectSession, CompleteSession, AdminWriteOrder, Closed
    <3> QED
      BY <1>1, <3>1, <3>2, StatusOnly, SameGroups
  <2>3. CASE ~(\/ SelectPush(h) \/ DeselectWrite(h) \/ ClearCart(h)
               \/ ExpelWriteCart(h) \/ RejectSession(h) \/ CompleteSession(h)
               \/ AdminWriteOrder(h))
    <3>1. ~CreateSession(h)
      BY SMTT(30)
    <3>2. UNCHANGED group
      BY <1>3, <2>3, <3>1
         DEF Continue, rows, FindSession, Notify, CheckUsername, FindClient,
             CreateClient, Reconnect, LeaveReadFoods, LeaveDeleteClient,
             GoOffline, SelectReadBill, DeselectReadBill, OrderReadGroup,
             InsertOrder, SetBillMethod, UpdateWrite, FoodWrite, AdminReadOrder,
             CreateBill, SetBill, CancelDeleteBill, CancelReopenOrder,
             ExpelReadClient, ExpelReadFoods, ExpelDeleteFood,
             ExpelDeleteClient, RejectReadOrder, RejectReadFoods, RejectFood
    <3> QED
      BY Zenon, <3>2, SameGroups
  <2> QED
    BY <2>1, <2>2, <2>3
<1>4. CASE Crash \/ Rest \/ UNCHANGED vars
  <2>1. UNCHANGED group
    BY <1>4 DEF Crash, Rest, vars, rows
  <2> QED
    BY <2>1, SameGroups
<1> QED
  BY <1>2, <1>3, <1>4 DEF Next

\* What CreateSession does: one more session, of a table the request waits at.
LEMMA CreateStep ==
  ASSUME TypeInv, NEW h \in Handlers, CreateSession(h)
  PROVE  /\ At(h, "createGroup") /\ req[h].t \in Tables
         /\ \E g \in Groups \ Existing :
              /\ \A k \in Groups \ {g} : group'[k] = group[k]
              /\ group'[g].status = "IN_PROGRESS"
              /\ group'[g].table = req[h].t
              /\ ~group'[g].reopened
         /\ UNCHANGED order
<1>1. At(h, "createGroup") /\ req[h].t \in Tables
  BY DEF TypeInv, CreateSession, At, RequestsFit, Fit, TableLabels
<1>2. PICK g \in Groups \ Existing :
        group' = [group EXCEPT ![g] = NewSession(req[h].t)]
  BY DEF CreateSession, Pick
<1>3. /\ NewSession(req[h].t).status = "IN_PROGRESS"
      /\ NewSession(req[h].t).table = req[h].t
      /\ NewSession(req[h].t).reopened = FALSE
  BY DEF NewSession, NoGroup
<1> QED
  BY <1>1, <1>2, <1>3 DEF CreateSession, TypeInv, TypeOK

----------------------------------------------------------------------------
\* Cancelled orders.

\* What a step may do to the status of orders: one becomes CANCEL only together
\* with its session being closed.
LEMMA CancelStep ==
  ASSUME TypeInv, [Next]_vars, NEW g \in Groups,
         order'[g].status = "CANCEL", order[g].status # "CANCEL"
  PROVE  group'[g].status = "REJECT"
<1>1. TypeOK
  BY DEF TypeInv
<1>2. ASSUME NEW h \in Handlers, Arrive(h) PROVE FALSE
  <2>1. UNCHANGED order
    BY <1>2
       DEF Arrive, rows, JoinTable, LeaveTable, Disconnect, SelectFood,
           DeselectFood, CreateOrder, UpdateOrder, AdminUpdateClientOrder,
           AdminDeleteClientList, DeleteClientIdInFoodOrder, WsClearTable,
           ClearTable
  <2> QED
    BY <2>1
<1>3. ASSUME NEW h \in Handlers, Continue(h) PROVE group'[g].status = "REJECT"
  <2>1. CASE RejectSession(h)
    <3>1. g = req[h].g
      BY <1>1, <2>1 DEF RejectSession, TypeOK
    <3> QED
      BY <1>1, <2>1, <3>1 DEF RejectSession, TypeOK, GroupRow
  <2>2. CASE AdminWriteOrder(h)
    <3>1. g = req[h].g
      BY <1>1, <2>2 DEF AdminWriteOrder, TypeOK
    <3>2. req[h].dto.status = "CANCEL"
      BY <1>1, <2>2, <3>1 DEF AdminWriteOrder, TypeOK
    <3> QED
      BY <1>1, <2>2, <3>1, <3>2 DEF AdminWriteOrder, TypeOK, GroupRow
  <2>3. CASE InsertOrder(h)
    BY <1>1, <2>3 DEF InsertOrder, TypeOK
  <2>4. CASE UpdateWrite(h)
    <3>1. PICK k, t, x : order' = [order EXCEPT ![k] = [order[k] EXCEPT
                                     !.table = t, !.overall = x]]
      BY <2>4 DEF UpdateWrite
    <3>2. order[g] \in OrderRow
      BY <1>1 DEF TypeOK
    <3>3. order'[g].status = order[g].status
      BY <1>1, <3>1, <3>2 DEF TypeOK, OrderRow
    <3> QED
      BY <3>3
  <2>5. CASE CancelReopenOrder(h)
    BY <1>1, <2>5 DEF CancelReopenOrder, TypeOK, OrderRow
  <2>6. CASE ~(\/ RejectSession(h) \/ AdminWriteOrder(h) \/ InsertOrder(h)
               \/ UpdateWrite(h) \/ CancelReopenOrder(h))
    <3>1. UNCHANGED order
      BY <1>3, <2>6
         DEF Continue, rows, FindSession, CreateSession, Notify, CheckUsername,
             FindClient, CreateClient, Reconnect, LeaveReadFoods,
             LeaveDeleteClient, GoOffline, SelectReadBill, SelectPush,
             DeselectReadBill, DeselectWrite, OrderReadGroup, ClearCart,
             SetBillMethod, FoodWrite, AdminReadOrder, CreateBill, SetBill,
             CompleteSession, CancelDeleteBill, ExpelReadClient, ExpelWriteCart,
             ExpelReadFoods, ExpelDeleteFood, ExpelDeleteClient,
             RejectReadOrder, RejectReadFoods, RejectFood
    <3> QED
      BY SMTT(30), <3>1
  <2> QED
    BY <2>1, <2>2, <2>3, <2>4, <2>5, <2>6
<1>4. CASE Crash \/ Rest \/ UNCHANGED vars
  BY <1>4 DEF Crash, Rest, vars, rows
<1> QED
  BY <1>2, <1>3, <1>4 DEF Next

\* An order the kitchen was told to drop never belongs to an open session, for
\* every set of tables, guests and requests in progress, unless a waiter opened the
\* session again: a waiter's cancellation and the clearing of a table write order
\* and session together, and but for the WebSocket clearTable a session is only
\* opened for a new row.
THEOREM CancelledOrders == Spec => []CancelledOrderClosesSession
<1>1. Init => CancelledOrderClosesSession
  BY DEF Init, CancelledOrderClosesSession, NoOrder
<1>2. ASSUME TypeInv, CancelledOrderClosesSession, [Next]_vars
      PROVE  CancelledOrderClosesSession'
  <2> SUFFICES ASSUME NEW g \in Groups, order'[g].status = "CANCEL"
               PROVE  group'[g].status # "IN_PROGRESS" \/ group'[g].reopened
    BY DEF CancelledOrderClosesSession
  <2>1. CASE order[g].status # "CANCEL"
    BY <1>2, <2>1, CancelStep
  <2>2. CASE order[g].status = "CANCEL" /\ \E h \in Handlers : CreateSession(h)
    <3>1. g \in Existing
      BY <1>2, <2>2 DEF TypeInv, RowsFit, Ordered
    <3> QED
      BY <1>2, <2>2, <3>1, CreateStep DEF CancelledOrderClosesSession
  <2>3. CASE order[g].status = "CANCEL" /\ ~ \E h \in Handlers : CreateSession(h)
    <3>1. group[g].status # "IN_PROGRESS" \/ group[g].reopened
      BY <1>2, <2>3 DEF CancelledOrderClosesSession
    <3>2. ClosesAtMostOne \/ ReopensOne
      BY <1>2, <2>3, SessionStep
    <3> QED
      BY <3>1, <3>2 DEF ClosesAtMostOne, ReopensOne, Closed
  <2> QED
    BY <2>1, <2>2, <2>3
<1> QED
  BY <1>1, <1>2, InvariantHolds, PTL DEF Spec

----------------------------------------------------------------------------
\* An order that is not checked out belongs to the session that its table has:
\* none is closed with such an order, and none is opened again.  That takes an
\* instance in which no table is cleared and no waiter cancels a bill, opens an
\* order again or moves one, as each of these leaves an open order behind.
NothingIsUndone ==
  /\ {"reject", "clear"} \cap Kinds = {}
  /\ \A d \in AdminDtos : /\ d.bill # "CANCEL" /\ d.status # "NOT_CHECKOUT"
                          /\ d.transfer = None

UndoLabels == {"rejectOrder", "rejectFoods", "rejectFood", "rejectGroup",
               "cancel", "cancelBill", "cancelOrder"}
WriteLabels == {"orderGroup", "insertOrder", "setMethod", "updateWrite"}
Own(g) ==
  /\ order[g].status = "NOT_CHECKOUT" =>
       group[g].status = "IN_PROGRESS" /\ order[g].table = group[g].table
  /\ group[g].status # "none" /\ order[g].status = "none" =>
       group[g].status = "IN_PROGRESS"
OwnFits(r) ==
  /\ r.pc \notin UndoLabels
  /\ r.pc = "complete" => order[r.g].status \notin {"none", "NOT_CHECKOUT"}
  /\ r.pc \in WriteLabels => group[r.g].table = r.t
OwnSession ==
  /\ \A g \in Groups : Own(g)
  /\ \A h \in Handlers : OwnFits(req[h])

\* What one request found is not undone by a step of another.
SessionsSettled ==
  /\ \A g \in Groups : order[g].status \notin {"none", "NOT_CHECKOUT"}
                         => order'[g].status \notin {"none", "NOT_CHECKOUT"}
  /\ \A g \in Existing : group'[g].table = group[g].table

\* The bodies of the waiter's messages that requests hold.
LEMMA DtoHeld ==
  ASSUME TypeInv, NothingIsUndone, NEW h \in Handlers
  PROVE  /\ req[h].dto.bill # "CANCEL" /\ req[h].dto.status # "NOT_CHECKOUT"
         /\ req[h].dto.transfer = None
BY NoneAssumption
   DEF TypeInv, TypeOK, Request, NothingIsUndone, NoDto, OrderStatus, BillStatus

\* A step of one request that leaves things settled.
LEMMA OwnKept ==
  ASSUME TypeInv, OwnSession, NEW h \in Handlers, Others(h), SessionsSettled,
         \A g \in Groups : Own(g)', OwnFits(req[h])'
  PROVE  OwnSession'
<1>1. ASSUME NEW k \in Handlers \ {h}
      PROVE  OwnFits(req[k])'
  <2>1. OwnFits(req[k]) /\ req'[k] = req[k]
    BY DEF OwnSession, Others
  <2>2. req[k].pc \in WriteLabels \cup {"complete"}
          => req[k].g \in Existing /\ req[k].g \in Groups
    BY SessionFit DEF TypeInv, SessionLabels, OrderLabels, WriteLabels
  <2> QED
    BY <2>1, <2>2 DEF OwnFits, SessionsSettled, WriteLabels
<1> QED
  BY <1>1 DEF OwnSession

\* A step that writes no order, and of sessions only carts.
LEMMA OwnRead ==
  ASSUME TypeInv, OwnSession, UNCHANGED order,
         \A g \in Groups : /\ group'[g].status = group[g].status
                           /\ group'[g].table = group[g].table
  PROVE  SessionsSettled /\ \A g \in Groups : Own(g)'
BY DEF OwnSession, SessionsSettled, Own, Existing

\* Writes of a cart.
LEMMA OwnCart ==
  ASSUME TypeInv, NEW g, NEW c, group' = [group EXCEPT ![g].cart = c]
  PROVE  \A k \in Groups : /\ group'[k].status = group[k].status
                           /\ group'[k].table = group[k].table
BY DEF TypeInv, TypeOK, GroupRow

\* Messages arrive.
LEMMA OwnArrives ==
  ASSUME TypeInv, OwnSession, NothingIsUndone, NEW h \in Handlers, Arrive(h)
  PROVE  OwnSession'
<1>1. CASE JoinTable(h) \/ LeaveTable(h) \/ Disconnect(h)
           \/ SelectFood(h) \/ DeselectFood(h)
  BY <1>1, GuestArrives, OwnRead, OwnKept
     DEF rows, OwnFits, UndoLabels, WriteLabels
<1>2. CASE CreateOrder(h)
  BY <1>2, CreateOrderMove, OwnRead, OwnKept
     DEF rows, OwnFits, UndoLabels, WriteLabels
<1>3. CASE UpdateOrder(h)
  BY <1>3, UpdateOrderMove, OwnRead, OwnKept
     DEF rows, OwnFits, UndoLabels, WriteLabels
<1>4. CASE AdminUpdateClientOrder(h)
  BY <1>4, AdminArrives, OwnRead, OwnKept
     DEF rows, OwnFits, UndoLabels, WriteLabels, NothingIsUndone
<1>5. CASE AdminDeleteClientList(h)
  <2>1. PICK task \in Handlers \ {h} :
          /\ \A k \in Handlers \ {h, task} : req'[k] = req[k]
          /\ UNCHANGED <<rows, socket>>
          /\ req'[h].pc = "adminRead" /\ req'[task].pc = "expelRead"
    BY <1>5, ExpelArrives
  <2>2. \A k \in Handlers : OwnFits(req[k])'
    BY <2>1 DEF OwnSession, OwnFits, UndoLabels, WriteLabels, rows
  <2> QED
    BY <2>1, <2>2, OwnRead DEF OwnSession, rows
<1>6. CASE WsClearTable(h) \/ ClearTable(h)
  BY <1>6, WsClearTableMove, ClearTableMove DEF NothingIsUndone
<1>7. CASE DeleteClientIdInFoodOrder(h)
  BY <1>7, DeleteClientIdMove, OwnRead, OwnKept
     DEF rows, OwnFits, UndoLabels, WriteLabels
<1> QED
  BY <1>1, <1>2, <1>3, <1>4, <1>5, <1>6, <1>7 DEF Arrive

\* Requests go on: guests,
LEMMA OwnGuests ==
  ASSUME TypeInv, OwnSession, NEW h \in Handlers,
         \/ FindSession(h) \/ CreateSession(h) \/ Notify(h)
         \/ CheckUsername(h) \/ FindClient(h) \/ CreateClient(h) \/ Reconnect(h)
         \/ LeaveReadFoods(h) \/ LeaveDeleteClient(h) \/ GoOffline(h)
         \/ SelectReadBill(h) \/ SelectPush(h)
         \/ DeselectReadBill(h) \/ DeselectWrite(h)
  PROVE  OwnSession'
<1> USE IdleFields DEF OwnFits, UndoLabels, WriteLabels
<1>1. CASE FindSession(h)
  <2>1. req[h].ret \in ReturnLabels
    BY <1>1, FindSessionMove DEF TypeInv, RequestsFit, Fit, At
  <2> QED
    BY <1>1, <2>1, FindSessionMove, OwnRead, OwnKept DEF rows, ReturnLabels
<1>2. CASE CreateSession(h)
  <2>1. req[h].ret \in ReturnLabels
    BY <1>2, CreateSessionMove DEF TypeInv, RequestsFit, Fit, At
  <2>2. /\ Others(h) /\ UNCHANGED order /\ req'[h].pc = req[h].ret
        /\ req'[h].g \in Groups \ Existing
        /\ group' = [group EXCEPT ![req'[h].g] = NewSession(req[h].t)]
    BY <1>2, CreateSessionMove
  <2>3. order[req'[h].g].status = "none"
    BY <2>2 DEF TypeInv, RowsFit, Ordered
  <2> DEFINE row == NewSession(req[h].t)
  <2>6. /\ row.status = "IN_PROGRESS"
        /\ \A k \in Groups : group'[k] = IF k = req'[h].g THEN row ELSE group[k]
    BY <2>2 DEF TypeInv, TypeOK, NewSession, NoGroup
  <2> HIDE DEF row
  <2>4. \A g \in Groups : Own(g)'
    BY <2>2, <2>3, <2>6 DEF OwnSession, Own
  <2>5. SessionsSettled
    BY <2>2, <2>6 DEF SessionsSettled, Existing
  <2>7. OwnFits(req[h])'
    BY <2>1, <2>2 DEF ReturnLabels
  <2>8. Others(h)
    BY <2>2
  <2> HIDE DEF OwnFits
  <2> QED
    BY <2>4, <2>5, <2>7, <2>8, OwnKept
<1>3. CASE Notify(h)
  BY <1>3, NotifyMove, OwnRead, OwnKept DEF rows
<1>4. CASE \/ CheckUsername(h) \/ FindClient(h)
           \/ SelectReadBill(h) \/ DeselectReadBill(h)
  BY <1>4, GuestReads, OwnRead, OwnKept DEF rows
<1>5. CASE CreateClient(h) \/ Reconnect(h)
  BY <1>5, SeatedMove, OwnRead, OwnKept
<1>6. CASE LeaveReadFoods(h) \/ LeaveDeleteClient(h) \/ GoOffline(h)
  BY <1>6, LeaveMove, OwnRead, OwnKept
<1>7. CASE SelectPush(h)
  <2>0. PICK i \in FreshItems :
          group' = [group EXCEPT ![req[h].g].cart =
                      Append(group[req[h].g].cart,
                             [id |-> i, user |-> req[h].c])]
    BY <1>7, SelectPushMove
  <2> DEFINE c == Append(group[req[h].g].cart, [id |-> i, user |-> req[h].c])
  <2>3. group' = [group EXCEPT ![req[h].g].cart = c]
    BY <2>0
  <2> HIDE DEF c
  <2>1. \A k \in Groups : /\ group'[k].status = group[k].status
                          /\ group'[k].table = group[k].table
    BY <2>3, OwnCart
  <2>2. OwnFits(req[h])' /\ Others(h) /\ UNCHANGED order
    BY <1>7, SelectPushMove
  <2> QED
    BY <2>1, <2>2, OwnRead, OwnKept
<1>8. CASE DeselectWrite(h)
  BY <1>8, DeselectWriteMove, OwnCart, OwnRead, OwnKept
<1> QED
  BY <1>1, <1>2, <1>3, <1>4, <1>5, <1>6, <1>7, <1>8

\* their orders,
LEMMA OwnOrders ==
  ASSUME TypeInv, OwnSession, NEW h \in Handlers,
         \/ OrderReadGroup(h) \/ InsertOrder(h) \/ ClearCart(h)
         \/ SetBillMethod(h) \/ UpdateWrite(h)
  PROVE  OwnSession'
<1> USE IdleFields DEF OwnFits, UndoLabels, WriteLabels
<1>1. CASE OrderReadGroup(h) \/ SetBillMethod(h)
  <2>1. OwnFits(req[h])
    BY DEF OwnSession
  <2> QED
    BY <1>1, <2>1, OrderReads, OwnRead, OwnKept
       DEF rows, KeepsLocals, KeepsSubject, At
<1>2. CASE InsertOrder(h)
  <2>1. OwnFits(req[h]) /\ Others(h) /\ UNCHANGED group /\ At(h, "insertOrder")
    BY <1>2, InsertOrderMove DEF OwnSession
  <2>2. req[h].g \in Groups /\ group[req[h].g].status # "none"
    BY <2>1, SessionFit DEF TypeInv, At, SessionLabels, Existing
  <2>3. CASE req'[h] = Idle /\ UNCHANGED <<order, food>>
    BY <2>1, <2>3, OwnRead, OwnKept
  <2>4. CASE /\ order[req[h].g].status = "none"
             /\ order' = [order EXCEPT ![req[h].g] =
                            [status |-> "NOT_CHECKOUT", table |-> req[h].t,
                             overall |-> "PENDING"]]
             /\ req'[h].pc = "clearCart"
    <3>1. group[req[h].g].table = req[h].t
      BY <2>1 DEF At
    <3>2. \A g \in Groups : Own(g)'
      BY <2>1, <2>2, <2>4, <3>1 DEF OwnSession, Own, TypeInv, TypeOK
    <3>3. SessionsSettled
      BY <2>1, <2>2, <2>4 DEF SessionsSettled, TypeInv, TypeOK
    <3> QED
      BY <2>1, <2>4, <3>2, <3>3, OwnKept
  <2> QED
    BY <1>2, <2>3, <2>4, InsertOrderMove
<1>3. CASE ClearCart(h)
  BY <1>3, ClearCartMove, OwnCart, OwnRead, OwnKept
<1>4. CASE UpdateWrite(h)
  <2>1. /\ OwnFits(req[h]) /\ Others(h) /\ UNCHANGED group
        /\ At(h, "updateWrite") /\ req'[h].pc = "clearCart"
        /\ \A k \in Groups \ {req[h].g} : order'[k] = order[k]
        /\ order'[req[h].g].status = order[req[h].g].status
        /\ order'[req[h].g].table = req[h].t
    BY <1>4, UpdateWriteMove DEF OwnSession
  <2>2. group[req[h].g].table = req[h].t
    BY <2>1 DEF At
  <2>3. \A g \in Groups : Own(g)'
    BY <2>1, <2>2 DEF OwnSession, Own
  <2>4. SessionsSettled
    BY <2>1 DEF SessionsSettled
  <2> QED
    BY <2>1, <2>3, <2>4, OwnKept
<1> QED
  BY <1>1, <1>2, <1>3, <1>4

\* the waiter,
LEMMA OwnWaiter ==
  ASSUME TypeInv, OwnSession, NothingIsUndone, NEW h \in Handlers,
         \/ FoodWrite(h) \/ AdminReadOrder(h) \/ CreateBill(h) \/ SetBill(h)
         \/ AdminWriteOrder(h) \/ CompleteSession(h)
         \/ CancelDeleteBill(h) \/ CancelReopenOrder(h)
  PROVE  OwnSession'
<1> USE IdleFields DEF OwnFits, UndoLabels, WriteLabels
<1>1. CASE FoodWrite(h)
  BY <1>1, FoodWriteMove, OwnRead, OwnKept
<1>2. CASE AdminReadOrder(h)
  BY <1>2, AdminReadOrderMove, OwnRead, OwnKept DEF rows, AfterLists
<1>3. CASE CreateBill(h)
  BY <1>3, CreateBillMove, OwnRead, OwnKept
<1>4. CASE SetBill(h)
  BY <1>4, SetBillMove, OwnRead, OwnKept
<1>5. CASE AdminWriteOrder(h)
  <2> DEFINE g == req[h].g
             d == req[h].dto
  <2>1. /\ Others(h) /\ At(h, "adminWrite") /\ g \in Groups
        /\ \A k \in Groups \ {g} : order'[k] = order[k]
        /\ order'[g].status = NewStatus(req[h])
        /\ order'[g].table = order[g].table
        /\ group' = IF d.status = "CANCEL"
                    THEN [group EXCEPT ![g].status = "REJECT"] ELSE group
        /\ \/ req[h].paid /\ req'[h].pc = "complete" /\ req'[h].g = g
           \/ req'[h].pc \in {"noti", "find"}
    BY <1>5, AdminWriteOrderMove, DtoHeld
  <2>2. order[g].status # "none"
    BY <2>1 DEF TypeInv, RequestsFit, Fit, OrderLabels, Ordered, At
  <2>3. /\ order[g].status # "NOT_CHECKOUT" => order'[g].status # "NOT_CHECKOUT"
        /\ order'[g].status # "none"
        /\ order'[g].status = "NOT_CHECKOUT" => d.status # "CANCEL"
        /\ req[h].paid => order'[g].status = "PAID"
    <3>1. d.status \in OrderStatus \cup {None} /\ d.status # "NOT_CHECKOUT"
      BY DtoType, DtoHeld DEF TypeInv, TypeOK, Request, AdminDto
    <3> QED
      BY <2>1, <2>2, <3>1, NoneAssumption DEF NewStatus, OrderStatus
  <2>4. \A k \in Groups : /\ group'[k].table = group[k].table
                          /\ group'[k].status = IF k = g /\ d.status = "CANCEL"
                                  THEN "REJECT" ELSE group[k].status
    BY <2>1 DEF TypeInv, TypeOK, GroupRow
  <2>5. \A k \in Groups : Own(k)'
    BY <2>1, <2>2, <2>3, <2>4 DEF OwnSession, Own
  <2>6. SessionsSettled
    BY <2>1, <2>3, <2>4 DEF SessionsSettled, Existing
  <2> QED
    BY <2>1, <2>3, <2>5, <2>6, OwnKept
<1>6. CASE CompleteSession(h)
  <2>1. /\ OwnFits(req[h]) /\ Others(h) /\ UNCHANGED order /\ At(h, "complete")
        /\ req'[h].pc = "noti"
        /\ group' = [group EXCEPT ![req[h].g].status = "COMPLETED"]
    BY <1>6, CompleteSessionMove DEF OwnSession
  <2>2. req[h].g \in Groups /\ order[req[h].g].status \notin {"none", "NOT_CHECKOUT"}
    BY <2>1, SessionFit DEF At, TypeInv, SessionLabels, OrderLabels
  <2>3. \A k \in Groups : /\ group'[k].table = group[k].table
                          /\ k # req[h].g => group'[k] = group[k]
    BY <2>1 DEF TypeInv, TypeOK, GroupRow
  <2>4. \A k \in Groups : Own(k)'
    BY <2>1, <2>2, <2>3 DEF OwnSession, Own
  <2>5. SessionsSettled
    BY <2>1, <2>3 DEF SessionsSettled, Existing
  <2> QED
    BY <2>1, <2>4, <2>5, OwnKept
<1>7. CASE CancelDeleteBill(h) \/ CancelReopenOrder(h)
  BY <1>7, CancelDeleteBillMove, CancelReopenOrderMove DEF OwnSession, At
<1> QED
  BY <1>1, <1>2, <1>3, <1>4, <1>5, <1>6, <1>7

\* and the rest; so every step keeps it.
LEMMA OwnStep ==
  ASSUME TypeInv, OwnSession, NothingIsUndone, [Next]_vars
  PROVE  OwnSession'
<1>1. ASSUME NEW h \in Handlers, Arrive(h)
      PROVE  OwnSession'
  BY <1>1, OwnArrives
<1>2. ASSUME NEW h \in Handlers, Continue(h)
      PROVE  OwnSession'
  <2>1. CASE \/ ExpelReadClient(h) \/ ExpelWriteCart(h) \/ ExpelReadFoods(h)
             \/ ExpelDeleteFood(h) \/ ExpelDeleteClient(h)
    BY <2>1, ExpelMove, OwnRead, OwnKept
       DEF OwnFits, UndoLabels, WriteLabels, ExpelLabels
  <2>2. CASE \/ RejectReadOrder(h) \/ RejectReadFoods(h) \/ RejectFood(h)
             \/ RejectSession(h)
    BY <2>2, RejectReads, RejectFoodMove, RejectSessionMove
       DEF OwnSession, OwnFits, UndoLabels, At
  <2> QED
    BY <1>2, <2>1, <2>2, OwnGuests, OwnOrders, OwnWaiter DEF Continue
<1>3. CASE Crash
  <2>1. UNCHANGED <<group, order>> /\ \A h \in Handlers : req'[h] = Idle
    BY <1>3 DEF Crash, rows
  <2>2. \A h \in Handlers : OwnFits(req[h])'
    BY <2>1, IdleFields DEF OwnFits, UndoLabels, WriteLabels
  <2> QED
    BY <2>1, <2>2, OwnRead DEF OwnSession
<1>4. CASE UNCHANGED vars
  BY <1>4, OwnRead DEF OwnSession, OwnFits, vars, rows
<1> QED
  BY <1>1, <1>2, <1>3, <1>4 DEF Next, Rest

\* At the start there is no order and no session.
LEMMA OwnInit == Init => OwnSession
BY IdleFields, NoneAssumption
   DEF Init, OwnSession, Own, OwnFits, UndoLabels, WriteLabels, NoGroup, NoOrder

\* The invariant gives the property.
LEMMA OwnGives ==
  ASSUME OwnSession
  PROVE  OpenOrderHasSession
BY DEF OwnSession, Own, OpenOrderHasSession, OpenOrders, InProgress

\* A table with an order that is not checked out has a session, with any number
\* of requests at a time and a server that may stop and start again.
THEOREM OpenOrdersHaveSessions ==
  ASSUME NothingIsUndone
  PROVE  Spec => []OpenOrderHasSession
<1>1. Init => OwnSession
  BY OwnInit
<1>2. TypeInv /\ OwnSession /\ [Next]_vars => OwnSession'
  BY OwnStep
<1>3. OwnSession => OpenOrderHasSession
  BY OwnGives
<1>4. Spec => []TypeInv
  BY InvariantHolds
<1> QED
  BY <1>1, <1>2, <1>3, <1>4, PTL DEF Spec

----------------------------------------------------------------------------
\* The bound on open sessions.

\* The requests that found no session of table t and are about to create one.
Creating(t) == {h \in Handlers : At(h, "createGroup") /\ req[h].t = t}

NoNewCreator ==
  \A k \in Handlers : req'[k].pc = "createGroup" => req'[k] = req[k]

\* A request that moves to another place than createGroup creates nothing.
LEMMA MoveOn ==
  ASSUME TypeOK, NEW h \in Handlers, NEW r, req' = [req EXCEPT ![h] = r],
         r.pc # "createGroup"
  PROVE  NoNewCreator
BY DEF TypeOK, NoNewCreator

\* A reply brings no request to createGroup.
LEMMA AnswerOn ==
  ASSUME TypeOK, NEW h \in Handlers, Answer(h)
  PROVE  NoNewCreator
<1>1. Idle.pc # "createGroup"
  BY DEF Idle
<1> QED
  BY <1>1, MoveOn DEF Answer

\* Nor does a move to another place,
LEMMA GotoOn ==
  ASSUME TypeOK, NEW h \in Handlers, NEW l, l # "createGroup", Goto(h, l)
  PROVE  NoNewCreator
<1>1. [req[h] EXCEPT !.pc = l].pc # "createGroup"
  BY DEF TypeOK, Request
<1> QED
  BY <1>1, MoveOn DEF Goto

\* nor a call of getCurrentClientGroupOrNew,
LEMMA CallOn ==
  ASSUME TypeOK, NEW h \in Handlers, NEW t, NEW l, Call(h, t, l)
  PROVE  NoNewCreator
<1>1. [req[h] EXCEPT !.pc = "find", !.ret = l, !.t = t].pc # "createGroup"
  BY DEF TypeOK, Request
<1> QED
  BY <1>1, MoveOn DEF Call

\* nor its return.
LEMMA ReturnOn ==
  ASSUME TypeOK, NEW h \in Handlers, NEW g, NEW c, Return(h, g, c),
         req[h].ret # "createGroup"
  PROVE  NoNewCreator
<1>1. \A k : [req[h] EXCEPT !.pc = req[h].ret, !.g = g, !.cart = k].pc
               # "createGroup"
  BY DEF TypeOK, Request
<1> QED
  BY ZenonT(40), <1>1, MoveOn DEF Return

\* A message becomes a request at another place.
LEMMA ArriveOn ==
  ASSUME TypeOK, NEW h \in Handlers, Arrive(h)
  PROVE  NoNewCreator
<1>1. req \in [Handlers -> Request]
  BY DEF TypeOK
<1>2. CASE JoinTable(h)
  BY <1>1, <1>2 DEF JoinTable, Accept, Idle, NoNewCreator
<1>3. CASE LeaveTable(h)
  BY <1>1, <1>3 DEF LeaveTable, Accept, Idle, NoNewCreator
<1>4. CASE Disconnect(h)
  BY <1>1, <1>4 DEF Disconnect, Accept, Idle, NoNewCreator
<1>5. CASE SelectFood(h)
  BY <1>1, <1>5 DEF SelectFood, Accept, Idle, NoNewCreator
<1>6. CASE DeselectFood(h)
  BY <1>1, <1>6 DEF DeselectFood, Accept, Idle, NoNewCreator
<1>7. CASE CreateOrder(h)
  BY <1>1, <1>7 DEF CreateOrder, Accept, Idle, NoNewCreator
<1>8. CASE UpdateOrder(h)
  BY <1>1, <1>8 DEF UpdateOrder, Accept, Idle, NoNewCreator
<1>9. CASE AdminUpdateClientOrder(h)
  BY <1>1, <1>9 DEF AdminUpdateClientOrder, Accept, Idle, NoNewCreator
<1>10. CASE AdminDeleteClientList(h)
  <2>1. PICK g, d, c, task :
          req' = [req EXCEPT
                    ![h] = [Idle EXCEPT !.pc = "adminRead", !.g = g, !.dto = d],
                    ![task] = [Idle EXCEPT !.pc = "expelRead", !.c = c]]
    BY <1>10 DEF AdminDeleteClientList
  <2>2. /\ [Idle EXCEPT !.pc = "adminRead", !.g = g, !.dto = d].pc # "createGroup"
        /\ [Idle EXCEPT !.pc = "expelRead", !.c = c].pc # "createGroup"
    BY DEF Idle
  <2> QED
    BY <1>1, <2>1, <2>2 DEF NoNewCreator
<1>11. CASE WsClearTable(h)
  BY <1>1, <1>11 DEF WsClearTable, Accept, Idle, NoNewCreator
<1>12. CASE ClearTable(h)
  BY <1>1, <1>12 DEF ClearTable, Accept, Idle, NoNewCreator
<1>13. CASE DeleteClientIdInFoodOrder(h)
  BY <1>1, <1>13 DEF DeleteClientIdInFoodOrder, Accept, Idle, NoNewCreator
<1> QED
  BY <1>2, <1>3, <1>4, <1>5, <1>6, <1>7, <1>8, <1>9, <1>10, <1>11, <1>12, <1>13
     DEF Arrive

\* Of the awaited calls only the look-up of a session leads to its creation, and
\* only when the table has none.
LEMMA ContinueOn ==
  ASSUME TypeInv, NEW h \in Handlers, Continue(h)
  PROVE  \/ NoNewCreator
         \/ /\ FindSession(h)
            /\ InProgress(req[h].t) = {}
            /\ Goto(h, "createGroup")
<1>1. TypeOK /\ req \in [Handlers -> Request] /\ req[h] \in Request
  BY DEF TypeInv, TypeOK
<1>2. CASE FindSession(h)
  <2>1. req[h].ret # "createGroup"
    BY <1>2 DEF TypeInv, RequestsFit, Fit, FindSession, At, ReturnLabels
  <2>2. \/ \E g, c : Return(h, g, c)
        \/ InProgress(req[h].t) = {} /\ Goto(h, "createGroup")
    BY <1>2 DEF FindSession
  <2> QED
    BY <1>1, <1>2, <2>1, <2>2, ReturnOn
<1>3. CASE CreateSession(h)
  <2>1. req[h].ret # "createGroup"
    BY <1>3 DEF TypeInv, RequestsFit, Fit, CreateSession, At, ReturnLabels
  <2>2. \E g, c : Return(h, g, c)
    BY <1>3 DEF CreateSession
  <2> QED
    BY <1>1, <2>1, <2>2, ReturnOn
<1>4. CASE Notify(h)
  BY <1>1, <1>4, AnswerOn DEF Notify
<1>5. CASE CheckUsername(h)
  BY <1>1, <1>5, AnswerOn, GotoOn DEF CheckUsername
<1>6. CASE FindClient(h)
  BY <1>1, <1>6, GotoOn DEF FindClient
<1>7. CASE CreateClient(h)
  BY <1>1, <1>7, CallOn DEF CreateClient
<1>8. CASE Reconnect(h)
  BY <1>1, <1>8, AnswerOn, CallOn DEF Reconnect
<1>9. CASE LeaveReadFoods(h)
  <2> DEFINE new(c) == [req[h] EXCEPT !.pc = "deleteClient", !.c = c]
  <2>1. \A c : new(c).pc # "createGroup"
    BY <1>1 DEF Request
  <2>2. Answer(h) \/ \E c : req' = [req EXCEPT ![h] = new(c)]
    BY <1>9 DEF LeaveReadFoods
  <2> HIDE DEF new
  <2> QED
    BY <1>1, <2>1, <2>2, AnswerOn, MoveOn
<1>10. CASE LeaveDeleteClient(h)
  BY <1>1, <1>10, AnswerOn, GotoOn DEF LeaveDeleteClient
<1>11. CASE GoOffline(h)
  BY <1>1, <1>11, AnswerOn, GotoOn DEF GoOffline
<1>12. CASE SelectReadBill(h)
  BY <1>1, <1>12, AnswerOn, GotoOn DEF SelectReadBill
<1>13. CASE SelectPush(h)
  BY <1>1, <1>13, GotoOn DEF SelectPush
<1>14. CASE DeselectReadBill(h)
  BY <1>1, <1>14, AnswerOn, GotoOn DEF DeselectReadBill
<1>15. CASE DeselectWrite(h)
  <2> DEFINE new(i) == [req[h] EXCEPT !.pc = "noti", !.cart = <<>>,
                                      !.item = i]
  <2>1. \A i : new(i).pc # "createGroup"
    BY <1>1 DEF Request
  <2>2. Answer(h) \/ \E i : req' = [req EXCEPT ![h] = new(i)]
    BY <1>15 DEF DeselectWrite
  <2> HIDE DEF new
  <2> QED
    BY <1>1, <2>1, <2>2, AnswerOn, MoveOn
<1>16. CASE OrderReadGroup(h)
  BY <1>1, <1>16, AnswerOn, GotoOn DEF OrderReadGroup
<1>17. CASE InsertOrder(h)
  <2> DEFINE new(c) == [req[h] EXCEPT !.pc = "clearCart", !.cart = c]
  <2>1. \A c : new(c).pc # "createGroup"
    BY <1>1 DEF Request
  <2>2. Answer(h) \/ \E c : req' = [req EXCEPT ![h] = new(c)]
    BY <1>17 DEF InsertOrder
  <2> HIDE DEF new
  <2> QED
    BY <1>1, <2>1, <2>2, AnswerOn, MoveOn
<1>18. CASE ClearCart(h)
  BY <1>1, <1>18, GotoOn DEF ClearCart
<1>19. CASE SetBillMethod(h)
  BY <1>1, <1>19, AnswerOn, GotoOn DEF SetBillMethod
<1>20. CASE UpdateWrite(h)
  <2> DEFINE new(c) == [req[h] EXCEPT !.pc = "clearCart", !.cart = c]
  <2>1. \A c : new(c).pc # "createGroup"
    BY <1>1 DEF Request
  <2>2. Answer(h) \/ \E c : req' = [req EXCEPT ![h] = new(c)]
    BY <1>20 DEF UpdateWrite
  <2> HIDE DEF new
  <2> QED
    BY <1>1, <2>1, <2>2, AnswerOn, MoveOn
<1>21. CASE FoodWrite(h)
  <2> DEFINE new(F) == [req[h] EXCEPT !.pc = "adminRead", !.foods = F]
  <2>1. \A F : new(F).pc # "createGroup"
    BY <1>1 DEF Request
  <2>2. Answer(h) \/ \E F : req' = [req EXCEPT ![h] = new(F)]
    BY <1>21 DEF FoodWrite
  <2> HIDE DEF new
  <2> QED
    BY <1>1, <2>1, <2>2, AnswerOn, MoveOn
<1>22. CASE AdminReadOrder(h)
  <2> DEFINE new(b, F) == [req[h] EXCEPT !.pc = AfterLists(req[h].dto),
                                         !.flag = b, !.foods = F]
  <2>1. \A b, F : new(b, F).pc # "createGroup"
    BY SMTT(30), <1>1 DEF Request, AfterLists
  <2>2. Answer(h) \/ \E b, F : req' = [req EXCEPT ![h] = new(b, F)]
    BY <1>22 DEF AdminReadOrder
  <2> HIDE DEF new
  <2> QED
    BY <1>1, <2>1, <2>2, AnswerOn, MoveOn
<1>23. CASE CreateBill(h)
  <2> DEFINE new(p) == [req[h] EXCEPT !.pc = p, !.foods = {}]
  <2>1. \A p \in {"setBill", "adminWrite"} : new(p).pc # "createGroup"
    BY <1>1 DEF Request
  <2>2. Answer(h) \/ \E p \in {"setBill", "adminWrite"} :
          req' = [req EXCEPT ![h] = new(p)]
    BY <1>23 DEF CreateBill
  <2> HIDE DEF new
  <2> QED
    BY <1>1, <2>1, <2>2, AnswerOn, MoveOn
<1>24. CASE SetBill(h)
  <2> DEFINE new(b) == [req[h] EXCEPT !.pc = "adminWrite", !.paid = b]
  <2>1. \A b : new(b).pc # "createGroup"
    BY <1>1 DEF Request
  <2>2. Answer(h) \/ \E b : req' = [req EXCEPT ![h] = new(b)]
    BY <1>24 DEF SetBill
  <2> HIDE DEF new
  <2> QED
    BY <1>1, <2>1, <2>2, AnswerOn, MoveOn
<1>25. CASE AdminWriteOrder(h)
  BY <1>1, <1>25, GotoOn, CallOn DEF AdminWriteOrder
<1>26. CASE CompleteSession(h)
  BY <1>1, <1>26, GotoOn DEF CompleteSession
<1>27. CASE CancelDeleteBill(h)
  BY <1>1, <1>27 DEF CancelDeleteBill, Idle, Request, NoNewCreator
<1>28. CASE CancelReopenOrder(h)
  <2> DEFINE new(p, t) == [req[h] EXCEPT !.pc = p, !.ret = "noti", !.t = t]
  <2>1. \A p \in {"cancelBill", "find"} : \A t : new(p, t).pc # "createGroup"
    BY <1>1 DEF Request
  <2>2. Answer(h) \/ \E p \in {"cancelBill", "find"} : \E t :
          req' = [req EXCEPT ![h] = new(p, t)]
    BY <1>28 DEF CancelReopenOrder, Answer
  <2> HIDE DEF new
  <2> QED
    BY <1>1, <2>1, <2>2, AnswerOn, MoveOn
<1>29. CASE ExpelReadClient(h)
  <2> DEFINE new(p, g, c) == [req[h] EXCEPT !.pc = p, !.g = g, !.cart = c]
  <2>1. \A p \in {"expelCart", "expelFoods"} : \A g, c : new(p, g, c).pc # "createGroup"
    BY <1>1 DEF Request
  <2>2. Answer(h) \/ \E p \in {"expelCart", "expelFoods"} : \E g, c :
          req' = [req EXCEPT ![h] = new(p, g, c)]
    BY <1>29 DEF ExpelReadClient
  <2> HIDE DEF new
  <2> QED
    BY <1>1, <2>1, <2>2, AnswerOn, MoveOn
<1>30. CASE ExpelWriteCart(h)
  BY <1>1, <1>30 DEF ExpelWriteCart, At, Request, NoNewCreator
<1>31. CASE ExpelReadFoods(h)
  BY <1>1, <1>31 DEF ExpelReadFoods, At, Request, NoNewCreator
<1>32. CASE ExpelDeleteFood(h)
  BY <1>1, <1>32 DEF ExpelDeleteFood, At, Request, NoNewCreator
<1>33. CASE ExpelDeleteClient(h)
  BY <1>1, <1>33, AnswerOn DEF ExpelDeleteClient
<1>34. CASE RejectReadOrder(h)
  BY <1>1, <1>34 DEF RejectReadOrder, At, Request, NoNewCreator
<1>35. CASE RejectReadFoods(h)
  BY <1>1, <1>35 DEF RejectReadFoods, At, Request, NoNewCreator
<1>36. CASE RejectFood(h)
  BY <1>1, <1>36 DEF RejectFood, At, Idle, Request, NoNewCreator
<1>37. CASE RejectSession(h)
  BY <1>1, <1>37, AnswerOn DEF RejectSession
<1> QED
  BY <1>2, <1>3, <1>4, <1>5, <1>6, <1>7, <1>8, <1>9, <1>10, <1>11, <1>12,
     <1>13, <1>14, <1>15, <1>16, <1>17, <1>18, <1>19, <1>20, <1>21, <1>22,
     <1>23, <1>24, <1>25, <1>26, <1>27, <1>28, <1>29, <1>30, <1>31, <1>32,
     <1>33, <1>34, <1>35, <1>36, <1>37
     DEF Continue

\* The open sessions of a table that no waiter opened again.
Original(t) == InProgress(t) \ Reopened

\* Such a session takes one of the Handlers, the one that created it or will,
\* so many that the table's requests about to create one still have room.
Bounded ==
  \A t \in Tables :
    /\ IsFiniteSet(Original(t))
    /\ Cardinality(Original(t)) + Cardinality(Creating(t)) <= Cardinality(Handlers)

\* The requests that are about to create a session are some of the handlers.
LEMMA CreatingFinite ==
  ASSUME NEW t
  PROVE  /\ IsFiniteSet(Creating(t)) /\ Cardinality(Creating(t)) \in Nat
         /\ Cardinality(Creating(t)) <= Cardinality(Handlers)
         /\ Cardinality(Handlers) \in Nat
<1>1. Creating(t) \in SUBSET Handlers
  BY DEF Creating
<1> QED
  BY <1>1, HandlersAssumption, FS_Subset, FS_CardinalityType

\* A step after which a table has no new session and no new creator.
LEMMA BoundShrinks ==
  ASSUME NEW S, IsFiniteSet(S), NEW T \in SUBSET S,
         NEW C, IsFiniteSet(C), NEW D \in SUBSET C, NEW n \in Nat,
         Cardinality(S) + Cardinality(C) <= n
  PROVE  IsFiniteSet(T) /\ Cardinality(T) + Cardinality(D) <= n
<1>1. /\ IsFiniteSet(T) /\ Cardinality(T) <= Cardinality(S)
      /\ IsFiniteSet(D) /\ Cardinality(D) <= Cardinality(C)
  BY FS_Subset
<1>2. /\ Cardinality(S) \in Nat /\ Cardinality(T) \in Nat
      /\ Cardinality(C) \in Nat /\ Cardinality(D) \in Nat
  BY <1>1, FS_CardinalityType
<1> QED
  BY <1>1, <1>2

\* The creator becomes the session.
LEMMA BoundMoves ==
  ASSUME NEW S, IsFiniteSet(S), NEW g,
         NEW C, IsFiniteSet(C), NEW h \in C, NEW D \in SUBSET (C \ {h}),
         NEW n \in Nat, Cardinality(S) + Cardinality(C) <= n
  PROVE  IsFiniteSet(S \cup {g}) /\ Cardinality(S \cup {g}) + Cardinality(D) <= n
<1>1. IsFiniteSet(S \cup {g}) /\ Cardinality(S \cup {g}) <= Cardinality(S) + 1
  <2>1. Cardinality(S) \in Nat
    BY FS_CardinalityType
  <2>2. /\ IsFiniteSet(S \cup {g})
        /\ Cardinality(S \cup {g}) = IF g \in S THEN Cardinality(S)
                                               ELSE Cardinality(S) + 1
    BY FS_AddElement
  <2> QED
    BY <2>1, <2>2
<1>2. IsFiniteSet(C \ {h}) /\ Cardinality(C \ {h}) = Cardinality(C) - 1
  BY FS_RemoveElement
<1>3. IsFiniteSet(D) /\ Cardinality(D) <= Cardinality(C \ {h})
  BY <1>2, FS_Subset
<1>4. /\ Cardinality(S) \in Nat /\ Cardinality(S \cup {g}) \in Nat
      /\ Cardinality(C) \in Nat /\ Cardinality(D) \in Nat
  BY <1>1, <1>3, FS_CardinalityType
<1> QED
  BY <1>1, <1>2, <1>3, <1>4

\* A creation adds a session and takes away a request about to create one.
LEMMA CreateBound ==
  ASSUME TypeInv, Bounded, NEW h \in Handlers, CreateSession(h)
  PROVE  Bounded'
<1>1. PICK g \in Groups \ Existing :
        /\ \A k \in Groups \ {g} : group'[k] = group[k]
        /\ group'[g].status = "IN_PROGRESS"
        /\ group'[g].table = req[h].t
        /\ ~group'[g].reopened
  BY CreateStep
<1>2. \A k \in Handlers \ {h} : req'[k] = req[k]
  BY DEF CreateSession, Return, TypeInv, TypeOK
<1>3. req'[h].pc # "createGroup"
  <2>1. req[h] \in Request /\ h \in DOMAIN req
    BY DEF TypeInv, TypeOK
  <2>2. req[h].ret # "createGroup"
    BY DEF TypeInv, RequestsFit, Fit, CreateSession, At, ReturnLabels
  <2>3. PICK k, c : req' = [req EXCEPT ![h] =
                              [req[h] EXCEPT !.pc = req[h].ret, !.g = k, !.cart = c]]
    BY DEF CreateSession, Return
  <2>4. [req[h] EXCEPT !.pc = req[h].ret, !.g = k, !.cart = c].pc = req[h].ret
    BY <2>1 DEF Request
  <2> QED
    BY <2>1, <2>2, <2>3, <2>4
<1> SUFFICES ASSUME NEW t \in Tables
             PROVE  /\ IsFiniteSet(Original(t)')
                    /\ Cardinality(Original(t)') + Cardinality(Creating(t)')
                         <= Cardinality(Handlers)
  BY DEF Bounded
<1>4. /\ IsFiniteSet(Original(t))
      /\ Cardinality(Original(t)) + Cardinality(Creating(t)) <= Cardinality(Handlers)
      /\ IsFiniteSet(Creating(t)) /\ Cardinality(Handlers) \in Nat
  BY CreatingFinite DEF Bounded
<1>5. CASE t = req[h].t
  <2>1. Original(t)' = Original(t) \cup {g}
    BY <1>1, <1>5 DEF Original, InProgress, Reopened
  <2>2. h \in Creating(t)
    BY <1>5, CreateStep DEF Creating
  <2>3. Creating(t)' \in SUBSET (Creating(t) \ {h})
    BY <1>2, <1>3 DEF Creating, At
  <2>4. /\ IsFiniteSet(Original(t) \cup {g})
        /\ Cardinality(Original(t) \cup {g}) + Cardinality(Creating(t)')
             <= Cardinality(Handlers)
    BY <1>4, <2>2, <2>3, BoundMoves
  <2> QED
    BY <2>1, <2>4
<1>6. CASE t # req[h].t
  <2>1. Original(t)' \in SUBSET Original(t)
    BY <1>1, <1>6 DEF Original, InProgress, Reopened
  <2>2. Creating(t)' \in SUBSET Creating(t)
    BY <1>2, <1>3 DEF Creating, At
  <2> QED
    BY <1>4, <2>1, <2>2, BoundShrinks
<1> QED
  BY <1>5, <1>6

\* Every other step keeps the bound: a request gets ready to create a session
\* of a table only when it finds the table without one.
LEMMA OtherBound ==
  ASSUME TypeInv, Bounded, [Next]_vars, ~ \E h \in Handlers : CreateSession(h)
  PROVE  Bounded'
<1>1. \A t : Original(t)' \in SUBSET Original(t)
  <2> SUFFICES ASSUME NEW t PROVE Original(t)' \in SUBSET Original(t)
    OBVIOUS
  <2>1. CASE ClosesAtMostOne
    BY <2>1 DEF ClosesAtMostOne, Original, InProgress, Reopened, Closed
  <2>2. CASE ReopensOne
    BY <2>2 DEF ReopensOne, Original, InProgress, Reopened
  <2> QED
    BY <2>1, <2>2, SessionStep
<1>2. NoNewCreator \/ \E h \in Handlers : /\ FindSession(h)
                                          /\ InProgress(req[h].t) = {}
                                          /\ Goto(h, "createGroup")
  <2>1. ASSUME NEW h \in Handlers, Arrive(h) PROVE NoNewCreator
    BY <2>1, ArriveOn DEF TypeInv
  <2>2. CASE Crash
    BY <2>2 DEF Crash, NoNewCreator, Idle
  <2>3. CASE Rest \/ UNCHANGED vars
    BY <2>3 DEF Rest, vars, NoNewCreator
  <2> QED
    BY <2>1, <2>2, <2>3, ContinueOn DEF Next
<1> SUFFICES ASSUME NEW t \in Tables
             PROVE  /\ IsFiniteSet(Original(t)')
                    /\ Cardinality(Original(t)') + Cardinality(Creating(t)')
                         <= Cardinality(Handlers)
  BY DEF Bounded
<1>3. /\ IsFiniteSet(Original(t))
      /\ Cardinality(Original(t)) + Cardinality(Creating(t)) <= Cardinality(Handlers)
      /\ IsFiniteSet(Creating(t)) /\ Cardinality(Handlers) \in Nat
  BY CreatingFinite DEF Bounded
<1>4. CASE Creating(t)' \in SUBSET Creating(t)
  BY <1>1, <1>3, <1>4, BoundShrinks
<1>5. CASE Original(t) = {}
  <2>1. Original(t)' = {}
    BY <1>1, <1>5
  <2>2. /\ Cardinality(Creating(t)') \in Nat
        /\ Cardinality(Creating(t)') <= Cardinality(Handlers)
    <3>1. Creating(t)' \in SUBSET Handlers
      BY DEF Creating
    <3> QED
      BY <3>1, HandlersAssumption, FS_Subset, FS_CardinalityType
  <2> QED
    BY <2>1, <2>2, FS_EmptySet
<1>6. CASE NoNewCreator
  BY <1>4, <1>6 DEF NoNewCreator, Creating, At
<1>7. CASE \E h \in Handlers : /\ FindSession(h)
                               /\ InProgress(req[h].t) = {}
                               /\ Goto(h, "createGroup")
  <2>1. PICK h \in Handlers : InProgress(req[h].t) = {} /\ Goto(h, "createGroup")
    BY <1>7
  <2>2. req[h] \in Request /\ req \in [Handlers -> Request]
    BY DEF TypeInv, TypeOK
  <2>3. \A k \in Handlers \ {h} : req'[k] = req[k]
    BY <2>1, <2>2 DEF Goto
  <2>4. req'[h].t = req[h].t
    BY <2>1, <2>2 DEF Goto, Request
  <2>5. CASE t = req[h].t
    BY <1>5, <2>1, <2>5 DEF Original
  <2>6. CASE t # req[h].t
    <3>1. Creating(t)' \in SUBSET Creating(t)
      BY <2>3, <2>4, <2>6 DEF Creating, At
    <3> QED
      BY <1>4, <3>1
  <2> QED
    BY <2>5, <2>6
<1> QED
  BY <1>2, <1>6, <1>7

\* Open sessions that were not opened again, and requests about to create one, are
\* never more than Handlers.
LEMMA BoundedHolds == Spec => []Bounded
<1>1. Init => Bounded
  <2> SUFFICES ASSUME Init, NEW t \in Tables
               PROVE  /\ IsFiniteSet(Original(t))
                      /\ Cardinality(Original(t)) + Cardinality(Creating(t))
                           <= Cardinality(Handlers)
    BY DEF Bounded
  <2>1. Original(t) = {}
    BY DEF Init, Original, InProgress, NoGroup
  <2> QED
    BY <2>1, CreatingFinite, FS_EmptySet
<1>2. TypeInv /\ Bounded /\ [Next]_vars => Bounded'
  BY CreateBound, OtherBound
<1> QED
  BY <1>1, <1>2, InvariantHolds, PTL DEF Spec

\* Apart from those a waiter opened again, a table never has more sessions open
\* than the server works on requests at the same time, however many guests join
\* it: the look-up and the creation in getCurrentClientGroupOrNew are two database
\* calls, and only requests between them can add a second session.
THEOREM SessionsAreBounded == Spec => []SessionsBounded
<1>1. Bounded => SessionsBounded
  <2> SUFFICES ASSUME Bounded, NEW t \in Tables
               PROVE  Cardinality(Original(t)) <= Cardinality(Handlers)
    BY DEF SessionsBounded, Original
  <2>1. /\ IsFiniteSet(Original(t))
        /\ Cardinality(Original(t)) + Cardinality(Creating(t))
             <= Cardinality(Handlers)
    BY DEF Bounded
  <2>2. Cardinality(Original(t)) \in Nat
    BY <2>1, FS_CardinalityType
  <2> QED
    BY <2>1, <2>2, CreatingFinite
<1> QED
  BY <1>1, BoundedHolds, PTL

----------------------------------------------------------------------------
\* The sessions of the rows implement TableSessions.

openBar     == [t \in Tables |-> InProgress(t)]
closedBar   == [t \in Tables |-> Over(t)]
reopenedBar == Reopened

\* Only a row that exists was opened again.
LEMMA ReopenedExists ==
  Spec => [](Reopened \subseteq Existing)
<1>1. Init => Reopened \subseteq Existing
  BY DEF Init, Reopened, NoGroup
<1>2. ASSUME TypeInv, Reopened \subseteq Existing, [Next]_vars
      PROVE  (Reopened \subseteq Existing)'
  <2>1. CASE \E h \in Handlers : CreateSession(h)
    BY <1>2, <2>1, CreateStep DEF Reopened, Existing
  <2>2. CASE ClosesAtMostOne
    BY <1>2, <2>2 DEF ClosesAtMostOne, Reopened, Existing, Closed
  <2>3. CASE ReopensOne
    BY <1>2, <2>3 DEF ReopensOne, Reopened, Existing
  <2> QED
    BY <1>2, <2>1, <2>2, <2>3, SessionStep
<1> QED
  BY <1>1, <1>2, InvariantHolds, PTL DEF Spec

\* An empty restaurant is an initial state of TableSessions.
LEMMA InitRefines == Init => Promise!Init
<1> SUFFICES ASSUME Init PROVE Promise!Init
  OBVIOUS
<1>1. \A t : InProgress(t) = {}
  BY DEF Init, InProgress, NoGroup
<1>2. \A t : Over(t) = {}
  BY DEF Init, NoGroup, Over
<1>3. Reopened = {}
  BY DEF Init, NoGroup, Reopened
<1> QED
  BY <1>1, <1>2, <1>3 DEF Promise!Init

\* CreateSession is an Open step of TableSessions.
LEMMA CreateRefines ==
  ASSUME TypeInv, Bounded, Reopened \subseteq Existing,
         NEW h \in Handlers, CreateSession(h)
  PROVE  Promise!Next
<1> DEFINE t == req[h].t
<1>1. PICK g \in Groups \ Existing :
        /\ \A k \in Groups \ {g} : group'[k] = group[k]
        /\ group'[g].status = "IN_PROGRESS"
        /\ group'[g].table = t
        /\ ~group'[g].reopened
  BY CreateStep
<1>2. t \in Tables /\ h \in Creating(t)
  BY CreateStep DEF Creating
<1>3. Cardinality(InProgress(t) \ Reopened) < Cardinality(Handlers)
  <2>1. /\ IsFiniteSet(Original(t))
        /\ Cardinality(Original(t)) + Cardinality(Creating(t))
             <= Cardinality(Handlers)
    BY <1>2 DEF Bounded
  <2>2. Cardinality(Creating(t)) # 0
    BY <1>2, CreatingFinite, FS_EmptySet
  <2>3. Cardinality(Original(t)) \in Nat
    BY <2>1, FS_CardinalityType
  <2> HIDE DEF t
  <2>4. Cardinality(Original(t)) < Cardinality(Handlers)
    BY <2>1, <2>2, <2>3, CreatingFinite
  <2> QED
    BY <2>4 DEF Original
<1>4. group[g].status = "none"
  BY DEF Existing
<1>5. \A u \in Tables : g \notin InProgress(u)
  BY <1>4 DEF InProgress
<1>6. \A u \in Tables : InProgress(u)' = IF u = t THEN InProgress(u) \cup {g}
                                         ELSE InProgress(u)
  BY <1>1, <1>5 DEF InProgress
<1>7. openBar' = [openBar EXCEPT ![t] = @ \cup {g}]
  BY <1>2, <1>6 DEF openBar
<1>8. \A u \in Tables : Over(u)' = Over(u) /\ g \notin Over(u)
  BY <1>1, <1>4 DEF Over
<1>9. closedBar' = closedBar /\ reopenedBar' = reopenedBar
  BY <1>1, <1>8 DEF closedBar, reopenedBar, Reopened
<1>10. /\ \A u \in Tables : g \notin openBar[u] \cup closedBar[u]
       /\ Cardinality(openBar[t] \ reopenedBar) < Cardinality(Handlers)
  BY <1>2, <1>3, <1>5, <1>8 DEF openBar, closedBar, reopenedBar
<1>11. \A S : Promise!Cardinality(S) = Cardinality(S)
  BY DEF Promise!Cardinality, Cardinality
<1>12. Promise!Open(t, g)
  BY <1>7, <1>9, <1>10, <1>11
     DEF Promise!Open, openBar, closedBar, reopenedBar
<1> QED
  BY <1>2, <1>12 DEF Promise!Next

\* A step that closes at most one session is a Close step of TableSessions or none.
LEMMA OtherRefines ==
  ASSUME TypeInv, ClosesAtMostOne
  PROVE  Promise!Next \/ UNCHANGED <<openBar, closedBar, reopenedBar>>
<1>0. reopenedBar' = reopenedBar
  BY DEF ClosesAtMostOne, reopenedBar, Reopened
<1>1. CASE \A g \in Groups : group'[g].status = group[g].status
  BY <1>0, <1>1 DEF ClosesAtMostOne, openBar, closedBar, InProgress, Over
<1>2. ASSUME NEW k \in Existing, group'[k].status \in Closed,
             \A g \in Groups \ {k} : group'[g].status = group[g].status
      PROVE  Promise!Next \/ UNCHANGED <<openBar, closedBar, reopenedBar>>
  <2> DEFINE t == group[k].table
  <2>1. k \in Groups /\ t \in Tables
    BY DEF TypeInv, RowsFit, Existing
  <2>2. \A g \in Groups : group'[g].table = group[g].table
    BY DEF ClosesAtMostOne
  <2>3. CASE group[k].status = "IN_PROGRESS"
    <3>1. k \in InProgress(t)
      BY <2>1, <2>3 DEF InProgress
    <3>2. \A u \in Tables : InProgress(u)' = IF u = t THEN InProgress(u) \ {k}
                                             ELSE InProgress(u)
      BY <1>2, <2>1, <2>2 DEF InProgress, Closed
    <3>3. openBar' = [openBar EXCEPT ![t] = @ \ {k}]
      BY <2>1, <3>2 DEF openBar
    <3>6. \A u \in Tables : Over(u)' = IF u = t THEN Over(u) \cup {k}
                                       ELSE Over(u)
      BY <1>2, <2>1, <2>2, <2>3 DEF Over, Closed
    <3>4. closedBar' = [closedBar EXCEPT ![t] = @ \cup {k}]
      BY <2>1, <3>6 DEF closedBar
    <3>5. Promise!Close(t, k)
      BY <1>0, <2>1, <3>1, <3>3, <3>4
         DEF Promise!Close, openBar, closedBar, reopenedBar
    <3> QED
      BY <2>1, <3>5 DEF Promise!Next
  <2>4. CASE group[k].status # "IN_PROGRESS"
    <3>1. group[k].status \in Closed
      BY <2>1, <2>4 DEF TypeInv, TypeOK, GroupRow, GroupStatus, Existing, Closed
    <3>2. \A u \in Tables : InProgress(u)' = InProgress(u)
      BY <1>2, <2>2, <2>4 DEF InProgress, Closed
    <3>3. \A u \in Tables : Over(u)' = Over(u)
      BY <1>2, <2>2, <3>1 DEF Over, Closed
    <3> QED
      BY <1>0, <3>2, <3>3 DEF openBar, closedBar
  <2> QED
    BY <2>3, <2>4
<1> QED
  BY <1>1, <1>2 DEF ClosesAtMostOne

\* A session that a waiter opens again is one that was over.
LEMMA ReopenRefines ==
  ASSUME TypeInv, ReopensOne
  PROVE  Promise!Next
<1>1. PICK k \in Groups :
        /\ group[k].status \in Closed
        /\ group'[k].status = "IN_PROGRESS" /\ group'[k].reopened
        /\ group'[k].table = group[k].table
        /\ \A g \in Groups \ {k} : group'[g] = group[g]
  BY DEF ReopensOne
<1> DEFINE t == group[k].table
<1>2. k \in Existing /\ t \in Tables
  BY <1>1 DEF TypeInv, RowsFit, Existing, Closed
<1>3. \A u \in Tables : InProgress(u)' = IF u = t THEN InProgress(u) \cup {k}
                                         ELSE InProgress(u)
  BY <1>1 DEF InProgress, Closed
<1>4. \A u \in Tables : Over(u)' = IF u = t THEN Over(u) \ {k} ELSE Over(u)
  BY <1>1 DEF Over, Closed
<1>5. k \in Over(t)
  BY <1>1 DEF Over, Closed
<1>6. /\ openBar' = [openBar EXCEPT ![t] = @ \cup {k}]
      /\ closedBar' = [closedBar EXCEPT ![t] = @ \ {k}]
  BY <1>2, <1>3, <1>4 DEF openBar, closedBar
<1>7. reopenedBar' = reopenedBar \cup {k}
  BY <1>1 DEF reopenedBar, Reopened
<1>8. Promise!Reopen(t, k)
  BY <1>2, <1>5, <1>6, <1>7
     DEF Promise!Reopen, openBar, closedBar, reopenedBar
<1> QED
  BY <1>2, <1>8 DEF Promise!Next

\* The server implements TableSessions, with as many open sessions a table as it
\* works on requests: every session is opened by getCurrentClientGroupOrNew for
\* one table, which it never leaves, is closed by a payment, a cancellation or a
\* clearing, and is opened again by nobody but a waiter, whatever the interleaving
\* of the handlers.
THEOREM SessionsKeepPromise == Spec => KeepsPromise
<1>1. ASSUME TypeInv, Bounded, Reopened \subseteq Existing, [Next]_vars
      PROVE  [Promise!Next]_(Promise!vars)
  <2>1. CASE \E h \in Handlers : CreateSession(h)
    BY <1>1, <2>1, CreateRefines
  <2>2. CASE ~ \E h \in Handlers : CreateSession(h)
    <3>1. Promise!Next \/ UNCHANGED <<openBar, closedBar, reopenedBar>>
      BY <1>1, <2>2, SessionStep, OtherRefines, ReopenRefines
    <3> QED
      BY <3>1 DEF Promise!vars, openBar, closedBar, reopenedBar
  <2> QED
    BY <2>1, <2>2
<1> QED
  BY <1>1, InitRefines, InvariantHolds, BoundedHolds, ReopenedExists, PTL
     DEF Spec, KeepsPromise, Promise!Spec

----------------------------------------------------------------------------
\* Requests come to an end: no handler goes round in a circle.

\* The calls left at each place,
LEMMA CallsFromValues ==
  /\ CallsFrom("idle") = 0 /\ CallsFrom("noti") = 1
  /\ CallsFrom("expelFood") = 1 /\ CallsFrom("rejectGroup") = 1
  /\ \A l \in {"deleteClient", "push", "deselectWrite", "clearCart", "complete",
               "expelFoods", "rejectFood"} : CallsFrom(l) = 2
  /\ \A l \in {"leaveFoods", "selectBill", "deselectBill", "insertOrder",
               "updateWrite", "expelCart", "rejectFoods"} : CallsFrom(l) = 3
  /\ \A l \in {"createClient", "reconnect", "offline", "orderGroup", "setMethod",
               "adminWrite", "cancelBill", "cancelOrder", "expelRead",
               "rejectOrder"} : CallsFrom(l) = 4
  /\ \A l \in {"findClient", "setBill", "cancel"} : CallsFrom(l) = 5
  /\ CallsFrom("checkName") = 6 /\ CallsFrom("createBill") = 6
  /\ CallsFrom("adminRead") = 7 /\ CallsFrom("foodWrite") = 8
BY Zenon DEF CallsFrom

\* and of a request, in a look-up and outside.
LEMMA CallsLeftValues ==
  ASSUME NEW r
  PROVE  /\ r.pc = "find" => CallsLeft(r) = CallsFrom(r.ret) + 2
         /\ r.pc = "createGroup" => CallsLeft(r) = CallsFrom(r.ret) + 1
         /\ r.pc \notin {"find", "createGroup"} => CallsLeft(r) = CallsFrom(r.pc)
BY Zenon DEF CallsLeft

\* A request in progress has a call to make, and one that is answered has none.
LEMMA AnsweredIsNearer ==
  ASSUME TypeInv, NEW h \in Handlers, ~At(h, "idle"), req'[h] = Idle
  PROVE  Nearer(h)
<1>1. CallsLeft(req'[h]) = 0
  BY IdleFields, CallsLeftValues, CallsFromValues
<1>2. req[h].pc \in Labels /\ req[h].pc # "idle"
  BY DEF At, TypeInv, TypeOK, Request
<1>3. req[h].pc \in {"find", "createGroup"} => req[h].ret \in ReturnLabels
  BY DEF TypeInv, RequestsFit, Fit
<1>4. CASE req[h].pc \in {"find", "createGroup"}
  <2>1. CallsFrom(req[h].ret) \in 1..6
    BY <1>3, <1>4, CallsFromValues DEF ReturnLabels
  <2>2. CallsLeft(req[h]) > 0
    BY <1>4, <2>1, CallsLeftValues
  <2> QED
    BY <1>1, <2>2 DEF Nearer
<1>5. CASE req[h].pc \notin {"find", "createGroup"}
  <2>1. CallsFrom(req[h].pc) \in 1..8
    BY <1>2, <1>5, CallsFromValues DEF Labels
  <2>2. CallsLeft(req[h]) > 0
    BY <1>5, <2>1, CallsLeftValues
  <2> QED
    BY <1>1, <2>2 DEF Nearer
<1> QED
  BY <1>4, <1>5

\* A request that goes from one place to another with fewer calls to make.
LEMMA PlaceIsNearer ==
  ASSUME NEW h \in Handlers,
         req[h].pc \notin {"find", "createGroup"},
         req'[h].pc \notin {"find", "createGroup"},
         CallsFrom(req'[h].pc) < CallsFrom(req[h].pc)
  PROVE  Nearer(h)
BY CallsLeftValues DEF Nearer

\* One that looks up the session once more, to tell the table of it.
LEMMA LookUpIsNearer ==
  ASSUME NEW h \in Handlers, req[h].pc \notin {"find", "createGroup"},
         CallsFrom(req[h].pc) = 4, req'[h].pc = "find", req'[h].ret = "noti"
  PROVE  Nearer(h)
BY CallsLeftValues, CallsFromValues DEF Nearer

----------------------------------------------------------------------------
\* A call of a guest's request,
LEMMA GuestsNearer ==
  ASSUME TypeInv, NEW h \in Handlers,
         \/ FindSession(h) \/ CreateSession(h) \/ Notify(h)
         \/ CheckUsername(h) \/ FindClient(h) \/ CreateClient(h) \/ Reconnect(h)
         \/ LeaveReadFoods(h) \/ LeaveDeleteClient(h) \/ GoOffline(h)
         \/ SelectReadBill(h) \/ SelectPush(h)
         \/ DeselectReadBill(h) \/ DeselectWrite(h)
  PROVE  Others(h) /\ Nearer(h)
<1> USE CallsFromValues
<1>1. req[h].pc \in {"find", "createGroup"} => req[h].ret \in ReturnLabels
  BY DEF TypeInv, RequestsFit, Fit
<1>2. /\ CallsFrom(req[h].ret) \in Nat /\ req[h].ret \notin {"find", "createGroup"}
      \/ req[h].pc \notin {"find", "createGroup"}
  BY <1>1 DEF ReturnLabels
<1>3. CASE FindSession(h)
  <2>1. /\ Others(h) /\ req[h].pc = "find" /\ req'[h].ret = req[h].ret
        /\ req'[h].pc \in {"createGroup", req[h].ret}
    BY <1>3, FindSessionMove DEF At
  <2> QED
    BY <1>2, <2>1, CallsLeftValues DEF Nearer
<1>4. CASE CreateSession(h)
  <2>1. Others(h) /\ req[h].pc = "createGroup" /\ req'[h].pc = req[h].ret
    BY <1>4, CreateSessionMove DEF At
  <2> QED
    BY <1>2, <2>1, CallsLeftValues DEF Nearer
<1>5. CASE Notify(h)
  BY <1>5, NotifyMove, AnsweredIsNearer DEF At
<1>6. CASE CheckUsername(h) \/ FindClient(h) \/ SelectReadBill(h)
           \/ DeselectReadBill(h)
  <2>1. req[h].pc \in {"checkName", "findClient", "selectBill", "deselectBill"}
    BY <1>6 DEF CheckUsername, FindClient, SelectReadBill, DeselectReadBill, At
  <2>2. \/ req'[h] = Idle
        \/ req[h].pc = "checkName" /\ req'[h].pc \in {"createClient", "findClient"}
        \/ req[h].pc = "findClient" /\ req'[h].pc \in {"createClient", "reconnect"}
        \/ req[h].pc = "selectBill" /\ req'[h].pc = "push"
        \/ req[h].pc = "deselectBill" /\ req'[h].pc = "deselectWrite"
    BY <1>6, GuestReads DEF At
  <2>3. Others(h)
    BY <1>6, GuestReads
  <2>4. CASE req'[h] = Idle
    BY <2>1, <2>3, <2>4, AnsweredIsNearer DEF At
  <2>5. CASE req'[h] # Idle
    BY <2>2, <2>3, <2>5, PlaceIsNearer
  <2> QED
    BY <2>4, <2>5
<1>7. CASE CreateClient(h) \/ Reconnect(h)
  BY <1>7, SeatedMove, AnsweredIsNearer, LookUpIsNearer DEF At
<1>8. CASE LeaveReadFoods(h) \/ LeaveDeleteClient(h) \/ GoOffline(h)
  <2>1. req[h].pc \in {"leaveFoods", "deleteClient", "offline"}
    BY <1>8 DEF LeaveReadFoods, LeaveDeleteClient, GoOffline, At
  <2>2. req[h].pc = "offline" => req[h].ret = "noti"
    BY DEF TypeInv, RequestsFit, Fit
  <2>3. \/ req'[h] = Idle
        \/ req[h].pc = "leaveFoods" /\ req'[h].pc = "deleteClient"
        \/ req[h].pc = "deleteClient" /\ req'[h].pc = "noti"
        \/ req[h].pc = "offline" /\ req'[h].pc = "find" /\ req'[h].ret = "noti"
    BY <1>8, <2>2, LeaveMove DEF At, KeepsLocals
  <2>4. Others(h)
    BY <1>8, LeaveMove
  <2> QED
    BY <2>1, <2>3, <2>4, AnsweredIsNearer, PlaceIsNearer, LookUpIsNearer DEF At
<1>9. CASE SelectPush(h)
  <2>1. Others(h) /\ req[h].pc = "push" /\ req'[h].pc = "noti"
    BY <1>9, SelectPushMove DEF At
  <2> QED
    BY <2>1, PlaceIsNearer
<1>10. CASE DeselectWrite(h)
  <2>1. /\ Others(h) /\ req[h].pc = "deselectWrite"
        /\ req'[h] = Idle \/ req'[h].pc = "noti"
    BY <1>10, DeselectWriteMove DEF At
  <2> QED
    BY <2>1, AnsweredIsNearer, PlaceIsNearer DEF At
<1> QED
  BY <1>3, <1>4, <1>5, <1>6, <1>7, <1>8, <1>9, <1>10

\* of a request that orders,
LEMMA OrdersNearer ==
  ASSUME TypeInv, NEW h \in Handlers,
         \/ OrderReadGroup(h) \/ InsertOrder(h) \/ ClearCart(h)
         \/ SetBillMethod(h) \/ UpdateWrite(h)
  PROVE  Others(h) /\ Nearer(h)
<1> USE CallsFromValues
<1>1. CASE OrderReadGroup(h) \/ SetBillMethod(h)
  <2>1. req[h].pc \in {"orderGroup", "setMethod"}
    BY <1>1 DEF OrderReadGroup, SetBillMethod, At
  <2>2. \/ req'[h] = Idle
        \/ req[h].pc = "orderGroup" /\ req'[h].pc = "insertOrder"
        \/ req[h].pc = "setMethod" /\ req'[h].pc = "updateWrite"
    BY <1>1, OrderReads DEF At
  <2>3. Others(h)
    BY <1>1, OrderReads
  <2> QED
    BY <2>1, <2>2, <2>3, AnsweredIsNearer, PlaceIsNearer DEF At
<1>2. CASE InsertOrder(h)
  <2>1. /\ Others(h) /\ req[h].pc = "insertOrder"
        /\ req'[h] = Idle \/ req'[h].pc = "clearCart"
    BY <1>2, InsertOrderMove DEF At
  <2> QED
    BY <2>1, AnsweredIsNearer, PlaceIsNearer DEF At
<1>3. CASE ClearCart(h)
  <2>1. Others(h) /\ req[h].pc = "clearCart" /\ req'[h].pc = "noti"
    BY <1>3, ClearCartMove DEF At
  <2> QED
    BY <2>1, PlaceIsNearer
<1>4. CASE UpdateWrite(h)
  <2>1. Others(h) /\ req[h].pc = "updateWrite" /\ req'[h].pc = "clearCart"
    BY <1>4, UpdateWriteMove DEF At
  <2> QED
    BY <2>1, PlaceIsNearer
<1> QED
  BY <1>1, <1>2, <1>3, <1>4

\* of a waiter's,
LEMMA WaiterNearer ==
  ASSUME TypeInv, NEW h \in Handlers,
         \/ FoodWrite(h) \/ AdminReadOrder(h) \/ CreateBill(h) \/ SetBill(h)
         \/ AdminWriteOrder(h) \/ CompleteSession(h)
         \/ CancelDeleteBill(h) \/ CancelReopenOrder(h)
  PROVE  Others(h) /\ Nearer(h)
<1> USE CallsFromValues
<1>1. CASE FoodWrite(h)
  <2>1. /\ Others(h) /\ req[h].pc = "foodWrite"
        /\ req'[h] = Idle \/ req'[h].pc = "adminRead"
    BY <1>1, FoodWriteMove DEF At
  <2> QED
    BY <2>1, AnsweredIsNearer, PlaceIsNearer DEF At
<1>2. CASE AdminReadOrder(h)
  <2>1. /\ Others(h) /\ req[h].pc = "adminRead"
        /\ req'[h].pc \in {"createBill", "setBill", "adminWrite"}
    BY <1>2, AdminReadOrderMove DEF At, AfterLists
  <2> QED
    BY <2>1, PlaceIsNearer
<1>3. CASE CreateBill(h)
  <2>1. /\ Others(h) /\ req[h].pc = "createBill"
        /\ req'[h] = Idle \/ req'[h].pc \in {"setBill", "adminWrite"}
    BY <1>3, CreateBillMove DEF At
  <2> QED
    BY <2>1, AnsweredIsNearer, PlaceIsNearer DEF At
<1>4. CASE SetBill(h)
  <2>1. /\ Others(h) /\ req[h].pc = "setBill"
        /\ req'[h] = Idle \/ req'[h].pc = "adminWrite"
    BY <1>4, SetBillMove DEF At
  <2> QED
    BY <2>1, AnsweredIsNearer, PlaceIsNearer DEF At
<1>5. CASE AdminWriteOrder(h)
  <2>1. /\ Others(h) /\ req[h].pc = "adminWrite"
        /\ \/ req'[h].pc \in {"complete", "noti"}
           \/ req'[h].pc = "find" /\ req'[h].ret = "noti"
    BY <1>5, AdminWriteOrderMove DEF At
  <2> QED
    BY <2>1, PlaceIsNearer, LookUpIsNearer
<1>6. CASE CompleteSession(h)
  <2>1. Others(h) /\ req[h].pc = "complete" /\ req'[h].pc = "noti"
    BY <1>6, CompleteSessionMove DEF At
  <2> QED
    BY <2>1, PlaceIsNearer
<1>7. CASE CancelDeleteBill(h)
  <2>1. /\ Others(h)
        /\ \/ req[h].pc = "cancel" /\ req'[h].pc = "cancelOrder"
           \/ req[h].pc = "cancelBill" /\ req'[h] = Idle
           \/ req[h].pc = "cancelBill" /\ req'[h].pc = "find" /\ req'[h].ret = "noti"
    BY <1>7, CancelDeleteBillMove DEF At
  <2> QED
    BY <2>1, AnsweredIsNearer, PlaceIsNearer, LookUpIsNearer DEF At
<1>8. CASE CancelReopenOrder(h)
  <2>1. /\ Others(h)
        /\ \/ req[h].pc \in {"cancel", "cancelOrder"} /\ req'[h] = Idle
           \/ req[h].pc = "cancel" /\ req'[h].pc = "cancelBill"
           \/ req[h].pc = "cancelOrder" /\ req'[h].pc = "find" /\ req'[h].ret = "noti"
    BY <1>8, CancelReopenOrderMove DEF At
  <2> QED
    BY <2>1, AnsweredIsNearer, PlaceIsNearer, LookUpIsNearer DEF At
<1> QED
  BY <1>1, <1>2, <1>3, <1>4, <1>5, <1>6, <1>7, <1>8

\* and of one that removes a guest or clears a table, brings it nearer to its
\* answer, whatever the call finds.
LEMMA TasksNearer ==
  ASSUME TypeInv, NEW h \in Handlers,
         \/ ExpelReadClient(h) \/ ExpelWriteCart(h) \/ ExpelReadFoods(h)
         \/ ExpelDeleteFood(h) \/ ExpelDeleteClient(h)
         \/ RejectReadOrder(h) \/ RejectReadFoods(h) \/ RejectFood(h)
         \/ RejectSession(h)
  PROVE  Others(h) /\ Nearer(h)
<1> USE CallsFromValues
<1>1. CASE \/ ExpelReadClient(h) \/ ExpelWriteCart(h) \/ ExpelReadFoods(h)
           \/ ExpelDeleteFood(h) \/ ExpelDeleteClient(h)
  <2>1. /\ Others(h) /\ req[h].pc \in ExpelLabels
        /\ \/ req'[h] = Idle
           \/ req[h].pc = "expelRead" /\ req'[h].pc \in {"expelCart", "expelFoods"}
           \/ req[h].pc = "expelCart" /\ req'[h].pc = "expelFoods"
           \/ req[h].pc = "expelFoods" /\ req'[h].pc = "expelFood"
           \/ req'[h].pc = req[h].pc /\ ListShrinks(h)
    BY <1>1, ExpelMove DEF At
  <2>2. CASE ListShrinks(h) /\ req'[h].pc = req[h].pc
    BY <2>1, <2>2 DEF Nearer, ListShrinks
  <2>3. CASE req'[h] = Idle
    BY <2>1, <2>3, AnsweredIsNearer DEF At, ExpelLabels
  <2> QED
    BY <2>1, <2>2, <2>3, PlaceIsNearer
<1>2. CASE RejectReadOrder(h) \/ RejectReadFoods(h)
  <2>1. /\ Others(h)
        /\ \/ /\ req[h].pc = "rejectOrder"
              /\ req'[h].pc \in {"rejectFoods", "rejectGroup"}
           \/ /\ req[h].pc = "rejectFoods"
              /\ req'[h].pc \in {"rejectFood", "rejectGroup"}
    BY <1>2, RejectReads DEF At
  <2> QED
    BY <2>1, PlaceIsNearer
<1>3. CASE RejectFood(h)
  <2>1. /\ Others(h) /\ req[h].pc = "rejectFood"
        /\ \/ req'[h] = Idle
           \/ req'[h].pc \in {"rejectFood", "rejectGroup"} /\ ListShrinks(h)
    BY <1>3, RejectFoodMove DEF At
  <2>2. CASE req'[h].pc = "rejectFood" /\ ListShrinks(h)
    BY <2>1, <2>2 DEF Nearer, ListShrinks
  <2>3. CASE req'[h] = Idle
    BY <2>1, <2>3, AnsweredIsNearer DEF At
  <2> QED
    BY <2>1, <2>2, <2>3, PlaceIsNearer
<1>4. CASE RejectSession(h)
  BY <1>4, RejectSessionMove, AnsweredIsNearer DEF At
<1> QED
  BY <1>1, <1>2, <1>3, <1>4

LEMMA ContinueNearer ==
  ASSUME TypeInv, NEW h \in Handlers, Continue(h)
  PROVE  Others(h) /\ Nearer(h)
BY GuestsNearer, OrdersNearer, WaiterNearer, TasksNearer DEF Continue

\* A message is taken up by an idle request, or by two.
LEMMA ArrivesAtIdle ==
  ASSUME TypeInv, NEW h \in Handlers, Arrive(h),
         NEW k \in Handlers, ~At(k, "idle")
  PROVE  req'[k] = req[k]
<1>1. CASE AdminDeleteClientList(h)
  <2>1. PICK task \in Handlers \ {h} :
          /\ \A i \in Handlers \ {h, task} : req'[i] = req[i]
          /\ At(h, "idle") /\ At(task, "idle")
    BY <1>1, ExpelArrives
  <2> QED
    BY <2>1
<1>2. CASE ~AdminDeleteClientList(h)
  <2>1. Others(h) /\ At(h, "idle")
    BY <1>2, GuestArrives, CreateOrderMove, UpdateOrderMove, AdminArrives,
       DeleteClientIdMove, WsClearTableMove, ClearTableMove DEF Arrive
  <2> QED
    BY <2>1 DEF Others
<1> QED
  BY <1>1, <1>2

\* No handler goes round in a circle, for any number of requests and whatever they
\* do to each other's rows: each answers after at most CallsLeft calls, or one more
\* for each food on its list.
THEOREM RequestsEnd == Spec => RequestsWindDown
<1> DEFINE Step ==
      \A h \in Handlers :
        /\ Continue(h) => Nearer(h)
        /\ ~At(h, "idle") => req'[h] = req[h] \/ Nearer(h)
<1>1. ASSUME TypeInv, [Next]_vars
      PROVE  Step
  <2> SUFFICES ASSUME NEW h \in Handlers
               PROVE  /\ Continue(h) => Nearer(h)
                      /\ ~At(h, "idle") => req'[h] = req[h] \/ Nearer(h)
    OBVIOUS
  <2>1. Continue(h) => Nearer(h)
    BY <1>1, ContinueNearer
  <2>2. ASSUME ~At(h, "idle")
        PROVE  req'[h] = req[h] \/ Nearer(h)
    <3>1. CASE \E k \in Handlers : Arrive(k)
      BY <1>1, <2>2, <3>1, ArrivesAtIdle
    <3>2. CASE \E k \in Handlers : Continue(k)
      BY <1>1, <3>2, ContinueNearer DEF Others
    <3>3. CASE Crash
      BY <1>1, <2>2, <3>3, AnsweredIsNearer DEF Crash
    <3>4. CASE UNCHANGED vars
      BY <3>4 DEF vars
    <3> QED
      BY <1>1, <3>1, <3>2, <3>3, <3>4 DEF Next, Rest
  <2> QED
    BY <2>1, <2>2
<1> QED
  BY <1>1, InvariantHolds, PTL DEF Spec, RequestsWindDown

----------------------------------------------------------------------------
\* Entries of carts.  Splice and Without double none.

Distinct(cart) == \A i, j \in DOMAIN cart : cart[i].id = cart[j].id => i = j

\* Entries of a cart without two entries of one id, each taken from a place of
\* its own.
LEMMA PartDistinct ==
  ASSUME NEW cart, Distinct(cart), NEW new, NEW place,
         \A i \in DOMAIN new : place[i] \in DOMAIN cart,
         \A i \in DOMAIN new : new[i] = cart[place[i]],
         \A i, j \in DOMAIN new : place[i] = place[j] => i = j
  PROVE  Distinct(new)
BY DEF Distinct

\* The entries that stay come from different places: from before the one that is
\* removed, and from after it.
LEMMA SpliceDistinct ==
  ASSUME NEW cart \in Seq(Entry), NEW id, Distinct(cart)
  PROVE  Distinct(Splice(cart, id))
<1> DEFINE hits  == {i \in DOMAIN cart : cart[i].id = id}
           first == CHOOSE i \in hits : \A j \in hits : i <= j
           n     == Len(cart)
<1>1. CASE cart = <<>>
  BY <1>1 DEF Splice
<1>2. CASE cart # <<>> /\ hits = {}
  <2>1. n \in Nat /\ n >= 1
    BY <1>2
  <2>2. Splice(cart, id) = SubSeq(cart, 1, n - 1)
    BY <1>2 DEF Splice, Front
  <2>3. /\ DOMAIN SubSeq(cart, 1, n - 1) = 1..(n - 1)
        /\ \A i \in 1..(n - 1) : SubSeq(cart, 1, n - 1)[i] = cart[i]
    BY <2>1
  <2> DEFINE place == [i \in 1..(n - 1) |-> i]
             new   == SubSeq(cart, 1, n - 1)
  <2>4. /\ \A i \in DOMAIN new : place[i] \in DOMAIN cart
        /\ \A i \in DOMAIN new : new[i] = cart[place[i]]
        /\ \A i, j \in DOMAIN new : place[i] = place[j] => i = j
    BY <2>1, <2>3
  <2>5. Distinct(new)
    <3> HIDE DEF place, new
    <3> QED
      BY <2>4, PartDistinct
  <2> QED
    BY <2>2, <2>5
<1>3. CASE cart # <<>> /\ hits # {}
  <2>1. hits \in SUBSET Nat
    OBVIOUS
  <2>2. \E i \in hits : \A j \in hits : i <= j
    <3> HIDE DEF hits
    <3> QED
      BY <1>3, <2>1, LeastNatural
  <2>3. first \in hits
    <3> HIDE DEF hits
    <3> QED
      BY <2>2
  <2>4. first \in 1..n /\ n \in Nat
    BY <2>3
  <2>5. Splice(cart, id) = SubSeq(cart, 1, first - 1) \o SubSeq(cart, first + 1, n)
    BY <1>3 DEF Splice, RemoveAt
  <2> HIDE DEF first
  <2> DEFINE left  == SubSeq(cart, 1, first - 1)
             right == SubSeq(cart, first + 1, n)
  <2>6. /\ left \in Seq(Entry) /\ Len(left) = first - 1
        /\ \A i \in 1..(first - 1) : left[i] = cart[i]
    BY <2>4
  <2>7. /\ right \in Seq(Entry) /\ Len(right) = n - first
        /\ \A i \in 1..(n - first) : right[i] = cart[first + i]
    BY <2>4
  <2> HIDE DEF left, right
  <2>8. /\ DOMAIN (left \o right) = 1..(n - 1)
        /\ \A i \in 1..(n - 1) :
             (left \o right)[i] = cart[IF i < first THEN i ELSE i + 1]
    <3>1. Len(left \o right) = n - 1
      <4>1. Len(left \o right) = Len(left) + Len(right)
        BY <2>6, <2>7, ConcatProperties
      <4> HIDE DEF n
      <4> QED
        BY <2>4, <2>6, <2>7, <4>1
    <3>2. \A i \in 1..(Len(left) + Len(right)) :
            (left \o right)[i] = IF i <= Len(left) THEN left[i]
                                 ELSE right[i - Len(left)]
      BY <2>6, <2>7, ConcatProperties
    <3>3. ASSUME NEW i \in 1..(n - 1)
          PROVE  (left \o right)[i] = cart[IF i < first THEN i ELSE i + 1]
      <4>1. i \in 1..(Len(left) + Len(right))
        BY <2>4, <2>6, <2>7
      <4>2. CASE i < first
        <5>1. i \in 1..(first - 1)
          BY <2>4, <4>2
        <5>2. (left \o right)[i] = left[i]
          BY <2>6, <3>2, <4>1, <5>1
        <5> QED
          BY <2>6, <4>2, <5>1, <5>2
      <4>3. CASE ~(i < first)
        <5>1. i - (first - 1) \in 1..(n - first) /\ first + (i - (first - 1)) = i + 1
          BY <2>4, <4>3
        <5>2. (left \o right)[i] = right[i - (first - 1)]
          BY <2>4, <2>6, <3>2, <4>1, <4>3
        <5> QED
          BY <2>7, <4>3, <5>1, <5>2
      <4> QED
        BY <4>2, <4>3
    <3>4. left \o right \in Seq(Entry)
      BY <2>6, <2>7, ConcatProperties
    <3> QED
      BY <3>1, <3>3, <3>4
  <2> DEFINE place == [i \in 1..(n - 1) |-> IF i < first THEN i ELSE i + 1]
             new   == left \o right
  <2>9. /\ \A i \in DOMAIN new : place[i] \in DOMAIN cart
        /\ \A i \in DOMAIN new : new[i] = cart[place[i]]
        /\ \A i, j \in DOMAIN new : place[i] = place[j] => i = j
    <3>1. \A i \in 1..(n - 1) :
            place[i] = (IF i < first THEN i ELSE i + 1) /\ place[i] \in 1..n
      BY <2>4
    <3>2. \A i, j \in 1..(n - 1) : place[i] = place[j] => i = j
      BY <2>4
    <3>3. DOMAIN new = 1..(n - 1) /\ DOMAIN cart = 1..n
      BY <2>8
    <3> HIDE DEF place
    <3>4. \A i \in 1..(n - 1) : new[i] = cart[place[i]]
      BY <2>8, <3>1
    <3> HIDE DEF new
    <3> QED
      BY <3>1, <3>2, <3>3, <3>4
  <2>10. Distinct(new)
    <3> HIDE DEF place, new
    <3> QED
      BY <2>9, PartDistinct
  <2> QED
    BY <2>5, <2>10 DEF left, right
<1> QED
  BY <1>1, <1>2, <1>3

\* What is kept of the first i entries is distinct, and its ids are among those.
LEMMA WithoutDistinct ==
  ASSUME NEW cart \in Seq(Entry), NEW c, Distinct(cart)
  PROVE  Distinct(Without(cart, c))
<1>1. PICK f : /\ \A i \in 0..Len(cart) :
                    /\ f[i] \in Seq(Entry)
                    /\ f[i] = IF i = 0 THEN <<>>
                              ELSE IF cart[i].user = c THEN f[i - 1]
                              ELSE Append(f[i - 1], cart[i])
               /\ Without(cart, c) = f[Len(cart)]
  BY WithoutSteps
<1> DEFINE Good(i) ==
             /\ Distinct(f[i])
             /\ \A j \in DOMAIN f[i] : \E m \in 1..i : f[i][j].id = cart[m].id
           Wrong == {i \in 0..Len(cart) : ~Good(i)}
<1>2. Len(cart) \in Nat
  OBVIOUS
<1>3. Wrong = {}
  <2> SUFFICES ASSUME Wrong # {} PROVE FALSE
    OBVIOUS
  <2>1. PICK n \in Wrong : \A m \in Wrong : n <= m
    <3>1. Wrong \subseteq Nat
      OBVIOUS
    <3> HIDE DEF Wrong
    <3> QED
      BY <3>1, LeastNatural
  <2>2. n # 0
    <3>1. f[0] = <<>>
      BY <1>1, <1>2
    <3>2. Good(0)
      BY <3>1 DEF Distinct
    <3> QED
      BY <3>2
  <2>3. n \in 1..Len(cart) /\ n - 1 \in 0..Len(cart) /\ ~(n <= n - 1)
    BY <2>2
  <2>4. Good(n - 1)
    <3>1. n - 1 \notin Wrong
      <4> HIDE DEF Wrong
      <4> QED
        BY <2>1, <2>3
    <3> HIDE DEF Good
    <3> QED
      BY <2>3, <3>1
  <2>5. CASE cart[n].user = c
    <3>1. f[n] = f[n - 1]
      BY <1>1, <2>2, <2>5
    <3>2. \A m \in 1..(n - 1) : m \in 1..n
      BY <2>3
    <3>3. Good(n)
      BY <2>4, <3>1, <3>2
    <3> QED
      BY <3>3
  <2>6. CASE cart[n].user # c
    <3> DEFINE before == f[n - 1]
    <3>1. f[n] = Append(before, cart[n]) /\ before \in Seq(Entry)
      BY <1>1, <2>2, <2>3, <2>6
    <3>2. /\ Distinct(before)
          /\ \A j \in DOMAIN before : \E m \in 1..(n - 1) : before[j].id = cart[m].id
      BY <2>4
    <3> HIDE DEF before
    <3>3. \A m \in 1..(n - 1) : cart[m].id # cart[n].id
      BY <2>3 DEF Distinct
    <3>4. /\ Len(before) \in Nat
          /\ DOMAIN Append(before, cart[n]) = 1..(Len(before) + 1)
          /\ DOMAIN before = 1..Len(before)
          /\ \A j \in 1..Len(before) : Append(before, cart[n])[j] = before[j]
          /\ Append(before, cart[n])[Len(before) + 1] = cart[n]
      BY <3>1
    <3>5. \A j \in 1..Len(before) : before[j].id # cart[n].id
      BY <3>2, <3>3, <3>4
    <3>6. \A j \in 1..(Len(before) + 1) : j \in 1..Len(before) \/ j = Len(before) + 1
      BY <3>4
    <3>7. Distinct(Append(before, cart[n]))
      BY <3>2, <3>4, <3>5, <3>6 DEF Distinct
    <3>8. \A j \in DOMAIN Append(before, cart[n]) :
            \E m \in 1..n : Append(before, cart[n])[j].id = cart[m].id
      <4>1. n \in 1..n /\ \A m \in 1..(n - 1) : m \in 1..n
        BY <2>3
      <4> QED
        BY <3>2, <3>4, <3>6, <4>1
    <3>9. Good(n)
      BY <3>1, <3>7, <3>8
    <3> QED
      BY <3>9
  <2> QED
    BY <2>5, <2>6
<1>4. Good(Len(cart))
  <2>1. Len(cart) \in 0..Len(cart)
    BY <1>2
  <2> HIDE DEF Good
  <2> QED
    BY <1>3, <2>1
<1> QED
  BY <1>1, <1>4

\* An entry with an id of its own may be pushed.
LEMMA AppendDistinct ==
  ASSUME NEW cart \in Seq(Entry), NEW e \in Entry, Distinct(cart),
         e.id \notin Ids(cart)
  PROVE  Distinct(Append(cart, e))
<1>1. /\ Len(cart) \in Nat
      /\ DOMAIN Append(cart, e) = 1..(Len(cart) + 1)
      /\ DOMAIN cart = 1..Len(cart)
      /\ \A j \in 1..Len(cart) : Append(cart, e)[j] = cart[j]
      /\ Append(cart, e)[Len(cart) + 1] = e
  OBVIOUS
<1>2. \A j \in 1..Len(cart) : cart[j].id # e.id
  BY <1>1 DEF Ids
<1>3. \A j \in 1..(Len(cart) + 1) : j \in 1..Len(cart) \/ j = Len(cart) + 1
  BY <1>1
<1> QED
  BY <1>1, <1>2, <1>3 DEF Distinct

----------------------------------------------------------------------------
\* The carts that requests hold.

\* But for the lists that guests order, none has an entry twice.
CopiesOK ==
  \A h \in Handlers : req[h].pc \in WriteLabels \/ Distinct(req[h].cart)

CartInv == TypeInv /\ CartEntriesUnique /\ CopiesOK

\* Every request keeps its copy or drops it.
CopiesKept == \A k \in Handlers : req'[k].cart \in {req[k].cart, <<>>}

\* A list that was ordered is not used again.
ListsDropped ==
  \A k \in Handlers :
    req[k].pc \in WriteLabels => req'[k].pc \in WriteLabels \/ req'[k].cart = <<>>

----------------------------------------------------------------------------
\* Copies.

\* The empty cart.
LEMMA EmptyDistinct == Distinct(<<>>)
BY DEF Distinct

\* An idle request holds no copy.
LEMMA IdleCart == Idle.cart = <<>>
BY DEF Idle

\* One request becomes r, the others stay.
LEMMA BecomeKept ==
  ASSUME TypeOK, NEW h \in Handlers, NEW r, req' = [req EXCEPT ![h] = r],
         r.cart \in {req[h].cart, <<>>}
  PROVE  CopiesKept
BY DEF TypeOK, CopiesKept

\* Going to another place of the handler.
LEMMA GotoKept ==
  ASSUME TypeOK, NEW h \in Handlers, NEW l, Goto(h, l)
  PROVE  CopiesKept
<1>1. req[h] \in Request
  BY DEF TypeOK
<1>2. [req[h] EXCEPT !.pc = l].cart = req[h].cart
  BY <1>1 DEF Request
<1> QED
  BY <1>2, BecomeKept DEF Goto

\* A reply.
LEMMA AnswerKept ==
  ASSUME TypeOK, NEW h \in Handlers, Answer(h)
  PROVE  CopiesKept
BY BecomeKept, IdleCart DEF Answer

\* A call of getCurrentClientGroupOrNew.
LEMMA CallKept ==
  ASSUME TypeOK, NEW h \in Handlers, NEW t, NEW l, Call(h, t, l)
  PROVE  CopiesKept
<1>1. req[h] \in Request
  BY DEF TypeOK
<1>2. [req[h] EXCEPT !.pc = "find", !.ret = l, !.t = t].cart = req[h].cart
  BY <1>1 DEF Request
<1> QED
  BY <1>2, BecomeKept DEF Call

\* A request that is taken up without a cart.
LEMMA AcceptKept ==
  ASSUME TypeOK, NEW h \in Handlers, NEW kind, NEW r, Accept(h, kind, r),
         r.cart = <<>>
  PROVE  CopiesKept
BY BecomeKept DEF Accept

\* Copies that are kept stay distinct.
LEMMA KeptOK ==
  ASSUME CopiesOK, CopiesKept, ListsDropped
  PROVE  CopiesOK'
BY EmptyDistinct DEF CopiesOK, CopiesKept, ListsDropped

\* One request becomes r, with a copy that is distinct.
LEMMA BecomeOK ==
  ASSUME TypeOK, CopiesOK, NEW h \in Handlers, NEW r,
         req' = [req EXCEPT ![h] = r], Distinct(r.cart)
  PROVE  CopiesOK'
<1>1. \A k \in Handlers : req'[k] = IF k = h THEN r ELSE req[k]
  BY DEF TypeOK
<1> QED
  BY <1>1 DEF CopiesOK

----------------------------------------------------------------------------
\* Where a handler takes a copy: the look-up of the session, for deselectFood, and
\* the removal of a guest.  An order takes the list of the message.

\* The return of getCurrentClientGroupOrNew.
LEMMA ReturnOK ==
  ASSUME TypeOK, CopiesOK, NEW h \in Handlers, NEW g, NEW cart,
         Return(h, g, cart), Distinct(cart)
  PROVE  CopiesOK'
<1>1. req[h] \in Request
  BY DEF TypeOK
<1> DEFINE r == [req[h] EXCEPT !.pc = req[h].ret, !.g = g,
                               !.cart = IF req[h].ret = "deselectBill" THEN cart
                                                                       ELSE <<>>]
<1>2. r.cart \in {cart, <<>>}
  BY <1>1 DEF Request
<1>3. req' = [req EXCEPT ![h] = r]
  BY DEF Return
<1> HIDE DEF r
<1>4. Distinct(r.cart)
  BY <1>2, EmptyDistinct
<1> QED
  BY <1>3, <1>4, BecomeOK

\* The look-up of the session.
LEMMA FindSessionOK ==
  ASSUME TypeOK, CartEntriesUnique, CopiesOK, ListsDropped, NEW h \in Handlers,
         FindSession(h)
  PROVE  CopiesOK'
<1>1. \A g \in Groups : Distinct(group[g].cart)
  BY DEF CartEntriesUnique, Distinct
<1>2. CASE Goto(h, "createGroup")
  BY <1>2, GotoKept, KeptOK
<1>3. CASE \E g \in InProgress(req[h].t) : Return(h, g, group[g].cart)
  BY <1>1, <1>3, ReturnOK DEF InProgress
<1>4. CASE Return(h, None, <<>>)
  BY <1>4, ReturnOK, EmptyDistinct
<1> QED
  BY <1>2, <1>3, <1>4 DEF FindSession

\* The creation of a session.
LEMMA CreateSessionOK ==
  ASSUME TypeOK, CopiesOK, NEW h \in Handlers, CreateSession(h)
  PROVE  CopiesOK'
BY ReturnOK, EmptyDistinct DEF CreateSession

\* A guest orders a list, or adds one to the order.
LEMMA OrderOK ==
  ASSUME TypeInv, CopiesOK, NEW h \in Handlers, CreateOrder(h) \/ UpdateOrder(h)
  PROVE  CopiesOK'
<1>1. Others(h) /\ req'[h].pc \in WriteLabels
  BY CreateOrderMove, UpdateOrderMove DEF WriteLabels
<1> QED
  BY <1>1 DEF CopiesOK, Others

\* What is left of a cart without the guest who is removed.
LEMMA ExpelReadClientOK ==
  ASSUME TypeInv, CartEntriesUnique, CopiesOK, ListsDropped, NEW h \in Handlers,
         ExpelReadClient(h)
  PROVE  CopiesOK'
<1>1. TypeOK /\ RowsFit /\ req[h] \in Request /\ req[h].c \in Clients
  BY DEF TypeInv, TypeOK, ExpelReadClient, At, RequestsFit, Fit
<1>2. CASE Answer(h)
  BY <1>1, <1>2, AnswerKept, KeptOK
<1>3. CASE HasClient(req[h].c)
  <2> DEFINE g    == client[req[h].c].group
             kept == Without(group[g].cart, req[h].c)
             r    == [req[h] EXCEPT !.pc = IF kept # <<>> THEN "expelCart"
                                                         ELSE "expelFoods",
                                    !.g = g, !.cart = kept]
  <2>1. req' = [req EXCEPT ![h] = r]
    BY <1>3 DEF ExpelReadClient
  <2>2. r.cart = kept
    <3> HIDE DEF kept, g
    <3> QED
      BY <1>1 DEF Request
  <2>3. g \in Groups
    BY <1>1, <1>3 DEF RowsFit
  <2>4. group[g].cart \in Seq(Entry) /\ Distinct(group[g].cart)
    <3> HIDE DEF g
    <3> QED
      BY <1>1, <2>3 DEF TypeOK, GroupRow, CartEntriesUnique, Distinct
  <2>5. Distinct(kept)
    <3> HIDE DEF g
    <3> QED
      BY <2>4, WithoutDistinct
  <2> HIDE DEF r
  <2> QED
    BY <1>1, <2>1, <2>2, <2>5, BecomeOK
<1> QED
  BY <1>2, <1>3 DEF ExpelReadClient

----------------------------------------------------------------------------
\* Everything else keeps the copies there are, or drops them.

\* Arrivals that take no copy.
LEMMA ArriveKept ==
  ASSUME TypeOK, NEW h \in Handlers, Arrive(h), ~CreateOrder(h), ~UpdateOrder(h)
  PROVE  CopiesKept
<1>1. CASE AdminDeleteClientList(h)
  <2>1. PICK g, d, c, task :
          req' = [req EXCEPT
                    ![h] = [Idle EXCEPT !.pc = "adminRead", !.g = g, !.dto = d],
                    ![task] = [Idle EXCEPT !.pc = "expelRead", !.c = c]]
    BY <1>1 DEF AdminDeleteClientList
  <2>2. /\ [Idle EXCEPT !.pc = "adminRead", !.g = g, !.dto = d].cart = <<>>
        /\ [Idle EXCEPT !.pc = "expelRead", !.c = c].cart = <<>>
    BY DEF Idle
  <2> QED
    BY <2>1, <2>2 DEF TypeOK, CopiesKept
<1>2. CASE ~AdminDeleteClientList(h)
  <2>1. CASE JoinTable(h)
    <3>1. PICK s, t, n, c :
            Accept(h, "join", [Idle EXCEPT !.pc = "find", !.ret = "checkName",
                                           !.s = s, !.t = t, !.name = n, !.c = c])
      BY <2>1 DEF JoinTable
    <3>2. [Idle EXCEPT !.pc = "find", !.ret = "checkName",
                       !.s = s, !.t = t, !.name = n, !.c = c].cart = <<>>
      BY DEF Idle
    <3> QED
      BY <3>1, <3>2, AcceptKept, Zenon
  <2>2. CASE LeaveTable(h)
    <3>1. PICK s, t :
            Accept(h, "leave", [Idle EXCEPT !.pc = "find", !.ret = "leaveFoods",
                                            !.s = s, !.t = t])
      BY <2>2 DEF LeaveTable
    <3>2. [Idle EXCEPT !.pc = "find", !.ret = "leaveFoods",
                       !.s = s, !.t = t].cart = <<>>
      BY DEF Idle
    <3> QED
      BY <3>1, <3>2, AcceptKept, Zenon
  <2>3. CASE Disconnect(h)
    <3>1. PICK t, c :
            Accept(h, "disconnect", [Idle EXCEPT !.pc = "offline", !.ret = "noti",
                                                 !.t = t, !.c = c])
      BY <2>3 DEF Disconnect
    <3>2. [Idle EXCEPT !.pc = "offline", !.ret = "noti",
                       !.t = t, !.c = c].cart = <<>>
      BY DEF Idle
    <3> QED
      BY <3>1, <3>2, AcceptKept, Zenon
  <2>4. CASE SelectFood(h)
    <3>1. PICK t, c :
            Accept(h, "select", [Idle EXCEPT !.pc = "find", !.ret = "selectBill",
                                             !.t = t, !.c = c])
      BY <2>4 DEF SelectFood
    <3>2. [Idle EXCEPT !.pc = "find", !.ret = "selectBill",
                       !.t = t, !.c = c].cart = <<>>
      BY DEF Idle
    <3> QED
      BY <3>1, <3>2, AcceptKept, Zenon
  <2>5. CASE DeselectFood(h)
    <3>1. PICK t, i :
            Accept(h, "deselect", [Idle EXCEPT !.pc = "find",
                                               !.ret = "deselectBill",
                                               !.t = t, !.item = i])
      BY <2>5 DEF DeselectFood
    <3>2. [Idle EXCEPT !.pc = "find", !.ret = "deselectBill",
                       !.t = t, !.item = i].cart = <<>>
      BY DEF Idle
    <3> QED
      BY <3>1, <3>2, AcceptKept, Zenon
  <2>6. CASE AdminUpdateClientOrder(h)
    <3>1. \A p, g, d, F :
            [Idle EXCEPT !.g = g, !.dto = d, !.foods = F, !.pc = p].cart = <<>>
      BY DEF Idle
    <3> QED
      BY <2>6, <3>1, AcceptKept, ZenonT(60) DEF AdminUpdateClientOrder
  <2>7. CASE WsClearTable(h)
    BY <2>7, IdleCart, AcceptKept DEF WsClearTable
  <2>8. CASE ClearTable(h)
    <3>1. \A p, g : [Idle EXCEPT !.pc = p, !.g = g].cart = <<>>
      BY DEF Idle
    <3> QED
      BY <2>8, <3>1, AcceptKept DEF ClearTable
  <2>9. CASE DeleteClientIdInFoodOrder(h)
    <3>1. \A p, c : [Idle EXCEPT !.pc = p, !.c = c].cart = <<>>
      BY DEF Idle
    <3> QED
      BY <2>9, <3>1, AcceptKept DEF DeleteClientIdInFoodOrder
  <2> QED
    BY <1>2, <2>1, <2>2, <2>3, <2>4, <2>5, <2>6, <2>7, <2>8, <2>9 DEF Arrive
<1> QED
  BY <1>1, <1>2

\* Continuations that take no copy: either the request only goes on, calls or
\* answers, or the other locals it changes are named.
LEMMA ContinueKept ==
  ASSUME TypeOK, NEW h \in Handlers, Continue(h), ~FindSession(h),
         ~CreateSession(h), ~ExpelReadClient(h)
  PROVE  CopiesKept
<1>1. req[h] \in Request
  BY DEF TypeOK
<1>2. CASE (\E l : Goto(h, l)) \/ Answer(h) \/ (\E t, l : Call(h, t, l))
  BY <1>2, GotoKept, AnswerKept, CallKept
<1>3. CASE LeaveReadFoods(h)
  BY <1>1, <1>3, AnswerKept, BecomeKept, ZenonT(40) DEF LeaveReadFoods, Request
<1>4. CASE DeselectWrite(h)
  BY <1>1, <1>4, AnswerKept, BecomeKept, ZenonT(40) DEF DeselectWrite, Request
<1>5. CASE InsertOrder(h)
  BY <1>1, <1>5, AnswerKept, BecomeKept, ZenonT(40) DEF InsertOrder, Request
<1>6. CASE UpdateWrite(h)
  BY <1>1, <1>6, BecomeKept DEF UpdateWrite, Request
<1>7. CASE FoodWrite(h)
  BY <1>1, <1>7, AnswerKept, BecomeKept, ZenonT(40) DEF FoodWrite, Request
<1>8. CASE AdminReadOrder(h)
  BY <1>1, <1>8, BecomeKept DEF AdminReadOrder, Request
<1>9. CASE CreateBill(h)
  BY <1>1, <1>9, AnswerKept, BecomeKept, ZenonT(40) DEF CreateBill, Request
<1>10. CASE CancelDeleteBill(h)
  BY <1>1, <1>10, IdleCart, BecomeKept DEF CancelDeleteBill, Request
<1>11. CASE CancelReopenOrder(h)
  BY <1>1, <1>11, IdleCart, BecomeKept DEF CancelReopenOrder, Request
<1>12. CASE ExpelWriteCart(h)
  BY <1>1, <1>12, BecomeKept DEF ExpelWriteCart, Request
<1>13. CASE ExpelReadFoods(h)
  BY <1>1, <1>13, BecomeKept DEF ExpelReadFoods, Request
<1>14. CASE ExpelDeleteFood(h)
  BY <1>1, <1>14, BecomeKept DEF ExpelDeleteFood, Request
<1>15. CASE RejectReadOrder(h)
  BY <1>1, <1>15, BecomeKept DEF RejectReadOrder, Request
<1>16. CASE RejectReadFoods(h)
  BY <1>1, <1>16, BecomeKept DEF RejectReadFoods, Request
<1>17. CASE RejectFood(h)
  BY <1>1, <1>17, IdleCart, BecomeKept DEF RejectFood, Request
<1>18. CASE \/ Notify(h) \/ CheckUsername(h) \/ FindClient(h) \/ CreateClient(h)
            \/ Reconnect(h) \/ LeaveDeleteClient(h) \/ GoOffline(h)
            \/ SelectReadBill(h) \/ SelectPush(h) \/ DeselectReadBill(h)
            \/ OrderReadGroup(h) \/ ClearCart(h) \/ SetBillMethod(h)
            \/ AdminWriteOrder(h) \/ CompleteSession(h) \/ ExpelDeleteClient(h)
            \/ RejectSession(h)
  <2>1. (\E l : Goto(h, l)) \/ Answer(h) \/ (\E t, l : Call(h, t, l))
    BY <1>18
       DEF Notify, CheckUsername, FindClient, CreateClient, Reconnect,
           LeaveDeleteClient, GoOffline, SelectReadBill, SelectPush,
           DeselectReadBill, OrderReadGroup, ClearCart, SetBillMethod,
           AdminWriteOrder, CompleteSession, ExpelDeleteClient, RejectSession
  <2> QED
    BY SMTT(30), <1>2, <2>1
<1>19. CASE SetBill(h)
  <2> DEFINE new(b) == [req[h] EXCEPT !.pc = "adminWrite", !.paid = b]
  <2>1. \A b : new(b).cart = req[h].cart
    BY <1>1 DEF Request
  <2>2. Answer(h) \/ \E b : req' = [req EXCEPT ![h] = new(b)]
    BY <1>19 DEF SetBill
  <2> HIDE DEF new
  <2> QED
    BY <2>1, <2>2, AnswerKept, BecomeKept
<1> QED
  BY <1>3, <1>4, <1>5, <1>6, <1>7, <1>8, <1>9, <1>10, <1>11, <1>12, <1>13, <1>14,
     <1>15, <1>16, <1>17, <1>18, <1>19
     DEF Continue

\* The request that orders a list drops it, and no other touches it.
LEMMA DropsLists ==
  ASSUME TypeInv, NEW h \in Handlers, Arrive(h) \/ Continue(h)
  PROVE  ListsDropped
<1>1. CASE Arrive(h)
  BY <1>1, ArrivesAtIdle DEF ListsDropped, WriteLabels, At
<1>2. CASE Continue(h)
  <2>1. Others(h)
    BY <1>2, ContinueNearer
  <2>2. ASSUME req[h].pc \in WriteLabels
        PROVE  req'[h].pc \in WriteLabels \/ req'[h].cart = <<>>
    <3>1. \/ OrderReadGroup(h) \/ InsertOrder(h) \/ SetBillMethod(h)
          \/ UpdateWrite(h)
      BY <1>2, <2>2
         DEF Continue, WriteLabels, At, FindSession, CreateSession, Notify,
             CheckUsername, FindClient, CreateClient, Reconnect, LeaveReadFoods,
             LeaveDeleteClient, GoOffline, SelectReadBill, SelectPush,
             DeselectReadBill, DeselectWrite, ClearCart, FoodWrite,
             AdminReadOrder, CreateBill, SetBill, AdminWriteOrder,
             CompleteSession, CancelDeleteBill, CancelReopenOrder,
             ExpelReadClient, ExpelWriteCart, ExpelReadFoods, ExpelDeleteFood,
             ExpelDeleteClient, RejectReadOrder, RejectReadFoods, RejectFood,
             RejectSession
    <3>2. CASE OrderReadGroup(h) \/ SetBillMethod(h)
      BY <3>2, OrderReads, IdleCart DEF WriteLabels
    <3>3. req[h] \in Request
      BY DEF TypeInv, TypeOK
    <3>4. [req[h] EXCEPT !.pc = "clearCart", !.cart = <<>>].cart = <<>>
      BY <3>3 DEF Request
    <3>5. CASE InsertOrder(h) \/ UpdateWrite(h)
      BY <3>4, <3>5, BecomeMove, AnswerMove, IdleCart DEF InsertOrder, UpdateWrite
    <3> QED
      BY <3>1, <3>2, <3>5
  <2> QED
    BY <2>1, <2>2 DEF ListsDropped, Others
<1> QED
  BY <1>1, <1>2

----------------------------------------------------------------------------
\* The carts of the rows.

\* Rows that keep their cart.
LEMMA CartsStay ==
  ASSUME CartEntriesUnique, \A g \in Groups : group'[g].cart = group[g].cart
  PROVE  CartEntriesUnique'
BY DEF CartEntriesUnique

\* One row is given a cart that is distinct.
LEMMA CartWritten ==
  ASSUME TypeOK, CartEntriesUnique, NEW g, NEW cart,
         group' = [group EXCEPT ![g].cart = cart], Distinct(cart)
  PROVE  CartEntriesUnique'
<1>1. \A k \in Groups : group'[k].cart \in {group[k].cart, cart}
  BY DEF TypeOK, GroupRow
<1> QED
  BY <1>1 DEF CartEntriesUnique, Distinct

\* A push.
LEMMA SelectPushUnique ==
  ASSUME TypeInv, CartEntriesUnique, NEW h \in Handlers, SelectPush(h)
  PROVE  CartEntriesUnique'
<1>1. TypeOK
  BY DEF TypeInv
<1>2. PICK i \in Pick(FreshItems) :
        group' = [group EXCEPT ![req[h].g].cart =
                    Append(@, [id |-> i, user |-> req[h].c])]
  BY DEF SelectPush
<1>3. i \in FreshItems
  BY <1>2 DEF Pick
<1> DEFINE g == req[h].g
           e == [id |-> i, user |-> req[h].c]
<1>4. CASE g \notin Groups
  BY <1>1, <1>2, <1>4 DEF TypeOK, CartEntriesUnique
<1>5. CASE g \in Groups
  <2>1. e \in Entry
    BY <1>1, <1>3 DEF TypeOK, Request, Entry, FreshItems
  <2>2. e.id \notin Ids(group[g].cart)
    BY <1>3, <1>5 DEF FreshItems
  <2>3. group[g].cart \in Seq(Entry) /\ Distinct(group[g].cart)
    BY <1>1, <1>5 DEF TypeOK, GroupRow, CartEntriesUnique, Distinct
  <2>4. group' = [group EXCEPT ![g].cart = Append(group[g].cart, e)]
    BY <1>1, <1>2, <1>5 DEF TypeOK
  <2> HIDE DEF e, g
  <2>5. Distinct(Append(group[g].cart, e))
    BY <2>1, <2>2, <2>3, AppendDistinct
  <2> QED
    BY <1>1, <2>4, <2>5, CartWritten
<1> QED
  BY <1>4, <1>5

\* The cart that was read, less one entry, is written back over whatever the row
\* holds by now.
LEMMA DeselectWriteUnique ==
  ASSUME TypeOK, CartEntriesUnique, CopiesOK, NEW h \in Handlers,
         DeselectWrite(h)
  PROVE  CartEntriesUnique'
<1>1. req[h].cart \in Seq(Entry) /\ Distinct(req[h].cart)
  BY DEF TypeOK, Request, CopiesOK, DeselectWrite, At, WriteLabels
<1>2. Distinct(Splice(req[h].cart, req[h].item))
  BY <1>1, SpliceDistinct
<1>3. group' = [group EXCEPT ![req[h].g].cart = Splice(req[h].cart, req[h].item)]
  BY DEF DeselectWrite
<1> QED
  BY <1>2, <1>3, CartWritten

\* What was left of the cart is written.
LEMMA ExpelWriteCartUnique ==
  ASSUME TypeOK, CartEntriesUnique, CopiesOK, NEW h \in Handlers,
         ExpelWriteCart(h)
  PROVE  CartEntriesUnique'
BY CartWritten DEF ExpelWriteCart, CopiesOK, At, WriteLabels

\* A session starts with an empty cart.
LEMMA CreateSessionUnique ==
  ASSUME TypeOK, CartEntriesUnique, NEW h \in Handlers, CreateSession(h)
  PROVE  CartEntriesUnique'
<1>1. PICK g :
        group' = [group EXCEPT ![g] = NewSession(req[h].t)]
  BY DEF CreateSession
<1>2. \A k \in Groups : group'[k].cart \in {group[k].cart, <<>>}
  BY <1>1 DEF TypeOK, NewSession, NoGroup
<1> QED
  BY <1>2, EmptyDistinct DEF CartEntriesUnique, Distinct

\* A step that writes a status keeps the carts.
LEMMA StatusUnique ==
  ASSUME TypeOK, CartEntriesUnique, NEW g, NEW x,
         group' = [group EXCEPT ![g].status = x]
  PROVE  CartEntriesUnique'
<1>1. \A k \in Groups : group'[k].cart = group[k].cart
  BY DEF TypeOK, GroupRow
<1> QED
  BY <1>1, CartsStay

\* No continuation doubles an entry of a row.
LEMMA ContinueUnique ==
  ASSUME CartInv, NEW h \in Handlers, Continue(h)
  PROVE  CartEntriesUnique'
<1>1. TypeInv /\ TypeOK /\ CartEntriesUnique /\ CopiesOK
  BY DEF CartInv, TypeInv
<1>2. CASE UNCHANGED group
  BY <1>1, <1>2, CartsStay
<1>3. CASE \/ SelectPush(h) \/ DeselectWrite(h) \/ ExpelWriteCart(h)
           \/ CreateSession(h)
  BY <1>1, <1>3, SelectPushUnique, DeselectWriteUnique, ExpelWriteCartUnique,
     CreateSessionUnique
<1>4. CASE ClearCart(h)
  BY <1>1, <1>4, CartWritten, EmptyDistinct DEF ClearCart
<1>5. CASE RejectSession(h)
  BY <1>1, <1>5, StatusUnique DEF RejectSession
<1>6. CASE CompleteSession(h)
  BY <1>1, <1>6, StatusUnique DEF CompleteSession
<1>7. CASE AdminWriteOrder(h)
  BY <1>1, <1>2, <1>7, StatusUnique DEF AdminWriteOrder
<1>8. CASE ~(\/ SelectPush(h) \/ DeselectWrite(h) \/ ExpelWriteCart(h)
             \/ CreateSession(h) \/ ClearCart(h) \/ RejectSession(h)
             \/ CompleteSession(h) \/ AdminWriteOrder(h))
  <2>1. UNCHANGED group
    BY <1>8
       DEF Continue, rows, FindSession, Notify, CheckUsername, FindClient,
           CreateClient, Reconnect, LeaveReadFoods, LeaveDeleteClient,
           GoOffline, SelectReadBill, DeselectReadBill, OrderReadGroup,
           InsertOrder, SetBillMethod, UpdateWrite, FoodWrite, AdminReadOrder,
           CreateBill, SetBill, CancelDeleteBill, CancelReopenOrder,
           ExpelReadClient, ExpelReadFoods, ExpelDeleteFood,
           ExpelDeleteClient, RejectReadOrder, RejectReadFoods, RejectFood
  <2> QED
    BY <1>2, <2>1
<1> QED
  BY <1>3, <1>4, <1>5, <1>6, <1>7, <1>8

\* No arrival does: the WebSocket clearTable writes a status only.
LEMMA ArriveUnique ==
  ASSUME CartInv, NEW h \in Handlers, Arrive(h)
  PROVE  CartEntriesUnique'
<1>1. TypeInv /\ TypeOK /\ CartEntriesUnique
  BY DEF CartInv, TypeInv
<1>2. CASE WsClearTable(h)
  <2>1. PICK g \in Existing, x \in ClearStatuses :
          group' = [group EXCEPT ![g] = Cleared(group[g], x)]
    BY <1>1, <1>2, WsClearTableMove
  <2>2. \A k \in Groups : group'[k].cart = group[k].cart
    BY <1>1, <2>1 DEF TypeOK, GroupRow, Cleared, Existing
  <2> QED
    BY <1>1, <2>2, CartsStay
<1>3. CASE ~WsClearTable(h)
  <2>1. UNCHANGED group
    BY <1>3
       DEF Arrive, rows, JoinTable, LeaveTable, Disconnect, SelectFood,
           DeselectFood, CreateOrder, UpdateOrder, AdminUpdateClientOrder,
           AdminDeleteClientList, DeleteClientIdInFoodOrder, ClearTable
  <2> QED
    BY <1>1, <2>1, CartsStay
<1> QED
  BY <1>2, <1>3

----------------------------------------------------------------------------
\* The invariant.

\* No step gives a handler a copy with an entry twice.
LEMMA CopiesStep ==
  ASSUME CartInv, NEW h \in Handlers, Arrive(h) \/ Continue(h)
  PROVE  CopiesOK'
<1>1. TypeInv /\ TypeOK /\ CartEntriesUnique /\ CopiesOK
  BY DEF CartInv, TypeInv
<1>4. ListsDropped
  BY <1>1, DropsLists
<1>2. CASE Arrive(h)
  BY <1>1, <1>2, <1>4, OrderOK, ArriveKept, KeptOK
<1>3. CASE Continue(h)
  BY <1>1, <1>3, <1>4, FindSessionOK, CreateSessionOK, ExpelReadClientOK, ContinueKept,
     KeptOK
<1> QED
  BY <1>2, <1>3

\* The invariant is inductive.
LEMMA CartStep ==
  ASSUME CartInv, [Next]_vars
  PROVE  CartInv'
<1>1. TypeInv'
  BY NextInv DEF CartInv
<1>2. ASSUME NEW h \in Handlers, Arrive(h) \/ Continue(h) PROVE CartInv'
  BY <1>1, <1>2, CopiesStep, ArriveUnique, ContinueUnique DEF CartInv
<1>3. CASE Crash
  <2>1. CartEntriesUnique'
    BY <1>3, CartsStay DEF Crash, rows, CartInv
  <2>2. CopiesOK'
    BY <1>3, IdleCart, EmptyDistinct DEF Crash, CopiesOK
  <2> QED
    BY <1>1, <2>1, <2>2 DEF CartInv
<1>4. CASE UNCHANGED vars
  <2>1. CartEntriesUnique' /\ CopiesOK'
    BY <1>4 DEF CartInv, CartEntriesUnique, CopiesOK, vars
  <2> QED
    BY <1>1, <2>1 DEF CartInv
<1> QED
  BY <1>2, <1>3, <1>4 DEF Next, Rest

\* It holds in an empty restaurant.
LEMMA InitCarts == Init => CartInv
<1> SUFFICES ASSUME Init PROVE CartInv
  OBVIOUS
<1>1. CartEntriesUnique
  BY DEF Init, NoGroup, CartEntriesUnique
<1>2. CopiesOK
  BY IdleCart, EmptyDistinct DEF Init, CopiesOK
<1> QED
  BY <1>1, <1>2, InitInv DEF CartInv

\* Pushes, whole-cart writes from an older copy, and removals of guests, in any
\* number and order, never leave an entry twice in a cart (selectFood,
\* deselectFood, deleteFoodOrderOrRemoveClientInFoodOrder).
THEOREM EntriesUnique == Spec => []CartEntriesUnique
<1>1. CartInv => CartEntriesUnique
  BY DEF CartInv
<1>2. CartInv /\ [Next]_vars => CartInv'
  BY CartStep
<1> QED
  BY <1>1, <1>2, InitCarts, PTL DEF Spec

----------------------------------------------------------------------------
\* A paid bill closes its session.  In an instance without restarts some request
\* is about to do it; and a session with a bill exists, so it is not opened
\* after the bill was paid.
NoRestart == "crash" \notin Kinds
PaymentFits ==
  /\ PaymentInHand
  /\ \A g \in Groups : bill[g].status # "none" => g \in Existing

Takes(h, g) ==
  /\ req[h].pc \in {"adminWrite", "complete"}
  /\ req[h].g = g /\ req[h].paid

\* A step that pays no bill, creates no session and keeps who takes a payment at
\* it.
LEMMA PaymentKept ==
  ASSUME TypeInv, PaymentFits, ClosesAtMostOne \/ ReopensOne,
         \A g \in Groups : bill'[g].status \in {"none", bill[g].status},
         \A g \in Groups, h \in Handlers : Takes(h, g) => Takes(h, g)'
  PROVE  PaymentFits'
<1>1. Existing \subseteq Existing'
  BY DEF ClosesAtMostOne, ReopensOne, Existing, Closed
<1>2. \A g \in Groups : group'[g].status = "IN_PROGRESS" /\ ~group'[g].reopened
                         => group[g].status = "IN_PROGRESS" /\ ~group[g].reopened
  BY DEF ClosesAtMostOne, ReopensOne, Closed
<1>3. ASSUME NEW g \in Groups, bill'[g].status = "PAID",
             group'[g].status = "IN_PROGRESS", ~group'[g].reopened
      PROVE  \E h \in Handlers : Takes(h, g)'
  BY <1>2, <1>3 DEF PaymentFits, PaymentInHand, Takes
<1> QED
  BY <1>1, <1>3 DEF PaymentFits, PaymentInHand, Takes

\* A new session has no bill.
LEMMA PaymentOpened ==
  ASSUME TypeInv, PaymentFits, NEW h \in Handlers, CreateSession(h)
  PROVE  PaymentFits'
<1>1. PICK g \in Groups \ Existing :
        /\ \A k \in Groups \ {g} : group'[k] = group[k]
        /\ group'[g].status = "IN_PROGRESS"
  BY CreateStep
<1>2. /\ UNCHANGED bill /\ Others(h) /\ At(h, "createGroup")
  BY CreateSessionMove
<1>3. bill[g].status = "none"
  BY <1>1 DEF PaymentFits
<1>4. \A k \in Groups, i \in Handlers : Takes(i, k) => Takes(i, k)'
  BY <1>2 DEF Takes, Others, At
<1> QED
  BY <1>1, <1>2, <1>3, <1>4 DEF PaymentFits, PaymentInHand, Takes, Existing

\* A bill is made out for an order, so for a session that is there; it is paid by
\* a request that goes on to close the session.
LEMMA PaymentTaken ==
  ASSUME TypeInv, PaymentFits, NEW h \in Handlers, CreateBill(h) \/ SetBill(h)
  PROVE  PaymentFits'
<1>1. /\ UNCHANGED group /\ Others(h) /\ req[h].g \in Groups
      /\ req[h].pc \in {"createBill", "setBill"}
      /\ \A k \in Groups \ {req[h].g} : bill'[k].status = bill[k].status
      /\ \A k \in Groups : bill'[k].status = "PAID"
                           => bill[k].status = "PAID" \/ Takes(h, k)'
  <2>0. req[h].pc \in {"createBill", "setBill"}
    BY DEF CreateBill, SetBill, At
  <2>1. req[h].g \in Groups
    BY <2>0, SessionFit DEF TypeInv, SessionLabels, OrderLabels
  <2>2. CASE CreateBill(h)
    BY <2>0, <2>1, <2>2, CreateBillMove
  <2>3. CASE SetBill(h)
    <3>1. /\ UNCHANGED group /\ Others(h)
          /\ \/ UNCHANGED bill
             \/ /\ \A k \in Groups \ {req[h].g} : bill'[k] = bill[k]
                /\ bill'[req[h].g].status = NewBill(req[h])
                /\ req'[h].pc = "adminWrite" /\ req'[h].g = req[h].g
                /\ NewBill(req[h]) = "PAID" => req'[h].paid
      BY <2>3, SetBillMove
    <3>2. CASE UNCHANGED bill
      BY <2>0, <2>1, <3>1, <3>2
    <3>3. CASE /\ \A k \in Groups \ {req[h].g} : bill'[k] = bill[k]
               /\ bill'[req[h].g].status = NewBill(req[h])
               /\ req'[h].pc = "adminWrite" /\ req'[h].g = req[h].g
               /\ NewBill(req[h]) = "PAID" => req'[h].paid
      BY <2>0, <2>1, <3>1, <3>3 DEF Takes
    <3> QED
      BY <3>1, <3>2, <3>3
  <2> QED
    BY <2>2, <2>3
<1>2. req[h].g \in Existing
  BY <1>1, SessionFit DEF TypeInv, SessionLabels, OrderLabels
<1>3. \A k \in Groups, i \in Handlers : Takes(i, k) => Takes(i, k)'
  BY <1>1 DEF Takes, Others
<1>4. ASSUME NEW g \in Groups, bill'[g].status = "PAID",
             group'[g].status = "IN_PROGRESS", ~group'[g].reopened
      PROVE  \E i \in Handlers : Takes(i, g)'
  <2>1. CASE bill[g].status = "PAID"
    <3>1. \E i \in Handlers : Takes(i, g)
      BY <1>1, <1>4, <2>1 DEF PaymentFits, PaymentInHand, Takes
    <3> QED
      BY <1>3, <3>1
  <2>2. CASE bill[g].status # "PAID"
    BY <1>1, <1>4, <2>2
  <2> QED
    BY <2>1, <2>2
<1>5. \A g \in Groups : bill'[g].status # "none" => g \in Existing'
  BY <1>1, <1>2 DEF PaymentFits, Existing
<1>6. PaymentInHand'
  BY <1>4 DEF PaymentInHand, Takes
<1> QED
  BY <1>5, <1>6 DEF PaymentFits

\* A step of a request that takes a payment writes the order, and keeps at it, or
\* closes the session.
LEMMA PaymentDone ==
  ASSUME TypeInv, PaymentFits, ClosesAtMostOne \/ ReopensOne, NEW h \in Handlers,
         AdminWriteOrder(h) \/ CompleteSession(h)
  PROVE  PaymentFits'
<1>1. CASE AdminWriteOrder(h)
  <2>1. /\ UNCHANGED bill /\ Others(h)
        /\ req[h].paid => req'[h].pc = "complete" /\ KeepsSubject(h)
    BY <1>1, AdminWriteOrderMove
  <2>2. \A k \in Groups, i \in Handlers : Takes(i, k) => Takes(i, k)'
    BY <2>1 DEF Takes, Others, KeepsSubject
  <2> QED
    BY <2>1, <2>2, PaymentKept
<1>2. CASE CompleteSession(h)
  <2>1. /\ UNCHANGED bill /\ Others(h) /\ req[h].g \in Groups
        /\ group' = [group EXCEPT ![req[h].g].status = "COMPLETED"]
    <3>1. At(h, "complete")
      BY <1>2, CompleteSessionMove
    <3>2. req[h].g \in Groups
      BY <3>1, SessionFit DEF At, TypeInv, SessionLabels, OrderLabels
    <3> QED
      BY <1>2, <3>2, CompleteSessionMove
  <2>2. \A g \in Groups : group'[g].status = IF g = req[h].g THEN "COMPLETED"
                                                            ELSE group[g].status
    BY <2>1 DEF TypeInv, TypeOK, GroupRow
  <2>3. \A k \in Groups \ {req[h].g}, i \in Handlers : Takes(i, k) => Takes(i, k)'
    BY <2>1 DEF Takes, Others
  <2> QED
    BY <2>1, <2>2, <2>3 DEF PaymentFits, PaymentInHand, Takes, Existing
<1> QED
  BY <1>1, <1>2

\* Every other step leaves the bills alone, or deletes one.
LEMMA PaymentElsewhere ==
  ASSUME TypeInv, PaymentFits, ClosesAtMostOne \/ ReopensOne, NEW h \in Handlers,
         Arrive(h) \/ Continue(h),
         ~CreateSession(h), ~CreateBill(h), ~SetBill(h), ~AdminWriteOrder(h),
         ~CompleteSession(h)
  PROVE  PaymentFits'
<1>1. CASE Arrive(h)
  <2>1. UNCHANGED bill
    BY <1>1 DEF Arrive, JoinTable, LeaveTable, Disconnect, SelectFood,
       DeselectFood, CreateOrder, UpdateOrder, AdminUpdateClientOrder,
       AdminDeleteClientList, DeleteClientIdInFoodOrder, WsClearTable,
       ClearTable, rows
  <2>2. \A k \in Groups, i \in Handlers : Takes(i, k) => Takes(i, k)'
    BY <1>1, ArrivesAtIdle DEF Takes, At
  <2> QED
    BY <2>1, <2>2, PaymentKept
<1>2. CASE Continue(h)
  <2>1. Others(h)
    BY <1>2, ContinueNearer
  <2>2. req[h].pc \notin {"adminWrite", "complete"}
    BY <1>2 DEF Continue, FindSession, Notify, CheckUsername, FindClient,
       CreateClient, Reconnect, LeaveReadFoods, LeaveDeleteClient, GoOffline,
       SelectReadBill, SelectPush, DeselectReadBill, DeselectWrite,
       OrderReadGroup, InsertOrder, ClearCart, SetBillMethod, UpdateWrite,
       FoodWrite, AdminReadOrder, CancelDeleteBill, CancelReopenOrder,
       ExpelReadClient, ExpelWriteCart, ExpelReadFoods, ExpelDeleteFood,
       ExpelDeleteClient, RejectReadOrder, RejectReadFoods, RejectFood,
       RejectSession, At
  <2>3. \A k \in Groups, i \in Handlers : Takes(i, k) => Takes(i, k)'
    BY <2>1, <2>2 DEF Takes, Others
  <2>4. UNCHANGED bill \/ CancelDeleteBill(h)
    BY <1>2 DEF Continue, FindSession, Notify, CheckUsername, FindClient,
       CreateClient, Reconnect, LeaveReadFoods, LeaveDeleteClient, GoOffline,
       SelectReadBill, SelectPush, DeselectReadBill, DeselectWrite,
       OrderReadGroup, InsertOrder, ClearCart, SetBillMethod, UpdateWrite,
       FoodWrite, AdminReadOrder, CancelReopenOrder,
       ExpelReadClient, ExpelWriteCart, ExpelReadFoods, ExpelDeleteFood,
       ExpelDeleteClient, RejectReadOrder, RejectReadFoods, RejectFood,
       RejectSession, rows
  <2>5. \A g \in Groups : bill'[g].status \in {"none", bill[g].status}
    <3>1. CASE UNCHANGED bill
      BY <3>1
    <3>2. CASE CancelDeleteBill(h)
      <4>1. bill' = [bill EXCEPT ![req[h].g] = NoBill]
        BY <3>2 DEF CancelDeleteBill
      <4> QED
        BY <4>1 DEF TypeInv, TypeOK, NoBill
    <3> QED
      BY <2>4, <3>1, <3>2
  <2> QED
    BY <2>3, <2>5, PaymentKept
<1> QED
  BY <1>1, <1>2

\* In every state with a paid bill the session is over, or the request that took the
\* payment is about to end it, or a waiter opened the session again, for any number
\* of waiters and guests at a time.
THEOREM PaymentsInHand ==
  ASSUME NoRestart
  PROVE  Spec => []PaymentInHand
<1>1. Init => PaymentFits
  BY DEF Init, PaymentFits, PaymentInHand, NoBill
<1>2. TypeInv /\ PaymentFits /\ [Next]_vars => PaymentFits'
  <2> SUFFICES ASSUME TypeInv, PaymentFits, [Next]_vars
               PROVE  PaymentFits'
    OBVIOUS
  <2>1. CASE \E h \in Handlers : CreateSession(h)
    BY <2>1, PaymentOpened
  <2>2. CASE ~ \E h \in Handlers : CreateSession(h)
    <3>1. ClosesAtMostOne \/ ReopensOne
      BY <2>2, SessionStep
    <3>2. ASSUME NEW h \in Handlers, Arrive(h) \/ Continue(h)
          PROVE  PaymentFits'
      BY <2>2, <3>1, <3>2, PaymentTaken, PaymentDone, PaymentElsewhere
    <3>3. CASE UNCHANGED vars
      BY <3>1, <3>3, PaymentKept DEF vars, Takes
    <3> QED
      BY <3>2, <3>3 DEF Next, Rest, Crash, NoRestart
  <2> QED
    BY <2>1, <2>2
<1>3. PaymentFits => PaymentInHand
  BY DEF PaymentFits
<1> QED
  BY <1>1, <1>2, <1>3, InvariantHolds, PTL DEF Spec
=============================================================================
