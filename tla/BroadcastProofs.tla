-------------------------- MODULE BroadcastProofs --------------------------
(***************************************************************************)
(* What the kitchen sees and what the guests' devices show, with requests  *)
(* one at a time: the broadcasts add no step to the server, so its own     *)
(* invariants hold, and these are about what it tells.                     *)
(***************************************************************************)
EXTENDS Broadcast, SerialProofs

----------------------------------------------------------------------------
\* The server with its broadcasts is the server.

\* A step of Broadcast is a step of Menuler or none.
LEMMA StepProjects == [BroadcastNext]_<<vars, devices>> => [Next]_vars
BY DEF BroadcastNext, Next, ReadOrders, EmitOrders, GetCurrentOrder, SendLate,
       Restart, devices

\* The behaviours with broadcasts are behaviours of the server.
LEMMA BroadcastRefines == BroadcastSpec => Spec
<1>1. BroadcastInit => Init
  BY DEF BroadcastInit
<1> QED
  BY <1>1, StepProjects, PTL DEF BroadcastSpec, Spec

----------------------------------------------------------------------------
\* The kitchen's list.

\* The kitchen sees order g in list S, or the list is full of newer ones.
Seen(g, S) == g \in S \/ Cardinality(Newer(g, S)) >= KitchenSize

\* A list is full before it leaves an open order out.  Of those left out the one
\* with the fewest newer ones has only listed ones before it, so they are enough;
\* and all that are listed are newer than any that is left out.
LEMMA NewestAreSeen ==
  ASSUME IsFiniteSet(Groups), createAt \in [Groups -> Nat], NEW g \in Open
  PROVE  Seen(g, Listed)
<1> DEFINE Rank(k) == Cardinality(Newer(k, Open))
           Left == Open \ Listed
<1> SUFFICES ASSUME g \in Left
             PROVE  Cardinality(Newer(g, Listed)) >= KitchenSize
  BY DEF Seen
<1>1. Open \subseteq Groups /\ IsFiniteSet(Open)
  BY FS_Subset DEF Open
<1>2. Listed \subseteq Open /\ IsFiniteSet(Listed)
  <2>1. Listed \subseteq Open
    BY DEF Listed
  <2> QED
    BY <1>1, <2>1, FS_Subset
<1>3. \A k : IsFiniteSet(Newer(k, Open)) /\ Rank(k) \in Nat
  <2>1. ASSUME NEW k
        PROVE  IsFiniteSet(Newer(k, Open))
    <3>1. Newer(k, Open) \subseteq Open
      BY DEF Newer
    <3> QED
      BY <1>1, <3>1, FS_Subset
  <2> QED
    BY <2>1, FS_CardinalityType
<1>4. \A k \in Open : k \in Listed <=> Rank(k) < KitchenSize
  BY DEF Listed
<1>5. KitchenSize \in Nat /\ Cardinality(Listed) \in Nat
  BY <1>2, KitchenAssumption, FS_CardinalityType
<1>6. Newer(g, Listed) = Listed
  <2>1. ASSUME NEW m \in Listed, ~(createAt[m] > createAt[g])
        PROVE  FALSE
    <3>1. Newer(g, Open) \subseteq Newer(m, Open)
      BY <1>1, <1>2, <2>1 DEF Newer
    <3>2. Rank(g) <= Rank(m)
      BY <1>3, <3>1, FS_Subset
    <3> HIDE DEF Rank
    <3> QED
      BY <1>2, <1>3, <1>4, <1>5, <2>1, <3>2
  <2> QED
    BY <2>1 DEF Newer
<1>7. Cardinality(Listed) >= KitchenSize
  <2>1. PICK m \in Left : \A k \in Left : Rank(m) <= Rank(k)
    <3> DEFINE R == {Rank(k) : k \in Left}
    <3>1. R \subseteq Nat /\ R # {}
      <4> HIDE DEF Rank
      <4> QED
        BY <1>3
    <3>2. PICK n \in R : \A r \in R : n <= r
      <4> HIDE DEF R
      <4> QED
        BY <3>1, LeastNatural
    <3> HIDE DEF Rank
    <3> QED
      BY <3>2
  <2>2. ASSUME NEW k \in Newer(m, Open)
        PROVE  k \in Listed
    <3>1. k \in Open /\ createAt[k] > createAt[m]
      BY <2>2 DEF Newer
    <3>2. /\ Newer(k, Open) \subseteq Newer(m, Open)
          /\ k \notin Newer(k, Open)
      BY <1>1, <3>1 DEF Newer
    <3>3. Rank(k) <= Rank(m) /\ Rank(k) # Rank(m)
      BY <1>3, <2>2, <3>2, FS_Subset
    <3> HIDE DEF Rank
    <3>4. ~(Rank(m) <= Rank(k))
      BY <1>3, <3>3
    <3> QED
      BY <2>1, <3>1, <3>4
  <2>3. Rank(m) <= Cardinality(Listed)
    BY <1>2, <2>2, FS_Subset
  <2> HIDE DEF Rank
  <2> QED
    BY <1>3, <1>4, <1>5, <2>3
<1> QED
  BY <1>6, <1>7

----------------------------------------------------------------------------
\* The board.

\* An order still open in a session that goes on is on the board, or was pushed
\* off it by newer ones, unless a list is on its way; and one that is paid belongs
\* to a session that a request is about to complete.
Asking == \E h \in Handlers : Fetching(h)
Completing(g) == \E h \in Handlers : At(h, "complete") /\ req[h].g = g
BoardFits(g) ==
  GoesOn(g) => \/ order[g].status = "none"
               \/ g \in Open /\ (Asking \/ Seen(g, board))
               \/ Completing(g)

\* A list that a handler has read is the list as it is.
ListFits(h) == listing[h].step = "emit" => listing[h].orders = Listed

BoardInv ==
  /\ createAt \in [Groups -> Nat]
  /\ listing \in [Handlers -> Listing]
  /\ board \subseteq Ordered
  /\ \A h \in Handlers : ListFits(h)
  /\ \A g \in Groups : BoardFits(g)

\* What a step may do to the sessions and orders that go on.
SessionsGoOn ==
  \A g \in Groups : GoesOn(g)' => GoesOn(g) \/ order'[g].status = "none"
OrdersGoOn(h) ==
  \A g \in Groups : GoesOn(g)' =>
    \/ order'[g].status = order[g].status
    \/ g \in Open' /\ (order[g].status # "none" \/ KitchenTold(h))
    \/ Completing(g)'
CompletionsGoOn ==
  \A g \in Groups : Completing(g) => Completing(g)' \/ ~GoesOn(g)'
SameStatus == \A g \in Groups : order'[g].status = order[g].status

\* Such a step keeps the board right.
LEMMA BoardKept ==
  ASSUME OneAtATime, IsFiniteSet(Groups), BoardInv, NEW h \in Handlers, Tell,
         SessionsGoOn, OrdersGoOn(h), CompletionsGoOn, Ordered \subseteq Ordered',
         SameStatus \/ req'[h].pc # req[h].pc
  PROVE  BoardInv'
<1>1. /\ board' = board
      /\ createAt' = [g \in Groups |-> CreateAt(g)]
      /\ listing'[h] = IF KitchenTold(h) THEN Asked ELSE listing[h]
      /\ Fetching(h) => req'[h] = req[h]
  BY DEF Tell
<1>2. \A k \in Handlers : k = h
  BY DEF OneAtATime
<1>3. createAt' \in [Groups -> Nat]
  <2>1. Cardinality({k \in Groups : order[k].status # "none"}) \in Nat
    BY FS_Subset, FS_CardinalityType
  <2> QED
    BY <1>1, <2>1 DEF BoardInv, CreateAt
<1>4. \A g \in Ordered : createAt'[g] = createAt[g]
  BY <1>1 DEF CreateAt, Ordered
<1>5. ListFits(h)'
  <2> SUFFICES ASSUME listing'[h].step = "emit"
               PROVE  listing'[h].orders = Listed'
    BY DEF ListFits
  <2>1. listing'[h] = listing[h]
    BY <1>1 DEF Asked
  <2>2. SameStatus
    BY <1>1, <2>1 DEF Fetching
  <2>3. createAt' = createAt
    BY <1>1, <2>2 DEF SameStatus, CreateAt, BoardInv
  <2>4. Open' = Open
    BY <2>2 DEF SameStatus, Open
  <2>5. Listed' = Listed
    BY <2>3, <2>4 DEF Listed, Newer
  <2> QED
    BY <2>1, <2>5 DEF BoardInv, ListFits
<1>6. ASSUME NEW g \in Groups, GoesOn(g)', order'[g].status # "none",
             ~Completing(g)'
      PROVE  g \in Open' /\ (Asking' \/ Seen(g, board)')
  <2>1. GoesOn(g) /\ ~Completing(g)
    BY <1>6 DEF SessionsGoOn, CompletionsGoOn
  <2>2. \/ order[g].status = "none"
        \/ g \in Open /\ (Asking \/ Seen(g, board))
    BY <2>1 DEF BoardInv, BoardFits
  <2>3. g \in Open' /\ (order[g].status # "none" \/ KitchenTold(h))
    BY <1>6, <2>2 DEF OrdersGoOn, Open
  <2>4. CASE KitchenTold(h) \/ Asking
    BY <1>1, <1>2, <2>3, <2>4 DEF Asking, Fetching, Asked
  <2>5. CASE ~KitchenTold(h) /\ ~Asking
    <3>1. g \in Ordered /\ Seen(g, board)
      BY <2>2, <2>3, <2>5 DEF Ordered
    <3>2. Newer(g, board)' = Newer(g, board)
      BY <1>1, <1>4, <3>1 DEF BoardInv, Newer
    <3> QED
      BY <1>1, <2>3, <3>1, <3>2 DEF Seen
  <2> QED
    BY <2>4, <2>5
<1>7. \A g \in Groups : BoardFits(g)'
  BY <1>6 DEF BoardFits
<1>8. listing' \in [Handlers -> Listing]
  <2>1. listing' = [k \in Handlers |-> IF KitchenTold(k) THEN Asked ELSE listing[k]]
    BY DEF Tell
  <2>2. Asked \in Listing
    BY DEF Asked, Listing
  <2> QED
    BY <2>1, <2>2 DEF BoardInv
<1> QED
  BY <1>1, <1>2, <1>3, <1>5, <1>7, <1>8 DEF BoardInv

\* A step that writes the status of no order and opens no session.
LEMMA BoardSame ==
  ASSUME OneAtATime, IsFiniteSet(Groups), BoardInv, NEW h \in Handlers, Tell,
         ~At(h, "complete"), SameStatus, \A g \in Groups : GoesOn(g)' => GoesOn(g)
  PROVE  BoardInv'
<1>1. SessionsGoOn
  BY DEF SessionsGoOn
<1>2. OrdersGoOn(h)
  BY DEF OrdersGoOn, SameStatus
<1>3. CompletionsGoOn
  BY DEF CompletionsGoOn, Completing, OneAtATime
<1>4. Ordered \subseteq Ordered'
  BY DEF SameStatus, Ordered
<1> QED
  BY <1>1, <1>2, <1>3, <1>4, BoardKept

\* A step that writes neither.
LEMMA BoardStays ==
  ASSUME OneAtATime, IsFiniteSet(Groups), BoardInv, NEW h \in Handlers, Tell,
         ~At(h, "complete"), UNCHANGED <<group, order>>
  PROVE  BoardInv'
BY BoardSame DEF SameStatus, GoesOn

\* A message arrives.
LEMMA BoardArrive ==
  ASSUME OneAtATime, AwaitedRemovals, IsFiniteSet(Groups), TypeInv, BoardInv,
         NEW h \in Handlers, Arrive(h), Tell
  PROVE  BoardInv'
<1>1. CASE WsClearTable(h)
  <2>1. UNCHANGED order /\ At(h, "idle")
    BY <1>1, WsClearTableMove
  <2>2. PICK g \in Existing, x \in ClearStatuses :
          group' = [group EXCEPT ![g] = Cleared(group[g], x)]
    BY <1>1, WsClearTableMove
  <2>3. ASSUME NEW k \in Groups, GoesOn(k)'
        PROVE  GoesOn(k)
    <3>1. CASE k = g
      <4> DEFINE opened == x = "IN_PROGRESS" /\ group[k].status # "IN_PROGRESS"
      <4>1. /\ group'[k].status = x
            /\ group'[k].reopened = (group[k].reopened \/ opened)
        BY <2>2, <3>1 DEF Cleared, TypeInv, TypeOK, GroupRow
      <4> QED
        BY <2>3, <4>1, Zenon DEF GoesOn
    <3>2. CASE k # g
      BY <2>2, <2>3, <3>2 DEF GoesOn, TypeInv, TypeOK
    <3> QED
      BY <3>1, <3>2
  <2> QED
    BY <2>1, <2>3, BoardSame DEF At, SameStatus
<1>2. CASE ~WsClearTable(h)
  <2>1. UNCHANGED <<group, order>> /\ At(h, "idle")
    <3>1. CASE JoinTable(h) \/ LeaveTable(h) \/ Disconnect(h)
               \/ SelectFood(h) \/ DeselectFood(h)
      BY <3>1, GuestArrives DEF rows
    <3>2. CASE CreateOrder(h) \/ UpdateOrder(h) \/ AdminUpdateClientOrder(h)
               \/ ClearTable(h) \/ DeleteClientIdInFoodOrder(h)
      BY <3>2, CreateOrderMove, UpdateOrderMove, AdminArrives, ClearTableMove,
         DeleteClientIdMove
         DEF rows
    <3>3. ~AdminDeleteClientList(h)
      BY DEF AdminDeleteClientList, AwaitedRemovals
    <3> QED
      BY <1>2, <3>1, <3>2, <3>3 DEF Arrive
  <2> QED
    BY <2>1, BoardStays DEF At
<1> QED
  BY <1>1, <1>2

\* A look-up writes no session but the new one it makes, which has no order.
LEMMA BoardLookUp ==
  ASSUME OneAtATime, IsFiniteSet(Groups), TypeInv, BoardInv, NEW h \in Handlers,
         Tell, FindSession(h) \/ CreateSession(h)
  PROVE  BoardInv'
<1>1. CASE FindSession(h)
  BY <1>1, FindSessionMove, BoardStays DEF rows, At
<1>2. CASE CreateSession(h)
  <2>1. /\ UNCHANGED order /\ At(h, "createGroup")
        /\ req'[h].g \in Groups \ Existing
        /\ group' = [group EXCEPT ![req'[h].g] = NewSession(req[h].t)]
    BY <1>2, CreateSessionMove
  <2>2. PICK n \in Groups \ Existing : n = req'[h].g
    BY <2>1
  <2>3. \A g \in Groups \ {n} : group'[g] = group[g]
    BY <2>1, <2>2 DEF TypeInv, TypeOK
  <2>4. order[n].status = "none"
    BY <2>2 DEF TypeInv, RowsFit, Ordered
  <2>5. SessionsGoOn
    BY <2>1, <2>3, <2>4 DEF SessionsGoOn, GoesOn
  <2>6. OrdersGoOn(h) /\ SameStatus
    BY <2>1 DEF OrdersGoOn, SameStatus
  <2>7. CompletionsGoOn
    BY <2>1 DEF CompletionsGoOn, Completing, OneAtATime, At
  <2> QED
    BY <2>1, <2>5, <2>6, <2>7, BoardKept DEF Ordered
<1> QED
  BY <1>1, <1>2

\* What guests do, other than ordering, writes no order.
LEMMA BoardGuests ==
  ASSUME OneAtATime, IsFiniteSet(Groups), TypeInv, BoardInv, NEW h \in Handlers,
         Tell,
         \/ Notify(h) \/ CheckUsername(h) \/ FindClient(h) \/ CreateClient(h)
         \/ Reconnect(h) \/ LeaveReadFoods(h) \/ LeaveDeleteClient(h)
         \/ GoOffline(h) \/ SelectReadBill(h) \/ DeselectReadBill(h)
         \/ OrderReadGroup(h) \/ SetBillMethod(h)
         \/ SelectPush(h) \/ DeselectWrite(h) \/ ClearCart(h)
  PROVE  BoardInv'
<1>1. ~At(h, "complete")
  BY DEF Notify, CheckUsername, FindClient, CreateClient, Reconnect,
         LeaveReadFoods, LeaveDeleteClient, GoOffline, SelectReadBill,
         DeselectReadBill, OrderReadGroup, SetBillMethod, SelectPush,
         DeselectWrite, ClearCart, At
<1>2. CASE \/ Notify(h) \/ CheckUsername(h) \/ FindClient(h)
           \/ SelectReadBill(h) \/ DeselectReadBill(h)
           \/ OrderReadGroup(h) \/ SetBillMethod(h)
  BY <1>1, <1>2, NotifyMove, GuestReads, OrderReads, BoardStays DEF rows
<1>3. CASE CreateClient(h) \/ Reconnect(h)
  BY <1>1, <1>3, SeatedMove, BoardStays
<1>4. CASE LeaveReadFoods(h) \/ LeaveDeleteClient(h) \/ GoOffline(h)
  BY <1>1, <1>4, LeaveMove, BoardStays
<1>5. CASE SelectPush(h) \/ DeselectWrite(h) \/ ClearCart(h)
  <2>1. UNCHANGED order /\ \E c : group' = [group EXCEPT ![req[h].g].cart = c]
    BY <1>5, SelectPushMove, DeselectWriteMove, ClearCartMove
  <2>2. PICK c : group' = [group EXCEPT ![req[h].g].cart = c]
    BY <2>1
  <2>3. \A g \in Groups : GoesOn(g)' => GoesOn(g)
    BY <2>2 DEF TypeInv, TypeOK, GroupRow, GoesOn
  <2> QED
    BY <1>1, <2>1, <2>3, BoardSame DEF SameStatus
<1> QED
  BY <1>2, <1>3, <1>4, <1>5

\* The kitchen is told when food is ordered.
LEMMA BoardOrdered ==
  ASSUME OneAtATime, IsFiniteSet(Groups), TypeInv, BoardInv, NEW h \in Handlers,
         Tell, InsertOrder(h) \/ UpdateWrite(h)
  PROVE  BoardInv'
<1>1. CASE InsertOrder(h)
  <2>1. /\ UNCHANGED group /\ At(h, "insertOrder")
        /\ \/ UNCHANGED order
           \/ /\ order' = [order EXCEPT ![req[h].g] =
                             [status |-> "NOT_CHECKOUT", table |-> req[h].t,
                              overall |-> "PENDING"]]
              /\ req'[h].pc = "clearCart"
    BY <1>1, InsertOrderMove
  <2>2. CASE UNCHANGED order
    BY <2>1, <2>2, BoardStays DEF At
  <2>3. CASE /\ order' = [order EXCEPT ![req[h].g] =
                            [status |-> "NOT_CHECKOUT", table |-> req[h].t,
                             overall |-> "PENDING"]]
             /\ req'[h].pc = "clearCart"
    <3>1. KitchenTold(h)
      BY <2>1, <2>3 DEF KitchenTold, At
    <3>2. SessionsGoOn
      BY <2>1 DEF SessionsGoOn, GoesOn
    <3>3. /\ \A k \in Groups \ {req[h].g} : order'[k] = order[k]
          /\ req[h].g \in Groups => order'[req[h].g].status = "NOT_CHECKOUT"
      BY <2>3 DEF TypeInv, TypeOK
    <3>4. OrdersGoOn(h)
      BY <3>1, <3>3 DEF OrdersGoOn, Open
    <3>5. CompletionsGoOn
      BY <2>1 DEF CompletionsGoOn, Completing, OneAtATime, At
    <3>6. Ordered \subseteq Ordered'
      BY <3>3 DEF Ordered
    <3> QED
      BY <2>1, <2>3, <3>2, <3>4, <3>5, <3>6, BoardKept DEF At
  <2> QED
    BY <2>1, <2>2, <2>3
<1>2. CASE UpdateWrite(h)
  <2>1. /\ UNCHANGED group /\ ~At(h, "complete") /\ SameStatus
    BY <1>2, UpdateWriteMove DEF At, SameStatus
  <2> QED
    BY <2>1, BoardSame DEF GoesOn
<1> QED
  BY <1>1, <1>2

\* Food and bills are written.
LEMMA BoardBilled ==
  ASSUME OneAtATime, IsFiniteSet(Groups), TypeInv, BoardInv, NEW h \in Handlers,
         Tell,
         FoodWrite(h) \/ AdminReadOrder(h) \/ CreateBill(h) \/ SetBill(h)
  PROVE  BoardInv'
BY FoodWriteMove, AdminReadOrderMove, CreateBillMove, SetBillMove, BoardStays
   DEF rows, At

\* The waiter writes the order: it is open, or its session is rejected or about
\* to be completed.
LEMMA BoardWritten ==
  ASSUME OneAtATime, IsFiniteSet(Groups), TypeInv, BillInv, BoardInv,
         NEW h \in Handlers, Tell, AdminWriteOrder(h)
  PROVE  BoardInv'
<1> DEFINE d == req[h].dto
<1>0. PICK g \in Groups : g = req[h].g
  BY AdminWriteOrderMove
<1>1. /\ At(h, "adminWrite")
      /\ \A k \in Groups \ {g} : order'[k] = order[k]
      /\ order'[g].status = NewStatus(req[h])
      /\ group' = IF d.status = "CANCEL"
                  THEN [group EXCEPT ![g].status = "REJECT"] ELSE group
      /\ req'[h].g = g /\ req'[h].pc \in {"complete", "noti", "find"}
      /\ req[h].paid => req'[h].pc = "complete"
  BY <1>0, AdminWriteOrderMove DEF KeepsSubject
<1>2. g \in Ordered
  BY <1>0, <1>1 DEF TypeInv, RequestsFit, Fit, OrderLabels, At
<1>3. d.status \in OrderStatus \cup {None}
  <2>1. d \in AdminDto \cup {NoDto}
    BY InputAssumption DEF TypeInv, TypeOK, Request
  <2> QED
    BY <2>1 DEF AdminDto, NoDto
<1>4. d.status = "PAID" => req[h].paid
  BY <1>1 DEF BillInv, BillFits, At
<1>5. d.status = "CANCEL" => group'[g].status = "REJECT"
  BY <1>1 DEF TypeInv, TypeOK, GroupRow
<1>6. \A k \in Groups : GoesOn(k)' => GoesOn(k)
  BY <1>1 DEF TypeInv, TypeOK, GroupRow, GoesOn
<1>7. SessionsGoOn
  BY <1>6 DEF SessionsGoOn
<1>8. CompletionsGoOn
  BY <1>1 DEF CompletionsGoOn, Completing, OneAtATime, At
<1>9. ASSUME GoesOn(g)'
      PROVE  \/ order'[g].status = order[g].status
             \/ g \in Open' /\ order[g].status # "none"
             \/ Completing(g)'
  <2>1. CASE req[h].paid
    BY <1>1, <2>1 DEF Completing, At
  <2>2. CASE ~req[h].paid
    <3>1. d.status # "CANCEL"
      BY <1>5, <1>9 DEF GoesOn
    <3> QED
      BY <1>0, <1>1, <1>2, <1>3, <1>4, <2>2, <3>1
         DEF NewStatus, Open, Ordered, OrderStatus
  <2> QED
    BY <2>1, <2>2
<1>10. OrdersGoOn(h)
  BY <1>1, <1>9 DEF OrdersGoOn
<1>11. Ordered \subseteq Ordered'
  <2>1. order'[g].status # "none"
    BY <1>0, <1>1, <1>2, <1>3, NoneAssumption DEF NewStatus, OrderStatus, Ordered
  <2> QED
    BY <1>1, <2>1 DEF Ordered
<1> QED
  BY <1>1, <1>7, <1>8, <1>10, <1>11, BoardKept DEF At

\* A session is completed; a bill is cancelled, which opens the order again.
LEMMA BoardCancelled ==
  ASSUME OneAtATime, IsFiniteSet(Groups), TypeInv, BoardInv, NEW h \in Handlers,
         Tell, CompleteSession(h) \/ CancelDeleteBill(h) \/ CancelReopenOrder(h)
  PROVE  BoardInv'
<1>1. CASE CompleteSession(h)
  <2>1. /\ UNCHANGED order /\ At(h, "complete")
        /\ group' = [group EXCEPT ![req[h].g].status = "COMPLETED"]
    BY <1>1, CompleteSessionMove
  <2>2. req[h].g \in Groups
    BY <2>1, SessionFit DEF TypeInv, At, SessionLabels, OrderLabels
  <2>3. \A k \in Groups : GoesOn(k)' => GoesOn(k) /\ k # req[h].g
    BY <2>1, <2>2 DEF TypeInv, TypeOK, GroupRow, GoesOn
  <2>4. SessionsGoOn /\ OrdersGoOn(h) /\ SameStatus
    BY <2>1, <2>3 DEF SessionsGoOn, OrdersGoOn, SameStatus
  <2>5. CompletionsGoOn
    BY <2>1, <2>3 DEF CompletionsGoOn, Completing, OneAtATime
  <2> QED
    BY <2>1, <2>4, <2>5, BoardKept DEF Ordered
<1>2. CASE CancelDeleteBill(h)
  <2>1. UNCHANGED <<group, order>> /\ ~At(h, "complete")
    BY <1>2, CancelDeleteBillMove DEF At
  <2> QED
    BY <2>1, BoardStays
<1>3. CASE CancelReopenOrder(h)
  <2>1. /\ UNCHANGED group /\ req[h].g \in Groups
        /\ \A k \in Groups \ {req[h].g} : order'[k] = order[k]
        /\ order'[req[h].g].status = "NOT_CHECKOUT"
        /\ req[h].pc \in {"cancel", "cancelOrder"}
        /\ req'[h].pc \in {"idle", "cancelBill", "find"}
    BY <1>3, CancelReopenOrderMove, IdleFields
  <2>2. req[h].g \in Ordered
    BY <2>1 DEF TypeInv, RequestsFit, Fit, OrderLabels
  <2>3. SessionsGoOn
    BY <2>1 DEF SessionsGoOn, GoesOn
  <2>4. OrdersGoOn(h)
    BY <2>1, <2>2 DEF OrdersGoOn, Open, Ordered
  <2>5. CompletionsGoOn
    BY <2>1 DEF CompletionsGoOn, Completing, OneAtATime, At
  <2>6. Ordered \subseteq Ordered'
    BY <2>1 DEF Ordered
  <2> QED
    BY <2>1, <2>3, <2>4, <2>5, <2>6, BoardKept
<1> QED
  BY <1>1, <1>2, <1>3

\* A guest is removed, or a table cleared: no order is opened.
LEMMA BoardCleared ==
  ASSUME OneAtATime, IsFiniteSet(Groups), TypeInv, BoardInv, NEW h \in Handlers,
         Tell,
         \/ ExpelReadClient(h) \/ ExpelWriteCart(h) \/ ExpelReadFoods(h)
         \/ ExpelDeleteFood(h) \/ ExpelDeleteClient(h)
         \/ RejectReadOrder(h) \/ RejectReadFoods(h) \/ RejectFood(h)
         \/ RejectSession(h)
  PROVE  BoardInv'
<1>1. CASE \/ ExpelReadClient(h) \/ ExpelReadFoods(h)
           \/ ExpelDeleteFood(h) \/ ExpelDeleteClient(h)
  <2>1. UNCHANGED <<group, order>> /\ ~At(h, "complete")
    BY <1>1 DEF ExpelReadClient, ExpelReadFoods, ExpelDeleteFood,
                ExpelDeleteClient, At, rows
  <2> QED
    BY <2>1, BoardStays
<1>2. CASE RejectReadOrder(h) \/ RejectReadFoods(h) \/ RejectFood(h)
  <2>1. UNCHANGED <<group, order>> /\ ~At(h, "complete")
    BY <1>2 DEF RejectReadOrder, RejectReadFoods, RejectFood, At, rows
  <2> QED
    BY <2>1, BoardStays
<1>3. CASE RejectSession(h)
  <2>1. /\ At(h, "rejectGroup") /\ req[h].g \in Groups /\ req'[h].pc = "idle"
        /\ group' = [group EXCEPT ![req[h].g].status = "REJECT"]
        /\ \A k \in Groups \ {req[h].g} : order'[k] = order[k]
        /\ order'[req[h].g].status \in {order[req[h].g].status, "CANCEL"}
    BY <1>3, RejectSessionMove, IdleFields
  <2>2. \A k \in Groups : GoesOn(k)' => GoesOn(k) /\ k # req[h].g
    BY <2>1 DEF TypeInv, TypeOK, GroupRow, GoesOn
  <2>3. SessionsGoOn /\ OrdersGoOn(h)
    BY <2>1, <2>2 DEF SessionsGoOn, OrdersGoOn
  <2>4. CompletionsGoOn
    BY <2>1 DEF CompletionsGoOn, Completing, OneAtATime, At
  <2>5. Ordered \subseteq Ordered'
    BY <2>1 DEF Ordered
  <2> QED
    BY <2>1, <2>3, <2>4, <2>5, BoardKept DEF At
<1>4. CASE ExpelWriteCart(h)
  <2>1. /\ UNCHANGED order /\ At(h, "expelCart")
        /\ group' = [group EXCEPT ![req[h].g].cart = req[h].cart]
    BY <1>4 DEF ExpelWriteCart
  <2>2. \A g \in Groups : GoesOn(g)' => GoesOn(g)
    BY <2>1 DEF TypeInv, TypeOK, GroupRow, GoesOn
  <2> QED
    BY <2>1, <2>2, BoardSame DEF SameStatus, At
<1> QED
  BY <1>1, <1>2, <1>3, <1>4

\* A list that was read is broadcast.
LEMMA BoardEmitted ==
  ASSUME OneAtATime, IsFiniteSet(Groups), BoardInv, NEW h \in Handlers,
         EmitOrders(h)
  PROVE  BoardInv'
<1>1. /\ UNCHANGED <<group, order, req, createAt>> /\ board' = Listed
      /\ listing' = [listing EXCEPT ![h] = NoListing]
  BY DEF EmitOrders, BoardInv, ListFits, vars, rows
<1>2. \A k \in Handlers : ListFits(k)'
  <2>1. \A k \in Handlers : k = h
    BY DEF OneAtATime
  <2>2. ListFits(h)'
    BY <1>1 DEF ListFits, NoListing, BoardInv
  <2> QED
    BY <2>1, <2>2
<1>3. Listed \subseteq Ordered
  BY DEF Listed, Open, Ordered
<1>4. ASSUME NEW g \in Open
      PROVE  Seen(g, board)'
  <2>1. Seen(g, Listed)
    BY NewestAreSeen DEF BoardInv
  <2> QED
    BY <1>1, <2>1 DEF Seen, Newer
<1>5. \A g \in Groups : BoardFits(g)'
  BY <1>1, <1>4 DEF BoardInv, BoardFits, GoesOn, Open, Completing, At
<1>6. listing' \in [Handlers -> Listing]
  BY <1>1 DEF BoardInv, Listing, NoListing
<1> QED
  BY <1>1, <1>2, <1>3, <1>5, <1>6 DEF BoardInv, Ordered

\* A list is asked for, or read, or something else is broadcast.
LEMMA BoardAsked ==
  ASSUME BoardInv,
         \/ \E h \in Handlers : ReadOrders(h) \/ GetCurrentOrder(h)
         \/ SendLate \/ UNCHANGED <<vars, devices>>
  PROVE  BoardInv'
<1>1. UNCHANGED <<group, order, req, createAt, board>>
  BY DEF ReadOrders, GetCurrentOrder, SendLate, vars, rows, devices
<1>2. Listed' = Listed /\ Open' = Open /\ Ordered' = Ordered
  BY <1>1 DEF Listed, Open, Newer, Ordered
<1>3. ASSUME NEW k \in Handlers
      PROVE  ListFits(k)' /\ (Fetching(k) => Fetching(k)')
  <2>1. \/ listing'[k] = listing[k] \/ listing'[k] = Asked
        \/ listing'[k] = [step |-> "emit", orders |-> Listed]
        \/ listing' = listing
    BY DEF ReadOrders, GetCurrentOrder, SendLate, devices, BoardInv
  <2> QED
    BY <1>2, <2>1 DEF BoardInv, ListFits, Fetching, Asked
<1>4. Asking => Asking'
  BY <1>3 DEF Asking
<1>5. \A g \in Groups : BoardFits(g)'
  BY <1>1, <1>2, <1>4
     DEF BoardInv, BoardFits, GoesOn, Completing, At, Seen, Newer
<1>6. listing' \in [Handlers -> Listing]
  <2>1. Listed \subseteq Groups
    BY DEF Listed, Open
  <2>2. Asked \in Listing /\ [step |-> "emit", orders |-> Listed] \in Listing
    BY <2>1 DEF Asked, Listing
  <2> QED
    BY <2>2 DEF ReadOrders, GetCurrentOrder, SendLate, devices, BoardInv
<1> QED
  BY <1>1, <1>2, <1>3, <1>5, <1>6 DEF BoardInv

\* Every step keeps the board right.
LEMMA BoardStep ==
  ASSUME OneAtATime, NoRestart, AwaitedRemovals, IsFiniteSet(Groups),
         TypeInv, BillInv, BoardInv, [BroadcastNext]_<<vars, devices>>
  PROVE  BoardInv'
<1>1. ASSUME NEW h \in Handlers, Arrive(h), Tell
      PROVE  BoardInv'
  BY <1>1, BoardArrive
<1>2. ASSUME NEW h \in Handlers, Continue(h), Tell
      PROVE  BoardInv'
  BY <1>2, BoardLookUp, BoardGuests, BoardOrdered, BoardBilled, BoardWritten,
     BoardCancelled, BoardCleared DEF Continue
<1> QED
  BY <1>1, <1>2, BoardEmitted, BoardAsked
     DEF BroadcastNext, Restart, Crash, NoRestart

\* An empty restaurant has no orders.
LEMMA BoardInit == BroadcastInit => BoardInv
BY DEF BroadcastInit, Init, NoGroup, NoListing, Listing, BoardInv, BoardFits, ListFits,
       GoesOn

\* Between requests the kitchen sees every order still open in a session that
\* goes on, or a list that is full of newer ones: whoever opens an order asks for
\* the list after that write, and whoever closes one closes its session
\* (createOrder, updateOrder, updateClientOrder, handleCancelBill, clearTable).
THEOREM OrdersAreOnBoard ==
  ASSUME OneAtATime, NoRestart, AwaitedRemovals, BillableDtos,
         IsFiniteSet(Groups)
  PROVE  BroadcastSpec => []OrdersOnBoard
<1>1. TypeInv /\ BillInv /\ BoardInv /\ [BroadcastNext]_<<vars, devices>>
        => BoardInv'
  BY BoardStep
<1>2. BoardInv => OrdersOnBoard
  <2>1. Settled => ~Asking /\ \A g : ~Completing(g)
    BY DEF Settled, Quiet, Asking, Completing, At
  <2>2. ASSUME BoardInv, Settled, NEW g \in Open, GoesOn(g)
        PROVE  Seen(g, board)
    BY <2>1, <2>2 DEF BoardInv, BoardFits, Open
  <2> QED
    BY <2>2 DEF OrdersOnBoard, Seen
<1> QED
  BY <1>1, <1>2, BoardInit, BroadcastRefines, BillHolds, PTL DEF BroadcastSpec

----------------------------------------------------------------------------
\* The guests' devices.

\* The guests who were removed or are about to be; the entries of the others.
Removing(u) == \E h \in Handlers : req[h].pc \in ExpelLabels /\ req[h].c = u
Gone == {u \in Clients : client[u].status = "deleted" \/ Removing(u)}
LiveIn(cart, U) == {e \in ToSet(cart) : e.user \notin U}

\* What a device was told is still so: the cart is as it is, but for entries of
\* those guests, and every guest of the session is on the list.
FreshNews(n) ==
  /\ LiveIn(n.cart, Gone) = LiveIn(group[n.g].cart, Gone)
  /\ \A c \in Clients : HasClient(c) /\ client[c].group = n.g => c \in n.guests

\* The request in progress will tell the guests at table t.
Owed(t) ==
  \E h \in Handlers :
    \/ At(h, "noti") /\ held[h].g # None /\ Room(h) = t
    \/ req[h].pc \in LookUps /\ req[h].ret = "noti" /\ req[h].t = t

\* A device was told how things are, or will be.
ShownFits(s) ==
  /\ shown[s].g \in Existing \cup {None}
  /\ AtShown(s) => FreshNews(shown[s]) \/ Owed(socket[s].room)

\* What a handler read and will broadcast is so, until it reads again,
LookedLabels ==
  {"checkName", "findClient", "createClient", "reconnect",
   "selectBill", "push", "deselectBill", "deselectWrite"}
HeldFits(r, n) ==
  /\ n \in News /\ n.g \in Existing \cup {None}
  /\ n.g # None /\ r.pc \notin LookUps => FreshNews(n)
\* and it is of the session that the handler is about.
PlaceFits(r, n) ==
  /\ r.pc \in {"push", "deselectWrite"} => r.g # None
  /\ r.pc \in LookedLabels /\ r.g # None => n.g = r.g /\ r.g \in InProgress(r.t)
  /\ r.pc \in WriteLabels \cup {"clearCart"} => group[r.g].table = r.t
  /\ r.pc \in {"rejectOrder", "rejectFoods", "rejectFood"} => n.g = r.g

\* A guest who is being removed is there until the end, and so is the food that is
\* deleted first; and what is left of the cart is the entries of the others.
ExpelFits(r) ==
  r.pc \in ExpelLabels =>
    /\ r.c \in Clients /\ HasClient(r.c) /\ ~r.failed
    /\ r.pc = "expelFood" => \A f \in r.foods : HasFood(f)
    /\ r.pc = "expelCart" => /\ r.g \in Groups
                             /\ r.cart = Without(group[r.g].cart, r.c)

\* A broadcast nobody awaits is of a session that is over, or that is about to
\* be rejected and was not changed since.
LateFits(n) ==
  /\ n.g \in Existing
  /\ GoesOn(n.g) =>
       /\ FreshNews(n)
       /\ \E h \in Handlers : At(h, "rejectGroup") /\ req[h].g = n.g

NewsInv ==
  /\ \A s \in Sockets : ShownFits(s)
  /\ \A h \in Handlers : /\ HeldFits(req[h], held[h])
                         /\ PlaceFits(req[h], held[h])
                         /\ ExpelFits(req[h])
  /\ \A n \in late : LateFits(n)

\* What a step of one request at a time tells.
LEMMA TellMove ==
  ASSUME OneAtATime, Tell, NEW h \in Handlers
  PROVE  /\ held'[h] = Held(h)
         /\ late' = late \cup IF ToldEarly(h) THEN {held[h]} ELSE {}
         /\ ~Told(h) => UNCHANGED shown
         /\ Told(h) => Show(Room(h), held[h])
<1>1. \A k \in Handlers : k = h
  BY DEF OneAtATime
<1>2. held'[h] = Held(h)
  BY DEF Tell
<1>3. late' = late \cup IF ToldEarly(h) THEN {held[h]} ELSE {}
  <2>1. late' = late \cup {held[k] : k \in {j \in Handlers : ToldEarly(j)}}
    BY DEF Tell
  <2>2. {held[k] : k \in {j \in Handlers : ToldEarly(j)}}
          = IF ToldEarly(h) THEN {held[h]} ELSE {}
    BY <1>1
  <2> QED
    BY <2>1, <2>2
<1>4. ~Told(h) => UNCHANGED shown
  BY <1>1 DEF Tell
<1>5. Told(h) => Show(Room(h), held[h])
  BY <1>1 DEF Tell
<1> QED
  BY <1>2, <1>3, <1>4, <1>5

\* Guests who are gone stay gone.
GoneStay == Gone \subseteq Gone'

\* The cart of a session is as it was, but for entries of guests who are gone.
CartCalm(g) ==
  LiveIn(group'[g].cart, Gone') = LiveIn(group[g].cart, Gone')

\* No existing session is opened again, moved or forgotten, and no cart written.
SessionsCalm ==
  \A g \in Existing :
    /\ g \in Existing' /\ CartCalm(g)
    /\ group'[g].table = group[g].table
    /\ GoesOn(g)' => GoesOn(g)

\* What was news stays so.
LEMMA FreshStays ==
  ASSUME NEW n, FreshNews(n), GoneStay, CartCalm(n.g),
         \A c \in Clients : HasClient(c)' /\ client'[c].group = n.g
                              => HasClient(c) /\ client[c].group = n.g
  PROVE  FreshNews(n)'
<1>1. \A cart : LiveIn(cart, Gone') = {e \in LiveIn(cart, Gone) : e.user \notin Gone'}
  BY DEF LiveIn, GoneStay
<1>2. LiveIn(n.cart, Gone') = LiveIn(group[n.g].cart, Gone')
  BY <1>1 DEF FreshNews
<1> QED
  BY <1>2 DEF FreshNews, CartCalm

\* A step of a request that removes nobody, and deletes none back.
LEMMA GoneKept ==
  ASSUME OneAtATime, NEW h \in Handlers, req[h].pc \notin ExpelLabels,
         \A u \in Clients : client[u].status = "deleted"
                              => client'[u].status = "deleted"
  PROVE  GoneStay
BY DEF GoneStay, Gone, Removing, OneAtATime

\* A message removes no guest yet,
LEMMA GoneArrive ==
  ASSUME OneAtATime, AwaitedRemovals, TypeInv, NEW h \in Handlers, Arrive(h)
  PROVE  GoneStay
<1>1. UNCHANGED client /\ At(h, "idle")
  <2>1. CASE JoinTable(h) \/ LeaveTable(h) \/ Disconnect(h)
             \/ SelectFood(h) \/ DeselectFood(h)
    BY <2>1, GuestArrives DEF rows
  <2>2. CASE CreateOrder(h) \/ UpdateOrder(h) \/ AdminUpdateClientOrder(h)
             \/ ClearTable(h) \/ WsClearTable(h) \/ DeleteClientIdInFoodOrder(h)
    BY <2>2, CreateOrderMove, UpdateOrderMove, AdminArrives, ClearTableMove,
       WsClearTableMove, DeleteClientIdMove
       DEF rows
  <2>3. ~AdminDeleteClientList(h)
    BY DEF AdminDeleteClientList, AwaitedRemovals
  <2> QED
    BY <2>1, <2>2, <2>3 DEF Arrive
<1> QED
  BY <1>1, GoneKept DEF At, ExpelLabels

\* and no step but those of a removal does.
Expels(h) ==
  \/ ExpelReadClient(h) \/ ExpelWriteCart(h) \/ ExpelReadFoods(h)
  \/ ExpelDeleteFood(h) \/ ExpelDeleteClient(h)
LEMMA GoneContinue ==
  ASSUME OneAtATime, TypeInv, NEW h \in Handlers, Continue(h), ~Expels(h)
  PROVE  GoneStay
<1>1. CASE \/ CreateClient(h) \/ Reconnect(h) \/ LeaveDeleteClient(h)
           \/ GoOffline(h)
  <2>1. req[h].pc \in {"createClient", "reconnect", "deleteClient", "offline"}
    BY <1>1 DEF CreateClient, Reconnect, LeaveDeleteClient, GoOffline, At
  <2>2. ASSUME NEW u \in Clients, client[u].status = "deleted"
        PROVE  client'[u].status = "deleted"
    <3>1. CASE CreateClient(h)
      BY <2>2, <3>1 DEF CreateClient, Pick, TypeInv, TypeOK
    <3>2. CASE Reconnect(h)
      BY <2>2, <3>2 DEF Reconnect, HasClient, TypeInv, TypeOK, ClientRow
    <3>3. CASE LeaveDeleteClient(h)
      BY <2>2, <3>3
         DEF LeaveDeleteClient, DeleteClientRow, HasClient, TypeInv, TypeOK
    <3>4. CASE GoOffline(h)
      BY <2>2, <3>4 DEF GoOffline, HasClient, TypeInv, TypeOK, ClientRow
    <3> QED
      BY <1>1, <3>1, <3>2, <3>3, <3>4
  <2> QED
    BY <2>1, <2>2, GoneKept DEF ExpelLabels
<1>2. CASE \/ FindSession(h) \/ CreateSession(h) \/ Notify(h)
           \/ CheckUsername(h) \/ FindClient(h) \/ LeaveReadFoods(h)
           \/ SelectReadBill(h) \/ SelectPush(h)
           \/ DeselectReadBill(h) \/ DeselectWrite(h)
  <2>1. UNCHANGED client /\ req[h].pc \notin ExpelLabels
    BY <1>2
       DEF FindSession, CreateSession, Notify, CheckUsername, FindClient,
           LeaveReadFoods, SelectReadBill, SelectPush, DeselectReadBill,
           DeselectWrite, At, rows, ExpelLabels
  <2> QED
    BY <2>1, GoneKept
<1>3. CASE \/ OrderReadGroup(h) \/ InsertOrder(h) \/ ClearCart(h)
           \/ SetBillMethod(h) \/ UpdateWrite(h)
           \/ RejectReadOrder(h) \/ RejectReadFoods(h) \/ RejectFood(h)
           \/ RejectSession(h)
  <2>1. UNCHANGED client /\ req[h].pc \notin ExpelLabels
    BY <1>3
       DEF OrderReadGroup, InsertOrder, ClearCart, SetBillMethod, UpdateWrite,
           RejectReadOrder, RejectReadFoods, RejectFood, RejectSession,
           At, rows, ExpelLabels
  <2> QED
    BY <2>1, GoneKept
<1>4. CASE \/ FoodWrite(h) \/ AdminReadOrder(h) \/ CreateBill(h) \/ SetBill(h)
           \/ AdminWriteOrder(h) \/ CompleteSession(h)
           \/ CancelDeleteBill(h) \/ CancelReopenOrder(h)
  <2>1. UNCHANGED client /\ req[h].pc \notin ExpelLabels
    BY <1>4
       DEF FoodWrite, AdminReadOrder, CreateBill, SetBill, AdminWriteOrder,
           CompleteSession, CancelDeleteBill, CancelReopenOrder,
           At, rows, ExpelLabels
  <2> QED
    BY <2>1, GoneKept
<1> QED
  BY <1>1, <1>2, <1>3, <1>4 DEF Continue, Expels

\* A step that writes no session,
LEMMA SameSessions ==
  ASSUME UNCHANGED group
  PROVE  SessionsCalm
BY DEF SessionsCalm, CartCalm, GoesOn, Existing

\* or closes one.
LEMMA ClosedSession ==
  ASSUME TypeInv, NEW g, NEW x, x \notin {"none", "IN_PROGRESS"},
         group' = [group EXCEPT ![g].status = x]
  PROVE  SessionsCalm
<1>1. \A k \in Groups : /\ group'[k].status \in {group[k].status, x}
                        /\ group'[k].cart = group[k].cart
                        /\ group'[k].table = group[k].table
                        /\ group'[k].reopened = group[k].reopened
  BY DEF TypeInv, TypeOK, GroupRow
<1> QED
  BY <1>1 DEF SessionsCalm, CartCalm, GoesOn, Existing

\* A session as it is read is news.
LEMMA RowFresh ==
  ASSUME TypeInv', NEW g \in Existing' \cup {None}
  PROVE  /\ Row(g) \in News /\ Row(g).g = g
         /\ \A n : n = Row(g) /\ g # None => FreshNews(n)'
<1>1. CASE g = None
  BY <1>1 DEF Row, NoNews, News
<1>2. CASE g # None
  <2>1. g \in Groups /\ group'[g].cart \in Seq(Entry)
    BY <1>2 DEF Existing, TypeInv, TypeOK, GroupRow
  <2> DEFINE G == {c \in Clients : HasClient(c)' /\ client'[c].group = g}
  <2>2. Row(g) = [g |-> g, cart |-> group'[g].cart, guests |-> G]
    BY <1>2 DEF Row
  <2>3. \A c \in Clients : HasClient(c)' /\ client'[c].group = g => c \in G
    OBVIOUS
  <2>4. G \in SUBSET Clients
    OBVIOUS
  <2> HIDE DEF G
  <2>5. /\ Row(g) \in News /\ Row(g).g = g
        /\ Row(g).cart = group'[g].cart /\ Row(g).guests = G
    BY <2>1, <2>2, <2>4 DEF News
  <2> QED
    BY <2>3, <2>5 DEF FreshNews
<1> QED
  BY <1>1, <1>2

\* So is what a handler that has just read a session holds.
LEMMA HeldRead ==
  ASSUME TypeInv', NEW h \in Handlers, req'[h].g \in Existing' \cup {None},
         held'[h] = Row(req'[h].g)
  PROVE  HeldFits(req[h], held[h])' /\ held'[h].g = req'[h].g
<1>1. PICK g \in Existing' \cup {None} : g = req'[h].g
  OBVIOUS
<1>2. held'[h] = Row(g)
  BY <1>1
<1>3. /\ held'[h] \in News /\ held'[h].g = g
      /\ \A n : n = held'[h] /\ g # None => FreshNews(n)'
  BY <1>2, RowFresh
<1>4. PICK n : n = held'[h]
  OBVIOUS
<1>5. g # None => FreshNews(held[h])'
  BY <1>3, <1>4 DEF FreshNews
<1> QED
  BY <1>1, <1>3, <1>5 DEF HeldFits

\* What a handler that goes on holds: what it has read now, or what it held.
HeldGoesOn(h) ==
  At(h, "idle")' \/ IF LookedUp(h) \/ Wrote(h) THEN held'[h].g = req'[h].g
                                             ELSE held'[h] = held[h]

\* In a calm step news of an existing session stays so.
LEMMA FreshCalm ==
  ASSUME SessionsCalm, NobodyJoins, GoneStay, NEW n, n.g \in Existing,
         FreshNews(n)
  PROVE  FreshNews(n)'
BY FreshStays DEF SessionsCalm, NobodyJoins

\* What the handler holds stays news.
LEMMA HeldKept ==
  ASSUME OneAtATime, TypeInv', NEW h \in Handlers, Tell,
         HeldFits(req[h], held[h]), SessionsCalm, NobodyJoins, GoneStay,
         ~(At(h, "deselectWrite") /\ At(h, "noti")'),
         LookedUp(h) \/ Wrote(h) => req'[h].g \in Existing' \cup {None}
  PROVE  HeldFits(req[h], held[h])' /\ HeldGoesOn(h)
<1>1. held'[h] = Held(h)
  BY TellMove
<1>2. CASE At(h, "idle")'
  <2>1. held'[h] = NoNews
    BY <1>1, <1>2 DEF Held
  <2>2. NoNews \in News /\ NoNews.g = None
    BY DEF NoNews, News
  <2> QED
    BY <1>2, <2>1, <2>2 DEF HeldFits, HeldGoesOn
<1>3. CASE ~At(h, "idle")' /\ (LookedUp(h) \/ Wrote(h))
  <2>1. held'[h] = Row(req'[h].g)
    BY <1>1, <1>3 DEF Held
  <2> QED
    BY <1>3, <2>1, HeldRead DEF HeldGoesOn
<1>4. CASE ~At(h, "idle")' /\ ~(LookedUp(h) \/ Wrote(h))
  <2>1. PICK n : n = held[h]
    OBVIOUS
  <2>2. held'[h] = n
    BY <1>1, <1>4, <2>1 DEF Held
  <2>3. req'[h].pc \notin LookUps => req[h].pc \notin LookUps
    BY <1>4 DEF LookedUp
  <2>4. n.g # None => n.g \in Existing /\ n.g \in Existing'
    BY <2>1 DEF HeldFits, SessionsCalm
  <2>5. n.g # None /\ FreshNews(n) => FreshNews(n)'
    BY <2>4, FreshCalm
  <2>6. FreshNews(n)' <=> FreshNews(held[h])'
    BY <2>2 DEF FreshNews
  <2> QED
    BY <1>4, <2>1, <2>2, <2>3, <2>4, <2>5, <2>6 DEF HeldFits, HeldGoesOn
<1> QED
  BY <1>2, <1>3, <1>4

\* The devices stay told when the request goes on to do what it owes.
LEMMA ShownKept ==
  ASSUME TypeInv', \A s \in Sockets : ShownFits(s), SessionsCalm, NobodyJoins,
         GoneStay, NobodySits, UNCHANGED shown,
         \A t \in Tables : Owed(t) => Owed(t)' \/ InProgress(t)' = {}
  PROVE  \A s \in Sockets : ShownFits(s)'
<1> SUFFICES ASSUME NEW s \in Sockets
             PROVE  ShownFits(s)'
  OBVIOUS
<1>1. shown[s].g \in Existing' \cup {None} /\ shown'[s] = shown[s]
  BY DEF ShownFits, SessionsCalm
<1>2. ASSUME AtShown(s)'
      PROVE  FreshNews(shown[s])' \/ Owed(socket[s].room)'
  <2>1. PICK n : n = shown[s]
    OBVIOUS
  <2>2. /\ socket'[s].live /\ GoesOn(n.g)' /\ n.g \in Groups
        /\ group'[n.g].status = "IN_PROGRESS"
        /\ group'[n.g].table = socket'[s].room
    BY <1>1, <1>2, <2>1 DEF AtShown, InProgress, GoesOn
  <2>3. n.g \in Existing' /\ group'[n.g].table \in Tables
    BY <2>2 DEF TypeInv, RowsFit, Existing
  <2>4. n.g \in Existing
    BY <2>1, <2>2, NoneAssumption DEF ShownFits
  <2>5. socket'[s] = socket[s]
    BY <2>2, <2>3, NoneAssumption DEF NobodySits
  <2>6. AtShown(s) /\ socket[s].room \in Tables
    BY <2>1, <2>2, <2>3, <2>4, <2>5
       DEF AtShown, InProgress, SessionsCalm, GoesOn
  <2>7. CASE FreshNews(shown[s])
    <3>1. FreshNews(n)'
      BY <2>1, <2>4, <2>7, FreshCalm
    <3> QED
      BY <1>1, <2>1, <3>1 DEF FreshNews
  <2>8. CASE Owed(socket[s].room)
    <3>1. PICK t \in Tables : t = socket[s].room
      BY <2>6
    <3>2. Owed(t)' \/ InProgress(t)' = {}
      BY <2>8, <3>1
    <3>3. n.g \in InProgress(t)'
      BY <2>2, <2>5, <3>1 DEF InProgress
    <3> QED
      BY <2>5, <3>1, <3>2, <3>3 DEF Owed
  <2> QED
    BY <2>6, <2>7, <2>8 DEF ShownFits
<1> QED
  BY <1>1, <1>2 DEF ShownFits

\* A request that clears a table is about a session.
HasSession(h) ==
  req[h].pc \in {"rejectFoods", "rejectFood"} => req[h].g \in Existing

\* What is sent late stays so until the session it is about is rejected.
LEMMA LateKept ==
  ASSUME OneAtATime, NEW h \in Handlers, Tell, \A n \in late : LateFits(n),
         HeldFits(req[h], held[h]), PlaceFits(req[h], held[h]),
         HasSession(h), SessionsCalm, NobodyJoins, GoneStay,
         ToldEarly(h) => req'[h].g = req[h].g,
         At(h, "rejectGroup") => group'[req[h].g].status # "IN_PROGRESS"
  PROVE  \A n \in late' : LateFits(n)'
<1>1. ASSUME NEW n \in late
      PROVE  LateFits(n)'
  <2>1. n.g \in Existing /\ n.g \in Existing'
    BY DEF LateFits, SessionsCalm
  <2>2. ~GoesOn(n.g)'
    <3> SUFFICES ASSUME GoesOn(n.g)' PROVE FALSE
      OBVIOUS
    <3>1. GoesOn(n.g)
      BY <2>1 DEF SessionsCalm
    <3>2. At(h, "rejectGroup") /\ req[h].g = n.g
      BY <3>1 DEF LateFits, OneAtATime
    <3> QED
      BY <3>2 DEF GoesOn
  <2> QED
    BY <2>1, <2>2 DEF LateFits
<1>2. ASSUME ToldEarly(h), NEW n, n = held[h]
      PROVE  LateFits(n)'
  <2>1. n.g = req[h].g /\ req[h].g \in Existing
    BY <1>2 DEF PlaceFits, ToldEarly, HasSession
  <2>2. FreshNews(n)
    BY <1>2, <2>1, NoneAssumption DEF HeldFits, ToldEarly, LookUps, Existing
  <2>3. FreshNews(n)' /\ n.g \in Existing'
    BY <2>1, <2>2, FreshCalm DEF SessionsCalm
  <2>4. At(h, "rejectGroup")' /\ req'[h].g = n.g
    BY <1>2, <2>1 DEF ToldEarly
  <2> QED
    BY <2>3, <2>4 DEF LateFits
<1>3. late' = late \cup IF ToldEarly(h) THEN {held[h]} ELSE {}
  BY TellMove
<1> QED
  BY <1>1, <1>2, <1>3

\* A step that writes no cart, lets no guest in and tells no table.
LEMMA NewsCalm ==
  ASSUME OneAtATime, TypeInv, TypeInv', NewsInv, NEW h \in Handlers, Tell,
         SessionsCalm, NobodyJoins, NobodySits, GoneStay,
         req[h].pc \notin {"noti"} \cup LookUps,
         ~(At(h, "deselectWrite") /\ At(h, "noti")'),
         Wrote(h) => req'[h].g = req[h].g,
         At(h, "push") => req[h].g \in Existing,
         ToldEarly(h) => req'[h].g = req[h].g,
         At(h, "rejectGroup") => group'[req[h].g].status # "IN_PROGRESS",
         HeldGoesOn(h) => PlaceFits(req[h], held[h])', ExpelFits(req[h])'
  PROVE  NewsInv'
<1>0. \A s \in Sockets : ShownFits(s)
  BY DEF NewsInv
<1>1. HeldFits(req[h], held[h]) /\ PlaceFits(req[h], held[h])
  BY DEF NewsInv
<1>2. LookedUp(h) \/ Wrote(h) => req'[h].g \in Existing' \cup {None}
  <2>1. CASE LookedUp(h)
    <3>1. At(h, "rejectOrder")'
      BY <2>1 DEF LookedUp
    <3> QED
      BY <3>1 DEF TypeInv, RequestsFit, Fit, SessionLabels, At
  <2>2. CASE Wrote(h)
    <3>1. req[h].g \in Existing
      BY <2>2, SessionFit
         DEF Wrote, TypeInv, SessionLabels, OrderLabels, At
    <3> QED
      BY <2>2, <3>1 DEF SessionsCalm
  <2> QED
    BY <2>1, <2>2
<1>3. HeldFits(req[h], held[h])' /\ PlaceFits(req[h], held[h])'
  BY <1>1, <1>2, HeldKept
<1>4. ~Told(h)
  BY DEF Told, At
<1>5. \A t \in Tables : ~Owed(t)
  BY DEF Owed, OneAtATime, At
<1>6. \A s \in Sockets : ShownFits(s)'
  BY <1>0, <1>4, <1>5, TellMove, ShownKept
<1>7. HasSession(h)
  BY SessionFit DEF HasSession, TypeInv, SessionLabels, RejectLabels
<1>8. \A n \in late' : LateFits(n)'
  BY <1>1, <1>7, LateKept DEF NewsInv
<1> QED
  BY <1>3, <1>6, <1>8 DEF NewsInv, OneAtATime

\* A step that writes no guest and no connection.
LEMMA NobodyMoves ==
  ASSUME UNCHANGED <<client, socket>>
  PROVE  NobodyJoins /\ NobodySits
BY DEF NobodyJoins, NobodySits, HasClient

\* The places that ask something of what a handler holds or of the guests.
BoundLabels ==
  LookedLabels \cup WriteLabels \cup ExpelLabels
    \cup {"clearCart", "rejectOrder", "rejectFoods", "rejectFood"}

\* At any other place a handler may hold any news.
LEMMA FreePlace ==
  ASSUME NEW h \in Handlers, req'[h].pc \notin BoundLabels
  PROVE  PlaceFits(req[h], held[h])' /\ ExpelFits(req[h])'
BY DEF PlaceFits, ExpelFits, BoundLabels, LookedLabels

\* A message arrives.
LEMMA NewsArrive ==
  ASSUME OneAtATime, AwaitedRemovals, TypeInv, TypeInv', NewsInv,
         NEW h \in Handlers, Tell, Arrive(h)
  PROVE  NewsInv'
<1>0. /\ At(h, "idle") => /\ req[h].pc \notin {"noti"} \cup LookUps
                          /\ ~At(h, "deselectWrite") /\ ~Wrote(h)
                          /\ ~At(h, "push") /\ ~ToldEarly(h)
                          /\ ~At(h, "rejectGroup")
      /\ GoneStay
  BY GoneArrive DEF At, LookUps, Wrote, ToldEarly
<1>1. CASE JoinTable(h) \/ LeaveTable(h) \/ Disconnect(h)
           \/ SelectFood(h) \/ DeselectFood(h)
  <2>1. /\ UNCHANGED rows /\ At(h, "idle") /\ NobodySits
        /\ req'[h].pc \in {"find", "offline"}
    BY <1>1, GuestArrives
  <2>2. NobodyJoins /\ SessionsCalm
    BY <2>1, SameSessions DEF rows, NobodyJoins, HasClient
  <2>3. PlaceFits(req[h], held[h])' /\ ExpelFits(req[h])'
    BY <2>1, FreePlace DEF BoundLabels, LookedLabels, WriteLabels, ExpelLabels
  <2> QED
    BY <1>0, <2>1, <2>2, <2>3, NewsCalm
<1>2. CASE CreateOrder(h) \/ UpdateOrder(h)
  <2>1. /\ UNCHANGED <<rows, socket>> /\ At(h, "idle")
        /\ req'[h].pc \in {"orderGroup", "setMethod", "updateWrite"}
        /\ req'[h].t = group[req'[h].g].table
    BY <1>2, CreateOrderMove, UpdateOrderMove
  <2>2. NobodyJoins /\ NobodySits /\ SessionsCalm
    BY <2>1, NobodyMoves, SameSessions DEF rows
  <2>3. PlaceFits(req[h], held[h])' /\ ExpelFits(req[h])'
    BY <2>1 DEF PlaceFits, ExpelFits, LookedLabels, ExpelLabels, rows
  <2> QED
    BY <1>0, <2>1, <2>2, <2>3, NewsCalm
<1>3. CASE AdminUpdateClientOrder(h)
  <2>1. /\ UNCHANGED <<rows, socket>> /\ At(h, "idle")
        /\ req'[h].pc \in {"cancel", "foodWrite", "adminRead"}
    BY <1>3, AdminArrives
  <2>2. NobodyJoins /\ NobodySits /\ SessionsCalm
    BY <2>1, NobodyMoves, SameSessions DEF rows
  <2>3. PlaceFits(req[h], held[h])' /\ ExpelFits(req[h])'
    BY <2>1, FreePlace DEF BoundLabels, LookedLabels, WriteLabels, ExpelLabels
  <2> QED
    BY <1>0, <2>1, <2>2, <2>3, NewsCalm
<1>4. CASE AdminDeleteClientList(h)
  BY <1>4 DEF AdminDeleteClientList, AwaitedRemovals
<1>5. CASE WsClearTable(h)
  <2>1. /\ UNCHANGED <<client, socket>> /\ At(h, "idle") /\ req'[h].pc = "idle"
    BY <1>5, WsClearTableMove, IdleFields
  <2>2. PICK g \in Existing, x \in ClearStatuses :
          group' = [group EXCEPT ![g] = Cleared(group[g], x)]
    BY <1>5, WsClearTableMove
  <2> DEFINE opened == x = "IN_PROGRESS" /\ group[g].status # "IN_PROGRESS"
  <2>3. g \in Groups /\ x # "none"
    BY InputAssumption DEF GroupStatus, Existing
  <2>4. /\ group'[g].status = x /\ group'[g].cart = group[g].cart
        /\ group'[g].table = group[g].table
        /\ group'[g].reopened = (group[g].reopened \/ opened)
    BY <2>2, <2>3 DEF Cleared, TypeInv, TypeOK, GroupRow
  <2>5. \A k \in Groups \ {g} : group'[k] = group[k]
    BY <2>2 DEF TypeInv, TypeOK
  <2>6. GoesOn(g)' => GoesOn(g)
    BY <2>4, Zenon DEF GoesOn
  <2> HIDE DEF opened
  <2>7. SessionsCalm
    BY <2>3, <2>4, <2>5, <2>6 DEF SessionsCalm, CartCalm, GoesOn, Existing
  <2>8. NobodyJoins /\ NobodySits
    BY <2>1, NobodyMoves
  <2>9. PlaceFits(req[h], held[h])' /\ ExpelFits(req[h])'
    BY <2>1, FreePlace DEF BoundLabels, LookedLabels, WriteLabels, ExpelLabels
  <2> QED
    BY <1>0, <2>1, <2>7, <2>8, <2>9, NewsCalm
<1>6. CASE ClearTable(h)
  <2>1. /\ UNCHANGED <<rows, socket>> /\ At(h, "idle")
        /\ req'[h].pc = "rejectOrder"
    BY <1>6, ClearTableMove
  <2>2. NobodyJoins /\ NobodySits /\ SessionsCalm
    BY <2>1, NobodyMoves, SameSessions DEF rows
  <2>3. HeldGoesOn(h) => PlaceFits(req[h], held[h])'
    BY <2>1 DEF PlaceFits, LookedLabels, WriteLabels, HeldGoesOn, LookedUp, At
  <2>4. ExpelFits(req[h])'
    BY <2>1 DEF ExpelFits, ExpelLabels
  <2> QED
    BY <1>0, <2>1, <2>2, <2>3, <2>4, NewsCalm
<1>7. CASE DeleteClientIdInFoodOrder(h)
  <2>1. /\ UNCHANGED <<rows, socket>> /\ At(h, "idle")
        /\ req'[h].pc = "expelRead" /\ HasClient(req'[h].c)
        /\ req'[h].c \in Clients /\ ~req'[h].failed
    BY <1>7, DeleteClientIdMove
  <2>2. NobodyJoins /\ NobodySits /\ SessionsCalm
    BY <2>1, NobodyMoves, SameSessions DEF rows
  <2>3. PlaceFits(req[h], held[h])'
    BY <2>1 DEF PlaceFits, LookedLabels, WriteLabels
  <2>4. ExpelFits(req[h])'
    BY <2>1 DEF ExpelFits, HasClient, rows
  <2> QED
    BY <1>0, <2>1, <2>2, <2>3, <2>4, NewsCalm
<1> QED
  BY <1>1, <1>2, <1>3, <1>4, <1>5, <1>6, <1>7 DEF Arrive

\* Guests' requests that read or leave,
LEMMA NewsGuests ==
  ASSUME OneAtATime, TypeInv, TypeInv', NewsInv, NEW h \in Handlers, Tell,
         GoneStay,
         \/ CheckUsername(h) \/ FindClient(h) \/ LeaveReadFoods(h)
         \/ LeaveDeleteClient(h) \/ GoOffline(h)
         \/ SelectReadBill(h) \/ DeselectReadBill(h)
  PROVE  NewsInv'
<1>0. PlaceFits(req[h], held[h])
  BY DEF NewsInv
<1>1. CASE CheckUsername(h) \/ FindClient(h) \/ SelectReadBill(h)
           \/ DeselectReadBill(h)
  <2>1. req[h].pc \in {"checkName", "findClient", "selectBill", "deselectBill"}
    BY <1>1 DEF CheckUsername, FindClient, SelectReadBill, DeselectReadBill, At
  <2>2. /\ UNCHANGED <<rows, socket>>
        /\ \/ req'[h].pc = "idle"
           \/ /\ req'[h].t = req[h].t /\ req'[h].g = req[h].g
              /\ \/ req'[h].pc \in {"createClient", "findClient", "reconnect"}
                 \/ req'[h].pc \in {"push", "deselectWrite"} /\ req[h].g # None
    BY <1>1, GuestReads, IdleFields DEF KeepsLocals, KeepsSubject
  <2>3. NobodyJoins /\ NobodySits /\ SessionsCalm
    BY <2>2, NobodyMoves, SameSessions DEF rows
  <2>4. HeldGoesOn(h) => PlaceFits(req[h], held[h])'
    BY <1>0, <2>1, <2>2
       DEF PlaceFits, LookedLabels, WriteLabels, HeldGoesOn, LookedUp, Wrote,
           LookUps, InProgress, rows, At
  <2>5. ExpelFits(req[h])'
    BY <2>2 DEF ExpelFits, ExpelLabels
  <2> QED
    BY <2>1, <2>2, <2>3, <2>4, <2>5, NewsCalm DEF LookUps, Wrote, ToldEarly, At
<1>2. CASE LeaveReadFoods(h) \/ LeaveDeleteClient(h) \/ GoOffline(h)
  <2>1. req[h].pc \in {"leaveFoods", "deleteClient", "offline"}
    BY <1>2 DEF LeaveReadFoods, LeaveDeleteClient, GoOffline, At
  <2>2. /\ UNCHANGED group /\ NobodyJoins /\ NobodySits
        /\ req'[h].pc \in {"idle", "deleteClient", "noti", "find"}
    BY <1>2, LeaveMove, IdleFields
  <2>3. PlaceFits(req[h], held[h])' /\ ExpelFits(req[h])'
    BY <2>2, FreePlace DEF BoundLabels, LookedLabels, WriteLabels, ExpelLabels
  <2> QED
    BY <2>1, <2>2, <2>3, SameSessions, NewsCalm
       DEF LookUps, Wrote, ToldEarly, At
<1> QED
  BY <1>1, <1>2

\* or order.
LEMMA NewsOrders ==
  ASSUME OneAtATime, TypeInv, TypeInv', NewsInv, NEW h \in Handlers, Tell,
         GoneStay,
         \/ OrderReadGroup(h) \/ SetBillMethod(h)
         \/ InsertOrder(h) \/ UpdateWrite(h)
  PROVE  NewsInv'
<1>0. PlaceFits(req[h], held[h])
  BY DEF NewsInv
<1>1. req[h].pc \in WriteLabels
  BY DEF OrderReadGroup, SetBillMethod, InsertOrder, UpdateWrite, WriteLabels,
         At
<1>2. /\ UNCHANGED <<group, client, socket>>
      /\ \/ req'[h].pc = "idle"
         \/ /\ req'[h].t = req[h].t /\ req'[h].g = req[h].g
            /\ req'[h].pc \in {"insertOrder", "updateWrite", "clearCart"}
  BY OrderReads, InsertOrderMove, UpdateWriteMove, IdleFields
     DEF KeepsLocals, KeepsSubject, rows
<1>3. NobodyJoins /\ NobodySits /\ SessionsCalm
  BY <1>2, NobodyMoves, SameSessions
<1>4. PlaceFits(req[h], held[h])' /\ ExpelFits(req[h])'
  BY <1>0, <1>1, <1>2
     DEF PlaceFits, ExpelFits, LookedLabels, WriteLabels, ExpelLabels
<1> QED
  BY <1>1, <1>2, <1>3, <1>4, NewsCalm
     DEF WriteLabels, LookUps, Wrote, ToldEarly, At

\* The waiter writes no cart,
LEMMA NewsWaiter ==
  ASSUME OneAtATime, TypeInv, TypeInv', NewsInv, NEW h \in Handlers, Tell,
         GoneStay,
         \/ FoodWrite(h) \/ AdminReadOrder(h) \/ CreateBill(h) \/ SetBill(h)
         \/ AdminWriteOrder(h) \/ CompleteSession(h)
         \/ CancelDeleteBill(h) \/ CancelReopenOrder(h)
  PROVE  NewsInv'
<1>1. req[h].pc \in OrderLabels
  BY DEF FoodWrite, AdminReadOrder, CreateBill, SetBill, AdminWriteOrder,
         CompleteSession, CancelDeleteBill, CancelReopenOrder, OrderLabels, At
<1>2. req[h].pc \notin {"setMethod", "updateWrite"}
  BY DEF FoodWrite, AdminReadOrder, CreateBill, SetBill, AdminWriteOrder,
         CompleteSession, CancelDeleteBill, CancelReopenOrder, At
<1>3. UNCHANGED <<client, socket>>
  BY FoodWriteMove, AdminReadOrderMove, CreateBillMove, SetBillMove,
     AdminWriteOrderMove, CompleteSessionMove, CancelDeleteBillMove,
     CancelReopenOrderMove DEF rows
<1>4. /\ req'[h].pc \in {"idle", "adminRead", "createBill", "setBill",
                         "adminWrite", "complete", "noti", "find",
                         "cancelBill", "cancelOrder"}
      /\ req'[h].pc = "noti" => req'[h].g = req[h].g
  <2>1. CASE FoodWrite(h) \/ CreateBill(h)
    BY <2>1, FoodWriteMove, CreateBillMove, IdleFields
  <2>2. CASE AdminReadOrder(h)
    BY <2>2, AdminReadOrderMove DEF AfterLists
  <2>3. CASE SetBill(h)
    BY <2>3, SetBillMove, IdleFields
  <2>4. CASE AdminWriteOrder(h)
    BY <2>4, AdminWriteOrderMove
  <2>5. CASE CompleteSession(h)
    BY <2>5, CompleteSessionMove DEF KeepsLocals, KeepsSubject
  <2>6. CASE CancelDeleteBill(h) \/ CancelReopenOrder(h)
    BY <2>6, CancelDeleteBillMove, CancelReopenOrderMove, IdleFields
  <2> QED
    BY <2>1, <2>2, <2>3, <2>4, <2>5, <2>6
<1>5. \/ UNCHANGED group
      \/ group' = [group EXCEPT ![req[h].g].status = "REJECT"]
      \/ group' = [group EXCEPT ![req[h].g].status = "COMPLETED"]
  BY FoodWriteMove, AdminReadOrderMove, CreateBillMove, SetBillMove,
     AdminWriteOrderMove, CompleteSessionMove, CancelDeleteBillMove,
     CancelReopenOrderMove DEF rows
<1>6. SessionsCalm
  <2>1. /\ "REJECT" \notin {"none", "IN_PROGRESS"}
        /\ "COMPLETED" \notin {"none", "IN_PROGRESS"}
    OBVIOUS
  <2> QED
    BY <1>5, <2>1, SameSessions, ClosedSession, Zenon
<1>7. PlaceFits(req[h], held[h])' /\ ExpelFits(req[h])'
  BY <1>4, FreePlace DEF BoundLabels, LookedLabels, WriteLabels, ExpelLabels
<1>8. NobodyJoins /\ NobodySits
  BY <1>3, NobodyMoves
<1> QED
  BY <1>1, <1>2, <1>4, <1>6, <1>7, <1>8, NewsCalm
     DEF OrderLabels, LookUps, Wrote, ToldEarly, At

\* nor does the clearing of a table, which rejects the session after it has told
\* of it.
LEMMA NewsReject ==
  ASSUME OneAtATime, TypeInv, TypeInv', NewsInv, NEW h \in Handlers, Tell,
         GoneStay,
         \/ RejectReadOrder(h) \/ RejectReadFoods(h) \/ RejectFood(h)
         \/ RejectSession(h)
  PROVE  NewsInv'
<1>0. PlaceFits(req[h], held[h])
  BY DEF NewsInv
<1>1. CASE RejectReadOrder(h) \/ RejectReadFoods(h) \/ RejectFood(h)
  <2>1. req[h].pc \in {"rejectOrder", "rejectFoods", "rejectFood"}
    BY <1>1 DEF RejectReadOrder, RejectReadFoods, RejectFood, At
  <2>2. /\ UNCHANGED <<group, client, socket>>
        /\ \/ req'[h].pc = "idle"
           \/ req'[h].pc \in RejectLabels /\ req'[h].g = req[h].g
    BY <1>1, RejectReads, RejectFoodMove, IdleFields DEF RejectLabels, rows
  <2>3. NobodyJoins /\ NobodySits /\ SessionsCalm
    BY <2>2, NobodyMoves, SameSessions
  <2>4. ~LookedUp(h) /\ ~Wrote(h)
    BY <2>1 DEF LookedUp, Wrote, LookUps, At
  <2>5. HeldGoesOn(h) => PlaceFits(req[h], held[h])'
    BY <1>0, <2>1, <2>2, <2>4
       DEF PlaceFits, LookedLabels, WriteLabels, RejectLabels, HeldGoesOn, At
  <2>6. ExpelFits(req[h])'
    BY <2>2 DEF ExpelFits, ExpelLabels, RejectLabels
  <2> QED
    BY <2>1, <2>2, <2>3, <2>4, <2>5, <2>6, NewsCalm
       DEF LookUps, RejectLabels, ToldEarly, At
<1>2. CASE RejectSession(h)
  <2>1. /\ UNCHANGED <<client, socket>> /\ At(h, "rejectGroup")
        /\ req'[h].pc = "idle" /\ req[h].g \in Groups
        /\ group' = [group EXCEPT ![req[h].g].status = "REJECT"]
    BY <1>2, RejectSessionMove, IdleFields
  <2>2. SessionsCalm
    <3>1. "REJECT" \notin {"none", "IN_PROGRESS"}
      OBVIOUS
    <3> QED
      BY <2>1, <3>1, ClosedSession, Zenon
  <2>3. NobodyJoins /\ NobodySits
    BY <2>1, NobodyMoves
  <2>4. group'[req[h].g].status = "REJECT"
    BY <2>1 DEF TypeInv, TypeOK, GroupRow
  <2>5. PlaceFits(req[h], held[h])' /\ ExpelFits(req[h])'
    BY <2>1, FreePlace DEF BoundLabels, LookedLabels, WriteLabels, ExpelLabels
  <2> QED
    BY <2>1, <2>2, <2>3, <2>4, <2>5, NewsCalm DEF LookUps, Wrote, ToldEarly, At
<1> QED
  BY <1>1, <1>2

\* The guests of a table are told what the handler holds.
LEMMA NewsNotify ==
  ASSUME OneAtATime, TypeInv, TypeInv', NewsInv, NEW h \in Handlers, Tell,
         GoneStay, Notify(h)
  PROVE  NewsInv'
<1>0. /\ \A s \in Sockets : ShownFits(s)
      /\ HeldFits(req[h], held[h]) /\ PlaceFits(req[h], held[h])
  BY DEF NewsInv
<1>1. /\ UNCHANGED <<rows, socket, budget>> /\ At(h, "noti")
      /\ req'[h].pc = "idle"
  BY NotifyMove, IdleFields
<1>2. NobodyJoins /\ NobodySits /\ SessionsCalm
  BY <1>1, NobodyMoves, SameSessions DEF rows
<1>3. HeldFits(req[h], held[h])'
  BY <1>0, <1>1, <1>2, HeldKept DEF LookedUp, Wrote, LookUps, At
<1>4. PlaceFits(req[h], held[h])' /\ ExpelFits(req[h])'
  BY <1>1, FreePlace DEF BoundLabels, LookedLabels, WriteLabels, ExpelLabels
<1>5. \A n \in late' : LateFits(n)'
  BY <1>0, <1>1, <1>2, LateKept DEF NewsInv, HasSession, ToldEarly, At
<1>6. \A t : Owed(t) => held[h].g # None /\ Room(h) = t
  BY <1>1 DEF Owed, OneAtATime, LookUps, At
<1>7. CASE held[h].g = None
  <2>1. UNCHANGED shown
    BY <1>7, TellMove DEF Told
  <2>2. \A s \in Sockets : ShownFits(s)'
    BY <1>0, <1>2, <1>6, <1>7, <2>1, ShownKept
  <2> QED
    BY <1>3, <1>4, <1>5, <2>2 DEF NewsInv, OneAtATime
<1>8. CASE held[h].g # None
  <2>1. Show(Room(h), held[h])
    BY <1>1, <1>8, TellMove DEF Told, At
  <2>2. PICK n : n = held[h]
    OBVIOUS
  <2>3. FreshNews(n) /\ n.g \in Existing
    BY <1>0, <1>1, <1>8, <2>2 DEF HeldFits, LookUps, At
  <2>4. FreshNews(n)' /\ n.g \in Existing'
    BY <1>2, <2>3, FreshCalm DEF SessionsCalm
  <2>5. ASSUME NEW s \in Sockets
        PROVE  ShownFits(s)'
    <3>1. CASE socket[s].live /\ socket[s].room = Room(h)
      <4>1. shown'[s] = n
        BY <2>1, <2>2, <3>1 DEF Show
      <4> QED
        BY <2>4, <4>1 DEF ShownFits, FreshNews
    <3>2. CASE ~(socket[s].live /\ socket[s].room = Room(h))
      <4>1. shown'[s] = shown[s]
        BY <2>1, <3>2 DEF Show
      <4>2. AtShown(s)' => AtShown(s)
        BY <1>1, <4>1 DEF AtShown, InProgress, GoesOn, rows
      <4>3. AtShown(s) => FreshNews(shown[s])
        BY <1>0, <1>6, <3>2 DEF ShownFits, AtShown
      <4>4. shown'[s].g \in Existing' \cup {None}
        BY <1>0, <1>2, <4>1 DEF ShownFits, SessionsCalm
      <4>5. AtShown(s) => shown[s].g \in Existing
        BY <1>0, NoneAssumption DEF ShownFits, AtShown, InProgress
      <4>6. PICK m : m = shown[s]
        OBVIOUS
      <4>7. AtShown(s) => FreshNews(m)'
        BY <1>2, <4>3, <4>5, <4>6, FreshCalm
      <4>8. FreshNews(m)' <=> FreshNews(shown[s])'
        BY <4>1, <4>6 DEF FreshNews
      <4> QED
        BY <4>2, <4>4, <4>7, <4>8 DEF ShownFits
    <3> QED
      BY <3>1, <3>2
  <2> QED
    BY <1>3, <1>4, <1>5, <2>5 DEF NewsInv, OneAtATime
<1> QED
  BY <1>7, <1>8

\* A session is looked up: what was owed to its table is owed still, unless the
\* table has no session to be told of.
LEMMA NewsLookUp ==
  ASSUME OneAtATime, TypeInv, TypeInv', NewsInv, NEW h \in Handlers, Tell,
         GoneStay, req[h].pc \in LookUps, SessionsCalm, UNCHANGED <<client, socket>>,
         req'[h].t = req[h].t, req'[h].ret = req[h].ret,
         \/ req'[h].pc = "createGroup"
         \/ /\ req'[h].pc = req[h].ret
            /\ \/ req'[h].g = None /\ InProgress(req[h].t)' = {}
               \/ req'[h].g \in InProgress(req[h].t)'
  PROVE  NewsInv'
<1>0. /\ \A s \in Sockets : ShownFits(s)
      /\ HeldFits(req[h], held[h]) /\ PlaceFits(req[h], held[h])
  BY DEF NewsInv
<1>1. req[h].ret \in ReturnLabels /\ req[h].t \in Tables
  BY DEF TypeInv, RequestsFit, Fit, LookUps, TableLabels
<1>2. NobodyJoins /\ NobodySits
  BY NobodyMoves
<1>3. LookedUp(h) <=> req'[h].pc # "createGroup"
  BY <1>1 DEF LookedUp, LookUps, ReturnLabels, At
<1>4. LookedUp(h) => req'[h].g \in Existing' \cup {None}
  BY <1>3 DEF InProgress, Existing
<1>5. ~Wrote(h) /\ ~ToldEarly(h) /\ ~Told(h) /\ ~At(h, "deselectWrite")
      /\ ~At(h, "rejectGroup")
  BY DEF Wrote, ToldEarly, Told, LookUps, At
<1>6. HeldFits(req[h], held[h])' /\ HeldGoesOn(h)
  BY <1>0, <1>2, <1>4, <1>5, HeldKept
<1>7. LookedUp(h) => held'[h].g = req'[h].g
  BY <1>1, <1>3, <1>6 DEF HeldGoesOn, ReturnLabels, At
<1>8. PlaceFits(req[h], held[h])' /\ ExpelFits(req[h])'
  BY <1>1, <1>3, <1>7
     DEF PlaceFits, ExpelFits, LookedLabels, ReturnLabels, WriteLabels,
         ExpelLabels
<1>9. \A t \in Tables : Owed(t) => Owed(t)' \/ InProgress(t)' = {}
  <2>1. ASSUME NEW t \in Tables, Owed(t)
        PROVE  Owed(t)' \/ InProgress(t)' = {}
    <3>1. req[h].ret = "noti" /\ req[h].t = t
      BY <2>1 DEF Owed, OneAtATime, LookUps, At
    <3>2. CASE req'[h].pc = "createGroup"
      BY <3>1, <3>2 DEF Owed, LookUps
    <3>3. CASE req'[h].g = None /\ InProgress(req[h].t)' = {}
      BY <3>1, <3>3 DEF InProgress
    <3>4. CASE req'[h].pc = req[h].ret /\ req'[h].g \in InProgress(req[h].t)'
      <4>1. held'[h].g # None
        BY <1>3, <1>7, <3>1, <3>4, NoneAssumption DEF InProgress
      <4>2. Room(h)' = t
        BY <1>1, <3>1, NoneAssumption DEF Room
      <4> QED
        BY <3>1, <3>4, <4>1, <4>2 DEF Owed, At
    <3> QED
      BY <3>2, <3>3, <3>4
  <2> QED
    BY <2>1
<1>10. UNCHANGED shown
  BY <1>5, TellMove
<1>11. \A s \in Sockets : ShownFits(s)'
  BY <1>0, <1>2, <1>9, <1>10, ShownKept
<1>12. \A n \in late' : LateFits(n)'
  BY <1>0, <1>2, <1>5, LateKept DEF NewsInv, HasSession, LookUps
<1> QED
  BY <1>6, <1>8, <1>11, <1>12 DEF NewsInv, OneAtATime

\* The cart of a session is written, and its table will be told.
LEMMA NewsCart ==
  ASSUME OneAtATime, TypeInv, TypeInv', NewsInv, NEW h \in Handlers, Tell,
         GoneStay, req[h].pc \in {"push", "deselectWrite", "clearCart"},
         NEW g \in Existing, g = req[h].g, group[g].table = req[h].t,
         NEW cart, group' = [group EXCEPT ![g].cart = cart],
         UNCHANGED <<client, socket>>,
         req'[h].pc = "noti", req'[h].g = g, req'[h].t = req[h].t,
         HeldFits(req[h], held[h])', held'[h].g = g
  PROVE  NewsInv'
<1>0. \A s \in Sockets : ShownFits(s)
  BY DEF NewsInv
<1>1. g \in Groups /\ g # None /\ group[g].table \in Tables
  BY NoneAssumption DEF Existing, TypeInv, RowsFit
<1>2. /\ \A k \in Groups \ {g} : group'[k] = group[k]
      /\ group'[g].status = group[g].status /\ group'[g].table = group[g].table
      /\ group'[g].reopened = group[g].reopened
  BY <1>1 DEF TypeInv, TypeOK, GroupRow
<1>3. Existing' = Existing /\ \A k \in Existing : GoesOn(k)' <=> GoesOn(k)
  BY <1>2 DEF Existing, GoesOn
<1>4. ~Told(h) /\ ~ToldEarly(h)
  BY DEF Told, ToldEarly, At
<1>5. \A t \in Tables : ~Owed(t)
  BY DEF Owed, OneAtATime, LookUps, At
<1>6. \A n \in late' : LateFits(n)'
  <2>1. ASSUME NEW n \in late
        PROVE  n.g \in Existing /\ ~GoesOn(n.g)
    BY DEF NewsInv, LateFits, OneAtATime, At
  <2>2. late' = late
    BY <1>4, TellMove
  <2> QED
    BY <1>3, <2>1, <2>2 DEF LateFits
<1>7. Owed(req[h].t)'
  <2>1. PICK t \in Tables : t = group[g].table
    BY <1>1
  <2>2. Room(h)' = t /\ At(h, "noti")' /\ held'[h].g # None
    BY <1>1, <2>1, NoneAssumption DEF Room, At
  <2> QED
    BY <2>1, <2>2 DEF Owed
<1>8. ASSUME NEW s \in Sockets
      PROVE  ShownFits(s)'
  <2>1. shown'[s] = shown[s]
    BY <1>4, TellMove
  <2>2. AtShown(s)' => AtShown(s) /\ socket[s].room = group[shown[s].g].table
    BY <1>2, <2>1 DEF AtShown, InProgress, GoesOn
  <2>3. CASE AtShown(s)' /\ shown[s].g = g
    BY <1>0, <1>3, <1>7, <2>1, <2>2, <2>3 DEF ShownFits, Owed
  <2>4. CASE AtShown(s)' /\ shown[s].g # g
    <3>1. PICK m : m = shown[s]
      OBVIOUS
    <3>2. FreshNews(m) /\ m.g \in Groups \ {g}
      BY <1>0, <1>1, <1>5, <2>2, <2>4, <3>1
         DEF ShownFits, AtShown, InProgress, TypeInv, RowsFit, Existing
    <3>3. CartCalm(m.g)
      BY <1>2, <3>2 DEF CartCalm
    <3>4. FreshNews(m)'
      BY <3>2, <3>3, FreshStays DEF HasClient
    <3>5. FreshNews(shown[s])'
      BY <2>1, <3>1, <3>4 DEF FreshNews
    <3> QED
      BY <1>0, <1>3, <2>1, <3>5 DEF ShownFits
  <2>5. CASE ~AtShown(s)'
    BY <1>0, <1>3, <2>1, <2>5 DEF ShownFits
  <2> QED
    BY <2>3, <2>4, <2>5
<1>9. PlaceFits(req[h], held[h])' /\ ExpelFits(req[h])'
  BY FreePlace DEF BoundLabels, LookedLabels, WriteLabels, ExpelLabels
<1> QED
  BY <1>6, <1>8, <1>9 DEF NewsInv, OneAtATime

\* An entry is pushed, the cart cleared, or an entry spliced out of it.
LEMMA NewsCarts ==
  ASSUME OneAtATime, TypeInv, TypeInv', EntryInv, NewsInv, NEW h \in Handlers,
         Tell, GoneStay, SelectPush(h) \/ ClearCart(h) \/ DeselectWrite(h)
  PROVE  NewsInv'
<1>0. HeldFits(req[h], held[h]) /\ PlaceFits(req[h], held[h])
  BY DEF NewsInv
<1>1. req[h].pc \in {"push", "clearCart", "deselectWrite"}
  BY DEF SelectPush, ClearCart, DeselectWrite, At
<1>2. req[h].g \in Existing /\ group[req[h].g].table = req[h].t
  <2>1. CASE At(h, "clearCart")
    BY <1>0, <2>1, SessionFit DEF PlaceFits, TypeInv, SessionLabels, At
  <2>2. CASE ~At(h, "clearCart")
    BY <1>0, <1>1, <2>2 DEF PlaceFits, LookedLabels, InProgress, Existing, At
  <2> QED
    BY <2>1, <2>2
<1>3. PICK g \in Existing : g = req[h].g
  BY <1>2
<1>4. held'[h] = Held(h)
  BY TellMove
<1>5. CASE SelectPush(h) \/ ClearCart(h)
  <2>1. /\ UNCHANGED <<client, socket>> /\ req'[h].pc = "noti" /\ KeepsLocals(h)
        /\ \E c : group' = [group EXCEPT ![g].cart = c]
    BY <1>3, <1>5, SelectPushMove, ClearCartMove
  <2>2. PICK c : group' = [group EXCEPT ![g].cart = c]
    BY <2>1
  <2>3. req'[h].g = g /\ req'[h].t = req[h].t
    BY <1>3, <2>1 DEF KeepsLocals, KeepsSubject
  <2>4. \A k \in Groups : group'[k].status = group[k].status
    BY <2>2 DEF TypeInv, TypeOK, GroupRow
  <2>5. g \in Existing'
    BY <2>4 DEF Existing
  <2>6. Wrote(h)
    BY <1>5, <2>1 DEF Wrote, SelectPush, ClearCart, At
  <2>7. held'[h] = Row(req'[h].g)
    BY <1>4, <2>1, <2>6 DEF Held, At
  <2>8. HeldFits(req[h], held[h])' /\ held'[h].g = g
    BY <2>3, <2>5, <2>7, HeldRead
  <2> QED
    BY <1>1, <1>2, <1>3, <2>1, <2>2, <2>3, <2>8, NewsCart
<1>6. CASE DeselectWrite(h)
  <2> DEFINE cart == Splice(req[h].cart, req[h].item)
  <2>1. /\ UNCHANGED <<client, socket>> /\ At(h, "deselectWrite")
        /\ group' = [group EXCEPT ![g].cart = cart]
        /\ \/ req[h].cart = <<>> /\ req'[h] = Idle
           \/ req'[h].pc = "noti" /\ KeepsSubject(h)
    BY <1>3, <1>6, DeselectWriteMove
  <2>2. CASE req[h].cart = <<>> /\ req'[h] = Idle
    <3>1. group[g].cart = <<>> /\ cart = <<>>
      BY <1>3, <2>1, <2>2, NoneAssumption
         DEF EntryInv, CopyFits, Splice, Existing, At
    <3>2. \A k \in Groups : group'[k] = group[k]
      BY <2>1, <3>1 DEF TypeInv, TypeOK, GroupRow
    <3>3. SessionsCalm
      BY <3>2 DEF SessionsCalm, CartCalm, GoesOn, Existing
    <3>4. NobodyJoins /\ NobodySits
      BY <2>1, NobodyMoves
    <3>5. req'[h].pc = "idle"
      BY <2>2, IdleFields
    <3>6. PlaceFits(req[h], held[h])' /\ ExpelFits(req[h])'
      BY <3>5, FreePlace
         DEF BoundLabels, LookedLabels, WriteLabels, ExpelLabels
    <3> QED
      BY <2>1, <3>3, <3>4, <3>5, <3>6, NewsCalm
         DEF LookUps, Wrote, ToldEarly, At
  <2>3. CASE req'[h].pc = "noti" /\ KeepsSubject(h)
    <3>1. req'[h].g = g /\ req'[h].t = req[h].t
      BY <1>3, <2>3 DEF KeepsSubject
    <3>2. held[h] \in News /\ held[h].g = g /\ FreshNews(held[h])
      BY <1>0, <1>3, <2>1, NoneAssumption
         DEF HeldFits, PlaceFits, LookedLabels, LookUps, Existing, At
    <3>3. held'[h] = [held[h] EXCEPT !.cart = group'[g].cart]
      BY <1>4, <2>1, <2>3, <3>2
         DEF Held, LookedUp, Wrote, LookUps, At
    <3>4. group'[g].cart \in Seq(Entry) /\ g \in Existing'
      <4>1. group'[g].status = group[g].status /\ g \in Groups
        BY <2>1 DEF TypeInv, TypeOK, GroupRow, Existing
      <4> QED
        BY <4>1 DEF TypeInv, TypeOK, GroupRow, Existing
    <3>5. /\ held'[h] \in News /\ held'[h].g = g
          /\ held'[h].cart = group'[g].cart /\ held'[h].guests = held[h].guests
      BY <3>2, <3>3, <3>4 DEF News
    <3>6. FreshNews(held[h])'
      BY <2>1, <3>2, <3>5 DEF FreshNews, HasClient
    <3>7. HeldFits(req[h], held[h])'
      BY <3>4, <3>5, <3>6 DEF HeldFits
    <3> HIDE DEF cart
    <3> QED
      BY <1>1, <1>2, <1>3, <2>1, <2>3, <3>1, <3>5, <3>7, NewsCart
  <2> QED
    BY <2>1, <2>2, <2>3
<1> QED
  BY <1>5, <1>6

\* A guest takes a seat, of which the table will be told.
LEMMA NewsSeated ==
  ASSUME OneAtATime, TypeInv, TypeInv', NewsInv, NEW h \in Handlers, Tell,
         GoneStay, CreateClient(h) \/ Reconnect(h)
  PROVE  NewsInv'
<1>0. /\ \A s \in Sockets : ShownFits(s)
      /\ HeldFits(req[h], held[h]) /\ PlaceFits(req[h], held[h])
  BY DEF NewsInv
<1>1. UNCHANGED group /\ req[h].pc \in {"createClient", "reconnect"}
  BY SeatedMove
<1>2. SessionsCalm
  BY <1>1, SameSessions
<1>3. ~Told(h) /\ ~ToldEarly(h) /\ ~LookedUp(h) /\ ~Wrote(h)
      /\ ~At(h, "deselectWrite") /\ ~At(h, "rejectGroup") /\ ~At(h, "noti")
  BY <1>1 DEF Told, ToldEarly, LookedUp, Wrote, LookUps, At
<1>4. CASE req'[h] = Idle /\ UNCHANGED <<client, socket>>
  <2>1. NobodyJoins /\ NobodySits
    BY <1>4, NobodyMoves
  <2>2. req'[h].pc = "idle"
    BY <1>4, IdleFields
  <2>3. PlaceFits(req[h], held[h])' /\ ExpelFits(req[h])'
    BY <2>2, FreePlace DEF BoundLabels, LookedLabels, WriteLabels, ExpelLabels
  <2> QED
    BY <1>1, <1>2, <1>3, <2>1, <2>3, NewsCalm DEF LookUps, At
<1>5. CASE /\ req'[h].pc = "find" /\ req'[h].ret = "noti"
           /\ req'[h].t = req[h].t
           /\ \E c \in Clients \cup {None} :
                /\ socket' = Seated(h, c)
                /\ c \in Clients => client'[c].group = req[h].g
                /\ \A k \in Clients \ {c} : client'[k] = client[k]
  <2>1. PICK c \in Clients \cup {None} :
          /\ socket' = Seated(h, c)
          /\ c \in Clients => client'[c].group = req[h].g
          /\ \A k \in Clients \ {c} : client'[k] = client[k]
    BY <1>5
  <2>2. PICK t \in Tables : t = req[h].t
    BY <1>1 DEF TypeInv, RequestsFit, Fit, TableLabels, GuestLabels
  <2>3. PICK g \in InProgress(t) : g = req[h].g
    <3>1. req[h].g # None
      BY <1>1, NoneAssumption DEF TypeInv, RequestsFit, Fit, GuestLabels
    <3> QED
      BY <1>0, <1>1, <2>2, <3>1 DEF PlaceFits, LookedLabels
  <2>4. Owed(t)'
    BY <1>5, <2>2 DEF Owed, LookUps
  <2>5. \A k \in Tables : ~Owed(k)
    BY <1>1 DEF Owed, OneAtATime, LookUps, At
  <2>6. UNCHANGED shown /\ late' = late /\ held'[h] = held[h]
    BY <1>3, <1>5, TellMove DEF Held, At
  <2>7. \A s \in Sockets :
          /\ socket'[s].live = socket[s].live
          /\ \/ socket'[s].room = t
             \/ s # req[h].s /\ socket'[s].room = socket[s].room
    BY <2>1, <2>2 DEF Seated, TypeInv, TypeOK, Connection
  <2>8. ASSUME NEW s \in Sockets, AtShown(s)', socket'[s].room # t
        PROVE  FreshNews(shown[s])'
    <3>1. AtShown(s) /\ shown'[s] = shown[s] /\ socket'[s].room = socket[s].room
      BY <1>1, <2>6, <2>7, <2>8 DEF AtShown, InProgress, GoesOn
    <3>2. PICK n : n = shown[s]
      OBVIOUS
    <3>3. /\ n.g \in Groups /\ group[n.g].table = socket[s].room
          /\ socket[s].room \in Tables
      BY <3>1, <3>2 DEF AtShown, InProgress, TypeInv, RowsFit, Existing
    <3>4. n.g # g
      BY <2>3, <2>8, <3>1, <3>3 DEF InProgress
    <3>5. FreshNews(n)
      BY <1>0, <2>5, <3>1, <3>2, <3>3 DEF ShownFits
    <3>6. ASSUME NEW k \in Clients, HasClient(k)', client'[k].group = n.g
          PROVE  HasClient(k) /\ client[k].group = n.g
      <4>1. k # c
        BY <2>1, <2>3, <3>4, <3>6
      <4>2. client'[k] = client[k]
        BY <2>1, <4>1
      <4> QED
        BY <3>6, <4>2 DEF HasClient
    <3>7. CartCalm(n.g)
      BY <1>1 DEF CartCalm
    <3>8. FreshNews(n)'
      BY <3>5, <3>6, <3>7, FreshStays
    <3> QED
      BY <3>1, <3>2, <3>8 DEF FreshNews
  <2>9. ASSUME NEW s \in Sockets
        PROVE  ShownFits(s)'
    <3>1. shown'[s].g \in Existing' \cup {None}
      BY <1>0, <1>1, <2>6 DEF ShownFits, Existing
    <3>2. socket'[s].room = t => Owed(socket[s].room)'
      BY <2>4 DEF Owed
    <3> QED
      BY <2>8, <3>1, <3>2 DEF ShownFits
  <2>10. \A n \in late' : LateFits(n)'
    BY <1>1, <1>3, <2>6 DEF NewsInv, LateFits, Existing, OneAtATime, GoesOn
  <2>11. HeldFits(req[h], held[h])'
    BY <1>0, <1>1, <1>5, <2>6 DEF HeldFits, LookUps, Existing
  <2>12. PlaceFits(req[h], held[h])' /\ ExpelFits(req[h])'
    BY <1>5, FreePlace DEF BoundLabels, LookedLabels, WriteLabels, ExpelLabels
  <2> QED
    BY <2>9, <2>10, <2>11, <2>12 DEF NewsInv, OneAtATime
<1> QED
  BY <1>4, <1>5, SeatedMove

\* A session is looked up or created.
LEMMA NewsSession ==
  ASSUME OneAtATime, TypeInv, TypeInv', NewsInv, NEW h \in Handlers, Tell,
         GoneStay, FindSession(h) \/ CreateSession(h)
  PROVE  NewsInv'
<1>1. CASE FindSession(h)
  <2>1. /\ UNCHANGED <<rows, socket>> /\ req[h].pc \in LookUps
        /\ req'[h].t = req[h].t /\ req'[h].ret = req[h].ret
        /\ \/ req'[h].pc = "createGroup"
           \/ /\ req'[h].pc = req[h].ret
              /\ \/ req'[h].g = None /\ InProgress(req[h].t) = {}
                 \/ req'[h].g \in InProgress(req[h].t)
    BY <1>1, FindSessionMove DEF LookUps, At
  <2>2. InProgress(req[h].t)' = InProgress(req[h].t)
    BY <2>1 DEF InProgress, rows
  <2>3. SessionsCalm /\ UNCHANGED <<client, socket>>
    BY <2>1, SameSessions DEF rows
  <2> QED
    BY <2>1, <2>2, <2>3, NewsLookUp
<1>2. CASE CreateSession(h)
  <2>1. /\ UNCHANGED <<client, socket>> /\ req[h].pc \in LookUps
        /\ req'[h].t = req[h].t /\ req'[h].ret = req[h].ret
        /\ req'[h].pc = req[h].ret /\ req'[h].g \in Groups \ Existing
        /\ group' = [group EXCEPT ![req'[h].g] = NewSession(req[h].t)]
    BY <1>2, CreateSessionMove DEF LookUps, At
  <2>2. PICK n \in Groups \ Existing : n = req'[h].g
    BY <2>1
  <2>3. /\ \A g \in Groups \ {n} : group'[g] = group[g]
        /\ group'[n].status = "IN_PROGRESS" /\ group'[n].table = req[h].t
    BY <2>1, <2>2 DEF TypeInv, TypeOK, NewSession, NoGroup
  <2>4. SessionsCalm
    BY <2>2, <2>3 DEF SessionsCalm, CartCalm, GoesOn, Existing
  <2>5. req'[h].g \in InProgress(req[h].t)'
    BY <2>1, <2>2, <2>3 DEF InProgress
  <2> QED
    BY <2>1, <2>4, <2>5, NewsLookUp
<1> QED
  BY <1>1, <1>2

\* The entries of a cart with one more.
LEMMA AppendSet ==
  ASSUME NEW cart \in Seq(Entry), NEW e \in Entry
  PROVE  ToSet(Append(cart, e)) = ToSet(cart) \cup {e}
<1> DEFINE more == Append(cart, e)
<1>1. /\ Len(cart) \in Nat
      /\ DOMAIN more = 1..(Len(cart) + 1) /\ DOMAIN cart = 1..Len(cart)
      /\ \A j \in 1..Len(cart) : more[j] = cart[j]
      /\ more[Len(cart) + 1] = e
  OBVIOUS
<1> HIDE DEF more
<1>2. 1..(Len(cart) + 1) = (1..Len(cart)) \cup {Len(cart) + 1}
  BY <1>1
<1>3. ToSet(more) = ToSet(cart) \cup {e}
  BY <1>1, <1>2 DEF ToSet
<1> QED
  BY <1>3 DEF more

\* What Without leaves of a cart is the entries of the other guests.
LEMMA WithoutOthers ==
  ASSUME NEW cart \in Seq(Entry), NEW c
  PROVE  ToSet(Without(cart, c)) = {e \in ToSet(cart) : e.user # c}
<1>1. PICK f : /\ \A i \in 0..Len(cart) :
                    /\ f[i] \in Seq(Entry)
                    /\ f[i] = IF i = 0 THEN <<>>
                              ELSE IF cart[i].user = c THEN f[i - 1]
                              ELSE Append(f[i - 1], cart[i])
               /\ Without(cart, c) = f[Len(cart)]
  BY WithoutSteps
<1> DEFINE Left(i) == {cart[j] : j \in {k \in 1..i : cart[k].user # c}}
           Good(i) == ToSet(f[i]) = Left(i)
           Wrong   == {i \in 0..Len(cart) : ~Good(i)}
<1>2. Len(cart) \in Nat
  OBVIOUS
<1>3. Wrong = {}
  <2> SUFFICES ASSUME Wrong # {} PROVE FALSE
    OBVIOUS
  <2>1. PICK n \in Wrong : \A m \in Wrong : n <= m
    <3>1. Wrong \subseteq Nat
      OBVIOUS
    <3> HIDE DEF Wrong
    <3> QED
      BY <3>1, LeastNatural
  <2>2. n # 0
    <3>1. f[0] = <<>>
      BY <1>1, <1>2
    <3> QED
      BY <3>1 DEF ToSet
  <2>3. n \in 1..Len(cart) /\ n - 1 \in 0..Len(cart) /\ ~(n <= n - 1)
    BY <2>2
  <2>4. ToSet(f[n - 1]) = Left(n - 1)
    <3>1. n - 1 \notin Wrong
      <4> HIDE DEF Wrong
      <4> QED
        BY <2>1, <2>3
    <3> QED
      BY <2>3, <3>1
  <2>5. f[n - 1] \in Seq(Entry) /\ cart[n] \in Entry
    BY <1>1, <2>3
  <2>6. 1..n = (1..(n - 1)) \cup {n}
    BY <2>3
  <2>7. CASE cart[n].user = c
    <3>1. f[n] = f[n - 1]
      BY <1>1, <2>2, <2>3, <2>7
    <3>2. Left(n) = Left(n - 1)
      BY <2>6, <2>7
    <3> QED
      BY <2>1, <2>4, <3>1, <3>2
  <2>8. CASE cart[n].user # c
    <3>1. f[n] = Append(f[n - 1], cart[n])
      BY <1>1, <2>2, <2>3, <2>8
    <3>2. Left(n) = Left(n - 1) \cup {cart[n]}
      BY <2>6, <2>8
    <3>3. ToSet(Append(f[n - 1], cart[n])) = ToSet(f[n - 1]) \cup {cart[n]}
      BY <2>5, AppendSet
    <3> HIDE DEF Left
    <3>4. ToSet(f[n]) = Left(n)
      BY <2>4, <3>1, <3>2, <3>3
    <3> QED
      BY <2>1, <3>4
  <2> QED
    BY <2>7, <2>8
<1>4. Good(Len(cart))
  <2>1. Len(cart) \in 0..Len(cart)
    BY <1>2
  <2> HIDE DEF Good
  <2> QED
    BY <1>3, <2>1
<1>5. Left(Len(cart)) = {e \in ToSet(cart) : e.user # c}
  BY DEF ToSet
<1> QED
  BY <1>1, <1>4, <1>5

\* A guest is removed: the entries that are taken out of the cart are the guest's,
\* and no row that is to be deleted is gone by then.
LEMMA NewsExpel ==
  ASSUME OneAtATime, TypeInv, TypeInv', NewsInv, NEW h \in Handlers, Tell,
         Expels(h)
  PROVE  NewsInv'
<1> DEFINE c == req[h].c
<1>0. /\ UNCHANGED socket /\ req[h].pc \in ExpelLabels
      /\ req'[h].pc \in ExpelLabels \cup {"idle"}
      /\ \A g \in Groups : /\ group'[g].status = group[g].status
                           /\ group'[g].table = group[g].table
  BY ExpelMove DEF Expels
<1>1. c \in Clients /\ HasClient(c) /\ ~req[h].failed /\ ExpelFits(req[h])
  BY <1>0 DEF NewsInv, ExpelFits
<1>2. req[h] \in Request
  BY DEF TypeInv, TypeOK
<1>3. PlaceFits(req[h], held[h])'
  BY <1>0 DEF PlaceFits, ExpelLabels, LookedLabels, WriteLabels
\* A step on the way, after which the removal goes on.
<1>4. ASSUME NEW r, req' = [req EXCEPT ![h] = r], r.c = c, ~r.failed,
             r.pc \in ExpelLabels, UNCHANGED client, SessionsCalm,
             ExpelFits(r)'
      PROVE  NewsInv'
  <2>1. req'[h] = r
    BY <1>4 DEF TypeInv, TypeOK
  <2>2. GoneStay
    BY <1>0, <1>4, <2>1 DEF GoneStay, Gone, Removing, OneAtATime
  <2>3. NobodyJoins /\ NobodySits
    BY <1>0, <1>4, NobodyMoves
  <2>4. ExpelFits(req[h])'
    BY <1>4, <2>1 DEF ExpelFits
  <2> QED
    BY <1>0, <1>3, <1>4, <2>2, <2>3, <2>4, NewsCalm
       DEF ExpelLabels, LookUps, Wrote, ToldEarly, At
<1>5. CASE ExpelReadClient(h)
  <2> DEFINE g    == client[c].group
             kept == Without(group[g].cart, c)
             pc   == IF kept # <<>> THEN "expelCart" ELSE "expelFoods"
  <2>1. PICK r : /\ r = [req[h] EXCEPT !.pc = pc, !.g = g, !.cart = kept]
                 /\ req' = [req EXCEPT ![h] = r] /\ UNCHANGED rows
    BY <1>1, <1>5 DEF ExpelReadClient
  <2>2. /\ r.c = c /\ r.failed = req[h].failed /\ r.g = g /\ r.cart = kept
        /\ r.pc \in {"expelCart", "expelFoods"}
    <3>1. pc \in {"expelCart", "expelFoods"}
      OBVIOUS
    <3> HIDE DEF g, kept, pc
    <3> QED
      BY <1>2, <2>1, <3>1 DEF Request
  <2>3. g \in Groups
    BY <1>1 DEF TypeInv, RowsFit
  <2>4. UNCHANGED <<group, client>>
    BY <2>1 DEF rows
  <2>5. /\ HasClient(r.c)' /\ group'[r.g].cart = group[g].cart
    BY <1>1, <2>2, <2>4 DEF HasClient
  <2>6. ExpelFits(r)'
    BY <1>1, <2>2, <2>3, <2>5 DEF ExpelFits
  <2> QED
    BY <1>1, <1>4, <2>1, <2>2, <2>4, <2>6, SameSessions DEF ExpelLabels
<1>6. CASE ExpelWriteCart(h)
  <2> DEFINE g == req[h].g
  <2>1. PICK r :
          /\ At(h, "expelCart") /\ UNCHANGED client
          /\ group' = [group EXCEPT ![g].cart = req[h].cart]
          /\ r = [req[h] EXCEPT !.pc = "expelFoods", !.cart = <<>>]
          /\ req' = [req EXCEPT ![h] = r]
    BY <1>6 DEF ExpelWriteCart
  <2>2. r.c = c /\ r.failed = req[h].failed /\ r.pc = "expelFoods"
    BY <1>2, <2>1 DEF Request
  <2>3. g \in Groups /\ req[h].cart = Without(group[g].cart, c)
    BY <1>0, <1>1, <2>1 DEF ExpelFits, At
  <2>4. /\ \A k \in Groups \ {g} : group'[k] = group[k]
        /\ group'[g].cart = req[h].cart
        /\ group'[g].reopened = group[g].reopened
    BY <2>1, <2>3 DEF TypeInv, TypeOK, GroupRow
  <2>5. req'[h] = r
    BY <2>1 DEF TypeInv, TypeOK
  <2>6. c \in Gone'
    BY <1>1, <2>2, <2>5 DEF Gone, Removing, ExpelLabels
  <2>7. CartCalm(g)
    <3>1. group[g].cart \in Seq(Entry)
      BY <2>3 DEF TypeInv, TypeOK, GroupRow
    <3>2. ToSet(group'[g].cart) = {e \in ToSet(group[g].cart) : e.user # c}
      BY <2>3, <2>4, <3>1, WithoutOthers
    <3> QED
      BY <2>6, <3>2 DEF CartCalm, LiveIn
  <2>8. SessionsCalm
    <3> HIDE DEF g
    <3>1. \A k \in Groups : CartCalm(k) /\ (GoesOn(k)' <=> GoesOn(k))
      BY <1>0, <2>4, <2>7 DEF CartCalm, GoesOn
    <3> QED
      BY <1>0, <3>1 DEF SessionsCalm, Existing
  <2>9. ExpelFits(r)'
    BY <1>1, <2>1, <2>2 DEF ExpelFits, HasClient
  <2> QED
    BY <1>1, <1>4, <2>1, <2>2, <2>8, <2>9 DEF ExpelLabels
<1>7. CASE ExpelReadFoods(h)
  <2>1. PICK r :
          /\ UNCHANGED <<group, client, food>>
          /\ r = [req[h] EXCEPT !.pc = "expelFood", !.foods = FoodsOfClient(c)]
          /\ req' = [req EXCEPT ![h] = r]
    BY <1>7 DEF ExpelReadFoods, rows
  <2>2. /\ r.c = c /\ r.failed = req[h].failed /\ r.pc = "expelFood"
        /\ r.foods = FoodsOfClient(c)
    BY <1>2, <2>1 DEF Request
  <2>3. ExpelFits(r)'
    BY <1>1, <2>1, <2>2 DEF ExpelFits, HasClient, FoodsOfClient, HasFood
  <2> QED
    BY <1>1, <1>4, <2>1, <2>2, <2>3, SameSessions DEF ExpelLabels
<1>8. CASE ExpelDeleteFood(h)
  <2>1. PICK f \in req[h].foods :
          /\ food' = IF HasFood(f)
                     THEN [food EXCEPT ![f] = [NoFood EXCEPT !.status = "deleted"]]
                     ELSE food
          /\ req' = [req EXCEPT ![h] =
                       [req[h] EXCEPT !.foods = req[h].foods \ {f},
                                      !.failed = req[h].failed \/ ~HasFood(f)]]
    BY <1>8 DEF ExpelDeleteFood
  <2>2. At(h, "expelFood") /\ UNCHANGED <<group, client>>
    BY <1>8 DEF ExpelDeleteFood
  <2>3. \A e \in req[h].foods : HasFood(e)
    BY <1>0, <1>1, <2>2 DEF ExpelFits, At
  <2> DEFINE b == req[h].failed \/ ~HasFood(f)
  <2>4. ~b
    BY <1>1, <2>1, <2>3
  <2>5. PICK r :
          /\ r = [req[h] EXCEPT !.foods = req[h].foods \ {f}, !.failed = b]
          /\ req' = [req EXCEPT ![h] = r]
    BY <2>1
  <2> HIDE DEF b
  <2>6. /\ r.c = c /\ r.failed = b /\ r.pc = "expelFood"
        /\ r.foods = req[h].foods \ {f}
    BY <1>2, <2>2, <2>5 DEF Request, At
  <2>7. \A e \in r.foods : HasFood(e)'
    <3>1. \A e \in Foods \ {f} : food'[e] = food[e]
      BY <2>1 DEF TypeInv, TypeOK
    <3>2. req[h].foods \subseteq Foods
      BY <1>2 DEF Request
    <3> QED
      BY <2>3, <2>6, <3>1, <3>2 DEF HasFood
  <2>8. ExpelFits(r)'
    BY <1>1, <2>2, <2>4, <2>6, <2>7 DEF ExpelFits, HasClient
  <2> QED
    BY <1>4, <2>2, <2>4, <2>5, <2>6, <2>8, SameSessions DEF ExpelLabels
<1>9. CASE ExpelDeleteClient(h)
  <2>1. /\ client' = [client EXCEPT ![c] = [NoClient EXCEPT !.status = "deleted"]]
        /\ UNCHANGED group /\ Answer(h)
    BY <1>1, <1>9 DEF ExpelDeleteClient
  <2>2. /\ client'[c].status = "deleted"
        /\ \A k \in Clients \ {c} : client'[k] = client[k]
    BY <1>1, <2>1 DEF TypeInv, TypeOK, NoClient
  <2>3. GoneStay
    BY <1>0, <1>1, <2>2 DEF GoneStay, Gone, Removing, OneAtATime
  <2>4. NobodyJoins /\ NobodySits
    BY <1>0, <2>2 DEF NobodyJoins, NobodySits, HasClient
  <2>5. req'[h].pc = "idle"
    BY <2>1, AnswerMove
  <2>6. PlaceFits(req[h], held[h])' /\ ExpelFits(req[h])'
    BY <2>5, FreePlace DEF BoundLabels, LookedLabels, WriteLabels, ExpelLabels
  <2> QED
    BY <1>0, <2>1, <2>3, <2>4, <2>5, <2>6, SameSessions, NewsCalm
       DEF ExpelLabels, LookUps, Wrote, ToldEarly, At
<1> QED
  BY <1>5, <1>6, <1>7, <1>8, <1>9 DEF Expels

\* A broadcast that nobody awaited is sent.
LEMMA NewsLate ==
  ASSUME NewsInv, SendLate
  PROVE  NewsInv'
<1>1. PICK news \in late : /\ late' = late \ {news}
                           /\ Show(group[news.g].table, news)
  BY DEF SendLate
<1>2. UNCHANGED <<group, order, food, client, socket, req, held>>
  BY DEF SendLate, vars, rows
<1>3. \A t : Owed(t) => Owed(t)'
  BY <1>2 DEF Owed, Room, At
<1>4. Gone' = Gone
  BY <1>2 DEF Gone, Removing
<1>5. ASSUME NEW s \in Sockets
      PROVE  ShownFits(s)'
  <2>1. CASE shown'[s] = news
    <3>1. news.g \in Existing /\ (GoesOn(news.g) => FreshNews(news))
      BY DEF NewsInv, LateFits
    <3>2. AtShown(s)' => FreshNews(news)
      BY <1>2, <2>1, <3>1 DEF AtShown, InProgress, GoesOn
    <3>3. FreshNews(news) => FreshNews(shown[s])'
      BY <1>2, <1>4, <2>1 DEF FreshNews, HasClient
    <3> QED
      BY <1>2, <2>1, <3>1, <3>2, <3>3 DEF ShownFits, Existing
  <2>2. CASE shown'[s] = shown[s]
    <3>1. ShownFits(s) /\ (Owed(socket[s].room) => Owed(socket[s].room)')
      BY <1>2, <1>3 DEF NewsInv, Owed
    <3>2. FreshNews(shown[s]) => FreshNews(shown[s])'
      BY <1>2, <1>4, <2>2 DEF FreshNews, HasClient
    <3>3. AtShown(s)' => AtShown(s)
      BY <1>2, <2>2 DEF AtShown, InProgress, GoesOn
    <3> QED
      BY <1>2, <2>2, <3>1, <3>2, <3>3 DEF ShownFits, Existing
  <2> QED
    BY <1>1, <2>1, <2>2 DEF Show
<1>6. \A n \in late' : LateFits(n)'
  BY <1>1, <1>2, <1>4
     DEF NewsInv, LateFits, Existing, FreshNews, HasClient, GoesOn, At
<1>7. \A h \in Handlers : HeldFits(req[h], held[h])'
  BY <1>2, <1>4 DEF NewsInv, HeldFits, Existing, FreshNews, HasClient
<1>8. \A h \in Handlers : PlaceFits(req[h], held[h])' /\ ExpelFits(req[h])'
  BY <1>2
     DEF NewsInv, PlaceFits, ExpelFits, HasClient, HasFood, InProgress
<1> QED
  BY <1>5, <1>6, <1>7, <1>8 DEF NewsInv

\* Nothing that the devices show depends on is changed.
LEMMA NewsSame ==
  ASSUME NewsInv, UNCHANGED <<vars, held, late, shown>>
  PROVE  NewsInv'
<1>1. UNCHANGED <<group, order, food, client, socket, req, held, late, shown>>
  BY DEF vars, rows
<1>2. Gone' = Gone
  BY <1>1 DEF Gone, Removing
<1>3. ASSUME NEW s \in Sockets
      PROVE  ShownFits(s)'
  <2>1. FreshNews(shown[s]) => FreshNews(shown[s])'
    BY <1>1, <1>2 DEF FreshNews, HasClient
  <2>2. AtShown(s)' => AtShown(s)
    BY <1>1 DEF AtShown, InProgress, GoesOn
  <2>3. Owed(socket[s].room) => Owed(socket[s].room)'
    BY <1>1 DEF Owed, Room, At
  <2> QED
    BY <1>1, <2>1, <2>2, <2>3 DEF NewsInv, ShownFits, Existing
<1>4. \A n \in late' : LateFits(n)'
  BY <1>1, <1>2
     DEF NewsInv, LateFits, Existing, FreshNews, HasClient, GoesOn, At
<1>5. \A h \in Handlers : HeldFits(req[h], held[h])'
  BY <1>1, <1>2 DEF NewsInv, HeldFits, Existing, FreshNews, HasClient
<1>6. \A h \in Handlers : PlaceFits(req[h], held[h])' /\ ExpelFits(req[h])'
  BY <1>1
     DEF NewsInv, PlaceFits, ExpelFits, HasClient, HasFood, InProgress
<1> QED
  BY <1>3, <1>4, <1>5, <1>6 DEF NewsInv

\* Every step keeps the news.
LEMMA NewsStep ==
  ASSUME OneAtATime, NoRestart, AwaitedRemovals, TypeInv, EntryInv, NewsInv,
         [BroadcastNext]_<<vars, devices>>
  PROVE  NewsInv'
<1>0. TypeInv'
  BY StepProjects, NextInv
<1>1. ASSUME NEW h \in Handlers, Arrive(h), Tell
      PROVE  NewsInv'
  BY <1>0, <1>1, NewsArrive
<1>2. ASSUME NEW h \in Handlers, Continue(h), Tell
      PROVE  NewsInv'
  <2>1. CASE Expels(h)
    BY <1>0, <1>2, <2>1, NewsExpel
  <2>2. CASE ~Expels(h)
    <3>1. GoneStay
      BY <1>2, <2>2, GoneContinue
    <3>2. CASE SelectPush(h) \/ ClearCart(h) \/ DeselectWrite(h)
      BY <1>0, <1>2, <3>1, <3>2, NewsCarts
    <3>3. CASE ~(SelectPush(h) \/ ClearCart(h) \/ DeselectWrite(h))
      BY <1>0, <1>2, <2>2, <3>1, <3>3, NewsSession, NewsNotify, NewsSeated,
         NewsGuests, NewsOrders, NewsWaiter, NewsReject
         DEF Continue, Expels
    <3> QED
      BY <3>2, <3>3
  <2> QED
    BY <2>1, <2>2
<1>3. CASE SendLate
  BY <1>3, NewsLate
<1>4. ASSUME NEW h \in Handlers,
             ReadOrders(h) \/ EmitOrders(h) \/ GetCurrentOrder(h)
      PROVE  NewsInv'
  BY <1>4, NewsSame DEF ReadOrders, EmitOrders, GetCurrentOrder
<1>5. CASE UNCHANGED <<vars, devices>>
  BY <1>5, NewsSame DEF devices
<1>6. ~Restart
  BY DEF Restart, Crash, NoRestart
<1> QED
  BY <1>1, <1>2, <1>3, <1>4, <1>5, <1>6 DEF BroadcastNext

\* At first the devices show nothing.
LEMMA NewsInit == BroadcastInit => NewsInv
<1> SUFFICES ASSUME BroadcastInit PROVE NewsInv
  OBVIOUS
<1>1. NoNews \in News /\ NoNews.g = None
  BY DEF NoNews, News
<1>2. \A s \in Sockets : shown[s] = NoNews /\ ~AtShown(s)
  BY <1>1, NoneAssumption DEF BroadcastInit, AtShown, InProgress
<1>3. \A h \in Handlers : /\ HeldFits(req[h], held[h])
                          /\ PlaceFits(req[h], held[h])
                          /\ ExpelFits(req[h])
  BY <1>1, IdleFields
     DEF BroadcastInit, Init, HeldFits, PlaceFits, ExpelFits, LookedLabels,
         WriteLabels, ExpelLabels
<1> QED
  BY <1>1, <1>2, <1>3 DEF BroadcastInit, NewsInv, ShownFits

\* What the devices were told is right, in every reachable state.
LEMMA NewsHolds ==
  ASSUME OneAtATime, NoRestart, AwaitedRemovals
  PROVE  BroadcastSpec => []NewsInv
<1>1. TypeInv /\ EntryInv /\ NewsInv /\ [BroadcastNext]_<<vars, devices>>
        => NewsInv'
  BY NewsStep
<1> QED
  BY <1>1, NewsInit, BroadcastRefines, EntryHolds, PTL DEF BroadcastSpec

\* Between requests nothing is owed, and no guest is being removed.
LEMMA QuietNews ==
  ASSUME NewsInv, Quiet, NEW s \in Sockets, AtShown(s)
  PROVE  /\ OfGuests(shown[s].cart) = OfGuests(group[shown[s].g].cart)
         /\ \A c \in Clients :
              HasClient(c) /\ client[c].group = shown[s].g => c \in shown[s].guests
<1>1. FreshNews(shown[s])
  BY DEF NewsInv, ShownFits, Owed, Quiet, LookUps, At
<1>2. Gone = Removed
  BY DEF Gone, Removed, Removing, Quiet, ExpelLabels, At
<1>3. \A cart : OfGuests(cart) = LiveIn(cart, Gone)
  BY <1>2 DEF OfGuests, LiveIn
<1> QED
  BY <1>1, <1>3 DEF FreshNews

\* Between requests a device at a table shows the cart of the session as it is, but
\* for entries of guests who were removed: every other handler that writes a cart
\* ends with a broadcast of what it wrote, and the REST clearTable's late one is of
\* a cart in which nobody has changed another entry since (selectFood,
\* deselectFood, createOrder, updateOrder, notiToTable).
THEOREM CartsAreShown ==
  ASSUME OneAtATime, NoRestart, AwaitedRemovals
  PROVE  BroadcastSpec => []CartShown
<1>1. NewsInv => CartShown
  BY QuietNews DEF CartShown
<1> QED
  BY <1>1, NewsHolds, PTL

\* Between requests every guest of a session is on the list its devices show
\* (joinTable reads the session again after it has written the guest).
THEOREM GuestsAreListed ==
  ASSUME OneAtATime, NoRestart, AwaitedRemovals
  PROVE  BroadcastSpec => []EveryoneListed
<1>1. NewsInv => EveryoneListed
  BY QuietNews DEF EveryoneListed
<1> QED
  BY <1>1, NewsHolds, PTL
=============================================================================
