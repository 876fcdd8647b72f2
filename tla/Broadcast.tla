----------------------------- MODULE Broadcast -----------------------------
(***************************************************************************)
(* What the devices show, added to Menuler: the broadcasts to the guests   *)
(* of a table (notiToTable) and to the kitchen (currentOrder).  Nothing of *)
(* Menuler depends on it: every step is one of Menuler's, and tells what   *)
(* that step tells, or one of a handler that fetches the kitchen's list.   *)
(***************************************************************************)
EXTENDS Menuler

CONSTANT KitchenSize  \* the most orders a list for the kitchen has; 10 in the code
ASSUME KitchenAssumption == KitchenSize \in Nat

VARIABLES
  held,      \* the session a handler has read and will broadcast
  late,      \* broadcasts of the REST clearTable, which awaits none
  shown,     \* the last one a guest's device got
  createAt,  \* the column of an order: its place in the order of creation
  listing,   \* the kitchen's list a handler has asked for or will broadcast
  board      \* the orders the kitchen was last shown

devices == <<held, late, shown, createAt, listing, board>>

\* A session with the guests it includes.
News   == [g : Groups \cup {None}, cart : Seq(Entry), guests : SUBSET Clients]
NoNews == [g |-> None, cart |-> <<>>, guests |-> {}]

\* What a read of session g returns after the step.
Row(g) ==
  IF g = None THEN NoNews
  ELSE [g |-> g, cart |-> group'[g].cart,
        guests |-> {c \in Clients : HasClient(c)' /\ client'[c].group = g}]

LookUps == {"find", "createGroup"}

\* A look-up has returned; or a write has that returns the row it wrote.
LookedUp(h) ==
  \/ req[h].pc \in LookUps /\ req'[h].pc \notin LookUps
  \/ At(h, "idle") /\ At(h, "rejectOrder")'
Wrote(h) ==
  req[h].pc \in {"push", "clearCart", "adminWrite", "complete"} /\ At(h, "noti")'

\* The list is spliced in a copy, and the broadcast still has the old one.
Held_Copied(h) ==
  IF At(h, "idle")' THEN NoNews
  ELSE IF LookedUp(h) \/ Wrote(h) THEN Row(req'[h].g)
  ELSE held[h]

\* deselectFood splices the very list of the session it will broadcast.
Held(h) ==
  IF At(h, "idle")' THEN NoNews
  ELSE IF LookedUp(h) \/ Wrote(h) THEN Row(req'[h].g)
  ELSE IF At(h, "deselectWrite") /\ At(h, "noti")'
  THEN [held[h] EXCEPT !.cart = group'[held[h].g].cart]
  ELSE held[h]

\* The handler is through notiToTable; without a session that throws.  (A restart
\* drops requests, too, but uses the bound.)
Told(h) ==
  At(h, "noti") /\ At(h, "idle")' /\ budget' = budget /\ held[h].g # None
Room(h) == IF req[h].t # None THEN req[h].t ELSE order[req[h].g].table

Show(t, news) ==
  shown' = [s \in Sockets |->
              IF socket[s].live /\ socket[s].room = t THEN news ELSE shown[s]]

\* The REST clearTable tells the guests and the kitchen before it writes.
ToldEarly(h) ==
  req[h].pc \in {"rejectFoods", "rejectFood"} /\ At(h, "rejectGroup")'

CreateAt(g) ==
  IF order[g].status = "none" /\ order'[g].status # "none"
  THEN Cardinality({k \in Groups : order[k].status # "none"}) + 1
  ELSE createAt[g]
Newer(g, S) == {k \in S : createAt[k] > createAt[g]}
Open == {g \in Groups : order[g].status \in {"BILLING", "NOT_CHECKOUT"}}

\* findAllOrderByRestaurantId asked for the orders not checked out only.
Listed_NotCheckout ==
  LET S == {g \in Groups : order[g].status = "NOT_CHECKOUT"}
  IN {g \in S : Cardinality(Newer(g, S)) < KitchenSize}

\* findAllOrderByRestaurantId with isNeedBilling: the newest ones.
Listed == {g \in Open : Cardinality(Newer(g, Open)) < KitchenSize}

\* The kitchen's list is asked for after a guest's order, and at the end of a
\* waiter's request (findCurrentOrder), unless that has thrown.
KitchenTold(h) ==
  \/ req[h].pc \in {"insertOrder", "updateWrite"} /\ At(h, "clearCart")'
  \/ Told(h) /\ req[h].dto # NoDto
  \/ ToldEarly(h)

\* A handler that waits for the list, or has it, takes no other step until it has
\* broadcast it: the slot is not free although its request in Menuler may be over.
Listing == [step : {"no", "read", "emit"}, orders : SUBSET Groups]
NoListing == [step |-> "no", orders |-> {}]
Asked == [step |-> "read", orders |-> {}]
Fetching(h) == listing[h].step # "no"

Tell ==
  /\ \A h \in Handlers : Fetching(h) => req'[h] = req[h]
  /\ held' = [h \in Handlers |-> Held(h)]
  /\ late' = late \cup {held[h] : h \in {k \in Handlers : ToldEarly(k)}}
  /\ IF \E h \in Handlers : Told(h)
     THEN \E h \in Handlers : Told(h) /\ Show(Room(h), held[h])
     ELSE UNCHANGED shown
  /\ createAt' = [g \in Groups |-> CreateAt(g)]
  /\ listing' = [h \in Handlers |-> IF KitchenTold(h) THEN Asked ELSE listing[h]]
  /\ UNCHANGED board

\* The query is answered ...
ReadOrders(h) ==
  /\ listing[h].step = "read"
  /\ listing' = [listing EXCEPT ![h] = [step |-> "emit", orders |-> Listed]]
  /\ UNCHANGED <<vars, held, late, shown, createAt, board>>

\* ... and the handler broadcasts what it returned.
EmitOrders(h) ==
  /\ listing[h].step = "emit"
  /\ board' = listing[h].orders
  /\ listing' = [listing EXCEPT ![h] = NoListing]
  /\ UNCHANGED <<vars, held, late, shown, createAt>>

\* A broadcast nobody awaited is sent.
SendLate ==
  /\ \E news \in late : /\ late' = late \ {news}
                        /\ Show(group[news.g].table, news)
  /\ UNCHANGED <<vars, held, createAt, listing, board>>

\* A waiter's device asks for the orders (getCurrentOrder).
GetCurrentOrder(h) ==
  /\ At(h, "idle")
  /\ ~Fetching(h)
  /\ listing' = [listing EXCEPT ![h] = Asked]
  /\ UNCHANGED <<vars, held, late, shown, createAt, board>>

\* A restart loses what was to be broadcast.
Restart ==
  /\ Crash
  /\ held' = [h \in Handlers |-> NoNews]
  /\ late' = {}
  /\ listing' = [h \in Handlers |-> NoListing]
  /\ UNCHANGED <<shown, createAt, board>>

BroadcastInit ==
  /\ Init
  /\ held  = [h \in Handlers |-> NoNews]
  /\ late  = {}
  /\ shown = [s \in Sockets |-> NoNews]
  /\ createAt = [g \in Groups |-> 0]
  /\ listing = [h \in Handlers |-> NoListing]
  /\ board = {}

BroadcastNext ==
  \/ \E h \in Handlers :
       \/ (Arrive(h) \/ Continue(h)) /\ Tell
       \/ ReadOrders(h) \/ EmitOrders(h) \/ GetCurrentOrder(h)
  \/ SendLate \/ Restart

BroadcastSpec == BroadcastInit /\ [][BroadcastNext]_<<vars, devices>>

----------------------------------------------------------------------------
\* A session goes on: it was not over already and then opened by a waiter again.
GoesOn(g) == group[g].status = "IN_PROGRESS" /\ ~group[g].reopened

\* A device was told of the session of the table it is at, and that goes on.
AtShown(s) ==
  /\ socket[s].live
  /\ shown[s].g \in InProgress(socket[s].room)
  /\ GoesOn(shown[s].g)

\* Entries of a cart whose guest was not removed.
Removed == {c \in Clients : client[c].status = "deleted"}
OfGuests(cart) == {e \in ToSet(cart) : e.user \notin Removed}

\* Between requests a device shows the cart as it is, whoever changed it, so that
\* what it orders or deselects is there (notiToTable after selectFood,
\* deselectFood, createOrder, updateOrder).  Only entries of a guest who was
\* removed may differ: the removal takes them out and tells nobody.
CartShown ==
  Quiet => \A s \in Sockets :
    AtShown(s) => OfGuests(shown[s].cart) = OfGuests(group[shown[s].g].cart)

\* Between requests every guest of a session is on the list the devices show.
\* One who left may be on it still: leaveTable sends the list it read before
\* (joinTable, leaveTable).
EveryoneListed ==
  Quiet => \A s \in Sockets : AtShown(s) =>
    \A c \in Clients :
      HasClient(c) /\ client[c].group = shown[s].g => c \in shown[s].guests

\* Between requests, and when the lists they asked for have been broadcast.
Settled == Quiet /\ \A h \in Handlers : ~Fetching(h)

\* Between requests the kitchen sees every order still open in a session that
\* goes on, or a list that is full of newer ones (currentOrder after createOrder,
\* updateOrder, updateClientOrder).
OrdersOnBoard ==
  Settled => \A g \in Open :
    GoesOn(g) => g \in board \/ Cardinality(Newer(g, board)) >= KitchenSize
=============================================================================
