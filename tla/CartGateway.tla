---------------------------- MODULE CartGateway ----------------------------
(***************************************************************************)
(* src/client/client.gateway.ts: selecting and deselecting food.  The cart *)
(* of a session is the list selectedFoodList of its row.                   *)
(***************************************************************************)
EXTENDS ClientService

Ids(cart) == {cart[i].id : i \in DOMAIN cart}

\* Entries get a generated id: one that no cart, copy of a cart, message or
\* ordered food uses.
FreshItems ==
  {i \in Items : /\ \A g \in Groups : i \notin Ids(group[g].cart)
                 /\ \A h \in Handlers : i \notin Ids(req[h].cart)
                 /\ \A h \in Handlers : i # req[h].item
                 /\ \A f \in Foods : food[f].item # i}

\* foodOrderList.splice(foodOrderList.findIndex(...), 1): when no entry has the
\* id, findIndex returns -1 and splice removes the last one.
Splice(cart, id) ==
  LET hits  == {i \in DOMAIN cart : cart[i].id = id}
      first == CHOOSE i \in hits : \A j \in hits : i <= j
  IN IF cart = <<>> THEN cart
     ELSE IF hits = {} THEN Front(cart)
     ELSE RemoveAt(cart, first)

\* Both handlers first look up the session of the table the guest sits at.
SelectFood(h) ==
  /\ \E s \in Sockets :
       /\ socket[s].live
       /\ socket[s].room # None
       /\ Accept(h, "select", [Idle EXCEPT !.pc = "find", !.ret = "selectBill",
                                           !.t = socket[s].room,
                                           !.c = socket[s].user])
  /\ UNCHANGED <<rows, socket>>

\* The order and bill of the session are read; the menu is validated.
SelectReadBill(h) ==
  LET g == req[h].g
  IN /\ At(h, "selectBill")
     /\ \/ /\ g = None
           /\ Answer(h)
        \/ /\ g # None
           /\ IF InBilling(g) THEN Answer(h) ELSE Goto(h, "push")
     /\ UNCHANGED <<rows, socket, budget>>

\* The entry is appended to whatever the row holds by now.
SelectPush(h) ==
  /\ At(h, "push")
  /\ \E i \in Pick(FreshItems) :
       group' = [group EXCEPT ![req[h].g].cart =
                   Append(@, [id |-> i, user |-> req[h].c])]
  /\ Goto(h, "noti")
  /\ UNCHANGED <<order, bill, food, client, socket, budget>>

----------------------------------------------------------------------------
\* deselectFood names the entry by an id the guest was shown, now or earlier.
DeselectFood(h) ==
  /\ \E s \in Sockets, i \in Items :
       /\ socket[s].live
       /\ socket[s].room # None
       /\ Accept(h, "deselect", [Idle EXCEPT !.pc = "find",
                                             !.ret = "deselectBill",
                                             !.t = socket[s].room, !.item = i])
  /\ UNCHANGED <<rows, socket>>

\* The cart was read with the session and is kept across this read.
DeselectReadBill(h) ==
  LET g == req[h].g
  IN /\ At(h, "deselectBill")
     /\ \/ /\ g = None
           /\ Answer(h)
        \/ /\ g # None
           /\ IF InBilling(g) THEN Answer(h) ELSE Goto(h, "deselectWrite")
     /\ UNCHANGED <<rows, socket, budget>>

\* The shortened list is pushed instead of written.
DeselectWrite_Push(h) ==
  LET r == req[h]
  IN /\ At(h, "deselectWrite")
     /\ group' = [group EXCEPT ![r.g].cart = @ \o Splice(r.cart, r.item)]
     /\ Answer(h)
     /\ UNCHANGED <<order, bill, food, client, socket, budget>>

\* The whole list is written back.  Of an empty list nothing is removed, and the
\* handler then fails on the missing entry.
DeselectWrite(h) ==
  LET r == req[h]
  IN /\ At(h, "deselectWrite")
     /\ group' = [group EXCEPT ![r.g].cart = Splice(r.cart, r.item)]
     /\ IF r.cart = <<>> THEN Answer(h)
        ELSE req' = [req EXCEPT ![h] = [@ EXCEPT !.pc = "noti", !.cart = <<>>,
                                                 !.item = None]]
     /\ UNCHANGED <<order, bill, food, client, socket, budget>>
============================================================================
