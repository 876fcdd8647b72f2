---------------------------- MODULE SerialProofs ----------------------------
(***************************************************************************)
(* What holds when the server works on one request at a time and is not    *)
(* restarted: between requests what was ordered is in no cart, and an      *)
(* order agrees with its bill and with its food.  Between the steps of a   *)
(* request none of this holds, so the invariants say what the request in   *)
(* progress still has to do.                                               *)
(***************************************************************************)
EXTENDS MenulerProofs

\* Requests one at a time: an instance with one handler.
OneAtATime == \A h, k \in Handlers : h = k

\* No message carries deleteClientList: the removal of a guest that it starts
\* runs beside its own handler, so they are two requests.  A removal that is
\* awaited, that of the REST operation, is a request like any other.
AwaitedRemovals == \A d \in AdminDtos : ~d.expel

----------------------------------------------------------------------------
\* Entries.

\* The ids that Splice leaves are ids of the cart.
LEMMA SpliceIds ==
  ASSUME NEW cart \in Seq(Entry), NEW id
  PROVE  Ids(Splice(cart, id)) \subseteq Ids(cart)
<1> DEFINE S == {cart[i] : i \in DOMAIN cart}
<1>1. cart \in Seq(S)
  <2>1. \A i \in 1..Len(cart) : cart[i] \in S
    OBVIOUS
  <2> HIDE DEF S
  <2> QED
    BY <2>1, SeqDef
<1> HIDE DEF S
<1>2. Splice(cart, id) \in Seq(S)
  BY <1>1, SpliceOf
<1>3. \A i \in DOMAIN Splice(cart, id) : Splice(cart, id)[i] \in S
  BY <1>2
<1> QED
  BY <1>3 DEF Ids, S

\* The ids of a cart with an entry more.
LEMMA AppendIds ==
  ASSUME NEW cart \in Seq(Entry), NEW e \in Entry
  PROVE  Ids(Append(cart, e)) = Ids(cart) \cup {e.id}
<1>1. /\ Len(cart) \in Nat
      /\ DOMAIN Append(cart, e) = 1..(Len(cart) + 1)
      /\ DOMAIN cart = 1..Len(cart)
      /\ \A j \in 1..Len(cart) : Append(cart, e)[j] = cart[j]
      /\ Append(cart, e)[Len(cart) + 1] = e
  OBVIOUS
<1> DEFINE more == Append(cart, e)
<1> HIDE DEF more
<1>2. /\ DOMAIN more = 1..(Len(cart) + 1)
      /\ \A j \in 1..Len(cart) : more[j] = cart[j]
      /\ more[Len(cart) + 1] = e
  BY <1>1 DEF more
<1>3. Ids(more) \subseteq Ids(cart) \cup {e.id}
  <2>1. ASSUME NEW j \in DOMAIN more
        PROVE  more[j].id \in Ids(cart) \cup {e.id}
    <3>1. j \in 1..Len(cart) \/ j = Len(cart) + 1
      BY <1>1, <1>2
    <3> QED
      BY <1>1, <1>2, <3>1 DEF Ids
  <2> QED
    BY <2>1 DEF Ids
<1>4. Ids(cart) \cup {e.id} \subseteq Ids(more)
  <2>1. \A j \in 1..Len(cart) : j \in DOMAIN more /\ more[j] = cart[j]
    BY <1>1, <1>2
  <2>2. Len(cart) + 1 \in DOMAIN more
    BY <1>1, <1>2
  <2> QED
    BY <1>1, <1>2, <2>1, <2>2 DEF Ids
<1> QED
  BY <1>3, <1>4 DEF more

\* The ids of a cart without the entries of a guest.
LEMMA WithoutIds ==
  ASSUME NEW cart \in Seq(Entry), NEW c
  PROVE  Ids(Without(cart, c)) \subseteq Ids(cart)
<1>1. PICK f : /\ \A i \in 0..Len(cart) :
                    /\ f[i] \in Seq(Entry)
                    /\ f[i] = IF i = 0 THEN <<>>
                              ELSE IF cart[i].user = c THEN f[i - 1]
                              ELSE Append(f[i - 1], cart[i])
               /\ Without(cart, c) = f[Len(cart)]
  BY WithoutSteps
<1> DEFINE Good(i) == Ids(f[i]) \subseteq Ids(cart)
           Wrong == {i \in 0..Len(cart) : ~Good(i)}
<1>2. Len(cart) \in Nat
  OBVIOUS
<1>3. Wrong = {}
  <2> SUFFICES ASSUME Wrong # {} PROVE FALSE
    OBVIOUS
  <2>1. PICK n \in Wrong : \A m \in Wrong : n <= m
    <3>1. Wrong \subseteq Nat
      OBVIOUS
    <3> HIDE DEF Wrong
    <3> QED
      BY <3>1, LeastNatural
  <2>2. n # 0
    <3>1. f[0] = <<>>
      BY <1>1, <1>2
    <3> QED
      BY <3>1 DEF Ids
  <2>3. n \in 1..Len(cart) /\ n - 1 \in 0..Len(cart) /\ ~(n <= n - 1)
    BY <2>2
  <2>4. Ids(f[n - 1]) \subseteq Ids(cart)
    <3>1. n - 1 \notin Wrong
      <4> HIDE DEF Wrong
      <4> QED
        BY <2>1, <2>3
    <3> QED
      BY <2>3, <3>1
  <2>5. f[n] \in {f[n - 1], Append(f[n - 1], cart[n])}
    BY <1>1, <2>2, <2>3
  <2>6. f[n - 1] \in Seq(Entry) /\ cart[n] \in Entry
    BY <1>1, <2>3
  <2>7. Ids(Append(f[n - 1], cart[n])) = Ids(f[n - 1]) \cup {cart[n].id}
    BY <2>6, AppendIds
  <2>8. cart[n].id \in Ids(cart)
    BY <2>3 DEF Ids
  <2>9. Good(n)
    <3> DEFINE more == Append(f[n - 1], cart[n])
    <3>1. Ids(more) \subseteq Ids(cart) /\ f[n] \in {f[n - 1], more}
      BY <2>4, <2>5, <2>7, <2>8
    <3> HIDE DEF more
    <3> QED
      BY <2>4, <3>1
  <2> QED
    BY <2>9
<1>4. Len(cart) \in 0..Len(cart)
  BY <1>2
<1>5. Good(Len(cart))
  <2> HIDE DEF Good
  <2> QED
    BY <1>3, <1>4
<1> QED
  BY <1>1, <1>5

\* Ordering a list takes unused food ids New, one for each entry: id f is for the
\* entry at place[f].
Taken(g, cart, New, place) ==
  /\ \A f \in Foods \ New : food'[f] = food[f]
  /\ \A f \in New : /\ food[f].status = "none"
                    /\ food'[f] = FoodOf(g, cart[place[f]])
  /\ \A e, f \in New : place[e] = place[f] => e = f

\* The foods that an order adds are told apart that way.
LEMMA AddFoodsMove ==
  ASSUME TypeOK, NEW g, NEW cart \in Seq(Entry), AddFoods(g, cart)
  PROVE  \E New \in SUBSET Foods : \E place \in [New -> DOMAIN cart] :
           Taken(g, cart, New, place)
<1> DEFINE Free == {f \in Foods : food[f].status = "none"}
<1>1. PICK id \in Pick(Injection(DOMAIN cart, Free)) :
        food' = [f \in Foods |->
                   IF \E i \in DOMAIN cart : id[i] = f
                   THEN FoodOf(g, cart[CHOOSE i \in DOMAIN cart : id[i] = f])
                   ELSE food[f]]
  BY DEF AddFoods
<1>2. id \in [DOMAIN cart -> Free]
  BY <1>1 DEF Pick, Injection
<1> DEFINE New == {f \in Foods : \E i \in DOMAIN cart : id[i] = f}
           place == [f \in New |-> CHOOSE i \in DOMAIN cart : id[i] = f]
<1>3. \A f \in New : place[f] \in DOMAIN cart /\ id[place[f]] = f
  OBVIOUS
<1>4. \A f \in New : food[f].status = "none"
  BY <1>2
<1>5. \A f \in New : food'[f] = FoodOf(g, cart[place[f]])
  BY <1>1
<1>6. \A f \in Foods \ New : food'[f] = food[f]
  BY <1>1
<1>7. \A e, f \in New : place[e] = place[f] => e = f
  BY <1>3
<1>8. New \in SUBSET Foods /\ place \in [New -> DOMAIN cart]
  BY <1>3
<1> HIDE DEF place, New
<1>9. Taken(g, cart, New, place)
  BY <1>4, <1>5, <1>6, <1>7 DEF Taken
<1> QED
  BY <1>8, <1>9, Zenon

\* An entry is in one cart; and one that was sent is in a cart only until that cart
\* is cleared.
EntriesApart ==
  \A g, k \in Groups : g # k => Ids(group[g].cart) \cap Ids(group[k].cart) = {}
SentIsCleared ==
  \A f \in Foods, g \in Groups :
    HasFood(f) /\ food[f].item \in Ids(group[g].cart)
      => \E h \in Handlers : At(h, "clearCart") /\ req[h].g = g

\* A list that is sent, be it as old as it may, has no entry of another session's
\* cart; a request that shortens the cart holds it as it is, or a part of it.
Foreign(cart, g) == \E k \in Groups \ {g} : Ids(cart) \cap Ids(group[k].cart) # {}
CopyFits(r) ==
  /\ r.pc \in WriteLabels => ~Foreign(r.cart, r.g)
  /\ r.pc \in {"deselectBill", "deselectWrite"} /\ r.g # None
       => r.cart = group[r.g].cart
  /\ r.pc = "expelCart" => Ids(r.cart) \subseteq Ids(group[r.g].cart)

EntryInv ==
  /\ EntriesApart /\ SentIsCleared
  /\ \A h \in Handlers : CopyFits(req[h])

CartsShrink ==
  \A g \in Groups : Ids(group'[g].cart) \subseteq Ids(group[g].cart)
FoodsShrink ==
  \A f \in Foods :
    HasFood(f)' => HasFood(f) /\ food'[f].item = food[f].item

\* A step that adds no entry and no food.
LEMMA EntriesShrink ==
  ASSUME OneAtATime, EntryInv, NEW h \in Handlers, CartsShrink, FoodsShrink,
         At(h, "clearCart") => Ids(group'[req[h].g].cart) = {},
         CopyFits(req[h])'
  PROVE  EntryInv'
<1>1. EntriesApart'
  BY DEF EntryInv, EntriesApart, CartsShrink
<1>3. SentIsCleared'
  <2>1. ASSUME NEW f \in Foods, NEW g \in Groups, HasFood(f)',
               food'[f].item \in Ids(group'[g].cart)
        PROVE  FALSE
    <3>1. HasFood(f) /\ food[f].item \in Ids(group[g].cart)
      BY <2>1 DEF FoodsShrink, CartsShrink
    <3>2. At(h, "clearCart") /\ req[h].g = g
      BY <3>1 DEF EntryInv, SentIsCleared, OneAtATime
    <3> QED
      BY <2>1, <3>2
  <2> QED
    BY <2>1 DEF SentIsCleared
<1>4. \A k \in Handlers : CopyFits(req[k])'
  BY DEF OneAtATime
<1> QED
  BY <1>1, <1>3, <1>4 DEF EntryInv

\* In particular one that writes neither.
LEMMA EntriesStay ==
  ASSUME OneAtATime, EntryInv, NEW h \in Handlers, ~At(h, "clearCart"),
         \A g \in Groups : group'[g].cart = group[g].cart, FoodsShrink,
         CopyFits(req[h])'
  PROVE  EntryInv'
BY EntriesShrink DEF CartsShrink

\* A step that keeps the rows of the foods.
LEMMA SameFoods ==
  ASSUME UNCHANGED food
  PROVE  FoodsShrink
BY DEF FoodsShrink, HasFood

\* One that gives one row a new status, or deletes it.
LEMMA OneFood ==
  ASSUME NEW f \in Foods, HasFood(f), \A e \in Foods \ {f} : food'[e] = food[e],
         ~HasFood(f)' \/ food'[f].item = food[f].item
  PROVE  FoodsShrink
BY DEF FoodsShrink, HasFood

\* A list a guest sends between requests has no entry of another session.
LEMMA ListsOfSession ==
  ASSUME EntryInv, \A h \in Handlers : At(h, "idle"), NEW g \in Groups,
         NEW list \in OrderLists(g)
  PROVE  ~Foreign(list, g)
<1> SUFFICES ASSUME NEW k \in Groups \ {g}, NEW i \in DOMAIN list,
                    list[i].id \in Ids(group[k].cart)
             PROVE  FALSE
  BY DEF Foreign, Ids
<1>1. \A f \in Foods : HasFood(f) => food[f].item # list[i].id
  BY DEF EntryInv, SentIsCleared, At
<1>2. CASE list = group[g].cart
  BY <1>2 DEF EntryInv, EntriesApart, Ids
<1>3. CASE list \in BoundedSeq(Known(g), MaxList)
  <2>1. PICK m \in 0..MaxList : list \in [1..m -> Known(g)]
    BY <1>3 DEF BoundedSeq, SeqOf
  <2>2. list[i] \in Known(g)
    BY <2>1
  <2>3. CASE list[i] \in ToSet(group[g].cart)
    BY <2>3 DEF EntryInv, EntriesApart, Ids, ToSet
  <2>4. CASE \E f \in FoodsOfOrder(g) : food[f].item = list[i].id
    BY <1>1, <2>4 DEF FoodsOfOrder
  <2>5. CASE list[i].id \in FreshItems
    BY <2>5 DEF FreshItems
  <2> QED
    BY <2>2, <2>3, <2>4, <2>5 DEF Known, Pick
<1> QED
  BY <1>2, <1>3 DEF OrderLists

\* A write of a status of a session.
LEMMA CartsAfterStatus ==
  ASSUME TypeInv, NEW g, NEW x, group' = [group EXCEPT ![g].status = x]
  PROVE  \A k \in Groups : group'[k].cart = group[k].cart
BY DEF TypeInv, TypeOK, GroupRow

\* A waiter's write of one.
LEMMA CartsAfterClear ==
  ASSUME TypeInv, NEW h \in Handlers, WsClearTable(h)
  PROVE  \A k \in Groups : group'[k].cart = group[k].cart
<1>1. PICK g \in Existing, x \in ClearStatuses :
        group' = [group EXCEPT ![g] = Cleared(group[g], x)]
  BY WsClearTableMove
<1>2. Cleared(group[g], x).cart = group[g].cart
  BY DEF Cleared, TypeInv, TypeOK, GroupRow, Existing
<1> QED
  BY <1>1, <1>2 DEF TypeInv, TypeOK

\* Messages arrive.
LEMMA EntriesArrive ==
  ASSUME OneAtATime, AwaitedRemovals, TypeInv, EntryInv, NEW h \in Handlers,
         Arrive(h)
  PROVE  EntryInv'
<1> USE DEF CopyFits, WriteLabels, ExpelLabels
<1>1. CASE JoinTable(h) \/ LeaveTable(h) \/ Disconnect(h)
           \/ SelectFood(h) \/ DeselectFood(h)
  BY <1>1, GuestArrives, EntriesStay, SameFoods DEF rows, At
<1>0. At(h, "idle") => \A g \in Groups : \A list \in OrderLists(g) \cup {<<>>} :
                          ~Foreign(list, g)
  <2>1. \A g : ~Foreign(<<>>, g)
    BY DEF Foreign, Ids
  <2> QED
    BY <2>1, ListsOfSession DEF OneAtATime
<1>2. CASE CreateOrder(h) \/ UpdateOrder(h)
  <2>1. /\ UNCHANGED <<rows, socket>> /\ At(h, "idle") /\ req'[h].g \in Groups
        /\ req'[h].pc \in WriteLabels
        /\ req'[h].cart \in OrderLists(req'[h].g) \cup {<<>>}
    BY <1>2, CreateOrderMove, UpdateOrderMove DEF Existing
  <2>2. ~Foreign(req'[h].cart, req'[h].g)
    BY <1>0, <2>1
  <2>3. Foreign(req[h].cart, req[h].g)' <=> Foreign(req'[h].cart, req'[h].g)
    BY <2>1 DEF Foreign, rows
  <2>4. CopyFits(req[h])'
    BY <2>1, <2>2, <2>3
  <2> QED
    BY <2>1, <2>4, EntriesStay, SameFoods DEF rows, At
<1>4. CASE AdminUpdateClientOrder(h)
  BY <1>4, AdminArrives, EntriesStay, SameFoods DEF rows, At
<1>5. CASE AdminDeleteClientList(h)
  BY <1>5 DEF AdminDeleteClientList, AwaitedRemovals
<1>6. CASE WsClearTable(h)
  BY <1>6, CartsAfterClear, IdleFields, WsClearTableMove, EntriesStay, SameFoods
     DEF At
<1>7. CASE ClearTable(h)
  BY <1>7, ClearTableMove, EntriesStay, SameFoods DEF rows, At
<1>8. CASE DeleteClientIdInFoodOrder(h)
  BY <1>8, DeleteClientIdMove, EntriesStay, SameFoods DEF rows, At
<1> QED
  BY <1>1, <1>2, <1>4, <1>5, <1>6, <1>7, <1>8 DEF Arrive

\* Requests of guests go on,
LEMMA EntriesLookUp ==
  ASSUME OneAtATime, TypeInv, EntryInv, NEW h \in Handlers,
         FindSession(h) \/ CreateSession(h)
  PROVE  EntryInv'
<1>0. req[h].pc \in {"find", "createGroup"} => req[h].ret \in ReturnLabels
  BY DEF TypeInv, RequestsFit, Fit
<1>1. CASE FindSession(h)
  <2>1. /\ UNCHANGED <<rows, socket>> /\ At(h, "find")
        /\ req'[h].pc \in {"createGroup", req[h].ret}
        /\ \/ req'[h].pc = "createGroup"
           \/ req'[h].g = None
           \/ req[h].ret = "deselectBill"
                => req'[h].cart = group[req'[h].g].cart
    BY <1>1, FindSessionMove
  <2>2. CopyFits(req[h])'
    BY <1>0, <2>1
       DEF CopyFits, WriteLabels, ExpelLabels, ReturnLabels, At, rows
  <2> QED
    BY <2>1, <2>2, EntriesStay, SameFoods DEF rows, At
<1>2. CASE CreateSession(h)
  <2>1. /\ UNCHANGED food /\ At(h, "createGroup") /\ req'[h].pc = req[h].ret
        /\ req'[h].g \in Groups
        /\ group' = [group EXCEPT ![req'[h].g] = NewSession(req[h].t)]
        /\ req[h].ret = "deselectBill" => req'[h].cart = <<>>
    BY <1>2, CreateSessionMove
  <2>0. NewSession(req[h].t).cart = <<>>
    BY DEF NewSession, NoGroup
  <2>2. \A k \in Groups : group'[k].cart \in {group[k].cart, <<>>}
    BY <2>0, <2>1 DEF TypeInv, TypeOK
  <2>3. group'[req'[h].g].cart = <<>>
    BY <2>0, <2>1 DEF TypeInv, TypeOK
  <2>4. CartsShrink
    BY <2>2 DEF CartsShrink, Ids
  <2>5. CopyFits(req[h])'
    BY <1>0, <2>1, <2>3
       DEF CopyFits, WriteLabels, ExpelLabels, ReturnLabels, At
  <2> QED
    BY <2>1, <2>4, <2>5, EntriesShrink, SameFoods DEF At
<1> QED
  BY <1>1, <1>2

\* What guests do writes no food, and adds no entry to a cart.
LEMMA EntriesGuests ==
  ASSUME OneAtATime, TypeInv, EntryInv, NEW h \in Handlers,
         \/ Notify(h) \/ CheckUsername(h) \/ FindClient(h) \/ CreateClient(h)
         \/ Reconnect(h) \/ LeaveReadFoods(h) \/ LeaveDeleteClient(h)
         \/ GoOffline(h) \/ SelectReadBill(h) \/ DeselectReadBill(h)
         \/ OrderReadGroup(h) \/ SetBillMethod(h)
  PROVE  EntryInv'
<1> USE IdleFields DEF CopyFits, WriteLabels, ExpelLabels
<1>0. CopyFits(req[h])
  BY DEF EntryInv
<1>1. CASE Notify(h)
  BY <1>1, NotifyMove, EntriesStay, SameFoods DEF rows, At
<1>2. CASE CheckUsername(h) \/ FindClient(h) \/ SelectReadBill(h)
           \/ DeselectReadBill(h)
  <2>1. ~At(h, "clearCart")
    BY <1>2 DEF CheckUsername, FindClient, SelectReadBill, DeselectReadBill, At
  <2>2. CopyFits(req[h])' /\ UNCHANGED <<rows, socket>>
    BY <1>0, <1>2, GuestReads DEF KeepsLocals, KeepsSubject, At, rows
  <2> QED
    BY <2>1, <2>2, EntriesStay, SameFoods DEF rows
<1>3. CASE CreateClient(h) \/ Reconnect(h)
  BY <1>3, SeatedMove, EntriesStay, SameFoods DEF At
<1>4. CASE LeaveReadFoods(h) \/ LeaveDeleteClient(h) \/ GoOffline(h)
  <2>1. ~At(h, "clearCart")
    BY <1>4 DEF LeaveReadFoods, LeaveDeleteClient, GoOffline, At
  <2> QED
    BY <1>4, <2>1, LeaveMove, EntriesStay, SameFoods
<1>5. CASE OrderReadGroup(h) \/ SetBillMethod(h)
  <2>1. ~At(h, "clearCart")
    BY <1>5 DEF OrderReadGroup, SetBillMethod, At
  <2>2. CopyFits(req[h])' /\ UNCHANGED <<rows, socket>>
    BY <1>0, <1>5, OrderReads DEF KeepsLocals, KeepsSubject, Foreign, At, rows
  <2> QED
    BY <2>1, <2>2, EntriesStay, SameFoods DEF rows
<1> QED
  BY <1>1, <1>2, <1>3, <1>4, <1>5

\* write carts,
LEMMA EntriesWritten ==
  ASSUME OneAtATime, TypeInv, EntryInv, NEW h \in Handlers,
         DeselectWrite(h) \/ ClearCart(h)
  PROVE  EntryInv'
<1> DEFINE g == req[h].g
<1>0. CopyFits(req[h])
  BY DEF EntryInv
<1>1. CASE DeselectWrite(h)
  <2>1. /\ UNCHANGED food /\ At(h, "deselectWrite")
        /\ group' = [group EXCEPT ![g].cart = Splice(req[h].cart, req[h].item)]
        /\ req'[h].pc \in {"idle", "noti"}
    BY <1>1, DeselectWriteMove, IdleFields
  <2>2. ASSUME NEW k \in Groups
        PROVE  Ids(group'[k].cart) \subseteq Ids(group[k].cart)
    <3>1. CASE k = g
      <4>1. req[h].cart = group[k].cart
        BY <1>0, <2>1, <3>1, NoneAssumption DEF CopyFits, At
      <4>2. group'[k].cart = Splice(group[k].cart, req[h].item)
        BY <2>1, <3>1, <4>1 DEF TypeInv, TypeOK, GroupRow
      <4>3. group[k].cart \in Seq(Entry)
        BY DEF TypeInv, TypeOK, GroupRow
      <4> QED
        BY <4>2, <4>3, SpliceIds
    <3>2. CASE k # g
      <4>1. group'[k] = group[k]
        BY <2>1, <3>2 DEF TypeInv, TypeOK
      <4> QED
        BY <4>1
    <3> QED
      BY <3>1, <3>2
  <2>3. CopyFits(req[h])'
    BY <2>1 DEF CopyFits, WriteLabels, ExpelLabels
  <2>4. CartsShrink
    BY <2>2 DEF CartsShrink
  <2> QED
    BY <2>1, <2>3, <2>4, EntriesShrink, SameFoods DEF At
<1>2. CASE ClearCart(h)
  <2>1. /\ UNCHANGED food /\ At(h, "clearCart") /\ req'[h].pc = "noti"
        /\ group' = [group EXCEPT ![g].cart = <<>>]
    BY <1>2, ClearCartMove
  <2>2. g \in Groups
    BY <2>1, SessionFit DEF TypeInv, At, SessionLabels
  <2>3. /\ \A k \in Groups : group'[k].cart \in {group[k].cart, <<>>}
        /\ group'[g].cart = <<>>
    BY <2>1, <2>2 DEF TypeInv, TypeOK, GroupRow
  <2>4. CartsShrink /\ Ids(group'[g].cart) = {}
    BY <2>3 DEF CartsShrink, Ids
  <2>5. CopyFits(req[h])'
    BY <2>1 DEF CopyFits, WriteLabels, ExpelLabels
  <2> QED
    BY <2>1, <2>4, <2>5, EntriesShrink, SameFoods
<1> QED
  BY <1>1, <1>2

\* and add an entry with an id that nothing has.
LEMMA EntriesPushed ==
  ASSUME OneAtATime, TypeInv, EntryInv, NEW h \in Handlers, SelectPush(h)
  PROVE  EntryInv'
<1> DEFINE g == req[h].g
<1>1. PICK i \in FreshItems :
        group' = [group EXCEPT ![g].cart =
                    Append(group[g].cart, [id |-> i, user |-> req[h].c])]
  BY SelectPushMove
<1>2. UNCHANGED food /\ At(h, "push") /\ req'[h].pc = "noti"
  BY SelectPushMove
<1> DEFINE e == [id |-> i, user |-> req[h].c]
<1>3. /\ e \in Entry /\ e.id = i
      /\ \A k \in Groups : i \notin Ids(group[k].cart)
      /\ \A f \in Foods : food[f].item # i
  BY DEF TypeInv, TypeOK, Request, Entry, FreshItems
<1> HIDE DEF e
<1>4. ASSUME NEW k \in Groups
      PROVE  Ids(group'[k].cart) = Ids(group[k].cart) \cup
                                   IF k = g THEN {i} ELSE {}
  <2>1. group[k].cart \in Seq(Entry)
    BY DEF TypeInv, TypeOK, GroupRow
  <2>2. CASE k = g
    <3>1. group'[k].cart = Append(group[k].cart, e)
      BY <1>1, <2>2 DEF TypeInv, TypeOK, GroupRow, e
    <3> QED
      BY <1>3, <2>1, <2>2, <3>1, AppendIds
  <2>3. CASE k # g
    BY <1>1, <2>3 DEF TypeInv, TypeOK
  <2> QED
    BY <2>2, <2>3
<1>5. EntriesApart'
  BY <1>3, <1>4 DEF EntryInv, EntriesApart
<1>7. SentIsCleared'
  <2>1. ASSUME NEW f \in Foods, NEW k \in Groups, HasFood(f)',
               food'[f].item \in Ids(group'[k].cart)
        PROVE  FALSE
    <3>1. HasFood(f) /\ food[f].item \in Ids(group[k].cart)
      BY <1>2, <1>3, <1>4, <2>1 DEF HasFood
    <3> QED
      BY <1>2, <3>1 DEF EntryInv, SentIsCleared, OneAtATime, At
  <2> QED
    BY <2>1 DEF SentIsCleared
<1>8. \A k \in Handlers : CopyFits(req[k])'
  BY <1>2 DEF OneAtATime, CopyFits, WriteLabels, ExpelLabels
<1> QED
  BY <1>5, <1>7, <1>8 DEF EntryInv

\* An order takes entries of no other session's cart, and the request goes on to
\* clear the session's own.
LEMMA EntriesOrdered ==
  ASSUME OneAtATime, TypeInv, EntryInv, NEW h \in Handlers,
         req[h].pc \in {"insertOrder", "updateWrite"}, UNCHANGED group,
         AddFoods(req[h].g, req[h].cart),
         req'[h].pc = "clearCart", req'[h].g = req[h].g
  PROVE  EntryInv'
<1> DEFINE g == req[h].g
           cart == req[h].cart
<1>0. TypeOK
  BY DEF TypeInv
<1>1. cart \in Seq(Entry) /\ ~Foreign(cart, g)
  BY <1>0 DEF TypeOK, Request, EntryInv, CopyFits, WriteLabels
<1>2. AddFoods(g, cart)
  OBVIOUS
<1> HIDE DEF g, cart
<1>3. PICK New \in SUBSET Foods : \E place \in [New -> DOMAIN cart] :
        Taken(g, cart, New, place)
  BY <1>0, <1>1, <1>2, AddFoodsMove
<1>4. PICK place \in [New -> DOMAIN cart] :
        Taken(g, cart, New, place)
  BY <1>3, Zenon
<1>5. ASSUME NEW f \in New
      PROVE  food'[f].item \in Ids(cart)
  <2>1. food'[f] = FoodOf(g, cart[place[f]])
    BY <1>4 DEF Taken
  <2>2. food'[f].item = cart[place[f]].id
    BY <2>1 DEF FoodOf
  <2> QED
    BY <2>2 DEF Ids
<1>6. ASSUME NEW f \in Foods \ New, HasFood(f)'
      PROVE  \A k \in Groups : food'[f].item \notin Ids(group[k].cart)
  <2>1. HasFood(f) /\ food'[f].item = food[f].item
    BY <1>4, <1>6 DEF HasFood, Taken
  <2> QED
    BY <2>1 DEF EntryInv, SentIsCleared, OneAtATime, At
<1>7. SentIsCleared'
  <2>1. ASSUME NEW f \in Foods, NEW k \in Groups, HasFood(f)',
               food'[f].item \in Ids(group'[k].cart)
        PROVE  k = g
    <3>1. f \in New
      BY <1>6, <2>1
    <3> QED
      BY <1>1, <1>5, <2>1, <3>1 DEF Foreign
  <2>2. At(h, "clearCart")' /\ req'[h].g = g
    BY DEF At, g
  <2> QED
    BY <2>1, <2>2 DEF SentIsCleared
<1>8. EntriesApart' /\ \A k \in Handlers : CopyFits(req[k])'
  BY DEF EntryInv, EntriesApart, OneAtATime, CopyFits, WriteLabels
<1> QED
  BY <1>7, <1>8 DEF EntryInv

\* The removal of a guest takes entries out of one cart, and foods away.
LEMMA EntriesExpel ==
  ASSUME OneAtATime, TypeInv, EntryInv, NEW h \in Handlers,
         \/ ExpelReadClient(h) \/ ExpelWriteCart(h) \/ ExpelReadFoods(h)
         \/ ExpelDeleteFood(h) \/ ExpelDeleteClient(h)
  PROVE  EntryInv'
<1> DEFINE g == req[h].g
<1> USE DEF WriteLabels, ExpelLabels
<1>0. /\ req[h].pc \in ExpelLabels /\ req'[h].pc \in ExpelLabels \cup {"idle"}
      /\ CopyFits(req[h])
  BY ExpelMove DEF EntryInv
<1>1. CASE ExpelReadClient(h)
  <2>1. UNCHANGED rows /\ At(h, "expelRead")
    BY <1>1 DEF ExpelReadClient
  <2>2. CopyFits(req[h])'
    <3>1. CASE Answer(h)
      BY <3>1, AnswerMove, IdleFields DEF CopyFits
    <3>2. CASE ~Answer(h)
      <4> DEFINE k    == client[req[h].c].group
                 kept == Without(group[k].cart, req[h].c)
                 r    == [req[h] EXCEPT !.pc = IF kept # <<>> THEN "expelCart"
                                                             ELSE "expelFoods",
                                        !.g = k, !.cart = kept]
      <4>1. HasClient(req[h].c) /\ req' = [req EXCEPT ![h] = r]
        BY <1>1, <3>2 DEF ExpelReadClient
      <4>2. k \in Groups
        <5>1. req[h].c \in Clients
          BY <2>1 DEF TypeInv, RequestsFit, Fit, At
        <5> QED
          BY <4>1, <5>1 DEF TypeInv, RowsFit
      <4>3. Ids(kept) \subseteq Ids(group[k].cart)
        <5> HIDE DEF k
        <5>1. group[k].cart \in Seq(Entry)
          BY <4>2 DEF TypeInv, TypeOK, GroupRow
        <5> QED
          BY <5>1, WithoutIds
      <4>4. r.g = k /\ r.cart = kept
        <5> HIDE DEF k, kept
        <5> QED
          BY DEF TypeInv, TypeOK, Request
      <4>5. req'[h] = r
        <5> HIDE DEF r
        <5> QED
          BY <4>1 DEF TypeInv, TypeOK
      <4>6. req'[h].g = k /\ req'[h].cart = kept
        BY <4>4, <4>5
      <4> HIDE DEF k, kept, r
      <4> QED
        BY <1>0, <2>1, <4>3, <4>6 DEF CopyFits, rows
    <3> QED
      BY <3>1, <3>2
  <2> QED
    BY <2>1, <2>2, EntriesStay, SameFoods DEF rows, At
<1>2. CASE ExpelWriteCart(h)
  <2>1. /\ UNCHANGED food /\ At(h, "expelCart")
        /\ group' = [group EXCEPT ![g].cart = req[h].cart]
    BY <1>2 DEF ExpelWriteCart
  <2>2. req'[h].pc \in {"idle", "expelFoods"}
    BY <1>2, <2>1, ExpelMove, IdleFields DEF At
  <2>3. CopyFits(req[h])'
    BY <2>2 DEF CopyFits
  <2>4. ASSUME NEW k \in Groups
        PROVE  Ids(group'[k].cart) \subseteq Ids(group[k].cart)
    <3>1. CASE k = g
      <4>1. group'[k].cart = req[h].cart
        BY <2>1, <3>1 DEF TypeInv, TypeOK, GroupRow
      <4> QED
        BY <1>0, <2>1, <3>1, <4>1 DEF CopyFits, At
    <3>2. CASE k # g
      <4>1. group'[k] = group[k]
        BY <2>1, <3>2 DEF TypeInv, TypeOK
      <4> QED
        BY <4>1
    <3> QED
      BY <3>1, <3>2
  <2>5. CartsShrink
    BY <2>4 DEF CartsShrink
  <2> QED
    BY <2>1, <2>3, <2>5, EntriesShrink, SameFoods DEF At
<1>3. CASE ExpelReadFoods(h) \/ ExpelDeleteClient(h)
  <2>1. UNCHANGED <<group, food>> /\ req'[h].pc \in {"idle", "expelFood"}
    BY <1>3, ExpelMove, IdleFields
       DEF ExpelReadFoods, ExpelDeleteClient, rows, At, ListShrinks
  <2>2. CopyFits(req[h])'
    BY <2>1 DEF CopyFits
  <2> QED
    BY <1>0, <2>1, <2>2, EntriesStay, SameFoods DEF At
<1>4. CASE ExpelDeleteFood(h)
  <2>1. UNCHANGED group /\ At(h, "expelFood")
    BY <1>4 DEF ExpelDeleteFood
  <2>2. req'[h].pc \in {"idle", "expelFood"}
    BY <1>4, <2>1, ExpelMove, IdleFields DEF At
  <2>3. CopyFits(req[h])'
    BY <2>2 DEF CopyFits
  <2>4. FoodsShrink
    <3>1. PICK f \in req[h].foods :
            food' = IF HasFood(f)
                    THEN [food EXCEPT ![f] = [NoFood EXCEPT !.status = "deleted"]]
                    ELSE food
      BY <1>4 DEF ExpelDeleteFood
    <3>2. f \in Foods
      BY DEF TypeInv, TypeOK, Request
    <3>3. CASE UNCHANGED food
      BY <3>3, SameFoods
    <3>4. CASE /\ HasFood(f) /\ ~HasFood(f)'
               /\ \A e \in Foods \ {f} : food'[e] = food[e]
      BY <3>2, <3>4, OneFood
    <3> QED
      BY <3>1, <3>2, <3>3, <3>4
         DEF TypeInv, TypeOK, HasFood, NoFood, FoodStatus
  <2> QED
    BY <2>1, <2>3, <2>4, EntriesStay DEF At
<1> QED
  BY <1>1, <1>2, <1>3, <1>4

\* The waiter adds no food and writes no cart,
LEMMA EntriesWaiter ==
  ASSUME OneAtATime, TypeInv, EntryInv, NEW h \in Handlers,
         \/ FoodWrite(h) \/ AdminReadOrder(h) \/ CreateBill(h) \/ SetBill(h)
         \/ AdminWriteOrder(h) \/ CompleteSession(h)
         \/ CancelDeleteBill(h) \/ CancelReopenOrder(h)
  PROVE  EntryInv'
<1> USE IdleFields DEF CopyFits, WriteLabels, ExpelLabels
<1>1. CASE FoodWrite(h)
  <2>1. FoodsShrink
    <3>1. CASE UNCHANGED food
      BY <3>1, SameFoods
    <3>2. CASE \E f \in req[h].foods :
                 /\ HasFood(f) /\ f \in Foods
                 /\ \A e \in Foods \ {f} : food'[e] = food[e]
                 /\ ~HasFood(f)' \/ food'[f].item = food[f].item
      BY <3>2, OneFood
    <3> QED
      BY <1>1, <3>1, <3>2, FoodWriteMove
  <2> QED
    BY <1>1, <2>1, FoodWriteMove, EntriesStay DEF At
<1>2. CASE AdminReadOrder(h)
  BY <1>2, AdminReadOrderMove, EntriesStay, SameFoods DEF rows, At, AfterLists
<1>3. CASE CreateBill(h)
  BY <1>3, CreateBillMove, EntriesStay, SameFoods DEF At
<1>4. CASE SetBill(h)
  BY <1>4, SetBillMove, EntriesStay, SameFoods DEF At
<1>5. CASE AdminWriteOrder(h)
  <2>0. group' = [group EXCEPT ![req[h].g].status = "REJECT"] \/ UNCHANGED group
    BY <1>5, AdminWriteOrderMove
  <2>1. \A k \in Groups : group'[k].cart = group[k].cart
    BY <2>0, CartsAfterStatus
  <2> QED
    BY <1>5, <2>1, AdminWriteOrderMove, EntriesStay, SameFoods DEF At
<1>6. CASE CompleteSession(h)
  <2>0. group' = [group EXCEPT ![req[h].g].status = "COMPLETED"]
    BY <1>6, CompleteSessionMove
  <2>1. \A k \in Groups : group'[k].cart = group[k].cart
    BY <2>0, CartsAfterStatus
  <2> QED
    BY <1>6, <2>1, CompleteSessionMove, EntriesStay, SameFoods DEF At
<1>7. CASE CancelDeleteBill(h)
  BY <1>7, CancelDeleteBillMove, EntriesStay, SameFoods DEF At
<1>8. CASE CancelReopenOrder(h)
  BY <1>8, CancelReopenOrderMove, EntriesStay, SameFoods DEF At
<1> QED
  BY <1>1, <1>2, <1>3, <1>4, <1>5, <1>6, <1>7, <1>8

\* nor does the clearing of a table.
LEMMA EntriesReject ==
  ASSUME OneAtATime, TypeInv, EntryInv, NEW h \in Handlers,
         \/ RejectReadOrder(h) \/ RejectReadFoods(h) \/ RejectFood(h)
         \/ RejectSession(h)
  PROVE  EntryInv'
<1> USE IdleFields DEF CopyFits, WriteLabels, ExpelLabels, RejectLabels
<1>1. CASE RejectReadOrder(h) \/ RejectReadFoods(h)
  BY <1>1, RejectReads, EntriesStay, SameFoods DEF rows, At
<1>2. CASE RejectFood(h)
  <2>1. FoodsShrink
    BY <1>2, RejectFoodMove, SameFoods, OneFood
  <2> QED
    BY <1>2, <2>1, RejectFoodMove, EntriesStay DEF At
<1>3. CASE RejectSession(h)
  <2>0. group' = [group EXCEPT ![req[h].g].status = "REJECT"]
    BY <1>3, RejectSessionMove
  <2>1. \A k \in Groups : group'[k].cart = group[k].cart
    BY <2>0, CartsAfterStatus
  <2> QED
    BY <1>3, <2>1, RejectSessionMove, EntriesStay, SameFoods DEF At
<1> QED
  BY <1>1, <1>2, <1>3

\* Every step keeps the invariant.
LEMMA EntryStep ==
  ASSUME OneAtATime, NoRestart, AwaitedRemovals, TypeInv, EntryInv, [Next]_vars
  PROVE  EntryInv'
<1>1. ASSUME NEW h \in Handlers, Arrive(h)
      PROVE  EntryInv'
  BY <1>1, EntriesArrive
<1>2. ASSUME NEW h \in Handlers, Continue(h)
      PROVE  EntryInv'
  <2>1. CASE \/ ExpelReadClient(h) \/ ExpelWriteCart(h) \/ ExpelReadFoods(h)
             \/ ExpelDeleteFood(h) \/ ExpelDeleteClient(h)
    BY <2>1, EntriesExpel
  <2>2. CASE InsertOrder(h)
    <3>1. /\ UNCHANGED group /\ At(h, "insertOrder")
          /\ \/ req'[h] = Idle /\ UNCHANGED food
             \/ /\ AddFoods(req[h].g, req[h].cart)
                /\ req'[h].pc = "clearCart" /\ KeepsSubject(h)
      BY <2>2, InsertOrderMove
    <3>2. CASE req'[h] = Idle /\ UNCHANGED food
      BY <3>1, <3>2, IdleFields, EntriesStay, SameFoods
         DEF At, CopyFits, WriteLabels, ExpelLabels
    <3> QED
      BY <3>1, <3>2, EntriesOrdered DEF At, KeepsSubject
  <2>3. CASE UpdateWrite(h)
    BY <2>3, UpdateWriteMove, EntriesOrdered DEF At, KeepsSubject
  <2>4. CASE ~(InsertOrder(h) \/ UpdateWrite(h) \/ ExpelReadClient(h)
               \/ ExpelWriteCart(h) \/ ExpelReadFoods(h)
               \/ ExpelDeleteFood(h) \/ ExpelDeleteClient(h))
    BY <1>2, <2>4, EntriesLookUp, EntriesGuests, EntriesWritten,
       EntriesPushed, EntriesWaiter, EntriesReject
       DEF Continue
  <2> QED
    BY <2>1, <2>2, <2>3, <2>4
<1>3. CASE UNCHANGED vars
  BY <1>3
     DEF EntryInv, EntriesApart, SentIsCleared, HasFood, CopyFits, Foreign, At,
         vars, rows
<1> QED
  BY <1>1, <1>2, <1>3 DEF Next, Rest, Crash, NoRestart

\* In an empty restaurant there are no entries.
LEMMA EntryInit == Init => EntryInv
<1> SUFFICES ASSUME Init PROVE EntryInv
  OBVIOUS
<1>1. \A g \in Groups : Ids(group[g].cart) = {}
  BY DEF Init, NoGroup, Ids
<1>2. \A f \in Foods : ~HasFood(f)
  BY DEF Init, NoFood, HasFood, FoodStatus
<1>3. \A h \in Handlers : CopyFits(req[h])
  BY IdleFields DEF Init, CopyFits, WriteLabels, ExpelLabels
<1> QED
  BY <1>1, <1>2, <1>3 DEF EntryInv, EntriesApart, SentIsCleared

\* The invariant holds in every reachable state.
LEMMA EntryHolds ==
  ASSUME OneAtATime, NoRestart, AwaitedRemovals
  PROVE  Spec => [](TypeInv /\ EntryInv)
<1>1. TypeInv /\ EntryInv /\ [Next]_vars => EntryInv'
  BY EntryStep
<1> QED
  BY <1>1, InvariantHolds, EntryInit, PTL DEF Spec

\* Between requests no cart still holds an entry that was ordered, whatever list the
\* guests sent, the cart or one that is out of date (createOrder and updateOrder,
\* which add the foods and clear the cart in two calls).
THEOREM OrderedLeaveCarts ==
  ASSUME OneAtATime, NoRestart, AwaitedRemovals
  PROVE  Spec => []OrderedLeavesCart
<1>1. EntryInv => OrderedLeavesCart
  BY DEF EntryInv, SentIsCleared, OrderedLeavesCart, Quiet, At
<1> QED
  BY <1>1, EntryHolds, PTL

----------------------------------------------------------------------------
\* What an order says of its bill and of its food.

Cooking == {"PENDING", "COOKING"}
Agree(g) ==
  /\ order[g].status = "BILLING" => bill[g].status = "NOT_PAID"
  /\ order[g].status = "PAID" => bill[g].status = "PAID"
Served(g) ==
  order[g].overall = "ALL_SERVED" =>
    \A f \in FoodsOfOrder(g) : food[f].status \notin Cooking

\* The places of a waiter's request about an order.
WaiterLabels ==
  {"foodWrite", "adminRead", "createBill", "setBill", "adminWrite",
   "cancel", "cancelBill", "cancelOrder"}

AgreeKept  == \A g \in Groups : Agree(g) => Agree(g)'
ServedKept == \A g \in Groups : Served(g) => Served(g)'

\* A step that writes no order and no bill keeps them in agreement,
LEMMA SameAgree ==
  ASSUME UNCHANGED <<order, bill>>
  PROVE  AgreeKept
BY DEF AgreeKept, Agree

\* and the same of food.
LEMMA SameServed ==
  ASSUME UNCHANGED <<order, food>>
  PROVE  ServedKept
BY DEF ServedKept, Served, FoodsOfOrder, HasFood

\* A food is deleted, or its status written, and it is not for the kitchen.
LEMMA OneServed ==
  ASSUME NEW f \in Foods, HasFood(f), \A e \in Foods \ {f} : food'[e] = food[e],
         \/ ~HasFood(f)'
         \/ food'[f].order = food[f].order /\ food'[f].status \notin Cooking,
         \A g \in Groups : order'[g].overall = order[g].overall
  PROVE  ServedKept
<1>1. ASSUME NEW g \in Groups, NEW e \in Foods, HasFood(e)', food'[e].order = g,
             food'[e].status \in Cooking
      PROVE  e \in FoodsOfOrder(g) /\ food[e].status \in Cooking
  BY <1>1 DEF FoodsOfOrder, HasFood
<1> QED
  BY <1>1 DEF ServedKept, Served, FoodsOfOrder

\* Food is added to an order that is not ALL_SERVED, or none is added.
LEMMA AddServed ==
  ASSUME TypeOK, NEW g \in Groups, NEW cart \in Seq(Entry), AddFoods(g, cart),
         \A k \in Groups \ {g} : order'[k] = order[k],
         \/ order'[g].overall = "PENDING"
         \/ cart = <<>> /\ order'[g].overall = order[g].overall
  PROVE  ServedKept
<1>1. PICK New \in SUBSET Foods : \E place \in [New -> DOMAIN cart] :
        Taken(g, cart, New, place)
  BY AddFoodsMove
<1>2. PICK place \in [New -> DOMAIN cart] : Taken(g, cart, New, place)
  BY <1>1, Zenon
<1>3. \A f \in New : food'[f].order = g /\ cart # <<>>
  <2>1. ASSUME NEW f \in New
        PROVE  food'[f].order = g /\ cart # <<>>
    <3>1. food'[f] = FoodOf(g, cart[place[f]]) /\ place[f] \in DOMAIN cart
      BY <1>2 DEF Taken
    <3> QED
      BY <3>1 DEF FoodOf
  <2> QED
    BY <2>1
<1>4. ASSUME NEW k \in Groups, Served(k)
      PROVE  Served(k)'
  <2>1. CASE order'[k].overall = "PENDING"
    BY <2>1 DEF Served
  <2>2. CASE order'[k].overall # "PENDING"
    <3>1. order'[k].overall = order[k].overall /\ (k = g => cart = <<>>)
      BY <2>2
    <3>2. \A f \in FoodsOfOrder(k)' : f \in FoodsOfOrder(k) /\ food'[f] = food[f]
      BY <1>2, <1>3, <3>1 DEF FoodsOfOrder, HasFood, Taken
    <3> QED
      BY <1>4, <3>1, <3>2 DEF Served
  <2> QED
    BY <2>1, <2>2
<1> QED
  BY <1>4 DEF ServedKept

\* Requests of guests, and the clearing of a table, break neither.
LEMMA OthersArrive ==
  ASSUME TypeInv, NEW h \in Handlers, Arrive(h), ~AdminUpdateClientOrder(h),
         ~AdminDeleteClientList(h)
  PROVE  /\ Others(h) /\ AgreeKept /\ ServedKept
         /\ req[h].pc \notin WaiterLabels /\ req'[h].pc \notin WaiterLabels
<1> USE IdleFields DEF WaiterLabels
<1>1. CASE JoinTable(h) \/ LeaveTable(h) \/ Disconnect(h)
           \/ SelectFood(h) \/ DeselectFood(h)
  BY <1>1, GuestArrives, SameAgree, SameServed DEF rows, At
<1>2. CASE CreateOrder(h)
  BY <1>2, CreateOrderMove, SameAgree, SameServed DEF rows, At
<1>3. CASE UpdateOrder(h)
  BY <1>3, UpdateOrderMove, SameAgree, SameServed DEF rows, At
<1>4. CASE WsClearTable(h)
  BY <1>4, WsClearTableMove, SameAgree, SameServed DEF At
<1>5. CASE ClearTable(h)
  BY <1>5, ClearTableMove, SameAgree, SameServed DEF rows, At
<1>6. CASE DeleteClientIdInFoodOrder(h)
  BY <1>6, DeleteClientIdMove, SameAgree, SameServed DEF rows, At
<1> QED
  BY <1>1, <1>2, <1>3, <1>4, <1>5, <1>6 DEF Arrive

\* Nor does a step of such a request that writes no order, bill or food,
LEMMA OthersContinue ==
  ASSUME TypeInv, NEW h \in Handlers,
         \/ FindSession(h) \/ CreateSession(h) \/ Notify(h)
         \/ CheckUsername(h) \/ FindClient(h) \/ CreateClient(h) \/ Reconnect(h)
         \/ LeaveReadFoods(h) \/ LeaveDeleteClient(h) \/ GoOffline(h)
         \/ SelectReadBill(h) \/ SelectPush(h)
         \/ DeselectReadBill(h) \/ DeselectWrite(h)
         \/ OrderReadGroup(h) \/ ClearCart(h) \/ SetBillMethod(h)
         \/ CompleteSession(h) \/ RejectReadOrder(h) \/ RejectReadFoods(h)
  PROVE  /\ AgreeKept /\ ServedKept
         /\ req[h].pc \notin WaiterLabels /\ req'[h].pc \notin WaiterLabels
<1> USE IdleFields DEF WaiterLabels
<1>1. req[h].pc \in {"find", "createGroup"} => req[h].ret \in ReturnLabels
  BY DEF TypeInv, RequestsFit, Fit
<1>2. UNCHANGED <<order, bill, food>> => AgreeKept /\ ServedKept
  BY SameAgree, SameServed
<1>3. CASE FindSession(h)
  BY <1>1, <1>2, <1>3, FindSessionMove DEF rows, At, ReturnLabels
<1>4. CASE CreateSession(h)
  BY <1>1, <1>2, <1>4, CreateSessionMove DEF At, ReturnLabels
<1>5. CASE Notify(h)
  BY <1>2, <1>5, NotifyMove DEF rows, At
<1>6. CASE CheckUsername(h) \/ FindClient(h) \/ SelectReadBill(h)
           \/ DeselectReadBill(h)
  <2>1. req[h].pc \notin WaiterLabels
    BY <1>6 DEF CheckUsername, FindClient, SelectReadBill, DeselectReadBill, At
  <2> QED
    BY <1>2, <1>6, <2>1, GuestReads DEF rows
<1>7. CASE CreateClient(h) \/ Reconnect(h)
  BY <1>2, <1>7, SeatedMove
<1>8. CASE LeaveReadFoods(h) \/ LeaveDeleteClient(h) \/ GoOffline(h)
  <2>1. req[h].pc \notin WaiterLabels
    BY <1>8 DEF LeaveReadFoods, LeaveDeleteClient, GoOffline, At
  <2> QED
    BY <1>2, <1>8, <2>1, LeaveMove
<1>9. CASE SelectPush(h)
  BY <1>2, <1>9, SelectPushMove DEF At
<1>10. CASE DeselectWrite(h)
  BY <1>2, <1>10, DeselectWriteMove DEF At
<1>11. CASE OrderReadGroup(h) \/ SetBillMethod(h)
  <2>1. req[h].pc \notin WaiterLabels
    BY <1>11 DEF OrderReadGroup, SetBillMethod, At
  <2> QED
    BY <1>2, <1>11, <2>1, OrderReads DEF rows
<1>12. CASE ClearCart(h)
  BY <1>2, <1>12, ClearCartMove DEF At
<1>13. CASE CompleteSession(h)
  BY <1>2, <1>13, CompleteSessionMove DEF At
<1>14. CASE RejectReadOrder(h) \/ RejectReadFoods(h)
  BY <1>2, <1>14, RejectReads DEF rows, RejectLabels
<1> QED
  BY <1>3, <1>4, <1>5, <1>6, <1>7, <1>8, <1>9, <1>10, <1>11, <1>12, <1>13, <1>14

\* nor one that does.
LEMMA OthersWrite ==
  ASSUME TypeInv, NEW h \in Handlers,
         \/ InsertOrder(h) \/ UpdateWrite(h) \/ RejectFood(h) \/ RejectSession(h)
  PROVE  /\ AgreeKept /\ ServedKept
         /\ req[h].pc \notin WaiterLabels /\ req'[h].pc \notin WaiterLabels
<1> USE IdleFields DEF WaiterLabels
<1> DEFINE g == req[h].g
           cart == req[h].cart
<1>0. TypeOK /\ cart \in Seq(Entry)
  BY DEF TypeInv, TypeOK, Request
<1>1. CASE InsertOrder(h)
  <2>1. /\ UNCHANGED bill /\ At(h, "insertOrder")
        /\ req'[h].pc \in {"idle", "clearCart"}
        /\ \/ UNCHANGED <<order, food>>
           \/ /\ order' = [order EXCEPT ![g] = [status |-> "NOT_CHECKOUT",
                                                table |-> req[h].t,
                                                overall |-> "PENDING"]]
              /\ AddFoods(g, cart)
    BY <1>1, InsertOrderMove
  <2>2. CASE UNCHANGED <<order, food>>
    BY <2>1, <2>2, SameAgree, SameServed DEF At
  <2>3. CASE /\ order' = [order EXCEPT ![g] = [status |-> "NOT_CHECKOUT",
                                               table |-> req[h].t,
                                               overall |-> "PENDING"]]
             /\ AddFoods(g, cart)
    <3>1. g \in Groups
      BY <2>1, SessionFit DEF TypeInv, SessionLabels, At
    <3>2. /\ \A k \in Groups \ {g} : order'[k] = order[k]
          /\ order'[g].status = "NOT_CHECKOUT"
          /\ order'[g].overall = "PENDING"
      BY <1>0, <2>3, <3>1 DEF TypeOK
    <3>3. AgreeKept
      BY <2>1, <3>2 DEF AgreeKept, Agree
    <3>4. AddFoods(g, cart)
      BY <2>3
    <3> HIDE DEF g, cart
    <3>5. ServedKept
      BY <1>0, <3>1, <3>2, <3>4, AddServed
    <3> QED
      BY <2>1, <3>3, <3>5 DEF At
  <2> QED
    BY <2>1, <2>2, <2>3
<1>2. CASE UpdateWrite(h)
  <2>1. /\ UNCHANGED bill /\ At(h, "updateWrite") /\ req'[h].pc = "clearCart"
        /\ AddFoods(g, cart) /\ g \in Groups
        /\ \A k \in Groups \ {g} : order'[k] = order[k]
        /\ order'[g].status = order[g].status
        /\ order'[g].overall \in
             IF cart = <<>> THEN {order[g].overall} ELSE {"PENDING"}
    BY <1>2, UpdateWriteMove
  <2>2. AgreeKept
    BY <2>1 DEF AgreeKept, Agree
  <2> HIDE DEF g, cart
  <2>3. ServedKept
    BY <1>0, <2>1, AddServed
  <2> QED
    BY <2>1, <2>2, <2>3 DEF At
<1>3. CASE RejectFood(h)
  <2>1. /\ UNCHANGED <<order, bill>> /\ At(h, "rejectFood")
        /\ req'[h].pc \in {"idle", "rejectFood", "rejectGroup"}
    BY <1>3, RejectFoodMove
  <2>2. ServedKept
    <3>1. CASE UNCHANGED food
      BY <2>1, <3>1, SameServed
    <3>2. CASE \E f \in Foods :
                 /\ HasFood(f) /\ \A e \in Foods \ {f} : food'[e] = food[e]
                 /\ food'[f].status = "CANCEL" /\ food'[f].order = food[f].order
      BY <2>1, <3>2, OneServed DEF Cooking
    <3> QED
      BY <1>3, <3>1, <3>2, RejectFoodMove
  <2> QED
    BY <2>1, <2>2, SameAgree DEF At
<1>4. CASE RejectSession(h)
  <2>1. /\ UNCHANGED <<bill, food>> /\ At(h, "rejectGroup") /\ req'[h] = Idle
        /\ \A k \in Groups \ {g} : order'[k] = order[k]
        /\ order'[g].status \in {order[g].status, "CANCEL"}
        /\ order'[g].overall = order[g].overall
    BY <1>4, RejectSessionMove
  <2> HIDE DEF g
  <2>2. \A k \in Groups : /\ order'[k].status \in {order[k].status, "CANCEL"}
                          /\ order'[k].overall = order[k].overall
    BY <2>1
  <2>3. AgreeKept
    BY <2>1, <2>2 DEF AgreeKept, Agree
  <2>4. ServedKept
    BY <2>1, <2>2 DEF ServedKept, Served, FoodsOfOrder, HasFood
  <2> QED
    BY <2>1, <2>3, <2>4 DEF At
<1> QED
  BY <1>1, <1>2, <1>3, <1>4

----------------------------------------------------------------------------
\* Bills.

\* A waiter's client pays a bill with an order's status PAID, or cancels it, and
\* asks for a bill to pay only together with a status of the order.  It may name a
\* bill without saying more ("KEEP").
BillableDtos ==
  \A d \in AdminDtos : /\ d.status = "PAID" => d.bill \in {"PAID", "CANCEL"}
                       /\ d.bill = "NOT_PAID" => d.status # None
Billable(d) ==
  /\ d.bill # "CANCEL"
  /\ d.status = "PAID" => d.bill = "PAID"
  /\ d.bill = "NOT_PAID" => d.status # None

\* An order disagrees with its bill only while a request is about to write the
\* order; and what that request writes agrees.
BillFits(r) ==
  /\ r.pc \in {"foodWrite", "adminRead", "createBill", "setBill", "adminWrite"}
       => Billable(r.dto)
  /\ r.pc \in {"foodWrite", "adminRead", "createBill", "setBill"} => ~r.paid
  /\ r.pc = "createBill" => r.dto.status = "BILLING"
  /\ r.pc = "setBill" /\ r.dto.status = "BILLING"
       => bill[r.g].status = "NOT_PAID"
  /\ r.pc = "adminWrite" =>
       /\ r.paid => bill[r.g].status = "PAID"
       /\ r.dto.status = "PAID" => r.paid
       /\ ~r.paid /\ r.dto.status = "BILLING" => bill[r.g].status = "NOT_PAID"
       /\ ~r.paid /\ r.dto.status = None => Agree(r.g)
  /\ r.pc = "cancelBill" => order[r.g].status = "NOT_CHECKOUT"
BillInv ==
  /\ \A g \in Groups :
       \/ Agree(g)
       \/ \E h \in Handlers :
            req[h].pc \in {"adminWrite", "cancelOrder"} /\ req[h].g = g
  /\ \A h \in Handlers : BillFits(req[h])

\* A step that breaks no agreement.
LEMMA BillKept ==
  ASSUME OneAtATime, BillInv, NEW h \in Handlers, AgreeKept,
         req[h].pc \notin {"adminWrite", "cancelOrder"}, BillFits(req[h])'
  PROVE  BillInv'
<1>1. \A g \in Groups : Agree(g)'
  BY DEF BillInv, AgreeKept, OneAtATime
<1> QED
  BY <1>1 DEF BillInv, OneAtATime

\* A step about one order, that agrees with its bill afterwards, or is written next.
LEMMA BillOne ==
  ASSUME OneAtATime, BillInv, NEW h \in Handlers, NEW g \in Groups,
         req[h].g = g,
         \A k \in Groups \ {g} : order'[k] = order[k] /\ bill'[k] = bill[k],
         Agree(g)' \/ (req'[h].pc \in {"adminWrite", "cancelOrder"}
                         /\ req'[h].g = g),
         BillFits(req[h])'
  PROVE  BillInv'
<1>1. \A k \in Groups \ {g} : Agree(k)'
  BY DEF BillInv, OneAtATime, Agree
<1> QED
  BY <1>1 DEF BillInv, OneAtATime

\* A waiter's message arrives.
LEMMA BillArrive ==
  ASSUME OneAtATime, BillableDtos, TypeInv, BillInv, NEW h \in Handlers,
         AdminUpdateClientOrder(h)
  PROVE  BillInv'
<1>1. /\ UNCHANGED rows /\ At(h, "idle") /\ req'[h].dto \in AdminDtos
      /\ ~req'[h].paid
      /\ \/ req'[h].pc = "cancel"
         \/ req'[h].dto.bill # "CANCEL" /\ req'[h].pc \in {"foodWrite", "adminRead"}
  BY AdminArrives
<1>2. BillFits(req[h])'
  BY <1>1 DEF BillFits, Billable, BillableDtos
<1> QED
  BY <1>1, <1>2, BillKept, SameAgree DEF At, rows

\* The food is written, and the order read.
LEMMA BillRead ==
  ASSUME OneAtATime, TypeInv, BillInv, NEW h \in Handlers,
         FoodWrite(h) \/ AdminReadOrder(h)
  PROVE  BillInv'
<1>1. BillFits(req[h])
  BY DEF BillInv
<1>2. CASE FoodWrite(h)
  <2>1. /\ UNCHANGED <<order, bill>> /\ At(h, "foodWrite")
        /\ \/ req'[h] = Idle
           \/ /\ req'[h].pc = "adminRead" /\ req'[h].dto = req[h].dto
              /\ req'[h].paid = req[h].paid
    BY <1>2, FoodWriteMove DEF KeepsSubject
  <2>2. BillFits(req[h])'
    BY <1>1, <2>1, IdleFields DEF BillFits, At
  <2> QED
    BY <2>1, <2>2, BillKept, SameAgree DEF At
<1>3. CASE AdminReadOrder(h)
  <2>1. /\ UNCHANGED <<order, bill>> /\ At(h, "adminRead")
        /\ req'[h].pc = AfterLists(req[h].dto)
        /\ req'[h].dto = req[h].dto /\ req'[h].g = req[h].g
        /\ req'[h].paid = req[h].paid
    BY <1>3, AdminReadOrderMove DEF KeepsSubject, rows
  <2>2. req[h].g \in Groups
    BY <2>1, SessionFit DEF TypeInv, SessionLabels, OrderLabels, At
  <2>3. Agree(req[h].g)
    BY <2>1, <2>2 DEF BillInv, OneAtATime, At
  <2>4. PICK d : d = req[h].dto
    OBVIOUS
  <2>5. Billable(d) /\ ~req'[h].paid
    BY <1>1, <2>1, <2>4 DEF BillFits, At
  <2>6. /\ req'[h].pc \in {"createBill", "setBill", "adminWrite"}
        /\ req'[h].pc = "createBill" => d.status = "BILLING"
        /\ req'[h].pc # "createBill" => d.status # "BILLING"
        /\ req'[h].pc = "adminWrite" => d.status # "PAID"
    <3>1. d.bill = None => d.bill # "PAID"
      BY NoneAssumption DEF BillStatus
    <3> QED
      BY <2>1, <2>4, <2>5, <3>1 DEF AfterLists, Billable
  <2>7. Agree(req[h].g)'
    BY <2>1, <2>3 DEF Agree
  <2>8. BillFits(req[h])'
    BY <2>1, <2>4, <2>5, <2>6, <2>7 DEF BillFits
  <2> QED
    BY <2>1, <2>8, BillKept, SameAgree DEF At
<1> QED
  BY <1>2, <1>3

\* A bill is made out for an order that had none, and gets a status.
LEMMA BillWrite ==
  ASSUME OneAtATime, TypeInv, BillInv, NEW h \in Handlers,
         CreateBill(h) \/ SetBill(h)
  PROVE  BillInv'
<1>0. PICK g \in Groups, d \in AdminDtos \cup {NoDto} :
        g = req[h].g /\ d = req[h].dto
  BY SessionFit
     DEF CreateBill, SetBill, At, TypeInv, TypeOK, Request, SessionLabels,
         OrderLabels
<1>1. BillFits(req[h])
  BY DEF BillInv
<1>2. CASE CreateBill(h)
  <2>1. /\ UNCHANGED order /\ At(h, "createBill")
        /\ \/ req'[h] = Idle /\ UNCHANGED bill
           \/ /\ bill[g].status = "none"
              /\ \A k \in Groups \ {g} : bill'[k] = bill[k]
              /\ bill'[g].status = "NOT_PAID"
              /\ req'[h].pc = IF d.bill # None THEN "setBill" ELSE "adminWrite"
              /\ req'[h].g = g /\ req'[h].dto = d /\ ~req'[h].paid
    BY <1>0, <1>1, <1>2, CreateBillMove DEF KeepsSubject, BillFits, At
  <2>3. Agree(g) /\ Billable(d) /\ d.status = "BILLING"
    BY <1>0, <1>1, <2>1 DEF BillInv, OneAtATime, At, BillFits
  <2>4. CASE req'[h] = Idle /\ UNCHANGED bill
    BY <2>1, <2>4, IdleFields, BillKept, SameAgree DEF At, BillFits
  <2>5. CASE /\ bill[g].status = "none"
             /\ \A k \in Groups \ {g} : bill'[k] = bill[k]
             /\ bill'[g].status = "NOT_PAID"
             /\ req'[h].pc = IF d.bill # None THEN "setBill" ELSE "adminWrite"
             /\ req'[h].g = g /\ req'[h].dto = d /\ ~req'[h].paid
    <3>1. Agree(g)'
      BY <2>1, <2>3, <2>5 DEF Agree
    <3>2. BillFits(req[h])'
      BY <2>3, <2>5, <3>1, NoneAssumption DEF BillFits, BillStatus, OrderStatus
    <3> QED
      BY <1>0, <2>1, <2>5, <3>1, <3>2, BillOne
  <2> QED
    BY <2>1, <2>4, <2>5
<1>3. CASE SetBill(h)
  <2> DEFINE status == IF d.bill = "KEEP" THEN bill[g].status ELSE d.bill
  <2>1. /\ UNCHANGED order /\ At(h, "setBill")
        /\ \/ req'[h] = Idle /\ UNCHANGED bill
           \/ /\ \A k \in Groups \ {g} : bill'[k] = bill[k]
              /\ bill'[g].status = status
              /\ req'[h].pc = "adminWrite"
              /\ req'[h].g = g /\ req'[h].dto = d
              /\ req'[h].paid = (status = "PAID")
    BY <1>0, <1>3, SetBillMove DEF NewBill
  <2>3. /\ Billable(d) /\ d.bill \in BillStatus \cup {"KEEP"} /\ Agree(g)
        /\ d.status = "BILLING" => bill[g].status = "NOT_PAID"
    <3>1. d.bill # None
      BY <1>0, <2>1 DEF TypeInv, RequestsFit, Fit, At
    <3>2. d.bill \in BillStatus \cup {"KEEP"}
      BY <3>1, DtoType
    <3>3. Agree(g)
      BY <2>1 DEF BillInv, OneAtATime, At
    <3> QED
      BY <1>0, <1>1, <2>1, <3>2, <3>3 DEF BillFits, At
  <2>4. CASE req'[h] = Idle /\ UNCHANGED bill
    BY <2>1, <2>4, IdleFields, BillKept, SameAgree DEF At, BillFits
  <2>5. CASE /\ \A k \in Groups \ {g} : bill'[k] = bill[k]
             /\ bill'[g].status = status
             /\ req'[h].pc = "adminWrite"
             /\ req'[h].g = g /\ req'[h].dto = d
             /\ req'[h].paid = (status = "PAID")
    <3>0. /\ req'[h].paid => status = "PAID"
          /\ status = "PAID" => req'[h].paid
      BY <2>5
    <3>1. Agree(g)' \/ d.status # None \/ req'[h].paid
      BY <2>1, <2>3, <2>5, <3>0 DEF Agree, Billable, BillStatus
    <3>2. d.status = "PAID" => status = "PAID"
      BY <2>3 DEF Billable
    <3>3. d.status = "BILLING" /\ status # "PAID" => status = "NOT_PAID"
      BY <2>3 DEF Billable, BillStatus
    <3>4. BillFits(req[h])'
      BY <2>3, <2>5, <3>0, <3>1, <3>2, <3>3 DEF BillFits, Billable
    <3> QED
      BY <1>0, <2>1, <2>5, <3>4, BillOne
  <2> QED
    BY <2>1, <2>4, <2>5
<1> QED
  BY <1>2, <1>3

\* The order is written.
LEMMA BillOrder ==
  ASSUME OneAtATime, TypeInv, BillInv, NEW h \in Handlers, AdminWriteOrder(h)
  PROVE  BillInv'
<1>0. PICK g \in Groups : g = req[h].g
  BY AdminWriteOrderMove
<1>1. /\ UNCHANGED bill /\ At(h, "adminWrite")
      /\ \A k \in Groups \ {g} : order'[k] = order[k]
      /\ order'[g].status = NewStatus(req[h])
      /\ req'[h].pc \in {"complete", "noti", "find"}
  BY <1>0, AdminWriteOrderMove
<1>2. BillFits(req[h])
  BY DEF BillInv
<1>3. Agree(g)'
  BY <1>0, <1>1, <1>2 DEF BillFits, Billable, At, NewStatus, Agree
<1>4. BillFits(req[h])'
  BY <1>1 DEF BillFits
<1> QED
  BY <1>0, <1>1, <1>3, <1>4, BillOne

\* The two writes that cancel a bill leave an order that is not checked out.
LEMMA BillCancel ==
  ASSUME OneAtATime, TypeInv, BillInv, NEW h \in Handlers,
         CancelDeleteBill(h) \/ CancelReopenOrder(h)
  PROVE  BillInv'
<1>0. PICK g \in Groups : g = req[h].g
  BY CancelDeleteBillMove, CancelReopenOrderMove
<1>1. BillFits(req[h])
  BY DEF BillInv
<1>2. CASE CancelDeleteBill(h)
  <2>1. /\ UNCHANGED order
        /\ \A k \in Groups \ {g} : bill'[k] = bill[k]
        /\ \/ At(h, "cancel") /\ req'[h].pc = "cancelOrder" /\ req'[h].g = g
           \/ At(h, "cancelBill") /\ req'[h].pc \in {"idle", "find"}
    BY <1>0, <1>2, CancelDeleteBillMove, IdleFields
  <2>2. At(h, "cancelBill") => Agree(g)'
    BY <1>0, <1>1, <2>1 DEF At, BillFits, Agree
  <2>3. BillFits(req[h])'
    BY <2>1 DEF BillFits
  <2> QED
    BY <1>0, <2>1, <2>2, <2>3, BillOne
<1>3. CASE CancelReopenOrder(h)
  <2>1. /\ UNCHANGED bill
        /\ \A k \in Groups \ {g} : order'[k] = order[k]
        /\ order'[g].status = "NOT_CHECKOUT"
        /\ \/ req'[h].pc \in {"idle", "find"}
           \/ req'[h].pc = "cancelBill" /\ req'[h].g = g
    BY <1>0, <1>3, CancelReopenOrderMove, IdleFields
  <2>2. Agree(g)'
    BY <2>1 DEF Agree
  <2>3. BillFits(req[h])'
    BY <2>1 DEF BillFits
  <2> QED
    BY <1>0, <2>1, <2>2, <2>3, BillOne
<1> QED
  BY <1>2, <1>3

\* Every step keeps BillInv.
LEMMA BillStep ==
  ASSUME OneAtATime, NoRestart, AwaitedRemovals, BillableDtos, TypeInv, BillInv,
         [Next]_vars
  PROVE  BillInv'
<1>1. ASSUME NEW h \in Handlers, Arrive(h)
      PROVE  BillInv'
  <2>1. ~AdminDeleteClientList(h)
    BY DEF AdminDeleteClientList, AwaitedRemovals
  <2>2. CASE AdminUpdateClientOrder(h)
    BY <2>2, BillArrive
  <2>3. CASE ~AdminUpdateClientOrder(h)
    BY <1>1, <2>1, <2>3, OthersArrive, BillKept DEF WaiterLabels, BillFits
  <2> QED
    BY <2>2, <2>3
<1>2. ASSUME NEW h \in Handlers, Continue(h)
      PROVE  BillInv'
  <2>1. CASE \/ ExpelReadClient(h) \/ ExpelWriteCart(h) \/ ExpelReadFoods(h)
             \/ ExpelDeleteFood(h) \/ ExpelDeleteClient(h)
    BY <2>1, ExpelMove, SameAgree, BillKept DEF BillFits, ExpelLabels
  <2>2. CASE FoodWrite(h) \/ AdminReadOrder(h)
    BY <2>2, BillRead
  <2>3. CASE CreateBill(h) \/ SetBill(h)
    BY <2>3, BillWrite
  <2>4. CASE AdminWriteOrder(h)
    BY <2>4, BillOrder
  <2>5. CASE CancelDeleteBill(h) \/ CancelReopenOrder(h)
    BY <2>5, BillCancel
  <2>6. CASE InsertOrder(h) \/ UpdateWrite(h) \/ RejectFood(h) \/ RejectSession(h)
    BY <2>6, OthersWrite, BillKept DEF WaiterLabels, BillFits
  <2>7. CASE ~(\/ ExpelReadClient(h) \/ ExpelWriteCart(h) \/ ExpelReadFoods(h)
               \/ ExpelDeleteFood(h) \/ ExpelDeleteClient(h)
               \/ FoodWrite(h) \/ AdminReadOrder(h)
               \/ CreateBill(h) \/ SetBill(h) \/ AdminWriteOrder(h)
               \/ CancelDeleteBill(h) \/ CancelReopenOrder(h)
               \/ InsertOrder(h) \/ UpdateWrite(h)
               \/ RejectFood(h) \/ RejectSession(h))
    <3>1. /\ AgreeKept
          /\ req[h].pc \notin WaiterLabels /\ req'[h].pc \notin WaiterLabels
      BY <1>2, <2>7, OthersContinue DEF Continue
    <3> QED
      BY <3>1, BillKept DEF WaiterLabels, BillFits
  <2> QED
    BY <2>1, <2>2, <2>3, <2>4, <2>5, <2>6, <2>7
<1>3. CASE UNCHANGED vars
  BY <1>3 DEF BillInv, BillFits, Agree, vars, rows
<1> QED
  BY <1>1, <1>2, <1>3 DEF Next, Rest, Crash, NoRestart

\* With no order there is nothing to agree.
LEMMA BillInit == Init => BillInv
BY IdleFields DEF Init, NoOrder, BillInv, BillFits, Agree

\* The agreement holds in every reachable state.
LEMMA BillHolds ==
  ASSUME OneAtATime, NoRestart, AwaitedRemovals, BillableDtos
  PROVE  Spec => [](TypeInv /\ BillInv)
<1>1. TypeInv /\ BillInv /\ [Next]_vars => BillInv'
  BY BillStep
<1> QED
  BY <1>1, BillInit, InvariantHolds, PTL DEF Spec

\* Between requests the status of an order and of its bill agree
\* (adminUpdateClientOrder, which writes the bill before the order, and
\* handleCancelBill, which writes them in either order).
THEOREM BillsMatchOrders ==
  ASSUME OneAtATime, NoRestart, AwaitedRemovals, BillableDtos
  PROVE  Spec => []BillMatchesOrder
<1>1. BillInv => BillMatchesOrder
  <2>1. BillInv /\ Quiet => \A g \in Groups : Agree(g)
    BY DEF BillInv, Quiet, At
  <2> QED
    BY <2>1 DEF Agree, BillMatchesOrder
<1> QED
  BY <1>1, BillHolds, PTL

----------------------------------------------------------------------------
\* Food.

\* A waiter's client that hands a food back to the kitchen bills nothing with the
\* same message: the bill may be refused, and the order is not written then.
CookableDtos ==
  \A d \in AdminDtos :
    d.food \in Cooking => d.status # "BILLING" /\ d.bill \in {None, "CANCEL"}

\* A request writes food of its own order; food it hands back to the kitchen is
\* followed by a write of the order; and the flag it writes the order with is
\* true exactly when food is left to serve.
FoodFits(r) ==
  /\ r.pc = "foodWrite" => \A f \in r.foods : HasFood(f) => food[f].order = r.g
  /\ r.pc \in {"foodWrite", "adminRead"} /\ r.dto.food \in Cooking
       => AfterLists(r.dto) = "adminWrite"
  /\ r.pc = "adminRead" => Served(r.g) \/ r.dto.food \in Cooking
  /\ r.pc \in {"createBill", "setBill", "adminWrite"} =>
       (r.flag <=> \E f \in FoodsOfOrder(r.g) : food[f].status \in Cooking)
FoodInv ==
  /\ \A g \in Groups :
       \/ Served(g)
       \/ \E h \in Handlers :
            req[h].pc \in {"adminRead", "adminWrite"} /\ req[h].g = g
  /\ \A h \in Handlers : FoodFits(req[h])

\* A step that leaves no order marked served wrongly.
LEMMA FoodKept ==
  ASSUME OneAtATime, FoodInv, NEW h \in Handlers, ServedKept,
         req[h].pc \notin {"adminRead", "adminWrite"}, FoodFits(req[h])'
  PROVE  FoodInv'
<1>1. \A g \in Groups : Served(g)'
  BY DEF FoodInv, ServedKept, OneAtATime
<1> QED
  BY <1>1 DEF FoodInv, OneAtATime

\* A step about one order, that is marked rightly afterwards, or read or written
\* next.
LEMMA FoodOne ==
  ASSUME OneAtATime, FoodInv, NEW h \in Handlers, NEW g \in Groups,
         req[h].g = g, \A k \in Groups \ {g} : Served(k) => Served(k)',
         Served(g)' \/ (req'[h].pc \in {"adminRead", "adminWrite"}
                          /\ req'[h].g = g),
         FoodFits(req[h])'
  PROVE  FoodInv'
<1>1. \A k \in Groups \ {g} : Served(k)'
  BY DEF FoodInv, OneAtATime
<1> QED
  BY <1>1 DEF FoodInv, OneAtATime

\* A waiter's message arrives.
LEMMA FoodArrive ==
  ASSUME OneAtATime, CookableDtos, TypeInv, FoodInv, NEW h \in Handlers,
         AdminUpdateClientOrder(h)
  PROVE  FoodInv'
<1>1. /\ UNCHANGED <<order, food>> /\ At(h, "idle") /\ req'[h].dto \in AdminDtos
      /\ req'[h].g \in Groups
      /\ req'[h].foods \subseteq FoodsOfOrder(req'[h].g)
      /\ \/ req'[h].pc = "cancel"
         \/ req'[h].dto.bill # "CANCEL" /\ req'[h].pc = "foodWrite"
         \/ req'[h].dto.bill # "CANCEL" /\ req'[h].pc = "adminRead"
  BY AdminArrives DEF Ordered, rows
<1>2. PICK g \in Groups, d \in AdminDtos : g = req'[h].g /\ d = req'[h].dto
  BY <1>1
<1>3. ServedKept
  BY <1>1, SameServed
<1>4. Served(g)'
  BY <1>1, <1>3 DEF FoodInv, OneAtATime, At, ServedKept
<1>5. d.bill # "CANCEL" /\ d.food \in Cooking => AfterLists(d) = "adminWrite"
  BY <1>2 DEF CookableDtos, AfterLists
<1>6. \A f \in req'[h].foods : food'[f].order = g
  BY <1>1, <1>2 DEF FoodsOfOrder
<1>7. FoodFits(req[h])'
  BY <1>1, <1>2, <1>4, <1>5, <1>6 DEF FoodFits
<1> QED
  BY <1>1, <1>3, <1>7, FoodKept DEF At

\* Food is written.
LEMMA FoodWritten ==
  ASSUME OneAtATime, TypeInv, FoodInv, NEW h \in Handlers, FoodWrite(h)
  PROVE  FoodInv'
<1>0. PICK g \in Groups, d \in AdminDtos \cup {NoDto} :
        g = req[h].g /\ d = req[h].dto
  BY SessionFit
     DEF FoodWrite, At, TypeInv, TypeOK, Request, SessionLabels, OrderLabels
<1>1. FoodFits(req[h]) /\ \A k \in Groups : Served(k)
  BY DEF FoodInv, OneAtATime, FoodWrite, At
<1>2. /\ UNCHANGED order /\ At(h, "foodWrite")
      /\ \/ req'[h] = Idle /\ UNCHANGED food
         \/ /\ req'[h].pc = "adminRead" /\ req'[h].g = g /\ req'[h].dto = d
            /\ \E f \in req[h].foods :
                 /\ HasFood(f) /\ f \in Foods
                 /\ \A e \in Foods \ {f} : food'[e] = food[e]
                 /\ \/ ~HasFood(f)'
                    \/ /\ food'[f].status = d.food
                       /\ food'[f].order = food[f].order
  BY <1>0, FoodWriteMove DEF KeepsSubject
<1>3. CASE req'[h] = Idle /\ UNCHANGED food
  BY <1>2, <1>3, IdleFields, SameServed, FoodKept DEF At, FoodFits
<1>4. CASE req'[h].pc = "adminRead" /\ req'[h].g = g /\ req'[h].dto = d
  <2>1. PICK f \in Foods :
          /\ HasFood(f) /\ food[f].order = g
          /\ \A e \in Foods \ {f} : food'[e] = food[e]
          /\ \/ ~HasFood(f)'
             \/ food'[f].status = d.food /\ food'[f].order = food[f].order
    BY <1>0, <1>1, <1>2, <1>4, IdleFields DEF FoodFits, At
  <2>2. \A k \in Groups \ {g} : Served(k)'
    <3>1. \A k \in Groups \ {g} : \A e \in FoodsOfOrder(k)' :
            e \in FoodsOfOrder(k) /\ food'[e] = food[e]
      BY <2>1 DEF FoodsOfOrder, HasFood
    <3> QED
      BY <1>1, <1>2, <3>1 DEF Served
  <2>3. Served(g)' \/ d.food \in Cooking
    <3>1. CASE d.food \notin Cooking
      BY <1>1, <1>2, <2>1, <3>1, OneServed DEF ServedKept
    <3> QED
      BY <3>1
  <2>4. FoodFits(req[h])'
    BY <1>0, <1>1, <1>2, <1>4, <2>3 DEF FoodFits, At
  <2> QED
    BY <1>0, <1>4, <2>2, <2>4, FoodOne
<1> QED
  BY <1>2, <1>3, <1>4

\* The order is read, with its food.
LEMMA FoodRead ==
  ASSUME OneAtATime, TypeInv, FoodInv, NEW h \in Handlers, AdminReadOrder(h)
  PROVE  FoodInv'
<1>0. PICK g \in Groups, d \in AdminDtos \cup {NoDto} :
        g = req[h].g /\ d = req[h].dto
  BY SessionFit
     DEF AdminReadOrder, At, TypeInv, TypeOK, Request, SessionLabels, OrderLabels
<1>1. FoodFits(req[h])
  BY DEF FoodInv
<1>2. /\ UNCHANGED <<order, food>> /\ At(h, "adminRead")
      /\ req'[h].pc = AfterLists(d) /\ req'[h].g = g
      /\ req'[h].flag <=> \E f \in FoodsOfOrder(g) : food[f].status \in Cooking
  BY <1>0, AdminReadOrderMove DEF KeepsSubject, rows, Cooking
<1>3. \A k \in Groups : Served(k) <=> Served(k)'
  BY <1>2 DEF Served, FoodsOfOrder, HasFood
<1>4. Served(g)' \/ req'[h].pc = "adminWrite"
  BY <1>0, <1>1, <1>2, <1>3 DEF FoodFits, At
<1>5. (\E f \in FoodsOfOrder(g) : food[f].status \in Cooking)
        <=> (\E f \in FoodsOfOrder(g) : food[f].status \in Cooking)'
  BY <1>2 DEF FoodsOfOrder, HasFood
<1>6. FoodFits(req[h])'
  BY <1>2, <1>5 DEF FoodFits, AfterLists
<1> QED
  BY <1>0, <1>2, <1>3, <1>4, <1>6, FoodOne

\* The bill is written, and the order then.
LEMMA FoodBilled ==
  ASSUME OneAtATime, TypeInv, FoodInv, NEW h \in Handlers,
         CreateBill(h) \/ SetBill(h) \/ AdminWriteOrder(h)
  PROVE  FoodInv'
<1>0. PICK g \in Groups : g = req[h].g
  BY SessionFit
     DEF CreateBill, SetBill, AdminWriteOrder, At, TypeInv, SessionLabels,
         OrderLabels
<1>1. FoodFits(req[h])
  BY DEF FoodInv
<1>2. CASE CreateBill(h) \/ SetBill(h)
  <2>1. /\ UNCHANGED <<order, food>> /\ req[h].pc \in {"createBill", "setBill"}
        /\ \/ req'[h] = Idle
           \/ /\ req'[h].pc \in {"setBill", "adminWrite"}
              /\ req'[h].g = g /\ req'[h].flag = req[h].flag
    BY <1>0, <1>2, CreateBillMove, SetBillMove DEF KeepsLocals, KeepsSubject, At
  <2>2. (\E f \in FoodsOfOrder(g) : food[f].status \in Cooking)
          <=> (\E f \in FoodsOfOrder(g) : food[f].status \in Cooking)'
    BY <2>1 DEF FoodsOfOrder, HasFood
  <2>3. FoodFits(req[h])'
    BY <1>0, <1>1, <2>1, <2>2, IdleFields DEF FoodFits
  <2> QED
    BY <2>1, <2>3, SameServed, FoodKept
<1>3. CASE AdminWriteOrder(h)
  <2>1. /\ UNCHANGED food /\ At(h, "adminWrite")
        /\ \A k \in Groups \ {g} : order'[k] = order[k]
        /\ order'[g].overall = IF req[h].flag THEN "PENDING" ELSE "ALL_SERVED"
        /\ req'[h].pc \in {"complete", "noti", "find"}
    BY <1>0, <1>3, AdminWriteOrderMove
  <2>2. Served(g)'
    BY <1>0, <1>1, <2>1 DEF FoodFits, At, Served, FoodsOfOrder, HasFood
  <2>3. \A k \in Groups \ {g} : Served(k) => Served(k)'
    BY <2>1 DEF Served, FoodsOfOrder, HasFood
  <2>4. FoodFits(req[h])'
    BY <2>1 DEF FoodFits
  <2> QED
    BY <1>0, <2>2, <2>3, <2>4, FoodOne
<1> QED
  BY <1>2, <1>3

\* The removal of a guest takes food away; cancelling a bill touches no food.
LEMMA FoodTaken ==
  ASSUME OneAtATime, TypeInv, FoodInv, NEW h \in Handlers,
         \/ CancelDeleteBill(h) \/ CancelReopenOrder(h)
         \/ ExpelReadClient(h) \/ ExpelWriteCart(h) \/ ExpelReadFoods(h)
         \/ ExpelDeleteFood(h) \/ ExpelDeleteClient(h)
  PROVE  FoodInv'
<1>1. CASE CancelDeleteBill(h) \/ CancelReopenOrder(h)
  <2>1. /\ UNCHANGED food /\ \A k \in Groups : order'[k].overall = order[k].overall
        /\ req[h].pc \in {"cancel", "cancelBill", "cancelOrder"}
        /\ req'[h].pc \in {"idle", "cancelBill", "cancelOrder", "find"}
    BY <1>1, CancelDeleteBillMove, CancelReopenOrderMove, IdleFields DEF At
  <2>2. ServedKept
    BY <2>1 DEF ServedKept, Served, FoodsOfOrder, HasFood
  <2>3. FoodFits(req[h])'
    BY <2>1 DEF FoodFits
  <2> QED
    BY <2>1, <2>2, <2>3, FoodKept
<1>2. CASE \/ ExpelReadClient(h) \/ ExpelWriteCart(h) \/ ExpelReadFoods(h)
           \/ ExpelDeleteFood(h) \/ ExpelDeleteClient(h)
  <2>1. /\ UNCHANGED order /\ req[h].pc \in ExpelLabels
        /\ req'[h].pc \in ExpelLabels \cup {"idle"}
    BY <1>2, ExpelMove
  <2>2. ServedKept
    <3>1. CASE UNCHANGED food
      BY <2>1, <3>1, SameServed
    <3>2. CASE \E f \in Foods : /\ HasFood(f) /\ ~HasFood(f)'
                                /\ \A e \in Foods \ {f} : food'[e] = food[e]
      BY <2>1, <3>2, OneServed
    <3>3. CASE ExpelDeleteFood(h)
      <4>1. PICK f \in req[h].foods :
              food' = IF HasFood(f)
                      THEN [food EXCEPT ![f] = [NoFood EXCEPT
                                                  !.status = "deleted"]]
                      ELSE food
        BY <3>3 DEF ExpelDeleteFood
      <4>2. f \in Foods
        BY DEF TypeInv, TypeOK, Request
      <4> QED
        BY <3>1, <3>2, <4>1, <4>2
           DEF TypeInv, TypeOK, HasFood, NoFood, FoodStatus
    <3> QED
      BY <1>2, <3>1, <3>3
         DEF ExpelReadClient, ExpelWriteCart, ExpelReadFoods, ExpelDeleteClient,
             rows
  <2>3. FoodFits(req[h])'
    BY <2>1 DEF FoodFits, ExpelLabels
  <2> QED
    BY <2>1, <2>2, <2>3, FoodKept DEF ExpelLabels
<1> QED
  BY <1>1, <1>2

\* Every step keeps FoodInv.
LEMMA FoodStep ==
  ASSUME OneAtATime, NoRestart, AwaitedRemovals, CookableDtos, TypeInv, FoodInv,
         [Next]_vars
  PROVE  FoodInv'
<1>1. ASSUME NEW h \in Handlers, Arrive(h)
      PROVE  FoodInv'
  <2>1. ~AdminDeleteClientList(h)
    BY DEF AdminDeleteClientList, AwaitedRemovals
  <2>2. CASE AdminUpdateClientOrder(h)
    BY <2>2, FoodArrive
  <2>3. CASE ~AdminUpdateClientOrder(h)
    BY <1>1, <2>1, <2>3, OthersArrive, FoodKept DEF WaiterLabels, FoodFits
  <2> QED
    BY <2>2, <2>3
<1>2. ASSUME NEW h \in Handlers, Continue(h)
      PROVE  FoodInv'
  <2>1. CASE \/ CancelDeleteBill(h) \/ CancelReopenOrder(h)
             \/ ExpelReadClient(h) \/ ExpelWriteCart(h) \/ ExpelReadFoods(h)
             \/ ExpelDeleteFood(h) \/ ExpelDeleteClient(h)
    BY <2>1, FoodTaken
  <2>2. CASE FoodWrite(h)
    BY <2>2, FoodWritten
  <2>3. CASE AdminReadOrder(h)
    BY <2>3, FoodRead
  <2>4. CASE CreateBill(h) \/ SetBill(h) \/ AdminWriteOrder(h)
    BY <2>4, FoodBilled
  <2>5. CASE InsertOrder(h) \/ UpdateWrite(h) \/ RejectFood(h) \/ RejectSession(h)
    BY <2>5, OthersWrite, FoodKept DEF WaiterLabels, FoodFits
  <2>6. CASE ~(\/ ExpelReadClient(h) \/ ExpelWriteCart(h) \/ ExpelReadFoods(h)
               \/ ExpelDeleteFood(h) \/ ExpelDeleteClient(h)
               \/ FoodWrite(h) \/ AdminReadOrder(h)
               \/ CreateBill(h) \/ SetBill(h) \/ AdminWriteOrder(h)
               \/ CancelDeleteBill(h) \/ CancelReopenOrder(h)
               \/ InsertOrder(h) \/ UpdateWrite(h)
               \/ RejectFood(h) \/ RejectSession(h))
    <3>1. /\ ServedKept
          /\ req[h].pc \notin WaiterLabels /\ req'[h].pc \notin WaiterLabels
      BY <1>2, <2>6, OthersContinue DEF Continue
    <3> QED
      BY <3>1, FoodKept DEF WaiterLabels, FoodFits
  <2> QED
    BY <2>1, <2>2, <2>3, <2>4, <2>5, <2>6
<1>3. CASE UNCHANGED vars
  BY <1>3 DEF FoodInv, FoodFits, Served, FoodsOfOrder, HasFood, vars, rows
<1> QED
  BY <1>1, <1>2, <1>3 DEF Next, Rest, Crash, NoRestart

\* With no order there is nothing to serve.
LEMMA FoodInit == Init => FoodInv
BY IdleFields DEF Init, NoOrder, FoodInv, FoodFits, Served

\* Between requests an order marked ALL_SERVED has no food still to be served
\* (overallFoodStatus, which a waiter's message computes before it writes the
\* bill and the order, and which added food resets).
THEOREM ServedOrdersAreServed ==
  ASSUME OneAtATime, NoRestart, AwaitedRemovals, CookableDtos
  PROVE  Spec => []ServedMeansServed
<1>1. FoodInv => ServedMeansServed
  <2>1. FoodInv /\ Quiet => \A g \in Groups : Served(g)
    BY DEF FoodInv, Quiet, At
  <2> QED
    BY <2>1 DEF Served, Cooking, ServedMeansServed
<1>2. TypeInv /\ FoodInv /\ [Next]_vars => FoodInv'
  BY FoodStep
<1> QED
  BY <1>1, <1>2, FoodInit, InvariantHolds, PTL DEF Spec
=============================================================================
