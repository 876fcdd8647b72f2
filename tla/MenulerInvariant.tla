---------------------------- MODULE MenulerInvariant ----------------------------
(***************************************************************************)
(* Two inductive arguments about the server, for every value of the        *)
(* constants.                                                              *)
(*   Types: the rows, the connections and the requests in progress keep    *)
(* their types.  The lemmas on Goto, Answer, Accept, Call and Return say   *)
(* once what the idioms of the actions do to the requests.                 *)
(*   TypeInv: also what the locals of a request are good for at each place *)
(* of its handler, and the references between rows.                        *)
(***************************************************************************)
EXTENDS Menuler, WellFoundedInduction, SequenceTheorems, TLAPS

----------------------------------------------------------------------------
\* The two operators that take entries out of a cart return carts, for carts of
\* every length.  Induction is written as the impossibility of a least
\* counterexample.

\* The order of the natural numbers is well-founded, in the form used below.
LEMMA LeastNatural ==
  ASSUME NEW S \in SUBSET Nat, S # {}
  PROVE  \E m \in S : \A n \in S : m <= n
<1>1. PICK m \in S : \A n \in S : ~(<<n, m>> \in OpToRel(<, Nat))
  BY NatLessThanWellFounded, WFMin, Zenon
<1>2. \A n \in S : (<<n, m>> \in OpToRel(<, Nat)) <=> n < m
  BY DEF OpToRel
<1>3. \A n \in S : ~(n < m)
  BY <1>1, <1>2, Zenon
<1> QED
  BY <1>3

\* What Splice leaves of a list was in it.
LEMMA SpliceOf ==
  ASSUME NEW S, NEW cart \in Seq(S), NEW id
  PROVE  Splice(cart, id) \in Seq(S)
<1> DEFINE hits  == {i \in DOMAIN cart : cart[i].id = id}
           first == CHOOSE i \in hits : \A j \in hits : i <= j
<1>1. \A m, n \in Int : m >= 1 /\ n <= Len(cart) => SubSeq(cart, m, n) \in Seq(S)
  OBVIOUS
<1>2. CASE cart = <<>>
  BY <1>2 DEF Splice
<1>3. CASE cart # <<>> /\ hits = {}
  <2>1. Len(cart) \in Nat /\ Len(cart) - 1 \in Int /\ Len(cart) - 1 <= Len(cart)
    OBVIOUS
  <2>2. SubSeq(cart, 1, Len(cart) - 1) \in Seq(S)
    BY <1>1, <2>1
  <2>3. Splice(cart, id) = Front(cart)
    BY <1>3 DEF Splice
  <2> QED
    BY <2>2, <2>3 DEF Front
<1>4. CASE cart # <<>> /\ hits # {}
  <2>1. hits \in SUBSET Nat
    OBVIOUS
  <2>2. \E i \in hits : \A j \in hits : i <= j
    <3> HIDE DEF hits
    <3> QED
      BY <1>4, <2>1, LeastNatural
  <2>3. first \in hits
    <3> HIDE DEF hits
    <3> QED
      BY <2>2
  <2>4. first \in 1..Len(cart) /\ Len(cart) \in Nat
    BY <2>3
  <2>5. SubSeq(cart, 1, first - 1) \in Seq(S)
        /\ SubSeq(cart, first + 1, Len(cart)) \in Seq(S)
    <3> HIDE DEF first
    <3> QED
      BY <1>1, <2>4
  <2>6. Splice(cart, id) = RemoveAt(cart, first)
    BY <1>4 DEF Splice
  <2>7. RemoveAt(cart, first) \in Seq(S)
    <3> HIDE DEF first
    <3> QED
      BY <2>5 DEF RemoveAt
  <2> QED
    BY <2>6, <2>7
<1> QED
  BY <1>2, <1>3, <1>4

\* It makes a cart of a cart.
LEMMA SpliceType ==
  ASSUME NEW cart \in Seq(Entry), NEW id
  PROVE  Splice(cart, id) \in Seq(Entry)
BY SpliceOf

\* The recursive function of Without exists, its values are carts, and each
\* follows from the one before.
LEMMA WithoutSteps ==
  ASSUME NEW cart \in Seq(Entry), NEW c
  PROVE  \E f :
           /\ \A i \in 0..Len(cart) :
                /\ f[i] \in Seq(Entry)
                /\ f[i] = IF i = 0 THEN <<>>
                          ELSE IF cart[i].user = c THEN f[i - 1]
                          ELSE Append(f[i - 1], cart[i])
           /\ Without(cart, c) = f[Len(cart)]
<1> DEFINE Step(f, i) == IF i = 0 THEN <<>>
                         ELSE IF cart[i].user = c THEN f[i - 1]
                         ELSE Append(f[i - 1], cart[i])
           Kept(n, f) == /\ f \in [0..n -> Seq(Entry)]
                         /\ \A i \in 0..n : f[i] = Step(f, i)
           Bad  == {n \in 0..Len(cart) : ~ \E f : Kept(n, f)}
           kept == CHOOSE f : f = [i \in 0..Len(cart) |-> Step(f, i)]
\* No length is the least for which there is no such function.
<1>1. Bad = {}
  <2> SUFFICES ASSUME Bad # {} PROVE FALSE
    OBVIOUS
  <2>1. PICK n \in Bad : \A m \in Bad : n <= m
    <3>1. Bad \subseteq Nat
      OBVIOUS
    <3> HIDE DEF Bad
    <3> QED
      BY <3>1, LeastNatural
  <2>2. CASE n = 0
    <3>1. Kept(0, [i \in 0..0 |-> <<>>])
      OBVIOUS
    <3> QED
      BY <2>2, <3>1
  <2>3. CASE n # 0
    <3>1. n \in 1..Len(cart) /\ Len(cart) \in Nat
      BY <2>3
    <3>2. n - 1 \in 0..Len(cart) /\ ~(n <= n - 1)
      BY <3>1
    <3>3. n - 1 \notin Bad
      <4> HIDE DEF Bad
      <4> QED
        BY <2>1, <3>2
    <3>4. PICK f : Kept(n - 1, f)
      BY <3>2, <3>3
    <3> DEFINE g == [i \in 0..n |-> IF i = n THEN Step(f, n) ELSE f[i]]
    <3>5. cart[n] \in Entry /\ f[n - 1] \in Seq(Entry)
      BY <3>1, <3>4
    <3>6. Step(f, n) \in Seq(Entry)
      BY <3>5, <2>3
    <3>7. \A i \in 0..n : /\ i # n => i \in 0..(n - 1)
                          /\ i # 0 => i - 1 \in 0..n /\ i - 1 # n
      BY <3>1
    <3>8. g \in [0..n -> Seq(Entry)]
      <4> HIDE DEF Step
      <4> QED
        BY <3>4, <3>6, <3>7
    <3>9. \A i \in 0..n : g[i] = Step(g, i)
      <4>1. \A i \in 0..n : i # 0 => g[i - 1] = f[i - 1]
        BY <3>7
      <4>2. \A i \in 0..n : Step(g, i) = Step(f, i)
        BY <4>1
      <4> HIDE DEF Step
      <4>3. \A i \in 0..n : i # n => g[i] = Step(f, i)
        BY <3>4, <3>7
      <4> QED
        BY <4>2, <4>3
    <3> QED
      BY <3>8, <3>9
  <2> QED
    BY <2>2, <2>3
<1>2. PICK f : Kept(Len(cart), f)
  BY <1>1
<1>3. f = [i \in 0..Len(cart) |-> Step(f, i)]
  <2> HIDE DEF Step
  <2> QED
    BY <1>2
<1>4. kept = [i \in 0..Len(cart) |-> Step(kept, i)]
  BY <1>3, Zenon
\* No place of it is the least whose value is not a cart.
<1>5. \A i \in 0..Len(cart) : kept[i] \in Seq(Entry)
  <2> DEFINE Wrong == {i \in 0..Len(cart) : kept[i] \notin Seq(Entry)}
  <2> SUFFICES ASSUME Wrong # {} PROVE FALSE
    OBVIOUS
  <2>1. PICK n \in Wrong : \A m \in Wrong : n <= m
    <3>1. Wrong \subseteq Nat
      OBVIOUS
    <3> HIDE DEF Wrong
    <3> QED
      BY <3>1, LeastNatural
  <2>2. kept[n] = Step(kept, n)
    <3> HIDE DEF Step, kept
    <3> QED
      BY <1>4
  <2>3. n # 0 => n - 1 \in 0..Len(cart) /\ cart[n] \in Entry /\ ~(n <= n - 1)
    OBVIOUS
  <2>4. n # 0 => n - 1 \notin Wrong
    <3> HIDE DEF Wrong
    <3> QED
      BY <2>1, <2>3
  <2>5. n # 0 => kept[n - 1] \in Seq(Entry)
    BY <2>3, <2>4
  <2> HIDE DEF kept
  <2>6. Step(kept, n) \in Seq(Entry)
    BY <2>3, <2>5
  <2> QED
    BY <2>2, <2>6
<1>6. Without(cart, c) = kept[Len(cart)]
  BY DEF Without
<1>7. \A i \in 0..Len(cart) : kept[i] = Step(kept, i)
  <2> HIDE DEF Step, kept
  <2> QED
    BY <1>4
<1> HIDE DEF kept
<1> QED
  BY <1>5, <1>6, <1>7

\* Without leaves a cart.
LEMMA WithoutType ==
  ASSUME NEW cart \in Seq(Entry), NEW c
  PROVE  Without(cart, c) \in Seq(Entry)
<1>1. Len(cart) \in 0..Len(cart)
  OBVIOUS
<1> QED
  BY <1>1, WithoutSteps

----------------------------------------------------------------------------
\* What the locals of a request r in progress are good for, E being the sessions
\* and O the orders that exist: where a look-up returns to, the connection of a
\* guest who leaves, the guest that is removed, what a waiter's message asks for,
\* the table, the session, the order.
ReturnLabels == {"checkName", "noti", "leaveFoods", "selectBill", "deselectBill"}
GuestLabels  == {"findClient", "createClient", "reconnect"}
TableLabels  == GuestLabels \cup
  {"find", "createGroup", "checkName", "orderGroup", "insertOrder", "setMethod",
   "updateWrite", "cancelBill"}
OrderLabels ==
  {"setMethod", "updateWrite", "foodWrite", "adminRead", "createBill", "setBill",
   "adminWrite", "complete", "cancel", "cancelBill", "cancelOrder"}
RejectLabels == {"rejectFoods", "rejectFood", "rejectGroup"}
SessionLabels == OrderLabels \cup RejectLabels \cup
  {"orderGroup", "insertOrder", "clearCart", "rejectOrder"}
Fit(r, E, O) ==
  /\ r.pc \in {"find", "createGroup"} => r.ret \in ReturnLabels
  /\ r.pc = "offline" => r.ret = "noti"
  /\ "leaveFoods" \in {r.pc, r.ret} => r.s \in Sockets
  /\ r.pc = "expelRead" => r.c \in Clients
  /\ r.pc = "foodWrite" => r.dto.food # None
  /\ r.pc = "setBill" => r.dto.bill # None
  /\ r.pc \in GuestLabels => r.g \in Groups
  /\ r.pc \in TableLabels => r.t \in Tables
  /\ r.pc \in OrderLabels => r.g \in O
  /\ r.pc \in RejectLabels /\ r.flag => r.g \in O
  /\ r.pc \in SessionLabels => r.g \in E
Ordered == {g \in Groups : order[g].status # "none"}
RequestsFit == \A h \in Handlers : Fit(req[h], Existing, Ordered)

\* The rows refer to rows that exist.
RowsFit ==
  /\ Ordered \subseteq Existing
  /\ \A g \in Ordered : order[g].table \in Tables
  /\ \A g \in Existing : group[g].table \in Tables
  /\ \A c \in Clients : HasClient(c) => client[c].group \in Groups

\* A request at a place that works on a session holds an existing one.
LEMMA SessionFit ==
  ASSUME RequestsFit, NEW h \in Handlers, req[h].pc \in SessionLabels
  PROVE  req[h].g \in Existing /\ req[h].g \in Groups
BY DEF RequestsFit, Fit, Existing

\* The idle request is a request.
LEMMA IdleType == Idle \in Request
BY DEF Idle, Request, Labels

\* The empty cart is a cart.
LEMMA EmptyCart == <<>> \in Seq(Entry)
OBVIOUS

\* A request that is replaced by one of the right type.
LEMMA BecomeType ==
  ASSUME TypeOK, NEW h \in Handlers, NEW r \in Request,
         req' = [req EXCEPT ![h] = r]
  PROVE  req' \in [Handlers -> Request]
BY DEF TypeOK

\* A request that goes to another place with a flag is a request.
LEMMA PcFlagType ==
  ASSUME NEW r \in Request, NEW p \in Labels, NEW b \in BOOLEAN
  PROVE  [r EXCEPT !.pc = p, !.flag = b] \in Request
<1>1. [r EXCEPT !.pc = p] \in Request
  BY DEF Request
<1>2. ASSUME NEW q \in Request
      PROVE  [q EXCEPT !.flag = b] \in Request
  BY DEF Request
<1>3. [r EXCEPT !.pc = p, !.flag = b] =
        [[r EXCEPT !.pc = p] EXCEPT !.flag = b]
  BY DEF Request
<1> QED
  BY <1>1, <1>2, <1>3

\* A request that goes to another place with isPaid is a request.
LEMMA PcPaidType ==
  ASSUME NEW r \in Request, NEW p \in Labels, NEW b \in BOOLEAN
  PROVE  [r EXCEPT !.pc = p, !.paid = b] \in Request
<1>1. [r EXCEPT !.pc = p] \in Request
  BY DEF Request
<1>2. ASSUME NEW q \in Request
      PROVE  [q EXCEPT !.paid = b] \in Request
  BY DEF Request
<1>3. [r EXCEPT !.pc = p, !.paid = b] =
        [[r EXCEPT !.pc = p] EXCEPT !.paid = b]
  BY DEF Request
<1> QED
  BY <1>1, <1>2, <1>3

\* A request that goes to another place with a set of food is a request.
LEMMA PcFoodsType ==
  ASSUME NEW r \in Request, NEW p \in Labels, NEW F \in SUBSET Foods
  PROVE  [r EXCEPT !.pc = p, !.foods = F] \in Request
<1>1. [r EXCEPT !.pc = p] \in Request
  BY DEF Request
<1>2. ASSUME NEW q \in Request
      PROVE  [q EXCEPT !.foods = F] \in Request
  BY DEF Request
<1>3. [r EXCEPT !.pc = p, !.foods = F] =
        [[r EXCEPT !.pc = p] EXCEPT !.foods = F]
  BY DEF Request
<1> QED
  BY <1>1, <1>2, <1>3

\* A request that goes to another place with a guest is a request.
LEMMA PcClientType ==
  ASSUME NEW r \in Request, NEW p \in Labels, NEW c \in Clients \cup {None}
  PROVE  [r EXCEPT !.pc = p, !.c = c] \in Request
<1>1. [r EXCEPT !.pc = p] \in Request
  BY DEF Request
<1>2. ASSUME NEW q \in Request
      PROVE  [q EXCEPT !.c = c] \in Request
  BY DEF Request
<1>3. [r EXCEPT !.pc = p, !.c = c] =
        [[r EXCEPT !.pc = p] EXCEPT !.c = c]
  BY DEF Request
<1> QED
  BY <1>1, <1>2, <1>3

\* Going to another place of the handler keeps the type of requests.
LEMMA GotoType ==
  ASSUME TypeOK, NEW h \in Handlers, NEW l \in Labels, Goto(h, l)
  PROVE  req' \in [Handlers -> Request]
<1>1. req[h] \in Request
  BY DEF TypeOK
<1>2. [req[h] EXCEPT !.pc = l] \in Request
  BY <1>1 DEF Request
<1> QED
  BY <1>2, BecomeType DEF Goto

\* A reply keeps the type of requests.
LEMMA AnswerType ==
  ASSUME TypeOK, NEW h \in Handlers, Answer(h)
  PROVE  req' \in [Handlers -> Request]
BY IdleType, BecomeType DEF Answer

\* A message that is taken up keeps the types of requests and budget.
LEMMA AcceptType ==
  ASSUME TypeOK, NEW h \in Handlers, NEW kind, NEW r \in Request,
         Accept(h, kind, r)
  PROVE  /\ req' \in [Handlers -> Request]
         /\ budget' \in 0..MaxRequests
<1>1. req' \in [Handlers -> Request]
  BY BecomeType DEF Accept
<1>2. budget' \in 0..MaxRequests
  BY InputAssumption DEF Accept, TypeOK
<1> QED
  BY <1>1, <1>2

\* A call of getCurrentClientGroupOrNew keeps the type of requests.
LEMMA CallType ==
  ASSUME TypeOK, NEW h \in Handlers, NEW t \in Tables \cup {None},
         NEW l \in Labels, Call(h, t, l)
  PROVE  req' \in [Handlers -> Request]
<1>1. req[h] \in Request
  BY DEF TypeOK
<1>2. \A p \in Labels : [req[h] EXCEPT !.pc = p, !.ret = l, !.t = t] \in Request
  BY <1>1 DEF Request
<1>3. "find" \in Labels
  BY DEF Labels
<1> QED
  BY <1>2, <1>3, BecomeType DEF Call

\* Its return, with a session and a cart, keeps the type of requests.
LEMMA ReturnType ==
  ASSUME TypeOK, NEW h \in Handlers, NEW g \in Groups \cup {None},
         NEW cart \in Seq(Entry), Return(h, g, cart)
  PROVE  req' \in [Handlers -> Request]
<1>1. req[h] \in Request
  BY DEF TypeOK
<1>2. \A c \in Seq(Entry) :
        [req[h] EXCEPT !.pc = req[h].ret, !.g = g, !.cart = c] \in Request
  BY <1>1 DEF Request
<1>3. (IF req[h].ret = "deselectBill" THEN cart ELSE <<>>) \in Seq(Entry)
  BY EmptyCart
<1> QED
  BY <1>2, <1>3, BecomeType DEF Return

----------------------------------------------------------------------------
\* Arrivals: the request a message becomes.

\* JoinTable keeps the type of every variable.
LEMMA JoinTableType ==
  ASSUME TypeOK, NEW h \in Handlers, JoinTable(h)
  PROVE  TypeOK'
<1>1. PICK s \in Sockets, t \in ActiveTables, n \in Names,
           c \in {None} \cup {k \in Clients : client[k].status # "none"} :
        Accept(h, "join", [Idle EXCEPT !.pc = "find", !.ret = "checkName",
                                       !.s = s, !.t = t, !.name = n, !.c = c])
  BY DEF JoinTable
<1>2. [Idle EXCEPT !.pc = "find", !.ret = "checkName", !.s = s, !.t = t,
                   !.name = n, !.c = c] \in Request
  BY IdleType, InputAssumption DEF Request, Labels
<1> QED
  BY <1>1, <1>2, AcceptType DEF JoinTable, rows, TypeOK

\* LeaveTable keeps the type of every variable.
LEMMA LeaveTableType ==
  ASSUME TypeOK, NEW h \in Handlers, LeaveTable(h)
  PROVE  TypeOK'
<1>1. PICK s \in Sockets :
        Accept(h, "leave", [Idle EXCEPT !.pc = "find", !.ret = "leaveFoods",
                                        !.s = s, !.t = socket[s].room])
  BY DEF LeaveTable
<1>2. \A p, q \in Labels, t \in Tables \cup {None} :
        [Idle EXCEPT !.pc = p, !.ret = q, !.s = s, !.t = t] \in Request
  BY IdleType DEF Request
<1>3. socket[s].room \in Tables \cup {None}
  BY DEF TypeOK, Connection
<1>4. "find" \in Labels /\ "leaveFoods" \in Labels
  BY DEF Labels
<1>5. [Idle EXCEPT !.pc = "find", !.ret = "leaveFoods", !.s = s,
                   !.t = socket[s].room] \in Request
  BY <1>2, <1>3, <1>4
<1>6. req' \in [Handlers -> Request] /\ budget' \in 0..MaxRequests
  BY <1>1, <1>5, AcceptType
<1> QED
  BY <1>6 DEF LeaveTable, rows, TypeOK

\* Disconnect keeps the type of every variable.
LEMMA DisconnectType ==
  ASSUME TypeOK, NEW h \in Handlers, Disconnect(h)
  PROVE  TypeOK'
<1>1. PICK s \in Sockets :
        /\ Accept(h, "disconnect",
             [Idle EXCEPT !.pc = "offline", !.ret = "noti",
                          !.t = socket[s].room, !.c = socket[s].user])
        /\ socket' = [socket EXCEPT ![s] = [@ EXCEPT !.live = FALSE,
                                                     !.room = None]]
  BY DEF Disconnect
<1>2. \A p, q \in Labels, t \in Tables \cup {None}, c \in Clients \cup {None} :
        [Idle EXCEPT !.pc = p, !.ret = q, !.t = t, !.c = c] \in Request
  BY IdleType DEF Request
<1>3. socket[s] \in Connection
  BY DEF TypeOK
<1>4. [socket[s] EXCEPT !.live = FALSE, !.room = None] \in Connection
  BY <1>3 DEF Connection
<1>5. socket' \in [Sockets -> Connection]
  BY <1>1, <1>4 DEF TypeOK
<1>6. socket[s].room \in Tables \cup {None} /\ socket[s].user \in Clients \cup {None}
  BY <1>3 DEF Connection
<1>7. "offline" \in Labels /\ "noti" \in Labels
  BY DEF Labels
<1>8. [Idle EXCEPT !.pc = "offline", !.ret = "noti", !.t = socket[s].room,
                   !.c = socket[s].user] \in Request
  BY <1>2, <1>6, <1>7
<1>9. req' \in [Handlers -> Request] /\ budget' \in 0..MaxRequests
  BY <1>1, <1>8, AcceptType
<1> QED
  BY <1>5, <1>9 DEF Disconnect, rows, TypeOK

\* SelectFood keeps the type of every variable.
LEMMA SelectFoodType ==
  ASSUME TypeOK, NEW h \in Handlers, SelectFood(h)
  PROVE  TypeOK'
<1>1. PICK s \in Sockets :
        Accept(h, "select", [Idle EXCEPT !.pc = "find", !.ret = "selectBill",
                                         !.t = socket[s].room,
                                         !.c = socket[s].user])
  BY DEF SelectFood
<1>2. \A p, q \in Labels, t \in Tables \cup {None}, c \in Clients \cup {None} :
        [Idle EXCEPT !.pc = p, !.ret = q, !.t = t, !.c = c] \in Request
  BY IdleType DEF Request
<1>3. socket[s].room \in Tables \cup {None} /\ socket[s].user \in Clients \cup {None}
  BY DEF TypeOK, Connection
<1>4. "find" \in Labels /\ "selectBill" \in Labels
  BY DEF Labels
<1>5. [Idle EXCEPT !.pc = "find", !.ret = "selectBill", !.t = socket[s].room,
                   !.c = socket[s].user] \in Request
  BY <1>2, <1>3, <1>4
<1>6. req' \in [Handlers -> Request] /\ budget' \in 0..MaxRequests
  BY <1>1, <1>5, AcceptType
<1> QED
  BY <1>6 DEF SelectFood, rows, TypeOK

\* DeselectFood keeps the type of every variable.
LEMMA DeselectFoodType ==
  ASSUME TypeOK, NEW h \in Handlers, DeselectFood(h)
  PROVE  TypeOK'
<1>1. PICK s \in Sockets, i \in Items :
        Accept(h, "deselect", [Idle EXCEPT !.pc = "find",
                                           !.ret = "deselectBill",
                                           !.t = socket[s].room, !.item = i])
  BY DEF DeselectFood
<1>2. \A p, q \in Labels, t \in Tables \cup {None} :
        [Idle EXCEPT !.pc = p, !.ret = q, !.t = t, !.item = i] \in Request
  BY IdleType DEF Request
<1>3. socket[s].room \in Tables \cup {None}
  BY DEF TypeOK, Connection
<1>4. "find" \in Labels /\ "deselectBill" \in Labels
  BY DEF Labels
<1>5. [Idle EXCEPT !.pc = "find", !.ret = "deselectBill",
                   !.t = socket[s].room, !.item = i] \in Request
  BY <1>2, <1>3, <1>4
<1>6. req' \in [Handlers -> Request] /\ budget' \in 0..MaxRequests
  BY <1>1, <1>5, AcceptType
<1> QED
  BY <1>6 DEF DeselectFood, rows, TypeOK

\* A list a guest sends is a list of entries.
LEMMA ListsType ==
  ASSUME TypeOK, NEW g \in Groups, NEW list \in OrderLists(g)
  PROVE  list \in Seq(Entry)
<1>1. group[g].cart \in Seq(Entry)
  BY DEF TypeOK, GroupRow
<1>2. Known(g) \subseteq Entry
  BY DEF Known
<1>3. \A m \in Nat : [1..m -> Entry] \subseteq Seq(Entry)
  OBVIOUS
<1>4. BoundedSeq(Known(g), MaxList) \subseteq Seq(Entry)
  <2>1. ASSUME NEW m \in 0..MaxList, NEW x \in [1..m -> Known(g)]
        PROVE  x \in Seq(Entry)
    <3>1. m \in Nat
      BY InputAssumption
    <3>2. x \in [1..m -> Entry]
      BY <1>2
    <3> QED
      BY <3>1, <3>2, <1>3
  <2> QED
    BY <2>1 DEF BoundedSeq, SeqOf
<1> QED
  BY <1>1, <1>4 DEF OrderLists

\* CreateOrder keeps the type of every variable.
LEMMA CreateOrderType ==
  ASSUME TypeOK, NEW h \in Handlers, CreateOrder(h)
  PROVE  TypeOK'
<1>1. PICK s \in Sockets, g \in Existing :
        \E list \in OrderLists(g) :
          Accept(h, "create",
            [Idle EXCEPT !.pc = "orderGroup", !.t = socket[s].room, !.g = g,
                         !.cart = list,
                         !.flag = OpenOrders(socket[s].room) # {}])
  BY DEF CreateOrder
<1>0. PICK list \in OrderLists(g) :
        Accept(h, "create",
          [Idle EXCEPT !.pc = "orderGroup", !.t = socket[s].room, !.g = g,
                       !.cart = list,
                       !.flag = OpenOrders(socket[s].room) # {}])
  BY <1>1
<1>2. \A p \in Labels, t \in Tables \cup {None}, k \in Groups, c \in Seq(Entry),
         b \in BOOLEAN :
        [Idle EXCEPT !.pc = p, !.t = t, !.g = k, !.cart = c, !.flag = b]
          \in Request
  BY ZenonT(30), IdleType DEF Request
<1>3. socket[s].room \in Tables \cup {None}
  BY DEF TypeOK, Connection
<1>4. g \in Groups /\ list \in Seq(Entry)
  BY ListsType DEF Existing
<1>5. (OpenOrders(socket[s].room) # {}) \in BOOLEAN
  OBVIOUS
<1>6. "orderGroup" \in Labels
  BY DEF Labels
<1>7. [Idle EXCEPT !.pc = "orderGroup", !.t = socket[s].room, !.g = g,
                   !.cart = list,
                   !.flag = OpenOrders(socket[s].room) # {}] \in Request
  BY <1>2, <1>3, <1>4, <1>5, <1>6
<1>8. req' \in [Handlers -> Request] /\ budget' \in 0..MaxRequests
  BY <1>0, <1>7, AcceptType
<1> QED
  BY <1>8 DEF CreateOrder, rows, TypeOK

\* UpdateOrder keeps the type of every variable.
LEMMA UpdateOrderType ==
  ASSUME TypeOK, NEW h \in Handlers, UpdateOrder(h)
  PROVE  TypeOK'
<1>1. PICK s \in Sockets, g \in Existing, method \in BOOLEAN :
        \E list \in OrderLists(g) \cup {<<>>} :
          Accept(h, "update",
            [Idle EXCEPT !.pc = IF method /\ bill[g].status # "none"
                                THEN "setMethod" ELSE "updateWrite",
                         !.t = socket[s].room, !.g = g, !.cart = list])
  BY DEF UpdateOrder
<1>0. PICK list \in OrderLists(g) \cup {<<>>} :
        Accept(h, "update",
          [Idle EXCEPT !.pc = IF method /\ bill[g].status # "none"
                              THEN "setMethod" ELSE "updateWrite",
                       !.t = socket[s].room, !.g = g, !.cart = list])
  BY <1>1
<1>2. \A p \in Labels, t \in Tables \cup {None}, k \in Groups, c \in Seq(Entry) :
        [Idle EXCEPT !.pc = p, !.t = t, !.g = k, !.cart = c] \in Request
  BY IdleType DEF Request
<1>3. socket[s].room \in Tables \cup {None}
  BY DEF TypeOK, Connection
<1>4. g \in Groups
  BY DEF Existing
<1>5. list \in Seq(Entry)
  BY <1>4, ListsType, EmptyCart
<1>6. (IF method /\ bill[g].status # "none" THEN "setMethod" ELSE "updateWrite")
         \in Labels
  BY DEF Labels
<1>7. [Idle EXCEPT !.pc = IF method /\ bill[g].status # "none"
                          THEN "setMethod" ELSE "updateWrite",
                   !.t = socket[s].room, !.g = g, !.cart = list] \in Request
  BY <1>2, <1>3, <1>4, <1>5, <1>6
<1>8. req' \in [Handlers -> Request] /\ budget' \in 0..MaxRequests
  BY <1>0, <1>7, AcceptType
<1> QED
  BY <1>8 DEF UpdateOrder, rows, TypeOK

\* AdminUpdateClientOrder keeps the type of every variable.
LEMMA AdminUpdateClientOrderType ==
  ASSUME TypeOK, NEW h \in Handlers, AdminUpdateClientOrder(h)
  PROVE  TypeOK'
<1>1. PICK g \in Groups, d \in AdminDtos, F \in SUBSET Foods :
        Accept(h, "admin",
          [Idle EXCEPT !.g = g, !.dto = d, !.foods = F,
                       !.pc = IF d.bill = "CANCEL" THEN "cancel"
                              ELSE IF F # {} THEN "foodWrite"
                              ELSE "adminRead"])
  <2>1. \A g \in Groups, d \in AdminDtos :
          (IF d.food = None THEN {{}} ELSE {{f} : f \in FoodsOfOrder(g)})
             \subseteq SUBSET Foods
    BY DEF FoodsOfOrder
  <2> QED
    BY <2>1, Zenon DEF AdminUpdateClientOrder
<1>2. \A p \in Labels :
        [Idle EXCEPT !.g = g, !.dto = d, !.foods = F, !.pc = p] \in Request
  BY IdleType DEF Request
<1>3. (IF d.bill = "CANCEL" THEN "cancel"
       ELSE IF F # {} THEN "foodWrite" ELSE "adminRead") \in Labels
  BY DEF Labels
<1> QED
  BY <1>1, <1>2, <1>3, AcceptType DEF AdminUpdateClientOrder, rows, TypeOK

\* AdminDeleteClientList keeps the type of every variable.
LEMMA AdminDeleteClientListType ==
  ASSUME TypeOK, NEW h \in Handlers, AdminDeleteClientList(h)
  PROVE  TypeOK'
<1>1. PICK g \in Groups, d \in AdminDtos, c \in Clients, task \in Handlers :
        /\ budget > 0
        /\ budget' = budget - 1
        /\ req' = [req EXCEPT
                     ![h] = [Idle EXCEPT !.pc = "adminRead", !.g = g, !.dto = d],
                     ![task] = [Idle EXCEPT !.pc = "expelRead", !.c = c]]
  BY DEF AdminDeleteClientList
<1>2. [Idle EXCEPT !.pc = "adminRead", !.g = g, !.dto = d] \in Request
  BY IdleType DEF Request, Labels
<1>3. [Idle EXCEPT !.pc = "expelRead", !.c = c] \in Request
  BY IdleType DEF Request, Labels
<1>4. req' \in [Handlers -> Request]
  BY <1>1, <1>2, <1>3 DEF TypeOK
<1>5. budget' \in 0..MaxRequests
  BY <1>1, InputAssumption DEF TypeOK
<1> QED
  BY <1>4, <1>5 DEF AdminDeleteClientList, rows, TypeOK

\* WsClearTable keeps the type of every variable.
LEMMA WsClearTableType ==
  ASSUME TypeOK, NEW h \in Handlers, WsClearTable(h)
  PROVE  TypeOK'
<1>1. PICK g \in Existing, status \in ClearStatuses :
        /\ Accept(h, "clear", Idle)
        /\ group' = [group EXCEPT
                       ![g].status = status,
                       ![g].reopened = @ \/ (status = "IN_PROGRESS" /\
                                             group[g].status # "IN_PROGRESS")]
  BY DEF WsClearTable
<1>2. group' \in [Groups -> GroupRow]
  BY <1>1, InputAssumption DEF TypeOK, GroupRow
<1> QED
  BY <1>1, <1>2, IdleType, AcceptType DEF WsClearTable, TypeOK

\* DeleteClientIdInFoodOrder keeps the type of every variable.
LEMMA DeleteClientIdType ==
  ASSUME TypeOK, NEW h \in Handlers, DeleteClientIdInFoodOrder(h)
  PROVE  TypeOK'
<1>1. PICK c \in Clients :
        Accept(h, "expel", [Idle EXCEPT !.pc = "expelRead", !.c = c])
  BY DEF DeleteClientIdInFoodOrder
<1>2. [Idle EXCEPT !.pc = "expelRead", !.c = c] \in Request
  BY IdleType DEF Request, Labels
<1> QED
  BY <1>1, <1>2, AcceptType DEF DeleteClientIdInFoodOrder, rows, TypeOK

\* ClearTable keeps the type of every variable.
LEMMA ClearTableType ==
  ASSUME TypeOK, NEW h \in Handlers, ClearTable(h)
  PROVE  TypeOK'
<1>1. PICK g \in Groups :
        Accept(h, "reject", [Idle EXCEPT !.pc = "rejectOrder", !.g = g])
  BY DEF ClearTable, InProgress
<1>2. [Idle EXCEPT !.pc = "rejectOrder", !.g = g] \in Request
  BY IdleType DEF Request, Labels
<1> QED
  BY <1>1, <1>2, AcceptType DEF ClearTable, rows, TypeOK

----------------------------------------------------------------------------
\* Continuations: the next place of a request, and the rows it writes.

\* CheckUsername keeps the type of every variable.
LEMMA CheckUsernameType ==
  ASSUME TypeOK, NEW h \in Handlers, CheckUsername(h)
  PROVE  TypeOK'
<1>1. "createClient" \in Labels /\ "findClient" \in Labels
  BY DEF Labels
<1>2. req' \in [Handlers -> Request]
  BY <1>1, GotoType, AnswerType DEF CheckUsername
<1> QED
  BY <1>2 DEF CheckUsername, rows, TypeOK

\* FindClient keeps the type of every variable.
LEMMA FindClientType ==
  ASSUME TypeOK, NEW h \in Handlers, FindClient(h)
  PROVE  TypeOK'
<1>1. "createClient" \in Labels /\ "reconnect" \in Labels
  BY DEF Labels
<1>2. req' \in [Handlers -> Request]
  BY <1>1, GotoType, AnswerType DEF FindClient
<1> QED
  BY <1>2 DEF FindClient, rows, TypeOK

\* SelectReadBill keeps the type of every variable.
LEMMA SelectReadBillType ==
  ASSUME TypeOK, NEW h \in Handlers, SelectReadBill(h)
  PROVE  TypeOK'
<1>1. "push" \in Labels
  BY DEF Labels
<1>2. req' \in [Handlers -> Request]
  BY <1>1, GotoType, AnswerType DEF SelectReadBill
<1> QED
  BY <1>2 DEF SelectReadBill, rows, TypeOK

\* DeselectReadBill keeps the type of every variable.
LEMMA DeselectReadBillType ==
  ASSUME TypeOK, NEW h \in Handlers, DeselectReadBill(h)
  PROVE  TypeOK'
<1>1. "deselectWrite" \in Labels
  BY DEF Labels
<1>2. req' \in [Handlers -> Request]
  BY <1>1, GotoType, AnswerType DEF DeselectReadBill
<1> QED
  BY <1>2 DEF DeselectReadBill, rows, TypeOK

\* OrderReadGroup keeps the type of every variable.
LEMMA OrderReadGroupType ==
  ASSUME TypeOK, NEW h \in Handlers, OrderReadGroup(h)
  PROVE  TypeOK'
<1>1. "insertOrder" \in Labels
  BY DEF Labels
<1>2. req' \in [Handlers -> Request]
  BY <1>1, GotoType, AnswerType DEF OrderReadGroup
<1> QED
  BY <1>2 DEF OrderReadGroup, rows, TypeOK

\* SetBillMethod keeps the type of every variable.
LEMMA SetBillMethodType ==
  ASSUME TypeOK, NEW h \in Handlers, SetBillMethod(h)
  PROVE  TypeOK'
<1>1. "updateWrite" \in Labels
  BY DEF Labels
<1>2. req' \in [Handlers -> Request]
  BY <1>1, GotoType, AnswerType DEF SetBillMethod
<1> QED
  BY <1>2 DEF SetBillMethod, rows, TypeOK

\* Notify keeps the type of every variable.
LEMMA NotifyType ==
  ASSUME TypeOK, NEW h \in Handlers, Notify(h)
  PROVE  TypeOK'
<1>1. req' \in [Handlers -> Request]
  BY AnswerType DEF Notify
<1> QED
  BY <1>1 DEF Notify, rows, TypeOK

\* FindSession keeps the type of every variable.
LEMMA FindSessionType ==
  ASSUME TypeOK, NEW h \in Handlers, FindSession(h)
  PROVE  TypeOK'
<1>1. \A g \in InProgress(req[h].t) : g \in Groups /\ group[g].cart \in Seq(Entry)
  BY DEF InProgress, TypeOK, GroupRow
<1>2. "createGroup" \in Labels
  BY DEF Labels
<1>3. req' \in [Handlers -> Request]
  BY <1>1, <1>2, EmptyCart, GotoType, ReturnType DEF FindSession
<1> QED
  BY <1>3 DEF FindSession, rows, TypeOK

\* CreateSession keeps the type of every variable.
LEMMA CreateSessionType ==
  ASSUME TypeOK, NEW h \in Handlers, CreateSession(h)
  PROVE  TypeOK'
<1>1. PICK g \in Groups :
        /\ group' = [group EXCEPT ![g] = NewSession(req[h].t)]
        /\ Return(h, g, <<>>)
  BY DEF CreateSession, Pick
<1>2. req[h].t \in Tables \cup {None}
  BY DEF TypeOK, Request
<1>3. NewSession(req[h].t) \in GroupRow
  BY <1>2, EmptyCart DEF NewSession, NoGroup, GroupRow, GroupStatus
<1>4. req' \in [Handlers -> Request]
  BY <1>1, EmptyCart, ReturnType
<1> QED
  BY <1>1, <1>3, <1>4 DEF CreateSession, TypeOK

\* RejectReadOrder keeps the type of every variable.
LEMMA RejectReadOrderType ==
  ASSUME TypeOK, NEW h \in Handlers, RejectReadOrder(h)
  PROVE  TypeOK'
<1>1. \A p \in Labels, b \in BOOLEAN : [req[h] EXCEPT !.pc = p, !.flag = b] \in Request
  BY PcFlagType DEF TypeOK
<1>2. "rejectFoods" \in Labels /\ "rejectGroup" \in Labels
  BY DEF Labels
<1>3. (order[req[h].g].status # "none") \in BOOLEAN
  OBVIOUS
<1>4. req' \in [Handlers -> Request]
  BY <1>1, <1>2, <1>3, BecomeType DEF RejectReadOrder
<1> QED
  BY <1>4 DEF RejectReadOrder, rows, TypeOK

\* RejectReadFoods keeps the type of every variable.
LEMMA RejectReadFoodsType ==
  ASSUME TypeOK, NEW h \in Handlers, RejectReadFoods(h)
  PROVE  TypeOK'
<1>1. \A p \in Labels, F \in SUBSET Foods :
        [req[h] EXCEPT !.pc = p, !.foods = F] \in Request
  BY PcFoodsType DEF TypeOK
<1>2. "rejectFood" \in Labels /\ "rejectGroup" \in Labels
  BY DEF Labels
<1>3. FoodsOfOrder(req[h].g) \in SUBSET Foods
  BY DEF FoodsOfOrder
<1>4. req' \in [Handlers -> Request]
  BY <1>1, <1>2, <1>3, BecomeType DEF RejectReadFoods
<1> QED
  BY <1>4 DEF RejectReadFoods, rows, TypeOK

\* A request that ticks off a food is a request.
LEMMA TickType ==
  ASSUME NEW r \in Request, NEW F \in SUBSET Foods, NEW b \in BOOLEAN
  PROVE  [r EXCEPT !.foods = F, !.failed = b] \in Request
<1>1. [r EXCEPT !.foods = F] \in Request
  BY DEF Request
<1>2. ASSUME NEW q \in Request
      PROVE  [q EXCEPT !.failed = b] \in Request
  BY SMTT(30) DEF Request
<1>3. [r EXCEPT !.foods = F, !.failed = b] =
        [[r EXCEPT !.foods = F] EXCEPT !.failed = b]
  BY DEF Request
<1> QED
  BY <1>1, <1>2, <1>3

\* RejectFood keeps the type of every variable.
LEMMA RejectFoodType ==
  ASSUME TypeOK, NEW h \in Handlers, RejectFood(h)
  PROVE  TypeOK'
<1>1. PICK f \in req[h].foods :
        /\ food' = IF HasFood(f) THEN [food EXCEPT ![f].status = "CANCEL"] ELSE food
        /\ req' = [req EXCEPT ![h] =
                     IF req[h].foods \ {f} # {}
                     THEN [@ EXCEPT !.foods = req[h].foods \ {f},
                                    !.failed = req[h].failed \/ ~HasFood(f)]
                     ELSE IF req[h].failed \/ ~HasFood(f) THEN Idle
                     ELSE [@ EXCEPT !.pc = "rejectGroup", !.foods = {}]]
  BY DEF RejectFood
<1>2. \A F \in SUBSET Foods, b \in BOOLEAN :
        [req[h] EXCEPT !.foods = F, !.failed = b] \in Request
  BY TickType DEF TypeOK
<1>3. \A p \in Labels, F \in SUBSET Foods :
        [req[h] EXCEPT !.pc = p, !.foods = F] \in Request
  BY PcFoodsType DEF TypeOK
<1>4. req[h].foods \ {f} \in SUBSET Foods
  BY DEF TypeOK, Request
<1>5. (req[h].failed \/ ~HasFood(f)) \in BOOLEAN
  OBVIOUS
<1>6. "rejectGroup" \in Labels
  BY DEF Labels
<1>7. req' \in [Handlers -> Request]
  <2>1. CASE req[h].foods \ {f} # {}
    <3> DEFINE r == [req[h] EXCEPT !.foods = req[h].foods \ {f},
                                   !.failed = req[h].failed \/ ~HasFood(f)]
    <3>1. r \in Request
      BY <1>2, <1>4, <1>5
    <3>2. req' = [req EXCEPT ![h] = r]
      BY <1>1, <2>1
    <3> QED
      BY <3>1, <3>2, BecomeType
  <2>2. CASE req[h].foods \ {f} = {} /\ (req[h].failed \/ ~HasFood(f))
    <3>1. req' = [req EXCEPT ![h] = Idle]
      BY <1>1, <2>2
    <3> QED
      BY <3>1, IdleType, BecomeType
  <2>3. CASE req[h].foods \ {f} = {} /\ ~(req[h].failed \/ ~HasFood(f))
    <3> DEFINE r == [req[h] EXCEPT !.pc = "rejectGroup", !.foods = {}]
    <3>1. r \in Request
      BY <1>3, <1>6
    <3>2. req' = [req EXCEPT ![h] = r]
      BY <1>1, <2>3
    <3> QED
      BY <3>1, <3>2, BecomeType
  <2> QED
    BY <2>1, <2>2, <2>3
<1>8. \A k \in Foods : [food[k] EXCEPT !.status = "CANCEL"] \in FoodRow
  BY DEF TypeOK, FoodRow, FoodStatus
<1>9. food' \in [Foods -> FoodRow]
  BY <1>1, <1>8 DEF TypeOK
<1> QED
  BY <1>7, <1>9 DEF RejectFood, TypeOK

\* RejectSession keeps the type of every variable.
LEMMA RejectSessionType ==
  ASSUME TypeOK, NEW h \in Handlers, RejectSession(h)
  PROVE  TypeOK'
<1>1. req' \in [Handlers -> Request]
  BY AnswerType DEF RejectSession
<1>2. \A g \in Groups : /\ [group[g] EXCEPT !.status = "REJECT"] \in GroupRow
                        /\ [order[g] EXCEPT !.status = "CANCEL"] \in OrderRow
  <2>1. ASSUME NEW r \in GroupRow
        PROVE  [r EXCEPT !.status = "REJECT"] \in GroupRow
    BY DEF GroupRow, GroupStatus
  <2>2. ASSUME NEW r \in OrderRow
        PROVE  [r EXCEPT !.status = "CANCEL"] \in OrderRow
    BY DEF OrderRow, OrderStatus
  <2> QED
    BY <2>1, <2>2 DEF TypeOK
<1>3. group' \in [Groups -> GroupRow]
  BY <1>2 DEF RejectSession, TypeOK
<1>4. order' \in [Groups -> OrderRow]
  BY <1>2 DEF RejectSession, TypeOK
<1> QED
  BY <1>1, <1>3, <1>4 DEF RejectSession, TypeOK

\* CreateClient keeps the type of every variable.
LEMMA CreateClientType ==
  ASSUME TypeOK, NEW h \in Handlers, CreateClient(h)
  PROVE  TypeOK'
<1>1. PICK c \in Clients :
        /\ client' = [client EXCEPT ![c] = [status |-> "ONLINE",
                                            name |-> req[h].name,
                                            group |-> req[h].g]]
        /\ socket' = Seated(h, c)
  BY DEF CreateClient, Pick
<1>2. req[h] \in Request
  BY DEF TypeOK
<1>3. client' \in [Clients -> ClientRow]
  BY <1>1, <1>2 DEF TypeOK, ClientRow, Request
<1>4. "noti" \in Labels /\ req[h].t \in Tables \cup {None}
  BY <1>2 DEF Labels, Request
<1>5. socket' \in [Sockets -> Connection]
  BY <1>1, <1>4 DEF TypeOK, Connection, Seated
<1>6. req' \in [Handlers -> Request]
  BY <1>4, CallType DEF CreateClient
<1> QED
  BY <1>3, <1>5, <1>6 DEF CreateClient, TypeOK

\* Reconnect keeps the type of every variable.
LEMMA ReconnectType ==
  ASSUME TypeOK, NEW h \in Handlers, Reconnect(h)
  PROVE  TypeOK'
<1>1. req[h] \in Request
  BY DEF TypeOK
<1>2. "noti" \in Labels /\ req[h].t \in Tables \cup {None} /\ req[h].g \in Groups \cup {None}
  BY <1>1 DEF Labels, Request
<1>3. req' \in [Handlers -> Request]
  BY <1>2, CallType, AnswerType DEF Reconnect
<1>4. client' \in [Clients -> ClientRow]
  BY <1>2 DEF Reconnect, TypeOK, ClientRow
<1>5. req[h].c \in Clients \cup {None}
  BY <1>1 DEF Request
<1>6. socket' \in [Sockets -> Connection]
  BY <1>2, <1>5 DEF Reconnect, Seated, TypeOK, Connection
<1> QED
  BY <1>3, <1>4, <1>6 DEF Reconnect, TypeOK

\* LeaveReadFoods keeps the type of every variable.
LEMMA LeaveReadFoodsType ==
  ASSUME TypeOK, RequestsFit, NEW h \in Handlers, LeaveReadFoods(h)
  PROVE  TypeOK'
<1>1. \A p \in Labels, c \in Clients \cup {None} :
        [req[h] EXCEPT !.pc = p, !.c = c] \in Request
  BY PcClientType DEF TypeOK
<1>2. "deleteClient" \in Labels
  BY DEF Labels
<1>3. req[h].s \in Sockets
  BY DEF LeaveReadFoods, RequestsFit, Fit, At
<1>4. socket[req[h].s].user \in Clients \cup {None}
  BY <1>3 DEF TypeOK, Connection
<1>5. req' \in [Handlers -> Request]
  BY <1>1, <1>2, <1>4, AnswerType, BecomeType DEF LeaveReadFoods
<1> QED
  BY <1>5 DEF LeaveReadFoods, rows, TypeOK

\* LeaveDeleteClient keeps the type of every variable.
LEMMA LeaveDeleteClientType ==
  ASSUME TypeOK, NEW h \in Handlers, LeaveDeleteClient(h)
  PROVE  TypeOK'
<1>1. "noti" \in Labels
  BY DEF Labels
<1>2. req' \in [Handlers -> Request]
  BY <1>1, GotoType, AnswerType DEF LeaveDeleteClient
<1>3. client' \in [Clients -> ClientRow]
  BY DEF LeaveDeleteClient, DeleteClientRow, NoClient, TypeOK, ClientRow
<1>4. socket' \in [Sockets -> Connection]
  BY DEF LeaveDeleteClient, TypeOK, Connection
<1> QED
  BY <1>2, <1>3, <1>4 DEF LeaveDeleteClient, TypeOK

\* GoOffline keeps the type of every variable.
LEMMA GoOfflineType ==
  ASSUME TypeOK, NEW h \in Handlers, GoOffline(h)
  PROVE  TypeOK'
<1>1. "find" \in Labels
  BY DEF Labels
<1>2. req' \in [Handlers -> Request]
  BY <1>1, GotoType, AnswerType DEF GoOffline
<1>3. client' \in [Clients -> ClientRow]
  BY DEF GoOffline, TypeOK, ClientRow
<1> QED
  BY <1>2, <1>3 DEF GoOffline, TypeOK

\* SelectPush keeps the type of every variable.
LEMMA SelectPushType ==
  ASSUME TypeOK, NEW h \in Handlers, SelectPush(h)
  PROVE  TypeOK'
<1>1. PICK i \in Items :
        group' = [group EXCEPT ![req[h].g].cart =
                    Append(@, [id |-> i, user |-> req[h].c])]
  BY DEF SelectPush, Pick, FreshItems
<1>2. [id |-> i, user |-> req[h].c] \in Entry
  BY DEF TypeOK, Request, Entry
<1>3. \A g \in Groups : Append(group[g].cart, [id |-> i, user |-> req[h].c])
                           \in Seq(Entry)
  BY <1>2 DEF TypeOK, GroupRow
<1>4. group' \in [Groups -> GroupRow]
  BY <1>1, <1>3 DEF TypeOK, GroupRow
<1>5. req' \in [Handlers -> Request]
  BY GotoType DEF SelectPush, Labels
<1> QED
  BY <1>4, <1>5 DEF SelectPush, TypeOK

\* DeselectWrite keeps the type of every variable.
LEMMA DeselectWriteType ==
  ASSUME TypeOK, NEW h \in Handlers, DeselectWrite(h)
  PROVE  TypeOK'
<1>1. req[h] \in Request
  BY DEF TypeOK
<1>2. \A p \in Labels :
        [req[h] EXCEPT !.pc = p, !.cart = <<>>, !.item = None] \in Request
  BY <1>1, EmptyCart DEF Request
<1>3. "noti" \in Labels
  BY DEF Labels
<1>4. req' \in [Handlers -> Request]
  BY <1>2, <1>3, BecomeType, AnswerType DEF DeselectWrite
<1>5. Splice(req[h].cart, req[h].item) \in Seq(Entry)
  BY <1>1, SpliceType DEF Request
<1>6. \A g \in Groups :
        [group[g] EXCEPT !.cart = Splice(req[h].cart, req[h].item)] \in GroupRow
  BY <1>5 DEF TypeOK, GroupRow
<1>7. group' \in [Groups -> GroupRow]
  BY <1>6 DEF DeselectWrite, TypeOK
<1> QED
  BY <1>4, <1>7 DEF DeselectWrite, TypeOK

\* The rows that a cart becomes are rows of food.
LEMMA AddFoodsType ==
  ASSUME TypeOK, NEW g \in Groups \cup {None}, NEW cart \in Seq(Entry),
         AddFoods(g, cart)
  PROVE  food' \in [Foods -> FoodRow]
<1>1. PICK id : food' =
        [f \in Foods |->
           IF \E i \in DOMAIN cart : id[i] = f
           THEN FoodOf(g, cart[CHOOSE i \in DOMAIN cart : id[i] = f])
           ELSE food[f]]
  BY DEF AddFoods
<1>2. \A i \in DOMAIN cart : cart[i] \in Entry
  OBVIOUS
<1>3. \A e \in Entry : FoodOf(g, e) \in FoodRow
  BY DEF FoodOf, Entry, FoodRow, FoodStatus
<1>4. \A f \in Foods : food[f] \in FoodRow
  BY DEF TypeOK
<1>5. \A f \in Foods : (\E i \in DOMAIN cart : id[i] = f) =>
        (CHOOSE i \in DOMAIN cart : id[i] = f) \in DOMAIN cart
  OBVIOUS
<1> QED
  BY <1>1, <1>2, <1>3, <1>4, <1>5

\* InsertOrder keeps the type of every variable.
LEMMA InsertOrderType ==
  ASSUME TypeOK, NEW h \in Handlers, InsertOrder(h)
  PROVE  TypeOK'
<1>1. req[h] \in Request
  BY DEF TypeOK
<1>2. req[h].t \in Tables \cup {None} /\ req[h].g \in Groups \cup {None}
      /\ req[h].cart \in Seq(Entry)
  BY <1>1 DEF Request
<1>3. \A p \in Labels : [req[h] EXCEPT !.pc = p, !.cart = <<>>] \in Request
  BY <1>1, EmptyCart DEF Request
<1>4. "clearCart" \in Labels
  BY DEF Labels
<1>5. req' \in [Handlers -> Request]
  BY <1>3, <1>4, BecomeType, AnswerType DEF InsertOrder
<1>6. [status |-> "NOT_CHECKOUT", table |-> req[h].t, overall |-> "PENDING"]
        \in OrderRow
  BY <1>2 DEF OrderRow, OrderStatus
<1>7. order' \in [Groups -> OrderRow]
  BY <1>6 DEF InsertOrder, TypeOK
<1>8. food' \in [Foods -> FoodRow]
  BY <1>2, AddFoodsType DEF InsertOrder, TypeOK
<1> QED
  BY <1>5, <1>7, <1>8 DEF InsertOrder, TypeOK

\* ClearCart keeps the type of every variable.
LEMMA ClearCartType ==
  ASSUME TypeOK, NEW h \in Handlers, ClearCart(h)
  PROVE  TypeOK'
<1>1. "noti" \in Labels
  BY DEF Labels
<1>2. req' \in [Handlers -> Request]
  BY <1>1, GotoType DEF ClearCart
<1>3. group' \in [Groups -> GroupRow]
  BY EmptyCart DEF ClearCart, TypeOK, GroupRow
<1> QED
  BY <1>2, <1>3 DEF ClearCart, TypeOK

\* UpdateWrite keeps the type of every variable.
LEMMA UpdateWriteType ==
  ASSUME TypeOK, RequestsFit, NEW h \in Handlers, UpdateWrite(h)
  PROVE  TypeOK'
<1>1. req[h] \in Request
  BY DEF TypeOK
<1>2. req[h].t \in Tables \cup {None} /\ req[h].g \in Groups \cup {None}
      /\ req[h].cart \in Seq(Entry)
  BY <1>1 DEF Request
<1>3. \A p \in Labels : [req[h] EXCEPT !.pc = p, !.cart = <<>>] \in Request
  BY <1>1, EmptyCart DEF Request
<1>4. "clearCart" \in Labels
  BY DEF Labels
<1>5. req' \in [Handlers -> Request]
  BY <1>3, <1>4, BecomeType DEF UpdateWrite
<1>6. order' \in [Groups -> OrderRow]
  <2> DEFINE g == req[h].g
             x == IF req[h].cart = <<>> THEN order[g].overall ELSE "PENDING"
  <2>1. order[g] \in OrderRow
    BY SessionFit
       DEF TypeOK, UpdateWrite, At, SessionLabels, OrderLabels, RejectLabels
  <2>2. x \in {"PENDING", "ALL_SERVED"}
    BY <2>1 DEF OrderRow
  <2>3. order' = [order EXCEPT ![g] = [order[g] EXCEPT !.table = req[h].t,
                                                       !.overall = x]]
    BY DEF UpdateWrite
  <2> HIDE DEF x
  <2>4. [order[g] EXCEPT !.table = req[h].t, !.overall = x] \in OrderRow
    BY <1>2, <2>1, <2>2 DEF OrderRow
  <2> QED
    BY <2>3, <2>4 DEF TypeOK
<1>7. food' \in [Foods -> FoodRow]
  BY <1>2, AddFoodsType DEF UpdateWrite
<1> QED
  BY <1>5, <1>6, <1>7 DEF UpdateWrite, TypeOK

\* The fields of a waiter's message.
LEMMA DtoType ==
  ASSUME NEW d \in AdminDtos \cup {NoDto}
  PROVE  /\ d.status \in OrderStatus \cup {None}
         /\ d.food \in FoodStatus \cup {"DELETE", None}
         /\ d.transfer \in Tables \cup {None}
         /\ d.bill \in BillStatus \cup {"KEEP", None}
BY InputAssumption DEF AdminDto, NoDto

\* FoodWrite keeps the type of every variable.
LEMMA FoodWriteType ==
  ASSUME TypeOK, RequestsFit, NEW h \in Handlers, FoodWrite(h)
  PROVE  TypeOK'
<1>1. req[h] \in Request
  BY DEF TypeOK
<1>2. req[h].dto \in AdminDtos \cup {NoDto} /\ req[h].dto.food # None
  BY <1>1 DEF Request, FoodWrite, At, RequestsFit, Fit
<1>3. req[h].dto.food \in FoodStatus \cup {"DELETE"}
  BY <1>2, DtoType
<1>4. \A p \in Labels : [req[h] EXCEPT !.pc = p, !.foods = {}] \in Request
  BY <1>1 DEF Request
<1>5. "adminRead" \in Labels
  BY DEF Labels
<1>6. req' \in [Handlers -> Request]
  BY <1>4, <1>5, BecomeType, AnswerType DEF FoodWrite
<1>7. [NoFood EXCEPT !.status = "deleted"] \in FoodRow
  BY DEF NoFood, FoodRow
<1>8. \A f \in Foods, x \in FoodStatus : [food[f] EXCEPT !.status = x] \in FoodRow
  BY DEF TypeOK, FoodRow
<1>9. PICK f \in req[h].foods :
        food' \in {food, [food EXCEPT ![f] = [NoFood EXCEPT !.status = "deleted"]]}
        \/ /\ req[h].dto.food # "DELETE"
           /\ food' = [food EXCEPT ![f].status = req[h].dto.food]
  BY DEF FoodWrite
<1>10. f \in Foods
  BY <1>1 DEF Request
<1>11. food' \in [Foods -> FoodRow]
  BY <1>3, <1>7, <1>8, <1>9, <1>10 DEF TypeOK
<1> QED
  BY <1>6, <1>11 DEF FoodWrite, TypeOK

\* AdminReadOrder keeps the type of every variable.
LEMMA AdminReadOrderType ==
  ASSUME TypeOK, NEW h \in Handlers, AdminReadOrder(h)
  PROVE  TypeOK'
<1> DEFINE F == FoodsOfOrder(req[h].g)
           charged == IF req[h].dto.status = "BILLING"
                      THEN {f \in F : food[f].status # "CANCEL"} ELSE {}
           pending == \E f \in F : food[f].status \in {"COOKING", "PENDING"}
<1>1. \A p \in Labels, b \in BOOLEAN, G \in SUBSET Foods :
        [req[h] EXCEPT !.pc = p, !.flag = b, !.foods = G] \in Request
  <2>1. req[h] \in Request
    BY DEF TypeOK
  <2> QED
    BY <2>1 DEF Request
<1>2. AfterLists(req[h].dto) \in Labels
  BY DEF AfterLists, Labels
<1>3. charged \in SUBSET Foods /\ pending \in BOOLEAN
  BY DEF FoodsOfOrder
<1>4. req' = [req EXCEPT ![h] = [req[h] EXCEPT !.pc = AfterLists(req[h].dto),
                                               !.flag = pending,
                                               !.foods = charged]]
  BY DEF AdminReadOrder
<1> HIDE DEF charged, pending
<1>5. req' \in [Handlers -> Request]
  BY <1>1, <1>2, <1>3, <1>4, BecomeType
<1> QED
  BY <1>5 DEF AdminReadOrder, rows, TypeOK

\* CreateBill keeps the type of every variable.
LEMMA CreateBillType ==
  ASSUME TypeOK, NEW h \in Handlers, CreateBill(h)
  PROVE  TypeOK'
<1>1. \A p \in Labels : [req[h] EXCEPT !.pc = p, !.foods = {}] \in Request
  BY PcFoodsType DEF TypeOK
<1>2. "setBill" \in Labels /\ "adminWrite" \in Labels
  BY DEF Labels
<1>3. req' \in [Handlers -> Request]
  BY <1>1, <1>2, BecomeType, AnswerType DEF CreateBill
<1>4. [status |-> "NOT_PAID", foods |-> req[h].foods] \in BillRow
  BY DEF TypeOK, Request, BillRow, BillStatus
<1>5. bill' \in [Groups -> BillRow]
  BY <1>4 DEF CreateBill, TypeOK
<1> QED
  BY <1>3, <1>5 DEF CreateBill, TypeOK

\* SetBill keeps the type of every variable.
LEMMA SetBillType ==
  ASSUME TypeOK, RequestsFit, NEW h \in Handlers, SetBill(h)
  PROVE  TypeOK'
<1>1. req[h].dto \in AdminDtos \cup {NoDto} /\ req[h].dto.bill # None
  BY DEF TypeOK, Request, SetBill, At, RequestsFit, Fit
<1>2. req[h].dto.bill \in BillStatus \cup {"KEEP"}
  BY <1>1, DtoType
<1>3. \A b \in BOOLEAN : [req[h] EXCEPT !.pc = "adminWrite", !.paid = b]
                           \in Request
  BY PcPaidType DEF TypeOK, Labels
<1> DEFINE status == IF req[h].dto.bill = "KEEP" THEN bill[req[h].g].status
                     ELSE req[h].dto.bill
           paid   == status = "PAID"
<1>0. req[h].g \in Groups
  BY SessionFit DEF SetBill, At, SessionLabels, OrderLabels
<1>6. status \in BillStatus \cup {"none"} /\ paid \in BOOLEAN
  BY <1>0, <1>2 DEF TypeOK, BillRow
<1>7. \/ /\ req' = [req EXCEPT ![h] = [req[h] EXCEPT !.pc = "adminWrite",
                                                    !.paid = paid]]
         /\ bill' = [bill EXCEPT ![req[h].g].status = status]
      \/ Answer(h) /\ bill' = bill
  BY DEF SetBill
<1> HIDE DEF status, paid
<1>4. req' \in [Handlers -> Request]
  BY <1>3, <1>6, <1>7, BecomeType, AnswerType
<1>8. [bill[req[h].g] EXCEPT !.status = status] \in BillRow
  BY <1>0, <1>6 DEF TypeOK, BillRow
<1>5. bill' \in [Groups -> BillRow]
  BY <1>7, <1>8 DEF TypeOK
<1> QED
  BY <1>4, <1>5 DEF SetBill, TypeOK

\* AdminWriteOrder keeps the type of every variable.
LEMMA AdminWriteOrderType ==
  ASSUME TypeOK, RequestsFit, NEW h \in Handlers, AdminWriteOrder(h)
  PROVE  TypeOK'
<1> DEFINE d == req[h].dto
           g == req[h].g
           status == IF req[h].paid THEN "PAID"
                     ELSE IF d.status # None THEN d.status ELSE order[g].status
           table == IF d.transfer # None THEN d.transfer ELSE order[g].table
           overall == IF req[h].flag THEN "PENDING" ELSE "ALL_SERVED"
<1>1. req[h] \in Request /\ g \in Groups
  BY SessionFit
     DEF TypeOK, AdminWriteOrder, At, SessionLabels, OrderLabels, RejectLabels
<1>2. d \in AdminDtos \cup {NoDto}
  BY <1>1 DEF Request
<1>3. order[g] \in OrderRow
  BY <1>1 DEF TypeOK
<1>4. status \in OrderStatus \cup {"none"}
  BY <1>2, <1>3, DtoType DEF OrderRow, OrderStatus
<1>5. table \in Tables \cup {None}
  BY <1>2, <1>3, DtoType DEF OrderRow
<1>6. order' = [order EXCEPT ![g] = [status |-> status, table |-> table,
                                     overall |-> overall]]
  BY DEF AdminWriteOrder
<1>7. "complete" \in Labels /\ "noti" \in Labels
  BY DEF Labels
<1>8. \/ Goto(h, "complete") \/ Goto(h, "noti") \/ Call(h, table, "noti")
  BY DEF AdminWriteOrder
<1>9. group' \in [Groups -> GroupRow]
  BY DEF AdminWriteOrder, TypeOK, GroupRow, GroupStatus
<1> HIDE DEF status, table
<1>10. req' \in [Handlers -> Request]
  BY <1>5, <1>7, <1>8, GotoType, CallType
<1>11. [status |-> status, table |-> table, overall |-> overall] \in OrderRow
  BY <1>4, <1>5 DEF OrderRow
<1>12. order' \in [Groups -> OrderRow]
  BY <1>6, <1>11 DEF TypeOK
<1> QED
  BY <1>9, <1>10, <1>12 DEF AdminWriteOrder, TypeOK

\* CompleteSession keeps the type of every variable.
LEMMA CompleteSessionType ==
  ASSUME TypeOK, NEW h \in Handlers, CompleteSession(h)
  PROVE  TypeOK'
<1>1. "noti" \in Labels
  BY DEF Labels
<1>2. req' \in [Handlers -> Request]
  BY <1>1, GotoType DEF CompleteSession
<1>3. group' \in [Groups -> GroupRow]
  BY DEF CompleteSession, TypeOK, GroupRow, GroupStatus
<1> QED
  BY <1>2, <1>3 DEF CompleteSession, TypeOK

\* CancelDeleteBill keeps the type of every variable.
LEMMA CancelDeleteBillType ==
  ASSUME TypeOK, NEW h \in Handlers, CancelDeleteBill(h)
  PROVE  TypeOK'
<1>1. req[h] \in Request
  BY DEF TypeOK
<1>2. \A p \in Labels, b \in BOOLEAN :
        [req[h] EXCEPT !.pc = p, !.failed = b] \in Request
  BY <1>1 DEF Request
<1>3. \A p, q \in Labels : [req[h] EXCEPT !.pc = p, !.ret = q] \in Request
  BY <1>1 DEF Request
<1>4. "cancelOrder" \in Labels /\ "find" \in Labels /\ "noti" \in Labels
  BY DEF Labels
<1>5. (bill[req[h].g].status = "none") \in BOOLEAN
  OBVIOUS
<1>6. req' \in [Handlers -> Request]
  BY <1>2, <1>3, <1>4, <1>5, IdleType, BecomeType DEF CancelDeleteBill
<1>7. bill' \in [Groups -> BillRow]
  BY DEF CancelDeleteBill, TypeOK, NoBill, BillRow
<1> QED
  BY <1>6, <1>7 DEF CancelDeleteBill, TypeOK

\* CancelReopenOrder keeps the type of every variable.
LEMMA CancelReopenOrderType ==
  ASSUME TypeOK, RequestsFit, NEW h \in Handlers, CancelReopenOrder(h)
  PROVE  TypeOK'
<1>1. req[h] \in Request /\ req[h].g \in Groups
  BY SessionFit
     DEF TypeOK, CancelReopenOrder, SessionLabels, OrderLabels, RejectLabels
<1>2. order[req[h].g].table \in Tables \cup {None}
  BY <1>1 DEF TypeOK, OrderRow
<1>3. \A p, q \in Labels, t \in Tables \cup {None} :
        [req[h] EXCEPT !.pc = p, !.ret = q, !.t = t] \in Request
  BY <1>1 DEF Request
<1>4. "cancelBill" \in Labels /\ "find" \in Labels /\ "noti" \in Labels
  BY DEF Labels
<1>5. req' \in [Handlers -> Request]
  BY <1>2, <1>3, <1>4, IdleType, BecomeType DEF CancelReopenOrder
<1>6. order' \in [Groups -> OrderRow]
  BY DEF CancelReopenOrder, TypeOK, OrderRow, OrderStatus
<1> QED
  BY <1>5, <1>6 DEF CancelReopenOrder, TypeOK

\* ExpelReadClient keeps the type of every variable.
LEMMA ExpelReadClientType ==
  ASSUME TypeOK, RequestsFit, RowsFit, NEW h \in Handlers, ExpelReadClient(h)
  PROVE  TypeOK'
<1> DEFINE g == client[req[h].c].group
           kept == Without(group[g].cart, req[h].c)
<1>1. req[h] \in Request /\ req[h].c \in Clients
  BY DEF TypeOK, ExpelReadClient, At, RequestsFit, Fit
<1>2. \A p \in Labels, k \in Groups, c \in Seq(Entry) :
        [req[h] EXCEPT !.pc = p, !.g = k, !.cart = c] \in Request
  BY <1>1 DEF Request
<1>3. "expelCart" \in Labels /\ "expelFoods" \in Labels
  BY DEF Labels
<1>4. CASE HasClient(req[h].c)
  <2>1. g \in Groups
    BY <1>1, <1>4 DEF RowsFit
  <2>2. group[g].cart \in Seq(Entry)
    BY <2>1 DEF TypeOK, GroupRow
  <2>3. kept \in Seq(Entry)
    BY <2>2, WithoutType
  <2>4. req' = [req EXCEPT ![h] = [req[h] EXCEPT
                  !.pc = IF kept # <<>> THEN "expelCart" ELSE "expelFoods",
                  !.g = g, !.cart = kept]]
    BY <1>4 DEF ExpelReadClient
  <2> HIDE DEF kept, g
  <2>5. req' \in [Handlers -> Request]
    BY <1>2, <1>3, <2>1, <2>3, <2>4, BecomeType
  <2> QED
    BY <2>5 DEF ExpelReadClient, rows, TypeOK
<1>5. CASE ~HasClient(req[h].c)
  <2>1. req' \in [Handlers -> Request]
    BY <1>5, AnswerType DEF ExpelReadClient
  <2> QED
    BY <2>1 DEF ExpelReadClient, rows, TypeOK
<1> QED
  BY <1>4, <1>5

\* ExpelWriteCart keeps the type of every variable.
LEMMA ExpelWriteCartType ==
  ASSUME TypeOK, NEW h \in Handlers, ExpelWriteCart(h)
  PROVE  TypeOK'
<1>1. req[h] \in Request
  BY DEF TypeOK
<1>2. \A p \in Labels : [req[h] EXCEPT !.pc = p, !.cart = <<>>] \in Request
  BY <1>1, EmptyCart DEF Request
<1>3. "expelFoods" \in Labels
  BY DEF Labels
<1>4. req' \in [Handlers -> Request]
  BY <1>2, <1>3, BecomeType DEF ExpelWriteCart
<1>5. group' \in [Groups -> GroupRow]
  <2>1. req[h].cart \in Seq(Entry)
    BY <1>1 DEF Request
  <2> QED
    BY <2>1 DEF ExpelWriteCart, TypeOK, GroupRow
<1> QED
  BY <1>4, <1>5 DEF ExpelWriteCart, TypeOK

\* ExpelReadFoods keeps the type of every variable.
LEMMA ExpelReadFoodsType ==
  ASSUME TypeOK, NEW h \in Handlers, ExpelReadFoods(h)
  PROVE  TypeOK'
<1>1. \A p \in Labels, F \in SUBSET Foods :
        [req[h] EXCEPT !.pc = p, !.foods = F] \in Request
  BY PcFoodsType DEF TypeOK
<1>2. "expelFood" \in Labels
  BY DEF Labels
<1>3. FoodsOfClient(req[h].c) \in SUBSET Foods
  BY DEF FoodsOfClient
<1>4. req' \in [Handlers -> Request]
  BY <1>1, <1>2, <1>3, BecomeType DEF ExpelReadFoods
<1> QED
  BY <1>4 DEF ExpelReadFoods, rows, TypeOK

\* ExpelDeleteFood keeps the type of every variable.
LEMMA ExpelDeleteFoodType ==
  ASSUME TypeOK, NEW h \in Handlers, ExpelDeleteFood(h)
  PROVE  TypeOK'
<1>1. PICK f \in req[h].foods :
        /\ food' = IF HasFood(f)
                   THEN [food EXCEPT ![f] = [NoFood EXCEPT !.status = "deleted"]]
                   ELSE food
        /\ req' = [req EXCEPT ![h] =
                     [req[h] EXCEPT !.foods = req[h].foods \ {f},
                                    !.failed = req[h].failed \/ ~HasFood(f)]]
  BY DEF ExpelDeleteFood
<1>2. \A F \in SUBSET Foods, b \in BOOLEAN :
        [req[h] EXCEPT !.foods = F, !.failed = b] \in Request
  BY TickType DEF TypeOK
<1>3. req[h].foods \ {f} \in SUBSET Foods
  BY DEF TypeOK, Request
<1>4. (req[h].failed \/ ~HasFood(f)) \in BOOLEAN
  OBVIOUS
<1>5. req' \in [Handlers -> Request]
  BY <1>1, <1>2, <1>3, <1>4, BecomeType
<1>6. [NoFood EXCEPT !.status = "deleted"] \in FoodRow
  BY DEF NoFood, FoodRow
<1>7. food' \in [Foods -> FoodRow]
  BY <1>1, <1>6 DEF TypeOK
<1> QED
  BY <1>5, <1>7 DEF ExpelDeleteFood, TypeOK

\* ExpelDeleteClient keeps the type of every variable.
LEMMA ExpelDeleteClientType ==
  ASSUME TypeOK, NEW h \in Handlers, ExpelDeleteClient(h)
  PROVE  TypeOK'
<1>1. req' \in [Handlers -> Request]
  BY AnswerType DEF ExpelDeleteClient
<1>2. [NoClient EXCEPT !.status = "deleted"] \in ClientRow
  BY DEF NoClient, ClientRow
<1>3. client' \in [Clients -> ClientRow]
  BY <1>2 DEF ExpelDeleteClient, TypeOK
<1> QED
  BY <1>1, <1>3 DEF ExpelDeleteClient, TypeOK

----------------------------------------------------------------------------
\* The invariant of the requests and the rows.

TypeInv == TypeOK /\ RequestsFit /\ RowsFit

\* A step that replaces one request by one that fits, and removes no session and
\* no order, keeps all requests fit.
LEMMA BecomeFit ==
  ASSUME TypeInv, NEW h \in Handlers, NEW r, req' = [req EXCEPT ![h] = r],
         Existing \subseteq Existing', Ordered \subseteq Ordered',
         Fit(r, Existing', Ordered')
  PROVE  RequestsFit'
<1>1. \A k \in Handlers : Fit(req[k], Existing', Ordered')
  BY DEF TypeInv, RequestsFit, Fit
<1>2. \A k \in Handlers : req'[k] = IF k = h THEN r ELSE req[k]
  BY DEF TypeInv, TypeOK
<1>3. \A k \in Handlers : Fit(req'[k], Existing', Ordered')
  BY <1>1, <1>2
<1> QED
  BY <1>3 DEF RequestsFit

\* A reply leaves requests that fit.
LEMMA AnswerFit ==
  ASSUME TypeInv, NEW h \in Handlers, Answer(h),
         Existing \subseteq Existing', Ordered \subseteq Ordered'
  PROVE  RequestsFit'
<1>1. Fit(Idle, Existing', Ordered')
  BY DEF Fit, Idle, GuestLabels, TableLabels, OrderLabels, RejectLabels,
         SessionLabels
<1> QED
  BY <1>1, BecomeFit DEF Answer

\* Going to a place whose needs the request meets keeps requests fit.
LEMMA GotoFit ==
  ASSUME TypeInv, NEW h \in Handlers, NEW l, Goto(h, l),
         Existing \subseteq Existing', Ordered \subseteq Ordered',
         Fit([req[h] EXCEPT !.pc = l], Existing', Ordered')
  PROVE  RequestsFit'
BY BecomeFit DEF Goto

\* The table is looked up, to notify it.
LEMMA CallFit ==
  ASSUME TypeInv, NEW h \in Handlers, NEW t \in Tables, Call(h, t, "noti"),
         Existing \subseteq Existing', Ordered \subseteq Ordered'
  PROVE  RequestsFit'
<1>1. req[h] \in Request
  BY DEF TypeInv, TypeOK
<1>2. Fit([req[h] EXCEPT !.pc = "find", !.ret = "noti", !.t = t],
          Existing', Ordered')
  BY <1>1
     DEF Request, Fit, ReturnLabels, GuestLabels, TableLabels, OrderLabels,
         RejectLabels, SessionLabels
<1> QED
  BY <1>2, BecomeFit DEF Call

\* A look-up returns, to a place that asks for no session.
LEMMA ReturnFit ==
  ASSUME TypeInv, NEW h \in Handlers, NEW g, NEW cart, Return(h, g, cart),
         req[h].pc \in {"find", "createGroup"},
         Existing \subseteq Existing', Ordered \subseteq Ordered'
  PROVE  RequestsFit'
<1> DEFINE r(c) == [req[h] EXCEPT !.pc = req[h].ret, !.g = g, !.cart = c]
<1>1. req[h] \in Request /\ Fit(req[h], Existing, Ordered)
  BY DEF TypeInv, TypeOK, RequestsFit
<1>2. req[h].ret \in ReturnLabels /\ req[h].t \in Tables
      /\ (req[h].ret = "leaveFoods" => req[h].s \in Sockets)
  BY <1>1 DEF Fit, TableLabels
<1>3. \A c : Fit(r(c), Existing', Ordered')
  BY <1>1, <1>2
     DEF Request, Fit, ReturnLabels, GuestLabels, TableLabels, OrderLabels,
         RejectLabels, SessionLabels
<1> QED
  BY <1>3, BecomeFit DEF Return

\* Steps that write no session, no order and no guest.
LEMMA RowsStay ==
  ASSUME TypeInv, UNCHANGED <<group, order, client>>
  PROVE  /\ RowsFit'
         /\ Existing \subseteq Existing' /\ Ordered \subseteq Ordered'
         /\ Existing' = Existing /\ Ordered' = Ordered
BY DEF TypeInv, RowsFit, Existing, Ordered, HasClient

----------------------------------------------------------------------------
\* Steps that only read, or write carts, food and bills.

\* CheckUsername keeps requests fit and rows referring to rows.
LEMMA CheckUsernameFit ==
  ASSUME TypeInv, NEW h \in Handlers, CheckUsername(h)
  PROVE  RequestsFit' /\ RowsFit'
<1>1. UNCHANGED <<group, order, client>>
  BY DEF CheckUsername, rows
<1>2. RowsFit' /\ Existing' = Existing /\ Ordered' = Ordered
  BY <1>1, RowsStay
<1>3. req[h] \in Request /\ Fit(req[h], Existing, Ordered)
  BY DEF TypeInv, TypeOK, RequestsFit
<1>4. req[h].g # None => Fit([req[h] EXCEPT !.pc = "createClient"], Existing, Ordered)
  BY <1>3
     DEF CheckUsername, Request, Fit, ReturnLabels, GuestLabels, TableLabels,
         OrderLabels, RejectLabels, SessionLabels, At
<1>5. req[h].g # None => Fit([req[h] EXCEPT !.pc = "findClient"], Existing, Ordered)
  BY <1>3
     DEF CheckUsername, Request, Fit, ReturnLabels, GuestLabels, TableLabels,
         OrderLabels, RejectLabels, SessionLabels, At
<1> QED
  BY <1>2, <1>4, <1>5, GotoFit, AnswerFit DEF CheckUsername

\* FindClient keeps requests fit and rows referring to rows.
LEMMA FindClientFit ==
  ASSUME TypeInv, NEW h \in Handlers, FindClient(h)
  PROVE  RequestsFit' /\ RowsFit'
<1>1. UNCHANGED <<group, order, client>>
  BY DEF FindClient, rows
<1>2. RowsFit' /\ Existing' = Existing /\ Ordered' = Ordered
  BY <1>1, RowsStay
<1>3. req[h] \in Request /\ Fit(req[h], Existing, Ordered)
  BY DEF TypeInv, TypeOK, RequestsFit
<1>4. Fit([req[h] EXCEPT !.pc = "createClient"], Existing, Ordered)
  BY <1>3
     DEF FindClient, Request, Fit, ReturnLabels, GuestLabels, TableLabels,
         OrderLabels, RejectLabels, SessionLabels, At
<1>5. Fit([req[h] EXCEPT !.pc = "reconnect"], Existing, Ordered)
  BY <1>3
     DEF FindClient, Request, Fit, ReturnLabels, GuestLabels, TableLabels,
         OrderLabels, RejectLabels, SessionLabels, At
<1> QED
  BY <1>2, <1>4, <1>5, GotoFit DEF FindClient

\* SelectReadBill keeps requests fit and rows referring to rows.
LEMMA SelectReadBillFit ==
  ASSUME TypeInv, NEW h \in Handlers, SelectReadBill(h)
  PROVE  RequestsFit' /\ RowsFit'
<1>1. UNCHANGED <<group, order, client>>
  BY DEF SelectReadBill, rows
<1>2. RowsFit' /\ Existing' = Existing /\ Ordered' = Ordered
  BY <1>1, RowsStay
<1>3. req[h] \in Request /\ Fit(req[h], Existing, Ordered)
  BY DEF TypeInv, TypeOK, RequestsFit
<1>4. Fit([req[h] EXCEPT !.pc = "push"], Existing, Ordered)
  BY <1>3
     DEF SelectReadBill, Request, Fit, ReturnLabels, GuestLabels, TableLabels,
         OrderLabels, RejectLabels, SessionLabels, At
<1> QED
  BY <1>2, <1>4, GotoFit, AnswerFit DEF SelectReadBill

\* DeselectReadBill keeps requests fit and rows referring to rows.
LEMMA DeselectReadBillFit ==
  ASSUME TypeInv, NEW h \in Handlers, DeselectReadBill(h)
  PROVE  RequestsFit' /\ RowsFit'
<1>1. UNCHANGED <<group, order, client>>
  BY DEF DeselectReadBill, rows
<1>2. RowsFit' /\ Existing' = Existing /\ Ordered' = Ordered
  BY <1>1, RowsStay
<1>3. req[h] \in Request /\ Fit(req[h], Existing, Ordered)
  BY DEF TypeInv, TypeOK, RequestsFit
<1>4. Fit([req[h] EXCEPT !.pc = "deselectWrite"], Existing, Ordered)
  BY <1>3
     DEF DeselectReadBill, Request, Fit, ReturnLabels, GuestLabels, TableLabels,
         OrderLabels, RejectLabels, SessionLabels, At
<1> QED
  BY <1>2, <1>4, GotoFit, AnswerFit DEF DeselectReadBill

\* OrderReadGroup keeps requests fit and rows referring to rows.
LEMMA OrderReadGroupFit ==
  ASSUME TypeInv, NEW h \in Handlers, OrderReadGroup(h)
  PROVE  RequestsFit' /\ RowsFit'
<1>1. UNCHANGED <<group, order, client>>
  BY DEF OrderReadGroup, rows
<1>2. RowsFit' /\ Existing' = Existing /\ Ordered' = Ordered
  BY <1>1, RowsStay
<1>3. req[h] \in Request /\ Fit(req[h], Existing, Ordered)
  BY DEF TypeInv, TypeOK, RequestsFit
<1>4. Fit([req[h] EXCEPT !.pc = "insertOrder"], Existing, Ordered)
  BY <1>3
     DEF OrderReadGroup, Request, Fit, ReturnLabels, GuestLabels, TableLabels,
         OrderLabels, RejectLabels, SessionLabels, At
<1> QED
  BY <1>2, <1>4, GotoFit, AnswerFit DEF OrderReadGroup

\* SetBillMethod keeps requests fit and rows referring to rows.
LEMMA SetBillMethodFit ==
  ASSUME TypeInv, NEW h \in Handlers, SetBillMethod(h)
  PROVE  RequestsFit' /\ RowsFit'
<1>1. UNCHANGED <<group, order, client>>
  BY DEF SetBillMethod, rows
<1>2. RowsFit' /\ Existing' = Existing /\ Ordered' = Ordered
  BY <1>1, RowsStay
<1>3. req[h] \in Request /\ Fit(req[h], Existing, Ordered)
  BY DEF TypeInv, TypeOK, RequestsFit
<1>4. Fit([req[h] EXCEPT !.pc = "updateWrite"], Existing, Ordered)
  BY <1>3
     DEF SetBillMethod, Request, Fit, ReturnLabels, GuestLabels, TableLabels,
         OrderLabels, RejectLabels, SessionLabels, At
<1> QED
  BY <1>2, <1>4, GotoFit, AnswerFit DEF SetBillMethod

\* SetBill keeps requests fit and rows referring to rows.
LEMMA SetBillFit ==
  ASSUME TypeInv, NEW h \in Handlers, SetBill(h)
  PROVE  RequestsFit' /\ RowsFit'
<1>1. UNCHANGED <<group, order, client>>
  BY DEF SetBill, rows
<1>2. RowsFit' /\ Existing' = Existing /\ Ordered' = Ordered
  BY <1>1, RowsStay
<1>3. req[h] \in Request /\ Fit(req[h], Existing, Ordered)
  BY DEF TypeInv, TypeOK, RequestsFit
<1>4. \A b : Fit([req[h] EXCEPT !.pc = "adminWrite", !.paid = b],
                Existing, Ordered)
  BY <1>3
     DEF SetBill, Request, Fit, ReturnLabels, GuestLabels, TableLabels,
         OrderLabels, RejectLabels, SessionLabels, At
<1> QED
  BY <1>2, <1>4, BecomeFit, AnswerFit DEF SetBill

\* Notify keeps requests fit and rows referring to rows.
LEMMA NotifyFit ==
  ASSUME TypeInv, NEW h \in Handlers, Notify(h)
  PROVE  RequestsFit' /\ RowsFit'
BY RowsStay, AnswerFit DEF Notify, rows

\* FindSession keeps requests fit and rows referring to rows.
LEMMA FindSessionFit ==
  ASSUME TypeInv, NEW h \in Handlers, FindSession(h)
  PROVE  RequestsFit' /\ RowsFit'
<1>1. UNCHANGED <<group, order, client>> /\ req[h].pc = "find"
  BY DEF FindSession, rows, At
<1>2. RowsFit' /\ Existing' = Existing /\ Ordered' = Ordered
  BY <1>1, RowsStay
<1>3. req[h] \in Request /\ Fit(req[h], Existing, Ordered)
  BY DEF TypeInv, TypeOK, RequestsFit
<1>4. Fit([req[h] EXCEPT !.pc = "createGroup"], Existing, Ordered)
  BY <1>1, <1>3
     DEF Request, Fit, ReturnLabels, GuestLabels, TableLabels, OrderLabels,
         RejectLabels, SessionLabels
<1>5. \/ Goto(h, "createGroup")
      \/ \E g, cart : Return(h, g, cart)
  BY SMTT(30) DEF FindSession
<1> QED
  BY <1>1, <1>2, <1>4, <1>5, GotoFit, ReturnFit

\* RejectReadOrder keeps requests fit and rows referring to rows.
LEMMA RejectReadOrderFit ==
  ASSUME TypeInv, NEW h \in Handlers, RejectReadOrder(h)
  PROVE  RequestsFit' /\ RowsFit'
<1>1. UNCHANGED <<group, order, client>>
  BY DEF RejectReadOrder, rows
<1>2. RowsFit' /\ Existing' = Existing /\ Ordered' = Ordered
  BY <1>1, RowsStay
<1>3. req[h] \in Request /\ Fit(req[h], Existing, Ordered)
  BY DEF TypeInv, TypeOK, RequestsFit
<1>4. \A b \in BOOLEAN :
        (b <=> order[req[h].g].status # "none") =>
        Fit([req[h] EXCEPT !.pc = "rejectFoods", !.flag = b], Existing, Ordered)
  BY <1>3
     DEF RejectReadOrder, Request, Fit, ReturnLabels, GuestLabels, TableLabels,
         OrderLabels, RejectLabels, SessionLabels, At, Ordered, Existing
<1>5. \A b \in BOOLEAN :
        (b <=> order[req[h].g].status # "none") =>
        Fit([req[h] EXCEPT !.pc = "rejectGroup", !.flag = b], Existing, Ordered)
  BY <1>3
     DEF RejectReadOrder, Request, Fit, ReturnLabels, GuestLabels, TableLabels,
         OrderLabels, RejectLabels, SessionLabels, At, Ordered, Existing
<1> QED
  BY <1>2, <1>4, <1>5, BecomeFit, AnswerFit DEF RejectReadOrder

\* RejectReadFoods keeps requests fit and rows referring to rows.
LEMMA RejectReadFoodsFit ==
  ASSUME TypeInv, NEW h \in Handlers, RejectReadFoods(h)
  PROVE  RequestsFit' /\ RowsFit'
<1>1. UNCHANGED <<group, order, client>>
  BY DEF RejectReadFoods, rows
<1>2. RowsFit' /\ Existing' = Existing /\ Ordered' = Ordered
  BY <1>1, RowsStay
<1>3. req[h] \in Request /\ Fit(req[h], Existing, Ordered)
  BY DEF TypeInv, TypeOK, RequestsFit
<1>4. \A F : Fit([req[h] EXCEPT !.pc = "rejectFood", !.foods = F], Existing, Ordered)
  BY <1>3
     DEF RejectReadFoods, Request, Fit, ReturnLabels, GuestLabels, TableLabels,
         OrderLabels, RejectLabels, SessionLabels, At
<1>5. \A F : Fit([req[h] EXCEPT !.pc = "rejectGroup", !.foods = F], Existing, Ordered)
  BY <1>3
     DEF RejectReadFoods, Request, Fit, ReturnLabels, GuestLabels, TableLabels,
         OrderLabels, RejectLabels, SessionLabels, At
<1> QED
  BY <1>2, <1>4, <1>5, BecomeFit, AnswerFit DEF RejectReadFoods

\* RejectFood keeps requests fit and rows referring to rows.
LEMMA RejectFoodFit ==
  ASSUME TypeInv, NEW h \in Handlers, RejectFood(h)
  PROVE  RequestsFit' /\ RowsFit'
<1>1. UNCHANGED <<group, order, client>>
  BY DEF RejectFood, rows
<1>2. RowsFit' /\ Existing' = Existing /\ Ordered' = Ordered
  BY <1>1, RowsStay
<1>3. req[h] \in Request /\ Fit(req[h], Existing, Ordered)
  BY DEF TypeInv, TypeOK, RequestsFit
<1>4. \A F, b : Fit([req[h] EXCEPT !.foods = F, !.failed = b], Existing, Ordered)
  BY <1>3
     DEF RejectFood, Request, Fit, ReturnLabels, GuestLabels, TableLabels,
         OrderLabels, RejectLabels, SessionLabels, At
<1>5. \A F : Fit([req[h] EXCEPT !.pc = "rejectGroup", !.foods = F], Existing, Ordered)
  BY <1>3
     DEF RejectFood, Request, Fit, ReturnLabels, GuestLabels, TableLabels,
         OrderLabels, RejectLabels, SessionLabels, At
<1>6. Fit(Idle, Existing, Ordered)
  BY <1>3
     DEF RejectFood, Request, Fit, ReturnLabels, GuestLabels, TableLabels,
         OrderLabels, RejectLabels, SessionLabels, At, Idle
<1> QED
  BY <1>2, <1>4, <1>5, <1>6, BecomeFit, AnswerFit DEF RejectFood

\* LeaveReadFoods keeps requests fit and rows referring to rows.
LEMMA LeaveReadFoodsFit ==
  ASSUME TypeInv, NEW h \in Handlers, LeaveReadFoods(h)
  PROVE  RequestsFit' /\ RowsFit'
<1>1. UNCHANGED <<group, order, client>>
  BY DEF LeaveReadFoods, rows
<1>2. RowsFit' /\ Existing' = Existing /\ Ordered' = Ordered
  BY <1>1, RowsStay
<1>3. req[h] \in Request /\ Fit(req[h], Existing, Ordered)
  BY DEF TypeInv, TypeOK, RequestsFit
<1>4. \A c : Fit([req[h] EXCEPT !.pc = "deleteClient", !.c = c], Existing, Ordered)
  BY <1>3
     DEF LeaveReadFoods, Request, Fit, ReturnLabels, GuestLabels, TableLabels,
         OrderLabels, RejectLabels, SessionLabels, At
<1> QED
  BY <1>2, <1>4, BecomeFit, AnswerFit DEF LeaveReadFoods

\* FoodWrite keeps requests fit and rows referring to rows.
LEMMA FoodWriteFit ==
  ASSUME TypeInv, NEW h \in Handlers, FoodWrite(h)
  PROVE  RequestsFit' /\ RowsFit'
<1>1. UNCHANGED <<group, order, client>>
  BY DEF FoodWrite, rows
<1>2. RowsFit' /\ Existing' = Existing /\ Ordered' = Ordered
  BY <1>1, RowsStay
<1>3. req[h] \in Request /\ Fit(req[h], Existing, Ordered)
  BY DEF TypeInv, TypeOK, RequestsFit
<1>4. Fit([req[h] EXCEPT !.pc = "adminRead", !.foods = {}], Existing, Ordered)
  BY <1>3
     DEF FoodWrite, Request, Fit, ReturnLabels, GuestLabels, TableLabels,
         OrderLabels, RejectLabels, SessionLabels, At
<1> QED
  BY <1>2, <1>4, BecomeFit, AnswerFit DEF FoodWrite

\* AdminReadOrder keeps requests fit and rows referring to rows.
LEMMA AdminReadOrderFit ==
  ASSUME TypeInv, NEW h \in Handlers, AdminReadOrder(h)
  PROVE  RequestsFit' /\ RowsFit'
<1>1. UNCHANGED <<group, order, client>>
  BY DEF AdminReadOrder, rows
<1>2. RowsFit' /\ Existing' = Existing /\ Ordered' = Ordered
  BY <1>1, RowsStay
<1>3. req[h] \in Request /\ Fit(req[h], Existing, Ordered)
  BY DEF TypeInv, TypeOK, RequestsFit
<1>4. \A b, F : Fit([req[h] EXCEPT !.pc = AfterLists(req[h].dto), !.flag = b,
              !.foods = F], Existing, Ordered)
  BY <1>3
     DEF AdminReadOrder, Request, Fit, ReturnLabels, GuestLabels, TableLabels,
         OrderLabels, RejectLabels, SessionLabels, At, AfterLists
<1> QED
  BY <1>2, <1>4, BecomeFit, AnswerFit DEF AdminReadOrder

\* CreateBill keeps requests fit and rows referring to rows.
LEMMA CreateBillFit ==
  ASSUME TypeInv, NEW h \in Handlers, CreateBill(h)
  PROVE  RequestsFit' /\ RowsFit'
<1>1. UNCHANGED <<group, order, client>>
  BY DEF CreateBill, rows
<1>2. RowsFit' /\ Existing' = Existing /\ Ordered' = Ordered
  BY <1>1, RowsStay
<1>3. req[h] \in Request /\ Fit(req[h], Existing, Ordered)
  BY DEF TypeInv, TypeOK, RequestsFit
<1>4. req[h].dto.bill # None =>
        Fit([req[h] EXCEPT !.pc = "setBill", !.foods = {}], Existing, Ordered)
  BY <1>3
     DEF CreateBill, Request, Fit, ReturnLabels, GuestLabels, TableLabels,
         OrderLabels, RejectLabels, SessionLabels, At
<1>5. Fit([req[h] EXCEPT !.pc = "adminWrite", !.foods = {}], Existing, Ordered)
  BY <1>3
     DEF CreateBill, Request, Fit, ReturnLabels, GuestLabels, TableLabels,
         OrderLabels, RejectLabels, SessionLabels, At
<1> QED
  BY <1>2, <1>4, <1>5, BecomeFit, AnswerFit DEF CreateBill

\* CancelDeleteBill keeps requests fit and rows referring to rows.
LEMMA CancelDeleteBillFit ==
  ASSUME TypeInv, NEW h \in Handlers, CancelDeleteBill(h)
  PROVE  RequestsFit' /\ RowsFit'
<1>1. UNCHANGED <<group, order, client>>
  BY DEF CancelDeleteBill, rows
<1>2. RowsFit' /\ Existing' = Existing /\ Ordered' = Ordered
  BY <1>1, RowsStay
<1>3. req[h] \in Request /\ Fit(req[h], Existing, Ordered)
  BY DEF TypeInv, TypeOK, RequestsFit
<1>4. \A b : req[h].pc = "cancel" =>
        Fit([req[h] EXCEPT !.pc = "cancelOrder", !.failed = b], Existing, Ordered)
  BY <1>3
     DEF CancelDeleteBill, Request, Fit, ReturnLabels, GuestLabels, TableLabels,
         OrderLabels, RejectLabels, SessionLabels, At
<1>5. req[h].pc # "cancel" =>
        Fit([req[h] EXCEPT !.pc = "find", !.ret = "noti"], Existing, Ordered)
  BY <1>3
     DEF CancelDeleteBill, Request, Fit, ReturnLabels, GuestLabels, TableLabels,
         OrderLabels, RejectLabels, SessionLabels, At
<1>6. Fit(Idle, Existing, Ordered)
  BY <1>3
     DEF CancelDeleteBill, Request, Fit, ReturnLabels, GuestLabels, TableLabels,
         OrderLabels, RejectLabels, SessionLabels, At, Idle
<1> QED
  BY <1>2, <1>4, <1>5, <1>6, BecomeFit, AnswerFit DEF CancelDeleteBill

\* ExpelReadFoods keeps requests fit and rows referring to rows.
LEMMA ExpelReadFoodsFit ==
  ASSUME TypeInv, NEW h \in Handlers, ExpelReadFoods(h)
  PROVE  RequestsFit' /\ RowsFit'
<1>1. UNCHANGED <<group, order, client>>
  BY DEF ExpelReadFoods, rows
<1>2. RowsFit' /\ Existing' = Existing /\ Ordered' = Ordered
  BY <1>1, RowsStay
<1>3. req[h] \in Request /\ Fit(req[h], Existing, Ordered)
  BY DEF TypeInv, TypeOK, RequestsFit
<1>4. \A F : Fit([req[h] EXCEPT !.pc = "expelFood", !.foods = F], Existing, Ordered)
  BY <1>3
     DEF ExpelReadFoods, Request, Fit, ReturnLabels, GuestLabels, TableLabels,
         OrderLabels, RejectLabels, SessionLabels, At
<1> QED
  BY <1>2, <1>4, BecomeFit, AnswerFit DEF ExpelReadFoods

\* ExpelDeleteFood keeps requests fit and rows referring to rows.
LEMMA ExpelDeleteFoodFit ==
  ASSUME TypeInv, NEW h \in Handlers, ExpelDeleteFood(h)
  PROVE  RequestsFit' /\ RowsFit'
<1>1. UNCHANGED <<group, order, client>>
  BY DEF ExpelDeleteFood, rows
<1>2. RowsFit' /\ Existing' = Existing /\ Ordered' = Ordered
  BY <1>1, RowsStay
<1>3. req[h] \in Request /\ Fit(req[h], Existing, Ordered)
  BY DEF TypeInv, TypeOK, RequestsFit
<1>4. \A F, b : Fit([req[h] EXCEPT !.foods = F, !.failed = b], Existing, Ordered)
  BY <1>3
     DEF ExpelDeleteFood, Request, Fit, ReturnLabels, GuestLabels, TableLabels,
         OrderLabels, RejectLabels, SessionLabels, At
<1>5. PICK F, b : req' = [req EXCEPT ![h] = [req[h] EXCEPT !.foods = F,
                                                         !.failed = b]]
  BY DEF ExpelDeleteFood
<1> QED
  BY <1>2, <1>4, <1>5, BecomeFit

\* ExpelReadClient keeps requests fit and rows referring to rows.
LEMMA ExpelReadClientFit ==
  ASSUME TypeInv, NEW h \in Handlers, ExpelReadClient(h)
  PROVE  RequestsFit' /\ RowsFit'
<1>1. UNCHANGED <<group, order, client>>
  BY DEF ExpelReadClient, rows
<1>2. RowsFit' /\ Existing' = Existing /\ Ordered' = Ordered
  BY <1>1, RowsStay
<1>3. req[h] \in Request /\ Fit(req[h], Existing, Ordered)
  BY DEF TypeInv, TypeOK, RequestsFit
<1>4. \A g, k : Fit([req[h] EXCEPT !.pc = "expelCart", !.g = g, !.cart = k], Existing, Ordered)
  BY <1>3
     DEF ExpelReadClient, Request, Fit, ReturnLabels, GuestLabels, TableLabels,
         OrderLabels, RejectLabels, SessionLabels, At
<1>5. \A g, k : Fit([req[h] EXCEPT !.pc = "expelFoods", !.g = g, !.cart = k], Existing, Ordered)
  BY <1>3
     DEF ExpelReadClient, Request, Fit, ReturnLabels, GuestLabels, TableLabels,
         OrderLabels, RejectLabels, SessionLabels, At
<1> QED
  BY <1>2, <1>4, <1>5, BecomeFit, AnswerFit DEF ExpelReadClient

----------------------------------------------------------------------------
\* Arrivals: the request that a message becomes fits.

\* A message that becomes a request that fits keeps all requests fit.
LEMMA AcceptFit ==
  ASSUME TypeInv, NEW h \in Handlers, NEW kind, NEW r, Accept(h, kind, r),
         UNCHANGED <<group, order, client>>, Fit(r, Existing, Ordered)
  PROVE  RequestsFit' /\ RowsFit'
BY BecomeFit, RowsStay DEF Accept

\* JoinTable keeps requests fit and rows referring to rows.
LEMMA JoinTableFit ==
  ASSUME TypeInv, NEW h \in Handlers, JoinTable(h)
  PROVE  RequestsFit' /\ RowsFit'
<1>1. PICK s \in Sockets, t \in ActiveTables, n \in Names,
           c \in {None} \cup {k \in Clients : client[k].status # "none"} :
        Accept(h, "join", [Idle EXCEPT !.pc = "find", !.ret = "checkName",
                                       !.s = s, !.t = t, !.name = n, !.c = c])
  BY DEF JoinTable
<1>2. Fit([Idle EXCEPT !.pc = "find", !.ret = "checkName", !.s = s, !.t = t,
                       !.name = n, !.c = c], Existing, Ordered)
  BY InputAssumption
     DEF Fit, Idle, ReturnLabels, GuestLabels, TableLabels, OrderLabels,
         RejectLabels, SessionLabels
<1> QED
  BY <1>1, <1>2, AcceptFit DEF JoinTable, rows

\* LeaveTable keeps requests fit and rows referring to rows.
LEMMA LeaveTableFit ==
  ASSUME TypeInv, NEW h \in Handlers, LeaveTable(h)
  PROVE  RequestsFit' /\ RowsFit'
<1>1. PICK s \in Sockets :
        /\ socket[s].room # None
        /\ Accept(h, "leave", [Idle EXCEPT !.pc = "find", !.ret = "leaveFoods",
                                           !.s = s, !.t = socket[s].room])
  BY DEF LeaveTable
<1>2. socket[s].room \in Tables
  BY <1>1 DEF TypeInv, TypeOK, Connection
<1>3. Fit([Idle EXCEPT !.pc = "find", !.ret = "leaveFoods", !.s = s,
                       !.t = socket[s].room], Existing, Ordered)
  BY <1>2
     DEF Fit, Idle, ReturnLabels, GuestLabels, TableLabels, OrderLabels,
         RejectLabels, SessionLabels
<1> QED
  BY <1>1, <1>3, AcceptFit DEF LeaveTable, rows

\* Disconnect keeps requests fit and rows referring to rows.
LEMMA DisconnectFit ==
  ASSUME TypeInv, NEW h \in Handlers, Disconnect(h)
  PROVE  RequestsFit' /\ RowsFit'
<1>1. PICK t, c : Accept(h, "disconnect", [Idle EXCEPT !.pc = "offline",
                                                       !.ret = "noti",
                                                       !.t = t, !.c = c])
  BY DEF Disconnect
<1>2. Fit([Idle EXCEPT !.pc = "offline", !.ret = "noti", !.t = t, !.c = c],
          Existing, Ordered)
  BY DEF Fit, Idle, ReturnLabels, GuestLabels, TableLabels, OrderLabels,
         RejectLabels, SessionLabels
<1> QED
  BY <1>1, <1>2, AcceptFit DEF Disconnect, rows

\* SelectFood keeps requests fit and rows referring to rows.
LEMMA SelectFoodFit ==
  ASSUME TypeInv, NEW h \in Handlers, SelectFood(h)
  PROVE  RequestsFit' /\ RowsFit'
<1>1. PICK s \in Sockets :
        /\ socket[s].room # None
        /\ Accept(h, "select", [Idle EXCEPT !.pc = "find", !.ret = "selectBill",
                                            !.t = socket[s].room,
                                            !.c = socket[s].user])
  BY DEF SelectFood
<1>2. socket[s].room \in Tables
  BY <1>1 DEF TypeInv, TypeOK, Connection
<1>3. Fit([Idle EXCEPT !.pc = "find", !.ret = "selectBill",
                       !.t = socket[s].room, !.c = socket[s].user],
          Existing, Ordered)
  BY <1>2
     DEF Fit, Idle, ReturnLabels, GuestLabels, TableLabels, OrderLabels,
         RejectLabels, SessionLabels
<1> QED
  BY <1>1, <1>3, AcceptFit DEF SelectFood, rows

\* DeselectFood keeps requests fit and rows referring to rows.
LEMMA DeselectFoodFit ==
  ASSUME TypeInv, NEW h \in Handlers, DeselectFood(h)
  PROVE  RequestsFit' /\ RowsFit'
<1>1. PICK s \in Sockets, i \in Items :
        /\ socket[s].room # None
        /\ Accept(h, "deselect", [Idle EXCEPT !.pc = "find",
                                              !.ret = "deselectBill",
                                              !.t = socket[s].room, !.item = i])
  BY DEF DeselectFood
<1>2. socket[s].room \in Tables
  BY <1>1 DEF TypeInv, TypeOK, Connection
<1>3. Fit([Idle EXCEPT !.pc = "find", !.ret = "deselectBill",
                       !.t = socket[s].room, !.item = i], Existing, Ordered)
  BY <1>2
     DEF Fit, Idle, ReturnLabels, GuestLabels, TableLabels, OrderLabels,
         RejectLabels, SessionLabels
<1> QED
  BY <1>1, <1>3, AcceptFit DEF DeselectFood, rows

\* CreateOrder keeps requests fit and rows referring to rows.
LEMMA CreateOrderFit ==
  ASSUME TypeInv, NEW h \in Handlers, CreateOrder(h)
  PROVE  RequestsFit' /\ RowsFit'
<1>1. PICK s \in Sockets, g \in Existing :
        /\ socket[s].room # None
        /\ \E list \in OrderLists(g) :
             Accept(h, "create",
               [Idle EXCEPT !.pc = "orderGroup", !.t = socket[s].room, !.g = g,
                            !.cart = list,
                            !.flag = OpenOrders(socket[s].room) # {}])
  BY DEF CreateOrder
<1>2. socket[s].room \in Tables
  BY <1>1 DEF TypeInv, TypeOK, Connection
<1>3. \A k, b : Fit([Idle EXCEPT !.pc = "orderGroup", !.t = socket[s].room,
                                 !.g = g, !.cart = k, !.flag = b],
                    Existing, Ordered)
  BY <1>2
     DEF Fit, Idle, ReturnLabels, GuestLabels, TableLabels, OrderLabels,
         RejectLabels, SessionLabels
<1> QED
  BY <1>1, <1>3, AcceptFit DEF CreateOrder, rows

\* UpdateOrder keeps requests fit and rows referring to rows.
LEMMA UpdateOrderFit ==
  ASSUME TypeInv, NEW h \in Handlers, UpdateOrder(h)
  PROVE  RequestsFit' /\ RowsFit'
<1>1. PICK s \in Sockets, g \in Existing, method \in BOOLEAN :
        /\ socket[s].room # None
        /\ order[g].status \notin {"none", "CANCEL"}
        /\ \E list \in OrderLists(g) \cup {<<>>} :
             Accept(h, "update",
               [Idle EXCEPT !.pc = IF method /\ bill[g].status # "none"
                                   THEN "setMethod" ELSE "updateWrite",
                            !.t = socket[s].room, !.g = g, !.cart = list])
  BY DEF UpdateOrder
<1>2. socket[s].room \in Tables /\ g \in Ordered
  BY <1>1 DEF TypeInv, TypeOK, Connection, Ordered, Existing
<1>3. \A p \in {"setMethod", "updateWrite"} : \A k :
        Fit([Idle EXCEPT !.pc = p, !.t = socket[s].room, !.g = g, !.cart = k],
            Existing, Ordered)
  BY <1>2
     DEF Fit, Idle, ReturnLabels, GuestLabels, TableLabels, OrderLabels,
         RejectLabels, SessionLabels
<1> QED
  BY <1>1, <1>3, AcceptFit DEF UpdateOrder, rows

\* AdminUpdateClientOrder keeps requests fit and rows referring to rows.
LEMMA AdminUpdateClientOrderFit ==
  ASSUME TypeInv, NEW h \in Handlers, AdminUpdateClientOrder(h)
  PROVE  RequestsFit' /\ RowsFit'
<1>1. PICK g \in {k \in Groups : order[k].status # "none"}, d \in AdminDtos :
      \E F \in IF d.food = None THEN {{}} ELSE {{f} : f \in FoodsOfOrder(g)} :
        Accept(h, "admin",
          [Idle EXCEPT !.g = g, !.dto = d, !.foods = F,
                       !.pc = IF d.bill = "CANCEL" THEN "cancel"
                              ELSE IF F # {} THEN "foodWrite"
                              ELSE "adminRead"])
  BY DEF AdminUpdateClientOrder
<1>2. PICK F : /\ F # {} => d.food # None
               /\ Accept(h, "admin",
                    [Idle EXCEPT !.g = g, !.dto = d, !.foods = F,
                                 !.pc = IF d.bill = "CANCEL" THEN "cancel"
                                        ELSE IF F # {} THEN "foodWrite"
                                        ELSE "adminRead"])
  BY <1>1
<1>3. g \in Ordered /\ g \in Existing
  BY DEF TypeInv, RowsFit, Ordered
<1>4. \A p \in {"cancel", "foodWrite", "adminRead"} :
        (p = "foodWrite" => d.food # None) =>
        Fit([Idle EXCEPT !.g = g, !.dto = d, !.foods = F, !.pc = p],
            Existing, Ordered)
  BY <1>3
     DEF Fit, Idle, ReturnLabels, GuestLabels, TableLabels, OrderLabels,
         RejectLabels, SessionLabels
<1> QED
  BY <1>2, <1>4, AcceptFit DEF AdminUpdateClientOrder, rows

\* AdminDeleteClientList keeps requests fit and rows referring to rows.
LEMMA AdminDeleteClientListFit ==
  ASSUME TypeInv, NEW h \in Handlers, AdminDeleteClientList(h)
  PROVE  RequestsFit' /\ RowsFit'
<1>1. PICK g \in Ordered, d \in AdminDtos, c \in Clients, task \in Handlers :
        req' = [req EXCEPT
                  ![h] = [Idle EXCEPT !.pc = "adminRead", !.g = g, !.dto = d],
                  ![task] = [Idle EXCEPT !.pc = "expelRead", !.c = c]]
  BY DEF AdminDeleteClientList, Ordered
<1>2. UNCHANGED <<group, order, client>>
  BY DEF AdminDeleteClientList, rows
<1>3. RowsFit' /\ Existing' = Existing /\ Ordered' = Ordered
  BY <1>2, RowsStay
<1>4. g \in Existing
  BY DEF TypeInv, RowsFit
<1>5. Fit([Idle EXCEPT !.pc = "adminRead", !.g = g, !.dto = d], Existing, Ordered)
  BY <1>4
     DEF Fit, Idle, ReturnLabels, GuestLabels, TableLabels, OrderLabels,
         RejectLabels, SessionLabels
<1>6. Fit([Idle EXCEPT !.pc = "expelRead", !.c = c], Existing, Ordered)
  BY DEF Fit, Idle, ReturnLabels, GuestLabels, TableLabels, OrderLabels,
         RejectLabels, SessionLabels
<1>7. \A k \in Handlers : Fit(req'[k], Existing, Ordered)
  BY <1>1, <1>5, <1>6 DEF TypeInv, TypeOK, RequestsFit
<1> QED
  BY <1>3, <1>7 DEF RequestsFit

\* DeleteClientIdInFoodOrder keeps requests fit and rows referring to rows.
LEMMA DeleteClientIdFit ==
  ASSUME TypeInv, NEW h \in Handlers, DeleteClientIdInFoodOrder(h)
  PROVE  RequestsFit' /\ RowsFit'
<1>1. PICK c \in Clients :
        Accept(h, "expel", [Idle EXCEPT !.pc = "expelRead", !.c = c])
  BY DEF DeleteClientIdInFoodOrder
<1>2. Fit([Idle EXCEPT !.pc = "expelRead", !.c = c], Existing, Ordered)
  BY DEF Fit, Idle, ReturnLabels, GuestLabels, TableLabels, OrderLabels,
         RejectLabels, SessionLabels
<1> QED
  BY <1>1, <1>2, AcceptFit DEF DeleteClientIdInFoodOrder, rows

\* ClearTable keeps requests fit and rows referring to rows.
LEMMA ClearTableFit ==
  ASSUME TypeInv, NEW h \in Handlers, ClearTable(h)
  PROVE  RequestsFit' /\ RowsFit'
<1>1. PICK g \in Existing :
        Accept(h, "reject", [Idle EXCEPT !.pc = "rejectOrder", !.g = g])
  BY DEF ClearTable, InProgress, Existing
<1>2. Fit([Idle EXCEPT !.pc = "rejectOrder", !.g = g], Existing, Ordered)
  BY DEF Fit, Idle, ReturnLabels, GuestLabels, TableLabels, OrderLabels,
         RejectLabels, SessionLabels
<1> QED
  BY <1>1, <1>2, AcceptFit DEF ClearTable, rows

----------------------------------------------------------------------------
\* Steps that write a session, an order or a guest.

\* A write of a cart keeps the references between rows.
LEMMA CartWrite ==
  ASSUME TypeInv, NEW g, NEW k, group' = [group EXCEPT ![g].cart = k],
         UNCHANGED <<order, client>>
  PROVE  RowsFit' /\ Existing' = Existing /\ Ordered' = Ordered
<1>1. \A x \in Groups : /\ group'[x].status = group[x].status
                        /\ group'[x].table = group[x].table
  BY DEF TypeInv, TypeOK, GroupRow
<1>2. Existing' = Existing /\ Ordered' = Ordered
  BY <1>1 DEF Existing, Ordered
<1> QED
  BY <1>1, <1>2 DEF TypeInv, RowsFit, Existing, HasClient

\* A write of a session's status keeps the sessions and their tables.
LEMMA StatusWrite ==
  ASSUME TypeInv, NEW g \in Existing, NEW x, x # "none",
         group' = [group EXCEPT ![g].status = x]
  PROVE  /\ Existing' = Existing
         /\ \A k \in Existing : group'[k].table \in Tables
<1>1. \A k \in Groups : /\ (group'[k].status = "none") <=> (group[k].status = "none")
                        /\ group'[k].table = group[k].table
  BY DEF TypeInv, TypeOK, GroupRow, Existing
<1> QED
  BY <1>1 DEF TypeInv, RowsFit, Existing

\* A write of an order of an existing session adds at most that order.
LEMMA OrderWrite ==
  ASSUME TypeInv, NEW g \in Existing,
         NEW r, r.status # "none", r.table \in Tables,
         order' = [order EXCEPT ![g] = r]
  PROVE  /\ Ordered' = Ordered \cup {g}
         /\ \A k \in Ordered' : order'[k].table \in Tables
<1>1. \A k \in Groups : order'[k] = IF k = g THEN r ELSE order[k]
  BY DEF TypeInv, TypeOK
<1>2. g \in Groups
  BY DEF Existing
<1> QED
  BY <1>1, <1>2 DEF TypeInv, RowsFit, Ordered

\* A write of guests that keeps their sessions keeps the references.
LEMMA ClientWrite ==
  ASSUME TypeInv, UNCHANGED <<group, order>>,
         \A k \in Clients : HasClient(k)' => client'[k].group \in Groups
  PROVE  RowsFit' /\ Existing' = Existing /\ Ordered' = Ordered
BY DEF TypeInv, RowsFit, Existing, Ordered

\* CreateSession keeps requests fit and rows referring to rows.
LEMMA CreateSessionFit ==
  ASSUME TypeInv, NEW h \in Handlers, CreateSession(h)
  PROVE  RequestsFit' /\ RowsFit'
<1>1. PICK g \in Groups :
        /\ g \notin Existing
        /\ group' = [group EXCEPT ![g] = NewSession(req[h].t)]
        /\ Return(h, g, <<>>)
  BY DEF CreateSession, Pick
<1>2. req[h].pc = "createGroup" /\ UNCHANGED <<order, client>>
  BY DEF CreateSession, At
<1>3. req[h].t \in Tables
  BY <1>2 DEF TypeInv, RequestsFit, Fit, TableLabels
<1>4. \A k \in Groups :
        group'[k] = IF k = g THEN NewSession(req[h].t) ELSE group[k]
  BY <1>1 DEF TypeInv, TypeOK
<1>7. /\ NewSession(req[h].t).status = "IN_PROGRESS"
      /\ NewSession(req[h].t).table = req[h].t
  BY DEF NewSession, NoGroup
<1>5. Existing' = Existing \cup {g} /\ Ordered' = Ordered
  BY <1>1, <1>2, <1>4, <1>7 DEF Existing, Ordered
<1>6. RowsFit'
  BY <1>2, <1>3, <1>4, <1>5, <1>7 DEF TypeInv, RowsFit, HasClient, Existing, Ordered
<1> QED
  BY <1>1, <1>2, <1>5, <1>6, ReturnFit

\* SelectPush keeps requests fit and rows referring to rows.
LEMMA SelectPushFit ==
  ASSUME TypeInv, NEW h \in Handlers, SelectPush(h)
  PROVE  RequestsFit' /\ RowsFit'
<1>1. PICK g, k : group' = [group EXCEPT ![g].cart = k]
  BY DEF SelectPush
<1>2. RowsFit' /\ Existing' = Existing /\ Ordered' = Ordered
  BY <1>1, CartWrite DEF SelectPush
<1>3. req[h] \in Request /\ Fit(req[h], Existing, Ordered)
  BY DEF TypeInv, TypeOK, RequestsFit
<1>4. Fit([req[h] EXCEPT !.pc = "noti"], Existing, Ordered)
  BY <1>3
     DEF Request, Fit, ReturnLabels, GuestLabels, TableLabels, OrderLabels,
         RejectLabels, SessionLabels
<1> QED
  BY <1>2, <1>4, GotoFit DEF SelectPush

\* DeselectWrite keeps requests fit and rows referring to rows.
LEMMA DeselectWriteFit ==
  ASSUME TypeInv, NEW h \in Handlers, DeselectWrite(h)
  PROVE  RequestsFit' /\ RowsFit'
<1>1. PICK g, k : group' = [group EXCEPT ![g].cart = k]
  BY DEF DeselectWrite
<1>2. RowsFit' /\ Existing' = Existing /\ Ordered' = Ordered
  BY <1>1, CartWrite DEF DeselectWrite
<1>3. req[h] \in Request /\ Fit(req[h], Existing, Ordered)
  BY DEF TypeInv, TypeOK, RequestsFit
<1>4. Fit([req[h] EXCEPT !.pc = "noti", !.cart = <<>>, !.item = None],
          Existing, Ordered)
  BY <1>3
     DEF Request, Fit, ReturnLabels, GuestLabels, TableLabels, OrderLabels,
         RejectLabels, SessionLabels
<1> QED
  BY <1>2, <1>4, BecomeFit, AnswerFit DEF DeselectWrite

\* ClearCart keeps requests fit and rows referring to rows.
LEMMA ClearCartFit ==
  ASSUME TypeInv, NEW h \in Handlers, ClearCart(h)
  PROVE  RequestsFit' /\ RowsFit'
<1>1. RowsFit' /\ Existing' = Existing /\ Ordered' = Ordered
  BY CartWrite DEF ClearCart
<1>2. req[h] \in Request /\ Fit(req[h], Existing, Ordered)
  BY DEF TypeInv, TypeOK, RequestsFit
<1>3. Fit([req[h] EXCEPT !.pc = "noti"], Existing, Ordered)
  BY <1>2
     DEF Request, Fit, ReturnLabels, GuestLabels, TableLabels, OrderLabels,
         RejectLabels, SessionLabels
<1> QED
  BY <1>1, <1>3, GotoFit DEF ClearCart

\* ExpelWriteCart keeps requests fit and rows referring to rows.
LEMMA ExpelWriteCartFit ==
  ASSUME TypeInv, NEW h \in Handlers, ExpelWriteCart(h)
  PROVE  RequestsFit' /\ RowsFit'
<1>1. RowsFit' /\ Existing' = Existing /\ Ordered' = Ordered
  BY CartWrite DEF ExpelWriteCart
<1>2. req[h] \in Request /\ Fit(req[h], Existing, Ordered)
  BY DEF TypeInv, TypeOK, RequestsFit
<1>3. Fit([req[h] EXCEPT !.pc = "expelFoods", !.cart = <<>>], Existing, Ordered)
  BY <1>2
     DEF Request, Fit, ReturnLabels, GuestLabels, TableLabels, OrderLabels,
         RejectLabels, SessionLabels
<1> QED
  BY <1>1, <1>3, BecomeFit DEF ExpelWriteCart

\* CompleteSession keeps requests fit and rows referring to rows.
LEMMA CompleteSessionFit ==
  ASSUME TypeInv, NEW h \in Handlers, CompleteSession(h)
  PROVE  RequestsFit' /\ RowsFit'
<1>1. req[h] \in Request /\ Fit(req[h], Existing, Ordered) /\ req[h].g \in Existing
  BY SessionFit
     DEF TypeInv, TypeOK, RequestsFit, CompleteSession, At, SessionLabels,
         OrderLabels, RejectLabels
<1>2. Existing' = Existing /\ \A k \in Existing : group'[k].table \in Tables
  BY <1>1, StatusWrite DEF CompleteSession
<1>3. UNCHANGED <<order, client>>
  BY DEF CompleteSession
<1>4. Ordered' = Ordered
  BY <1>3 DEF Ordered
<1>5. RowsFit'
  BY <1>2, <1>3, <1>4 DEF TypeInv, RowsFit, HasClient
<1>6. Fit([req[h] EXCEPT !.pc = "noti"], Existing, Ordered)
  BY <1>1
     DEF Request, Fit, ReturnLabels, GuestLabels, TableLabels, OrderLabels,
         RejectLabels, SessionLabels
<1> QED
  BY <1>2, <1>4, <1>5, <1>6, GotoFit DEF CompleteSession

\* WsClearTable keeps requests fit and rows referring to rows.
LEMMA WsClearTableFit ==
  ASSUME TypeInv, NEW h \in Handlers, WsClearTable(h)
  PROVE  RequestsFit' /\ RowsFit'
<1>1. PICK g \in Existing, x \in ClearStatuses :
        group' = [group EXCEPT ![g].status = x,
                               ![g].reopened = @ \/ (x = "IN_PROGRESS" /\
                                             group[g].status # "IN_PROGRESS")]
  BY DEF WsClearTable
<1>2. x # "none"
  BY InputAssumption DEF GroupStatus
<1>7. \A k \in Groups :
        /\ group'[k].table = group[k].table
        /\ group'[k].status = IF k = g THEN x ELSE group[k].status
  BY <1>1 DEF TypeInv, TypeOK, GroupRow
<1>3. Existing' = Existing /\ \A k \in Existing : group'[k].table \in Tables
  BY <1>2, <1>7 DEF TypeInv, RowsFit, Existing
<1>4. UNCHANGED <<order, client>> /\ Answer(h)
  BY DEF WsClearTable, Accept, Answer
<1>5. Ordered' = Ordered
  BY <1>4 DEF Ordered
<1>6. RowsFit'
  BY <1>3, <1>4, <1>5 DEF TypeInv, RowsFit, HasClient
<1> QED
  BY <1>3, <1>4, <1>5, <1>6, AnswerFit

\* RejectSession keeps requests fit and rows referring to rows.
LEMMA RejectSessionFit ==
  ASSUME TypeInv, NEW h \in Handlers, RejectSession(h)
  PROVE  RequestsFit' /\ RowsFit'
<1> DEFINE g == req[h].g
<1>1. g \in Existing /\ g \in Groups
  BY SessionFit DEF TypeInv, RejectSession, At, SessionLabels, RejectLabels
<1>2. Existing' = Existing /\ \A k \in Existing : group'[k].table \in Tables
  BY <1>1, StatusWrite DEF RejectSession
<1>3. UNCHANGED client /\ Answer(h)
  BY DEF RejectSession
<1>4. CASE req[h].flag
  <2>1. g \in Ordered
    BY <1>4 DEF TypeInv, RejectSession, At, RequestsFit, Fit, RejectLabels
  <2>2. \A k \in Groups : /\ order'[k].table = order[k].table
                          /\ k # g => order'[k].status = order[k].status
                          /\ k = g => order'[k].status = "CANCEL"
    BY <1>4 DEF RejectSession, TypeInv, TypeOK, OrderRow
  <2>3. Ordered' = Ordered
    BY <2>1, <2>2 DEF Ordered
  <2>4. RowsFit'
    BY <1>2, <1>3, <2>2, <2>3 DEF TypeInv, RowsFit, HasClient, Ordered
  <2> QED
    BY <1>2, <1>3, <2>3, <2>4, AnswerFit
<1>5. CASE ~req[h].flag
  <2>1. order' = order
    BY <1>5 DEF RejectSession
  <2>2. Ordered' = Ordered
    BY <2>1 DEF Ordered
  <2>3. RowsFit'
    BY <1>2, <1>3, <2>1, <2>2 DEF TypeInv, RowsFit, HasClient
  <2> QED
    BY <1>2, <1>3, <2>2, <2>3, AnswerFit
<1> QED
  BY <1>4, <1>5

\* InsertOrder keeps requests fit and rows referring to rows.
LEMMA InsertOrderFit ==
  ASSUME TypeInv, NEW h \in Handlers, InsertOrder(h)
  PROVE  RequestsFit' /\ RowsFit'
<1> DEFINE g == req[h].g
<1>1. req[h] \in Request /\ Fit(req[h], Existing, Ordered)
      /\ req[h].pc = "insertOrder" /\ UNCHANGED <<group, client>>
  BY DEF TypeInv, TypeOK, RequestsFit, InsertOrder, At
<1>2. g \in Existing /\ req[h].t \in Tables
  BY <1>1 DEF Fit, SessionLabels, TableLabels
<1>3. Existing' = Existing
  BY <1>1 DEF Existing
<1>4. CASE order[g].status # "none"
  BY <1>1, <1>4, RowsStay, AnswerFit DEF InsertOrder
<1>5. CASE order[g].status = "none"
  <2> DEFINE row == [status |-> "NOT_CHECKOUT", table |-> req[h].t,
                     overall |-> "PENDING"]
  <2>1. order' = [order EXCEPT ![g] = row]
        /\ req' = [req EXCEPT ![h] = [req[h] EXCEPT !.pc = "clearCart",
                                                    !.cart = <<>>]]
    BY <1>5 DEF InsertOrder
  <2>2. Ordered' = Ordered \cup {g} /\ \A k \in Ordered' : order'[k].table \in Tables
    <3>1. row.status # "none" /\ row.table \in Tables
      BY <1>2
    <3> HIDE DEF row
    <3> QED
      BY <1>2, <2>1, <3>1, OrderWrite
  <2>3. RowsFit'
    BY <1>1, <1>2, <1>3, <2>2 DEF TypeInv, RowsFit, HasClient
  <2>4. Fit([req[h] EXCEPT !.pc = "clearCart", !.cart = <<>>], Existing', Ordered')
    BY <1>1, <1>2, <1>3
       DEF Request, Fit, ReturnLabels, GuestLabels, TableLabels, OrderLabels,
           RejectLabels, SessionLabels
  <2> QED
    BY <1>3, <2>1, <2>2, <2>3, <2>4, BecomeFit
<1> QED
  BY <1>4, <1>5

\* UpdateWrite keeps requests fit and rows referring to rows.
LEMMA UpdateWriteFit ==
  ASSUME TypeInv, NEW h \in Handlers, UpdateWrite(h)
  PROVE  RequestsFit' /\ RowsFit'
<1> DEFINE g == req[h].g
           x == IF req[h].cart = <<>> THEN order[g].overall ELSE "PENDING"
           row == [order[g] EXCEPT !.table = req[h].t, !.overall = x]
<1>1. req[h] \in Request /\ Fit(req[h], Existing, Ordered)
      /\ req[h].pc = "updateWrite" /\ UNCHANGED <<group, client>>
  BY DEF TypeInv, TypeOK, RequestsFit, UpdateWrite, At
<1>2. g \in Existing /\ g \in Ordered /\ req[h].t \in Tables
  BY <1>1 DEF Fit, SessionLabels, OrderLabels, TableLabels
<1>3. Existing' = Existing
  BY <1>1 DEF Existing
<1>4. order' = [order EXCEPT ![g] = row]
      /\ req' = [req EXCEPT ![h] = [req[h] EXCEPT !.pc = "clearCart",
                                                  !.cart = <<>>]]
  BY DEF UpdateWrite
<1>5. order[g] \in OrderRow /\ order[g].status # "none"
  BY <1>2 DEF TypeInv, TypeOK, Ordered
<1>6. row.status # "none" /\ row.table \in Tables
  BY <1>2, <1>5 DEF OrderRow
<1> HIDE DEF row
<1>7. Ordered' = Ordered \cup {g} /\ \A k \in Ordered' : order'[k].table \in Tables
  BY <1>2, <1>4, <1>6, OrderWrite
<1>8. RowsFit'
  BY <1>1, <1>2, <1>3, <1>7 DEF TypeInv, RowsFit, HasClient
<1>9. Fit([req[h] EXCEPT !.pc = "clearCart", !.cart = <<>>], Existing', Ordered')
  BY <1>1, <1>2, <1>3
     DEF Request, Fit, ReturnLabels, GuestLabels, TableLabels, OrderLabels,
         RejectLabels, SessionLabels
<1> QED
  BY <1>3, <1>4, <1>7, <1>8, <1>9, BecomeFit

\* CancelReopenOrder keeps requests fit and rows referring to rows.
LEMMA CancelReopenOrderFit ==
  ASSUME TypeInv, NEW h \in Handlers, CancelReopenOrder(h)
  PROVE  RequestsFit' /\ RowsFit'
<1> DEFINE g == req[h].g
           row == [order[g] EXCEPT !.status = "NOT_CHECKOUT"]
<1>1. req[h] \in Request /\ Fit(req[h], Existing, Ordered)
      /\ req[h].pc \in {"cancel", "cancelOrder"} /\ UNCHANGED <<group, client>>
  BY DEF TypeInv, TypeOK, RequestsFit, CancelReopenOrder
<1>2. g \in Existing /\ g \in Ordered
  BY <1>1 DEF Fit, SessionLabels, OrderLabels
<1>3. Existing' = Existing
  BY <1>1 DEF Existing
<1>4. order[g] \in OrderRow /\ order[g].table \in Tables
  BY <1>2 DEF TypeInv, TypeOK, RowsFit, Ordered
<1>5. order' = [order EXCEPT ![g] = row]
  BY DEF CancelReopenOrder
<1>6. row.status # "none" /\ row.table \in Tables
  BY <1>4 DEF OrderRow
<1> HIDE DEF row
<1>7. Ordered' = Ordered \cup {g} /\ \A k \in Ordered' : order'[k].table \in Tables
  BY <1>2, <1>5, <1>6, OrderWrite
<1>8. RowsFit'
  BY <1>1, <1>2, <1>3, <1>7 DEF TypeInv, RowsFit, HasClient
<1>9. \A p \in {"cancelBill", "find"} :
        Fit([req[h] EXCEPT !.pc = p, !.ret = "noti", !.t = order[g].table],
            Existing', Ordered')
  BY <1>1, <1>2, <1>3, <1>4, <1>7
     DEF Request, Fit, ReturnLabels, GuestLabels, TableLabels, OrderLabels,
         RejectLabels, SessionLabels
<1>10. \/ Answer(h)
       \/ \E p \in {"cancelBill", "find"} :
            req' = [req EXCEPT ![h] = [req[h] EXCEPT !.pc = p, !.ret = "noti",
                                                     !.t = order[g].table]]
  BY DEF CancelReopenOrder, Answer
<1> QED
  BY <1>3, <1>7, <1>8, <1>9, <1>10, BecomeFit, AnswerFit

\* AdminWriteOrder keeps requests fit and rows referring to rows.
LEMMA AdminWriteOrderFit ==
  ASSUME TypeInv, NEW h \in Handlers, AdminWriteOrder(h)
  PROVE  RequestsFit' /\ RowsFit'
<1> DEFINE d == req[h].dto
           g == req[h].g
           status == IF req[h].paid THEN "PAID"
                     ELSE IF d.status # None THEN d.status ELSE order[g].status
           table == IF d.transfer # None THEN d.transfer ELSE order[g].table
           row == [status |-> status, table |-> table,
                   overall |-> IF req[h].flag THEN "PENDING" ELSE "ALL_SERVED"]
<1>1. req[h] \in Request /\ Fit(req[h], Existing, Ordered)
      /\ req[h].pc = "adminWrite" /\ UNCHANGED client
  BY DEF TypeInv, TypeOK, RequestsFit, AdminWriteOrder, At
<1>2. g \in Existing /\ g \in Ordered
  BY <1>1 DEF Fit, SessionLabels, OrderLabels
<1>3. order[g].table \in Tables /\ order[g].status # "none"
  BY <1>2 DEF TypeInv, RowsFit, Ordered
<1>4. d \in AdminDtos \cup {NoDto}
  BY <1>1 DEF Request
<1>5. status # "none" /\ table \in Tables
  BY <1>3, <1>4, DtoType DEF OrderStatus
<1>6. order' = [order EXCEPT ![g] = row]
  BY DEF AdminWriteOrder
<1>7. \/ Goto(h, "complete") \/ Goto(h, "noti") \/ Call(h, table, "noti")
  BY DEF AdminWriteOrder
<1>8. Existing' = Existing /\ \A k \in Existing : group'[k].table \in Tables
  <2>1. CASE d.status = "CANCEL"
    BY <1>2, <2>1, StatusWrite DEF AdminWriteOrder
  <2>2. CASE d.status # "CANCEL"
    BY <2>2 DEF AdminWriteOrder, TypeInv, RowsFit, Existing
  <2> QED
    BY <2>1, <2>2
<1> HIDE DEF status, table
<1>9. row.status # "none" /\ row.table \in Tables
  BY <1>5
<1> HIDE DEF row
<1>10. Ordered' = Ordered \cup {g} /\ \A k \in Ordered' : order'[k].table \in Tables
  BY <1>2, <1>6, <1>9, OrderWrite
<1>11. RowsFit'
  BY <1>1, <1>2, <1>8, <1>10 DEF TypeInv, RowsFit, HasClient
<1>12. \A p \in {"complete", "noti"} :
         Fit([req[h] EXCEPT !.pc = p], Existing', Ordered')
  BY <1>1, <1>2, <1>8, <1>10
     DEF Request, Fit, ReturnLabels, GuestLabels, TableLabels, OrderLabels,
         RejectLabels, SessionLabels
<1>13. RequestsFit'
  BY <1>5, <1>7, <1>8, <1>10, <1>12, GotoFit, CallFit
<1> QED
  BY <1>11, <1>13

\* CreateClient keeps requests fit and rows referring to rows.
LEMMA CreateClientFit ==
  ASSUME TypeInv, NEW h \in Handlers, CreateClient(h)
  PROVE  RequestsFit' /\ RowsFit'
<1>1. PICK c \in Clients :
        client' = [client EXCEPT ![c] = [status |-> "ONLINE",
                                         name |-> req[h].name,
                                         group |-> req[h].g]]
  BY DEF CreateClient, Pick
<1>2. req[h].t \in Tables /\ req[h].g \in Groups
  BY DEF TypeInv, CreateClient, At, RequestsFit, Fit, TableLabels, GuestLabels
<1>3. \A k \in Clients : HasClient(k)' => client'[k].group \in Groups
  BY <1>1, <1>2 DEF TypeInv, TypeOK, RowsFit, HasClient
<1>4. RowsFit' /\ Existing' = Existing /\ Ordered' = Ordered
  BY <1>3, ClientWrite DEF CreateClient
<1> QED
  BY <1>2, <1>4, CallFit DEF CreateClient

\* Reconnect keeps requests fit and rows referring to rows.
LEMMA ReconnectFit ==
  ASSUME TypeInv, NEW h \in Handlers, Reconnect(h)
  PROVE  RequestsFit' /\ RowsFit'
<1>1. req[h].t \in Tables /\ req[h].g \in Groups
  BY DEF TypeInv, Reconnect, At, RequestsFit, Fit, TableLabels, GuestLabels
<1>2. \A k \in Clients : HasClient(k)' => client'[k].group \in Groups
  BY <1>1 DEF Reconnect, TypeInv, TypeOK, ClientRow, RowsFit, HasClient
<1>3. RowsFit' /\ Existing' = Existing /\ Ordered' = Ordered
  BY <1>2, ClientWrite DEF Reconnect
<1> QED
  BY <1>1, <1>3, CallFit, AnswerFit DEF Reconnect

\* LeaveDeleteClient keeps requests fit and rows referring to rows.
LEMMA LeaveDeleteClientFit ==
  ASSUME TypeInv, NEW h \in Handlers, LeaveDeleteClient(h)
  PROVE  RequestsFit' /\ RowsFit'
<1>1. \A k \in Clients : HasClient(k)' => client'[k].group \in Groups
  BY DEF LeaveDeleteClient, DeleteClientRow, NoClient, TypeInv, TypeOK, RowsFit,
         HasClient
<1>2. RowsFit' /\ Existing' = Existing /\ Ordered' = Ordered
  BY <1>1, ClientWrite DEF LeaveDeleteClient
<1>3. req[h] \in Request /\ Fit(req[h], Existing, Ordered)
  BY DEF TypeInv, TypeOK, RequestsFit
<1>4. Fit([req[h] EXCEPT !.pc = "noti"], Existing, Ordered)
  BY <1>3
     DEF Request, Fit, ReturnLabels, GuestLabels, TableLabels, OrderLabels,
         RejectLabels, SessionLabels
<1> QED
  BY <1>2, <1>4, GotoFit, AnswerFit DEF LeaveDeleteClient

\* GoOffline keeps requests fit and rows referring to rows.
LEMMA GoOfflineFit ==
  ASSUME TypeInv, NEW h \in Handlers, GoOffline(h)
  PROVE  RequestsFit' /\ RowsFit'
<1>1. \A k \in Clients : HasClient(k)' => client'[k].group \in Groups
  BY DEF GoOffline, TypeInv, TypeOK, ClientRow, RowsFit, HasClient
<1>2. RowsFit' /\ Existing' = Existing /\ Ordered' = Ordered
  BY <1>1, ClientWrite DEF GoOffline
<1>3. req[h] \in Request /\ Fit(req[h], Existing, Ordered) /\ req[h].pc = "offline"
  BY DEF TypeInv, TypeOK, RequestsFit, GoOffline, At
<1>4. req[h].t # None => Fit([req[h] EXCEPT !.pc = "find"], Existing, Ordered)
  BY <1>3
     DEF Request, Fit, ReturnLabels, GuestLabels, TableLabels, OrderLabels,
         RejectLabels, SessionLabels
<1> QED
  BY <1>2, <1>4, GotoFit, AnswerFit DEF GoOffline

\* ExpelDeleteClient keeps requests fit and rows referring to rows.
LEMMA ExpelDeleteClientFit ==
  ASSUME TypeInv, NEW h \in Handlers, ExpelDeleteClient(h)
  PROVE  RequestsFit' /\ RowsFit'
<1>1. \A k \in Clients : HasClient(k)' => client'[k].group \in Groups
  BY DEF ExpelDeleteClient, NoClient, TypeInv, TypeOK, RowsFit, HasClient
<1>2. RowsFit' /\ Existing' = Existing /\ Ordered' = Ordered
  BY <1>1, ClientWrite DEF ExpelDeleteClient
<1> QED
  BY <1>2, AnswerFit DEF ExpelDeleteClient

\* A restart keeps the rows, and no request is left.
LEMMA CrashFit ==
  ASSUME TypeInv, Crash
  PROVE  TypeInv'
<1>1. RowsFit' /\ Existing' = Existing /\ Ordered' = Ordered
  BY RowsStay DEF Crash, rows
<1>2. Fit(Idle, Existing, Ordered)
  BY DEF Fit, Idle, GuestLabels, TableLabels, OrderLabels, RejectLabels,
         SessionLabels
<1>3. RequestsFit'
  BY <1>1, <1>2 DEF Crash, RequestsFit
<1>4. NewConnection \in Connection
  BY DEF NewConnection, Connection
<1>5. TypeOK'
  BY <1>4, IdleType, InputAssumption DEF Crash, rows, TypeInv, TypeOK
<1> QED
  BY <1>1, <1>3, <1>5 DEF TypeInv

\* The invariant holds in an empty restaurant.
LEMMA InitInv == Init => TypeInv
<1> SUFFICES ASSUME Init PROVE TypeInv
  OBVIOUS
<1>1. NoGroup \in GroupRow /\ NoOrder \in OrderRow /\ NoBill \in BillRow
  BY EmptyCart DEF NoGroup, NoOrder, NoBill, GroupRow, OrderRow, BillRow
<1>2. NoFood \in FoodRow /\ NoClient \in ClientRow /\ NewConnection \in Connection
  BY DEF NoFood, NoClient, NewConnection, FoodRow, ClientRow, Connection
<1>3. TypeOK
  BY <1>1, <1>2, IdleType, InputAssumption DEF Init, TypeOK
<1>4. Existing = {} /\ Ordered = {}
  BY DEF Init, Existing, Ordered, NoGroup, NoOrder
<1>5. RowsFit
  BY <1>4 DEF Init, RowsFit, HasClient, NoClient
<1>6. \A E, O : Fit(Idle, E, O)
  BY DEF Fit, Idle, GuestLabels, TableLabels, OrderLabels, RejectLabels,
         SessionLabels
<1>7. RequestsFit
  BY <1>6 DEF Init, RequestsFit
<1> QED
  BY <1>3, <1>5, <1>7 DEF TypeInv

\* Every arrival keeps the invariant.
LEMMA ArriveInv ==
  ASSUME TypeInv, NEW h \in Handlers, Arrive(h)
  PROVE  TypeInv'
<1>1. TypeOK /\ RequestsFit /\ RowsFit
  BY DEF TypeInv
<1>2. TypeOK'
  BY <1>1, JoinTableType, LeaveTableType, DisconnectType, SelectFoodType,
     DeselectFoodType, CreateOrderType, UpdateOrderType,
     AdminUpdateClientOrderType, AdminDeleteClientListType,
     DeleteClientIdType, WsClearTableType, ClearTableType
     DEF Arrive
<1>3. RequestsFit' /\ RowsFit'
  BY JoinTableFit, LeaveTableFit, DisconnectFit, SelectFoodFit, DeselectFoodFit,
     CreateOrderFit, UpdateOrderFit, AdminUpdateClientOrderFit,
     AdminDeleteClientListFit, DeleteClientIdFit, WsClearTableFit, ClearTableFit
     DEF Arrive
<1> QED
  BY <1>2, <1>3 DEF TypeInv

\* Every continuation of a handler keeps the invariant.
LEMMA ContinueInv ==
  ASSUME TypeInv, NEW h \in Handlers, Continue(h)
  PROVE  TypeInv'
<1>1. TypeOK /\ RequestsFit /\ RowsFit
  BY DEF TypeInv
<1>2. TypeOK'
  BY <1>1, FindSessionType, CreateSessionType, NotifyType, CheckUsernameType,
     FindClientType, CreateClientType, ReconnectType, LeaveReadFoodsType,
     LeaveDeleteClientType, GoOfflineType, SelectReadBillType, SelectPushType,
     DeselectReadBillType, DeselectWriteType, OrderReadGroupType,
     InsertOrderType, ClearCartType, SetBillMethodType, UpdateWriteType,
     FoodWriteType, AdminReadOrderType, CreateBillType, SetBillType,
     AdminWriteOrderType, CompleteSessionType, CancelDeleteBillType,
     CancelReopenOrderType, ExpelReadClientType, ExpelWriteCartType,
     ExpelReadFoodsType, ExpelDeleteFoodType, ExpelDeleteClientType,
     RejectReadOrderType, RejectReadFoodsType, RejectFoodType, RejectSessionType
     DEF Continue
<1>3. RequestsFit' /\ RowsFit'
  BY FindSessionFit, CreateSessionFit, NotifyFit, CheckUsernameFit,
     FindClientFit, CreateClientFit, ReconnectFit, LeaveReadFoodsFit,
     LeaveDeleteClientFit, GoOfflineFit, SelectReadBillFit, SelectPushFit,
     DeselectReadBillFit, DeselectWriteFit, OrderReadGroupFit, InsertOrderFit,
     ClearCartFit, SetBillMethodFit, UpdateWriteFit, FoodWriteFit,
     AdminReadOrderFit, CreateBillFit, SetBillFit, AdminWriteOrderFit,
     CompleteSessionFit, CancelDeleteBillFit, CancelReopenOrderFit,
     ExpelReadClientFit, ExpelWriteCartFit, ExpelReadFoodsFit,
     ExpelDeleteFoodFit, ExpelDeleteClientFit, RejectReadOrderFit,
     RejectReadFoodsFit, RejectFoodFit, RejectSessionFit
     DEF Continue
<1> QED
  BY <1>2, <1>3 DEF TypeInv

\* A step that changes nothing keeps the invariant.
LEMMA StutterInv ==
  ASSUME TypeInv, UNCHANGED vars
  PROVE  TypeInv'
BY DEF TypeInv, vars, rows, TypeOK, RequestsFit, RowsFit, Existing, Ordered,
       HasClient

\* The invariant is inductive.
LEMMA NextInv ==
  ASSUME TypeInv, [Next]_vars
  PROVE  TypeInv'
<1>1. ASSUME NEW h \in Handlers, Arrive(h) PROVE TypeInv'
  BY <1>1, ArriveInv
<1>2. ASSUME NEW h \in Handlers, Continue(h) PROVE TypeInv'
  BY <1>2, ContinueInv
<1>3. CASE Crash
  BY <1>3, CrashFit
<1>4. CASE Rest \/ UNCHANGED vars
  BY <1>4, StutterInv DEF Rest
<1> QED
  BY <1>1, <1>2, <1>3, <1>4 DEF Next

\* The invariant holds in every reachable state.
THEOREM InvariantHolds == Spec => []TypeInv
<1>1. TypeInv /\ [Next]_vars => TypeInv'
  BY NextInv
<1> QED
  BY <1>1, InitInv, PTL DEF Spec

\* Rows, connections and requests keep their types: no handler writes a status
\* of another enum, a row that refers to nothing, or a cart that is no list.
THEOREM TypeCorrect == Spec => []TypeOK
<1>1. TypeInv => TypeOK
  BY DEF TypeInv
<1> QED
  BY <1>1, InvariantHolds, PTL
=============================================================================
