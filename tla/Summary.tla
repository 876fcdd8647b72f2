------------------------------ MODULE Summary ------------------------------
(***************************************************************************)
(* getRestaurantSummary of src/restaurant/restaurant.service.ts as         *)
(* operators over the orders of a restaurant, and the operations that      *)
(* change what it is computed from.                                        *)
(***************************************************************************)
EXTENDS Naturals, FiniteSets, Sequences, SequencesExt, FiniteSetsExt

CONSTANTS
  Menus, Price,          \* the menu and its prices
  Options, OptionPrice,  \* what can be added to it
  Selections,            \* the options guests select, in their order
  Days,                  \* bound: days on which orders are created
  TopSize,               \* entries of topTen
  MaxOrders, MaxFoods    \* bounds: orders, and foods of all of them

ASSUME MenuAssumption ==
  /\ Price \in [Menus -> Nat] /\ OptionPrice \in [Options -> Nat]
  /\ Selections \subseteq Seq(Options)
  /\ Days \subseteq Nat /\ Days # {}
  /\ TopSize \in Nat /\ MaxOrders \in Nat /\ MaxFoods \in Nat

VARIABLES
  orders,  \* Order rows with their FoodOrder rows, in the order of creation
  offered  \* Option rows

vars == <<orders, offered>>

Food  == [menu : Menus, options : Selections, cancelled : BOOLEAN]
Order == [day : Days, paid : BOOLEAN, foods : Seq(Food)]

TypeOK == orders \in Seq(Order) /\ offered \subseteq Options

Init == orders = <<>> /\ offered = Options

----------------------------------------------------------------------------
\* The summary of the days lo..hi, both included.  A food is named by its order
\* and its place there.

Positions == UNION {{i} \X DOMAIN orders[i].foods : i \in DOMAIN orders}
FoodAt(p) == orders[p[1]].foods[p[2]]

PaidOrders(lo, hi) ==
  {i \in DOMAIN orders :
     orders[i].paid /\ lo <= orders[i].day /\ orders[i].day <= hi}

Foods(lo, hi) ==
  {p \in Positions : p[1] \in PaidOrders(lo, hi) /\ ~FoodAt(p).cancelled}

\* The foods of one menu: _.groupBy(menus, 'foodName').
Sold(foods, m)  == {p \in foods : FoodAt(p).menu = m}
Names(foods)    == {FoodAt(p).menu : p \in foods}
Sales(foods, m) == Cardinality(Sold(foods, m))

\* The first one in the order in which the rows were read.
Earlier(p, q) == p[1] < q[1] \/ (p[1] = q[1] /\ p[2] < q[2])
FirstSale(foods, m) ==
  CHOOSE p \in Sold(foods, m) : \A q \in Sold(foods, m) : ~Earlier(q, p)

\* additionalIncome is set, not added to, in a loop over the options of the
\* first food of the group.
FirstOptions(foods, m) == FoodAt(FirstSale(foods, m)).options
Extra(foods, m) ==
  LET selected == FirstOptions(foods, m)
  IN IF selected = <<>> THEN 0 ELSE OptionPrice[Last(selected)]

\* The code reads the price of an option that is not among the rows.
Fails(foods) ==
  \E m \in Names(foods) : ~(ToSet(FirstOptions(foods, m)) \subseteq offered)

Income(foods, m) == Sales(foods, m) * Price[m] + Extra(foods, m)

TotalSales_NoExtra(foods) ==
  SumFunction([p \in foods |-> Price[FoodAt(p).menu]])

TotalSales(foods) ==
  SumFunction([p \in foods |-> Price[FoodAt(p).menu]])
    + SumFunction([m \in Names(foods) |-> Extra(foods, m)])

\* Most sold first; the sort is stable and groups come in order of first sale.
Before(foods, m, n) ==
  \/ Sales(foods, m) > Sales(foods, n)
  \/ /\ Sales(foods, m) = Sales(foods, n)
     /\ Earlier(FirstSale(foods, m), FirstSale(foods, n))

LeaderBoard_Unsorted(foods) ==
  CHOOSE board \in SetToSeqs(Names(foods)) :
    \A i, j \in DOMAIN board : i < j =>
      Earlier(FirstSale(foods, board[i]), FirstSale(foods, board[j]))

LeaderBoard(foods) ==
  CHOOSE board \in SetToSeqs(Names(foods)) :
    \A i, j \in DOMAIN board : i < j => Before(foods, board[i], board[j])

TopTen(foods) ==
  LET board == LeaderBoard(foods)
  IN SubSeq(board, 1, IF Len(board) < TopSize THEN Len(board) ELSE TopSize)

----------------------------------------------------------------------------
\* What the rows go through.

NewFood(m, selected) == [menu |-> m, options |-> selected, cancelled |-> FALSE]

\* The date of an order is off by one.
CreateOrder_Tomorrow ==
  /\ Len(orders) < MaxOrders
  /\ Cardinality(Positions) < MaxFoods
  /\ \E d \in Days, m \in Menus, selected \in Selections :
       /\ \A i \in DOMAIN orders : orders[i].day <= d
       /\ ToSet(selected) \subseteq offered
       /\ orders' = Append(orders, [day |-> d + 1, paid |-> FALSE,
                                    foods |-> <<NewFood(m, selected)>>])
  /\ UNCHANGED offered

\* createOrder: orders are created day after day.
CreateOrder ==
  /\ Len(orders) < MaxOrders
  /\ Cardinality(Positions) < MaxFoods
  /\ \E d \in Days, m \in Menus, selected \in Selections :
       /\ \A i \in DOMAIN orders : orders[i].day <= d
       /\ ToSet(selected) \subseteq offered
       /\ orders' = Append(orders, [day |-> d, paid |-> FALSE,
                                    foods |-> <<NewFood(m, selected)>>])
  /\ UNCHANGED offered

\* updateOrder adds a food.
UpdateOrder ==
  /\ Cardinality(Positions) < MaxFoods
  /\ \E i \in DOMAIN orders, m \in Menus, selected \in Selections :
       /\ ToSet(selected) \subseteq offered
       /\ orders' = [orders EXCEPT ![i].foods =
                       Append(@, NewFood(m, selected))]
  /\ UNCHANGED offered

\* A waiter cancels a food ...
CancelFood ==
  /\ \E i \in DOMAIN orders : \E j \in DOMAIN orders[i].foods :
       /\ ~orders[i].foods[j].cancelled
       /\ orders' = [orders EXCEPT ![i].foods[j].cancelled = TRUE]
  /\ UNCHANGED offered

\* ... or takes the payment.
PayOrder ==
  /\ \E i \in DOMAIN orders :
       /\ ~orders[i].paid
       /\ orders' = [orders EXCEPT ![i].paid = TRUE]
  /\ UNCHANGED offered

\* An option is taken off the menu: foods keep its id.
DeleteOption ==
  /\ \E o \in offered : offered' = offered \ {o}
  /\ UNCHANGED orders

Next ==
  CreateOrder \/ UpdateOrder \/ CancelFood \/ PayOrder \/ DeleteOption

Spec == Init /\ [][Next]_vars

----------------------------------------------------------------------------
\* The total, computed over foods, is the sum of the leader board, computed over
\* menus, and every food is on the leader board once, for every period
\* (getRestaurantSummary).
TotalsAgree ==
  \A lo, hi \in Days :
    LET foods == Foods(lo, hi)
    IN ~Fails(foods) =>
         /\ TotalSales(foods)
              = SumFunction([m \in Names(foods) |-> Income(foods, m)])
         /\ Cardinality(foods)
              = SumFunction([m \in Names(foods) |-> Sales(foods, m)])

\* No menu left out of topTen sold more than one in it, whatever was cancelled
\* or paid for late (getRestaurantSummary).
BestAreOnTop ==
  \A lo, hi \in Days :
    LET foods == Foods(lo, hi)
        top   == ToSet(TopTen(foods))
    IN ~Fails(foods) =>
         /\ Cardinality(top) = Min({TopSize, Cardinality(Names(foods))})
         /\ \A m \in top, n \in Names(foods) \ top :
              Sales(foods, m) >= Sales(foods, n)

\* What the restaurant earned: "income produced by using the apps", says the
\* comment where the income is computed (restaurant.service.ts:177).
Paid(food) ==
  LET selected == food.options
  IN Price[food.menu]
       + SumFunction([i \in DOMAIN selected |-> OptionPrice[selected[i]]])
Earned(foods) == SumFunction([p \in foods |-> Paid(FoodAt(p))])
IncomeIsEarned ==
  \A lo, hi \in Days :
    LET foods == Foods(lo, hi)
    IN ~Fails(foods) => TotalSales(foods) = Earned(foods)
=============================================================================
