----------------------------- MODULE Catalogue -----------------------------
(***************************************************************************)
(* src/menu and src/option: what a restaurant offers, changed while guests *)
(* order it.  Of an order only the menus of its foods are kept.            *)
(***************************************************************************)
EXTENDS Office

\* addMenu: a look-up, then the creation.
AddMenu(h) ==
  /\ \E n \in FoodNames, r \in RestaurantIds :
       /\ RootOf(r)
       /\ Accept(h, "menu",
                 [Idle EXCEPT !.pc = "findMenu", !.name = n, !.at = r])
  /\ UNCHANGED rows

CheckExistMenu(h) ==
  /\ At(h, "findMenu")
  /\ IF MenuNameTaken(req[h].name, req[h].at) THEN Answer(h)
                                              ELSE Goto(h, "createMenu")
  /\ UNCHANGED <<rows, budget>>

Add(h) ==
  \E m \in Unused(menu), s \in Statuses :
    menu' = [menu EXCEPT ![m] = [state |-> s, name |-> req[h].name,
                                 at |-> req[h].at]]

\* The look-up is relied on.
CreateMenu_NoIndex(h) ==
  /\ At(h, "createMenu")
  /\ IF Open(req[h].at) THEN Add(h) ELSE UNCHANGED menu
  /\ Answer(h)
  /\ UNCHANGED <<restaurant, admin, option, food, account, tabled, budget>>

\* The restaurant's id is written, as for a bank account, and not connected.
CreateMenu_IdOnly(h) ==
  /\ At(h, "createMenu")
  /\ IF MenuNameTaken(req[h].name, req[h].at) THEN UNCHANGED menu ELSE Add(h)
  /\ Answer(h)
  /\ UNCHANGED <<restaurant, admin, option, food, account, tabled, budget>>

\* The unique index refuses a name that was taken since, connect a restaurant
\* that was deleted.
CreateMenu(h) ==
  /\ At(h, "createMenu")
  /\ IF MenuNameTaken(req[h].name, req[h].at) \/ ~Open(req[h].at)
     THEN UNCHANGED menu
     ELSE Add(h)
  /\ Answer(h)
  /\ UNCHANGED <<restaurant, admin, option, food, account, tabled, budget>>

\* A menu whose status the body leaves out is off the list of statuses.
UpdateMenu_Unset(m) ==
  /\ Arrive("menu")
  /\ OnMenu(m)
  /\ RootOf(menu[m].at)
  /\ \E n \in FoodNames, s \in Statuses \cup {None} :
       /\ n = menu[m].name \/ ~MenuNameTaken(n, menu[m].at)
       /\ menu' = [menu EXCEPT ![m].name = n, ![m].state = s]
  /\ UNCHANGED <<restaurant, admin, option, food, account, tabled, req>>

\* updateMenu: one write of a name and a status of a menu of the admin's own
\* restaurant; a taken name fails it.  The status is the menuStatus a body may
\* carry: the dto's isAvailable is no column, and a body with it changes nothing.
UpdateMenu(m) ==
  /\ Arrive("menu")
  /\ OnMenu(m)
  /\ RootOf(menu[m].at)
  /\ \E n \in FoodNames, s \in Statuses :
       /\ n = menu[m].name \/ ~MenuNameTaken(n, menu[m].at)
       /\ menu' = [menu EXCEPT ![m].name = n, ![m].state = s]
  /\ UNCHANGED <<restaurant, admin, option, food, account, tabled, req>>

\* The options do not keep a menu.
DeleteMenu_KeepOptions(m) ==
  /\ Arrive("menu")
  /\ OnMenu(m)
  /\ RootOf(menu[m].at)
  /\ ~Ordered(m)
  /\ menu' = [menu EXCEPT ![m].state = "deleted"]
  /\ UNCHANGED <<restaurant, admin, option, food, account, tabled, req>>

DeleteMenu(m) ==
  /\ Arrive("menu")
  /\ OnMenu(m)
  /\ RootOf(menu[m].at)
  /\ ~Ordered(m)
  /\ ~HasOption(m)
  /\ menu' = [menu EXCEPT ![m].state = "deleted"]
  /\ UNCHANGED <<restaurant, admin, option, food, account, tabled, req>>

\* createOption and updateOption connect an option to a menu, which must exist;
\* any admin may.
WriteOption(o) ==
  /\ Arrive("option")
  /\ SomeAdmin
  /\ \E m \in MenuIds : OnMenu(m) /\ option' = [option EXCEPT ![o] = m]
  /\ UNCHANGED <<restaurant, admin, menu, food, account, tabled, req>>

DeleteOption(o) ==
  /\ Arrive("option")
  /\ option[o] # None
  /\ option' = [option EXCEPT ![o] = None]
  /\ UNCHANGED <<restaurant, admin, menu, food, account, tabled, req>>

----------------------------------------------------------------------------
\* createOrder, from validateMenuList on: a guest at a table orders what was on a
\* menu at some time; of which restaurant nobody asks.
CreateOrder(h) ==
  /\ \E r \in tabled, list \in SUBSET {m \in MenuIds : menu[m].state # "none"} :
       /\ list # {}
       /\ Accept(h, "order", [Idle EXCEPT !.pc = "validate", !.at = r,
                                          !.ordered = list, !.toRead = list])
  /\ UNCHANGED rows

\* The menus are read at once, each by a call of its own; the first that is gone
\* or cancelled fails the order.
ValidateMenu(h) ==
  /\ At(h, "validate")
  /\ \E m \in req[h].toRead :
       LET rest == req[h].toRead \ {m}
       IN IF menu[m].state # "NORMAL" THEN Answer(h)
          ELSE req' = [req EXCEPT ![h] =
                         [@ EXCEPT !.toRead = rest,
                                   !.pc = IF rest = {} THEN "insert"
                                                       ELSE "validate"]]
  /\ UNCHANGED <<rows, budget>>

\* The rows with those of the list r that is ordered, under the given ids.
FoodsWith(r, id) ==
  [f \in FoodIds |->
     IF \E m \in r.ordered : id[m] = f
     THEN [menu |-> CHOOSE m \in r.ordered : id[m] = f, at |-> r.at]
     ELSE food[f]]

\* The order connects its restaurant and its table; createMany writes the menu
\* ids that were read and does not look for the menus.
InsertFoods(h) ==
  /\ At(h, "insert")
  /\ \/ /\ ~Open(req[h].at) \/ req[h].at \notin tabled
        /\ UNCHANGED food
     \/ /\ Open(req[h].at)
        /\ req[h].at \in tabled
        /\ \E id \in Pick(Injection(req[h].ordered,
                                    {f \in FoodIds : food[f] = NoFood})) :
             food' = FoodsWith(req[h], id)
  /\ Answer(h)
  /\ UNCHANGED <<restaurant, admin, menu, option, account, tabled, budget>>

\* A waiter or the removal of a guest deletes a food.
DeleteFood(f) ==
  /\ Arrive("order")
  /\ food[f] # NoFood
  /\ food' = [food EXCEPT ![f] = NoFood]
  /\ UNCHANGED <<restaurant, admin, menu, option, account, tabled, req>>

CatalogueStep(h) ==
  CheckExistMenu(h) \/ CreateMenu(h) \/ ValidateMenu(h) \/ InsertFoods(h)
=============================================================================
