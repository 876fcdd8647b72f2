------------------------------ MODULE Accounts ------------------------------
(***************************************************************************)
(* src/restaurant (its routes but for the summary), src/admin and          *)
(* src/bank-account: restaurants with their first admin, the admins who    *)
(* follow, and bank accounts.                                              *)
(***************************************************************************)
EXTENDS Office

NewAdmin(a, e, role, r) ==
  [admin EXCEPT ![a] = [state |-> "here", email |-> e, role |-> role, at |-> r]]

\* createRestaurant: anyone may; the name is looked up, the password hashed.
PostRestaurant(h) ==
  /\ \E n \in RestaurantNames, e \in Emails :
       Accept(h, "restaurant", [Idle EXCEPT !.pc = "findRestaurant",
                                            !.name = n, !.email = e])
  /\ UNCHANGED rows

FindRestaurant(h) ==
  /\ At(h, "findRestaurant")
  /\ IF RestaurantNameTaken(req[h].name) THEN Answer(h)
                                         ELSE Goto(h, "createRestaurant")
  /\ UNCHANGED <<rows, budget>>

\* A taken email fails the admin but not the restaurant.
CreateRestaurant_Alone(h) ==
  /\ At(h, "createRestaurant")
  /\ \/ /\ RestaurantNameTaken(req[h].name)
        /\ UNCHANGED rows
     \/ /\ ~RestaurantNameTaken(req[h].name)
        /\ \E r \in Unused(restaurant), a \in Unused(admin) :
             /\ restaurant' = [restaurant EXCEPT
                                 ![r] = [state |-> "here", name |-> req[h].name]]
             /\ admin' = IF EmailTaken(req[h].email) THEN admin
                         ELSE NewAdmin(a, req[h].email, "ROOT", r)
        /\ UNCHANGED <<menu, option, food, account, tabled>>
  /\ Answer(h)
  /\ UNCHANGED budget

\* The look-up is relied on.
CreateRestaurant_NoIndex(h) ==
  /\ At(h, "createRestaurant")
  /\ \/ /\ EmailTaken(req[h].email)
        /\ UNCHANGED rows
     \/ /\ ~EmailTaken(req[h].email)
        /\ \E r \in Unused(restaurant), a \in Unused(admin) :
             /\ restaurant' = [restaurant EXCEPT
                                 ![r] = [state |-> "here", name |-> req[h].name]]
             /\ admin' = NewAdmin(a, req[h].email, "ROOT", r)
        /\ UNCHANGED <<menu, option, food, account, tabled>>
  /\ Answer(h)
  /\ UNCHANGED budget

\* One nested write of the restaurant and its first admin; the unique index on
\* either refuses both.
CreateRestaurant(h) ==
  /\ At(h, "createRestaurant")
  /\ \/ /\ RestaurantNameTaken(req[h].name) \/ EmailTaken(req[h].email)
        /\ UNCHANGED rows
     \/ /\ ~RestaurantNameTaken(req[h].name)
        /\ ~EmailTaken(req[h].email)
        /\ \E r \in Unused(restaurant), a \in Unused(admin) :
             /\ restaurant' = [restaurant EXCEPT
                                 ![r] = [state |-> "here", name |-> req[h].name]]
             /\ admin' = NewAdmin(a, req[h].email, "ROOT", r)
        /\ UNCHANGED <<menu, option, food, account, tabled>>
  /\ Answer(h)
  /\ UNCHANGED budget

\* updateRestaurant: one write; a taken name fails it.
UpdateRestaurant(r) ==
  /\ Arrive("restaurant")
  /\ SomeRoot
  /\ Open(r)
  /\ \E n \in RestaurantNames :
       ~RestaurantNameTaken(n) /\ restaurant' = [restaurant EXCEPT ![r].name = n]
  /\ UNCHANGED <<admin, menu, option, food, account, tabled, req>>

MenusOf(r) == {m \in MenuIds : OnMenu(m) /\ menu[m].at = r}

\* deleteRestaurantById: its menus go with it; admins, bank accounts, tables and
\* what requires one of the menus refuse it.
DeleteRestaurant(r) ==
  /\ Arrive("restaurant")
  /\ SomeRoot
  /\ Open(r)
  /\ ~\E a \in AdminIds : Serves(a) /\ admin[a].at = r
  /\ r \notin tabled \cup Range(account)
  /\ \A m \in MenusOf(r) : ~Ordered(m) /\ ~HasOption(m)
  /\ restaurant' = [restaurant EXCEPT ![r].state = "deleted"]
  /\ menu' = [m \in MenuIds |-> IF m \in MenusOf(r)
                                THEN [menu[m] EXCEPT !.state = "deleted"]
                                ELSE menu[m]]
  /\ UNCHANGED <<admin, option, food, account, tabled, req>>

----------------------------------------------------------------------------
\* registerAdmin: the root admin's own restaurant; hash, look-up, creation.
RegisterAdmin(h) ==
  /\ \E r \in RestaurantIds, e \in Emails :
       /\ RootOf(r)
       /\ Accept(h, "admin",
                 [Idle EXCEPT !.pc = "findEmail", !.at = r, !.email = e])
  /\ UNCHANGED rows

FindEmail(h) ==
  /\ At(h, "findEmail")
  /\ IF EmailTaken(req[h].email) THEN Answer(h) ELSE Goto(h, "createAdmin")
  /\ UNCHANGED <<rows, budget>>

\* The look-up is relied on.
CreateAdmin_NoIndex(h) ==
  /\ At(h, "createAdmin")
  /\ \/ /\ ~Open(req[h].at)
        /\ UNCHANGED admin
     \/ /\ Open(req[h].at)
        /\ \E a \in Unused(admin) :
             admin' = NewAdmin(a, req[h].email, "STAFF", req[h].at)
  /\ Answer(h)
  /\ UNCHANGED <<restaurant, menu, option, food, account, tabled, budget>>

\* createAdmin: the email must be free still, and connect finds the restaurant.
CreateAdmin(h) ==
  /\ At(h, "createAdmin")
  /\ \/ /\ EmailTaken(req[h].email) \/ ~Open(req[h].at)
        /\ UNCHANGED admin
     \/ /\ ~EmailTaken(req[h].email)
        /\ Open(req[h].at)
        /\ \E a \in Unused(admin) :
             admin' = NewAdmin(a, req[h].email, "STAFF", req[h].at)
  /\ Answer(h)
  /\ UNCHANGED <<restaurant, menu, option, food, account, tabled, budget>>

\* deleteAdminById: nothing requires an admin, so any may go, the last as well.
DeleteAdmin(a) ==
  /\ Arrive("admin")
  /\ SomeRoot
  /\ Serves(a)
  /\ admin' = [admin EXCEPT ![a].state = "deleted"]
  /\ UNCHANGED <<restaurant, menu, option, food, account, tabled, req>>

----------------------------------------------------------------------------
\* createBankAccount writes the restaurant's id and looks for no restaurant.
CreateBankAccount(b) ==
  /\ Arrive("account")
  /\ account[b] = None
  /\ \E r \in RestaurantIds : RootOf(r) /\ account' = [account EXCEPT ![b] = r]
  /\ UNCHANGED <<restaurant, admin, menu, option, food, tabled, req>>

DeleteBankAccount(b) ==
  /\ Arrive("account")
  /\ SomeRoot
  /\ account[b] # None
  /\ account' = [account EXCEPT ![b] = None]
  /\ UNCHANGED <<restaurant, admin, menu, option, food, tabled, req>>

\* A table is created after a look-up of the restaurant, with the id only; it goes
\* when nothing was ordered there.  (Tables has the details.)
OpenTables(r) ==
  /\ Arrive("table")
  /\ Vouched(r, Roles)
  /\ r \notin tabled
  /\ tabled' = tabled \cup {r}
  /\ UNCHANGED <<restaurant, admin, menu, option, food, account, req>>

DeleteTables(r) ==
  /\ Arrive("table")
  /\ r \in tabled
  /\ \A f \in FoodIds : food[f].at # r
  /\ tabled' = tabled \ {r}
  /\ UNCHANGED <<restaurant, admin, menu, option, food, account, req>>

AccountsStep(h) ==
  FindRestaurant(h) \/ CreateRestaurant(h) \/ FindEmail(h) \/ CreateAdmin(h)
=============================================================================
