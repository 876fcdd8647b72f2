-------------------------- MODULE RestaurantProofs --------------------------
(***************************************************************************)
(* For any number of restaurants, admins, guests and requests at a time:   *)
(* what MCRestaurant checks on a small instance.  Look-ups are never       *)
(* relied on.  Each argument is about the few steps that write one kind of *)
(* row, which a lemma for each kind names; of a request in progress it     *)
(* needs only that its locals are what the message or the admin gave.      *)
(***************************************************************************)
EXTENDS Restaurant, TLAPS

\* What a request holds where it is.
Fit(r) ==
  /\ r.pc \in {"findRestaurant", "createRestaurant"} =>
       r.name \in RestaurantNames /\ r.email \in Emails
  /\ r.pc \in {"findEmail", "createAdmin"} =>
       r.at \in RestaurantIds /\ r.email \in Emails
  /\ r.pc \in {"findMenu", "createMenu"} =>
       r.at \in RestaurantIds /\ r.name \in FoodNames
  /\ r.pc \in {"validate", "insert"} => r.at \in RestaurantIds

LocalsOK == \A h \in Handlers : Fit(req[h])

\* What a row holds while it is there, and that an id nobody has used yet names
\* nothing.
RowsOK ==
  /\ \A a \in AdminIds :
       /\ admin[a].state = "none" => admin[a].at = None
       /\ Serves(a) => admin[a].at \in RestaurantIds
  /\ \A m \in MenuIds :
       OnMenu(m) => menu[m].at \in RestaurantIds /\ menu[m].name \in FoodNames

Inv == /\ TypeOK /\ LocalsOK /\ RowsOK
       /\ HasFirstAdmin /\ RestaurantStays /\ OptionHasMenu

\* A generated id was not used before.
LEMMA PickIn == ASSUME NEW S, NEW x \in Pick(S) PROVE x \in S
BY DEF Pick

\* An unused id is that of a row that is not there.
LEMMA UnusedIn ==
  ASSUME NEW table, NEW x \in Unused(table)
  PROVE  x \in DOMAIN table /\ table[x].state = "none"
BY PickIn DEF Unused

\* The initial state has no rows.
LEMMA InitInv == Init => Inv
<1> SUFFICES ASSUME Init PROVE Inv
  OBVIOUS
<1>1. Idle \in Request /\ Fit(Idle)
  BY DEF Idle, Request, Fit
<1>2. TypeOK /\ LocalsOK
  BY <1>1, MaxBounded
     DEF Init, TypeOK, LocalsOK, NoRestaurant, RestaurantRow, NoAdmin, AdminRow,
         NoMenu, MenuRow, NoFood, FoodRow
<1>3. RowsOK /\ HasFirstAdmin /\ RestaurantStays /\ OptionHasMenu
  BY DEF Init, RowsOK, HasFirstAdmin, RestaurantStays, OptionHasMenu, Serves,
         Open, OnMenu, NoRestaurant, NoAdmin, NoMenu, Statuses
<1> QED
  BY <1>2, <1>3 DEF Inv

----------------------------------------------------------------------------
\* Which steps write which rows.

\* Restaurants are written by three operations.
LEMMA RestaurantSteps ==
  ASSUME Next
  PROVE  \/ UNCHANGED restaurant
         \/ \E h \in Handlers : CreateRestaurant(h)
         \/ \E r \in RestaurantIds : UpdateRestaurant(r) \/ DeleteRestaurant(r)
BY Zenon DEF Next, AccountsStep, CatalogueStep, Rest, vars, rows,
   PostRestaurant, RegisterAdmin, AddMenu, CreateOrder, FindRestaurant,
   FindEmail, CreateAdmin, CheckExistMenu, CreateMenu, ValidateMenu,
   InsertFoods, OpenTables, DeleteTables, DeleteAdmin, CreateBankAccount,
   DeleteBankAccount, UpdateMenu, DeleteMenu, WriteOption, DeleteOption,
   DeleteFood

\* Admins by three.
LEMMA AdminSteps ==
  ASSUME Next
  PROVE  \/ UNCHANGED admin
         \/ \E h \in Handlers : CreateRestaurant(h) \/ CreateAdmin(h)
         \/ \E a \in AdminIds : DeleteAdmin(a)
BY Zenon DEF Next, AccountsStep, CatalogueStep, Rest, vars, rows,
   PostRestaurant, RegisterAdmin, AddMenu, CreateOrder, FindRestaurant,
   FindEmail, CheckExistMenu, CreateMenu, ValidateMenu, InsertFoods,
   UpdateRestaurant, DeleteRestaurant, OpenTables, DeleteTables,
   CreateBankAccount, DeleteBankAccount, UpdateMenu, DeleteMenu, WriteOption,
   DeleteOption, DeleteFood

\* Menus by three, and with their restaurant.
LEMMA MenuSteps ==
  ASSUME Next
  PROVE  \/ UNCHANGED menu
         \/ \E h \in Handlers : CreateMenu(h)
         \/ \E m \in MenuIds : UpdateMenu(m) \/ DeleteMenu(m)
         \/ \E r \in RestaurantIds : DeleteRestaurant(r)
BY Zenon DEF Next, AccountsStep, CatalogueStep, Rest, vars, rows,
   PostRestaurant, RegisterAdmin, AddMenu, CreateOrder, FindRestaurant,
   CreateRestaurant, FindEmail, CreateAdmin, CheckExistMenu, ValidateMenu,
   InsertFoods, UpdateRestaurant, OpenTables, DeleteTables, DeleteAdmin,
   CreateBankAccount, DeleteBankAccount, WriteOption, DeleteOption, DeleteFood

\* Options by two.
LEMMA OptionSteps ==
  ASSUME Next
  PROVE  \/ UNCHANGED option
         \/ \E o \in OptionIds : WriteOption(o) \/ DeleteOption(o)
BY Zenon DEF Next, AccountsStep, CatalogueStep, Rest, vars, rows,
   PostRestaurant, RegisterAdmin, AddMenu, CreateOrder, FindRestaurant,
   CreateRestaurant, FindEmail, CreateAdmin, CheckExistMenu, CreateMenu,
   ValidateMenu, InsertFoods, UpdateRestaurant, DeleteRestaurant, OpenTables,
   DeleteTables, DeleteAdmin, CreateBankAccount, DeleteBankAccount, UpdateMenu,
   DeleteMenu, DeleteFood

\* Foods of orders by two.
LEMMA FoodSteps ==
  ASSUME Next
  PROVE  \/ UNCHANGED food
         \/ \E h \in Handlers : InsertFoods(h)
         \/ \E f \in FoodIds : DeleteFood(f)
BY Zenon DEF Next, AccountsStep, CatalogueStep, Rest, vars, rows,
   PostRestaurant, RegisterAdmin, AddMenu, CreateOrder, FindRestaurant,
   CreateRestaurant, FindEmail, CreateAdmin, CheckExistMenu, CreateMenu,
   ValidateMenu, UpdateRestaurant, DeleteRestaurant, OpenTables, DeleteTables,
   DeleteAdmin, CreateBankAccount, DeleteBankAccount, UpdateMenu, DeleteMenu,
   WriteOption, DeleteOption

\* Bank accounts by two, tables by two.
LEMMA AccountSteps ==
  ASSUME Next
  PROVE  /\ \/ UNCHANGED account
            \/ \E b \in AccountIds : CreateBankAccount(b) \/ DeleteBankAccount(b)
         /\ \/ UNCHANGED tabled
            \/ \E r \in RestaurantIds : OpenTables(r) \/ DeleteTables(r)
BY Zenon DEF Next, AccountsStep, CatalogueStep, Rest, vars, rows,
   PostRestaurant, RegisterAdmin, AddMenu, CreateOrder, FindRestaurant,
   CreateRestaurant, FindEmail, CreateAdmin, CheckExistMenu, CreateMenu,
   ValidateMenu, InsertFoods, UpdateRestaurant, DeleteRestaurant, OpenTables,
   DeleteTables, DeleteAdmin, CreateBankAccount, DeleteBankAccount, UpdateMenu,
   DeleteMenu, WriteOption, DeleteOption, DeleteFood

----------------------------------------------------------------------------
\* Requests.

\* A request of the right type that holds what it needs where it is.
Sound(r) == r \in Request /\ Fit(r)

\* Replacing one request by a sound one keeps all of them sound.
LEMMA SoundStep ==
  ASSUME TypeOK, LocalsOK, NEW h \in Handlers, NEW r,
         Sound(r), req' = [req EXCEPT ![h] = r]
  PROVE  req' \in [Handlers -> Request] /\ LocalsOK'
<1>1. req' \in [Handlers -> Request]
  BY DEF Sound, TypeOK
<1>2. \A i \in Handlers : req'[i] = IF i = h THEN r ELSE req[i]
  BY DEF TypeOK
<1>3. \A i \in Handlers : Fit(req'[i])
  BY <1>2 DEF LocalsOK, Sound
<1> QED
  BY <1>1, <1>3 DEF LocalsOK

\* A reply keeps them sound,
LEMMA AnswerSound ==
  ASSUME TypeOK, LocalsOK, NEW h \in Handlers, Answer(h)
  PROVE  req' \in [Handlers -> Request] /\ LocalsOK'
<1>1. Sound(Idle)
  BY DEF Sound, Fit, Idle, Request
<1> QED
  BY <1>1, SoundStep DEF Answer

\* and so does the way from each look-up to its creation.
LEMMA GotoSound ==
  ASSUME TypeOK, LocalsOK, NEW h \in Handlers,
         NEW p \in {"createRestaurant", "createAdmin", "createMenu"}, Goto(h, p),
         p = "createRestaurant" => At(h, "findRestaurant"),
         p = "createAdmin" => At(h, "findEmail"),
         p = "createMenu" => At(h, "findMenu")
  PROVE  req' \in [Handlers -> Request] /\ LocalsOK'
<1> DEFINE r == [req[h] EXCEPT !.pc = p]
<1>1. req[h] \in Request /\ Fit(req[h])
  BY DEF TypeOK, LocalsOK
<1>2. r \in Request
  BY <1>1 DEF Request
<1>3. r.pc = p /\ r.name = req[h].name /\ r.email = req[h].email /\ r.at = req[h].at
  BY <1>1 DEF Request
<1>4. Fit(r)
  BY <1>1, <1>3 DEF Fit, At
<1>5. req' = [req EXCEPT ![h] = r]
  BY DEF Goto
<1> QED
  BY <1>2, <1>4, <1>5, SoundStep DEF Sound

\* A message becomes a sound request.
LEMMA ArriveSound ==
  ASSUME Inv, NEW h \in Handlers,
         PostRestaurant(h) \/ RegisterAdmin(h) \/ AddMenu(h) \/ CreateOrder(h)
  PROVE  req' \in [Handlers -> Request] /\ LocalsOK'
<1>1. CASE PostRestaurant(h)
  <2>1. PICK n \in RestaurantNames, e \in Emails :
          req' = [req EXCEPT ![h] = [Idle EXCEPT !.pc = "findRestaurant",
                                                 !.name = n, !.email = e]]
    BY <1>1 DEF PostRestaurant, Accept
  <2>2. Sound([Idle EXCEPT !.pc = "findRestaurant", !.name = n, !.email = e])
    BY DEF Sound, Idle, Fit, Request
  <2> QED
    BY <2>1, <2>2, SoundStep DEF Inv
<1>2. CASE RegisterAdmin(h)
  <2>1. PICK r \in RestaurantIds, e \in Emails :
          req' = [req EXCEPT ![h] = [Idle EXCEPT !.pc = "findEmail",
                                                 !.at = r, !.email = e]]
    BY <1>2 DEF RegisterAdmin, Accept
  <2>2. Sound([Idle EXCEPT !.pc = "findEmail", !.at = r, !.email = e])
    BY DEF Sound, Idle, Fit, Request
  <2> QED
    BY <2>1, <2>2, SoundStep DEF Inv
<1>3. CASE AddMenu(h)
  <2>1. PICK n \in FoodNames, r \in RestaurantIds :
          req' = [req EXCEPT ![h] = [Idle EXCEPT !.pc = "findMenu",
                                                 !.name = n, !.at = r]]
    BY <1>3 DEF AddMenu, Accept
  <2>2. Sound([Idle EXCEPT !.pc = "findMenu", !.name = n, !.at = r])
    BY DEF Sound, Idle, Fit, Request
  <2> QED
    BY <2>1, <2>2, SoundStep DEF Inv
<1>4. CASE CreateOrder(h)
  <2>1. PICK r \in tabled, list \in SUBSET MenuIds :
          req' = [req EXCEPT ![h] = [Idle EXCEPT !.pc = "validate", !.at = r,
                                       !.ordered = list, !.toRead = list]]
    BY <1>4 DEF CreateOrder, Accept
  <2>2. r \in RestaurantIds
    BY DEF Inv, TypeOK
  <2>3. Sound([Idle EXCEPT !.pc = "validate", !.at = r, !.ordered = list,
                           !.toRead = list])
    BY <2>2 DEF Sound, Idle, Fit, Request
  <2> QED
    BY <2>1, <2>3, SoundStep DEF Inv
<1> QED
  BY <1>1, <1>2, <1>3, <1>4

\* A look-up of a name or of the menus keeps requests sound.
LEMMA ReadSound ==
  ASSUME Inv, NEW h \in Handlers,
         \/ FindRestaurant(h) \/ FindEmail(h) \/ CheckExistMenu(h)
         \/ ValidateMenu(h)
  PROVE  req' \in [Handlers -> Request] /\ LocalsOK'
<1>1. CASE FindRestaurant(h)
  BY <1>1, AnswerSound, GotoSound DEF FindRestaurant, Inv
<1>2. CASE FindEmail(h)
  BY <1>2, AnswerSound, GotoSound DEF FindEmail, Inv
<1>3. CASE CheckExistMenu(h)
  BY <1>3, AnswerSound, GotoSound DEF CheckExistMenu, Inv
<1>4. CASE ValidateMenu(h)
  <2> DEFINE new(S) == [req[h] EXCEPT !.toRead = S,
                                      !.pc = IF S = {} THEN "insert"
                                                       ELSE "validate"]
  <2>1. PICK m \in req[h].toRead :
          \/ Answer(h)
          \/ req' = [req EXCEPT ![h] = new(req[h].toRead \ {m})]
    <3>1. PICK m \in req[h].toRead :
            IF menu[m].state # "NORMAL" THEN Answer(h)
            ELSE req' = [req EXCEPT ![h] =
                   [@ EXCEPT !.toRead = req[h].toRead \ {m},
                             !.pc = IF req[h].toRead \ {m} = {}
                                    THEN "insert" ELSE "validate"]]
      BY <1>4 DEF ValidateMenu
    <3>2. CASE menu[m].state # "NORMAL"
      BY <3>1, <3>2
    <3>3. CASE menu[m].state = "NORMAL"
      BY <3>1, <3>3
    <3> QED
      BY <3>2, <3>3
  <2>2. req[h] \in Request /\ req[h].pc = "validate" /\ Fit(req[h])
    BY <1>4 DEF ValidateMenu, At, Inv, TypeOK, LocalsOK
  <2>3. ASSUME NEW S \in SUBSET MenuIds PROVE Sound(new(S))
    <3>1. new(S) \in Request
      BY <2>2 DEF Request
    <3>2. new(S).pc \in {"validate", "insert"} /\ new(S).at = req[h].at
      BY <2>2 DEF Request
    <3> HIDE DEF new
    <3> QED
      BY <2>2, <3>1, <3>2 DEF Sound, Fit
  <2>4. req[h].toRead \ {m} \in SUBSET MenuIds
    BY <2>2 DEF Request
  <2>5. Sound(new(req[h].toRead \ {m}))
    BY <2>3, <2>4
  <2> HIDE DEF new
  <2> QED
    BY <2>1, <2>5, SoundStep, AnswerSound DEF Inv
<1> QED
  BY <1>1, <1>2, <1>3, <1>4

\* Every step does.
LEMMA RequestsStep ==
  ASSUME Inv, Next
  PROVE  req' \in [Handlers -> Request] /\ LocalsOK'
<1>1. CASE UNCHANGED req
  BY <1>1 DEF Inv, TypeOK, LocalsOK
<1>2. CASE \E h \in Handlers : Answer(h)
  BY <1>2, AnswerSound DEF Inv
<1>3. CASE \E h \in Handlers :
             \/ PostRestaurant(h) \/ RegisterAdmin(h) \/ AddMenu(h)
             \/ CreateOrder(h)
  BY <1>3, ArriveSound
<1>4. CASE \E h \in Handlers :
             \/ FindRestaurant(h) \/ FindEmail(h) \/ CheckExistMenu(h)
             \/ ValidateMenu(h)
  BY <1>4, ReadSound
<1> QED
  BY <1>1, <1>2, <1>3, <1>4, Zenon
     DEF Next, AccountsStep, CatalogueStep, Rest, vars, CreateRestaurant,
         CreateAdmin, CreateMenu, InsertFoods, UpdateRestaurant,
         DeleteRestaurant, OpenTables, DeleteTables, DeleteAdmin,
         CreateBankAccount, DeleteBankAccount, UpdateMenu, DeleteMenu,
         WriteOption, DeleteOption, DeleteFood

\* The bound on requests counts down.
LEMMA BudgetStep ==
  ASSUME TypeOK, Next
  PROVE  budget' \in 0..MaxRequests
<1>1. budget' = budget \/ (budget > 0 /\ budget' = budget - 1)
  BY Zenon
     DEF Next, AccountsStep, CatalogueStep, Rest, vars, Arrive, Accept,
         PostRestaurant, RegisterAdmin, AddMenu, CreateOrder, FindRestaurant,
         CreateRestaurant, FindEmail, CreateAdmin, CheckExistMenu, CreateMenu,
         ValidateMenu, InsertFoods, UpdateRestaurant, DeleteRestaurant,
         OpenTables, DeleteTables, DeleteAdmin, CreateBankAccount,
         DeleteBankAccount, UpdateMenu, DeleteMenu, WriteOption, DeleteOption,
         DeleteFood
<1>2. budget \in 0..MaxRequests
  BY DEF TypeOK
<1> QED
  BY <1>1, <1>2, MaxBounded

----------------------------------------------------------------------------
\* What a step does to the rows of a kind.

\* A restaurant takes a name, a new one or one that is there,
Names(r, n) ==
  /\ ~RestaurantNameTaken(n)
  /\ restaurant' = [restaurant EXCEPT ![r] = [state |-> "here", name |-> n]]
Deletes(r) == restaurant' = [restaurant EXCEPT ![r].state = "deleted"]

\* an admin is registered or removed,
Registers(a, e, role, r) ==
  /\ admin[a].state = "none"
  /\ ~EmailTaken(e)
  /\ admin' = NewAdmin(a, e, role, r)
  /\ restaurant'[r].state = "here"
Dismisses(a) == admin' = [admin EXCEPT ![a].state = "deleted"]

\* a menu is added or changed, or some are removed.
Writes(m, n, r, s) ==
  /\ ~MenuNameTaken(n, r) \/ (OnMenu(m) /\ menu[m].name = n /\ menu[m].at = r)
  /\ menu' = [menu EXCEPT ![m] = [state |-> s, name |-> n, at |-> r]]
  /\ Open(r)
Removes(S) ==
  /\ \A m \in S : ~Ordered(m) /\ ~HasOption(m)
  /\ menu' = [m \in MenuIds |-> IF m \in S
                                THEN [menu[m] EXCEPT !.state = "deleted"]
                                ELSE menu[m]]

\* What becomes of the restaurants.
LEMMA RestaurantForm ==
  ASSUME Inv, Next
  PROVE  \/ UNCHANGED restaurant
         \/ \E r \in RestaurantIds, n \in RestaurantNames : Names(r, n)
         \/ \E r \in RestaurantIds : Deletes(r) /\ DeleteRestaurant(r)
<1>1. ASSUME NEW h \in Handlers, CreateRestaurant(h)
      PROVE  \/ UNCHANGED restaurant
             \/ \E r \in RestaurantIds, n \in RestaurantNames : Names(r, n)
  <2>1. req[h].name \in RestaurantNames
    BY <1>1 DEF CreateRestaurant, At, Inv, LocalsOK, Fit
  <2>2. CASE UNCHANGED rows
    BY <2>2 DEF rows
  <2>3. CASE ~UNCHANGED rows
    <3>1. PICK r \in Unused(restaurant) :
            /\ ~RestaurantNameTaken(req[h].name)
            /\ restaurant' = [restaurant EXCEPT
                                ![r] = [state |-> "here", name |-> req[h].name]]
      BY <1>1, <2>3 DEF CreateRestaurant
    <3>2. r \in RestaurantIds
      BY UnusedIn DEF Inv, TypeOK
    <3> QED
      BY <2>1, <3>1, <3>2 DEF Names
  <2> QED
    BY <2>2, <2>3
<1>2. ASSUME NEW r \in RestaurantIds, UpdateRestaurant(r)
      PROVE  \E n \in RestaurantNames : Names(r, n)
  <2>1. PICK n \in RestaurantNames :
          ~RestaurantNameTaken(n) /\ restaurant' = [restaurant EXCEPT ![r].name = n]
    BY <1>2 DEF UpdateRestaurant
  <2>2. restaurant[r] \in RestaurantRow /\ restaurant[r].state = "here"
    BY <1>2 DEF UpdateRestaurant, Open, Inv, TypeOK
  <2>3. [restaurant[r] EXCEPT !.name = n] = [state |-> "here", name |-> n]
    BY <2>2 DEF RestaurantRow
  <2> QED
    BY <2>1, <2>3 DEF Names
<1>3. ASSUME NEW r \in RestaurantIds, DeleteRestaurant(r) PROVE Deletes(r)
  BY <1>3 DEF DeleteRestaurant, Deletes
<1> QED
  BY <1>1, <1>2, <1>3, RestaurantSteps

\* What becomes of the admins.
LEMMA AdminForm ==
  ASSUME Inv, Next
  PROVE  \/ UNCHANGED admin
         \/ \E a \in AdminIds, e \in Emails, role \in Roles, r \in RestaurantIds :
              Registers(a, e, role, r)
         \/ \E a \in AdminIds : Dismisses(a)
<1>1. ASSUME NEW h \in Handlers, CreateRestaurant(h)
      PROVE  \/ UNCHANGED admin
             \/ \E a \in AdminIds, e \in Emails, role \in Roles,
                   r \in RestaurantIds : Registers(a, e, role, r)
  <2>1. req[h].email \in Emails
    BY <1>1 DEF CreateRestaurant, At, Inv, LocalsOK, Fit
  <2>2. CASE UNCHANGED rows
    BY <2>2 DEF rows
  <2>3. CASE ~UNCHANGED rows
    <3>1. PICK r \in Unused(restaurant), a \in Unused(admin) :
            /\ ~EmailTaken(req[h].email)
            /\ restaurant' = [restaurant EXCEPT
                                ![r] = [state |-> "here", name |-> req[h].name]]
            /\ admin' = NewAdmin(a, req[h].email, "ROOT", r)
      BY <1>1, <2>3 DEF CreateRestaurant
    <3>2. /\ r \in RestaurantIds
          /\ a \in AdminIds /\ admin[a].state = "none"
      BY UnusedIn DEF Inv, TypeOK
    <3>3. restaurant'[r].state = "here"
      BY <3>1, <3>2 DEF Inv, TypeOK
    <3>4. Registers(a, req[h].email, "ROOT", r)
      BY <3>1, <3>2, <3>3 DEF Registers
    <3> QED
      BY <2>1, <3>2, <3>4 DEF Roles
  <2> QED
    BY <2>2, <2>3
<1>2. ASSUME NEW h \in Handlers, CreateAdmin(h)
      PROVE  \/ UNCHANGED admin
             \/ \E a \in AdminIds, e \in Emails, role \in Roles,
                   r \in RestaurantIds : Registers(a, e, role, r)
  <2>1. req[h].email \in Emails /\ req[h].at \in RestaurantIds
    BY <1>2 DEF CreateAdmin, At, Inv, LocalsOK, Fit
  <2>2. CASE ~UNCHANGED admin
    <3>1. PICK a \in Unused(admin) :
            /\ ~EmailTaken(req[h].email)
            /\ Open(req[h].at)
            /\ UNCHANGED restaurant
            /\ admin' = NewAdmin(a, req[h].email, "STAFF", req[h].at)
      BY <1>2, <2>2 DEF CreateAdmin
    <3>2. a \in AdminIds /\ admin[a].state = "none"
      BY UnusedIn DEF Inv, TypeOK
    <3>3. Registers(a, req[h].email, "STAFF", req[h].at)
      BY <3>1, <3>2 DEF Registers, Open
    <3> QED
      BY <2>1, <3>2, <3>3 DEF Roles
  <2> QED
    BY <2>2
<1>3. ASSUME NEW a \in AdminIds, DeleteAdmin(a) PROVE Dismisses(a)
  BY <1>3 DEF DeleteAdmin, Dismisses
<1> QED
  BY <1>1, <1>2, <1>3, AdminSteps

\* What becomes of the menus.
LEMMA MenuForm ==
  ASSUME Inv, Next
  PROVE  \/ UNCHANGED menu
         \/ \E m \in MenuIds, n \in FoodNames, r \in RestaurantIds, s \in Statuses :
              Writes(m, n, r, s) /\ UNCHANGED <<restaurant, option>>
         \/ \E S \in SUBSET MenuIds : Removes(S) /\ UNCHANGED option
<1>1. ASSUME NEW h \in Handlers, CreateMenu(h), ~UNCHANGED menu
      PROVE  \E m \in MenuIds, n \in FoodNames, r \in RestaurantIds,
                s \in Statuses :
               Writes(m, n, r, s) /\ UNCHANGED <<restaurant, option>>
  <2>1. req[h].name \in FoodNames /\ req[h].at \in RestaurantIds
    BY <1>1 DEF CreateMenu, At, Inv, LocalsOK, Fit
  <2>2. PICK m \in Unused(menu), s \in Statuses :
          /\ ~MenuNameTaken(req[h].name, req[h].at)
          /\ Open(req[h].at)
          /\ menu' = [menu EXCEPT ![m] = [state |-> s, name |-> req[h].name,
                                          at |-> req[h].at]]
          /\ UNCHANGED <<restaurant, option>>
    BY <1>1 DEF CreateMenu, Add
  <2>3. m \in MenuIds
    BY UnusedIn DEF Inv, TypeOK
  <2> QED
    BY <2>1, <2>2, <2>3 DEF Writes
<1>2. ASSUME NEW m \in MenuIds, UpdateMenu(m)
      PROVE  \E n \in FoodNames, r \in RestaurantIds, s \in Statuses :
               Writes(m, n, r, s) /\ UNCHANGED <<restaurant, option>>
  <2>1. PICK n \in FoodNames, s \in Statuses :
          /\ n = menu[m].name \/ ~MenuNameTaken(n, menu[m].at)
          /\ menu' = [menu EXCEPT ![m].name = n, ![m].state = s]
          /\ UNCHANGED <<restaurant, option>>
    BY <1>2 DEF UpdateMenu
  <2>2. OnMenu(m) /\ menu[m].at \in RestaurantIds /\ Open(menu[m].at)
    BY <1>2 DEF UpdateMenu, Inv, RowsOK, RestaurantStays
  <2>3. menu[m] \in MenuRow
    BY DEF Inv, TypeOK
  <2>4. [menu EXCEPT ![m].name = n, ![m].state = s]
          = [menu EXCEPT ![m] = [state |-> s, name |-> n, at |-> menu[m].at]]
    <3>1. [[menu[m] EXCEPT !.name = n] EXCEPT !.state = s]
            = [state |-> s, name |-> n, at |-> menu[m].at]
      <4> DEFINE row == [[menu[m] EXCEPT !.name = n] EXCEPT !.state = s]
      <4>1. row \in MenuRow
        BY <2>3 DEF MenuRow
      <4>2. row.state = s /\ row.name = n /\ row.at = menu[m].at
        BY <2>3 DEF MenuRow
      <4> HIDE DEF row
      <4>3. row = [state |-> row.state, name |-> row.name, at |-> row.at]
        BY <4>1 DEF MenuRow
      <4>4. row = [state |-> s, name |-> n, at |-> menu[m].at]
        BY <4>2, <4>3
      <4> QED
        BY <4>4 DEF row
    <3>2. menu \in [MenuIds -> MenuRow]
      BY DEF Inv, TypeOK
    <3>3. [menu EXCEPT ![m].name = n, ![m].state = s]
            = [menu EXCEPT ![m] = [[menu[m] EXCEPT !.name = n] EXCEPT !.state = s]]
      BY <3>2
    <3> QED
      BY <3>1, <3>3
  <2> QED
    BY <2>1, <2>2, <2>4 DEF Writes
<1>3. ASSUME NEW m \in MenuIds, DeleteMenu(m)
      PROVE  Removes({m}) /\ UNCHANGED option
  <2>1. [menu EXCEPT ![m].state = "deleted"]
          = [k \in MenuIds |-> IF k \in {m}
                               THEN [menu[k] EXCEPT !.state = "deleted"]
                               ELSE menu[k]]
    BY DEF Inv, TypeOK
  <2> QED
    BY <1>3, <2>1 DEF DeleteMenu, Removes
<1>4. ASSUME NEW r \in RestaurantIds, DeleteRestaurant(r)
      PROVE  MenusOf(r) \in SUBSET MenuIds /\ Removes(MenusOf(r)) /\ UNCHANGED option
  BY <1>4 DEF DeleteRestaurant, MenusOf, Removes
<1> QED
  BY <1>1, <1>2, <1>3, <1>4, MenuSteps

----------------------------------------------------------------------------
\* Types and what the rows hold.

\* A restaurant keeps its type,
LEMMA RestaurantType ==
  ASSUME Inv, Next
  PROVE  restaurant' \in [RestaurantIds -> RestaurantRow]
<1>1. ASSUME NEW r \in RestaurantIds, NEW n \in RestaurantNames, Names(r, n)
      PROVE  restaurant' \in [RestaurantIds -> RestaurantRow]
  <2>1. [state |-> "here", name |-> n] \in RestaurantRow
    BY DEF RestaurantRow
  <2> QED
    BY <1>1, <2>1 DEF Names, Inv, TypeOK
<1>2. ASSUME NEW r \in RestaurantIds, Deletes(r)
      PROVE  restaurant' \in [RestaurantIds -> RestaurantRow]
  <2>1. [restaurant[r] EXCEPT !.state = "deleted"] \in RestaurantRow
    BY DEF Inv, TypeOK, RestaurantRow
  <2> QED
    BY <1>2, <2>1 DEF Deletes, Inv, TypeOK
<1>3. CASE UNCHANGED restaurant
  BY <1>3 DEF Inv, TypeOK
<1> QED
  BY <1>1, <1>2, <1>3, RestaurantForm

\* The admins and what they hold.
AdminsOK ==
  \A a \in AdminIds :
    /\ admin[a].state = "none" => admin[a].at = None
    /\ Serves(a) => admin[a].at \in RestaurantIds

\* so does an admin, and stays an admin of one of the restaurants,
LEMMA AdminType ==
  ASSUME Inv, Next
  PROVE  admin' \in [AdminIds -> AdminRow] /\ AdminsOK'
<1>0. admin \in [AdminIds -> AdminRow] /\ AdminsOK
  BY DEF Inv, TypeOK, RowsOK, AdminsOK
<1>1. ASSUME NEW a \in AdminIds, NEW e \in Emails, NEW role \in Roles,
             NEW r \in RestaurantIds, Registers(a, e, role, r)
      PROVE  admin' \in [AdminIds -> AdminRow] /\ AdminsOK'
  <2> DEFINE row == [state |-> "here", email |-> e, role |-> role, at |-> r]
  <2>1. row \in AdminRow /\ row.state = "here" /\ row.at = r
    BY DEF AdminRow
  <2> HIDE DEF row
  <2>2. admin' = [admin EXCEPT ![a] = row]
    BY <1>1 DEF Registers, NewAdmin, row
  <2>3. admin' \in [AdminIds -> AdminRow]
    BY <1>0, <2>1, <2>2
  <2>4. \A b \in AdminIds : admin'[b] = IF b = a THEN row ELSE admin[b]
    BY <1>0, <2>2
  <2> QED
    BY <1>0, <2>1, <2>3, <2>4 DEF AdminsOK, Serves
<1>2. ASSUME NEW a \in AdminIds, Dismisses(a)
      PROVE  admin' \in [AdminIds -> AdminRow] /\ AdminsOK'
  <2> DEFINE row == [admin[a] EXCEPT !.state = "deleted"]
  <2>1. row \in AdminRow /\ row.state = "deleted"
    BY <1>0 DEF AdminRow
  <2> HIDE DEF row
  <2>2. admin' = [admin EXCEPT ![a] = row]
    BY <1>2 DEF Dismisses, row
  <2>3. admin' \in [AdminIds -> AdminRow]
    BY <1>0, <2>1, <2>2
  <2>4. \A b \in AdminIds : admin'[b] = IF b = a THEN row ELSE admin[b]
    BY <1>0, <2>2
  <2> QED
    BY <1>0, <2>1, <2>3, <2>4 DEF AdminsOK, Serves
<1>3. CASE UNCHANGED admin
  BY <1>0, <1>3 DEF AdminsOK, Serves
<1> QED
  BY <1>1, <1>2, <1>3, AdminForm

\* The menus and what they hold.
MenusOK ==
  \A m \in MenuIds :
    OnMenu(m) => menu[m].at \in RestaurantIds /\ menu[m].name \in FoodNames

\* and a menu, which keeps a restaurant and a name.
LEMMA MenuType ==
  ASSUME Inv, Next
  PROVE  menu' \in [MenuIds -> MenuRow] /\ MenusOK'
<1>0. menu \in [MenuIds -> MenuRow] /\ MenusOK
  BY DEF Inv, TypeOK, RowsOK, MenusOK
<1>1. ASSUME NEW m \in MenuIds, NEW n \in FoodNames, NEW r \in RestaurantIds,
             NEW s \in Statuses, Writes(m, n, r, s)
      PROVE  menu' \in [MenuIds -> MenuRow] /\ MenusOK'
  <2> DEFINE row == [state |-> s, name |-> n, at |-> r]
  <2>1. row \in MenuRow /\ row.name = n /\ row.at = r
    BY DEF MenuRow
  <2> HIDE DEF row
  <2>2. menu' = [menu EXCEPT ![m] = row]
    BY <1>1 DEF Writes, row
  <2>3. menu' \in [MenuIds -> MenuRow]
    BY <1>0, <2>1, <2>2
  <2>4. \A k \in MenuIds : menu'[k] = IF k = m THEN row ELSE menu[k]
    BY <1>0, <2>2
  <2> QED
    BY <1>0, <2>1, <2>3, <2>4 DEF MenusOK, OnMenu
<1>2. ASSUME NEW S \in SUBSET MenuIds, Removes(S)
      PROVE  menu' \in [MenuIds -> MenuRow] /\ MenusOK'
  <2>1. \A m \in MenuIds : /\ [menu[m] EXCEPT !.state = "deleted"] \in MenuRow
                           /\ [menu[m] EXCEPT !.state = "deleted"].state = "deleted"
    BY <1>0 DEF MenuRow
  <2>2. menu' \in [MenuIds -> MenuRow]
    BY <1>0, <1>2, <2>1 DEF Removes
  <2>3. \A m \in MenuIds : menu'[m] = menu[m] \/ menu'[m].state = "deleted"
    BY <1>2, <2>1 DEF Removes
  <2> QED
    BY <1>0, <2>2, <2>3 DEF MenusOK, OnMenu, Statuses
<1>3. CASE UNCHANGED menu
  BY <1>0, <1>3 DEF MenusOK, OnMenu
<1> QED
  BY <1>1, <1>2, <1>3, MenuForm

\* The other rows.
LEMMA OtherTypes ==
  ASSUME Inv, Next
  PROVE  /\ option'  \in [OptionIds -> MenuIds \cup {None}]
         /\ food'    \in [FoodIds -> FoodRow]
         /\ account' \in [AccountIds -> RestaurantIds \cup {None}]
         /\ tabled'  \subseteq RestaurantIds
<1>0. /\ option  \in [OptionIds -> MenuIds \cup {None}]
      /\ food    \in [FoodIds -> FoodRow]
      /\ account \in [AccountIds -> RestaurantIds \cup {None}]
      /\ tabled  \subseteq RestaurantIds
  BY DEF Inv, TypeOK
<1>1. option' \in [OptionIds -> MenuIds \cup {None}]
  <2>1. ASSUME NEW o \in OptionIds, WriteOption(o) \/ DeleteOption(o)
        PROVE  \E m \in MenuIds \cup {None} : option' = [option EXCEPT ![o] = m]
    BY <2>1 DEF WriteOption, DeleteOption
  <2> QED
    BY <1>0, <2>1, OptionSteps
<1>2. food' \in [FoodIds -> FoodRow]
  <2>1. ASSUME NEW h \in Handlers, InsertFoods(h), ~UNCHANGED food
        PROVE  food' \in [FoodIds -> FoodRow]
    <3>1. req[h].ordered \in SUBSET MenuIds /\ req[h].at \in RestaurantIds
      BY <2>1 DEF InsertFoods, At, Inv, TypeOK, LocalsOK, Fit, Request
    <3>2. PICK id : food' = FoodsWith(req[h], id)
      BY <2>1 DEF InsertFoods
    <3>3. \A m \in MenuIds : [menu |-> m, at |-> req[h].at] \in FoodRow
      BY <3>1 DEF FoodRow
    <3>4. \A f \in FoodIds :
            (\E m \in req[h].ordered : id[m] = f) =>
              (CHOOSE m \in req[h].ordered : id[m] = f) \in MenuIds
      BY <3>1
    <3> QED
      BY <1>0, <3>2, <3>3, <3>4 DEF FoodsWith
  <2>2. ASSUME NEW f \in FoodIds, DeleteFood(f)
        PROVE  food' \in [FoodIds -> FoodRow]
    <3>1. NoFood \in FoodRow
      BY DEF NoFood, FoodRow
    <3> QED
      BY <1>0, <2>2, <3>1 DEF DeleteFood
  <2> QED
    BY <1>0, <2>1, <2>2, FoodSteps
<1>3. account' \in [AccountIds -> RestaurantIds \cup {None}]
  <2>1. ASSUME NEW b \in AccountIds, CreateBankAccount(b) \/ DeleteBankAccount(b)
        PROVE  \E r \in RestaurantIds \cup {None} :
                 account' = [account EXCEPT ![b] = r]
    BY <2>1 DEF CreateBankAccount, DeleteBankAccount
  <2> QED
    BY <1>0, <2>1, AccountSteps
<1>4. tabled' \subseteq RestaurantIds
  BY <1>0, AccountSteps DEF OpenTables, DeleteTables
<1> QED
  BY <1>1, <1>2, <1>3, <1>4

----------------------------------------------------------------------------
\* Nothing is left behind.

\* The place and the role of an admin outlive the admin.
LEMMA AdminsKept ==
  ASSUME Inv, Next
  PROVE  \A a \in AdminIds : admin[a].state # "none" =>
           admin'[a].at = admin[a].at /\ admin'[a].role = admin[a].role
<1>0. admin \in [AdminIds -> AdminRow]
  BY DEF Inv, TypeOK
<1>1. ASSUME NEW a \in AdminIds, Dismisses(a)
      PROVE  \A b \in AdminIds :
               admin'[b].at = admin[b].at /\ admin'[b].role = admin[b].role
  BY <1>0, <1>1 DEF Dismisses, AdminRow
<1>2. ASSUME NEW a \in AdminIds, NEW e, NEW role, NEW r, Registers(a, e, role, r)
      PROVE  admin[a].state = "none" /\ \A b \in AdminIds \ {a} : admin'[b] = admin[b]
  BY <1>0, <1>2 DEF Registers, NewAdmin
<1> QED
  BY <1>1, <1>2, AdminForm

\* Only the deletion of a restaurant closes one.
LEMMA OpenKept ==
  ASSUME Inv, Next, NEW r \in RestaurantIds, Open(r), ~DeleteRestaurant(r)
  PROVE  Open(r)'
<1>0. restaurant \in [RestaurantIds -> RestaurantRow]
  BY DEF Inv, TypeOK
<1>1. ASSUME NEW k \in RestaurantIds, NEW n, Names(k, n) PROVE Open(r)'
  BY <1>0, <1>1 DEF Names, Open
<1>2. ASSUME NEW k \in RestaurantIds, Deletes(k), k # r PROVE Open(r)'
  BY <1>0, <1>2 DEF Deletes, Open
<1> QED
  BY <1>1, <1>2, RestaurantForm DEF Open

\* Every restaurant came with a root admin.
LEMMA FirstAdminStep ==
  ASSUME Inv, Next
  PROVE  HasFirstAdmin'
<1>1. ASSUME NEW r \in RestaurantIds, RootOf(r) PROVE RootOf(r)'
  <2>1. PICK a \in AdminIds : admin[a].at = r /\ admin[a].role \in {"ROOT"}
    BY <1>1 DEF RootOf, Vouched
  <2>2. admin[a].state # "none"
    BY <2>1, NoneFresh DEF Inv, RowsOK
  <2>3. admin'[a].at = r /\ admin'[a].role \in {"ROOT"}
    BY <2>1, <2>2, AdminsKept
  <2> QED
    BY <2>3 DEF RootOf, Vouched
<1>2. ASSUME NEW r \in RestaurantIds, Open(r)' PROVE Open(r) \/ RootOf(r)'
  <2>0. restaurant \in [RestaurantIds -> RestaurantRow]
    BY DEF Inv, TypeOK
  <2>1. ASSUME NEW h \in Handlers, CreateRestaurant(h)
        PROVE  Open(r) \/ RootOf(r)'
    <3>1. CASE UNCHANGED rows
      BY <1>2, <3>1 DEF rows, Open
    <3>2. CASE ~UNCHANGED rows
      <4>1. PICK k \in Unused(restaurant), a \in Unused(admin) :
              /\ restaurant' = [restaurant EXCEPT
                                  ![k] = [state |-> "here", name |-> req[h].name]]
              /\ admin' = NewAdmin(a, req[h].email, "ROOT", k)
        BY <2>1, <3>2 DEF CreateRestaurant
      <4>2. a \in AdminIds /\ k \in RestaurantIds
        BY UnusedIn DEF Inv, TypeOK
      <4>3. CASE r # k
        BY <1>2, <2>0, <4>1, <4>3 DEF Open
      <4>4. CASE r = k
        <5>1. admin'[a].at = r /\ admin'[a].role \in {"ROOT"}
          BY <4>1, <4>2, <4>4 DEF NewAdmin, Inv, TypeOK
        <5> QED
          BY <4>2, <5>1 DEF RootOf, Vouched
      <4> QED
        BY <4>3, <4>4
    <3> QED
      BY <3>1, <3>2
  <2>2. ASSUME NEW k \in RestaurantIds, UpdateRestaurant(k)
        PROVE  Open(r) \/ RootOf(r)'
    <3>1. PICK n : restaurant' = [restaurant EXCEPT ![k].name = n]
      BY <2>2 DEF UpdateRestaurant
    <3>2. restaurant'[r].state = restaurant[r].state
      BY <2>0, <3>1 DEF RestaurantRow
    <3> QED
      BY <1>2, <3>2 DEF Open
  <2>3. ASSUME NEW k \in RestaurantIds, DeleteRestaurant(k)
        PROVE  Open(r) \/ RootOf(r)'
    <3>1. restaurant'[r].state \in {restaurant[r].state, "deleted"}
      BY <2>0, <2>3 DEF DeleteRestaurant, RestaurantRow
    <3> QED
      BY <1>2, <3>1 DEF Open
  <2> QED
    BY <1>2, <2>1, <2>2, <2>3, RestaurantSteps DEF Open
<1> QED
  BY <1>1, <1>2 DEF HasFirstAdmin, Inv

\* No admin is left without its restaurant,
LEMMA AdminStaysStep ==
  ASSUME Inv, Next, NEW b \in AdminIds, Serves(b)'
  PROVE  Open(admin[b].at)'
<1>0. admin \in [AdminIds -> AdminRow]
  BY DEF Inv, TypeOK
<1>1. ASSUME admin'[b] = admin[b], Serves(b) PROVE Open(admin[b].at)'
  <2>1. admin[b].at \in RestaurantIds /\ Open(admin[b].at)
    BY <1>1 DEF Inv, RowsOK, RestaurantStays
  <2>2. ~DeleteRestaurant(admin[b].at)
    BY <1>1 DEF DeleteRestaurant
  <2>3. restaurant'[admin[b].at].state = "here"
    BY <2>1, <2>2, OpenKept DEF Open
  <2> QED
    BY <1>1, <2>3 DEF Open
<1>2. CASE UNCHANGED admin
  BY <1>1, <1>2 DEF Serves
<1>3. ASSUME NEW a \in AdminIds, Dismisses(a) PROVE Open(admin[b].at)'
  <2>1. b # a /\ admin'[b] = admin[b]
    BY <1>0, <1>3 DEF Dismisses, Serves, AdminRow
  <2> QED
    BY <1>1, <2>1 DEF Serves
<1>4. ASSUME NEW a \in AdminIds, NEW e, NEW role, NEW r, Registers(a, e, role, r)
      PROVE  Open(admin[b].at)'
  <2>1. CASE b = a
    BY <1>0, <1>4, <2>1 DEF Registers, NewAdmin, Open
  <2>2. CASE b # a
    <3>1. admin'[b] = admin[b]
      BY <1>0, <1>4, <2>2 DEF Registers, NewAdmin
    <3> QED
      BY <1>1, <3>1 DEF Serves
  <2> QED
    BY <2>1, <2>2
<1> QED
  BY <1>2, <1>3, <1>4, AdminForm

\* and no menu.
LEMMA MenuStaysStep ==
  ASSUME Inv, Next, NEW k \in MenuIds, OnMenu(k)'
  PROVE  Open(menu[k].at)'
<1>0. menu \in [MenuIds -> MenuRow]
  BY DEF Inv, TypeOK
<1>1. ASSUME menu'[k] = menu[k], OnMenu(k) PROVE Open(menu[k].at)'
  <2>1. menu[k].at \in RestaurantIds /\ Open(menu[k].at)
    BY <1>1 DEF Inv, RowsOK, RestaurantStays
  <2>2. ASSUME DeleteRestaurant(menu[k].at) PROVE FALSE
    <3>1. k \in MenusOf(menu[k].at)
      BY <1>1 DEF MenusOf
    <3>2. menu'[k] = [menu[k] EXCEPT !.state = "deleted"]
      BY <2>2, <3>1 DEF DeleteRestaurant
    <3>3. menu'[k].state = "deleted"
      BY <1>0, <3>2 DEF MenuRow
    <3> QED
      BY <3>3 DEF OnMenu, Statuses
  <2>3. restaurant'[menu[k].at].state = "here"
    BY <2>1, <2>2, OpenKept DEF Open
  <2> QED
    BY <1>1, <2>3 DEF Open
<1>2. CASE UNCHANGED menu
  BY <1>1, <1>2 DEF OnMenu
<1>3. ASSUME NEW S \in SUBSET MenuIds, Removes(S) PROVE Open(menu[k].at)'
  <2>1. menu'[k] = [menu[k] EXCEPT !.state = "deleted"] \/ menu'[k] = menu[k]
    BY <1>3 DEF Removes
  <2>2. [menu[k] EXCEPT !.state = "deleted"].state = "deleted"
    BY <1>0 DEF MenuRow
  <2> QED
    BY <1>1, <2>1, <2>2 DEF OnMenu, Statuses
<1>4. ASSUME NEW m \in MenuIds, NEW n, NEW r \in RestaurantIds, NEW s,
             Writes(m, n, r, s), UNCHANGED restaurant
      PROVE  Open(menu[k].at)'
  <2>1. CASE k = m
    BY <1>0, <1>4, <2>1 DEF Writes, Open
  <2>2. CASE k # m
    <3>1. menu'[k] = menu[k]
      BY <1>0, <1>4, <2>2 DEF Writes
    <3> QED
      BY <1>1, <3>1 DEF OnMenu
  <2> QED
    BY <2>1, <2>2
<1> QED
  BY <1>2, <1>3, <1>4, MenuForm

\* An option keeps its menu.
LEMMA OptionStep ==
  ASSUME Inv, Next
  PROVE  OptionHasMenu'
<1>0. /\ menu \in [MenuIds -> MenuRow]
      /\ option \in [OptionIds -> MenuIds \cup {None}]
      /\ OptionHasMenu
  BY DEF Inv, TypeOK
<1>1. ASSUME NEW o \in OptionIds, WriteOption(o) \/ DeleteOption(o)
      PROVE  OptionHasMenu'
  <2>1. UNCHANGED menu
    BY <1>1 DEF WriteOption, DeleteOption
  <2>2. PICK m \in MenuIds \cup {None} :
          option' = [option EXCEPT ![o] = m] /\ (m # None => OnMenu(m))
    BY <1>1 DEF WriteOption, DeleteOption
  <2> QED
    BY <1>0, <2>1, <2>2 DEF OptionHasMenu, OnMenu
<1>2. ASSUME UNCHANGED option,
             \A m \in MenuIds : OnMenu(m) /\ HasOption(m) => OnMenu(m)'
      PROVE  OptionHasMenu'
  <2>1. ASSUME NEW o \in OptionIds, option[o] # None PROVE OnMenu(option[o])'
    <3> DEFINE m == option[o]
    <3>1. m \in MenuIds /\ OnMenu(m) /\ HasOption(m)
      BY <1>0, <2>1 DEF OptionHasMenu, HasOption
    <3>2. menu'[m].state \in Statuses
      BY <1>2, <3>1 DEF OnMenu
    <3> QED
      BY <1>2, <3>2 DEF OnMenu
  <2> QED
    BY <1>2, <2>1 DEF OptionHasMenu
<1>3. CASE UNCHANGED <<option, menu>>
  BY <1>2, <1>3 DEF OnMenu
<1>4. ASSUME NEW m \in MenuIds, NEW n, NEW r, NEW s \in Statuses,
             Writes(m, n, r, s), UNCHANGED option
      PROVE  OptionHasMenu'
  <2>1. \A k \in MenuIds : OnMenu(k) => OnMenu(k)'
    BY <1>0, <1>4 DEF Writes, OnMenu
  <2> QED
    BY <1>2, <1>4, <2>1
<1>5. ASSUME NEW S \in SUBSET MenuIds, Removes(S), UNCHANGED option
      PROVE  OptionHasMenu'
  <2>1. \A k \in MenuIds : OnMenu(k) /\ HasOption(k) => OnMenu(k)'
    BY <1>5 DEF Removes, OnMenu
  <2> QED
    BY <1>2, <1>5, <2>1
<1> QED
  BY <1>1, <1>3, <1>4, <1>5, OptionSteps, MenuForm

\* The invariant is kept.
LEMMA InvStep ==
  ASSUME Inv, [Next]_vars
  PROVE  Inv'
<1>1. CASE Next
  <2>1. TypeOK'
    BY <1>1, RequestsStep, BudgetStep, RestaurantType, AdminType, MenuType,
       OtherTypes DEF TypeOK, Inv
  <2>2. LocalsOK'
    BY <1>1, RequestsStep
  <2>3. RowsOK'
    BY <1>1, AdminType, MenuType DEF RowsOK, AdminsOK, MenusOK
  <2>4. RestaurantStays'
    BY <1>1, AdminStaysStep, MenuStaysStep DEF RestaurantStays
  <2> QED
    BY <1>1, <2>1, <2>2, <2>3, <2>4, FirstAdminStep, OptionStep DEF Inv
<1>2. CASE UNCHANGED vars
  BY <1>2 DEF vars, rows, Inv, TypeOK, LocalsOK, RowsOK, HasFirstAdmin,
              RestaurantStays, OptionHasMenu, Serves, Open, OnMenu, RootOf,
              Vouched
<1> QED
  BY <1>1, <1>2

\* It holds throughout.
LEMMA InvariantHolds == Spec => []Inv
BY InitInv, InvStep, PTL DEF Spec

\* Rows and requests keep their types.
THEOREM TypesHold == Spec => []TypeOK
BY InvariantHolds, PTL DEF Inv

\* Whoever registers what at the same time: no restaurant is created without an
\* admin who may manage it (createRestaurant).
THEOREM FirstAdminHolds == Spec => []HasFirstAdmin
BY InvariantHolds, PTL DEF Inv

\* Deleting a restaurant races with the registration of its admins and the adding
\* of its menus; no admin and no menu is left behind.
THEOREM RestaurantStaysHolds == Spec => []RestaurantStays
BY InvariantHolds, PTL DEF Inv

\* No deletion of a menu, with its restaurant or alone, leaves an option behind.
THEOREM OptionHasMenuHolds == Spec => []OptionHasMenu
BY InvariantHolds, PTL DEF Inv

----------------------------------------------------------------------------
\* Emails, names of restaurants and names of menus implement Register.

emailBar == [a \in AdminIds |-> IF Serves(a) THEN admin[a].email ELSE None]
nameBar  == [r \in RestaurantIds |->
               IF Open(r) THEN restaurant[r].name ELSE None]
menuBar  == [m \in MenuIds |->
               IF OnMenu(m) THEN <<menu[m].at, menu[m].name>> ELSE None]

\* Without rows nobody holds anything.
LEMMA InitRefines ==
  ASSUME Init
  PROVE  /\ emailBar = [a \in AdminIds |-> None]
         /\ nameBar  = [r \in RestaurantIds |-> None]
         /\ menuBar  = [m \in MenuIds |-> None]
BY DEF Init, emailBar, nameBar, menuBar, Serves, Open, OnMenu, NoAdmin,
       NoRestaurant, NoMenu, Statuses

\* A registered admin takes an email, a removed one gives it up.
LEMMA EmailStep ==
  ASSUME Inv, Next
  PROVE  EmailRegister!Next \/ UNCHANGED emailBar
<1>0. admin \in [AdminIds -> AdminRow]
  BY DEF Inv, TypeOK
<1>1. ASSUME NEW a \in AdminIds, NEW e \in Emails, NEW role, NEW r,
             Registers(a, e, role, r)
      PROVE  EmailRegister!Take(a)
  <2>1. \A b \in AdminIds : emailBar[b] # e
    BY <1>1, NoneFresh DEF Registers, EmailTaken, emailBar
  <2>2. \A b \in AdminIds : emailBar'[b] = IF b = a THEN e ELSE emailBar[b]
    BY <1>0, <1>1 DEF Registers, NewAdmin, emailBar, Serves
  <2>3. emailBar' = [emailBar EXCEPT ![a] = e]
    BY <2>2 DEF emailBar
  <2> QED
    BY <2>1, <2>3 DEF EmailRegister!Take, EmailRegister!Free, emailBar
<1>2. ASSUME NEW a \in AdminIds, Dismisses(a) PROVE EmailRegister!GiveUp({a})
  <2>1. admin' = [admin EXCEPT ![a] = [admin[a] EXCEPT !.state = "deleted"]]
    BY <1>2 DEF Dismisses
  <2>2. [admin[a] EXCEPT !.state = "deleted"].state = "deleted"
    BY <1>0 DEF AdminRow
  <2>3. \A b \in AdminIds : emailBar'[b] = IF b \in {a} THEN None ELSE emailBar[b]
    BY <1>0, <2>1, <2>2 DEF emailBar, Serves
  <2> QED
    BY <2>3 DEF EmailRegister!GiveUp, emailBar
<1>3. CASE UNCHANGED admin
  BY <1>3 DEF emailBar, Serves
<1> QED
  BY <1>1, <1>2, <1>3, AdminForm DEF EmailRegister!Next

\* A restaurant takes a name when it is created and when it is renamed.
LEMMA NameStep ==
  ASSUME Inv, Next
  PROVE  NameRegister!Next \/ UNCHANGED nameBar
<1>0. restaurant \in [RestaurantIds -> RestaurantRow]
  BY DEF Inv, TypeOK
<1>1. ASSUME NEW r \in RestaurantIds, NEW n \in RestaurantNames, Names(r, n)
      PROVE  NameRegister!Take(r)
  <2>1. \A k \in RestaurantIds : nameBar[k] # n
    BY <1>1, NoneFresh DEF Names, RestaurantNameTaken, nameBar
  <2>2. \A k \in RestaurantIds : nameBar'[k] = IF k = r THEN n ELSE nameBar[k]
    BY <1>0, <1>1 DEF Names, nameBar, Open
  <2>3. nameBar' = [nameBar EXCEPT ![r] = n]
    BY <2>2 DEF nameBar
  <2> QED
    BY <2>1, <2>3 DEF NameRegister!Take, NameRegister!Free, nameBar
<1>2. ASSUME NEW r \in RestaurantIds, Deletes(r) PROVE NameRegister!GiveUp({r})
  <2>1. restaurant' = [restaurant EXCEPT
                         ![r] = [restaurant[r] EXCEPT !.state = "deleted"]]
    BY <1>2 DEF Deletes
  <2>2. [restaurant[r] EXCEPT !.state = "deleted"].state = "deleted"
    BY <1>0 DEF RestaurantRow
  <2>3. \A k \in RestaurantIds :
          nameBar'[k] = IF k \in {r} THEN None ELSE nameBar[k]
    BY <1>0, <2>1, <2>2 DEF nameBar, Open
  <2> QED
    BY <2>3 DEF NameRegister!GiveUp, nameBar
<1>3. CASE UNCHANGED restaurant
  BY <1>3 DEF nameBar, Open
<1> QED
  BY <1>1, <1>2, <1>3, RestaurantForm DEF NameRegister!Next

\* A menu takes its name in its restaurant, or is written without a new one.
LEMMA MenuNameStep ==
  ASSUME Inv, Next
  PROVE  MenuRegister!Next \/ UNCHANGED menuBar
<1>0. menu \in [MenuIds -> MenuRow]
  BY DEF Inv, TypeOK
<1>1. ASSUME NEW m \in MenuIds, NEW n \in FoodNames, NEW r \in RestaurantIds,
             NEW s \in Statuses, Writes(m, n, r, s)
      PROVE  MenuRegister!Take(m) \/ UNCHANGED menuBar
  <2>1. menu' = [menu EXCEPT ![m] = [state |-> s, name |-> n, at |-> r]]
    BY <1>1 DEF Writes
  <2>2. \A k \in MenuIds : menuBar'[k] = IF k = m THEN <<r, n>> ELSE menuBar[k]
    BY <1>0, <2>1 DEF menuBar, OnMenu
  <2>3. CASE OnMenu(m) /\ menu[m].name = n /\ menu[m].at = r
    <3>1. menuBar[m] = <<r, n>>
      BY <2>3 DEF menuBar
    <3>2. \A k \in MenuIds : menuBar'[k] = menuBar[k]
      BY <2>2, <3>1
    <3> QED
      BY <3>2 DEF menuBar
  <2>4. CASE ~MenuNameTaken(n, r)
    <3>1. <<r, n>> \in RestaurantIds \X FoodNames /\ <<r, n>> # None
      BY NoneFresh
    <3>2. \A k \in MenuIds : menuBar[k] # <<r, n>>
      BY <2>4, <3>1 DEF MenuNameTaken, menuBar
    <3>3. menuBar' = [menuBar EXCEPT ![m] = <<r, n>>]
      BY <2>2 DEF menuBar
    <3> QED
      BY <3>1, <3>2, <3>3 DEF MenuRegister!Take, MenuRegister!Free, menuBar
  <2> QED
    BY <1>1, <2>3, <2>4 DEF Writes
<1>2. ASSUME NEW S \in SUBSET MenuIds, Removes(S) PROVE MenuRegister!GiveUp(S)
  <2>1. \A m \in MenuIds : [menu[m] EXCEPT !.state = "deleted"].state = "deleted"
    BY <1>0 DEF MenuRow
  <2>2. \A m \in MenuIds : menu'[m] = IF m \in S
                                      THEN [menu[m] EXCEPT !.state = "deleted"]
                                      ELSE menu[m]
    BY <1>2 DEF Removes
  <2>3. \A m \in MenuIds : menuBar'[m] = IF m \in S THEN None ELSE menuBar[m]
    BY <2>1, <2>2 DEF menuBar, OnMenu, Statuses
  <2> QED
    BY <2>3 DEF MenuRegister!GiveUp, menuBar
<1>3. CASE UNCHANGED menu
  BY <1>3 DEF menuBar, OnMenu
<1> QED
  BY <1>1, <1>2, <1>3, MenuForm DEF MenuRegister!Next

\* A step of nobody takes nothing.
LEMMA BarsKept == UNCHANGED vars => UNCHANGED <<emailBar, nameBar, menuBar>>
BY DEF vars, rows, emailBar, nameBar, menuBar, Serves, Open, OnMenu

\* An email has one owner, by whichever route and at whatever time it is
\* registered (createRestaurant, createAdmin).
THEOREM EmailsOwned == Spec => EmailsAreOwned
<1>1. Init => EmailRegister!Init
  BY InitRefines DEF EmailRegister!Init, emailBar
<1>2. ASSUME Inv, [Next]_vars PROVE [EmailRegister!Next]_emailBar
  BY <1>2, EmailStep, BarsKept
<1> QED
  BY <1>1, <1>2, InvariantHolds, PTL
     DEF Spec, EmailsAreOwned, EmailRegister!Spec, emailBar

\* A restaurant's name has one owner (createRestaurant, updateRestaurant).
THEOREM NamesOwned == Spec => NamesAreOwned
<1>1. Init => NameRegister!Init
  BY InitRefines DEF NameRegister!Init, nameBar
<1>2. ASSUME Inv, [Next]_vars PROVE [NameRegister!Next]_nameBar
  BY <1>2, NameStep, BarsKept
<1> QED
  BY <1>1, <1>2, InvariantHolds, PTL
     DEF Spec, NamesAreOwned, NameRegister!Spec, nameBar

\* A menu's name has one owner in a restaurant (addMenu, updateMenu).
THEOREM MenuNamesOwned == Spec => MenuNamesAreOwned
<1>1. Init => MenuRegister!Init
  BY InitRefines DEF MenuRegister!Init, menuBar
<1>2. ASSUME Inv, [Next]_vars PROVE [MenuRegister!Next]_menuBar
  BY <1>2, MenuNameStep, BarsKept
<1> QED
  BY <1>1, <1>2, InvariantHolds, PTL
     DEF Spec, MenuNamesAreOwned, MenuRegister!Spec, menuBar
=============================================================================
