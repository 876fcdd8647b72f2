----------------------------- MODULE Restaurant -----------------------------
(***************************************************************************)
(* Admins at work in several restaurants while guests order: Accounts and  *)
(* Catalogue composed over the rows of Office.                             *)
(***************************************************************************)
EXTENDS Accounts, Catalogue

TypeOK ==
  /\ restaurant \in [RestaurantIds -> RestaurantRow]
  /\ admin   \in [AdminIds -> AdminRow]
  /\ menu    \in [MenuIds -> MenuRow]
  /\ option  \in [OptionIds -> MenuIds \cup {None}]
  /\ food    \in [FoodIds -> FoodRow]
  /\ account \in [AccountIds -> RestaurantIds \cup {None}]
  /\ tabled  \subseteq RestaurantIds
  /\ req     \in [Handlers -> Request]
  /\ budget  \in 0..MaxRequests

\* The bound on requests is used up and every one was answered.
Rest ==
  /\ \A h \in Handlers : At(h, "idle")
  /\ UNCHANGED vars

Next ==
  \/ \E h \in Handlers :
       \/ PostRestaurant(h) \/ RegisterAdmin(h) \/ AddMenu(h) \/ CreateOrder(h)
       \/ AccountsStep(h) \/ CatalogueStep(h)
  \/ \E r \in RestaurantIds :
       \/ UpdateRestaurant(r) \/ DeleteRestaurant(r)
       \/ OpenTables(r) \/ DeleteTables(r)
  \/ \E a \in AdminIds : DeleteAdmin(a)
  \/ \E b \in AccountIds : CreateBankAccount(b) \/ DeleteBankAccount(b)
  \/ \E m \in MenuIds : UpdateMenu(m) \/ DeleteMenu(m)
  \/ \E o \in OptionIds : WriteOption(o) \/ DeleteOption(o)
  \/ \E f \in FoodIds : DeleteFood(f)
  \/ Rest

Spec == Init /\ [][Next]_vars

----------------------------------------------------------------------------
EmailRegister == INSTANCE Register WITH
  Holders <- AdminIds, Names <- Emails, Nobody <- None,
  name <- [a \in AdminIds |-> IF Serves(a) THEN admin[a].email ELSE None]

NameRegister == INSTANCE Register WITH
  Holders <- RestaurantIds, Names <- RestaurantNames, Nobody <- None,
  name <- [r \in RestaurantIds |->
             IF Open(r) THEN restaurant[r].name ELSE None]

MenuRegister == INSTANCE Register WITH
  Holders <- MenuIds, Names <- RestaurantIds \X FoodNames, Nobody <- None,
  name <- [m \in MenuIds |->
             IF OnMenu(m) THEN <<menu[m].at, menu[m].name>> ELSE None]

\* An email is one admin's, from its registration to the admin's deletion, whoever
\* registers it at the same time by whichever of the two routes (createRestaurant,
\* createAdmin); a login finds nobody else.
EmailsAreOwned == EmailRegister!Spec

\* A restaurant's name is taken, also by renaming, only while no other has it.
NamesAreOwned == NameRegister!Spec

\* A menu is the only one of its name in its restaurant, whoever adds and renames
\* at the same time; all names of a restaurant are given up with it (addMenu,
\* updateMenu, deleteRestaurantById).
MenuNamesAreOwned == MenuRegister!Spec

\* Every restaurant came with a root admin of its own: one that lost the race for
\* its email would be a restaurant nobody can manage (createRestaurant).
HasFirstAdmin ==
  \A r \in RestaurantIds : Open(r) => RootOf(r)

\* No admin and no menu is left without its restaurant, whatever is created while
\* the restaurant is deleted (createAdmin, addMenu, deleteRestaurantById).
RestaurantStays ==
  /\ \A a \in AdminIds : Serves(a) => Open(admin[a].at)
  /\ \A m \in MenuIds : OnMenu(m) => Open(menu[m].at)

\* An option always belongs to a menu, whatever is deleted while it is created or
\* moved (deleteMenu, createOption, updateOption, deleteRestaurantById).
OptionHasMenu ==
  \A o \in OptionIds : option[o] # None => OnMenu(option[o])
=============================================================================
