------------------------------- MODULE Office -------------------------------
(***************************************************************************)
(* The rows admins look after, and a request in progress: restaurants,     *)
(* their admins and bank accounts, what they offer.  Of the tables of a    *)
(* restaurant only that it has some is kept, of an order the restaurant    *)
(* and the menus of its foods.                                             *)
(***************************************************************************)
EXTENDS Naturals, FiniteSets, Functions

CONSTANTS
  RestaurantIds, AdminIds, MenuIds, OptionIds, FoodIds, AccountIds,
  RestaurantNames, Emails, FoodNames,
  Handlers, Kinds, MaxRequests, None

ASSUME NoneFresh ==
  None \notin RestaurantIds \cup MenuIds \cup RestaurantNames \cup Emails
              \cup FoodNames \cup (RestaurantIds \X FoodNames)
ASSUME MaxBounded == MaxRequests \in Nat

VARIABLES
  restaurant, admin, menu,  \* rows by id
  option,                   \* the menu of an Option row
  food,                     \* the menu of a FoodOrder row, and where it is eaten
  account,                  \* the restaurant of a BankAccount row
  tabled,                   \* restaurants that Table rows name
  req, budget

rows == <<restaurant, admin, menu, option, food, account, tabled>>
vars == <<rows, req, budget>>

Statuses == {"NORMAL", "CANCEL"}
Roles    == {"ROOT", "STAFF"}

RestaurantRow == [state : {"none", "here", "deleted"},
                  name : RestaurantNames \cup {None}]
AdminRow == [state : {"none", "here", "deleted"}, email : Emails \cup {None},
             role : Roles \cup {None}, at : RestaurantIds \cup {None}]
MenuRow  == [state : Statuses \cup {"none", "deleted"},
             name : FoodNames \cup {None}, at : RestaurantIds \cup {None}]
FoodRow  == [menu : MenuIds \cup {None}, at : RestaurantIds \cup {None}]

NoRestaurant == [state |-> "none", name |-> None]
NoAdmin == [state |-> "none", email |-> None, role |-> None, at |-> None]
NoMenu  == [state |-> "none", name |-> None, at |-> None]
NoFood  == [menu |-> None, at |-> None]

\* at: the restaurant of the admin, or of the guest.  name: of a restaurant or a
\* menu.  ordered: the menus of the list that is ordered; toRead: those of them
\* that validateMenuList has not read yet.
Request == [pc : {"idle", "findRestaurant", "createRestaurant", "findEmail",
                  "createAdmin", "findMenu", "createMenu", "validate", "insert"},
            at : RestaurantIds \cup {None},
            name : RestaurantNames \cup FoodNames \cup {None},
            email : Emails \cup {None},
            ordered : SUBSET MenuIds, toRead : SUBSET MenuIds]
Idle == [pc |-> "idle", at |-> None, name |-> None, email |-> None,
         ordered |-> {}, toRead |-> {}]

Init ==
  /\ restaurant = [r \in RestaurantIds |-> NoRestaurant]
  /\ admin   = [a \in AdminIds |-> NoAdmin]
  /\ menu    = [m \in MenuIds |-> NoMenu]
  /\ option  = [o \in OptionIds |-> None]
  /\ food    = [f \in FoodIds |-> NoFood]
  /\ account = [b \in AccountIds |-> None]
  /\ tabled  = {}
  /\ req     = [h \in Handlers |-> Idle]
  /\ budget  = MaxRequests

----------------------------------------------------------------------------
Open(r)    == restaurant[r].state = "here"
Serves(a)  == admin[a].state = "here"
OnMenu(m)  == menu[m].state \in Statuses

\* The unique indexes of the schema.
RestaurantNameTaken(n) == \E r \in RestaurantIds : Open(r) /\ restaurant[r].name = n
EmailTaken(e)          == \E a \in AdminIds : Serves(a) /\ admin[a].email = e
MenuNameTaken(n, r)    == \E m \in MenuIds :
                            OnMenu(m) /\ menu[m].name = n /\ menu[m].at = r

\* Deleting a row another row requires is refused (of the schema's relations only
\* that of a menu to its restaurant names onDelete).
Ordered(m)   == \E f \in FoodIds : food[f].menu = m
HasOption(m) == \E o \in OptionIds : option[o] = m

\* The guards read the admin once, before the images are uploaded; when the admin
\* is deleted meanwhile the request goes on.  How long that takes is open, so a
\* request may be that of an admin who was there at any time.
Vouched(r, roles) ==
  \E a \in AdminIds : admin[a].at = r /\ admin[a].role \in roles
RootOf(r) == Vouched(r, {"ROOT"})
SomeRoot  == \E r \in RestaurantIds : RootOf(r)
SomeAdmin == \E r \in RestaurantIds : Vouched(r, Roles)

\* A generated id is some unused one; ids are opaque, so any will do.
Pick(S) == IF S = {} THEN {} ELSE {CHOOSE x \in S : TRUE}
Unused(table) == Pick({i \in DOMAIN table : table[i].state = "none"})

At(h, l)   == req[h].pc = l
Goto(h, l) == req' = [req EXCEPT ![h].pc = l]
Answer(h)  == req' = [req EXCEPT ![h] = Idle]
Arrive(kind) == kind \in Kinds /\ budget > 0 /\ budget' = budget - 1
Accept(h, kind, r) ==
  /\ Arrive(kind)
  /\ At(h, "idle")
  /\ req' = [req EXCEPT ![h] = r]
=============================================================================
