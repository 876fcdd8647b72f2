------------------------------- MODULE Store -------------------------------
(***************************************************************************)
(* The rows of the database (prisma/schema.prisma) that a visit to a table *)
(* reads and writes, and the requests the server is working on.  A handler *)
(* of the server is an async function: between two of its awaits nothing   *)
(* else runs, at an await any other handler may.  A request in progress is *)
(* therefore a slot h \in Handlers with a program counter that names the   *)
(* awaited database call it is waiting for, and the locals still in use.   *)
(***************************************************************************)
EXTENDS Naturals, FiniteSets, Sequences, SequencesExt

CONSTANTS
  Tables, ActiveTables,  \* rows of Table, and those with isActivate
  Groups,                \* ids of ClientGroup; also those of its Order and Bill
  Clients, Names,        \* ids and usernames of Client
  Foods, Items,          \* ids of FoodOrder, and of the entries of a cart
  Sockets,               \* connections of guests
  Handlers,              \* requests the server works on at the same time
  Kinds,                 \* kinds of request that arrive
  AdminDtos,             \* bodies of updateClientOrder
  ClearStatuses,         \* statuses a waiter's clearTable message carries
  MaxRequests,           \* bound: requests of one behaviour
  MaxList,               \* bound: entries of an ordered list that is not the cart
  None

GroupStatus == {"IN_PROGRESS", "COMPLETED", "REJECT"}
OrderStatus == {"BILLING", "PAID", "NOT_CHECKOUT", "CANCEL"}
FoodStatus  == {"PENDING", "COOKING", "SERVED", "CANCEL"}
BillStatus  == {"NOT_PAID", "PAID", "CANCEL"}

\* The part of AdminUpdateOrderDto that is acted on: the new order status, what
\* to do with the listed food, the table to move to, the bill's new status
\* ("KEEP": the bill is named, but no status), and whether deleteClientList names
\* a guest.
AdminDto == [status : OrderStatus \cup {None},
             food : FoodStatus \cup {"DELETE", None},
             transfer : Tables \cup {None},
             bill : BillStatus \cup {"KEEP", None},
             expel : BOOLEAN]

NoDto == [status |-> None, food |-> None, transfer |-> None, bill |-> None,
          expel |-> FALSE]

ASSUME NoneAssumption ==
  /\ None \notin Tables \cup Groups \cup Clients \cup Names \cup Items
               \cup Sockets
  /\ None \notin OrderStatus \cup FoodStatus \cup BillStatus
               \cup {"DELETE", "KEEP"}
ASSUME InputAssumption ==
  /\ ActiveTables \subseteq Tables
  /\ AdminDtos \subseteq AdminDto
  /\ ClearStatuses \subseteq GroupStatus
  /\ MaxRequests \in Nat
  /\ MaxList \in Nat
ASSUME HandlersAssumption == IsFiniteSet(Handlers)

VARIABLES
  group,   \* ClientGroup rows
  order,   \* Order rows, by their clientGroupId (unique)
  bill,    \* Bill rows, by their order (unique)
  food,    \* FoodOrder rows
  client,  \* Client rows
  socket,  \* what the server keeps on a connection
  req,     \* the requests in progress
  budget   \* requests that may still arrive

rows == <<group, order, bill, food, client>>
vars == <<group, order, bill, food, client, socket, req, budget>>

Entry == [id : Items, user : Clients \cup {None}]

\* reopened is history, not a column: a waiter's clearTable has put a session that
\* was over back IN_PROGRESS.
GroupRow  == [status : GroupStatus \cup {"none"}, table : Tables \cup {None},
              cart : Seq(Entry), reopened : BOOLEAN]
OrderRow  == [status : OrderStatus \cup {"none"}, table : Tables \cup {None},
              overall : {"PENDING", "ALL_SERVED"}]
BillRow   == [status : BillStatus \cup {"none"}, foods : SUBSET Foods]
FoodRow   == [status : FoodStatus \cup {"none", "deleted"},
              order : Groups \cup {None}, client : Clients \cup {None},
              item : Items \cup {None}]
ClientRow == [status : {"none", "ONLINE", "OFFLINE", "deleted"},
              name : Names \cup {None}, group : Groups \cup {None}]

NoGroup  == [status |-> "none", table |-> None, cart |-> <<>>,
             reopened |-> FALSE]
NoOrder  == [status |-> "none", table |-> None, overall |-> "PENDING"]
NoBill   == [status |-> "none", foods |-> {}]
NoFood   == [status |-> "none", order |-> None, client |-> None, item |-> None]
NoClient == [status |-> "none", name |-> None, group |-> None]

\* client.data.userId and the room of a guest's connection.
Connection   == [live : BOOLEAN, user : Clients \cup {None},
                 room : Tables \cup {None}]
NewConnection == [live |-> TRUE, user |-> None, room |-> None]

Labels ==
  {"idle", "find", "createGroup", "noti",
   "checkName", "findClient", "createClient", "reconnect",
   "leaveFoods", "deleteClient", "offline",
   "selectBill", "push", "deselectBill", "deselectWrite",
   "orderGroup", "insertOrder", "setMethod", "updateWrite", "clearCart",
   "foodWrite", "adminRead", "createBill", "setBill", "adminWrite", "complete",
   "cancel", "cancelBill", "cancelOrder",
   "expelRead", "expelCart", "expelFoods", "expelFood",
   "rejectOrder", "rejectFoods", "rejectFood", "rejectGroup"}

\* A request: where it is (pc), where getCurrentClientGroupOrNew returns to
\* (ret), the connection, table, session, guest, username and cart entry it is
\* about, and what it read and still holds: a cart, foods, a condition, isPaid.
Request == [pc : Labels, ret : Labels, s : Sockets \cup {None},
            t : Tables \cup {None}, g : Groups \cup {None},
            c : Clients \cup {None}, name : Names \cup {None},
            item : Items \cup {None},
            cart : Seq(Entry), foods : SUBSET Foods, flag : BOOLEAN,
            failed : BOOLEAN, paid : BOOLEAN, dto : AdminDtos \cup {NoDto}]

Idle == [pc |-> "idle", ret |-> "idle", s |-> None, t |-> None, g |-> None,
         c |-> None, name |-> None, item |-> None, cart |-> <<>>,
         foods |-> {}, flag |-> FALSE, failed |-> FALSE, paid |-> FALSE,
         dto |-> NoDto]

TypeOK ==
  /\ group  \in [Groups -> GroupRow]
  /\ order  \in [Groups -> OrderRow]
  /\ bill   \in [Groups -> BillRow]
  /\ food   \in [Foods -> FoodRow]
  /\ client \in [Clients -> ClientRow]
  /\ socket \in [Sockets -> Connection]
  /\ req    \in [Handlers -> Request]
  /\ budget \in 0..MaxRequests

Init ==
  /\ group  = [g \in Groups |-> NoGroup]
  /\ order  = [g \in Groups |-> NoOrder]
  /\ bill   = [g \in Groups |-> NoBill]
  /\ food   = [f \in Foods |-> NoFood]
  /\ client = [c \in Clients |-> NoClient]
  /\ socket = [s \in Sockets |-> NewConnection]
  /\ req    = [h \in Handlers |-> Idle]
  /\ budget = MaxRequests

----------------------------------------------------------------------------
\* Queries: what a find of the code returns in the current state.

Existing == {g \in Groups : group[g].status # "none"}
InProgress(t) ==
  {g \in Groups : group[g].status = "IN_PROGRESS" /\ group[g].table = t}
OpenOrders(t) ==
  {g \in Groups : order[g].status = "NOT_CHECKOUT" /\ order[g].table = t}
HasClient(c) == client[c].status \in {"ONLINE", "OFFLINE"}
HasFood(f) == food[f].status \in FoodStatus
FoodsOfOrder(g) == {f \in Foods : HasFood(f) /\ food[f].order = g}
FoodsOfClient(c) == {f \in Foods : HasFood(f) /\ food[f].client = c}
InBilling(g) == bill[g].status \in {"NOT_PAID", "PAID"}

\* A generated id is some unused one.  Ids are opaque, so it does not matter
\* which: one of the set, or none when the instance has no id left.
Pick(S) == IF S = {} THEN {} ELSE {CHOOSE x \in S : TRUE}

----------------------------------------------------------------------------
\* The life of a request.

At(h, l) == req[h].pc = l
Goto(h, l) == req' = [req EXCEPT ![h].pc = l]

\* The reply, an error or not, that ends a handler.
Answer(h) == req' = [req EXCEPT ![h] = Idle]

\* A message arrives and an idle slot takes it up to its first awaited call.
Accept(h, kind, r) ==
  /\ kind \in Kinds
  /\ budget > 0
  /\ At(h, "idle")
  /\ budget' = budget - 1
  /\ req' = [req EXCEPT ![h] = r]

\* The server process stops and is started again: the rows stay, requests and
\* connections are lost, and no 'disconnecting' callback runs.
Crash ==
  /\ "crash" \in Kinds
  /\ budget > 0
  /\ budget' = budget - 1
  /\ req' = [h \in Handlers |-> Idle]
  /\ socket' = [s \in Sockets |-> NewConnection]
  /\ UNCHANGED rows
============================================================================
