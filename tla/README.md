# Menuler: a verification development of the backend

Menuler is the server of restaurants whose guests order from their phones. A
guest scans the code on a table, joins the table's *session* (a `ClientGroup`
row), selects food into the session's shared cart, and one guest sends the cart
to the kitchen as the session's order. A waiter serves the food, makes out the
bill, takes the payment, moves or cancels the order, removes guests, and clears
the table. The server is a NestJS process (`src/src`) with a MongoDB database
behind Prisma (`src/prisma/schema.prisma`).

The hard part is concurrency. Every message is handled by an async function that
awaits three to ten database calls. Nothing is locked and no transaction spans
two calls, so at every await any other handler may run, with the rows a handler
has already read and goes on to use. This development models each awaited call
that matters as one atomic step, and checks and proves what all interleavings of
those steps preserve.

## Inventory

| component | state | operations | correct when |
|---|---|---|---|
| Table sessions (`client.service.ts`, `client-group.service.ts`, `client.controller.ts`) | `ClientGroup` rows: status, table | `getCurrentClientGroupOrNew` (find or create), payment, cancellation, REST and WebSocket `clearTable` | a table has one party at a time, only a waiter opens a closed session again, an open order has a session |
| Guests (`client.gateway.ts`, `client.service.ts`) | `Client` rows; data and room of each socket | `joinTable`, `leaveTable`, the `disconnecting` callback | a guest belongs to the session of the table; a guest with food stays |
| Cart (`client.gateway.ts`) | `selectedFoodList` of the session | `selectFood` (push), `deselectFood` (read, splice, write back) | no entry twice, no entry lost |
| Guest orders (`client.gateway.ts`, `order.service.ts`) | `Order` and `FoodOrder` rows | `handleCreateOrder`, `handleUpdateOrder` | what was ordered leaves the cart; nothing is ordered while the bill is open |
| Waiter and bill (`client.gateway.ts`, `bill.service.ts`, `food-order.service.ts`) | `Order`, `Bill`, `FoodOrder` rows | `updateClientOrder`: food, guests, bill, status, table; REST removal of a guest | order, bill, food and session agree |
| Broadcasts (`notiToTable`, `currentOrder`) | what the devices show | sent at the end of most handlers | what is shown is what the rows hold |
| Tables (`table.service.ts`) | `Table` rows | create, rename, renew the token, delete | sessions and orders of a table go with it |
| Restaurant summary (`restaurant.service.ts`) | none | totals, leader board, top ten | totals are those of the paid orders |
| Menu and options (`menu.service.ts`, `option.service.ts`) | `Menu` and `Option` rows | add, update, delete; validation of what is ordered | a name has one menu in a restaurant; an option and an ordered food have their menu |
| Admins, restaurants, accounts (`restaurant.controller.ts`, `restaurant.service.ts`, `admin.service.ts`, `bank-account.service.ts`) | `Restaurant`, `Admin`, `BankAccount` rows | create a restaurant with its first admin, register admins, rename, delete; bank accounts | a name and an email have one owner; a restaurant comes with an admin and goes only when nothing needs it |
| Authentication and guards (`jwt-admin.strategy.ts`, `role.guard.ts`) | none | read the admin before the handler runs | only admins who were there act |
| File upload, framework glue | none, or outside the process | | |

They interact through the database only: the services hold no state between
requests. The exception is the socket, which carries a guest's id from one
message to the next.

What is hard, and listed line by line under `hazards` in `PROJECT.json`:
look-up and creation in two calls (two sessions, two orders, two guests of one
name); a cart read, held across awaits and written back whole; an order checked
and then written; two writes issued at once of which one fails; a removal of
guests that nothing awaits; a list read and broadcast an await later; a bill paid in three writes with a restart between
them; requests repeated by a second device, or sent with a list that is out of date.

## Modules

| module | models |
|---|---|
| `Store` | the rows, the connections, a request in progress, the queries, a restart |
| `ClientService` | `getCurrentClientGroupOrNew`, `notiToTable`, the REST `clearTable` |
| `GuestGateway` | `joinTable`, `leaveTable`, the `disconnecting` callback |
| `CartGateway` | `selectFood`, `deselectFood` |
| `OrderGateway` | `handleCreateOrder`, `handleUpdateOrder` |
| `AdminGateway` | `updateClientOrder` with bill, payment, cancellation, removal of guests; the REST removal of a guest; the WebSocket `clearTable` |
| `Menuler` | the server: all handlers, a restart; the properties |
| `TableSessions` | the abstract promise about sessions |
| `MCMenuler` | constants and initial states of the runs |
| `MenulerInvariant` | proofs: types, and the invariant of requests and rows |
| `RequestMoves` | lemmas: what each action does to its request and its rows |
| `MenulerProofs` | proofs of what holds with any number of requests at a time |
| `SerialProofs` | proofs of what holds between requests, one at a time |
| `BroadcastProofs` | proofs of what devices and the kitchen are shown |
| `Tables`, `MCTables` | `table.service.ts` and its routes, against guests who join, leave and order; the REST `deleteOrder` |
| `TablesProofs` | its proofs: references, names and codes |
| `Summary`, `MCSummary` | `getRestaurantSummary` as operators over the orders of a restaurant |
| `SummaryProofs` | its proofs: sums, groups, rankings |
| `Broadcast`, `MCBroadcast` | what the devices of the guests and the kitchen show, on top of `Menuler` |
| `Office` | the rows admins look after, the unique indexes, what refuses a deletion, the guards |
| `Accounts` | restaurants, admins, bank accounts |
| `Catalogue` | `menu.service.ts` and `option.service.ts` with their routes, and the guests who order |
| `Restaurant`, `MCRestaurant` | `Accounts` and `Catalogue` at work on the rows of `Office`; the properties |
| `Register` | the abstract promise of a find-then-create service: a name has one owner |
| `RestaurantProofs` | its proofs |

`Tables`, `Summary` and `Restaurant` stand beside `Menuler`, with rows of their
own. `Tables` keeps of sessions, orders and guests only what refers to what, which
is all a deletion asks; `Summary` keeps of orders what is sold; `Restaurant` of an
order its restaurant and the menus of its foods, of tables whether there are any.
`Broadcast` extends `Menuler` and adds variables no handler reads.

**A request.** `req[h]` is one handler in progress: `pc` names the awaited call it
waits for, the other fields are the locals it still uses. `Arrive` is a message:
it does what the handler does up to its first call that matters. `Continue` is a
call that completes: the action takes its effect on the rows and everything the
handler does up to its next call. `Call` and `Return` are the call of
`getCurrentClientGroupOrNew` from five places. A call that only reads and whose
result is not used with a later read is merged with its neighbour (the menu
look-ups, the table look-up before a session look-up). A reply, error or not, is `Answer`.

**Rows.** A row that does not exist has status `none`; a deleted guest or food has
status `deleted`, so that an id is never used again. An order and its bill are
known by their session, because `clientGroupId` and `orderId` are unique. A cart
entry has its id and the guest who selected it. Menus, prices, notes, options and
`clientState` (written, never read by a handler) are left out. `reopened` is no
column but history: a `clearTable` message has put the session, which was over, back
`IN_PROGRESS`.

**Lists.** A guest orders the list in its message, and the code compares it with
nothing. `OrderLists` is what a device can show: the cart as it is, or a list of up
to `MaxList` entries the device may know (`Known`): of the cart, of food that was
ordered, or of an entry that is gone. So a message that is repeated, or sent by a
device that missed a broadcast, orders the same entries again.

**Two writes at once.** Under `Promise.all` the calls run in any order and a
failure of one does not stop the others: `RejectFood`, `ExpelDeleteFood`,
`CancelDeleteBill` and `CancelReopenOrder` are one step for each, with `failed`
remembering that the handler will answer with an error. `deleteClientList` hands
`Promise.all` an array of an array, so nothing awaits it: `AdminDeleteClientList`
starts the removal in a second handler, beside the first. The removal by REST
(`DeleteClientIdInFoodOrder`) is the same steps, awaited, in the one handler.

**Tables.** `insertTable` looks up and creates one name after the other
(`LookupName`, `InsertTable`). `updateTable` is one write: a name, `isActivate` and
a new token in any combination. `deleteTable` issues two deletions at once:
`pend` holds those not answered, `failed` that one was refused, and `DropTable`,
the table's own deletion, is issued when both are answered or one has failed, so
it may come before the other. A deletion takes all rows it names or none.
`issued` remembers the table each token was generated for; no action reads it but
the generation of a token.

**Restaurant.** `createRestaurant`, `registerAdmin` and `addMenu` are a look-up and
a creation (`FindRestaurant`, `CreateRestaurant`; `FindEmail`, `CreateAdmin`;
`CheckExistMenu`, `CreateMenu`) with the unique index of the schema as a second
guard; hashing the password and the look-up of a role are merged with them. The
restaurant and its first admin are one nested write, which the database does
wholly or not at all. `connect` finds the restaurant or fails; a bank account and a
table carry its id only. Updates and deletions are one call. Menus go with their
restaurant (`onDelete: Cascade`); admins, accounts, tables, and the options and
foods of its menus refuse its deletion.
The guards read the admin before the images are uploaded, which takes as long as
it takes: `Vouched` lets a request be that of an admin who was there at any time,
so a guard and the write it guards are one step. Any root admin may update or
delete any restaurant, admin and account, for the routes compare no restaurant;
menus are those of the admin's own. Nothing keeps a restaurant from losing its
last admin.
An order reads its menus one call each (`ValidateMenu`) and writes their ids in a
later one (`InsertFoods`), which does not look for them again: `createMany` takes
ids, and a menu deleted in between leaves a food without one. The menus may be of any restaurant.
The status of a menu is written as `menuStatus`; the field `isAvailable` that the
dto validates (`UpdateMenu.dto.ts:15`) is no column and fails the write, so a body
with it is a request without effect.

**Broadcast.** A step of `Broadcast` is a step of `Menuler` with what it tells.
`held[h]` is the session row a handler has read and will send: set when a look-up
or an update returns it (`LookedUp`, `Wrote`), and by `deselectFood`, which
splices the list of that very row. At the end of `notiToTable` (`Told`) every
device in the room shows it. `leaveTable` and a clearing thus send what was read
before the write, `joinTable` what a second look-up returned. The REST
`clearTable` awaits no broadcast: it goes to `late` and arrives at any time
(`SendLate`). `board` is the kitchen's list. A handler that is to tell the kitchen
(`KitchenTold`), or that a waiter's device asks (`GetCurrentOrder`), sends the query;
the query is answered with the `KitchenSize` newest open orders (`ReadOrders`,
`Listed`, ten in the code) and the handler emits them a step later (`EmitOrders`), so
of two handlers the older list may come last. `createAt` is the order of creation.
A handler that fetches the list (`Fetching`) takes no other step and is not free for
a message. A handler that throws before its last line tells nobody, as in the code.

**Summary.** The operators are the stages of `getRestaurantSummary`. `Fails` is the
case in which it throws: an option that was sold has been deleted since (the guard
at `restaurant.service.ts:199` tests another variable). The properties speak of
the summaries that are given. A food is named by its order and its place there
(`Positions`), so the flattened lists of the code are sets, `reduce` is a sum over
them, and the order in which the lists are read is `Earlier`.

**Names with a suffix** (`FindSession_OrdersOnly`, ...) are faulty variants of the
action that follows them. They are used by no specification; they show that each
property can tell the code from a plausible bug.

### Assumptions about the environment

* A database call is atomic. The relations of the schema name no `onDelete`, so
  Prisma refuses to delete a row that another row requires, and `connect` fails
  when the row is missing.
* A token (a uuid) and an id are never generated twice.
* A guest's device sends the token of the table it sits at, orders entries it was
  shown at some time, names the order of its own session, and has one connection at
  one table.
* A waiter's device names orders, food and guests that exist when it sends.
  A message lists at most one food and asks for one thing at a time; that is the
  set `AdminDtos` of a run, the module allows any combination but `expel` with
  other lists. A bill may be named without a status (`KEEP`). A `clearTable` message
  carries any status (`ClearStatuses`).
* `Client.clientGroupId` is `@unique` in the schema while `ClientGroup.client` is
  a list; the model follows the handlers, which let many guests into a session.
* When a table has several open sessions the look-up may return any of them; the
  code takes the first in an order the query does not fix.

## Runs

`MCTables`, `MCRestaurant` and `MCSummary` (with `MCIncome.cfg`) are runs of their own module,
`MCSerial` is one of `MCBroadcast`, the others are of `MCMenuler`. `Handlers` is how many requests the server works on
at the same time, `Kinds` which messages arrive, `MaxRequests` how many.

| cfg | start | at a time / in all | checks | shows | states |
|---|---|---|---|---|---|
| `MCSessions` | empty, 2 tables | 2 / 4 | `TypeOK`, `SessionsBounded`, `KeepsPromise` | joins, departures, lost connections, both clearings (a message with any status) and restarts open at most one session per request and never one twice, but those a waiter opens again | 44 thousand |
| `MCDinner` | a party that ordered | 2 / 3 | `OpenOrderHasSession`, `CartEntriesUnique` | guests and a waiter at one table, with restarts, lists out of date and removals: order and session stay in step; pushes and whole-cart writes never double an entry | 449 thousand |
| `MCSerial` | a party that ordered, or one that has paid; 2 tables | 1 / 3 | `CartShown`, `EveryoneListed`, `OrdersOnBoard`, `OrderedLeavesCart`, `BillMatchesOrder`, `ServedMeansServed` | every legal sequence of three messages, removals and lists out of date among them: after each the devices and the kitchen show what the rows hold, no cart offers what was ordered, and order, bill and food agree | 408 thousand |
| `MCProgress` | a party that ordered | 2 / 3 | `PaymentInHand`, `CancelledOrderClosesSession`, `RequestsWindDown`, `EveryRequestAnswered`, `PaymentClosesSession` | every call brings its request nearer to the answer, whatever the other does, a paid bill has a request about to close its session, and a cancelled order has closed it; so every request, also the cancellation of a bill, is answered, and a payment ends the session | 113 thousand |
| `MCTables` | one table | 2 / 5 | `TypeOK`, `ReferencesResolve`, `RoomIsOwnTable`, `NamesUnique` | creations, new names and codes and deletions against joins and orders: nothing dangles, no room hears another table, no name is taken twice | 422 thousand |
| `MCSummary` | nothing sold | – | `TypeOK`, `TotalsAgree`, `BestAreOnTop` | every history of two orders and three foods: totals over foods and over menus agree, the best are on top | 674 thousand |
| `MCRestaurant` | nothing | 2 / 6 | `TypeOK`, `HasFirstAdmin`, `RestaurantStays`, `OptionHasMenu`, `EmailsAreOwned`, `NamesAreOwned`, `MenuNamesAreOwned` | restaurants, admins, menus, options, accounts come and go while guests order: names, emails and menu names have one owner, nothing is left without the row it needs | 72 thousand |

Five runs state what the code says of itself and find that it does not keep it. TLC must find each property violated.

| cfg | the code says | what happens |
|---|---|---|
| `MCCleared` | `'cleared table'` (`client.gateway.ts:464`) | the WebSocket `clearTable` closes the session and leaves its order open: the look-up then finds an open order and no session, returns `undefined`, and the table is stranded |
| `MCBilling` | `You can not choose food because you are in billing progress` (`client.gateway.ts:244`) | only selecting is refused; a cart filled before is still added to the order by `handleUpdateOrder`, and the bill keeps its total |
| `MCTwoOrders` | `previous order still not check out` (`order.service.ts:46`) | the check and the insertion are several awaits apart; two guests in two sessions of one table both pass |
| `MCDeselect` | `${event.username} deselected ${deselectedFood.foodName}` (`client.gateway.ts:335`) | the same deselection sent twice: `findIndex` returns -1, and `splice(-1, 1)` removes the last entry, which somebody else selected |
| `MCIncome` | `income produced by using the apps` (`restaurant.service.ts:177`) | of the options of a menu only the last one of the first food counts, once for all foods sold |

**Bounds.** Two requests at a time are enough for every race listed: each is
between two handlers, and a handler of the code waits for no other. Three
requests let a third find what the two left. `MCSerial` starts where a party has
ordered or has paid, so that three messages one after the other reach bill, pay and
a guest who comes after; or join, select, order of a second party. It has two
handlers, and the next message comes when everything before is done (`Settled` in
`OneMessage`): the second runs what the first does not await, the removal of guests.
`MaxList = 1`: a list that is out of date has one entry, any of those known, or is
the whole cart. `KitchenSize = 1`: one open order fills the kitchen's list and a
second one drops the first. Two devices, two tables. The ids (`Groups`, `Clients`, `Foods`, `Items`) are as many as the
requests of a run can use, so that none runs out: an instance in which a request
could not go on for want of an id would deadlock, and deadlock is checked in
every run (`Rest` is the only step of a server that has answered everything).
Ids are opaque, so `Pick` takes one unused id and not each. `Handlers` is
symmetric; symmetry is used by the runs without liveness.

`MCTables` has six tables and codes and three sessions for five requests, each of
which may carry two names. `MCSummary` has three menus and a list of one, so that
some are left out that sold as much, and two days for the periods.
The specification of `Summary`
has no requests and stops when the bounds are used up and all is paid: it is the
one run without a deadlock check, with the one that refutes it.
`MCRestaurant` has two names, two emails and two menu names, so that every pair of
requests may want the same; six requests can create no more than three
restaurants, four admins, four menus and four foods.

**Start.** `AtOpening`, `AtDinner`, `AtPaid` and `AtSplit` are states a restarted server finds in its
database. They let a run spend its few requests on a table that has ordered.

**What a run leaves out and why.** `MCDinner` has no `clearTable`, because the
WebSocket one refutes `OpenOrderHasSession` at once (that is `MCCleared`), and no
cancelled bill, because `handleCancelBill` reopens whatever order it is given,
also a paid one whose session is over; `MCProgress` has one. `MCSerial` is one
message at a time, with restarts between messages only: its properties speak of the
rows between messages, and two at a time, or a restart between the writes of a
payment, do break them.
Those races are listed as hazards; no message of the code promises otherwise.
That an entry is ordered once is not stated: a message sent twice orders it twice,
and no message of the code says otherwise. What holds is that the cart stops offering
it (`OrderedLeavesCart`).
`CartShown` and `EveryoneListed` speak of devices that show a session still in
progress that no waiter opened again (`GoesOn`), and `OrdersOnBoard` of its orders: a late broadcast may show an older
cart of a session that was rejected, and a cancelled bill reopens an order of a
session that is over and then throws before the kitchen is told. A guest who left
may stay on the list until the next broadcast. The removal of a guest changes the cart
and tells nobody, neither the one of a message (it may come after the last broadcast) nor the one
of REST: `CartShown` excepts the entries of removed guests, and only those.

**Fairness.** `Fairness` is weak fairness of `Continue(h)` for every request: the
event loop resumes every handler whose call has completed, and the database
completes every call, with an error or not. Nothing is assumed of arrivals:
guests and waiters may stop at any time. The run has no restarts, because a
restart drops requests unanswered by design.

## Proofs

`tlapm` checks every proof. The theorems about `Menuler` hold for every value of
the constants that satisfies the three assumptions of `Store`: `None` is no id, the
inputs of a run are among those the dto allows, and `Handlers` is finite. Those about `Broadcast` assume
that `KitchenSize` is a number. Those about `Tables` assume `NoneFresh` and `BodiesAssumption`, those about
`Restaurant` the `NoneFresh` and `MaxBounded` of `Office`, those about `Summary`
its `MenuAssumption`.

* **`InvariantHolds`, `TypeCorrect`** (`MenulerInvariant`). `TypeOK` is not
  inductive: `InsertOrder` writes `req[h].t` into an order row, which is a table
  only because of how the request got there. The invariant is
  `TypeInv == TypeOK /\ RequestsFit /\ RowsFit`. `Fit(r, E, O)` says what the
  locals of a request are good for at each `pc` (at `createGroup` it has a table
  and a place to return to, at `adminWrite` an order that exists, and so on), for
  the sessions `E` and orders `O` that exist. `RowsFit` says that orders belong
  to sessions and that tables and sessions referred to exist. Sessions and orders
  are never deleted by the handlers, so a request that fits goes on fitting
  whatever the others do: `BecomeFit` is that argument, and each action then has
  one lemma for its types and one for fitting.
* **`CancelledOrders`** (`MenulerProofs`): no session with a cancelled order is open,
  unless a `clearTable` message opened it again. `CancelStep` shows that an order
  becomes `CANCEL` only in a write that also makes its session `REJECT`;
  `SessionStep` that besides `WsClearTable`, which leaves its mark, no step but
  `CreateSession` opens a session, and that one takes a row without a status, so
  without an order.
* **`SessionsAreBounded`**: a table has at most as many open sessions as the
  server works on requests, those opened again by a waiter not counted. The invariant `Bounded` counts the open sessions
  together with the requests about to create one, which is what a creation
  preserves; a request joins that count only when it finds no open session.
  `BoundMoves` and `BoundShrinks` are the facts on cardinalities.
* **`SessionsKeepPromise`**: `Menuler` implements `TableSessions`, with
  `open[t] = InProgress(t)`, `closed` the sessions that are over and
  `Limit = Cardinality(Handlers)`: `CreateSession` is `Open`, each of the writes
  that end a session is `Close`, a `clearTable` message that opens one again is
  `Reopen`, everything else stutters.
* **`OpenOrdersHaveSessions`**: a table with an order that is not checked out has a
  session to be looked up, across any interleaving and any restart. The handlers do
  not keep this without a condition, and `NothingIsUndone` is what it takes: no
  clearing (`MCCleared` refutes it for the WebSocket one; the REST one may read a
  session just before its order is inserted, and close it without), and no waiter's
  message that cancels a bill or opens an order again (it may be one of a session
  that is over) or moves an order (its session stays behind). The invariant
  `OwnSession` ties the order to *its* session: an open order has a session that is
  in progress at the same table, and a session without an order is in progress
  (`Own`); a request about to complete a session has an order already
  checked out, and one about to insert or change an order holds the table of the
  session (`OwnFits`). `Settled` is why no request disturbs another here:
  checking out is never taken back, and a session keeps its table.
* **`EntriesUnique`**: no cart has an entry twice. That cannot be
  shown of the rows alone, for a row is overwritten with a copy a handler took long
  before; the invariant `CartInv` says it of every copy too. Copies come from rows
  (`FindSession` for `deselectFood`, an order, a removal) and rows from copies, with
  one entry fewer or a fresh one more. A push finds an id in no cart, so it does not
  matter what is written over it. That an entry is not *lost* is not claimed: the
  whole-cart write may drop a push.
  What `Splice` and `Without` return is a cart (`SpliceType`, `WithoutType`), and has no
  entry twice if the cart had none (`SpliceDistinct`, `WithoutDistinct`). They are
  the one place with an induction, done on a least counterexample (`WFMin`).
* **`OrderedLeaveCarts`, `BillsMatchOrders`, `ServedOrdersAreServed`**
  (`SerialProofs`): what holds when the server works on one request at a time
  (`OneAtATime`) and is not restarted (`NoRestart`), after any number of requests and
  for any restaurant. `AwaitedRemovals` leaves out the one message that is two
  requests by itself: the removal that `deleteClientList` starts runs beside its own
  handler (the run `MCSerial` has it; the removal by REST is in the theorems). The
  conditions are needed, as the hazards say: a deselection while an order is
  on its way writes back a cart that was emptied, food added beside a waiter's handler
  makes its flag stale, and a restart between the write of a bill and that of its order leaves
  them apart. Between the steps of a request
  none of the three holds, so the invariant of each says what the request in progress still
  owes. An action that has no part in a property is dismissed by what it leaves
  unchanged (`OthersArrive`, `OthersContinue`, `OthersWrite`).
  * `EntryInv`: the carts of two sessions share no entry, an entry that was sent is in
    a cart only while a request is at `clearCart` of that session, and what a request
    holds is fit for what it will do with it (`CopyFits`): a list that was sent, as old
    as it may be, has no entry of another session's cart, and a cart to be written
    back is that of the row, or a part of it. That nothing is ordered twice is not
    among it: the list of a message is compared with nothing. A restart at
    `clearCart` is what would break it.
  * `BillInv`: every order agrees with its bill, but for the one of a request at
    `adminWrite` or `cancelOrder`, which is about to write the order; and the status it will
    write agrees with the bill as it is by then (`BillFits`). `BillableDtos` asks of
    the messages that an order is set to `PAID` together with its bill, and a bill to
    `NOT_PAID` together with a status of the order: the handler writes whatever
    fields are there, so a message `{status: PAID}` alone breaks the agreement.
  * `FoodInv`: an order marked `ALL_SERVED` has no food left to serve, but for the
    one of a request at `adminRead` or `adminWrite`; and the flag that request holds after its
    read is right until it writes it (`FoodFits`). `CookableDtos` asks that a message
    which puts food back to `PENDING` or `COOKING` does not also make out or set a
    bill: if the order has a bill already the handler throws there, the food is
    written and the order is not.

  `MCSerial` satisfies the conditions on messages but `AwaitedRemovals`; it has restarts
  between messages, which the theorems leave out with the others.
* **`RequestsEnd`** (`MenulerProofs`): what can be proved of `EveryRequestAnswered`.
  `CallsLeft` is how many database calls a request may still make, between 0 for an
  idle one and 8; during a look-up of the session it is that of the place the look-up
  returns to, and one or two more. Every call that completes makes it smaller, or takes
  a food off the list of writes under one `Promise.all` (`ContinueNearer`), whatever
  the call finds; no other step changes the request, but a restart, which ends it. The invariant is needed
  for the look-ups: where they return to is known of `find` and `createGroup` only
  through `RequestsFit`. With a handler that is resumed as long as it has a call to make
  (`Fairness`, and that `Continue` is enabled then, which TLC checks) the answer
  follows.
* **`PaymentsInHand`**: the safety half of `PaymentClosesSession`, for any number of
  requests at a time. A session with a paid bill that is still open has the request
  that took the payment (`paid`) at `adminWrite` or `complete`, unless a waiter's
  `clearTable` opened the session again; the invariant `PaymentFits` adds
  that a bill belongs to a session that exists, so that none is opened with a paid
  bill. It needs `NoRestart`: one between the three writes of a payment leaves the
  session open with nobody to close it, and TLC finds that.
* **`OrdersAreOnBoard`** (`BroadcastProofs`): when the server is idle and the lists it
  was asked for are emitted, the kitchen's list holds every open order of a session
  that goes on, or is full of newer ones, for every size of the list. `BoardInv` says
  that the order of such a session is none, or open and seen (`Seen`) unless a list
  is on its way (`Asking`), or that the request in progress is about to complete the
  session; and that a list read and not yet emitted is the list as it is
  (`ListFits`). `NewestAreSeen` is the fact about lists: one that leaves an open order
  out has `KitchenSize` newer ones. For that fact, and for counting, the ids of
  sessions are finitely many. It holds one message at a time (`OneAtATime`): of two
  handlers that read the list and emit it, the one that read first may emit last.
  It needs `BillableDtos`: with `{status: PAID}` alone the order leaves the list and
  its session goes on; a cancelled bill then opens the order again, and the kitchen is
  not told, because there is no bill to delete and the handler throws. And it needs
  `NoRestart`: one before the session is completed leaves the order paid in a session
  that goes on, and one before a list is emitted leaves the kitchen untold.
* **`CartsAreShown`, `GuestsAreListed`** (`BroadcastProofs`): when a request is over,
  the devices of its table show the cart, but for entries of removed guests, and the
  guests as the rows hold them (`OneAtATime`, `NoRestart`, `AwaitedRemovals`).
  `NewsInv` says that what a device shows is fresh (`FreshNews`) or
  its table is still owed a broadcast by the request in progress (`ShownFits`,
  `Owed`); that the session a handler read, and will send, is fresh where it relies
  on it (`HeldFits`, `PlaceFits`); that a guest being removed is there until the last
  step, so that an entry which leaves the cart is that of a guest who is `Gone` in the
  end (`ExpelFits`); and that a broadcast of `clearTable`, which nobody
  awaits, is of a session that is over, or about to be rejected and not written
  since (`LateFits`). Two requests at once break it: each sends the session as it
  read it, and the older reading may arrive last. `BroadcastRefines` (`Broadcast`
  implements `Menuler`) lets these proofs use the invariants of the server, among
  them `EntryInv`: what `deselectFood` cuts an entry from is the cart.
* **`NothingLeftBehind`, `TablesTyped`** (`TablesProofs`). The invariant is
  `TypeOK /\ LocalsOK /\ ReferencesResolve`. Each step that creates a reference
  finds its target alive in the same step, each that deletes a row finds nothing
  that refers to it; what a request read before is never relied on. All it needs
  of a request is that the ids it holds are ids (`LocalsOK`), which is one fact
  about one request at a time (`Sound`, `SoundStep`). A step that writes tables
  only is covered by `TablesStay`.
* **`NamesAreUnique`, `RoomsAreOwn`** (`TablesProofs`). A code is
  renewed and a table deleted while guests are between scan and seat. `CodeInv`
  therefore says of rows, requests and guests alike that a code they hold was issued
  to their table (`CodesOK`, `RequestsOK`, `GuestsOK`); a code is issued once, so two
  tables never share one. Names are settled by the unique index in the very step that writes them.
* **`TypesHold`, `FirstAdminHolds`, `RestaurantStaysHolds`, `OptionHasMenuHolds`**
  (`RestaurantProofs`). The invariant is `TypeOK`, `LocalsOK`, `RowsOK` (what a row
  holds while it is there) and the properties themselves. `RestaurantStays` is about
  admins and menus; a bank account and a table carry the restaurant's id without a
  relation that is checked when they are written, and may outlive it. Each kind of row has a few forms of steps (a row that
  appears, changes, goes); a property is checked against the forms, not against every
  handler. No look-up is relied on: the step that writes has the unique index or the
  relation decide, and the proofs use only that. So they hold although
  `createRestaurant`, `createAdmin` and `addMenu` look first and write later.
* **`EmailsOwned`, `NamesOwned`, `MenuNamesOwned`**: `Restaurant` implements `Register`
  three times, for emails, restaurant names, and pairs of restaurant and menu name.
  The same forms of steps give a taking, a release, both at once (a rename), or
  nothing.

* **`TotalsAlwaysAgree`** (`SummaryProofs`): for any menu, prices, options and history
  of orders, and every period, the total summed over foods is the sum of the incomes of
  the leader board, and the groups count every food once. The sums are folds, and what
  a fold computes is a fact by induction: `SumsUnique` and `SumsExist` do it on a
  smallest counterexample among finite sets (`SmallestSet`), which gives the fold's own
  equation (`SumEquation`). From it `SumWithout` lets any element be taken out first,
  and `SumGroups` regroups a sum by menus.
* **`BestAlwaysOnTop`**: `topTen` has as many menus as fit and nothing left out sold more
  than what is in it. It rests on the existence of a sorted leader board
  (`SortedExists`): `Before` is a strict total order of the menus that were sold
  (`BeforeOrders`), for sales are compared first and no two menus have the same first
  sale, and the number of menus before one is its place. Without it `CHOOSE` might
  choose anything.
* **`SummaryTypes`**: the rows keep their types. All three need `MenuAssumption` only,
  which says that prices are natural numbers, days are numbers, and that the selections of guests are lists of
  options.

`RequestMoves` states each action once more as what it does to the request, field by
field, and to the rows; the proofs about several requests or several rows are made
of these facts and never open an action again.

The same properties are checked by `MCSessions`, `MCDinner`, `MCSerial`,
`MCProgress`, `MCTables`, `MCSummary` and `MCRestaurant` on small instances.

Model-checked only:

* `EveryRequestAnswered` and `PaymentClosesSession`: the prover has no fairness and no
  `ENABLED`. `RequestsEnd` and `PaymentsInHand` are what they come down to; that a
  request always can go on, TLC checks, and that no run deadlocks.

## Not modelled

In `Menuler` tables are constants and rows are not deleted, but for food and
guests; deletions are in `Tables`, which leaves out carts, the status of a
session and what a waiter does beyond food, bill and table of an order. `Tables`
has one restaurant; the purge of a table's sessions (`table.service.ts:174`) names no
restaurant, which with one makes no difference.
Prices, totals and what a bill charges for each guest are left out: the hazards at
`client.gateway.ts:504` and `restaurant.service.ts:174` are described and have no
property.

Not modelled at all: the hashing of passwords, the signing of tokens and the login,
which keep no state (the guards that read it are in `Office`); file upload, whose
result nothing else reads; the framework's wiring, the shape of replies and the
services no handler calls. A database call fails only because a row is missing or a
unique key taken, not because the connection is lost.

## Plan

1. **Prices**: the bill's total against `netPrice`, and the present price of a menu
   against the one that was charged.
2. **Restarts within `deleteTable`**: its deletions are several calls, and a restart
   between them leaves a table without its orders.
