------------------------------- MODULE Tables -------------------------------
(***************************************************************************)
(* src/table/table.service.ts: the tables of a restaurant are created from *)
(* a list of names, renamed, given a new token (the code printed on the    *)
(* table) and deleted, while guests join with a token they scanned and     *)
(* order.  Sessions, orders and guests are kept to what refers to what:    *)
(* deletion asks the database for nothing else.  The tables are those of   *)
(* one restaurant; of the others only deleteTable can reach them.          *)
(***************************************************************************)
EXTENDS Naturals, FiniteSets, Sequences, SequencesExt

CONSTANTS
  TableIds, TableNames, Tokens,  \* Table: id, tableName, tableToken
  Groups,                        \* ids of ClientGroup, and of its Order
  Guests,                        \* ids of Client
  NameLists,                     \* bodies of createTable
  Handlers, Kinds, MaxRequests, None

ASSUME NoneFresh ==
  None \notin TableIds \cup TableNames \cup Tokens \cup Groups \cup Guests
ASSUME BodiesAssumption ==
  /\ NameLists \subseteq Seq(TableNames)
  /\ \A names \in NameLists : names # <<>>
  /\ MaxRequests \in Nat

VARIABLES
  table,   \* Table rows
  issued,  \* the table a token was generated for, None before
  group,   \* the table of a ClientGroup row
  order,   \* Order rows, by their clientGroupId (unique)
  guest,   \* Client rows and the room of their connection
  req, budget

people == <<group, order, guest>>
vars   == <<table, issued, group, order, guest, req, budget>>

TableRow == [state : {"none", "live", "deleted"}, name : TableNames \cup {None},
             token : Tokens \cup {None}, active : BOOLEAN]
GroupRow == [state : {"none", "live", "deleted"}, table : TableIds \cup {None}]
OrderRow == [live : BOOLEAN, table : TableIds \cup {None},
             foods : SUBSET Guests, billed : BOOLEAN]
GuestRow == [group : Groups \cup {None}, room : Tokens \cup {None}]

\* pend: the two deletions deleteTable issued that are not answered yet;
\* failed: one of them was refused; own: the admin is of the table's restaurant.
Purges  == {"groups", "orders"}
Request == [pc : {"idle", "lookup", "insert", "purge", "over", "find",
                  "createGroup", "createGuest", "insertOrder"},
            names : Seq(TableNames), t : TableIds \cup {None},
            k : Tokens \cup {None}, g : Groups \cup {None},
            u : Guests \cup {None}, pend : SUBSET Purges, failed : BOOLEAN,
            own : BOOLEAN]

NoTable == [state |-> "none", name |-> None, token |-> None, active |-> FALSE]
NoGroup == [state |-> "none", table |-> None]
NoOrder == [live |-> FALSE, table |-> None, foods |-> {}, billed |-> FALSE]
NoGuest == [group |-> None, room |-> None]
Idle    == [pc |-> "idle", names |-> <<>>, t |-> None, k |-> None, g |-> None,
            u |-> None, pend |-> {}, failed |-> FALSE, own |-> TRUE]

TypeOK ==
  /\ table  \in [TableIds -> TableRow]
  /\ issued \in [Tokens -> TableIds \cup {None}]
  /\ group  \in [Groups -> GroupRow]
  /\ order  \in [Groups -> OrderRow]
  /\ guest  \in [Guests -> GuestRow]
  /\ req    \in [Handlers -> Request]
  /\ budget \in 0..MaxRequests

Init ==
  /\ table  = [t \in TableIds |-> NoTable]
  /\ issued = [k \in Tokens |-> None]
  /\ group  = [g \in Groups |-> NoGroup]
  /\ order  = [g \in Groups |-> NoOrder]
  /\ guest  = [u \in Guests |-> NoGuest]
  /\ req    = [h \in Handlers |-> Idle]
  /\ budget = MaxRequests

----------------------------------------------------------------------------
Live(t)      == table[t].state = "live"
NameTaken(n) == \E t \in TableIds : Live(t) /\ table[t].name = n
WithToken(k) == {t \in TableIds : Live(t) /\ table[t].token = k}
GroupsAt(t)  == {g \in Groups : group[g].state = "live" /\ group[g].table = t}
OrdersAt(t)  == {g \in Groups : order[g].live /\ order[g].table = t}
GuestsOf(g)  == {u \in Guests : guest[u].group = g}

\* Deleting a row another row requires is refused (the schema's relations name
\* no onDelete).
GroupInUse(g) == GuestsOf(g) # {} \/ order[g].live
OrderInUse(g) == order[g].foods # {} \/ order[g].billed
TableInUse(t) == GroupsAt(t) # {} \/ OrdersAt(t) # {}

\* generateTableToken never returns a token a second time.
NewTokens == {k \in Tokens : issued[k] = None}
NewTables == {t \in TableIds : table[t].state = "none"}

\* A generated id is some unused one; ids are opaque, so any will do.
Pick(S) == IF S = {} THEN {} ELSE {CHOOSE x \in S : TRUE}

At(h, l)   == req[h].pc = l
Goto(h, l) == req' = [req EXCEPT ![h].pc = l]
Answer(h)  == req' = [req EXCEPT ![h] = Idle]

\* A request handled by one call, and one that takes several.
Arrive(kind) == kind \in Kinds /\ budget > 0 /\ budget' = budget - 1
Accept(h, kind, r) ==
  /\ Arrive(kind)
  /\ At(h, "idle")
  /\ req' = [req EXCEPT ![h] = r]

----------------------------------------------------------------------------
\* createTable: each name is looked up and inserted before the next one.
InsertTables(h) ==
  /\ \E names \in NameLists :
       Accept(h, "create", [Idle EXCEPT !.pc = "lookup", !.names = names])
  /\ UNCHANGED <<table, issued, people>>

NextName(h) ==
  LET rest == Tail(req[h].names)
  IN req' = [req EXCEPT ![h] = IF rest = <<>> THEN Idle
                               ELSE [@ EXCEPT !.pc = "lookup", !.names = rest]]

LookupName(h) ==
  /\ At(h, "lookup")
  /\ IF NameTaken(Head(req[h].names)) THEN NextName(h) ELSE Goto(h, "insert")
  /\ UNCHANGED <<table, issued, people, budget>>

\* The name is not checked again by the database.
InsertTable_NoIndex(h) ==
  /\ At(h, "insert")
  /\ \E t \in Pick(NewTables), k \in Pick(NewTokens) :
       /\ table' = [table EXCEPT ![t] =
                      [state |-> "live", name |-> Head(req[h].names),
                       token |-> k, active |-> TRUE]]
       /\ issued' = [issued EXCEPT ![k] = t]
  /\ NextName(h)
  /\ UNCHANGED <<people, budget>>

\* A name inserted meanwhile is refused by the unique index: the request ends
\* with an error, the tables it inserted so far stay.
InsertTable(h) ==
  /\ At(h, "insert")
  /\ \/ /\ NameTaken(Head(req[h].names))
        /\ Answer(h)
        /\ UNCHANGED <<table, issued>>
     \/ /\ ~NameTaken(Head(req[h].names))
        /\ \E t \in Pick(NewTables), k \in Pick(NewTokens) :
             /\ table' = [table EXCEPT ![t] =
                            [state |-> "live", name |-> Head(req[h].names),
                             token |-> k, active |-> TRUE]]
             /\ issued' = [issued EXCEPT ![k] = t]
        /\ NextName(h)
  /\ UNCHANGED <<people, budget>>

\* updateTable: the one write of a name, isActivate and, with isRenewQrcode, a new
\* token and image; what the body leaves out is not written.
WriteTable(t, n, a, k) ==
  /\ table' = [table EXCEPT ![t] = [@ EXCEPT !.name = n, !.active = a,
                                             !.token = k]]
  /\ issued' = IF k = table[t].token THEN issued ELSE [issued EXCEPT ![k] = t]

\* A new code is one no table has now, which an earlier table may have had.
UpdateTable_Reuse(t) ==
  /\ Arrive("update")
  /\ Live(t)
  /\ \E n \in TableNames, a \in BOOLEAN,
        k \in {j \in Tokens : WithToken(j) \subseteq {t}} :
       /\ n = table[t].name \/ ~NameTaken(n)
       /\ WriteTable(t, n, a, k)
  /\ UNCHANGED <<people, req>>

\* isActivate is written also when the body leaves it out.
UpdateTable_Unset(t) ==
  /\ Arrive("update")
  /\ Live(t)
  /\ \E n \in TableNames, a \in BOOLEAN \cup {None},
        k \in Pick(NewTokens) \cup {table[t].token} :
       /\ n = table[t].name \/ ~NameTaken(n)
       /\ WriteTable(t, n, a, k)
  /\ UNCHANGED <<people, req>>

\* A taken name fails the whole write.
UpdateTable(t) ==
  /\ Arrive("update")
  /\ Live(t)
  /\ \E n \in TableNames, a \in BOOLEAN,
        k \in Pick(NewTokens) \cup {table[t].token} :
       /\ n = table[t].name \/ ~NameTaken(n)
       /\ WriteTable(t, n, a, k)
  /\ UNCHANGED <<people, req>>

----------------------------------------------------------------------------
\* deleteTable issues the deletion of the table's sessions and that of its
\* orders at once.  Promise.all fails with the first that is refused: the error
\* is logged and the table's own deletion issued, whether or not the other is
\* answered yet.  To an admin of another restaurant neither the orders nor the
\* table can be found, but the sessions can: their deletion names the table only.
DeleteTable(h) ==
  /\ \E t \in TableIds, own \in BOOLEAN :
       /\ table[t].state # "none"
       /\ Accept(h, "delete", [Idle EXCEPT !.pc = "purge", !.t = t,
                                           !.pend = Purges, !.own = own])
  /\ UNCHANGED <<table, issued, people>>

Purged(h, what, refused) ==
  LET rest == req[h].pend \ {what}
  IN req' = [req EXCEPT ![h] =
               IF At(h, "over") /\ rest = {} THEN Idle
               ELSE [@ EXCEPT !.pend = rest,
                              !.failed = req[h].failed \/ refused]]

\* All of them, or none when one is in use.
PurgeGroups(h) ==
  LET found   == GroupsAt(req[h].t)
      refused == \E g \in found : GroupInUse(g)
  IN /\ "groups" \in req[h].pend
     /\ group' = [g \in Groups |-> IF g \in found /\ ~refused
                                   THEN [group[g] EXCEPT !.state = "deleted"]
                                   ELSE group[g]]
     /\ Purged(h, "groups", refused)
     /\ UNCHANGED <<table, issued, order, guest, budget>>

PurgeOrders(h) ==
  LET found   == IF req[h].own THEN OrdersAt(req[h].t) ELSE {}
      refused == \E g \in found : OrderInUse(g)
  IN /\ "orders" \in req[h].pend
     /\ order' = [g \in Groups |-> IF g \in found /\ ~refused THEN NoOrder
                                                              ELSE order[g]]
     /\ Purged(h, "orders", refused)
     /\ UNCHANGED <<table, issued, group, guest, budget>>

\* Refused when the table is in use, by a session of a guest who just joined or
\* by what could not be purged, and to another restaurant's admin.
DropTable(h) ==
  LET t == req[h].t
  IN /\ At(h, "purge")
     /\ req[h].pend = {} \/ req[h].failed
     /\ table' = IF req[h].own /\ Live(t) /\ ~TableInUse(t)
                 THEN [table EXCEPT ![t].state = "deleted"] ELSE table
     /\ req' = [req EXCEPT ![h] = IF req[h].pend = {} THEN Idle
                                  ELSE [@ EXCEPT !.pc = "over"]]
     /\ UNCHANGED <<issued, people, budget>>

\* deleteOrder (REST): refused while food or a bill refers to the order.
DeleteOrder(g) ==
  /\ Arrive("deleteOrder")
  /\ order[g].live
  /\ ~OrderInUse(g)
  /\ order' = [order EXCEPT ![g] = NoOrder]
  /\ UNCHANGED <<table, issued, group, guest, req>>

----------------------------------------------------------------------------
\* Guests and waiters.  joinTable, after the read that checks the token: the
\* guest scanned a code that was printed at some time.
JoinTable(h) ==
  /\ \E u \in Guests, k \in Tokens :
       /\ guest[u] = NoGuest
       /\ \A i \in Handlers : req[i].u # u
       /\ \E t \in WithToken(k) : table[t].active
       /\ Accept(h, "join", [Idle EXCEPT !.pc = "find", !.u = u, !.k = k])
  /\ UNCHANGED <<table, issued, people>>

\* getCurrentClientGroupOrNew reads the table again: it may be gone or have
\* another token; with an order but no session the caller fails.
FindSession(h) ==
  /\ At(h, "find")
  /\ \/ /\ WithToken(req[h].k) = {}
        /\ Answer(h)
     \/ \E t \in WithToken(req[h].k) :
          \/ \E g \in GroupsAt(t) :
               req' = [req EXCEPT ![h] = [@ EXCEPT !.pc = "createGuest",
                                                   !.g = g]]
          \/ /\ GroupsAt(t) = {}
             /\ OrdersAt(t) # {}
             /\ Answer(h)
          \/ /\ ~TableInUse(t)
             /\ req' = [req EXCEPT ![h] = [@ EXCEPT !.pc = "createGroup",
                                                    !.t = t]]
  /\ UNCHANGED <<table, issued, people, budget>>

\* The session is connected to a table by its id.
CreateSession_Unchecked(h) ==
  /\ At(h, "createGroup")
  /\ \E g \in Pick({k \in Groups : group[k].state = "none"}) :
       /\ group' = [group EXCEPT ![g] = [state |-> "live", table |-> req[h].t]]
       /\ req' = [req EXCEPT ![h] = [@ EXCEPT !.pc = "createGuest", !.g = g]]
  /\ UNCHANGED <<table, issued, order, guest, budget>>

\* connect fails when the table is gone.
CreateSession(h) ==
  /\ At(h, "createGroup")
  /\ \/ /\ ~Live(req[h].t)
        /\ Answer(h)
        /\ UNCHANGED group
     \/ /\ Live(req[h].t)
        /\ \E g \in Pick({k \in Groups : group[k].state = "none"}) :
             /\ group' = [group EXCEPT ![g] =
                            [state |-> "live", table |-> req[h].t]]
             /\ req' = [req EXCEPT ![h] =
                          [@ EXCEPT !.pc = "createGuest", !.g = g]]
  /\ UNCHANGED <<table, issued, order, guest, budget>>

\* The guest's row, then the room, named by the token that was scanned.
CreateGuest(h) ==
  LET r == req[h]
  IN /\ At(h, "createGuest")
     /\ guest' = IF group[r.g].state = "live"
                 THEN [guest EXCEPT ![r.u] = [group |-> r.g, room |-> r.k]]
                 ELSE guest
     /\ Answer(h)
     /\ UNCHANGED <<table, issued, group, order, budget>>

\* leaveTable fails without a table of that token, and while the guest has food.
LeaveTable(u) ==
  /\ Arrive("leave")
  /\ guest[u].group # None
  /\ WithToken(guest[u].room) # {}
  /\ \A g \in Groups : u \notin order[g].foods
  /\ \A h \in Handlers : req[h].u # u
  /\ guest' = [guest EXCEPT ![u] = NoGuest]
  /\ UNCHANGED <<table, issued, group, order, req>>

\* createOrder up to the check that the table has no open order ...
CreateOrder(h) ==
  /\ \E u \in Guests, k \in Tokens :
       /\ guest[u].group # None
       /\ guest[u].room = k
       /\ \E t \in WithToken(k) : OrdersAt(t) = {}
       /\ Accept(h, "order", [Idle EXCEPT !.pc = "insertOrder", !.u = u,
                                          !.g = guest[u].group, !.k = k])
  /\ UNCHANGED <<table, issued, people>>

\* ... and the order with its food, connected to a table by token and to the
\* session, of which it is the only order.
InsertOrder(h) ==
  LET r == req[h]
  IN /\ At(h, "insertOrder")
     /\ \/ /\ \/ WithToken(r.k) = {}
              \/ group[r.g].state # "live"
              \/ order[r.g].live
           /\ UNCHANGED order
        \/ /\ group[r.g].state = "live"
           /\ ~order[r.g].live
           /\ \E t \in WithToken(r.k) :
                order' = [order EXCEPT ![r.g] =
                            [live |-> TRUE, table |-> t, foods |-> {r.u},
                             billed |-> FALSE]]
     /\ Answer(h)
     /\ UNCHANGED <<table, issued, group, guest, budget>>

\* What updateClientOrder does to an order: its food is deleted, it moves to
\* another table, a bill is made out.
UpdateClientOrder(g) ==
  /\ Arrive("waiter")
  /\ order[g].live
  /\ \/ order' = [order EXCEPT ![g].foods = {}]
     \/ \E t \in TableIds : Live(t) /\ order' = [order EXCEPT ![g].table = t]
     \/ order' = [order EXCEPT ![g].billed = TRUE]
  /\ UNCHANGED <<table, issued, group, guest, req>>

----------------------------------------------------------------------------
Process(h) ==
  \/ LookupName(h) \/ InsertTable(h)
  \/ PurgeGroups(h) \/ PurgeOrders(h) \/ DropTable(h)
  \/ FindSession(h) \/ CreateSession(h) \/ CreateGuest(h) \/ InsertOrder(h)

\* The bound on requests is used up and every one was answered.
Rest ==
  /\ \A h \in Handlers : At(h, "idle")
  /\ UNCHANGED vars

Next ==
  \/ \E h \in Handlers :
       InsertTables(h) \/ DeleteTable(h) \/ JoinTable(h) \/ CreateOrder(h)
  \/ \E t \in TableIds : UpdateTable(t)
  \/ \E g \in Groups : DeleteOrder(g) \/ UpdateClientOrder(g)
  \/ \E u \in Guests : LeaveTable(u)
  \/ \E h \in Handlers : Process(h)
  \/ Rest

Spec == Init /\ [][Next]_vars

----------------------------------------------------------------------------
\* Whatever is deleted while a guest joins or orders, no row is left behind: a
\* session has its table, an order its table and its session, a guest the
\* session (deleteTable, getCurrentClientGroupOrNew, createOrder).
ReferencesResolve ==
  /\ \A g \in Groups :
       /\ group[g].state = "live" =>
            group[g].table # None /\ Live(group[g].table)
       /\ order[g].live =>
            /\ order[g].table # None /\ Live(order[g].table)
            /\ group[g].state = "live"
  /\ \A u \in Guests : guest[u].group # None =>
       group[guest[u].group].state = "live"

\* A guest's room is named by a code of the table whose session the guest is in,
\* whatever codes were renewed between the scan and the broadcast: what is sent
\* to a table's room (notiToTable) is heard by that table's guests only.
RoomIsOwnTable ==
  \A u \in Guests : guest[u].group # None =>
     /\ issued[guest[u].room] = group[guest[u].group].table
     /\ WithToken(guest[u].room) \subseteq {group[guest[u].group].table}

\* Two lists of names created at once, and renames in between, never give a
\* restaurant two tables of one name (generateQrcode, updateTable).
NamesUnique ==
  \A t, u \in TableIds :
     Live(t) /\ Live(u) /\ table[t].name = table[u].name => t = u
=============================================================================
