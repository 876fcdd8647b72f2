----------------------------- MODULE MCMenuler -----------------------------
(***************************************************************************)
(* Constants of the configurations, and a later initial state: the rows    *)
(* are what a restarted server finds, so a run may begin with a party at   *)
(* dinner instead of an empty restaurant.                                  *)
(***************************************************************************)
EXTENDS Menuler, TLC

CONSTANTS t1, t2, g1, g2, c1, c2, n1, n2, f1, i1, i2, i3, s1, s2

Sym == Permutations(Handlers)

\* Bodies a waiter's client sends, one concern at a time.
StartBilling == [NoDto EXCEPT !.status = "BILLING"]
PayBill      == [NoDto EXCEPT !.bill = "PAID"]
NameBill     == [NoDto EXCEPT !.bill = "KEEP"]
CancelBill   == [NoDto EXCEPT !.bill = "CANCEL"]
CancelOrder  == [NoDto EXCEPT !.status = "CANCEL"]
Serve        == [NoDto EXCEPT !.food = "SERVED"]
DeleteFood   == [NoDto EXCEPT !.food = "DELETE"]
Expel        == [NoDto EXCEPT !.expel = TRUE]
Move         == [NoDto EXCEPT !.transfer = t2]

NoDtos     == {}
PayDtos    == {StartBilling, PayBill}
BillDtos   == {StartBilling, PayBill, NameBill, CancelBill, CancelOrder}
DinnerDtos == {StartBilling, PayBill, CancelOrder, DeleteFood}
SerialDtos == {StartBilling, PayBill, NameBill, CancelBill, CancelOrder, Serve,
               DeleteFood, Move, Expel}

\* Two guests joined t1, one ordered i1, and both selected something more; their
\* session, order, bill and food are in the given states.
Party(session, ordered, overall, billed, cooked) ==
  /\ group  = [g \in Groups |->
                 IF g = g1 THEN [status |-> session, table |-> t1,
                                 cart |-> <<[id |-> i2, user |-> c1],
                                            [id |-> i3, user |-> c2]>>,
                                 reopened |-> FALSE]
                 ELSE NoGroup]
  /\ order  = [g \in Groups |->
                 IF g = g1 THEN [status |-> ordered, table |-> t1,
                                 overall |-> overall]
                 ELSE NoOrder]
  /\ bill   = [g \in Groups |-> IF g = g1 THEN billed ELSE NoBill]
  /\ food   = [f \in Foods |->
                 IF f = f1 THEN [status |-> cooked, order |-> g1,
                                 client |-> c1, item |-> i1]
                 ELSE NoFood]
  /\ client = [c \in Clients |->
                 IF c = c1 THEN [status |-> "ONLINE", name |-> n1, group |-> g1]
                 ELSE IF c = c2
                 THEN [status |-> "ONLINE", name |-> n2, group |-> g1]
                 ELSE NoClient]
  /\ socket = [s \in Sockets |->
                 IF s = s1 THEN [live |-> TRUE, user |-> c1, room |-> t1]
                 ELSE IF s = s2 THEN [live |-> TRUE, user |-> c2, room |-> t1]
                 ELSE NewConnection]
  /\ req    = [h \in Handlers |-> Idle]
  /\ budget = MaxRequests

\* They wait for their food; or have paid, and their devices are still on.
AtDinner == Party("IN_PROGRESS", "NOT_CHECKOUT", "PENDING", NoBill, "PENDING")
AtPaid   == Party("COMPLETED", "PAID", "ALL_SERVED",
                  [status |-> "PAID", foods |-> {f1}], "SERVED")

DinnerSpec     == AtDinner /\ [][Next]_vars
FairDinnerSpec == DinnerSpec /\ Fairness

\* Two guests who joined t1 at the same moment, each in a session of its own
\* (MCSessions reaches two sessions), with something selected.
AtSplit ==
  /\ group  = [g \in Groups |->
                 IF g \notin {g1, g2} THEN NoGroup
                 ELSE [status |-> "IN_PROGRESS", table |-> t1,
                       cart |-> <<IF g = g1 THEN [id |-> i1, user |-> c1]
                                            ELSE [id |-> i2, user |-> c2]>>,
                       reopened |-> FALSE]]
  /\ client = [c \in Clients |->
                 IF c = c1 THEN [status |-> "ONLINE", name |-> n1, group |-> g1]
                 ELSE IF c = c2
                 THEN [status |-> "ONLINE", name |-> n2, group |-> g2]
                 ELSE NoClient]
  /\ socket = [s \in Sockets |->
                 IF s = s1 THEN [live |-> TRUE, user |-> c1, room |-> t1]
                 ELSE IF s = s2 THEN [live |-> TRUE, user |-> c2, room |-> t1]
                 ELSE NewConnection]
  /\ order  = [g \in Groups |-> NoOrder]
  /\ bill   = [g \in Groups |-> NoBill]
  /\ food   = [f \in Foods |-> NoFood]
  /\ req    = [h \in Handlers |-> Idle]
  /\ budget = MaxRequests

SplitSpec == AtSplit /\ [][Next]_vars
============================================================================
