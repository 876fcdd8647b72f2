---------------------------- MODULE RequestMoves ----------------------------
(***************************************************************************)
(* Where each step takes the request it works on, and what the request     *)
(* holds there: the actions of Menuler field by field.  The arguments      *)
(* about several handlers and about several rows are made of these facts.  *)
(***************************************************************************)
EXTENDS MenulerInvariant

\* A step of request h leaves the other requests alone.
Others(h) == \A k \in Handlers \ {h} : req'[k] = req[k]

\* It keeps the guest, the table, the session and the message it is about,
KeepsSubject(h) ==
  /\ req'[h].s = req[h].s /\ req'[h].t = req[h].t /\ req'[h].g = req[h].g
  /\ req'[h].c = req[h].c /\ req'[h].dto = req[h].dto
  /\ req'[h].paid = req[h].paid

\* and the rest of what it holds.
KeepsLocals(h) ==
  /\ KeepsSubject(h)
  /\ req'[h].ret = req[h].ret /\ req'[h].item = req[h].item
  /\ req'[h].cart = req[h].cart /\ req'[h].foods = req[h].foods
  /\ req'[h].flag = req[h].flag

\* It strikes foods off its list.
ListShrinks(h) ==
  req'[h].foods \subseteq req[h].foods /\ req'[h].foods # req[h].foods

\* The task that removes a guest.
ExpelLabels == {"expelRead", "expelCart", "expelFoods", "expelFood"}

\* No guest joins a session; no connection enters a room.
NobodyJoins ==
  \A c \in Clients : HasClient(c)' => HasClient(c) /\ client'[c].group = client[c].group
NobodySits ==
  \A s \in Sockets :
    socket'[s] = socket[s] \/ ~socket'[s].live \/ socket'[s].room = None

\* What an idle request holds.
LEMMA IdleFields ==
  /\ Idle.pc = "idle" /\ Idle.ret = "idle" /\ Idle.s = None /\ Idle.t = None
  /\ Idle.g = None /\ Idle.c = None /\ Idle.item = None /\ Idle.cart = <<>>
  /\ Idle.foods = {} /\ Idle.flag = FALSE /\ Idle.failed = FALSE
  /\ Idle.paid = FALSE /\ Idle.dto = NoDto
BY DEF Idle

\* Request h becomes r.
LEMMA BecomeMove ==
  ASSUME TypeInv, NEW h \in Handlers, NEW r, req' = [req EXCEPT ![h] = r]
  PROVE  Others(h) /\ req'[h] = r
BY DEF TypeInv, TypeOK, Others

\* It goes to another place.
LEMMA GotoMove ==
  ASSUME TypeInv, NEW h \in Handlers, NEW l, Goto(h, l)
  PROVE  Others(h) /\ req'[h].pc = l /\ KeepsLocals(h)
<1>1. req[h] \in Request
  BY DEF TypeInv, TypeOK
<1>2. Others(h) /\ req'[h] = [req[h] EXCEPT !.pc = l]
  BY BecomeMove DEF Goto
<1> QED
  BY <1>1, <1>2 DEF KeepsLocals, KeepsSubject, Request

\* It answers.
LEMMA AnswerMove ==
  ASSUME TypeInv, NEW h \in Handlers, Answer(h)
  PROVE  Others(h) /\ req'[h] = Idle /\ req'[h].pc = "idle"
BY BecomeMove, IdleFields DEF Answer

\* It looks up the session of a table,
LEMMA CallMove ==
  ASSUME TypeInv, NEW h \in Handlers, NEW t, NEW l, Call(h, t, l)
  PROVE  /\ Others(h) /\ req'[h].pc = "find"
         /\ req'[h].ret = l /\ req'[h].t = t
         /\ req'[h].g = req[h].g /\ req'[h].dto = req[h].dto
<1>1. req[h] \in Request
  BY DEF TypeInv, TypeOK
<1>2. Others(h) /\ req'[h] = [req[h] EXCEPT !.pc = "find", !.ret = l, !.t = t]
  BY BecomeMove DEF Call
<1> QED
  BY <1>1, <1>2 DEF Request

\* and the look-up returns.
LEMMA ReturnMove ==
  ASSUME TypeInv, NEW h \in Handlers, NEW g, NEW cart, Return(h, g, cart)
  PROVE  /\ Others(h) /\ req'[h].pc = req[h].ret
         /\ req'[h].g = g /\ req'[h].ret = req[h].ret
         /\ req'[h].t = req[h].t /\ req'[h].s = req[h].s
         /\ req'[h].c = req[h].c /\ req'[h].dto = req[h].dto
         /\ req[h].ret = "deselectBill" => req'[h].cart = cart
<1> DEFINE k == IF req[h].ret = "deselectBill" THEN cart ELSE <<>>
           r == [req[h] EXCEPT !.pc = req[h].ret, !.g = g, !.cart = k]
<1>1. req[h] \in Request
  BY DEF TypeInv, TypeOK
<1>2. Others(h) /\ req'[h] = r
  BY BecomeMove DEF Return
<1>3. /\ r.pc = req[h].ret /\ r.g = g /\ r.ret = req[h].ret /\ r.t = req[h].t
      /\ r.s = req[h].s /\ r.c = req[h].c /\ r.dto = req[h].dto /\ r.cart = k
  <2> HIDE DEF k
  <2> QED
    BY <1>1 DEF Request
<1> QED
  BY <1>2, <1>3

\* It is taken up as r.
LEMMA AcceptMove ==
  ASSUME TypeInv, NEW h \in Handlers, NEW kind, NEW r, Accept(h, kind, r)
  PROVE  Others(h) /\ At(h, "idle") /\ req'[h] = r /\ kind \in Kinds
BY BecomeMove DEF Accept

----------------------------------------------------------------------------
\* Guests.

\* A guest's message that begins with the look-up of a session, or a lost
\* connection.
LEMMA GuestArrives ==
  ASSUME TypeInv, NEW h \in Handlers,
         \/ JoinTable(h) \/ LeaveTable(h) \/ Disconnect(h)
         \/ SelectFood(h) \/ DeselectFood(h)
  PROVE  /\ Others(h) /\ UNCHANGED rows /\ At(h, "idle")
         /\ req'[h].pc \in {"find", "offline"} /\ req'[h].g = None
         /\ req'[h].pc = "find" => req'[h].ret # "noti"
         /\ NobodySits
<1>1. CASE JoinTable(h)
  <2>1. PICK s, t, n, c :
          Accept(h, "join", [Idle EXCEPT !.pc = "find", !.ret = "checkName",
                                         !.s = s, !.t = t, !.name = n, !.c = c])
    BY <1>1 DEF JoinTable
  <2> DEFINE r == [Idle EXCEPT !.pc = "find", !.ret = "checkName",
                               !.s = s, !.t = t, !.name = n, !.c = c]
  <2>2. r.pc = "find" /\ r.g = None /\ r.ret = "checkName"
    BY DEF Idle
  <2> HIDE DEF r
  <2>3. Others(h) /\ At(h, "idle") /\ req'[h] = r
    BY <2>1, AcceptMove DEF r
  <2> QED
    BY <1>1, <2>2, <2>3 DEF JoinTable, NobodySits
<1>2. CASE LeaveTable(h)
  <2>1. PICK s, t :
          Accept(h, "leave", [Idle EXCEPT !.pc = "find", !.ret = "leaveFoods",
                                          !.s = s, !.t = t])
    BY <1>2 DEF LeaveTable
  <2> DEFINE r == [Idle EXCEPT !.pc = "find", !.ret = "leaveFoods",
                               !.s = s, !.t = t]
  <2>2. r.pc = "find" /\ r.g = None /\ r.ret = "leaveFoods"
    BY DEF Idle
  <2> HIDE DEF r
  <2>3. Others(h) /\ At(h, "idle") /\ req'[h] = r
    BY <2>1, AcceptMove DEF r
  <2> QED
    BY <1>2, <2>2, <2>3 DEF LeaveTable, NobodySits
<1>3. CASE Disconnect(h)
  <2>1. PICK s \in Sockets :
          /\ Accept(h, "disconnect",
               [Idle EXCEPT !.pc = "offline", !.ret = "noti",
                            !.t = socket[s].room, !.c = socket[s].user])
          /\ socket' = [socket EXCEPT ![s] = [socket[s] EXCEPT !.live = FALSE,
                                                               !.room = None]]
    BY <1>3 DEF Disconnect
  <2> DEFINE r == [Idle EXCEPT !.pc = "offline", !.ret = "noti",
                               !.t = socket[s].room, !.c = socket[s].user]
  <2>2. r.pc = "offline" /\ r.g = None
    BY DEF Idle
  <2> HIDE DEF r
  <2>3. Others(h) /\ At(h, "idle") /\ req'[h] = r
    BY <2>1, AcceptMove DEF r
  <2>4. NobodySits
    BY <2>1 DEF TypeInv, TypeOK, Connection, NobodySits
  <2> QED
    BY <1>3, <2>2, <2>3, <2>4 DEF Disconnect
<1>4. CASE SelectFood(h)
  <2>1. PICK t, c :
          Accept(h, "select", [Idle EXCEPT !.pc = "find", !.ret = "selectBill",
                                           !.t = t, !.c = c])
    BY <1>4 DEF SelectFood
  <2> DEFINE r == [Idle EXCEPT !.pc = "find", !.ret = "selectBill",
                               !.t = t, !.c = c]
  <2>2. r.pc = "find" /\ r.g = None /\ r.ret = "selectBill"
    BY DEF Idle
  <2> HIDE DEF r
  <2>3. Others(h) /\ At(h, "idle") /\ req'[h] = r
    BY <2>1, AcceptMove DEF r
  <2> QED
    BY <1>4, <2>2, <2>3 DEF SelectFood, NobodySits
<1>5. CASE DeselectFood(h)
  <2>1. PICK t, i :
          Accept(h, "deselect", [Idle EXCEPT !.pc = "find",
                                             !.ret = "deselectBill",
                                             !.t = t, !.item = i])
    BY <1>5 DEF DeselectFood
  <2> DEFINE r == [Idle EXCEPT !.pc = "find", !.ret = "deselectBill",
                               !.t = t, !.item = i]
  <2>2. r.pc = "find" /\ r.g = None /\ r.ret = "deselectBill"
    BY DEF Idle
  <2> HIDE DEF r
  <2>3. Others(h) /\ At(h, "idle") /\ req'[h] = r
    BY <2>1, AcceptMove DEF r
  <2> QED
    BY <1>5, <2>2, <2>3 DEF DeselectFood, NobodySits
<1> QED
  BY <1>1, <1>2, <1>3, <1>4, <1>5

\* The look-up of a session finds one that is open, none because an order is, or
\* nothing.
LEMMA FindSessionMove ==
  ASSUME TypeInv, NEW h \in Handlers, FindSession(h)
  PROVE  /\ Others(h) /\ UNCHANGED <<rows, socket>> /\ At(h, "find")
         /\ req'[h].t = req[h].t /\ req'[h].dto = req[h].dto
         /\ req'[h].ret = req[h].ret
         /\ \/ /\ InProgress(req[h].t) = {} /\ req'[h].pc = "createGroup"
            \/ /\ InProgress(req[h].t) = {} /\ req'[h].pc = req[h].ret
               /\ req'[h].g = None
            \/ /\ req'[h].g \in InProgress(req[h].t) /\ req'[h].pc = req[h].ret
               /\ req[h].ret = "deselectBill"
                    => req'[h].cart = group[req'[h].g].cart
<1>1. UNCHANGED <<rows, socket>> /\ At(h, "find")
  BY DEF FindSession
<1>2. CASE InProgress(req[h].t) = {} /\ Goto(h, "createGroup")
  BY <1>1, <1>2, GotoMove DEF KeepsLocals, KeepsSubject
<1>3. CASE InProgress(req[h].t) = {} /\ Return(h, None, <<>>)
  BY <1>1, <1>3, ReturnMove
<1>4. CASE \E g \in InProgress(req[h].t) : Return(h, g, group[g].cart)
  <2>1. PICK g \in InProgress(req[h].t) : Return(h, g, group[g].cart)
    BY <1>4
  <2> QED
    BY <1>1, <2>1, ReturnMove
<1> QED
  BY <1>2, <1>3, <1>4 DEF FindSession

\* A session is created, and is what the look-up returns.
LEMMA CreateSessionMove ==
  ASSUME TypeInv, NEW h \in Handlers, CreateSession(h)
  PROVE  /\ Others(h) /\ UNCHANGED <<order, bill, food, client, socket>>
         /\ At(h, "createGroup") /\ req'[h].pc = req[h].ret
         /\ req'[h].t = req[h].t /\ req'[h].dto = req[h].dto
         /\ req'[h].ret = req[h].ret
         /\ req'[h].g \in Groups \ Existing
         /\ group' = [group EXCEPT ![req'[h].g] = NewSession(req[h].t)]
         /\ req[h].ret = "deselectBill" => req'[h].cart = <<>>
<1>1. PICK g \in Groups \ Existing :
        /\ group' = [group EXCEPT ![g] = NewSession(req[h].t)]
        /\ Return(h, g, <<>>)
  BY DEF CreateSession, Pick
<1>2. /\ Others(h) /\ req'[h].pc = req[h].ret /\ req'[h].g = g
      /\ req'[h].t = req[h].t /\ req'[h].dto = req[h].dto
      /\ req'[h].ret = req[h].ret
      /\ req[h].ret = "deselectBill" => req'[h].cart = <<>>
  BY <1>1, ReturnMove
<1>3. UNCHANGED <<order, bill, food, client, socket>> /\ At(h, "createGroup")
  BY DEF CreateSession
<1> QED
  BY <1>1, <1>2, <1>3

\* A broadcast ends the request.
LEMMA NotifyMove ==
  ASSUME TypeInv, NEW h \in Handlers, Notify(h)
  PROVE  /\ Others(h) /\ UNCHANGED <<rows, socket, budget>> /\ At(h, "noti")
         /\ req'[h] = Idle
BY AnswerMove DEF Notify

\* Steps of a guest's request that read, and then go on or answer.
LEMMA GuestReads ==
  ASSUME TypeInv, NEW h \in Handlers,
         \/ CheckUsername(h) \/ FindClient(h)
         \/ SelectReadBill(h) \/ DeselectReadBill(h)
  PROVE  /\ Others(h) /\ UNCHANGED <<rows, socket>>
         /\ \/ req'[h] = Idle
            \/ /\ KeepsLocals(h)
               /\ \/ At(h, "checkName") /\ req[h].g # None
                     /\ req'[h].pc \in {"createClient", "findClient"}
                  \/ At(h, "findClient")
                     /\ req'[h].pc \in {"createClient", "reconnect"}
                  \/ At(h, "selectBill") /\ req[h].g # None
                     /\ req'[h].pc = "push"
                  \/ At(h, "deselectBill") /\ req[h].g # None
                     /\ req'[h].pc = "deselectWrite"
<1>1. CASE CheckUsername(h)
  BY <1>1, GotoMove, AnswerMove DEF CheckUsername
<1>2. CASE FindClient(h)
  BY <1>2, GotoMove, AnswerMove DEF FindClient
<1>3. CASE SelectReadBill(h)
  BY <1>3, GotoMove, AnswerMove DEF SelectReadBill
<1>4. CASE DeselectReadBill(h)
  BY <1>4, GotoMove, AnswerMove DEF DeselectReadBill
<1> QED
  BY <1>1, <1>2, <1>3, <1>4

\* A guest gets a row, or the old one, and the session is looked up again.
LEMMA SeatedMove ==
  ASSUME TypeInv, NEW h \in Handlers, CreateClient(h) \/ Reconnect(h)
  PROVE  /\ Others(h) /\ UNCHANGED <<group, order, bill, food>>
         /\ req[h].pc \in {"createClient", "reconnect"}
         /\ \/ /\ req'[h] = Idle
               /\ UNCHANGED <<client, socket>>
            \/ /\ req'[h].pc = "find" /\ req'[h].ret = "noti"
               /\ req'[h].t = req[h].t /\ req'[h].dto = req[h].dto
               /\ \E c \in Clients \cup {None} :
                    /\ socket' = Seated(h, c)
                    /\ c \in Clients => client'[c].group = req[h].g
                    /\ \A k \in Clients \ {c} : client'[k] = client[k]
<1>1. CASE CreateClient(h)
  <2>1. PICK c \in Clients :
          /\ client' = [client EXCEPT ![c] = [status |-> "ONLINE",
                                              name |-> req[h].name,
                                              group |-> req[h].g]]
          /\ socket' = Seated(h, c)
    BY <1>1 DEF CreateClient, Pick
  <2>2. client'[c].group = req[h].g /\ \A k \in Clients \ {c} : client'[k] = client[k]
    BY <2>1 DEF TypeInv, TypeOK
  <2> QED
    BY <1>1, <2>1, <2>2, CallMove DEF CreateClient, At
<1>2. CASE Reconnect(h) /\ HasClient(req[h].c)
  <2> DEFINE c == req[h].c
  <2>1. /\ client' = [client EXCEPT ![c].status = "ONLINE", ![c].group = req[h].g]
        /\ socket' = Seated(h, c) /\ Call(h, req[h].t, "noti")
    BY <1>2 DEF Reconnect
  <2>2. c \in Clients \cup {None}
    BY DEF TypeInv, TypeOK, Request
  <2>3. /\ c \in Clients => client'[c].group = req[h].g
        /\ \A k \in Clients \ {c} : client'[k] = client[k]
    <3> HIDE DEF c
    <3> QED
      BY <2>1 DEF TypeInv, TypeOK, ClientRow
  <2>4. UNCHANGED <<group, order, bill, food>> /\ req[h].pc = "reconnect"
    BY <1>2 DEF Reconnect, At
  <2>5. /\ Others(h) /\ req'[h].pc = "find" /\ req'[h].ret = "noti"
        /\ req'[h].t = req[h].t /\ req'[h].dto = req[h].dto
    BY <2>1, CallMove
  <2> HIDE DEF c
  <2> QED
    BY <2>1, <2>2, <2>3, <2>4, <2>5
<1>3. CASE Reconnect(h) /\ ~HasClient(req[h].c)
  BY <1>3, AnswerMove DEF Reconnect, At
<1> QED
  BY <1>1, <1>2, <1>3

\* A guest leaves: the look-up of the guest's food, the deletion of the guest; or
\* is gone: the guest goes offline.
LEMMA LeaveMove ==
  ASSUME TypeInv, NEW h \in Handlers,
         LeaveReadFoods(h) \/ LeaveDeleteClient(h) \/ GoOffline(h)
  PROVE  /\ Others(h) /\ UNCHANGED <<group, order, bill, food>>
         /\ NobodyJoins /\ NobodySits
         /\ \/ req'[h] = Idle
            \/ /\ At(h, "leaveFoods") /\ req'[h].pc = "deleteClient"
               /\ req'[h].t = req[h].t /\ req'[h].g = req[h].g
               /\ req'[h].dto = req[h].dto
            \/ /\ At(h, "deleteClient") /\ req'[h].pc = "noti"
               /\ KeepsLocals(h)
            \/ /\ At(h, "offline") /\ req'[h].pc = "find" /\ KeepsLocals(h)
<1>1. CASE LeaveReadFoods(h)
  <2>1. UNCHANGED <<rows, socket>> /\ At(h, "leaveFoods")
    BY <1>1 DEF LeaveReadFoods
  <2>2. NobodyJoins /\ NobodySits
    BY <2>1 DEF rows, NobodyJoins, NobodySits, HasClient
  <2>3. CASE Answer(h)
    BY <2>1, <2>2, <2>3, AnswerMove DEF rows
  <2>4. CASE ~Answer(h)
    <3>1. PICK c : req' = [req EXCEPT ![h] = [req[h] EXCEPT !.pc = "deleteClient",
                                                           !.c = c]]
      BY <1>1, <2>4 DEF LeaveReadFoods
    <3>2. Others(h) /\ req'[h] = [req[h] EXCEPT !.pc = "deleteClient", !.c = c]
      BY <3>1, BecomeMove
    <3>3. req[h] \in Request
      BY DEF TypeInv, TypeOK
    <3>4. /\ req'[h].pc = "deleteClient" /\ req'[h].t = req[h].t
          /\ req'[h].g = req[h].g /\ req'[h].dto = req[h].dto
      BY <3>2, <3>3 DEF Request
    <3> QED
      BY SMTT(30), <2>1, <2>2, <3>2, <3>4 DEF rows
  <2> QED
    BY <2>3, <2>4
<1>2. CASE LeaveDeleteClient(h)
  <2>1. UNCHANGED <<group, order, bill, food>> /\ At(h, "deleteClient")
    BY <1>2 DEF LeaveDeleteClient
  <2>2. NobodyJoins /\ NobodySits
    BY <1>2
       DEF LeaveDeleteClient, DeleteClientRow, NobodyJoins, NobodySits, HasClient,
           NoClient, TypeInv, TypeOK, ClientRow, Connection
  <2>3. Answer(h) \/ Goto(h, "noti")
    BY <1>2 DEF LeaveDeleteClient
  <2> QED
    BY <2>1, <2>2, <2>3, AnswerMove, GotoMove
<1>3. CASE GoOffline(h)
  <2>1. UNCHANGED <<group, order, bill, food, socket>> /\ At(h, "offline")
    BY <1>3 DEF GoOffline
  <2>2. NobodyJoins /\ NobodySits
    BY <1>3
       DEF GoOffline, NobodyJoins, NobodySits, HasClient, TypeInv, TypeOK, ClientRow
  <2>3. Answer(h) \/ Goto(h, "find")
    BY <1>3 DEF GoOffline
  <2> QED
    BY <2>1, <2>2, <2>3, AnswerMove, GotoMove
<1> QED
  BY <1>1, <1>2, <1>3

\* An entry is added to the cart of the session.
LEMMA SelectPushMove ==
  ASSUME TypeInv, NEW h \in Handlers, SelectPush(h)
  PROVE  /\ Others(h) /\ UNCHANGED <<order, bill, food, client, socket>>
         /\ At(h, "push") /\ req'[h].pc = "noti" /\ KeepsLocals(h)
         /\ \E i \in FreshItems :
              group' = [group EXCEPT ![req[h].g].cart =
                          Append(group[req[h].g].cart,
                                 [id |-> i, user |-> req[h].c])]
<1>1. PICK i \in FreshItems :
        group' = [group EXCEPT ![req[h].g].cart =
                    Append(group[req[h].g].cart, [id |-> i, user |-> req[h].c])]
  BY DEF SelectPush, Pick
<1> QED
  BY <1>1, GotoMove DEF SelectPush

\* The shortened cart is written.
LEMMA DeselectWriteMove ==
  ASSUME TypeInv, NEW h \in Handlers, DeselectWrite(h)
  PROVE  /\ Others(h) /\ UNCHANGED <<order, bill, food, client, socket>>
         /\ At(h, "deselectWrite")
         /\ group' = [group EXCEPT ![req[h].g].cart =
                         Splice(req[h].cart, req[h].item)]
         /\ \/ req[h].cart = <<>> /\ req'[h] = Idle
            \/ req'[h].pc = "noti" /\ KeepsSubject(h)
<1>1. /\ UNCHANGED <<order, bill, food, client, socket>> /\ At(h, "deselectWrite")
      /\ group' = [group EXCEPT ![req[h].g].cart = Splice(req[h].cart, req[h].item)]
  BY DEF DeselectWrite
<1>2. CASE req[h].cart = <<>>
  BY <1>1, <1>2, AnswerMove DEF DeselectWrite
<1>3. CASE req[h].cart # <<>>
  <2> DEFINE r == [req[h] EXCEPT !.pc = "noti", !.cart = <<>>, !.item = None]
  <2>1. Others(h) /\ req'[h] = r
    BY <1>3, BecomeMove DEF DeselectWrite
  <2>2. req[h] \in Request
    BY DEF TypeInv, TypeOK
  <2>3. /\ r.pc = "noti" /\ r.s = req[h].s /\ r.t = req[h].t /\ r.g = req[h].g
        /\ r.c = req[h].c /\ r.dto = req[h].dto
        /\ r.paid = req[h].paid
    BY <2>2 DEF Request
  <2> QED
    BY <1>1, <2>1, <2>3 DEF KeepsSubject
<1> QED
  BY <1>2, <1>3

----------------------------------------------------------------------------
\* Orders of guests.

\* A guest orders the list it sent, at the session's table.
LEMMA CreateOrderMove ==
  ASSUME TypeInv, NEW h \in Handlers, CreateOrder(h)
  PROVE  /\ Others(h) /\ UNCHANGED <<rows, socket>> /\ At(h, "idle")
         /\ req'[h].pc = "orderGroup" /\ req'[h].g \in Existing
         /\ req'[h].t = group[req'[h].g].table
         /\ req'[h].cart \in OrderLists(req'[h].g)
         /\ req'[h].dto = NoDto
<1>1. PICK s \in Sockets, g \in Existing :
        /\ group[g].table = socket[s].room
        /\ \E list \in OrderLists(g) :
             Accept(h, "create",
               [Idle EXCEPT !.pc = "orderGroup", !.t = socket[s].room, !.g = g,
                            !.cart = list,
                            !.flag = OpenOrders(socket[s].room) # {}])
  BY DEF CreateOrder
<1>0. PICK list \in OrderLists(g) :
        Accept(h, "create",
          [Idle EXCEPT !.pc = "orderGroup", !.t = socket[s].room, !.g = g,
                       !.cart = list,
                       !.flag = OpenOrders(socket[s].room) # {}])
  BY <1>1
<1> DEFINE open == OpenOrders(socket[s].room) # {}
           r == [Idle EXCEPT !.pc = "orderGroup", !.t = socket[s].room, !.g = g,
                             !.cart = list, !.flag = open]
<1>2. /\ r.pc = "orderGroup" /\ r.t = socket[s].room /\ r.g = g
      /\ r.cart = list /\ r.dto = NoDto
  <2> HIDE DEF open
  <2> QED
    BY DEF Idle
<1>3. Others(h) /\ At(h, "idle") /\ req'[h] = r
  BY <1>0, AcceptMove
<1> HIDE DEF r
<1> QED
  BY <1>1, <1>2, <1>3 DEF CreateOrder

\* Or adds it, or nothing, to the session's order.
LEMMA UpdateOrderMove ==
  ASSUME TypeInv, NEW h \in Handlers, UpdateOrder(h)
  PROVE  /\ Others(h) /\ UNCHANGED <<rows, socket>> /\ At(h, "idle")
         /\ req'[h].pc \in {"setMethod", "updateWrite"}
         /\ req'[h].g \in Existing /\ req'[h].g \in Ordered
         /\ req'[h].t = group[req'[h].g].table
         /\ req'[h].cart \in OrderLists(req'[h].g) \cup {<<>>}
         /\ req'[h].dto = NoDto
<1>1. PICK s \in Sockets, g \in Existing, method \in BOOLEAN :
        /\ group[g].table = socket[s].room
        /\ order[g].status # "none"
        /\ \E list \in OrderLists(g) \cup {<<>>} :
             Accept(h, "update",
               [Idle EXCEPT !.pc = IF method /\ bill[g].status # "none"
                                   THEN "setMethod" ELSE "updateWrite",
                            !.t = socket[s].room, !.g = g, !.cart = list])
  BY ZenonT(40) DEF UpdateOrder
<1>0. PICK cart \in OrderLists(g) \cup {<<>>} :
        Accept(h, "update",
          [Idle EXCEPT !.pc = IF method /\ bill[g].status # "none"
                              THEN "setMethod" ELSE "updateWrite",
                       !.t = socket[s].room, !.g = g, !.cart = cart])
  BY <1>1
<1> DEFINE place == IF method /\ bill[g].status # "none"
                    THEN "setMethod" ELSE "updateWrite"
           r == [Idle EXCEPT !.pc = place, !.t = socket[s].room, !.g = g,
                             !.cart = cart]
<1>2. Others(h) /\ At(h, "idle") /\ req'[h] = r
  BY <1>0, AcceptMove
<1>3. /\ r.pc = place /\ r.t = socket[s].room /\ r.g = g /\ r.cart = cart
      /\ r.dto = NoDto
  <2> HIDE DEF place
  <2> QED
    BY DEF Idle
<1>4. place \in {"setMethod", "updateWrite"}
  OBVIOUS
<1>5. UNCHANGED <<rows, socket>> /\ g \in Ordered
  BY <1>1 DEF UpdateOrder, Ordered, Existing
<1> HIDE DEF r, place
<1> QED
  BY <1>1, <1>2, <1>3, <1>4, <1>5

\* Steps of these requests that read, and go on or answer.
LEMMA OrderReads ==
  ASSUME TypeInv, NEW h \in Handlers, OrderReadGroup(h) \/ SetBillMethod(h)
  PROVE  /\ Others(h) /\ UNCHANGED <<rows, socket>>
         /\ \/ req'[h] = Idle
            \/ /\ KeepsLocals(h)
               /\ \/ At(h, "orderGroup") /\ req'[h].pc = "insertOrder"
                  \/ At(h, "setMethod") /\ req'[h].pc = "updateWrite"
<1>1. CASE OrderReadGroup(h)
  BY <1>1, GotoMove, AnswerMove DEF OrderReadGroup
<1>2. CASE SetBillMethod(h)
  BY <1>2, GotoMove, AnswerMove DEF SetBillMethod
<1> QED
  BY <1>1, <1>2

\* The order and its foods are created, unless the session has an order.
LEMMA InsertOrderMove ==
  ASSUME TypeInv, NEW h \in Handlers, InsertOrder(h)
  PROVE  /\ Others(h) /\ UNCHANGED <<group, bill, client, socket>>
         /\ At(h, "insertOrder")
         /\ \/ req'[h] = Idle /\ UNCHANGED <<order, food>>
            \/ /\ order[req[h].g].status = "none"
               /\ order' = [order EXCEPT ![req[h].g] =
                              [status |-> "NOT_CHECKOUT", table |-> req[h].t,
                               overall |-> "PENDING"]]
               /\ AddFoods(req[h].g, req[h].cart)
               /\ req'[h].pc = "clearCart" /\ KeepsSubject(h)
<1>1. UNCHANGED <<group, bill, client, socket>> /\ At(h, "insertOrder")
  BY DEF InsertOrder
<1>2. CASE Answer(h) /\ UNCHANGED <<order, food>>
  BY <1>1, <1>2, AnswerMove
<1> DEFINE r == [req[h] EXCEPT !.pc = "clearCart", !.cart = <<>>]
<1>3. req[h] \in Request
  BY DEF TypeInv, TypeOK
<1>4. /\ r.pc = "clearCart" /\ r.s = req[h].s /\ r.t = req[h].t /\ r.g = req[h].g
      /\ r.c = req[h].c /\ r.dto = req[h].dto
      /\ r.paid = req[h].paid
  BY <1>3 DEF Request
<1>5. CASE /\ order[req[h].g].status = "none"
           /\ order' = [order EXCEPT ![req[h].g] =
                          [status |-> "NOT_CHECKOUT", table |-> req[h].t,
                           overall |-> "PENDING"]]
           /\ AddFoods(req[h].g, req[h].cart)
           /\ req' = [req EXCEPT ![h] = r]
  BY <1>1, <1>4, <1>5, BecomeMove DEF KeepsSubject
<1> QED
  BY <1>2, <1>5 DEF InsertOrder

\* The order moves to the guest's table and gets the foods.
LEMMA UpdateWriteMove ==
  ASSUME TypeInv, NEW h \in Handlers, UpdateWrite(h)
  PROVE  /\ Others(h) /\ UNCHANGED <<group, bill, client, socket>>
         /\ At(h, "updateWrite")
         /\ req'[h].pc = "clearCart" /\ KeepsSubject(h)
         /\ AddFoods(req[h].g, req[h].cart)
         /\ \A k \in Groups \ {req[h].g} : order'[k] = order[k]
         /\ req[h].g \in Groups
         /\ order'[req[h].g].status = order[req[h].g].status
         /\ order'[req[h].g].table = req[h].t
         /\ order'[req[h].g].overall \in
              IF req[h].cart = <<>> THEN {order[req[h].g].overall} ELSE {"PENDING"}
<1> DEFINE g == req[h].g
           r == [req[h] EXCEPT !.pc = "clearCart", !.cart = <<>>]
<1>1. req[h] \in Request /\ g \in Groups
  BY SessionFit
     DEF TypeInv, TypeOK, UpdateWrite, At, SessionLabels, OrderLabels
<1>2. /\ UNCHANGED <<group, bill, client, socket>> /\ At(h, "updateWrite")
      /\ AddFoods(g, req[h].cart) /\ req' = [req EXCEPT ![h] = r]
      /\ order' = [order EXCEPT ![g] =
                     [order[g] EXCEPT !.table = req[h].t,
                                      !.overall = IF req[h].cart = <<>>
                                                  THEN order[g].overall
                                                  ELSE "PENDING"]]
  BY DEF UpdateWrite
<1>3. /\ r.pc = "clearCart" /\ r.s = req[h].s /\ r.t = req[h].t /\ r.g = req[h].g
      /\ r.c = req[h].c /\ r.dto = req[h].dto
      /\ r.paid = req[h].paid
  BY <1>1 DEF Request
<1>4. Others(h) /\ req'[h] = r
  BY <1>2, BecomeMove
<1>5. /\ \A k \in Groups \ {g} : order'[k] = order[k]
      /\ order'[g].status = order[g].status /\ order'[g].table = req[h].t
      /\ order'[g].overall = IF req[h].cart = <<>> THEN order[g].overall
                                                   ELSE "PENDING"
  <2> HIDE DEF g, r
  <2> QED
    BY <1>1, <1>2 DEF TypeInv, TypeOK, OrderRow
<1>6. req'[h].pc = "clearCart" /\ KeepsSubject(h)
  BY <1>3, <1>4 DEF KeepsSubject
<1> HIDE DEF r
<1> QED
  BY <1>1, <1>2, <1>4, <1>5, <1>6

\* The cart is emptied.
LEMMA ClearCartMove ==
  ASSUME TypeInv, NEW h \in Handlers, ClearCart(h)
  PROVE  /\ Others(h) /\ UNCHANGED <<order, bill, food, client, socket>>
         /\ At(h, "clearCart") /\ req'[h].pc = "noti" /\ KeepsLocals(h)
         /\ group' = [group EXCEPT ![req[h].g].cart = <<>>]
BY GotoMove DEF ClearCart

----------------------------------------------------------------------------
\* The waiter.

\* A waiter's message about an order that exists: the bill is cancelled, or the
\* food that is listed is written, or the order is read.
LEMMA AdminArrives ==
  ASSUME TypeInv, NEW h \in Handlers, AdminUpdateClientOrder(h)
  PROVE  /\ Others(h) /\ UNCHANGED <<rows, socket>> /\ At(h, "idle")
         /\ req'[h].g \in Ordered /\ req'[h].t = None
         /\ req'[h].dto \in AdminDtos /\ ~req'[h].paid
         /\ req'[h].foods \subseteq FoodsOfOrder(req'[h].g)
         /\ \/ /\ req'[h].dto.bill = "CANCEL" /\ req'[h].pc = "cancel"
               /\ ~req'[h].failed
            \/ /\ req'[h].dto.bill # "CANCEL" /\ req'[h].pc = "foodWrite"
            \/ /\ req'[h].dto.bill # "CANCEL" /\ req'[h].pc = "adminRead"
               /\ req'[h].dto.food = None
<1>1. PICK g \in {k \in Groups : order[k].status # "none"}, d \in AdminDtos :
        \E F \in IF d.food = None THEN {{}} ELSE {{f} : f \in FoodsOfOrder(g)} :
          Accept(h, "admin",
            [Idle EXCEPT !.g = g, !.dto = d, !.foods = F,
                         !.pc = IF d.bill = "CANCEL" THEN "cancel"
                                ELSE IF F # {} THEN "foodWrite"
                                ELSE "adminRead"])
  BY ZenonT(40) DEF AdminUpdateClientOrder
<1>2. PICK F \in IF d.food = None THEN {{}} ELSE {{f} : f \in FoodsOfOrder(g)} :
          Accept(h, "admin",
            [Idle EXCEPT !.g = g, !.dto = d, !.foods = F,
                         !.pc = IF d.bill = "CANCEL" THEN "cancel"
                                ELSE IF F # {} THEN "foodWrite"
                                ELSE "adminRead"])
  BY <1>1
<1> DEFINE place == IF d.bill = "CANCEL" THEN "cancel"
                    ELSE IF F # {} THEN "foodWrite" ELSE "adminRead"
           r == [Idle EXCEPT !.g = g, !.dto = d, !.foods = F, !.pc = place]
<1>3. Others(h) /\ At(h, "idle") /\ req'[h] = r
  BY <1>2, AcceptMove
<1>4. /\ r.pc = place /\ r.t = None /\ r.g = g /\ r.dto = d /\ r.foods = F
      /\ r.failed = FALSE /\ r.paid = FALSE
  <2> HIDE DEF place
  <2> QED
    BY DEF Idle
<1>5. F \subseteq FoodsOfOrder(g) /\ (d.food # None => F # {})
  BY <1>2
<1>6. \/ d.bill = "CANCEL" /\ place = "cancel"
      \/ d.bill # "CANCEL" /\ place = "foodWrite"
      \/ d.bill # "CANCEL" /\ place = "adminRead" /\ d.food = None
  BY <1>5
<1>7. UNCHANGED <<rows, socket>> /\ g \in Ordered
  BY DEF AdminUpdateClientOrder, Ordered
<1> HIDE DEF r, place
<1> QED
  BY <1>3, <1>4, <1>5, <1>6, <1>7

\* The listed food is written.
LEMMA FoodWriteMove ==
  ASSUME TypeInv, NEW h \in Handlers, FoodWrite(h)
  PROVE  /\ Others(h) /\ UNCHANGED <<group, order, bill, client, socket>>
         /\ At(h, "foodWrite")
         /\ \/ req'[h] = Idle /\ UNCHANGED food
            \/ /\ req'[h].pc = "adminRead" /\ KeepsSubject(h)
               /\ \E f \in req[h].foods :
                    /\ HasFood(f) /\ f \in Foods
                    /\ \A e \in Foods \ {f} : food'[e] = food[e]
                    /\ \/ ~HasFood(f)'
                       \/ /\ food'[f].status = req[h].dto.food
                          /\ food'[f].order = food[f].order
                          /\ food'[f].item = food[f].item
<1>1. UNCHANGED <<group, order, bill, client, socket>> /\ At(h, "foodWrite")
      /\ req[h] \in Request
  BY DEF FoodWrite, TypeInv, TypeOK
<1>2. CASE Answer(h) /\ UNCHANGED food
  BY <1>1, <1>2, AnswerMove
<1> DEFINE r == [req[h] EXCEPT !.pc = "adminRead", !.foods = {}]
<1>3. CASE \E f \in req[h].foods :
             /\ HasFood(f)
             /\ food' = IF req[h].dto.food = "DELETE"
                        THEN [food EXCEPT ![f] = [NoFood EXCEPT
                                                    !.status = "deleted"]]
                        ELSE [food EXCEPT ![f].status = req[h].dto.food]
             /\ req' = [req EXCEPT ![h] = r]
  <2>1. PICK f \in req[h].foods :
             /\ HasFood(f)
             /\ food' = IF req[h].dto.food = "DELETE"
                        THEN [food EXCEPT ![f] = [NoFood EXCEPT
                                                    !.status = "deleted"]]
                        ELSE [food EXCEPT ![f].status = req[h].dto.food]
             /\ req' = [req EXCEPT ![h] = r]
    BY <1>3
  <2>2. /\ r.pc = "adminRead" /\ r.s = req[h].s /\ r.t = req[h].t
        /\ r.g = req[h].g /\ r.c = req[h].c /\ r.dto = req[h].dto
        /\ r.paid = req[h].paid
    BY <1>1 DEF Request
  <2>3. Others(h) /\ req'[h] = r
    BY <2>1, BecomeMove
  <2>4. f \in Foods /\ food \in [Foods -> FoodRow]
    BY <1>1 DEF Request, TypeInv, TypeOK
  <2> HIDE DEF r
  <2>5. /\ \A e \in Foods \ {f} : food'[e] = food[e]
        /\ \/ ~HasFood(f)'
           \/ /\ food'[f].status = req[h].dto.food
              /\ food'[f].order = food[f].order
              /\ food'[f].item = food[f].item
    <3>1. CASE req[h].dto.food = "DELETE"
      BY <2>1, <2>4, <3>1 DEF HasFood, NoFood, FoodStatus
    <3>2. CASE req[h].dto.food # "DELETE"
      BY <2>1, <2>4, <3>2 DEF FoodRow
    <3> QED
      BY <3>1, <3>2
  <2>6. req'[h].pc = "adminRead" /\ KeepsSubject(h)
    BY <2>2, <2>3 DEF KeepsSubject
  <2> QED
    BY <1>1, <2>1, <2>3, <2>4, <2>5, <2>6
<1> QED
  BY <1>2, <1>3 DEF FoodWrite

\* The order is read with its foods.
LEMMA AdminReadOrderMove ==
  ASSUME TypeInv, NEW h \in Handlers, AdminReadOrder(h)
  PROVE  /\ Others(h) /\ UNCHANGED <<rows, socket>> /\ At(h, "adminRead")
         /\ req'[h].pc = AfterLists(req[h].dto) /\ KeepsSubject(h)
         /\ req'[h].flag <=> \E f \in FoodsOfOrder(req[h].g) :
                               food[f].status \in {"COOKING", "PENDING"}
<1> DEFINE foods == IF req[h].dto.status = "BILLING"
                    THEN {f \in FoodsOfOrder(req[h].g) : food[f].status # "CANCEL"}
                    ELSE {}
           unserved == \E f \in FoodsOfOrder(req[h].g) :
                         food[f].status \in {"COOKING", "PENDING"}
           place == AfterLists(req[h].dto)
           r == [req[h] EXCEPT !.pc = place, !.flag = unserved, !.foods = foods]
<1>1. UNCHANGED <<rows, socket>> /\ At(h, "adminRead") /\ req' = [req EXCEPT ![h] = r]
  BY DEF AdminReadOrder
<1>2. /\ r.pc = place /\ r.s = req[h].s /\ r.t = req[h].t /\ r.g = req[h].g
      /\ r.c = req[h].c /\ r.dto = req[h].dto /\ r.paid = req[h].paid
      /\ r.flag = unserved
  <2> HIDE DEF place, unserved, foods
  <2>1. req[h] \in Request
    BY DEF TypeInv, TypeOK
  <2> QED
    BY <2>1 DEF Request
<1> HIDE DEF r, unserved
<1>3. Others(h) /\ req'[h] = r
  BY <1>1, BecomeMove
<1>4. req'[h].pc = place /\ KeepsSubject(h) /\ req'[h].flag = unserved
  BY <1>2, <1>3 DEF KeepsSubject
<1> QED
  BY <1>1, <1>3, <1>4 DEF unserved

\* The bill is made out, unless there is one.
LEMMA CreateBillMove ==
  ASSUME TypeInv, NEW h \in Handlers, CreateBill(h)
  PROVE  /\ Others(h) /\ UNCHANGED <<group, order, food, client, socket>>
         /\ At(h, "createBill")
         /\ \/ req'[h] = Idle /\ UNCHANGED bill
            \/ /\ bill[req[h].g].status = "none"
               /\ \A k \in Groups \ {req[h].g} : bill'[k] = bill[k]
               /\ bill'[req[h].g].status = "NOT_PAID" /\ req[h].g \in Groups
               /\ req'[h].pc = IF req[h].dto.bill # None THEN "setBill"
                                                         ELSE "adminWrite"
               /\ KeepsSubject(h) /\ req'[h].flag = req[h].flag
<1>1. UNCHANGED <<group, order, food, client, socket>> /\ At(h, "createBill")
  BY DEF CreateBill
<1>2. req[h] \in Request /\ req[h].g \in Groups
  BY <1>1, SessionFit DEF TypeInv, TypeOK, At, SessionLabels, OrderLabels
<1>3. CASE Answer(h) /\ UNCHANGED bill
  BY <1>1, <1>3, AnswerMove
<1> DEFINE place == IF req[h].dto.bill # None THEN "setBill" ELSE "adminWrite"
           r == [req[h] EXCEPT !.pc = place, !.foods = {}]
<1>4. CASE /\ bill[req[h].g].status = "none"
           /\ bill' = [bill EXCEPT ![req[h].g] = [status |-> "NOT_PAID",
                                                  foods |-> req[h].foods]]
           /\ req' = [req EXCEPT ![h] = r]
  <2>1. Others(h) /\ req'[h] = r
    BY <1>4, BecomeMove
  <2>2. /\ r.pc = place /\ r.s = req[h].s /\ r.t = req[h].t /\ r.g = req[h].g
        /\ r.c = req[h].c /\ r.dto = req[h].dto /\ r.paid = req[h].paid
      /\ r.flag = req[h].flag
    <3> HIDE DEF place
    <3> QED
      BY <1>2 DEF Request
  <2>3. /\ \A k \in Groups \ {req[h].g} : bill'[k] = bill[k]
        /\ bill'[req[h].g].status = "NOT_PAID"
    BY <1>2, <1>4 DEF TypeInv, TypeOK
  <2>4. req'[h].pc = place /\ KeepsSubject(h) /\ req'[h].flag = req[h].flag
    BY <2>1, <2>2 DEF KeepsSubject
  <2> HIDE DEF r
  <2> QED
    BY <1>1, <1>2, <1>4, <2>1, <2>3, <2>4
<1> QED
  BY <1>3, <1>4 DEF CreateBill

\* What a waiter's message makes of the status of a bill.
NewBill(r) == IF r.dto.bill = "KEEP" THEN bill[r.g].status ELSE r.dto.bill

\* The bill gets the status of the message, if there is one.
LEMMA SetBillMove ==
  ASSUME TypeInv, NEW h \in Handlers, SetBill(h)
  PROVE  /\ Others(h) /\ UNCHANGED <<group, order, food, client, socket>>
         /\ At(h, "setBill")
         /\ \/ req'[h] = Idle /\ UNCHANGED bill
            \/ /\ \A k \in Groups \ {req[h].g} : bill'[k] = bill[k]
               /\ bill'[req[h].g].status = NewBill(req[h])
               /\ bill[req[h].g].status # "none"
               /\ req[h].g \in Groups
               /\ req'[h].pc = "adminWrite"
               /\ req'[h].paid = (NewBill(req[h]) = "PAID")
               /\ req'[h].g = req[h].g /\ req'[h].dto = req[h].dto
               /\ req'[h].flag = req[h].flag
<1>1. UNCHANGED <<group, order, food, client, socket>> /\ At(h, "setBill")
  BY DEF SetBill
<1>2. req[h].g \in Groups
  BY <1>1, SessionFit DEF TypeInv, TypeOK, At, SessionLabels, OrderLabels
<1>3. CASE Answer(h) /\ UNCHANGED bill
  BY <1>1, <1>3, AnswerMove
<1> DEFINE status == NewBill(req[h])
           paid   == status = "PAID"
           r      == [req[h] EXCEPT !.pc = "adminWrite", !.paid = paid]
<1>4. CASE /\ bill[req[h].g].status # "none"
           /\ bill' = [bill EXCEPT ![req[h].g].status = status]
           /\ req' = [req EXCEPT ![h] = r]
  <2>1. /\ \A k \in Groups \ {req[h].g} : bill'[k] = bill[k]
        /\ bill'[req[h].g].status = status
    <3> HIDE DEF status
    <3> QED
      BY <1>2, <1>4 DEF TypeInv, TypeOK, BillRow
  <2>2. req[h] \in Request
    BY DEF TypeInv, TypeOK
  <2>3. /\ r.pc = "adminWrite" /\ r.paid = paid /\ r.g = req[h].g
        /\ r.dto = req[h].dto /\ r.flag = req[h].flag
    <3> HIDE DEF paid
    <3> QED
      BY <2>2 DEF Request
  <2> HIDE DEF r
  <2>4. Others(h) /\ req'[h] = r
    BY <1>4, BecomeMove
  <2> QED
    BY <1>1, <1>2, <1>4, <2>1, <2>3, <2>4
<1> QED
  BY <1>3, <1>4 DEF SetBill, NewBill

\* What a waiter's message makes of the status of an order.
NewStatus(r) ==
  IF r.paid THEN "PAID"
  ELSE IF r.dto.status # None THEN r.dto.status ELSE order[r.g].status

\* The order is written, and its session when it is cancelled.
LEMMA AdminWriteOrderMove ==
  ASSUME TypeInv, NEW h \in Handlers, AdminWriteOrder(h)
  PROVE  /\ Others(h) /\ UNCHANGED <<bill, food, client, socket>>
         /\ At(h, "adminWrite") /\ req[h].g \in Groups
         /\ \A k \in Groups \ {req[h].g} : order'[k] = order[k]
         /\ order'[req[h].g].status = NewStatus(req[h])
         /\ order'[req[h].g].table = IF req[h].dto.transfer # None
                                     THEN req[h].dto.transfer
                                     ELSE order[req[h].g].table
         /\ order'[req[h].g].overall = IF req[h].flag THEN "PENDING"
                                                      ELSE "ALL_SERVED"
         /\ group' = IF req[h].dto.status = "CANCEL"
                     THEN [group EXCEPT ![req[h].g].status = "REJECT"]
                     ELSE group
         /\ req'[h].g = req[h].g /\ req'[h].dto = req[h].dto
         /\ \/ /\ req[h].paid /\ req'[h].pc = "complete"
               /\ KeepsSubject(h)
            \/ /\ ~req[h].paid /\ NewStatus(req[h]) = "PAID"
               /\ req'[h].pc = "noti" /\ KeepsSubject(h)
            \/ /\ ~req[h].paid
               /\ req'[h].pc = "find" /\ req'[h].ret = "noti"
<1> DEFINE g == req[h].g
           table == IF req[h].dto.transfer # None THEN req[h].dto.transfer
                                                  ELSE order[g].table
           overall == IF req[h].flag THEN "PENDING" ELSE "ALL_SERVED"
           status == NewStatus(req[h])
<1>1. /\ UNCHANGED <<bill, food, client, socket>> /\ At(h, "adminWrite")
      /\ order' = [order EXCEPT ![g] = [status |-> status, table |-> table,
                                        overall |-> overall]]
      /\ group' = IF req[h].dto.status = "CANCEL"
                  THEN [group EXCEPT ![g].status = "REJECT"] ELSE group
      /\ IF req[h].paid THEN Goto(h, "complete")
         ELSE IF status = "PAID" THEN Goto(h, "noti")
         ELSE Call(h, table, "noti")
  BY DEF AdminWriteOrder, NewStatus
<1>2. g \in Groups
  BY <1>1, SessionFit DEF TypeInv, TypeOK, At, SessionLabels, OrderLabels
<1> HIDE DEF status, table, overall
<1>3. /\ \A k \in Groups \ {g} : order'[k] = order[k]
      /\ order'[g].status = status /\ order'[g].table = table
      /\ order'[g].overall = overall
  BY <1>1, <1>2 DEF TypeInv, TypeOK
<1>4. /\ Others(h) /\ req'[h].g = g /\ req'[h].dto = req[h].dto
      /\ \/ /\ req[h].paid /\ req'[h].pc = "complete"
            /\ KeepsSubject(h)
         \/ /\ ~req[h].paid /\ status = "PAID"
            /\ req'[h].pc = "noti" /\ KeepsSubject(h)
         \/ /\ ~req[h].paid
            /\ req'[h].pc = "find" /\ req'[h].ret = "noti"
  <2>1. CASE Goto(h, "complete") /\ req[h].paid
    BY <2>1, GotoMove DEF KeepsLocals, KeepsSubject
  <2>2. CASE Goto(h, "noti") /\ ~req[h].paid /\ status = "PAID"
    BY <2>2, GotoMove DEF KeepsLocals, KeepsSubject
  <2>3. CASE Call(h, table, "noti") /\ ~req[h].paid
    BY <2>3, CallMove
  <2> QED
    BY <1>1, <2>1, <2>2, <2>3
<1> QED
  BY <1>1, <1>2, <1>3, <1>4 DEF status, table, overall

\* The session of a paid order is completed.
LEMMA CompleteSessionMove ==
  ASSUME TypeInv, NEW h \in Handlers, CompleteSession(h)
  PROVE  /\ Others(h) /\ UNCHANGED <<order, bill, food, client, socket>>
         /\ At(h, "complete") /\ req'[h].pc = "noti" /\ KeepsLocals(h)
         /\ group' = [group EXCEPT ![req[h].g].status = "COMPLETED"]
BY GotoMove DEF CompleteSession

\* Of the two writes that cancel a bill, the one that deletes it,
LEMMA CancelDeleteBillMove ==
  ASSUME TypeInv, NEW h \in Handlers, CancelDeleteBill(h)
  PROVE  /\ Others(h) /\ UNCHANGED <<group, order, food, client, socket>>
         /\ req[h].g \in Groups
         /\ \A k \in Groups \ {req[h].g} : bill'[k] = bill[k]
         /\ \/ At(h, "cancel") /\ req'[h].pc = "cancelOrder"
               /\ req'[h].g = req[h].g
            \/ At(h, "cancelBill") /\ req'[h] = Idle
            \/ At(h, "cancelBill") /\ req'[h].pc = "find"
               /\ req'[h].g = req[h].g /\ req'[h].ret = "noti"
<1> DEFINE failed == bill[req[h].g].status = "none"
           q == [req[h] EXCEPT !.pc = "cancelOrder", !.failed = failed]
           r == [req[h] EXCEPT !.pc = "find", !.ret = "noti"]
<1>1. /\ UNCHANGED <<group, order, food, client, socket>>
      /\ req[h].pc \in {"cancel", "cancelBill"}
      /\ bill' = [bill EXCEPT ![req[h].g] = NoBill]
      /\ req' = [req EXCEPT ![h] = IF req[h].pc = "cancel" THEN q
                                   ELSE IF failed THEN Idle ELSE r]
  BY DEF CancelDeleteBill
<1>2. req[h] \in Request /\ req[h].g \in Groups
  BY <1>1, SessionFit DEF TypeInv, TypeOK, SessionLabels, OrderLabels
<1>3. \A k \in Groups \ {req[h].g} : bill'[k] = bill[k]
  BY <1>1, <1>2 DEF TypeInv, TypeOK
<1>4. /\ q.pc = "cancelOrder" /\ q.g = req[h].g
      /\ r.pc = "find" /\ r.g = req[h].g /\ r.ret = "noti"
  BY <1>2 DEF Request
<1>5. Others(h) /\ req'[h] = IF req[h].pc = "cancel" THEN q
                             ELSE IF failed THEN Idle ELSE r
  BY <1>1, BecomeMove
<1> HIDE DEF q, r, failed
<1> QED
  BY <1>1, <1>2, <1>3, <1>4, <1>5 DEF At

\* and the one that opens the order again.
LEMMA CancelReopenOrderMove ==
  ASSUME TypeInv, NEW h \in Handlers, CancelReopenOrder(h)
  PROVE  /\ Others(h) /\ UNCHANGED <<group, bill, food, client, socket>>
         /\ req[h].g \in Groups
         /\ \A k \in Groups \ {req[h].g} : order'[k] = order[k]
         /\ order'[req[h].g].status = "NOT_CHECKOUT"
         /\ order'[req[h].g].table = order[req[h].g].table
         /\ order'[req[h].g].overall = order[req[h].g].overall
         /\ req[h].pc \in {"cancel", "cancelOrder"}
         /\ \/ req'[h] = Idle
            \/ At(h, "cancel") /\ req'[h].pc = "cancelBill"
               /\ req'[h].g = req[h].g
            \/ At(h, "cancelOrder") /\ req'[h].pc = "find"
               /\ req'[h].g = req[h].g /\ req'[h].ret = "noti"
<1> DEFINE place == IF req[h].pc = "cancel" THEN "cancelBill" ELSE "find"
           r == [req[h] EXCEPT !.pc = place, !.ret = "noti",
                               !.t = order[req[h].g].table]
<1>1. /\ UNCHANGED <<group, bill, food, client, socket>>
      /\ req[h].pc \in {"cancel", "cancelOrder"}
      /\ order' = [order EXCEPT ![req[h].g].status = "NOT_CHECKOUT"]
      /\ req' = [req EXCEPT ![h] = IF req[h].failed THEN Idle ELSE r]
  BY DEF CancelReopenOrder
<1>2. req[h] \in Request /\ req[h].g \in Groups
  BY <1>1, SessionFit DEF TypeInv, TypeOK, SessionLabels, OrderLabels
<1>3. /\ \A k \in Groups \ {req[h].g} : order'[k] = order[k]
      /\ order'[req[h].g].status = "NOT_CHECKOUT"
      /\ order'[req[h].g].table = order[req[h].g].table
      /\ order'[req[h].g].overall = order[req[h].g].overall
  BY <1>1, <1>2 DEF TypeInv, TypeOK, OrderRow
<1>4. r.pc = place /\ r.g = req[h].g /\ r.ret = "noti"
  <2> HIDE DEF place
  <2> QED
    BY <1>2 DEF Request
<1>5. Others(h) /\ req'[h] = IF req[h].failed THEN Idle ELSE r
  BY <1>1, BecomeMove
<1> HIDE DEF r
<1> QED
  BY <1>1, <1>2, <1>3, <1>4, <1>5 DEF At

----------------------------------------------------------------------------
\* Clearing a table, and removing a guest.

\* A session with the status that clearTable writes.
Cleared(row, status) ==
  [row EXCEPT !.status = status,
              !.reopened = @ \/ (status = "IN_PROGRESS" /\
                                 row.status # "IN_PROGRESS")]

\* The WebSocket clearTable writes the status of a session, any status.
LEMMA WsClearTableMove ==
  ASSUME TypeInv, NEW h \in Handlers, WsClearTable(h)
  PROVE  /\ Others(h) /\ UNCHANGED <<order, bill, food, client, socket>>
         /\ "clear" \in Kinds /\ At(h, "idle") /\ req'[h] = Idle
         /\ \E g \in Existing, x \in ClearStatuses :
              group' = [group EXCEPT ![g] = Cleared(group[g], x)]
<1>1. PICK g \in Existing, x \in ClearStatuses :
        /\ Accept(h, "clear", Idle)
        /\ group' = [group EXCEPT
                       ![g].status = x,
                       ![g].reopened = @ \/ (x = "IN_PROGRESS" /\
                                             group[g].status # "IN_PROGRESS")]
  BY DEF WsClearTable
<1> DEFINE again == x = "IN_PROGRESS" /\ group[g].status # "IN_PROGRESS"
<1>2. group \in [Groups -> GroupRow] /\ g \in Groups
  BY DEF TypeInv, TypeOK, Existing
<1>3. group' = [group EXCEPT ![g].status = x, ![g].reopened = @ \/ again]
  BY <1>1
<1> HIDE DEF again
<1>4. group' = [group EXCEPT ![g] = [group[g] EXCEPT
                                       !.status = x,
                                       !.reopened = group[g].reopened \/ again]]
  BY <1>2, <1>3 DEF GroupRow
<1>5. group' = [group EXCEPT ![g] = Cleared(group[g], x)]
  BY <1>4 DEF Cleared, again
<1> QED
  BY <1>1, <1>5, AcceptMove DEF WsClearTable

\* The REST clearTable arrives for an open session,
LEMMA ClearTableMove ==
  ASSUME TypeInv, NEW h \in Handlers, ClearTable(h)
  PROVE  /\ Others(h) /\ UNCHANGED <<rows, socket>>
         /\ "reject" \in Kinds /\ At(h, "idle")
         /\ req'[h].pc = "rejectOrder" /\ req'[h].g \in Existing
<1>0. PICK t \in Tables :
        \E g \in InProgress(t) :
          Accept(h, "reject", [Idle EXCEPT !.pc = "rejectOrder", !.g = g])
  BY DEF ClearTable
<1>1. PICK g \in InProgress(t) :
        Accept(h, "reject", [Idle EXCEPT !.pc = "rejectOrder", !.g = g])
  BY <1>0
<1> DEFINE r == [Idle EXCEPT !.pc = "rejectOrder", !.g = g]
<1>2. r.pc = "rejectOrder" /\ r.g = g
  BY DEF Idle
<1>3. Others(h) /\ At(h, "idle") /\ req'[h] = r /\ "reject" \in Kinds
  BY <1>1, AcceptMove
<1>4. g \in Existing
  BY DEF InProgress, Existing
<1>5. UNCHANGED <<rows, socket>>
  BY DEF ClearTable
<1> HIDE DEF r
<1> QED
  BY <1>2, <1>3, <1>4, <1>5

\* reads its order and food,
LEMMA RejectReads ==
  ASSUME TypeInv, NEW h \in Handlers, RejectReadOrder(h) \/ RejectReadFoods(h)
  PROVE  /\ Others(h) /\ UNCHANGED <<rows, socket>>
         /\ req[h].pc \in {"rejectOrder", "rejectFoods"}
         /\ req'[h].pc \in RejectLabels /\ req'[h].g = req[h].g
         /\ \/ /\ At(h, "rejectOrder")
               /\ req'[h].pc \in {"rejectFoods", "rejectGroup"}
            \/ /\ At(h, "rejectFoods")
               /\ req'[h].pc \in {"rejectFood", "rejectGroup"}
<1>1. CASE RejectReadOrder(h)
  <2> DEFINE found == order[req[h].g].status # "none"
             place == IF found THEN "rejectFoods" ELSE "rejectGroup"
             r == [req[h] EXCEPT !.pc = place, !.flag = found]
  <2>1. /\ UNCHANGED <<rows, socket>> /\ At(h, "rejectOrder")
        /\ req' = [req EXCEPT ![h] = r]
    BY <1>1 DEF RejectReadOrder
  <2>2. r.pc = place /\ r.g = req[h].g
    <3> HIDE DEF found, place
    <3> QED
      BY DEF TypeInv, TypeOK, Request
  <2>3. Others(h) /\ req'[h] = r
    BY <2>1, BecomeMove
  <2> HIDE DEF r
  <2> QED
    BY <2>1, <2>2, <2>3 DEF At, RejectLabels
<1>2. CASE RejectReadFoods(h)
  <2> DEFINE found == FoodsOfOrder(req[h].g)
             place == IF found = {} THEN "rejectGroup" ELSE "rejectFood"
             r == [req[h] EXCEPT !.pc = place, !.foods = found]
  <2>1. /\ UNCHANGED <<rows, socket>> /\ At(h, "rejectFoods")
        /\ req' = [req EXCEPT ![h] = r]
    BY <1>2 DEF RejectReadFoods
  <2>2. r.pc = place /\ r.g = req[h].g
    <3> HIDE DEF found, place
    <3> QED
      BY DEF TypeInv, TypeOK, Request
  <2>3. Others(h) /\ req'[h] = r
    BY <2>1, BecomeMove
  <2> HIDE DEF r
  <2> QED
    BY <2>1, <2>2, <2>3 DEF At, RejectLabels
<1> QED
  BY <1>1, <1>2

\* cancels the food, one row at a time,
LEMMA RejectFoodMove ==
  ASSUME TypeInv, NEW h \in Handlers, RejectFood(h)
  PROVE  /\ Others(h) /\ UNCHANGED <<group, order, bill, client, socket>>
         /\ At(h, "rejectFood")
         /\ \/ req'[h] = Idle
            \/ /\ req'[h].pc \in {"rejectFood", "rejectGroup"}
               /\ req'[h].g = req[h].g /\ ListShrinks(h)
         /\ \/ UNCHANGED food
            \/ \E f \in Foods :
                 /\ HasFood(f) /\ \A e \in Foods \ {f} : food'[e] = food[e]
                 /\ food'[f].status = "CANCEL" /\ food'[f].order = food[f].order
                 /\ food'[f].item = food[f].item
<1> USE DEF TypeInv, TypeOK
<1>1. PICK f \in req[h].foods :
        LET rest   == req[h].foods \ {f}
            failed == req[h].failed \/ ~HasFood(f)
        IN /\ food' = IF HasFood(f) THEN [food EXCEPT ![f].status = "CANCEL"]
                                    ELSE food
           /\ req' = [req EXCEPT ![h] =
                        IF rest # {} THEN [req[h] EXCEPT !.foods = rest,
                                                         !.failed = failed]
                        ELSE IF failed THEN Idle
                        ELSE [req[h] EXCEPT !.pc = "rejectGroup", !.foods = {}]]
  BY DEF RejectFood
<1>2. At(h, "rejectFood") /\ UNCHANGED <<group, order, bill, client, socket>>
  BY DEF RejectFood
<1>3. f \in Foods /\ req[h] \in Request
  BY DEF Request
<1> DEFINE rest == req[h].foods \ {f}
           failed == req[h].failed \/ ~HasFood(f)
           more == [req[h] EXCEPT !.foods = rest, !.failed = failed]
           last == [req[h] EXCEPT !.pc = "rejectGroup", !.foods = {}]
<1>4. /\ more.pc = req[h].pc /\ more.g = req[h].g
      /\ last.pc = "rejectGroup" /\ last.g = req[h].g
      /\ more.foods = rest /\ last.foods = {}
  <2> HIDE DEF rest, failed
  <2> QED
    BY <1>3 DEF Request
<1>5. req' = [req EXCEPT ![h] = IF rest # {} THEN more
                                ELSE IF failed THEN Idle ELSE last]
  BY <1>1
<1>6. \/ UNCHANGED food
      \/ /\ HasFood(f) /\ \A e \in Foods \ {f} : food'[e] = food[e]
         /\ food'[f].status = "CANCEL" /\ food'[f].order = food[f].order
         /\ food'[f].item = food[f].item
  BY <1>1, <1>3 DEF FoodRow
<1> HIDE DEF more, last, failed
<1>7. Others(h) /\ req'[h] = IF rest # {} THEN more
                             ELSE IF failed THEN Idle ELSE last
  BY <1>5, BecomeMove
<1>8. \/ req'[h] = Idle
      \/ /\ req'[h].pc \in {"rejectFood", "rejectGroup"} /\ req'[h].g = req[h].g
         /\ ListShrinks(h)
  BY <1>2, <1>4, <1>7 DEF At, ListShrinks
<1> QED
  BY <1>2, <1>3, <1>6, <1>7, <1>8

\* and rejects the session, with the order if one was read.
LEMMA RejectSessionMove ==
  ASSUME TypeInv, NEW h \in Handlers, RejectSession(h)
  PROVE  /\ Others(h) /\ UNCHANGED <<bill, food, client, socket>>
         /\ At(h, "rejectGroup") /\ req'[h] = Idle /\ req[h].g \in Groups
         /\ group' = [group EXCEPT ![req[h].g].status = "REJECT"]
         /\ \A k \in Groups \ {req[h].g} : order'[k] = order[k]
         /\ order'[req[h].g].status \in {order[req[h].g].status, "CANCEL"}
         /\ order'[req[h].g].overall = order[req[h].g].overall
<1>1. /\ At(h, "rejectGroup") /\ Answer(h)
      /\ UNCHANGED <<bill, food, client, socket>>
      /\ group' = [group EXCEPT ![req[h].g].status = "REJECT"]
      /\ order' = IF req[h].flag THEN [order EXCEPT ![req[h].g].status = "CANCEL"]
                                 ELSE order
  BY DEF RejectSession
<1>2. req[h].g \in Groups
  BY <1>1, SessionFit DEF At, TypeInv, SessionLabels, RejectLabels
<1>3. /\ \A k \in Groups \ {req[h].g} : order'[k] = order[k]
      /\ order'[req[h].g].status \in {order[req[h].g].status, "CANCEL"}
      /\ order'[req[h].g].overall = order[req[h].g].overall
  BY <1>1, <1>2 DEF TypeInv, TypeOK, OrderRow
<1> QED
  BY <1>1, <1>2, <1>3, AnswerMove

\* A guest is removed by a task that the waiter's message starts and does not
\* wait for.
LEMMA ExpelArrives ==
  ASSUME TypeInv, NEW h \in Handlers, AdminDeleteClientList(h)
  PROVE  \E task \in Handlers \ {h} :
           /\ \A k \in Handlers \ {h, task} : req'[k] = req[k]
           /\ UNCHANGED <<rows, socket>> /\ At(h, "idle") /\ At(task, "idle")
           /\ req'[h].pc = "adminRead" /\ req'[h].g \in Groups
           /\ req'[task].pc = "expelRead"
<1>1. PICK g \in {k \in Groups : order[k].status # "none"}, d \in AdminDtos,
           c \in {k \in Clients : HasClient(k)}, task \in Handlers \ {h} :
        /\ At(h, "idle") /\ At(task, "idle")
        /\ req' = [req EXCEPT
                     ![h] = [Idle EXCEPT !.pc = "adminRead", !.g = g, !.dto = d],
                     ![task] = [Idle EXCEPT !.pc = "expelRead", !.c = c]]
  BY DEF AdminDeleteClientList
<1> DEFINE r == [Idle EXCEPT !.pc = "adminRead", !.g = g, !.dto = d]
           q == [Idle EXCEPT !.pc = "expelRead", !.c = c]
<1>2. r.pc = "adminRead" /\ r.g = g /\ q.pc = "expelRead"
  BY DEF Idle
<1> HIDE DEF r, q
<1>3. /\ \A k \in Handlers \ {h, task} : req'[k] = req[k]
      /\ req'[h] = r /\ req'[task] = q
  BY <1>1 DEF TypeInv, TypeOK, r, q
<1> QED
  BY <1>1, <1>2, <1>3 DEF AdminDeleteClientList

\* The REST operation waits for the removal.
LEMMA DeleteClientIdMove ==
  ASSUME TypeInv, NEW h \in Handlers, DeleteClientIdInFoodOrder(h)
  PROVE  /\ Others(h) /\ UNCHANGED <<rows, socket>> /\ At(h, "idle")
         /\ "expel" \in Kinds
         /\ req'[h].pc = "expelRead" /\ HasClient(req'[h].c)
         /\ req'[h].c \in Clients /\ ~req'[h].failed
<1>1. PICK c \in {k \in Clients : HasClient(k)} :
        Accept(h, "expel", [Idle EXCEPT !.pc = "expelRead", !.c = c])
  BY DEF DeleteClientIdInFoodOrder
<1> DEFINE r == [Idle EXCEPT !.pc = "expelRead", !.c = c]
<1>2. r.pc = "expelRead" /\ r.c = c /\ ~r.failed
  BY DEF Idle
<1>3. Others(h) /\ At(h, "idle") /\ req'[h] = r /\ "expel" \in Kinds
  BY <1>1, AcceptMove
<1> HIDE DEF r
<1> QED
  BY <1>1, <1>2, <1>3 DEF DeleteClientIdInFoodOrder

\* The task touches no order and no bill.
LEMMA ExpelMove ==
  ASSUME TypeInv, NEW h \in Handlers,
         \/ ExpelReadClient(h) \/ ExpelWriteCart(h) \/ ExpelReadFoods(h)
         \/ ExpelDeleteFood(h) \/ ExpelDeleteClient(h)
  PROVE  /\ Others(h) /\ UNCHANGED <<order, bill, socket>>
         /\ req[h].pc \in ExpelLabels
         /\ req'[h].pc \in ExpelLabels \cup {"idle"}
         /\ \/ req'[h] = Idle
            \/ At(h, "expelRead") /\ req'[h].pc \in {"expelCart", "expelFoods"}
            \/ At(h, "expelCart") /\ req'[h].pc = "expelFoods"
            \/ At(h, "expelFoods") /\ req'[h].pc = "expelFood"
            \/ At(h, "expelFood") /\ req'[h].pc = "expelFood" /\ ListShrinks(h)
         /\ \A g \in Groups : /\ group'[g].status = group[g].status
                              /\ group'[g].table = group[g].table
<1>1. req[h] \in Request
  BY DEF TypeInv, TypeOK
<1>2. CASE ExpelReadClient(h)
  <2> DEFINE g == client[req[h].c].group
             kept == Without(group[g].cart, req[h].c)
             place == IF kept # <<>> THEN "expelCart" ELSE "expelFoods"
             r == [req[h] EXCEPT !.pc = place, !.g = g, !.cart = kept]
  <2>1. /\ At(h, "expelRead") /\ UNCHANGED <<rows, socket>>
        /\ Answer(h) \/ req' = [req EXCEPT ![h] = r]
    BY <1>2 DEF ExpelReadClient
  <2>2. r.pc = place
    <3> HIDE DEF kept, place
    <3> QED
      BY <1>1 DEF Request
  <2> HIDE DEF r
  <2>3. /\ Others(h) /\ req'[h].pc \in {place, "idle"}
        /\ req'[h] = Idle \/ req'[h].pc = place
    BY <2>1, <2>2, BecomeMove, AnswerMove
  <2> QED
    BY <2>1, <2>3 DEF At, ExpelLabels, rows
<1>3. CASE ExpelWriteCart(h)
  <2> DEFINE r == [req[h] EXCEPT !.pc = "expelFoods", !.cart = <<>>]
  <2>1. /\ At(h, "expelCart") /\ UNCHANGED <<order, bill, socket>>
        /\ req' = [req EXCEPT ![h] = r]
        /\ group' = [group EXCEPT ![req[h].g].cart = req[h].cart]
    BY <1>3 DEF ExpelWriteCart
  <2>2. r.pc = "expelFoods"
    BY <1>1 DEF Request
  <2>3. \A g \in Groups : /\ group'[g].status = group[g].status
                          /\ group'[g].table = group[g].table
    BY <2>1 DEF TypeInv, TypeOK, GroupRow
  <2> HIDE DEF r
  <2> QED
    BY <2>1, <2>2, <2>3, BecomeMove DEF At, ExpelLabels
<1>4. CASE ExpelReadFoods(h)
  <2> DEFINE found == FoodsOfClient(req[h].c)
             r == [req[h] EXCEPT !.pc = "expelFood", !.foods = found]
  <2>1. /\ At(h, "expelFoods") /\ UNCHANGED <<rows, socket>>
        /\ req' = [req EXCEPT ![h] = r]
    BY <1>4 DEF ExpelReadFoods
  <2>2. r.pc = "expelFood"
    <3> HIDE DEF found
    <3> QED
      BY <1>1 DEF Request
  <2> HIDE DEF r
  <2> QED
    BY <2>1, <2>2, BecomeMove DEF At, ExpelLabels, rows
<1>5. CASE ExpelDeleteFood(h)
  <2>1. PICK f \in req[h].foods :
          req' = [req EXCEPT ![h] =
                    [req[h] EXCEPT !.foods = req[h].foods \ {f},
                                   !.failed = req[h].failed \/ ~HasFood(f)]]
    BY <1>5 DEF ExpelDeleteFood
  <2> DEFINE rest == req[h].foods \ {f}
             failed == req[h].failed \/ ~HasFood(f)
             r == [req[h] EXCEPT !.foods = rest, !.failed = failed]
  <2>2. r.pc = req[h].pc /\ r.foods = rest
    <3> HIDE DEF rest, failed
    <3> QED
      BY <1>1 DEF Request
  <2>3. req' = [req EXCEPT ![h] = r]
    BY <2>1
  <2>4. rest \subseteq req[h].foods /\ rest # req[h].foods
    OBVIOUS
  <2> HIDE DEF r, rest
  <2> QED
    BY <1>5, <2>2, <2>3, <2>4, BecomeMove
       DEF ExpelDeleteFood, At, ExpelLabels, ListShrinks
<1>6. CASE ExpelDeleteClient(h)
  BY <1>6, AnswerMove DEF ExpelDeleteClient, At, ExpelLabels
<1> QED
  BY <1>2, <1>3, <1>4, <1>5, <1>6
=============================================================================
