---------------------------- MODULE GuestGateway ----------------------------
(***************************************************************************)
(* src/client/client.gateway.ts: how guests join and leave a table and what *)
(* happens when their connection goes away.                                 *)
(***************************************************************************)
EXTENDS ClientService

\* The socket of a handler once the handler has set its data and joined a room.
Seated(h, c) ==
  [socket EXCEPT ![req[h].s].user = c, ![req[h].s].room = req[h].t]

\* joinTable: a guest gives the table's token, a name and, when the device
\* remembers one, the id it was given before.  A connection is at one table.
JoinTable(h) ==
  /\ \E s \in Sockets, t \in ActiveTables, n \in Names,
        c \in {None} \cup {k \in Clients : client[k].status # "none"} :
       /\ socket[s].live
       /\ socket[s].room \in {None, t}
       /\ \A k \in Handlers : req[k].s = s => req[k].t = t
       /\ Accept(h, "join", [Idle EXCEPT !.pc = "find", !.ret = "checkName",
                                         !.s = s, !.t = t, !.name = n, !.c = c])
  /\ UNCHANGED <<rows, socket>>

UsernameTaken(n, g) ==
  \E c \in Clients : HasClient(c) /\ client[c].name = n /\ client[c].group = g

CheckUsername(h) ==
  LET r == req[h]
  IN /\ At(h, "checkName")
     /\ \/ /\ r.g = None \/ (UsernameTaken(r.name, r.g) /\ r.c = None)
           /\ Answer(h)
        \/ /\ r.g # None
           /\ ~UsernameTaken(r.name, r.g) \/ r.c # None
           /\ Goto(h, IF r.c = None THEN "createClient" ELSE "findClient")
     /\ UNCHANGED <<rows, socket, budget>>

\* findClientOrCreate keeps a known guest unless the row is gone or its session
\* is completed.
FindClient(h) ==
  LET c == req[h].c
      stale == \/ ~HasClient(c)
               \/ group[client[c].group].status = "COMPLETED"
  IN /\ At(h, "findClient")
     /\ Goto(h, IF stale THEN "createClient" ELSE "reconnect")
     /\ UNCHANGED <<rows, socket, budget>>

\* The table is told of the session as it was before the guest was created.
CreateClient_ToldBefore(h) ==
  /\ At(h, "createClient")
  /\ \E c \in Pick({k \in Clients : client[k].status = "none"}) :
       /\ client' = [client EXCEPT ![c] = [status |-> "ONLINE",
                                           name |-> req[h].name,
                                           group |-> req[h].g]]
       /\ socket' = Seated(h, c)
  /\ Goto(h, "noti")
  /\ UNCHANGED <<group, order, bill, food, budget>>

CreateClient(h) ==
  /\ At(h, "createClient")
  /\ \E c \in Pick({k \in Clients : client[k].status = "none"}) :
       /\ client' = [client EXCEPT ![c] = [status |-> "ONLINE",
                                           name |-> req[h].name,
                                           group |-> req[h].g]]
       /\ socket' = Seated(h, c)
  /\ Call(h, req[h].t, "noti")
  /\ UNCHANGED <<group, order, bill, food, budget>>

Reconnect(h) ==
  LET c == req[h].c
  IN /\ At(h, "reconnect")
     /\ \/ /\ HasClient(c)
           /\ client' = [client EXCEPT ![c].status = "ONLINE",
                                       ![c].group = req[h].g]
           /\ socket' = Seated(h, c)
           /\ Call(h, req[h].t, "noti")
        \/ /\ ~HasClient(c)
           /\ Answer(h)
           /\ UNCHANGED <<client, socket>>
     /\ UNCHANGED <<group, order, bill, food, budget>>

----------------------------------------------------------------------------
\* leaveTable: a guest without ordered food is deleted.
LeaveTable(h) ==
  /\ \E s \in Sockets :
       /\ socket[s].live
       /\ socket[s].room # None
       /\ Accept(h, "leave", [Idle EXCEPT !.pc = "find", !.ret = "leaveFoods",
                                          !.s = s, !.t = socket[s].room])
  /\ UNCHANGED <<rows, socket>>

\* Also when no session was found: that fails only at the broadcast.
LeaveReadFoods(h) ==
  LET c == socket[req[h].s].user
  IN /\ At(h, "leaveFoods")
     /\ \/ /\ FoodsOfClient(c) # {}
           /\ Answer(h)
        \/ /\ FoodsOfClient(c) = {}
           /\ req' = [req EXCEPT ![h] = [@ EXCEPT !.pc = "deleteClient",
                                                  !.c = c]]
     /\ UNCHANGED <<rows, socket, budget>>

DeleteClientRow(c) ==
  client' = [client EXCEPT ![c] = [NoClient EXCEPT !.status = "deleted"]]

\* client.leave follows the deletion; the data of the connection stays.
LeaveDeleteClient(h) ==
  LET r == req[h]
  IN /\ At(h, "deleteClient")
     /\ \/ /\ HasClient(r.c)
           /\ DeleteClientRow(r.c)
           /\ socket' = [socket EXCEPT ![r.s].room = None]
           /\ Goto(h, "noti")
        \/ /\ ~HasClient(r.c)
           /\ Answer(h)
           /\ UNCHANGED <<client, socket>>
     /\ UNCHANGED <<group, order, bill, food, budget>>

----------------------------------------------------------------------------
\* The 'disconnecting' callback: the guest goes offline, the table is told.
Disconnect(h) ==
  /\ \E s \in Sockets :
       /\ socket[s].live
       /\ socket[s].user # None
       /\ Accept(h, "disconnect",
            [Idle EXCEPT !.pc = "offline", !.ret = "noti",
                         !.t = socket[s].room, !.c = socket[s].user])
       /\ socket' = [socket EXCEPT ![s] = [@ EXCEPT !.live = FALSE,
                                                    !.room = None]]
  /\ UNCHANGED rows

\* A guest whose row is gone makes the update throw, and the rest is skipped.
GoOffline(h) ==
  LET c == req[h].c
  IN /\ At(h, "offline")
     /\ \/ /\ HasClient(c)
           /\ client' = [client EXCEPT ![c].status = "OFFLINE"]
           /\ IF req[h].t # None THEN Goto(h, "find") ELSE Answer(h)
        \/ /\ ~HasClient(c)
           /\ Answer(h)
           /\ UNCHANGED client
     /\ UNCHANGED <<group, order, bill, food, socket, budget>>
=============================================================================
