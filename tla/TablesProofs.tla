---------------------------- MODULE TablesProofs ----------------------------
(***************************************************************************)
(* For every restaurant, any number of guests and of requests at a time:   *)
(* no row of Tables is left behind by a deletion.  Deletions and creations *)
(* of one row race, so the argument is about single steps: each step that  *)
(* creates a reference finds its target alive, each that deletes a row     *)
(* finds no reference to it.  All it needs of a request in progress is     *)
(* that the ids it holds are ids.  Then the names and the codes: no two    *)
(* tables share one, and the code of a deleted table opens no other.       *)
(***************************************************************************)
EXTENDS Tables, TLAPS

\* What a request holds where it is.
LocalsOK ==
  \A h \in Handlers :
    /\ At(h, "lookup") \/ At(h, "insert") => req[h].names # <<>>
    /\ At(h, "createGroup") => req[h].t \in TableIds
    /\ At(h, "createGuest") \/ At(h, "insertOrder") => req[h].g \in Groups
    /\ At(h, "find") \/ At(h, "createGroup") \/ At(h, "createGuest")
         \/ At(h, "insertOrder") =>
         req[h].u \in Guests /\ req[h].k \in Tokens
    /\ req[h].pend # {} => At(h, "purge") \/ At(h, "over")

Inv == TypeOK /\ LocalsOK /\ ReferencesResolve

\* The initial state has no rows.
LEMMA InitInv == Init => Inv
<1> SUFFICES ASSUME Init PROVE Inv
  OBVIOUS
<1>1. Idle \in Request
  BY DEF Idle, Request, Purges
<1>2. TypeOK
  BY <1>1, BodiesAssumption
     DEF Init, TypeOK, NoTable, TableRow, NoGroup, GroupRow, NoOrder, OrderRow,
         NoGuest, GuestRow
<1>3. LocalsOK
  BY DEF Init, LocalsOK, At, Idle
<1>4. ReferencesResolve
  BY DEF Init, ReferencesResolve, NoGroup, NoOrder, NoGuest
<1> QED
  BY <1>2, <1>3, <1>4 DEF Inv

\* A chosen id is one of those offered.
LEMMA PickIn == ASSUME NEW S, NEW x \in Pick(S) PROVE x \in S
BY DEF Pick

----------------------------------------------------------------------------
\* Requests.

\* A request that is sound by itself.
Sound(r) ==
  /\ r \in Request
  /\ r.pc \in {"lookup", "insert"} => r.names # <<>>
  /\ r.pc = "createGroup" => r.t \in TableIds
  /\ r.pc \in {"createGuest", "insertOrder"} => r.g \in Groups
  /\ r.pc \in {"find", "createGroup", "createGuest", "insertOrder"} =>
       r.u \in Guests /\ r.k \in Tokens
  /\ r.pend # {} => r.pc \in {"purge", "over"}

\* The invariant says that every request is.
LEMMA AllSound ==
  (req \in [Handlers -> Request] /\ LocalsOK)
    <=> (req \in [Handlers -> Request] /\ \A h \in Handlers : Sound(req[h]))
BY DEF LocalsOK, Sound, At

\* Replacing one request by a sound one keeps all of them sound.
LEMMA SoundStep ==
  ASSUME req \in [Handlers -> Request], LocalsOK, NEW h \in Handlers, NEW r,
         Sound(r), req' = [req EXCEPT ![h] = r]
  PROVE  req' \in [Handlers -> Request] /\ LocalsOK'
<1>1. req' \in [Handlers -> Request]
  BY DEF Sound
<1>2. \A i \in Handlers : Sound(req'[i])
  BY AllSound
<1> QED
  BY <1>1, <1>2 DEF LocalsOK, Sound, At

\* An answered request is sound.
LEMMA IdleSound == Sound(Idle)
BY DEF Sound, Idle, Request, Purges

\* createTable goes on to the next name or ends.
LEMMA NextNameSound ==
  ASSUME req \in [Handlers -> Request], LocalsOK, NEW h \in Handlers,
         At(h, "lookup") \/ At(h, "insert"), NextName(h)
  PROVE  req' \in [Handlers -> Request] /\ LocalsOK'
<1> DEFINE rest == Tail(req[h].names)
           r    == [req[h] EXCEPT !.pc = "lookup", !.names = rest]
<1>1. CASE rest = <<>>
  <2>1. req' = [req EXCEPT ![h] = Idle]
    BY <1>1 DEF NextName
  <2> QED
    BY <2>1, IdleSound, SoundStep
<1>2. CASE rest # <<>>
  <2>1. rest \in Seq(TableNames)
    BY DEF LocalsOK, Request
  <2>2. Sound(r)
    BY <1>2, <2>1 DEF Sound, Request, LocalsOK, At
  <2>3. req' = [req EXCEPT ![h] = r]
    BY <1>2 DEF NextName
  <2> QED
    BY <2>2, <2>3, SoundStep
<1> QED
  BY <1>1, <1>2

\* deleteTable takes the answer of one of its deletions.
LEMMA PurgedSound ==
  ASSUME req \in [Handlers -> Request], LocalsOK, NEW h \in Handlers,
         NEW what \in Purges, what \in req[h].pend, NEW refused \in BOOLEAN,
         Purged(h, what, refused)
  PROVE  req' \in [Handlers -> Request] /\ LocalsOK'
<1> DEFINE r == [req[h] EXCEPT !.pend = req[h].pend \ {what},
                               !.failed = req[h].failed \/ refused]
<1>1. Sound(r)
  BY ZenonT(30) DEF Sound, Request, LocalsOK, At
<1>2. req' = [req EXCEPT ![h] = Idle] \/ req' = [req EXCEPT ![h] = r]
  BY DEF Purged
<1> QED
  BY <1>1, <1>2, IdleSound, SoundStep

\* Every step keeps the requests sound, whatever it does to the rows.
LEMMA RequestStep ==
  ASSUME TypeOK, LocalsOK, Next
  PROVE  req' \in [Handlers -> Request] /\ LocalsOK'
<1>0. /\ req \in [Handlers -> Request]
      /\ \A h \in Handlers : req[h] \in Request
      /\ guest \in [Guests -> GuestRow]
  BY DEF TypeOK
<1>1. ASSUME NEW h \in Handlers, InsertTables(h)
      PROVE  req' \in [Handlers -> Request] /\ LocalsOK'
  <2>1. PICK names \in NameLists :
          req' = [req EXCEPT ![h] =
                    [Idle EXCEPT !.pc = "lookup", !.names = names]]
    BY <1>1 DEF InsertTables, Accept
  <2>2. Sound([Idle EXCEPT !.pc = "lookup", !.names = names])
    BY BodiesAssumption DEF Sound, Idle, Request, Purges
  <2> QED
    BY <2>1, <2>2, <1>0, SoundStep
<1>2. ASSUME NEW h \in Handlers, DeleteTable(h)
      PROVE  req' \in [Handlers -> Request] /\ LocalsOK'
  <2>1. PICK t \in TableIds, own \in BOOLEAN :
          req' = [req EXCEPT ![h] = [Idle EXCEPT !.pc = "purge", !.t = t,
                                                 !.pend = Purges, !.own = own]]
    BY <1>2 DEF DeleteTable, Accept
  <2> DEFINE r == [Idle EXCEPT !.pc = "purge", !.t = t, !.pend = Purges,
                               !.own = own]
  <2>2. Sound(r)
    <3>1. r \in Request /\ r.pc = "purge"
      BY IdleSound DEF Sound, Request
    <3> QED
      BY <3>1 DEF Sound
  <2> QED
    BY <2>1, <2>2, <1>0, SoundStep
<1>3. ASSUME NEW h \in Handlers, JoinTable(h)
      PROVE  req' \in [Handlers -> Request] /\ LocalsOK'
  <2>1. PICK u \in Guests, k \in Tokens :
          req' = [req EXCEPT ![h] = [Idle EXCEPT !.pc = "find", !.u = u,
                                                 !.k = k]]
    BY <1>3 DEF JoinTable, Accept
  <2>2. Sound([Idle EXCEPT !.pc = "find", !.u = u, !.k = k])
    <3> DEFINE r == [Idle EXCEPT !.pc = "find", !.u = u, !.k = k]
    <3>0. Idle \in Request /\ Idle.pend = {}
      BY IdleSound DEF Sound, Idle
    <3>1. /\ r \in Request /\ r.pc = "find" /\ r.pend = {}
          /\ r.u = u /\ r.k = k
      BY <3>0 DEF Request
    <3> QED
      BY <3>1 DEF Sound
  <2> QED
    BY <2>1, <2>2, <1>0, SoundStep
<1>4. ASSUME NEW h \in Handlers, CreateOrder(h)
      PROVE  req' \in [Handlers -> Request] /\ LocalsOK'
  <2>1. PICK u \in Guests, k \in Tokens :
          /\ guest[u].group # None
          /\ req' = [req EXCEPT ![h] =
                       [Idle EXCEPT !.pc = "insertOrder", !.u = u,
                                    !.g = guest[u].group, !.k = k]]
    BY <1>4 DEF CreateOrder, Accept
  <2>2. guest[u].group \in Groups
    BY <1>0, <2>1 DEF GuestRow
  <2>3. Sound([Idle EXCEPT !.pc = "insertOrder", !.u = u,
                           !.g = guest[u].group, !.k = k])
    <3> DEFINE r == [Idle EXCEPT !.pc = "insertOrder", !.u = u,
                                 !.g = guest[u].group, !.k = k]
    <3>0. Idle \in Request /\ Idle.pend = {}
      BY IdleSound DEF Sound, Idle
    <3>1. /\ r \in Request /\ r.pc = "insertOrder" /\ r.pend = {}
          /\ r.u = u /\ r.k = k /\ r.g = guest[u].group
      BY <2>2, <3>0 DEF Request
    <3> QED
      BY <2>2, <3>1 DEF Sound
  <2> QED
    BY <2>1, <2>3, <1>0, SoundStep
<1>5. ASSUME NEW h \in Handlers, LookupName(h)
      PROVE  req' \in [Handlers -> Request] /\ LocalsOK'
  <2>1. CASE NextName(h)
    BY <1>5, <2>1, NextNameSound, <1>0 DEF LookupName
  <2>2. CASE Goto(h, "insert")
    <3>1. Sound([req[h] EXCEPT !.pc = "insert"])
      BY <1>0, <1>5 DEF Sound, Request, LocalsOK, LookupName, At
    <3>2. req' = [req EXCEPT ![h] = [req[h] EXCEPT !.pc = "insert"]]
      BY <2>2 DEF Goto
    <3> QED
      BY <3>1, <3>2, <1>0, SoundStep
  <2> QED
    BY <1>5, <2>1, <2>2 DEF LookupName
<1>6. ASSUME NEW h \in Handlers, InsertTable(h)
      PROVE  req' \in [Handlers -> Request] /\ LocalsOK'
  <2>1. CASE NextName(h)
    BY <1>6, <2>1, NextNameSound, <1>0 DEF InsertTable
  <2>2. CASE Answer(h)
    BY <2>2, IdleSound, <1>0, SoundStep DEF Answer
  <2> QED
    BY <1>6, <2>1, <2>2 DEF InsertTable
<1>7. ASSUME NEW h \in Handlers, PurgeGroups(h)
      PROVE  req' \in [Handlers -> Request] /\ LocalsOK'
  BY <1>7, PurgedSound, <1>0 DEF PurgeGroups, Purges, Request
<1>8. ASSUME NEW h \in Handlers, PurgeOrders(h)
      PROVE  req' \in [Handlers -> Request] /\ LocalsOK'
  BY <1>8, PurgedSound, <1>0 DEF PurgeOrders, Purges, Request
<1>9. ASSUME NEW h \in Handlers, DropTable(h)
      PROVE  req' \in [Handlers -> Request] /\ LocalsOK'
  <2>1. Sound([req[h] EXCEPT !.pc = "over"])
    BY <1>0, <1>9 DEF Sound, Request, LocalsOK, At
  <2>2. \/ req' = [req EXCEPT ![h] = Idle]
        \/ req' = [req EXCEPT ![h] = [req[h] EXCEPT !.pc = "over"]]
    BY <1>9 DEF DropTable
  <2> QED
    BY <2>1, <2>2, IdleSound, <1>0, SoundStep
<1>10. ASSUME NEW h \in Handlers, FindSession(h)
       PROVE  req' \in [Handlers -> Request] /\ LocalsOK'
  <2>1. CASE Answer(h)
    BY <2>1, IdleSound, <1>0, SoundStep DEF Answer
  <2>2. ASSUME NEW t \in TableIds, NEW g \in Groups,
               req' = [req EXCEPT ![h] = [@ EXCEPT !.pc = "createGuest",
                                                   !.g = g]]
        PROVE  req' \in [Handlers -> Request] /\ LocalsOK'
    <3>1. Sound([req[h] EXCEPT !.pc = "createGuest", !.g = g])
      BY <1>0, <1>10 DEF Sound, Request, LocalsOK, FindSession, At
    <3> QED
      BY <2>2, <3>1, <1>0, SoundStep
  <2>3. ASSUME NEW t \in TableIds,
               req' = [req EXCEPT ![h] = [@ EXCEPT !.pc = "createGroup",
                                                   !.t = t]]
        PROVE  req' \in [Handlers -> Request] /\ LocalsOK'
    <3>1. Sound([req[h] EXCEPT !.pc = "createGroup", !.t = t])
      BY <1>0, <1>10 DEF Sound, Request, LocalsOK, FindSession, At
    <3> QED
      BY <2>3, <3>1, <1>0, SoundStep
  <2> QED
    BY <1>10, <2>1, <2>2, <2>3 DEF FindSession, WithToken, GroupsAt
<1>11. ASSUME NEW h \in Handlers, CreateSession(h)
       PROVE  req' \in [Handlers -> Request] /\ LocalsOK'
  <2>1. CASE Answer(h)
    BY <2>1, IdleSound, <1>0, SoundStep DEF Answer
  <2>2. ASSUME NEW g \in Groups,
               req' = [req EXCEPT ![h] = [@ EXCEPT !.pc = "createGuest",
                                                   !.g = g]]
        PROVE  req' \in [Handlers -> Request] /\ LocalsOK'
    <3>1. Sound([req[h] EXCEPT !.pc = "createGuest", !.g = g])
      BY ZenonT(30), <1>0, <1>11 DEF Sound, Request, LocalsOK, CreateSession, At
    <3> QED
      BY <2>2, <3>1, <1>0, SoundStep
  <2> QED
    BY <1>11, <2>1, <2>2, PickIn DEF CreateSession
<1>12. ASSUME NEW h \in Handlers, CreateGuest(h) \/ InsertOrder(h)
       PROVE  req' \in [Handlers -> Request] /\ LocalsOK'
  BY <1>12, IdleSound, <1>0, SoundStep DEF CreateGuest, InsertOrder, Answer
<1>13. CASE UNCHANGED req
  BY <1>0, <1>13 DEF LocalsOK, At
<1> QED
  BY <1>1, <1>2, <1>3, <1>4, <1>5, <1>6, <1>7, <1>8, <1>9, <1>10, <1>11,
     <1>12, <1>13
     DEF Next, Process, UpdateTable, DeleteOrder,
         UpdateClientOrder, LeaveTable, Rest, vars

----------------------------------------------------------------------------
\* Rows.

\* Every step keeps the rows' types.
LEMMA RowStep ==
  ASSUME TypeOK, LocalsOK, Next
  PROVE  /\ table' \in [TableIds -> TableRow]
         /\ issued' \in [Tokens -> TableIds \cup {None}]
         /\ group' \in [Groups -> GroupRow]
         /\ order' \in [Groups -> OrderRow]
         /\ guest' \in [Guests -> GuestRow]
         /\ budget' \in 0..MaxRequests
<1> DEFINE Typed == /\ table' \in [TableIds -> TableRow]
                    /\ issued' \in [Tokens -> TableIds \cup {None}]
                    /\ group' \in [Groups -> GroupRow]
                    /\ order' \in [Groups -> OrderRow]
                    /\ guest' \in [Guests -> GuestRow]
                    /\ budget' \in 0..MaxRequests
<1> USE DEF TypeOK
<1>1. budget' \in 0..MaxRequests
  <2>1. CASE budget' = budget
    BY <2>1
  <2>2. CASE budget > 0 /\ budget' = budget - 1
    BY <2>2, BodiesAssumption
  <2>3. ASSUME NEW h \in Handlers,
               InsertTables(h) \/ DeleteTable(h) \/ JoinTable(h)
                 \/ CreateOrder(h)
        PROVE  budget > 0 /\ budget' = budget - 1
    BY <2>3 DEF InsertTables, DeleteTable, JoinTable, CreateOrder, Accept,
                Arrive
  <2>4. ASSUME NEW t \in TableIds, UpdateTable(t)
        PROVE  budget > 0 /\ budget' = budget - 1
    BY <2>4 DEF UpdateTable, Arrive
  <2>5. ASSUME NEW g \in Groups, DeleteOrder(g) \/ UpdateClientOrder(g)
        PROVE  budget > 0 /\ budget' = budget - 1
    BY <2>5 DEF DeleteOrder, UpdateClientOrder, Arrive
  <2>6. ASSUME NEW u \in Guests, LeaveTable(u)
        PROVE  budget > 0 /\ budget' = budget - 1
    BY <2>6 DEF LeaveTable, Arrive
  <2>7. ASSUME NEW h \in Handlers, Process(h) PROVE budget' = budget
    BY <2>7 DEF Process, LookupName, InsertTable, PurgeGroups, PurgeOrders,
                DropTable, FindSession, CreateSession, CreateGuest,
                InsertOrder
  <2>8. CASE Rest
    BY SMTT(30), <2>8 DEF Rest, vars
  <2> QED
    BY <2>1, <2>2, <2>3, <2>4, <2>5, <2>6, <2>7, <2>8 DEF Next
<1>2. ASSUME NEW h \in Handlers,
             \/ InsertTables(h) \/ DeleteTable(h) \/ JoinTable(h)
             \/ CreateOrder(h) \/ LookupName(h) \/ FindSession(h)
      PROVE  Typed
  BY <1>1, <1>2 DEF InsertTables, DeleteTable, JoinTable, CreateOrder,
                    LookupName, FindSession, people
<1>3. ASSUME NEW h \in Handlers, InsertTable(h) PROVE Typed
  <2>1. CASE UNCHANGED <<table, issued>>
    BY <1>1, <1>3, <2>1 DEF InsertTable, people
  <2>2. ASSUME NEW t \in Pick(NewTables), NEW k \in Pick(NewTokens),
               table' = [table EXCEPT ![t] =
                           [state |-> "live", name |-> Head(req[h].names),
                            token |-> k, active |-> TRUE]],
               issued' = [issued EXCEPT ![k] = t]
        PROVE  Typed
    <3>1. t \in TableIds /\ k \in Tokens
      BY PickIn DEF NewTables, NewTokens
    <3>2. req[h].names \in Seq(TableNames) /\ req[h].names # <<>>
      BY <1>3 DEF Request, InsertTable, LocalsOK
    <3>3. Head(req[h].names) \in TableNames
      BY <3>2
    <3>4. table' \in [TableIds -> TableRow]
      BY <2>2, <3>1, <3>3 DEF TableRow
    <3>5. issued' \in [Tokens -> TableIds \cup {None}]
      BY <2>2, <3>1
    <3> QED
      BY <1>1, <1>3, <3>4, <3>5 DEF InsertTable, people
  <2> QED
    BY <1>3, <2>1, <2>2 DEF InsertTable
<1>4. ASSUME NEW t \in TableIds, UpdateTable(t) PROVE Typed
  <2>1. PICK n \in TableNames, a \in BOOLEAN,
             k \in Pick(NewTokens) \cup {table[t].token} :
          WriteTable(t, n, a, k)
    BY <1>4 DEF UpdateTable
  <2>2. k \in Tokens \/ k = table[t].token
    BY PickIn DEF NewTokens
  <2>3. [table[t] EXCEPT !.name = n, !.active = a, !.token = k] \in TableRow
    BY ZenonT(30), <2>2 DEF TableRow
  <2>4. table' \in [TableIds -> TableRow]
    BY <2>1, <2>3 DEF WriteTable
  <2>5. issued' \in [Tokens -> TableIds \cup {None}]
    BY <2>1, <2>2 DEF WriteTable
  <2> QED
    BY <1>1, <1>4, <2>4, <2>5 DEF UpdateTable, people
<1>6. ASSUME NEW h \in Handlers, PurgeGroups(h) PROVE Typed
  BY <1>1, <1>6 DEF PurgeGroups, GroupRow
<1>7. ASSUME NEW h \in Handlers, PurgeOrders(h) PROVE Typed
  BY <1>1, <1>7 DEF PurgeOrders, OrderRow, NoOrder
<1>8. ASSUME NEW h \in Handlers, DropTable(h) PROVE Typed
  BY ZenonT(40), <1>1, <1>8 DEF DropTable, people, TableRow
<1>9. ASSUME NEW g \in Groups, DeleteOrder(g) PROVE Typed
  BY <1>1, <1>9 DEF DeleteOrder, OrderRow, NoOrder
<1>10. ASSUME NEW g \in Groups, UpdateClientOrder(g) PROVE Typed
  <2>1. order' \in [Groups -> OrderRow]
    <3>1. CASE order' = [order EXCEPT ![g].foods = {}]
      BY <3>1 DEF OrderRow
    <3>2. ASSUME NEW t \in TableIds, order' = [order EXCEPT ![g].table = t]
          PROVE  order' \in [Groups -> OrderRow]
      BY <3>2 DEF OrderRow
    <3>3. CASE order' = [order EXCEPT ![g].billed = TRUE]
      BY <3>3 DEF OrderRow
    <3> QED
      BY <1>10, <3>1, <3>2, <3>3 DEF UpdateClientOrder
  <2> QED
    BY <1>1, <1>10, <2>1 DEF UpdateClientOrder
<1>11. ASSUME NEW u \in Guests, LeaveTable(u) PROVE Typed
  BY <1>1, <1>11 DEF LeaveTable, GuestRow, NoGuest
<1>12. ASSUME NEW h \in Handlers, CreateSession(h) PROVE Typed
  <2>1. CASE UNCHANGED group
    BY <1>1, <1>12, <2>1 DEF CreateSession
  <2>2. ASSUME NEW g \in Groups,
               group' = [group EXCEPT ![g] = [state |-> "live",
                                              table |-> req[h].t]]
        PROVE  Typed
    <3>1. req[h].t \in TableIds
      BY <1>12 DEF CreateSession, LocalsOK
    <3> QED
      BY <1>1, <1>12, <2>2, <3>1 DEF CreateSession, GroupRow
  <2> QED
    BY <1>12, <2>1, <2>2, PickIn DEF CreateSession
<1>13. ASSUME NEW h \in Handlers, CreateGuest(h) PROVE Typed
  <2>1. req[h].g \in Groups /\ req[h].k \in Tokens
    BY <1>13 DEF CreateGuest, LocalsOK
  <2> QED
    BY <1>1, <1>13, <2>1 DEF CreateGuest, GuestRow
<1>14. ASSUME NEW h \in Handlers, InsertOrder(h) PROVE Typed
  <2>1. req[h].g \in Groups /\ req[h].u \in Guests
    BY <1>14 DEF InsertOrder, LocalsOK
  <2> QED
    <3>1. CASE UNCHANGED order
      BY <1>1, <1>14, <3>1 DEF InsertOrder
    <3>2. ASSUME NEW t \in TableIds,
                 order' = [order EXCEPT ![req[h].g] =
                             [live |-> TRUE, table |-> t,
                              foods |-> {req[h].u}, billed |-> FALSE]]
          PROVE  Typed
      <4>1. order' \in [Groups -> OrderRow]
        BY <2>1, <3>2 DEF OrderRow
      <4> QED
        BY <1>1, <1>14, <4>1 DEF InsertOrder
    <3> QED
      BY <1>14, <3>1, <3>2 DEF InsertOrder, WithToken
<1>15. CASE Rest
  BY <1>15 DEF Rest, vars
<1> QED
  BY <1>2, <1>3, <1>4, <1>6, <1>7, <1>8, <1>9, <1>10, <1>11, <1>12,
     <1>13, <1>14, <1>15 DEF Next, Process

\* A step that writes no session, order or guest leaves references intact if the
\* tables referred to stay.
LEMMA TablesStay ==
  ASSUME TypeOK, ReferencesResolve, UNCHANGED people,
         \A t \in TableIds : Live(t) /\ TableInUse(t) => Live(t)'
  PROVE  ReferencesResolve'
<1>1. \A g \in Groups : /\ group[g].table \in TableIds \cup {None}
                        /\ order[g].table \in TableIds \cup {None}
  BY DEF TypeOK, GroupRow, OrderRow
<1>2. \A g \in Groups :
        group[g].state = "live" => table'[group[g].table].state = "live"
  BY <1>1 DEF ReferencesResolve, TableInUse, GroupsAt, Live
<1>3. \A g \in Groups :
        order[g].live => table'[order[g].table].state = "live"
  BY <1>1 DEF ReferencesResolve, TableInUse, OrdersAt, Live
<1> QED
  BY <1>2, <1>3 DEF ReferencesResolve, people, Live

\* No step leaves a reference to a row that is gone.
LEMMA ReferencesStep ==
  ASSUME TypeOK, LocalsOK, ReferencesResolve, Next
  PROVE  ReferencesResolve'
<1>1. ASSUME NEW h \in Handlers,
             \/ InsertTables(h) \/ DeleteTable(h) \/ JoinTable(h)
             \/ CreateOrder(h) \/ LookupName(h) \/ FindSession(h)
      PROVE  ReferencesResolve'
  <2>1. UNCHANGED people /\ UNCHANGED table
    BY <1>1 DEF InsertTables, DeleteTable, JoinTable, CreateOrder, LookupName,
                FindSession
  <2> QED
    BY SMTT(30), <2>1, TablesStay DEF Live
<1>2. ASSUME NEW h \in Handlers, InsertTable(h) PROVE ReferencesResolve'
  <2>1. \A t \in TableIds : Live(t) => Live(t)'
    BY <1>2, PickIn DEF InsertTable, NewTables, Live, TypeOK
  <2> QED
    BY <1>2, <2>1, TablesStay DEF InsertTable
<1>3. ASSUME NEW t \in TableIds, UpdateTable(t) PROVE ReferencesResolve'
  <2>1. \A u \in TableIds : Live(u) => Live(u)'
    BY <1>3 DEF UpdateTable, WriteTable, Live, TypeOK, TableRow
  <2> QED
    BY <1>3, <2>1, TablesStay DEF UpdateTable
<1>4. ASSUME NEW h \in Handlers, DropTable(h) PROVE ReferencesResolve'
  <2>1. \A u \in TableIds : Live(u) /\ TableInUse(u) => Live(u)'
    BY <1>4 DEF DropTable, Live, TypeOK, TableRow
  <2> QED
    BY <1>4, <2>1, TablesStay DEF DropTable
<1>5. ASSUME NEW h \in Handlers, PurgeGroups(h) PROVE ReferencesResolve'
  <2>1. \A g \in Groups :
          /\ group'[g].table = group[g].table
          /\ group'[g].state = "live" => group[g].state = "live"
          /\ group[g].state = "live" /\ GroupInUse(g) =>
               group'[g].state = "live"
    BY <1>5 DEF PurgeGroups, TypeOK, GroupRow
  <2>2. UNCHANGED <<table, order, guest>>
    BY <1>5 DEF PurgeGroups
  <2>3. \A u \in Guests : guest[u].group # None => guest[u].group \in Groups
    BY DEF TypeOK, GuestRow
  <2> QED
    BY <2>1, <2>2, <2>3
       DEF ReferencesResolve, Live, GroupInUse, GuestsOf
<1>6. ASSUME \A g \in Groups : order'[g] = order[g] \/ ~order'[g].live,
             UNCHANGED <<table, group, guest>>
      PROVE  ReferencesResolve'
  BY <1>6 DEF ReferencesResolve, Live
<1>7. ASSUME NEW h \in Handlers, PurgeOrders(h) PROVE ReferencesResolve'
  <2>1. ~NoOrder.live
    BY DEF NoOrder
  <2>2. \A g \in Groups : order'[g] = order[g] \/ order'[g] = NoOrder
    BY <1>7 DEF PurgeOrders
  <2>3. UNCHANGED <<table, group, guest>>
    BY <1>7 DEF PurgeOrders
  <2> QED
    BY <1>6, <2>1, <2>2, <2>3
<1>8. ASSUME NEW g \in Groups, DeleteOrder(g) PROVE ReferencesResolve'
  <2>1. ~NoOrder.live
    BY DEF NoOrder
  <2>2. \A k \in Groups : order'[k] = order[k] \/ order'[k] = NoOrder
    BY <1>8 DEF DeleteOrder, TypeOK
  <2>3. UNCHANGED <<table, group, guest>>
    BY <1>8 DEF DeleteOrder
  <2> QED
    BY <1>6, <2>1, <2>2, <2>3
<1>9. ASSUME NEW g \in Groups, UpdateClientOrder(g) PROVE ReferencesResolve'
  <2>1. order[g].live /\ UNCHANGED <<table, group, guest>>
    BY <1>9 DEF UpdateClientOrder
  <2>2. \A k \in Groups \ {g} : order'[k] = order[k]
    BY <1>9 DEF UpdateClientOrder, TypeOK
  <2>3. \/ order'[g].table = order[g].table
        \/ \E t \in TableIds : Live(t) /\ order'[g].table = t
    BY <1>9 DEF UpdateClientOrder, TypeOK, OrderRow
  <2> QED
    BY <2>1, <2>2, <2>3, NoneFresh DEF ReferencesResolve, Live
<1>10. ASSUME NEW u \in Guests, LeaveTable(u) PROVE ReferencesResolve'
  <2>1. \A v \in Guests : guest'[v] = guest[v] \/ guest'[v].group = None
    BY <1>10 DEF LeaveTable, NoGuest, TypeOK
  <2> QED
    BY <1>10, <2>1 DEF LeaveTable, ReferencesResolve, Live
<1>11. ASSUME NEW h \in Handlers, CreateSession(h) PROVE ReferencesResolve'
  <2>1. CASE UNCHANGED group
    BY <1>11, <2>1 DEF CreateSession, ReferencesResolve, Live
  <2>2. ASSUME NEW g \in Groups, Live(req[h].t),
               group' = [group EXCEPT ![g] = [state |-> "live",
                                              table |-> req[h].t]]
        PROVE  ReferencesResolve'
    <3>1. req[h].t \in TableIds
      BY <1>11 DEF CreateSession, LocalsOK
    <3>2. \A k \in Groups :
            \/ group'[k] = group[k]
            \/ group'[k].state = "live" /\ group'[k].table = req[h].t
      BY <2>2 DEF TypeOK
    <3>3. UNCHANGED <<table, order, guest>>
      BY <1>11 DEF CreateSession
    <3>4. \A u \in Guests : guest[u].group # None => guest[u].group \in Groups
      BY DEF TypeOK, GuestRow
    <3> QED
      BY <2>2, <3>1, <3>2, <3>3, <3>4, NoneFresh DEF ReferencesResolve, Live
  <2> QED
    BY <1>11, <2>1, <2>2, PickIn DEF CreateSession
<1>12. ASSUME NEW h \in Handlers, CreateGuest(h) PROVE ReferencesResolve'
  <2>1. req[h].g \in Groups
    BY <1>12 DEF CreateGuest, LocalsOK
  <2>2. \A u \in Guests :
          \/ guest'[u] = guest[u]
          \/ guest'[u].group = req[h].g /\ group[req[h].g].state = "live"
    BY <1>12 DEF CreateGuest, TypeOK
  <2> QED
    BY <1>12, <2>1, <2>2 DEF CreateGuest, ReferencesResolve, Live
<1>13. ASSUME NEW h \in Handlers, InsertOrder(h) PROVE ReferencesResolve'
  <2>1. UNCHANGED <<table, group, guest>>
    BY <1>13 DEF InsertOrder
  <2>2. CASE UNCHANGED order
    BY <2>1, <2>2 DEF ReferencesResolve, Live
  <2>3. ASSUME NEW t \in TableIds, Live(t), group[req[h].g].state = "live",
               order' = [order EXCEPT ![req[h].g] =
                           [live |-> TRUE, table |-> t, foods |-> {req[h].u},
                            billed |-> FALSE]]
        PROVE  ReferencesResolve'
    <3>1. \A g \in Groups : \/ order'[g] = order[g]
                            \/ g = req[h].g /\ order'[g].table = t
      BY <2>3 DEF TypeOK
    <3> QED
      BY <2>1, <2>3, <3>1, NoneFresh DEF ReferencesResolve, Live
  <2> QED
    BY <1>13, <2>2, <2>3 DEF InsertOrder, WithToken
<1>14. CASE Rest
  BY <1>14 DEF Rest, vars, people, ReferencesResolve, Live
<1> QED
  BY <1>1, <1>2, <1>3, <1>4, <1>5, <1>7, <1>8, <1>9, <1>10, <1>11, <1>12,
     <1>13, <1>14 DEF Next, Process

----------------------------------------------------------------------------
\* A stuttering step keeps the invariant.
LEMMA Stutter == Inv /\ UNCHANGED vars => Inv'
BY DEF Inv, TypeOK, LocalsOK, ReferencesResolve, vars, people, At, Live

\* The invariant holds in every state of every run.
THEOREM TablesInvariant == Spec => []Inv
<1>1. Inv /\ Next => Inv'
  BY RequestStep, RowStep, ReferencesStep DEF Inv, TypeOK
<1> QED
  BY InitInv, <1>1, Stutter, PTL DEF Spec

\* Table, session, order and guest rows keep their types, and requests the shape
\* their place in the handler needs (table.service.ts, client.service.ts).
THEOREM TablesTyped == Spec => []TypeOK
<1>1. Inv => TypeOK
  BY DEF Inv
<1> QED
  BY <1>1, TablesInvariant, PTL

\* However the deletion of a table and its rows, the renewal of its code, a join
\* and an order interleave, no session, order or guest is left without the row
\* it belongs to (deleteTable, getCurrentClientGroupOrNew, createOrder).
THEOREM NothingLeftBehind == Spec => []ReferencesResolve
<1>1. Inv => ReferencesResolve
  BY DEF Inv
<1> QED
  BY <1>1, TablesInvariant, PTL

----------------------------------------------------------------------------
\* A table's code was generated for it.
CodesOK ==
  \A t \in TableIds :
    Live(t) => table[t].token \in Tokens /\ issued[table[t].token] = t

\* A request about to open a session or to seat a guest scanned a code of the
\* table, and so did every guest who is seated.
Seats == {"createGroup", "createGuest"}
CodeFits(r) ==
  /\ r.pc = "createGroup" => issued[r.k] = r.t
  /\ r.pc = "createGuest" =>
       /\ group[r.g].state # "none"
       /\ issued[r.k] = group[r.g].table /\ issued[r.k] # None
RequestsOK == \A h \in Handlers : CodeFits(req[h])
GuestsOK ==
  \A u \in Guests : guest[u].group # None =>
    /\ guest[u].room \in Tokens
    /\ issued[guest[u].room] = group[guest[u].group].table
    /\ issued[guest[u].room] # None

CodeInv == Inv /\ CodesOK /\ NamesUnique /\ RequestsOK /\ GuestsOK

\* It holds of a restaurant without rows.
LEMMA InitCodes == Init => CodeInv
<1> SUFFICES ASSUME Init PROVE CodeInv
  OBVIOUS
<1>1. Inv
  BY InitInv
<1>2. CodesOK /\ NamesUnique
  BY DEF Init, CodesOK, NamesUnique, Live, NoTable
<1>3. RequestsOK /\ GuestsOK
  BY DEF Init, RequestsOK, CodeFits, GuestsOK, Idle, NoGuest
<1> QED
  BY <1>1, <1>2, <1>3 DEF CodeInv

----------------------------------------------------------------------------
\* What a step does to the tables.

\* A table is created or written, with a name nobody else has and a code of its
\* own or a new one; or it is deleted.
Put(t, n, k) ==
  /\ table[t].state \in {"none", "live"}
  /\ ~NameTaken(n) \/ (Live(t) /\ n = table[t].name)
  /\ \/ issued[k] = None /\ issued' = [issued EXCEPT ![k] = t]
     \/ Live(t) /\ k = table[t].token /\ UNCHANGED issued
  /\ table'[t].state = "live" /\ table'[t].name = n /\ table'[t].token = k
  /\ \A u \in TableIds \ {t} : table'[u] = table[u]
Drop(t) ==
  /\ table'[t].state = "deleted"
  /\ \A u \in TableIds \ {t} : table'[u] = table[u]
  /\ UNCHANGED issued

\* Nothing else happens to the tables.
LEMMA TableForm ==
  ASSUME CodeInv, Next
  PROVE  \/ UNCHANGED <<table, issued>>
         \/ \E t \in TableIds, n \in TableNames, k \in Tokens : Put(t, n, k)
         \/ \E t \in TableIds : Drop(t)
<1>0. /\ table \in [TableIds -> TableRow]
      /\ issued \in [Tokens -> TableIds \cup {None}]
  BY DEF CodeInv, Inv, TypeOK
<1>1. ASSUME NEW h \in Handlers, InsertTable(h), ~UNCHANGED <<table, issued>>
      PROVE  \E t \in TableIds, n \in TableNames, k \in Tokens : Put(t, n, k)
  <2> DEFINE n == Head(req[h].names)
  <2>1. n \in TableNames
    BY <1>1 DEF InsertTable, CodeInv, Inv, TypeOK, LocalsOK, Request, At
  <2>2. PICK t \in Pick(NewTables), k \in Pick(NewTokens) :
          /\ ~NameTaken(n)
          /\ table' = [table EXCEPT ![t] =
                         [state |-> "live", name |-> n, token |-> k,
                          active |-> TRUE]]
          /\ issued' = [issued EXCEPT ![k] = t]
    BY <1>1 DEF InsertTable
  <2>3. t \in NewTables /\ k \in NewTokens
    BY PickIn
  <2> HIDE DEF n
  <2>4. Put(t, n, k)
    BY <1>0, <2>2, <2>3 DEF Put, NewTables, NewTokens
  <2> QED
    BY <2>1, <2>3, <2>4 DEF NewTables, NewTokens
<1>2. ASSUME NEW t \in TableIds, UpdateTable(t)
      PROVE  \E n \in TableNames, k \in Tokens : Put(t, n, k)
  <2>1. PICK n \in TableNames, a \in BOOLEAN,
             k \in Pick(NewTokens) \cup {table[t].token} :
          /\ n = table[t].name \/ ~NameTaken(n)
          /\ WriteTable(t, n, a, k)
    BY <1>2 DEF UpdateTable
  <2>2. Live(t)
    BY <1>2 DEF UpdateTable
  <2>3. k \in Tokens /\ (k = table[t].token \/ issued[k] = None)
    BY <2>2, PickIn DEF NewTokens, CodeInv, CodesOK
  <2>4. /\ table'[t] = [table[t] EXCEPT !.name = n, !.active = a, !.token = k]
        /\ \A u \in TableIds \ {t} : table'[u] = table[u]
    BY <1>0, <2>1 DEF WriteTable
  <2>5. /\ table'[t].state = "live" /\ table'[t].name = n /\ table'[t].token = k
    BY <1>0, <2>2, <2>4 DEF TableRow, Live
  <2>6. Put(t, n, k)
    BY <2>1, <2>2, <2>3, <2>4, <2>5 DEF Put, WriteTable, Live
  <2> QED
    BY <2>3, <2>6
<1>3. ASSUME NEW h \in Handlers, DropTable(h)
      PROVE  UNCHANGED <<table, issued>> \/ \E t \in TableIds : Drop(t)
  <2> DEFINE t == req[h].t
  <2>1. CASE Live(t) /\ table' = [table EXCEPT ![t].state = "deleted"]
    <3>1. CASE t \in TableIds
      <4>1. table'[t] = [table[t] EXCEPT !.state = "deleted"]
        BY <1>0, <2>1, <3>1
      <4>2. table'[t].state = "deleted"
        BY <1>0, <3>1, <4>1 DEF TableRow
      <4> QED
        BY <1>0, <1>3, <2>1, <3>1, <4>2 DEF Drop, DropTable
    <3>2. CASE t \notin TableIds
      BY <1>0, <1>3, <2>1, <3>2 DEF DropTable
    <3> QED
      BY <3>1, <3>2
  <2> QED
    BY <1>3, <2>1 DEF DropTable
<1> QED
  BY <1>1, <1>2, <1>3, Zenon
     DEF Next, Process, Rest, vars, people, InsertTables, DeleteTable,
         JoinTable, CreateOrder, DeleteOrder, UpdateClientOrder, LeaveTable,
         LookupName, PurgeGroups, PurgeOrders, FindSession, CreateSession,
         CreateGuest, InsertOrder

\* A code is never generated for a second table.
LEMMA IssuedKept ==
  ASSUME CodeInv, Next, NEW k \in Tokens, issued[k] # None
  PROVE  issued'[k] = issued[k]
<1>0. issued \in [Tokens -> TableIds \cup {None}]
  BY DEF CodeInv, Inv, TypeOK
<1>1. ASSUME NEW t, NEW n, NEW j \in Tokens, Put(t, n, j)
      PROVE  issued'[k] = issued[k]
  BY <1>0, <1>1 DEF Put
<1> QED
  BY <1>1, TableForm DEF Drop

\* A table's code stays its own.
LEMMA CodesStep ==
  ASSUME CodeInv, Next
  PROVE  CodesOK'
<1>0. /\ issued \in [Tokens -> TableIds \cup {None}]
      /\ CodesOK
  BY DEF CodeInv, Inv, TypeOK
<1>1. ASSUME NEW t \in TableIds, NEW n, NEW k \in Tokens, Put(t, n, k)
      PROVE  CodesOK'
  <2>1. issued'[k] = t
    BY <1>0, <1>1 DEF Put, CodesOK
  <2>2. \A u \in TableIds \ {t} : Live(u) => issued'[table[u].token] = u
    BY <1>0, IssuedKept, NoneFresh DEF CodesOK
  <2> QED
    BY <1>0, <1>1, <2>1, <2>2 DEF Put, CodesOK, Live
<1>2. ASSUME NEW t \in TableIds, Drop(t) PROVE CodesOK'
  BY <1>0, <1>2 DEF Drop, CodesOK, Live
<1>3. CASE UNCHANGED <<table, issued>>
  BY <1>0, <1>3 DEF CodesOK, Live
<1> QED
  BY <1>1, <1>2, <1>3, TableForm

\* A name stays one table's.
LEMMA NamesStep ==
  ASSUME CodeInv, Next
  PROVE  NamesUnique'
<1>0. NamesUnique
  BY DEF CodeInv
<1>1. ASSUME NEW t \in TableIds, NEW n, NEW k, Put(t, n, k)
      PROVE  NamesUnique'
  <2>1. \A u \in TableIds \ {t} : Live(u) => table[u].name # n
    BY <1>0, <1>1 DEF Put, NamesUnique, NameTaken
  <2> QED
    BY <1>0, <1>1, <2>1 DEF Put, NamesUnique, Live
<1>2. ASSUME NEW t \in TableIds, Drop(t) PROVE NamesUnique'
  BY <1>0, <1>2 DEF Drop, NamesUnique, Live
<1>3. CASE UNCHANGED <<table, issued>>
  BY <1>0, <1>3 DEF NamesUnique, Live
<1> QED
  BY <1>1, <1>2, <1>3, TableForm

----------------------------------------------------------------------------
\* Rooms.

\* Sessions keep their table, also when they are deleted.
LEMMA GroupsKept ==
  ASSUME CodeInv, Next, NEW g \in Groups, group[g].state # "none"
  PROVE  group'[g].state # "none" /\ group'[g].table = group[g].table
<1>0. group \in [Groups -> GroupRow]
  BY DEF CodeInv, Inv, TypeOK
<1>1. ASSUME NEW h \in Handlers, PurgeGroups(h)
      PROVE  group'[g].state # "none" /\ group'[g].table = group[g].table
  <2>1. \/ group'[g] = group[g]
        \/ group'[g] = [group[g] EXCEPT !.state = "deleted"]
    BY <1>1 DEF PurgeGroups
  <2> QED
    BY <1>0, <2>1 DEF GroupRow
<1>2. ASSUME NEW h \in Handlers, CreateSession(h)
      PROVE  group'[g] = group[g]
  <2>1. CASE UNCHANGED group
    BY <2>1
  <2>2. CASE ~UNCHANGED group
    <3>1. PICK k \in Pick({j \in Groups : group[j].state = "none"}) :
            group' = [group EXCEPT ![k] = [state |-> "live",
                                           table |-> req[h].t]]
      BY <1>2, <2>2 DEF CreateSession
    <3>2. k # g
      BY PickIn
    <3> QED
      BY <1>0, <3>1, <3>2
  <2> QED
    BY <2>1, <2>2
<1>3. \/ UNCHANGED group
      \/ \E h \in Handlers : PurgeGroups(h) \/ CreateSession(h)
  BY Zenon
     DEF Next, Process, Rest, vars, people, InsertTables, DeleteTable,
         JoinTable, CreateOrder, UpdateTable, DeleteOrder, UpdateClientOrder,
         LeaveTable, LookupName, InsertTable, PurgeOrders, DropTable,
         FindSession, CreateGuest, InsertOrder
<1> QED
  BY <1>1, <1>2, <1>3

\* A request that is replaced by one at another place.
LEMMA Elsewhere ==
  ASSUME TypeOK, NEW h \in Handlers, NEW r, r.pc \notin Seats,
         req' = [req EXCEPT ![h] = r]
  PROVE  \A i \in Handlers : req'[i] = req[i] \/ req'[i].pc \notin Seats
BY DEF TypeOK

\* A request comes to these places by two calls only.
LEMMA SeatsMove ==
  ASSUME CodeInv, Next, NEW i \in Handlers, req'[i].pc \in Seats
  PROVE  req'[i] = req[i] \/ \E h \in Handlers : FindSession(h) \/ CreateSession(h)
<1> DEFINE Same == \A j \in Handlers : req'[j] = req[j] \/ req'[j].pc \notin Seats
<1>0. TypeOK /\ LocalsOK
  BY DEF CodeInv, Inv
<1>1. ASSUME NEW h \in Handlers, NEW p, p \notin Seats, Goto(h, p) PROVE Same
  <2>1. [req[h] EXCEPT !.pc = p].pc = p
    BY <1>0 DEF TypeOK, Request
  <2> QED
    BY <1>0, <1>1, <2>1, Elsewhere DEF Goto
<1>2. ASSUME NEW h \in Handlers, Answer(h) PROVE Same
  BY <1>0, <1>2, Elsewhere DEF Answer, Idle, Seats
<1>3. ASSUME NEW h \in Handlers, NEW kind, NEW r, r.pc \notin Seats,
             Accept(h, kind, r)
      PROVE  Same
  BY SMTT(30), <1>0, <1>3, Elsewhere DEF Accept
<1>4. ASSUME NEW h \in Handlers,
             InsertTables(h) \/ DeleteTable(h) \/ JoinTable(h) \/ CreateOrder(h)
      PROVE  Same
  BY <1>3, <1>4 DEF InsertTables, DeleteTable, JoinTable, CreateOrder, Idle, Seats
<1>5. ASSUME NEW h \in Handlers, NextName(h) PROVE Same
  <2>1. CASE req' = [req EXCEPT ![h] = Idle]
    BY <1>2, <2>1 DEF Answer
  <2>2. CASE req' = [req EXCEPT ![h] = [req[h] EXCEPT !.pc = "lookup",
                                                  !.names = Tail(req[h].names)]]
    <3>1. [req[h] EXCEPT !.pc = "lookup", !.names = Tail(req[h].names)].pc
            = "lookup"
      BY <1>0 DEF TypeOK, Request
    <3> QED
      BY <1>0, <2>2, <3>1, Elsewhere DEF Seats
  <2> QED
    BY <1>5, <2>1, <2>2 DEF NextName
<1>6. ASSUME NEW h \in Handlers, LookupName(h) \/ InsertTable(h) PROVE Same
  BY <1>1, <1>2, <1>5, <1>6 DEF LookupName, InsertTable, Seats
<1>7. ASSUME NEW h \in Handlers, NEW what, what \in req[h].pend, NEW b,
             Purged(h, what, b)
      PROVE  Same
  <2> DEFINE r == [req[h] EXCEPT !.pend = req[h].pend \ {what},
                                 !.failed = req[h].failed \/ b]
  <2>1. r.pc \notin Seats
    BY <1>0, <1>7 DEF TypeOK, Request, LocalsOK, At, Seats
  <2>2. Answer(h) \/ req' = [req EXCEPT ![h] = r]
    BY <1>7 DEF Purged, Answer
  <2> HIDE DEF r
  <2> QED
    BY <1>0, <1>2, <2>1, <2>2, Elsewhere
<1>8. ASSUME NEW h \in Handlers, PurgeGroups(h) \/ PurgeOrders(h) PROVE Same
  BY <1>7, <1>8 DEF PurgeGroups, PurgeOrders
<1>9. ASSUME NEW h \in Handlers, DropTable(h) PROVE Same
  BY <1>1, <1>2, <1>9 DEF DropTable, Goto, Answer, Seats
<1>10. ASSUME NEW h \in Handlers, CreateGuest(h) \/ InsertOrder(h) PROVE Same
  BY <1>2, <1>10 DEF CreateGuest, InsertOrder
<1>11. \/ UNCHANGED req
       \/ \E h \in Handlers : FindSession(h) \/ CreateSession(h)
       \/ \E h \in Handlers :
            \/ InsertTables(h) \/ DeleteTable(h) \/ JoinTable(h) \/ CreateOrder(h)
            \/ LookupName(h) \/ InsertTable(h) \/ PurgeGroups(h)
            \/ PurgeOrders(h) \/ DropTable(h) \/ CreateGuest(h) \/ InsertOrder(h)
  BY Zenon DEF Next, Process, Rest, vars, UpdateTable, DeleteOrder,
               UpdateClientOrder, LeaveTable
<1> QED
  BY <1>4, <1>6, <1>8, <1>9, <1>10, <1>11

\* What a request relies on stays true.
LEMMA RequestsKept ==
  ASSUME CodeInv, Next, NEW i \in Handlers, req'[i] = req[i]
  PROVE  CodeFits(req[i])'
<1>1. /\ req[i].pc = "createGroup" => req[i].k \in Tokens /\ req[i].t \in TableIds
      /\ req[i].pc = "createGuest" => req[i].k \in Tokens /\ req[i].g \in Groups
      /\ CodeFits(req[i])
  BY DEF CodeInv, Inv, LocalsOK, At, RequestsOK
<1>2. CASE req[i].pc = "createGroup"
  <2>1. issued[req[i].k] # None
    BY <1>1, <1>2, NoneFresh DEF CodeFits
  <2>2. issued'[req[i].k] = issued[req[i].k]
    BY <1>1, <1>2, <2>1, IssuedKept
  <2> QED
    BY <1>1, <1>2, <2>2 DEF CodeFits
<1>3. CASE req[i].pc = "createGuest"
  <2>1. /\ issued'[req[i].k] = issued[req[i].k]
        /\ group'[req[i].g].state # "none"
        /\ group'[req[i].g].table = group[req[i].g].table
    BY <1>1, <1>3, IssuedKept, GroupsKept DEF CodeFits
  <2> QED
    BY <1>1, <1>3, <2>1 DEF CodeFits
<1> QED
  BY <1>2, <1>3 DEF CodeFits

\* A session is found or opened at the table the code was generated for.
LEMMA RequestsOKStep ==
  ASSUME CodeInv, Next
  PROVE  RequestsOK'
<1>0. /\ TypeOK /\ LocalsOK /\ CodesOK
      /\ req \in [Handlers -> Request] /\ group \in [Groups -> GroupRow]
  BY DEF CodeInv, Inv, TypeOK
<1>1. ASSUME NEW h \in Handlers, FindSession(h), NEW i \in Handlers,
             req'[i] # req[i], req'[i].pc \in Seats
      PROVE  CodeFits(req[i])'
  <2>1. UNCHANGED <<issued, group>>
    BY <1>1 DEF FindSession, people
  <2>2. req[h].k \in Tokens
    BY <1>0, <1>1 DEF FindSession, LocalsOK, At
  <2>3. ~Answer(h)
    BY SMTT(30), <1>0, <1>1 DEF Answer, Idle, Seats
  <2>4. PICK t \in WithToken(req[h].k) :
          \/ \E g \in GroupsAt(t) :
               req' = [req EXCEPT ![h] = [@ EXCEPT !.pc = "createGuest", !.g = g]]
          \/ req' = [req EXCEPT ![h] = [@ EXCEPT !.pc = "createGroup", !.t = t]]
    BY <1>1, <2>3 DEF FindSession
  <2>5. i = h
    BY <1>0, <1>1, <2>4
  <2>6. t \in TableIds /\ issued[req[h].k] = t
    BY <1>0 DEF WithToken, CodesOK
  <2>7. ASSUME NEW g \in GroupsAt(t),
               req' = [req EXCEPT ![h] = [@ EXCEPT !.pc = "createGuest", !.g = g]]
        PROVE  CodeFits(req[i])'
    <3>1. /\ req'[h].pc = "createGuest" /\ req'[h].g = g
          /\ req'[h].k = req[h].k
      BY <1>0, <2>7 DEF Request
    <3>2. group[g].state = "live" /\ group[g].table = t
      BY DEF GroupsAt
    <3> QED
      BY <2>1, <2>5, <2>6, <3>1, <3>2, NoneFresh DEF CodeFits
  <2>8. CASE req' = [req EXCEPT ![h] = [@ EXCEPT !.pc = "createGroup", !.t = t]]
    <3>1. /\ req'[h].pc = "createGroup" /\ req'[h].t = t
          /\ req'[h].k = req[h].k
      BY <1>0, <2>8 DEF Request
    <3> QED
      BY <2>1, <2>5, <2>6, <3>1 DEF CodeFits
  <2> QED
    BY <2>4, <2>7, <2>8
<1>2. ASSUME NEW h \in Handlers, CreateSession(h), NEW i \in Handlers,
             req'[i] # req[i], req'[i].pc \in Seats
      PROVE  CodeFits(req[i])'
  <2>1. UNCHANGED issued
    BY <1>2 DEF CreateSession
  <2>2. req[h].t \in TableIds /\ issued[req[h].k] = req[h].t
    BY <1>0, <1>2 DEF CreateSession, LocalsOK, At, CodeInv, RequestsOK, CodeFits
  <2>3. ~Answer(h)
    BY <1>0, <1>2 DEF Answer, Idle, Seats
  <2>4. PICK g \in Pick({k \in Groups : group[k].state = "none"}) :
          /\ group' = [group EXCEPT ![g] = [state |-> "live",
                                            table |-> req[h].t]]
          /\ req' = [req EXCEPT ![h] = [@ EXCEPT !.pc = "createGuest", !.g = g]]
    BY <1>2, <2>3 DEF CreateSession
  <2>5. g \in Groups
    BY PickIn
  <2>6. i = h
    BY <1>0, <1>2, <2>4
  <2>7. /\ req'[h].pc = "createGuest" /\ req'[h].g = g
        /\ req'[h].k = req[h].k
    BY <1>0, <2>4 DEF Request
  <2>8. group'[g].state = "live" /\ group'[g].table = req[h].t
    BY <1>0, <2>4, <2>5
  <2> QED
    BY <2>1, <2>2, <2>6, <2>7, <2>8, NoneFresh DEF CodeFits
<1>3. ASSUME NEW i \in Handlers PROVE CodeFits(req[i])'
  <2>1. CASE req'[i] = req[i]
    BY <2>1, RequestsKept
  <2>2. CASE req'[i].pc \notin Seats
    BY <2>2 DEF CodeFits, Seats
  <2>3. CASE req'[i] # req[i] /\ req'[i].pc \in Seats
    BY <1>1, <1>2, <2>3, SeatsMove
  <2> QED
    BY <2>1, <2>2, <2>3
<1> QED
  BY <1>3 DEF RequestsOK

\* A guest is seated in the session of the code that was scanned.
LEMMA GuestsStep ==
  ASSUME CodeInv, Next
  PROVE  GuestsOK'
<1>0. /\ guest \in [Guests -> GuestRow] /\ GuestsOK
      /\ \A u \in Guests : guest[u].group # None =>
           guest[u].group \in Groups /\ group[guest[u].group].state # "none"
  BY DEF CodeInv, Inv, TypeOK, ReferencesResolve, GuestRow
<1>1. ASSUME NEW u \in Guests, guest'[u] = guest[u], guest[u].group # None
      PROVE  /\ guest'[u].room \in Tokens
             /\ issued'[guest'[u].room] = group'[guest'[u].group].table
             /\ issued'[guest'[u].room] # None
  <2>1. guest[u].room \in Tokens /\ issued[guest[u].room] # None
    BY <1>0, <1>1 DEF GuestsOK
  <2>2. issued'[guest[u].room] = issued[guest[u].room]
    BY <2>1, IssuedKept
  <2>3. group'[guest[u].group].table = group[guest[u].group].table
    BY <1>0, <1>1, GroupsKept
  <2> QED
    BY <1>0, <1>1, <2>1, <2>2, <2>3 DEF GuestsOK
<1>2. ASSUME NEW h \in Handlers, CreateGuest(h) PROVE GuestsOK'
  <2>1. /\ req[h].g \in Groups /\ req[h].k \in Tokens
        /\ issued[req[h].k] = group[req[h].g].table /\ issued[req[h].k] # None
    BY <1>2 DEF CreateGuest, CodeInv, Inv, LocalsOK, At, RequestsOK, CodeFits
  <2>2. UNCHANGED <<issued, group>>
    BY <1>2 DEF CreateGuest
  <2>3. \A u \in Guests :
          \/ guest'[u] = guest[u]
          \/ guest'[u].group = req[h].g /\ guest'[u].room = req[h].k
    BY <1>0, <1>2 DEF CreateGuest
  <2> QED
    BY <1>1, <2>1, <2>2, <2>3 DEF GuestsOK
<1>3. ASSUME NEW u \in Guests, LeaveTable(u) PROVE GuestsOK'
  <2>1. \A v \in Guests : guest'[v] = guest[v] \/ guest'[v].group = None
    BY <1>0, <1>3 DEF LeaveTable, NoGuest
  <2> QED
    BY <1>1, <2>1 DEF GuestsOK
<1>4. CASE UNCHANGED guest
  BY <1>1, <1>4 DEF GuestsOK
<1>5. \/ UNCHANGED guest
      \/ \E h \in Handlers : CreateGuest(h)
      \/ \E u \in Guests : LeaveTable(u)
  BY Zenon
     DEF Next, Process, Rest, vars, people, InsertTables, DeleteTable,
         JoinTable, CreateOrder, UpdateTable, DeleteOrder, UpdateClientOrder,
         LookupName, InsertTable, PurgeGroups, PurgeOrders, DropTable,
         FindSession, CreateSession, InsertOrder
<1> QED
  BY <1>2, <1>3, <1>4, <1>5

----------------------------------------------------------------------------
\* The invariant is kept.
LEMMA CodeStep == CodeInv /\ [Next]_vars => CodeInv'
<1>1. ASSUME CodeInv, Next PROVE CodeInv'
  <2>1. Inv'
    BY <1>1, RequestStep, RowStep, ReferencesStep DEF CodeInv, Inv, TypeOK
  <2> QED
    BY <1>1, <2>1, CodesStep, NamesStep, RequestsOKStep, GuestsStep DEF CodeInv
<1>2. ASSUME CodeInv, UNCHANGED vars PROVE CodeInv'
  BY <1>2, Stutter
     DEF CodeInv, CodesOK, NamesUnique, RequestsOK, CodeFits, GuestsOK, Live,
         vars, people
<1> QED
  BY <1>1, <1>2

\* It holds throughout.
LEMMA CodeInvHolds == Spec => []CodeInv
BY InitCodes, CodeStep, PTL DEF Spec

\* No restaurant gets two tables of one name, whatever lists are created and
\* names written at once (createTable, updateTable).
THEOREM NamesAreUnique == Spec => []NamesUnique
<1>1. CodeInv => NamesUnique
  BY DEF CodeInv
<1> QED
  BY <1>1, CodeInvHolds, PTL

\* What is sent to a table's room is heard by its own guests, whenever codes are
\* renewed between a guest's scan and seat (joinTable, notiToTable).
THEOREM RoomsAreOwn == Spec => []RoomIsOwnTable
<1>1. CodeInv => RoomIsOwnTable
  BY DEF CodeInv, CodesOK, GuestsOK, RoomIsOwnTable, WithToken
<1> QED
  BY <1>1, CodeInvHolds, PTL
=============================================================================
