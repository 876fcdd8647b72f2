------------------------------ MODULE MCTables ------------------------------
(***************************************************************************)
(* Constants of MCTables.cfg.  The restaurant opens with one table.        *)
(***************************************************************************)
EXTENDS Tables, TLC

CONSTANTS t1, n1, n2, k1

Sym == Permutations(Handlers)
Lists == {<<n1>>, <<n2, n1>>, <<n1, n1>>}

AtOpening ==
  /\ table  = [t \in TableIds |->
                 IF t = t1 THEN [state |-> "live", name |-> n1, token |-> k1,
                                 active |-> TRUE] ELSE NoTable]
  /\ issued = [k \in Tokens |-> IF k = k1 THEN t1 ELSE None]
  /\ group  = [g \in Groups |-> NoGroup]
  /\ order  = [g \in Groups |-> NoOrder]
  /\ guest  = [u \in Guests |-> NoGuest]
  /\ req    = [h \in Handlers |-> Idle]
  /\ budget = MaxRequests

OpeningSpec == AtOpening /\ [][Next]_vars
=============================================================================
