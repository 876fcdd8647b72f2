---------------------------- MODULE MCBroadcast ----------------------------
(***************************************************************************)
(* The configuration of Broadcast: a party at dinner, or one that has paid *)
(* and a second one may follow, whose devices and kitchen know of it.      *)
(***************************************************************************)
EXTENDS Broadcast, MCMenuler

PartyNews == [g |-> g1, cart |-> group[g1].cart, guests |-> {c1, c2}]

AllTold ==
  /\ \/ AtDinner /\ board = {g1}
     \/ AtPaid /\ board = {}
  /\ createAt = [g \in Groups |-> IF g = g1 THEN 1 ELSE 0]
  /\ listing = [h \in Handlers |-> NoListing]
  /\ held  = [h \in Handlers |-> NoNews]
  /\ late  = {}
  /\ shown = [s \in Sockets |-> IF s \in {s1, s2} THEN PartyNews ELSE NoNews]

\* One message at a time: the next one arrives, or the server is restarted, when
\* everything before was done.  The second handler runs what nobody awaits.
OneMessage ==
  \/ Settled /\ BroadcastNext
  \/ \E h \in Handlers : (Continue(h) /\ Tell) \/ ReadOrders(h) \/ EmitOrders(h)
  \/ SendLate

PartySpec == AllTold /\ [][OneMessage]_<<vars, devices>>
=============================================================================
