------------------------------ MODULE Register ------------------------------
(***************************************************************************)
(* The promise of a find-then-create service with a unique index: a name   *)
(* has one holder, it is taken only while free, and any number of holders  *)
(* may give up theirs at once.                                             *)
(***************************************************************************)
CONSTANTS Holders, Names, Nobody

VARIABLE name   \* the name of a holder, or Nobody

Init == name = [h \in Holders |-> Nobody]

Free(n) == \A h \in Holders : name[h] # n

Take(h) ==
  \E n \in Names : Free(n) /\ name' = [name EXCEPT ![h] = n]

GiveUp(S) ==
  name' = [h \in Holders |-> IF h \in S THEN Nobody ELSE name[h]]

Next == (\E h \in Holders : Take(h)) \/ (\E S \in SUBSET Holders : GiveUp(S))

Spec == Init /\ [][Next]_name
=============================================================================
