--------------------------- MODULE TableSessions ---------------------------
(***************************************************************************)
(* What the restaurant is promised about the sessions of its tables: a     *)
(* session is opened for one table and stays that table's; a table never   *)
(* has more than Limit sessions open that were not opened again; and only  *)
(* a waiter opens a closed session again.  With Limit = 1 and no such      *)
(* waiter it is mutual exclusion of the parties that use a table.          *)
(***************************************************************************)
EXTENDS Naturals, FiniteSets

CONSTANTS Tables, Sessions, Limit

VARIABLES
  open,     \* the sessions open at a table
  closed,   \* the sessions of a table that are over
  reopened  \* the sessions a waiter has opened again

vars == <<open, closed, reopened>>

Init ==
  /\ open = [t \in Tables |-> {}]
  /\ closed = [t \in Tables |-> {}]
  /\ reopened = {}

Open(t, s) ==
  /\ \A u \in Tables : s \notin open[u] \cup closed[u]
  /\ Cardinality(open[t] \ reopened) < Limit
  /\ open' = [open EXCEPT ![t] = @ \cup {s}]
  /\ UNCHANGED <<closed, reopened>>

Close(t, s) ==
  /\ s \in open[t]
  /\ open' = [open EXCEPT ![t] = @ \ {s}]
  /\ closed' = [closed EXCEPT ![t] = @ \cup {s}]
  /\ UNCHANGED reopened

Reopen(t, s) ==
  /\ s \in closed[t]
  /\ closed' = [closed EXCEPT ![t] = @ \ {s}]
  /\ open' = [open EXCEPT ![t] = @ \cup {s}]
  /\ reopened' = reopened \cup {s}

Next == \E t \in Tables, s \in Sessions :
          Open(t, s) \/ Close(t, s) \/ Reopen(t, s)

Spec == Init /\ [][Next]_vars
============================================================================
