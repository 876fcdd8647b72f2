----------------------------- MODULE MCSummary -----------------------------
(***************************************************************************)
(* Constants of the configurations of Summary: three menus, two options.   *)
(***************************************************************************)
EXTENDS Summary, TLC

CONSTANTS m1, m2, m3, o1, o2

Prices       == m1 :> 10 @@ m2 :> 7 @@ m3 :> 4
OptionPrices == o1 :> 1 @@ o2 :> 2
Selected     == {<<>>, <<o1>>, <<o1, o2>>}
=============================================================================
