---------------------------- MODULE MCRestaurant ----------------------------
(***************************************************************************)
(* Constants of the configuration of Restaurant.                           *)
(***************************************************************************)
EXTENDS Restaurant, TLC

\* Names are opaque and compared only; ids are not symmetric, for Pick chooses.
Sym == Permutations(Handlers) \cup Permutations(RestaurantNames)
         \cup Permutations(Emails) \cup Permutations(FoodNames)
=============================================================================
