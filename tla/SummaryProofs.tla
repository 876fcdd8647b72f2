--------------------------- MODULE SummaryProofs ---------------------------
(***************************************************************************)
(* The summary of a restaurant adds up and names the best sellers, for any *)
(* menu, any number of orders and any period.                              *)
(***************************************************************************)
EXTENDS Summary, FiniteSetTheorems, WellFoundedInduction, TLAPS

----------------------------------------------------------------------------
\* Sums over finite sets.  Inductions are on the size of a set, written as the
\* impossibility of a least counterexample.

\* The order of the natural numbers is well-founded, in the form used below.
LEMMA LeastNatural ==
  ASSUME NEW S \in SUBSET Nat, S # {}
  PROVE  \E m \in S : \A n \in S : m <= n
<1>1. PICK m \in S : \A n \in S : ~(<<n, m>> \in OpToRel(<, Nat))
  BY NatLessThanWellFounded, WFMin, Zenon
<1>2. \A n \in S : (<<n, m>> \in OpToRel(<, Nat)) <=> n < m
  BY DEF OpToRel
<1>3. \A n \in S : ~(n < m)
  BY <1>1, <1>2, Zenon
<1> QED
  BY <1>3

\* A set of finite sets, if not empty, has a smallest one.
LEMMA SmallestSet ==
  ASSUME NEW B, B # {}, \A S \in B : IsFiniteSet(S)
  PROVE  \E S \in B : \A T \in B : ~(Cardinality(T) < Cardinality(S))
<1> DEFINE sizes == {Cardinality(S) : S \in B}
<1>1. sizes \in SUBSET Nat /\ sizes # {}
  BY FS_CardinalityType
<1>2. PICK n \in sizes : \A k \in sizes : n <= k
  BY <1>1, LeastNatural
<1>3. PICK S \in B : n = Cardinality(S)
  OBVIOUS
<1>4. ASSUME NEW T \in B
      PROVE  ~(Cardinality(T) < Cardinality(S))
  <2>1. Cardinality(T) \in Nat /\ Cardinality(S) \in Nat
    BY FS_CardinalityType
  <2> QED
    BY <1>2, <1>3, <2>1
<1> QED
  BY <1>4

\* One element fewer is a smaller set.
LEMMA SmallerSet ==
  ASSUME NEW S, IsFiniteSet(S), NEW x \in S
  PROVE  /\ IsFiniteSet(S \ {x})
         /\ Cardinality(S \ {x}) < Cardinality(S)
         /\ Cardinality(S) = Cardinality(S \ {x}) + 1
<1>1. Cardinality(S) \in Nat
  BY FS_CardinalityType
<1>2. IsFiniteSet(S \ {x}) /\ Cardinality(S \ {x}) = Cardinality(S) - 1
  BY FS_RemoveElement
<1> QED
  BY <1>1, <1>2

\* The function that SumFunctionOnSet recurses on, for the subsets of S.
Pick(T) == CHOOSE x \in T : TRUE
Sums(g, f, S) ==
  g = [T \in SUBSET S |->
         IF T = {} THEN 0 ELSE f[Pick(T)] + g[T \ {Pick(T)}]]

\* A set that is not empty has the element picked.
LEMMA PickIn ==
  ASSUME NEW T, T # {}
  PROVE  Pick(T) \in T
BY DEF Pick

\* SumFunctionOnSet is such a function at the set itself.
LEMMA SumIs ==
  ASSUME NEW f, NEW S
  PROVE  SumFunctionOnSet(f, S) = (CHOOSE g : Sums(g, f, S))[S]
BY Zenon
   DEF SumFunctionOnSet, FoldFunctionOnSet, MapThenFoldSet, Pick, Sums

\* Its equation at one set.
LEMMA SumsAt ==
  ASSUME NEW g, NEW f, NEW S, Sums(g, f, S), NEW T \in SUBSET S
  PROVE  g[T] = IF T = {} THEN 0 ELSE f[Pick(T)] + g[T \ {Pick(T)}]
BY DEF Sums

\* The equation determines it.
LEMMA SumsUnique ==
  ASSUME NEW f, NEW S, NEW T, NEW g, NEW h, Sums(g, f, S), Sums(h, f, T),
         NEW U, U \subseteq S, U \subseteq T, IsFiniteSet(U)
  PROVE  g[U] = h[U]
<1> DEFINE B == {V \in SUBSET U : g[V] # h[V]}
<1>1. SUFFICES ASSUME B # {}
               PROVE  FALSE
  OBVIOUS
<1>2. \A V \in SUBSET U : IsFiniteSet(V)
  BY FS_Subset
<1>3. PICK V \in B : \A W \in B : ~(Cardinality(W) < Cardinality(V))
  BY <1>1, <1>2, SmallestSet
<1>4. /\ g[V] = IF V = {} THEN 0 ELSE f[Pick(V)] + g[V \ {Pick(V)}]
      /\ h[V] = IF V = {} THEN 0 ELSE f[Pick(V)] + h[V \ {Pick(V)}]
  BY SumsAt
<1>5. V # {} /\ g[V \ {Pick(V)}] # h[V \ {Pick(V)}]
  BY <1>4
<1>6. V \ {Pick(V)} \in B
  BY <1>5
<1> QED
  BY <1>2, <1>3, <1>5, <1>6, PickIn, SmallerSet

\* And there is one for every finite set.
LEMMA SumsExist ==
  ASSUME NEW f, NEW S, IsFiniteSet(S)
  PROVE  \E g : Sums(g, f, S)
<1> DEFINE H(U) == (CHOOSE g : Sums(g, f, U))[U]
           B    == {T \in SUBSET S : ~\E g : Sums(g, f, T)}
<1>1. SUFFICES ASSUME B # {}
               PROVE  FALSE
  OBVIOUS
<1>2. \A T \in SUBSET S : IsFiniteSet(T)
  BY FS_Subset
<1>3. PICK T \in B : \A U \in B : ~(Cardinality(U) < Cardinality(T))
  BY <1>1, <1>2, SmallestSet
<1>4. ASSUME NEW x \in T, NEW U \in SUBSET (T \ {x})
      PROVE  Sums(CHOOSE g : Sums(g, f, U), f, U)
  <2>1. IsFiniteSet(T) /\ IsFiniteSet(T \ {x})
        /\ Cardinality(T \ {x}) < Cardinality(T)
        /\ Cardinality(T) \in Nat
    BY <1>2, SmallerSet, FS_CardinalityType
  <2>2. Cardinality(U) <= Cardinality(T \ {x}) /\ Cardinality(U) \in Nat
        /\ Cardinality(T \ {x}) \in Nat
    BY <2>1, FS_Subset, FS_CardinalityType
  <2>3. Cardinality(U) < Cardinality(T)
    BY <2>1, <2>2
  <2>4. U \notin B
    BY <1>3, <2>3
  <2>5. \E g : Sums(g, f, U)
    BY <2>4
  <2> QED
    BY <2>5
<1>5. ASSUME NEW x \in T, NEW U \in SUBSET (T \ {x})
      PROVE  H(U) = IF U = {} THEN 0 ELSE f[Pick(U)] + H(U \ {Pick(U)})
  <2> DEFINE g == CHOOSE g : Sums(g, f, U)
             V == U \ {Pick(U)}
             h == CHOOSE h : Sums(h, f, V)
  <2>1. Sums(g, f, U) /\ Sums(h, f, V)
    BY <1>4
  <2>2. IsFiniteSet(V)
    BY <1>2
  <2>3. g[V] = h[V]
    BY <2>1, <2>2, SumsUnique
  <2>4. g[U] = IF U = {} THEN 0 ELSE f[Pick(U)] + g[V]
    BY <2>1, SumsAt
  <2> QED
    BY <2>3, <2>4
<1> DEFINE K == [U \in SUBSET T |->
                   IF U = {} THEN 0 ELSE f[Pick(U)] + H(U \ {Pick(U)})]
<1>6. ASSUME NEW U \in SUBSET T, U # {}
      PROVE  K[U \ {Pick(U)}] = H(U \ {Pick(U)})
  <2>1. Pick(U) \in T /\ U \ {Pick(U)} \in SUBSET (T \ {Pick(U)})
    BY <1>6, PickIn
  <2> HIDE DEF H
  <2>2. H(U \ {Pick(U)})
          = IF U \ {Pick(U)} = {} THEN 0
            ELSE f[Pick(U \ {Pick(U)})]
                   + H((U \ {Pick(U)}) \ {Pick(U \ {Pick(U)})})
    BY <1>5, <2>1
  <2> QED
    BY <2>1, <2>2
<1> HIDE DEF H
<1>7. \A U \in SUBSET T :
        (IF U = {} THEN 0 ELSE f[Pick(U)] + H(U \ {Pick(U)}))
          = IF U = {} THEN 0 ELSE f[Pick(U)] + K[U \ {Pick(U)}]
  <2> HIDE DEF K
  <2> QED
    BY <1>6
<1>8. Sums(K, f, T)
  BY <1>7 DEF Sums
<1> QED
  BY <1>3, <1>8

\* A sum is nothing, or the element picked and the rest.
LEMMA SumEquation ==
  ASSUME NEW f, NEW S, IsFiniteSet(S)
  PROVE  SumFunctionOnSet(f, S)
           = IF S = {} THEN 0
             ELSE f[Pick(S)] + SumFunctionOnSet(f, S \ {Pick(S)})
<1> DEFINE V == S \ {Pick(S)}
           g == CHOOSE g : Sums(g, f, S)
           h == CHOOSE h : Sums(h, f, V)
<1>1. IsFiniteSet(V)
  BY FS_Subset
<1>2. Sums(g, f, S) /\ Sums(h, f, V)
  BY <1>1, SumsExist
<1>3. g[V] = h[V]
  BY <1>1, <1>2, SumsUnique
<1>4. SumFunctionOnSet(f, S) = g[S] /\ SumFunctionOnSet(f, V) = h[V]
  BY SumIs
<1>5. g[S] = IF S = {} THEN 0 ELSE f[Pick(S)] + g[V]
  BY <1>2, SumsAt
<1> QED
  BY <1>3, <1>4, <1>5

\* A sum of numbers is a number.
LEMMA SumType ==
  ASSUME NEW f, NEW S, IsFiniteSet(S), \A x \in S : f[x] \in Nat
  PROVE  SumFunctionOnSet(f, S) \in Nat
<1> DEFINE B == {T \in SUBSET S : SumFunctionOnSet(f, T) \notin Nat}
<1>1. SUFFICES ASSUME B # {}
               PROVE  FALSE
  OBVIOUS
<1>2. \A T \in SUBSET S : IsFiniteSet(T)
  BY FS_Subset
<1>3. PICK T \in B : \A U \in B : ~(Cardinality(U) < Cardinality(T))
  BY <1>1, <1>2, SmallestSet
<1>4. SumFunctionOnSet(f, T)
        = IF T = {} THEN 0
          ELSE f[Pick(T)] + SumFunctionOnSet(f, T \ {Pick(T)})
  BY <1>2, SumEquation
<1>5. T # {} /\ Pick(T) \in T
  BY <1>3, <1>4, PickIn
<1>6. T \ {Pick(T)} \notin B
  BY <1>2, <1>3, <1>5, SmallerSet
<1> QED
  BY <1>3, <1>4, <1>5, <1>6

\* Any element can be taken out of a sum first.
LEMMA SumWithout ==
  ASSUME NEW f, NEW S, IsFiniteSet(S), \A x \in S : f[x] \in Nat, NEW x \in S
  PROVE  SumFunctionOnSet(f, S) = f[x] + SumFunctionOnSet(f, S \ {x})
<1> DEFINE Sum(T) == SumFunctionOnSet(f, T)
           B == {T \in SUBSET S : \E y \in T : Sum(T) # f[y] + Sum(T \ {y})}
<1>1. SUFFICES ASSUME B # {}
               PROVE  FALSE
  OBVIOUS
<1>2. \A T \in SUBSET S : IsFiniteSet(T) /\ Sum(T) \in Nat
  BY FS_Subset, SumType
<1>3. PICK T \in B : \A U \in B : ~(Cardinality(U) < Cardinality(T))
  BY <1>1, <1>2, SmallestSet
<1>4. PICK y \in T : Sum(T) # f[y] + Sum(T \ {y})
  OBVIOUS
<1> DEFINE p == Pick(T)
<1>5. p \in T
  BY <1>4, PickIn
<1>6. Sum(T) = f[p] + Sum(T \ {p})
  BY <1>2, <1>5, SumEquation
<1>7. p # y
  BY <1>4, <1>6
<1>8. T \ {p} \notin B /\ T \ {y} \notin B
  BY <1>2, <1>3, <1>5, SmallerSet
<1> HIDE DEF Sum, p
<1>9. Sum(T \ {p}) = f[y] + Sum((T \ {p}) \ {y})
  BY <1>5, <1>7, <1>8
<1>10. Sum(T \ {y}) = f[p] + Sum((T \ {y}) \ {p})
  BY <1>5, <1>7, <1>8
<1>11. (T \ {p}) \ {y} = (T \ {y}) \ {p}
  OBVIOUS
<1>12. f[p] \in Nat /\ f[y] \in Nat /\ Sum((T \ {p}) \ {y}) \in Nat
  BY <1>2, <1>5
<1> QED
  BY <1>4, <1>6, <1>9, <1>10, <1>11, <1>12

\* Nothing adds up to nothing.
LEMMA SumEmpty ==
  ASSUME NEW f
  PROVE  SumFunctionOnSet(f, {}) = 0
BY SumEquation, FS_EmptySet

\* A sum is of the values on the set.
LEMMA SumSame ==
  ASSUME NEW f, NEW g, NEW S, IsFiniteSet(S),
         \A x \in S : f[x] \in Nat /\ f[x] = g[x]
  PROVE  SumFunctionOnSet(f, S) = SumFunctionOnSet(g, S)
<1> DEFINE B == {T \in SUBSET S :
                   SumFunctionOnSet(f, T) # SumFunctionOnSet(g, T)}
<1>1. SUFFICES ASSUME B # {}
               PROVE  FALSE
  OBVIOUS
<1>2. \A T \in SUBSET S : IsFiniteSet(T)
  BY FS_Subset
<1>3. PICK T \in B : \A U \in B : ~(Cardinality(U) < Cardinality(T))
  BY <1>1, <1>2, SmallestSet
<1>4. T # {}
  BY <1>3, SumEmpty
<1>5. PICK x \in T : TRUE
  BY <1>4
<1>6. T \ {x} \notin B
  BY <1>2, <1>3, SmallerSet
<1>7. SumFunctionOnSet(f, T \ {x}) = SumFunctionOnSet(g, T \ {x})
  BY <1>6
<1>8. /\ SumFunctionOnSet(f, T) = f[x] + SumFunctionOnSet(f, T \ {x})
      /\ SumFunctionOnSet(g, T) = g[x] + SumFunctionOnSet(g, T \ {x})
  BY <1>2, SumWithout
<1> QED
  BY <1>3, <1>7, <1>8

\* The sum of two functions.
LEMMA SumPlus ==
  ASSUME NEW f, NEW g, NEW h, NEW S, IsFiniteSet(S),
         \A x \in S : f[x] \in Nat /\ g[x] \in Nat /\ h[x] = f[x] + g[x]
  PROVE  SumFunctionOnSet(h, S)
           = SumFunctionOnSet(f, S) + SumFunctionOnSet(g, S)
<1> DEFINE B == {T \in SUBSET S :
                   SumFunctionOnSet(h, T)
                     # SumFunctionOnSet(f, T) + SumFunctionOnSet(g, T)}
<1>1. SUFFICES ASSUME B # {}
               PROVE  FALSE
  OBVIOUS
<1>2. \A T \in SUBSET S : IsFiniteSet(T)
  BY FS_Subset
<1>3. PICK T \in B : \A U \in B : ~(Cardinality(U) < Cardinality(T))
  BY <1>1, <1>2, SmallestSet
<1>4. T # {}
  BY <1>3, SumEmpty
<1>5. PICK x \in T : TRUE
  BY <1>4
<1> DEFINE V == T \ {x}
<1>6. V \notin B
  BY <1>2, <1>3, SmallerSet
<1>7. SumFunctionOnSet(h, V)
        = SumFunctionOnSet(f, V) + SumFunctionOnSet(g, V)
  BY <1>6
<1>8. /\ SumFunctionOnSet(f, T) = f[x] + SumFunctionOnSet(f, V)
      /\ SumFunctionOnSet(g, T) = g[x] + SumFunctionOnSet(g, V)
      /\ SumFunctionOnSet(h, T) = h[x] + SumFunctionOnSet(h, V)
  BY <1>2, SumWithout
<1>9. /\ SumFunctionOnSet(f, V) \in Nat
      /\ SumFunctionOnSet(g, V) \in Nat
  BY <1>2, SumType
<1>10. f[x] \in Nat /\ g[x] \in Nat /\ h[x] = f[x] + g[x]
  OBVIOUS
<1> HIDE DEF V
<1> QED
  BY <1>3, <1>7, <1>8, <1>9, <1>10

\* The sum of a constant.
LEMMA SumConstant ==
  ASSUME NEW c \in Nat, NEW f, NEW S, IsFiniteSet(S), \A x \in S : f[x] = c
  PROVE  SumFunctionOnSet(f, S) = Cardinality(S) * c
<1> DEFINE B == {T \in SUBSET S :
                   SumFunctionOnSet(f, T) # Cardinality(T) * c}
<1>1. SUFFICES ASSUME B # {}
               PROVE  FALSE
  OBVIOUS
<1>2. \A T \in SUBSET S : IsFiniteSet(T)
  BY FS_Subset
<1>3. PICK T \in B : \A U \in B : ~(Cardinality(U) < Cardinality(T))
  BY <1>1, <1>2, SmallestSet
<1>4. T # {}
  BY <1>3, SumEmpty, FS_EmptySet
<1>5. PICK x \in T : TRUE
  BY <1>4
<1>6. T \ {x} \notin B
  BY <1>2, <1>3, SmallerSet
<1>7. SumFunctionOnSet(f, T \ {x}) = Cardinality(T \ {x}) * c
  BY <1>6
<1>8. SumFunctionOnSet(f, T) = c + SumFunctionOnSet(f, T \ {x})
  BY <1>2, SumWithout
<1>9. Cardinality(T) = Cardinality(T \ {x}) + 1
      /\ Cardinality(T \ {x}) \in Nat
  BY <1>2, SmallerSet, FS_CardinalityType
<1>10. \A n \in Nat : (n + 1) * c = c + n * c
  OBVIOUS
<1> QED
  BY <1>3, <1>7, <1>8, <1>9, <1>10

\* A sum can be taken group by group.
LEMMA SumGroups ==
  ASSUME NEW f, NEW key, NEW S, IsFiniteSet(S), NEW N, IsFiniteSet(N),
         \A x \in S : f[x] \in Nat /\ key[x] \in N
  PROVE  SumFunctionOnSet(f, S)
           = SumFunctionOnSet(
               [m \in N |-> SumFunctionOnSet(f, {x \in S : key[x] = m})], N)
<1> DEFINE Group(T, m) == {x \in T : key[x] = m}
           G(T) == [m \in N |-> SumFunctionOnSet(f, Group(T, m))]
           B == {T \in SUBSET S : SumFunctionOnSet(f, T)
                                    # SumFunctionOnSet(G(T), N)}
<1>1. SUFFICES ASSUME B # {}
               PROVE  FALSE
  OBVIOUS
<1>2. \A T \in SUBSET S : IsFiniteSet(T)
  BY FS_Subset
<1>3. PICK T \in B : \A U \in B : ~(Cardinality(U) < Cardinality(T))
  BY <1>1, <1>2, SmallestSet
<1>4. T # {}
  <2>1. ASSUME T = {}
        PROVE  FALSE
    <3>1. \A m \in N : G(T)[m] = 0
      <4>1. \A m \in N : Group(T, m) = {}
        BY <2>1
      <4> QED
        BY <4>1, SumEmpty
    <3>2. SumFunctionOnSet(G(T), N) = Cardinality(N) * 0
      BY <3>1, SumConstant, Zenon
    <3>3. SumFunctionOnSet(f, T) = 0
      BY <2>1, SumEmpty
    <3> QED
      BY <1>3, <3>2, <3>3, FS_CardinalityType
  <2> QED
    BY <2>1
<1>5. PICK x \in T : TRUE
  BY <1>4
<1> DEFINE V == T \ {x}
           k == key[x]
<1>6. V \notin B /\ k \in N
  BY <1>2, <1>3, SmallerSet
<1>7. SumFunctionOnSet(f, V) = SumFunctionOnSet(G(V), N)
  BY <1>6
<1>8. SumFunctionOnSet(f, T) = f[x] + SumFunctionOnSet(f, V)
  BY <1>2, SumWithout
<1>9. ASSUME NEW U \in SUBSET S, NEW m \in N
      PROVE  G(U)[m] \in Nat
  <2>1. IsFiniteSet(Group(U, m)) /\ \A y \in Group(U, m) : f[y] \in Nat
    BY <1>2
  <2> QED
    BY <2>1, SumType
<1>10. G(T)[k] = f[x] + G(V)[k]
  <2>1. Group(T, k) \ {x} = Group(V, k) /\ x \in Group(T, k)
    OBVIOUS
  <2>2. IsFiniteSet(Group(T, k)) /\ \A y \in Group(T, k) : f[y] \in Nat
    BY <1>2
  <2>3. SumFunctionOnSet(f, Group(T, k))
          = f[x] + SumFunctionOnSet(f, Group(T, k) \ {x})
    BY <2>1, <2>2, SumWithout
  <2> QED
    BY <1>6, <2>1, <2>3
<1>11. \A m \in N \ {k} : G(T)[m] = G(V)[m]
  <2>1. \A m \in N \ {k} : Group(T, m) = Group(V, m)
    OBVIOUS
  <2> QED
    BY <2>1
<1>12. T \in SUBSET S /\ V \in SUBSET S
  OBVIOUS
<1>13. IsFiniteSet(N \ {k})
  BY FS_RemoveElement
<1> HIDE DEF G, V, k
<1>14. SumFunctionOnSet(G(T), N \ {k}) = SumFunctionOnSet(G(V), N \ {k})
  BY <1>9, <1>11, <1>12, <1>13, SumSame
<1>15. /\ SumFunctionOnSet(G(T), N)
            = G(T)[k] + SumFunctionOnSet(G(T), N \ {k})
       /\ SumFunctionOnSet(G(V), N)
            = G(V)[k] + SumFunctionOnSet(G(V), N \ {k})
  BY <1>6, <1>9, <1>12, SumWithout
<1>16. SumFunctionOnSet(G(V), N \ {k}) \in Nat
  BY <1>9, <1>12, <1>13, SumType
<1>17. f[x] \in Nat /\ G(V)[k] \in Nat
  BY <1>6, <1>9, <1>12
<1>18. SumFunctionOnSet(f, T) = SumFunctionOnSet(G(T), N)
  BY <1>7, <1>8, <1>10, <1>14, <1>15, <1>16, <1>17
<1> QED
  BY <1>3, <1>18

----------------------------------------------------------------------------
\* The rows.

\* The type of the rows that make up orders.
LEMMA TypesKept == TypeOK /\ [Next]_vars => TypeOK'
<1> SUFFICES ASSUME TypeOK, [Next]_vars
             PROVE  TypeOK'
  OBVIOUS
<1> USE DEF TypeOK
<1>1. \A i \in DOMAIN orders : orders[i] \in Order
  OBVIOUS
<1>2. ASSUME NEW i \in DOMAIN orders, NEW o \in Order
      PROVE  [orders EXCEPT ![i] = o] \in Seq(Order)
  OBVIOUS
<1>3. \A m \in Menus, selected \in Selections : NewFood(m, selected) \in Food
  BY DEF NewFood, Food
<1>4. CASE CreateOrder
  <2>1. PICK d \in Days, m \in Menus, selected \in Selections :
          orders' = Append(orders, [day |-> d, paid |-> FALSE,
                                    foods |-> <<NewFood(m, selected)>>])
    BY <1>4 DEF CreateOrder
  <2>2. [day |-> d, paid |-> FALSE, foods |-> <<NewFood(m, selected)>>]
          \in Order
    BY <1>3 DEF Order
  <2> QED
    BY <1>4, <2>1, <2>2 DEF CreateOrder
<1>5. CASE UpdateOrder
  <2>1. PICK i \in DOMAIN orders, m \in Menus, selected \in Selections :
          orders' = [orders EXCEPT ![i].foods =
                       Append(@, NewFood(m, selected))]
    BY <1>5 DEF UpdateOrder
  <2>2. orders[i].foods \in Seq(Food) /\ NewFood(m, selected) \in Food
    BY <1>1, <1>3 DEF Order
  <2>3. Append(orders[i].foods, NewFood(m, selected)) \in Seq(Food)
    BY <2>2
  <2>4. [orders[i] EXCEPT !.foods = Append(@, NewFood(m, selected))] \in Order
    BY <1>1, <2>3 DEF Order
  <2> QED
    BY <1>2, <1>5, <2>1, <2>4 DEF UpdateOrder
<1>6. CASE CancelFood
  <2>0. PICK i \in DOMAIN orders :
          \E j \in DOMAIN orders[i].foods :
            orders' = [orders EXCEPT ![i].foods[j].cancelled = TRUE]
    BY <1>6 DEF CancelFood
  <2>1. PICK j \in DOMAIN orders[i].foods :
          orders' = [orders EXCEPT ![i].foods[j].cancelled = TRUE]
    BY <2>0
  <2> DEFINE foods == orders[i].foods
             food  == [foods[j] EXCEPT !.cancelled = TRUE]
  <2>2. foods \in Seq(Food) /\ foods[j] \in Food
    BY <1>1 DEF Order
  <2>3. food \in Food
    BY <2>2 DEF Food
  <2>4. [foods EXCEPT ![j] = food] \in Seq(Food)
    BY <2>2, <2>3
  <2>5. [orders[i] EXCEPT !.foods = [foods EXCEPT ![j] = food]] \in Order
    BY <1>1, <2>4 DEF Order
  <2>6. orders' = [orders EXCEPT ![i] =
                     [orders[i] EXCEPT !.foods = [foods EXCEPT ![j] = food]]]
    BY <2>1
  <2> QED
    BY <1>2, <1>6, <2>5, <2>6 DEF CancelFood
<1>7. CASE PayOrder
  <2>1. PICK i \in DOMAIN orders :
          orders' = [orders EXCEPT ![i].paid = TRUE]
    BY <1>7 DEF PayOrder
  <2>2. [orders[i] EXCEPT !.paid = TRUE] \in Order
    BY <1>1 DEF Order
  <2> QED
    BY <1>2, <1>7, <2>1, <2>2 DEF PayOrder
<1>8. CASE DeleteOption
  BY <1>8 DEF DeleteOption
<1>9. CASE UNCHANGED vars
  BY <1>9 DEF vars
<1> QED
  BY <1>4, <1>5, <1>6, <1>7, <1>8, <1>9 DEF Next

\* Orders, their foods and the options offered have the types of the schema,
\* whatever is ordered, cancelled, paid and deleted.
THEOREM SummaryTypes == Spec => []TypeOK
<1>1. Init => TypeOK
  BY DEF Init, TypeOK
<1> QED
  BY <1>1, TypesKept, PTL DEF Spec

\* The places of the foods are finitely many, and at each there is a food.
LEMMA PositionsFit ==
  ASSUME TypeOK
  PROVE  /\ IsFiniteSet(Positions)
         /\ \A p \in Positions : /\ p = <<p[1], p[2]>>
                                 /\ p[1] \in Nat /\ p[2] \in Nat
                                 /\ FoodAt(p) \in Food
<1> DEFINE places == [i \in DOMAIN orders |-> {i} \X DOMAIN orders[i].foods]
           P == {{i} \X DOMAIN orders[i].foods : i \in DOMAIN orders}
<1>1. \A i \in DOMAIN orders : orders[i].foods \in Seq(Food)
  <2>1. \A i \in DOMAIN orders : orders[i] \in Order
    BY DEF TypeOK
  <2> QED
    BY <2>1 DEF Order
<1>2. IsFiniteSet(DOMAIN orders)
        /\ \A i \in DOMAIN orders : IsFiniteSet(DOMAIN orders[i].foods)
  <2>1. \A s : \A S : s \in Seq(S) => DOMAIN s = 1..Len(s) /\ Len(s) \in Nat
    OBVIOUS
  <2>2. \A n \in Nat : IsFiniteSet(1..n)
    BY FS_Interval
  <2> QED
    BY <1>1, <2>1, <2>2 DEF TypeOK
<1>3. IsFiniteSet(P)
  <2>1. places \in Surjection(DOMAIN orders, P)
    BY DEF Surjection
  <2> QED
    BY <1>2, <2>1, FS_Surjection
<1>4. \A T \in P : IsFiniteSet(T)
  <2>1. \A i \in DOMAIN orders : IsFiniteSet({i})
    BY FS_Singleton
  <2>2. \A i \in DOMAIN orders : IsFiniteSet({i} \X DOMAIN orders[i].foods)
    BY <1>2, <2>1, FS_Product
  <2> QED
    BY <2>2
<1>5. IsFiniteSet(Positions)
  BY <1>3, <1>4, FS_UNION DEF Positions
<1>6. ASSUME NEW p \in Positions
      PROVE  /\ p = <<p[1], p[2]>>
             /\ p[1] \in Nat /\ p[2] \in Nat
             /\ FoodAt(p) \in Food
  <2>1. PICK i \in DOMAIN orders : p \in {i} \X DOMAIN orders[i].foods
    BY DEF Positions
  <2>2. p = <<p[1], p[2]>> /\ p[1] = i /\ p[2] \in DOMAIN orders[i].foods
    BY <2>1
  <2> QED
    BY <1>1, <2>2 DEF FoodAt, TypeOK
<1> QED
  BY <1>5, <1>6

\* The foods of a period are among the places.
LEMMA FoodsFit ==
  ASSUME NEW lo, NEW hi
  PROVE  Foods(lo, hi) \subseteq Positions
BY DEF Foods

\* The menus of some foods are finitely many menus.
LEMMA NamesFit ==
  ASSUME TypeOK, NEW foods \in SUBSET Positions
  PROVE  IsFiniteSet(foods) /\ IsFiniteSet(Names(foods))
           /\ Names(foods) \subseteq Menus
<1> DEFINE menu == [p \in foods |-> FoodAt(p).menu]
<1>1. IsFiniteSet(foods)
  BY PositionsFit, FS_Subset
<1>2. menu \in Surjection(foods, Names(foods))
  BY DEF Names, Surjection
<1>3. \A p \in foods : FoodAt(p).menu \in Menus
  BY PositionsFit DEF Food
<1> QED
  BY <1>1, <1>2, <1>3, FS_Surjection DEF Names

\* Two places are one, or one of them is earlier.
LEMMA EarlierTotal ==
  ASSUME TypeOK, NEW p \in Positions, NEW q \in Positions
  PROVE  p = q \/ Earlier(p, q) \/ Earlier(q, p)
BY PositionsFit DEF Earlier

\* A place is not earlier than itself, and what is earlier than an earlier one is
\* earlier.
LEMMA EarlierStrict ==
  ASSUME TypeOK, NEW p \in Positions, NEW q \in Positions,
         NEW r \in Positions
  PROVE  ~Earlier(p, p) /\ (Earlier(p, q) /\ Earlier(q, r) => Earlier(p, r))
BY PositionsFit DEF Earlier

\* A menu that was sold was sold first at one place.
LEMMA FirstSaleFit ==
  ASSUME TypeOK, NEW foods \in SUBSET Positions, NEW m \in Names(foods)
  PROVE  FirstSale(foods, m) \in Sold(foods, m)
<1> DEFINE S == Sold(foods, m)
           firsts == {p[1] : p \in S}
<1>1. \A p \in S : p = <<p[1], p[2]>> /\ p[1] \in Nat /\ p[2] \in Nat
  BY PositionsFit DEF Sold
<1>2. S # {}
  BY DEF Sold, Names
<1>3. PICK i \in firsts : \A j \in firsts : i <= j
  BY <1>1, <1>2, LeastNatural
<1> DEFINE seconds == {p[2] : p \in {q \in S : q[1] = i}}
<1>4. seconds \in SUBSET Nat /\ seconds # {}
  BY <1>1, <1>3
<1>5. PICK j \in seconds : \A k \in seconds : j <= k
  BY <1>4, LeastNatural
<1>6. PICK p \in S : p[1] = i /\ p[2] = j
  OBVIOUS
<1>7. ASSUME NEW q \in S, Earlier(q, p)
      PROVE  FALSE
  <2>1. i <= q[1] /\ i \in Nat /\ j \in Nat /\ q[1] \in Nat /\ q[2] \in Nat
    BY <1>1, <1>3, <1>6
  <2>2. q[1] = i => j <= q[2]
    BY <1>5
  <2> QED
    BY <1>6, <1>7, <2>1, <2>2 DEF Earlier
<1> QED
  BY <1>7 DEF FirstSale

\* What the options of its first sale add to the income of a menu is a number.
LEMMA ExtraType ==
  ASSUME TypeOK, NEW foods \in SUBSET Positions, NEW m \in Names(foods)
  PROVE  Extra(foods, m) \in Nat
<1> DEFINE selected == FirstOptions(foods, m)
<1>1. FirstSale(foods, m) \in Positions
  BY FirstSaleFit DEF Sold
<1>2. selected \in Selections
  BY <1>1, PositionsFit DEF FirstOptions, Food
<1>3. selected \in Seq(Options)
  BY <1>2, MenuAssumption
<1>4. selected # <<>> => Last(selected) \in Options
  BY <1>3 DEF Last
<1> QED
  BY <1>4, MenuAssumption DEF Extra

\* The two ways to add up some foods agree.
LEMMA TotalsMatch ==
  ASSUME TypeOK, NEW foods \in SUBSET Positions
  PROVE  /\ TotalSales(foods)
              = SumFunction([m \in Names(foods) |-> Income(foods, m)])
         /\ Cardinality(foods)
              = SumFunction([m \in Names(foods) |-> Sales(foods, m)])
<1> DEFINE N      == Names(foods)
           menu   == [p \in foods |-> FoodAt(p).menu]
           price  == [p \in foods |-> Price[FoodAt(p).menu]]
           one    == [p \in foods |-> 1]
           Group(m) == {p \in foods : menu[p] = m}
           extra  == [m \in N |-> Extra(foods, m)]
           income == [m \in N |-> Income(foods, m)]
           sales  == [m \in N |-> Sales(foods, m)]
           prices == [m \in N |-> SumFunctionOnSet(price, Group(m))]
           ones   == [m \in N |-> SumFunctionOnSet(one, Group(m))]
<1>1. IsFiniteSet(foods) /\ IsFiniteSet(N) /\ N \subseteq Menus
  BY NamesFit
<1>2. \A m \in Menus : Price[m] \in Nat
  BY MenuAssumption
<1>3. \A p \in foods : /\ menu[p] \in N
                       /\ price[p] = Price[menu[p]] /\ price[p] \in Nat
                       /\ one[p] \in Nat
  BY <1>1, <1>2 DEF Names
<1>4. SumFunctionOnSet(price, foods) = SumFunctionOnSet(prices, N)
  <2> HIDE DEF price, menu, N
  <2> QED
    BY <1>1, <1>3, SumGroups
<1>5. SumFunctionOnSet(one, foods) = SumFunctionOnSet(ones, N)
  <2> HIDE DEF one, menu, N
  <2> QED
    BY <1>1, <1>3, SumGroups
<1>6. ASSUME NEW m \in N
      PROVE  /\ prices[m] = Sales(foods, m) * Price[m]
             /\ ones[m] = Sales(foods, m)
             /\ Sales(foods, m) \in Nat
  <2>1. Group(m) = Sold(foods, m) /\ IsFiniteSet(Group(m))
    BY <1>1, FS_Subset DEF Sold
  <2>2. Sales(foods, m) = Cardinality(Group(m)) /\ Sales(foods, m) \in Nat
    BY <2>1, FS_CardinalityType DEF Sales
  <2>3. Price[m] \in Nat /\ \A p \in Group(m) : price[p] = Price[m]
    BY <1>1, <1>2, <1>3
  <2>4. SumFunctionOnSet(price, Group(m)) = Cardinality(Group(m)) * Price[m]
    <3> HIDE DEF price, Group
    <3> QED
      BY <2>1, <2>3, SumConstant
  <2>5. SumFunctionOnSet(one, Group(m)) = Cardinality(Group(m)) * 1
    <3>1. \A p \in Group(m) : one[p] = 1
      OBVIOUS
    <3> HIDE DEF one, Group
    <3> QED
      BY <2>1, <3>1, SumConstant
  <2> QED
    BY <2>2, <2>4, <2>5
<1>7. ASSUME NEW m \in N
      PROVE  /\ prices[m] \in Nat /\ extra[m] \in Nat
             /\ income[m] = prices[m] + extra[m]
  <2>1. \A a, b \in Nat : a * b \in Nat
    OBVIOUS
  <2>2. prices[m] \in Nat
    BY <1>1, <1>2, <1>6, <2>1
  <2> QED
    BY <1>6, <2>2, ExtraType DEF Income
<1>8. SumFunctionOnSet(income, N)
        = SumFunctionOnSet(prices, N) + SumFunctionOnSet(extra, N)
  <2> HIDE DEF income, prices, extra, N
  <2> QED
    BY <1>1, <1>7, SumPlus
<1>9. SumFunctionOnSet(ones, N) = SumFunctionOnSet(sales, N)
  <2>1. \A m \in N : ones[m] \in Nat /\ ones[m] = sales[m]
    BY <1>6
  <2> HIDE DEF ones, sales, N
  <2> QED
    BY <1>1, <2>1, SumSame
<1>10. SumFunctionOnSet(one, foods) = Cardinality(foods)
  <2>1. \A p \in foods : one[p] = 1
    OBVIOUS
  <2>2. SumFunctionOnSet(one, foods) = Cardinality(foods) * 1
    <3> HIDE DEF one
    <3> QED
      BY <1>1, <2>1, SumConstant
  <2> QED
    BY <1>1, <2>2, FS_CardinalityType
<1>11. /\ SumFunction(price) = SumFunctionOnSet(price, foods)
       /\ SumFunction(extra) = SumFunctionOnSet(extra, N)
       /\ SumFunction(income) = SumFunctionOnSet(income, N)
       /\ SumFunction(sales) = SumFunctionOnSet(sales, N)
  BY DEF SumFunction
<1> HIDE DEF price, extra, income, sales, prices, ones, one
<1>12. SumFunction(price) + SumFunction(extra) = SumFunction(income)
  BY <1>4, <1>8, <1>11
<1>13. Cardinality(foods) = SumFunction(sales)
  BY <1>5, <1>9, <1>10, <1>11
<1> QED
  BY <1>12, <1>13 DEF TotalSales, price, extra, income, sales

\* The total, computed over foods, is the sum of the leader board, computed over
\* menus, and no food is left out of it or counted twice, for any menu, any
\* orders and any period (getRestaurantSummary).
THEOREM TotalsAlwaysAgree == Spec => []TotalsAgree
<1>1. TypeOK => TotalsAgree
  BY TotalsMatch, FoodsFit DEF TotalsAgree
<1> QED
  BY <1>1, SummaryTypes, PTL

----------------------------------------------------------------------------
\* The leader board.

\* Elements of a finite set that a strict total order compares can be listed in
\* that order: each comes after as many as there are below it.
LEMMA SortedExists ==
  ASSUME NEW N, IsFiniteSet(N), NEW R,
         \A m \in N : <<m, m>> \notin R,
         \A l, m, n \in N : <<l, m>> \in R /\ <<m, n>> \in R => <<l, n>> \in R,
         \A m, n \in N : m = n \/ <<m, n>> \in R \/ <<n, m>> \in R
  PROVE  \E board \in SetToSeqs(N) :
           \A i, j \in DOMAIN board : i < j => <<board[i], board[j]>> \in R
<1> DEFINE size     == Cardinality(N)
           Below(m) == {n \in N : <<n, m>> \in R}
           place    == [m \in N |-> Cardinality(Below(m)) + 1]
<1>1. size \in Nat
  BY FS_CardinalityType
<1>2. \A m \in N : IsFiniteSet(Below(m)) /\ Cardinality(Below(m)) \in Nat
  BY FS_Subset, FS_CardinalityType
<1>3. ASSUME NEW m \in N, NEW n \in N, <<m, n>> \in R
      PROVE  place[m] < place[n]
  <2>1. Below(m) \subseteq Below(n)
    BY <1>3
  <2>2. m \in Below(n) /\ m \notin Below(m)
    BY <1>3
  <2>3. /\ Cardinality(Below(m)) <= Cardinality(Below(n))
        /\ Cardinality(Below(m)) # Cardinality(Below(n))
    BY <1>2, <2>1, <2>2, FS_Subset
  <2>4. /\ place[m] = Cardinality(Below(m)) + 1
        /\ place[n] = Cardinality(Below(n)) + 1
    OBVIOUS
  <2>5. Cardinality(Below(m)) \in Nat /\ Cardinality(Below(n)) \in Nat
    BY <1>2
  <2> HIDE DEF place, Below
  <2> QED
    BY <2>3, <2>4, <2>5
<1>4. ASSUME NEW m \in N
      PROVE  place[m] \in 1..size
  <2>1. Below(m) \subseteq N /\ m \notin Below(m)
    OBVIOUS
  <2>2. /\ Cardinality(Below(m)) <= size
        /\ Cardinality(Below(m)) # size
    BY <2>1, FS_Subset
  <2> QED
    BY <1>1, <1>2, <2>2
<1>5. place \in Injection(N, 1..size)
  <2>1. ASSUME NEW m \in N, NEW n \in N, place[m] = place[n], m # n
        PROVE  FALSE
    <3>1. place[m] \in Nat /\ place[n] \in Nat
      BY <1>2
    <3>2. <<m, n>> \in R \/ <<n, m>> \in R
      BY <2>1
    <3> HIDE DEF place
    <3>3. place[m] < place[n] \/ place[n] < place[m]
      BY <1>3, <3>2
    <3> QED
      BY <2>1, <3>1, <3>3
  <2> QED
    BY <1>4, <2>1 DEF Injection, IsInjective
<1>6. place \in Surjection(N, 1..size)
  <2>1. IsFiniteSet(1..size) /\ Cardinality(1..size) = size
    BY <1>1, FS_Interval
  <2> QED
    BY <1>5, <2>1, FS_Injection
<1>7. \A i \in 1..size : \E m \in N : place[m] = i
  BY <1>6 DEF Surjection
<1> DEFINE board == [i \in 1..size |-> CHOOSE m \in N : place[m] = i]
<1> HIDE DEF place
<1>8. \A i \in 1..size : board[i] \in N /\ place[board[i]] = i
  BY <1>7
<1>9. board \in SetToSeqs(N)
  <2>1. board \in [1..size -> N]
    BY <1>8
  <2>2. \A i, j \in 1..size : i # j => board[i] # board[j]
    BY <1>8
  <2> QED
    BY <2>1, <2>2 DEF SetToSeqs
<1>10. ASSUME NEW i \in 1..size, NEW j \in 1..size, i < j
       PROVE  <<board[i], board[j]>> \in R
  <2>1. board[i] # board[j] /\ ~(place[board[j]] < place[board[i]])
    BY <1>1, <1>8, <1>10
  <2> QED
    BY <1>3, <1>8, <2>1
<1> QED
  BY <1>9, <1>10

\* Before orders the menus that were sold.
LEMMA BeforeOrders ==
  ASSUME TypeOK, NEW foods \in SUBSET Positions,
         NEW l \in Names(foods), NEW m \in Names(foods), NEW n \in Names(foods)
  PROVE  /\ ~Before(foods, m, m)
         /\ Before(foods, l, m) /\ Before(foods, m, n) => Before(foods, l, n)
         /\ m = n \/ Before(foods, m, n) \/ Before(foods, n, m)
<1>1. \A k \in Names(foods) : Sales(foods, k) \in Nat
  <2>1. \A k : Sold(foods, k) \subseteq foods
    BY DEF Sold
  <2> QED
    BY <2>1, NamesFit, FS_Subset, FS_CardinalityType DEF Sales
<1>2. \A k \in Names(foods) : /\ FirstSale(foods, k) \in Positions
                              /\ FoodAt(FirstSale(foods, k)).menu = k
  BY FirstSaleFit DEF Sold
<1>3. ~Earlier(FirstSale(foods, m), FirstSale(foods, m))
  BY <1>2, EarlierStrict
<1>4. /\ Earlier(FirstSale(foods, l), FirstSale(foods, m))
      /\ Earlier(FirstSale(foods, m), FirstSale(foods, n))
      => Earlier(FirstSale(foods, l), FirstSale(foods, n))
  BY <1>2, EarlierStrict
<1>5. \/ m = n
      \/ Earlier(FirstSale(foods, m), FirstSale(foods, n))
      \/ Earlier(FirstSale(foods, n), FirstSale(foods, m))
  BY <1>2, EarlierTotal
<1>6. /\ Sales(foods, l) \in Nat
      /\ Sales(foods, m) \in Nat
      /\ Sales(foods, n) \in Nat
  BY <1>1
<1> QED
  BY <1>3, <1>4, <1>5, <1>6 DEF Before

\* The leader board lists every menu that was sold once, in order.
LEMMA LeaderBoardFit ==
  ASSUME TypeOK, NEW foods \in SUBSET Positions
  PROVE  LET board == LeaderBoard(foods)
             size  == Cardinality(Names(foods))
         IN  /\ board \in Bijection(1..size, Names(foods))
             /\ Len(board) = size /\ size \in Nat
             /\ \A i, j \in 1..size : i < j => Before(foods, board[i], board[j])
<1> DEFINE N     == Names(foods)
           size  == Cardinality(N)
           board == LeaderBoard(foods)
           R     == {r \in N \X N : Before(foods, r[1], r[2])}
<1>1. IsFiniteSet(N) /\ size \in Nat
  BY NamesFit, FS_CardinalityType
<1>2. \A m, n \in N : <<m, n>> \in R <=> Before(foods, m, n)
  OBVIOUS
<1>3. /\ \A m \in N : <<m, m>> \notin R
      /\ \A l, m, n \in N : <<l, m>> \in R /\ <<m, n>> \in R => <<l, n>> \in R
      /\ \A m, n \in N : m = n \/ <<m, n>> \in R \/ <<n, m>> \in R
  BY <1>2, BeforeOrders
<1> HIDE DEF R
<1>4. \E b \in SetToSeqs(N) :
        \A i, j \in DOMAIN b : i < j => <<b[i], b[j]>> \in R
  BY <1>1, <1>3, SortedExists
<1>5. \A b \in SetToSeqs(N) :
        /\ b \in [1..size -> N]
        /\ \A i, j \in 1..size : i # j => b[i] # b[j]
  BY DEF SetToSeqs
<1>6. \E b \in SetToSeqs(N) :
        \A i, j \in DOMAIN b : i < j => Before(foods, b[i], b[j])
  BY <1>2, <1>4, <1>5
<1>7. /\ board \in SetToSeqs(N)
      /\ \A i, j \in DOMAIN board : i < j => Before(foods, board[i], board[j])
  BY <1>6 DEF LeaderBoard
<1> HIDE DEF board, N
<1>8. board \in [1..size -> N] /\ \A i, j \in 1..size : i # j => board[i] # board[j]
  BY <1>5, <1>7
<1>9. board \in Injection(1..size, N)
  BY <1>8 DEF Injection, IsInjective
<1>10. IsFiniteSet(1..size) /\ Cardinality(1..size) = size
  BY <1>1, FS_Interval
<1>11. board \in Surjection(1..size, N)
  BY <1>1, <1>9, <1>10, FS_Injection
<1>12. Len(board) = size
  BY <1>1, <1>8
<1> QED
  BY <1>1, <1>7, <1>8, <1>9, <1>11, <1>12 DEF Bijection, board, N

\* The smaller of two numbers.
LEMMA SmallerOfTwo ==
  ASSUME NEW a \in Nat, NEW b \in Nat
  PROVE  Min({a, b}) = IF b < a THEN b ELSE a
BY DEF Min

\* The first entries of the leader board sold most.
LEMMA TopIsBest ==
  ASSUME TypeOK, NEW foods \in SUBSET Positions
  PROVE  LET top == ToSet(TopTen(foods))
         IN  /\ Cardinality(top) = Min({TopSize, Cardinality(Names(foods))})
             /\ \A m \in top, n \in Names(foods) \ top :
                  Sales(foods, m) >= Sales(foods, n)
<1> DEFINE N     == Names(foods)
           size  == Cardinality(N)
           board == LeaderBoard(foods)
           last  == IF size < TopSize THEN size ELSE TopSize
           top   == ToSet(TopTen(foods))
<1>1. /\ board \in Bijection(1..size, N)
      /\ Len(board) = size /\ size \in Nat
      /\ \A i, j \in 1..size : i < j => Before(foods, board[i], board[j])
  BY LeaderBoardFit
<1>2. TopSize \in Nat /\ last \in Nat /\ last <= size
        /\ last = Min({TopSize, size})
  BY <1>1, MenuAssumption, SmallerOfTwo
<1>3. board \in [1..size -> N] /\ board \in Injection(1..size, N)
        /\ board \in Surjection(1..size, N)
  BY <1>1 DEF Bijection, Injection
<1> HIDE DEF board, size
<1>4. TopTen(foods) = SubSeq(board, 1, last)
  BY <1>1 DEF TopTen, board, size
<1>5. top = {board[i] : i \in 1..last}
  <2>1. board \in Seq(N)
    BY <1>1, <1>3
  <2>2. /\ DOMAIN SubSeq(board, 1, last) = 1..last
        /\ \A i \in 1..last : SubSeq(board, 1, last)[i] = board[i]
    BY <1>1, <1>2, <2>1
  <2> QED
    BY <1>4, <2>2 DEF ToSet
<1> HIDE DEF top, last
<1>6. Cardinality(top) = last
  <2> DEFINE first == [i \in 1..last |-> board[i]]
  <2>1. IsFiniteSet(1..last) /\ Cardinality(1..last) = last
    BY <1>2, FS_Interval
  <2>2. \A i \in 1..last : i \in 1..size
    BY <1>1, <1>2
  <2>3. \A i, j \in 1..last : first[i] = first[j] => i = j
    BY <1>3, <2>2 DEF Injection, IsInjective
  <2>4. first \in Injection(1..last, top) /\ first \in Surjection(1..last, top)
    BY <1>5, <2>3 DEF Injection, IsInjective, Surjection
  <2> QED
    BY <2>1, <2>4, FS_Surjection
<1>7. ASSUME NEW m \in top, NEW n \in N \ top
      PROVE  Sales(foods, m) >= Sales(foods, n)
  <2>1. PICK i \in 1..last : m = board[i]
    BY <1>5
  <2>2. PICK j \in 1..size : n = board[j]
    BY <1>3 DEF Surjection
  <2>3. j \notin 1..last
    BY <1>5, <2>2
  <2>4. i < j /\ i \in 1..size
    BY <1>1, <1>2, <2>3
  <2>5. Before(foods, m, n)
    BY <1>1, <2>1, <2>2, <2>4
  <2>6. Sales(foods, m) \in Nat /\ Sales(foods, n) \in Nat
    <3>1. \A k : Sold(foods, k) \subseteq foods
      BY DEF Sold
    <3> QED
      BY <3>1, NamesFit, FS_Subset, FS_CardinalityType DEF Sales
  <2> QED
    BY <2>5, <2>6 DEF Before
<1> QED
  BY <1>2, <1>6, <1>7 DEF top, size

\* No menu left out of topTen sold more than one in it, and topTen is as long as
\* it can be, for any menu, any orders and any period (getRestaurantSummary).
THEOREM BestAlwaysOnTop == Spec => []BestAreOnTop
<1>1. TypeOK => BestAreOnTop
  BY TopIsBest, FoodsFit, Zenon DEF BestAreOnTop
<1> QED
  BY <1>1, SummaryTypes, PTL
=============================================================================
