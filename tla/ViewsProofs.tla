------------------------------ MODULE ViewsProofs ------------------------------
(***************************************************************************)
(* What the views may count, for any orders and payments.                  *)
(*                                                                         *)
(* The sums are folds over sets, and the proof is by induction over their  *)
(* data: a set of counterexamples has a least element.                     *)
(***************************************************************************)
EXTENDS Views, FiniteSetTheorems, WellFoundedInduction, TLAPS

-------------------------------------------------------------------------------
(* Least elements *)

(* A set of natural numbers has a least one. *)
LEMMA LeastNumber ==
  ASSUME NEW T, T \subseteq Nat, T # {}
  PROVE  \E m \in T : \A n \in T : m =< n
<1>1. PICK m \in T : \A n \in T : ~ (<<n, m>> \in OpToRel(<, Nat))
  BY NatLessThanWellFounded, WFMin
<1>2. \A n \in T : ~ (n < m)
  BY <1>1 DEF OpToRel
<1> QED
  BY <1>2

(* A set of parts of a finite set has a least one. *)
LEMMA LeastSet ==
  ASSUME NEW S, IsFiniteSet(S), NEW T, T \subseteq SUBSET S, T # {}
  PROVE  \E m \in T : \A n \in T : n \subseteq m => n = m
<1>1. T \subseteq FiniteSubsetsOf(S)
  BY FS_FiniteSubsetsOfFinite
<1>2. PICK m \in T : \A n \in T : ~ (<<n, m>> \in StrictSubsetOrdering(S))
  BY <1>1, FS_StrictSubsetOrderingWellFounded, WFMin
<1> QED
  BY <1>2 DEF StrictSubsetOrdering

(* The places of a log that satisfy a condition have a last one. *)
LEMMA LastPlace ==
  ASSUME NEW n \in Nat, NEW T, T \subseteq 1..n, T # {}
  PROVE  Max(T) \in T
<1>. DEFINE U == {n - i : i \in T}
<1>. \A i \in T : i \in Int /\ n - i \in Nat
  OBVIOUS
<1>. U \subseteq Nat /\ U # {}
  OBVIOUS
<1>1. PICK m \in U : \A k \in U : m =< k
  <2>. HIDE DEF U
  <2> QED
    BY LeastNumber
<1>2. PICK i \in T : m = n - i
  OBVIOUS
<1>3. \A k \in T : i >= k
  <2>1. \A k \in T : m =< n - k
    BY <1>1
  <2> QED
    BY <1>2, <2>1
<1> QED
  BY <1>3 DEF Max

-------------------------------------------------------------------------------
(* Sums over finite sets *)

Pick(s) == CHOOSE x \in s : TRUE

(* it holds the sum of f over each part of S. *)
Sums(f, S, it) ==
  it = [s \in SUBSET S |-> IF s = {} THEN 0 ELSE f[Pick(s)] + it[s \ {Pick(s)}]]

SumBy(f, S) == (CHOOSE it : Sums(f, S, it))[S]

(* The element that the fold picks is one of the set. *)
LEMMA PickIn == \A s : s # {} => Pick(s) \in s
BY DEF Pick

(* Two such functions agree where both are defined. *)
LEMMA SumsUnique ==
  ASSUME NEW f, NEW S, IsFiniteSet(S), NEW R \in SUBSET S, NEW a, NEW b,
         Sums(f, S, a), Sums(f, R, b)
  PROVE  \A s \in SUBSET R : a[s] = b[s]
<1>. DEFINE bad == {s \in SUBSET R : a[s] # b[s]}
<1>1. SUFFICES ASSUME bad # {} PROVE FALSE
  OBVIOUS
<1>2. bad \subseteq SUBSET S
  OBVIOUS
<1>3. PICK m \in bad : \A n \in bad : n \subseteq m => n = m
  <2>. HIDE DEF bad
  <2> QED
    BY <1>1, <1>2, LeastSet
<1>4. m \in SUBSET R /\ m \in SUBSET S
  OBVIOUS
<1>5. CASE m = {}
  BY <1>3, <1>4, <1>5 DEF Sums
<1>6. CASE m # {}
  <2>. DEFINE n == m \ {Pick(m)}
  <2>1. Pick(m) \in m
    BY <1>6, PickIn
  <2>2. n \subseteq m /\ n # m /\ n \in SUBSET R
    BY <1>4, <2>1
  <2>3. a[n] = b[n]
    BY <1>3, <2>2
  <2>4. a[m] = f[Pick(m)] + a[n] /\ b[m] = f[Pick(m)] + b[n]
    BY <1>4, <1>6 DEF Sums
  <2> QED
    BY <1>3, <2>3, <2>4
<1> QED
  BY <1>5, <1>6

(* There is such a function on every finite set. *)
LEMMA SumsExist ==
  ASSUME NEW f, NEW S, IsFiniteSet(S)
  PROVE  \E it : Sums(f, S, it)
<1>. DEFINE bad == {s \in SUBSET S : ~ \E it : Sums(f, s, it)}
<1>1. SUFFICES ASSUME bad # {} PROVE FALSE
  OBVIOUS
<1>2. PICK m \in bad : \A n \in bad : n \subseteq m => n = m
  <2>1. bad \subseteq SUBSET S
    OBVIOUS
  <2>. HIDE DEF bad
  <2> QED
    BY <1>1, <2>1, LeastSet
<1>. DEFINE part  == [s \in SUBSET m |-> CHOOSE it : Sums(f, s, it)]
            whole == [s \in SUBSET m |->
                        IF s = {} THEN 0
                        ELSE f[Pick(s)] + part[s \ {Pick(s)}][s \ {Pick(s)}]]
<1>3. ASSUME NEW s \in SUBSET m, s # m
      PROVE  Sums(f, s, part[s]) /\ IsFiniteSet(s)
  <2>1. s \in SUBSET S /\ s \notin bad
    BY <1>2, <1>3
  <2>2. \E it : Sums(f, s, it)
    BY <2>1
  <2>3. part[s] = CHOOSE it : Sums(f, s, it)
    OBVIOUS
  <2> QED
    BY <2>1, <2>2, <2>3, FS_Subset
<1>. HIDE DEF part
<1>4. ASSUME NEW s \in SUBSET m, s # m PROVE whole[s] = part[s][s]
  <2>1. CASE s = {}
    BY <1>3, <2>1 DEF Sums
  <2>2. CASE s # {}
    <3>. DEFINE t == s \ {Pick(s)}
    <3>1. t \in SUBSET s /\ t \in SUBSET m /\ t # m
      BY <1>4
    <3>2. part[s][s] = f[Pick(s)] + part[s][t]
      BY <1>3, <1>4, <2>2 DEF Sums
    <3>3. Sums(f, s, part[s]) /\ Sums(f, t, part[t]) /\ IsFiniteSet(s)
      BY <1>3, <1>4, <3>1
    <3>4. part[s][t] = part[t][t]
      <4>. DEFINE a == part[s]
                  b == part[t]
      <4>1. t \in SUBSET s /\ Sums(f, s, a) /\ Sums(f, t, b)
        BY <3>1, <3>3
      <4>. HIDE DEF t, a, b
      <4>2. \A u \in SUBSET t : a[u] = b[u]
        BY <4>1, <3>3, SumsUnique
      <4> QED
        BY <4>2 DEF a, b
    <3> QED
      BY <2>2, <3>2, <3>4
  <2> QED
    BY <2>1, <2>2
<1>5. ASSUME NEW s \in SUBSET m, s # {}
      PROVE  whole[s] = f[Pick(s)] + whole[s \ {Pick(s)}]
  <2>1. Pick(s) \in s
    BY <1>5, PickIn
  <2>2. s \ {Pick(s)} \in SUBSET m /\ s \ {Pick(s)} # m
    BY <2>1
  <2> QED
    BY <1>4, <1>5, <2>2
<1>6. Sums(f, m, whole)
  BY <1>5 DEF Sums
<1> QED
  BY <1>2, <1>6
(* The sum over no elements is zero, and any other is that of what is left *)
(* when the fold has picked an element, and that element.                  *)
LEMMA SumStep ==
  ASSUME NEW f, NEW S, IsFiniteSet(S)
  PROVE  /\ SumBy(f, {}) = 0
         /\ S # {} => SumBy(f, S) = f[Pick(S)] + SumBy(f, S \ {Pick(S)})
<1>. DEFINE none == CHOOSE it : Sums(f, {}, it)
            all  == CHOOSE it : Sums(f, S, it)
            T    == S \ {Pick(S)}
            rest == CHOOSE it : Sums(f, T, it)
<1>1. IsFiniteSet({}) /\ IsFiniteSet(T) /\ T \in SUBSET S
  BY FS_EmptySet, FS_Subset
<1>2. /\ \E it : Sums(f, {}, it)
      /\ \E it : Sums(f, S, it)
      /\ \E it : Sums(f, T, it)
  <2>. HIDE DEF T
  <2> QED
    BY <1>1, SumsExist
<1>3. Sums(f, {}, none) /\ Sums(f, S, all) /\ Sums(f, T, rest)
  BY <1>2
<1>4. SumBy(f, {}) = none[{}] /\ SumBy(f, S) = all[S] /\ SumBy(f, T) = rest[T]
  BY DEF SumBy
<1>. HIDE DEF none, all, rest
<1>5. none[{}] = 0
  BY <1>3 DEF Sums
<1>6. ASSUME S # {} PROVE all[S] = f[Pick(S)] + all[T]
  BY <1>3, <1>6 DEF Sums
<1>7. \A s \in SUBSET T : all[s] = rest[s]
  <2>1. T \in SUBSET S /\ Sums(f, S, all) /\ Sums(f, T, rest)
    BY <1>1, <1>3
  <2>. HIDE DEF T
  <2> QED
    BY <2>1, SumsUnique
<1> QED
  BY <1>4, <1>5, <1>6, <1>7

(* A sum of natural numbers is one. *)
LEMMA SumNat ==
  ASSUME NEW S, IsFiniteSet(S), NEW f \in [S -> Nat]
  PROVE  SumBy(f, S) \in Nat
<1>. DEFINE bad == {s \in SUBSET S : SumBy(f, s) \notin Nat}
<1>1. SUFFICES ASSUME bad # {} PROVE FALSE
  OBVIOUS
<1>2. PICK m \in bad : \A n \in bad : n \subseteq m => n = m
  <2>1. bad \subseteq SUBSET S
    OBVIOUS
  <2>. HIDE DEF bad
  <2> QED
    BY <1>1, <2>1, LeastSet
<1>3. m \in SUBSET S /\ IsFiniteSet(m) /\ SumBy(f, m) \notin Nat
  BY FS_Subset
<1>4. m # {}
  BY <1>3, SumStep
<1>5. Pick(m) \in m /\ f[Pick(m)] \in Nat
  BY <1>3, <1>4, PickIn
<1>6. SumBy(f, m) = f[Pick(m)] + SumBy(f, m \ {Pick(m)})
  BY <1>3, <1>4, SumStep
<1>7. SumBy(f, m \ {Pick(m)}) \in Nat
  <2>1. m \ {Pick(m)} \in SUBSET S /\ m \ {Pick(m)} \subseteq m /\ m \ {Pick(m)} # m
    BY <1>3, <1>5
  <2> QED
    BY <1>2, <2>1
<1> QED
  BY <1>3, <1>5, <1>6, <1>7

GroupRows(R, group, g) == {r \in R : group[r] = g}

(* Grouping loses no row and counts none twice: the sizes of the groups    *)
(* add up to the number of rows.                                           *)
LEMMA SizesAddUp ==
  ASSUME NEW R, IsFiniteSet(R), NEW group, NEW D, IsFiniteSet(D),
         NEW f, \A g \in D : f[g] = Cardinality(GroupRows(R, group, g)),
         \A r \in R : group[r] \in D
  PROVE  SumBy(f, D) = Cardinality(R)
<1>. DEFINE of(s) == {r \in R : group[r] \in s}
            bad == {s \in SUBSET D : SumBy(f, s) # Cardinality(of(s))}
<1>1. SUFFICES ASSUME bad # {} PROVE FALSE
  <2>1. of(D) = R
    OBVIOUS
  <2> QED
    BY <2>1
<1>2. PICK m \in bad : \A n \in bad : n \subseteq m => n = m
  <2>1. bad \subseteq SUBSET D
    OBVIOUS
  <2>. HIDE DEF bad
  <2> QED
    BY <1>1, <2>1, LeastSet
<1>3. m \in SUBSET D /\ IsFiniteSet(m) /\ SumBy(f, m) # Cardinality(of(m))
  BY FS_Subset
<1>4. m # {}
  <2>1. of({}) = {}
    OBVIOUS
  <2>2. Cardinality(of({})) = 0
    BY <2>1, FS_EmptySet
  <2> QED
    BY <1>3, <2>2, SumStep
<1>. DEFINE g == Pick(m)
            n == m \ {g}
            at == {r \in R : group[r] = g}
<1>5. g \in m /\ g \in D
  BY <1>3, <1>4, PickIn
<1>6. f[g] = Cardinality(at)
  BY <1>5 DEF GroupRows
<1>7. SumBy(f, m) = f[g] + SumBy(f, n)
  BY <1>3, <1>4, SumStep
<1>8. SumBy(f, n) = Cardinality(of(n))
  <2>1. n \in SUBSET D /\ n \subseteq m /\ n # m
    BY <1>3, <1>5
  <2> QED
    BY <1>2, <2>1
<1>9. of(m) = at \cup of(n) /\ at \cap of(n) = {}
  BY <1>5
<1>10. IsFiniteSet(at) /\ IsFiniteSet(of(n))
  BY FS_Subset
<1>11. Cardinality(at \cup of(n)) =
         Cardinality(at) + Cardinality(of(n)) - Cardinality(at \cap of(n))
  <2>. HIDE DEF at, of, n
  <2> QED
    BY <1>10, FS_Union
<1>12. Cardinality(at \cap of(n)) = 0
  BY <1>9, FS_EmptySet
<1>13. Cardinality(at) \in Nat /\ Cardinality(of(n)) \in Nat
  BY <1>10, FS_CardinalityType
<1>14. Cardinality(of(m)) = Cardinality(at) + Cardinality(of(n))
  <2>. HIDE DEF at, of, n
  <2> QED
    BY <1>9, <1>11, <1>12, <1>13
<1> QED
  BY <1>3, <1>6, <1>7, <1>8, <1>14

(* The fold of the community modules is this sum. *)
LEMMA TotalIsSum ==
  ASSUME NEW view, NEW field, NEW f, f = [g \in DOMAIN view |-> view[g][field]]
  PROVE  Total(view, field) = SumBy(f, DOMAIN view)
<1>. DEFINE D == DOMAIN view
            folded(it) == it = [s \in SUBSET D |->
              IF s = {} THEN 0 ELSE view[Pick(s)][field] + it[s \ {Pick(s)}]]
<1>1. Total(view, field) = (CHOOSE it : folded(it))[D]
  BY DEF Total, MapThenSumSet, MapThenFoldSet, Pick
<1>2. \A s \in SUBSET D : s # {} => f[Pick(s)] = view[Pick(s)][field]
  BY PickIn
<1>3. \A it : folded(it) <=> Sums(f, D, it)
  BY <1>2 DEF Sums
<1>. HIDE DEF folded
<1>4. (CHOOSE it : folded(it)) = (CHOOSE it : Sums(f, D, it))
  BY <1>3
<1> QED
  BY <1>1, <1>4 DEF SumBy

(* So is the sum of the values of a group's rows. *)
LEMMA ValueIsSum ==
  ASSUME NEW rows, NEW ps, NEW f, f = [j \in rows |-> Value[ps[j[2]]]]
  PROVE  MapThenSumSet(LAMBDA j : Value[ps[j[2]]], rows) = SumBy(f, rows)
<1>. DEFINE folded(it) == it = [s \in SUBSET rows |->
              IF s = {} THEN 0 ELSE Value[ps[Pick(s)[2]]] + it[s \ {Pick(s)}]]
<1>1. MapThenSumSet(LAMBDA j : Value[ps[j[2]]], rows) = (CHOOSE it : folded(it))[rows]
  BY DEF MapThenSumSet, MapThenFoldSet, Pick
<1>2. \A s \in SUBSET rows : s # {} => f[Pick(s)] = Value[ps[Pick(s)[2]]]
  BY PickIn
<1>3. \A it : folded(it) <=> Sums(f, rows, it)
  BY <1>2 DEF Sums
<1>. HIDE DEF folded
<1>4. (CHOOSE it : folded(it)) = (CHOOSE it : Sums(f, rows, it))
  BY <1>3
<1> QED
  BY <1>1, <1>4 DEF SumBy

-------------------------------------------------------------------------------
(* The newest row of a key *)

(* There is one as soon as the log holds a valid row of the key. *)
LEMMA NewestIs ==
  ASSUME NEW R, NoRow \notin R, NEW log \in Seq(R), NEW verdict, NEW keyOf, NEW Key,
         NEW k \in Key
  PROVE  Newest(log, verdict, keyOf, Key)[k] # NoRow <=>
           \E i \in DOMAIN log : verdict[log[i]] = "clean" /\ keyOf[log[i]] = k
<1>. DEFINE is == {i \in DOMAIN log : verdict[log[i]] = "clean" /\ keyOf[log[i]] = k}
<1>1. Newest(log, verdict, keyOf, Key)[k] = IF is = {} THEN NoRow ELSE log[Max(is)]
  BY DEF Newest
<1>2. is \subseteq 1..Len(log) /\ Len(log) \in Nat
  OBVIOUS
<1>3. ASSUME is # {} PROVE log[Max(is)] # NoRow
  <2>1. Max(is) \in is
    <3>. HIDE DEF is
    <3> QED
      BY <1>2, <1>3, LastPlace
  <2>2. log[Max(is)] \in R
    BY <1>2, <2>1
  <2> QED
    BY <2>2
<1> QED
  BY <1>1, <1>3

(* A log that grows loses none. *)
LEMMA NewestGrows ==
  ASSUME NEW R, NoRow \notin R, NEW log \in Seq(R), NEW more \in Seq(R),
         Len(log) =< Len(more), \A i \in DOMAIN log : more[i] = log[i],
         NEW verdict, NEW keyOf, NEW Key, NEW k \in Key,
         Newest(log, verdict, keyOf, Key)[k] # NoRow
  PROVE  Newest(more, verdict, keyOf, Key)[k] # NoRow
<1>1. PICK i \in DOMAIN log : verdict[log[i]] = "clean" /\ keyOf[log[i]] = k
  BY NewestIs
<1>2. i \in DOMAIN more /\ more[i] = log[i]
  OBVIOUS
<1> QED
  BY <1>1, <1>2, NewestIs

-------------------------------------------------------------------------------
(* The inductive invariant *)

TablesTyped ==
  /\ orders \in Seq(Order) /\ payments \in Seq(Payment)
  /\ odsOrders \in [Order -> Order \cup {NoRow}]
  /\ odsPayments \in [PaymentKey -> Payment \cup {NoRow}]

(* A clean table shows no key that has no valid row in the source. *)
TablesValid ==
  /\ \A o \in Order : odsOrders[o] # NoRow => SourceOrders[o] # NoRow
  /\ \A k \in PaymentKey : odsPayments[k] # NoRow => SourcePayments[k] # NoRow

ViewsTyped ==
  \A v \in {daily, lifetime} :
    /\ \A g \in DOMAIN v : v[g].count \in Nat /\ v[g].total \in Nat
    /\ Total(v, "count") \in Nat

IInv == TablesTyped /\ TablesValid /\ ViewsTyped /\ CountsOnlyValidPairs

(* What CountsOnlyValidPairs counts at most. *)
ValidPairs ==
  {k \in PaymentKey : SourcePayments[k] # NoRow /\ SourceOrders[k[1]] # NoRow}

(* A finite set has finitely many images. *)
LEMMA ImagesFinite ==
  ASSUME NEW S, IsFiniteSet(S), NEW f
  PROVE  IsFiniteSet({f[x] : x \in S})
<1>. DEFINE T == {f[x] : x \in S}
            g == [x \in S |-> f[x]]
<1>1. g \in Surjection(S, T)
  BY DEF Surjection
<1>. HIDE DEF g, T
<1>2. IsFiniteSet(T)
  BY <1>1, FS_Surjection
<1> QED
  BY <1>2 DEF T

(* There are finitely many keys. *)
LEMMA KeysFinite ==
  /\ IsFiniteSet(PaymentKey) /\ IsFiniteSet(ValidPairs)
  /\ \A attribute : IsFiniteSet({attribute[o] : o \in Order})
<1>. IsFiniteSet(Order) /\ IsFiniteSet(Payment)
  BY PaymentAssumption
<1>1. IsFiniteSet(PaymentKey)
  <2>1. IsFiniteSet({KeyOf[p] : p \in Payment})
    BY ImagesFinite
  <2> QED
    BY <2>1 DEF PaymentKey
<1>2. IsFiniteSet(ValidPairs)
  BY <1>1, FS_Subset DEF ValidPairs
<1>3. ASSUME NEW attribute PROVE IsFiniteSet({attribute[o] : o \in Order})
  BY ImagesFinite
<1> QED
  BY <1>1, <1>2, <1>3

(* A key names an order. *)
LEMMA KeyOfOrder == \A k \in PaymentKey : k[1] \in Order
<1>1. ASSUME NEW p \in Payment PROVE OrderOf(p) \in Order
  BY PaymentAssumption DEF OrderOf
<1> QED
  BY <1>1 DEF PaymentKey, KeyOf

(* A join is finite, and pairs each payment key with one order. *)
LEMMA JoinedBound ==
  ASSUME TablesTyped, TablesValid
  PROVE  /\ IsFiniteSet(Joined(odsOrders, odsPayments))
         /\ Cardinality(Joined(odsOrders, odsPayments)) =< Cardinality(ValidPairs)
<1>. DEFINE J == Joined(odsOrders, odsPayments)
            f == [j \in J |-> j[2]]
<1>1. \A j \in J : /\ j[1] \in Order /\ j[2] \in PaymentKey /\ j[2][1] = j[1]
                   /\ odsOrders[j[1]] # NoRow /\ odsPayments[j[2]] # NoRow
                   /\ j = <<j[1], j[2]>>
  BY DEF Joined
<1>2. \A j \in J : j[2] \in ValidPairs
  BY <1>1 DEF ValidPairs, TablesValid
<1>3. \A i, j \in J : i[2] = j[2] => i = j
  BY <1>1
<1>4. f \in Injection(J, ValidPairs)
  <2>. HIDE DEF J
  <2> QED
    BY <1>2, <1>3 DEF Injection, IsInjective
<1>. HIDE DEF f, J
<1>5. IsFiniteSet(J) /\ Cardinality(J) =< Cardinality(ValidPairs)
  BY <1>4, KeysFinite, FS_Injection
<1> QED
  BY <1>5 DEF J

(* A view that is computed from the clean tables is well typed, and counts *)
(* no more pairs than are valid.                                           *)
LEMMA FreshView ==
  ASSUME TablesTyped, TablesValid, NEW attribute, NEW view,
         view = GroupBy(attribute, odsOrders, odsPayments)
  PROVE  /\ \A g \in DOMAIN view : view[g].count \in Nat /\ view[g].total \in Nat
         /\ Total(view, "count") \in Nat /\ Total(view, "count") =< Cardinality(ValidPairs)
<1>. DEFINE J == Joined(odsOrders, odsPayments)
            D == {attribute[o] : o \in Order}
            group == [j \in J |-> attribute[j[1]]]
            rows(g) == {j \in J : attribute[j[1]] = g}
            f == [g \in DOMAIN view |-> view[g]["count"]]
<1>1. IsFiniteSet(J) /\ IsFiniteSet(D)
  BY JoinedBound, KeysFinite
<1>2. /\ DOMAIN view = D
      /\ \A g \in D : /\ view[g].count = Cardinality(rows(g))
                      /\ view[g].total =
                           MapThenSumSet(LAMBDA j : Value[odsPayments[j[2]]], rows(g))
  BY DEF GroupBy
<1>3. \A j \in J : /\ j[1] \in Order /\ j[2] \in PaymentKey
                   /\ odsPayments[j[2]] \in Payment
  BY DEF Joined, TablesTyped
<1>4. ASSUME NEW g \in D PROVE view[g].count \in Nat /\ view[g].total \in Nat
  <2>. DEFINE R == rows(g)
              values == [j \in R |-> Value[odsPayments[j[2]]]]
  <2>1. IsFiniteSet(R)
    BY <1>1, FS_Subset
  <2>2. values \in [R -> Nat]
    BY <1>3, PaymentAssumption
  <2>3. MapThenSumSet(LAMBDA j : Value[odsPayments[j[2]]], R) = SumBy(values, R)
    BY ValueIsSum
  <2>4. SumBy(values, R) \in Nat
    <3>. HIDE DEF R, values
    <3> QED
      BY <2>1, <2>2, SumNat
  <2>5. Cardinality(R) \in Nat
    BY <2>1, FS_CardinalityType
  <2> QED
    BY <1>2, <2>3, <2>4, <2>5
<1>5. Total(view, "count") = SumBy(f, D)
  BY <1>2, TotalIsSum
<1>6. ASSUME NEW g \in D PROVE f[g] = Cardinality(GroupRows(J, group, g))
  <2>1. rows(g) = GroupRows(J, group, g)
    BY DEF GroupRows
  <2> QED
    BY <1>2, <2>1
<1>7. \A j \in J : group[j] \in D
  BY <1>3
<1>8. SumBy(f, D) = Cardinality(J)
  <2>. HIDE DEF f, D, J, group
  <2> QED
    BY <1>1, <1>6, <1>7, SizesAddUp
<1>9. Cardinality(J) =< Cardinality(ValidPairs) /\ Cardinality(J) \in Nat
  BY <1>1, JoinedBound, FS_CardinalityType
<1> QED
  BY <1>2, <1>4, <1>5, <1>8, <1>9

-------------------------------------------------------------------------------
(* The steps *)

(* In the beginning the tables are empty, and so are the views. *)
LEMMA InitInvariant == Init => IInv
<1>1. SUFFICES ASSUME Init PROVE IInv
  OBVIOUS
<1>2. /\ orders = <<>> /\ payments = <<>>
      /\ odsOrders = [o \in Order |-> NoRow] /\ odsPayments = [k \in PaymentKey |-> NoRow]
  BY <1>1 DEF Init, Orders!Init, Payments!Init
<1>3. TablesTyped /\ TablesValid
  BY <1>2 DEF TablesTyped, TablesValid
<1>4. daily = DailyMetrics /\ lifetime = LifetimeAnalysis
  BY <1>1 DEF Init
<1>5. ViewsTyped
  BY <1>3, <1>4, FreshView DEF ViewsTyped, DailyMetrics, LifetimeAnalysis
<1>6. CountsOnlyValidPairs
  BY <1>3, <1>4, FreshView DEF CountsOnlyValidPairs, ValidPairs, DailyMetrics, LifetimeAnalysis
<1> QED
  BY <1>3, <1>5, <1>6 DEF IInv

(* An order that is placed makes pairs valid and none invalid.             *)
LEMMA PlaceOrderStep ==
  ASSUME IInv, PlaceOrder
  PROVE  IInv'
<1>1. PICK o \in Order : orders' = Append(orders, o) /\ payments' = payments \o PaymentsOf[o]
  BY DEF PlaceOrder
<1>2. /\ orders \in Seq(Order) /\ payments \in Seq(Payment)
      /\ orders' \in Seq(Order) /\ payments' \in Seq(Payment)
      /\ UNCHANGED <<odsOrders, odsPayments, daily, lifetime>>
  BY <1>1, PaymentAssumption DEF IInv, TablesTyped, PlaceOrder
<1>3. /\ Len(orders) =< Len(orders') /\ \A i \in DOMAIN orders : orders'[i] = orders[i]
      /\ Len(payments) =< Len(payments') /\ \A i \in DOMAIN payments : payments'[i] = payments[i]
  <2>1. PaymentsOf[o] \in Seq(Payment)
    BY PaymentAssumption
  <2> QED
    BY <1>1, <1>2, <2>1
<1>4. ASSUME NEW k \in Order, SourceOrders[k] # NoRow PROVE SourceOrders'[k] # NoRow
  <2>. DEFINE key == [r \in Order |-> r]
  <2>1. /\ SourceOrders = Newest(orders, OrderVerdict, key, Order)
        /\ SourceOrders' = Newest(orders', OrderVerdict, key, Order)
    BY DEF SourceOrders
  <2>2. NoRow \notin Order
    BY PaymentAssumption
  <2>. HIDE DEF key
  <2> QED
    BY <1>2, <1>3, <1>4, <2>1, <2>2, NewestGrows
<1>5. ASSUME NEW k \in PaymentKey, SourcePayments[k] # NoRow PROVE SourcePayments'[k] # NoRow
  <2>1. /\ SourcePayments = Newest(payments, PaymentVerdict, KeyOf, PaymentKey)
        /\ SourcePayments' = Newest(payments', PaymentVerdict, KeyOf, PaymentKey)
    BY DEF SourcePayments
  <2>2. NoRow \notin Payment
    BY PaymentAssumption
  <2> QED
    BY <1>2, <1>3, <1>5, <2>1, <2>2, NewestGrows
<1>6. TablesTyped' /\ TablesValid'
  BY <1>2, <1>4, <1>5 DEF IInv, TablesTyped, TablesValid
<1>7. ViewsTyped'
  BY <1>2 DEF IInv, ViewsTyped
<1>8. CountsOnlyValidPairs'
  <2>1. ValidPairs \subseteq ValidPairs'
    <3>1. ASSUME NEW k \in ValidPairs PROVE k \in ValidPairs'
      <4>1. k \in PaymentKey /\ SourcePayments'[k] # NoRow
        BY <1>5 DEF ValidPairs
      <4>2. SourceOrders'[k[1]] # NoRow
        <5>1. SourceOrders[k[1]] # NoRow
          BY DEF ValidPairs
        <5> QED
          BY <1>4, <5>1, KeyOfOrder DEF ValidPairs
      <4> QED
        BY <4>1, <4>2 DEF ValidPairs
    <3> QED
      BY <3>1
  <2>2. IsFiniteSet(ValidPairs')
    BY KeysFinite, FS_Subset DEF ValidPairs
  <2>3. Cardinality(ValidPairs) =< Cardinality(ValidPairs')
    BY <2>1, <2>2, FS_Subset
  <2>4. Cardinality(ValidPairs) \in Nat /\ Cardinality(ValidPairs') \in Nat
    BY <2>2, KeysFinite, FS_CardinalityType
  <2>5. \A v \in {daily, lifetime} :
          /\ Total(v, "count") =< Cardinality(ValidPairs)
          /\ Total(v, "count") \in Int
    BY DEF IInv, CountsOnlyValidPairs, ValidPairs, ViewsTyped
  <2>6. \A v \in {daily', lifetime'} : Total(v, "count") =< Cardinality(ValidPairs')
    BY <1>2, <2>3, <2>4, <2>5
  <2> QED
    BY <2>6 DEF CountsOnlyValidPairs, ValidPairs
<1> QED
  BY <1>6, <1>7, <1>8 DEF IInv

(* What a job publishes is a valid row of the source. *)
LEMMA PublishStep ==
  ASSUME IInv, PublishOrders \/ PublishPayments
  PROVE  IInv'
<1>1. TablesTyped /\ TablesValid
  BY DEF IInv
<1>2. UNCHANGED <<orders, payments, daily, lifetime>>
  BY DEF PublishOrders, PublishPayments, Orders!Publish, Payments!Publish
<1>3. TablesTyped'
  BY <1>1, <1>2 DEF TablesTyped, PublishOrders, PublishPayments
<1>4. SourceOrders' = SourceOrders /\ SourcePayments' = SourcePayments
  BY <1>2 DEF SourceOrders, SourcePayments
<1>5. ASSUME PublishOrders, NEW o \in Order, odsOrders'[o] # NoRow PROVE SourceOrders[o] # NoRow
  <2>1. CASE odsOrders'[o] = odsOrders[o]
    BY <1>1, <1>5, <2>1 DEF TablesValid
  <2>2. CASE /\ odsOrders'[o] \in Orders!Committed /\ OrderVerdict[odsOrders'[o]] = "clean"
             /\ [r \in Order |-> r][odsOrders'[o]] = o
    <3>. DEFINE key == [r \in Order |-> r]
    <3>1. PICK i \in DOMAIN orders : OrderVerdict[orders[i]] = "clean" /\ key[orders[i]] = o
      BY <1>1, <2>2 DEF TablesTyped, Orders!Committed
    <3>2. SourceOrders = Newest(orders, OrderVerdict, key, Order)
      BY DEF SourceOrders
    <3>3. NoRow \notin Order /\ orders \in Seq(Order)
      BY <1>1, PaymentAssumption DEF TablesTyped
    <3>. HIDE DEF key
    <3> QED
      BY <3>1, <3>2, <3>3, NewestIs
  <2> QED
    BY <1>5, <2>1, <2>2 DEF PublishOrders, Orders!Publish
<1>6. ASSUME PublishPayments, NEW k \in PaymentKey, odsPayments'[k] # NoRow
      PROVE  SourcePayments[k] # NoRow
  <2>1. CASE odsPayments'[k] = odsPayments[k]
    BY <1>1, <1>6, <2>1 DEF TablesValid
  <2>2. CASE /\ odsPayments'[k] \in Payments!Committed
             /\ PaymentVerdict[odsPayments'[k]] = "clean" /\ KeyOf[odsPayments'[k]] = k
    <3>1. PICK i \in DOMAIN payments :
            PaymentVerdict[payments[i]] = "clean" /\ KeyOf[payments[i]] = k
      BY <1>1, <2>2 DEF TablesTyped, Payments!Committed
    <3>2. SourcePayments = Newest(payments, PaymentVerdict, KeyOf, PaymentKey)
      BY DEF SourcePayments
    <3>3. NoRow \notin Payment /\ payments \in Seq(Payment)
      BY <1>1, PaymentAssumption DEF TablesTyped
    <3> QED
      BY <3>1, <3>2, <3>3, NewestIs
  <2> QED
    BY <1>6, <2>1, <2>2 DEF PublishPayments, Payments!Publish
<1>7. TablesValid'
  <2>1. PublishOrders => UNCHANGED odsPayments
    BY DEF PublishOrders
  <2>2. PublishPayments => UNCHANGED odsOrders
    BY DEF PublishPayments
  <2> QED
    BY <1>1, <1>4, <1>5, <1>6, <2>1, <2>2 DEF TablesValid
<1>8. ViewsTyped' /\ CountsOnlyValidPairs'
  BY <1>2, <1>4 DEF IInv, ViewsTyped, CountsOnlyValidPairs
<1> QED
  BY <1>3, <1>7, <1>8 DEF IInv

(* A refresh computes a view from the clean tables of that moment. *)
LEMMA RefreshStep ==
  ASSUME IInv, RefreshDaily \/ RefreshLifetime
  PROVE  IInv'
<1>1. TablesTyped /\ TablesValid /\ ViewsTyped /\ CountsOnlyValidPairs
  BY DEF IInv
<1>2. /\ UNCHANGED <<orders, payments, odsOrders, odsPayments>>
      /\ \/ daily' = GroupBy(Date, odsOrders, odsPayments) /\ lifetime' = lifetime
         \/ lifetime' = GroupBy(Customer, odsOrders, odsPayments) /\ daily' = daily
  BY DEF RefreshDaily, RefreshLifetime, DailyMetrics, LifetimeAnalysis
<1>3. SourceOrders' = SourceOrders /\ SourcePayments' = SourcePayments
  BY <1>2 DEF SourceOrders, SourcePayments
<1>4. TablesTyped' /\ TablesValid'
  BY <1>1, <1>2, <1>3 DEF TablesTyped, TablesValid
<1>5. ASSUME NEW v \in {daily', lifetime'}
      PROVE  /\ \A g \in DOMAIN v : v[g].count \in Nat /\ v[g].total \in Nat
             /\ Total(v, "count") \in Nat /\ Total(v, "count") =< Cardinality(ValidPairs)
  <2>1. CASE \/ v = GroupBy(Date, odsOrders, odsPayments)
             \/ v = GroupBy(Customer, odsOrders, odsPayments)
    BY <1>1, <2>1, FreshView
  <2>2. CASE v \in {daily, lifetime}
    BY <1>1, <2>2 DEF ViewsTyped, CountsOnlyValidPairs, ValidPairs
  <2> QED
    BY <1>2, <2>1, <2>2
<1>6. ViewsTyped'
  BY <1>5 DEF ViewsTyped
<1>7. CountsOnlyValidPairs'
  BY <1>3, <1>5 DEF CountsOnlyValidPairs, ValidPairs
<1> QED
  BY <1>4, <1>6, <1>7 DEF IInv

-------------------------------------------------------------------------------
(* IInv is an invariant: no clean table is ahead of the source's valid     *)
(* keys, and no view ahead of the clean tables it was computed from.       *)
THEOREM Invariance == Spec => []IInv
<1>1. Init => IInv
  BY InitInvariant
<1>2. IInv /\ [Next]_vars => IInv'
  <2>1. IInv /\ UNCHANGED vars => IInv'
    BY DEF IInv, TablesTyped, TablesValid, ViewsTyped, CountsOnlyValidPairs, SourceOrders,
           SourcePayments, vars
  <2> QED
    BY <2>1, PlaceOrderStep, PublishStep, RefreshStep DEF Next
<1> QED
  BY <1>1, <1>2, PTL DEF Spec

(* Every variable has its type in every state. *)
THEOREM TypeCorrect == Spec => []TypeOK
<1>1. IInv => TypeOK
  BY DEF IInv, TablesTyped, ViewsTyped, TypeOK
<1> QED
  BY <1>1, Invariance, PTL

(* Neither view of create-materialized-views.sql counts more than the      *)
(* valid payments, one per order and type, of valid orders, whichever      *)
(* table is ahead.                                                         *)
THEOREM AlwaysValidPairs == Spec => []CountsOnlyValidPairs
<1>1. IInv => CountsOnlyValidPairs
  BY DEF IInv
<1> QED
  BY <1>1, Invariance, PTL

===============================================================================
