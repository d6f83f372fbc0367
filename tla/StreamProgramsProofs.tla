-------------------------- MODULE StreamProgramsProofs --------------------------
(***************************************************************************)
(* What holds of the programs of StreamPrograms for every input.           *)
(*                                                                         *)
(* A sum is a fold over the places of its elements, and what it is follows *)
(* by induction over them: a set of counterexamples has a least element.   *)
(*                                                                         *)
(* The join, the OVER windows and the time windows implement what is       *)
(* safety in WindowResults: the join has at every moment joined the rows   *)
(* read so far, each pair once; an OVER window takes no row before its     *)
(* predecessors; and the open time windows are those of the elements read, *)
(* as if no others were to come, which is why a window that the watermark  *)
(* passes is complete.                                                     *)
(***************************************************************************)
EXTENDS StreamPrograms, FiniteSetTheorems, WellFoundedInduction, TLAPS

-------------------------------------------------------------------------------
(* Sums over finite sets *)

(* A set of parts of a finite set has a least one. *)
LEMMA LeastSet ==
  ASSUME NEW S, IsFiniteSet(S), NEW T, T \subseteq SUBSET S, T # {}
  PROVE  \E m \in T : \A n \in T : n \subseteq m => n = m
<1>1. T \subseteq FiniteSubsetsOf(S) BY FS_FiniteSubsetsOfFinite
<1>2. PICK m \in T : \A n \in T : ~ (<<n, m>> \in StrictSubsetOrdering(S))
  BY <1>1, FS_StrictSubsetOrderingWellFounded, WFMin
<1>. QED BY <1>2 DEF StrictSubsetOrdering

Pick(s) == CHOOSE x \in s : TRUE

(* it holds the sum of f over each part of S. *)
Sums(f, S, it) ==
  it = [s \in SUBSET S |-> IF s = {} THEN 0 ELSE f[Pick(s)] + it[s \ {Pick(s)}]]

SumBy(f, S) == (CHOOSE it : Sums(f, S, it))[S]

(* The element that the fold picks is one of the set. *)
LEMMA PickIn == \A s : s # {} => Pick(s) \in s
BY DEF Pick

(* Two such functions agree where both are defined. *)
LEMMA SumsUnique ==
  ASSUME NEW f, NEW S, IsFiniteSet(S), NEW R \in SUBSET S, NEW a, NEW b,
         Sums(f, S, a), Sums(f, R, b)
  PROVE  \A s \in SUBSET R : a[s] = b[s]
<1>. DEFINE bad == {s \in SUBSET R : a[s] # b[s]}
<1>1. SUFFICES ASSUME bad # {} PROVE FALSE
  OBVIOUS
<1>2. bad \subseteq SUBSET S
  OBVIOUS
<1>3. PICK m \in bad : \A n \in bad : n \subseteq m => n = m
  <2>. HIDE DEF bad
  <2> QED
    BY <1>1, <1>2, LeastSet
<1>4. m \in SUBSET R /\ m \in SUBSET S
  OBVIOUS
<1>5. CASE m = {}
  BY <1>3, <1>4, <1>5 DEF Sums
<1>6. CASE m # {}
  <2>. DEFINE n == m \ {Pick(m)}
  <2>1. Pick(m) \in m
    BY <1>6, PickIn
  <2>2. n \subseteq m /\ n # m /\ n \in SUBSET R
    BY <1>4, <2>1
  <2>3. a[n] = b[n]
    BY <1>3, <2>2
  <2>4. a[m] = f[Pick(m)] + a[n] /\ b[m] = f[Pick(m)] + b[n]
    BY <1>4, <1>6 DEF Sums
  <2> QED
    BY <1>3, <2>3, <2>4
<1> QED
  BY <1>5, <1>6

(* There is such a function on every finite set. *)
LEMMA SumsExist ==
  ASSUME NEW f, NEW S, IsFiniteSet(S)
  PROVE  \E it : Sums(f, S, it)
<1>. DEFINE bad == {s \in SUBSET S : ~ \E it : Sums(f, s, it)}
<1>1. SUFFICES ASSUME bad # {} PROVE FALSE
  OBVIOUS
<1>2. PICK m \in bad : \A n \in bad : n \subseteq m => n = m
  <2>1. bad \subseteq SUBSET S
    OBVIOUS
  <2>. HIDE DEF bad
  <2> QED
    BY <1>1, <2>1, LeastSet
<1>. DEFINE part  == [s \in SUBSET m |-> CHOOSE it : Sums(f, s, it)]
            whole == [s \in SUBSET m |->
                        IF s = {} THEN 0
                        ELSE f[Pick(s)] + part[s \ {Pick(s)}][s \ {Pick(s)}]]
<1>3. ASSUME NEW s \in SUBSET m, s # m
      PROVE  Sums(f, s, part[s]) /\ IsFiniteSet(s)
  <2>1. s \in SUBSET S /\ s \notin bad
    BY <1>2, <1>3
  <2>2. \E it : Sums(f, s, it)
    BY <2>1
  <2>3. part[s] = CHOOSE it : Sums(f, s, it)
    OBVIOUS
  <2> QED
    BY <2>1, <2>2, <2>3, FS_Subset
<1>. HIDE DEF part
<1>4. ASSUME NEW s \in SUBSET m, s # m PROVE whole[s] = part[s][s]
  <2>1. CASE s = {}
    BY <1>3, <2>1 DEF Sums
  <2>2. CASE s # {}
    <3>. DEFINE t == s \ {Pick(s)}
    <3>1. t \in SUBSET s /\ t \in SUBSET m /\ t # m
      BY <1>4
    <3>2. part[s][s] = f[Pick(s)] + part[s][t]
      BY <1>3, <1>4, <2>2 DEF Sums
    <3>3. Sums(f, s, part[s]) /\ Sums(f, t, part[t]) /\ IsFiniteSet(s)
      BY <1>3, <1>4, <3>1
    <3>4. part[s][t] = part[t][t]
      <4>. DEFINE a == part[s]
                  b == part[t]
      <4>1. t \in SUBSET s /\ Sums(f, s, a) /\ Sums(f, t, b)
        BY <3>1, <3>3
      <4>. HIDE DEF t, a, b
      <4>2. \A u \in SUBSET t : a[u] = b[u]
        BY <4>1, <3>3, SumsUnique
      <4> QED
        BY <4>2 DEF a, b
    <3> QED
      BY <2>2, <3>2, <3>4
  <2> QED
    BY <2>1, <2>2
<1>5. ASSUME NEW s \in SUBSET m, s # {}
      PROVE  whole[s] = f[Pick(s)] + whole[s \ {Pick(s)}]
  <2>1. Pick(s) \in s
    BY <1>5, PickIn
  <2>2. s \ {Pick(s)} \in SUBSET m /\ s \ {Pick(s)} # m
    BY <2>1
  <2> QED
    BY <1>4, <1>5, <2>2
<1>6. Sums(f, m, whole)
  BY <1>5 DEF Sums
<1> QED
  BY <1>2, <1>6

(* The sum over no elements is zero, and any other is that of what is left *)
(* when the fold has picked an element, and that element.                  *)
LEMMA SumStep ==
  ASSUME NEW f, NEW S, IsFiniteSet(S)
  PROVE  /\ SumBy(f, {}) = 0
         /\ S # {} => SumBy(f, S) = f[Pick(S)] + SumBy(f, S \ {Pick(S)})
<1>. DEFINE none == CHOOSE it : Sums(f, {}, it)
            all  == CHOOSE it : Sums(f, S, it)
            T    == S \ {Pick(S)}
            rest == CHOOSE it : Sums(f, T, it)
<1>1. IsFiniteSet({}) /\ IsFiniteSet(T) /\ T \in SUBSET S
  BY FS_EmptySet, FS_Subset
<1>2. /\ \E it : Sums(f, {}, it)
      /\ \E it : Sums(f, S, it)
      /\ \E it : Sums(f, T, it)
  <2>. HIDE DEF T
  <2> QED
    BY <1>1, SumsExist
<1>3. Sums(f, {}, none) /\ Sums(f, S, all) /\ Sums(f, T, rest)
  BY <1>2
<1>4. SumBy(f, {}) = none[{}] /\ SumBy(f, S) = all[S] /\ SumBy(f, T) = rest[T]
  BY DEF SumBy
<1>. HIDE DEF none, all, rest
<1>5. none[{}] = 0
  BY <1>3 DEF Sums
<1>6. ASSUME S # {} PROVE all[S] = f[Pick(S)] + all[T]
  BY <1>3, <1>6 DEF Sums
<1>7. \A s \in SUBSET T : all[s] = rest[s]
  <2>1. T \in SUBSET S /\ Sums(f, S, all) /\ Sums(f, T, rest)
    BY <1>1, <1>3
  <2>. HIDE DEF T
  <2> QED
    BY <2>1, SumsUnique
<1> QED
  BY <1>4, <1>5, <1>6, <1>7

(* A sum of integers is one. *)
LEMMA SumInt ==
  ASSUME NEW S, IsFiniteSet(S), NEW f, \A x \in S : f[x] \in Int
  PROVE  SumBy(f, S) \in Int
<1>. DEFINE bad == {s \in SUBSET S : SumBy(f, s) \notin Int}
<1>1. SUFFICES ASSUME bad # {} PROVE FALSE OBVIOUS
<1>2. PICK m \in bad : \A n \in bad : n \subseteq m => n = m
  <2>1. bad \subseteq SUBSET S OBVIOUS
  <2>. HIDE DEF bad
  <2>. QED BY <1>1, <2>1, LeastSet
<1>3. m \in SUBSET S /\ IsFiniteSet(m) /\ SumBy(f, m) \notin Int BY FS_Subset
<1>4. m # {}
  <2>1. SumBy(f, {}) = 0 BY <1>3, SumStep
  <2>. QED BY <2>1, <1>3
<1>5. Pick(m) \in m /\ f[Pick(m)] \in Int BY <1>3, <1>4, PickIn
<1>6. SumBy(f, m) = f[Pick(m)] + SumBy(f, m \ {Pick(m)}) BY <1>3, <1>4, SumStep
<1>7. SumBy(f, m \ {Pick(m)}) \in Int
  <2>1. m \ {Pick(m)} \in SUBSET S /\ m \ {Pick(m)} \subseteq m /\ m \ {Pick(m)} # m
    BY <1>3, <1>5
  <2>. QED BY <1>2, <2>1
<1>. QED BY <1>3, <1>5, <1>6, <1>7

(* Any element can be taken out of a sum first. *)
LEMMA SumWithout ==
  ASSUME NEW S, IsFiniteSet(S), NEW f, \A x \in S : f[x] \in Int
  PROVE  \A y \in S : SumBy(f, S) = SumBy(f, S \ {y}) + f[y]
<1>. DEFINE good(s) == \A y \in s : SumBy(f, s) = SumBy(f, s \ {y}) + f[y]
            bad == {s \in SUBSET S : ~good(s)}
<1>1. SUFFICES ASSUME bad # {} PROVE FALSE OBVIOUS
<1>2. PICK m \in bad : \A n \in bad : n \subseteq m => n = m
  <2>1. bad \subseteq SUBSET S OBVIOUS
  <2>. HIDE DEF bad
  <2>. QED BY <1>1, <2>1, LeastSet
<1>3. PICK y \in m : SumBy(f, m) # SumBy(f, m \ {y}) + f[y] OBVIOUS
<1>4. m \in SUBSET S /\ IsFiniteSet(m) BY FS_Subset
<1>5. ASSUME NEW s \in SUBSET m PROVE SumBy(f, s) \in Int
  <2>1. IsFiniteSet(s) /\ \A x \in s : f[x] \in Int BY <1>4, FS_Subset
  <2>. QED BY <2>1, SumInt
<1>6. ASSUME NEW s \in SUBSET m, s # m PROVE good(s)
  <2>1. s \in SUBSET S /\ s \notin bad
    <3>. HIDE DEF bad
    <3>. QED BY <1>2, <1>4, <1>6
  <2>. QED BY <2>1
<1>. DEFINE p == Pick(m)
<1>7. p \in m BY <1>3, PickIn
<1>8. SumBy(f, m) = f[p] + SumBy(f, m \ {p}) BY <1>3, <1>4, SumStep
<1>. HIDE DEF p
<1>9. f[p] \in Int /\ f[y] \in Int BY <1>3, <1>4, <1>7
<1>10. p # y
  <2>. SUFFICES ASSUME p = y PROVE FALSE OBVIOUS
  <2>1. SumBy(f, m \ {y}) \in Int BY <1>5
  <2>. QED BY <2>1, <1>3, <1>8, <1>9
<1>. DEFINE a == m \ {p}  b == m \ {y}  c == m \ {p, y}
<1>11. a \ {y} = c /\ b \ {p} = c /\ y \in a /\ p \in b BY <1>3, <1>7, <1>10
<1>12. SumBy(f, a) = SumBy(f, c) + f[y] BY <1>6, <1>7, <1>11
<1>13. SumBy(f, b) = SumBy(f, c) + f[p] BY <1>3, <1>6, <1>11
<1>14. SumBy(f, c) \in Int BY <1>5
<1>. HIDE DEF a, b, c
<1>15. SumBy(f, m) = f[p] + SumBy(f, a) BY <1>8 DEF a
<1>16. SumBy(f, m) # SumBy(f, b) + f[y] BY <1>3 DEF b
<1>. QED BY <1>9, <1>12, <1>13, <1>14, <1>15, <1>16

-------------------------------------------------------------------------------
(* Sums of a key's latest elements *)

(* Elements to sum, numbered from 1, with their times and prices.          *)
Priced(s) ==
  /\ Len(s) \in Nat /\ DOMAIN s = 1..Len(s)
  /\ \A i \in 1..Len(s) : s[i].ts \in Int /\ s[i].price \in Int

(* The places of a key's elements among the first n, those from i on, and  *)
(* the sum of their prices.                                                *)
Places(s, k, n) == {i \in 1..n : s[i].key = k}

Last(s, k, i, n) == {j \in Places(s, k, n) : j >= i}

Suffix(s, k, i, n) == SumBy([j \in DOMAIN s |-> s[j].price], Last(s, k, i, n))

(* The fold over the prices of some places is the sum of those. *)
LEMMA FoldIsSum ==
  ASSUME NEW s, NEW S, NEW f, \A j \in S : f[j] = s[j].price
  PROVE  KeyedSum!MapThenSumSet(LAMBDA j : s[j].price, S) = SumBy(f, S)
<1>. DEFINE folded(it) == it = [r \in SUBSET S |->
              IF r = {} THEN 0 ELSE s[Pick(r)].price + it[r \ {Pick(r)}]]
<1>1. KeyedSum!MapThenSumSet(LAMBDA j : s[j].price, S) = (CHOOSE it : folded(it))[S]
  BY DEF KeyedSum!MapThenSumSet, KeyedSum!MapThenFoldSet, Pick
<1>2. \A r \in SUBSET S : r # {} => f[Pick(r)] = s[Pick(r)].price
  BY PickIn
<1>3. \A it : folded(it) <=> Sums(f, S, it)
  BY <1>2 DEF Sums
<1>. HIDE DEF folded
<1>4. (CHOOSE it : folded(it)) = (CHOOSE it : Sums(f, S, it))
  BY <1>3
<1>. QED BY <1>1, <1>4 DEF SumBy

(* So the sums of the model are these. *)
LEMMA SumIs ==
  Priced(stream) => \A k, i : \A n \in 0..Len(stream) :
                      KeyedSum!SumFrom(k, i, n) = Suffix(stream, k, i, n)
<1>. SUFFICES ASSUME Priced(stream), NEW k, NEW i, NEW n \in 0..Len(stream)
              PROVE  KeyedSum!SumFrom(k, i, n) = Suffix(stream, k, i, n)
  OBVIOUS
<1>. DEFINE f == [j \in DOMAIN stream |-> stream[j].price]
            S == {j \in KeyedSum!Elements(k, n) : j >= i}
<1>1. S = Last(stream, k, i, n) BY DEF KeyedSum!Elements, Last, Places
<1>2. \A j \in S : j \in DOMAIN stream BY DEF Priced, KeyedSum!Elements
<1>3. \A j \in S : f[j] = stream[j].price BY <1>2
<1>4. KeyedSum!SumFrom(k, i, n) = KeyedSum!MapThenSumSet(LAMBDA j : stream[j].price, S)
  BY DEF KeyedSum!SumFrom
<1>. HIDE DEF S, f
<1>5. KeyedSum!SumFrom(k, i, n) = SumBy(f, S) BY <1>3, <1>4, FoldIsSum
<1>. QED BY <1>1, <1>5 DEF Suffix, f

(* Sums are integers, and the sum of no elements is zero. *)
LEMMA SuffixType ==
  ASSUME NEW s, Priced(s), NEW k, NEW i, NEW n \in 0..Len(s)
  PROVE  /\ IsFiniteSet(Last(s, k, i, n))
         /\ Suffix(s, k, i, n) \in Int
         /\ Last(s, k, i, n) = {} => Suffix(s, k, i, n) = 0
<1>. DEFINE f == [j \in DOMAIN s |-> s[j].price]
            S == Last(s, k, i, n)
<1>1. S \subseteq 1..n /\ n \in Nat BY DEF Last, Places, Priced
<1>2. IsFiniteSet(1..n) BY <1>1, FS_Interval
<1>3. IsFiniteSet(S) BY <1>1, <1>2, FS_Subset
<1>4. \A x \in S : x \in DOMAIN s /\ s[x].price \in Int BY <1>1 DEF Priced
<1>5. \A x \in S : f[x] \in Int BY <1>4
<1>6. Suffix(s, k, i, n) = SumBy(f, S) BY DEF Suffix
<1>. HIDE DEF f, S
<1>7. SumBy(f, S) \in Int BY <1>3, <1>5, SumInt
<1>8. SumBy(f, {}) = 0 BY <1>3, SumStep
<1>. QED BY <1>3, <1>6, <1>7, <1>8 DEF S

(* A further element adds its price to the sums of its key, and its own is *)
(* the sum from it on.                                                     *)
LEMMA SuffixGrows ==
  ASSUME NEW s, Priced(s), NEW n \in 0..Len(s), n < Len(s), NEW k, s[n + 1].key = k,
         NEW i \in 1..(n + 1)
  PROVE  Suffix(s, k, i, n + 1) = Suffix(s, k, i, n) + s[n + 1].price
<1>. DEFINE f == [j \in DOMAIN s |-> s[j].price]
            S == Last(s, k, i, n + 1)
<1>1. n + 1 \in 1..Len(s) /\ n \in Nat BY DEF Priced
<1>2. n + 1 \in S BY <1>1 DEF Last, Places
<1>3. S \ {n + 1} = Last(s, k, i, n) BY <1>1 DEF Last, Places
<1>4. S \subseteq 1..Len(s) BY <1>1 DEF Last, Places, Priced
<1>5. \A x \in S : x \in DOMAIN s /\ s[x].price \in Int BY <1>4 DEF Priced
<1>6. \A x \in S : f[x] \in Int BY <1>5
<1>7. IsFiniteSet(S) BY <1>1, SuffixType DEF Priced
<1>8. f[n + 1] = s[n + 1].price BY <1>2, <1>5
<1>9. Suffix(s, k, i, n + 1) = SumBy(f, S) /\ Suffix(s, k, i, n) = SumBy(f, S \ {n + 1})
  BY <1>3 DEF Suffix
<1>. HIDE DEF f, S
<1>10. SumBy(f, S) = SumBy(f, S \ {n + 1}) + f[n + 1] BY <1>2, <1>6, <1>7, SumWithout
<1>. QED BY <1>8, <1>9, <1>10

(* The sums of the other keys are as they were. *)
LEMMA SuffixOther ==
  ASSUME NEW s, Priced(s), NEW n \in 0..Len(s), n < Len(s), NEW k, s[n + 1].key # k
  PROVE  /\ Places(s, k, n + 1) = Places(s, k, n)
         /\ \A i : Suffix(s, k, i, n + 1) = Suffix(s, k, i, n)
<1>1. Places(s, k, n + 1) = Places(s, k, n) BY DEF Places, Priced
<1>. QED BY <1>1 DEF Suffix, Last

(* The latest element of a key alone, when none came before it, or when    *)
(* what came before is forgotten.                                          *)
LEMMA SuffixStarts ==
  ASSUME NEW s, Priced(s), NEW n \in 0..Len(s), NEW k
  PROVE  /\ Suffix(s, k, n + 1, n) = 0
         /\ Places(s, k, n) = {} => Suffix(s, k, 1, n) = 0
<1>1. Last(s, k, n + 1, n) = {} BY DEF Last, Places, Priced
<1>2. Places(s, k, n) = {} => Last(s, k, 1, n) = {} BY DEF Last
<1>. QED BY <1>1, <1>2, SuffixType


-------------------------------------------------------------------------------
(* The keyed sums *)

Keyed == KeyedSum!Keys

TimersOf(T, k) == {t \in T : t[2] = k}

ResultsOf(o, k) == {n \in 1..Len(o) : o[n].key = k}

SumTyped ==
  /\ Priced(stream) /\ pos \in 0..Len(stream)
  /\ state \in [Keyed -> Int \cup {Absent}]
  /\ IsFiniteSet(timers) /\ expired \in Nat
  /\ out \in Seq([key : Keyed, value : Int \cup {Absent}, upto : 0..Len(stream)])

(* What the state holds is the sum of the key's latest elements, of all of *)
(* them as long as no state expired.                                       *)
StateSums ==
  \A k \in Keyed :
    /\ state[k] # Absent => \E i \in Places(stream, k, pos) : state[k] = Suffix(stream, k, i, pos)
    /\ expired = 0 /\ Places(stream, k, pos) # {} => state[k] = Suffix(stream, k, 1, pos)

(* A timer is an element's that has been read. *)
TimersRead ==
  \A t \in timers :
    /\ t[2] \in Keyed
    /\ \E i \in Places(stream, t[2], pos) : t = <<stream[i].ts + 2, t[2]>>

OutSums ==
  \A n \in 1..Len(out) :
    LET k == out[n].key  v == out[n].value  m == out[n].upto IN
    /\ v # Absent => \E i \in Places(stream, k, m) : v = Suffix(stream, k, i, m)
    /\ expired = 0 => v = Suffix(stream, k, 1, m)

Reports(T, o, k) == Cardinality(TimersOf(T, k)) + Cardinality(ResultsOf(o, k))

Times(s, k, n) == {s[i].ts : i \in Places(s, k, n)}

EachReported ==
  \A k \in Keyed :
    /\ Reports(timers, out, k) =< Cardinality(Places(stream, k, pos))
    /\ Reports(timers, out, k) >= Cardinality(IF KeyedSum!Timed THEN Times(stream, k, pos)
                                                              ELSE Places(stream, k, pos))

SumInv == SumTyped /\ StateSums /\ TimersRead /\ OutSums /\ EachReported

(* What the program reads of its input. *)
LEMMA ReadsElement ==
  ASSUME SumTyped, pos < Len(stream)
  PROVE  /\ pos + 1 \in 1..Len(stream) /\ pos + 1 \in 0..Len(stream) /\ pos \in Nat
         /\ stream[pos + 1].key \in Keyed
         /\ stream[pos + 1].ts \in Int /\ stream[pos + 1].price \in Int
<1>1. pos + 1 \in 1..Len(stream) /\ pos + 1 \in 0..Len(stream) /\ pos \in Nat
  BY DEF SumTyped, Priced
<1>2. pos + 1 \in DOMAIN stream BY <1>1 DEF SumTyped, Priced
<1>. QED BY <1>1, <1>2 DEF SumTyped, Priced, Keyed, KeyedSum!Keys

(* The sum that process_element computes is that of the key's elements     *)
(* since its state was last empty.                                         *)
LEMMA SumComputed ==
  ASSUME SumTyped, StateSums, pos < Len(stream), NEW k, k = stream[pos + 1].key,
         NEW current, current = IF state[k] = Absent THEN 0 ELSE state[k],
         NEW sum, sum = current + stream[pos + 1].price
  PROVE  /\ sum \in Int
         /\ \E i \in Places(stream, k, pos + 1) : sum = Suffix(stream, k, i, pos + 1)
         /\ expired = 0 => sum = Suffix(stream, k, 1, pos + 1)
<1>1. /\ pos + 1 \in 1..Len(stream) /\ pos + 1 \in 0..Len(stream) /\ pos \in Nat
      /\ k \in Keyed /\ stream[pos + 1].price \in Int
  BY ReadsElement
<1>2. Priced(stream) /\ pos \in 0..Len(stream) /\ state[k] \in Int \cup {Absent}
  BY <1>1 DEF SumTyped
<1>3. /\ state[k] # Absent => \E i \in Places(stream, k, pos) : state[k] = Suffix(stream, k, i, pos)
      /\ expired = 0 /\ Places(stream, k, pos) # {} => state[k] = Suffix(stream, k, 1, pos)
  BY <1>1 DEF StateSums
<1>. DEFINE price == stream[pos + 1].price
<1>4. \A i \in 1..(pos + 1) : Suffix(stream, k, i, pos + 1) = Suffix(stream, k, i, pos) + price
  BY <1>2, SuffixGrows
<1>5. sum \in Int BY <1>1, <1>2
<1>6. \E i \in Places(stream, k, pos + 1) : sum = Suffix(stream, k, i, pos + 1)
  <2>1. CASE state[k] = Absent
    <3>1. pos + 1 \in Places(stream, k, pos + 1) BY <1>1 DEF Places
    <3>2. Suffix(stream, k, pos + 1, pos) = 0 BY <1>2, SuffixStarts
    <3>3. pos + 1 \in 1..(pos + 1) BY <1>1
    <3>4. Suffix(stream, k, pos + 1, pos + 1) = 0 + price BY <1>4, <3>2, <3>3
    <3>. QED BY <2>1, <3>1, <3>4
  <2>2. CASE state[k] # Absent
    <3>1. PICK i \in Places(stream, k, pos) : state[k] = Suffix(stream, k, i, pos)
      BY <1>3, <2>2
    <3>2. i \in Places(stream, k, pos + 1) /\ i \in 1..(pos + 1) BY <1>1 DEF Places
    <3>3. Suffix(stream, k, i, pos + 1) = state[k] + price BY <1>4, <3>1, <3>2
    <3>. QED BY <2>2, <3>2, <3>3
  <2>. QED BY <2>1, <2>2
<1>7. ASSUME expired = 0 PROVE sum = Suffix(stream, k, 1, pos + 1)
  <2>1. current = Suffix(stream, k, 1, pos)
    <3>1. CASE Places(stream, k, pos) = {}
      <4>1. state[k] = Absent BY <1>3, <3>1
      <4>. QED BY <1>2, <3>1, <4>1, SuffixStarts
    <3>2. CASE Places(stream, k, pos) # {}
      <4>1. state[k] = Suffix(stream, k, 1, pos) BY <1>3, <1>7, <3>2
      <4>2. Suffix(stream, k, 1, pos) \in Int BY <1>2, SuffixType
      <4>3. state[k] # Absent BY <4>1, <4>2, AbsentAssumption DEF AbsentAssumption
      <4>. QED BY <4>1, <4>3
    <3>. QED BY <3>1, <3>2
  <2>2. 1 \in 1..(pos + 1) BY <1>1
  <2>. QED BY <1>4, <2>1, <2>2
<1>. QED BY <1>5, <1>6, <1>7

(* A result is added at the end of the results. *)
LEMMA Appended ==
  ASSUME NEW R, NEW o \in Seq(R), NEW r \in R, NEW p, p = Append(o, r)
  PROVE  /\ p \in Seq(R) /\ Len(o) \in Nat /\ Len(p) = Len(o) + 1
         /\ p[Len(o) + 1] = r
         /\ \A n \in 1..Len(o) : p[n] = o[n]
         /\ \A n \in 1..Len(p) : n \in 1..Len(o) \/ n = Len(o) + 1
OBVIOUS

(* How many places, timers and results there are. *)
LEMMA CountsGrow ==
  ASSUME NEW s, Priced(s), NEW n \in 0..Len(s), n < Len(s), NEW k
  PROVE  /\ Cardinality(Places(s, k, n)) \in Nat
         /\ s[n + 1].key = k =>
              /\ Cardinality(Places(s, k, n + 1)) = Cardinality(Places(s, k, n)) + 1
              /\ Times(s, k, n + 1) = Times(s, k, n) \cup {s[n + 1].ts}
              /\ IsFiniteSet(Times(s, k, n))
         /\ s[n + 1].key # k => /\ Places(s, k, n + 1) = Places(s, k, n)
                                /\ Times(s, k, n + 1) = Times(s, k, n)
<1>1. n \in Nat /\ n + 1 \in 1..(n + 1) BY DEF Priced
<1>2. IsFiniteSet(1..n) BY <1>1, FS_Interval
<1>3. IsFiniteSet(Places(s, k, n)) /\ Cardinality(Places(s, k, n)) \in Nat
  <2>1. Places(s, k, n) \subseteq 1..n BY DEF Places
  <2>. QED BY <1>2, <2>1, FS_Subset, FS_CardinalityType
<1>4. ASSUME s[n + 1].key = k
      PROVE  /\ Cardinality(Places(s, k, n + 1)) = Cardinality(Places(s, k, n)) + 1
             /\ Times(s, k, n + 1) = Times(s, k, n) \cup {s[n + 1].ts}
  <2>1. Places(s, k, n + 1) = Places(s, k, n) \cup {n + 1} /\ n + 1 \notin Places(s, k, n)
    BY <1>1, <1>4 DEF Places
  <2>. QED BY <1>3, <2>1, FS_AddElement DEF Times
<1>5. IsFiniteSet(Times(s, k, n))
  <2>. DEFINE P == Places(s, k, n)
              f == [i \in P |-> s[i].ts]
  <2>1. f \in Surjection(P, Times(s, k, n)) BY DEF Surjection, Times
  <2>. HIDE DEF P, f
  <2>. QED BY <1>3, <2>1, FS_Surjection DEF P
<1>. QED BY <1>3, <1>4, <1>5, SuffixOther DEF Times


(* What a sequence holds. *)
LEMMA ElementIn ==
  ASSUME NEW R, NEW o \in Seq(R), NEW n \in 1..Len(o)
  PROVE  o[n] \in R
OBVIOUS

(* A new result is none of another key's. *)
LEMMA ResultsOther ==
  ASSUME NEW R, NEW o \in Seq(R), NEW r \in R, NEW k, r.key # k
  PROVE  ResultsOf(Append(o, r), k) = ResultsOf(o, k)
<1>. DEFINE p == Append(o, r)
<1>1. /\ Len(o) \in Nat /\ Len(p) = Len(o) + 1 /\ p[Len(o) + 1] = r
      /\ \A n \in 1..Len(o) : p[n] = o[n]
  BY Appended
<1>2. 1..Len(p) = 1..Len(o) \cup {Len(o) + 1} BY <1>1
<1>. HIDE DEF p
<1>3. ResultsOf(p, k) = ResultsOf(o, k) BY <1>1, <1>2 DEF ResultsOf
<1>. QED BY <1>3 DEF p

(* There are finitely many results. *)
LEMMA ResultsFinite ==
  ASSUME NEW R, NEW o \in Seq(R), NEW k
  PROVE  IsFiniteSet(ResultsOf(o, k)) /\ Cardinality(ResultsOf(o, k)) \in Nat
<1>1. ResultsOf(o, k) \subseteq 1..Len(o) /\ IsFiniteSet(1..Len(o))
  BY FS_Interval DEF ResultsOf
<1>. QED BY <1>1, FS_Subset, FS_CardinalityType

(* A new result counts for its key. *)
LEMMA ResultsGrow ==
  ASSUME NEW R, NEW o \in Seq(R), NEW r \in R, NEW k, r.key = k
  PROVE  Cardinality(ResultsOf(Append(o, r), k)) = Cardinality(ResultsOf(o, k)) + 1
<1>. DEFINE p == Append(o, r)
<1>1. /\ Len(o) \in Nat /\ Len(p) = Len(o) + 1 /\ p[Len(o) + 1] = r
      /\ \A n \in 1..Len(o) : p[n] = o[n]
  BY Appended
<1>2. 1..Len(p) = 1..Len(o) \cup {Len(o) + 1} /\ Len(o) + 1 \notin 1..Len(o) BY <1>1
<1>. HIDE DEF p
<1>3. /\ ResultsOf(p, k) = ResultsOf(o, k) \cup {Len(o) + 1}
      /\ Len(o) + 1 \notin ResultsOf(o, k)
  BY <1>1, <1>2 DEF ResultsOf
<1>4. Cardinality(ResultsOf(p, k)) = Cardinality(ResultsOf(o, k)) + 1
  BY <1>3, ResultsFinite, FS_AddElement
<1>. QED BY <1>4 DEF p

(* Timers that are set or fire count for their key alone. *)
LEMMA TimersChange ==
  ASSUME NEW T, IsFiniteSet(T), NEW t, NEW k
  PROVE  /\ IsFiniteSet(TimersOf(T, k)) /\ Cardinality(TimersOf(T, k)) \in Nat
         /\ t[2] = k /\ t \notin T =>
              Cardinality(TimersOf(T \cup {t}, k)) = Cardinality(TimersOf(T, k)) + 1
         /\ t[2] = k /\ t \in T =>
              Cardinality(TimersOf(T \ {t}, k)) = Cardinality(TimersOf(T, k)) - 1
         /\ t[2] # k => TimersOf(T \cup {t}, k) = TimersOf(T, k)
                        /\ TimersOf(T \ {t}, k) = TimersOf(T, k)
<1>1. IsFiniteSet(TimersOf(T, k)) /\ Cardinality(TimersOf(T, k)) \in Nat
  <2>1. TimersOf(T, k) \subseteq T BY DEF TimersOf
  <2>. QED BY <2>1, FS_Subset, FS_CardinalityType
<1>2. ASSUME t[2] = k, t \notin T
      PROVE  TimersOf(T \cup {t}, k) = TimersOf(T, k) \cup {t} /\ t \notin TimersOf(T, k)
  BY <1>2 DEF TimersOf
<1>3. ASSUME t[2] = k, t \in T
      PROVE  TimersOf(T \ {t}, k) = TimersOf(T, k) \ {t} /\ t \in TimersOf(T, k)
  BY <1>3 DEF TimersOf
<1>4. ASSUME t[2] # k
      PROVE  TimersOf(T \cup {t}, k) = TimersOf(T, k) /\ TimersOf(T \ {t}, k) = TimersOf(T, k)
  BY <1>4 DEF TimersOf
<1>. QED BY <1>1, <1>2, <1>3, <1>4, FS_AddElement, FS_RemoveElement

(* A new result that is such a sum leaves the results sums. *)
LEMMA OutSumsGrow ==
  ASSUME OutSums, NEW R, out \in Seq(R), NEW r \in R, out' = Append(out, r),
         stream' = stream, expired' = expired,
         r.value # Absent => \E i \in Places(stream, r.key, r.upto) :
                               r.value = Suffix(stream, r.key, i, r.upto),
         expired = 0 => r.value = Suffix(stream, r.key, 1, r.upto)
  PROVE  OutSums'
<1>. DEFINE ok(q) == /\ q.value # Absent => \E i \in Places(stream, q.key, q.upto) :
                                              q.value = Suffix(stream, q.key, i, q.upto)
                     /\ expired = 0 => q.value = Suffix(stream, q.key, 1, q.upto)
<1>1. ok(r) OBVIOUS
<1>2. \A n \in 1..Len(out) : ok(out[n]) BY DEF OutSums
<1>3. OutSums' <=> \A n \in 1..Len(out') : ok(out'[n]) BY DEF OutSums
<1>. HIDE DEF ok
<1>4. /\ out'[Len(out) + 1] = r
      /\ \A n \in 1..Len(out) : out'[n] = out[n]
      /\ \A n \in 1..Len(out') : n \in 1..Len(out) \/ n = Len(out) + 1
  BY Appended
<1>. QED BY <1>1, <1>2, <1>3, <1>4

-------------------------------------------------------------------------------
(* The steps *)

(* In the beginning nothing has been read. *)
LEMMA SumInit == KeyedSum!Init => SumInv
<1>. SUFFICES ASSUME KeyedSum!Init PROVE SumInv OBVIOUS
<1>. USE DEF KeyedSum!Init
<1>1. Priced(stream)
  <2>1. CASE stream = KeyedSum!Prices
    <3>1. Len(stream) = 8 /\ DOMAIN stream = 1..8 BY <2>1 DEF KeyedSum!Prices
    <3>2. \A i \in 1..8 : stream[i].ts \in Int /\ stream[i].price \in Int
      BY <2>1 DEF KeyedSum!Prices
    <3>. QED BY <3>1, <3>2 DEF Priced
  <2>2. CASE stream \in Summed
    <3>1. stream \in Seq([ts : Int, key : STRING, price : Int])
      BY <2>2, SummedAssumption DEF SummedAssumption
    <3>2. Len(stream) \in Nat /\ DOMAIN stream = 1..Len(stream) BY <3>1
    <3>3. \A i \in 1..Len(stream) : stream[i] \in [ts : Int, key : STRING, price : Int]
      BY <3>1, ElementIn
    <3>. QED BY <3>2, <3>3 DEF Priced
  <2>. QED BY <2>1, <2>2
<1>2. pos = 0 /\ timers = {} /\ expired = 0 /\ out = <<>> OBVIOUS
<1>3. \A k : Places(stream, k, pos) = {} BY <1>2 DEF Places
<1>4. SumTyped BY <1>1, <1>2, FS_EmptySet DEF SumTyped, Keyed, Priced
<1>5. StateSums BY <1>3 DEF StateSums, Keyed
<1>6. TimersRead BY <1>2 DEF TimersRead
<1>7. OutSums BY <1>2 DEF OutSums
<1>8. EachReported
  <2>1. ASSUME NEW k
        PROVE  TimersOf(timers, k) = {} /\ ResultsOf(out, k) = {} /\ Times(stream, k, pos) = {}
    BY <1>2, <1>3 DEF TimersOf, ResultsOf, Times
  <2>2. Cardinality({}) = 0 BY FS_EmptySet
  <2>3. \A k : Reports(timers, out, k) = 0
    <3>. SUFFICES ASSUME NEW k PROVE Reports(timers, out, k) = 0 OBVIOUS
    <3>1. Cardinality(TimersOf(timers, k)) = 0 /\ Cardinality(ResultsOf(out, k)) = 0
      BY <2>1, <2>2
    <3>. QED BY <3>1 DEF Reports
  <2>4. /\ \A k : Cardinality(Places(stream, k, pos)) = 0
        /\ \A k : Cardinality(Times(stream, k, pos)) = 0
    BY <1>3, <2>1, <2>2
  <2>. QED BY <2>3, <2>4 DEF EachReported
<1>. QED BY <1>4, <1>5, <1>6, <1>7, <1>8 DEF SumInv


(* A sum of an earlier state holds of the state with one more element, for *)
(* the keys of other elements.                                             *)
LEMMA OthersKept ==
  ASSUME SumTyped, StateSums, pos < Len(stream), NEW k \in Keyed, stream[pos + 1].key # k
  PROVE  /\ state[k] # Absent =>
              \E i \in Places(stream, k, pos + 1) : state[k] = Suffix(stream, k, i, pos + 1)
         /\ expired = 0 /\ Places(stream, k, pos + 1) # {} =>
              state[k] = Suffix(stream, k, 1, pos + 1)
<1>1. /\ Places(stream, k, pos + 1) = Places(stream, k, pos)
      /\ \A i : Suffix(stream, k, i, pos + 1) = Suffix(stream, k, i, pos)
  BY SuffixOther DEF SumTyped
<1>. QED BY <1>1 DEF StateSums

(* process_element keeps the sums, the timers and the counts.              *)
LEMMA ReadKeepsSums ==
  ASSUME SumInv, KeyedSum!Read
  PROVE  SumInv'
<1>. DEFINE n == pos + 1
            k0 == stream[n].key
            at == stream[n].ts
            current == IF state[k0] = Absent THEN 0 ELSE state[k0]
            sum == current + stream[n].price
            timer == <<at + 2, k0>>
            result == [key |-> k0, value |-> sum, upto |-> n]
<1>1. /\ SumTyped /\ StateSums /\ TimersRead /\ OutSums /\ EachReported BY DEF SumInv
<1>2. /\ pos < Len(stream) /\ pos' = n
      /\ job' = job /\ stream' = stream /\ expired' = expired
  BY DEF KeyedSum!Read
<1>3. /\ state' = [state EXCEPT ![k0] = sum]
      /\ KeyedSum!Timed => timers' = timers \cup {timer} /\ out' = out
      /\ ~ KeyedSum!Timed => timers' = timers /\ out' = Append(out, result)
  BY <1>2 DEF KeyedSum!Read, KeyedSum!Process, KeyedSum!Yield
<1>4. /\ n \in 1..Len(stream) /\ n \in 0..Len(stream) /\ pos \in Nat
      /\ k0 \in Keyed /\ at \in Int
  BY <1>1, <1>2, ReadsElement
<1>5. /\ sum \in Int
      /\ \E i \in Places(stream, k0, n) : sum = Suffix(stream, k0, i, n)
      /\ expired = 0 => sum = Suffix(stream, k0, 1, n)
  <2>. HIDE DEF k0, current, sum
  <2>1. k0 = stream[pos + 1].key BY DEF k0
  <2>2. current = IF state[k0] = Absent THEN 0 ELSE state[k0] BY DEF current
  <2>3. sum = current + stream[pos + 1].price BY DEF sum
  <2>. QED BY <1>1, <1>2, <2>1, <2>2, <2>3, SumComputed
<1>6. Keyed' = Keyed /\ KeyedSum!Timed' = KeyedSum!Timed
  BY <1>2 DEF Keyed, KeyedSum!Keys, KeyedSum!Timed
<1>. HIDE DEF current, sum
<1>7. Priced(stream) /\ pos \in 0..Len(stream) /\ IsFiniteSet(timers)
      /\ state \in [Keyed -> Int \cup {Absent}]
      /\ out \in Seq([key : Keyed, value : Int \cup {Absent}, upto : 0..Len(stream)])
  BY <1>1 DEF SumTyped
<1>8. result \in [key : Keyed, value : Int \cup {Absent}, upto : 0..Len(stream)]
  BY <1>4, <1>5
<1>9. SumTyped'
  <2>1. Priced(stream') /\ pos' \in 0..Len(stream') BY <1>2, <1>4, <1>7
  <2>2. state' \in [Keyed -> Int \cup {Absent}] BY <1>3, <1>5, <1>7
  <2>3. IsFiniteSet(timers') BY <1>3, <1>7, FS_AddElement
  <2>4. out' \in Seq([key : Keyed, value : Int \cup {Absent}, upto : 0..Len(stream)])
    <3>. DEFINE R == [key : Keyed, value : Int \cup {Absent}, upto : 0..Len(stream)]
    <3>1. out \in Seq(R) /\ result \in R BY <1>7, <1>8
    <3>. HIDE DEF result, R
    <3>2. out' = out \/ out' = Append(out, result) BY <1>3
    <3>3. Append(out, result) \in Seq(R) BY <3>1, Appended
    <3>4. out' \in Seq(R) BY <3>1, <3>2, <3>3
    <3>. QED BY <3>4 DEF R
  <2>. QED BY <1>1, <1>2, <1>6, <2>1, <2>2, <2>3, <2>4 DEF SumTyped
<1>10. StateSums'
  <2>. SUFFICES ASSUME NEW k \in Keyed
       PROVE  /\ state'[k] # Absent =>
                   \E i \in Places(stream, k, n) : state'[k] = Suffix(stream, k, i, n)
              /\ expired = 0 /\ Places(stream, k, n) # {} => state'[k] = Suffix(stream, k, 1, n)
    BY <1>2, <1>6 DEF StateSums
  <2>1. CASE k = k0
    <3>1. state'[k] = sum BY <1>3, <1>7, <2>1
    <3>. QED BY <1>5, <2>1, <3>1
  <2>2. CASE k # k0
    <3>1. state'[k] = state[k] BY <1>3, <1>7, <2>2
    <3>2. stream[pos + 1].key # k BY <2>2
    <3>. QED BY <1>1, <1>2, <3>1, <3>2, OthersKept
  <2>. QED BY <2>1, <2>2
<1>11. TimersRead'
  <2>. SUFFICES ASSUME NEW t \in timers'
       PROVE  t[2] \in Keyed /\ \E i \in Places(stream, t[2], n) : t = <<stream[i].ts + 2, t[2]>>
    BY <1>2, <1>6 DEF TimersRead
  <2>1. CASE t \in timers
    <3>1. t[2] \in Keyed /\ \E i \in Places(stream, t[2], pos) : t = <<stream[i].ts + 2, t[2]>>
      BY <1>1, <2>1 DEF TimersRead
    <3>2. Places(stream, t[2], pos) \subseteq Places(stream, t[2], n) BY <1>4 DEF Places
    <3>. QED BY <3>1, <3>2
  <2>2. CASE t \notin timers
    <3>1. t = timer BY <1>3, <2>2
    <3>2. t[2] = k0 /\ n \in Places(stream, k0, n) BY <1>4, <3>1 DEF Places
    <3>. QED BY <1>4, <3>1, <3>2
  <2>. QED BY <2>1, <2>2
<1>12. OutSums'
  <2>1. CASE out' = out BY <1>1, <1>2, <2>1 DEF OutSums
  <2>2. CASE out' = Append(out, result)
    <3>1. result.key = k0 /\ result.value = sum /\ result.upto = n OBVIOUS
    <3>. HIDE DEF result, k0, n
    <3>. QED BY <1>1, <1>2, <1>5, <1>7, <1>8, <2>2, <3>1, OutSumsGrow
  <2>. QED BY <1>3, <2>1, <2>2
<1>13. EachReported'
  <2>. SUFFICES ASSUME NEW k \in Keyed
       PROVE  /\ Reports(timers', out', k) =< Cardinality(Places(stream, k, n))
              /\ Reports(timers', out', k) >= Cardinality(
                    IF KeyedSum!Timed THEN Times(stream, k, n) ELSE Places(stream, k, n))
    BY <1>2, <1>6 DEF EachReported
  <2>. DEFINE P == Cardinality(Places(stream, k, pos))
              T == Cardinality(TimersOf(timers, k))
              O == Cardinality(ResultsOf(out, k))
  <2>1. /\ Reports(timers, out, k) =< P
        /\ Reports(timers, out, k) >= Cardinality(
             IF KeyedSum!Timed THEN Times(stream, k, pos) ELSE Places(stream, k, pos))
    BY <1>1 DEF EachReported
  <2>2. /\ T + O =< P
        /\ KeyedSum!Timed => T + O >= Cardinality(Times(stream, k, pos))
        /\ ~ KeyedSum!Timed => T + O >= P
    BY <2>1 DEF Reports
  <2>3. T \in Nat /\ O \in Nat /\ P \in Nat
    BY <1>2, <1>7, ResultsFinite, TimersChange, CountsGrow
  <2>4. CASE k # k0
    <3>1. TimersOf(timers', k) = TimersOf(timers, k)
      <4>1. timer[2] # k BY <2>4
      <4>. HIDE DEF timer
      <4>2. TimersOf(timers \cup {timer}, k) = TimersOf(timers, k) BY <1>7, <4>1, TimersChange
      <4>3. timers' = timers \cup {timer} \/ timers' = timers BY <1>3
      <4>. QED BY <4>2, <4>3
    <3>2. ResultsOf(out', k) = ResultsOf(out, k)
      <4>1. result.key # k BY <2>4
      <4>. DEFINE R == [key : Keyed, value : Int \cup {Absent}, upto : 0..Len(stream)]
      <4>2. out \in Seq(R) /\ result \in R BY <1>7, <1>8
      <4>. HIDE DEF result, R
      <4>3. ResultsOf(Append(out, result), k) = ResultsOf(out, k) BY <4>1, <4>2, ResultsOther
      <4>4. out' = Append(out, result) \/ out' = out BY <1>3
      <4>. QED BY <4>3, <4>4
    <3>3. Places(stream, k, n) = Places(stream, k, pos) /\ Times(stream, k, n) = Times(stream, k, pos)
      BY <1>2, <1>7, <2>4, CountsGrow
    <3>. QED BY <2>1, <3>1, <3>2, <3>3 DEF Reports
  <2>5. CASE k = k0
    <3>1. /\ Cardinality(Places(stream, k, n)) = P + 1
          /\ Times(stream, k, n) = Times(stream, k, pos) \cup {at}
          /\ IsFiniteSet(Times(stream, k, pos))
      BY <1>2, <1>7, <2>5, CountsGrow
    <3>2. CASE ~ KeyedSum!Timed
      <4>1. Cardinality(ResultsOf(out', k)) = O + 1
        <5>1. result.key = k BY <2>5
        <5>. DEFINE R == [key : Keyed, value : Int \cup {Absent}, upto : 0..Len(stream)]
        <5>2. out \in Seq(R) /\ result \in R BY <1>7, <1>8
        <5>3. out' = Append(out, result) BY <1>3, <3>2
        <5>. HIDE DEF result, R
        <5>4. Cardinality(ResultsOf(Append(out, result), k)) = O + 1
          BY <5>1, <5>2, ResultsGrow
        <5>. QED BY <5>3, <5>4
      <4>2. Reports(timers', out', k) = T + (O + 1) BY <1>3, <3>2, <4>1 DEF Reports
      <4>. HIDE DEF T, O, P
      <4>. QED BY <2>2, <2>3, <3>1, <3>2, <4>2
    <3>3. CASE KeyedSum!Timed
      <4>1. out' = out /\ timers' = timers \cup {timer} BY <1>3, <3>3
      <4>2. CASE timer \notin timers
        <5>1. Cardinality(TimersOf(timers', k)) = T + 1
          <6>1. timer[2] = k BY <2>5
          <6>. HIDE DEF timer
          <6>. QED BY <1>7, <4>1, <4>2, <6>1, TimersChange
        <5>2. Reports(timers', out', k) = (T + 1) + O BY <4>1, <5>1 DEF Reports
        <5>3. /\ Cardinality(Times(stream, k, n)) =< Cardinality(Times(stream, k, pos)) + 1
              /\ Cardinality(Times(stream, k, n)) \in Nat
              /\ Cardinality(Times(stream, k, pos)) \in Nat
          <6>. DEFINE S == Times(stream, k, pos)  U == Times(stream, k, n)
          <6>1. U = S \cup {at} /\ IsFiniteSet(S) BY <3>1
          <6>. HIDE DEF S, U, at
          <6>2. Cardinality(S) \in Nat BY <6>1, FS_CardinalityType
          <6>3. at \in S => U = S BY <6>1
          <6>4. at \notin S => Cardinality(U) = Cardinality(S) + 1 BY <6>1, FS_AddElement
          <6>5. Cardinality(U) =< Cardinality(S) + 1 /\ Cardinality(U) \in Nat
            BY <6>2, <6>3, <6>4
          <6>. QED BY <6>2, <6>5 DEF S, U
        <5>. HIDE DEF T, O, P
        <5>. QED BY <2>2, <2>3, <3>1, <3>3, <5>2, <5>3
      <4>3. CASE timer \in timers
        <5>1. timers' = timers BY <4>1, <4>3
        <5>2. Reports(timers', out', k) = T + O BY <4>1, <5>1 DEF Reports
        <5>3. at \in Times(stream, k, pos)
          <6>1. PICK i \in Places(stream, timer[2], pos) :
                  timer = <<stream[i].ts + 2, timer[2]>>
            BY <1>1, <4>3 DEF TimersRead
          <6>2. at + 2 = stream[i].ts + 2 BY <6>1
          <6>3. i \in Places(stream, k, pos) BY <2>5, <6>1
          <6>4. stream[i].ts \in Int BY <1>4, <1>7, <6>3 DEF Places, Priced
          <6>5. at = stream[i].ts
            <7>. HIDE DEF at
            <7>. QED BY <1>4, <6>2, <6>4
          <6>. QED BY <6>3, <6>5 DEF Times
        <5>4. Times(stream, k, n) = Times(stream, k, pos) BY <3>1, <5>3
        <5>. HIDE DEF T, O, P
        <5>. QED BY <2>2, <2>3, <3>1, <3>3, <5>2, <5>4
      <4>. QED BY <4>2, <4>3
    <3>. QED BY <3>2, <3>3
  <2>. QED BY <2>4, <2>5
<1>. QED BY <1>9, <1>10, <1>11, <1>12, <1>13 DEF SumInv


(* on_timer yields what the state holds and leaves it.                     *)
LEMMA TimerKeepsSums ==
  ASSUME SumInv, KeyedSum!FireTimer
  PROVE  SumInv'
<1>1. /\ SumTyped /\ StateSums /\ TimersRead /\ OutSums /\ EachReported BY DEF SumInv
<1>2. PICK t \in timers :
        /\ timers' = timers \ {t} /\ pos' = pos
        /\ out' = Append(out, [key |-> t[2], value |-> state[t[2]], upto |-> pos])
        /\ state' = state /\ job' = job /\ stream' = stream /\ expired' = expired
  BY DEF KeyedSum!FireTimer, KeyedSum!Due, KeyedSum!OnTimer, KeyedSum!Yield
<1>. DEFINE k0 == t[2]
            result == [key |-> k0, value |-> state[k0], upto |-> pos]
            R == [key : Keyed, value : Int \cup {Absent}, upto : 0..Len(stream)]
<1>3. k0 \in Keyed /\ Places(stream, k0, pos) # {} BY <1>1 DEF TimersRead
<1>4. result \in R /\ out \in Seq(R) /\ out' = Append(out, result)
  BY <1>1, <1>2, <1>3 DEF SumTyped
<1>5. Keyed' = Keyed /\ KeyedSum!Timed' = KeyedSum!Timed
  BY <1>2 DEF Keyed, KeyedSum!Keys, KeyedSum!Timed
<1>6. SumTyped'
  <2>1. out' \in Seq(R)
    <3>. HIDE DEF R, result
    <3>. QED BY <1>4, Appended
  <2>2. IsFiniteSet(timers') BY <1>1, <1>2, FS_Subset DEF SumTyped
  <2>. HIDE DEF result
  <2>. QED BY <1>1, <1>2, <1>5, <2>1, <2>2 DEF SumTyped
<1>7. StateSums' BY <1>1, <1>2, <1>5 DEF StateSums
<1>8. TimersRead' BY <1>1, <1>2, <1>5 DEF TimersRead
<1>9. OutSums'
  <2>1. result.key = k0 /\ result.value = state[k0] /\ result.upto = pos OBVIOUS
  <2>2. /\ state[k0] # Absent =>
             \E i \in Places(stream, k0, pos) : state[k0] = Suffix(stream, k0, i, pos)
        /\ expired = 0 => state[k0] = Suffix(stream, k0, 1, pos)
    BY <1>1, <1>3 DEF StateSums
  <2>. HIDE DEF result, R, k0
  <2>. QED BY <1>1, <1>2, <1>4, <2>1, <2>2, OutSumsGrow
<1>10. EachReported'
  <2>. SUFFICES ASSUME NEW k \in Keyed PROVE Reports(timers', out', k) = Reports(timers, out, k)
    BY <1>1, <1>2, <1>5 DEF EachReported
  <2>1. result.key = k0 /\ IsFiniteSet(timers) BY <1>1 DEF SumTyped
  <2>. HIDE DEF result, R
  <2>2. /\ Cardinality(ResultsOf(out, k)) \in Nat
        /\ k0 = k => Cardinality(ResultsOf(out', k)) = Cardinality(ResultsOf(out, k)) + 1
        /\ k0 # k => ResultsOf(out', k) = ResultsOf(out, k)
    <3>. HIDE DEF k0
    <3>1. result \in R /\ out \in Seq(R) /\ out' = Append(out, result) BY <1>4
    <3>2. Cardinality(ResultsOf(out, k)) \in Nat BY <3>1, ResultsFinite
    <3>3. ASSUME k0 = k
          PROVE  Cardinality(ResultsOf(Append(out, result), k)) = Cardinality(ResultsOf(out, k)) + 1
      BY <2>1, <3>1, <3>3, ResultsGrow
    <3>4. ASSUME k0 # k PROVE ResultsOf(Append(out, result), k) = ResultsOf(out, k)
      BY <2>1, <3>1, <3>4, ResultsOther
    <3>. QED BY <3>1, <3>2, <3>3, <3>4
  <2>3. /\ Cardinality(TimersOf(timers, k)) \in Nat
        /\ k0 = k => Cardinality(TimersOf(timers', k)) = Cardinality(TimersOf(timers, k)) - 1
        /\ k0 # k => TimersOf(timers', k) = TimersOf(timers, k)
    BY <1>2, <2>1, TimersChange
  <2>. HIDE DEF k0
  <2>. QED BY <2>2, <2>3 DEF Reports
<1>. QED BY <1>6, <1>7, <1>8, <1>9, <1>10 DEF SumInv

(* State that expires is forgotten. *)
LEMMA ExpireKeepsSums ==
  ASSUME SumInv, KeyedSum!Expire
  PROVE  SumInv'
<1>1. /\ SumTyped /\ StateSums /\ TimersRead /\ OutSums /\ EachReported BY DEF SumInv
<1>2. PICK k0 \in Keyed : state' = [state EXCEPT ![k0] = Absent]
  BY DEF KeyedSum!Expire, Keyed
<1>3. /\ expired' = expired + 1
      /\ job' = job /\ stream' = stream /\ pos' = pos /\ timers' = timers /\ out' = out
  BY DEF KeyedSum!Expire
<1>4. Keyed' = Keyed /\ KeyedSum!Timed' = KeyedSum!Timed
  BY <1>3 DEF Keyed, KeyedSum!Keys, KeyedSum!Timed
<1>5. expired \in Nat /\ expired' # 0 /\ state \in [Keyed -> Int \cup {Absent}]
  BY <1>1, <1>3 DEF SumTyped
<1>6. SumTyped' BY <1>1, <1>2, <1>3, <1>4 DEF SumTyped
<1>7. \A k \in Keyed : state'[k] # Absent => state'[k] = state[k] BY <1>2, <1>5
<1>8. StateSums' BY <1>1, <1>3, <1>4, <1>5, <1>7 DEF StateSums
<1>9. TimersRead' BY <1>1, <1>3, <1>4 DEF TimersRead
<1>10. OutSums' BY <1>1, <1>3, <1>5 DEF OutSums
<1>11. EachReported' BY <1>1, <1>3, <1>4 DEF EachReported
<1>. QED BY <1>6, <1>8, <1>9, <1>10, <1>11 DEF SumInv

(* A step that leaves what the sums are about leaves the invariant.        *)
LEMMA SumsUnchanged ==
  ASSUME SumInv, job' = job, stream' = stream, pos' = pos, state' = state,
         timers' = timers, expired' = expired, out' = out
  PROVE  SumInv'
<1>1. Keyed' = Keyed /\ KeyedSum!Timed' = KeyedSum!Timed
  BY DEF Keyed, KeyedSum!Keys, KeyedSum!Timed
<1>2. SumTyped' BY <1>1 DEF SumInv, SumTyped
<1>3. StateSums' BY <1>1 DEF SumInv, StateSums
<1>4. TimersRead' BY <1>1 DEF SumInv, TimersRead
<1>5. OutSums' BY DEF SumInv, OutSums
<1>6. EachReported' BY <1>1 DEF SumInv, EachReported
<1>. QED BY <1>2, <1>3, <1>4, <1>5, <1>6 DEF SumInv

(* Only the keyed sums' own steps are taken while one of them runs.        *)
LEMMA SumStepIs ==
  ASSUME [Next]_vars, which' = "sum"
  PROVE  /\ which = "sum"
         /\ \/ KeyedSum!Read \/ KeyedSum!FireTimer \/ KeyedSum!Expire
            \/ /\ job' = job /\ stream' = stream /\ pos' = pos /\ state' = state
               /\ timers' = timers /\ expired' = expired /\ out' = out
<1>1. CASE UNCHANGED vars BY <1>1 DEF vars, sumVars
<1>2. CASE NextWindows BY <1>2 DEF NextWindows
<1>3. CASE NextCount BY <1>3 DEF NextCount
<1>4. CASE NextOver BY <1>4 DEF NextOver
<1>5. CASE Advance
  <2>1. which = "sum" BY <1>5 DEF Advance, InSum
  <2>2. CASE KeyedSum!Watermark BY <2>1, <2>2 DEF KeyedSum!Watermark
  <2>. QED BY <1>5, <2>1, <2>2 DEF Advance, KeyedSum!Advance
<1>6. CASE Expire BY <1>6 DEF Expire, InSum
<1>7. CASE ReadLeft \/ ReadRight BY <1>7 DEF ReadLeft, ReadRight, InJoin
<1>. QED BY <1>1, <1>2, <1>3, <1>4, <1>5, <1>6, <1>7 DEF Next

(* The sums, the timers and the results keep being about the elements that *)
(* have been read.                                                         *)
THEOREM SumsInvariance == Spec => [](which = "sum" => SumInv)
<1>. DEFINE Inv == which = "sum" => SumInv
<1>1. Init => Inv
  <2>. SUFFICES ASSUME Init, which = "sum" PROVE SumInv OBVIOUS
  <2>. QED BY SumInit DEF Init
<1>2. Inv /\ [Next]_vars => Inv'
  <2>. SUFFICES ASSUME Inv, [Next]_vars, which' = "sum" PROVE SumInv' OBVIOUS
  <2>1. which = "sum" /\ SumInv BY SumStepIs
  <2>. QED
    BY <2>1, SumStepIs, ReadKeepsSums, TimerKeepsSums, ExpireKeepsSums, SumsUnchanged
<1>. QED BY <1>1, <1>2, PTL DEF Spec

(* Each result is the sum of the latest elements of its key up to the last *)
(* one read, of all of them if no state expired, whatever the input.       *)
THEOREM AlwaysSumsOfSuffixes == Spec => []SumsOfSuffixes
<1>1. (which = "sum" => SumInv) => SumsOfSuffixes
  <2>. SUFFICES ASSUME SumInv, NEW n \in DOMAIN out
       PROVE  LET r == out[n] IN
              /\ \/ r.value = Absent
                 \/ \E i \in KeyedSum!Elements(r.key, r.upto) :
                      r.value = KeyedSum!SumFrom(r.key, i, r.upto)
              /\ expired = 0 => r.value = KeyedSum!SumFrom(r.key, 1, r.upto)
    BY DEF SumsOfSuffixes, KeyedSum!SumsOfSuffixes
  <2>. DEFINE R == [key : Keyed, value : Int \cup {Absent}, upto : 0..Len(stream)]
  <2>1. Priced(stream) /\ out \in Seq(R) BY DEF SumInv, SumTyped
  <2>2. n \in 1..Len(out) BY <2>1
  <2>3. out[n] \in R
    <3>. HIDE DEF R
    <3>. QED BY <2>1, <2>2, ElementIn
  <2>4. out[n].upto \in 0..Len(stream) BY <2>3
  <2>5. \A k, i : KeyedSum!SumFrom(k, i, out[n].upto) = Suffix(stream, k, i, out[n].upto)
    BY <2>1, <2>4, SumIs
  <2>6. \A k : KeyedSum!Elements(k, out[n].upto) = Places(stream, k, out[n].upto)
    BY DEF KeyedSum!Elements, Places
  <2>. QED BY <2>2, <2>5, <2>6 DEF SumInv, OutSums
<1>. QED BY <1>1, SumsInvariance, PTL

(* Cardinality is the same in the module of the sums. *)
LEMMA SameCardinality == \A S : KeyedSum!Cardinality(S) = Cardinality(S)
BY Zenon DEF KeyedSum!Cardinality, Cardinality

(* No element goes unreported and none is reported twice: results and      *)
(* pending timers of a key are as many as its elements, or as their times. *)
THEOREM AlwaysAccounted == Spec => []Accounted
<1>1. (which = "sum" => SumInv) => Accounted
  <2>. SUFFICES ASSUME SumInv, which = "sum" PROVE KeyedSum!Accounted BY DEF Accounted
  <2>1. \A k : KeyedSum!Elements(k, pos) = Places(stream, k, pos)
    BY DEF KeyedSum!Elements, Places
  <2>2. DOMAIN out = 1..Len(out) BY DEF SumInv, SumTyped
  <2>3. \A k : /\ {t \in timers : t[2] = k} = TimersOf(timers, k)
               /\ {n \in DOMAIN out : out[n].key = k} = ResultsOf(out, k)
               /\ {stream[i].ts : i \in Places(stream, k, pos)} = Times(stream, k, pos)
    BY <2>2 DEF TimersOf, ResultsOf, Times
  <2>. SUFFICES ASSUME NEW k \in Keyed
       PROVE  LET reports == KeyedSum!Cardinality({t \in timers : t[2] = k})
                               + KeyedSum!Cardinality({n \in DOMAIN out : out[n].key = k}) IN
              /\ reports =< KeyedSum!Cardinality(KeyedSum!Elements(k, pos))
              /\ reports >= KeyedSum!Cardinality(
                    IF KeyedSum!Timed THEN {stream[i].ts : i \in KeyedSum!Elements(k, pos)}
                                      ELSE KeyedSum!Elements(k, pos))
    BY DEF KeyedSum!Accounted, Keyed
  <2>4. /\ Reports(timers, out, k) =< Cardinality(Places(stream, k, pos))
        /\ Reports(timers, out, k) >= Cardinality(IF KeyedSum!Timed THEN Times(stream, k, pos)
                                                                  ELSE Places(stream, k, pos))
    BY DEF SumInv, EachReported
  <2>5. KeyedSum!Cardinality({t \in timers : t[2] = k}) = Cardinality(TimersOf(timers, k))
    BY <2>3, SameCardinality
  <2>6. KeyedSum!Cardinality({n \in DOMAIN out : out[n].key = k}) = Cardinality(ResultsOf(out, k))
    BY <2>3, SameCardinality
  <2>7. {stream[i].ts : i \in KeyedSum!Elements(k, pos)} = Times(stream, k, pos)
    BY <2>1 DEF Times
  <2>. QED BY <2>1, <2>4, <2>5, <2>6, <2>7, SameCardinality DEF Reports
<1>. QED BY <1>1, SumsInvariance, PTL


-------------------------------------------------------------------------------
(* The join *)

(* The pairs of rows read so far that have one id. *)
Matching == {p \in (1..leftPos) \X (1..rightPos) : left[p[1]] = right[p[2]]}

Numbered(s) == Len(s) \in Nat /\ DOMAIN s = 1..Len(s)

(* What a sequence holds, and that it holds nothing twice. *)
Held(s) == {s[i] : i \in 1..Len(s)}
Distinct(s) == \A i, j \in 1..Len(s) : s[i] = s[j] => i = j

JoinTyped ==
  /\ Numbered(left) /\ Numbered(right)
  /\ leftPos \in 0..Len(left) /\ rightPos \in 0..Len(right)
  /\ leftState = 1..leftPos /\ rightState = 1..rightPos
  /\ out \in Seq(Nat \X Nat)

(* Each such pair has been joined once, and no other pair. *)
JoinedOnce == Distinct(out) /\ Held(out) = Matching

JoinInv == JoinTyped /\ JoinedOnce

(* The partners of a row, in whatever order, are a sequence of just them.  *)
LEMMA InSomeOrder ==
  ASSUME NEW S, IsFiniteSet(S), NEW s \in StreamingJoin!SetToSeqs(S)
  PROVE  s \in Seq(S) /\ Distinct(s) /\ Held(s) = S
<1>. DEFINE n == Cardinality(S)
<1>1. n \in Nat BY FS_CardinalityType
<1>2. StreamingJoin!Cardinality(S) = n BY Zenon DEF StreamingJoin!Cardinality, Cardinality
<1>3. s \in [1..n -> S] /\ \A i, j \in 1..n : i # j => s[i] # s[j]
  BY <1>2 DEF StreamingJoin!SetToSeqs
<1>. HIDE DEF n
<1>4. s \in Seq(S) /\ Len(s) = n BY <1>1, <1>3
<1>5. s \in Injection(1..n, S) BY <1>3 DEF Injection, IsInjective
<1>6. IsFiniteSet(1..n) /\ Cardinality(1..n) = n BY <1>1, FS_Interval
<1>7. s \in Surjection(1..n, S) BY <1>5, <1>6, FS_Injection DEF n
<1>8. {s[i] : i \in 1..n} = S BY <1>3, <1>7 DEF Surjection
<1>. QED BY <1>3, <1>4, <1>8 DEF Distinct, Held

(* Pairs that are joined for the first time are added at the end.          *)
LEMMA PairsAdded ==
  ASSUME NEW R, NEW o \in Seq(R), NEW s \in Seq(R),
         Distinct(o), Distinct(s), Held(o) \cap Held(s) = {}
  PROVE  Distinct(o \o s) /\ Held(o \o s) = Held(o) \cup Held(s)
<1>. DEFINE p == o \o s
            S == Held(s)
<1>. USE DEF Distinct, Held
<1>1. /\ Len(o) \in Nat /\ Len(s) \in Nat /\ Len(p) = Len(o) + Len(s)
      /\ p \in Seq(R)
      /\ \A i \in 1..Len(o) : p[i] = o[i]
      /\ \A i \in 1..Len(s) : p[Len(o) + i] = s[i]
  OBVIOUS
<1>2. ASSUME NEW i \in 1..Len(p)
      PROVE  \/ i \in 1..Len(o) /\ p[i] = o[i]
             \/ \E k \in 1..Len(s) : i = Len(o) + k /\ p[i] = s[k]
  <2>1. CASE i =< Len(o) BY <1>1, <2>1
  <2>2. CASE i > Len(o)
    <3>1. i - Len(o) \in 1..Len(s) /\ i = Len(o) + (i - Len(o)) BY <1>1, <2>2
    <3>. QED BY <1>1, <3>1
  <2>. QED BY <1>1, <2>1, <2>2
<1>3. \A i \in 1..Len(o) : i \in 1..Len(p) BY <1>1
<1>4. \A i \in 1..Len(s) : Len(o) + i \in 1..Len(p) BY <1>1
<1>5. {p[i] : i \in 1..Len(p)} = {o[i] : i \in 1..Len(o)} \cup S
  <2>1. \A x \in {p[i] : i \in 1..Len(p)} : x \in {o[i] : i \in 1..Len(o)} \cup S BY <1>2
  <2>2. \A x \in {o[i] : i \in 1..Len(o)} : x \in {p[i] : i \in 1..Len(p)} BY <1>1, <1>3
  <2>3. ASSUME NEW i \in 1..Len(s) PROVE s[i] \in {p[k] : k \in 1..Len(p)}
    <3>1. Len(o) + i \in 1..Len(p) /\ p[Len(o) + i] = s[i] BY <1>1, <1>4
    <3>. QED BY <3>1
  <2>4. ASSUME NEW x \in S PROVE x \in {p[k] : k \in 1..Len(p)}
    <3>1. PICK i \in 1..Len(s) : x = s[i] OBVIOUS
    <3>. QED BY <2>3, <3>1
  <2>. QED BY <2>1, <2>2, <2>4
<1>6. ASSUME NEW i \in 1..Len(p), NEW j \in 1..Len(p), p[i] = p[j] PROVE i = j
  <2>1. ASSUME NEW m \in 1..Len(o), NEW k \in 1..Len(s) PROVE o[m] # s[k]
    <3>1. o[m] \in {o[l] : l \in 1..Len(o)} /\ s[k] \in S OBVIOUS
    <3>. QED BY <3>1
  <2>2. CASE i \in 1..Len(o) /\ p[i] = o[i]
    <3>1. j \in 1..Len(o) /\ p[j] = o[j] BY <1>2, <1>6, <2>1, <2>2
    <3>. QED BY <1>6, <2>2, <3>1
  <2>3. CASE \E k \in 1..Len(s) : i = Len(o) + k /\ p[i] = s[k]
    <3>1. PICK k \in 1..Len(s) : i = Len(o) + k /\ p[i] = s[k] BY <2>3
    <3>2. PICK l \in 1..Len(s) : j = Len(o) + l /\ p[j] = s[l] BY <1>2, <1>6, <2>1, <3>1
    <3>. QED BY <1>6, <3>1, <3>2
  <2>. QED BY <1>2, <2>2, <2>3
<1>. QED BY <1>1, <1>5, <1>6

(* In the beginning nothing has been joined. *)
LEMMA JoinInit == StreamingJoin!Init => JoinInv
<1>. SUFFICES ASSUME StreamingJoin!Init PROVE JoinInv OBVIOUS
<1>1. PICK i \in {StreamingJoin!Ids} \cup Sources : left = i[1] /\ right = i[2]
  BY DEF StreamingJoin!Init
<1>2. Numbered(left) /\ Numbered(right)
  <2>1. CASE i = StreamingJoin!Ids BY <1>1, <2>1 DEF StreamingJoin!Ids, Numbered
  <2>2. CASE i \in Sources
    <3>1. i \in Seq(Int) \X Seq(Int) BY <2>2, SourcesAssumption DEF SourcesAssumption
    <3>. QED BY <1>1, <3>1 DEF Numbered
  <2>. QED BY <1>1, <2>1, <2>2
<1>3. leftPos = 0 /\ rightPos = 0 /\ leftState = {} /\ rightState = {} /\ out = <<>>
  BY DEF StreamingJoin!Init
<1>4. JoinTyped BY <1>2, <1>3 DEF JoinTyped, Numbered
<1>5. JoinedOnce BY <1>3 DEF JoinedOnce, Matching, Distinct, Held
<1>. QED BY <1>4, <1>5 DEF JoinInv

(* A row of the left source is joined with the rows of the right one that  *)
(* were there before it.                                                   *)
LEMMA LeftJoins ==
  ASSUME JoinInv, StreamingJoin!ReadLeft
  PROVE  /\ JoinInv' /\ left' = left /\ right' = right
         /\ Len(out') >= Len(out) /\ Len(out) \in Nat /\ \A i \in 1..Len(out) : out'[i] = out[i]
<1>. DEFINE n == leftPos + 1
            partners == {j \in rightState : right[j] = left[n]}
            new == {n} \X partners
<1>1. /\ leftPos < Len(left) /\ leftPos' = n /\ leftState' = leftState \cup {n}
      /\ left' = left /\ right' = right /\ rightState' = rightState /\ rightPos' = rightPos
  BY DEF StreamingJoin!ReadLeft
<1>2. PICK s \in StreamingJoin!SetToSeqs(new) : out' = out \o s
  BY <1>1 DEF StreamingJoin!ReadLeft, StreamingJoin!Join
<1>3. /\ leftPos \in Nat /\ n \in Nat /\ n \in 0..Len(left) /\ rightPos \in Nat
      /\ leftState = 1..leftPos /\ rightState = 1..rightPos /\ out \in Seq(Nat \X Nat)
  BY <1>1 DEF JoinInv, JoinTyped, Numbered
<1>4. IsFiniteSet(new) /\ new \in SUBSET (Nat \X Nat)
  <2>1. partners \subseteq 1..rightPos BY <1>3
  <2>2. IsFiniteSet(1..rightPos) BY <1>3, FS_Interval
  <2>3. IsFiniteSet({n}) BY FS_Singleton
  <2>. HIDE DEF partners
  <2>4. IsFiniteSet(partners) BY <2>1, <2>2, FS_Subset
  <2>5. IsFiniteSet({n} \X partners) BY <2>3, <2>4, FS_Product
  <2>6. \A j \in partners : j \in Nat BY <1>3, <2>1
  <2>. HIDE DEF n
  <2>7. {n} \X partners \in SUBSET (Nat \X Nat) BY <1>3, <2>6
  <2>. QED BY <2>5, <2>7
<1>5. Distinct(out) /\ Held(out) = Matching /\ Matching \cap new = {}
  BY <1>3 DEF JoinInv, JoinedOnce, Matching
<1>6. Matching' = Matching \cup new BY <1>1, <1>3 DEF Matching
<1>. HIDE DEF new, n
<1>8. s \in Seq(new) /\ Distinct(s) /\ Held(s) = new
  BY <1>2, <1>4, InSomeOrder
<1>9. /\ out' \in Seq(Nat \X Nat) /\ Len(out') = Len(out) + Len(s)
      /\ Distinct(out') /\ Held(out') = Matching \cup new
      /\ \A i \in 1..Len(out) : out'[i] = out[i]
  <2>. DEFINE R == Nat \X Nat
  <2>1. out \in Seq(R) /\ new \in SUBSET R BY <1>3, <1>4
  <2>. HIDE DEF R
  <2>2. /\ out' \in Seq(R) /\ Len(out') = Len(out) + Len(s)
        /\ Distinct(out') /\ Held(out') = Held(out) \cup new
        /\ \A i \in 1..Len(out) : out'[i] = out[i]
    <3>1. Held(out) \cap Held(s) = {} /\ Distinct(out) /\ Distinct(s) BY <1>5, <1>8
    <3>2. out \in Seq(R) /\ s \in Seq(R) BY <1>8, <2>1
    <3>3. Distinct(out \o s) /\ Held(out \o s) = Held(out) \cup Held(s)
      BY <3>1, <3>2, PairsAdded
    <3>4. /\ out \o s \in Seq(R) /\ Len(out \o s) = Len(out) + Len(s)
          /\ \A i \in 1..Len(out) : (out \o s)[i] = out[i]
      BY <3>2
    <3>. QED BY <1>2, <1>8, <3>3, <3>4
  <2>. QED BY <1>5, <2>2 DEF R
<1>10. JoinTyped'
  <2>1. leftState' = 1..leftPos'
    <3>. HIDE DEF JoinInv
    <3>. QED BY <1>1, <1>3 DEF n
  <2>2. Numbered(left) /\ Numbered(right) /\ rightPos \in 0..Len(right) BY DEF JoinInv, JoinTyped
  <2>. QED BY <1>1, <1>3, <1>9, <2>1, <2>2 DEF JoinTyped
<1>11. JoinedOnce' BY <1>6, <1>9 DEF JoinedOnce
<1>12. Len(out) \in Nat /\ Len(s) \in Nat BY <1>3, <1>8
<1>. QED BY <1>1, <1>9, <1>10, <1>11, <1>12 DEF JoinInv

(* Likewise a row of the right source.                                      *)
LEMMA RightJoins ==
  ASSUME JoinInv, StreamingJoin!ReadRight
  PROVE  /\ JoinInv' /\ right' = right /\ left' = left
         /\ Len(out') >= Len(out) /\ Len(out) \in Nat /\ \A i \in 1..Len(out) : out'[i] = out[i]
<1>. DEFINE n == rightPos + 1
            partners == {j \in leftState : left[j] = right[n]}
            new == partners \X {n}
<1>1. /\ rightPos < Len(right) /\ rightPos' = n /\ rightState' = rightState \cup {n}
      /\ right' = right /\ left' = left /\ leftState' = leftState /\ leftPos' = leftPos
  BY DEF StreamingJoin!ReadRight
<1>2. PICK s \in StreamingJoin!SetToSeqs(new) : out' = out \o s
  BY <1>1 DEF StreamingJoin!ReadRight, StreamingJoin!Join
<1>3. /\ rightPos \in Nat /\ n \in Nat /\ n \in 0..Len(right) /\ leftPos \in Nat
      /\ rightState = 1..rightPos /\ leftState = 1..leftPos /\ out \in Seq(Nat \X Nat)
  BY <1>1 DEF JoinInv, JoinTyped, Numbered
<1>4. IsFiniteSet(new) /\ new \in SUBSET (Nat \X Nat)
  <2>1. partners \subseteq 1..leftPos BY <1>3
  <2>2. IsFiniteSet(1..leftPos) BY <1>3, FS_Interval
  <2>3. IsFiniteSet({n}) BY FS_Singleton
  <2>. HIDE DEF partners
  <2>4. IsFiniteSet(partners) BY <2>1, <2>2, FS_Subset
  <2>5. IsFiniteSet(partners \X {n}) BY <2>3, <2>4, FS_Product
  <2>6. \A j \in partners : j \in Nat BY <1>3, <2>1
  <2>. HIDE DEF n
  <2>7. partners \X {n} \in SUBSET (Nat \X Nat) BY <1>3, <2>6
  <2>. QED BY <2>5, <2>7
<1>5. Distinct(out) /\ Held(out) = Matching /\ Matching \cap new = {}
  BY <1>3 DEF JoinInv, JoinedOnce, Matching
<1>6. Matching' = Matching \cup new BY <1>1, <1>3 DEF Matching
<1>. HIDE DEF new, n
<1>8. s \in Seq(new) /\ Distinct(s) /\ Held(s) = new
  BY <1>2, <1>4, InSomeOrder
<1>9. /\ out' \in Seq(Nat \X Nat) /\ Len(out') = Len(out) + Len(s)
      /\ Distinct(out') /\ Held(out') = Matching \cup new
      /\ \A i \in 1..Len(out) : out'[i] = out[i]
  <2>. DEFINE R == Nat \X Nat
  <2>1. out \in Seq(R) /\ new \in SUBSET R BY <1>3, <1>4
  <2>. HIDE DEF R
  <2>2. /\ out' \in Seq(R) /\ Len(out') = Len(out) + Len(s)
        /\ Distinct(out') /\ Held(out') = Held(out) \cup new
        /\ \A i \in 1..Len(out) : out'[i] = out[i]
    <3>1. Held(out) \cap Held(s) = {} /\ Distinct(out) /\ Distinct(s) BY <1>5, <1>8
    <3>2. out \in Seq(R) /\ s \in Seq(R) BY <1>8, <2>1
    <3>3. Distinct(out \o s) /\ Held(out \o s) = Held(out) \cup Held(s)
      BY <3>1, <3>2, PairsAdded
    <3>4. /\ out \o s \in Seq(R) /\ Len(out \o s) = Len(out) + Len(s)
          /\ \A i \in 1..Len(out) : (out \o s)[i] = out[i]
      BY <3>2
    <3>. QED BY <1>2, <1>8, <3>3, <3>4
  <2>. QED BY <1>5, <2>2 DEF R
<1>10. JoinTyped'
  <2>1. rightState' = 1..rightPos'
    <3>. HIDE DEF JoinInv
    <3>. QED BY <1>1, <1>3 DEF n
  <2>2. Numbered(right) /\ Numbered(left) /\ leftPos \in 0..Len(left) BY DEF JoinInv, JoinTyped
  <2>. QED BY <1>1, <1>3, <1>9, <2>1, <2>2 DEF JoinTyped
<1>11. JoinedOnce' BY <1>6, <1>9 DEF JoinedOnce
<1>12. Len(out) \in Nat /\ Len(s) \in Nat BY <1>3, <1>8
<1>. QED BY <1>1, <1>9, <1>10, <1>11, <1>12 DEF JoinInv

(* Only the join's own steps are taken while it runs. *)
LEMMA JoinStepIs ==
  ASSUME [Next]_vars, which = "join"
  PROVE  /\ which' = "join"
         /\ \/ StreamingJoin!ReadLeft \/ StreamingJoin!ReadRight
            \/ UNCHANGED <<joinVars, out>>
<1>1. CASE UNCHANGED vars BY <1>1 DEF vars
<1>2. CASE NextWindows BY <1>2 DEF NextWindows
<1>3. CASE NextCount BY <1>3 DEF NextCount
<1>4. CASE NextOver BY <1>4 DEF NextOver
<1>5. CASE Advance \/ Expire BY <1>5 DEF Advance, Expire, InSum
<1>6. CASE ReadLeft \/ ReadRight BY <1>6 DEF ReadLeft, ReadRight, InJoin
<1>. QED BY <1>1, <1>2, <1>3, <1>4, <1>5, <1>6 DEF Next

(* However the two sources are interleaved, and however often an id occurs *)
(* on either side, the pairs joined are at every moment those of the rows  *)
(* read so far, each once.                                                 *)
THEOREM JoinInvariance == Spec => [](which = "join" => JoinInv)
<1>. DEFINE Inv == which = "join" => JoinInv
<1>1. Init => Inv
  <2>. SUFFICES ASSUME Init, which = "join" PROVE JoinInv OBVIOUS
  <2>. QED BY JoinInit DEF Init
<1>2. Inv /\ [Next]_vars => Inv'
  <2>. SUFFICES ASSUME Inv, [Next]_vars, which' = "join" PROVE JoinInv' OBVIOUS
  <2>1. which = "join"
    BY DEF Next, vars, NextWindows, NextCount, NextOver, Advance, Expire, InSum,
           ReadLeft, ReadRight, InJoin
  <2>2. CASE UNCHANGED <<joinVars, out>>
    <3>1. /\ left' = left /\ right' = right /\ leftState' = leftState
          /\ rightState' = rightState /\ leftPos' = leftPos /\ rightPos' = rightPos /\ out' = out
      BY <2>2 DEF joinVars
    <3>2. JoinTyped' BY <2>1, <3>1 DEF JoinInv, JoinTyped
    <3>3. JoinedOnce' BY <2>1, <3>1 DEF JoinInv, JoinedOnce, Matching
    <3>. QED BY <3>2, <3>3 DEF JoinInv
  <2>. QED BY <2>1, <2>2, JoinStepIs, LeftJoins, RightJoins
<1>. QED BY <1>1, <1>2, PTL DEF Spec

(* Sequences are equal when their elements are. *)
LEMMA SameElements ==
  ASSUME NEW S, NEW a \in Seq(S), NEW b \in Seq(S), Len(a) = Len(b),
         \A i \in 1..Len(a) : a[i] = b[i]
  PROVE  a = b
OBVIOUS

(* A step of the join is one of WindowResults. *)
LEMMA JoinEmits ==
  ASSUME which = "join", JoinInv, [Next]_vars
  PROVE  [Results!Emit]_(Results!vars)
<1>1. /\ which' = "join"
      /\ StreamingJoin!ReadLeft \/ StreamingJoin!ReadRight \/ UNCHANGED <<joinVars, out>>
  BY JoinStepIs
<1>2. /\ Results!vars = <<StreamingJoin!Expected, out>>
      /\ Results!vars' = <<StreamingJoin!Expected', out'>>
  BY <1>1 DEF Results!vars
<1>3. CASE UNCHANGED <<joinVars, out>>
  BY <1>2, <1>3 DEF joinVars, StreamingJoin!Expected
<1>4. CASE StreamingJoin!ReadLeft \/ StreamingJoin!ReadRight
  <2>1. /\ JoinInv' /\ left' = left /\ right' = right
        /\ Len(out') >= Len(out) /\ Len(out) \in Nat /\ \A i \in 1..Len(out) : out'[i] = out[i]
    BY <1>4, LeftJoins, RightJoins
  <2>2. StreamingJoin!Expected' = StreamingJoin!Expected BY <2>1 DEF StreamingJoin!Expected
  <2>3. out \in Seq(Nat \X Nat) /\ out' \in Seq(Nat \X Nat) BY <2>1 DEF JoinInv, JoinTyped
  <2>4. CASE Len(out') = Len(out)
    <3>. HIDE DEF JoinInv
    <3>1. \A i \in 1..Len(out) : out[i] = out'[i] BY <2>1
    <3>2. out = out' BY <2>3, <2>4, <3>1, SameElements
    <3>. QED BY <1>2, <2>2, <3>2
  <2>5. CASE Len(out') > Len(out)
    <3>1. SubSeq(out', 1, Len(out)) = out BY <2>1, <2>3, <2>5
    <3>2. \A i, j \in DOMAIN out' : out'[i] = out'[j] => i = j
      <4>1. \A i, j \in 1..Len(out') : out'[i] = out'[j] => i = j
        BY <2>1 DEF JoinInv, JoinedOnce, Distinct
      <4>2. DOMAIN out' = 1..Len(out') BY <2>3
      <4>. QED BY <4>1, <4>2
    <3>3. \A i \in DOMAIN out' : out'[i] \in StreamingJoin!Expected
      <4>. SUFFICES ASSUME NEW i \in DOMAIN out' PROVE out'[i] \in StreamingJoin!Expected
        OBVIOUS
      <4>1. out'[i] \in Matching'
        BY <2>1, <2>3 DEF JoinInv, JoinedOnce, Held
      <4>2. Matching' \subseteq StreamingJoin!Expected
        BY <2>1 DEF Matching, StreamingJoin!Expected, JoinInv, JoinTyped, Numbered
      <4>. QED BY <4>1, <4>2
    <3>. QED BY <1>1, <2>2, <2>5, <3>1, <3>2, <3>3 DEF Results!Emit
  <2>. QED BY <2>1, <2>4, <2>5
<1>. QED BY <1>1, <1>3, <1>4

(* The join implements what is safety in WindowResults: results are only   *)
(* ever added, each once, and none that the whole input does not call for. *)
THEOREM JoinImplements ==
  Spec => (which = "join" => Results!Init /\ [][Results!Emit]_(Results!vars))
<1>1. Init /\ which = "join" => Results!Init
  BY DEF Init, StreamingJoin!Init, Results!Init
<1>2. which = "join" /\ [Next]_vars => (which = "join")' BY JoinStepIs
<1>3. which = "join" /\ JoinInv /\ [Next]_vars => [Results!Emit]_(Results!vars) BY JoinEmits
<1>. QED BY <1>1, <1>2, <1>3, JoinInvariance, PTL DEF Spec


-------------------------------------------------------------------------------
(* The OVER windows *)

(* A finite set of integers has a largest. *)
LEMMA Greatest ==
  ASSUME NEW S, IsFiniteSet(S), S # {}, \A x \in S : x \in Int
  PROVE  \E x \in S : \A y \in S : x >= y
<1>. DEFINE Great(s) == \E x \in s : \A y \in s : x >= y
            bad == {s \in SUBSET S : s # {} /\ ~ Great(s)}
<1>1. SUFFICES ASSUME bad # {} PROVE FALSE OBVIOUS
<1>2. bad \subseteq SUBSET S OBVIOUS
<1>3. PICK m \in bad : \A n \in bad : n \subseteq m => n = m
  <2>. HIDE DEF bad
  <2>. QED BY <1>1, <1>2, LeastSet
<1>4. PICK x : x \in m OBVIOUS
<1>. DEFINE r == m \ {x}
<1>5. CASE r = {} BY <1>4, <1>5
<1>6. CASE r # {}
  <2>1. Great(r)
    <3>1. r \in SUBSET S /\ r # m /\ r \subseteq m BY <1>4
    <3>2. r \notin bad BY <1>3, <3>1
    <3>. QED BY <1>6, <3>1, <3>2
  <2>2. PICK y \in r : \A z \in r : y >= z BY <2>1
  <2>3. \A z \in m : z \in Int BY <1>2
  <2>4. CASE x >= y
    <3>1. \A z \in m : x >= z BY <1>4, <2>2, <2>3, <2>4
    <3>. QED BY <1>4, <3>1
  <2>5. CASE ~ (x >= y)
    <3>1. \A z \in m : y >= z BY <1>4, <2>2, <2>3, <2>5
    <3>. QED BY <2>2, <3>1
  <2>. QED BY <2>4, <2>5
<1>. QED BY <1>5, <1>6

(* Rows with times, in time: none is at a watermark before it. *)
InTime(s) ==
  /\ Numbered(s) /\ \A i \in DOMAIN s : s[i].ts \in Nat
  /\ \A i, j \in DOMAIN s : i < j => s[i].ts - 3 < s[j].ts

(* The latest time is that of a row read, or minus one before the first. *)
LEMMA LatestRow ==
  ASSUME InTime(stream), pos \in 0..Len(stream)
  PROVE  LET t == OverWindow!Latest IN
         /\ t \in Int /\ t >= -1 /\ \A i \in 1..pos : stream[i].ts =< t
         /\ t = -1 \/ \E i \in 1..pos : t = stream[i].ts
<1>. DEFINE T == {stream[i].ts : i \in 1..pos}
            S == {-1} \cup T
            f == [i \in 1..pos |-> stream[i].ts]
<1>1. pos \in Nat /\ \A i \in 1..pos : stream[i].ts \in Nat BY DEF InTime, Numbered
<1>2. IsFiniteSet(1..pos) BY <1>1, FS_Interval
<1>3. f \in Surjection(1..pos, T) BY DEF Surjection
<1>4. S # {} /\ \A x \in S : x \in Int BY <1>1
<1>5. IsFiniteSet(S)
  <2>. HIDE DEF T, f
  <2>1. IsFiniteSet(T) BY <1>2, <1>3, FS_Surjection
  <2>. QED BY <2>1, FS_AddElement
<1>6. \E x \in S : \A y \in S : x >= y
  <2>. HIDE DEF S
  <2>. QED BY <1>4, <1>5, Greatest
<1>7. OverWindow!Latest \in S /\ \A y \in S : OverWindow!Latest >= y
  BY <1>6 DEF OverWindow!Latest, OverWindow!Max
<1>. QED BY <1>1, <1>7

(* The order in which rows are taken. *)
Sorted(s) == \A a, b \in 1..Len(s) : a < b => OverWindow!Before(s[a], s[b])

(* Of two rows one comes before the other, and not the other way. *)
LEMMA BeforeOrders ==
  ASSUME InTime(stream)
  PROVE  LET D == DOMAIN stream IN
         /\ \A i \in D : ~ OverWindow!Before(i, i)
         /\ \A i, j \in D : i # j => OverWindow!Before(i, j) \/ OverWindow!Before(j, i)
         /\ \A i, j \in D : OverWindow!Before(i, j) => ~ OverWindow!Before(j, i)
BY DEF InTime, Numbered, OverWindow!Before

(* Of rows in order, the last three are those before which at most two come. *)
LEMMA LastThree ==
  ASSUME InTime(stream), NEW r \in Seq(DOMAIN stream), r # <<>>, Sorted(r)
  PROVE  OverWindow!Window(r) =
           {j \in Held(r) :
              OverWindow!Cardinality({k \in Held(r) : OverWindow!Before(j, k)}) =< 2}
<1>. DEFINE n == Len(r)
            After(j) == {k \in Held(r) : OverWindow!Before(j, k)}
<1>1. n \in Nat /\ n >= 1 /\ \A a \in 1..n : r[a] \in DOMAIN stream OBVIOUS
<1>2. ASSUME NEW a \in 1..n
      PROVE  OverWindow!Cardinality(After(r[a])) = n - a
  <2>. DEFINE I == (a + 1)..n
              f == [b \in I |-> r[b]]
  <2>1. \A b \in 1..n : OverWindow!Before(r[a], r[b]) <=> a < b
    <3>. SUFFICES ASSUME NEW b \in 1..n PROVE OverWindow!Before(r[a], r[b]) <=> a < b OBVIOUS
    <3>1. a < b \/ a = b \/ b < a OBVIOUS
    <3>2. a < b => OverWindow!Before(r[a], r[b]) BY DEF Sorted
    <3>3. b < a => OverWindow!Before(r[b], r[a]) BY DEF Sorted
    <3>4. r[a] \in DOMAIN stream /\ r[b] \in DOMAIN stream BY <1>1
    <3>. QED BY <3>1, <3>2, <3>3, <3>4, BeforeOrders
  <2>2. After(r[a]) = {r[b] : b \in I} BY <1>1, <2>1 DEF Held
  <2>3. f \in Surjection(I, After(r[a])) BY <2>2 DEF Surjection
  <2>4. \A b, c \in I : r[b] = r[c] => b = c
    <3>. SUFFICES ASSUME NEW b \in I, NEW c \in I, r[b] = r[c], b # c PROVE FALSE OBVIOUS
    <3>1. b \in 1..n /\ c \in 1..n /\ (b < c \/ c < b) BY <1>1
    <3>2. OverWindow!Before(r[b], r[b]) BY <3>1 DEF Sorted
    <3>. QED BY <1>1, <3>1, <3>2, BeforeOrders
  <2>5. f \in Injection(I, After(r[a])) BY <2>2, <2>4 DEF Injection, IsInjective
  <2>6. IsFiniteSet(I) /\ Cardinality(I) = n - a
    <3>1. a + 1 \in Int /\ n \in Int /\ a =< n BY <1>1
    <3>2. /\ IsFiniteSet(I)
          /\ Cardinality(I) = IF a + 1 > n THEN 0 ELSE n - (a + 1) + 1
      BY <3>1, FS_Interval
    <3>. QED BY <3>1, <3>2
  <2>. HIDE DEF I, f, After
  <2>7. Cardinality(After(r[a])) = n - a BY <2>3, <2>5, <2>6, FS_Surjection
  <2>8. OverWindow!Cardinality(After(r[a])) = Cardinality(After(r[a]))
    BY Zenon DEF OverWindow!Cardinality, Cardinality
  <2>. QED BY <2>7, <2>8
<1>3. \A a \in 1..n : a \in OverWindow!Max({1, n - 2})..n <=> n - a =< 2
  <2>1. OverWindow!Max({1, n - 2}) = IF n - 2 > 1 THEN n - 2 ELSE 1
    <3>1. \E x \in {1, n - 2} : \A y \in {1, n - 2} : x >= y BY <1>1
    <3>2. /\ OverWindow!Max({1, n - 2}) \in {1, n - 2}
          /\ \A y \in {1, n - 2} : OverWindow!Max({1, n - 2}) >= y
      BY <3>1 DEF OverWindow!Max
    <3>. QED BY <1>1, <3>2
  <2>. QED BY <1>1, <2>1
<1>4. \A a \in OverWindow!Max({1, n - 2})..n : a \in 1..n
  <2>1. OverWindow!Max({1, n - 2}) \in {1, n - 2} /\ OverWindow!Max({1, n - 2}) >= 1
    <3>1. \E x \in {1, n - 2} : \A y \in {1, n - 2} : x >= y BY <1>1
    <3>. QED BY <1>1, <3>1 DEF OverWindow!Max
  <2>. QED BY <1>1, <2>1
<1>. HIDE DEF n, After
<1>5. OverWindow!Window(r) = {r[a] : a \in OverWindow!Max({1, n - 2})..n}
  BY DEF OverWindow!Window, n
<1>6. Held(r) = {r[a] : a \in 1..n} BY DEF Held, n
<1>7. {r[a] : a \in OverWindow!Max({1, n - 2})..n}
        = {j \in {r[a] : a \in 1..n} : OverWindow!Cardinality(After(j)) =< 2}
  <2>1. ASSUME NEW a \in OverWindow!Max({1, n - 2})..n
        PROVE  a \in 1..n /\ OverWindow!Cardinality(After(r[a])) =< 2
    <3>1. a \in 1..n BY <1>4
    <3>. QED BY <1>2, <1>3, <3>1
  <2>2. ASSUME NEW a \in 1..n, OverWindow!Cardinality(After(r[a])) =< 2
        PROVE  a \in OverWindow!Max({1, n - 2})..n
    BY <1>2, <1>3, <2>2
  <2>. QED BY <2>1, <2>2
<1>. QED BY <1>5, <1>6, <1>7 DEF After


(* The rows taken so far. *)
Taken == {i \in 1..pos : i \notin buffered}

OverTyped ==
  /\ InTime(stream) /\ pos \in 0..Len(stream) /\ mark \in Int
  /\ buffered \subseteq 1..pos
  /\ mark < 0 \/ \E i \in 1..pos : mark =< stream[i].ts

(* Each name has its rows that were taken, in order. *)
OverDone ==
  /\ done \in [OverWindow!Names -> Seq(DOMAIN stream)]
  /\ \A n \in OverWindow!Names :
       Sorted(done[n]) /\ Held(done[n]) = {i \in Taken : stream[i].name = n}

(* The watermark has reached the rows taken, and these come before those   *)
(* that wait; it is behind the rows not read.                              *)
OverAhead ==
  /\ \A i \in Taken : stream[i].ts =< mark /\ \A j \in buffered : OverWindow!Before(i, j)
  /\ \A i \in (pos + 1)..Len(stream) : mark < stream[i].ts

(* The results are those of rows taken, each once. *)
OverOut ==
  /\ out \in Seq(OverWindow!Expected) /\ Distinct(out)
  /\ \A m \in 1..Len(out) : out[m].row \in Taken

OverInv == OverTyped /\ OverDone /\ OverAhead /\ OverOut

(* In the beginning no row is read, buffered or taken. *)
LEMMA OverInit == OverWindow!Init => OverInv
<1>. SUFFICES ASSUME OverWindow!Init PROVE OverInv OBVIOUS
<1>1. /\ stream \in {OverWindow!Prices} \cup RowStreams /\ pos = 0 /\ mark = -4
      /\ buffered = {} /\ done = [n \in OverWindow!Names |-> <<>>] /\ out = <<>>
  BY DEF OverWindow!Init
<1>2. InTime(stream)
  <2>1. CASE stream = OverWindow!Prices
    <3>1. Numbered(stream) /\ DOMAIN stream = 1..8
      BY <2>1 DEF OverWindow!Prices, Numbered
    <3>2. /\ stream[1].ts = 1 /\ stream[2].ts = 4 /\ stream[3].ts = 3 /\ stream[4].ts = 2
          /\ stream[5].ts = 5 /\ stream[6].ts = 3 /\ stream[7].ts = 7 /\ stream[8].ts = 10
      BY <2>1 DEF OverWindow!Prices
    <3>3. \A i \in 1..8 : i = 1 \/ i = 2 \/ i = 3 \/ i = 4 \/ i = 5 \/ i = 6 \/ i = 7 \/ i = 8
      OBVIOUS
    <3>4. \A i \in 1..8 : stream[i].ts \in Nat BY <3>2, <3>3
    <3>5. \A i, j \in 1..8 : i < j => stream[i].ts - 3 < stream[j].ts BY <3>2, <3>3
    <3>. QED BY <3>1, <3>4, <3>5 DEF InTime
  <2>2. CASE stream \in RowStreams
    <3>1. /\ stream \in Seq([ts : Nat, name : STRING, price : Int])
          /\ \A i, j \in DOMAIN stream : i < j => stream[i].ts - 3 < stream[j].ts
      BY <2>2, RowsAssumption DEF RowsAssumption
    <3>2. Numbered(stream) BY <3>1 DEF Numbered
    <3>3. \A i \in DOMAIN stream : stream[i] \in [ts : Nat, name : STRING, price : Int]
      <4>. DEFINE R == [ts : Nat, name : STRING, price : Int]
      <4>1. stream \in Seq(R) BY <3>1
      <4>. HIDE DEF R
      <4>2. \A i \in DOMAIN stream : stream[i] \in R BY <4>1
      <4>. QED BY <4>2 DEF R
    <3>4. \A i \in DOMAIN stream : stream[i].ts \in Nat BY <3>3
    <3>. QED BY <3>1, <3>2, <3>4 DEF InTime
  <2>. QED BY <1>1, <2>1, <2>2
<1>3. Taken = {} BY <1>1 DEF Taken
<1>4. Len(stream) \in Nat /\ DOMAIN stream = 1..Len(stream) BY <1>2 DEF InTime, Numbered
<1>5. OverTyped BY <1>1, <1>2, <1>4 DEF OverTyped
<1>6. OverDone BY <1>1, <1>3 DEF OverDone, Sorted, Held
<1>7. OverAhead
  <2>1. \A i \in 1..Len(stream) : stream[i].ts \in Nat BY <1>2, <1>4 DEF InTime
  <2>. QED BY <1>1, <1>3, <1>4, <2>1 DEF OverAhead
<1>8. OverOut BY <1>1 DEF OverOut, Distinct
<1>. QED BY <1>5, <1>6, <1>7, <1>8 DEF OverInv

(* A row that is read waits: it is never behind the watermark. *)
LEMMA OverRead ==
  ASSUME OverInv, OverWindow!Read
  PROVE  OverInv' /\ stream' = stream /\ out' = out /\ Taken' = Taken
<1>. DEFINE p == pos + 1
<1>1. /\ pos < Len(stream) /\ pos' = p /\ stream' = stream /\ mark' = mark
      /\ done' = done /\ out' = out
      /\ buffered' = IF OverWindow!Dropped(p) THEN buffered ELSE buffered \cup {p}
  BY DEF OverWindow!Read, OverWindow!Dropped, OverWindow!Last
<1>2. /\ pos \in Nat /\ Len(stream) \in Nat /\ p \in DOMAIN stream /\ mark \in Int
      /\ DOMAIN stream = 1..Len(stream) /\ \A i \in DOMAIN stream : stream[i].ts \in Nat
  BY <1>1 DEF OverInv, OverTyped, InTime, Numbered
<1>3. ~ OverWindow!Dropped(p)
  <2>. DEFINE n == stream[p].name
              s == done[n]
  <2>1. n \in OverWindow!Names BY <1>2 DEF OverWindow!Names
  <2>2. s \in Seq(DOMAIN stream) /\ Held(s) = {i \in Taken : stream[i].name = n}
    BY <2>1 DEF OverInv, OverDone
  <2>. HIDE DEF s, n
  <2>3. SUFFICES ASSUME s # <<>>, stream[p].ts =< stream[OverWindow!Last(s)].ts PROVE FALSE
    BY DEF OverWindow!Dropped, s, n
  <2>4. OverWindow!Last(s) \in Held(s) BY <2>2, <2>3 DEF OverWindow!Last, Held
  <2>5. OverWindow!Last(s) \in Taken BY <2>2, <2>4
  <2>6. stream[OverWindow!Last(s)].ts =< mark BY <2>5 DEF OverInv, OverAhead
  <2>7. OverWindow!Last(s) \in DOMAIN stream BY <1>1, <1>2, <2>5 DEF Taken
  <2>8. mark < stream[p].ts BY <1>2 DEF OverInv, OverAhead
  <2>. QED BY <1>2, <2>3, <2>6, <2>7, <2>8
<1>4. buffered' = buffered \cup {p} BY <1>1, <1>3
<1>5. buffered \subseteq 1..pos BY DEF OverInv, OverTyped
<1>6. Taken' = Taken BY <1>1, <1>2, <1>4, <1>5 DEF Taken
<1>7. OverTyped'
  <2>1. buffered' \subseteq 1..pos' BY <1>1, <1>2, <1>4, <1>5
  <2>2. mark' < 0 \/ \E i \in 1..pos' : mark' =< stream'[i].ts
    BY <1>1, <1>2 DEF OverInv, OverTyped
  <2>3. InTime(stream) BY DEF OverInv, OverTyped
  <2>. QED BY <1>1, <1>2, <2>1, <2>2, <2>3 DEF OverTyped
<1>8. OverDone'
  <2>1. OverWindow!Names' = OverWindow!Names BY <1>1 DEF OverWindow!Names
  <2>2. \A n : Sorted(done[n])' <=> Sorted(done[n])
    BY <1>1 DEF Sorted, OverWindow!Before
  <2>. QED BY <1>1, <1>6, <2>1, <2>2 DEF OverInv, OverDone, Held
<1>9. OverAhead'
  <2>1. ASSUME NEW i \in Taken PROVE OverWindow!Before(i, p)
    <3>1. stream[i].ts =< mark /\ mark < stream[p].ts BY <1>2 DEF OverInv, OverAhead
    <3>2. i \in DOMAIN stream BY <1>1, <1>2 DEF Taken
    <3>. QED BY <1>2, <3>1, <3>2 DEF OverWindow!Before
  <2>2. \A i \in Taken : stream[i].ts =< mark /\ \A j \in buffered' : OverWindow!Before(i, j)
    BY <1>4, <2>1 DEF OverInv, OverAhead
  <2>3. \A i \in (p + 1)..Len(stream) : mark < stream[i].ts
    BY <1>2 DEF OverInv, OverAhead
  <2>. QED BY <1>1, <1>6, <2>2, <2>3 DEF OverAhead, OverWindow!Before
<1>10. OverOut'
  BY <1>1, <1>6 DEF OverInv, OverOut, OverWindow!Expected, OverWindow!Preceded,
                    OverWindow!UpTo, OverWindow!Before
<1>. QED BY <1>1, <1>6, <1>7, <1>8, <1>9, <1>10 DEF OverInv


(* The watermark moves forward, and no further than rows to come allow. *)
LEMMA OverWatermark ==
  ASSUME OverInv, OverWindow!Watermark
  PROVE  OverInv' /\ stream' = stream /\ out' = out
<1>1. /\ UNCHANGED <<stream, pos, buffered, done, out>>
      /\ \/ mark < OverWindow!Latest - 3 /\ mark' = OverWindow!Latest - 3
         \/ pos = Len(stream) /\ mark' = OverWindow!Latest
  BY DEF OverWindow!Watermark
<1>2. /\ InTime(stream) /\ pos \in 0..Len(stream) /\ mark \in Int
      /\ mark < 0 \/ \E i \in 1..pos : mark =< stream[i].ts
  BY DEF OverInv, OverTyped
<1>3. /\ pos \in Nat /\ Len(stream) \in Nat /\ DOMAIN stream = 1..Len(stream)
      /\ \A i \in DOMAIN stream : stream[i].ts \in Nat
      /\ \A i, j \in DOMAIN stream : i < j => stream[i].ts - 3 < stream[j].ts
  BY <1>2 DEF InTime, Numbered
<1>. DEFINE t == OverWindow!Latest
<1>4. /\ t \in Int /\ t >= -1 /\ \A i \in 1..pos : stream[i].ts =< t
      /\ t = -1 \/ \E i \in 1..pos : t = stream[i].ts
  BY <1>2, LatestRow
<1>. HIDE DEF t
<1>5. (mark' = t - 3 /\ mark < t - 3) \/ (pos = Len(stream) /\ mark' = t) BY <1>1 DEF t
<1>6. mark' \in Int /\ mark =< mark'
  <2>1. mark =< t
    <3>1. CASE mark < 0 BY <1>2, <1>4, <3>1
    <3>2. CASE \E i \in 1..pos : mark =< stream[i].ts
      <4>1. PICK i \in 1..pos : mark =< stream[i].ts BY <3>2
      <4>2. stream[i].ts \in Nat /\ stream[i].ts =< t BY <1>3, <1>2, <1>4
      <4>. QED BY <1>2, <1>4, <4>1, <4>2
    <3>. QED BY <1>2, <3>1, <3>2
  <2>. QED BY <1>2, <1>4, <1>5, <2>1
<1>7. mark' < 0 \/ \E i \in 1..pos : mark' =< stream[i].ts
  <2>1. CASE t = -1 BY <1>5, <2>1
  <2>2. CASE \E i \in 1..pos : t = stream[i].ts
    <3>1. PICK i \in 1..pos : t = stream[i].ts BY <2>2
    <3>2. mark' =< stream[i].ts BY <1>4, <1>5, <3>1
    <3>. QED BY <3>2
  <2>. QED BY <1>4, <2>1, <2>2
<1>8. \A i \in (pos + 1)..Len(stream) : mark' < stream[i].ts
  <2>. SUFFICES ASSUME NEW i \in (pos + 1)..Len(stream) PROVE mark' < stream[i].ts OBVIOUS
  <2>1. mark' = t - 3 /\ i \in DOMAIN stream /\ stream[i].ts \in Nat
    <3>1. i \in Int /\ pos + 1 =< i /\ i =< Len(stream) BY <1>3
    <3>2. i \in 1..Len(stream) BY <1>3, <3>1
    <3>3. CASE pos = Len(stream)
      <4>1. Len(stream) + 1 =< i BY <3>1, <3>3
      <4>. QED BY <1>3, <3>1, <4>1
    <3>. QED BY <1>3, <1>5, <3>2, <3>3
  <2>2. CASE t = -1 BY <2>1, <2>2
  <2>3. CASE \E j \in 1..pos : t = stream[j].ts
    <3>1. PICK j \in 1..pos : t = stream[j].ts BY <2>3
    <3>2. j \in DOMAIN stream /\ j < i BY <1>2, <1>3, <2>1
    <3>. QED BY <1>3, <2>1, <3>1, <3>2
  <2>. QED BY <1>4, <2>2, <2>3
<1>9. Taken' = Taken BY <1>1 DEF Taken
<1>10. OverTyped' BY <1>1, <1>2, <1>6, <1>7 DEF OverInv, OverTyped
<1>11. OverDone'
  <2>1. OverWindow!Names' = OverWindow!Names BY <1>1 DEF OverWindow!Names
  <2>2. \A n : Sorted(done[n])' <=> Sorted(done[n])
    BY <1>1 DEF Sorted, OverWindow!Before
  <2>. QED BY <1>1, <1>9, <2>1, <2>2 DEF OverInv, OverDone, Held
<1>12. OverAhead'
  <2>1. ASSUME NEW i \in Taken PROVE stream[i].ts =< mark'
    <3>1. stream[i].ts =< mark BY DEF OverInv, OverAhead
    <3>2. stream[i].ts \in Nat BY <1>2, <1>3 DEF Taken
    <3>. QED BY <1>2, <1>6, <3>1, <3>2
  <2>. QED BY <1>1, <1>8, <1>9, <2>1 DEF OverInv, OverAhead, OverWindow!Before
<1>13. OverOut'
  BY <1>1, <1>9 DEF OverInv, OverOut, OverWindow!Expected, OverWindow!Preceded,
                    OverWindow!UpTo, OverWindow!Before
<1>. QED BY <1>1, <1>10, <1>11, <1>12, <1>13 DEF OverInv

(* A row that is taken has just the rows of its name before it, whether    *)
(* they came before it or after it.                                        *)
LEMMA RowsBefore ==
  ASSUME OverInv, NEW i \in OverWindow!Due,
         \A j \in OverWindow!Due \ {i} : OverWindow!Before(i, j)
  PROVE  LET r == Append(done[stream[i].name], i) IN
         /\ i \in DOMAIN stream /\ r \in Seq(DOMAIN stream) /\ Sorted(r)
         /\ Held(r) = Held(done[stream[i].name]) \cup {i}
         /\ Held(r) = OverWindow!UpTo(i)
<1>. DEFINE n == stream[i].name
            s == done[n]
            r == Append(s, i)
<1>1. /\ InTime(stream) /\ pos \in 0..Len(stream) /\ mark \in Int
      /\ buffered \subseteq 1..pos /\ i \in buffered /\ stream[i].ts =< mark
  BY DEF OverInv, OverTyped, OverWindow!Due
<1>2. /\ Len(stream) \in Nat /\ pos \in Nat /\ DOMAIN stream = 1..Len(stream) /\ i \in DOMAIN stream
      /\ \A j \in DOMAIN stream : stream[j].ts \in Nat
  <2>1. Len(stream) \in Nat /\ DOMAIN stream = 1..Len(stream) BY <1>1 DEF InTime, Numbered
  <2>2. pos \in Nat /\ i \in 1..pos BY <1>1, <2>1
  <2>3. i \in DOMAIN stream BY <1>1, <2>1, <2>2
  <2>4. \A j \in DOMAIN stream : stream[j].ts \in Nat BY <1>1 DEF InTime
  <2>. QED BY <2>1, <2>2, <2>3, <2>4
<1>3. n \in OverWindow!Names BY <1>2 DEF OverWindow!Names
<1>4. s \in Seq(DOMAIN stream) /\ Sorted(s) /\ Held(s) = {j \in Taken : stream[j].name = n}
  BY <1>3 DEF OverInv, OverDone
<1>5. \A j \in Taken : j \in DOMAIN stream /\ OverWindow!Before(j, i)
  BY <1>1, <1>2 DEF OverInv, OverAhead, Taken
<1>. HIDE DEF s
<1>6. /\ Len(s) \in Nat /\ r \in Seq(DOMAIN stream) /\ Len(r) = Len(s) + 1
      /\ r[Len(s) + 1] = i /\ \A a \in 1..Len(s) : r[a] = s[a]
  BY <1>2, <1>4
<1>. HIDE DEF r
<1>7. Held(r) = Held(s) \cup {i}
  <2>1. \A a \in 1..Len(r) : a \in 1..Len(s) \/ a = Len(s) + 1 BY <1>6
  <2>2. \A a \in 1..Len(s) : a \in 1..Len(r) BY <1>6
  <2>3. Len(s) + 1 \in 1..Len(r) BY <1>6
  <2>4. \A a \in 1..Len(r) : r[a] \in Held(s) \cup {i} BY <1>6, <2>1 DEF Held
  <2>5. \A a \in 1..Len(s) : s[a] \in Held(r) BY <1>6, <2>2 DEF Held
  <2>6. i \in Held(r) BY <1>6, <2>3 DEF Held
  <2>. QED BY <2>4, <2>5, <2>6 DEF Held
<1>8. Sorted(r)
  <2>. SUFFICES ASSUME NEW a \in 1..Len(r), NEW b \in 1..Len(r), a < b
                PROVE  OverWindow!Before(r[a], r[b])
    BY DEF Sorted
  <2>1. a \in 1..Len(s) /\ r[a] = s[a] BY <1>6
  <2>2. CASE b \in 1..Len(s)
    <3>1. r[b] = s[b] BY <1>6, <2>2
    <3>. QED BY <1>4, <2>1, <2>2, <3>1 DEF Sorted
  <2>3. CASE b = Len(s) + 1
    <3>1. r[b] = i BY <1>6, <2>3
    <3>2. s[a] \in Taken BY <1>4, <2>1 DEF Held
    <3>. QED BY <1>5, <2>1, <3>1, <3>2
  <2>. QED BY <1>6, <2>2, <2>3
<1>9. Held(r) = OverWindow!UpTo(i)
  <2>1. ~ OverWindow!Before(i, i) BY <1>1, <1>2, BeforeOrders
  <2>2. ASSUME NEW j \in Taken PROVE ~ OverWindow!Before(i, j)
    BY <1>1, <1>2, <1>5, BeforeOrders
  <2>3. ASSUME NEW j \in DOMAIN stream, ~ OverWindow!Before(i, j), j # i PROVE j \in Taken
    <3>1. CASE j > pos
      <4>1. mark < stream[j].ts BY <1>2, <3>1 DEF OverInv, OverAhead
      <4>. QED BY <1>1, <1>2, <2>3, <4>1 DEF OverWindow!Before
    <3>2. CASE j \in buffered
      <4>1. ~ (stream[j].ts =< mark) BY <2>3, <3>2 DEF OverWindow!Due
      <4>. QED BY <1>1, <1>2, <2>3, <4>1 DEF OverWindow!Before
    <3>. QED BY <1>1, <1>2, <3>1, <3>2 DEF Taken
  <2>. QED BY <1>2, <1>4, <1>5, <1>7, <2>1, <2>2, <2>3 DEF OverWindow!UpTo
<1>. QED BY <1>2, <1>6, <1>7, <1>8, <1>9 DEF r, s


(* The row due that comes first is taken, and its result is the one that   *)
(* the whole input calls for.                                              *)
LEMMA OverTake ==
  ASSUME OverInv, OverWindow!Take
  PROVE  /\ OverInv' /\ stream' = stream
         /\ \E e \in OverWindow!Expected : out' = Append(out, e)
<1>1. PICK i \in OverWindow!Due :
        /\ \A j \in OverWindow!Due \ {i} : OverWindow!Before(i, j)
        /\ LET r == Append(done[stream[i].name], i) IN
           /\ done' = [done EXCEPT ![stream[i].name] = r]
           /\ out' = Append(out, [row |-> i,
                      value |-> OverWindow!Max({stream[j].price : j \in OverWindow!Window(r)})])
        /\ buffered' = buffered \ {i} /\ UNCHANGED <<stream, pos, mark>>
  BY DEF OverWindow!Take
<1>. DEFINE n == stream[i].name
            r == Append(done[n], i)
            e == [row |-> i,
                  value |-> OverWindow!Max({stream[j].price : j \in OverWindow!Preceded(i)})]
<1>2. /\ i \in DOMAIN stream /\ r \in Seq(DOMAIN stream) /\ Sorted(r)
      /\ Held(r) = Held(done[n]) \cup {i} /\ Held(r) = OverWindow!UpTo(i)
  BY <1>1, RowsBefore
<1>3. /\ InTime(stream) /\ pos \in 0..Len(stream) /\ mark \in Int
      /\ buffered \subseteq 1..pos /\ i \in buffered /\ stream[i].ts =< mark
  BY <1>1 DEF OverInv, OverTyped, OverWindow!Due
<1>4. n \in OverWindow!Names BY <1>2 DEF OverWindow!Names
<1>5. r # <<>>
  <2>1. i \in Held(r) BY <1>2
  <2>. QED BY <2>1 DEF Held
<1>. HIDE DEF r
<1>6. OverWindow!Window(r) = OverWindow!Preceded(i)
  BY <1>2, <1>3, <1>5, LastThree DEF OverWindow!Preceded
<1>7. out' = Append(out, e) BY <1>1, <1>6 DEF r
<1>8. e \in OverWindow!Expected BY <1>2 DEF OverWindow!Expected
<1>9. Taken' = Taken \cup {i} /\ i \notin Taken BY <1>1, <1>3 DEF Taken
<1>10. OverTyped' BY <1>1, <1>3 DEF OverInv, OverTyped
<1>11. OverDone'
  <2>1. OverWindow!Names' = OverWindow!Names BY <1>1 DEF OverWindow!Names
  <2>2. done \in [OverWindow!Names -> Seq(DOMAIN stream)] BY DEF OverInv, OverDone
  <2>3. done' = [done EXCEPT ![n] = r] BY <1>1 DEF r
  <2>4. done' \in [OverWindow!Names -> Seq(DOMAIN stream)] BY <1>2, <2>2, <2>3
  <2>5. ASSUME NEW m \in OverWindow!Names
        PROVE  Sorted(done'[m]) /\ Held(done'[m]) = {j \in Taken' : stream[j].name = m}
    <3>1. Sorted(done[m]) /\ Held(done[m]) = {j \in Taken : stream[j].name = m}
      BY <2>5 DEF OverInv, OverDone
    <3>2. CASE m = n
      <4>1. done'[m] = r BY <1>4, <2>2, <2>3, <3>2
      <4>. QED BY <1>2, <1>9, <3>1, <3>2, <4>1
    <3>3. CASE m # n
      <4>1. done'[m] = done[m] BY <2>2, <2>3, <3>3
      <4>. QED BY <1>9, <3>1, <3>3, <4>1
    <3>. QED BY <3>2, <3>3
  <2>6. \A m : Sorted(done[m])' <=> Sorted(done'[m])
    BY <1>1 DEF Sorted, OverWindow!Before
  <2>. QED BY <1>1, <2>1, <2>4, <2>5, <2>6 DEF OverDone, Held
<1>12. OverAhead'
  <2>1. ASSUME NEW j \in buffered, j # i PROVE OverWindow!Before(i, j)
    <3>1. CASE j \in OverWindow!Due BY <1>1, <2>1, <3>1
    <3>2. CASE j \notin OverWindow!Due
      <4>1. ~ (stream[j].ts =< mark) BY <2>1, <3>2 DEF OverWindow!Due
      <4>2. j \in DOMAIN stream BY <1>3, <2>1 DEF InTime, Numbered
      <4>3. stream[j].ts \in Nat /\ stream[i].ts \in Nat BY <1>2, <1>3, <4>2 DEF InTime
      <4>. QED BY <1>3, <4>1, <4>3 DEF OverWindow!Before
    <3>. QED BY <3>1, <3>2
  <2>2. \A k \in Taken' : stream[k].ts =< mark /\ \A j \in buffered' : OverWindow!Before(k, j)
    BY <1>1, <1>3, <1>9, <2>1 DEF OverInv, OverAhead
  <2>. QED BY <1>1, <2>2 DEF OverInv, OverAhead, OverWindow!Before
<1>. HIDE DEF e
<1>13. OverOut'
  <2>1. OverWindow!Expected' = OverWindow!Expected
    BY <1>1 DEF OverWindow!Expected, OverWindow!Preceded, OverWindow!UpTo, OverWindow!Before
  <2>2. /\ out \in Seq(OverWindow!Expected) /\ Distinct(out)
        /\ \A m \in 1..Len(out) : out[m].row \in Taken
    BY DEF OverInv, OverOut
  <2>3. e.row = i BY DEF e
  <2>4. /\ out' \in Seq(OverWindow!Expected) /\ Len(out) \in Nat /\ Len(out') = Len(out) + 1
        /\ out'[Len(out) + 1] = e /\ \A m \in 1..Len(out) : out'[m] = out[m]
    BY <1>7, <1>8, <2>2
  <2>5. \A m \in 1..Len(out') : m \in 1..Len(out) \/ m = Len(out) + 1 BY <2>4
  <2>6. \A m \in 1..Len(out) : out[m] # e BY <1>9, <2>2, <2>3
  <2>7. \A a, b \in 1..Len(out') : out'[a] = out'[b] => a = b
    BY <2>2, <2>4, <2>5, <2>6 DEF Distinct
  <2>8. \A m \in 1..Len(out') : out'[m].row \in Taken' BY <1>9, <2>2, <2>3, <2>4, <2>5
  <2>. QED BY <2>1, <2>4, <2>7, <2>8 DEF OverOut, Distinct
<1>. QED BY <1>1, <1>7, <1>8, <1>10, <1>11, <1>12, <1>13 DEF OverInv, e


(* Only the program's own steps are taken while it runs. *)
LEMMA OverStepIs ==
  ASSUME [Next]_vars, which = "over"
  PROVE  which' = "over" /\ (OverWindow!Next \/ UNCHANGED <<stream, pos, mark, overVars, out>>)
<1>1. CASE UNCHANGED vars BY <1>1 DEF vars
<1>2. CASE NextWindows BY <1>2 DEF NextWindows
<1>3. CASE NextCount BY <1>3 DEF NextCount
<1>4. CASE NextOver BY <1>4 DEF NextOver
<1>5. CASE Advance \/ Expire BY <1>5 DEF Advance, Expire, InSum
<1>6. CASE ReadLeft \/ ReadRight BY <1>6 DEF ReadLeft, ReadRight, InJoin
<1>. QED BY <1>1, <1>2, <1>3, <1>4, <1>5, <1>6 DEF Next

(* What a step does to the results. *)
LEMMA OverSteps ==
  ASSUME OverInv, which = "over", [Next]_vars
  PROVE  /\ OverInv' /\ which' = "over" /\ stream' = stream
         /\ out' = out \/ \E e \in OverWindow!Expected : out' = Append(out, e)
<1>1. which' = "over" /\ (OverWindow!Next \/ UNCHANGED <<stream, pos, mark, overVars, out>>)
  BY OverStepIs
<1>2. CASE UNCHANGED <<stream, pos, mark, overVars, out>>
  <2>1. /\ stream' = stream /\ pos' = pos /\ mark' = mark /\ buffered' = buffered
        /\ done' = done /\ out' = out
    BY <1>2 DEF overVars
  <2>2. Taken' = Taken /\ OverWindow!Names' = OverWindow!Names
    BY <2>1 DEF Taken, OverWindow!Names
  <2>3. OverTyped' BY <2>1 DEF OverInv, OverTyped
  <2>4. OverDone'
    <3>1. \A n : Sorted(done[n])' <=> Sorted(done[n])
      BY <2>1 DEF Sorted, OverWindow!Before
    <3>. QED BY <2>1, <2>2, <3>1 DEF OverInv, OverDone, Held
  <2>5. OverAhead' BY <2>1, <2>2 DEF OverInv, OverAhead, OverWindow!Before
  <2>6. OverOut'
    BY <2>1, <2>2 DEF OverInv, OverOut, OverWindow!Expected, OverWindow!Preceded,
                      OverWindow!UpTo, OverWindow!Before
  <2>. QED BY <1>1, <2>1, <2>3, <2>4, <2>5, <2>6 DEF OverInv
<1>3. CASE OverWindow!Read BY <1>1, <1>3, OverRead
<1>4. CASE OverWindow!Watermark BY <1>1, <1>4, OverWatermark
<1>5. CASE OverWindow!Take BY <1>1, <1>5, OverTake
<1>. QED BY <1>1, <1>2, <1>3, <1>4, <1>5 DEF OverWindow!Next

(* Rows are taken in the order of their times however late they come, each *)
(* behind all its predecessors, and a result is the one of its row in the  *)
(* whole input, for any input in time.                                     *)
THEOREM OverInvariance == Spec => [](which = "over" => OverInv)
<1>. DEFINE Inv == which = "over" => OverInv
<1>1. Init => Inv
  <2>. SUFFICES ASSUME Init, which = "over" PROVE OverInv OBVIOUS
  <2>. QED BY OverInit DEF Init
<1>2. Inv /\ [Next]_vars => Inv'
  <2>. SUFFICES ASSUME Inv, [Next]_vars, which' = "over" PROVE OverInv' OBVIOUS
  <2>1. which = "over"
    BY DEF Next, vars, NextWindows, NextCount, NextOver, Advance, Expire, InSum,
           ReadLeft, ReadRight, InJoin
  <2>. QED BY <2>1, OverSteps
<1>. QED BY <1>1, <1>2, PTL DEF Spec

(* A step of the OVER windows is one of WindowResults. *)
LEMMA OverEmits ==
  ASSUME which = "over", OverInv, [Next]_vars
  PROVE  [Results!Emit]_(Results!vars)
<1>1. /\ OverInv' /\ which' = "over" /\ stream' = stream
      /\ out' = out \/ \E e \in OverWindow!Expected : out' = Append(out, e)
  BY OverSteps
<1>2. /\ Results!vars = <<OverWindow!Expected, out>>
      /\ Results!vars' = <<OverWindow!Expected', out'>>
  BY <1>1 DEF Results!vars
<1>3. OverWindow!Expected' = OverWindow!Expected
  BY <1>1 DEF OverWindow!Expected, OverWindow!Preceded, OverWindow!UpTo, OverWindow!Before
<1>4. CASE out' = out BY <1>2, <1>3, <1>4
<1>5. CASE \E e \in OverWindow!Expected : out' = Append(out, e)
  <2>. DEFINE R == OverWindow!Expected
  <2>1. PICK e \in R : out' = Append(out, e) BY <1>5
  <2>2. out \in Seq(R) BY DEF OverInv, OverOut
  <2>3. Distinct(out') BY <1>1 DEF OverInv, OverOut
  <2>. HIDE DEF R
  <2>4. /\ out' \in Seq(R) /\ Len(out) \in Nat /\ Len(out') = Len(out) + 1
        /\ DOMAIN out' = 1..Len(out') /\ \A m \in DOMAIN out' : out'[m] \in R
    BY <2>1, <2>2
  <2>5. SubSeq(out', 1, Len(out)) = out BY <2>1, <2>2
  <2>6. \A i, j \in DOMAIN out' : out'[i] = out'[j] => i = j BY <2>3, <2>4 DEF Distinct
  <2>7. Len(out') > Len(out) BY <2>4
  <2>. QED BY <1>1, <1>3, <2>4, <2>5, <2>6, <2>7 DEF Results!Emit, R
<1>. QED BY <1>1, <1>4, <1>5

(* The OVER windows implement what is safety in WindowResults: every row   *)
(* gets at most one result, over the rows before it in time, wherever the  *)
(* watermarks come.                                                        *)
THEOREM OverImplements ==
  Spec => (which = "over" => Results!Init /\ [][Results!Emit]_(Results!vars))
<1>1. Init /\ which = "over" => Results!Init
  BY DEF Init, OverWindow!Init, Results!Init
<1>2. which = "over" /\ [Next]_vars => (which = "over")' BY OverStepIs
<1>3. which = "over" /\ OverInv /\ [Next]_vars => [Results!Emit]_(Results!vars) BY OverEmits
<1>. QED BY <1>1, <1>2, <1>3, OverInvariance, PTL DEF Spec


-------------------------------------------------------------------------------
(* The count windows *)

Counting == {stream[i] : i \in DOMAIN stream}
CountRow == [key : CountWindow!Keys, value : Int]

(* How many elements of its key there are up to an element: the first is 1, *)
(* the next is 2.                                                          *)
RankIn(s, i) == Cardinality(Places(s, s[i].key, i))

(* The m-th window of two. *)
WindowOf(s, k, n, m) ==
  {i \in Places(s, k, n) : (m - 1) * 2 < RankIn(s, i) /\ RankIn(s, i) =< m * 2}

WindowSum(s, k, n, m) == SumBy([j \in DOMAIN s |-> s[j].value], WindowOf(s, k, n, m))

(* The first elements of a key grow by those that are read, in number too. *)
LEMMA PlacesGrow ==
  ASSUME NEW s, NEW n \in Nat, NEW k
  PROVE  /\ IsFiniteSet(Places(s, k, n)) /\ Cardinality(Places(s, k, n)) \in Nat
         /\ Places(s, k, n) \subseteq 1..n
         /\ s[n + 1].key = k =>
              /\ Places(s, k, n + 1) = Places(s, k, n) \cup {n + 1} /\ n + 1 \notin Places(s, k, n)
              /\ Cardinality(Places(s, k, n + 1)) = Cardinality(Places(s, k, n)) + 1
              /\ RankIn(s, n + 1) = Cardinality(Places(s, k, n)) + 1
         /\ s[n + 1].key # k => Places(s, k, n + 1) = Places(s, k, n)
<1>1. IsFiniteSet(1..n) /\ Places(s, k, n) \subseteq 1..n BY FS_Interval DEF Places
<1>2. IsFiniteSet(Places(s, k, n)) /\ Cardinality(Places(s, k, n)) \in Nat
  BY <1>1, FS_Subset, FS_CardinalityType
<1>3. 1..(n + 1) = 1..n \cup {n + 1} /\ n + 1 \notin 1..n OBVIOUS
<1>4. ASSUME s[n + 1].key = k
      PROVE  Places(s, k, n + 1) = Places(s, k, n) \cup {n + 1} /\ n + 1 \notin Places(s, k, n)
  BY <1>3, <1>4 DEF Places
<1>5. ASSUME s[n + 1].key # k PROVE Places(s, k, n + 1) = Places(s, k, n)
  BY <1>3, <1>5 DEF Places
<1>. QED BY <1>1, <1>2, <1>4, <1>5, FS_AddElement DEF RankIn

(* The ranks of a key's elements are 1 to their number, in their order.    *)
LEMMA Ranks ==
  ASSUME NEW s, NEW n \in Nat, NEW k, NEW i \in Places(s, k, n)
  PROVE  /\ RankIn(s, i) \in 1..Cardinality(Places(s, k, n))
         /\ \A j \in Places(s, k, n) : i < j => RankIn(s, i) < RankIn(s, j)
<1>1. i \in 1..n /\ i \in Nat /\ s[i].key = k BY DEF Places
<1>2. ASSUME NEW m \in Nat
      PROVE  IsFiniteSet(Places(s, k, m)) /\ Cardinality(Places(s, k, m)) \in Nat
  BY <1>2, PlacesGrow
<1>3. i \in Places(s, k, i) BY <1>1 DEF Places
<1>4. RankIn(s, i) = Cardinality(Places(s, k, i)) BY <1>1 DEF RankIn
<1>5. RankIn(s, i) \in Nat /\ RankIn(s, i) # 0 BY <1>1, <1>2, <1>3, <1>4, FS_EmptySet
<1>6. Places(s, k, i) \subseteq Places(s, k, n) BY <1>1 DEF Places
<1>7. RankIn(s, i) =< Cardinality(Places(s, k, n)) BY <1>2, <1>4, <1>6, FS_Subset
<1>8. ASSUME NEW j \in Places(s, k, n), i < j PROVE RankIn(s, i) < RankIn(s, j)
  <2>1. j \in 1..n /\ j \in Nat /\ s[j].key = k BY DEF Places
  <2>2. RankIn(s, j) = Cardinality(Places(s, k, j)) BY <2>1 DEF RankIn
  <2>3. /\ Places(s, k, i) \subseteq Places(s, k, j)
        /\ j \in Places(s, k, j) /\ j \notin Places(s, k, i)
    BY <1>1, <1>8, <2>1 DEF Places
  <2>4. Places(s, k, i) # Places(s, k, j) BY <2>3
  <2>. QED BY <1>1, <1>2, <1>4, <2>1, <2>2, <2>3, <2>4, FS_Subset
<1>9. RankIn(s, i) \in 1..Cardinality(Places(s, k, n)) BY <1>2, <1>5, <1>7
<1>. QED BY <1>8, <1>9

(* The places of a sequence of results when there is one more. *)
LEMMA PlacesAppended ==
  ASSUME NEW R, NEW o \in Seq(R), NEW r \in R, NEW k
  PROVE  LET q == Append(o, r) IN
         /\ Len(q) = Len(o) + 1 /\ q[Len(o) + 1] = r
         /\ \A m \in 1..Len(o) : q[m] = o[m] /\ RankIn(q, m) = RankIn(o, m)
         /\ Places(q, k, Len(o)) = Places(o, k, Len(o))
<1>. DEFINE q == Append(o, r)
<1>1. /\ Len(q) = Len(o) + 1 /\ Len(o) \in Nat /\ q[Len(o) + 1] = r
      /\ \A m \in 1..Len(o) : q[m] = o[m]
  OBVIOUS
<1>. HIDE DEF q
<1>2. ASSUME NEW m \in 1..Len(o) PROVE \A c : Places(q, c, m) = Places(o, c, m)
  <2>1. 1..m \subseteq 1..Len(o) BY <1>1
  <2>. QED BY <1>1, <2>1 DEF Places
<1>3. Places(q, k, Len(o)) = Places(o, k, Len(o)) BY <1>1 DEF Places
<1>4. \A m \in 1..Len(o) : RankIn(q, m) = RankIn(o, m) BY <1>1, <1>2 DEF RankIn
<1>. QED BY <1>1, <1>3, <1>4 DEF q

(* The sum of a window of two elements. *)
LEMMA TotalOfTwo ==
  ASSUME NEW w, DOMAIN w = {1, 2}, w[1].value \in Int, w[2].value \in Int
  PROVE  CountWindow!Total(w) = w[1].value + w[2].value
<1>. DEFINE folded(it) == it = [s \in SUBSET DOMAIN w |->
              IF s = {} THEN 0
              ELSE it[s \ {CountWindow!Max(s)}] + w[CountWindow!Max(s)].value]
            h == [s \in SUBSET DOMAIN w |->
                    IF s = {} THEN 0
                    ELSE IF s = {1} THEN 0 + w[1].value
                    ELSE IF s = {2} THEN 0 + w[2].value
                    ELSE (0 + w[1].value) + w[2].value]
            f == CHOOSE it : folded(it)
<1>1. CountWindow!Total(w) = f[DOMAIN w]
  BY DEF CountWindow!Total, CountWindow!FoldLeft, CountWindow!MapThenFoldSet
<1>2. DOMAIN w = {1, 2} OBVIOUS
<1>3. /\ CountWindow!Max({1}) = 1 /\ CountWindow!Max({2}) = 2 /\ CountWindow!Max({1, 2}) = 2
  BY DEF CountWindow!Max
<1>4. \A s \in SUBSET DOMAIN w : s = {} \/ s = {1} \/ s = {2} \/ s = {1, 2} BY <1>2
<1>5. {1} \ {1} = {} /\ {2} \ {2} = {} /\ {1, 2} \ {2} = {1} OBVIOUS
<1>6. folded(h)
  <2>. SUFFICES ASSUME NEW s \in SUBSET DOMAIN w
       PROVE h[s] = IF s = {} THEN 0
                    ELSE h[s \ {CountWindow!Max(s)}] + w[CountWindow!Max(s)].value
    OBVIOUS
  <2>1. h[{}] = 0 /\ h[{1}] = 0 + w[1].value /\ h[{2}] = 0 + w[2].value
        /\ h[{1, 2}] = (0 + w[1].value) + w[2].value BY <1>2
  <2>2. {1} # {} /\ {2} # {} /\ {1, 2} # {} OBVIOUS
  <2>. HIDE DEF h
  <2>3. CASE s = {} BY <2>1, <2>3
  <2>4. CASE s = {1} BY <1>3, <1>5, <2>1, <2>2, <2>4
  <2>5. CASE s = {2} BY <1>3, <1>5, <2>1, <2>2, <2>5
  <2>6. CASE s = {1, 2}
    <3>1. CountWindow!Max(s) = 2 /\ s \ {2} = {1} BY <1>3, <1>5, <2>6
    <3>2. h[s] = (0 + w[1].value) + w[2].value /\ s # {} BY <2>1, <2>2, <2>6
    <3>3. h[s \ {CountWindow!Max(s)}] = 0 + w[1].value BY <2>1, <3>1
    <3>4. w[CountWindow!Max(s)].value = w[2].value BY <3>1
    <3>. QED BY <3>2, <3>3, <3>4
  <2>. QED BY <1>4, <2>3, <2>4, <2>5, <2>6
<1>7. folded(f)
  <2>. HIDE DEF folded, h
  <2>. QED BY <1>6
<1>8. f[{1, 2}] = (0 + w[1].value) + w[2].value
  <2>1. /\ f[{}] = 0 /\ f[{1}] = f[{}] + w[1].value
        /\ f[{1, 2}] = f[{1}] + w[2].value
    <3>1. \A s \in SUBSET DOMAIN w :
            f[s] = IF s = {} THEN 0
                   ELSE f[s \ {CountWindow!Max(s)}] + w[CountWindow!Max(s)].value
      <4>1. \A g : folded(g) => \A s \in SUBSET DOMAIN w :
                     g[s] = IF s = {} THEN 0
                            ELSE g[s \ {CountWindow!Max(s)}] + w[CountWindow!Max(s)].value
        OBVIOUS
      <4>. HIDE DEF folded, f
      <4>. QED BY <1>7, <4>1
    <3>. HIDE DEF f
    <3>2. {} \in SUBSET DOMAIN w /\ {1} \in SUBSET DOMAIN w /\ {1, 2} \in SUBSET DOMAIN w
      BY <1>2
    <3>3. f[{}] = 0 BY <3>1, <3>2
    <3>4. {1} # {} /\ {1, 2} # {} OBVIOUS
    <3>5. f[{1}] = f[{1} \ {1}] + w[1].value BY <1>3, <3>1, <3>2, <3>4
    <3>6. f[{1, 2}] = f[{1, 2} \ {2}] + w[2].value BY <1>3, <3>1, <3>2, <3>4
    <3>. QED BY <1>2, <1>5, <3>3, <3>5, <3>6
  <2>. HIDE DEF f
  <2>. QED BY <2>1
<1>. HIDE DEF f
<1>. QED BY <1>1, <1>2, <1>8


CountTyped ==
  /\ Numbered(stream) /\ (\A e \in Counting : e.value \in Int) /\ pos \in 0..Len(stream)
  /\ held \in [CountWindow!Keys -> Seq(Counting)]
  /\ out \in Seq(CountRow)

(* As many elements of the key are read as its results stand for and are   *)
(* held, the last one if there is one, and each result is the sum of its   *)
(* window.                                                                 *)
InPairs(k) ==
  /\ Cardinality(Places(stream, k, pos))
       = 2 * Cardinality(Places(out, k, Len(out))) + Len(held[k])
  /\ \/ held[k] = <<>>
     \/ \E i \in Places(stream, k, pos) :
          /\ RankIn(stream, i) = Cardinality(Places(stream, k, pos))
          /\ held[k] = <<stream[i]>>
  /\ \A m \in Places(out, k, Len(out)) :
       out[m].value = WindowSum(stream, k, pos, RankIn(out, m))

CountInv == CountTyped /\ \A k \in CountWindow!Keys : InPairs(k)

(* The element that is read, and what there is of its key. *)
LEMMA CountReads ==
  ASSUME CountTyped, pos < Len(stream)
  PROVE  /\ pos \in Nat /\ pos + 1 \in 1..Len(stream) /\ pos + 1 \in 0..Len(stream)
         /\ stream[pos + 1] \in Counting /\ stream[pos + 1].key \in CountWindow!Keys
         /\ held[stream[pos + 1].key] \in Seq(Counting)
<1>1. pos \in Nat /\ pos + 1 \in 1..Len(stream) /\ DOMAIN stream = 1..Len(stream)
  BY DEF CountTyped, Numbered
<1>. QED BY <1>1 DEF CountTyped, CountWindow!Keys, Counting

(* A window that is full does not change when an element is read. *)
LEMMA FullWindow ==
  ASSUME NEW s, NEW n \in Nat, NEW k, NEW m \in Nat, m * 2 =< Cardinality(Places(s, k, n))
  PROVE  WindowOf(s, k, n + 1, m) = WindowOf(s, k, n, m)
<1>1. CASE s[n + 1].key # k BY <1>1, PlacesGrow DEF WindowOf
<1>2. CASE s[n + 1].key = k
  <2>1. /\ Places(s, k, n + 1) = Places(s, k, n) \cup {n + 1}
        /\ RankIn(s, n + 1) = Cardinality(Places(s, k, n)) + 1
        /\ Cardinality(Places(s, k, n)) \in Nat
    BY <1>2, PlacesGrow
  <2>. QED BY <2>1 DEF WindowOf
<1>. QED BY <1>1, <1>2

(* The window that the next element of a key fills is that element and the *)
(* last one before it.                                                     *)
LEMMA NewWindow ==
  ASSUME NEW s, NEW n \in Nat, NEW k, NEW p \in Places(s, k, n + 1), p = n + 1,
         NEW i \in Places(s, k, n), RankIn(s, i) = Cardinality(Places(s, k, n)),
         NEW d \in Nat, d * 2 = Cardinality(Places(s, k, n)) + 1
  PROVE  \A j : j \in WindowOf(s, k, p, d) <=> j = i \/ j = p
<1>. DEFINE r == Cardinality(Places(s, k, n))
<1>. s[n + 1].key = k BY DEF Places
<1>0. r \in Nat BY PlacesGrow
<1>1. /\ Places(s, k, n + 1) = Places(s, k, n) \cup {n + 1}
      /\ RankIn(s, n + 1) = r + 1
  <2>1. RankIn(s, n + 1) = Cardinality(Places(s, k, n)) + 1 BY PlacesGrow
  <2>2. 1..(n + 1) = 1..n \cup {n + 1} OBVIOUS
  <2>3. Places(s, k, n + 1) = Places(s, k, n) \cup {n + 1} BY <2>2 DEF Places
  <2>. QED BY <2>1, <2>3
<1>2. ASSUME NEW j \in Places(s, k, n)
      PROVE  (r - 1 < RankIn(s, j) <=> j = i) /\ RankIn(s, j) =< r + 1
  <2>1. RankIn(s, j) \in 1..r BY Ranks
  <2>2. j \in Int /\ i \in Int BY DEF Places
  <2>3. j < i => RankIn(s, j) < RankIn(s, i) BY Ranks
  <2>4. i < j => RankIn(s, i) < RankIn(s, j) BY Ranks
  <2>5. RankIn(s, i) = r OBVIOUS
  <2>. HIDE DEF r
  <2>. QED BY <1>0, <2>1, <2>2, <2>3, <2>4, <2>5
<1>4. (d - 1) * 2 = r - 1 /\ d * 2 = r + 1 BY <1>0
<1>. HIDE DEF r
<1>5. WindowOf(s, k, n + 1, d)
        = {j \in Places(s, k, n) \cup {n + 1} : r - 1 < RankIn(s, j) /\ RankIn(s, j) =< r + 1}
  BY <1>1, <1>4 DEF WindowOf
<1>6. r - 1 < r + 1 /\ r + 1 =< r + 1 BY <1>0
<1>7. \A j : j \in WindowOf(s, k, n + 1, d) <=> j = i \/ j = n + 1 BY <1>1, <1>2, <1>5, <1>6
<1>. QED BY <1>7

(* The sum of such a window. *)
LEMMA PairSum ==
  ASSUME NEW f, NEW i, NEW j, i # j, f[i] \in Int, f[j] \in Int
  PROVE  SumBy(f, {i, j}) = f[i] + f[j]
<1>1. IsFiniteSet({}) /\ IsFiniteSet({i}) /\ IsFiniteSet({i, j})
  <2>1. {i, j} = {i} \cup {j} OBVIOUS
  <2>2. IsFiniteSet({i}) BY FS_Singleton
  <2>. QED BY <2>1, <2>2, FS_EmptySet, FS_AddElement
<1>2. {i, j} \ {j} = {i} /\ {i} \ {i} = {} OBVIOUS
<1>3. SumBy(f, {}) = 0 BY <1>1, SumStep
<1>4. SumBy(f, {i}) = SumBy(f, {i} \ {i}) + f[i] BY <1>1, SumWithout
<1>5. SumBy(f, {i, j}) = SumBy(f, {i, j} \ {j}) + f[j] BY <1>1, SumWithout
<1>6. SumBy(f, {i}) = 0 + f[i] BY <1>2, <1>3, <1>4
<1>7. SumBy(f, {i, j}) = SumBy(f, {i}) + f[j] BY <1>2, <1>5
<1>. QED BY <1>6, <1>7


(* In the beginning nothing is read, held or reported. *)
LEMMA CountInit == CountWindow!Init => CountInv
<1>. SUFFICES ASSUME CountWindow!Init PROVE CountInv OBVIOUS
<1>. USE DEF CountWindow!Init
<1>1. Numbered(stream) /\ \A e \in Counting : e.value \in Int
  <2>1. CASE stream = CountWindow!Greetings
    <3>1. Numbered(stream) /\ DOMAIN stream = 1..7
      BY <2>1 DEF CountWindow!Greetings, Numbered
    <3>2. \A i \in 1..7 : i = 1 \/ i = 2 \/ i = 3 \/ i = 4 \/ i = 5 \/ i = 6 \/ i = 7 OBVIOUS
    <3>3. \A i \in 1..7 : stream[i].value \in Int
      BY <2>1, <3>2 DEF CountWindow!Greetings
    <3>. QED BY <3>1, <3>3 DEF Counting
  <2>2. CASE stream \in Counted
    <3>. DEFINE R == [value : Int, key : STRING]
    <3>1. stream \in Seq(R) BY <2>2, CountedAssumption DEF CountedAssumption
    <3>2. \A r \in R : r.value \in Int OBVIOUS
    <3>. HIDE DEF R
    <3>. QED BY <3>1, <3>2, ElementIn DEF Numbered, Counting
  <2>. QED BY <2>1, <2>2
<1>2. CountTyped
  <2>1. pos \in 0..Len(stream) BY <1>1 DEF Numbered
  <2>2. held \in [CountWindow!Keys -> Seq(Counting)] OBVIOUS
  <2>. QED BY <1>1, <2>1, <2>2 DEF CountTyped
<1>3. ASSUME NEW k \in CountWindow!Keys PROVE InPairs(k)
  <2>1. Places(stream, k, pos) = {} /\ Places(out, k, Len(out)) = {} BY DEF Places
  <2>2. held[k] = <<>> BY <1>3
  <2>. QED BY <2>1, <2>2, FS_EmptySet DEF InPairs
<1>. QED BY <1>2, <1>3 DEF CountInv

(* The windows of the keys of other elements are as they were. *)
LEMMA OtherPairs ==
  ASSUME CountTyped, pos < Len(stream), NEW k, InPairs(k), k # stream[pos + 1].key,
         stream' = stream, pos' = pos + 1, held'[k] = held[k],
         \/ out' = out
         \/ \E r \in CountRow : r.key = stream[pos + 1].key /\ out' = Append(out, r)
  PROVE  InPairs(k)'
<1>1. pos \in Nat /\ Places(stream, k, pos + 1) = Places(stream, k, pos)
  BY CountReads, PlacesGrow
<1>2. \A m : WindowSum(stream, k, pos + 1, m) = WindowSum(stream, k, pos, m)
  BY <1>1 DEF WindowSum, WindowOf
<1>3. CASE out' = out BY <1>1, <1>2, <1>3 DEF InPairs
<1>4. ASSUME NEW r \in CountRow, r.key = stream[pos + 1].key, out' = Append(out, r)
      PROVE  InPairs(k)'
  <2>1. /\ Len(out') = Len(out) + 1 /\ out'[Len(out) + 1] = r /\ Len(out) \in Nat
        /\ \A m \in 1..Len(out) : out'[m] = out[m] /\ RankIn(out', m) = RankIn(out, m)
        /\ Places(out', k, Len(out)) = Places(out, k, Len(out))
    <3>. DEFINE R == CountRow
    <3>1. out \in Seq(R) BY DEF CountTyped
    <3>. HIDE DEF R
    <3>2. r \in R BY DEF R
    <3>3. Len(out) \in Nat BY <3>1
    <3>. QED BY <3>1, <3>2, <3>3, <1>4, PlacesAppended
  <2>2. Places(out', k, Len(out')) = Places(out, k, Len(out))
    <3>. DEFINE q == out'
                n == Len(out)
    <3>1. q[n + 1].key # k /\ n \in Nat BY <1>4, <2>1
    <3>. HIDE DEF q, n
    <3>2. Places(q, k, n + 1) = Places(q, k, n) BY <3>1, PlacesGrow
    <3>. QED BY <2>1, <3>2 DEF q, n
  <2>3. \A m \in Places(out, k, Len(out)) : m \in 1..Len(out) BY DEF Places
  <2>. QED BY <1>1, <1>2, <2>1, <2>2, <2>3 DEF InPairs
<1>. QED BY <1>3, <1>4

(* What the program does with an element: it holds one, or reports two.    *)
LEMMA CountApplies ==
  ASSUME CountTyped, CountWindow!Read, NEW k, k = stream[pos + 1].key, InPairs(k)
  PROVE  /\ stream' = stream /\ pos' = pos + 1 /\ k \in CountWindow!Keys
         /\ \/ /\ held[k] = <<>> /\ out' = out
               /\ held' = [held EXCEPT ![k] = <<stream[pos + 1]>>]
            \/ \E i \in Places(stream, k, pos) :
                 /\ RankIn(stream, i) = Cardinality(Places(stream, k, pos))
                 /\ held[k] = <<stream[i]>> /\ stream[i] \in Counting
                 /\ held' = [held EXCEPT ![k] = <<>>]
                 /\ out' = Append(out, [key |-> k,
                              value |-> stream[i].value + stream[pos + 1].value])
<1>. USE DEF CountWindow!Read, CountWindow!Apply
<1>. DEFINE e == stream[pos + 1]
<1>1. /\ pos + 1 \in 1..Len(stream) /\ e \in Counting /\ k \in CountWindow!Keys
      /\ held[k] \in Seq(Counting)
  BY CountReads
<1>2. CASE held[k] = <<>>
  <2>1. Append(held[k], e) = <<e>> /\ Len(<<e>>) = 1 BY <1>2
  <2>. QED BY <1>1, <1>2, <2>1
<1>3. ASSUME NEW i \in Places(stream, k, pos),
             RankIn(stream, i) = Cardinality(Places(stream, k, pos)), held[k] = <<stream[i]>>
      PROVE  /\ stream[i] \in Counting
             /\ held' = [held EXCEPT ![k] = <<>>]
             /\ out' = Append(out, [key |-> k, value |-> stream[i].value + e.value])
  <2>1. stream[i] \in Counting
    <3>1. i \in 1..pos /\ pos \in 0..Len(stream) /\ Len(stream) \in Nat
      BY DEF Places, CountTyped, Numbered
    <3>2. i \in 1..Len(stream) BY <3>1
    <3>. QED BY <3>2 DEF CountTyped, Numbered, Counting
  <2>. DEFINE w == Append(held[k], e)
  <2>2. Len(w) = 2 /\ DOMAIN w = {1, 2} /\ w[1] = stream[i] /\ w[2] = e BY <1>1, <1>3, <2>1
  <2>3. CountWindow!Total(w) = stream[i].value + e.value
    <3>1. stream[i].value \in Int /\ e.value \in Int BY <1>1, <2>1 DEF CountTyped
    <3>. HIDE DEF w
    <3>. QED BY <2>2, <3>1, TotalOfTwo
  <2>. QED BY <1>1, <2>1, <2>2, <2>3
<1>. QED BY <1>1, <1>2, <1>3 DEF InPairs


(* Reading an element keeps the windows of its key. *)
LEMMA OwnPairs ==
  ASSUME CountTyped, CountWindow!Read, NEW k, k = stream[pos + 1].key, InPairs(k)
  PROVE  InPairs(k)'
<1>. DEFINE n == Cardinality(Places(stream, k, pos))
            c == Cardinality(Places(out, k, Len(out)))
<1>1. /\ pos \in Nat /\ pos < Len(stream) /\ k \in CountWindow!Keys
      /\ pos + 1 \in 1..Len(stream) /\ stream' = stream /\ pos' = pos + 1
  BY CountReads, CountApplies DEF CountWindow!Read
<1>2. /\ Places(stream, k, pos + 1) = Places(stream, k, pos) \cup {pos + 1}
      /\ pos + 1 \notin Places(stream, k, pos)
      /\ Cardinality(Places(stream, k, pos + 1)) = n + 1
      /\ RankIn(stream, pos + 1) = n + 1 /\ n \in Nat
  <2>1. stream[pos + 1].key = k OBVIOUS
  <2>2. n \in Nat BY <1>1, PlacesGrow
  <2>3. /\ Places(stream, k, pos + 1) = Places(stream, k, pos) \cup {pos + 1}
        /\ pos + 1 \notin Places(stream, k, pos)
    <3>1. 1..(pos + 1) = 1..pos \cup {pos + 1} /\ pos + 1 \notin 1..pos BY <1>1
    <3>. QED BY <2>1, <3>1 DEF Places
  <2>4. Cardinality(Places(stream, k, pos + 1)) = n + 1 BY <1>1, <2>1, PlacesGrow
  <2>5. RankIn(stream, pos + 1) = n + 1 BY <1>1, <2>1, PlacesGrow
  <2>. QED BY <2>2, <2>3, <2>4, <2>5
<1>3. Len(out) \in Nat /\ c \in Nat
  <2>1. Len(out) \in Nat BY DEF CountTyped
  <2>. QED BY <2>1, PlacesGrow
<1>4. /\ n = 2 * c + Len(held[k])
      /\ \A m \in Places(out, k, Len(out)) :
           out[m].value = WindowSum(stream, k, pos, RankIn(out, m))
  BY DEF InPairs
<1>5. \A m \in Places(out, k, Len(out)) : m \in 1..Len(out) /\ RankIn(out, m) \in 1..c
  BY <1>3, Ranks DEF Places
<1>6. Len(held[k]) \in Nat BY <1>1 DEF CountTyped
<1>. HIDE DEF n, c
<1>7. \A m \in Places(out, k, Len(out)) :
        WindowSum(stream, k, pos + 1, RankIn(out, m)) = WindowSum(stream, k, pos, RankIn(out, m))
  <2>. SUFFICES ASSUME NEW m \in Places(out, k, Len(out))
       PROVE WindowOf(stream, k, pos + 1, RankIn(out, m)) = WindowOf(stream, k, pos, RankIn(out, m))
    BY DEF WindowSum
  <2>. DEFINE r == RankIn(out, m)
  <2>1. r \in Nat /\ r * 2 =< n
    <3>1. r \in 1..c BY <1>5
    <3>. HIDE DEF r
    <3>2. r \in Nat /\ r * 2 =< 2 * c BY <1>3, <3>1
    <3>3. n = 2 * c + Len(held[k]) BY <1>4
    <3>. DEFINE l == Len(held[k])
                b == 2 * c
    <3>4. b \in Nat /\ l \in Nat /\ n = b + l /\ r * 2 \in Nat /\ r * 2 =< b
      BY <1>3, <1>6, <3>2, <3>3
    <3>. HIDE DEF b, l
    <3>. QED BY <3>2, <3>4
  <2>. HIDE DEF r
  <2>2. WindowOf(stream, k, pos + 1, r) = WindowOf(stream, k, pos, r)
    BY <1>1, <2>1, FullWindow DEF n
  <2>. QED BY <2>2 DEF r
<1>8. CASE /\ held[k] = <<>> /\ out' = out
           /\ held' = [held EXCEPT ![k] = <<stream[pos + 1]>>]
  <2>1. held'[k] = <<stream[pos + 1]>> /\ Len(held'[k]) = 1 /\ Len(held[k]) = 0
    BY <1>1, <1>8 DEF CountTyped
  <2>2. Cardinality(Places(stream, k, pos + 1)) = 2 * c + Len(held'[k]) BY <1>2, <1>3, <1>4, <2>1
  <2>3. /\ pos + 1 \in Places(stream, k, pos + 1)
        /\ RankIn(stream, pos + 1) = Cardinality(Places(stream, k, pos + 1))
    BY <1>2
  <2>. QED BY <1>1, <1>4, <1>7, <1>8, <2>1, <2>2, <2>3 DEF InPairs, c
<1>9. ASSUME NEW i \in Places(stream, k, pos), RankIn(stream, i) = n,
             held[k] = <<stream[i]>>, stream[i] \in Counting,
             held' = [held EXCEPT ![k] = <<>>],
             out' = Append(out, [key |-> k, value |-> stream[i].value + stream[pos + 1].value])
      PROVE  InPairs(k)'
  <2>. DEFINE q == out'
              l == Len(out)
              r == [key |-> k, value |-> stream[i].value + stream[pos + 1].value]
  <2>1. Len(held[k]) = 1 /\ held'[k] = <<>> /\ Len(held'[k]) = 0 BY <1>1, <1>9 DEF CountTyped
  <2>2. stream[i].value \in Int /\ stream[pos + 1].value \in Int
    BY <1>1, <1>9, CountReads DEF CountTyped
  <2>3. r \in CountRow /\ r.key = k BY <1>1, <2>2 DEF CountRow
  <2>4. /\ Len(q) = l + 1 /\ q[l + 1] = r
        /\ \A m \in 1..l : q[m] = out[m] /\ RankIn(q, m) = RankIn(out, m)
        /\ Places(q, k, l) = Places(out, k, l)
    <3>. DEFINE R == CountRow
    <3>1. out \in Seq(R) /\ out' = Append(out, r) BY <1>9 DEF CountTyped
    <3>. HIDE DEF R, r
    <3>2. r \in R BY <2>3 DEF R
    <3>. QED BY <3>1, <3>2, PlacesAppended
  <2>5. /\ Places(q, k, l + 1) = Places(out, k, l) \cup {l + 1}
        /\ Cardinality(Places(q, k, l + 1)) = c + 1 /\ RankIn(q, l + 1) = c + 1
    <3>1. q[l + 1].key = k BY <2>3, <2>4
    <3>2. l \in Nat /\ c = Cardinality(Places(q, k, l)) BY <1>3, <2>4 DEF c
    <3>. HIDE DEF q, l
    <3>3. Places(q, k, l + 1) = Places(q, k, l) \cup {l + 1}
      <4>1. 1..(l + 1) = 1..l \cup {l + 1} BY <3>2
      <4>. QED BY <3>1, <4>1 DEF Places
    <3>4. Cardinality(Places(q, k, l + 1)) = c + 1 BY <3>1, <3>2, PlacesGrow
    <3>5. RankIn(q, l + 1) = c + 1 BY <3>1, <3>2, PlacesGrow
    <3>. QED BY <2>4, <3>3, <3>4, <3>5
  <2>6. n = 2 * c + 1 BY <1>3, <1>4, <2>1
  <2>7. Cardinality(Places(stream, k, pos + 1)) = 2 * (c + 1) + Len(held'[k])
    BY <1>2, <1>3, <2>1, <2>6
  <2>8. r.value = WindowSum(stream, k, pos + 1, c + 1)
    <3>. DEFINE f == [j \in DOMAIN stream |-> stream[j].value]
                p == pos + 1
    <3>1. i \in 1..pos /\ i \in 1..Len(stream) /\ DOMAIN stream = 1..Len(stream)
      BY <1>1, <1>9 DEF Places, CountTyped, Numbered
    <3>2. f[i] = stream[i].value /\ f[p] = stream[pos + 1].value /\ i # p BY <1>1, <3>1
    <3>3. WindowOf(stream, k, p, c + 1) = {i, p}
      <4>. DEFINE d == c + 1
      <4>1. d \in Nat /\ d * 2 = Cardinality(Places(stream, k, pos)) + 1
        BY <1>3, <2>6 DEF n
      <4>2. RankIn(stream, i) = Cardinality(Places(stream, k, pos)) BY <1>9 DEF n
      <4>. HIDE DEF d, r, q, l, f
      <4>3. pos \in Nat /\ pos + 1 \in Places(stream, k, pos + 1) BY <1>1, <1>2
      <4>4. \A j : j \in WindowOf(stream, k, pos + 1, d) <=> j = i \/ j = pos + 1
        BY <4>1, <4>2, <4>3, NewWindow
      <4>. QED BY <4>4 DEF d
    <3>. HIDE DEF f, p
    <3>4. SumBy(f, {i, p}) = f[i] + f[p] BY <2>2, <3>2, PairSum
    <3>. QED BY <3>2, <3>3, <3>4 DEF WindowSum, f, p
  <2>9. ASSUME NEW m \in Places(q, k, l + 1)
        PROVE  q[m].value = WindowSum(stream, k, pos + 1, RankIn(q, m))
    <3>1. CASE m = l + 1 BY <2>4, <2>5, <2>8, <3>1
    <3>2. CASE m \in Places(out, k, l) BY <1>4, <1>5, <1>7, <2>4, <3>2
    <3>. QED BY <2>5, <2>9, <3>1, <3>2
  <2>. QED BY <1>1, <2>1, <2>4, <2>5, <2>7, <2>9 DEF InPairs
<1>10. ASSUME ~ (held[k] = <<>> /\ out' = out
                 /\ held' = [held EXCEPT ![k] = <<stream[pos + 1]>>])
       PROVE  InPairs(k)'
  <2>1. PICK i \in Places(stream, k, pos) :
          /\ RankIn(stream, i) = Cardinality(Places(stream, k, pos))
          /\ held[k] = <<stream[i]>> /\ stream[i] \in Counting
          /\ held' = [held EXCEPT ![k] = <<>>]
          /\ out' = Append(out, [key |-> k,
                         value |-> stream[i].value + stream[pos + 1].value])
    BY <1>10, CountApplies
  <2>2. RankIn(stream, i) = n BY <2>1 DEF n
  <2>. QED BY <1>9, <2>1, <2>2
<1>. QED BY <1>8, <1>10


(* Only the count windows' own step is taken while they run. *)
LEMMA CountStepIs ==
  ASSUME [Next]_vars, which' = "count"
  PROVE  /\ which = "count"
         /\ \/ CountWindow!Read
            \/ stream' = stream /\ pos' = pos /\ held' = held /\ out' = out
<1>1. CASE UNCHANGED vars BY <1>1 DEF vars
<1>2. CASE NextWindows BY <1>2 DEF NextWindows
<1>3. CASE NextCount BY <1>3 DEF NextCount
<1>4. CASE NextOver BY <1>4 DEF NextOver
<1>5. CASE Advance BY <1>5 DEF Advance, InSum
<1>6. CASE Expire BY <1>6 DEF Expire, InSum
<1>7. CASE ReadLeft \/ ReadRight BY <1>7 DEF ReadLeft, ReadRight, InJoin
<1>. QED BY <1>1, <1>2, <1>3, <1>4, <1>5, <1>6, <1>7 DEF Next

(* Reading an element keeps the invariant for every key. *)
LEMMA CountKeeps ==
  ASSUME CountInv, CountWindow!Read
  PROVE  CountInv'
<1>. DEFINE e == stream[pos + 1]
            k == e.key
<1>1. /\ CountTyped /\ pos < Len(stream) /\ \A c \in CountWindow!Keys : InPairs(c)
  BY DEF CountInv, CountWindow!Read
<1>2. /\ pos \in Nat /\ pos + 1 \in 0..Len(stream) /\ e \in Counting /\ k \in CountWindow!Keys
  BY <1>1, CountReads
<1>3. InPairs(k) BY <1>1, <1>2
<1>4. /\ stream' = stream /\ pos' = pos + 1
      /\ \/ out' = out /\ held' = [held EXCEPT ![k] = <<e>>]
         \/ \E i \in Places(stream, k, pos) :
              /\ stream[i] \in Counting
              /\ held' = [held EXCEPT ![k] = <<>>]
              /\ out' = Append(out, [key |-> k, value |-> stream[i].value + e.value])
  BY <1>1, <1>3, CountApplies
<1>5. held' \in [CountWindow!Keys -> Seq(Counting)]
  <2>1. <<e>> \in Seq(Counting) /\ <<>> \in Seq(Counting) BY <1>2
  <2>2. held \in [CountWindow!Keys -> Seq(Counting)] BY <1>1 DEF CountTyped
  <2>. HIDE DEF k, e
  <2>. QED BY <1>2, <1>4, <2>1, <2>2
<1>6. /\ out' \in Seq(CountRow)
      /\ \/ out' = out
         \/ \E r \in CountRow : r.key = k /\ out' = Append(out, r)
  <2>1. CASE out' = out BY <1>1, <2>1 DEF CountTyped
  <2>2. ASSUME NEW i \in Places(stream, k, pos), stream[i] \in Counting,
               out' = Append(out, [key |-> k, value |-> stream[i].value + e.value])
        PROVE  /\ out' \in Seq(CountRow)
               /\ \E r \in CountRow : r.key = k /\ out' = Append(out, r)
    <3>. DEFINE R == CountRow
                r == [key |-> k, value |-> stream[i].value + e.value]
    <3>1. stream[i].value \in Int /\ e.value \in Int BY <1>1, <1>2, <2>2 DEF CountTyped
    <3>2. r \in R /\ r.key = k BY <1>2, <3>1 DEF CountRow
    <3>3. out \in Seq(R) /\ out' = Append(out, r) BY <1>1, <2>2 DEF CountTyped
    <3>. HIDE DEF R, r
    <3>4. out' \in Seq(R) BY <3>2, <3>3
    <3>. QED BY <3>2, <3>3, <3>4 DEF R
  <2>. QED BY <1>4, <2>1, <2>2
<1>7. CountWindow!Keys' = CountWindow!Keys /\ Counting' = Counting /\ CountRow' = CountRow
  BY <1>4 DEF CountWindow!Keys, Counting, CountRow
<1>8. CountTyped' BY <1>1, <1>2, <1>4, <1>5, <1>6, <1>7 DEF CountTyped
<1>9. ASSUME NEW c \in CountWindow!Keys PROVE InPairs(c)'
  <2>1. CASE c = k BY <1>1, <1>3, <2>1, OwnPairs
  <2>2. CASE c # k
    <3>1. held'[c] = held[c] BY <1>1, <1>4, <2>2 DEF CountTyped
    <3>. QED BY <1>1, <1>4, <1>6, <2>2, <3>1, OtherPairs
  <2>. QED BY <2>1, <2>2
<1>. QED BY <1>7, <1>8, <1>9 DEF CountInv

(* Every element is in a window that has been reported or is held.         *)
THEOREM CountInvariance == Spec => [](which = "count" => CountInv)
<1>. DEFINE Inv == which = "count" => CountInv
<1>1. Init => Inv
  <2>. SUFFICES ASSUME Init, which = "count" PROVE CountInv OBVIOUS
  <2>. QED BY CountInit DEF Init
<1>2. Inv /\ [Next]_vars => Inv'
  <2>. SUFFICES ASSUME Inv, [Next]_vars, which' = "count" PROVE CountInv' OBVIOUS
  <2>1. which = "count" /\ CountInv BY CountStepIs
  <2>2. CASE CountWindow!Read BY <2>1, <2>2, CountKeeps
  <2>3. CASE stream' = stream /\ pos' = pos /\ held' = held /\ out' = out
    <3>1. CountWindow!Keys' = CountWindow!Keys /\ Counting' = Counting /\ CountRow' = CountRow
      BY <2>3 DEF CountWindow!Keys, Counting, CountRow
    <3>2. CountTyped' BY <2>1, <2>3, <3>1 DEF CountInv, CountTyped
    <3>3. \A k \in CountWindow!Keys : InPairs(k)' BY <2>1, <2>3 DEF CountInv, InPairs
    <3>. QED BY <3>1, <3>2, <3>3 DEF CountInv
  <2>. QED BY <2>2, <2>3, CountStepIs
<1>. QED BY <1>1, <1>2, PTL DEF Spec


(* Cardinality and the places of a key are the same in that module.        *)
LEMMA CountNames ==
  /\ \A S : CountWindow!Cardinality(S) = Cardinality(S)
  /\ \A k : CountWindow!Places(k) = Places(stream, k, pos)
  /\ \A i : CountWindow!Rank(i) = RankIn(stream, i)
  /\ \A n : CountWindow!Nth(n) = RankIn(out, n)
<1>1. \A S : CountWindow!Cardinality(S) = Cardinality(S)
  BY Zenon DEF CountWindow!Cardinality, Cardinality
<1>2. \A k : CountWindow!Places(k) = Places(stream, k, pos) BY DEF CountWindow!Places, Places
<1>3. \A i : CountWindow!Rank(i) = RankIn(stream, i)
  BY <1>1 DEF CountWindow!Rank, RankIn, Places
<1>4. \A n : CountWindow!Nth(n) = RankIn(out, n) BY <1>1 DEF CountWindow!Nth, RankIn, Places
<1>. QED BY <1>1, <1>2, <1>3, <1>4

(* The fold over the values of some places is the sum of those. *)
LEMMA CountFoldIsSum ==
  ASSUME NEW s, NEW S, NEW f, \A j \in S : f[j] = s[j].value
  PROVE  CountWindow!MapThenSumSet(LAMBDA j : s[j].value, S) = SumBy(f, S)
<1>. DEFINE folded(it) == it = [r \in SUBSET S |->
              IF r = {} THEN 0 ELSE s[Pick(r)].value + it[r \ {Pick(r)}]]
<1>1. CountWindow!MapThenSumSet(LAMBDA j : s[j].value, S) = (CHOOSE it : folded(it))[S]
  BY DEF CountWindow!MapThenSumSet, CountWindow!MapThenFoldSet, Pick
<1>2. \A r \in SUBSET S : r # {} => f[Pick(r)] = s[Pick(r)].value
  BY PickIn
<1>3. \A it : folded(it) <=> Sums(f, S, it)
  BY <1>2 DEF Sums
<1>. HIDE DEF folded
<1>4. (CHOOSE it : folded(it)) = (CHOOSE it : Sums(f, S, it))
  BY <1>3
<1>. QED BY <1>1, <1>4 DEF SumBy

(* The windows of tumbling_count_window.py tile the elements of every key, *)
(* on every input.                                                         *)
THEOREM AlwaysTiled == Spec => []Tiled
<1>1. (which = "count" => CountInv) => Tiled
  <2>. SUFFICES ASSUME CountInv, NEW k \in CountWindow!Keys
       PROVE  LET full   == CountWindow!Cardinality(CountWindow!Results(k)) * 2
                  beyond == {i \in CountWindow!Places(k) : CountWindow!Rank(i) > full} IN
              /\ CountWindow!Cardinality(CountWindow!Results(k))
                   = CountWindow!Cardinality(CountWindow!Places(k)) \div 2
              /\ \A n \in CountWindow!Results(k) :
                   out[n].value = CountWindow!MapThenSumSet(LAMBDA i : stream[i].value,
                                    CountWindow!Window(k, CountWindow!Nth(n)))
              /\ Len(held[k]) = CountWindow!Cardinality(beyond) /\ Len(held[k]) < 2
              /\ \A i \in beyond : held[k][CountWindow!Rank(i) - full] = stream[i]
    BY DEF Tiled, CountWindow!Tiled
  <2>. DEFINE P == Places(stream, k, pos)
              O == Places(out, k, Len(out))
              n == Cardinality(P)
              c == Cardinality(O)
              beyond == {i \in P : RankIn(stream, i) > c * 2}
  <2>1. CountTyped /\ InPairs(k) BY DEF CountInv
  <2>2. /\ Numbered(stream) /\ pos \in Nat /\ pos \in 0..Len(stream)
        /\ Len(out) \in Nat /\ DOMAIN out = 1..Len(out)
    BY <2>1 DEF CountTyped, Numbered
  <2>3. n \in Nat /\ c \in Nat BY <2>2, PlacesGrow
  <2>4. CountWindow!Results(k) = O BY <2>2 DEF CountWindow!Results, Places
  <2>5. n = 2 * c + Len(held[k]) BY <2>1 DEF InPairs
  <2>6. \A m \in O : out[m].value = WindowSum(stream, k, pos, RankIn(out, m))
    BY <2>1 DEF InPairs
  <2>7. \A i \in P : RankIn(stream, i) \in 1..n BY <2>2, Ranks
  <2>8. \/ held[k] = <<>> /\ Len(held[k]) = 0
        \/ \E i \in P : RankIn(stream, i) = n /\ held[k] = <<stream[i]>>
    BY <2>1 DEF InPairs
  <2>9. ASSUME NEW m
        PROVE  CountWindow!MapThenSumSet(LAMBDA i : stream[i].value, CountWindow!Window(k, m))
                 = WindowSum(stream, k, pos, m)
    <3>. DEFINE f == [j \in DOMAIN stream |-> stream[j].value]
                W == WindowOf(stream, k, pos, m)
    <3>1. CountWindow!Window(k, m) = W BY CountNames DEF CountWindow!Window, WindowOf
    <3>2. \A j \in W : j \in DOMAIN stream BY <2>2 DEF WindowOf, Places, Numbered
    <3>3. \A j \in W : f[j] = stream[j].value BY <3>2
    <3>4. WindowSum(stream, k, pos, m) = SumBy(f, W) BY DEF WindowSum
    <3>. HIDE DEF f, W
    <3>. QED BY <3>1, <3>3, <3>4, CountFoldIsSum
  <2>. HIDE DEF n, c
  <2>10. /\ Len(held[k]) = Cardinality(beyond) /\ Len(held[k]) < 2
         /\ \A i \in beyond : held[k][RankIn(stream, i) - c * 2] = stream[i]
    <3>1. CASE held[k] = <<>> /\ Len(held[k]) = 0
      <4>1. n = 2 * c BY <2>3, <2>5, <3>1
      <4>2. beyond = {} BY <2>3, <2>7, <4>1
      <4>. HIDE DEF beyond
      <4>. QED BY <3>1, <4>2, FS_EmptySet
    <3>2. ASSUME NEW i \in P, RankIn(stream, i) = n, held[k] = <<stream[i]>>
          PROVE  /\ Len(held[k]) = Cardinality(beyond) /\ Len(held[k]) < 2
                 /\ \A j \in beyond : held[k][RankIn(stream, j) - c * 2] = stream[j]
      <4>1. Len(held[k]) = 1 /\ held[k][1] = stream[i] BY <3>2
      <4>2. n = 2 * c + 1 BY <2>3, <2>5, <4>1
      <4>3. ASSUME NEW j \in P PROVE RankIn(stream, j) > c * 2 <=> j = i
        <5>1. RankIn(stream, j) \in 1..n BY <2>7
        <5>2. j \in Int /\ i \in Int BY DEF Places
        <5>3. i < j => RankIn(stream, i) < RankIn(stream, j) BY <2>2, Ranks
        <5>4. j < i => RankIn(stream, j) < RankIn(stream, i) BY <2>2, Ranks
        <5>. HIDE DEF P
        <5>. QED BY <2>3, <3>2, <4>2, <5>1, <5>2, <5>3, <5>4
      <4>4. beyond = {i}
        <5>. HIDE DEF P
        <5>. QED BY <4>3
      <4>5. Cardinality({i}) = 1 BY FS_Singleton
      <4>6. n - c * 2 = 1 BY <2>3, <4>2
      <4>. HIDE DEF beyond
      <4>. QED BY <3>2, <4>1, <4>4, <4>5, <4>6
    <3>. HIDE DEF P, beyond
    <3>. QED BY <2>8, <3>1, <3>2
  <2>11. c = n \div 2
    <3>1. Len(held[k]) = 0 \/ Len(held[k]) = 1
      <4>1. \A i : Len(<<stream[i]>>) = 1 OBVIOUS
      <4>. HIDE DEF P
      <4>. QED BY <2>8, <4>1
    <3>2. n = 2 * c \/ n = 2 * c + 1
      <4>. DEFINE b == 2 * c
      <4>1. b \in Nat BY <2>3
      <4>2. n = b + Len(held[k]) BY <2>5
      <4>. DEFINE l == Len(held[k])
      <4>3. l = 0 \/ l = 1 BY <3>1
      <4>4. n = b + l BY <4>2
      <4>. HIDE DEF b, l
      <4>5. n = b \/ n = b + 1 BY <4>1, <4>3, <4>4
      <4>. QED BY <4>5 DEF b
    <3>. QED BY <2>3, <3>2
  <2>12. /\ CountWindow!Cardinality(CountWindow!Results(k)) = c
         /\ CountWindow!Cardinality(CountWindow!Places(k)) = n
    BY <2>4, CountNames DEF c, n
  <2>13. {i \in CountWindow!Places(k) : CountWindow!Rank(i) > c * 2} = beyond BY CountNames
  <2>14. \A i : CountWindow!Rank(i) = RankIn(stream, i) BY CountNames
  <2>15. \A m : CountWindow!Nth(m) = RankIn(out, m) BY CountNames
  <2>16. CountWindow!Cardinality(beyond) = Cardinality(beyond) BY CountNames
  <2>. HIDE DEF beyond, O, P
  <2>17. \A m \in CountWindow!Results(k) :
           out[m].value = CountWindow!MapThenSumSet(LAMBDA i : stream[i].value,
                            CountWindow!Window(k, CountWindow!Nth(m)))
    BY <2>4, <2>6, <2>9, <2>15
  <2>. QED BY <2>10, <2>11, <2>12, <2>13, <2>14, <2>16, <2>17
<1>. QED BY <1>1, CountInvariance, PTL

-------------------------------------------------------------------------------
(* The time windows *)

At(i)   == TimeWindows!stream[i]
Ts(i)   == At(i).ts
Ends(i) == Ts(i) + TimeWindows!Gap(i)        \* where a session of it alone ends
Sliding == TimeWindows!program.assign = "slide"
Lag     == TimeWindows!program.lag
Input   == 1..Len(TimeWindows!stream)

(* Elements with their times, in time. *)
TimedElements ==
  /\ Numbered(TimeWindows!stream) /\ Lag \in Nat
  /\ \A i \in Input : Ts(i) \in Nat /\ Ends(i) \in Int
  /\ \A i, l \in Input : i < l => Ts(i) - Lag =< Ts(l)

(* Sessions have a length, and an element just at the end of one of its    *)
(* key is read before a watermark gets there, or after an element that     *)
(* joins the session.                                                      *)
Untied ==
  /\ \A i \in Input : Ts(i) < Ends(i)
  /\ \A i, l, m \in Input :
       At(i).key = At(l).key /\ Ts(l) = Ends(i) /\ m < l /\ Ts(m) - Lag = Ts(l)
         => Lag = 0 /\ At(m).key = At(l).key

(* The elements of a key among the first n. *)
Of(k, n) == Places(TimeWindows!stream, k, n)

(* w is a window of the first n elements, of a fixed length and with all   *)
(* that lie in it.                                                         *)
SlideOf(w, n) ==
  /\ \E i \in 1..n : /\ w.key = At(i).key
                     /\ w.start \in TimeWindows!Starts(Ts(i), TimeWindows!program.size,
                                                       TimeWindows!program.step)
  /\ w = [key |-> w.key, start |-> w.start, end |-> w.start + TimeWindows!program.size,
          members |-> {i \in Of(w.key, n) : /\ w.start =< Ts(i)
                                            /\ Ts(i) < w.start + TimeWindows!program.size}]

(* w is a session of the first n elements: its members reach from its      *)
(* start to its end without a gap, and no other element of its key touches *)
(* it.                                                                     *)
SessionOf(w, n) ==
  /\ w = [key |-> w.key, start |-> w.start, end |-> w.end, members |-> w.members]
  /\ w.members \subseteq Of(w.key, n)
  /\ \E i \in w.members : Ts(i) = w.start
  /\ \E i \in w.members : Ends(i) = w.end
  /\ \A i \in w.members : w.start =< Ts(i) /\ Ends(i) =< w.end
  /\ \A t \in w.start..(w.end - 1) : \E i \in w.members : Ts(i) =< t /\ t < Ends(i)
  /\ \A i \in Of(w.key, n) \ w.members : Ends(i) < w.start \/ w.end < Ts(i)

WindowOfFirst(w, n) == IF Sliding THEN SlideOf(w, n) ELSE SessionOf(w, n)

WindowTyped ==
  /\ TimedElements /\ IF Sliding THEN TimeWindows!program.size \in Nat \ {0} ELSE Untied
  /\ pos \in 0..Len(TimeWindows!stream) /\ latest \in Int /\ mark \in Int

(* m is the first watermark, one that an element of the first n has set,   *)
(* or the last.                                                            *)
MarkOf(m, n) ==
  m = -1 - Lag \/ n = Len(TimeWindows!stream) \/ \E l \in 1..n : m = Ts(l) - Lag

MarkRead ==
  MarkOf(mark, pos) /\ (latest = -1 \/ \E l \in 1..pos : latest = Ts(l))

(* The open windows are those of the elements read that the watermark has  *)
(* not passed, and every element is in a session.                          *)
OpenWindows ==
  /\ IsFiniteSet(windows)
  /\ \A w : w \in windows <=> WindowOfFirst(w, pos) /\ w.end > mark
  /\ ~Sliding => \A i \in 1..pos : \E w : SessionOf(w, pos) /\ i \in w.members

(* The results are those of windows that it has passed, each once. *)
ResultsPassed ==
  /\ out \in Seq(TimeWindows!Expected) /\ Distinct(out)
  /\ \A m \in 1..Len(out) : out[m].end \in Int /\ out[m].end =< mark

(* Every window of the elements read that it has passed has its result.    *)
PassedReported ==
  \A w : WindowOfFirst(w, pos) /\ w.end =< mark => TimeWindows!Result(w) \in Held(out)

WindowInv == WindowTyped /\ MarkRead /\ OpenWindows /\ ResultsPassed /\ PassedReported

(* What a session's definition says, without its record. *)
LEMMA SessionParts ==
  ASSUME NEW w, NEW n, SessionOf(w, n)
  PROVE  /\ \A i \in w.members : /\ i \in Of(w.key, n) /\ w.start =< Ts(i) /\ Ends(i) =< w.end
         /\ \E i \in w.members : Ts(i) = w.start
         /\ \E i \in w.members : Ends(i) = w.end
         /\ \A t \in w.start..(w.end - 1) : \E i \in w.members : Ts(i) =< t /\ t < Ends(i)
         /\ \A i \in Of(w.key, n) : i \notin w.members => Ends(i) < w.start \/ w.end < Ts(i)
BY DEF SessionOf

(* The elements of a key have times, and sessions of them too. *)
LEMMA SessionTyped ==
  ASSUME TimedElements, Untied, NEW n \in 0..Len(TimeWindows!stream), NEW w, SessionOf(w, n)
  PROVE  /\ \A i \in Of(w.key, n) : /\ i \in Input /\ i \in 1..n /\ At(i).key = w.key
                                    /\ Ts(i) \in Int /\ Ends(i) \in Int /\ Ts(i) < Ends(i)
         /\ w.start \in Int /\ w.end \in Int /\ w.start < w.end /\ 0 =< w.start
<1>1. n \in Nat /\ 1..n \subseteq Input
  BY DEF TimedElements, Numbered, Input
<1>2. \A i \in Of(w.key, n) : /\ i \in Input /\ i \in 1..n /\ At(i).key = w.key
                              /\ Ts(i) \in Nat /\ Ends(i) \in Int /\ Ts(i) < Ends(i)
  BY <1>1 DEF Of, Places, At, TimedElements, Untied
<1>3. PICK a \in w.members : Ts(a) = w.start /\ a \in Of(w.key, n) /\ Ends(a) =< w.end
  BY SessionParts
<1>4. PICK b \in w.members : Ends(b) = w.end /\ b \in Of(w.key, n)
  BY SessionParts
<1>5. w.start \in Nat /\ w.end \in Int /\ Ts(a) < Ends(a) /\ Ends(a) =< w.end
  BY <1>2, <1>3, <1>4
<1>6. w.start < w.end BY <1>2, <1>3, <1>5
<1>. QED BY <1>2, <1>5, <1>6

(* Two sessions of a key that are not apart are one. *)
LEMMA SessionsApart ==
  ASSUME TimedElements, Untied, NEW n \in 0..Len(TimeWindows!stream),
         NEW v, SessionOf(v, n), NEW w, SessionOf(w, n), v.key = w.key,
         v.start =< w.end, w.start =< v.end
  PROVE  v = w
<1>. DEFINE K == Of(w.key, n)
<1>1. /\ v.start \in Int /\ v.end \in Int /\ w.start \in Int /\ w.end \in Int
      /\ v.start < v.end /\ w.start < w.end
      /\ \A i \in K : Ts(i) \in Int /\ Ends(i) \in Int /\ Ts(i) < Ends(i)
  BY SessionTyped
<1>2. /\ \A i \in v.members : i \in K /\ v.start =< Ts(i) /\ Ends(i) =< v.end
      /\ \A t \in v.start..(v.end - 1) : \E i \in v.members : Ts(i) =< t /\ t < Ends(i)
      /\ \A i \in K : i \notin v.members => Ends(i) < v.start \/ v.end < Ts(i)
  BY SessionParts
<1>3. /\ \A i \in w.members : i \in K /\ w.start =< Ts(i) /\ Ends(i) =< w.end
      /\ \A t \in w.start..(w.end - 1) : \E i \in w.members : Ts(i) =< t /\ t < Ends(i)
      /\ \A i \in K : i \notin w.members => Ends(i) < w.start \/ w.end < Ts(i)
  BY SessionParts
<1>4. v.end =< w.end
  <2>. SUFFICES ASSUME w.end < v.end PROVE FALSE BY <1>1
  <2>1. w.end \in v.start..(v.end - 1) BY <1>1
  <2>2. PICK i \in v.members : Ts(i) =< w.end /\ w.end < Ends(i) BY <1>2, <2>1
  <2>3. i \in K /\ i \notin w.members BY <1>1, <1>2, <1>3, <2>2
  <2>. QED BY <1>1, <1>3, <2>2, <2>3
<1>5. w.end =< v.end
  <2>. SUFFICES ASSUME v.end < w.end PROVE FALSE BY <1>1
  <2>1. v.end \in w.start..(w.end - 1) BY <1>1
  <2>2. PICK i \in w.members : Ts(i) =< v.end /\ v.end < Ends(i) BY <1>3, <2>1
  <2>3. i \in K /\ i \notin v.members BY <1>1, <1>2, <1>3, <2>2
  <2>. QED BY <1>1, <1>2, <2>2, <2>3
<1>6. w.start =< v.start
  <2>. SUFFICES ASSUME v.start < w.start PROVE FALSE BY <1>1
  <2>. DEFINE t == w.start - 1
  <2>1. t \in v.start..(v.end - 1) BY <1>1
  <2>2. PICK i \in v.members : Ts(i) =< t /\ t < Ends(i)
    <3>. HIDE DEF t
    <3>. QED BY <1>2, <2>1
  <2>3. i \in K /\ i \notin w.members BY <1>1, <1>2, <1>3, <2>2
  <2>4. Ts(i) \in Int /\ Ends(i) \in Int /\ (Ends(i) < w.start \/ w.end < Ts(i))
    BY <1>1, <1>3, <2>3
  <2>. QED BY <1>1, <2>2, <2>4
<1>7. v.start =< w.start
  <2>. SUFFICES ASSUME w.start < v.start PROVE FALSE BY <1>1
  <2>. DEFINE t == v.start - 1
  <2>1. t \in w.start..(w.end - 1) BY <1>1
  <2>2. PICK i \in w.members : Ts(i) =< t /\ t < Ends(i)
    <3>. HIDE DEF t
    <3>. QED BY <1>3, <2>1
  <2>3. i \in K /\ i \notin v.members BY <1>1, <1>2, <1>3, <2>2
  <2>4. Ts(i) \in Int /\ Ends(i) \in Int /\ (Ends(i) < v.start \/ v.end < Ts(i))
    BY <1>1, <1>2, <2>3
  <2>. QED BY <1>1, <2>2, <2>4
<1>8. v.start = w.start /\ v.end = w.end BY <1>1, <1>4, <1>5, <1>6, <1>7
<1>9. \A i \in v.members : i \in w.members BY <1>1, <1>2, <1>3, <1>8
<1>10. \A i \in w.members : i \in v.members BY <1>1, <1>2, <1>3, <1>8
<1>11. v.members = w.members BY <1>9, <1>10
<1>12. /\ v = [key |-> v.key, start |-> v.start, end |-> v.end, members |-> v.members]
       /\ w = [key |-> w.key, start |-> w.start, end |-> w.end, members |-> w.members]
  BY DEF SessionOf
<1>. QED BY <1>8, <1>11, <1>12

(* An element that is not read yet is not behind the watermark. *)
LEMMA UnreadInTime ==
  ASSUME TimedElements, NEW n \in 0..Len(TimeWindows!stream), NEW m, MarkOf(m, n),
         NEW j \in Input, j > n
  PROVE  m =< Ts(j)
<1>1. /\ Len(TimeWindows!stream) \in Nat /\ n \in Nat /\ Lag \in Nat
      /\ j \in Nat /\ j =< Len(TimeWindows!stream) /\ Ts(j) \in Nat
  BY DEF TimedElements, Numbered, Input
<1>2. CASE m = -1 - Lag BY <1>1, <1>2
<1>3. CASE n = Len(TimeWindows!stream) BY <1>1, <1>3
<1>4. CASE \E l \in 1..n : m = Ts(l) - Lag
  <2>1. PICK l \in 1..n : m = Ts(l) - Lag BY <1>4
  <2>2. l \in Input /\ l < j BY <1>1 DEF Input
  <2>. QED BY <2>1, <2>2 DEF TimedElements
<1>. QED BY <1>2, <1>3, <1>4 DEF MarkOf

(* A session stays one when what is read does not touch it. *)
LEMMA SessionKept ==
  ASSUME TimedElements, NEW n \in 0..Len(TimeWindows!stream),
         NEW q \in n..Len(TimeWindows!stream), NEW w, SessionOf(w, n),
         \A j \in Of(w.key, q) : j > n => Ends(j) < w.start \/ w.end < Ts(j)
  PROVE  SessionOf(w, q)
<1>1. n \in Nat /\ q \in Nat /\ n =< q BY DEF TimedElements, Numbered
<1>2. Of(w.key, n) \subseteq Of(w.key, q) BY <1>1 DEF Of, Places
<1>3. \A i \in Of(w.key, q) : i > n \/ i \in Of(w.key, n) BY <1>1 DEF Of, Places
<1>4. w.members \subseteq Of(w.key, q) BY <1>2 DEF SessionOf
<1>5. \A i \in Of(w.key, q) \ w.members : Ends(i) < w.start \/ w.end < Ts(i)
  BY <1>3 DEF SessionOf
<1>. QED BY <1>4, <1>5 DEF SessionOf

(* And it was one before elements were read that are not in it. *)
LEMMA SessionBefore ==
  ASSUME TimedElements, NEW n \in 0..Len(TimeWindows!stream),
         NEW q \in n..Len(TimeWindows!stream), NEW w, SessionOf(w, q), w.members \subseteq 1..n
  PROVE  SessionOf(w, n)
<1>1. n \in Nat /\ q \in Nat /\ n =< q BY DEF TimedElements, Numbered
<1>2. Of(w.key, n) \subseteq Of(w.key, q) BY <1>1 DEF Of, Places
<1>3. w.members \subseteq Of(w.key, n) BY <1>1 DEF SessionOf, Of, Places
<1>4. \A i \in Of(w.key, n) \ w.members : Ends(i) < w.start \/ w.end < Ts(i)
  BY <1>2 DEF SessionOf
<1>. QED BY <1>3, <1>4 DEF SessionOf

(* When the watermark has passed a session, nothing that comes touches it. *)
LEMMA SessionPassed ==
  ASSUME TimedElements, Untied, NEW n \in 0..Len(TimeWindows!stream), NEW w, SessionOf(w, n),
         NEW m, m \in Int, MarkOf(m, n), w.end =< m,
         NEW j \in Input, j > n, At(j).key = w.key
  PROVE  w.end < Ts(j)
<1>1. /\ w.start \in Int /\ w.end \in Int /\ w.start < w.end /\ 0 =< w.start
      /\ \A i \in Of(w.key, n) : /\ i \in Input /\ i \in 1..n /\ At(i).key = w.key
                                 /\ Ts(i) \in Int /\ Ends(i) \in Int /\ Ts(i) < Ends(i)
  BY SessionTyped
<1>2. /\ Len(TimeWindows!stream) \in Nat /\ n \in Nat /\ Lag \in Nat
      /\ j \in Nat /\ j =< Len(TimeWindows!stream) /\ Ts(j) \in Nat
  BY DEF TimedElements, Numbered, Input
<1>3. m =< Ts(j) BY UnreadInTime
<1>4. SUFFICES ASSUME Ts(j) = w.end PROVE FALSE BY <1>1, <1>2, <1>3
<1>5. m = Ts(j) /\ m # -1 - Lag /\ n # Len(TimeWindows!stream) BY <1>1, <1>2, <1>3, <1>4
<1>6. PICK l \in 1..n : m = Ts(l) - Lag BY <1>5 DEF MarkOf
<1>7. l \in Input /\ l < j BY <1>2 DEF Input
<1>8. PICK i \in w.members : Ends(i) = w.end /\ i \in Of(w.key, n) BY SessionParts
<1>9. Lag = 0 /\ At(l).key = w.key
  <2>1. i \in Input /\ At(i).key = At(j).key /\ Ts(j) = Ends(i) BY <1>1, <1>4, <1>8
  <2>2. Ts(l) - Lag = Ts(j) BY <1>5, <1>6
  <2>. QED BY <1>7, <2>1, <2>2 DEF Untied
<1>10. l \in Of(w.key, n) BY <1>9 DEF Of, Places, At
<1>11. Ts(l) = w.end /\ Ts(l) < Ends(l) /\ Ends(l) \in Int BY <1>1, <1>4, <1>5, <1>6, <1>9, <1>10
<1>12. CASE l \in w.members
  <2>1. Ends(l) =< w.end BY <1>12, SessionParts
  <2>. QED BY <1>1, <1>11, <2>1
<1>13. CASE l \notin w.members
  <2>1. Ends(l) < w.start \/ w.end < Ts(l) BY <1>10, <1>13, SessionParts
  <2>. QED BY <1>1, <1>11, <2>1
<1>. QED BY <1>12, <1>13

(* So it is one of the whole input. *)
LEMMA SessionWhole ==
  ASSUME TimedElements, Untied, NEW n \in 0..Len(TimeWindows!stream), NEW w, SessionOf(w, n),
         NEW m, m \in Int, MarkOf(m, n), w.end =< m
  PROVE  SessionOf(w, Len(TimeWindows!stream))
<1>. DEFINE q == Len(TimeWindows!stream)
<1>1. q \in n..Len(TimeWindows!stream) BY DEF TimedElements, Numbered
<1>2. ASSUME NEW j \in Of(w.key, q), j > n PROVE w.end < Ts(j)
  <2>1. j \in Input /\ At(j).key = w.key BY <1>2 DEF Of, Places, Input, At
  <2>. QED BY <1>2, <2>1, SessionPassed
<1>. HIDE DEF q
<1>3. SessionOf(w, q) BY <1>1, <1>2, SessionKept
<1>. QED BY <1>3 DEF q

Size == TimeWindows!program.size
Step == TimeWindows!program.step

(* The starts of the windows that an element is in. *)
LEMMA StartsAround ==
  ASSUME NEW t \in Int, Size \in Nat \ {0}, NEW s
  PROVE  s \in TimeWindows!Starts(t, Size, Step)
           <=> s \in Int /\ s =< t /\ t < s + Size /\ s % Step = 0
<1>1. Size \in Int OBVIOUS
<1>. HIDE DEF Size, Step
<1>. QED BY <1>1 DEF TimeWindows!Starts

(* What the definition says, without the record. *)
LEMMA SlideParts ==
  ASSUME TimedElements, Size \in Nat \ {0}, NEW n \in 0..Len(TimeWindows!stream), NEW w,
         SlideOf(w, n)
  PROVE  /\ w.start \in Int /\ w.start % Step = 0 /\ w.end = w.start + Size
         /\ w.members = {i \in Of(w.key, n) : w.start =< Ts(i) /\ Ts(i) < w.end}
         /\ \E i \in w.members : Ts(i) \in Int
<1>1. n \in Nat /\ 1..n \subseteq Input BY DEF TimedElements, Numbered, Input
<1>2. PICK i \in 1..n : w.key = At(i).key /\ w.start \in TimeWindows!Starts(Ts(i), Size, Step)
  BY DEF SlideOf, Size, Step
<1>3. i \in Of(w.key, n) /\ Ts(i) \in Int BY <1>1, <1>2 DEF Of, Places, At, TimedElements
<1>4. w.start \in Int /\ w.start =< Ts(i) /\ Ts(i) < w.start + Size /\ w.start % Step = 0
  <2>. DEFINE t == Ts(i)
              s == w.start
  <2>1. t \in Int /\ s \in TimeWindows!Starts(t, Size, Step) BY <1>2, <1>3
  <2>. HIDE DEF t, s
  <2>2. s \in Int /\ s =< t /\ t < s + Size /\ s % Step = 0 BY <2>1, StartsAround
  <2>. QED BY <2>2 DEF t, s
<1>5. /\ w.end = w.start + Size
      /\ w.members = {l \in Of(w.key, n) : w.start =< Ts(l) /\ Ts(l) < w.start + Size}
  BY DEF SlideOf, Size
<1>6. i \in w.members BY <1>3, <1>4, <1>5
<1>. QED BY <1>3, <1>4, <1>5, <1>6

(* And these facts make a window. *)
LEMMA SlideFrom ==
  ASSUME TimedElements, Size \in Nat \ {0}, NEW n \in 0..Len(TimeWindows!stream), NEW w,
         w = [key |-> w.key, start |-> w.start, end |-> w.end, members |-> w.members],
         w.start \in Int, w.start % Step = 0, w.end = w.start + Size,
         w.members = {i \in Of(w.key, n) : w.start =< Ts(i) /\ Ts(i) < w.end},
         w.members # {}
  PROVE  SlideOf(w, n)
<1>1. n \in Nat /\ 1..n \subseteq Input BY DEF TimedElements, Numbered, Input
<1>2. PICK i \in w.members : TRUE OBVIOUS
<1>3. i \in 1..n /\ w.key = At(i).key /\ Ts(i) \in Int /\ w.start =< Ts(i) /\ Ts(i) < w.start + Size
  BY <1>1, <1>2 DEF Of, Places, At, TimedElements
<1>4. w.start \in TimeWindows!Starts(Ts(i), Size, Step)
  <2>. DEFINE t == Ts(i)
              s == w.start
  <2>1. t \in Int /\ s \in Int /\ s =< t /\ t < s + Size /\ s % Step = 0 BY <1>3
  <2>. HIDE DEF t, s
  <2>2. s \in TimeWindows!Starts(t, Size, Step) BY <2>1, StartsAround
  <2>. QED BY <2>2 DEF t, s
<1>. QED BY <1>3, <1>4 DEF SlideOf, Size, Step

(* A window of the first n elements is one of the first q if none between  *)
(* is in it.                                                               *)
LEMMA SlideKept ==
  ASSUME TimedElements, Size \in Nat \ {0}, NEW n \in 0..Len(TimeWindows!stream),
         NEW q \in n..Len(TimeWindows!stream), NEW w, SlideOf(w, n),
         \A j \in Of(w.key, q) : j > n => Ts(j) < w.start \/ w.end =< Ts(j)
  PROVE  SlideOf(w, q)
<1>1. n \in Nat /\ q \in Nat /\ n =< q /\ q \in 0..Len(TimeWindows!stream) /\ 1..q \subseteq Input
  BY DEF TimedElements, Numbered, Input
<1>2. Of(w.key, n) \subseteq Of(w.key, q) BY <1>1 DEF Of, Places
<1>3. \A i \in Of(w.key, q) : i > n \/ i \in Of(w.key, n) BY <1>1 DEF Of, Places
<1>4. /\ w.start \in Int /\ w.start % Step = 0 /\ w.end = w.start + Size
      /\ w.members = {i \in Of(w.key, n) : w.start =< Ts(i) /\ Ts(i) < w.end}
      /\ w.members # {}
  BY SlideParts
<1>5. w = [key |-> w.key, start |-> w.start, end |-> w.end, members |-> w.members]
  BY DEF SlideOf
<1>6. \A j \in Of(w.key, q) : Ts(j) \in Int
  BY <1>1 DEF Of, Places, TimedElements
<1>7. \A j \in Of(w.key, q) : w.start =< Ts(j) /\ Ts(j) < w.end => j \in Of(w.key, n)
  <2>. SUFFICES ASSUME NEW j \in Of(w.key, q), w.start =< Ts(j), Ts(j) < w.end, j \notin Of(w.key, n)
                PROVE  FALSE
    OBVIOUS
  <2>1. Ts(j) < w.start \/ w.end =< Ts(j) BY <1>3
  <2>2. w.start \in Int /\ w.end \in Int /\ Ts(j) \in Int BY <1>4, <1>6
  <2>. QED BY <2>1, <2>2
<1>8. w.members = {i \in Of(w.key, q) : w.start =< Ts(i) /\ Ts(i) < w.end}
  BY <1>2, <1>4, <1>7
<1>. QED BY <1>1, <1>4, <1>5, <1>8, SlideFrom

(* And it was one before elements were read that are not in it. *)
LEMMA SlideBefore ==
  ASSUME TimedElements, Size \in Nat \ {0}, NEW n \in 0..Len(TimeWindows!stream),
         NEW q \in n..Len(TimeWindows!stream), NEW w, SlideOf(w, q), w.members \subseteq 1..n
  PROVE  SlideOf(w, n)
<1>1. n \in Nat /\ q \in Nat /\ n =< q /\ q \in 0..Len(TimeWindows!stream)
  BY DEF TimedElements, Numbered
<1>2. /\ w.start \in Int /\ w.start % Step = 0 /\ w.end = w.start + Size
      /\ w.members = {i \in Of(w.key, q) : w.start =< Ts(i) /\ Ts(i) < w.end}
      /\ w.members # {}
  BY <1>1, SlideParts
<1>3. w = [key |-> w.key, start |-> w.start, end |-> w.end, members |-> w.members]
  BY DEF SlideOf
<1>4. w.members = {i \in Of(w.key, n) : w.start =< Ts(i) /\ Ts(i) < w.end}
  <2>1. Of(w.key, n) \subseteq Of(w.key, q) BY <1>1 DEF Of, Places
  <2>2. \A i \in w.members : i \in Of(w.key, n) BY <1>2 DEF Of, Places
  <2>. QED BY <1>2, <2>1, <2>2
<1>. QED BY <1>2, <1>3, <1>4, SlideFrom

(* Two windows of a key with one start are one. *)
LEMMA SlideUnique ==
  ASSUME NEW n, NEW v, NEW w, SlideOf(v, n), SlideOf(w, n), v.key = w.key, v.start = w.start
  PROVE  v = w
BY DEF SlideOf

(* When the watermark has passed a window, it is one of the whole input.   *)
LEMMA SlideWhole ==
  ASSUME TimedElements, Size \in Nat \ {0}, NEW n \in 0..Len(TimeWindows!stream), NEW w,
         SlideOf(w, n), NEW m, m \in Int, MarkOf(m, n), w.end =< m
  PROVE  SlideOf(w, Len(TimeWindows!stream))
<1>. DEFINE q == Len(TimeWindows!stream)
<1>1. q \in n..Len(TimeWindows!stream) BY DEF TimedElements, Numbered
<1>2. w.start \in Int /\ w.end = w.start + Size BY SlideParts
<1>3. ASSUME NEW j \in Of(w.key, q), j > n PROVE w.end =< Ts(j)
  <2>1. j \in Input /\ Ts(j) \in Int BY <1>3 DEF Of, Places, Input, TimedElements
  <2>2. m =< Ts(j) BY <1>3, <2>1, UnreadInTime
  <2>3. w.end \in Int BY <1>2
  <2>. QED BY <2>1, <2>2, <2>3
<1>. HIDE DEF q
<1>4. SlideOf(w, q) BY <1>1, <1>3, SlideKept
<1>. QED BY <1>4 DEF q

(* The least and the greatest of a set that has them. *)
LEMMA LeastIs ==
  ASSUME NEW S, NEW m \in S, \A x \in S : x \in Int /\ m =< x
  PROVE  TimeWindows!Min(S) = m
<1>1. TimeWindows!Min(S) \in S /\ \A y \in S : TimeWindows!Min(S) =< y
  BY DEF TimeWindows!Min
<1>. QED BY <1>1

(* The largest of a set is the member that none exceeds. *)
LEMMA GreatestIs ==
  ASSUME NEW S, NEW m \in S, \A x \in S : x \in Int /\ x =< m
  PROVE  TimeWindows!Max(S) = m
<1>1. TimeWindows!Max(S) \in S /\ \A y \in S : TimeWindows!Max(S) >= y
  BY DEF TimeWindows!Max
<1>. QED BY <1>1

(* A window of the whole input is an expected one. *)
LEMMA SlideExpected ==
  ASSUME TimedElements, Sliding, Size \in Nat \ {0}, NEW w,
         SlideOf(w, Len(TimeWindows!stream))
  PROVE  w \in TimeWindows!ExpectedWindows
<1>. DEFINE q == Len(TimeWindows!stream)
            k == w.key
            s == w.start
<1>1. DOMAIN TimeWindows!stream = 1..q BY DEF TimedElements, Numbered
<1>2. TimeWindows!Elements(k) = Of(k, q) BY <1>1 DEF TimeWindows!Elements, Of, Places
<1>3. PICK i \in 1..q : k = At(i).key /\ s \in TimeWindows!Starts(Ts(i), Size, Step)
  BY DEF SlideOf, Size, Step
<1>4. k \in TimeWindows!Keys /\ i \in TimeWindows!Elements(k)
  BY <1>1, <1>2, <1>3 DEF TimeWindows!Keys, At, Of, Places
<1>. DEFINE window(y, x) ==
              [key |-> y, start |-> x, end |-> x + TimeWindows!program.size,
               members |-> {l \in TimeWindows!Elements(y) :
                              /\ x =< TimeWindows!stream[l].ts
                              /\ TimeWindows!stream[l].ts < x + TimeWindows!program.size}]
            starts(y) == UNION {TimeWindows!Starts(TimeWindows!stream[l].ts, TimeWindows!program.size,
                                                   TimeWindows!program.step) :
                                  l \in TimeWindows!Elements(y)}
<1>5. w = window(k, s) BY <1>2 DEF SlideOf, Ts, At
<1>6. s \in starts(k) BY <1>3, <1>4 DEF Ts, At, Size, Step
<1>7. TimeWindows!ExpectedWindows = UNION {{window(y, x) : x \in starts(y)} : y \in TimeWindows!Keys}
  BY DEF TimeWindows!ExpectedWindows, Sliding
<1>. HIDE DEF window, starts, k, s
<1>. QED BY <1>4, <1>5, <1>6, <1>7

(* The least and the largest of two. *)
LEMMA OfTwo ==
  ASSUME NEW x \in Int, NEW y \in Int, x =< y
  PROVE  /\ TimeWindows!Min({x, y}) = x /\ TimeWindows!Max({x, y}) = y
         /\ TimeWindows!Min({y, x}) = x /\ TimeWindows!Max({y, x}) = y
<1>. DEFINE S == {x, y}
<1>1. x \in S /\ y \in S /\ \A z \in S : z \in Int /\ x =< z /\ z =< y OBVIOUS
<1>2. S = {y, x} OBVIOUS
<1>. HIDE DEF S
<1>3. TimeWindows!Min(S) = x /\ TimeWindows!Max(S) = y BY <1>1, LeastIs, GreatestIs
<1>. QED BY <1>2, <1>3 DEF S

(* The elements of a session are those that are together with any of them. *)
LEMMA SessionTogether ==
  ASSUME TimedElements, Untied, NEW w, SessionOf(w, Len(TimeWindows!stream)),
         NEW i \in w.members
  PROVE  w.members = {j \in TimeWindows!Elements(w.key) : TimeWindows!Together(w.key, i, j)}
<1>. DEFINE q == Len(TimeWindows!stream)
            K == Of(w.key, q)
<1>1. q \in 0..Len(TimeWindows!stream) /\ DOMAIN TimeWindows!stream = 1..q
  BY DEF TimedElements, Numbered
<1>2. TimeWindows!Elements(w.key) = K BY <1>1 DEF TimeWindows!Elements, Of, Places
<1>3. /\ w.start \in Int /\ w.end \in Int /\ w.start < w.end
      /\ \A j \in K : Ts(j) \in Int /\ Ends(j) \in Int /\ Ts(j) < Ends(j)
  BY <1>1, SessionTyped
<1>4. /\ \A j \in w.members : j \in K /\ w.start =< Ts(j) /\ Ends(j) =< w.end
      /\ \A t \in w.start..(w.end - 1) : \E l \in w.members : Ts(l) =< t /\ t < Ends(l)
      /\ \A j \in K : j \notin w.members => Ends(j) < w.start \/ w.end < Ts(j)
  BY SessionParts
<1>. HIDE DEF q, K
<1>5. \A t : TimeWindows!Busy(w.key, t) <=> \E l \in K : Ts(l) =< t /\ t < Ends(l)
  BY <1>2 DEF TimeWindows!Busy, Ends, Ts, At
<1>6. \A j \in w.members : j \in K /\ Ts(j) \in w.start..(w.end - 1) BY <1>3, <1>4
<1>7. ASSUME NEW j \in w.members PROVE TimeWindows!Together(w.key, i, j)
  <2>1. Ts(i) \in w.start..(w.end - 1) /\ Ts(j) \in w.start..(w.end - 1) BY <1>6
  <2>2. \A t \in w.start..(w.end - 1) : TimeWindows!Busy(w.key, t) BY <1>4, <1>5
  <2>3. \A t \in TimeWindows!Min({Ts(i), Ts(j)})..(TimeWindows!Max({Ts(i), Ts(j)}) - 1) :
          t \in w.start..(w.end - 1)
    <3>. DEFINE a == Ts(i)
                b == Ts(j)
    <3>1. a \in Int /\ b \in Int /\ w.start =< a /\ w.start =< b /\ a < w.end /\ b < w.end
      BY <1>3, <2>1
    <3>. HIDE DEF a, b
    <3>2. \/ TimeWindows!Min({a, b}) = a /\ TimeWindows!Max({a, b}) = b
          \/ TimeWindows!Min({a, b}) = b /\ TimeWindows!Max({a, b}) = a
      <4>1. CASE a =< b BY <3>1, <4>1, OfTwo
      <4>2. CASE b =< a BY <3>1, <4>2, OfTwo
      <4>. QED BY <3>1, <4>1, <4>2
    <3>3. \A t \in TimeWindows!Min({a, b})..(TimeWindows!Max({a, b}) - 1) :
            t \in w.start..(w.end - 1)
      BY <1>3, <3>1, <3>2
    <3>. QED BY <3>3 DEF a, b
  <2>. QED BY <2>2, <2>3 DEF TimeWindows!Together, Ts, At
<1>8. ASSUME NEW j \in K, j \notin w.members, TimeWindows!Together(w.key, i, j) PROVE FALSE
  <2>1. Ts(j) \in Int /\ Ends(j) \in Int /\ Ts(j) < Ends(j) BY <1>3, <1>8
  <2>2. \A t \in TimeWindows!Min({Ts(i), Ts(j)})..(TimeWindows!Max({Ts(i), Ts(j)}) - 1) :
          \E l \in K : Ts(l) =< t /\ t < Ends(l)
    BY <1>5, <1>8 DEF TimeWindows!Together, Ts, At
  <2>3. Ts(i) \in Int /\ w.start =< Ts(i) /\ Ts(i) < w.end BY <1>3, <1>6
  <2>4. CASE w.end < Ts(j)
    <3>1. TimeWindows!Min({Ts(i), Ts(j)}) = Ts(i) /\ TimeWindows!Max({Ts(i), Ts(j)}) = Ts(j)
      <4>. DEFINE a == Ts(i)
                  b == Ts(j)
      <4>1. a \in Int /\ b \in Int /\ a =< b BY <1>3, <2>1, <2>3, <2>4
      <4>. HIDE DEF a, b
      <4>2. TimeWindows!Min({a, b}) = a /\ TimeWindows!Max({a, b}) = b BY <4>1, OfTwo
      <4>. QED BY <4>2 DEF a, b
    <3>2. w.end \in Ts(i)..(Ts(j) - 1) BY <1>3, <2>1, <2>3, <2>4
    <3>3. PICK l \in K : Ts(l) =< w.end /\ w.end < Ends(l) BY <2>2, <3>1, <3>2
    <3>4. l \notin w.members BY <1>3, <1>4, <3>3
    <3>5. Ends(l) < w.start \/ w.end < Ts(l) BY <1>4, <3>4
    <3>. QED BY <1>3, <3>3, <3>5
  <2>5. CASE Ends(j) < w.start
    <3>1. TimeWindows!Min({Ts(i), Ts(j)}) = Ts(j) /\ TimeWindows!Max({Ts(i), Ts(j)}) = Ts(i)
      <4>. DEFINE a == Ts(j)
                  b == Ts(i)
      <4>1. a \in Int /\ b \in Int /\ a =< b BY <1>3, <2>1, <2>3, <2>5
      <4>. HIDE DEF a, b
      <4>2. TimeWindows!Min({b, a}) = a /\ TimeWindows!Max({b, a}) = b BY <4>1, OfTwo
      <4>. QED BY <4>2 DEF a, b
    <3>. DEFINE t == w.start - 1
    <3>2. t \in Ts(j)..(Ts(i) - 1) BY <1>3, <2>1, <2>3, <2>5
    <3>3. PICK l \in K : Ts(l) =< t /\ t < Ends(l)
      <4>. HIDE DEF t
      <4>. QED BY <2>2, <3>1, <3>2
    <3>4. Ts(l) \in Int /\ Ends(l) \in Int /\ Ts(l) < w.start /\ w.start =< Ends(l)
      BY <1>3, <3>3
    <3>5. l \notin w.members BY <1>3, <1>4, <3>4
    <3>6. Ends(l) < w.start \/ w.end < Ts(l) BY <1>4, <3>5
    <3>. QED BY <1>3, <3>4, <3>6
  <2>. QED BY <1>4, <1>8, <2>4, <2>5
<1>. QED BY <1>2, <1>4, <1>7, <1>8

(* The session that the promise has for an element. *)
SessionWith(y, x) ==
  LET xs == {j \in TimeWindows!Elements(y) : TimeWindows!Together(y, x, j)} IN
  [key |-> y, start |-> TimeWindows!Min({TimeWindows!stream[j].ts : j \in xs}),
   end |-> TimeWindows!Max({TimeWindows!stream[j].ts + TimeWindows!Gap(j) : j \in xs}),
   members |-> xs]

(* A session of the whole input is that of each of its members. *)
LEMMA SessionIs ==
  ASSUME TimedElements, Untied, NEW w, SessionOf(w, Len(TimeWindows!stream)),
         NEW i \in w.members
  PROVE  /\ w = SessionWith(w.key, i)
         /\ i \in TimeWindows!Elements(w.key) /\ w.key \in TimeWindows!Keys
<1>. DEFINE q == Len(TimeWindows!stream)
            k == w.key
            ms == w.members
<1>1. q \in 0..Len(TimeWindows!stream) /\ DOMAIN TimeWindows!stream = 1..q
  BY DEF TimedElements, Numbered
<1>2. TimeWindows!Elements(k) = Of(k, q) BY <1>1 DEF TimeWindows!Elements, Of, Places
<1>3. /\ w.start \in Int /\ w.end \in Int
      /\ \A j \in Of(k, q) : Ts(j) \in Int /\ Ends(j) \in Int /\ Ts(j) < Ends(j)
  BY <1>1, SessionTyped
<1>4. /\ \A j \in ms : j \in Of(k, q) /\ w.start =< Ts(j) /\ Ends(j) =< w.end
      /\ \E j \in ms : Ends(j) = w.end
      /\ \E j \in ms : Ts(j) = w.start
  BY SessionParts
<1>5. ms = {j \in TimeWindows!Elements(k) : TimeWindows!Together(k, i, j)} BY SessionTogether
<1>6. TimeWindows!Min({TimeWindows!stream[j].ts : j \in ms}) = w.start
  <2>. DEFINE S == {Ts(j) : j \in ms}
              a == w.start
  <2>1. a \in S /\ \A x \in S : x \in Int /\ a =< x BY <1>3, <1>4
  <2>2. S = {TimeWindows!stream[j].ts : j \in ms} BY DEF Ts, At
  <2>. HIDE DEF S, a
  <2>3. TimeWindows!Min(S) = a BY <2>1, LeastIs
  <2>. QED BY <2>2, <2>3 DEF a
<1>7. TimeWindows!Max({TimeWindows!stream[j].ts + TimeWindows!Gap(j) : j \in ms}) = w.end
  <2>. DEFINE S == {Ends(j) : j \in ms}
              b == w.end
  <2>1. b \in S /\ \A x \in S : x \in Int /\ x =< b BY <1>3, <1>4
  <2>2. S = {TimeWindows!stream[j].ts + TimeWindows!Gap(j) : j \in ms} BY DEF Ends, Ts, At
  <2>. HIDE DEF S, b
  <2>3. TimeWindows!Max(S) = b BY <2>1, GreatestIs
  <2>. QED BY <2>2, <2>3 DEF b
<1>8. i \in TimeWindows!Elements(k) /\ k \in TimeWindows!Keys
  BY <1>1, <1>2, <1>4 DEF TimeWindows!Keys, Of, Places
<1>9. SessionWith(k, i) = [key |-> k, start |-> w.start, end |-> w.end, members |-> ms]
  BY <1>5, <1>6, <1>7 DEF SessionWith
<1>10. w = SessionWith(k, i) BY <1>9 DEF SessionOf
<1>. QED BY <1>8, <1>10

(* The expected sessions are those. *)
LEMMA ExpectedSessions ==
  ASSUME ~Sliding
  PROVE  TimeWindows!ExpectedWindows
           = UNION {{SessionWith(y, x) : x \in TimeWindows!Elements(y)} : y \in TimeWindows!Keys}
BY DEF TimeWindows!ExpectedWindows, Sliding, SessionWith

(* A session of the whole input is an expected window. *)
LEMMA SessionExpected ==
  ASSUME TimedElements, Untied, ~Sliding, NEW w, SessionOf(w, Len(TimeWindows!stream))
  PROVE  w \in TimeWindows!ExpectedWindows
<1>1. PICK i \in w.members : Ts(i) = w.start BY SessionParts
<1>2. /\ w = SessionWith(w.key, i)
      /\ i \in TimeWindows!Elements(w.key) /\ w.key \in TimeWindows!Keys
  BY SessionIs
<1>. QED BY <1>2, ExpectedSessions

(* Windows of one key that start together, or that meet, are merged into   *)
(* the one from the first start to the last end.                           *)
LEMMA MergedIs ==
  ASSUME NEW ws, NEW k, NEW s \in {w.start : w \in ws}, NEW e \in {w.end : w \in ws},
         \A w \in ws : /\ w.key = k /\ w.start \in Int /\ s =< w.start
                       /\ w.end \in Int /\ w.end =< e
  PROVE  TimeWindows!Merge(ws)
           = [key |-> k, start |-> s, end |-> e, members |-> UNION {w.members : w \in ws}]
<1>1. TimeWindows!Min({w.start : w \in ws}) = s
  <2>. DEFINE S == {w.start : w \in ws}
  <2>1. s \in S /\ \A x \in S : x \in Int /\ s =< x OBVIOUS
  <2>. HIDE DEF S
  <2>2. TimeWindows!Min(S) = s BY <2>1, LeastIs
  <2>. QED BY <2>2 DEF S
<1>2. TimeWindows!Max({w.end : w \in ws}) = e
  <2>. DEFINE S == {w.end : w \in ws}
  <2>1. e \in S /\ \A x \in S : x \in Int /\ x =< e OBVIOUS
  <2>. HIDE DEF S
  <2>2. TimeWindows!Max(S) = e BY <2>1, GreatestIs
  <2>. QED BY <2>2 DEF S
<1>3. (CHOOSE w \in ws : TRUE).key = k
  <2>1. ws # {} OBVIOUS
  <2>2. (CHOOSE w \in ws : TRUE) \in ws BY <2>1
  <2>. QED BY <2>2
<1>. QED BY <1>1, <1>2, <1>3 DEF TimeWindows!Merge

(* What reading an element does to the windows: those it meets are merged  *)
(* with its own.                                                           *)
LEMMA ReadMerges ==
  ASSUME TimeWindows!Read
  PROVE  /\ pos < Len(TimeWindows!stream) /\ pos' = pos + 1
         /\ job' = job /\ mark' = mark /\ out' = out
         /\ latest' = TimeWindows!Max({latest, Ts(pos + 1)})
         /\ \A w : w \in windows' <=>
              \/ w \in windows /\ \A a \in TimeWindows!Assigned(pos + 1) : ~TimeWindows!Meet(a, w)
              \/ /\ ~ (w.end =< mark)
                 /\ \E a \in TimeWindows!Assigned(pos + 1) :
                      w = TimeWindows!Merge({a} \cup {v \in windows : TimeWindows!Meet(a, v)})
BY DEF TimeWindows!Read, TimeWindows!Late, Ts, At

(* The windows of an element. *)
LEMMA SlideAssigned ==
  ASSUME TimedElements, Sliding, Size \in Nat \ {0}, NEW p \in Input
  PROVE  \A a : a \in TimeWindows!Assigned(p) <=>
           \E s \in Int : /\ s =< Ts(p) /\ Ts(p) < s + Size /\ s % Step = 0
                          /\ a = [key |-> At(p).key, start |-> s, end |-> s + Size, members |-> {p}]
<1>. SUFFICES ASSUME NEW a
     PROVE  a \in TimeWindows!Assigned(p) <=>
              \E s \in Int : /\ s =< Ts(p) /\ Ts(p) < s + Size /\ s % Step = 0
                             /\ a = [key |-> At(p).key, start |-> s, end |-> s + Size,
                                     members |-> {p}]
  OBVIOUS
<1>1. Ts(p) \in Int BY DEF TimedElements
<1>2. TimeWindows!Assigned(p)
        = {[key |-> At(p).key, start |-> s, end |-> s + Size, members |-> {p}] :
             s \in TimeWindows!Starts(Ts(p), Size, Step)}
  BY DEF TimeWindows!Assigned, Sliding, Size, Step, Ts, At
<1>3. \A s : s \in TimeWindows!Starts(Ts(p), Size, Step)
               <=> s \in Int /\ s =< Ts(p) /\ Ts(p) < s + Size /\ s % Step = 0
  <2>. DEFINE t == Ts(p)
  <2>1. t \in Int BY <1>1
  <2>. HIDE DEF t
  <2>2. \A s : s \in TimeWindows!Starts(t, Size, Step)
                 <=> s \in Int /\ s =< t /\ t < s + Size /\ s % Step = 0
    BY <2>1, StartsAround
  <2>. QED BY <2>2 DEF t
<1>. QED BY <1>2, <1>3

(* After reading an element, the open windows are again those that hold    *)
(* all elements in them.                                                   *)
LEMMA SlideRead ==
  ASSUME TimedElements, Sliding, Size \in Nat \ {0}, pos \in 0..Len(TimeWindows!stream),
         mark \in Int, MarkOf(mark, pos), IsFiniteSet(windows),
         \A w : w \in windows <=> SlideOf(w, pos) /\ w.end > mark,
         TimeWindows!Read
  PROVE  /\ IsFiniteSet(windows')
         /\ \A w : w \in windows' <=> SlideOf(w, pos + 1) /\ w.end > mark
<1>. DEFINE p == pos + 1
            q == Len(TimeWindows!stream)
            k == At(p).key
            t == Ts(p)
            A == TimeWindows!Assigned(p)
            Own(s) == [key |-> k, start |-> s, end |-> s + Size,
                       members |-> {i \in Of(k, p) : s =< Ts(i) /\ Ts(i) < s + Size}]
            Around(s) == s \in Int /\ s =< t /\ t < s + Size /\ s % Step = 0
<1>1. /\ pos \in Nat /\ q \in Nat /\ pos < q /\ p \in Input /\ p > pos
      /\ p \in 0..q /\ p \in pos..q /\ pos \in 0..q
  BY ReadMerges DEF TimedElements, Numbered, Input
<1>2. t \in Int /\ mark =< t
  <2>1. t \in Int BY <1>1 DEF TimedElements
  <2>. QED BY <1>1, <2>1, UnreadInTime
<1>3. /\ \A n \in 0..q : \A y : \A i \in Of(y, n) : i \in 1..n /\ At(i).key = y /\ Ts(i) \in Int
      /\ p \in Of(k, p) /\ \A y : y # k => Of(y, p) = Of(y, pos)
      /\ \A i \in Of(k, p) : i = p \/ i \in Of(k, pos)
      /\ Of(k, pos) \subseteq Of(k, p)
  BY <1>1 DEF Of, Places, At, TimedElements, Input
<1>4. \A a : a \in A <=> \E s : Around(s)
                             /\ a = [key |-> k, start |-> s, end |-> s + Size, members |-> {p}]
  BY <1>1, SlideAssigned
<1>5. \A w : w \in windows' <=>
              \/ w \in windows /\ \A a \in A : ~TimeWindows!Meet(a, w)
              \/ /\ ~ (w.end =< mark)
                 /\ \E a \in A :
                      w = TimeWindows!Merge({a} \cup {v \in windows : TimeWindows!Meet(a, v)})
  BY ReadMerges
<1>6. \A a, v : TimeWindows!Meet(a, v) <=> a.key = v.key /\ a.start = v.start
  BY DEF TimeWindows!Meet, Sliding
<1>. HIDE DEF p, q, k, t, A
<1>7. ASSUME NEW s, Around(s)
      PROVE  /\ SlideOf(Own(s), p) /\ Own(s).end > mark /\ p \in Own(s).members
             /\ \A a \in A : a.start = s =>
                  Own(s) = TimeWindows!Merge({a} \cup {v \in windows : TimeWindows!Meet(a, v)})
  <2>. DEFINE o == Own(s)
  <2>1. p \in o.members BY <1>3, <1>7 DEF t
  <2>2. SlideOf(o, p)
    <3>1. /\ o = [key |-> o.key, start |-> o.start, end |-> o.end, members |-> o.members]
          /\ o.start \in Int /\ o.start % Step = 0 /\ o.end = o.start + Size
          /\ o.members = {i \in Of(o.key, p) : o.start =< Ts(i) /\ Ts(i) < o.end}
          /\ o.members # {}
      BY <1>7, <2>1
    <3>. HIDE DEF o
    <3>. QED BY <1>1, <3>1, SlideFrom DEF q
  <2>3. o.end > mark BY <1>2, <1>7
  <2>4. ASSUME NEW a \in A, a.start = s
        PROVE  o = TimeWindows!Merge({a} \cup {v \in windows : TimeWindows!Meet(a, v)})
    <3>. DEFINE met == {v \in windows : TimeWindows!Meet(a, v)}
                ws  == {a} \cup met
                e   == s + Size
    <3>1. a = [key |-> k, start |-> s, end |-> e, members |-> {p}] BY <1>4, <2>4
    <3>2. \A v : v \in met <=> v \in windows /\ v.key = k /\ v.start = s BY <1>6, <3>1
    <3>3. s \in Int /\ e \in Int BY <1>7
    <3>4. ASSUME NEW v \in met
          PROVE  v.key = k /\ v.start = s /\ v.end = e
                 /\ v.members = {i \in Of(k, pos) : s =< Ts(i) /\ Ts(i) < e}
      <4>1. v \in windows /\ v.key = k /\ v.start = s BY <3>2
      <4>2. SlideOf(v, pos) BY <4>1
      <4>3. v.end = v.start + Size
            /\ v.members = {i \in Of(v.key, pos) : v.start =< Ts(i) /\ Ts(i) < v.end}
        BY <1>1, <4>2, SlideParts DEF q
      <4>. QED BY <4>1, <4>3
    <3>5. ASSUME NEW w \in ws
          PROVE  /\ w.key = k /\ w.start \in Int /\ s =< w.start
                 /\ w.end \in Int /\ w.end =< e
      <4>1. CASE w = a
        <5>1. a.key = k /\ a.start = s /\ a.end = e BY <3>1
        <5>. HIDE DEF e, met
        <5>. QED BY <3>3, <4>1, <5>1
      <4>2. CASE w \in met
        <5>1. w.key = k /\ w.start = s /\ w.end = e BY <3>4, <4>2
        <5>. HIDE DEF e, met
        <5>. QED BY <3>3, <5>1
      <4>. QED BY <4>1, <4>2
    <3>6. s \in {w.start : w \in ws} /\ e \in {w.end : w \in ws} BY <3>1
    <3>7. UNION {w.members : w \in ws} = o.members
      <4>1. \A w \in ws : w.members \subseteq o.members
        <5>1. a.members \subseteq o.members BY <2>1, <3>1
        <5>2. \A v \in met : v.members \subseteq o.members BY <1>3, <3>4
        <5>. QED BY <5>1, <5>2
      <4>2. ASSUME NEW i \in o.members PROVE \E w \in ws : i \in w.members
        <5>1. CASE i = p BY <3>1, <5>1
        <5>2. CASE i # p
          <6>. DEFINE v == [key |-> k, start |-> s, end |-> e,
                            members |-> {l \in Of(k, pos) : s =< Ts(l) /\ Ts(l) < e}]
          <6>1. i \in v.members BY <1>3, <5>2
          <6>2. /\ v = [key |-> v.key, start |-> v.start, end |-> v.end, members |-> v.members]
                /\ v.start \in Int /\ v.start % Step = 0 /\ v.end = v.start + Size
                /\ v.members = {l \in Of(v.key, pos) : v.start =< Ts(l) /\ Ts(l) < v.end}
                /\ v.members # {} /\ v.key = k /\ v.start = s /\ v.end = o.end
            BY <1>7, <6>1
          <6>. HIDE DEF v, o, met
          <6>3. SlideOf(v, pos) BY <1>1, <6>2, SlideFrom DEF q
          <6>4. v \in met BY <2>3, <3>2, <6>2, <6>3
          <6>. QED BY <6>1, <6>4
        <5>. QED BY <5>1, <5>2
      <4>. HIDE DEF o, ws
      <4>. QED BY <4>1, <4>2
    <3>. HIDE DEF ws, e
    <3>8. TimeWindows!Merge(ws)
            = [key |-> k, start |-> s, end |-> e, members |-> UNION {w.members : w \in ws}]
      BY <3>5, <3>6, MergedIs
    <3>. QED BY <3>7, <3>8 DEF ws, e
  <2>. QED BY <2>1, <2>2, <2>3, <2>4
<1>8. ASSUME NEW w, w \in windows, \A a \in A : ~TimeWindows!Meet(a, w)
      PROVE  SlideOf(w, p) /\ w.end > mark
  <2>1. SlideOf(w, pos) /\ w.end > mark BY <1>8
  <2>2. w.start \in Int /\ w.start % Step = 0 /\ w.end = w.start + Size
    BY <1>1, <2>1, SlideParts DEF q
  <2>3. ASSUME NEW j \in Of(w.key, p), j > pos PROVE Ts(j) < w.start \/ w.end =< Ts(j)
    <3>1. j = p /\ w.key = k
      <4>1. j \in 1..p /\ At(j).key = w.key BY <1>1, <1>3
      <4>. QED BY <1>1, <2>3, <4>1 DEF p, k
    <3>2. SUFFICES ASSUME w.start =< t, t < w.end PROVE FALSE BY <1>2, <2>2, <3>1 DEF t
    <3>3. Around(w.start) BY <2>2, <3>2
    <3>. DEFINE s == w.start
                a == [key |-> k, start |-> s, end |-> s + Size, members |-> {p}]
    <3>4. a \in A BY <1>4, <3>3
    <3>5. TimeWindows!Meet(a, w) BY <1>6, <3>1
    <3>. HIDE DEF a
    <3>. QED BY <1>8, <3>4, <3>5
  <2>4. SlideOf(w, p) BY <1>1, <2>1, <2>3, SlideKept DEF q
  <2>. QED BY <2>1, <2>4
<1>9. ASSUME NEW w, SlideOf(w, p), w.end > mark
      PROVE  w \in windows'
  <2>1. /\ w.start \in Int /\ w.start % Step = 0 /\ w.end = w.start + Size
        /\ w.members = {i \in Of(w.key, p) : w.start =< Ts(i) /\ Ts(i) < w.end}
    BY <1>1, <1>9, SlideParts DEF q
  <2>2. CASE p \in w.members
    <3>. DEFINE s == w.start
                a == [key |-> k, start |-> s, end |-> s + Size, members |-> {p}]
    <3>1. w.key = k /\ Around(s)
      <4>1. p \in Of(w.key, p) /\ s =< t /\ t < s + Size BY <2>1, <2>2 DEF t
      <4>2. At(p).key = w.key BY <1>1, <1>3, <4>1
      <4>. QED BY <2>1, <4>1, <4>2 DEF k
    <3>2. a \in A /\ a.start = s BY <1>4, <3>1
    <3>3. /\ SlideOf(Own(s), p)
          /\ Own(s) = TimeWindows!Merge({a} \cup {v \in windows : TimeWindows!Meet(a, v)})
      <4>. HIDE DEF a
      <4>. QED BY <1>7, <3>1, <3>2
    <3>4. w = Own(s)
      <4>. DEFINE o == Own(s)
      <4>1. SlideOf(o, p) /\ o.key = w.key /\ o.start = w.start BY <3>1, <3>3
      <4>. HIDE DEF o
      <4>2. w = o BY <1>9, <4>1, SlideUnique
      <4>. QED BY <4>2 DEF o
    <3>5. ~ (w.end =< mark) BY <1>9, <2>1
    <3>. HIDE DEF a, Own
    <3>. QED BY <1>5, <3>2, <3>3, <3>4, <3>5
  <2>3. CASE p \notin w.members
    <3>1. w.members \subseteq 1..pos BY <1>1, <1>3, <2>1, <2>3 DEF p
    <3>2. SlideOf(w, pos) BY <1>1, <1>9, <3>1, SlideBefore DEF q
    <3>3. ASSUME NEW a \in A, TimeWindows!Meet(a, w) PROVE FALSE
      <4>1. PICK s : Around(s) /\ a = [key |-> k, start |-> s, end |-> s + Size, members |-> {p}]
        BY <1>4
      <4>2. w.key = k /\ w.start = s BY <1>6, <3>3, <4>1
      <4>3. p \in w.members BY <1>3, <2>1, <4>1, <4>2 DEF t
      <4>. QED BY <2>3, <4>3
    <3>. QED BY <1>5, <1>9, <3>2, <3>3
  <2>. QED BY <2>2, <2>3
<1>10. ASSUME NEW w, w \in windows', ~ (w \in windows /\ \A a \in A : ~TimeWindows!Meet(a, w))
       PROVE  \E s : Around(s) /\ w = Own(s)
  <2>1. PICK a \in A : w = TimeWindows!Merge({a} \cup {v \in windows : TimeWindows!Meet(a, v)})
    BY <1>5, <1>10
  <2>2. PICK s : Around(s) /\ a = [key |-> k, start |-> s, end |-> s + Size, members |-> {p}]
    BY <1>4
  <2>3. a.start = s BY <2>2
  <2>4. w = Own(s) BY <1>7, <2>1, <2>2, <2>3
  <2>. QED BY <2>2, <2>4
<1>11. ASSUME NEW w, w \in windows' PROVE SlideOf(w, p) /\ w.end > mark
  <2>1. CASE w \in windows /\ \A a \in A : ~TimeWindows!Meet(a, w) BY <1>8, <2>1
  <2>2. CASE ~ (w \in windows /\ \A a \in A : ~TimeWindows!Meet(a, w))
    <3>1. PICK s : Around(s) /\ w = Own(s) BY <1>10, <1>11, <2>2
    <3>2. SlideOf(Own(s), p) /\ Own(s).end > mark BY <1>7, <3>1
    <3>. HIDE DEF Own
    <3>. QED BY <3>1, <3>2
  <2>. QED BY <2>1, <2>2
<1>12. IsFiniteSet(windows')
  <2>. DEFINE I == (t - Size)..t
              f == [s \in I |-> Own(s)]
              T == {Own(s) : s \in I}
  <2>1. IsFiniteSet(I) BY <1>2, FS_Interval
  <2>2. f \in Surjection(I, T) BY DEF Surjection
  <2>3. windows' \subseteq windows \cup T
    <3>. SUFFICES ASSUME NEW w \in windows', w \notin windows PROVE w \in T OBVIOUS
    <3>1. PICK s : Around(s) /\ w = Own(s) BY <1>10
    <3>2. s \in I BY <1>2, <3>1
    <3>. HIDE DEF Own, I
    <3>. QED BY <3>1, <3>2
  <2>. HIDE DEF I, f, T
  <2>4. IsFiniteSet(T) BY <2>1, <2>2, FS_Surjection
  <2>5. IsFiniteSet(windows \cup T) BY <2>4, FS_Union
  <2>. QED BY <2>3, <2>5, FS_Subset
<1>. QED BY <1>9, <1>11, <1>12 DEF p

(* A finite set of integers has a least and a greatest element. *)
LEMMA Extremes ==
  ASSUME NEW S, IsFiniteSet(S), S # {}, \A x \in S : x \in Int
  PROVE  /\ \E x \in S : \A y \in S : x >= y
         /\ \E x \in S : \A y \in S : x =< y
<1>1. \E x \in S : \A y \in S : x >= y BY Greatest
<1>. DEFINE T == {-x : x \in S}
            f == [x \in S |-> -x]
<1>2. f \in Surjection(S, T) BY DEF Surjection
<1>3. T # {} /\ \A y \in T : y \in Int OBVIOUS
<1>. HIDE DEF f, T
<1>4. IsFiniteSet(T) BY <1>2, FS_Surjection
<1>5. PICK z \in T : \A y \in T : z >= y BY <1>3, <1>4, Greatest
<1>6. PICK x \in S : z = -x BY <1>5 DEF T
<1>7. ASSUME NEW y \in S PROVE x =< y
  <2>1. -y \in T BY DEF T
  <2>. QED BY <1>5, <1>6, <2>1
<1>. QED BY <1>1, <1>7

(* The session of an element alone. *)
LEMMA SessionAssigned ==
  ASSUME ~Sliding, NEW p
  PROVE  TimeWindows!Assigned(p)
           = {[key |-> At(p).key, start |-> Ts(p), end |-> Ends(p), members |-> {p}]}
<1>1. TimeWindows!Assigned(p)
        = {[key |-> At(p).key, start |-> s, end |-> s + TimeWindows!Gap(p), members |-> {p}] :
             s \in {Ts(p)}}
  BY DEF TimeWindows!Assigned, Sliding, At, Ts
<1>. QED BY <1>1 DEF Ends

(* After reading an element, the open windows are again the sessions of    *)
(* what has been read: the one it is in is what it has joined.             *)
LEMMA SessionRead ==
  ASSUME TimedElements, ~Sliding, Untied, pos \in 0..Len(TimeWindows!stream),
         mark \in Int, MarkOf(mark, pos), IsFiniteSet(windows),
         \A w : w \in windows <=> SessionOf(w, pos) /\ w.end > mark,
         \A i \in 1..pos : \E w : SessionOf(w, pos) /\ i \in w.members,
         TimeWindows!Read
  PROVE  /\ IsFiniteSet(windows')
         /\ \A w : w \in windows' <=> SessionOf(w, pos + 1) /\ w.end > mark
         /\ \A i \in 1..(pos + 1) : \E w : SessionOf(w, pos + 1) /\ i \in w.members
<1>. DEFINE p == pos + 1
            q == Len(TimeWindows!stream)
            k == At(p).key
            b == Ts(p)
            c == Ends(p)
            a == [key |-> k, start |-> b, end |-> c, members |-> {p}]
            met == {v \in windows : TimeWindows!Meet(a, v)}
            ws  == {a} \cup met
            m == TimeWindows!Merge(ws)
<1>1. /\ pos \in Nat /\ q \in Nat /\ pos < q /\ p \in Input /\ p > pos
      /\ p \in 0..q /\ p \in pos..q /\ pos \in 0..q /\ p \in Nat
  BY ReadMerges DEF TimedElements, Numbered, Input
<1>2. b \in Int /\ c \in Int /\ b < c /\ mark =< b
  <2>1. b \in Int /\ c \in Int /\ b < c BY <1>1 DEF TimedElements, Untied
  <2>. QED BY <1>1, <2>1, UnreadInTime
<1>3. /\ \A n \in 0..q : \A y : \A i \in Of(y, n) : /\ i \in 1..n /\ At(i).key = y
                                                /\ Ts(i) \in Int /\ Ends(i) \in Int
                                                /\ Ts(i) < Ends(i)
      /\ p \in Of(k, p)
      /\ \A y : \A i \in Of(y, p) : (i = p /\ y = k) \/ i \in Of(y, pos)
      /\ \A y : Of(y, pos) \subseteq Of(y, p)
  BY <1>1 DEF Of, Places, At, TimedElements, Input, Untied
<1>4. \A w : w \in windows' <=> \/ w \in windows /\ ~TimeWindows!Meet(a, w)
                                \/ ~ (w.end =< mark) /\ w = m
  <2>1. TimeWindows!Assigned(p) = {a} BY SessionAssigned
  <2>. HIDE DEF a
  <2>. QED BY <2>1, ReadMerges
<1>5. \A v : TimeWindows!Meet(a, v) <=> v.key = k /\ b =< v.end /\ c >= v.start
  BY DEF TimeWindows!Meet, Sliding
<1>. HIDE DEF p, q, k, b, c
<1>6. \A v : v \in met <=> v \in windows /\ v.key = k /\ b =< v.end /\ v.start =< c
  <2>. SUFFICES ASSUME NEW v
       PROVE  v \in met <=> v \in windows /\ v.key = k /\ b =< v.end /\ v.start =< c
    OBVIOUS
  <2>1. v \in windows => v.start \in Int BY <1>1, SessionTyped DEF q
  <2>. QED BY <1>2, <1>5, <2>1
<1>7. ASSUME NEW v, SessionOf(v, pos)
      PROVE  /\ v.start \in Int /\ v.end \in Int /\ v.start < v.end
             /\ v \notin met => /\ v.key = k => v.end < b \/ c < v.start
                                /\ SessionOf(v, p)
  <2>1. v.start \in Int /\ v.end \in Int /\ v.start < v.end BY <1>1, <1>7, SessionTyped DEF q
  <2>2. ASSUME v \notin met, v.key = k PROVE v.end < b \/ c < v.start
    <3>1. CASE v \in windows BY <1>2, <1>6, <2>1, <2>2, <3>1
    <3>2. CASE v \notin windows
      <4>1. v.end =< mark BY <1>7, <2>1, <3>2
      <4>2. At(p).key = v.key BY <2>2 DEF k
      <4>3. v.end < Ts(p) BY <1>1, <1>7, <4>1, <4>2, SessionPassed
      <4>. QED BY <4>3 DEF b
    <3>. QED BY <3>1, <3>2
  <2>3. ASSUME v \notin met PROVE SessionOf(v, p)
    <3>1. ASSUME NEW j \in Of(v.key, p), j > pos PROVE Ends(j) < v.start \/ v.end < Ts(j)
      <4>1. j = p /\ v.key = k
        <5>1. j \notin Of(v.key, pos) BY <1>1, <1>3, <3>1
        <5>. QED BY <1>3, <5>1
      <4>. QED BY <2>2, <2>3, <4>1 DEF b, c
    <3>. QED BY <1>1, <1>7, <3>1, SessionKept DEF q
  <2>. QED BY <2>1, <2>2, <2>3
<1>8. ASSUME NEW u \in ws
      PROVE  /\ u.key = k /\ u.start \in Int /\ u.end \in Int /\ u.start < u.end
             /\ u.start =< c /\ b =< u.end
             /\ \A i \in u.members : i \in Of(k, p) /\ u.start =< Ts(i) /\ Ends(i) =< u.end
             /\ \E i \in u.members : Ts(i) = u.start
             /\ \E i \in u.members : Ends(i) = u.end
             /\ \A t \in u.start..(u.end - 1) : \E i \in u.members : Ts(i) =< t /\ t < Ends(i)
  <2>1. CASE u = a
    <3>1. /\ a.key = k /\ a.start = b /\ a.end = c /\ a.members = {p}
          /\ b = Ts(p) /\ c = Ends(p) /\ p \in Of(k, p)
      BY <1>3 DEF b, c
    <3>. HIDE DEF a
    <3>. QED BY <1>2, <2>1, <3>1
  <2>2. CASE u \in met
    <3>1. /\ u \in windows /\ u.key = k /\ b =< u.end /\ u.start =< c
      BY <1>6, <2>2
    <3>2. SessionOf(u, pos) BY <3>1
    <3>3. u.start \in Int /\ u.end \in Int /\ u.start < u.end BY <1>7, <3>2
    <3>4. /\ \A i \in u.members : i \in Of(u.key, pos) /\ u.start =< Ts(i) /\ Ends(i) =< u.end
          /\ \E i \in u.members : Ts(i) = u.start
          /\ \E i \in u.members : Ends(i) = u.end
          /\ \A t \in u.start..(u.end - 1) : \E i \in u.members : Ts(i) =< t /\ t < Ends(i)
      BY <3>2, SessionParts
    <3>5. Of(k, pos) \subseteq Of(k, p) BY <1>3
    <3>. QED BY <3>1, <3>3, <3>4, <3>5
  <2>. QED BY <2>1, <2>2
<1>9. a \in ws /\ a.members = {p} /\ a.start = b /\ a.end = c OBVIOUS
<1>10. IsFiniteSet(ws)
  <2>1. met \subseteq windows OBVIOUS
  <2>. HIDE DEF met, a
  <2>2. IsFiniteSet(met) BY <2>1, FS_Subset
  <2>3. IsFiniteSet(met \cup {a}) BY <2>2, FS_AddElement
  <2>4. met \cup {a} = ws OBVIOUS
  <2>. QED BY <2>3, <2>4
<1>. HIDE DEF met, ws, a, m
<1>11. PICK s \in {u.start : u \in ws} : \A x \in {u.start : u \in ws} : s =< x
  <2>. DEFINE S == {u.start : u \in ws}
              f == [u \in ws |-> u.start]
  <2>1. f \in Surjection(ws, S) BY DEF Surjection
  <2>2. S # {} /\ \A x \in S : x \in Int BY <1>8, <1>9
  <2>. HIDE DEF S, f
  <2>3. IsFiniteSet(S) BY <1>10, <2>1, FS_Surjection
  <2>4. \E x \in S : \A y \in S : x =< y BY <2>2, <2>3, Extremes
  <2>. QED BY <2>4 DEF S
<1>12. PICK e \in {u.end : u \in ws} : \A x \in {u.end : u \in ws} : x =< e
  <2>. DEFINE S == {u.end : u \in ws}
              f == [u \in ws |-> u.end]
  <2>1. f \in Surjection(ws, S) BY DEF Surjection
  <2>2. S # {} /\ \A x \in S : x \in Int BY <1>8, <1>9
  <2>. HIDE DEF S, f
  <2>3. IsFiniteSet(S) BY <1>10, <2>1, FS_Surjection
  <2>4. PICK x \in S : \A y \in S : x >= y BY <2>2, <2>3, Extremes
  <2>5. \A y \in S : y =< x BY <2>2, <2>4
  <2>. QED BY <2>5 DEF S
<1>13. /\ \A u \in ws : s =< u.start /\ u.end =< e
       /\ \E u \in ws : u.start = s
       /\ \E u \in ws : u.end = e
       /\ s \in Int /\ e \in Int /\ s =< b /\ c =< e
  <2>1. \A u \in ws : s =< u.start /\ u.end =< e BY <1>11, <1>12
  <2>2. (\E u \in ws : u.start = s) /\ \E u \in ws : u.end = e BY <1>11, <1>12
  <2>3. s \in Int /\ e \in Int BY <1>8, <2>2
  <2>4. s =< b /\ c =< e BY <1>9, <2>1
  <2>. QED BY <2>1, <2>2, <2>3, <2>4
<1>. DEFINE ms == UNION {u.members : u \in ws}
<1>14. m = [key |-> k, start |-> s, end |-> e, members |-> ms]
  <2>1. \A u \in ws : /\ u.key = k /\ u.start \in Int /\ s =< u.start
                      /\ u.end \in Int /\ u.end =< e
    BY <1>8, <1>13
  <2>. QED BY <1>11, <1>12, <2>1, MergedIs DEF m
<1>15. \A i : i \in ms <=> \E u \in ws : i \in u.members OBVIOUS
<1>. HIDE DEF ms
<1>16. SessionOf(m, p)
  <2>1. \A i \in ms : i \in Of(k, p) /\ s =< Ts(i) /\ Ends(i) =< e
    <3>. SUFFICES ASSUME NEW i \in ms PROVE i \in Of(k, p) /\ s =< Ts(i) /\ Ends(i) =< e OBVIOUS
    <3>1. PICK u \in ws : i \in u.members BY <1>15
    <3>2. /\ i \in Of(k, p) /\ u.start =< Ts(i) /\ Ends(i) =< u.end
          /\ u.start \in Int /\ u.end \in Int
      BY <1>8, <3>1
    <3>3. s =< u.start /\ u.end =< e BY <1>13
    <3>4. Ts(i) \in Int /\ Ends(i) \in Int BY <1>1, <1>3, <3>2
    <3>. QED BY <1>13, <3>2, <3>3, <3>4
  <2>2. \E i \in ms : Ts(i) = s
    <3>1. PICK u \in ws : u.start = s BY <1>13
    <3>. QED BY <1>8, <1>15, <3>1
  <2>3. \E i \in ms : Ends(i) = e
    <3>1. PICK u \in ws : u.end = e BY <1>13
    <3>. QED BY <1>8, <1>15, <3>1
  <2>4. ASSUME NEW t \in s..(e - 1) PROVE \E i \in ms : Ts(i) =< t /\ t < Ends(i)
    <3>1. \E u \in ws : t \in u.start..(u.end - 1)
      <4>1. CASE t < b
        <5>1. PICK u \in ws : u.start = s BY <1>13
        <5>2. u.end \in Int /\ b =< u.end BY <1>8
        <5>. QED BY <1>2, <1>13, <4>1, <5>1, <5>2
      <4>2. CASE c =< t
        <5>1. PICK u \in ws : u.end = e BY <1>13
        <5>2. u.start \in Int /\ u.start =< c BY <1>8
        <5>. QED BY <1>2, <1>13, <4>2, <5>1, <5>2
      <4>3. CASE b =< t /\ t < c BY <1>2, <1>9, <1>13, <4>3
      <4>. QED BY <1>2, <1>13, <4>1, <4>2, <4>3
    <3>2. PICK u \in ws : t \in u.start..(u.end - 1) BY <3>1
    <3>3. PICK i \in u.members : Ts(i) =< t /\ t < Ends(i) BY <1>8, <3>2
    <3>. QED BY <1>15, <3>3
  <2>5. ASSUME NEW i \in Of(k, p), i \notin ms PROVE Ends(i) < s \/ e < Ts(i)
    <3>1. i # p BY <1>9, <1>15, <2>5
    <3>2. i \in Of(k, pos) /\ i \in 1..pos /\ At(i).key = k BY <1>1, <1>3, <3>1
    <3>3. PICK v : SessionOf(v, pos) /\ i \in v.members BY <3>2
    <3>4. i \in Of(v.key, pos) /\ v.start =< Ts(i) /\ Ends(i) =< v.end BY <3>3, SessionParts
    <3>5. v.key = k BY <1>1, <1>3, <3>2, <3>4
    <3>6. v \notin ws BY <1>15, <2>5, <3>3
    <3>7. v \notin met BY <3>6 DEF ws
    <3>8. v.start \in Int /\ v.end \in Int /\ v.start < v.end /\ (v.end < b \/ c < v.start)
      BY <1>7, <3>3, <3>5, <3>7
    <3>9. ASSUME NEW u \in ws PROVE v.end < u.start \/ u.end < v.start
      <4>1. CASE u = a BY <1>9, <3>8, <4>1
      <4>2. CASE u # a
        <5>1. u \in met BY <4>2 DEF ws
        <5>2. u \in windows /\ u.key = k BY <1>6, <5>1
        <5>3. SessionOf(u, pos) BY <5>2
        <5>4. u.start \in Int /\ u.end \in Int BY <1>8
        <5>5. ~ (v.start =< u.end /\ u.start =< v.end)
          BY <1>1, <3>3, <3>5, <3>6, <5>2, <5>3, SessionsApart DEF q
        <5>. QED BY <3>8, <5>4, <5>5
      <4>. QED BY <4>1, <4>2
    <3>10. Ts(i) \in Int /\ Ends(i) \in Int BY <1>1, <1>3, <3>2
    <3>11. CASE v.end < b
      <4>1. ASSUME NEW u \in ws PROVE v.end < u.start
        <5>1. u.start \in Int /\ u.end \in Int /\ b =< u.end BY <1>8
        <5>. QED BY <1>2, <3>8, <3>9, <3>11, <5>1
      <4>2. v.end < s BY <1>13, <4>1
      <4>. QED BY <1>13, <3>4, <3>8, <3>10, <4>2
    <3>12. CASE c < v.start
      <4>1. ASSUME NEW u \in ws PROVE u.end < v.start
        <5>1. u.start \in Int /\ u.end \in Int /\ u.start =< c BY <1>8
        <5>. QED BY <1>2, <3>8, <3>9, <3>12, <5>1
      <4>2. e < v.start BY <1>13, <4>1
      <4>. QED BY <1>13, <3>4, <3>8, <3>10, <4>2
    <3>. QED BY <3>8, <3>11, <3>12
  <2>6. /\ m.key = k /\ m.start = s /\ m.end = e /\ m.members = ms
        /\ m = [key |-> m.key, start |-> m.start, end |-> m.end, members |-> m.members]
    BY <1>14
  <2>. QED BY <2>1, <2>2, <2>3, <2>4, <2>5, <2>6 DEF SessionOf
<1>17. m.key = k /\ m.start = s /\ m.end = e /\ p \in m.members /\ m.end > mark
  <2>1. p \in ms BY <1>9, <1>15
  <2>. QED BY <1>2, <1>13, <1>14, <2>1
<1>18. ASSUME NEW w, w \in windows' PROVE SessionOf(w, p) /\ w.end > mark
  <2>1. CASE w \in windows /\ ~TimeWindows!Meet(a, w)
    <3>1. SessionOf(w, pos) /\ w.end > mark /\ w \notin met BY <2>1 DEF met
    <3>. QED BY <1>7, <3>1
  <2>2. CASE w = m BY <1>16, <1>17, <2>2
  <2>. QED BY <1>4, <1>18, <2>1, <2>2
<1>19. ASSUME NEW w, SessionOf(w, p), w.end > mark PROVE w \in windows'
  <2>1. /\ w.start \in Int /\ w.end \in Int
        /\ \A i \in w.members : i \in Of(w.key, p) /\ w.start =< Ts(i) /\ Ends(i) =< w.end
        /\ \A i \in Of(w.key, p) : i \notin w.members => Ends(i) < w.start \/ w.end < Ts(i)
    <3>1. w.start \in Int /\ w.end \in Int BY <1>1, <1>19, SessionTyped DEF q
    <3>. QED BY <1>19, <3>1, SessionParts
  <2>2. CASE p \in w.members
    <3>1. p \in Of(w.key, p) /\ w.start =< b /\ c =< w.end BY <2>1, <2>2 DEF b, c
    <3>2. w.key = k BY <1>1, <1>3, <3>1 DEF k
    <3>3. m.start =< w.end /\ w.start =< m.end
      BY <1>2, <1>13, <1>17, <2>1, <3>1
    <3>4. m = w BY <1>1, <1>16, <1>17, <1>19, <3>2, <3>3, SessionsApart DEF q
    <3>. QED BY <1>4, <1>13, <1>17, <1>2, <3>4
  <2>3. CASE p \notin w.members
    <3>1. w.members \subseteq 1..pos BY <1>1, <1>3, <2>1, <2>3
    <3>2. SessionOf(w, pos) BY <1>1, <1>19, <3>1, SessionBefore DEF q
    <3>3. w \in windows BY <1>19, <3>2
    <3>4. ~TimeWindows!Meet(a, w)
      <4>. SUFFICES ASSUME w.key = k, b =< w.end, c >= w.start PROVE FALSE BY <1>5
      <4>1. Ends(p) < w.start \/ w.end < Ts(p) BY <1>3, <2>1, <2>3
      <4>. QED BY <1>2, <2>1, <4>1 DEF b, c
    <3>. QED BY <1>4, <3>3, <3>4
  <2>. QED BY <2>2, <2>3
<1>20. ASSUME NEW i \in 1..p PROVE \E w : SessionOf(w, p) /\ i \in w.members
  <2>1. CASE i = p BY <1>16, <1>17, <2>1
  <2>2. CASE i # p
    <3>1. i \in 1..pos BY <1>1, <2>2 DEF p
    <3>2. PICK v : SessionOf(v, pos) /\ i \in v.members BY <3>1
    <3>3. CASE v \in met
      <4>1. v \in ws BY <3>3 DEF ws
      <4>2. i \in m.members BY <1>14, <1>15, <3>2, <4>1
      <4>. QED BY <1>16, <4>2
    <3>4. CASE v \notin met BY <1>7, <3>2, <3>4
    <3>. QED BY <3>3, <3>4
  <2>. QED BY <2>1, <2>2
<1>21. IsFiniteSet(windows')
  <2>1. windows' \subseteq windows \cup {m} BY <1>4
  <2>2. IsFiniteSet(windows \cup {m}) BY FS_AddElement
  <2>. QED BY <2>1, <2>2, FS_Subset
<1>. QED BY <1>18, <1>19, <1>20, <1>21 DEF p

(* What firing adds to the results: those of the windows, one after the    *)
(* other, in the order the fold picks them.                                *)
Adds(r, base, S, it) ==
  it = [s \in SUBSET S |->
          IF s = {} THEN base ELSE Append(it[s \ {Pick(s)}], r[Pick(s)])]

(* Two such functions agree where both are defined. *)
LEMMA AddsUnique ==
  ASSUME NEW r, NEW base, NEW S, IsFiniteSet(S), NEW R \in SUBSET S, NEW a, NEW b,
         Adds(r, base, S, a), Adds(r, base, R, b)
  PROVE  \A s \in SUBSET R : a[s] = b[s]
<1>. DEFINE bad == {s \in SUBSET R : a[s] # b[s]}
<1>1. SUFFICES ASSUME bad # {} PROVE FALSE OBVIOUS
<1>2. bad \subseteq SUBSET S OBVIOUS
<1>3. PICK m \in bad : \A n \in bad : n \subseteq m => n = m
  <2>. HIDE DEF bad
  <2>. QED BY <1>1, <1>2, LeastSet
<1>4. m \in SUBSET R /\ m \in SUBSET S OBVIOUS
<1>5. CASE m = {} BY <1>3, <1>4, <1>5 DEF Adds
<1>6. CASE m # {}
  <2>. DEFINE n == m \ {Pick(m)}
  <2>1. Pick(m) \in m BY <1>6, PickIn
  <2>2. n \subseteq m /\ n # m /\ n \in SUBSET R BY <1>4, <2>1
  <2>3. a[n] = b[n] BY <1>3, <2>2
  <2>4. a[m] = Append(a[n], r[Pick(m)]) /\ b[m] = Append(b[n], r[Pick(m)])
    BY <1>4, <1>6 DEF Adds
  <2>. QED BY <1>3, <2>3, <2>4
<1>. QED BY <1>5, <1>6

(* There is such a function for every finite set. *)
LEMMA AddsExist ==
  ASSUME NEW r, NEW base, NEW S, IsFiniteSet(S)
  PROVE  \E it : Adds(r, base, S, it)
<1>. DEFINE bad == {s \in SUBSET S : ~ \E it : Adds(r, base, s, it)}
<1>1. SUFFICES ASSUME bad # {} PROVE FALSE OBVIOUS
<1>2. PICK m \in bad : \A n \in bad : n \subseteq m => n = m
  <2>1. bad \subseteq SUBSET S OBVIOUS
  <2>. HIDE DEF bad
  <2>. QED BY <1>1, <2>1, LeastSet
<1>. DEFINE part  == [s \in SUBSET m |-> CHOOSE it : Adds(r, base, s, it)]
            whole == [s \in SUBSET m |->
                        IF s = {} THEN base
                        ELSE Append(part[s \ {Pick(s)}][s \ {Pick(s)}], r[Pick(s)])]
<1>3. ASSUME NEW s \in SUBSET m, s # m
      PROVE  Adds(r, base, s, part[s]) /\ IsFiniteSet(s)
  <2>1. s \in SUBSET S /\ s \notin bad BY <1>2, <1>3
  <2>2. \E it : Adds(r, base, s, it) BY <2>1
  <2>3. part[s] = CHOOSE it : Adds(r, base, s, it) OBVIOUS
  <2>. QED BY <2>1, <2>2, <2>3, FS_Subset
<1>. HIDE DEF part
<1>4. ASSUME NEW s \in SUBSET m, s # m PROVE whole[s] = part[s][s]
  <2>1. CASE s = {} BY <1>3, <2>1 DEF Adds
  <2>2. CASE s # {}
    <3>. DEFINE t == s \ {Pick(s)}
    <3>1. t \in SUBSET s /\ t \in SUBSET m /\ t # m BY <1>4
    <3>2. part[s][s] = Append(part[s][t], r[Pick(s)]) BY <1>3, <1>4, <2>2 DEF Adds
    <3>3. Adds(r, base, s, part[s]) /\ Adds(r, base, t, part[t]) /\ IsFiniteSet(s)
      BY <1>3, <1>4, <3>1
    <3>4. part[s][t] = part[t][t]
      <4>. DEFINE a == part[s]
                  b == part[t]
      <4>1. t \in SUBSET s /\ Adds(r, base, s, a) /\ Adds(r, base, t, b) BY <3>1, <3>3
      <4>. HIDE DEF t, a, b
      <4>2. \A u \in SUBSET t : a[u] = b[u] BY <4>1, <3>3, AddsUnique
      <4>. QED BY <4>2 DEF a, b
    <3>. QED BY <2>2, <3>2, <3>4
  <2>. QED BY <2>1, <2>2
<1>5. ASSUME NEW s \in SUBSET m, s # {}
      PROVE  whole[s] = Append(whole[s \ {Pick(s)}], r[Pick(s)])
  <2>1. Pick(s) \in s BY <1>5, PickIn
  <2>2. s \ {Pick(s)} \in SUBSET m /\ s \ {Pick(s)} # m BY <2>1
  <2>. QED BY <1>4, <1>5, <2>2
<1>6. Adds(r, base, m, whole) BY <1>5 DEF Adds
<1>. QED BY <1>2, <1>6

(* o is base with the values of r on s behind it, none of them twice. *)
Longer(o, base, R, r, s) ==
  /\ o \in Seq(R) /\ Len(o) >= Len(base)
  /\ \A i \in 1..Len(base) : o[i] = base[i]
  /\ \A i \in 1..Len(o) : i > Len(base) => \E x \in s : o[i] = r[x]
  /\ \A i, j \in 1..Len(o) : i > Len(base) /\ j > Len(base) /\ o[i] = o[j] => i = j
  /\ \A x \in s : \E i \in 1..Len(o) : o[i] = r[x]

(* One more result makes it longer. *)
LEMMA LongerByOne ==
  ASSUME NEW R, NEW base \in Seq(R), NEW r, NEW s, NEW o, Longer(o, base, R, r, s),
         NEW x, r[x] \in R, \A y \in s : r[y] # r[x]
  PROVE  Longer(Append(o, r[x]), base, R, r, s \cup {x})
<1>. DEFINE e == r[x]
            p == Append(o, e)
<1>1. o \in Seq(R) /\ e \in R BY DEF Longer
<1>2. Len(base) \in Nat /\ Len(o) \in Nat /\ Len(o) >= Len(base) BY <1>1 DEF Longer
<1>3. /\ p \in Seq(R) /\ Len(p) = Len(o) + 1 /\ p[Len(o) + 1] = e
      /\ \A n \in 1..Len(o) : p[n] = o[n]
      /\ \A n \in 1..Len(p) : n \in 1..Len(o) \/ n = Len(o) + 1
  <2>. HIDE DEF p, e
  <2>. QED BY <1>1, Appended DEF p
<1>. HIDE DEF p
<1>4. \A i \in 1..Len(base) : p[i] = base[i] BY <1>2, <1>3 DEF Longer
<1>5. ASSUME NEW i \in 1..Len(p), i > Len(base) PROVE \E y \in s \cup {x} : p[i] = r[y]
  <2>1. CASE i \in 1..Len(o)
    <3>1. \E y \in s : o[i] = r[y] BY <1>5, <2>1 DEF Longer
    <3>. QED BY <1>3, <2>1, <3>1
  <2>2. CASE i = Len(o) + 1 BY <1>3, <2>2
  <2>. QED BY <1>3, <2>1, <2>2
<1>6. ASSUME NEW i \in 1..Len(p), NEW j \in 1..Len(p), i > Len(base), j > Len(base), p[i] = p[j]
      PROVE  i = j
  <2>1. ASSUME NEW n \in 1..Len(o), n > Len(base) PROVE p[n] # e
    <3>1. \E y \in s : o[n] = r[y] BY <2>1 DEF Longer
    <3>. QED BY <1>3, <2>1, <3>1
  <2>2. CASE i \in 1..Len(o) /\ j \in 1..Len(o) BY <1>3, <1>6, <2>2 DEF Longer
  <2>3. CASE i = Len(o) + 1 /\ j \in 1..Len(o) BY <1>3, <1>6, <2>1, <2>3
  <2>4. CASE i \in 1..Len(o) /\ j = Len(o) + 1 BY <1>3, <1>6, <2>1, <2>4
  <2>. QED BY <1>3, <2>2, <2>3, <2>4
<1>7. Len(p) >= Len(base) BY <1>2, <1>3
<1>8. ASSUME NEW y \in s \cup {x} PROVE \E i \in 1..Len(p) : p[i] = r[y]
  <2>1. CASE y \in s
    <3>1. PICK i \in 1..Len(o) : o[i] = r[y] BY <2>1 DEF Longer
    <3>2. i \in 1..Len(p) /\ p[i] = o[i] BY <1>2, <1>3
    <3>. QED BY <3>1, <3>2
  <2>2. CASE y = x
    <3>1. Len(o) + 1 \in 1..Len(p) BY <1>2, <1>3
    <3>. QED BY <1>3, <2>2, <3>1
  <2>. QED BY <1>8, <2>1, <2>2
<1>9. Longer(p, base, R, r, s \cup {x}) BY <1>3, <1>4, <1>5, <1>6, <1>7, <1>8 DEF Longer
<1>. QED BY <1>9 DEF p

(* So the fold adds the result of each window that is passed, once. *)
LEMMA AllAdded ==
  ASSUME NEW S, IsFiniteSet(S), NEW R, NEW base \in Seq(R), NEW r, \A x \in S : r[x] \in R,
         \A x, y \in S : r[x] = r[y] => x = y
  PROVE  Longer((CHOOSE it : Adds(r, base, S, it))[S], base, R, r, S)
<1>. DEFINE it == CHOOSE f : Adds(r, base, S, f)
<1>1. Adds(r, base, S, it) BY AddsExist
<1>. HIDE DEF it
<1>. DEFINE bad == {s \in SUBSET S : ~Longer(it[s], base, R, r, s)}
<1>2. SUFFICES ASSUME bad # {} PROVE FALSE BY DEF it
<1>3. PICK m \in bad : \A n \in bad : n \subseteq m => n = m
  <2>1. bad \subseteq SUBSET S OBVIOUS
  <2>. HIDE DEF bad
  <2>. QED BY <1>2, <2>1, LeastSet
<1>4. m \in SUBSET S /\ ~Longer(it[m], base, R, r, m) OBVIOUS
<1>5. CASE m = {}
  <2>1. it[m] = base BY <1>1, <1>4, <1>5 DEF Adds
  <2>2. Len(base) \in Nat OBVIOUS
  <2>3. Longer(base, base, R, r, m) BY <1>5, <2>2 DEF Longer
  <2>. QED BY <1>4, <2>1, <2>3
<1>6. CASE m # {}
  <2>. DEFINE x == Pick(m)
              n == m \ {x}
  <2>1. x \in m BY <1>6, PickIn
  <2>2. n \in SUBSET S /\ n \subseteq m /\ n # m /\ n \cup {x} = m BY <1>4, <2>1
  <2>3. n \notin bad BY <1>3, <2>2
  <2>4. Longer(it[n], base, R, r, n) BY <2>2, <2>3
  <2>5. it[m] = Append(it[n], r[x]) BY <1>1, <1>4, <1>6 DEF Adds
  <2>6. r[x] \in R /\ \A y \in n : r[y] # r[x] BY <1>4, <2>1, <2>2
  <2>. HIDE DEF x, n, bad
  <2>7. Longer(Append(it[n], r[x]), base, R, r, n \cup {x})
    <3>. DEFINE o == it[n]
    <3>1. Longer(o, base, R, r, n) BY <2>4
    <3>. HIDE DEF o
    <3>2. Longer(Append(o, r[x]), base, R, r, n \cup {x}) BY <2>6, <3>1, LongerByOne
    <3>. QED BY <3>2 DEF o
  <2>. QED BY <1>4, <2>2, <2>5, <2>7
<1>. QED BY <1>5, <1>6

(* The fold of the model is that one. *)
LEMMA FoldAdds ==
  ASSUME NEW S, NEW base, NEW r, \A w \in S : r[w] = TimeWindows!Result(w)
  PROVE  TimeWindows!FoldSet(LAMBDA w, s : Append(s, TimeWindows!Result(w)), base, S)
           = (CHOOSE it : Adds(r, base, S, it))[S]
<1>. DEFINE folded(it) == it = [s \in SUBSET S |->
              IF s = {} THEN base ELSE Append(it[s \ {Pick(s)}], TimeWindows!Result(Pick(s)))]
<1>1. TimeWindows!FoldSet(LAMBDA w, s : Append(s, TimeWindows!Result(w)), base, S)
        = (CHOOSE it : folded(it))[S]
  BY DEF TimeWindows!FoldSet, TimeWindows!MapThenFoldSet, Pick
<1>2. \A s \in SUBSET S : s # {} => r[Pick(s)] = TimeWindows!Result(Pick(s))
  BY PickIn
<1>3. \A it : folded(it) <=> Adds(r, base, S, it)
  BY <1>2 DEF Adds
<1>. HIDE DEF folded
<1>4. (CHOOSE it : folded(it)) = (CHOOSE it : Adds(r, base, S, it)) BY <1>3
<1>. QED BY <1>1, <1>4

(* A program that stays is the same afterwards, and so are its windows. *)
LEMMA SameProgram ==
  ASSUME job' = job, NEW n, pos' = n, NEW m, mark' = m
  PROVE  /\ Sliding' = Sliding /\ TimedElements' = TimedElements /\ Untied' = Untied
         /\ Size' = Size
         /\ TimeWindows!stream' = TimeWindows!stream
         /\ \A i : Ts(i)' = Ts(i)
         /\ MarkOf(mark, pos)' <=> MarkOf(m, n)
         /\ \A w : WindowOfFirst(w, pos)' <=> WindowOfFirst(w, n)
         /\ \A w : SessionOf(w, pos)' <=> SessionOf(w, n)
         /\ \A w : TimeWindows!Result(w)' = TimeWindows!Result(w)
<1>1. /\ TimeWindows!stream' = TimeWindows!stream /\ TimeWindows!program' = TimeWindows!program
  BY DEF TimeWindows!stream, TimeWindows!program
<1>2. Sliding' = Sliding /\ Lag' = Lag /\ Input' = Input /\ Size' = Size
  BY <1>1 DEF Sliding, Lag, Input, Size
<1>3. \A i : At(i)' = At(i) /\ Ts(i)' = Ts(i) /\ TimeWindows!Gap(i)' = TimeWindows!Gap(i)
  BY <1>1 DEF At, Ts, TimeWindows!Gap
<1>4. \A i : Ends(i)' = Ends(i) BY <1>3 DEF Ends
<1>5. TimedElements' = TimedElements BY <1>1, <1>2, <1>3, <1>4 DEF TimedElements, Numbered
<1>6. Untied' = Untied BY <1>1, <1>2, <1>3, <1>4 DEF Untied
<1>7. MarkOf(mark, pos)' <=> MarkOf(m, n) BY <1>1, <1>2, <1>3 DEF MarkOf
<1>8. \A w : SessionOf(w, pos)' <=> SessionOf(w, n)
  BY <1>1, <1>3, <1>4 DEF SessionOf, Of, Places
<1>9. \A w : SlideOf(w, pos)' <=> SlideOf(w, n)
  BY <1>1, <1>3 DEF SlideOf, Of, Places, TimeWindows!Starts
<1>10. \A w : WindowOfFirst(w, pos)' <=> WindowOfFirst(w, n)
  BY <1>2, <1>8, <1>9 DEF WindowOfFirst
<1>11. \A w : TimeWindows!Result(w)' = TimeWindows!Result(w)
  BY <1>1 DEF TimeWindows!Result, TimeWindows!Count, TimeWindows!Sum, TimeWindows!Mean
<1>. QED BY <1>1, <1>2, <1>3, <1>5, <1>6, <1>7, <1>8, <1>10, <1>11

(* A program that stays expects the same results. *)
LEMMA SameExpected ==
  ASSUME job' = job
  PROVE  TimeWindows!Expected' = TimeWindows!Expected
BY DEF TimeWindows!Expected, TimeWindows!ExpectedWindows, TimeWindows!Starts, TimeWindows!Keys,
       TimeWindows!Elements, TimeWindows!Together, TimeWindows!Busy, TimeWindows!Gap,
       TimeWindows!stream, TimeWindows!program, TimeWindows!Result, TimeWindows!Count,
       TimeWindows!Sum, TimeWindows!Mean

(* A window has a start and an end, which with its key tell it from others. *)
LEMMA WindowBounds ==
  ASSUME WindowTyped, NEW n \in 0..Len(TimeWindows!stream), NEW w, WindowOfFirst(w, n)
  PROVE  w.start \in Int /\ w.end \in Int /\ w.start < w.end
<1>1. CASE Sliding
  <2>1. Size \in Nat \ {0} /\ SlideOf(w, n) /\ TimedElements
    BY <1>1 DEF WindowTyped, WindowOfFirst, Size
  <2>2. w.start \in Int /\ w.end = w.start + Size BY <2>1, SlideParts
  <2>. QED BY <2>1, <2>2
<1>2. CASE ~Sliding
  <2>1. Untied /\ SessionOf(w, n) /\ TimedElements BY <1>2 DEF WindowTyped, WindowOfFirst
  <2>. QED BY <2>1, SessionTyped
<1>. QED BY <1>1, <1>2

(* Two windows of a key that start together are the same. *)
LEMMA WindowsDiffer ==
  ASSUME WindowTyped, NEW n \in 0..Len(TimeWindows!stream),
         NEW v, WindowOfFirst(v, n), NEW w, WindowOfFirst(w, n),
         v.key = w.key, v.start = w.start
  PROVE  v = w
<1>1. CASE Sliding
  <2>1. SlideOf(v, n) /\ SlideOf(w, n) BY <1>1 DEF WindowOfFirst
  <2>. QED BY <2>1, SlideUnique
<1>2. CASE ~Sliding
  <2>1. Untied /\ SessionOf(v, n) /\ SessionOf(w, n) /\ TimedElements
    BY <1>2 DEF WindowTyped, WindowOfFirst
  <2>2. /\ v.start \in Int /\ v.end \in Int /\ v.start < v.end
        /\ w.start \in Int /\ w.end \in Int /\ w.start < w.end
    BY WindowBounds
  <2>3. v.start =< w.end /\ w.start =< v.end BY <2>2
  <2>. QED BY <2>1, <2>3, SessionsApart
<1>. QED BY <1>1, <1>2

(* When the watermark passes a window, it is complete, and its result is   *)
(* one that the whole input calls for.                                     *)
LEMMA PassedExpected ==
  ASSUME WindowTyped, NEW n \in 0..Len(TimeWindows!stream), NEW w, WindowOfFirst(w, n),
         NEW m, m \in Int, MarkOf(m, n), w.end =< m
  PROVE  TimeWindows!Result(w) \in TimeWindows!Expected
<1>1. w \in TimeWindows!ExpectedWindows
  <2>1. CASE Sliding
    <3>1. Size \in Nat \ {0} /\ SlideOf(w, n) /\ TimedElements
      BY <2>1 DEF WindowTyped, WindowOfFirst, Size
    <3>2. SlideOf(w, Len(TimeWindows!stream)) BY <3>1, SlideWhole
    <3>. QED BY <2>1, <3>1, <3>2, SlideExpected
  <2>2. CASE ~Sliding
    <3>1. Untied /\ SessionOf(w, n) /\ TimedElements BY <2>2 DEF WindowTyped, WindowOfFirst
    <3>2. SessionOf(w, Len(TimeWindows!stream)) BY <3>1, SessionWhole
    <3>. QED BY <2>2, <3>1, <3>2, SessionExpected
  <2>. QED BY <2>1, <2>2
<1>. QED BY <1>1 DEF TimeWindows!Expected

(* A result carries the key and the bounds of its window. *)
LEMMA ResultOf ==
  \A w : LET r == TimeWindows!Result(w) IN r.key = w.key /\ r.start = w.start /\ r.end = w.end
BY DEF TimeWindows!Result

(* What firing does: the windows that are passed are no longer open, and   *)
(* their results are added, each for the first time.                       *)
LEMMA FireAdds ==
  ASSUME WindowInv, NEW m, m \in Int, mark =< m, MarkOf(m, pos), TimeWindows!Fire(m)
  PROVE  /\ IsFiniteSet(windows')
         /\ \A w : w \in windows' <=> WindowOfFirst(w, pos) /\ w.end > m
         /\ out' \in Seq(TimeWindows!Expected) /\ Distinct(out')
         /\ \A i \in 1..Len(out') : out'[i].end \in Int /\ out'[i].end =< m
         /\ Len(out') >= Len(out) /\ \A i \in 1..Len(out) : out'[i] = out[i]
         /\ \A w \in windows : w.end =< m => TimeWindows!Result(w) \in Held(out')
<1>. DEFINE P == {w \in windows : w.end =< m}
            R == TimeWindows!Expected
            r == [w \in P |-> TimeWindows!Result(w)]
<1>1. /\ WindowTyped /\ pos \in 0..Len(TimeWindows!stream) /\ mark \in Int
      /\ IsFiniteSet(windows) /\ \A w : w \in windows <=> WindowOfFirst(w, pos) /\ w.end > mark
      /\ out \in Seq(R) /\ Distinct(out)
      /\ \A i \in 1..Len(out) : out[i].end \in Int /\ out[i].end =< mark
  BY DEF WindowInv, WindowTyped, OpenWindows, ResultsPassed
<1>2. /\ out' = TimeWindows!FoldSet(LAMBDA w, s : Append(s, TimeWindows!Result(w)), out, P)
      /\ windows' = windows \ P
  BY DEF TimeWindows!Fire
<1>3. \A w \in windows : w.start \in Int /\ w.end \in Int /\ w.start < w.end
  <2>. SUFFICES ASSUME NEW w \in windows PROVE w.start \in Int /\ w.end \in Int /\ w.start < w.end
    OBVIOUS
  <2>1. WindowOfFirst(w, pos) BY <1>1
  <2>. QED BY <1>1, <2>1, WindowBounds
<1>4. /\ IsFiniteSet(windows')
      /\ \A w : w \in windows' <=> WindowOfFirst(w, pos) /\ w.end > m
  <2>1. windows' \subseteq windows BY <1>2
  <2>2. ASSUME NEW w PROVE w \in windows' <=> WindowOfFirst(w, pos) /\ w.end > m
    <3>1. CASE w \in windows
      <4>1. w.end \in Int /\ WindowOfFirst(w, pos) BY <1>1, <1>3, <3>1
      <4>2. w \in P <=> w.end =< m BY <3>1
      <4>3. w \in windows' <=> ~ (w.end =< m) BY <1>2, <3>1, <4>2
      <4>. QED BY <4>1, <4>3
    <3>2. CASE w \notin windows
      <4>1. w \notin windows' BY <2>1, <3>2
      <4>2. ASSUME WindowOfFirst(w, pos), w.end > m PROVE FALSE
        <5>1. w.end \in Int BY <1>1, <4>2, WindowBounds
        <5>2. w.end > mark BY <1>1, <4>2, <5>1
        <5>. QED BY <1>1, <3>2, <4>2, <5>2
      <4>. QED BY <4>1, <4>2
    <3>. QED BY <3>1, <3>2
  <2>. QED BY <1>1, <2>1, <2>2, FS_Subset
<1>5. \A w \in P : w \in windows /\ r[w] = TimeWindows!Result(w) /\ w.end =< m /\ WindowOfFirst(w, pos)
  BY <1>1
<1>6. \A w \in P : r[w] \in R
  <2>. SUFFICES ASSUME NEW w \in P PROVE r[w] \in R OBVIOUS
  <2>1. WindowOfFirst(w, pos) /\ w.end =< m /\ r[w] = TimeWindows!Result(w) BY <1>5
  <2>2. TimeWindows!Result(w) \in TimeWindows!Expected BY <1>1, <2>1, PassedExpected
  <2>. QED BY <2>1, <2>2
<1>7. \A x, y \in P : r[x] = r[y] => x = y
  <2>. SUFFICES ASSUME NEW x \in P, NEW y \in P, r[x] = r[y] PROVE x = y OBVIOUS
  <2>1. WindowOfFirst(x, pos) /\ WindowOfFirst(y, pos) BY <1>5
  <2>2. TimeWindows!Result(x) = TimeWindows!Result(y) BY <1>5
  <2>3. x.key = y.key /\ x.start = y.start
    <3>1. /\ TimeWindows!Result(x).key = x.key /\ TimeWindows!Result(x).start = x.start
          /\ TimeWindows!Result(y).key = y.key /\ TimeWindows!Result(y).start = y.start
      BY ResultOf
    <3>. QED BY <2>2, <3>1
  <2>. QED BY <1>1, <2>1, <2>3, WindowsDiffer
<1>8. \A w \in P : r[w].end = w.end /\ w.end \in Int /\ w.end =< m /\ w.end > mark
  <2>. SUFFICES ASSUME NEW w \in P
                PROVE  r[w].end = w.end /\ w.end \in Int /\ w.end =< m /\ w.end > mark
    OBVIOUS
  <2>1. TimeWindows!Result(w).end = w.end BY ResultOf
  <2>2. w \in windows /\ w.end =< m /\ r[w] = TimeWindows!Result(w) BY <1>5
  <2>. QED BY <1>1, <1>3, <2>1, <2>2
<1>9. IsFiniteSet(P)
  <2>1. P \subseteq windows OBVIOUS
  <2>. QED BY <1>1, <2>1, FS_Subset
<1>10. out' = (CHOOSE it : Adds(r, out, P, it))[P]
  <2>1. \A w \in P : r[w] = TimeWindows!Result(w) OBVIOUS
  <2>. HIDE DEF P, r
  <2>2. TimeWindows!FoldSet(LAMBDA w, s : Append(s, TimeWindows!Result(w)), out, P)
          = (CHOOSE it : Adds(r, out, P, it))[P]
    BY <2>1, FoldAdds
  <2>. QED BY <1>2, <2>2
<1>16. \A w \in windows : w.end =< m => w \in P OBVIOUS
<1>. HIDE DEF P, r, R
<1>11. Longer(out', out, R, r, P) BY <1>1, <1>6, <1>7, <1>9, <1>10, AllAdded
<1>12. /\ out' \in Seq(R) /\ Len(out') >= Len(out)
       /\ \A i \in 1..Len(out) : out'[i] = out[i]
       /\ \A i \in 1..Len(out') : i > Len(out) => \E x \in P : out'[i] = r[x]
       /\ \A i, j \in 1..Len(out') : i > Len(out) /\ j > Len(out) /\ out'[i] = out'[j] => i = j
       /\ \A x \in P : \E i \in 1..Len(out') : out'[i] = r[x]
  BY <1>11 DEF Longer
<1>13. Len(out) \in Nat /\ Len(out') \in Nat BY <1>1, <1>12
<1>14. \A i \in 1..Len(out') : /\ out'[i].end \in Int /\ out'[i].end =< m
                               /\ i > Len(out) => out'[i].end > mark
                               /\ i =< Len(out) => out'[i].end =< mark /\ i \in 1..Len(out)
  <2>. SUFFICES ASSUME NEW i \in 1..Len(out')
                PROVE  /\ out'[i].end \in Int /\ out'[i].end =< m
                       /\ i > Len(out) => out'[i].end > mark
                       /\ i =< Len(out) => out'[i].end =< mark /\ i \in 1..Len(out)
    OBVIOUS
  <2>1. CASE i > Len(out)
    <3>1. PICK x \in P : out'[i] = r[x] BY <1>12, <2>1
    <3>2. r[x].end = x.end /\ x.end \in Int /\ x.end =< m /\ x.end > mark BY <1>8
    <3>. QED BY <1>13, <2>1, <3>1, <3>2
  <2>2. CASE i \in 1..Len(out)
    <3>1. out'[i] = out[i] /\ out[i].end \in Int /\ out[i].end =< mark BY <1>1, <1>12, <2>2
    <3>2. out[i].end =< m BY <1>1, <3>1
    <3>. QED BY <1>13, <2>2, <3>1, <3>2
  <2>. QED BY <1>13, <2>1, <2>2
<1>15. Distinct(out')
  <2>. SUFFICES ASSUME NEW i \in 1..Len(out'), NEW j \in 1..Len(out'), out'[i] = out'[j]
                PROVE  i = j
    BY DEF Distinct
  <2>1. CASE i > Len(out) /\ j > Len(out) BY <1>12, <2>1
  <2>2. CASE i =< Len(out) /\ j =< Len(out)
    <3>1. i \in 1..Len(out) /\ j \in 1..Len(out) BY <1>14, <2>2
    <3>2. out[i] = out[j] BY <1>12, <3>1
    <3>. QED BY <1>1, <3>1, <3>2 DEF Distinct
  <2>3. CASE i > Len(out) /\ j =< Len(out) BY <1>1, <1>14, <2>3
  <2>4. CASE i =< Len(out) /\ j > Len(out) BY <1>1, <1>14, <2>4
  <2>. QED BY <1>13, <2>1, <2>2, <2>3, <2>4
<1>17. \A w \in windows : w.end =< m => TimeWindows!Result(w) \in Held(out')
  BY <1>5, <1>12, <1>16 DEF Held
<1>. QED BY <1>4, <1>12, <1>14, <1>15, <1>17 DEF R

(* The streams of the programs are in time, and their sessions untied. *)
LEMMA JobTimed ==
  ASSUME job \in WindowJobs
  PROVE  TimedElements /\ IF Sliding THEN TimeWindows!program.size \in Nat \ {0} ELSE Untied
<1>. DEFINE p == job.program
            s == job.stream
            gap(i) == IF p.assign = "dynamic" THEN s[i].ts ELSE p.size
            E == [key : STRING, ts : Nat, price : Int]
<1>1. /\ p.lag \in Nat /\ s \in Seq(E)
      /\ \A i, l \in DOMAIN s : i < l => s[i].ts - p.lag =< s[l].ts
      /\ p.assign = "slide" => p.size \in Nat \ {0}
      /\ p.assign # "slide" =>
           /\ \A i \in DOMAIN s : gap(i) \in Nat \ {0}
           /\ \A i, l, m \in DOMAIN s :
                /\ s[i].key = s[l].key /\ s[l].ts = s[i].ts + gap(i)
                /\ m < l /\ s[m].ts - p.lag = s[l].ts
                => p.lag = 0 /\ s[m].key = s[l].key
  BY WindowsAssumption DEF WindowsAssumption
<1>2. /\ TimeWindows!program = p /\ TimeWindows!stream = s
      /\ Lag = p.lag /\ (Sliding <=> p.assign = "slide")
      /\ \A i : /\ At(i) = s[i] /\ Ts(i) = s[i].ts /\ TimeWindows!Gap(i) = gap(i)
                /\ Ends(i) = s[i].ts + gap(i)
  BY DEF TimeWindows!program, TimeWindows!stream, TimeWindows!Gap, At, Ts, Ends, Lag, Sliding
<1>. HIDE DEF p, s, E, gap
<1>3. Len(s) \in Nat /\ DOMAIN s = 1..Len(s) BY <1>1
<1>4. \A i \in 1..Len(s) : s[i].ts \in Nat
  <2>. SUFFICES ASSUME NEW i \in 1..Len(s) PROVE s[i].ts \in Nat OBVIOUS
  <2>1. s[i] \in E BY <1>1, ElementIn
  <2>. QED BY <2>1 DEF E
<1>5. \A i \in 1..Len(s) : gap(i) \in Nat /\ (p.assign # "slide" => gap(i) \in Nat \ {0})
  <2>. SUFFICES ASSUME NEW i \in 1..Len(s)
                PROVE  gap(i) \in Nat /\ (p.assign # "slide" => gap(i) \in Nat \ {0})
    OBVIOUS
  <2>1. CASE p.assign = "slide"
    <3>1. gap(i) = p.size BY <2>1 DEF gap
    <3>. QED BY <1>1, <2>1, <3>1
  <2>2. CASE p.assign # "slide" BY <1>1, <1>3, <2>2
  <2>. QED BY <2>1, <2>2
<1>6. Input = 1..Len(s) BY <1>2 DEF Input
<1>7. TimedElements
  <2>1. \A i \in Input : Ts(i) \in Nat /\ Ends(i) \in Int BY <1>2, <1>4, <1>5, <1>6
  <2>2. \A i, l \in Input : i < l => Ts(i) - Lag =< Ts(l) BY <1>1, <1>2, <1>3, <1>6
  <2>. QED BY <1>1, <1>2, <1>3, <2>1, <2>2 DEF TimedElements, Numbered
<1>8. ASSUME ~Sliding PROVE Untied
  <2>1. \A i \in Input : Ts(i) < Ends(i) BY <1>2, <1>4, <1>5, <1>6, <1>8
  <2>2. ASSUME NEW i \in Input, NEW l \in Input, NEW m \in Input,
               At(i).key = At(l).key, Ts(l) = Ends(i), m < l, Ts(m) - Lag = Ts(l)
        PROVE  Lag = 0 /\ At(m).key = At(l).key
    BY <1>1, <1>2, <1>3, <1>6, <1>8, <2>2
  <2>. QED BY <2>1, <2>2 DEF Untied
<1>9. Sliding => TimeWindows!program.size \in Nat \ {0} BY <1>1, <1>2
<1>. QED BY <1>7, <1>8, <1>9

(* In the beginning no window is open. *)
LEMMA WindowInit == TimeWindows!Init => WindowInv
<1>. SUFFICES ASSUME TimeWindows!Init PROVE WindowInv OBVIOUS
<1>1. /\ job \in WindowJobs /\ pos = 0 /\ latest = -1 /\ mark = -1 - Lag
      /\ windows = {} /\ out = <<>>
  BY DEF TimeWindows!Init, Lag
<1>2. TimedElements /\ IF Sliding THEN TimeWindows!program.size \in Nat \ {0} ELSE Untied
  BY <1>1, JobTimed
<1>3. Len(TimeWindows!stream) \in Nat /\ Lag \in Nat BY <1>2 DEF TimedElements, Numbered
<1>4. WindowTyped BY <1>1, <1>2, <1>3 DEF WindowTyped
<1>5. MarkRead BY <1>1 DEF MarkRead, MarkOf
<1>6. \A w : ~WindowOfFirst(w, pos)
  <2>1. \A k : Of(k, 0) = {} BY DEF Of, Places
  <2>2. \A w : ~SessionOf(w, 0) BY <2>1 DEF SessionOf
  <2>3. \A w : ~SlideOf(w, 0) BY DEF SlideOf
  <2>. QED BY <1>1, <2>2, <2>3 DEF WindowOfFirst
<1>7. OpenWindows
  <2>1. IsFiniteSet(windows) BY <1>1, FS_EmptySet
  <2>2. 1..pos = {} BY <1>1
  <2>. QED BY <1>1, <1>6, <2>1, <2>2 DEF OpenWindows
<1>8. ResultsPassed
  <2>1. Len(out) = 0 /\ out \in Seq(TimeWindows!Expected) BY <1>1
  <2>. QED BY <2>1 DEF ResultsPassed, Distinct
<1>9. PassedReported BY <1>6 DEF PassedReported
<1>. QED BY <1>4, <1>5, <1>7, <1>8, <1>9 DEF WindowInv

(* A window that the watermark has passed has no element just read.        *)
LEMMA PassedBefore ==
  ASSUME WindowTyped, NEW n \in 0..Len(TimeWindows!stream), n + 1 \in Input,
         NEW m, m \in Int, MarkOf(m, n),
         NEW w, WindowOfFirst(w, n + 1), w.end =< m
  PROVE  WindowOfFirst(w, n)
<1>. DEFINE p == n + 1
            L == Len(TimeWindows!stream)
<1>1. /\ TimedElements /\ n \in Nat /\ L \in Nat /\ p \in Nat /\ p > n /\ p \in 0..L /\ p \in n..L
      /\ p \in Input /\ 1..p = 1..n \cup {p}
  BY DEF WindowTyped, TimedElements, Numbered, Input
<1>2. \A i \in Of(w.key, p) : i \in 1..n \cup {p} BY <1>1 DEF Of, Places
<1>3. Ts(p) \in Int /\ m =< Ts(p)
  <2>1. Ts(p) \in Int BY <1>1 DEF TimedElements
  <2>. QED BY <1>1, <2>1, UnreadInTime
<1>. HIDE DEF p, L
<1>4. WindowOfFirst(w, p) BY DEF p
<1>5. w.end \in Int BY <1>1, <1>4, WindowBounds DEF L
<1>6. CASE Sliding
  <2>1. SlideOf(w, p) /\ Size \in Nat \ {0} BY <1>4, <1>6 DEF WindowOfFirst, WindowTyped, Size
  <2>2. w.members = {i \in Of(w.key, p) : w.start =< Ts(i) /\ Ts(i) < w.end}
    BY <1>1, <2>1, SlideParts DEF L
  <2>3. p \notin w.members
    <3>1. ~ (Ts(p) < w.end) BY <1>3, <1>5
    <3>. QED BY <2>2, <3>1
  <2>4. w.members \subseteq 1..n BY <1>2, <2>2, <2>3
  <2>5. SlideOf(w, n) BY <1>1, <2>1, <2>4, SlideBefore DEF L
  <2>. QED BY <1>6, <2>5 DEF WindowOfFirst
<1>7. CASE ~Sliding
  <2>1. SessionOf(w, p) /\ Untied BY <1>4, <1>7 DEF WindowOfFirst, WindowTyped
  <2>2. \A j \in w.members : j \in Of(w.key, p) /\ Ends(j) =< w.end BY <2>1, SessionParts
  <2>3. p \notin w.members
    <3>1. Ts(p) < Ends(p) /\ Ends(p) \in Int BY <1>1, <2>1 DEF Untied, TimedElements
    <3>. QED BY <1>3, <1>5, <2>2, <3>1
  <2>4. w.members \subseteq 1..n BY <1>2, <2>2, <2>3
  <2>5. SessionOf(w, n) BY <1>1, <2>1, <2>4, SessionBefore DEF L
  <2>. QED BY <1>7, <2>5 DEF WindowOfFirst
<1>. QED BY <1>6, <1>7

(* Reading an element. *)
LEMMA WindowReads ==
  ASSUME WindowInv, TimeWindows!Read
  PROVE  WindowInv' /\ job' = job /\ out' = out
<1>1. /\ TimedElements /\ pos \in 0..Len(TimeWindows!stream) /\ latest \in Int /\ mark \in Int
      /\ IF Sliding THEN Size \in Nat \ {0} ELSE Untied
  BY DEF WindowInv, WindowTyped, Size
<1>2. MarkOf(mark, pos) /\ (latest = -1 \/ \E l \in 1..pos : latest = Ts(l))
  BY DEF WindowInv, MarkRead
<1>3. /\ IsFiniteSet(windows)
      /\ \A w : w \in windows <=> WindowOfFirst(w, pos) /\ w.end > mark
      /\ ~Sliding => \A i \in 1..pos : \E w : SessionOf(w, pos) /\ i \in w.members
  BY DEF WindowInv, OpenWindows
<1>4. /\ pos < Len(TimeWindows!stream) /\ pos' = pos + 1
      /\ job' = job /\ mark' = mark /\ out' = out
      /\ latest' = TimeWindows!Max({latest, Ts(pos + 1)})
  BY ReadMerges
<1>. DEFINE p == pos + 1
<1>5. pos \in Nat /\ Len(TimeWindows!stream) \in Nat /\ p \in Input /\ p \in 1..p /\ p \in Nat
      /\ p \in 0..Len(TimeWindows!stream) /\ \A l \in 1..pos : l \in 1..p
  BY <1>1, <1>4 DEF TimedElements, Numbered, Input
<1>6. Ts(p) \in Int BY <1>1, <1>5 DEF TimedElements
<1>7. latest' \in Int /\ (latest' = latest \/ latest' = Ts(p))
  <2>. DEFINE x == Ts(p)
              S == {latest, x}
  <2>1. latest' = TimeWindows!Max(S) BY <1>4
  <2>2. x \in Int BY <1>6
  <2>. HIDE DEF x
  <2>3. CASE x =< latest
    <3>1. latest \in S /\ \A y \in S : y \in Int /\ y =< latest BY <1>1, <2>2, <2>3
    <3>. HIDE DEF S
    <3>. QED BY <1>1, <2>1, <3>1, GreatestIs
  <2>4. CASE latest =< x
    <3>1. x \in S /\ \A y \in S : y \in Int /\ y =< x BY <1>1, <2>2, <2>4
    <3>. HIDE DEF S
    <3>2. latest' = x BY <2>1, <3>1, GreatestIs
    <3>. QED BY <2>2, <3>2 DEF x
  <2>. QED BY <1>1, <2>2, <2>3, <2>4
<1>8. MarkOf(mark, p)
  <2>1. CASE mark = -1 - Lag BY <2>1 DEF MarkOf
  <2>2. CASE \E l \in 1..pos : mark = Ts(l) - Lag BY <1>5, <2>2 DEF MarkOf
  <2>. QED BY <1>2, <1>4, <1>5, <2>1, <2>2 DEF MarkOf
<1>9. latest' = -1 \/ \E l \in 1..p : latest' = Ts(l) BY <1>2, <1>5, <1>7
<1>10. /\ IsFiniteSet(windows')
       /\ \A w : w \in windows' <=> WindowOfFirst(w, p) /\ w.end > mark
       /\ ~Sliding => \A i \in 1..p : \E w : SessionOf(w, p) /\ i \in w.members
  <2>1. CASE Sliding
    <3>1. \A w, n : WindowOfFirst(w, n) <=> SlideOf(w, n) BY <2>1 DEF WindowOfFirst
    <3>2. \A w : w \in windows <=> SlideOf(w, pos) /\ w.end > mark BY <1>3, <3>1
    <3>3. /\ IsFiniteSet(windows')
          /\ \A w : w \in windows' <=> SlideOf(w, pos + 1) /\ w.end > mark
      BY <1>1, <1>2, <1>3, <2>1, <3>2, SlideRead
    <3>. QED BY <2>1, <3>1, <3>3
  <2>2. CASE ~Sliding
    <3>1. \A w, n : WindowOfFirst(w, n) <=> SessionOf(w, n) BY <2>2 DEF WindowOfFirst
    <3>2. \A w : w \in windows <=> SessionOf(w, pos) /\ w.end > mark BY <1>3, <3>1
    <3>3. /\ IsFiniteSet(windows')
          /\ \A w : w \in windows' <=> SessionOf(w, pos + 1) /\ w.end > mark
          /\ \A i \in 1..(pos + 1) : \E w : SessionOf(w, pos + 1) /\ i \in w.members
      BY <1>1, <1>2, <1>3, <2>2, <3>2, SessionRead
    <3>. QED BY <3>1, <3>3
  <2>. QED BY <2>1, <2>2
<1>. HIDE DEF p
<1>11. pos' = p BY <1>4 DEF p
<1>12. /\ Sliding' = Sliding /\ TimedElements' = TimedElements /\ Untied' = Untied
       /\ Size' = Size /\ TimeWindows!stream' = TimeWindows!stream
       /\ \A i : Ts(i)' = Ts(i)
       /\ MarkOf(mark, pos)' <=> MarkOf(mark, p)
       /\ \A w : WindowOfFirst(w, pos)' <=> WindowOfFirst(w, p)
       /\ \A w : SessionOf(w, pos)' <=> SessionOf(w, p)
       /\ \A w : TimeWindows!Result(w)' = TimeWindows!Result(w)
  BY <1>4, <1>11, SameProgram
<1>13. WindowTyped' BY <1>1, <1>4, <1>5, <1>7, <1>11, <1>12 DEF WindowTyped, Size
<1>14. MarkRead' BY <1>8, <1>9, <1>11, <1>12 DEF MarkRead
<1>15. OpenWindows' BY <1>4, <1>10, <1>11, <1>12 DEF OpenWindows
<1>16. ResultsPassed'
  <2>1. TimeWindows!Expected' = TimeWindows!Expected BY <1>4, SameExpected
  <2>2. ResultsPassed BY DEF WindowInv
  <2>. QED BY <1>4, <2>1, <2>2 DEF ResultsPassed, Distinct
<1>17. \A w : WindowOfFirst(w, p) /\ w.end =< mark => TimeWindows!Result(w) \in Held(out)
  <2>. SUFFICES ASSUME NEW w, WindowOfFirst(w, p), w.end =< mark
                PROVE  TimeWindows!Result(w) \in Held(out)
    OBVIOUS
  <2>1. WindowTyped BY DEF WindowInv
  <2>2. WindowOfFirst(w, pos) BY <1>1, <1>2, <1>5, <2>1, PassedBefore DEF p
  <2>. QED BY <2>2 DEF WindowInv, PassedReported
<1>18. PassedReported' BY <1>4, <1>12, <1>17 DEF PassedReported, Held
<1>. QED BY <1>4, <1>13, <1>14, <1>15, <1>16, <1>18 DEF WindowInv

(* A watermark, between elements or after the last. *)
LEMMA WindowFires ==
  ASSUME WindowInv, TimeWindows!Watermark \/ TimeWindows!Finish
  PROVE  /\ WindowInv' /\ job' = job
         /\ Len(out') >= Len(out) /\ \A i \in 1..Len(out) : out'[i] = out[i]
<1>1. /\ TimedElements /\ pos \in 0..Len(TimeWindows!stream) /\ latest \in Int /\ mark \in Int
      /\ IF Sliding THEN Size \in Nat \ {0} ELSE Untied
      /\ WindowTyped
  BY DEF WindowInv, WindowTyped, Size
<1>2. MarkOf(mark, pos) /\ (latest = -1 \/ \E l \in 1..pos : latest = Ts(l))
  BY DEF WindowInv, MarkRead
<1>3. /\ IsFiniteSet(windows)
      /\ \A w : w \in windows <=> WindowOfFirst(w, pos) /\ w.end > mark
      /\ ~Sliding => \A i \in 1..pos : \E w : SessionOf(w, pos) /\ i \in w.members
  BY DEF WindowInv, OpenWindows
<1>4. /\ job' = job /\ pos' = pos /\ latest' = latest /\ TimeWindows!Fire(mark')
      /\ \/ mark < latest - Lag /\ mark' = latest - Lag
         \/ /\ pos = Len(TimeWindows!stream) /\ windows # {}
            /\ mark' = TimeWindows!Max({w.end : w \in windows})
  BY DEF TimeWindows!Watermark, TimeWindows!Finish, Lag
<1>5. mark' \in Int /\ mark =< mark' /\ MarkOf(mark', pos)
  <2>1. CASE mark < latest - Lag /\ mark' = latest - Lag
    <3>1. Lag \in Nat BY <1>1 DEF TimedElements
    <3>2. MarkOf(mark', pos)
      <4>1. CASE latest = -1 BY <2>1, <4>1 DEF MarkOf
      <4>2. CASE \E l \in 1..pos : latest = Ts(l) BY <2>1, <4>2 DEF MarkOf
      <4>. QED BY <1>2, <4>1, <4>2
    <3>. QED BY <1>1, <2>1, <3>1, <3>2
  <2>2. CASE /\ pos = Len(TimeWindows!stream) /\ windows # {}
             /\ mark' = TimeWindows!Max({w.end : w \in windows})
    <3>. DEFINE S == {w.end : w \in windows}
                f == [w \in windows |-> w.end]
    <3>1. \A x \in S : x \in Int /\ x > mark
      <4>. SUFFICES ASSUME NEW w \in windows PROVE w.end \in Int /\ w.end > mark OBVIOUS
      <4>1. WindowOfFirst(w, pos) /\ w.end > mark BY <1>3
      <4>. QED BY <1>1, <4>1, WindowBounds
    <3>2. f \in Surjection(windows, S) BY DEF Surjection
    <3>3. S # {} BY <2>2
    <3>4. mark' = TimeWindows!Max(S) BY <2>2
    <3>. HIDE DEF S, f
    <3>5. IsFiniteSet(S) BY <1>3, <3>2, FS_Surjection
    <3>6. PICK x \in S : \A y \in S : x >= y BY <3>1, <3>3, <3>5, Extremes
    <3>7. \A y \in S : y \in Int /\ y =< x BY <3>1, <3>6
    <3>8. mark' = x BY <3>4, <3>7, GreatestIs
    <3>9. MarkOf(mark', pos) BY <2>2 DEF MarkOf
    <3>. QED BY <1>1, <3>1, <3>8, <3>9
  <2>. QED BY <1>4, <2>1, <2>2
<1>6. PICK m : m = mark' OBVIOUS
<1>7. m \in Int /\ mark =< m /\ MarkOf(m, pos) /\ TimeWindows!Fire(m) BY <1>4, <1>5, <1>6
<1>8. /\ IsFiniteSet(windows')
      /\ \A w : w \in windows' <=> WindowOfFirst(w, pos) /\ w.end > m
      /\ out' \in Seq(TimeWindows!Expected) /\ Distinct(out')
      /\ \A i \in 1..Len(out') : out'[i].end \in Int /\ out'[i].end =< m
      /\ Len(out') >= Len(out) /\ \A i \in 1..Len(out) : out'[i] = out[i]
      /\ \A w \in windows : w.end =< m => TimeWindows!Result(w) \in Held(out')
  BY <1>7, FireAdds
<1>9. PICK p : p = pos OBVIOUS
<1>10. /\ Sliding' = Sliding /\ TimedElements' = TimedElements /\ Untied' = Untied
       /\ Size' = Size /\ TimeWindows!stream' = TimeWindows!stream
       /\ \A i : Ts(i)' = Ts(i)
       /\ MarkOf(mark, pos)' <=> MarkOf(m, p)
       /\ \A w : WindowOfFirst(w, pos)' <=> WindowOfFirst(w, p)
       /\ \A w : SessionOf(w, pos)' <=> SessionOf(w, p)
       /\ \A w : TimeWindows!Result(w)' = TimeWindows!Result(w)
  BY <1>4, <1>6, <1>9, SameProgram
<1>11. WindowTyped' BY <1>1, <1>4, <1>5, <1>10 DEF WindowTyped, Size
<1>12. MarkRead' BY <1>2, <1>4, <1>7, <1>9, <1>10 DEF MarkRead
<1>13. OpenWindows' BY <1>3, <1>4, <1>6, <1>8, <1>9, <1>10 DEF OpenWindows
<1>14. ResultsPassed'
  <2>1. TimeWindows!Expected' = TimeWindows!Expected BY <1>4, SameExpected
  <2>. QED BY <1>6, <1>8, <2>1 DEF ResultsPassed, Distinct
<1>15. \A w : WindowOfFirst(w, pos) /\ w.end =< m => TimeWindows!Result(w) \in Held(out')
  <2>. SUFFICES ASSUME NEW w, WindowOfFirst(w, pos), w.end =< m
                PROVE  TimeWindows!Result(w) \in Held(out')
    OBVIOUS
  <2>1. w.end \in Int BY <1>1, WindowBounds
  <2>2. CASE w.end =< mark
    <3>1. TimeWindows!Result(w) \in Held(out) BY <2>2 DEF WindowInv, PassedReported
    <3>2. PICK i \in 1..Len(out) : TimeWindows!Result(w) = out[i] BY <3>1 DEF Held
    <3>3. i \in 1..Len(out') /\ out'[i] = out[i]
      <4>1. Len(out) \in Nat /\ Len(out') \in Nat
        <5>. DEFINE R == TimeWindows!Expected
        <5>1. out \in Seq(R) /\ out' \in Seq(R) BY <1>8 DEF WindowInv, ResultsPassed
        <5>. HIDE DEF R
        <5>. QED BY <5>1
      <4>. QED BY <1>8, <4>1
    <3>. QED BY <3>2, <3>3 DEF Held
  <2>3. CASE w.end > mark
    <3>1. w \in windows BY <1>3, <2>3
    <3>. QED BY <1>8, <3>1
  <2>. QED BY <1>1, <2>1, <2>2, <2>3
<1>16. PassedReported' BY <1>4, <1>6, <1>9, <1>10, <1>15 DEF PassedReported, Held
<1>. QED BY <1>4, <1>8, <1>11, <1>12, <1>13, <1>14, <1>16 DEF WindowInv

WindowVars == <<job, pos, latest, mark, windows, out>>

(* A step of the program is one of the operator, or changes none of it. *)
LEMMA WindowStepIs ==
  ASSUME which = "windows", [Next]_vars
  PROVE  /\ which' = "windows"
         /\ \/ TimeWindows!Read \/ TimeWindows!Watermark \/ TimeWindows!Finish
            \/ UNCHANGED WindowVars
<1>1. CASE Next
  <2>1. NextWindows
    BY <1>1 DEF Next, NextCount, NextOver, Advance, Expire, InSum, ReadLeft, ReadRight, InJoin
  <2>. QED BY <2>1 DEF NextWindows, TimeWindows!Next
<1>2. CASE UNCHANGED vars BY <1>2 DEF vars, windowVars, WindowVars
<1>. QED BY <1>1, <1>2

(* A step that changes nothing. *)
LEMMA WindowStutters ==
  ASSUME WindowInv, UNCHANGED WindowVars
  PROVE  WindowInv' /\ job' = job /\ out' = out
<1>1. /\ job' = job /\ pos' = pos /\ latest' = latest /\ mark' = mark
      /\ windows' = windows /\ out' = out
  BY DEF WindowVars
<1>2. PICK n : n = pos OBVIOUS
<1>3. PICK m : m = mark OBVIOUS
<1>4. /\ Sliding' = Sliding /\ TimedElements' = TimedElements /\ Untied' = Untied
      /\ Size' = Size /\ TimeWindows!stream' = TimeWindows!stream
      /\ \A i : Ts(i)' = Ts(i)
      /\ MarkOf(mark, pos)' <=> MarkOf(m, n)
      /\ \A w : WindowOfFirst(w, pos)' <=> WindowOfFirst(w, n)
      /\ \A w : SessionOf(w, pos)' <=> SessionOf(w, n)
      /\ \A w : TimeWindows!Result(w)' = TimeWindows!Result(w)
  BY <1>1, <1>2, <1>3, SameProgram
<1>5. WindowTyped' BY <1>1, <1>4 DEF WindowInv, WindowTyped, Size
<1>6. MarkRead' BY <1>1, <1>2, <1>3, <1>4 DEF WindowInv, MarkRead
<1>7. OpenWindows' BY <1>1, <1>2, <1>3, <1>4 DEF WindowInv, OpenWindows
<1>8. ResultsPassed'
  <2>1. TimeWindows!Expected' = TimeWindows!Expected BY <1>1, SameExpected
  <2>2. ResultsPassed BY DEF WindowInv
  <2>. QED BY <1>1, <2>1, <2>2 DEF ResultsPassed, Distinct
<1>9. PassedReported' BY <1>1, <1>2, <1>3, <1>4 DEF WindowInv, PassedReported, Held
<1>. QED BY <1>1, <1>5, <1>6, <1>7, <1>8, <1>9 DEF WindowInv

(* What a step of the windows changes. *)
LEMMA WindowSteps ==
  ASSUME which = "windows", WindowInv, [Next]_vars
  PROVE  /\ WindowInv' /\ which' = "windows" /\ job' = job
         /\ Len(out') >= Len(out) /\ \A i \in 1..Len(out) : out'[i] = out[i]
<1>1. /\ which' = "windows"
      /\ \/ TimeWindows!Read \/ TimeWindows!Watermark \/ TimeWindows!Finish
         \/ UNCHANGED WindowVars
  BY WindowStepIs
<1>2. Len(out) \in Nat
  <2>. DEFINE R == TimeWindows!Expected
  <2>1. out \in Seq(R) BY DEF WindowInv, ResultsPassed
  <2>. HIDE DEF R
  <2>. QED BY <2>1
<1>3. CASE TimeWindows!Read BY <1>1, <1>2, <1>3, WindowReads
<1>4. CASE TimeWindows!Watermark \/ TimeWindows!Finish BY <1>1, <1>4, WindowFires
<1>5. CASE UNCHANGED WindowVars BY <1>1, <1>2, <1>5, WindowStutters
<1>. QED BY <1>1, <1>3, <1>4, <1>5

(* At every moment the open windows are exactly those of the elements read *)
(* that the watermark has not passed, each with all its elements so far,   *)
(* and the results are those of the windows that it has passed, complete   *)
(* and each once: wherever the watermarks come and however sessions merge. *)
THEOREM WindowInvariance == Spec => [](which = "windows" => WindowInv)
<1>. DEFINE Inv == which = "windows" => WindowInv
<1>1. Init => Inv BY WindowInit DEF Init
<1>2. Inv /\ [Next]_vars => Inv'
  <2>. SUFFICES ASSUME Inv, [Next]_vars, which' = "windows" PROVE WindowInv' OBVIOUS
  <2>1. which = "windows"
    BY DEF Next, vars, NextWindows, NextCount, NextOver, Advance, Expire, InSum,
           ReadLeft, ReadRight, InJoin
  <2>. QED BY <2>1, WindowSteps
<1>. QED BY <1>1, <1>2, PTL DEF Spec

(* A step of the windows is one of WindowResults. *)
LEMMA WindowEmits ==
  ASSUME which = "windows", WindowInv, [Next]_vars
  PROVE  [Results!Emit]_(Results!vars)
<1>1. /\ WindowInv' /\ which' = "windows" /\ job' = job
      /\ Len(out') >= Len(out) /\ \A i \in 1..Len(out) : out'[i] = out[i]
  BY WindowSteps
<1>2. /\ Results!vars = <<TimeWindows!Expected, out>>
      /\ Results!vars' = <<TimeWindows!Expected', out'>>
  BY <1>1 DEF Results!vars
<1>3. TimeWindows!Expected' = TimeWindows!Expected BY <1>1, SameExpected
<1>. DEFINE R == TimeWindows!Expected
<1>4. out \in Seq(R) BY DEF WindowInv, ResultsPassed
<1>5. out' \in Seq(R) /\ Distinct(out') BY <1>1, <1>3 DEF WindowInv, ResultsPassed
<1>. HIDE DEF R, WindowInv
<1>6. /\ Len(out) \in Nat /\ Len(out') \in Nat /\ DOMAIN out' = 1..Len(out')
      /\ \A m \in DOMAIN out' : out'[m] \in R
  BY <1>4, <1>5
<1>7. CASE Len(out') = Len(out)
  <2>1. \A i \in 1..Len(out) : out[i] = out'[i] BY <1>1
  <2>2. out = out' BY <1>4, <1>5, <1>7, <2>1, SameElements
  <2>. QED BY <1>2, <1>3, <2>2
<1>8. CASE Len(out') > Len(out)
  <2>1. SubSeq(out', 1, Len(out)) = out BY <1>1, <1>4, <1>5, <1>8
  <2>2. \A i, j \in DOMAIN out' : out'[i] = out'[j] => i = j BY <1>5, <1>6 DEF Distinct
  <2>. QED BY <1>1, <1>3, <1>6, <1>8, <2>1, <2>2 DEF Results!Emit, R
<1>. QED BY <1>1, <1>6, <1>7, <1>8

(* The time windows implement what is safety in WindowResults: every       *)
(* window of the whole input yields at most one result, over all of its    *)
(* elements, wherever the watermarks come.                                 *)
THEOREM WindowsImplement ==
  Spec => (which = "windows" => Results!Init /\ [][Results!Emit]_(Results!vars))
<1>1. Init /\ which = "windows" => Results!Init
  BY DEF Init, TimeWindows!Init, Results!Init
<1>2. which = "windows" /\ [Next]_vars => (which = "windows")' BY WindowStepIs
<1>3. which = "windows" /\ WindowInv /\ [Next]_vars => [Results!Emit]_(Results!vars)
  BY WindowEmits
<1>. QED BY <1>1, <1>2, <1>3, WindowInvariance, PTL DEF Spec

(* What of ImplementsResults is safety, for every program at once; the     *)
(* count windows and the keyed sums promise nothing of the kind.           *)
THEOREM ResultsImplemented == Spec => Results!Init /\ [][Results!Emit]_(Results!vars)
<1>. DEFINE Inv == /\ which = "windows" => WindowInv
                   /\ which = "over" => OverInv
                   /\ which = "join" => JoinInv
<1>1. Init => Results!Init
  BY DEF Init, TimeWindows!Init, OverWindow!Init, StreamingJoin!Init, Results!Init
<1>2. ASSUME Inv, [Next]_vars PROVE [Results!Emit]_(Results!vars)
  <2>1. CASE which = "windows" BY <1>2, <2>1, WindowEmits
  <2>2. CASE which = "over" BY <1>2, <2>2, OverEmits
  <2>3. CASE which = "join" BY <1>2, <2>3, JoinEmits
  <2>4. CASE which \notin {"windows", "over", "join"}
    <3>1. which' = which
      BY <1>2 DEF Next, vars, NextWindows, NextCount, NextOver, Advance, Expire, InSum,
                  ReadLeft, ReadRight, InJoin
    <3>. QED BY <2>4, <3>1 DEF Results!vars
  <2>. QED BY <2>1, <2>2, <2>3, <2>4
<1>3. Spec => []Inv BY WindowInvariance, OverInvariance, JoinInvariance, PTL
<1>. QED BY <1>1, <1>2, <1>3, PTL DEF Spec


-------------------------------------------------------------------------------
(* Complete in the end *)

(* Every expected window is one of the elements, once all are read. *)
LEMMA ExpectedWhole ==
  ASSUME WindowTyped, OpenWindows, pos = Len(TimeWindows!stream),
         NEW w \in TimeWindows!ExpectedWindows
  PROVE  WindowOfFirst(w, pos)
<1>. DEFINE q == Len(TimeWindows!stream)
<1>1. /\ TimedElements /\ q \in 0..q /\ pos = q /\ DOMAIN TimeWindows!stream = 1..q
  BY DEF WindowTyped, TimedElements, Numbered
<1>2. \A k : TimeWindows!Elements(k) = Of(k, q)
  BY <1>1 DEF TimeWindows!Elements, Of, Places
<1>. HIDE DEF q
<1>3. CASE Sliding
  <2>. DEFINE window(y, x) ==
                [key |-> y, start |-> x, end |-> x + TimeWindows!program.size,
                 members |-> {l \in TimeWindows!Elements(y) :
                                /\ x =< TimeWindows!stream[l].ts
                                /\ TimeWindows!stream[l].ts < x + TimeWindows!program.size}]
              starts(y) == UNION {TimeWindows!Starts(TimeWindows!stream[l].ts,
                                                     TimeWindows!program.size,
                                                     TimeWindows!program.step) :
                                    l \in TimeWindows!Elements(y)}
  <2>1. TimeWindows!ExpectedWindows
          = UNION {{window(y, x) : x \in starts(y)} : y \in TimeWindows!Keys}
    BY <1>3 DEF TimeWindows!ExpectedWindows, Sliding
  <2>. HIDE DEF window, starts
  <2>0. PICK k \in TimeWindows!Keys : \E x \in starts(k) : w = window(k, x) BY <2>1
  <2>2. PICK s \in starts(k) : w = window(k, s) BY <2>0
  <2>3. PICK l \in TimeWindows!Elements(k) :
          s \in TimeWindows!Starts(TimeWindows!stream[l].ts, TimeWindows!program.size,
                                   TimeWindows!program.step)
    BY <2>2 DEF starts
  <2>4. l \in 1..q /\ At(l).key = k BY <1>2, <2>3 DEF Of, Places, At
  <2>5. /\ w.key = k /\ w.start = s
        /\ w = [key |-> k, start |-> s, end |-> s + TimeWindows!program.size,
                members |-> {i \in Of(k, q) : s =< Ts(i) /\ Ts(i) < s + TimeWindows!program.size}]
    BY <1>2, <2>2 DEF window, Ts, At
  <2>6. SlideOf(w, q) BY <2>3, <2>4, <2>5 DEF SlideOf, Ts, At
  <2>. QED BY <1>1, <1>3, <2>6 DEF WindowOfFirst
<1>4. CASE ~Sliding
  <2>0. PICK k \in TimeWindows!Keys : \E x \in TimeWindows!Elements(k) : w = SessionWith(k, x)
    BY <1>4, ExpectedSessions
  <2>1. PICK i \in TimeWindows!Elements(k) : w = SessionWith(k, i) BY <2>0
  <2>2. i \in 1..q /\ At(i).key = k BY <1>2, <2>1 DEF Of, Places, At
  <2>3. PICK v : SessionOf(v, q) /\ i \in v.members BY <1>1, <1>4, <2>2 DEF OpenWindows
  <2>4. Untied BY <1>4 DEF WindowTyped
  <2>5. v = SessionWith(v.key, i) /\ i \in TimeWindows!Elements(v.key)
    BY <1>1, <2>3, <2>4, SessionIs DEF q
  <2>6. v.key = k BY <1>2, <2>2, <2>5 DEF Of, Places, At
  <2>7. v = w BY <2>1, <2>5, <2>6
  <2>. QED BY <1>1, <1>4, <2>3, <2>7 DEF WindowOfFirst
<1>. QED BY <1>3, <1>4

(* The time windows are complete when nothing waits any more. *)
LEMMA WindowsComplete ==
  ASSUME WindowInv, pos = Len(TimeWindows!stream), windows = {}
  PROVE  Held(out) = TimeWindows!Expected
<1>1. WindowTyped /\ OpenWindows /\ ResultsPassed /\ PassedReported /\ mark \in Int
  BY DEF WindowInv, WindowTyped
<1>2. pos \in 0..Len(TimeWindows!stream) BY <1>1 DEF WindowTyped
<1>3. \A e \in Held(out) : e \in TimeWindows!Expected
  <2>. DEFINE R == TimeWindows!Expected
  <2>1. out \in Seq(R) BY <1>1 DEF ResultsPassed
  <2>. HIDE DEF R
  <2>. QED BY <2>1 DEF Held, R
<1>4. ASSUME NEW w \in TimeWindows!ExpectedWindows PROVE TimeWindows!Result(w) \in Held(out)
  <2>1. WindowOfFirst(w, pos) BY <1>1, ExpectedWhole
  <2>2. w.end \in Int BY <1>1, <1>2, <2>1, WindowBounds
  <2>3. ~ (w.end > mark) BY <1>1, <2>1 DEF OpenWindows
  <2>. QED BY <1>1, <2>1, <2>2, <2>3 DEF PassedReported
<1>5. \A e \in TimeWindows!Expected : e \in Held(out) BY <1>4 DEF TimeWindows!Expected
<1>. QED BY <1>3, <1>5

(* So is the join when both sources have been read. *)
LEMMA JoinComplete ==
  ASSUME JoinInv, leftPos = Len(left), rightPos = Len(right)
  PROVE  Held(out) = StreamingJoin!Expected
BY DEF JoinInv, JoinTyped, JoinedOnce, Matching, Numbered, StreamingJoin!Expected

(* Every row taken has its result. *)
TakenReported == \A i \in Taken : \E m \in 1..Len(out) : out[m].row = i

(* Taking a row reports it, and no other step takes one. *)
LEMMA TakenSteps ==
  ASSUME OverInv, TakenReported, which = "over", [Next]_vars
  PROVE  TakenReported'
<1>1. which' = "over" /\ (OverWindow!Next \/ UNCHANGED <<stream, pos, mark, overVars, out>>)
  BY OverStepIs
<1>2. /\ OverTyped /\ pos \in Nat /\ buffered \subseteq 1..pos /\ Len(out) \in Nat
  <2>. DEFINE R == OverWindow!Expected
  <2>1. out \in Seq(R) BY DEF OverInv, OverOut
  <2>. HIDE DEF R
  <2>2. Len(out) \in Nat BY <2>1
  <2>. QED BY <2>2 DEF OverInv, OverTyped, InTime, Numbered
<1>3. CASE UNCHANGED <<stream, pos, mark, overVars, out>>
  BY <1>3 DEF TakenReported, Taken, overVars
<1>4. CASE OverWindow!Watermark BY <1>4 DEF TakenReported, Taken, OverWindow!Watermark
<1>5. CASE OverWindow!Read BY <1>5, OverRead DEF TakenReported
<1>6. CASE OverWindow!Take
  <2>1. PICK i \in OverWindow!Due :
          /\ \E x : out' = Append(out, [row |-> i, value |-> x])
          /\ buffered' = buffered \ {i} /\ pos' = pos
    BY <1>6 DEF OverWindow!Take
  <2>2. PICK x : out' = Append(out, [row |-> i, value |-> x]) BY <2>1
  <2>. DEFINE e == [row |-> i, value |-> x]
              R == OverWindow!Expected \cup {e}
  <2>3. out \in Seq(R)
    <3>. DEFINE Q == OverWindow!Expected
    <3>1. out \in Seq(Q) BY DEF OverInv, OverOut
    <3>. HIDE DEF Q, e
    <3>. QED BY <3>1 DEF Q
  <2>4. e \in R /\ e.row = i /\ out' = Append(out, e) BY <2>2
  <2>. HIDE DEF R, e
  <2>5. /\ Len(out') = Len(out) + 1 /\ out'[Len(out) + 1] = e
        /\ \A m \in 1..Len(out) : out'[m] = out[m] /\ m \in 1..Len(out')
        /\ Len(out) + 1 \in 1..Len(out')
    BY <1>2, <2>3, <2>4
  <2>6. \A j \in Taken' : j = i \/ j \in Taken BY <2>1 DEF Taken
  <2>7. ASSUME NEW j \in Taken' PROVE \E m \in 1..Len(out') : out'[m].row = j
    <3>1. CASE j = i BY <2>4, <2>5, <3>1
    <3>2. CASE j \in Taken
      <4>1. PICK m \in 1..Len(out) : out[m].row = j BY <3>2 DEF TakenReported
      <4>. QED BY <2>5, <4>1
    <3>. QED BY <2>6, <3>1, <3>2
  <2>. QED BY <2>7 DEF TakenReported
<1>. QED BY <1>1, <1>3, <1>4, <1>5, <1>6 DEF OverWindow!Next

(* The OVER windows are complete when no row is left or waits. *)
LEMMA OverComplete ==
  ASSUME OverInv, TakenReported, pos = Len(stream), buffered = {}
  PROVE  Held(out) = OverWindow!Expected
<1>. DEFINE V(i) == OverWindow!Max({stream[j].price : j \in OverWindow!Preceded(i)})
            R == {[row |-> i, value |-> V(i)] : i \in DOMAIN stream}
<1>1. OverWindow!Expected = R BY DEF OverWindow!Expected
<1>2. DOMAIN stream = 1..pos BY DEF OverInv, OverTyped, InTime, Numbered
<1>3. out \in Seq(R) BY <1>1 DEF OverInv, OverOut
<1>4. Taken = 1..pos BY DEF Taken
<1>. HIDE DEF V
<1>5. ASSUME NEW i \in DOMAIN stream PROVE [row |-> i, value |-> V(i)] \in Held(out)
  <2>1. PICK m \in 1..Len(out) : out[m].row = i BY <1>2, <1>4 DEF TakenReported
  <2>2. out[m] \in R
    <3>. HIDE DEF R
    <3>. QED BY <1>3
  <2>3. PICK l \in DOMAIN stream : out[m] = [row |-> l, value |-> V(l)] BY <2>2
  <2>4. l = i BY <2>1, <2>3
  <2>. QED BY <2>3, <2>4 DEF Held
<1>6. \A e \in Held(out) : e \in R
  <2>. HIDE DEF R
  <2>. QED BY <1>3 DEF Held
<1>. QED BY <1>1, <1>5, <1>6

(* Each row that an OVER window takes gets its result, for any input in    *)
(* time and any watermarks.                                                *)
THEOREM OverReports == Spec => [](which = "over" => TakenReported)
<1>. DEFINE Inv == which = "over" => OverInv /\ TakenReported
<1>1. Init => Inv
  <2>. SUFFICES ASSUME Init, which = "over" PROVE OverInv /\ TakenReported OBVIOUS
  <2>1. OverWindow!Init BY DEF Init
  <2>2. Taken = {} BY <2>1 DEF OverWindow!Init, Taken
  <2>. QED BY <2>1, <2>2, OverInit DEF TakenReported
<1>2. Inv /\ [Next]_vars => Inv'
  <2>. SUFFICES ASSUME Inv, [Next]_vars, which' = "over" PROVE OverInv' /\ TakenReported' OBVIOUS
  <2>1. which = "over"
    BY DEF Next, vars, NextWindows, NextCount, NextOver, Advance, Expire, InSum,
           ReadLeft, ReadRight, InJoin
  <2>. QED BY <2>1, OverSteps, TakenSteps
<1>. QED BY <1>1, <1>2, PTL DEF Spec

(* A program has read all of its input, and nothing in it waits. *)
AtRest ==
  \/ which = "windows" /\ pos = Len(TimeWindows!stream) /\ windows = {}
  \/ which = "over" /\ pos = Len(stream) /\ buffered = {}
  \/ which = "join" /\ leftPos = Len(left) /\ rightPos = Len(right)

(* A program at rest has emitted every result that its input calls for:    *)
(* what WindowResults promises for the end holds whenever the end comes,   *)
(* and only that it comes is left to fairness.                             *)
THEOREM CompleteAtRest == Spec => [](AtRest => Results!Complete)
<1>. DEFINE Inv == /\ which = "windows" => WindowInv
                   /\ which = "over" => OverInv /\ TakenReported
                   /\ which = "join" => JoinInv
<1>1. Spec => []Inv BY WindowInvariance, OverInvariance, OverReports, JoinInvariance, PTL
<1>2. ASSUME Inv, AtRest PROVE Results!Complete
  <2>1. CASE which = "windows"
    <3>1. WindowInv /\ pos = Len(TimeWindows!stream) /\ windows = {} BY <1>2, <2>1 DEF AtRest
    <3>2. Held(out) = TimeWindows!Expected BY <3>1, WindowsComplete
    <3>3. DOMAIN out = 1..Len(out)
      <4>. DEFINE R == TimeWindows!Expected
      <4>1. out \in Seq(R) BY <3>1 DEF WindowInv, ResultsPassed
      <4>. HIDE DEF R
      <4>. QED BY <4>1
    <3>. QED BY <2>1, <3>2, <3>3 DEF Results!Complete, Results!Emitted, Held
  <2>2. CASE which = "over"
    <3>1. OverInv /\ TakenReported /\ pos = Len(stream) /\ buffered = {}
      BY <1>2, <2>2 DEF AtRest
    <3>2. Held(out) = OverWindow!Expected BY <3>1, OverComplete
    <3>3. DOMAIN out = 1..Len(out)
      <4>. DEFINE R == OverWindow!Expected
      <4>1. out \in Seq(R) BY <3>1 DEF OverInv, OverOut
      <4>. HIDE DEF R
      <4>. QED BY <4>1
    <3>. QED BY <2>2, <3>2, <3>3 DEF Results!Complete, Results!Emitted, Held
  <2>3. CASE which = "join"
    <3>1. JoinInv /\ leftPos = Len(left) /\ rightPos = Len(right) BY <1>2, <2>3 DEF AtRest
    <3>2. Held(out) = StreamingJoin!Expected BY <3>1, JoinComplete
    <3>3. DOMAIN out = 1..Len(out) BY <3>1 DEF JoinInv, JoinTyped
    <3>. QED BY <2>3, <3>2, <3>3 DEF Results!Complete, Results!Emitted, Held
  <2>. QED BY <1>2, <2>1, <2>2, <2>3 DEF AtRest
<1>. QED BY <1>1, <1>2, PTL

===============================================================================
