---------------------------- MODULE GeneratorProofs ----------------------------
(***************************************************************************)
(* IInv is an inductive invariant of Generator, for any ids, batches,      *)
(* bursts, items and list lengths, and what follows from it.               *)
(***************************************************************************)
EXTENDS Generator, FiniteSetTheorems, TLAPS

-------------------------------------------------------------------------------
(* The inductive invariant *)

(* The id of an open transaction is not committed, the id that is being    *)
(* listed is, and no two writers work on the same one.                     *)
IdInv ==
  /\ \A w \in Writers :
       /\ at[w] = "items" => txn[w].id \in OrderId \ orders
       /\ at[w] \in Listing => txn[w].id \in orders
  /\ \A v, w \in Writers :
       v # w /\ at[v] \in {"items"} \cup Listing /\ at[w] \in {"items"} \cup Listing =>
         txn[v].id # txn[w].id

(* A run that goes on has orders left to generate. *)
LeftInv == \A w \in Writers : at[w] # "idle" => left[w] > 0

(* Orders that are committed and not yet in the length of the list. *)
Pending == {txn[w].id : w \in {v \in Writers : at[v] \in {"add", "put", "length"}}}

(* The list, and each length a writer works with, is no longer than there  *)
(* are orders to list.                                                     *)
LengthInv ==
  /\ size =< Cardinality(orders \ Pending)
  /\ \A w \in Writers :
       at[w] \in {"put", "length", "trim"} => slot[w] =< Cardinality(orders \ Pending)

(* Between commit and success, an order is in made and not in success. *)
CountInv ==
  \A w \in Writers :
    /\ success[w] =< made[w] /\ made[w] =< Cardinality(orders)
    /\ at[w] \in Listing => success[w] < made[w]

(* A customer or product is cached only after its insert. *)
CacheInv ==
  \A k \in Kinds :
    cached[k] \subseteq parents[k] /\ adding[k] \in parents[k] \cup {Null}

ListInv == {es[i] : i \in Indices} \cup {picked} \subseteq orders \cup {Null}

IInv ==
  TypeOK /\ IdInv /\ LeftInv /\ LengthInv /\ CountInv /\ CacheInv /\ ListInv /\ OrdersWhole

-------------------------------------------------------------------------------
USE IdAssumption, SizeAssumption

(* There are finitely many orders. *)
LEMMA OrdersFinite ==
  ASSUME TypeOK
  PROVE  /\ IsFiniteSet(orders) /\ Cardinality(orders) \in Nat
         /\ Cardinality(orders \ Pending) \in Nat
         /\ Cardinality(orders \ Pending) =< Cardinality(orders)
         /\ Cardinality(orders) =< Cardinality(OrderId)
         /\ Cardinality(OrderId) \in Nat
<1>1. orders \subseteq OrderId
  BY DEF TypeOK
<1>2. IsFiniteSet(orders) /\ Cardinality(orders) =< Cardinality(OrderId)
  BY <1>1, FS_Subset
<1>3. IsFiniteSet(orders \ Pending) /\ Cardinality(orders \ Pending) =< Cardinality(orders)
  BY <1>2, FS_Subset
<1> QED
  BY <1>2, <1>3, FS_CardinalityType

(* While an order waits to be listed there is room for one more. *)
LEMMA RoomLeft ==
  ASSUME TypeOK, IdInv, NEW w \in Writers, at[w] \in {"add", "put", "length"}
  PROVE  Cardinality(orders \ Pending) + 1 =< Cardinality(orders)
<1>1. txn[w].id \in orders /\ txn[w].id \in Pending
  BY DEF IdInv, Listing, Pending
<1>2. orders \ Pending \subseteq orders \ {txn[w].id}
  BY <1>1
<1>3. /\ IsFiniteSet(orders \ {txn[w].id})
      /\ Cardinality(orders \ {txn[w].id}) = Cardinality(orders) - 1
  BY <1>1, OrdersFinite, FS_RemoveElement
<1>4. Cardinality(orders \ Pending) =< Cardinality(orders \ {txn[w].id})
  BY <1>2, <1>3, FS_Subset
<1> QED
  BY <1>3, <1>4, OrdersFinite

-------------------------------------------------------------------------------
(* The types *)

(* The initial state is well typed. *)
LEMMA TypeInit == Init => TypeOK
<1>1. SUFFICES ASSUME Init PROVE TypeOK
  OBVIOUS
<1>2. \A k \in Kinds : Existing[k] \subseteq Ids /\ Fresh[k] \subseteq Ids
  BY DEF Ids
<1>3. /\ parents \in [Kinds -> SUBSET Ids] /\ cached \in [Kinds -> SUBSET Ids]
      /\ adding \in [Kinds -> Ids \cup {Null}]
  BY <1>1, <1>2 DEF Init
<1>4. Cardinality(OrderId) \in Nat
  BY FS_CardinalityType
<1>5. es \in [Indices -> OrderId \cup {Null}] /\ size \in Indices /\ slot \in [Tasks -> Indices]
  BY <1>1, <1>4 DEF Init, Indices
<1>6. txn \in [Writers -> [id : OrderId \cup {Null}, items : 0..MaxItems]]
  BY <1>1 DEF Init, NoTxn
<1> QED
  BY <1>1, <1>3, <1>5, <1>6 DEF Init, TypeOK, Tasks, Writers

(* What an exception leaves behind is well typed. *)
LEMMA FailType ==
  ASSUME TypeOK, LeftInv, NEW w \in Writers, at[w] # "idle", Fail(w)
  PROVE  /\ at' \in [Tasks -> {"idle", "order", "items", "pick", "insert"} \cup Listing]
         /\ at'["review"] = at["review"]
         /\ \A v \in Writers : at'[v] \notin {"pick", "insert"}
         /\ left' \in [Writers -> Nat]
         /\ txn' \in [Writers -> [id : OrderId \cup {Null}, items : 0..MaxItems]]
         /\ UNCHANGED <<parents, orders, items, payments, reviews, success>>
<1>1. left[w] \in Nat /\ left[w] > 0
  BY DEF TypeOK, LeftInv
<1>2. left' \in [Writers -> Nat]
  BY <1>1 DEF TypeOK, Fail
<1>3. NoTxn \in [id : OrderId \cup {Null}, items : 0..MaxItems]
  BY DEF NoTxn
<1>4. txn' \in [Writers -> [id : OrderId \cup {Null}, items : 0..MaxItems]]
  BY <1>3 DEF TypeOK, Fail
<1> QED
  BY <1>2, <1>4 DEF TypeOK, Fail, Goto, Tasks, Writers

(* The end of an order leaves well-typed runs and transactions. *)
LEMMA FinishType ==
  ASSUME TypeOK, LeftInv, NEW w \in Writers, at[w] # "idle", Finish(w)
  PROVE  /\ at' \in [Tasks -> {"idle", "order", "items", "pick", "insert"} \cup Listing]
         /\ at'["review"] = at["review"]
         /\ \A v \in Writers : at'[v] \notin {"pick", "insert"}
         /\ left' \in [Writers -> Nat]
         /\ txn' \in [Writers -> [id : OrderId \cup {Null}, items : 0..MaxItems]]
         /\ success' \in [Writers -> Nat]
<1>1. left[w] \in Nat /\ left[w] > 0
  BY DEF TypeOK, LeftInv
<1>2. left' \in [Writers -> Nat] /\ success' \in [Writers -> Nat]
  BY <1>1 DEF TypeOK, Finish
<1>3. NoTxn \in [id : OrderId \cup {Null}, items : 0..MaxItems]
  BY DEF NoTxn
<1>4. txn' \in [Writers -> [id : OrderId \cup {Null}, items : 0..MaxItems]]
  BY <1>3 DEF TypeOK, Finish
<1> QED
  BY <1>2, <1>4 DEF TypeOK, Finish, Goto, Tasks, Writers

(* Every step keeps the types.  That a length stays below the bound of the *)
(* array is RoomLeft: there is room while an order waits to be listed.     *)
LEMMA TypeStep ==
  ASSUME TypeOK, IdInv, LeftInv, LengthInv, [Next]_vars
  PROVE  TypeOK'
<1>. Cardinality(OrderId) \in Nat
  BY OrdersFinite
<1>1. CASE UNCHANGED vars
  BY <1>1 DEF TypeOK, vars, dbVars, listVars
<1>2. ASSUME NEW w \in Writers, Start(w) PROVE TypeOK'
  BY <1>2 DEF TypeOK, Start, Goto, Tasks, Writers, dbVars, listVars
<1>3. ASSUME NEW w \in Writers, InsertOrder(w) PROVE TypeOK'
  <2>1. PICK id \in OrderId, c \in RandomId("customer") :
          IF id \notin orders /\ Refers("customer", c)
            THEN /\ txn' = [txn EXCEPT ![w] = [id |-> id, items |-> 0]]
                 /\ Goto(w, "items")
                 /\ UNCHANGED <<dbVars, left, success>>
            ELSE Fail(w)
    BY <1>3 DEF InsertOrder
  <2>2. CASE ~(id \notin orders /\ Refers("customer", c))
    <3>1. at[w] # "idle" /\ Fail(w)
      BY <1>3, <2>1, <2>2 DEF InsertOrder
    <3>2. UNCHANGED <<cached, adding, listVars, slot, picked, made>>
      BY <1>3 DEF InsertOrder
    <3> QED
      BY <3>1, <3>2, FailType DEF TypeOK, listVars
  <2>3. CASE id \notin orders /\ Refers("customer", c)
    <3>1. [id |-> id, items |-> 0] \in [id : OrderId \cup {Null}, items : 0..MaxItems]
      OBVIOUS
    <3> QED
      BY <1>3, <2>1, <2>3, <3>1
      DEF TypeOK, InsertOrder, Goto, Tasks, Writers, dbVars, listVars
  <2> QED
    BY <2>2, <2>3
<1>4. ASSUME NEW w \in Writers, InsertItem(w) PROVE TypeOK'
  <2>1. CASE Fail(w)
    <3>1. at[w] # "idle" /\ UNCHANGED <<cached, adding, listVars, slot, picked, made>>
      BY <1>4 DEF InsertItem
    <3> QED
      BY <2>1, <3>1, FailType DEF TypeOK, listVars
  <2>2. CASE /\ txn' = [txn EXCEPT ![w].items = @ + 1]
             /\ UNCHANGED <<dbVars, at, left, success>>
    <3>1. txn[w].items + 1 \in 0..MaxItems
      BY <1>4 DEF TypeOK, InsertItem
    <3>2. txn' \in [Writers -> [id : OrderId \cup {Null}, items : 0..MaxItems]]
      BY <2>2, <3>1 DEF TypeOK
    <3> QED
      BY <1>4, <2>2, <3>2 DEF TypeOK, InsertItem, dbVars, listVars
  <2> QED
    BY <1>4, <2>1, <2>2 DEF InsertItem
<1>5. ASSUME NEW w \in Writers, Commit(w) PROVE TypeOK'
  <2>1. txn[w].id \in OrderId /\ txn[w].items \in 1..MaxItems
    BY <1>5 DEF TypeOK, IdInv, Commit
  <2>2. {txn[w].id} \X (1..txn[w].items) \subseteq OrderId \X (1..MaxItems)
    BY <2>1
  <2>3. /\ orders' \subseteq OrderId /\ payments' \subseteq OrderId
        /\ items' \subseteq OrderId \X (1..MaxItems) /\ made' \in [Writers -> Nat]
    BY <1>5, <2>1, <2>2 DEF TypeOK, Commit
  <2> QED
    BY <1>5, <2>3 DEF TypeOK, Commit, Goto, Listing, Tasks, Writers, listVars
<1>6. ASSUME NEW w \in Writers, ReadLength(w) PROVE TypeOK'
  BY <1>6 DEF TypeOK, ReadLength, Goto, Listing, Tasks, Writers, dbVars, listVars
<1>7. ASSUME NEW w \in Writers, Put(w) PROVE TypeOK'
  <2>1. CASE Fail(w) /\ UNCHANGED es
    <3>1. at[w] # "idle" /\ UNCHANGED <<cached, adding, size, slot, picked, made>>
      BY <1>7 DEF Put
    <3> QED
      BY <2>1, <3>1, FailType DEF TypeOK
  <2>2. CASE /\ es' \in {es, [es EXCEPT ![slot[w]] = txn[w].id]}
             /\ Goto(w, "length") /\ UNCHANGED <<dbVars, left, txn, success>>
    <3>1. es' \in [Indices -> OrderId \cup {Null}]
      BY <2>2 DEF TypeOK
    <3> QED
      BY <1>7, <2>2, <3>1 DEF TypeOK, Put, Goto, Listing, Tasks, Writers, dbVars
  <2> QED
    BY <1>7, <2>1, <2>2 DEF Put
<1>8. ASSUME NEW w \in Writers, WriteLength(w) PROVE TypeOK'
  <2>1. at[w] = "length" /\ size' = slot[w] + 1
    BY <1>8 DEF WriteLength
  <2>2. slot[w] \in Nat
    BY DEF TypeOK, Tasks, Indices
  <2>3. slot[w] =< Cardinality(orders \ Pending)
    BY <2>1 DEF LengthInv
  <2>4. Cardinality(orders \ Pending) + 1 =< Cardinality(orders)
    BY <2>1, RoomLeft
  <2>5. size' =< Cardinality(OrderId)
    BY <2>1, <2>2, <2>3, <2>4, OrdersFinite
  <2>6. size' \in Indices
    BY <2>1, <2>2, <2>5 DEF Indices
  <2> QED
    BY <1>8, <2>6 DEF TypeOK, WriteLength, Goto, Listing, Tasks, Writers, dbVars
<1>9. ASSUME NEW w \in Writers, Check(w) PROVE TypeOK'
  <2>1. CASE Finish(w) /\ UNCHANGED slot
    <3>1. at[w] # "idle" /\ UNCHANGED <<dbVars, cached, adding, listVars, picked, made>>
      BY <1>9 DEF Check
    <3> QED
      BY <2>1, <3>1, FinishType DEF TypeOK, dbVars, listVars
  <2>2. CASE /\ size > Limit /\ Goto(w, "trim")
             /\ slot' = [slot EXCEPT ![w] = size - 1]
             /\ UNCHANGED <<left, txn, success>>
    <3>1. Limit \in Nat
      BY SizeAssumption
    <3>2. size - 1 \in Indices
      BY <2>2, <3>1 DEF TypeOK, Indices
    <3>3. slot' \in [Tasks -> Indices]
      BY <2>2, <3>2 DEF TypeOK
    <3> QED
      BY <1>9, <2>2, <3>3 DEF TypeOK, Check, Goto, Listing, Tasks, Writers, dbVars, listVars
  <2> QED
    BY <1>9, <2>1, <2>2 DEF Check
<1>10. ASSUME NEW w \in Writers, Trim(w) PROVE TypeOK'
  <2>1. /\ at[w] # "idle" /\ Finish(w)
        /\ UNCHANGED <<dbVars, cached, adding, slot, picked, made>>
    BY <1>10 DEF Trim
  <2>2. slot[w] \in Indices /\ size' = slot[w]
    BY <1>10 DEF TypeOK, Trim, Tasks
  <2>3. \A i \in Indices : i < slot[w] => i + 1 \in Indices
    BY <2>2 DEF Indices
  <2>4. es' \in [Indices -> OrderId \cup {Null}]
    BY <1>10, <2>3 DEF TypeOK, Trim
  <2> QED
    BY <2>1, <2>2, <2>4, FinishType DEF TypeOK, dbVars
<1>11. ASSUME NEW k \in Kinds, InsertParent(k) PROVE TypeOK'
  <2>1. PICK id \in Fresh[k] \ parents[k] :
          /\ parents' = [parents EXCEPT ![k] = @ \cup {id}]
          /\ adding' = [adding EXCEPT ![k] = id]
    BY <1>11 DEF InsertParent
  <2>2. id \in Ids
    BY DEF Ids
  <2>3. parents' \in [Kinds -> SUBSET Ids] /\ adding' \in [Kinds -> Ids \cup {Null}]
    BY <2>1, <2>2 DEF TypeOK
  <2> QED
    BY <1>11, <2>3 DEF TypeOK, InsertParent, listVars
<1>12. ASSUME NEW k \in Kinds, CacheParent(k) PROVE TypeOK'
  <2>1. cached' \in [Kinds -> SUBSET Ids] /\ adding' \in [Kinds -> Ids \cup {Null}]
    BY <1>12 DEF TypeOK, CacheParent
  <2> QED
    BY <1>12, <2>1 DEF TypeOK, CacheParent, dbVars, listVars
<1>13. CASE Review
  <2>1. CASE PickReview
    BY <2>1 DEF TypeOK, PickReview, Goto, Tasks, Writers, dbVars, listVars
  <2>2. CASE GetOrder
    <3>1. \A i \in 0..(slot["review"] - 1) : i < size => i \in Indices
      BY DEF TypeOK, Indices, Tasks
    <3>2. picked' \in OrderId \cup {Null}
      BY <2>2, <3>1 DEF TypeOK, GetOrder
    <3> QED
      BY <2>2, <3>2 DEF TypeOK, GetOrder, Goto, Tasks, Writers, dbVars, listVars
  <2>3. CASE InsertReview
    BY <2>3 DEF TypeOK, InsertReview, Goto, Tasks, Writers, dbVars, listVars
  <2> QED
    BY <1>13, <2>1, <2>2, <2>3 DEF Review
<1> QED
  BY <1>1, <1>2, <1>3, <1>4, <1>5, <1>6, <1>7, <1>8, <1>9, <1>10, <1>11, <1>12, <1>13
  DEF Next, Write

-------------------------------------------------------------------------------
(* What a step changes *)

(* A writer's step leaves the other writer alone. *)
LEMMA OneWriter ==
  ASSUME TypeOK, NEW w \in Writers, Start(w) \/ Write(w), NEW v \in Writers \ {w}
  PROVE  /\ at'[v] = at[v] /\ txn'[v] = txn[v] /\ left'[v] = left[v] /\ slot'[v] = slot[v]
         /\ made'[v] = made[v] /\ success'[v] = success[v]
<1>. v \in Tasks /\ w \in Tasks
  BY DEF Tasks
<1>1. CASE Start(w)
  BY <1>1 DEF TypeOK, Start, Goto
<1>2. CASE InsertOrder(w) \/ InsertItem(w)
  BY <1>2 DEF TypeOK, InsertOrder, InsertItem, Fail, Goto, dbVars
<1>3. CASE Commit(w) \/ ReadLength(w) \/ WriteLength(w)
  BY <1>3 DEF TypeOK, Commit, ReadLength, WriteLength, Goto
<1>4. CASE Put(w)
  BY <1>4 DEF TypeOK, Put, Fail, Goto
<1>5. CASE Check(w) \/ Trim(w)
  BY <1>5 DEF TypeOK, Check, Trim, Finish, Goto
<1> QED
  BY <1>1, <1>2, <1>3, <1>4, <1>5 DEF Write

(* A step of another task leaves the writers alone. *)
LEMMA OtherTask ==
  ASSUME TypeOK, UNCHANGED vars \/ (\E k \in Kinds : InsertParent(k) \/ CacheParent(k)) \/ Review
  PROVE  /\ UNCHANGED <<orders, items, payments, left, txn, listVars, made, success>>
         /\ \A w \in Writers : at'[w] = at[w] /\ slot'[w] = slot[w]
<1>1. CASE UNCHANGED vars
  BY <1>1 DEF vars, dbVars
<1>2. ASSUME NEW k \in Kinds, InsertParent(k) \/ CacheParent(k)
      PROVE  UNCHANGED <<orders, items, payments, at, left, txn, listVars, slot, made, success>>
  BY <1>2 DEF InsertParent, CacheParent, dbVars
<1>3. CASE Review
  <2>. \A w \in Writers : w \in Tasks /\ w # "review"
    BY DEF Tasks, Writers
  <2> QED
    BY <1>3 DEF TypeOK, Review, PickReview, GetOrder, InsertReview, Goto, dbVars
<1> QED
  BY <1>1, <1>2, <1>3

(* Only a commit changes orders, items and payments. *)
LEMMA OnlyCommit ==
  ASSUME [Next]_vars, \A w \in Writers : ~Commit(w)
  PROVE  UNCHANGED <<orders, items, payments>>
<1>1. CASE UNCHANGED vars
  BY <1>1 DEF vars, dbVars
<1>2. ASSUME NEW w \in Writers, Start(w) \/ (Write(w) /\ ~Commit(w))
      PROVE  UNCHANGED <<orders, items, payments>>
  BY <1>2 DEF Start, Write, InsertOrder, InsertItem, ReadLength, Put, WriteLength, Check, Trim,
              Fail, dbVars
<1>3. ASSUME NEW k \in Kinds, InsertParent(k) \/ CacheParent(k)
      PROVE  UNCHANGED <<orders, items, payments>>
  BY <1>3 DEF InsertParent, CacheParent, dbVars
<1>4. CASE Review
  BY <1>4 DEF Review, PickReview, GetOrder, InsertReview, dbVars
<1> QED
  BY <1>1, <1>2, <1>3, <1>4 DEF Next

(* An order that ends, one way or the other, leaves its writer idle or     *)
(* before the next one.                                                    *)
LEMMA OrderEnds ==
  ASSUME TypeOK, LeftInv, NEW w \in Writers, at[w] # "idle", Fail(w) \/ Finish(w)
  PROVE  /\ at'[w] \in {"idle", "order"}
         /\ at'[w] # "idle" => left'[w] > 0
<1>. w \in Tasks
  BY DEF Tasks
<1>. left[w] \in Nat /\ left[w] > 0
  BY DEF TypeOK, LeftInv
<1> QED
  BY DEF TypeOK, Fail, Finish, Goto

-------------------------------------------------------------------------------
(* The steps keep each conjunct *)

(* A writer with no orders left is idle. *)
LEMMA LeftStep ==
  ASSUME TypeOK, LeftInv, [Next]_vars
  PROVE  LeftInv'
<1>1. ASSUME NEW w \in Writers, Start(w) \/ Write(w), NEW v \in Writers, at'[v] # "idle"
      PROVE  left'[v] > 0
  <2>. w \in Tasks
    BY DEF Tasks
  <2>1. CASE v # w
    BY <1>1, <2>1, OneWriter DEF LeftInv
  <2>2. CASE v = w /\ Start(w)
    BY <2>2, SizeAssumption DEF TypeOK, Start
  <2>3. CASE v = w /\ at[w] # "idle" /\ (Fail(w) \/ Finish(w))
    BY <1>1, <2>3, OrderEnds
  <2>4. CASE v = w /\ at[w] # "idle" /\ UNCHANGED left
    BY <2>4 DEF LeftInv
  <2> QED
    BY <1>1, <2>1, <2>2, <2>3, <2>4
    DEF Write, InsertOrder, InsertItem, Commit, ReadLength, Put, WriteLength, Check, Trim
<1>2. CASE UNCHANGED vars \/ (\E k \in Kinds : InsertParent(k) \/ CacheParent(k)) \/ Review
  BY <1>2, OtherTask DEF LeftInv
<1> QED
  BY <1>1, <1>2 DEF Next, LeftInv

(* A writer that has an id in hand has just drawn it, or goes on with it.  *)
LEMMA Working ==
  ASSUME TypeOK, LeftInv, NEW w \in Writers, Start(w) \/ Write(w),
         at'[w] \in {"items"} \cup Listing
  PROVE  \/ /\ at'[w] = "items" /\ txn'[w].id \in OrderId \ orders
            /\ \A v \in Writers \ {w} : at[v] = "items" => txn[v].id # txn'[w].id
            /\ orders' = orders
         \/ /\ at[w] = "items" /\ at'[w] = "items" /\ txn'[w].id = txn[w].id
            /\ orders' = orders
         \/ Commit(w) /\ at[w] = "items" /\ at'[w] = "add" /\ txn'[w] = txn[w]
         \/ /\ at[w] \in Listing /\ at'[w] \in Listing /\ txn'[w] = txn[w]
            /\ orders' = orders
<1>. w \in Tasks
  BY DEF Tasks
<1>1. CASE Start(w)
  BY <1>1 DEF TypeOK, Start, Goto, Listing
<1>2. CASE at[w] # "idle" /\ (Fail(w) \/ Finish(w))
  BY <1>2, OrderEnds DEF Listing
<1>3. CASE InsertOrder(w) /\ ~Fail(w)
  <2>1. PICK id \in OrderId :
          /\ \A v \in Writers \ {w} : at[v] = "items" => txn[v].id # id
          /\ id \notin orders
          /\ txn' = [txn EXCEPT ![w] = [id |-> id, items |-> 0]]
          /\ Goto(w, "items")
          /\ UNCHANGED <<dbVars, left, success>>
    BY <1>3 DEF InsertOrder
  <2>2. txn'[w].id = id /\ at'[w] = "items" /\ orders' = orders
    BY <2>1 DEF TypeOK, Goto, dbVars
  <2> QED
    BY <2>1, <2>2
<1>4. CASE InsertItem(w) /\ ~Fail(w)
  <2>1. /\ at[w] = "items" /\ txn' = [txn EXCEPT ![w].items = @ + 1]
        /\ UNCHANGED <<dbVars, at, left, success>>
    BY <1>4 DEF InsertItem
  <2> QED
    BY <2>1 DEF TypeOK, dbVars
<1>5. CASE Commit(w)
  BY <1>5 DEF TypeOK, Commit, Goto
<1>6. CASE ReadLength(w) \/ WriteLength(w)
  BY <1>6 DEF TypeOK, ReadLength, WriteLength, Goto, Listing, dbVars
<1>7. CASE Put(w) /\ ~Fail(w)
  BY <1>7 DEF TypeOK, Put, Goto, Listing, dbVars
<1>8. CASE Check(w) /\ ~Finish(w)
  BY <1>8 DEF TypeOK, Check, Goto, Listing, dbVars
<1> QED
  BY <1>1, <1>2, <1>3, <1>4, <1>5, <1>6, <1>7, <1>8
  DEF Write, InsertOrder, InsertItem, Put, Check, Trim

(* Rows are never deleted. *)
LEMMA OrdersGrow ==
  ASSUME [Next]_vars
  PROVE  orders \subseteq orders'
<1>1. CASE \E w \in Writers : Commit(w)
  BY <1>1 DEF Commit
<1> QED
  BY <1>1, OnlyCommit

(* The ids two writers have in hand differ, and a committed one is not     *)
(* inserted again.                                                         *)
LEMMA IdStep ==
  ASSUME TypeOK, LeftInv, IdInv, [Next]_vars
  PROVE  IdInv'
<1>1. ASSUME NEW w \in Writers, Start(w) \/ Write(w) PROVE IdInv'
  <2>1. ASSUME NEW v \in Writers \ {w}
        PROVE  at'[v] = at[v] /\ txn'[v] = txn[v]
    BY <1>1, OneWriter
  <2>2. orders \subseteq orders'
    BY OrdersGrow
  <2>3. CASE at'[w] \notin {"items"} \cup Listing
    <3>1. ~Commit(w)
      BY <2>3 DEF TypeOK, Commit, Goto, Tasks, Listing
    <3>2. orders' = orders
      BY <1>1, <3>1 DEF Start, Write, InsertOrder, InsertItem, ReadLength, Put, WriteLength,
                        Check, Trim, Fail, dbVars
    <3> QED
      BY <2>1, <2>3, <3>2 DEF IdInv
  <2>4. CASE Commit(w) /\ at[w] = "items" /\ at'[w] = "add" /\ txn'[w] = txn[w]
    <3>1. orders' = orders \cup {txn[w].id}
      BY <2>4 DEF Commit
    <3> QED
      BY <2>1, <2>4, <3>1 DEF IdInv, Listing
  <2>5. CASE /\ at'[w] = "items" /\ txn'[w].id \in OrderId \ orders
             /\ \A v \in Writers \ {w} : at[v] = "items" => txn[v].id # txn'[w].id
             /\ orders' = orders
    BY <2>1, <2>5 DEF IdInv, Listing
  <2>6. CASE /\ \/ at[w] = "items" /\ at'[w] = "items"
                \/ at[w] \in Listing /\ at'[w] \in Listing
             /\ txn'[w].id = txn[w].id /\ orders' = orders
    BY <2>1, <2>6 DEF IdInv, Listing
  <2> QED
    BY <1>1, <2>3, <2>4, <2>5, <2>6, Working
<1>2. CASE UNCHANGED vars \/ (\E k \in Kinds : InsertParent(k) \/ CacheParent(k)) \/ Review
  BY <1>2, OtherTask DEF IdInv
<1> QED
  BY <1>1, <1>2 DEF Next, IdInv

(* The orders to be listed leave this set only when they are listed. *)
LEMMA ListedGrow ==
  ASSUME TypeOK, LeftInv, IdInv, [Next]_vars
  PROVE  orders \ Pending \subseteq (orders \ Pending)'
<1>1. ASSUME NEW v \in Writers, at'[v] \in {"add", "put", "length"}
      PROVE  /\ txn'[v].id = txn[v].id
             /\ at[v] = "items" \/ at[v] \in {"add", "put", "length"}
  <2>1. CASE UNCHANGED vars \/ (\E k \in Kinds : InsertParent(k) \/ CacheParent(k)) \/ Review
    BY <1>1, <2>1, OtherTask
  <2>2. ASSUME NEW w \in Writers \ {v}, Start(w) \/ Write(w)
        PROVE  at'[v] = at[v] /\ txn'[v] = txn[v]
    BY <2>2, OneWriter
  <2>3. CASE Start(v) \/ Write(v)
    <3>1. \/ at[v] = "items" /\ txn'[v].id = txn[v].id
          \/ at[v] \in Listing /\ txn'[v] = txn[v]
      BY <1>1, <2>3, Working DEF Listing
    <3>2. CASE at[v] \in {"check", "trim"}
      BY <1>1, <2>3, <3>2, OrderEnds DEF TypeOK, Tasks, Goto, Start, Write, InsertOrder,
         InsertItem, Commit, ReadLength, Put, WriteLength, Check, Trim
    <3> QED
      BY <3>1, <3>2 DEF Listing
  <2> QED
    BY <1>1, <2>1, <2>2, <2>3 DEF Next
<1>2. ASSUME NEW o \in orders, o \in Pending' PROVE o \in Pending
  <2>1. PICK v \in Writers : at'[v] \in {"add", "put", "length"} /\ o = txn'[v].id
    BY <1>2 DEF Pending
  <2>2. at[v] # "items"
    BY <1>1, <1>2, <2>1 DEF IdInv
  <2> QED
    BY <1>1, <2>1, <2>2 DEF Pending
<1> QED
  BY <1>2, OrdersGrow

(* The number of orders to be listed never falls. *)
LEMMA ListedCount ==
  ASSUME TypeOK, TypeOK', LeftInv, IdInv, [Next]_vars
  PROVE  /\ Cardinality(orders \ Pending) =< Cardinality((orders \ Pending)')
         /\ Cardinality(orders \ Pending) \in Nat /\ Cardinality((orders \ Pending)') \in Nat
<1>1. orders' \subseteq OrderId
  BY DEF TypeOK
<1>2. IsFiniteSet((orders \ Pending)')
  BY <1>1, FS_Subset
<1>3. orders \ Pending \subseteq (orders \ Pending)'
  BY ListedGrow
<1> QED
  BY <1>2, <1>3, FS_Subset, FS_CardinalityType

(* An order whose length is written is one more to be listed. *)
LEMMA OneMoreListed ==
  ASSUME TypeOK, TypeOK', LeftInv, IdInv, NEW w \in Writers, WriteLength(w)
  PROVE  Cardinality(orders \ Pending) + 1 =< Cardinality((orders \ Pending)')
<1>. DEFINE id == txn[w].id
<1>1. /\ at[w] = "length" /\ at'[w] = "check"
      /\ \A v \in Writers \ {w} : at'[v] = at[v]
      /\ UNCHANGED <<orders, txn>>
  BY DEF TypeOK, WriteLength, Goto, Tasks, dbVars
<1>2. id \in orders /\ id \in Pending
  BY <1>1 DEF IdInv, Listing, Pending
<1>3. id \notin Pending'
  BY <1>1 DEF IdInv, Listing, Pending
<1>4. Pending' \subseteq Pending
  BY <1>1 DEF Pending
<1>5. (orders \ Pending) \cup {id} \subseteq (orders \ Pending)'
  BY <1>1, <1>2, <1>3, <1>4
<1>6. IsFiniteSet(orders \ Pending)
  BY OrdersFinite, FS_Subset
<1>7. Cardinality((orders \ Pending) \cup {id}) = Cardinality(orders \ Pending) + 1
  BY <1>2, <1>6, FS_AddElement
<1>8. IsFiniteSet((orders \ Pending)')
  BY <1>1, OrdersFinite, FS_Subset
<1> QED
  BY <1>5, <1>7, <1>8, FS_Subset

(* The list is never longer than there are orders to list. *)
LEMMA LengthStep ==
  ASSUME TypeOK, TypeOK', LeftInv, IdInv, LengthInv, [Next]_vars
  PROVE  LengthInv'
<1>. DEFINE room == Cardinality(orders \ Pending)
            room2 == Cardinality((orders \ Pending)')
<1>1. room =< room2 /\ room \in Nat /\ room2 \in Nat
  BY ListedCount
<1>. HIDE DEF room, room2
<1>. Indices \subseteq Nat
  BY OrdersFinite DEF Indices
<1>2. /\ size =< room /\ size \in Nat
      /\ \A v \in Writers : /\ slot[v] \in Nat
                            /\ at[v] \in {"put", "length", "trim"} => slot[v] =< room
  BY DEF LengthInv, TypeOK, Tasks, room
<1>3. SUFFICES /\ size' =< room2
               /\ \A v \in Writers :
                    at'[v] \in {"put", "length", "trim"} => slot'[v] =< room2
  BY DEF LengthInv, room2
<1>4. CASE UNCHANGED vars \/ (\E k \in Kinds : InsertParent(k) \/ CacheParent(k)) \/ Review
  <2>1. /\ size' = size
        /\ \A w \in Writers : at'[w] = at[w] /\ slot'[w] = slot[w]
    BY <1>4, OtherTask DEF listVars
  <2> QED
    BY <1>1, <1>2, <2>1
<1>5. ASSUME NEW w \in Writers, Start(w) \/ Write(w)
      PROVE  size' =< room2
  <2>1. CASE WriteLength(w)
    <3>1. size' = slot[w] + 1 /\ slot[w] =< room /\ slot[w] \in Nat
      BY <1>2, <2>1 DEF WriteLength
    <3>2. room + 1 =< room2
      BY <2>1, OneMoreListed DEF room, room2
    <3> QED
      BY <1>1, <3>1, <3>2
  <2>2. CASE Trim(w)
    BY <1>1, <1>2, <2>2 DEF Trim
  <2>3. CASE ~WriteLength(w) /\ ~Trim(w)
    BY <1>1, <1>2, <1>5, <2>3
    DEF Start, Write, InsertOrder, InsertItem, Commit, ReadLength, Put, Check, listVars
  <2> QED
    BY <2>1, <2>2, <2>3
<1>6. ASSUME NEW w \in Writers, Start(w) \/ Write(w), NEW v \in Writers,
             at'[v] \in {"put", "length", "trim"}
      PROVE  slot'[v] =< room2
  <2>. v \in Tasks
    BY DEF Tasks
  <2>1. CASE v # w
    BY <1>1, <1>2, <1>6, <2>1, OneWriter
  <2>2. CASE v = w /\ at[w] # "idle" /\ (Fail(w) \/ Finish(w))
    BY <1>6, <2>2, OrderEnds
  <2>3. CASE v = w /\ ReadLength(w)
    BY <1>1, <1>2, <2>3 DEF TypeOK, ReadLength
  <2>4. CASE v = w /\ Put(w) /\ ~Fail(w)
    BY <1>1, <1>2, <2>4 DEF TypeOK, Put
  <2>5. CASE v = w /\ Check(w) /\ ~Finish(w)
    <3>1. slot'[w] = size - 1
      BY <2>5 DEF TypeOK, Check
    <3> QED
      BY <1>1, <1>2, <2>5, <3>1
  <2>6. CASE v = w /\ ~ReadLength(w) /\ ~Put(w) /\ ~Check(w)
                   /\ ~(at[w] # "idle" /\ (Fail(w) \/ Finish(w)))
    <3>1. at'[v] \notin {"put", "length", "trim"}
      BY <1>6, <2>6
      DEF TypeOK, Start, Write, InsertOrder, InsertItem, Commit, WriteLength, Trim, Goto
    <3> QED
      BY <1>6, <3>1
  <2> QED
    BY <2>1, <2>2, <2>3, <2>4, <2>5, <2>6 DEF Put, Check
<1> QED
  BY <1>3, <1>4, <1>5, <1>6 DEF Next

(* Between commit and success an order is counted once. *)
LEMMA CountStep ==
  ASSUME TypeOK, TypeOK', LeftInv, IdInv, CountInv, [Next]_vars
  PROVE  CountInv'
<1>. DEFINE n == Cardinality(orders)
            m == Cardinality(orders')
<1>1. n =< m /\ n \in Nat /\ m \in Nat
  <2>1. IsFiniteSet(orders')
    BY FS_Subset DEF TypeOK
  <2> QED
    BY <2>1, OrdersGrow, FS_Subset, FS_CardinalityType
<1>2. ASSUME NEW w \in Writers, Commit(w) PROVE n + 1 =< m
  <2>1. txn[w].id \notin orders /\ orders' = orders \cup {txn[w].id}
    BY <1>2 DEF IdInv, Commit
  <2>2. IsFiniteSet(orders)
    BY OrdersFinite
  <2>3. Cardinality(orders \cup {txn[w].id}) = Cardinality(orders) + 1
    BY <2>1, <2>2, FS_AddElement
  <2> QED
    BY <1>1, <2>1, <2>3
<1>3. \A w \in Writers : /\ made[w] \in Nat /\ success[w] \in Nat
                         /\ success[w] =< made[w] /\ made[w] =< n
                         /\ at[w] \in Listing => success[w] < made[w]
  BY DEF CountInv, TypeOK, n
<1>. HIDE DEF n
<1>4. SUFFICES \A w \in Writers :
        /\ success'[w] =< made'[w] /\ made'[w] =< m
        /\ at'[w] \in Listing => success'[w] < made'[w]
  BY DEF CountInv, m
<1>. HIDE DEF m
<1>5. CASE UNCHANGED vars \/ (\E k \in Kinds : InsertParent(k) \/ CacheParent(k)) \/ Review
  <2>1. UNCHANGED <<made, success>> /\ \A w \in Writers : at'[w] = at[w]
    BY <1>5, OtherTask
  <2> QED
    BY <1>1, <1>3, <2>1
<1>6. ASSUME NEW w \in Writers, Start(w) \/ Write(w), NEW v \in Writers
      PROVE  /\ success'[v] =< made'[v] /\ made'[v] =< m
             /\ at'[v] \in Listing => success'[v] < made'[v]
  <2>. v \in Tasks
    BY DEF Tasks
  <2>1. CASE v # w
    <3>1. at'[v] = at[v] /\ made'[v] = made[v] /\ success'[v] = success[v]
      BY <1>6, <2>1, OneWriter
    <3> QED
      BY <1>1, <1>3, <3>1
  <2>2. CASE v = w /\ Start(w)
    BY <1>1, <2>2 DEF TypeOK, Start, Goto, Listing
  <2>3. CASE v = w /\ Commit(w)
    <3>1. made'[v] = made[v] + 1 /\ success'[v] = success[v]
      BY <2>3 DEF TypeOK, Commit
    <3> QED
      BY <1>1, <1>2, <1>3, <2>3, <3>1
  <2>4. CASE v = w /\ (InsertOrder(v) \/ InsertItem(v) \/ Put(v))
    <3>1. at[v] # "idle" /\ made'[v] = made[v] /\ success'[v] = success[v]
      BY <2>4 DEF InsertOrder, InsertItem, Put, Fail
    <3>2. at'[v] \in Listing => at[v] \in Listing
      <4>1. CASE Fail(v)
        BY <3>1, <4>1, OrderEnds DEF Listing
      <4>2. CASE ~Fail(v)
        BY <2>4, <4>2 DEF TypeOK, InsertOrder, InsertItem, Put, Goto, Listing
      <4> QED
        BY <4>1, <4>2
    <3> QED
      BY <1>1, <1>3, <3>1, <3>2
  <2>5. CASE v = w /\ (Check(v) \/ Trim(v)) /\ Finish(v)
    <3>1. at[v] \in Listing /\ at[v] # "idle" /\ UNCHANGED made
      BY <2>5 DEF Check, Trim, Listing
    <3>2. at'[v] \notin Listing
      BY <2>5, <3>1, OrderEnds DEF Listing
    <3>3. success'[v] = success[v] + 1
      BY <2>5 DEF TypeOK, Finish
    <3> QED
      BY <1>1, <1>3, <3>1, <3>2, <3>3
  <2>6. CASE v = w /\ (ReadLength(v) \/ WriteLength(v) \/ (Check(v) /\ ~Finish(v)))
    <3>1. at[v] \in Listing /\ UNCHANGED <<made, success>>
      BY <2>6 DEF ReadLength, WriteLength, Check, Listing
    <3> QED
      BY <1>1, <1>3, <3>1
  <2> QED
    BY <1>6, <2>1, <2>2, <2>3, <2>4, <2>5, <2>6 DEF Write, Trim
<1> QED
  BY <1>4, <1>5, <1>6 DEF Next

(* A customer or product is in the table before it is in the cache. *)
LEMMA CacheStep ==
  ASSUME TypeOK, CacheInv, [Next]_vars
  PROVE  CacheInv'
<1>1. ASSUME NEW k \in Kinds, InsertParent(k) PROVE CacheInv'
  BY <1>1 DEF TypeOK, CacheInv, InsertParent
<1>2. ASSUME NEW k \in Kinds, CacheParent(k) PROVE CacheInv'
  BY <1>2 DEF TypeOK, CacheInv, CacheParent, dbVars
<1>3. CASE UNCHANGED <<parents, cached, adding>>
  BY <1>3 DEF CacheInv
<1>4. ASSUME NEW w \in Writers, Start(w) \/ Write(w) PROVE UNCHANGED <<parents, cached, adding>>
  BY <1>4 DEF Start, Write, InsertOrder, InsertItem, Commit, ReadLength, Put, WriteLength,
              Check, Trim, Fail, dbVars
<1>5. CASE Review
  BY <1>3, <1>5 DEF Review, PickReview, GetOrder, InsertReview, dbVars
<1> QED
  BY <1>1, <1>2, <1>3, <1>4, <1>5 DEF Next, vars, dbVars

(* What is put on the list, or moved on it, or picked from it, was         *)
(* committed.                                                              *)
LEMMA ListStep ==
  ASSUME TypeOK, IdInv, ListInv, [Next]_vars
  PROVE  ListInv'
<1>. DEFINE old == orders \cup {Null}
<1>1. old \subseteq orders' \cup {Null}
  BY OrdersGrow
<1>2. /\ picked \in old /\ \A i \in Indices : es[i] \in old
  BY DEF ListInv
<1>. HIDE DEF old
<1>3. SUFFICES picked' \in old /\ \A i \in Indices : es'[i] \in old
  BY <1>1 DEF ListInv
<1>4. ASSUME NEW w \in Writers, Put(w) PROVE picked' \in old /\ \A i \in Indices : es'[i] \in old
  <2>1. txn[w].id \in old
    BY <1>4 DEF IdInv, Put, Listing, old
  <2> QED
    BY <1>2, <1>4, <2>1 DEF TypeOK, Put
<1>5. ASSUME NEW w \in Writers, Trim(w) PROVE picked' \in old /\ \A i \in Indices : es'[i] \in old
  <2>1. slot[w] \in Indices
    BY DEF TypeOK, Tasks
  <2>2. \A i \in Indices : i < slot[w] => i + 1 \in Indices
    BY <2>1, OrdersFinite DEF Indices
  <2>3. Null \in old
    BY DEF old
  <2> QED
    BY <1>2, <1>5, <2>2, <2>3 DEF Trim
<1>6. CASE GetOrder
  <2>1. \A i \in 0..(slot["review"] - 1) : i < size => i \in Indices
    BY OrdersFinite DEF TypeOK, Tasks, Indices
  <2> QED
    BY <1>2, <1>6, <2>1 DEF GetOrder, listVars
<1>7. CASE InsertReview
  BY <1>2, <1>7 DEF InsertReview, listVars, old
<1>8. CASE UNCHANGED <<es, picked>>
  BY <1>2, <1>8
<1>9. ASSUME NEW w \in Writers, Start(w) \/ Write(w), ~Put(w), ~Trim(w)
      PROVE  UNCHANGED <<es, picked>>
  BY <1>9 DEF Start, Write, InsertOrder, InsertItem, Commit, ReadLength, WriteLength, Check,
              listVars
<1>10. CASE UNCHANGED vars \/ (\E k \in Kinds : InsertParent(k) \/ CacheParent(k)) \/ PickReview
  BY <1>8, <1>10 DEF vars, InsertParent, CacheParent, PickReview, listVars
<1> QED
  BY <1>4, <1>5, <1>6, <1>7, <1>8, <1>9, <1>10 DEF Next, Review

(* A commit adds a whole order, under an id that no row has yet, and no    *)
(* other step touches these tables.                                        *)
LEMMA WholeStep ==
  ASSUME TypeOK, IdInv, OrdersWhole, [Next]_vars
  PROVE  OrdersWhole'
<1>1. CASE \A w \in Writers : ~Commit(w)
  BY <1>1, OnlyCommit DEF OrdersWhole
<1>2. ASSUME NEW w \in Writers, Commit(w) PROVE OrdersWhole'
  <2>. DEFINE id == txn[w].id
              n  == txn[w].items
  <2>1. /\ id \in OrderId \ orders /\ n \in 1..MaxItems
        /\ orders' = orders \cup {id} /\ payments' = payments \cup {id}
        /\ items' = items \cup ({id} \X (1..n))
    BY <1>2, SizeAssumption DEF TypeOK, IdInv, Commit
  <2>2. \A i \in 1..MaxItems : <<id, i>> \notin items
    BY <2>1 DEF OrdersWhole
  <2>3. {i \in 1..MaxItems : <<id, i>> \in items'} = 1..n
    BY <2>1, <2>2, SizeAssumption
  <2>4. ASSUME NEW o \in orders
        PROVE  \E k \in 1..MaxItems : {i \in 1..MaxItems : <<o, i>> \in items'} = 1..k
    <3>1. \A i \in 1..MaxItems : <<o, i>> \in items' <=> <<o, i>> \in items
      BY <2>1
    <3> QED
      BY <3>1 DEF OrdersWhole
  <2>5. payments' = orders' /\ {i[1] : i \in items'} \subseteq orders'
    BY <2>1 DEF OrdersWhole
  <2> QED
    BY <2>1, <2>3, <2>4, <2>5 DEF OrdersWhole
<1> QED
  BY <1>1, <1>2

-------------------------------------------------------------------------------
(* The invariant and what follows from it *)

(* The first state has no orders, no list and no open transaction. *)
LEMMA InitInvariant == Init => IInv
<1>1. SUFFICES ASSUME Init PROVE IInv
  OBVIOUS
<1>2. \A w \in Writers : at[w] = "idle"
  BY <1>1 DEF Init, Tasks
<1>3. orders = {} /\ size = 0 /\ IdInv /\ LeftInv
  BY <1>1, <1>2 DEF Init, IdInv, LeftInv, Listing
<1>4. Cardinality(orders \ Pending) = 0 /\ Cardinality(orders) = 0
  BY <1>3, FS_EmptySet
<1>5. LengthInv /\ CountInv
  BY <1>1, <1>2, <1>3, <1>4 DEF Init, LengthInv, CountInv, Listing
<1>6. CacheInv
  BY <1>1 DEF Init, CacheInv
<1>7. ListInv /\ OrdersWhole
  BY <1>1 DEF Init, ListInv, OrdersWhole
<1> QED
  BY <1>1, <1>3, <1>5, <1>6, <1>7, TypeInit DEF IInv

(* Every step keeps the invariant. *)
LEMMA Inductive == IInv /\ [Next]_vars => IInv'
<1>1. SUFFICES ASSUME IInv, [Next]_vars PROVE IInv'
  OBVIOUS
<1>2. TypeOK'
  BY <1>1, TypeStep DEF IInv
<1>3. IdInv' /\ LeftInv' /\ LengthInv' /\ CountInv'
  BY <1>1, <1>2, IdStep, LeftStep, LengthStep, CountStep DEF IInv
<1>4. CacheInv' /\ ListInv' /\ OrdersWhole'
  BY <1>1, CacheStep, ListStep, WholeStep DEF IInv
<1> QED
  BY <1>2, <1>3, <1>4 DEF IInv

(* However the writers race, the list stays within its bounds, an id in    *)
(* hand is not committed twice, and a counted order was committed.         *)
THEOREM Invariance == Spec => []IInv
<1>1. Init => IInv
  BY InitInvariant
<1>2. IInv /\ [Next]_vars => IInv'
  BY Inductive
<1> QED
  BY <1>1, <1>2, PTL DEF Spec

(* Every variable has its type in every state. *)
THEOREM TypeCorrect == Spec => []TypeOK
<1>1. IInv => TypeOK
  BY DEF IInv
<1> QED
  BY <1>1, Invariance, PTL

(* PostgreSQL holds whole orders only, whatever fails half way in either   *)
(* writer (generateOrder).                                                 *)
THEOREM AlwaysWhole == Spec => []OrdersWhole
<1>1. IInv => OrdersWhole
  BY DEF IInv
<1> QED
  BY <1>1, Invariance, PTL

(* The unsynchronised list and the review task's pick hold committed       *)
(* orders only, and the caches committed customers and products only.      *)
THEOREM AlwaysCommitted == Spec => []ListedCommitted
<1>1. IInv => ListedCommitted
  BY DEF IInv, ListInv, CacheInv, ListedCommitted
<1> QED
  BY <1>1, Invariance, PTL

(* A run's summary claims no order that the database does not hold. *)
THEOREM NeverOvercounts == Spec => []SuccessesCommitted
<1>1. IInv => SuccessesCommitted
  BY DEF IInv, CountInv, SuccessesCommitted
<1> QED
  BY <1>1, Invariance, PTL

===============================================================================
