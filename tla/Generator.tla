------------------------------- MODULE Generator -------------------------------
(***************************************************************************)
(* The demo generator: tasks of one thread pool that write PostgreSQL and  *)
(* share three unsynchronised lists.  "batch" and "burst" both run         *)
(* generateOrder; "review" picks from the list they fill; "customer" and   *)
(* "product" insert the rows that orders refer to.                         *)
(*                                                                         *)
(* An order, its items and its payment are one transaction.  recentOrders  *)
(* is an ArrayList used by three threads without a lock: its add and       *)
(* remove are modelled at the steps at which they read or write `size` and *)
(* the elements, and an add that races with another writer may lose its    *)
(* element in the other's copy of the array, or throw.                     *)
(***************************************************************************)
EXTENDS Integers, FiniteSets

CONSTANTS
  OrderId,          \* order ids: time in milliseconds and a random number
  Existing,         \* ids in customers and products when the generator starts
  Fresh,            \* ids it may add to them
  Null,
  BatchSize, BurstSize, MaxItems, Limit    \* 6, 50, 6 and 1000 in the code

Writers == {"batch", "burst"}
Kinds   == {"customer", "product"}

ASSUME IdAssumption ==
  \A ids \in {Existing, Fresh} :
    /\ ids = [k \in Kinds |-> ids[k]]
    /\ \A k \in Kinds : ids[k] \cap {Null, "invalid"} = {}
ASSUME SizeAssumption ==
  {BatchSize, BurstSize, MaxItems, Limit} \subseteq Nat \ {0} /\ IsFiniteSet(OrderId)

VARIABLES
  parents,          \* committed ids of customers and products
  cached,           \* existingCustomers, existingProducts
  adding,           \* a parent that is inserted and not yet cached: or Null
  orders, items, payments, reviews,        \* committed rows: order ids, but items:
                    \* pairs of an order id and a number
  at,               \* what each task does next
  left,             \* orders the writer's run has still to generate
  txn,              \* the writer's open transaction
  es, size,         \* recentOrders: elements and length
  slot,             \* the length a task has read and works with
  picked,           \* the order the review task has read
  made, success     \* per writer: orders committed, and counted, in this run

dbVars   == <<parents, orders, items, payments, reviews>>
listVars == <<es, size>>
vars == <<dbVars, cached, adding, at, left, txn, listVars, slot, picked, made, success>>

Missing == "invalid"                       \* "invalid_customer_7": an id no table holds
NoTxn   == [id |-> Null, items |-> 0]
Indices == 0..Cardinality(OrderId)
Tasks   == Writers \cup {"review"}

Init ==
  /\ parents = Existing
  /\ cached \in [Kinds -> SUBSET UNION {Existing[k] : k \in Kinds}]
  /\ \A k \in Kinds : cached[k] \subseteq Existing[k]
  /\ adding = [k \in Kinds |-> Null]
  /\ orders = {} /\ items = {} /\ payments = {} /\ reviews = {}
  /\ at = [t \in Tasks |-> "idle"]
  /\ left = [w \in Writers |-> 0]
  /\ txn = [w \in Writers |-> NoTxn]
  /\ es = [i \in Indices |-> Null] /\ size = 0
  /\ slot = [t \in Tasks |-> 0]
  /\ picked = Null
  /\ made = [w \in Writers |-> 0] /\ success = [w \in Writers |-> 0]

-------------------------------------------------------------------------------
(* Customers and products: one INSERT in auto-commit mode, then the cache. *)

InsertParent(k) ==
  /\ adding[k] = Null
  /\ \E id \in Fresh[k] \ parents[k] :
       /\ parents' = [parents EXCEPT ![k] = @ \cup {id}]
       /\ adding' = [adding EXCEPT ![k] = id]
  /\ UNCHANGED <<orders, items, payments, reviews, cached, at, left, txn, listVars, slot,
                 picked, made, success>>

CacheParent(k) ==
  /\ adding[k] # Null
  /\ cached' = [cached EXCEPT ![k] = @ \cup {adding[k]}]
  /\ adding' = [adding EXCEPT ![k] = Null]
  /\ UNCHANGED <<dbVars, at, left, txn, listVars, slot, picked, made, success>>

(* getRandomCustomerId, getRandomProductId; a foreign key accepts Null.    *)
RandomId(k)  == cached[k] \cup {Null, Missing}
Refers(k, id) == id = Null \/ id \in parents[k]

-------------------------------------------------------------------------------
(* generateOrder *)

Goto(t, step) == at' = [at EXCEPT ![t] = step]

Start(w) ==
  /\ at[w] = "idle" /\ Goto(w, "order")
  /\ left' = [left EXCEPT ![w] = IF w = "batch" THEN BatchSize ELSE BurstSize]
  /\ made' = [made EXCEPT ![w] = 0] /\ success' = [success EXCEPT ![w] = 0]
  /\ UNCHANGED <<dbVars, cached, adding, txn, listVars, slot, picked>>

(* Slip: a statement is committed as soon as it is executed. *)
FailKeepingRows(w) ==
  LET remaining == IF w = "batch" THEN 0 ELSE left[w] - 1 IN
  /\ left' = [left EXCEPT ![w] = remaining]
  /\ txn' = [txn EXCEPT ![w] = NoTxn]
  /\ Goto(w, IF remaining = 0 THEN "idle" ELSE "order")
  /\ orders' = orders \cup ({txn[w].id} \ {Null})
  /\ items' = items \cup ({txn[w].id} \X (1..txn[w].items))
  /\ UNCHANGED <<parents, payments, reviews, success>>

(* Slip: an order that failed is counted too. *)
FailCounted(w) ==
  LET remaining == IF w = "batch" THEN 0 ELSE left[w] - 1 IN
  /\ left' = [left EXCEPT ![w] = remaining]
  /\ txn' = [txn EXCEPT ![w] = NoTxn]
  /\ success' = [success EXCEPT ![w] = @ + 1]
  /\ Goto(w, IF remaining = 0 THEN "idle" ELSE "order")
  /\ UNCHANGED <<parents, orders, items, payments, reviews>>

(* Slip: nothing catches the exception, and the executor drops the task. *)
FailUncaught(w) ==
  /\ left' = [left EXCEPT ![w] = 0]
  /\ txn' = [txn EXCEPT ![w] = NoTxn]
  /\ Goto(w, "dropped")
  /\ UNCHANGED <<parents, orders, items, payments, reviews, success>>

(* An exception closes the connection, which rolls back.  In a batch it    *)
(* leaves the loop; burst mode catches it inside.                          *)
Fail(w) ==
  LET remaining == IF w = "batch" THEN 0 ELSE left[w] - 1 IN
  /\ left' = [left EXCEPT ![w] = remaining]
  /\ txn' = [txn EXCEPT ![w] = NoTxn]
  /\ Goto(w, IF remaining = 0 THEN "idle" ELSE "order")
  /\ UNCHANGED <<parents, orders, items, payments, reviews, success>>

(* The generated id may be taken; an id in another open transaction blocks *)
(* until that ends.                                                        *)
InsertOrder(w) ==
  /\ at[w] = "order"
  /\ \E id \in OrderId, c \in RandomId("customer") :
       /\ \A v \in Writers \ {w} : at[v] = "items" => txn[v].id # id
       /\ IF id \notin orders /\ Refers("customer", c)
            THEN /\ txn' = [txn EXCEPT ![w] = [id |-> id, items |-> 0]]
                 /\ Goto(w, "items")
                 /\ UNCHANGED <<dbVars, left, success>>
            ELSE Fail(w)
  /\ UNCHANGED <<cached, adding, listVars, slot, picked, made>>

InsertItem(w) ==
  /\ at[w] = "items" /\ txn[w].items < MaxItems
  /\ \E p \in RandomId("product") :
       IF Refers("product", p)
         THEN /\ txn' = [txn EXCEPT ![w].items = @ + 1]
              /\ UNCHANGED <<dbVars, at, left, success>>
         ELSE Fail(w)
  /\ UNCHANGED <<cached, adding, listVars, slot, picked, made>>

(* Slip: the order is listed although nothing was committed. *)
ListUncommitted(w) ==
  /\ at[w] = "items" /\ txn[w].items > 0 /\ Goto(w, "add")
  /\ UNCHANGED <<dbVars, cached, adding, left, txn, listVars, slot, picked, made, success>>

(* The payment and the commit. *)
Commit(w) ==
  LET t == txn[w] IN
  /\ at[w] = "items" /\ t.items > 0
  /\ orders' = orders \cup {t.id}
  /\ items' = items \cup ({t.id} \X (1..t.items))
  /\ payments' = payments \cup {t.id}
  /\ made' = [made EXCEPT ![w] = @ + 1]
  /\ Goto(w, "add")
  /\ UNCHANGED <<parents, reviews, cached, adding, left, txn, listVars, slot, picked, success>>

-------------------------------------------------------------------------------
(* recentOrders.add(orderId), then remove(0) when the list is too long.    *)

ReadLength(w) ==
  /\ at[w] = "add" /\ Goto(w, "put")
  /\ slot' = [slot EXCEPT ![w] = size]
  /\ UNCHANGED <<dbVars, cached, adding, left, txn, listVars, picked, made, success>>

Racing(w) == \E v \in Writers \ {w} : at[v] \in {"put", "length", "check", "trim"}

Put(w) ==
  /\ at[w] = "put"
  /\ \/ /\ es' = [es EXCEPT ![slot[w]] = txn[w].id]
        /\ Goto(w, "length")
        /\ UNCHANGED <<dbVars, left, txn, success>>
     \/ /\ Racing(w)                       \* lost in the other thread's copy
        /\ Goto(w, "length")
        /\ UNCHANGED <<dbVars, left, txn, success, es>>
     \/ /\ Racing(w)                       \* index out of bounds of a stale array
        /\ Fail(w)
        /\ UNCHANGED es
  /\ UNCHANGED <<cached, adding, size, slot, picked, made>>

Finish(w) ==
  /\ left' = [left EXCEPT ![w] = @ - 1]
  /\ txn' = [txn EXCEPT ![w] = NoTxn]
  /\ success' = [success EXCEPT ![w] = @ + 1]
  /\ Goto(w, IF left[w] = 1 THEN "idle" ELSE "order")

WriteLength(w) ==
  /\ at[w] = "length" /\ Goto(w, "check")
  /\ size' = slot[w] + 1
  /\ UNCHANGED <<dbVars, cached, adding, left, txn, es, slot, picked, made, success>>

Check(w) ==
  /\ at[w] = "check"
  /\ IF size > Limit
       THEN /\ Goto(w, "trim") /\ slot' = [slot EXCEPT ![w] = size - 1]
            /\ UNCHANGED <<left, txn, success>>
       ELSE Finish(w) /\ UNCHANGED slot
  /\ UNCHANGED <<dbVars, cached, adding, listVars, picked, made>>

(* System.arraycopy one place down, then the length and a null behind it.  *)
Trim(w) ==
  LET n == slot[w] IN
  /\ at[w] = "trim"
  /\ es' = [i \in Indices |-> IF i < n THEN es[i + 1] ELSE IF i = n THEN Null ELSE es[i]]
  /\ size' = n
  /\ Finish(w)
  /\ UNCHANGED <<dbVars, cached, adding, slot, picked, made>>

-------------------------------------------------------------------------------
(* generateReview: isEmpty, then size, then get, which checks the index    *)
(* against the length of that moment.  Every exception ends this run only. *)

PickReview ==
  /\ at["review"] = "idle" /\ size > 0
  /\ Goto("review", "pick")
  /\ slot' = [slot EXCEPT !["review"] = size]
  /\ UNCHANGED <<dbVars, cached, adding, left, txn, listVars, picked, made, success>>

GetOrder ==
  /\ at["review"] = "pick"
  /\ \E i \in 0..(slot["review"] - 1) :
       IF i < size
         THEN picked' = es[i] /\ Goto("review", "insert")
         ELSE UNCHANGED picked /\ Goto("review", "idle")
  /\ UNCHANGED <<dbVars, cached, adding, left, txn, listVars, slot, made, success>>

(* The INSERT names order_id and review_score only, ON CONFLICT (order_id).*)
Supplied       == {"order_id", "review_score"}
ConflictTarget == "order_id"
ReviewKey      == "review_id"

InsertReview ==
  /\ at["review"] = "insert" /\ Goto("review", "idle")
  /\ reviews' = IF ConflictTarget = ReviewKey /\ ReviewKey \in Supplied
                     /\ picked \in orders \cup {Null}
                  THEN reviews \cup {picked} ELSE reviews
  /\ picked' = Null
  /\ UNCHANGED <<parents, orders, items, payments, cached, adding, left, txn, listVars, slot,
                 made, success>>

-------------------------------------------------------------------------------
Write(w) ==
  InsertOrder(w) \/ InsertItem(w) \/ Commit(w) \/ ReadLength(w) \/ Put(w) \/ WriteLength(w)
    \/ Check(w) \/ Trim(w)
Review == PickReview \/ GetOrder \/ InsertReview

Next ==
  \/ \E w \in Writers : Start(w) \/ Write(w)
  \/ \E k \in Kinds : InsertParent(k) \/ CacheParent(k)
  \/ Review

Spec == Init /\ [][Next]_vars

(* Six pool threads for six tasks: every task runs.  The generated values  *)
(* are random, so a fault does not recur for ever; whether an order ever   *)
(* succeeds is left open.                                                  *)
Fairness ==
  /\ \A w \in Writers : WF_vars(Start(w)) /\ WF_vars(Write(w))
  /\ \A k \in Kinds : WF_vars(CacheParent(k))
  /\ WF_vars(Review)

FairSpec == Spec /\ Fairness

-------------------------------------------------------------------------------
Ids     == UNION {Existing[k] \cup Fresh[k] : k \in Kinds}
Listing == {"add", "put", "length", "check", "trim"}      \* steps after the commit

(* Every variable has the type its declaration says. *)
TypeOK ==
  /\ parents \in [Kinds -> SUBSET Ids] /\ cached \in [Kinds -> SUBSET Ids]
  /\ adding \in [Kinds -> Ids \cup {Null}]
  /\ orders \subseteq OrderId /\ payments \subseteq OrderId
  /\ items \subseteq OrderId \X (1..MaxItems) /\ reviews \subseteq OrderId \cup {Null}
  /\ at \in [Tasks -> {"idle", "order", "items", "pick", "insert"} \cup Listing]
  /\ at["review"] \in {"idle", "pick", "insert"}
  /\ \A w \in Writers : at[w] \notin {"pick", "insert"}
  /\ left \in [Writers -> Nat]
  /\ txn \in [Writers -> [id : OrderId \cup {Null}, items : 0..MaxItems]]
  /\ es \in [Indices -> OrderId \cup {Null}] /\ size \in Indices
  /\ slot \in [Tasks -> Indices] /\ picked \in OrderId \cup {Null}
  /\ made \in [Writers -> Nat] /\ success \in [Writers -> Nat]

(* Whatever fails half way, in either writer, PostgreSQL holds whole       *)
(* orders only: consecutively numbered items, at least one, and a payment. *)
OrdersWhole ==
  /\ \A o \in orders : \E n \in 1..MaxItems :
       {i \in 1..MaxItems : <<o, i>> \in items} = 1..n
  /\ payments = orders /\ {i[1] : i \in items} \subseteq orders

(* However the writers race on the list, what it holds, and what the       *)
(* review task has picked from it, was committed before; so was every id   *)
(* in the two caches.                                                      *)
ListedCommitted ==
  /\ {es[i] : i \in Indices} \cup {picked} \subseteq orders \cup {Null}
  /\ \A k \in Kinds : cached[k] \subseteq parents[k]

(* The summary of a burst never claims an order that was not committed; it *)
(* may omit one whose add to the list threw.                               *)
SuccessesCommitted ==
  \A w \in Writers :
    success[w] =< made[w] /\ made[w] =< Cardinality(orders)

(* No failure, of the database or of the list, ends a periodic task: the   *)
(* executor would silently drop one that lets an exception out.            *)
TasksKeepRunning ==
  \A t \in Tasks : []<>(at[t] = "idle")

(* "Orders: 120 per minute", DataGenerator.java:48: a batch that ends has  *)
(* made as many orders as it was to make.  It does not hold, and no run    *)
(* checks it: the first order that fails ends its batch.                   *)
BatchComplete ==
  [][at["batch"] # "idle" /\ at'["batch"] = "idle" => made'["batch"] = BatchSize]_vars

(* "Reviews: 180 per hour", DataGenerator.java:52: reviews come in once    *)
(* there are orders to pick from for good.  Violated: every insert fails.  *)
ReviewsAppear == <>[](size > 0) => <>(reviews # {})
===============================================================================
