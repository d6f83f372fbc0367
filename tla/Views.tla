--------------------------------- MODULE Views ---------------------------------
(***************************************************************************)
(* Two materialized views over ods_orders and ods_payments, which two      *)
(* independent jobs fill.  A job publishes what OdsTable lets it, so the   *)
(* two tables move at different times and, after a redeployment, may show  *)
(* an older row of a key again; each view is recomputed on its own clock   *)
(* from what the two tables hold at that moment.                           *)
(*                                                                         *)
(* An order and its payments are inserted in one transaction, as           *)
(* generateOrder and COPY do; several payments of one type share a key.    *)
(***************************************************************************)
EXTENDS Integers, Sequences, FiniteSetsExt

CONSTANTS
  Order, Payment,
  PaymentsOf,       \* per order: the sequence of its payments
  Date, Customer,   \* per order
  Type, Value,      \* per payment
  OrderVerdict, PaymentVerdict,  \* "clean" or "error"
  NoRow

ASSUME PaymentAssumption ==
  /\ IsFiniteSet(Order) /\ IsFiniteSet(Payment) /\ NoRow \notin Order \cup Payment
  /\ PaymentsOf \in [Order -> Seq(Payment)]
  /\ \A p \in Payment : \E o \in Order : \E i \in DOMAIN PaymentsOf[o] : PaymentsOf[o][i] = p
  /\ Value \in [Payment -> Nat]

VARIABLES
  orders, payments,            \* the source tables, as logs of committed rows
  odsOrders, odsPayments,      \* the clean tables, by key
  odsErrors,                   \* not read by these views
  daily,                       \* mv_realtime_daily_metrics
  lifetime                     \* mv_customer_lifetime_analysis

vars == <<orders, payments, odsOrders, odsPayments, odsErrors, daily, lifetime>>

Placed  == {orders[i] : i \in 1..Len(orders)}
OrderOf(p) == CHOOSE o \in Order : \E i \in DOMAIN PaymentsOf[o] : PaymentsOf[o][i] = p
KeyOf      == [p \in Payment |-> <<OrderOf(p), Type[p]>>]
PaymentKey == {KeyOf[p] : p \in Payment}

Orders   == INSTANCE OdsTable WITH wal <- orders, clean <- odsOrders, error <- odsErrors,
              Row <- Order, Key <- Order, KeyOf <- [o \in Order |-> o],
              Verdict <- OrderVerdict
Payments == INSTANCE OdsTable WITH wal <- payments, clean <- odsPayments, error <- odsErrors,
              Row <- Payment, Key <- PaymentKey, Verdict <- PaymentVerdict

-------------------------------------------------------------------------------
(* FROM ods_orders JOIN ods_payments ... GROUP BY.  The join is a set of   *)
(* pairs of keys; a count and a sum are over pairs, never over orders.     *)

(* Slip: RIGHT JOIN. *)
RightJoined(os, ps) ==
  {j \in Order \X {k \in PaymentKey : ps[k] # NoRow} : j[2][1] = j[1]}

Joined(os, ps) ==
  {j \in {o \in Order : os[o] # NoRow} \X {k \in PaymentKey : ps[k] # NoRow} :
     j[2][1] = j[1]}

GroupBy(attribute, os, ps) ==
  [g \in {attribute[o] : o \in Order} |->
     LET rows == {j \in Joined(os, ps) : attribute[j[1]] = g} IN
     [count |-> Cardinality(rows),
      total |-> MapThenSumSet(LAMBDA j : Value[ps[j[2]]], rows)]]

DailyMetrics     == GroupBy(Date, odsOrders, odsPayments)
LifetimeAnalysis == GroupBy(Customer, odsOrders, odsPayments)

Total(view, field) == MapThenSumSet(LAMBDA g : view[g][field], DOMAIN view)

-------------------------------------------------------------------------------
Init ==
  /\ orders = <<>> /\ payments = <<>>
  /\ Orders!Init /\ Payments!Init
  /\ daily = DailyMetrics /\ lifetime = LifetimeAnalysis

PlaceOrder ==
  /\ \E o \in Order \ Placed :
       orders' = Append(orders, o) /\ payments' = payments \o PaymentsOf[o]
  /\ UNCHANGED <<odsOrders, odsPayments, odsErrors, daily, lifetime>>

PublishOrders ==
  /\ odsOrders' \in [Order -> Order \cup {NoRow}]
  /\ Orders!Publish
  /\ UNCHANGED <<payments, odsPayments, daily, lifetime>>

PublishPayments ==
  /\ odsPayments' \in [PaymentKey -> Payment \cup {NoRow}]
  /\ Payments!Publish
  /\ UNCHANGED <<orders, odsOrders, daily, lifetime>>

(* Slip: REFRESH MANUAL, run when the view is new. *)
RefreshOnce ==
  /\ Total(daily, "count") = 0 /\ daily' = DailyMetrics
  /\ UNCHANGED <<orders, payments, odsOrders, odsPayments, odsErrors, lifetime>>

RefreshDaily ==
  /\ daily' = DailyMetrics
  /\ UNCHANGED <<orders, payments, odsOrders, odsPayments, odsErrors, lifetime>>

RefreshLifetime ==
  /\ lifetime' = LifetimeAnalysis
  /\ UNCHANGED <<orders, payments, odsOrders, odsPayments, odsErrors, daily>>

Next ==
  PlaceOrder \/ PublishOrders \/ PublishPayments \/ RefreshDaily \/ RefreshLifetime

Spec == Init /\ [][Next]_vars

-------------------------------------------------------------------------------
(* What the source says: the last valid row of each key. *)
Newest(log, verdict, keyOf, Key) ==
  [k \in Key |->
     LET is == {i \in DOMAIN log : verdict[log[i]] = "clean" /\ keyOf[log[i]] = k} IN
     IF is = {} THEN NoRow ELSE log[Max(is)]]

SourceOrders   == Newest(orders, OrderVerdict, [o \in Order |-> o], Order)
SourcePayments == Newest(payments, PaymentVerdict, KeyOf, PaymentKey)

UpToDate == odsOrders = SourceOrders /\ odsPayments = SourcePayments

(* Each job brings its table up to date (EtlJob, Delivered); redeploying,  *)
(* after which a table may show older rows, comes to an end; and each view *)
(* is refreshed every minute.                                              *)
Fairness ==
  /\ WF_vars(PublishOrders /\ odsOrders' = SourceOrders)
  /\ WF_vars(PublishPayments /\ odsPayments' = SourcePayments)
  /\ <>[][~(PublishOrders /\ odsOrders = SourceOrders)]_odsOrders
  /\ <>[][~(PublishPayments /\ odsPayments = SourcePayments)]_odsPayments
  /\ WF_vars(RefreshDaily) /\ WF_vars(RefreshLifetime)

FairSpec == Spec /\ Fairness

-------------------------------------------------------------------------------
(* Every variable has the type its declaration says. *)
TypeOK ==
  /\ orders \in Seq(Order) /\ payments \in Seq(Payment)
  /\ odsOrders \in [Order -> Order \cup {NoRow}]
  /\ odsPayments \in [PaymentKey -> Payment \cup {NoRow}]
  /\ \A v \in {daily, lifetime} : \A g \in DOMAIN v : v[g].count \in Nat /\ v[g].total \in Nat

(* Whichever of the two tables is ahead, no view counts more than the      *)
(* payments, one per order and type, that are valid and whose order is.    *)
CountsOnlyValidPairs ==
  \A v \in {daily, lifetime} :
    Total(v, "count") =< Cardinality({k \in PaymentKey : /\ SourcePayments[k] # NoRow
                                                        /\ SourceOrders[k[1]] # NoRow})

(* The two views are refreshed at different times from moving tables, and  *)
(* yet agree in the end, on orders and on money, with each other and with  *)
(* the newest valid rows of the source.                                    *)
ViewsAgree ==
  <>[](/\ daily = GroupBy(Date, SourceOrders, SourcePayments)
       /\ \A f \in {"count", "total"} : Total(daily, f) = Total(lifetime, f))

Settled == UpToDate /\ daily = DailyMetrics

(* "Daily Orders Count", realtime_dashboard.sql:8.  It does not hold, and  *)
(* no run checks it: an order counts once for each type of its payments.   *)
DailyOrdersExact ==
  Settled => \A d \in DOMAIN daily :
    daily[d].count = Cardinality({o \in Order : odsOrders[o] # NoRow /\ Date[o] = d})

(* "Daily Revenue", realtime_dashboard.sql:17.  It does not hold, and no   *)
(* run checks it: of two vouchers for an order one is in the sum.          *)
DailyRevenueExact ==
  Settled => \A d \in DOMAIN daily :
    daily[d].total = MapThenSumSet(LAMBDA p : Value[p],
      {p \in Payment : /\ \E i \in DOMAIN payments : payments[i] = p
                       /\ PaymentVerdict[p] = "clean"
                       /\ odsOrders[KeyOf[p][1]] # NoRow /\ Date[KeyOf[p][1]] = d})
===============================================================================
