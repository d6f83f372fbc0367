------------------------------- MODULE Validation -------------------------------
(***************************************************************************)
(* The two INSERT statements of each of the six processors: which source   *)
(* rows the clean INSERT keeps, which the error INSERT keeps, the error    *)
(* message, the derived columns, and what the two target tables accept.    *)
(*                                                                         *)
(* A string column is Null or its CHAR_LENGTH, a column compared with an   *)
(* IN list is Null or its text, an amount or a date is Null or an integer. *)
(* Each condition appears twice in a processor, once in either INSERT, and *)
(* is translated twice here: that the two copies agree is a property.      *)
(***************************************************************************)
EXTENDS ThreeValued

Tables == {"orders", "order_items", "products", "reviews", "payments", "customers"}

(* What the columns read by the job can hold in PostgreSQL.  A primary key *)
(* is never Null; DEFAULT FALSE does not exclude an explicit NULL.         *)
Varchar(n) == 0..n \cup {Null}
Number     == Int \cup {Null}
Flag       == BOOLEAN \cup {Null}
Word       == STRING \cup {Null}

SourceRows ==
  [table : {"orders"}, order_id : 0..50, customer_id : Varchar(50), order_status : Word,
   purchased : Number, delivered : Number, estimated : Number, is_deleted : Flag]
  \cup
  [table : {"order_items"}, order_id : Varchar(50), product_id : Varchar(50),
   price : Number, freight_value : Number, is_deleted : Flag]
  \cup
  [table : {"products"}, product_id : 0..50, category_name : Varchar(100),
   is_deleted : Flag]
  \cup
  [table : {"reviews"}, order_id : Varchar(50), review_score : Number, is_deleted : Flag]
  \cup
  [table : {"payments"}, order_id : Varchar(50), payment_type : Word,
   payment_value : Number, is_deleted : Flag]
  \cup
  [table : {"customers"}, customer_id : 0..50, customer_unique_id : Varchar(50),
   customer_city : Varchar(100), customer_state : Varchar(10), is_deleted : Flag]

NoMessage == "Unknown validation error"

(* The category columns, which the clean tables declare NOT NULL. *)
PriceCategories   == {"Premium", "Standard", "Budget"}
ReviewCategories  == {"Excellent", "Good", "Fair", "Poor"}
PaymentCategories == {"High Value Payment", "Medium Value Payment", "Low Value Payment"}

ASSUME CategoryAssumption ==
  Null \notin PriceCategories \cup ReviewCategories \cup PaymentCategories

(* `c IS NOT NULL AND CHAR_LENGTH(c) <= n`, and the WHEN that blames c. *)
Text(c, n)    == All3({IsNotNull(c), AtMost(c, n)})
BadText(c, n) == Any3({IsNull(c), MoreThan(c, n)})

Between(c, lo, hi)    == All3({IsNotNull(c), AtLeast(c, lo), AtMost(c, hi)})
NotBetween(c, lo, hi) == Any3({IsNull(c), LessThan(c, lo), MoreThan(c, hi)})

-------------------------------------------------------------------------------
(* Orders *)

Statuses == {"pending", "processing", "shipped", "delivered", "cancelled"}

OrderKept(r) ==
  All3({Text(r.order_id, 50), Text(r.customer_id, 50),
        InList(r.order_status, Statuses), IsNotNull(r.purchased)})

(* Slip: the copy in the error INSERT has a shorter limit. *)
OrderRejectedNarrower(r) ==
  Not3(All3({Text(r.order_id, 50), Text(r.customer_id, 40),
             InList(r.order_status, Statuses), IsNotNull(r.purchased)}))

OrderRejected(r) ==
  Not3(All3({Text(r.order_id, 50), Text(r.customer_id, 50),
             InList(r.order_status, Statuses), IsNotNull(r.purchased)}))

OrderMessage(r) ==
  SqlCase(<< <<BadText(r.order_id, 50), "Invalid order ID">>,
             <<BadText(r.customer_id, 50), "Invalid customer ID">>,
             <<Not3(InList(r.order_status, Statuses)), "Invalid order status">>,
             <<IsNull(r.purchased), "Missing timestamp">> >>, NoMessage)

(* order_year, order_month and order_day all come from the purchase time. *)
OrderDerived(r) ==
  [order_day |-> r.purchased,
   is_delivered |-> Passes(InList(r.order_status, {"delivered"})),
   delivery_delay_days |->
     IF r.delivered = Null \/ r.estimated = Null THEN Null ELSE r.delivered - r.estimated]

-------------------------------------------------------------------------------
(* Order items *)

ItemKept(r) ==
  All3({Text(r.order_id, 50), Text(r.product_id, 50),
        Between(r.price, 0, 10000), Between(r.freight_value, 0, 10000)})

(* Slip: the copy in the error INSERT has a zero too many. *)
ItemRejectedWider(r) ==
  Not3(All3({Text(r.order_id, 50), Text(r.product_id, 50),
             Between(r.price, 0, 100000), Between(r.freight_value, 0, 10000)}))

ItemRejected(r) ==
  Not3(All3({Text(r.order_id, 50), Text(r.product_id, 50),
             Between(r.price, 0, 10000), Between(r.freight_value, 0, 10000)}))

ItemMessage(r) ==
  SqlCase(<< <<BadText(r.order_id, 50), "Invalid order ID">>,
             <<BadText(r.product_id, 50), "Invalid product ID">>,
             <<NotBetween(r.price, 0, 10000), "Invalid price">>,
             <<NotBetween(r.freight_value, 0, 10000), "Invalid freight value">> >>, NoMessage)

ItemDerived(r) ==
  [total_item_value |-> IF Null \in {r.price, r.freight_value} THEN Null
                        ELSE r.price + r.freight_value,
   price_category |-> SqlCase(<< <<MoreThan(r.price, 500), "Premium">>,
                                 <<MoreThan(r.price, 100), "Standard">> >>, "Budget")]

-------------------------------------------------------------------------------
(* Products *)

(* Slip: the category is not checked. *)
ProductKeptUncategorised(r) == Text(r.product_id, 50)

ProductKept(r) == All3({Text(r.product_id, 50), Text(r.category_name, 100)})

ProductRejected(r) == Not3(All3({Text(r.product_id, 50), Text(r.category_name, 100)}))

ProductMessage(r) ==
  SqlCase(<< <<BadText(r.product_id, 50), "Invalid product ID">>,
             <<BadText(r.category_name, 100), "Invalid category name">> >>, NoMessage)

-------------------------------------------------------------------------------
(* Reviews *)

ReviewKept(r) == All3({Text(r.order_id, 50), Between(r.review_score, 1, 5)})

ReviewRejected(r) == Not3(All3({Text(r.order_id, 50), Between(r.review_score, 1, 5)}))

ReviewMessage(r) ==
  SqlCase(<< <<BadText(r.order_id, 50), "Invalid order ID">>,
             <<NotBetween(r.review_score, 1, 5), "Invalid review score (must be 1-5)">> >>,
          NoMessage)

ReviewDerived(r) ==
  [review_category |->
     SqlCase(<< <<AtLeast(r.review_score, 4), "Excellent">>,
                <<InList(r.review_score, {3}), "Good">>,
                <<InList(r.review_score, {2}), "Fair">> >>, "Poor"),
   is_positive_review |-> Passes(AtLeast(r.review_score, 3))]

-------------------------------------------------------------------------------
(* Payments *)

PaymentTypes == {"credit_card", "debit_card", "voucher", "boleto"}

Payable(c)     == All3({IsNotNull(c), MoreThan(c, 0), AtMost(c, 50000)})
NotPositive(c) == Any3({IsNull(c), AtMost(c, 0)})

PaymentKept(r) ==
  All3({Text(r.order_id, 50), InList(r.payment_type, PaymentTypes),
        Payable(r.payment_value)})

PaymentRejected(r) ==
  Not3(All3({Text(r.order_id, 50), InList(r.payment_type, PaymentTypes),
             Payable(r.payment_value)}))

(* Slip: no branch for the upper limit. *)
PaymentMessageUncapped(r) ==
  SqlCase(<< <<BadText(r.order_id, 50), "Invalid order ID">>,
             <<Not3(InList(r.payment_type, PaymentTypes)), "Invalid payment type">>,
             <<NotPositive(r.payment_value), "Invalid payment value">> >>, NoMessage)

PaymentMessage(r) ==
  SqlCase(<< <<BadText(r.order_id, 50), "Invalid order ID">>,
             <<Not3(InList(r.payment_type, PaymentTypes)), "Invalid payment type">>,
             <<NotPositive(r.payment_value), "Invalid payment value">>,
             <<MoreThan(r.payment_value, 50000), "Payment value too high">> >>, NoMessage)

(* Slip: the flag includes its threshold, the category does not. *)
PaymentDerivedFromThreshold(r) ==
  [payment_category |->
     SqlCase(<< <<MoreThan(r.payment_value, 1000), "High Value Payment">>,
                <<MoreThan(r.payment_value, 100), "Medium Value Payment">> >>,
             "Low Value Payment"),
   is_high_value |-> Passes(AtLeast(r.payment_value, 1000))]

PaymentDerived(r) ==
  [payment_category |->
     SqlCase(<< <<MoreThan(r.payment_value, 1000), "High Value Payment">>,
                <<MoreThan(r.payment_value, 100), "Medium Value Payment">> >>,
             "Low Value Payment"),
   is_high_value |-> Passes(MoreThan(r.payment_value, 1000))]

-------------------------------------------------------------------------------
(* Customers *)

CustomerKept(r) ==
  All3({Text(r.customer_id, 50), Text(r.customer_unique_id, 50),
        Text(r.customer_city, 100), Text(r.customer_state, 10)})

CustomerRejected(r) ==
  Not3(All3({Text(r.customer_id, 50), Text(r.customer_unique_id, 50),
             Text(r.customer_city, 100), Text(r.customer_state, 10)}))

CustomerMessage(r) ==
  SqlCase(<< <<BadText(r.customer_id, 50), "Invalid customer ID">>,
             <<BadText(r.customer_unique_id, 50), "Invalid customer unique ID">>,
             <<BadText(r.customer_city, 100), "Invalid customer city">>,
             <<BadText(r.customer_state, 10), "Invalid customer state">> >>, NoMessage)

-------------------------------------------------------------------------------
(* One row, two INSERTs *)

KeptByClean(r) ==
  Passes(CASE r.table = "orders"      -> OrderKept(r)
           [] r.table = "order_items" -> ItemKept(r)
           [] r.table = "products"    -> ProductKept(r)
           [] r.table = "reviews"     -> ReviewKept(r)
           [] r.table = "payments"    -> PaymentKept(r)
           [] r.table = "customers"   -> CustomerKept(r))

KeptByError(r) ==
  Passes(CASE r.table = "orders"      -> OrderRejected(r)
           [] r.table = "order_items" -> ItemRejected(r)
           [] r.table = "products"    -> ProductRejected(r)
           [] r.table = "reviews"     -> ReviewRejected(r)
           [] r.table = "payments"    -> PaymentRejected(r)
           [] r.table = "customers"   -> CustomerRejected(r))

Message(r) ==
  CASE r.table = "orders"      -> OrderMessage(r)
    [] r.table = "order_items" -> ItemMessage(r)
    [] r.table = "products"    -> ProductMessage(r)
    [] r.table = "reviews"     -> ReviewMessage(r)
    [] r.table = "payments"    -> PaymentMessage(r)
    [] r.table = "customers"   -> CustomerMessage(r)

(* The derived columns of the tables that have numeric or boolean ones;    *)
(* category_group and state_region, looked up in the text, are left out.   *)
Derived(r) ==
  CASE r.table = "orders"      -> OrderDerived(r)
    [] r.table = "order_items" -> ItemDerived(r)
    [] r.table = "reviews"     -> ReviewDerived(r)
    [] r.table = "payments"    -> PaymentDerived(r)
    [] OTHER                   -> <<>>

(* PRIMARY KEY of the source table and of both sinks; the error sink adds  *)
(* error_timestamp.  Flink types a key column NOT NULL, so for a row with  *)
(* a Null there the planner may fold the null tests away: what the job     *)
(* does with such a row (keep, drop, fail) is undefined.                   *)
KeyColumns(t) ==
  CASE t = "orders"      -> {"order_id"}
    [] t = "order_items" -> {"order_id", "product_id"}
    [] t = "products"    -> {"product_id"}
    [] t = "reviews"     -> {"order_id"}
    [] t = "payments"    -> {"order_id", "payment_type"}
    [] t = "customers"   -> {"customer_id"}

NullInKey(r) == \E c \in KeyColumns(r.table) : r[c] = Null

(* NOT NULL columns of the clean tables, besides the derived ones, and the *)
(* VARCHAR columns with their sizes.                                       *)
CleanRequired(t) ==
  {"is_deleted"} \cup
  CASE t = "orders"      -> {"order_id", "customer_id", "order_status", "purchased"}
    [] t = "order_items" -> {"order_id", "product_id", "price", "freight_value"}
    [] t = "products"    -> {"product_id", "category_name"}
    [] t = "reviews"     -> {"order_id", "review_score"}
    [] t = "payments"    -> {"order_id", "payment_type", "payment_value"}
    [] t = "customers"   -> {"customer_id", "customer_unique_id", "customer_city",
                             "customer_state"}

CleanSize(t) ==
  CASE t = "orders"      -> [order_id |-> 50, customer_id |-> 50]
    [] t = "order_items" -> [order_id |-> 50, product_id |-> 50]
    [] t = "products"    -> [product_id |-> 50, category_name |-> 100]
    [] t \in {"reviews", "payments"} -> [order_id |-> 50]
    [] t = "customers"   -> [customer_id |-> 50, customer_unique_id |-> 50,
                             customer_city |-> 100, customer_state |-> 10]

(* The error tables repeat the sizes of the clean ones. *)
ErrorSize(t) == CleanSize(t)

Fits(r, size) == \A c \in DOMAIN size : r[c] = Null \/ r[c] <= size[c]

(* A row the clean table refuses fails its whole stream load, and with it  *)
(* the job.  The derived NOT NULL columns are those of Derived, the delay  *)
(* excepted.                                                               *)
CleanLoads(r) ==
  /\ \A c \in CleanRequired(r.table) : r[c] # Null
  /\ \A c \in DOMAIN Derived(r) \ {"delivery_delay_days"} : Derived(r)[c] # Null
  /\ Fits(r, CleanSize(r.table))

ErrorLoads(r) == ~NullInKey(r) /\ Fits(r, ErrorSize(r.table))

(* What becomes of a source row: "poison" can never be written where it is *)
(* routed, "dropped" passes neither WHERE.                                 *)
Outcome(r) ==
  IF NullInKey(r) THEN "undefined"
  ELSE IF KeptByClean(r) THEN IF CleanLoads(r) THEN "clean" ELSE "poison"
  ELSE IF KeptByError(r) THEN IF ErrorLoads(r) THEN "error" ELSE "poison"
  ELSE "dropped"
===============================================================================
