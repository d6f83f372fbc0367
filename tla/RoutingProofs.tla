----------------------------- MODULE RoutingProofs -----------------------------
(***************************************************************************)
(* The routing properties, for every row PostgreSQL can hold: whatever the *)
(* length of its texts and the size of its amounts.                        *)
(***************************************************************************)
EXTENDS Routing, TLAPS

USE NullAssumption

-------------------------------------------------------------------------------
(* SQL expressions *)

(* A non-empty set of branch numbers has a first one. *)
LEMMA FirstHit ==
  ASSUME NEW S \in SUBSET (1..4), S # {}
  PROVE  \E i \in S : \A j \in S : i <= j
<1>1. CASE 1 \in S
  BY <1>1
<1>2. CASE 1 \notin S /\ 2 \in S
  BY <1>2
<1>3. CASE 1 \notin S /\ 2 \notin S /\ 3 \in S
  BY <1>3
<1>4. CASE 1 \notin S /\ 2 \notin S /\ 3 \notin S
  <2>1. \A j \in S : j = 4
    BY <1>4
  <2>2. 4 \in S
    BY <2>1
  <2> QED BY <2>1, <2>2
<1> QED BY <1>1, <1>2, <1>3, <1>4

(* CASE returns the value of the first WHEN that passes, if one does. *)
LEMMA CaseValue ==
  ASSUME NEW n \in 1..4, NEW b, DOMAIN b = 1..n, NEW o
  PROVE  /\ (\A i \in 1..n : ~Passes(b[i][1])) => SqlCase(b, o) = o
         /\ (\E i \in 1..n : Passes(b[i][1])) =>
              \E i \in 1..n : /\ Passes(b[i][1]) /\ SqlCase(b, o) = b[i][2]
                              /\ \A j \in 1..n : Passes(b[j][1]) => i <= j
<1> DEFINE hits == {i \in DOMAIN b : Passes(b[i][1])}
           first == CHOOSE i \in hits : \A j \in hits : i <= j
<1>1. SqlCase(b, o) = IF hits = {} THEN o ELSE b[first][2]
  BY DEF SqlCase
<1>2. ASSUME hits # {} PROVE first \in hits /\ \A j \in hits : first <= j
  <2>1. hits \in SUBSET (1..4)
    OBVIOUS
  <2>2. \E i \in hits : \A j \in hits : i <= j
    BY <1>2, <2>1, FirstHit
  <2> QED BY <2>2
<1> HIDE DEF first
<1> QED BY <1>1, <1>2

(* If some branch passes and all are named, so is the result. *)
LEMMA CaseNamed ==
  ASSUME NEW n \in 1..4, NEW b, DOMAIN b = 1..n, \A i \in 1..n : b[i][2] # NoMessage,
         NEW k \in 1..n, b[k][1] = "true"
  PROVE  SqlCase(b, NoMessage) # NoMessage
<1>1. Passes(b[k][1])
  BY DEF Passes
<1>2. (\E i \in 1..n : Passes(b[i][1])) =>
         \E i \in 1..n : /\ Passes(b[i][1]) /\ SqlCase(b, NoMessage) = b[i][2]
                         /\ \A j \in 1..n : Passes(b[j][1]) => i <= j
  BY CaseValue, Zenon
<1>3. \E i \in 1..n : SqlCase(b, NoMessage) = b[i][2]
  BY <1>1, <1>2
<1> QED BY <1>3

(* The length conditions on a text are never unknown, and the WHEN of the  *)
(* error message is their complement.                                      *)
LEMMA TextDecided ==
  ASSUME NEW n \in Nat, NEW c \in Varchar(100)
  PROVE  /\ Text(c, n) \in {"true", "false"}
         /\ Text(c, n) = "false" => BadText(c, n) = "true"
         /\ Text(c, n) = "true" => c # Null
<1>1. CASE c = Null
  BY <1>1 DEF Text, BadText, All3, Any3, IsNotNull, IsNull, AtMost, MoreThan, Compare, Holds3
<1>2. CASE c \in 0..100
  BY <1>2 DEF Text, BadText, All3, Any3, IsNotNull, IsNull, AtMost, MoreThan, Compare, Holds3
<1> QED BY <1>1, <1>2 DEF Varchar

(* So are the conditions on a range, and on a payment. *)
LEMMA RangeDecided ==
  ASSUME NEW lo \in Int, NEW hi \in Int, NEW c \in Number
  PROVE  /\ Between(c, lo, hi) \in {"true", "false"}
         /\ Between(c, lo, hi) = "false" => NotBetween(c, lo, hi) = "true"
         /\ Between(c, lo, hi) = "true" => c # Null
<1>1. CASE c = Null
  BY <1>1 DEF Between, NotBetween, All3, Any3, IsNotNull, IsNull, AtMost, AtLeast,
       MoreThan, LessThan, Compare, Holds3
<1>2. CASE c \in Int
  BY <1>2 DEF Between, NotBetween, All3, Any3, IsNotNull, IsNull, AtMost, AtLeast,
       MoreThan, LessThan, Compare, Holds3
<1> QED BY <1>1, <1>2 DEF Number

(* An amount is payable, or the message says what is wrong with it. *)
LEMMA PayableDecided ==
  ASSUME NEW c \in Number
  PROVE  /\ Payable(c) \in {"true", "false"}
         /\ Payable(c) = "false" => NotPositive(c) = "true" \/ MoreThan(c, 50000) = "true"
         /\ Payable(c) = "true" => c # Null
<1>1. CASE c = Null
  BY <1>1 DEF Payable, NotPositive, All3, Any3, IsNotNull, IsNull, AtMost, MoreThan, Compare, Holds3
<1>2. CASE c \in Int
  BY <1>2 DEF Payable, NotPositive, All3, Any3, IsNotNull, IsNull, AtMost, MoreThan, Compare, Holds3
<1> QED BY <1>1, <1>2 DEF Number

(* An IN list is unknown for Null only, and NOT IN is its complement. *)
LEMMA ListDecided ==
  ASSUME NEW c, NEW L
  PROVE  /\ InList(c, L) \in Truth
         /\ InList(c, L) = "unknown" <=> c = Null
         /\ InList(c, L) = "false" => Not3(InList(c, L)) = "true"
BY DEF InList, Compare, Holds3, Not3, Truth

(* A test for NULL is decided, and IS NULL is its complement. *)
LEMMA NullDecided ==
  ASSUME NEW c
  PROVE  /\ IsNotNull(c) \in {"true", "false"}
         /\ IsNotNull(c) = "false" => IsNull(c) = "true"
         /\ IsNotNull(c) = "true" => c # Null
BY DEF IsNull, IsNotNull, Holds3

(* A WHERE over conditions, the WHERE NOT over the same conditions, and an *)
(* error message with a WHEN for every one of them.                        *)
LEMMA TwoInserts ==
  ASSUME NEW C \in SUBSET Truth, NEW n \in 1..4, NEW b, DOMAIN b = 1..n,
         \A i \in 1..n : b[i][2] # NoMessage,
         "false" \in C => \E k \in 1..n : b[k][1] = "true"
  PROVE  /\ Passes(All3(C)) <=> "false" \notin C /\ "unknown" \notin C
         /\ Passes(Not3(All3(C))) <=> "false" \in C
         /\ Passes(Not3(All3(C))) => SqlCase(b, NoMessage) # NoMessage
<1>1. /\ Passes(All3(C)) <=> "false" \notin C /\ "unknown" \notin C
      /\ Passes(Not3(All3(C))) <=> "false" \in C
  BY DEF Truth, Passes, All3, Not3
<1>2. ASSUME NEW k \in 1..n, b[k][1] = "true" PROVE SqlCase(b, NoMessage) # NoMessage
  BY <1>2, CaseNamed
<1> QED BY <1>1, <1>2

-------------------------------------------------------------------------------
(* The two INSERTs of each processor on a row of its table: no row passes  *)
(* both, one that passes neither has a Null that the conditions overlook,  *)
(* a rejected one has its fault named, and a kept one has the columns the  *)
(* clean table requires.                                                   *)

(* OrderProcessor. *)
LEMMA OrderRouting ==
  ASSUME NEW r, r.order_id \in Varchar(100), r.customer_id \in Varchar(100)
  PROVE  /\ ~(Passes(OrderKept(r)) /\ Passes(OrderRejected(r)))
         /\ Passes(OrderKept(r)) \/ Passes(OrderRejected(r)) \/ r.order_status = Null
         /\ Passes(OrderRejected(r)) => OrderMessage(r) # NoMessage
         /\ Passes(OrderKept(r)) =>
              Null \notin {r.order_id, r.customer_id, r.order_status, r.purchased}
<1> DEFINE c1 == Text(r.order_id, 50)
           c2 == Text(r.customer_id, 50)
           c3 == InList(r.order_status, Statuses)
           c4 == IsNotNull(r.purchased)
           b  == << <<BadText(r.order_id, 50), "Invalid order ID">>,
                    <<BadText(r.customer_id, 50), "Invalid customer ID">>,
                    <<Not3(c3), "Invalid order status">>,
                    <<IsNull(r.purchased), "Missing timestamp">> >>
<1>1. /\ c1 \in {"true", "false"} /\ (c1 = "true" => r.order_id # Null)
      /\ c2 \in {"true", "false"} /\ (c2 = "true" => r.customer_id # Null)
      /\ c3 \in Truth /\ (c3 = "unknown" <=> r.order_status = Null)
      /\ c4 \in {"true", "false"} /\ (c4 = "true" => r.purchased # Null)
  BY TextDecided, ListDecided, NullDecided
<1>2. /\ OrderKept(r) = All3({c1, c2, c3, c4})
      /\ OrderRejected(r) = Not3(All3({c1, c2, c3, c4}))
      /\ OrderMessage(r) = SqlCase(b, NoMessage)
  BY DEF OrderKept, OrderRejected, OrderMessage
<1>3. /\ c1 = "false" => b[1][1] = "true"
      /\ c2 = "false" => b[2][1] = "true"
      /\ c3 = "false" => b[3][1] = "true"
      /\ c4 = "false" => b[4][1] = "true"
  BY TextDecided, ListDecided, NullDecided
<1>4. /\ DOMAIN b = 1..4
      /\ b[1][2] # NoMessage /\ b[2][2] # NoMessage
      /\ b[3][2] # NoMessage /\ b[4][2] # NoMessage
  BY DEF NoMessage
<1> HIDE DEF b, c1, c2, c3, c4
<1>5. "false" \in {c1, c2, c3, c4} => \E k \in 1..4 : b[k][1] = "true"
  BY <1>3
<1>6. \A i \in 1..4 : b[i][2] # NoMessage
  BY <1>4
<1>7. {c1, c2, c3, c4} \in SUBSET Truth
  BY <1>1 DEF Truth
<1> QED
  BY <1>1, <1>2, <1>4, <1>5, <1>6, <1>7, TwoInserts

(* OrderItemProcessor. *)
LEMMA ItemRouting ==
  ASSUME NEW r, r.order_id \in Varchar(100), r.product_id \in Varchar(100),
         r.price \in Number, r.freight_value \in Number
  PROVE  /\ ~(Passes(ItemKept(r)) /\ Passes(ItemRejected(r)))
         /\ Passes(ItemKept(r)) \/ Passes(ItemRejected(r))
         /\ Passes(ItemRejected(r)) => ItemMessage(r) # NoMessage
         /\ Passes(ItemKept(r)) =>
              Null \notin {r.order_id, r.product_id, r.price, r.freight_value}
<1> DEFINE c1 == Text(r.order_id, 50)
           c2 == Text(r.product_id, 50)
           c3 == Between(r.price, 0, 10000)
           c4 == Between(r.freight_value, 0, 10000)
           b  == << <<BadText(r.order_id, 50), "Invalid order ID">>,
                    <<BadText(r.product_id, 50), "Invalid product ID">>,
                    <<NotBetween(r.price, 0, 10000), "Invalid price">>,
                    <<NotBetween(r.freight_value, 0, 10000), "Invalid freight value">> >>
<1>1. /\ c1 \in {"true", "false"} /\ (c1 = "true" => r.order_id # Null)
      /\ c2 \in {"true", "false"} /\ (c2 = "true" => r.product_id # Null)
      /\ c3 \in {"true", "false"} /\ (c3 = "true" => r.price # Null)
      /\ c4 \in {"true", "false"} /\ (c4 = "true" => r.freight_value # Null)
  BY TextDecided, RangeDecided
<1>2. /\ ItemKept(r) = All3({c1, c2, c3, c4})
      /\ ItemRejected(r) = Not3(All3({c1, c2, c3, c4}))
      /\ ItemMessage(r) = SqlCase(b, NoMessage)
  BY DEF ItemKept, ItemRejected, ItemMessage
<1>3. /\ c1 = "false" => b[1][1] = "true"
      /\ c2 = "false" => b[2][1] = "true"
      /\ c3 = "false" => b[3][1] = "true"
      /\ c4 = "false" => b[4][1] = "true"
  BY TextDecided, RangeDecided
<1>4. /\ DOMAIN b = 1..4
      /\ b[1][2] # NoMessage /\ b[2][2] # NoMessage
      /\ b[3][2] # NoMessage /\ b[4][2] # NoMessage
  BY DEF NoMessage
<1> HIDE DEF b, c1, c2, c3, c4
<1>5. "false" \in {c1, c2, c3, c4} => \E k \in 1..4 : b[k][1] = "true"
  BY <1>3
<1>6. \A i \in 1..4 : b[i][2] # NoMessage
  BY <1>4
<1>7. {c1, c2, c3, c4} \in SUBSET Truth
  BY <1>1 DEF Truth
<1> QED
  BY <1>1, <1>2, <1>4, <1>5, <1>6, <1>7, TwoInserts

(* ProductProcessor. *)
LEMMA ProductRouting ==
  ASSUME NEW r, r.product_id \in Varchar(100), r.category_name \in Varchar(100)
  PROVE  /\ ~(Passes(ProductKept(r)) /\ Passes(ProductRejected(r)))
         /\ Passes(ProductKept(r)) \/ Passes(ProductRejected(r))
         /\ Passes(ProductRejected(r)) => ProductMessage(r) # NoMessage
         /\ Passes(ProductKept(r)) =>
              Null \notin {r.product_id, r.category_name}
<1> DEFINE c1 == Text(r.product_id, 50)
           c2 == Text(r.category_name, 100)
           b  == << <<BadText(r.product_id, 50), "Invalid product ID">>,
                    <<BadText(r.category_name, 100), "Invalid category name">> >>
<1>1. /\ c1 \in {"true", "false"} /\ (c1 = "true" => r.product_id # Null)
      /\ c2 \in {"true", "false"} /\ (c2 = "true" => r.category_name # Null)
  BY TextDecided
<1>2. /\ ProductKept(r) = All3({c1, c2})
      /\ ProductRejected(r) = Not3(All3({c1, c2}))
      /\ ProductMessage(r) = SqlCase(b, NoMessage)
  BY DEF ProductKept, ProductRejected, ProductMessage
<1>3. /\ c1 = "false" => b[1][1] = "true"
      /\ c2 = "false" => b[2][1] = "true"
  BY TextDecided
<1>4. /\ DOMAIN b = 1..2
      /\ b[1][2] # NoMessage /\ b[2][2] # NoMessage
  BY DEF NoMessage
<1> HIDE DEF b, c1, c2
<1>5. "false" \in {c1, c2} => \E k \in 1..2 : b[k][1] = "true"
  BY <1>3
<1>6. \A i \in 1..2 : b[i][2] # NoMessage
  BY <1>4
<1>7. {c1, c2} \in SUBSET Truth
  BY <1>1 DEF Truth
<1> QED
  BY <1>1, <1>2, <1>4, <1>5, <1>6, <1>7, TwoInserts

(* ReviewProcessor. *)
LEMMA ReviewRouting ==
  ASSUME NEW r, r.order_id \in Varchar(100), r.review_score \in Number
  PROVE  /\ ~(Passes(ReviewKept(r)) /\ Passes(ReviewRejected(r)))
         /\ Passes(ReviewKept(r)) \/ Passes(ReviewRejected(r))
         /\ Passes(ReviewRejected(r)) => ReviewMessage(r) # NoMessage
         /\ Passes(ReviewKept(r)) =>
              Null \notin {r.order_id, r.review_score}
<1> DEFINE c1 == Text(r.order_id, 50)
           c2 == Between(r.review_score, 1, 5)
           b  == << <<BadText(r.order_id, 50), "Invalid order ID">>,
                    <<NotBetween(r.review_score, 1, 5), "Invalid review score (must be 1-5)">> >>
<1>1. /\ c1 \in {"true", "false"} /\ (c1 = "true" => r.order_id # Null)
      /\ c2 \in {"true", "false"} /\ (c2 = "true" => r.review_score # Null)
  <2>1. c1 \in {"true", "false"} /\ (c1 = "true" => r.order_id # Null)
    BY TextDecided
  <2>2. c2 \in {"true", "false"} /\ (c2 = "true" => r.review_score # Null)
    BY RangeDecided
  <2> QED BY <2>1, <2>2
<1>2. /\ ReviewKept(r) = All3({c1, c2})
      /\ ReviewRejected(r) = Not3(All3({c1, c2}))
      /\ ReviewMessage(r) = SqlCase(b, NoMessage)
  BY DEF ReviewKept, ReviewRejected, ReviewMessage
<1>3. /\ c1 = "false" => b[1][1] = "true"
      /\ c2 = "false" => b[2][1] = "true"
  <2>1. c1 = "false" => BadText(r.order_id, 50) = "true"
    BY TextDecided
  <2>2. c2 = "false" => NotBetween(r.review_score, 1, 5) = "true"
    BY RangeDecided
  <2> QED BY <2>1, <2>2
<1>4. /\ DOMAIN b = 1..2
      /\ b[1][2] # NoMessage /\ b[2][2] # NoMessage
  BY DEF NoMessage
<1> HIDE DEF b, c1, c2
<1>5. "false" \in {c1, c2} => \E k \in 1..2 : b[k][1] = "true"
  BY <1>3
<1>6. \A i \in 1..2 : b[i][2] # NoMessage
  BY <1>4
<1>7. {c1, c2} \in SUBSET Truth
  BY <1>1 DEF Truth
<1> QED
  BY <1>1, <1>2, <1>4, <1>5, <1>6, <1>7, TwoInserts

(* PaymentProcessor. *)
LEMMA PaymentRouting ==
  ASSUME NEW r, r.order_id \in Varchar(100), r.payment_value \in Number
  PROVE  /\ ~(Passes(PaymentKept(r)) /\ Passes(PaymentRejected(r)))
         /\ Passes(PaymentKept(r)) \/ Passes(PaymentRejected(r)) \/ r.payment_type = Null
         /\ Passes(PaymentRejected(r)) => PaymentMessage(r) # NoMessage
         /\ Passes(PaymentKept(r)) =>
              Null \notin {r.order_id, r.payment_type, r.payment_value}
<1> DEFINE c1 == Text(r.order_id, 50)
           c2 == InList(r.payment_type, PaymentTypes)
           c3 == Payable(r.payment_value)
           b  == << <<BadText(r.order_id, 50), "Invalid order ID">>,
                    <<Not3(c2), "Invalid payment type">>,
                    <<NotPositive(r.payment_value), "Invalid payment value">>,
                    <<MoreThan(r.payment_value, 50000), "Payment value too high">> >>
<1>1. /\ c1 \in {"true", "false"} /\ (c1 = "true" => r.order_id # Null)
      /\ c2 \in Truth /\ (c2 = "unknown" <=> r.payment_type = Null)
      /\ c3 \in {"true", "false"} /\ (c3 = "true" => r.payment_value # Null)
  <2>1. c1 \in {"true", "false"} /\ (c1 = "true" => r.order_id # Null)
    BY TextDecided
  <2>2. c2 \in Truth /\ (c2 = "unknown" <=> r.payment_type = Null)
    BY ListDecided
  <2>3. c3 \in {"true", "false"} /\ (c3 = "true" => r.payment_value # Null)
    BY PayableDecided
  <2> QED BY <2>1, <2>2, <2>3
<1>2. /\ PaymentKept(r) = All3({c1, c2, c3})
      /\ PaymentRejected(r) = Not3(All3({c1, c2, c3}))
      /\ PaymentMessage(r) = SqlCase(b, NoMessage)
  BY DEF PaymentKept, PaymentRejected, PaymentMessage
<1>3. /\ c1 = "false" => b[1][1] = "true"
      /\ c2 = "false" => b[2][1] = "true"
      /\ c3 = "false" => b[3][1] = "true" \/ b[4][1] = "true"
  <2>1. c1 = "false" => BadText(r.order_id, 50) = "true"
    BY TextDecided
  <2>2. c2 = "false" => Not3(c2) = "true"
    BY ListDecided
  <2>3. c3 = "false" => NotPositive(r.payment_value) = "true" \/ MoreThan(r.payment_value, 50000) = "true"
    BY PayableDecided
  <2> QED BY <2>1, <2>2, <2>3
<1>4. /\ DOMAIN b = 1..4
      /\ b[1][2] # NoMessage /\ b[2][2] # NoMessage
      /\ b[3][2] # NoMessage /\ b[4][2] # NoMessage
  BY DEF NoMessage
<1> HIDE DEF b, c1, c2, c3
<1>5. "false" \in {c1, c2, c3} => \E k \in 1..4 : b[k][1] = "true"
  BY <1>3
<1>6. \A i \in 1..4 : b[i][2] # NoMessage
  BY <1>4
<1>7. {c1, c2, c3} \in SUBSET Truth
  BY <1>1 DEF Truth
<1> QED
  BY <1>1, <1>2, <1>4, <1>5, <1>6, <1>7, TwoInserts

(* CustomerProcessor. *)
LEMMA CustomerRouting ==
  ASSUME NEW r, r.customer_id \in Varchar(100),
         r.customer_unique_id \in Varchar(100), r.customer_city \in Varchar(100),
         r.customer_state \in Varchar(100)
  PROVE  /\ ~(Passes(CustomerKept(r)) /\ Passes(CustomerRejected(r)))
         /\ Passes(CustomerKept(r)) \/ Passes(CustomerRejected(r))
         /\ Passes(CustomerRejected(r)) => CustomerMessage(r) # NoMessage
         /\ Passes(CustomerKept(r)) =>
              Null \notin {r.customer_id, r.customer_unique_id, r.customer_city, r.customer_state}
<1> DEFINE c1 == Text(r.customer_id, 50)
           c2 == Text(r.customer_unique_id, 50)
           c3 == Text(r.customer_city, 100)
           c4 == Text(r.customer_state, 10)
           b  == << <<BadText(r.customer_id, 50), "Invalid customer ID">>,
                    <<BadText(r.customer_unique_id, 50), "Invalid customer unique ID">>,
                    <<BadText(r.customer_city, 100), "Invalid customer city">>,
                    <<BadText(r.customer_state, 10), "Invalid customer state">> >>
<1>1. /\ c1 \in {"true", "false"} /\ (c1 = "true" => r.customer_id # Null)
      /\ c2 \in {"true", "false"} /\ (c2 = "true" => r.customer_unique_id # Null)
      /\ c3 \in {"true", "false"} /\ (c3 = "true" => r.customer_city # Null)
      /\ c4 \in {"true", "false"} /\ (c4 = "true" => r.customer_state # Null)
  BY TextDecided
<1>2. /\ CustomerKept(r) = All3({c1, c2, c3, c4})
      /\ CustomerRejected(r) = Not3(All3({c1, c2, c3, c4}))
      /\ CustomerMessage(r) = SqlCase(b, NoMessage)
  BY DEF CustomerKept, CustomerRejected, CustomerMessage
<1>3. /\ c1 = "false" => b[1][1] = "true"
      /\ c2 = "false" => b[2][1] = "true"
      /\ c3 = "false" => b[3][1] = "true"
      /\ c4 = "false" => b[4][1] = "true"
  BY TextDecided
<1>4. /\ DOMAIN b = 1..4
      /\ b[1][2] # NoMessage /\ b[2][2] # NoMessage
      /\ b[3][2] # NoMessage /\ b[4][2] # NoMessage
  BY DEF NoMessage
<1> HIDE DEF b, c1, c2, c3, c4
<1>5. "false" \in {c1, c2, c3, c4} => \E k \in 1..4 : b[k][1] = "true"
  BY <1>3
<1>6. \A i \in 1..4 : b[i][2] # NoMessage
  BY <1>4
<1>7. {c1, c2, c3, c4} \in SUBSET Truth
  BY <1>1 DEF Truth
<1> QED
  BY <1>1, <1>2, <1>4, <1>5, <1>6, <1>7, TwoInserts

-------------------------------------------------------------------------------
(* Any row *)

(* A CASE over words is one of them. *)
LEMMA CaseWord ==
  ASSUME NEW S, NEW n \in 1..4, NEW b, DOMAIN b = 1..n, \A i \in 1..n : b[i][2] \in S,
         NEW o \in S
  PROVE  SqlCase(b, o) \in S
<1>1. /\ (\A i \in 1..n : ~Passes(b[i][1])) => SqlCase(b, o) = o
      /\ (\E i \in 1..n : Passes(b[i][1])) =>
           \E i \in 1..n : /\ Passes(b[i][1]) /\ SqlCase(b, o) = b[i][2]
                           /\ \A j \in 1..n : Passes(b[j][1]) => i <= j
  BY CaseValue, Zenon
<1> QED BY <1>1

(* A CASE with two branches yields a value of one of them or of ELSE. *)
LEMMA TwoWords ==
  ASSUME NEW S, NEW p, NEW q, NEW u \in S, NEW v \in S, NEW o \in S
  PROVE  SqlCase(<< <<p, u>>, <<q, v>> >>, o) \in S
<1> DEFINE b == << <<p, u>>, <<q, v>> >>
<1>1. DOMAIN b = 1..2
  OBVIOUS
<1>2. b[1][2] = u /\ b[2][2] = v
  OBVIOUS
<1> HIDE DEF b
<1>3. \A i \in 1..2 : b[i][2] \in S
  BY <1>2
<1>4. SqlCase(b, o) \in S
  <2>1. 2 \in 1..4
    OBVIOUS
  <2> QED BY <1>1, <1>3, <2>1, CaseWord, Zenon
<1> QED BY <1>4 DEF b

(* The same with three branches. *)
LEMMA ThreeWords ==
  ASSUME NEW S, NEW p, NEW q, NEW s, NEW u \in S, NEW v \in S, NEW w \in S, NEW o \in S
  PROVE  SqlCase(<< <<p, u>>, <<q, v>>, <<s, w>> >>, o) \in S
<1> DEFINE b == << <<p, u>>, <<q, v>>, <<s, w>> >>
<1>1. DOMAIN b = 1..3
  OBVIOUS
<1>2. b[1][2] = u /\ b[2][2] = v /\ b[3][2] = w
  OBVIOUS
<1> HIDE DEF b
<1>3. \A i \in 1..3 : b[i][2] \in S
  BY <1>2
<1>4. SqlCase(b, o) \in S
  <2>1. 3 \in 1..4
    OBVIOUS
  <2> QED BY <1>1, <1>3, <2>1, CaseWord, Zenon
<1> QED BY <1>4 DEF b

(* The first of two words is chosen exactly when its WHEN passes, and one  *)
(* of the first two of three when one of theirs does.                      *)
LEMMA FirstWord ==
  ASSUME NEW p, NEW q, NEW u, NEW v, NEW o, u # v, u # o
  PROVE  SqlCase(<< <<p, u>>, <<q, v>> >>, o) \in {u} <=> Passes(p)
<1> DEFINE b == << <<p, u>>, <<q, v>> >>
<1>1. DOMAIN b = 1..2
  OBVIOUS
<1>2. b[1][1] = p /\ b[2][1] = q /\ b[1][2] = u /\ b[2][2] = v
  OBVIOUS
<1> HIDE DEF b
<1>3. 2 \in 1..4
  OBVIOUS
<1>4. /\ (\A i \in 1..2 : ~Passes(b[i][1])) => SqlCase(b, o) = o
      /\ (\E i \in 1..2 : Passes(b[i][1])) =>
           \E i \in 1..2 : /\ Passes(b[i][1]) /\ SqlCase(b, o) = b[i][2]
                           /\ \A j \in 1..2 : Passes(b[j][1]) => i <= j
  BY <1>1, <1>3, CaseValue, Zenon
<1>5. SqlCase(b, o) \in {u} <=> Passes(p)
  BY <1>2, <1>4
<1> QED BY <1>5 DEF b

(* When only the first two of three branches yield certain values. *)
LEMMA FirstWords ==
  ASSUME NEW p, NEW q, NEW s, NEW u, NEW v, NEW w, NEW o, w \notin {u, v}, o \notin {u, v}
  PROVE  SqlCase(<< <<p, u>>, <<q, v>>, <<s, w>> >>, o) \in {u, v} <=> Passes(p) \/ Passes(q)
<1> DEFINE b == << <<p, u>>, <<q, v>>, <<s, w>> >>
<1>1. DOMAIN b = 1..3
  OBVIOUS
<1>2. /\ b[1][1] = p /\ b[2][1] = q /\ b[3][1] = s
      /\ b[1][2] = u /\ b[2][2] = v /\ b[3][2] = w
  OBVIOUS
<1> HIDE DEF b
<1>3. 3 \in 1..4
  OBVIOUS
<1>4. /\ (\A i \in 1..3 : ~Passes(b[i][1])) => SqlCase(b, o) = o
      /\ (\E i \in 1..3 : Passes(b[i][1])) =>
           \E i \in 1..3 : /\ Passes(b[i][1]) /\ SqlCase(b, o) = b[i][2]
                           /\ \A j \in 1..3 : Passes(b[j][1]) => i <= j
  BY <1>1, <1>3, CaseValue, Zenon
<1>5. SqlCase(b, o) \in {u, v} <=> Passes(p) \/ Passes(q)
  BY <1>2, <1>4
<1> QED BY <1>5 DEF b

(* Category and flag of a payment and of a review say the same. *)
LEMMA DerivedAgree ==
  ASSUME NEW r
  PROVE  /\ PaymentDerived(r).is_high_value <=>
              PaymentDerived(r).payment_category = "High Value Payment"
         /\ r.review_score \in Number =>
              (ReviewDerived(r).is_positive_review <=>
                 ReviewDerived(r).review_category \in {"Excellent", "Good"})
<1>1. PaymentDerived(r).is_high_value <=>
        PaymentDerived(r).payment_category = "High Value Payment"
  <2> DEFINE p == MoreThan(r.payment_value, 1000)
             q == MoreThan(r.payment_value, 100)
  <2>1. /\ PaymentDerived(r).is_high_value = Passes(p)
        /\ PaymentDerived(r).payment_category =
             SqlCase(<< <<p, "High Value Payment">>, <<q, "Medium Value Payment">> >>,
                     "Low Value Payment")
    BY DEF PaymentDerived
  <2> HIDE DEF p, q
  <2>2. SqlCase(<< <<p, "High Value Payment">>, <<q, "Medium Value Payment">> >>,
                "Low Value Payment") \in {"High Value Payment"} <=> Passes(p)
    BY FirstWord
  <2> QED BY <2>1, <2>2
<1>2. ASSUME r.review_score \in Number
      PROVE  ReviewDerived(r).is_positive_review <=>
               ReviewDerived(r).review_category \in {"Excellent", "Good"}
  <2> DEFINE p == AtLeast(r.review_score, 4)
             q == InList(r.review_score, {3})
             s == InList(r.review_score, {2})
  <2>1. /\ ReviewDerived(r).is_positive_review = Passes(AtLeast(r.review_score, 3))
        /\ ReviewDerived(r).review_category =
             SqlCase(<< <<p, "Excellent">>, <<q, "Good">>, <<s, "Fair">> >>, "Poor")
    BY DEF ReviewDerived
  <2>2. Passes(AtLeast(r.review_score, 3)) <=> Passes(p) \/ Passes(q)
    BY <1>2 DEF Number, Passes, AtLeast, InList, Compare, Holds3
  <2> HIDE DEF p, q, s
  <2>3. SqlCase(<< <<p, "Excellent">>, <<q, "Good">>, <<s, "Fair">> >>, "Poor")
          \in {"Excellent", "Good"} <=> Passes(p) \/ Passes(q)
    BY FirstWords
  <2> QED BY <2>1, <2>2, <2>3
<1> QED BY <1>1, <1>2

(* The derived categories are never Null. *)
LEMMA DerivedWords ==
  ASSUME NEW r
  PROVE  /\ ItemDerived(r).price_category # Null
         /\ ReviewDerived(r).review_category # Null
         /\ PaymentDerived(r).payment_category # Null
<1>1. ItemDerived(r).price_category \in PriceCategories
  <2>1. "Premium" \in PriceCategories /\ "Standard" \in PriceCategories /\ "Budget" \in PriceCategories
    BY DEF PriceCategories
  <2>2. ItemDerived(r).price_category =
          SqlCase(<< <<MoreThan(r.price, 500), "Premium">>,
                     <<MoreThan(r.price, 100), "Standard">> >>, "Budget")
    BY DEF ItemDerived
  <2> DEFINE p == MoreThan(r.price, 500)
             q == MoreThan(r.price, 100)
  <2> HIDE DEF p, q
  <2>3. SqlCase(<< <<p, "Premium">>, <<q, "Standard">> >>, "Budget") \in PriceCategories
    BY <2>1, TwoWords
  <2> QED BY <2>2, <2>3 DEF p, q
<1>2. ReviewDerived(r).review_category \in ReviewCategories
  <2>1. /\ "Excellent" \in ReviewCategories /\ "Good" \in ReviewCategories
        /\ "Fair" \in ReviewCategories /\ "Poor" \in ReviewCategories
    BY DEF ReviewCategories
  <2>2. ReviewDerived(r).review_category =
          SqlCase(<< <<AtLeast(r.review_score, 4), "Excellent">>,
                     <<InList(r.review_score, {3}), "Good">>,
                     <<InList(r.review_score, {2}), "Fair">> >>, "Poor")
    BY DEF ReviewDerived
  <2> DEFINE p == AtLeast(r.review_score, 4)
             q == InList(r.review_score, {3})
             u == InList(r.review_score, {2})
  <2> HIDE DEF p, q, u
  <2>3. SqlCase(<< <<p, "Excellent">>, <<q, "Good">>, <<u, "Fair">> >>, "Poor")
          \in ReviewCategories
    BY <2>1, ThreeWords
  <2> QED BY <2>2, <2>3 DEF p, q, u
<1>3. PaymentDerived(r).payment_category \in PaymentCategories
  <2>1. /\ "High Value Payment" \in PaymentCategories
        /\ "Medium Value Payment" \in PaymentCategories
        /\ "Low Value Payment" \in PaymentCategories
    BY DEF PaymentCategories
  <2>2. PaymentDerived(r).payment_category =
          SqlCase(<< <<MoreThan(r.payment_value, 1000), "High Value Payment">>,
                     <<MoreThan(r.payment_value, 100), "Medium Value Payment">> >>,
                  "Low Value Payment")
    BY DEF PaymentDerived
  <2> DEFINE p == MoreThan(r.payment_value, 1000)
             q == MoreThan(r.payment_value, 100)
  <2> HIDE DEF p, q
  <2>3. SqlCase(<< <<p, "High Value Payment">>, <<q, "Medium Value Payment">> >>,
                "Low Value Payment") \in PaymentCategories
    BY <2>1, TwoWords
  <2> QED BY <2>2, <2>3 DEF p, q
<1> QED BY <1>1, <1>2, <1>3, CategoryAssumption

(* A row the clean INSERT keeps is accepted by the clean table, unless its *)
(* deletion flag is Null.                                                  *)
LEMMA KeptLoads ==
  ASSUME NEW r \in SourceRows, KeptByClean(r), r.is_deleted # Null
  PROVE  CleanLoads(r)
<1> USE DEF SourceRows, KeptByClean, CleanLoads, CleanRequired, CleanSize, Fits, Derived
<1>1. CASE r.table = "orders"
  <2>1. Null \notin {r.order_id, r.customer_id, r.order_status, r.purchased}
    BY <1>1, OrderRouting DEF Varchar
  <2>2. OrderDerived(r).order_day # Null /\ OrderDerived(r).is_delivered # Null
    BY <2>1 DEF OrderDerived, Passes
  <2> QED BY <1>1, <2>1, <2>2 DEF OrderDerived, Varchar
<1>2. CASE r.table = "order_items"
  <2>1. Null \notin {r.order_id, r.product_id, r.price, r.freight_value}
    BY <1>2, ItemRouting DEF Varchar
  <2>2. ItemDerived(r).total_item_value # Null
    BY <1>2, <2>1 DEF ItemDerived, Number
  <2> QED BY <1>2, <2>1, <2>2, DerivedWords DEF ItemDerived, Varchar
<1>3. CASE r.table = "products"
  <2>1. Null \notin {r.product_id, r.category_name}
    BY <1>3, ProductRouting DEF Varchar
  <2> QED BY <1>3, <2>1 DEF Varchar
<1>4. CASE r.table = "reviews"
  <2>1. Null \notin {r.order_id, r.review_score}
    BY <1>4, ReviewRouting DEF Varchar
  <2>2. ReviewDerived(r).is_positive_review # Null
    BY DEF ReviewDerived, Passes
  <2> QED BY <1>4, <2>1, <2>2, DerivedWords DEF ReviewDerived, Varchar
<1>5. CASE r.table = "payments"
  <2>1. Null \notin {r.order_id, r.payment_type, r.payment_value}
    BY <1>5, PaymentRouting DEF Varchar
  <2>2. PaymentDerived(r).is_high_value # Null
    BY DEF PaymentDerived, Passes
  <2>3. \A c \in CleanRequired(r.table) : r[c] # Null
    <3>1. CleanRequired(r.table) = {"is_deleted", "order_id", "payment_type", "payment_value"}
      BY <1>5
    <3> HIDE DEF CleanRequired
    <3> QED BY <2>1, <3>1
  <2>4. \A c \in DOMAIN Derived(r) : Derived(r)[c] # Null
    <3>1. Derived(r) = PaymentDerived(r)
      BY <1>5
    <3>2. DOMAIN PaymentDerived(r) = {"payment_category", "is_high_value"}
      BY DEF PaymentDerived
    <3>3. PaymentDerived(r).payment_category # Null
      BY DerivedWords
    <3> HIDE DEF Derived
    <3> QED BY <2>2, <3>1, <3>2, <3>3
  <2>5. Fits(r, CleanSize(r.table))
    BY <1>5 DEF Varchar
  <2> QED BY <2>3, <2>4, <2>5
<1>6. CASE r.table = "customers"
  <2>1. Null \notin {r.customer_id, r.customer_unique_id, r.customer_city, r.customer_state}
    BY <1>6, CustomerRouting DEF Varchar
  <2> QED BY <1>6, <2>1 DEF Varchar
<1> QED BY <1>1, <1>2, <1>3, <1>4, <1>5, <1>6

(* A row whose key has no Null is accepted by the error table. *)
LEMMA KeyedLoads ==
  ASSUME NEW r \in SourceRows, ~NullInKey(r)
  PROVE  ErrorLoads(r)
<1> SUFFICES Fits(r, CleanSize(r.table))
  BY DEF ErrorLoads, ErrorSize
<1> USE DEF SourceRows, Fits, CleanSize, Varchar
<1>1. CASE r.table = "orders"
  BY <1>1
<1>2. CASE r.table = "order_items"
  BY <1>2
<1>3. CASE r.table = "products"
  BY <1>3
<1>4. CASE r.table = "reviews"
  BY <1>4
<1>5. CASE r.table = "payments"
  BY <1>5
<1>6. CASE r.table = "customers"
  BY <1>6
<1> QED BY <1>1, <1>2, <1>3, <1>4, <1>5, <1>6

(* What the six processors have in common: no row passes both WHEREs; one  *)
(* that passes neither has no order status, or a Null in its key; and a    *)
(* rejected one has its fault named.                                       *)
LEMMA RowRouting ==
  ASSUME NEW r \in SourceRows
  PROVE  /\ ~(KeptByClean(r) /\ KeptByError(r))
         /\ \/ KeptByClean(r) \/ KeptByError(r) \/ NullInKey(r)
            \/ r.table = "orders" /\ r.order_status = Null
         /\ KeptByError(r) => Message(r) # NoMessage
<1> USE DEF KeptByClean, KeptByError, Message
<1>1. CASE r.table = "orders"
  <2>1. r.order_id \in Varchar(100) /\ r.customer_id \in Varchar(100)
    BY <1>1 DEF SourceRows, Varchar
  <2> QED BY <1>1, <2>1, OrderRouting
<1>2. CASE r.table = "order_items"
  <2>1. /\ r.order_id \in Varchar(100) /\ r.product_id \in Varchar(100)
        /\ r.price \in Number /\ r.freight_value \in Number
    BY <1>2 DEF SourceRows, Varchar
  <2> QED BY <1>2, <2>1, ItemRouting
<1>3. CASE r.table = "products"
  <2>1. r.product_id \in Varchar(100) /\ r.category_name \in Varchar(100)
    BY <1>3 DEF SourceRows, Varchar
  <2> QED BY <1>3, <2>1, ProductRouting
<1>4. CASE r.table = "reviews"
  <2>1. r.order_id \in Varchar(100) /\ r.review_score \in Number
    BY <1>4 DEF SourceRows, Varchar
  <2> QED BY <1>4, <2>1, ReviewRouting
<1>5. CASE r.table = "payments"
  <2>1. r.order_id \in Varchar(100) /\ r.payment_value \in Number
    BY <1>5 DEF SourceRows, Varchar
  <2>2. r.payment_type = Null => NullInKey(r)
    BY <1>5 DEF NullInKey, KeyColumns
  <2> QED BY <1>5, <2>1, <2>2, PaymentRouting
<1>6. CASE r.table = "customers"
  <2>1. /\ r.customer_id \in Varchar(100) /\ r.customer_unique_id \in Varchar(100)
        /\ r.customer_city \in Varchar(100) /\ r.customer_state \in Varchar(100)
    BY <1>6 DEF SourceRows, Varchar
  <2> QED BY <1>6, <2>1, CustomerRouting
<1>7. r.table \in Tables
  BY DEF SourceRows, Tables
<1> QED BY <1>1, <1>2, <1>3, <1>4, <1>5, <1>6, <1>7 DEF Tables

-------------------------------------------------------------------------------
(* The job *)

(* No column of a primary key may be Null in the clean table. *)
LEMMA NullKeyRefused ==
  ASSUME NEW r \in SourceRows, CleanLoads(r)
  PROVE  ~NullInKey(r)
<1>1. KeyColumns(r.table) \subseteq CleanRequired(r.table)
  BY DEF SourceRows, KeyColumns, CleanRequired
<1> QED BY <1>1 DEF CleanLoads, NullInKey

(* A row that has met no branch satisfies the invariant. *)
LEMMA InitInvariant == Init => IInv
BY DEF Init, IInv, TypeOK, None

(* Each branch keeps the invariant. *)
LEMMA NextInvariant == IInv /\ [Next]_vars => IInv'
<1> SUFFICES ASSUME IInv, [Next]_vars PROVE IInv'
  OBVIOUS
<1>1. row \in SourceRows
  BY RowsAssumption DEF IInv, TypeOK
<1> USE DEF IInv
<1>2. CASE InsertClean
  <2>1. PICK kept \in Decision(KeptByClean(row)) :
          /\ job' = IF kept /\ ~CleanLoads(row) THEN "failed" ELSE job
          /\ cleanRow' = IF kept /\ CleanLoads(row) THEN <<Derived(row)>> ELSE cleanRow
    BY <1>2 DEF InsertClean
  <2>2. row' = row /\ errorRow' = errorRow /\ pending' = pending \ {"clean"} /\ job = "running"
    BY <1>2 DEF InsertClean
  <2>3. kept \in BOOLEAN /\ (~NullInKey(row) => kept = KeptByClean(row))
    BY DEF Decision, KeptByClean, Passes
  <2>4. CleanLoads(row) => ~NullInKey(row)
    BY <1>1, NullKeyRefused
  <2>5. <<Derived(row)>> # None
    BY DEF None
  <2>6. TypeOK'
    BY <2>1, <2>2 DEF TypeOK
  <2>7. cleanRow' # None => KeptByClean(row) /\ ~NullInKey(row)
    BY <2>1, <2>3, <2>4
  <2>8. CASE kept /\ ~CleanLoads(row)
    BY <2>1, <2>2, <2>3, <2>6, <2>7, <2>8
  <2>9. CASE ~(kept /\ ~CleanLoads(row))
    BY <2>1, <2>2, <2>3, <2>5, <2>6, <2>7, <2>9
  <2> QED BY <2>8, <2>9
<1>3. CASE InsertError
  <2>1. PICK kept \in Decision(KeptByError(row)) :
          /\ job' = IF kept /\ ~ErrorLoads(row) THEN "failed" ELSE job
          /\ errorRow' = IF kept /\ ErrorLoads(row) THEN <<Message(row)>> ELSE errorRow
    BY <1>3 DEF InsertError
  <2>2. row' = row /\ cleanRow' = cleanRow /\ pending' = pending \ {"error"} /\ job = "running"
    BY <1>3 DEF InsertError
  <2>3. kept \in BOOLEAN /\ (~NullInKey(row) => kept = KeptByError(row))
    BY DEF Decision, KeptByError, Passes
  <2>4. ErrorLoads(row) => ~NullInKey(row)
    BY DEF ErrorLoads
  <2>5. <<Message(row)>> # None
    BY DEF None
  <2>6. TypeOK'
    BY <2>1, <2>2 DEF TypeOK
  <2>7. errorRow' # None => KeptByError(row) /\ ~NullInKey(row)
    BY <2>1, <2>3, <2>4
  <2>8. CASE kept /\ ~ErrorLoads(row)
    BY <2>1, <2>2, <2>3, <2>6, <2>7, <2>8
  <2>9. CASE ~(kept /\ ~ErrorLoads(row))
    BY <2>1, <2>2, <2>3, <2>5, <2>6, <2>7, <2>9
  <2> QED BY <2>8, <2>9
<1>4. CASE UNCHANGED vars
  BY <1>4 DEF vars, TypeOK
<1> QED BY <1>2, <1>3, <1>4 DEF Next

(* The invariant holds always. *)
LEMMA Decided == Spec => []IInv
BY InitInvariant, NextInvariant, PTL DEF Spec

(* Each branch writes what it computed from the row, and nothing else. *)
THEOREM BranchesWrite == Spec => []TypeOK
<1>1. IInv => TypeOK
  BY DEF IInv
<1> QED BY <1>1, Decided, PTL

(* No row PostgreSQL can hold is written to both databases. *)
THEOREM Exclusive == Spec => []ExclusiveRouting
<1>1. IInv => ExclusiveRouting
  BY RowsAssumption, RowRouting DEF IInv, TypeOK, ExclusiveRouting
<1> QED BY <1>1, Decided, PTL

(* The only keyed rows that are lost between the two WHEREs are orders     *)
(* without a status.                                                       *)
THEOREM LostOnly == Spec => []LostOnlyWithoutStatus
<1>1. IInv => LostOnlyWithoutStatus
  BY RowsAssumption, RowRouting DEF IInv, TypeOK, LostOnlyWithoutStatus, Routed
<1> QED BY <1>1, Decided, PTL

(* Whatever is wrong with a rejected row, its error message says so. *)
THEOREM Named == Spec => []FaultNamed
<1>1. ASSUME IInv PROVE FaultNamed
  <2>1. row \in SourceRows
    BY <1>1, RowsAssumption DEF IInv, TypeOK
  <2>2. CASE errorRow = None
    BY <2>2 DEF FaultNamed, None
  <2>3. CASE errorRow = <<Message(row)>> /\ KeptByError(row)
    <3>1. Message(row) # NoMessage
      BY <2>1, <2>3, RowRouting
    <3> QED BY <2>3, <3>1 DEF FaultNamed
  <2> QED BY <1>1, <2>2, <2>3 DEF IInv, TypeOK
<1> QED BY <1>1, Decided, PTL

(* A row that fails the job has a Null in its key or a Null deletion flag: *)
(* against everything else the validations protect the target tables.      *)
THEOREM Poison == Spec => []PoisonOnlyByDeletionFlag
<1>1. ASSUME IInv PROVE PoisonOnlyByDeletionFlag
  <2>1. row \in SourceRows
    BY <1>1, RowsAssumption DEF IInv, TypeOK
  <2>2. KeptByClean(row) /\ ~CleanLoads(row) => row.is_deleted = Null
    BY <2>1, KeptLoads
  <2>3. ~ErrorLoads(row) => NullInKey(row)
    BY <2>1, KeyedLoads
  <2> QED BY <1>1, <2>2, <2>3 DEF IInv, PoisonOnlyByDeletionFlag
<1> QED BY <1>1, Decided, PTL

(* No published row contradicts itself: the flag derived from an amount or *)
(* a score and the category derived from it agree.                         *)
THEOREM Agree == Spec => []CategoriesAgree
<1>1. ASSUME IInv PROVE CategoriesAgree
  <2>1. row \in SourceRows
    BY <1>1, RowsAssumption DEF IInv, TypeOK
  <2>2. ASSUME NEW i \in DOMAIN cleanRow
        PROVE  cleanRow[i] = Derived(row)
    BY <1>1, <2>2 DEF IInv, TypeOK, None
  <2>3. row.table = "payments" => Derived(row) = PaymentDerived(row)
    BY DEF Derived
  <2>4. row.table = "reviews" => Derived(row) = ReviewDerived(row) /\ row.review_score \in Number
    BY <2>1 DEF Derived, SourceRows
  <2> QED BY <2>2, <2>3, <2>4, DerivedAgree DEF CategoriesAgree
<1> QED BY <1>1, Decided, PTL
===============================================================================
