------------------------------ MODULE MCRouting --------------------------------
(* Source rows at and around every boundary the processors compare with,   *)
(* as far as PostgreSQL can hold them.                                     *)
EXTENDS Routing

Id   == {1, 50}
Date == {Null, 2}

Orders ==
  [table : {"orders"}, order_id : Id, customer_id : Id \cup {Null},
   order_status : {Null, "pending", "delivered", "unavailable"},
   purchased : Date, delivered : Date, estimated : Date \cup {3}, is_deleted : Flag]

Items ==
  [table : {"order_items"}, order_id : {Null, 50}, product_id : Id \cup {Null},
   price : {Null, -1, 0, 100, 101, 501, 10000, 10001},
   freight_value : {Null, -1, 0, 10000, 10001}, is_deleted : Flag]

Products ==
  [table : {"products"}, product_id : Id, category_name : {Null, 0, 100}, is_deleted : Flag]

Reviews ==
  [table : {"reviews"}, order_id : Id \cup {Null},
   review_score : {Null} \cup 0..6, is_deleted : Flag]

Payments ==
  [table : {"payments"}, order_id : Id \cup {Null},
   payment_type : {Null, "voucher", "not_defined"},
   payment_value : {Null, -1, 0, 1, 100, 101, 1000, 1001, 50000, 50001}, is_deleted : Flag]

Customers ==
  [table : {"customers"}, customer_id : Id, customer_unique_id : {Null, 50},
   customer_city : {Null, 100}, customer_state : {Null, 10}, is_deleted : Flag]

MCRows == Orders \cup Items \cup Products \cup Reviews \cup Payments \cup Customers
===============================================================================
