------------------------------- MODULE MCEtlJob --------------------------------
(* Small tables whose rows are judged by module Validation.  `id` tells    *)
(* rows apart and `key` is the text of the sink key, which Validation      *)
(* abstracts to its length.                                                *)
EXTENDS EtlJobInvariant

CONSTANT Null

V == INSTANCE Validation

VerdictOf(rows) == [r \in rows |-> V!Outcome(r)]
KeysOf(rows)    == {r.key : r \in rows}
KeyFor(rows)    == [r \in rows |-> r.key]

(* Orders: the key is the source's own.  One valid row, one without        *)
(* customer, one without status, which neither table receives.             *)
Order(id, customer, orderStatus) ==
  [table |-> "orders", id |-> id, key |-> id, order_id |-> 32, customer_id |-> customer,
   order_status |-> orderStatus, purchased |-> 1, delivered |-> Null, estimated |-> Null,
   is_deleted |-> FALSE]

OrderRows    == {Order(1, 32, "pending"), Order(2, Null, "pending"), Order(3, 32, Null)}
OrderVerdict == VerdictOf(OrderRows)
OrderKeys    == KeysOf(OrderRows)
OrderKeyOf   == KeyFor(OrderRows)

(* Order items: the source key is a serial number, the sink key the order  *)
(* and the product, so a product ordered twice gives two rows of one key.  *)
Item(id, key, product, price, deleted) ==
  [table |-> "order_items", id |-> id, key |-> key, order_id |-> 32, product_id |-> product,
   price |-> price, freight_value |-> 1, is_deleted |-> deleted]

(* Two rows of one key, one StarRocks refuses (is_deleted NULL), and one   *)
(* without product, whose treatment is undefined.                          *)
ItemRows    == {Item(1, 1, 32, 100, FALSE), Item(2, 1, 32, 200, FALSE),
                Item(3, 1, 32, 200, Null), Item(4, 2, Null, 1, FALSE)}
ItemVerdict == VerdictOf(ItemRows)
ItemKeys    == KeysOf(ItemRows)
ItemKeyOf   == KeyFor(ItemRows)
===============================================================================
