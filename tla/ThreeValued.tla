------------------------------ MODULE ThreeValued ------------------------------
(***************************************************************************)
(* SQL's three-valued logic, as far as the INSERT statements of the six    *)
(* processors use it.  A nullable column holds a value or Null; a          *)
(* comparison with Null is neither true nor false, and WHERE keeps a row   *)
(* only when its condition is true.                                        *)
(***************************************************************************)
EXTENDS Integers, Sequences, FiniteSets

CONSTANT Null                            \* the SQL NULL

ASSUME NullAssumption == Null \notin Int /\ Null \notin BOOLEAN /\ Null \notin STRING

Truth == {"true", "false", "unknown"}

Holds3(b) == IF b THEN "true" ELSE "false"

(* A comparison whose only nullable operand is column c. *)
Compare(c, b) == IF c = Null THEN "unknown" ELSE Holds3(b)

IsNull(c)    == Holds3(c = Null)
IsNotNull(c) == Holds3(c # Null)
AtMost(c, n)   == Compare(c, c <= n)
AtLeast(c, n)  == Compare(c, c >= n)
MoreThan(c, n) == Compare(c, c > n)
LessThan(c, n) == Compare(c, c < n)
InList(c, S)   == Compare(c, c \in S)

Not3(t) == CASE t = "true" -> "false" [] t = "false" -> "true" [] OTHER -> "unknown"

All3(S) == IF "false" \in S THEN "false"
           ELSE IF "unknown" \in S THEN "unknown" ELSE "true"

Any3(S) == IF "true" \in S THEN "true"
           ELSE IF "unknown" \in S THEN "unknown" ELSE "false"

(* WHERE and WHEN alike pass on true only. *)
Passes(t) == t = "true"

(* CASE WHEN w1 THEN v1 WHEN w2 THEN v2 ... ELSE v END, the branches given *)
(* as a sequence of pairs <<w, v>>.                                        *)
SqlCase(branches, otherwise) ==
  LET hits == {i \in DOMAIN branches : Passes(branches[i][1])}
  IN  IF hits = {} THEN otherwise
      ELSE branches[CHOOSE i \in hits : \A j \in hits : i <= j][2]
===============================================================================
