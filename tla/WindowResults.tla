----------------------------- MODULE WindowResults -----------------------------
(***************************************************************************)
(* What the windowed aggregations and the join promise: one result for     *)
(* each window of each key, computed from all its elements, or for each    *)
(* pair of rows that match; every one exactly once, no other result; in    *)
(* whatever order, and in the end all of them.                             *)
(***************************************************************************)
EXTENDS Sequences, Integers

VARIABLES
  expected,         \* the results of the whole input
  out               \* the results so far

vars == <<expected, out>>

Emitted  == {out[i] : i \in DOMAIN out}
Complete == Emitted = expected

Init == out = <<>>

Emit ==
  /\ Len(out') > Len(out) /\ SubSeq(out', 1, Len(out)) = out
  /\ \A i, j \in DOMAIN out' : out'[i] = out'[j] => i = j
  /\ \A i \in DOMAIN out' : out'[i] \in expected
  /\ UNCHANGED expected

Spec == Init /\ [][Emit]_vars /\ <>Complete
===============================================================================
