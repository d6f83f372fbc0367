------------------------------ MODULE CountWindow ------------------------------
(***************************************************************************)
(* tumbling_count_window.py: the sum of every two consecutive elements of  *)
(* a key.  An odd one out at the end of the input is never reported.       *)
(***************************************************************************)
EXTENDS Integers, Sequences, SequencesExt

CONSTANTS Stream,            \* more inputs than its own, sequences of [value, key]
          Size               \* 2 in the code

VARIABLES stream, pos, held, out

vars == <<stream, pos, held, out>>

Keys == {stream[i].key : i \in DOMAIN stream}
Total(s) == FoldLeft(LAMBDA sum, e : sum + e.value, 0, s)

(* The program's own input. *)
Greetings ==
  LET E(n, w) == [value |-> n, key |-> w] IN
  <<E(1, "hi"), E(2, "hello"), E(3, "hi"), E(4, "hello"), E(5, "hi"), E(6, "hello"),
    E(6, "hello")>>

Init ==
  /\ stream \in {Greetings} \cup Stream /\ pos = 0
  /\ held = [k \in Keys |-> <<>>] /\ out = <<>>

(* Slip: the trigger fires and does not purge. *)
FireOnly(k, window) ==
  IF Len(window) >= Size
    THEN /\ out' = Append(out, [key |-> k, value |-> Total(window)])
         /\ held' = [held EXCEPT ![k] = Tail(window)]
    ELSE held' = [held EXCEPT ![k] = window] /\ UNCHANGED out

(* SumWindowFunction, when the count trigger fires; then the window goes.  *)
Apply(k, window) ==
  IF Len(window) = Size
    THEN /\ out' = Append(out, [key |-> k, value |-> Total(window)])
         /\ held' = [held EXCEPT ![k] = <<>>]
    ELSE held' = [held EXCEPT ![k] = window] /\ UNCHANGED out

Read ==
  /\ pos < Len(stream)
  /\ pos' = pos + 1
  /\ LET e == stream[pos'] IN Apply(e.key, Append(held[e.key], e))
  /\ UNCHANGED stream

Spec == Init /\ [][Read]_vars

-------------------------------------------------------------------------------
(* Elements and results of a key by their place, and how many of the same  *)
(* key there are up to one.                                                *)
Places(k)  == {i \in 1..pos : stream[i].key = k}
Results(k) == {n \in DOMAIN out : out[n].key = k}
Rank(i)    == Cardinality({j \in 1..i : stream[j].key = stream[i].key})
Nth(n)     == Cardinality({m \in 1..n : out[m].key = out[n].key})

Window(k, n) == {i \in Places(k) : (n - 1) * Size < Rank(i) /\ Rank(i) =< n * Size}

(* The windows of a key tile its elements: the n-th result is the sum of   *)
(* elements (n - 1) * Size + 1 to n * Size, there is one for every full    *)
(* window, and the elements beyond the last, fewer than Size, are held.    *)
Tiled ==
  \A k \in Keys :
    LET full   == Cardinality(Results(k)) * Size
        beyond == {i \in Places(k) : Rank(i) > full} IN
    /\ Cardinality(Results(k)) = Cardinality(Places(k)) \div Size
    /\ \A n \in Results(k) :
         out[n].value = MapThenSumSet(LAMBDA i : stream[i].value, Window(k, Nth(n)))
    /\ Len(held[k]) = Cardinality(beyond) /\ Len(held[k]) < Size
    /\ \A i \in beyond : held[k][Rank(i) - full] = stream[i]
===============================================================================
