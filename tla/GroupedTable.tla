------------------------------ MODULE GroupedTable -----------------------------
(***************************************************************************)
(* The grouped aggregations of table/basic_operations.py, and the keyed    *)
(* sum of datastream/basic_operations.py, as the changelog they produce:   *)
(* rows are inserted, and taken back when the value of their group         *)
(* changes.  Built-in aggregates report after every row; the aggregates    *)
(* written in Python report when a bundle of rows ends, wherever the       *)
(* runner ends it.                                                         *)
(***************************************************************************)
EXTENDS Integers, Sequences, SequencesExt

CONSTANT Inputs              \* more inputs than its own, sequences of [country, tel]

VARIABLES
  job,               \* which aggregation
  input, pos,
  acc,               \* the accumulator of every country
  sent,              \* the values last reported for it
  dirty,             \* countries of the bundle's rows, in their order
  out                \* the changelog: [op, country, value]

vars == <<job, input, pos, acc, sent, dirty, out>>

Jobs == {"count_max", "distinct", "sum", "count_sum", "top2"}
InPython == {"count_sum", "top2"}

None == -1           \* Python's None, below every telephone number

Countries == {input[i].country : i \in DOMAIN input}

R(c, t) == [country |-> c, tel |-> t]

(* The programs' own rows. *)
People == <<R("Germany", 123), R("China", 135), R("USA", 124), R("China", 32)>>
RowPeople == <<R("Germany", 123), R("China", 135), R("China", 124), R("China", 32)>>

-------------------------------------------------------------------------------
(* CountAndSumAggregateFunction, on accumulators <<count, sum>>.           *)
CountAndSum(a, tel) == <<a[1] + 1, a[2] + tel>>
Retract(a, tel) == <<a[1] - 1, a[2] - tel>>

(* Slip: merging counts one for every other accumulator. *)
MergeOne(a, others) == FoldLeft(LAMBDA x, y : <<x[1] + 1, x[2] + y[2]>>, a, others)

Merge(a, others) == FoldLeft(LAMBDA x, y : <<x[1] + y[1], x[2] + y[2]>>, a, others)

(* Slip: the larger number overwrites the largest without moving it down. *)
Top2NoShift(a, tel) ==
  IF a[1] = None \/ tel > a[1] THEN <<tel, a[2]>>
  ELSE IF a[2] = None \/ tel > a[2] THEN <<a[1], tel>> ELSE a

(* Top2, on accumulators of the two largest.                               *)
Top2(a, tel) ==
  IF a[1] = None \/ tel > a[1] THEN <<tel, a[1]>>
  ELSE IF a[2] = None \/ tel > a[2] THEN <<a[1], tel>> ELSE a

(* emit_value leaves out what Python takes for false: None, and zero.      *)
Emitted(v) == IF v \in {None, 0} THEN <<>> ELSE <<v>>
EmitTop2(a) == Emitted(a[1]) \o Emitted(a[2])

Empty ==
  CASE job = "count_max" -> <<0, None>>
    [] job = "top2" -> <<None, None>>
    [] OTHER -> <<0, 0>>

Accumulate(a, tel) ==
  CASE job = "count_max" -> <<a[1] + 1, IF tel > a[2] THEN tel ELSE a[2]>>
    [] job = "top2" -> Top2(a, tel)
    [] OTHER -> CountAndSum(a, tel)

(* The rows that a group with this accumulator has in the result.          *)
Values(a) ==
  CASE job = "top2" -> EmitTop2(a)
    [] job = "sum" -> <<a[2]>>
    [] job = "distinct" -> <<"row">>
    [] OTHER -> <<a>>

-------------------------------------------------------------------------------
Entries(op, c, values) ==
  [i \in DOMAIN values |-> [op |-> op, country |-> c, value |-> values[i]]]

(* A row that changes takes back the one before it, if there was one.      *)
Replaced(c, old, new) ==
  IF old = <<>> THEN Entries("+I", c, new)
                ELSE Entries("-U", c, old) \o Entries("+U", c, new)

(* What a report of the group adds to the changelog.  The keyed sum of the *)
(* DataStream program has no changelog: it sends every new sum.            *)
Changes(c, old, new) ==
  CASE job = "sum" -> Entries("+I", c, new)
    [] job = "top2" -> Entries("-D", c, old) \o Entries("+I", c, new)
    [] OTHER -> IF old = new THEN <<>> ELSE Replaced(c, old, new)

Init ==
  /\ job \in Jobs /\ input \in {People, RowPeople} \cup Inputs /\ pos = 0
  /\ acc = [c \in Countries |-> Empty]
  /\ sent = [c \in Countries |-> <<>>]
  /\ dirty = <<>> /\ out = <<>>

(* The next row goes into its group; a built-in aggregate reports at once. *)
Read ==
  /\ pos < Len(input)
  /\ pos' = pos + 1
  /\ LET c == input[pos'].country
         a == Accumulate(acc[c], input[pos'].tel)
     IN /\ acc' = [acc EXCEPT ![c] = a]
        /\ IF job \in InPython
           THEN /\ dirty' = IF c \in ToSet(dirty) THEN dirty ELSE Append(dirty, c)
                /\ UNCHANGED <<sent, out>>
           ELSE /\ sent' = [sent EXCEPT ![c] = Values(a)]
                /\ out' = out \o Changes(c, sent[c], Values(a))
                /\ UNCHANGED dirty
  /\ UNCHANGED <<job, input>>

(* Slip: only the group of the last row is reported. *)
EndBundleLast ==
  /\ dirty # <<>>
  /\ LET c == Last(dirty) IN
     /\ out' = out \o Changes(c, sent[c], Values(acc[c]))
     /\ sent' = [sent EXCEPT ![c] = Values(acc[c])]
  /\ dirty' = <<>>
  /\ UNCHANGED <<job, input, pos, acc>>

(* A bundle ends after any row, and at the end of the input: every group   *)
(* it touched is reported once.                                            *)
EndBundle ==
  /\ dirty # <<>>
  /\ out' = FoldLeft(LAMBDA s, c : s \o Changes(c, sent[c], Values(acc[c])), out, dirty)
  /\ sent' = [c \in Countries |-> IF c \in ToSet(dirty) THEN Values(acc[c]) ELSE sent[c]]
  /\ dirty' = <<>>
  /\ UNCHANGED <<job, input, pos, acc>>

Next == Read \/ EndBundle

Spec == Init /\ [][Next]_vars /\ WF_vars(Next)

-------------------------------------------------------------------------------
(* The rows of country c read so far, their sum, and one with the largest  *)
(* number of some.                                                         *)
Members(c) == {i \in 1..pos : input[i].country = c}
SumOf(c, n) ==
  FoldLeft(LAMBDA x, r : x + (IF r.country = c THEN r.tel ELSE 0), 0, SubSeq(input, 1, n))
Largest(P) == CHOOSE m \in P : \A i \in P : input[i].tel =< input[m].tel

(* Zero is left out of the two largest. *)
Shown(m) == IF input[m].tel = 0 THEN <<>> ELSE <<input[m].tel>>

(* The rows of country c in the result over the rows read so far.          *)
Reference(c) ==
  LET P == Members(c)
      rest == P \ {Largest(P)}
  IN CASE P = {} -> <<>>
       [] P # {} /\ job = "count_max" -> <<<<Cardinality(P), input[Largest(P)].tel>>>>
       [] P # {} /\ job = "distinct" -> <<"row">>
       [] P # {} /\ job = "sum" -> <<SumOf(c, pos)>>
       [] P # {} /\ job = "count_sum" -> <<<<Cardinality(P), SumOf(c, pos)>>>>
       [] P # {} /\ job = "top2" ->
            Shown(Largest(P)) \o (IF rest = {} THEN <<>> ELSE Shown(Largest(rest)))

(* How often the first n entries of the changelog leave v in the rows of   *)
(* country c.  The keyed sum of the DataStream program replaces its row.   *)
Copies(c, v, n) ==
  LET Of(ops) == {i \in 1..n : out[i].country = c /\ out[i].value = v /\ out[i].op \in ops}
  IN IF job = "sum"
     THEN IF \E i \in Of({"+I"}) : \A j \in (i + 1)..n : out[j].country # c THEN 1 ELSE 0
     ELSE Cardinality(Of({"+I", "+U"})) - Cardinality(Of({"-D", "-U"}))

(* Between bundles the changelog stands for the aggregates of the rows     *)
(* read, wherever the bundles were cut, and it never takes back a row that *)
(* is not in the result.                                                   *)
ViewExact ==
  \A c \in Countries :
    \A v \in {out[i].value : i \in DOMAIN out} \cup ToSet(Reference(c)) :
      /\ \A n \in DOMAIN out : Copies(c, v, n) >= 0
      /\ dirty = <<>> => Copies(c, v, Len(out)) =
                           Cardinality({i \in DOMAIN Reference(c) : Reference(c)[i] = v})

(* Accumulators of any two parts of the rows merge to that of the whole,   *)
(* and retracting the first part leaves that of the second.                *)
PartsMerge ==
  LET Over(s) == FoldLeft(CountAndSum, <<0, 0>>, s)
      t == [i \in 1..pos |-> input[i].tel]
  IN \A k \in 0..pos :
       LET first == SubSeq(t, 1, k)
           rest == SubSeq(t, k + 1, pos)
       IN /\ Merge(Over(first), <<Over(rest)>>) = Over(t)
          /\ FoldLeft(Retract, Over(t), first) = Over(rest)

Result(c, value) == <<c, value>>

(* The tables the programs print next to their operations.                 *)
Printed ==
  CASE job = "count_max" -> {Result("Germany", <<1, 123>>), Result("USA", <<1, 124>>),
                             Result("China", <<2, 135>>)}
    [] job = "distinct" -> {Result(c, "row") : c \in {"Germany", "China", "USA"}}
    [] job = "sum" -> {Result("Germany", 123), Result("USA", 124), Result("China", 167)}
    [] job = "count_sum" -> {Result("China", <<3, 291>>), Result("Germany", <<1, 123>>)}
    [] job = "top2" -> {Result("China", 135), Result("China", 124), Result("Germany", 123)}

(* On its own rows the result is the table that the comments show, as it   *)
(* is in the end.                                                          *)
TableShown ==
  input = (IF job \in InPython THEN RowPeople ELSE People) =>
    Printed = {r \in {Result(e.country, e.value) : e \in ToSet(out)} :
                 Copies(r[1], r[2], Len(out)) > 0}
===============================================================================
