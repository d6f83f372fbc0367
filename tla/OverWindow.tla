------------------------------- MODULE OverWindow ------------------------------
(***************************************************************************)
(* over_window.py: for every row, the largest price among it and the two   *)
(* rows of its name before it in time.  Rows wait until the watermark has  *)
(* reached their time and are then taken in the order of their times; a    *)
(* row no later than one already taken of its name is dropped.             *)
(***************************************************************************)
EXTENDS Integers, Sequences, FiniteSetsExt

CONSTANTS Stream,            \* more inputs than its own, of [ts, name, price]
          Preceding, Lag     \* 2 rows and 3 s in the code

VARIABLES
  stream, pos,
  mark,             \* the last watermark
  buffered,         \* indices of rows that wait
  done,             \* per name: rows taken, in order
  out               \* [row, value]

vars == <<stream, pos, mark, buffered, done, out>>

Names == {stream[i].name : i \in DOMAIN stream}

(* The program's own input, prices in tenths. *)
Prices ==
  LET P(t, n, p) == [ts |-> t, name |-> n, price |-> p] IN
  <<P(1, "Alice", 1101), P(4, "Bob", 302), P(3, "Alice", 200), P(2, "Bob", 531),
    P(5, "Alice", 131), P(3, "Bob", 31), P(7, "Bob", 161), P(10, "Alice", 201)>>

Init ==
  /\ stream \in {Prices} \cup Stream /\ pos = 0 /\ mark = -1 - Lag
  /\ buffered = {} /\ done = [n \in Names |-> <<>>] /\ out = <<>>

Last(s) == s[Len(s)]
Dropped(i) ==
  LET s == done[stream[i].name] IN s # <<>> /\ stream[i].ts =< stream[Last(s)].ts

(* Rows are taken one by one before the next is read. *)
Due == {i \in buffered : stream[i].ts =< mark}

Read ==
  /\ pos < Len(stream) /\ Due = {}
  /\ pos' = pos + 1
  /\ buffered' = IF Dropped(pos') THEN buffered ELSE buffered \cup {pos'}
  /\ UNCHANGED <<stream, mark, done, out>>

Latest == Max({-1} \cup {stream[i].ts : i \in 1..pos})

Watermark ==
  /\ Due = {}
  /\ \/ mark < Latest - Lag /\ mark' = Latest - Lag
     \/ pos = Len(stream) /\ buffered # {} /\ mark' = Latest      \* the last one
  /\ UNCHANGED <<stream, pos, buffered, done, out>>

Before(i, j) == stream[i].ts < stream[j].ts \/ (stream[i].ts = stream[j].ts /\ i < j)

(* Slip: one row too few. *)
NarrowWindow(s) == {s[n] : n \in Max({1, Len(s) - Preceding + 1})..Len(s)}

Window(s) == {s[n] : n \in Max({1, Len(s) - Preceding})..Len(s)}

Take ==
  \E i \in Due :
    /\ \A j \in Due \ {i} : Before(i, j)
    /\ LET rows == Append(done[stream[i].name], i) IN
       /\ done' = [done EXCEPT ![stream[i].name] = rows]
       /\ out' = Append(out, [row |-> i, value |-> Max({stream[j].price : j \in Window(rows)})])
    /\ buffered' = buffered \ {i}
    /\ UNCHANGED <<stream, pos, mark>>

Next == Read \/ Watermark \/ Take

Spec == Init /\ [][Next]_vars /\ WF_vars(Next)

-------------------------------------------------------------------------------
(* What the whole input calls for: the rows of the name up to row i, of    *)
(* which fewer than Preceding come between row j and row i.                *)
UpTo(i) == {j \in DOMAIN stream : stream[j].name = stream[i].name /\ ~Before(i, j)}

Preceded(i) == {j \in UpTo(i) : Cardinality({k \in UpTo(i) : Before(j, k)}) =< Preceding}

(* Every row that is in time gets its one result, over the right rows,     *)
(* however late its predecessors come and wherever the watermarks fall:    *)
(* with these, the results implement WindowResults.                        *)
Expected ==
  {[row |-> i, value |-> Max({stream[j].price : j \in Preceded(i)})] : i \in DOMAIN stream}

===============================================================================
