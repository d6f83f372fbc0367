----------------------------- MODULE WindowPrograms ----------------------------
(***************************************************************************)
(* The window programs of the PyFlink examples and the streams they run    *)
(* on.  A program is its window assigner, how far the watermark stays      *)
(* behind the largest timestamp, and its aggregation.  Times are in ms in  *)
(* the DataStream programs and in seconds in the Table programs; prices    *)
(* are in tenths.                                                          *)
(***************************************************************************)
EXTENDS Sequences

LOCAL Windows(assign, size, step, lag, value) ==
  [assign |-> assign, size |-> size, step |-> step, lag |-> lag, value |-> value]

(* DataStream API: the count of a key's elements in windows of 5 ms.       *)
tumbling_time_window == Windows("slide", 5, 5, 0, "count")
sliding_time_window  == Windows("slide", 5, 2, 0, "count")
session_with_gap     == Windows("session", 5, 0, 0, "count")
session_with_dynamic_gap == Windows("dynamic", 0, 0, 0, "count")

(* Table API: windows of 5 s.                                              *)
tumble_window  == Windows("slide", 5, 5, 3, "sum")
sliding_window == Windows("slide", 5, 2, 3, "sum")
session_window == Windows("session", 5, 0, 3, "sum")
pandas_udaf    == Windows("slide", 5, 5, 3, "mean")

Hi(t)        == [key |-> "hi", ts |-> t, price |-> 0]
Price(t, n, p) == [key |-> n, ts |-> t, price |-> p]

his == <<Hi(1), Hi(2), Hi(3), Hi(4), Hi(5), Hi(8), Hi(9), Hi(15)>>
session_his == <<Hi(1), Hi(2), Hi(3), Hi(4), Hi(8), Hi(9), Hi(15)>>
prices ==
  <<Price(1, "Alice", 1101), Price(4, "Bob", 302), Price(3, "Alice", 200), Price(2, "Bob", 531),
    Price(5, "Alice", 131), Price(3, "Bob", 31), Price(7, "Bob", 161), Price(10, "Alice", 201)>>
session_prices ==
  <<Price(1, "Alice", 1101), Price(4, "Bob", 302), Price(3, "Alice", 200), Price(2, "Bob", 531),
    Price(8, "Bob", 161), Price(10, "Alice", 201)>>

LOCAL Job(p, s) == [program |-> p, stream |-> s]

Examples ==
  {Job(p, his) : p \in {tumbling_time_window, sliding_time_window}}
    \cup {Job(p, session_his) : p \in {session_with_gap, session_with_dynamic_gap}}
    \cup {Job(p, prices) : p \in {tumble_window, sliding_window, pandas_udaf}}
    \cup {Job(session_window, session_prices)}
===============================================================================
