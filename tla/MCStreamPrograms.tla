---------------------------- MODULE MCStreamPrograms ----------------------------
(* The programs, on their own inputs and on every short one.               *)
EXTENDS WindowPrograms, StreamPrograms

(* Windows of two units, every two or every one, and gaps of two.          *)
Scaled ==
  {[p EXCEPT !.size = 2, !.step = IF @ = 5 THEN 2 ELSE 1, !.lag = IF @ = 3 THEN 1 ELSE 0] :
     p \in {tumbling_time_window, sliding_time_window, session_with_gap,
            tumble_window, sliding_window, session_window}}

Strings(S, lengths) == UNION {[1..n -> S] : n \in lengths}

(* In time: no element is behind the watermark that may precede it.        *)
InTime(s, lag) == \A i, j \in DOMAIN s : i < j => s[j].ts >= s[i].ts - lag

(* No gap of exactly the session's size between elements of a key, unless  *)
(* all are of one key and in order: whether sessions that touch are joined *)
(* depends on whether a watermark, driven by another element, came between.*)
Untied(s, p) ==
  \/ p.assign = "slide"
  \/ p.lag = 0 /\ \A i, j \in DOMAIN s : s[i].key = s[j].key
  \/ \A i, j \in DOMAIN s : s[i].key = s[j].key => s[j].ts # s[i].ts + p.size

MCWindowJobs ==
  Examples \cup
    {j \in [program : Scaled,
            stream : Strings([key : {"a", "b"}, ts : 1..5, price : {1}], 1..4)] :
       InTime(j.stream, j.program.lag) /\ Untied(j.stream, j.program)}

(* Every input of six elements over two keys. *)
MCCounted == Strings([value : {1, 3}, key : {"a", "b"}], {6})

(* Rows in time: none is at a watermark that may precede it. *)
MCRowStreams ==
  {s \in Strings([ts : 1..4, name : {"a", "b"}, price : 1..2], 1..3)
           \cup [1..4 -> [ts : 1..3, name : {"a"}, price : 1..2]] : InTime(s, 2)}

(* Prices that tell which elements a sum is made of. *)
MCSummed ==
  {[i \in DOMAIN s |-> [s[i] EXCEPT !.price = 2 ^ i]] :
     s \in Strings([ts : {1, 2, 6}, key : {"a", "b"}, price : {0}], {4})}

(* Ids that occur twice, or on one side. *)
MCSources == {<<<<1, 1, 2>>, <<2, 1, 1>>>>, <<<<3, 1, 1, 1>>, <<1, 3, 2>>>>}
===============================================================================
