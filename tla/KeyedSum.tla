------------------------------- MODULE KeyedSum --------------------------------
(***************************************************************************)
(* The two programs whose function Sum keeps a running sum per key in      *)
(* state that expires a second after its last use: state_access.py yields  *)
(* it with every element, event_time_timer.py when an event-time timer,    *)
(* two seconds after the element's timestamp, fires.  Elements are not in  *)
(* the order of their timestamps; times are in seconds.                    *)
(***************************************************************************)
EXTENDS Integers, Sequences, FiniteSetsExt

CONSTANTS
  Stream,           \* more inputs than its own, sequences of [ts, key, price]
  Wait, Lag,        \* 2 s and 2 s in event_time_timer
  MaxExpired,       \* bound: how often state expires
  Nothing           \* Python's None

VARIABLES
  job,              \* the program
  stream, pos,
  state,            \* per key: the sum, or Nothing
  timers,           \* registered: <<time, key>>
  mark,             \* timers before this time are due
  expired,
  out               \* [key, value, upto]: upto is how much had been read

vars == <<job, stream, pos, state, timers, mark, expired, out>>

Timed == job = "event_time_timer"

Keys == {stream[i].key : i \in DOMAIN stream}

(* The input of both programs; state_access has no timestamps.             *)
Prices ==
  LET P(t, n, p) == [ts |-> t, key |-> n, price |-> p] IN
  <<P(1, "Alice", 1101), P(4, "Bob", 302), P(3, "Alice", 200), P(2, "Bob", 531),
    P(5, "Alice", 131), P(3, "Bob", 31), P(7, "Bob", 161), P(10, "Alice", 201)>>

Init ==
  /\ job \in {"state_access", "event_time_timer"}
  /\ stream \in {Prices} \cup Stream /\ pos = 0
  /\ state = [k \in Keys |-> Nothing]
  /\ timers = {} /\ mark = -1 - Lag
  /\ expired = 0 /\ out = <<>>

Due == {t \in timers : t[1] < mark}

Yield(k, v) == out' = Append(out, [key |-> k, value |-> v, upto |-> pos'])

(* Slip: the sum is yielded before it is updated. *)
ProcessLate(e) ==
  LET current == IF state[e.key] = Nothing THEN 0 ELSE state[e.key] IN
  /\ state' = [state EXCEPT ![e.key] = current + e.price]
  /\ IF Timed THEN timers' = timers \cup {<<e.ts + Wait, e.key>>} /\ UNCHANGED out
              ELSE Yield(e.key, current) /\ UNCHANGED timers

(* Slip: one timer per key. *)
ProcessOneTimer(e) ==
  LET current == IF state[e.key] = Nothing THEN 0 ELSE state[e.key] IN
  /\ state' = [state EXCEPT ![e.key] = current + e.price]
  /\ timers' = {t \in timers : t[2] # e.key} \cup {<<e.ts + Wait, e.key>>}
  /\ UNCHANGED out

(* process_element; timers of one key and time are one timer.              *)
Process(e) ==
  LET current == IF state[e.key] = Nothing THEN 0 ELSE state[e.key]
      sum     == current + e.price IN
  /\ state' = [state EXCEPT ![e.key] = sum]
  /\ IF Timed THEN timers' = timers \cup {<<e.ts + Wait, e.key>>} /\ UNCHANGED out
              ELSE Yield(e.key, sum) /\ UNCHANGED timers

Read ==
  /\ pos < Len(stream) /\ Due = {}
  /\ pos' = pos + 1
  /\ Process(stream[pos'])
  /\ UNCHANGED <<job, stream, mark, expired>>

Latest == Max({-1} \cup {stream[i].ts : i \in 1..pos})

(* Slip: the bounded source ends without a last watermark. *)
WatermarkButLast ==
  /\ Due = {}
  /\ mark < Latest - Lag /\ mark' = Latest - Lag
  /\ UNCHANGED <<job, stream, pos, state, timers, expired, out>>

(* The watermark is 2 s and 1 ms behind; the last one is behind nothing.   *)
Watermark ==
  /\ Due = {}
  /\ \/ mark < Latest - Lag /\ mark' = Latest - Lag
     \/ pos = Len(stream) /\ timers # {} /\ mark' = Latest + Wait + 1
  /\ UNCHANGED <<job, stream, pos, state, timers, expired, out>>

(* Slip: the timer clears the state. *)
OnTimerClears(t) ==
  Yield(t[2], state[t[2]]) /\ state' = [state EXCEPT ![t[2]] = Nothing]

OnTimer(t) == Yield(t[2], state[t[2]]) /\ UNCHANGED state

FireTimer ==
  \E t \in Due :
    /\ \A u \in Due : t[1] =< u[1]
    /\ timers' = timers \ {t} /\ pos' = pos
    /\ OnTimer(t)
    /\ UNCHANGED <<job, stream, mark, expired>>

(* A second of processing time passes without a use of the key's state.    *)
Expire ==
  /\ expired < MaxExpired
  /\ \E k \in Keys : state[k] # Nothing /\ state' = [state EXCEPT ![k] = Nothing]
  /\ expired' = expired + 1
  /\ UNCHANGED <<job, stream, pos, timers, mark, out>>

Advance == Read \/ Watermark \/ FireTimer

Next == Advance \/ Expire

Spec == Init /\ [][Next]_vars /\ WF_vars(Advance)

-------------------------------------------------------------------------------
Elements(k, n) == {i \in 1..n : stream[i].key = k}

SumFrom(k, i, n) == MapThenSumSet(LAMBDA j : stream[j].price, {j \in Elements(k, n) : j >= i})

(* Every result is the sum of the key's latest elements, up to the last    *)
(* one read: of all of them if no state expired, of none (None) only if    *)
(* some did.                                                               *)
SumsOfSuffixes ==
  \A r \in {out[n] : n \in DOMAIN out} :
    /\ \/ r.value = Nothing
       \/ \E i \in Elements(r.key, r.upto) : r.value = SumFrom(r.key, i, r.upto)
    /\ expired = 0 => r.value = SumFrom(r.key, 1, r.upto)

(* No element goes unreported and none is reported twice: results and      *)
(* pending timers of a key are as many as the distinct timestamps read, or *)
(* up to one an element if some came after the timer of their timestamp.   *)
Accounted ==
  \A k \in Keys :
    LET reports == Cardinality({t \in timers : t[2] = k})
                     + Cardinality({n \in DOMAIN out : out[n].key = k}) IN
    /\ reports =< Cardinality(Elements(k, pos))
    /\ reports >= Cardinality(IF Timed THEN {stream[i].ts : i \in Elements(k, pos)}
                                       ELSE Elements(k, pos))

(* Every element has been read and no timer is left, as it is in the end.  *)
AllReported == pos = Len(stream) /\ timers = {}
===============================================================================
