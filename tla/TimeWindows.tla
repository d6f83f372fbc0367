------------------------------ MODULE TimeWindows ------------------------------
(***************************************************************************)
(* The event-time window jobs of the PyFlink examples: one operator that   *)
(* puts each element of a stream into its windows, and emits the result of *)
(* a window when the watermark passes its end.                             *)
(*                                                                         *)
(* When a watermark is emitted between two elements depends on the timer   *)
(* of the source; the last one is beyond every window.  `mark` is the time *)
(* such that the watermark has passed the windows that end at or before    *)
(* it: the largest timestamp seen in the DataStream programs (whose        *)
(* watermark is that minus 1 ms, and a window's last ms is its end minus   *)
(* 1), and three seconds less in the Table programs.                       *)
(***************************************************************************)
EXTENDS Integers, Sequences, FiniteSetsExt

CONSTANT Job        \* [program, stream]: see WindowPrograms

VARIABLES
  job,
  pos,              \* elements read
  latest,           \* largest timestamp read, or -1
  mark,             \* the last emitted watermark
  windows,          \* open windows: [key, start, end, members]
  out               \* results

vars == <<job, pos, latest, mark, windows, out>>

program == job.program
stream  == job.stream

(* Reading i of the stream, and the programs' gap extractor: an element of *)
(* the dynamic-gap program is its own gap.                                 *)
Gap(i) == IF program.assign = "dynamic" THEN stream[i].ts ELSE program.size

(* The start of every window of size `size`, one each `step`, around t.    *)
Starts(t, size, step) == {s \in (t - size + 1)..t : s % step = 0}

Assigned(i) ==
  LET e == stream[i] IN
  {[key |-> e.key, start |-> s,
    end |-> s + (IF program.assign = "slide" THEN program.size ELSE Gap(i)),
    members |-> {i}] :
      s \in IF program.assign = "slide"
              THEN Starts(e.ts, program.size, program.step) ELSE {e.ts}}

(* Slip: sessions that only touch stay apart. *)
Overlap(v, w) ==
  /\ v.key = w.key
  /\ IF program.assign = "slide" THEN v.start = w.start
                                 ELSE v.start < w.end /\ v.end > w.start

(* Sessions merge with all they touch; other windows with themselves only. *)
Meet(v, w) ==
  /\ v.key = w.key
  /\ IF program.assign = "slide" THEN v.start = w.start
                                 ELSE v.start =< w.end /\ v.end >= w.start

Merge(ws) ==
  [key |-> (CHOOSE w \in ws : TRUE).key,
   start |-> Min({w.start : w \in ws}), end |-> Max({w.end : w \in ws}),
   members |-> UNION {w.members : w \in ws}]

(* What the window functions compute from the members of a window.         *)
Count(ms) == Cardinality(ms)
Sum(ms)   == MapThenSumSet(LAMBDA i : stream[i].price, ms)
Mean(ms)  == <<Sum(ms), Count(ms)>>                 \* as a fraction

Result(w) ==
  [key |-> w.key, start |-> w.start, end |-> w.end,
   value |-> CASE program.value = "count" -> Count(w.members)
               [] program.value = "sum"   -> Sum(w.members)
               [] program.value = "mean"  -> Mean(w.members)]

-------------------------------------------------------------------------------
Init ==
  /\ job \in Job /\ pos = 0
  /\ latest = -1 /\ mark = -1 - program.lag
  /\ windows = {} /\ out = <<>>

Late(w) == w.end =< mark

Read ==
  /\ pos < Len(stream)
  /\ pos' = pos + 1
  /\ latest' = Max({latest, stream[pos'].ts})
  /\ LET grown == {Merge({a} \cup {w \in windows : Meet(a, w)}) : a \in Assigned(pos')}
     IN windows' = {w \in windows : \A a \in Assigned(pos') : ~Meet(a, w)}
                     \cup {w \in grown : ~Late(w)}
  /\ UNCHANGED <<job, mark, out>>

(* Slip: the watermark is the largest timestamp, however late elements are.*)
FireEarly(m) ==
  LET passed == {w \in windows : w.end =< m + program.lag} IN
  /\ out' = FoldSet(LAMBDA w, s : Append(s, Result(w)), out, passed)
  /\ windows' = windows \ passed

Fire(m) ==
  LET passed == {w \in windows : w.end =< m} IN
  /\ out' = FoldSet(LAMBDA w, s : Append(s, Result(w)), out, passed)
  /\ windows' = windows \ passed

Watermark ==
  /\ mark < latest - program.lag
  /\ mark' = latest - program.lag
  /\ Fire(mark')
  /\ UNCHANGED <<job, pos, latest>>

(* The source is bounded: after its last element comes the last watermark. *)
Finish ==
  /\ pos = Len(stream) /\ windows # {}
  /\ mark' = Max({w.end : w \in windows})
  /\ Fire(mark')
  /\ UNCHANGED <<job, pos, latest>>

Next == Read \/ Watermark \/ Finish

Spec == Init /\ [][Next]_vars /\ WF_vars(Next)

-------------------------------------------------------------------------------
(* The promise, from the input alone.                                      *)

Elements(k) == {i \in DOMAIN stream : stream[i].key = k}
Keys        == {stream[i].key : i \in DOMAIN stream}

(* Time t is inside a session of key k: an element's gap reaches past it.  *)
Busy(k, t) == \E i \in Elements(k) : stream[i].ts =< t /\ t < stream[i].ts + Gap(i)

Together(k, i, j) ==
  \A t \in Min({stream[i].ts, stream[j].ts})..(Max({stream[i].ts, stream[j].ts}) - 1) :
    Busy(k, t)

ExpectedWindows ==
  IF program.assign = "slide"
    THEN UNION {{[key |-> k, start |-> s, end |-> s + program.size,
                  members |-> {i \in Elements(k) : /\ s =< stream[i].ts
                                                   /\ stream[i].ts < s + program.size}] :
             s \in UNION {Starts(stream[i].ts, program.size, program.step) :
                            i \in Elements(k)}} :
           k \in Keys}
    ELSE UNION {{LET ms == {j \in Elements(k) : Together(k, i, j)} IN
            [key |-> k, start |-> Min({stream[j].ts : j \in ms}),
             end |-> Max({stream[j].ts + Gap(j) : j \in ms}), members |-> ms] :
             i \in Elements(k)} : k \in Keys}

(* Whenever the watermarks come, every window of a stream whose elements   *)
(* are in time yields its one complete result: with these, the results     *)
(* implement WindowResults.                                                *)
Expected == {Result(w) : w \in ExpectedWindows}

(* Every variable has the type its declaration says. *)
TypeOK ==
  /\ job \in Job /\ pos \in 0..Len(stream) /\ latest \in Int /\ mark \in Int
  /\ \A w \in windows : w.members \subseteq 1..pos /\ w.members # {} /\ w.start < w.end
  /\ \A i \in DOMAIN out : out[i].key \in Keys /\ out[i].start < out[i].end

===============================================================================
