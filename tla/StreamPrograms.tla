----------------------------- MODULE StreamPrograms -----------------------------
(***************************************************************************)
(* The example programs that compute results from a stream, one at a time: *)
(* each run of the model is one program on one input.  A variable that the *)
(* program does not have is Absent, and so is Python's None.               *)
(***************************************************************************)
EXTENDS Integers, Sequences

CONSTANTS
  Absent,
  WindowJobs,                \* programs of time windows, with their inputs
  Counted, RowStreams, Summed, Sources,     \* inputs besides the programs' own
  MaxExpired                 \* bound

(* Elements with their times, in time: none is behind a watermark that may *)
(* precede it.  Windows have a length.  An element just at the end of a    *)
(* session of its key is still read with it, or after all of its time:     *)
(* else it would depend on the watermark whether it joins the session.     *)
WindowsAssumption ==
  \A j \in WindowJobs :
    LET p == j.program
        s == j.stream
        gap(i) == IF p.assign = "dynamic" THEN s[i].ts ELSE p.size
    IN
    /\ p.lag \in Nat /\ s \in Seq([key : STRING, ts : Nat, price : Int])
    /\ \A i, l \in DOMAIN s : i < l => s[i].ts - p.lag =< s[l].ts
    /\ p.assign = "slide" => p.size \in Nat \ {0} /\ p.step \in Nat \ {0}
    /\ p.assign # "slide" =>
         /\ \A i \in DOMAIN s : gap(i) \in Nat \ {0}
         /\ \A i, l, m \in DOMAIN s :
              /\ s[i].key = s[l].key /\ s[l].ts = s[i].ts + gap(i)
              /\ m < l /\ s[m].ts - p.lag = s[l].ts
              => p.lag = 0 /\ s[m].key = s[l].key

(* Elements to count by two, with their keys. *)
CountedAssumption ==
  Counted \subseteq Seq([value : Int, key : STRING])

(* Elements to sum, with their times and keys. *)
SummedAssumption ==
  Summed \subseteq Seq([ts : Int, key : STRING, price : Int])

(* Rows in time: none is at a watermark that may precede it, three behind. *)
RowsAssumption ==
  /\ RowStreams \subseteq Seq([ts : Nat, name : STRING, price : Int])
  /\ \A s \in RowStreams : \A i, j \in DOMAIN s : i < j => s[i].ts - 3 < s[j].ts

(* Ids of the rows of two sources. *)
SourcesAssumption == Sources \subseteq Seq(Int) \X Seq(Int)

(* None is not a number. *)
AbsentAssumption == Absent \notin Int

ASSUME WindowsAssumption
ASSUME CountedAssumption
ASSUME SummedAssumption
ASSUME RowsAssumption
ASSUME SourcesAssumption
ASSUME AbsentAssumption

VARIABLES
  which,                                      \* the program
  job, stream, pos, mark, out,                \* shared names
  latest, windows,                            \* TimeWindows
  held,                                       \* CountWindow
  buffered, done,                             \* OverWindow
  state, timers, expired,                     \* KeyedSum
  left, right, leftState, rightState, leftPos, rightPos        \* StreamingJoin

windowVars == <<latest, windows>>
overVars   == <<buffered, done>>
sumVars    == <<state, timers, expired>>
joinVars   == <<left, right, leftState, rightState, leftPos, rightPos>>
vars == <<which, job, stream, pos, mark, out, windowVars, held, overVars, sumVars, joinVars>>

-------------------------------------------------------------------------------
(* Count windows of two, OVER windows of two preceding rows, watermarks    *)
(* three units behind for these and two seconds for the timers, which fire *)
(* two seconds after the element.                                          *)
TimeWindows   == INSTANCE TimeWindows WITH Job <- WindowJobs
CountWindow   == INSTANCE CountWindow WITH Stream <- Counted, Size <- 2
OverWindow    == INSTANCE OverWindow WITH Stream <- RowStreams, Preceding <- 2, Lag <- 3
KeyedSum      == INSTANCE KeyedSum WITH Stream <- Summed, Wait <- 2, Lag <- 2, Nothing <- Absent
StreamingJoin == INSTANCE StreamingJoin WITH Inputs <- Sources

-------------------------------------------------------------------------------
NoWindows == latest = Absent /\ windows = Absent
NoOver    == buffered = Absent /\ done = Absent
NoSum     == state = Absent /\ timers = Absent /\ expired = Absent
NoJoin    == /\ left = Absent /\ right = Absent /\ leftState = Absent /\ rightState = Absent
             /\ leftPos = Absent /\ rightPos = Absent

Init ==
  \/ /\ which = "windows" /\ TimeWindows!Init
     /\ stream = Absent /\ held = Absent /\ NoOver /\ NoSum /\ NoJoin
  \/ /\ which = "count" /\ CountWindow!Init
     /\ job = Absent /\ mark = Absent /\ NoWindows /\ NoOver /\ NoSum /\ NoJoin
  \/ /\ which = "over" /\ OverWindow!Init
     /\ job = Absent /\ NoWindows /\ held = Absent /\ NoSum /\ NoJoin
  \/ /\ which = "sum" /\ KeyedSum!Init
     /\ NoWindows /\ held = Absent /\ NoOver /\ NoJoin
  \/ /\ which = "join" /\ StreamingJoin!Init
     /\ job = Absent /\ stream = Absent /\ pos = Absent /\ mark = Absent
     /\ NoWindows /\ held = Absent /\ NoOver /\ NoSum

NextWindows ==
  /\ which = "windows" /\ TimeWindows!Next
  /\ UNCHANGED <<which, stream, held, overVars, sumVars, joinVars>>
NextCount ==
  /\ which = "count" /\ CountWindow!Read
  /\ UNCHANGED <<which, job, mark, windowVars, overVars, sumVars, joinVars>>
NextOver ==
  /\ which = "over" /\ OverWindow!Next
  /\ UNCHANGED <<which, job, windowVars, held, sumVars, joinVars>>
InSum ==
  which = "sum" /\ UNCHANGED <<which, windowVars, held, overVars, joinVars>>
InJoin ==
  /\ which = "join"
  /\ UNCHANGED <<which, job, stream, pos, mark, windowVars, held, overVars, sumVars>>

Advance   == InSum /\ KeyedSum!Advance
Expire    == InSum /\ KeyedSum!Expire
ReadLeft  == InJoin /\ StreamingJoin!ReadLeft
ReadRight == InJoin /\ StreamingJoin!ReadRight

Next ==
  \/ NextWindows \/ NextCount \/ NextOver
  \/ Advance \/ Expire \/ ReadLeft \/ ReadRight

(* Each program's own fairness: state need not expire, and neither source  *)
(* of the join waits for the other for ever.                               *)
Fairness ==
  /\ WF_vars(NextWindows) /\ WF_vars(NextOver) /\ WF_vars(Advance)
  /\ WF_vars(ReadLeft) /\ WF_vars(ReadRight)

Spec == Init /\ [][Next]_vars /\ Fairness

-------------------------------------------------------------------------------
(* The invariants of the programs, at the code lines their modules name.   *)

(* The windows of tumbling_count_window.py tile the elements of a key.     *)
Tiled == which = "count" => CountWindow!Tiled

(* Results of the keyed sums are sums of the latest elements.              *)
SumsOfSuffixes == which = "sum" => KeyedSum!SumsOfSuffixes

(* No element of the keyed sums goes unreported, none is reported twice.   *)
Accounted == which = "sum" => KeyedSum!Accounted

(* In the end the keyed sums have read everything and no timer is left.    *)
AllReported == <>[](which = "sum" => KeyedSum!AllReported)

(* Event-time windows, OVER windows and the join implement WindowResults:  *)
(* each result once, none that the whole input does not call for, and in   *)
(* the end all of them, wherever the watermarks come.                      *)
Results == INSTANCE WindowResults WITH
  expected <- CASE which = "windows" -> TimeWindows!Expected
                [] which = "over"    -> OverWindow!Expected
                [] which = "join"    -> StreamingJoin!Expected
                [] OTHER             -> {},
  out <- IF which \in {"windows", "over", "join"} THEN out ELSE <<>>

ImplementsResults == Results!Spec
===============================================================================
