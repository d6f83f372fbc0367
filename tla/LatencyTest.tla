------------------------------ MODULE LatencyTest ------------------------------
(***************************************************************************)
(* The generator's latency test against the pipeline's clock: an order is  *)
(* inserted, and StarRocks asked for it once a second, up to a number of   *)
(* attempts.  A row travels to the sink, waits for the next checkpoint     *)
(* barrier, and is visible when that checkpoint's transaction commits.     *)
(* Time is counted in units of one attempt; what is due happens before     *)
(* time passes.                                                            *)
(***************************************************************************)
EXTENDS Integers

CONSTANTS
  Attempts,         \* 60 in the code: polls before the test gives up
  Interval,         \* 30 in the code: time from one checkpoint to the next
  Delay,            \* at most this long to the sink, and from barrier to commit
  MaxFaults,        \* bound: failures of the job and of StarRocks queries
  MaxTests          \* bound: tests

ASSUME ParameterAssumption ==
  /\ {Attempts, Interval, Delay, MaxFaults, MaxTests} \subseteq Nat
  /\ Delay + Interval + Delay < Attempts

VARIABLES
  age,              \* time since the test began
  tests,
  phase,            \* "idle", "polling", or how the test ended: "found" or "timeout"
  attempt,
  latency,          \* what the test reports
  valid,            \* does the order pass the validation?
  row,              \* "none", "source", "sink", "prepared", "visible"
  within,           \* time left for the row's next step
  visibleAt,        \* age at which the row became visible
  barrier,          \* time to the next barrier
  faults            \* failures during this test

vars == <<age, tests, phase, attempt, latency, valid, row, within, visibleAt, barrier, faults>>
test == <<tests, phase, attempt, latency, valid>>

Init ==
  /\ age = 0 /\ tests = 0 /\ phase = "idle" /\ attempt = 0 /\ latency = 0
  /\ valid = TRUE /\ row = "none" /\ within = 0 /\ visibleAt = 0
  /\ barrier \in 1..Interval /\ faults = 0

-------------------------------------------------------------------------------
(* performLatencyTest *)

(* insertTestOrder: an order with an unknown customer or product fails     *)
(* here and is not polled; one without a customer is inserted.             *)
InsertTestOrder ==
  /\ phase # "polling" /\ tests < MaxTests
  /\ tests' = tests + 1 /\ age' = 0 /\ attempt' = 0 /\ latency' = 0
  /\ visibleAt' = 0 /\ faults' = 0
  /\ \/ /\ phase' = "polling" /\ valid' \in BOOLEAN
        /\ row' = "source" /\ within' = Delay
     \/ phase' = "idle" /\ row' = "none" /\ within' = 0 /\ UNCHANGED valid
  /\ UNCHANGED barrier

(* Slip: half the attempts. *)
PollHalf ==
  /\ phase = "polling" /\ attempt < age
  /\ attempt' = attempt + 1
  /\ IF row = "visible" THEN phase' = "found" /\ latency' = age
     ELSE phase' = (IF 2 * attempt' >= Attempts THEN "timeout" ELSE "polling") /\ latency' = 0
  /\ UNCHANGED <<tests, valid, age, row, within, visibleAt, barrier, faults>>

(* Slip: the clock starts again with every attempt. *)
PollFromLastAttempt ==
  /\ phase = "polling" /\ attempt < age
  /\ attempt' = attempt + 1
  /\ IF row = "visible" THEN phase' = "found" /\ latency' = age - attempt
     ELSE phase' = (IF attempt' = Attempts THEN "timeout" ELSE "polling") /\ latency' = 0
  /\ UNCHANGED <<tests, valid, age, row, within, visibleAt, barrier, faults>>

(* Slip: no last attempt. *)
PollForEver ==
  /\ phase = "polling" /\ attempt < age
  /\ attempt' = IF attempt < Attempts - 1 THEN attempt + 1 ELSE attempt
  /\ phase' = IF row = "visible" THEN "found" ELSE "polling"
  /\ UNCHANGED <<tests, latency, valid, age, row, within, visibleAt, barrier, faults>>

(* waitForDataInStarRocks: an attempt after each second.  A query that     *)
(* fails counts as an attempt that found nothing.                          *)
Poll ==
  /\ phase = "polling" /\ attempt < age
  /\ attempt' = attempt + 1
  /\ \E ok \in BOOLEAN :
       /\ ~ok => faults < MaxFaults
       /\ faults' = IF ok THEN faults ELSE faults + 1
       /\ IF ok /\ row = "visible"
            THEN phase' = "found" /\ latency' = age
            ELSE /\ phase' = IF attempt' = Attempts THEN "timeout" ELSE "polling"
                 /\ latency' = IF phase' = "timeout" THEN -1 ELSE 0
  /\ UNCHANGED <<tests, valid, age, row, within, visibleAt, barrier>>

-------------------------------------------------------------------------------
(* The pipeline *)

(* A rejected row goes to the error table, where nobody looks for it. *)
ReachSink ==
  /\ row = "source"
  /\ row' = IF valid THEN "sink" ELSE "none"
  /\ UNCHANGED <<test, age, within, visibleAt, barrier, faults>>

Barrier ==
  /\ barrier = 0 /\ barrier' = Interval
  /\ IF row = "sink" THEN row' = "prepared" /\ within' = Delay
                     ELSE UNCHANGED <<row, within>>
  /\ UNCHANGED <<test, age, visibleAt, faults>>

Commit ==
  /\ row = "prepared" /\ row' = "visible" /\ visibleAt' = age
  /\ UNCHANGED <<test, age, within, barrier, faults>>

(* The job fails: what has not been committed is read again.               *)
Fail ==
  /\ faults < MaxFaults /\ faults' = faults + 1
  /\ row' = IF row \in {"sink", "prepared"} THEN "source" ELSE row
  /\ within' = Delay /\ barrier' = Interval
  /\ UNCHANGED <<test, age, visibleAt>>

Due == \/ phase = "polling" /\ attempt < age
       \/ row \in {"source", "prepared"} /\ within = 0
       \/ barrier = 0

Tick ==
  /\ ~Due
  /\ age' = IF phase = "polling" THEN age + 1 ELSE age
  /\ barrier' = barrier - 1
  /\ within' = IF row \in {"source", "prepared"} THEN within - 1 ELSE 0
  /\ UNCHANGED <<test, row, visibleAt, faults>>

Next == InsertTestOrder \/ Poll \/ ReachSink \/ Barrier \/ Commit \/ Fail \/ Tick

Spec == Init /\ [][Next]_vars

Fairness == WF_vars(Tick) /\ WF_vars(Poll) /\ WF_vars(ReachSink) /\ WF_vars(Barrier)
              /\ WF_vars(Commit)

FairSpec == Spec /\ Fairness

-------------------------------------------------------------------------------
(* Every variable has the type its declaration says. *)
TypeOK ==
  /\ age \in 0..Attempts /\ tests \in 0..MaxTests /\ attempt \in 0..Attempts
  /\ phase \in {"idle", "polling", "found", "timeout"} /\ latency \in -1..Attempts
  /\ valid \in BOOLEAN /\ row \in {"none", "source", "sink", "prepared", "visible"}
  /\ within \in 0..Delay /\ visibleAt \in 0..Attempts
  /\ barrier \in 0..Interval /\ faults \in 0..MaxFaults

(* Sixty attempts are enough: with a checkpoint every thirty seconds the   *)
(* test of a valid order gives up only after a failure, and an order that  *)
(* fails the validation is never reported as found.                        *)
TimeoutExplained ==
  /\ phase = "timeout" => ~valid \/ faults > 0
  /\ phase = "found" => valid

(* The reported latency is the time to visibility, at most one attempt     *)
(* late for each query that failed.                                        *)
LatencyAccurate ==
  phase = "found" =>
    /\ visibleAt =< latency
    /\ latency =< visibleAt + 1 + faults

(* The polling ends. *)
TestEnds == phase = "polling" ~> phase # "polling"
===============================================================================
