--------------------------- MODULE LatencyTestProofs ---------------------------
(***************************************************************************)
(* What the latency test reports, for any number of attempts, checkpoint   *)
(* interval and delay of which the attempts are longer.                    *)
(***************************************************************************)
EXTENDS LatencyTest, TLAPS

(* One attempt per unit of time, and never more than one behind. *)
PollInv ==
  phase = "polling" => attempt < Attempts /\ attempt =< age /\ age =< attempt + 1

(* The row gets past the validation only if it passes it; of a valid order *)
(* there is a row, and the one that was found is there.                    *)
RowInv ==
  /\ row \in {"sink", "prepared", "visible"} => valid
  /\ phase = "polling" /\ valid => row # "none"
  /\ phase = "found" => row = "visible"

(* How long a row takes at most for each part of the way, when nothing has *)
(* failed: to the sink, to the next barrier, and to the commit.            *)
DeadlineInv ==
  phase = "polling" /\ faults = 0 =>
    /\ row = "source" => age + within =< Delay
    /\ row = "sink" => age + barrier =< Delay + Interval
    /\ row = "prepared" => age + within =< Delay + Interval + Delay

(* Each attempt since the row is visible has cost a failure. *)
SeenInv ==
  phase = "polling" /\ row = "visible" =>
    visibleAt =< age /\ attempt =< visibleAt + faults

IInv ==
  /\ TypeOK /\ PollInv /\ RowInv /\ DeadlineInv /\ SeenInv
  /\ TimeoutExplained /\ LatencyAccurate

-------------------------------------------------------------------------------
USE ParameterAssumption

(* The initial state satisfies the invariant. *)
LEMMA InitInvariant == Init => IInv
BY DEF Init, IInv, TypeOK, PollInv, RowInv, DeadlineInv, SeenInv, TimeoutExplained,
       LatencyAccurate

(* Every step keeps the types: time does not pass beyond what is due. *)
LEMMA TypeStep == TypeOK /\ PollInv /\ [Next]_vars => TypeOK'
<1>1. SUFFICES ASSUME TypeOK, PollInv, [Next]_vars PROVE TypeOK'
  OBVIOUS
<1>. USE <1>1 DEF TypeOK, PollInv, test
<1>2. CASE UNCHANGED vars
  BY <1>2 DEF vars
<1>3. CASE InsertTestOrder
  BY <1>3 DEF InsertTestOrder
<1>4. CASE Poll
  BY <1>4 DEF Poll
<1>5. CASE ReachSink
  BY <1>5 DEF ReachSink
<1>6. CASE Barrier
  BY <1>6 DEF Barrier
<1>7. CASE Commit
  BY <1>7 DEF Commit
<1>8. CASE Fail
  BY <1>8 DEF Fail
<1>9. CASE Tick
  BY <1>9 DEF Tick, Due
<1> QED
  BY <1>1, <1>2, <1>3, <1>4, <1>5, <1>6, <1>7, <1>8, <1>9 DEF Next

(* An attempt that finds nothing and is the last one comes after every     *)
(* deadline: the row is visible by then, or something has failed.          *)
LEMMA PollStep == IInv /\ Poll => IInv'
<1>1. SUFFICES ASSUME IInv, Poll PROVE IInv'
  OBVIOUS
<1>2. TypeOK'
  BY <1>1, TypeStep DEF IInv, Next
<1>3. PICK ok \in BOOLEAN :
        /\ ~ok => faults < MaxFaults
        /\ faults' = IF ok THEN faults ELSE faults + 1
        /\ IF ok /\ row = "visible"
             THEN phase' = "found" /\ latency' = age
             ELSE /\ phase' = IF attempt' = Attempts THEN "timeout" ELSE "polling"
                  /\ latency' = IF phase' = "timeout" THEN -1 ELSE 0
  BY <1>1 DEF Poll
<1>4. /\ phase = "polling" /\ attempt < age /\ attempt' = attempt + 1
      /\ UNCHANGED <<tests, valid, age, row, within, visibleAt, barrier>>
  BY <1>1 DEF Poll
<1>5. TypeOK /\ PollInv /\ RowInv /\ DeadlineInv /\ SeenInv
  BY <1>1 DEF IInv
<1>6. CASE ok /\ row = "visible"
  BY <1>2, <1>3, <1>4, <1>5, <1>6
  DEF IInv, TypeOK, PollInv, RowInv, DeadlineInv, SeenInv, TimeoutExplained, LatencyAccurate
<1>7. CASE ~(ok /\ row = "visible")
  <2>1. phase' \in {"polling", "timeout"} /\ (phase' = "timeout" <=> attempt' = Attempts)
    BY <1>3, <1>7
  <2>2. PollInv' /\ RowInv' /\ DeadlineInv' /\ SeenInv' /\ LatencyAccurate'
    BY <1>3, <1>4, <1>5, <1>7, <2>1
    DEF TypeOK, PollInv, RowInv, DeadlineInv, SeenInv, LatencyAccurate
  <2>3. TimeoutExplained'
    <3>1. SUFFICES ASSUME attempt' = Attempts, valid, faults' = 0 PROVE FALSE
      BY <1>2, <1>4, <2>1 DEF TypeOK, TimeoutExplained
    <3>2. faults = 0 /\ row # "visible" /\ row # "none"
      BY <1>3, <1>4, <1>5, <1>7, <3>1 DEF TypeOK, RowInv
    <3>3. age =< Delay + Interval + Delay
      BY <1>4, <1>5, <3>2 DEF TypeOK, DeadlineInv
    <3> QED
      BY <1>4, <1>5, <3>1, <3>3 DEF TypeOK
  <2> QED
    BY <1>2, <2>2, <2>3 DEF IInv
<1> QED
  BY <1>6, <1>7

(* Every other step keeps the invariant. *)
LEMMA Inductive == IInv /\ [Next]_vars => IInv'
<1>1. SUFFICES ASSUME IInv, [Next]_vars PROVE IInv'
  OBVIOUS
<1>2. TypeOK'
  BY <1>1, TypeStep DEF IInv
<1>. USE <1>1, <1>2
     DEF IInv, PollInv, RowInv, DeadlineInv, SeenInv, TimeoutExplained, LatencyAccurate, test
<1>3. CASE UNCHANGED vars
  BY <1>3 DEF vars
<1>4. CASE InsertTestOrder
  BY <1>4 DEF TypeOK, InsertTestOrder
<1>5. CASE ReachSink
  BY <1>5 DEF TypeOK, ReachSink
<1>6. CASE Barrier
  BY <1>6 DEF TypeOK, Barrier
<1>7. CASE Commit
  BY <1>7 DEF TypeOK, Commit
<1>8. CASE Fail
  BY <1>8 DEF TypeOK, Fail
<1>9. CASE Tick
  BY <1>9 DEF TypeOK, Tick, Due
<1> QED
  BY <1>3, <1>4, <1>5, <1>6, <1>7, <1>8, <1>9, PollStep DEF Next

-------------------------------------------------------------------------------
(* IInv is an invariant: without a failure the row meets each deadline.    *)
THEOREM Invariance == Spec => []IInv
<1>1. Init => IInv
  BY InitInvariant
<1>2. IInv /\ [Next]_vars => IInv'
  BY Inductive
<1> QED
  BY <1>1, <1>2, PTL DEF Spec

(* Every variable has its type in every state. *)
THEOREM TypeCorrect == Spec => []TypeOK
<1>1. IInv => TypeOK
  BY DEF IInv
<1> QED
  BY <1>1, Invariance, PTL

(* waitForDataInStarRocks gives up on a valid order only after a failure   *)
(* and never finds a rejected one, as long as the attempts outlast the     *)
(* checkpoint interval and the delays.                                     *)
THEOREM AlwaysExplained == Spec => []TimeoutExplained
<1>1. IInv => TimeoutExplained
  BY DEF IInv
<1> QED
  BY <1>1, Invariance, PTL

(* The latency performLatencyTest prints is that to visibility, at most    *)
(* one attempt late for each failure.                                      *)
THEOREM AlwaysAccurate == Spec => []LatencyAccurate
<1>1. IInv => LatencyAccurate
  BY DEF IInv
<1> QED
  BY <1>1, Invariance, PTL
===============================================================================
