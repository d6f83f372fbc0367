--------------------------- MODULE DeploymentProofs ----------------------------
(***************************************************************************)
(* What a run of the script leaves alive, for any tables, number of runs   *)
(* and failures.                                                           *)
(***************************************************************************)
EXTENDS Deployment, TLAPS

(* While the script still cancels, the live jobs of earlier runs are those *)
(* it has missed and those whose turn has not come.                        *)
CancelInv ==
  script = "cancel" => {j \in Live : j[1] < run} \subseteq missed \cup targets

IInv == TypeOK /\ CancelInv /\ SurvivorsMissed

-------------------------------------------------------------------------------
USE BoundAssumption

(* The initial state is well typed. *)
LEMMA TypeInit == Init => TypeOK
BY DEF Init, TypeOK, None

(* Every step keeps the types. *)
LEMMA TypeStep == TypeOK /\ [Next]_vars => TypeOK'
<1>1. SUFFICES ASSUME TypeOK, [Next]_vars PROVE TypeOK'
  OBVIOUS
<1>. USE <1>1 DEF TypeOK, flink, shell
<1>2. CASE UNCHANGED vars
  BY <1>2 DEF vars
<1>3. CASE ListRunningJobs
  <2>1. run' \in 0..MaxRuns /\ announced' \in 0..run'
    BY <1>3 DEF ListRunningJobs
  <2>2. targets' \subseteq Job /\ missed' \subseteq Job
    BY <1>3 DEF ListRunningJobs, Live
  <2> QED
    BY <1>3, <2>1, <2>2 DEF ListRunningJobs
<1>4. CASE CancelJob
  BY <1>4 DEF CancelJob, Become
<1>5. CASE BeginSubmit
  BY <1>5 DEF BeginSubmit
<1>6. CASE SubmitJob
  BY <1>6 DEF SubmitJob, Become
<1>7. CASE SubmitFails
  BY <1>7 DEF SubmitFails
<1>8. CASE Announce
  BY <1>8 DEF Announce
<1>9. ASSUME NEW j \in Job, Connect(j) PROVE TypeOK'
  <2>1. j[2] \in Table
    BY DEF Job
  <2>2. /\ holder' \in [Table -> Job \cup {None}]
        /\ \A t \in Table : holder'[t][2] \in {t, "none"}
    BY <1>9, <2>1 DEF Connect
  <2> QED
    BY <1>9, <2>2 DEF Connect
<1>10. ASSUME NEW j \in Job, Disconnect(j) PROVE TypeOK'
  <2>1. None[2] = "none"
    BY DEF None
  <2>2. /\ holder' \in [Table -> Job \cup {None}]
        /\ \A t \in Table : holder'[t][2] \in {t, "none"}
    BY <1>10, <2>1 DEF Disconnect
  <2> QED
    BY <1>10, <2>2 DEF Disconnect
<1>11. ASSUME NEW j \in Job, SlotInUse(j) \/ Restart(j) \/ CancelDone(j) PROVE TypeOK'
  BY <1>11 DEF SlotInUse, Restart, CancelDone, Become
<1>12. ASSUME NEW j \in Job, Crash(j) PROVE TypeOK'
  BY <1>12 DEF Crash, Become
<1> QED
  BY <1>1, <1>2, <1>3, <1>4, <1>5, <1>6, <1>7, <1>8, <1>9, <1>10, <1>11, <1>12
  DEF Next, Script, Progress

-------------------------------------------------------------------------------
(* Flink and PostgreSQL never bring a job back that was cancelled, nor     *)
(* start one that was not submitted.                                       *)
LEMMA NoneRevived ==
  ASSUME TypeOK, NEW j \in Job, Progress(j) \/ Crash(j)
  PROVE  Live' \subseteq Live /\ UNCHANGED shell
<1>1. CASE Connect(j) \/ Disconnect(j)
  BY <1>1 DEF Connect, Disconnect, Live
<1>2. CASE SlotInUse(j) \/ Restart(j) \/ CancelDone(j) \/ Crash(j)
  BY <1>2 DEF TypeOK, SlotInUse, Restart, CancelDone, Crash, Become, Live
<1> QED
  BY <1>1, <1>2 DEF Progress

(* A job whose cancel is accepted is no longer live; one whose cancel      *)
(* fails is missed.                                                        *)
LEMMA CancelStep ==
  ASSUME TypeOK, CancelInv, SurvivorsMissed, [Next]_vars
  PROVE  CancelInv' /\ SurvivorsMissed'
<1>1. CASE UNCHANGED vars
  BY <1>1 DEF CancelInv, SurvivorsMissed, Live, vars
<1>2. CASE ListRunningJobs
  BY <1>2 DEF CancelInv, SurvivorsMissed, ListRunningJobs, Live, flink
<1>3. CASE CancelJob
  <2>1. PICK j \in targets :
          /\ targets' = targets \ {j}
          /\ \/ Become(j, "cancelling") /\ UNCHANGED missed
             \/ missed' = missed \cup {j} /\ UNCHANGED status
    BY <1>3 DEF CancelJob
  <2>2. script = "cancel" /\ script' = "cancel" /\ run' = run
    BY <1>3 DEF CancelJob
  <2>3. Live' \subseteq Live /\ (j \in Live' => j \in missed')
    BY <2>1 DEF TypeOK, Become, Live
  <2> QED
    BY <2>1, <2>2, <2>3 DEF CancelInv, SurvivorsMissed
<1>4. CASE BeginSubmit
  BY <1>4 DEF CancelInv, SurvivorsMissed, BeginSubmit, Live, flink
<1>5. CASE SubmitJob
  <2>1. PICK t \in todo : Become(<<run, t>>, "running")
    BY <1>5 DEF SubmitJob
  <2>2. \A j \in Live' : j \in Live \/ j[1] = run
    BY <2>1 DEF TypeOK, Become, Live
  <2> QED
    BY <1>5, <2>2 DEF TypeOK, CancelInv, SurvivorsMissed, SubmitJob
<1>6. CASE SubmitFails \/ Announce
  BY <1>6 DEF CancelInv, SurvivorsMissed, SubmitFails, Announce
<1>7. ASSUME NEW j \in Job, Progress(j) \/ Crash(j) PROVE CancelInv' /\ SurvivorsMissed'
  BY <1>7, NoneRevived DEF CancelInv, SurvivorsMissed, shell
<1> QED
  BY <1>1, <1>2, <1>3, <1>4, <1>5, <1>6, <1>7 DEF Next, Script

-------------------------------------------------------------------------------
(* IInv is an invariant: no live job of an earlier run is forgotten.       *)
THEOREM Invariance == Spec => []IInv
<1>1. Init => IInv
  BY TypeInit DEF Init, IInv, CancelInv, SurvivorsMissed
<1>2. IInv /\ [Next]_vars => IInv'
  BY TypeStep, CancelStep DEF IInv
<1> QED
  BY <1>1, <1>2, PTL DEF Spec

(* Every variable has its type in every state. *)
THEOREM TypeCorrect == Spec => []TypeOK
<1>1. IInv => TypeOK
  BY DEF IInv
<1> QED
  BY <1>1, Invariance, PTL

(* run-streaming-etl.sh submits its jobs beside no earlier job that is     *)
(* alive, but for those the list did not show and those whose cancel       *)
(* failed.                                                                 *)
THEOREM AlwaysSurvivorsMissed == Spec => []SurvivorsMissed
<1>1. IInv => SurvivorsMissed
  BY DEF IInv
<1> QED
  BY <1>1, Invariance, PTL
===============================================================================
