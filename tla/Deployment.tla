------------------------------ MODULE Deployment ------------------------------
(***************************************************************************)
(* run-streaming-etl.sh and the Flink jobs it cancels and submits.  Each   *)
(* run submits one job per source table, one after the other; the jobs of  *)
(* a table, whichever run submitted them, read through the table's one     *)
(* replication slot, and PostgreSQL gives a slot to one connection at a    *)
(* time.  A job that does not get it fails and is restarted without limit. *)
(***************************************************************************)
EXTENDS Integers

CONSTANTS
  Table,
  MaxRuns,          \* bound: runs of the script
  MaxFaults         \* bound: failures of a task

ASSUME BoundAssumption == MaxRuns \in Nat /\ MaxFaults \in Nat

Job == (1..MaxRuns) \X Table

VARIABLES
  status,           \* of every job: "none" until submitted, then Flink's JobStatus
  holder,           \* per table: the job whose connection has the slot, or None
  script,           \* "idle", "cancel" or "submit"
  run,              \* number of the current, or last, run of the script
  targets,          \* job ids still to be cancelled
  todo,             \* tables whose job is still to be submitted
  missed,           \* live jobs that this run did not cancel
  announced,        \* last run that printed "ETL Pipeline is RUNNING"
  faults

vars == <<status, holder, script, run, targets, todo, missed, announced, faults>>
flink == <<status, holder, faults>>
shell == <<script, run, targets, todo, missed, announced>>

None == <<0, "none">>
Live == {j \in Job : status[j] \in {"running", "restarting"}}

Init ==
  /\ status = [j \in Job |-> "none"] /\ holder = [t \in Table |-> None]
  /\ script = "idle" /\ run = 0 /\ targets = {} /\ todo = {} /\ missed = {}
  /\ announced = 0 /\ faults = 0

Become(j, s) == status' = [status EXCEPT ![j] = s]

-------------------------------------------------------------------------------
(* The script *)

(* The list of jobs is taken once, and only of those in state RUNNING; a   *)
(* query that fails is taken for an empty list.                            *)
ListRunningJobs ==
  /\ script = "idle" /\ run < MaxRuns
  /\ run' = run + 1 /\ script' = "cancel" /\ todo' = Table
  /\ targets' \in {{}, {j \in Job : status[j] = "running"}}
  /\ missed' = Live \ targets'
  /\ UNCHANGED <<flink, announced>>

(* Slip: the id is used only if the job is still running. *)
CancelIfRunning ==
  /\ script = "cancel"
  /\ \E j \in targets :
       /\ targets' = targets \ {j}
       /\ \/ /\ status' = IF status[j] = "running"
                             THEN [status EXCEPT ![j] = "cancelling"] ELSE status
             /\ UNCHANGED missed
          \/ missed' = missed \cup {j} /\ UNCHANGED status
  /\ UNCHANGED <<holder, script, run, todo, announced, faults>>

(* flink cancel ... || true: it is asynchronous, it ends a restarting job  *)
(* as well, and it may fail without any consequence.                       *)
CancelJob ==
  /\ script = "cancel"
  /\ \E j \in targets :
       /\ targets' = targets \ {j}
       /\ \/ Become(j, "cancelling") /\ UNCHANGED missed
          \/ missed' = missed \cup {j} /\ UNCHANGED status
  /\ UNCHANGED <<holder, script, run, todo, announced, faults>>

(* sleep 5 waits for no job to be gone. *)
BeginSubmit ==
  /\ script = "cancel" /\ targets = {}
  /\ script' = "submit"
  /\ UNCHANGED <<flink, run, targets, todo, missed, announced>>

(* main of OdsETLJob executes one statement set per table. *)
SubmitJob ==
  /\ script = "submit"
  /\ \E t \in todo : todo' = todo \ {t} /\ Become(<<run, t>>, "running")
  /\ UNCHANGED <<holder, script, run, targets, missed, announced, faults>>

(* An exception in main: exit 1, and what was submitted stays. *)
SubmitFails ==
  /\ script = "submit" /\ todo # {}
  /\ script' = "idle" /\ todo' = {}
  /\ UNCHANGED <<flink, run, targets, missed, announced>>

Announce ==
  /\ script = "submit" /\ todo = {}
  /\ script' = "idle" /\ announced' = run
  /\ UNCHANGED <<flink, run, targets, todo, missed>>

-------------------------------------------------------------------------------
(* Flink and PostgreSQL *)

Connect(j) ==
  /\ status[j] = "running" /\ holder[j[2]] = None
  /\ holder' = [holder EXCEPT ![j[2]] = j]
  /\ UNCHANGED <<shell, status, faults>>

SlotInUse(j) ==
  /\ status[j] = "running" /\ holder[j[2]] \notin {None, j}
  /\ Become(j, "restarting")
  /\ UNCHANGED <<shell, holder, faults>>

Crash(j) ==
  /\ status[j] = "running" /\ faults < MaxFaults
  /\ Become(j, "restarting") /\ faults' = faults + 1
  /\ UNCHANGED <<shell, holder>>

(* Slip: no restart strategy. *)
GiveUp(j) ==
  /\ status[j] = "restarting" /\ holder[j[2]] # j
  /\ Become(j, "canceled")
  /\ UNCHANGED <<shell, holder, faults>>

(* Its own connection is closed before the tasks are deployed again. *)
Restart(j) ==
  /\ status[j] = "restarting" /\ holder[j[2]] # j
  /\ Become(j, "running")
  /\ UNCHANGED <<shell, holder, faults>>

CancelDone(j) ==
  /\ status[j] = "cancelling"
  /\ Become(j, "canceled")
  /\ UNCHANGED <<shell, holder, faults>>

(* The server ends the connection of a job that no longer runs. *)
Disconnect(j) ==
  /\ holder[j[2]] = j /\ status[j] \in {"restarting", "canceled"}
  /\ holder' = [holder EXCEPT ![j[2]] = None]
  /\ UNCHANGED <<shell, status, faults>>

-------------------------------------------------------------------------------
Script == CancelJob \/ BeginSubmit \/ SubmitJob \/ SubmitFails \/ Announce
Progress(j) == Connect(j) \/ SlotInUse(j) \/ Restart(j) \/ CancelDone(j) \/ Disconnect(j)

Next ==
  \/ ListRunningJobs \/ Script
  \/ \E j \in Job : Progress(j) \/ Crash(j)

Spec == Init /\ [][Next]_vars

(* Flink restarts and cancels every job it was told to, PostgreSQL drops   *)
(* dead connections, and a job that finds its slot free takes it.          *)
Fairness ==
  /\ WF_vars(Script)
  /\ \A j \in Job : WF_vars(Connect(j)) /\ WF_vars(Restart(j))
                    /\ WF_vars(CancelDone(j)) /\ WF_vars(Disconnect(j))

FairSpec == Spec /\ Fairness

-------------------------------------------------------------------------------
(* Every variable has the type its declaration says. *)
TypeOK ==
  /\ status \in [Job -> {"none", "running", "restarting", "cancelling", "canceled"}]
  /\ holder \in [Table -> Job \cup {None}] /\ \A t \in Table : holder[t][2] \in {t, "none"}
  /\ script \in {"idle", "cancel", "submit"} /\ run \in 0..MaxRuns
  /\ targets \subseteq Job /\ todo \subseteq Table /\ missed \subseteq Job
  /\ announced \in 0..run /\ faults \in 0..MaxFaults

(* The only jobs of earlier runs that outlive the cancelling are those     *)
(* that were not RUNNING when the list was taken, or whose cancel failed:  *)
(* a job that fails between the list and its turn does not escape.         *)
SurvivorsMissed ==
  script = "submit" => {j \in Live : j[1] < run} \subseteq missed

(* A run that missed no job takes over: once it has announced the          *)
(* pipeline, each of its jobs gets, and in the end keeps, its slot.        *)
TakesOver ==
  \A j \in Job :
    (announced = j[1] /\ missed = {}) ~> (holder[j[2]] = j \/ run > j[1])

(* "ETL Pipeline is RUNNING", run-streaming-etl.sh:102.  It does not hold, *)
(* and no run checks it: a job that was missed may keep the slot.          *)
AnnouncedRuns ==
  \A j \in Job : announced = j[1] ~> (holder[j[2]] = j \/ run > j[1])
===============================================================================
