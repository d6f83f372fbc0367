-------------------------------- MODULE EtlJob ---------------------------------
(***************************************************************************)
(* One of the six streaming jobs: PostgreSQL write-ahead log and           *)
(* replication slot, CDC source, the two INSERTs, the two StarRocks sinks, *)
(* checkpoints, failures, and redeployment by run-streaming-etl.sh.        *)
(*                                                                         *)
(* The clean sink is exactly-once: rows gather in a transaction that a     *)
(* barrier prepares and the completed checkpoint commits.  The error sink  *)
(* has no 'sink.semantic', so it is at-least-once: it flushes on a timer   *)
(* and at every barrier, under a key that holds the time of processing.    *)
(* Nothing in the repository updates or deletes a source row, so the log   *)
(* holds inserts only.                                                     *)
(***************************************************************************)
EXTENDS Integers, Sequences, FiniteSets

CONSTANTS
  Row,              \* source rows
  Key,              \* primary keys of the sinks
  KeyOf,            \* the sink key of a row; several rows may share one
  Verdict,          \* what becomes of a row (Outcome of module Validation)
  NoRow,            \* no row under this key
  None,             \* no checkpoint
  MaxCrashes, MaxDeploys, MaxTime      \* bounds of the model

Verdicts == {"clean", "error", "dropped", "poison", "undefined"}

ASSUME KeyOfAssumption   == KeyOf \in [Row -> Key]
ASSUME VerdictAssumption == Verdict \in [Row -> Verdicts]
ASSUME NoRowAssumption   == NoRow \notin Row
ASSUME BoundAssumption   == MaxCrashes \in Nat /\ MaxDeploys \in Nat /\ MaxTime \in Nat

VARIABLES
  wal,              \* committed source rows, in commit order
  confirmed,        \* how much of wal the replication slot may discard
  status,           \* "absent", "running" or "restarting"
  base,             \* the part of wal that the job's initial snapshot covers
  todo,             \* snapshot rows still to be emitted
  read,             \* position of the source in wal
  open,             \* clean rows since the last barrier, by key
  jammed,           \* a row StarRocks refuses is among them
  errbuf,           \* error entries not yet flushed
  pend,             \* the checkpoint being taken: or None
  ckpt,             \* the last completed checkpoint: or None
  commitDue,        \* the sink has yet to commit the transaction of ckpt
  confirmDue,       \* the source has yet to confirm the position of ckpt
  clean, error,     \* the two StarRocks tables
  now,              \* processing time
  crashes, deploys  \* counted for the bounds

jobVars  == <<base, todo, read, open, jammed, errbuf>>
ckptVars == <<pend, ckpt, commitDue, confirmDue>>
vars == <<wal, confirmed, status, jobVars, ckptVars, clean, error, now, crashes, deploys>>

-------------------------------------------------------------------------------
(* A transaction, like a table, maps each key to its row or to NoRow. *)

Image == [Key -> Row \cup {NoRow}]
Empty == [k \in Key |-> NoRow]

Overlay(f, g) == [k \in Key |-> IF g[k] = NoRow THEN f[k] ELSE g[k]]

Committed == {wal[i] : i \in 1..Len(wal)}

Checkpoint == [base : Nat, read : Nat, txn : Image]

ASSUME NoneAssumption == None \notin Checkpoint

TxnOf(c) == IF c = None THEN Empty ELSE c.txn

(* Entries of the error table: row r written at processing time t.  The    *)
(* table is upserted under (key of r, t).                                  *)
Entry == [row : Row, at : 0..MaxTime]

Upsert(E, F) ==
  {e \in E : \A f \in F : KeyOf[e.row] # KeyOf[f.row] \/ e.at # f.at} \cup F

-------------------------------------------------------------------------------
TypeOK ==
  /\ wal \in Seq(Row)
  /\ confirmed \in Nat
  /\ status \in {"absent", "running", "restarting"}
  /\ base \in Nat
  /\ todo \subseteq Row
  /\ read \in Nat
  /\ open \in Image
  /\ jammed \in BOOLEAN
  /\ errbuf \subseteq Entry
  /\ pend \in Checkpoint \cup {None}
  /\ ckpt \in Checkpoint \cup {None}
  /\ commitDue \in BOOLEAN
  /\ confirmDue \in BOOLEAN
  /\ clean \in Image
  /\ error \subseteq Entry
  /\ now \in 0..MaxTime
  /\ crashes \in 0..MaxCrashes
  /\ deploys \in 0..MaxDeploys

Init ==
  /\ wal = <<>>
  /\ confirmed = 0
  /\ status = "absent"
  /\ base = 0 /\ todo = {} /\ read = 0
  /\ open = Empty /\ jammed = FALSE /\ errbuf = {}
  /\ pend = None /\ ckpt = None /\ commitDue = FALSE /\ confirmDue = FALSE
  /\ clean = Empty /\ error = {}
  /\ now = 0 /\ crashes = 0 /\ deploys = 0

-------------------------------------------------------------------------------
(* The source database *)

(* A row is committed; the slot retains it.  (The rows of one transaction  *)
(* follow one another in the log; here they come one by one.)              *)
Insert(r) ==
  /\ r \notin Committed
  /\ wal' = Append(wal, r)
  /\ UNCHANGED <<confirmed, status, jobVars, ckptVars, clean, error, now, crashes, deploys>>

Tick ==
  /\ now < MaxTime
  /\ now' = now + 1
  /\ UNCHANGED <<wal, confirmed, status, jobVars, ckptVars, clean, error, crashes, deploys>>

-------------------------------------------------------------------------------
(* Deployment *)

(* Slip: the source resumes from the slot, without a snapshot. *)
StartFromSlot ==
  /\ base' = confirmed
  /\ read' = confirmed
  /\ todo' = {}

(* A job that starts without a checkpoint reads the whole table first. *)
StartFromSnapshot ==
  /\ base' = Len(wal)
  /\ read' = Len(wal)
  /\ todo' = Committed

DropJobState ==
  /\ open' = Empty
  /\ jammed' = FALSE
  /\ errbuf' = {}
  /\ pend' = None

(* `flink run`, without a savepoint. *)
Submit ==
  /\ status = "absent"
  /\ deploys < MaxDeploys
  /\ deploys' = deploys + 1
  /\ status' = "running"
  /\ StartFromSnapshot
  /\ DropJobState
  /\ UNCHANGED <<wal, confirmed, ckpt, commitDue, confirmDue, clean, error, now, crashes>>

(* `flink cancel` of a RUNNING job before a redeployment, or the loss of   *)
(* the JobManager, which has no high availability: no later job restores   *)
(* the checkpoint, and its transaction, if uncommitted, never commits.     *)
Discard ==
  /\ status # "absent"
  /\ deploys < MaxDeploys
  /\ status' = "absent"
  /\ ckpt' = None /\ commitDue' = FALSE /\ confirmDue' = FALSE
  /\ DropJobState
  /\ todo' = {}
  /\ UNCHANGED <<wal, confirmed, base, read, clean, error, now, crashes, deploys>>

-------------------------------------------------------------------------------
(* The running job *)

(* Slip: the error INSERT leaves error_timestamp unset. *)
UnstampedEntry(r) == [row |-> r, at |-> None]

(* CURRENT_TIMESTAMP AS error_timestamp. *)
ErrorEntry(r) == [row |-> r, at |-> now]

(* Slip: the clean INSERT has no WHERE. *)
ProcessUnfiltered(r) ==
  /\ open' = [open EXCEPT ![KeyOf[r]] = r]
  /\ UNCHANGED <<errbuf, jammed>>

(* Slip: the sinks let StarRocks skip the rows it refuses. *)
ProcessTolerantly(r) ==
  /\ open' = IF Verdict[r] = "clean" THEN [open EXCEPT ![KeyOf[r]] = r] ELSE open
  /\ errbuf' = IF Verdict[r] = "error" THEN Upsert(errbuf, {ErrorEntry(r)}) ELSE errbuf
  /\ UNCHANGED jammed

(* The row passes both INSERTs (module Routing): the clean one adds it to  *)
(* the open transaction, the error one to its buffer.                      *)
Process(r) ==
  /\ open' = IF Verdict[r] = "clean" THEN [open EXCEPT ![KeyOf[r]] = r] ELSE open
  /\ errbuf' = IF Verdict[r] = "error"
               THEN Upsert(errbuf, {ErrorEntry(r)}) ELSE errbuf
  /\ jammed' \in CASE Verdict[r] = "poison"    -> {TRUE}
                   [] Verdict[r] = "undefined" -> {jammed, TRUE}
                   [] OTHER                    -> {jammed}

ReadSnapshot(r) ==
  /\ status = "running"
  /\ r \in todo
  /\ todo' = todo \ {r}
  /\ Process(r)
  /\ UNCHANGED <<wal, confirmed, status, base, read, ckptVars, clean, error, now,
                 crashes, deploys>>

(* Slip: another source names the same slot, and confirms it. *)
ReadSharedSlot ==
  /\ status = "running" /\ todo = {} /\ read < Len(wal)
  /\ read' = read + 1
  /\ Process(wal[read + 1])
  /\ confirmed' = Len(wal)
  /\ UNCHANGED <<wal, status, base, todo, ckptVars, clean, error, now, crashes, deploys>>

ReadStream ==
  /\ status = "running"
  /\ todo = {}
  /\ read < Len(wal)
  /\ read' = read + 1
  /\ Process(wal[read + 1])
  /\ UNCHANGED <<wal, confirmed, status, base, todo, ckptVars, clean, error, now,
                 crashes, deploys>>

(* Slip: the buffered entries stay where they are. *)
KeepBuffer == UNCHANGED <<error, errbuf>>

FlushBuffer ==
  /\ error' = Upsert(error, errbuf)
  /\ errbuf' = {}

FlushErrors ==
  /\ status = "running"
  /\ errbuf # {}
  /\ FlushBuffer
  /\ UNCHANGED <<wal, confirmed, status, base, todo, read, open, jammed, ckptVars, clean,
                 now, crashes, deploys>>

-------------------------------------------------------------------------------
(* Checkpoints *)

(* The source takes no checkpoint while it reads the snapshot, and         *)
(* StarRocks prepares no transaction that holds a row it refuses.          *)
Checkpointable == todo = {} /\ ~jammed

(* Slip: preparing a transaction forgets one that is still to be committed. *)
OpenRowsOnly == open

(* The open rows, after those of a transaction still to be committed. *)
PreparedRows == IF commitDue THEN Overlay(TxnOf(ckpt), open) ELSE open

(* Slip: checkpointing is not enabled. *)
NoBarrier == FALSE

(* The barrier passes source and sinks: the source stores its position,    *)
(* the clean sink prepares its transaction and the error sink flushes.     *)
Barrier ==
  /\ status = "running"
  /\ Checkpointable
  /\ pend = None
  /\ pend' = [base |-> base, read |-> read, txn |-> PreparedRows]
  /\ open' = Empty
  /\ FlushBuffer
  /\ UNCHANGED <<wal, confirmed, status, base, todo, read, jammed, ckpt, commitDue,
                 confirmDue, clean, now, crashes, deploys>>

CompleteCheckpoint ==
  /\ status = "running"
  /\ pend # None
  /\ ckpt' = pend
  /\ pend' = None
  /\ commitDue' = TRUE
  /\ confirmDue' = TRUE
  /\ UNCHANGED <<wal, confirmed, status, jobVars, clean, error, now, crashes, deploys>>

(* Slip: the transaction is dropped. *)
DropTransaction == UNCHANGED clean /\ commitDue' = FALSE

(* Slip: the transaction replaces the table. *)
ReplaceTable == clean' = TxnOf(ckpt) /\ commitDue' = FALSE

(* StarRocks upserts the prepared rows by primary key. *)
CommitTransaction == clean' = Overlay(clean, TxnOf(ckpt)) /\ commitDue' = FALSE

(* The two tasks learn of the completed checkpoint independently. *)
CommitClean ==
  /\ status = "running"
  /\ commitDue
  /\ CommitTransaction
  /\ UNCHANGED <<wal, confirmed, status, jobVars, pend, ckpt, confirmDue, error, now,
                 crashes, deploys>>

ConfirmSlot ==
  /\ status = "running"
  /\ confirmDue
  /\ confirmed' = ckpt.read
  /\ confirmDue' = FALSE
  /\ UNCHANGED <<wal, status, jobVars, pend, ckpt, commitDue, clean, error, now,
                 crashes, deploys>>

-------------------------------------------------------------------------------
(* Failure and recovery *)

Fail ==
  /\ status' = "restarting"
  /\ todo' = {}
  /\ confirmDue' = FALSE
  /\ DropJobState
  /\ UNCHANGED <<wal, confirmed, base, read, ckpt, commitDue, clean, error, now, deploys>>

Crash ==
  /\ status = "running"
  /\ crashes < MaxCrashes
  /\ crashes' = crashes + 1
  /\ Fail

(* StarRocks refuses the load: the sink fails its job, every time. *)
LoadFails ==
  /\ status = "running"
  /\ jammed
  /\ UNCHANGED crashes
  /\ Fail

(* The source asks for the log from the checkpoint on: it gets it from     *)
(* there or from the slot's position, whichever is later.                  *)
ResumePosition == IF ckpt.read < confirmed THEN confirmed ELSE ckpt.read

(* With a checkpoint the sink first commits what that prepared. *)
Restore ==
  /\ status = "restarting"
  /\ status' = "running"
  /\ \/ /\ ckpt = None
        /\ StartFromSnapshot
        /\ UNCHANGED <<clean, commitDue>>
     \/ /\ ckpt # None
        /\ base' = ckpt.base
        /\ read' = ResumePosition
        /\ todo' = {}
        /\ CommitTransaction
  /\ UNCHANGED <<wal, confirmed, open, jammed, errbuf, pend, ckpt, confirmDue, error, now,
                 crashes, deploys>>

-------------------------------------------------------------------------------
Next ==
  \/ \E r \in Row : Insert(r) \/ ReadSnapshot(r)
  \/ Tick
  \/ Submit
  \/ Discard
  \/ ReadStream
  \/ FlushErrors
  \/ Barrier
  \/ CompleteCheckpoint
  \/ CommitClean
  \/ ConfirmSlot
  \/ Crash
  \/ LoadFails
  \/ Restore

Spec == Init /\ [][Next]_vars

(* Flink restarts a failed job without limit, delivers what it sends to    *)
(* its tasks and keeps triggering checkpoints; the script ends by          *)
(* submitting the job.  Failures are not fair, and neither are writes.     *)
Fairness ==
  /\ WF_vars(Submit)
  /\ WF_vars(\E r \in Row : ReadSnapshot(r))
  /\ WF_vars(ReadStream)
  /\ WF_vars(Barrier)
  /\ WF_vars(CompleteCheckpoint)
  /\ WF_vars(CommitClean)
  /\ WF_vars(ConfirmSlot)
  /\ WF_vars(Restore)

FairSpec == Spec /\ Fairness

-------------------------------------------------------------------------------
(* Properties *)

(* Row number i of a log is represented in img: its key holds a row of the *)
(* log, and one not older than i unless i was read by the snapshot, which  *)
(* returns rows in no particular order.                                    *)
Holds(img, log, snap, i) ==
  \E j \in 1..Len(log) : img[KeyOf[log[i]]] = log[j] /\ (i > snap => i <= j)

(* What a recovery finds in the clean table: everything committed, and the *)
(* prepared transaction it will commit. *)
Recovered == Overlay(clean, TxnOf(ckpt))

(* No valid row is lost: every valid row the last checkpoint covers is in  *)
(* the clean table or in the transaction the checkpoint will commit, and   *)
(* no newer row of its key has been overwritten by an older one.  Holds    *)
(* through any interleaving of barrier, completion, commit, confirmation,  *)
(* crash, recovery and redeployment.                                       *)
CheckpointCovered ==
  ckpt # None =>
    \A i \in 1..ckpt.read :
      Verdict[wal[i]] = "clean" => Holds(Recovered, wal, ckpt.base, i)

(* No rejected row is lost: the error sink has flushed every one that the  *)
(* last checkpoint covers, though it takes part in no transaction.         *)
ErrorsReported ==
  ckpt # None =>
    \A i \in 1..ckpt.read :
      Verdict[wal[i]] = "error" => \E e \in error : KeyOf[e.row] = KeyOf[wal[i]]

(* PostgreSQL never discards log that the job may still have to read: the  *)
(* slot is confirmed up to the last checkpoint at most, and the source is  *)
(* never behind the slot.                                                  *)
SlotSafe ==
  /\ confirmed <= Len(wal)
  /\ ckpt # None => confirmed <= ckpt.read
  /\ status = "running" => confirmed <= read

(* A row StarRocks refuses stops the job for good: no checkpoint ever      *)
(* covers it, so nothing behind it in the log is ever published.           *)
PoisonNeverPassed ==
  ckpt # None => \A i \in 1..ckpt.read : Verdict[wal[i]] # "poison"

(* A published row that came through the stream of this deployment is only *)
(* ever replaced by a newer one of its key, whatever is replayed.          *)
PublishedNeverRegresses ==
  [][ckpt # None =>
       \A k \in Key : \A i \in ckpt.base + 1 .. Len(wal) :
         clean[k] = wal[i] => \E j \in i..Len(wal') : clean'[k] = wal'[j]]_vars

(* Every valid row is eventually in the clean table, and every rejected    *)
(* one in the error table.                                                 *)
Delivered ==
  \A r \in Row :
    /\ (r \in Committed /\ Verdict[r] = "clean") ~> clean[KeyOf[r]] # NoRow
    /\ (r \in Committed /\ Verdict[r] = "error") ~>
         \E e \in error : KeyOf[e.row] = KeyOf[r]

(* The slot does not retain the log for ever. *)
SlotReleased ==
  \A i \in 1..Cardinality(Row) : Len(wal) >= i ~> confirmed >= i

(* data_quality_dashboard.sql, line 37, "Daily Error Count", charts the    *)
(* number of entries: one per rejected row.  Violated: the error sink      *)
(* writes a replayed row again, under a new time.                          *)
ErrorCountExact ==
  \A e, f \in error : e.row = f.row => e = f
===============================================================================
