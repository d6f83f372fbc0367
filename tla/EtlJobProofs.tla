----------------------------- MODULE EtlJobProofs ------------------------------
(***************************************************************************)
(* IInv is an inductive invariant of EtlJob, for any rows, keys, verdicts  *)
(* and bounds, and what follows from it.                                   *)
(***************************************************************************)
EXTENDS EtlJobInvariant, TLAPS

USE KeyOfAssumption, VerdictAssumption, NoRowAssumption, BoundAssumption, NoneAssumption

-------------------------------------------------------------------------------
(* Transactions as overlays *)

(* The empty transaction is a transaction. *)
LEMMA EmptyType == Empty \in Image
BY DEF Empty, Image

(* An overlay of transactions is a transaction. *)
LEMMA OverlayType ==
  ASSUME NEW f \in Image, NEW g \in Image
  PROVE  Overlay(f, g) \in Image
BY DEF Overlay, Image

(* Committing nothing changes nothing. *)
LEMMA OverlayEmpty ==
  ASSUME NEW f \in Image
  PROVE  Overlay(f, Empty) = f
BY DEF Overlay, Empty, Image

(* Two transactions may be committed one by one or as one. *)
LEMMA OverlayAssoc ==
  ASSUME NEW f \in Image, NEW g \in Image, NEW h \in Image
  PROVE  Overlay(f, Overlay(g, h)) = Overlay(Overlay(f, g), h)
BY DEF Overlay, Image

(* Committing a transaction twice is committing it once. *)
LEMMA OverlayIdempotent ==
  ASSUME NEW f \in Image, NEW g \in Image
  PROVE  Overlay(Overlay(f, g), g) = Overlay(f, g)
BY DEF Overlay, Image

(* The transaction of a checkpoint, or of none, is a transaction. *)
LEMMA TxnType ==
  ASSUME NEW c \in Checkpoint \cup {None}
  PROVE  TxnOf(c) \in Image
BY EmptyType DEF TxnOf, Checkpoint

(* Upserts stay within the entries. *)
LEMMA UpsertType ==
  ASSUME NEW E \in SUBSET Entry, NEW F \in SUBSET Entry
  PROVE  Upsert(E, F) \subseteq Entry
BY DEF Upsert

(* Processing a row keeps the types of the job's buffers. *)
LEMMA ProcessType ==
  ASSUME TypeOK, NEW r \in Row, Process(r)
  PROVE  /\ open' \in Image
         /\ jammed' \in BOOLEAN
         /\ errbuf' \subseteq Entry
<1>1. open' \in Image
  BY DEF TypeOK, Process, ErrorEntry, Image
<1>2. jammed' \in BOOLEAN
  <2>1. Verdict[r] \in Verdicts
    OBVIOUS
  <2> QED BY <2>1 DEF TypeOK, Process, ErrorEntry, Verdicts
<1>3. errbuf' \subseteq Entry
  <2>1. {[row |-> r, at |-> now]} \in SUBSET Entry
    BY DEF TypeOK, Entry
  <2> QED BY <2>1, UpsertType DEF TypeOK, Process, ErrorEntry
<1> QED BY <1>1, <1>2, <1>3

-------------------------------------------------------------------------------
(* Types, and what each status implies *)

(* The initial state satisfies both. *)
LEMMA InitTypes == Init => TypeOK /\ StatusInv
<1> SUFFICES ASSUME Init PROVE TypeOK /\ StatusInv
  OBVIOUS
<1>1. now \in 0..MaxTime /\ crashes \in 0..MaxCrashes /\ deploys \in 0..MaxDeploys
  BY DEF Init
<1>2. StatusInv
  BY DEF Init, StatusInv
<1>3. /\ wal \in Seq(Row)
      /\ open \in Image /\ clean \in Image
      /\ errbuf \subseteq Entry /\ error \subseteq Entry
  BY EmptyType DEF Init
<1>4. TypeOK
  BY <1>1, <1>3 DEF Init, TypeOK
<1> QED BY <1>2, <1>4

(* Every step keeps the types. *)
LEMMA TypeStep == TypeOK /\ StatusInv /\ [Next]_vars => TypeOK'
<1> SUFFICES ASSUME TypeOK, StatusInv, [Next]_vars PROVE TypeOK'
  OBVIOUS
<1> USE DEF TypeOK
<1>1. CASE UNCHANGED vars
  BY <1>1 DEF vars, jobVars, ckptVars
<1>2. ASSUME NEW r \in Row, Insert(r) PROVE TypeOK'
  BY <1>2 DEF Insert, jobVars, ckptVars
<1>3. ASSUME NEW r \in Row, ReadSnapshot(r) PROVE TypeOK'
  BY <1>3, ProcessType DEF ReadSnapshot, ckptVars
<1>4. CASE Tick
  BY <1>4 DEF Tick, jobVars, ckptVars
<1>5. CASE Submit
  <2>1. Committed \subseteq Row
    BY DEF Committed
  <2>2. deploys' \in 0..MaxDeploys
    BY <1>5 DEF Submit
  <2>3. base' \in Nat /\ read' \in Nat /\ todo' \subseteq Row
    BY <1>5, <2>1 DEF Submit, StartFromSnapshot
  <2> QED BY <1>5, <2>2, <2>3, EmptyType DEF Submit, DropJobState
<1>6. CASE Discard
  BY <1>6, EmptyType DEF Discard, DropJobState
<1>7. CASE ReadStream
  <2>1. wal[read + 1] \in Row
    BY <1>7 DEF ReadStream
  <2> QED BY <1>7, <2>1, ProcessType DEF ReadStream, ckptVars
<1>8. CASE FlushErrors
  BY <1>8, UpsertType DEF FlushErrors, FlushBuffer, ckptVars
<1>9. CASE Barrier
  <2>1. pend' \in Checkpoint
    BY <1>9, TxnType, OverlayType DEF Barrier, Checkpointable, PreparedRows,
         FlushBuffer, Checkpoint
  <2> QED BY <1>9, <2>1, EmptyType, UpsertType DEF Barrier, Checkpointable,
       PreparedRows, FlushBuffer
<1>10. CASE CompleteCheckpoint
  BY <1>10 DEF CompleteCheckpoint, jobVars
<1>11. CASE CommitClean
  BY <1>11, TxnType, OverlayType DEF CommitClean, CommitTransaction, jobVars
<1>12. CASE ConfirmSlot
  BY <1>12 DEF ConfirmSlot, StatusInv, Checkpoint, jobVars
<1>13. CASE Crash
  <2>1. crashes' \in 0..MaxCrashes
    BY <1>13 DEF Crash
  <2> QED BY <1>13, <2>1, EmptyType DEF Crash, Fail, DropJobState
<1>14. CASE LoadFails
  BY <1>14, EmptyType DEF LoadFails, Fail, DropJobState
<1>15. CASE Restore
  <2>1. Committed \subseteq Row
    BY DEF Committed
  <2>2. clean' \in Image
    BY <1>15, TxnType, OverlayType DEF Restore, CommitTransaction, ResumePosition
  <2>3. base' \in Nat /\ read' \in Nat /\ todo' \subseteq Row
    BY <1>15, <2>1 DEF Restore, CommitTransaction, ResumePosition, StartFromSnapshot,
         Checkpoint
  <2> QED BY <1>15, <2>2, <2>3 DEF Restore, CommitTransaction, ResumePosition
<1> QED
  BY <1>1, <1>2, <1>3, <1>4, <1>5, <1>6, <1>7, <1>8, <1>9, <1>10, <1>11, <1>12, <1>13,
     <1>14, <1>15 DEF Next

(* Every step keeps what each status implies. *)
LEMMA StatusStep == TypeOK /\ StatusInv /\ [Next]_vars => StatusInv'
<1> SUFFICES ASSUME TypeOK, StatusInv, [Next]_vars PROVE StatusInv'
  OBVIOUS
<1> USE DEF StatusInv
<1>1. CASE UNCHANGED vars
  BY <1>1 DEF vars, jobVars, ckptVars, Empty
<1>2. ASSUME NEW r \in Row, Insert(r) \/ ReadSnapshot(r) PROVE StatusInv'
  BY <1>2 DEF Insert, ReadSnapshot, jobVars, ckptVars
<1>3. CASE Tick \/ ReadStream \/ FlushErrors
  BY <1>3 DEF Tick, ReadStream, FlushErrors, FlushBuffer, jobVars, ckptVars
<1>4. CASE Submit \/ Discard \/ Crash \/ LoadFails \/ Restore
  BY <1>4 DEF Submit, Discard, Crash, LoadFails, Restore, CommitTransaction,
       ResumePosition, Fail, StartFromSnapshot, DropJobState
<1>5. CASE Barrier \/ CompleteCheckpoint \/ CommitClean \/ ConfirmSlot
  BY <1>5 DEF Barrier, Checkpointable, PreparedRows, FlushBuffer, CompleteCheckpoint,
       CommitClean, CommitTransaction, ConfirmSlot,
       jobVars
<1> QED BY <1>1, <1>2, <1>3, <1>4, <1>5 DEF Next

(* Type correctness, for every instance. *)
THEOREM TypeCorrect == Spec => []TypeOK
<1>1. TypeOK /\ StatusInv /\ [Next]_vars => (TypeOK /\ StatusInv)'
  BY TypeStep, StatusStep
<1> QED BY InitTypes, <1>1, PTL DEF Spec

-------------------------------------------------------------------------------
(* The log and the positions in it *)

(* The log is only ever appended to, and only by Insert. *)
LEMMA LogGrows ==
  ASSUME TypeOK, [Next]_vars
  PROVE  /\ Len(wal) \in Nat /\ Len(wal') \in Nat
         /\ Len(wal) <= Len(wal')
         /\ \A i \in 1..Len(wal) : wal'[i] = wal[i]
         /\ Committed \subseteq Committed'
         /\ wal' = wal \/ \E r \in Row : Insert(r)
<1> USE DEF TypeOK
<1>1. wal' = wal \/ \E r \in Row : Insert(r)
  BY DEF Next, vars, jobVars, ckptVars, ReadSnapshot, Tick, Submit, Discard,
       ReadStream, FlushErrors, FlushBuffer, Barrier, Checkpointable, PreparedRows,
       CompleteCheckpoint, CommitClean, CommitTransaction, ConfirmSlot, Crash,
       LoadFails, Fail, Restore, ResumePosition
<1>2. CASE wal' = wal
  BY <1>1, <1>2 DEF Committed
<1>3. ASSUME NEW r \in Row, Insert(r)
      PROVE  /\ Len(wal) \in Nat /\ Len(wal') = Len(wal) + 1
             /\ \A i \in 1..Len(wal) : wal'[i] = wal[i]
  BY <1>3 DEF Insert
<1>4. CASE \E r \in Row : Insert(r)
  BY <1>1, <1>3, <1>4 DEF Committed
<1> QED BY <1>1, <1>2, <1>4

(* No row is inserted twice. *)
LEMMA LogStep == TypeOK /\ LogInv /\ [Next]_vars => LogInv'
<1> SUFFICES ASSUME TypeOK, LogInv, [Next]_vars PROVE LogInv'
  OBVIOUS
<1>1. CASE wal' = wal
  BY <1>1 DEF LogInv
<1>2. ASSUME NEW r \in Row, Insert(r) PROVE LogInv'
  <2>1. /\ Len(wal) \in Nat /\ Len(wal') = Len(wal) + 1
        /\ \A i \in 1..Len(wal) : wal'[i] = wal[i]
        /\ wal'[Len(wal) + 1] = r
    BY <1>2 DEF Insert, TypeOK
  <2>2. \A i \in 1..Len(wal) : wal[i] # r
    BY <1>2 DEF Insert, Committed
  <2> SUFFICES ASSUME NEW i \in 1..Len(wal'), NEW j \in 1..Len(wal'), wal'[i] = wal'[j]
               PROVE  i = j
    BY DEF LogInv
  <2>3. CASE i \in 1..Len(wal) /\ j \in 1..Len(wal)
    BY <2>1, <2>3 DEF LogInv
  <2>4. CASE i = Len(wal) + 1 \/ j = Len(wal) + 1
    BY <2>1, <2>2, <2>4
  <2> QED BY <2>1, <2>3, <2>4
<1> QED BY <1>1, <1>2, LogGrows

(* Slot, checkpoints and source stay in order. *)
LEMMA PositionStep ==
  TypeOK /\ StatusInv /\ PositionInv /\ [Next]_vars => PositionInv'
<1> SUFFICES ASSUME TypeOK, StatusInv, PositionInv, [Next]_vars PROVE PositionInv'
  OBVIOUS
<1> USE DEF TypeOK, StatusInv, PositionInv
<1>0. /\ Len(wal) \in Nat /\ Len(wal') \in Nat /\ Len(wal) <= Len(wal')
      /\ Committed \subseteq Committed'
  BY LogGrows
<1>a. ckpt # None => ckpt.base \in Nat /\ ckpt.read \in Nat
  BY DEF Checkpoint
<1>b. pend # None => pend.base \in Nat /\ pend.read \in Nat
  BY DEF Checkpoint
<1>1. CASE UNCHANGED vars
  BY <1>1, <1>0 DEF vars, jobVars, ckptVars
<1>2. ASSUME NEW r \in Row, Insert(r) PROVE PositionInv'
  <2>1. todo' \subseteq {wal'[i] : i \in 1..base'}
    <3>1. CASE status = "running"
      <4>1. \A i \in 1..base : wal'[i] = wal[i]
        BY <1>0, <3>1, LogGrows
      <4> QED BY <1>2, <4>1 DEF Insert, jobVars
    <3> QED BY <1>2, <3>1 DEF Insert, jobVars
  <2> QED BY <1>2, <2>1, <1>0, <1>a, <1>b DEF Insert, jobVars, ckptVars
<1>3. ASSUME NEW r \in Row, ReadSnapshot(r) PROVE PositionInv'
  BY <1>3, <1>0 DEF ReadSnapshot, ckptVars
<1>4. CASE Tick
  BY <1>4, <1>0 DEF Tick, jobVars, ckptVars
<1>5. CASE Submit
  BY <1>5, <1>0, <1>a DEF Submit, StartFromSnapshot, DropJobState, Committed
<1>6. CASE Discard
  BY <1>6, <1>0 DEF Discard, DropJobState
<1>7. CASE ReadStream
  BY <1>7, <1>0, <1>a, <1>b DEF ReadStream, ckptVars
<1>8. CASE FlushErrors
  BY <1>8, <1>0 DEF FlushErrors, FlushBuffer, ckptVars
<1>9. CASE Barrier
  <2>1. pend'.base = base /\ pend'.read = read
    BY <1>9 DEF Barrier, Checkpointable, PreparedRows, FlushBuffer
  <2> QED BY <1>9, <2>1, <1>0, <1>a DEF Barrier, Checkpointable, PreparedRows,
       FlushBuffer
<1>10. CASE CompleteCheckpoint
  BY <1>10, <1>0, <1>a, <1>b DEF CompleteCheckpoint, jobVars
<1>11. CASE CommitClean
  BY <1>11, <1>0 DEF CommitClean, CommitTransaction, jobVars
<1>12. CASE ConfirmSlot
  BY <1>12, <1>0, <1>a, <1>b DEF ConfirmSlot, jobVars
<1>13. CASE Crash \/ LoadFails
  BY <1>13, <1>0, <1>a DEF Crash, LoadFails, Fail, DropJobState
<1>14. CASE Restore
  <2>1. CASE ckpt = None
    BY <1>14, <2>1, <1>0 DEF Restore, CommitTransaction, ResumePosition,
         StartFromSnapshot, Committed
  <2>2. CASE ckpt # None
    BY <1>14, <2>2, <1>0, <1>a DEF Restore, CommitTransaction, ResumePosition
  <2> QED BY <2>1, <2>2
<1> QED
  BY <1>1, <1>2, <1>3, <1>4, <1>5, <1>6, <1>7, <1>8, <1>9, <1>10, <1>11, <1>12, <1>13,
     <1>14 DEF Next

-------------------------------------------------------------------------------
(* Where published rows come from *)

(* Drawn survives a longer prefix of a longer log. *)
LEMMA DrawnMore ==
  ASSUME NEW img, NEW log, NEW more, NEW m \in Int, NEW n \in Int, m <= n,
         \A i \in 1..m : more[i] = log[i],
         Drawn(img, log, m)
  PROVE  Drawn(img, more, n)
<1> SUFFICES ASSUME NEW k \in Key, img[k] # NoRow
             PROVE  \E i \in 1..n : /\ img[k] = more[i]
                                    /\ Verdict[more[i]] = "clean" /\ KeyOf[more[i]] = k
  BY DEF Drawn
<1>1. PICK i \in 1..m : img[k] = log[i] /\ Verdict[log[i]] = "clean" /\ KeyOf[log[i]] = k
  BY DEF Drawn
<1>2. i \in 1..n /\ more[i] = log[i]
  OBVIOUS
<1> QED BY <1>1, <1>2

(* The empty transaction draws on nothing. *)
LEMMA DrawnEmpty == ASSUME NEW log, NEW n PROVE Drawn(Empty, log, n)
BY DEF Drawn, Empty

(* An overlay draws on what its parts draw on. *)
LEMMA DrawnOverlay ==
  ASSUME NEW f, NEW g, NEW log, NEW n, Drawn(f, log, n), Drawn(g, log, n)
  PROVE  Drawn(Overlay(f, g), log, n)
BY DEF Drawn, Overlay

(* Processing row i, among the first n, draws on those. *)
LEMMA DrawnProcess ==
  ASSUME TypeOK, NEW n \in Nat, NEW i \in 1..n, wal[i] \in Row, Process(wal[i]),
         Drawn(open, wal, n)
  PROVE  Drawn(open', wal, n)
<1>1. CASE Verdict[wal[i]] # "clean"
  BY <1>1 DEF Process, ErrorEntry
<1>2. CASE Verdict[wal[i]] = "clean"
  <2>1. open' = [open EXCEPT ![KeyOf[wal[i]]] = wal[i]]
    BY <1>2 DEF Process, ErrorEntry
  <2> SUFFICES ASSUME NEW k \in Key, open'[k] # NoRow
               PROVE  \E j \in 1..n : /\ open'[k] = wal[j]
                                      /\ Verdict[wal[j]] = "clean" /\ KeyOf[wal[j]] = k
    BY DEF Drawn
  <2>2. CASE k = KeyOf[wal[i]]
    BY <1>2, <2>1, <2>2 DEF TypeOK, Image
  <2>3. CASE k # KeyOf[wal[i]]
    <3>1. open'[k] = open[k]
      BY <2>1, <2>3 DEF TypeOK, Image
    <3> QED BY <3>1 DEF Drawn
  <2> QED BY <2>2, <2>3
<1> QED BY <1>1, <1>2

(* Processing a row of the log buffers no entry but its own. *)
LEMMA ErrbufProcess ==
  ASSUME TypeOK, NEW r \in Committed, Process(r),
         \A e \in errbuf : e.row \in Committed /\ Verdict[e.row] = "error"
  PROVE  \A e \in errbuf' : e.row \in Committed /\ Verdict[e.row] = "error"
BY DEF Process, ErrorEntry, Upsert

(* OriginInv is kept. *)
LEMMA OriginStep ==
  TypeOK /\ StatusInv /\ PositionInv /\ OriginInv /\ [Next]_vars => OriginInv'
<1> SUFFICES ASSUME TypeOK, StatusInv, PositionInv, OriginInv, [Next]_vars
             PROVE  OriginInv'
  OBVIOUS
<1>0. /\ Len(wal) \in Nat /\ read \in Nat /\ base \in Nat
      /\ ckpt # None => ckpt.base \in Nat /\ ckpt.read \in Nat
      /\ pend # None => pend.base \in Nat /\ pend.read \in Nat
  BY DEF TypeOK, Checkpoint
<1> USE DEF OriginInv
<1>1. CASE UNCHANGED vars
  BY <1>1 DEF vars, jobVars, ckptVars, Committed
<1>2. ASSUME NEW r \in Row, Insert(r) PROVE OriginInv'
  <2>1. /\ Len(wal') \in Nat /\ Len(wal) <= Len(wal')
        /\ \A i \in 1..Len(wal) : wal'[i] = wal[i]
        /\ Committed \subseteq Committed'
    BY LogGrows
  <2>2. UNCHANGED <<clean, status, base, read, open, errbuf, pend, ckpt>>
    BY <1>2 DEF Insert, jobVars, ckptVars
  <2>3. ASSUME NEW img, NEW n \in Nat, n <= Len(wal), Drawn(img, wal, n)
        PROVE  Drawn(img, wal', n)
    BY <2>1, <2>3, DrawnMore
  <2>4. Drawn(clean, wal', Len(wal'))
    BY <1>0, <2>1, DrawnMore
  <2>5. status = "running" /\ ckpt = None => Drawn(clean, wal', base)
    BY <1>0, <2>3 DEF PositionInv
  <2>6. ckpt # None => Drawn(clean, wal', ckpt.read) /\ Drawn(ckpt.txn, wal', ckpt.read)
    BY <1>0, <2>3 DEF PositionInv
  <2>7. pend # None => Drawn(pend.txn, wal', pend.read)
    <3>1. pend # None => pend.read <= Len(wal)
      BY <1>0 DEF PositionInv, StatusInv
    <3> QED BY <1>0, <2>3, <3>1
  <2>8. status = "running" => Drawn(open, wal', read)
    BY <1>0, <2>3 DEF PositionInv
  <2> QED BY <2>1, <2>2, <2>4, <2>5, <2>6, <2>7, <2>8
<1>3. ASSUME NEW r \in Row, ReadSnapshot(r) PROVE OriginInv'
  <2>1. PICK i \in 1..base : r = wal[i]
    BY <1>3 DEF ReadSnapshot, PositionInv
  <2>2. i \in 1..read /\ r \in Committed
    BY <1>0, <1>3, <2>1 DEF PositionInv, ReadSnapshot, Committed
  <2>3. Drawn(open', wal, read)
    BY <1>0, <1>3, <2>1, <2>2, DrawnProcess DEF ReadSnapshot
  <2>4. \A e \in errbuf' : e.row \in Committed /\ Verdict[e.row] = "error"
    BY <1>3, <2>2, ErrbufProcess DEF ReadSnapshot
  <2> QED BY <1>3, <2>3, <2>4 DEF ReadSnapshot, ckptVars, Committed
<1>4. CASE ReadStream
  <2>1. read + 1 \in 1..read + 1 /\ wal[read + 1] \in Row /\ wal[read + 1] \in Committed
    BY <1>0, <1>4 DEF ReadStream, TypeOK, Committed
  <2>2. Drawn(open, wal, read + 1)
    BY <1>0, <1>4, DrawnMore DEF ReadStream
  <2>3. Drawn(open', wal, read + 1)
    BY <1>0, <1>4, <2>1, <2>2, DrawnProcess DEF ReadStream
  <2>4. \A e \in errbuf' : e.row \in Committed /\ Verdict[e.row] = "error"
    BY <1>4, <2>1, ErrbufProcess DEF ReadStream
  <2> QED BY <1>4, <2>3, <2>4 DEF ReadStream, ckptVars, Committed
<1>5. CASE Tick
  BY <1>5 DEF Tick, jobVars, ckptVars, Committed
<1>6. CASE FlushErrors
  BY <1>6 DEF FlushErrors, FlushBuffer, ckptVars, Committed
<1>7. CASE Submit
  <2>1. Drawn(clean, wal, Len(wal)) /\ Drawn(Empty, wal, Len(wal))
    BY DrawnEmpty
  <2> QED BY <1>7, <2>1 DEF Submit, StartFromSnapshot, DropJobState, StatusInv
<1>8. CASE Discard
  BY <1>8 DEF Discard, DropJobState
<1>9. CASE Barrier
  <2>1. pend'.txn = (IF commitDue THEN Overlay(TxnOf(ckpt), open) ELSE open)
        /\ pend'.read = read
    BY <1>9 DEF Barrier, Checkpointable, PreparedRows, FlushBuffer
  <2>2. ckpt # None => Drawn(ckpt.txn, wal, read)
    BY <1>0, <1>9, DrawnMore DEF Barrier, Checkpointable, PreparedRows, FlushBuffer,
         PositionInv
  <2>3. Drawn(pend'.txn, wal, read)
    BY <1>9, <2>1, <2>2, DrawnOverlay DEF Barrier, Checkpointable, PreparedRows,
         FlushBuffer, StatusInv, TxnOf
  <2> QED BY <1>9, <2>1, <2>3, DrawnEmpty DEF Barrier, Checkpointable, PreparedRows,
       FlushBuffer
<1>10. CASE CompleteCheckpoint
  <2>1. Drawn(clean, wal, pend.read)
    <3>1. CASE ckpt = None
      BY <1>0, <1>10, <3>1, DrawnMore DEF CompleteCheckpoint, PositionInv
    <3>2. CASE ckpt # None
      BY <1>0, <1>10, <3>2, DrawnMore DEF CompleteCheckpoint, PositionInv
    <3> QED BY <3>1, <3>2
  <2> QED BY <1>10, <2>1 DEF CompleteCheckpoint, jobVars, Committed
<1>11. CASE CommitClean
  <2>1. ckpt # None /\ TxnOf(ckpt) = ckpt.txn
    BY <1>11 DEF CommitClean, CommitTransaction, StatusInv, TxnOf
  <2>2. Drawn(clean', wal, ckpt.read)
    BY <1>11, <2>1, DrawnOverlay DEF CommitClean, CommitTransaction
  <2>3. Drawn(clean', wal, Len(wal))
    BY <1>0, <2>1, <2>2, DrawnMore DEF PositionInv
  <2> QED BY <1>11, <2>1, <2>2, <2>3 DEF CommitClean, CommitTransaction, jobVars,
       Committed
<1>12. CASE ConfirmSlot
  BY <1>12 DEF ConfirmSlot, jobVars, Committed
<1>13. CASE Crash \/ LoadFails
  BY <1>13, DrawnEmpty DEF Crash, LoadFails, Fail, DropJobState
<1>14. CASE Restore
  <2>0. open = Empty /\ errbuf = {} /\ pend = None /\ \A n : Drawn(Empty, wal, n)
    BY <1>14, DrawnEmpty DEF Restore, CommitTransaction, ResumePosition, StatusInv
  <2>1. CASE ckpt = None
    BY <1>14, <2>0, <2>1 DEF Restore, CommitTransaction, ResumePosition,
         StartFromSnapshot
  <2>2. CASE ckpt # None
    <3>1. Drawn(clean', wal, ckpt.read)
      BY <1>14, <2>2, DrawnOverlay DEF Restore, CommitTransaction, ResumePosition, TxnOf
    <3>2. Drawn(clean', wal, Len(wal))
      BY <1>0, <2>2, <3>1, DrawnMore DEF PositionInv
    <3> QED BY <1>14, <2>0, <2>2, <3>1, <3>2 DEF Restore, CommitTransaction,
         ResumePosition
  <2> QED BY <2>1, <2>2
<1> QED
  BY <1>1, <1>2, <1>3, <1>4, <1>5, <1>6, <1>7, <1>8, <1>9, <1>10, <1>11, <1>12, <1>13,
     <1>14 DEF Next

-------------------------------------------------------------------------------
(* What the tables will hold, across commits, barriers and recoveries *)

(* Three successive contents of the clean table are tables. *)
LEMMA ImageTypes == TypeOK => Recovered \in Image /\ Prepared \in Image /\ Current \in Image
<1> SUFFICES ASSUME TypeOK PROVE Recovered \in Image /\ Prepared \in Image /\ Current \in Image
  OBVIOUS
<1>1. clean \in Image /\ open \in Image /\ TxnOf(ckpt) \in Image /\ TxnOf(pend) \in Image
  BY TxnType DEF TypeOK
<1> QED BY <1>1, OverlayType DEF Recovered, Prepared, Current

(* A barrier turns the open transaction into the prepared one. *)
LEMMA BarrierImages ==
  ASSUME TypeOK, StatusInv, ReplayInv, Barrier
  PROVE  /\ Recovered' = Recovered
         /\ Prepared' = Current /\ Current' = Current
         /\ Overlay(clean, pend'.txn) = Prepared'
<1> DEFINE T == TxnOf(ckpt)
           P == IF commitDue THEN Overlay(T, open) ELSE open
<1>1. clean \in Image /\ open \in Image /\ T \in Image /\ Recovered \in Image
  BY TxnType, ImageTypes DEF TypeOK
<1>2. P \in Image
  BY <1>1, OverlayType
<1>3. /\ pend = None /\ pend' # None /\ pend'.txn = P /\ open' = Empty
      /\ UNCHANGED <<clean, ckpt, commitDue>>
  <2>1. pend' \in Checkpoint
    BY <1>2 DEF Barrier, Checkpointable, PreparedRows, FlushBuffer, Checkpoint, TypeOK
  <2> QED BY <2>1 DEF Barrier, Checkpointable, PreparedRows, FlushBuffer
<1>4. TxnOf(pend) = Empty /\ TxnOf(pend') = P
  BY <1>3 DEF TxnOf
<1>5. Recovered' = Recovered /\ Recovered = Overlay(clean, T)
  BY <1>3 DEF Recovered, TxnOf
<1>6. Current = Overlay(Recovered, open)
  BY <1>1, <1>4, OverlayEmpty DEF Current, Prepared
<1>7. Overlay(Recovered, P) = Overlay(Recovered, open)
  <2>1. CASE commitDue
    <3>1. Overlay(Recovered, P) = Overlay(Overlay(Recovered, T), open)
      BY <1>1, <2>1, OverlayAssoc
    <3> QED BY <1>1, <1>5, <3>1, OverlayIdempotent
  <2> QED BY <2>1
<1>8. Overlay(clean, P) = Overlay(Recovered, open)
  <2>1. CASE commitDue
    BY <1>1, <1>5, <2>1, OverlayAssoc
  <2>2. CASE ~commitDue
    BY <2>2 DEF ReplayInv
  <2> QED BY <2>1, <2>2
<1>9. Prepared' = Current
  BY <1>3, <1>4, <1>5, <1>6, <1>7 DEF Prepared, TxnOf
<1>10. Current' = Overlay(Prepared', Empty)
  BY <1>3 DEF Current, Empty
<1>11. Current' = Current
  BY <1>9, <1>10, ImageTypes, OverlayEmpty
<1> QED BY <1>3, <1>5, <1>6, <1>8, <1>9, <1>11

(* Completing a checkpoint makes the prepared transaction the one to       *)
(* recover.                                                                *)
LEMMA CompleteImages ==
  ASSUME TypeOK, ReplayInv, CompleteCheckpoint
  PROVE  Recovered' = Prepared /\ Prepared' = Prepared /\ Current' = Current
<1>1. pend # None /\ ckpt' = pend /\ pend' = None /\ UNCHANGED <<clean, open>>
  BY DEF CompleteCheckpoint, jobVars
<1>2. Recovered' = Overlay(clean, pend.txn)
  BY <1>1 DEF Recovered, TxnOf
<1>3. Recovered' = Prepared
  BY <1>1, <1>2 DEF ReplayInv
<1>4. Prepared' = Overlay(Recovered', Empty)
  BY <1>1 DEF Prepared, TxnOf, Empty
<1>5. Prepared' = Prepared
  BY <1>3, <1>4, ImageTypes, OverlayEmpty
<1> QED BY <1>1, <1>3, <1>5 DEF Current

(* Committing publishes the recovered content, and changes none of them;   *)
(* so does a recovery, which drops only what was not recovered.            *)
LEMMA CommitImages ==
  ASSUME TypeOK, StatusInv, ReplayInv, CommitClean \/ Restore
  PROVE  /\ clean' = Recovered /\ Recovered' = Recovered
         /\ Prepared' = Prepared /\ Current' = Current
<1>1. clean \in Image /\ TxnOf(ckpt) \in Image
  BY TxnType DEF TypeOK
<1>2. UNCHANGED <<ckpt, pend, open>>
  BY DEF CommitClean, CommitTransaction, Restore, ResumePosition, jobVars
<1>3. clean' = Recovered
  <2>1. CASE CommitClean
    BY <2>1 DEF CommitClean, CommitTransaction, Recovered
  <2>2. CASE Restore /\ ckpt = None
    BY <2>2 DEF Restore, CommitTransaction, ResumePosition, StatusInv, ReplayInv
  <2>3. CASE Restore /\ ckpt # None
    BY <2>3 DEF Restore, CommitTransaction, ResumePosition, Recovered
  <2> QED BY <2>1, <2>2, <2>3
<1>4. Recovered' = Recovered
  BY <1>1, <1>2, <1>3, OverlayIdempotent DEF Recovered
<1> QED BY <1>2, <1>3, <1>4 DEF Prepared, Current

(* A job that stops loses what its last checkpoint does not hold; the      *)
(* clean table is untouched.                                               *)
LEMMA StopImages ==
  ASSUME TypeOK, Crash \/ LoadFails \/ Discard
  PROVE  /\ clean' = clean /\ ckpt' \in {ckpt, None} /\ pend' = None
         /\ ckpt' = ckpt => Recovered' = Recovered
         /\ ckpt' = None => Recovered' = clean
<1>1. clean' = clean /\ ckpt' \in {ckpt, None} /\ pend' = None
  BY DEF Crash, LoadFails, Fail, Discard, DropJobState
<1>2. ckpt' = None => Recovered' = Overlay(clean, Empty)
  BY <1>1 DEF Recovered, TxnOf, Empty
<1>3. clean \in Image
  BY DEF TypeOK
<1> QED BY <1>1, <1>2, <1>3, OverlayEmpty DEF Recovered

(* Every other step leaves the three contents to the open transaction. *)
LEMMA OtherImages ==
  ASSUME UNCHANGED <<clean, ckpt, pend>>
  PROVE  Recovered' = Recovered /\ Prepared' = Prepared
BY DEF Recovered, Prepared

(* ReplayInv is kept. *)
LEMMA ReplayStep == TypeOK /\ StatusInv /\ ReplayInv /\ [Next]_vars => ReplayInv'
<1> SUFFICES ASSUME TypeOK, StatusInv, ReplayInv, [Next]_vars PROVE ReplayInv'
  OBVIOUS
<1>1. CASE Barrier
  <2>1. UNCHANGED <<clean, commitDue>>
    BY <1>1 DEF Barrier, Checkpointable, PreparedRows, FlushBuffer
  <2> QED BY <1>1, <2>1, BarrierImages DEF ReplayInv
<1>2. CASE CompleteCheckpoint
  BY <1>2 DEF CompleteCheckpoint, ReplayInv
<1>3. CASE CommitClean \/ Restore
  <2>1. pend' = pend
    BY <1>3 DEF CommitClean, CommitTransaction, Restore, ResumePosition
  <2>2. pend # None => Prepared = Overlay(Recovered, pend.txn)
    BY DEF Prepared, TxnOf
  <2> QED BY <1>3, <2>1, <2>2, CommitImages DEF ReplayInv
<1>4. CASE Crash \/ LoadFails \/ Discard
  <2>1. ckpt' = None \/ (ckpt' = ckpt /\ commitDue' = commitDue)
    BY <1>4 DEF Crash, LoadFails, Fail, Discard
  <2> QED BY <1>4, <2>1, StopImages DEF ReplayInv
<1>5. CASE Submit
  <2>1. UNCHANGED <<clean, ckpt, commitDue>> /\ pend' = None
    BY <1>5 DEF Submit, DropJobState
  <2> QED BY <2>1 DEF ReplayInv, Recovered
<1>6. CASE UNCHANGED <<clean, ckpt, pend, commitDue>>
  BY <1>6, OtherImages DEF ReplayInv
<1>7. CASE UNCHANGED vars \/ Tick \/ ReadStream \/ FlushErrors \/ ConfirmSlot
           \/ \E r \in Row : Insert(r) \/ ReadSnapshot(r)
  <2>1. UNCHANGED <<clean, ckpt, pend, commitDue>>
    BY <1>7 DEF vars, jobVars, ckptVars, Tick, ReadStream, FlushErrors, FlushBuffer,
         ConfirmSlot, Insert, ReadSnapshot
  <2> QED BY <2>1, <1>6
<1> QED BY <1>1, <1>2, <1>3, <1>4, <1>5, <1>7 DEF Next

-------------------------------------------------------------------------------
(* No valid row is lost *)

(* Coverage survives a longer log. *)
LEMMA CoversMore ==
  ASSUME NEW skip, NEW img, NEW log, NEW more, NEW snap, NEW n \in Int,
         Len(log) \in Nat, Len(more) \in Nat, n <= Len(log), Len(log) <= Len(more),
         \A i \in 1..Len(log) : more[i] = log[i],
         CoversBut(skip, img, log, snap, n)
  PROVE  CoversBut(skip, img, more, snap, n)
<1> SUFFICES ASSUME NEW i \in 1..n, Verdict[more[i]] = "clean", more[i] \notin skip
             PROVE  Holds(img, more, snap, i)
  BY DEF CoversBut
<1>1. more[i] = log[i]
  OBVIOUS
<1>2. Holds(img, log, snap, i)
  BY <1>1 DEF CoversBut
<1>3. PICK j \in 1..Len(log) : img[KeyOf[log[i]]] = log[j] /\ (i > snap => i <= j)
  BY <1>2 DEF Holds
<1>4. j \in 1..Len(more) /\ more[j] = log[j]
  OBVIOUS
<1> QED BY <1>1, <1>3, <1>4 DEF Holds

(* Writing a row over a table. *)
LEMMA OverlayUpdate ==
  ASSUME NEW f \in Image, NEW g \in Image, NEW r \in Row
  PROVE  Overlay(f, [g EXCEPT ![KeyOf[r]] = r]) = [Overlay(f, g) EXCEPT ![KeyOf[r]] = r]
BY DEF Overlay, Image

(* Processing row m of the log adds it to what is covered, if it is among  *)
(* those the snapshot read or the newest that was read.                    *)
LEMMA CoversProcess ==
  ASSUME TypeOK, NEW snap \in Nat, NEW n \in Nat, n <= Len(wal), NEW m \in 1..n,
         n > snap => m = n,
         Process(wal[m]), UNCHANGED <<clean, ckpt, pend>>,
         \A i \in 1..n : Verdict[wal[i]] = "clean" /\ wal[i] \notin todo /\ i # m
                           => Holds(Current, wal, snap, i)
  PROVE  \A i \in 1..n : Verdict[wal[i]] = "clean" /\ (wal[i] \notin todo \/ wal[i] = wal[m])
                           => Holds(Current', wal, snap, i)
<1>0. Len(wal) \in Nat /\ wal[m] \in Row /\ Prepared \in Image /\ open \in Image
  BY ImageTypes DEF TypeOK
<1>1. Prepared' = Prepared
  BY OtherImages
<1> SUFFICES ASSUME NEW i \in 1..n, Verdict[wal[i]] = "clean",
                    wal[i] \notin todo \/ wal[i] = wal[m]
             PROVE  Holds(Current', wal, snap, i)
  OBVIOUS
<1>2. CASE Verdict[wal[m]] = "clean"
  <2>1. Current' = [Current EXCEPT ![KeyOf[wal[m]]] = wal[m]]
    <3>1. open' = [open EXCEPT ![KeyOf[wal[m]]] = wal[m]]
      BY <1>2 DEF Process, ErrorEntry
    <3>2. Current' = Overlay(Prepared, open')
      BY <1>1 DEF Current
    <3>3. Overlay(Prepared, [open EXCEPT ![KeyOf[wal[m]]] = wal[m]])
            = [Overlay(Prepared, open) EXCEPT ![KeyOf[wal[m]]] = wal[m]]
      BY <1>0, OverlayUpdate
    <3> QED BY <3>1, <3>2, <3>3, Zenon DEF Current
  <2>2. Current \in Image
    BY ImageTypes
  <2>3. CASE KeyOf[wal[i]] = KeyOf[wal[m]]
    <3>1. Current'[KeyOf[wal[i]]] = wal[m]
      BY <1>0, <2>1, <2>2, <2>3 DEF Image
    <3>2. i > snap => i <= m
      OBVIOUS
    <3>3. m \in 1..Len(wal)
      BY <1>0
    <3> QED BY <3>1, <3>2, <3>3 DEF Holds
  <2>4. CASE KeyOf[wal[i]] # KeyOf[wal[m]]
    <3>1. wal[i] # wal[m] /\ i # m
      BY <2>4
    <3>2. wal[i] \in Row
      BY <1>0 DEF TypeOK
    <3>3. Current'[KeyOf[wal[i]]] = Current[KeyOf[wal[i]]]
      BY <2>1, <2>2, <2>4, <3>2 DEF Image
    <3> QED BY <3>1, <3>3 DEF Holds
  <2> QED BY <2>3, <2>4
<1>3. CASE Verdict[wal[m]] # "clean"
  <2>1. wal[i] # wal[m] /\ i # m
    BY <1>3
  <2>2. Current' = Current
    BY <1>1, <1>3 DEF Process, ErrorEntry, Current
  <2> QED BY <2>1, <2>2
<1> QED BY <1>2, <1>3

(* CleanInv is kept. *)
LEMMA CleanStep ==
  /\ TypeOK /\ StatusInv /\ PositionInv /\ ReplayInv /\ CleanInv /\ [Next]_vars
  => CleanInv'
<1> SUFFICES ASSUME TypeOK, StatusInv, PositionInv, ReplayInv, CleanInv, [Next]_vars
             PROVE  CleanInv'
  OBVIOUS
<1>0. /\ Len(wal) \in Nat /\ read \in Nat /\ base \in Nat
      /\ ckpt # None => ckpt.base \in Nat /\ ckpt.read \in Nat
      /\ pend # None => pend.base \in Nat /\ pend.read \in Nat
  BY DEF TypeOK, Checkpoint
<1>1. CASE UNCHANGED vars
  BY <1>1 DEF vars, jobVars, ckptVars, CleanInv, Recovered, Prepared, Current
<1>2. ASSUME NEW r \in Row, Insert(r) PROVE CleanInv'
  <2>1. /\ Len(wal') \in Nat /\ Len(wal) <= Len(wal')
        /\ \A i \in 1..Len(wal) : wal'[i] = wal[i]
    BY LogGrows
  <2>2. UNCHANGED <<status, base, read, todo, clean, open, pend, ckpt>>
    BY <1>2 DEF Insert, jobVars, ckptVars
  <2>3. Recovered' = Recovered /\ Prepared' = Prepared /\ Current' = Current
    BY <2>2, OtherImages DEF Current
  <2>4. ckpt # None => Covers(Recovered, wal', ckpt.base, ckpt.read)
    BY <1>0, <2>1, CoversMore DEF PositionInv, CleanInv, Covers
  <2>5. pend # None => Covers(Prepared, wal', pend.base, pend.read)
    <3>1. pend # None => pend.read <= Len(wal)
      BY <1>0 DEF PositionInv, StatusInv
    <3> QED BY <1>0, <2>1, <3>1, CoversMore DEF CleanInv, Covers
  <2>6. status = "running" => CoversBut(todo, Current, wal', base, read)
    BY <1>0, <2>1, CoversMore DEF PositionInv, CleanInv
  <2> QED BY <2>2, <2>3, <2>4, <2>5, <2>6 DEF CleanInv
<1>3. ASSUME NEW r \in Row, ReadSnapshot(r) PROVE CleanInv'
  <2>1. /\ status = "running" /\ read = base /\ ckpt = None /\ pend = None /\ read <= Len(wal)
        /\ UNCHANGED <<wal, status, base, read, clean, ckpt, pend>> /\ todo' = todo \ {r}
    BY <1>3 DEF ReadSnapshot, ckptVars, PositionInv
  <2>2. PICK m \in 1..base : r = wal[m]
    BY <1>3 DEF ReadSnapshot, PositionInv
  <2>3. \A i \in 1..read : Verdict[wal[i]] = "clean" /\ wal[i] \notin todo
                              => Holds(Current, wal, base, i)
    BY <2>1 DEF CleanInv, CoversBut
  <2>4. Process(wal[m])
    BY <1>3, <2>2 DEF ReadSnapshot
  <2>5. \A i \in 1..read : Verdict[wal[i]] = "clean" /\ (wal[i] \notin todo \/ wal[i] = wal[m])
                              => Holds(Current', wal, base, i)
    BY <1>0, <2>1, <2>3, <2>4, CoversProcess
  <2>6. CoversBut(todo', Current', wal, base, read)
    BY <2>1, <2>2, <2>5 DEF CoversBut
  <2> QED BY <2>1, <2>6 DEF CleanInv
<1>4. CASE ReadStream
  <2>1. /\ status = "running" /\ todo = {} /\ read < Len(wal) /\ base <= read
        /\ UNCHANGED <<wal, status, base, todo, clean, ckpt, pend>> /\ read' = read + 1
        /\ Process(wal[read + 1])
    BY <1>4 DEF ReadStream, ckptVars, PositionInv
  <2>2. \A i \in 1..read + 1 :
          Verdict[wal[i]] = "clean" /\ wal[i] \notin todo /\ i # read + 1
            => Holds(Current, wal, base, i)
    BY <1>0, <2>1 DEF CleanInv, CoversBut
  <2>3. read + 1 \in Nat /\ read + 1 <= Len(wal) /\ read + 1 \in 1..read + 1
    BY <1>0, <2>1
  <2>4. \A i \in 1..read + 1 :
          Verdict[wal[i]] = "clean" /\ (wal[i] \notin todo \/ wal[i] = wal[read + 1])
            => Holds(Current', wal, base, i)
    BY <1>0, <2>1, <2>2, <2>3, CoversProcess
  <2>5. CoversBut(todo', Current', wal, base, read')
    BY <2>1, <2>4 DEF CoversBut
  <2>6. Recovered' = Recovered /\ Prepared' = Prepared
    BY <2>1, OtherImages
  <2> QED BY <2>1, <2>5, <2>6 DEF CleanInv
<1>5. CASE Tick \/ FlushErrors \/ ConfirmSlot
  <2>1. UNCHANGED <<wal, status, base, read, todo, clean, open, pend, ckpt>>
    BY <1>5 DEF Tick, FlushErrors, FlushBuffer, ConfirmSlot,
         jobVars, ckptVars
  <2>2. Recovered' = Recovered /\ Prepared' = Prepared /\ Current' = Current
    BY <2>1, OtherImages DEF Current
  <2> QED BY <2>1, <2>2 DEF CleanInv
<1>6. CASE Submit
  <2>1. /\ ckpt' = None /\ pend' = None /\ wal' = wal /\ read' = Len(wal) /\ todo' = Committed
    BY <1>6 DEF Submit, StartFromSnapshot, DropJobState, StatusInv
  <2> QED BY <2>1 DEF CleanInv, CoversBut, Committed
<1>7. CASE Discard \/ Crash \/ LoadFails
  <2>1. wal' = wal /\ status' # "running"
    BY <1>7 DEF Discard, Crash, LoadFails, Fail
  <2> QED BY <1>7, <2>1, StopImages DEF CleanInv
<1>8. CASE Barrier
  <2>1. /\ status = "running" /\ todo = {} /\ pend' # None
        /\ pend'.base = base /\ pend'.read = read
        /\ UNCHANGED <<wal, status, base, read, todo, ckpt>>
    <3>1. pend' \in Checkpoint
      <4>1. clean \in Image /\ open \in Image /\ TxnOf(ckpt) \in Image
        BY TxnType DEF TypeOK
      <4> QED BY <1>8, <4>1, OverlayType DEF Barrier, Checkpointable, PreparedRows,
           FlushBuffer, Checkpoint, TypeOK
    <3> QED BY <1>8, <3>1 DEF Barrier, Checkpointable, PreparedRows, FlushBuffer
  <2> QED BY <1>8, <2>1, BarrierImages DEF CleanInv, Covers
<1>9. CASE CompleteCheckpoint
  <2>1. /\ ckpt' = pend /\ pend' = None /\ pend # None
        /\ UNCHANGED <<wal, status, base, read, todo>>
    BY <1>9 DEF CompleteCheckpoint, jobVars
  <2> QED BY <1>9, <2>1, CompleteImages DEF CleanInv
<1>10. CASE CommitClean
  <2>1. UNCHANGED <<wal, status, base, read, todo, ckpt, pend>>
    BY <1>10 DEF CommitClean, CommitTransaction, jobVars
  <2> QED BY <1>10, <2>1, CommitImages DEF CleanInv
<1>11. CASE Restore
  <2>1. UNCHANGED <<wal, ckpt, pend>> /\ pend = None /\ open = Empty /\ todo = {}
    BY <1>11 DEF Restore, CommitTransaction, ResumePosition, StatusInv
  <2>2. CASE ckpt = None
    BY <1>11, <2>1, <2>2 DEF Restore, CommitTransaction, ResumePosition,
         StartFromSnapshot, CleanInv, CoversBut, Committed
  <2>3. CASE ckpt # None
    <3>1. Current = Recovered
      <4>1. TxnOf(pend) = Empty
        BY <2>1 DEF TxnOf
      <4>2. Prepared = Recovered
        BY <4>1, ImageTypes, OverlayEmpty DEF Prepared
      <4> QED BY <2>1, <4>2, ImageTypes, OverlayEmpty DEF Current
    <3>2. base' = ckpt.base /\ read' = ckpt.read /\ todo' = {}
      BY <1>0, <1>11, <2>3 DEF Restore, CommitTransaction, ResumePosition,
           PositionInv, TypeOK
    <3> QED BY <1>11, <2>1, <2>3, <3>1, <3>2, CommitImages DEF CleanInv, Covers
  <2> QED BY <2>2, <2>3
<1> QED
  BY <1>1, <1>2, <1>3, <1>4, <1>5, <1>6, <1>7, <1>8, <1>9, <1>10, <1>11 DEF Next

-------------------------------------------------------------------------------
(* No rejected row is lost, no refused row is passed *)

(* An upsert keeps every key that was there, and adds those it brings. *)
LEMMA UpsertKeeps ==
  ASSUME NEW E, NEW F
  PROVE  \A e \in E \cup F : \E f \in Upsert(E, F) : KeyOf[f.row] = KeyOf[e.row]
BY DEF Upsert

(* Reports survive a longer log and further entries. *)
LEMMA ReportsMore ==
  ASSUME NEW E, NEW F, NEW log, NEW more, NEW n,
         \A e \in E : \E f \in F : KeyOf[f.row] = KeyOf[e.row],
         \A i \in 1..n : more[i] = log[i],
         Reports(E, log, n)
  PROVE  Reports(F, more, n)
<1> SUFFICES ASSUME NEW i \in 1..n, Verdict[more[i]] = "error"
             PROVE  \E f \in F : KeyOf[f.row] = KeyOf[more[i]]
  BY DEF Reports
<1>1. PICK e \in E : KeyOf[e.row] = KeyOf[log[i]]
  BY DEF Reports
<1> QED BY <1>1

(* What the running job has read and accounted for, as one formula. *)
Accounted(log, n, skip, E, jam) ==
  \A i \in 1..n : log[i] \notin skip =>
    /\ Verdict[log[i]] = "error" => \E e \in E : KeyOf[e.row] = KeyOf[log[i]]
    /\ Verdict[log[i]] = "poison" => jam

(* Processing a row accounts for it. *)
LEMMA AccountedProcess ==
  ASSUME TypeOK, NEW r \in Row, Process(r), error' = error, NEW n,
         \A i \in 1..n : wal[i] # r /\ wal[i] \notin todo =>
           /\ Verdict[wal[i]] = "error" =>
                \E e \in error \cup errbuf : KeyOf[e.row] = KeyOf[wal[i]]
           /\ Verdict[wal[i]] = "poison" => jammed
  PROVE  Accounted(wal, n, todo \ {r}, error' \cup errbuf', jammed')
<1>1. \A e \in error \cup errbuf :
        \E f \in error' \cup errbuf' : KeyOf[f.row] = KeyOf[e.row]
  <2>1. CASE Verdict[r] # "error"
    BY <2>1 DEF Process, ErrorEntry
  <2>2. CASE Verdict[r] = "error"
    <3>1. errbuf' = Upsert(errbuf, {[row |-> r, at |-> now]})
      BY <2>2 DEF Process, ErrorEntry
    <3>2. \A e \in errbuf \cup {[row |-> r, at |-> now]} :
            \E f \in Upsert(errbuf, {[row |-> r, at |-> now]}) : KeyOf[f.row] = KeyOf[e.row]
      BY UpsertKeeps, Zenon
    <3> QED BY <2>2, <3>1, <3>2 DEF Process, ErrorEntry
  <2> QED BY <2>1, <2>2
<1>2. Verdict[r] = "error" => \E f \in errbuf' : KeyOf[f.row] = KeyOf[r]
  <2>1. Verdict[r] = "error" => errbuf' = Upsert(errbuf, {[row |-> r, at |-> now]})
    BY DEF Process, ErrorEntry
  <2>2. [row |-> r, at |-> now].row = r
    OBVIOUS
  <2>3. \E f \in Upsert(errbuf, {[row |-> r, at |-> now]}) : f = [row |-> r, at |-> now]
    BY DEF Upsert
  <2> QED BY <2>1, <2>2, <2>3
<1>3. Verdict[r] = "poison" => jammed'
  BY DEF Process, ErrorEntry
<1>4. jammed => jammed'
  BY DEF Process, ErrorEntry, TypeOK
<1> SUFFICES ASSUME NEW i \in 1..n, wal[i] \notin todo \ {r}
             PROVE  /\ Verdict[wal[i]] = "error" =>
                         \E e \in error' \cup errbuf' : KeyOf[e.row] = KeyOf[wal[i]]
                    /\ Verdict[wal[i]] = "poison" => jammed'
  BY DEF Accounted
<1>5. CASE wal[i] = r
  BY <1>2, <1>3, <1>5
<1>6. CASE wal[i] # r
  <2>1. Verdict[wal[i]] = "error" =>
          \E e \in error \cup errbuf : KeyOf[e.row] = KeyOf[wal[i]]
    BY <1>6
  <2>2. Verdict[wal[i]] = "error" =>
          \E e \in error' \cup errbuf' : KeyOf[e.row] = KeyOf[wal[i]]
    BY <1>1, <2>1
  <2> QED BY <1>4, <1>6, <2>2
<1> QED BY <1>5, <1>6

(* ErrorInv is kept. *)
LEMMA ErrorStep ==
  TypeOK /\ StatusInv /\ PositionInv /\ ErrorInv /\ [Next]_vars => ErrorInv'
<1> SUFFICES ASSUME TypeOK, StatusInv, PositionInv, ErrorInv, [Next]_vars
             PROVE  ErrorInv'
  OBVIOUS
<1>0. /\ Len(wal) \in Nat /\ read \in Nat /\ base \in Nat
      /\ ckpt # None => ckpt.read \in Nat
      /\ pend # None => pend.read \in Nat
  BY DEF TypeOK, Checkpoint
<1>a. status = "running" => Accounted(wal, read, todo, error \cup errbuf, jammed)
  BY DEF ErrorInv, Accounted
<1>b. CASE UNCHANGED <<wal, status, read, todo, errbuf, jammed, pend, ckpt, error>>
  BY <1>b DEF ErrorInv, Reports, NoPoison
<1>1. CASE UNCHANGED vars \/ Tick \/ CommitClean \/ ConfirmSlot
  <2>1. UNCHANGED <<wal, status, read, todo, errbuf, jammed, pend, ckpt, error>>
    BY <1>1 DEF vars, jobVars, ckptVars, Tick, CommitClean, CommitTransaction,
         ConfirmSlot
  <2> QED BY <1>b, <2>1
<1>2. ASSUME NEW r \in Row, Insert(r) PROVE ErrorInv'
  <2>1. \A i \in 1..Len(wal) : wal'[i] = wal[i]
    BY LogGrows
  <2>2. UNCHANGED <<status, read, todo, errbuf, jammed, pend, ckpt, error>>
    BY <1>2 DEF Insert, jobVars, ckptVars
  <2>3. ckpt # None => Reports(error, wal', ckpt.read) /\ NoPoison(wal', ckpt.read)
    <3>1. ckpt # None => \A i \in 1..ckpt.read : wal'[i] = wal[i]
      BY <1>0, <2>1 DEF PositionInv
    <3> QED BY <3>1, ReportsMore DEF ErrorInv, NoPoison
  <2>4. pend # None => Reports(error, wal', pend.read) /\ NoPoison(wal', pend.read)
    <3>1. pend # None => \A i \in 1..pend.read : wal'[i] = wal[i]
      BY <1>0, <2>1 DEF PositionInv, StatusInv
    <3> QED BY <3>1, ReportsMore DEF ErrorInv, NoPoison
  <2>5. status = "running" => Accounted(wal', read, todo, error \cup errbuf, jammed)
    <3>1. status = "running" => \A i \in 1..read : wal'[i] = wal[i]
      BY <1>0, <2>1 DEF PositionInv
    <3> QED BY <1>a, <3>1 DEF Accounted
  <2> QED BY <2>2, <2>3, <2>4, <2>5 DEF ErrorInv, Accounted
<1>3. ASSUME NEW r \in Row, ReadSnapshot(r) PROVE ErrorInv'
  <2>1. /\ ckpt = None /\ pend = None /\ status = "running"
        /\ UNCHANGED <<wal, status, read, ckpt, pend, error>> /\ todo' = todo \ {r}
        /\ Process(r)
    BY <1>3 DEF ReadSnapshot, ckptVars, PositionInv
  <2>2. Accounted(wal, read, todo', error' \cup errbuf', jammed')
    BY <1>a, <2>1, AccountedProcess DEF Accounted
  <2> QED BY <2>1, <2>2 DEF ErrorInv, Accounted
<1>4. CASE ReadStream
  <2>1. /\ status = "running" /\ todo = {} /\ read < Len(wal) /\ wal[read + 1] \in Row
        /\ UNCHANGED <<wal, status, todo, ckpt, pend, error>> /\ read' = read + 1
        /\ Process(wal[read + 1])
    BY <1>0, <1>4 DEF ReadStream, ckptVars, TypeOK
  <2>2. \A i \in 1..read + 1 : wal[i] # wal[read + 1] => i \in 1..read
    BY <1>0
  <2>3. Accounted(wal, read + 1, todo \ {wal[read + 1]}, error' \cup errbuf', jammed')
    BY <1>a, <2>1, <2>2, AccountedProcess DEF Accounted
  <2>4. Accounted(wal, read', todo', error' \cup errbuf', jammed')
    BY <2>1, <2>3 DEF Accounted
  <2> QED BY <2>1, <2>4 DEF ErrorInv, Accounted
<1>5. CASE FlushErrors \/ Barrier
  <2>1. /\ status = "running" /\ errbuf' = {} /\ error' = Upsert(error, errbuf)
        /\ UNCHANGED <<wal, status, read, todo, jammed, ckpt>>
    BY <1>5 DEF FlushErrors, FlushBuffer, Barrier, Checkpointable, PreparedRows,
         ckptVars
  <2>2. \A e \in error \cup errbuf : \E f \in error' : KeyOf[f.row] = KeyOf[e.row]
    <3>1. \A e \in error \cup errbuf : \E f \in Upsert(error, errbuf) : KeyOf[f.row] = KeyOf[e.row]
      BY UpsertKeeps
    <3> QED BY <2>1, <3>1
  <2>3. ckpt # None => Reports(error', wal, ckpt.read) /\ NoPoison(wal, ckpt.read)
    BY <2>2, ReportsMore DEF ErrorInv
  <2>4. Accounted(wal, read, todo, error', jammed)
    BY <1>a, <2>1, <2>2 DEF Accounted
  <2>5. pend' # None => Reports(error', wal, pend'.read) /\ NoPoison(wal, pend'.read)
    <3>1. CASE FlushErrors
      <4>1. pend' = pend
        BY <3>1 DEF FlushErrors, FlushBuffer, ckptVars
      <4> QED BY <2>2, <4>1, ReportsMore DEF ErrorInv
    <3>2. CASE Barrier
      <4>1. todo = {} /\ ~jammed /\ pend'.read = read
        BY <3>2 DEF Barrier, Checkpointable, PreparedRows, FlushBuffer
      <4> QED BY <2>4, <4>1 DEF Accounted, Reports, NoPoison
    <3> QED BY <1>5, <3>1, <3>2
  <2> QED BY <2>1, <2>3, <2>4, <2>5 DEF ErrorInv, Accounted
<1>6. CASE CompleteCheckpoint
  <2>1. /\ ckpt' = pend /\ pend' = None /\ pend # None
        /\ UNCHANGED <<wal, status, read, todo, errbuf, jammed, error>>
    BY <1>6 DEF CompleteCheckpoint, jobVars
  <2> QED BY <1>a, <2>1 DEF ErrorInv, Accounted
<1>7. CASE Submit
  <2>1. /\ ckpt' = None /\ pend' = None /\ wal' = wal /\ read' = Len(wal) /\ todo' = Committed
    BY <1>7 DEF Submit, StartFromSnapshot, DropJobState, StatusInv
  <2> QED BY <2>1 DEF ErrorInv, Committed
<1>8. CASE Discard \/ Crash \/ LoadFails
  <2>1. /\ wal' = wal /\ error' = error /\ status' # "running" /\ pend' = None
        /\ ckpt' \in {ckpt, None}
    BY <1>8 DEF Discard, Crash, LoadFails, Fail, DropJobState
  <2> QED BY <2>1 DEF ErrorInv
<1>9. CASE Restore
  <2>1. UNCHANGED <<wal, ckpt, pend, error, errbuf, jammed>> /\ pend = None
    BY <1>9 DEF Restore, CommitTransaction, ResumePosition, StatusInv
  <2>2. CASE ckpt = None
    BY <1>9, <2>1, <2>2 DEF Restore, CommitTransaction, ResumePosition,
         StartFromSnapshot, ErrorInv, Committed
  <2>3. CASE ckpt # None
    <3>1. read' = ckpt.read /\ todo' = {}
      BY <1>0, <1>9, <2>3 DEF Restore, CommitTransaction, ResumePosition,
           PositionInv, TypeOK
    <3> QED BY <2>1, <2>3, <3>1 DEF ErrorInv, Reports, NoPoison
  <2> QED BY <2>2, <2>3
<1> QED
  BY <1>1, <1>2, <1>3, <1>4, <1>5, <1>6, <1>7, <1>8, <1>9 DEF Next

-------------------------------------------------------------------------------
(* The invariant, and the properties it gives *)

(* IInv holds initially. *)
LEMMA InitInvariant == Init => IInv
<1> SUFFICES ASSUME Init PROVE IInv
  OBVIOUS
<1>1. TypeOK /\ StatusInv
  BY InitTypes
<1>2. /\ wal = <<>> /\ clean = Empty /\ ckpt = None /\ pend = None /\ todo = {} /\ errbuf = {}
      /\ status = "absent" /\ confirmed = 0
  BY DEF Init
<1>3. Len(wal) = 0
  BY <1>2
<1>4. LogInv /\ PositionInv /\ OriginInv
  BY <1>2, <1>3, DrawnEmpty DEF LogInv, PositionInv, OriginInv
<1>5. Recovered = clean
  BY <1>2, EmptyType, OverlayEmpty DEF Recovered, TxnOf
<1>6. ReplayInv /\ CleanInv /\ ErrorInv
  BY <1>2, <1>5 DEF ReplayInv, CleanInv, ErrorInv
<1> QED BY <1>1, <1>4, <1>6 DEF IInv

(* Every step keeps IInv: the invariant is inductive. *)
THEOREM Invariance == Spec => []IInv
<1>1. IInv /\ [Next]_vars => IInv'
  BY TypeStep, StatusStep, LogStep, PositionStep, OriginStep, ReplayStep, CleanStep, ErrorStep
     DEF IInv
<1> QED BY InitInvariant, <1>1, PTL DEF Spec

(* No valid row is lost: whatever the last checkpoint covers is published  *)
(* or about to be, and nothing newer has been overwritten.                 *)
THEOREM NothingLost == Spec => []CheckpointCovered
<1>1. IInv => CheckpointCovered
  BY DEF IInv, CleanInv, Covers, CoversBut, CheckpointCovered
<1> QED BY Invariance, <1>1, PTL

(* No rejected row is lost, though the error sink is outside transactions. *)
THEOREM NoErrorLost == Spec => []ErrorsReported
<1>1. IInv => ErrorsReported
  BY DEF IInv, ErrorInv, Reports, ErrorsReported
<1> QED BY Invariance, <1>1, PTL

(* The slot never runs ahead of what a recovery will ask for. *)
THEOREM SlotIsSafe == Spec => []SlotSafe
<1>1. IInv => SlotSafe
  BY DEF IInv, PositionInv, SlotSafe
<1> QED BY Invariance, <1>1, PTL

(* No checkpoint ever passes a row StarRocks refuses. *)
THEOREM PoisonBlocks == Spec => []PoisonNeverPassed
<1>1. IInv => PoisonNeverPassed
  BY DEF IInv, ErrorInv, NoPoison, PoisonNeverPassed
<1> QED BY Invariance, <1>1, PTL

(* A commit or a recovery replaces a streamed row by a newer one at most.  *)
LEMMA CommitKeepsNewest ==
  ASSUME IInv, CommitClean \/ Restore, ckpt # None,
         NEW k \in Key, NEW i \in ckpt.base + 1 .. Len(wal), clean[k] = wal[i]
  PROVE  \E j \in i..Len(wal') : clean'[k] = wal'[j]
<1> USE DEF IInv
<1>1. /\ Len(wal) \in Nat /\ ckpt.base \in Nat /\ ckpt.read \in Nat
      /\ i \in 1..Len(wal) /\ i > ckpt.base /\ wal[i] \in Row
  BY DEF TypeOK, Checkpoint
<1>2. wal' = wal
  BY DEF CommitClean, CommitTransaction, Restore, ResumePosition
<1>3. clean' = Recovered
  BY CommitImages
<1>4. PICK h \in 1..ckpt.read :
        clean[k] = wal[h] /\ Verdict[wal[h]] = "clean" /\ KeyOf[wal[h]] = k
  BY <1>1 DEF OriginInv, Drawn
<1>5. h = i
  <2>1. h \in 1..Len(wal) /\ wal[h] = wal[i]
    BY <1>1, <1>4 DEF PositionInv
  <2> QED BY <1>1, <2>1 DEF LogInv
<1>6. Holds(Recovered, wal, ckpt.base, i)
  BY <1>4, <1>5 DEF CleanInv, Covers, CoversBut
<1> QED BY <1>1, <1>2, <1>3, <1>4, <1>5, <1>6 DEF Holds

(* Every other step leaves the clean table alone. *)
LEMMA CleanUntouched == [Next]_vars => clean' = clean \/ CommitClean \/ Restore
BY DEF Next, vars, jobVars, ckptVars, Insert, ReadSnapshot, Tick, Submit, Discard,
     ReadStream, FlushErrors, FlushBuffer, Barrier, Checkpointable, PreparedRows,
     CompleteCheckpoint, ConfirmSlot, Crash,
     LoadFails, Fail

(* A published row that came through the stream never gives way to an      *)
(* older one.                                                              *)
THEOREM NeverRegresses == Spec => PublishedNeverRegresses
<1> DEFINE Kept == ckpt # None =>
                     \A k \in Key : \A i \in ckpt.base + 1 .. Len(wal) :
                       clean[k] = wal[i] => \E j \in i..Len(wal') : clean'[k] = wal'[j]
<1>1. IInv /\ [Next]_vars => Kept
  <2> SUFFICES ASSUME IInv, [Next]_vars, ckpt # None,
                      NEW k \in Key, NEW i \in ckpt.base + 1 .. Len(wal), clean[k] = wal[i]
               PROVE  \E j \in i..Len(wal') : clean'[k] = wal'[j]
    OBVIOUS
  <2>1. /\ TypeOK /\ ckpt.base \in Nat /\ Len(wal) \in Nat /\ Len(wal') \in Nat
        /\ Len(wal) <= Len(wal') /\ \A h \in 1..Len(wal) : wal'[h] = wal[h]
    BY LogGrows DEF IInv, TypeOK, Checkpoint
  <2>2. CASE clean' = clean
    BY <2>1, <2>2
  <2>3. CASE CommitClean \/ Restore
    BY <2>3, CommitKeepsNewest
  <2> QED BY <2>2, <2>3, CleanUntouched
<1>2. IInv /\ [Next]_vars => [Kept]_vars
  BY <1>1
<1>3. Spec => [][Kept]_vars
  BY Invariance, <1>2, PTL DEF Spec
<1> QED BY <1>3 DEF PublishedNeverRegresses

-------------------------------------------------------------------------------
(* The job implements the abstract table *)

(* A flush reports: entries are replaced under their key and time only,    *)
(* and the new ones are of rejected rows.                                  *)
LEMMA FlushReports ==
  ASSUME error' = Upsert(error, errbuf), UNCHANGED <<wal, clean>>,
         \A e \in errbuf : e.row \in Committed /\ Verdict[e.row] = "error"
  PROVE  Table!Report
<1>1. ASSUME NEW e \in error
      PROVE  \E f \in error' : KeyOf[f.row] = KeyOf[e.row] /\ f.at = e.at
  <2>1. CASE \E f \in errbuf : KeyOf[f.row] = KeyOf[e.row] /\ f.at = e.at
    BY <2>1 DEF Upsert
  <2>2. CASE \A f \in errbuf : KeyOf[e.row] # KeyOf[f.row] \/ e.at # f.at
    BY <2>2 DEF Upsert
  <2> QED BY <2>1, <2>2
<1>2. \A f \in error' : f \in error \/ (f.row \in Committed /\ Verdict[f.row] = "error")
  BY DEF Upsert
<1> QED BY <1>1, <1>2 DEF Table!Report, Table!Committed, Committed

(* A commit or a recovery publishes. *)
LEMMA CommitPublishes == IInv /\ (CommitClean \/ Restore) => Table!Publish
<1> SUFFICES ASSUME IInv, CommitClean \/ Restore PROVE Table!Publish
  OBVIOUS
<1> USE DEF IInv
<1>1. clean' = Recovered /\ wal' = wal /\ error' = error
  BY CommitImages DEF CommitClean, CommitTransaction, Restore, ResumePosition
<1>2. Recovered \in Image /\ clean \in Image
  BY ImageTypes DEF TypeOK
<1>3. DOMAIN clean' = Key
  BY <1>1, <1>2 DEF Image
<1>4. ASSUME NEW k \in Key
      PROVE  \/ clean'[k] = clean[k]
             \/ /\ clean'[k] \in Committed
                /\ Verdict[clean'[k]] = "clean" /\ KeyOf[clean'[k]] = k
  <2>1. CASE ckpt = None
    BY <1>1, <2>1 DEF Recovered, Overlay, TxnOf, Empty
  <2>2. CASE ckpt # None
    <3>1. Recovered[k] = IF ckpt.txn[k] = NoRow THEN clean[k] ELSE ckpt.txn[k]
      BY <2>2 DEF Recovered, Overlay, TxnOf
    <3>2. CASE ckpt.txn[k] = NoRow
      BY <1>1, <3>1, <3>2
    <3>3. CASE ckpt.txn[k] # NoRow
      <4>1. PICK i \in 1..ckpt.read : /\ ckpt.txn[k] = wal[i]
                                     /\ Verdict[wal[i]] = "clean" /\ KeyOf[wal[i]] = k
        BY <2>2, <3>3 DEF OriginInv, Drawn
      <4>2. i \in 1..Len(wal)
        BY <2>2 DEF PositionInv, TypeOK, Checkpoint
      <4> QED BY <1>1, <3>1, <3>3, <4>1, <4>2 DEF Committed
    <3> QED BY <3>2, <3>3
  <2> QED BY <2>1, <2>2
<1> QED BY <1>1, <1>3, <1>4 DEF Table!Publish, Table!Committed, Committed

(* Readers of StarRocks see a table that only publishes and reports. *)
THEOREM Implementation == Spec => ImplementsTable
<1>1. Init => Table!Init
  BY DEF Init, Table!Init, Empty
<1>2. IInv /\ [Next]_vars => [Table!Next]_(Table!vars)
  <2> SUFFICES ASSUME IInv, [Next]_vars PROVE [Table!Next]_(Table!vars)
    OBVIOUS
  <2>1. ASSUME NEW r \in Row, Insert(r) PROVE Table!Insert
    BY <2>1 DEF Insert, Table!Insert, Committed, Table!Committed
  <2>2. CASE CommitClean \/ Restore
    BY <2>2, CommitPublishes DEF Table!Next
  <2>3. CASE FlushErrors \/ Barrier
    <3>1. error' = Upsert(error, errbuf) /\ UNCHANGED <<wal, clean>>
      BY <2>3 DEF FlushErrors, FlushBuffer, Barrier, Checkpointable, PreparedRows
    <3> QED BY <3>1, FlushReports DEF IInv, OriginInv, Table!Next
  <2>4. CASE UNCHANGED <<wal, clean, error>>
    BY <2>4 DEF Table!vars
  <2>5. CASE UNCHANGED vars \/ Tick \/ Submit \/ Discard \/ ReadStream \/ CompleteCheckpoint
             \/ ConfirmSlot \/ Crash \/ LoadFails \/ \E r \in Row : ReadSnapshot(r)
    <3>1. UNCHANGED <<wal, clean, error>>
      BY <2>5 DEF vars, jobVars, ckptVars, Tick, Submit, Discard, ReadStream,
           CompleteCheckpoint, ConfirmSlot, Crash,
           LoadFails, Fail, ReadSnapshot
    <3> QED BY <3>1, <2>4
  <2> QED BY <2>1, <2>2, <2>3, <2>5 DEF Next, Table!Next
<1> QED BY Invariance, <1>1, <1>2, PTL DEF Spec, ImplementsTable, Table!Spec
===============================================================================
