---------------------------- MODULE EtlJobInvariant ----------------------------
(***************************************************************************)
(* The inductive invariant behind the safety properties of EtlJob, and the *)
(* abstract table EtlJob implements.                                       *)
(***************************************************************************)
EXTENDS EtlJob

Table == INSTANCE OdsTable WITH wal <- wal, clean <- clean, error <- error

(* The clean table and its reports are those of OdsTable, whatever fails:  *)
(* no reader sees an uncommitted, rejected or misfiled row, and nothing    *)
(* published disappears.                                                   *)
ImplementsTable == Table!Spec

-------------------------------------------------------------------------------
(* The content the clean table will have once the checkpoint being taken,  *)
(* and then the open transaction, are committed too.                       *)
Prepared == Overlay(Recovered, TxnOf(pend))
Current  == Overlay(Prepared, open)

(* img holds valid rows among the first n of a log, under their keys. *)
Drawn(img, log, n) ==
  \A k \in Key : img[k] # NoRow =>
    \E i \in 1..n : img[k] = log[i] /\ Verdict[log[i]] = "clean" /\ KeyOf[log[i]] = k

(* The valid rows among the first n, those of skip excepted, are in img. *)
CoversBut(skip, img, log, snap, n) ==
  \A i \in 1..n : Verdict[log[i]] = "clean" /\ log[i] \notin skip => Holds(img, log, snap, i)

Covers(img, log, snap, n) == CoversBut({}, img, log, snap, n)

Reports(E, log, n) ==
  \A i \in 1..n : Verdict[log[i]] = "error" => \E e \in E : KeyOf[e.row] = KeyOf[log[i]]

NoPoison(log, n) == \A i \in 1..n : Verdict[log[i]] # "poison"

-------------------------------------------------------------------------------
LogInv == \A i, j \in 1..Len(wal) : wal[i] = wal[j] => i = j

(* What a job that is not running has left behind. *)
StatusInv ==
  /\ status # "running" =>
       todo = {} /\ open = Empty /\ ~jammed /\ errbuf = {} /\ pend = None
  /\ status = "absent" => ckpt = None
  /\ commitDue => ckpt # None
  /\ confirmDue => ckpt # None

(* The order of the slot, the two checkpoints and the source in the log. *)
PositionInv ==
  /\ confirmed <= Len(wal)
  /\ status = "running" => /\ confirmed <= read /\ read <= Len(wal)
                           /\ base <= read
  /\ ckpt # None => /\ confirmed <= ckpt.read /\ ckpt.read <= Len(wal)
                    /\ ckpt.base <= ckpt.read
                    /\ status = "running" => ckpt.base = base /\ ckpt.read <= read
  /\ pend # None => /\ confirmed <= pend.read /\ pend.read <= read
                    /\ pend.base = base /\ base <= pend.read
                    /\ ckpt # None => ckpt.read <= pend.read
  /\ todo # {} => read = base /\ ckpt = None /\ pend = None
  /\ todo \subseteq {wal[i] : i \in 1..base}

(* Where the rows of each table and transaction come from. *)
OriginInv ==
  /\ Drawn(clean, wal, Len(wal))
  /\ status = "running" /\ ckpt = None => Drawn(clean, wal, base)
  /\ ckpt # None => Drawn(clean, wal, ckpt.read) /\ Drawn(ckpt.txn, wal, ckpt.read)
  /\ pend # None => Drawn(pend.txn, wal, pend.read)
  /\ status = "running" => Drawn(open, wal, read)
  /\ \A e \in errbuf : e.row \in Committed /\ Verdict[e.row] = "error"

(* Committing a transaction again, or together with the next, changes      *)
(* nothing.                                                                *)
ReplayInv ==
  /\ ~commitDue => Recovered = clean
  /\ pend # None => Overlay(clean, pend.txn) = Prepared

(* No valid row is missing from what has been read. *)
CleanInv ==
  /\ ckpt # None => Covers(Recovered, wal, ckpt.base, ckpt.read)
  /\ pend # None => Covers(Prepared, wal, pend.base, pend.read)
  /\ status = "running" => CoversBut(todo, Current, wal, base, read)

(* No rejected row either; and no refused row is behind a barrier. *)
ErrorInv ==
  /\ ckpt # None => Reports(error, wal, ckpt.read) /\ NoPoison(wal, ckpt.read)
  /\ pend # None => Reports(error, wal, pend.read) /\ NoPoison(wal, pend.read)
  /\ status = "running" =>
       \A i \in 1..read : wal[i] \notin todo =>
         /\ Verdict[wal[i]] = "error" =>
              \E e \in error \cup errbuf : KeyOf[e.row] = KeyOf[wal[i]]
         /\ Verdict[wal[i]] = "poison" => jammed

IInv ==
  /\ TypeOK
  /\ LogInv
  /\ StatusInv
  /\ PositionInv
  /\ OriginInv
  /\ ReplayInv
  /\ CleanInv
  /\ ErrorInv
===============================================================================
