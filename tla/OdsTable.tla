-------------------------------- MODULE OdsTable -------------------------------
(***************************************************************************)
(* What a reader of StarRocks may rely on, for one source table: the clean *)
(* table holds committed, valid rows, each under its own key; the error    *)
(* table holds committed, rejected rows; and neither table forgets.  Jobs, *)
(* checkpoints, failures and redeployments are invisible here.             *)
(***************************************************************************)
EXTENDS Integers, Sequences

CONSTANTS Row, Key, KeyOf, Verdict, NoRow

VARIABLES wal, clean, error

vars == <<wal, clean, error>>

Committed == {wal[i] : i \in 1..Len(wal)}

Init ==
  /\ wal = <<>>
  /\ clean = [k \in Key |-> NoRow]
  /\ error = {}

Insert ==
  /\ \E r \in Row : r \notin Committed /\ wal' = Append(wal, r)
  /\ UNCHANGED <<clean, error>>

(* Any number of keys change at once, each to a valid row of its own. *)
Publish ==
  /\ DOMAIN clean' = Key
  /\ \A k \in Key :
       \/ clean'[k] = clean[k]
       \/ clean'[k] \in Committed /\ Verdict[clean'[k]] = "clean" /\ KeyOf[clean'[k]] = k
  /\ UNCHANGED <<wal, error>>

(* An entry is replaced by one of the same key and time at most. *)
Report ==
  /\ \A e \in error : \E f \in error' : KeyOf[f.row] = KeyOf[e.row] /\ f.at = e.at
  /\ \A f \in error' : f \in error \/ (f.row \in Committed /\ Verdict[f.row] = "error")
  /\ UNCHANGED <<wal, clean>>

Next == Insert \/ Publish \/ Report

Spec == Init /\ [][Next]_vars
===============================================================================
