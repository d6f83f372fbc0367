------------------------------ MODULE KafkaTopic -------------------------------
(***************************************************************************)
(* kafka_json_format.py, kafka_avro_format.py and kafka_csv_format.py: one *)
(* job writes seven rows to a topic, then another reads the topic from its *)
(* beginning and prints the rows.  The writer's source is a collection,    *)
(* which keeps no position: a writer that restarts sends everything again. *)
(* The reader restarts from its last checkpoint's offset.                  *)
(***************************************************************************)
EXTENDS Integers, Sequences, SequencesExt

CONSTANTS
  Rows,                \* the rows, in order
  Backlog,             \* contents of the topic before the run
  MaxFailures          \* bound, per job

VARIABLES
  format, phase,       \* "write", "read"
  pos,                 \* rows of this attempt
  topic,               \* messages: [how, row]
  unsent,              \* rows the producer has not handed to the broker
  offset, saved,       \* the reader's position, and the checkpoint's
  shown,               \* offsets of the rows printed, in order
  failed               \* per phase

vars == <<format, phase, pos, topic, unsent, offset, saved, shown, failed>>

(* The schemas of the programs' writers and readers. *)
kafka_json_format == [writes |-> "json", reads |-> "json"]
kafka_avro_format == [writes |-> "avro", reads |-> "avro"]
kafka_csv_format  == [writes |-> "csv", reads |-> "json"]

Formats == {kafka_json_format, kafka_avro_format, kafka_csv_format}

Init ==
  /\ format \in Formats /\ phase = "write"
  /\ topic \in {[i \in DOMAIN b |-> [how |-> format.writes, row |-> b[i]]] : b \in Backlog}
  /\ pos = 0 /\ unsent = <<>> /\ offset = 0 /\ saved = 0 /\ shown = <<>>
  /\ failed = [p \in {"write", "read"} |-> 0]

(* The writer. *)
Write ==
  /\ phase = "write" /\ pos < Len(Rows)
  /\ pos' = pos + 1
  /\ unsent' = Append(unsent, Rows[pos'])
  /\ UNCHANGED <<format, phase, topic, offset, saved, shown, failed>>

(* Slip: a row whose acknowledgement is lost is sent twice. *)
SendAgain ==
  /\ unsent # <<>>
  /\ topic' = Append(topic, [how |-> format.writes, row |-> Head(unsent)])
  /\ unsent' \in {unsent, Tail(unsent)}
  /\ Len(topic) < 9
  /\ UNCHANGED <<format, phase, pos, offset, saved, shown, failed>>

Send ==
  /\ unsent # <<>>
  /\ topic' = Append(topic, [how |-> format.writes, row |-> Head(unsent)])
  /\ unsent' = Tail(unsent)
  /\ UNCHANGED <<format, phase, pos, offset, saved, shown, failed>>

(* Slip: the job ends with rows still in the producer's buffer. *)
CloseUnflushed ==
  /\ phase = "write" /\ pos = Len(Rows)
  /\ phase' = "read" /\ unsent' = <<>>
  /\ UNCHANGED <<format, pos, topic, offset, saved, shown, failed>>

(* The producer is flushed, and execute returns: the reader starts.        *)
Close ==
  /\ phase = "write" /\ pos = Len(Rows) /\ unsent = <<>>
  /\ phase' = "read"
  /\ UNCHANGED <<format, pos, topic, unsent, offset, saved, shown, failed>>

WriterFails ==
  /\ phase = "write" /\ failed["write"] < MaxFailures
  /\ failed' = [failed EXCEPT !["write"] = @ + 1]
  /\ pos' = 0 /\ unsent' = <<>>
  /\ UNCHANGED <<format, phase, topic, offset, saved, shown>>

(* The reader; a message that its schema cannot parse fails it. *)
Read ==
  /\ phase = "read" /\ offset < Len(topic)
  /\ topic[offset + 1].how = format.reads
  /\ offset' = offset + 1
  /\ shown' = Append(shown, offset')
  /\ UNCHANGED <<format, phase, pos, topic, unsent, saved, failed>>

Checkpoint ==
  /\ phase = "read" /\ saved' = offset
  /\ UNCHANGED <<format, phase, pos, topic, unsent, offset, shown, failed>>

(* Slip: the reader goes on where it was rather than at the checkpoint,    *)
(* behind the message in hand.                                             *)
ReaderSkips ==
  /\ phase = "read" /\ failed["read"] < MaxFailures
  /\ failed' = [failed EXCEPT !["read"] = @ + 1]
  /\ offset' = IF offset < Len(topic) THEN offset + 1 ELSE offset
  /\ UNCHANGED <<format, phase, pos, topic, unsent, saved, shown>>

ReaderFails ==
  /\ phase = "read" /\ failed["read"] < MaxFailures
  /\ failed' = [failed EXCEPT !["read"] = @ + 1]
  /\ offset' = saved
  /\ UNCHANGED <<format, phase, pos, topic, unsent, saved, shown>>

Next ==
  \/ Write \/ Send \/ Close \/ WriterFails
  \/ Read \/ Checkpoint \/ ReaderFails

Spec ==
  /\ Init /\ [][Next]_vars
  /\ WF_vars(Write) /\ WF_vars(Send) /\ WF_vars(Close) /\ WF_vars(Read)

-------------------------------------------------------------------------------
ShownRows == [i \in DOMAIN shown |-> topic[shown[i]].row]
Times(s, x) == Cardinality({i \in DOMAIN s : s[i] = x})

(* The reader prints no message before the one in front of it, and repeats *)
(* one at most once for every restart.                                     *)
NoneSkipped ==
  /\ \A i \in DOMAIN shown : \A m \in 1..shown[i] : \E j \in 1..i : shown[j] = m
  /\ \A m \in DOMAIN topic : Times(shown, m) =< failed["read"] + 1

(* With no failure the reader prints the topic as it was, then the rows in *)
(* their order, each as often as it was written.                           *)
WithoutFailureExact ==
  phase = "read" /\ failed = [p \in {"write", "read"} |-> 0] =>
    \E b \in Backlog : IsPrefix(ShownRows, b \o Rows)

(* Every row of the collection has been printed, at least as often as it   *)
(* is in it, if the program reads what it writes.  In the end it has been, *)
(* however the two jobs fail; the CSV program prints nothing, ever.        *)
RowsPrinted ==
  format.reads = format.writes =>
    \A i \in DOMAIN Rows : Times(ShownRows, Rows[i]) >= Times(Rows, Rows[i])
===============================================================================
