------------------------------- MODULE WordCount -------------------------------
(***************************************************************************)
(* The four word counts.  datastream/word_count.py counts a file in batch  *)
(* mode and reports every word once, at the end; table/word_count.py keeps *)
(* a changelog of the counts of a file; the two streaming programs count   *)
(* words drawn at random, as a stream of running counts and as a           *)
(* changelog.  The result goes to files or to the console.                 *)
(*                                                                         *)
(* A streaming job takes checkpoints every three seconds and restarts from *)
(* the last one.  A file sink then cuts what it wrote since; what the      *)
(* console shows stays there.  A batch job starts again from nothing.      *)
(***************************************************************************)
EXTENDS Integers, Sequences, SequencesExt

CONSTANTS
  Words,               \* a line is a sequence of words
  Inputs,              \* the files: sequences of lines
  MaxDrawn,            \* bound: words drawn by a streaming program
  MaxFailures          \* bound

VARIABLES
  program, sink,       \* which program, and whether output_path is given
  input,               \* the file
  read,                \* lines that are in the state
  counts,              \* per word
  out,                 \* rows in the sink
  ckpt,                \* the last checkpoint: [read, counts, out]
  reported,            \* words a batch job has reported in this attempt
  failures, ended

vars == <<program, sink, input, read, counts, out, ckpt, reported, failures, ended>>

(* The programs: whether their input ends, and when and how they report.   *)
word_count                 == [endless |-> FALSE, report |-> "end"]
table_word_count           == [endless |-> FALSE, report |-> "changelog"]
streaming_word_count       == [endless |-> TRUE, report |-> "running"]
table_streaming_word_count == [endless |-> TRUE, report |-> "changelog"]

Programs == {word_count, table_word_count, streaming_word_count, table_streaming_word_count}

Batch     == program.report = "end"
Changelog == program.report = "changelog"

Row(o, w, n) == [op |-> o, word |-> w, n |-> n]

Nothing == [w \in Words |-> 0]

Init ==
  /\ program \in Programs /\ sink \in {"file", "console"}
  /\ input \in IF program.endless THEN {<<>>} ELSE Inputs
  /\ read = <<>> /\ counts = Nothing /\ out = <<>>
  /\ ckpt = [read |-> <<>>, counts |-> Nothing, out |-> <<>>]
  /\ reported = {} /\ failures = 0 /\ ended = FALSE

(* What the next w adds to the output when n were counted. *)
Rows(w, n) ==
  IF Batch THEN <<>>
  ELSE IF Changelog /\ n > 0
       THEN <<Row("-U", w, n), Row("+U", w, n + 1)>>
       ELSE <<Row("+I", w, n + 1)>>

(* A line is split and its words are counted one by one. *)
CountOne(s, w) ==
  [counts |-> [s.counts EXCEPT ![w] = @ + 1], out |-> s.out \o Rows(w, s.counts[w])]

CountLine(line) ==
  LET s == FoldLeft(CountOne, [counts |-> counts, out |-> out], line) IN
  /\ read' = Append(read, line)
  /\ counts' = s.counts /\ out' = s.out

ReadLine ==
  /\ ~program.endless /\ Len(read) < Len(input)
  /\ CountLine(input[Len(read) + 1])
  /\ UNCHANGED <<program, sink, input, ckpt, reported, failures, ended>>

(* id_to_word of an id in the list. *)
DrawWord ==
  /\ program.endless /\ Len(read) < MaxDrawn
  /\ \E w \in Words : CountLine(<<w>>)
  /\ UNCHANGED <<program, sink, input, ckpt, reported, failures, ended>>

Counted == ~program.endless /\ read = input /\ ~ended

(* In batch mode a word is reported when all of its input has been seen. *)
ReportWord ==
  /\ Counted /\ Batch
  /\ \E w \in Words \ reported :
       /\ counts[w] > 0
       /\ out' = Append(out, Row("+I", w, counts[w]))
       /\ reported' = reported \cup {w}
  /\ UNCHANGED <<program, sink, input, read, counts, ckpt, failures, ended>>

Checkpoint ==
  /\ ~Batch /\ ~ended
  /\ ckpt' = [read |-> read, counts |-> counts, out |-> out]
  /\ UNCHANGED <<program, sink, input, read, counts, out, reported, failures, ended>>

(* Slip: a batch job waits for a checkpoint before it ends. *)
EndAfterCheckpoint ==
  /\ Counted /\ ckpt.read = read
  /\ Batch => \A w \in Words : counts[w] > 0 => w \in reported
  /\ ended' = TRUE
  /\ ckpt' = [read |-> read, counts |-> counts, out |-> out]
  /\ UNCHANGED <<program, sink, input, read, counts, out, reported, failures>>

(* The end of the input ends the job; the last files are committed. *)
End ==
  /\ Counted
  /\ Batch => \A w \in Words : counts[w] > 0 => w \in reported
  /\ ended' = TRUE
  /\ ckpt' = [read |-> read, counts |-> counts, out |-> out]
  /\ UNCHANGED <<program, sink, input, read, counts, out, reported, failures>>

(* Slip: the file keeps what was written after the checkpoint. *)
FailUncut ==
  /\ ~ended /\ failures < MaxFailures
  /\ failures' = failures + 1
  /\ read' = ckpt.read /\ counts' = ckpt.counts
  /\ UNCHANGED <<program, sink, input, ckpt, reported, out, ended>>

(* Slip: the state of the reduction outlives the failure. *)
FailCountsKept ==
  /\ ~ended /\ failures < MaxFailures
  /\ failures' = failures + 1
  /\ read' = ckpt.read
  /\ out' = IF sink = "file" THEN ckpt.out ELSE out
  /\ reported' = {}
  /\ UNCHANGED <<program, sink, input, counts, ckpt, ended>>

Fail ==
  /\ ~ended /\ failures < MaxFailures
  /\ failures' = failures + 1
  /\ read' = ckpt.read /\ counts' = ckpt.counts
  /\ out' = IF sink = "file" THEN ckpt.out ELSE out
  /\ reported' = {}
  /\ UNCHANGED <<program, sink, input, ckpt, ended>>

Next == ReadLine \/ DrawWord \/ ReportWord \/ Checkpoint \/ End \/ Fail

(* A job that has work to do gets on with it.                              *)
Fairness == WF_vars(ReadLine) /\ WF_vars(ReportWord) /\ WF_vars(End)

Spec == Init /\ [][Next]_vars /\ Fairness

-------------------------------------------------------------------------------
(* Where w stands in the lines: the line, and the place in it.             *)
Occurrences(lines, w) ==
  UNION {{l} \X {i \in DOMAIN lines[l] : lines[l][i] = w} : l \in DOMAIN lines}

Tally(lines, w) == Cardinality(Occurrences(lines, w))

(* The rows that t occurrences of w call for.                              *)
Called(w, t) ==
  IF t = 0 THEN <<>>
  ELSE IF Batch THEN <<Row("+I", w, t)>>
  ELSE IF Changelog
       THEN [r \in 1..(2 * t - 1) |->
               IF r = 1 THEN Row("+I", w, 1)
               ELSE IF r % 2 = 0 THEN Row("-U", w, r \div 2)
               ELSE Row("+U", w, (r + 1) \div 2)]
       ELSE [n \in 1..t |-> Row("+I", w, n)]

(* The places of the rows of w up to place i. *)
Places(rows, w, i) == {j \in 1..i : rows[j].word = w}

(* The rows of w are the ones called for, in their order. *)
Exact(rows, w, called) ==
  /\ Cardinality(Places(rows, w, Len(rows))) = Len(called)
  /\ \A i \in Places(rows, w, Len(rows)) : rows[i] = called[Cardinality(Places(rows, w, i))]

(* The files that survive a failure hold for every word exactly the rows   *)
(* of what was read up to the checkpoint: no row twice, none missing, and  *)
(* every update takes back the row it replaces.                            *)
FilesExact ==
  sink = "file" =>
    \A w \in Words : Exact(ckpt.out, w, Called(w, Tally(ckpt.read, w)))

(* Once a job has ended, the last row of every word of the input says how  *)
(* often it occurs, on the console too, where rows are repeated.           *)
LastRowRight ==
  ended => \A w \in Words :
    LET rows == SelectSeq(out, LAMBDA r : r.word = w)
        t == Tally(input, w)
    IN IF t = 0 THEN rows = <<>>
       ELSE rows # <<>> /\ Last(rows).n = t /\ Last(rows).op # "-U"

(* A job over a file has ended.  It does in the end, however it fails.     *)
FilesCounted == ~program.endless => ended
===============================================================================
