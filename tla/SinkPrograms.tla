------------------------------ MODULE SinkPrograms -----------------------------
(***************************************************************************)
(* The example programs that are about what reaches a sink, with failures, *)
(* restarts and bundles, one at a time: each run of the model is one       *)
(* program on one input.  A variable that the program does not have is     *)
(* Absent.                                                                   *)
(***************************************************************************)
EXTENDS Integers, Sequences

CONSTANTS
  Absent,
  Words, Files,              \* of the word counts: a line is a sequence of words
  Tables,                    \* rows to group, besides the programs' own
  Parsed,                    \* documents, besides the programs' own
  Messages, Backlog,         \* rows sent to a topic, and what it may hold before
  Collected,                 \* collections to index
  MaxDrawn, MaxFailures      \* bounds

(* The files have lines of words. *)
FilesAssumption == Files \subseteq Seq(Seq(Words))

(* Rows to group, by their country. *)
TablesAssumption == Tables \subseteq Seq([country : STRING, tel : Nat])

(* Documents are numbered in their order, as the programs' own are. *)
ParsedAssumption ==
  \A s \in Parsed :
    /\ s \in Seq([id : Nat, name : STRING, tel : Int, country : STRING, city : STRING])
    /\ \A i, j \in DOMAIN s : i < j => s[i].id < s[j].id

(* A row of the topic is the text of its second column. *)
MessagesAssumption == Messages \in Seq(STRING) /\ Backlog \subseteq Seq(STRING)

(* No name, which is an index of its own, is that of the fixed index. *)
CollectedAssumption ==
  Collected \subseteq Seq([name : STRING \ {"foo"}, id : Nat, text : Nat])

BoundsAssumption == MaxDrawn \in Nat /\ MaxFailures \in Nat

ASSUME FilesAssumption
ASSUME TablesAssumption
ASSUME ParsedAssumption
ASSUME MessagesAssumption
ASSUME CollectedAssumption
ASSUME BoundsAssumption

VARIABLES
  which,                                      \* the program
  input, pos, out, job, failures, ended,      \* shared names
  program, sink, read, counts, ckpt, reported,            \* WordCount
  acc, sent, dirty,                                       \* GroupedTable
  second,                                                 \* TableJobs
  format, phase, topic, unsent, offset, saved, shown, failed,      \* KafkaTopic
  elements, step, buffer, bulk, tries, store              \* ElasticsearchSink

wordVars   == <<program, sink, read, counts, ckpt, reported>>
groupVars  == <<acc, sent, dirty>>
topicVars  == <<format, phase, topic, unsent, offset, saved, shown, failed>>
bulkVars   == <<elements, step, buffer, bulk, tries, store>>
vars == <<which, input, pos, out, job, failures, ended, wordVars, groupVars, second,
          topicVars, bulkVars>>

-------------------------------------------------------------------------------
WordCount         == INSTANCE WordCount WITH Inputs <- Files
GroupedTable      == INSTANCE GroupedTable WITH Inputs <- Tables
TableJobs         == INSTANCE TableJobs WITH Inputs <- Parsed
KafkaTopic        == INSTANCE KafkaTopic WITH Rows <- Messages
ElasticsearchSink == INSTANCE ElasticsearchSink WITH Collections <- Collected

-------------------------------------------------------------------------------
NoWords == /\ program = Absent /\ sink = Absent /\ read = Absent /\ counts = Absent
           /\ ckpt = Absent /\ reported = Absent
NoGroup == acc = Absent /\ sent = Absent /\ dirty = Absent
NoTopic == /\ format = Absent /\ phase = Absent /\ topic = Absent /\ unsent = Absent
           /\ offset = Absent /\ saved = Absent /\ shown = Absent /\ failed = Absent
NoBulk  == /\ elements = Absent /\ step = Absent /\ buffer = Absent /\ bulk = Absent
           /\ tries = Absent /\ store = Absent

Init ==
  \/ /\ which = "words" /\ WordCount!Init
     /\ pos = Absent /\ job = Absent /\ NoGroup /\ second = Absent /\ NoTopic /\ NoBulk
  \/ /\ which = "groups" /\ GroupedTable!Init
     /\ failures = Absent /\ ended = Absent /\ NoWords /\ second = Absent /\ NoTopic /\ NoBulk
  \/ /\ which = "tables" /\ TableJobs!Init
     /\ NoWords /\ NoGroup /\ NoTopic /\ NoBulk
  \/ /\ which = "topic" /\ KafkaTopic!Init
     /\ input = Absent /\ out = Absent /\ job = Absent /\ failures = Absent /\ ended = Absent
     /\ NoWords /\ NoGroup /\ second = Absent /\ NoBulk
  \/ /\ which = "bulks" /\ ElasticsearchSink!Init
     /\ input = Absent /\ out = Absent /\ job = Absent /\ ended = Absent
     /\ NoWords /\ NoGroup /\ second = Absent /\ NoTopic

InWords  == which = "words" /\ UNCHANGED <<which, pos, job, groupVars, second, topicVars,
                                          bulkVars>>
InGroups == which = "groups" /\ UNCHANGED <<which, failures, ended, wordVars, second, topicVars,
                                           bulkVars>>
InTables == which = "tables" /\ UNCHANGED <<which, wordVars, groupVars, topicVars, bulkVars>>
InTopic  == which = "topic" /\ UNCHANGED <<which, input, out, job, failures, ended, wordVars,
                                          groupVars, second, bulkVars>>
InBulks  == which = "bulks" /\ UNCHANGED <<which, input, out, job, ended, wordVars, groupVars,
                                          second, topicVars>>

Next ==
  \/ InWords /\ WordCount!Next
  \/ InGroups /\ GroupedTable!Next
  \/ InTables /\ TableJobs!Next
  \/ InTopic /\ KafkaTopic!Next
  \/ InBulks /\ ElasticsearchSink!Next

(* Each program's own fairness: what fails or is rejected does so finitely *)
(* often, and bundles and checkpoints are cut anywhere.                    *)
Fairness ==
  /\ WF_vars(InWords /\ WordCount!ReadLine) /\ WF_vars(InWords /\ WordCount!ReportWord)
  /\ WF_vars(InWords /\ WordCount!End)
  /\ WF_vars(InGroups /\ GroupedTable!Next)
  /\ WF_vars(InTables /\ TableJobs!Process) /\ WF_vars(InTables /\ TableJobs!End)
  /\ WF_vars(InTopic /\ KafkaTopic!Write) /\ WF_vars(InTopic /\ KafkaTopic!Send)
  /\ WF_vars(InTopic /\ KafkaTopic!Close) /\ WF_vars(InTopic /\ KafkaTopic!Read)
  /\ WF_vars(InBulks /\ ElasticsearchSink!Write) /\ WF_vars(InBulks /\ ElasticsearchSink!Flush)
  /\ WF_vars(InBulks /\ ElasticsearchSink!Answered) /\ WF_vars(InBulks /\ ElasticsearchSink!End)

Spec == Init /\ [][Next]_vars /\ Fairness

-------------------------------------------------------------------------------
(* The invariants of the programs, at the code lines their modules name.   *)

(* Word count: the files that survive a failure hold exactly the rows of   *)
(* what was read up to the checkpoint.                                     *)
FilesExact == which = "words" => WordCount!FilesExact

(* Aggregates: the changelog stands for the rows read, wherever the        *)
(* bundles were cut, and takes back only what is in the result.            *)
ViewExact == which = "groups" => GroupedTable!ViewExact

(* Aggregates: merge and retract agree with accumulate.                    *)
PartsMerge == which = "groups" => GroupedTable!PartsMerge

(* Table operations: a document that a Python function cannot read holds   *)
(* up every one behind it.                                                 *)
PoisonBlocks == which = "tables" => TableJobs!PoisonBlocks

(* Kafka: no message is skipped, and one is repeated once a restart.       *)
NoneSkipped == which = "topic" => KafkaTopic!NoneSkipped

(* Kafka: without a failure the rows are printed once, in their order.     *)
WithoutFailureExact == which = "topic" => KafkaTopic!WithoutFailureExact

(* Elasticsearch: a job that is over has left the last element of every id.*)
DocumentsExact == which = "bulks" => ElasticsearchSink!DocumentsExact

(* In the end, however the jobs fail: a file has been counted, the table   *)
(* of the comments is shown, a job whose documents can be read has ended,  *)
(* every row of the collection has been printed by the reader, and all     *)
(* bulks have been taken.                                                  *)
JobsComplete ==
  <>[](CASE which = "words"  -> WordCount!FilesCounted /\ WordCount!LastRowRight
         [] which = "groups" -> GroupedTable!TableShown
         [] which = "tables" -> TableJobs!ReadableEnded /\ TableJobs!PrintedTables
         [] which = "topic"  -> KafkaTopic!RowsPrinted
         [] which = "bulks"  -> ElasticsearchSink!AllWritten)
===============================================================================
