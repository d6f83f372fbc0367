------------------------------- MODULE TableJobs -------------------------------
(***************************************************************************)
(* The row-wise operations of table/basic_operations.py, the programs that *)
(* process JSON, and multi_sink.py.  A document whose path is missing is a *)
(* NULL for json_value and an exception for a function written in Python,  *)
(* which fails the job; the job starts again from its first row.  A sink   *)
(* that prints shows again what it has shown before; a client that         *)
(* collects the result drops the rows of the attempt that failed.  The     *)
(* jobs are over, or fail, before the first checkpoint.                    *)
(***************************************************************************)
EXTENDS Integers, Sequences, SequencesExt

CONSTANTS Inputs,            \* more inputs than their own, sequences of documents
          MaxFailures        \* bound

VARIABLES
  job, input,
  pos,               \* rows of this attempt
  out, second,       \* what the first and the second sink hold
  failures, ended

vars == <<job, input, pos, out, second, failures, ended>>

OfSql == {"add_columns", "select_json", "filter", "limit", "replace"}
OfPython == {"join_lateral", "parse_data", "extract_country", "extract_city",
             "update_tel", "update_filter", "update_first"}
Jobs == OfSql \cup OfPython \cup {"multi_sink"}
Printing == {"select_json", "update_tel", "update_filter", "update_first", "multi_sink"}

Null == "null"       \* of a text
NoTel == -1          \* of a number

D(i, n, t, c, y) == [id |-> i, name |-> n, tel |-> t, country |-> c, city |-> y]

Documents ==
  <<D(1, "Flink", 123, "Germany", "Berlin"), D(2, "hello", 135, "China", "Shanghai"),
    D(3, "world", 124, "USA", "NewYork"), D(4, "PyFlink", 32, "China", "Hangzhou")>>

(* row_operations has New York in China. *)
RowDocuments == [Documents EXCEPT ![3].country = "China"]

(* multi_sink's rows have a text only. *)
Texts ==
  <<D(1, "Hello", 0, "", ""), D(2, "World", 0, "", ""),
    D(3, "Flink", 0, "", ""), D(4, "PyFlink", 0, "", "")>>

(* The pieces of a name between its letters i, and whether it has "Flink". *)
split(name) ==
  CASE name = "Flink" -> <<"Fl", "nk">> [] name = "PyFlink" -> <<"PyFl", "nk">>
    [] OTHER -> <<name>>
contains_flink(text) == text \in {"Flink", "PyFlink"}

-------------------------------------------------------------------------------
(* What each job makes of a document.  The columns of json_value are NULL  *)
(* where the path is missing, and so is a text concatenated with NULL.     *)
add_columns(d) == <<d.id, d.name, d.tel, d.country>>
replace(d) ==
  <<IF d.name = Null THEN <<Null>> ELSE <<d.id, d.name>>, d.name, d.tel, d.country>>
filter(d)   == IF d.id # 3 THEN <<add_columns(d)>> ELSE <<>>
limit(d, n) == IF n < 3 THEN <<add_columns(d)>> ELSE <<>>
join_lateral(d) ==
  [i \in DOMAIN split(d.name) |-> Append(add_columns(d), split(d.name)[i])]
parse_data(d)      == <<d.id, d.name, d.tel, d.country>>
extract_country(d) == <<d.id, d.country>>
extract_city(d)    == <<d.id, d.city>>
select_json(d)     == <<d.id, d.country>>
update_tel(d)      == <<d.id, d.tel + 1>>
update_filter(d)   == IF d.country = "China" THEN <<update_tel(d)>> ELSE <<>>
update_first(d)    == IF d.id = 1 THEN <<update_tel(d)>> ELSE <<>>
first_sink(d)      == IF d.id =< 3 THEN <<<<d.id, d.name>>>> ELSE <<>>

(* Slip: a missing telephone number counts as one that can be increased. *)
RunsWithoutTel(d) ==
  CASE job = "join_lateral" -> d.name # Null
    [] job = "parse_data" -> d.name # Null /\ d.tel # NoTel /\ d.country # Null
    [] job \in {"extract_country", "extract_city"} -> d.country # Null
    [] OTHER -> TRUE

(* Slip: every job stops at a document with a missing path. *)
RunsComplete(d) == d.name # Null /\ d.tel # NoTel /\ d.country # Null

(* Whether the function of the job gets through the document.              *)
Runs(d) ==
  CASE job = "join_lateral" -> d.name # Null
    [] job = "parse_data" -> d.name # Null /\ d.tel # NoTel /\ d.country # Null
    [] job \in {"extract_country", "extract_city"} -> d.country # Null
    [] job = "update_tel" -> d.tel # NoTel
    [] job = "update_first" -> d.id = 1 => d.tel # NoTel
    [] job = "update_filter" -> d.tel # NoTel /\ d.country # Null
    [] OTHER -> TRUE

(* What the document adds to the first sink after n others. *)
Emit(d, n) ==
  CASE job = "add_columns" -> <<add_columns(d)>>
    [] job = "replace" -> <<replace(d)>>
    [] job = "filter" -> filter(d)
    [] job = "limit" -> limit(d, n)
    [] job = "join_lateral" -> join_lateral(d)
    [] job = "parse_data" -> <<parse_data(d)>>
    [] job = "extract_country" -> <<extract_country(d)>>
    [] job = "extract_city" -> <<extract_city(d)>>
    [] job = "select_json" -> <<select_json(d)>>
    [] job = "update_tel" -> <<update_tel(d)>>
    [] job = "update_filter" -> update_filter(d)
    [] job = "update_first" -> update_first(d)
    [] job = "multi_sink" -> first_sink(d)

(* Slip: the second sink gets what the first one left. *)
second_sink_rest(d) ==
  IF job = "multi_sink" /\ contains_flink(d.name) /\ d.id > 3
    THEN <<<<d.id, d.name>>>> ELSE <<>>

second_sink(d) ==
  IF job = "multi_sink" /\ contains_flink(d.name) THEN <<<<d.id, d.name>>>> ELSE <<>>

Init ==
  /\ job \in Jobs
  /\ input \in IF job = "multi_sink" THEN {Texts} ELSE {Documents, RowDocuments} \cup Inputs
  /\ pos = 0 /\ out = <<>> /\ second = <<>> /\ failures = 0 /\ ended = FALSE

Process ==
  /\ pos < Len(input)
  /\ LET d == input[pos + 1] IN
     /\ Runs(d)
     /\ out' = out \o Emit(d, pos) /\ second' = second \o second_sink(d)
  /\ pos' = pos + 1
  /\ UNCHANGED <<job, input, failures, ended>>

(* The function raises an exception, or the task manager is lost.          *)
Fail ==
  /\ ~ended /\ failures < MaxFailures
  /\ failures' = failures + 1 /\ pos' = 0
  /\ out' = IF job \in Printing THEN out ELSE <<>>
  /\ UNCHANGED <<job, input, second, ended>>

End ==
  /\ pos = Len(input) /\ ~ended /\ ended' = TRUE
  /\ UNCHANGED <<job, input, pos, out, second, failures>>

Next == Process \/ Fail \/ End

Spec == Init /\ [][Next]_vars /\ WF_vars(Process) /\ WF_vars(End)

-------------------------------------------------------------------------------
(* The tables printed in the comments, and what the sinks of the others    *)
(* are said to get.                                                        *)
Table ==
  << <<1, "Flink", 123, "Germany">>, <<2, "hello", 135, "China">>,
     <<3, "world", 124, "USA">>, <<4, "PyFlink", 32, "China">> >>
Shown ==
  CASE job \in {"add_columns", "parse_data"} -> Table
    [] job = "filter" -> <<Table[1], Table[2], Table[4]>>
    [] job = "limit" -> SubSeq(Table, 1, 3)
    [] job = "replace" ->
         [i \in 1..4 |-> <<<<i, Table[i][2]>>, Table[i][2], Table[i][3], Table[i][4]>>]
    [] job = "join_lateral" ->
         <<Append(Table[1], "Fl"), Append(Table[1], "nk"), Append(Table[2], "hello"),
           Append(Table[3], "world"), Append(Table[4], "PyFl"), Append(Table[4], "nk")>>
    [] job = "extract_country" ->
         << <<1, "Germany">>, <<2, "China">>, <<3, "China">>, <<4, "China">> >>
    [] job = "extract_city" ->
         << <<1, "Berlin">>, <<2, "Shanghai">>, <<3, "NewYork">>, <<4, "Hangzhou">> >>
    [] job = "select_json" ->
         << <<1, "Germany">>, <<2, "China">>, <<3, "USA">>, <<4, "China">> >>
    [] job = "update_tel" -> << <<1, 124>>, <<2, 136>>, <<3, 125>>, <<4, 33>> >>
    [] job = "update_filter" -> << <<2, 136>>, <<4, 33>> >>
    [] job = "update_first" -> << <<1, 124>> >>
    [] job = "multi_sink" -> << <<1, "Hello">>, <<2, "World">>, <<3, "Flink">> >>
ShownSecond == IF job = "multi_sink" THEN << <<3, "Flink">>, <<4, "PyFlink">> >> ELSE <<>>

OwnInput ==
  CASE job \in {"extract_country", "extract_city"} -> RowDocuments
    [] job = "multi_sink" -> Texts
    [] OTHER -> Documents

(* On its own rows a job that has ended holds the table its comments show; *)
(* a sink that prints ends with it, after what the failed attempts left;   *)
(* a row that both sinks of multi_sink.py select reaches both.             *)
PrintedTables ==
  ended /\ input = OwnInput =>
    /\ IF job \in Printing THEN IsSuffix(Shown, out) ELSE out = Shown
    /\ IsSuffix(ShownSecond, second)

(* The first document that lacks a path the job's function reads; 0 when   *)
(* there is none.                                                          *)
Lacks(d) ==
  \/ job \in {"join_lateral", "parse_data"} /\ d.name = Null
  \/ job \in {"parse_data", "update_tel", "update_filter"} /\ d.tel = NoTel
  \/ job = "update_first" /\ d.id = 1 /\ d.tel = NoTel
  \/ /\ job \in {"parse_data", "extract_country", "extract_city", "update_filter"}
     /\ d.country = Null
Poison == SelectInSeq(input, Lacks)

(* A document that a Python function cannot read holds up every one behind *)
(* it: nothing of them is ever shown, however often the job starts again.  *)
PoisonBlocks ==
  job \in OfPython /\ Poison > 0 =>
    ~ended /\ \A i \in DOMAIN out : out[i][1] < input[Poison].id

(* The job has ended, unless there is such a document.  In the end it has: *)
(* what SQL extracts is NULL where a path is missing, and stops no job.    *)
ReadableEnded == Poison = 0 => ended
===============================================================================
