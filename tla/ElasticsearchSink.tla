--------------------------- MODULE ElasticsearchSink ---------------------------
(***************************************************************************)
(* elasticsearch.py: four jobs, one after the other, write the same        *)
(* elements to an index, "foo" or one named by the element.  The jobs that *)
(* set it send a bulk for every element and retry a rejected one three     *)
(* times; the others send one bulk at the end and do not retry.  The sink  *)
(* waits for the answer of a bulk.  A bulk that is given up fails the job, *)
(* which writes its collection again from the start: at least once.        *)
(***************************************************************************)
EXTENDS Integers, Sequences, FiniteSets, SequencesExt

CONSTANTS
  Collections,         \* sequences of [name, id, text]
  MaxFailures          \* bound, per job

VARIABLES
  elements,            \* the collection
  step,                \* the job that runs, 5 after the last
  pos, buffer,         \* elements emitted, and actions not sent
  bulk, tries,         \* the request that waits for its answer, its retries
  store,               \* documents: [index, id, doc]
  failures

vars == <<elements, step, pos, buffer, bulk, tries, store, failures>>

(* es6, es6 with a dynamic index, es7, es7 with a dynamic index. *)
write_to_es6 == [index |-> "foo", actions |-> 1, retries |-> 3]
write_to_es6_dynamic_index == [index |-> "name", actions |-> 1000, retries |-> 0]
write_to_es7 == [index |-> "foo", actions |-> 1, retries |-> 3]
write_to_es7_dynamic_index == [index |-> "name", actions |-> 1000, retries |-> 0]

Jobs == <<write_to_es6, write_to_es6_dynamic_index, write_to_es7, write_to_es7_dynamic_index>>

Running == step =< Len(Jobs)
Job == Jobs[step]

(* The emitter's index request: the field id becomes the document's id. *)
Document(e) ==
  [index |-> IF Job.index = "name" THEN e.name ELSE Job.index, id |-> e.id, doc |-> e]

(* An index request replaces the document of its id. *)
Index(s, d) == {x \in s : x.index # d.index \/ x.id # d.id} \cup {d}

Init ==
  /\ elements \in Collections
  /\ step = 1 /\ pos = 0 /\ buffer = <<>> /\ bulk = <<>> /\ tries = 0
  /\ store = {} /\ failures = 0

(* The sink takes an element, and sends what it has at the limit. *)
Write ==
  /\ Running /\ bulk = <<>> /\ pos < Len(elements)
  /\ pos' = pos + 1
  /\ LET b == Append(buffer, Document(elements[pos'])) IN
     IF Len(b) >= Job.actions
       THEN bulk' = b /\ buffer' = <<>>
       ELSE buffer' = b /\ UNCHANGED bulk
  /\ UNCHANGED <<elements, step, tries, store, failures>>

(* The end of the input sends the rest. *)
Flush ==
  /\ Running /\ bulk = <<>> /\ pos = Len(elements) /\ buffer # <<>>
  /\ bulk' = buffer /\ buffer' = <<>>
  /\ UNCHANGED <<elements, step, pos, tries, store, failures>>

(* Some actions of the bulk, in their order. *)
TakeSome(taken) ==
  FoldLeft(LAMBDA s, i : IF i \in taken THEN Index(s, bulk[i]) ELSE s,
           store, [i \in DOMAIN bulk |-> i])

Answered ==
  /\ bulk # <<>>
  /\ store' = TakeSome(DOMAIN bulk)
  /\ bulk' = <<>> /\ tries' = 0
  /\ UNCHANGED <<elements, step, pos, buffer, failures>>

(* The server is busy and takes none of it; the jobs that retry send one   *)
(* action at a time.                                                       *)
Rejected ==
  /\ bulk # <<>> /\ tries < Job.retries
  /\ tries' = tries + 1
  /\ UNCHANGED <<elements, step, pos, buffer, bulk, store, failures>>

(* Slip: a bulk that is given up is dropped, and the job goes on. *)
GiveUpDropping ==
  /\ bulk # <<>> /\ failures < MaxFailures /\ failures' = failures + 1
  /\ \E taken \in SUBSET DOMAIN bulk : store' = TakeSome(taken)
  /\ bulk' = <<>> /\ tries' = 0
  /\ UNCHANGED <<elements, step, pos, buffer>>

(* The retries are used up, or a timeout leaves open how much of the bulk  *)
(* the server has taken: the job starts again.                             *)
GiveUp ==
  /\ bulk # <<>> /\ failures < MaxFailures /\ failures' = failures + 1
  /\ \E taken \in SUBSET DOMAIN bulk : store' = TakeSome(taken)
  /\ pos' = 0 /\ buffer' = <<>> /\ bulk' = <<>> /\ tries' = 0
  /\ UNCHANGED <<elements, step>>

(* Slip: the job waits for its bulk limit before it ends. *)
EndFull ==
  /\ Running /\ pos = Len(elements) /\ bulk = <<>> /\ Len(buffer) >= Job.actions
  /\ step' = step + 1 /\ pos' = 0 /\ buffer' = <<>> /\ failures' = 0
  /\ UNCHANGED <<elements, bulk, tries, store>>

(* execute returns, and the next job starts.                               *)
End ==
  /\ Running /\ pos = Len(elements) /\ buffer = <<>> /\ bulk = <<>>
  /\ step' = step + 1 /\ pos' = 0 /\ failures' = 0
  /\ UNCHANGED <<elements, buffer, bulk, tries, store>>

Next == Write \/ Flush \/ Answered \/ Rejected \/ GiveUp \/ End

(* The server answers in the end; Rejected and GiveUp are bounded.         *)
Spec ==
  /\ Init /\ [][Next]_vars
  /\ WF_vars(Write) /\ WF_vars(Flush) /\ WF_vars(End) /\ WF_vars(Answered)

-------------------------------------------------------------------------------
Wanted(index) ==
  {e \in ToSet(elements) :
     /\ index \in {"foo", e.name}
     /\ \E i \in DOMAIN elements :
          /\ elements[i] = e
          /\ \A j \in DOMAIN elements :
               j > i /\ elements[j].id = e.id =>
                 index # "foo" /\ elements[j].name # index}

(* When a job is over, every index it writes holds the last element of     *)
(* every id, once, whatever was retried, repeated or half done.            *)
DocumentsExact ==
  \A index \in {"foo"} \cup {elements[i].name : i \in DOMAIN elements} :
    step > (IF index = "foo" THEN 1 ELSE 2) /\ pos = 0 /\ failures = 0 /\ bulk = <<>> =>
      {d.doc : d \in {x \in store : x.index = index}} = Wanted(index)

(* The four jobs are over. *)
AllWritten == ~Running
===============================================================================
