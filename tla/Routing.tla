-------------------------------- MODULE Routing --------------------------------
(***************************************************************************)
(* One source row on its way through the StatementSet of its processor:    *)
(* the clean and the error INSERT are two branches of one job that read    *)
(* the row independently of each other, in either order.                   *)
(***************************************************************************)
EXTENDS Validation

CONSTANT Rows                  \* the source rows considered

ASSUME RowsAssumption == Rows \subseteq SourceRows

VARIABLES
  row,                         \* the row, as PostgreSQL holds it
  pending,                     \* branches that have not seen it yet
  cleanRow, errorRow,          \* what each branch wrote: None or <<columns>>
  job                          \* "running", or "failed" on a refused write

vars == <<row, pending, cleanRow, errorRow, job>>

None == <<>>

TypeOK ==
  /\ row \in Rows
  /\ pending \subseteq {"clean", "error"}
  /\ cleanRow = None \/ cleanRow = <<Derived(row)>>
  /\ errorRow = None \/ errorRow = <<Message(row)>>
  /\ job \in {"running", "failed"}

Init ==
  /\ row \in Rows
  /\ pending = {"clean", "error"}
  /\ cleanRow = None
  /\ errorRow = None
  /\ job = "running"

(* Does a WHERE keep the row?  Undefined when a key column is Null. *)
Decision(kept) == IF NullInKey(row) THEN BOOLEAN ELSE {kept}

InsertClean ==
  /\ job = "running" /\ "clean" \in pending
  /\ pending' = pending \ {"clean"}
  /\ \E kept \in Decision(KeptByClean(row)) :
       /\ job' = IF kept /\ ~CleanLoads(row) THEN "failed" ELSE job
       /\ cleanRow' = IF kept /\ CleanLoads(row) THEN <<Derived(row)>> ELSE cleanRow
  /\ UNCHANGED <<row, errorRow>>

(* Slip: error_type and error_message change places. *)
InsertErrorSwapped ==
  /\ job = "running" /\ "error" \in pending
  /\ pending' = pending \ {"error"}
  /\ KeptByError(row) /\ errorRow' = <<"VALIDATION_ERROR">>
  /\ UNCHANGED <<row, cleanRow, job>>

InsertError ==
  /\ job = "running" /\ "error" \in pending
  /\ pending' = pending \ {"error"}
  /\ \E kept \in Decision(KeptByError(row)) :
       /\ job' = IF kept /\ ~ErrorLoads(row) THEN "failed" ELSE job
       /\ errorRow' = IF kept /\ ErrorLoads(row) THEN <<Message(row)>> ELSE errorRow
  /\ UNCHANGED <<row, cleanRow>>

Next == InsertClean \/ InsertError

Spec == Init /\ [][Next]_vars

-------------------------------------------------------------------------------
Routed == job = "running" /\ pending = {}

(* No row is in both databases.  The two WHERE clauses of a processor are  *)
(* written out separately, so this holds only while the copies agree.      *)
ExclusiveRouting == cleanRow = None \/ errorRow = None

(* A row that neither database receives is an order whose status is NULL,  *)
(* or has a NULL in its key: nothing else slips between the two WHEREs.    *)
LostOnlyWithoutStatus ==
  Routed /\ cleanRow = None /\ errorRow = None
    => NullInKey(row) \/ (row.table = "orders" /\ row.order_status = Null)

(* The message CASE of every error INSERT covers its WHERE NOT: the        *)
(* fall-back message is never written.                                     *)
FaultNamed == errorRow # <<NoMessage>>

(* The bounds the processors check are at least as strict as the NOT NULL  *)
(* and VARCHAR declarations of both target schemas: the only column that   *)
(* is required there and unchecked here is is_deleted.                     *)
PoisonOnlyByDeletionFlag == job = "failed" => NullInKey(row) \/ row.is_deleted = Null

(* Flags and categories derived by two CASEs from one column agree. *)
CategoriesAgree ==
  \A d \in {cleanRow[i] : i \in DOMAIN cleanRow} :
    /\ row.table = "payments" =>
         (d.is_high_value <=> d.payment_category = "High Value Payment")
    /\ row.table = "reviews" =>
         (d.is_positive_review <=> d.review_category \in {"Excellent", "Good"})

(* The decisions behind what has been written, from which all but the last *)
(* of these follow.                                                        *)
IInv ==
  /\ TypeOK
  /\ cleanRow # None => KeptByClean(row) /\ ~NullInKey(row)
  /\ errorRow # None => KeptByError(row) /\ ~NullInKey(row)
  /\ job = "running" /\ ~NullInKey(row) =>
       /\ "clean" \notin pending /\ KeptByClean(row) => cleanRow # None
       /\ "error" \notin pending /\ KeptByError(row) => errorRow # None
  /\ job = "failed" =>
       \/ NullInKey(row)
       \/ KeptByClean(row) /\ ~CleanLoads(row)
       \/ KeptByError(row) /\ ~ErrorLoads(row)

(* README.md, line 17: "Validation with clean/error table separation".     *)
(* Every routed row is in exactly one of the two.  Violated: an order with *)
(* a NULL status satisfies neither WHERE (OrderProcessor 37 and 68).       *)
SeparationTotal ==
  Routed /\ ~NullInKey(row) => (cleanRow = None) # (errorRow = None)
===============================================================================
