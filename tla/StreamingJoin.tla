----------------------------- MODULE StreamingJoin -----------------------------
(***************************************************************************)
(* The join of table/basic_operations.py: two bounded sources feed one     *)
(* operator, which keeps the rows of both sides and joins each row that    *)
(* arrives with the rows of the other side that were there before it.      *)
(***************************************************************************)
EXTENDS Integers, Sequences, SequencesExt

CONSTANT Inputs             \* more sources than its own, pairs of sequences of ids

VARIABLES
  left, right,              \* the sources
  leftState, rightState,    \* positions of the rows kept
  leftPos, rightPos,
  out                       \* pairs of positions, in order

vars == <<left, right, leftState, rightState, leftPos, rightPos, out>>

(* The program's own sources: the people and their ages, by id. *)
Ids == <<<<1, 2, 3, 4>>, <<1, 2, 3, 4>>>>

Init ==
  /\ \E i \in {Ids} \cup Inputs : left = i[1] /\ right = i[2]
  /\ leftState = {} /\ rightState = {}
  /\ leftPos = 0 /\ rightPos = 0 /\ out = <<>>

(* The partners of a row come in any order. *)
Join(pairs) == \E s \in SetToSeqs(pairs) : out' = out \o s

(* Slip: a row that found a partner is not kept. *)
ReadLeftOnce ==
  /\ leftPos < Len(left)
  /\ leftPos' = leftPos + 1
  /\ LET partners == {j \in rightState : right[j] = left[leftPos']} IN
     /\ leftState' = IF partners = {} THEN leftState \cup {leftPos'} ELSE leftState
     /\ Join({leftPos'} \X partners)
  /\ UNCHANGED <<left, right, rightState, rightPos>>

ReadLeft ==
  /\ leftPos < Len(left)
  /\ leftPos' = leftPos + 1
  /\ leftState' = leftState \cup {leftPos'}
  /\ Join({leftPos'} \X {j \in rightState : right[j] = left[leftPos']})
  /\ UNCHANGED <<left, right, rightState, rightPos>>

ReadRight ==
  /\ rightPos < Len(right)
  /\ rightPos' = rightPos + 1
  /\ rightState' = rightState \cup {rightPos'}
  /\ Join({i \in leftState : left[i] = right[rightPos']} \X {rightPos'})
  /\ UNCHANGED <<left, right, leftState, leftPos>>

Next == ReadLeft \/ ReadRight

(* Neither source waits for the other for ever. *)
Spec == Init /\ [][Next]_vars /\ WF_vars(ReadLeft) /\ WF_vars(ReadRight)

-------------------------------------------------------------------------------
(* However the two sources are interleaved, and however often an id occurs *)
(* on either side, each pair of rows with one id is joined exactly once    *)
(* and no other pair ever is: the results implement WindowResults.         *)
Expected == {p \in (DOMAIN left) \X (DOMAIN right) : left[p[1]] = right[p[2]]}
===============================================================================
