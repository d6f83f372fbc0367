---------------------------- MODULE MCSinkPrograms -----------------------------
(* The inputs besides the programs' own: every short one.                  *)
EXTENDS SinkPrograms, SequencesExt

(* Every file of at most two lines of at most two words, and some of three.*)
MCWords == {"a", "b"}
MCFiles == BoundedSeq(BoundedSeq(MCWords, 2), 2) \cup [1..3 -> {<<w>> : w \in MCWords}]

(* Every table of at most four rows of two countries. *)
MCTables == BoundedSeq([country : {"a", "b"}, tel : 0..2], 4)

(* One document or three, with missing paths. *)
Document(i) ==
  {[id |-> i, name |-> n, tel |-> t, country |-> c, city |-> c] :
     n \in {"Flink", "null"}, t \in {7, -1}, c \in {"China", "null"}}
MCParsed ==
  {<<d>> : d \in Document(1)}
    \cup {<<d, e, f>> : d \in Document(1), e \in Document(2), f \in Document(3)}

(* Three rows of which two are equal, as the last two of the programs are. *)
MCMessages == <<"hi", "hello", "hello">>
MCBacklog == {<<>>, <<"hello">>}

(* The program's two elements, and collections with an id that comes again.*)
Element(n, i, t) == [name |-> n, id |-> i, text |-> t]
MCCollected ==
  {<<Element("ada", 1, 0), Element("luna", 2, 0)>>}
    \cup [1..3 -> {Element(n, i, t) : n \in {"ada", "luna"}, i \in 1..2, t \in 0..1}]
===============================================================================
