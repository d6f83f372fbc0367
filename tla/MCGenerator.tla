------------------------------ MODULE MCGenerator ------------------------------
(* Small instances of Generator: which customers and products there are.   *)
EXTENDS Generator, TLC

MCExisting == [customer |-> {"c1"}, product |-> {}]
MCFresh    == [customer |-> {}, product |-> {"p2"}]
Symmetry   == Permutations(OrderId)
===============================================================================
