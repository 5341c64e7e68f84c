------------------------------ MODULE MCFlows ------------------------------
(* A small instance of Flows for TLC: two contacts, one message from each.*)
EXTENDS Flows, TLC
CONSTANTS x, y, mx, my

MCSender == [n \in {mx, my} |-> IF n = mx THEN x ELSE y]

\* Nothing tells two links or two texts apart.
Interchangeable == Permutations(Cids) \cup Permutations(Texts)
=============================================================================
