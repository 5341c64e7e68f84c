---------------------------- MODULE MCFloodPause ----------------------------
(* A small instance of FloodPause for TLC: two sending goroutines.         *)
EXTENDS FloodPause

CONSTANTS t1, t2
=============================================================================
