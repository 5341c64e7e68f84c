------------------------------- MODULE MCLinks -------------------------------
(* A small instance of Links for TLC.                                      *)
EXTENDS Links, TLC

CONSTANTS p1, p2, u1, u2, c1, c2, c3, c4

\* Nothing tells two processes, two users or two free ids apart.
Interchangeable ==
  Permutations(Procs) \cup Permutations(Users) \cup Permutations(Cids \ Chevalets)
=============================================================================
