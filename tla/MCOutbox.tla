------------------------------ MODULE MCOutbox ------------------------------
(* Small instances of Outbox for TLC: one process alone, or a deploy       *)
(* overlap in which b1 answers handlers while both drain the outbox.       *)
EXTENDS Outbox, TLC

CONSTANTS b1, b2, h1, m1

\* The one thread that calls sendText runs in the process b1.
OneThread == (h1 :> b1)
=============================================================================
