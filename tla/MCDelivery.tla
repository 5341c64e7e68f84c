----------------------------- MODULE MCDelivery -----------------------------
(* A sender with four messages: one through a link and one announced       *)
(* answer to one target, an answer to another target, and one whose        *)
(* session has expired; the drain loops of two processes.  All of it at    *)
(* once is too much: the run stays in one of three corners.                *)
EXTENDS Delivery

CONSTANTS v, w, m1, m2, m3, m4

MCTo == [m \in Msgs |-> CASE m \in {m1, m2} -> v [] m = m3 -> w [] m = m4 -> NoTarget]

\* The limits: every message at every time, when nothing fails and no target moves.
LimitsCorner == faults = 0 /\ moves = 0

\* The doors: the target blocks and the link goes around three messages attempted at one
\* time, with a failure, a row of each message and one drain loop.
DoorsCorner ==
  /\ now = 0 /\ verdict[m3] = "none" /\ faults <= 1
  /\ holds[2] = {} /\ \A r \in queued \cup holds[1] : r[2] = 1

\* The outbox: two messages to two targets, with all failures, rows and drain loops.
OutboxCorner == now = 0 /\ moves = 0 /\ Tried \subseteq {m1, m3}

Corners == LimitsCorner \/ DoorsCorner \/ OutboxCorner
=============================================================================
