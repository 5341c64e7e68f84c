------------------------------ MODULE MCBackup ------------------------------
(* A broadcast to one user, two questions to a queue of one, the drain      *)
(* loops of two processes, one night, and two processes one after the       *)
(* other.  The run stays in one of two corners.                             *)
EXTENDS Backup

CONSTANTS u1

\* The day: all the background work, while there is a dump and no new one.
DayCorner ==
  /\ ~night /\ dump["old"].state = "whole" /\ dump["new"].state = "none" /\ stalled = {}

\* The night: the backups beside the broadcast, with one failure, while nobody asks the
\* AI anything and the other process leaves the outbox alone.
NightCorner == asked = 0 /\ faults <= 1 /\ holds[2] = {}

Corners == DayCorner \/ NightCorner
=============================================================================
