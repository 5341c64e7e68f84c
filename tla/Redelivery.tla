----------------------------- MODULE Redelivery -----------------------------
(***************************************************************************)
(* What becomes of a send once it has failed: the outbox as the modules    *)
(* that send see it (internal/bot/outbox.go, internal/db/outbox.go), with  *)
(* the drain loops of all processes.  Outbox has the same code statement   *)
(* by statement; here it is what may happen to the rows of a send, and     *)
(* every send has a record of what happened to it.                         *)
(*                                                                         *)
(* A row is claimed by an UPDATE that only pushes its next attempt away,   *)
(* so a slow loop may still have it in hand when another one claims it.    *)
(* The retry goes through the client, which queues what fails, so a send   *)
(* may have several rows.  A batch is one row.                             *)
(***************************************************************************)
EXTENDS Naturals, FiniteSets

CONSTANTS Sends,     \* what may be sent: messages, or copies to users and answers
          Loops,     \* the drain loops of all processes
          Own,       \* the one of the process modelled
          MaxRows,   \* bound: rows of one send at a time
          MaxFaults, \* bound: failing calls and statements
          None

ASSUME RedeliveryAssumption ==
  /\ None \notin Sends /\ Own \in Loops
  /\ MaxRows \in Nat /\ MaxFaults \in Nat

VARIABLES
  queued,   \* the rows in the table
  holds,    \* the rows each loop has in hand
  arrived,  \* how often each send arrived: 0, 1 or 2 for "more"
  cause,    \* what went wrong with it
  faults

Rows == Sends \X (1..MaxRows)
Held == UNION {holds[l] : l \in Loops}

\* The rows of a send that may still be delivered.
Outstanding(s) == {r \in queued \cup Held : r[1] = s}

\* Why a send that is queued may arrive again: the reply to an attempt was lost, its row
\* outlived the delivery, a retry queued a second row, or two loops had one row in hand.
Repeats == {"lost", "kept", "requeued", "shared"}

RedeliveryTypeOK ==
  /\ queued \subseteq Rows /\ holds \in [Loops -> SUBSET Rows]
  /\ arrived \in [Sends -> 0..2] /\ faults \in 0..MaxFaults

RedeliveryInit ==
  /\ queued = {} /\ holds = [l \in Loops |-> {}]
  /\ arrived = [s \in Sends |-> 0] /\ cause = [s \in Sends |-> {}]
  /\ faults = 0

-----------------------------------------------------------------------------
Fault       == faults < MaxFaults /\ faults' = faults + 1
Blame(s, C) == cause' = [cause EXCEPT ![s] = @ \cup C]
Arrives(s)  == arrived' = [arrived EXCEPT ![s] = IF @ = 0 THEN 1 ELSE 2]

\* EnqueueSend: a new row.
Enqueue(s) ==
  \E n \in 1..MaxRows :
    /\ \A k \in 1..n : (<<s, k>> \in queued \cup Held) = (k < n)
    /\ queued' = queued \cup {<<s, n>>}

\* An attempt that fails for a transient reason: Telegram carried it out all the same or
\* not, and the client managed to queue it or not.
FailsForNow(s, C) ==
  /\ IF "lost" \in C THEN Arrives(s) ELSE UNCHANGED arrived
  /\ IF C \cap {"queued", "requeued"} # {} THEN Enqueue(s) ELSE UNCHANGED queued

-----------------------------------------------------------------------------
(* drainOutbox, in any process.                                            *)

\* ClaimDueSends: a row that is due, whoever has it in hand.
Claim(l, r) ==
  /\ holds[l] = {} /\ r \in queued
  /\ holds' = [holds EXCEPT ![l] = {r}]
  /\ IF r \in Held THEN Blame(r[1], {"shared"}) ELSE UNCHANGED cause
  /\ UNCHANGED <<queued, arrived, faults>>

\* Mutant: a row outlives its delivery without a failure.
NeverRemoved(r) == queued

Removed(r) == queued \ {r}

\* The retry, made as the send was made, and what is done about the row: delivered or
\* refused for good, it is deleted; delivered, it stays when the DELETE fails or the
\* process dies first; and it stays after a transient failure.  cut: the loop's context
\* is cancelled, which ends both the request and the DELETE.
Retry(l, r, cut) ==
  LET s == r[1]
      Fails == Fault \/ (cut /\ UNCHANGED faults)
  IN
  /\ r \in holds[l] /\ holds' = [holds EXCEPT ![l] = @ \ {r}]
  /\ \/ /\ ~cut /\ queued' = Removed(r)
        /\ Arrives(s) \/ UNCHANGED arrived
        /\ UNCHANGED <<cause, faults>>
     \/ Fails /\ Arrives(s) /\ Blame(s, {"kept"}) /\ UNCHANGED queued
     \/ \E C \in SUBSET {"lost", "requeued"} :
          /\ Fails \/ (C = {} /\ UNCHANGED faults)
          /\ FailsForNow(s, C) /\ Blame(s, C)

\* DropExhaustedSends.
GiveUp(r) ==
  /\ r \in queued /\ queued' = queued \ {r}
  /\ UNCHANGED <<holds, arrived, cause, faults>>
=============================================================================
