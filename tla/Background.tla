----------------------------- MODULE Background -----------------------------
(***************************************************************************)
(* The work a process does besides its updates, and its end: the tracked   *)
(* goroutines, the drain and the pool (internal/bot/bot.go, cmd), the      *)
(* broadcast of an admin (internal/bot/background.go), and the questions   *)
(* to the AI with their queue (internal/bot/aichat.go, aiqueue.go).        *)
(*                                                                         *)
(* Goroutines interleave at every statement and call.  A call that fails   *)
(* for a transient reason is offered to the outbox, through the pool, with *)
(* a context of its own: neither the stop nor the end of the drain ends    *)
(* it.  The outbox is that of Redelivery, with the drain loops of this     *)
(* process and of others.                                                  *)
(***************************************************************************)
EXTENDS Redelivery, Sequences

CONSTANTS Users,      \* whom the one broadcast goes to
          MaxQuestions, \* bound: texts that reply to the bot in the group
          QueueMax,   \* aiQueueMax
          MaxLives    \* bound: processes, one after the other

Questions == 1..MaxQuestions

ASSUME BackgroundAssumption ==
  /\ IsFiniteSet(Users)
  /\ Users \cap Nat = {} /\ None \notin Nat
  /\ MaxQuestions \in Nat /\ QueueMax \in Nat \ {0}
  /\ Sends = Users \cup Questions
  /\ MaxLives \in Nat \ {0}

VARIABLES
  phase,     \* up, stopping: the context is cancelled; closed: so is the pool; down
  lives,     \* processes so far
  gaveUp,    \* the grace period ended before the work did
  late,      \* a statement was issued to the closed pool
  bpc, left, \* the broadcast, and the users it has not tried
  failures,  \* the users in its list of failures
  listed,    \* whether that list was sent to the admin: no, yes, failed
  everyone,  \* the admin was told "sent the message to everyone."
  queue,     \* aiQueue.items
  hand,      \* the question the responder is at
  responder, \* waiting, asking, posting, ended
  asked,     \* questions marked as being thought about, so far
  posted,    \* questions whose answer the responder posted
  excused    \* questions left without an answer: the queue was full, the AI had none or
             \* failed, the answer could not be posted, or the process ended

life   == <<phase, lives, gaveUp>>
mail   == <<queued, holds, arrived, cause, late>>
bcast  == <<bpc, left, failures, listed, everyone>>
aiVars == <<queue, hand, responder, asked, posted, excused>>
bgVars == <<life, faults, mail, bcast, aiVars>>

Elements(s) == {s[i] : i \in DOMAIN s}

BackgroundTypeOK ==
  /\ phase \in {"up", "stopping", "closed", "down"} /\ lives \in 0..MaxLives
  /\ RedeliveryTypeOK /\ cause \in [Sends -> SUBSET (Repeats \cup {"queued"})]
  /\ gaveUp \in BOOLEAN /\ late \in BOOLEAN /\ everyone \in BOOLEAN
  /\ bpc \in {"off", "armed", "listing", "looking", "copying", "closing", "over", "cut"}
  /\ left \subseteq Users /\ failures \subseteq Users
  /\ listed \in {"no", "yes", "failed"}
  /\ queue \in Seq(Questions) /\ Len(queue) <= QueueMax
  /\ hand \in Questions \cup {None}
  /\ responder \in {"waiting", "asking", "posting", "ended"}
  /\ asked \in 0..MaxQuestions /\ posted \subseteq Questions
  /\ excused \subseteq Questions

BackgroundInit ==
  /\ RedeliveryInit
  /\ phase = "up" /\ lives = 1
  /\ gaveUp = FALSE /\ late = FALSE
  /\ bpc = "off" /\ left = {} /\ failures = {} /\ listed = "no" /\ everyone = FALSE
  /\ queue = <<>> /\ hand = None /\ responder = "waiting"
  /\ asked = 0 /\ posted = {} /\ excused = {}

-----------------------------------------------------------------------------
Running == phase # "down"
Stopped == phase # "up"
\* A send that fails for a transient reason; the closed pool takes nothing.
TriesLater(s) ==
  /\ Fault
  /\ \E C \in SUBSET {"lost", "queued"} :
       FailsForNow(s, C) /\ Blame(s, C) /\ ("queued" \in C => phase # "closed")
  /\ late' = (late \/ phase = "closed")
  /\ UNCHANGED holds

\* A send that fails for good.
FailsForGood == Fault /\ UNCHANGED mail

\* A notice nobody waits for: when it fails, the client may want to queue it.
Notice ==
  \/ UNCHANGED <<faults, late>>
  \/ Fault /\ late' \in {late, late \/ phase = "closed"}

\* The drain loop of this process and those of others.  What the loop has in hand when
\* the process is stopped is cut short, and may be queued once more, through the pool.
Drain(l, r) ==
  /\ \/ (l = Own => phase = "up") /\ (Claim(l, r) \/ GiveUp(r))
     \/ (l = Own => Running) /\ Retry(l, r, l = Own /\ Stopped)
  /\ IF l = Own /\ phase = "closed"
     THEN queued' = queued /\ late' \in {late, TRUE}
     ELSE UNCHANGED late
  /\ UNCHANGED <<life, bcast, aiVars>>

-----------------------------------------------------------------------------
(* scheduleMassMsg and sendMassMsg.                                        *)

OnlyBroadcast == UNCHANGED <<life, aiVars>>

\* /admin send-mass-msg YES, from a handler that may outlast the stop.
Schedule ==
  /\ phase \in {"up", "stopping"} /\ bpc = "off"
  /\ bpc' = "armed"
  /\ OnlyBroadcast /\ UNCHANGED <<faults, mail, left, failures, listed, everyone>>

\* Seven seconds later, with a word to the admin, unless the context is cancelled;
\* select takes either when both have happened.
Begin ==
  /\ Running /\ bpc = "armed"
  /\ \/ bpc' = "listing" /\ Notice
     \/ Stopped /\ bpc' = "cut" /\ UNCHANGED <<faults, late>>
  /\ OnlyBroadcast /\ UNCHANGED <<queued, holds, arrived, cause, left, failures, listed, everyone>>

\* GetAllUIDs, which fails on a cancelled context before it reaches the pool.
List ==
  /\ Running /\ bpc = "listing"
  /\ \/ ~Stopped /\ bpc' = "looking" /\ left' = Users /\ UNCHANGED faults
     \/ bpc' = "cut" /\ UNCHANGED left /\ (Fault \/ (Stopped /\ UNCHANGED faults))
  /\ OnlyBroadcast /\ UNCHANGED <<mail, failures, listed, everyone>>

\* Mutant: the interruption only leaves the loop.
BreakOff ==
  /\ Running /\ Stopped /\ bpc = "looking" /\ left # {}
  /\ bpc' = "over" /\ everyone' = TRUE
  /\ OnlyBroadcast /\ UNCHANGED <<faults, mail, left, failures, listed>>

\* The context is looked at before each user.
Interrupted ==
  /\ Running /\ Stopped /\ bpc = "looking" /\ left # {}
  /\ bpc' = "cut"
  /\ OnlyBroadcast /\ UNCHANGED <<faults, mail, left, failures, listed, everyone>>
GoOn ==
  /\ ~Stopped /\ bpc = "looking" /\ left # {}
  /\ bpc' = "copying"
  /\ OnlyBroadcast /\ UNCHANGED <<faults, mail, left, failures, listed, everyone>>

\* The next user: copied, or in the list of failures.
CopyTo(u) ==
  /\ Running /\ bpc = "copying" /\ u \in left
  /\ left' = left \ {u} /\ bpc' = "looking"
  /\ \/ Arrives(u) /\ UNCHANGED <<queued, holds, cause, late, faults, failures>>
     \/ (TriesLater(u) \/ FailsForGood) /\ failures' = failures \cup {u}
  /\ OnlyBroadcast /\ UNCHANGED <<listed, everyone>>

\* The list of failures, if there are any: a file that is written, opened and sent, and
\* whatever fails of that is dropped.
SendList ==
  /\ Running /\ bpc = "looking" /\ left = {}
  /\ bpc' = "closing"
  /\ \/ failures = {} /\ UNCHANGED <<listed, faults, late>>
     \/ /\ failures # {} /\ Notice
        /\ listed' \in (IF faults' = faults THEN {"yes"} ELSE {"yes", "failed"})
  /\ OnlyBroadcast /\ UNCHANGED <<queued, holds, arrived, cause, left, failures, everyone>>

\* "sent the message to everyone.", whatever the list says and whether it was sent.
Report ==
  /\ Running /\ bpc = "closing"
  /\ bpc' = "over"
  /\ Notice
  /\ everyone' \in (IF faults' = faults THEN {TRUE} ELSE BOOLEAN)
  /\ OnlyBroadcast /\ UNCHANGED <<queued, holds, arrived, cause, left, failures, listed>>

-----------------------------------------------------------------------------
(* aiInput and aiResponderLoop.                                            *)

OnlyAI == UNCHANGED <<life, bcast>>

Room == Len(queue) < QueueMax

\* The next question, from a handler that may outlast the stop: queued, or dropped when
\* the queue is full; marked all the same.
Ask ==
  /\ phase \in {"up", "stopping"} /\ asked < MaxQuestions
  /\ asked' = asked + 1
  /\ IF Room
     THEN queue' = Append(queue, asked') /\ UNCHANGED excused
     ELSE excused' = excused \cup {asked'} /\ UNCHANGED queue
  /\ OnlyAI /\ UNCHANGED <<faults, mail, hand, responder, posted>>

\* The timer: the next question, if there is one; select may prefer the timer to a
\* cancelled context.
Take ==
  /\ Running /\ responder = "waiting" /\ queue # <<>>
  /\ hand' = Head(queue) /\ queue' = Tail(queue) /\ responder' = "asking"
  /\ OnlyAI /\ UNCHANGED <<faults, mail, asked, posted, excused>>

\* Mutant: an empty answer ends the worker.
AfterEmptyEnded == "ended"

AfterEmpty == "waiting"

\* The question is done with, answered or for a reason.
Finished(next) == responder' = next /\ hand' = None
Excused == excused' = excused \cup {hand}

\* aiGenerate: an answer, none at all, or an error; a cancelled context is an error.  An
\* error is reported to ERROR_CHAT_ID, and that send may fail and be queued as well.
Generate ==
  /\ Running /\ responder = "asking"
  /\ \/ responder' = "posting" /\ UNCHANGED <<hand, excused, faults, late>>
     \/ Finished(AfterEmpty) /\ Excused /\ Fault /\ UNCHANGED late
     \/ /\ Finished("waiting") /\ Excused /\ (Fault \/ (Stopped /\ UNCHANGED faults))
        /\ late' \in {late, late \/ phase = "closed"}
  /\ OnlyAI /\ UNCHANGED <<queued, holds, arrived, cause, queue, asked, posted>>

\* The answer goes to the group, without its markup when that cannot be parsed.
Post ==
  /\ Running /\ responder = "posting" /\ Finished("waiting")
  /\ \/ /\ Arrives(hand) /\ posted' = posted \cup {hand}
        /\ UNCHANGED <<queued, holds, cause, late, faults, excused>>
     \/ (TriesLater(hand) \/ FailsForGood) /\ Excused /\ UNCHANGED posted
  /\ OnlyAI /\ UNCHANGED <<queue, asked>>

\* The loop sees the cancelled context.
EndResponder ==
  /\ Running /\ Stopped /\ responder = "waiting"
  /\ responder' = "ended"
  /\ OnlyAI /\ UNCHANGED <<faults, mail, queue, hand, asked, posted, excused>>

-----------------------------------------------------------------------------
(* Run, waitBackground and the deferred Close.                             *)

\* Mutant: the broadcast is not tracked.
DrainedButBroadcast == responder = "ended" /\ holds[Own] = {}

\* bgWG: every tracked goroutine has returned.
Drained == responder = "ended" /\ bpc \in {"off", "over", "cut"} /\ holds[Own] = {}

Stop ==
  /\ phase = "up" /\ phase' = "stopping"
  /\ UNCHANGED <<lives, gaveUp, faults, mail, bcast, aiVars>>

\* The work is done, or ten seconds have passed.  busy: there is other tracked work.
Close(busy) ==
  /\ phase = "stopping" /\ phase' = "closed"
  /\ gaveUp' = (busy \/ ~Drained)
  /\ UNCHANGED <<lives, faults, mail, bcast, aiVars>>

\* The process is gone, at the end of main or all of a sudden, and what it had in
\* memory with it.
Die ==
  /\ Running /\ phase' = "down"
  /\ bpc' = IF bpc \in {"off", "over"} THEN bpc ELSE "cut"
  /\ queue' = <<>> /\ hand' = None /\ responder' = "ended"
  /\ excused' = excused \cup Elements(queue) \cup ({hand} \ {None})
  /\ holds' = [holds EXCEPT ![Own] = {}]
  /\ UNCHANGED <<lives, gaveUp, faults, queued, arrived, cause, late, left, failures, listed,
                 everyone, asked, posted>>

\* The next process.
Start ==
  /\ phase = "down" /\ lives < MaxLives
  /\ phase' = "up" /\ lives' = lives + 1 /\ gaveUp' = FALSE /\ late' = FALSE
  /\ responder' = "waiting"
  /\ UNCHANGED <<faults, queued, holds, arrived, cause, bcast, queue, hand, asked, posted,
                 excused>>

BackgroundStep ==
  \/ \E l \in Loops, r \in Rows : Drain(l, r)
  \/ Schedule \/ Begin \/ List \/ GoOn \/ Interrupted \/ SendList \/ Report
  \/ \E u \in Users : CopyTo(u)
  \/ Ask \/ Take \/ Generate \/ Post \/ EndResponder
  \/ Stop \/ Start

-----------------------------------------------------------------------------
(* Properties.                                                             *)

\* "so nothing uses a closed pool": a statement reaches the closed pool only from work
\* that outlasted the grace period (Run, waitBackground, enqueueFailedSend).
PoolOutlivesItsUsers == late => gaveUp

\* An admin who reads "sent the message to everyone." knows of every user: each has a
\* copy or is in the list of failures, which was sent to the admin, unless writing,
\* opening or sending it failed, of which the admin hears nothing.  And who is in the
\* list got nothing, and will not, unless the reply was lost or the outbox has the copy
\* too (sendMassMsg).
EveryoneMeansEveryone ==
  /\ everyone /\ listed # "failed" =>
       \A u \in Users : arrived[u] > 0 \/ (u \in failures /\ listed = "yes")
  /\ \A u \in failures : arrived[u] > 0 => cause[u] \cap {"lost", "queued"} # {}

\* A user gets the broadcast twice, or a question its answer, only from the outbox, and
\* for one of four things: the reply to an attempt was lost, its row outlived a delivery,
\* a retry queued a second row, or two loops had its row in hand (sendMassMsg,
\* aiResponderOnce, drainOutbox).
TwiceHasACause ==
  \A s \in Sends : arrived[s] > 1 => "queued" \in cause[s] /\ cause[s] \cap Repeats # {}

\* A question that is marked as being thought about is waiting, being answered, or
\* answered, or there is a reason; and no answer, however blank, ends the worker of a
\* process that runs (aiInput, aiResponderOnce: "so one blank reply can't kill the
\* loop").
QuestionsAreLookedAfter ==
  /\ \A q \in 1..asked :
       q \in Elements(queue) \cup {hand} \cup posted \cup excused
  /\ phase = "up" => responder # "ended"
=============================================================================
