------------------------------- MODULE Outbox -------------------------------
(***************************************************************************)
(* The outbound path of the bot: limitedClient.RequestWithContext          *)
(* (internal/bot/ratelimit.go), which every handler and background job     *)
(* sends through, the durable outbox table (internal/db/outbox.go) and the *)
(* drain loop that retries from it (internal/bot/outbox.go).               *)
(*                                                                         *)
(* A caller is a thread that issues sends (the serial dispatcher, or a     *)
(* background goroutine) or the drain loop of a bot; the drain loop of bot *)
(* b is the caller b.  Two bots are the two processes of a deploy overlap: *)
(* they share the table and nothing else.  A database statement is atomic, *)
(* a Telegram request is atomic at Telegram, and everything in between     *)
(* interleaves.  Time is abstract: a backoff or a pause ends at some point.*)
(***************************************************************************)
EXTENDS Naturals, FiniteSets

CONSTANTS Bots,        \* bot processes
          Threads,     \* the threads that issue sends
          BotOf,       \* the process of each thread
          Msgs,        \* the sends, each issued at most once
          Queueable,   \* those whose method is in retryableMethods
          Env,         \* the answers of Telegram and the failures allowed
          MaxTries,    \* outboxMaxTries
          Batch,       \* outboxBatch
          MaxRows,     \* bound: rows ever inserted
          MaxCrashes,  \* bound: process crashes
          None

Callers == Threads \cup Bots
RowIds  == 1..MaxRows
Answer  == {"ok", "lost", "network", "shortFlood", "longFlood", "refused", "other"}
Failure == {"dbError"}
Result  == {"none", "ok", "retryable", "refused", "other"}

ASSUME OutboxAssumption ==
  /\ Bots \cap Threads = {}
  /\ BotOf \in [Threads -> Bots]
  /\ Queueable \subseteq Msgs
  /\ None \notin Msgs
  /\ Env \subseteq Answer \cup Failure
  /\ MaxTries \in Nat \ {0}
  /\ Batch \in Nat \ {0}
  /\ MaxRows \in Nat
  /\ MaxCrashes \in Nat

VARIABLES
  live,      \* ids of the rows in the table
  rowMsg,    \* the call each row holds
  attempts,  \* attempts column
  due,       \* rows whose next_try has come
  nextId,    \* the BIGSERIAL
  pc,        \* where each caller is
  arg,       \* the send it is making
  item,      \* the row it is retrying (drain loops)
  res,       \* what the request returned
  batch,     \* rows a drain loop has claimed and not attempted yet
  paused,    \* floodWaitRemaining() > maxInlineWait, per process
  crashes,   \* crashes so far
  accepted,  \* times Telegram accepted each send: 0, 1 or 2 for "more"
  refused,   \* sends Telegram refused for good
  told,      \* what the issuing thread got back
  blamed,    \* sends something happened to that may duplicate them
  lapsed     \* sends something kept out of the table when they failed

table    == <<live, rowMsg, attempts, due, nextId>>
client   == <<pc, arg, item, res>>
history  == <<told, blamed, lapsed>>
telegram == <<accepted, refused>>
vars == <<live, rowMsg, attempts, due, nextId, pc, arg, item, res, batch,
          paused, crashes, accepted, refused, told, blamed, lapsed>>

Owner(c) == IF c \in Bots THEN c ELSE BotOf[c]

TypeOK ==
  /\ live \subseteq RowIds
  /\ rowMsg \in [RowIds -> Msgs \cup {None}]
  /\ attempts \in [RowIds -> Nat]
  /\ due \subseteq RowIds
  /\ nextId \in 1..(MaxRows + 1)
  /\ pc \in [Callers -> {"idle", "check", "send", "retry", "queue", "done",
                         "drop", "claim", "next"}]
  /\ arg \in [Callers -> Msgs \cup {None}]
  /\ item \in [Callers -> RowIds \cup {0}]
  /\ res \in [Callers -> Result]
  /\ batch \in [Bots -> SUBSET RowIds]
  /\ paused \in [Bots -> BOOLEAN]
  /\ crashes \in Nat
  /\ accepted \in [Msgs -> 0..2]
  /\ refused \subseteq Msgs
  /\ told \in [Msgs -> Result \cup {"sending"}]
  /\ blamed \subseteq Msgs /\ lapsed \subseteq Msgs

Init ==
  /\ live = {} /\ due = {} /\ nextId = 1
  /\ rowMsg = [r \in RowIds |-> None]
  /\ attempts = [r \in RowIds |-> 0]
  /\ pc = [c \in Callers |-> "idle"]
  /\ arg = [c \in Callers |-> None]
  /\ item = [c \in Callers |-> 0]
  /\ res = [c \in Callers |-> "none"]
  /\ batch = [b \in Bots |-> {}]
  /\ paused = [b \in Bots |-> FALSE]
  /\ crashes = 0
  /\ accepted = [m \in Msgs |-> 0]
  /\ refused = {}
  /\ told = [m \in Msgs |-> "none"]
  /\ blamed = {} /\ lapsed = {}

Goto(c, l)    == pc' = [pc EXCEPT ![c] = l]
Finish(c, l, r) == Goto(c, l) /\ res' = [res EXCEPT ![c] = r]
Blame(m)      == blamed' = blamed \cup {m}
Lapse(m)      == lapsed' = lapsed \cup {m}
Accepts(m)    == accepted' = [accepted EXCEPT ![m] = IF @ = 0 THEN 1 ELSE 2]

-----------------------------------------------------------------------------
(* RequestWithContext, one action per point where something else may run.  *)

\* A handler or a background job issues a send.
Send(t, m) ==
  /\ pc[t] = "idle" /\ told[m] = "none"
  /\ Goto(t, "check")
  /\ arg' = [arg EXCEPT ![t] = m]
  /\ told' = [told EXCEPT ![m] = "sending"]
  /\ UNCHANGED <<table, item, res, batch, paused, crashes, telegram, blamed, lapsed>>

\* A flood pause refuses the call and queues it; a pause about to end is slept
\* through, which is the second disjunct taken after PauseEnds.
CheckPause(c) ==
  /\ pc[c] = "check"
  /\ \/ paused[Owner(c)] /\ Finish(c, "queue", "retryable")
     \/ ~paused[Owner(c)] /\ Goto(c, "send") /\ UNCHANGED res
  /\ UNCHANGED <<table, arg, item, batch, paused, crashes, telegram, history>>

\* Telegram's answer to the request, from the first call or the inline retry.
\* A lost reply was accepted, but the client sees a network error.
Answered(c, a) ==
  LET m == arg[c] IN
  /\ IF a \in {"ok", "lost"} THEN Accepts(m) ELSE UNCHANGED accepted
  /\ refused' = IF a = "refused" THEN refused \cup {m} ELSE refused
  /\ IF a = "lost" THEN Blame(m) ELSE UNCHANGED blamed

\* What RequestWithContext returns: errFloodPaused, a 429 and a transport failure
\* are all retryable.
ResultOf(a) == IF a \in {"ok", "refused", "other"} THEN a ELSE "retryable"

\* Mutant: the success check is lost, every answered call is queued as well.
AfterRequestUnchecked(a) == IF a = "shortFlood" THEN "retry" ELSE "queue"

\* Mutant: a transport failure is not taken for a retryable one.
AfterRequestOnlyFloods(a) == CASE a = "shortFlood" -> "retry"
                               [] a = "longFlood" -> "queue"
                               [] OTHER -> "done"

\* A short 429 is retried inline, the other retryable failures go to onRetryable.
AfterRequest(a) == CASE a = "shortFlood" -> "retry"
                     [] a \in {"longFlood", "lost", "network"} -> "queue"
                     [] OTHER -> "done"

\* The first attempt; any 429 is recorded as a pause of this process.
Request(c) ==
  /\ pc[c] = "send"
  /\ \E a \in Env \cap Answer :
       /\ Answered(c, a)
       /\ Finish(c, AfterRequest(a), ResultOf(a))
       /\ paused' = IF a \in {"shortFlood", "longFlood"}
                    THEN [paused EXCEPT ![Owner(c)] = TRUE] ELSE paused
  /\ UNCHANGED <<table, arg, item, batch, crashes, told, lapsed>>

\* Mutant: the call is queued before its inline retry is known to have failed.
InlineRetryQueued(c) ==
  /\ pc[c] = "retry"
  /\ \E a \in Env \cap Answer : Answered(c, a) /\ Finish(c, "queue", ResultOf(a))
  /\ UNCHANGED <<table, arg, item, batch, paused, crashes, told, lapsed>>

\* The inline retry returns whatever it got: nothing is recorded or queued.
InlineRetry(c) ==
  /\ pc[c] = "retry"
  /\ \E a \in Env \cap Answer :
       /\ Answered(c, a)
       /\ Finish(c, "done", ResultOf(a))
       /\ IF ResultOf(a) = "retryable" THEN Lapse(arg[c]) ELSE UNCHANGED lapsed
  /\ UNCHANGED <<table, arg, item, batch, paused, crashes, told>>

\* EnqueueSend: a new row, due at once, with no attempt.
InsertRow(m) ==
  /\ nextId <= MaxRows
  /\ live' = live \cup {nextId}
  /\ rowMsg' = [rowMsg EXCEPT ![nextId] = m]
  /\ due' = due \cup {nextId}
  /\ nextId' = nextId + 1
  /\ UNCHANGED attempts

\* enqueueFailedSend.  Past the bound MaxRows the insert counts as failed.
Enqueue(c) ==
  /\ pc[c] = "queue"
  /\ \/ /\ arg[c] \in Queueable
        /\ InsertRow(arg[c])
        /\ UNCHANGED lapsed
        /\ IF c \in Bots THEN Blame(arg[c]) ELSE UNCHANGED blamed
     \/ /\ arg[c] \notin Queueable \/ "dbError" \in Env \/ nextId > MaxRows
        /\ Lapse(arg[c])
        /\ UNCHANGED <<table, blamed>>
  /\ Goto(c, "done")
  /\ UNCHANGED <<arg, item, res, batch, paused, crashes, telegram, told>>

\* The issuing thread gets its answer.
Return(t) ==
  /\ pc[t] = "done"
  /\ told' = [told EXCEPT ![arg[t]] = res[t]]
  /\ Finish(t, "idle", "none")
  /\ arg' = [arg EXCEPT ![t] = None]
  /\ UNCHANGED <<table, item, batch, paused, crashes, telegram, blamed, lapsed>>

-----------------------------------------------------------------------------
(* drainOutbox.                                                            *)

\* A tick does nothing while Telegram has the process paused.
DrainTick(b) ==
  /\ pc[b] = "idle" /\ ~paused[b]
  /\ Goto(b, "drop")
  /\ UNCHANGED <<table, arg, item, res, batch, paused, crashes, telegram, history>>

\* Mutant: gives up one attempt early.
ExhaustedEarly == {r \in live : attempts[r] >= MaxTries - 1}

\* The rows that have used up their attempts.
Exhausted == {r \in live : attempts[r] >= MaxTries}

\* DropExhaustedSends; an error is logged and the tick goes on.
DropExhausted(b) ==
  /\ pc[b] = "drop"
  /\ Goto(b, "claim")
  /\ \/ live' = live \ Exhausted
     \/ "dbError" \in Env /\ UNCHANGED live
  /\ UNCHANGED <<rowMsg, attempts, due, nextId, arg, item, res, batch, paused,
                 crashes, telegram, history>>

\* The rows a drain loop has in hand: claimed, or being sent.
InHand(b) == batch[b] \cup (IF pc[b] \in {"check", "send", "retry", "queue", "done"}
                            THEN {item[b]} ELSE {})

\* The oldest due rows, at most limit of them.
DueRows(limit) == LET D == live \cap due IN
                  {r \in D : Cardinality({q \in D : q < r}) < limit}

\* Mutant: the claim forgets to count.
ChargedNever(C) == attempts

\* attempts + 1 for the claimed rows; it saturates just past MaxTries, which is all
\* the code tells apart.
Charged(C) == [r \in RowIds |-> IF r \in C /\ attempts[r] <= MaxTries
                                THEN attempts[r] + 1 ELSE attempts[r]]

\* ClaimDueSends: the rows are charged an attempt and pushed into the future in
\* one statement.
ClaimDue(b) ==
  /\ pc[b] = "claim"
  /\ \/ LET C == DueRows(Batch) IN
        /\ batch' = [batch EXCEPT ![b] = C]
        /\ attempts' = Charged(C)
        /\ due' = due \ C
        /\ blamed' = blamed \cup
                {rowMsg[r] : r \in {q \in C : \E o \in Bots \ {b} : q \in InHand(o)}}
        /\ Goto(b, "next")
     \/ /\ "dbError" \in Env
        /\ Goto(b, "idle")
        /\ UNCHANGED <<attempts, due, batch, blamed>>
  /\ UNCHANGED <<live, rowMsg, nextId, arg, item, res, paused, crashes, telegram, told, lapsed>>

\* The next claimed row goes through the same client; RETURNING promises no order.  What
\* enqueueFailedSend marshalled can be read again, so no row is dropped as unreadable.
DrainNext(b) ==
  /\ pc[b] = "next"
  /\ \/ \E r \in batch[b] :
          /\ batch' = [batch EXCEPT ![b] = @ \ {r}]
          /\ item' = [item EXCEPT ![b] = r]
          /\ arg' = [arg EXCEPT ![b] = rowMsg[r]]
          /\ Goto(b, "check")
     \/ batch[b] = {} /\ Goto(b, "idle") /\ UNCHANGED <<batch, item, arg>>
  /\ UNCHANGED <<table, res, paused, crashes, telegram, history>>

\* Mutant: a delivered row is kept.
RemovedIfRefused(a) == a = "refused"

\* The results after which the row is deleted: no error, or permanentSendFailure.
Removed(a) == a \in {"ok", "refused"}

\* A delivered or permanently refused row is deleted; any other failure leaves
\* it.  A failed DELETE leaves it too.
Settle(b) ==
  /\ pc[b] = "done"
  /\ \/ /\ Removed(res[b])
        /\ live' = live \ {item[b]}
        /\ UNCHANGED blamed
     \/ /\ Removed(res[b]) /\ "dbError" \in Env
        /\ Blame(arg[b])
        /\ UNCHANGED live
     \/ ~Removed(res[b]) /\ UNCHANGED <<live, blamed>>
  /\ Finish(b, "next", "none")
  /\ item' = [item EXCEPT ![b] = 0]
  /\ arg' = [arg EXCEPT ![b] = None]
  /\ UNCHANGED <<rowMsg, attempts, due, nextId, batch, paused, crashes, telegram, told, lapsed>>

-----------------------------------------------------------------------------
(* Time and failures.                                                      *)

\* next_try passes.
BecomeDue(r) ==
  /\ r \in live \ due
  /\ due' = due \cup {r}
  /\ UNCHANGED <<live, rowMsg, attempts, nextId, client, batch, paused, crashes,
                 telegram, history>>

\* floodUntil passes.
PauseEnds(b) ==
  /\ paused[b]
  /\ paused' = [paused EXCEPT ![b] = FALSE]
  /\ UNCHANGED <<table, client, batch, crashes, telegram, history>>

\* The process dies and is restarted: the table survives, the calls, the claimed
\* batch and the limiter's pause do not.
Crash(b) ==
  /\ crashes < MaxCrashes
  /\ crashes' = crashes + 1
  /\ LET mine == {c \in Callers : Owner(c) = b} IN
     /\ pc' = [c \in Callers |-> IF c \in mine THEN "idle" ELSE pc[c]]
     /\ arg' = [c \in Callers |-> IF c \in mine THEN None ELSE arg[c]]
     /\ item' = [c \in Callers |-> IF c \in mine THEN 0 ELSE item[c]]
     /\ res' = [c \in Callers |-> IF c \in mine THEN "none" ELSE res[c]]
  /\ batch' = [batch EXCEPT ![b] = {}]
  /\ paused' = [paused EXCEPT ![b] = FALSE]
  /\ IF pc[b] = "done" /\ res[b] = "ok" THEN Blame(arg[b])
                                        ELSE UNCHANGED blamed
  /\ UNCHANGED <<table, telegram, told, lapsed>>

-----------------------------------------------------------------------------
ClientStep(c) == CheckPause(c) \/ Request(c) \/ InlineRetry(c) \/ Enqueue(c)
DrainStep(b)  == DropExhausted(b) \/ ClaimDue(b) \/ DrainNext(b) \/ Settle(b)

Next ==
  \/ \E t \in Threads, m \in Msgs : Send(t, m)
  \/ \E t \in Threads : Return(t)
  \/ \E c \in Callers : ClientStep(c)
  \/ \E b \in Bots : DrainTick(b) \/ DrainStep(b) \/ PauseEnds(b) \/ Crash(b)
  \/ \E r \in RowIds : BecomeDue(r)

Spec == Init /\ [][Next]_vars

\* The ticker fires, running code runs on, timers expire: the loop is a goroutine
\* of a live process and both waits are bounded (900 s, retry_after).  Handlers
\* are never obliged to send anything.
Fairness ==
  /\ \A c \in Callers : WF_vars(ClientStep(c))
  /\ \A t \in Threads : WF_vars(Return(t))
  /\ \A b \in Bots : WF_vars(DrainTick(b)) /\ WF_vars(DrainStep(b)) /\ WF_vars(PauseEnds(b))
  /\ \A r \in RowIds : WF_vars(BecomeDue(r))

FairSpec == Spec /\ Fairness

-----------------------------------------------------------------------------
(* Properties.                                                             *)

RowsOf(m) == {r \in RowIds : r < nextId /\ rowMsg[r] = m}

\* The outbox implements the abstract queue: a row leaves the table only when
\* Telegram accepted or refused the send, or after MaxTries claims, whatever
\* crashes, failed statements and second workers do (DeleteSend and
\* DropExhaustedSends, the only deletions).
DQ == INSTANCE DurableQueue WITH
        Entries  <- RowIds,
        status   <- [r \in RowIds |-> IF r >= nextId THEN "absent"
                                      ELSE IF r \in live THEN "open" ELSE "closed"],
        holds    <- rowMsg,
        accepted <- {m \in Msgs : accepted[m] > 0}
ImplementsDurableQueue == DQ!QSpec

\* A row that is gone was delivered, refused, or exhausted: the invariant behind
\* ImplementsDurableQueue, in terms of the table.
NoRowLost ==
  \A r \in RowIds : r < nextId /\ r \notin live =>
    \/ accepted[rowMsg[r]] > 0
    \/ rowMsg[r] \in refused
    \/ attempts[r] >= MaxTries

\* A send reaches its chat twice only through one of four causes: the reply to an
\* accepted request was lost, a failing retry was queued again by the client it
\* went through, a delivered row was not deleted (failed statement or crash), or a
\* second drain loop claimed a row still in hand.  Pauses, refusals, queueing and
\* ordinary retries alone never duplicate (drainOutbox, RequestWithContext).
DuplicatesHaveACause == \A m \in Msgs : accepted[m] > 1 => m \in blamed

\* A send whose thread was told it went out is never queued, or the chat would get
\* it again minutes later (RequestWithContext returns before onRetryable).
SentIsNotQueued == \A m \in Msgs : told[m] = "ok" => RowsOf(m) = {}

\* "so the bot can queue it durably instead of losing it": a send that failed is in the
\* table, but for one whose INSERT or whose inline retry failed: nobody records what
\* the second request of RequestWithContext returns (enqueueFailedSend).
FailedSendIsQueued ==
  \A m \in Queueable : told[m] = "retryable" => RowsOf(m) # {} \/ m \in lapsed

\* Every queued row eventually leaves the table, even if Telegram never accepts
\* it and the process crashes in between (drainOutbox's progress, ticks resumed).
RowsDrain == \A r \in RowIds : r \in live ~> r \notin live
=============================================================================
