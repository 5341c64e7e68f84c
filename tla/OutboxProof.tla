---------------------------- MODULE OutboxProof ----------------------------
(***************************************************************************)
(* Proofs about Outbox for every number of processes, threads, sends, rows *)
(* and crashes: type correctness, that no row leaves the table without a   *)
(* reason, that the outbox implements DurableQueue, that rows are for      *)
(* failed sends only, and that a copy too many has a cause.                *)
(***************************************************************************)
EXTENDS Outbox, TLAPS

\* A caller that is inside RequestWithContext, or back from it.
Busy == {"check", "send", "retry", "queue", "done"}

\* Rows are numbered without gaps; those not inserted yet are blank, and the rows
\* in the table and in a batch have been inserted.
RowsNumbered ==
  /\ \A r \in RowIds : IF r < nextId THEN rowMsg[r] \in Msgs
                                     ELSE attempts[r] = 0
  /\ \A r \in live : r < nextId
  /\ \A b \in Bots : \A r \in batch[b] : r < nextId

\* A busy caller has a send; a busy drain loop has the send of its row.
CallsAreBound ==
  /\ \A t \in Threads : pc[t] \in {"idle"} \cup Busy
  /\ \A c \in Callers : pc[c] \in Busy => arg[c] \in Msgs
  /\ \A b \in Bots : pc[b] \in Busy =>
        /\ item[b] \in RowIds
        /\ item[b] < nextId
        /\ arg[b] = rowMsg[item[b]]

\* A result is only there once Telegram has answered, and says what it answered.
ResultsAreTrue ==
  \A c \in Callers :
    /\ pc[c] \notin {"retry", "queue", "done"} => res[c] = "none"
    /\ res[c] = "ok" => accepted[arg[c]] > 0
    /\ res[c] = "refused" => arg[c] \in refused

\* The inductive invariant.
IInv == TypeOK /\ RowsNumbered /\ CallsAreBound /\ ResultsAreTrue /\ NoRowLost

LEMMA CallerFacts ==
  /\ Bots \subseteq Callers /\ Threads \subseteq Callers
  /\ \A c \in Callers : c \in Bots \/ c \in Threads
  /\ \A t \in Threads : t \notin Bots
BY OutboxAssumption DEF Callers

\* What an answer of Telegram does to its records: they only grow, an accepted send
\* is counted and a refused one noted.
LEMMA AnsweredFacts ==
  ASSUME NEW c \in Callers, NEW a \in Answer, IInv, pc[c] \in Busy, Answered(c, a)
  PROVE  /\ accepted' \in [Msgs -> 0..2]
         /\ \A m \in Msgs : accepted'[m] >= accepted[m]
         /\ a = "ok" => accepted'[arg[c]] > 0
         /\ refused' \subseteq Msgs
         /\ refused \subseteq refused'
         /\ a = "refused" => arg[c] \in refused'
         /\ blamed' \subseteq Msgs
<1>1. arg[c] \in Msgs
  BY DEF IInv, CallsAreBound
<1>2. /\ accepted \in [Msgs -> 0..2]
      /\ refused \subseteq Msgs
      /\ blamed \subseteq Msgs
  BY DEF IInv, TypeOK
<1>3. /\ accepted' \in [Msgs -> 0..2]
      /\ \A m \in Msgs : accepted'[m] >= accepted[m]
      /\ a = "ok" => accepted'[arg[c]] > 0
  BY <1>1, <1>2 DEF Answered, Accepts
<1>4. QED
  BY <1>1, <1>2, <1>3 DEF Answered, Blame

LEMMA InitIInv == Init => IInv
<1> SUFFICES ASSUME Init PROVE IInv
  OBVIOUS
<1> USE OutboxAssumption DEF Init
<1>1. TypeOK
  BY DEF TypeOK, RowIds, Result
<1>2. \A r \in RowIds : ~(r < nextId)
  BY DEF RowIds
<1>3. RowsNumbered /\ NoRowLost
  BY <1>2 DEF RowsNumbered, NoRowLost
<1>4. CallsAreBound /\ ResultsAreTrue
  BY CallerFacts DEF CallsAreBound, ResultsAreTrue, Busy
<1>5. QED
  BY <1>1, <1>3, <1>4 DEF IInv

\* An answer that sends the caller on with the matching result preserves IInv,
\* whether it came from the first request or from the inline retry.
LEMMA AnsweredIInv ==
  ASSUME NEW c \in Callers, NEW a \in Answer, NEW l \in {"retry", "queue", "done"},
         IInv, pc[c] \in {"send", "retry"}, Answered(c, a), Finish(c, l, ResultOf(a)),
         paused' \in [Bots -> BOOLEAN], lapsed' \subseteq Msgs,
         UNCHANGED <<table, arg, item, batch, crashes, told>>
  PROVE  IInv'
<1> USE CallerFacts DEF table
<1>1. pc[c] \in Busy /\ l \in Busy
  BY DEF Busy
<1>2. /\ accepted' \in [Msgs -> 0..2]
      /\ \A m \in Msgs : accepted'[m] >= accepted[m]
      /\ a = "ok" => accepted'[arg[c]] > 0
      /\ refused' \subseteq Msgs
      /\ refused \subseteq refused'
      /\ a = "refused" => arg[c] \in refused'
      /\ blamed' \subseteq Msgs
  BY <1>1, AnsweredFacts
<1>3. /\ ResultOf(a) \in Result \ {"none"}
      /\ ResultOf(a) = "ok" => a = "ok"
      /\ ResultOf(a) = "refused" => a = "refused"
  BY DEF ResultOf, Result
<1>4. /\ pc' = [pc EXCEPT ![c] = l]
      /\ res' = [res EXCEPT ![c] = ResultOf(a)]
  BY DEF Finish, Goto
<1>5. TypeOK'
  BY <1>2, <1>3, <1>4 DEF IInv, TypeOK
<1>6. RowsNumbered'
  BY DEF IInv, RowsNumbered
<1>7. CallsAreBound'
  BY <1>1, <1>4 DEF IInv, TypeOK, CallsAreBound
<1>8. \A d \in Callers \ {c} : pc'[d] = pc[d] /\ res'[d] = res[d]
  BY <1>4 DEF IInv, TypeOK
<1>9. \A d \in Callers : res[d] = "ok" => accepted[arg[d]] > 0 /\ arg[d] \in Msgs
  BY DEF IInv, ResultsAreTrue, CallsAreBound, Busy
<1>10. ResultsAreTrue'
  BY <1>2, <1>3, <1>4, <1>8, <1>9 DEF IInv, TypeOK, ResultsAreTrue
<1>11. NoRowLost'
  BY <1>2 DEF IInv, TypeOK, NoRowLost, RowsNumbered
<1>12. QED
  BY <1>5, <1>6, <1>7, <1>10, <1>11 DEF IInv

\* Only sends lapse.
LEMMA LapsedTyped == IInv /\ [Next]_vars => lapsed' \subseteq Msgs
<1> SUFFICES ASSUME IInv, [Next]_vars PROVE lapsed' \subseteq Msgs
  OBVIOUS
<1> USE CallerFacts
<1>1. lapsed \subseteq Msgs /\ \A c \in Callers : pc[c] \in Busy => arg[c] \in Msgs
  BY DEF IInv, TypeOK, CallsAreBound
<1>2. ASSUME NEW c \in Callers, InlineRetry(c) \/ Enqueue(c) PROVE lapsed' \subseteq Msgs
  BY <1>1, <1>2 DEF InlineRetry, Enqueue, Lapse, Busy
<1>3. CASE UNCHANGED lapsed
  BY <1>1, <1>3
<1>4. QED
  BY <1>2, <1>3 DEF Next, vars, ClientStep, DrainStep, Send, Return, CheckPause, Request,
     DrainTick, DropExhausted, ClaimDue, DrainNext, Settle, PauseEnds, Crash, BecomeDue,
     history

LEMMA StepIInv == IInv /\ [Next]_vars => IInv'
<1> SUFFICES ASSUME IInv, [Next]_vars PROVE IInv'
  OBVIOUS
<1> USE OutboxAssumption, CallerFacts
<1>0. lapsed' \subseteq Msgs
  BY LapsedTyped
<1> USE <1>0
<1>1. ASSUME NEW t \in Threads, NEW m \in Msgs, Send(t, m) PROVE IInv'
  BY <1>1 DEF IInv, TypeOK, RowsNumbered, CallsAreBound, ResultsAreTrue, NoRowLost,
     Send, Goto, table, telegram, history, Busy, Result
<1>2. ASSUME NEW t \in Threads, Return(t) PROVE IInv'
  BY <1>2 DEF IInv, TypeOK, RowsNumbered, CallsAreBound, ResultsAreTrue, NoRowLost,
     Return, Finish, Goto, table, telegram, history, Busy, Result
<1>3. ASSUME NEW c \in Callers, CheckPause(c) PROVE IInv'
  BY <1>3 DEF IInv, TypeOK, RowsNumbered, CallsAreBound, ResultsAreTrue, NoRowLost,
     CheckPause, Finish, Goto, table, telegram, history, Busy, Result
<1>4. ASSUME NEW c \in Callers, Request(c) PROVE IInv'
  <2>1. PICK a \in Env \cap Answer :
           /\ Answered(c, a)
           /\ Finish(c, AfterRequest(a), ResultOf(a))
           /\ paused' = IF a \in {"shortFlood", "longFlood"}
                        THEN [paused EXCEPT ![Owner(c)] = TRUE] ELSE paused
    BY <1>4 DEF Request
  <2>2. pc[c] = "send" /\ UNCHANGED <<table, arg, item, batch, crashes, told>>
    BY <1>4 DEF Request
  <2>3. AfterRequest(a) \in {"retry", "queue", "done"}
    BY DEF AfterRequest, Answer
  <2>4. paused' \in [Bots -> BOOLEAN]
    BY <2>1 DEF IInv, TypeOK
  <2>5. QED
    BY <2>1, <2>2, <2>3, <2>4, AnsweredIInv
<1>5. ASSUME NEW c \in Callers, InlineRetry(c) PROVE IInv'
  <2>1. PICK a \in Env \cap Answer : Answered(c, a) /\ Finish(c, "done", ResultOf(a))
    BY <1>5 DEF InlineRetry
  <2>2. /\ pc[c] = "retry"
        /\ UNCHANGED <<table, arg, item, batch, crashes, told>>
        /\ paused' \in [Bots -> BOOLEAN]
    BY <1>5 DEF InlineRetry, IInv, TypeOK
  <2>3. QED
    BY <2>1, <2>2, AnsweredIInv
<1>6. ASSUME NEW c \in Callers, Enqueue(c) PROVE IInv'
  <2> USE <1>6
  <2>1. /\ pc[c] = "queue" /\ arg[c] \in Msgs
        /\ pc' = [pc EXCEPT ![c] = "done"]
        /\ UNCHANGED <<arg, item, res, batch, paused, crashes, telegram, told>>
    BY DEF Enqueue, Goto, IInv, CallsAreBound, Busy
  <2>2. CASE InsertRow(arg[c])
    <3>1. blamed' \subseteq Msgs
      BY <2>1 DEF Enqueue, Blame, IInv, TypeOK, table
    <3>2. nextId \in RowIds
      BY <2>2 DEF InsertRow, IInv, TypeOK, RowIds
    <3>3. TypeOK'
      BY <2>1, <2>2, <3>1, <3>2 DEF InsertRow, IInv, TypeOK, RowIds, telegram, history
    <3>4. \A r \in RowIds : r < nextId' <=> r < nextId \/ r = nextId
      BY <2>2 DEF InsertRow, IInv, TypeOK, RowIds
    <3>5. \A r \in RowIds : r # nextId => rowMsg'[r] = rowMsg[r]
      BY <2>2 DEF InsertRow, IInv, TypeOK
    <3>6. RowsNumbered'
      BY <2>1, <2>2, <3>2, <3>4, <3>5 DEF InsertRow, IInv, TypeOK, RowsNumbered
    <3>7. CallsAreBound'
      BY <2>1, <2>2, <3>4, <3>5 DEF InsertRow, IInv, TypeOK, CallsAreBound, Busy
    <3>8. ResultsAreTrue'
      BY <2>1 DEF IInv, TypeOK, ResultsAreTrue, telegram, history
    <3>9. NoRowLost'
      BY <2>1, <2>2, <3>2, <3>4, <3>5 DEF InsertRow, IInv, NoRowLost, telegram, history
    <3>10. QED
      BY <3>3, <3>6, <3>7, <3>8, <3>9 DEF IInv
  <2>3. CASE UNCHANGED <<table, blamed>>
    BY <2>1, <2>3 DEF IInv, TypeOK, RowsNumbered, CallsAreBound, ResultsAreTrue, NoRowLost,
       table, telegram, history, Busy
  <2>4. QED
    BY <2>2, <2>3 DEF Enqueue
<1>7. ASSUME NEW b \in Bots, DrainTick(b) PROVE IInv'
  BY <1>7 DEF IInv, TypeOK, RowsNumbered, CallsAreBound, ResultsAreTrue, NoRowLost,
     DrainTick, Goto, table, telegram, history, Busy, Result
<1>8. ASSUME NEW b \in Bots, DropExhausted(b) PROVE IInv'
  BY <1>8 DEF IInv, TypeOK, RowsNumbered, CallsAreBound, ResultsAreTrue, NoRowLost,
     DropExhausted, Exhausted, Goto, table, telegram, history, Busy, Result
<1>9. ASSUME NEW b \in Bots, ClaimDue(b) PROVE IInv'
  <2>1. CASE "dbError" \in Env /\ Goto(b, "idle") /\ UNCHANGED <<attempts, due, batch, blamed>>
    BY <1>9, <2>1 DEF IInv, TypeOK, RowsNumbered, CallsAreBound, ResultsAreTrue, NoRowLost,
       ClaimDue, Goto, table, telegram, history, Busy, Result
  <2>2. CASE Goto(b, "next")
    <3> DEFINE C == DueRows(Batch)
    <3>1. C \subseteq live
      BY DEF DueRows
    <3>2. /\ pc[b] = "claim" /\ pc' = [pc EXCEPT ![b] = "next"]
          /\ UNCHANGED <<live, rowMsg, nextId, arg, item, res, paused, crashes, telegram, told>>
      BY <1>9, <2>2 DEF ClaimDue, Goto
    <3>3. pc' # [pc EXCEPT ![b] = "idle"]
      BY <3>2 DEF IInv, TypeOK
    <3>4. /\ batch' = [batch EXCEPT ![b] = C]
          /\ attempts' = Charged(C)
          /\ due' = due \ C
          /\ blamed' = blamed \cup
                {rowMsg[r] : r \in {q \in C : \E o \in Bots \ {b} : q \in InHand(o)}}
      BY <1>9, <3>3 DEF ClaimDue, Goto
    <3> HIDE DEF C
    <3>5. \A r \in C : r \in RowIds /\ rowMsg[r] \in Msgs
      BY <3>1 DEF IInv, TypeOK, RowsNumbered
    <3>6. blamed' \subseteq Msgs
      BY <3>4, <3>5 DEF IInv, TypeOK
    <3>7. /\ attempts' \in [RowIds -> Nat]
          /\ \A r \in RowIds : attempts'[r] >= attempts[r]
          /\ \A r \in RowIds \ C : attempts'[r] = attempts[r]
      BY <3>4 DEF Charged, IInv, TypeOK
    <3>8. TypeOK'
      BY <3>1, <3>2, <3>4, <3>6, <3>7 DEF IInv, TypeOK, telegram, history
    <3>9. RowsNumbered'
      BY <3>1, <3>2, <3>4, <3>7 DEF IInv, TypeOK, RowsNumbered
    <3>10. CallsAreBound' /\ ResultsAreTrue'
      BY <3>2 DEF IInv, TypeOK, CallsAreBound, ResultsAreTrue, Busy, telegram, history
    <3>11. NoRowLost'
      BY <3>1, <3>2, <3>7 DEF IInv, TypeOK, NoRowLost, telegram, history
    <3>12. QED
      BY <3>8, <3>9, <3>10, <3>11 DEF IInv
  <2>3. QED
    BY <1>9, <2>1, <2>2 DEF ClaimDue
<1>10. ASSUME NEW b \in Bots, DrainNext(b) PROVE IInv'
  <2>1. /\ pc[b] = "next"
        /\ UNCHANGED <<table, res, paused, crashes, telegram, history>>
    BY <1>10 DEF DrainNext
  <2>2. CASE /\ batch[b] = {} /\ Goto(b, "idle") /\ UNCHANGED <<batch, item, arg>>
    BY <2>1, <2>2 DEF IInv, TypeOK, RowsNumbered, CallsAreBound, ResultsAreTrue,
       NoRowLost, Goto, table, telegram, history, Busy
  <2>3. ASSUME NEW r \in batch[b],
               batch' = [batch EXCEPT ![b] = @ \ {r}],
               item' = [item EXCEPT ![b] = r],
               arg' = [arg EXCEPT ![b] = rowMsg[r]],
               Goto(b, "check")
        PROVE  IInv'
    <3>1. r \in RowIds /\ r < nextId /\ rowMsg[r] \in Msgs
      BY DEF IInv, TypeOK, RowsNumbered
    <3>2. TypeOK'
      BY <2>1, <2>3, <3>1 DEF IInv, TypeOK, Goto, table, telegram, history
    <3>3. RowsNumbered' /\ NoRowLost'
      BY <2>1, <2>3 DEF IInv, TypeOK, RowsNumbered, NoRowLost, table, telegram, history
    <3>4. CallsAreBound'
      BY <2>1, <2>3, <3>1 DEF IInv, TypeOK, CallsAreBound, Busy, Goto, table
    <3>5. res[b] = "none"
      BY <2>1 DEF IInv, ResultsAreTrue
    <3>6. ResultsAreTrue'
      BY <2>1, <2>3, <3>5 DEF IInv, TypeOK, ResultsAreTrue, Goto, telegram, history
    <3>7. QED
      BY <3>2, <3>3, <3>4, <3>6 DEF IInv
  <2>4. QED
    BY <1>10, <2>2, <2>3 DEF DrainNext
<1>11. ASSUME NEW b \in Bots, Settle(b) PROVE IInv'
  BY <1>11 DEF IInv, TypeOK, RowsNumbered, CallsAreBound, ResultsAreTrue, NoRowLost,
     Settle, Removed, Blame, Finish, Goto, table, telegram, history, Busy, Result
<1>12. ASSUME NEW b \in Bots, PauseEnds(b) PROVE IInv'
  BY <1>12 DEF IInv, TypeOK, RowsNumbered, CallsAreBound, ResultsAreTrue, NoRowLost,
     PauseEnds, client, table, telegram, history, Busy, Result
<1>13. ASSUME NEW b \in Bots, Crash(b) PROVE IInv'
  <2> DEFINE mine == {c \in Callers : Owner(c) = b}
  <2>1. /\ pc' = [c \in Callers |-> IF c \in mine THEN "idle" ELSE pc[c]]
        /\ arg' = [c \in Callers |-> IF c \in mine THEN None ELSE arg[c]]
        /\ item' = [c \in Callers |-> IF c \in mine THEN 0 ELSE item[c]]
        /\ res' = [c \in Callers |-> IF c \in mine THEN "none" ELSE res[c]]
        /\ batch' = [batch EXCEPT ![b] = {}]
        /\ paused' = [paused EXCEPT ![b] = FALSE]
        /\ crashes' = crashes + 1
        /\ UNCHANGED <<table, telegram, told>>
    BY <1>13 DEF Crash
  <2>2. blamed' \subseteq Msgs
    BY <1>13 DEF Crash, Blame, IInv, TypeOK, CallsAreBound, Busy
  <2> HIDE DEF mine
  <2>3. TypeOK'
    BY <2>1, <2>2 DEF IInv, TypeOK, Result, table, telegram, history
  <2>4. RowsNumbered' /\ NoRowLost'
    BY <2>1 DEF IInv, TypeOK, RowsNumbered, NoRowLost, table, telegram, history
  <2>5. CallsAreBound'
    BY <2>1 DEF IInv, TypeOK, CallsAreBound, Busy, table
  <2>6. ResultsAreTrue'
    BY <2>1 DEF IInv, TypeOK, ResultsAreTrue, telegram, history
  <2>7. QED
    BY <2>3, <2>4, <2>5, <2>6 DEF IInv
<1>14. ASSUME NEW r \in RowIds, BecomeDue(r) PROVE IInv'
  BY <1>14 DEF IInv, TypeOK, RowsNumbered, CallsAreBound, ResultsAreTrue, NoRowLost,
     BecomeDue, client, table, telegram, history, Busy, Result
<1>15. CASE UNCHANGED vars
  BY <1>15 DEF IInv, TypeOK, RowsNumbered, CallsAreBound, ResultsAreTrue, NoRowLost, vars
<1>16. QED
  BY <1>1, <1>2, <1>3, <1>4, <1>5, <1>6, <1>7, <1>8, <1>9, <1>10, <1>11, <1>12, <1>13,
     <1>14, <1>15 DEF Next, ClientStep, DrainStep

\* The outbound path never leaves its types.
THEOREM TypeCorrect == Spec => []TypeOK
<1>1. IInv => TypeOK
  BY DEF IInv
<1>2. QED
  BY <1>1, InitIInv, StepIInv, PTL DEF Spec

\* A row leaves the outbox only delivered, refused for good, or exhausted, for any
\* number of processes, crashes and failed statements.
THEOREM RowsAreNeverLost == Spec => []NoRowLost
<1>1. IInv => NoRowLost
  BY DEF IInv
<1>2. QED
  BY <1>1, InitIInv, StepIInv, PTL DEF Spec

\* The three values the abstract queue gives a row.
Status == [r \in RowIds |-> IF r >= nextId THEN "absent"
                            ELSE IF r \in live THEN "open" ELSE "closed"]
Taken == {m \in Msgs : accepted[m] > 0}

\* A step that leaves the table alone is at most an answer of Telegram.
LEMMA AnsweredRefines ==
  ASSUME NEW c \in Callers, NEW a \in Answer, IInv, pc[c] \in Busy, Answered(c, a),
         UNCHANGED table
  PROVE  [DQ!QNext]_(DQ!qvars)
<1>1. arg[c] \in Msgs
  BY DEF IInv, CallsAreBound
<1>2. Status' = Status
  BY DEF Status, table
<1>3. CASE a \in {"ok", "lost"}
  <2>1. accepted' = [accepted EXCEPT ![arg[c]] = IF @ = 0 THEN 1 ELSE 2]
    BY <1>3 DEF Answered, Accepts
  <2>2. Taken' = Taken \cup {arg[c]}
    BY <1>1, <2>1 DEF Taken, IInv, TypeOK
  <2>3. refused' = refused
    BY <1>3 DEF Answered
  <2>4. DQ!Accept(arg[c])
    BY <1>2, <2>2, <2>3 DEF DQ!Accept, Status, Taken, table
  <2>5. \E m \in Msgs : DQ!Accept(m)
    BY <1>1, <2>1, <2>2, <2>3, <2>4, <1>2 DEF DQ!Accept, Status, Taken, table
  <2>6. QED
    BY <2>5 DEF DQ!QNext
<1>4. CASE a = "refused"
  <2>1. Taken' = Taken /\ refused' = refused \cup {arg[c]}
    BY <1>4 DEF Answered, Taken
  <2>2. DQ!Refuse(arg[c])
    BY <1>2, <2>1 DEF DQ!Refuse, Status, Taken, table
  <2>3. QED
    BY <1>1, <2>2 DEF DQ!QNext
<1>5. CASE a \notin {"ok", "lost", "refused"}
  <2>1. Taken' = Taken /\ refused' = refused
    BY <1>5 DEF Answered, Taken
  <2>2. QED
    BY <1>2, <2>1 DEF DQ!qvars, Status, Taken, table
<1>6. QED
  BY <1>3, <1>4, <1>5

\* Deleting settled rows closes their entries.
LEMMA DeleteRefines ==
  ASSUME NEW S \in SUBSET RowIds, IInv, S \subseteq live, live' = live \ S,
         UNCHANGED <<rowMsg, attempts, nextId, accepted, refused>>,
         \A r \in S : \/ accepted[rowMsg[r]] > 0
                     \/ rowMsg[r] \in refused
                     \/ attempts[r] >= MaxTries
  PROVE  [DQ!QNext]_(DQ!qvars)
<1>1. \A r \in S : r < nextId /\ rowMsg[r] \in Msgs
  BY DEF IInv, RowsNumbered
<1>2. \A r \in S : Status[r] = "open"
  BY <1>1 DEF Status, IInv, TypeOK, RowIds
<1>3. Status' = [r \in RowIds |-> IF r \in S THEN "closed" ELSE Status[r]]
  BY <1>1 DEF Status, IInv, TypeOK, RowIds
<1>4. Taken' = Taken
  BY DEF Taken
<1>5. \A r \in S : rowMsg[r] \in Taken \cup refused \/ attempts[r] >= MaxTries
  BY <1>1 DEF Taken
<1>6. DQ!Close(S)
  BY <1>2, <1>3, <1>4, <1>5 DEF DQ!Close, DQ!Settled, Status, Taken
<1>7. QED
  BY <1>6 DEF DQ!QNext

LEMMA InsertRefines ==
  ASSUME NEW m \in Msgs, IInv, InsertRow(m), UNCHANGED <<accepted, refused>>
  PROVE  [DQ!QNext]_(DQ!qvars)
<1>1. nextId \in RowIds
  BY DEF InsertRow, IInv, TypeOK, RowIds
<1>2. nextId \notin live /\ Status[nextId] = "absent"
  BY <1>1 DEF IInv, TypeOK, RowsNumbered, Status
<1>3. Status' = [Status EXCEPT ![nextId] = "open"]
  <2>1. \A r \in RowIds : r # nextId => (r >= nextId' <=> r >= nextId)
                                      /\ (r \in live' <=> r \in live)
    BY <1>1 DEF InsertRow, RowIds
  <2>2. ~(nextId >= nextId') /\ nextId \in live'
    BY <1>1 DEF InsertRow, RowIds
  <2>3. QED
    BY <1>1, <2>1, <2>2 DEF Status
<1>4. Taken' = Taken
  BY DEF Taken
<1>5. DQ!Open(nextId, m)
  BY <1>2, <1>3, <1>4 DEF DQ!Open, InsertRow, Status, Taken
<1>6. QED
  BY <1>1, <1>5 DEF DQ!QNext

\* A claim charges an attempt to rows that are in the table.
LEMMA ClaimRefines ==
  ASSUME NEW C \in SUBSET RowIds, IInv, C \subseteq live, attempts' = Charged(C),
         UNCHANGED <<live, rowMsg, nextId, accepted, refused>>
  PROVE  [DQ!QNext]_(DQ!qvars)
<1>1. \A r \in C : Status[r] = "open"
  BY DEF Status, IInv, TypeOK, RowsNumbered, RowIds
<1>2. /\ attempts' \in [RowIds -> Nat]
      /\ \A r \in RowIds : IF r \in C THEN attempts'[r] >= attempts[r]
                                       ELSE attempts'[r] = attempts[r]
  BY DEF Charged, IInv, TypeOK
<1>3. Status' = Status /\ Taken' = Taken
  BY DEF Status, Taken
<1>4. DQ!Attempt(C)
  BY <1>1, <1>2, <1>3 DEF DQ!Attempt, Status, Taken
<1>5. QED
  BY <1>4 DEF DQ!QNext

\* A step that touches neither the table nor Telegram is invisible.
LEMMA StutterRefines ==
  ASSUME UNCHANGED <<live, rowMsg, attempts, nextId, accepted, refused>>
  PROVE  [DQ!QNext]_(DQ!qvars)
BY DEF DQ!qvars

LEMMA StepRefines == IInv /\ [Next]_vars => [DQ!QNext]_(DQ!qvars)
<1> SUFFICES ASSUME IInv, [Next]_vars PROVE [DQ!QNext]_(DQ!qvars)
  OBVIOUS
<1> USE CallerFacts
<1>1. ASSUME NEW t \in Threads, NEW m \in Msgs, Send(t, m) PROVE [DQ!QNext]_(DQ!qvars)
  BY <1>1, StutterRefines DEF Send, table, telegram
<1>2. ASSUME NEW t \in Threads, Return(t) PROVE [DQ!QNext]_(DQ!qvars)
  BY <1>2, StutterRefines DEF Return, table, telegram
<1>3. ASSUME NEW c \in Callers, CheckPause(c) PROVE [DQ!QNext]_(DQ!qvars)
  BY <1>3, StutterRefines DEF CheckPause, table, telegram
<1>4. ASSUME NEW c \in Callers, Request(c) PROVE [DQ!QNext]_(DQ!qvars)
  BY <1>4, AnsweredRefines DEF Request, Busy
<1>5. ASSUME NEW c \in Callers, InlineRetry(c) PROVE [DQ!QNext]_(DQ!qvars)
  BY <1>5, AnsweredRefines DEF InlineRetry, Busy
<1>6. ASSUME NEW c \in Callers, Enqueue(c) PROVE [DQ!QNext]_(DQ!qvars)
  <2>1. arg[c] \in Msgs /\ UNCHANGED <<accepted, refused>>
    BY <1>6 DEF Enqueue, IInv, CallsAreBound, Busy, telegram
  <2>2. CASE InsertRow(arg[c])
    BY <2>1, <2>2, InsertRefines
  <2>3. CASE UNCHANGED table
    BY <2>1, <2>3, StutterRefines DEF table
  <2>4. QED
    BY <1>6, <2>2, <2>3 DEF Enqueue
<1>7. ASSUME NEW b \in Bots, DrainTick(b) PROVE [DQ!QNext]_(DQ!qvars)
  BY <1>7, StutterRefines DEF DrainTick, table, telegram
<1>8. ASSUME NEW b \in Bots, DropExhausted(b) PROVE [DQ!QNext]_(DQ!qvars)
  <2>1. UNCHANGED <<rowMsg, attempts, nextId, accepted, refused>>
    BY <1>8 DEF DropExhausted, telegram
  <2>2. CASE live' = live \ Exhausted
    <3>1. /\ Exhausted \in SUBSET RowIds /\ Exhausted \subseteq live
          /\ \A r \in Exhausted : attempts[r] >= MaxTries
      BY DEF Exhausted, IInv, TypeOK
    <3>2. QED
      BY <2>1, <2>2, <3>1, DeleteRefines
  <2>3. CASE UNCHANGED live
    BY <2>1, <2>3, StutterRefines
  <2>4. QED
    BY <1>8, <2>2, <2>3 DEF DropExhausted
<1>9. ASSUME NEW b \in Bots, ClaimDue(b) PROVE [DQ!QNext]_(DQ!qvars)
  <2>1. UNCHANGED <<live, rowMsg, nextId, accepted, refused>>
    BY <1>9 DEF ClaimDue, telegram
  <2>2. CASE attempts' = Charged(DueRows(Batch))
    <3>1. DueRows(Batch) \subseteq live
      BY DEF DueRows
    <3>2. QED
      BY <2>1, <2>2, <3>1, ClaimRefines DEF IInv, TypeOK
  <2>3. CASE UNCHANGED attempts
    BY <2>1, <2>3, StutterRefines
  <2>4. QED
    BY <1>9, <2>2, <2>3 DEF ClaimDue
<1>10. ASSUME NEW b \in Bots, DrainNext(b) PROVE [DQ!QNext]_(DQ!qvars)
  BY <1>10, StutterRefines DEF DrainNext, table, telegram
<1>11. ASSUME NEW b \in Bots, Settle(b) PROVE [DQ!QNext]_(DQ!qvars)
  <2>1. UNCHANGED <<rowMsg, attempts, nextId, accepted, refused>>
    BY <1>11 DEF Settle, telegram
  <2>2. CASE UNCHANGED live
    BY <2>1, <2>2, StutterRefines
  <2>3. CASE Removed(res[b]) /\ live' = live \ {item[b]}
    <3>1. item[b] \in RowIds /\ arg[b] = rowMsg[item[b]]
      BY <1>11 DEF Settle, IInv, CallsAreBound, Busy
    <3>2. accepted[rowMsg[item[b]]] > 0 \/ rowMsg[item[b]] \in refused
      BY <2>3, <3>1 DEF Removed, IInv, ResultsAreTrue
    <3> DEFINE S == live \cap {item[b]}
    <3>3. /\ S \in SUBSET RowIds /\ S \subseteq live /\ live' = live \ S
          /\ \A r \in S : accepted[rowMsg[r]] > 0 \/ rowMsg[r] \in refused
      BY <2>3, <3>1, <3>2
    <3> HIDE DEF S
    <3>4. QED
      BY <2>1, <3>3, DeleteRefines
  <2>4. QED
    BY <1>11, <2>2, <2>3 DEF Settle
<1>12. ASSUME NEW b \in Bots, PauseEnds(b) PROVE [DQ!QNext]_(DQ!qvars)
  BY <1>12, StutterRefines DEF PauseEnds, table, telegram
<1>13. ASSUME NEW b \in Bots, Crash(b) PROVE [DQ!QNext]_(DQ!qvars)
  BY <1>13, StutterRefines DEF Crash, table, telegram
<1>14. ASSUME NEW r \in RowIds, BecomeDue(r) PROVE [DQ!QNext]_(DQ!qvars)
  BY <1>14, StutterRefines DEF BecomeDue, telegram
<1>15. CASE UNCHANGED vars
  BY <1>15, StutterRefines DEF vars
<1>16. QED
  BY <1>1, <1>2, <1>3, <1>4, <1>5, <1>6, <1>7, <1>8, <1>9, <1>10, <1>11, <1>12, <1>13,
     <1>14, <1>15 DEF Next, ClientStep, DrainStep

LEMMA InitRefines == Init => DQ!QInit
<1> SUFFICES ASSUME Init PROVE DQ!QInit
  OBVIOUS
<1>1. \A r \in RowIds : r >= nextId
  BY OutboxAssumption DEF Init, RowIds
<1>2. QED
  BY <1>1 DEF Init, DQ!QInit

\* The outbox, with its drain loops, deploy overlaps, pauses and crashes, implements
\* the queue that closes an entry only when it is settled.
THEOREM OutboxImplementsDurableQueue == Spec => ImplementsDurableQueue
<1>1. QED
  BY InitRefines, InitIInv, StepIInv, StepRefines, PTL
     DEF Spec, ImplementsDurableQueue, DQ!QSpec

-----------------------------------------------------------------------------
\* The sends a row was ever inserted for.
Queued == {m \in Msgs : RowsOf(m) # {}}

\* A thread's send is its own, and told so while it is under way.
OwnSends ==
  /\ \A t \in Threads : pc[t] \in Busy => told[arg[t]] = "sending"
  /\ \A t, u \in Threads : pc[t] \in Busy /\ pc[u] \in Busy /\ arg[t] = arg[u] => t = u
  /\ \A m \in Queued : told[m] # "none"

\* The row of a send is inserted at the end of a failed one and at no other point.
QueuedInTurn ==
  /\ \A t \in Threads : pc[t] \in {"retry", "queue"} => res[t] = "retryable"
  /\ \A t \in Threads : pc[t] \in {"check", "send", "retry", "queue"} => arg[t] \notin Queued
  /\ \A t \in Threads : pc[t] = "done" => res[t] # "none"
  /\ \A t \in Threads : pc[t] = "done" /\ res[t] = "ok" => arg[t] \notin Queued
  /\ \A t \in Threads : pc[t] = "done" /\ res[t] = "retryable" /\ arg[t] \in Queueable =>
                          arg[t] \in Queued \cup lapsed
  /\ \A m \in Msgs : told[m] = "ok" => m \notin Queued
  /\ \A m \in Queueable : told[m] = "retryable" => m \in Queued \cup lapsed

SInv == IInv /\ OwnSends /\ QueuedInTurn

LEMMA QueuedStays == ASSUME UNCHANGED <<rowMsg, nextId>> PROVE Queued' = Queued
BY DEF Queued, RowsOf

LEMMA QueuedGrows ==
  ASSUME IInv, NEW m \in Msgs, InsertRow(m)
  PROVE  Queued' = Queued \cup {m}
<1>1. nextId \in RowIds
  BY DEF InsertRow, IInv, TypeOK, RowIds
<1>2. \A r \in RowIds : r < nextId' <=> r < nextId \/ r = nextId
  BY DEF InsertRow, IInv, TypeOK, RowIds
<1>3. rowMsg'[nextId] = m /\ \A r \in RowIds : r < nextId => rowMsg'[r] = rowMsg[r]
  BY <1>1 DEF InsertRow, IInv, TypeOK, RowIds
<1>4. \A n \in Msgs : n \in Queued' <=> \E r \in RowIds : r < nextId' /\ rowMsg'[r] = n
  BY DEF Queued, RowsOf
<1>5. \A n \in Msgs : n \in Queued <=> \E r \in RowIds : r < nextId /\ rowMsg[r] = n
  BY DEF Queued, RowsOf
<1>6. \A n \in Msgs : n \in Queued' <=> n \in Queued \/ n = m
  BY <1>1, <1>2, <1>3, <1>4, <1>5
<1>7. Queued \subseteq Msgs /\ Queued' \subseteq Msgs
  BY DEF Queued
<1> QED
  BY <1>6, <1>7

\* The send of a drain loop has a row.
LEMMA LoopsSendQueued == IInv => \A b \in Bots : pc[b] \in Busy => arg[b] \in Queued
BY CallerFacts DEF IInv, CallsAreBound, Queued, RowsOf

\* A caller goes on with the result of an answer.
LEMMA AnsweredSends ==
  ASSUME SInv, NEW c \in Callers, NEW l \in {"retry", "queue", "done"}, NEW r \in Result \ {"none"},
         pc[c] \in {"send", "retry"}, Finish(c, l, r),
         l \in {"retry", "queue"} => r = "retryable",
         lapsed \subseteq lapsed',
         l = "done" /\ r = "retryable" => arg[c] \in lapsed',
         UNCHANGED <<table, arg, told>>
  PROVE  OwnSends' /\ QueuedInTurn'
<1> USE CallerFacts
<1>1. Queued' = Queued
  BY QueuedStays DEF table
<1>2. /\ pc' = [pc EXCEPT ![c] = l] /\ res' = [res EXCEPT ![c] = r]
      /\ pc \in [Callers -> {"idle", "check", "send", "retry", "queue", "done",
                             "drop", "claim", "next"}]
      /\ res \in [Callers -> Result]
  BY DEF Finish, Goto, SInv, IInv, TypeOK
<1>3. OwnSends'
  BY <1>1, <1>2 DEF SInv, OwnSends, Busy
<1>4. QueuedInTurn'
  BY <1>1, <1>2 DEF SInv, QueuedInTurn
<1> QED
  BY <1>3, <1>4

LEMMA SendsStep == SInv /\ [Next]_vars => OwnSends' /\ QueuedInTurn'
<1> SUFFICES ASSUME SInv, [Next]_vars PROVE OwnSends' /\ QueuedInTurn'
  OBVIOUS
<1> USE OutboxAssumption, CallerFacts
<1>0. IInv
  BY DEF SInv
<1>1. ASSUME NEW t \in Threads, NEW m \in Msgs, Send(t, m) PROVE OwnSends' /\ QueuedInTurn'
  <2>1. Queued' = Queued
    BY <1>1, QueuedStays DEF Send, table
  <2>2. /\ pc' = [pc EXCEPT ![t] = "check"] /\ arg' = [arg EXCEPT ![t] = m]
        /\ told' = [told EXCEPT ![m] = "sending"] /\ UNCHANGED <<res, lapsed>>
        /\ pc[t] = "idle" /\ told[m] = "none"
    BY <1>1 DEF Send, Goto
  <2>3. OwnSends'
    BY <1>0, <2>1, <2>2 DEF SInv, OwnSends, Busy, IInv, TypeOK, CallsAreBound
  <2>4. QueuedInTurn'
    BY <1>0, <2>1, <2>2 DEF SInv, OwnSends, QueuedInTurn, IInv, TypeOK
  <2> QED
    BY <2>3, <2>4
<1>2. ASSUME NEW t \in Threads, Return(t) PROVE OwnSends' /\ QueuedInTurn'
  <2>1. Queued' = Queued
    BY <1>2, QueuedStays DEF Return, table
  <2>2. /\ pc' = [pc EXCEPT ![t] = "idle"] /\ arg' = [arg EXCEPT ![t] = None]
        /\ told' = [told EXCEPT ![arg[t]] = res[t]] /\ res' = [res EXCEPT ![t] = "none"]
        /\ pc[t] = "done" /\ lapsed' = lapsed
    BY <1>2 DEF Return, Finish, Goto
  <2>3. arg[t] \in Msgs /\ res[t] \in Result
    BY <1>0, <2>2 DEF IInv, TypeOK, CallsAreBound, Busy
  <2>4. res[t] # "none"
    BY <1>0, <2>2 DEF SInv, QueuedInTurn
  <2>5. OwnSends'
    BY <1>0, <2>1, <2>2, <2>3, <2>4 DEF SInv, OwnSends, Busy, IInv, TypeOK, CallsAreBound
  <2>6. QueuedInTurn'
    BY <1>0, <2>1, <2>2, <2>3 DEF SInv, OwnSends, QueuedInTurn, IInv, TypeOK, Busy
  <2> QED
    BY <2>5, <2>6
<1>3. ASSUME NEW c \in Callers, CheckPause(c) PROVE OwnSends' /\ QueuedInTurn'
  <2>1. Queued' = Queued
    BY <1>3, QueuedStays DEF CheckPause, table
  <2> QED
    BY <1>0, <1>3, <2>1 DEF SInv, OwnSends, QueuedInTurn, Busy, CheckPause, Finish, Goto, IInv,
       TypeOK, history
<1>4. ASSUME NEW c \in Callers, Request(c) PROVE OwnSends' /\ QueuedInTurn'
  <2>1. PICK a \in Env \cap Answer : Finish(c, AfterRequest(a), ResultOf(a))
    BY <1>4 DEF Request
  <2>2. /\ AfterRequest(a) \in {"retry", "queue", "done"} /\ ResultOf(a) \in Result \ {"none"}
        /\ AfterRequest(a) \in {"retry", "queue"} => ResultOf(a) = "retryable"
        /\ AfterRequest(a) = "done" => ResultOf(a) # "retryable"
    BY DEF AfterRequest, Answer, ResultOf, Result
  <2>3. pc[c] = "send" /\ UNCHANGED <<table, arg, told, lapsed>>
    BY <1>4 DEF Request
  <2> QED
    BY <2>1, <2>2, <2>3, AnsweredSends
<1>5. ASSUME NEW c \in Callers, InlineRetry(c) PROVE OwnSends' /\ QueuedInTurn'
  <2>1. PICK a \in Env \cap Answer :
          /\ Finish(c, "done", ResultOf(a))
          /\ IF ResultOf(a) = "retryable" THEN Lapse(arg[c]) ELSE UNCHANGED lapsed
    BY <1>5 DEF InlineRetry
  <2>2. ResultOf(a) \in Result \ {"none"}
    BY DEF Answer, ResultOf, Result
  <2>3. /\ lapsed \subseteq lapsed'
        /\ ResultOf(a) = "retryable" => arg[c] \in lapsed'
    BY <2>1 DEF Lapse
  <2>4. pc[c] = "retry" /\ UNCHANGED <<table, arg, told>>
    BY <1>5 DEF InlineRetry
  <2> QED
    BY <2>1, <2>2, <2>3, <2>4, AnsweredSends
<1>6. ASSUME NEW c \in Callers, Enqueue(c) PROVE OwnSends' /\ QueuedInTurn'
  <2>1. /\ pc[c] = "queue" /\ arg[c] \in Msgs
        /\ pc' = [pc EXCEPT ![c] = "done"]
        /\ UNCHANGED <<arg, item, res, batch, paused, crashes, telegram, told>>
    BY <1>0, <1>6 DEF Enqueue, Goto, IInv, CallsAreBound, Busy
  <2>2. CASE InsertRow(arg[c]) /\ UNCHANGED lapsed
    <3>1. Queued' = Queued \cup {arg[c]}
      BY <1>0, <2>1, <2>2, QueuedGrows
    <3>2. c \in Bots => Queued' = Queued
      BY <1>0, <2>1, <3>1, LoopsSendQueued DEF Busy
    <3>3. c \in Threads => told[arg[c]] = "sending" /\ res[c] = "retryable"
      BY <2>1 DEF SInv, OwnSends, QueuedInTurn, Busy
    <3>4. OwnSends'
      BY <1>0, <2>1, <3>1, <3>2, <3>3 DEF SInv, OwnSends, Busy, IInv, TypeOK
    <3>5. CASE c \in Bots
      BY <1>0, <2>1, <2>2, <3>2, <3>4, <3>5 DEF SInv, QueuedInTurn, IInv, TypeOK
    <3>6. CASE c \in Threads
      <4>1. \A t \in Threads \ {c} : pc[t] \in Busy => arg[t] # arg[c]
        BY <2>1, <3>6 DEF SInv, OwnSends, Busy
      <4>2. \A t \in Threads \ {c} : pc'[t] = pc[t]
        BY <1>0, <2>1 DEF IInv, TypeOK
      <4>3. pc'[c] = "done"
        BY <1>0, <2>1 DEF IInv, TypeOK
      <4> QED
        BY <2>1, <2>2, <3>1, <3>3, <3>4, <3>6, <4>1, <4>2, <4>3 DEF SInv, QueuedInTurn, Busy
    <3> QED
      BY <3>4, <3>5, <3>6
  <2>3. CASE Lapse(arg[c]) /\ UNCHANGED table
    <3>1. Queued' = Queued
      BY <2>3, QueuedStays DEF table
    <3> QED
      BY <1>0, <2>1, <2>3, <3>1 DEF Lapse, SInv, OwnSends, QueuedInTurn, Busy, IInv, TypeOK
  <2> QED
    BY <1>6, <2>2, <2>3 DEF Enqueue
<1>7. ASSUME NEW b \in Bots, DrainTick(b) \/ DropExhausted(b) \/ ClaimDue(b) \/ DrainNext(b)
                              \/ Settle(b) \/ PauseEnds(b)
      PROVE  OwnSends' /\ QueuedInTurn'
  <2>1. UNCHANGED <<rowMsg, nextId, told, lapsed>>
    BY <1>7 DEF DrainTick, DropExhausted, ClaimDue, DrainNext, Settle, PauseEnds, table, history
  <2>2. Queued' = Queued
    BY <2>1, QueuedStays
  <2>3. \A t \in Threads : pc'[t] = pc[t] /\ arg'[t] = arg[t] /\ res'[t] = res[t]
    BY <1>0, <1>7 DEF DrainTick, DropExhausted, ClaimDue, DrainNext, Settle, PauseEnds, Finish,
       Goto, client, IInv, TypeOK
  <2> QED
    BY <2>1, <2>2, <2>3 DEF SInv, OwnSends, QueuedInTurn
<1>8. ASSUME NEW b \in Bots, Crash(b) PROVE OwnSends' /\ QueuedInTurn'
  <2>1. Queued' = Queued
    BY <1>8, QueuedStays DEF Crash, table
  <2>2. \A t \in Threads : \/ pc'[t] = "idle"
                           \/ pc'[t] = pc[t] /\ arg'[t] = arg[t] /\ res'[t] = res[t]
    BY <1>8 DEF Crash
  <2>3. UNCHANGED <<told, lapsed>>
    BY <1>8 DEF Crash
  <2> QED
    BY <2>1, <2>2, <2>3 DEF SInv, OwnSends, QueuedInTurn, Busy
<1>9. ASSUME NEW r \in RowIds, BecomeDue(r) PROVE OwnSends' /\ QueuedInTurn'
  <2>1. Queued' = Queued
    BY <1>9, QueuedStays DEF BecomeDue
  <2> QED
    BY <1>9, <2>1 DEF BecomeDue, client, history, SInv, OwnSends, QueuedInTurn
<1>10. CASE UNCHANGED vars
  <2>1. Queued' = Queued
    BY <1>10, QueuedStays DEF vars
  <2> QED
    BY <1>10, <2>1 DEF vars, SInv, OwnSends, QueuedInTurn
<1> QED
  BY <1>1, <1>2, <1>3, <1>4, <1>5, <1>6, <1>7, <1>8, <1>9, <1>10 DEF Next, ClientStep, DrainStep

LEMMA InitSends == Init => SInv
<1> SUFFICES ASSUME Init PROVE SInv
  OBVIOUS
<1>1. Queued = {}
  BY OutboxAssumption DEF Init, Queued, RowsOf, RowIds
<1>2. (\A t \in Threads : pc[t] = "idle") /\ \A m \in Msgs : told[m] = "none"
  BY CallerFacts DEF Init
<1>3. OwnSends
  BY <1>1, <1>2 DEF OwnSends, Busy
<1>4. QueuedInTurn
  BY <1>1, <1>2, OutboxAssumption DEF QueuedInTurn
<1> QED
  BY <1>3, <1>4, InitIInv DEF SInv

\* What a thread was told went out is never queued, for any number of processes.
THEOREM SentStaysOut == Spec => []SentIsNotQueued
<1>1. SInv => SentIsNotQueued
  BY DEF SInv, QueuedInTurn, Queued, SentIsNotQueued
<1> QED
  BY <1>1, InitSends, SendsStep, StepIInv, PTL DEF Spec, SInv

\* What failed is in the table unless its INSERT or its inline retry failed, for any
\* number of processes and crashes.
THEOREM FailedSendIsKept == Spec => []FailedSendIsQueued
<1>1. SInv => FailedSendIsQueued
  BY OutboxAssumption DEF SInv, QueuedInTurn, Queued, FailedSendIsQueued
<1> QED
  BY <1>1, InitSends, SendsStep, StepIInv, PTL DEF Spec, SInv

-----------------------------------------------------------------------------
\* Where a caller is before its request is known to have come to an end.
Working == {"check", "send", "retry", "queue"}

\* Why a send nothing happened to is accepted only once: it has one row, that row is in
\* one hand, and once accepted nobody is about to send it again.
OneRow ==
  \A r, q \in RowIds : r < nextId /\ q < nextId /\ rowMsg[r] = rowMsg[q]
                         /\ rowMsg[r] \notin blamed => r = q

OneHand ==
  /\ \A b, o \in Bots, r \in RowIds :
        r \in InHand(b) /\ r \in InHand(o) /\ rowMsg[r] \notin blamed => b = o
  /\ \A b \in Bots : pc[b] \in Busy => item[b] \notin batch[b]
  /\ \A b \in Bots : pc[b] \in {"idle", "drop", "claim"} => batch[b] = {}

Settled(m) ==
  /\ \A c \in Callers : pc[c] \in Working => arg[c] # m
  /\ \A b \in Bots : \A r \in batch[b] : rowMsg[r] # m
  /\ \A r \in live : rowMsg[r] = m =>
        \E b \in Bots : pc[b] = "done" /\ item[b] = r /\ res[b] = "ok"

OneCopy ==
  \A m \in Msgs \ blamed :
    /\ accepted[m] <= 1
    /\ told[m] = "none" => accepted[m] = 0
    /\ accepted[m] > 0 => Settled(m)

DInv == SInv /\ OneRow /\ OneHand /\ OneCopy

LEMMA RowsAreQueued == IInv => \A r \in RowIds : r < nextId => rowMsg[r] \in Queued
BY DEF IInv, RowsNumbered, Queued, RowsOf

\* Nobody else has anything to do with the send of a caller at work.
LEMMA AloneWithIt ==
  ASSUME DInv, NEW c \in Callers, pc[c] \in Working, arg[c] \notin blamed
  PROVE  /\ \A d \in Callers \ {c} : pc[d] \in Working => arg[d] # arg[c]
         /\ \A b \in Bots : \A r \in batch[b] : rowMsg[r] # arg[c]
         /\ \A r \in live : rowMsg[r] = arg[c] => c \in Bots /\ item[c] = r
<1> USE CallerFacts
<1>1. /\ IInv /\ Working \subseteq Busy
      /\ \A b \in Bots : pc[b] \in Busy => arg[b] \in Queued
      /\ \A r \in RowIds : r < nextId => rowMsg[r] \in Queued
      /\ \A r \in live : r \in RowIds /\ r < nextId
      /\ \A b \in Bots : \A r \in batch[b] : r \in RowIds /\ r < nextId
  BY LoopsSendQueued, RowsAreQueued DEF DInv, SInv, Working, Busy, IInv, TypeOK, RowsNumbered
<1>2. \A t \in Threads : pc[t] \in Working => arg[t] \notin Queued
  BY DEF DInv, SInv, QueuedInTurn, Working
<1>3. CASE c \in Threads
  <2>1. arg[c] \notin Queued
    BY <1>2, <1>3
  <2>2. \A t \in Threads \ {c} : pc[t] \in Busy => arg[t] # arg[c]
    BY <1>1, <1>3 DEF DInv, SInv, OwnSends
  <2> QED
    BY <1>1, <2>1, <2>2
<1>4. CASE c \in Bots
  <2>1. /\ item[c] \in RowIds /\ item[c] < nextId /\ arg[c] = rowMsg[item[c]]
        /\ arg[c] \in Queued /\ item[c] \notin batch[c] /\ item[c] \in InHand(c)
    BY <1>1, <1>4 DEF IInv, CallsAreBound, DInv, OneHand, InHand, Busy
  <2>2. \A r \in RowIds : r < nextId /\ rowMsg[r] = arg[c] => r = item[c]
    BY <2>1 DEF DInv, OneRow
  <2>3. \A b \in Bots : item[c] \in InHand(b) => b = c
    BY <1>4, <2>1 DEF DInv, OneHand
  <2>4. ASSUME NEW d \in Bots \ {c}, pc[d] \in Working PROVE arg[d] # arg[c]
    <3>1. item[d] \in InHand(d) /\ arg[d] = rowMsg[item[d]] /\ item[d] \in RowIds
          /\ item[d] < nextId
      BY <1>1, <2>4 DEF IInv, CallsAreBound, InHand, Busy
    <3> QED
      BY <2>2, <2>3, <3>1
  <2>5. ASSUME NEW b \in Bots, NEW r \in batch[b] PROVE rowMsg[r] # arg[c]
    BY <1>1, <2>1, <2>2, <2>3 DEF InHand
  <2> QED
    BY <1>1, <1>2, <1>4, <2>1, <2>2, <2>4, <2>5
<1> QED
  BY <1>3, <1>4

\* An answer, from the first request or the inline retry.
LEMMA AnsweredOnce ==
  ASSUME DInv, NEW c \in Callers, NEW a \in Answer, NEW l \in {"retry", "queue", "done"},
         pc[c] \in {"send", "retry"}, Answered(c, a), Finish(c, l, ResultOf(a)),
         a = "ok" => l = "done",
         UNCHANGED <<table, arg, item, batch, told>>
  PROVE  OneRow' /\ OneHand' /\ OneCopy'
<1> USE CallerFacts
<1>1. /\ pc' = [pc EXCEPT ![c] = l] /\ res' = [res EXCEPT ![c] = ResultOf(a)]
      /\ pc \in [Callers -> {"idle", "check", "send", "retry", "queue", "done",
                             "drop", "claim", "next"}]
      /\ res \in [Callers -> Result]
      /\ UNCHANGED <<live, rowMsg, nextId, arg, item, batch, told>>
      /\ accepted \in [Msgs -> 0..2]
      /\ arg[c] \in Msgs
  BY DEF Finish, Goto, DInv, SInv, IInv, TypeOK, table, CallsAreBound, Busy
<1>2. blamed \subseteq blamed'
  BY DEF Answered, Blame
<1>3. \A b \in Bots : InHand(b)' = InHand(b)
  BY <1>1 DEF InHand
<1>4. OneRow'
  BY <1>1, <1>2 DEF DInv, OneRow
<1>5. OneHand'
  BY <1>1, <1>2, <1>3 DEF DInv, OneHand, Busy
<1>6. ASSUME NEW m \in Msgs \ blamed', ~(m = arg[c] /\ a = "ok"),
             accepted[m] > 0
      PROVE  Settled(m)'
  <2>1. Settled(m)
    BY <1>2, <1>6 DEF DInv, OneCopy
  <2>2. \A d \in Callers : pc'[d] \in Working => pc[d] \in Working
    BY <1>1 DEF Working
  <2>3. \A d \in Callers : pc[d] = "done" => pc'[d] = "done" /\ res'[d] = res[d]
    BY <1>1
  <2> QED
    BY <1>1, <2>1, <2>2, <2>3 DEF Settled
<1>7. ASSUME NEW m \in Msgs \ blamed', ~(m = arg[c] /\ a = "ok")
      PROVE  accepted'[m] = accepted[m]
  BY <1>1, <1>7 DEF Answered, Accepts, Blame
<1>8. ASSUME arg[c] \notin blamed', a = "ok"
      PROVE  accepted'[arg[c]] = 1 /\ Settled(arg[c])' /\ told[arg[c]] # "none"
  <2>1. pc[c] \in Working /\ pc[c] \in Busy /\ arg[c] \notin blamed
    BY <1>2, <1>8 DEF Working, Busy
  <2>2. accepted[arg[c]] = 0
    BY <1>1, <2>1 DEF DInv, OneCopy, Settled
  <2>3. accepted'[arg[c]] = 1
    BY <1>1, <1>8, <2>2 DEF Answered, Accepts
  <2>4. pc'[c] = "done" /\ res'[c] = "ok" /\ \A d \in Callers \ {c} : pc'[d] = pc[d]
    BY <1>1, <1>8 DEF ResultOf
  <2>5. /\ \A d \in Callers \ {c} : pc[d] \in Working => arg[d] # arg[c]
        /\ \A b \in Bots : \A r \in batch[b] : rowMsg[r] # arg[c]
        /\ \A r \in live : rowMsg[r] = arg[c] => c \in Bots /\ item[c] = r
    BY <2>1, AloneWithIt
  <2>6. Settled(arg[c])'
    BY <1>1, <2>4, <2>5 DEF Settled, Working
  <2>7. told[arg[c]] # "none"
    BY <2>1, LoopsSendQueued DEF DInv, SInv, OwnSends
  <2> QED
    BY <2>3, <2>6, <2>7
<1>9. OneCopy'
  <2> SUFFICES ASSUME NEW m \in Msgs \ blamed'
               PROVE  /\ accepted'[m] <= 1
                      /\ told'[m] = "none" => accepted'[m] = 0
                      /\ accepted'[m] > 0 => Settled(m)'
    BY DEF OneCopy
  <2>1. CASE m = arg[c] /\ a = "ok"
    BY <1>1, <1>8, <2>1
  <2>2. CASE ~(m = arg[c] /\ a = "ok")
    BY <1>1, <1>2, <1>6, <1>7, <2>2 DEF DInv, OneCopy
  <2> QED
    BY <2>1, <2>2
<1> QED
  BY <1>4, <1>5, <1>9

\* A step after which nobody is at work, has a row in hand or finds one in the table that
\* was not so before.
LEMMA NothingNew ==
  ASSUME DInv, UNCHANGED <<rowMsg, nextId, accepted>>, blamed \subseteq blamed',
         live' \subseteq live,
         \A b \in Bots : InHand(b)' \subseteq InHand(b) /\ batch'[b] \subseteq batch[b],
         \A b \in Bots : pc'[b] \in Busy => item'[b] \notin batch'[b],
         \A b \in Bots : pc'[b] \in {"idle", "drop", "claim"} => batch'[b] = {},
         \A c \in Callers : pc'[c] \in Working => pc[c] \in Working /\ arg'[c] = arg[c],
         \A b \in Bots : pc[b] = "done" /\ res[b] = "ok" /\ item[b] \in live'
                            /\ rowMsg[item[b]] \notin blamed' =>
                           pc'[b] = "done" /\ res'[b] = "ok" /\ item'[b] = item[b],
         \A m \in Msgs : told'[m] = "none" => told[m] = "none"
  PROVE  OneRow' /\ OneHand' /\ OneCopy'
<1>1. OneRow'
  BY DEF DInv, OneRow
<1>2. OneHand'
  BY DEF DInv, OneHand
<1>3. ASSUME NEW m \in Msgs \ blamed', accepted[m] > 0 PROVE Settled(m)'
  <2>1. Settled(m)
    BY <1>3 DEF DInv, OneCopy
  <2> QED
    BY <1>3, <2>1 DEF Settled
<1>4. OneCopy'
  BY <1>3 DEF DInv, OneCopy
<1> QED
  BY <1>1, <1>2, <1>4

LEMMA CopiesStep == DInv /\ SInv' /\ [Next]_vars => OneRow' /\ OneHand' /\ OneCopy'
<1> SUFFICES ASSUME DInv, [Next]_vars PROVE OneRow' /\ OneHand' /\ OneCopy'
  OBVIOUS
<1> USE CallerFacts
<1>0. IInv /\ TypeOK
  BY DEF DInv, SInv, IInv
<1>1. ASSUME NEW t \in Threads, NEW m \in Msgs, Send(t, m)
      PROVE  OneRow' /\ OneHand' /\ OneCopy'
  <2>1. /\ pc' = [pc EXCEPT ![t] = "check"] /\ arg' = [arg EXCEPT ![t] = m]
        /\ told' = [told EXCEPT ![m] = "sending"]
        /\ UNCHANGED <<live, rowMsg, nextId, item, res, batch, accepted, blamed>>
        /\ pc[t] = "idle" /\ told[m] = "none"
    BY <1>1 DEF Send, Goto, table, telegram
  <2>2. \A b \in Bots : pc'[b] = pc[b] /\ InHand(b)' = InHand(b)
    BY <1>0, <2>1 DEF TypeOK, InHand
  <2>3. OneRow' /\ OneHand'
    BY <2>1, <2>2 DEF DInv, OneRow, OneHand
  <2>4. m \notin blamed => accepted[m] = 0
    BY <2>1 DEF DInv, OneCopy
  <2>5. ASSUME NEW n \in Msgs \ blamed', accepted[n] > 0 PROVE Settled(n)'
    <3>1. Settled(n) /\ n # m
      BY <2>1, <2>4, <2>5 DEF DInv, OneCopy
    <3> QED
      BY <1>0, <2>1, <2>2, <3>1 DEF Settled, TypeOK, Working
  <2>6. OneCopy'
    BY <1>0, <2>1, <2>5 DEF DInv, OneCopy, TypeOK
  <2> QED
    BY <2>3, <2>6
<1>2. ASSUME NEW t \in Threads, Return(t) PROVE OneRow' /\ OneHand' /\ OneCopy'
  <2>1. /\ pc' = [pc EXCEPT ![t] = "idle"] /\ arg' = [arg EXCEPT ![t] = None]
        /\ told' = [told EXCEPT ![arg[t]] = res[t]] /\ res' = [res EXCEPT ![t] = "none"]
        /\ UNCHANGED <<live, rowMsg, nextId, item, batch, accepted, blamed>>
        /\ pc[t] = "done"
    BY <1>2 DEF Return, Finish, Goto, table, telegram
  <2>2. told[arg[t]] = "sending" /\ arg[t] \in Msgs /\ res[t] # "none"
    BY <2>1 DEF DInv, SInv, OwnSends, QueuedInTurn, IInv, CallsAreBound, Busy
  <2>3. \A b \in Bots : pc'[b] = pc[b] /\ res'[b] = res[b] /\ InHand(b)' = InHand(b)
    BY <1>0, <2>1 DEF TypeOK, InHand
  <2>4. \A c \in Callers : pc'[c] \in Working => pc[c] \in Working /\ arg'[c] = arg[c]
    BY <1>0, <2>1 DEF TypeOK, Working
  <2>5. \A m \in Msgs : told'[m] = "none" => told[m] = "none"
    BY <1>0, <2>1, <2>2 DEF TypeOK
  <2> QED
    BY <2>1, <2>3, <2>4, <2>5, NothingNew DEF DInv, OneHand
<1>3. ASSUME NEW c \in Callers, CheckPause(c) PROVE OneRow' /\ OneHand' /\ OneCopy'
  <2>1. /\ UNCHANGED <<live, rowMsg, nextId, item, arg, batch, accepted, blamed, told>>
        /\ pc[c] = "check" /\ pc'[c] \in {"send", "queue"}
        /\ \A d \in Callers \ {c} : pc'[d] = pc[d] /\ res'[d] = res[d]
    BY <1>0, <1>3 DEF CheckPause, Finish, Goto, table, telegram, history, TypeOK
  <2>2. \A b \in Bots : InHand(b)' = InHand(b) /\ (pc'[b] \in Busy <=> pc[b] \in Busy)
    BY <2>1 DEF InHand, Busy
  <2>3. \A d \in Callers : pc'[d] \in Working => pc[d] \in Working
    BY <2>1 DEF Working
  <2>4. \A b \in Bots : pc'[b] \in {"idle", "drop", "claim"} => pc'[b] = pc[b]
    BY <2>1
  <2> QED
    BY <2>1, <2>2, <2>3, <2>4, NothingNew DEF DInv, OneHand
<1>4. ASSUME NEW c \in Callers, Request(c) PROVE OneRow' /\ OneHand' /\ OneCopy'
  <2>1. PICK a \in Env \cap Answer : Answered(c, a) /\ Finish(c, AfterRequest(a), ResultOf(a))
    BY <1>4 DEF Request
  <2>2. /\ AfterRequest(a) \in {"retry", "queue", "done"}
        /\ a = "ok" => AfterRequest(a) = "done"
    BY DEF AfterRequest, Answer
  <2>3. pc[c] = "send" /\ UNCHANGED <<table, arg, item, batch, told>>
    BY <1>4 DEF Request
  <2> QED
    BY <2>1, <2>2, <2>3, AnsweredOnce
<1>5. ASSUME NEW c \in Callers, InlineRetry(c) PROVE OneRow' /\ OneHand' /\ OneCopy'
  <2>1. PICK a \in Env \cap Answer : Answered(c, a) /\ Finish(c, "done", ResultOf(a))
    BY <1>5 DEF InlineRetry
  <2>2. pc[c] = "retry" /\ UNCHANGED <<table, arg, item, batch, told>>
    BY <1>5 DEF InlineRetry
  <2> QED
    BY <2>1, <2>2, AnsweredOnce
<1>6. ASSUME NEW c \in Callers, Enqueue(c) PROVE OneRow' /\ OneHand' /\ OneCopy'
  <2>1. /\ pc[c] = "queue" /\ arg[c] \in Msgs
        /\ pc' = [pc EXCEPT ![c] = "done"]
        /\ UNCHANGED <<arg, item, res, batch, accepted, told>>
    BY <1>0, <1>6 DEF Enqueue, Goto, IInv, CallsAreBound, Busy, telegram
  <2>2. \A b \in Bots : /\ InHand(b)' = InHand(b)
                        /\ pc'[b] \in Busy <=> pc[b] \in Busy
                        /\ pc'[b] \in {"idle", "drop", "claim"} => pc'[b] = pc[b]
                        /\ pc[b] = "done" => pc'[b] = "done"
    BY <1>0, <2>1 DEF InHand, Busy, TypeOK
  <2>3. \A d \in Callers : pc'[d] \in Working => pc[d] \in Working
    BY <1>0, <2>1 DEF Working, TypeOK
  <2>4. blamed \subseteq blamed' /\ (c \in Bots /\ InsertRow(arg[c]) => arg[c] \in blamed')
    BY <1>6, <1>0 DEF Enqueue, Blame, InsertRow, table, IInv, TypeOK
  <2>5. CASE InsertRow(arg[c])
    <3>1. /\ nextId \in RowIds /\ live' = live \cup {nextId} /\ rowMsg'[nextId] = arg[c]
          /\ \A r \in RowIds : r # nextId => rowMsg'[r] = rowMsg[r]
          /\ \A r \in RowIds : r < nextId' <=> r < nextId \/ r = nextId
      BY <1>0, <2>5 DEF InsertRow, TypeOK, RowIds
    <3>2. c \in Threads => arg[c] \notin Queued
      BY <2>1 DEF DInv, SInv, QueuedInTurn
    <3>3. OneRow'
      <4> SUFFICES ASSUME NEW r \in RowIds, NEW q \in RowIds, r < nextId', q < nextId',
                          rowMsg'[r] = rowMsg'[q], rowMsg'[r] \notin blamed'
                   PROVE  r = q
        BY DEF OneRow
      <4>1. CASE r = nextId \/ q = nextId
        <5>1. rowMsg'[r] = arg[c] /\ arg[c] \notin Queued
          BY <2>4, <2>5, <3>1, <3>2, <4>1
        <5> QED
          BY <1>0, <3>1, <4>1, <5>1, RowsAreQueued
      <4>2. CASE r # nextId /\ q # nextId
        BY <2>4, <3>1, <4>2 DEF DInv, OneRow
      <4> QED
        BY <4>1, <4>2
    <3>4. OneHand'
      <4>1. \A b \in Bots : \A r \in InHand(b) : r \in RowIds /\ r < nextId
        BY <1>0 DEF IInv, RowsNumbered, CallsAreBound, InHand, Busy, TypeOK
      <4>2. \A r \in RowIds : r < nextId => rowMsg'[r] = rowMsg[r]
        BY <1>0, <3>1 DEF TypeOK
      <4> QED
        BY <2>1, <2>2, <2>4, <4>1, <4>2 DEF DInv, OneHand
    <3>5. ASSUME NEW m \in Msgs \ blamed', accepted[m] > 0 PROVE Settled(m)'
      <4>1. Settled(m)
        BY <2>4, <3>5 DEF DInv, OneCopy
      <4>2. arg[c] # m
        BY <2>1, <4>1 DEF Settled, Working
      <4>3. \A r \in live' : rowMsg'[r] = m => r \in live /\ rowMsg[r] = m
        BY <1>0, <3>1, <4>2 DEF TypeOK
      <4>4. \A b \in Bots : \A r \in batch[b] : r \in RowIds /\ r # nextId
        BY <1>0 DEF IInv, RowsNumbered, TypeOK
      <4> QED
        BY <2>1, <2>2, <2>3, <3>1, <4>1, <4>3, <4>4 DEF Settled
    <3>6. OneCopy'
      BY <2>1, <2>4, <3>5 DEF DInv, OneCopy
    <3> QED
      BY <3>3, <3>4, <3>6
  <2>6. CASE UNCHANGED <<table, blamed>>
    <3>1. UNCHANGED <<live, rowMsg, nextId>>
      BY <2>6 DEF table
    <3> QED
      BY <2>1, <2>2, <2>3, <2>4, <3>1, NothingNew DEF DInv, OneHand
  <2> QED
    BY <1>6, <2>5, <2>6 DEF Enqueue
<1>7. ASSUME NEW b \in Bots, DrainTick(b) \/ DropExhausted(b)
      PROVE  OneRow' /\ OneHand' /\ OneCopy'
  <2>1. /\ UNCHANGED <<rowMsg, nextId, item, arg, res, batch, accepted, blamed, told>>
        /\ live' \subseteq live
        /\ pc[b] \in {"idle", "drop"} /\ pc'[b] \in {"drop", "claim"}
        /\ \A c \in Callers \ {b} : pc'[c] = pc[c]
    BY <1>0, <1>7 DEF DrainTick, DropExhausted, Goto, table, telegram, history, TypeOK
  <2>2. \A o \in Bots : InHand(o)' = InHand(o) /\ (pc'[o] \in Busy => pc[o] \in Busy)
    BY <2>1 DEF InHand, Busy
  <2>3. \A c \in Callers : pc'[c] \in Working => pc[c] \in Working
    BY <2>1 DEF Working
  <2>4. \A o \in Bots : pc'[o] \in {"idle", "drop", "claim"} => pc[o] \in {"idle", "drop", "claim"}
    BY <2>1
  <2> QED
    BY <2>1, <2>2, <2>3, <2>4, NothingNew DEF DInv, OneHand
<1>8. ASSUME NEW b \in Bots, ClaimDue(b) PROVE OneRow' /\ OneHand' /\ OneCopy'
  <2>0. pc[b] = "claim" /\ UNCHANGED <<live, rowMsg, nextId, arg, item, res, accepted, told>>
    BY <1>8 DEF ClaimDue, telegram
  <2>1. CASE Goto(b, "idle") /\ UNCHANGED <<attempts, due, batch, blamed>>
    <3>1. pc'[b] = "idle" /\ \A c \in Callers \ {b} : pc'[c] = pc[c]
      BY <1>0, <2>1 DEF Goto, TypeOK
    <3>2. \A o \in Bots : InHand(o)' = InHand(o) /\ (pc'[o] \in Busy => pc[o] \in Busy)
      BY <2>0, <2>1, <3>1 DEF InHand, Busy
    <3>3. \A c \in Callers : pc'[c] \in Working => pc[c] \in Working
      BY <3>1 DEF Working
    <3>4. \A o \in Bots : pc'[o] \in {"idle", "drop", "claim"} => pc[o] \in {"idle", "drop", "claim"}
      BY <2>0, <3>1
    <3> QED
      BY <2>0, <2>1, <3>1, <3>2, <3>3, <3>4, NothingNew DEF DInv, OneHand
  <2>2. CASE pc' # [pc EXCEPT ![b] = "idle"]
    <3> DEFINE C == DueRows(Batch)
    <3>1. /\ batch' = [batch EXCEPT ![b] = C]
          /\ blamed' = blamed \cup
                {rowMsg[r] : r \in {q \in C : \E o \in Bots \ {b} : q \in InHand(o)}}
          /\ pc' = [pc EXCEPT ![b] = "next"]
      BY <1>8, <2>2 DEF ClaimDue, Goto
    <3>2. C \subseteq live /\ C \subseteq RowIds
      BY <1>0 DEF DueRows, TypeOK
    <3> HIDE DEF C
    <3>3. /\ pc'[b] = "next" /\ batch'[b] = C /\ InHand(b)' = C
          /\ \A o \in Bots \ {b} : batch'[o] = batch[o] /\ pc'[o] = pc[o]
          /\ \A c \in Callers \ {b} : pc'[c] = pc[c]
      BY <1>0, <3>1 DEF TypeOK, InHand
    <3>4. \A o \in Bots \ {b} : InHand(o)' = InHand(o)
      BY <2>0, <3>3 DEF InHand
    <3>5. blamed \subseteq blamed' /\ \A o \in Bots \ {b} : \A r \in C \cap InHand(o) : rowMsg[r] \in blamed'
      BY <3>1
    <3>6. OneRow'
      BY <2>0, <3>5 DEF DInv, OneRow
    <3>7. OneHand'
      <4>1. \A o, p \in Bots, r \in RowIds :
              r \in InHand(o)' /\ r \in InHand(p)' /\ rowMsg[r] \notin blamed' => o = p
        BY <3>3, <3>4, <3>5 DEF DInv, OneHand
      <4>2. \A o \in Bots : pc'[o] \in Busy => item'[o] \notin batch'[o]
        BY <2>0, <3>3 DEF DInv, OneHand, Busy
      <4>3. \A o \in Bots : pc'[o] \in {"idle", "drop", "claim"} => batch'[o] = {}
        BY <3>3 DEF DInv, OneHand
      <4> QED
        BY <2>0, <4>1, <4>2, <4>3 DEF OneHand
    <3>8. ASSUME NEW m \in Msgs \ blamed', accepted[m] > 0 PROVE Settled(m)'
      <4>1. Settled(m)
        BY <3>5, <3>8 DEF DInv, OneCopy
      <4>2. \A c \in Callers : pc'[c] \in Working => arg'[c] # m
        BY <2>0, <3>3, <4>1 DEF Settled, Working
      <4>3. ASSUME NEW r \in C PROVE rowMsg[r] # m
        <5>1. SUFFICES ASSUME rowMsg[r] = m PROVE FALSE
          OBVIOUS
        <5>2. PICK o \in Bots : pc[o] = "done" /\ item[o] = r
          BY <3>2, <4>1, <5>1 DEF Settled
        <5>3. o # b /\ r \in InHand(o)
          BY <2>0, <5>2 DEF InHand
        <5> QED
          BY <3>5, <3>8, <5>1, <5>3
      <4>4. \A o \in Bots : \A r \in batch'[o] : rowMsg[r] # m
        BY <3>3, <4>1, <4>3 DEF Settled
      <4>5. \A o \in Bots : pc[o] = "done" => pc'[o] = "done"
        BY <2>0, <3>3
      <4> QED
        BY <2>0, <4>1, <4>2, <4>4, <4>5 DEF Settled
    <3>9. OneCopy'
      BY <2>0, <3>5, <3>8 DEF DInv, OneCopy
    <3> QED
      BY <3>6, <3>7, <3>9
  <2>3. CASE pc' = [pc EXCEPT ![b] = "idle"]
    <3>1. pc' # [pc EXCEPT ![b] = "next"]
      BY <1>0, <2>3 DEF TypeOK
    <3>2. Goto(b, "idle") /\ UNCHANGED <<attempts, due, batch, blamed>>
      BY <1>8, <3>1 DEF ClaimDue, Goto
    <3> QED
      BY <2>1, <3>2
  <2> QED
    BY <2>2, <2>3
<1>9. ASSUME NEW b \in Bots, DrainNext(b) PROVE OneRow' /\ OneHand' /\ OneCopy'
  <2>0. pc[b] = "next" /\ UNCHANGED <<live, rowMsg, nextId, res, accepted, told, blamed>>
    BY <1>9 DEF DrainNext, table, telegram, history
  <2>1. CASE batch[b] = {} /\ Goto(b, "idle") /\ UNCHANGED <<batch, item, arg>>
    <3>1. pc'[b] = "idle" /\ \A c \in Callers \ {b} : pc'[c] = pc[c]
      BY <1>0, <2>1 DEF Goto, TypeOK
    <3>2. \A o \in Bots : InHand(o)' = InHand(o) /\ (pc'[o] \in Busy => pc[o] \in Busy)
      BY <2>0, <2>1, <3>1 DEF InHand, Busy
    <3>3. \A c \in Callers : pc'[c] \in Working => pc[c] \in Working
      BY <3>1 DEF Working
    <3> QED
      BY <2>0, <2>1, <3>1, <3>2, <3>3, NothingNew DEF DInv, OneHand
  <2>2. ASSUME NEW r \in batch[b],
               batch' = [batch EXCEPT ![b] = @ \ {r}],
               item' = [item EXCEPT ![b] = r],
               arg' = [arg EXCEPT ![b] = rowMsg[r]],
               Goto(b, "check")
        PROVE  OneRow' /\ OneHand' /\ OneCopy'
    <3>1. /\ pc'[b] = "check" /\ item'[b] = r /\ arg'[b] = rowMsg[r]
          /\ batch'[b] = batch[b] \ {r}
          /\ \A c \in Callers \ {b} : pc'[c] = pc[c] /\ arg'[c] = arg[c] /\ item'[c] = item[c]
          /\ \A o \in Bots \ {b} : batch'[o] = batch[o]
      BY <1>0, <2>2 DEF Goto, TypeOK
    <3>2. InHand(b)' = InHand(b)
      BY <2>0, <3>1 DEF InHand
    <3>3. \A o \in Bots \ {b} : InHand(o)' = InHand(o)
      BY <3>1 DEF InHand
    <3>4. OneRow'
      BY <2>0 DEF DInv, OneRow
    <3>5. OneHand'
      BY <2>0, <3>1, <3>2, <3>3 DEF DInv, OneHand
    <3>6. ASSUME NEW m \in Msgs \ blamed', accepted[m] > 0 PROVE Settled(m)'
      <4>1. Settled(m)
        BY <2>0, <3>6 DEF DInv, OneCopy
      <4>2. rowMsg[r] # m
        BY <4>1 DEF Settled
      <4>3. \A o \in Bots : pc[o] = "done" => pc'[o] = "done" /\ item'[o] = item[o]
        BY <2>0, <3>1
      <4> QED
        BY <2>0, <3>1, <4>1, <4>2, <4>3 DEF Settled
    <3>7. OneCopy'
      BY <2>0, <3>6 DEF DInv, OneCopy
    <3> QED
      BY <3>4, <3>5, <3>7
  <2> QED
    BY <1>9, <2>1, <2>2 DEF DrainNext
<1>10. ASSUME NEW b \in Bots, Settle(b) PROVE OneRow' /\ OneHand' /\ OneCopy'
  <2>1. /\ pc[b] = "done" /\ pc'[b] = "next"
        /\ UNCHANGED <<rowMsg, nextId, batch, accepted, told>>
        /\ blamed \subseteq blamed' /\ live' \subseteq live
        /\ \A c \in Callers \ {b} : /\ pc'[c] = pc[c] /\ arg'[c] = arg[c]
                                    /\ item'[c] = item[c] /\ res'[c] = res[c]
    BY <1>0, <1>10 DEF Settle, Finish, Goto, Blame, telegram, TypeOK
  <2>2. res[b] = "ok" => item[b] \notin live' \/ rowMsg[item[b]] \in blamed'
    <3>1. arg[b] = rowMsg[item[b]]
      BY <1>0, <2>1 DEF IInv, CallsAreBound, Busy
    <3> QED
      BY <1>10, <3>1 DEF Settle, Removed, Blame
  <2>3. \A o \in Bots : InHand(o)' \subseteq InHand(o)
    BY <2>1 DEF InHand
  <2>4. \A c \in Callers : pc'[c] \in Working => pc[c] \in Working /\ arg'[c] = arg[c]
    BY <2>1 DEF Working
  <2>5. \A o \in Bots : /\ pc'[o] \in Busy => pc[o] \in Busy /\ item'[o] = item[o]
                        /\ pc'[o] \in {"idle", "drop", "claim"} => pc'[o] = pc[o]
    BY <2>1 DEF Busy
  <2> QED
    BY <2>1, <2>2, <2>3, <2>4, <2>5, NothingNew DEF DInv, OneHand
<1>11. ASSUME NEW b \in Bots, Crash(b) PROVE OneRow' /\ OneHand' /\ OneCopy'
  <2>1. /\ UNCHANGED <<live, rowMsg, nextId, accepted, told>>
        /\ batch' = [batch EXCEPT ![b] = {}]
        /\ \A c \in Callers : Owner(c) = b => pc'[c] = "idle" /\ item'[c] = 0
        /\ \A c \in Callers : Owner(c) # b => /\ pc'[c] = pc[c] /\ arg'[c] = arg[c]
                                             /\ item'[c] = item[c] /\ res'[c] = res[c]
        /\ \A o \in Bots : Owner(o) = o
    BY <1>11 DEF Crash, table, telegram, Owner
  <2>2. /\ blamed \subseteq blamed'
        /\ pc[b] = "done" /\ res[b] = "ok" => rowMsg[item[b]] \in blamed'
    <3>1. pc[b] = "done" => arg[b] = rowMsg[item[b]]
      BY <1>0 DEF IInv, CallsAreBound, Busy
    <3> QED
      BY <1>11, <3>1 DEF Crash, Blame
  <2>3. batch'[b] = {} /\ \A o \in Bots \ {b} : batch'[o] = batch[o]
    BY <1>0, <2>1 DEF TypeOK
  <2>4. \A o \in Bots : InHand(o)' \subseteq InHand(o)
    BY <2>1, <2>3 DEF InHand
  <2>5. \A c \in Callers : pc'[c] \in Working => pc[c] \in Working /\ arg'[c] = arg[c]
    BY <2>1 DEF Working
  <2>6. \A o \in Bots : /\ pc'[o] \in Busy => o # b
                        /\ o # b => pc'[o] = pc[o] /\ item'[o] = item[o] /\ res'[o] = res[o]
    BY <2>1 DEF Busy
  <2> QED
    BY <2>1, <2>2, <2>3, <2>4, <2>5, <2>6, NothingNew DEF DInv, OneHand
<1>12. CASE UNCHANGED <<live, rowMsg, nextId, client, batch, accepted, blamed, told>>
  <2>1. UNCHANGED <<live, rowMsg, nextId, pc, arg, item, res, batch, accepted, blamed, told>>
    BY <1>12 DEF client
  <2>2. \A o \in Bots : InHand(o)' = InHand(o)
    BY <2>1 DEF InHand
  <2> QED
    BY <2>1, <2>2, NothingNew DEF DInv, OneHand
<1>13. ASSUME NEW b \in Bots, PauseEnds(b) PROVE OneRow' /\ OneHand' /\ OneCopy'
  BY <1>12, <1>13 DEF PauseEnds, table, telegram, history
<1>14. ASSUME NEW r \in RowIds, BecomeDue(r) PROVE OneRow' /\ OneHand' /\ OneCopy'
  BY <1>12, <1>14 DEF BecomeDue, telegram, history
<1>15. CASE UNCHANGED vars
  BY <1>12, <1>15 DEF vars, client
<1> QED
  BY <1>1, <1>2, <1>3, <1>4, <1>5, <1>6, <1>7, <1>8, <1>9, <1>10, <1>11, <1>13, <1>14, <1>15
     DEF Next, ClientStep, DrainStep

LEMMA InitCopies == Init => DInv
<1> SUFFICES ASSUME Init PROVE DInv
  OBVIOUS
<1>1. SInv
  BY InitSends
<1>2. OneRow
  BY OutboxAssumption DEF Init, OneRow, RowIds
<1>3. OneHand
  BY CallerFacts DEF Init, OneHand, InHand, Busy
<1>4. OneCopy
  BY DEF Init, OneCopy
<1> QED
  BY <1>1, <1>2, <1>3, <1>4 DEF DInv

\* Pauses, refusals, queueing and ordinary retries never copy a send, for any number of
\* processes, threads and crashes: one that arrives twice lost a reply or a DELETE, was
\* queued again by its own retry, or was claimed by two drain loops at once.
THEOREM CopiesHaveACause == Spec => []DuplicatesHaveACause
<1>1. DInv => DuplicatesHaveACause
  BY DEF DInv, SInv, IInv, TypeOK, OneCopy, DuplicatesHaveACause
<1> QED
  BY <1>1, InitCopies, CopiesStep, SendsStep, StepIInv, PTL DEF Spec, SInv, DInv
=============================================================================
