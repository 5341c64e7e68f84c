----------------------------- MODULE FloodPause -----------------------------
(***************************************************************************)
(* The flood pause: how a 429 of Telegram stops the bot from sending and   *)
(* how handleErr (internal/bot/prep.go) reacts to it, with the client of   *)
(* internal/bot/ratelimit.go seen from the limiter's side.                 *)
(*                                                                         *)
(* A thread handles updates one after the other.  Each makes one send; if  *)
(* that fails handleErr sends the user a notice and, for a 429, the admins *)
(* a report, both through the same client with their errors ignored.  Time *)
(* counts down in ticks of one second, so a pause of at most maxInlineWait *)
(* (300 ms) is no pause here.                                              *)
(***************************************************************************)
EXTENDS Naturals, FiniteSets

CONSTANTS Threads,         \* the goroutines that send
          Secs,            \* the retry_after values Telegram uses; 0 is "missing"
          DefaultWait,     \* the 5 s noteFloodWait assumes for a missing one
          MaxInlineRetry,  \* maxInlineRetry
          ReportGap,       \* the two minutes of allowReport
          MaxFloods        \* bound: 429 answers of Telegram

ASSUME FloodAssumption ==
  /\ IsFiniteSet(Threads) /\ Threads # {}
  /\ Secs \subseteq Nat
  /\ DefaultWait \in Nat \ {0}
  /\ MaxInlineRetry \in Nat
  /\ ReportGap \in Nat \ {0}
  /\ MaxFloods \in Nat

VARIABLES
  pauseLeft,   \* floodUntil - now, when positive
  reportLeft,  \* until allowReport admits the next report
  phase,       \* per thread: which of its sends is under way
  pc,          \* per thread: where in that send it is
  err,         \* per thread: what the update's own send came back with
  wait,        \* per thread: the retry_after it was answered with
  floods,      \* 429 answers so far
  pending,     \* threads whose update got a 429 that handleErr has not seen
  pileOn       \* requests that reached Telegram since the pause began

vars == <<pauseLeft, reportLeft, phase, pc, err, wait, floods, pending, pileOn>>

Larger(a, b) == IF a > b THEN a ELSE b

TypeOK ==
  /\ pauseLeft \in Nat
  /\ reportLeft \in 0..ReportGap
  /\ phase \in [Threads -> {"idle", "main", "reply", "report"}]
  /\ pc \in [Threads -> {"check", "ask", "sleep", "back"}]
  /\ err \in [Threads -> {"none", "paused", "flood", "ok"}]
  /\ wait \in [Threads -> Nat]
  /\ floods \in 0..MaxFloods
  /\ pending \subseteq Threads
  /\ pileOn \in Nat

Init ==
  /\ pauseLeft = 0 /\ reportLeft = 0 /\ floods = 0 /\ pileOn = 0
  /\ phase = [t \in Threads |-> "idle"]
  /\ pc = [t \in Threads |-> "check"]
  /\ err = [t \in Threads |-> "none"]
  /\ wait = [t \in Threads |-> 0]
  /\ pending = {}

\* noteFloodWait keeps the furthest deadline and assumes 5 s when none is given.
Noted(s) == Larger(pauseLeft, IF s = 0 THEN DefaultWait ELSE s)

\* The next send of thread t, in phase ph.
Starts(t, ph) ==
  /\ phase' = [phase EXCEPT ![t] = ph]
  /\ pc' = [pc EXCEPT ![t] = "check"]

\* A new update is handled: it sends.
Begin(t) ==
  /\ phase[t] = "idle"
  /\ Starts(t, "main")
  /\ err' = [err EXCEPT ![t] = "none"]
  /\ UNCHANGED <<pauseLeft, reportLeft, wait, floods, pending, pileOn>>

\* The send is over with result r, which only the update's own send keeps.
Back(t, r) ==
  /\ pc' = [pc EXCEPT ![t] = "back"]
  /\ err' = IF phase[t] = "main" THEN [err EXCEPT ![t] = r] ELSE err

\* Mutant: nobody looks at the pause before sending.
CheckNothing(t) ==
  /\ phase[t] # "idle" /\ pc[t] = "check"
  /\ pc' = [pc EXCEPT ![t] = "ask"]
  /\ UNCHANGED <<pauseLeft, reportLeft, phase, err, wait, floods, pending, pileOn>>

\* RequestWithContext refuses a send during a pause with errFloodPaused.
Check(t) ==
  /\ phase[t] # "idle" /\ pc[t] = "check"
  /\ \/ pauseLeft > 0 /\ Back(t, "paused")
     \/ pauseLeft = 0 /\ pc' = [pc EXCEPT ![t] = "ask"] /\ UNCHANGED err
  /\ UNCHANGED <<pauseLeft, reportLeft, phase, wait, floods, pending, pileOn>>

Reached == pileOn' = IF pauseLeft > 0 THEN pileOn + 1 ELSE 0

\* Telegram says no; the bound MaxFloods makes it stop at some point.
Says429(t, s) ==
  /\ floods < MaxFloods
  /\ floods' = floods + 1
  /\ wait' = [wait EXCEPT ![t] = s]
  /\ pending' = IF phase[t] = "main" THEN pending \cup {t} ELSE pending
  /\ Reached

SaysYes(t) ==
  /\ Back(t, "ok")
  /\ pending' = pending \ {t}
  /\ Reached
  /\ UNCHANGED <<pauseLeft, wait, floods>>

\* The first request: a 429 is recorded at once and slept through when short.
Ask(t) ==
  /\ phase[t] # "idle" /\ pc[t] = "ask"
  /\ \/ SaysYes(t)
     \/ \E s \in Secs :
          /\ Says429(t, s)
          /\ pauseLeft' = Noted(s)
          /\ IF s > 0 /\ s <= MaxInlineRetry
             THEN pc' = [pc EXCEPT ![t] = "sleep"] /\ UNCHANGED err
             ELSE Back(t, "flood")
  /\ UNCHANGED <<reportLeft, phase>>

\* The inline retry after the sleep: its answer is returned as it is.
Retry(t) ==
  /\ phase[t] # "idle" /\ pc[t] = "sleep" /\ wait[t] = 0
  /\ \/ SaysYes(t)
     \/ \E s \in Secs : Says429(t, s) /\ Back(t, "flood") /\ UNCHANGED pauseLeft
  /\ UNCHANGED <<reportLeft, phase>>

\* Mutant: our own back-pressure is recorded like a 429, as it once was.
HandleErrLoop(t) ==
  /\ phase[t] = "main" /\ pc[t] = "back"
  /\ \/ /\ err[t] = "ok"
        /\ phase' = [phase EXCEPT ![t] = "idle"]
        /\ UNCHANGED <<pc, pauseLeft>>
     \/ /\ err[t] \in {"paused", "flood"}
        /\ pauseLeft' = Noted(IF err[t] = "flood" THEN wait[t] ELSE 0)
        /\ Starts(t, "reply")
  /\ wait' = [wait EXCEPT ![t] = 0]
  /\ pending' = pending \ {t}
  /\ UNCHANGED <<reportLeft, err, floods, pileOn>>

\* handleErr: a pause of our own is only reported to the user; a 429 is recorded.
HandleErr(t) ==
  /\ phase[t] = "main" /\ pc[t] = "back"
  /\ \/ /\ err[t] = "ok"
        /\ phase' = [phase EXCEPT ![t] = "idle"]
        /\ UNCHANGED <<pc, pauseLeft>>
     \/ err[t] = "paused" /\ Starts(t, "reply") /\ UNCHANGED pauseLeft
     \/ err[t] = "flood" /\ pauseLeft' = Noted(wait[t]) /\ Starts(t, "reply")
  /\ wait' = [wait EXCEPT ![t] = 0]
  /\ pending' = pending \ {t}
  /\ UNCHANGED <<reportLeft, err, floods, pileOn>>

\* After the notice a 429 is reported to the admins, once per ReportGap.
ReplySent(t) ==
  /\ phase[t] = "reply" /\ pc[t] = "back"
  /\ \/ /\ err[t] = "flood" /\ reportLeft = 0
        /\ reportLeft' = ReportGap
        /\ Starts(t, "report")
     \/ /\ err[t] # "flood" \/ reportLeft > 0
        /\ phase' = [phase EXCEPT ![t] = "idle"]
        /\ UNCHANGED <<reportLeft, pc>>
  /\ wait' = [wait EXCEPT ![t] = 0]
  /\ UNCHANGED <<pauseLeft, err, floods, pending, pileOn>>

ReportSent(t) ==
  /\ phase[t] = "report" /\ pc[t] = "back"
  /\ phase' = [phase EXCEPT ![t] = "idle"]
  /\ wait' = [wait EXCEPT ![t] = 0]
  /\ UNCHANGED <<pauseLeft, reportLeft, pc, err, floods, pending, pileOn>>

\* One second passes.
Tick ==
  /\ \/ pauseLeft > 0 \/ reportLeft > 0
     \/ \E t \in Threads : pc[t] = "sleep" /\ wait[t] > 0
  /\ pauseLeft' = IF pauseLeft > 0 THEN pauseLeft - 1 ELSE 0
  /\ reportLeft' = IF reportLeft > 0 THEN reportLeft - 1 ELSE 0
  /\ wait' = [t \in Threads |-> IF pc[t] = "sleep" /\ wait[t] > 0
                                THEN wait[t] - 1 ELSE wait[t]]
  /\ pileOn' = IF pauseLeft' = 0 THEN 0 ELSE pileOn
  /\ UNCHANGED <<phase, pc, err, floods, pending>>

ThreadStep(t) == \/ Check(t) \/ Ask(t) \/ Retry(t)
                 \/ HandleErr(t) \/ ReplySent(t) \/ ReportSent(t)

Next == Tick \/ \E t \in Threads : Begin(t) \/ ThreadStep(t)

Spec == Init /\ [][Next]_vars

\* Code runs on and clocks advance.  New updates keep coming as they like.
FairSpec == Spec /\ WF_vars(Tick) /\ \A t \in Threads : WF_vars(ThreadStep(t))

-----------------------------------------------------------------------------
\* The pause is only ever set because Telegram said 429: at its answer, or when
\* handleErr sees the 429 of an update.  Refusals of our own never extend it, the
\* loop that once muted the bot (errFloodPaused, handleErr).
PauseOnlyAfter429 ==
  [][pauseLeft' > pauseLeft => floods' > floods \/ \E t \in pending : t \notin pending']_vars

\* However many updates arrive during a pause, the requests that still reach
\* Telegram are those that had passed the check before it began and one inline
\* retry each, so a wait is not turned into a ban (RequestWithContext).
BoundedPileOn == pileOn < 2 * Cardinality(Threads)

\* Once Telegram stops refusing, the bot stops pausing, although users keep
\* writing to it all the time (noteFloodWait, handleErr).
EventuallyUnmuted == <>[](pauseLeft = 0)
=============================================================================
