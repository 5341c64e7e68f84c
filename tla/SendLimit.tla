----------------------------- MODULE SendLimit -----------------------------
(***************************************************************************)
(* The anti-spam limits of one sender: userData.allowSendTo and the        *)
(* timestamps it keeps (internal/bot/userdata.go).  The timestamps live in *)
(* the sender's record in memory: /cancel cannot reset them, the idle      *)
(* sweep and a restart of the process can.                                 *)
(*                                                                         *)
(* Every message is attempted once, so a message stands for the timestamp  *)
(* of its attempt and the two slices are sets of messages.  Time is in     *)
(* ticks.                                                                  *)
(***************************************************************************)
EXTENDS Integers, FiniteSets

CONSTANTS Msgs,          \* the sender's messages
          Targets,       \* who they go to
          NoTarget,      \* the target of a message whose session has expired
          To,            \* the target of each message
          Window,        \* sendRateWindow
          GlobalMax,     \* sendRateMax
          TargetMax,     \* perTargetMax
          WarnCooldown,  \* warnCooldown
          SweepIdle,     \* idle time after which the sweep evicts a record
          MaxTime,       \* bound: the clock
          MaxRestarts    \* bound: restarts of the process

ASSUME SendLimitAssumption ==
  /\ IsFiniteSet(Msgs)
  /\ NoTarget \notin Targets
  /\ To \in [Msgs -> Targets \cup {NoTarget}]
  /\ Window \in Nat /\ WarnCooldown \in Nat /\ SweepIdle \in Nat
  /\ GlobalMax \in Nat \ {0} /\ TargetMax \in Nat \ {0}
  /\ SweepIdle > Window /\ SweepIdle >= WarnCooldown
  /\ MaxTime \in Nat /\ MaxRestarts \in Nat

VARIABLES
  now,         \* time.Now()
  sendTimes,   \* the global slice
  perTarget,   \* the slice of each target; a target without one has the empty set
  lastWarn,    \* when the sender was last told to slow down
  lastAccess,  \* when the record was last fetched
  life,        \* restarts so far
  at, born,    \* when each message was attempted, and in which life
  verdict      \* "sent", "warned" or "silent"

record == <<sendTimes, perTarget, lastWarn>>
limitVars == <<now, sendTimes, perTarget, lastWarn, lastAccess, life, at, born, verdict>>

\* A fresh record has lastWarn 0, half a century before any clock reading.
Never == -WarnCooldown

LimitTypeOK ==
  /\ now \in Nat /\ life \in Nat /\ lastAccess \in Nat
  /\ sendTimes \subseteq Msgs
  /\ perTarget \in [Targets -> SUBSET Msgs]
  /\ lastWarn \in Int
  /\ at \in [Msgs -> Nat]
  /\ born \in [Msgs -> Nat]
  /\ verdict \in [Msgs -> {"none", "sent", "warned", "silent"}]

LimitInit ==
  /\ now = 0 /\ life = 0 /\ lastAccess = 0
  /\ sendTimes = {} /\ perTarget = [t \in Targets |-> {}]
  /\ lastWarn = Never
  /\ at = [m \in Msgs |-> 0]
  /\ born = [m \in Msgs |-> 0]
  /\ verdict = [m \in Msgs |-> "none"]

-----------------------------------------------------------------------------
\* Mutant: nothing is ever dropped.
PruneNothing(S) == S

\* prune: a timestamp exactly one window old still counts.
Prune(S) == {m \in S : at[m] >= now - Window}

\* Mutant: off by one.
OverTargetLate(t) == t \in Targets /\ Cardinality(Prune(perTarget[t])) > TargetMax

OverGlobal    == Cardinality(Prune(sendTimes)) >= GlobalMax
OverTarget(t) == t \in Targets /\ Cardinality(Prune(perTarget[t])) >= TargetMax

\* Mutant: every attempt that trips the limit is answered.
WarnAlways == TRUE

WarnDue == now - lastWarn >= WarnCooldown

\* What an attempt leaves in the record's history, whatever its verdict.
Attempted(m, v) ==
  /\ verdict[m] = "none"
  /\ verdict' = [verdict EXCEPT ![m] = v]
  /\ at' = [at EXCEPT ![m] = now]
  /\ born' = [born EXCEPT ![m] = life]
  /\ lastAccess' = now
  /\ UNCHANGED <<now, life>>

\* allowSendTo, within both limits: the attempt is counted against both.
Admit(m) ==
  /\ ~OverGlobal /\ ~OverTarget(To[m])
  /\ Attempted(m, "sent")
  /\ sendTimes' = Prune(sendTimes) \cup {m}
  /\ perTarget' = [t \in Targets |-> Prune(perTarget[t]) \cup (IF t = To[m] THEN {m} ELSE {})]
  /\ UNCHANGED lastWarn

\* allowSendTo, over a limit: not counted, and warned about at most once per
\* cooldown.
Reject(m) ==
  /\ OverGlobal \/ OverTarget(To[m])
  /\ \/ WarnDue /\ Attempted(m, "warned") /\ lastWarn' = now
     \/ ~WarnDue /\ Attempted(m, "silent") /\ UNCHANGED lastWarn
  /\ sendTimes' = Prune(sendTimes)
  /\ perTarget' = [t \in Targets |-> Prune(perTarget[t])]

Tick ==
  /\ now < MaxTime
  /\ now' = now + 1
  /\ UNCHANGED <<record, lastAccess, life, at, born, verdict>>

Forgotten ==
  /\ sendTimes' = {}
  /\ perTarget' = [t \in Targets |-> {}]
  /\ lastWarn' = Never

\* userStore.sweep: an idle record is evicted, the next update gets a fresh one.
\* Other updates of the sender only put this off, so they are not steps.
Sweep ==
  /\ now - lastAccess >= SweepIdle
  /\ Forgotten
  /\ UNCHANGED <<now, lastAccess, life, at, born, verdict>>

\* The process is restarted with an empty store.
Restart ==
  /\ life < MaxRestarts
  /\ life' = life + 1
  /\ Forgotten
  /\ UNCHANGED <<now, lastAccess, at, born, verdict>>

LimitNext ==
  \/ \E m \in Msgs : Admit(m) \/ Reject(m)
  \/ Tick \/ Sweep \/ Restart

LimitSpec == LimitInit /\ [][LimitNext]_limitVars

-----------------------------------------------------------------------------
(* Properties.                                                             *)

\* The messages let through in the life l from a to b, both ends included.
Passed(l, a, b) ==
  {m \in Msgs : verdict[m] = "sent" /\ born[m] = l /\ a <= at[m] /\ at[m] <= b}
PassedTo(t, l, a, b) == {m \in Passed(l, a, b) : To[m] = t}

\* "caps an automated flood": no window of sendRateWindow, wherever it begins, has
\* more than sendRateMax messages of one sender, as long as the process lives and
\* however often the idle record is swept.
GlobalBound ==
  \A l \in 0..life, a \in 0..now : Cardinality(Passed(l, a, a + Window)) <= GlobalMax

\* "the limit that actually protects a victim": nor more than perTargetMax that are
\* let through to one recipient.
VictimBound ==
  \A t \in Targets, l \in 0..life, a \in 0..now :
    Cardinality(PassedTo(t, l, a, a + Window)) <= TargetMax

\* Both, for every window at once (allowSendTo).
WindowsAreBounded == GlobalBound /\ VictimBound

\* "A flooder tripping the limit hundreds of times must not get hundreds of
\* replies": two warnings of one life are at least warnCooldown apart.
WarningsApart ==
  \A m, n \in {k \in Msgs : verdict[k] = "warned"} :
    m # n /\ born[m] = born[n] =>
      at[m] - at[n] >= WarnCooldown \/ at[n] - at[m] >= WarnCooldown

\* "A human conversation never needs this many": whoever is refused has really
\* filled one of the limits in the window before, so that time served, an eviction or
\* a refused attempt never counts against a sender (prune, allowSendTo).
RefusalsAreEarned ==
  \A m \in Msgs : verdict[m] \in {"warned", "silent"} =>
    \/ Cardinality(Passed(born[m], at[m] - Window, at[m])) >= GlobalMax
    \/ /\ To[m] \in Targets
       /\ Cardinality(PassedTo(To[m], born[m], at[m] - Window, at[m])) >= TargetMax
=============================================================================
