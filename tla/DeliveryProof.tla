--------------------------- MODULE DeliveryProof ---------------------------
(***************************************************************************)
(* The laws of one sender's messages, for every number of messages and     *)
(* targets, every limit and window, any number of failures and any moves   *)
(* of the targets.                                                         *)
(*                                                                         *)
(* First those of SendLimit: the bounds follow from what the record        *)
(* remembers, for whatever was let through in this life and is not older   *)
(* than one window is in the slices, and nothing else is.  Delivery        *)
(* implements SendLimit, so they are its laws as well.  Then those of what *)
(* the sender is told, and of what reaches a target who shut the door.     *)
(***************************************************************************)
EXTENDS Delivery, FiniteSetTheorems, TLAPS

USE SendLimitAssumption, RedeliveryAssumption, DeliveryAssumption

\* The slices hold messages let through in this life, each with its own target.
KeepsOnlyPassed ==
  /\ \A m \in sendTimes : verdict[m] = "sent" /\ born[m] = life
  /\ \A t \in Targets : \A m \in perTarget[t] :
       verdict[m] = "sent" /\ born[m] = life /\ To[m] = t

\* They hold every one of the last window.
KeepsTheRecent ==
  \A m \in Msgs : verdict[m] = "sent" /\ born[m] = life /\ at[m] >= now - Window =>
    /\ m \in sendTimes
    /\ To[m] \in Targets => m \in perTarget[To[m]]

\* Attempts lie in the past, those of this life not after the record's last access.
AttemptsArePast ==
  /\ lastAccess <= now /\ lastWarn <= now
  /\ \A m \in Msgs : verdict[m] # "none" =>
       /\ at[m] <= now /\ born[m] <= life
       /\ born[m] = life => at[m] <= lastAccess

\* A warning of this life is remembered until its cooldown has passed.
WarningsRemembered ==
  \A m \in Msgs : verdict[m] = "warned" /\ born[m] = life =>
    now - at[m] >= WarnCooldown \/ lastWarn >= at[m]

LimitInv ==
  /\ LimitTypeOK
  /\ KeepsOnlyPassed
  /\ KeepsTheRecent
  /\ AttemptsArePast
  /\ WarningsRemembered

-----------------------------------------------------------------------------
\* One more message than fewer than n are at most n.
LEMMA OneMore ==
  ASSUME NEW S \in SUBSET Msgs, NEW m \in Msgs, NEW n \in Nat,
         Cardinality(S) < n, NEW T \in SUBSET (S \cup {m})
  PROVE  Cardinality(T) <= n
<1>1. IsFiniteSet(S) /\ IsFiniteSet(S \cup {m})
  BY FS_Subset, FS_AddElement
<1>2. Cardinality(S \cup {m}) <= Cardinality(S) + 1
  BY <1>1, FS_AddElement, FS_CardinalityType
<1>3. Cardinality(T) <= Cardinality(S \cup {m})
  BY <1>1, FS_Subset
<1>4. /\ Cardinality(S) \in Nat /\ Cardinality(S \cup {m}) \in Nat
      /\ Cardinality(T) \in Nat
  BY <1>1, FS_Subset, FS_CardinalityType
<1> QED
  BY <1>2, <1>3, <1>4

\* No messages are within every limit.
LEMMA NoneIsFew ==
  ASSUME NEW n \in Nat
  PROVE  Cardinality({}) <= n
BY FS_EmptySet

LEMMA PruneKeeps ==
  ASSUME NEW S \in SUBSET Msgs
  PROVE  Prune(S) \subseteq S /\ Prune(S) \in SUBSET Msgs
BY DEF Prune

-----------------------------------------------------------------------------
(* The invariant.                                                          *)

LEMMA InitLimitInv == LimitInit => LimitInv
BY DEF LimitInit, LimitInv, LimitTypeOK, KeepsOnlyPassed, KeepsTheRecent, AttemptsArePast,
       WarningsRemembered, Never

LEMMA AdmitKeepsLimitInv ==
  ASSUME LimitInv, NEW m \in Msgs, Admit(m)
  PROVE  LimitInv'
<1> USE DEF LimitInv, Admit, Attempted
<1>1. LimitTypeOK'
  BY PruneKeeps DEF LimitTypeOK
<1>2. KeepsOnlyPassed'
  BY DEF LimitTypeOK, KeepsOnlyPassed, Prune
<1>3. KeepsTheRecent'
  BY DEF LimitTypeOK, KeepsTheRecent, Prune
<1>4. AttemptsArePast'
  BY DEF LimitTypeOK, AttemptsArePast
<1>5. WarningsRemembered'
  BY DEF LimitTypeOK, WarningsRemembered
<1> QED
  BY <1>1, <1>2, <1>3, <1>4, <1>5

LEMMA RejectKeepsLimitInv ==
  ASSUME LimitInv, NEW m \in Msgs, Reject(m)
  PROVE  LimitInv'
<1> USE DEF LimitInv, Reject, Attempted
<1>1. LimitTypeOK'
  BY PruneKeeps DEF LimitTypeOK
<1>2. KeepsOnlyPassed'
  BY DEF LimitTypeOK, KeepsOnlyPassed, Prune
<1>3. KeepsTheRecent'
  BY DEF LimitTypeOK, KeepsTheRecent, Prune
<1>4. AttemptsArePast'
  BY DEF LimitTypeOK, AttemptsArePast
<1>5. WarningsRemembered'
  BY DEF LimitTypeOK, WarningsRemembered, AttemptsArePast, WarnDue
<1> QED
  BY <1>1, <1>2, <1>3, <1>4, <1>5

LEMMA TickKeepsLimitInv == LimitInv /\ Tick => LimitInv'
BY DEF LimitInv, Tick, record, LimitTypeOK, KeepsOnlyPassed, KeepsTheRecent, AttemptsArePast,
       WarningsRemembered

\* What the sweep forgets is older than a window and a cooldown.
LEMMA SweepKeepsLimitInv == LimitInv /\ Sweep => LimitInv'
BY DEF LimitInv, Sweep, Forgotten, Never, LimitTypeOK, KeepsOnlyPassed, KeepsTheRecent,
       AttemptsArePast, WarningsRemembered

LEMMA RestartKeepsLimitInv == LimitInv /\ Restart => LimitInv'
BY DEF LimitInv, Restart, Forgotten, Never, LimitTypeOK, KeepsOnlyPassed, KeepsTheRecent,
       AttemptsArePast, WarningsRemembered

LEMMA NextKeepsLimitInv == LimitInv /\ [LimitNext]_limitVars => LimitInv'
<1>1. LimitInv /\ UNCHANGED limitVars => LimitInv'
  BY DEF limitVars, LimitInv, LimitTypeOK, KeepsOnlyPassed, KeepsTheRecent, AttemptsArePast,
         WarningsRemembered
<1> QED
  BY <1>1, AdmitKeepsLimitInv, RejectKeepsLimitInv, TickKeepsLimitInv, SweepKeepsLimitInv,
     RestartKeepsLimitInv DEF LimitNext

LEMMA Remembers == LimitSpec => []LimitInv
BY InitLimitInv, NextKeepsLimitInv, PTL DEF LimitSpec

\* The limits' state is well typed whatever the sender does (allowSendTo).
THEOREM LimitTypeCorrect == LimitSpec => []LimitTypeOK
<1>1. LimitInv => LimitTypeOK
  BY DEF LimitInv
<1> QED
  BY <1>1, Remembers, PTL

-----------------------------------------------------------------------------
(* The bounds.                                                             *)

\* Steps other than an admission let nothing through and begin no window with
\* anything in it.
LEMMA OthersPassNothing ==
  ASSUME LimitInv, [LimitNext]_limitVars, \A m \in Msgs : ~Admit(m),
         NEW l \in 0..life', NEW a \in 0..now', NEW b \in Int
  PROVE  /\ Passed(l, a, b)' = Passed(l, a, b)
         /\ l \notin 0..life \/ a \notin 0..now => Passed(l, a, b) = {}
<1>1. Passed(l, a, b)' = Passed(l, a, b)
  <2>1. ASSUME NEW m \in Msgs, Reject(m) PROVE Passed(l, a, b)' = Passed(l, a, b)
    BY <2>1 DEF Reject, Attempted, Passed, LimitInv, LimitTypeOK
  <2>2. Tick \/ Sweep \/ Restart \/ UNCHANGED limitVars => Passed(l, a, b)' = Passed(l, a, b)
    BY DEF Tick, Sweep, Restart, limitVars, Passed
  <2> QED
    BY <2>1, <2>2 DEF LimitNext
<1>2. l \notin 0..life \/ a \notin 0..now => Passed(l, a, b) = {}
  BY DEF LimitInv, LimitTypeOK, AttemptsArePast, Passed
<1> QED
  BY <1>1, <1>2

\* An admission adds its message to the windows around it, and what these held is
\* in the pruned slices.
LEMMA AdmissionsAreCounted ==
  ASSUME LimitInv, NEW m \in Msgs, Admit(m), NEW l \in 0..life, NEW a \in 0..now
  PROVE  /\ now \in Nat /\ life \in Nat /\ now' = now /\ life' = life
         /\ \/ Passed(l, a, a + Window)' = Passed(l, a, a + Window)
            \/ /\ Passed(l, a, a + Window)' \subseteq Prune(sendTimes) \cup {m}
               /\ To[m] \in Targets => PassedTo(To[m], l, a, a + Window)'
                                         \subseteq Prune(perTarget[To[m]]) \cup {m}
<1> USE DEF LimitInv, LimitTypeOK, Admit, Attempted
<1>1. now \in Nat /\ life \in Nat /\ now' = now /\ life' = life
  OBVIOUS
<1>2. ASSUME l # life \/ now > a + Window
      PROVE  Passed(l, a, a + Window)' = Passed(l, a, a + Window)
  BY <1>1, <1>2 DEF Passed
<1>3. ASSUME l = life, now <= a + Window
      PROVE  /\ Passed(l, a, a + Window)' \subseteq Prune(sendTimes) \cup {m}
             /\ To[m] \in Targets => PassedTo(To[m], l, a, a + Window)'
                                       \subseteq Prune(perTarget[To[m]]) \cup {m}
  BY <1>1, <1>3 DEF Passed, PassedTo, Prune, KeepsTheRecent
<1> QED
  BY <1>1, <1>2, <1>3

LEMMA GlobalBoundStep == LimitInv /\ GlobalBound /\ [LimitNext]_limitVars => GlobalBound'
<1> SUFFICES ASSUME LimitInv, GlobalBound, [LimitNext]_limitVars,
                    NEW l \in 0..life', NEW a \in 0..now'
             PROVE  Cardinality(Passed(l, a, a + Window)') <= GlobalMax
  BY DEF GlobalBound, Passed
<1>1. CASE \E m \in Msgs : Admit(m)
  <2> PICK m \in Msgs : Admit(m)
    BY <1>1
  <2>1. now' = now /\ life' = life
    BY DEF Admit, Attempted
  <2>2. Cardinality(Prune(sendTimes)) < GlobalMax /\ Prune(sendTimes) \in SUBSET Msgs
    <3>1. Prune(sendTimes) \in SUBSET Msgs
      BY PruneKeeps DEF LimitInv, LimitTypeOK
    <3>2. Cardinality(Prune(sendTimes)) \in Nat
      BY <3>1, FS_Subset, FS_CardinalityType
    <3> QED
      BY <3>1, <3>2 DEF Admit, OverGlobal
  <2>3. \/ Passed(l, a, a + Window)' = Passed(l, a, a + Window)
        \/ Passed(l, a, a + Window)' \subseteq Prune(sendTimes) \cup {m}
    BY <2>1, AdmissionsAreCounted
  <2> QED
    BY <2>1, <2>2, <2>3, OneMore DEF GlobalBound
<1>2. CASE \A m \in Msgs : ~Admit(m)
  <2>1. a + Window \in Int
    BY NextKeepsLimitInv DEF LimitInv, LimitTypeOK
  <2>2. /\ Passed(l, a, a + Window)' = Passed(l, a, a + Window)
        /\ l \notin 0..life \/ a \notin 0..now => Passed(l, a, a + Window) = {}
    BY <1>2, <2>1, OthersPassNothing
  <2> QED
    BY <2>2, NoneIsFew DEF GlobalBound
<1> QED
  BY <1>1, <1>2

\* No window of sendRateWindow has more than sendRateMax messages of the sender.
THEOREM OutputIsBounded == LimitSpec => []GlobalBound
<1>1. LimitInit => GlobalBound
  BY NoneIsFew DEF LimitInit, GlobalBound, Passed
<1> QED
  BY <1>1, Remembers, GlobalBoundStep, PTL DEF LimitSpec

LEMMA VictimBoundStep == LimitInv /\ VictimBound /\ [LimitNext]_limitVars => VictimBound'
<1> SUFFICES ASSUME LimitInv, VictimBound, [LimitNext]_limitVars, NEW t \in Targets,
                    NEW l \in 0..life', NEW a \in 0..now'
             PROVE  Cardinality(PassedTo(t, l, a, a + Window)') <= TargetMax
  BY DEF VictimBound, PassedTo, Passed
<1>1. ASSUME NEW m \in Msgs, Admit(m)
      PROVE  Cardinality(PassedTo(t, l, a, a + Window)') <= TargetMax
  <2>1. now' = now /\ life' = life
    BY <1>1 DEF Admit, Attempted
  <2>2. CASE t # To[m] \/ Passed(l, a, a + Window)' = Passed(l, a, a + Window)
    <3>1. PassedTo(t, l, a, a + Window)' = PassedTo(t, l, a, a + Window)
      BY <1>1, <2>2 DEF PassedTo, Passed, Admit, Attempted, LimitInv, LimitTypeOK
    <3> QED
      BY <2>1, <3>1 DEF VictimBound
  <2>3. CASE t = To[m] /\ Passed(l, a, a + Window)' # Passed(l, a, a + Window)
    <3>1. PassedTo(t, l, a, a + Window)' \subseteq Prune(perTarget[t]) \cup {m}
      BY <1>1, <2>1, <2>3, AdmissionsAreCounted
    <3>2. Prune(perTarget[t]) \in SUBSET Msgs
      BY PruneKeeps DEF LimitInv, LimitTypeOK
    <3>3. Cardinality(Prune(perTarget[t])) \in Nat
      BY <3>2, FS_Subset, FS_CardinalityType
    <3>4. Cardinality(Prune(perTarget[t])) < TargetMax
      BY <1>1, <2>3, <3>3 DEF Admit, OverTarget
    <3> QED
      BY <3>1, <3>2, <3>4, OneMore
  <2> QED
    BY <2>2, <2>3
<1>2. CASE \A m \in Msgs : ~Admit(m)
  <2>1. a + Window \in Int
    BY NextKeepsLimitInv DEF LimitInv, LimitTypeOK
  <2>2. /\ Passed(l, a, a + Window)' = Passed(l, a, a + Window)
        /\ l \notin 0..life \/ a \notin 0..now => Passed(l, a, a + Window) = {}
    BY <1>2, <2>1, OthersPassNothing
  <2>3. /\ PassedTo(t, l, a, a + Window)' = PassedTo(t, l, a, a + Window)
        /\ l \notin 0..life \/ a \notin 0..now => PassedTo(t, l, a, a + Window) = {}
    BY <2>2 DEF PassedTo
  <2> QED
    BY <2>3, NoneIsFew DEF VictimBound
<1> QED
  BY <1>1, <1>2

\* Nor more than perTargetMax that go to one recipient.
THEOREM VictimsAreProtected == LimitSpec => []VictimBound
<1>1. LimitInit => VictimBound
  BY NoneIsFew DEF LimitInit, VictimBound, PassedTo, Passed
<1> QED
  BY <1>1, Remembers, VictimBoundStep, PTL DEF LimitSpec

\* Both bounds, in every window (allowSendTo).
THEOREM NoWindowOverflows == LimitSpec => []WindowsAreBounded
<1>1. GlobalBound /\ VictimBound => WindowsAreBounded
  BY DEF WindowsAreBounded
<1> QED
  BY <1>1, OutputIsBounded, VictimsAreProtected, PTL

-----------------------------------------------------------------------------
(* The warnings.                                                           *)

LEMMA WarningsApartStep == LimitInv /\ WarningsApart /\ [LimitNext]_limitVars => WarningsApart'
<1> SUFFICES ASSUME LimitInv, WarningsApart, [LimitNext]_limitVars
             PROVE  WarningsApart'
  OBVIOUS
<1>1. ASSUME NEW m \in Msgs, Admit(m) PROVE WarningsApart'
  BY <1>1 DEF Admit, Attempted, WarningsApart, LimitInv, LimitTypeOK
<1>2. ASSUME NEW m \in Msgs, Reject(m) PROVE WarningsApart'
  <2>1. CASE verdict'[m] = "silent"
    BY <1>2, <2>1 DEF Reject, Attempted, WarningsApart, LimitInv, LimitTypeOK
  <2>2. CASE verdict'[m] = "warned"
    <3>1. WarnDue /\ Attempted(m, "warned")
      BY <1>2, <2>2 DEF Reject, Attempted, LimitInv, LimitTypeOK
    <3>2. \A n \in Msgs : verdict[n] = "warned" /\ born[n] = life => now - at[n] >= WarnCooldown
      BY <3>1 DEF WarnDue, LimitInv, LimitTypeOK, WarningsRemembered, AttemptsArePast
    <3> QED
      BY <3>1, <3>2 DEF Attempted, WarningsApart, LimitInv, LimitTypeOK
  <2> QED
    BY <1>2, <2>1, <2>2 DEF Reject, Attempted, LimitInv, LimitTypeOK
<1>3. Tick \/ Sweep \/ Restart \/ UNCHANGED limitVars => WarningsApart'
  BY DEF Tick, Sweep, Restart, limitVars, WarningsApart
<1> QED
  BY <1>1, <1>2, <1>3 DEF LimitNext

\* A sender is told to slow down at most once per warnCooldown.
THEOREM WarningsAreRare == LimitSpec => []WarningsApart
<1>1. LimitInit => WarningsApart
  BY DEF LimitInit, WarningsApart
<1> QED
  BY <1>1, Remembers, WarningsApartStep, PTL DEF LimitSpec
-----------------------------------------------------------------------------
(* The refusals.                                                           *)

\* What was let through stays let through.
LEMMA PassedGrows ==
  ASSUME LimitInv, [LimitNext]_limitVars, NEW l \in Int, NEW a \in Int, NEW b \in Int
  PROVE  Passed(l, a, b) \subseteq Passed(l, a, b)'
<1>1. ASSUME NEW m \in Msgs, Admit(m) \/ Reject(m)
      PROVE  Passed(l, a, b) \subseteq Passed(l, a, b)'
  BY <1>1 DEF Admit, Reject, Attempted, Passed, LimitInv, LimitTypeOK
<1>2. Tick \/ Sweep \/ Restart \/ UNCHANGED limitVars => Passed(l, a, b)' = Passed(l, a, b)
  BY DEF Tick, Sweep, Restart, limitVars, Passed
<1> QED
  BY <1>1, <1>2 DEF LimitNext

\* A larger set of messages reaches a limit that a smaller one reaches.
LEMMA MoreReachesIt ==
  ASSUME NEW S \in SUBSET Msgs, NEW T \in SUBSET S, NEW n \in Nat, Cardinality(T) >= n
  PROVE  Cardinality(S) >= n
<1>1. IsFiniteSet(S) /\ Cardinality(T) <= Cardinality(S)
  BY FS_Subset
<1>2. Cardinality(S) \in Nat /\ Cardinality(T) \in Nat
  BY <1>1, FS_Subset, FS_CardinalityType
<1> QED
  BY <1>1, <1>2

\* A refused message has a full window behind it.
FullBehind(m) ==
  \/ Cardinality(Passed(born[m], at[m] - Window, at[m])) >= GlobalMax
  \/ /\ To[m] \in Targets
     /\ Cardinality(PassedTo(To[m], born[m], at[m] - Window, at[m])) >= TargetMax

LEMMA FullStaysFull ==
  ASSUME LimitInv, [LimitNext]_limitVars, NEW m \in Msgs, FullBehind(m),
         born'[m] = born[m], at'[m] = at[m]
  PROVE  FullBehind(m)'
<1> DEFINE l == born[m]  a == at[m] - Window  b == at[m]
<1>1. l \in Int /\ a \in Int /\ b \in Int
  BY DEF LimitInv, LimitTypeOK
<1>2. Passed(l, a, b) \subseteq Passed(l, a, b)'
  BY <1>1, PassedGrows
<1>3. /\ Passed(l, a, b)' \in SUBSET Msgs /\ PassedTo(To[m], l, a, b)' \in SUBSET Msgs
      /\ PassedTo(To[m], l, a, b) \subseteq PassedTo(To[m], l, a, b)'
  BY <1>2 DEF Passed, PassedTo
<1>4. Cardinality(Passed(l, a, b)) >= GlobalMax => Cardinality(Passed(l, a, b)') >= GlobalMax
  BY <1>2, <1>3, MoreReachesIt
<1>5. Cardinality(PassedTo(To[m], l, a, b)) >= TargetMax
        => Cardinality(PassedTo(To[m], l, a, b)') >= TargetMax
  BY <1>3, MoreReachesIt
<1>6. /\ Passed(l, a, b)' = Passed(born[m], at[m] - Window, at[m])'
      /\ PassedTo(To[m], l, a, b)' = PassedTo(To[m], born[m], at[m] - Window, at[m])'
  BY DEF Passed, PassedTo
<1> QED
  BY <1>4, <1>5, <1>6 DEF FullBehind

LEMMA RefusedIsFull ==
  ASSUME LimitInv, NEW m \in Msgs, Reject(m)
  PROVE  FullBehind(m)'
<1>1. /\ born'[m] = life /\ at'[m] = now
      /\ \A k \in Msgs : verdict[k] = "sent" =>
           verdict'[k] = "sent" /\ born'[k] = born[k] /\ at'[k] = at[k]
  BY DEF Reject, Attempted, LimitInv, LimitTypeOK
<1>2. CASE OverGlobal
  <2>1. /\ Prune(sendTimes) \subseteq Passed(born[m], at[m] - Window, at[m])'
        /\ Passed(born[m], at[m] - Window, at[m])' \in SUBSET Msgs
    BY <1>1 DEF Prune, Passed, LimitInv, LimitTypeOK, KeepsOnlyPassed, AttemptsArePast
  <2> QED
    BY <1>2, <2>1, MoreReachesIt DEF OverGlobal, FullBehind
<1>3. CASE OverTarget(To[m])
  <2>1. /\ Prune(perTarget[To[m]]) \subseteq PassedTo(To[m], born[m], at[m] - Window, at[m])'
        /\ PassedTo(To[m], born[m], at[m] - Window, at[m])' \in SUBSET Msgs
    BY <1>1, <1>3 DEF Prune, Passed, PassedTo, OverTarget, LimitInv, LimitTypeOK,
                      KeepsOnlyPassed, AttemptsArePast
  <2> QED
    BY <1>3, <2>1, MoreReachesIt DEF OverTarget, FullBehind
<1> QED
  BY <1>2, <1>3 DEF Reject

LEMMA RefusalsStep == LimitInv /\ RefusalsAreEarned /\ [LimitNext]_limitVars => RefusalsAreEarned'
<1> SUFFICES ASSUME LimitInv, RefusalsAreEarned, [LimitNext]_limitVars,
                    NEW k \in Msgs, verdict'[k] \in {"warned", "silent"}
             PROVE  FullBehind(k)'
  BY DEF RefusalsAreEarned, FullBehind, Passed, PassedTo
<1>1. CASE verdict[k] \in {"warned", "silent"}
  <2>1. born'[k] = born[k] /\ at'[k] = at[k]
    BY <1>1 DEF LimitNext, Admit, Reject, Attempted, Tick, Sweep, Restart, limitVars, LimitInv,
                LimitTypeOK
  <2> QED
    BY <1>1, <2>1, FullStaysFull DEF RefusalsAreEarned, FullBehind
<1>2. CASE verdict[k] \notin {"warned", "silent"}
  <2>1. Reject(k)
    BY <1>2 DEF LimitNext, Admit, Reject, Attempted, Tick, Sweep, Restart, limitVars, LimitInv,
                LimitTypeOK
  <2> QED
    BY <2>1, RefusedIsFull
<1> QED
  BY <1>1, <1>2

\* Only a sender who has filled a limit in the window before is refused.
THEOREM RefusalsAreDeserved == LimitSpec => []RefusalsAreEarned
<1>1. LimitInit => RefusalsAreEarned
  BY DEF LimitInit, RefusalsAreEarned
<1> QED
  BY <1>1, Remembers, RefusalsStep, PTL DEF LimitSpec

-----------------------------------------------------------------------------
(* Delivery implements SendLimit.                                          *)

LEMMA StepsAreLimitSteps == [Next]_vars => [LimitNext]_limitVars
<1>1. ASSUME NEW m \in Msgs, Accept(m) \/ Refuse(m) \/ DrainNotice(m) PROVE [LimitNext]_limitVars
  BY <1>1 DEF Accept, Refuse, DrainNotice, rest, LimitNext
<1>2. Step => UNCHANGED limitVars
  BY DEF Step, CheckTarget, CheckBlock, Notify, Copy, Preview, Warn, Tags, StatementFails
<1>3. ASSUME NEW t \in Targets, ToggleBlock(t) PROVE UNCHANGED limitVars
  BY <1>3 DEF ToggleBlock
<1>4. ASSUME NEW l \in Loops, NEW r \in Rows, Drain(l, r) PROVE UNCHANGED limitVars
  BY <1>4 DEF Drain, rest
<1>5. MoveLink \/ TimePasses \/ Die \/ UNCHANGED vars => [LimitNext]_limitVars
  BY DEF MoveLink, TimePasses, Die, LimitNext, vars
<1> QED
  BY <1>1, <1>2, <1>3, <1>4, <1>5 DEF Next

\* One sender's messages are admitted by the limits and by nothing else: Delivery
\* implements SendLimit, the part of its state that Delivery has (sendMsgCore calls
\* allowSendTo first).
THEOREM DeliveryIsLimited == Spec => LimitSpec
<1>1. Init => LimitInit
  BY DEF Init
<1> QED
  BY <1>1, StepsAreLimitSteps, PTL DEF Spec, LimitSpec

\* So the limits hold for the sender of Delivery: no window overflows, warnings are
\* rare, and refusals are deserved (allowSendTo as sendMsgCore calls it).
THEOREM SendersAreLimited == Spec => [](WindowsAreBounded /\ WarningsApart /\ RefusalsAreEarned)
BY DeliveryIsLimited, NoWindowOverflows, WarningsAreRare, RefusalsAreDeserved, PTL

-----------------------------------------------------------------------------
(* The outbox.                                                             *)

\* A send with one row at most, in one hand at most, and with none once it has arrived.
Alone(s) ==
  /\ arrived[s] <= 1
  /\ \A q, r \in Outstanding(s) : q = r /\ arrived[s] = 0
  /\ \A l, k \in Loops : \A r \in holds[l] \cap holds[k] : r[1] = s => l = k

\* Only what was queued has rows or arrives twice, and a send is alone until something
\* repeats it.
Once(s) ==
  /\ Outstanding(s) # {} \/ arrived[s] > 1 => "queued" \in cause[s]
  /\ cause[s] \cap Repeats = {} => Alone(s)

LEMMA OutstandingRows ==
  ASSUME NEW s, NEW r
  PROVE  /\ r \in Outstanding(s) <=>
              r[1] = s /\ (r \in queued \/ \E l \in Loops : r \in holds[l])
         /\ r \in Outstanding(s)' <=>
              r[1] = s /\ (r \in queued' \/ \E l \in Loops : r \in holds'[l])
BY DEF Outstanding, Held

\* The rows of a send stay where they are.
RowsStay(s) ==
  \A r : r[1] = s => /\ (r \in queued') <=> (r \in queued)
                     /\ \A l \in Loops : (r \in holds'[l]) <=> (r \in holds[l])

LEMMA RowsUntouched ==
  ASSUME NEW s, RowsStay(s)
  PROVE  Outstanding(s)' = Outstanding(s)
<1>1. \A r : (r \in Outstanding(s)') <=> (r \in Outstanding(s))
  BY OutstandingRows DEF RowsStay
<1> QED
  BY <1>1

\* Nothing happened to a send.
LEMMA OnceUntouched ==
  ASSUME NEW s, Once(s), arrived'[s] = arrived[s], cause'[s] = cause[s], RowsStay(s)
  PROVE  Once(s)' /\ Outstanding(s)' = Outstanding(s)
<1>1. Outstanding(s)' = Outstanding(s)
  BY RowsUntouched
<1> QED
  BY <1>1 DEF Once, Alone, RowsStay

\* A send that has no row, and gets none.
LEMMA OnceWithoutRows ==
  ASSUME NEW s, Outstanding(s) = {}, UNCHANGED <<queued, holds>>, arrived'[s] \in {0, 1}
  PROVE  Once(s)' /\ Outstanding(s)' = {}
<1>1. Outstanding(s)' = {}
  BY OutstandingRows
<1> QED
  BY <1>1, OutstandingRows DEF Once, Alone

\* A new row.
LEMMA Enqueued ==
  ASSUME RedeliveryTypeOK, NEW s \in Sends, Enqueue(s), UNCHANGED holds
  PROVE  /\ queued' \subseteq Rows
         /\ \A r : r[1] # s => (r \in queued') <=> (r \in queued)
         /\ \E r \in Rows : r[1] = s /\ queued' = queued \cup {r} /\ Outstanding(s)' = Outstanding(s) \cup {r}
<1>1. PICK n \in 1..MaxRows : queued' = queued \cup {<<s, n>>}
  BY DEF Enqueue
<1>2. <<s, n>> \in Rows /\ <<s, n>>[1] = s
  BY DEF Rows
<1>3. Outstanding(s)' = Outstanding(s) \cup {<<s, n>>}
  BY <1>1, <1>2, OutstandingRows
<1> QED
  BY <1>1, <1>2, <1>3 DEF RedeliveryTypeOK

\* The first attempt at a send fails for now.
LEMMA FirstFailure ==
  ASSUME RedeliveryTypeOK, NEW s \in Sends, NEW C \in SUBSET {"lost", "queued"},
         arrived[s] = 0, Outstanding(s) = {}, FailsForNow(s, C), UNCHANGED holds,
         C \subseteq cause'[s]
  PROVE  /\ Once(s)' /\ queued' \subseteq Rows /\ arrived' \in [Sends -> 0..2]
         /\ \A r : r[1] # s => (r \in queued') <=> (r \in queued)
         /\ \A k \in Sends \ {s} : arrived'[k] = arrived[k]
         /\ arrived'[s] = (IF "lost" \in C THEN 1 ELSE 0)
         /\ "queued" \notin C => Outstanding(s)' = {}
<1>1. /\ arrived' \in [Sends -> 0..2]
      /\ \A k \in Sends \ {s} : arrived'[k] = arrived[k]
      /\ arrived'[s] = IF "lost" \in C THEN 1 ELSE 0
  BY DEF FailsForNow, Arrives, RedeliveryTypeOK
<1>2. "requeued" \notin C
  OBVIOUS
<1>3. \A l \in Loops : \A r \in holds[l] : r[1] # s
  BY OutstandingRows
<1>4. CASE "queued" \in C
  <2>1. Enqueue(s)
    BY <1>4 DEF FailsForNow
  <2>2. PICK r \in Rows : Outstanding(s)' = {r} /\ r[1] = s
    BY <2>1, Enqueued
  <2>3. "lost" \in C => "lost" \in cause'[s] \cap Repeats
    BY DEF Repeats
  <2> QED
    BY <1>1, <1>3, <1>4, <2>1, <2>2, <2>3, Enqueued DEF Once, Alone
<1>5. CASE "queued" \notin C
  <2>1. queued' = queued
    BY <1>2, <1>5 DEF FailsForNow
  <2> QED
    BY <1>1, <1>5, <2>1, OnceWithoutRows DEF RedeliveryTypeOK
<1> QED
  BY <1>4, <1>5

\* What a drain loop does, it does to one send, which has a row.
DrainsOnly(s) ==
  /\ RedeliveryTypeOK' /\ Outstanding(s) # {}
  /\ arrived'[s] \in {arrived[s], 1, 2} /\ (arrived[s] > 0 => arrived'[s] > 0)
  /\ cause' = [cause EXCEPT ![s] = cause'[s]]
  /\ cause[s] \subseteq cause'[s] /\ cause'[s] \subseteq cause[s] \cup Repeats
  /\ \A k \in Sends \ {s} : arrived'[k] = arrived[k] /\ cause'[k] = cause[k] /\ RowsStay(k)

LEMMA ClaimDrains ==
  ASSUME RedeliveryTypeOK, NEW T, cause \in [Sends -> T], NEW l \in Loops, NEW r \in Rows,
         Claim(l, r)
  PROVE  DrainsOnly(r[1]) /\ (Once(r[1]) => Once(r[1])')
<1> DEFINE s == r[1]
<1>1. s \in Sends /\ r \in queued /\ holds[l] = {} /\ UNCHANGED <<queued, arrived, faults>>
      /\ holds' = [holds EXCEPT ![l] = {r}]
  BY DEF Rows, Claim
<1>2. /\ (r \in Held) => cause' = [cause EXCEPT ![s] = @ \cup {"shared"}]
      /\ (r \notin Held) => cause' = cause
  BY DEF Claim, Blame
<1>3. Outstanding(s)' = Outstanding(s) /\ r \in Outstanding(s)
  <2>1. \A q : (q \in Outstanding(s)') <=> (q \in Outstanding(s))
    BY <1>1, OutstandingRows DEF RedeliveryTypeOK
  <2>2. Outstanding(s)' = Outstanding(s)
    BY <2>1
  <2> QED
    BY <1>1, <2>2, OutstandingRows
<1>4. RedeliveryTypeOK'
  BY <1>1 DEF RedeliveryTypeOK
<1>5. cause[s] \subseteq cause'[s] /\ cause'[s] \subseteq cause[s] \cup {"shared"}
      /\ (r \in Held => "shared" \in cause'[s])
  BY <1>1, <1>2
<1>6. DrainsOnly(s)
  BY <1>1, <1>2, <1>3, <1>4, <1>5 DEF DrainsOnly, RowsStay, RedeliveryTypeOK, Repeats
<1>7. ASSUME Once(s) PROVE Once(s)'
  <2>1. ASSUME cause'[s] \cap Repeats = {} PROVE Alone(s)'
    <3>1. Alone(s) /\ r \notin Held
      BY <1>5, <1>7, <2>1 DEF Once, Repeats
    <3>2. \A k \in Loops : r \notin holds[k]
      BY <3>1 DEF Held
    <3> QED
      BY <1>1, <1>3, <3>1, <3>2 DEF Alone, RedeliveryTypeOK
  <2> QED
    BY <1>1, <1>3, <1>5, <1>7, <2>1 DEF Once
<1> QED
  BY <1>6, <1>7

LEMMA RetryDrains ==
  ASSUME RedeliveryTypeOK, NEW T, cause \in [Sends -> T], NEW l \in Loops, NEW r \in Rows,
         NEW cut, Retry(l, r, cut)
  PROVE  DrainsOnly(r[1]) /\ (Once(r[1]) => Once(r[1])')
<1> DEFINE s == r[1]
<1>1. s \in Sends /\ r \in holds[l] /\ holds' = [holds EXCEPT ![l] = @ \ {r}]
  BY DEF Rows, Retry
<1>2. r \in Outstanding(s) /\ holds' \in [Loops -> SUBSET Rows]
  BY <1>1, OutstandingRows DEF RedeliveryTypeOK
<1>3. faults' \in 0..MaxFaults
  BY DEF Retry, Fault, RedeliveryTypeOK
<1>4. Arrives(s) => /\ arrived' \in [Sends -> 0..2]
                    /\ arrived'[s] = IF arrived[s] = 0 THEN 1 ELSE 2
                    /\ \A k \in Sends \ {s} : arrived'[k] = arrived[k]
  BY <1>1 DEF Arrives, RedeliveryTypeOK
<1>5. ASSUME NEW C, Blame(s, C)
      PROVE  /\ cause'[s] = cause[s] \cup C
             /\ \A k \in Sends \ {s} : cause'[k] = cause[k]
             /\ cause' = [cause EXCEPT ![s] = cause'[s]]
  BY <1>1, <1>5 DEF Blame
<1>6. CASE /\ queued' = Removed(r)
           /\ Arrives(s) \/ UNCHANGED arrived
           /\ UNCHANGED <<cause, faults>>
  <2>1. queued' = queued \ {r} /\ cause' = cause
    BY <1>6 DEF Removed
  <2>2. DrainsOnly(s)
    BY <1>1, <1>2, <1>3, <1>4, <1>6, <2>1 DEF DrainsOnly, RowsStay, RedeliveryTypeOK
  <2>3. Outstanding(s)' \subseteq Outstanding(s)
    BY <1>1, <2>1, OutstandingRows DEF RedeliveryTypeOK
  <2>4. ASSUME Alone(s) PROVE Alone(s)'
    <3>1. Outstanding(s) = {r} /\ arrived[s] = 0
      BY <1>2, <2>4 DEF Alone
    <3>2. \A k \in Loops : r \notin holds'[k]
      BY <1>1, <2>4 DEF Alone, RedeliveryTypeOK
    <3>3. Outstanding(s)' = {}
      BY <2>1, <2>3, <3>1, <3>2, OutstandingRows
    <3> QED
      BY <1>1, <1>4, <1>6, <2>4, <3>1, <3>3 DEF Alone, RedeliveryTypeOK
  <2> QED
    BY <1>2, <2>1, <2>2, <2>3, <2>4 DEF Once
<1>7. ASSUME NEW C \in SUBSET Repeats, Blame(s, C), Arrives(s) \/ UNCHANGED arrived,
             UNCHANGED queued \/ Enqueue(s) , 
             C = {} => UNCHANGED <<arrived, queued>>
      PROVE  DrainsOnly(s) /\ (Once(s) => Once(s)')
  <2>1. queued' \subseteq Rows /\ \A q : q[1] # s => (q \in queued') <=> (q \in queued)
    <3>1. CASE UNCHANGED queued
      BY <3>1 DEF RedeliveryTypeOK
    <3>2. CASE Enqueue(s)
      BY <1>1, <3>2 DEF Enqueue, Rows, RedeliveryTypeOK
    <3> QED
      BY <1>7, <3>1, <3>2
  <2>2. DrainsOnly(s)
    BY <1>1, <1>2, <1>3, <1>4, <1>5, <1>7, <2>1 DEF DrainsOnly, RowsStay, RedeliveryTypeOK
  <2>3. ASSUME Once(s) PROVE Once(s)'
    <3>1. "queued" \in cause'[s]
      BY <1>2, <1>5, <1>7, <2>3 DEF Once
    <3>2. CASE C # {}
      BY <1>5, <1>7, <3>1, <3>2 DEF Once
    <3>3. CASE C = {}
      <4>1. Outstanding(s)' \subseteq Outstanding(s)
        BY <1>1, <1>7, <3>3, OutstandingRows DEF RedeliveryTypeOK
      <4>2. cause'[s] = cause[s] /\ arrived'[s] = arrived[s]
        BY <1>5, <1>7, <3>3
      <4>3. Alone(s) => Alone(s)'
        BY <1>1, <4>1, <4>2 DEF Alone, RedeliveryTypeOK
      <4> QED
        BY <2>3, <3>1, <4>2, <4>3 DEF Once
    <3> QED
      BY <3>2, <3>3
  <2> QED
    BY <2>2, <2>3
<1>8. CASE Arrives(s) /\ Blame(s, {"kept"}) /\ UNCHANGED queued
  BY <1>7, <1>8 DEF Repeats
<1>9. ASSUME NEW C \in SUBSET {"lost", "requeued"}, FailsForNow(s, C), Blame(s, C)
      PROVE  DrainsOnly(s) /\ (Once(s) => Once(s)')
  <2>1. C \in SUBSET Repeats
    BY DEF Repeats
  <2> QED
    BY <1>7, <1>9, <2>1 DEF FailsForNow
<1> QED
  BY <1>6, <1>8, <1>9 DEF Retry

LEMMA GiveUpDrains ==
  ASSUME RedeliveryTypeOK, NEW T, cause \in [Sends -> T], NEW r \in Rows, GiveUp(r)
  PROVE  DrainsOnly(r[1]) /\ (Once(r[1]) => Once(r[1])')
<1> DEFINE s == r[1]
<1>1. s \in Sends /\ r \in queued /\ queued' = queued \ {r}
      /\ UNCHANGED <<holds, arrived, cause, faults>>
  BY DEF Rows, GiveUp
<1>2. r \in Outstanding(s) /\ Outstanding(s)' \subseteq Outstanding(s)
  BY <1>1, OutstandingRows
<1>3. DrainsOnly(s)
  BY <1>1, <1>2 DEF DrainsOnly, RowsStay, RedeliveryTypeOK
<1> QED
  BY <1>1, <1>2, <1>3 DEF Once, Alone

\* A process that dies drops what its loop has in hand.
LEMMA DropsKeepOnce ==
  ASSUME NEW s, Once(s), RedeliveryTypeOK, cause[s] \subseteq cause'[s], UNCHANGED <<queued, arrived>>,
         holds' = [holds EXCEPT ![Own] = {}]
  PROVE  Once(s)' /\ Outstanding(s)' \subseteq Outstanding(s)
<1>1. Outstanding(s)' \subseteq Outstanding(s)
  BY OutstandingRows DEF RedeliveryTypeOK
<1>2. Alone(s) => Alone(s)'
  BY <1>1 DEF Alone, RedeliveryTypeOK
<1> QED
  BY <1>1, <1>2 DEF Once

-----------------------------------------------------------------------------
(* The state of Delivery.                                                  *)

\* A step that notes something about one message notes nothing about the others.
NotesOnly(m) ==
  /\ told' \in [Msgs -> SUBSET Notices] /\ cause' \in [Msgs -> SUBSET Causes]
  /\ told[m] \subseteq told'[m] /\ cause[m] \subseteq cause'[m]
  /\ \A k \in Msgs \ {m} : told'[k] = told[k] /\ cause'[k] = cause[k]

LEMMA TellBlame ==
  ASSUME TypeOK, NEW m \in Msgs, NEW N \in SUBSET Notices, NEW C \in SUBSET Causes,
         Tell(m, N), Blame(m, C)
  PROVE  /\ NotesOnly(m)
         /\ told'[m] = told[m] \cup N /\ cause'[m] = cause[m] \cup C
BY DEF TypeOK, NotesOnly, Tell, Blame

LEMMA TellOnly ==
  ASSUME TypeOK, NEW m \in Msgs, NEW N \in SUBSET Notices, Tell(m, N), UNCHANGED cause
  PROVE  NotesOnly(m) /\ told'[m] = told[m] \cup N
BY DEF TypeOK, NotesOnly, Tell

LEMMA BlameOnly ==
  ASSUME TypeOK, NEW m \in Msgs, NEW C \in SUBSET Causes, Blame(m, C), UNCHANGED told
  PROVE  NotesOnly(m) /\ cause'[m] = cause[m] \cup C
BY DEF TypeOK, NotesOnly, Blame

LEMMA FaultCounts == TypeOK /\ Fault => faults' \in 0..MaxFaults
BY DEF TypeOK, RedeliveryTypeOK, Fault

\* A reply tells the sender just that, or the cause is noted.
LEMMA Saying ==
  ASSUME TypeOK, NEW m \in Msgs, NEW n \in Notices, Say(m, n)
  PROVE  /\ Done /\ faults' \in 0..MaxFaults /\ NotesOnly(m)
         /\ told'[m] \subseteq told[m] \cup {n, "again"}
         /\ \/ told'[m] = told[m] \cup {n} /\ cause'[m] = cause[m]
            \/ "unheard" \in cause'[m]
<1>1. CASE Tell(m, {n}) /\ UNCHANGED <<cause, faults>>
  BY <1>1, TellOnly DEF Say, TypeOK, RedeliveryTypeOK
<1>2. CASE Fault /\ Blame(m, {"unheard"}) /\ \E N \in SUBSET {n, "again"} : Tell(m, N)
  <2> PICK N \in SUBSET {n, "again"} : Tell(m, N)
    BY <1>2
  <2>1. N \in SUBSET Notices /\ {"unheard"} \in SUBSET Causes
    BY DEF Notices, Causes
  <2>2. NotesOnly(m) /\ told'[m] = told[m] \cup N /\ cause'[m] = cause[m] \cup {"unheard"}
    BY <1>2, <2>1, TellBlame
  <2> QED
    BY <1>2, <2>2, FaultCounts DEF Say
<1> QED
  BY <1>1, <1>2 DEF Say

\* Asking again tells the sender so and notes C, or notes that nobody heard.
LEMMA Asking ==
  ASSUME TypeOK, NEW m \in Msgs, NEW C \in SUBSET Causes, AskAgain(m, C)
  PROVE  /\ Done /\ NotesOnly(m) /\ C \subseteq cause'[m]
         /\ \/ told'[m] = told[m] \cup {"again"}
            \/ told'[m] = told[m] /\ "unheard" \in cause'[m]
<1>1. CASE Tell(m, {"again"}) /\ Blame(m, C)
  <2>1. {"again"} \in SUBSET Notices
    BY DEF Notices
  <2> QED
    BY <1>1, <2>1, TellBlame DEF AskAgain
<1>2. CASE Blame(m, C \cup {"unheard"}) /\ UNCHANGED told
  <2>1. C \cup {"unheard"} \in SUBSET Causes
    BY DEF Causes
  <2> QED
    BY <1>2, <2>1, BlameOnly DEF AskAgain
<1> QED
  BY <1>1, <1>2 DEF AskAgain

\* A send Telegram refused is reported, or the cause is noted.
LEMMA Refusing ==
  ASSUME TypeOK, NEW m \in Msgs, Refused(m)
  PROVE  /\ Done /\ NotesOnly(m)
         /\ "sent" \in told'[m] => "sent" \in told[m]
         /\ told'[m] # {} \/ cause'[m] \cap {"unheard", "badId", "forbidden"} # {}
<1>1. ASSUME NEW n \in {"rejected", "incident"}, Tell(m, {n}), UNCHANGED cause
      PROVE  NotesOnly(m) /\ told'[m] = told[m] \cup {n}
  BY <1>1, TellOnly DEF Notices
<1>2. ASSUME Blame(m, {"unheard"}),
             NEW N \in (SUBSET {"rejected", "again"}) \cup {{"incident"}}, Tell(m, N)
      PROVE  /\ NotesOnly(m) /\ told'[m] = told[m] \cup N /\ "sent" \notin N
             /\ cause'[m] = cause[m] \cup {"unheard"}
  <2>1. N \in SUBSET Notices /\ {"unheard"} \in SUBSET Causes
    BY DEF Notices, Causes
  <2> QED
    BY <1>2, <2>1, TellBlame
<1>3. ASSUME NEW c \in {"badId", "forbidden"}, Blame(m, {c}), UNCHANGED told
      PROVE  NotesOnly(m) /\ cause'[m] = cause[m] \cup {c}
  <2>1. {c} \in SUBSET Causes
    BY DEF Causes
  <2> QED
    BY <1>3, <2>1, BlameOnly
<1> QED
  BY <1>1, <1>2, <1>3 DEF Refused, Silently

\* Only an announced answer is announced.
TypeInv == TypeOK /\ (pc = "notify" => cur \in Announced)

\* The handler's steps are about the message it is at, and either go on with it or end.
LEMMA HandlerStep ==
  ASSUME TypeInv, Step
  PROVE  /\ cur \in Msgs /\ pc # "idle"
         /\ UNCHANGED <<limitVars, target>>
         /\ NotesOnly(cur) /\ faults' \in 0..MaxFaults
         /\ \/ Done
            \/ /\ cur' = cur
               /\ pc' \in {"block", "notify", "copy", "preview", "warn", "tags"}
               /\ pc' = "notify" => cur \in Announced
<1> USE DEF TypeInv
<1>0. ASSUME pc # "idle" PROVE cur \in Msgs /\ cur # None
  BY <1>0 DEF TypeOK
<1>1. ASSUME pc # "idle", NEW C \in SUBSET Causes, StatementFails(C)
      PROVE  /\ NotesOnly(cur) /\ Done /\ faults' \in 0..MaxFaults
             /\ UNCHANGED <<limitVars, target>>
  BY <1>0, <1>1, Asking, FaultCounts DEF StatementFails
<1>2. ASSUME pc # "idle", Say(cur, "rejected")
      PROVE  NotesOnly(cur) /\ Done /\ faults' \in 0..MaxFaults
  BY <1>0, <1>2, Saying DEF Notices
<1>3. ASSUME pc # "idle", UNCHANGED <<told, cause, faults>>
      PROVE  NotesOnly(cur) /\ faults' \in 0..MaxFaults
  BY <1>0, <1>3 DEF NotesOnly, TypeOK, RedeliveryTypeOK
<1>4. CASE CheckTarget
  <2>1. {} \in SUBSET Causes
    OBVIOUS
  <2> QED
    BY <1>0, <1>1, <1>2, <1>3, <1>4, <2>1 DEF CheckTarget, Goto, target
<1>5. CASE CheckBlock
  <2>1. {} \in SUBSET Causes
    OBVIOUS
  <2> QED
    BY <1>0, <1>1, <1>2, <1>3, <1>5, <2>1 DEF CheckBlock, Goto, target
<1>6. CASE Notify
  <2>1. ASSUME Fault, Refused(cur) PROVE NotesOnly(cur) /\ Done /\ faults' \in 0..MaxFaults
    BY <1>0, <1>6, <2>1, Refusing, FaultCounts DEF Notify
  <2>2. ASSUME Fault, AskAgain(cur, {}) PROVE NotesOnly(cur) /\ Done /\ faults' \in 0..MaxFaults
    BY <1>0, <1>6, <2>2, Asking, FaultCounts DEF Notify
  <2> QED
    BY <1>0, <1>3, <1>6, <2>1, <2>2 DEF Notify, Goto, target
<1>7. CASE Copy
  <2>1. ASSUME Fault, Refused(cur) PROVE NotesOnly(cur) /\ Done /\ faults' \in 0..MaxFaults
    BY <1>0, <1>7, <2>1, Refusing, FaultCounts DEF Copy
  <2>2. ASSUME NEW C \in SUBSET {"lost", "queued"}, Fault, AskAgain(cur, C)
        PROVE  NotesOnly(cur) /\ Done /\ faults' \in 0..MaxFaults
    <3>1. C \in SUBSET Causes
      BY DEF Causes, Repeats
    <3> QED
      BY <1>0, <1>7, <2>2, <3>1, Asking, FaultCounts DEF Copy
  <2> QED
    BY <1>0, <1>3, <1>7, <2>1, <2>2 DEF Copy, Goto, target
<1>8. CASE Preview
  <2>1. {"after"} \in SUBSET Causes
    BY DEF Causes
  <2> QED
    BY <1>0, <1>1, <1>3, <1>8, <2>1 DEF Preview, Goto, target
<1>9. CASE Warn
  <2>1. {"after"} \in SUBSET Causes /\ {"after", "unheard"} \in SUBSET Causes
        /\ {"sent"} \in SUBSET Notices /\ {"sent", "again"} \in SUBSET Notices
    BY DEF Causes, Notices
  <2>2. ASSUME Goto("tags"), Tell(cur, {"sent"}), UNCHANGED <<cause, faults>>
        PROVE  NotesOnly(cur) /\ faults' \in 0..MaxFaults
    BY <1>0, <1>9, <2>1, <2>2, TellOnly DEF Warn, TypeOK, RedeliveryTypeOK
  <2>3. ASSUME Fault, Done, Blame(cur, {"after", "unheard"}),
               NEW N \in SUBSET {"sent", "again"}, Tell(cur, N)
        PROVE  NotesOnly(cur) /\ faults' \in 0..MaxFaults
    BY <1>0, <1>9, <2>1, <2>3, TellBlame, FaultCounts DEF Warn
  <2> QED
    BY <1>0, <1>1, <1>9, <2>1, <2>2, <2>3 DEF Warn, Goto, target
<1>10. CASE Tags
  <2>1. {"after"} \in SUBSET Causes
    BY DEF Causes
  <2> QED
    BY <1>0, <1>1, <1>3, <1>10, <2>1 DEF Tags, target
<1> QED
  BY <1>4, <1>5, <1>6, <1>7, <1>8, <1>9, <1>10 DEF Step

\* What they do to the target's chat and to the outbox, they do to that message.
LEMMA HandlerStepChat ==
  ASSUME TypeInv, Step
  PROVE  /\ RedeliveryTypeOK' /\ holds' = holds
         /\ pc # "copy" => UNCHANGED <<queued, arrived>>
         /\ \A k \in Msgs \ {cur} : arrived'[k] = arrived[k]
         /\ \A r : r[1] # cur => (r \in queued') <=> (r \in queued)
         /\ announcing' # announcing => pc = "notify" /\ announcing' = announcing \cup {cur}
         /\ announced' # announced => pc = "notify" /\ announced' = announced \cup {cur}
<1>0. cur \in Msgs /\ faults' \in 0..MaxFaults
  BY HandlerStep
<1>1. UNCHANGED chat \/ Notify \/ Copy
  BY DEF Step, CheckTarget, CheckBlock, Preview, Warn, Tags, StatementFails
<1>2. CASE UNCHANGED chat
  BY <1>0, <1>2 DEF chat, TypeInv, TypeOK, RedeliveryTypeOK
<1>3. CASE Notify
  BY <1>0, <1>3 DEF Notify, TypeInv, TypeOK, RedeliveryTypeOK
<1>4. CASE Copy
  <2>1. /\ pc = "copy" /\ UNCHANGED <<holds, announcing, announced>>
        /\ arrived' = arrived \/ Arrives(cur)
        /\ queued' = queued \/ Enqueue(cur)
    BY <1>4 DEF Copy, FailsForNow
  <2>2. arrived' \in [Msgs -> 0..2] /\ \A k \in Msgs \ {cur} : arrived'[k] = arrived[k]
    BY <2>1 DEF Arrives, TypeInv, TypeOK, RedeliveryTypeOK
  <2>3. queued' \subseteq Rows /\ \A r : r[1] # cur => (r \in queued') <=> (r \in queued)
    BY <1>0, <2>1, Enqueued DEF TypeInv, TypeOK, RedeliveryTypeOK
  <2> QED
    BY <1>0, <2>1, <2>2, <2>3 DEF TypeInv, TypeOK, RedeliveryTypeOK
<1> QED
  BY <1>1, <1>2, <1>3, <1>4

\* A drain loop does what it does to one message, with a row in the outbox.
LEMMA Draining ==
  ASSUME TypeInv, NEW l \in Loops, NEW r \in Rows, Drain(l, r)
  PROVE  /\ r[1] \in Msgs /\ DrainsOnly(r[1]) /\ (Once(r[1]) => Once(r[1])')
         /\ UNCHANGED <<rest, announcing, announced>>
<1>1. r[1] \in Msgs /\ RedeliveryTypeOK /\ cause \in [Sends -> SUBSET Causes]
  BY DEF Rows, TypeInv, TypeOK
<1> QED
  BY <1>1, ClaimDrains, RetryDrains, GiveUpDrains DEF Drain

LEMMA TypeStep == TypeInv /\ LimitTypeOK' /\ [Next]_vars => TypeInv'
<1> SUFFICES ASSUME TypeInv, LimitTypeOK', [Next]_vars PROVE TypeInv'
  OBVIOUS
<1> USE DEF TypeInv
<1>1. ASSUME NEW m \in Msgs, Accept(m) PROVE TypeInv'
  <2>1. CASE To[m] = NoTarget
    <3>1. Say(m, "rejected")
      BY <1>1, <2>1 DEF Accept
    <3>2. Done /\ faults' \in 0..MaxFaults /\ NotesOnly(m)
      BY <3>1, Saying DEF Notices
    <3> QED
      BY <1>1, <3>2 DEF Accept, Attempt, TypeOK, RedeliveryTypeOK, Done, chat, NotesOnly
  <2>2. CASE To[m] # NoTarget
    BY <1>1, <2>2 DEF Accept, Attempt, TypeOK, RedeliveryTypeOK, chat
  <2> QED
    BY <2>1, <2>2
<1>2. ASSUME NEW m \in Msgs, Refuse(m) PROVE TypeInv'
  <2>1. CASE verdict'[m] = "warned"
    <3>1. Say(m, "rejected")
      BY <1>2, <2>1 DEF Refuse
    <3>2. Done /\ faults' \in 0..MaxFaults /\ NotesOnly(m)
      BY <3>1, Saying DEF Notices
    <3> QED
      BY <1>2, <3>2 DEF Refuse, Attempt, TypeOK, RedeliveryTypeOK, Done, chat, NotesOnly
  <2>2. CASE verdict'[m] # "warned"
    BY <1>2, <2>2 DEF Refuse, Attempt, TypeOK, RedeliveryTypeOK, chat, handler
  <2> QED
    BY <2>1, <2>2
<1>3. ASSUME NEW l \in Loops, NEW r \in Rows, Drain(l, r) PROVE TypeInv'
  <2>1. cause' \in [Msgs -> SUBSET Causes]
    BY <1>3, Draining DEF DrainsOnly, TypeOK, Causes
  <2> QED
    BY <1>3, <2>1, Draining DEF DrainsOnly, TypeOK, rest, handler, target
<1>4. CASE Step
  <2>1. announced' \subseteq Announced /\ announcing' \subseteq Announced
    BY <1>4, HandlerStep, HandlerStepChat DEF TypeOK
  <2>2. told' \in [Msgs -> SUBSET Notices] /\ cause' \in [Msgs -> SUBSET Causes]
    BY <1>4, HandlerStep DEF NotesOnly
  <2>3. /\ cur' \in Msgs \cup {None} /\ (cur' = None) = (pc' = "idle")
        /\ pc' \in {"idle", "target", "block", "notify", "copy", "preview", "warn", "tags"}
        /\ pc' = "notify" => cur' \in Announced
    BY <1>4, HandlerStep DEF Done, TypeOK
  <2>4. blocks' = blocks /\ link' = link /\ admissible' = admissible /\ reachable' = reachable
        /\ moves' = moves
    BY <1>4, HandlerStep DEF target
  <2> QED
    BY <1>4, <2>1, <2>2, <2>3, <2>4, HandlerStep, HandlerStepChat DEF TypeOK
<1>5. ASSUME NEW t \in Targets, ToggleBlock(t) PROVE TypeInv'
  BY <1>5 DEF ToggleBlock, Tried, TypeOK, RedeliveryTypeOK, chat, handler
<1>6. CASE MoveLink
  BY <1>6 DEF MoveLink, Tried, TypeOK, RedeliveryTypeOK, chat, handler
<1>7. CASE TimePasses
  BY <1>7 DEF TimePasses, TypeOK, RedeliveryTypeOK, chat, handler, target
<1>8. CASE Die
  <2>1. cause' \in [Msgs -> SUBSET Causes]
    BY <1>8 DEF Die, Blame, Causes, TypeOK
  <2> QED
    BY <1>8, <2>1 DEF Die, Done, TypeOK, RedeliveryTypeOK, target
<1>9. CASE UNCHANGED vars
  BY <1>9 DEF vars, TypeOK, RedeliveryTypeOK, chat, handler, target
<1>10. ASSUME NEW m \in Msgs, DrainNotice(m) PROVE TypeInv'
  BY <1>10 DEF DrainNotice, TypeOK, RedeliveryTypeOK, rest, handler, target
<1> QED
  BY <1>1, <1>2, <1>3, <1>4, <1>5, <1>6, <1>7, <1>8, <1>9, <1>10 DEF Next

LEMMA TypesKept == Spec => []TypeInv
<1>1. Init => TypeInv
  BY DEF Init, TypeInv, TypeOK, LimitInit, LimitTypeOK, Never, RedeliveryInit,
         RedeliveryTypeOK, Notices, Causes
<1> QED
  BY <1>1, DeliveryIsLimited, LimitTypeCorrect, TypeStep, PTL DEF Spec

\* The state of a sender's messages is well typed at every step of the handler, the
\* outbox and the targets (sendMsgCore).
THEOREM TypeCorrect == Spec => []TypeOK
<1>1. TypeInv => TypeOK
  BY DEF TypeInv
<1> QED
  BY <1>1, TypesKept, PTL

-----------------------------------------------------------------------------
(* What the sender is told.                                                *)

\* What is known of one message.  Nothing has happened to it before it is attempted, the
\* outbox repeats it for a cause, and the last four conjuncts are the properties.
AccountOf(m) ==
  /\ verdict[m] = "none" =>
       /\ told[m] = {} /\ cause[m] = {} /\ arrived[m] = 0
       /\ Outstanding(m) = {} /\ m \notin announcing /\ m \notin announced
  /\ Once(m)
  /\ "sent" \in told[m] => arrived[m] > 0
  /\ "rejected" \in told[m] => arrived[m] = 0 /\ Outstanding(m) = {}
  /\ "again" \in told[m] /\ (arrived[m] > 0 \/ Outstanding(m) # {}) =>
       cause[m] \cap {"lost", "queued", "after"} # {}
  /\ verdict[m] # "none" /\ m # cur /\ told[m] = {} =>
       verdict[m] = "silent" \/ cause[m] \cap {"unheard", "badId", "forbidden", "died"} # {}

\* How far the handler has got with the message it is at: the copy is made in "copy" and
\* the sender told in "warn", and whatever goes wrong ends it.
Halfway ==
  pc # "idle" =>
    /\ verdict[cur] = "sent" /\ cause[cur] = {} /\ Outstanding(cur) = {}
    /\ pc \in {"target", "block", "notify", "copy"} => arrived[cur] = 0 /\ told[cur] = {}
    /\ pc \in {"preview", "warn"} => arrived[cur] = 1 /\ told[cur] = {}
    /\ pc = "tags" => arrived[cur] = 1 /\ told[cur] = {"sent"}

AccountInv == Halfway /\ \A m \in Msgs : AccountOf(m)

LEMMA AccountsAreTrue ==
  TypeInv /\ AccountInv => ToldTheTruth /\ CopiedTwiceHasACause /\ SilenceHasACause
<1> SUFFICES ASSUME TypeInv, AccountInv
             PROVE  ToldTheTruth /\ CopiedTwiceHasACause /\ SilenceHasACause
  OBVIOUS
<1>1. ASSUME NEW m \in Msgs, arrived[m] > 1
      PROVE  "queued" \in cause[m] /\ cause[m] \cap Repeats # {}
  <2>1. Once(m) /\ arrived[m] \in 0..2
    BY DEF AccountInv, AccountOf, TypeInv, TypeOK, RedeliveryTypeOK
  <2>2. ~Alone(m)
    BY <1>1, <2>1 DEF Alone
  <2> QED
    BY <1>1, <2>1, <2>2 DEF Once
<1>2. CopiedTwiceHasACause
  BY <1>1 DEF CopiedTwiceHasACause
<1> QED
  BY <1>2 DEF AccountInv, AccountOf, ToldTheTruth, SilenceHasACause, Tried

\* A step that does nothing to a message leaves what is known of it, unless the handler
\* leaves it as well.
LEMMA OthersKeepAccount ==
  ASSUME NEW m \in Msgs, AccountOf(m), m = cur => m = cur',
         verdict'[m] = verdict[m], told'[m] = told[m], cause'[m] = cause[m],
         arrived'[m] = arrived[m], RowsStay(m),
         m \in announcing' => m \in announcing, m \in announced' => m \in announced
  PROVE  AccountOf(m)'
<1>1. Once(m)' /\ Outstanding(m)' = Outstanding(m)
  BY OnceUntouched DEF AccountOf
<1> QED
  BY <1>1 DEF AccountOf

\* The handler ends before the copy is made: the sender is told, but not "sent", or a
\* cause is noted.
LEMMA EndsBeforeCopy ==
  ASSUME TypeInv, AccountInv, NEW m \in Msgs, m = cur,
         pc \in {"target", "block", "notify", "copy"},
         UNCHANGED <<verdict, arrived, queued, holds>>,
         "sent" \notin told'[cur],
         told'[cur] # {} \/ cause'[cur] \cap {"unheard", "badId", "forbidden"} # {}
  PROVE  AccountOf(m)'
<1>1. cur \in Msgs /\ verdict'[cur] = "sent" /\ arrived'[cur] = 0 /\ Outstanding(cur) = {}
  BY DEF TypeInv, TypeOK, AccountInv, Halfway
<1>2. Once(m)' /\ Outstanding(m)' = {}
  BY <1>1, OnceWithoutRows
<1> QED
  BY <1>1, <1>2 DEF AccountOf

\* The handler ends after the copy was made: the sender is not told "rejected", and if
\* not told "sent" either, the cause is noted.
LEMMA EndsAfterCopy ==
  ASSUME TypeInv, AccountInv, NEW m \in Msgs, m = cur,
         pc \in {"preview", "warn", "tags"},
         UNCHANGED <<verdict, arrived, queued, holds>>,
         "rejected" \notin told'[cur],
         "after" \in cause'[cur] \/ told'[cur] = {"sent"},
         told'[cur] # {} \/ "unheard" \in cause'[cur]
  PROVE  AccountOf(m)'
<1>1. cur \in Msgs /\ verdict'[cur] = "sent" /\ arrived'[cur] = 1 /\ Outstanding(cur) = {}
  BY DEF TypeInv, TypeOK, AccountInv, Halfway
<1>2. Once(m)' /\ Outstanding(m)' = {}
  BY <1>1, OnceWithoutRows
<1> QED
  BY <1>1, <1>2 DEF AccountOf

\* A statement that fails ends the handler, before the copy or after it.
LEMMA FailureKeepsAccount ==
  ASSUME TypeInv, AccountInv, NEW m \in Msgs, m = cur,
         pc # "idle", NEW C \in SUBSET Causes, StatementFails(C),
         pc \in {"preview", "warn", "tags"} => "after" \in C
  PROVE  AccountOf(m)'
<1>1. cur \in Msgs /\ AskAgain(cur, C) /\ UNCHANGED <<verdict, arrived, queued, holds>>
  BY DEF TypeInv, TypeOK, StatementFails, limitVars, chat
<1>2. /\ C \subseteq cause'[cur]
      /\ \/ told'[cur] = told[cur] \cup {"again"}
         \/ told'[cur] = told[cur] /\ "unheard" \in cause'[cur]
  BY <1>1, Asking DEF TypeInv
<1>3. CASE pc \in {"preview", "warn", "tags"}
  <2>1. told[cur] \in {{}, {"sent"}}
    BY <1>3 DEF AccountInv, Halfway
  <2> QED
    BY <1>1, <1>2, <1>3, <2>1, EndsAfterCopy
<1>4. CASE pc \in {"target", "block", "notify", "copy"}
  <2>1. told[cur] = {}
    BY <1>4 DEF AccountInv, Halfway
  <2> QED
    BY <1>1, <1>2, <1>4, <2>1, EndsBeforeCopy
<1> QED
  BY <1>3, <1>4 DEF TypeInv, TypeOK

\* So does a rejection.
LEMMA RejectionKeepsAccount ==
  ASSUME TypeInv, AccountInv, NEW m \in Msgs, m = cur,
         pc \in {"target", "block"}, Say(cur, "rejected"),
         UNCHANGED <<limitVars, target, chat>>
  PROVE  AccountOf(m)'
<1>1. cur \in Msgs /\ told[cur] = {}
  BY DEF TypeInv, TypeOK, AccountInv, Halfway
<1>2. /\ told'[cur] \subseteq told[cur] \cup {"rejected", "again"}
      /\ told'[cur] = told[cur] \cup {"rejected"} \/ "unheard" \in cause'[cur]
  BY <1>1, Saying DEF TypeInv, Notices
<1>3. UNCHANGED <<verdict, arrived, queued, holds>>
  BY DEF limitVars, chat
<1> QED
  BY <1>1, <1>2, <1>3, EndsBeforeCopy

LEMMA NotifyKeepsAccount ==
  ASSUME TypeInv, AccountInv, NEW m \in Msgs, m = cur, Notify
  PROVE  AccountOf(m)' /\ Halfway'
<1>1. /\ cur \in Msgs /\ told[cur] = {} /\ pc = "notify"
      /\ UNCHANGED <<verdict, arrived, queued, holds>>
  BY DEF TypeInv, TypeOK, AccountInv, Halfway, Notify, limitVars
<1>2. CASE Goto("copy") /\ UNCHANGED <<announcing, told, cause, faults>>
  <2>1. Once(m)' /\ Outstanding(m)' = {}
    BY <1>1, OnceWithoutRows DEF AccountInv, Halfway
  <2>2. AccountOf(m)'
    BY <1>1, <1>2, <2>1 DEF AccountInv, AccountOf, Halfway, Goto
  <2> QED
    BY <1>1, <1>2, <2>1, <2>2 DEF AccountInv, Halfway, Goto
<1>3. CASE Refused(cur)
  <2>1. /\ Done /\ "sent" \notin told'[cur]
        /\ told'[cur] # {} \/ cause'[cur] \cap {"unheard", "badId", "forbidden"} # {}
    BY <1>1, <1>3, Refusing DEF TypeInv
  <2> QED
    BY <1>1, <2>1, EndsBeforeCopy DEF Done, Halfway
<1>4. CASE AskAgain(cur, {})
  <2>1. Done /\ (told'[cur] = {"again"} \/ (told'[cur] = {} /\ "unheard" \in cause'[cur]))
    BY <1>1, <1>4, Asking DEF TypeInv
  <2> QED
    BY <1>1, <2>1, EndsBeforeCopy DEF Done, Halfway
<1> QED
  BY <1>2, <1>3, <1>4 DEF Notify

LEMMA CopyKeepsAccount ==
  ASSUME TypeInv, AccountInv, NEW m \in Msgs, m = cur, Copy
  PROVE  AccountOf(m)' /\ Halfway'
<1>1. /\ cur \in Msgs /\ told[cur] = {} /\ pc = "copy" /\ cause[cur] = {}
      /\ verdict[cur] = "sent" /\ arrived[cur] = 0 /\ Outstanding(cur) = {}
      /\ UNCHANGED <<verdict, holds>>
      /\ Arrives(cur) => arrived'[cur] = 1
  BY DEF TypeInv, TypeOK, RedeliveryTypeOK, AccountInv, Halfway, Copy, limitVars, Arrives
<1>2. CASE Arrives(cur) /\ Goto("preview") /\ UNCHANGED <<queued, told, cause, faults>>
  <2>1. Once(m)' /\ Outstanding(m)' = {}
    BY <1>1, <1>2, OnceWithoutRows
  <2>2. AccountOf(m)'
    BY <1>1, <1>2, <2>1 DEF AccountOf, Goto
  <2> QED
    BY <1>1, <1>2, <2>1, <2>2 DEF Halfway, Goto
<1>3. CASE Refused(cur) /\ UNCHANGED <<queued, arrived>>
  <2>1. /\ Done /\ "sent" \notin told'[cur]
        /\ told'[cur] # {} \/ cause'[cur] \cap {"unheard", "badId", "forbidden"} # {}
    BY <1>1, <1>3, Refusing DEF TypeInv
  <2> QED
    BY <1>1, <1>3, <2>1, EndsBeforeCopy DEF Done, Halfway
<1>4. ASSUME NEW C \in SUBSET {"lost", "queued"}, FailsForNow(cur, C), AskAgain(cur, C)
      PROVE  AccountOf(m)' /\ Halfway'
  <2>1. C \in SUBSET Causes
    BY DEF Causes, Repeats
  <2>2. /\ Done /\ C \subseteq cause'[cur]
        /\ told'[cur] = {"again"} \/ (told'[cur] = {} /\ "unheard" \in cause'[cur])
    BY <1>1, <1>4, <2>1, Asking DEF TypeInv
  <2>3. /\ Once(m)' /\ arrived'[m] = (IF "lost" \in C THEN 1 ELSE 0)
        /\ "queued" \notin C => Outstanding(m)' = {}
    BY <1>1, <1>4, <2>2, FirstFailure DEF TypeInv, TypeOK
  <2> QED
    BY <1>1, <2>2, <2>3 DEF AccountOf, Done, Halfway
<1> QED
  BY <1>2, <1>3, <1>4 DEF Copy

LEMMA WarnKeepsAccount ==
  ASSUME TypeInv, AccountInv, NEW m \in Msgs, m = cur, Warn
  PROVE  AccountOf(m)' /\ Halfway'
<1>1. /\ cur \in Msgs /\ pc = "warn" /\ told[cur] = {} /\ cause[cur] = {} /\ arrived[cur] = 1
      /\ verdict[cur] = "sent" /\ Outstanding(cur) = {}
      /\ UNCHANGED <<verdict, arrived, queued, holds>>
  BY DEF TypeInv, TypeOK, AccountInv, Halfway, Warn, StatementFails, limitVars, chat
<1>2. CASE StatementFails({"after"})
  <2>1. {"after"} \in SUBSET Causes
    BY DEF Causes
  <2> QED
    BY <1>1, <1>2, <2>1, FailureKeepsAccount DEF StatementFails, AskAgain, Done, Halfway
<1>3. CASE Goto("tags") /\ Tell(cur, {"sent"}) /\ UNCHANGED <<cause, faults>>
  <2>1. told'[cur] = {"sent"} /\ cause'[cur] = {}
    BY <1>1, <1>3, TellOnly DEF Notices, TypeInv
  <2>2. Once(m)' /\ Outstanding(m)' = {}
    BY <1>1, OnceWithoutRows
  <2>3. AccountOf(m)'
    BY <1>1, <2>1, <2>2 DEF AccountOf
  <2> QED
    BY <1>1, <1>3, <2>1, <2>2, <2>3 DEF Halfway, Goto
<1>4. ASSUME Done, Blame(cur, {"after", "unheard"}), NEW N \in SUBSET {"sent", "again"},
             Tell(cur, N)
      PROVE  AccountOf(m)' /\ Halfway'
  <2>1. N \in SUBSET Notices /\ {"after", "unheard"} \in SUBSET Causes
    BY DEF Notices, Causes
  <2>2. /\ told'[cur] = told[cur] \cup N
        /\ cause'[cur] = cause[cur] \cup {"after", "unheard"}
    BY <1>1, <1>4, <2>1, TellBlame DEF TypeInv
  <2>3. "rejected" \notin told'[cur] /\ "after" \in cause'[cur] /\ "unheard" \in cause'[cur]
    BY <1>1, <2>2
  <2> QED
    BY <1>1, <1>4, <2>3, EndsAfterCopy DEF Done, Halfway
<1> QED
  BY <1>2, <1>3, <1>4 DEF Warn

\* Every step of the handler keeps the account of the message it is at.
LEMMA StepKeepsAccount ==
  ASSUME TypeInv, AccountInv, NEW m \in Msgs, m = cur, Step
  PROVE  AccountOf(m)' /\ Halfway'
<1>0. cur \in Msgs /\ pc # "idle" /\ {} \in SUBSET Causes /\ {"after"} \in SUBSET Causes
  BY HandlerStep DEF Causes
<1>1. ASSUME Done PROVE Halfway'
  BY <1>1 DEF Done, Halfway
<1>2. ASSUME NEW C \in SUBSET Causes, StatementFails(C),
             pc \in {"preview", "warn", "tags"} => "after" \in C
      PROVE  AccountOf(m)' /\ Halfway'
  <2>1. AccountOf(m)'
    BY <1>0, <1>2, FailureKeepsAccount
  <2> QED
    BY <1>1, <1>2, <2>1 DEF StatementFails, AskAgain
<1>3. ASSUME pc \in {"target", "block"}, Say(cur, "rejected"), UNCHANGED <<limitVars, target, chat>>
      PROVE  AccountOf(m)' /\ Halfway'
  BY <1>1, <1>3, RejectionKeepsAccount DEF Say
<1>4. ASSUME UNCHANGED <<limitVars, chat, told, cause>>,
             \/ pc \in {"target", "block"} /\ pc' \in {"block", "notify", "copy"}
             \/ pc = "preview" /\ pc' = "warn",
             cur' = cur
      PROVE  AccountOf(m)' /\ Halfway'
  <2>1. /\ Outstanding(cur) = {} /\ arrived[cur] \in {0, 1} /\ pc \in {"target", "block", "preview"}
        /\ UNCHANGED <<queued, holds, arrived>>
    BY <1>4 DEF chat, AccountInv, Halfway
  <2>2. Once(m)' /\ Outstanding(m)' = {}
    BY <2>1, OnceWithoutRows
  <2> QED
    BY <1>0, <1>4, <2>1, <2>2 DEF limitVars, chat, AccountInv, AccountOf, Halfway
<1>5. CASE CheckTarget
  BY <1>0, <1>2, <1>3, <1>4, <1>5 DEF CheckTarget, Goto
<1>6. CASE CheckBlock
  BY <1>0, <1>2, <1>3, <1>4, <1>6 DEF CheckBlock, Goto
<1>7. CASE Preview
  BY <1>0, <1>2, <1>4, <1>7 DEF Preview, Goto
<1>8. CASE Tags
  <2>1. CASE StatementFails({"after"})
    BY <1>0, <1>2, <2>1
  <2>2. CASE Done /\ UNCHANGED <<limitVars, target, chat, told, cause, faults>>
    <3>1. UNCHANGED <<verdict, arrived, queued, holds>> /\ told'[cur] = {"sent"}
      BY <1>8, <2>2 DEF Tags, limitVars, chat, AccountInv, Halfway
    <3> QED
      BY <1>0, <1>1, <1>8, <2>2, <3>1, EndsAfterCopy DEF Tags
  <2> QED
    BY <1>8, <2>1, <2>2 DEF Tags
<1> QED
  BY <1>5, <1>6, <1>7, <1>8, NotifyKeepsAccount, CopyKeepsAccount, WarnKeepsAccount DEF Step

\* An attempt that ends at once: the sender is told "rejected" or a cause is noted.
LEMMA AttemptKeepsAccount ==
  ASSUME TypeInv, AccountInv, NEW m \in Msgs, verdict[m] = "none", verdict'[m] # "none",
         Say(m, "rejected"), UNCHANGED chat
  PROVE  AccountOf(m)'
<1>1. /\ told[m] = {} /\ arrived[m] = 0 /\ Outstanding(m) = {}
      /\ arrived'[m] = 0 /\ UNCHANGED <<queued, holds>>
  BY DEF AccountInv, AccountOf, chat
<1>2. /\ told'[m] \subseteq told[m] \cup {"rejected", "again"}
      /\ told'[m] = told[m] \cup {"rejected"} \/ "unheard" \in cause'[m]
  BY Saying DEF TypeInv, Notices
<1>3. Once(m)' /\ Outstanding(m)' = {}
  BY <1>1, OnceWithoutRows
<1> QED
  BY <1>1, <1>2, <1>3 DEF AccountOf

LEMMA AcceptKeepsAccount ==
  ASSUME TypeInv, AccountInv, NEW m \in Msgs, Accept(m)
  PROVE  AccountInv'
<1>1. /\ cur = None /\ UNCHANGED chat
      /\ verdict[m] = "none" /\ verdict'[m] = "sent"
      /\ \A k \in Msgs \ {m} : verdict'[k] = verdict[k]
  BY DEF Accept, Attempt, Admit, Attempted, TypeInv, TypeOK, LimitTypeOK
<1>2. NotesOnly(m) /\ AccountOf(m)' /\ Halfway'
  <2>1. CASE Say(m, "rejected")
    <3>1. NotesOnly(m) /\ Done
      BY <2>1, Saying DEF Notices, TypeInv
    <3> QED
      BY <1>1, <2>1, <3>1, AttemptKeepsAccount DEF Done, Halfway
  <2>2. CASE cur' = m /\ pc' = "target" /\ UNCHANGED <<told, cause, faults>>
    <3>1. Outstanding(m) = {} /\ arrived[m] = 0 /\ UNCHANGED <<queued, holds, arrived>>
      BY <1>1 DEF AccountInv, AccountOf, chat
    <3>2. Once(m)' /\ Outstanding(m)' = {}
      BY <3>1, OnceWithoutRows
    <3>3. AccountOf(m)'
      BY <1>1, <2>2, <3>1, <3>2 DEF AccountInv, AccountOf, chat
    <3> QED
      BY <1>1, <2>2, <3>1, <3>2, <3>3 DEF AccountInv, AccountOf, Halfway, chat, NotesOnly,
         TypeInv, TypeOK
  <2> QED
    BY <2>1, <2>2 DEF Accept
<1>3. ASSUME NEW k \in Msgs \ {m} PROVE AccountOf(k)'
  BY <1>1, <1>2, OthersKeepAccount DEF RowsStay, NotesOnly, AccountInv, chat, TypeInv, TypeOK
<1> QED
  BY <1>2, <1>3 DEF AccountInv

LEMMA RefuseKeepsAccount ==
  ASSUME TypeInv, AccountInv, NEW m \in Msgs, Refuse(m)
  PROVE  AccountInv'
<1>1. /\ cur = None /\ UNCHANGED chat
      /\ verdict[m] = "none" /\ verdict'[m] \in {"warned", "silent"}
      /\ \A k \in Msgs \ {m} : verdict'[k] = verdict[k]
  BY DEF Refuse, Attempt, Reject, Attempted, TypeInv, TypeOK, LimitTypeOK
<1>2. NotesOnly(m) /\ AccountOf(m)' /\ Halfway'
  <2>1. CASE Say(m, "rejected")
    <3>1. NotesOnly(m) /\ Done
      BY <2>1, Saying DEF Notices, TypeInv
    <3> QED
      BY <1>1, <2>1, <3>1, AttemptKeepsAccount DEF Done, Halfway
  <2>2. CASE verdict'[m] = "silent" /\ UNCHANGED <<handler, told, cause, faults>>
    <3>1. Outstanding(m) = {} /\ arrived[m] = 0 /\ UNCHANGED <<queued, holds, arrived>>
      BY <1>1 DEF AccountInv, AccountOf, chat
    <3>2. Once(m)' /\ Outstanding(m)' = {}
      BY <3>1, OnceWithoutRows
    <3>3. AccountOf(m)' /\ NotesOnly(m)
      BY <1>1, <2>2, <3>2 DEF AccountInv, AccountOf, chat, handler, NotesOnly, TypeInv, TypeOK
    <3> QED
      BY <1>1, <2>2, <3>3 DEF Halfway, handler, TypeInv, TypeOK
  <2> QED
    BY <1>1, <2>1, <2>2 DEF Refuse
<1>3. ASSUME NEW k \in Msgs \ {m} PROVE AccountOf(k)'
  BY <1>1, <1>2, OthersKeepAccount DEF RowsStay, NotesOnly, AccountInv, chat, TypeInv, TypeOK
<1> QED
  BY <1>2, <1>3 DEF AccountInv

LEMMA DrainKeepsAccount ==
  ASSUME TypeInv, AccountInv, NEW l \in Loops, NEW r \in Rows, Drain(l, r)
  PROVE  AccountInv'
<1> DEFINE s == r[1]
<1>1. /\ s \in Msgs /\ DrainsOnly(s) /\ Once(s)' /\ AccountOf(s)
      /\ UNCHANGED <<verdict, cur, pc, told, announcing, announced>>
  BY Draining DEF AccountInv, AccountOf, rest, limitVars, handler
<1>2. /\ "queued" \in cause[s] /\ "queued" \in cause'[s] /\ cause[s] \subseteq cause'[s]
      /\ arrived[s] > 0 => arrived'[s] > 0
      /\ Outstanding(s) # {}
  BY <1>1 DEF DrainsOnly, AccountOf, Once
<1>3. AccountOf(s)'
  BY <1>1, <1>2 DEF AccountOf
<1>4. ASSUME NEW k \in Msgs \ {s}
      PROVE  AccountOf(k)' /\ Outstanding(k)' = Outstanding(k) /\ arrived'[k] = arrived[k]
             /\ cause'[k] = cause[k]
  <2>1. RowsStay(k) /\ arrived'[k] = arrived[k] /\ cause'[k] = cause[k] /\ AccountOf(k)
    BY <1>1 DEF DrainsOnly, RowsStay, AccountInv
  <2> QED
    BY <1>1, <2>1, OthersKeepAccount, OnceUntouched DEF AccountOf
<1>5. Halfway'
  <2>1. pc # "idle" => cur \in Msgs \ {s}
    BY <1>2 DEF AccountInv, Halfway, TypeInv, TypeOK
  <2> QED
    BY <1>1, <1>4, <2>1 DEF AccountInv, Halfway
<1> QED
  BY <1>3, <1>4, <1>5 DEF AccountInv

LEMMA NoticeKeepsAccount ==
  ASSUME TypeInv, AccountInv, NEW m \in Msgs, DrainNotice(m)
  PROVE  AccountInv'
<1>1. /\ UNCHANGED <<verdict, cur, pc, told, cause, arrived, queued, holds>>
      /\ m \in announcing /\ announcing' \subseteq announcing
      /\ announced' \subseteq announced \cup {m}
  BY DEF DrainNotice, rest, limitVars, handler
<1>2. ASSUME NEW k \in Msgs PROVE AccountOf(k)' /\ Outstanding(k)' = Outstanding(k)
  <2>1. Once(k)' /\ Outstanding(k)' = Outstanding(k)
    BY <1>1, OnceUntouched DEF RowsStay, AccountInv, AccountOf
  <2> QED
    BY <1>1, <2>1 DEF AccountInv, AccountOf
<1>3. pc # "idle" => cur \in Msgs
  BY DEF TypeInv, TypeOK
<1> QED
  BY <1>1, <1>2, <1>3 DEF AccountInv, Halfway

LEMMA DieKeepsAccount ==
  ASSUME TypeInv, AccountInv, Die
  PROVE  AccountInv'
<1>1. /\ UNCHANGED <<verdict, queued, arrived, announcing, announced, told>> /\ Done
      /\ holds' = [holds EXCEPT ![Own] = {}]
  BY DEF Die, Restart
<1>2. /\ \A k \in Msgs : cause[k] \subseteq cause'[k] /\ (k # cur => cause'[k] = cause[k])
      /\ cur # None => "died" \in cause'[cur]
  <2>1. CASE cur = None
    BY <2>1 DEF Die
  <2>2. CASE cur # None
    BY <2>2 DEF Die, Blame, TypeInv, TypeOK
  <2> QED
    BY <2>1, <2>2
<1>3. ASSUME NEW k \in Msgs PROVE AccountOf(k)'
  <2>1. Once(k)' /\ Outstanding(k)' \subseteq Outstanding(k) /\ AccountOf(k)
    BY <1>1, <1>2, DropsKeepOnce DEF AccountInv, AccountOf, TypeInv, TypeOK
  <2>2. verdict[k] = "none" => k # cur
    BY DEF AccountInv, Halfway, TypeInv, TypeOK
  <2>3. k = cur => cur # None
    BY DEF TypeInv, TypeOK, DeliveryAssumption, RedeliveryAssumption
  <2> QED
    BY <1>1, <1>2, <2>1, <2>2, <2>3 DEF AccountOf, Done
<1>4. Halfway'
  BY <1>1 DEF Done, Halfway
<1> QED
  BY <1>3, <1>4 DEF AccountInv

LEMMA AccountStep == TypeInv /\ AccountInv /\ [Next]_vars => AccountInv'
<1> SUFFICES ASSUME TypeInv, AccountInv, [Next]_vars PROVE AccountInv'
  OBVIOUS
<1>1. ASSUME UNCHANGED <<verdict, handler, chat, told, cause>> PROVE AccountInv'
  <2>1. ASSUME NEW k \in Msgs PROVE AccountOf(k)' /\ Outstanding(k)' = Outstanding(k)
    BY <1>1, OnceUntouched, OthersKeepAccount
       DEF RowsStay, AccountInv, AccountOf, handler, chat
  <2>2. pc # "idle" => cur \in Msgs
    BY DEF TypeInv, TypeOK
  <2> QED
    BY <1>1, <2>1, <2>2 DEF AccountInv, Halfway, handler, chat
<1>2. CASE Step
  <2>1. ASSUME NEW k \in Msgs, k = cur PROVE AccountOf(k)' /\ Halfway'
    BY <1>2, <2>1, StepKeepsAccount
  <2>2. ASSUME NEW k \in Msgs, k # cur PROVE AccountOf(k)'
    <3>1. told'[k] = told[k] /\ cause'[k] = cause[k] /\ verdict' = verdict
      BY <1>2, <2>2, HandlerStep DEF NotesOnly, limitVars
    <3>2. arrived'[k] = arrived[k] /\ RowsStay(k)
      BY <1>2, <2>2, HandlerStepChat DEF RowsStay
    <3>3. /\ (k \in announcing') <=> (k \in announcing)
          /\ (k \in announced') <=> (k \in announced)
      BY <1>2, <2>2, HandlerStepChat
    <3> QED
      BY <2>2, <3>1, <3>2, <3>3, OthersKeepAccount DEF AccountInv
  <2>3. cur \in Msgs
    BY <1>2, HandlerStep
  <2> QED
    BY <2>1, <2>2, <2>3 DEF AccountInv
<1>3. ASSUME NEW t \in Targets, ToggleBlock(t) PROVE AccountInv'
  BY <1>1, <1>3 DEF ToggleBlock, limitVars
<1>4. CASE MoveLink
  BY <1>1, <1>4 DEF MoveLink, limitVars
<1>5. CASE TimePasses
  BY <1>1, <1>5 DEF TimePasses, Tick, Sweep
<1>6. CASE UNCHANGED vars
  BY <1>1, <1>6 DEF vars, limitVars
<1> QED
  BY <1>2, <1>3, <1>4, <1>5, <1>6, AcceptKeepsAccount, RefuseKeepsAccount, DrainKeepsAccount,
     NoticeKeepsAccount, DieKeepsAccount DEF Next

LEMMA AccountsKept == Spec => []AccountInv
<1>1. Init => AccountInv
  <2>1. ASSUME Init, NEW m \in Msgs PROVE Outstanding(m) = {}
    BY <2>1, OutstandingRows DEF Init, RedeliveryInit
  <2> QED
    BY <2>1, OutstandingRows DEF Init, RedeliveryInit, LimitInit, AccountInv, AccountOf, Halfway, Once,
       Alone
<1> QED
  BY <1>1, TypesKept, AccountStep, PTL DEF Spec

\* A sender told "sent" has a copy in the target's chat, one told the message was
\* rejected has none and gets none later, and one asked to send it again has none but
\* for a known cause (sendMsgCore, classifyTargetSendErr, handleErr).
THEOREM SendersAreToldTheTruth == Spec => []ToldTheTruth
BY TypesKept, AccountsKept, AccountsAreTrue, PTL

\* A second copy of a message takes the outbox, and a lost reply, a row that outlived its
\* delivery, a second row, or two loops with one row (copyToTarget, drainOutbox).
THEOREM SecondCopiesHaveACause == Spec => []CopiedTwiceHasACause
BY TypesKept, AccountsKept, AccountsAreTrue, PTL

\* A sender hears of every message, but for the causes the property names (sendMsgCore).
THEOREM SilenceIsExplained == Spec => []SilenceHasACause
BY TypesKept, AccountsKept, AccountsAreTrue, PTL

-----------------------------------------------------------------------------
(* The target's door.                                                      *)

\* A door that is open now was open at some time since the attempt.
OpenDoorsCount ==
  \A m \in Tried :
    /\ To[m] \notin blocks => m \in admissible
    /\ m \notin ViaLink \/ link # "nobody" => m \in reachable

\* Only what found both doors open gets to the copy, to the chat or to the outbox.
BothDoors(m) == m \in admissible /\ m \in reachable

PassedTheDoors ==
  /\ \A m \in Msgs :
       arrived[m] > 0 \/ Outstanding(m) # {} \/ m \in announcing \cup announced => BothDoors(m)
  /\ pc \notin {"idle", "target"} => cur \in reachable
  /\ pc \notin {"idle", "target", "block"} => cur \in admissible

DoorInv == OpenDoorsCount /\ PassedTheDoors

\* No step takes an open door back, and an attempt counts the doors open then.
LEMMA DoorsStayCounted ==
  ASSUME TypeInv, OpenDoorsCount, [Next]_vars
  PROVE  OpenDoorsCount' /\ admissible \subseteq admissible' /\ reachable \subseteq reachable'
<1> USE DEF OpenDoorsCount, Tried
<1>1. ASSUME NEW m \in Msgs, Accept(m) \/ Refuse(m)
      PROVE  OpenDoorsCount' /\ admissible \subseteq admissible' /\ reachable \subseteq reachable'
  <2>1. \A k \in Msgs \ {m} : verdict'[k] = verdict[k]
    BY <1>1 DEF Accept, Refuse, Admit, Reject, Attempted, TypeInv, TypeOK, LimitTypeOK
  <2>2. Attempt(m)
    BY <1>1 DEF Accept, Refuse
  <2> QED
    BY <2>1, <2>2 DEF Attempt
<1>2. ASSUME UNCHANGED <<verdict, target>>
      PROVE  OpenDoorsCount' /\ admissible \subseteq admissible' /\ reachable \subseteq reachable'
  BY <1>2 DEF target
<1>3. ASSUME NEW l \in Loops, NEW r \in Rows, Drain(l, r) PROVE UNCHANGED <<verdict, target>>
  BY <1>3 DEF Drain, rest, limitVars
<1>8. ASSUME NEW m \in Msgs, DrainNotice(m) PROVE UNCHANGED <<verdict, target>>
  BY <1>8 DEF DrainNotice, rest, limitVars
<1>4. Step => UNCHANGED <<verdict, target>>
  BY HandlerStep DEF limitVars
<1>5. ASSUME NEW t \in Targets, ToggleBlock(t)
      PROVE  OpenDoorsCount' /\ admissible \subseteq admissible' /\ reachable \subseteq reachable'
  BY <1>5 DEF ToggleBlock, limitVars
<1>6. CASE MoveLink
  BY <1>6 DEF MoveLink, limitVars
<1>7. TimePasses \/ Die \/ UNCHANGED vars => UNCHANGED <<verdict, target>>
  BY DEF TimePasses, Tick, Sweep, Die, Restart, vars, limitVars
<1> QED
  BY <1>1, <1>2, <1>3, <1>4, <1>5, <1>6, <1>7, <1>8 DEF Next

LEMMA HandlerPassesTheDoors ==
  ASSUME TypeInv, AccountInv, DoorInv, Step
  PROVE  PassedTheDoors'
<1>1. cur \in Tried /\ admissible' = admissible /\ reachable' = reachable
  BY HandlerStep DEF AccountInv, Halfway, Tried, target
<1>2. /\ pc' \notin {"idle", "target"} => cur' = cur /\ cur \in reachable
      /\ pc' \notin {"idle", "target", "block"} => cur \in admissible
  <2>1. pc' # "idle" => cur' = cur /\ pc' # "target"
    BY HandlerStep DEF Done
  <2>2. CASE pc = "target"
    <3>1. pc' # "idle" => pc' = "block" /\ ~LinkGone
      BY <2>2 DEF Step, CheckTarget, CheckBlock, Notify, Copy, Preview, Warn, Tags,
                  StatementFails, AskAgain, Say, Done, Goto
    <3> QED
      BY <1>1, <2>1, <3>1 DEF LinkGone, DoorInv, OpenDoorsCount
  <2>3. CASE pc = "block"
    <3>1. pc' # "idle" => To[cur] \notin blocks
      BY <2>3 DEF Step, CheckTarget, CheckBlock, Notify, Copy, Preview, Warn, Tags,
                  StatementFails, AskAgain, Say, Done, Blocked
    <3> QED
      BY <1>1, <2>1, <2>3, <3>1 DEF DoorInv, OpenDoorsCount, PassedTheDoors
  <2>4. CASE pc \notin {"target", "block"}
    BY <2>1, <2>4, HandlerStep DEF DoorInv, PassedTheDoors
  <2> QED
    BY <2>2, <2>3, <2>4
<1>3. pc \in {"notify", "copy"} => BothDoors(cur)
  BY DEF DoorInv, PassedTheDoors, BothDoors
<1>4. ASSUME NEW m \in Msgs,
             arrived'[m] > 0 \/ Outstanding(m)' # {} \/ m \in (announcing \cup announced)'
      PROVE  BothDoors(m)
  <2>1. CASE m = cur /\ pc \in {"notify", "copy"}
    BY <1>3, <2>1
  <2>2. CASE ~(m = cur /\ pc \in {"notify", "copy"})
    <3>1. arrived'[m] = arrived[m] /\ RowsStay(m)
      BY <2>2, HandlerStepChat DEF RowsStay
    <3>2. m \in (announcing \cup announced)' => m \in announcing \cup announced
      BY <2>2, HandlerStepChat
    <3>3. Outstanding(m)' = Outstanding(m)
      BY <3>1, RowsUntouched
    <3> QED
      BY <1>4, <3>1, <3>2, <3>3 DEF DoorInv, PassedTheDoors
  <2> QED
    BY <2>1, <2>2
<1> QED
  BY <1>1, <1>2, <1>4 DEF PassedTheDoors, BothDoors

LEMMA DoorStep == TypeInv /\ AccountInv /\ DoorInv /\ [Next]_vars => DoorInv'
<1> SUFFICES ASSUME TypeInv, AccountInv, DoorInv, [Next]_vars PROVE DoorInv'
  OBVIOUS
<1>1. OpenDoorsCount' /\ admissible \subseteq admissible' /\ reachable \subseteq reachable'
  BY DoorsStayCounted DEF DoorInv
<1>2. ASSUME UNCHANGED chat, pc' \in {"idle", "target"} \/ UNCHANGED handler
      PROVE  PassedTheDoors'
  <2>1. ASSUME NEW m \in Msgs PROVE Outstanding(m)' = Outstanding(m)
    BY <1>2, RowsUntouched DEF RowsStay, chat
  <2> QED
    BY <1>1, <1>2, <2>1 DEF DoorInv, PassedTheDoors, BothDoors, chat, handler
<1>3. ASSUME NEW m \in Msgs, Accept(m) \/ Refuse(m) PROVE PassedTheDoors'
  BY <1>2, <1>3 DEF Accept, Refuse, Attempt, Say, Done
<1>4. ASSUME NEW l \in Loops, NEW r \in Rows, Drain(l, r) PROVE PassedTheDoors'
  <2>1. /\ r[1] \in Msgs /\ DrainsOnly(r[1])
        /\ UNCHANGED <<handler, announcing, announced>>
    BY <1>4, Draining DEF rest
  <2>2. BothDoors(r[1])
    BY <2>1 DEF DrainsOnly, DoorInv, PassedTheDoors
  <2>3. ASSUME NEW k \in Msgs \ {r[1]}
        PROVE  arrived'[k] = arrived[k] /\ Outstanding(k)' = Outstanding(k)
    BY <2>1, RowsUntouched DEF DrainsOnly, RowsStay
  <2> QED
    BY <1>1, <2>1, <2>2, <2>3 DEF DoorInv, PassedTheDoors, BothDoors, handler
<1>8. ASSUME NEW m \in Msgs, DrainNotice(m) PROVE PassedTheDoors'
  <2>1. /\ (announcing \cup announced)' \subseteq announcing \cup announced
        /\ UNCHANGED <<handler, queued, holds, arrived>>
    BY <1>8 DEF DrainNotice, rest
  <2>2. ASSUME NEW k \in Msgs PROVE Outstanding(k)' = Outstanding(k)
    BY <2>1, RowsUntouched DEF RowsStay
  <2> QED
    BY <1>1, <2>1, <2>2 DEF DoorInv, PassedTheDoors, BothDoors, handler
<1>9. CASE Die
  <2>1. /\ Done /\ UNCHANGED <<queued, arrived, announcing, announced>>
        /\ \A l \in Loops : holds'[l] \subseteq holds[l]
    BY <1>9 DEF Die, TypeInv, TypeOK, RedeliveryTypeOK
  <2>2. ASSUME NEW k \in Msgs PROVE Outstanding(k)' \subseteq Outstanding(k)
    BY <2>1, OutstandingRows
  <2> QED
    BY <1>1, <2>1, <2>2 DEF DoorInv, PassedTheDoors, BothDoors, Done
<1>5. Step => PassedTheDoors'
  BY HandlerPassesTheDoors
<1>6. ASSUME NEW t \in Targets, ToggleBlock(t) PROVE PassedTheDoors'
  BY <1>2, <1>6 DEF ToggleBlock
<1>7. MoveLink \/ TimePasses \/ UNCHANGED vars => PassedTheDoors'
  BY <1>2 DEF MoveLink, TimePasses, vars
<1> QED
  BY <1>1, <1>3, <1>4, <1>5, <1>6, <1>7, <1>8, <1>9 DEF Next, DoorInv

\* A target who blocked the sender, or whose link was gone, from before the attempt on
\* gets neither the message nor its notice, from the handler or from the outbox
\* (sendMsgCore, drainOutbox).
THEOREM ShutDoorsAreRespected == Spec => []ShutDoorsStayShut
<1>1. Init => DoorInv
  <2>1. ASSUME Init, NEW m \in Msgs PROVE Outstanding(m) = {}
    BY <2>1, OutstandingRows DEF Init, RedeliveryInit
  <2> QED
    BY <2>1 DEF Init, RedeliveryInit, LimitInit, DoorInv, OpenDoorsCount, PassedTheDoors, Tried
<1>2. DoorInv => ShutDoorsStayShut
  BY DEF DoorInv, PassedTheDoors, BothDoors, ShutDoorsStayShut
<1> QED
  BY <1>1, <1>2, TypesKept, AccountsKept, DoorStep, PTL DEF Spec
=============================================================================
