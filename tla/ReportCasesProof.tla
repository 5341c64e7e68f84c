-------------------------- MODULE ReportCasesProof --------------------------
(***************************************************************************)
(* The safety of report cases for any number of processes, admins and      *)
(* cases.  That an action is not carried out twice without an excuse needs *)
(* an account of the handlers that are already past their claim: each of   *)
(* them stands for one action to come.                                     *)
(***************************************************************************)
EXTENDS ReportCases, FiniteSetTheorems, TLAPS

USE CasesAssumption

\* The processes about to carry out the action of case c.
Acting(c) == {p \in Procs : pc[p] = "act" /\ job[p].case = c}

\* A case was won once if it is held, and never otherwise.
WonIfHeld == \A c \in Cases : wins[c] = IF holder[c] = None THEN 0 ELSE 1

\* Every action done or to come was won or excused.
Accounted == \A c \in Cases : done[c] + Cardinality(Acting(c)) <= wins[c] + excused[c] + blind[c]

\* Who asks for a holder finds one.
AskedIsHeld == \A p \in Procs : pc[p] = "ask" => holder[job[p].case] # None

\* Who counts or stamps has acted.
ActedBefore == \A p \in Procs : pc[p] \in {"count", "stamp"} => done[job[p].case] > 0

\* Nobody works on a case that was not recorded.
JobIsRecorded == \A p \in Procs : pc[p] # "idle" => accused[job[p].case] \in Users

IInv == /\ TypeOK /\ JobIsRecorded /\ WonIfHeld /\ Accounted
        /\ AskedIsHeld /\ LoserIsToldTheHolder
        /\ ActedBefore /\ StampedMeansDone

LEMMA ActingFinite ==
  ASSUME NEW c
  PROVE  IsFiniteSet(Acting(c)) /\ Cardinality(Acting(c)) \in Nat
BY FS_Subset, FS_CardinalityType DEF Acting

\* The handler of p comes to its action for case d.
LEMMA ActingGrows ==
  ASSUME TypeOK, NEW p \in Procs, pc[p] # "act", NEW c \in Cases,
         Goes(p, "act")
  PROVE  Cardinality(Acting(c)') =
           Cardinality(Acting(c)) + IF job[p].case = c THEN 1 ELSE 0
<1>1. Acting(c)' = IF job[p].case = c THEN Acting(c) \cup {p} ELSE Acting(c)
  BY DEF Acting, Goes, TypeOK
<1>2. p \notin Acting(c)
  BY DEF Acting
<1>3. CASE job[p].case = c
  <2>1. Cardinality(Acting(c) \cup {p}) = Cardinality(Acting(c)) + 1
    BY <1>2, ActingFinite, FS_AddElement
  <2> QED
    BY <1>1, <1>3, <2>1
<1>4. CASE job[p].case # c
  <2>1. Acting(c)' = Acting(c)
    BY <1>1, <1>4
  <2> QED
    BY <1>4, <2>1, ActingFinite
<1> QED
  BY <1>3, <1>4

\* The handler of p leaves its action.
LEMMA ActingShrinks ==
  ASSUME TypeOK, NEW p \in Procs, pc[p] = "act", NEW c \in Cases,
         pc' \in [Procs -> {"idle", "claim", "ask", "act", "count", "stamp"}],
         pc'[p] # "act",
         \A q \in Procs \ {p} : pc'[q] = pc[q] /\ job'[q] = job[q]
  PROVE  Cardinality(Acting(c)') =
           Cardinality(Acting(c)) - IF job[p].case = c THEN 1 ELSE 0
<1>1. Acting(c)' = Acting(c) \ {p}
  BY DEF Acting, TypeOK
<1>2. p \in Acting(c) <=> job[p].case = c
  BY DEF Acting
<1>3. CASE p \in Acting(c)
  BY <1>1, <1>2, <1>3, ActingFinite, FS_RemoveElement
<1>4. CASE p \notin Acting(c)
  <2>1. Acting(c)' = Acting(c)
    BY <1>1, <1>4
  <2> QED
    BY <1>2, <1>4, <2>1, ActingFinite
<1> QED
  BY <1>3, <1>4

\* Every other step of a handler leaves the account alone.
LEMMA ActingStays ==
  ASSUME TypeOK, NEW p \in Procs, pc[p] # "act", NEW c \in Cases,
         pc'[p] # "act",
         \A q \in Procs \ {p} : pc'[q] = pc[q] /\ job'[q] = job[q]
  PROVE  Acting(c)' = Acting(c)
BY DEF Acting

THEOREM InitEstablishesIInv == Init => IInv
<1> SUFFICES ASSUME Init PROVE IInv
  OBVIOUS
<1>1. TypeOK
  BY DEF Init, TypeOK, Jobs, NoJob
<1>2. \A c : Acting(c) = {}
  BY DEF Init, Acting
<1>3. Cardinality({}) = 0
  BY FS_EmptySet
<1>4. Accounted
  <2> SUFFICES ASSUME NEW c \in Cases
               PROVE  done[c] + Cardinality(Acting(c)) <= wins[c] + excused[c] + blind[c]
    BY DEF Accounted
  <2>1. done[c] = 0 /\ wins[c] = 0 /\ excused[c] = 0 /\ blind[c] = 0
    BY DEF Init
  <2>2. Cardinality(Acting(c)) = 0
    BY <1>2, <1>3
  <2> QED
    BY <2>1, <2>2
<1> QED
  BY <1>1, <1>4
     DEF Init, IInv, JobIsRecorded, WonIfHeld, AskedIsHeld, ActedBefore,
         LoserIsToldTheHolder, StampedMeansDone

\* The tap under way is well formed.
LEMMA JobParts ==
  ASSUME TypeOK, NEW p \in Procs, pc[p] # "idle"
  PROVE  job[p].case \in Cases /\ job[p].by \in Admins /\ job[p].verb \in Verbs
         /\ job[p].coded \in BOOLEAN
BY DEF TypeOK, Jobs

LEMMA TypeStep ==
  TypeOK /\ JobIsRecorded /\ [Next]_vars => TypeOK' /\ JobIsRecorded'
<1> SUFFICES ASSUME TypeOK, JobIsRecorded, [Next]_vars
             PROVE  TypeOK' /\ JobIsRecorded'
  OBVIOUS
<1> USE DEF TypeOK, JobIsRecorded, table, effects, Goes, Ends, Fault, Bump, Verbs
<1>1. ASSUME NEW c \in Cases, NEW u \in Users, PostReport(c, u)
      PROVE  TypeOK' /\ JobIsRecorded'
  BY <1>1 DEF PostReport
<1>2. ASSUME NEW p \in Procs, NEW a \in Admins, NEW c \in Cases, NEW v \in Verbs,
             NEW shown \in BOOLEAN, Tap(p, a, c, v, shown)
      PROVE  TypeOK' /\ JobIsRecorded'
  <2>1. [case |-> c, by |-> a, verb |-> v, coded |-> shown] \in Jobs
    BY DEF Jobs
  <2> QED
    BY <1>2, <2>1 DEF Tap
<1>3. ASSUME NEW p \in Procs, Claim(p) PROVE TypeOK' /\ JobIsRecorded'
  BY <1>3, JobParts DEF Claim, Decided, Unclaimed, Claimed, ErrorAllows
<1>4. ASSUME NEW p \in Procs, AskHolder(p) PROVE TypeOK' /\ JobIsRecorded'
  BY <1>4, JobParts DEF AskHolder, LoserStops, ErrorAllows
<1>5. ASSUME NEW p \in Procs, Act(p) PROVE TypeOK' /\ JobIsRecorded'
  BY <1>5, JobParts DEF Act, Effect
<1>6. ASSUME NEW p \in Procs, Count(p) PROVE TypeOK' /\ JobIsRecorded'
  BY <1>6 DEF Count
<1>7. ASSUME NEW p \in Procs, Stamp(p) PROVE TypeOK' /\ JobIsRecorded'
  BY <1>7, JobParts DEF Stamp
<1>8. ASSUME NEW p \in Procs, Crash(p) PROVE TypeOK' /\ JobIsRecorded'
  BY <1>8 DEF Crash
<1>9. ASSUME NEW p \in Procs, NEW u \in Users, NEW ban \in BOOLEAN, PanelBan(p, u, ban)
      PROVE  TypeOK' /\ JobIsRecorded'
  BY <1>9 DEF PanelBan
<1>10. ASSUME NEW p \in Procs, NEW u \in Users, PanelClear(p, u)
       PROVE  TypeOK' /\ JobIsRecorded'
  BY <1>10 DEF PanelClear
<1>11. CASE UNCHANGED vars
  BY <1>11 DEF vars
<1> QED
  BY <1>1, <1>2, <1>3, <1>4, <1>5, <1>6, <1>7, <1>8, <1>9, <1>10, <1>11 DEF Next

\* A step of a handler that neither claims, acts nor stamps.
LEMMA PlainStep ==
  ASSUME IInv, NEW p \in Procs, pc[p] # "act", pc'[p] \in {"idle", "claim"},
         TypeOK', JobIsRecorded',
         \A q \in Procs \ {p} : pc'[q] = pc[q] /\ job'[q] = job[q],
         UNCHANGED <<holder, wins, done, excused, blind, told, stamp>>
  PROVE  IInv'
<1>1. \A c \in Cases : Acting(c)' = Acting(c)
  BY ActingStays DEF IInv
<1>2. Accounted'
  BY <1>1 DEF IInv, Accounted
<1> QED
  BY <1>2 DEF IInv, WonIfHeld, AskedIsHeld, ActedBefore,
              LoserIsToldTheHolder, StampedMeansDone

\* A step that no handler takes.
LEMMA OutsideStep ==
  ASSUME IInv, TypeOK', JobIsRecorded',
         UNCHANGED <<pc, job, holder, wins, done, excused, blind, told, stamp>>
  PROVE  IInv'
<1>1. \A c \in Cases : Acting(c)' = Acting(c)
  BY DEF Acting
<1>2. Accounted'
  BY <1>1 DEF IInv, Accounted
<1> QED
  BY <1>2 DEF IInv, WonIfHeld, AskedIsHeld, ActedBefore,
              LoserIsToldTheHolder, StampedMeansDone

LEMMA ClaimStep ==
  ASSUME IInv, NEW p \in Procs, Claim(p), TypeOK', JobIsRecorded'
  PROVE  IInv'
<1> DEFINE d == job[p].case
<1>1. d \in Cases /\ job[p].by \in Admins /\ job[p].by # None
  BY JobParts DEF Claim, IInv
<1>2. /\ wins \in [Cases -> Nat] /\ excused \in [Cases -> Nat] /\ blind \in [Cases -> Nat] /\ done \in [Cases -> Nat]
      /\ holder \in [Cases -> Admins \cup {None}] /\ pc[p] = "claim"
      /\ pc \in [Procs -> {"idle", "claim", "ask", "act", "count", "stamp"}]
      /\ UNCHANGED <<done, told, stamp>>
  BY DEF Claim, IInv, TypeOK, effects
<1>3. /\ \/ Claimed(p)
         \/ UNCHANGED <<holder, wins>>
      /\ \/ Goes(p, "act") /\ Claimed(p) /\ UNCHANGED <<excused, blind>>
         \/ Goes(p, "ask") /\ holder[d] # None /\ UNCHANGED <<holder, wins, excused, blind>>
         \/ /\ Goes(p, "act") /\ ErrorAllows(p) /\ (Claimed(p) \/ UNCHANGED <<holder, wins>>)
            /\ UNCHANGED blind
         \/ Goes(p, "act") /\ blind' = Bump(blind, d) /\ UNCHANGED <<holder, wins, excused>>
  BY DEF Claim, Decided, Unclaimed, Open, ErrorAllows
<1>4. WonIfHeld'
  BY <1>1, <1>2, <1>3 DEF IInv, WonIfHeld, Claimed, Open, Bump
<1>5. Accounted'
  <2> SUFFICES ASSUME NEW c \in Cases
               PROVE  (done[c] + Cardinality(Acting(c)) <= wins[c] + excused[c] + blind[c])'
    BY DEF Accounted
  <2> DEFINE one == IF d = c THEN 1 ELSE 0
  <2>1. done[c] + Cardinality(Acting(c)) <= wins[c] + excused[c] + blind[c]
    BY DEF IInv, Accounted
  <2>2. Cardinality(Acting(c)) \in Nat
    BY ActingFinite
  <2>3. CASE Goes(p, "act")
    <3>1. Cardinality(Acting(c)') = Cardinality(Acting(c)) + one
      BY <1>2, <2>3, ActingGrows DEF IInv
    <3>2. wins'[c] + excused'[c] + blind'[c] >= wins[c] + excused[c] + blind[c] + one
      <4>1. CASE Claimed(p) /\ UNCHANGED <<excused, blind>>
        BY <1>1, <1>2, <4>1 DEF Claimed, Bump
      <4>2. CASE /\ ErrorAllows(p) /\ (Claimed(p) \/ UNCHANGED <<holder, wins>>)
                 /\ UNCHANGED blind
        BY <1>1, <1>2, <4>2 DEF Claimed, Bump, ErrorAllows
      <4>3. CASE blind' = Bump(blind, d) /\ UNCHANGED <<wins, excused>>
        BY <1>1, <1>2, <4>3 DEF Bump
      <4> QED
        BY <1>2, <1>3, <2>3, <4>1, <4>2, <4>3 DEF Goes
    <3>3. wins'[c] \in Nat /\ excused'[c] \in Nat /\ blind'[c] \in Nat
      BY DEF TypeOK
    <3> QED
      BY <1>2, <2>1, <2>2, <3>1, <3>2, <3>3
  <2>4. CASE Goes(p, "ask") /\ UNCHANGED <<holder, wins, excused, blind>>
    <3>1. Acting(c)' = Acting(c)
      BY <1>2, <2>4, ActingStays DEF IInv, Goes
    <3> QED
      BY <1>2, <2>1, <2>4, <3>1
  <2> QED
    BY <1>3, <2>3, <2>4
<1>6. AskedIsHeld'
  <2> SUFFICES ASSUME NEW q \in Procs, pc'[q] = "ask"
               PROVE  holder'[job'[q].case] # None
    BY DEF AskedIsHeld
  <2>1. job' = job
    BY <1>3 DEF Goes
  <2>2. CASE q = p
    BY <1>2, <1>3, <2>1, <2>2 DEF Goes
  <2>3. CASE q # p
    <3>1. pc[q] = "ask" /\ holder[job[q].case] # None
      BY <1>2, <1>3, <2>3 DEF Goes, IInv, AskedIsHeld
    <3>2. holder' = holder \/ (holder[d] = None /\ holder' = [holder EXCEPT ![d] = job[p].by])
      BY <1>3 DEF Claimed, Open
    <3>3. job[q].case \in Cases
      BY <3>1, JobParts DEF IInv
    <3> QED
      BY <1>1, <1>2, <2>1, <3>1, <3>2, <3>3
  <2> QED
    BY <2>2, <2>3
<1>7. LoserIsToldTheHolder'
  <2> SUFFICES ASSUME NEW t \in told PROVE holder'[t[3]] = t[2] /\ t[2] # None
    BY <1>2 DEF LoserIsToldTheHolder
  <2>1. holder[t[3]] = t[2] /\ t[2] # None /\ t[3] \in Cases
    BY DEF IInv, LoserIsToldTheHolder, TypeOK
  <2> QED
    BY <1>1, <1>2, <1>3, <2>1 DEF Claimed, Open
<1>8. ActedBefore' /\ StampedMeansDone'
  BY <1>2, <1>3 DEF IInv, ActedBefore, StampedMeansDone, Goes, TypeOK
<1> QED
  BY <1>4, <1>5, <1>6, <1>7, <1>8 DEF IInv

LEMMA AskStep ==
  ASSUME IInv, NEW p \in Procs, AskHolder(p), TypeOK', JobIsRecorded'
  PROVE  IInv'
<1> DEFINE d == job[p].case
<1>1. d \in Cases /\ holder[d] # None
  BY JobParts DEF AskHolder, IInv, AskedIsHeld
<1>2. /\ wins \in [Cases -> Nat] /\ excused \in [Cases -> Nat] /\ blind \in [Cases -> Nat] /\ done \in [Cases -> Nat]
      /\ pc[p] = "ask" /\ UNCHANGED <<holder, wins, blind, done, stamp>>
      /\ pc \in [Procs -> {"idle", "claim", "ask", "act", "count", "stamp"}]
      /\ job \in [Procs -> Jobs \cup {NoJob}]
  BY DEF AskHolder, IInv, TypeOK, effects, table
<1>3. CASE ErrorAllows(p) /\ UNCHANGED told
  <2>1. Goes(p, "act") /\ excused' = Bump(excused, d)
    BY <1>3 DEF ErrorAllows
  <2>2. Accounted'
    <3> SUFFICES ASSUME NEW c \in Cases
                 PROVE  (done[c] + Cardinality(Acting(c)) <= wins[c] + excused[c] + blind[c])'
      BY DEF Accounted
    <3>1. done[c] + Cardinality(Acting(c)) <= wins[c] + excused[c] + blind[c]
      BY DEF IInv, Accounted
    <3>2. Cardinality(Acting(c)') = Cardinality(Acting(c)) + IF d = c THEN 1 ELSE 0
      BY <1>2, <2>1, ActingGrows DEF IInv
    <3>3. excused'[c] = excused[c] + IF d = c THEN 1 ELSE 0
      BY <1>1, <1>2, <2>1 DEF Bump
    <3>4. Cardinality(Acting(c)) \in Nat
      BY ActingFinite
    <3> QED
      BY <1>2, <3>1, <3>2, <3>3, <3>4
  <2> QED
    BY <1>2, <1>3, <2>1, <2>2
       DEF IInv, WonIfHeld, AskedIsHeld, ActedBefore, LoserIsToldTheHolder,
           StampedMeansDone, Goes
<1>4. CASE LoserStops(p) /\ told' = told \cup {<<job[p].by, holder[d], d>>} /\ UNCHANGED excused
  <2>1. /\ pc'[p] = "idle" /\ \A q \in Procs \ {p} : pc'[q] = pc[q] /\ job'[q] = job[q]
    BY <1>2, <1>4 DEF LoserStops, Ends
  <2>2. \A c \in Cases : Acting(c)' = Acting(c)
    BY <1>2, <2>1, ActingStays DEF IInv
  <2>3. Accounted'
    BY <1>2, <1>4, <2>2 DEF IInv, Accounted
  <2>4. LoserIsToldTheHolder'
    BY <1>1, <1>2, <1>4 DEF IInv, LoserIsToldTheHolder
  <2> QED
    BY <1>2, <2>1, <2>3, <2>4
       DEF IInv, WonIfHeld, AskedIsHeld, ActedBefore, StampedMeansDone
<1> QED
  BY <1>3, <1>4 DEF AskHolder

LEMMA ActStep ==
  ASSUME IInv, NEW p \in Procs, Act(p), TypeOK', JobIsRecorded'
  PROVE  IInv'
<1> DEFINE d == job[p].case
<1>1. d \in Cases
  BY JobParts DEF Act, IInv
<1>2. /\ wins \in [Cases -> Nat] /\ excused \in [Cases -> Nat] /\ blind \in [Cases -> Nat] /\ done \in [Cases -> Nat]
      /\ pc[p] = "act" /\ UNCHANGED <<holder, wins, excused, blind, told, stamp>>
      /\ pc \in [Procs -> {"idle", "claim", "ask", "act", "count", "stamp"}]
      /\ job \in [Procs -> Jobs \cup {NoJob}]
  BY DEF Act, IInv, TypeOK, table
<1>3. /\ \A q \in Procs \ {p} : pc'[q] = pc[q] /\ job'[q] = job[q]
      /\ pc'[p] \in {"idle", "count", "stamp"}
      /\ done' = Bump(done, d) \/ (done' = done /\ pc'[p] = "idle")
      /\ pc'[p] # "idle" => job'[p] = job[p]
  BY <1>2 DEF Act, Effect, Goes, Ends, effects
<1>4. \A c \in Cases : done'[c] >= done[c] /\ done'[c] \in Nat
  BY <1>1, <1>2, <1>3 DEF Bump
<1>5. Accounted'
  <2> SUFFICES ASSUME NEW c \in Cases
               PROVE  (done[c] + Cardinality(Acting(c)) <= wins[c] + excused[c] + blind[c])'
    BY DEF Accounted
  <2> DEFINE one == IF d = c THEN 1 ELSE 0
  <2>1. done[c] + Cardinality(Acting(c)) <= wins[c] + excused[c] + blind[c]
    BY DEF IInv, Accounted
  <2>2. Cardinality(Acting(c)') = Cardinality(Acting(c)) - one
    BY <1>2, <1>3, ActingShrinks DEF IInv, TypeOK
  <2>3. done'[c] <= done[c] + one
    BY <1>1, <1>2, <1>3 DEF Bump
  <2>4. Cardinality(Acting(c)) \in Nat
    BY ActingFinite
  <2> QED
    BY <1>2, <1>4, <2>1, <2>2, <2>3, <2>4
<1>6. ActedBefore'
  <2> SUFFICES ASSUME NEW q \in Procs, pc'[q] \in {"count", "stamp"}
               PROVE  done'[job'[q].case] > 0
    BY DEF ActedBefore
  <2>1. CASE q = p
    <3>1. done'[d] = done[d] + 1
      BY <1>1, <1>2, <1>3, <2>1 DEF Bump
    <3> QED
      BY <1>1, <1>2, <1>3, <2>1, <3>1
  <2>2. CASE q # p
    <3>1. job[q].case \in Cases /\ done[job[q].case] > 0
      BY <1>3, <2>2, JobParts DEF IInv, ActedBefore
    <3> QED
      BY <1>2, <1>3, <1>4, <2>2, <3>1
  <2> QED
    BY <2>1, <2>2
<1>7. StampedMeansDone'
  <2> SUFFICES ASSUME NEW c \in Cases, stamp[c] # "none" PROVE done'[c] > 0
    BY <1>2 DEF StampedMeansDone
  <2>1. done[c] > 0
    BY DEF IInv, StampedMeansDone
  <2> QED
    BY <1>2, <1>4, <2>1
<1> QED
  BY <1>2, <1>3, <1>5, <1>6, <1>7
     DEF IInv, WonIfHeld, AskedIsHeld, LoserIsToldTheHolder

LEMMA CountStampStep ==
  ASSUME IInv, NEW p \in Procs, Count(p) \/ Stamp(p), TypeOK', JobIsRecorded'
  PROVE  IInv'
<1> DEFINE d == job[p].case
<1>1. d \in Cases /\ done[d] > 0 /\ pc[p] \in {"count", "stamp"}
  BY JobParts DEF Count, Stamp, IInv, ActedBefore
<1>2. /\ UNCHANGED <<holder, wins, done, excused, blind, told>>
      /\ pc \in [Procs -> {"idle", "claim", "ask", "act", "count", "stamp"}]
      /\ job \in [Procs -> Jobs \cup {NoJob}]
      /\ stamp \in [Cases -> Verbs \cup {"none"}]
  BY DEF Count, Stamp, IInv, TypeOK, table, effects
<1>3. /\ \A q \in Procs \ {p} : pc'[q] = pc[q] /\ job'[q] = job[q]
      /\ pc'[p] = "idle" \/ (pc'[p] = "stamp" /\ job'[p] = job[p])
      /\ \E v : stamp' = [stamp EXCEPT ![d] = v] \/ stamp' = stamp
  BY <1>2 DEF Count, Stamp, Goes, Ends, effects
<1>4. \A c \in Cases : Acting(c)' = Acting(c)
  BY <1>1, <1>3, ActingStays DEF IInv
<1>5. Accounted'
  BY <1>2, <1>4 DEF IInv, Accounted
<1>6. StampedMeansDone'
  BY <1>1, <1>2, <1>3 DEF IInv, StampedMeansDone
<1> QED
  BY <1>1, <1>2, <1>3, <1>5, <1>6
     DEF IInv, WonIfHeld, AskedIsHeld, ActedBefore, LoserIsToldTheHolder

\* A process that dies takes its action to come with it.
LEMMA CrashStep ==
  ASSUME IInv, NEW p \in Procs, Crash(p), TypeOK', JobIsRecorded'
  PROVE  IInv'
<1>1. /\ UNCHANGED <<holder, wins, done, excused, blind, told, stamp>>
      /\ pc'[p] = "idle" /\ \A q \in Procs \ {p} : pc'[q] = pc[q] /\ job'[q] = job[q]
  BY DEF Crash, Ends, IInv, TypeOK, table, effects
<1>2. CASE pc[p] # "act"
  BY <1>1, <1>2, PlainStep
<1>3. CASE pc[p] = "act"
  <2>1. ASSUME NEW c \in Cases
        PROVE  (done[c] + Cardinality(Acting(c)) <= wins[c] + excused[c] + blind[c])'
    <3>1. Cardinality(Acting(c)') = Cardinality(Acting(c)) - IF job[p].case = c THEN 1 ELSE 0
      BY <1>1, <1>3, ActingShrinks DEF IInv, TypeOK
    <3>2. Cardinality(Acting(c)) \in Nat
      BY ActingFinite
    <3>3. /\ done[c] + Cardinality(Acting(c)) <= wins[c] + excused[c] + blind[c]
          /\ done[c] \in Nat /\ wins[c] \in Nat /\ excused[c] \in Nat /\ blind[c] \in Nat
      BY DEF IInv, Accounted, TypeOK
    <3> QED
      BY <1>1, <3>1, <3>2, <3>3
  <2>2. Accounted'
    BY <2>1 DEF Accounted
  <2> QED
    BY <1>1, <2>2 DEF IInv, WonIfHeld, AskedIsHeld, ActedBefore,
                      LoserIsToldTheHolder, StampedMeansDone
<1> QED
  BY <1>2, <1>3

THEOREM StepPreservesIInv == IInv /\ [Next]_vars => IInv'
<1> SUFFICES ASSUME IInv, [Next]_vars PROVE IInv'
  OBVIOUS
<1>0. TypeOK' /\ JobIsRecorded'
  BY TypeStep DEF IInv
<1>1. ASSUME NEW c \in Cases, NEW u \in Users, PostReport(c, u) PROVE IInv'
  BY <1>0, <1>1, OutsideStep DEF PostReport, effects
<1>2. ASSUME NEW p \in Procs, NEW a \in Admins, NEW c \in Cases, NEW v \in Verbs,
             NEW shown \in BOOLEAN, Tap(p, a, c, v, shown)
      PROVE  IInv'
  <2>1. /\ pc[p] # "act" /\ pc'[p] = "claim"
        /\ \A q \in Procs \ {p} : pc'[q] = pc[q] /\ job'[q] = job[q]
        /\ UNCHANGED <<holder, wins, done, excused, blind, told, stamp>>
    BY <1>2 DEF Tap, IInv, TypeOK, table, effects
  <2> QED
    BY <1>0, <2>1, PlainStep
<1>3. ASSUME NEW p \in Procs, Claim(p) PROVE IInv'
  BY <1>0, <1>3, ClaimStep
<1>4. ASSUME NEW p \in Procs, AskHolder(p) PROVE IInv'
  BY <1>0, <1>4, AskStep
<1>5. ASSUME NEW p \in Procs, Act(p) PROVE IInv'
  BY <1>0, <1>5, ActStep
<1>6. ASSUME NEW p \in Procs, Count(p) \/ Stamp(p) PROVE IInv'
  BY <1>0, <1>6, CountStampStep
<1>7. ASSUME NEW p \in Procs, Crash(p) PROVE IInv'
  BY <1>0, <1>7, CrashStep
<1>8. ASSUME NEW p \in Procs, NEW u \in Users, NEW ban \in BOOLEAN,
             PanelBan(p, u, ban) \/ PanelClear(p, u)
      PROVE  IInv'
  BY <1>0, <1>8, OutsideStep DEF PanelBan, PanelClear, table
<1>9. CASE UNCHANGED vars
  BY <1>0, <1>9, OutsideStep DEF vars, table, effects
<1> QED
  BY <1>1, <1>2, <1>3, <1>4, <1>5, <1>6, <1>7, <1>8, <1>9 DEF Next

\* Every reachable state of the report cases is well typed.
THEOREM TypeCorrect == Spec => []TypeOK
<1>1. IInv => TypeOK
  BY DEF IInv
<1> QED
  BY <1>1, InitEstablishesIInv, StepPreservesIInv, PTL DEF Spec

\* A case is won by at most one admin (db.ClaimReportCase), however many processes
\* and admins race for it and whatever statements fail.
THEOREM AtMostOneWinner == Spec => []OneWinnerPerCase
<1>1. IInv => OneWinnerPerCase
  BY DEF IInv, TypeOK, WonIfHeld, OneWinnerPerCase
<1> QED
  BY <1>1, InitEstablishesIInv, StepPreservesIInv, PTL DEF Spec

\* No action of a case is carried out without a won claim, a failed statement of one
\* or a tap that shows no case to claim (Bot.claim, rptAccept, rptBan).
THEOREM ExtraActionsHaveAnExcuse == Spec => []ExtraActionsAreExcused
<1>1. IInv => ExtraActionsAreExcused
  <2> SUFFICES ASSUME IInv, NEW c \in Cases PROVE done[c] <= wins[c] + excused[c] + blind[c]
    BY DEF ExtraActionsAreExcused
  <2>1. done[c] + Cardinality(Acting(c)) <= wins[c] + excused[c] + blind[c]
        /\ done[c] \in Nat /\ wins[c] \in Nat /\ excused[c] \in Nat /\ blind[c] \in Nat
    BY DEF IInv, TypeOK, Accounted
  <2> QED
    BY <2>1, ActingFinite
<1> QED
  BY <1>1, InitEstablishesIInv, StepPreservesIInv, PTL DEF Spec

\* The loser of a case is told its real holder, and the channel only what was
\* carried out (db.ClaimReportCase, rptStamp).
THEOREM TheTruthIsTold == Spec => []AdminsAreToldTheTruth
<1>1. IInv => AdminsAreToldTheTruth
  BY DEF IInv, AdminsAreToldTheTruth
<1> QED
  BY <1>1, InitEstablishesIInv, StepPreservesIInv, PTL DEF Spec

-----------------------------------------------------------------------------
(* A case that reads as handled.                                           *)

\* Without a failure, a case that was claimed had its action, or a handler is past its
\* claim and at it.
HandledInv ==
  faults = 0 =>
    \A c \in Cases :
      action[c] # "none" =>
        done[c] > 0 \/ \E p \in Procs : pc[p] = "act" /\ job[p].case = c

LEMMA HandledStep == TypeOK /\ HandledInv /\ [Next]_vars => HandledInv'
<1> SUFFICES ASSUME TypeOK, HandledInv, [Next]_vars, faults' = 0,
                    NEW c \in Cases, action'[c] # "none"
             PROVE  done'[c] > 0 \/ \E p \in Procs : pc'[p] = "act" /\ job'[p].case = c
  BY DEF HandledInv
<1> USE DEF TypeOK
<1>1. ~Fault
  BY DEF Fault
<1>2. faults = 0
  BY <1>1 DEF Next, PostReport, Tap, Claim, Decided, Unclaimed, AskHolder, Act, Count, Stamp,
              Crash, PanelBan, PanelClear, vars
<1>3. action[c] # "none" =>
        done[c] > 0 \/ \E p \in Procs : pc[p] = "act" /\ job[p].case = c
  BY <1>2 DEF HandledInv
\* A step that claims nothing and ends nothing.
<1>4. ASSUME NEW p \in Procs, pc[p] # "act", action'[c] = action[c], UNCHANGED done,
             \A q \in Procs \ {p} : pc'[q] = pc[q] /\ job'[q] = job[q]
      PROVE  done'[c] > 0 \/ \E q \in Procs : pc'[q] = "act" /\ job'[q].case = c
  BY <1>3, <1>4
<1>5. ASSUME NEW d \in Cases, NEW u \in Users, PostReport(d, u)
      PROVE  done'[c] > 0 \/ \E q \in Procs : pc'[q] = "act" /\ job'[q].case = c
  BY <1>3, <1>5 DEF PostReport, effects
<1>6. ASSUME NEW p \in Procs, NEW a \in Admins, NEW d \in Cases, NEW v \in Verbs,
             NEW shown \in BOOLEAN, Tap(p, a, d, v, shown)
      PROVE  done'[c] > 0 \/ \E q \in Procs : pc'[q] = "act" /\ job'[q].case = c
  BY <1>4, <1>6 DEF Tap, table, effects
<1>7. ASSUME NEW p \in Procs, Claim(p)
      PROVE  done'[c] > 0 \/ \E q \in Procs : pc'[q] = "act" /\ job'[q].case = c
  <2>1. pc[p] = "claim" /\ UNCHANGED <<done, job>>
    BY <1>1, <1>7 DEF Claim, Decided, Unclaimed, Goes, effects
  <2>2. CASE Claimed(p) /\ Goes(p, "act") /\ job[p].case = c
    BY <2>1, <2>2 DEF Goes
  <2>3. CASE job[p].case # c \/ UNCHANGED action
    <3>1. action'[c] = action[c]
      BY <1>1, <1>7, <2>3, JobParts DEF Claim, Decided, Unclaimed, Claimed
    <3>2. \A q \in Procs \ {p} : pc'[q] = pc[q]
      BY <1>1, <1>7 DEF Claim, Decided, Unclaimed, Goes
    <3> QED
      BY <1>4, <2>1, <3>1, <3>2
  <2> QED
    BY <1>1, <1>7, <2>2, <2>3 DEF Claim, Decided, Unclaimed
<1>8. ASSUME NEW p \in Procs, AskHolder(p) \/ Count(p) \/ Stamp(p)
      PROVE  done'[c] > 0 \/ \E q \in Procs : pc'[q] = "act" /\ job'[q].case = c
  <2>1. pc[p] # "act" /\ UNCHANGED <<action, done>>
    BY <1>8 DEF AskHolder, Count, Stamp, table, effects
  <2>2. \A q \in Procs \ {p} : pc'[q] = pc[q] /\ job'[q] = job[q]
    BY <1>1, <1>8 DEF AskHolder, Count, Stamp, Goes, Ends, LoserStops
  <2> QED
    BY <1>4, <2>1, <2>2
<1>9. ASSUME NEW p \in Procs, Act(p)
      PROVE  done'[c] > 0 \/ \E q \in Procs : pc'[q] = "act" /\ job'[q].case = c
  <2>1. /\ pc[p] = "act" /\ UNCHANGED <<action, job>> /\ done' = Bump(done, job[p].case)
        /\ \A q \in Procs \ {p} : pc'[q] = pc[q]
    BY <1>1, <1>9 DEF Act, Effect, Goes, table
  <2>2. CASE job[p].case = c
    BY <2>1, <2>2 DEF Bump
  <2>3. CASE job[p].case # c
    BY <1>3, <2>1, <2>3, JobParts DEF Bump
  <2> QED
    BY <2>2, <2>3
<1>10. ASSUME NEW p \in Procs, NEW u \in Users,
              PanelClear(p, u) \/ \E ban \in BOOLEAN : PanelBan(p, u, ban)
       PROVE  done'[c] > 0 \/ \E q \in Procs : pc'[q] = "act" /\ job'[q].case = c
  BY <1>3, <1>10 DEF PanelBan, PanelClear, table
<1>11. CASE UNCHANGED vars
  BY <1>3, <1>11 DEF vars, table, effects
<1>12. ~(\E p \in Procs : Crash(p))
  BY <1>1 DEF Crash
<1> QED
  BY <1>5, <1>6, <1>7, <1>8, <1>9, <1>10, <1>11, <1>12 DEF Next

\* When nothing failed, a case that reads as handled and that nobody works on any more
\* had its action (Bot.claim, AddReportID, BanAction).
THEOREM HandledIsDone == Spec => []HandledMeansDone
<1>1. Init => HandledInv
  BY DEF Init, HandledInv
<1>2. IInv => TypeOK
  BY DEF IInv
<1>3. HandledInv => HandledMeansDone
  BY DEF HandledInv, HandledMeansDone
<1> QED
  BY <1>1, <1>2, <1>3, HandledStep, InitEstablishesIInv, StepPreservesIInv, PTL DEF Spec
=============================================================================
