---------------------------- MODULE BackupProof ----------------------------
(***************************************************************************)
(* The theorems of Background and Backup, for any number of users,         *)
(* questions, faults and processes: their states are well typed, the pool  *)
(* outlives its users, the broadcast and the answers are accounted for,    *)
(* and a night has one backup or a reason for two.                         *)
(***************************************************************************)
EXTENDS Backup, TLAPS

USE RedeliveryAssumption

-----------------------------------------------------------------------------
(* Every step is one of the process, or leaves its work alone.             *)

Work == <<life, mail, bcast, aiVars>>
OfTheNight ==
  \/ DumpBegins \/ DumpEnds \/ Settle \/ WriteOn
  \/ NightFalls \/ Pick \/ Upload \/ Mark \/ Backstop
OfTheProcess == BackgroundStep \/ (\E busy \in BOOLEAN : Close(busy)) \/ Die

LEMMA NightLeavesTheWork == OfTheNight => UNCHANGED Work
BY DEF OfTheNight, Work, DumpBegins, DumpEnds, Settle, WriteOn, NightFalls, Pick, Upload,
       Mark, Backstop, OnlyJob, bgVars

LEMMA Shapes == [Next]_vars => OfTheProcess \/ UNCHANGED Work
<1>1. Shutdown => (\E busy \in BOOLEAN : Close(busy)) \/ Die
  <2>1. JobBusy \in BOOLEAN
    BY DEF JobBusy
  <2>2. Shutdown => Close(JobBusy) \/ Die
    BY DEF Shutdown
  <2> QED
    BY <2>1, <2>2
<1>2. UNCHANGED vars => UNCHANGED Work
  BY DEF vars, bgVars, Work
<1> QED
  BY <1>1, <1>2, NightLeavesTheWork DEF Next, OfTheProcess, OfTheNight

\* What a queue holds, after a question joins it and after one leaves it.
LEMMA ElementsOfAppend ==
  ASSUME NEW s \in Seq(Questions), NEW q \in Questions
  PROVE  /\ Append(s, q) \in Seq(Questions)
         /\ Len(Append(s, q)) = Len(s) + 1
         /\ Elements(Append(s, q)) = Elements(s) \cup {q}
<1>1. /\ Append(s, q) \in Seq(Questions)
      /\ Len(Append(s, q)) = Len(s) + 1
      /\ \A i \in 1..Len(s) : Append(s, q)[i] = s[i]
      /\ Append(s, q)[Len(s) + 1] = q
  OBVIOUS
<1>2. DOMAIN Append(s, q) = DOMAIN s \cup {Len(s) + 1}
  BY <1>1
<1> QED
  BY <1>1, <1>2 DEF Elements

LEMMA ElementsOfTail ==
  ASSUME NEW s \in Seq(Questions), s # <<>>
  PROVE  /\ Head(s) \in Questions /\ Tail(s) \in Seq(Questions)
         /\ Len(Tail(s)) = Len(s) - 1 /\ Len(s) \in Nat \ {0}
         /\ Head(s) = s[1] /\ 1 \in DOMAIN s
         /\ \A i \in DOMAIN Tail(s) : i + 1 \in DOMAIN s /\ Tail(s)[i] = s[i + 1]
         /\ Elements(s) = {Head(s)} \cup Elements(Tail(s))
<1>1. /\ Head(s) \in Questions /\ Tail(s) \in Seq(Questions)
      /\ Len(Tail(s)) = Len(s) - 1 /\ Len(s) \in Nat \ {0}
      /\ Head(s) = s[1]
      /\ DOMAIN s = 1..Len(s) /\ DOMAIN Tail(s) = 1..(Len(s) - 1)
  OBVIOUS
<1>2. ASSUME NEW i \in DOMAIN Tail(s)
      PROVE  i + 1 \in DOMAIN s /\ Tail(s)[i] = s[i + 1]
  <2>1. i \in 1..(Len(s) - 1)
    BY <1>1
  <2> QED
    BY <1>1, <2>1
<1>3. \A i \in DOMAIN s : i = 1 \/ (i - 1 \in DOMAIN Tail(s) /\ Tail(s)[i - 1] = s[i])
  BY <1>1
<1>4. 1 \in DOMAIN s
  BY <1>1
<1>5. Elements(s) = {Head(s)} \cup Elements(Tail(s))
  <2>1. Elements(Tail(s)) \subseteq Elements(s)
    BY <1>2 DEF Elements
  <2>2. Head(s) \in Elements(s)
    BY <1>1, <1>4 DEF Elements
  <2>3. ASSUME NEW i \in DOMAIN s PROVE s[i] \in {Head(s)} \cup Elements(Tail(s))
    BY <1>1, <1>3 DEF Elements
  <2> QED
    BY <2>1, <2>2, <2>3 DEF Elements
<1> QED
  BY <1>1, <1>2, <1>4, <1>5

-----------------------------------------------------------------------------
(* The outbox.                                                             *)

\* A send with one row at most, in one hand at most, and with none once it has arrived.
Alone(s) ==
  /\ arrived[s] <= 1
  /\ \A q, r \in Outstanding(s) : q = r /\ arrived[s] = 0
  /\ \A l, k \in Loops : \A r \in holds[l] \cap holds[k] : r[1] = s => l = k

\* Only what was queued has rows or arrives twice, and a send is alone until something
\* repeats it.
Once(s) ==
  /\ Outstanding(s) # {} \/ arrived[s] > 1 => "queued" \in cause[s]
  /\ cause[s] \cap Repeats = {} => Alone(s)

LEMMA OutstandingRows ==
  ASSUME NEW s, NEW r
  PROVE  /\ r \in Outstanding(s) <=>
              r[1] = s /\ (r \in queued \/ \E l \in Loops : r \in holds[l])
         /\ r \in Outstanding(s)' <=>
              r[1] = s /\ (r \in queued' \/ \E l \in Loops : r \in holds'[l])
BY DEF Outstanding, Held

\* The rows of a send stay where they are.
RowsStay(s) ==
  \A r : r[1] = s => /\ (r \in queued') <=> (r \in queued)
                     /\ \A l \in Loops : (r \in holds'[l]) <=> (r \in holds[l])

LEMMA RowsUntouched ==
  ASSUME NEW s, RowsStay(s)
  PROVE  Outstanding(s)' = Outstanding(s)
<1>1. \A r : (r \in Outstanding(s)') <=> (r \in Outstanding(s))
  BY OutstandingRows DEF RowsStay
<1> QED
  BY <1>1

\* Nothing happened to a send.
LEMMA OnceUntouched ==
  ASSUME NEW s, Once(s), arrived'[s] = arrived[s], cause'[s] = cause[s], RowsStay(s)
  PROVE  Once(s)' /\ Outstanding(s)' = Outstanding(s)
<1>1. Outstanding(s)' = Outstanding(s)
  BY RowsUntouched
<1> QED
  BY <1>1 DEF Once, Alone, RowsStay

\* A send that has no row, and gets none.
LEMMA OnceWithoutRows ==
  ASSUME NEW s, Outstanding(s) = {}, UNCHANGED <<queued, holds>>, arrived'[s] \in {0, 1}
  PROVE  Once(s)' /\ Outstanding(s)' = {}
<1>1. Outstanding(s)' = {}
  BY OutstandingRows
<1> QED
  BY <1>1, OutstandingRows DEF Once, Alone

\* A new row.
LEMMA Enqueued ==
  ASSUME RedeliveryTypeOK, NEW s \in Sends, Enqueue(s), UNCHANGED holds
  PROVE  /\ queued' \subseteq Rows
         /\ \A r : r[1] # s => (r \in queued') <=> (r \in queued)
         /\ \E r \in Rows : r[1] = s /\ queued' = queued \cup {r} /\ Outstanding(s)' = Outstanding(s) \cup {r}
<1>1. PICK n \in 1..MaxRows : queued' = queued \cup {<<s, n>>}
  BY DEF Enqueue
<1>2. <<s, n>> \in Rows /\ <<s, n>>[1] = s
  BY DEF Rows
<1>3. Outstanding(s)' = Outstanding(s) \cup {<<s, n>>}
  BY <1>1, <1>2, OutstandingRows
<1> QED
  BY <1>1, <1>2, <1>3 DEF RedeliveryTypeOK

\* The first attempt at a send fails for now.
LEMMA FirstFailure ==
  ASSUME RedeliveryTypeOK, NEW s \in Sends, NEW C \in SUBSET {"lost", "queued"},
         arrived[s] = 0, Outstanding(s) = {}, FailsForNow(s, C), UNCHANGED holds,
         C \subseteq cause'[s]
  PROVE  /\ Once(s)' /\ queued' \subseteq Rows /\ arrived' \in [Sends -> 0..2]
         /\ \A r : r[1] # s => (r \in queued') <=> (r \in queued)
         /\ \A k \in Sends \ {s} : arrived'[k] = arrived[k]
         /\ arrived'[s] = (IF "lost" \in C THEN 1 ELSE 0)
         /\ "queued" \notin C => Outstanding(s)' = {}
<1>1. /\ arrived' \in [Sends -> 0..2]
      /\ \A k \in Sends \ {s} : arrived'[k] = arrived[k]
      /\ arrived'[s] = IF "lost" \in C THEN 1 ELSE 0
  BY DEF FailsForNow, Arrives, RedeliveryTypeOK
<1>2. "requeued" \notin C
  OBVIOUS
<1>3. \A l \in Loops : \A r \in holds[l] : r[1] # s
  BY OutstandingRows
<1>4. CASE "queued" \in C
  <2>1. Enqueue(s)
    BY <1>4 DEF FailsForNow
  <2>2. PICK r \in Rows : Outstanding(s)' = {r} /\ r[1] = s
    BY <2>1, Enqueued
  <2>3. "lost" \in C => "lost" \in cause'[s] \cap Repeats
    BY DEF Repeats
  <2> QED
    BY <1>1, <1>3, <1>4, <2>1, <2>2, <2>3, Enqueued DEF Once, Alone
<1>5. CASE "queued" \notin C
  <2>1. queued' = queued
    BY <1>2, <1>5 DEF FailsForNow
  <2> QED
    BY <1>1, <1>5, <2>1, OnceWithoutRows DEF RedeliveryTypeOK
<1> QED
  BY <1>4, <1>5

\* What a drain loop does, it does to one send, which has a row.
DrainsOnly(s) ==
  /\ RedeliveryTypeOK' /\ Outstanding(s) # {}
  /\ arrived'[s] \in {arrived[s], 1, 2} /\ (arrived[s] > 0 => arrived'[s] > 0)
  /\ cause' = [cause EXCEPT ![s] = cause'[s]]
  /\ cause[s] \subseteq cause'[s] /\ cause'[s] \subseteq cause[s] \cup Repeats
  /\ \A k \in Sends \ {s} : arrived'[k] = arrived[k] /\ cause'[k] = cause[k] /\ RowsStay(k)

LEMMA ClaimDrains ==
  ASSUME RedeliveryTypeOK, NEW T, cause \in [Sends -> T], NEW l \in Loops, NEW r \in Rows,
         Claim(l, r)
  PROVE  DrainsOnly(r[1]) /\ (Once(r[1]) => Once(r[1])')
<1> DEFINE s == r[1]
<1>1. s \in Sends /\ r \in queued /\ holds[l] = {} /\ UNCHANGED <<queued, arrived, faults>>
      /\ holds' = [holds EXCEPT ![l] = {r}]
  BY DEF Rows, Claim
<1>2. /\ (r \in Held) => cause' = [cause EXCEPT ![s] = @ \cup {"shared"}]
      /\ (r \notin Held) => cause' = cause
  BY DEF Claim, Blame
<1>3. Outstanding(s)' = Outstanding(s) /\ r \in Outstanding(s)
  <2>1. \A q : (q \in Outstanding(s)') <=> (q \in Outstanding(s))
    BY <1>1, OutstandingRows DEF RedeliveryTypeOK
  <2>2. Outstanding(s)' = Outstanding(s)
    BY <2>1
  <2> QED
    BY <1>1, <2>2, OutstandingRows
<1>4. RedeliveryTypeOK'
  BY <1>1 DEF RedeliveryTypeOK
<1>5. cause[s] \subseteq cause'[s] /\ cause'[s] \subseteq cause[s] \cup {"shared"}
      /\ (r \in Held => "shared" \in cause'[s])
  BY <1>1, <1>2
<1>6. DrainsOnly(s)
  BY <1>1, <1>2, <1>3, <1>4, <1>5 DEF DrainsOnly, RowsStay, RedeliveryTypeOK, Repeats
<1>7. ASSUME Once(s) PROVE Once(s)'
  <2>1. ASSUME cause'[s] \cap Repeats = {} PROVE Alone(s)'
    <3>1. Alone(s) /\ r \notin Held
      BY <1>5, <1>7, <2>1 DEF Once, Repeats
    <3>2. \A k \in Loops : r \notin holds[k]
      BY <3>1 DEF Held
    <3> QED
      BY <1>1, <1>3, <3>1, <3>2 DEF Alone, RedeliveryTypeOK
  <2> QED
    BY <1>1, <1>3, <1>5, <1>7, <2>1 DEF Once
<1> QED
  BY <1>6, <1>7

LEMMA RetryDrains ==
  ASSUME RedeliveryTypeOK, NEW T, cause \in [Sends -> T], NEW l \in Loops, NEW r \in Rows,
         NEW cut, Retry(l, r, cut)
  PROVE  DrainsOnly(r[1]) /\ (Once(r[1]) => Once(r[1])')
<1> DEFINE s == r[1]
<1>1. s \in Sends /\ r \in holds[l] /\ holds' = [holds EXCEPT ![l] = @ \ {r}]
  BY DEF Rows, Retry
<1>2. r \in Outstanding(s) /\ holds' \in [Loops -> SUBSET Rows]
  BY <1>1, OutstandingRows DEF RedeliveryTypeOK
<1>3. faults' \in 0..MaxFaults
  BY DEF Retry, Fault, RedeliveryTypeOK
<1>4. Arrives(s) => /\ arrived' \in [Sends -> 0..2]
                    /\ arrived'[s] = IF arrived[s] = 0 THEN 1 ELSE 2
                    /\ \A k \in Sends \ {s} : arrived'[k] = arrived[k]
  BY <1>1 DEF Arrives, RedeliveryTypeOK
<1>5. ASSUME NEW C, Blame(s, C)
      PROVE  /\ cause'[s] = cause[s] \cup C
             /\ \A k \in Sends \ {s} : cause'[k] = cause[k]
             /\ cause' = [cause EXCEPT ![s] = cause'[s]]
  BY <1>1, <1>5 DEF Blame
<1>6. CASE /\ queued' = Removed(r)
           /\ Arrives(s) \/ UNCHANGED arrived
           /\ UNCHANGED <<cause, faults>>
  <2>1. queued' = queued \ {r} /\ cause' = cause
    BY <1>6 DEF Removed
  <2>2. DrainsOnly(s)
    BY <1>1, <1>2, <1>3, <1>4, <1>6, <2>1 DEF DrainsOnly, RowsStay, RedeliveryTypeOK
  <2>3. Outstanding(s)' \subseteq Outstanding(s)
    BY <1>1, <2>1, OutstandingRows DEF RedeliveryTypeOK
  <2>4. ASSUME Alone(s) PROVE Alone(s)'
    <3>1. Outstanding(s) = {r} /\ arrived[s] = 0
      BY <1>2, <2>4 DEF Alone
    <3>2. \A k \in Loops : r \notin holds'[k]
      BY <1>1, <2>4 DEF Alone, RedeliveryTypeOK
    <3>3. Outstanding(s)' = {}
      BY <2>1, <2>3, <3>1, <3>2, OutstandingRows
    <3> QED
      BY <1>1, <1>4, <1>6, <2>4, <3>1, <3>3 DEF Alone, RedeliveryTypeOK
  <2> QED
    BY <1>2, <2>1, <2>2, <2>3, <2>4 DEF Once
<1>7. ASSUME NEW C \in SUBSET Repeats, Blame(s, C), Arrives(s) \/ UNCHANGED arrived,
             UNCHANGED queued \/ Enqueue(s) , 
             C = {} => UNCHANGED <<arrived, queued>>
      PROVE  DrainsOnly(s) /\ (Once(s) => Once(s)')
  <2>1. queued' \subseteq Rows /\ \A q : q[1] # s => (q \in queued') <=> (q \in queued)
    <3>1. CASE UNCHANGED queued
      BY <3>1 DEF RedeliveryTypeOK
    <3>2. CASE Enqueue(s)
      BY <1>1, <3>2 DEF Enqueue, Rows, RedeliveryTypeOK
    <3> QED
      BY <1>7, <3>1, <3>2
  <2>2. DrainsOnly(s)
    BY <1>1, <1>2, <1>3, <1>4, <1>5, <1>7, <2>1 DEF DrainsOnly, RowsStay, RedeliveryTypeOK
  <2>3. ASSUME Once(s) PROVE Once(s)'
    <3>1. "queued" \in cause'[s]
      BY <1>2, <1>5, <1>7, <2>3 DEF Once
    <3>2. CASE C # {}
      BY <1>5, <1>7, <3>1, <3>2 DEF Once
    <3>3. CASE C = {}
      <4>1. Outstanding(s)' \subseteq Outstanding(s)
        BY <1>1, <1>7, <3>3, OutstandingRows DEF RedeliveryTypeOK
      <4>2. cause'[s] = cause[s] /\ arrived'[s] = arrived[s]
        BY <1>5, <1>7, <3>3
      <4>3. Alone(s) => Alone(s)'
        BY <1>1, <4>1, <4>2 DEF Alone, RedeliveryTypeOK
      <4> QED
        BY <2>3, <3>1, <4>2, <4>3 DEF Once
    <3> QED
      BY <3>2, <3>3
  <2> QED
    BY <2>2, <2>3
<1>8. CASE Arrives(s) /\ Blame(s, {"kept"}) /\ UNCHANGED queued
  BY <1>7, <1>8 DEF Repeats
<1>9. ASSUME NEW C \in SUBSET {"lost", "requeued"}, FailsForNow(s, C), Blame(s, C)
      PROVE  DrainsOnly(s) /\ (Once(s) => Once(s)')
  <2>1. C \in SUBSET Repeats
    BY DEF Repeats
  <2> QED
    BY <1>7, <1>9, <2>1 DEF FailsForNow
<1> QED
  BY <1>6, <1>8, <1>9 DEF Retry

LEMMA GiveUpDrains ==
  ASSUME RedeliveryTypeOK, NEW T, cause \in [Sends -> T], NEW r \in Rows, GiveUp(r)
  PROVE  DrainsOnly(r[1]) /\ (Once(r[1]) => Once(r[1])')
<1> DEFINE s == r[1]
<1>1. s \in Sends /\ r \in queued /\ queued' = queued \ {r}
      /\ UNCHANGED <<holds, arrived, cause, faults>>
  BY DEF Rows, GiveUp
<1>2. r \in Outstanding(s) /\ Outstanding(s)' \subseteq Outstanding(s)
  BY <1>1, OutstandingRows
<1>3. DrainsOnly(s)
  BY <1>1, <1>2 DEF DrainsOnly, RowsStay, RedeliveryTypeOK
<1> QED
  BY <1>1, <1>2, <1>3 DEF Once, Alone

\* A process that dies drops what its loop has in hand.
LEMMA DropsKeepOnce ==
  ASSUME NEW s, Once(s), RedeliveryTypeOK, cause[s] \subseteq cause'[s], UNCHANGED <<queued, arrived>>,
         holds' = [holds EXCEPT ![Own] = {}]
  PROVE  Once(s)' /\ Outstanding(s)' \subseteq Outstanding(s)
<1>1. Outstanding(s)' \subseteq Outstanding(s)
  BY OutstandingRows DEF RedeliveryTypeOK
<1>2. Alone(s) => Alone(s)'
  BY <1>1 DEF Alone, RedeliveryTypeOK
<1> QED
  BY <1>1, <1>2 DEF Once

-----------------------------------------------------------------------------
(* Types.                                                                  *)

\* The responder has a question in hand while it is at one.
HandIsFull == responder \in {"asking", "posting"} => hand \in Questions

\* The nightly job has picked a dump while it uploads.
FileIsPicked == job = "uploading" => file \in Files

Typed == TypeOK /\ HandIsFull /\ FileIsPicked

LEMMA ArrivalsAreTyped ==
  ASSUME BackgroundTypeOK, NEW s \in Sends, Arrives(s)
  PROVE  arrived' \in [Sends -> 0..2]
BY DEF BackgroundTypeOK, RedeliveryTypeOK, Arrives

SendCauses == SUBSET (Repeats \cup {"queued"})

LEMMA FailuresAreTyped ==
  ASSUME BackgroundTypeOK, NEW s \in Sends, TriesLater(s)
  PROVE  /\ arrived' \in [Sends -> 0..2] /\ queued' \subseteq Rows /\ UNCHANGED holds
         /\ cause' \in [Sends -> SendCauses]
         /\ late' \in BOOLEAN /\ faults' \in 0..MaxFaults
<1> PICK C \in SUBSET {"lost", "queued"} : FailsForNow(s, C) /\ Blame(s, C)
  BY DEF TriesLater
<1>1. arrived' \in [Sends -> 0..2]
  BY ArrivalsAreTyped DEF FailsForNow, BackgroundTypeOK, RedeliveryTypeOK
<1>2. queued' \subseteq Rows /\ UNCHANGED holds
  BY Enqueued DEF FailsForNow, TriesLater, BackgroundTypeOK, RedeliveryTypeOK
<1>3. cause' \in [Sends -> SendCauses]
  BY DEF Blame, BackgroundTypeOK, SendCauses, Repeats
<1>4. late' \in BOOLEAN /\ faults' \in 0..MaxFaults
  BY DEF TriesLater, Fault, BackgroundTypeOK, RedeliveryTypeOK
<1> QED
  BY <1>1, <1>2, <1>3, <1>4

\* A drain loop does what it does to one send, with a row in the outbox.
LEMMA Draining ==
  ASSUME BackgroundTypeOK, NEW l \in Loops, NEW r \in Rows, Drain(l, r)
  PROVE  r[1] \in Sends /\ DrainsOnly(r[1]) /\ (Once(r[1]) => Once(r[1])')
<1>1. r[1] \in Sends /\ RedeliveryTypeOK /\ cause \in [Sends -> SendCauses]
  BY DEF Rows, BackgroundTypeOK, SendCauses
<1>2. PICK cut \in BOOLEAN : cut = (l = Own /\ Stopped)
  OBVIOUS
<1>3. Claim(l, r) \/ GiveUp(r) \/ Retry(l, r, cut)
  BY <1>2 DEF Drain
<1> QED
  BY <1>1, <1>3, ClaimDrains, RetryDrains, GiveUpDrains

LEMMA ProcessKeepsTypes ==
  ASSUME BackgroundTypeOK, HandIsFull, OfTheProcess
  PROVE  BackgroundTypeOK' /\ HandIsFull'
<1> USE BackgroundAssumption
        DEF BackgroundTypeOK, RedeliveryTypeOK, HandIsFull, life, mail, bcast, aiVars
<1>1. ASSUME NEW l \in Loops, NEW r \in Rows, Drain(l, r) PROVE BackgroundTypeOK' /\ HandIsFull'
  <2>1. cause' \in [Sends -> SUBSET (Repeats \cup {"queued"})]
    BY <1>1, Draining DEF DrainsOnly
  <2>2. late' \in BOOLEAN /\ UNCHANGED <<life, bcast, aiVars>>
    BY <1>1 DEF Drain
  <2> QED
    BY <1>1, <2>1, <2>2, Draining DEF DrainsOnly
<1>2. CASE Schedule \/ Begin \/ List \/ GoOn \/ Interrupted \/ SendList \/ Report
  <2>1. UNCHANGED <<life, aiVars, queued, holds, arrived, cause, failures>>
    BY <1>2 DEF Schedule, Begin, List, GoOn, Interrupted, SendList, Report, OnlyBroadcast
  <2>2. UNCHANGED faults \/ Fault
    BY <1>2 DEF Schedule, Begin, List, GoOn, Interrupted, SendList, Report, Notice
  <2>3. faults' \in 0..MaxFaults
    BY <2>2 DEF Fault
  <2>4. UNCHANGED late \/ late' \in {late, late \/ phase = "closed"}
    BY <1>2 DEF Schedule, Begin, List, GoOn, Interrupted, SendList, Report, Notice
  <2>5. late' \in BOOLEAN
    BY <2>4
  <2>6. left' \subseteq Users /\ everyone' \in BOOLEAN /\ listed' \in {"no", "yes", "failed"}
    BY <1>2 DEF Schedule, Begin, List, GoOn, Interrupted, SendList, Report
  <2>7. bpc' \in {"off", "armed", "listing", "looking", "copying", "closing", "over", "cut"}
    BY <1>2 DEF Schedule, Begin, List, GoOn, Interrupted, SendList, Report
  <2> QED
    BY <2>1, <2>6, <2>7, <2>3, <2>5
<1>3. ASSUME NEW u \in Users, CopyTo(u) PROVE BackgroundTypeOK' /\ HandIsFull'
  <2>1. u \in Sends
    OBVIOUS
  <2>2. /\ left' \subseteq Users /\ failures' \subseteq Users /\ bpc' = "looking"
        /\ UNCHANGED <<life, aiVars, everyone, listed>>
    BY <1>3 DEF CopyTo, OnlyBroadcast
  <2>3. /\ arrived' \in [Sends -> 0..2] /\ queued' \subseteq Rows /\ UNCHANGED holds
        /\ cause' \in [Sends -> SendCauses]
        /\ late' \in BOOLEAN /\ faults' \in 0..MaxFaults
    <3>1. CASE Arrives(u) /\ UNCHANGED <<queued, holds, cause, late, faults, failures>>
      BY <2>1, <3>1, ArrivalsAreTyped DEF SendCauses
    <3>2. CASE TriesLater(u)
      BY <2>1, <3>2, FailuresAreTyped
    <3>3. CASE FailsForGood
      BY <3>3 DEF FailsForGood, Fault, SendCauses
    <3> QED
      BY <1>3, <3>1, <3>2, <3>3 DEF CopyTo
  <2> QED
    BY <2>2, <2>3 DEF SendCauses
<1>4. CASE Ask
  <2>1. asked' = asked + 1 /\ asked' \in Questions
    BY <1>4 DEF Ask, Questions
  <2>2. queue' \in Seq(Questions) /\ Len(queue') <= QueueMax
    <3>1. CASE Room /\ queue' = Append(queue, asked')
      <4>1. Append(queue, asked') \in Seq(Questions) /\ Len(Append(queue, asked')) = Len(queue) + 1
        BY <2>1, ElementsOfAppend
      <4>2. Len(queue) \in Nat /\ Len(queue) < QueueMax
        BY <3>1 DEF Room
      <4> QED
        BY <3>1, <4>1, <4>2
    <3>2. CASE UNCHANGED queue
      BY <3>2
    <3> QED
      BY <1>4, <3>1, <3>2 DEF Ask
  <2>3. excused' \subseteq Questions
    BY <1>4, <2>1 DEF Ask
  <2> QED
    BY <1>4, <2>1, <2>2, <2>3 DEF Ask, OnlyAI, Questions
<1>5. CASE Take
  BY <1>5, ElementsOfTail DEF Take, OnlyAI
<1>6. CASE Generate
  <2>1. UNCHANGED late \/ late' \in {late, late \/ phase = "closed"}
    BY <1>6 DEF Generate
  <2>2. late' \in BOOLEAN
    BY <2>1
  <2>3. faults' \in 0..MaxFaults
    BY <1>6 DEF Generate, Fault
  <2>4. \/ responder' = "posting" /\ UNCHANGED <<hand, excused>>
        \/ responder' = "waiting" /\ hand' = None /\ excused' = excused \cup {hand}
    BY <1>6 DEF Generate, Finished, Excused, AfterEmpty
  <2>5. UNCHANGED <<life, bcast, queued, holds, arrived, cause, queue, asked, posted>>
        /\ hand \in Questions
    BY <1>6 DEF Generate, OnlyAI
  <2> QED
    BY <2>2, <2>3, <2>4, <2>5
<1>7. CASE Post
  <2>1. hand \in Questions /\ hand \in Sends
    BY <1>7 DEF Post
  <2>2. /\ arrived' \in [Sends -> 0..2] /\ queued' \subseteq Rows /\ UNCHANGED holds
        /\ cause' \in [Sends -> SendCauses]
        /\ late' \in BOOLEAN /\ faults' \in 0..MaxFaults
    <3>1. CASE Arrives(hand) /\ UNCHANGED <<queued, holds, cause, late, faults>>
      BY <2>1, <3>1, ArrivalsAreTyped DEF SendCauses
    <3>2. CASE TriesLater(hand)
      BY <2>1, <3>2, FailuresAreTyped
    <3>3. CASE FailsForGood
      BY <3>3 DEF FailsForGood, Fault, SendCauses
    <3> QED
      BY <1>7, <3>1, <3>2, <3>3 DEF Post
  <2> QED
    BY <1>7, <2>1, <2>2 DEF Post, Finished, Excused, OnlyAI, SendCauses
<1>8. CASE EndResponder
  BY <1>8 DEF EndResponder, OnlyAI
<1>9. CASE Stop \/ \E busy \in BOOLEAN : Close(busy)
  <2>1. /\ UNCHANGED <<lives, faults, mail, bcast, aiVars>>
        /\ phase' \in {"stopping", "closed"}
    BY <1>9 DEF Stop, Close
  <2>2. gaveUp' \in BOOLEAN
    BY <1>9 DEF Stop, Close
  <2> QED
    BY <2>1, <2>2
<1>10. CASE Start
  <2>1. lives' \in 0..MaxLives
    BY <1>10 DEF Start
  <2>2. phase' = "up" /\ gaveUp' = FALSE /\ late' = FALSE /\ responder' = "waiting"
    BY <1>10 DEF Start
  <2>3. UNCHANGED <<faults, queued, holds, arrived, cause, bcast, queue, hand, asked, posted,
                    excused>>
    BY <1>10 DEF Start
  <2> QED
    BY <2>1, <2>2, <2>3
<1>11. CASE Die
  <2>1. Elements(queue) \subseteq Questions
    BY DEF Elements
  <2> QED
    BY <1>11, <2>1 DEF Die, Running
<1> QED
  BY <1>1, <1>2, <1>3, <1>4, <1>5, <1>6, <1>7, <1>8, <1>9, <1>10, <1>11
     DEF OfTheProcess, BackgroundStep

LEMMA NightKeepsTypes ==
  ASSUME Typed, OfTheNight
  PROVE  Typed'
<1> USE DEF Typed
<1>1. UNCHANGED Work
  BY NightLeavesTheWork
<1>2. faults' \in 0..MaxFaults
  <2>1. DumpBegins \/ Settle \/ WriteOn \/ NightFalls => UNCHANGED faults
    BY DEF DumpBegins, Settle, WriteOn, NightFalls, bgVars
  <2>2. DumpEnds \/ Pick \/ Upload \/ Mark \/ Backstop => UNCHANGED faults \/ Fault
    BY DEF DumpEnds, Pick, Upload, Mark, Backstop
  <2>3. UNCHANGED faults \/ Fault => faults' \in 0..MaxFaults
    BY DEF Fault, TypeOK, BackgroundTypeOK, RedeliveryTypeOK
  <2> QED
    BY <2>1, <2>2, <2>3 DEF OfTheNight
<1>3. BackgroundTypeOK' /\ HandIsFull'
  BY <1>1, <1>2 DEF TypeOK, BackgroundTypeOK, RedeliveryTypeOK, HandIsFull, Work, life, mail,
                    bcast, aiVars
<1>4. dump' \in [Files -> [state : States, fresh : BOOLEAN]] /\ stalled' \subseteq Files
  <2> USE DEF TypeOK, Files, States
  <2>1. CASE DumpBegins \/ DumpEnds \/ WriteOn
    <3>1. UNCHANGED stalled /\ \E s \in States, f \in BOOLEAN : Dumped(s, f)
      BY <2>1 DEF DumpBegins, DumpEnds, WriteOn
    <3> QED
      BY <3>1 DEF Dumped
  <2>2. CASE Settle
    BY <2>2 DEF Settle
  <2>3. CASE NightFalls \/ Pick \/ Upload \/ Mark \/ Backstop
    BY <2>3 DEF NightFalls, Pick, Upload, Mark, Backstop, OnlyJob, files
  <2> QED
    BY <2>1, <2>2, <2>3 DEF OfTheNight
<1>5. /\ night' \in BOOLEAN /\ marker' \in BOOLEAN
      /\ job' \in {"idle", "picking", "uploading", "marking", "done", "failed", "killed"}
      /\ file' \in Files \cup {None}
      /\ backstop' \in {"before", "skipped", "sent", "failed"}
      /\ excuse' \subseteq {"lost", "unmarked", "killed"}
  BY DEF TypeOK, OfTheNight, DumpBegins, DumpEnds, Settle, WriteOn, NightFalls, Pick, Upload,
         Mark, Backstop, Files, OnlyJob, nightVars, Newest
<1>6. shipped' \subseteq [by : {"job", "backstop"}, file : Files, state : States]
  <2> USE DEF TypeOK
  <2>1. ASSUME NEW by \in {"job", "backstop"}, NEW f \in Files, Ship(by, f)
        PROVE  shipped' \subseteq [by : {"job", "backstop"}, file : Files, state : States]
    <3>1. dump[f].state \in States
      OBVIOUS
    <3> QED
      BY <2>1, <3>1 DEF Ship
  <2>2. CASE DumpBegins \/ DumpEnds \/ Settle \/ WriteOn \/ NightFalls \/ Pick \/ Mark
    BY <2>2 DEF DumpBegins, DumpEnds, Settle, WriteOn, NightFalls, Pick, Mark, nightVars
  <2>3. CASE Upload
    <3>1. UNCHANGED shipped \/ Ship("job", file)
      BY <2>3 DEF Upload
    <3>2. file \in Files
      BY <2>3 DEF Upload, FileIsPicked
    <3> QED
      BY <2>1, <3>1, <3>2
  <2>4. CASE Backstop
    <3>1. UNCHANGED shipped \/ (Present # {} /\ Ship("backstop", Newest(Present)))
      BY <2>4 DEF Backstop
    <3>2. Present # {} => Newest(Present) \in Files
      BY DEF Present, Newest, Files
    <3> QED
      BY <2>1, <3>1, <3>2
  <2> QED
    BY <2>2, <2>3, <2>4 DEF OfTheNight
<1>7. FileIsPicked'
  BY DEF FileIsPicked, OfTheNight, DumpBegins, DumpEnds, Settle, WriteOn, NightFalls, Pick,
         Upload, Mark, Backstop, Files, OnlyJob, nightVars, Newest
<1> QED
  BY <1>3, <1>4, <1>5, <1>6, <1>7 DEF TypeOK

LEMMA InitIsTyped == Init => Typed
<1> SUFFICES ASSUME Init PROVE Typed
  OBVIOUS
<1> USE DEF Init, BackgroundInit, RedeliveryInit
<1>1. BackgroundTypeOK /\ HandIsFull
  <2>1. <<>> \in Seq(Questions) /\ Len(<<>>) = 0
    OBVIOUS
  <2>2. cause \in [Sends -> SUBSET (Repeats \cup {"queued"})] /\ RedeliveryTypeOK
    BY DEF RedeliveryTypeOK
  <2>3. lives \in 0..MaxLives /\ asked \in 0..MaxQuestions
    BY BackgroundAssumption
  <2>4. queue \in Seq(Questions) /\ Len(queue) <= QueueMax
    BY <2>1, BackgroundAssumption
  <2>5. HandIsFull
    BY DEF HandIsFull
  <2> QED
    BY <2>2, <2>3, <2>4, <2>5 DEF BackgroundTypeOK
<1>2. dump \in [Files -> [state : States, fresh : BOOLEAN]]
  <2>1. PICK s \in {"none", "whole"} :
          dump = [f \in Files |-> [state |-> IF f = "old" THEN s ELSE "none", fresh |-> FALSE]]
    OBVIOUS
  <2> QED
    BY <2>1 DEF States
<1> QED
  BY <1>1, <1>2 DEF Init, Typed, TypeOK, FileIsPicked

LEMMA TypesStep == Typed /\ [Next]_vars => Typed'
<1> SUFFICES ASSUME Typed, [Next]_vars PROVE Typed'
  OBVIOUS
<1> USE DEF Typed
<1>1. CASE BackgroundStep /\ UNCHANGED <<files, nightVars>>
  BY <1>1, ProcessKeepsTypes DEF OfTheProcess, TypeOK, FileIsPicked, files, nightVars
<1>2. CASE Shutdown
  <2>1. OfTheProcess
    <3>1. JobBusy \in BOOLEAN
      BY DEF JobBusy
    <3>2. Close(JobBusy) \/ Die
      BY <1>2 DEF Shutdown
    <3> QED
      BY <3>1, <3>2 DEF OfTheProcess
  <2>2. BackgroundTypeOK' /\ HandIsFull'
    BY <2>1, ProcessKeepsTypes DEF TypeOK
  <2>3. /\ job' = job \/ job' = "killed"
        /\ excuse' = excuse \/ excuse' = excuse \cup {"killed"}
        /\ UNCHANGED <<files, night, file, marker, backstop, shipped>>
    BY <1>2 DEF Shutdown, nightVars
  <2> QED
    BY <2>2, <2>3 DEF TypeOK, FileIsPicked, files
<1>3. CASE OfTheNight
  BY <1>3, NightKeepsTypes
<1>4. CASE UNCHANGED vars
  BY <1>4 DEF vars, bgVars, life, mail, bcast, aiVars, files, nightVars, TypeOK,
     BackgroundTypeOK, RedeliveryTypeOK, HandIsFull, FileIsPicked
<1> QED
  BY <1>1, <1>2, <1>3, <1>4 DEF Next, OfTheNight

\* Every reachable state of a process, its work and the night is well typed.
THEOREM TypeCorrect == Spec => []TypeOK
<1>1. Typed => TypeOK
  BY DEF Typed
<1> QED
  BY <1>1, InitIsTyped, TypesStep, PTL DEF Spec

-----------------------------------------------------------------------------
(* The pool.                                                               *)

\* A pool closed in time has no more users: nothing tracked begins after the stop.
PoolInv ==
  /\ PoolOutlivesItsUsers
  /\ late => phase \in {"closed", "down"}
  /\ phase = "closed" /\ ~gaveUp => Drained

LEMMA PoolStep == Typed /\ PoolInv /\ [Next]_vars => PoolInv'
<1> SUFFICES ASSUME Typed, PoolInv, [Next]_vars PROVE PoolInv'
  OBVIOUS
<1> USE DEF PoolInv, PoolOutlivesItsUsers, Drained, life, mail, bcast, aiVars
<1>1. ASSUME NEW s \in Sends, TriesLater(s), UNCHANGED <<phase, gaveUp>>, ~Drained
      PROVE  late' => gaveUp' /\ phase' \in {"closed", "down"}
  BY <1>1 DEF TriesLater
<1>2. ASSUME NEW l \in Loops, NEW r \in Rows, Drain(l, r) PROVE PoolInv'
  <2>1. UNCHANGED <<phase, gaveUp, bpc, responder>>
    BY <1>2 DEF Drain
  <2>2. CASE l = Own /\ phase = "closed"
    <3>1. holds[Own] # {}
      BY <1>2, <2>2 DEF Drain, Retry
    <3> QED
      BY <2>1, <2>2, <3>1
  <2>3. CASE ~(l = Own /\ phase = "closed")
    <3>1. UNCHANGED late
      BY <1>2, <2>3 DEF Drain
    <3>2. phase = "closed" => holds'[Own] = holds[Own]
      BY <1>2, <2>3 DEF Drain, Claim, Retry, GiveUp, Typed, TypeOK, BackgroundTypeOK,
                        RedeliveryTypeOK
    <3> QED
      BY <2>1, <3>1, <3>2
  <2> QED
    BY <2>2, <2>3
<1>3. CASE Schedule \/ Begin \/ List \/ GoOn \/ Interrupted \/ SendList \/ Report
  <2>1. UNCHANGED <<phase, gaveUp, responder, holds>>
    BY <1>3 DEF Schedule, Begin, List, GoOn, Interrupted, SendList, Report, OnlyBroadcast
  <2>2. phase = "closed" => ~Drained
    BY <1>3 DEF Schedule, Begin, List, GoOn, Interrupted, SendList, Report
  <2>3. UNCHANGED late \/ late' \in {late, late \/ phase = "closed"}
    BY <1>3 DEF Schedule, Begin, List, GoOn, Interrupted, SendList, Report, Notice
  <2>4. late' => late \/ phase = "closed"
    BY <2>3
  <2>5. phase = "closed" => gaveUp
    BY <2>2 DEF PoolInv
  <2> QED
    BY <2>1, <2>4, <2>5 DEF PoolInv, PoolOutlivesItsUsers
<1>4. ASSUME NEW u \in Users, CopyTo(u) PROVE PoolInv'
  <2>1. bpc = "copying" /\ ~Drained /\ u \in Sends
    BY <1>4, BackgroundAssumption DEF CopyTo
  <2>2. UNCHANGED <<phase, gaveUp>> /\ (UNCHANGED late \/ TriesLater(u))
    BY <1>4 DEF CopyTo, OnlyBroadcast, FailsForGood
  <2> QED
    BY <1>1, <2>1, <2>2
<1>5. CASE Ask \/ Take \/ EndResponder
  BY <1>5 DEF Ask, Take, EndResponder, OnlyAI
<1>10. CASE Generate
  <2>1. UNCHANGED <<phase, gaveUp>> /\ responder = "asking"
        /\ late' \in {late, late \/ phase = "closed"}
    BY <1>10 DEF Generate, OnlyAI
  <2> QED
    BY <2>1
<1>6. CASE Post
  <2>1. responder = "posting" /\ ~Drained /\ hand \in Sends
    BY <1>6, BackgroundAssumption DEF Post, Typed, HandIsFull
  <2>2. UNCHANGED <<phase, gaveUp>> /\ (UNCHANGED late \/ TriesLater(hand))
    BY <1>6 DEF Post, OnlyAI, FailsForGood
  <2> QED
    BY <1>1, <2>1, <2>2
<1>7. CASE Stop \/ Start \/ Die
  BY <1>7 DEF Stop, Start, Die
<1>8. ASSUME NEW busy \in BOOLEAN, Close(busy) PROVE PoolInv'
  <2>1. ~late /\ UNCHANGED <<late, bpc, responder, holds>> /\ phase' = "closed"
    BY <1>8 DEF Close
  <2>2. ~gaveUp' => Drained
    BY <1>8 DEF Close
  <2> QED
    BY <2>1, <2>2
<1>9. CASE UNCHANGED Work
  BY <1>9 DEF Work
<1> QED
  BY <1>2, <1>3, <1>4, <1>5, <1>6, <1>7, <1>8, <1>9, <1>10, Shapes
     DEF OfTheProcess, BackgroundStep

\* Only work that outlasted the grace period reaches the closed pool (Run,
\* waitBackground), however the goroutines interleave.
THEOREM PoolIsSafe == Spec => []PoolOutlivesItsUsers
<1>1. Init => PoolInv
  BY DEF Init, BackgroundInit, PoolInv, PoolOutlivesItsUsers
<1>2. PoolInv => PoolOutlivesItsUsers
  BY DEF PoolInv
<1> QED
  BY <1>1, <1>2, InitIsTyped, TypesStep, PoolStep, PTL DEF Spec

-----------------------------------------------------------------------------
(* The sends of the broadcast and of the answers.                          *)

AllOnce == \A s \in Sends : Once(s)

LEMMA OnceHasACause == BackgroundTypeOK /\ AllOnce => TwiceHasACause
<1> SUFFICES ASSUME BackgroundTypeOK, AllOnce, NEW s \in Sends, arrived[s] > 1
             PROVE  "queued" \in cause[s] /\ cause[s] \cap Repeats # {}
  BY DEF TwiceHasACause
<1>1. Once(s) /\ arrived[s] \in 0..2
  BY DEF AllOnce, BackgroundTypeOK, RedeliveryTypeOK
<1>2. ~Alone(s)
  BY <1>1 DEF Alone
<1> QED
  BY <1>1, <1>2 DEF Once

\* The users the broadcast has not come to, and the questions nobody has answered.
Ahead == CASE bpc \in {"off", "armed", "listing"} -> Users
           [] bpc \in {"looking", "copying"} -> left
           [] OTHER -> {}
Unanswered == {q \in Questions : q \in Elements(queue) \/ q = hand \/ q > asked}

Untouched == \A s \in Ahead \cup Unanswered : arrived[s] = 0 /\ Outstanding(s) = {}

\* Every user the broadcast has come to got a copy or is in the list, and the list was
\* sent, or not, before the end.
Covered ==
  /\ everyone => bpc = "over"
  /\ Ahead \cap failures = {}
  /\ bpc \in {"looking", "copying"} =>
       \A u \in Users : u \in left \/ arrived[u] > 0 \/ u \in failures
  /\ bpc = "closing" =>
       /\ \A u \in Users : arrived[u] > 0 \/ u \in failures
       /\ failures = {} \/ listed # "no"

\* A question is in one place.
InOnePlace ==
  /\ \A i, j \in DOMAIN queue : queue[i] = queue[j] => i = j
  /\ hand \notin Elements(queue)
  /\ responder \in {"waiting", "ended"} \/ phase = "down" => hand = None
  /\ \A q \in Elements(queue) \cup {hand} : q # None => q <= asked

SendsInv ==
  /\ AllOnce /\ Untouched
  /\ Covered /\ EveryoneMeansEveryone
  /\ InOnePlace /\ QuestionsAreLookedAfter

\* A first attempt at a send that was never tried leaves every other send alone.
LEMMA FirstAttempt ==
  ASSUME BackgroundTypeOK, AllOnce,
         NEW s \in Sends, arrived[s] = 0, Outstanding(s) = {},
         \/ Arrives(s) /\ UNCHANGED <<queued, holds, cause>>
         \/ TriesLater(s)
         \/ UNCHANGED <<arrived, queued, holds, cause>>
  PROVE  /\ AllOnce'
         /\ \A r \in Sends \ {s} : /\ arrived'[r] = arrived[r] /\ cause'[r] = cause[r]
                                   /\ Outstanding(r)' = Outstanding(r)
         /\ Arrives(s) => arrived'[s] > 0
         /\ TriesLater(s) /\ arrived'[s] > 0 => cause'[s] \cap {"lost", "queued"} # {}
<1>0. RedeliveryTypeOK /\ cause \in [Sends -> SendCauses]
  BY DEF BackgroundTypeOK, SendCauses
<1>1. ASSUME Arrives(s)
      PROVE  arrived'[s] = 1 /\ \A r \in Sends \ {s} : arrived'[r] = arrived[r]
  BY <1>0, <1>1 DEF Arrives, RedeliveryTypeOK
<1>2. ASSUME TriesLater(s)
      PROVE  /\ Once(s)' /\ (arrived'[s] > 0 => "lost" \in cause'[s])
             /\ \A r \in Sends \ {s} :
                  arrived'[r] = arrived[r] /\ cause'[r] = cause[r] /\ RowsStay(r)
  <2>1. PICK C \in SUBSET {"lost", "queued"} : FailsForNow(s, C) /\ Blame(s, C)
    BY <1>2 DEF TriesLater
  <2>2. /\ cause'[s] = cause[s] \cup C /\ UNCHANGED holds
        /\ \A r \in Sends \ {s} : cause'[r] = cause[r]
    BY <1>0, <1>2, <2>1 DEF Blame, TriesLater
  <2>3. /\ Once(s)' /\ arrived'[s] = (IF "lost" \in C THEN 1 ELSE 0)
        /\ \A r : r[1] # s => (r \in queued') <=> (r \in queued)
        /\ \A r \in Sends \ {s} : arrived'[r] = arrived[r]
    BY <1>0, <2>1, <2>2, FirstFailure
  <2> QED
    BY <2>2, <2>3 DEF RowsStay
<1>3. CASE TriesLater(s)
  <2>1. ASSUME NEW r \in Sends \ {s} PROVE Once(r)' /\ Outstanding(r)' = Outstanding(r)
    BY <1>2, <1>3, OnceUntouched DEF AllOnce
  <2> QED
    BY <1>1, <1>2, <1>3, <2>1 DEF AllOnce
<1>4. CASE (Arrives(s) \/ UNCHANGED arrived) /\ UNCHANGED <<queued, holds, cause>>
  <2>1. arrived'[s] \in {0, 1} /\ \A r \in Sends \ {s} : arrived'[r] = arrived[r]
    BY <1>1, <1>4
  <2>2. Once(s)'
    BY <1>4, <2>1, OnceWithoutRows
  <2>3. ASSUME NEW r \in Sends \ {s} PROVE Once(r)' /\ Outstanding(r)' = Outstanding(r)
    BY <1>4, <2>1, OnceUntouched DEF AllOnce, RowsStay
  <2> QED
    BY <1>1, <1>2, <1>4, <2>1, <2>2, <2>3 DEF AllOnce
<1> QED
  BY <1>3, <1>4

\* Work that is not a send, and starts nothing anew.
LEMMA NothingSent ==
  ASSUME AllOnce, Untouched, UNCHANGED <<queued, holds, arrived, cause>>,
         Ahead' \cup Unanswered' \subseteq Ahead \cup Unanswered
  PROVE  AllOnce' /\ Untouched'
<1>1. ASSUME NEW s \in Sends PROVE Once(s)'
  BY OnceUntouched DEF AllOnce, RowsStay
<1>2. ASSUME NEW s PROVE Outstanding(s)' = Outstanding(s)
  BY RowsUntouched DEF RowsStay
<1> QED
  BY <1>1, <1>2 DEF AllOnce, Untouched

LEMMA UsersAreNoQuestions ==
  /\ Users \subseteq Sends /\ Questions \subseteq Sends /\ Users \cap Questions = {}
  /\ None \notin Questions
BY BackgroundAssumption DEF Questions

\* The broadcast.
BroadcastInv == Covered /\ EveryoneMeansEveryone
AnswersInv   == InOnePlace /\ QuestionsAreLookedAfter

LEMMA AnswersFrame ==
  ASSUME AnswersInv, UNCHANGED <<phase, aiVars>>
  PROVE  AnswersInv' /\ Unanswered' = Unanswered
BY DEF AnswersInv, InOnePlace, QuestionsAreLookedAfter, Unanswered, aiVars, Elements

LEMMA BroadcastFrame ==
  ASSUME BackgroundTypeOK, BroadcastInv, UNCHANGED bcast,
         \A u \in Users : UNCHANGED <<arrived[u], cause[u]>>
  PROVE  BroadcastInv' /\ Ahead' = Ahead
<1>1. Ahead' = Ahead
  BY DEF Ahead, bcast
<1> QED
  BY <1>1 DEF BroadcastInv, Covered, EveryoneMeansEveryone, bcast, BackgroundTypeOK

LEMMA DrainKeepsSends ==
  ASSUME BackgroundTypeOK, SendsInv, NEW l \in Loops, NEW r \in Rows, Drain(l, r)
  PROVE  SendsInv'
<1> USE DEF SendsInv
<1> DEFINE s == r[1]
<1>1. UNCHANGED <<phase, bcast, aiVars>>
  BY DEF Drain, life
<1>2. s \in Sends /\ DrainsOnly(s) /\ Once(s)'
  BY Draining DEF AllOnce
<1>3. ASSUME NEW k \in Sends \ {s}
      PROVE  /\ Once(k)' /\ Outstanding(k)' = Outstanding(k)
             /\ arrived'[k] = arrived[k] /\ cause'[k] = cause[k]
  BY <1>2, OnceUntouched DEF DrainsOnly, AllOnce
<1>4. AllOnce'
  BY <1>2, <1>3 DEF AllOnce
<1>5. AnswersInv' /\ Unanswered' = Unanswered /\ Ahead' = Ahead
  BY <1>1, AnswersFrame DEF AnswersInv, Ahead, bcast
<1>6. Untouched'
  <2>1. Ahead \cup Unanswered \subseteq Sends
    BY UsersAreNoQuestions DEF Ahead, Unanswered, BackgroundTypeOK
  <2>2. s \notin Ahead \cup Unanswered
    BY <1>2 DEF DrainsOnly, Untouched
  <2> QED
    BY <1>3, <1>5, <2>1, <2>2 DEF Untouched
<1>7. Covered' /\ EveryoneMeansEveryone'
  <2>1. "queued" \in cause'[s] /\ (arrived[s] > 0 => arrived'[s] > 0)
    BY <1>2 DEF DrainsOnly, AllOnce, Once
  <2>2. \A u \in Users : arrived[u] > 0 => arrived'[u] > 0
    BY <1>3, <2>1, UsersAreNoQuestions
  <2>3. \A u \in Users :
          arrived'[u] > 0 => \/ "queued" \in cause'[u]
                             \/ arrived[u] > 0 /\ cause'[u] = cause[u]
    BY <1>3, <2>1, UsersAreNoQuestions
  <2>4. Covered'
    BY <1>1, <1>5, <2>2 DEF Covered, bcast
  <2>5. EveryoneMeansEveryone'
    BY <1>1, <2>2, <2>3 DEF EveryoneMeansEveryone, bcast, BackgroundTypeOK
  <2> QED
    BY <2>4, <2>5
<1> QED
  BY <1>4, <1>5, <1>6, <1>7 DEF AnswersInv

LEMMA BroadcastKeepsSends ==
  ASSUME BackgroundTypeOK, SendsInv,
         Schedule \/ Begin \/ List \/ GoOn \/ Interrupted \/ SendList \/ Report
  PROVE  SendsInv'
<1> USE DEF SendsInv
<1>1. UNCHANGED <<phase, aiVars, queued, holds, arrived, cause, failures>>
  BY DEF Schedule, Begin, List, GoOn, Interrupted, SendList, Report, OnlyBroadcast, life, mail
<1>2. AnswersInv' /\ Unanswered' = Unanswered
  BY <1>1, AnswersFrame DEF AnswersInv
<1>3. Ahead' \subseteq Ahead
  BY DEF Ahead, Schedule, Begin, List, GoOn, Interrupted, SendList, Report, BackgroundTypeOK
<1>4. AllOnce' /\ Untouched'
  BY <1>1, <1>2, <1>3, NothingSent
<1>5. Covered'
  <2>1. Ahead' \cap failures' = {}
    BY <1>1, <1>3 DEF Covered
  <2>2. ASSUME bpc' \in {"looking", "copying"}, NEW u \in Users
        PROVE  u \in left' \/ arrived'[u] > 0 \/ u \in failures'
    <3>1. List \/ GoOn
      BY <2>2 DEF Schedule, Begin, Interrupted, SendList, Report
    <3>2. CASE List
      BY <2>2, <3>2 DEF List
    <3>3. CASE GoOn
      BY <1>1, <3>3 DEF GoOn, Covered
    <3> QED
      BY <3>1, <3>2, <3>3
  <2>3. everyone' => bpc' = "over"
    BY DEF Covered, Schedule, Begin, List, GoOn, Interrupted, SendList, Report
  <2>4. ASSUME bpc' = "closing"
        PROVE  /\ \A u \in Users : arrived'[u] > 0 \/ u \in failures'
               /\ failures' = {} \/ listed' # "no"
    <3>1. SendList
      BY <2>4 DEF Schedule, Begin, List, GoOn, Interrupted, Report
    <3>2. \A u \in Users : arrived[u] > 0 \/ u \in failures
      BY <3>1 DEF SendList, Covered
    <3>3. failures = {} \/ listed' # "no"
      BY <3>1 DEF SendList
    <3> QED
      BY <1>1, <3>2, <3>3
  <2> QED
    BY <2>1, <2>2, <2>3, <2>4 DEF Covered
<1>6. EveryoneMeansEveryone'
  <2>1. \A u \in failures' : arrived'[u] > 0 => cause'[u] \cap {"lost", "queued"} # {}
    BY <1>1 DEF EveryoneMeansEveryone
  <2>2. CASE UNCHANGED <<everyone, listed>>
    BY <1>1, <2>1, <2>2 DEF EveryoneMeansEveryone
  <2>3. CASE SendList
    <3>1. ~everyone'
      BY <2>3 DEF SendList, Covered
    <3> QED
      BY <2>1, <3>1 DEF EveryoneMeansEveryone
  <2>4. CASE Report
    <3>1. bpc = "closing" /\ listed' = listed
      BY <2>4 DEF Report
    <3> QED
      BY <1>1, <2>1, <3>1 DEF Covered, EveryoneMeansEveryone, BackgroundTypeOK
  <2> QED
    BY <2>2, <2>3, <2>4 DEF Schedule, Begin, List, GoOn, Interrupted
<1> QED
  BY <1>2, <1>4, <1>5, <1>6 DEF AnswersInv

LEMMA CopyKeepsSends ==
  ASSUME BackgroundTypeOK, SendsInv, NEW u \in Users, CopyTo(u)
  PROVE  SendsInv'
<1> USE DEF SendsInv
<1>1. u \in Sends /\ u \notin Questions
  BY UsersAreNoQuestions
<1>2. /\ bpc = "copying" /\ bpc' = "looking" /\ u \in left /\ left' = left \ {u}
      /\ UNCHANGED <<phase, aiVars, everyone, listed>>
  BY DEF CopyTo, OnlyBroadcast, life
<1>3. \/ Arrives(u) /\ UNCHANGED <<queued, holds, cause, failures>>
      \/ TriesLater(u) /\ failures' = failures \cup {u}
      \/ UNCHANGED <<arrived, queued, holds, cause>> /\ failures' = failures \cup {u}
  BY DEF CopyTo, FailsForGood, mail
<1>4. arrived[u] = 0 /\ Outstanding(u) = {}
  BY <1>2 DEF Untouched, Ahead
<1>5. /\ AllOnce'
      /\ \A r \in Sends \ {u} : /\ arrived'[r] = arrived[r] /\ cause'[r] = cause[r]
                                /\ Outstanding(r)' = Outstanding(r)
      /\ Arrives(u) => arrived'[u] > 0
      /\ TriesLater(u) /\ arrived'[u] > 0 => cause'[u] \cap {"lost", "queued"} # {}
  BY <1>1, <1>3, <1>4, FirstAttempt
<1>6. AnswersInv' /\ Unanswered' = Unanswered
  BY <1>2, AnswersFrame DEF AnswersInv
<1>7. Ahead = left /\ Ahead' = left \ {u}
  BY <1>2 DEF Ahead
<1>8. Untouched'
  <2>1. Unanswered \subseteq Sends \ {u} /\ left \ {u} \subseteq Sends \ {u}
    BY <1>1, UsersAreNoQuestions DEF Unanswered, BackgroundTypeOK
  <2>2. ASSUME NEW r \in Ahead' \cup Unanswered' PROVE arrived'[r] = 0 /\ Outstanding(r)' = {}
    <3>1. r \in Sends \ {u} /\ r \in Ahead \cup Unanswered
      BY <1>6, <1>7, <2>1
    <3> QED
      BY <1>5, <3>1 DEF Untouched
  <2> QED
    BY <2>2 DEF Untouched
<1>9. Covered'
  <2>1. u \notin failures /\ left \cap failures = {}
    BY <1>2, <1>7 DEF Covered
  <2>2. Ahead' \cap failures' = {}
    BY <1>3, <1>7, <2>1
  <2>3. ASSUME NEW r \in Users PROVE r \in left' \/ arrived'[r] > 0 \/ r \in failures'
    <3>1. CASE r = u
      BY <1>3, <1>5, <3>1
    <3>2. CASE r # u
      <4>1. r \in left \/ arrived[r] > 0 \/ r \in failures
        BY <1>2 DEF Covered
      <4>2. arrived'[r] = arrived[r] /\ failures \subseteq failures'
        BY <1>3, <1>5, <3>2, UsersAreNoQuestions
      <4> QED
        BY <1>2, <3>2, <4>1, <4>2
    <3> QED
      BY <3>1, <3>2
  <2> QED
    BY <1>2, <2>2, <2>3 DEF Covered
<1>10. EveryoneMeansEveryone'
  <2>1. ~everyone
    BY <1>2 DEF Covered
  <2>2. ASSUME NEW r \in failures', arrived'[r] > 0
        PROVE  cause'[r] \cap {"lost", "queued"} # {}
    <3>1. CASE r = u
      <4>1. u \notin failures
        BY <1>2, <1>7 DEF Covered
      <4>2. CASE TriesLater(u)
        BY <1>5, <2>2, <3>1, <4>2
      <4> QED
        BY <1>3, <1>4, <2>2, <3>1, <4>1, <4>2
    <3>2. CASE r # u
      <4>1. r \in failures /\ r \in Sends \ {u}
        BY <1>3, <2>2, <3>2, UsersAreNoQuestions DEF BackgroundTypeOK
      <4> QED
        BY <1>5, <2>2, <4>1 DEF EveryoneMeansEveryone
    <3> QED
      BY <3>1, <3>2
  <2> QED
    BY <1>2, <2>1, <2>2 DEF EveryoneMeansEveryone
<1> QED
  BY <1>5, <1>6, <1>8, <1>9, <1>10 DEF AnswersInv

\* The answers.
LEMMA AskKeepsSends ==
  ASSUME BackgroundTypeOK, SendsInv, Ask
  PROVE  SendsInv'
<1> USE DEF SendsInv
<1>1. /\ asked' = asked + 1 /\ asked' \in Questions /\ asked \in Nat
      /\ UNCHANGED <<phase, bcast, queued, holds, arrived, cause, hand, responder, posted>>
      /\ \/ queue' = Append(queue, asked') /\ UNCHANGED excused
         \/ excused' = excused \cup {asked'} /\ UNCHANGED queue
  BY BackgroundAssumption DEF Ask, OnlyAI, life, mail, Questions, BackgroundTypeOK
<1>2. \A q \in Elements(queue) \cup {hand} : q # None => q \in 1..asked
  <2>1. Elements(queue) \cup {hand} \subseteq Questions \cup {None}
    BY DEF Elements, BackgroundTypeOK
  <2> QED
    BY <2>1, BackgroundAssumption DEF InOnePlace, Questions
<1>3. asked' \notin Elements(queue) \cup {hand}
  BY <1>1, <1>2, BackgroundAssumption DEF Questions
<1>4. Elements(queue') \subseteq Elements(queue) \cup {asked'}
      /\ Elements(queue) \subseteq Elements(queue')
      /\ asked' \in Elements(queue') \cup excused'
      /\ excused \subseteq excused'
  <2>1. Elements(Append(queue, asked')) = Elements(queue) \cup {asked'}
    BY <1>1, ElementsOfAppend DEF BackgroundTypeOK
  <2> QED
    BY <1>1, <2>1
<1>5. BroadcastInv' /\ Ahead' = Ahead
  BY <1>1, BroadcastFrame DEF BroadcastInv
<1>6. Unanswered' \subseteq Unanswered
  <2>1. \A q \in Questions : q > asked' => q > asked
    BY <1>1 DEF Questions
  <2>2. asked' > asked
    BY <1>1
  <2> QED
    BY <1>1, <1>4, <2>1, <2>2 DEF Unanswered
<1>7. AllOnce' /\ Untouched'
  BY <1>1, <1>5, <1>6, NothingSent
<1>8. InOnePlace'
  <2>1. \A i, j \in DOMAIN queue' : queue'[i] = queue'[j] => i = j
    <3>1. CASE UNCHANGED queue
      BY <3>1 DEF InOnePlace
    <3>2. CASE queue' = Append(queue, asked')
      <4>1. /\ DOMAIN queue' = DOMAIN queue \cup {Len(queue) + 1}
            /\ \A i \in DOMAIN queue : queue'[i] = queue[i]
            /\ queue'[Len(queue) + 1] = asked'
        BY <1>1, <3>2 DEF BackgroundTypeOK
      <4>2. \A i \in DOMAIN queue : queue'[i] # asked'
        BY <1>3, <4>1 DEF Elements
      <4>3. \A i, j \in DOMAIN queue : queue'[i] = queue'[j] => i = j
        BY <4>1 DEF InOnePlace
      <4> QED
        BY <4>1, <4>2, <4>3
    <3> QED
      BY <1>1, <3>1, <3>2
  <2>2. hand' \notin Elements(queue')
    BY <1>1, <1>3, <1>4 DEF InOnePlace
  <2>3. \A q \in Elements(queue') \cup {hand'} : q # None => q <= asked'
    <3>1. \A q \in Elements(queue) \cup {hand} : q # None => q <= asked'
      BY <1>1, <1>2
    <3>2. asked' <= asked'
      BY <1>1
    <3> QED
      BY <1>1, <1>4, <3>1, <3>2
  <2> QED
    BY <1>1, <2>1, <2>2, <2>3 DEF InOnePlace
<1>9. QuestionsAreLookedAfter'
  <2>1. ASSUME NEW q \in 1..asked'
        PROVE  q \in Elements(queue') \cup {hand'} \cup posted' \cup excused'
    <3>1. q = asked' \/ q \in 1..asked
      BY <1>1
    <3> QED
      BY <1>1, <1>4, <3>1 DEF QuestionsAreLookedAfter
  <2> QED
    BY <1>1, <2>1 DEF QuestionsAreLookedAfter
<1> QED
  BY <1>5, <1>7, <1>8, <1>9 DEF BroadcastInv

LEMMA TakeKeepsSends ==
  ASSUME BackgroundTypeOK, SendsInv, Take
  PROVE  SendsInv'
<1> USE DEF SendsInv
<1>1. /\ responder = "waiting" /\ responder' = "asking" /\ queue # <<>> /\ hand = None
      /\ hand' = Head(queue) /\ queue' = Tail(queue) /\ phase # "down"
      /\ UNCHANGED <<phase, bcast, queued, holds, arrived, cause, asked, posted, excused>>
  BY DEF Take, OnlyAI, life, mail, InOnePlace, Running
<1>2. /\ Head(queue) \in Questions /\ Head(queue) = queue[1] /\ 1 \in DOMAIN queue
      /\ \A i \in DOMAIN queue' : i \in Nat \ {0} /\ i + 1 \in DOMAIN queue
                                  /\ queue'[i] = queue[i + 1]
      /\ Elements(queue) = {hand'} \cup Elements(queue')
  BY <1>1, ElementsOfTail DEF BackgroundTypeOK
<1>3. BroadcastInv' /\ Ahead' = Ahead
  BY <1>1, BroadcastFrame DEF BroadcastInv
<1>4. Unanswered' = Unanswered
  BY <1>1, <1>2, UsersAreNoQuestions DEF Unanswered
<1>5. AllOnce' /\ Untouched'
  BY <1>1, <1>3, <1>4, NothingSent
<1>6. InOnePlace'
  <2>1. \A i, j \in DOMAIN queue' : queue'[i] = queue'[j] => i = j
    <3>1. \A i, j \in Nat : i + 1 = j + 1 => i = j
      OBVIOUS
    <3> QED
      BY <1>2, <3>1 DEF InOnePlace
  <2>2. \A i \in DOMAIN queue' : queue'[i] # hand'
    <3>1. \A i \in Nat \ {0} : i + 1 # 1
      OBVIOUS
    <3> QED
      BY <1>1, <1>2, <3>1 DEF InOnePlace
  <2>3. hand' \notin Elements(queue')
    BY <2>2 DEF Elements
  <2> QED
    BY <1>1, <1>2, <2>1, <2>3 DEF InOnePlace
<1>7. QuestionsAreLookedAfter'
  <2>1. ASSUME NEW q \in 1..asked
        PROVE  q \in Elements(queue') \cup {hand'} \cup posted' \cup excused'
    <3>1. q # None
      BY <1>1, BackgroundAssumption DEF BackgroundTypeOK
    <3> QED
      BY <1>1, <1>2, <3>1 DEF QuestionsAreLookedAfter
  <2> QED
    BY <1>1, <2>1 DEF QuestionsAreLookedAfter
<1> QED
  BY <1>3, <1>5, <1>6, <1>7 DEF BroadcastInv

LEMMA GenerateKeepsSends ==
  ASSUME BackgroundTypeOK, SendsInv, Generate \/ EndResponder
  PROVE  SendsInv'
<1> USE DEF SendsInv
<1>1. /\ UNCHANGED <<phase, bcast, queued, holds, arrived, cause, queue, asked, posted>>
      /\ \/ UNCHANGED <<hand, excused>> /\ responder' = "posting"
         \/ hand' = None /\ responder' = "waiting" /\ excused' = excused \cup {hand}
         \/ UNCHANGED <<hand, excused>> /\ responder = "waiting" /\ phase # "up"
  BY DEF Generate, EndResponder, Finished, Excused, AfterEmpty, OnlyAI, life, mail, Stopped
<1>2. None \notin Elements(queue)
  BY UsersAreNoQuestions DEF Elements, BackgroundTypeOK
<1>3. BroadcastInv' /\ Ahead' = Ahead
  BY <1>1, BroadcastFrame DEF BroadcastInv
<1>4. Unanswered' \subseteq Unanswered
  BY <1>1, UsersAreNoQuestions DEF Unanswered
<1>5. AllOnce' /\ Untouched'
  BY <1>1, <1>3, <1>4, NothingSent
<1>6. InOnePlace'
  BY <1>1, <1>2 DEF InOnePlace
<1>7. QuestionsAreLookedAfter'
  BY <1>1 DEF QuestionsAreLookedAfter
<1> QED
  BY <1>3, <1>5, <1>6, <1>7 DEF BroadcastInv

LEMMA PostKeepsSends ==
  ASSUME BackgroundTypeOK, HandIsFull, SendsInv, Post
  PROVE  SendsInv'
<1> USE DEF SendsInv
<1>1. /\ hand \in Questions /\ hand' = None /\ responder' = "waiting"
      /\ UNCHANGED <<phase, bcast, queue, asked>>
      /\ posted \subseteq posted' /\ excused \subseteq excused'
      /\ hand \in posted' \cup excused'
  BY DEF Post, Finished, Excused, OnlyAI, life, HandIsFull
<1>2. \/ Arrives(hand) /\ UNCHANGED <<queued, holds, cause>>
      \/ TriesLater(hand)
      \/ UNCHANGED <<arrived, queued, holds, cause>>
  BY DEF Post, FailsForGood, mail
<1>3. arrived[hand] = 0 /\ Outstanding(hand) = {} /\ hand \in Sends /\ hand \notin Users
  BY <1>1, UsersAreNoQuestions DEF Untouched, Unanswered
<1>4. /\ AllOnce'
      /\ \A r \in Sends \ {hand} : /\ arrived'[r] = arrived[r] /\ cause'[r] = cause[r]
                                   /\ Outstanding(r)' = Outstanding(r)
  BY <1>2, <1>3, FirstAttempt
<1>5. BroadcastInv' /\ Ahead' = Ahead
  BY <1>1, <1>3, <1>4, BroadcastFrame, UsersAreNoQuestions DEF BroadcastInv
<1>6. Unanswered' \subseteq Unanswered \ {hand}
  <2>1. hand <= asked /\ hand \notin Elements(queue)
    BY <1>1, UsersAreNoQuestions DEF InOnePlace
  <2>2. ~(hand > asked)
    BY <1>1, <2>1 DEF Questions, BackgroundTypeOK
  <2> QED
    BY <1>1, <2>1, <2>2, UsersAreNoQuestions DEF Unanswered
<1>7. Untouched'
  <2>1. ASSUME NEW r \in Ahead' \cup Unanswered' PROVE arrived'[r] = 0 /\ Outstanding(r)' = {}
    <3>1. r \in Ahead \cup Unanswered /\ r # hand
      BY <1>1, <1>5, <1>6, UsersAreNoQuestions DEF Ahead, BackgroundTypeOK
    <3>2. r \in Sends
      BY <3>1, UsersAreNoQuestions DEF Ahead, Unanswered, BackgroundTypeOK
    <3> QED
      BY <1>4, <3>1, <3>2 DEF Untouched
  <2> QED
    BY <2>1 DEF Untouched
<1>8. InOnePlace'
  <2>1. None \notin Elements(queue)
    BY UsersAreNoQuestions DEF Elements, BackgroundTypeOK
  <2> QED
    BY <1>1, <2>1 DEF InOnePlace
<1>9. QuestionsAreLookedAfter'
  BY <1>1 DEF QuestionsAreLookedAfter
<1> QED
  BY <1>4, <1>5, <1>7, <1>8, <1>9 DEF BroadcastInv

\* The end of a process, and the next.
LEMMA LifeKeepsSends ==
  ASSUME BackgroundTypeOK, SendsInv,
         Stop \/ Start \/ Die \/ \E busy \in BOOLEAN : Close(busy)
  PROVE  SendsInv'
<1> USE DEF SendsInv
<1>1. CASE Stop \/ \E busy \in BOOLEAN : Close(busy)
  <2>1. /\ UNCHANGED <<bcast, queued, holds, arrived, cause, queue, hand, responder, asked, posted, excused>>
        /\ phase' \notin {"up", "down"}
    BY <1>1 DEF Stop, Close, mail, aiVars
  <2>2. BroadcastInv' /\ Ahead' = Ahead
    BY <2>1, BroadcastFrame DEF BroadcastInv
  <2>3. Unanswered' = Unanswered
    BY <2>1 DEF Unanswered
  <2>4. AllOnce' /\ Untouched'
    BY <2>1, <2>2, <2>3, NothingSent
  <2> QED
    BY <2>1, <2>2, <2>4 DEF BroadcastInv, InOnePlace, QuestionsAreLookedAfter
<1>2. CASE Start
  <2>1. /\ UNCHANGED <<bcast, queued, holds, arrived, cause, queue, hand, asked, posted, excused>>
        /\ responder' = "waiting"
    BY <1>2 DEF Start
  <2>2. BroadcastInv' /\ Ahead' = Ahead
    BY <2>1, BroadcastFrame DEF BroadcastInv
  <2>3. Unanswered' = Unanswered
    BY <2>1 DEF Unanswered
  <2>4. AllOnce' /\ Untouched'
    BY <2>1, <2>2, <2>3, NothingSent
  <2>5. hand = None
    BY <1>2 DEF Start, InOnePlace
  <2>6. InOnePlace'
    BY <2>1, <2>5 DEF InOnePlace
  <2> QED
    BY <2>1, <2>2, <2>4, <2>6 DEF BroadcastInv, QuestionsAreLookedAfter
<1>3. CASE Die
  <2>1. /\ phase' = "down" /\ queue' = <<>> /\ hand' = None /\ responder' = "ended"
        /\ bpc' = (IF bpc \in {"off", "over"} THEN bpc ELSE "cut")
        /\ excused' = excused \cup Elements(queue) \cup ({hand} \ {None})
        /\ holds' = [holds EXCEPT ![Own] = {}]
        /\ UNCHANGED <<queued, arrived, cause, left, failures, listed, everyone, asked, posted>>
    BY <1>3 DEF Die
  <2>2. Elements(queue') = {}
    BY <2>1 DEF Elements
  <2>3. Ahead' \subseteq Ahead /\ (bpc' = bpc \/ bpc' = "cut")
    BY <2>1 DEF Ahead, BackgroundTypeOK
  <2>4. Unanswered' \subseteq Unanswered
    BY <2>1, <2>2, UsersAreNoQuestions DEF Unanswered
  <2>5. ASSUME NEW s \in Sends PROVE Once(s)' /\ Outstanding(s)' \subseteq Outstanding(s)
    BY <2>1, DropsKeepOnce DEF AllOnce, BackgroundTypeOK
  <2>10. AllOnce' /\ Untouched'
    <3>1. Ahead' \cup Unanswered' \subseteq Sends
      BY <2>3, <2>4, UsersAreNoQuestions DEF Ahead, Unanswered, BackgroundTypeOK
    <3>2. ASSUME NEW s \in Ahead' \cup Unanswered' PROVE arrived'[s] = 0 /\ Outstanding(s)' = {}
      BY <2>1, <2>3, <2>4, <2>5, <3>1 DEF Untouched
    <3> QED
      BY <2>5, <3>2 DEF AllOnce, Untouched
  <2>6. Covered'
    BY <2>1, <2>3 DEF Covered
  <2>7. EveryoneMeansEveryone'
    BY <2>1 DEF EveryoneMeansEveryone
  <2>8. InOnePlace'
    BY <2>1, <2>2 DEF InOnePlace
  <2>9. QuestionsAreLookedAfter'
    <3>1. None \notin 1..asked
      BY BackgroundAssumption DEF BackgroundTypeOK
    <3> QED
      BY <2>1, <3>1 DEF QuestionsAreLookedAfter
  <2> QED
    BY <2>6, <2>7, <2>8, <2>9, <2>10
<1> QED
  BY <1>1, <1>2, <1>3

LEMMA SendsStep == Typed /\ SendsInv /\ [Next]_vars => SendsInv'
<1> SUFFICES ASSUME Typed, SendsInv, [Next]_vars PROVE SendsInv'
  OBVIOUS
<1>1. BackgroundTypeOK /\ HandIsFull
  BY DEF Typed, TypeOK
<1>2. CASE UNCHANGED Work
  <2>1. UNCHANGED <<phase, bcast, aiVars, queued, holds, arrived, cause>>
    BY <1>2 DEF Work, life, mail
  <2>2. BroadcastInv' /\ Ahead' = Ahead
    BY <1>1, <2>1, BroadcastFrame DEF BroadcastInv, SendsInv
  <2>3. AnswersInv' /\ Unanswered' = Unanswered
    BY <2>1, AnswersFrame DEF AnswersInv, SendsInv
  <2>4. AllOnce' /\ Untouched'
    BY <2>1, <2>2, <2>3, NothingSent DEF SendsInv
  <2> QED
    BY <2>2, <2>3, <2>4 DEF BroadcastInv, AnswersInv, SendsInv
<1> QED
  BY <1>1, <1>2, Shapes, DrainKeepsSends, BroadcastKeepsSends, CopyKeepsSends, AskKeepsSends,
     TakeKeepsSends, GenerateKeepsSends, PostKeepsSends, LifeKeepsSends
     DEF OfTheProcess, BackgroundStep

LEMMA InitSends == Init => SendsInv
<1> SUFFICES ASSUME Init PROVE SendsInv
  OBVIOUS
<1> USE DEF Init, BackgroundInit, RedeliveryInit
<1>1. Elements(queue) = {}
  BY DEF Elements
<1>6. ASSUME NEW s \in Sends PROVE Outstanding(s) = {} /\ arrived[s] = 0 /\ Once(s)
  <2>1. Outstanding(s) = {}
    BY OutstandingRows
  <2> QED
    BY <2>1 DEF Once, Alone
<1>2. AllOnce
  BY <1>6 DEF AllOnce
<1>3. Untouched
  BY <1>6, UsersAreNoQuestions DEF Untouched, Ahead, Unanswered
<1>4. Covered /\ EveryoneMeansEveryone
  BY DEF Covered, EveryoneMeansEveryone
<1>5. InOnePlace /\ QuestionsAreLookedAfter
  <2>1. 1..asked = {}
    OBVIOUS
  <2> QED
    BY <1>1, <2>1 DEF InOnePlace, QuestionsAreLookedAfter
<1> QED
  BY <1>2, <1>3, <1>4, <1>5 DEF SendsInv

\* An admin who reads "sent the message to everyone." knows of every user, unless the list
\* of failures could not be sent (sendMassMsg), for any number of users, failures and
\* processes.
THEOREM EveryoneIsAccountedFor == Spec => []EveryoneMeansEveryone
<1>1. SendsInv => EveryoneMeansEveryone
  BY DEF SendsInv
<1> QED
  BY <1>1, InitIsTyped, InitSends, TypesStep, SendsStep, PTL DEF Spec

\* No user gets the broadcast twice and no question two answers but from the outbox, and
\* for a lost reply, a row that outlived its delivery, a second row, or two loops with one
\* row (sendMassMsg, aiResponderOnce, drainOutbox).
THEOREM TwiceIsEarned == Spec => []TwiceHasACause
<1>1. Typed /\ SendsInv => TwiceHasACause
  BY OnceHasACause DEF Typed, TypeOK, SendsInv
<1> QED
  BY <1>1, InitIsTyped, InitSends, TypesStep, SendsStep, PTL DEF Spec

\* A question marked as being thought about is waiting, in hand, answered or excused, and
\* the worker of a process that runs lives (aiInput, aiResponderOnce).
THEOREM NoQuestionIsForgotten == Spec => []QuestionsAreLookedAfter
<1>1. SendsInv => QuestionsAreLookedAfter
  BY DEF SendsInv
<1> QED
  BY <1>1, InitIsTyped, InitSends, TypesStep, SendsStep, PTL DEF Spec

-----------------------------------------------------------------------------
(* The night.                                                              *)

\* A dump that reads as settled is complete, broke off, or its writer paused.
DumpInv ==
  /\ dump["old"].state \in {"none", "whole"}
  /\ stalled \subseteq {"new"}
  /\ dump["new"].state = "writing" /\ ~dump["new"].fresh => "new" \in stalled
  /\ job = "uploading" => file \in stalled \/ dump[file].state \in {"whole", "cut"}
  /\ NightlyIsSettled

ArrivedFrom(by) == \E s \in shipped : s.by = by

\* What arrived and what is marked, at each stage of the job and of the script.
NightInv ==
  /\ ~night => job = "idle" /\ backstop = "before"
  /\ backstop # "before" => ~JobBusy
  /\ marker \/ job = "marking" => ArrivedFrom("job")
  /\ ArrivedFrom("job") /\ excuse = {} => job = "marking" \/ marker
  /\ ArrivedFrom("backstop") => backstop # "before"
  /\ OneBackupANight

LEMMA ShipAdds ==
  ASSUME NEW by, NEW f, Ship(by, f)
  PROVE  /\ ArrivedFrom(by)'
         /\ \A b : ArrivedFrom(b) => ArrivedFrom(b)'
         /\ \A b : b # by /\ ArrivedFrom(b)' => ArrivedFrom(b)
<1> DEFINE new == [by |-> by, file |-> f, state |-> dump[f].state]
<1>1. shipped' = shipped \cup {new}
  BY DEF Ship
<1>2. new.by = by
  OBVIOUS
<1> QED
  BY <1>1, <1>2 DEF ArrivedFrom

\* Without a delivery, the same has arrived.
LEMMA NothingShipped == UNCHANGED shipped => \A b : ArrivedFrom(b)' <=> ArrivedFrom(b)
BY DEF ArrivedFrom

LEMMA DayLeavesTheNight ==
  ASSUME UNCHANGED <<files, nightVars>>
  PROVE  /\ DumpInv => DumpInv'
         /\ NightInv => NightInv'
BY DEF files, nightVars, DumpInv, NightInv, NightlyIsSettled, OneBackupANight, ArrivedFrom,
       JobBusy

LEMMA ShutdownKeepsTheNight ==
  ASSUME Typed, DumpInv, NightInv, Shutdown
  PROVE  DumpInv' /\ NightInv'
<1>1. CASE Close(JobBusy) /\ UNCHANGED <<files, nightVars>>
  BY <1>1, DayLeavesTheNight
<1>2. CASE /\ Die
           /\ job' = IF JobBusy THEN "killed" ELSE job
           /\ excuse' = IF job = "marking" THEN excuse \cup {"killed"} ELSE excuse
           /\ UNCHANGED <<files, night, file, marker, backstop, shipped>>
  <2>1. DumpInv'
    BY <1>2 DEF DumpInv, NightlyIsSettled, files, JobBusy
  <2>2. \A b : ArrivedFrom(b)' <=> ArrivedFrom(b)
    BY <1>2 DEF ArrivedFrom
  <2>3. ~JobBusy' /\ (job' = job \/ job' = "killed") /\ job' # "marking"
    BY <1>2 DEF JobBusy
  <2>4. excuse' = {} => excuse = {} /\ job # "marking"
    BY <1>2
  <2>5. OneBackupANight'
    BY <1>2, <2>4 DEF NightInv, OneBackupANight
  <2> QED
    BY <1>2, <2>1, <2>2, <2>3, <2>4, <2>5 DEF NightInv, JobBusy
<1> QED
  BY <1>1, <1>2 DEF Shutdown

LEMMA DumpStep ==
  ASSUME Typed, DumpInv, OfTheNight
  PROVE  DumpInv'
<1> USE DEF DumpInv, Typed, TypeOK, Files, States
<1>1. CASE DumpBegins \/ DumpEnds \/ WriteOn
  <2>1. /\ UNCHANGED <<stalled, job, file, shipped>>
        /\ dump["new"].state \in {"none", "writing"}
        /\ \E s \in States, f \in BOOLEAN : Dumped(s, f) /\ (s = "writing" => f)
    BY <1>1 DEF DumpBegins, DumpEnds, WriteOn, nightVars
  <2>2. /\ dump'["old"] = dump["old"]
        /\ dump'["new"].state = "writing" => dump'["new"].fresh
    BY <2>1 DEF Dumped
  <2>3. NightlyIsSettled'
    BY <2>1 DEF NightlyIsSettled
  <2>4. job' = "uploading" => file' \in stalled' \/ dump'[file'].state \in {"whole", "cut"}
    BY <2>1, <2>2 DEF FileIsPicked
  <2> QED
    BY <2>1, <2>2, <2>3, <2>4
<1>2. CASE Settle
  <2>1. /\ dump' = [dump EXCEPT !["new"].fresh = FALSE] /\ UNCHANGED <<job, file, shipped>>
        /\ stalled' = IF dump["new"].state = "writing" THEN {"new"} ELSE stalled
    BY <1>2 DEF Settle, nightVars
  <2>2. /\ dump'["old"] = dump["old"] /\ dump'["new"].state = dump["new"].state
        /\ stalled \subseteq stalled' /\ stalled' \subseteq {"new"}
        /\ dump["new"].state = "writing" => "new" \in stalled'
    BY <2>1
  <2>3. NightlyIsSettled'
    BY <2>1, <2>2 DEF NightlyIsSettled
  <2>4. job' = "uploading" => file' \in stalled' \/ dump'[file'].state \in {"whole", "cut"}
    BY <2>1, <2>2 DEF FileIsPicked
  <2> QED
    BY <2>2, <2>3, <2>4
<1>3. CASE NightFalls \/ Mark \/ Backstop
  <2>1. UNCHANGED files /\ job' # "uploading"
    BY <1>3 DEF NightFalls, Mark, Backstop, OnlyJob, JobBusy
  <2>2. UNCHANGED shipped \/ Ship("backstop", Newest(Present))
    BY <1>3 DEF NightFalls, Mark, Backstop
  <2>3. NightlyIsSettled'
    BY <2>1, <2>2 DEF Ship, NightlyIsSettled, files
  <2> QED
    BY <2>1, <2>3 DEF files
<1>4. CASE Pick
  <2>1. UNCHANGED <<files, shipped>>
    BY <1>4 DEF Pick, OnlyJob
  <2>2. ASSUME job' = "uploading"
        PROVE  file' \in stalled \/ dump[file'].state \in {"whole", "cut"}
    <3>1. file' = Newest(Settled) /\ file' # None
      BY <1>4, <2>2 DEF Pick
    <3>2. file' \in Settled
      BY <3>1 DEF Newest, Settled, Present
    <3> QED
      BY <3>2 DEF Settled, Present
  <2> QED
    BY <2>1, <2>2 DEF files, NightlyIsSettled
<1>5. CASE Upload
  <2>1. UNCHANGED <<files, file>> /\ job = "uploading" /\ job' # "uploading"
    BY <1>5 DEF Upload, OnlyJob
  <2>2. UNCHANGED shipped \/ Ship("job", file)
    BY <1>5 DEF Upload
  <2>3. NightlyIsSettled'
    BY <2>1, <2>2 DEF Ship, NightlyIsSettled, files
  <2> QED
    BY <2>1, <2>3 DEF files
<1> QED
  BY <1>1, <1>2, <1>3, <1>4, <1>5 DEF OfTheNight

LEMMA NightStep ==
  ASSUME Typed, NightInv, OfTheNight
  PROVE  NightInv'
<1> USE DEF NightInv, OneBackupANight, JobBusy
<1>1. CASE DumpBegins \/ DumpEnds \/ Settle \/ WriteOn
  <2>1. UNCHANGED nightVars
    BY <1>1 DEF DumpBegins, DumpEnds, Settle, WriteOn
  <2> QED
    BY <2>1, NothingShipped DEF nightVars
<1>2. CASE NightFalls
  <2>1. UNCHANGED <<marker, backstop, shipped, excuse>> /\ night' /\ ~night
    BY <1>2 DEF NightFalls
  <2>2. job' # "marking" /\ job = "idle" /\ backstop = "before"
    BY <1>2 DEF NightFalls
  <2> QED
    BY <2>1, <2>2 DEF ArrivedFrom
<1>3. CASE Pick
  <2>1. /\ UNCHANGED <<night, marker, backstop, shipped, excuse>>
        /\ job = "picking" /\ job' \in {"failed", "uploading"}
    BY <1>3 DEF Pick, OnlyJob
  <2> QED
    BY <2>1 DEF ArrivedFrom
<1>4. CASE Upload
  <2>1. UNCHANGED <<night, marker, backstop>> /\ job = "uploading" /\ night /\ backstop = "before"
    BY <1>4 DEF Upload, OnlyJob
  <2>2. ~ArrivedFrom("backstop") /\ (ArrivedFrom("job") /\ excuse = {} => marker)
    BY <2>1
  <2>3. \/ job' = "marking" /\ Ship("job", file) /\ UNCHANGED excuse
        \/ job' = "failed" /\ Ship("job", file) /\ excuse' = excuse \cup {"lost"}
        \/ job' = "failed" /\ UNCHANGED <<shipped, excuse>>
    BY <1>4 DEF Upload
  <2>4. ~ArrivedFrom("backstop")'
    <3>1. Ship("job", file) => (ArrivedFrom("backstop")' => ArrivedFrom("backstop"))
      BY ShipAdds
    <3> QED
      BY <2>2, <2>3, <3>1, NothingShipped
  <2>5. \/ ArrivedFrom("job")' /\ (excuse' = {} => job' = "marking")
        \/ job' = "failed" /\ UNCHANGED <<shipped, excuse>>
    BY <2>3, ShipAdds
  <2>6. {s.by : s \in shipped'} # {"job", "backstop"}
    BY <2>4 DEF ArrivedFrom
  <2>7. UNCHANGED <<shipped, excuse>> => (ArrivedFrom("job")' <=> ArrivedFrom("job"))
    BY DEF ArrivedFrom
  <2>8. job' \in {"marking", "failed"}
    BY <2>3
  <2> QED
    BY <2>1, <2>2, <2>4, <2>5, <2>6, <2>7, <2>8
<1>5. CASE Mark
  <2>1. /\ UNCHANGED <<night, backstop, shipped>> /\ job = "marking" /\ job' = "done"
        /\ \/ marker' = TRUE /\ UNCHANGED excuse
           \/ excuse' = excuse \cup {"unmarked"} /\ UNCHANGED marker
    BY <1>5 DEF Mark, OnlyJob
  <2>2. ArrivedFrom("job") /\ (\A b : ArrivedFrom(b)' <=> ArrivedFrom(b))
    BY <2>1 DEF ArrivedFrom
  <2> QED
    BY <2>1, <2>2 DEF ArrivedFrom
<1>6. CASE Backstop
  <2>1. /\ UNCHANGED <<night, job, marker, excuse>> /\ night /\ ~JobBusy
        /\ backstop' \in {"skipped", "sent", "failed"}
    BY <1>6 DEF Backstop
  <2>2. \/ marker /\ backstop' = "skipped" /\ UNCHANGED shipped
        \/ ~marker /\ backstop' # "skipped" /\ (UNCHANGED shipped \/ Ship("backstop", Newest(Present)))
    BY <1>6 DEF Backstop, Sent
  <2>3. ArrivedFrom("job")' <=> ArrivedFrom("job")
    <3>1. ASSUME NEW f, Ship("backstop", f)
          PROVE  ArrivedFrom("job")' <=> ArrivedFrom("job")
      BY <3>1, ShipAdds
    <3> QED
      BY <2>2, <3>1, NothingShipped
  <2>4. backstop' = "skipped" => ArrivedFrom("job")'
    BY <2>2, <2>3
  <2>5. ASSUME {s.by : s \in shipped'} = {"job", "backstop"} PROVE excuse' # {}
    <3>1. ArrivedFrom("job") /\ ArrivedFrom("backstop")'
      BY <2>3, <2>5 DEF ArrivedFrom
    <3>2. CASE ~marker
      BY <2>1, <3>1, <3>2
    <3>3. CASE marker /\ UNCHANGED shipped
      BY <1>6, <3>1, <3>3 DEF ArrivedFrom, Backstop
    <3> QED
      BY <2>2, <3>2, <3>3
  <2> QED
    BY <2>1, <2>3, <2>4, <2>5 DEF ArrivedFrom
<1> QED
  BY <1>1, <1>2, <1>3, <1>4, <1>5, <1>6 DEF OfTheNight

LEMMA NightSteps == Typed /\ DumpInv /\ NightInv /\ [Next]_vars => DumpInv' /\ NightInv'
<1> SUFFICES ASSUME Typed, DumpInv, NightInv, [Next]_vars PROVE DumpInv' /\ NightInv'
  OBVIOUS
<1>1. CASE UNCHANGED <<files, nightVars>>
  BY <1>1, DayLeavesTheNight
<1> QED
  BY <1>1, ShutdownKeepsTheNight, DumpStep, NightStep DEF Next, OfTheNight, vars

LEMMA InitOfTheNight == Init => DumpInv /\ NightInv
<1> SUFFICES ASSUME Init PROVE DumpInv /\ NightInv
  OBVIOUS
<1>1. dump["old"].state \in {"none", "whole"} /\ dump["new"].state = "none"
  BY DEF Init, Files
<1> QED
  BY <1>1 DEF Init, DumpInv, NightInv, NightlyIsSettled, OneBackupANight, ArrivedFrom, JobBusy

\* The job ships no dump that is still being written, unless its writer paused for
\* backupMinAge (latestBackupFile).
THEOREM NoDumpMidWrite == Spec => []NightlyIsSettled
<1>1. DumpInv => NightlyIsSettled
  BY DEF DumpInv
<1> QED
  BY <1>1, InitIsTyped, InitOfTheNight, TypesStep, NightSteps, PTL DEF Spec

\* The script holds back only when the backup has arrived, and a second copy has a reason
\* (touchNightlySentMarker and the check of the script), wherever the process dies.
THEOREM OneBackup == Spec => []OneBackupANight
<1>1. NightInv => OneBackupANight
  BY DEF NightInv
<1> QED
  BY <1>1, InitIsTyped, InitOfTheNight, TypesStep, NightSteps, PTL DEF Spec
=============================================================================
