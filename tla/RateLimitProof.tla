--------------------------- MODULE RateLimitProof ---------------------------
(***************************************************************************)
(* The laws of the client that paces the bot (internal/bot/ratelimit.go):  *)
(* those of the flood pause, for any number of threads, any waits and any  *)
(* number of 429 answers, and those of the token buckets, for every number *)
(* of chats, every price and every capacity.                               *)
(*                                                                         *)
(* BoundedPileOn needs an account of what may still reach Telegram: two    *)
(* requests for each thread that has passed the check, one for each that   *)
(* sleeps before its inline retry.  BurstBound is not inductive either:    *)
(* what may still go out of the watched bucket is what it holds, so the    *)
(* invariant bounds the sum of what was granted and what is held.          *)
(***************************************************************************)
EXTENDS FloodPause, Limiter, FiniteSetTheorems, TLAPS

(* The flood pause.                                                        *)

\* Who has passed the check and not asked, and who sleeps before the second request.
Asking == {t \in Threads : pc[t] = "ask"}
Sleeping == {t \in Threads : pc[t] = "sleep"}

LEMMA InitTyped == Init => TypeOK
BY FloodAssumption DEF Init, TypeOK

LEMMA NotedIsLater ==
  ASSUME TypeOK, NEW s \in Nat
  PROVE  Noted(s) \in Nat /\ Noted(s) > 0 /\ Noted(s) >= pauseLeft
BY FloodAssumption DEF TypeOK, Noted, Larger

LEMMA TypedStep == TypeOK /\ [Next]_vars => TypeOK'
<1> SUFFICES ASSUME TypeOK, [Next]_vars PROVE TypeOK'
  OBVIOUS
<1>1. CASE UNCHANGED vars
  BY <1>1 DEF vars, TypeOK
<1>2. CASE Tick
  <2>1. pauseLeft' \in Nat /\ reportLeft' \in 0 .. ReportGap
    BY <1>2, FloodAssumption DEF Tick, TypeOK
  <2>2. wait' \in [Threads -> Nat]
    BY <1>2 DEF Tick, TypeOK
  <2>3. pileOn' \in Nat
    BY <1>2 DEF Tick, TypeOK
  <2> QED
    BY <1>2, <2>1, <2>2, <2>3 DEF Tick, TypeOK
<1>3. ASSUME NEW t \in Threads, Begin(t) PROVE TypeOK'
  BY <1>3 DEF Begin, Starts, TypeOK
<1>4. ASSUME NEW t \in Threads, Check(t) PROVE TypeOK'
  BY <1>4 DEF Check, Back, TypeOK
<1>5. ASSUME NEW t \in Threads, Ask(t) PROVE TypeOK'
  <2>1. CASE SaysYes(t)
    BY <1>5, <2>1 DEF Ask, SaysYes, Back, Reached, TypeOK
  <2>2. ASSUME NEW s \in Secs, Says429(t, s), pauseLeft' = Noted(s),
               \/ pc' = [pc EXCEPT ![t] = "sleep"] /\ UNCHANGED err
               \/ Back(t, "flood"),
               UNCHANGED <<reportLeft, phase>>
        PROVE  TypeOK'
    <3>1. s \in Nat /\ pauseLeft' \in Nat
      BY <2>2, NotedIsLater, FloodAssumption
    <3>2. floods' \in 0 .. MaxFloods
      BY <2>2, FloodAssumption DEF Says429, TypeOK
    <3> QED
      BY <2>2, <3>1, <3>2 DEF Says429, Back, Reached, TypeOK
  <2> QED
    BY <1>5, <2>1, <2>2 DEF Ask
<1>6. ASSUME NEW t \in Threads, Retry(t) PROVE TypeOK'
  <2>1. CASE SaysYes(t)
    BY <1>6, <2>1 DEF Retry, SaysYes, Back, Reached, TypeOK
  <2>2. ASSUME NEW s \in Secs, Says429(t, s), Back(t, "flood"), UNCHANGED pauseLeft,
               UNCHANGED <<reportLeft, phase>>
        PROVE  TypeOK'
    <3>1. s \in Nat
      BY FloodAssumption
    <3>2. floods' \in 0 .. MaxFloods
      BY <2>2, FloodAssumption DEF Says429, TypeOK
    <3> QED
      BY <2>2, <3>1, <3>2 DEF Says429, Back, Reached, TypeOK
  <2> QED
    BY <1>6, <2>1, <2>2 DEF Retry
<1>7. ASSUME NEW t \in Threads, HandleErr(t) PROVE TypeOK'
  <2>1. Noted(wait[t]) \in Nat
    BY NotedIsLater DEF TypeOK
  <2> QED
    BY <1>7, <2>1 DEF HandleErr, Starts, TypeOK
<1>8. ASSUME NEW t \in Threads, ReplySent(t) PROVE TypeOK'
  BY <1>8, FloodAssumption DEF ReplySent, Starts, TypeOK
<1>9. ASSUME NEW t \in Threads, ReportSent(t) PROVE TypeOK'
  BY <1>9 DEF ReportSent, TypeOK
<1> QED
  BY <1>1, <1>2, <1>3, <1>4, <1>5, <1>6, <1>7, <1>8, <1>9 DEF Next, ThreadStep

\* Every reachable state of the flood pause is well typed.
THEOREM TypeCorrect == Spec => []TypeOK
BY InitTyped, TypedStep, PTL DEF Spec

-----------------------------------------------------------------------------
\* A 429 that handleErr is about to note has not been noted yet.
FloodsArePending ==
  \A t \in Threads : phase[t] = "main" /\ pc[t] = "back" /\ err[t] = "flood" => t \in pending

LEMMA PendingStep ==
  ASSUME TypeOK, FloodsArePending, [Next]_vars
  PROVE  FloodsArePending'
<1>1. CASE UNCHANGED vars
  BY <1>1 DEF vars, FloodsArePending
<1>2. CASE Tick
  BY <1>2 DEF Tick, FloodsArePending
<1>3. ASSUME NEW t \in Threads, Begin(t) PROVE FloodsArePending'
  BY <1>3 DEF Begin, Starts, TypeOK, FloodsArePending
<1>4. ASSUME NEW t \in Threads, Check(t) PROVE FloodsArePending'
  BY <1>4 DEF Check, Back, TypeOK, FloodsArePending
<1>5. ASSUME NEW t \in Threads, Ask(t) PROVE FloodsArePending'
  BY <1>5 DEF Ask, SaysYes, Says429, Back, TypeOK, FloodsArePending
<1>6. ASSUME NEW t \in Threads, Retry(t) PROVE FloodsArePending'
  BY <1>6 DEF Retry, SaysYes, Says429, Back, TypeOK, FloodsArePending
<1>7. ASSUME NEW t \in Threads, HandleErr(t) PROVE FloodsArePending'
  BY <1>7 DEF HandleErr, Starts, TypeOK, FloodsArePending
<1>8. ASSUME NEW t \in Threads, ReplySent(t) PROVE FloodsArePending'
  BY <1>8 DEF ReplySent, Starts, TypeOK, FloodsArePending
<1>9. ASSUME NEW t \in Threads, ReportSent(t) PROVE FloodsArePending'
  BY <1>9 DEF ReportSent, TypeOK, FloodsArePending
<1> QED
  BY <1>1, <1>2, <1>3, <1>4, <1>5, <1>6, <1>7, <1>8, <1>9 DEF Next, ThreadStep

\* What a step may do to the pause.
PauseHasACause ==
  pauseLeft' > pauseLeft => floods' > floods \/ \E t \in pending : t \notin pending'

LEMMA PauseStep ==
  ASSUME TypeOK, FloodsArePending, [Next]_vars
  PROVE  PauseHasACause
<1> USE DEF PauseHasACause
<1>1. CASE UNCHANGED vars
  BY <1>1 DEF vars, TypeOK
<1>2. CASE Tick
  BY <1>2 DEF Tick, TypeOK
<1>3. ASSUME NEW t \in Threads, Begin(t) \/ Check(t) \/ ReplySent(t) \/ ReportSent(t)
      PROVE  PauseHasACause
  BY <1>3 DEF Begin, Check, ReplySent, ReportSent, TypeOK
<1>4. ASSUME NEW t \in Threads, Ask(t) \/ Retry(t) PROVE PauseHasACause
  BY <1>4 DEF Ask, Retry, SaysYes, Says429, TypeOK
<1>5. ASSUME NEW t \in Threads, HandleErr(t) PROVE PauseHasACause
  <2>1. CASE err[t] = "flood"
    <3>1. t \in pending /\ t \notin pending'
      BY <1>5, <2>1 DEF HandleErr, FloodsArePending
    <3> QED
      BY <3>1
  <2>2. CASE err[t] # "flood"
    BY <1>5, <2>2 DEF HandleErr, TypeOK
  <2> QED
    BY <2>1, <2>2
<1> QED
  BY <1>1, <1>2, <1>3, <1>4, <1>5 DEF Next, ThreadStep

\* The pause begins or is extended by a 429 only, at its answer or when handleErr sees
\* it, for any number of threads: refusals of our own never do (errFloodPaused).
THEOREM PauseNeedsA429 == Spec => PauseOnlyAfter429
<1>1. Init => FloodsArePending
  BY DEF Init, FloodsArePending
<1>2. TypeOK /\ FloodsArePending /\ [Next]_vars => FloodsArePending'
  BY PendingStep
<1>3. TypeOK /\ FloodsArePending /\ [Next]_vars => [PauseHasACause]_vars
  BY PauseStep
<1> QED
  BY <1>1, <1>2, <1>3, InitTyped, TypedStep, PTL DEF Spec, PauseOnlyAfter429, PauseHasACause

-----------------------------------------------------------------------------
\* While a pause lasts, what has reached Telegram and what still may.
Budget ==
  /\ pauseLeft = 0 => pileOn = 0
  /\ pauseLeft > 0 =>
       pileOn + 2 * Cardinality(Asking) + Cardinality(Sleeping) <= 2 * Cardinality(Threads) - 1

\* One thread that is not about to ask leaves room for the others.
LEMMA Room ==
  ASSUME NEW T, IsFiniteSet(T), NEW A \in SUBSET T, NEW S \in SUBSET T, A \cap S = {},
         NEW t \in T, t \notin A
  PROVE  2 * Cardinality(A) + Cardinality(S) <= 2 * Cardinality(T) - 1
<1>1. IsFiniteSet(A) /\ IsFiniteSet(S)
  BY FS_Subset
<1>2. Cardinality(A) \in Nat /\ Cardinality(S) \in Nat /\ Cardinality(T) \in Nat
  BY <1>1, FS_CardinalityType
<1>3. Cardinality(A \cup S) = Cardinality(A) + Cardinality(S) - Cardinality(A \cap S)
  BY <1>1, FS_Union
<1>4. Cardinality(A \cap S) = 0
  BY FS_EmptySet
<1>5. Cardinality(A \cup S) <= Cardinality(T)
  BY FS_Subset
<1>6. Cardinality(T \ {t}) = Cardinality(T) - 1
  BY FS_RemoveElement
<1>7. Cardinality(A) <= Cardinality(T \ {t})
  <2>1. A \subseteq T \ {t} /\ IsFiniteSet(T \ {t})
    BY FS_Subset
  <2> QED
    BY <2>1, FS_Subset
<1> QED
  BY <1>2, <1>3, <1>4, <1>5, <1>6, <1>7

LEMMA Counts ==
  /\ IsFiniteSet(Asking) /\ IsFiniteSet(Sleeping)
  /\ Cardinality(Asking) \in Nat /\ Cardinality(Sleeping) \in Nat
  /\ Cardinality(Threads) \in Nat
<1>1. Asking \subseteq Threads /\ Sleeping \subseteq Threads
  BY DEF Asking, Sleeping
<1>2. IsFiniteSet(Asking) /\ IsFiniteSet(Sleeping)
  BY <1>1, FS_Subset, FloodAssumption
<1> QED
  BY <1>2, FS_CardinalityType, FloodAssumption

LEMMA CountsNext ==
  /\ IsFiniteSet(Asking') /\ IsFiniteSet(Sleeping')
  /\ Cardinality(Asking') \in Nat /\ Cardinality(Sleeping') \in Nat
<1>1. Asking' \subseteq Threads /\ Sleeping' \subseteq Threads
  BY DEF Asking, Sleeping
<1>2. IsFiniteSet(Asking') /\ IsFiniteSet(Sleeping')
  BY <1>1, FS_Subset, FloodAssumption
<1> QED
  BY <1>2, FS_CardinalityType

\* A pause begins while thread t is not about to ask.
LEMMA PauseBegins ==
  ASSUME pileOn' = 0, NEW t \in Threads, pc'[t] # "ask"
  PROVE  pileOn' + 2 * Cardinality(Asking') + Cardinality(Sleeping')
           <= 2 * Cardinality(Threads) - 1
<1>1. /\ Asking' \in SUBSET Threads /\ Sleeping' \in SUBSET Threads
      /\ Asking' \cap Sleeping' = {} /\ t \notin Asking'
  BY DEF Asking, Sleeping
<1>2. 2 * Cardinality(Asking') + Cardinality(Sleeping') <= 2 * Cardinality(Threads) - 1
  BY <1>1, Room, FloodAssumption
<1> QED
  BY <1>2, Counts, CountsNext

\* A step that neither starts a request nor reaches Telegram.
LEMMA QuietKeeps ==
  ASSUME TypeOK, Budget, Asking' \subseteq Asking, Sleeping' \subseteq Sleeping,
         pileOn' = pileOn, pauseLeft' = pauseLeft
  PROVE  Budget'
<1>1. Cardinality(Asking') <= Cardinality(Asking)
  BY Counts, FS_Subset
<1>2. Cardinality(Sleeping') <= Cardinality(Sleeping)
  BY Counts, FS_Subset
<1>3. pileOn \in Nat
  BY DEF TypeOK
<1> QED
  BY <1>1, <1>2, <1>3, Counts, CountsNext DEF Budget

\* Thread t is through with the request it was at; a pause that begins now begins with it.
LEMMA AskKeeps ==
  ASSUME TypeOK, Budget, NEW t \in Threads, pc[t] = "ask", Reached, pauseLeft' \in Nat,
         pauseLeft > 0 => pauseLeft' > 0,
         pc' = [pc EXCEPT ![t] = "sleep"] \/ pc' = [pc EXCEPT ![t] = "back"]
  PROVE  Budget'
<1>1. Asking' = Asking \ {t} /\ t \in Asking
  BY DEF TypeOK, Asking
<1>2. Cardinality(Asking') = Cardinality(Asking) - 1
  BY <1>1, Counts, FS_RemoveElement
<1>3. Cardinality(Sleeping') <= Cardinality(Sleeping) + 1
  <2>1. IsFiniteSet(Sleeping \cup {t}) /\ Sleeping' \subseteq Sleeping \cup {t}
    BY Counts, FS_AddElement DEF TypeOK, Sleeping
  <2>2. Cardinality(Sleeping \cup {t}) <= Cardinality(Sleeping) + 1
    <3>1. Sleeping \cup {t} = Sleeping \/ t \notin Sleeping
      OBVIOUS
    <3>2. CASE t \notin Sleeping
      <4>1. Cardinality(Sleeping \cup {t}) = Cardinality(Sleeping) + 1
        BY <3>2, Counts, FS_AddElement
      <4> QED
        BY <4>1, Counts
    <3>3. CASE Sleeping \cup {t} = Sleeping
      <4>1. Cardinality(Sleeping \cup {t}) = Cardinality(Sleeping)
        BY <3>3
      <4> QED
        BY <4>1, Counts
    <3> QED
      BY <3>1, <3>2, <3>3
  <2>3. Cardinality(Sleeping') <= Cardinality(Sleeping \cup {t})
    BY <2>1, FS_Subset
  <2>4. Cardinality(Sleeping \cup {t}) \in Nat
    BY <2>1, FS_CardinalityType
  <2> QED
    BY <2>2, <2>3, <2>4, Counts, CountsNext
<1>4. CASE pauseLeft > 0
  <2>1. pileOn' = pileOn + 1
    BY <1>4 DEF Reached
  <2> QED
    BY <1>2, <1>3, <1>4, <2>1, Counts, CountsNext DEF Budget, TypeOK
<1>5. CASE pauseLeft = 0
  <2>1. pileOn' = 0
    BY <1>5 DEF Reached
  <2>2. pc'[t] # "ask"
    BY DEF TypeOK
  <2> QED
    BY <2>1, <2>2, PauseBegins DEF Budget
<1> QED
  BY <1>4, <1>5 DEF TypeOK

LEMMA RetryKeeps ==
  ASSUME TypeOK, Budget, NEW t \in Threads, pc[t] = "sleep", Reached, pauseLeft' = pauseLeft,
         pc' = [pc EXCEPT ![t] = "back"]
  PROVE  Budget'
<1>1. Asking' = Asking /\ Sleeping' = Sleeping \ {t} /\ t \in Sleeping
  BY DEF TypeOK, Asking, Sleeping
<1>2. Cardinality(Sleeping') = Cardinality(Sleeping) - 1
  BY <1>1, Counts, FS_RemoveElement
<1>3. Cardinality(Asking') = Cardinality(Asking)
  BY <1>1
<1>4. CASE pauseLeft > 0
  BY <1>2, <1>3, <1>4, Counts, CountsNext DEF Budget, TypeOK, Reached
<1>5. CASE pauseLeft = 0
  BY <1>5 DEF Budget, Reached
<1> QED
  BY <1>4, <1>5 DEF TypeOK

LEMMA BudgetStep ==
  ASSUME TypeOK, TypeOK', Budget, [Next]_vars
  PROVE  Budget'
<1>1. CASE UNCHANGED vars
  BY <1>1, QuietKeeps DEF vars, Asking, Sleeping
<1>2. CASE Tick
  <2>1. Asking' = Asking /\ Sleeping' = Sleeping
    BY <1>2 DEF Tick, Asking, Sleeping
  <2>2. Cardinality(Asking') = Cardinality(Asking) /\ Cardinality(Sleeping') = Cardinality(Sleeping)
    BY <2>1
  <2>3. pauseLeft' > 0 => pauseLeft > 0 /\ pileOn' = pileOn
    BY <1>2 DEF Tick, TypeOK
  <2>4. pauseLeft' = 0 => pileOn' = 0
    BY <1>2 DEF Tick
  <2> QED
    BY <2>2, <2>3, <2>4 DEF Budget
<1>3. ASSUME NEW t \in Threads, Begin(t) \/ ReplySent(t) \/ ReportSent(t) PROVE Budget'
  <2>1. Asking' \subseteq Asking /\ Sleeping' \subseteq Sleeping
    BY <1>3 DEF Begin, ReplySent, ReportSent, Starts, Asking, Sleeping, TypeOK
  <2> QED
    BY <1>3, <2>1, QuietKeeps DEF Begin, ReplySent, ReportSent
<1>4. ASSUME NEW t \in Threads, Check(t) PROVE Budget'
  <2>1. CASE pauseLeft > 0
    <3>1. Asking' \subseteq Asking /\ Sleeping' \subseteq Sleeping
      BY <1>4, <2>1 DEF Check, Back, Asking, Sleeping, TypeOK
    <3> QED
      BY <1>4, <3>1, QuietKeeps DEF Check
  <2>2. CASE pauseLeft = 0
    BY <1>4, <2>2 DEF Check, Budget
  <2> QED
    BY <2>1, <2>2 DEF TypeOK
<1>5. ASSUME NEW t \in Threads, Ask(t) PROVE Budget'
  <2>1. CASE SaysYes(t)
    BY <1>5, <2>1, AskKeeps DEF Ask, SaysYes, Back, TypeOK
  <2>2. ASSUME NEW s \in Secs, Says429(t, s), pauseLeft' = Noted(s),
               \/ pc' = [pc EXCEPT ![t] = "sleep"] /\ UNCHANGED err
               \/ Back(t, "flood")
        PROVE  Budget'
    <3>1. s \in Nat
      BY FloodAssumption
    <3>2. pauseLeft' \in Nat /\ pauseLeft' > 0
      BY <2>2, <3>1, NotedIsLater
    <3>3. pc[t] = "ask"
      BY <1>5 DEF Ask
    <3> QED
      BY <2>2, <3>2, <3>3, AskKeeps DEF Says429, Back
  <2> QED
    BY <1>5, <2>1, <2>2 DEF Ask
<1>6. ASSUME NEW t \in Threads, Retry(t) PROVE Budget'
  BY <1>6, RetryKeeps DEF Retry, SaysYes, Says429, Back
<1>7. ASSUME NEW t \in Threads, HandleErr(t) PROVE Budget'
  <2>1. Asking' \subseteq Asking /\ Sleeping' \subseteq Sleeping /\ pileOn' = pileOn
    BY <1>7 DEF HandleErr, Starts, Asking, Sleeping, TypeOK
  <2>2. CASE pauseLeft' = pauseLeft
    BY <2>1, <2>2, QuietKeeps
  <2>3. CASE pauseLeft' = Noted(wait[t])
    <3>1. Noted(wait[t]) > 0 /\ wait[t] \in Nat
      BY NotedIsLater DEF TypeOK
    <3>2. CASE pauseLeft = 0
      <4>1. pileOn' = 0
        BY <2>1, <3>2 DEF Budget
      <4>2. pc'[t] # "ask"
        BY <1>7 DEF HandleErr, Starts, TypeOK
      <4> QED
        BY <2>3, <3>1, <4>1, <4>2, PauseBegins DEF Budget
    <3>3. CASE pauseLeft > 0
      <4>1. Cardinality(Asking') <= Cardinality(Asking)
        BY <2>1, Counts, FS_Subset
      <4>2. Cardinality(Sleeping') <= Cardinality(Sleeping)
        BY <2>1, Counts, FS_Subset
      <4> QED
        BY <2>1, <2>3, <3>1, <3>3, <4>1, <4>2, Counts, CountsNext DEF Budget, TypeOK
    <3> QED
      BY <3>2, <3>3 DEF TypeOK
  <2> QED
    BY <1>7, <2>2, <2>3 DEF HandleErr
<1> QED
  BY <1>1, <1>2, <1>3, <1>4, <1>5, <1>6, <1>7 DEF Next, ThreadStep

\* During a pause fewer than two requests for each thread reach Telegram, however many
\* updates arrive and however long it lasts (RequestWithContext).
THEOREM PileOnIsBounded == Spec => []BoundedPileOn
<1>1. Init => Budget
  BY FloodAssumption DEF Init, Budget
<1>2. TypeOK /\ Budget => BoundedPileOn
  <2>1. Cardinality(Threads) # 0
    BY FS_EmptySet, FloodAssumption
  <2> QED
    BY <2>1, Counts DEF TypeOK, Budget, BoundedPileOn
<1>3. TypeOK /\ TypeOK' /\ Budget /\ [Next]_vars => Budget'
  BY BudgetStep
<1> QED
  BY <1>1, <1>2, <1>3, InitTyped, TypedStep, PTL DEF Spec

-----------------------------------------------------------------------------
(* The token buckets.                                                      *)

USE LimiterAssumption

\* The law is about a bucket that never escaped.  While its chat is not in the map
\* it would be full, so that the full bucket of a new entry is no gift.
FullWhenForgotten ==
  ~escaped /\ watched \in Chats \ tracked =>
    tokens[watched] + (now - last[watched]) >= Cap[watched]

\* What is granted from the watched bucket and what it holds never exceed its
\* capacity and what it refilled since.
GrantedAndHeld ==
  ~escaped =>
    /\ now < since => spent = 0
    /\ now >= since => /\ spent + Holds(watched) <= Cap[watched] + (now - since)
                       /\ spent <= Cap[watched] + (now - since)

LimiterInv ==
  /\ LimiterTypeOK
  /\ \A b \in Buckets : last[b] <= now
  /\ FullWhenForgotten
  /\ GrantedAndHeld

\* A bucket holds between its deepest debt and its capacity.
LEMMA HoldsBounds ==
  ASSUME LimiterTypeOK, NEW b \in Buckets, last[b] <= now
  PROVE  Holds(b) \in -Cap[b]..Cap[b]
BY DEF LimiterTypeOK, Holds, Buckets, Times

\* So it does after a token was taken, and then it holds less.
LEMMA LeftBounds ==
  ASSUME LimiterTypeOK, NEW b \in Buckets, last[b] <= now
  PROVE  /\ Left(b) \in -Cap[b]..Cap[b]
         /\ Left(b) <= Holds(b)
         /\ Left(b) >= 0 => Left(b) = Holds(b) - Cost[b]
<1>1. Holds(b) \in -Cap[b]..Cap[b]
  BY HoldsBounds
<1>2. Cost[b] \in Nat \ {0} /\ Cap[b] \in Nat \ {0}
  OBVIOUS
<1> QED
  BY <1>1, <1>2 DEF Left

\* The map only ever holds chats, and none but the chat a reservation is for is new.
LEMMA TrackingInChats ==
  ASSUME LimiterTypeOK, NEW c \in Chats
  PROVE  Tracking(c) \subseteq Chats /\ Tracking(c) \subseteq tracked \cup {c}
BY DEF Tracking, LimiterTypeOK

\* A chat that a reservation for another one drops was idle, hence full again.
LEMMA DroppedIsFull ==
  ASSUME LimiterTypeOK, NEW d \in Chats, NEW c \in tracked, c \notin Tracking(d)
  PROVE  c # d /\ tokens[c] + (now - last[c]) >= Cap[c]
<1>1. c \in Chats /\ c \in Pruned(tracked \cup {d}, d) /\ d \notin tracked
  BY DEF Tracking, LimiterTypeOK
<1>2. now - last[c] > Idle
  BY <1>1 DEF Pruned
<1>3. /\ tokens[c] >= -Cap[c] /\ tokens[c] \in Int /\ Cap[c] \in Nat
      /\ Idle \in Nat /\ Idle >= 2 * Cap[c] /\ now \in Int /\ last[c] \in Int
  BY <1>1 DEF LimiterTypeOK, Buckets, Times
<1> QED
  BY <1>1, <1>2, <1>3

\* A reservation keeps the types.
LEMMA TakeKeepsTypes ==
  ASSUME LimiterTypeOK, \A b \in Buckets : last[b] <= now,
         NEW B \in SUBSET Buckets, Take(B), tracked' \subseteq Chats,
         escaped' \in BOOLEAN
  PROVE  LimiterTypeOK' /\ (\A b \in Buckets : last[b] <= now)'
<1>1. \A b \in Buckets : Left(b) \in -Cap[b]..Cap[b]
  BY LeftBounds
<1>2. \A b \in Buckets : -Cap[b]..Cap[b] \subseteq Int
  OBVIOUS
<1>3. watched \in Buckets /\ Cost[watched] \in Nat
  BY DEF LimiterTypeOK
<1> QED
  BY <1>1, <1>2, <1>3 DEF Take, LimiterTypeOK, RefilledAt, Times

\* A reservation keeps the law, if it lets the watched chat escape or leaves it in
\* the map, and drops it only when full.
LEMMA TakeKeepsLaw ==
  ASSUME LimiterInv, NEW B \in SUBSET Buckets, Take(B),
         ~escaped' => /\ ~escaped
                      /\ watched \in B \cap Chats => watched \in tracked'
                      /\ watched \notin B /\ watched \in tracked' => watched \in tracked
                      /\ watched \in tracked \ tracked' =>
                           tokens[watched] + (now - last[watched]) >= Cap[watched]
  PROVE  FullWhenForgotten' /\ GrantedAndHeld'
<1> SUFFICES ASSUME ~escaped'
             PROVE  /\ (watched \in Chats \ tracked =>
                           tokens[watched] + (now - last[watched]) >= Cap[watched])'
                    /\ (/\ now < since => spent = 0
                        /\ now >= since =>
                             /\ spent + Holds(watched) <= Cap[watched] + (now - since)
                             /\ spent <= Cap[watched] + (now - since))'
  BY DEF GrantedAndHeld, FullWhenForgotten
<1> DEFINE w == watched
<1>1. /\ w \in Buckets /\ last[w] <= now /\ w' = w /\ since' = since /\ now' = now
      /\ now \in Int /\ since \in Int /\ spent \in Nat
      /\ Cost[w] \in Nat \ {0} /\ Cap[w] \in Nat \ {0}
      /\ tokens[w] \in Int /\ last[w] \in Int
  BY DEF LimiterInv, LimiterTypeOK, Take, Times
<1>2. ~escaped
  OBVIOUS
<1>3. LimiterTypeOK
  BY DEF LimiterInv
<1>4. /\ Holds(w) \in -Cap[w]..Cap[w] /\ Left(w) \in -Cap[w]..Cap[w]
      /\ Left(w) <= Holds(w)
      /\ Left(w) >= 0 => Left(w) = Holds(w) - Cost[w]
  BY <1>1, <1>3, HoldsBounds, LeftBounds
<1>5. /\ now < since => spent = 0
      /\ now >= since => /\ spent + Holds(w) <= Cap[w] + (now - since)
                         /\ spent <= Cap[w] + (now - since)
  BY <1>2 DEF LimiterInv, GrantedAndHeld
<1>6. CASE w \in B
  <2>1. tokens'[w] = Left(w) /\ last'[w] = now
    BY <1>1, <1>6 DEF Take, RefilledAt
  <2>2. w \notin Chats \ tracked'
    BY <1>6
  <2>3. Holds(w)' = Left(w)
    BY <1>1, <1>4, <2>1, <2>2 DEF Holds
  <2>4. spent' = IF now >= since /\ Left(w) >= 0 THEN spent + Cost[w] ELSE spent
    BY <1>2, <1>6 DEF Take
  <2>5. /\ now < since => spent' = 0
        /\ now >= since => /\ spent' + Left(w) <= Cap[w] + (now - since)
                           /\ spent' <= Cap[w] + (now - since)
    BY <1>1, <1>4, <1>5, <2>4
  <2> QED
    BY <1>1, <2>2, <2>3, <2>5
<1>7. CASE w \notin B
  <2>1. tokens'[w] = tokens[w] /\ last'[w] = last[w] /\ spent' = spent
    BY <1>1, <1>7 DEF Take, RefilledAt
  <2>2. w \in Chats \ tracked' => tokens[w] + (now - last[w]) >= Cap[w]
    BY <1>2, <1>7 DEF LimiterInv, FullWhenForgotten
  <2>3. w \in tracked' => w \in tracked
    BY <1>7
  <2>4. Holds(w)' = Holds(w)
    BY <1>1, <2>1, <2>2, <2>3 DEF Holds
  <2> QED
    BY <1>1, <1>5, <2>1, <2>2, <2>4
<1> QED
  BY <1>6, <1>7

THEOREM LimiterInvHolds == LimiterInit => LimiterInv
<1> SUFFICES ASSUME LimiterInit PROVE LimiterInv
  OBVIOUS
<1>1. LimiterTypeOK /\ \A b \in Buckets : last[b] <= now
  <2>1. escaped \in BOOLEAN
    BY DEF LimiterInit
  <2>2. /\ now = 0 /\ spent = 0 /\ tracked = {} /\ watched \in Watch /\ since \in Times
        /\ tokens = [b \in Buckets |-> Cap[b]] /\ last = [b \in Buckets |-> 0]
    BY DEF LimiterInit
  <2> QED
    BY <2>1, <2>2 DEF LimiterTypeOK, Times
<1>2. watched \in Buckets /\ Cap[watched] \in Nat
  BY DEF LimiterInit
<1>3. Holds(watched) = Cap[watched]
  BY <1>2 DEF LimiterInit, Holds
<1>4. FullWhenForgotten
  BY <1>2 DEF LimiterInit, FullWhenForgotten
<1>5. GrantedAndHeld
  BY <1>2, <1>3 DEF LimiterInit, GrantedAndHeld, Times
<1> QED
  BY <1>1, <1>4, <1>5 DEF LimiterInv

THEOREM LimiterInvKept == LimiterInv /\ [LimiterNext]_limiterVars => LimiterInv'
<1> SUFFICES ASSUME LimiterInv, [LimiterNext]_limiterVars PROVE LimiterInv'
  OBVIOUS
<1> USE DEF LimiterInv
<1>1. ASSUME NEW c \in Chats, ReserveChat(c) PROVE LimiterInv'
  <2>1. {Global, c} \in SUBSET Buckets /\ {Global, c} \cap Chats = {c}
    BY DEF Buckets
  <2>2. /\ Take({Global, c}) /\ tracked' = Tracking(c)
        /\ escaped' = (escaped \/ (c = watched /\ c \notin tracked'))
    BY <1>1 DEF ReserveChat
  <2>3. LimiterTypeOK' /\ (\A b \in Buckets : last[b] <= now)'
    BY <2>1, <2>2, TrackingInChats, TakeKeepsTypes DEF LimiterTypeOK
  <2>4. watched \notin {Global, c} /\ watched \in tracked' => watched \in tracked
    BY <2>2, TrackingInChats
  <2>5. watched \in tracked \ tracked' =>
          tokens[watched] + (now - last[watched]) >= Cap[watched]
    BY <2>2, DroppedIsFull
  <2> QED
    BY <2>1, <2>2, <2>3, <2>4, <2>5, TakeKeepsLaw
<1>2. CASE ReserveGlobal
  <2>1. {Global} \in SUBSET Buckets /\ {Global} \cap Chats = {}
    BY DEF Buckets
  <2>2. /\ Take({Global}) /\ tracked' = tracked /\ tracked' \subseteq Chats
        /\ escaped' = escaped /\ escaped' \in BOOLEAN
    BY <1>2 DEF ReserveGlobal, LimiterTypeOK
  <2>3. LimiterTypeOK' /\ (\A b \in Buckets : last[b] <= now)'
    BY <2>1, <2>2, TakeKeepsTypes
  <2> QED
    BY <2>1, <2>2, <2>3, TakeKeepsLaw
<1>3. CASE ClockTicks
  <2>1. LimiterTypeOK' /\ (\A b \in Buckets : last[b] <= now)'
    BY <1>3 DEF ClockTicks, LimiterTypeOK, Times
  <2>2. watched \in Buckets /\ Cap[watched] \in Nat /\ spent \in Nat
        /\ now \in Int /\ since \in Int /\ tokens[watched] \in Int
        /\ last[watched] \in Int
    BY DEF LimiterTypeOK, Times
  <2>3. Holds(watched)' <= Holds(watched) + 1 /\ Holds(watched)' <= Cap[watched]
        /\ Holds(watched)' \in Int /\ Holds(watched) \in Int
    BY <1>3, <2>2 DEF ClockTicks, Holds
  <2>4. GrantedAndHeld'
    BY <1>3, <2>2, <2>3 DEF ClockTicks, GrantedAndHeld
  <2>5. FullWhenForgotten'
    BY <1>3, <2>2 DEF ClockTicks, FullWhenForgotten
  <2> QED
    BY <2>1, <2>4, <2>5
<1>4. CASE UNCHANGED limiterVars
  BY <1>4 DEF limiterVars, LimiterTypeOK, FullWhenForgotten, GrantedAndHeld, Holds
<1> QED
  BY <1>1, <1>2, <1>3, <1>4 DEF LimiterNext

\* Every reachable state of the limiter is well typed.
THEOREM LimiterTypeCorrect == LimiterSpec => []LimiterTypeOK
<1>1. LimiterInv => LimiterTypeOK
  BY DEF LimiterInv
<1> QED
  BY <1>1, LimiterInvHolds, LimiterInvKept, PTL DEF LimiterSpec

\* The law of the bucket (tokenBucket.reserve, sendLimiter.reserve): from any
\* moment on, no more goes out of a bucket without a wait than its capacity and
\* what it refilled since.
THEOREM BurstsAreBounded == LimiterSpec => []BurstBound
<1>1. LimiterInv => BurstBound
  BY DEF LimiterInv, GrantedAndHeld, BurstBound
<1> QED
  BY <1>1, LimiterInvHolds, LimiterInvKept, PTL DEF LimiterSpec

\* pruneLocked forgives no debt: a bucket idle for chatBucketIdle is full again.
THEOREM NoDebtIsForgiven == LimiterSpec => PruningForgivesNoDebt
<1> DEFINE Forgives == \A c \in tracked \ tracked' :
                         tokens[c] + (now - last[c]) >= Cap[c]
<1>1. LimiterInv /\ [LimiterNext]_limiterVars => [Forgives]_limiterVars
  <2> SUFFICES ASSUME LimiterInv, LimiterNext, NEW c \in tracked, c \notin tracked'
               PROVE  tokens[c] + (now - last[c]) >= Cap[c]
    BY DEF LimiterInv
  <2>1. PICK d \in Chats : tracked' = Tracking(d)
    BY DEF LimiterNext, ReserveGlobal, ClockTicks, ReserveChat
  <2> QED
    BY <2>1, DroppedIsFull DEF LimiterInv
<1> QED
  BY <1>1, LimiterInvHolds, LimiterInvKept, PTL
     DEF LimiterSpec, PruningForgivesNoDebt
=============================================================================
