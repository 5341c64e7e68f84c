------------------------------ MODULE Limiter ------------------------------
(***************************************************************************)
(* sendLimiter.reserve (internal/bot/ratelimit.go): token buckets that     *)
(* permit a capped debt, one for the whole bot and one per chat, the map   *)
(* of chat buckets being pruned when it grows past maxTrackedChats.        *)
(*                                                                         *)
(* Each bucket counts in its own unit, the refill of one tick, so a token  *)
(* costs Cost[b] units (for a private chat 1 s of refill, for a group 3 s) *)
(* and waits are in ticks; the float64 of the code is exact here.  Every   *)
(* reservation runs under the limiter's mutex, so it is one step.          *)
(* chatBucket.seen and the bucket's own last are always set together.      *)
(***************************************************************************)
EXTENDS Integers, FiniteSets

CONSTANTS Chats, Global,
          Cost,        \* units per token, for every bucket
          Cap,         \* capacity in units
          MaxTracked,  \* maxTrackedChats
          Idle,        \* chatBucketIdle in ticks
          Watch,       \* the buckets whose grants may be counted
          MaxTime      \* bound on the clock

Buckets == Chats \cup {Global}
Times   == 0..MaxTime

\* Idle is longer than a chat bucket needs to refill from its deepest debt: ten
\* minutes against at most 24 s.
ASSUME LimiterAssumption ==
  /\ IsFiniteSet(Chats) /\ Global \notin Chats
  /\ Cost \in [Buckets -> Nat \ {0}]
  /\ Cap \in [Buckets -> Nat \ {0}]
  /\ MaxTracked \in Nat
  /\ MaxTime \in Nat
  /\ Idle \in Nat
  /\ Watch \subseteq Buckets
  /\ \A c \in Chats : Idle >= 2 * Cap[c]

VARIABLES
  now,      \* the clock
  tokens,   \* of each bucket; negative is debt
  last,     \* when each bucket was last refilled, and seen
  tracked,  \* the keys of perChat
  watched,  \* history: one bucket,
  since,    \*   any one moment,
  spent,    \*   the units granted from it without a wait from then on
  escaped   \*   and whether a reservation for it ever left it out of the map

limiterVars == <<now, tokens, last, tracked, watched, since, spent, escaped>>

LimiterTypeOK ==
  /\ now \in Times
  /\ tokens \in [Buckets -> Int]
  /\ \A b \in Buckets : tokens[b] \in -Cap[b]..Cap[b]
  /\ last \in [Buckets -> Times]
  /\ tracked \subseteq Chats
  /\ watched \in Watch
  /\ since \in Times
  /\ spent \in Nat
  /\ escaped \in BOOLEAN

LimiterInit ==
  /\ now = 0
  /\ tokens = [b \in Buckets |-> Cap[b]]
  /\ last = [b \in Buckets |-> 0]
  /\ tracked = {}
  /\ watched \in Watch
  /\ since \in Times
  /\ spent = 0
  /\ escaped = FALSE

\* What bucket b holds now: refilled since last, never above its capacity.  A chat
\* without a bucket gets a full one.
Holds(b) ==
  LET t == tokens[b] + (now - last[b]) IN
  IF b \in Chats \ tracked \/ t > Cap[b] THEN Cap[b] ELSE t

\* What is left after taking a token; debt is capped at the capacity.
Left(b) == LET t == Holds(b) - Cost[b] IN IF t < -Cap[b] THEN -Cap[b] ELSE t

\* Mutant: the refill is credited but its time is not moved on.
RefilledAtKept(B) == last

\* When the buckets B were last refilled, after a reservation.
RefilledAt(B) == [b \in Buckets |-> IF b \in B THEN now ELSE last[b]]

\* Mutant: the buckets in use are the ones dropped.
PrunedYoung(M, c) == IF Cardinality(M) <= MaxTracked THEN {}
                     ELSE {d \in M \ {c} : now - last[d] <= Idle}

\* pruneLocked, as reserve calls it for the new chat c: its bucket is in the map M
\* but has not been seen yet, and the zero time counts as idle.
Pruned(M, c) == IF Cardinality(M) <= MaxTracked THEN {}
                ELSE {c} \cup {d \in M : now - last[d] > Idle}

\* The map after a reservation for chat c.
Tracking(c) == IF c \in tracked THEN tracked
               ELSE LET M == tracked \cup {c} IN M \ Pruned(M, c)

\* One reservation from every bucket in B; what goes to an escaped chat is not counted.
Take(B) ==
  /\ tokens' = [b \in Buckets |-> IF b \in B THEN Left(b) ELSE tokens[b]]
  /\ last' = RefilledAt(B)
  /\ spent' = IF watched \in B /\ now >= since /\ ~escaped /\ Left(watched) >= 0
              THEN spent + Cost[watched] ELSE spent
  /\ UNCHANGED <<now, watched, since>>

\* A call with a chat_id.
ReserveChat(c) ==
  /\ Take({Global, c})
  /\ tracked' = Tracking(c)
  /\ escaped' = (escaped \/ (c = watched /\ c \notin tracked'))

\* A call without one is paced by the global bucket only.
ReserveGlobal == Take({Global}) /\ UNCHANGED <<tracked, escaped>>

ClockTicks ==
  /\ now < MaxTime
  /\ now' = now + 1
  /\ UNCHANGED <<tokens, last, tracked, watched, since, spent, escaped>>

LimiterNext == ReserveGlobal \/ ClockTicks \/ \E c \in Chats : ReserveChat(c)

LimiterSpec == LimiterInit /\ [][LimiterNext]_limiterVars

-----------------------------------------------------------------------------
\* The law of the bucket: from any moment on, what goes out of a bucket without a
\* wait is at most its capacity plus what it refilled since, however calls to many
\* chats interleave and whatever pruning drops meanwhile (tokenBucket.reserve,
\* sendLimiter.reserve).  The exception is a chat first written to while the map is
\* past maxTrackedChats: reserve prunes before it marks the new bucket as seen, so
\* that bucket is dropped at once and the chat is not paced.
BurstBound == now >= since /\ ~escaped => spent <= Cap[watched] + (now - since)

\* Pruning forgets nothing: a bucket dropped for being idle had refilled, so that
\* its chat starts over with the same full bucket (pruneLocked, chatBucketIdle).
PruningForgivesNoDebt ==
  [][\A c \in tracked \ tracked' : tokens[c] + (now - last[c]) >= Cap[c]]_limiterVars
=============================================================================
