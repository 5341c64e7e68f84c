# A TLA+ verification of chevaletAnonBot

ChevaletAnonBot is a Telegram bot, written in Go, that carries anonymous messages
between its users. This directory holds TLA+ modules translated from its source,
TLC configurations that check them on small instances, and TLAPS proofs of every
safety property for every instance. `PROJECT.json` maps every definition to the lines
it models, and lists the runs, the mutants that show each property to be sensitive to
a bug in the code, the hazards, and the theorems.

Every path below is relative to the repository (`internal/bot/...`).

    tlc -workers 2 -config MCOutbox.cfg MCOutbox     # one run
    tlapm OutboxProof.tla                            # one proof

Thirteen modules model the code, one (`DurableQueue`) states a promise, eight hold
proofs, and the `MC` modules are the instances for TLC.

## 1. Inventory

### What runs concurrently

* **The dispatcher** handles updates strictly one at a time (`MaxRoutines: 1`,
  `bot.go:182-185`), so two handlers of one process never interleave with each other.
* **Background goroutines** of the same process do interleave with it: the outbox
  loop (every 5 s), the AI responder, the good-morning and backup loops, a
  broadcast, and the timers of delete warnings (`jobs.go`). The process tracks them
  and, when it is stopped, waits ten seconds for them before it closes the pool
  (`bot.go:71-98`, `222-230`). They share the HTTP
  client, and so the limiter, the flood pause and the outbox; they share the
  database; they hardly share the users' records.
* **Two processes** overlap while a deploy replaces one by the other. They share
  PostgreSQL and nothing else.
* **The database** commits every statement by itself: there is no transaction over
  two statements anywhere in the handlers.
* **The host** writes the hourly dump and, a few minutes after the nightly job, runs
  the script that covers for it (`deploy/go`).
* **A crash or a restart** loses the conversations, the users' records, the queue of
  AI questions and the error reports. PostgreSQL and `dynamic_settings.json` survive.
* **Telegram** may refuse a call for good, ask to wait (429), fail it after carrying
  it out, or deliver updates of one album in any order.

### Components

| Component | State | Operations | Hard about it | What makes it correct |
|---|---|---|---|---|
| Outbound client (`ratelimit.go`) | flood deadline | `RequestWithContext`: pause check, pacing, request, inline retry, queueing | called by all goroutines at once; lost replies | a delivered send is not queued; duplicates only from known causes |
| Durable outbox (`bot/outbox.go`, `db/outbox.go`) | table `outbox` | enqueue, claim a batch, retry, delete, drop the exhausted | crashes between statements; two drain loops | no row lost before it is settled; every row leaves |
| Flood pause (`ratelimit.go`, `prep.go`) | `floodUntil`, report gap | record a 429, refuse, notify, report | refusals cause more sends, which are refused | the pause ends; few calls reach Telegram during one |
| Send pacing (`ratelimit.go`) | token buckets, map per chat | reserve, prune | map at its limit; debt | bursts bounded; pruning forgives no debt |
| Reports (`callbacks.go`, `reportactions.go`, `adminmod.go`) | `report_cases`, `reports`, `is_banned` | post, claim, accept, ban, stamp, clear | two admins, two processes, failing claims | one winner; an extra action only after a failure or without a case to claim |
| Conversations (`handlers.go`, `start.go`, `settings.go`, ...) | three states and one record per user | start, answer, compose, cancel, prompts, eviction | states and record drift apart | nothing goes to anybody but the contact chosen |
| Links (`mylinks.go`, `inituser.go`) | table `cids`, limit, chosen link | add, remove, rename, first link | unlocked check-then-insert, stale buttons | limit kept, no user without a link, own links only |
| Albums (`media.go`, `jobs.go`) | the group in the record, copies, warning | first item, later items, delete, timer | order, redelivery, half-failed handlers | the album arrives once, whole; all of it can be deleted |
| Single delivery (`sendmsg.go`, `targetsend.go`) | where the handler is; blocks, links, outbox | admit, check, announce, copy, preview, warn, tags; classify a failure | every call may fail, also after it was carried out; the outbox repeats the copy later | what the sender is told is true, and silence has a cause |
| Send limits (`userdata.go`) | two sliding windows and the last warning per user | allow, warn, sweep | window edges, eviction, restart | never more than the limit in any window; no refusal without a full window |
| Sealed tokens (`encoder`, `callbackaad.go`) | key | seal, open with aad | a token used on another button | a token opens only where it was issued |
| Block and seen buttons (`callbacks.go`, `msgbuttons.go`) | `blocks`, keyboards | block, unblock, unblock all, seen, expand, collapse | keyboards older than the table; taps that wait | a button and a popup say how the table stands; a seen notice goes out once |
| Runtime settings (`dynset`) | a JSON file | load, set | file written in place | a crash leaves an old or a new file |
| Error reports (`errreport.go`) | bounded store | add, show | eviction | the button shows its own report |
| Process lifecycle (`bot.go`, `cmd/bot`) | tracked work, the pool | stop, drain, close, die, start | work that ignores the stop | nothing uses the closed pool but what outlasted the grace period |
| Broadcast (`background.go`) | the users left, the failures | arm, list, copy, report | interruption, the outbox | the admin's closing notice is true |
| AI queue (`aiqueue.go`, `aichat.go`) | bounded queue | push, take, generate, post | full queue, blank answers, stop | no question forgotten, none answered twice without a cause |
| Backups (`background.go`, `backup.sh`, backstop script) | dumps, marker file | dump, pick, send, mark, cover | a dump being written, a crash before the mark | the night's backup arrives, settled, and once |
| Admin commands, statistics, texts, configuration, health | - | single statements, queries, I/O | - | - |

The components meet in four places. *Every* send of every component goes through
the outbound client. The users' record (`userdata.go`) is written and cleared by
three conversations, the album handler and a sweep. `prep` runs before each handler:
it gives a user their first link and turns errors into notices. And buttons carry
state that lives in Telegram, so every handler may meet a button that is out of date.

## 2. Plan

The order is by what a failure costs: messages lost or sent twice, a bot that mutes
itself, moderation done twice, a message to the wrong person, a sender told something
untrue, and last the work of the background.

| # | Modules | Status |
|---|---|---|
| 1 | `DurableQueue` (abstract), `Outbox`, `OutboxProof` | modelled, checked, proved |
| 2 | `FloodPause`, `RateLimitProof` | modelled, checked, proved |
| 3 | `Limiter`, `RateLimitProof` | modelled, checked, proved |
| 4 | `ReportCases`, `ReportCasesProof` | modelled, checked, proved |
| 5 | `Flows`, `RecordProof` | modelled, checked, proved |
| 6 | `Links`, `LinksProof` | modelled, checked, proved |
| 7 | `Album`, `RecordProof` | modelled, checked, proved |
| 8 | `SendLimit`, `DeliveryProof` | modelled, checked, proved |
| 9 | `Redelivery`; `Delivery` (extends it and `SendLimit`), `DeliveryProof` | modelled, checked, proved |
| 10 | `Keyboards`, `KeyboardsProof` | modelled, checked, proved |
| 11 | `Background` (extends `Redelivery`), `Backup` (extends it), `BackupProof` | modelled, checked, proved |

Every safety property of the runs is proved. Left: the parts of section 7.

Two proof modules serve two models each, so those are written to be extended together:
`Limiter` and `Album` carry their name in that of their initial state, next-state
relation and specification (`LimiterSpec`, `AlbumSpec`).

Compositions: `Delivery` takes its admission from `SendLimit`; it and `Background` take
the outbox with its drain loops from `Redelivery`, which has the code of `Outbox` seen
from the sends; `Backup` runs its nightly job inside the process of `Background`.
`Outbox` is deliberately not composed with the clock of `FloodPause`: it needs only
"paused or not".

## 3. The modules

### Outbox and DurableQueue

A *caller* is a thread that issues sends, or the drain loop of a process. `pc[c]`
walks through `RequestWithContext`: `check` (the pause), `send` (first request),
`retry` (inline retry after a short 429), `queue` (`onRetryable`), `done`. The drain
loop adds `drop`, `claim` and `next`, and then **goes through the same client**, as
the code does, with all its consequences. The table is `live`, `rowMsg`, `attempts`,
`due` and the sequence `nextId`; every action on it is one SQL statement. Telegram's
answer is chosen from `Env`: accepted, accepted but the reply lost, network failure,
a short or a long 429, refused for good, or another error. `dbError` lets statements
fail. `Crash` clears what lives in memory and leaves the table.

Time is abstract: `BecomeDue` and `PauseEnds` happen at some point, so every length
of a backoff relative to everything else is covered. `MaxTries` saturates the
attempts one above the limit, since the code compares only with `>=`.

`accepted`, `refused`, `told`, `blamed` and `lapsed` are history. `blamed` holds the
sends to which one of four things happened that can duplicate them, `lapsed` those
whose inline retry or whose INSERT failed, which is what keeps a failed send out of
the table; `DuplicatesHaveACause` and `FailedSendIsQueued` say that nothing else does.

`DurableQueue` is the promise: entries open, are attempted, and close only when the
message was accepted, refused, or used up its attempts. `Outbox` implements it
(`ImplementsDurableQueue`), with a row's entry closed when it left the table.

### FloodPause

One thread handles updates one after the other: an update's own send, and after a
failure `handleErr`'s notice to the user and, at most once per `ReportGap`, a report
to the admins, all three through the client. Time counts in seconds and every wait is
a countdown. `pending` holds the threads whose 429 `handleErr` has not seen yet,
which tells a legitimate extension of the pause from a self-inflicted one.

### Limiter

`tokenBucket.reserve` for the whole bot and per chat. A bucket is measured in units
of one tick's refill, so prices and capacities are integers and the arithmetic
(`float64` in the code) is exact. `Holds` is the refilled level, `Left` the level
after a token is taken, with the debt capped. `Pruned` is `pruneLocked` as `reserve`
calls it: *after* the new bucket is in the map but *before* it is marked as seen. A
history variable watches one bucket from one moment on.

### ReportCases

`pc` walks a tap through `claim`, `ask` (the loser reads who holds the case), `act`,
`count` and `stamp`. A statement may fail before or after its effect (`Fault`), the
process may die between two. Two kinds of taps pass without a claim won: `excused`
counts those whose claim could not be decided because a statement failed, `blind` those
under a summary that Telegram no longer hands out or that shows no code (`coded` is
false), which touch neither the table nor the channel. The panel bans, unbans and clears
at the same time.

### Flows

One user. `conv` has the state of the three conversations, `ud` the record, `nick`
the stored nickname. Each action is one update, with its error paths as disjuncts.
`picked` is what the user chose last, `asked` the question they saw last, and `last`
what became of their last text; properties compare these with what the code did. The
contacts' links move between owners, contacts block and unblock, the record is
evicted while the conversation state stays, and the process restarts. `typed` is the
nickname typed last and `wiped` says that the record was cleared while its emoji was
awaited: the one way an empty nickname gets saved (`NicknameIsTheTypedOne`).

### Links

Each step is one statement of `addLink`, `removeLink`, `changeLink`/`updateCid` or
`initUser`, interleaved with those of another process. A tap may name any link the
user ever had (`had`), because old lists keep their buttons. The rename is modelled as
it is written: `UPDATE cids ... WHERE cid = old`, which does not look at the owner,
and which reports success when it changes no row.

### Album

Each item is an update and one step, with the point where its handler stops as a choice
inside: a copy that fails (carried out or not, queued or not), a carrier message that
fails, a warning that fails, a deletion nobody notices to have failed. `inbox` is the
target's chat with ascending ids, `warns` the sender's warnings with a live button,
`taps` taps not handled yet. `stray`, `unwarned` and `closed` are history and name the
exceptions of `DeleteReachesAll`; `stray`, `orphans` and `again` (the items redelivered)
those of `EachItemOnce`. An album that answers a message can begin anew after its record
was cleared, since the message it replies to still says whom it is for: the copies of
before are then orphans, which nothing deletes. A queued warning adds only a button and
is left out.

### SendLimit

`allowSendTo` with its two slices of timestamps. Each message is attempted once and
stands for the timestamp of its attempt, so a slice is a set of messages and `Prune`
keeps those not older than `Window`, the edge included. The sweep evicts an idle
record, a restart loses all of them, and `born` tells the lives apart: the bounds hold
within one life. The limits count *admissions*. A message may still arrive later, from
the outbox, so they do not bound what arrives at a target in a window.

### Redelivery

The outbox as the modules that send see it. A row is a send and a number, so one send
may have several rows; `holds` says which row each drain loop, of this process or of
another, has in hand. `Claim` takes a row whoever holds it, since the UPDATE only pushes
its next attempt away. `Retry` is the call through the client and what is then done
about the row: the DELETE takes effect, or fails after the delivery, or the retry fails
for now, carried out or not, and may queue a second row. A retry that was not cut and
ends in `Removed` either arrived or was refused for good. `GiveUp` may drop any row at
any time, since the number of attempts is abstracted; `Outbox` counts them. A batch is
one row. `arrived` counts up to two, and `cause` says which of the four things happened
that make the outbox repeat a send (`Repeats`): a lost reply, a row kept after its
delivery, a second row, a row in two hands.

### Delivery

`sendMsgCore` for one message at a time, with `pc` at each statement or call it makes:
`target` (the link, or the message an answer was opened on), `block`, `notify` (an
answer from a channel is announced), `copy`, `preview`, `warn` (tells the sender
"sent"), `tags`. Each may fail; the copy and the notice may fail after they were
carried out, and the client may have queued them. `Refused` is
`classifyTargetSendErr` with what `handleErr` and `onError` do about the refusals it
passes on: a tracking code, or nothing at all (`Silently`: any other 403, no right to
send). `AskAgain` is `handleErr`, `Drain` a drain loop of any process, which retries a
queued copy without looking at blocks again and can repeat it as `Redelivery` says.
Targets block and links move between any two steps.

`told` holds every notice the sender got about a message, `cause` what went wrong with
it, and the properties relate them to the copies that `arrived`. `admissible` and
`reachable` hold the messages whose target did not block, and whose link resolved, at
some moment since the attempt: the weakest statement that a closed door stays closed.

### Keyboards

An update carries the keyboard as it was when the button was tapped, and waits in
`inbox`. A handler is one step, but redraws the *whole* keyboard from that snapshot, so
the tap on one button can undo what the tap on another drew. `off` and `lapse` say why
a block or seen button may be wrong: a change elsewhere, a failed edit, a stale
snapshot, a table that could not be read, a problem notice, a refusal for good.

### Background and Backup

`phase` is the life of a process: `up`, `stopping` (the context is cancelled, the drain
waits), `closed` (so is the pool), `down`; another process may follow. `gaveUp` records
that the grace period ended first, `late` that something reached the closed pool. A
call in flight is not ended by the stop, and its failure is offered to the outbox
through the pool with a context of its own, which is how it can come late.

The broadcast goes user by user and looks at the context before each; the AI worker
takes from a queue with `QueueMax` places; both send through the outbox of `Redelivery`,
whose loop `Own` is tracked work of this process and is cut short by the stop, while the
others go on. The words that accompany the work (the broadcast's first and last reply,
its list of failures, the AI's error report) may fail and be queued too; they matter
only as users of the pool. `listed` says whether the list of failures reached the admin,
and `excused` holds the questions with a reason to have no answer.

`Backup` is one night of the same process: a dump being written in place (`writing`,
`cut`, `whole`), the nightly job (`picking`, `uploading`, `marking`), the marker, and
the script of the host that looks at the marker a few minutes later. Ages are
abstracted to what they are compared with (`fresh`).

## 4. What TLC checks

Twelve runs; eleven must pass, one shows that the code does not do what a comment of it
says.

| Run | Instance | Shows |
|---|---|---|
| `outbox` | 1 process, 1 thread, 1 send, 2 rows, 3 tries, every answer of Telegram, 1 crash | `DuplicatesHaveACause`, `SentIsNotQueued`, `FailedSendIsQueued`, and `RowsDrain`: every row leaves the table |
| `outbox_overlap` | 2 processes on that table, 2 tries, lost replies, network failures, refusals, failing statements, 1 crash (1.7 M states) | `DuplicatesHaveACause`, `ImplementsDurableQueue` |
| `flood` | 2 threads, waits 0, 1 and 3 s, four 429s | `PauseOnlyAfter429`, `BoundedPileOn`, `EventuallyUnmuted` |
| `limiter` | a private chat, a group, a map of one bucket, 6 ticks | `BurstBound`, `PruningForgivesNoDebt` |
| `cases` | 2 processes, 2 admins, 1 case, 2 failures, 4 taps | `OneWinnerPerCase`, `ExtraActionsAreExcused`, `AdminsAreToldTheTruth`, and, without failures, `HandledMeansDone` |
| `flows` | 2 contacts, 2 of their links, 2 messages, 2 texts (0.8 M states) | `OnlyToThePickedContact`, `NicknameIsTheTypedOne` |
| `links` | 2 processes, 2 users, 4 ids (one taken as a chevaletid), limits 0 to 2, 4 updates | `LimitKept`, `NoLinkHasAnExcuse`, `HandlersStartWithALink`, `RemovalsAreOwn` |
| `album` | 3 items, one redelivered, one failing call | `EachItemOnce`, `CompleteAlbumArrives`, `DeleteReachesAll` |
| `delivery` | 4 messages: one through a link and one announced answer to one target, one to another, one without a target; at most 2 in all and 1 to a target in a window of 1 tick, 3 ticks, 1 restart, 2 failures, 2 moves of a block or the link, 2 drain loops, 2 rows for a send; three corners of it (0.3 M states) | `WindowsAreBounded`, `WarningsApart`, `RefusalsAreEarned`, `ToldTheTruth`, `SilenceHasACause`, `ShutDoorsStayShut`, `CopiedTwiceHasACause` |
| `keyboards` | 2 messages of one sender, 5 taps and commands, 1 failure | `BlockIsToldAsItStands`, `SeenTwiceHasACause`, `SeenPromiseKept` |
| `backup` | 1 user, 2 questions, a queue of 1, 2 drain loops, 1 row for a send, 2 processes one after the other, 2 failures, and one night of backups; two corners of it (2.8 M states) | `PoolOutlivesItsUsers`, `EveryoneMeansEveryone`, `TwiceHasACause`, `QuestionsAreLookedAfter`, `NightlyIsSettled`, `OneBackupANight` |
| `flows_captured` | the instance of `flows`, one link, one text | a name typed for a setting is delivered to a contact (`TypedTextAnswersLastQuestion` is violated) |

Every property comes with a mutant in `PROJECT.json`: a plausible bug in the mapped
code that TLC finds by violating that property. The mutated forms stand in the modules
beside the definitions they replace, marked `Mutant`.

**Bounds and why they are enough.** Two processes are what a deploy overlap has. Two
rows are the smallest table in which a batch has two elements, two rows hold one
send, and a row is claimed while another is in hand. Two tries tell the first attempt
from the last. One crash suffices for the invariants, since a crash leaves only the
table behind and everything else starts from its initial value. Four 429s let both
threads be refused at the request and at the inline retry. Six ticks exceed the
idle time after which a bucket is pruned, at a capacity of two. Two texts tell a
nickname just typed from one staged by a flow that was abandoned. Three items are the
fewest in which a later item replaces copies that were themselves a replacement. Four
updates let a user lose a link, another one get it, and the first one tap its old
button; three of them fill a limit past its bound when the check is off by one.
Four taps let both admins act twice. `Flows` is bounded by nothing but its sets.

`delivery` and `backup` have too many dimensions to explore at once. Their instances
name *corners*, and the run's `CONSTRAINT` keeps to the states that lie in one of them;
the proofs have no such bound.

`delivery` has three corners. In the corner of the limits nothing fails and no target
moves, and all messages are attempted at all times: both limits refuse, also the global
one alone (one message to each target fills it, and the one without a target is
refused), and three ticks take time past a window and past the age of an idle record, so
a record is evicted and its slices begin anew. In the corner of the doors, with one
time, one failure and three messages, two moves close a door before the attempt and open
it after, or the other way round; the sender talks to one target, because the doors of
two targets do not depend on each other. In the corner of the outbox two messages, two
failures, two rows for a send and two loops are enough for a copy that is queued and
then kept, requeued or in two hands.

In `keyboards` five updates let two taps wait while a third changes the table, for each
of two messages.

`backup` has two corners. By day there is no new dump: one user and two questions fill a
queue of one with one in hand, and two failures let a queued send outlive its delivery; a
second row for one send is left to `delivery` and the proofs, and the second process is
the one a crash leads to. In the corner of the night the backups run beside the
broadcast and this process's drain loop, with one failure; the night meets the other
work only in the life of the process, so the AI's questions and a second loop, which do
not change it, are left out. "Interrupted between two users" needs a second user, which
takes TLC too long; `BackupProof` covers any number of users, questions, failures and
processes.

**Failures** are counted where they are bounded (`MaxFaults`): one failing call at any
place, and its consequences, in `album` and `keyboards`, two in `cases`, `delivery` and
`backup` (one of them in the corners of the doors and of the night), any number in the
others. A retry of the outbox that fails without consequence, or because its loop is
cancelled, is not counted.

**Fairness.** `Outbox!Fairness` and `FloodPause!FairSpec` are weak fairness of running
code (a client call or a handler goes on), of the ticker that starts a drain, and of
clocks (a backoff of at most 900 s passes, a pause ends, a second ticks). Nothing
requires a user to write, Telegram to accept anything, or a process not to crash.
Weak fairness is enough: each of these actions stays enabled until it is taken, a
ticker that is not taken fires again after 5 s, and the Go scheduler does not starve
a runnable goroutine. `EventuallyUnmuted` assumes that Telegram stops answering 429
(`MaxFloods`), and users keep writing all the same.

**Deadlock** is checked in `outbox`, `outbox_overlap`, `flood`, `limiter`, `flows`,
`flows_captured` and `links`: no handler, loop or bucket in them can get stuck. The
other five stop when their bounds are reached (no more taps, items, messages, updates
or processes), so it is not checked there.

## 5. What TLAPS proves

For every value of the constants that satisfies the module's assumption. Every
model begins with type correctness (`TypeCorrect`, `LimiterTypeCorrect`,
`AlbumTypeCorrect`, `LimitTypeCorrect`), and then come its properties:

* **OutboxProof**: `RowsAreNeverLost` (`NoRowLost`), `OutboxImplementsDurableQueue`
  (the refinement of the abstract queue), `SentStaysOut` (`SentIsNotQueued`),
  `FailedSendIsKept` (`FailedSendIsQueued`) and `CopiesHaveACause`
  (`DuplicatesHaveACause`), for any number of processes, threads, sends, rows, tries and
  crashes. `NoRowLost` is not inductive: a row is deleted because of the *result in
  hand* of a drain loop, so the invariant also says that a loop with result `ok` or
  `refused` holds a row of a message Telegram has accepted or refused, and that loops
  hold and claim only rows that were inserted and whose message is theirs. The
  refinement theorem maps each action to a step of the queue (`Open`, `Attempt`,
  `Close`, `Accept`, `Refuse`) or to a stutter. The other three rest on who may have a
  send in hand: a thread owns its send until it is answered and a row is inserted only
  at the end of a failed one; a send that nothing happened to has one row, which is in
  one hand, and once it was accepted nobody is about to send it again.
* **RateLimitProof**, of `FloodPause`: `PauseNeedsA429` (`PauseOnlyAfter429`)
  and `PileOnIsBounded` (`BoundedPileOn`) for any number of threads. The bound is a
  budget: during a pause, requests that got through, plus two for each thread that is
  still asking and one for each that sleeps before its inline retry, never exceed
  `2 * Cardinality(Threads) - 1`.
* **RateLimitProof**, of `Limiter`: `BurstsAreBounded` (`BurstBound`) and `NoDebtIsForgiven`
  (`PruningForgivesNoDebt`). The bound alone is not inductive; the invariant bounds
  what was granted *plus what the bucket still holds*, and says that a chat outside the
  map would be full, so that the full bucket of a new entry is no gift. That last part
  is why `chatBucketIdle` must exceed the time the deepest debt takes to refill, which
  is the only assumption on the constants beyond their types.
* **ReportCasesProof**: `AtMostOneWinner` (`OneWinnerPerCase`),
  `ExtraActionsHaveAnExcuse` (`ExtraActionsAreExcused`), `TheTruthIsTold`
  (`AdminsAreToldTheTruth`) and `HandledIsDone` (`HandledMeansDone`). The invariant
  counts: actions done plus handlers about to act equal at most claims won plus taps
  let through, and a claim is won at most once because a held case is never open again.
* **RecordProof**, of `Flows`: `DeliveredAsPicked` (`OnlyToThePickedContact`) and
  `NicknameAsTyped` (`NicknameIsTheTypedOne`). The strengthenings relate the record to
  the choice: while the user is composing and the record has a target, target and
  replied-to message are the ones picked last; while an emoji is awaited, the record
  holds the nickname typed last, or nothing since it was cleared.
* **LinksProof**: `LimitIsKept` (`LimitKept`), `WithoutALinkForAReason`
  (`NoLinkHasAnExcuse`), `OnlyOwnRemovals` (`RemovalsAreOwn`) and `PrepLeavesALink`
  (`HandlersStartWithALink`). For the limit, a handler that has looked and not yet
  inserted counts as a link to come, so the excess is one for each process.
* **RecordProof**, of `Album`: `ItemsArriveOnce` (`EachItemOnce`), `AlbumsArriveWhole`
  (`CompleteAlbumArrives`) and `ButtonsReachAll` (`DeleteReachesAll`), for any number of
  items. They rest on what `dedupeSortMsgs` returns (`SortedSorts`): each item of the set
  once, ascending. That every set of items can be put in order is an induction over its
  subsets, made by hand: a smallest set that cannot be sorted would be sorted by putting
  its greatest element behind the rest. `EachItemOnce` is inductive with: whatever is
  with the target and was not lost is what the group records as sent, so the next item
  deletes all of it, or it is an orphan; and an orphaned item that the group holds anew
  was redelivered. `DeleteReachesAll` needs that what
  the last warning offers is still recorded by the group or was lost: so the warning may
  go when the next one comes. `CompleteAlbumArrives` needs the state of an album that
  nothing happened to: its copies and carrier are the items so far, in order.
* **DeliveryProof**, of `SendLimit`: `NoWindowOverflows` (`WindowsAreBounded`),
  `WarningsAreRare` (`WarningsApart`) and `RefusalsAreDeserved` (`RefusalsAreEarned`).
  The invariant says that the record keeps every admission that a window which is still
  open needs, and nothing that was not admitted in this life; a record is swept only when
  it keeps nothing that counts.
* **DeliveryProof**, of `Delivery`: `DeliveryIsLimited` is the refinement, every step of
  `Delivery` is one of `SendLimit` or leaves the record alone, so the limits hold of it
  as well (`SendersAreLimited`). `SendersAreToldTheTruth` (`ToldTheTruth`),
  `SecondCopiesHaveACause` (`CopiedTwiceHasACause`) and `SilenceIsExplained`
  (`SilenceHasACause`) come from one account kept of every message: how many copies there
  are and may still come from the outbox, which notices went out, and which causes are
  known, each as far as the handler has come (`Halfway`, `AccountOf`). For the second
  copy the outbox itself needs an invariant (`Once`): only what was queued has rows or
  arrives twice, and until something repeats a send it is `Alone`: one row at most, in
  one hand at most, and none once it has arrived. Each thing a drain loop does keeps it
  (`ClaimDrains`, `RetryDrains`, `GiveUpDrains`), for any number of loops and rows.
  `ShutDoorsAreRespected` (`ShutDoorsStayShut`) needs that a handler past its checks, and
  a copy in the outbox, has passed the door: it was open at some moment since the attempt.
* **KeyboardsProof**: `TheBlockIsToldAsItStands` (`BlockIsToldAsItStands`),
  `SecondNoticesHaveACause` (`SeenTwiceHasACause`) and `SeenPromisesAreKept`
  (`SeenPromiseKept`), for any number of messages, taps and faults. A waiting tap is on
  a button its snapshot shows (`TapsAreReal`), which is what makes the swapped button the
  right one; and a notice that went out has used its button, or something names why
  not, for each message (`NoticeOf`).
* **BackupProof**: `PoolIsSafe` (`PoolOutlivesItsUsers`: nothing tracked begins after
  the stop), `EveryoneIsAccountedFor` (`EveryoneMeansEveryone`), `TwiceIsEarned`
  (`TwiceHasACause`: users ahead of the broadcast and unanswered questions are
  untouched, and what was sent keeps `Once`, the invariant of the outbox),
  `NoQuestionIsForgotten` (`QuestionsAreLookedAfter`), `NoDumpMidWrite`
  (`NightlyIsSettled`) and `OneBackup` (`OneBackupANight`, from the relation of job,
  marker, script and arrivals).

Out of the prover's reach and left to TLC: liveness (`RowsDrain`,
`EventuallyUnmuted`) and anything with ENABLED. The induction theorems of the library
cannot be used, since they take the predicate as a parameter; the one induction here,
over sets of items, uses the least element of a well-founded order instead. What an
album of any size looks like is proved that way, and nothing else needs it.

## 6. Where code and comments disagree

Shown by a run: `flows_captured`, quoted in `PROJECT.json` under `findings`. Opening a
settings prompt, the rename of a link or a `/start` link does not clear the flow that
was waiting (`settings.go:211`, against `handlers.go:341-345`).

Met while modelling; they are in the models, as a cause a property names or as a
behaviour it allows, without a run of their own:

Outbound path

* A retry from the outbox goes through the client that queues failures, so a failing
  retry inserts a second row for its send (`outbox.go:118`, against the comment at 124).
* A send whose *inline* retry fails is neither delivered nor queued
  (`ratelimit.go:343-348`), although `ratelimit.go:278` says that a send that may
  succeed later is queued.
* A send under way when its process dies has no row (`db/outbox.go:13` lists "the
  process being restarted mid-send" among the reasons a row is there).
* SKIP LOCKED protects a row during the claiming statement only; a second instance
  claims a row the first one still has in hand once its 4 s have passed
  (`db/outbox.go:45`).
* Past `maxTrackedChats`, a new chat's bucket is pruned before it is marked as seen
  (`ratelimit.go:210`), so that chat is not paced. `BurstBound` names it as its exception
  (`escaped`).
* A call that outlasts the ten seconds of the drain cannot be queued when it fails: the
  pool is closed (`bot.go:222`).

Reports

* The claim of a case counts as won when its statement fails, so two admins can act on
  one case (`reportactions.go:265`, against `db/reportcases.go:71`).
* A tap under a summary without a readable code acts without claiming the case, so the
  action can be carried out beside the claim of another admin
  (`reportactions.go:256`, deliberately; `ExtraActionsAreExcused` counts these taps).
* A failure after the claim of a case leaves it handled with nothing done
  (`reportactions.go:281`); `HandledMeansDone` holds only without failures.

Messages

* A sender is told of a problem and asked to send again though the copy was delivered,
  or is in the outbox and will be (`sendmsg.go:287`); `ToldTheTruth` names the causes.
* After a rejection that asks for the message again, the record has been cleared, and
  the second message finds an expired session (`sendmsg.go:104`, `targetsend.go:6`).
* A link that was removed and taken by somebody else while the message was composed
  still resolves, and the message goes to the owner it had (`sendmsg.go:115`).
* A copy refused with another 403 (the account is deactivated) or for want of the right
  to send ends without a word to the sender (`targetsend.go:56`, `prep.go:130-137`), and
  so does an id Telegram calls invalid (`targetsend.go:52`); `SilenceHasACause` names them.
* `perTargetMax` bounds what is admitted, not what arrives at a target in a window.
* The answer button keeps the link of an earlier /start (`callbacks.go:62`), and the
  reply is refused when that unrelated link is gone.
* An album of three counts as two messages (`sendmsg.go:447`).
* An album that answers a message and is forgotten half-way begins anew with its next
  item; the copies of before stay with the target (`sendmsg.go:254`).
* "I deleted it for them", though the next item of the album had replaced the copies
  the button names (`callbacks.go:481`, against `texts_inline.go:76`).

Buttons and settings

* Expanding shows "block" to someone who has already blocked when the table cannot be
  read (`msgbuttons.go:70`, against `markup.go:82`).
* A seen notice can go out twice, by a tap that waited or a keyboard another tap drew
  back (`callbacks.go:74-75`, "so it can't be triggered again").
* "I told them" also when Telegram refused the notice for good (`callbacks.go:118`).
* The emoji step stores an empty nickname over the live one when the record was
  cleared in between (`settings.go:519`, against the comment at 464); one way is
  `finishAnon` itself, which clears the record and can then fail, leaving its state.
* A rename started from the button of a link that was removed changes nothing, or the
  row of the link's new owner, and is reported as done (`mylinks.go:320`, against 275).

Background

* "sent the message to everyone." also with a list of failures, and a user in that list
  may still get the message from the outbox (`background.go:471`); also when writing,
  opening or sending that list failed, of which the admin hears nothing
  (`background.go:488-499`). `EveryoneMeansEveryone` names both.
* A question dropped because the queue is full is marked as being thought about
  (`aichat.go:21`).
* `backup.sh:28` keeps a dump that broke off if it has a thousand bytes, since the
  pipeline ends with the status of gzip.
* The script that covers for the nightly job ships the newest dump of any age, one that
  is being written included; the minimum age is the job's only.

## 7. What is not modelled, and why

* The text of messages, the layout of keyboards, the Persian wording, redaction and
  statistics: no property here is about them.
* Cryptography of the tokens: that a sealed token opens only on its own button is a
  property of the AEAD and its associated data, which the models take for granted.
* PostgreSQL itself: a statement is atomic, and may fail before or after its effect.
* The pacing wait between the pause check and the request appears in `Outbox` and
  `FloodPause` as the gap between two steps, not as a length of time.
* Telegram's long polling: an update is handled, or redelivered for albums. The
  other handlers are not checked against a redelivered update.
* `dynset`: one file with one writer. It is written in place, so a crash leaves a torn
  file, which `load` reports and replaces by the defaults.
* Error reports: a bounded store of texts; a report that was evicted is said to be gone.
* The good-morning and good-night messages: two timers without state.
* `/admin backup`, and what becomes of a nightly upload that the client queued.
* That a question to the AI is answered *in the end*: the AI is an external service
  without a bound on its failures, so `QuestionsAreLookedAfter` is a safety property.
* A report whose row cannot be inserted (`callbacks.go:381`): the admin who opens it is
  told that it is unknown.
* The pages of the admins' panel, the message an admin writes to a reported user, the
  auto-reply and sensitivity settings, and the tags of single items of an album.
