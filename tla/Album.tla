-------------------------------- MODULE Album --------------------------------
(***************************************************************************)
(* An album on its way to somebody (internal/bot/media.go): every item is  *)
(* an update of its own.  The first one is only remembered (sendMsgCore);  *)
(* each later one deletes what was copied before, copies the whole album   *)
(* again, sends the message that carries the buttons, and replaces the     *)
(* sender's warning, whose delete button names the copies.                 *)
(*                                                                         *)
(* Updates are handled one at a time, so a handler is one step; where it   *)
(* stops with an error is a choice inside the step.  Items may be handled  *)
(* in any order, and one may be redelivered.  A call that fails may have   *)
(* been carried out all the same, and may be queued for later (outbox.go). *)
(***************************************************************************)
EXTENDS Naturals, Sequences, FiniteSets, Functions

CONSTANTS N,            \* items of the album
          MaxAgain,     \* bound: redelivered items
          MaxFaults     \* bound: failing calls

ASSUME AlbumAssumption == N \in Nat \ {0, 1} /\ MaxAgain \in Nat /\ MaxFaults \in Nat

Items == 1 .. N

VARIABLES
  flow,      \* what the record holds: a target, a started album, or nothing
  group,     \* the album: its items so far, the copies' ids, the last warning
  late,      \* more than ExpireAfter has passed since the window was renewed
  answers,   \* the album answers a message: it is announced, and can start anew
  warning,   \* users.warning: the sender wants the warning with the button
  handled,   \* items whose update was handled
  again,     \* redelivered updates that were handled: their items
  inbox,     \* the target's chat: the messages of the album in it
  warns,     \* the sender's chat: the warnings that still have their button
  taps,      \* taps on delete buttons that are not handled yet
  outbox,    \* queued calls: the messages they will make
  next,      \* the next message id
  stray,     \* history: ids nobody recorded, or whose deletion failed
  unwarned,  \* history: ids of handlers that stopped before their warning
  closed,    \* history: ids no button offers any more (time, or the setting)
  orphans,   \* history: ids of copies whose album was forgotten
  spoiled,   \* history: something else than items came between
  faults

albumVars == <<flow, group, late, answers, warning, handled, again, inbox, warns, taps,
               outbox, next, stray, unwarned, closed, orphans, spoiled, faults>>
chats == <<inbox, warns, taps, outbox, next, stray, unwarned, closed>>

NoWarning == [ids |-> {}]
NoGroup == [items |-> <<>>, sent |-> {}, notify |-> {}, warning |-> NoWarning]
Carrier == N + 1    \* the message with the buttons
Notify == 0         \* the announcement of an answer
Whats == 0 .. N + 1
Ids == 1 .. next - 1    \* the ids given out so far
Warnings == [ids : SUBSET Ids]

AlbumTypeOK ==
  /\ flow \in {"composing", "album", "none"}
  /\ group \in [items : Seq(Items), sent : SUBSET Ids, notify : SUBSET Ids,
               warning : Warnings]
  /\ (flow = "album") = (group.items # <<>>)
  /\ {late, answers, warning, spoiled} \subseteq BOOLEAN
  /\ handled \subseteq Items /\ again \in Seq(Items) /\ Len(again) <= MaxAgain
  /\ inbox \subseteq [id : Ids, what : Whats]
  /\ warns \subseteq Warnings /\ taps \subseteq Warnings
  /\ outbox \subseteq [n : 1 .. MaxFaults, makes : Seq(Whats)]
  /\ next \in Nat \ {0}
  /\ stray \subseteq Ids /\ unwarned \subseteq Ids /\ closed \subseteq Ids
  /\ orphans \subseteq Ids
  /\ faults \in 0 .. MaxFaults

AlbumInit ==
  /\ flow = "composing"
  /\ group = NoGroup
  /\ late = FALSE
  /\ answers \in BOOLEAN /\ warning \in BOOLEAN
  /\ handled = {} /\ again = <<>>
  /\ inbox = {} /\ warns = {} /\ taps = {} /\ outbox = {}
  /\ next = 1
  /\ stray = {} /\ unwarned = {} /\ closed = {} /\ orphans = {}
  /\ spoiled = FALSE /\ faults = 0

-----------------------------------------------------------------------------
\* The update of item i: for the first time, or once more.
Arrives(i) ==
  /\ \/ i \notin handled /\ UNCHANGED again
     \/ i \in handled /\ Len(again) < MaxAgain /\ again' = Append(again, i)
  /\ handled' = handled \cup {i}

Made(first, what) == {[id |-> first + k - 1, what |-> what[k]] : k \in DOMAIN what}
IdsOf(msgs) == {m.id : m \in msgs}
Without(ids) == {m \in inbox : m.id \notin ids}

\* What n failing calls cost; a failing call may leave its work to the outbox.
Failing(n) == faults + n <= MaxFaults /\ faults' = faults + n
MayQueue(what) == \/ UNCHANGED outbox
                  \/ outbox' = outbox \cup {[n |-> faults', makes |-> what]}

\* sendMsgCore, for an item of an album: it is stored and nothing is sent but, for
\* an answer, the announcement.  Or it is refused or fails, and nothing is stored.
FirstItem(i) ==
  /\ flow = "composing" \/ (flow = "none" /\ answers)
  /\ Arrives(i)
  /\ \/ /\ flow' = "album"
        /\ late' = FALSE
        /\ LET announced == IF answers THEN Made(next, <<Notify>>) ELSE {} IN
           /\ group' = [NoGroup EXCEPT !.items = <<i>>, !.notify = IdsOf(announced)]
           /\ inbox' = inbox \cup announced
           /\ unwarned' = unwarned \cup IdsOf(announced)
           /\ next' = next + Cardinality(announced)
        /\ UNCHANGED <<warns, taps, outbox, stray, closed, spoiled>>
     \/ /\ flow' = "none"
        /\ spoiled' = TRUE
        /\ UNCHANGED <<group, late, chats>>
  /\ UNCHANGED <<answers, warning, orphans, faults>>

\* Mutant: items are neither sorted nor deduplicated.
CollectAsTheyCome(msgs, i) == Append(msgs, i)

Ascending(S, s) == \A j, k \in 1 .. Cardinality(S) : j < k => s[j] < s[k]

\* dedupeSortMsgs: ascending message ids, each once, as CopyMessages wants them.
Sorted(S) == CHOOSE s \in [1 .. Cardinality(S) -> S] : Ascending(S, s)
Collect(msgs, i) == Sorted(Range(msgs) \cup {i})

Copyable(msgs) == \A k \in 1 .. Len(msgs) - 1 : msgs[k] < msgs[k + 1]

\* Mutant: the button names the copies alone.
ToDeleteCopies(copies, carrier) == IdsOf(copies)

\* The ids the delete button names: the copies, the carrier, the announcement.
ToDelete(copies, carrier) == IdsOf(copies) \cup IdsOf(carrier) \cup group.notify

\* Mutant: the copies of before stay.
StaleNothing == {}

\* What is deleted from the target's chat before the album is copied again.
Stale == group.sent

\* A later item of the album: it joins the others, and the copies of before are
\* deleted, which nobody notices when it fails (undeleted).
Joins(i, undeleted, failures) ==
  /\ flow = "album" /\ ~late
  /\ Arrives(i)
  /\ Failing(failures + IF undeleted THEN 1 ELSE 0)
  /\ UNCHANGED <<flow, answers, warning, taps, orphans, spoiled>>

Kept(undeleted) == IF undeleted THEN inbox ELSE Without(Stale)
Left(undeleted) == IF undeleted THEN Stale \cap IdsOf(inbox) ELSE {}
Copies(msgs) == Made(next, msgs)
CarrierOf(msgs) == Made(next + Len(msgs), <<Carrier>>)

\* CopyMessages fails, or was carried out and its answer is lost, or it refuses
\* ids that do not ascend.
CopyFails(i, undeleted) ==
  LET msgs == Collect(group.items, i) IN
  /\ Joins(i, undeleted, IF Copyable(msgs) THEN 1 ELSE 0)
  /\ group' = [group EXCEPT !.items = msgs, !.sent = {}]
  /\ MayQueue(msgs)
  /\ \/ /\ inbox' = Kept(undeleted)
        /\ stray' = stray \cup Left(undeleted)
        /\ UNCHANGED next
     \/ /\ Copyable(msgs)
        /\ inbox' = Kept(undeleted) \cup Copies(msgs)
        /\ stray' = stray \cup Left(undeleted) \cup IdsOf(Copies(msgs))
        /\ next' = next + Len(msgs)
  /\ UNCHANGED <<late, warns, unwarned, closed>>

\* The tags or the nickname cannot be read, or the carrier cannot be sent.
StopsAfterCopying(i, undeleted) ==
  LET msgs == Collect(group.items, i) IN
  /\ Copyable(msgs)
  /\ Joins(i, undeleted, 1)
  /\ group' = [group EXCEPT !.items = msgs, !.sent = IdsOf(Copies(msgs))]
  /\ MayQueue(<<Carrier>>)
  /\ \E reached \in {{}, CarrierOf(msgs)} :
       /\ inbox' = Kept(undeleted) \cup Copies(msgs) \cup reached
       /\ stray' = stray \cup Left(undeleted) \cup IdsOf(reached)
       /\ next' = next + Len(msgs) + Cardinality(reached)
  /\ unwarned' = unwarned \cup IdsOf(Copies(msgs))
  /\ UNCHANGED <<late, warns, closed>>

\* The album and its carrier are through, and the warning of before is deleted.
GoesThrough(i, undeleted, failures) ==
  LET msgs == Collect(group.items, i) IN
  /\ Copyable(msgs)
  /\ Joins(i, undeleted, failures)
  /\ inbox' = Kept(undeleted) \cup Copies(msgs) \cup CarrierOf(msgs)
  /\ stray' = stray \cup Left(undeleted)
  /\ next' = next + Len(msgs) + 1
  /\ UNCHANGED outbox

\* The new warning cannot be sent.
WarningFails(i, undeleted) ==
  LET msgs == Collect(group.items, i) IN
  /\ GoesThrough(i, undeleted, 1)
  /\ group' = [group EXCEPT !.items = msgs,
                            !.sent = IdsOf(Copies(msgs) \cup CarrierOf(msgs))]
  /\ unwarned' = unwarned \cup ToDelete(Copies(msgs), CarrierOf(msgs))
  /\ warns' = warns \ {group.warning}
  /\ UNCHANGED <<late, closed>>

\* All of it succeeds, and the window is renewed.
NextItem(i, undeleted) ==
  LET msgs == Collect(group.items, i)
      tbd == ToDelete(Copies(msgs), CarrierOf(msgs))
      w == [ids |-> tbd]
  IN
  /\ GoesThrough(i, undeleted, 0)
  /\ group' = [group EXCEPT !.items = msgs,
                            !.sent = IdsOf(Copies(msgs) \cup CarrierOf(msgs)),
                            !.warning = IF warning THEN w ELSE @]
  /\ warns' = (warns \ {group.warning}) \cup (IF warning THEN {w} ELSE {})
  /\ closed' = IF warning THEN closed ELSE closed \cup tbd
  /\ unwarned' = unwarned \ tbd
  /\ late' = FALSE

LaterItem(i) ==
  \E undeleted \in BOOLEAN :
    \/ CopyFails(i, undeleted) \/ StopsAfterCopying(i, undeleted)
    \/ WarningFails(i, undeleted) \/ NextItem(i, undeleted)

\* The record is cleared, and with it what the album knows of its copies.
Orphaned == /\ flow' = "none" /\ group' = NoGroup
            /\ orphans' = orphans \cup group.sent
            /\ spoiled' = TRUE

\* The window is over: the user is asked to send a new message.
TooLate(i) ==
  /\ flow = "album" /\ late
  /\ Arrives(i)
  /\ Orphaned
  /\ UNCHANGED <<late, answers, warning, chats, faults>>

\* No album is under way, and the item answers nothing.
NotUnderstood(i) ==
  /\ flow = "none" /\ ~answers
  /\ Arrives(i)
  /\ UNCHANGED <<flow, group, late, answers, warning, chats, orphans, spoiled, faults>>

Elapse == /\ flow = "album" /\ ~late
          /\ late' = TRUE
          /\ UNCHANGED <<flow, group, answers, warning, handled, again, chats, orphans, spoiled, faults>>

\* Another update of the sender clears the record, or the process restarts.
Forget ==
  /\ flow # "none"
  /\ Orphaned
  /\ UNCHANGED <<late, answers, warning, handled, again, chats, faults>>

\* The sender taps the button of a warning that is on their screen.
TapDelete(w) ==
  /\ w \in warns \ taps
  /\ taps' = taps \cup {w}
  /\ UNCHANGED <<flow, group, late, answers, warning, handled, again, inbox, warns, outbox,
                 next, stray, unwarned, closed, orphans, spoiled, faults>>

\* deleteMsgClbk: the ids the tapped buttons name are deleted, and the user is told
\* so whatever became of the deletions; the album, if under way, is not touched.
DeleteMsg(w) ==
  /\ w \in taps
  /\ taps' = taps \ {w}
  /\ warns' = warns \ {w}
  /\ spoiled' = TRUE
  /\ \/ inbox' = Without(w.ids) /\ UNCHANGED <<stray, faults>>
     \/ /\ Failing(1)
        /\ stray' = stray \cup (w.ids \cap IdsOf(inbox))
        /\ UNCHANGED inbox
  /\ UNCHANGED <<flow, group, late, answers, warning, handled, again, outbox, next,
                 unwarned, closed, orphans>>

\* scheduleDeleteWarning: the timer takes the button away.
TimerFires(w) ==
  /\ w \in warns
  /\ warns' = warns \ {w}
  /\ closed' = closed \cup w.ids
  /\ UNCHANGED <<flow, group, late, answers, warning, handled, again, inbox, taps, outbox,
                 next, stray, unwarned, orphans, spoiled, faults>>

\* The outbox delivers a queued call; nobody looks at its answer.
Drain(call) ==
  /\ outbox' = outbox \ {call}
  /\ inbox' = inbox \cup Made(next, call.makes)
  /\ stray' = stray \cup IdsOf(Made(next, call.makes))
  /\ next' = next + Len(call.makes)
  /\ UNCHANGED <<flow, group, late, answers, warning, handled, again, warns, taps,
                 unwarned, closed, orphans, spoiled, faults>>

AlbumNext ==
  \/ \E i \in Items : FirstItem(i) \/ LaterItem(i) \/ TooLate(i) \/ NotUnderstood(i)
  \/ Elapse \/ Forget
  \/ \E w \in warns : TapDelete(w) \/ TimerFires(w)
  \/ \E w \in taps : DeleteMsg(w)
  \/ \E call \in outbox : Drain(call)

AlbumSpec == AlbumInit /\ [][AlbumNext]_albumVars

-----------------------------------------------------------------------------
\* The target sees neither an item nor the carrier twice, however the items come in,
\* but for two reasons.  A call failed: copies whose deletion failed, whose ids were lost
\* with the answer, or that the outbox delivered stay beside the new ones.  Or the album
\* answers a message and its record was forgotten on the way: the next item starts it
\* anew beside the copies of before, and an item shows twice only if its update was
\* redelivered as well (sendMsgCore, handleMedia).
EachItemOnce ==
  \A m, n \in {o \in inbox : o.what # Notify /\ o.id \notin stray} :
    m # n /\ m.what = n.what =>
      /\ answers /\ {m.id, n.id} \cap orphans # {}
      /\ m.what \in Items => m.what \in Range(again)

\* An album all of whose items were handled without a failure and with nothing in
\* between is in the target's chat whole, in the order it was sent, followed by the
\* one message that carries its buttons.
CompleteAlbumArrives ==
  handled = Items /\ faults = 0 /\ ~spoiled =>
    LET shown == {m \in inbox : m.what # Notify}
    IN  /\ {m.what : m \in shown} = Items \cup {Carrier}
        /\ \A m, n \in shown : m.id < n.id <=> m.what < n.what

\* Whatever of the album is in the target's chat can be deleted with a button in the
\* sender's chat, until its timer fires: the exceptions are messages nobody recorded
\* and those of a handler that stopped before it could send the warning.
DeleteReachesAll ==
  IdsOf(inbox) \subseteq
    stray \cup unwarned \cup closed \cup UNION {w.ids : w \in warns}
=============================================================================
