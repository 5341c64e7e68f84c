----------------------------- MODULE Keyboards -----------------------------
(***************************************************************************)
(* The buttons under delivered messages against the table they act on:     *)
(* seen, block and unblock (internal/bot/callbacks.go), the toggle that    *)
(* reveals the block button (internal/bot/msgbuttons.go), the /start       *)
(* UNBLOCK link (internal/bot/start.go), "unblock all"                     *)
(* (internal/bot/settings.go) and the table (internal/db/blocks.go).       *)
(*                                                                         *)
(* One recipient, and the messages of one sender.  An update carries the   *)
(* keyboard as it was when the button was tapped.  The dispatcher handles  *)
(* updates one at a time and in order, so a handler is one step; but taps  *)
(* wait, and a handler redraws the whole keyboard from the one its update  *)
(* carries.                                                                *)
(***************************************************************************)
EXTENDS Naturals, Sequences

CONSTANTS Msgs,        \* messages delivered to the recipient
          Again,       \* the message with a "block again" button startUnblock sends
          MaxUpdates,  \* bound: updates of the recipient
          MaxFaults    \* bound: failing statements and calls

ASSUME KeyboardsAssumption ==
  Again \notin Msgs /\ MaxUpdates \in Nat /\ MaxFaults \in Nat

Boards == Msgs \cup {Again}

VARIABLES
  blocked,   \* the row of the recipient and the sender is in blocks
  kb,        \* the keyboard of each message
  inbox,     \* updates not handled yet, oldest first
  updates,   \* updates so far
  faults,
  popup,     \* how the recipient was last told the block stands
  notices,   \* seen notices the sender got for each message: 0, 1 or 2 for "more"
  queued,    \* messages whose seen notice is in the outbox
  promised,  \* messages whose recipient was told that the sender was told
  lapse,     \* why a message's seen button may be wrong
  off        \* why a message's block button may be wrong

seenVars == <<notices, queued, promised>>
vars == <<blocked, kb, inbox, updates, faults, popup, seenVars, lapse, off>>

NoKeyboard == [seen |-> "off", row |-> "gone"]
Keyboard   == [seen : {"off", "button", "done"}, row : {"gone", "closed", "block", "unblock"}]
Commands   == {"unblockAll", "startUnblock"}
Button     == {"seen", "expand", "collapse", "block", "unblock"}
Update     == [what : Button, on : Boards, snapshot : Keyboard] \cup [what : Commands]

TypeOK ==
  /\ blocked \in BOOLEAN
  /\ kb \in [Boards -> Keyboard]
  /\ inbox \in Seq(Update)
  /\ updates \in 0..MaxUpdates /\ faults \in 0..MaxFaults
  /\ popup \in {"none", "blocked", "unblocked", "problem"}
  /\ notices \in [Msgs -> 0..2] /\ queued \subseteq Msgs /\ promised \subseteq Msgs
  /\ lapse \in [Boards -> SUBSET {"stale", "edit", "problem", "refused"}]
  /\ off \in [Boards -> SUBSET {"elsewhere", "edit", "stale", "unread"}]

Init ==
  /\ blocked = FALSE
  /\ kb = [m \in Boards |-> NoKeyboard]
  /\ inbox = <<>> /\ updates = 0 /\ faults = 0
  /\ popup = "none"
  /\ notices = [m \in Msgs |-> 0] /\ queued = {} /\ promised = {}
  /\ lapse = [m \in Boards |-> {}]
  /\ off = [m \in Boards |-> {}]

-----------------------------------------------------------------------------
(* The recipient and the sender.                                           *)

\* A message arrives with its keyboard, with a seen button if its sender wants one.
Deliver(m) ==
  /\ kb[m] = NoKeyboard
  /\ \E s \in {"off", "button"} : kb' = [kb EXCEPT ![m] = [seen |-> s, row |-> "closed"]]
  /\ UNCHANGED <<blocked, inbox, updates, faults, popup, seenVars, lapse, off>>

\* The buttons of a keyboard that act; the message of startUnblock has no toggle.
Buttons(m, k) ==
  (IF k.seen = "button" THEN {"seen"} ELSE {})
  \cup CASE k.row = "gone" -> {}
         [] k.row = "closed" -> {"expand"}
         [] OTHER -> {k.row} \cup (IF m = Again THEN {} ELSE {"collapse"})

Issue(u) ==
  /\ updates < MaxUpdates
  /\ updates' = updates + 1
  /\ inbox' = Append(inbox, u)
  /\ UNCHANGED <<blocked, kb, faults, popup, seenVars, lapse, off>>

\* The recipient taps a button that the message shows, or sends a command; one
\* message with a "block again" button is enough.
Tap(m) == \E b \in Buttons(m, kb[m]) : Issue([what |-> b, on |-> m, snapshot |-> kb[m]])
Command ==
  \E c \in Commands :
    /\ c = "startUnblock" => /\ kb[Again] = NoKeyboard
                             /\ [what |-> c] \notin {inbox[i] : i \in DOMAIN inbox}
    /\ Issue([what |-> c])

-----------------------------------------------------------------------------
(* What the handlers share.                                                *)

Fault == faults < MaxFaults /\ faults' = faults + 1

\* EditReplyMarkup to the keyboard k.  base is off as the handler leaves it for the
\* other messages, wrong what may be wrong with the new block button, and C what the
\* handler did before that the seen button is wrong about.  A failed edit leaves the
\* keyboard as it was.
Redraw(u, k, base, wrong, C) ==
  \/ /\ kb' = [kb EXCEPT ![u.on] = k]
     /\ lapse' = [lapse EXCEPT ![u.on] =
                    @ \cup C \cup (IF u.snapshot.seen = kb[u.on].seen THEN {} ELSE {"stale"})]
     /\ off' = [base EXCEPT ![u.on] = wrong]
     /\ UNCHANGED faults
  \/ /\ Fault
     /\ lapse' = [lapse EXCEPT ![u.on] = @ \cup C \cup {"edit"}]
     /\ off' = [base EXCEPT ![u.on] = @ \cup {"edit"}]
     /\ UNCHANGED kb

\* A change of the table to b leaves every keyboard as it was.
OffAfter(b) == IF b = blocked THEN off ELSE [m \in Boards |-> off[m] \cup {"elsewhere"}]

\* A handler that sets the table to b fails before the statement took effect or after
\* it, and the recipient is told of a problem.
SetFails(b) ==
  /\ Fault
  /\ blocked' \in {b, blocked}
  /\ popup' = "problem"
  /\ off' = OffAfter(blocked')
  /\ UNCHANGED <<kb, lapse>>

-----------------------------------------------------------------------------
(* The handlers.                                                           *)

\* Mutant: a button that found the row as it wants it is left as it is.
SwappedIfChanged(k) ==
  IF (k.row = "block") = blocked THEN k
  ELSE [k EXCEPT !.row = IF @ = "block" THEN "unblock" ELSE "block"]

\* swap: the tapped button the other way round.
Swapped(k) == [k EXCEPT !.row = IF @ = "block" THEN "unblock" ELSE "block"]

\* AddBlock and RemoveBlock leave what the button says, whatever was there.
AfterTap(b) == b = "block"

\* block and unblock: whether the row changed or not, the button is turned over.
Block(u) ==
  /\ u.what \in {"block", "unblock"}
  /\ UNCHANGED seenVars
  /\ \/ /\ blocked' = AfterTap(u.what)
        /\ popup' = IF u.what = "block" THEN "blocked" ELSE "unblocked"
        /\ Redraw(u, Swapped(u.snapshot), OffAfter(blocked'), {}, {})
     \/ SetFails(AfterTap(u.what))

\* otherActions: the row is drawn from the table, and as "block" when the table cannot
\* be read; or it is folded away.
Toggle(u) ==
  /\ UNCHANGED <<blocked, popup, seenVars>>
  /\ \/ /\ u.what = "expand"
        /\ \E read \in BOOLEAN :
             Redraw(u, [u.snapshot EXCEPT !.row = IF read /\ blocked THEN "unblock" ELSE "block"],
                    off, IF read THEN {} ELSE {"unread"}, {})
     \/ u.what = "collapse" /\ Redraw(u, [u.snapshot EXCEPT !.row = "closed"], off, {}, {})

Arrives(m) == notices' = [notices EXCEPT ![m] = IF @ = 0 THEN 1 ELSE 2]

\* Mutant: the button stays.
StillButton(k) == k

SeenDone(k) == [k EXCEPT !.seen = "done"]

\* The popup, and the button's used form among the other rows of the snapshot.
Confirm(u, C) ==
  /\ promised' = promised \cup {u.on}
  /\ Redraw(u, SeenDone(u.snapshot), off,
            off[u.on] \cup (IF u.snapshot.row = kb[u.on].row THEN {} ELSE {"stale"}), C)

\* Mutant: a notice that fails for the moment is confirmed.
NoticeAssumed(u) ==
  \/ Arrives(u.on) /\ UNCHANGED queued /\ Confirm(u, {})
  \/ UNCHANGED <<notices, queued>> /\ Confirm(u, {})

\* The notice is sent; or refused for good, which classifyTargetSendErr takes to be
\* handled, and confirmed all the same; or it fails for the moment, after it was
\* carried out or not, is queued or not, and the recipient is told of a problem.
Notice(u) ==
  \/ Arrives(u.on) /\ UNCHANGED queued /\ Confirm(u, {})
  \/ UNCHANGED <<notices, queued>> /\ Confirm(u, {"refused"})
  \/ /\ Fault
     /\ Arrives(u.on) \/ UNCHANGED notices
     /\ queued' \in {queued, queued \cup {u.on}}
     /\ lapse' = [lapse EXCEPT ![u.on] = @ \cup {"problem"}]
     /\ UNCHANGED <<kb, off, promised>>

\* seen: an alert and no more when the sender blocks the recipient, whose list is the
\* sender's to change at any time, or a statement fails.
Seen(u) ==
  /\ u.what = "seen"
  /\ UNCHANGED <<blocked, popup>>
  /\ \/ UNCHANGED <<kb, faults, seenVars, lapse, off>>
     \/ Notice(u)

\* unblockAll, confirmed.
UnblockAll(u) ==
  /\ u.what = "unblockAll"
  /\ UNCHANGED seenVars
  /\ \/ /\ blocked' = FALSE /\ popup' = "unblocked"
        /\ off' = OffAfter(FALSE)
        /\ UNCHANGED <<kb, faults, lapse>>
     \/ SetFails(FALSE)

\* startUnblock: the reply carries a button to block again, unless there was no block.
StartUnblock(u) ==
  /\ u.what = "startUnblock"
  /\ UNCHANGED seenVars
  /\ \/ /\ blocked' = FALSE /\ popup' = "unblocked"
        /\ kb' = IF blocked THEN [kb EXCEPT ![Again] = [seen |-> "off", row |-> "block"]] ELSE kb
        /\ off' = [OffAfter(FALSE) EXCEPT ![Again] = {}]
        /\ UNCHANGED <<faults, lapse>>
     \/ SetFails(FALSE)

\* The dispatcher handles the oldest update.
Handle ==
  /\ inbox # <<>>
  /\ inbox' = Tail(inbox) /\ UNCHANGED updates
  /\ LET u == Head(inbox)
     IN Block(u) \/ Toggle(u) \/ Seen(u) \/ UnblockAll(u) \/ StartUnblock(u)

\* The outbox delivers a seen notice, or gives it up.
Drain(m) ==
  /\ m \in queued /\ queued' = queued \ {m}
  /\ Arrives(m) \/ UNCHANGED notices
  /\ UNCHANGED <<blocked, kb, inbox, updates, faults, popup, promised, lapse, off>>

Next ==
  \/ \E m \in Msgs : Deliver(m) \/ Drain(m)
  \/ \E m \in Boards : Tap(m)
  \/ Command \/ Handle

Spec == Init /\ [][Next]_vars

-----------------------------------------------------------------------------
(* Properties.                                                             *)

\* What a tap or a command last said of the block is how the table stands, however
\* many taps were waiting on however old buttons; and a button offers "unblock" exactly
\* when the row is in the table, but for a change made elsewhere since it was drawn, an
\* edit that failed, a row that a tap on "seen" brought back, or a table that could not
\* be read (block, unblock, otherActions).
BlockIsToldAsItStands ==
  /\ popup = "blocked" => blocked
  /\ popup = "unblocked" => ~blocked
  /\ \A m \in Boards : kb[m].row \in {"block", "unblock"} /\ off[m] = {} =>
       (kb[m].row = "unblock") = blocked

\* "so it can't be triggered again": a sender is told twice that one message was seen
\* only if the second tap waited while the first was handled or its redraw was undone
\* by another, an edit failed, or the first notice ended in a problem (seen).
SeenTwiceHasACause ==
  \A m \in Msgs : notices[m] > 1 => lapse[m] \cap {"stale", "edit", "problem"} # {}

\* A recipient who is told "I told them" is told the truth, unless Telegram refused
\* the notice for good, which is confirmed all the same (seen).
SeenPromiseKept == \A m \in promised : notices[m] > 0 \/ "refused" \in lapse[m]
=============================================================================
