------------------------------ MODULE Delivery ------------------------------
(***************************************************************************)
(* One sender's messages from the send state to the target's chat:         *)
(* sendMsgCore with sendNotif, copyToTarget and warningHandle              *)
(* (internal/bot/sendmsg.go), the classification of a refused send         *)
(* (internal/bot/targetsend.go) and of every other error                   *)
(* (internal/bot/prep.go), and what the outbox does later with a send that *)
(* failed.  Admission is that of SendLimit, the outbox that of Redelivery. *)
(*                                                                         *)
(* The handler is one thread, and each of its statements and calls may     *)
(* fail.  The target's blocks and links change between them, as they do    *)
(* while a deploy has two processes, and the outbox loops run all the      *)
(* time.  A fault is counted, so that MaxFaults bounds them.               *)
(***************************************************************************)
EXTENDS SendLimit, Redelivery

CONSTANTS ViaLink,    \* messages that begin with /start <link>; the others are answers
          Announced,  \* answers that reply to a channel, announced by a notice
          MaxMoves    \* bound: changes the target makes to blocks and links

ASSUME DeliveryAssumption ==
  /\ ViaLink \subseteq Msgs /\ Announced \subseteq Msgs \ ViaLink
  /\ Sends = Msgs
  /\ MaxMoves \in Nat

VARIABLES
  cur, pc,     \* the message the handler is at, and where
  blocks,      \* the targets that block the sender
  link,        \* what the link resolves to: its owner, a new owner, nobody
  announcing,  \* messages whose notice is in the outbox
  announced,   \* messages whose notice is there
  told,        \* the notices the sender got about each message
  admissible,  \* messages whose target did not block at some time since the attempt
  reachable,   \* messages whose link resolved at some time since the attempt
  moves

handler == <<cur, pc>>
target  == <<blocks, link, admissible, reachable, moves>>
chat    == <<queued, holds, arrived, announcing, announced>>
vars == <<limitVars, handler, target, chat, told, cause, faults>>

Notices == {"sent", "again", "rejected", "incident"}
Causes  == Repeats \cup {"queued", "after", "unheard", "badId", "forbidden", "died"}

TypeOK ==
  /\ LimitTypeOK /\ RedeliveryTypeOK
  /\ cur \in Msgs \cup {None}
  /\ pc \in {"idle", "target", "block", "notify", "copy", "preview", "warn", "tags"}
  /\ blocks \subseteq Targets /\ link \in {"owner", "taken", "nobody"}
  /\ announcing \subseteq Announced /\ announced \subseteq Announced
  /\ told \in [Msgs -> SUBSET Notices] /\ cause \in [Msgs -> SUBSET Causes]
  /\ admissible \subseteq Msgs /\ reachable \subseteq Msgs
  /\ moves \in 0..MaxMoves
  /\ (cur = None) = (pc = "idle")

Init ==
  /\ LimitInit /\ RedeliveryInit
  /\ cur = None /\ pc = "idle"
  /\ blocks = {} /\ link = "owner"
  /\ announcing = {} /\ announced = {}
  /\ told = [m \in Msgs |-> {}]
  /\ admissible = {} /\ reachable = {}
  /\ moves = 0

-----------------------------------------------------------------------------
Goto(l)    == pc' = l /\ cur' = cur
Done       == pc' = "idle" /\ cur' = None
Tell(m, N) == told' = [told EXCEPT ![m] = @ \cup N]

\* A reply to the sender, after which the handler ends.  A failing reply is answered
\* by handleErr with another notice, which may fail as well.
Say(m, n) ==
  /\ Done
  /\ \/ Tell(m, {n}) /\ UNCHANGED <<cause, faults>>
     \/ Fault /\ Blame(m, {"unheard"}) /\ \E N \in SUBSET {n, "again"} : Tell(m, N)

\* handleErr for a database error, a network error or a 429: the sender is asked to
\* send again, best effort.  C is what the property needs to know.
AskAgain(m, C) ==
  /\ Done
  /\ \/ Tell(m, {"again"}) /\ Blame(m, C)
     \/ Blame(m, C \cup {"unheard"}) /\ UNCHANGED told

\* A statement of the handler fails.
StatementFails(C) ==
  /\ Fault
  /\ AskAgain(cur, C)
  /\ UNCHANGED <<limitVars, target, chat>>

-----------------------------------------------------------------------------
(* sendMsgCore.                                                            *)

Attempt(m) ==
  /\ cur = None
  /\ admissible' = IF To[m] \in blocks THEN admissible ELSE admissible \cup {m}
  /\ reachable' = IF m \in ViaLink /\ link = "nobody" THEN reachable ELSE reachable \cup {m}
  /\ UNCHANGED <<blocks, link, moves, chat>>

\* The limits let the message through; without a target the session has expired.
Accept(m) ==
  /\ Attempt(m) /\ Admit(m)
  /\ IF To[m] = NoTarget THEN Say(m, "rejected")
     ELSE /\ cur' = m /\ pc' = "target"
          /\ UNCHANGED <<told, cause, faults>>

\* They do not: dropped, with a notice when a warning is due.
Refuse(m) ==
  /\ Attempt(m) /\ Reject(m)
  /\ IF verdict'[m] = "warned" THEN Say(m, "rejected")
     ELSE UNCHANGED <<handler, told, cause, faults>>

\* GetUIDByCID finds nobody.  A link somebody else has taken still resolves.
LinkGone == cur \in ViaLink /\ link = "nobody"

\* The link must still resolve; an answer must reply to the message it was opened on.
CheckTarget ==
  /\ pc = "target"
  /\ \/ StatementFails({})
     \/ /\ \/ LinkGone /\ Say(cur, "rejected")
           \/ cur \notin ViaLink /\ Say(cur, "rejected")
           \/ ~LinkGone /\ Goto("block") /\ UNCHANGED <<told, cause, faults>>
        /\ UNCHANGED <<limitVars, target, chat>>

\* Mutant: the notice goes out before the block is looked up.
BlockedUnlessAnnounced == To[cur] \in blocks /\ cur \notin Announced

\* IsBlocked.
Blocked == To[cur] \in blocks

\* The target blocks the sender, or one of the statements up to the copy fails, or
\* the message goes on.
CheckBlock ==
  /\ pc = "block"
  /\ \/ StatementFails({})
     \/ /\ \/ Blocked /\ Say(cur, "rejected")
           \/ /\ ~Blocked
              /\ Goto(IF cur \in Announced THEN "notify" ELSE "copy")
              /\ UNCHANGED <<told, cause, faults>>
        /\ UNCHANGED <<limitVars, target, chat>>

\* Mutant: a refusal is taken to be reported already.
RefusedUnclassified(m) == Done /\ UNCHANGED <<told, cause>>

\* What ends without a word: the id is invalid (classifyTargetSendErr), or handleErr
\* takes the refusal for a fact about the chat: any other 403, no right to send.
Silently(m) == \E c \in {"badId", "forbidden"} : Blame(m, {c}) /\ UNCHANGED told

\* classifyTargetSendErr, handleErr and onError for a send Telegram refused: the target
\* blocked the bot, the replied-to message or its channel is out of reach (a notice, which
\* may fail), nothing at all, or anything else (a tracking code, best effort).
Refused(m) ==
  /\ Done
  /\ \/ \E n \in {"rejected", "incident"} : Tell(m, {n}) /\ UNCHANGED cause
     \/ /\ Blame(m, {"unheard"})
        /\ \E N \in (SUBSET {"rejected", "again"}) \cup {{"incident"}} : Tell(m, N)
     \/ Silently(m)

\* sendNotif: "new answer", ahead of an answer that replies to a channel.
Notify ==
  /\ pc = "notify"
  /\ \/ /\ announced' = announced \cup {cur}
        /\ Goto("copy")
        /\ UNCHANGED <<announcing, told, cause, faults>>
     \/ Fault /\ Refused(cur) /\ UNCHANGED <<announced, announcing>>
     \/ /\ Fault
        /\ \E lost, kept \in BOOLEAN :
             /\ announced' = IF lost THEN announced \cup {cur} ELSE announced
             /\ announcing' = IF kept THEN announcing \cup {cur} ELSE announcing
             /\ AskAgain(cur, {})
  /\ UNCHANGED <<limitVars, target, queued, holds, arrived>>

\* Mutant: a refused copy goes on like an accepted one.
CopyIgnored ==
  /\ pc = "copy"
  /\ \/ Arrives(cur) /\ Goto("preview") /\ UNCHANGED <<queued, told, cause, faults>>
     \/ Fault /\ Goto("preview") /\ UNCHANGED <<queued, arrived, told, cause>>
  /\ UNCHANGED <<limitVars, target, holds, announcing, announced>>

\* copyToTarget.
Copy ==
  /\ pc = "copy"
  /\ \/ Arrives(cur) /\ Goto("preview") /\ UNCHANGED <<queued, told, cause, faults>>
     \/ Fault /\ Refused(cur) /\ UNCHANGED <<queued, arrived>>
     \/ /\ Fault
        /\ \E C \in SUBSET {"lost", "queued"} : FailsForNow(cur, C) /\ AskAgain(cur, C)
  /\ UNCHANGED <<limitVars, target, holds, announcing, announced>>

\* GetWPP, and an edit whose failure is ignored.
Preview ==
  /\ pc = "preview"
  /\ \/ StatementFails({"after"})
     \/ Goto("warn") /\ UNCHANGED <<limitVars, target, chat, told, cause, faults>>

\* warningHandle: the target's name, the sender's setting, then "sent", with the
\* delete button or without.
Warn ==
  /\ pc = "warn"
  /\ \/ StatementFails({"after"})
     \/ /\ \/ Goto("tags") /\ Tell(cur, {"sent"}) /\ UNCHANGED <<cause, faults>>
           \/ /\ Fault /\ Done /\ Blame(cur, {"after", "unheard"})
              /\ \E N \in SUBSET {"sent", "again"} : Tell(cur, N)
        /\ UNCHANGED <<limitVars, target, chat>>

\* Custom tag, nickname and audio tag: three statements, and edits that may fail.
Tags ==
  /\ pc = "tags"
  /\ \/ StatementFails({"after"})
     \/ Done /\ UNCHANGED <<limitVars, target, chat, told, cause, faults>>

-----------------------------------------------------------------------------
(* Everybody else.                                                         *)

rest == <<limitVars, handler, target, told>>

\* The drain loops retry a queued copy as it was made, without looking at blocks.
Drain(l, r) ==
  /\ Claim(l, r) \/ Retry(l, r, FALSE) \/ GiveUp(r)
  /\ UNCHANGED <<rest, announcing, announced>>

\* A queued notice likewise, at most once or more than once: it is there or not.
DrainNotice(m) ==
  /\ m \in announcing /\ announcing' \in {announcing, announcing \ {m}}
  /\ announced' \in {announced, announced \cup {m}}
  /\ UNCHANGED <<rest, queued, holds, arrived, cause, faults>>

Tried == {m \in Msgs : verdict[m] # "none"}

\* A target blocks or unblocks the sender.
ToggleBlock(t) ==
  /\ moves < MaxMoves /\ moves' = moves + 1
  /\ IF t \in blocks
     THEN /\ blocks' = blocks \ {t}
          /\ admissible' = admissible \cup {m \in Tried : To[m] = t}
     ELSE blocks' = blocks \cup {t} /\ UNCHANGED admissible
  /\ UNCHANGED <<limitVars, handler, link, reachable, chat, told, cause, faults>>

\* The owner removes or renames the link, or somebody takes it.
MoveLink ==
  /\ moves < MaxMoves /\ moves' = moves + 1
  /\ \/ link # "nobody" /\ link' = "nobody" /\ UNCHANGED reachable
     \/ link = "nobody" /\ link' = "taken" /\ reachable' = reachable \cup Tried
  /\ UNCHANGED <<limitVars, handler, blocks, admissible, chat, told, cause, faults>>

\* The clock, and the sweep, which leaves a record in use alone (TryLock).
TimePasses == /\ Tick \/ (cur = None /\ Sweep)
              /\ UNCHANGED <<handler, target, chat, told, cause, faults>>

\* The process dies: the handler is gone and what the loop has in hand, the outbox stays.
Die ==
  /\ Restart
  /\ Done
  /\ holds' = [holds EXCEPT ![Own] = {}]
  /\ IF cur = None THEN UNCHANGED cause ELSE Blame(cur, {"died"})
  /\ UNCHANGED <<target, queued, arrived, announcing, announced, told, faults>>

Step == CheckTarget \/ CheckBlock \/ Notify \/ Copy \/ Preview \/ Warn \/ Tags

Next ==
  \/ \E m \in Msgs : Accept(m) \/ Refuse(m) \/ DrainNotice(m)
  \/ \E l \in Loops, r \in Rows : Drain(l, r)
  \/ Step
  \/ \E t \in Targets : ToggleBlock(t)
  \/ MoveLink \/ TimePasses \/ Die

Spec == Init /\ [][Next]_vars

-----------------------------------------------------------------------------
(* Properties.                                                             *)

\* A sender who is told "sent" has a copy in the target's chat; one who is told the
\* message was rejected has none, not now and not from the outbox later; nor has one who
\* is asked to send it again, but for three causes: the reply to the copy was lost, the
\* outbox took the copy over, or a statement or notice failed after it (sendMsgCore,
\* classifyTargetSendErr, handleErr's texts).
ToldTheTruth ==
  \A m \in Msgs :
    /\ "sent" \in told[m] => arrived[m] > 0
    /\ "rejected" \in told[m] => arrived[m] = 0 /\ Outstanding(m) = {}
    /\ "again" \in told[m] /\ (arrived[m] > 0 \/ Outstanding(m) # {}) =>
         cause[m] \cap {"lost", "queued", "after"} # {}

\* Two copies of one message take the outbox, and one of four things: the reply to an
\* attempt was lost, its row outlived a delivery, a retry queued a second row, or two
\* loops had its row in hand (copyToTarget, drainOutbox, ClaimDueSends).
CopiedTwiceHasACause ==
  \A m \in Msgs : arrived[m] > 1 => "queued" \in cause[m] /\ cause[m] \cap Repeats # {}

\* Nobody is left without a word, except by a warning still fresh, a notice that failed,
\* a crash, an id Telegram calls invalid (classifyTargetSendErr), or a refusal that
\* handleErr takes for a fact about the target's chat.
SilenceHasACause ==
  \A m \in Tried \ {cur} : told[m] = {} =>
    verdict[m] = "silent" \/ cause[m] \cap {"unheard", "badId", "forbidden", "died"} # {}

\* A target who blocked the sender before a message was attempted, and has not
\* unblocked since, never gets it, nor its notice, not even hours later from the
\* outbox.  Nor does one whose link was gone all the time, unless somebody took it.
ShutDoorsStayShut ==
  \A m \in Msgs : arrived[m] > 0 \/ m \in announced =>
    m \in admissible /\ m \in reachable
=============================================================================
