------------------------------- MODULE Flows -------------------------------
(***************************************************************************)
(* What the bot remembers of ONE user between two of their updates: the    *)
(* three conversations (handlers.go: start, my_links, settings), each with *)
(* a state of its own, and the userData record (userdata.go) all three of  *)
(* them write to and clear.  Updates of a user are handled one at a time   *)
(* (prep holds the record's mutex), so an update is one step; a statement  *)
(* or a reply that fails in the middle of it is a choice inside the step.  *)
(* An update that fails before it changes anything is a stuttering step.   *)
(*                                                                         *)
(* The conversations survive for the life of the process, the record is    *)
(* evicted after two idle hours, and a restart loses both.                 *)
(***************************************************************************)
CONSTANTS
  Contacts,    \* the people the user may write to
  Msgs,        \* delivered messages in the user's chat, with an answer button
  Sender,      \* who sent each of them
  Cids,        \* ids of the contacts' anonymous links
  MyCids,      \* ids of the user's own links
  Texts,       \* what the user may type
  Blank,       \* the empty text
  None         \* the empty uid, cid, message id or state

ASSUME FlowsAssumption ==
  /\ Sender \in [Msgs -> Contacts]
  /\ None \notin Contacts \cup Msgs \cup Cids \cup MyCids
  /\ Blank \notin Texts

VARIABLES
  conv,      \* the state of each conversation, "none" when there is none
  ud,        \* the userData record (convData), its cosmetic ids left out
  nick,      \* the user's anonymous nickname as the database has it, and its switch
  owner,     \* who owns each link of the contacts
  blockers,  \* contacts that blocked the user
  picked,    \* history: the contact, and the message, the user chose to write to
  asked,     \* history: the conversation state whose question was asked last
  last,      \* history: what became of the last text the user sent
  typed,     \* history: the nickname the user typed last
  wiped      \* history: the record was cleared while an emoji was awaited for it

vars == <<conv, ud, nick, owner, blockers, picked, asked, last, typed, wiped>>
rows == <<nick, owner, blockers, typed>>

Idle == [start |-> "none", links |-> "none", settings |-> "none"]
Cleared == [targetUID |-> None, targetCid |-> None, replyTo |-> None,
            chosenCid |-> None, anonPendingName |-> Blank]
Nobody == [to |-> None, mid |-> None]

SettingsStates == {"0", "1", "2", "3", "4"}
NoNickname == [name |-> Blank, on |-> FALSE]

\* A text is delivered (to # None) or consumed by the state of a flow; "again" is
\* the reply that asks for it once more, "refused" every other end of a send.
Quiet == [flow |-> "none", to |-> None, mid |-> None,
          picked |-> Nobody, asked |-> "none"]
Consumed(f) == [Quiet EXCEPT !.flow = f, !.asked = asked, !.picked = picked]
Delivered(f, to, mid, wanted) ==
  [flow |-> f, to |-> to, mid |-> mid, picked |-> wanted, asked |-> asked]

Convs == [start : {"none", "0"}, links : {"none", "0"},
          settings : {"none"} \cup SettingsStates]
Records == [targetUID : Contacts \cup {None}, targetCid : Cids \cup {None},
            replyTo : Msgs \cup {None}, chosenCid : MyCids \cup {None},
            anonPendingName : Texts \cup {Blank}]
Nicknames == [name : Texts \cup {Blank}, on : BOOLEAN]
Choices == [to : Contacts \cup {None}, mid : Msgs \cup {None}]
Questions == {"none", "start", "links"} \cup SettingsStates
Ends == [flow : {"reply", "again", "refused"} \cup Questions,
         to : Contacts \cup {None}, mid : Msgs \cup {None},
         picked : Choices, asked : Questions]

TypeOK ==
  /\ conv \in Convs
  /\ ud \in Records
  /\ nick \in Nicknames
  /\ owner \in [Cids -> Contacts \cup {None}]
  /\ blockers \subseteq Contacts
  /\ picked \in Choices
  /\ asked \in Questions
  /\ last \in Ends
  /\ typed \in Texts \cup {Blank}
  /\ wiped \in BOOLEAN

Init ==
  /\ conv = Idle
  /\ ud = Cleared
  /\ nick = NoNickname
  /\ owner \in [Cids -> Contacts]
  /\ blockers = {}
  /\ picked = Nobody
  /\ asked = "none"
  /\ last = Quiet
  /\ typed = Blank
  /\ wiped = FALSE

-----------------------------------------------------------------------------
(* The start conversation: connecting to somebody, and composing.          *)

EndComposing == conv' = [conv EXCEPT !.start = "none"]

\* /start <cid>: the target is stored before the prompt is sent, and the other
\* conversations are left as they are.
StartConnect(c) ==
  /\ UNCHANGED rows
  /\ last' = Quiet
  /\ \/ \* nobody has the link, its owner blocked the user, or is banned
        EndComposing /\ picked' = Nobody /\ UNCHANGED <<ud, asked>>
     \/ /\ owner[c] \notin blockers \cup {None}
        /\ ud' = [ud EXCEPT !.targetCid = c, !.targetUID = owner[c], !.replyTo = None]
        /\ picked' = [to |-> owner[c], mid |-> None]
        /\ \/ conv' = [conv EXCEPT !.start = "0"] /\ asked' = "start"
           \/ UNCHANGED <<conv, asked>>          \* the prompt could not be sent

\* The answer button: every other conversation is dropped first.  The link a
\* previous /start stored stays in the record.
Answer(m) ==
  /\ UNCHANGED rows
  /\ last' = Quiet
  /\ \/ conv' = Idle /\ picked' = Nobody /\ UNCHANGED <<ud, asked>>
     \/ /\ Sender[m] \notin blockers
        /\ ud' = [ud EXCEPT !.targetUID = Sender[m], !.replyTo = m]
        /\ \/ /\ conv' = [Idle EXCEPT !.start = "0"]
              /\ picked' = [to |-> Sender[m], mid |-> m]
              /\ asked' = "start"
           \/ conv' = Idle /\ picked' = Nobody /\ UNCHANGED asked

\* /start alone, /start UNBLOCK-.., the seen and report buttons: they end the
\* composing and leave the record alone.
EndByButton ==
  /\ conv.start = "0"
  /\ EndComposing
  /\ picked' = Nobody
  /\ last' = Quiet
  /\ UNCHANGED <<ud, asked, rows>>

\* The cancel button, /cancel and any other command while composing: the record
\* is cleared first, then the user is told; the state ends only if they were.
CancelComposing ==
  /\ conv.start = "0"
  /\ ud' = Cleared
  /\ EndComposing \/ UNCHANGED conv
  /\ picked' = Nobody
  /\ last' = Quiet
  /\ UNCHANGED <<asked, rows>>

\* sendMsgCore's checks, on the record as it was before it is cleared: there is
\* a target, the link still resolves to somebody, the message does not reply to
\* another delivered message, and the target has not blocked the user.
Admitted(r) ==
  /\ ud.targetUID # None
  /\ ud.targetCid # None => owner[ud.targetCid] # None
  /\ ud.replyTo # None /\ r # None => Sender[r] = ud.targetUID /\ r = ud.replyTo
  /\ ud.targetUID \notin blockers

\* Mutant: the record is left for the end.
SendClearsNothing == UNCHANGED ud

\* sendMsgCore clears the record before it sends anything.
SendClears == ud' = Cleared

\* A message while composing, a reply to r or (r = None) to no delivered message.
\* It is delivered or not, and the state ends or, after an error or a rejection
\* worth another try, stays.
Compose(r) ==
  /\ conv.start = "0"
  /\ SendClears
  /\ picked' = Nobody
  /\ \/ \* rate limited, expired, refused by a check or by Telegram for good
        EndComposing /\ last' = Consumed("refused")
     \/ \* an error before or while the message is copied
        UNCHANGED conv /\ last' = Consumed("refused")
     \/ \* Telegram rejects the copy and the user is to send it again (del0)
        Admitted(r) /\ UNCHANGED conv /\ last' = Consumed("again")
     \/ \* copied; what follows (preview, warning, tags) may fail
        /\ Admitted(r)
        /\ last' = Delivered("start", ud.targetUID, ud.replyTo, picked)
        /\ EndComposing \/ UNCHANGED conv
  /\ UNCHANGED <<asked, rows>>

\* The catch-all: no conversation wants the message, which replies to a delivered
\* one (isAnswer) or to a channel post that carries a link (isReplyToChannel).
\* The target is stored, sent to and cleared in one handler, whatever happens.
Autoreply(to, mid) ==
  /\ conv = Idle
  /\ SendClears
  /\ picked' = Nobody
  /\ \/ last' = Consumed("refused")
     \/ to \notin blockers /\ last' = Delivered("reply", to, mid, [to |-> to, mid |-> mid])
  /\ UNCHANGED <<conv, asked, rows>>

AutoreplyToMessage(m) == Autoreply(Sender[m], m)
AutoreplyToChannel(c) == owner[c] # None /\ Autoreply(owner[c], None)

-----------------------------------------------------------------------------
(* The settings conversation.                                              *)

\* change-name, custom-tag, audio-tag, anon-name-set: entry points only, so a
\* button of a page shown earlier does nothing while another one is pending.
SettingsPrompt(k) ==
  /\ conv.settings = "none"
  /\ conv' = [conv EXCEPT !.settings = k]
  /\ asked' = k
  /\ last' = Quiet
  /\ UNCHANGED <<ud, picked, rows>>

\* A plain text reaches the settings only past the two conversations registered
\* before it.
SettingsText(k) ==
  /\ conv.start = "none"
  /\ conv.links = "none"
  /\ conv.settings = k
  /\ last' = Consumed(k)

EndSettings == conv' = [conv EXCEPT !.settings = "none"]

\* updateName, updateCustomTag, updateAudioTag: the text is saved and the state
\* ends, unless it is too long or something fails.
UpdateText(k) ==
  /\ SettingsText(k)
  /\ EndSettings \/ UNCHANGED conv
  /\ UNCHANGED <<ud, rows, picked, asked>>

\* The remove buttons of the two tag prompts.
RemoveTag ==
  /\ conv.settings \in {"1", "2"}
  /\ EndSettings
  /\ last' = Quiet
  /\ UNCHANGED <<ud, rows, picked, asked>>

\* Mutant: a name staged by an earlier, abandoned flow is kept.
KeepsStaged(t) ==
  IF ud.anonPendingName = Blank THEN [ud EXCEPT !.anonPendingName = t] ELSE ud

\* The nickname is staged in the record until the emoji is known.
Staged(t) == [ud EXCEPT !.anonPendingName = t]

UpdateAnonName(t) ==
  /\ SettingsText("3")
  /\ \/ /\ ud' = Staged(t)
        /\ typed' = t
        /\ \/ conv' = [conv EXCEPT !.settings = "4"] /\ asked' = "4"
           \/ UNCHANGED <<conv, asked>>
     \/ UNCHANGED <<ud, conv, asked, typed>>    \* too long
  /\ UNCHANGED <<nick, owner, blockers, picked>>

\* Name, emoji and switch are three statements; any of them may be the last one.
StagedNickname == ud.anonPendingName

FinishAnon ==
  /\ \/ nick' = [nick EXCEPT !.name = StagedNickname] /\ UNCHANGED <<conv, ud>>
     \/ /\ nick' = [name |-> StagedNickname, on |-> TRUE]
        /\ ud' = Cleared
        /\ EndSettings \/ UNCHANGED conv
     \/ UNCHANGED <<nick, conv, ud>>            \* the emoji is too long
  /\ UNCHANGED <<owner, blockers, picked, asked, typed>>

UpdateAnonEmoji == SettingsText("4") /\ FinishAnon
AnonSkipEmoji == conv.settings = "4" /\ last' = Quiet /\ FinishAnon

RemoveAnonName ==
  /\ conv.settings = "none"
  /\ nick' \in {[nick EXCEPT !.name = Blank], NoNickname}
  /\ last' = Quiet
  /\ UNCHANGED <<conv, ud, owner, blockers, picked, asked, typed>>

AnonSwitch(on) ==
  /\ conv.settings = "none"
  /\ nick' = [nick EXCEPT !.on = on]
  /\ last' = Quiet
  /\ UNCHANGED <<conv, ud, owner, blockers, picked, asked, typed>>

-----------------------------------------------------------------------------
(* The my_links conversation: what it does to the table of links is in     *)
(* module Links; here it is a flow that waits for a text.                  *)

ChangeLink(c) ==
  /\ conv.links = "none"
  /\ ud' = [ud EXCEPT !.chosenCid = c]
  /\ conv' = [conv EXCEPT !.links = "0"]
  /\ asked' = "links"
  /\ last' = Quiet
  /\ UNCHANGED <<rows, picked>>

\* An invalid or taken id is asked for again; a lost choice ends the flow.
UpdateCid ==
  /\ conv.start = "none"
  /\ conv.links = "0"
  /\ last' = Consumed("links")
  /\ \/ conv' = [conv EXCEPT !.links = "none"]
     \/ ud.chosenCid # None /\ UNCHANGED conv
  /\ UNCHANGED <<ud, rows, picked, asked>>

-----------------------------------------------------------------------------
(* What ends several flows at once.                                        *)

\* settingsCmd, myLinksCmd, menuCmd and menuCallback: whoever opens a panel
\* drops every pending conversation, and keeps the record.
OpenPanel ==
  /\ conv' = Idle
  /\ picked' = Nobody
  /\ asked' = "none"
  /\ last' = Quiet
  /\ UNCHANGED <<ud, rows>>

\* A command, or a message that is no text, in the my_links or settings flow:
\* the first conversation in a state takes it, clears the record of all three
\* and ends itself.
CancelFlow ==
  /\ conv.start = "none"
  /\ conv.links # "none" \/ conv.settings # "none"
  /\ ud' = Cleared
  /\ \/ conv.links # "none" /\ conv' = [conv EXCEPT !.links = "none"]
     \/ conv.links = "none" /\ conv' = [conv EXCEPT !.settings = "none"]
     \/ UNCHANGED conv
  /\ last' = Quiet
  /\ UNCHANGED <<rows, picked, asked>>

\* userStore.sweep: idle for two hours and no handler holds the record.
Evict ==
  /\ ud' = Cleared
  /\ UNCHANGED <<conv, rows, picked, asked, last>>

Restart ==
  /\ conv' = Idle
  /\ ud' = Cleared
  /\ picked' = Nobody
  /\ last' = Quiet
  /\ UNCHANGED <<rows, asked>>

\* What the contacts do meanwhile: block, unblock, rename or remove a link, or
\* take an id that became free.
ContactBlocks(c) ==
  /\ blockers' = IF c \in blockers THEN blockers \ {c} ELSE blockers \cup {c}
  /\ UNCHANGED <<conv, ud, nick, owner, picked, asked, last, typed>>

LinkMoves(c, o) ==
  /\ owner[c] = None \/ o = None
  /\ owner' = [owner EXCEPT ![c] = o]
  /\ UNCHANGED <<conv, ud, nick, blockers, picked, asked, last, typed>>

-----------------------------------------------------------------------------
Step ==
  \/ \E c \in Cids : StartConnect(c) \/ AutoreplyToChannel(c)
  \/ \E m \in Msgs : Answer(m) \/ AutoreplyToMessage(m)
  \/ \E r \in Msgs \cup {None} : Compose(r)
  \/ EndByButton \/ CancelComposing
  \/ \E k \in {"0", "1", "2", "3"} : SettingsPrompt(k)
  \/ \E k \in {"0", "1", "2"} : UpdateText(k)
  \/ \E t \in Texts : UpdateAnonName(t)
  \/ RemoveTag \/ UpdateAnonEmoji \/ AnonSkipEmoji \/ RemoveAnonName
  \/ \E on \in BOOLEAN : AnonSwitch(on)
  \/ \E c \in MyCids : ChangeLink(c)
  \/ UpdateCid \/ OpenPanel \/ CancelFlow \/ Evict \/ Restart
  \/ \E c \in Contacts : ContactBlocks(c)
  \/ \E c \in Cids, o \in Contacts \cup {None} : LinkMoves(c, o)

\* Keeps the history variable wiped.
NoteWipe ==
  wiped' = ( /\ conv.settings = "4" /\ conv'.settings = "4"
             /\ wiped \/ ud' = Cleared )

Next == Step /\ NoteWipe

Spec == Init /\ [][Next]_vars
-----------------------------------------------------------------------------
(* Safety.                                                                 *)

\* Whatever is delivered goes to the contact the user chose last, as a reply to
\* the message they chose, and one choice is good for one delivery: no cancelled,
\* evicted, refused or already sent choice comes back (sendmsg.go clears the
\* record before anything is sent, and start, answer and the catch-all set it).
OnlyToThePickedContact ==
  last.to # None => [to |-> last.to, mid |-> last.mid] = last.picked

\* The signature goes on the wire with every message, and nobody proof-reads it:
\* it changes only to the nickname typed for it last, never to one staged by a
\* flow that was abandoned (settings.go:464 calls such a value inert), and becomes
\* blank only by the remove button, or because another flow or an eviction cleared
\* the record while the emoji was awaited (settings.go:519 reads it all the same).
NicknameIsTheTypedOne ==
  [][\/ nick'.name \in {nick.name, typed}
     \/ nick'.name = Blank /\ (wiped \/ conv.settings = "none")]_vars

\* The text the user types answers the question they were asked last.  Claimed by
\* handlers.go:341-345 ("Whoever begins a new flow now clears the others first"),
\* but the settings prompts, ch-link and /start <cid> clear nothing.
TypedTextAnswersLastQuestion ==
  last.flow \in {"start", "links"} \cup SettingsStates => last.flow = last.asked
=============================================================================
