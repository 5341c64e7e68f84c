----------------------------- MODULE RecordProof -----------------------------
(***************************************************************************)
(* What one user's record leads to: the theorems of modules Flows and      *)
(* Album.                                                                  *)
(*                                                                         *)
(* Flows: its states are well typed, and nothing is delivered but to the   *)
(* contact, and as a reply to the message, the user chose last, whatever   *)
(* the other two conversations, an eviction or a restart do to the record  *)
(* in between.                                                             *)
(*                                                                         *)
(* Album: sorting the items gives each of them once and in order, by       *)
(* induction over sets of items; so an album arrives whole and in order,   *)
(* no item is seen twice, and the delete buttons reach all of it.          *)
(***************************************************************************)
EXTENDS Flows, Album, FiniteSetTheorems, TLAPS

-----------------------------------------------------------------------------
(* Flows.                                                                  *)


\* What makes the delivery property inductive: while the start conversation is
\* composing to somebody, that is the last choice.
ComposingToThePicked ==
  conv.start = "0" /\ ud.targetUID # None =>
    picked = [to |-> ud.targetUID, mid |-> ud.replyTo]

IInv == TypeOK /\ OnlyToThePickedContact /\ ComposingToThePicked

\* The constants of the model are of the types of the variables.
LEMMA Values ==
  /\ Idle \in Convs /\ [Idle EXCEPT !.start = "0"] \in Convs
  /\ Cleared \in Records
  /\ NoNickname \in Nicknames
  /\ Nobody \in Choices
  /\ Quiet \in Ends
<1>1. Idle \in Convs /\ [Idle EXCEPT !.start = "0"] \in Convs
  BY DEF Idle, Convs
<1>2. Cleared \in Records
  BY DEF Cleared, Records
<1>3. NoNickname \in Nicknames
  BY DEF NoNickname, Nicknames
<1>4. Nobody \in Choices
  BY DEF Nobody, Choices
<1>5. Quiet \in Ends
  BY <1>4 DEF Quiet, Ends, Questions
<1> QED
  BY <1>1, <1>2, <1>3, <1>4, <1>5

\* So is what a text leaves behind.
LEMMA EndsOfTexts ==
  ASSUME TypeOK
  PROVE  /\ \A f \in {"reply", "again", "refused"} \cup Questions : Consumed(f) \in Ends
         /\ \A f \in {"start", "reply"}, to \in Contacts \cup {None},
               mid \in Msgs \cup {None}, w \in Choices : Delivered(f, to, mid, w) \in Ends
<1>1. picked \in Choices /\ asked \in Questions
  BY DEF TypeOK
<1>2. ASSUME NEW f \in {"reply", "again", "refused"} \cup Questions
      PROVE  Consumed(f) \in Ends
  BY <1>1 DEF Consumed, Quiet, Ends
<1>3. ASSUME NEW f \in {"start", "reply"}, NEW to \in Contacts \cup {None},
             NEW mid \in Msgs \cup {None}, NEW w \in Choices
      PROVE  Delivered(f, to, mid, w) \in Ends
  BY <1>1 DEF Delivered, Ends, Questions
<1> QED
  BY <1>2, <1>3

LEMMA TypeInit == Init => TypeOK
<1> SUFFICES ASSUME Init PROVE TypeOK
  OBVIOUS
<1>1. owner \in [Cids -> Contacts \cup {None}]
  BY DEF Init
<1> QED
  BY <1>1, Values DEF Init, TypeOK, Questions

\* Ending a state, and reading the record, stays within the types.
LEMMA Parts ==
  ASSUME TypeOK
  PROVE  /\ \A s \in {"none", "0"} : [conv EXCEPT !.start = s] \in Convs
         /\ \A s \in {"none", "0"} : [conv EXCEPT !.links = s] \in Convs
         /\ \A s \in {"none"} \cup SettingsStates : [conv EXCEPT !.settings = s] \in Convs
         /\ ud.targetUID \in Contacts \cup {None}
         /\ ud.replyTo \in Msgs \cup {None}
         /\ ud.anonPendingName \in Texts \cup {Blank}
         /\ \A b \in BOOLEAN : [nick EXCEPT !.on = b] \in Nicknames
         /\ \A t \in Texts \cup {Blank} : [nick EXCEPT !.name = t] \in Nicknames
<1>1. /\ \A s \in {"none", "0"} : [conv EXCEPT !.start = s] \in Convs
      /\ \A s \in {"none", "0"} : [conv EXCEPT !.links = s] \in Convs
      /\ \A s \in {"none"} \cup SettingsStates : [conv EXCEPT !.settings = s] \in Convs
  BY DEF TypeOK, Convs
<1>2. /\ ud.targetUID \in Contacts \cup {None}
      /\ ud.replyTo \in Msgs \cup {None}
      /\ ud.anonPendingName \in Texts \cup {Blank}
  BY DEF TypeOK, Records
<1>3. /\ \A b \in BOOLEAN : [nick EXCEPT !.on = b] \in Nicknames
      /\ \A t \in Texts \cup {Blank} : [nick EXCEPT !.name = t] \in Nicknames
  BY DEF TypeOK, Nicknames
<1> QED
  BY <1>1, <1>2, <1>3

\* One step keeps the types; one case for each kind of action.
LEMMA TypeStep == TypeOK /\ [Next]_vars => TypeOK'
<1> SUFFICES ASSUME TypeOK, [Next]_vars PROVE TypeOK'
  OBVIOUS
<1>0. wiped' \in BOOLEAN
  BY DEF TypeOK, Next, NoteWipe, vars
<1> USE <1>0, Values, Parts, EndsOfTexts DEF TypeOK, rows
<1>1. CASE UNCHANGED vars
  BY <1>1 DEF vars
<1>2. ASSUME NEW c \in Cids, StartConnect(c) PROVE TypeOK'
  <2>1. CASE EndComposing /\ picked' = Nobody /\ UNCHANGED <<ud, asked>>
    BY <1>2, <2>1 DEF StartConnect, EndComposing
  <2>2. CASE /\ owner[c] \notin blockers \cup {None}
             /\ ud' = [ud EXCEPT !.targetCid = c, !.targetUID = owner[c], !.replyTo = None]
             /\ picked' = [to |-> owner[c], mid |-> None]
    <3>1. owner[c] \in Contacts
      BY <2>2
    <3>2. ud' \in Records /\ picked' \in Choices
      BY <2>2, <3>1 DEF Records, Choices
    <3>3. conv' \in Convs /\ asked' \in Questions
      BY <1>2, <2>2 DEF StartConnect, EndComposing, Questions, Nobody
    <3> QED
      BY <1>2, <3>2, <3>3 DEF StartConnect
  <2> QED
    BY <1>2, <2>1, <2>2 DEF StartConnect
<1>3. ASSUME NEW m \in Msgs, Answer(m) PROVE TypeOK'
  <2>1. Sender[m] \in Contacts
    BY FlowsAssumption
  <2>2. [ud EXCEPT !.targetUID = Sender[m], !.replyTo = m] \in Records
    BY <2>1 DEF Records
  <2>3. [to |-> Sender[m], mid |-> m] \in Choices
    BY <2>1 DEF Choices
  <2> QED
    BY <1>3, <2>2, <2>3 DEF Answer, Questions
<1>4. ASSUME NEW r \in Msgs \cup {None}, Compose(r) PROVE TypeOK'
  BY <1>4 DEF Compose, SendClears, EndComposing
<1>5. ASSUME NEW to \in Contacts, NEW mid \in Msgs \cup {None}, Autoreply(to, mid)
      PROVE TypeOK'
  <2>1. [to |-> to, mid |-> mid] \in Choices
    BY DEF Choices
  <2>2. ud' \in Records /\ picked' \in Choices
    BY <1>5 DEF Autoreply, SendClears
  <2>3. last' \in Ends
    BY <1>5, <2>1 DEF Autoreply
  <2> QED
    BY <1>5, <2>2, <2>3 DEF Autoreply
<1>6. ASSUME NEW m \in Msgs, AutoreplyToMessage(m) PROVE TypeOK'
  <2>1. Sender[m] \in Contacts
    BY FlowsAssumption
  <2> QED
    BY <1>5, <1>6, <2>1 DEF AutoreplyToMessage
<1>7. ASSUME NEW c \in Cids, AutoreplyToChannel(c) PROVE TypeOK'
  <2>1. owner[c] \in Contacts
    BY <1>7 DEF AutoreplyToChannel
  <2> QED
    BY <1>5, <1>7, <2>1 DEF AutoreplyToChannel
<1>8. CASE EndByButton \/ CancelComposing
  BY <1>8 DEF EndByButton, CancelComposing, EndComposing
<1>9. ASSUME NEW k \in {"0", "1", "2", "3"}, SettingsPrompt(k) PROVE TypeOK'
  BY <1>9 DEF SettingsPrompt, SettingsStates, Questions
<1>10. ASSUME NEW k \in {"0", "1", "2"}, UpdateText(k) PROVE TypeOK'
  BY <1>10 DEF UpdateText, SettingsText, EndSettings, Questions, SettingsStates
<1>11. ASSUME NEW t \in Texts, UpdateAnonName(t) PROVE TypeOK'
  <2>1. [ud EXCEPT !.anonPendingName = t] \in Records
    BY DEF Records
  <2> QED
    BY <1>11, <2>1 DEF UpdateAnonName, Staged, SettingsText, Questions, SettingsStates
<1>12. ASSUME FinishAnon, last' \in Ends PROVE TypeOK'
  <2>1. [name |-> ud.anonPendingName, on |-> TRUE] \in Nicknames
    BY DEF Nicknames
  <2> QED
    BY <1>12, <2>1 DEF FinishAnon, StagedNickname, EndSettings
<1>13. CASE RemoveTag \/ UpdateAnonEmoji \/ AnonSkipEmoji
  BY <1>12, <1>13 DEF RemoveTag, UpdateAnonEmoji, AnonSkipEmoji, SettingsText,
       EndSettings, Questions, SettingsStates
<1>new. CASE RemoveAnonName
  BY <1>new DEF RemoveAnonName
<1>15. ASSUME NEW on \in BOOLEAN, AnonSwitch(on) PROVE TypeOK'
  BY <1>15 DEF AnonSwitch
<1>16. ASSUME NEW c \in MyCids, ChangeLink(c) PROVE TypeOK'
  <2>1. [ud EXCEPT !.chosenCid = c] \in Records
    BY DEF Records
  <2> QED
    BY <1>16, <2>1 DEF ChangeLink, Questions
<1>17. CASE UpdateCid \/ OpenPanel \/ CancelFlow \/ Evict \/ Restart
  BY <1>17 DEF UpdateCid, OpenPanel, CancelFlow, Evict, Restart, Questions
<1>18. ASSUME NEW c \in Contacts, ContactBlocks(c) PROVE TypeOK'
  BY <1>18 DEF ContactBlocks
<1>19. ASSUME NEW c \in Cids, NEW o \in Contacts \cup {None}, LinkMoves(c, o) PROVE TypeOK'
  BY <1>19 DEF LinkMoves
<1> QED
  BY <1>1, <1>2, <1>3, <1>4, <1>6, <1>7, <1>8, <1>9, <1>10, <1>11, <1>13, <1>new,
     <1>15, <1>16, <1>17, <1>18, <1>19 DEF Next, Step

\* Type correctness: every state of the conversations, the record, the row and
\* the history variables is well typed.
THEOREM TypeCorrect == Spec => []TypeOK
<1> QED
  BY TypeInit, TypeStep, PTL DEF Spec
\* A step from a state of the invariant: only a message while composing, or a
\* reply the catch-all takes, delivers; only a new choice arms the record.
LEMMA ChoiceStep == IInv /\ [Next]_vars => (OnlyToThePickedContact /\ ComposingToThePicked)'
<1> SUFFICES ASSUME IInv, [Next]_vars PROVE (OnlyToThePickedContact /\ ComposingToThePicked)'
  OBVIOUS
<1> USE DEF IInv, OnlyToThePickedContact, ComposingToThePicked
<1>0. conv \in Convs /\ ud \in Records
  BY DEF TypeOK
<1>1. CASE UNCHANGED vars
  BY <1>1 DEF vars
<1>2. ASSUME NEW c \in Cids, StartConnect(c) PROVE (OnlyToThePickedContact /\ ComposingToThePicked)'
  <2>1. last'.to = None
    BY <1>2 DEF StartConnect, Quiet
  <2>2. CASE EndComposing
    <3>1. conv'.start = "none"
      BY <1>0, <2>2 DEF EndComposing, Convs
    <3> QED
      BY <2>1, <3>1
  <2>3. CASE /\ ud' = [ud EXCEPT !.targetCid = c, !.targetUID = owner[c], !.replyTo = None]
             /\ picked' = [to |-> owner[c], mid |-> None]
    <3>1. ud'.targetUID = owner[c] /\ ud'.replyTo = None
      BY <1>0, <2>3 DEF Records
    <3> QED
      BY <2>1, <2>3, <3>1
  <2> QED
    BY <1>2, <2>2, <2>3 DEF StartConnect
<1>3. ASSUME NEW m \in Msgs, Answer(m) PROVE (OnlyToThePickedContact /\ ComposingToThePicked)'
  <2>1. last'.to = None
    BY <1>3 DEF Answer, Quiet
  <2>2. CASE conv' = Idle
    BY <2>1, <2>2 DEF Idle
  <2>3. CASE /\ ud' = [ud EXCEPT !.targetUID = Sender[m], !.replyTo = m]
             /\ picked' = [to |-> Sender[m], mid |-> m]
    <3>1. ud'.targetUID = Sender[m] /\ ud'.replyTo = m
      BY <1>0, <2>3 DEF Records
    <3> QED
      BY <2>1, <2>3, <3>1
  <2> QED
    BY <1>3, <2>2, <2>3 DEF Answer
<1>4. ASSUME NEW r \in Msgs \cup {None}, Compose(r) PROVE (OnlyToThePickedContact /\ ComposingToThePicked)'
  <2>1. ud'.targetUID = None
    BY <1>4 DEF Compose, SendClears, Cleared
  <2>2. CASE \E f \in {"again", "refused"} : last' = Consumed(f)
    BY <2>1, <2>2 DEF Consumed, Quiet
  <2>3. CASE Admitted(r) /\ last' = Delivered("start", ud.targetUID, ud.replyTo, picked)
    <3>1. conv.start = "0" /\ ud.targetUID # None
      BY <1>4, <2>3 DEF Compose, Admitted
    <3>2. picked = [to |-> ud.targetUID, mid |-> ud.replyTo]
      BY <3>1
    <3> QED
      BY <2>1, <2>3, <3>2 DEF Delivered
  <2> QED
    BY <1>4, <2>2, <2>3 DEF Compose
<1>5. ASSUME NEW to, NEW mid, Autoreply(to, mid)
      PROVE (OnlyToThePickedContact /\ ComposingToThePicked)'
  <2>1. ud'.targetUID = None
    BY <1>5 DEF Autoreply, SendClears, Cleared
  <2>2. CASE last' = Consumed("refused")
    BY <2>1, <2>2 DEF Consumed, Quiet
  <2>3. CASE last' = Delivered("reply", to, mid, [to |-> to, mid |-> mid])
    BY <2>1, <2>3 DEF Delivered
  <2> QED
    BY <1>5, <2>2, <2>3 DEF Autoreply
<1>6. ASSUME NEW m \in Msgs, AutoreplyToMessage(m) PROVE (OnlyToThePickedContact /\ ComposingToThePicked)'
  BY <1>5, <1>6 DEF AutoreplyToMessage
<1>7. ASSUME NEW c \in Cids, AutoreplyToChannel(c) PROVE (OnlyToThePickedContact /\ ComposingToThePicked)'
  BY <1>5, <1>7 DEF AutoreplyToChannel
<1>8. CASE EndByButton \/ CancelComposing
  <2>1. last'.to = None
    BY <1>8 DEF EndByButton, CancelComposing, Quiet
  <2>2. CASE EndByButton
    <3>1. conv'.start = "none"
      BY <1>0, <2>2 DEF EndByButton, EndComposing, Convs
    <3> QED
      BY <2>1, <3>1
  <2>3. CASE CancelComposing
    BY <2>1, <2>3 DEF CancelComposing, Cleared
  <2> QED
    BY <1>8, <2>2, <2>3
<1>9. ASSUME /\ last'.to = None \/ last' = last
             /\ ud'.targetUID = None
                  \/ /\ ud'.targetUID = ud.targetUID /\ ud'.replyTo = ud.replyTo
                     /\ picked' = picked
                     /\ conv'.start = conv.start
                  \/ conv'.start = "none"
      PROVE (OnlyToThePickedContact /\ ComposingToThePicked)'
  BY <1>9
<1>10. ASSUME NEW k \in {"0", "1", "2", "3"}, SettingsPrompt(k) PROVE (OnlyToThePickedContact /\ ComposingToThePicked)'
  BY <1>0, <1>9, <1>10 DEF SettingsPrompt, Quiet, Convs
<1>11. ASSUME NEW k \in {"0", "1", "2"}, UpdateText(k) PROVE (OnlyToThePickedContact /\ ComposingToThePicked)'
  BY <1>0, <1>9, <1>11 DEF UpdateText, SettingsText, EndSettings, Consumed, Quiet, Convs
<1>12. ASSUME NEW t \in Texts, UpdateAnonName(t) PROVE (OnlyToThePickedContact /\ ComposingToThePicked)'
  BY <1>0, <1>9, <1>12 DEF UpdateAnonName, Staged, SettingsText, Consumed, Quiet, Convs, Records
<1>13. CASE RemoveTag \/ UpdateAnonEmoji \/ AnonSkipEmoji
  <2>1. last'.to = None
    <3>1. last' = Quiet \/ last' = Consumed("4")
      BY <1>13 DEF RemoveTag, UpdateAnonEmoji, AnonSkipEmoji, SettingsText
    <3>2. Quiet.to = None /\ Consumed("4").to = None
      BY DEF Consumed, Quiet
    <3> QED
      BY <3>1, <3>2
  <2>2. conv'.start = conv.start /\ picked' = picked
    BY <1>0, <1>13 DEF RemoveTag, UpdateAnonEmoji, AnonSkipEmoji, FinishAnon, EndSettings, Convs
  <2>3. ud' = ud \/ ud' = Cleared
    BY <1>13 DEF RemoveTag, UpdateAnonEmoji, AnonSkipEmoji, FinishAnon
  <2> QED
    BY <1>9, <2>1, <2>2, <2>3 DEF Cleared
<1>new. CASE RemoveAnonName \/ \E on \in BOOLEAN : AnonSwitch(on)
  BY <1>9, <1>new DEF RemoveAnonName, AnonSwitch, Quiet
<1>15. ASSUME NEW c \in MyCids, ChangeLink(c) PROVE (OnlyToThePickedContact /\ ComposingToThePicked)'
  BY <1>0, <1>9, <1>15 DEF ChangeLink, Quiet, Convs, Records
<1>16. CASE UpdateCid
  BY <1>0, <1>9, <1>16 DEF UpdateCid, Consumed, Quiet, Convs
<1>17. CASE OpenPanel \/ Restart
  BY <1>9, <1>17 DEF OpenPanel, Restart, Idle, Quiet
<1>18. CASE CancelFlow \/ Evict
  BY <1>9, <1>18 DEF CancelFlow, Evict, Cleared, Quiet
<1>19. ASSUME NEW c \in Contacts, ContactBlocks(c) PROVE (OnlyToThePickedContact /\ ComposingToThePicked)'
  BY <1>19 DEF ContactBlocks
<1>20. ASSUME NEW c \in Cids, NEW o \in Contacts \cup {None}, LinkMoves(c, o)
       PROVE (OnlyToThePickedContact /\ ComposingToThePicked)'
  BY <1>20 DEF LinkMoves
<1> QED
  BY <1>1, <1>2, <1>3, <1>4, <1>6, <1>7, <1>8, <1>10, <1>11, <1>12, <1>13, <1>new,
     <1>15, <1>16, <1>17, <1>18, <1>19, <1>20 DEF Next, Step

\* What makes the property of the nickname inductive: while its emoji is awaited,
\* the record holds what was typed, or nothing since it was cleared.
StagedIsTyped ==
  conv.settings = "4" =>
    ud.anonPendingName = typed \/ (wiped /\ ud.anonPendingName = Blank)

\* Only the settings conversation awaits an emoji, and only a text or the clearing
\* of the record touches what is staged.
LEMMA StagingStep == TypeOK /\ StagedIsTyped /\ [Next]_vars => StagedIsTyped'
<1> SUFFICES ASSUME TypeOK, StagedIsTyped, [Next]_vars PROVE StagedIsTyped'
  OBVIOUS
<1> USE DEF StagedIsTyped
<1>0. conv \in Convs /\ ud \in Records
  BY DEF TypeOK
<1>1. CASE UNCHANGED vars
  BY <1>1 DEF vars
<1>2. ASSUME NoteWipe, typed' = typed, conv'.settings = "4" => conv.settings = "4",
             ud'.anonPendingName = ud.anonPendingName \/ ud' = Cleared
      PROVE  StagedIsTyped'
  <2> SUFFICES ASSUME conv'.settings = "4"
               PROVE  ud'.anonPendingName = typed'
                        \/ (wiped' /\ ud'.anonPendingName = Blank)
    OBVIOUS
  <2>1. CASE ud' = Cleared
    BY <1>2, <2>1 DEF NoteWipe, Cleared
  <2>2. CASE ud'.anonPendingName = ud.anonPendingName
    BY <1>2, <2>2 DEF NoteWipe
  <2> QED
    BY <1>2, <2>1, <2>2
<1>3. ASSUME NoteWipe, NEW t \in Texts, UpdateAnonName(t) PROVE StagedIsTyped'
  <2>1. CASE ud' = Staged(t) /\ typed' = t
    BY <1>0, <2>1 DEF Staged, Records
  <2>2. CASE UNCHANGED <<ud, conv, asked, typed>>
    BY <1>2, <1>3, <2>2
  <2> QED
    BY <1>3, <2>1, <2>2 DEF UpdateAnonName
<1> USE <1>0, <1>2 DEF rows, Convs, Idle
<1>4. ASSUME NoteWipe, NEW c \in Cids, StartConnect(c) PROVE StagedIsTyped'
  BY <1>4 DEF StartConnect, EndComposing, Records
<1>5. ASSUME NoteWipe, NEW m \in Msgs, Answer(m) PROVE StagedIsTyped'
  BY <1>5 DEF Answer, Records
<1>6. ASSUME NoteWipe, NEW r \in Msgs \cup {None}, Compose(r) PROVE StagedIsTyped'
  BY <1>6 DEF Compose, SendClears, EndComposing
<1>7. ASSUME NoteWipe, NEW to, NEW mid, Autoreply(to, mid) PROVE StagedIsTyped'
  BY <1>7 DEF Autoreply, SendClears
<1>8. ASSUME NoteWipe, (\E m \in Msgs : AutoreplyToMessage(m)) \/ \E c \in Cids : AutoreplyToChannel(c)
      PROVE  StagedIsTyped'
  BY <1>7, <1>8 DEF AutoreplyToMessage, AutoreplyToChannel
<1>9. ASSUME NoteWipe, EndByButton \/ CancelComposing PROVE StagedIsTyped'
  BY <1>9 DEF EndByButton, CancelComposing, EndComposing
<1>10. ASSUME NoteWipe, NEW k \in {"0", "1", "2", "3"}, SettingsPrompt(k) PROVE StagedIsTyped'
  BY <1>10 DEF SettingsPrompt
<1>11. ASSUME NoteWipe, NEW k \in {"0", "1", "2"}, UpdateText(k) PROVE StagedIsTyped'
  BY <1>11 DEF UpdateText, SettingsText, EndSettings
<1>12. ASSUME NoteWipe, RemoveTag \/ UpdateAnonEmoji \/ AnonSkipEmoji PROVE StagedIsTyped'
  BY <1>12 DEF RemoveTag, UpdateAnonEmoji, AnonSkipEmoji, FinishAnon, EndSettings
<1>13. ASSUME NoteWipe, RemoveAnonName \/ \E on \in BOOLEAN : AnonSwitch(on) PROVE StagedIsTyped'
  BY <1>13 DEF RemoveAnonName, AnonSwitch
<1>new. ASSUME NoteWipe, NEW c \in MyCids, ChangeLink(c) PROVE StagedIsTyped'
  BY <1>new DEF ChangeLink, Records
<1>15. ASSUME NoteWipe, UpdateCid \/ OpenPanel \/ CancelFlow PROVE StagedIsTyped'
  BY <1>15 DEF UpdateCid, OpenPanel, CancelFlow
<1>16. ASSUME NoteWipe, Evict \/ Restart PROVE StagedIsTyped'
  BY <1>16 DEF Evict, Restart
<1>17. ASSUME NoteWipe, NEW c \in Contacts, ContactBlocks(c) PROVE StagedIsTyped'
  BY <1>17 DEF ContactBlocks
<1>18. ASSUME NoteWipe, NEW c \in Cids, NEW o \in Contacts \cup {None}, LinkMoves(c, o)
       PROVE  StagedIsTyped'
  BY <1>18 DEF LinkMoves
<1> QED
  BY <1>1, <1>3, <1>4, <1>5, <1>6, <1>8, <1>9, <1>10, <1>11, <1>12, <1>13, <1>new,
     <1>15, <1>16, <1>17, <1>18 DEF Next, Step

\* What a step does to the nickname.
NicknameStep ==
  \/ nick'.name \in {nick.name, typed}
  \/ nick'.name = Blank /\ (wiped \/ conv.settings = "none")

\* Only the two ends of the emoji question, the remove button and the switch write
\* the nickname.
LEMMA WritesNickname == TypeOK /\ StagedIsTyped /\ [Next]_vars => [NicknameStep]_vars
<1> SUFFICES ASSUME TypeOK, StagedIsTyped, Next PROVE NicknameStep
  OBVIOUS
<1>0. nick \in Nicknames
  BY DEF TypeOK
<1>1. ASSUME FinishAnon, conv.settings = "4" PROVE NicknameStep
  <2>1. nick'.name \in {nick.name, ud.anonPendingName}
    BY <1>0, <1>1 DEF FinishAnon, StagedNickname, Nicknames
  <2> QED
    BY <1>1, <2>1 DEF NicknameStep, StagedIsTyped
<1>2. CASE UpdateAnonEmoji \/ AnonSkipEmoji
  BY <1>1, <1>2 DEF UpdateAnonEmoji, AnonSkipEmoji, SettingsText
<1>3. CASE RemoveAnonName
  BY <1>0, <1>3 DEF RemoveAnonName, NicknameStep, NoNickname, Nicknames
<1>4. ASSUME NEW on \in BOOLEAN, AnonSwitch(on) PROVE NicknameStep
  BY <1>0, <1>4 DEF AnonSwitch, NicknameStep, Nicknames
<1>5. CASE UNCHANGED nick
  BY <1>5 DEF NicknameStep
<1>6. CASE \/ \E c \in Cids : StartConnect(c) \/ AutoreplyToChannel(c)
           \/ \E m \in Msgs : Answer(m) \/ AutoreplyToMessage(m)
           \/ \E r \in Msgs \cup {None} : Compose(r)
           \/ EndByButton \/ CancelComposing
  BY <1>5, <1>6 DEF StartConnect, AutoreplyToChannel, AutoreplyToMessage, Autoreply, Answer,
     Compose, EndByButton, CancelComposing, rows
<1>7. CASE \/ \E k \in {"0", "1", "2", "3"} : SettingsPrompt(k)
           \/ \E k \in {"0", "1", "2"} : UpdateText(k)
           \/ \E t \in Texts : UpdateAnonName(t)
           \/ RemoveTag
  BY <1>5, <1>7 DEF SettingsPrompt, UpdateText, UpdateAnonName, RemoveTag, rows
<1>8. CASE \/ \E c \in MyCids : ChangeLink(c)
           \/ UpdateCid \/ OpenPanel \/ CancelFlow \/ Evict \/ Restart
           \/ \E c \in Contacts : ContactBlocks(c)
           \/ \E c \in Cids, o \in Contacts \cup {None} : LinkMoves(c, o)
  BY <1>5, <1>8 DEF ChangeLink, UpdateCid, OpenPanel, CancelFlow, Evict, Restart,
     ContactBlocks, LinkMoves, rows
<1> QED
  BY <1>2, <1>3, <1>4, <1>6, <1>7, <1>8 DEF Next, Step

\* The nickname changes only to what was typed for it last, and becomes blank only
\* by the remove button or because the record was cleared while its emoji was
\* awaited: a name staged by an abandoned flow is never the one that is saved.
THEOREM NicknameAsTyped == Spec => NicknameIsTheTypedOne
<1>1. Init => TypeOK /\ StagedIsTyped
  BY TypeInit DEF Init, StagedIsTyped, Idle
<1>2. TypeOK /\ StagedIsTyped /\ [Next]_vars => (TypeOK /\ StagedIsTyped)'
  BY TypeStep, StagingStep
<1>3. TypeOK /\ StagedIsTyped /\ [Next]_vars => [NicknameStep]_vars
  BY WritesNickname
<1> QED
  BY <1>1, <1>2, <1>3, PTL DEF Spec, NicknameIsTheTypedOne, NicknameStep

\* Whatever is delivered goes to the contact, and as a reply to the message, the
\* user chose last, and one choice is good for one delivery: for any number of
\* contacts, messages and links, across evictions, restarts and failing replies.
THEOREM DeliveredAsPicked == Spec => []OnlyToThePickedContact
<1>1. Init => IInv
  BY TypeInit DEF IInv, Init, OnlyToThePickedContact, ComposingToThePicked, Quiet, Idle
<1>2. IInv /\ [Next]_vars => IInv'
  BY TypeStep, ChoiceStep DEF IInv
<1>3. IInv => OnlyToThePickedContact
  BY DEF IInv
<1> QED
  BY <1>1, <1>2, <1>3, PTL DEF Spec

-----------------------------------------------------------------------------
(* Album: the order of the items.                                          *)


\* Every set of naturals has a least element.
LEMMA Least ==
  ASSUME NEW T \in SUBSET Nat, T # {}
  PROVE  \E x \in T : \A y \in T : x <= y
<1> DEFINE R == {p \in Nat \X Nat : p[1] < p[2]}
<1>1. IsWellFoundedOn(R, Nat)
  BY NatLessThanWellFounded DEF OpToRel
<1>2. PICK x \in T : \A y \in T : <<y, x>> \notin R
  <2> HIDE DEF R
  <2> QED
    BY <1>1, WFMin
<1>3. ASSUME NEW y \in T PROVE x <= y
  <2>1. <<y, x>> \in Nat \X Nat
    OBVIOUS
  <2>2. <<y, x>>[1] = y /\ <<y, x>>[2] = x
    OBVIOUS
  <2>3. ~(y < x)
    BY <1>2, <2>1, <2>2
  <2> QED
    BY <2>3
<1> QED
  BY <1>3

\* The sequence s holds the items of S in ascending order.
Enumerates(s, S) == s \in [1 .. Cardinality(S) -> S] /\ Ascending(S, s)

\* A set of items is finite.
LEMMA FiniteItems ==
  ASSUME NEW S \in SUBSET Items
  PROVE  IsFiniteSet(S) /\ Cardinality(S) \in 0 .. N
<1>1. N \in Nat /\ N \in Int /\ 1 \in Int
  BY AlbumAssumption
<1>2. IsFiniteSet(Items) /\ Cardinality(Items) = N
  BY <1>1, FS_Interval DEF Items
<1> QED
  BY <1>1, <1>2, FS_Subset, FS_CardinalityType

\* And has a greatest element.
LEMMA Greatest ==
  ASSUME NEW S \in SUBSET Items, S # {}
  PROVE  \E x \in S : \A y \in S : y <= x
<1> DEFINE T == {x \in Nat : \A y \in S : y <= x}
<1>1. N \in T
  BY AlbumAssumption DEF Items
<1>2. PICK x \in T : \A y \in T : x <= y
  <2>1. T \in SUBSET Nat /\ T # {}
    BY <1>1
  <2> HIDE DEF T
  <2> QED
    BY <2>1, Least
<1>3. x \in S
  <2> SUFFICES ASSUME x \notin S PROVE FALSE
    OBVIOUS
  <2>1. PICK y \in S : TRUE
    OBVIOUS
  <2>2. x - 1 \in Nat
    BY <2>1 DEF Items
  <2>3. \A z \in S : z <= x - 1
    BY DEF Items
  <2>4. x - 1 \in T
    BY <2>2, <2>3
  <2> QED
    BY <1>2, <2>4
<1> QED
  BY <1>3

\* Every set of items can be put in order: otherwise a smallest one that cannot would,
\* without its greatest element, which goes last.
LEMMA Enumerable == \A S \in SUBSET Items : \E s : Enumerates(s, S)
<1> DEFINE Bad == {S \in SUBSET Items : ~ \E s : Enumerates(s, S)}
<1>1. SUFFICES ASSUME Bad # {} PROVE FALSE
  OBVIOUS
<1>2. PICK S \in Bad : \A U \in Bad : U \subseteq S => U = S
  <2>1. IsFiniteSet(Items) /\ IsWellFoundedOn(StrictSubsetOrdering(Items), FiniteSubsetsOf(Items))
    BY FiniteItems, FS_StrictSubsetOrderingWellFounded
  <2>2. Bad \subseteq FiniteSubsetsOf(Items)
    BY <2>1, FS_FiniteSubsetsOfFinite
  <2>3. PICK S \in Bad : \A U \in Bad : <<U, S>> \notin StrictSubsetOrdering(Items)
    <3> HIDE DEF Bad
    <3> QED
      BY <1>1, <2>1, <2>2, WFMin
  <2>4. ASSUME NEW U \in Bad, U \subseteq S PROVE U = S
    <3>1. U \in SUBSET Items /\ S \in SUBSET Items
      OBVIOUS
    <3>2. <<U, S>> \notin StrictSubsetOrdering(Items)
      BY <2>3
    <3> HIDE DEF Bad
    <3> QED
      BY <2>4, <3>1, <3>2 DEF StrictSubsetOrdering
  <2> HIDE DEF Bad
  <2> QED
    BY <2>4
<1>3. S # {}
  <2> SUFFICES ASSUME S = {} PROVE FALSE
    OBVIOUS
  <2>1. Cardinality(S) = 0
    BY FS_EmptySet
  <2>2. Enumerates([k \in 1 .. 0 |-> 0], S)
    BY <2>1 DEF Enumerates, Ascending
  <2> QED
    BY <2>2
<1>4. PICK x \in S : \A y \in S : y <= x
  BY <1>3, Greatest
<1> DEFINE U == S \ {x}
           n == Cardinality(S)
<1>5. U \in SUBSET Items /\ U \notin Bad
  BY <1>2
<1>6. S \subseteq Nat
  BY DEF Items
<1>7. PICK s : Enumerates(s, U)
  BY <1>5
<1>8. Cardinality(U) = n - 1 /\ n \in Nat /\ n > 0
  BY <1>3, FiniteItems, FS_RemoveElement, FS_EmptySet
<1> DEFINE t == [k \in 1 .. n |-> IF k = n THEN x ELSE s[k]]
<1>9. s \in [1 .. n - 1 -> U] /\ \A j, k \in 1 .. n - 1 : j < k => s[j] < s[k]
  BY <1>7, <1>8 DEF Enumerates, Ascending
<1>10. t \in [1 .. n -> S]
  <2> SUFFICES ASSUME NEW k \in 1 .. n PROVE (IF k = n THEN x ELSE s[k]) \in S
    OBVIOUS
  <2>1. k # n => k \in 1 .. n - 1
    BY <1>8
  <2> QED
    BY <1>9, <2>1
<1>11. ASSUME NEW j \in 1 .. n, NEW k \in 1 .. n, j < k PROVE t[j] < t[k]
  <2> HIDE DEF n
  <2>1. j \in 1 .. n - 1 /\ t[j] = s[j]
    BY <1>8, <1>11
  <2>2. s[j] \in U /\ s[j] <= x /\ s[j] \in Nat /\ x \in Nat
    <3> HIDE DEF Bad
    <3> QED
      BY <1>4, <1>6, <1>9, <2>1
  <2>3. CASE k = n
    BY <2>1, <2>2, <2>3
  <2>4. CASE k # n
    BY <1>8, <1>9, <1>11, <2>1, <2>4
  <2> QED
    BY <2>3, <2>4
<1>12. Enumerates(t, S)
  BY <1>10, <1>11 DEF Enumerates, Ascending
<1> QED
  BY <1>12

\* dedupeSortMsgs: what Sorted chooses holds each item of the set once, ascending.
LEMMA SortedSorts ==
  ASSUME NEW S \in SUBSET Items
  PROVE  /\ Sorted(S) \in Seq(Items) /\ Len(Sorted(S)) = Cardinality(S)
         /\ Range(Sorted(S)) = S
         /\ \A j, k \in 1 .. Len(Sorted(S)) : j < k => Sorted(S)[j] < Sorted(S)[k]
<1> DEFINE n == Cardinality(S)
           s == Sorted(S)
<1>1. n \in Nat /\ IsFiniteSet(S)
  BY FiniteItems
<1>2. s \in [1 .. n -> S] /\ \A j, k \in 1 .. n : j < k => s[j] < s[k]
  BY Enumerable DEF Enumerates, Sorted, Ascending
<1>3. s \in Seq(Items) /\ Len(s) = n
  <2> HIDE DEF s
  <2>1. s \in [1 .. n -> Items]
    BY <1>2
  <2> HIDE DEF n
  <2> QED
    BY <1>1, <2>1
<1>4. IsInjective(s)
  <2> HIDE DEF s, n
  <2> SUFFICES ASSUME NEW j \in 1 .. n, NEW k \in 1 .. n, s[j] = s[k] PROVE j = k
    BY <1>2 DEF IsInjective
  <2>1. S \subseteq Nat
    BY DEF Items
  <2>3. s[j] \in Nat
    BY <1>2, <2>1
  <2>2. ~(j < k) /\ ~(k < j)
    BY <1>2, <2>3
  <2> QED
    BY <1>1, <2>2
<1>5. s \in Surjection(1 .. n, S)
  <2>1. s \in Injection(1 .. n, S)
    BY <1>2, <1>4 DEF Injection
  <2>2. Cardinality(1 .. n) = n
    BY <1>1, FS_Interval
  <2> HIDE DEF s
  <2> QED
    BY <1>1, <2>1, <2>2, FS_Injection
<1>6. Range(s) = S
  <2> HIDE DEF s, n
  <2> QED
    BY <1>2, <1>5 DEF Range, Surjection
<1> QED
  BY <1>2, <1>3, <1>6

-----------------------------------------------------------------------------
(* The states of an album are well typed.                                  *)

\* What a later item makes of the album, and the messages it sends.
LEMMA Collects ==
  ASSUME AlbumTypeOK, NEW i \in Items, NEW msgs, msgs = Collect(group.items, i)
  PROVE  /\ msgs \in Seq(Items) /\ Len(msgs) \in Nat \ {0}
         /\ Range(msgs) = Range(group.items) \cup {i}
         /\ \A j, k \in 1 .. Len(msgs) : j < k => msgs[j] < msgs[k]
         /\ Copyable(msgs)
<1> DEFINE S == Range(group.items) \cup {i}
<1>1. S \in SUBSET Items
  <2>1. group.items \in Seq(Items)
    BY DEF AlbumTypeOK
  <2> QED
    BY <2>1 DEF Range
<1>2. msgs = Sorted(S)
  BY DEF Collect
<1>3. /\ msgs \in Seq(Items) /\ Range(msgs) = S
      /\ \A j, k \in 1 .. Len(msgs) : j < k => msgs[j] < msgs[k]
  <2> HIDE DEF S
  <2> QED
    BY <1>1, <1>2, SortedSorts
<1>4. Len(msgs) \in Nat \ {0}
  BY <1>3 DEF Range
<1>5. Copyable(msgs)
  BY <1>3, <1>4 DEF Copyable
<1> QED
  BY <1>3, <1>4, <1>5

\* The copies show the items so far, each once and in their order; the carrier follows.
LEMMA Sends ==
  ASSUME AlbumTypeOK, NEW i \in Items, NEW msgs, msgs = Collect(group.items, i)
  PROVE  /\ Copies(msgs) \subseteq [id : next .. next + Len(msgs) - 1, what : Items]
         /\ CarrierOf(msgs) = {[id |-> next + Len(msgs), what |-> Carrier]}
         /\ {m.what : m \in Copies(msgs)} = Range(group.items) \cup {i}
         /\ \A m, n \in Copies(msgs) : m.id < n.id <=> m.what < n.what
         /\ \A m, n \in Copies(msgs) : m.what = n.what => m = n
<1>1. /\ msgs \in Seq(Items) /\ Len(msgs) \in Nat /\ next \in Nat
      /\ Range(msgs) = Range(group.items) \cup {i}
      /\ \A j, k \in 1 .. Len(msgs) : j < k => msgs[j] < msgs[k]
  BY Collects DEF AlbumTypeOK
<1>2. \A m \in Copies(msgs) : \E k \in 1 .. Len(msgs) :
        m = [id |-> next + k - 1, what |-> msgs[k]]
  BY <1>1 DEF Copies, Made
<1>3. \A k \in 1 .. Len(msgs) : [id |-> next + k - 1, what |-> msgs[k]] \in Copies(msgs)
  BY <1>1 DEF Copies, Made
<1>4. \A k \in 1 .. Len(msgs) : msgs[k] \in Items /\ msgs[k] \in Nat
  <2>1. Items \subseteq Nat
    BY DEF Items
  <2>2. \A k \in 1 .. Len(msgs) : msgs[k] \in Items
    BY <1>1
  <2> QED
    BY <2>1, <2>2
<1>5. Copies(msgs) \subseteq [id : next .. next + Len(msgs) - 1, what : Items]
  BY <1>1, <1>2, <1>4
<1>6. CarrierOf(msgs) = {[id |-> next + Len(msgs), what |-> Carrier]}
  <2>1. DOMAIN <<Carrier>> = {1} /\ <<Carrier>>[1] = Carrier
    OBVIOUS
  <2>2. next + Len(msgs) + 1 - 1 = next + Len(msgs)
    BY <1>1
  <2> QED
    BY <2>1, <2>2 DEF CarrierOf, Made
<1>7. {m.what : m \in Copies(msgs)} = Range(msgs)
  <2>1. DOMAIN msgs = 1 .. Len(msgs)
    BY <1>1
  <2>2. ASSUME NEW m \in Copies(msgs) PROVE m.what \in Range(msgs)
    BY <1>2, <2>1 DEF Range
  <2>3. ASSUME NEW k \in 1 .. Len(msgs)
        PROVE  \E m \in Copies(msgs) : m.what = msgs[k]
    BY <1>3
  <2> QED
    BY <2>1, <2>2, <2>3 DEF Range
<1>8. ASSUME NEW m \in Copies(msgs), NEW n \in Copies(msgs)
      PROVE  (m.id < n.id <=> m.what < n.what) /\ (m.what = n.what => m = n)
  <2>1. PICK j \in 1 .. Len(msgs) : m = [id |-> next + j - 1, what |-> msgs[j]]
    BY <1>2
  <2>2. PICK k \in 1 .. Len(msgs) : n = [id |-> next + k - 1, what |-> msgs[k]]
    BY <1>2
  <2>3. /\ msgs[j] \in Nat /\ msgs[k] \in Nat
        /\ j < k => msgs[j] < msgs[k]
        /\ k < j => msgs[k] < msgs[j]
    BY <1>1, <1>4
  <2>4. (j < k) <=> (msgs[j] < msgs[k])
    BY <1>1, <2>3
  <2>5. m.id < n.id <=> j < k
    BY <1>1, <2>1, <2>2
  <2>6. msgs[j] = msgs[k] => j = k
    BY <1>1, <2>3
  <2> QED
    BY <2>1, <2>2, <2>4, <2>5, <2>6
<1> QED
  BY <1>1, <1>5, <1>6, <1>7, <1>8

\* The ids given out so far are given out from then on.
LEMMA IdsStay ==
  ASSUME next \in Nat \ {0}, next' \in Nat, next <= next'
  PROVE  Ids \subseteq Ids' /\ Warnings \subseteq Warnings'
<1>1. ASSUME NEW m \in Nat, NEW n \in Nat, m <= n PROVE 1 .. m - 1 \subseteq 1 .. n - 1
  BY <1>1
<1>2. Ids \subseteq Ids'
  BY <1>1 DEF Ids
<1> QED
  BY <1>2 DEF Warnings

\* What a handler or a timer leaves alone stays well typed when ids are given out.
LEMMA StaysTyped ==
  ASSUME AlbumTypeOK, next' \in Nat, next <= next'
  PROVE  /\ group \in [items : Seq(Items), sent : SUBSET Ids', notify : SUBSET Ids',
                       warning : Warnings']
         /\ inbox \subseteq [id : Ids', what : Whats]
         /\ warns \subseteq Warnings' /\ taps \subseteq Warnings'
         /\ stray \subseteq Ids' /\ unwarned \subseteq Ids' /\ closed \subseteq Ids'
         /\ orphans \subseteq Ids'
         /\ next' \in Nat \ {0} /\ NoGroup.items = <<>>
         /\ NoGroup \in [items : Seq(Items), sent : SUBSET Ids', notify : SUBSET Ids',
                         warning : Warnings']
<1>1. Ids \subseteq Ids' /\ Warnings \subseteq Warnings' /\ next' \in Nat \ {0}
  BY IdsStay DEF AlbumTypeOK
<1>2. /\ group \in [items : Seq(Items), sent : SUBSET Ids', notify : SUBSET Ids',
                    warning : Warnings']
  BY <1>1 DEF AlbumTypeOK
<1>3. inbox \subseteq [id : Ids', what : Whats]
  BY <1>1 DEF AlbumTypeOK
<1>4. NoWarning \in Warnings'
  BY DEF NoWarning, Warnings
<1>5. <<>> \in Seq(Items)
  OBVIOUS
<1>6. /\ NoGroup.items = <<>>
      /\ NoGroup \in [items : Seq(Items), sent : SUBSET Ids', notify : SUBSET Ids',
                      warning : Warnings']
  BY <1>4, <1>5 DEF NoGroup
<1> QED
  BY <1>1, <1>2, <1>3, <1>6 DEF AlbumTypeOK

\* An item that arrives, and a call that fails, stay within the bounds.
LEMMA ArrivesTyped ==
  ASSUME AlbumTypeOK, NEW i \in Items, Arrives(i)
  PROVE  handled' \subseteq Items /\ again' \in Seq(Items) /\ Len(again') <= MaxAgain
BY AlbumAssumption DEF AlbumTypeOK, Arrives

LEMMA FailingTyped ==
  ASSUME AlbumTypeOK, NEW n \in Nat, Failing(n)
  PROVE  faults' \in 0 .. MaxFaults /\ (n > 0 => faults' \in 1 .. MaxFaults)
BY AlbumAssumption DEF AlbumTypeOK, Failing

LEMMA FirstItemTyped ==
  ASSUME AlbumTypeOK, NEW i \in Items, FirstItem(i)
  PROVE  AlbumTypeOK'
<1>1. handled' \subseteq Items /\ again' \in Seq(Items) /\ Len(again') <= MaxAgain
  BY ArrivesTyped DEF FirstItem
<1>2. CASE /\ flow' = "none" /\ spoiled' = TRUE
           /\ UNCHANGED <<group, late, chats>>
  <2>1. group.items = <<>>
    BY DEF FirstItem, AlbumTypeOK
  <2> QED
    BY <1>1, <1>2, <2>1 DEF FirstItem, AlbumTypeOK, chats, Ids, Warnings
<1>3. ASSUME NEW announced,
             announced = IF answers THEN Made(next, <<Notify>>) ELSE {},
             flow' = "album", late' = FALSE,
             group' = [NoGroup EXCEPT !.items = <<i>>, !.notify = IdsOf(announced)],
             inbox' = inbox \cup announced,
             unwarned' = unwarned \cup IdsOf(announced),
             next' = next + Cardinality(announced),
             UNCHANGED <<warns, taps, outbox, stray, closed, spoiled>>,
             UNCHANGED <<answers, warning, orphans, faults>>
      PROVE  AlbumTypeOK'
  <2>1. announced = {} \/ announced = {[id |-> next, what |-> Notify]}
    <3>1. DOMAIN <<Notify>> = {1} /\ <<Notify>>[1] = Notify /\ next + 1 - 1 = next
      BY DEF AlbumTypeOK
    <3> QED
      BY <1>3, <3>1 DEF Made
  <2>2. Cardinality(announced) \in {0, 1} /\ (announced # {} => Cardinality(announced) = 1)
    BY <2>1, FS_EmptySet, FS_Singleton
  <2>3. next' \in Nat /\ next <= next' /\ (announced # {} => next \in Ids')
    BY <1>3, <2>2 DEF AlbumTypeOK, Ids
  <2>4. announced \subseteq [id : Ids', what : Whats] /\ IdsOf(announced) \subseteq Ids'
    <3>1. Notify \in Whats
      BY AlbumAssumption DEF Notify, Whats
    <3> QED
      BY <2>1, <2>3, <3>1 DEF IdsOf
  <2>5. <<i>> \in Seq(Items) /\ <<i>> # <<>>
    OBVIOUS
  <2>6. /\ group' \in [items : Seq(Items), sent : SUBSET Ids', notify : SUBSET Ids',
                       warning : Warnings']
        /\ group'.items # <<>>
    BY <1>3, <2>3, <2>4, <2>5, StaysTyped
  <2>7. /\ inbox' \subseteq [id : Ids', what : Whats] /\ unwarned' \subseteq Ids'
        /\ warns' \subseteq Warnings' /\ taps' \subseteq Warnings'
        /\ stray' \subseteq Ids' /\ closed' \subseteq Ids' /\ next' \in Nat \ {0}
        /\ orphans' \subseteq Ids'
    BY <1>3, <2>3, <2>4, StaysTyped
  <2> QED
    BY <1>1, <1>3, <2>6, <2>7 DEF AlbumTypeOK
<1> QED
  BY <1>2, <1>3 DEF FirstItem

\* The messages of a later item are well typed once their ids are given out.
LEMMA SentTyped ==
  ASSUME AlbumTypeOK, NEW i \in Items, NEW msgs, msgs = Collect(group.items, i),
         next' \in Nat
  PROVE  /\ next + Len(msgs) <= next' =>
              /\ Copies(msgs) \subseteq [id : Ids', what : Whats]
              /\ IdsOf(Copies(msgs)) \subseteq Ids'
         /\ next + Len(msgs) + 1 <= next' =>
              /\ CarrierOf(msgs) \subseteq [id : Ids', what : Whats]
              /\ IdsOf(CarrierOf(msgs)) \subseteq Ids'
         /\ Cardinality(CarrierOf(msgs)) = 1 /\ <<Carrier>> \in Seq(Whats)
         /\ msgs \in Seq(Whats) /\ msgs # <<>>
<1>1. /\ Copies(msgs) \subseteq [id : next .. next + Len(msgs) - 1, what : Items]
      /\ CarrierOf(msgs) = {[id |-> next + Len(msgs), what |-> Carrier]}
      /\ msgs \in Seq(Items) /\ Len(msgs) \in Nat \ {0} /\ next \in Nat \ {0}
  BY Sends, Collects DEF AlbumTypeOK
<1>2. Items \subseteq Whats /\ Carrier \in Whats
  BY AlbumAssumption DEF Items, Whats, Carrier
<1>3. ASSUME next + Len(msgs) <= next'
      PROVE  /\ Copies(msgs) \subseteq [id : Ids', what : Whats]
             /\ IdsOf(Copies(msgs)) \subseteq Ids'
  <2>1. next .. next + Len(msgs) - 1 \subseteq Ids'
    BY <1>1, <1>3 DEF Ids
  <2>2. Copies(msgs) \subseteq [id : Ids', what : Whats]
    BY <1>1, <1>2, <2>1
  <2> QED
    BY <2>2 DEF IdsOf
<1>4. ASSUME next + Len(msgs) + 1 <= next'
      PROVE  /\ CarrierOf(msgs) \subseteq [id : Ids', what : Whats]
             /\ IdsOf(CarrierOf(msgs)) \subseteq Ids'
  <2>1. next + Len(msgs) \in Ids'
    BY <1>1, <1>4 DEF Ids
  <2> QED
    BY <1>1, <1>2, <2>1 DEF IdsOf
<1>5. Cardinality(CarrierOf(msgs)) = 1
  BY <1>1, FS_Singleton
<1>6. msgs \in Seq(Whats) /\ msgs # <<>> /\ <<Carrier>> \in Seq(Whats)
  BY <1>1, <1>2
<1> QED
  BY <1>3, <1>4, <1>5, <1>6

\* A queued call is well typed.
LEMMA QueueTyped ==
  ASSUME AlbumTypeOK, NEW what \in Seq(Whats), MayQueue(what), faults' \in 1 .. MaxFaults
  PROVE  outbox' \subseteq [n : 1 .. MaxFaults, makes : Seq(Whats)]
BY DEF AlbumTypeOK, MayQueue

\* What every later item does, however far its handler comes.
LEMMA JoinsTyped ==
  ASSUME AlbumTypeOK, NEW i \in Items, NEW undeleted \in BOOLEAN, NEW failures \in {0, 1},
         Joins(i, undeleted, failures), next' \in Nat, next <= next'
  PROVE  /\ handled' \subseteq Items /\ again' \in Seq(Items) /\ Len(again') <= MaxAgain
         /\ faults' \in 0 .. MaxFaults /\ (failures = 1 => faults' \in 1 .. MaxFaults)
         /\ UNCHANGED <<flow, answers, warning, taps, orphans, spoiled>> /\ flow = "album" /\ ~late
         /\ Kept(undeleted) \subseteq [id : Ids', what : Whats]
         /\ Left(undeleted) \subseteq Ids'
<1>1. handled' \subseteq Items /\ again' \in Seq(Items) /\ Len(again') <= MaxAgain
  BY ArrivesTyped DEF Joins
<1>2. /\ faults' \in 0 .. MaxFaults /\ (failures = 1 => faults' \in 1 .. MaxFaults)
  <2>1. failures + (IF undeleted THEN 1 ELSE 0) \in Nat
    OBVIOUS
  <2>2. failures = 1 => failures + (IF undeleted THEN 1 ELSE 0) > 0
    OBVIOUS
  <2> QED
    BY <2>1, <2>2, FailingTyped DEF Joins
<1>3. Kept(undeleted) \subseteq inbox /\ Left(undeleted) \subseteq group.sent
  BY DEF Kept, Without, Left, Stale
<1>4. inbox \subseteq [id : Ids', what : Whats] /\ group.sent \subseteq Ids'
  BY StaysTyped
<1> QED
  BY <1>1, <1>2, <1>3, <1>4 DEF Joins

LEMMA CopyFailsTyped ==
  ASSUME AlbumTypeOK, NEW i \in Items, NEW undeleted \in BOOLEAN, CopyFails(i, undeleted)
  PROVE  AlbumTypeOK'
<1> DEFINE msgs == Collect(group.items, i)
<1>1. msgs \in Seq(Items) /\ Len(msgs) \in Nat /\ Copyable(msgs) /\ next \in Nat
  BY Collects DEF AlbumTypeOK
<1>2. /\ Joins(i, undeleted, 1)
      /\ group' = [group EXCEPT !.items = msgs, !.sent = {}]
      /\ MayQueue(msgs)
      /\ \/ /\ inbox' = Kept(undeleted)
            /\ stray' = stray \cup Left(undeleted)
            /\ UNCHANGED next
         \/ /\ inbox' = Kept(undeleted) \cup Copies(msgs)
            /\ stray' = stray \cup Left(undeleted) \cup IdsOf(Copies(msgs))
            /\ next' = next + Len(msgs)
      /\ UNCHANGED <<late, warns, unwarned, closed>>
  BY <1>1 DEF CopyFails
<1> HIDE DEF msgs
<1>3. next' \in Nat /\ next <= next' /\ (next' = next \/ next + Len(msgs) <= next')
  BY <1>1, <1>2
<1>4. msgs \in Seq(Whats) /\ msgs # <<>>
  BY <1>3, SentTyped DEF msgs
<1>5. /\ inbox' \subseteq [id : Ids', what : Whats]
      /\ stray' \subseteq Ids'
  BY <1>2, <1>3, SentTyped, JoinsTyped, StaysTyped DEF msgs
<1>6. /\ group' \in [items : Seq(Items), sent : SUBSET Ids', notify : SUBSET Ids',
                     warning : Warnings']
      /\ group'.items # <<>>
  BY <1>1, <1>2, <1>3, <1>4, StaysTyped
<1>7. outbox' \subseteq [n : 1 .. MaxFaults, makes : Seq(Whats)]
  BY <1>2, <1>3, <1>4, JoinsTyped, QueueTyped
<1>8. /\ warns' \subseteq Warnings' /\ taps' \subseteq Warnings'
      /\ unwarned' \subseteq Ids' /\ closed' \subseteq Ids' /\ next' \in Nat \ {0}
      /\ orphans' \subseteq Ids'
  BY <1>2, <1>3, StaysTyped, JoinsTyped
<1> QED
  BY <1>2, <1>3, <1>5, <1>6, <1>7, <1>8, JoinsTyped DEF AlbumTypeOK

LEMMA StopsTyped ==
  ASSUME AlbumTypeOK, NEW i \in Items, NEW undeleted \in BOOLEAN,
         StopsAfterCopying(i, undeleted)
  PROVE  AlbumTypeOK'
<1> DEFINE msgs == Collect(group.items, i)
<1>1. msgs \in Seq(Items) /\ Len(msgs) \in Nat /\ next \in Nat
  BY Collects DEF AlbumTypeOK
<1>2. /\ Joins(i, undeleted, 1)
      /\ group' = [group EXCEPT !.items = msgs, !.sent = IdsOf(Copies(msgs))]
      /\ MayQueue(<<Carrier>>)
      /\ unwarned' = unwarned \cup IdsOf(Copies(msgs))
      /\ UNCHANGED <<late, warns, closed>>
  BY DEF StopsAfterCopying
<1>3. PICK reached \in {{}, CarrierOf(msgs)} :
        /\ inbox' = Kept(undeleted) \cup Copies(msgs) \cup reached
        /\ stray' = stray \cup Left(undeleted) \cup IdsOf(reached)
        /\ next' = next + Len(msgs) + Cardinality(reached)
  BY DEF StopsAfterCopying
<1> HIDE DEF msgs
<1>4. /\ next' \in Nat /\ next <= next' /\ next + Len(msgs) <= next'
      /\ reached = {} \/ next + Len(msgs) + 1 <= next'
  <2>1. CarrierOf(msgs) = {[id |-> next + Len(msgs), what |-> Carrier]}
    BY Sends DEF msgs
  <2>2. Cardinality(CarrierOf(msgs)) = 1
    BY <2>1, FS_Singleton
  <2>3. Cardinality({}) = 0
    BY FS_EmptySet
  <2>4. CASE reached = {}
    BY <1>1, <1>3, <2>3, <2>4
  <2>5. CASE reached = CarrierOf(msgs)
    BY <1>1, <1>3, <2>2, <2>5
  <2> QED
    BY <2>4, <2>5
<1>5. msgs # <<>> /\ <<Carrier>> \in Seq(Whats)
  BY <1>4, SentTyped DEF msgs
<1>6. /\ Copies(msgs) \subseteq [id : Ids', what : Whats] /\ IdsOf(Copies(msgs)) \subseteq Ids'
      /\ reached \subseteq [id : Ids', what : Whats] /\ IdsOf(reached) \subseteq Ids'
  <2>1. IdsOf({}) = {}
    BY DEF IdsOf
  <2> QED
    BY <1>3, <1>4, <2>1, SentTyped DEF msgs
<1>7. /\ inbox' \subseteq [id : Ids', what : Whats]
      /\ stray' \subseteq Ids' /\ unwarned' \subseteq Ids'
  BY <1>2, <1>3, <1>4, <1>6, JoinsTyped, StaysTyped
<1>8. /\ group' \in [items : Seq(Items), sent : SUBSET Ids', notify : SUBSET Ids',
                     warning : Warnings']
      /\ group'.items # <<>>
  BY <1>1, <1>2, <1>4, <1>5, <1>6, StaysTyped
<1>9. outbox' \subseteq [n : 1 .. MaxFaults, makes : Seq(Whats)]
  BY <1>2, <1>4, <1>5, JoinsTyped, QueueTyped
<1>10. /\ warns' \subseteq Warnings' /\ taps' \subseteq Warnings'
       /\ closed' \subseteq Ids' /\ orphans' \subseteq Ids' /\ next' \in Nat \ {0}
  BY <1>2, <1>4, StaysTyped, JoinsTyped
<1> QED
  BY <1>2, <1>4, <1>7, <1>8, <1>9, <1>10, JoinsTyped DEF AlbumTypeOK

\* What is with the target, and what the warning offers to delete, when all of it is through.
Through(i) == LET msgs == Collect(group.items, i) IN IdsOf(Copies(msgs) \cup CarrierOf(msgs))
Offered(i) == LET msgs == Collect(group.items, i) IN ToDelete(Copies(msgs), CarrierOf(msgs))

\* The two actions that get as far as the warning.
LEMMA ThroughTyped ==
  ASSUME AlbumTypeOK, NEW i \in Items, NEW undeleted \in BOOLEAN, NEW failures \in {0, 1},
         GoesThrough(i, undeleted, failures),
         \E latest \in {group.warning, [ids |-> Offered(i)]} :
           group' = [group EXCEPT !.items = Collect(group.items, i), !.sent = Through(i),
                                  !.warning = latest],
         warns' \subseteq warns \cup {[ids |-> Offered(i)]},
         unwarned' \subseteq unwarned \cup Offered(i),
         closed' \subseteq closed \cup Offered(i),
         late' \in {late, FALSE}
  PROVE  AlbumTypeOK'
<1> DEFINE msgs == Collect(group.items, i)
           sent == Through(i)
           tbd == Offered(i)
<1>0. PICK latest \in {group.warning, [ids |-> tbd]} :
        group' = [group EXCEPT !.items = msgs, !.sent = sent, !.warning = latest]
  OBVIOUS
<1>1. msgs \in Seq(Items) /\ Len(msgs) \in Nat /\ next \in Nat
  BY Collects DEF AlbumTypeOK
<1>2. /\ Joins(i, undeleted, failures)
      /\ inbox' = Kept(undeleted) \cup Copies(msgs) \cup CarrierOf(msgs)
      /\ stray' = stray \cup Left(undeleted)
      /\ next' = next + Len(msgs) + 1
      /\ UNCHANGED outbox
  BY DEF GoesThrough
<1> HIDE DEF msgs, sent, tbd
<1>3. next' \in Nat /\ next <= next' /\ next + Len(msgs) + 1 <= next' /\ next + Len(msgs) <= next'
  BY <1>1, <1>2
<1>4. /\ Copies(msgs) \subseteq [id : Ids', what : Whats] /\ IdsOf(Copies(msgs)) \subseteq Ids'
      /\ CarrierOf(msgs) \subseteq [id : Ids', what : Whats]
      /\ IdsOf(CarrierOf(msgs)) \subseteq Ids' /\ msgs # <<>>
  BY <1>3, SentTyped DEF msgs
<1>5. sent \subseteq Ids' /\ tbd \subseteq Ids'
  <2>1. sent = IdsOf(Copies(msgs)) \cup IdsOf(CarrierOf(msgs))
    BY DEF IdsOf, sent, Through, msgs
  <2>2. tbd = IdsOf(Copies(msgs)) \cup IdsOf(CarrierOf(msgs)) \cup group.notify
    BY DEF ToDelete, tbd, Offered, msgs
  <2>3. group.notify \subseteq Ids'
    BY <1>3, StaysTyped
  <2> QED
    BY <1>4, <2>1, <2>2, <2>3
<1>6. [ids |-> tbd] \in Warnings'
  BY <1>5 DEF Warnings
<1>7. /\ inbox' \subseteq [id : Ids', what : Whats]
      /\ stray' \subseteq Ids' /\ unwarned' \subseteq Ids' /\ closed' \subseteq Ids'
  BY <1>2, <1>3, <1>4, <1>5, JoinsTyped, StaysTyped DEF tbd
<1>8. /\ group' \in [items : Seq(Items), sent : SUBSET Ids', notify : SUBSET Ids',
                     warning : Warnings']
      /\ group'.items # <<>>
  BY <1>0, <1>1, <1>3, <1>4, <1>5, <1>6, StaysTyped
<1>9. /\ warns' \subseteq Warnings' /\ taps' \subseteq Warnings' /\ next' \in Nat \ {0}
      /\ orphans' \subseteq Ids'
  BY <1>2, <1>3, <1>6, StaysTyped, JoinsTyped DEF tbd
<1>10. {late', answers', warning', spoiled'} \subseteq BOOLEAN
  BY <1>2, <1>3, JoinsTyped DEF AlbumTypeOK
<1>11. outbox' \subseteq [n : 1 .. MaxFaults, makes : Seq(Whats)] /\ flow' = "album"
  BY <1>2, <1>3, JoinsTyped DEF AlbumTypeOK
<1> QED
  BY <1>2, <1>3, <1>7, <1>8, <1>9, <1>10, <1>11, JoinsTyped DEF AlbumTypeOK

LEMMA LaterItemTyped ==
  ASSUME AlbumTypeOK, NEW i \in Items, LaterItem(i)
  PROVE  AlbumTypeOK'
<1>1. PICK undeleted \in BOOLEAN :
        \/ CopyFails(i, undeleted) \/ StopsAfterCopying(i, undeleted)
        \/ WarningFails(i, undeleted) \/ NextItem(i, undeleted)
  BY DEF LaterItem
<1>2. CASE WarningFails(i, undeleted)
  <2>1. /\ group' = [group EXCEPT !.items = Collect(group.items, i), !.sent = Through(i),
                                  !.warning = group.warning]
        /\ GoesThrough(i, undeleted, 1)
        /\ warns' \subseteq warns \cup {[ids |-> Offered(i)]}
        /\ unwarned' \subseteq unwarned \cup Offered(i)
        /\ closed' \subseteq closed \cup Offered(i)
        /\ late' \in {late, FALSE}
    BY <1>2 DEF WarningFails, AlbumTypeOK, Through, Offered
  <2> QED
    BY <2>1, ThroughTyped
<1>3. CASE NextItem(i, undeleted)
  <2>1. /\ group' = [group EXCEPT !.items = Collect(group.items, i), !.sent = Through(i),
                                  !.warning = IF warning THEN [ids |-> Offered(i)] ELSE @]
        /\ GoesThrough(i, undeleted, 0)
        /\ warns' \subseteq warns \cup {[ids |-> Offered(i)]}
        /\ unwarned' \subseteq unwarned \cup Offered(i)
        /\ closed' \subseteq closed \cup Offered(i)
        /\ late' \in {late, FALSE}
    BY <1>3 DEF NextItem, Through, Offered
  <2> QED
    BY <2>1, ThroughTyped
<1> QED
  BY <1>1, <1>2, <1>3, CopyFailsTyped, StopsTyped

LEMMA DrainTyped ==
  ASSUME AlbumTypeOK, NEW call \in outbox, Drain(call)
  PROVE  AlbumTypeOK'
<1> DEFINE made == Made(next, call.makes)
<1>1. call.makes \in Seq(Whats) /\ Len(call.makes) \in Nat /\ next \in Nat \ {0}
  BY DEF AlbumTypeOK
<1>2. next' = next + Len(call.makes) /\ next' \in Nat /\ next <= next'
  BY <1>1 DEF Drain
<1>3. made \subseteq [id : Ids', what : Whats]
  <2>1. DOMAIN call.makes = 1 .. Len(call.makes)
    BY <1>1
  <2>2. ASSUME NEW k \in 1 .. Len(call.makes)
        PROVE  next + k - 1 \in Ids' /\ call.makes[k] \in Whats
    BY <1>1, <1>2 DEF Ids
  <2> QED
    BY <2>1, <2>2 DEF Made
<1>4. IdsOf(made) \subseteq Ids'
  BY <1>3 DEF IdsOf
<1>5. inbox' \subseteq [id : Ids', what : Whats] /\ stray' \subseteq Ids'
  BY <1>2, <1>3, <1>4, StaysTyped DEF Drain
<1> QED
  BY <1>2, <1>5, StaysTyped DEF Drain, AlbumTypeOK

LEMMA AlbumTypeStep == AlbumTypeOK /\ [AlbumNext]_albumVars => AlbumTypeOK'
<1> SUFFICES ASSUME AlbumTypeOK, [AlbumNext]_albumVars PROVE AlbumTypeOK'
  OBVIOUS
<1>1. /\ NoGroup \in [items : Seq(Items), sent : SUBSET Ids, notify : SUBSET Ids,
                      warning : Warnings]
      /\ NoGroup.items = <<>>
  BY DEF NoGroup, NoWarning, Warnings
<1>2. ASSUME NEW i \in Items, TooLate(i) \/ NotUnderstood(i) PROVE AlbumTypeOK'
  <2>1. handled' \subseteq Items /\ again' \in Seq(Items) /\ Len(again') <= MaxAgain
    BY <1>2, ArrivesTyped DEF TooLate, Orphaned, NotUnderstood
  <2> QED
    BY <1>1, <1>2, <2>1 DEF TooLate, Orphaned, NotUnderstood, AlbumTypeOK, chats, Ids, Warnings
<1>3. CASE Elapse \/ Forget
  BY <1>1, <1>3 DEF Elapse, Forget, Orphaned, AlbumTypeOK, chats, Ids, Warnings
<1>4. ASSUME NEW w \in warns, TapDelete(w) \/ TimerFires(w) PROVE AlbumTypeOK'
  <2>1. w \in Warnings /\ w.ids \subseteq Ids
    BY DEF AlbumTypeOK, Warnings
  <2> QED
    BY <1>4, <2>1 DEF TapDelete, TimerFires, AlbumTypeOK, Ids, Warnings
<1>5. ASSUME NEW w \in taps, DeleteMsg(w) PROVE AlbumTypeOK'
  <2>1. w.ids \subseteq Ids
    BY DEF AlbumTypeOK, Warnings
  <2>2. faults' \in 0 .. MaxFaults
    BY <1>5, FailingTyped DEF DeleteMsg, AlbumTypeOK
  <2>3. inbox' \subseteq inbox /\ stray' \subseteq stray \cup w.ids
    BY <1>5 DEF DeleteMsg, Without
  <2> QED
    BY <1>5, <2>1, <2>2, <2>3 DEF DeleteMsg, AlbumTypeOK, Ids, Warnings
<1>6. CASE UNCHANGED albumVars
  BY <1>6 DEF albumVars, AlbumTypeOK, Ids, Warnings
<1> QED
  BY <1>2, <1>3, <1>4, <1>5, <1>6, FirstItemTyped, LaterItemTyped, DrainTyped DEF AlbumNext

\* The record of an album, the chats and the queued calls are well typed at every step.
THEOREM AlbumTypeCorrect == AlbumSpec => []AlbumTypeOK
<1>1. AlbumInit => AlbumTypeOK
  <2> SUFFICES ASSUME AlbumInit PROVE AlbumTypeOK
    OBVIOUS
  <2>1. /\ NoGroup \in [items : Seq(Items), sent : SUBSET Ids, notify : SUBSET Ids,
                        warning : Warnings]
        /\ NoGroup.items = <<>>
    BY DEF NoGroup, NoWarning, Warnings
  <2>2. <<>> \in Seq(Items) /\ Len(<<>>) <= MaxAgain /\ 0 \in 0 .. MaxFaults
    BY AlbumAssumption
  <2>3. {late, answers, warning, spoiled} \subseteq BOOLEAN
    BY DEF AlbumInit
  <2> QED
    BY <2>1, <2>2, <2>3 DEF AlbumInit, AlbumTypeOK
<1> QED
  BY <1>1, AlbumTypeStep, PTL DEF AlbumSpec

-----------------------------------------------------------------------------
(* What the delete buttons reach.                                          *)

\* What a later item leaves of the messages of before.
LEMMA JoinsKeep ==
  ASSUME NEW undeleted \in BOOLEAN, NEW m \in Kept(undeleted)
  PROVE  m \in inbox /\ (m.id \in group.sent => m.id \in Left(undeleted))
BY DEF Kept, Left, Without, Stale, IdsOf

Reached(id) ==
  id \in stray \cup unwarned \cup closed \/ \E w \in warns : id \in w.ids

\* What the last warning offers is with the album, or was lost on the way: it may be
\* forgotten once a new one offers what is with the album by then.
DeleteInv ==
  \A m \in inbox :
    /\ Reached(m.id)
    /\ m.id \in group.warning.ids => m.id \in stray \cup group.sent \cup group.notify

\* A handler that stops before the carrier is through offers nothing new.
LEMMA CopyFailsReaches ==
  ASSUME AlbumTypeOK, DeleteInv, NEW i \in Items, NEW undeleted \in BOOLEAN,
         CopyFails(i, undeleted) \/ StopsAfterCopying(i, undeleted)
  PROVE  DeleteInv'
<1> DEFINE msgs == Collect(group.items, i)
<1>1. /\ stray \subseteq stray' /\ Left(undeleted) \subseteq stray'
      /\ unwarned \subseteq unwarned' /\ UNCHANGED <<warns, closed>>
  BY DEF CopyFails, StopsAfterCopying
<1>2. group'.warning = group.warning /\ group'.notify = group.notify
  BY DEF CopyFails, StopsAfterCopying, AlbumTypeOK
<1>3. \A m \in inbox' : m \in Kept(undeleted) \/ m.id \in stray'
                        \/ (m.id \in unwarned' /\ m.id \in group'.sent)
  <2>1. CASE CopyFails(i, undeleted)
    BY <2>1 DEF CopyFails, IdsOf
  <2>2. CASE StopsAfterCopying(i, undeleted)
    <3>1. PICK reached : /\ inbox' = Kept(undeleted) \cup Copies(msgs) \cup reached
                         /\ stray' = stray \cup Left(undeleted) \cup IdsOf(reached)
      BY <2>2 DEF StopsAfterCopying
    <3>2. group'.sent = IdsOf(Copies(msgs)) /\ IdsOf(Copies(msgs)) \subseteq unwarned'
      BY <2>2 DEF StopsAfterCopying, AlbumTypeOK
    <3> HIDE DEF msgs
    <3> QED
      BY <3>1, <3>2 DEF IdsOf
  <2> QED
    BY <2>1, <2>2
<1>4. ASSUME NEW m \in Kept(undeleted)
      PROVE  /\ Reached(m.id)'
             /\ m.id \in group'.warning.ids =>
                  m.id \in stray' \cup group'.sent \cup group'.notify
  <2>1. /\ m \in inbox /\ (m.id \in group.sent => m.id \in Left(undeleted))
        /\ Reached(m.id)
        /\ m.id \in group.warning.ids => m.id \in stray \cup group.sent \cup group.notify
    BY JoinsKeep DEF DeleteInv
  <2> QED
    BY <1>1, <1>2, <2>1 DEF Reached
<1> QED
  BY <1>3, <1>4 DEF DeleteInv, Reached

\* One that gets as far as the warning forgets the last one: it offers the same again.
LEMMA ThroughReaches ==
  ASSUME AlbumTypeOK, DeleteInv, NEW i \in Items, NEW undeleted \in BOOLEAN,
         WarningFails(i, undeleted) \/ NextItem(i, undeleted)
  PROVE  DeleteInv'
<1> DEFINE msgs == Collect(group.items, i)
           sent == IdsOf(Copies(msgs) \cup CarrierOf(msgs))
           tbd == ToDelete(Copies(msgs), CarrierOf(msgs))
           w == [ids |-> tbd]
<1>1. /\ inbox' = Kept(undeleted) \cup Copies(msgs) \cup CarrierOf(msgs)
      /\ stray' = stray \cup Left(undeleted)
  BY DEF WarningFails, NextItem, GoesThrough
<1>2. /\ group'.sent = sent /\ group'.notify = group.notify
      /\ \/ group'.warning = group.warning
         \/ group'.warning = w
  BY DEF WarningFails, NextItem, AlbumTypeOK
<1>3. /\ \A id \in tbd : Reached(id)'
      /\ closed \subseteq closed' /\ unwarned \subseteq unwarned' \cup tbd
      /\ warns \subseteq warns' \cup {group.warning}
  <2>1. CASE WarningFails(i, undeleted)
    <3>1. /\ unwarned' = unwarned \cup tbd /\ warns' = warns \ {group.warning}
          /\ UNCHANGED closed
      BY <2>1 DEF WarningFails
    <3> HIDE DEF tbd
    <3> QED
      BY <3>1 DEF Reached
  <2>2. CASE NextItem(i, undeleted)
    <3>1. /\ warns' = (warns \ {group.warning}) \cup (IF warning THEN {w} ELSE {})
          /\ closed' = IF warning THEN closed ELSE closed \cup tbd
          /\ unwarned' = unwarned \ tbd
      BY <2>2 DEF NextItem
    <3>2. w.ids = tbd
      OBVIOUS
    <3> HIDE DEF tbd, w
    <3> QED
      BY <3>1, <3>2 DEF Reached
  <2> QED
    BY <2>1, <2>2
<1>4. /\ \A m \in Copies(msgs) \cup CarrierOf(msgs) : m.id \in tbd /\ m.id \in sent
      /\ group.notify \subseteq tbd
      /\ tbd \subseteq sent \cup group.notify
  BY DEF ToDelete, IdsOf
<1> HIDE DEF msgs, sent, tbd
<1>5. ASSUME NEW m \in Kept(undeleted)
      PROVE  /\ Reached(m.id)'
             /\ m.id \in group'.warning.ids =>
                  m.id \in stray' \cup group'.sent \cup group'.notify
  <2>1. /\ m \in inbox /\ (m.id \in group.sent => m.id \in Left(undeleted))
        /\ Reached(m.id)
        /\ m.id \in group.warning.ids => m.id \in stray \cup group.sent \cup group.notify
    BY JoinsKeep DEF DeleteInv
  <2>2. m.id \in group.warning.ids => m.id \in stray' \cup group.notify
    BY <1>1, <2>1
  <2>3. m.id \in stray' \/ m.id \in tbd => Reached(m.id)'
    BY <1>3 DEF Reached
  <2>4. Reached(m.id)'
    BY <1>1, <1>3, <1>4, <2>1, <2>2, <2>3 DEF Reached
  <2> QED
    BY <1>2, <1>4, <2>2, <2>4
<1>6. ASSUME NEW m \in Copies(msgs) \cup CarrierOf(msgs)
      PROVE  /\ Reached(m.id)'
             /\ m.id \in group'.warning.ids =>
                  m.id \in stray' \cup group'.sent \cup group'.notify
  BY <1>2, <1>3, <1>4
<1> QED
  BY <1>1, <1>5, <1>6 DEF DeleteInv

LEMMA DeleteStep == AlbumTypeOK /\ DeleteInv /\ [AlbumNext]_albumVars => DeleteInv'
<1> SUFFICES ASSUME AlbumTypeOK, DeleteInv, [AlbumNext]_albumVars PROVE DeleteInv'
  OBVIOUS
<1>1. NoGroup.warning.ids = {}
  BY DEF NoGroup, NoWarning
<1>2. ASSUME group' = group \/ group' = NoGroup,
             UNCHANGED <<inbox, stray, unwarned, closed, warns>>
      PROVE  DeleteInv'
  BY <1>1, <1>2 DEF DeleteInv, Reached
<1>3. ASSUME NEW i \in Items, FirstItem(i) PROVE DeleteInv'
  <2>1. CASE UNCHANGED <<group, late, chats>>
    BY <1>2, <2>1 DEF chats
  <2>2. ASSUME NEW announced,
               group' = [NoGroup EXCEPT !.items = <<i>>, !.notify = IdsOf(announced)],
               inbox' = inbox \cup announced,
               unwarned' = unwarned \cup IdsOf(announced),
               UNCHANGED <<warns, stray, closed>>
        PROVE  DeleteInv'
    <3>1. group'.warning.ids = {}
      BY <2>2 DEF NoGroup, NoWarning
    <3> QED
      BY <2>2, <3>1 DEF DeleteInv, Reached, IdsOf
  <2> QED
    BY <1>3, <2>1, <2>2 DEF FirstItem
<1>4. ASSUME NEW i \in Items, LaterItem(i) PROVE DeleteInv'
  BY <1>4, CopyFailsReaches, ThroughReaches DEF LaterItem
<1>5. ASSUME NEW i \in Items, TooLate(i) \/ NotUnderstood(i) PROVE DeleteInv'
  BY <1>2, <1>5 DEF TooLate, Orphaned, NotUnderstood, chats
<1>6. CASE Elapse \/ Forget \/ UNCHANGED albumVars
  BY <1>2, <1>6 DEF Elapse, Forget, Orphaned, chats, albumVars
<1>7. ASSUME NEW w \in warns, TapDelete(w) PROVE DeleteInv'
  BY <1>2, <1>7 DEF TapDelete
<1>8. ASSUME NEW w \in warns, TimerFires(w) PROVE DeleteInv'
  <2>1. /\ UNCHANGED <<group, inbox, stray, unwarned>>
        /\ warns' = warns \ {w} /\ closed' = closed \cup w.ids
    BY <1>8 DEF TimerFires
  <2>2. \A id : Reached(id) => Reached(id)'
    BY <2>1 DEF Reached
  <2> QED
    BY <2>1, <2>2 DEF DeleteInv
<1>9. ASSUME NEW w \in taps, DeleteMsg(w) PROVE DeleteInv'
  <2>1. /\ UNCHANGED <<group, unwarned, closed>>
        /\ warns' = warns \ {w} /\ inbox' \subseteq inbox /\ stray \subseteq stray'
        /\ \A m \in inbox' : m.id \in w.ids => m.id \in stray'
    BY <1>9 DEF DeleteMsg, Without, IdsOf
  <2>2. ASSUME NEW m \in inbox' PROVE Reached(m.id)'
    BY <2>1 DEF DeleteInv, Reached
  <2> QED
    BY <2>1, <2>2 DEF DeleteInv
<1>10. ASSUME NEW call \in outbox, Drain(call) PROVE DeleteInv'
  <2>1. /\ UNCHANGED <<group, unwarned, closed, warns>>
        /\ stray \subseteq stray'
        /\ \A m \in inbox' : m \in inbox \/ m.id \in stray'
    BY <1>10 DEF Drain, IdsOf
  <2> QED
    BY <2>1 DEF DeleteInv, Reached
<1> QED
  BY <1>3, <1>4, <1>5, <1>6, <1>7, <1>8, <1>9, <1>10 DEF AlbumNext

\* Whatever of the album is with the target can be deleted with a button the sender
\* has, but for what was lost, what a failed handler left and what a timer took away
\* (handleMedia, warningHandle, deleteMsgClbk).
THEOREM ButtonsReachAll == AlbumSpec => []DeleteReachesAll
<1>1. AlbumInit => DeleteInv
  BY DEF AlbumInit, DeleteInv
<1>2. DeleteInv => DeleteReachesAll
  BY DEF DeleteInv, Reached, DeleteReachesAll, IdsOf
<1> QED
  BY <1>1, <1>2, DeleteStep, AlbumTypeCorrect, PTL DEF AlbumSpec

-----------------------------------------------------------------------------
(* Every item once.                                                        *)

\* The messages of the album that nothing happened to.
Known == {m \in inbox : m.what # Notify /\ m.id \notin stray}

\* What is known of an album is what it counts as sent, so the next item deletes all of
\* it, or it was forgotten.  A forgotten item that the album holds anew was redelivered;
\* only an album that answers a message can hold anything anew.
OnceInv ==
  /\ EachItemOnce
  /\ \A m \in Known :
       /\ m.what = Carrier \/ m.what \in handled
       /\ m.id \in orphans \/ (flow = "album" /\ m.id \in group.sent)
       /\ m.id \in orphans => answers \/ flow = "none"
       /\ m.id \in orphans /\ m.what \in Range(group.items) => m.what \in Range(again)
  /\ flow = "composing" => Known = {}
  /\ Range(group.items) \subseteq handled

\* An item that is handled once more is a redelivered one; none is taken back.
LEMMA Redelivers ==
  ASSUME AlbumTypeOK, NEW i \in Items, Arrives(i)
  PROVE  /\ handled' = handled \cup {i} /\ Range(again) \subseteq Range(again')
         /\ i \in handled => i \in Range(again')
<1>1. again \in Seq(Items)
  BY DEF AlbumTypeOK
<1>2. CASE UNCHANGED again /\ i \notin handled
  BY <1>2 DEF Arrives
<1>3. CASE again' = Append(again, i)
  <2>1. DOMAIN again' = 1 .. Len(again) + 1 /\ DOMAIN again = 1 .. Len(again)
    BY <1>1, <1>3
  <2>2. again'[Len(again) + 1] = i /\ \A k \in DOMAIN again : again'[k] = again[k]
    BY <1>1, <1>3
  <2>3. Len(again) + 1 \in DOMAIN again' /\ DOMAIN again \subseteq DOMAIN again'
    BY <1>1, <2>1
  <2>4. ASSUME NEW x \in Range(again) PROVE x \in Range(again')
    <3>1. PICK k \in DOMAIN again : x = again[k]
      BY DEF Range
    <3> QED
      BY <2>2, <2>3, <3>1 DEF Range
  <2> QED
    BY <2>2, <2>3, <2>4 DEF Arrives, Range
<1> QED
  BY <1>2, <1>3 DEF Arrives

\* What a later item leaves: forgotten copies, and new ones which it counts as sent.
LEMMA LaterKnown ==
  ASSUME AlbumTypeOK, OnceInv, NEW i \in Items, LaterItem(i), NEW msgs,
         msgs = Collect(group.items, i)
  PROVE  \A m \in Known' :
           \/ m \in Known /\ m.id \in orphans
           \/ m \in Copies(msgs) \cup CarrierOf(msgs) /\ m.id \in group'.sent
<1>1. PICK undeleted \in BOOLEAN :
        \/ CopyFails(i, undeleted) \/ StopsAfterCopying(i, undeleted)
        \/ WarningFails(i, undeleted) \/ NextItem(i, undeleted)
  BY DEF LaterItem
<1>2. /\ stray \subseteq stray' /\ Left(undeleted) \subseteq stray'
      /\ inbox' \subseteq Kept(undeleted) \cup Copies(msgs) \cup CarrierOf(msgs)
  BY <1>1 DEF CopyFails, StopsAfterCopying, WarningFails, NextItem, GoesThrough
<1>3. ASSUME NEW m \in Kept(undeleted), m \in Known' PROVE m \in Known /\ m.id \in orphans
  <2>1. m \in inbox /\ (m.id \in group.sent => m.id \in Left(undeleted))
    BY <1>3, JoinsKeep
  <2>2. m.what # Notify /\ m.id \notin stray'
    BY <1>3 DEF Known
  <2>3. m \in Known /\ m.id \notin group.sent
    BY <1>2, <2>1, <2>2 DEF Known
  <2> QED
    BY <2>3 DEF OnceInv
<1>4. /\ Copies(msgs) \subseteq [id : next .. next + Len(msgs) - 1, what : Items]
      /\ CarrierOf(msgs) = {[id |-> next + Len(msgs), what |-> Carrier]}
  BY Sends
<1>5. ASSUME NEW m \in Known', m \notin Kept(undeleted)
      PROVE  m \in Copies(msgs) \cup CarrierOf(msgs) /\ m.id \in group'.sent
  <2>0. m \in inbox' /\ m.id \notin stray'
    BY DEF Known
  <2>1. m \in Copies(msgs) \cup CarrierOf(msgs)
    BY <1>2, <1>5, <2>0
  <2>2. CASE CopyFails(i, undeleted)
    <3>1. inbox' = Kept(undeleted) \/ (/\ inbox' = Kept(undeleted) \cup Copies(msgs)
                                       /\ IdsOf(Copies(msgs)) \subseteq stray')
      BY <2>2 DEF CopyFails
    <3> QED
      BY <1>5, <2>0, <3>1 DEF IdsOf
  <2>3. CASE StopsAfterCopying(i, undeleted)
    <3>1. PICK reached \in {{}, CarrierOf(msgs)} :
            /\ inbox' = Kept(undeleted) \cup Copies(msgs) \cup reached
            /\ stray' = stray \cup Left(undeleted) \cup IdsOf(reached)
      BY <2>3 DEF StopsAfterCopying
    <3>2. group'.sent = IdsOf(Copies(msgs))
      BY <2>3 DEF StopsAfterCopying, AlbumTypeOK
    <3>3. m \in Copies(msgs)
      BY <1>5, <2>0, <3>1 DEF IdsOf
    <3> QED
      BY <2>1, <3>2, <3>3 DEF IdsOf
  <2>4. CASE WarningFails(i, undeleted) \/ NextItem(i, undeleted)
    <3>1. group'.sent = IdsOf(Copies(msgs) \cup CarrierOf(msgs))
      BY <2>4 DEF WarningFails, NextItem, AlbumTypeOK
    <3> QED
      BY <2>1, <3>1 DEF IdsOf
  <2> QED
    BY <1>1, <2>2, <2>3, <2>4
<1> QED
  BY <1>3, <1>5

\* Of the messages of an item that nothing happened to, each shows another item.
LEMMA LaterOnce ==
  ASSUME AlbumTypeOK, OnceInv, NEW i \in Items, LaterItem(i)
  PROVE  OnceInv'
<1> DEFINE msgs == Collect(group.items, i)
           new == Copies(msgs) \cup CarrierOf(msgs)
<1>1. /\ UNCHANGED <<answers, flow, orphans>> /\ flow = "album" /\ Arrives(i)
      /\ group'.items = msgs
  BY DEF LaterItem, CopyFails, StopsAfterCopying, WarningFails, NextItem, GoesThrough,
         Joins, AlbumTypeOK
<1>2. /\ handled' = handled \cup {i} /\ Range(again) \subseteq Range(again')
      /\ i \in handled => i \in Range(again')
  BY <1>1, Redelivers
<1>3. Range(msgs) = Range(group.items) \cup {i}
  BY Collects
<1>4. /\ \A x \in Copies(msgs) : x.what \in Items /\ x.what \in Range(msgs)
      /\ CarrierOf(msgs) = {[id |-> next + Len(msgs), what |-> Carrier]}
      /\ \A x, y \in Copies(msgs) : x.what = y.what => x = y
  <2>1. {x.what : x \in Copies(msgs)} = Range(msgs)
    BY <1>3, Sends
  <2> QED
    BY <2>1, Sends
<1>5. Carrier \notin Items
  BY AlbumAssumption DEF Carrier, Items
<1>6. \A m \in Known' : \/ m \in Known /\ m.id \in orphans
                        \/ m \in new /\ m.id \in group'.sent
  BY LaterKnown
<1> HIDE DEF msgs
<1>7. \A m, n \in new : m.what = n.what => m = n
  BY <1>4, <1>5
<1>8. \A m \in new : m.what = Carrier \/ m.what \in Range(msgs)
  BY <1>4
<1>new. \A m \in new : m.id \notin orphans
  <2>1. Len(msgs) \in Nat /\ next \in Nat /\ orphans \subseteq 1 .. next - 1
    BY Collects DEF AlbumTypeOK, Ids, msgs
  <2>2. \A m \in Copies(msgs) : m.id \in next .. next + Len(msgs) - 1
    BY Sends DEF msgs
  <2> QED
    BY <1>4, <2>1, <2>2
<1> HIDE DEF new
\* A forgotten copy of an item that the album holds: the item was redelivered.
<1>9. ASSUME NEW m \in Known, m.id \in orphans, m.what \in Range(msgs)
      PROVE  m.what \in Range(again')
  <2>1. CASE m.what \in Range(group.items)
    BY <1>2, <1>9, <2>1 DEF OnceInv
  <2>2. CASE m.what = i
    <3>1. i \in handled
      BY <1>5, <2>2 DEF OnceInv
    <3> QED
      BY <1>2, <2>2, <3>1
  <2> QED
    BY <1>3, <1>9, <2>1, <2>2
<1>10. \A m \in Known : m.id \in orphans => answers
  BY <1>1 DEF OnceInv
<1>11. ASSUME NEW m \in Known', NEW n \in Known', m # n, m.what = n.what
       PROVE  /\ answers' /\ {m.id, n.id} \cap orphans' # {}
              /\ m.what \in Items => m.what \in Range(again')
  <2>1. CASE m \in Known /\ m.id \in orphans /\ n \in Known /\ n.id \in orphans
    <3>1. m.what \in Items => m.what \in Range(again)
      BY <1>11, <2>1 DEF OnceInv, EachItemOnce, Known
    <3> QED
      BY <1>1, <1>2, <1>10, <2>1, <3>1
  <2>2. CASE m \in Known /\ m.id \in orphans /\ n \in new
    BY <1>1, <1>5, <1>8, <1>9, <1>10, <1>11, <2>2
  <2>3. CASE n \in Known /\ n.id \in orphans /\ m \in new
    BY <1>1, <1>5, <1>8, <1>9, <1>10, <1>11, <2>3
  <2>4. CASE m \in new /\ n \in new
    BY <1>7, <1>11, <2>4
  <2> QED
    BY <1>6, <2>1, <2>2, <2>3, <2>4
<1>12. EachItemOnce'
  BY <1>11 DEF EachItemOnce, Known
<1>13. ASSUME NEW m \in Known'
       PROVE  /\ m.what = Carrier \/ m.what \in handled'
              /\ m.id \in orphans' \/ (flow' = "album" /\ m.id \in group'.sent)
              /\ m.id \in orphans' => answers' \/ flow' = "none"
              /\ m.id \in orphans' /\ m.what \in Range(group'.items) =>
                   m.what \in Range(again')
  <2>1. CASE m \in Known /\ m.id \in orphans
    BY <1>1, <1>2, <1>9, <1>10, <2>1 DEF OnceInv
  <2>2. CASE m \in new /\ m.id \in group'.sent
    <3>1. m.id \notin orphans
      BY <2>2, <1>new
    <3>2. Range(msgs) \subseteq handled'
      BY <1>2, <1>3 DEF OnceInv
    <3> QED
      BY <1>1, <1>8, <2>2, <3>1, <3>2
  <2> QED
    BY <1>6, <2>1, <2>2
<1> QED
  BY <1>1, <1>2, <1>3, <1>12, <1>13 DEF OnceInv

LEMMA OnceStep == AlbumTypeOK /\ OnceInv /\ [AlbumNext]_albumVars => OnceInv'
<1> SUFFICES ASSUME AlbumTypeOK, OnceInv, [AlbumNext]_albumVars PROVE OnceInv'
  OBVIOUS
<1>1. ASSUME stray \subseteq stray',
             \A m \in inbox' : m.what = Notify \/ m.id \in stray' \/ m \in inbox
      PROVE  Known' \subseteq Known
  BY <1>1 DEF Known
<1>2. ASSUME Known' \subseteq Known, UNCHANGED answers, orphans \subseteq orphans',
             Range(again) \subseteq Range(again')
      PROVE  EachItemOnce'
  <2>1. ASSUME NEW m \in Known', NEW n \in Known', m # n, m.what = n.what
        PROVE  /\ answers' /\ {m.id, n.id} \cap orphans' # {}
               /\ m.what \in Items => m.what \in Range(again')
    <3>1. /\ answers /\ {m.id, n.id} \cap orphans # {}
          /\ m.what \in Items => m.what \in Range(again)
      BY <1>2, <2>1 DEF OnceInv, EachItemOnce, Known
    <3> QED
      BY <1>2, <3>1
  <2> QED
    BY <2>1 DEF EachItemOnce, Known
\* The record stays.
<1>3. ASSUME stray \subseteq stray',
             \A m \in inbox' : m.what = Notify \/ m.id \in stray' \/ m \in inbox,
             UNCHANGED <<answers, flow, group, orphans, again, handled>>
      PROVE  OnceInv'
  <2>1. Known' \subseteq Known
    BY <1>1, <1>3
  <2>2. EachItemOnce'
    BY <1>2, <1>3, <2>1
  <2> QED
    BY <1>3, <2>1, <2>2 DEF OnceInv
\* The record is cleared.
<1>4. ASSUME Known' = Known, UNCHANGED answers, flow' = "none", group'.items = <<>>,
             orphans' = orphans \cup (IF flow = "album" THEN group.sent ELSE {}),
             Range(again) \subseteq Range(again'), handled \subseteq handled'
      PROVE  OnceInv'
  <2>1. EachItemOnce'
    BY <1>2, <1>4
  <2>2. Range(group'.items) = {}
    BY <1>4 DEF Range
  <2>3. \A m \in Known : m.id \in orphans'
    BY <1>4 DEF OnceInv
  <2>4. \A m \in Known : m.what = Carrier \/ m.what \in handled'
    BY <1>4 DEF OnceInv
  <2> HIDE DEF Known
  <2> QED
    BY <1>4, <2>1, <2>2, <2>3, <2>4 DEF OnceInv
<1>5. NoGroup.items = <<>> /\ (flow # "album" => group.items = <<>>)
  BY DEF NoGroup, AlbumTypeOK
<1>6. ASSUME NEW i \in Items, FirstItem(i) PROVE OnceInv'
  <2>1. /\ handled' = handled \cup {i} /\ Range(again) \subseteq Range(again')
        /\ i \in handled => i \in Range(again')
        /\ UNCHANGED <<answers, orphans>> /\ flow # "album"
        /\ flow = "composing" \/ answers
    BY <1>6, Redelivers DEF FirstItem
  <2>2. CASE flow' = "none" /\ UNCHANGED <<group, late, chats>>
    <3>1. Known' = Known
      BY <2>2 DEF Known, chats
    <3> QED
      BY <1>4, <1>5, <2>1, <2>2, <3>1
  <2>3. CASE /\ flow' = "album" /\ UNCHANGED stray
             /\ \E announced : /\ announced = IF answers THEN Made(next, <<Notify>>) ELSE {}
                               /\ inbox' = inbox \cup announced
                               /\ group' = [NoGroup EXCEPT !.items = <<i>>,
                                                           !.notify = IdsOf(announced)]
    <3>1. Known' \subseteq Known
      <4>1. \A m \in Made(next, <<Notify>>) : m.what = Notify
        BY DEF Made
      <4> QED
        BY <1>1, <2>3, <4>1
    <3>2. EachItemOnce'
      BY <1>2, <2>1, <3>1
    <3>3. Range(group'.items) = {i}
      <4>1. group'.items = <<i>>
        BY <2>3 DEF NoGroup
      <4>2. Range(<<i>>) = {i}
        BY DEF Range
      <4> QED
        BY <4>1, <4>2
    <3>4. \A m \in Known : m.id \in orphans /\ answers
      BY <2>1 DEF OnceInv
    <3>5. \A m \in Known : m.what = Carrier \/ m.what \in handled
      BY DEF OnceInv
    <3>6. Carrier \notin Items
      BY AlbumAssumption DEF Carrier, Items
    <3>7. \A m \in Known : m.what = i => i \in Range(again')
      BY <2>1, <3>5, <3>6
    <3> HIDE DEF Known
    <3> QED
      BY <2>1, <2>3, <3>1, <3>2, <3>3, <3>4, <3>5, <3>7 DEF OnceInv
  <2> QED
    BY <1>6, <2>2, <2>3 DEF FirstItem
<1>7. ASSUME NEW i \in Items, TooLate(i) PROVE OnceInv'
  <2>1. Known' = Known /\ handled' = handled \cup {i} /\ Range(again) \subseteq Range(again')
    BY <1>7, Redelivers DEF TooLate, chats, Known
  <2> QED
    BY <1>4, <1>5, <1>7, <2>1 DEF TooLate, Orphaned
<1>8. ASSUME NEW i \in Items, NotUnderstood(i) PROVE OnceInv'
  <2>1. Known' = Known /\ handled' = handled \cup {i} /\ Range(again) \subseteq Range(again')
    BY <1>8, Redelivers DEF NotUnderstood, chats, Known
  <2> QED
    BY <1>4, <1>5, <1>8, <2>1 DEF NotUnderstood
<1>9. CASE Elapse \/ UNCHANGED albumVars
  BY <1>3, <1>9 DEF Elapse, chats, albumVars
<1>10. CASE Forget
  <2>1. Known' = Known /\ UNCHANGED <<handled, again, answers>>
    BY <1>10 DEF Forget, chats, Known
  <2>2. CASE flow = "album"
    BY <1>4, <1>5, <1>10, <2>1, <2>2 DEF Forget, Orphaned
  <2>3. CASE flow # "album"
    <3>1. EachItemOnce'
      BY <1>2, <1>10, <2>1 DEF Forget, Orphaned
    <3>2. Range(group'.items) = {}
      BY <1>5, <1>10 DEF Forget, Orphaned, Range
    <3>3. \A m \in Known : m.id \in orphans' /\ (m.what = Carrier \/ m.what \in handled')
      BY <1>10, <2>1, <2>3 DEF OnceInv, Forget, Orphaned
    <3> HIDE DEF Known
    <3> QED
      BY <1>10, <2>1, <3>1, <3>2, <3>3 DEF OnceInv, Forget, Orphaned
  <2> QED
    BY <2>2, <2>3
<1>11. ASSUME NEW w \in warns, TapDelete(w) \/ TimerFires(w) PROVE OnceInv'
  BY <1>3, <1>11 DEF TapDelete, TimerFires
<1>12. ASSUME NEW w \in taps, DeleteMsg(w) PROVE OnceInv'
  BY <1>3, <1>12 DEF DeleteMsg, Without
<1>13. ASSUME NEW call \in outbox, Drain(call) PROVE OnceInv'
  BY <1>3, <1>13 DEF Drain, IdsOf
<1> QED
  BY <1>6, <1>7, <1>8, <1>9, <1>10, <1>11, <1>12, <1>13, LaterOnce DEF AlbumNext

\* The target sees no item and no carrier twice, but for copies that a failed call left
\* behind and for those of an album that answers a message, was forgotten and began anew
\* (sendMsgCore, handleMedia, dedupeSortMsgs).
THEOREM ItemsArriveOnce == AlbumSpec => []EachItemOnce
<1>1. AlbumInit => OnceInv
  <2> SUFFICES ASSUME AlbumInit PROVE OnceInv
    OBVIOUS
  <2>1. Known = {} /\ inbox = {}
    BY DEF AlbumInit, Known
  <2>2. Range(group.items) = {}
    BY DEF AlbumInit, NoGroup, Range
  <2> QED
    BY <2>1, <2>2 DEF OnceInv, EachItemOnce
<1>2. OnceInv => EachItemOnce
  BY DEF OnceInv
<1> QED
  BY <1>1, <1>2, OnceStep, AlbumTypeCorrect, PTL DEF AlbumSpec

-----------------------------------------------------------------------------
(* A whole album.                                                          *)

Shown == {m \in inbox : m.what # Notify}

\* As long as nothing failed and nothing came between: the target has what the album
\* counts as sent, which is each item so far and the carrier, in order, or only the
\* first item came and nothing was sent.
CleanInv ==
  faults = 0 /\ ~spoiled =>
    /\ outbox = {} /\ flow # "none"
    /\ handled = Range(group.items)
    /\ IdsOf(Shown) \subseteq group.sent
    /\ \/ Shown = {} /\ \A i, j \in handled : i = j
       \/ flow = "album" /\ {m.what : m \in Shown} = handled \cup {Carrier}
    /\ \A m, n \in Shown : m.id < n.id <=> m.what < n.what

LEMMA ItemsAreShown == Notify \notin Items /\ Carrier # Notify /\ Carrier \in Nat /\ Items \subseteq Nat
BY AlbumAssumption DEF Notify, Items, Carrier

\* An item handled without a failure leaves the items so far and the carrier.
LEMMA NextItemClean ==
  ASSUME AlbumTypeOK, CleanInv, faults = 0, ~spoiled, NEW i \in Items, NextItem(i, FALSE)
  PROVE  CleanInv'
<1> DEFINE msgs == Collect(group.items, i)
<1>1. /\ Copies(msgs) \subseteq [id : next .. next + Len(msgs) - 1, what : Items]
      /\ CarrierOf(msgs) = {[id |-> next + Len(msgs), what |-> Carrier]}
      /\ {m.what : m \in Copies(msgs)} = Range(group.items) \cup {i}
      /\ \A m, n \in Copies(msgs) : m.id < n.id <=> m.what < n.what
  BY Sends
<1>2. /\ Range(msgs) = Range(group.items) \cup {i}
      /\ Len(msgs) \in Nat /\ next \in Nat
  BY Collects DEF AlbumTypeOK
<1>3. /\ inbox' = Without(group.sent) \cup Copies(msgs) \cup CarrierOf(msgs)
      /\ flow' = "album" /\ UNCHANGED outbox /\ handled' = handled \cup {i}
      /\ group'.items = msgs
      /\ group'.sent = IdsOf(Copies(msgs) \cup CarrierOf(msgs))
  BY DEF NextItem, GoesThrough, Kept, Stale, Joins, Arrives, AlbumTypeOK
<1> HIDE DEF msgs
<1>4. /\ outbox = {} /\ handled = Range(group.items)
      /\ \A m \in inbox : m.what # Notify => m.id \in group.sent
  BY DEF CleanInv, Shown, IdsOf
<1>5. Shown' = Copies(msgs) \cup CarrierOf(msgs)
  <2>1. \A m \in Copies(msgs) \cup CarrierOf(msgs) : m.what # Notify
    BY <1>1, ItemsAreShown
  <2>2. \A m \in Without(group.sent) : m.what = Notify
    BY <1>4 DEF Without
  <2> QED
    BY <1>3, <2>1, <2>2 DEF Shown
<1>6. {m.what : m \in Shown'} = handled' \cup {Carrier}
  <2>1. {m.what : m \in Shown'} = {m.what : m \in Copies(msgs)} \cup {m.what : m \in CarrierOf(msgs)}
    BY <1>5
  <2>2. {m.what : m \in CarrierOf(msgs)} = {Carrier}
    BY <1>1
  <2> QED
    BY <1>1, <1>3, <1>4, <2>1, <2>2
<1>7. ASSUME NEW m \in Shown', NEW n \in Shown' PROVE m.id < n.id <=> m.what < n.what
  <2>1. \A x \in Copies(msgs) : /\ x.id \in Nat /\ x.id < next + Len(msgs)
                                /\ x.what \in Nat /\ x.what < Carrier
    <3>1. \A k \in Items : k \in Nat /\ k < Carrier
      BY AlbumAssumption DEF Items, Carrier
    <3> QED
      BY <1>1, <1>2, <3>1
  <2>2. \A x \in CarrierOf(msgs) : x.id = next + Len(msgs) /\ x.what = Carrier
    BY <1>1
  <2>3. CASE m \in Copies(msgs) /\ n \in Copies(msgs)
    BY <1>1, <2>3
  <2>4. CASE m \in Copies(msgs) /\ n \in CarrierOf(msgs)
    BY <2>1, <2>2, <2>4
  <2>5. CASE m \in CarrierOf(msgs) /\ n \in Copies(msgs)
    <3>1. n.id < m.id /\ n.what < m.what /\ n.id \in Nat /\ n.what \in Nat
      BY <2>1, <2>2, <2>5
    <3>2. m.id \in Nat /\ m.what \in Nat
      BY <1>2, <2>2, <2>5, ItemsAreShown
    <3> QED
      BY <3>1, <3>2
  <2>6. CASE m \in CarrierOf(msgs) /\ n \in CarrierOf(msgs)
    BY <1>2, <2>2, <2>6, ItemsAreShown
  <2> QED
    BY <1>5, <2>3, <2>4, <2>5, <2>6
<1>8. IdsOf(Shown)' \subseteq group'.sent
  BY <1>3, <1>5 DEF IdsOf
<1> QED
  BY <1>2, <1>3, <1>4, <1>6, <1>7, <1>8 DEF CleanInv

LEMMA CleanStep == AlbumTypeOK /\ CleanInv /\ [AlbumNext]_albumVars => CleanInv'
<1> SUFFICES ASSUME AlbumTypeOK, CleanInv, [AlbumNext]_albumVars,
                    faults' = 0, ~spoiled'
             PROVE  CleanInv'
  BY DEF CleanInv
<1>1. ASSUME UNCHANGED <<outbox, flow, handled, group, inbox>>, faults = 0, ~spoiled
      PROVE  CleanInv'
  BY <1>1 DEF CleanInv, Shown, IdsOf
<1>2. ASSUME NEW i \in Items, FirstItem(i) PROVE CleanInv'
  <2>1. PICK announced :
          /\ announced = IF answers THEN Made(next, <<Notify>>) ELSE {}
          /\ flow' = "album"
          /\ group' = [NoGroup EXCEPT !.items = <<i>>, !.notify = IdsOf(announced)]
          /\ inbox' = inbox \cup announced
          /\ UNCHANGED <<outbox, spoiled, faults>>
          /\ handled' = handled \cup {i}
    BY <1>2 DEF FirstItem, Arrives
  <2>2. faults = 0 /\ ~spoiled /\ flow = "composing" /\ group.items = <<>>
    BY <1>2, <2>1 DEF FirstItem, CleanInv, AlbumTypeOK
  <2>3. handled = {} /\ Shown = {} /\ outbox = {}
    BY <2>2 DEF CleanInv, Range
  <2>4. Shown' = {}
    <3>1. \A m \in announced : m.what = Notify
      BY <2>1 DEF Made
    <3> QED
      BY <2>1, <2>3, <3>1 DEF Shown
  <2>5. handled' = Range(group'.items) /\ handled' = {i}
    <3>1. group'.items = <<i>>
      BY <2>1 DEF NoGroup
    <3>2. Range(<<i>>) = {i}
      BY DEF Range
    <3> QED
      BY <2>1, <2>3, <3>1, <3>2
  <2> QED
    BY <2>1, <2>3, <2>4, <2>5 DEF CleanInv, IdsOf
<1>3. ASSUME NEW i \in Items, LaterItem(i) PROVE CleanInv'
  <2>1. PICK undeleted \in BOOLEAN :
          \/ CopyFails(i, undeleted) \/ StopsAfterCopying(i, undeleted)
          \/ WarningFails(i, undeleted) \/ NextItem(i, undeleted)
    BY <1>3 DEF LaterItem
  <2>2. Copyable(Collect(group.items, i))
    BY Collects
  <2>3. PICK failures \in {0, 1} :
          /\ Joins(i, undeleted, failures)
          /\ failures = 0 => NextItem(i, undeleted)
    BY <2>1, <2>2 DEF CopyFails, StopsAfterCopying, WarningFails, NextItem, GoesThrough
  <2>4. faults' = faults + (failures + IF undeleted THEN 1 ELSE 0) /\ UNCHANGED spoiled
    BY <2>3 DEF Joins, Failing
  <2>5. faults = 0 /\ failures = 0 /\ undeleted = FALSE
    BY <2>3, <2>4 DEF AlbumTypeOK
  <2> QED
    BY <2>3, <2>4, <2>5, NextItemClean
<1>4. ASSUME NEW i \in Items, NotUnderstood(i) PROVE FALSE
  BY <1>4 DEF NotUnderstood, CleanInv
<1>5. ASSUME NEW i \in Items, TooLate(i) PROVE FALSE
  BY <1>5 DEF TooLate, Orphaned
<1>6. CASE Elapse \/ UNCHANGED albumVars
  BY <1>1, <1>6 DEF Elapse, chats, albumVars
<1>7. ASSUME NEW w \in warns, TapDelete(w) \/ TimerFires(w) PROVE CleanInv'
  BY <1>1, <1>7 DEF TapDelete, TimerFires
<1>8. ASSUME NEW call \in outbox, Drain(call) PROVE FALSE
  BY <1>8 DEF Drain, CleanInv
<1>9. ~Forget /\ \A w \in taps : ~DeleteMsg(w)
  BY DEF Forget, Orphaned, DeleteMsg
<1> QED
  BY <1>2, <1>3, <1>4, <1>5, <1>6, <1>7, <1>8, <1>9 DEF AlbumNext

\* An album whose items were all handled, with no failure and nothing in between, is
\* with the target whole, in order, and followed by its carrier (handleMedia).
THEOREM AlbumsArriveWhole == AlbumSpec => []CompleteAlbumArrives
<1>1. AlbumInit => CleanInv
  <2> SUFFICES ASSUME AlbumInit PROVE CleanInv
    OBVIOUS
  <2>1. Shown = {} /\ handled = {} /\ outbox = {} /\ flow = "composing"
    BY DEF AlbumInit, Shown
  <2>2. Range(group.items) = {}
    BY DEF AlbumInit, NoGroup, Range
  <2> QED
    BY <2>1, <2>2 DEF CleanInv, IdsOf
<1>2. CleanInv => CompleteAlbumArrives
  <2> SUFFICES ASSUME CleanInv, handled = Items, faults = 0, ~spoiled
               PROVE  /\ {m.what : m \in Shown} = Items \cup {Carrier}
                      /\ \A m, n \in Shown : m.id < n.id <=> m.what < n.what
    BY DEF CompleteAlbumArrives, Shown
  <2>1. 1 \in Items /\ 2 \in Items
    BY AlbumAssumption DEF Items
  <2> QED
    BY <2>1 DEF CleanInv
<1> QED
  BY <1>1, <1>2, CleanStep, AlbumTypeCorrect, PTL DEF AlbumSpec
=============================================================================
