--------------------------- MODULE KeyboardsProof ---------------------------
(***************************************************************************)
(* The laws of the buttons under delivered messages, for every number of   *)
(* messages, taps and failures.                                            *)
(*                                                                         *)
(* A tap that waits is on a button its snapshot shows, whatever the        *)
(* message shows by now: so the handler of block and unblock turns the     *)
(* button to what it made of the table.  The seen button is used once the  *)
(* sender was told, unless one of the named causes excuses it.             *)
(***************************************************************************)
EXTENDS Keyboards, TLAPS

USE KeyboardsAssumption

Lapses == {"stale", "edit", "problem", "refused"}
Offs   == {"elsewhere", "edit", "stale", "unread"}

-----------------------------------------------------------------------------
(* What waits.                                                             *)

\* A waiting tap is on a button that its snapshot shows, of a message that was delivered.
RealTap(u) ==
  u.what \in Button =>
    /\ u.what \in Buttons(u.on, u.snapshot)
    /\ u.on = Again => u.snapshot.seen = "off"
    /\ kb[u.on] # NoKeyboard

Waiting == 1 .. Len(inbox)

\* At most one command to unblock from a link waits, and while it does there is no
\* message with the button to block again; that message has no seen button.
TapsAreReal ==
  /\ \A i \in Waiting : RealTap(inbox[i])
  /\ \A i, j \in Waiting :
       inbox[i].what = "startUnblock" /\ inbox[j].what = "startUnblock" => i = j
  /\ \A i \in Waiting : inbox[i].what = "startUnblock" => kb[Again] = NoKeyboard
  /\ kb[Again].seen = "off"

BoardsInv == TypeOK /\ TapsAreReal

\* What the buttons of a keyboard are.
LEMMA ShownButtons ==
  ASSUME NEW m \in Boards, NEW k \in Keyboard, NEW b \in Buttons(m, k)
  PROVE  /\ b = "seen" => k.seen = "button"
         /\ b \in {"block", "unblock"} => k.row = b
         /\ b = "expand" => k.row = "closed"
         /\ b \in Button
BY DEF Buttons, Keyboard, Button

\* A tap names a message and a keyboard that shows its button.
LEMMA TapIsReal ==
  ASSUME NEW u \in Update, RealTap(u), u.what \in Button
  PROVE  /\ u.on \in Boards /\ u.snapshot \in Keyboard
         /\ u.what = "seen" => u.snapshot.seen = "button" /\ u.on \in Msgs
         /\ u.what \in {"block", "unblock"} => u.snapshot.row = u.what
<1>1. u.on \in Boards /\ u.snapshot \in Keyboard
  BY DEF Update, Commands, Button
<1>2. u.what \in Buttons(u.on, u.snapshot) /\ (u.on = Again => u.snapshot.seen = "off")
  BY DEF RealTap
<1> QED
  BY <1>1, <1>2, ShownButtons DEF Boards

\* The oldest update, and those that remain.
LEMMA OldestFirst ==
  ASSUME TypeOK, inbox # <<>>
  PROVE  /\ Head(inbox) \in Update /\ Head(inbox) = inbox[1] /\ 1 \in Waiting
         /\ Tail(inbox) \in Seq(Update)
         /\ \A i \in 1 .. Len(Tail(inbox)) :
              Tail(inbox)[i] = inbox[i + 1] /\ i + 1 \in Waiting
BY DEF TypeOK, Waiting

-----------------------------------------------------------------------------
(* What the handlers do to the keyboards.                                  *)

BoardsTyped ==
  /\ kb \in [Boards -> Keyboard] /\ faults \in 0..MaxFaults
  /\ lapse \in [Boards -> SUBSET Lapses] /\ off \in [Boards -> SUBSET Offs]

LEMMA TypedBoards == TypeOK => BoardsTyped
BY DEF TypeOK, BoardsTyped, Lapses, Offs

\* The other keyboards are as they were, and what may be wrong with them as in base.
OthersAsWere(m, base) ==
  \A n \in Boards \ {m} : kb'[n] = kb[n] /\ lapse'[n] = lapse[n] /\ off'[n] = base[n]

\* The keyboard k is drawn from a snapshot whose seen button was s.
Drawn(m, k, s) ==
  /\ kb'[m] = k
  /\ s = kb[m].seen \/ "stale" \in lapse'[m]

NotDrawn(m) == kb'[m] = kb[m] /\ "edit" \in lapse'[m] /\ "edit" \in off'[m]

\* An edit draws the new keyboard or leaves the old one, and a failure is noted.
LEMMA RedrawDoes ==
  ASSUME TypeOK, NEW u \in Update, u.on \in Boards, NEW k \in Keyboard,
         NEW base \in [Boards -> SUBSET Offs], NEW wrong \in SUBSET Offs,
         NEW C \in SUBSET Lapses, Redraw(u, k, base, wrong, C)
  PROVE  /\ BoardsTyped' /\ OthersAsWere(u.on, base)
         /\ lapse[u.on] \cup C \subseteq lapse'[u.on]
         /\ \/ Drawn(u.on, k, u.snapshot.seen) /\ off'[u.on] = wrong
            \/ NotDrawn(u.on)
<1> DEFINE m == u.on  s == u.snapshot.seen
<1>0. BoardsTyped /\ m \in Boards
  BY TypedBoards
<1>1. CASE /\ kb' = [kb EXCEPT ![u.on] = k]
           /\ lapse' = [lapse EXCEPT ![u.on] =
                 @ \cup C \cup (IF u.snapshot.seen = kb[u.on].seen THEN {} ELSE {"stale"})]
           /\ off' = [base EXCEPT ![u.on] = wrong]
           /\ UNCHANGED faults
  <2> DEFINE S == IF s = kb[m].seen THEN {} ELSE {"stale"}
  <2>1. S \in SUBSET Lapses /\ (s = kb[m].seen \/ "stale" \in S)
    BY DEF Lapses
  <2>2. lapse' = [lapse EXCEPT ![m] = @ \cup C \cup S]
    BY <1>1
  <2> HIDE DEF S, m, s
  <2>3. /\ lapse' \in [Boards -> SUBSET Lapses] /\ lapse'[m] = lapse[m] \cup C \cup S
        /\ \A n \in Boards \ {m} : lapse'[n] = lapse[n]
    BY <1>0, <2>1, <2>2 DEF BoardsTyped
  <2>4. /\ kb' \in [Boards -> Keyboard] /\ kb'[m] = k
        /\ off' \in [Boards -> SUBSET Offs] /\ off'[m] = wrong
        /\ \A n \in Boards \ {m} : kb'[n] = kb[n] /\ off'[n] = base[n]
    BY <1>0, <1>1 DEF BoardsTyped, m
  <2> QED
    BY <1>0, <1>1, <2>1, <2>3, <2>4 DEF BoardsTyped, OthersAsWere, Drawn, m, s
<1>2. CASE /\ Fault
           /\ lapse' = [lapse EXCEPT ![u.on] = @ \cup C \cup {"edit"}]
           /\ off' = [base EXCEPT ![u.on] = @ \cup {"edit"}]
           /\ UNCHANGED kb
  <2>1. "edit" \in Lapses /\ "edit" \in Offs
    BY DEF Lapses, Offs
  <2> HIDE DEF m, s
  <2>2. /\ lapse' \in [Boards -> SUBSET Lapses] /\ lapse'[m] = lapse[m] \cup C \cup {"edit"}
        /\ \A n \in Boards \ {m} : lapse'[n] = lapse[n]
    BY <1>0, <1>2, <2>1 DEF BoardsTyped, m
  <2>3. /\ off' \in [Boards -> SUBSET Offs] /\ "edit" \in off'[m]
        /\ \A n \in Boards \ {m} : off'[n] = base[n]
    BY <1>0, <1>2, <2>1 DEF m
  <2>4. faults' \in 0..MaxFaults
    BY <1>0, <1>2 DEF Fault, BoardsTyped
  <2> QED
    BY <1>0, <1>2, <2>2, <2>3, <2>4 DEF BoardsTyped, OthersAsWere, NotDrawn, m
<1> QED
  BY <1>1, <1>2 DEF Redraw

LEMMA OffAfterTyped ==
  ASSUME TypeOK, NEW b \in BOOLEAN
  PROVE  /\ OffAfter(b) \in [Boards -> SUBSET Offs]
         /\ b = blocked => OffAfter(b) = off
         /\ b # blocked => \A m \in Boards : OffAfter(b)[m] # {}
BY DEF TypeOK, OffAfter, Offs

\* Block and unblock draw the button as they left the table.
LEMMA BlockDoes ==
  ASSUME BoardsInv, NEW u \in Update, RealTap(u), Block(u)
  PROVE  /\ u.on \in Boards /\ u.what \in Button /\ blocked' \in BOOLEAN /\ UNCHANGED seenVars
         /\ popup' = IF popup' = "problem" THEN "problem"
                     ELSE IF blocked' THEN "blocked" ELSE "unblocked"
         /\ \/ SetFails(AfterTap(u.what))
            \/ \E k \in Keyboard :
                 /\ k # NoKeyboard /\ k.seen = u.snapshot.seen
                 /\ k.row = IF blocked' THEN "unblock" ELSE "block"
                 /\ Redraw(u, k, OffAfter(blocked'), {}, {})
<1>1. u.on \in Boards /\ u.snapshot \in Keyboard /\ u.snapshot.row = u.what
      /\ u.what \in {"block", "unblock"} /\ UNCHANGED seenVars
  BY TapIsReal DEF Block, Button
<1>2. CASE SetFails(AfterTap(u.what))
  BY <1>1, <1>2 DEF SetFails, AfterTap, TypeOK, BoardsInv, Button
<1>3. CASE /\ blocked' = AfterTap(u.what)
           /\ popup' = IF u.what = "block" THEN "blocked" ELSE "unblocked"
           /\ Redraw(u, Swapped(u.snapshot), OffAfter(blocked'), {}, {})
  <2>1. blocked' \in BOOLEAN /\ blocked' = (u.what = "block")
    BY <1>3 DEF AfterTap
  <2>2. /\ Swapped(u.snapshot) \in Keyboard /\ Swapped(u.snapshot) # NoKeyboard
        /\ Swapped(u.snapshot).seen = u.snapshot.seen
        /\ Swapped(u.snapshot).row = IF u.what = "block" THEN "unblock" ELSE "block"
    BY <1>1 DEF Swapped, Keyboard, NoKeyboard
  <2> QED
    BY <1>1, <1>3, <2>1, <2>2 DEF Button
<1> QED
  BY <1>2, <1>3 DEF Block

\* The toggle draws the button as the table stands, unless it could not be read.
LEMMA ToggleDoes ==
  ASSUME BoardsInv, NEW u \in Update, RealTap(u), Toggle(u)
  PROVE  /\ u.on \in Boards /\ u.what \in Button
         /\ \E k \in Keyboard, wrong \in SUBSET Offs :
              /\ k # NoKeyboard /\ k.seen = u.snapshot.seen
              /\ \/ k.row = "closed"
                 \/ k.row = IF blocked THEN "unblock" ELSE "block"
                 \/ wrong # {}
              /\ Redraw(u, k, off, wrong, {})
<1>1. u.on \in Boards /\ u.snapshot \in Keyboard /\ u.what \in Button
      /\ u.what \in {"expand", "collapse"}
  BY TapIsReal DEF Toggle, Button
<1>2. CASE Redraw(u, [u.snapshot EXCEPT !.row = "closed"], off, {}, {})
  <2> DEFINE k == [u.snapshot EXCEPT !.row = "closed"]
  <2>1. k \in Keyboard /\ k # NoKeyboard /\ k.seen = u.snapshot.seen /\ k.row = "closed"
    BY <1>1 DEF Keyboard, NoKeyboard
  <2>2. {} \in SUBSET Offs /\ Redraw(u, k, off, {}, {})
    BY <1>2
  <2> HIDE DEF k
  <2> QED
    BY <1>1, <2>1, <2>2
<1>3. ASSUME NEW read \in BOOLEAN,
             Redraw(u, [u.snapshot EXCEPT !.row = IF read /\ blocked THEN "unblock" ELSE "block"],
                    off, IF read THEN {} ELSE {"unread"}, {})
      PROVE  \E k \in Keyboard, wrong \in SUBSET Offs :
               /\ k # NoKeyboard /\ k.seen = u.snapshot.seen
               /\ k.row = (IF blocked THEN "unblock" ELSE "block") \/ wrong # {}
               /\ Redraw(u, k, off, wrong, {})
  <2> DEFINE k == [u.snapshot EXCEPT !.row = IF read /\ blocked THEN "unblock" ELSE "block"]
             wrong == IF read THEN {} ELSE {"unread"}
  <2>1. /\ k \in Keyboard /\ k # NoKeyboard /\ k.seen = u.snapshot.seen
        /\ k.row = IF read /\ blocked THEN "unblock" ELSE "block"
    BY <1>1 DEF Keyboard, NoKeyboard
  <2>2. wrong \in SUBSET Offs /\ (read \/ wrong # {})
    BY DEF Offs
  <2>3. Redraw(u, k, off, wrong, {})
    BY <1>3
  <2> HIDE DEF k, wrong
  <2> QED
    BY <2>1, <2>2, <2>3
<1> QED
  BY <1>1, <1>2, <1>3 DEF Toggle

\* Seen draws the used button among the rows of the snapshot, and the notice arrived or
\* was refused; or it ends in an alert or a problem.
Confirmed(u) ==
  \E k \in Keyboard, wrong \in SUBSET Offs, C \in SUBSET Lapses :
    /\ k.seen = "done" /\ k.row = u.snapshot.row
    /\ (u.snapshot.row = kb[u.on].row /\ wrong = off[u.on]) \/ wrong # {}
    /\ Redraw(u, k, off, wrong, C)
    /\ queued' = queued /\ promised' = promised \cup {u.on}
    /\ Arrives(u.on) \/ ("refused" \in C /\ notices' = notices)

Problem(u) ==
  /\ Fault
  /\ Arrives(u.on) \/ UNCHANGED notices
  /\ queued' \in {queued, queued \cup {u.on}}
  /\ lapse' = [lapse EXCEPT ![u.on] = @ \cup {"problem"}]
  /\ UNCHANGED <<kb, off, promised>>

LEMMA SeenDoes ==
  ASSUME BoardsInv, NEW u \in Update, RealTap(u), Seen(u)
  PROVE  /\ u.on \in Msgs /\ u.what \in Button /\ u.snapshot.seen = "button"
         /\ UNCHANGED <<blocked, popup>>
         /\ \/ UNCHANGED <<kb, faults, seenVars, lapse, off>>
            \/ Confirmed(u)
            \/ Problem(u)
<1>1. u.on \in Msgs /\ u.what \in Button /\ u.snapshot.seen = "button"
      /\ u.snapshot \in Keyboard
  BY TapIsReal DEF Seen, Button
<1>2. ASSUME NEW C \in SUBSET Lapses, Confirm(u, C), queued' = queued,
             Arrives(u.on) \/ ("refused" \in C /\ notices' = notices)
      PROVE  Confirmed(u)
  <2> DEFINE k == SeenDone(u.snapshot)
             wrong == off[u.on] \cup (IF u.snapshot.row = kb[u.on].row THEN {} ELSE {"stale"})
  <2>1. k \in Keyboard /\ k.seen = "done" /\ k.row = u.snapshot.row
    BY <1>1 DEF SeenDone, Keyboard
  <2>2. off[u.on] \in SUBSET Offs
    BY <1>1 DEF BoardsInv, TypeOK, Offs, Boards
  <2>3. /\ wrong \in SUBSET Offs
        /\ (u.snapshot.row = kb[u.on].row /\ wrong = off[u.on]) \/ wrong # {}
    <3>1. CASE u.snapshot.row = kb[u.on].row
      BY <2>2, <3>1
    <3>2. CASE u.snapshot.row # kb[u.on].row
      BY <2>2, <3>2 DEF Offs
    <3> QED
      BY <3>1, <3>2
  <2>4. Redraw(u, k, off, wrong, C) /\ promised' = promised \cup {u.on}
    BY <1>2 DEF Confirm
  <2> HIDE DEF k, wrong
  <2> QED
    BY <1>2, <2>1, <2>3, <2>4 DEF Confirmed
<1>3. {} \in SUBSET Lapses /\ {"refused"} \in SUBSET Lapses
  BY DEF Lapses
<1>4. Notice(u) => Confirmed(u) \/ Problem(u)
  BY <1>2, <1>3 DEF Notice, Problem
<1> QED
  BY <1>1, <1>4 DEF Seen

Handler(u) == Block(u) \/ Toggle(u) \/ Seen(u) \/ UnblockAll(u) \/ StartUnblock(u)

\* A message keeps a keyboard, and the one with the button to block again comes from
\* the command to unblock and has no seen button.
KeyboardsStay(u) ==
  /\ BoardsTyped'
  /\ \A m \in Boards : kb[m] # NoKeyboard => kb'[m] # NoKeyboard
  /\ kb[Again] = NoKeyboard /\ u.what # "startUnblock" => kb'[Again] = NoKeyboard
  /\ kb'[Again].seen = "off"

LEMMA KeyboardsDrawnStay ==
  ASSUME BoardsInv, NEW u \in Update, RealTap(u), u.what \in Button,
         NEW k \in Keyboard, k # NoKeyboard, k.seen = u.snapshot.seen \/ u.on # Again,
         NEW base \in [Boards -> SUBSET Offs], NEW wrong \in SUBSET Offs,
         NEW C \in SUBSET Lapses, Redraw(u, k, base, wrong, C)
  PROVE  KeyboardsStay(u)
<1>1. /\ u.on \in Boards /\ kb[u.on] # NoKeyboard
      /\ u.on = Again => u.snapshot.seen = "off"
  BY TapIsReal DEF RealTap
<1>2. /\ BoardsTyped' /\ OthersAsWere(u.on, base)
      /\ kb'[u.on] = k \/ kb'[u.on] = kb[u.on]
  <2>1. TypeOK
    BY DEF BoardsInv
  <2>2. /\ BoardsTyped' /\ OthersAsWere(u.on, base)
        /\ \/ Drawn(u.on, k, u.snapshot.seen) /\ off'[u.on] = wrong
           \/ NotDrawn(u.on)
    BY <1>1, <2>1, RedrawDoes
  <2> QED
    BY <2>2 DEF Drawn, NotDrawn
<1>3. Again \in Boards
  BY DEF Boards
<1> QED
  BY <1>1, <1>2, <1>3 DEF KeyboardsStay, OthersAsWere, BoardsInv, TapsAreReal

LEMMA NoticesTyped ==
  ASSUME TypeOK, NEW m \in Msgs, Arrives(m)
  PROVE  /\ notices' \in [Msgs -> 0..2] /\ notices'[m] > 0
         /\ \A n \in Msgs \ {m} : notices'[n] = notices[n]
BY DEF TypeOK, Arrives

LEMMA HandlersKeepTypes ==
  ASSUME BoardsInv, NEW u \in Update, RealTap(u), Handler(u)
  PROVE  /\ KeyboardsStay(u)
         /\ blocked' \in BOOLEAN /\ popup' \in {"none", "blocked", "unblocked", "problem"}
         /\ notices' \in [Msgs -> 0..2] /\ queued' \subseteq Msgs /\ promised' \subseteq Msgs
<1>0. /\ {} \in SUBSET Lapses /\ {} \in SUBSET Offs
      /\ off \in [Boards -> SUBSET Offs] /\ BoardsTyped
      /\ \A b \in BOOLEAN : OffAfter(b) \in [Boards -> SUBSET Offs]
      /\ Msgs \subseteq Boards /\ Again \in Boards
  BY OffAfterTyped, TypedBoards DEF BoardsInv, BoardsTyped, Boards
<1>1. ASSUME UNCHANGED kb, BoardsTyped' PROVE KeyboardsStay(u)
  BY <1>1 DEF KeyboardsStay, BoardsInv, TapsAreReal
<1>2. ASSUME NEW b \in BOOLEAN, SetFails(b)
      PROVE  KeyboardsStay(u) /\ blocked' \in BOOLEAN /\ popup' = "problem"
  BY <1>0, <1>1, <1>2 DEF SetFails, Fault, BoardsInv, BoardsTyped, TypeOK
<1>3. UNCHANGED seenVars => /\ notices' \in [Msgs -> 0..2]
                            /\ queued' \subseteq Msgs /\ promised' \subseteq Msgs
  BY DEF seenVars, BoardsInv, TypeOK
<1>4. CASE Block(u)
  <2>1. CASE SetFails(AfterTap(u.what))
    BY <1>2, <1>3, <1>4, <2>1 DEF AfterTap, Block
  <2>2. CASE ~SetFails(AfterTap(u.what))
    <3>1. PICK k \in Keyboard :
            /\ k # NoKeyboard /\ k.seen = u.snapshot.seen
            /\ Redraw(u, k, OffAfter(blocked'), {}, {})
      BY <1>4, <2>2, BlockDoes
    <3>2. blocked' \in BOOLEAN /\ u.what \in Button
      BY <1>4, BlockDoes
    <3>3. KeyboardsStay(u)
      BY <1>0, <3>1, <3>2, KeyboardsDrawnStay
    <3> QED
      BY <1>3, <1>4, <2>2, <3>2, <3>3 DEF Block
  <2> QED
    BY <2>1, <2>2
<1>5. CASE Toggle(u)
  <2>1. PICK k \in Keyboard, wrong \in SUBSET Offs :
          k # NoKeyboard /\ k.seen = u.snapshot.seen /\ Redraw(u, k, off, wrong, {})
    BY <1>5, ToggleDoes
  <2>2. KeyboardsStay(u)
    BY <1>0, <1>5, <2>1, ToggleDoes, KeyboardsDrawnStay
  <2> QED
    BY <1>3, <1>5, <2>2 DEF Toggle, BoardsInv, TypeOK
<1>6. CASE Seen(u)
  <2>1. u.on \in Msgs /\ u.what \in Button /\ UNCHANGED <<blocked, popup>>
    BY <1>6, SeenDoes
  <2>2. CASE UNCHANGED <<kb, faults, seenVars, lapse, off>>
    BY <1>0, <1>1, <1>3, <2>1, <2>2 DEF BoardsTyped, BoardsInv, TypeOK
  <2>3. CASE Confirmed(u)
    <3>1. PICK k \in Keyboard, wrong \in SUBSET Offs, C \in SUBSET Lapses :
            /\ k.seen = "done" /\ Redraw(u, k, off, wrong, C)
            /\ queued' = queued /\ promised' = promised \cup {u.on}
            /\ Arrives(u.on) \/ notices' = notices
      BY <2>3 DEF Confirmed
    <3>2. k # NoKeyboard /\ u.on # Again
      BY <2>1, <3>1 DEF NoKeyboard
    <3>3. KeyboardsStay(u)
      BY <1>0, <2>1, <3>1, <3>2, KeyboardsDrawnStay
    <3> QED
      BY <2>1, <3>1, <3>3, NoticesTyped DEF BoardsInv, TypeOK
  <2>4. CASE Problem(u)
    <3>1. BoardsTyped'
      BY <1>0, <2>1, <2>4 DEF Problem, Fault, BoardsTyped, Lapses
    <3> QED
      BY <1>1, <2>1, <2>4, <3>1, NoticesTyped DEF Problem, BoardsInv, TypeOK
  <2> QED
    BY <1>6, <2>2, <2>3, <2>4, SeenDoes
<1>7. CASE UnblockAll(u)
  <2>1. CASE SetFails(FALSE)
    BY <1>2, <1>3, <1>7, <2>1 DEF UnblockAll
  <2>2. CASE /\ blocked' = FALSE /\ popup' = "unblocked"
             /\ off' = OffAfter(FALSE) /\ UNCHANGED <<kb, faults, lapse>>
    BY <1>0, <1>1, <1>3, <1>7, <2>2 DEF BoardsTyped, UnblockAll
  <2> QED
    BY <1>7, <2>1, <2>2 DEF UnblockAll
<1>8. CASE StartUnblock(u)
  <2>1. CASE SetFails(FALSE)
    BY <1>2, <1>3, <1>8, <2>1 DEF StartUnblock
  <2>2. CASE /\ blocked' = FALSE /\ popup' = "unblocked"
             /\ kb' = IF blocked THEN [kb EXCEPT ![Again] = [seen |-> "off", row |-> "block"]]
                      ELSE kb
             /\ off' = [OffAfter(FALSE) EXCEPT ![Again] = {}]
             /\ UNCHANGED <<faults, lapse>>
    <3>1. OffAfter(FALSE) \in [Boards -> SUBSET Offs]
      BY <1>0
    <3>2. off' \in [Boards -> SUBSET Offs]
      BY <1>0, <2>2, <3>1
    <3>3. [seen |-> "off", row |-> "block"] \in Keyboard \ {NoKeyboard}
      BY DEF Keyboard, NoKeyboard
    <3>4. kb' \in [Boards -> Keyboard] /\ kb'[Again].seen = "off"
          /\ \A m \in Boards : kb[m] # NoKeyboard => kb'[m] # NoKeyboard
      BY <1>0, <2>2, <3>3 DEF BoardsTyped, BoardsInv, TapsAreReal
    <3> QED
      BY <1>0, <1>3, <1>8, <2>2, <3>2, <3>4 DEF BoardsTyped, KeyboardsStay, StartUnblock
  <2> QED
    BY <1>8, <2>1, <2>2 DEF StartUnblock
<1> QED
  BY <1>4, <1>5, <1>6, <1>7, <1>8 DEF Handler

-----------------------------------------------------------------------------
(* The invariant of the keyboards.                                         *)

\* What is handled is an update of the recipient on a button that was shown.
LEMMA HandledIsReal ==
  ASSUME BoardsInv, Handle
  PROVE  \E u \in Update :
           /\ u = Head(inbox) /\ u = inbox[1] /\ RealTap(u) /\ Handler(u)
           /\ inbox # <<>> /\ inbox' = Tail(inbox) /\ updates' = updates
<1>1. Head(inbox) \in Update /\ Head(inbox) = inbox[1] /\ 1 \in Waiting
  BY OldestFirst DEF Handle, BoardsInv
<1> QED
  BY <1>1 DEF Handle, Handler, BoardsInv, TapsAreReal

\* Taps stay real while keyboards stay.
LEMMA RealTapsStay ==
  ASSUME TypeOK, NEW u \in Update, RealTap(u),
         \A m \in Boards : kb[m] # NoKeyboard => kb'[m] # NoKeyboard
  PROVE  RealTap(u)'
<1>1. u.what \in Button => u.on \in Boards
  BY DEF Update, Commands, Button
<1> QED
  BY <1>1 DEF RealTap

LEMMA HandleKeepsBoards == BoardsInv /\ Handle => BoardsInv'
<1> SUFFICES ASSUME BoardsInv, Handle PROVE BoardsInv'
  OBVIOUS
<1>1. PICK u \in Update :
        /\ u = inbox[1] /\ RealTap(u) /\ Handler(u)
        /\ inbox # <<>> /\ inbox' = Tail(inbox) /\ updates' = updates
  BY HandledIsReal
<1>2. /\ KeyboardsStay(u)
      /\ blocked' \in BOOLEAN /\ popup' \in {"none", "blocked", "unblocked", "problem"}
      /\ notices' \in [Msgs -> 0..2] /\ queued' \subseteq Msgs /\ promised' \subseteq Msgs
  BY <1>1, HandlersKeepTypes
<1>3. /\ inbox' \in Seq(Update)
      /\ 1 \in Waiting
      /\ \A i \in Waiting' : inbox'[i] = inbox[i + 1] /\ i + 1 \in Waiting
  BY <1>1, OldestFirst DEF Waiting, BoardsInv
<1>4. TypeOK'
  BY <1>1, <1>2, <1>3 DEF TypeOK, KeyboardsStay, BoardsTyped, Lapses, Offs, BoardsInv
<1>5. (\A i \in Waiting : RealTap(inbox[i]))'
  <2> SUFFICES ASSUME NEW i \in Waiting' PROVE RealTap(inbox[i])'
    OBVIOUS
  <2>1. PICK v \in Update : v = inbox[i + 1] /\ RealTap(v)
    BY <1>3 DEF BoardsInv, TypeOK, TapsAreReal, Waiting
  <2>2. RealTap(v)' /\ v = inbox'[i]
    BY <1>2, <1>3, <2>1, RealTapsStay DEF KeyboardsStay, BoardsInv
  <2> QED
    BY <2>2 DEF RealTap
<1>6. \A i, j \in Waiting' :
        inbox'[i].what = "startUnblock" /\ inbox'[j].what = "startUnblock" => i = j
  BY <1>3 DEF BoardsInv, TapsAreReal, Waiting
<1>7. ASSUME NEW i \in Waiting', inbox'[i].what = "startUnblock" PROVE kb'[Again] = NoKeyboard
  <2>1. inbox[i + 1].what = "startUnblock" /\ i + 1 \in Waiting /\ i + 1 # 1
    BY <1>3, <1>7 DEF Waiting
  <2>2. kb[Again] = NoKeyboard /\ u.what # "startUnblock"
    BY <1>1, <1>3, <2>1 DEF BoardsInv, TapsAreReal
  <2> QED
    BY <1>2, <2>2 DEF KeyboardsStay
<1> QED
  BY <1>2, <1>4, <1>5, <1>6, <1>7 DEF BoardsInv, TapsAreReal, KeyboardsStay

\* A tap or a command joins the others.
LEMMA IssueKeepsBoards ==
  ASSUME BoardsInv, NEW u \in Update, Issue(u), RealTap(u),
         u.what = "startUnblock" => /\ kb[Again] = NoKeyboard
                                    /\ \A i \in Waiting : inbox[i].what # "startUnblock"
  PROVE  BoardsInv'
<1>1. /\ inbox' = Append(inbox, u) /\ updates' \in 0..MaxUpdates
      /\ UNCHANGED <<blocked, kb, faults, popup, seenVars, lapse, off>>
  BY DEF Issue, BoardsInv, TypeOK
<1>2. /\ inbox' \in Seq(Update) /\ inbox \in Seq(Update) /\ Len(inbox') = Len(inbox) + 1
      /\ \A i \in Waiting : inbox'[i] = inbox[i]
      /\ inbox'[Len(inbox) + 1] = u
      /\ Waiting' = Waiting \cup {Len(inbox) + 1}
  BY <1>1 DEF BoardsInv, TypeOK, Waiting
<1>3. TypeOK'
  BY <1>1, <1>2 DEF BoardsInv, TypeOK, seenVars
<1>4. (\A i \in Waiting : RealTap(inbox[i]))'
  <2>1. \A i \in Waiting' : (i \in Waiting /\ inbox'[i] = inbox[i]) \/ inbox'[i] = u
    BY <1>2
  <2> QED
    BY <1>1, <2>1 DEF BoardsInv, TapsAreReal, RealTap
<1>5. \A i \in Waiting' : inbox'[i].what = "startUnblock" => kb'[Again] = NoKeyboard
  BY <1>1, <1>2 DEF BoardsInv, TapsAreReal
<1>6. \A i, j \in Waiting' :
        inbox'[i].what = "startUnblock" /\ inbox'[j].what = "startUnblock" => i = j
  BY <1>2 DEF BoardsInv, TapsAreReal
<1> QED
  BY <1>1, <1>3, <1>4, <1>5, <1>6 DEF BoardsInv, TapsAreReal

LEMMA BoardsStep == BoardsInv /\ [Next]_vars => BoardsInv'
<1> SUFFICES ASSUME BoardsInv, [Next]_vars PROVE BoardsInv'
  OBVIOUS
<1>1. ASSUME NEW m \in Boards, Tap(m) PROVE BoardsInv'
  <2>1. PICK b \in Buttons(m, kb[m]) : Issue([what |-> b, on |-> m, snapshot |-> kb[m]])
    BY <1>1 DEF Tap
  <2> DEFINE u == [what |-> b, on |-> m, snapshot |-> kb[m]]
  <2>2. kb[m] \in Keyboard /\ b \in Button
    BY ShownButtons DEF BoardsInv, TypeOK
  <2>3. u \in Update /\ u.what = b /\ u.on = m /\ u.snapshot = kb[m]
    BY <2>2 DEF Update
  <2>4. kb[m] # NoKeyboard
    BY DEF Buttons, NoKeyboard
  <2>5. RealTap(u) /\ u.what # "startUnblock"
    BY <2>2, <2>3, <2>4 DEF RealTap, BoardsInv, TapsAreReal, Button
  <2> HIDE DEF u
  <2> QED
    BY <2>1, <2>3, <2>5, IssueKeepsBoards DEF u
<1>2. CASE Command
  <2>1. PICK c \in Commands :
          /\ c = "startUnblock" => /\ kb[Again] = NoKeyboard
                                   /\ [what |-> c] \notin {inbox[i] : i \in DOMAIN inbox}
          /\ Issue([what |-> c])
    BY <1>2 DEF Command
  <2>2. [what |-> c] \in Update /\ [what |-> c].what = c /\ RealTap([what |-> c])
    BY DEF Update, RealTap, Commands, Button
  <2>3. c = "startUnblock" => \A i \in Waiting : inbox[i].what # "startUnblock"
    <3> SUFFICES ASSUME c = "startUnblock", NEW i \in Waiting, inbox[i].what = "startUnblock"
                 PROVE  FALSE
      OBVIOUS
    <3>1. inbox[i] \in Update /\ i \in DOMAIN inbox
      BY DEF BoardsInv, TypeOK, Waiting
    <3>2. inbox[i] = [what |-> "startUnblock"]
      BY <3>1 DEF Update, Button, Commands
    <3> QED
      BY <2>1, <3>1, <3>2
  <2> QED
    BY <2>1, <2>2, <2>3, IssueKeepsBoards
<1>3. ASSUME NEW m \in Msgs, Deliver(m) PROVE BoardsInv'
  <2>1. PICK s \in {"off", "button"} : kb' = [kb EXCEPT ![m] = [seen |-> s, row |-> "closed"]]
    BY <1>3 DEF Deliver
  <2>2. [seen |-> s, row |-> "closed"] \in Keyboard \ {NoKeyboard}
    BY DEF Keyboard, NoKeyboard
  <2>3. /\ kb' \in [Boards -> Keyboard] /\ m \in Boards /\ m # Again
        /\ \A n \in Boards : kb[n] # NoKeyboard => kb'[n] # NoKeyboard
        /\ kb'[Again] = kb[Again]
    BY <2>1, <2>2 DEF BoardsInv, TypeOK, Boards
  <2>4. UNCHANGED <<blocked, inbox, updates, faults, popup, seenVars, lapse, off>>
    BY <1>3 DEF Deliver
  <2>5. TypeOK'
    BY <2>3, <2>4 DEF BoardsInv, TypeOK, seenVars
  <2>6. \A i \in Waiting : inbox[i] \in Update
    BY DEF BoardsInv, TypeOK, Waiting
  <2>7. (\A i \in Waiting : RealTap(inbox[i]))'
    <3> SUFFICES ASSUME NEW i \in Waiting PROVE RealTap(inbox[i])'
      BY <2>4 DEF Waiting
    <3>1. PICK v \in Update : v = inbox[i] /\ RealTap(v)
      BY <2>6 DEF BoardsInv, TapsAreReal
    <3>2. RealTap(v)' /\ v = inbox'[i]
      BY <2>3, <2>4, <3>1, RealTapsStay DEF BoardsInv
    <3> QED
      BY <3>2 DEF RealTap
  <2> QED
    BY <2>3, <2>4, <2>5, <2>7 DEF BoardsInv, TapsAreReal, Waiting
<1>4. ASSUME NEW m \in Msgs, Drain(m) PROVE BoardsInv'
  <2>1. notices' \in [Msgs -> 0..2]
    BY <1>4, NoticesTyped DEF Drain, BoardsInv, TypeOK
  <2> QED
    BY <1>4, <2>1 DEF Drain, BoardsInv, TypeOK, TapsAreReal, RealTap, Waiting
<1>5. CASE UNCHANGED vars
  BY <1>5 DEF vars, seenVars, BoardsInv, TypeOK, TapsAreReal, RealTap, Waiting
<1> QED
  BY <1>1, <1>2, <1>3, <1>4, <1>5, HandleKeepsBoards DEF Next

LEMMA BoardsKept == Spec => []BoardsInv
<1>1. Init => BoardsInv
  <2> SUFFICES ASSUME Init PROVE BoardsInv
    OBVIOUS
  <2>1. NoKeyboard \in Keyboard /\ Again \in Boards /\ NoKeyboard.seen = "off"
    BY DEF NoKeyboard, Keyboard, Boards
  <2>2. inbox = <<>> /\ inbox \in Seq(Update) /\ Waiting = {}
    BY DEF Init, Waiting
  <2>3. TypeOK
    <3>1. kb \in [Boards -> Keyboard] /\ notices \in [Msgs -> 0..2]
      BY <2>1 DEF Init
    <3>2. /\ lapse \in [Boards -> SUBSET {"stale", "edit", "problem", "refused"}]
          /\ off \in [Boards -> SUBSET {"elsewhere", "edit", "stale", "unread"}]
      BY DEF Init
    <3>3. /\ blocked \in BOOLEAN /\ popup \in {"none", "blocked", "unblocked", "problem"}
          /\ updates \in 0..MaxUpdates /\ faults \in 0..MaxFaults
          /\ queued \subseteq Msgs /\ promised \subseteq Msgs
      <4>1. 0 \in 0..MaxUpdates /\ 0 \in 0..MaxFaults
        BY KeyboardsAssumption
      <4>2. /\ blocked = FALSE /\ popup = "none" /\ updates = 0 /\ faults = 0
            /\ queued = {} /\ promised = {}
        BY Zenon DEF Init
      <4> QED
        BY <4>1, <4>2
    <3> QED
      BY <2>2, <3>1, <3>2, <3>3 DEF TypeOK
  <2>4. TapsAreReal
    BY <2>1, <2>2 DEF Init, TapsAreReal
  <2> QED
    BY <2>3, <2>4 DEF BoardsInv
<1> QED
  BY <1>1, BoardsStep, PTL DEF Spec

\* The keyboards, the table and the waiting taps are well typed at every step.
THEOREM TypeCorrect == Spec => []TypeOK
<1>1. BoardsInv => TypeOK
  BY DEF BoardsInv
<1> QED
  BY <1>1, BoardsKept, PTL

-----------------------------------------------------------------------------
(* What the block buttons and the popups say.                              *)

\* A keyboard drawn as the table stands, while the others keep what may be wrong with
\* them and a change of the table is held against them.
LEMMA DrawnAsItStands ==
  ASSUME BoardsInv, BlockIsToldAsItStands, blocked' \in BOOLEAN,
         NEW u \in Update, u.on \in Boards, NEW k \in Keyboard, NEW wrong \in SUBSET Offs,
         NEW base, base = OffAfter(blocked'),
         NEW C \in SUBSET Lapses, Redraw(u, k, base, wrong, C),
         \/ k.row \notin {"block", "unblock"}
         \/ k.row = IF blocked' THEN "unblock" ELSE "block"
         \/ wrong # {}
         \/ k.row = kb[u.on].row /\ wrong = base[u.on]
  PROVE  \A m \in Boards : kb'[m].row \in {"block", "unblock"} /\ off'[m] = {} =>
           (kb'[m].row = "unblock") = blocked'
<1>1. /\ base \in [Boards -> SUBSET Offs]
      /\ blocked' = blocked => base = off
      /\ blocked' # blocked => \A m \in Boards : base[m] # {}
  BY OffAfterTyped DEF BoardsInv
<1>2. /\ OthersAsWere(u.on, base)
      /\ \/ Drawn(u.on, k, u.snapshot.seen) /\ off'[u.on] = wrong
         \/ NotDrawn(u.on)
  <2>1. TypeOK
    BY DEF BoardsInv
  <2> QED
    BY <1>1, <2>1, RedrawDoes
<1>3. ASSUME NEW m \in Boards, kb'[m].row = kb[m].row, off'[m] = base[m], off'[m] = {},
             kb'[m].row \in {"block", "unblock"}
      PROVE  (kb'[m].row = "unblock") = blocked'
  BY <1>1, <1>3 DEF BlockIsToldAsItStands
<1>4. ASSUME NEW m \in Boards, kb'[m].row \in {"block", "unblock"}, off'[m] = {}
      PROVE  (kb'[m].row = "unblock") = blocked'
  <2>1. CASE m # u.on
    BY <1>2, <1>3, <1>4, <2>1 DEF OthersAsWere
  <2>2. CASE m = u.on /\ NotDrawn(u.on)
    BY <1>4, <2>2 DEF NotDrawn
  <2>3. CASE m = u.on /\ Drawn(u.on, k, u.snapshot.seen) /\ off'[u.on] = wrong
    BY <1>3, <1>4, <2>3 DEF Drawn
  <2> QED
    BY <1>2, <2>1, <2>2, <2>3
<1> QED
  BY <1>4

\* The table changes or not, no keyboard does.
LEMMA NothingDrawn ==
  ASSUME BoardsInv, BlockIsToldAsItStands, blocked' \in BOOLEAN,
         \A m \in Boards : /\ kb'[m].row = kb[m].row \/ kb'[m].row \notin {"block", "unblock"}
                           /\ off'[m] = OffAfter(blocked')[m]
  PROVE  \A m \in Boards : kb'[m].row \in {"block", "unblock"} /\ off'[m] = {} =>
           (kb'[m].row = "unblock") = blocked'
BY OffAfterTyped DEF BoardsInv, BlockIsToldAsItStands

LEMMA HandleTellsTheBlock ==
  BoardsInv /\ BlockIsToldAsItStands /\ Handle => BlockIsToldAsItStands'
<1> SUFFICES ASSUME BoardsInv, BlockIsToldAsItStands, Handle PROVE BlockIsToldAsItStands'
  OBVIOUS
<1> DEFINE Shown == \A m \in Boards : kb'[m].row \in {"block", "unblock"} /\ off'[m] = {} =>
                      (kb'[m].row = "unblock") = blocked'
<1>1. PICK u \in Update :
        /\ u = inbox[1] /\ RealTap(u) /\ Handler(u) /\ inbox # <<>>
  BY HandledIsReal
<1>2. /\ {} \in SUBSET Lapses /\ {} \in SUBSET Offs
      /\ OffAfter(blocked) = off /\ blocked \in BOOLEAN
  BY OffAfterTyped DEF BoardsInv, TypeOK
<1>3. ASSUME NEW b \in BOOLEAN, SetFails(b) PROVE BlockIsToldAsItStands'
  <2>1. blocked' \in BOOLEAN /\ popup' = "problem" /\ off' = OffAfter(blocked') /\ kb' = kb
    BY <1>2, <1>3 DEF SetFails
  <2>2. Shown
    BY <2>1, NothingDrawn
  <2> QED
    BY <2>1, <2>2 DEF BlockIsToldAsItStands
<1>4. ASSUME UNCHANGED <<blocked, popup>>, Shown PROVE BlockIsToldAsItStands'
  BY <1>4 DEF BlockIsToldAsItStands
<1>5. CASE Block(u)
  <2>1. /\ u.on \in Boards /\ blocked' \in BOOLEAN
        /\ popup' = IF popup' = "problem" THEN "problem"
                    ELSE IF blocked' THEN "blocked" ELSE "unblocked"
    BY <1>1, <1>5, BlockDoes
  <2>2. CASE SetFails(AfterTap(u.what))
    BY <1>3, <2>2 DEF AfterTap
  <2>3. ASSUME NEW k \in Keyboard, k.row = IF blocked' THEN "unblock" ELSE "block",
               Redraw(u, k, OffAfter(blocked'), {}, {})
        PROVE  Shown
    BY <1>2, <2>1, <2>3, DrawnAsItStands
  <2> QED
    BY <1>1, <1>5, <2>1, <2>2, <2>3, BlockDoes DEF BlockIsToldAsItStands
<1>6. CASE Toggle(u)
  <2>1. u.on \in Boards /\ UNCHANGED <<blocked, popup>>
    BY <1>1, <1>6, ToggleDoes DEF Toggle
  <2>2. PICK k \in Keyboard, wrong \in SUBSET Offs :
          /\ \/ k.row = "closed"
             \/ k.row = IF blocked THEN "unblock" ELSE "block"
             \/ wrong # {}
          /\ Redraw(u, k, off, wrong, {})
    BY <1>1, <1>6, ToggleDoes
  <2>3. Shown
    BY <1>2, <2>1, <2>2, DrawnAsItStands
  <2> QED
    BY <1>4, <2>1, <2>3
<1>7. CASE Seen(u)
  <2>1. u.on \in Boards /\ UNCHANGED <<blocked, popup>>
    BY <1>1, <1>7, SeenDoes DEF Boards
  <2>2. CASE UNCHANGED <<kb, faults, seenVars, lapse, off>> \/ Problem(u)
    <3>1. Shown
      BY <1>2, <2>1, <2>2, NothingDrawn DEF Problem
    <3> QED
      BY <1>4, <2>1, <3>1
  <2>3. CASE Confirmed(u)
    <3>1. PICK k \in Keyboard, wrong \in SUBSET Offs, C \in SUBSET Lapses :
            /\ k.row = u.snapshot.row
            /\ (u.snapshot.row = kb[u.on].row /\ wrong = off[u.on]) \/ wrong # {}
            /\ Redraw(u, k, off, wrong, C)
      BY <2>3 DEF Confirmed
    <3>2. Shown
      BY <1>2, <2>1, <3>1, DrawnAsItStands
    <3> QED
      BY <1>4, <2>1, <3>2
  <2> QED
    BY <1>1, <1>7, <2>2, <2>3, SeenDoes
<1>8. CASE UnblockAll(u)
  <2>1. CASE SetFails(FALSE)
    BY <1>3, <2>1
  <2>2. CASE blocked' = FALSE /\ popup' = "unblocked" /\ off' = OffAfter(FALSE) /\ UNCHANGED kb
    <3>1. Shown
      BY <2>2, NothingDrawn
    <3> QED
      BY <2>2, <3>1 DEF BlockIsToldAsItStands
  <2> QED
    BY <1>8, <2>1, <2>2 DEF UnblockAll
<1>9. CASE StartUnblock(u)
  <2>1. CASE SetFails(FALSE)
    BY <1>3, <2>1
  <2>2. CASE /\ blocked' = FALSE /\ popup' = "unblocked"
             /\ kb' = IF blocked THEN [kb EXCEPT ![Again] = [seen |-> "off", row |-> "block"]]
                      ELSE kb
             /\ off' = [OffAfter(FALSE) EXCEPT ![Again] = {}]
    <3>1. kb[Again] = NoKeyboard /\ Again \in Boards
      BY <1>1, <1>9, OldestFirst DEF BoardsInv, TapsAreReal, StartUnblock, Boards
    <3>2. kb'[Again].row # "unblock"
      BY <2>2, <3>1 DEF NoKeyboard, BoardsInv, TypeOK
    <3>3. OffAfter(FALSE) \in [Boards -> SUBSET Offs]
      BY OffAfterTyped DEF BoardsInv
    <3>4. ASSUME NEW m \in Boards, m # Again
          PROVE  kb'[m] = kb[m] /\ off'[m] = OffAfter(FALSE)[m]
      BY <2>2, <3>3, <3>4 DEF BoardsInv, TypeOK
    <3>5. ASSUME NEW m \in Boards, m # Again, off'[m] = {}, kb'[m].row \in {"block", "unblock"}
          PROVE  kb'[m].row # "unblock"
      BY <3>4, <3>5, OffAfterTyped DEF BoardsInv, BlockIsToldAsItStands, TypeOK
    <3> QED
      BY <2>2, <3>2, <3>5 DEF BlockIsToldAsItStands
  <2> QED
    BY <1>9, <2>1, <2>2 DEF StartUnblock
<1> QED
  BY <1>1, <1>5, <1>6, <1>7, <1>8, <1>9 DEF Handler

LEMMA BlockStep == BoardsInv /\ BlockIsToldAsItStands /\ [Next]_vars => BlockIsToldAsItStands'
<1> SUFFICES ASSUME BoardsInv, BlockIsToldAsItStands, [Next]_vars
             PROVE  BlockIsToldAsItStands'
  OBVIOUS
<1>1. ASSUME NEW m \in Msgs, Deliver(m) PROVE BlockIsToldAsItStands'
  BY <1>1 DEF Deliver, BlockIsToldAsItStands, BoardsInv, TypeOK, Boards
<1>2. CASE UNCHANGED <<blocked, popup, kb, off>>
  BY <1>2 DEF BlockIsToldAsItStands
<1>3. ASSUME NEW m \in Boards, Tap(m) PROVE UNCHANGED <<blocked, popup, kb, off>>
  BY <1>3 DEF Tap, Issue
<1>4. Command \/ UNCHANGED vars => UNCHANGED <<blocked, popup, kb, off>>
  BY DEF Command, Issue, vars
<1>5. ASSUME NEW m \in Msgs, Drain(m) PROVE UNCHANGED <<blocked, popup, kb, off>>
  BY <1>5 DEF Drain
<1> QED
  BY <1>1, <1>2, <1>3, <1>4, <1>5, HandleTellsTheBlock DEF Next

\* What the last popup said of the block is how the table stands, and so does every block
\* button, but for the causes the property names (block, unblock, otherActions).
THEOREM TheBlockIsToldAsItStands == Spec => []BlockIsToldAsItStands
<1>1. Init => BlockIsToldAsItStands
  BY DEF Init, BlockIsToldAsItStands, NoKeyboard
<1> QED
  BY <1>1, BoardsKept, BlockStep, PTL DEF Spec

-----------------------------------------------------------------------------
(* The seen notices.                                                       *)

Excused(m) == lapse[m] \cap {"stale", "edit", "problem"} # {}

\* What is known of the seen notice of one message.  The last two conjuncts are the
\* properties; a queued notice was a problem, and once the sender was told the button is
\* used.
NoticeOf(m) ==
  /\ m \in queued => "problem" \in lapse[m]
  /\ notices[m] > 0 => kb[m].seen = "done" \/ Excused(m)
  /\ notices[m] > 1 => Excused(m)
  /\ m \in promised => notices[m] > 0 \/ "refused" \in lapse[m]

NoticeInv == \A m \in Msgs : NoticeOf(m)

\* A step that sends no notice of a message keeps what is known of it, if the button
\* stays as it is or its change is noted.
LEMMA QuietKeepsNotice ==
  ASSUME NEW m \in Msgs, NoticeOf(m),
         notices'[m] = notices[m], m \in queued' => m \in queued, m \in promised' => m \in promised,
         lapse[m] \subseteq lapse'[m],
         kb[m].seen = "done" => kb'[m].seen = "done" \/ Excused(m)'
  PROVE  NoticeOf(m)'
BY DEF NoticeOf, Excused

\* An edit by a handler that sends no notice.
LEMMA RedrawKeepsNotices ==
  ASSUME BoardsInv, NoticeInv, NEW u \in Update, u.on \in Boards, NEW k \in Keyboard,
         k.seen = u.snapshot.seen, NEW base \in [Boards -> SUBSET Offs],
         NEW wrong \in SUBSET Offs, Redraw(u, k, base, wrong, {}), UNCHANGED seenVars
  PROVE  NoticeInv'
<1>1. /\ OthersAsWere(u.on, base) /\ lapse[u.on] \subseteq lapse'[u.on]
      /\ Drawn(u.on, k, u.snapshot.seen) \/ kb'[u.on] = kb[u.on]
  <2>1. {} \in SUBSET Lapses /\ TypeOK
    BY DEF BoardsInv
  <2>2. /\ OthersAsWere(u.on, base) /\ lapse[u.on] \cup {} \subseteq lapse'[u.on]
        /\ \/ Drawn(u.on, k, u.snapshot.seen) /\ off'[u.on] = wrong
           \/ NotDrawn(u.on)
    BY <2>1, RedrawDoes
  <2> QED
    BY <2>2 DEF NotDrawn
<1>2. ASSUME NEW m \in Msgs PROVE NoticeOf(m)'
  <2>1. kb[m].seen = "done" => kb'[m].seen = "done" \/ Excused(m)'
    BY <1>1 DEF OthersAsWere, Drawn, Excused, Boards
  <2>2. lapse[m] \subseteq lapse'[m]
    BY <1>1 DEF OthersAsWere, Boards
  <2> QED
    BY <2>1, <2>2, QuietKeepsNotice DEF seenVars, NoticeInv
<1> QED
  BY <1>2 DEF NoticeInv

\* The notice is sent for a button that the snapshot shows unused.  If the sender had
\* been told before, the button is used by now, so the redraw is noted as stale.
LEMMA SeenKeepsNotices ==
  ASSUME BoardsInv, NoticeInv, NEW u \in Update, RealTap(u), Seen(u)
  PROVE  NoticeInv'
<1>1. u.on \in Msgs /\ u.on \in Boards /\ u.snapshot.seen = "button"
  BY SeenDoes DEF Boards
<1>2. Arrives(u.on) => /\ notices'[u.on] > 0
                       /\ notices'[u.on] > 1 => notices[u.on] > 0
                       /\ \A m \in Msgs \ {u.on} : notices'[m] = notices[m]
  BY <1>1 DEF Arrives, BoardsInv, TypeOK
<1>3. CASE UNCHANGED <<kb, faults, seenVars, lapse, off>>
  BY <1>3 DEF seenVars, NoticeInv, NoticeOf, Excused
<1>4. CASE Confirmed(u)
  <2>1. PICK k \in Keyboard, wrong \in SUBSET Offs, C \in SUBSET Lapses :
          /\ k.seen = "done" /\ Redraw(u, k, off, wrong, C)
          /\ queued' = queued /\ promised' = promised \cup {u.on}
          /\ Arrives(u.on) \/ ("refused" \in C /\ notices' = notices)
    BY <1>4 DEF Confirmed
  <2>2. /\ OthersAsWere(u.on, off) /\ lapse[u.on] \cup C \subseteq lapse'[u.on]
        /\ Drawn(u.on, k, "button") \/ "edit" \in lapse'[u.on]
    <3>1. TypeOK
      BY DEF BoardsInv
    <3>2. off \in [Boards -> SUBSET Offs]
      BY <3>1 DEF TypeOK, Offs
    <3>3. /\ OthersAsWere(u.on, off)
          /\ lapse[u.on] \cup C \subseteq lapse'[u.on]
          /\ \/ Drawn(u.on, k, u.snapshot.seen) /\ off'[u.on] = wrong
             \/ NotDrawn(u.on)
      BY <1>1, <2>1, <3>1, <3>2, RedrawDoes
    <3> QED
      BY <1>1, <3>3 DEF NotDrawn
  <2>3. ASSUME NEW m \in Msgs, m # u.on PROVE NoticeOf(m)'
    <3>1. kb'[m] = kb[m] /\ lapse'[m] = lapse[m]
      BY <2>2, <2>3 DEF OthersAsWere, Boards
    <3>2. notices'[m] = notices[m] /\ (m \in promised' => m \in promised)
      BY <1>2, <2>1, <2>3
    <3> QED
      BY <2>1, <3>1, <3>2, QuietKeepsNotice DEF NoticeInv
  <2>4. NoticeOf(u.on)
    BY <1>1 DEF NoticeInv
  <2>5. kb'[u.on].seen = "done" \/ "edit" \in lapse'[u.on]
    BY <2>1, <2>2 DEF Drawn
  <2>6. notices[u.on] > 0 => lapse'[u.on] \cap {"stale", "edit", "problem"} # {}
    BY <2>2, <2>4 DEF NoticeOf, Excused, Drawn
  <2>7. /\ notices'[u.on] > 1 => notices[u.on] > 0
        /\ notices'[u.on] > 0 \/ "refused" \in lapse'[u.on]
    <3>1. notices[u.on] \in 0..2
      BY <1>1 DEF BoardsInv, TypeOK
    <3> QED
      BY <1>2, <2>1, <2>2, <3>1
  <2>8. ASSUME NEW m \in Msgs, m = u.on PROVE NoticeOf(m)'
    BY <2>1, <2>2, <2>4, <2>5, <2>6, <2>7, <2>8 DEF NoticeOf, Excused
  <2> QED
    BY <2>3, <2>8 DEF NoticeInv
<1>5. CASE Problem(u)
  <2>1. /\ "problem" \in lapse'[u.on] /\ lapse[u.on] \subseteq lapse'[u.on]
        /\ \A m \in Msgs \ {u.on} : lapse'[m] = lapse[m]
    BY <1>1, <1>5 DEF Problem, BoardsInv, TypeOK, Boards
  <2>2. ASSUME NEW m \in Msgs, m # u.on PROVE NoticeOf(m)'
    <3>1. /\ lapse'[m] = lapse[m] /\ kb'[m] = kb[m] /\ notices'[m] = notices[m]
          /\ m \in queued' => m \in queued
          /\ promised' = promised
      BY <1>2, <1>5, <2>1, <2>2 DEF Problem
    <3> QED
      BY <3>1, QuietKeepsNotice DEF NoticeInv
  <2>3. ASSUME NEW m \in Msgs, m = u.on PROVE NoticeOf(m)'
    <3>1. NoticeOf(m) /\ promised' = promised /\ (notices[m] > 0 => notices'[m] > 0)
      BY <1>2, <1>5, <2>3 DEF NoticeInv, Problem
    <3> QED
      BY <2>1, <2>3, <3>1 DEF NoticeOf, Excused
  <2> QED
    BY <2>2, <2>3 DEF NoticeInv
<1> QED
  BY <1>3, <1>4, <1>5, SeenDoes

LEMMA HandleKeepsNotices == BoardsInv /\ NoticeInv /\ Handle => NoticeInv'
<1> SUFFICES ASSUME BoardsInv, NoticeInv, Handle PROVE NoticeInv'
  OBVIOUS
<1>1. PICK u \in Update :
        /\ u = inbox[1] /\ RealTap(u) /\ Handler(u) /\ inbox # <<>>
  BY HandledIsReal
<1>2. /\ {} \in SUBSET Offs /\ off \in [Boards -> SUBSET Offs]
      /\ \A b \in BOOLEAN : OffAfter(b) \in [Boards -> SUBSET Offs]
  BY OffAfterTyped DEF BoardsInv, TypeOK, Offs
<1>3. ASSUME UNCHANGED <<kb, lapse, seenVars>> PROVE NoticeInv'
  BY <1>3 DEF seenVars, NoticeInv, NoticeOf, Excused
<1>4. CASE Block(u)
  <2>1. u.on \in Boards /\ blocked' \in BOOLEAN /\ UNCHANGED seenVars
    BY <1>1, <1>4, BlockDoes
  <2>2. ASSUME NEW k \in Keyboard, k.seen = u.snapshot.seen,
               Redraw(u, k, OffAfter(blocked'), {}, {})
        PROVE  NoticeInv'
    BY <1>2, <2>1, <2>2, RedrawKeepsNotices
  <2> QED
    BY <1>1, <1>3, <1>4, <2>1, <2>2, BlockDoes DEF SetFails
<1>5. CASE Toggle(u)
  <2>1. u.on \in Boards /\ UNCHANGED seenVars
    BY <1>1, <1>5, ToggleDoes DEF Toggle
  <2>2. PICK k \in Keyboard, wrong \in SUBSET Offs :
          k.seen = u.snapshot.seen /\ Redraw(u, k, off, wrong, {})
    BY <1>1, <1>5, ToggleDoes
  <2> QED
    BY <1>2, <2>1, <2>2, RedrawKeepsNotices
<1>6. CASE Seen(u)
  BY <1>1, <1>6, SeenKeepsNotices
<1>7. CASE UnblockAll(u)
  BY <1>3, <1>7 DEF UnblockAll, SetFails
<1>8. CASE StartUnblock(u)
  <2>1. /\ UNCHANGED <<lapse, seenVars>>
        /\ \A m \in Msgs : kb'[m] = kb[m]
    BY <1>8 DEF StartUnblock, SetFails, BoardsInv, TypeOK, Boards
  <2> QED
    BY <2>1 DEF seenVars, NoticeInv, NoticeOf, Excused
<1> QED
  BY <1>1, <1>4, <1>5, <1>6, <1>7, <1>8 DEF Handler

LEMMA NoticeStep == BoardsInv /\ NoticeInv /\ [Next]_vars => NoticeInv'
<1> SUFFICES ASSUME BoardsInv, NoticeInv, [Next]_vars PROVE NoticeInv'
  OBVIOUS
<1>1. ASSUME UNCHANGED <<kb, lapse, seenVars>> PROVE NoticeInv'
  BY <1>1 DEF seenVars, NoticeInv, NoticeOf, Excused
<1>2. ASSUME NEW m \in Msgs, Deliver(m) PROVE NoticeInv'
  <2>1. /\ kb[m].seen # "done" /\ \A n \in Msgs \ {m} : kb'[n] = kb[n]
        /\ UNCHANGED <<lapse, seenVars>>
    BY <1>2 DEF Deliver, NoKeyboard, BoardsInv, TypeOK, Boards
  <2> QED
    BY <2>1, QuietKeepsNotice DEF seenVars, NoticeInv
<1>3. ASSUME NEW m \in Msgs, Drain(m) PROVE NoticeInv'
  <2>1. /\ "problem" \in lapse[m] /\ NoticeOf(m)
        /\ UNCHANGED <<kb, lapse, promised>> /\ queued' = queued \ {m}
        /\ notices[m] > 0 => notices'[m] > 0
        /\ \A n \in Msgs \ {m} : notices'[n] = notices[n]
    BY <1>3 DEF Drain, Arrives, NoticeInv, NoticeOf, BoardsInv, TypeOK
  <2>2. NoticeOf(m)'
    BY <2>1 DEF NoticeOf, Excused
  <2>3. ASSUME NEW n \in Msgs \ {m} PROVE NoticeOf(n)'
    BY <2>1, QuietKeepsNotice DEF NoticeInv
  <2> QED
    BY <2>2, <2>3 DEF NoticeInv
<1>4. ASSUME NEW m \in Boards, Tap(m) PROVE UNCHANGED <<kb, lapse, seenVars>>
  BY <1>4 DEF Tap, Issue
<1>5. Command \/ UNCHANGED vars => UNCHANGED <<kb, lapse, seenVars>>
  BY DEF Command, Issue, vars
<1> QED
  BY <1>1, <1>2, <1>3, <1>4, <1>5, HandleKeepsNotices DEF Next

LEMMA NoticesKept == Spec => []NoticeInv
<1>1. Init => NoticeInv
  <2> SUFFICES ASSUME Init, NEW m \in Msgs PROVE NoticeOf(m)
    BY DEF NoticeInv
  <2>1. notices[m] = 0 /\ m \notin queued /\ m \notin promised
    BY DEF Init
  <2> QED
    BY <2>1 DEF NoticeOf
<1> QED
  BY <1>1, BoardsKept, NoticeStep, PTL DEF Spec

\* A sender is told twice that a message was seen only for the causes the property
\* names: "so it can't be triggered again" (seen).
THEOREM SecondNoticesHaveACause == Spec => []SeenTwiceHasACause
<1>1. NoticeInv => SeenTwiceHasACause
  BY DEF NoticeInv, NoticeOf, Excused, SeenTwiceHasACause
<1> QED
  BY <1>1, NoticesKept, PTL

\* Who is told "I told them" is told the truth, unless Telegram refused the notice for
\* good (seen).
THEOREM SeenPromisesAreKept == Spec => []SeenPromiseKept
<1>1. BoardsInv /\ NoticeInv => SeenPromiseKept
  BY DEF BoardsInv, TypeOK, NoticeInv, NoticeOf, SeenPromiseKept
<1> QED
  BY <1>1, BoardsKept, NoticesKept, PTL
=============================================================================
