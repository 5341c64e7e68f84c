------------------------------ MODULE LinksProof ------------------------------
(***************************************************************************)
(* The safety of the anonymous links for any number of processes, users,   *)
(* links and updates.  The limit needs an account of the handlers that     *)
(* have looked at the table and not inserted yet: each of them stands for  *)
(* one link to come.                                                       *)
(***************************************************************************)
EXTENDS Links, FiniteSetTheorems, TLAPS

\* Who has looked and inserts next: after a count, or after finding no link at all.
Inserting(u) == {p \in Procs : pc[p] \in {"insert", "first", "mint"} /\ job[p].user = u}

\* Where a handler can be.
Places == {"idle", "init", "first", "limit", "count", "insert", "delete", "left", "mint",
           "choose", "taken", "set"}

\* A handler at work has an update of the kind its statement belongs to, and a rename a
\* link to rename.
JobFits ==
  \A p \in Procs : pc[p] # "idle" =>
    /\ job[p] \in Jobs
    /\ pc[p] \in {"limit", "count", "insert"} => job[p].op = "add"
    /\ pc[p] \in {"delete", "left", "mint"} => job[p].op = "remove"
    /\ pc[p] = "choose" => job[p].op = "choose"
    /\ pc[p] \in {"taken", "set"} => job[p].op = "rename"
    /\ job[p].op = "rename" => chosen[p][job[p].user] # None

\* What addLink has read is no more than the limit ever was, and links were the user's.
ReadIsOld ==
  /\ \A u \in Users : limit[u] <= highest[u]
  /\ \A p \in Procs : pc[p] = "count" => read[p] <= highest[job[p].user]
  /\ \A c \in Cids : owner[c] # None => c \in had[owner[c]]

\* The links a user has and those on their way.
Accounted ==
  \A u \in Users : Cardinality(Links(u)) + Cardinality(Inserting(u))
                     <= highest[u] + Cardinality(Procs) - 1

-----------------------------------------------------------------------------
(* Types.                                                                  *)

LEMMA SizesAreNatural ==
  ASSUME NEW u
  PROVE  /\ IsFiniteSet(Links(u)) /\ Cardinality(Links(u)) \in Nat
         /\ IsFiniteSet(Inserting(u)) /\ Cardinality(Inserting(u)) \in Nat
         /\ IsFiniteSet(Procs) /\ Cardinality(Procs) \in Nat
BY LinksAssumption, FS_Subset, FS_CardinalityType DEF Links, Inserting

LEMMA JobParts ==
  ASSUME NEW j \in Jobs
  PROVE  /\ j.user \in Users /\ j.op \in {"add", "remove", "choose", "rename"}
         /\ j.op # "add" => j.cid \in Cids
         /\ FirstOf["add"] = "limit" /\ FirstOf["remove"] = "delete"
         /\ FirstOf["choose"] = "choose" /\ FirstOf["rename"] = "taken"
BY DEF Jobs, FirstOf

LEMMA InsertIsTyped ==
  ASSUME TypeOK, NEW u \in Users, AddCID(u)
  PROVE  /\ owner' \in [Cids -> Users \cup {None}] /\ had' \in [Users -> SUBSET Cids]
         /\ cut' \subseteq Users
BY DEF TypeOK, AddCID, Free

LEMMA DoneIsTyped ==
  ASSUME TypeOK, NEW p \in Procs, Done(p)
  PROVE  /\ pc' = [pc EXCEPT ![p] = "idle"] /\ job' = [job EXCEPT ![p] = NoJob]
         /\ pc' \in [Procs -> Places]
         /\ job' \in [Procs -> Jobs \cup {NoJob}]
         /\ read' \in [Procs -> 0 .. MaxLimit]
BY LinksAssumption DEF TypeOK, Done, Goto, Places

Typed == TypeOK /\ JobFits

\* The handler of p moves on within its update.
LEMMA MovesOn ==
  ASSUME Typed, NEW p \in Procs, NEW s, Goto(p, s), pc[p] # "idle",
         UNCHANGED <<job, chosen>>,
         \/ s = FirstOf[job[p].op]
         \/ s \in {"init", "first"}
         \/ s = "count" /\ pc[p] = "limit"
         \/ s = "insert" /\ pc[p] = "count"
         \/ s = "left" /\ pc[p] = "delete"
         \/ s = "mint" /\ pc[p] = "left"
         \/ s = "set" /\ pc[p] = "taken"
  PROVE  /\ pc' \in [Procs -> Places]
         /\ JobFits'
         /\ \A q \in Procs : pc'[q] \in {"taken", "set"} => chosen'[q][job'[q].user] # None
<1> USE DEF Typed, JobFits, TypeOK, Places
<1>1. job[p] \in Jobs
  OBVIOUS
<1>2. pc' = [pc EXCEPT ![p] = s]
  BY DEF Goto
<1>3. s \in {"init", "first", "limit", "count", "insert", "delete", "left", "mint", "choose",
             "taken", "set"}
  BY <1>1, JobParts
<1>4. JobFits'
  <2>1. \A q \in Procs \ {p} : pc'[q] = pc[q]
    BY <1>2
  <2>2. pc'[p] = s
    BY <1>2
  <2>3. /\ s \in {"limit", "count", "insert"} => job[p].op = "add"
        /\ s \in {"delete", "left", "mint"} => job[p].op = "remove"
        /\ s = "choose" => job[p].op = "choose"
        /\ s \in {"taken", "set"} => job[p].op = "rename"
    BY <1>1, JobParts
  <2> QED
    BY <1>1, <2>1, <2>2, <2>3
<1> QED
  BY <1>2, <1>3, <1>4

\* The handler of p is over.
LEMMA IsOver ==
  ASSUME Typed, NEW p \in Procs, Done(p),
         \A q \in Procs \ {p} : chosen'[q] = chosen[q]
  PROVE  /\ pc' \in [Procs -> Places]
         /\ job' \in [Procs -> Jobs \cup {NoJob}]
         /\ read' \in [Procs -> 0 .. MaxLimit]
         /\ JobFits'
         /\ \A q \in Procs : pc'[q] \in {"taken", "set"} => chosen'[q][job'[q].user] # None
<1>1. /\ pc' = [pc EXCEPT ![p] = "idle"] /\ job' = [job EXCEPT ![p] = NoJob]
      /\ pc' \in [Procs -> Places]
      /\ job' \in [Procs -> Jobs \cup {NoJob}]
      /\ read' \in [Procs -> 0 .. MaxLimit]
  BY DoneIsTyped DEF Typed
<1>2. pc'[p] = "idle" /\ \A q \in Procs \ {p} : pc'[q] = pc[q] /\ job'[q] = job[q]
  BY <1>1 DEF Typed, TypeOK, Places
<1>3. JobFits'
  BY <1>2 DEF Typed, JobFits
<1>4. \A q \in Procs : pc'[q] \in {"taken", "set"} => chosen'[q][job'[q].user] # None
  BY <1>2 DEF Typed, TypeOK, Places
<1> QED
  BY <1>1, <1>3, <1>4

LEMMA HandlerKeepsTypes ==
  ASSUME Typed, NEW p \in Procs, Step(p)
  PROVE  Typed'
<1> USE DEF rows
<1>0. /\ TypeOK /\ JobFits /\ pc[p] # "idle" /\ job[p] \in Jobs /\ job[p].user \in Users
  BY JobParts DEF Typed, JobFits, Step, InitUser, FirstLink, ReadLimit, CountLinks, AddLink,
                  RemoveCID, WhatIsLeft, MintReplacement, ChangeLink, CidTaken, SetCID
<1>1. CASE InitUser(p)
  <2>1. PICK s \in {"first", FirstOf[job[p].op]} : Goto(p, s)
    BY <1>1 DEF InitUser
  <2> QED
    BY <1>0, <1>1, <2>1, MovesOn DEF InitUser, Typed, TypeOK, Places
<1>2. CASE FirstLink(p)
  <2>1. AddCID(job[p].user) /\ Goto(p, FirstOf[job[p].op])
        /\ UNCHANGED <<limit, chosen, job, read, highest, updates>>
    BY <1>2 DEF FirstLink
  <2>2. /\ owner' \in [Cids -> Users \cup {None}] /\ had' \in [Users -> SUBSET Cids]
        /\ cut' \subseteq Users
    BY <1>0, <2>1, InsertIsTyped
  <2> QED
    BY <1>0, <2>1, <2>2, MovesOn DEF Typed, TypeOK, Places
<1>3. CASE ReadLimit(p)
  <2>1. read' \in [Procs -> 0 .. MaxLimit]
    BY <1>0, <1>3 DEF ReadLimit, TypeOK
  <2>2. Goto(p, "count") /\ pc[p] = "limit"
        /\ UNCHANGED <<rows, limit, chosen, job, highest, cut, updates>>
    BY <1>3 DEF ReadLimit
  <2>3. /\ pc' \in [Procs -> Places] /\ JobFits'
        /\ \A q \in Procs : pc'[q] \in {"taken", "set"} => chosen'[q][job'[q].user] # None
    <3>1. UNCHANGED <<job, chosen>> /\ pc[p] # "idle"
      BY <2>2
    <3> QED
      BY <2>2, <3>1, MovesOn
  <2> QED
    BY <1>0, <2>1, <2>2, <2>3 DEF Typed, TypeOK, Places
<1>4. CASE CountLinks(p)
  <2>1. CASE Done(p)
    BY <1>0, <1>4, <2>1, IsOver DEF CountLinks, Typed, TypeOK, Places
  <2>2. CASE Goto(p, "insert") /\ UNCHANGED <<job, read>>
    BY <1>0, <1>4, <2>2, MovesOn DEF CountLinks, Typed, TypeOK, Places
  <2> QED
    BY <1>4, <2>1, <2>2 DEF CountLinks
<1>5. CASE AddLink(p) \/ MintReplacement(p)
  <2>1. AddCID(job[p].user) /\ Done(p) /\ UNCHANGED <<limit, chosen, highest, updates>>
    BY <1>5 DEF AddLink, MintReplacement
  <2>2. /\ owner' \in [Cids -> Users \cup {None}] /\ had' \in [Users -> SUBSET Cids]
        /\ cut' \subseteq Users
    BY <1>0, <2>1, InsertIsTyped
  <2> QED
    BY <1>0, <2>1, <2>2, IsOver DEF Typed, TypeOK, Places
<1>6. CASE RemoveCID(p)
  <2>1. owner' \in [Cids -> Users \cup {None}]
    BY <1>0, <1>6 DEF RemoveCID, TypeOK
  <2>2. Goto(p, "left") /\ pc[p] = "delete"
        /\ UNCHANGED <<limit, chosen, job, read, had, highest, cut, updates>>
    BY <1>6 DEF RemoveCID
  <2>3. /\ pc' \in [Procs -> Places] /\ JobFits'
        /\ \A q \in Procs : pc'[q] \in {"taken", "set"} => chosen'[q][job'[q].user] # None
    <3>1. UNCHANGED <<job, chosen>> /\ pc[p] # "idle"
      BY <2>2
    <3> QED
      BY <2>2, <3>1, MovesOn
  <2> QED
    BY <1>0, <2>1, <2>2, <2>3 DEF Typed, TypeOK, Places
<1>7. CASE WhatIsLeft(p)
  <2>1. CASE Done(p)
    BY <1>0, <1>7, <2>1, IsOver DEF WhatIsLeft, Typed, TypeOK, Places
  <2>2. CASE Goto(p, "mint") /\ UNCHANGED <<job, read>>
    BY <1>0, <1>7, <2>2, MovesOn DEF WhatIsLeft, Typed, TypeOK, Places
  <2> QED
    BY <1>7, <2>1, <2>2 DEF WhatIsLeft
<1>8. CASE ChangeLink(p)
  <2>1. job[p].cid \in Cids
    BY <1>0, <1>8, JobParts DEF ChangeLink, JobFits
  <2>2. chosen' \in [Procs -> [Users -> Cids \cup {None}]]
        /\ \A q \in Procs \ {p} : chosen'[q] = chosen[q]
    BY <1>0, <1>8, <2>1 DEF ChangeLink, TypeOK
  <2> QED
    BY <1>0, <1>8, <2>2, IsOver DEF ChangeLink, Typed, TypeOK, Places
<1>9. CASE CidTaken(p)
  <2>1. CASE Done(p)
    BY <1>0, <1>9, <2>1, IsOver DEF CidTaken, Typed, TypeOK, Places
  <2>2. CASE Goto(p, "set") /\ UNCHANGED <<job, read>>
    BY <1>0, <1>9, <2>2, MovesOn DEF CidTaken, Typed, TypeOK, Places
  <2> QED
    BY <1>9, <2>1, <2>2 DEF CidTaken
<1>10. CASE SetCID(p)
  <2> DEFINE old == chosen[p][job[p].user]
             n   == job[p].cid
  <2>1. old \in Cids /\ n \in Cids
    BY <1>0, <1>10, JobParts DEF SetCID, JobFits, TypeOK
  <2>2. Done(p) /\ UNCHANGED <<limit, highest, cut, updates>>
    BY <1>10 DEF SetCID
  <2>3. chosen' \in [Procs -> [Users -> Cids \cup {None}]]
        /\ \A q \in Procs \ {p} : chosen'[q] = chosen[q]
    <3> DEFINE u == job[p].user
    <3>1. chosen' = chosen \/ chosen' = [chosen EXCEPT ![p][u] = None]
      BY <1>10 DEF SetCID
    <3>2. u \in Users
      BY <1>0
    <3> HIDE DEF u
    <3> QED
      BY <1>0, <3>1, <3>2 DEF TypeOK
  <2>4. owner' \in [Cids -> Users \cup {None}] /\ had' \in [Users -> SUBSET Cids]
    <3>1. \/ UNCHANGED rows
          \/ /\ owner[old] # None
             /\ owner' = [owner EXCEPT ![old] = None, ![n] = owner[old]]
             /\ had' = [had EXCEPT ![owner[old]] = @ \cup {n}]
      BY <1>10 DEF SetCID
    <3>2. owner[old] \in Users \cup {None}
      BY <1>0, <2>1 DEF TypeOK
    <3> HIDE DEF old, n
    <3> QED
      BY <1>0, <2>1, <3>1, <3>2 DEF TypeOK
  <2> QED
    BY <1>0, <2>2, <2>3, <2>4, IsOver DEF Typed, TypeOK, Places
<1> QED
  BY <1>1, <1>2, <1>3, <1>4, <1>5, <1>6, <1>7, <1>8, <1>9, <1>10 DEF Step

LEMMA TypesStep == Typed /\ [Next]_vars => Typed'
<1> SUFFICES ASSUME Typed, [Next]_vars PROVE Typed'
  OBVIOUS
<1> USE DEF Typed, rows
<1>1. ASSUME NEW p \in Procs, Fail(p) \/ Crash(p) PROVE Typed'
  <2>1. Done(p) /\ UNCHANGED <<rows, limit, highest, updates>>
    BY <1>1 DEF Fail, Crash
  <2>2. chosen' \in [Procs -> [Users -> Cids \cup {None}]]
        /\ \A q \in Procs \ {p} : chosen'[q] = chosen[q]
    BY <1>1 DEF Fail, Crash, TypeOK
  <2>3. cut' \subseteq Users
    <3>1. pc[p] \in {"left", "mint"} => job[p].user \in Users
      BY JobParts DEF JobFits
    <3> QED
      BY <1>1, <3>1 DEF Fail, Crash, TypeOK
  <2> QED
    BY <2>1, <2>2, <2>3, IsOver DEF TypeOK, Places
<1>2. ASSUME NEW p \in Procs, NEW j \in Jobs, Update(p, j) PROVE Typed'
  <2>1. /\ pc' = [pc EXCEPT ![p] = "init"] /\ job' = [job EXCEPT ![p] = j]
        /\ updates' \in 0 .. MaxUpdates
        /\ j.op = "rename" => chosen[p][j.user] # None
        /\ UNCHANGED <<rows, limit, chosen, read, highest, cut>>
    BY <1>2, LinksAssumption DEF Update, Goto, Waits, TypeOK
  <2>2. /\ pc'[p] = "init" /\ job'[p] = j
        /\ \A q \in Procs \ {p} : pc'[q] = pc[q] /\ job'[q] = job[q]
    BY <2>1 DEF TypeOK
  <2>3. JobFits'
    BY <2>1, <2>2 DEF JobFits
  <2>4. TypeOK'
    BY <2>1, <2>2 DEF TypeOK
  <2> QED
    BY <2>3, <2>4
<1>3. ASSUME NEW p \in Procs, NEW u \in Users, Forget(p, u) PROVE Typed'
  <2>1. /\ pc[p] = "idle" /\ chosen' \in [Procs -> [Users -> Cids \cup {None}]]
        /\ \A q \in Procs \ {p} : chosen'[q] = chosen[q]
        /\ UNCHANGED <<rows, limit, pc, job, read, highest, cut, updates>>
    BY <1>3 DEF Forget, TypeOK
  <2> QED
    BY <2>1 DEF TypeOK, JobFits
<1>4. ASSUME NEW u \in Users, NEW n \in 0 .. MaxLimit, SetCIDLimit(u, n) PROVE Typed'
  <2>1. limit' \in [Users -> 0 .. MaxLimit] /\ highest' \in [Users -> 1 .. MaxLimit]
    BY <1>4, LinksAssumption DEF SetCIDLimit, TypeOK
  <2> QED
    BY <1>4, <2>1 DEF SetCIDLimit, TypeOK, JobFits
<1>5. CASE UNCHANGED vars
  BY <1>5 DEF vars, TypeOK, JobFits
<1> QED
  BY <1>1, <1>2, <1>3, <1>4, <1>5, HandlerKeepsTypes DEF Next

LEMMA InitIsTyped == Init => Typed
BY LinksAssumption DEF Init, Typed, TypeOK, JobFits

\* Every reachable state of the links is well typed, and a rename has a link to rename.
THEOREM TypeCorrect == Spec => []TypeOK
<1>1. Typed => TypeOK
  BY DEF Typed
<1> QED
  BY <1>1, InitIsTyped, TypesStep, PTL DEF Spec

-----------------------------------------------------------------------------
(* The limit.                                                              *)

\* The handlers of the other processes stand still.
OthersWait(p) == \A q \in Procs \ {p} : pc'[q] = pc[q] /\ job'[q] = job[q]

LEMMA StepsAlone ==
  ASSUME Typed, NEW p \in Procs, Step(p)
  PROVE  OthersWait(p) /\ (pc'[p] # "idle" => job'[p] = job[p])
BY DEF Typed, TypeOK, OthersWait, Step, InitUser, FirstLink, ReadLimit, CountLinks, AddLink,
       RemoveCID, WhatIsLeft, MintReplacement, ChangeLink, CidTaken, SetCID, Goto, Done

LEMMA InsertingWithout ==
  ASSUME NEW p \in Procs, OthersWait(p), pc'[p] \notin {"insert", "first", "mint"}, NEW u
  PROVE  /\ Inserting(u)' = Inserting(u) \ {p}
         /\ Cardinality(Inserting(u)') = Cardinality(Inserting(u))
                                          - IF p \in Inserting(u) THEN 1 ELSE 0
<1>1. Inserting(u)' = Inserting(u) \ {p}
  BY DEF Inserting, OthersWait
<1>2. CASE p \in Inserting(u)
  BY <1>1, <1>2, SizesAreNatural, FS_RemoveElement
<1>3. CASE p \notin Inserting(u)
  <2>1. Inserting(u)' = Inserting(u)
    BY <1>1, <1>3
  <2>2. Cardinality(Inserting(u)) \in Nat
    BY SizesAreNatural
  <2>3. Cardinality(Inserting(u)') = Cardinality(Inserting(u)) - 0
    BY <2>1, <2>2
  <2> QED
    BY <1>1, <1>3, <2>3
<1> QED
  BY <1>2, <1>3

\* Whoever finds no link, or one less than the limit, has room for all that insert now.
LEMMA RoomForAll ==
  ASSUME TypeOK, TypeOK', NEW u \in Users, Cardinality(Links(u)') < highest'[u]
  PROVE  Cardinality(Links(u)') + Cardinality(Inserting(u)')
           <= highest'[u] + Cardinality(Procs) - 1
<1>1. Inserting(u)' \subseteq Procs
  BY DEF Inserting
<1>2. /\ Cardinality(Inserting(u)') <= Cardinality(Procs)
      /\ Cardinality(Inserting(u)') \in Nat /\ Cardinality(Procs) \in Nat
  BY <1>1, LinksAssumption, FS_Subset, FS_CardinalityType
<1>3. Cardinality(Links(u)') \in Nat
  BY LinksAssumption, FS_Subset, FS_CardinalityType DEF Links
<1>4. highest'[u] \in Nat
  BY DEF TypeOK
<1> QED
  BY <1>2, <1>3, <1>4

\* No link more, and nobody new on the way to one.
LEMMA NoneMore ==
  ASSUME TypeOK, TypeOK', Accounted, NEW u \in Users,
         Cardinality(Links(u)') <= Cardinality(Links(u)),
         Inserting(u)' \subseteq Inserting(u), highest'[u] >= highest[u]
  PROVE  Cardinality(Links(u)') + Cardinality(Inserting(u)')
           <= highest'[u] + Cardinality(Procs) - 1
<1>1. /\ Cardinality(Inserting(u)') <= Cardinality(Inserting(u))
      /\ Cardinality(Inserting(u)') \in Nat
  BY SizesAreNatural, FS_Subset, FS_CardinalityType
<1>2. Cardinality(Links(u)') \in Nat
  BY LinksAssumption, FS_Subset, FS_CardinalityType DEF Links
<1>3. highest'[u] \in Nat /\ highest[u] \in Nat
  BY DEF TypeOK
<1>4. Cardinality(Links(u)) + Cardinality(Inserting(u)) <= highest[u] + Cardinality(Procs) - 1
  BY DEF Accounted
<1> QED
  BY <1>1, <1>2, <1>3, <1>4, SizesAreNatural

\* A new link is one for its user and none for anybody else.
LEMMA NewLink ==
  ASSUME TypeOK, NEW u \in Users, AddCID(u)
  PROVE  /\ Cardinality(Links(u)') = Cardinality(Links(u)) + 1 /\ Links(u)' # {}
         /\ \A v \in Users \ {u} : Links(v)' = Links(v)
<1>1. PICK c \in Free : owner' = [owner EXCEPT ![c] = u]
  BY DEF AddCID
<1>2. c \in Cids /\ owner[c] = None /\ c \notin Links(u)
  BY <1>1, LinksAssumption DEF Free, Links
<1>3. Links(u)' = Links(u) \cup {c}
  BY <1>1, <1>2 DEF Links, TypeOK
<1>4. \A v \in Users \ {u} : Links(v)' = Links(v)
  BY <1>1, <1>2, LinksAssumption DEF Links, TypeOK
<1> QED
  BY <1>2, <1>3, <1>4, SizesAreNatural, FS_AddElement

\* A rename moves one link of one user.
LEMMA MovedLink ==
  ASSUME TypeOK, NEW old \in Cids, NEW n \in Cids, NEW o \in Users,
         owner[old] = o, owner[n] = None,
         owner' = [owner EXCEPT ![old] = None, ![n] = o]
  PROVE  /\ \A v \in Users : Cardinality(Links(v)') = Cardinality(Links(v))
         /\ n \in Links(o)'
         /\ \A v \in Users \ {o} : Links(v)' = Links(v)
<1>1. old # n /\ o # None
  BY LinksAssumption
<1>2. \A c \in Cids : owner'[c] = IF c = n THEN o ELSE IF c = old THEN None ELSE owner[c]
  BY <1>1 DEF TypeOK
<1>3. n \notin Links(o) /\ old \in Links(o)
  BY <1>1 DEF Links
<1>4. \A v \in Users \ {o} : Links(v)' = Links(v)
  <2> SUFFICES ASSUME NEW v \in Users \ {o}, NEW c \in Cids
               PROVE  owner'[c] = v <=> owner[c] = v
    BY DEF Links
  <2>1. v # None
    BY LinksAssumption
  <2> QED
    BY <1>2, <2>1
<1>5. Links(o)' = (Links(o) \cup {n}) \ {old} /\ n \in Links(o)'
  BY <1>1, <1>2 DEF Links
<1>6. Cardinality(Links(o) \cup {n}) = Cardinality(Links(o)) + 1
      /\ IsFiniteSet(Links(o) \cup {n})
  BY <1>3, SizesAreNatural, FS_AddElement
<1>7. Cardinality((Links(o) \cup {n}) \ {old}) = Cardinality(Links(o) \cup {n}) - 1
  BY <1>3, <1>6, FS_RemoveElement
<1>8. Cardinality(Links(o)') = Cardinality(Links(o))
  BY <1>5, <1>6, <1>7, SizesAreNatural
<1>9. \A v \in Users : Cardinality(Links(v)') = Cardinality(Links(v))
  BY <1>4, <1>8
<1> QED
  BY <1>4, <1>5, <1>9

LEMMA HandlerKeepsLimit ==
  ASSUME Typed, Typed', ReadIsOld, Accounted, NEW p \in Procs, Step(p)
  PROVE  Accounted'
<1> DEFINE w == job[p].user
<1>0. /\ w \in Users /\ OthersWait(p) /\ UNCHANGED highest /\ TypeOK /\ TypeOK'
      /\ highest \in [Users -> 1 .. MaxLimit] /\ read[p] \in Nat
  <2>1. job[p] \in Jobs
    BY DEF Typed, JobFits, Step, InitUser, FirstLink, ReadLimit, CountLinks, AddLink, RemoveCID,
           WhatIsLeft, MintReplacement, ChangeLink, CidTaken, SetCID
  <2>2. UNCHANGED highest
    BY DEF Step, InitUser, FirstLink, ReadLimit, CountLinks, AddLink, RemoveCID, WhatIsLeft,
           MintReplacement, ChangeLink, CidTaken, SetCID
  <2> QED
    BY <2>1, <2>2, JobParts, StepsAlone DEF Typed, TypeOK
<1> SUFFICES ASSUME NEW v \in Users
             PROVE  Cardinality(Links(v)') + Cardinality(Inserting(v)')
                      <= highest'[v] + Cardinality(Procs) - 1
  BY DEF Accounted
<1>1. highest[v] \in Nat /\ highest[v] >= 1
  BY <1>0
<1>2. ASSUME pc'[p] \notin {"insert", "first", "mint"},
             Cardinality(Links(v)') <= Cardinality(Links(v))
      PROVE  Cardinality(Links(v)') + Cardinality(Inserting(v)')
                      <= highest'[v] + Cardinality(Procs) - 1
  BY <1>0, <1>1, <1>2, InsertingWithout, NoneMore
<1>3. ASSUME UNCHANGED owner PROVE Links(v)' = Links(v) /\ Cardinality(Links(v)') \in Nat
  BY <1>3, SizesAreNatural DEF Links
\* Who goes to an insertion has seen that there is room.
<1>4. ASSUME pc'[p] \in {"insert", "first", "mint"}, UNCHANGED owner, UNCHANGED job,
             Cardinality(Links(w)) < highest[w]
      PROVE  Cardinality(Links(v)') + Cardinality(Inserting(v)')
                      <= highest'[v] + Cardinality(Procs) - 1
  <2>1. CASE v = w
    BY <1>0, <1>3, <1>4, <2>1, RoomForAll
  <2>2. CASE v # w
    <3>1. Inserting(v)' \subseteq Inserting(v)
      BY <1>0, <1>4, <2>2 DEF Inserting, OthersWait
    <3> QED
      BY <1>0, <1>1, <1>3, <1>4, <3>1, NoneMore
  <2> QED
    BY <2>1, <2>2
<1>5. ASSUME AddCID(w), pc[p] \in {"insert", "first", "mint"},
             pc'[p] \notin {"insert", "first", "mint"}
      PROVE  Cardinality(Links(v)') + Cardinality(Inserting(v)')
                      <= highest'[v] + Cardinality(Procs) - 1
  <2>1. CASE v = w
    <3>1. Cardinality(Links(v)') = Cardinality(Links(v)) + 1
      BY <1>0, <1>5, <2>1, NewLink
    <3>2. Cardinality(Inserting(v)') = Cardinality(Inserting(v)) - 1
      <4>1. p \in Inserting(v)
        BY <1>5, <2>1 DEF Inserting
      <4> QED
        BY <1>0, <1>5, <4>1, InsertingWithout
    <3>3. Cardinality(Links(v)) + Cardinality(Inserting(v))
            <= highest[v] + Cardinality(Procs) - 1
      BY DEF Accounted
    <3> QED
      BY <1>0, <1>1, <3>1, <3>2, <3>3, SizesAreNatural
  <2>2. CASE v # w
    <3>1. Cardinality(Links(v)') <= Cardinality(Links(v))
      BY <1>0, <1>5, <2>2, NewLink, SizesAreNatural
    <3> QED
      BY <1>2, <1>5, <3>1
  <2> QED
    BY <2>1, <2>2
<1>6. CASE InitUser(p)
  <2>1. UNCHANGED <<owner, job>>
    BY <1>6 DEF InitUser, rows
  <2>2. CASE Links(w) = {}
    <3>1. pc'[p] = "first"
      BY <1>0, <1>6, <2>2 DEF InitUser, Goto, TypeOK
    <3>2. Cardinality(Links(w)) < highest[w]
      BY <1>0, <2>2, FS_EmptySet
    <3> QED
      BY <1>4, <2>1, <3>1, <3>2
  <2>3. CASE Links(w) # {}
    <3>1. pc'[p] = FirstOf[job[p].op] /\ job[p] \in Jobs
      BY <1>0, <1>6, <2>3 DEF InitUser, Goto, TypeOK, Typed, JobFits
    <3> QED
      BY <1>2, <1>3, <2>1, <3>1, JobParts, SizesAreNatural
  <2> QED
    BY <2>2, <2>3
<1>7. CASE FirstLink(p)
  <2>1. pc'[p] = FirstOf[job[p].op] /\ job[p] \in Jobs
    BY <1>0, <1>7 DEF FirstLink, Goto, TypeOK, Typed, JobFits
  <2> QED
    BY <1>5, <1>7, <2>1, JobParts DEF FirstLink
<1>8. CASE ReadLimit(p)
  <2>1. pc'[p] = "count" /\ UNCHANGED owner
    BY <1>0, <1>8 DEF ReadLimit, Goto, TypeOK, rows
  <2> QED
    BY <1>2, <1>3, <2>1, SizesAreNatural
<1>9. CASE CountLinks(p)
  <2>1. UNCHANGED owner
    BY <1>9 DEF CountLinks, rows
  <2>2. CASE Done(p)
    <3>1. pc'[p] = "idle"
      BY <1>0, <2>2 DEF Done, Goto, TypeOK
    <3> QED
      BY <1>2, <1>3, <2>1, <3>1, SizesAreNatural
  <2>3. CASE ~Full(p) /\ Goto(p, "insert") /\ UNCHANGED <<job, read>>
    <3>1. pc'[p] = "insert" /\ UNCHANGED job
      BY <1>0, <2>3 DEF Goto, TypeOK
    <3>2. Cardinality(Links(w)) < highest[w]
      <4>1. read[p] <= highest[w]
        BY <1>9 DEF CountLinks, ReadIsOld
      <4>2. Cardinality(Links(w)) < read[p]
        BY <1>0, <2>3, SizesAreNatural DEF Full
      <4>3. highest[w] \in Nat
        BY <1>0
      <4> QED
        BY <1>0, <4>1, <4>2, <4>3, SizesAreNatural
    <3> QED
      BY <1>4, <2>1, <3>1, <3>2
  <2> QED
    BY <1>9, <2>2, <2>3 DEF CountLinks
<1>10. CASE AddLink(p) \/ MintReplacement(p)
  <2>1. /\ AddCID(w) /\ pc[p] \in {"insert", "first", "mint"} /\ pc'[p] = "idle"
    BY <1>0, <1>10 DEF AddLink, MintReplacement, Done, Goto, TypeOK
  <2> QED
    BY <1>5, <2>1
<1>11. CASE RemoveCID(p)
  <2>1. pc'[p] = "left" /\ Links(v)' \subseteq Links(v)
    BY <1>0, <1>11, LinksAssumption DEF RemoveCID, Goto, Links, TypeOK
  <2>2. Cardinality(Links(v)') <= Cardinality(Links(v))
    BY <2>1, SizesAreNatural, FS_Subset
  <2> QED
    BY <1>2, <2>1, <2>2
<1>12. CASE WhatIsLeft(p)
  <2>1. UNCHANGED owner
    BY <1>12 DEF WhatIsLeft, rows
  <2>2. CASE Done(p)
    <3>1. pc'[p] = "idle"
      BY <1>0, <2>2 DEF Done, Goto, TypeOK
    <3> QED
      BY <1>2, <1>3, <2>1, <3>1, SizesAreNatural
  <2>3. CASE Links(w) = {} /\ Goto(p, "mint") /\ UNCHANGED <<job, read>>
    <3>1. pc'[p] = "mint" /\ UNCHANGED job
      BY <1>0, <2>3 DEF Goto, TypeOK
    <3>2. Cardinality(Links(w)) < highest[w]
      BY <1>0, <2>3, FS_EmptySet
    <3> QED
      BY <1>4, <2>1, <3>1, <3>2
  <2> QED
    BY <1>12, <2>2, <2>3 DEF WhatIsLeft
<1>13. CASE ChangeLink(p) \/ CidTaken(p)
  <2>1. UNCHANGED owner
    BY <1>13 DEF ChangeLink, CidTaken, rows
  <2>2. pc'[p] \in {"idle", "set"}
    BY <1>0, <1>13 DEF ChangeLink, CidTaken, Done, Goto, TypeOK
  <2> QED
    BY <1>2, <1>3, <2>1, <2>2, SizesAreNatural
<1>14. CASE SetCID(p)
  <2>1. pc'[p] = "idle"
    BY <1>0, <1>14 DEF SetCID, Done, Goto, TypeOK
  <2>2. Cardinality(Links(v)') <= Cardinality(Links(v))
    <3> DEFINE old == chosen[p][w]
               n   == job[p].cid
    <3>1. old \in Cids /\ n \in Cids
      <4>1. pc[p] = "set"
        BY <1>14 DEF SetCID
      <4>2. job[p] \in Jobs /\ job[p].op = "rename" /\ old # None
        BY <4>1 DEF Typed, JobFits
      <4>3. old \in Cids \cup {None}
        BY <1>0 DEF TypeOK
      <4> QED
        BY <4>2, <4>3, JobParts
    <3>2. \/ UNCHANGED owner
          \/ /\ owner[old] # None /\ owner[n] = None
             /\ owner' = [owner EXCEPT ![old] = None, ![n] = owner[old]]
      BY <1>14 DEF SetCID, rows
    <3>3. owner[old] # None => owner[old] \in Users
      BY <1>0, <3>1 DEF TypeOK
    <3> HIDE DEF old, n
    <3> QED
      BY <1>0, <1>3, <3>1, <3>2, <3>3, MovedLink, SizesAreNatural
  <2> QED
    BY <1>2, <2>1, <2>2
<1> QED
  BY <1>6, <1>7, <1>8, <1>9, <1>10, <1>11, <1>12, <1>13, <1>14 DEF Step

\* The rows after a step: as they were, one more of a user, one less, or one moved.
LEMMA RowsAfter ==
  ASSUME Typed, [Next]_vars
  PROVE  \/ UNCHANGED <<owner, had>>
         \/ \E u \in Users : AddCID(u)
         \/ \E c \in Cids : owner' = [owner EXCEPT ![c] = None] /\ UNCHANGED had
         \/ \E old, n \in Cids, o \in Users :
              /\ owner[old] = o /\ owner[n] = None
              /\ owner' = [owner EXCEPT ![old] = None, ![n] = o]
              /\ had' = [had EXCEPT ![o] = @ \cup {n}]
<1> DEFINE Same  == UNCHANGED <<owner, had>>
           Added == \E u \in Users : AddCID(u)
           Gone  == \E c \in Cids : owner' = [owner EXCEPT ![c] = None] /\ UNCHANGED had
           Moved == \E old, n \in Cids, o \in Users :
                      /\ owner[old] = o /\ owner[n] = None
                      /\ owner' = [owner EXCEPT ![old] = None, ![n] = o]
                      /\ had' = [had EXCEPT ![o] = @ \cup {n}]
<1>1. ASSUME NEW p \in Procs, Step(p) PROVE Same \/ Added \/ Gone \/ Moved
  <2>1. /\ pc[p] # "idle" /\ job[p] \in Jobs /\ job[p].user \in Users
    BY <1>1, JobParts DEF Typed, JobFits, Step, InitUser, FirstLink, ReadLimit, CountLinks,
         AddLink, RemoveCID, WhatIsLeft, MintReplacement, ChangeLink, CidTaken, SetCID
  <2>2. CASE FirstLink(p) \/ AddLink(p) \/ MintReplacement(p)
    BY <2>1, <2>2 DEF FirstLink, AddLink, MintReplacement
  <2>3. CASE InitUser(p) \/ ReadLimit(p) \/ CountLinks(p) \/ WhatIsLeft(p) \/ ChangeLink(p)
             \/ CidTaken(p)
    BY <2>3 DEF InitUser, ReadLimit, CountLinks, WhatIsLeft, ChangeLink, CidTaken, rows
  <2>4. CASE RemoveCID(p)
    <3>1. job[p].cid \in Cids
      BY <2>1, <2>4, JobParts DEF RemoveCID, Typed, JobFits
    <3> QED
      BY <2>4, <3>1 DEF RemoveCID
  <2>5. CASE SetCID(p)
    <3> DEFINE old == chosen[p][job[p].user]
               n   == job[p].cid
    <3>1. job[p].op = "rename" /\ old # None /\ old \in Cids \cup {None}
      BY <2>1, <2>5 DEF SetCID, Typed, JobFits, TypeOK
    <3>2. old \in Cids /\ n \in Cids
      BY <2>1, <3>1, JobParts
    <3>3. \/ UNCHANGED rows
          \/ /\ owner[old] # None /\ owner[n] = None
             /\ owner' = [owner EXCEPT ![old] = None, ![n] = owner[old]]
             /\ had' = [had EXCEPT ![owner[old]] = @ \cup {n}]
      BY <2>5 DEF SetCID
    <3>4. owner[old] # None => owner[old] \in Users
      BY <3>2 DEF Typed, TypeOK
    <3> HIDE DEF old, n
    <3> QED
      BY <3>2, <3>3, <3>4 DEF rows
  <2> QED
    BY <1>1, <2>2, <2>3, <2>4, <2>5 DEF Step
<1>2. ASSUME NEW p \in Procs, NEW j \in Jobs, Update(p, j) PROVE Same
  BY <1>2 DEF Update, rows
<1>3. ASSUME NEW p \in Procs, NEW u \in Users, Forget(p, u) PROVE Same
  BY <1>3 DEF Forget, rows
<1>4. ASSUME NEW p \in Procs, Fail(p) \/ Crash(p) PROVE Same
  BY <1>4 DEF Fail, Crash, rows
<1>5. ASSUME NEW u \in Users, NEW n \in 0 .. MaxLimit, SetCIDLimit(u, n) PROVE Same
  BY <1>5 DEF SetCIDLimit, rows
<1>6. CASE UNCHANGED vars
  BY <1>6 DEF vars, rows
<1> QED
  BY <1>1, <1>2, <1>3, <1>4, <1>5, <1>6 DEF Next

\* Every link is among those its user has had.
LEMMA HadKeeps ==
  ASSUME Typed, [Next]_vars, \A c \in Cids : owner[c] # None => c \in had[owner[c]]
  PROVE  \A c \in Cids : owner'[c] # None => c \in had'[owner'[c]]
<1> USE DEF Typed, TypeOK
<1>1. CASE UNCHANGED <<owner, had>>
  BY <1>1
<1>2. ASSUME NEW u \in Users, AddCID(u)
      PROVE  \A c \in Cids : owner'[c] # None => c \in had'[owner'[c]]
  BY <1>2 DEF AddCID, Free
<1>3. ASSUME NEW c \in Cids, owner' = [owner EXCEPT ![c] = None], UNCHANGED had
      PROVE  \A d \in Cids : owner'[d] # None => d \in had'[owner'[d]]
  BY <1>3
<1>4. ASSUME NEW old \in Cids, NEW n \in Cids, NEW o \in Users,
             owner[old] = o, owner[n] = None,
             owner' = [owner EXCEPT ![old] = None, ![n] = o],
             had' = [had EXCEPT ![o] = @ \cup {n}]
      PROVE  \A d \in Cids : owner'[d] # None => d \in had'[owner'[d]]
  BY <1>4
<1> QED
  BY <1>1, <1>2, <1>3, <1>4, RowsAfter

LEMMA ReadKeeps ==
  ASSUME Typed, ReadIsOld, [Next]_vars
  PROVE  ReadIsOld'
<1> USE DEF Typed, TypeOK
<1>1. \A c \in Cids : owner'[c] # None => c \in had'[owner'[c]]
  BY HadKeeps DEF ReadIsOld
<1>2. ASSUME NEW u \in Users, NEW n \in 0 .. MaxLimit, SetCIDLimit(u, n) PROVE ReadIsOld'
  <2>1. /\ limit' = [limit EXCEPT ![u] = n]
        /\ highest' = [highest EXCEPT ![u] = IF n > @ THEN n ELSE @]
        /\ UNCHANGED <<pc, job, read>>
    BY <1>2 DEF SetCIDLimit
  <2>2. \A v \in Users : limit'[v] <= highest'[v] /\ highest[v] <= highest'[v]
    BY <2>1, LinksAssumption DEF ReadIsOld
  <2>3. ASSUME NEW p \in Procs, pc[p] = "count" PROVE read[p] <= highest'[job[p].user]
    <3>1. job[p].user \in Users /\ read[p] <= highest[job[p].user]
      BY <2>3, JobParts DEF ReadIsOld, JobFits
    <3>2. read[p] \in Nat /\ highest[job[p].user] \in Nat /\ highest'[job[p].user] \in Nat
      BY <2>1, <3>1, LinksAssumption
    <3> QED
      BY <2>2, <3>1, <3>2
  <2> QED
    BY <1>1, <2>1, <2>2, <2>3 DEF ReadIsOld
<1>3. ASSUME UNCHANGED <<limit, highest>>,
             \A p \in Procs : pc'[p] = "count" =>
               \/ pc[p] = "count" /\ read'[p] = read[p] /\ job'[p] = job[p]
               \/ read'[p] = limit[job'[p].user] /\ job'[p].user \in Users
      PROVE  ReadIsOld'
  BY <1>1, <1>3 DEF ReadIsOld
<1>4. ASSUME NEW p \in Procs, Step(p) PROVE ReadIsOld'
  <2>1. UNCHANGED <<limit, highest>> /\ OthersWait(p)
    BY <1>4, StepsAlone DEF Step, InitUser, FirstLink, ReadLimit, CountLinks,
         AddLink, RemoveCID, WhatIsLeft, MintReplacement, ChangeLink, CidTaken, SetCID
  <2>2. \A q \in Procs \ {p} : read'[q] = read[q]
    BY <1>4 DEF Step, InitUser, FirstLink, ReadLimit, CountLinks, AddLink, RemoveCID,
         WhatIsLeft, MintReplacement, ChangeLink, CidTaken, SetCID, Done
  <2>3. CASE ReadLimit(p)
    <3>1. read'[p] = limit[job'[p].user] /\ job'[p].user \in Users
      BY <2>3, JobParts DEF ReadLimit, JobFits
    <3> QED
      BY <1>3, <2>1, <2>2, <3>1 DEF OthersWait
  <2>4. CASE ~ReadLimit(p)
    <3>1. pc'[p] # "count"
      <4>1. job[p] \in Jobs
        BY <1>4 DEF JobFits, Step, InitUser, FirstLink, ReadLimit, CountLinks,
           AddLink, RemoveCID, WhatIsLeft, MintReplacement, ChangeLink, CidTaken, SetCID
      <4>2. FirstOf[job[p].op] # "count"
        BY <4>1, JobParts
      <4> QED
        BY <1>4, <2>4, <4>2 DEF Step, InitUser, FirstLink, CountLinks,
           AddLink, RemoveCID, WhatIsLeft, MintReplacement, ChangeLink, CidTaken, SetCID, Goto, Done
    <3> QED
      BY <1>3, <2>1, <2>2, <3>1 DEF OthersWait
  <2> QED
    BY <2>3, <2>4
<1>5. ASSUME NEW p \in Procs, NEW j \in Jobs, Update(p, j) PROVE ReadIsOld'
  BY <1>3, <1>5 DEF Update, Goto
<1>6. ASSUME NEW p \in Procs, NEW u \in Users, Forget(p, u) PROVE ReadIsOld'
  BY <1>3, <1>6 DEF Forget
<1>7. ASSUME NEW p \in Procs, Fail(p) \/ Crash(p) PROVE ReadIsOld'
  BY <1>3, <1>7 DEF Fail, Crash, Done, Goto
<1>8. CASE UNCHANGED vars
  BY <1>3, <1>8 DEF vars
<1> QED
  BY <1>2, <1>4, <1>5, <1>6, <1>7, <1>8 DEF Next

LEMMA LimitStep == Typed /\ ReadIsOld /\ Accounted /\ [Next]_vars => Accounted'
<1> SUFFICES ASSUME Typed, ReadIsOld, Accounted, [Next]_vars PROVE Accounted'
  OBVIOUS
<1>0. Typed' /\ TypeOK /\ TypeOK'
  BY TypesStep DEF Typed
<1>1. ASSUME UNCHANGED owner, \A u \in Users : Inserting(u)' \subseteq Inserting(u),
             \A u \in Users : highest'[u] >= highest[u]
      PROVE  Accounted'
  <2> SUFFICES ASSUME NEW v \in Users
               PROVE  Cardinality(Links(v)') + Cardinality(Inserting(v)')
                        <= highest'[v] + Cardinality(Procs) - 1
    BY DEF Accounted
  <2>1. Cardinality(Links(v)') <= Cardinality(Links(v))
    <3>1. Links(v)' = Links(v)
      BY <1>1 DEF Links
    <3>2. Cardinality(Links(v)) \in Nat
      BY SizesAreNatural
    <3> QED
      BY <3>1, <3>2
  <2> QED
    BY <1>0, <1>1, <2>1, NoneMore
<1>2. ASSUME NEW p \in Procs, Step(p) PROVE Accounted'
  BY <1>0, <1>2, HandlerKeepsLimit
<1>3. UNCHANGED highest => \A u \in Users : highest'[u] >= highest[u]
  BY <1>0 DEF TypeOK
<1>4. ASSUME NEW p \in Procs, NEW j \in Jobs, Update(p, j) PROVE Accounted'
  <2>1. \A u \in Users : Inserting(u)' \subseteq Inserting(u)
    BY <1>0, <1>4 DEF Update, Goto, Inserting, TypeOK
  <2> QED
    BY <1>1, <1>3, <1>4, <2>1 DEF Update, rows
<1>5. ASSUME NEW p \in Procs, NEW u \in Users, Forget(p, u) PROVE Accounted'
  BY <1>1, <1>3, <1>5 DEF Forget, rows, Inserting
<1>6. ASSUME NEW p \in Procs, Fail(p) \/ Crash(p) PROVE Accounted'
  <2>1. \A u \in Users : Inserting(u)' \subseteq Inserting(u)
    BY <1>0, <1>6 DEF Fail, Crash, Done, Goto, Inserting, TypeOK
  <2> QED
    BY <1>1, <1>3, <1>6, <2>1 DEF Fail, Crash, rows
<1>7. ASSUME NEW u \in Users, NEW n \in 0 .. MaxLimit, SetCIDLimit(u, n) PROVE Accounted'
  <2>1. \A v \in Users : highest'[v] >= highest[v]
    BY <1>0, <1>7 DEF SetCIDLimit, TypeOK
  <2> QED
    BY <1>1, <1>7, <2>1 DEF SetCIDLimit, rows, Inserting
<1>8. CASE UNCHANGED vars
  BY <1>1, <1>3, <1>8 DEF vars, rows, Inserting
<1> QED
  BY <1>2, <1>4, <1>5, <1>6, <1>7, <1>8 DEF Next

LEMMA InitLimit == Init => ReadIsOld /\ Accounted
<1> SUFFICES ASSUME Init PROVE ReadIsOld /\ Accounted
  OBVIOUS
<1>1. ReadIsOld
  BY DEF Init, ReadIsOld
<1>2. ASSUME NEW u \in Users
      PROVE  Cardinality(Links(u)) + Cardinality(Inserting(u))
               <= highest[u] + Cardinality(Procs) - 1
  <2>1. Links(u) = {} /\ Inserting(u) = {}
    BY LinksAssumption DEF Init, Links, Inserting
  <2>2. Cardinality(Procs) >= 0
    BY SizesAreNatural
  <2> QED
    BY <2>1, <2>2, SizesAreNatural, FS_EmptySet DEF Init
<1> QED
  BY <1>1, <1>2 DEF Accounted

\* For any number of processes, users and links, a user passes the highest limit they
\* were given by at most one link for each process beside the first (addLink).
THEOREM LimitIsKept == Spec => []LimitKept
<1>1. Typed /\ Accounted => LimitKept
  <2> SUFFICES ASSUME Typed, Accounted, NEW u \in Users
               PROVE  Cardinality(Links(u)) <= highest[u] + Cardinality(Procs) - 1
    BY DEF LimitKept
  <2>1. highest[u] \in Nat
    BY DEF Typed, TypeOK
  <2> QED
    BY <2>1, SizesAreNatural DEF Accounted
<1>2. ReadIsOld /\ Typed /\ [Next]_vars => ReadIsOld'
  BY ReadKeeps
<1> QED
  BY <1>1, <1>2, InitIsTyped, TypesStep, InitLimit, LimitStep, PTL DEF Spec

-----------------------------------------------------------------------------
(* Users without a link.                                                   *)

LEMMA ExcuseStep == Typed /\ ReadIsOld /\ NoLinkHasAnExcuse /\ [Next]_vars => NoLinkHasAnExcuse'
<1> SUFFICES ASSUME Typed, ReadIsOld, NoLinkHasAnExcuse, [Next]_vars,
                    NEW u \in Users, had'[u] # {}, Links(u)' = {}
             PROVE  u \in cut' \/ \E p \in Procs : pc'[p] \in {"left", "mint"} /\ job'[p].user = u
  BY DEF NoLinkHasAnExcuse
<1> USE DEF Typed, TypeOK
\* Only a removal takes the last link.
<1>1. CASE Links(u) # {}
  <2>1. ~UNCHANGED owner
    BY <1>1 DEF Links
  <2>2. ASSUME NEW v \in Users, AddCID(v) PROVE FALSE
    BY <1>1, <2>2, NewLink
  <2>3. ASSUME NEW old \in Cids, NEW n \in Cids, NEW o \in Users,
               owner[old] = o, owner[n] = None,
               owner' = [owner EXCEPT ![old] = None, ![n] = o]
        PROVE  FALSE
    <3>1. n \in Links(o)' /\ \A v \in Users \ {o} : Links(v)' = Links(v)
      BY <2>3, MovedLink
    <3> QED
      BY <1>1, <3>1
  <2>4. ASSUME NEW p \in Procs, SetCID(p) PROVE FALSE
    <3> DEFINE old == chosen[p][job[p].user]
               n   == job[p].cid
    <3>1. pc[p] = "set" /\ job[p] \in Jobs /\ job[p].op = "rename" /\ old # None
      BY <2>4 DEF SetCID, JobFits
    <3>2. old \in Cids /\ n \in Cids
      BY <3>1, JobParts
    <3>3. \/ UNCHANGED owner
          \/ /\ owner[old] # None /\ owner[n] = None
             /\ owner' = [owner EXCEPT ![old] = None, ![n] = owner[old]]
      BY <2>4 DEF SetCID, rows
    <3>4. owner[old] # None => owner[old] \in Users
      BY <3>2
    <3> HIDE DEF old, n
    <3> QED
      BY <2>1, <2>3, <3>2, <3>3, <3>4
  <2>5. ASSUME NEW p \in Procs, RemoveCID(p)
        PROVE  pc'[p] \in {"left", "mint"} /\ job'[p].user = u
    <3>1. pc'[p] = "left" /\ UNCHANGED job
      BY <2>5 DEF RemoveCID, Goto
    <3>2. PICK c \in Cids : owner[c] = u
      BY <1>1 DEF Links
    <3>3. owner'[c] # u
      BY <3>2 DEF Links
    <3>4. job[p].user = u
      BY <2>5, <3>2, <3>3 DEF RemoveCID, Doomed
    <3> QED
      BY <3>1, <3>4
  <2> QED
    <3>1. ASSUME NEW p \in Procs, Step(p) PROVE RemoveCID(p)
      <4>1. job[p].user \in Users
        BY <3>1, JobParts DEF JobFits, Step, InitUser, FirstLink, ReadLimit, CountLinks,
           AddLink, RemoveCID, WhatIsLeft, MintReplacement, ChangeLink, CidTaken, SetCID
      <4> QED
        BY <2>1, <2>2, <2>4, <3>1, <4>1 DEF Step, InitUser, FirstLink, ReadLimit, CountLinks,
           AddLink, WhatIsLeft, MintReplacement, ChangeLink, CidTaken, rows
    <3>2. \E p \in Procs : Step(p)
      BY <2>1 DEF Next, Update, Forget, Fail, Crash, SetCIDLimit, vars, rows
    <3> QED
      BY <2>5, <3>1, <3>2
\* An excuse lasts until there is a link.
<1>2. CASE Links(u) = {}
  <2>1. had[u] # {}
    <3>1. ASSUME NEW v \in Users, AddCID(v) PROVE had[u] # {}
      <4>1. v # u
        BY <3>1, NewLink
      <4> QED
        BY <3>1, <4>1 DEF AddCID
    <3>2. ASSUME NEW old \in Cids, NEW n \in Cids, NEW o \in Users,
                 owner[old] = o, owner[n] = None,
                 owner' = [owner EXCEPT ![old] = None, ![n] = o],
                 had' = [had EXCEPT ![o] = @ \cup {n}]
          PROVE  had[u] # {}
      <4>1. o # u
        BY <1>2, <3>2 DEF Links
      <4> QED
        BY <3>2, <4>1
    <3> QED
      BY <3>1, <3>2, RowsAfter
  <2>2. u \in cut \/ \E p \in Procs : pc[p] \in {"left", "mint"} /\ job[p].user = u
    BY <1>2, <2>1 DEF NoLinkHasAnExcuse
  <2>3. u \in cut => u \in cut'
    <3>1. ASSUME NEW v \in Users, AddCID(v) PROVE u \in cut => u \in cut'
      <4>1. v # u
        BY <3>1, NewLink
      <4> QED
        BY <3>1, <4>1 DEF AddCID
    <3>2. ASSUME NEW p \in Procs, Step(p) PROVE u \in cut => u \in cut'
      <4>1. job[p].user \in Users
        BY <3>2, JobParts DEF JobFits, Step, InitUser, FirstLink, ReadLimit, CountLinks,
           AddLink, RemoveCID, WhatIsLeft, MintReplacement, ChangeLink, CidTaken, SetCID
      <4> QED
        BY <3>1, <3>2, <4>1 DEF Step, InitUser, FirstLink, ReadLimit, CountLinks,
           AddLink, RemoveCID, WhatIsLeft, MintReplacement, ChangeLink, CidTaken, SetCID
    <3> QED
      BY <3>2 DEF Next, Update, Forget, Fail, Crash, SetCIDLimit, vars
  <2>4. ASSUME NEW p \in Procs, pc[p] \in {"left", "mint"}, job[p].user = u
        PROVE  u \in cut' \/ (pc'[p] \in {"left", "mint"} /\ job'[p].user = u)
    <3>1. ASSUME NEW q \in Procs, Step(q)
          PROVE  u \in cut' \/ (pc'[p] \in {"left", "mint"} /\ job'[p].user = u)
      <4>1. CASE q # p
        BY <2>4, <3>1, <4>1, StepsAlone DEF OthersWait
      <4>2. CASE q = p /\ WhatIsLeft(p)
        BY <1>2, <2>4, <4>2 DEF WhatIsLeft, Goto
      <4>3. ~MintReplacement(p)
        BY <2>4, NewLink DEF MintReplacement
      <4> QED
        BY <2>4, <3>1, <4>1, <4>2, <4>3 DEF Step, InitUser, FirstLink, ReadLimit, CountLinks,
           AddLink, RemoveCID, ChangeLink, CidTaken, SetCID
    <3>2. ASSUME NEW q \in Procs, Fail(q) \/ Crash(q)
          PROVE  u \in cut' \/ (pc'[p] \in {"left", "mint"} /\ job'[p].user = u)
      BY <2>4, <3>2 DEF Fail, Crash, Done, Goto
    <3>3. ASSUME NEW q \in Procs, NEW j \in Jobs, Update(q, j)
          PROVE  pc'[p] \in {"left", "mint"} /\ job'[p].user = u
      BY <2>4, <3>3 DEF Update, Goto
    <3> QED
      BY <2>4, <3>1, <3>2, <3>3 DEF Next, Forget, SetCIDLimit, vars
  <2> QED
    BY <2>2, <2>3, <2>4
<1> QED
  BY <1>1, <1>2

\* A user who had a link has none only while a removal replaces the last one, or after
\* one was cut short (removeLink), whatever the processes do at the same time.
THEOREM WithoutALinkForAReason == Spec => []NoLinkHasAnExcuse
<1>1. Init => NoLinkHasAnExcuse
  BY DEF Init, NoLinkHasAnExcuse
<1>2. ReadIsOld /\ Typed /\ [Next]_vars => ReadIsOld'
  BY ReadKeeps
<1> QED
  BY <1>1, <1>2, InitIsTyped, TypesStep, InitLimit, ExcuseStep, PTL DEF Spec

\* A removal takes links of its own user only, old buttons included (removeLink).
THEOREM OnlyOwnRemovals == Spec => RemovalsAreOwn
<1> DEFINE Own == \A p \in Procs, v \in Users :
                    pc[p] = "delete" /\ pc'[p] = "left" /\ v # job[p].user
                      => \A c \in Links(v) : owner'[c] = v
<1>1. Typed /\ [Next]_vars => [Own]_vars
  <2> SUFFICES ASSUME Typed, [Next]_vars, NEW p \in Procs, NEW v \in Users,
                      pc[p] = "delete", pc'[p] = "left", v # job[p].user, NEW c \in Links(v)
               PROVE  owner'[c] = v
    OBVIOUS
  <2>1. ASSUME NEW q \in Procs, Step(q) PROVE RemoveCID(p)
    <3>1. q = p
      BY <2>1, StepsAlone DEF OthersWait
    <3> QED
      BY <2>1, <3>1 DEF Step, InitUser, FirstLink, ReadLimit, CountLinks, AddLink,
                        WhatIsLeft, MintReplacement, ChangeLink, CidTaken, SetCID
  <2>2. \E q \in Procs : Step(q)
    BY DEF Next, Update, Forget, Fail, Crash, SetCIDLimit, vars, Done, Goto, Typed, TypeOK
  <2> QED
    BY <2>1, <2>2 DEF RemoveCID, Doomed, Links, Typed, TypeOK
<1> QED
  BY <1>1, InitIsTyped, TypesStep, PTL DEF Spec, RemovalsAreOwn

\* Past prep the user has a link (initUser), whatever a removal cut short before.
THEOREM PrepLeavesALink == Spec => HandlersStartWithALink
<1> DEFINE Ready == \A p \in Procs :
                      pc[p] \in {"init", "first"} /\ pc'[p] \notin {"init", "first", "idle"}
                        => Links(job[p].user)' # {}
<1>1. Typed /\ [Next]_vars => [Ready]_vars
  <2> SUFFICES ASSUME Typed, [Next]_vars, NEW p \in Procs,
                      pc[p] \in {"init", "first"}, pc'[p] \notin {"init", "first", "idle"}
               PROVE  Links(job[p].user)' # {}
    OBVIOUS
  <2>1. ASSUME NEW q \in Procs, Step(q) PROVE InitUser(p) \/ FirstLink(p)
    <3>1. q = p
      BY <2>1, StepsAlone DEF OthersWait
    <3> QED
      BY <2>1, <3>1 DEF Step, ReadLimit, CountLinks, AddLink, RemoveCID,
                        WhatIsLeft, MintReplacement, ChangeLink, CidTaken, SetCID
  <2>2. \E q \in Procs : Step(q)
    BY DEF Next, Update, Forget, Fail, Crash, SetCIDLimit, vars, Done, Goto, Typed, TypeOK
  <2>3. job'[p] = job[p] /\ job[p].user \in Users
    <3>1. job[p] \in Jobs
      BY DEF Typed, JobFits
    <3> QED
      BY <2>1, <2>2, <3>1, JobParts DEF InitUser, FirstLink
  <2>4. CASE InitUser(p)
    <3>1. UNCHANGED owner /\ Links(job[p].user) # {}
      BY <2>4 DEF InitUser, Goto, rows, Typed, TypeOK
    <3> QED
      BY <2>3, <3>1 DEF Links
  <2>5. CASE FirstLink(p)
    <3>1. PICK u \in Users : u = job[p].user
      BY <2>3
    <3>2. Links(u)' # {}
      BY <2>5, <3>1, NewLink DEF FirstLink, Typed
    <3> QED
      BY <2>3, <3>1, <3>2 DEF Links
  <2> QED
    BY <2>1, <2>2, <2>4, <2>5
<1> QED
  BY <1>1, InitIsTyped, TypesStep, PTL DEF Spec, HandlersStartWithALink
=============================================================================
