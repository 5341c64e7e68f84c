-------------------------------- MODULE Links --------------------------------
(***************************************************************************)
(* The anonymous links of the users: the table cids and the handlers that  *)
(* change it, /my_links (internal/bot/mylinks.go) and prep's initUser      *)
(* (internal/bot/inituser.go), which gives every user a link before any    *)
(* handler of theirs runs.                                                 *)
(*                                                                         *)
(* A step is one database statement, which commits by itself; any of them  *)
(* may fail, and the process may die between two.  A process handles one   *)
(* update at a time; two only run while a deploy replaces one by the other.*)
(* A user keeps the buttons of every list they were shown, so a tap may    *)
(* name a link they had once.                                              *)
(***************************************************************************)
EXTENDS Naturals, FiniteSets

CONSTANTS
  Procs,       \* bot processes
  Users,
  Cids,        \* ids a link can have
  Chevalets,   \* those taken as chevaletids, which no link may have
  MaxLimit,    \* bound: the link limits an admin sets
  MaxUpdates,  \* bound: updates handled
  None

ASSUME LinksAssumption ==
  /\ IsFiniteSet(Procs) /\ IsFiniteSet(Cids)
  /\ Chevalets \subseteq Cids
  /\ MaxLimit \in Nat \ {0}
  /\ MaxUpdates \in Nat
  /\ None \notin Users \cup Cids

VARIABLES
  owner,       \* cid -> the uid of its row, None when there is no row
  limit,       \* user -> users.cid_limit
  chosen,      \* process, user -> the link a rename waits for (chosenCid), if any
  pc, job,     \* process -> the statement its handler runs next, and the update
  read,        \* process -> the limit addLink has read
  had,         \* history: user -> links that were theirs at some time
  highest,     \* history: user -> the highest limit so far
  cut,         \* history: users whose removal stopped before its replacement
  updates      \* updates so far

rows == <<owner, had>>
vars == <<rows, limit, chosen, pc, job, read, highest, cut, updates>>

NoJob == [user |-> None, op |-> "none", cid |-> None]
Jobs == [user : Users, op : {"add"}, cid : {None}]
   \cup [user : Users, op : {"remove", "choose", "rename"}, cid : Cids]

Links(u) == {c \in Cids : owner[c] = u}
Free == {c \in Cids \ Chevalets : owner[c] = None}

TypeOK ==
  /\ owner \in [Cids -> Users \cup {None}]
  /\ limit \in [Users -> 0 .. MaxLimit]
  /\ chosen \in [Procs -> [Users -> Cids \cup {None}]]
  /\ pc \in [Procs -> {"idle", "init", "first", "limit", "count", "insert",
                       "delete", "left", "mint", "choose", "taken", "set"}]
  /\ job \in [Procs -> Jobs \cup {NoJob}]
  /\ read \in [Procs -> 0 .. MaxLimit]
  /\ had \in [Users -> SUBSET Cids]
  /\ highest \in [Users -> 1 .. MaxLimit]
  /\ cut \subseteq Users
  /\ updates \in 0 .. MaxUpdates
  /\ \A p \in Procs : pc[p] \in {"taken", "set"} => chosen[p][job[p].user] # None

Init ==
  /\ owner = [c \in Cids |-> None]
  /\ limit = [u \in Users |-> 1]
  /\ chosen = [p \in Procs |-> [u \in Users |-> None]]
  /\ pc = [p \in Procs |-> "idle"]
  /\ job = [p \in Procs |-> NoJob]
  /\ read = [p \in Procs |-> 0]
  /\ had = [u \in Users |-> {}]
  /\ highest = [u \in Users |-> 1]
  /\ cut = {}
  /\ updates = 0

-----------------------------------------------------------------------------
Goto(p, s) == pc' = [pc EXCEPT ![p] = s]

Done(p) ==
  /\ Goto(p, "idle")
  /\ job' = [job EXCEPT ![p] = NoJob]
  /\ read' = [read EXCEPT ![p] = 0]

\* INSERT INTO cids with a generated cid: a collision is retried with another one.
AddCID(u) ==
  \E c \in Free :
    /\ owner' = [owner EXCEPT ![c] = u]
    /\ had' = [had EXCEPT ![u] = @ \cup {c}]
    /\ cut' = cut \ {u}

\* A rename waits for the id: without a chosen link updateCid gives it up.
Waits(p, u) == chosen[p][u] # None

\* An update of the user: a button of a list, or, while a rename waits, a text.
Update(p, j) ==
  /\ pc[p] = "idle" /\ updates < MaxUpdates
  /\ updates' = updates + 1
  /\ j.op \in {"remove", "choose"} => j.cid \in had[j.user]
  /\ j.op = "rename" => Waits(p, j.user)
  /\ Goto(p, "init")
  /\ job' = [job EXCEPT ![p] = j]
  /\ UNCHANGED <<rows, limit, chosen, read, highest, cut>>

FirstOf == [add |-> "limit", remove |-> "delete", choose |-> "choose",
            rename |-> "taken"]

\* Mutant: a user who was seen before has a link.
InitUserTrusting(p) ==
  LET u == job[p].user IN
  /\ pc[p] = "init"
  /\ Goto(p, IF had[u] = {} THEN "first" ELSE FirstOf[job[p].op])
  /\ UNCHANGED <<rows, limit, chosen, job, read, highest, cut, updates>>

\* initUser: SELECT the user's links, and add one if there is none.
InitUser(p) ==
  LET u == job[p].user IN
  /\ pc[p] = "init"
  /\ Goto(p, IF Links(u) = {} THEN "first" ELSE FirstOf[job[p].op])
  /\ UNCHANGED <<rows, limit, chosen, job, read, highest, cut, updates>>

FirstLink(p) ==
  /\ pc[p] = "first"
  /\ AddCID(job[p].user)
  /\ Goto(p, FirstOf[job[p].op])
  /\ UNCHANGED <<limit, chosen, job, read, highest, updates>>

\* addLink: the limit, then the links, then the insert.
ReadLimit(p) ==
  /\ pc[p] = "limit"
  /\ read' = [read EXCEPT ![p] = limit[job[p].user]]
  /\ Goto(p, "count")
  /\ UNCHANGED <<rows, limit, chosen, job, highest, cut, updates>>

\* Mutant: one link too many is let through.
FullOffByOne(p) == Cardinality(Links(job[p].user)) > read[p]

Full(p) == Cardinality(Links(job[p].user)) >= read[p]

CountLinks(p) ==
  /\ pc[p] = "count"
  /\ \/ Full(p) /\ Done(p)
     \/ ~Full(p) /\ Goto(p, "insert") /\ UNCHANGED <<job, read>>
  /\ UNCHANGED <<rows, limit, chosen, highest, cut, updates>>

AddLink(p) ==
  /\ pc[p] = "insert"
  /\ AddCID(job[p].user)
  /\ Done(p)
  /\ UNCHANGED <<limit, chosen, highest, updates>>

\* Mutant: DELETE ... WHERE cid=$1.
DoomedByName(c, u) == c \in had[u]

\* removeLink, once confirmed: DELETE, then SELECT what is left, and a new link
\* when that is nothing.
Doomed(c, u) == owner[c] = u
RemoveCID(p) ==
  LET u == job[p].user  c == job[p].cid IN
  /\ pc[p] = "delete"
  /\ owner' = IF Doomed(c, u) THEN [owner EXCEPT ![c] = None] ELSE owner
  /\ Goto(p, "left")
  /\ UNCHANGED <<limit, chosen, job, read, had, highest, cut, updates>>

\* Mutant: no replacement is made.
LeavesNothing(p) ==
  /\ pc[p] = "left"
  /\ Done(p)
  /\ UNCHANGED <<rows, limit, chosen, highest, cut, updates>>

\* SELECT what is left of the user's links.
WhatIsLeft(p) ==
  /\ pc[p] = "left"
  /\ \/ Links(job[p].user) # {} /\ Done(p)
     \/ Links(job[p].user) = {} /\ Goto(p, "mint") /\ UNCHANGED <<job, read>>
  /\ UNCHANGED <<rows, limit, chosen, highest, cut, updates>>

MintReplacement(p) ==
  /\ pc[p] = "mint"
  /\ AddCID(job[p].user)
  /\ Done(p)
  /\ UNCHANGED <<limit, chosen, highest, updates>>

\* changeLink: the button's link is stored as it is, then the id is typed.
ChangeLink(p) ==
  /\ pc[p] = "choose"
  /\ chosen' = [chosen EXCEPT ![p][job[p].user] = job[p].cid]
  /\ Done(p)
  /\ UNCHANGED <<rows, limit, highest, cut, updates>>

CidTaken(p) ==
  LET n == job[p].cid IN
  /\ pc[p] = "taken"
  /\ \/ /\ owner[n] # None \/ n \in Chevalets
        /\ Done(p)
     \/ /\ owner[n] = None /\ n \notin Chevalets
        /\ Goto(p, "set") /\ UNCHANGED <<job, read>>
  /\ UNCHANGED <<rows, limit, chosen, highest, cut, updates>>

\* UPDATE cids SET cid=n WHERE cid=old: the row's owner is not looked at, and
\* changing no row is a success.  The UNIQUE column refuses a name taken since.
SetCID(p) ==
  LET u == job[p].user  n == job[p].cid  old == chosen[p][u] IN
  /\ pc[p] = "set"
  /\ \/ /\ owner[old] # None /\ owner[n] # None
        /\ Done(p)
        /\ UNCHANGED <<rows, chosen>>
     \/ /\ owner[old] = None
        /\ Done(p)
        /\ chosen' = [chosen EXCEPT ![p][u] = None]
        /\ UNCHANGED rows
     \/ /\ owner[old] # None /\ owner[n] = None
        /\ owner' = [owner EXCEPT ![old] = None, ![n] = owner[old]]
        /\ had' = [had EXCEPT ![owner[old]] = @ \cup {n}]
        /\ Done(p)
        /\ chosen' = [chosen EXCEPT ![p][u] = None]
  /\ UNCHANGED <<limit, highest, cut, updates>>

\* A statement fails, or the handler's context is over: the rest does not run.
Fail(p) ==
  /\ pc[p] # "idle"
  /\ cut' = IF pc[p] \in {"left", "mint"} THEN cut \cup {job[p].user} ELSE cut
  /\ Done(p)
  /\ UNCHANGED <<rows, limit, chosen, highest, updates>>

\* The process dies: the conversations and the records are gone.
Crash(p) ==
  /\ cut' = IF pc[p] \in {"left", "mint"} THEN cut \cup {job[p].user} ELSE cut
  /\ chosen' = [chosen EXCEPT ![p] = [u \in Users |-> None]]
  /\ Done(p)
  /\ UNCHANGED <<rows, limit, highest, updates>>

\* /cancel, another flow, or two idle hours: the rename is over.
Forget(p, u) ==
  /\ pc[p] = "idle"
  /\ chosen[p][u] # None
  /\ chosen' = [chosen EXCEPT ![p][u] = None]
  /\ UNCHANGED <<rows, limit, pc, job, read, highest, cut, updates>>

\* An admin sets the user's limit (/admin_edit).
SetCIDLimit(u, n) ==
  /\ limit' = [limit EXCEPT ![u] = n]
  /\ highest' = [highest EXCEPT ![u] = IF n > @ THEN n ELSE @]
  /\ UNCHANGED <<rows, chosen, pc, job, read, cut, updates>>

Step(p) ==
  \/ InitUser(p) \/ FirstLink(p)
  \/ ReadLimit(p) \/ CountLinks(p) \/ AddLink(p)
  \/ RemoveCID(p) \/ WhatIsLeft(p) \/ MintReplacement(p)
  \/ ChangeLink(p) \/ CidTaken(p) \/ SetCID(p)

Next ==
  \/ \E p \in Procs : \/ Step(p) \/ Fail(p) \/ Crash(p)
                      \/ \E j \in Jobs : Update(p, j)
                      \/ \E u \in Users : Forget(p, u)
  \/ \E u \in Users, n \in 0 .. MaxLimit : SetCIDLimit(u, n)

Spec == Init /\ [][Next]_vars

-----------------------------------------------------------------------------
\* A user never holds more links than the highest limit they were given, plus one
\* for every process beside the first: only two processes that both counted before
\* either inserted (addLink) can pass it, and no failing statement ever does.
LimitKept ==
  \A u \in Users : Cardinality(Links(u)) <= highest[u] + Cardinality(Procs) - 1

\* A user who had a link has none only while a removal is on its way to replace the
\* last one, after such a removal was cut short, and no longer than to the next
\* update that gets through prep.
NoLinkHasAnExcuse ==
  \A u \in Users :
    had[u] # {} /\ Links(u) = {} =>
      u \in cut \/ \E p \in Procs : pc[p] \in {"left", "mint"} /\ job[p].user = u

\* When the handler of an update takes over from prep, the user has a link, whatever
\* a removal cut short or another process did before.
HandlersStartWithALink ==
  [][\A p \in Procs :
       pc[p] \in {"init", "first"} /\ pc'[p] \notin {"init", "first", "idle"}
         => Links(job[p].user)' # {}]_vars

\* A removal never takes a link of somebody else, not even with an old button whose
\* link has got a new owner meanwhile.
RemovalsAreOwn ==
  [][\A p \in Procs, v \in Users :
       pc[p] = "delete" /\ pc'[p] = "left" /\ v # job[p].user
         => \A c \in Links(v) : owner'[c] = v]_vars
=============================================================================
