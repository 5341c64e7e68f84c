---------------------------- MODULE ReportCases ----------------------------
(***************************************************************************)
(* A report and what the admins make of it: reportConfirmYes (internal/bot/*)
(* callbacks.go) posts it, reportAction (internal/bot/reportactions.go)    *)
(* claims the case in report_cases and then acts on it, and the admins'    *)
(* panel (internal/bot/adminmod.go) bans, unbans and clears reports.       *)
(*                                                                         *)
(* A process handles one update at a time; two processes only run during a *)
(* deploy.  Every database statement commits by itself and may fail, before*)
(* or after its effect.                                                    *)
(***************************************************************************)
EXTENDS Naturals, FiniteSets

CONSTANTS Procs,       \* bot processes
          Admins, Users,
          Cases,       \* report ids
          None,
          MaxFaults,   \* bound: failing statements and crashes
          MaxTaps      \* bound: taps of the admins

ASSUME CasesAssumption ==
  /\ IsFiniteSet(Procs)
  /\ None \notin Admins \cup Cases \cup Users
  /\ MaxFaults \in Nat
  /\ MaxTaps \in Nat

Verbs == {"report", "ban"}
\* A tap; coded: the summary it was made under still shows the code of its case.
NoJob == [case |-> None, by |-> None, verb |-> "report", coded |-> TRUE]
Jobs  == [case : Cases, by : Admins, verb : Verbs, coded : BOOLEAN]

VARIABLES
  accused,   \* case -> the reported user, None until the report is recorded
  holder,    \* case -> handled_by; None while handled_at IS NULL
  action,    \* case -> the action it was claimed for
  reports,   \* user -> rows in reports
  banned,    \* users with is_banned
  stamp,     \* case -> what the channel's button says was done
  pc, job,   \* process -> where its handler is, and the tap it handles
  told,      \* history: (the loser's own name, who it was told holds the case, case)
  wins,      \* history: case -> claims won
  done,      \* history: case -> times its action was carried out
  excused,   \* history: case -> taps let through because a statement of the claim failed
  blind,     \* history: case -> taps let through because they show no case to claim
  faults, taps

table   == <<accused, holder, action>>
effects == <<reports, banned, done>>
vars == <<table, effects, stamp, pc, job, told, wins, excused, blind, faults, taps>>

TypeOK ==
  /\ accused \in [Cases -> Users \cup {None}]
  /\ holder \in [Cases -> Admins \cup {None}]
  /\ action \in [Cases -> Verbs \cup {"none"}]
  /\ reports \in [Users -> Nat]
  /\ banned \subseteq Users
  /\ stamp \in [Cases -> Verbs \cup {"none"}]
  /\ pc \in [Procs -> {"idle", "claim", "ask", "act", "count", "stamp"}]
  /\ job \in [Procs -> Jobs \cup {NoJob}]
  /\ \A p \in Procs : pc[p] # "idle" => job[p] \in Jobs
  /\ told \subseteq Admins \X (Admins \cup {None}) \X Cases
  /\ wins \in [Cases -> Nat]
  /\ done \in [Cases -> Nat]
  /\ excused \in [Cases -> Nat]
  /\ blind \in [Cases -> Nat]
  /\ faults \in Nat /\ taps \in Nat

Init ==
  /\ accused = [c \in Cases |-> None]
  /\ holder = [c \in Cases |-> None]
  /\ action = [c \in Cases |-> "none"]
  /\ reports = [u \in Users |-> 0]
  /\ banned = {}
  /\ stamp = [c \in Cases |-> "none"]
  /\ pc = [p \in Procs |-> "idle"]
  /\ job = [p \in Procs |-> NoJob]
  /\ told = {}
  /\ wins = [c \in Cases |-> 0]
  /\ done = [c \in Cases |-> 0]
  /\ excused = [c \in Cases |-> 0]
  /\ blind = [c \in Cases |-> 0]
  /\ faults = 0 /\ taps = 0

Bump(f, c) == [f EXCEPT ![c] = @ + 1]
Fault == faults < MaxFaults /\ faults' = faults + 1
Goes(p, to) == pc' = [pc EXCEPT ![p] = to] /\ UNCHANGED job
Ends(p) == pc' = [pc EXCEPT ![p] = "idle"] /\ job' = [job EXCEPT ![p] = NoJob]

\* reportConfirmYes: a report of user u is posted and its case recorded.
PostReport(c, u) ==
  /\ accused[c] = None
  /\ accused' = [accused EXCEPT ![c] = u]
  /\ UNCHANGED <<holder, action, effects, stamp, pc, job, told, wins, excused, blind, faults, taps>>

\* An admin taps a button under the summary of a case, in process p.  Telegram may
\* not hand out the summary any more, or without its text; the button names its user.
Tap(p, a, c, v, shown) ==
  /\ pc[p] = "idle" /\ accused[c] # None /\ taps < MaxTaps
  /\ pc' = [pc EXCEPT ![p] = "claim"]
  /\ job' = [job EXCEPT ![p] = [case |-> c, by |-> a, verb |-> v, coded |-> shown]]
  /\ taps' = taps + 1
  /\ UNCHANGED <<table, effects, stamp, told, wins, excused, blind, faults>>

\* Mutant: the UPDATE does not ask for handled_at IS NULL.
OpenAlways(c) == TRUE
Open(c) == holder[c] = None

Claimed(p) ==
  LET c == job[p].case IN
  /\ Open(c)
  /\ holder' = [holder EXCEPT ![c] = job[p].by]
  /\ action' = [action EXCEPT ![c] = job[p].verb]
  /\ wins' = Bump(wins, c)

\* A claim that cannot be decided is let through.
ErrorAllows(p) == excused' = Bump(excused, job[p].case) /\ Goes(p, "act")

\* Without a code there is no case to claim, and the action goes through.
Unclaimed(p) ==
  /\ ~job[p].coded
  /\ blind' = Bump(blind, job[p].case)
  /\ Goes(p, "act")
  /\ UNCHANGED <<holder, action, wins, excused, faults>>

\* Mutant: the winner does not learn that it won.
ClaimUnnoticed(p) ==
  /\ pc[p] = "claim"
  /\ \/ Claimed(p)
     \/ ~Open(job[p].case) /\ UNCHANGED <<holder, action, wins>>
  /\ Goes(p, "ask")
  /\ UNCHANGED <<accused, effects, stamp, told, excused, blind, faults, taps>>

\* ClaimReportCase: one UPDATE that takes the case if it is open.
Decided(p) ==
  /\ job[p].coded
  /\ \/ Claimed(p) /\ Goes(p, "act") /\ UNCHANGED <<excused, faults>>
     \/ ~Open(job[p].case) /\ Goes(p, "ask") /\ UNCHANGED <<holder, action, wins, excused, faults>>
     \/ Fault /\ ErrorAllows(p) /\ (Claimed(p) \/ UNCHANGED <<holder, action, wins>>)
  /\ UNCHANGED blind

\* The claim of a tap.
Claim(p) ==
  /\ pc[p] = "claim"
  /\ Unclaimed(p) \/ Decided(p)
  /\ UNCHANGED <<accused, effects, stamp, told, taps>>

\* Mutant: the loser is told and acts all the same.
LoserActs(p) == Goes(p, "act")
LoserStops(p) == Ends(p)

\* Mutant: the holder is read in the snapshot of the UPDATE, as it once was.
AskSnapshot(p) ==
  /\ pc[p] = "ask"
  /\ told' = told \cup {<<job[p].by, None, job[p].case>>}
  /\ Ends(p)
  /\ UNCHANGED <<table, effects, stamp, wins, excused, blind, faults, taps>>

\* The loser reads who holds the case and is told; a failing read lets it through.
AskHolder(p) ==
  /\ pc[p] = "ask"
  /\ \/ /\ told' = told \cup {<<job[p].by, holder[job[p].case], job[p].case>>}
        /\ LoserStops(p)
        /\ UNCHANGED <<excused, faults>>
     \/ Fault /\ ErrorAllows(p) /\ UNCHANGED told
  /\ UNCHANGED <<table, effects, stamp, wins, blind, taps>>

\* The INSERT of AddReportID or the UPDATE of BanAction takes effect.
Effect(p) ==
  LET c == job[p].case IN
  /\ done' = Bump(done, c)
  /\ IF job[p].verb = "report"
     THEN reports' = Bump(reports, accused[c]) /\ UNCHANGED banned
     ELSE banned' = banned \cup {accused[c]} /\ UNCHANGED reports

\* rptAccept or rptBan once past the claim; an error ends the handler.
Act(p) ==
  /\ pc[p] = "act"
  /\ \/ Effect(p) /\ Goes(p, IF job[p].verb = "report" THEN "count" ELSE "stamp")
        /\ UNCHANGED faults
     \/ Fault /\ Ends(p) /\ (Effect(p) \/ UNCHANGED effects)
  /\ UNCHANGED <<table, stamp, told, wins, excused, blind, taps>>

\* rptAccept counts the user's reports for its answer and the stamp.
Count(p) ==
  /\ pc[p] = "count"
  /\ \/ Goes(p, "stamp") /\ UNCHANGED faults
     \/ Fault /\ Ends(p)
  /\ UNCHANGED <<table, effects, stamp, told, wins, excused, blind, taps>>

\* rptStamp: the channel's button says what was done, if the tap showed its case;
\* failures are only logged.
Stamp(p) ==
  /\ pc[p] = "stamp"
  /\ Ends(p)
  /\ \/ /\ job[p].coded
        /\ stamp' = [stamp EXCEPT ![job[p].case] = job[p].verb]
        /\ UNCHANGED faults
     \/ ~job[p].coded /\ UNCHANGED <<stamp, faults>>
     \/ job[p].coded /\ Fault /\ UNCHANGED stamp
  /\ UNCHANGED <<table, effects, told, wins, excused, blind, taps>>

\* The panel: unban or ban a user, or clear the reports of one.
PanelBan(p, u, ban) ==
  /\ pc[p] = "idle" /\ taps < MaxTaps
  /\ banned' = IF ban THEN banned \cup {u} ELSE banned \ {u}
  /\ taps' = taps + 1
  /\ UNCHANGED <<table, reports, done, stamp, pc, job, told, wins, excused, blind, faults>>

PanelClear(p, u) ==
  /\ pc[p] = "idle" /\ taps < MaxTaps /\ reports[u] > 0
  /\ reports' = [reports EXCEPT ![u] = 0]
  /\ taps' = taps + 1
  /\ UNCHANGED <<table, banned, done, stamp, pc, job, told, wins, excused, blind, faults>>

\* A process dies in the middle of a handler; the next one starts idle.
Crash(p) ==
  /\ pc[p] # "idle" /\ Fault /\ Ends(p)
  /\ UNCHANGED <<table, effects, stamp, told, wins, excused, blind, taps>>

Next ==
  \/ \E c \in Cases, u \in Users : PostReport(c, u)
  \/ \E p \in Procs :
       \/ \E a \in Admins, c \in Cases, v \in Verbs, shown \in BOOLEAN :
            Tap(p, a, c, v, shown)
       \/ Claim(p) \/ AskHolder(p) \/ Act(p) \/ Count(p) \/ Stamp(p) \/ Crash(p)
       \/ \E u \in Users : PanelClear(p, u) \/ \E ban \in BOOLEAN : PanelBan(p, u, ban)

Spec == Init /\ [][Next]_vars

-----------------------------------------------------------------------------
\* Two admins acting at the same moment cannot both take a case, and a case stays
\* with the admin who took it (db.ClaimReportCase).
OneWinnerPerCase == \A c \in Cases : wins[c] <= 1

\* The action of a case is carried out once for the claim won on it, and beyond that
\* only for taps that a failing statement of the claim let through and for taps under
\* a summary that shows no code, which claim nothing ("acting is more useful than a
\* perfect audit trail"); in particular never because two admins, two processes or
\* two taps of one admin raced (Bot.claim, rptAccept, rptBan).
ExtraActionsAreExcused == \A c \in Cases : done[c] <= wins[c] + excused[c] + blind[c]

\* Whoever loses a case is told the admin who really has it, although that is read
\* in a statement of its own (db.ClaimReportCase).
LoserIsToldTheHolder ==
  \A t \in told : holder[t[3]] = t[2] /\ t[2] # None

\* What the channel shows as the outcome was carried out (rptStamp).
StampedMeansDone == \A c \in Cases : stamp[c] # "none" => done[c] > 0

\* Neither the admin who comes late nor the channel is told what is not so (db.
\* ClaimReportCase, rptStamp).
AdminsAreToldTheTruth == LoserIsToldTheHolder /\ StampedMeansDone

\* "'' until an admin acts; then 'report' or 'ban'": when no statement and no process
\* failed, a case that says what was done about it and that nobody is working on any
\* more had it done.  A failure after the claim does leave a case that reads as
\* handled with nothing done (Bot.claim before AddReportID and BanAction).
HandledMeansDone ==
  faults = 0 =>
    \A c \in Cases :
      action[c] # "none" /\ (\A p \in Procs : job[p].case # c) => done[c] > 0
=============================================================================
