------------------------------- MODULE Backup -------------------------------
(***************************************************************************)
(* One night of the database backups: the hourly dump                      *)
(* (deploy/go/backup.sh), the nightly job of the process                   *)
(* (internal/bot/background.go), and the script of the host that covers    *)
(* for it a few minutes later (deploy/go/nightly-backup-backstop.sh).      *)
(*                                                                         *)
(* The job is tracked work of the process of Background and ends with it.  *)
(* Ages are abstracted to what they are compared with: a file is fresh     *)
(* until backupMinAge after its last write, and the marker of the night    *)
(* before is older than the window of the script.                          *)
(***************************************************************************)
EXTENDS Background

VARIABLES
  dump,      \* the last dump before the night, and the one after it
  stalled,   \* dumps whose writer paused for backupMinAge
  night,     \* BACKUP_TIME has passed
  job, file, \* the nightly job, and the dump it has picked
  marker,    \* .nightly-backup-sent was touched this night
  backstop,  \* the script: before, skipped, sent, failed
  shipped,   \* what arrived, from whom, and how complete it was
  excuse     \* why the backup may arrive twice

files == <<dump, stalled>>
nightVars == <<night, job, file, marker, backstop, shipped, excuse>>
vars == <<bgVars, files, nightVars>>

Files  == {"old", "new"}
States == {"none", "writing", "cut", "whole"}

TypeOK ==
  /\ BackgroundTypeOK
  /\ dump \in [Files -> [state : States, fresh : BOOLEAN]] /\ stalled \subseteq Files
  /\ night \in BOOLEAN /\ marker \in BOOLEAN
  /\ job \in {"idle", "picking", "uploading", "marking", "done", "failed", "killed"}
  /\ file \in Files \cup {None}
  /\ backstop \in {"before", "skipped", "sent", "failed"}
  /\ shipped \subseteq [by : {"job", "backstop"}, file : Files, state : States]
  /\ excuse \subseteq {"lost", "unmarked", "killed"}

\* A first night may find no dump.
Init ==
  /\ BackgroundInit
  /\ dump \in {[f \in Files |-> [state |-> IF f = "old" THEN s ELSE "none", fresh |-> FALSE]]
                 : s \in {"none", "whole"}}
  /\ stalled = {}
  /\ night = FALSE /\ job = "idle" /\ file = None
  /\ marker = FALSE /\ backstop = "before" /\ shipped = {} /\ excuse = {}

-----------------------------------------------------------------------------
(* The hourly dump, written in place.                                      *)

Dumped(s, f) == dump' = [dump EXCEPT !["new"] = [state |-> s, fresh |-> f]]

DumpBegins ==
  /\ dump["new"].state = "none" /\ stalled = {}
  /\ Dumped("writing", TRUE)
  /\ UNCHANGED <<bgVars, stalled, nightVars>>

\* The pipeline ends with gzip's status: a dump that broke off is kept unless it is
\* below a thousand bytes.
DumpEnds ==
  /\ dump["new"].state = "writing"
  /\ \/ Dumped("whole", TRUE) /\ UNCHANGED faults
     \/ Fault /\ (Dumped("cut", TRUE) \/ Dumped("none", FALSE))
  /\ UNCHANGED <<life, mail, bcast, aiVars, stalled, nightVars>>

\* backupMinAge passes without a write; a dump under way may write again.
Settle ==
  /\ dump["new"].fresh
  /\ dump' = [dump EXCEPT !["new"].fresh = FALSE]
  /\ stalled' = IF dump["new"].state = "writing" THEN {"new"} ELSE stalled
  /\ UNCHANGED <<bgVars, nightVars>>

WriteOn ==
  /\ dump["new"].state = "writing" /\ ~dump["new"].fresh
  /\ Dumped("writing", TRUE)
  /\ UNCHANGED <<bgVars, stalled, nightVars>>

\* latestBackupFile: the newest by its time, among those old enough.
Newest(S) == IF S = {} THEN None ELSE IF "new" \in S THEN "new" ELSE "old"
Present == {f \in Files : dump[f].state # "none"}

\* Mutant: backupMinAge is not applied.
PresentAtAll == Present

Settled == {f \in Present : ~dump[f].fresh}

-----------------------------------------------------------------------------
(* backupLoop and sendLatestBackupTo.                                      *)

JobBusy == job \in {"picking", "uploading", "marking"}
OnlyJob == UNCHANGED <<life, mail, bcast, aiVars, files, night, backstop>>
Ship(by, f) == shipped' = shipped \cup {[by |-> by, file |-> f, state |-> dump[f].state]}

\* BACKUP_TIME: a process that runs starts the job; one that is stopping may.
NightFalls ==
  /\ ~night /\ night' = TRUE
  /\ job' \in CASE phase = "up" -> {"picking"}
                [] phase = "stopping" -> {"picking", "idle"}
                [] OTHER -> {"idle"}
  /\ UNCHANGED <<bgVars, files, file, marker, backstop, shipped, excuse>>

Pick ==
  /\ job = "picking"
  /\ \/ /\ file' = Newest(Settled)
        /\ job' = IF file' = None THEN "failed" ELSE "uploading"
        /\ UNCHANGED faults
     \/ Fault /\ job' = "failed" /\ UNCHANGED file
  /\ OnlyJob /\ UNCHANGED <<marker, shipped, excuse>>

\* Mutant: the marker is touched ahead of the upload.
UploadMarked ==
  /\ job = "uploading" /\ marker' = TRUE
  /\ \/ job' = "marking" /\ Ship("job", file) /\ UNCHANGED <<faults, excuse>>
     \/ Fault /\ job' = "failed" /\ UNCHANGED <<shipped, excuse>>
  /\ OnlyJob /\ UNCHANGED file

\* SendDocument; on an error the chat is told, best effort.
Upload ==
  /\ job = "uploading"
  /\ \/ job' = "marking" /\ Ship("job", file) /\ UNCHANGED <<faults, excuse>>
     \/ /\ Fault /\ job' = "failed"
        /\ \/ Ship("job", file) /\ excuse' = excuse \cup {"lost"}
           \/ UNCHANGED <<shipped, excuse>>
  /\ OnlyJob /\ UNCHANGED <<file, marker>>

\* touchNightlySentMarker.
Mark ==
  /\ job = "marking" /\ job' = "done"
  /\ \/ marker' = TRUE /\ UNCHANGED <<faults, excuse>>
     \/ Fault /\ excuse' = excuse \cup {"unmarked"} /\ UNCHANGED marker
  /\ OnlyJob /\ UNCHANGED <<file, shipped>>

Sent == marker

\* The script, when the job has had its time: nothing if the marker is fresh, else the
\* newest dump of any age.
Backstop ==
  /\ night /\ ~JobBusy /\ backstop = "before"
  /\ \/ Sent /\ backstop' = "skipped" /\ UNCHANGED <<faults, shipped>>
     \/ /\ ~Sent /\ Present = {}
        /\ backstop' = "failed" /\ UNCHANGED <<faults, shipped>>
     \/ /\ ~Sent /\ Present # {}
        /\ \/ backstop' = "sent" /\ Ship("backstop", Newest(Present)) /\ UNCHANGED faults
           \/ /\ Fault /\ backstop' = "failed"
              /\ Ship("backstop", Newest(Present)) \/ UNCHANGED shipped
  /\ UNCHANGED <<life, mail, bcast, aiVars, files, night, job, file, marker, excuse>>

-----------------------------------------------------------------------------
\* The pool closes without waiting for the job once the grace period is over, and the
\* end of the process is the end of the job.
Shutdown ==
  \/ Close(JobBusy) /\ UNCHANGED <<files, nightVars>>
  \/ /\ Die
     /\ job' = IF JobBusy THEN "killed" ELSE job
     /\ excuse' = IF job = "marking" THEN excuse \cup {"killed"} ELSE excuse
     /\ UNCHANGED <<files, night, file, marker, backstop, shipped>>

Next ==
  \/ BackgroundStep /\ UNCHANGED <<files, nightVars>>
  \/ Shutdown
  \/ DumpBegins \/ DumpEnds \/ Settle \/ WriteOn
  \/ NightFalls \/ Pick \/ Upload \/ Mark \/ Backstop

Spec == Init /\ [][Next]_vars

-----------------------------------------------------------------------------
(* Properties.                                                             *)

\* "so it can never grab an hourly dump mid-write": what the job ships was complete,
\* or had broken off, unless its writer had paused for backupMinAge
\* (latestBackupFile, backupMinAge).
NightlyIsSettled ==
  \A s \in shipped : s.by = "job" => s.state # "writing" \/ s.file \in stalled

\* The script holds back only on a night on which the job's backup has arrived, however
\* the process ended; "otherwise the destination gets the backup twice", which it does
\* only when the reply to the job's upload was lost, the marker could not be written, or
\* the process died between the two (touchNightlySentMarker, the script's check).
OneBackupANight ==
  /\ backstop = "skipped" => \E s \in shipped : s.by = "job"
  /\ {s.by : s \in shipped} = {"job", "backstop"} => excuse # {}
=============================================================================
