---------------------------- MODULE BackupRestore ----------------------------
(***************************************************************************)
(* src/backups: the queue of backup jobs, the worker that creates a backup, *)
(* checks one (prepare) and restores one, its recovery after a crash, and   *)
(* the access lock that every web request and every other worker takes.     *)
(*                                                                          *)
(* The site is a database plus media files.  Each is represented by the     *)
(* version of its content; a request that edits the site writes first the   *)
(* one and then the other.  0 stands for a database that does not exist and *)
(* for media that are only partly replaced.                                 *)
(***************************************************************************)
EXTENDS Naturals

CONSTANTS
  Jobs,        \* the jobs that can be queued, numbered in that order
  NoJob,
  Readers,     \* requests, mail rounds, other workers: holders of access_guard
  MaxVersion,  \* bound: last version an edit can write
  MaxCrashes,  \* bound: deaths of the backup worker
  MaxErrors    \* bound: exceptions inside a job

ASSUME JobsAssumption == Jobs \subseteq Nat /\ NoJob \notin Jobs
ASSUME BoundsAssumption ==
  MaxVersion \in Nat \ {0, 1} /\ MaxCrashes \in Nat /\ MaxErrors \in Nat

VARIABLES
  record,      \* state of the stored backup: completed, prepared or gone
  jobs,        \* jobs/<id>.json: kind and state
  phase,       \* phase in work/<id>/journal.json, "none" without a journal
  mailWas,     \* mail_was_paused in the journal
  snapshot,    \* versions <<database, media>> the job captured last
  live, old, cand,  \* versions of the three databases of a restore, 0: none
  accepts,     \* the live database accepts connections
  media,       \* version of the media directories
  cache,       \* shared cache: empty, fresh, or filled from a replaced database
  marker,      \* maintenance.json exists
  locked,      \* the worker holds access.lock exclusively
  exposed,     \* history: a recovery that failed too early opened the site
  mailPaused,  \* mail-paused.json exists
  held,        \* history: a committed restore whose mail is not resumed yet
  reader,      \* where each reader is in access_guard
  pc, task, mode, raised,  \* the worker: step, job in hand, use of maintenance()
  pending,     \* a completed restore still has its previous database
  latest, crashes, errors

dataVars == <<live, old, cand, accepts, media, cache>>
jobVars == <<record, jobs, phase, mailWas, snapshot, pending>>
gateVars == <<marker, locked, exposed>>
mailVars == <<mailPaused, held>>
workVars == <<pc, task, mode, raised>>
vars == <<dataVars, jobVars, gateVars, mailVars, workVars, reader, latest, crashes,
          errors>>

BackupVersion == 1   \* content of the stored backup

Active == {"pending", "running", "recovery_required"}
InTry == {"pause", "apply", "close", "rename", "replace", "media", "copy", "verify",
          "refresh", "commit"}
InRollback == {"rb_drop", "rb_rename", "rb_open", "rb_media", "rb_copy", "rb_refresh",
               "rb_mail", "rb_done"}

Init ==
  /\ record \in {"completed", "prepared"}
  /\ jobs = [j \in Jobs |-> [kind |-> "none", state |-> "absent"]]
  /\ phase = "none" /\ mailWas = FALSE /\ snapshot = <<0, 0>>
  /\ live = 2 /\ old = 0 /\ cand = 0 /\ accepts = TRUE /\ media = 2
  /\ cache = "empty" /\ marker = FALSE /\ locked = FALSE /\ exposed = FALSE
  /\ mailPaused \in BOOLEAN /\ held = mailPaused  \* by an earlier restore
  /\ reader = [r \in Readers |-> "out"]
  /\ pc = "off" /\ task = NoJob /\ mode = "job" /\ raised = FALSE
  /\ pending = FALSE /\ latest = 2 /\ crashes = 0 /\ errors = 0

-----------------------------------------------------------------------------
(* Requests and the other workers: access_guard.                            *)

ReaderStep(r, from, to) ==
  /\ reader[r] = from /\ reader' = [reader EXCEPT ![r] = to]
  /\ UNCHANGED <<jobVars, gateVars, mailVars, workVars, crashes, errors>>

(* The first look at the marker, without a lock. *)
Arrive(r) == ~marker /\ ReaderStep(r, "out", "checked") /\ UNCHANGED <<dataVars, latest>>

AcquireShared(r) ==
  ~locked /\ ReaderStep(r, "checked", "shared") /\ UNCHANGED <<dataVars, latest>>

(* Mutant: the marker is not looked at again under the lock. *)
AdmittedUnchecked == TRUE

(* The marker is looked at again under the shared lock. *)
Admitted == ~marker

Enter(r) ==
  /\ ReaderStep(r, "shared", IF Admitted THEN "in" ELSE "out")
  /\ UNCHANGED <<dataVars, latest>>

Leave(r) == ReaderStep(r, "in", "out") /\ UNCHANGED <<dataVars, latest>>

Serve(r) ==
  /\ ReaderStep(r, "in", "in") /\ cache = "empty" /\ cache' = "fresh"
  /\ UNCHANGED <<live, old, cand, accepts, media, latest>>

EditDatabase(r) ==
  /\ ReaderStep(r, "in", "editing") /\ latest < MaxVersion
  /\ latest' = latest + 1 /\ live' = latest + 1
  /\ UNCHANGED <<old, cand, accepts, media, cache>>

EditMedia(r) ==
  /\ ReaderStep(r, "editing", "in") /\ media' = live
  /\ UNCHANGED <<live, old, cand, accepts, cache, latest>>

-----------------------------------------------------------------------------
(* The backup pages: enqueue, delete_backup, resume_mail.                   *)

NoActiveJob == \A j \in Jobs : jobs[j].state \notin Active

Enqueue(j, kind) ==
  /\ ~marker /\ NoActiveJob /\ pc # "off"
  /\ jobs[j].state = "absent" /\ \A i \in Jobs : i < j => jobs[i].state # "absent"
  /\ kind # "create" => record # "gone"
  /\ kind = "restore" => record = "prepared"
  /\ jobs' = [jobs EXCEPT ![j] = [kind |-> kind, state |-> "pending"]]
  /\ record' = IF kind = "restore" THEN "completed" ELSE record
  /\ UNCHANGED <<phase, mailWas, snapshot, pending, dataVars, gateVars, mailVars,
                 workVars, reader, latest, crashes, errors>>

DeleteBackup ==
  /\ NoActiveJob /\ record # "gone" /\ record' = "gone"
  /\ UNCHANGED <<jobs, phase, mailWas, snapshot, pending, dataVars, gateVars, mailVars,
                 workVars, reader, latest, crashes, errors>>

ResumeMail ==
  /\ ~marker /\ mailPaused /\ mailPaused' = FALSE /\ held' = FALSE
  /\ UNCHANGED <<dataVars, jobVars, gateVars, workVars, reader, latest, crashes, errors>>

-----------------------------------------------------------------------------
(* The worker. *)

Kind == jobs[task].kind
SetState(s) == jobs' = [jobs EXCEPT ![task].state = s]

(* A step that touches nothing but what its action primes. *)
Go(from, to) == pc = from /\ pc' = to
Quiet == UNCHANGED <<reader, latest, crashes>>
Fault == errors < MaxErrors /\ errors' = errors + 1
NoFault == UNCHANGED errors

Start ==
  /\ Go("off", "recover") /\ Quiet /\ NoFault
  /\ UNCHANGED <<dataVars, jobVars, gateVars, mailVars, task, mode, raised>>

Crash ==
  /\ pc # "off" /\ crashes < MaxCrashes /\ crashes' = crashes + 1
  /\ pc' = "off" /\ task' = NoJob /\ mode' = "job" /\ raised' = FALSE
  /\ locked' = FALSE   \* the operating system drops the lock, the marker stays
  /\ UNCHANGED <<dataVars, jobVars, mailVars, marker, exposed, reader, latest, errors>>

(* retry_database_cleanup, before a job is taken. *)
RetryCleanup ==
  /\ pc \in {"recover", "ready"} /\ pending /\ pending' = FALSE
  /\ UNCHANGED <<record, jobs, phase, mailWas, snapshot, dataVars, gateVars, mailVars,
                 workVars, reader, latest, crashes, errors>>

(* process_next: nothing in maintenance, else the pending job. *)
Take ==
  /\ pc = "ready" /\ ~marker
  /\ \E j \in Jobs :
       /\ jobs[j].state = "pending"
       /\ jobs' = [jobs EXCEPT ![j].state = "running"]
       /\ task' = j
       /\ pc' = IF jobs[j].kind = "create" THEN "mark" ELSE "stage"
  /\ mode' = "job" /\ raised' = FALSE /\ Quiet /\ NoFault
  /\ UNCHANGED <<record, phase, mailWas, snapshot, pending, dataVars, gateVars, mailVars>>

(* Unpack, validate, and restore the dump into a database of its own; a     *)
(* failure discards that database.                                          *)
Stage ==
  /\ pc = "stage"
  /\ \/ cand' = BackupVersion /\ NoFault
        /\ pc' = IF Kind = "prepare" THEN "unstage" ELSE "mark"
     \/ Fault /\ pc' = "failing" /\ UNCHANGED cand
  /\ Quiet /\ UNCHANGED <<live, old, accepts, media, cache, jobVars, gateVars, mailVars,
                          task, mode, raised>>

(* The end of a prepare job: the preview is valid now. *)
Unstage ==
  /\ Go("unstage", "ready") /\ cand' = 0
  /\ record' = "prepared" /\ SetState("completed") /\ task' = NoJob
  /\ Quiet /\ NoFault
  /\ UNCHANGED <<live, old, accepts, media, cache, phase, mailWas, snapshot, pending,
                 gateVars, mailVars, mode, raised>>

(* Mutant: the marker is only written once the readers are out. *)
MarkLate ==
  /\ Go("mark", "drain") /\ UNCHANGED marker /\ Quiet /\ NoFault
  /\ UNCHANGED <<dataVars, jobVars, locked, exposed, mailVars, task, mode, raised>>

(* maintenance(): the marker first, then the readers inside are drained.    *)
Mark ==
  /\ Go("mark", "drain") /\ marker' = TRUE /\ Quiet /\ NoFault
  /\ UNCHANGED <<dataVars, jobVars, locked, exposed, mailVars, task, mode, raised>>

AfterDrain ==
  CASE mode = "rollback" -> "rb_drop"
    [] mode = "confirm" -> "confirm"
    [] OTHER -> "capture"

Drained == \A r \in Readers : reader[r] \in {"out", "checked"}

Drain ==
  /\ pc = "drain"
  /\ \/ Drained /\ locked' = TRUE /\ pc' = AfterDrain /\ NoFault /\ UNCHANGED raised
     \/ /\ \E r \in Readers : reader[r] \in {"in", "editing"}
        /\ Fault /\ pc' = "leave" /\ raised' = TRUE /\ UNCHANGED locked
  /\ Quiet /\ UNCHANGED <<dataVars, jobVars, marker, exposed, mailVars, task, mode>>

(* capture, and for a restore publish as the protected safety backup.       *)
Capture ==
  /\ pc = "capture"
  /\ \/ snapshot' = <<live, media>> /\ NoFault /\ UNCHANGED raised
        /\ pc' = IF Kind = "create" THEN "leave" ELSE "journal"
     \/ Fault /\ pc' = "leave" /\ raised' = TRUE /\ UNCHANGED snapshot
  /\ Quiet /\ UNCHANGED <<dataVars, record, jobs, phase, mailWas, pending, gateVars,
                          mailVars, task, mode>>

(* The journal, phase prepared, with the state of the mail pause. *)
Journal ==
  /\ Go("journal", "pause") /\ phase' = "prepared" /\ mailWas' = mailPaused
  /\ Quiet /\ NoFault
  /\ UNCHANGED <<dataVars, record, jobs, snapshot, pending, gateVars, mailVars, task,
                 mode, raised>>

TryStep(from, to) ==
  /\ Go(from, to) /\ Quiet /\ NoFault
  /\ UNCHANGED <<record, jobs, mailWas, snapshot, pending, gateVars, task, mode, raised>>

Pause ==
  /\ TryStep("pause", "apply") /\ mailPaused' = TRUE
  /\ UNCHANGED <<dataVars, phase, held>>

Apply ==
  /\ TryStep("apply", "close") /\ phase' = "applying"
  /\ UNCHANGED <<dataVars, mailVars>>

CloseLive ==
  /\ TryStep("close", "rename") /\ accepts' = FALSE
  /\ UNCHANGED <<live, old, cand, media, cache, phase, mailVars>>

RenameLive ==
  /\ TryStep("rename", "replace") /\ old' = live /\ live' = 0
  /\ UNCHANGED <<cand, accepts, media, cache, phase, mailVars>>

Outdated == IF cache = "empty" THEN "empty" ELSE "replaced"

RenameCandidate ==
  /\ TryStep("replace", "media")
  /\ live' = cand /\ cand' = 0 /\ accepts' = TRUE /\ cache' = Outdated
  /\ UNCHANGED <<old, media, phase, mailVars>>

DeleteMedia ==
  /\ TryStep("media", "copy") /\ media' = 0
  /\ UNCHANGED <<live, old, cand, accepts, cache, phase, mailVars>>

CopyMedia ==
  /\ TryStep("copy", "verify") /\ media' = BackupVersion
  /\ UNCHANGED <<live, old, cand, accepts, cache, phase, mailVars>>

VerifyRestored ==
  TryStep("verify", "refresh") /\ UNCHANGED <<dataVars, phase, mailVars>>

(* refresh_runtime: every cache is cleared, then the generation changes. *)
Cleared == "empty"

Refresh ==
  /\ TryStep("refresh", "commit") /\ cache' = Cleared
  /\ UNCHANGED <<live, old, cand, accepts, media, phase, mailVars>>

Commit ==
  /\ TryStep("commit", "leave") /\ phase' = "committed" /\ held' = TRUE
  /\ UNCHANGED <<dataVars, mailPaused>>

(* An exception in one of these steps starts the rollback. *)
TryFails ==
  /\ pc \in InTry /\ Fault /\ pc' = "rb_drop" /\ Quiet
  /\ UNCHANGED <<dataVars, jobVars, gateVars, mailVars, task, mode, raised>>

RollbackStep(from, to) ==
  /\ Go(from, to) /\ Quiet /\ NoFault
  /\ UNCHANGED <<record, jobs, mailWas, snapshot, pending, gateVars, held, task, mode,
                 raised>>

(* Mutant: the live database is dropped although no previous one exists. *)
RollbackDropAlways ==
  /\ RollbackStep("rb_drop", "rb_rename") /\ live' = 0
  /\ UNCHANGED <<old, cand, accepts, media, cache, phase, mailPaused>>

RollbackDrop ==
  /\ RollbackStep("rb_drop", "rb_rename") /\ live' = IF old = 0 THEN live ELSE 0
  /\ UNCHANGED <<old, cand, accepts, media, cache, phase, mailPaused>>

RollbackRename ==
  /\ RollbackStep("rb_rename", "rb_open")
  /\ IF old = 0 THEN UNCHANGED <<live, old, cache>>
     ELSE live' = old /\ old' = 0 /\ cache' = Outdated
  /\ UNCHANGED <<cand, accepts, media, phase, mailPaused>>

RollbackOpen ==
  /\ RollbackStep("rb_open", "rb_media") /\ accepts' = TRUE /\ cand' = 0
  /\ UNCHANGED <<live, old, media, cache, phase, mailPaused>>

RollbackMedia ==
  /\ RollbackStep("rb_media", "rb_copy") /\ media' = 0
  /\ UNCHANGED <<live, old, cand, accepts, cache, phase, mailPaused>>

RollbackCopy ==
  /\ RollbackStep("rb_copy", "rb_refresh") /\ media' = snapshot[2]
  /\ UNCHANGED <<live, old, cand, accepts, cache, phase, mailPaused>>

RollbackRefresh ==
  /\ RollbackStep("rb_refresh", "rb_mail") /\ cache' = Cleared
  /\ UNCHANGED <<live, old, cand, accepts, media, phase, mailPaused>>

(* Mutant: the rollback lifts the pause of an earlier restore too. *)
StaysPausedNever == FALSE

StaysPaused == mailWas

RollbackMail ==
  /\ RollbackStep("rb_mail", "rb_done") /\ mailPaused' = (mailPaused /\ StaysPaused)
  /\ UNCHANGED <<dataVars, phase>>

RollbackDone ==
  /\ RollbackStep("rb_done", "leave") /\ phase' = "rolled_back"
  /\ UNCHANGED <<dataVars, mailPaused>>

(* An exception in the rollback: in restore_job the job is marked for the   *)
(* operator at once, in recover_interrupted only after maintenance() ended. *)
RollbackFails ==
  /\ pc \in InRollback /\ Fault /\ pc' = "leave" /\ raised' = TRUE /\ Quiet
  /\ IF mode = "job" THEN SetState("recovery_required") ELSE UNCHANGED jobs
  /\ UNCHANGED <<dataVars, record, phase, mailWas, snapshot, pending, gateVars, mailVars,
                 task, mode>>

(* Mutant: the marker goes whatever the journal says. *)
KeepsMarkerNever == FALSE

(* The end of maintenance(): an open data switch keeps the marker. *)
KeepsMarker == phase = "applying" \/ jobs[task].state = "recovery_required"

AfterLeave ==
  IF mode # "job" /\ raised THEN "rewrite"
  ELSE IF mode = "rollback" THEN "failing"
  ELSE IF mode = "confirm" \/ phase = "committed" THEN "complete"
  ELSE IF KeepsMarker THEN "ready"
  ELSE IF Kind = "create" /\ ~raised THEN "publish"
  ELSE "failing"

(* The one end of maintenance() that opens the site in the middle of a      *)
(* restore: the recovery rolls back a journal in phase prepared and fails.  *)
OpensTooEarly == mode = "rollback" /\ raised /\ phase = "prepared"

LeaveMaintenance ==
  /\ pc = "leave" /\ pc' = AfterLeave /\ locked' = FALSE
  /\ marker' = KeepsMarker
  /\ exposed' = (exposed \/ OpensTooEarly)
  /\ IF phase = "applying" THEN SetState("recovery_required") ELSE UNCHANGED jobs
  /\ task' = IF AfterLeave = "ready" THEN NoJob ELSE task
  /\ Quiet /\ NoFault
  /\ UNCHANGED <<dataVars, record, phase, mailWas, snapshot, pending, mailVars, mode,
                 raised>>

(* The archive is packed while the site is open again. *)
Publish ==
  /\ pc = "publish"
  /\ \/ pc' = "complete" /\ NoFault
     \/ pc' = "failing" /\ Fault
  /\ Quiet /\ UNCHANGED <<dataVars, jobVars, gateVars, mailVars, task, mode, raised>>

(* A job settles; its work directory and journal are removed. *)
Settle(s, left) ==
  /\ SetState(s) /\ task' = NoJob /\ pc' = left
  /\ phase' = "none" /\ mailWas' = FALSE /\ Quiet /\ NoFault
  /\ UNCHANGED <<record, snapshot, accepts, media, cache, live, gateVars, mailVars, mode,
                 raised>>

AfterSettle == IF mode = "job" THEN "ready" ELSE "recover"

(* finish_database_cleanup; a failure to drop is retried later. *)
Complete ==
  /\ pc = "complete" /\ Settle("completed", AfterSettle)
  /\ old' = 0 /\ UNCHANGED cand
  /\ \E kept \in BOOLEAN : pending' = (pending \/ (kept /\ old # 0))

Failing ==
  /\ pc = "failing" /\ Settle("failed", AfterSettle)
  /\ cand' = 0 /\ UNCHANGED <<old, pending>>

-----------------------------------------------------------------------------
(* recover_interrupted, before any job is admitted.                         *)

(* Mutant: only jobs that wait for the operator are taken up again. *)
InterruptedOperator(j) == jobs[j].state = "recovery_required"

Interrupted(j) == jobs[j].state \in {"running", "recovery_required"}

Resumed(j, m) ==
  /\ jobs' = [jobs EXCEPT ![j].state = "running"]
  /\ task' = j /\ mode' = m /\ raised' = FALSE /\ pc' = "mark" /\ Quiet /\ NoFault
  /\ UNCHANGED <<record, phase, mailWas, snapshot, pending, dataVars, gateVars, mailVars>>

RecoverSwitch(j) ==
  /\ pc = "recover" /\ Interrupted(j) /\ jobs[j].kind = "restore"
  /\ \/ phase \in {"prepared", "applying"} /\ Resumed(j, "rollback")
     \/ phase = "committed" /\ Resumed(j, "confirm")

(* verify_restored and refresh_runtime of a restore that was committed.     *)
Confirm ==
  /\ pc = "confirm" /\ pc' = "leave"
  /\ \/ cache' = Cleared /\ NoFault /\ UNCHANGED <<jobs, raised>>
     \/ Fault /\ SetState("recovery_required") /\ raised' = TRUE /\ UNCHANGED cache
  /\ Quiet /\ UNCHANGED <<live, old, cand, accepts, media, record, phase, mailWas,
                          snapshot, pending, gateVars, mailVars, task, mode>>

(* The marker may be gone by now: it is written again, and those who came   *)
(* in meanwhile are inside.                                                 *)
Rewrite ==
  /\ Go("rewrite", "ready") /\ SetState("recovery_required") /\ marker' = TRUE
  /\ task' = NoJob /\ mode' = "job" /\ raised' = FALSE /\ Quiet /\ NoFault
  /\ UNCHANGED <<dataVars, record, phase, mailWas, snapshot, pending, locked, exposed,
                 mailVars>>

(* Mutant: the marker of a job without a data switch stays. *)
RecoverOtherMarked(j) ==
  /\ pc = "recover" /\ Interrupted(j)
  /\ ~(jobs[j].kind = "restore" /\ phase \in {"prepared", "applying", "committed"})
  /\ jobs' = [jobs EXCEPT ![j].state = "failed"]
  /\ cand' = 0 /\ phase' = "none" /\ mailWas' = FALSE
  /\ Quiet /\ NoFault
  /\ UNCHANGED <<live, old, accepts, media, cache, record, snapshot, pending, gateVars,
                 mailVars, workVars>>

(* A job without a data switch: its staging database and the marker go.     *)
RecoverOther(j) ==
  /\ pc = "recover" /\ Interrupted(j)
  /\ ~(jobs[j].kind = "restore" /\ phase \in {"prepared", "applying", "committed"})
  /\ jobs' = [jobs EXCEPT ![j].state = "failed"]
  /\ cand' = 0 /\ marker' = FALSE /\ phase' = "none" /\ mailWas' = FALSE
  /\ Quiet /\ NoFault
  /\ UNCHANGED <<live, old, accepts, media, cache, record, snapshot, pending, locked,
                 exposed, mailVars, workVars>>

RecoverDone ==
  /\ Go("recover", "ready") /\ (\A j \in Jobs : ~Interrupted(j)) /\ mode' = "job"
  /\ Quiet /\ NoFault
  /\ UNCHANGED <<dataVars, jobVars, gateVars, mailVars, task, raised>>

-----------------------------------------------------------------------------
Work ==
  \/ RetryCleanup \/ Take \/ Stage \/ Unstage \/ Mark \/ Drain \/ Capture \/ Journal
  \/ Pause \/ Apply \/ CloseLive \/ RenameLive \/ RenameCandidate \/ DeleteMedia
  \/ CopyMedia \/ VerifyRestored \/ Refresh \/ Commit \/ TryFails
  \/ RollbackDrop \/ RollbackRename \/ RollbackOpen \/ RollbackMedia \/ RollbackCopy
  \/ RollbackRefresh \/ RollbackMail \/ RollbackDone \/ RollbackFails
  \/ LeaveMaintenance \/ Publish \/ Complete \/ Failing \/ Confirm \/ Rewrite
  \/ RecoverDone \/ \E j \in Jobs : RecoverSwitch(j) \/ RecoverOther(j)

Visit(r) ==
  Arrive(r) \/ AcquireShared(r) \/ Enter(r) \/ Leave(r) \/ Serve(r) \/ EditDatabase(r)
  \/ EditMedia(r)

Next ==
  \/ Start \/ Crash \/ Work
  \/ \E r \in Readers : Visit(r)
  \/ \E j \in Jobs, kind \in {"create", "prepare", "restore"} : Enqueue(j, kind)
  \/ DeleteBackup \/ ResumeMail

Spec == Init /\ [][Next]_vars

(* Docker restarts the worker, the worker works, and requests come to their *)
(* end (Gunicorn and the sockets have timeouts).                            *)
Fairness ==
  /\ WF_vars(Start) /\ WF_vars(Work)
  /\ \A r \in Readers : WF_vars(AcquireShared(r) \/ Enter(r))
                        /\ WF_vars(EditMedia(r) \/ Leave(r))

FairSpec == Spec /\ Fairness
-----------------------------------------------------------------------------
Steps == {"off", "recover", "ready", "stage", "unstage", "mark", "drain", "capture",
          "journal", "confirm", "leave", "rewrite", "publish", "complete", "failing"}
         \cup InTry \cup InRollback

OneActiveJob ==
  \A j1, j2 \in Jobs : jobs[j1].state \in Active /\ jobs[j2].state \in Active => j1 = j2

(* The type of the state; the worker holds the lock only behind the marker, *)
(* and two jobs are never under way at a time, crashed ones included.       *)
TypeOK ==
  /\ OneActiveJob
  /\ record \in {"completed", "prepared", "gone"}
  /\ jobs \in [Jobs -> [kind: {"none", "create", "prepare", "restore"},
                        state: {"absent", "completed", "failed"} \cup Active]]
  /\ phase \in {"none", "prepared", "applying", "committed", "rolled_back"}
  /\ mailWas \in BOOLEAN /\ snapshot \in Nat \X Nat
  /\ live \in Nat /\ old \in Nat /\ cand \in Nat /\ media \in Nat
  /\ accepts \in BOOLEAN /\ cache \in {"empty", "fresh", "replaced"}
  /\ marker \in BOOLEAN /\ locked \in BOOLEAN /\ exposed \in BOOLEAN /\ (locked => marker)
  /\ mailPaused \in BOOLEAN /\ held \in BOOLEAN
  /\ reader \in [Readers -> {"out", "checked", "shared", "in", "editing"}]
  /\ pc \in Steps /\ task \in Jobs \cup {NoJob}
  /\ mode \in {"job", "rollback", "confirm"} /\ raised \in BOOLEAN
  /\ pending \in BOOLEAN /\ latest \in Nat /\ crashes \in Nat /\ errors \in Nat

(* Whoever was admitted by access_guard finds a database that exists and    *)
(* takes connections, media of the same version, and no values cached from  *)
(* a replaced database, whatever step of a restore a crash or an exception  *)
(* hits, with one exception: a recovery of the phase prepared that failed   *)
(* has opened the site (exposed, see OpenRestoreIsLocked).                  *)
ReadersSeeOneVersion ==
  ~exposed => \A r \in Readers : reader[r] \in {"in", "editing"} =>
    /\ accepts /\ live # 0 /\ cache # "replaced"
    /\ media = live \/ \E x \in Readers : reader[x] = "editing"

(* As long as the journal leaves the restore open, the state before it can  *)
(* be brought back: one of the two databases and the safety copy hold it,   *)
(* and database and media of every copy are of the same moment; unless the  *)
(* failed recovery let requests edit the site in between.                   *)
PreviousStateRecoverable ==
  ~exposed =>
    /\ snapshot[1] = snapshot[2]
    /\ phase \in {"prepared", "applying"} => snapshot[1] \in {live, old}

(* What docs/backups.md promises of the journal and the marker: nobody is   *)
(* inside while a restore that began is neither done nor undone.            *)
OpenRestoreIsLocked ==
  phase \in {"prepared", "applying"} =>
    \A r \in Readers : reader[r] \notin {"in", "editing"}

(* After a committed restore the mail stays paused until the operator       *)
(* resumes it, also through later restores that fail.                       *)
MailHeldAfterRestore == held => mailPaused

Whole == live # 0 /\ media = live /\ accepts

(* The site reopens with the whole backup or with the whole state before,   *)
(* except where the failed recovery opens it, and after that.               *)
RestoreIsAllOrNothing ==
  [][marker /\ ~marker' /\ ~exposed' /\ (\A r \in Readers : reader[r] # "editing") =>
       /\ Whole'
       /\ phase = "committed" /\ mode = "job" => live' = BackupVersion
       /\ phase = "rolled_back" => live' = snapshot[1]]_vars

(* Maintenance comes to an end, or the operator has to recover the job.     *)
MaintenanceEnds ==
  marker ~> (~marker \/ \E j \in Jobs : jobs[j].state = "recovery_required")

(* A queued job is completed, fails, or waits for the operator. *)
JobsSettle ==
  \A j \in Jobs :
    jobs[j].state = "pending" ~> jobs[j].state \in {"completed", "failed",
                                                    "recovery_required"}
=============================================================================
