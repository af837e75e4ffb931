------------------------- MODULE BackupRestoreProofs -------------------------
(* Proofs about BackupRestore for every number of jobs, requests, edits,     *)
(* crashes and exceptions.                                                   *)
EXTENDS BackupRestore, TLAPS

UnderLock == {"capture", "journal", "confirm"} \cup InTry \cup InRollback
Idle == {"off", "recover", "ready"}
Open == {"prepared", "applying"}   \* the journal leaves the switch open

(* The journal belongs to a restore that is not settled, and the worker      *)
(* works on a job that is not settled.                                       *)
JobInv ==
  /\ \A j \in Jobs : jobs[j].state \in Active => jobs[j].kind # "none"
  /\ phase # "none" =>
       \E j \in Jobs : jobs[j].kind = "restore" /\ jobs[j].state \in {"running", "recovery_required"}
  /\ task = NoJob <=> pc \in Idle
  /\ task # NoJob => jobs[task].state \in {"running", "recovery_required"}

(* Where the worker is, for which purpose, and what the journal says then.   *)
PlaceInv ==
  /\ pc \in {"stage", "unstage", "publish"} => mode = "job" /\ phase = "none" /\ ~locked
  /\ pc = "stage" => Kind \in {"prepare", "restore"}
  /\ pc \in {"stage", "mark", "drain"} \cup UnderLock => ~raised
  /\ pc \in {"mark", "drain"} /\ mode = "job" => Kind \in {"create", "restore"}
  /\ pc \in {"mark", "drain"} =>
       /\ mode = "job" => phase = "none"
       /\ mode = "rollback" => phase \in Open
       /\ mode = "confirm" => phase = "committed"
  /\ pc \in {"capture", "journal"} =>
       mode = "job" /\ phase = "none" /\ Kind \in {"create", "restore"}
  /\ pc = "journal" => Kind = "restore"
  /\ pc \in {"pause", "apply"} => mode = "job" /\ phase = "prepared"
  /\ pc \in InTry \ {"pause", "apply"} => mode = "job" /\ phase = "applying"
  /\ pc \in InRollback => mode # "confirm" /\ phase \in Open
  /\ pc = "confirm" => mode = "confirm" /\ phase = "committed"
  /\ pc = "leave" =>
       /\ mode = "job" /\ phase \in Open => jobs[task].state = "recovery_required"
       /\ mode = "rollback" => IF raised THEN phase \in Open ELSE phase = "rolled_back"
       /\ mode = "confirm" => phase = "committed"
  /\ pc = "rewrite" => mode # "job" /\ phase \in Open \cup {"committed"}
  /\ pc = "failing" => phase \in {"none", "rolled_back"}
  /\ pc = "complete" => phase \in {"none", "committed"}

(* Behind the lock nobody is inside, and no other request comes.             *)
LockInv ==
  /\ pc \in UnderLock => locked
  /\ locked => marker /\ Drained /\ pc \in UnderLock \cup {"leave"}
  /\ pc \in {"drain", "leave"} => marker

MailInv ==
  /\ held => mailPaused
  /\ phase \in Open => (held => mailWas)
  /\ pc \in InTry \ {"pause"} => mailPaused

CoreInv == TypeOK /\ JobInv /\ PlaceInv /\ LockInv /\ MailInv

NobodyIn == \A r \in Readers : reader[r] \notin {"in", "editing"}

SiteWhole ==
  /\ accepts /\ live # 0 /\ cache # "replaced"
  /\ media = live \/ \E r \in Readers : reader[r] = "editing"

(* The previous state during a restore, and the steps on the way to the new  *)
(* state and back.                                                           *)
SwitchInv ==
  /\ pc = "journal" => snapshot = <<live, media>>
  /\ pc \in {"mark", "drain", "capture", "journal"} /\ mode = "job" /\ Kind = "restore"
       => cand = BackupVersion
  /\ pc \in {"pause", "apply", "close", "rename", "replace"} => cand = BackupVersion
  /\ phase \in Open => snapshot[1] # 0 /\ old \in {0, snapshot[1]} /\ (old = 0 => live = snapshot[1])
  /\ phase = "prepared" => old = 0 /\ accepts /\ cache # "replaced"
  /\ pc \in {"pause", "apply"} => media = snapshot[1]
  /\ pc \in {"close", "rename"} => old = 0
  /\ pc \in {"replace", "media", "copy", "verify", "refresh", "commit"} => old # 0
  /\ pc \in {"media", "copy", "verify", "refresh", "commit"} => live = BackupVersion /\ accepts
  /\ pc \in {"verify", "refresh", "commit"} => media = BackupVersion
  /\ pc = "commit" => cache = "empty"
  /\ pc = "rb_rename" /\ old # 0 => live = 0
  /\ pc \in InRollback \ {"rb_drop", "rb_rename"} => old = 0
  /\ pc \in {"rb_media", "rb_copy", "rb_refresh", "rb_mail", "rb_done"} => accepts
  /\ pc \in {"rb_refresh", "rb_mail", "rb_done"} => media = snapshot[1]
  /\ pc \in {"rb_mail", "rb_done"} => cache = "empty"

SiteInv ==
  /\ snapshot[1] = snapshot[2]
  /\ phase \in Open => marker /\ NobodyIn
  /\ phase \notin Open => SiteWhole
  /\ phase \in {"none", "rolled_back"} => old = 0
  /\ phase = "rolled_back" /\ marker => NobodyIn /\ live = snapshot[1]
  /\ pc = "leave" /\ mode = "rollback" /\ phase = "prepared" => raised
  /\ pc = "leave" /\ mode = "job" /\ phase = "committed" => locked /\ live = BackupVersion

RestoreInv == SwitchInv /\ SiteInv

USE JobsAssumption, BoundsAssumption
    DEF JobsAssumption, BoundsAssumption, dataVars, jobVars, gateVars, mailVars, workVars,
        Active, InTry, InRollback, Steps, UnderLock, Idle, Open, Quiet, NoFault, Fault, Go

-----------------------------------------------------------------------------
(* Type, jobs, places, lock and mail.                                        *)

LEMMA InitCore == Init => CoreInv
<1>. SUFFICES ASSUME Init PROVE CoreInv
  OBVIOUS
<1>1. TypeOK
  BY DEF Init, TypeOK, OneActiveJob
<1>2. JobInv /\ PlaceInv /\ LockInv /\ MailInv
  BY DEF Init, JobInv, PlaceInv, LockInv, MailInv
<1>. QED
  BY <1>1, <1>2 DEF CoreInv

LEMMA VisitCore ==
  ASSUME CoreInv, NEW r \in Readers, Visit(r)
  PROVE  CoreInv'
<1>. USE DEF Visit, Arrive, AcquireShared, Enter, Leave, Serve, EditDatabase, EditMedia, ReaderStep
<1>1. TypeOK'
  BY DEF CoreInv, TypeOK, OneActiveJob
<1>2. JobInv' /\ PlaceInv' /\ MailInv'
  BY DEF CoreInv, JobInv, PlaceInv, MailInv, Kind
<1>3. LockInv'
  BY DEF CoreInv, LockInv, Drained, TypeOK
<1>. QED
  BY <1>1, <1>2, <1>3 DEF CoreInv

(* The steps of the data switch and of its rollback.                         *)
LEMMA SwitchCore ==
  ASSUME CoreInv,
         \/ Journal \/ Pause \/ Apply \/ CloseLive \/ RenameLive \/ RenameCandidate \/ DeleteMedia
         \/ CopyMedia \/ VerifyRestored \/ Refresh \/ Commit \/ TryFails
  PROVE  CoreInv'
<1>. USE DEF Journal, Pause, Apply, CloseLive, RenameLive, RenameCandidate, DeleteMedia,
             CopyMedia, VerifyRestored, Refresh, Commit, TryFails, TryStep, Outdated, Cleared
<1>. /\ UNCHANGED <<record, jobs, snapshot, pending, gateVars, task, mode, raised, reader, latest, crashes>>
     /\ pc \in InTry \cup {"journal"}
  OBVIOUS
<1>1. TypeOK'
  <2>1. OneActiveJob' /\ pc' \in Steps
    BY DEF CoreInv, TypeOK, OneActiveJob
  <2>2. /\ live' \in Nat /\ old' \in Nat /\ cand' \in Nat /\ media' \in Nat
        /\ cache' \in {"empty", "fresh", "replaced"} /\ errors' \in Nat
        /\ phase' \in {"none", "prepared", "applying", "committed", "rolled_back"}
    BY DEF CoreInv, TypeOK, BackupVersion
  <2>3. /\ accepts' \in BOOLEAN /\ mailWas' \in BOOLEAN
        /\ mailPaused' \in BOOLEAN /\ held' \in BOOLEAN
    BY DEF CoreInv, TypeOK
  <2>. QED
    BY <2>1, <2>2, <2>3 DEF CoreInv, TypeOK
<1>2. JobInv'
  <2>1. task \in Jobs
    BY DEF CoreInv, JobInv, TypeOK
  <2>2. \/ phase # "none" /\ pc # "journal"
        \/ jobs[task].kind = "restore" /\ jobs[task].state \in {"running", "recovery_required"}
    BY DEF CoreInv, JobInv, PlaceInv, Kind
  <2>. QED
    BY <2>1, <2>2 DEF CoreInv, JobInv
<1>3. PlaceInv'
  BY DEF CoreInv, PlaceInv, Kind
<1>4. LockInv'
  BY DEF CoreInv, LockInv, Drained
<1>5. MailInv'
  BY DEF CoreInv, MailInv, PlaceInv, TypeOK
<1>. QED
  BY <1>1, <1>2, <1>3, <1>4, <1>5 DEF CoreInv

LEMMA RollbackCore ==
  ASSUME CoreInv,
         \/ RollbackDrop \/ RollbackRename \/ RollbackOpen \/ RollbackMedia \/ RollbackCopy
         \/ RollbackRefresh \/ RollbackMail \/ RollbackDone
  PROVE  CoreInv'
<1>. USE DEF RollbackDrop, RollbackRename, RollbackOpen, RollbackMedia, RollbackCopy,
             RollbackRefresh, RollbackMail, RollbackDone, RollbackStep, Outdated, Cleared
<1>. UNCHANGED <<record, jobs, snapshot, pending, gateVars, task, mode, raised, reader, latest, crashes>>
  OBVIOUS
<1>1. TypeOK'
  <2>1. OneActiveJob' /\ pc' \in Steps
    BY DEF CoreInv, TypeOK, OneActiveJob
  <2>2. /\ live' \in Nat /\ old' \in Nat /\ cand' \in Nat /\ media' \in Nat
        /\ cache' \in {"empty", "fresh", "replaced"} /\ errors' \in Nat
        /\ phase' \in {"none", "prepared", "applying", "committed", "rolled_back"}
    BY DEF CoreInv, TypeOK
  <2>3. /\ accepts' \in BOOLEAN /\ mailWas' \in BOOLEAN /\ held' \in BOOLEAN
    BY DEF CoreInv, TypeOK
  <2>4. mailPaused' \in BOOLEAN
    <3>1. mailPaused \in BOOLEAN
      BY DEF CoreInv, TypeOK
    <3>2. mailPaused' = mailPaused \/ mailPaused' = (mailPaused /\ mailWas)
      BY DEF StaysPaused
    <3>. QED
      BY <3>1, <3>2, Zenon
  <2>. QED
    BY <2>1, <2>2, <2>3, <2>4 DEF CoreInv, TypeOK
<1>2. JobInv'
  BY DEF CoreInv, JobInv, PlaceInv, Kind
<1>3. PlaceInv'
  BY DEF CoreInv, PlaceInv, Kind
<1>4. LockInv'
  BY DEF CoreInv, LockInv, Drained
<1>5. MailInv'
  BY DEF CoreInv, MailInv, PlaceInv, TypeOK, StaysPaused
<1>. QED
  BY <1>1, <1>2, <1>3, <1>4, <1>5 DEF CoreInv

(* The pages: no job is queued while one is active, and the pause is lifted  *)
(* only outside maintenance.                                                 *)
LEMMA PagesCore ==
  ASSUME CoreInv,
         \/ \E j \in Jobs, kind \in {"create", "prepare", "restore"} : Enqueue(j, kind)
         \/ DeleteBackup \/ ResumeMail
  PROVE  CoreInv'
<1>1. CASE \E j \in Jobs, kind \in {"create", "prepare", "restore"} : Enqueue(j, kind)
  <2>. PICK j \in Jobs, kind \in {"create", "prepare", "restore"} : Enqueue(j, kind)
    BY <1>1
  <2>. USE DEF Enqueue, NoActiveJob
  <2>. /\ UNCHANGED <<phase, mailWas, snapshot, pending, dataVars, gateVars, mailVars,
                      workVars, reader, latest, crashes, errors>>
       /\ \A i \in Jobs \ {j} : jobs'[i] = jobs[i]
       /\ jobs'[j].kind = kind /\ jobs'[j].state = "pending"
    BY DEF CoreInv, TypeOK
  <2>1. TypeOK'
    <3>1. jobs' \in [Jobs -> [kind: {"none", "create", "prepare", "restore"},
                              state: {"absent", "completed", "failed"} \cup Active]]
      BY DEF CoreInv, TypeOK
    <3>2. OneActiveJob'
      BY DEF OneActiveJob
    <3>. QED
      BY <3>1, <3>2 DEF CoreInv, TypeOK
  <2>2. task = NoJob /\ phase = "none" /\ pc \in Idle
    BY DEF CoreInv, JobInv, TypeOK
  <2>3. JobInv' /\ PlaceInv' /\ LockInv' /\ MailInv'
    BY <2>2 DEF CoreInv, JobInv, PlaceInv, LockInv, Drained, MailInv, Kind
  <2>. QED
    BY <2>1, <2>3 DEF CoreInv
<1>2. CASE DeleteBackup
  BY <1>2 DEF DeleteBackup, CoreInv, TypeOK, OneActiveJob, JobInv, PlaceInv, LockInv, Drained, MailInv, Kind
<1>3. CASE ResumeMail
  <2>. mailPaused' = FALSE /\ held' = FALSE /\ ~marker
       /\ UNCHANGED <<dataVars, jobVars, gateVars, workVars, reader, latest, crashes, errors>>
    BY <1>3 DEF ResumeMail
  <2>1. JobInv' /\ PlaceInv' /\ LockInv'
    BY DEF CoreInv, JobInv, PlaceInv, LockInv, Drained, Kind
  <2>3. TypeOK'
    <3>1. mailPaused' \in BOOLEAN /\ held' \in BOOLEAN /\ OneActiveJob'
      BY DEF CoreInv, TypeOK, OneActiveJob
    <3>. QED
      BY <3>1 DEF CoreInv, TypeOK
  <2>2. MailInv'
    BY DEF CoreInv, MailInv, LockInv
  <2>. QED
    BY <2>1, <2>2, <2>3 DEF CoreInv
<1>. QED
  BY <1>1, <1>2, <1>3

(* The worker comes, dies, and looks for what it left behind.                *)
LEMMA WorkerCore ==
  ASSUME CoreInv, Start \/ Crash \/ RetryCleanup \/ RecoverDone
  PROVE  CoreInv'
<1>. USE DEF Start, Crash, RetryCleanup, RecoverDone
<1>. /\ UNCHANGED <<record, jobs, phase, mailWas, snapshot, dataVars, marker, exposed, mailVars,
                    reader, latest>>
     /\ pc' \in Idle
  OBVIOUS
<1>1. TypeOK'
  <2>1. crashes' \in Nat /\ errors' \in Nat /\ pc' \in Steps /\ task' \in Jobs \cup {NoJob}
        /\ mode' \in {"job", "rollback", "confirm"}
    BY DEF CoreInv, TypeOK
  <2>2. raised' \in BOOLEAN
    BY DEF CoreInv, TypeOK
  <2>3. pending' \in BOOLEAN
    BY DEF CoreInv, TypeOK
  <2>4. locked' \in BOOLEAN /\ (locked' => marker')
    <3>1. locked' = FALSE \/ UNCHANGED <<locked, marker>>
      OBVIOUS
    <3>2. locked \in BOOLEAN /\ (locked => marker)
      BY DEF CoreInv, TypeOK
    <3>3. locked' \in BOOLEAN
      BY <3>1, <3>2
    <3>4. locked' => marker'
      BY <3>1, <3>2
    <3>. QED
      BY <3>3, <3>4
  <2>. QED
    BY <2>1, <2>2, <2>3, <2>4 DEF CoreInv, TypeOK, OneActiveJob
<1>2. task' = NoJob
  BY DEF CoreInv, JobInv
<1>3. ~locked'
  BY DEF CoreInv, LockInv
<1>4. JobInv' /\ PlaceInv' /\ LockInv' /\ MailInv'
  BY <1>2, <1>3 DEF CoreInv, JobInv, PlaceInv, LockInv, MailInv, Kind
<1>. QED
  BY <1>1, <1>4 DEF CoreInv

(* A job is staged, and the maintenance begins.                              *)
LEMMA StageCore ==
  ASSUME CoreInv, Stage \/ Mark \/ Publish
  PROVE  CoreInv'
<1>. USE DEF Stage, Mark, Publish, BackupVersion
<1>. UNCHANGED <<jobVars, live, old, accepts, media, cache, locked, exposed, mailVars, task, mode, raised,
               reader, latest, crashes>>
  OBVIOUS
<1>1. TypeOK'
  <2>1. cand' \in Nat /\ errors' \in Nat /\ pc' \in Steps
    BY DEF CoreInv, TypeOK
  <2>2. marker' \in BOOLEAN /\ (locked' => marker')
    BY DEF CoreInv, TypeOK
  <2>. QED
    BY <2>1, <2>2 DEF CoreInv, TypeOK, OneActiveJob
<1>2. JobInv' /\ LockInv' /\ MailInv'
  BY DEF CoreInv, JobInv, PlaceInv, LockInv, Drained, MailInv
<1>3. CASE Stage
  <2>1. PlaceInv'
    BY <1>3 DEF CoreInv, PlaceInv, Kind
  <2>. QED
    BY <1>1, <1>2, <2>1 DEF CoreInv
<1>4. CASE Mark \/ Publish
  <2>1. PlaceInv'
    BY <1>4 DEF CoreInv, PlaceInv, Kind
  <2>. QED
    BY <1>1, <1>2, <2>1 DEF CoreInv
<1>. QED
  BY <1>3, <1>4

LEMMA DrainCore ==
  ASSUME CoreInv, Drain \/ Capture
  PROVE  CoreInv'
<1>. USE DEF Drain, Capture, AfterDrain
<1>. UNCHANGED <<record, jobs, phase, mailWas, pending, dataVars, marker, exposed, mailVars, task, mode,
               reader, latest, crashes>>
  OBVIOUS
<1>1. TypeOK'
  <2>1. snapshot' \in Nat \X Nat /\ errors' \in Nat /\ pc' \in Steps
    BY DEF CoreInv, TypeOK
  <2>2. locked' \in BOOLEAN /\ (locked' => marker') /\ raised' \in BOOLEAN
    BY DEF CoreInv, TypeOK, LockInv
  <2>. QED
    BY <2>1, <2>2 DEF CoreInv, TypeOK, OneActiveJob
<1>2. JobInv' /\ MailInv'
  BY DEF CoreInv, JobInv, PlaceInv, MailInv
<1>3. LockInv'
  BY DEF CoreInv, LockInv, Drained
<1>4. PlaceInv'
  BY DEF CoreInv, PlaceInv, Kind, TypeOK
<1>. QED
  BY <1>1, <1>2, <1>3, <1>4 DEF CoreInv

(* What a step that gives one job a new state leaves of the others.          *)
LEMMA JobStep ==
  ASSUME TypeOK, NEW j \in Jobs,
         NEW s \in {"absent", "completed", "failed"} \cup Active,
         jobs' = [jobs EXCEPT ![j].state = s],
         s \in Active => jobs[j].state \in Active
  PROVE  /\ jobs' \in [Jobs -> [kind: {"none", "create", "prepare", "restore"},
                                state: {"absent", "completed", "failed"} \cup Active]]
         /\ OneActiveJob'
         /\ jobs'[j].state = s /\ \A i \in Jobs : jobs'[i].kind = jobs[i].kind
         /\ \A i \in Jobs \ {j} : jobs'[i] = jobs[i]
<1>. DEFINE T == [kind: {"none", "create", "prepare", "restore"},
                  state: {"absent", "completed", "failed"} \cup Active]
<1>. jobs \in [Jobs -> T] /\ OneActiveJob
  BY DEF TypeOK
<1>1. jobs[j] \in T
  OBVIOUS
<1>2. [jobs[j] EXCEPT !.state = s] \in T /\ [jobs[j] EXCEPT !.state = s].state = s
      /\ [jobs[j] EXCEPT !.state = s].kind = jobs[j].kind
  BY <1>1
<1>3. jobs' = [jobs EXCEPT ![j] = [jobs[j] EXCEPT !.state = s]]
  OBVIOUS
<1>. HIDE DEF T
<1>4. jobs' \in [Jobs -> T]
  BY <1>2, <1>3
<1>5. jobs'[j] = [jobs[j] EXCEPT !.state = s] /\ \A i \in Jobs \ {j} : jobs'[i] = jobs[i]
  BY <1>3
<1>6. jobs'[j].state = s /\ \A i \in Jobs : jobs'[i].kind = jobs[i].kind
  BY <1>2, <1>5
<1>7. OneActiveJob'
  BY <1>5, <1>6 DEF OneActiveJob
<1>. QED
  BY <1>4, <1>5, <1>6, <1>7 DEF T

LEMMA TakeCore ==
  ASSUME CoreInv, Take
  PROVE  CoreInv'
<1>. PICK j \in Jobs :
       /\ jobs[j].state = "pending"
       /\ jobs' = [jobs EXCEPT ![j].state = "running"]
       /\ task' = j
       /\ pc' = IF jobs[j].kind = "create" THEN "mark" ELSE "stage"
  BY DEF Take
<1>. /\ pc = "ready" /\ ~marker /\ mode' = "job" /\ raised' = FALSE
     /\ UNCHANGED <<record, phase, mailWas, snapshot, pending, dataVars, gateVars, mailVars,
                    reader, latest, crashes, errors>>
  BY DEF Take
<1>1. TypeOK
  BY DEF CoreInv
<1>2. /\ jobs' \in [Jobs -> [kind: {"none", "create", "prepare", "restore"},
                             state: {"absent", "completed", "failed"} \cup Active]]
      /\ OneActiveJob'
      /\ jobs'[j].state = "running" /\ \A i \in Jobs : jobs'[i].kind = jobs[i].kind
      /\ \A i \in Jobs \ {j} : jobs'[i] = jobs[i]
  BY <1>1, JobStep
<1>3. TypeOK'
  <2>1. raised' \in BOOLEAN
    OBVIOUS
  <2>2. mode' \in {"job", "rollback", "confirm"} /\ pc' \in Steps /\ task' \in Jobs \cup {NoJob}
    OBVIOUS
  <2>. QED
    BY <1>1, <1>2, <2>1, <2>2 DEF TypeOK
<1>4. \A i \in Jobs : jobs[i].state \notin {"running", "recovery_required"}
  BY <1>1 DEF TypeOK, OneActiveJob
<1>5. phase = "none" /\ ~locked
  BY <1>4 DEF CoreInv, JobInv, LockInv
<1>6. jobs[j].kind \in {"create", "prepare", "restore"}
  BY <1>1 DEF CoreInv, JobInv, TypeOK
<1>7. JobInv' /\ PlaceInv' /\ LockInv' /\ MailInv'
  BY <1>2, <1>5, <1>6 DEF CoreInv, JobInv, PlaceInv, LockInv, MailInv, Kind
<1>. QED
  BY <1>3, <1>7 DEF CoreInv

(* A job settles: no other is active, so the journal goes with it.           *)
LEMMA SettleCore ==
  ASSUME CoreInv, Unstage \/ Complete \/ Failing
  PROVE  CoreInv'
<1>. USE DEF Unstage, Complete, Failing, Settle, SetState, AfterSettle
<1>. PICK s \in {"completed", "failed"} : jobs' = [jobs EXCEPT ![task].state = s]
  OBVIOUS
<1>. /\ UNCHANGED <<snapshot, live, accepts, media, cache, gateVars, mailVars,
                    mode, raised, reader, latest, crashes, errors>>
     /\ task' = NoJob /\ pc' \in {"ready", "recover"} /\ pc \in {"unstage", "complete", "failing"}
  OBVIOUS
<1>1. TypeOK
  BY DEF CoreInv
<1>2. task \in Jobs /\ jobs[task].state \in {"running", "recovery_required"}
  BY <1>1 DEF CoreInv, JobInv, TypeOK
<1>3. /\ jobs' \in [Jobs -> [kind: {"none", "create", "prepare", "restore"},
                             state: {"absent", "completed", "failed"} \cup Active]]
      /\ OneActiveJob'
      /\ jobs'[task].state = s /\ \A i \in Jobs : jobs'[i].kind = jobs[i].kind
      /\ \A i \in Jobs \ {task} : jobs'[i] = jobs[i]
  BY <1>1, <1>2, JobStep
<1>4. phase' = "none"
  BY DEF CoreInv, PlaceInv
<1>5. TypeOK'
  <2>1. /\ old' \in Nat /\ cand' \in Nat /\ record' \in {"completed", "prepared", "gone"}
        /\ pc' \in Steps /\ task' \in Jobs \cup {NoJob}
    BY <1>1 DEF TypeOK
  <2>2. mailWas' \in BOOLEAN
    BY <1>1 DEF TypeOK
  <2>3. pending' \in BOOLEAN
    BY <1>1, Zenon DEF TypeOK
  <2>. QED
    BY <1>1, <1>3, <1>4, <2>1, <2>2, <2>3 DEF TypeOK
<1>6. JobInv' /\ PlaceInv' /\ MailInv'
  BY <1>3, <1>4 DEF CoreInv, JobInv, PlaceInv, MailInv, Kind
<1>7. LockInv'
  BY DEF CoreInv, LockInv, Drained
<1>. QED
  BY <1>5, <1>6, <1>7 DEF CoreInv

(* The job in hand, when a step of its keeps it for the operator or not.     *)
LEMMA HandStep ==
  ASSUME CoreInv, pc \notin Idle, SetState("recovery_required") \/ UNCHANGED jobs
  PROVE  /\ task \in Jobs /\ jobs[task].state \in {"running", "recovery_required"}
         /\ jobs' \in [Jobs -> [kind: {"none", "create", "prepare", "restore"},
                                state: {"absent", "completed", "failed"} \cup Active]]
         /\ OneActiveJob'
         /\ jobs'[task].state = jobs[task].state \/ jobs'[task].state = "recovery_required"
         /\ SetState("recovery_required") => jobs'[task].state = "recovery_required"
         /\ \A i \in Jobs : jobs'[i].kind = jobs[i].kind
         /\ \A i \in Jobs \ {task} : jobs'[i] = jobs[i]
<1>1. TypeOK /\ task \in Jobs /\ jobs[task].state \in {"running", "recovery_required"}
  BY DEF CoreInv, JobInv, TypeOK
<1>2. CASE SetState("recovery_required")
  <2>. jobs' = [jobs EXCEPT ![task].state = "recovery_required"]
    BY <1>2 DEF SetState
  <2>. QED
    BY <1>1, JobStep
<1>3. CASE UNCHANGED jobs
  <2>1. SetState("recovery_required") => jobs'[task].state = "recovery_required"
    BY <1>1, <1>2
  <2>. QED
    BY <1>1, <1>3, <2>1 DEF TypeOK, OneActiveJob
<1>. QED
  BY <1>2, <1>3

LEMMA FailCore ==
  ASSUME CoreInv, RollbackFails \/ Confirm
  PROVE  CoreInv'
<1>. USE DEF RollbackFails, Confirm, Cleared
<1>. /\ UNCHANGED <<live, old, cand, accepts, media, record, phase, mailWas, snapshot, pending,
                    gateVars, mailVars, task, mode, reader, latest, crashes>>
     /\ SetState("recovery_required") \/ UNCHANGED jobs
     /\ pc \in InRollback \cup {"confirm"} /\ pc' = "leave"
  OBVIOUS
<1>1. TypeOK
  BY DEF CoreInv
<1>2. /\ task \in Jobs /\ jobs[task].state \in {"running", "recovery_required"}
      /\ jobs' \in [Jobs -> [kind: {"none", "create", "prepare", "restore"},
                             state: {"absent", "completed", "failed"} \cup Active]]
      /\ OneActiveJob'
      /\ jobs'[task].state = jobs[task].state \/ jobs'[task].state = "recovery_required"
      /\ SetState("recovery_required") => jobs'[task].state = "recovery_required"
      /\ \A i \in Jobs : jobs'[i].kind = jobs[i].kind
      /\ \A i \in Jobs \ {task} : jobs'[i] = jobs[i]
  BY HandStep
<1>3. TypeOK'
  <2>1. cache' \in {"empty", "fresh", "replaced"} /\ errors' \in Nat /\ pc' \in Steps
    BY <1>1 DEF TypeOK
  <2>2. raised' \in BOOLEAN
    BY <1>1 DEF TypeOK
  <2>. QED
    BY <1>1, <1>2, <2>1, <2>2 DEF TypeOK
<1>4. JobInv'
  BY <1>2 DEF CoreInv, JobInv
<1>5. LockInv' /\ MailInv'
  BY DEF CoreInv, LockInv, Drained, MailInv
<1>6. PlaceInv'
  BY <1>2 DEF CoreInv, PlaceInv, Kind
<1>. QED
  BY <1>3, <1>4, <1>5, <1>6 DEF CoreInv

LEMMA LeaveCore ==
  ASSUME CoreInv, LeaveMaintenance
  PROVE  CoreInv'
<1>. USE DEF LeaveMaintenance
<1>. /\ UNCHANGED <<dataVars, record, phase, mailWas, snapshot, pending, mailVars, mode, raised,
                    reader, latest, crashes, errors>>
     /\ SetState("recovery_required") \/ UNCHANGED jobs
     /\ phase = "applying" => SetState("recovery_required")
     /\ phase # "applying" => UNCHANGED jobs
     /\ pc = "leave" /\ pc' = AfterLeave /\ locked' = FALSE /\ marker' = KeepsMarker
     /\ exposed' = (exposed \/ OpensTooEarly)
     /\ task' = IF AfterLeave = "ready" THEN NoJob ELSE task
  OBVIOUS
<1>1. TypeOK
  BY DEF CoreInv
<1>2. /\ task \in Jobs /\ jobs[task].state \in {"running", "recovery_required"}
      /\ jobs' \in [Jobs -> [kind: {"none", "create", "prepare", "restore"},
                             state: {"absent", "completed", "failed"} \cup Active]]
      /\ OneActiveJob'
      /\ jobs'[task].state = jobs[task].state \/ jobs'[task].state = "recovery_required"
      /\ SetState("recovery_required") => jobs'[task].state = "recovery_required"
      /\ \A i \in Jobs : jobs'[i].kind = jobs[i].kind
      /\ \A i \in Jobs \ {task} : jobs'[i] = jobs[i]
  BY HandStep
<1>3. /\ pc' \in {"rewrite", "failing", "complete", "ready", "publish"}
      /\ pc' = "ready" <=> task' = NoJob
      /\ task' = NoJob \/ task' = task
  BY <1>2 DEF AfterLeave
<1>4. TypeOK'
  <2>1. pc' \in Steps /\ task' \in Jobs \cup {NoJob}
    BY <1>2, <1>3
  <2>2. marker' \in BOOLEAN /\ locked' \in BOOLEAN /\ exposed' \in BOOLEAN
    <3>1. KeepsMarker \in BOOLEAN
      BY Zenon DEF KeepsMarker
    <3>2. exposed' \in BOOLEAN
      BY Zenon
    <3>. QED
      BY <3>1, <3>2
  <2>3. mailWas' \in BOOLEAN /\ accepts' \in BOOLEAN /\ mailPaused' \in BOOLEAN
        /\ held' \in BOOLEAN /\ raised' \in BOOLEAN /\ pending' \in BOOLEAN
    BY <1>1 DEF TypeOK
  <2>4. ~locked'
    OBVIOUS
  <2>5. /\ record' \in {"completed", "prepared", "gone"}
        /\ phase' \in {"none", "prepared", "applying", "committed", "rolled_back"}
        /\ snapshot' \in Nat \X Nat
        /\ live' \in Nat /\ old' \in Nat /\ cand' \in Nat /\ media' \in Nat
        /\ cache' \in {"empty", "fresh", "replaced"}
        /\ reader' \in [Readers -> {"out", "checked", "shared", "in", "editing"}]
        /\ mode' \in {"job", "rollback", "confirm"}
        /\ latest' \in Nat /\ crashes' \in Nat /\ errors' \in Nat
    BY <1>1 DEF TypeOK
  <2>. HIDE DEF LeaveMaintenance
  <2>. QED
    BY <1>2, <2>1, <2>2, <2>3, <2>4, <2>5, Zenon DEF TypeOK
<1>5. JobInv'
  BY <1>2, <1>3 DEF CoreInv, JobInv
<1>6. LockInv' /\ MailInv'
  BY <1>3 DEF CoreInv, LockInv, MailInv
<1>7. PlaceInv'
  <2>. HIDE DEF LeaveMaintenance
  <2>2. pc' = "rewrite" => mode # "job" /\ phase \in Open \cup {"committed"}
    BY <1>1 DEF AfterLeave, CoreInv, PlaceInv, TypeOK
  <2>3. pc' = "failing" => phase \in {"none", "rolled_back"}
    <3>1. phase \in {"none", "prepared", "applying", "committed", "rolled_back"}
          /\ mode \in {"job", "rollback", "confirm"}
      BY <1>1 DEF TypeOK
    <3>2. /\ mode = "job" /\ phase \in Open => jobs[task].state = "recovery_required"
          /\ mode = "rollback" => IF raised THEN phase \in Open ELSE phase = "rolled_back"
          /\ mode = "confirm" => phase = "committed"
      BY DEF CoreInv, PlaceInv
    <3>3. AfterLeave = "failing" =>
            \/ mode = "rollback" /\ ~raised
            \/ mode \notin {"rollback", "confirm"} /\ phase # "committed" /\ ~KeepsMarker
      BY DEF AfterLeave
    <3>. QED
      BY <3>1, <3>2, <3>3 DEF KeepsMarker
  <2>1. pc' = "publish" => mode = "job" /\ phase = "none"
    <3>. SUFFICES ASSUME pc' = "publish" PROVE mode = "job" /\ phase = "none"
      OBVIOUS
    <3>1. phase \in {"none", "prepared", "applying", "committed", "rolled_back"}
          /\ mode \in {"job", "rollback", "confirm"}
      BY <1>1 DEF TypeOK
    <3>2. /\ mode = "job" /\ phase \in Open => jobs[task].state = "recovery_required"
          /\ phase # "none" => \E j \in Jobs : jobs[j].kind = "restore"
                                            /\ jobs[j].state \in {"running", "recovery_required"}
      BY DEF CoreInv, PlaceInv, JobInv
    <3>. AfterLeave = "publish"
      OBVIOUS
    <3>5. mode \notin {"rollback", "confirm"} /\ phase # "committed" /\ ~KeepsMarker /\ Kind = "create"
      BY DEF AfterLeave
    <3>3. mode = "job" /\ phase \notin {"committed", "applying"} /\ jobs[task].state # "recovery_required"
      BY <3>1, <3>5 DEF KeepsMarker
    <3>4. phase # "none" => Kind = "restore"
      BY <1>1, <1>2, <3>2 DEF TypeOK, OneActiveJob, Kind
    <3>. QED
      BY <3>3, <3>4, <3>5
  <2>4. pc' = "complete" => phase \in {"none", "committed"}
    BY DEF AfterLeave, CoreInv, PlaceInv
  <2>. QED
    BY <1>3, <2>1, <2>2, <2>3, <2>4 DEF PlaceInv
<1>. QED
  BY <1>4, <1>5, <1>6, <1>7 DEF CoreInv

LEMMA RewriteCore ==
  ASSUME CoreInv, Rewrite
  PROVE  CoreInv'
<1>. USE DEF Rewrite
<1>. /\ UNCHANGED <<dataVars, record, phase, mailWas, snapshot, pending, locked, exposed, mailVars,
                    reader, latest, crashes, errors>>
     /\ SetState("recovery_required") /\ marker' = TRUE
     /\ pc = "rewrite" /\ pc' = "ready" /\ task' = NoJob /\ mode' = "job" /\ raised' = FALSE
  OBVIOUS
<1>1. TypeOK
  BY DEF CoreInv
<1>2. /\ task \in Jobs
      /\ jobs' \in [Jobs -> [kind: {"none", "create", "prepare", "restore"},
                             state: {"absent", "completed", "failed"} \cup Active]]
      /\ OneActiveJob'
      /\ jobs[task].state \in {"running", "recovery_required"}
      /\ jobs'[task].state = "recovery_required"
      /\ \A i \in Jobs : jobs'[i].kind = jobs[i].kind
      /\ \A i \in Jobs \ {task} : jobs'[i] = jobs[i]
  BY HandStep
<1>3. TypeOK'
  <2>1. marker' \in BOOLEAN /\ raised' \in BOOLEAN
    OBVIOUS
  <2>2. mode' \in {"job", "rollback", "confirm"} /\ pc' \in Steps /\ task' \in Jobs \cup {NoJob}
    OBVIOUS
  <2>. QED
    BY <1>1, <1>2, <2>1, <2>2 DEF TypeOK
<1>4. JobInv'
  BY <1>2 DEF CoreInv, JobInv
<1>5. PlaceInv' /\ LockInv' /\ MailInv'
  BY DEF CoreInv, PlaceInv, LockInv, Drained, MailInv
<1>. QED
  BY <1>3, <1>4, <1>5 DEF CoreInv

(* The recovery takes up the one job that is left.                           *)
LEMMA RecoverCore ==
  ASSUME CoreInv, NEW j \in Jobs, RecoverSwitch(j) \/ RecoverOther(j)
  PROVE  CoreInv'
<1>. USE DEF RecoverSwitch, RecoverOther, Resumed, Interrupted
<1>1. TypeOK /\ task = NoJob /\ pc = "recover" /\ ~locked
  BY DEF CoreInv, JobInv, LockInv
<1>2. jobs[j].state \in {"running", "recovery_required"}
  OBVIOUS
<1>3. ASSUME NEW s \in {"running", "failed"}, jobs' = [jobs EXCEPT ![j].state = s]
      PROVE  /\ jobs' \in [Jobs -> [kind: {"none", "create", "prepare", "restore"},
                                    state: {"absent", "completed", "failed"} \cup Active]]
             /\ OneActiveJob'
             /\ jobs'[j].state = s /\ \A i \in Jobs : jobs'[i].kind = jobs[i].kind
             /\ \A i \in Jobs \ {j} : jobs'[i] = jobs[i]
  <2>1. s \in {"absent", "completed", "failed"} \cup Active /\ jobs[j].state \in Active
    BY <1>2
  <2>. QED
    BY <1>1, <1>3, <2>1, JobStep
<1>4. CASE RecoverSwitch(j)
  <2>. /\ jobs' = [jobs EXCEPT ![j].state = "running"]
       /\ task' = j /\ raised' = FALSE /\ pc' = "mark"
       /\ \/ mode' = "rollback" /\ phase \in Open
          \/ mode' = "confirm" /\ phase = "committed"
       /\ UNCHANGED <<record, phase, mailWas, snapshot, pending, dataVars, gateVars, mailVars,
                      reader, latest, crashes, errors>>
    BY <1>4
  <2>1. TypeOK'
    <3>1. raised' \in BOOLEAN
      OBVIOUS
    <3>2. mode' \in {"job", "rollback", "confirm"} /\ pc' \in Steps /\ task' \in Jobs \cup {NoJob}
      OBVIOUS
    <3>. QED
      BY <1>1, <1>3, <3>1, <3>2 DEF TypeOK
  <2>2. JobInv'
    BY <1>2, <1>3 DEF CoreInv, JobInv
  <2>3. PlaceInv' /\ LockInv' /\ MailInv'
    BY <1>1 DEF CoreInv, PlaceInv, LockInv, MailInv
  <2>. QED
    BY <2>1, <2>2, <2>3 DEF CoreInv
<1>5. CASE RecoverOther(j)
  <2>. /\ jobs' = [jobs EXCEPT ![j].state = "failed"]
       /\ cand' = 0 /\ marker' = FALSE /\ phase' = "none" /\ mailWas' = FALSE
       /\ UNCHANGED <<live, old, accepts, media, cache, record, snapshot, pending, locked,
                      exposed, mailVars, workVars, reader, latest, crashes, errors>>
    BY <1>5
  <2>1. TypeOK'
    <3>1. marker' \in BOOLEAN /\ mailWas' \in BOOLEAN
      OBVIOUS
    <3>2. cand' \in Nat /\ phase' \in {"none", "prepared", "applying", "committed", "rolled_back"}
      OBVIOUS
    <3>. QED
      BY <1>1, <1>3, <3>1, <3>2 DEF TypeOK
  <2>2. JobInv'
    BY <1>1, <1>2, <1>3 DEF CoreInv, JobInv
  <2>3. PlaceInv' /\ LockInv' /\ MailInv'
    BY <1>1 DEF CoreInv, PlaceInv, LockInv, MailInv
  <2>. QED
    BY <2>1, <2>2, <2>3 DEF CoreInv
<1>. QED
  BY <1>4, <1>5

LEMMA NextCore == CoreInv /\ [Next]_vars => CoreInv'
<1>. SUFFICES ASSUME CoreInv, [Next]_vars PROVE CoreInv'
  OBVIOUS
<1>1. CASE Start \/ Crash \/ RetryCleanup \/ RecoverDone
  BY <1>1, WorkerCore
<1>2. CASE Take
  BY <1>2, TakeCore
<1>3. CASE Stage \/ Mark \/ Publish
  BY <1>3, StageCore
<1>4. CASE Drain \/ Capture
  BY <1>4, DrainCore
<1>5. CASE \/ Journal \/ Pause \/ Apply \/ CloseLive \/ RenameLive \/ RenameCandidate \/ DeleteMedia
           \/ CopyMedia \/ VerifyRestored \/ Refresh \/ Commit \/ TryFails
  BY <1>5, SwitchCore
<1>6. CASE \/ RollbackDrop \/ RollbackRename \/ RollbackOpen \/ RollbackMedia \/ RollbackCopy
           \/ RollbackRefresh \/ RollbackMail \/ RollbackDone
  BY <1>6, RollbackCore
<1>7. CASE RollbackFails \/ Confirm
  BY <1>7, FailCore
<1>8. CASE LeaveMaintenance
  BY <1>8, LeaveCore
<1>9. CASE Unstage \/ Complete \/ Failing
  BY <1>9, SettleCore
<1>10. CASE Rewrite
  BY <1>10, RewriteCore
<1>11. CASE \E j \in Jobs : RecoverSwitch(j) \/ RecoverOther(j)
  BY <1>11, RecoverCore
<1>12. CASE \E r \in Readers : Visit(r)
  BY <1>12, VisitCore
<1>13. CASE \/ \E j \in Jobs, kind \in {"create", "prepare", "restore"} : Enqueue(j, kind)
            \/ DeleteBackup \/ ResumeMail
  BY <1>13, PagesCore
<1>14. CASE UNCHANGED vars
  BY <1>14 DEF vars, CoreInv, TypeOK, OneActiveJob, JobInv, PlaceInv, LockInv, Drained, MailInv, Kind
<1>. QED
  BY <1>1, <1>2, <1>3, <1>4, <1>5, <1>6, <1>7, <1>8, <1>9, <1>10, <1>11, <1>12, <1>13, <1>14
     DEF Next, Work

LEMMA Core == Spec => []CoreInv
BY InitCore, NextCore, PTL DEF Spec

(* At most one job is active, crashed and waiting ones included, and the     *)
(* worker holds access.lock only behind maintenance.json.                    *)
THEOREM OneJobAtATime == Spec => []TypeOK
<1>1. CoreInv => TypeOK
  BY DEF CoreInv
<1>. QED
  BY <1>1, Core, PTL

(* After a committed restore the mail stays paused until resume_mail, also   *)
(* through later restores that are rolled back.                              *)
THEOREM MailStaysHeld == Spec => []MailHeldAfterRestore
<1>1. CoreInv => MailHeldAfterRestore
  BY DEF CoreInv, MailInv, MailHeldAfterRestore
<1>. QED
  BY <1>1, Core, PTL

-----------------------------------------------------------------------------
(* The data of the site.                                                     *)

LEMMA InitRestore == Init => RestoreInv
BY DEF Init, RestoreInv, SwitchInv, SiteInv, SiteWhole, NobodyIn, Kind

LEMMA VisitRestore ==
  ASSUME CoreInv, RestoreInv, NEW r \in Readers, Visit(r)
  PROVE  RestoreInv'
<1>. USE DEF Visit, Arrive, AcquireShared, Enter, Leave, Serve, EditDatabase, EditMedia,
             ReaderStep, Admitted
<1>. /\ UNCHANGED <<jobVars, gateVars, mailVars, workVars, crashes, errors, old, cand, accepts>>
     /\ \A x \in Readers \ {r} : reader'[x] = reader[x]
  BY DEF CoreInv, TypeOK
<1>1. NobodyIn /\ marker => NobodyIn' /\ UNCHANGED <<live, media, cache>>
  BY DEF CoreInv, TypeOK, NobodyIn
<1>2. locked => NobodyIn /\ marker
  BY DEF CoreInv, LockInv, Drained, NobodyIn
<1>3. SwitchInv'
  <2>1. CASE locked
    BY <1>1, <1>2, <2>1 DEF RestoreInv, SwitchInv, Kind
  <2>2. CASE ~locked
    <3>1. pc \notin UnderLock
      BY <2>2 DEF CoreInv, LockInv
    <3>2. phase \in Open => UNCHANGED <<live, media, cache>>
      BY <1>1 DEF RestoreInv, SiteInv
    <3>. QED
      BY <3>1, <3>2 DEF RestoreInv, SwitchInv, Kind
  <2>. QED
    BY <2>1, <2>2
<1>4. SiteWhole => SiteWhole'
  <2>. SUFFICES ASSUME SiteWhole PROVE SiteWhole'
    OBVIOUS
  <2>1. accepts' /\ live' # 0 /\ cache' # "replaced"
    BY DEF SiteWhole, CoreInv, TypeOK
  <2>2. media' = live' \/ \E x \in Readers : reader'[x] = "editing"
    <3>1. CASE EditDatabase(r)
      BY <3>1 DEF CoreInv, TypeOK
    <3>2. CASE EditMedia(r)
      BY <3>2
    <3>3. CASE ~EditDatabase(r) /\ ~EditMedia(r)
      <4>1. UNCHANGED <<live, media>> /\ reader[r] # "editing"
        BY <3>3
      <4>. QED
        BY <4>1 DEF SiteWhole
    <3>. QED
      BY <3>1, <3>2, <3>3
  <2>. QED
    BY <2>1, <2>2 DEF SiteWhole
<1>5. SiteInv'
  BY <1>1, <1>2, <1>4 DEF RestoreInv, SiteInv
<1>. QED
  BY <1>3, <1>5 DEF RestoreInv

LEMMA PagesRestore ==
  ASSUME CoreInv, RestoreInv,
         \/ \E j \in Jobs, kind \in {"create", "prepare", "restore"} : Enqueue(j, kind)
         \/ DeleteBackup \/ ResumeMail
  PROVE  RestoreInv'
<1>. UNCHANGED <<phase, snapshot, dataVars, gateVars, workVars, reader>>
  BY DEF Enqueue, DeleteBackup, ResumeMail
<1>1. UNCHANGED jobs \/ pc \in Idle
  BY DEF Enqueue, DeleteBackup, ResumeMail, NoActiveJob, CoreInv, JobInv, TypeOK
<1>. QED
  BY <1>1 DEF RestoreInv, SwitchInv, SiteInv, SiteWhole, NobodyIn, Kind

LEMMA WorkerRestore ==
  ASSUME CoreInv, RestoreInv, Start \/ Crash \/ RetryCleanup \/ RecoverDone \/ Take
  PROVE  RestoreInv'
<1>. /\ UNCHANGED <<phase, snapshot, dataVars, marker, reader>>
     /\ pc' \in Idle \cup {"stage", "mark"}
     /\ pc' = "mark" => \E j \in Jobs : task' = j /\ jobs[j].kind = "create"
                                        /\ jobs' = [jobs EXCEPT ![j].state = "running"]
  BY DEF Start, Crash, RetryCleanup, RecoverDone, Take
<1>1. pc' = "mark" => Kind' = "create"
  BY DEF CoreInv, TypeOK, Kind
<1>. QED
  BY <1>1 DEF RestoreInv, SwitchInv, SiteInv, SiteWhole, NobodyIn

LEMMA StageRestore ==
  ASSUME CoreInv, RestoreInv, Stage \/ Mark \/ Publish
  PROVE  RestoreInv'
<1>. USE DEF Stage, Mark, Publish
<1>. UNCHANGED <<jobVars, live, old, accepts, media, cache, locked, exposed, mailVars, task, mode, raised,
               reader, latest, crashes>>
  OBVIOUS
<1>1. SwitchInv'
  BY DEF CoreInv, PlaceInv, RestoreInv, SwitchInv, Kind
<1>2. phase = "rolled_back" => marker' = marker
  BY DEF CoreInv, PlaceInv, TypeOK
<1>3. SiteInv'
  BY <1>2 DEF RestoreInv, SiteInv, SiteWhole, NobodyIn
<1>. QED
  BY <1>1, <1>3 DEF RestoreInv

LEMMA DrainRestore ==
  ASSUME CoreInv, RestoreInv, Drain \/ Capture \/ Journal
  PROVE  RestoreInv'
<1>. USE DEF Drain, Capture, Journal, AfterDrain, Drained
<1>. UNCHANGED <<record, jobs, pending, dataVars, marker, mailVars, task, mode, reader, latest, crashes>>
  OBVIOUS
<1>1. pc \in {"capture", "journal"} => NobodyIn /\ marker /\ phase = "none" /\ mode = "job"
  BY DEF CoreInv, LockInv, PlaceInv, NobodyIn
<1>2. phase = "none" /\ NobodyIn => accepts /\ live # 0 /\ cache # "replaced" /\ media = live /\ old = 0
  BY DEF RestoreInv, SiteInv, SiteWhole, NobodyIn
<1>3. pc = "drain" =>
        /\ mode = "job" => phase = "none"
        /\ mode = "rollback" => phase \in Open
        /\ mode = "confirm" => phase = "committed"
  BY DEF CoreInv, PlaceInv
<1>4. mode \in {"job", "rollback", "confirm"} /\ live \in Nat /\ media \in Nat
  BY DEF CoreInv, TypeOK
<1>5. phase \in Open /\ pc = "drain" => pc' = AfterDrain
  BY DEF RestoreInv, SiteInv, NobodyIn
<1>6. SwitchInv'
  <2>1. CASE Drain
    BY <2>1, <1>3, <1>4 DEF RestoreInv, SwitchInv, Kind
  <2>2. CASE Capture
    BY <2>2, <1>1, <1>2, <1>4 DEF RestoreInv, SwitchInv, Kind
  <2>3. CASE Journal
    BY <2>3, <1>1, <1>2, <1>4 DEF RestoreInv, SwitchInv, Kind, CoreInv, PlaceInv
  <2>. QED
    BY <2>1, <2>2, <2>3
<1>7. SiteInv'
  <2>1. CASE Drain
    BY <2>1, <1>3, <1>4, <1>5 DEF RestoreInv, SiteInv, SiteWhole, NobodyIn
  <2>2. CASE Capture
    BY <2>2, <1>1, <1>2, <1>4 DEF RestoreInv, SiteInv, SiteWhole, NobodyIn
  <2>3. CASE Journal
    BY <2>3, <1>1, <1>2, <1>4 DEF RestoreInv, SwitchInv, SiteInv, SiteWhole, NobodyIn
  <2>. QED
    BY <2>1, <2>2, <2>3
<1>. QED
  BY <1>6, <1>7 DEF RestoreInv

LEMMA SwitchRestore ==
  ASSUME CoreInv, RestoreInv,
         \/ Pause \/ Apply \/ CloseLive \/ RenameLive \/ RenameCandidate \/ DeleteMedia
         \/ CopyMedia \/ VerifyRestored \/ Refresh \/ Commit \/ TryFails
  PROVE  RestoreInv'
<1>. USE DEF Pause, Apply, CloseLive, RenameLive, RenameCandidate, DeleteMedia, CopyMedia,
             VerifyRestored, Refresh, Commit, TryFails, TryStep, Outdated, Cleared, BackupVersion
<1>. /\ UNCHANGED <<record, jobs, snapshot, pending, gateVars, task, mode, raised, reader, latest, crashes>>
     /\ pc \in InTry
  OBVIOUS
<1>1. /\ locked /\ marker /\ NobodyIn /\ mode = "job" /\ phase \in Open
      /\ IF pc \in {"pause", "apply"} THEN phase = "prepared" ELSE phase = "applying"
  BY DEF CoreInv, LockInv, Drained, PlaceInv, NobodyIn
<1>2. SwitchInv'
  <2>1. CASE Pause
    BY <1>1, <2>1 DEF RestoreInv, SwitchInv, Kind
  <2>2. CASE Apply
    BY <1>1, <2>2 DEF RestoreInv, SwitchInv, Kind
  <2>3. CASE CloseLive
    BY <1>1, <2>3 DEF RestoreInv, SwitchInv, Kind
  <2>4. CASE RenameLive
    BY <1>1, <2>4 DEF RestoreInv, SwitchInv, Kind
  <2>5. CASE RenameCandidate
    BY <1>1, <2>5 DEF RestoreInv, SwitchInv, Kind
  <2>6. CASE DeleteMedia
    BY <1>1, <2>6 DEF RestoreInv, SwitchInv, Kind
  <2>7. CASE CopyMedia
    BY <1>1, <2>7 DEF RestoreInv, SwitchInv, Kind
  <2>8. CASE VerifyRestored
    BY <1>1, <2>8 DEF RestoreInv, SwitchInv, Kind
  <2>9. CASE Refresh
    BY <1>1, <2>9 DEF RestoreInv, SwitchInv, Kind
  <2>10. CASE Commit
    BY <1>1, <2>10 DEF RestoreInv, SwitchInv, Kind
  <2>11. CASE TryFails
    BY <1>1, <2>11 DEF RestoreInv, SwitchInv, Kind
  <2>. QED
    BY <2>1, <2>2, <2>3, <2>4, <2>5, <2>6, <2>7, <2>8, <2>9, <2>10, <2>11
<1>3. SiteInv'
  BY <1>1 DEF RestoreInv, SwitchInv, SiteInv, SiteWhole, NobodyIn
<1>. QED
  BY <1>2, <1>3 DEF RestoreInv

LEMMA RollbackRestore ==
  ASSUME CoreInv, RestoreInv,
         \/ RollbackDrop \/ RollbackRename \/ RollbackOpen \/ RollbackMedia \/ RollbackCopy
         \/ RollbackRefresh \/ RollbackMail \/ RollbackDone
  PROVE  RestoreInv'
<1>. USE DEF RollbackDrop, RollbackRename, RollbackOpen, RollbackMedia, RollbackCopy,
             RollbackRefresh, RollbackMail, RollbackDone, RollbackStep, Outdated, Cleared
<1>. /\ UNCHANGED <<record, jobs, snapshot, pending, gateVars, task, mode, raised, reader, latest, crashes>>
     /\ pc \in InRollback
  OBVIOUS
<1>1. locked /\ marker /\ NobodyIn /\ mode # "confirm" /\ phase \in Open
  BY DEF CoreInv, LockInv, Drained, PlaceInv, NobodyIn
<1>2. SwitchInv'
  BY <1>1 DEF RestoreInv, SwitchInv, SiteInv, Kind
<1>3. SiteInv'
  BY <1>1 DEF RestoreInv, SwitchInv, SiteInv, SiteWhole, NobodyIn
<1>. QED
  BY <1>2, <1>3 DEF RestoreInv

LEMMA FailRestore ==
  ASSUME CoreInv, RestoreInv, RollbackFails \/ Confirm
  PROVE  RestoreInv'
<1>. USE DEF RollbackFails, Confirm, Cleared
<1>. /\ UNCHANGED <<live, old, cand, accepts, media, record, phase, mailWas, snapshot, pending,
                    gateVars, mailVars, task, mode, reader, latest, crashes>>
     /\ pc \in InRollback \cup {"confirm"} /\ pc' = "leave"
     /\ pc \in InRollback => raised' = TRUE /\ cache' = cache
  OBVIOUS
<1>1. /\ pc \in InRollback => mode # "confirm" /\ phase \in Open
      /\ pc = "confirm" => mode = "confirm" /\ phase = "committed"
  BY DEF CoreInv, PlaceInv
<1>2. SwitchInv'
  BY <1>1 DEF RestoreInv, SwitchInv
<1>3. SiteInv'
  BY <1>1 DEF RestoreInv, SiteInv, SiteWhole, NobodyIn
<1>. QED
  BY <1>2, <1>3 DEF RestoreInv

(* maintenance() opens the site with an open journal only where it is        *)
(* exposed by that.                                                          *)
LEMMA LeaveRestore ==
  ASSUME CoreInv, RestoreInv, ~exposed', LeaveMaintenance \/ Rewrite
  PROVE  RestoreInv'
<1>1. /\ UNCHANGED <<dataVars, phase, snapshot, reader>>
      /\ pc' \in {"rewrite", "failing", "complete", "ready", "publish"}
  BY DEF LeaveMaintenance, AfterLeave, Rewrite
<1>2. phase \in Open => marker'
  <2>1. CASE LeaveMaintenance
    BY <2>1 DEF LeaveMaintenance, KeepsMarker, OpensTooEarly, CoreInv, PlaceInv, TypeOK, RestoreInv, SiteInv
  <2>2. CASE Rewrite
    BY <2>2 DEF Rewrite
  <2>. QED
    BY <2>1, <2>2
<1>3. phase = "rolled_back" /\ marker' => marker
  BY DEF LeaveMaintenance, Rewrite, CoreInv, LockInv, PlaceInv
<1>4. SwitchInv'
  BY <1>1 DEF RestoreInv, SwitchInv
<1>5. SiteInv'
  BY <1>1, <1>2, <1>3 DEF RestoreInv, SiteInv, SiteWhole, NobodyIn
<1>. QED
  BY <1>4, <1>5 DEF RestoreInv

LEMMA SettleRestore ==
  ASSUME CoreInv, RestoreInv, Unstage \/ Complete \/ Failing
  PROVE  RestoreInv'
<1>. USE DEF Unstage, Complete, Failing, Settle, AfterSettle
<1>. /\ UNCHANGED <<live, accepts, media, cache, snapshot, gateVars, reader>>
     /\ pc' \in Idle
  OBVIOUS
<1>1. phase' = "none" /\ phase \notin Open /\ old' = 0
  BY DEF CoreInv, PlaceInv, RestoreInv, SiteInv
<1>. QED
  BY <1>1 DEF RestoreInv, SwitchInv, SiteInv, SiteWhole, NobodyIn

LEMMA RecoverRestore ==
  ASSUME CoreInv, RestoreInv, NEW j \in Jobs, RecoverSwitch(j) \/ RecoverOther(j)
  PROVE  RestoreInv'
<1>. USE DEF RecoverSwitch, RecoverOther, Resumed, Interrupted
<1>1. CASE RecoverSwitch(j)
  <2>. /\ pc' = "mark" /\ mode' \in {"rollback", "confirm"}
       /\ UNCHANGED <<phase, snapshot, dataVars, gateVars, reader>>
    BY <1>1
  <2>. QED
    BY DEF RestoreInv, SwitchInv, SiteInv, SiteWhole, NobodyIn
<1>2. CASE RecoverOther(j)
  <2>. /\ phase' = "none" /\ pc' = "recover"
       /\ UNCHANGED <<live, old, accepts, media, cache, snapshot, reader>>
    BY <1>2
  <2>1. phase \in {"none", "rolled_back"}
    BY <1>2 DEF CoreInv, JobInv, TypeOK, OneActiveJob
  <2>. QED
    BY <2>1 DEF RestoreInv, SwitchInv, SiteInv, SiteWhole, NobodyIn
<1>. QED
  BY <1>1, <1>2

(* What was exposed once stays so.                                           *)
LEMMA ExposedStays == [Next]_vars /\ exposed => exposed'
<1>. SUFFICES ASSUME [Next]_vars, exposed PROVE exposed'
  OBVIOUS
<1>1. CASE LeaveMaintenance
  BY <1>1 DEF LeaveMaintenance
<1>2. CASE ~LeaveMaintenance
  <2>1. UNCHANGED exposed
    BY <1>2 DEF Next, Work, Start, Crash, RetryCleanup, Take, Stage, Unstage, Mark, Drain, Capture, Journal,
           Pause, Apply, CloseLive, RenameLive, RenameCandidate, DeleteMedia, CopyMedia, VerifyRestored,
           Refresh, Commit, TryFails, RollbackDrop, RollbackRename, RollbackOpen, RollbackMedia,
           RollbackCopy, RollbackRefresh, RollbackMail, RollbackDone, RollbackFails, Publish, Complete,
           Failing, Settle, Confirm, Rewrite, RecoverDone, RecoverSwitch, RecoverOther, Resumed, TryStep,
           RollbackStep, Visit, Arrive, AcquireShared, Enter, Leave, Serve, EditDatabase, EditMedia,
           ReaderStep, Enqueue, DeleteBackup, ResumeMail, vars
  <2>. QED
    BY <2>1
<1>. QED
  BY <1>1, <1>2

LEMMA NextRestore == CoreInv /\ RestoreInv /\ [Next]_vars /\ ~exposed' => RestoreInv'
<1>. SUFFICES ASSUME CoreInv, RestoreInv, [Next]_vars, ~exposed' PROVE RestoreInv'
  OBVIOUS
<1>1. CASE Start \/ Crash \/ RetryCleanup \/ RecoverDone \/ Take
  BY <1>1, WorkerRestore
<1>2. CASE Stage \/ Mark \/ Publish
  BY <1>2, StageRestore
<1>3. CASE Drain \/ Capture \/ Journal
  BY <1>3, DrainRestore
<1>4. CASE \/ Pause \/ Apply \/ CloseLive \/ RenameLive \/ RenameCandidate \/ DeleteMedia
           \/ CopyMedia \/ VerifyRestored \/ Refresh \/ Commit \/ TryFails
  BY <1>4, SwitchRestore
<1>5. CASE \/ RollbackDrop \/ RollbackRename \/ RollbackOpen \/ RollbackMedia \/ RollbackCopy
           \/ RollbackRefresh \/ RollbackMail \/ RollbackDone
  BY <1>5, RollbackRestore
<1>6. CASE RollbackFails \/ Confirm
  BY <1>6, FailRestore
<1>7. CASE LeaveMaintenance \/ Rewrite
  BY <1>7, LeaveRestore
<1>8. CASE Unstage \/ Complete \/ Failing
  BY <1>8, SettleRestore
<1>9. CASE \E j \in Jobs : RecoverSwitch(j) \/ RecoverOther(j)
  BY <1>9, RecoverRestore
<1>10. CASE \E r \in Readers : Visit(r)
  BY <1>10, VisitRestore
<1>11. CASE \/ \E j \in Jobs, kind \in {"create", "prepare", "restore"} : Enqueue(j, kind)
            \/ DeleteBackup \/ ResumeMail
  BY <1>11, PagesRestore
<1>12. CASE UNCHANGED vars
  BY <1>12 DEF vars, RestoreInv, SwitchInv, SiteInv, SiteWhole, NobodyIn, Kind
<1>. QED
  BY <1>1, <1>2, <1>3, <1>4, <1>5, <1>6, <1>7, <1>8, <1>9, <1>10, <1>11, <1>12 DEF Next, Work

LEMMA Restore == Spec => []CoreInv /\ [](~exposed => RestoreInv)
<1>. DEFINE IInv == CoreInv /\ (~exposed => RestoreInv)
<1>1. Init => IInv
  BY InitCore, InitRestore
<1>2. IInv /\ [Next]_vars => IInv'
  BY NextCore, NextRestore, ExposedStays
<1>3. Spec => []IInv
  BY <1>1, <1>2, PTL DEF Spec
<1>. QED
  BY <1>3, PTL

(* Whoever access_guard admits finds the database open, with the media of    *)
(* the same version and no cached value of a replaced database, whatever     *)
(* step a crash or an exception hits, until a recovery that failed in phase  *)
(* prepared has lifted the marker (which the code does, see the README).     *)
THEOREM ReadersAreSafe == Spec => []ReadersSeeOneVersion
<1>1. (~exposed => RestoreInv) => ReadersSeeOneVersion
  BY DEF RestoreInv, SiteInv, NobodyIn, SiteWhole, ReadersSeeOneVersion
<1>. QED
  BY <1>1, Restore, PTL

(* As long as the journal leaves a restore open, one of the two databases    *)
(* and the safety copy still hold the state before it, unless that failed    *)
(* recovery let requests edit the site meanwhile.                            *)
THEOREM PreviousStateKept == Spec => []PreviousStateRecoverable
<1>1. (~exposed => RestoreInv) => PreviousStateRecoverable
  BY DEF RestoreInv, SwitchInv, SiteInv, PreviousStateRecoverable
<1>. QED
  BY <1>1, Restore, PTL

(* When maintenance ends, the site is whole: the backup after a committed    *)
(* restore, the state before after a rolled back one, with the exception of  *)
(* the failed recovery that opens it, and of all that follows that.          *)
THEOREM RestoreLeavesNoMixture == Spec => RestoreIsAllOrNothing
<1>. DEFINE AllOrNothing ==
       marker /\ ~marker' /\ ~exposed' /\ (\A r \in Readers : reader[r] # "editing") =>
         /\ Whole'
         /\ phase = "committed" /\ mode = "job" => live' = BackupVersion
         /\ phase = "rolled_back" => live' = snapshot[1]
<1>1. CoreInv /\ (~exposed => RestoreInv) /\ (~exposed => RestoreInv)' /\ [Next]_vars => [AllOrNothing]_vars
  <2>. SUFFICES ASSUME CoreInv, ~exposed => RestoreInv, (~exposed => RestoreInv)', [Next]_vars,
                       marker, ~marker', ~exposed', \A r \in Readers : reader[r] # "editing"
                PROVE  AllOrNothing
    OBVIOUS
  <2>0. RestoreInv /\ RestoreInv'
    BY ExposedStays
  <2>1. LeaveMaintenance \/ \E j \in Jobs : RecoverOther(j)
    BY DEF Next, Work, Start, Crash, RetryCleanup, Take, Stage, Unstage, Mark, Drain, Capture, Journal,
           Pause, Apply, CloseLive, RenameLive, RenameCandidate, DeleteMedia, CopyMedia, VerifyRestored,
           Refresh, Commit, TryFails, RollbackDrop, RollbackRename, RollbackOpen, RollbackMedia,
           RollbackCopy, RollbackRefresh, RollbackMail, RollbackDone, RollbackFails, Publish, Complete,
           Failing, Settle, Confirm, Rewrite, RecoverDone, RecoverSwitch, Resumed, TryStep, RollbackStep,
           Visit, Arrive, AcquireShared, Enter, Leave, Serve, EditDatabase, EditMedia, ReaderStep,
           Enqueue, DeleteBackup, ResumeMail, vars
  <2>2. UNCHANGED <<live, accepts, media, reader>>
    BY <2>1 DEF LeaveMaintenance, RecoverOther
  <2>3. phase \notin Open
    <3>1. CASE LeaveMaintenance
      BY <3>1, <2>0 DEF RestoreInv, SiteInv, LeaveMaintenance
    <3>2. CASE \E j \in Jobs : RecoverOther(j)
      BY <3>2 DEF RecoverOther, Interrupted, CoreInv, JobInv, TypeOK, OneActiveJob
    <3>. QED
      BY <2>1, <3>1, <3>2
  <2>4. Whole'
    BY <2>0, <2>2, <2>3 DEF RestoreInv, SiteInv, SiteWhole, Whole
  <2>5. phase = "committed" /\ mode = "job" => live' = BackupVersion
    <3>1. CASE LeaveMaintenance
      BY <3>1, <2>0, <2>2 DEF RestoreInv, SiteInv, LeaveMaintenance
    <3>2. CASE \E j \in Jobs : RecoverOther(j)
      BY <3>2 DEF RecoverOther, Interrupted, CoreInv, JobInv, TypeOK, OneActiveJob
    <3>. QED
      BY <2>1, <3>1, <3>2
  <2>6. phase = "rolled_back" => live' = snapshot[1]
    BY <2>0, <2>2 DEF RestoreInv, SiteInv
  <2>. QED
    BY <2>4, <2>5, <2>6
<1>. QED
  BY <1>1, Restore, PTL DEF Spec, RestoreIsAllOrNothing
=============================================================================
