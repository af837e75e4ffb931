----------------------------- MODULE GuestPhotos -----------------------------
(* Guest photos (users/services.py): a record and a file of each guest. The  *)
(* file is written before the record is committed and removed after it is    *)
(* gone; a purge works through what it read at its start, beside uploads.    *)
EXTENDS Accounts, FiniteSetsExt

CONSTANTS
  Retention, \* guest_photo_retention_days
  Grace,     \* ORPHAN_GUEST_PHOTO_GRACE; no request lives that long
  MaxTime,   \* bound of the clock
  MaxFiles   \* bound: files at a time

FileNames == 1..MaxFiles

(* A record: its file and the time of the picture.                           *)
Photos == [file : FileNames, captured : 1..MaxTime]

ASSUME PhotosAssumption ==
  /\ Retention \in Nat /\ Grace \in Nat \ {0} /\ MaxTime \in Nat \ {0} /\ MaxFiles \in Nat
  /\ NoOne \notin FileNames \cup Photos

VARIABLES
  photo,   \* each user's record: file and time of the picture
  files,   \* the private storage: the time each file was written, 0 if there is none
  lost,    \* files the storage lost
  upload,  \* the file each user's upload has written and not committed yet
  lastEnd, \* end of the user's last event
  purge,   \* the purge under way
  clock

photoVars == <<photo, files, lost, upload, lastEnd, purge, clock>>

NoPurge == [phase |-> "none", now |-> 0, todo |-> {}, known |-> {}]

PhotosInit ==
  /\ photo = [u \in Users |-> NoOne]
  /\ files = [f \in FileNames |-> 0]
  /\ lost = {}
  /\ upload = [u \in Users |-> NoOne]
  /\ lastEnd = [u \in Users |-> 0]
  /\ purge = NoPurge
  /\ clock = 1

Has(u) == photo[u] # NoOne
Uploading(u) == upload[u] # NoOne
Removed(fs) == [f \in FileNames |-> IF f \in fs THEN 0 ELSE files[f]]
FilesOf(us) == {photo[u].file : u \in {v \in us : Has(v)}}

(* A name nobody uses or remembers: uuid4. *)
FreshFile(f) ==
  /\ files[f] = 0 /\ f \notin lost \cup purge.known
  /\ f \notin FilesOf(Users) \cup {e.file : e \in purge.todo}

(* save_photo: the user's row is locked, the file is written.                *)
BeginUpload(u, f) ==
  /\ ~Uploading(u) /\ FreshFile(f)
  /\ \A g \in 1..(f - 1) : ~FreshFile(g)
  /\ account[u].mail # NoOne /\ ~account[u].deleted
  /\ files' = [files EXCEPT ![f] = clock]
  /\ upload' = [upload EXCEPT ![u] = f]
  /\ UNCHANGED <<photo, lost, lastEnd, purge, clock>>

(* The commit; the replaced file goes after it, unless the process dies.     *)
CommitUpload(u) ==
  /\ Uploading(u)
  /\ photo' = [photo EXCEPT ![u] = [file |-> upload[u], captured |-> files[upload[u]]]]
  /\ upload' = [upload EXCEPT ![u] = NoOne]
  /\ files' \in {files, Removed(FilesOf({u}))}
  /\ UNCHANGED <<lost, lastEnd, purge, clock>>

(* The transaction fails and takes its file back, or dies with it.           *)
AbortUpload(u) ==
  /\ Uploading(u)
  /\ upload' = [upload EXCEPT ![u] = NoOne]
  /\ files' \in {files, Removed({upload[u]})}
  /\ UNCHANGED <<photo, lost, lastEnd, purge, clock>>

(* delete_photo, and the post_delete handler after the commit.               *)
GonePhotos(us) ==
  /\ photo' = [u \in Users |-> IF u \in us THEN NoOne ELSE photo[u]]
  /\ files' \in {files, Removed(FilesOf(us))}

DeletePhoto(u) ==
  /\ Has(u) /\ ~Uploading(u)
  /\ GonePhotos({u})
  /\ UNCHANGED <<lost, upload, lastEnd, purge, clock>>

(* delete_account waits for the row of a user who uploads.                   *)
AccountGone(u) ==
  /\ ~Uploading(u)
  /\ GonePhotos({u})
  /\ UNCHANGED <<lost, upload, lastEnd, purge, clock>>

(* A registration or a cancellation moves the user's last event.             *)
EventMoves(u) ==
  /\ \E t \in {0, MaxTime} : t # lastEnd[u] /\ lastEnd' = [lastEnd EXCEPT ![u] = t]
  /\ UNCHANGED <<photo, files, lost, upload, purge, clock>>

(* A file that is missing, as after a move to another server.                *)
LoseFile(u) ==
  /\ Has(u) /\ files[photo[u].file] # 0 /\ ~Uploading(u)
  /\ files' = Removed({photo[u].file})
  /\ lost' = lost \cup {photo[u].file}
  /\ UNCHANGED <<photo, upload, lastEnd, purge, clock>>

(* An hour or a day; no upload takes Grace.                                  *)
Tick ==
  /\ clock < MaxTime
  /\ \A u \in Users : Uploading(u) => clock + 1 < files[upload[u]] + Grace
  /\ clock' = clock + 1
  /\ UNCHANGED <<photo, files, lost, upload, lastEnd, purge>>

-----------------------------------------------------------------------------
(* purge.                                                                   *)

(* compute_delete_after *)
Deadline(captured, end) == Max({captured, end}) + Retention

PurgeBegin ==
  /\ purge = NoPurge
  /\ purge' = [phase |-> "records", now |-> clock, known |-> {},
               todo |-> {[user |-> u, file |-> photo[u].file, captured |-> photo[u].captured, end |-> lastEnd[u]] :
                         u \in {v \in Users : Has(v)}}]
  /\ UNCHANGED <<photo, files, lost, upload, lastEnd, clock>>

(* One record of the list: expired, or without its file. The row is locked   *)
(* and its captured_at must be the one that was read: a time no other        *)
(* picture has, so that it tells the files apart.                            *)
Condemned(e) == Deadline(e.captured, e.end) <= purge.now \/ files[e.file] = 0

\* Mutant: the purge takes the record the user has now.
StillHas(e) == Has(e.user)

StillThat(e) == Has(e.user) /\ photo[e.user].file = e.file

PurgeRecord(e) ==
  /\ purge.phase = "records" /\ e \in purge.todo
  /\ purge' = [purge EXCEPT !.todo = @ \ {e}]
  /\ \/ ~(Condemned(e) /\ StillThat(e)) /\ UNCHANGED <<photo, files>>
     \/ Condemned(e) /\ StillThat(e) /\ ~Uploading(e.user) /\ GonePhotos({e.user})
  /\ UNCHANGED <<lost, upload, lastEnd, clock>>

(* The names in the records, then those in the storage.                      *)
PurgeKnown ==
  /\ purge.phase = "records" /\ purge.todo = {}
  /\ purge' = [purge EXCEPT !.phase = "files", !.known = FilesOf(Users)]
  /\ UNCHANGED <<photo, files, lost, upload, lastEnd, clock>>

Orphan(f) == files[f] # 0 /\ f \notin purge.known /\ files[f] + Grace <= purge.now

PurgeFiles ==
  /\ purge.phase = "files"
  /\ files' = Removed({f \in FileNames : Orphan(f)})
  /\ purge' = NoPurge
  /\ UNCHANGED <<photo, lost, upload, lastEnd, clock>>

PurgeDies ==
  /\ purge # NoPurge
  /\ purge' = NoPurge
  /\ UNCHANGED <<photo, files, lost, upload, lastEnd, clock>>

PhotosNext(us) ==
  \/ \E u \in us, f \in FileNames : BeginUpload(u, f)
  \/ \E u \in us : CommitUpload(u) \/ AbortUpload(u) \/ DeletePhoto(u) \/ EventMoves(u) \/ LoseFile(u)
  \/ \E e \in purge.todo : PurgeRecord(e)
  \/ Tick \/ PurgeBegin \/ PurgeKnown \/ PurgeFiles \/ PurgeDies

-----------------------------------------------------------------------------

(* A record has its file whatever uploads, deletions and purges run beside   *)
(* each other, a deleted account has no record, and a purge takes only a     *)
(* picture whose own retention is over or whose file is missing.             *)
FilesBacked ==
  \A u \in Users : Has(u) => /\ files[photo[u].file] # 0 \/ photo[u].file \in lost
                             /\ ~account[u].deleted

PurgedRightly ==
  \A u \in Users :
    Has(u) /\ photo'[u] = NoOne /\ purge' # purge
      => photo[u].captured + Retention <= clock \/ photo[u].file \in lost

PhotosKept == []FilesBacked /\ [][PurgedRightly]_photoVars
=============================================================================
