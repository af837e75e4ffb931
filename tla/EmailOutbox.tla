----------------------------- MODULE EmailOutbox -----------------------------
(***************************************************************************)
(* The persistent outbox of src/emails: rows of OutgoingEmail, the rounds  *)
(* of process_email_queue that claim and send them, and the admin actions  *)
(* and the account erasure that change rows under a running round.         *)
(*                                                                         *)
(* A round is one call of process_email_queue by one worker.  Every        *)
(* conditional UPDATE of the code is one step; reads that are used later   *)
(* (the stale candidates, the claimed batch, the refreshed row) are kept   *)
(* in the worker's own variables, so that other steps come in between.     *)
(*                                                                         *)
(* Time is relative: delay, ttl and lease hold the ticks still to go until *)
(* scheduled_at, expires_at and lease_expires_at, and 0 means that moment  *)
(* has passed.  Behaviours are thus unbounded in time with finitely many   *)
(* states.                                                                 *)
(***************************************************************************)
EXTENDS Integers, FiniteSets

CONSTANTS
  Mails,        \* the rows that can exist
  Daemons,      \* workers that poll: the mail worker, the inline thread
  Admins,       \* web processes that run "send now" on selected rows
  NoWorker,     \* worker_id = ''
  Sensitive,    \* rows whose template is in SENSITIVE_TEMPLATE_KEYS
  Expiring,     \* rows created with an expires_at
  MaxAttempts,  \* max_attempts of every row
  LeaseTicks,   \* EMAIL_QUEUE_LEASE_TIMEOUT_SECONDS, and the renewed lease
  PauseTicks,   \* delay_seconds of mark_paused
  RetryTicks,   \* wait after attempt n: 60 * 2^(n-1) seconds
  TtlTicks,     \* expires_at - created_at
  MaxResets,    \* bound: successful admin resets of a behaviour
  MaxCrashes    \* bound: worker crashes of a behaviour

Workers == Daemons \cup Admins

ASSUME WorkersAssumption == NoWorker \notin Workers /\ Daemons \cap Admins = {}
ASSUME RowsAssumption == Sensitive \subseteq Mails /\ Expiring \subseteq Mails
ASSUME NumbersAssumption ==
  /\ MaxAttempts \in Nat \ {0} /\ LeaseTicks \in Nat \ {0}
  /\ PauseTicks \in Nat /\ TtlTicks \in Nat
  /\ RetryTicks \in [1..MaxAttempts -> Nat]
  /\ MaxResets \in Nat /\ MaxCrashes \in Nat

VARIABLES
  mail,       \* the table OutgoingEmail, one record per row
  enabled,    \* GeneralEmailSettings.is_enabled
  halted,     \* mail-paused.json or maintenance.json exists
  pc,         \* where each worker is in process_email_queue
  stale,      \* snapshots of stale rows the worker is still to recover
  picked,     \* the rows an admin worker reset and will send now
  batch,      \* claimed rows the worker has not come to yet
  cur,        \* the set holding the row in hand, or {}
  left,       \* ticks left of the lease the worker last renewed itself
  delivered,  \* history: times the SMTP server accepted each row
  resets, crashes

vars == <<mail, enabled, halted, pc, stale, picked, batch, cur, left,
          delivered, resets, crashes>>

Statuses == {"ABSENT", "PENDING", "PROCESSING", "SENT", "FAILED", "EXPIRED", "GONE"}
Steps == {"idle", "recover", "claim", "loop", "renew", "send", "accepted",
          "blocked", "failed"}

Rows == [status: Statuses, attempts: Nat, delay: Nat, ttl: Nat, lease: Nat,
         owner: Workers \cup {NoWorker}, sentAt: BOOLEAN, cleared: BOOLEAN]
Snapshots == [row: Mails, owner: Workers \cup {NoWorker}, attempts: Nat]

NewRow == [status |-> "ABSENT", attempts |-> 0, delay |-> 0, ttl |-> 0,
           owner |-> NoWorker, lease |-> 0, sentAt |-> FALSE, cleared |-> FALSE]

Init ==
  /\ mail = [m \in Mails |-> NewRow]
  /\ enabled \in BOOLEAN /\ halted = FALSE
  /\ pc = [w \in Workers |-> "idle"]
  /\ stale = [w \in Workers |-> {}]
  /\ picked = [w \in Workers |-> {}]
  /\ batch = [w \in Workers |-> {}]
  /\ cur = [w \in Workers |-> {}]
  /\ left = [w \in Workers |-> 0]
  /\ delivered = [m \in Mails |-> 0]
  /\ resets = 0 /\ crashes = 0

-----------------------------------------------------------------------------
(* Rows: the conditional updates of the model OutgoingEmail. *)

Owns(w, m) == mail[m].status = "PROCESSING" /\ mail[m].owner = w /\ ~mail[m].sentAt

(* _cleared_content: what a final status does to a sensitive row. *)
Clear(m) == mail[m].cleared \/ m \in Sensitive

Released(m, s) == [mail[m] EXCEPT !.status = s, !.owner = NoWorker, !.lease = 0]

(* _worker_update: the row changes only while this worker still owns it. *)
WorkerUpdate(w, m, row) ==
  mail' = IF Owns(w, m) THEN [mail EXCEPT ![m] = row] ELSE mail

Paused(m) == [Released(m, "PENDING") EXCEPT !.delay = PauseTicks]

Sent(m) == [Released(m, "SENT") EXCEPT !.sentAt = TRUE, !.cleared = Clear(m)]

Expired(m) == [Released(m, "EXPIRED") EXCEPT !.cleared = Clear(m)]

(* Mutant: the last attempt is only noticed one attempt later. *)
AttemptedOneMore(m, wait) ==
  LET n == mail[m].attempts + 1
  IN  IF n > MaxAttempts
      THEN [Released(m, "FAILED") EXCEPT !.attempts = n, !.cleared = Clear(m)]
      ELSE [Released(m, "PENDING") EXCEPT !.attempts = n, !.delay = wait]

(* One attempt used up; the last one makes the failure final. *)
Attempted(m, wait) ==
  LET n == mail[m].attempts + 1
  IN  IF n >= MaxAttempts
      THEN [Released(m, "FAILED") EXCEPT !.attempts = n, !.cleared = Clear(m)]
      ELSE [Released(m, "PENDING") EXCEPT !.attempts = n, !.delay = wait]

FailedAttempt(m) == Attempted(m, RetryTicks[mail[m].attempts + 1])

-----------------------------------------------------------------------------
(* A round of process_email_queue. *)

Begin(w, next) ==
  /\ pc[w] = "idle" /\ ~halted
  /\ pc' = [pc EXCEPT ![w] = next]

(* Mutant: only a lease that was never set counts as lapsed. *)
IsStaleNever(m) == FALSE

(* The row is PROCESSING and its lease has run out. *)
IsStale(m) == mail[m].status = "PROCESSING" /\ ~mail[m].sentAt /\ mail[m].lease = 0

ReadStale(w) ==
  stale' = [stale EXCEPT ![w] =
    {[row |-> m, owner |-> mail[m].owner, attempts |-> mail[m].attempts] :
       m \in {x \in Mails : IsStale(x)}}]

(* A polling worker starts a round and reads the stale candidates. *)
BeginPoll(w) ==
  /\ w \in Daemons
  /\ Begin(w, "recover") /\ ReadStale(w)
  /\ UNCHANGED <<mail, enabled, halted, picked, batch, cur, left, delivered,
                 resets, crashes>>

(* Mutant: the lease is not compared again when the row is written. *)
RecoverOwnerOnly(s) ==
  /\ mail[s.row].status = "PROCESSING" /\ mail[s.row].owner = s.owner
  /\ mail[s.row].attempts = s.attempts

(* The CAS of mark_stale_recovered: the snapshot must still be the row. *)
RecoverCas(s) ==
  IsStale(s.row) /\ mail[s.row].owner = s.owner /\ mail[s.row].attempts = s.attempts

RecoverStale(w, s) ==
  /\ pc[w] = "recover" /\ s \in stale[w]
  /\ mail' = IF RecoverCas(s) THEN [mail EXCEPT ![s.row] = Attempted(s.row, 0)] ELSE mail
  /\ stale' = [stale EXCEPT ![w] = @ \ {s}]
  /\ UNCHANGED <<enabled, halted, pc, picked, batch, cur, left, delivered,
                 resets, crashes>>

RecoverDone(w) ==
  /\ pc[w] = "recover" /\ stale[w] = {}
  /\ pc' = [pc EXCEPT ![w] = "claim"]
  /\ UNCHANGED <<mail, enabled, halted, stale, picked, batch, cur, left,
                 delivered, resets, crashes>>

Claimable(m) == mail[m].status = "PENDING" /\ ~mail[m].sentAt

Candidates(w) ==
  IF w \in Admins THEN {m \in picked[w] : Claimable(m)}
  ELSE IF enabled THEN {m \in Mails : Claimable(m) /\ mail[m].delay = 0}
  ELSE {}

(* One transaction: select ... for update skip locked, then the update to  *)
(* PROCESSING.  S is what the limit and the rows locked by others leave.   *)
Claim(w) ==
  /\ pc[w] = "claim"
  /\ \E S \in SUBSET Candidates(w) :
       /\ S = {} => Candidates(w) = {}
       /\ mail' = [m \in Mails |->
            IF m \in S THEN [mail[m] EXCEPT !.status = "PROCESSING",
                                            !.owner = w, !.lease = LeaseTicks]
                       ELSE mail[m]]
       /\ batch' = [batch EXCEPT ![w] = S]
  /\ picked' = [picked EXCEPT ![w] = {}]
  /\ pc' = [pc EXCEPT ![w] = "loop"]
  /\ UNCHANGED <<enabled, halted, stale, cur, left, delivered, resets, crashes>>

(* The next claimed row, refreshed: skipped, expired, paused or prepared.  *)
TakeNext(w, m) ==
  /\ pc[w] = "loop" /\ m \in batch[w] /\ mail[m].status # "GONE"
  /\ batch' = [batch EXCEPT ![w] = @ \ {m}]
  /\ \/ /\ ~Owns(w, m)
        /\ UNCHANGED <<mail, pc, cur>>
     \/ /\ Owns(w, m) /\ m \in Expiring /\ mail[m].ttl = 0
        /\ WorkerUpdate(w, m, Expired(m))
        /\ UNCHANGED <<pc, cur>>
     \/ /\ Owns(w, m) /\ ~(m \in Expiring /\ mail[m].ttl = 0) /\ ~enabled
        /\ WorkerUpdate(w, m, Paused(m))
        /\ UNCHANGED <<pc, cur>>
     \/ /\ Owns(w, m) /\ ~(m \in Expiring /\ mail[m].ttl = 0) /\ enabled
        /\ pc' = [pc EXCEPT ![w] = "renew"] /\ cur' = [cur EXCEPT ![w] = {m}]
        /\ UNCHANGED mail
  /\ UNCHANGED <<enabled, halted, stale, picked, left, delivered, resets, crashes>>

(* refresh_from_db of a deleted row raises: the round ends there. *)
TakeGone(w, m) ==
  /\ pc[w] = "loop" /\ m \in batch[w] /\ mail[m].status = "GONE"
  /\ batch' = [batch EXCEPT ![w] = {}]
  /\ pc' = [pc EXCEPT ![w] = "idle"]
  /\ UNCHANGED <<mail, enabled, halted, stale, picked, cur, left, delivered,
                 resets, crashes>>

EndRound(w) ==
  /\ pc[w] = "loop" /\ batch[w] = {}
  /\ pc' = [pc EXCEPT ![w] = "idle"]
  /\ UNCHANGED <<mail, enabled, halted, stale, picked, batch, cur, left,
                 delivered, resets, crashes>>

(* Mutant: the transmission starts whoever owns the row by now. *)
RenewAlways(w, m) == mail[m].status # "GONE"

RenewCas(w, m) == Owns(w, m) /\ mail[m].lease > 0

(* renew_lease right before the transmission, or the row is left alone. *)
RenewLease(w) ==
  /\ pc[w] = "renew"
  /\ \E m \in cur[w] :
       \/ /\ RenewCas(w, m)
          /\ mail' = [mail EXCEPT ![m].lease = LeaseTicks]
          /\ left' = [left EXCEPT ![w] = LeaseTicks]
          /\ pc' = [pc EXCEPT ![w] = "send"]
          /\ UNCHANGED cur
       \/ /\ ~RenewCas(w, m)
          /\ pc' = [pc EXCEPT ![w] = "loop"]
          /\ cur' = [cur EXCEPT ![w] = {}]
          /\ UNCHANGED <<mail, left>>
  /\ UNCHANGED <<enabled, halted, stale, picked, batch, delivered, resets, crashes>>

(* msg.send: accepted; or 0 from a backend that is switched off or not     *)
(* configured; or an exception, before or after the server took the mail.  *)
Transmit(w) ==
  /\ pc[w] = "send"
  /\ \E m \in cur[w] :
       \/ /\ enabled
          /\ delivered' = [delivered EXCEPT ![m] = @ + 1]
          /\ \E r \in {"accepted", "failed"} : pc' = [pc EXCEPT ![w] = r]
       \/ /\ pc' = [pc EXCEPT ![w] = "blocked"]
          /\ UNCHANGED delivered
       \/ /\ enabled
          /\ pc' = [pc EXCEPT ![w] = "failed"]
          /\ UNCHANGED delivered
  /\ UNCHANGED <<mail, enabled, halted, stale, picked, batch, cur, left, resets,
                 crashes>>

(* Mutant: a backend that returned 0 counts as sent. *)
OutcomeZeroIsSent(w, m) == IF pc[w] = "failed" THEN FailedAttempt(m) ELSE Sent(m)

(* mark_sent after an acceptance; mark_failed_attempt after a failure;     *)
(* after a 0 the switch is read again and a pause costs no attempt.        *)
Outcome(w, m) ==
  CASE pc[w] = "accepted" -> Sent(m)
    [] pc[w] = "blocked" /\ ~enabled -> Paused(m)
    [] OTHER -> FailedAttempt(m)

Confirm(w) ==
  /\ pc[w] \in {"accepted", "blocked", "failed"}
  /\ \E m \in cur[w] : WorkerUpdate(w, m, Outcome(w, m))
  /\ pc' = [pc EXCEPT ![w] = "loop"]
  /\ cur' = [cur EXCEPT ![w] = {}]
  /\ left' = [left EXCEPT ![w] = 0]
  /\ UNCHANGED <<enabled, halted, stale, picked, batch, delivered, resets, crashes>>

(* The process dies, or its database connection does: the round is lost.   *)
Crash(w) ==
  /\ pc[w] # "idle" /\ crashes < MaxCrashes
  /\ crashes' = crashes + 1
  /\ pc' = [pc EXCEPT ![w] = "idle"]
  /\ stale' = [stale EXCEPT ![w] = {}]
  /\ picked' = [picked EXCEPT ![w] = {}]
  /\ batch' = [batch EXCEPT ![w] = {}]
  /\ cur' = [cur EXCEPT ![w] = {}]
  /\ left' = [left EXCEPT ![w] = 0]
  /\ UNCHANGED <<mail, enabled, halted, delivered, resets>>

-----------------------------------------------------------------------------
(* Everybody else. *)

(* queue_system_email, committed with the business transaction it is in. *)
Enqueue(m) ==
  /\ mail[m].status = "ABSENT"
  /\ mail' = [mail EXCEPT ![m] = [NewRow EXCEPT !.status = "PENDING",
                !.ttl = IF m \in Expiring THEN TtlTicks ELSE 0]]
  /\ UNCHANGED <<enabled, halted, pc, stale, picked, batch, cur, left, delivered,
                 resets, crashes>>

(* Mutant: a final sensitive row can be queued again, empty. *)
RetryableSecret(m) ==
  mail[m].status \in {"PENDING", "FAILED", "EXPIRED"} /\ ~mail[m].sentAt

(* reset_for_retry: unsent, not in work, and not cleared. *)
Retryable(m) ==
  /\ mail[m].status \in {"PENDING", "FAILED", "EXPIRED"} /\ ~mail[m].sentAt
  /\ m \in Sensitive => mail[m].status = "PENDING"

Reset(S) ==
  mail' = [m \in Mails |-> IF m \in S
    THEN [Released(m, "PENDING") EXCEPT !.delay = 0, !.attempts = 0]
    ELSE mail[m]]

(* "Queue again" on a row. *)
RetryOutgoing(m) ==
  /\ Retryable(m) /\ resets < MaxResets
  /\ Reset({m}) /\ resets' = resets + 1
  /\ UNCHANGED <<enabled, halted, pc, stale, picked, batch, cur, left, delivered,
                 crashes>>

(* "Send now": reset the selected rows, then a round on exactly these.     *)
SendNow(w, S) ==
  /\ w \in Admins /\ S # {} /\ \A m \in S : Retryable(m)
  /\ resets < MaxResets /\ resets' = resets + 1
  /\ Begin(w, "recover") /\ ReadStale(w)
  /\ Reset(S) /\ picked' = [picked EXCEPT ![w] = S]
  /\ UNCHANGED <<enabled, halted, batch, cur, left, delivered, crashes>>

GoneRow == [NewRow EXCEPT !.status = "GONE", !.cleared = TRUE]

(* The clean-up of old rows skips PROCESSING; Django's own "delete         *)
(* selected" takes any row.                                                *)
CleanupOld(m) ==
  /\ mail[m].status \notin {"ABSENT", "GONE", "PROCESSING"}
  /\ mail' = [mail EXCEPT ![m] = GoneRow]
  /\ UNCHANGED <<enabled, halted, pc, stale, picked, batch, cur, left, delivered,
                 resets, crashes>>

DeleteSelected(m) ==
  /\ mail[m].status = "PROCESSING"
  /\ mail' = [mail EXCEPT ![m] = GoneRow]
  /\ UNCHANGED <<enabled, halted, pc, stale, picked, batch, cur, left, delivered,
                 resets, crashes>>

(* _erase_account_messages: the account of the recipient is deleted. *)
EraseAccount(m) ==
  /\ mail[m].status \notin {"ABSENT", "GONE"}
  /\ mail' = [mail EXCEPT ![m] = [Released(m, "EXPIRED") EXCEPT !.cleared = TRUE]]
  /\ UNCHANGED <<enabled, halted, pc, stale, picked, batch, cur, left, delivered,
                 resets, crashes>>

SwitchMail ==
  /\ enabled' = ~enabled
  /\ UNCHANGED <<mail, halted, pc, stale, picked, batch, cur, left, delivered,
                 resets, crashes>>

(* A restore pauses the mail under the exclusive access lock, which every  *)
(* round holds shared until its end; resume_mail lifts the pause.          *)
SwitchHalt ==
  /\ ~halted => \A w \in Workers : pc[w] = "idle"
  /\ halted' = ~halted
  /\ UNCHANGED <<mail, enabled, pc, stale, picked, batch, cur, left, delivered,
                 resets, crashes>>

Less(n) == IF n = 0 THEN 0 ELSE n - 1

Tick ==
  /\ mail' = [m \in Mails |-> [mail[m] EXCEPT !.delay = Less(@), !.ttl = Less(@),
                                              !.lease = Less(@)]]
  /\ left' = [w \in Workers |-> Less(left[w])]
  /\ UNCHANGED <<enabled, halted, pc, stale, picked, batch, cur, delivered, resets,
                 crashes>>

-----------------------------------------------------------------------------
Round(w) ==
  \/ \E s \in stale[w] : RecoverStale(w, s)
  \/ RecoverDone(w)
  \/ Claim(w)
  \/ \E m \in batch[w] : TakeNext(w, m) \/ TakeGone(w, m)
  \/ EndRound(w)
  \/ RenewLease(w)
  \/ Transmit(w)
  \/ Confirm(w)

Outside ==
  \/ \E m \in Mails : Enqueue(m) \/ RetryOutgoing(m) \/ CleanupOld(m)
                      \/ DeleteSelected(m) \/ EraseAccount(m)
  \/ SwitchMail
  \/ SwitchHalt

Next ==
  \/ \E w \in Workers : BeginPoll(w) \/ Round(w) \/ Crash(w)
  \/ \E w \in Workers, S \in SUBSET Mails : SendNow(w, S)
  \/ Outside
  \/ Tick

Spec == Init /\ [][Next]_vars

(* The daemon loop restarts a round at every interval and a round that     *)
(* began comes to its end (sockets and queries have timeouts).             *)
Fairness ==
  /\ WF_vars(Tick)
  /\ \A w \in Daemons : WF_vars(BeginPoll(w)) /\ WF_vars(Round(w))

FairSpec == Spec /\ Fairness
-----------------------------------------------------------------------------
(* The type of the state; no row has more attempts than max_attempts or a   *)
(* lease longer than the one Claim and RenewLease write.                   *)
TypeOK ==
  /\ mail \in [Mails -> Rows]
  /\ \A m \in Mails : mail[m].attempts <= MaxAttempts /\ mail[m].lease <= LeaseTicks
  /\ enabled \in BOOLEAN /\ halted \in BOOLEAN
  /\ pc \in [Workers -> Steps]
  /\ stale \in [Workers -> SUBSET Snapshots]
  /\ picked \in [Workers -> SUBSET Mails]
  /\ batch \in [Workers -> SUBSET Mails]
  /\ cur \in [Workers -> SUBSET Mails]
  /\ left \in [Workers -> Nat]
  /\ delivered \in [Mails -> Nat]
  /\ resets \in Nat /\ crashes \in Nat

(* The worker is between renew_lease and the update that ends the attempt, *)
(* and the lease it renewed has not run out.                               *)
SendsUnderLease(w, m) == m \in cur[w] /\ left[w] > 0

(* Two workers never transmit the same content at a time as long as their  *)
(* leases last: claim, recovery, renewal and the admin reset respect the   *)
(* lease of the other.  Only a row whose content was erased meanwhile can  *)
(* be in two hands.                                                        *)
NoConcurrentSend ==
  \A m \in Mails : \A w1, w2 \in Workers :
    SendsUnderLease(w1, m) /\ SendsUnderLease(w2, m) => w1 = w2 \/ mail[m].cleared

(* The one-time code of a sensitive mail is in the table exactly as long   *)
(* as the mail may still be sent: no final row keeps it, and no row goes   *)
(* back into the queue after it was cleared.                               *)
SecretsExactlyWhileQueued ==
  \A m \in Sensitive : mail[m].status \notin {"ABSENT", "GONE"} =>
    (mail[m].cleared <=> mail[m].status \in {"SENT", "FAILED", "EXPIRED"})

(* After mark_sent succeeded for a row no transmission of it starts: every *)
(* later acceptance is of a worker that was already past renew_lease.      *)
NoSendAfterConfirmation ==
  [][\A w \in Workers, m \in Mails :
       mail[m].sentAt /\ pc[w] # "send" => ~(pc'[w] = "send" /\ m \in cur'[w])]_vars

(* Rows as the recipient sees them. *)
Phase(m) ==
  CASE mail[m].status = "ABSENT" -> "absent"
    [] mail[m].status \in {"PENDING", "PROCESSING"} -> "queued"
    [] mail[m].status = "SENT" -> "sent"
    [] mail[m].status = "FAILED" -> "failed"
    [] mail[m].status = "EXPIRED" -> IF mail[m].sentAt THEN "erased" ELSE "expired"
    [] OTHER -> "gone"

Promise == INSTANCE MailPromise WITH
  phase <- [m \in Mails |-> Phase(m)],
  accepted <- [m \in Mails |-> delivered[m] > 0]

(* The outbox implements its promise: SENT only after an acceptance, and   *)
(* never back into the queue from there.                                   *)
PromiseKept == Promise!Spec

Settled(m) == mail[m].status \in {"SENT", "FAILED", "EXPIRED", "GONE"}

(* A queued mail reaches a final status although workers crash, leases     *)
(* lapse and admins interfere, once the sending is switched on for good.   *)
EventuallySettled ==
  <>[](enabled /\ ~halted) =>
    \A m \in Mails : mail[m].status = "PENDING" ~> Settled(m)
=============================================================================
