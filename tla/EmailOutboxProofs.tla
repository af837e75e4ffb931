-------------------------- MODULE EmailOutboxProofs --------------------------
(***************************************************************************)
(* Proofs about EmailOutbox for every number of rows and workers and every *)
(* length of leases and waits.                                             *)
(***************************************************************************)
EXTENDS EmailOutbox, TLAPS

(* What is true of a row in the table. *)
RowInv ==
  \A m \in Mails :
    /\ mail[m].status \in {"PENDING", "PROCESSING"} =>
         mail[m].attempts < MaxAttempts /\ ~mail[m].sentAt
    /\ mail[m].status = "FAILED" => ~mail[m].sentAt
    /\ mail[m].status = "SENT" => mail[m].sentAt

(* What a worker holds in each step of its round. *)
WorkInv ==
  \A w \in Workers :
    /\ \A m \in batch[w] \cup cur[w] : mail[m].status # "ABSENT"
    /\ \A m1, m2 \in cur[w] : m1 = m2
    /\ pc[w] \in {"idle", "recover", "claim", "loop"} => cur[w] = {}
    /\ pc[w] \in {"idle", "recover", "claim", "loop", "renew"} => left[w] = 0
    /\ pc[w] = "accepted" => \A m \in cur[w] : delivered[m] > 0

(* A worker inside its own lease owns the row, with that very lease, unless *)
(* the content was erased under it.                                        *)
LeaseInv ==
  \A w \in Workers, m \in Mails :
    SendsUnderLease(w, m) =>
      mail[m].cleared \/ (Owns(w, m) /\ mail[m].lease = left[w])

IInv == TypeOK /\ RowInv /\ WorkInv /\ LeaseInv


USE WorkersAssumption, RowsAssumption, NumbersAssumption
    DEF WorkersAssumption, RowsAssumption, NumbersAssumption

(* What the conditional updates write: a row that nobody owns, with the    *)
(* content at least as cleared as before.                                  *)
UpdateOf(m, r) ==
  /\ r \in Rows /\ r.attempts <= MaxAttempts /\ r.lease = 0
  /\ r.status \in {"PENDING", "SENT", "FAILED", "EXPIRED"}
  /\ r.status = "PENDING" => r.attempts < MaxAttempts /\ ~r.sentAt
  /\ r.status = "FAILED" => ~r.sentAt
  /\ r.status = "SENT" => r.sentAt
  /\ mail[m].cleared => r.cleared

LEMMA AttemptedUpdates ==
  ASSUME TypeOK, NEW m \in Mails, NEW wait \in Nat,
         mail[m].attempts < MaxAttempts, ~mail[m].sentAt
  PROVE  UpdateOf(m, Attempted(m, wait))
<1>. DEFINE n == mail[m].attempts + 1
<1>1. mail[m] \in Rows /\ n \in Nat /\ n <= MaxAttempts
  BY DEF TypeOK, Rows
<1>2. CASE n >= MaxAttempts
  <2>1. Attempted(m, wait) =
          [Released(m, "FAILED") EXCEPT !.attempts = n, !.cleared = Clear(m)]
    BY <1>2 DEF Attempted
  <2>. QED
    <3>. DEFINE r == [Released(m, "FAILED") EXCEPT !.attempts = n, !.cleared = Clear(m)]
    <3>1. r \in Rows
      BY <1>1 DEF Released, Rows, Clear, Statuses
    <3>2. /\ r.attempts = n /\ r.lease = 0 /\ r.status = "FAILED"
          /\ r.sentAt = mail[m].sentAt /\ r.cleared = Clear(m)
      BY <1>1 DEF Released, Rows
    <3>. HIDE DEF r
    <3>3. UpdateOf(m, r)
      BY <1>1, <3>1, <3>2 DEF UpdateOf, Clear
    <3>. QED
      BY <2>1, <3>3 DEF r
<1>3. CASE ~(n >= MaxAttempts)
  <2>1. Attempted(m, wait) =
          [Released(m, "PENDING") EXCEPT !.attempts = n, !.delay = wait]
    BY <1>3 DEF Attempted
  <2>. QED
    <3>. DEFINE r == [Released(m, "PENDING") EXCEPT !.attempts = n, !.delay = wait]
    <3>1. r \in Rows
      BY <1>1 DEF Released, Rows, Statuses
    <3>2. /\ r.attempts = n /\ r.lease = 0 /\ r.status = "PENDING"
          /\ r.sentAt = mail[m].sentAt /\ r.cleared = mail[m].cleared
      BY <1>1 DEF Released, Rows
    <3>. HIDE DEF r
    <3>3. UpdateOf(m, r)
      BY <1>1, <1>3, <3>1, <3>2 DEF UpdateOf
    <3>. QED
      BY <2>1, <3>3 DEF r
<1>. QED
  BY <1>2, <1>3

LEMMA OwnedUpdates ==
  ASSUME TypeOK, RowInv, NEW m \in Mails, NEW w \in Workers, Owns(w, m)
  PROVE  /\ UpdateOf(m, Paused(m)) /\ UpdateOf(m, Sent(m)) /\ UpdateOf(m, Expired(m))
         /\ UpdateOf(m, FailedAttempt(m))
<1>1. mail[m] \in Rows /\ mail[m].attempts <= MaxAttempts
  BY DEF TypeOK
<1>2. mail[m].attempts < MaxAttempts /\ ~mail[m].sentAt
  BY DEF Owns, RowInv
<1>3. UpdateOf(m, Paused(m)) /\ UpdateOf(m, Sent(m)) /\ UpdateOf(m, Expired(m))
  BY <1>1, <1>2 DEF UpdateOf, Paused, Sent, Expired, Released, Rows, Clear, Statuses
<1>4. RetryTicks[mail[m].attempts + 1] \in Nat
  BY <1>1, <1>2 DEF Rows
<1>5. UpdateOf(m, FailedAttempt(m))
  BY <1>2, <1>4, AttemptedUpdates DEF FailedAttempt
<1>. QED
  BY <1>3, <1>5

(* An update of one row by its owner or after its lease keeps what is true  *)
(* of rows and leases, whatever the worker does with its own variables.    *)
LEMMA UpdateKeeps ==
  ASSUME IInv, NEW m \in Mails, NEW r, UpdateOf(m, r),
         mail' = [mail EXCEPT ![m] = r],
         NEW w \in Workers,
         \A v \in Workers \ {w} : cur'[v] = cur[v] /\ left'[v] = left[v],
         left'[w] = 0,
         \A v \in Workers \ {w} : SendsUnderLease(v, m) => mail[m].cleared
  PROVE  /\ mail' \in [Mails -> Rows]
         /\ \A x \in Mails : mail'[x].attempts <= MaxAttempts /\ mail'[x].lease <= LeaseTicks
         /\ RowInv' /\ LeaseInv'
<1>1. mail' \in [Mails -> Rows]
  BY DEF IInv, TypeOK, UpdateOf
<1>2. \A x \in Mails : mail'[x].attempts <= MaxAttempts /\ mail'[x].lease <= LeaseTicks
  BY DEF IInv, TypeOK, UpdateOf
<1>3. RowInv'
  BY DEF IInv, TypeOK, RowInv, UpdateOf
<1>4. LeaseInv'
  <2>. SUFFICES ASSUME NEW v \in Workers, NEW x \in Mails, SendsUnderLease(v, x)'
                PROVE  (mail[x].cleared \/ (Owns(v, x) /\ mail[x].lease = left[v]))'
    BY DEF LeaseInv
  <2>1. v # w /\ SendsUnderLease(v, x)
    BY DEF SendsUnderLease
  <2>2. CASE x = m
    BY <2>1, <2>2 DEF IInv, TypeOK, UpdateOf
  <2>3. CASE x # m
    BY <2>1, <2>3 DEF IInv, TypeOK, LeaseInv, Owns
  <2>. QED
    BY <2>2, <2>3
<1>. QED
  BY <1>1, <1>2, <1>3, <1>4

LEMMA InitIInv == Init => IInv
<1>. SUFFICES ASSUME Init PROVE IInv
  OBVIOUS
<1>1. NewRow \in Rows
  BY DEF NewRow, Rows, Statuses
<1>2. TypeOK
  <2>1. /\ mail \in [Mails -> Rows] /\ enabled \in BOOLEAN /\ halted \in BOOLEAN
        /\ \A m \in Mails : mail[m].attempts <= MaxAttempts /\ mail[m].lease <= LeaseTicks
    <3>1. mail = [m \in Mails |-> NewRow] /\ enabled \in BOOLEAN /\ halted = FALSE
      BY DEF Init
    <3>2. NewRow.attempts <= MaxAttempts /\ NewRow.lease <= LeaseTicks
      BY DEF NewRow
    <3>. QED
      BY <1>1, <3>1, <3>2
  <2>2. /\ pc \in [Workers -> Steps] /\ stale \in [Workers -> SUBSET Snapshots]
        /\ picked \in [Workers -> SUBSET Mails] /\ batch \in [Workers -> SUBSET Mails]
        /\ cur \in [Workers -> SUBSET Mails] /\ left \in [Workers -> Nat]
    BY DEF Init, Steps
  <2>3. delivered \in [Mails -> Nat] /\ resets \in Nat /\ crashes \in Nat
    BY DEF Init
  <2>. QED
    BY <2>1, <2>2, <2>3 DEF TypeOK
<1>3. RowInv /\ WorkInv /\ LeaseInv
  BY DEF Init, RowInv, WorkInv, LeaseInv, SendsUnderLease, NewRow
<1>. QED
  BY <1>2, <1>3 DEF IInv

LEMMA BeginPollIInv ==
  ASSUME IInv, NEW w \in Workers, BeginPoll(w)
  PROVE  IInv'
<1>1. TypeOK'
  BY DEF IInv, TypeOK, BeginPoll, Begin, ReadStale, Snapshots, Rows, Steps, IsStale
<1>2. RowInv' /\ WorkInv' /\ LeaseInv'
  BY DEF IInv, TypeOK, RowInv, WorkInv, LeaseInv, BeginPoll, Begin, SendsUnderLease, Owns
<1>. QED
  BY <1>1, <1>2 DEF IInv

LEMMA RecoverStaleIInv ==
  ASSUME IInv, NEW w \in Workers, NEW s \in stale[w], RecoverStale(w, s)
  PROVE  IInv'
<1>1. s \in Snapshots /\ s.row \in Mails
  BY DEF IInv, TypeOK, Snapshots
<1>2. CASE ~RecoverCas(s)
  <2>1. TypeOK'
    BY <1>2 DEF IInv, TypeOK, RecoverStale
  <2>2. RowInv' /\ WorkInv' /\ LeaseInv'
    BY <1>2 DEF IInv, TypeOK, RowInv, WorkInv, LeaseInv, RecoverStale, SendsUnderLease, Owns
  <2>. QED
    BY <2>1, <2>2 DEF IInv
<1>3. CASE RecoverCas(s)
  <2>. DEFINE m == s.row
              r == Attempted(m, 0)
  <2>1. mail[m].attempts < MaxAttempts /\ mail[m].lease = 0 /\ ~mail[m].sentAt
    BY <1>1, <1>3 DEF IInv, RowInv, RecoverCas, IsStale
  <2>2. mail' = [mail EXCEPT ![m] = r]
    BY <1>3 DEF RecoverStale
  <2>3. UpdateOf(m, r)
    BY <2>1, <1>1, AttemptedUpdates DEF IInv
  <2>4. \A v \in Workers : SendsUnderLease(v, m) => mail[m].cleared
    BY <1>1, <2>1 DEF IInv, LeaseInv, SendsUnderLease
  <2>5. left[w] = 0
    BY DEF RecoverStale, IInv, WorkInv
  <2>6. cur' = cur /\ left' = left
    BY DEF RecoverStale
  <2>7. /\ mail' \in [Mails -> Rows] /\ RowInv' /\ LeaseInv'
        /\ \A x \in Mails : mail'[x].attempts <= MaxAttempts /\ mail'[x].lease <= LeaseTicks
    BY <1>1, <2>2, <2>3, <2>4, <2>5, <2>6, UpdateKeeps
  <2>8. TypeOK'
    BY <2>7 DEF IInv, TypeOK, RecoverStale
  <2>9. WorkInv'
    BY <1>1, <2>2, <2>3 DEF IInv, TypeOK, WorkInv, RecoverStale, UpdateOf
  <2>. QED
    BY <2>7, <2>8, <2>9 DEF IInv
<1>. QED
  BY <1>2, <1>3

LEMMA RecoverDoneIInv ==
  ASSUME IInv, NEW w \in Workers, RecoverDone(w)
  PROVE  IInv'
BY DEF IInv, TypeOK, RowInv, WorkInv, LeaseInv, RecoverDone, SendsUnderLease, Owns, Steps

LEMMA ClaimIInv ==
  ASSUME IInv, NEW w \in Workers, Claim(w)
  PROVE  IInv'
<1>1. PICK S \in SUBSET Candidates(w) :
        /\ mail' = [m \in Mails |->
             IF m \in S THEN [mail[m] EXCEPT !.status = "PROCESSING",
                                             !.owner = w, !.lease = LeaseTicks]
                        ELSE mail[m]]
        /\ batch' = [batch EXCEPT ![w] = S]
  BY DEF Claim
<1>2. S \subseteq Mails /\ \A m \in S : mail[m].status = "PENDING" /\ ~mail[m].sentAt
  BY DEF Candidates, Claimable, IInv, TypeOK
<1>3. \A m \in S : /\ mail'[m] \in Rows /\ mail'[m].status = "PROCESSING"
                   /\ mail'[m].attempts = mail[m].attempts /\ mail'[m].lease = LeaseTicks
                   /\ mail'[m].sentAt = mail[m].sentAt /\ mail'[m].cleared = mail[m].cleared
  <2>. SUFFICES ASSUME NEW m \in S
                PROVE  /\ mail'[m] \in Rows /\ mail'[m].status = "PROCESSING"
                       /\ mail'[m].attempts = mail[m].attempts
                       /\ mail'[m].lease = LeaseTicks
                       /\ mail'[m].sentAt = mail[m].sentAt
                       /\ mail'[m].cleared = mail[m].cleared
    OBVIOUS
  <2>1. mail[m] \in Rows
    BY <1>2 DEF IInv, TypeOK
  <2>2. mail'[m] = [mail[m] EXCEPT !.status = "PROCESSING", !.owner = w, !.lease = LeaseTicks]
    BY <1>1, <1>2
  <2>. QED
    BY <2>1, <2>2 DEF Rows, Statuses
<1>4. \A m \in Mails \ S : mail'[m] = mail[m]
  BY <1>1
<1>5. mail' \in [Mails -> Rows]
  <2>1. DOMAIN mail' = Mails /\ mail' = [m \in Mails |-> mail'[m]]
    BY <1>1
  <2>2. \A m \in Mails : mail'[m] \in Rows
    BY <1>3, <1>4 DEF IInv, TypeOK
  <2>. QED
    BY <2>1, <2>2
<1>6. TypeOK'
  <2>1. \A m \in Mails : mail'[m].attempts <= MaxAttempts /\ mail'[m].lease <= LeaseTicks
    BY <1>3, <1>4 DEF IInv, TypeOK
  <2>2. batch' \in [Workers -> SUBSET Mails] /\ picked' \in [Workers -> SUBSET Mails]
    BY <1>1, <1>2 DEF IInv, TypeOK, Claim
  <2>3. pc' \in [Workers -> Steps]
    BY DEF IInv, TypeOK, Claim, Steps
  <2>. QED
    BY <1>5, <2>1, <2>2, <2>3 DEF IInv, TypeOK, Claim
<1>7. RowInv'
  BY <1>2, <1>3, <1>4 DEF IInv, RowInv
<1>8. WorkInv'
  <2>1. \A m \in Mails : mail[m].status # "ABSENT" => mail'[m].status # "ABSENT"
    BY <1>3, <1>4
  <2>2. \A v \in Workers : \A m \in batch'[v] \cup cur'[v] : mail'[m].status # "ABSENT"
    <3>1. batch' = [batch EXCEPT ![w] = S] /\ cur' = cur
      BY <1>1 DEF Claim
    <3>. QED
      BY <1>2, <1>3, <2>1, <3>1 DEF IInv, TypeOK, WorkInv
  <2>. QED
    BY <2>2 DEF IInv, TypeOK, WorkInv, Claim
<1>9. LeaseInv'
  <2>1. \A v \in Workers, m \in S : SendsUnderLease(v, m) => mail[m].cleared
    BY <1>2 DEF IInv, LeaseInv, Owns
  <2>. SUFFICES ASSUME NEW v \in Workers, NEW m \in Mails, SendsUnderLease(v, m)'
                PROVE  (mail[m].cleared \/ (Owns(v, m) /\ mail[m].lease = left[v]))'
    BY DEF LeaseInv
  <2>2. SendsUnderLease(v, m) /\ left'[v] = left[v]
    BY DEF Claim, SendsUnderLease
  <2>. QED
    BY <1>3, <1>4, <2>1, <2>2 DEF IInv, LeaseInv, Owns
<1>. QED
  BY <1>6, <1>7, <1>8, <1>9 DEF IInv
(* An owner's conditional update outside a transmission: the row leaves its *)
(* hands, every other lease stays what it was.                             *)
LEMMA OwnerUpdateKeeps ==
  ASSUME IInv, NEW m \in Mails, NEW w \in Workers, NEW r, Owns(w, m), UpdateOf(m, r),
         mail' = [mail EXCEPT ![m] = r],
         \A v \in Workers \ {w} : cur'[v] = cur[v] /\ left'[v] = left[v],
         left'[w] = 0
  PROVE  /\ mail' \in [Mails -> Rows]
         /\ \A x \in Mails : mail'[x].attempts <= MaxAttempts /\ mail'[x].lease <= LeaseTicks
         /\ RowInv' /\ LeaseInv'
<1>1. \A v \in Workers \ {w} : SendsUnderLease(v, m) => mail[m].cleared
  BY DEF IInv, LeaseInv, Owns
<1>. QED
  BY <1>1, UpdateKeeps

LEMMA TakeNextIInv ==
  ASSUME IInv, NEW w \in Workers, NEW m \in batch[w], TakeNext(w, m)
  PROVE  IInv'
<1>1. m \in Mails /\ pc[w] = "loop" /\ cur[w] = {} /\ left[w] = 0
  BY DEF IInv, TypeOK, WorkInv, TakeNext
<1>2. /\ batch' = [batch EXCEPT ![w] = @ \ {m}]
      /\ UNCHANGED <<enabled, halted, stale, picked, left, delivered, resets, crashes>>
  BY DEF TakeNext
<1>3. ASSUME UNCHANGED mail,
             \/ UNCHANGED <<pc, cur>>
             \/ pc' = [pc EXCEPT ![w] = "renew"] /\ cur' = [cur EXCEPT ![w] = {m}]
      PROVE  IInv'
  <2>1. /\ pc' \in [Workers -> Steps] /\ cur' \in [Workers -> SUBSET Mails]
        /\ batch' \in [Workers -> SUBSET Mails]
    <3>1. batch' \in [Workers -> SUBSET Mails]
      BY <1>2 DEF IInv, TypeOK
    <3>2. CASE UNCHANGED <<pc, cur>>
      BY <3>1, <3>2 DEF IInv, TypeOK
    <3>3. CASE pc' = [pc EXCEPT ![w] = "renew"] /\ cur' = [cur EXCEPT ![w] = {m}]
      BY <1>1, <3>1, <3>3 DEF IInv, TypeOK, Steps
    <3>. QED
      BY <1>3, <3>2, <3>3
  <2>2. TypeOK'
    BY <1>2, <1>3, <2>1 DEF IInv, TypeOK
  <2>3. WorkInv'
    BY <1>1, <1>2, <1>3 DEF IInv, TypeOK, WorkInv
  <2>4. RowInv'
    BY <1>3 DEF IInv, RowInv
  <2>5. LeaseInv'
    <3>1. \A v \in Workers, x \in Mails : SendsUnderLease(v, x)' => SendsUnderLease(v, x)
      <4>1. \A v \in Workers : v # w => cur'[v] = cur[v]
        BY <1>3 DEF IInv, TypeOK
      <4>2. left' = left
        BY <1>2
      <4>. QED
        BY <1>1, <4>1, <4>2 DEF SendsUnderLease
    <3>. QED
      BY <1>2, <1>3, <3>1 DEF IInv, LeaseInv, Owns
  <2>. QED
    BY <2>2, <2>3, <2>4, <2>5 DEF IInv
<1>4. ASSUME Owns(w, m), NEW r, UpdateOf(m, r), WorkerUpdate(w, m, r), UNCHANGED <<pc, cur>>
      PROVE  IInv'
  <2>1. mail' = [mail EXCEPT ![m] = r]
    BY <1>4 DEF WorkerUpdate
  <2>2. /\ mail' \in [Mails -> Rows] /\ RowInv' /\ LeaseInv'
        /\ \A x \in Mails : mail'[x].attempts <= MaxAttempts /\ mail'[x].lease <= LeaseTicks
    BY <1>1, <1>2, <1>4, <2>1, OwnerUpdateKeeps
  <2>3. TypeOK'
    BY <1>1, <1>2, <1>4, <2>2 DEF IInv, TypeOK
  <2>4. WorkInv'
    BY <1>1, <1>2, <1>4, <2>1 DEF IInv, TypeOK, WorkInv, UpdateOf
  <2>. QED
    BY <2>2, <2>3, <2>4 DEF IInv
<1>5. Owns(w, m) => UpdateOf(m, Expired(m)) /\ UpdateOf(m, Paused(m))
  BY <1>1, OwnedUpdates DEF IInv
<1>. QED
  BY <1>3, <1>4, <1>5 DEF TakeNext

LEMMA LeaveRoundIInv ==
  ASSUME IInv, NEW w \in Workers,
         (\E m \in batch[w] : TakeGone(w, m)) \/ EndRound(w)
  PROVE  IInv'
<1>1. /\ pc[w] = "loop" /\ pc' = [pc EXCEPT ![w] = "idle"]
      /\ batch' = [batch EXCEPT ![w] = {}] \/ batch' = batch
      /\ UNCHANGED <<mail, enabled, halted, stale, picked, cur, left, delivered,
                     resets, crashes>>
  BY DEF TakeGone, EndRound
<1>2. TypeOK'
  BY <1>1 DEF IInv, TypeOK, Steps
<1>3. WorkInv'
  BY <1>1 DEF IInv, TypeOK, WorkInv
<1>4. RowInv' /\ LeaseInv'
  BY <1>1 DEF IInv, RowInv, LeaseInv, SendsUnderLease, Owns
<1>. QED
  BY <1>2, <1>3, <1>4 DEF IInv

LEMMA RenewLeaseIInv ==
  ASSUME IInv, NEW w \in Workers, RenewLease(w)
  PROVE  IInv'
<1>1. /\ pc[w] = "renew" /\ left[w] = 0
      /\ UNCHANGED <<enabled, halted, stale, picked, batch, delivered, resets, crashes>>
  BY DEF RenewLease, IInv, WorkInv
<1>2. PICK m \in cur[w] :
        \/ /\ RenewCas(w, m)
           /\ mail' = [mail EXCEPT ![m].lease = LeaseTicks]
           /\ left' = [left EXCEPT ![w] = LeaseTicks]
           /\ pc' = [pc EXCEPT ![w] = "send"]
           /\ UNCHANGED cur
        \/ /\ ~RenewCas(w, m)
           /\ pc' = [pc EXCEPT ![w] = "loop"]
           /\ cur' = [cur EXCEPT ![w] = {}]
           /\ UNCHANGED <<mail, left>>
  BY DEF RenewLease
<1>3. m \in Mails /\ mail[m] \in Rows
  BY DEF IInv, TypeOK
<1>4. CASE ~RenewCas(w, m)
  <2>1. /\ pc' = [pc EXCEPT ![w] = "loop"] /\ cur' = [cur EXCEPT ![w] = {}]
        /\ UNCHANGED <<mail, left>>
    BY <1>2, <1>4
  <2>2. TypeOK'
    BY <1>1, <2>1 DEF IInv, TypeOK, Steps
  <2>3. WorkInv'
    BY <1>1, <2>1 DEF IInv, TypeOK, WorkInv
  <2>4. RowInv' /\ LeaseInv'
    BY <1>1, <2>1 DEF IInv, TypeOK, RowInv, LeaseInv, SendsUnderLease, Owns
  <2>. QED
    BY <2>2, <2>3, <2>4 DEF IInv
<1>5. CASE RenewCas(w, m)
  <2>. DEFINE r == [mail[m] EXCEPT !.lease = LeaseTicks]
  <2>1. /\ r \in Rows /\ r.attempts = mail[m].attempts /\ r.lease = LeaseTicks
        /\ r.sentAt = mail[m].sentAt /\ r.cleared = mail[m].cleared
        /\ r.status = mail[m].status /\ r.owner = mail[m].owner
    BY <1>3 DEF Rows
  <2>2. mail' = [mail EXCEPT ![m] = r] /\ mail'[m] = r
    BY <1>2, <1>3, <1>5 DEF IInv, TypeOK
  <2>. HIDE DEF r
  <2>0. /\ left' = [left EXCEPT ![w] = LeaseTicks] /\ pc' = [pc EXCEPT ![w] = "send"]
        /\ UNCHANGED cur
    BY <1>2, <1>5
  <2>3. TypeOK'
    <3>1. /\ mail' \in [Mails -> Rows]
          /\ \A x \in Mails : mail'[x].attempts <= MaxAttempts /\ mail'[x].lease <= LeaseTicks
      BY <1>3, <2>1, <2>2 DEF IInv, TypeOK
    <3>. QED
      BY <1>1, <2>0, <3>1 DEF IInv, TypeOK, Steps
  <2>4. WorkInv'
    <3>1. \A x \in Mails : mail'[x].status = mail[x].status
      BY <1>3, <2>1, <2>2 DEF IInv, TypeOK
    <3>. QED
      BY <1>1, <2>0, <3>1 DEF IInv, TypeOK, WorkInv
  <2>5. RowInv'
    BY <1>3, <2>1, <2>2 DEF IInv, TypeOK, RowInv
  <2>6. LeaseInv'
    <3>. SUFFICES ASSUME NEW v \in Workers, NEW x \in Mails, SendsUnderLease(v, x)'
                  PROVE  (mail[x].cleared \/ (Owns(v, x) /\ mail[x].lease = left[v]))'
      BY DEF LeaseInv
    <3>1. CASE v = w
      <4>1. x = m
        BY <1>2, <1>5, <3>1 DEF SendsUnderLease, IInv, WorkInv
      <4>. QED
        BY <1>2, <1>5, <2>1, <2>2, <3>1, <4>1 DEF RenewCas, Owns, IInv, TypeOK
    <3>2. CASE v # w
      <4>1. SendsUnderLease(v, x) /\ left'[v] = left[v]
        BY <1>2, <1>5, <3>2 DEF SendsUnderLease, IInv, TypeOK
      <4>2. CASE x = m
        BY <1>5, <2>1, <2>2, <3>2, <4>1, <4>2 DEF IInv, LeaseInv, RenewCas, Owns
      <4>3. CASE x # m
        BY <2>2, <4>1, <4>3 DEF IInv, TypeOK, LeaseInv, Owns
      <4>. QED
        BY <4>2, <4>3
    <3>. QED
      BY <3>1, <3>2
  <2>. QED
    BY <2>3, <2>4, <2>5, <2>6 DEF IInv
<1>. QED
  BY <1>4, <1>5

LEMMA TransmitIInv ==
  ASSUME IInv, NEW w \in Workers, Transmit(w)
  PROVE  IInv'
<1>1. /\ pc[w] = "send"
      /\ UNCHANGED <<mail, enabled, halted, stale, picked, batch, cur, left, resets, crashes>>
  BY DEF Transmit
<1>2. PICK m \in cur[w] :
        \/ /\ delivered' = [delivered EXCEPT ![m] = @ + 1]
           /\ \E r \in {"accepted", "failed"} : pc' = [pc EXCEPT ![w] = r]
        \/ /\ \E r \in {"blocked", "failed"} : pc' = [pc EXCEPT ![w] = r]
           /\ UNCHANGED delivered
  BY DEF Transmit
<1>6. /\ m \in Mails
      /\ delivered' = [delivered EXCEPT ![m] = delivered[m] + 1] \/ delivered' = delivered
  BY <1>2 DEF IInv, TypeOK
<1>3. TypeOK'
  <2>1. delivered' \in [Mails -> Nat]
    BY <1>6 DEF IInv, TypeOK
  <2>2. pc' \in [Workers -> Steps]
    <3>1. PICK r \in {"accepted", "blocked", "failed"} : pc' = [pc EXCEPT ![w] = r]
      BY <1>2
    <3>. QED
      BY <3>1 DEF IInv, TypeOK, Steps
  <2>. QED
    BY <1>1, <2>1, <2>2 DEF IInv, TypeOK
<1>4. WorkInv'
  <2>1. \A x \in Mails : delivered[x] > 0 => delivered'[x] > 0
    <3>1. delivered \in [Mails -> Nat]
      BY DEF IInv, TypeOK
    <3>2. CASE delivered' = [delivered EXCEPT ![m] = delivered[m] + 1]
      BY <1>6, <3>1, <3>2
    <3>. QED
      BY <1>6, <3>2
  <2>2. /\ \A v \in Workers \ {w} : pc'[v] = pc[v]
        /\ pc'[w] \in {"accepted", "blocked", "failed"}
        /\ pc'[w] = "accepted" => delivered'[m] > 0
    <3>1. CASE /\ delivered' = [delivered EXCEPT ![m] = @ + 1]
               /\ \E r \in {"accepted", "failed"} : pc' = [pc EXCEPT ![w] = r]
      BY <1>6, <3>1 DEF IInv, TypeOK
    <3>2. CASE /\ \E r \in {"blocked", "failed"} : pc' = [pc EXCEPT ![w] = r]
               /\ UNCHANGED delivered
      BY <3>2 DEF IInv, TypeOK
    <3>. QED
      BY <1>2, <3>1, <3>2
  <2>3. \A x \in cur[w] : x = m
    BY DEF IInv, WorkInv
  <2>. QED
    BY <1>1, <2>1, <2>2, <2>3 DEF IInv, TypeOK, WorkInv
<1>5. RowInv' /\ LeaseInv'
  BY <1>1 DEF IInv, RowInv, LeaseInv, SendsUnderLease, Owns
<1>. QED
  BY <1>3, <1>4, <1>5 DEF IInv

LEMMA ConfirmIInv ==
  ASSUME IInv, NEW w \in Workers, Confirm(w)
  PROVE  IInv'
<1>1. /\ pc' = [pc EXCEPT ![w] = "loop"]
      /\ cur' = [cur EXCEPT ![w] = {}] /\ left' = [left EXCEPT ![w] = 0]
      /\ UNCHANGED <<enabled, halted, stale, picked, batch, delivered, resets, crashes>>
  BY DEF Confirm
<1>2. PICK m \in cur[w] : WorkerUpdate(w, m, Outcome(w, m))
  BY DEF Confirm
<1>3. m \in Mails
  BY DEF IInv, TypeOK
<1>4. CASE ~Owns(w, m)
  <2>1. UNCHANGED mail
    BY <1>2, <1>4 DEF WorkerUpdate
  <2>2. TypeOK'
    BY <1>1, <2>1 DEF IInv, TypeOK, Steps
  <2>3. WorkInv'
    BY <1>1, <2>1 DEF IInv, TypeOK, WorkInv
  <2>4. RowInv' /\ LeaseInv'
    BY <1>1, <2>1 DEF IInv, TypeOK, RowInv, LeaseInv, SendsUnderLease, Owns
  <2>. QED
    BY <2>2, <2>3, <2>4 DEF IInv
<1>5. CASE Owns(w, m)
  <2>. DEFINE r == Outcome(w, m)
  <2>1. UpdateOf(m, r)
    BY <1>3, <1>5, OwnedUpdates DEF Outcome, IInv
  <2>. HIDE DEF r
  <2>2. mail' = [mail EXCEPT ![m] = r]
    BY <1>2, <1>5 DEF WorkerUpdate, r
  <2>3. /\ mail' \in [Mails -> Rows] /\ RowInv' /\ LeaseInv'
        /\ \A x \in Mails : mail'[x].attempts <= MaxAttempts /\ mail'[x].lease <= LeaseTicks
    <3>1. left'[w] = 0 /\ \A v \in Workers \ {w} : cur'[v] = cur[v] /\ left'[v] = left[v]
      BY <1>1 DEF IInv, TypeOK
    <3>. QED
      BY <1>3, <1>5, <2>1, <2>2, <3>1, OwnerUpdateKeeps
  <2>4. TypeOK'
    BY <1>1, <2>3 DEF IInv, TypeOK, Steps
  <2>5. WorkInv'
    BY <1>1, <1>3, <2>1, <2>2 DEF IInv, TypeOK, WorkInv, UpdateOf
  <2>. QED
    BY <2>3, <2>4, <2>5 DEF IInv
<1>. QED
  BY <1>4, <1>5

LEMMA CrashIInv ==
  ASSUME IInv, NEW w \in Workers, Crash(w)
  PROVE  IInv'
<1>1. TypeOK'
  BY DEF IInv, TypeOK, Crash, Steps
<1>2. WorkInv'
  BY DEF IInv, TypeOK, WorkInv, Crash
<1>3. RowInv' /\ LeaseInv'
  BY DEF IInv, TypeOK, RowInv, LeaseInv, Crash, SendsUnderLease, Owns
<1>. QED
  BY <1>1, <1>2, <1>3 DEF IInv

(* What the web processes write: a row out of everybody's hands or cleared. *)
OutsideRow(m, r) ==
  /\ r \in Rows /\ r.attempts <= MaxAttempts /\ r.lease <= LeaseTicks
  /\ r.status # "ABSENT" /\ r.status # "PROCESSING"
  /\ r.status = "PENDING" => r.attempts < MaxAttempts /\ ~r.sentAt
  /\ r.status = "FAILED" => ~r.sentAt
  /\ r.status = "SENT" => r.sentAt
  /\ \/ r.cleared
     \/ mail[m].status # "PROCESSING" /\ ~mail[m].cleared
     \/ mail[m].status = "ABSENT"

LEMMA OutsideKeeps ==
  ASSUME IInv, NEW S \in SUBSET Mails, NEW row \in [S -> Rows],
         \A m \in S : OutsideRow(m, row[m]),
         mail' = [m \in Mails |-> IF m \in S THEN row[m] ELSE mail[m]],
         UNCHANGED <<enabled, halted, batch, cur, left, delivered, crashes>>,
         \/ UNCHANGED <<pc, stale, picked>>
         \/ \E w \in Workers : pc[w] = "idle" /\ pc' = [pc EXCEPT ![w] = "recover"],
         stale' \in [Workers -> SUBSET Snapshots],
         picked' \in [Workers -> SUBSET Mails], resets' \in Nat
  PROVE  IInv'
<1>1. /\ \A m \in S : OutsideRow(m, mail'[m])
      /\ \A m \in Mails \ S : mail'[m] = mail[m]
  OBVIOUS
<1>2. TypeOK'
  <2>1. mail' \in [Mails -> Rows]
    BY DEF IInv, TypeOK
  <2>2. \A m \in Mails : mail'[m].attempts <= MaxAttempts /\ mail'[m].lease <= LeaseTicks
    BY <1>1 DEF IInv, TypeOK, OutsideRow
  <2>3. pc' \in [Workers -> Steps]
    BY DEF IInv, TypeOK, Steps
  <2>. QED
    BY <2>1, <2>2, <2>3 DEF IInv, TypeOK
<1>3. RowInv'
  BY <1>1 DEF IInv, RowInv, OutsideRow
<1>4. WorkInv'
  <2>1. \A m \in Mails : mail[m].status # "ABSENT" => mail'[m].status # "ABSENT"
    BY <1>1 DEF OutsideRow
  <2>2. \A w \in Workers : \A m \in batch'[w] \cup cur'[w] : mail'[m].status # "ABSENT"
    BY <2>1 DEF IInv, TypeOK, WorkInv
  <2>3. CASE UNCHANGED <<pc, stale, picked>>
    BY <2>2, <2>3 DEF IInv, TypeOK, WorkInv
  <2>4. CASE \E w \in Workers : pc[w] = "idle" /\ pc' = [pc EXCEPT ![w] = "recover"]
    <3>1. PICK w \in Workers : pc[w] = "idle" /\ pc' = [pc EXCEPT ![w] = "recover"]
      BY <2>4
    <3>. QED
      BY <2>2, <3>1 DEF IInv, TypeOK, WorkInv
  <2>. QED
    BY <2>3, <2>4
<1>5. LeaseInv'
  <2>. SUFFICES ASSUME NEW w \in Workers, NEW m \in Mails, SendsUnderLease(w, m)'
                PROVE  (mail[m].cleared \/ (Owns(w, m) /\ mail[m].lease = left[w]))'
    BY DEF LeaseInv
  <2>1. SendsUnderLease(w, m)
    BY DEF SendsUnderLease
  <2>2. mail[m].cleared \/ (Owns(w, m) /\ mail[m].lease = left[w])
    BY <2>1 DEF IInv, LeaseInv
  <2>3. mail[m].status # "ABSENT"
    BY <2>1 DEF IInv, WorkInv, SendsUnderLease
  <2>. QED
    BY <1>1, <2>2, <2>3 DEF Owns, OutsideRow
<1>. QED
  BY <1>2, <1>3, <1>4, <1>5 DEF IInv

(* The same for a single row. *)
LEMMA OutsideRowKeeps ==
  ASSUME IInv, NEW m \in Mails, NEW r, OutsideRow(m, r), mail' = [mail EXCEPT ![m] = r],
         UNCHANGED <<enabled, halted, pc, stale, picked, batch, cur, left, delivered, crashes>>,
         resets' \in Nat
  PROVE  IInv'
<1>. DEFINE row == [x \in {m} |-> r]
<1>1. row \in [{m} -> Rows] /\ \A x \in {m} : OutsideRow(x, row[x])
  BY DEF OutsideRow
<1>2. mail' = [x \in Mails |-> IF x \in {m} THEN row[x] ELSE mail[x]]
  BY DEF IInv, TypeOK
<1>. HIDE DEF row
<1>3. stale' \in [Workers -> SUBSET Snapshots] /\ picked' \in [Workers -> SUBSET Mails]
  BY DEF IInv, TypeOK
<1>. QED
  BY <1>1, <1>2, <1>3, OutsideKeeps

LEMMA EnqueueIInv ==
  ASSUME IInv, NEW m \in Mails, Enqueue(m)
  PROVE  IInv'
<1>. DEFINE r == [NewRow EXCEPT !.status = "PENDING",
                                !.ttl = IF m \in Expiring THEN TtlTicks ELSE 0]
<1>1. OutsideRow(m, r)
  <2>1. r \in Rows
    BY DEF NewRow, Rows, Statuses
  <2>2. /\ r.attempts = 0 /\ r.lease = 0 /\ r.status = "PENDING" /\ r.sentAt = FALSE
        /\ mail[m].status = "ABSENT"
    BY DEF NewRow, Enqueue
  <2>. HIDE DEF r
  <2>. QED
    BY <2>1, <2>2 DEF OutsideRow
<1>2. mail' = [mail EXCEPT ![m] = r]
  BY DEF Enqueue
<1>. HIDE DEF r
<1>3. UNCHANGED <<enabled, halted, pc, stale, picked, batch, cur, left, delivered, crashes>>
  BY DEF Enqueue
<1>4. resets' \in Nat
  BY DEF Enqueue, IInv, TypeOK
<1>. QED
  BY <1>1, <1>2, <1>3, <1>4, OutsideRowKeeps

(* A row that may be queued again is in nobody's hands. *)
LEMMA ResetRow ==
  ASSUME IInv, NEW m \in Mails, Retryable(m)
  PROVE  OutsideRow(m, [Released(m, "PENDING") EXCEPT !.delay = 0, !.attempts = 0])
<1>. DEFINE r == [Released(m, "PENDING") EXCEPT !.delay = 0, !.attempts = 0]
<1>1. mail[m] \in Rows
  BY DEF IInv, TypeOK
<1>2. r \in Rows
  BY <1>1 DEF Released, Rows, Statuses
<1>3. /\ r.attempts = 0 /\ r.lease = 0 /\ r.status = "PENDING"
      /\ r.sentAt = mail[m].sentAt /\ r.cleared = mail[m].cleared
  BY <1>1 DEF Released, Rows
<1>. HIDE DEF r
<1>4. ~mail[m].sentAt /\ mail[m].status # "PROCESSING"
  BY DEF Retryable
<1>5. OutsideRow(m, r)
  BY <1>1, <1>2, <1>3, <1>4 DEF OutsideRow, Rows
<1>. QED
  BY <1>5 DEF r

LEMMA ResetIInv ==
  ASSUME IInv, NEW S \in SUBSET Mails, \A m \in S : Retryable(m), Reset(S),
         UNCHANGED <<enabled, halted, batch, cur, left, delivered, crashes>>,
         \/ UNCHANGED <<pc, stale, picked>>
         \/ \E w \in Workers : pc[w] = "idle" /\ pc' = [pc EXCEPT ![w] = "recover"],
         stale' \in [Workers -> SUBSET Snapshots],
         picked' \in [Workers -> SUBSET Mails], resets' \in Nat
  PROVE  IInv'
<1>. DEFINE row == [m \in S |-> [Released(m, "PENDING") EXCEPT !.delay = 0, !.attempts = 0]]
<1>1. \A m \in S : OutsideRow(m, row[m])
  BY ResetRow
<1>2. mail' = [m \in Mails |-> IF m \in S THEN row[m] ELSE mail[m]]
  BY DEF Reset
<1>3. DOMAIN row = S /\ row = [m \in S |-> row[m]]
  OBVIOUS
<1>. HIDE DEF row
<1>4. row \in [S -> Rows]
  BY <1>1, <1>3 DEF OutsideRow
<1>. QED
  BY <1>1, <1>2, <1>4, OutsideKeeps

LEMMA RetryOutgoingIInv ==
  ASSUME IInv, NEW m \in Mails, RetryOutgoing(m)
  PROVE  IInv'
<1>1. {m} \in SUBSET Mails /\ (\A x \in {m} : Retryable(x)) /\ Reset({m})
  BY DEF RetryOutgoing
<1>2. /\ UNCHANGED <<enabled, halted, pc, stale, picked, batch, cur, left, delivered, crashes>>
      /\ resets' \in Nat
  BY DEF RetryOutgoing, IInv, TypeOK
<1>3. stale' \in [Workers -> SUBSET Snapshots] /\ picked' \in [Workers -> SUBSET Mails]
  BY <1>2 DEF IInv, TypeOK
<1>. QED
  BY <1>1, <1>2, <1>3, ResetIInv

LEMMA SendNowIInv ==
  ASSUME IInv, NEW w \in Workers, NEW S \in SUBSET Mails, SendNow(w, S)
  PROVE  IInv'
<1>1. (\A m \in S : Retryable(m)) /\ Reset(S)
  BY DEF SendNow
<1>2. UNCHANGED <<enabled, halted, batch, cur, left, delivered, crashes>>
  BY DEF SendNow
<1>3. pc[w] = "idle" /\ pc' = [pc EXCEPT ![w] = "recover"]
  BY DEF SendNow, Begin
<1>4. stale' \in [Workers -> SUBSET Snapshots]
  BY DEF SendNow, ReadStale, IInv, TypeOK, Snapshots, Rows
<1>5. picked' \in [Workers -> SUBSET Mails] /\ resets' \in Nat
  BY DEF SendNow, IInv, TypeOK
<1>. QED
  BY <1>1, <1>2, <1>3, <1>4, <1>5, ResetIInv

LEMMA GoneIInv ==
  ASSUME IInv, NEW m \in Mails, CleanupOld(m) \/ DeleteSelected(m)
  PROVE  IInv'
<1>1. OutsideRow(m, GoneRow)
  <2>1. GoneRow \in Rows
    BY DEF GoneRow, NewRow, Rows, Statuses
  <2>2. /\ GoneRow.attempts = 0 /\ GoneRow.lease = 0 /\ GoneRow.status = "GONE"
        /\ GoneRow.cleared
    BY DEF GoneRow, NewRow
  <2>. QED
    BY <2>1, <2>2 DEF OutsideRow
<1>2. /\ mail' = [mail EXCEPT ![m] = GoneRow]
      /\ UNCHANGED <<enabled, halted, pc, stale, picked, batch, cur, left, delivered, crashes>>
      /\ resets' \in Nat
  BY DEF CleanupOld, DeleteSelected, IInv, TypeOK
<1>. QED
  BY <1>1, <1>2, OutsideRowKeeps

LEMMA EraseAccountIInv ==
  ASSUME IInv, NEW m \in Mails, EraseAccount(m)
  PROVE  IInv'
<1>. DEFINE r == [Released(m, "EXPIRED") EXCEPT !.cleared = TRUE]
<1>1. mail[m] \in Rows /\ mail[m].attempts <= MaxAttempts
  BY DEF IInv, TypeOK
<1>2. /\ r \in Rows /\ r.attempts = mail[m].attempts /\ r.lease = 0
      /\ r.status = "EXPIRED" /\ r.cleared
  BY <1>1 DEF Released, Rows, Statuses
<1>3. /\ mail' = [mail EXCEPT ![m] = r]
      /\ UNCHANGED <<enabled, halted, pc, stale, picked, batch, cur, left, delivered, crashes>>
      /\ resets' \in Nat
  BY DEF EraseAccount, IInv, TypeOK
<1>. HIDE DEF r
<1>4. OutsideRow(m, r)
  BY <1>1, <1>2 DEF OutsideRow
<1>. QED
  BY <1>3, <1>4, OutsideRowKeeps

LEMMA SwitchIInv ==
  ASSUME IInv, SwitchMail \/ SwitchHalt
  PROVE  IInv'
<1>1. TypeOK'
  BY DEF IInv, TypeOK, SwitchMail, SwitchHalt
<1>2. RowInv' /\ WorkInv' /\ LeaseInv'
  BY DEF IInv, RowInv, WorkInv, LeaseInv, SwitchMail, SwitchHalt, SendsUnderLease, Owns
<1>. QED
  BY <1>1, <1>2 DEF IInv

LEMMA TickIInv ==
  ASSUME IInv, Tick
  PROVE  IInv'
<1>1. \A n \in Nat : /\ Less(n) \in Nat /\ Less(n) <= n
                     /\ Less(n) > 0 => n > 0 /\ Less(n) = n - 1
  BY DEF Less
<1>2. \A m \in Mails :
        /\ mail'[m] \in Rows /\ mail'[m].lease = Less(mail[m].lease)
        /\ mail'[m].status = mail[m].status /\ mail'[m].attempts = mail[m].attempts
        /\ mail'[m].sentAt = mail[m].sentAt /\ mail'[m].cleared = mail[m].cleared
        /\ mail'[m].owner = mail[m].owner
  <2>. SUFFICES ASSUME NEW m \in Mails
                PROVE  /\ mail'[m] \in Rows /\ mail'[m].lease = Less(mail[m].lease)
                       /\ mail'[m].status = mail[m].status
                       /\ mail'[m].attempts = mail[m].attempts
                       /\ mail'[m].sentAt = mail[m].sentAt
                       /\ mail'[m].cleared = mail[m].cleared
                       /\ mail'[m].owner = mail[m].owner
    OBVIOUS
  <2>1. mail[m] \in Rows
    BY DEF IInv, TypeOK
  <2>2. mail'[m] = [mail[m] EXCEPT !.delay = Less(mail[m].delay),
                      !.ttl = Less(mail[m].ttl), !.lease = Less(mail[m].lease)]
    BY <2>1 DEF Tick, Rows
  <2>. QED
    BY <1>1, <2>1, <2>2 DEF Rows
<1>3. mail' \in [Mails -> Rows]
  <2>1. DOMAIN mail' = Mails /\ mail' = [m \in Mails |-> mail'[m]]
    BY DEF Tick
  <2>. QED
    BY <1>2, <2>1
<1>4. /\ left' \in [Workers -> Nat]
      /\ \A w \in Workers : left'[w] = Less(left[w])
  BY <1>1 DEF IInv, TypeOK, Tick
<1>5. TypeOK'
  <2>1. ASSUME NEW m \in Mails
        PROVE  mail'[m].attempts <= MaxAttempts /\ mail'[m].lease <= LeaseTicks
    <3>1. mail[m].lease \in Nat /\ mail[m].lease <= LeaseTicks
          /\ mail[m].attempts <= MaxAttempts
      BY DEF IInv, TypeOK, Rows
    <3>2. Less(mail[m].lease) \in Nat /\ Less(mail[m].lease) <= mail[m].lease
      BY <1>1, <3>1
    <3>. QED
      BY <1>2, <3>1, <3>2
  <2>. QED
    BY <1>3, <1>4, <2>1 DEF IInv, TypeOK, Tick
<1>6. RowInv'
  BY <1>2 DEF IInv, RowInv
<1>7. WorkInv'
  <2>1. \A w \in Workers : left[w] = 0 => left'[w] = 0
    BY <1>4 DEF Less
  <2>2. UNCHANGED <<batch, cur, pc, delivered>>
    BY DEF Tick
  <2>3. \A m \in Mails : mail'[m].status = mail[m].status
    BY <1>2
  <2>4. \A w \in Workers : batch[w] \subseteq Mails /\ cur[w] \subseteq Mails
    BY DEF IInv, TypeOK
  <2>. QED
    BY <2>1, <2>2, <2>3, <2>4 DEF IInv, WorkInv
<1>8. LeaseInv'
  <2>. SUFFICES ASSUME NEW w \in Workers, NEW m \in Mails, SendsUnderLease(w, m)'
                PROVE  (mail[m].cleared \/ (Owns(w, m) /\ mail[m].lease = left[w]))'
    BY DEF LeaseInv
  <2>1. SendsUnderLease(w, m)
    BY <1>1, <1>4 DEF SendsUnderLease, Tick, IInv, TypeOK
  <2>. QED
    BY <1>2, <1>4, <2>1 DEF IInv, LeaseInv, Owns
<1>. QED
  BY <1>5, <1>6, <1>7, <1>8 DEF IInv

LEMMA StutterIInv ==
  ASSUME IInv, UNCHANGED vars
  PROVE  IInv'
BY DEF vars, IInv, TypeOK, RowInv, WorkInv, LeaseInv, SendsUnderLease, Owns

LEMMA NextIInv ==
  ASSUME IInv, [Next]_vars
  PROVE  IInv'
<1>1. ASSUME NEW w \in Workers, Round(w) PROVE IInv'
  BY <1>1, RecoverStaleIInv, RecoverDoneIInv, ClaimIInv, TakeNextIInv, LeaveRoundIInv,
     RenewLeaseIInv, TransmitIInv, ConfirmIInv DEF Round
<1>2. CASE Outside
  BY <1>2, EnqueueIInv, RetryOutgoingIInv, GoneIInv, EraseAccountIInv, SwitchIInv DEF Outside
<1>. QED
  BY <1>1, <1>2, BeginPollIInv, CrashIInv, SendNowIInv, TickIInv, StutterIInv DEF Next

(* The inductive invariant: a worker inside its lease owns the row in its  *)
(* hands, and what is recorded of a row fits its status.                   *)
THEOREM InductiveInvariant == Spec => []IInv
<1>1. IInv /\ [Next]_vars => IInv'
  BY NextIInv
<1>. QED
  BY InitIInv, <1>1, PTL DEF Spec

(* Every reachable state of the outbox is a table with bounded attempts and *)
(* leases and workers in a step of process_email_queue.                    *)
THEOREM TypeCorrect == Spec => []TypeOK
<1>1. IInv => TypeOK
  BY DEF IInv
<1>. QED
  BY <1>1, InductiveInvariant, PTL

(* process_email_queue: two workers inside their leases never send the same *)
(* row, for every number of workers and every interleaving of claims,      *)
(* recoveries, renewals, admin resets and crashes.                         *)
THEOREM ExclusiveSend == Spec => []NoConcurrentSend
<1>1. IInv => NoConcurrentSend
  BY DEF IInv, LeaseInv, NoConcurrentSend, Owns
<1>. QED
  BY <1>1, InductiveInvariant, PTL

-----------------------------------------------------------------------------
(* Only renew_lease leads into a transmission. *)
LEMMA IntoSend ==
  ASSUME IInv, [Next]_vars, NEW w \in Workers, pc[w] # "send", pc'[w] = "send"
  PROVE  RenewLease(w)
<1>1. pc \in [Workers -> Steps]
  BY DEF IInv, TypeOK
<1>2. ASSUME NEW v \in Workers, Round(v)
      PROVE  RenewLease(w)
  <2>1. CASE RenewLease(v)
    BY <1>1, <2>1 DEF RenewLease
  <2>2. CASE Transmit(v)
    <3>1. PICK r \in {"accepted", "blocked", "failed"} : pc' = [pc EXCEPT ![v] = r]
      BY <2>2 DEF Transmit
    <3>. QED
      BY <1>1, <3>1
  <2>3. CASE \E m \in batch[v] : TakeNext(v, m)
    <3>1. pc' = pc \/ pc' = [pc EXCEPT ![v] = "renew"]
      BY <2>3 DEF TakeNext
    <3>. QED
      BY <1>1, <3>1
  <2>4. CASE \/ \E s \in stale[v] : RecoverStale(v, s)
             \/ RecoverDone(v) \/ Claim(v) \/ EndRound(v) \/ Confirm(v)
             \/ \E m \in batch[v] : TakeGone(v, m)
    BY <1>1, <2>4 DEF RecoverStale, RecoverDone, Claim, EndRound, Confirm, TakeGone
  <2>. QED
    BY <1>2, <2>1, <2>2, <2>3, <2>4 DEF Round
<1>3. CASE Outside \/ Tick \/ UNCHANGED vars
  BY <1>3 DEF Outside, Enqueue, RetryOutgoing, CleanupOld, DeleteSelected, EraseAccount,
              SwitchMail, SwitchHalt, Tick, vars
<1>4. ASSUME NEW v \in Workers,
             BeginPoll(v) \/ Crash(v) \/ \E S \in SUBSET Mails : SendNow(v, S)
      PROVE  RenewLease(w)
  BY <1>1, <1>4 DEF BeginPoll, Crash, SendNow, Begin
<1>. QED
  BY <1>2, <1>3, <1>4 DEF Next

(* renew_lease: a row that mark_sent has recorded is never transmitted     *)
(* again by a worker that had not yet begun.                               *)
THEOREM SentStaysSent == Spec => NoSendAfterConfirmation
<1>1. ASSUME IInv, [Next]_vars, NEW w \in Workers, NEW m \in Mails,
             mail[m].sentAt, pc[w] # "send", pc'[w] = "send", m \in cur'[w]
      PROVE  FALSE
  <2>1. RenewLease(w)
    BY <1>1, IntoSend
  <2>2. PICK x \in cur[w] : RenewCas(w, x) /\ UNCHANGED cur
    BY <1>1, <2>1 DEF RenewLease, IInv, TypeOK
  <2>3. x = m
    BY <1>1, <2>2 DEF IInv, WorkInv
  <2>. QED
    BY <1>1, <2>2, <2>3 DEF RenewCas, Owns
<1>2. IInv /\ [Next]_vars =>
        [\A w \in Workers, m \in Mails :
           mail[m].sentAt /\ pc[w] # "send" => ~(pc'[w] = "send" /\ m \in cur'[w])]_vars
  BY <1>1
<1>. QED
  BY <1>2, InductiveInvariant, PTL DEF Spec, NoSendAfterConfirmation

-----------------------------------------------------------------------------
(* The outbox implements its promise: one step of the promise per step.    *)

phaseMap == [m \in Mails |-> Phase(m)]
acceptedMap == [m \in Mails |-> delivered[m] > 0]

PromiseStep == [Promise!Next]_<<phaseMap, acceptedMap>>

(* How one row may move while nothing is delivered. *)
MayMove(m, from, to) ==
  \/ from = to
  \/ from = "absent" /\ to = "queued"
  \/ from = "queued" /\ to = "sent" /\ delivered[m] > 0
  \/ from = "queued" /\ to = "failed"
  \/ from \in {"queued", "failed", "expired"} /\ to = "expired"
  \/ from = "sent" /\ to = "erased"
  \/ from # "absent" /\ to = "gone"

LEMMA OneRowMoves ==
  ASSUME NEW m \in Mails, MayMove(m, Phase(m), Phase(m)'),
         \A x \in Mails \ {m} : mail'[x] = mail[x], UNCHANGED delivered
  PROVE  PromiseStep
<1>1. \A x \in Mails \ {m} : Phase(x)' = Phase(x)
  BY DEF Phase
<1>2. phaseMap' = [phaseMap EXCEPT ![m] = Phase(m)'] /\ acceptedMap' = acceptedMap
      /\ phaseMap[m] = Phase(m) /\ acceptedMap[m] = (delivered[m] > 0)
  BY <1>1 DEF phaseMap, acceptedMap
<1>3. CASE Phase(m)' = Phase(m)
  <2>1. phaseMap' = phaseMap
    BY <1>1, <1>3 DEF phaseMap
  <2>. QED
    BY <1>2, <2>1 DEF PromiseStep
<1>4. CASE Phase(m) = "absent" /\ Phase(m)' = "queued"
  BY <1>2, <1>4 DEF PromiseStep, Promise!Next, Promise!Queue, Promise!Move, phaseMap, acceptedMap
<1>5. CASE \/ Phase(m) = "queued" /\ Phase(m)' = "sent" /\ delivered[m] > 0
           \/ Phase(m) = "queued" /\ Phase(m)' = "failed"
           \/ Phase(m) \in {"queued", "failed"} /\ Phase(m)' = "expired"
           \/ Phase(m) = "sent" /\ Phase(m)' = "erased"
  BY <1>2, <1>5 DEF PromiseStep, Promise!Next, Promise!Settle, Promise!Move, phaseMap, acceptedMap
<1>6. CASE Phase(m) # "absent" /\ Phase(m)' = "gone"
  BY <1>2, <1>6 DEF PromiseStep, Promise!Next, Promise!Delete, phaseMap, acceptedMap
<1>. QED
  BY <1>3, <1>4, <1>5, <1>6 DEF MayMove

LEMMA PhaseOf ==
  ASSUME NEW m \in Mails
  PROVE  /\ mail[m].status = "ABSENT" => Phase(m) = "absent"
         /\ mail[m].status \in {"PENDING", "PROCESSING"} => Phase(m) = "queued"
         /\ mail[m].status = "SENT" => Phase(m) = "sent"
         /\ mail[m].status = "FAILED" => Phase(m) = "failed"
         /\ mail[m].status = "EXPIRED" /\ mail[m].sentAt => Phase(m) = "erased"
         /\ mail[m].status = "EXPIRED" /\ ~mail[m].sentAt => Phase(m) = "expired"
         /\ mail[m].status = "GONE" => Phase(m) = "gone"
BY DEF Phase

LEMMA PhaseOfNext ==
  ASSUME NEW m \in Mails
  PROVE  /\ mail'[m].status = "ABSENT" => Phase(m)' = "absent"
         /\ mail'[m].status \in {"PENDING", "PROCESSING"} => Phase(m)' = "queued"
         /\ mail'[m].status = "SENT" => Phase(m)' = "sent"
         /\ mail'[m].status = "FAILED" => Phase(m)' = "failed"
         /\ mail'[m].status = "EXPIRED" /\ mail'[m].sentAt => Phase(m)' = "erased"
         /\ mail'[m].status = "EXPIRED" /\ ~mail'[m].sentAt => Phase(m)' = "expired"
         /\ mail'[m].status = "GONE" => Phase(m)' = "gone"
BY DEF Phase

LEMMA SameStatus ==
  ASSUME UNCHANGED delivered,
         \A m \in Mails : \/ mail'[m] = mail[m]
                          \/ /\ mail'[m].status = mail[m].status
                             /\ mail'[m].sentAt = mail[m].sentAt
                          \/ mail[m].status \in {"PENDING", "PROCESSING"}
                             /\ mail'[m].status \in {"PENDING", "PROCESSING"}
  PROVE  PromiseStep
<1>1. ASSUME NEW m \in Mails PROVE Phase(m)' = Phase(m)
  <2>1. CASE mail'[m] = mail[m] \/ (/\ mail'[m].status = mail[m].status
                                    /\ mail'[m].sentAt = mail[m].sentAt)
    BY <2>1 DEF Phase
  <2>2. CASE /\ mail[m].status \in {"PENDING", "PROCESSING"}
             /\ mail'[m].status \in {"PENDING", "PROCESSING"}
    BY <2>2, PhaseOf, PhaseOfNext
  <2>. QED
    BY <2>1, <2>2
<1>. QED
  BY <1>1 DEF PromiseStep, phaseMap, acceptedMap

(* A queued row ends an attempt. *)
LEMMA AttemptMoves ==
  ASSUME IInv, NEW m \in Mails, NEW r, UpdateOf(m, r), mail' = [mail EXCEPT ![m] = r],
         mail[m].status = "PROCESSING", UNCHANGED delivered,
         r.status = "SENT" => delivered[m] > 0,
         r.status = "EXPIRED" => ~r.sentAt
  PROVE  PromiseStep
<1>1. mail'[m] = r /\ \A x \in Mails \ {m} : mail'[x] = mail[x]
  BY DEF IInv, TypeOK
<1>2. Phase(m) = "queued"
  BY PhaseOf
<1>3. /\ r.status = "PENDING" => Phase(m)' = "queued"
      /\ r.status = "SENT" => Phase(m)' = "sent"
      /\ r.status = "FAILED" => Phase(m)' = "failed"
      /\ r.status = "EXPIRED" => Phase(m)' = "expired"
  BY <1>1, PhaseOfNext
<1>4. MayMove(m, Phase(m), Phase(m)')
  BY <1>2, <1>3 DEF UpdateOf, MayMove
<1>. QED
  BY <1>1, <1>4, OneRowMoves

LEMMA UnsentUpdates ==
  ASSUME TypeOK, NEW m \in Mails, NEW wait \in Nat
  PROVE  /\ Attempted(m, wait).status \in {"PENDING", "FAILED"}
         /\ Paused(m).status = "PENDING" /\ Sent(m).status = "SENT"
         /\ Expired(m).status = "EXPIRED" /\ Expired(m).sentAt = mail[m].sentAt
<1>1. mail[m] \in Rows
  BY DEF TypeOK
<1>2. /\ Paused(m).status = "PENDING" /\ Sent(m).status = "SENT"
      /\ Expired(m).status = "EXPIRED" /\ Expired(m).sentAt = mail[m].sentAt
  BY <1>1 DEF Paused, Sent, Expired, Released, Rows
<1>3. Attempted(m, wait).status \in {"PENDING", "FAILED"}
  BY <1>1 DEF Attempted, Released, Rows
<1>. QED
  BY <1>2, <1>3

LEMMA RoundPromise ==
  ASSUME IInv, NEW w \in Workers, Round(w)
  PROVE  PromiseStep
<1>1. ASSUME NEW s \in stale[w], RecoverStale(w, s) PROVE PromiseStep
  <2>1. s.row \in Mails /\ UNCHANGED delivered
    BY <1>1 DEF IInv, TypeOK, Snapshots, RecoverStale
  <2>2. CASE ~RecoverCas(s)
    BY <1>1, <2>2, SameStatus DEF RecoverStale
  <2>3. CASE RecoverCas(s)
    <3>1. /\ mail[s.row].attempts < MaxAttempts /\ ~mail[s.row].sentAt
          /\ mail[s.row].status = "PROCESSING"
      BY <2>1, <2>3 DEF IInv, RowInv, RecoverCas, IsStale
    <3>2. mail' = [mail EXCEPT ![s.row] = Attempted(s.row, 0)]
      BY <1>1, <2>3 DEF RecoverStale
    <3>3. UpdateOf(s.row, Attempted(s.row, 0))
      BY <2>1, <3>1, AttemptedUpdates DEF IInv
    <3>4. Attempted(s.row, 0).status \in {"PENDING", "FAILED"}
      BY <2>1, UnsentUpdates DEF IInv
    <3>. QED
      BY <2>1, <3>1, <3>2, <3>3, <3>4, AttemptMoves
  <2>. QED
    BY <2>2, <2>3
<1>2. CASE RecoverDone(w) \/ EndRound(w) \/ \E m \in batch[w] : TakeGone(w, m)
  BY <1>2, SameStatus DEF RecoverDone, EndRound, TakeGone
<1>3. CASE Claim(w)
  <2>1. PICK S \in SUBSET Candidates(w) :
          mail' = [m \in Mails |->
            IF m \in S THEN [mail[m] EXCEPT !.status = "PROCESSING",
                                            !.owner = w, !.lease = LeaseTicks]
                       ELSE mail[m]]
    BY <1>3 DEF Claim
  <2>2. \A m \in S : mail[m].status = "PENDING"
    BY DEF Candidates, Claimable
  <2>3. ASSUME NEW m \in Mails
        PROVE  \/ mail'[m] = mail[m]
               \/ mail[m].status = "PENDING" /\ mail'[m].status = "PROCESSING"
    <3>1. CASE m \in S
      <4>1. mail[m] \in Rows
        BY DEF IInv, TypeOK
      <4>. QED
        BY <2>1, <2>2, <3>1, <4>1 DEF Rows
    <3>2. CASE m \notin S
      BY <2>1, <3>2
    <3>. QED
      BY <3>1, <3>2
  <2>4. UNCHANGED delivered
    BY <1>3 DEF Claim
  <2>. QED
    BY <2>3, <2>4, SameStatus
<1>4. ASSUME NEW m \in batch[w], TakeNext(w, m) PROVE PromiseStep
  <2>1. m \in Mails /\ UNCHANGED delivered
    BY <1>4 DEF IInv, TypeOK, TakeNext
  <2>2. CASE UNCHANGED mail
    BY <2>1, <2>2, SameStatus
  <2>3. ASSUME NEW r \in {Expired(m), Paused(m)}, Owns(w, m), WorkerUpdate(w, m, r)
        PROVE  PromiseStep
    <3>1. mail' = [mail EXCEPT ![m] = r] /\ UpdateOf(m, r)
      BY <2>1, <2>3, OwnedUpdates DEF WorkerUpdate, IInv
    <3>2. r.status # "SENT" /\ (r.status = "EXPIRED" => ~r.sentAt)
      BY <2>1, <2>3, UnsentUpdates DEF IInv, Owns
    <3>3. mail[m].status = "PROCESSING"
      BY <2>3 DEF Owns
    <3>. QED
      BY <2>1, <3>1, <3>2, <3>3, AttemptMoves
  <2>. QED
    BY <1>4, <2>2, <2>3 DEF TakeNext
<1>5. CASE RenewLease(w)
  <2>1. PICK m \in cur[w] :
          mail' = [mail EXCEPT ![m].lease = LeaseTicks] \/ mail' = mail
    BY <1>5 DEF RenewLease
  <2>2. mail \in [Mails -> Rows] /\ m \in Mails
    BY DEF IInv, TypeOK
  <2>3. CASE mail' = [mail EXCEPT ![m].lease = LeaseTicks]
    <3>1. \A x \in Mails : /\ mail'[x].status = mail[x].status
                           /\ mail'[x].sentAt = mail[x].sentAt
      BY <2>2, <2>3 DEF Rows
    <3>. QED
      BY <1>5, <3>1, SameStatus DEF RenewLease
  <2>4. CASE mail' = mail
    BY <1>5, <2>4, SameStatus DEF RenewLease
  <2>. QED
    BY <2>1, <2>3, <2>4
<1>6. CASE Transmit(w)
  <2>1. UNCHANGED mail /\ \E m \in cur[w] :
          delivered' = [delivered EXCEPT ![m] = @ + 1] \/ delivered' = delivered
    BY <1>6 DEF Transmit
  <2>2. CASE UNCHANGED delivered
    BY <2>1, <2>2, SameStatus
  <2>3. ASSUME NEW m \in cur[w], delivered' = [delivered EXCEPT ![m] = @ + 1]
        PROVE  PromiseStep
    <3>1. m \in Mails /\ mail[m].status # "ABSENT" /\ delivered \in [Mails -> Nat]
      BY DEF IInv, TypeOK, WorkInv
    <3>2. phaseMap' = phaseMap /\ phaseMap[m] # "absent"
      BY <2>1, <3>1 DEF phaseMap, Phase
    <3>3. acceptedMap' = [acceptedMap EXCEPT ![m] = TRUE]
      <4>1. delivered[m] + 1 > 0
        BY <3>1
      <4>2. (delivered'[m] > 0) = TRUE
        BY <2>3, <3>1, <4>1
      <4>3. \A x \in Mails \ {m} : (delivered'[x] > 0) = (delivered[x] > 0)
        BY <2>3, <3>1
      <4>4. acceptedMap' = [x \in Mails |-> IF x = m THEN TRUE ELSE delivered[x] > 0]
        BY <3>1, <4>2, <4>3, Zenon DEF acceptedMap
      <4>. QED
        BY <3>1, <4>4, Zenon DEF acceptedMap
    <3>. QED
      BY <3>1, <3>2, <3>3 DEF PromiseStep, Promise!Next, Promise!Accept, phaseMap, acceptedMap
  <2>. QED
    BY <2>1, <2>2, <2>3
<1>7. CASE Confirm(w)
  <2>1. PICK m \in cur[w] : WorkerUpdate(w, m, Outcome(w, m))
    BY <1>7 DEF Confirm
  <2>2. m \in Mails /\ UNCHANGED delivered
    BY <1>7 DEF IInv, TypeOK, Confirm
  <2>3. CASE ~Owns(w, m)
    BY <2>1, <2>2, <2>3, SameStatus DEF WorkerUpdate
  <2>4. CASE Owns(w, m)
    <3>. DEFINE r == Outcome(w, m)
    <3>1. mail[m].attempts < MaxAttempts /\ mail[m].status = "PROCESSING"
      BY <2>2, <2>4 DEF Owns, IInv, RowInv
    <3>2. RetryTicks[mail[m].attempts + 1] \in Nat
      BY <2>2, <3>1 DEF IInv, TypeOK, Rows
    <3>3. pc[w] # "accepted" => r.status \in {"PENDING", "FAILED"}
      BY <2>2, <3>2, UnsentUpdates DEF IInv, Outcome, FailedAttempt
    <3>4. pc[w] = "accepted" => r.status = "SENT" /\ delivered[m] > 0
      BY <2>2, UnsentUpdates DEF IInv, WorkInv, Outcome
    <3>5. UpdateOf(m, r)
      BY <2>2, <2>4, OwnedUpdates DEF Outcome, IInv
    <3>6. mail' = [mail EXCEPT ![m] = r]
      BY <2>1, <2>4 DEF WorkerUpdate
    <3>. HIDE DEF r
    <3>. QED
      BY <2>2, <3>1, <3>3, <3>4, <3>5, <3>6, AttemptMoves
  <2>. QED
    BY <2>3, <2>4
<1>. QED
  BY <1>1, <1>2, <1>3, <1>4, <1>5, <1>6, <1>7 DEF Round

LEMMA ResetPromise ==
  ASSUME IInv, NEW S \in SUBSET Mails, \A m \in S : Retryable(m), Reset(S),
         UNCHANGED delivered
  PROVE  PromiseStep
<1>1. ASSUME NEW m \in S
      PROVE  /\ Phase(m) \in {"queued", "failed", "expired"} /\ Phase(m)' = "queued"
  <2>1. mail[m] \in Rows
    BY DEF IInv, TypeOK
  <2>2. mail'[m].status = "PENDING"
    BY <2>1 DEF Reset, Released, Rows
  <2>. QED
    BY <2>2, PhaseOf, PhaseOfNext DEF Retryable
<1>2. ASSUME NEW m \in Mails \ S PROVE Phase(m)' = Phase(m)
  BY <1>2 DEF Reset, Phase
<1>3. /\ \A m \in S : phaseMap[m] \in {"queued", "failed", "expired"}
      /\ phaseMap' = [m \in Mails |-> IF m \in S THEN "queued" ELSE phaseMap[m]]
      /\ acceptedMap' = acceptedMap
  BY <1>1, <1>2 DEF phaseMap, acceptedMap
<1>. QED
  BY <1>3 DEF PromiseStep, Promise!Next, Promise!Retry, phaseMap, acceptedMap

LEMMA OutsidePromise ==
  ASSUME IInv, Outside
  PROVE  PromiseStep
<1>1. ASSUME NEW m \in Mails, Enqueue(m) PROVE PromiseStep
  <2>1. /\ mail[m].status = "ABSENT" /\ mail'[m].status = "PENDING"
        /\ \A x \in Mails \ {m} : mail'[x] = mail[x]
    BY <1>1 DEF Enqueue, IInv, TypeOK, NewRow
  <2>2. MayMove(m, Phase(m), Phase(m)')
    BY <2>1, PhaseOf, PhaseOfNext DEF MayMove
  <2>. QED
    BY <1>1, <2>1, <2>2, OneRowMoves DEF Enqueue
<1>2. ASSUME NEW m \in Mails, RetryOutgoing(m) PROVE PromiseStep
  <2>1. (\A x \in {m} : Retryable(x)) /\ Reset({m}) /\ UNCHANGED delivered
    BY <1>2 DEF RetryOutgoing
  <2>. QED
    BY <2>1, ResetPromise
<1>3. ASSUME NEW m \in Mails, CleanupOld(m) \/ DeleteSelected(m) PROVE PromiseStep
  <2>1. /\ mail[m].status # "ABSENT" /\ mail'[m] = GoneRow /\ UNCHANGED delivered
        /\ \A x \in Mails \ {m} : mail'[x] = mail[x]
    BY <1>3 DEF CleanupOld, DeleteSelected, IInv, TypeOK
  <2>2. Phase(m)' = "gone" /\ Phase(m) # "absent"
    BY <2>1 DEF Phase, GoneRow, NewRow
  <2>. QED
    BY <2>1, <2>2, OneRowMoves DEF MayMove
<1>4. ASSUME NEW m \in Mails, EraseAccount(m) PROVE PromiseStep
  <2>1. mail[m] \in Rows
    BY DEF IInv, TypeOK
  <2>2. /\ mail[m].status \notin {"ABSENT", "GONE"} /\ mail'[m].status = "EXPIRED"
        /\ mail'[m].sentAt = mail[m].sentAt /\ UNCHANGED delivered
        /\ \A x \in Mails \ {m} : mail'[x] = mail[x]
    BY <1>4, <2>1 DEF EraseAccount, IInv, TypeOK, Released, Rows
  <2>3. mail[m].status \in {"PENDING", "PROCESSING", "SENT", "FAILED", "EXPIRED"}
    BY <2>1, <2>2 DEF Rows, Statuses
  <2>4. MayMove(m, Phase(m), Phase(m)')
    BY <2>2, <2>3, PhaseOf, PhaseOfNext DEF MayMove, IInv, RowInv
  <2>. QED
    BY <2>2, <2>4, OneRowMoves
<1>5. CASE SwitchMail \/ SwitchHalt
  BY <1>5, SameStatus DEF SwitchMail, SwitchHalt
<1>. QED
  BY <1>1, <1>2, <1>3, <1>4, <1>5 DEF Outside

LEMMA NextPromise ==
  ASSUME IInv, [Next]_vars
  PROVE  PromiseStep
<1>1. ASSUME NEW w \in Workers, BeginPoll(w) \/ Crash(w) PROVE PromiseStep
  BY <1>1, SameStatus DEF BeginPoll, Crash
<1>2. ASSUME NEW w \in Workers, NEW S \in SUBSET Mails, SendNow(w, S) PROVE PromiseStep
  BY <1>2, ResetPromise DEF SendNow
<1>3. CASE Tick
  <2>1. ASSUME NEW m \in Mails
        PROVE  mail'[m].status = mail[m].status /\ mail'[m].sentAt = mail[m].sentAt
    <3>1. mail[m] \in Rows
      BY DEF IInv, TypeOK
    <3>. QED
      BY <1>3, <3>1 DEF Tick, Rows
  <2>. QED
    BY <1>3, <2>1, SameStatus DEF Tick
<1>4. CASE UNCHANGED vars
  BY <1>4, SameStatus DEF vars
<1>. QED
  BY <1>1, <1>2, <1>3, <1>4, RoundPromise, OutsidePromise DEF Next

(* The outbox with its workers, leases and crashes implements MailPromise: *)
(* a row counts as SENT only after an acceptance, and never leaves SENT    *)
(* for the queue.                                                          *)
THEOREM OutboxKeepsPromise == Spec => PromiseKept
<1>1. Init => Promise!Init
  <2>. SUFFICES ASSUME Init PROVE Promise!Init
    OBVIOUS
  <2>1. \A m \in Mails : mail[m].status = "ABSENT" /\ delivered[m] = 0
    BY DEF Init, NewRow
  <2>2. \A m \in Mails : Phase(m) = "absent"
    BY <2>1, PhaseOf
  <2>3. \A m \in Mails : (delivered[m] > 0) = FALSE
    BY <2>1
  <2>. QED
    BY <2>2, <2>3, Zenon DEF Promise!Init
<1>2. IInv /\ [Next]_vars => PromiseStep
  BY NextPromise
<1>. QED
  BY <1>1, <1>2, InductiveInvariant, PTL
     DEF Spec, PromiseKept, Promise!Spec, PromiseStep, phaseMap, acceptedMap

-----------------------------------------------------------------------------
(* The content of a row goes with its last chance to be sent.               *)

SecretRow(r) ==
  r.status \notin {"ABSENT", "GONE"} => (r.cleared <=> r.status \in {"SENT", "FAILED", "EXPIRED"})

LEMMA QueuedSecrets ==
  ASSUME TypeOK, NEW m \in Sensitive, SecretRow(mail[m]), NEW wait \in Nat,
         mail[m].status = "PROCESSING"
  PROVE  /\ SecretRow(Attempted(m, wait)) /\ SecretRow(Paused(m))
         /\ SecretRow(Sent(m)) /\ SecretRow(Expired(m))
<1>1. mail[m] \in Rows /\ ~mail[m].cleared /\ Clear(m)
  BY DEF TypeOK, SecretRow, Clear, Rows
<1>2. SecretRow(Attempted(m, wait))
  BY <1>1 DEF Attempted, Released, SecretRow, Rows
<1>3. SecretRow(Paused(m)) /\ SecretRow(Sent(m)) /\ SecretRow(Expired(m))
  BY <1>1 DEF Paused, Sent, Expired, Released, SecretRow, Rows
<1>. QED
  BY <1>2, <1>3

LEMMA RoundSecrets ==
  ASSUME IInv, NEW m \in Sensitive, SecretRow(mail[m]), NEW w \in Workers, Round(w)
  PROVE  SecretRow(mail'[m])
<1>. USE DEF IInv
<1>1. mail \in [Mails -> Rows] /\ mail[m] \in Rows
  BY DEF TypeOK
<1>2. ASSUME NEW s \in stale[w], RecoverStale(w, s) PROVE SecretRow(mail'[m])
  <2>1. 0 \in Nat /\ s.row \in Mails
    BY DEF TypeOK, Snapshots
  <2>. QED
    BY <1>1, <1>2, <2>1, QueuedSecrets DEF RecoverStale, RecoverCas, IsStale
<1>3. CASE Claim(w)
  <2>1. \A x \in Candidates(w) : mail[x].status = "PENDING"
    BY DEF Candidates, Claimable
  <2>2. PICK S \in SUBSET Candidates(w) :
          mail' = [x \in Mails |->
            IF x \in S THEN [mail[x] EXCEPT !.status = "PROCESSING",
                                            !.owner = w, !.lease = LeaseTicks]
                       ELSE mail[x]]
    BY <1>3 DEF Claim
  <2>3. CASE m \in S
    <3>1. mail[m].status = "PENDING"
      BY <2>1, <2>3
    <3>2. mail'[m].status = "PROCESSING" /\ mail'[m].cleared = mail[m].cleared
      BY <1>1, <2>2, <2>3 DEF Rows
    <3>. QED
      BY <3>1, <3>2 DEF SecretRow
  <2>. QED
    BY <2>2, <2>3
<1>4. ASSUME NEW x \in batch[w], TakeNext(w, x) PROVE SecretRow(mail'[m])
  <2>1. \/ mail' = mail
        \/ Owns(w, x) /\ \E r \in {Expired(x), Paused(x)} : mail' = [mail EXCEPT ![x] = r]
    BY <1>4 DEF TakeNext, WorkerUpdate
  <2>. QED
    BY <1>1, <2>1, QueuedSecrets DEF Owns
<1>5. CASE RenewLease(w)
  <2>1. PICK x \in cur[w] : mail' = mail \/ mail' = [mail EXCEPT ![x].lease = LeaseTicks]
    BY <1>5 DEF RenewLease
  <2>2. CASE mail' = [mail EXCEPT ![x].lease = LeaseTicks] /\ x = m
    <3>1. mail'[m] = [mail[m] EXCEPT !.lease = LeaseTicks]
      BY <1>1, <2>2
    <3>2. mail'[m].status = mail[m].status /\ mail'[m].cleared = mail[m].cleared
      BY <1>1, <3>1 DEF Rows
    <3>. QED
      BY <3>2 DEF SecretRow
  <2>. QED
    BY <1>1, <2>1, <2>2
<1>6. CASE Confirm(w)
  <2>1. PICK x \in cur[w] : WorkerUpdate(w, x, Outcome(w, x))
    BY <1>6 DEF Confirm
  <2>2. x \in Mails
    BY DEF TypeOK
  <2>3. Owns(w, x) => RetryTicks[mail[x].attempts + 1] \in Nat
    BY <2>2 DEF Owns, RowInv, TypeOK, Rows
  <2>4. Owns(w, x) /\ x = m => SecretRow(Outcome(w, x))
    BY <2>2, <2>3, QueuedSecrets DEF Owns, Outcome, FailedAttempt
  <2>. QED
    BY <1>1, <2>1, <2>2, <2>4 DEF WorkerUpdate
<1>7. CASE RecoverDone(w) \/ EndRound(w) \/ Transmit(w) \/ \E x \in batch[w] : TakeGone(w, x)
  BY <1>7 DEF RecoverDone, EndRound, Transmit, TakeGone
<1>. QED
  BY <1>2, <1>3, <1>4, <1>5, <1>6, <1>7 DEF Round

LEMMA NextSecrets ==
  ASSUME IInv, NEW m \in Sensitive, SecretRow(mail[m]), [Next]_vars
  PROVE  SecretRow(mail'[m])
<1>. USE DEF IInv
<1>1. mail \in [Mails -> Rows] /\ mail[m] \in Rows
  BY DEF TypeOK
<1>2. ASSUME NEW S \in SUBSET Mails, Reset(S), \A x \in S : Retryable(x)
      PROVE  SecretRow(mail'[m])
  <2>1. m \in S => mail[m].status = "PENDING"
    BY <1>2 DEF Retryable
  <2>. QED
    BY <1>1, <1>2, <2>1 DEF Reset, Released, SecretRow, Rows
<1>3. ASSUME NEW x \in Mails,
             Enqueue(x) \/ CleanupOld(x) \/ DeleteSelected(x) \/ EraseAccount(x)
      PROVE  SecretRow(mail'[m])
  <2>1. CASE x = m
    <3>1. CASE CleanupOld(x) \/ DeleteSelected(x)
      BY <1>1, <2>1, <3>1 DEF CleanupOld, DeleteSelected, GoneRow, NewRow, SecretRow
    <3>2. CASE Enqueue(x)
      <4>1. mail'[m].status = "PENDING" /\ ~mail'[m].cleared
        BY <1>1, <2>1, <3>2 DEF Enqueue, NewRow
      <4>. QED
        BY <4>1 DEF SecretRow
    <3>3. CASE EraseAccount(x)
      <4>1. mail'[m].status = "EXPIRED" /\ mail'[m].cleared
        BY <1>1, <2>1, <3>3 DEF EraseAccount, Released, Rows
      <4>. QED
        BY <4>1 DEF SecretRow
    <3>. QED
      BY <1>3, <3>1, <3>2, <3>3
  <2>2. CASE x # m
    BY <1>1, <1>3, <2>2 DEF Enqueue, CleanupOld, DeleteSelected, EraseAccount
  <2>. QED
    BY <2>1, <2>2
<1>4. ASSUME NEW x \in Mails, RetryOutgoing(x) PROVE SecretRow(mail'[m])
  BY <1>2, <1>4 DEF RetryOutgoing
<1>5. ASSUME NEW w \in Workers, NEW S \in SUBSET Mails, SendNow(w, S) PROVE SecretRow(mail'[m])
  BY <1>2, <1>5 DEF SendNow
<1>6. CASE Tick
  <2>1. mail'[m].status = mail[m].status /\ mail'[m].cleared = mail[m].cleared
    BY <1>1, <1>6 DEF Tick, Rows
  <2>. QED
    BY <2>1 DEF SecretRow
<1>7. CASE SwitchMail \/ SwitchHalt \/ UNCHANGED vars
           \/ \E w \in Workers : BeginPoll(w) \/ Crash(w)
  BY <1>7 DEF SwitchMail, SwitchHalt, BeginPoll, Crash, vars
<1>. QED
  BY <1>3, <1>4, <1>5, <1>6, <1>7, RoundSecrets DEF Next, Outside

(* The one-time code of a sensitive mail is in the table exactly as long as  *)
(* the mail may still be sent, whatever recovery, expiry, failures, admin    *)
(* actions and the erasure of an account do to the row in between.           *)
THEOREM SecretsGoWithTheQueue == Spec => []SecretsExactlyWhileQueued
<1>1. Init => SecretsExactlyWhileQueued
  BY DEF Init, NewRow, SecretsExactlyWhileQueued
<1>2. IInv /\ SecretsExactlyWhileQueued /\ [Next]_vars => SecretsExactlyWhileQueued'
  <2>. SUFFICES ASSUME IInv, SecretsExactlyWhileQueued, [Next]_vars, NEW m \in Sensitive
                PROVE  SecretRow(mail'[m])
    BY DEF SecretsExactlyWhileQueued, SecretRow
  <2>1. SecretRow(mail[m])
    BY DEF SecretsExactlyWhileQueued, SecretRow
  <2>. QED
    BY <2>1, NextSecrets
<1>. QED
  BY <1>1, <1>2, InductiveInvariant, PTL DEF Spec
=============================================================================
