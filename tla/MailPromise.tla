----------------------------- MODULE MailPromise -----------------------------
(***************************************************************************)
(* What the outbox promises about one row, workers and leases left out:    *)
(* at least one acceptance by the mail server before a row counts as sent, *)
(* and no way back into the queue for a row that counts as sent.           *)
(***************************************************************************)
CONSTANT Mails

VARIABLES phase, accepted

Phases == {"absent", "queued", "sent", "failed", "expired", "erased",
           "gone"}

Init ==
  /\ phase = [m \in Mails |-> "absent"]
  /\ accepted = [m \in Mails |-> FALSE]

Move(m, from, to) == phase[m] \in from /\ phase' = [phase EXCEPT ![m] = to]

Accept(m) ==
  /\ phase[m] # "absent"
  /\ accepted' = [accepted EXCEPT ![m] = TRUE]
  /\ UNCHANGED phase

Queue(m) == Move(m, {"absent"}, "queued") /\ UNCHANGED accepted

Settle(m) ==
  /\ \/ Move(m, {"queued"}, "sent") /\ accepted[m]
     \/ Move(m, {"queued"}, "failed")
     \/ Move(m, {"queued", "failed"}, "expired")
     \/ Move(m, {"sent"}, "erased")
  /\ UNCHANGED accepted

(* The rows in S go back into the queue: none of them counted as sent. *)
Retry(S) ==
  /\ \A m \in S : phase[m] \in {"queued", "failed", "expired"}
  /\ phase' = [m \in Mails |-> IF m \in S THEN "queued" ELSE phase[m]]
  /\ UNCHANGED accepted

Delete(m) ==
  /\ phase[m] # "absent" /\ phase' = [phase EXCEPT ![m] = "gone"]
  /\ UNCHANGED accepted

Next ==
  \/ \E m \in Mails : Accept(m) \/ Queue(m) \/ Settle(m) \/ Delete(m)
  \/ \E S \in SUBSET Mails : Retry(S)

Spec == Init /\ [][Next]_<<phase, accepted>>
=============================================================================
