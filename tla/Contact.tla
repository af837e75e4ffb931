------------------------------- MODULE Contact -------------------------------
(* The contact form (contact/services.py): a post takes three advisory locks *)
(* one after the other, returns the mails of an earlier post of its token,   *)
(* or checks the limits and queues the mails of all recipients in one commit. *)
EXTENDS Naturals, FiniteSets

CONSTANTS
  Posts,      \* posts under way
  MaxTokens,  \* bound: submission tokens, one per form that was rendered
  Senders, Ips,
  HourLimit,  \* CONTACT_MAX_PER_EMAIL_HOUR
  IpLimit,    \* CONTACT_MAX_PER_IP_TEN_MINUTES
  Window,     \* ten minutes, in cooldowns of a minute
  Hour        \* an hour, in cooldowns of a minute

ASSUME ContactAssumption == HourLimit \in Nat /\ IpLimit \in Nat /\ Window \in Nat /\ Hour \in Nat

Tokens == 1..MaxTokens

VARIABLES
  post,       \* each post: its form and the locks it has
  mails,      \* accepted submissions not older than an hour, with their age
  old,        \* tokens of submissions older than that
  available   \* the form is switched on, with mail, category and recipients

contactVars == <<post, mails, old, available>>

NoPost == [phase |-> "none"]

ContactInit ==
  /\ post = [r \in Posts |-> NoPost]
  /\ mails = {}
  /\ old = {}
  /\ available = TRUE

UnderWay(r) == post[r].phase # "none"

(* The locks of a post: pg_advisory_xact_lock keeps them until the commit.   *)
Keys(p) ==
  CASE p.phase \in {"none", "token?"} -> {}
    [] p.phase = "sender?" -> {<<"token", p.token>>}
    [] p.phase = "ip?" -> {<<"token", p.token>>, <<"sender", p.sender>>}
    [] p.phase = "ip" -> {<<"token", p.token>>, <<"sender", p.sender>>, <<"ip", p.ip>>}

Free(r, key) == \A s \in Posts \ {r} : key \notin Keys(post[s])
To(r, phase) == post' = [post EXCEPT ![r].phase = phase]
Ends(r) == post' = [post EXCEPT ![r] = NoPost]

Before(t) == t \in old \/ \E m \in mails : m.token = t

(* read_submission_token and the checks of the fields; a form can be posted  *)
(* again, also with another address. Forms are numbered as they are posted.  *)
Posted(t) == Before(t) \/ \E q \in Posts : UnderWay(q) /\ post[q].token = t

Submit(r, t, s, i) ==
  /\ ~UnderWay(r) /\ available
  /\ \A u \in 1..(t - 1) : Posted(u)
  /\ post' = [post EXCEPT ![r] = [phase |-> "token?", token |-> t, sender |-> s, ip |-> i]]
  /\ UNCHANGED <<mails, old, available>>

(* The earlier post of the same form is the answer.                          *)
ReturnPrevious(r) ==
  /\ post[r].phase = "token?" /\ Before(post[r].token)
  /\ Free(r, <<"token", post[r].token>>)
  /\ Ends(r)
  /\ UNCHANGED <<mails, old, available>>

LockToken(r) ==
  /\ post[r].phase = "token?" /\ ~Before(post[r].token)
  /\ Free(r, <<"token", post[r].token>>)
  /\ To(r, "sender?")
  /\ UNCHANGED <<mails, old, available>>

LockSender(r) ==
  /\ post[r].phase = "sender?"
  /\ Free(r, <<"sender", post[r].sender>>)
  /\ To(r, "ip?")
  /\ UNCHANGED <<mails, old, available>>

LockIp(r) ==
  /\ post[r].phase = "ip?"
  /\ Free(r, <<"ip", post[r].ip>>)
  /\ To(r, "ip")
  /\ UNCHANGED <<mails, old, available>>

(* _check_limits *)
OfSender(s) == {m \in mails : m.sender = s}
InWindow(i) == {m \in mails : m.ip = i /\ m.age < Window}

\* Mutant: the limit of the address of the client is not looked at.
WithinLimitsOfSender(p) ==
  /\ Cardinality(OfSender(p.sender)) < HourLimit
  /\ \A m \in OfSender(p.sender) : m.age > 0

WithinLimits(p) ==
  /\ Cardinality(OfSender(p.sender)) < HourLimit
  /\ \A m \in OfSender(p.sender) : m.age > 0
  /\ Cardinality(InWindow(p.ip)) < IpLimit

Accept(r) ==
  /\ post[r].phase = "ip"
  /\ available /\ WithinLimits(post[r])
  /\ mails' = mails \cup {[token |-> post[r].token, sender |-> post[r].sender, ip |-> post[r].ip, age |-> 0, by |-> r]}
  /\ Ends(r)
  /\ UNCHANGED <<old, available>>

(* A limit, a form switched off, an error of a later recipient, a crash: the *)
(* transaction leaves nothing.                                               *)
Rollback(r) ==
  /\ UnderWay(r)
  /\ Ends(r)
  /\ UNCHANGED <<mails, old, available>>

Switch ==
  /\ available' = ~available
  /\ UNCHANGED <<post, mails, old>>

Minute ==
  /\ mails # {}
  /\ mails' = {[m EXCEPT !.age = @ + 1] : m \in {n \in mails : n.age + 1 < Hour}}
  /\ old' = old \cup {m.token : m \in {n \in mails : n.age + 1 = Hour}}
  /\ UNCHANGED <<post, available>>

ContactNext ==
  \/ \E r \in Posts, t \in Tokens, s \in Senders, i \in Ips : Submit(r, t, s, i)
  \/ \E r \in Posts : \/ LockToken(r) \/ ReturnPrevious(r) \/ LockSender(r)
                      \/ LockIp(r) \/ Accept(r) \/ Rollback(r)
  \/ Switch \/ Minute

-----------------------------------------------------------------------------

(* A form is accepted once however often it is posted, posts at the same     *)
(* time do not get past the limits together, and posts never wait for each   *)
(* other in a circle.                                                        *)
AcceptedOnce ==
  \A m, n \in mails : m # n => /\ m.token # n.token
                               /\ m.sender = n.sender => m.age # n.age

LimitsHold ==
  /\ \A s \in Senders : Cardinality(OfSender(s)) <= HourLimit
  /\ \A i \in Ips : Cardinality(InWindow(i)) <= IpLimit

Wanted(p) ==
  CASE p.phase = "token?" -> {<<"token", p.token>>}
    [] p.phase = "sender?" -> {<<"sender", p.sender>>}
    [] p.phase = "ip?" -> {<<"ip", p.ip>>}
    [] OTHER -> {}

NoCircle ==
  \A r, s \in Posts : ~(Wanted(post[r]) \cap Keys(post[s]) # {} /\ Wanted(post[s]) \cap Keys(post[r]) # {} /\ r # s)
=============================================================================
