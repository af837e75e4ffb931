---------------------------- MODULE PortalProofs ----------------------------
(* Proofs about the people of the portal, for every number of users,         *)
(* addresses and browsers, and about forms that are posted late, twice or at *)
(* the same time: the knowledge base with any number of editors and pages,   *)
(* the contact form with any number of posts, senders and clients.           *)
EXTENDS Portal, TLAPS, FiniteSetTheorems

Rows ==
  [mail : Mails \cup {NoOne}, password : Nat, version : Nat, active : BOOLEAN,
   verified : BOOLEAN, banned : BOOLEAN, deleted : BOOLEAN, fails : Nat,
   lock : {"none", "running", "over"}, proven : SUBSET (Mails \cup {NoOne}), putBack : BOOLEAN]

Grants ==
  [kind : {"session", "link"}, user : Users, version : Nat, password : Nat, mail : Mails \cup {NoOne}, era : Nat,
   saved : Nat]

Phases == {"none", "password", "accepted", "verify", "reset", "own"}

Requests == [phase : Phases, user : Users \cup {NoOne}, row : Rows, era : Nat]

(* What every row is by itself: who is active has confirmed the address of   *)
(* the row and is not banned; a deleted row holds nothing.                   *)
RowOK(row) ==
  /\ row.active => row.verified /\ ~row.banned
  /\ row.verified /\ ~row.deleted => row.mail \in Mails /\ row.mail \in row.proven
  /\ row.deleted => row = Erased(row)

(* The address is banned for a reason that is not the user's own ban.        *)
BannedElsewhere(u) ==
  \/ account[u].mail \in loose
  \/ \E v \in Users \ {u} : ban[v] # NoOne /\ account[u].mail \in ban[v].mails

(* An address that was confirmed is banned for its owner's reason, or it is  *)
(* the one a late password change put back.                                  *)
MailFree(u) ==
  account[u].verified /\ ~account[u].deleted => account[u].putBack \/ ~BannedElsewhere(u)

BanKept(u) ==
  /\ ban[u] # NoOne => account[u].banned
  /\ account[u].banned /\ ~account[u].deleted => ban[u] # NoOne

(* An address belongs to one account. *)
OneOwner == \A u, v \in Users : u # v /\ account[u].mail \in Mails => account[u].mail # account[v].mail

RowsInv ==
  /\ account \in [Users -> Rows] /\ era \in [Users -> Nat] /\ ban \in [Users -> Bans \cup {NoOne}]
  /\ \A u \in Users : RowOK(account[u]) /\ MailFree(u) /\ BanKept(u)
  /\ OneOwner

(* A version of a row that was read, or saved, together with the number of   *)
(* its bans.                                                                 *)
Fresh(u, version, e) ==
  version <= account[u].version /\ (version = account[u].version => e = era[u])

GrantsInv == \A g \in grants : g \in Grants /\ Fresh(g.user, g.version, g.saved)

(* The object a password page holds is one of an active user, whose address  *)
(* the row goes on to count as confirmed.                                    *)
HeldOK(held, row) ==
  held.active /\ ~held.deleted /\ held.mail \in Mails /\ (row.deleted \/ (row.verified /\ held.mail \in row.proven))

RequestOK(r) ==
  /\ r.phase # "none" => r.user \in Users
  /\ r.phase \in {"verify", "accepted"} => Fresh(r.user, r.row.version, r.era)
  /\ r.phase = "own" => HeldOK(r.row, account[r.user])

RequestsInv ==
  /\ pending \in [Browsers -> Requests]
  /\ \A b \in Browsers : RequestOK(pending[b])
  /\ waiting \in [Browsers -> Users \cup {NoOne}]

Codes == [to : Mails \cup {NoOne}, tries : Nat, used : BOOLEAN, age : {"new", "old", "expired"}, issued : Nat]

(* An open code belongs to an account that is there.                         *)
CodesInv ==
  /\ code \in [Users -> [Purposes -> Codes]]
  /\ \A u \in Users, p \in Purposes :
       ~code[u][p].used => account[u].mail \in Mails /\ code[u][p].to \in Mails

AccountsInv == RowsInv /\ GrantsInv /\ RequestsInv /\ CodesInv

-----------------------------------------------------------------------------
(* What the operations write into a row.                                     *)

USE NoOneAssumption DEF NoOneAssumption

LEMMA FirstRow == Unregistered \in Rows /\ RowOK(Unregistered)
  BY DEF Unregistered, Rows, RowOK

LEMMA MemberRow == ASSUME NEW m \in Mails PROVE Member(m) \in Rows /\ RowOK(Member(m))
  BY FirstRow DEF Member, Unregistered, Rows, RowOK

(* An operation that leaves alone what a ban, an address or a deletion is    *)
(* about.                                                                    *)
SameAccount(new, row) ==
  /\ new.mail = row.mail /\ new.version = row.version /\ new.active = row.active
  /\ new.verified = row.verified /\ new.banned = row.banned /\ new.deleted = row.deleted
  /\ new.proven = row.proven /\ new.putBack = row.putBack

LEMMA UnlockedRow ==
  ASSUME NEW row \in Rows
  PROVE  Unlocked(row) \in Rows /\ SameAccount(Unlocked(row), row)
  BY DEF Unlocked, Rows, SameAccount

LEMMA LapsedRow ==
  ASSUME NEW row \in Rows
  PROVE  Lapsed(row) \in Rows /\ SameAccount(Lapsed(row), row)
  BY UnlockedRow DEF Lapsed, SameAccount

LEMMA FailedRow ==
  ASSUME NEW row \in Rows
  PROVE  Failed(row) \in Rows /\ SameAccount(Failed(row), row)
<1>1. Lapsed(row).fails + 1 \in Nat
  BY LapsedRow DEF Rows
<1>. QED
  BY <1>1 DEF Failed, Rows, SameAccount

LEMMA BarredRow ==
  ASSUME NEW row \in Rows
  PROVE  LET new == Barred(row) IN
         /\ new \in Rows /\ new.banned /\ ~new.active
         /\ new.version = row.version + 1 /\ new.verified = (row.verified \/ row.active)
         /\ new.mail = row.mail /\ new.deleted = row.deleted
         /\ new.proven = row.proven /\ new.putBack = row.putBack
<1>. DEFINE v == row.verified \/ row.active
            n == row.version + 1
            new == [row EXCEPT !.banned = TRUE, !.active = FALSE, !.verified = v, !.version = n]
<1>1. v \in BOOLEAN
  BY Zenon
<1>2. n \in Nat
  BY DEF Rows
<1>3. Barred(row) = new
  BY DEF Barred
<1>. HIDE DEF v, n
<1>4. /\ new \in Rows /\ new.banned /\ ~new.active /\ new.version = n /\ new.verified = v
      /\ new.mail = row.mail /\ new.deleted = row.deleted
      /\ new.proven = row.proven /\ new.putBack = row.putBack
  BY <1>1, <1>2 DEF Rows
<1>. QED
  BY <1>3, <1>4, Zenon DEF v, n

LEMMA PardonedRow ==
  ASSUME NEW row \in Rows, NEW was \in BOOLEAN
  PROVE  LET new == Pardoned(row, was) IN
         /\ new \in Rows /\ ~new.banned /\ new.active = (was /\ row.verified)
         /\ new.version = row.version + 1 /\ new.verified = row.verified
         /\ new.mail = row.mail /\ new.deleted = row.deleted
         /\ new.proven = row.proven /\ new.putBack = row.putBack
<1>. DEFINE v == was /\ row.verified
            n == row.version + 1
            new == [row EXCEPT !.banned = FALSE, !.active = v, !.version = n]
<1>1. v \in BOOLEAN
  BY Zenon
<1>2. n \in Nat
  BY DEF Rows
<1>3. Pardoned(row, was) = new
  BY DEF Pardoned
<1>. HIDE DEF v, n
<1>4. /\ new \in Rows /\ ~new.banned /\ new.active = v /\ new.version = n /\ new.verified = row.verified
      /\ new.mail = row.mail /\ new.deleted = row.deleted
      /\ new.proven = row.proven /\ new.putBack = row.putBack
  BY <1>1, <1>2 DEF Rows
<1>. QED
  BY <1>3, <1>4, Zenon DEF v, n

(* What a late save of an object leaves in the row.                          *)
Saved(new, row, held) ==
  /\ new \in Rows
  /\ new.active = (held.active /\ ~row.banned)
  /\ new.putBack = (row.putBack \/ row.mail # held.mail)
  /\ new.mail = held.mail /\ new.deleted = held.deleted
  /\ new.version = row.version /\ new.banned = row.banned
  /\ new.verified = row.verified /\ new.proven = row.proven

LEMMA SavedRow ==
  ASSUME NEW row \in Rows, NEW held \in Rows
  PROVE  Saved(SavedOver(row, held), row, held)
<1>. DEFINE v == held.active /\ ~row.banned
            w == row.putBack \/ row.mail # held.mail
            new == [held EXCEPT !.banned = row.banned, !.version = row.version, !.verified = row.verified,
                                !.active = v, !.proven = row.proven, !.putBack = w]
<1>1. v \in BOOLEAN /\ w \in BOOLEAN
  BY Zenon
<1>2. SavedOver(row, held) = new
  BY DEF SavedOver
<1>. HIDE DEF v, w
<1>3. /\ new \in Rows /\ new.active = v /\ new.putBack = w
      /\ new.mail = held.mail /\ new.deleted = held.deleted
      /\ new.version = row.version /\ new.banned = row.banned
      /\ new.verified = row.verified /\ new.proven = row.proven
  BY <1>1 DEF Rows
<1>. QED
  BY <1>2, <1>3, Zenon DEF v, w, Saved

LEMMA ErasedRow ==
  ASSUME NEW row \in Rows
  PROVE  Erased(row) \in Rows /\ RowOK(Erased(row)) /\ Erased(Erased(row)) = Erased(row)
  BY DEF Erased, Unregistered, Rows, RowOK

LEMMA DeletedRow ==
  ASSUME NEW row, RowOK(row), row.deleted
  PROVE  row.mail = NoOne /\ ~row.active /\ row.lock = "none"
<1>1. row = Erased(row)
  BY DEF RowOK
<1>2. Erased(row).mail = NoOne /\ ~Erased(row).active /\ Erased(row).lock = "none"
  BY DEF Erased, Unregistered
<1>. QED
  BY <1>1, <1>2

-----------------------------------------------------------------------------
(* One row changes.                                                          *)

(* Between two states no account forgets: versions grow, the bans with them, *)
(* and what is deleted stays deleted.                                        *)
Later(u) ==
  /\ account[u].version <= account'[u].version
  /\ account'[u].version = account[u].version => era'[u] = era[u]
  /\ account'[u].deleted \/ (account[u].verified => account'[u].verified)
  /\ account'[u].deleted \/ account[u].proven \subseteq account'[u].proven
  /\ account[u].deleted => account'[u].deleted
  /\ account[u].mail \in Mails => account'[u].mail \in Mails \/ account'[u].deleted

Grown == \A u \in Users : Later(u)

(* What an operation that bans nobody may write into the row of u.           *)
MayBecome(u, row) ==
  /\ row \in Rows /\ RowOK(row)
  /\ row.version = account[u].version /\ row.banned = account[u].banned
  /\ account[u].deleted => row.deleted
  /\ account[u].mail \in Mails => row.mail \in Mails \/ row.deleted
  /\ row.deleted \/ (account[u].verified => row.verified)
  /\ row.deleted \/ account[u].proven \subseteq row.proven
  /\ row.mail \in Mails => row.mail = account[u].mail \/ Owners(row.mail) \subseteq {u}
  /\ row.verified /\ ~row.deleted =>
       \/ row.putBack
       \/ ~MailBanned(row.mail)
       \/ row.mail = account[u].mail /\ account[u].verified /\ ~account[u].deleted /\ ~account[u].putBack

LEMMA OneRow ==
  ASSUME RowsInv, NEW u \in Users, NEW row, MayBecome(u, row),
         account' = [account EXCEPT ![u] = row],
         UNCHANGED <<ban, loose, era>>
  PROVE  RowsInv' /\ Grown
<1>1. account' \in [Users -> Rows] /\ account'[u] = row /\ \A v \in Users \ {u} : account'[v] = account[v]
  BY DEF RowsInv, MayBecome
<1>2. era' \in [Users -> Nat] /\ ban' \in [Users -> Bans \cup {NoOne}]
  BY DEF RowsInv
<1>3. \A v \in Users : RowOK(account'[v])
  BY <1>1 DEF RowsInv, MayBecome
<1>4. \A v \in Users : MailFree(v)'
  <2>1. CASE account[u].mail = row.mail
    BY <1>1, <2>1 DEF RowsInv, MailFree, BannedElsewhere, MayBecome, MailBanned
  <2>2. CASE account[u].mail # row.mail
    BY <1>1, <2>2 DEF RowsInv, MailFree, BannedElsewhere, MayBecome, MailBanned
  <2>. QED
    BY <2>1, <2>2
<1>5. \A v \in Users : BanKept(v)'
  BY <1>1 DEF RowsInv, BanKept, MayBecome
<1>6. OneOwner'
  BY <1>1 DEF RowsInv, OneOwner, MayBecome, Owners
<1>7. Grown
  <2>1. \A v \in Users : account[v].version \in Nat
    BY DEF RowsInv, Rows
  <2>. QED
    BY <1>1, <2>1 DEF Grown, Later, MayBecome
<1>. QED
  BY <1>1, <1>2, <1>3, <1>4, <1>5, <1>6, <1>7 DEF RowsInv, RowOK, Erased

(* The same row in what counts. *)
LEMMA SameRow ==
  ASSUME RowsInv, NEW u \in Users, NEW row \in Rows, SameAccount(row, account[u]), ~account[u].deleted
  PROVE  MayBecome(u, row)
<1>1. account[u] \in Rows /\ RowOK(account[u]) /\ MailFree(u)
  BY DEF RowsInv
<1>. QED
  BY <1>1 DEF SameAccount, MayBecome, RowOK, MailFree

LEMMA ActivatedRow ==
  ASSUME RowsInv, NEW u \in Users, account[u].mail \in Mails, ~account[u].deleted, ~account[u].banned,
         Allowed(account[u].mail)
  PROVE  MayBecome(u, Activated(account[u]))
<1>1. account[u] \in Rows
  BY DEF RowsInv
<1>2. Activated(account[u]) \in Rows
  BY <1>1 DEF Activated, Rows
<1>. QED
  BY <1>1, <1>2 DEF Activated, MayBecome, RowOK, Allowed, Rows

LEMMA MovedRow ==
  ASSUME RowsInv, NEW u \in Users, NEW m \in Mails, account[u].active, ~account[u].deleted, ~account[u].banned,
         Allowed(m), Owners(m) \ {u} = {}
  PROVE  MayBecome(u, Moved(account[u], m))
<1>1. account[u] \in Rows
  BY DEF RowsInv
<1>2. Moved(account[u], m) \in Rows
  BY <1>1 DEF Moved, Rows
<1>. QED
  BY <1>1, <1>2 DEF Moved, MayBecome, RowOK, Allowed, Rows

LEMMA RegisteredRow ==
  ASSUME RowsInv, NEW u \in Users, NEW m \in Mails, account[u] = Unregistered, Owners(m) = {}
  PROVE  MayBecome(u, [account[u] EXCEPT !.mail = m])
<1>1. [account[u] EXCEPT !.mail = m] \in Rows
  BY FirstRow DEF Rows
<1>. QED
  BY <1>1 DEF Unregistered, MayBecome, RowOK

LEMMA HeldRow ==
  ASSUME RowsInv, NEW u \in Users, NEW held \in Rows, HeldOK(held, account[u]), ~account[u].deleted,
         Owners(held.mail) \subseteq {u}
  PROVE  MayBecome(u, SavedOver(account[u], [held EXCEPT !.password = @ + 1]))
<1>1. account[u] \in Rows /\ RowOK(account[u]) /\ MailFree(u)
  BY DEF RowsInv
<1>. DEFINE h == [held EXCEPT !.password = @ + 1]
<1>2. h \in Rows /\ h.mail = held.mail /\ h.active = held.active /\ h.deleted = held.deleted
  BY DEF Rows
<1>. HIDE DEF h
<1>. DEFINE row == SavedOver(account[u], h)
<1>3. Saved(row, account[u], h)
  BY <1>1, <1>2, SavedRow
<1>. HIDE DEF row
<1>4. /\ row \in Rows /\ row.mail = h.mail /\ row.deleted = h.deleted /\ row.banned = account[u].banned
      /\ row.version = account[u].version /\ row.verified = account[u].verified /\ row.proven = account[u].proven
  BY <1>3 DEF Saved
<1>5. row.active => ~account[u].banned
  BY <1>3, Zenon DEF Saved
<1>6. account[u].putBack \/ account[u].mail # h.mail => row.putBack
  BY <1>3, Zenon DEF Saved
<1>7. RowOK(row)
  BY <1>1, <1>2, <1>3, <1>4, <1>5 DEF RowOK, HeldOK, Rows
<1>8. MayBecome(u, row)
  BY <1>1, <1>2, <1>3, <1>4, <1>6, <1>7 DEF MayBecome, HeldOK, Rows
<1>. QED
  BY <1>8 DEF row, h

-----------------------------------------------------------------------------
(* Bans come and go.                                                         *)

LEMMA DisableStep ==
  ASSUME RowsInv, NEW u \in Users, NEW also, also \subseteq {account[u].mail},
         account[u].mail \in Mails, ~account[u].banned, Disable(u, also), UNCHANGED loose
  PROVE  RowsInv' /\ Grown
<1>. DEFINE row == Barred(account[u])
            own == [wasActive |-> account[u].active,
                    mails |-> also \cup IF account[u].verified \/ account[u].active THEN {account[u].mail} ELSE {}]
<1>1. account[u] \in Rows /\ RowOK(account[u]) /\ MailFree(u) /\ ~account[u].deleted
  BY DeletedRow DEF RowsInv
<1>2. row \in Rows
  BY <1>1, BarredRow
<1>3. /\ row.mail = account[u].mail /\ row.deleted = account[u].deleted /\ row.banned /\ ~row.active
      /\ row.version = account[u].version + 1 /\ row.proven = account[u].proven /\ row.putBack = account[u].putBack
  BY <1>1, BarredRow
<1>4. row.verified = account[u].verified
  <2>1. row.verified = (account[u].verified \/ account[u].active)
    BY <1>1, BarredRow
  <2>2. account[u].active => account[u].verified
    BY <1>1 DEF RowOK
  <2>3. account[u].verified \in BOOLEAN
    BY <1>1 DEF Rows
  <2>. QED
    BY <2>1, <2>2, <2>3, Zenon
<1>5. own \in Bans /\ own.mails \subseteq {account[u].mail}
  BY <1>1 DEF Bans, Rows
<1>6. own # NoOne
  BY <1>5
<1>7. account' = [account EXCEPT ![u] = row] /\ ban' = [ban EXCEPT ![u] = own] /\ era' = [era EXCEPT ![u] = @ + 1]
  BY DEF Disable
<1>. HIDE DEF row, own
<1>8. /\ account' \in [Users -> Rows] /\ account'[u] = row /\ \A v \in Users \ {u} : account'[v] = account[v]
      /\ ban' \in [Users -> Bans \cup {NoOne}] /\ ban'[u] = own /\ \A v \in Users \ {u} : ban'[v] = ban[v]
      /\ era' \in [Users -> Nat] /\ \A v \in Users \ {u} : era'[v] = era[v]
  BY <1>2, <1>5, <1>7 DEF RowsInv
<1>9. \A v \in Users : RowOK(account'[v])
  BY <1>1, <1>2, <1>3, <1>4, <1>8 DEF RowsInv, RowOK
<1>10. \A v \in Users : account'[v].mail = account[v].mail /\ account'[v].deleted = account[v].deleted
                        /\ account'[v].verified = account[v].verified /\ account'[v].putBack = account[v].putBack
  BY <1>3, <1>4, <1>8
<1>11. \A v \in Users : BannedElsewhere(v)' /\ account[v].mail \in Mails => BannedElsewhere(v)
  BY <1>5, <1>8, <1>10 DEF BannedElsewhere, RowsInv, OneOwner
<1>12. \A v \in Users : MailFree(v)'
  <2>. SUFFICES ASSUME NEW v \in Users, account[v].verified, ~account[v].deleted
                PROVE  account[v].putBack \/ ~BannedElsewhere(v)'
    BY <1>10 DEF MailFree
  <2>1. account[v].mail \in Mails
    BY DEF RowsInv, RowOK
  <2>. QED
    BY <1>11, <2>1 DEF RowsInv, MailFree
<1>13. \A v \in Users : BanKept(v)'
  BY <1>3, <1>6, <1>8 DEF RowsInv, BanKept
<1>14. OneOwner'
  BY <1>10 DEF RowsInv, OneOwner
<1>15. Grown
  <2>1. \A v \in Users : account[v].version \in Nat
    BY DEF RowsInv, Rows
  <2>. QED
    BY <1>3, <1>4, <1>8, <1>10, <2>1 DEF Grown, Later
<1>. QED
  BY <1>8, <1>9, <1>12, <1>13, <1>14, <1>15 DEF RowsInv, RowOK, Erased

LEMMA RevokeStep ==
  ASSUME RowsInv, NEW u \in Users, Revoke(u)
  PROVE  RowsInv' /\ Grown
<1>. DEFINE row == IF account[u].deleted THEN account[u] ELSE Pardoned(account[u], ban[u].wasActive)
<1>1. account[u] \in Rows /\ RowOK(account[u]) /\ MailFree(u) /\ ban[u] \in Bans
  BY DEF RowsInv, Revoke
<1>2. ban[u].wasActive \in BOOLEAN
  BY <1>1 DEF Bans
<1>3. row \in Rows
  BY <1>1, <1>2, PardonedRow
<1>4. /\ row.mail = account[u].mail /\ row.deleted = account[u].deleted /\ row.verified = account[u].verified
      /\ row.proven = account[u].proven /\ row.putBack = account[u].putBack
      /\ row.version >= account[u].version /\ (~account[u].deleted => row.version > account[u].version)
      /\ (~account[u].deleted => ~row.banned) /\ (account[u].deleted => row = account[u])
  BY <1>1, <1>2, PardonedRow DEF Rows
<1>5. row.active => row.verified /\ ~row.banned
  <2>1. CASE account[u].deleted
    BY <1>1, <1>4, <2>1 DEF RowOK
  <2>2. CASE ~account[u].deleted
    <3>1. row = Pardoned(account[u], ban[u].wasActive)
      BY <2>2
    <3>2. row.active = (ban[u].wasActive /\ account[u].verified)
      BY <1>1, <1>2, <3>1, PardonedRow
    <3>3. row.active => account[u].verified
      BY <3>2, Zenon
    <3>. QED
      BY <1>4, <2>2, <3>3
  <2>. QED
    BY <2>1, <2>2
<1>6. account' = [account EXCEPT ![u] = row] /\ ban' = [ban EXCEPT ![u] = NoOne] /\ UNCHANGED <<loose, era>>
  BY DEF Revoke
<1>. HIDE DEF row
<1>7. /\ account' \in [Users -> Rows] /\ account'[u] = row /\ \A v \in Users \ {u} : account'[v] = account[v]
      /\ ban' \in [Users -> Bans \cup {NoOne}] /\ ban'[u] = NoOne /\ \A v \in Users \ {u} : ban'[v] = ban[v]
      /\ era' \in [Users -> Nat] /\ era' = era /\ loose' = loose
  BY <1>3, <1>6 DEF RowsInv
<1>8. \A v \in Users : RowOK(account'[v])
  BY <1>1, <1>4, <1>5, <1>7 DEF RowsInv, RowOK
<1>9. \A v \in Users : account'[v].mail = account[v].mail /\ account'[v].deleted = account[v].deleted
                       /\ account'[v].verified = account[v].verified /\ account'[v].putBack = account[v].putBack
  BY <1>4, <1>7
<1>10. \A v \in Users : BannedElsewhere(v)' => BannedElsewhere(v)
  BY <1>7, <1>9 DEF BannedElsewhere
<1>11. \A v \in Users : MailFree(v)'
  BY <1>9, <1>10 DEF RowsInv, MailFree
<1>12. \A v \in Users : BanKept(v)'
  BY <1>4, <1>7 DEF RowsInv, BanKept
<1>13. OneOwner'
  BY <1>9 DEF RowsInv, OneOwner
<1>14. Grown
  <2>1. \A v \in Users : account[v].version \in Nat /\ account'[v].version \in Nat
    BY <1>7 DEF RowsInv, Rows
  <2>2. ~account[u].deleted \/ row = account[u]
    BY <1>4
  <2>. QED
    BY <1>4, <1>7, <1>9, <2>1, <2>2 DEF Grown, Later
<1>. QED
  BY <1>7, <1>8, <1>11, <1>12, <1>13, <1>14 DEF RowsInv, RowOK, Erased

(* An address that nobody has.                                               *)
LEMMA LooseStep ==
  ASSUME RowsInv, UNCHANGED <<account, ban, era>>,
         NEW m \in Mails, loose' \subseteq loose \/ (Owners(m) = {} /\ loose' = loose \cup {m})
  PROVE  RowsInv' /\ Grown
<1>1. \A v \in Users : BannedElsewhere(v)' => BannedElsewhere(v)
  BY DEF BannedElsewhere, Owners
<1>2. \A v \in Users : MailFree(v)'
  BY <1>1 DEF RowsInv, MailFree
<1>3. Grown
  BY DEF Grown, Later, RowsInv, Rows
<1>. QED
  BY <1>2, <1>3 DEF RowsInv, RowOK, Erased, BanKept, OneOwner

(* The address of a user who is banned already.                              *)
LEMMA AddedStep ==
  ASSUME RowsInv, UNCHANGED <<account, loose, era>>, NEW u \in Users, account[u].banned,
         account[u].mail \in Mails, ban' = [ban EXCEPT ![u].mails = @ \cup {account[u].mail}]
  PROVE  RowsInv' /\ Grown
<1>1. account[u] \in Rows /\ RowOK(account[u]) /\ BanKept(u) /\ ~account[u].deleted
  BY DeletedRow DEF RowsInv
<1>2. ban[u] \in Bans
  BY <1>1 DEF RowsInv, BanKept
<1>. DEFINE own == [ban[u] EXCEPT !.mails = @ \cup {account[u].mail}]
<1>3. own \in Bans /\ own.mails = ban[u].mails \cup {account[u].mail}
  BY <1>2 DEF Bans
<1>4. own # NoOne
  BY <1>3
<1>5. ban' = [ban EXCEPT ![u] = own]
  OBVIOUS
<1>. HIDE DEF own
<1>6. ban' \in [Users -> Bans \cup {NoOne}] /\ ban'[u] = own /\ \A v \in Users \ {u} : ban'[v] = ban[v]
  BY <1>3, <1>5 DEF RowsInv
<1>7. \A v \in Users : BannedElsewhere(v)' /\ account[v].mail \in Mails => BannedElsewhere(v)
  BY <1>2, <1>3, <1>6 DEF BannedElsewhere, RowsInv, OneOwner
<1>8. \A v \in Users : MailFree(v)'
  <2>. SUFFICES ASSUME NEW v \in Users, account[v].verified, ~account[v].deleted
                PROVE  account[v].putBack \/ ~BannedElsewhere(v)'
    BY DEF MailFree
  <2>1. account[v].mail \in Mails
    BY DEF RowsInv, RowOK
  <2>. QED
    BY <1>7, <2>1 DEF RowsInv, MailFree
<1>9. \A v \in Users : BanKept(v)'
  BY <1>1, <1>4, <1>6 DEF RowsInv, BanKept
<1>10. Grown
  BY DEF Grown, Later, RowsInv, Rows
<1>. QED
  BY <1>6, <1>8, <1>9, <1>10 DEF RowsInv, RowOK, Erased, OneOwner

-----------------------------------------------------------------------------
(* What sessions, links, requests and codes remember survives.               *)

LEMMA FreshLater ==
  ASSUME RowsInv, RowsInv', NEW u \in Users, Later(u), NEW version \in Nat, NEW e, Fresh(u, version, e)
  PROVE  Fresh(u, version, e)'
<1>1. account[u].version \in Nat /\ account'[u].version \in Nat
  BY DEF RowsInv, Rows
<1>. QED
  BY <1>1 DEF Fresh, Later

LEMMA GrantsKept ==
  ASSUME RowsInv, GrantsInv, RowsInv', Grown,
         \A g \in grants' \ grants : g \in Grants /\ Fresh(g.user, g.version, g.saved)'
  PROVE  GrantsInv'
<1>. SUFFICES ASSUME NEW g \in grants'
              PROVE  g \in Grants /\ Fresh(g.user, g.version, g.saved)'
  BY DEF GrantsInv
<1>1. CASE g \in grants
  <2>1. g \in Grants /\ Fresh(g.user, g.version, g.saved)
    BY <1>1 DEF GrantsInv
  <2>2. g.user \in Users /\ g.version \in Nat
    BY <2>1 DEF Grants
  <2>. QED
    BY <2>1, <2>2, FreshLater DEF Grown
<1>. QED
  BY <1>1

LEMMA RequestLater ==
  ASSUME RowsInv, RowsInv', Grown, NEW r \in Requests, RequestOK(r)
  PROVE  RequestOK(r)'
<1>1. r.row.version \in Nat
  BY DEF Requests, Rows
<1>2. r.phase \in {"verify", "accepted"} => Fresh(r.user, r.row.version, r.era)'
  BY <1>1, FreshLater DEF RequestOK, Grown
<1>3. r.phase = "own" => HeldOK(r.row, account'[r.user])
  BY DEF RequestOK, HeldOK, Grown, Later
<1>. QED
  BY <1>2, <1>3 DEF RequestOK

LEMMA IdleRequest == Idle \in Requests /\ RequestOK(Idle) /\ RequestOK(Idle)'
  BY FirstRow DEF Idle, Requests, RequestOK, Phases

LEMMA RequestsKept ==
  ASSUME RowsInv, RequestsInv, RowsInv', Grown,
         pending' \in [Browsers -> Requests],
         \A b \in Browsers : pending'[b] = pending[b] \/ RequestOK(pending[b])',
         waiting' \in [Browsers -> Users \cup {NoOne}]
  PROVE  RequestsInv'
<1>. SUFFICES ASSUME NEW b \in Browsers PROVE RequestOK(pending[b])'
  BY DEF RequestsInv
<1>1. CASE pending'[b] = pending[b]
  <2>. DEFINE r == pending[b]
  <2>1. r \in Requests /\ RequestOK(r)
    BY DEF RequestsInv
  <2>. HIDE DEF r
  <2>2. RowsInv /\ RowsInv' /\ Grown => \A s \in Requests : RequestOK(s) => RequestOK(s)'
    BY RequestLater
  <2>. QED
    BY <1>1, <2>1, <2>2 DEF r, RequestOK
<1>. QED
  BY <1>1

LEMMA CodesKept ==
  ASSUME CodesInv, UNCHANGED code, \A u \in Users : account[u].mail \in Mails => account'[u].mail \in Mails
  PROVE  CodesInv'
  BY DEF CodesInv

LEMMA SameRows ==
  ASSUME RowsInv, UNCHANGED <<account, ban, loose, era>>
  PROVE  RowsInv' /\ Grown
<1>1. Grown
  BY DEF RowsInv, Rows, Grown, Later
<1>. QED
  BY <1>1 DEF RowsInv, RowOK, Erased, MailFree, BannedElsewhere, BanKept, OneOwner

-----------------------------------------------------------------------------
(* The steps of the codes.                                                   *)

(* A new code. *)
LEMMA IssuedCode ==
  ASSUME CodesInv, NEW u \in Users, NEW p \in Purposes, NEW m \in Mails,
         code' = [code EXCEPT ![u][p] = NewCode(@, m)],
         \A v \in Users : account[v].mail \in Mails => account'[v].mail \in Mails,
         account'[u].mail \in Mails
  PROVE  CodesInv'
<1>1. code[u] \in [Purposes -> Codes] /\ code[u][p] \in Codes
  BY DEF CodesInv
<1>2. NewCode(code[u][p], m) \in Codes /\ NewCode(code[u][p], m).to = m
  BY <1>1 DEF NewCode, Codes
<1>3. code' = [code EXCEPT ![u] = [code[u] EXCEPT ![p] = NewCode(code[u][p], m)]]
  OBVIOUS
<1>. DEFINE new == NewCode(code[u][p], m)
<1>. HIDE DEF new
<1>4. code' \in [Users -> [Purposes -> Codes]]
  BY <1>1, <1>2, <1>3 DEF CodesInv, new
<1>5. \A v \in Users, q \in Purposes : code'[v][q] = IF v = u /\ q = p THEN new ELSE code[v][q]
  BY <1>1, <1>3 DEF CodesInv, new
<1>. QED
  BY <1>2, <1>4, <1>5 DEF CodesInv, new

(* A code that is used up, tried again or forgotten.                         *)
LEMMA ClosedCode ==
  ASSUME CodesInv, NEW u \in Users, NEW p \in Purposes, NEW new \in Codes,
         new.used \/ (~code[u][p].used /\ new.to = code[u][p].to),
         code' = [code EXCEPT ![u][p] = new],
         \A v \in Users : account[v].mail \in Mails => account'[v].mail \in Mails
  PROVE  CodesInv'
<1>1. code[u] \in [Purposes -> Codes]
  BY DEF CodesInv
<1>2. code' = [code EXCEPT ![u] = [code[u] EXCEPT ![p] = new]]
  OBVIOUS
<1>3. code' \in [Users -> [Purposes -> Codes]]
  BY <1>1, <1>2 DEF CodesInv
<1>4. \A v \in Users, q \in Purposes : code'[v][q] = IF v = u /\ q = p THEN new ELSE code[v][q]
  BY <1>1, <1>2 DEF CodesInv
<1>. QED
  BY <1>3, <1>4 DEF CodesInv

(* All codes of a user are used up. *)
LEMMA ClosedCodes ==
  ASSUME CodesInv, NEW u \in Users, NEW new \in [Purposes -> Codes], \A p \in Purposes : new[p].used,
         code' = [code EXCEPT ![u] = new],
         \A v \in Users \ {u} : account[v].mail \in Mails => account'[v].mail \in Mails
  PROVE  CodesInv'
<1>1. code' \in [Users -> [Purposes -> Codes]] /\ \A v \in Users : code'[v] = IF v = u THEN new ELSE code[v]
  BY DEF CodesInv
<1>. QED
  BY <1>1 DEF CodesInv

LEMMA CodeSteps ==
  ASSUME AccountsInv, CodesInv', UNCHANGED <<account, ban, loose, grants, pending, waiting, era>>
  PROVE  AccountsInv'
<1>1. RowsInv' /\ Grown
  BY SameRows DEF AccountsInv
<1>2. GrantsInv'
  BY <1>1, GrantsKept DEF AccountsInv
<1>3. RequestsInv'
  BY <1>1, RequestsKept DEF AccountsInv, RequestsInv
<1>. QED
  BY <1>1, <1>2, <1>3 DEF AccountsInv

LEMMA CodeAgesKeeps ==
  ASSUME AccountsInv, NEW u \in Users, NEW p \in Purposes, CodeAges(u, p)
  PROVE  AccountsInv'
<1>1. code[u] \in [Purposes -> Codes] /\ code[u][p] \in Codes
  BY DEF AccountsInv, CodesInv
<1>2. CodesInv'
  <2>1. CASE code[u][p].age = "new" /\ code' = [code EXCEPT ![u][p].age = "old"]
    <3>1. [code[u][p] EXCEPT !.age = "old"] \in Codes
      BY <1>1 DEF Codes
    <3>2. code' = [code EXCEPT ![u][p] = [code[u][p] EXCEPT !.age = "old"]]
      BY <2>1
    <3>. QED
      BY <1>1, <3>1, <3>2, ClosedCode DEF AccountsInv, CodesInv, CodeAges, Codes
  <2>2. CASE code[u][p].age = "old" /\ code' = [code EXCEPT ![u][p].age = "expired"]
    <3>1. [code[u][p] EXCEPT !.age = "expired"] \in Codes
      BY <1>1 DEF Codes
    <3>2. code' = [code EXCEPT ![u][p] = [code[u][p] EXCEPT !.age = "expired"]]
      BY <2>2
    <3>. QED
      BY <1>1, <3>1, <3>2, ClosedCode DEF AccountsInv, CodesInv, CodeAges, Codes
  <2>3. CASE /\ code[u][p].age = "expired" \/ (code[u][p].age = "old" /\ code[u][p].used)
             /\ code' = [code EXCEPT ![u][p].age = "expired", ![u][p].issued = 0]
    <3>. DEFINE kept == code[u][p]
                aged == [kept EXCEPT !.age = "expired"]
                new == [aged EXCEPT !.issued = 0]
    <3>1. kept \in Codes
      BY <1>1
    <3>2. aged \in Codes /\ aged.used = kept.used /\ aged.to = kept.to
      <4>. HIDE DEF kept
      <4>. QED
        BY <3>1 DEF Codes
    <3>3. new \in Codes /\ new.used = kept.used /\ new.to = kept.to
      <4>. HIDE DEF aged
      <4>. QED
        BY <3>2 DEF Codes
    <3>4. code' = [code EXCEPT ![u][p] = new]
      BY <1>1, <2>3 DEF AccountsInv, CodesInv, Codes
    <3>5. UNCHANGED account
      BY DEF CodeAges
    <3>6. kept.used \in BOOLEAN
      BY <3>1 DEF Codes
    <3>. HIDE DEF new, aged
    <3>. QED
      BY <3>3, <3>4, <3>5, <3>6, ClosedCode DEF AccountsInv
  <2>. QED
    BY <2>1, <2>2, <2>3 DEF CodeAges
<1>. QED
  BY <1>2, CodeSteps DEF CodeAges

LEMMA ResendKeeps ==
  ASSUME AccountsInv, NEW u \in Users, account[u].mail \in Mails, Resend(u)
  PROVE  AccountsInv'
<1>1. CodesInv'
  BY IssuedCode DEF AccountsInv, Resend, Purposes
<1>. QED
  BY <1>1, CodeSteps DEF Resend

LEMMA LiveMail ==
  ASSUME AccountsInv, NEW u \in Users, Registered(u)
  PROVE  account[u].mail \in Mails /\ ~account[u].deleted
<1>1. account[u] \in Rows /\ RowOK(account[u])
  BY DEF AccountsInv, RowsInv
<1>. QED
  BY <1>1, DeletedRow DEF Registered, Rows

LEMMA ActiveMail ==
  ASSUME AccountsInv, NEW u \in Users, account[u].active
  PROVE  account[u].mail \in Mails /\ ~account[u].deleted /\ account[u].verified /\ ~account[u].banned
<1>1. account[u] \in Rows /\ RowOK(account[u])
  BY DEF AccountsInv, RowsInv
<1>. QED
  BY <1>1, DeletedRow DEF RowOK

LEMMA RequestChangeKeeps ==
  ASSUME AccountsInv, NEW u \in Users, NEW m \in Mails, RequestChange(u, m)
  PROVE  AccountsInv'
<1>1. account[u].mail \in Mails
  BY ActiveMail DEF RequestChange
<1>2. CodesInv'
  BY <1>1, IssuedCode DEF AccountsInv, RequestChange, Purposes
<1>. QED
  BY <1>2, CodeSteps DEF RequestChange

LEMMA ResendChangeKeeps ==
  ASSUME AccountsInv, NEW u \in Users, ResendChange(u)
  PROVE  AccountsInv'
<1>1. PendingMail(u) \in Mails
  BY DEF ResendChange, PendingMail, AccountsInv, CodesInv, Purposes
<1>. QED
  BY <1>1, RequestChangeKeeps DEF ResendChange

LEMMA CancelChangeKeeps ==
  ASSUME AccountsInv, NEW u \in Users, CancelChange(u)
  PROVE  AccountsInv'
<1>. DEFINE new == [code[u]["change"] EXCEPT !.used = TRUE]
<1>1. code[u]["change"] \in Codes
  BY DEF AccountsInv, CodesInv, Purposes
<1>2. new \in Codes /\ new.used
  BY <1>1 DEF Codes
<1>3. code' = [code EXCEPT ![u]["change"] = new]
  BY DEF CancelChange
<1>. HIDE DEF new
<1>4. CodesInv'
  BY <1>2, <1>3, ClosedCode DEF AccountsInv, CancelChange, Purposes
<1>. QED
  BY <1>4, CodeSteps DEF CancelChange

LEMMA WrongCodeKeeps ==
  ASSUME CodesInv, NEW u \in Users, NEW p \in Purposes, ~code[u][p].used, WrongCode(u, p), UNCHANGED account
  PROVE  CodesInv'
<1>. DEFINE w == code[u][p].tries + 1 >= MaxTries
            n == code[u][p].tries + 1
            new == [code[u][p] EXCEPT !.tries = n, !.used = w]
<1>1. code[u] \in [Purposes -> Codes] /\ code[u][p] \in Codes /\ w \in BOOLEAN /\ n \in Nat
  BY DEF CodesInv, Codes
<1>2. code' = [code EXCEPT ![u][p].tries = n, ![u][p].used = w]
  BY DEF WrongCode
<1>. HIDE DEF w, n
<1>3. new \in Codes /\ new.to = code[u][p].to
  BY <1>1 DEF Codes
<1>4. code' = [code EXCEPT ![u][p] = new]
  BY <1>1, <1>2 DEF CodesInv
<1>. HIDE DEF new
<1>. QED
  BY <1>3, <1>4, ClosedCode

LEMMA ConfirmChangeKeeps ==
  ASSUME AccountsInv, NEW u \in Users, ConfirmChange(u)
  PROVE  AccountsInv'
<1>. DEFINE m == code[u]["change"].to
<1>1. m \in Mails /\ ~code[u]["change"].used /\ Allowed(m) /\ UNCHANGED <<ban, loose, grants, pending, waiting, era>>
  BY DEF AccountsInv, CodesInv, ConfirmChange, Consumable, Purposes
<1>2. account[u].active /\ account[u].mail \in Mails /\ ~account[u].deleted /\ ~account[u].banned
  BY ActiveMail DEF ConfirmChange
<1>3. CASE WrongCode(u, "change") /\ UNCHANGED account
  <2>1. CodesInv'
    BY <1>1, <1>3, WrongCodeKeeps DEF AccountsInv, Purposes
  <2>. QED
    BY <1>1, <1>3, <2>1, CodeSteps
<1>4. CASE /\ Owners(m) \ {u} = {}
           /\ account' = [account EXCEPT ![u] = Moved(@, m)]
           /\ code' = [code EXCEPT ![u]["change"].used = TRUE]
  <2>. HIDE DEF m
  <2>1. MayBecome(u, Moved(account[u], m))
    BY <1>1, <1>2, <1>4, MovedRow DEF AccountsInv
  <2>2. RowsInv' /\ Grown
    BY <1>1, <1>4, <2>1, OneRow DEF AccountsInv
  <2>3. \A v \in Users : account[v].mail \in Mails => account'[v].mail \in Mails
    <3>1. Moved(account[u], m).mail = m
      BY DEF Moved, AccountsInv, RowsInv, Rows
    <3>. QED
      BY <1>1, <1>4, <3>1 DEF AccountsInv, RowsInv
  <2>4. CodesInv'
    <3>. DEFINE new == [code[u]["change"] EXCEPT !.used = TRUE]
    <3>1. code[u]["change"] \in Codes
      BY DEF AccountsInv, CodesInv, Purposes
    <3>2. new \in Codes /\ new.used
      BY <3>1 DEF Codes
    <3>3. code' = [code EXCEPT ![u]["change"] = new]
      BY <1>4
    <3>. HIDE DEF new
    <3>. QED
      BY <2>3, <3>2, <3>3, ClosedCode DEF AccountsInv, Purposes
  <2>5. GrantsInv'
    BY <1>1, <2>2, GrantsKept DEF AccountsInv
  <2>6. RequestsInv'
    BY <1>1, <2>2, RequestsKept DEF AccountsInv, RequestsInv
  <2>. QED
    BY <2>2, <2>4, <2>5, <2>6 DEF AccountsInv
<1>. QED
  BY <1>3, <1>4 DEF ConfirmChange

(* A row changes only in what no ban, address or deletion is about.          *)
LEMMA SmallSteps ==
  ASSUME AccountsInv, NEW u \in Users, NEW row \in Rows, SameAccount(row, account[u]), ~account[u].deleted,
         account' = [account EXCEPT ![u] = row], UNCHANGED <<code, ban, loose, grants, era>>,
         pending' \in [Browsers -> Requests],
         \A b \in Browsers : pending'[b] = pending[b] \/ RequestOK(pending[b])',
         waiting' \in [Browsers -> Users \cup {NoOne}]
  PROVE  AccountsInv'
<1>1. RowsInv' /\ Grown
  BY SameRow, OneRow DEF AccountsInv
<1>2. GrantsInv'
  BY <1>1, GrantsKept DEF AccountsInv
<1>3. RequestsInv'
  BY <1>1, RequestsKept DEF AccountsInv
<1>4. CodesInv'
  BY CodesKept DEF AccountsInv, RowsInv, SameAccount
<1>. QED
  BY <1>1, <1>2, <1>3, <1>4 DEF AccountsInv

LEMMA CredentialsRow ==
  ASSUME NEW row \in Rows
  PROVE  Credentials(row) \in Rows /\ Credentials(row).version = row.version
  BY DEF Credentials, Unregistered, Rows

(* A request that begins. *)
LEMMA NewRequest ==
  ASSUME AccountsInv, NEW u \in Users, NEW phase \in Phases \ {"own"}
  PROVE  /\ Request(phase, u) \in Requests
         /\ Request(phase, u).phase = phase /\ Request(phase, u).user = u
         /\ Request(phase, u).row.version = account[u].version /\ Request(phase, u).era = era[u]
  BY CredentialsRow DEF Request, Requests, AccountsInv, RowsInv

-----------------------------------------------------------------------------
(* The steps of registration, login, links and passwords.                    *)

LEMMA RegisterKeeps ==
  ASSUME AccountsInv, NEW b \in Browsers, NEW u \in Users, NEW m \in Mails, Register(b, u, m)
  PROVE  AccountsInv'
<1>. DEFINE row == [account[u] EXCEPT !.mail = m]
<1>1. /\ account[u] = Unregistered /\ Owners(m) = {} /\ account' = [account EXCEPT ![u] = row]
      /\ code' = [code EXCEPT ![u]["activate"] = NewCode(@, m)]
      /\ waiting' = [waiting EXCEPT ![b] = u] /\ UNCHANGED <<ban, loose, grants, pending, era>>
  BY DEF Register, RegisterUser, FormTakes
<1>2. MayBecome(u, row) /\ row.mail = m
  BY <1>1, RegisteredRow DEF AccountsInv, Unregistered
<1>. HIDE DEF row
<1>3. RowsInv' /\ Grown
  BY <1>1, <1>2, OneRow DEF AccountsInv
<1>4. CodesInv'
  <2>1. account'[u].mail \in Mails /\ \A v \in Users : account[v].mail \in Mails => account'[v].mail \in Mails
    BY <1>1, <1>2 DEF AccountsInv, RowsInv
  <2>. QED
    BY <1>1, <2>1, IssuedCode DEF AccountsInv, Purposes
<1>5. GrantsInv'
  BY <1>1, <1>3, GrantsKept DEF AccountsInv
<1>6. RequestsInv'
  BY <1>1, <1>3, RequestsKept DEF AccountsInv, RequestsInv
<1>. QED
  BY <1>3, <1>4, <1>5, <1>6 DEF AccountsInv

LEMMA RowFacts ==
  ASSUME AccountsInv, NEW u \in Users
  PROVE  account[u] \in Rows /\ RowOK(account[u])
  BY DEF AccountsInv, RowsInv

LEMMA LoginCheckKeeps ==
  ASSUME AccountsInv, NEW b \in Browsers, NEW u \in Users, LoginCheck(b, u)
  PROVE  AccountsInv'
<1>. DEFINE r == [Request("password", u) EXCEPT !.row.version = 0, !.era = 0]
            row == Lapsed(account[u])
<1>1. r \in Requests /\ r.phase = "password" /\ r.user = u
  <2>. DEFINE q == Request("password", u)
  <2>1. q \in Requests /\ q.phase = "password" /\ q.user = u
    BY NewRequest DEF Phases
  <2>2. r = [q EXCEPT !.row.version = 0, !.era = 0]
    OBVIOUS
  <2>. HIDE DEF q, r
  <2>3. [q.row EXCEPT !.version = 0] \in Rows
    BY <2>1 DEF Requests, Rows
  <2>4. [q EXCEPT !.row.version = 0, !.era = 0] = [q EXCEPT !.row = [q.row EXCEPT !.version = 0], !.era = 0]
    BY <2>1 DEF Requests
  <2>. QED
    BY <2>1, <2>2, <2>3, <2>4 DEF Requests
<1>2. row \in Rows /\ SameAccount(row, account[u])
  BY RowFacts, LapsedRow
<1>3. /\ account' = [account EXCEPT ![u] = row] /\ pending' = [pending EXCEPT ![b] = r]
      /\ UNCHANGED <<code, ban, loose, grants, waiting, era>> /\ ~account[u].deleted
  BY LiveMail DEF LoginCheck, Live
<1>. HIDE DEF r, row
<1>4. pending' \in [Browsers -> Requests] /\ \A c \in Browsers : pending'[c] = IF c = b THEN r ELSE pending[c]
  BY <1>1, <1>3 DEF AccountsInv, RequestsInv
<1>5. \A c \in Browsers : pending'[c] = pending[c] \/ RequestOK(pending[c])'
  BY <1>1, <1>4 DEF RequestOK
<1>6. waiting' \in [Browsers -> Users \cup {NoOne}]
  BY <1>3 DEF AccountsInv, RequestsInv
<1>. QED
  BY <1>2, <1>3, <1>4, <1>5, <1>6, SmallSteps

(* Steps that change nothing but a row, in what no ban is about.             *)
LEMMA RowSteps ==
  ASSUME AccountsInv, NEW u \in Users, NEW row \in Rows, SameAccount(row, account[u]), ~account[u].deleted,
         account' = [account EXCEPT ![u] = row], UNCHANGED <<code, ban, loose, grants, pending, waiting, era>>
  PROVE  AccountsInv'
  BY SmallSteps DEF AccountsInv, RequestsInv

LEMMA LoginWrongKeeps ==
  ASSUME AccountsInv, NEW b \in Browsers, NEW u \in Users, LoginWrong(b, u)
  PROVE  AccountsInv'
  BY RowFacts, FailedRow, LiveMail, RowSteps DEF LoginWrong, Live

LEMMA LockRunsOutKeeps ==
  ASSUME AccountsInv, NEW u \in Users, LockRunsOut(u)
  PROVE  AccountsInv'
<1>. DEFINE row == [account[u] EXCEPT !.lock = "over"]
<1>1. account[u] \in Rows /\ ~account[u].deleted
  BY RowFacts, DeletedRow DEF LockRunsOut
<1>2. row \in Rows /\ SameAccount(row, account[u])
  BY <1>1 DEF Rows, SameAccount
<1>. QED
  BY <1>1, <1>2, RowSteps DEF LockRunsOut

LEMMA UnlockAccountKeeps ==
  ASSUME AccountsInv, NEW u \in Users, UnlockAccount(u)
  PROVE  AccountsInv'
  BY RowFacts, UnlockedRow, LiveMail, RowSteps DEF UnlockAccount, Live

(* A request ends. *)
LEMMA RequestEnds ==
  ASSUME RequestsInv, NEW b \in Browsers, pending' = [pending EXCEPT ![b] = Idle]
  PROVE  /\ pending' \in [Browsers -> Requests]
         /\ \A c \in Browsers : pending'[c] = pending[c] \/ RequestOK(pending[c])'
<1>1. pending' \in [Browsers -> Requests] /\ \A c \in Browsers : pending'[c] = IF c = b THEN Idle ELSE pending[c]
  BY IdleRequest DEF RequestsInv
<1>2. \A c \in Browsers : c = b => RequestOK(pending[c])'
  BY <1>1 DEF RequestOK, Idle
<1>. QED
  BY <1>1, <1>2

(* A step that leaves the accounts and the codes alone.                      *)
LEMMA RequestSteps ==
  ASSUME AccountsInv, UNCHANGED <<account, code, ban, loose, era>>,
         \A g \in grants' \ grants : g \in Grants /\ Fresh(g.user, g.version, g.saved)',
         pending' \in [Browsers -> Requests],
         \A b \in Browsers : pending'[b] = pending[b] \/ RequestOK(pending[b])',
         waiting' \in [Browsers -> Users \cup {NoOne}]
  PROVE  AccountsInv'
<1>1. RowsInv' /\ Grown
  BY SameRows DEF AccountsInv
<1>2. GrantsInv'
  BY <1>1, GrantsKept DEF AccountsInv
<1>3. RequestsInv'
  BY <1>1, RequestsKept DEF AccountsInv
<1>4. CodesInv'
  BY CodesKept DEF AccountsInv
<1>. QED
  BY <1>1, <1>2, <1>3, <1>4 DEF AccountsInv

LEMMA LoginRefreshKeeps ==
  ASSUME AccountsInv, NEW b \in Browsers, LoginRefresh(b)
  PROVE  AccountsInv'
<1>. DEFINE u == pending[b].user
            row == Unlocked(account[u])
            r == IF account[u].active THEN Request("accepted", u) ELSE Idle
<1>1. u \in Users
  BY DEF AccountsInv, RequestsInv, RequestOK, LoginRefresh
<1>2. CASE StillSame(b) /\ account[u].lock # "running"
  <2>1. ~account[u].deleted
    BY <1>2 DEF StillSame
  <2>2. row \in Rows /\ SameAccount(row, account[u])
    BY <1>1, RowFacts, UnlockedRow
  <2>3. /\ account' = [account EXCEPT ![u] = row] /\ pending' = [pending EXCEPT ![b] = r]
        /\ waiting' = [waiting EXCEPT ![b] = SentToVerify(b, u)] /\ UNCHANGED <<code, ban, loose, grants, era>>
    BY <1>2 DEF LoginRefresh
  <2>4. r \in Requests /\ r.phase \in {"none", "accepted"}
    BY <1>1, NewRequest, IdleRequest DEF Phases, Idle
  <2>5. r.phase = "accepted" => r.user = u /\ r.row.version = account[u].version /\ r.era = era[u]
    BY <1>1, NewRequest DEF Phases, Idle
  <2>6. row.version = account[u].version /\ account[u].version \in Nat
    BY <1>1, <2>2, RowFacts DEF SameAccount, Rows
  <2>7. waiting' \in [Browsers -> Users \cup {NoOne}]
    BY <1>1, <2>3 DEF AccountsInv, RequestsInv, SentToVerify
  <2>8. account'[u] = row
    BY <1>1, <2>3 DEF AccountsInv, RowsInv
  <2>. HIDE DEF r, row, u
  <2>9. pending' \in [Browsers -> Requests] /\ \A c \in Browsers : pending'[c] = IF c = b THEN r ELSE pending[c]
    BY <2>3, <2>4 DEF AccountsInv, RequestsInv
  <2>10. \A c \in Browsers : pending'[c] = pending[c] \/ RequestOK(pending[c])'
    BY <1>1, <2>3, <2>4, <2>5, <2>6, <2>8, <2>9 DEF RequestOK, Fresh
  <2>. QED
    BY <1>1, <2>1, <2>2, <2>3, <2>7, <2>9, <2>10, SmallSteps
<1>3. CASE ~(StillSame(b) /\ account[u].lock # "running")
  BY <1>3, RequestEnds, RequestSteps DEF LoginRefresh, AccountsInv, RequestsInv
<1>. QED
  BY <1>2, <1>3

(* A request begins that is no password page.                                *)
LEMMA RequestBegins ==
  ASSUME AccountsInv, NEW b \in Browsers, NEW u \in Users, NEW phase \in Phases \ {"own"},
         pending' = [pending EXCEPT ![b] = Request(phase, u)], UNCHANGED <<account, era>>
  PROVE  /\ pending' \in [Browsers -> Requests]
         /\ \A c \in Browsers : pending'[c] = pending[c] \/ RequestOK(pending[c])'
<1>. DEFINE r == Request(phase, u)
<1>1. /\ r \in Requests /\ r.phase = phase /\ r.user = u
      /\ r.row.version = account[u].version /\ r.era = era[u]
  BY NewRequest
<1>2. account[u].version \in Nat
  BY RowFacts DEF Rows
<1>3. pending' = [pending EXCEPT ![b] = r]
  OBVIOUS
<1>. HIDE DEF r
<1>4. pending' \in [Browsers -> Requests] /\ \A c \in Browsers : pending'[c] = IF c = b THEN r ELSE pending[c]
  BY <1>1, <1>3 DEF AccountsInv, RequestsInv
<1>5. \A c \in Browsers : c = b => RequestOK(pending[c])'
  BY <1>1, <1>2, <1>4 DEF RequestOK, Fresh
<1>. QED
  BY <1>4, <1>5

LEMMA VerifyReadKeeps ==
  ASSUME AccountsInv, NEW b \in Browsers, VerifyRead(b)
  PROVE  AccountsInv'
<1>1. waiting[b] \in Users /\ UNCHANGED <<account, code, ban, loose, grants, era>>
  BY DEF AccountsInv, RequestsInv, VerifyRead
<1>2. CASE waiting' = [waiting EXCEPT ![b] = NoOne] /\ UNCHANGED pending
  BY <1>1, <1>2, RequestSteps DEF AccountsInv, RequestsInv
<1>3. CASE pending' = [pending EXCEPT ![b] = Request("verify", waiting[b])] /\ UNCHANGED waiting
  <2>1. /\ pending' \in [Browsers -> Requests]
        /\ \A c \in Browsers : pending'[c] = pending[c] \/ RequestOK(pending[c])'
    BY <1>1, <1>3, RequestBegins DEF Phases
  <2>. QED
    BY <1>1, <1>3, <2>1, RequestSteps DEF AccountsInv, RequestsInv
<1>. QED
  BY <1>2, <1>3 DEF VerifyRead

LEMMA VerifyCodeKeeps ==
  ASSUME AccountsInv, NEW b \in Browsers, VerifyCode(b)
  PROVE  AccountsInv'
<1>. DEFINE u == pending[b].user
<1>1. /\ u \in Users /\ pending[b] \in Requests /\ pending[b].phase = "verify"
      /\ Fresh(u, pending[b].row.version, pending[b].era)
  BY DEF AccountsInv, RequestsInv, RequestOK, VerifyCode
<1>2. CASE /\ Consumable(u, "activate", account[u].mail)
           /\ account' = [account EXCEPT ![u] = Activated(@)]
           /\ code' = [code EXCEPT ![u]["activate"].used = TRUE]
           /\ pending' = [pending EXCEPT ![b].phase = "accepted"]
           /\ waiting' = [waiting EXCEPT ![b] = NoOne]
           /\ UNCHANGED <<ban, loose, grants, era>>
  <2>. HIDE DEF u
  <2>1. account[u].mail \in Mails /\ ~account[u].deleted /\ ~account[u].banned /\ Allowed(account[u].mail)
    BY <1>1, <1>2 DEF Consumable, AccountsInv, CodesInv, Purposes
  <2>2. MayBecome(u, Activated(account[u]))
    BY <1>1, <2>1, ActivatedRow DEF AccountsInv
  <2>3. RowsInv' /\ Grown
    BY <1>1, <1>2, <2>2, OneRow DEF AccountsInv
  <2>4. account'[u].version = account[u].version /\ account'[u].mail = account[u].mail
        /\ \A v \in Users \ {u} : account'[v] = account[v]
    BY <1>1, <1>2, RowFacts DEF Activated, AccountsInv, RowsInv, Rows
  <2>5. CodesInv'
    <3>. DEFINE new == [code[u]["activate"] EXCEPT !.used = TRUE]
    <3>1. code[u]["activate"] \in Codes
      BY <1>1 DEF AccountsInv, CodesInv, Purposes
    <3>2. new \in Codes /\ new.used
      BY <3>1 DEF Codes
    <3>3. code' = [code EXCEPT ![u]["activate"] = new]
      BY <1>2
    <3>. HIDE DEF new
    <3>. QED
      BY <1>1, <2>4, <3>2, <3>3, ClosedCode DEF AccountsInv, Purposes
  <2>6. GrantsInv'
    BY <1>2, <2>3, GrantsKept DEF AccountsInv
  <2>7. RequestsInv'
    <3>. DEFINE r == [pending[b] EXCEPT !.phase = "accepted"]
    <3>1. r \in Requests /\ r.phase = "accepted" /\ r.user = u /\ r.row = pending[b].row /\ r.era = pending[b].era
      BY <1>1 DEF Requests, Phases, u
    <3>2. pending' = [pending EXCEPT ![b] = r]
      BY <1>2
    <3>. HIDE DEF r
    <3>3. pending' \in [Browsers -> Requests] /\ \A c \in Browsers : pending'[c] = IF c = b THEN r ELSE pending[c]
      BY <3>1, <3>2 DEF AccountsInv, RequestsInv
    <3>4. \A c \in Browsers : c = b => RequestOK(pending[c])'
      <4>1. pending'[b] = r
        BY <3>3
      <4>2. era'[u] = era[u]
        BY <1>2
      <4>3. r.row.version <= account'[u].version /\ (r.row.version = account'[u].version => r.era = era'[u])
        BY <1>1, <2>4, <3>1, <4>2 DEF Fresh
      <4>4. RequestOK(pending[b])'
        BY <1>1, <3>1, <4>1, <4>3 DEF RequestOK, Fresh
      <4>. QED
        BY <4>4
    <3>5. waiting' \in [Browsers -> Users \cup {NoOne}]
      BY <1>2 DEF AccountsInv, RequestsInv
    <3>. QED
      BY <2>3, <3>3, <3>4, <3>5, RequestsKept DEF AccountsInv
  <2>. QED
    BY <2>3, <2>5, <2>6, <2>7 DEF AccountsInv
<1>3. CASE /\ Consumable(u, "activate", account[u].mail)
           /\ WrongCode(u, "activate")
           /\ pending' = [pending EXCEPT ![b] = Idle]
           /\ UNCHANGED <<account, waiting, ban, loose, grants, era>>
  <2>1. RowsInv' /\ Grown
    BY <1>3, SameRows DEF AccountsInv
  <2>2. CodesInv'
    BY <1>1, <1>3, WrongCodeKeeps DEF AccountsInv, Consumable, Purposes
  <2>3. GrantsInv'
    BY <1>3, <2>1, GrantsKept DEF AccountsInv
  <2>4. RequestsInv'
    BY <1>3, <2>1, RequestEnds, RequestsKept DEF AccountsInv, RequestsInv
  <2>. QED
    BY <2>1, <2>2, <2>3, <2>4 DEF AccountsInv
<1>4. CASE pending' = [pending EXCEPT ![b] = Idle] /\ UNCHANGED <<account, code, waiting, ban, loose, grants, era>>
  BY <1>4, RequestEnds, RequestSteps DEF AccountsInv, RequestsInv
<1>. QED
  BY <1>2, <1>3, <1>4 DEF VerifyCode

LEMMA NewGrant ==
  ASSUME NEW kind \in {"session", "link"}, NEW u \in Users, NEW row \in Rows, NEW e \in Nat, NEW s \in Nat
  PROVE  LET g == Grant(kind, u, row, e, s) IN
         g \in Grants /\ g.user = u /\ g.version = row.version /\ g.era = e /\ g.saved = s
  BY DEF Grant, Grants, Rows

LEMMA OpenSessionKeeps ==
  ASSUME AccountsInv, NEW b \in Browsers, OpenSession(b)
  PROVE  AccountsInv'
<1>. DEFINE u == pending[b].user
            g == Grant("session", u, pending[b].row, pending[b].era, pending[b].era)
<1>1. /\ u \in Users /\ pending[b].row \in Rows /\ pending[b].era \in Nat
      /\ Fresh(u, pending[b].row.version, pending[b].era)
  BY DEF AccountsInv, RequestsInv, RequestOK, Requests, OpenSession
<1>2. g \in Grants /\ g.user = u /\ g.version = pending[b].row.version /\ g.saved = pending[b].era
  BY <1>1, NewGrant
<1>3. grants' \subseteq grants \cup {g} /\ UNCHANGED <<account, code, ban, loose, waiting, era>>
  BY DEF OpenSession
<1>. HIDE DEF g, u
<1>4. \A h \in grants' \ grants : h \in Grants /\ Fresh(h.user, h.version, h.saved)'
  BY <1>1, <1>2, <1>3 DEF Fresh
<1>. QED
  BY <1>3, <1>4, RequestEnds, RequestSteps DEF AccountsInv, RequestsInv, OpenSession

LEMMA SendLinkKeeps ==
  ASSUME AccountsInv, NEW u \in Users, SendLink(u)
  PROVE  AccountsInv'
<1>. DEFINE g == Grant("link", u, account[u], era[u], era[u])
<1>1. account[u] \in Rows /\ era[u] \in Nat /\ account[u].version \in Nat
  BY DEF AccountsInv, RowsInv, Rows
<1>2. g \in Grants /\ g.user = u /\ g.version = account[u].version /\ g.saved = era[u]
  BY <1>1, NewGrant
<1>3. grants' = grants \cup {g} /\ UNCHANGED <<account, code, ban, loose, pending, waiting, era>>
  BY DEF SendLink
<1>. HIDE DEF g
<1>4. \A h \in grants' \ grants : h \in Grants /\ Fresh(h.user, h.version, h.saved)'
  BY <1>1, <1>2, <1>3 DEF Fresh
<1>. QED
  BY <1>3, <1>4, RequestSteps DEF AccountsInv, RequestsInv

LEMMA OpenPasswordPageKeeps ==
  ASSUME AccountsInv, NEW b \in Browsers, NEW g \in grants, OpenPasswordPage(b, g)
  PROVE  AccountsInv'
<1>. DEFINE u == g.user
            q == Request("own", u)
            r == IF g.kind = "link" THEN [Request("reset", u) EXCEPT !.era = g.era]
                 ELSE [Request("own", u) EXCEPT !.row = account[u], !.era = g.era]
<1>1. g \in Grants /\ u \in Users /\ g.era \in Nat /\ g.kind \in {"session", "link"}
  BY DEF AccountsInv, GrantsInv, Grants
<1>2. account[u] \in Rows
  BY <1>1, RowFacts
<1>3. r \in Requests /\ r.user = u /\ r.phase \in {"reset", "own"}
      /\ (r.phase = "own" => r.row = account[u] /\ g.kind = "session")
  <2>1. CASE g.kind = "link"
    <3>1. Request("reset", u) \in Requests /\ Request("reset", u).phase = "reset" /\ Request("reset", u).user = u
      BY <1>1, NewRequest DEF Phases
    <3>. QED
      BY <1>1, <2>1, <3>1 DEF Requests
  <2>2. CASE g.kind = "session"
    <3>1. q = [phase |-> "own", user |-> u, row |-> Credentials(account[u]), era |-> era[u]]
      BY DEF Request
    <3>2. r = [q EXCEPT !.row = account[u], !.era = g.era]
      BY <2>2
    <3>. HIDE DEF q, r
    <3>3. r = [phase |-> "own", user |-> u, row |-> account[u], era |-> g.era]
      BY <3>1, <3>2
    <3>. QED
      BY <1>1, <1>2, <2>2, <3>3 DEF Requests, Phases
  <2>. QED
    BY <1>1, <2>1, <2>2
<1>4. g.kind = "session" => HeldOK(account[u], account[u])
  BY <1>1, <1>2, ActiveMail, RowFacts DEF OpenPasswordPage, Usable, HeldOK, RowOK
<1>5. pending' = [pending EXCEPT ![b] = r] /\ UNCHANGED <<account, code, ban, loose, grants, waiting, era>>
  BY DEF OpenPasswordPage
<1>. HIDE DEF r, q, u
<1>6. pending' \in [Browsers -> Requests] /\ \A c \in Browsers : pending'[c] = IF c = b THEN r ELSE pending[c]
  BY <1>3, <1>5 DEF AccountsInv, RequestsInv
<1>7. RequestOK(pending[b])'
  <2>1. pending'[b] = r /\ account' = account
    BY <1>5, <1>6
  <2>. QED
    BY <1>1, <1>3, <1>4, <2>1 DEF RequestOK
<1>8. \A c \in Browsers : pending'[c] = pending[c] \/ RequestOK(pending[c])'
  BY <1>6, <1>7
<1>. QED
  BY <1>5, <1>6, <1>8, RequestSteps DEF AccountsInv, RequestsInv

LEMMA ResetPasswordKeeps ==
  ASSUME AccountsInv, NEW b \in Browsers, ResetPassword(b)
  PROVE  AccountsInv'
<1>. DEFINE u == pending[b].user
            n == Unlocked(account[u]).password + 1
            row == [Unlocked(account[u]) EXCEPT !.password = n]
<1>1. u \in Users
  BY DEF AccountsInv, RequestsInv, RequestOK, ResetPassword
<1>2. UNCHANGED <<code, ban, loose, grants, waiting, era>> /\ pending' = [pending EXCEPT ![b] = Idle]
  BY DEF ResetPassword
<1>3. CASE UNCHANGED account
  BY <1>2, <1>3, RequestEnds, RequestSteps DEF AccountsInv, RequestsInv
<1>4. CASE StillSame(b) /\ account' = [account EXCEPT ![u] = row]
  <2>1. Unlocked(account[u]) \in Rows /\ SameAccount(Unlocked(account[u]), account[u])
    BY <1>1, RowFacts, UnlockedRow
  <2>2. n \in Nat
    BY <2>1 DEF Rows
  <2>3. ~account[u].deleted
    BY <1>4 DEF StillSame
  <2>4. row \in Rows /\ SameAccount(row, account[u])
    <3>. HIDE DEF n
    <3>. QED
      BY <2>1, <2>2 DEF Rows, SameAccount
  <2>. HIDE DEF row, u
  <2>. QED
    BY <1>1, <1>2, <1>4, <2>3, <2>4, RequestEnds, SmallSteps DEF AccountsInv, RequestsInv
<1>5. UNCHANGED account \/ (StillSame(b) /\ account' = [account EXCEPT ![u] = NewPassword(account[u])])
  BY DEF ResetPassword
<1>6. NewPassword(account[u]) = row
  BY DEF NewPassword
<1>. QED
  BY <1>3, <1>4, <1>5, <1>6

LEMMA OwnPasswordKeeps ==
  ASSUME AccountsInv, NEW b \in Browsers, OwnPassword(b)
  PROVE  AccountsInv'
<1>. DEFINE u == pending[b].user
            held == [pending[b].row EXCEPT !.password = @ + 1]
            row == SavedOver(account[u], held)
            g == Grant("session", u, row, pending[b].era, era[u])
<1>1. u \in Users /\ pending[b].row \in Rows /\ pending[b].era \in Nat /\ HeldOK(pending[b].row, account[u])
  BY DEF AccountsInv, RequestsInv, RequestOK, Requests, OwnPassword
<1>2. UNCHANGED <<code, ban, loose, waiting, era>> /\ pending' = [pending EXCEPT ![b] = Idle]
  BY DEF OwnPassword
<1>3. CASE UNCHANGED <<account, grants>>
  BY <1>2, <1>3, RequestEnds, RequestSteps DEF AccountsInv, RequestsInv
<1>4. CASE /\ ~account[u].deleted
           /\ Owners(held.mail) \subseteq {u}
           /\ account' = [account EXCEPT ![u] = row]
           /\ grants' = grants \cup {g}
  <2>1. held.mail = pending[b].row.mail /\ held.mail \in Mails
    BY <1>1 DEF Rows, HeldOK
  <2>2. MayBecome(u, row)
    BY <1>1, <1>4, <2>1, HeldRow DEF AccountsInv
  <2>3. row.mail \in Mails
    <3>1. held \in Rows
      <4>1. pending[b].row.password + 1 \in Nat
        BY <1>1 DEF Rows
      <4>. QED
        BY <1>1, <4>1 DEF Rows
    <3>2. Saved(row, account[u], held)
      BY <1>1, <3>1, RowFacts, SavedRow
    <3>. HIDE DEF row
    <3>. QED
      BY <2>1, <3>2 DEF Saved
  <2>4. era[u] \in Nat /\ account[u].version \in Nat
    BY <1>1 DEF AccountsInv, RowsInv, Rows
  <2>5. row \in Rows /\ row.version = account[u].version
    BY <2>2 DEF MayBecome
  <2>6. g \in Grants /\ g.user = u /\ g.version = row.version /\ g.saved = era[u]
    BY <1>1, <2>4, <2>5, NewGrant
  <2>. HIDE DEF g, row, held, u
  <2>7. RowsInv' /\ Grown
    BY <1>1, <1>2, <1>4, <2>2, OneRow DEF AccountsInv
  <2>8. account'[u] = row /\ \A v \in Users \ {u} : account'[v] = account[v]
    BY <1>1, <1>4 DEF AccountsInv, RowsInv
  <2>9. GrantsInv'
    <3>1. g.version <= account'[g.user].version /\ g.saved = era'[g.user]
      BY <1>2, <2>4, <2>5, <2>6, <2>8
    <3>2. \A h \in grants' \ grants : h = g
      BY <1>4
    <3>3. \A h \in grants' \ grants : h \in Grants /\ Fresh(h.user, h.version, h.saved)'
      BY <2>6, <3>1, <3>2 DEF Fresh
    <3>. QED
      BY <2>7, <3>3, GrantsKept DEF AccountsInv
  <2>10. RequestsInv'
    BY <1>2, <2>7, RequestEnds, RequestsKept DEF AccountsInv, RequestsInv
  <2>11. CodesInv'
    BY <1>2, <2>3, <2>8, CodesKept DEF AccountsInv
  <2>. QED
    BY <2>7, <2>9, <2>10, <2>11 DEF AccountsInv
<1>. QED
  BY <1>3, <1>4 DEF OwnPassword

-----------------------------------------------------------------------------
(* The steps of bans and deletion, and every other.                          *)

(* No session and no link begins, the requests go on.                        *)
LEMMA ModerationSteps ==
  ASSUME AccountsInv, RowsInv', Grown, grants' \subseteq grants, UNCHANGED pending,
         waiting' \in [Browsers -> Users \cup {NoOne}], CodesInv'
  PROVE  AccountsInv'
<1>1. GrantsInv'
  BY GrantsKept DEF AccountsInv
<1>2. RequestsInv'
  BY RequestsKept DEF AccountsInv, RequestsInv
<1>. QED
  BY <1>1, <1>2 DEF AccountsInv

LEMMA SessionsErasedKeeps ==
  ASSUME AccountsInv, NEW u \in Users, SessionsErased(u)
  PROVE  grants' \subseteq grants /\ waiting' \in [Browsers -> Users \cup {NoOne}]
  BY DEF SessionsErased, AccountsInv, RequestsInv

LEMMA DisableKeeps ==
  ASSUME AccountsInv, NEW u \in Users, NEW also, also \subseteq {account[u].mail},
         account[u].mail \in Mails, ~account[u].banned, Disable(u, also), UNCHANGED <<loose, pending>>
  PROVE  AccountsInv'
<1>1. RowsInv' /\ Grown
  BY DisableStep DEF AccountsInv
<1>2. grants' \subseteq grants /\ waiting' \in [Browsers -> Users \cup {NoOne}]
  BY SessionsErasedKeeps DEF Disable
<1>3. CodesInv'
  <2>. DEFINE new == [p \in Purposes |-> [code[u][p] EXCEPT !.used = TRUE]]
  <2>1. \A p \in Purposes : code[u][p] \in Codes
    BY DEF AccountsInv, CodesInv
  <2>2. new \in [Purposes -> Codes] /\ \A p \in Purposes : new[p].used
    BY <2>1 DEF Codes
  <2>3. code' = [code EXCEPT ![u] = new]
    BY DEF Disable
  <2>4. \A v \in Users \ {u} : account'[v] = account[v]
    BY DEF Disable, AccountsInv, RowsInv
  <2>. HIDE DEF new
  <2>. QED
    BY <2>2, <2>3, <2>4, ClosedCodes DEF AccountsInv
<1>. QED
  BY <1>1, <1>2, <1>3, ModerationSteps

LEMMA BanUserKeeps ==
  ASSUME AccountsInv, NEW u \in Users, BanUser(u)
  PROVE  AccountsInv'
  BY LiveMail, DisableKeeps DEF BanUser, Live

LEMMA BanMailKeeps ==
  ASSUME AccountsInv, NEW m \in Mails, BanMail(m)
  PROVE  AccountsInv'
<1>1. CASE Owners(m) = {} /\ loose' = loose \cup {m} /\ UNCHANGED <<account, code, ban, grants, waiting, era>>
  <2>1. RowsInv' /\ Grown
    BY <1>1, LooseStep DEF AccountsInv
  <2>. QED
    BY <1>1, <2>1, CodesKept, ModerationSteps DEF AccountsInv, RequestsInv, BanMail
<1>2. ASSUME NEW u \in Owners(m), ~account[u].banned, Disable(u, {m}), UNCHANGED loose
      PROVE  AccountsInv'
  BY <1>2, DisableKeeps DEF Owners, BanMail
<1>3. ASSUME NEW u \in Owners(m), account[u].banned, ban' = [ban EXCEPT ![u].mails = @ \cup {m}],
             UNCHANGED <<account, code, loose, grants, waiting, era>>
      PROVE  AccountsInv'
  <2>1. u \in Users /\ account[u].mail = m
    BY DEF Owners
  <2>2. RowsInv' /\ Grown
    BY <1>3, <2>1, AddedStep DEF AccountsInv
  <2>. QED
    BY <1>3, <2>2, CodesKept, ModerationSteps DEF AccountsInv, RequestsInv, BanMail
<1>. QED
  BY <1>1, <1>2, <1>3 DEF BanMail

LEMMA RevokeKeeps ==
  ASSUME AccountsInv, NEW u \in Users, Revoke(u)
  PROVE  AccountsInv'
<1>1. RowsInv' /\ Grown
  BY RevokeStep DEF AccountsInv
<1>2. \A v \in Users : account'[v].mail = account[v].mail
  <2>. DEFINE row == IF account[u].deleted THEN account[u] ELSE Pardoned(account[u], ban[u].wasActive)
  <2>1. account[u] \in Rows /\ ban[u].wasActive \in BOOLEAN
    BY DEF AccountsInv, RowsInv, Revoke, Bans
  <2>2. row.mail = account[u].mail
    BY <2>1, PardonedRow
  <2>3. account' = [account EXCEPT ![u] = row]
    BY DEF Revoke
  <2>. HIDE DEF row
  <2>. QED
    BY <2>2, <2>3 DEF AccountsInv, RowsInv
<1>3. UNCHANGED <<code, grants, pending, waiting>>
  BY DEF Revoke
<1>4. CodesInv'
  BY <1>2, <1>3, CodesKept DEF AccountsInv
<1>. QED
  BY <1>1, <1>3, <1>4, ModerationSteps DEF AccountsInv, RequestsInv

LEMMA RevokeMailKeeps ==
  ASSUME AccountsInv, NEW m \in Mails, RevokeMail(m)
  PROVE  AccountsInv'
<1>1. loose' \subseteq loose /\ UNCHANGED <<account, code, ban, grants, pending, waiting, era>>
  BY DEF RevokeMail
<1>2. RowsInv' /\ Grown
  BY <1>1, LooseStep DEF AccountsInv
<1>. QED
  BY <1>1, <1>2, CodesKept, ModerationSteps DEF AccountsInv, RequestsInv

LEMMA DeleteRowKeeps ==
  ASSUME AccountsInv, NEW u \in Users, DeleteRow(u), UNCHANGED <<ban, loose, pending, era>>
  PROVE  AccountsInv'
<1>. DEFINE row == Erased(account[u])
<1>1. account[u] \in Rows
  BY RowFacts
<1>2. /\ row \in Rows /\ RowOK(row) /\ row.deleted /\ row.mail = NoOne
      /\ row.version = account[u].version /\ row.banned = account[u].banned
  <2>1. row \in Rows /\ RowOK(row)
    BY <1>1, ErasedRow
  <2>2. /\ row.deleted /\ row.mail = NoOne
        /\ row.version = account[u].version /\ row.banned = account[u].banned
    BY DEF Erased, Unregistered
  <2>. QED
    BY <2>1, <2>2
<1>3. account' = [account EXCEPT ![u] = row]
  BY DEF DeleteRow
<1>. HIDE DEF row
<1>4. MayBecome(u, row)
  BY <1>2 DEF MayBecome
<1>5. RowsInv' /\ Grown
  BY <1>3, <1>4, OneRow DEF AccountsInv
<1>6. CodesInv'
  <2>. DEFINE new == [p \in Purposes |-> NoCode]
  <2>1. new \in [Purposes -> Codes] /\ \A p \in Purposes : new[p].used
    BY DEF NoCode, Codes
  <2>2. code' = [code EXCEPT ![u] = new]
    BY DEF DeleteRow
  <2>3. \A v \in Users \ {u} : account'[v] = account[v]
    BY <1>3 DEF AccountsInv, RowsInv
  <2>. HIDE DEF new
  <2>. QED
    BY <2>1, <2>2, <2>3, ClosedCodes DEF AccountsInv
<1>. QED
  BY <1>5, <1>6, SessionsErasedKeeps, ModerationSteps DEF DeleteRow

LEMMA ProfileKeeps ==
  ASSUME AccountsInv, NEW u \in Users, ProfileForm(u, Mails)
  PROVE  AccountsInv'
  BY RequestChangeKeeps, ConfirmChangeKeeps, ResendChangeKeeps, CancelChangeKeeps DEF ProfileForm

LEMMA MemberKeeps ==
  ASSUME AccountsInv, NEW u \in Users,
         \/ LockRunsOut(u) \/ UnlockAccount(u) \/ SendLink(u) \/ RequestActivation(u)
         \/ \E p \in Purposes : CodeAges(u, p)
         \/ \E b \in Browsers : LoginCheck(b, u) \/ LoginWrong(b, u) \/ \E m \in Mails : Register(b, u, m)
  PROVE  AccountsInv'
<1>1. CASE RequestActivation(u)
  BY <1>1, LiveMail, ResendKeeps DEF RequestActivation, Live
<1>. QED
  BY <1>1, LockRunsOutKeeps, UnlockAccountKeeps, SendLinkKeeps, CodeAgesKeeps, LoginCheckKeeps, LoginWrongKeeps, RegisterKeeps

LEMMA BrowserKeeps ==
  ASSUME AccountsInv, NEW b \in Browsers,
         \/ ResendWaiting(b) \/ LoginRefresh(b) \/ VerifyRead(b) \/ VerifyCode(b) \/ OpenSession(b)
         \/ ResetPassword(b) \/ OwnPassword(b)
         \/ \E g \in grants : OpenPasswordPage(b, g)
  PROVE  AccountsInv'
<1>1. CASE ResendWaiting(b)
  BY <1>1, LiveMail, ResendKeeps DEF ResendWaiting, Live, AccountsInv, RequestsInv
<1>. QED
  BY <1>1, LoginRefreshKeeps, VerifyReadKeeps, VerifyCodeKeeps, OpenSessionKeeps, ResetPasswordKeeps,
     OwnPasswordKeeps, OpenPasswordPageKeeps

LEMMA AccountsStepKeeps ==
  ASSUME AccountsInv, AccountsStep
  PROVE  AccountsInv'
<1>1. ASSUME NEW u \in Users, DeleteRow(u)
      PROVE  AccountsInv'
  BY <1>1, DeleteRowKeeps DEF DeleteRow
<1>2. CASE Moderation(Users)
  BY <1>2, BanUserKeeps, RevokeKeeps DEF Moderation
<1>3. CASE AccountsNext(Users, Users, Mails, Mails)
  BY <1>3, ProfileKeeps, MemberKeeps, BrowserKeeps, BanMailKeeps, RevokeMailKeeps DEF AccountsNext, BanForm
<1>. QED
  BY <1>1, <1>2, <1>3 DEF AccountsStep

-----------------------------------------------------------------------------
(* The theorems about accounts.                                              *)

(* Who is registered at the start is a member with an address of his own.    *)
Start(rows) ==
  /\ rows \in [Users -> {Unregistered} \cup {Member(m) : m \in Mails}]
  /\ \A u, v \in Users : u # v /\ rows[u] = rows[v] => rows[u] = Unregistered

LEMMA InitAccounts ==
  ASSUME NEW rows, Start(rows), AccountsInit(rows)
  PROVE  AccountsInv
<1>1. \A u \in Users : rows[u] \in Rows /\ RowOK(rows[u]) /\ ~rows[u].banned /\ ~rows[u].deleted /\ rows[u].version = 0
  <2>. SUFFICES ASSUME NEW u \in Users
                PROVE  rows[u] \in Rows /\ RowOK(rows[u]) /\ ~rows[u].banned /\ ~rows[u].deleted /\ rows[u].version = 0
    OBVIOUS
  <2>1. CASE rows[u] = Unregistered
    BY <2>1, FirstRow DEF Unregistered
  <2>2. CASE \E m \in Mails : rows[u] = Member(m)
    <3>1. PICK m \in Mails : rows[u] = Member(m)
      BY <2>2
    <3>2. ~Member(m).banned /\ ~Member(m).deleted /\ Member(m).version = 0
      BY DEF Member, Unregistered
    <3>. QED
      BY <3>1, <3>2, MemberRow
  <2>. QED
    BY <2>1, <2>2 DEF Start
<1>2. OneOwner
  <2>. SUFFICES ASSUME NEW u \in Users, NEW v \in Users, u # v, rows[u].mail \in Mails, rows[u].mail = rows[v].mail
                PROVE  FALSE
    BY DEF OneOwner, AccountsInit
  <2>1. \A m \in Mails : Member(m).mail = m
    BY DEF Member, Unregistered
  <2>2. Unregistered.mail = NoOne
    BY DEF Unregistered
  <2>3. rows[u] = Member(rows[u].mail) /\ rows[v] = Member(rows[u].mail)
    BY <2>1, <2>2 DEF Start
  <2>. QED
    BY <2>2, <2>3 DEF Start
<1>3. RowsInv
  BY <1>1, <1>2 DEF RowsInv, AccountsInit, Start, BanKept, MailFree, BannedElsewhere
<1>4. GrantsInv
  BY DEF GrantsInv, AccountsInit
<1>5. RequestsInv
  BY IdleRequest DEF RequestsInv, AccountsInit
<1>6. CodesInv
  BY DEF CodesInv, AccountsInit, NoCode, Codes
<1>. QED
  BY <1>3, <1>4, <1>5, <1>6 DEF AccountsInv

LEMMA AccountsAreClosed ==
  ASSUME AccountsInv
  PROVE  AccountsClosed
<1>1. ASSUME NEW g \in grants, Usable(g)
      PROVE  era[g.user] \in {g.era, g.saved}
  BY <1>1 DEF AccountsInv, GrantsInv, Fresh, Usable
<1>2. ASSUME NEW u \in Users
      PROVE  /\ account[u].active => account[u].mail \in account[u].proven
             /\ account[u].active /\ MailBanned(account[u].mail) => account[u].putBack
             /\ account[u].deleted => account[u] = Erased(account[u])
             /\ account[u].banned /\ ~account[u].deleted => ban[u] # NoOne
  <2>1. RowOK(account[u]) /\ MailFree(u) /\ BanKept(u)
    BY <1>2 DEF AccountsInv, RowsInv
  <2>2. account[u].active => ~account[u].deleted
    BY <1>2, ActiveMail
  <2>. QED
    BY <2>1, <2>2 DEF RowOK, MailFree, BannedElsewhere, BanKept, MailBanned
<1>. QED
  BY <1>1, <1>2 DEF AccountsClosed

LEMMA AccountsStutter ==
  ASSUME AccountsInv, UNCHANGED accountVars
  PROVE  AccountsInv'
  BY CodesKept, CodeSteps DEF accountVars, AccountsInv

(* What a ban or a deletion closes stays closed, however login, codes, links *)
(* and late saves interleave with it (users/): an older session counts again *)
(* only if a password change of its own was saved after the ban was revoked  *)
(* (users/views.py:411-414).                                                  *)
THEOREM BansHold ==
  ASSUME NEW rows, Start(rows)
  PROVE  AccountsSpec(rows) => []AccountsClosed
<1>1. AccountsInit(rows) => AccountsInv
  BY InitAccounts
<1>2. AccountsInv /\ [AccountsStep]_accountVars => AccountsInv'
  BY AccountsStepKeeps, AccountsStutter
<1>3. AccountsInv => AccountsClosed
  BY AccountsAreClosed
<1>. QED
  BY <1>1, <1>2, <1>3, PTL DEF AccountsSpec

-----------------------------------------------------------------------------
(* The portal: the other parts leave the accounts alone, but for a deletion. *)

LEMMA PortalStep ==
  ASSUME NEW us, us \subseteq Users, NEW ms, ms \subseteq Mails, NEW over, PortalNext(us, ms, over)
  PROVE  AccountsStep \/ UNCHANGED accountVars
<1>1. CASE AccountsMove(ms)
  <2>1. AccountsNext(Acting, Registering, ms, Wished)
    BY <1>1 DEF AccountsMove
  <2>2. Acting \subseteq Users /\ Registering \subseteq Users /\ Wished \subseteq Mails
    BY PortalAssumption DEF PortalAssumption
  <2>3. AccountsNext(Users, Users, Mails, Mails)
    BY <2>1, <2>2 DEF AccountsNext, ProfileForm
  <2>. QED
    BY <2>3 DEF AccountsStep
<1>2. CASE Moderate(Barrable)
  BY <1>2, PortalAssumption DEF PortalAssumption, Moderate, Moderation, AccountsStep
<1>3. CASE \E u \in us : DeleteOwn(u) \/ AnonymizeAccount(u)
  BY <1>3 DEF DeleteOwn, AnonymizeAccount, DeleteAccount, AccountsStep
<1>4. CASE ClansMove \/ TeamsMove(over) \/ PhotosMove(us) \/ WikiMove \/ ContactMove
  BY <1>4 DEF ClansMove, TeamsMove, PhotosMove, WikiMove, ContactMove
<1>. QED
  BY <1>1, <1>2, <1>3, <1>4 DEF PortalNext

(* At the start every member has an address of his own.                      *)
LEMMA PortalStart ==
  ASSUME NEW mails0 \in [Users -> Mails], \A u, v \in Users : mails0[u] = mails0[v] => u = v,
         NEW rows0, NEW e0, PortalInit(mails0, rows0, e0)
  PROVE  AccountsInv
<1>. DEFINE rows == [u \in Users |-> IF focus = "accounts" /\ u \in Registering THEN Unregistered
                                     ELSE Member(mails0[u])]
<1>1. \A m \in Mails : Member(m).mail = m
  BY DEF Member, Unregistered
<1>2. \A m, n \in Mails : Member(m) = Member(n) => m = n
  BY <1>1
<1>3. AccountsInit(rows)
  BY DEF PortalInit
<1>4. \A u \in Users : rows[u] = Unregistered \/ rows[u] = Member(mails0[u])
  OBVIOUS
<1>5. Start(account)
  <2>1. account = rows
    BY <1>3 DEF AccountsInit
  <2>. HIDE DEF rows
  <2>2. rows \in [Users -> {Unregistered} \cup {Member(m) : m \in Mails}]
    BY <1>4 DEF rows
  <2>3. \A u, v \in Users : u # v /\ rows[u] = rows[v] => rows[u] = Unregistered
    BY <1>2, <1>4
  <2>. QED
    BY <2>1, <2>2, <2>3 DEF Start
<1>6. AccountsInit(account)
  BY <1>3 DEF AccountsInit
<1>. QED
  BY <1>5, <1>6, InitAccounts

(* The same, with the same exception, for the whole portal: a deletion takes *)
(* clans, teams and photo along, and nothing else touches an account.        *)
THEOREM PeopleStayClosedOut ==
  ASSUME NEW mails0 \in [Users -> Mails], \A u, v \in Users : mails0[u] = mails0[v] => u = v,
         NEW rows0, NEW e0, NEW us \in SUBSET Users, NEW ms \in SUBSET Mails, NEW over
  PROVE  PortalSpec(mails0, rows0, e0, us, ms, over) => []AccountsClosed
<1>1. PortalInit(mails0, rows0, e0) => AccountsInv
  BY PortalStart
<1>2. AccountsInv /\ [PortalNext(us, ms, over)]_portalVars => AccountsInv'
  <2>1. CASE PortalNext(us, ms, over)
    BY <2>1, PortalStep, AccountsStepKeeps, AccountsStutter
  <2>2. CASE UNCHANGED portalVars
    BY <2>2, AccountsStutter DEF portalVars
  <2>. QED
    BY <2>1, <2>2
<1>3. AccountsInv => AccountsClosed
  BY AccountsAreClosed
<1>. QED
  BY <1>1, <1>2, <1>3, PTL DEF PortalSpec

-----------------------------------------------------------------------------
(* Guest photos.                                                             *)

Entries == [user : Users, file : FileNames, captured : 1..MaxTime, end : Nat]

Purges == [phase : {"none", "records", "files"}, now : Nat, todo : SUBSET Entries, known : SUBSET FileNames]

PhotosTyped ==
  /\ photo \in [Users -> Photos \cup {NoOne}] /\ files \in [FileNames -> Nat]
  /\ upload \in [Users -> FileNames \cup {NoOne}] /\ lastEnd \in [Users -> Nat]
  /\ purge \in Purges /\ clock \in 1..MaxTime
  /\ \A f \in FileNames : files[f] <= clock

(* A record has its file, with the time of the record.                       *)
RecordsInv ==
  \A u \in Users : Has(u) => /\ files[photo[u].file] = photo[u].captured \/ photo[u].file \in lost
                             /\ ~account[u].deleted

(* An upload has written its file, lately, and its user is there.            *)
UploadsInv ==
  \A u \in Users : Uploading(u) => /\ files[upload[u]] # 0 /\ clock < files[upload[u]] + Grace
                                   /\ ~account[u].deleted

(* No two records or uploads share a file.                                   *)
OwnFiles ==
  \A u, v \in Users :
    /\ Has(u) /\ Has(v) /\ u # v => photo[u].file # photo[v].file
    /\ Uploading(u) /\ Uploading(v) /\ u # v => upload[u] # upload[v]
    /\ Has(u) /\ Uploading(v) => photo[u].file # upload[v]

(* What a purge remembers of a record is true of it as long as the record    *)
(* has that file, and no upload ever gets the name.                          *)
TodoInv ==
  \A e \in purge.todo, u \in Users :
    /\ Uploading(u) => upload[u] # e.file
    /\ Has(u) /\ photo[u].file = e.file => photo[u].captured = e.captured

(* When a purge looks at the files, it knows those of the records or they    *)
(* are too young for it.                                                     *)
KnownInv ==
  /\ purge.now <= clock
  /\ purge.phase = "files" =>
       \A u \in Users : Has(u) => \/ photo[u].file \in purge.known \cup lost
                                  \/ purge.now < files[photo[u].file] + Grace

(* Nobody has a photo while another part moves.                              *)
PhotosRest == focus # "photos" => \A u \in Users : ~Has(u) /\ ~Uploading(u)

PhotosInv == PhotosTyped /\ RecordsInv /\ UploadsInv /\ OwnFiles /\ TodoInv /\ KnownInv /\ PhotosRest

USE PhotosAssumption DEF PhotosAssumption

LEMMA NoRecord == ASSUME NEW p \in Photos PROVE p # NoOne
  OBVIOUS

LEMMA BeginUploadKeeps ==
  ASSUME PhotosInv, focus = "photos", NEW u \in Users, NEW f \in FileNames, BeginUpload(u, f), UNCHANGED <<account, focus>>
  PROVE  PhotosInv'
<1>. USE DEF PhotosInv, PhotosTyped
<1>1. /\ files[f] = 0 /\ f \notin lost /\ f \notin purge.known /\ f \notin FilesOf(Users)
      /\ (\A e \in purge.todo : e.file # f) /\ ~Uploading(u) /\ ~account[u].deleted /\ f # NoOne
  BY DEF BeginUpload, FreshFile
<1>2. /\ files' = [files EXCEPT ![f] = clock] /\ upload' = [upload EXCEPT ![u] = f]
      /\ UNCHANGED <<photo, lost, lastEnd, purge, clock>>
  BY DEF BeginUpload
<1>3. \A v \in Users : Has(v) => photo[v].file # f /\ photo[v].file \in FileNames
  BY <1>1 DEF FilesOf, Has, Photos
<1>4. \A v \in Users : Uploading(v) => upload[v] # f
  BY <1>1 DEF UploadsInv
<1>5. upload'[u] = f /\ (\A v \in Users \ {u} : upload'[v] = upload[v]) /\ files'[f] = clock
      /\ (\A g \in FileNames \ {f} : files'[g] = files[g]) /\ clock \in Nat \ {0}
  BY <1>2
<1>6. PhotosTyped'
  BY <1>2
<1>7. RecordsInv'
  BY <1>2, <1>3, <1>5 DEF RecordsInv, Has
<1>8. UploadsInv'
  BY <1>1, <1>2, <1>4, <1>5 DEF UploadsInv, Uploading
<1>9. OwnFiles'
  BY <1>1, <1>2, <1>3, <1>4, <1>5 DEF OwnFiles, Has, Uploading
<1>10. TodoInv'
  BY <1>1, <1>2, <1>5 DEF TodoInv, Has, Uploading
<1>11. KnownInv'
  BY <1>2, <1>3, <1>5 DEF KnownInv, Has
<1>. QED
  BY <1>6, <1>7, <1>8, <1>9, <1>10, <1>11 DEF PhotosRest

(* Files that no record and no upload needs may go.                          *)
LEMMA CommitUploadKeeps ==
  ASSUME PhotosInv, focus = "photos", NEW u \in Users, CommitUpload(u), UNCHANGED <<account, focus>>
  PROVE  PhotosInv'
<1>. USE DEF PhotosInv, PhotosTyped
<1>. DEFINE f == upload[u]
            new == [file |-> f, captured |-> files[f]]
<1>1. f \in FileNames /\ files[f] \in 1..MaxTime /\ f # NoOne
  BY DEF CommitUpload, Uploading, UploadsInv
<1>2. new \in Photos /\ new.file = f /\ new.captured = files[f] /\ new # NoOne
  BY <1>1 DEF Photos
<1>3. /\ photo' = [photo EXCEPT ![u] = new] /\ upload' = [upload EXCEPT ![u] = NoOne]
      /\ UNCHANGED <<lost, lastEnd, purge, clock>> /\ Uploading(u)
  BY DEF CommitUpload
<1>4. /\ files' \in [FileNames -> Nat]
      /\ \A g \in FileNames : files'[g] = files[g] \/ (g \in FilesOf({u}) /\ files'[g] = 0)
  BY DEF CommitUpload, Removed
<1>5. FilesOf({u}) = IF Has(u) THEN {photo[u].file} ELSE {}
  BY DEF FilesOf
<1>6. \A v \in Users : Has(v) => photo[v] \in Photos /\ photo[v].file \in FileNames
  BY DEF Has, Photos
<1>. HIDE DEF new
<1>7. /\ photo'[u] = new /\ (\A v \in Users \ {u} : photo'[v] = photo[v])
      /\ upload'[u] = NoOne /\ (\A v \in Users \ {u} : upload'[v] = upload[v])
  BY <1>3
<1>8. \A v \in Users : Uploading(v) => files'[upload[v]] = files[upload[v]]
  BY <1>4, <1>5 DEF OwnFiles, Uploading
<1>9. \A v \in Users \ {u} : Has(v) => files'[photo[v].file] = files[photo[v].file]
  BY <1>4, <1>5, <1>6 DEF OwnFiles
<1>10. files'[f] = files[f]
  BY <1>3, <1>8
<1>. HIDE DEF f
<1>11. PhotosTyped'
  BY <1>2, <1>3, <1>4
<1>12. RecordsInv'
  BY <1>2, <1>3, <1>7, <1>9, <1>10 DEF RecordsInv, UploadsInv, Has
<1>13. UploadsInv'
  BY <1>3, <1>7, <1>8 DEF UploadsInv, Uploading
<1>14. OwnFiles'
  BY <1>2, <1>3, <1>7 DEF OwnFiles, Has, Uploading, f
<1>15. TodoInv'
  BY <1>2, <1>3, <1>7 DEF TodoInv, Has, Uploading, f
<1>16. KnownInv'
  <2>1. purge.now < files[f] + Grace
    BY <1>1, <1>3 DEF UploadsInv, KnownInv, f, Purges
  <2>. QED
    BY <1>2, <1>3, <1>7, <1>9, <1>10, <2>1 DEF KnownInv, Has
<1>. QED
  BY <1>3, <1>11, <1>12, <1>13, <1>14, <1>15, <1>16 DEF PhotosRest

LEMMA AbortUploadKeeps ==
  ASSUME PhotosInv, focus = "photos", NEW u \in Users, AbortUpload(u), UNCHANGED <<account, focus>>
  PROVE  PhotosInv'
<1>. USE DEF PhotosInv, PhotosTyped
<1>1. /\ upload' = [upload EXCEPT ![u] = NoOne] /\ UNCHANGED <<photo, lost, lastEnd, purge, clock>> /\ Uploading(u)
  BY DEF AbortUpload
<1>2. /\ files' \in [FileNames -> Nat]
      /\ \A g \in FileNames : files'[g] = files[g] \/ (g = upload[u] /\ files'[g] = 0)
  BY DEF AbortUpload, Removed
<1>3. upload'[u] = NoOne /\ (\A v \in Users \ {u} : upload'[v] = upload[v])
  BY <1>1
<1>4. \A v \in Users \ {u} : Uploading(v) => files'[upload[v]] = files[upload[v]]
  BY <1>1, <1>2 DEF OwnFiles, Uploading
<1>5. \A v \in Users : Has(v) => files'[photo[v].file] = files[photo[v].file]
  BY <1>1, <1>2 DEF OwnFiles, Has, Photos
<1>6. PhotosTyped'
  BY <1>1, <1>2
<1>7. RecordsInv'
  BY <1>1, <1>5 DEF RecordsInv, Has
<1>8. UploadsInv'
  BY <1>1, <1>3, <1>4 DEF UploadsInv, Uploading
<1>9. OwnFiles'
  BY <1>1, <1>3 DEF OwnFiles, Has, Uploading
<1>10. TodoInv'
  BY <1>1, <1>3 DEF TodoInv, Has, Uploading
<1>11. KnownInv'
  BY <1>1, <1>5 DEF KnownInv, Has
<1>. QED
  BY <1>6, <1>7, <1>8, <1>9, <1>10, <1>11 DEF PhotosRest

(* Records go, and their files perhaps: by their users, with an account, or  *)
(* by the purge, which has one record less to look at.                       *)
LEMMA GonePhotosKeeps ==
  ASSUME PhotosInv, NEW us \in SUBSET Users, GonePhotos(us),
         UNCHANGED <<lost, upload, lastEnd, clock, focus>>,
         \A v \in Users : account'[v].deleted => account[v].deleted \/ (v \in us /\ ~Uploading(v)),
         purge' \in Purges, purge'.phase = purge.phase, purge'.now = purge.now, purge'.known = purge.known,
         purge'.todo \subseteq purge.todo
  PROVE  PhotosInv'
<1>. USE DEF PhotosInv, PhotosTyped
<1>1. /\ files' \in [FileNames -> Nat]
      /\ \A g \in FileNames : files'[g] = files[g] \/ (g \in FilesOf(us) /\ files'[g] = 0)
  BY DEF GonePhotos, Removed
<1>2. /\ photo' \in [Users -> Photos \cup {NoOne}]
      /\ \A v \in Users : photo'[v] = IF v \in us THEN NoOne ELSE photo[v]
  BY DEF GonePhotos
<1>3. \A v \in Users : Uploading(v) => files'[upload[v]] = files[upload[v]]
  BY <1>1 DEF OwnFiles, Uploading, FilesOf
<1>4. \A v \in Users \ us : Has(v) => files'[photo[v].file] = files[photo[v].file]
  BY <1>1 DEF OwnFiles, Has, Photos, FilesOf
<1>5. PhotosTyped'
  BY <1>1, <1>2
<1>6. RecordsInv'
  BY <1>2, <1>4 DEF RecordsInv, Has
<1>7. UploadsInv'
  BY <1>3 DEF UploadsInv, Uploading
<1>8. OwnFiles'
  BY <1>2 DEF OwnFiles, Has, Uploading
<1>9. TodoInv'
  BY <1>2 DEF TodoInv, Has, Uploading
<1>10. KnownInv'
  BY <1>2, <1>4 DEF KnownInv, Has
<1>11. PhotosRest'
  BY <1>2 DEF PhotosRest, Has, Uploading
<1>. QED
  BY <1>5, <1>6, <1>7, <1>8, <1>9, <1>10, <1>11

LEMMA LoseFileKeeps ==
  ASSUME PhotosInv, focus = "photos", NEW u \in Users, LoseFile(u), UNCHANGED <<account, focus>>
  PROVE  PhotosInv'
<1>. USE DEF PhotosInv, PhotosTyped
<1>. DEFINE f == photo[u].file
<1>1. /\ lost' = lost \cup {f} /\ UNCHANGED <<photo, upload, lastEnd, purge, clock>>
      /\ Has(u) /\ f \in FileNames
  BY DEF LoseFile, Has, Photos
<1>2. files' \in [FileNames -> Nat] /\ \A g \in FileNames : files'[g] = IF g = f THEN 0 ELSE files[g]
  BY DEF LoseFile, Removed
<1>3. \A v \in Users : Uploading(v) => files'[upload[v]] = files[upload[v]]
  BY <1>1, <1>2 DEF OwnFiles, Uploading
<1>4. \A v \in Users : Has(v) => photo[v].file \in FileNames
  BY DEF Has, Photos
<1>. HIDE DEF f
<1>5. PhotosTyped'
  BY <1>1, <1>2
<1>6. RecordsInv'
  BY <1>1, <1>2, <1>4 DEF RecordsInv, Has
<1>7. UploadsInv'
  BY <1>1, <1>3 DEF UploadsInv, Uploading
<1>8. OwnFiles' /\ TodoInv'
  BY <1>1 DEF OwnFiles, TodoInv, Has, Uploading
<1>9. KnownInv'
  BY <1>1, <1>2, <1>4 DEF KnownInv, Has
<1>. QED
  BY <1>5, <1>6, <1>7, <1>8, <1>9 DEF PhotosRest

LEMMA TickKeeps ==
  ASSUME PhotosInv, focus = "photos", Tick, UNCHANGED <<account, focus>>
  PROVE  PhotosInv'
<1>. USE DEF PhotosInv, PhotosTyped
<1>1. /\ clock' = clock + 1 /\ clock' \in 1..MaxTime /\ UNCHANGED <<photo, files, lost, upload, lastEnd, purge>>
      /\ \A u \in Users : Uploading(u) => clock + 1 < files[upload[u]] + Grace
  BY DEF Tick
<1>2. PhotosTyped'
  BY <1>1
<1>3. RecordsInv' /\ OwnFiles' /\ TodoInv'
  BY <1>1 DEF RecordsInv, OwnFiles, TodoInv, Has, Uploading
<1>4. UploadsInv'
  BY <1>1 DEF UploadsInv, Uploading
<1>5. KnownInv'
  BY <1>1 DEF KnownInv, Has, Purges
<1>. QED
  BY <1>2, <1>3, <1>4, <1>5 DEF PhotosRest

LEMMA PurgeBeginKeeps ==
  ASSUME PhotosInv, focus = "photos", PurgeBegin, UNCHANGED <<account, focus>>
  PROVE  PhotosInv'
<1>. USE DEF PhotosInv, PhotosTyped
<1>. DEFINE list == {[user |-> u, file |-> photo[u].file, captured |-> photo[u].captured, end |-> lastEnd[u]] :
                      u \in {v \in Users : Has(v)}}
            new == [phase |-> "records", now |-> clock, known |-> {}, todo |-> list]
<1>1. list \subseteq Entries
  BY DEF Entries, Has, Photos
<1>2. \A e \in list : \E v \in Users : Has(v) /\ e.file = photo[v].file /\ e.captured = photo[v].captured
  OBVIOUS
<1>3. purge' = new /\ UNCHANGED <<photo, files, lost, upload, lastEnd, clock>>
  BY DEF PurgeBegin
<1>. HIDE DEF list
<1>4. purge' \in Purges /\ purge'.phase = "records" /\ purge'.now = clock /\ purge'.todo = list
  BY <1>1, <1>3 DEF Purges
<1>. HIDE DEF new
<1>5. PhotosTyped'
  BY <1>3, <1>4
<1>6. RecordsInv' /\ UploadsInv' /\ OwnFiles'
  BY <1>3 DEF RecordsInv, UploadsInv, OwnFiles, Has, Uploading
<1>7. TodoInv'
  BY <1>2, <1>3, <1>4 DEF TodoInv, OwnFiles, Has, Uploading
<1>8. KnownInv'
  BY <1>3, <1>4 DEF KnownInv
<1>. QED
  BY <1>5, <1>6, <1>7, <1>8 DEF PhotosRest

LEMMA PurgeKnownKeeps ==
  ASSUME PhotosInv, focus = "photos", PurgeKnown, UNCHANGED <<account, focus>>
  PROVE  PhotosInv'
<1>. USE DEF PhotosInv, PhotosTyped
<1>1. /\ purge' = [purge EXCEPT !.phase = "files", !.known = FilesOf(Users)]
      /\ UNCHANGED <<photo, files, lost, upload, lastEnd, clock>> /\ purge.todo = {}
  BY DEF PurgeKnown
<1>2. FilesOf(Users) \subseteq FileNames /\ \A u \in Users : Has(u) => photo[u].file \in FilesOf(Users)
  BY DEF FilesOf, Has, Photos
<1>3. /\ purge' \in Purges /\ purge'.phase = "files" /\ purge'.now = purge.now /\ purge'.todo = {}
      /\ purge'.known = FilesOf(Users)
  BY <1>1, <1>2 DEF Purges
<1>4. PhotosTyped'
  BY <1>1, <1>3
<1>5. RecordsInv' /\ UploadsInv' /\ OwnFiles'
  BY <1>1 DEF RecordsInv, UploadsInv, OwnFiles, Has, Uploading
<1>6. TodoInv'
  BY <1>3 DEF TodoInv
<1>7. KnownInv'
  BY <1>1, <1>2, <1>3 DEF KnownInv, Has
<1>. QED
  BY <1>4, <1>5, <1>6, <1>7 DEF PhotosRest

LEMMA PurgeFilesKeeps ==
  ASSUME PhotosInv, focus = "photos", PurgeFiles, UNCHANGED <<account, focus>>
  PROVE  PhotosInv'
<1>. USE DEF PhotosInv, PhotosTyped
<1>1. purge.phase = "files" /\ purge' = NoPurge /\ UNCHANGED <<photo, lost, upload, lastEnd, clock>>
  BY DEF PurgeFiles
<1>2. files' \in [FileNames -> Nat] /\ \A f \in FileNames : files'[f] = IF Orphan(f) THEN 0 ELSE files[f]
  BY DEF PurgeFiles, Removed
<1>3. NoPurge \in Purges /\ NoPurge.phase = "none" /\ NoPurge.now = 0 /\ NoPurge.todo = {}
  BY DEF NoPurge, Purges
<1>4. purge.now \in Nat /\ purge.now <= clock
  BY DEF KnownInv, Purges
<1>5. \A u \in Users : Uploading(u) => files'[upload[u]] = files[upload[u]]
  <2>. SUFFICES ASSUME NEW u \in Users, Uploading(u) PROVE ~Orphan(upload[u]) /\ upload[u] \in FileNames
    BY <1>2
  <2>. QED
    BY <1>4 DEF UploadsInv, Uploading, Orphan
<1>6. \A u \in Users : Has(u) => photo[u].file \in lost \/ files'[photo[u].file] = files[photo[u].file]
  <2>. SUFFICES ASSUME NEW u \in Users, Has(u), photo[u].file \notin lost
                PROVE  ~Orphan(photo[u].file) /\ photo[u].file \in FileNames
    BY <1>2
  <2>1. photo[u].file \in FileNames
    BY DEF Has, Photos
  <2>. QED
    BY <1>1, <1>4, <2>1 DEF KnownInv, Orphan
<1>7. PhotosTyped'
  BY <1>1, <1>2, <1>3
<1>8. RecordsInv'
  BY <1>1, <1>6 DEF RecordsInv, Has
<1>9. UploadsInv'
  BY <1>1, <1>5 DEF UploadsInv, Uploading
<1>10. OwnFiles' /\ TodoInv'
  BY <1>1, <1>3 DEF OwnFiles, TodoInv, Has, Uploading
<1>11. KnownInv'
  BY <1>1, <1>3 DEF KnownInv
<1>. QED
  BY <1>7, <1>8, <1>9, <1>10, <1>11 DEF PhotosRest

LEMMA PurgeDiesKeeps ==
  ASSUME PhotosInv, focus = "photos", PurgeDies, UNCHANGED <<account, focus>>
  PROVE  PhotosInv'
<1>. USE DEF PhotosInv, PhotosTyped
<1>1. purge' = NoPurge /\ UNCHANGED <<photo, files, lost, upload, lastEnd, clock>>
  BY DEF PurgeDies
<1>2. NoPurge \in Purges /\ NoPurge.phase = "none" /\ NoPurge.now = 0 /\ NoPurge.todo = {}
  BY DEF NoPurge, Purges
<1>3. PhotosTyped'
  BY <1>1, <1>2
<1>4. RecordsInv' /\ UploadsInv' /\ OwnFiles' /\ TodoInv'
  BY <1>1, <1>2 DEF RecordsInv, UploadsInv, OwnFiles, TodoInv, Has, Uploading
<1>5. KnownInv'
  BY <1>1, <1>2 DEF KnownInv
<1>. QED
  BY <1>3, <1>4, <1>5 DEF PhotosRest

LEMMA EventMovesKeeps ==
  ASSUME PhotosInv, focus = "photos", NEW u \in Users, EventMoves(u), UNCHANGED <<account, focus>>
  PROVE  PhotosInv'
<1>1. UNCHANGED <<photo, files, lost, upload, purge, clock>> /\ lastEnd' \in [Users -> Nat]
  BY DEF EventMoves, PhotosInv, PhotosTyped
<1>. QED
  BY <1>1 DEF PhotosInv, PhotosTyped, RecordsInv, UploadsInv, OwnFiles, TodoInv, KnownInv, PhotosRest, Has, Uploading

LEMMA DeletePhotoKeeps ==
  ASSUME PhotosInv, focus = "photos", NEW u \in Users, DeletePhoto(u), UNCHANGED <<account, focus>>
  PROVE  PhotosInv'
  BY GonePhotosKeeps DEF DeletePhoto, PhotosInv, PhotosTyped

LEMMA PurgeRecordKeeps ==
  ASSUME PhotosInv, focus = "photos", NEW e \in purge.todo, PurgeRecord(e), UNCHANGED <<account, focus>>
  PROVE  PhotosInv'
<1>1. purge \in Purges /\ e \in Entries /\ e.user \in Users
  BY DEF PhotosInv, PhotosTyped, Purges, Entries
<1>2. /\ purge' = [purge EXCEPT !.todo = @ \ {e}] /\ UNCHANGED <<lost, upload, lastEnd, clock>>
  BY DEF PurgeRecord
<1>3. /\ purge' \in Purges /\ purge'.phase = purge.phase /\ purge'.now = purge.now /\ purge'.known = purge.known
      /\ purge'.todo \subseteq purge.todo
  BY <1>1, <1>2 DEF Purges
<1>4. CASE GonePhotos({e.user})
  BY <1>1, <1>2, <1>3, <1>4, GonePhotosKeeps
<1>5. CASE UNCHANGED <<photo, files>>
  BY <1>2, <1>3, <1>5 DEF PhotosInv, PhotosTyped, RecordsInv, UploadsInv, OwnFiles, TodoInv, KnownInv, PhotosRest,
     Has, Uploading
<1>. QED
  BY <1>4, <1>5 DEF PurgeRecord

LEMMA PhotosMoveKeeps ==
  ASSUME PhotosInv, NEW us \in SUBSET Users, PhotosMove(us)
  PROVE  PhotosInv'
<1>1. focus = "photos" /\ PhotosNext(us) /\ UNCHANGED <<account, focus>>
  BY DEF PhotosMove, accountVars
<1>2. ASSUME NEW u \in us, NEW f \in FileNames, BeginUpload(u, f)
      PROVE  PhotosInv'
  BY <1>1, <1>2, BeginUploadKeeps
<1>3. ASSUME NEW u \in us,
             CommitUpload(u) \/ AbortUpload(u) \/ DeletePhoto(u) \/ EventMoves(u) \/ LoseFile(u)
      PROVE  PhotosInv'
  BY <1>1, <1>3, CommitUploadKeeps, AbortUploadKeeps, DeletePhotoKeeps, EventMovesKeeps, LoseFileKeeps
<1>4. ASSUME NEW e \in purge.todo, PurgeRecord(e)
      PROVE  PhotosInv'
  BY <1>1, <1>4, PurgeRecordKeeps
<1>5. CASE Tick \/ PurgeBegin \/ PurgeKnown \/ PurgeFiles \/ PurgeDies
  BY <1>1, <1>5, TickKeeps, PurgeBeginKeeps, PurgeKnownKeeps, PurgeFilesKeeps, PurgeDiesKeeps
<1>. QED
  BY <1>1, <1>2, <1>3, <1>4, <1>5 DEF PhotosNext

(* The deletion of an account takes its photo along.                         *)
LEMMA DeleteKeepsPhotos ==
  ASSUME PhotosInv, AccountsInv, NEW u \in Users, DeleteAccount(u)
  PROVE  PhotosInv'
<1>1. AccountGone(u) /\ account' = [account EXCEPT ![u] = Erased(@)] /\ UNCHANGED focus
  BY DEF DeleteAccount, DeleteRow
<1>2. \A v \in Users : account'[v].deleted => account[v].deleted \/ (v \in {u} /\ ~Uploading(v))
  BY <1>1 DEF AccountGone, AccountsInv, RowsInv
<1>. QED
  BY <1>1, <1>2, GonePhotosKeeps DEF AccountGone, PhotosInv, PhotosTyped

(* The other parts leave the photos alone, and in them nobody has one.       *)
LEMMA OthersKeepPhotos ==
  ASSUME PhotosInv, UNCHANGED <<photoVars, focus>>, focus # "photos" \/ UNCHANGED account
  PROVE  PhotosInv'
  BY DEF photoVars, PhotosInv, PhotosTyped, RecordsInv, UploadsInv, OwnFiles, TodoInv, KnownInv, PhotosRest,
     Has, Uploading

LEMMA PhotosStep ==
  ASSUME PhotosInv, AccountsInv, NEW us \in SUBSET Users, NEW ms, NEW over, [PortalNext(us, ms, over)]_portalVars
  PROVE  PhotosInv'
<1>1. CASE PhotosMove(us)
  BY <1>1, PhotosMoveKeeps
<1>2. CASE \E u \in us : DeleteOwn(u) \/ AnonymizeAccount(u)
  BY <1>2, DeleteKeepsPhotos DEF DeleteOwn, AnonymizeAccount
<1>3. CASE AccountsMove(ms) \/ Moderate(Barrable)
  BY <1>3, OthersKeepPhotos DEF AccountsMove, Moderate
<1>4. CASE ClansMove \/ TeamsMove(over) \/ WikiMove \/ ContactMove \/ UNCHANGED portalVars
  <2>1. UNCHANGED <<photoVars, focus>> /\ UNCHANGED account
    BY <1>4 DEF ClansMove, TeamsMove, WikiMove, ContactMove, portalVars, accountVars
  <2>. QED
    BY <2>1, OthersKeepPhotos
<1>. QED
  BY <1>1, <1>2, <1>3, <1>4 DEF PortalNext

(* The purge takes what is over or has no file.                              *)
LEMMA MaxOfTwo ==
  ASSUME NEW a \in Nat, NEW b \in Nat
  PROVE  Max({a, b}) \in Nat /\ Max({a, b}) >= a
<1>. DEFINE m == IF a >= b THEN a ELSE b
<1>1. \E x \in {a, b} : \A y \in {a, b} : x >= y
  <2>1. m \in {a, b} /\ \A y \in {a, b} : m >= y
    OBVIOUS
  <2>. QED
    BY <2>1
<1>2. Max({a, b}) \in {a, b} /\ \A y \in {a, b} : Max({a, b}) >= y
  BY <1>1 DEF Max
<1>. QED
  BY <1>2

LEMMA PurgesRightly ==
  ASSUME PhotosInv, AccountsInv, NEW us \in SUBSET Users, NEW ms, NEW over, [PortalNext(us, ms, over)]_portalVars
  PROVE  PurgedRightly
<1>. SUFFICES ASSUME NEW u \in Users, Has(u), photo'[u] = NoOne, purge' # purge
              PROVE  photo[u].captured + Retention <= clock \/ photo[u].file \in lost
  BY DEF PurgedRightly
<1>1. photo' # photo
  BY DEF Has
<1>2. focus = "photos" /\ PhotosNext(us)
  <2>1. PhotosMove(us)
    BY <1>1 DEF PortalNext, portalVars, photoVars, AccountsMove, Moderate, ClansMove, TeamsMove, WikiMove, ContactMove,
       DeleteOwn, AnonymizeAccount, DeleteAccount, AccountGone
  <2>. QED
    BY <2>1 DEF PhotosMove
<1>3. PICK e \in purge.todo : PurgeRecord(e) /\ Condemned(e) /\ StillThat(e) /\ GonePhotos({e.user})
  <2>1. ~(Tick \/ PurgeBegin \/ PurgeKnown \/ PurgeFiles \/ PurgeDies)
    BY <1>1 DEF Tick, PurgeBegin, PurgeKnown, PurgeFiles, PurgeDies
  <2>2. \A v \in us : ~(CommitUpload(v) \/ AbortUpload(v) \/ DeletePhoto(v) \/ EventMoves(v) \/ LoseFile(v))
    BY DEF CommitUpload, AbortUpload, DeletePhoto, EventMoves, LoseFile
  <2>3. \A v \in us, f \in FileNames : ~BeginUpload(v, f)
    BY DEF BeginUpload
  <2>4. PICK e \in purge.todo : PurgeRecord(e)
    BY <1>2, <2>1, <2>2, <2>3 DEF PhotosNext
  <2>5. Condemned(e) /\ StillThat(e) /\ GonePhotos({e.user})
    BY <1>1, <2>4 DEF PurgeRecord
  <2>. QED
    BY <2>4, <2>5
<1>4. u = e.user /\ photo[u].file = e.file
  BY <1>3 DEF GonePhotos, Has, StillThat
<1>5. photo[u] \in Photos /\ photo[u].captured = e.captured /\ e.end \in Nat /\ e.captured \in Nat
      /\ purge.now \in Nat /\ purge.now <= clock /\ clock \in Nat
  BY <1>4 DEF PhotosInv, PhotosTyped, TodoInv, Purges, Entries, KnownInv, Has
<1>6. CASE files[e.file] = 0
  BY <1>4, <1>5, <1>6 DEF PhotosInv, RecordsInv, Photos
<1>7. CASE Deadline(e.captured, e.end) <= purge.now
  BY <1>5, <1>7, MaxOfTwo DEF Deadline
<1>. QED
  BY <1>3, <1>6, <1>7 DEF Condemned

LEMMA PhotosStart ==
  ASSUME PhotosInit
  PROVE  PhotosInv
<1>1. NoPurge \in Purges /\ NoPurge.phase = "none" /\ NoPurge.now = 0 /\ NoPurge.todo = {}
  BY DEF NoPurge, Purges
<1>2. PhotosTyped
  BY <1>1 DEF PhotosInit, PhotosTyped
<1>. QED
  BY <1>1, <1>2 DEF PhotosInit, PhotosInv, RecordsInv, UploadsInv, OwnFiles, TodoInv, KnownInv, PhotosRest, Has, Uploading

(* A record has its file, a deleted account has no record, and a purge never *)
(* takes the picture of a user whose retention runs, however uploads,        *)
(* deletions, lost files and the steps of a purge interleave                 *)
(* (users/services.py).                                                      *)
THEOREM PhotosAreKept ==
  ASSUME NEW mails0 \in [Users -> Mails], \A u, v \in Users : mails0[u] = mails0[v] => u = v,
         NEW rows0, NEW e0, NEW us \in SUBSET Users, NEW ms \in SUBSET Mails, NEW over
  PROVE  PortalSpec(mails0, rows0, e0, us, ms, over) => PhotosKept
<1>1. PortalInit(mails0, rows0, e0) => AccountsInv /\ PhotosInv
  BY PortalStart, PhotosStart DEF PortalInit
<1>2. AccountsInv /\ [PortalNext(us, ms, over)]_portalVars => AccountsInv'
  <2>1. CASE PortalNext(us, ms, over)
    BY <2>1, PortalStep, AccountsStepKeeps, AccountsStutter
  <2>2. CASE UNCHANGED portalVars
    BY <2>2, AccountsStutter DEF portalVars
  <2>. QED
    BY <2>1, <2>2
<1>3. AccountsInv /\ PhotosInv /\ [PortalNext(us, ms, over)]_portalVars => PhotosInv'
  BY PhotosStep
<1>4. AccountsInv /\ PhotosInv /\ [PortalNext(us, ms, over)]_portalVars => [PurgedRightly]_photoVars
  BY PurgesRightly
<1>5. PhotosInv => FilesBacked
  <2>. SUFFICES ASSUME PhotosInv, NEW u \in Users, Has(u)
                PROVE  (files[photo[u].file] # 0 \/ photo[u].file \in lost) /\ ~account[u].deleted
    BY DEF FilesBacked
  <2>1. photo[u].captured # 0
    BY DEF PhotosInv, PhotosTyped, Photos, Has
  <2>. QED
    BY <2>1 DEF PhotosInv, RecordsInv
<1>. QED
  BY <1>1, <1>2, <1>3, <1>4, <1>5, PTL DEF PortalSpec, PhotosKept

(* The knowledge base: chains of pages before and after a move.              *)
Linked == parent \in [Pages -> Pages \cup {NoOne}]

LEMMA ChainHolds ==
  ASSUME NEW q \in Pages
  PROVE  q \in Chain(q) /\ Chain(q) \subseteq Pages
  BY DEF Chain

LEMMA ChainGoesUp ==
  ASSUME Linked, NEW q \in Pages, NEW s \in Chain(q), parent[s] # NoOne
  PROVE  parent[s] \in Chain(q)
<1>1. s \in Pages /\ parent[s] \in Pages
  BY DEF Chain, Linked
<1>. QED
  BY <1>1 DEF Chain, Upward

LEMMA ChainIsLeast ==
  ASSUME NEW q \in Pages, NEW S \in SUBSET Pages, q \in S, Upward(S)
  PROVE  Chain(q) \subseteq S
  BY DEF Chain

LEMMA ChainsNest ==
  ASSUME Linked, NEW q \in Pages, NEW s \in Chain(q)
  PROVE  Chain(s) \subseteq Chain(q)
<1>1. Upward(Chain(q)) /\ Chain(q) \in SUBSET Pages
  BY ChainGoesUp, ChainHolds DEF Upward
<1>. QED
  BY <1>1, ChainIsLeast

(* Above a page is what its parent has above it.                             *)
LEMMA ChainUnfolds ==
  ASSUME Linked, NEW q \in Pages, NEW s \in Chain(q), s # q
  PROVE  parent[q] # NoOne /\ s \in Chain(parent[q])
<1>1. CASE parent[q] = NoOne
  <2>1. Upward({q})
    BY <1>1 DEF Upward
  <2>. QED
    BY <2>1, ChainIsLeast
<1>2. CASE parent[q] # NoOne
  <2>1. parent[q] \in Pages
    BY <1>2 DEF Linked
  <2>2. Upward({q} \cup Chain(parent[q])) /\ {q} \cup Chain(parent[q]) \in SUBSET Pages
    BY <2>1, ChainHolds, ChainGoesUp DEF Upward
  <2>. QED
    BY <1>2, <2>2, ChainIsLeast
<1>. QED
  BY <1>1, <1>2

NoLoop == \A r \in Pages : parent[r] # NoOne => Exists(r) /\ Exists(parent[r]) /\ r \notin Chain(parent[r])

LEMMA ChainsAreOrdered ==
  ASSUME Linked, NoLoop, NEW a \in Pages, NEW b \in Chain(a), a \in Chain(b)
  PROVE  a = b
<1>. SUFFICES ASSUME a # b PROVE FALSE
  OBVIOUS
<1>1. b \in Pages
  BY ChainHolds
<1>2. parent[a] # NoOne /\ b \in Chain(parent[a])
  BY ChainUnfolds
<1>3. parent[a] \in Pages
  BY <1>2 DEF Linked
<1>4. a \in Chain(parent[a])
  BY <1>2, <1>3, ChainsNest
<1>. QED
  BY <1>2, <1>4 DEF NoLoop

(* Two pages above a third are above each other.                             *)
LEMMA ChainsAreLines ==
  ASSUME Linked, NoLoop, NEW r \in Pages, NEW p \in Chain(r), NEW s \in Chain(r)
  PROVE  p \in Chain(s) \/ s \in Chain(p)
<1>. DEFINE S == {t \in Chain(r) : p \in Chain(t) \/ t \in Chain(p)}
<1>1. r \in S /\ S \in SUBSET Pages
  BY ChainHolds
<1>2. ASSUME NEW t \in S, parent[t] # NoOne
      PROVE  parent[t] \in S
  <2>1. parent[t] \in Chain(r) /\ t \in Pages /\ p \in Pages
    BY <1>2, ChainGoesUp, ChainHolds
  <2>2. CASE t \in Chain(p)
    BY <1>2, <2>1, <2>2, ChainGoesUp
  <2>3. CASE p \in Chain(t) /\ t \notin Chain(p)
    <3>1. t # p
      BY <2>1, <2>3, ChainHolds
    <3>2. p \in Chain(parent[t])
      BY <2>1, <2>3, <3>1, ChainUnfolds
    <3>. QED
      BY <2>1, <3>2
  <2>. QED
    BY <2>2, <2>3
<1>3. Chain(r) \subseteq S
  BY <1>1, <1>2, ChainIsLeast DEF Upward
<1>. QED
  BY <1>3

(* A move of p below q: Above(r) is what may be above r afterwards.          *)
Above(p, q, r) == IF p \in Chain(r) THEN (Chain(r) \ Chain(p)) \cup {p} \cup Chain(q) ELSE Chain(r)

LEMMA MovedChain ==
  ASSUME Linked, NoLoop, NEW p \in Pages, NEW q \in Pages, p \notin Chain(q),
         parent' = [parent EXCEPT ![p] = q], NEW r \in Pages
  PROVE  Chain(r)' \subseteq Above(p, q, r)
<1>. DEFINE S == Above(p, q, r)
<1>1. S \in SUBSET Pages /\ r \in S
  <2>1. p \in Chain(r) /\ r \in Chain(p) => r = p
    BY ChainsAreOrdered
  <2>2. r \in Chain(r) /\ Chain(r) \subseteq Pages /\ Chain(q) \subseteq Pages
    BY ChainHolds
  <2>. QED
    BY <2>1, <2>2 DEF Above
<1>2. ASSUME NEW s \in S, parent'[s] # NoOne
      PROVE  parent'[s] \in S
  <2>1. s \in Pages /\ p \in Chain(p) /\ q \in Chain(q)
    BY <1>1, ChainHolds
  <2>2. CASE p \notin Chain(r)
    <3>1. S = Chain(r) /\ s # p
      BY <2>2 DEF Above
    <3>. QED
      BY <1>2, <2>1, <3>1, ChainGoesUp DEF Linked
  <2>3. CASE p \in Chain(r) /\ s = p
    <3>1. parent'[s] = q
      BY <2>1, <2>3 DEF Linked
    <3>. QED
      BY <2>1, <2>3, <3>1 DEF Above
  <2>4. CASE p \in Chain(r) /\ s \in Chain(q)
    <3>1. s # p /\ parent'[s] = parent[s]
      BY <2>1, <2>4 DEF Linked
    <3>. QED
      BY <1>2, <2>4, <3>1, ChainGoesUp DEF Above
  <2>5. CASE p \in Chain(r) /\ s \in Chain(r) \ Chain(p)
    <3>1. s # p /\ parent'[s] = parent[s] /\ parent[s] # NoOne
      BY <1>2, <2>1, <2>5 DEF Linked
    <3>2. parent[s] \in Chain(r) /\ parent[s] \in Pages
      BY <2>1, <2>5, <3>1, ChainGoesUp DEF Linked
    <3>3. p \in Chain(s)
      BY <2>5, ChainsAreLines
    <3>4. p \in Chain(parent[s])
      BY <2>1, <3>1, <3>3, ChainUnfolds
    <3>5. parent[s] \in Chain(p) => parent[s] = p
      BY <3>2, <3>4, ChainsAreOrdered
    <3>. QED
      BY <2>5, <3>1, <3>2, <3>5 DEF Above
  <2>. QED
    BY <2>2, <2>3, <2>4, <2>5 DEF Above
<1>3. {t \in Pages : \A T \in SUBSET Pages :
          r \in T /\ (\A s \in T : parent'[s] # NoOne => parent'[s] \in T) => t \in T} \subseteq S
  BY <1>1, <1>2
<1>. QED
  BY <1>3 DEF Chain, Upward

LEMMA CutChain ==
  ASSUME Linked, NEW p \in Pages, parent' = [parent EXCEPT ![p] = NoOne], NEW r \in Pages
  PROVE  Chain(r)' \subseteq Chain(r)
<1>1. Chain(r) \in SUBSET Pages /\ r \in Chain(r)
  BY ChainHolds
<1>2. ASSUME NEW s \in Chain(r), parent'[s] # NoOne
      PROVE  parent'[s] \in Chain(r)
  <2>1. s \in Pages /\ s # p /\ parent'[s] = parent[s]
    BY <1>1, <1>2 DEF Linked
  <2>. QED
    BY <1>2, <2>1, ChainGoesUp
<1>3. {t \in Pages : \A T \in SUBSET Pages :
          r \in T /\ (\A s \in T : parent'[s] # NoOne => parent'[s] \in T) => t \in T} \subseteq Chain(r)
  BY <1>1, <1>2
<1>. QED
  BY <1>3 DEF Chain, Upward

LEMMA ChainSize ==
  ASSUME NEW S \in SUBSET Pages
  PROVE  IsFiniteSet(S) /\ Cardinality(S) \in Nat
<1>1. IsFiniteSet(Pages)
  BY KnowledgeAssumption, FS_Interval DEF Pages
<1>. QED
  BY <1>1, FS_Subset, FS_CardinalityType

LEMMA AboveSize ==
  ASSUME Linked, NEW p \in Pages, NEW q \in Pages, NEW r \in Pages, p \in Chain(r)
  PROVE  Cardinality(Above(p, q, r)) <= Cardinality(Chain(r) \ Chain(p)) + 1 + Cardinality(Chain(q))
<1>. DEFINE A == Chain(r) \ Chain(p)  B == Chain(q)
<1>1. A \in SUBSET Pages /\ B \in SUBSET Pages /\ A \cup {p} \in SUBSET Pages
  BY ChainHolds
<1>2. /\ IsFiniteSet(A) /\ IsFiniteSet(B) /\ IsFiniteSet(A \cup {p})
      /\ Cardinality(A) \in Nat /\ Cardinality(B) \in Nat /\ Cardinality(A \cup {p}) \in Nat
      /\ Cardinality((A \cup {p}) \cap B) \in Nat
  BY <1>1, ChainSize
<1>3. Above(p, q, r) = (A \cup {p}) \cup B
  BY DEF Above
<1>. HIDE DEF A, B
<1>4. Cardinality(A \cup {p}) <= Cardinality(A) + 1
  BY <1>2, FS_AddElement
<1>5. Cardinality((A \cup {p}) \cup B) = Cardinality(A \cup {p}) + Cardinality(B) - Cardinality((A \cup {p}) \cap B)
  BY <1>2, FS_Union
<1>6. Cardinality(Above(p, q, r)) <= Cardinality(A) + 1 + Cardinality(B)
  BY <1>2, <1>3, <1>4, <1>5
<1>. QED
  BY <1>6 DEF A, B

Shallow == \A r \in Pages : parent[r] # NoOne => Cardinality(Chain(r)) <= MaxDepth

WikiTyped ==
  /\ Linked
  /\ revisions \in [Pages -> Seq(Nat)] /\ published \in [Pages -> Nat] /\ saves \in Seq(Nat)
  /\ form \in [Editors -> [on : Pages \cup {Space, NewPage, NoOne}, version : Nat]]

WikiInv == WikiTyped /\ NoLoop /\ Shallow /\ NothingOverwritten

(* A smaller chain is not longer.                                            *)
LEMMA SmallerChain ==
  ASSUME NEW S \in SUBSET Pages, NEW T \in SUBSET S
  PROVE  Cardinality(T) \in Nat /\ Cardinality(T) <= Cardinality(S)
<1>1. IsFiniteSet(S) /\ IsFiniteSet(T) /\ T \in SUBSET Pages
  BY ChainSize
<1>. QED
  BY <1>1, ChainSize, FS_Subset

(* A move that validate_parent lets pass keeps the trees: nothing above the  *)
(* new parent is below the page, and the deepest page below it still fits.   *)
LEMMA MoveKeepsTrees ==
  ASSUME WikiTyped, NoLoop, Shallow, NEW p \in Pages, NEW q \in Pages \cup {NoOne}, ValidParent(p, q),
         parent' = [parent EXCEPT ![p] = q], Exists(p)', \A r \in Pages : Exists(r) => Exists(r)'
  PROVE  NoLoop' /\ Shallow'
<1>. Linked
  BY DEF WikiTyped
<1>. SUFFICES ASSUME NEW r \in Pages, parent'[r] # NoOne
              PROVE  /\ Exists(r)' /\ Exists(parent[r])' /\ r \notin Chain(parent[r])'
                     /\ Cardinality(Chain(r)') <= MaxDepth
  BY DEF NoLoop, Shallow
<1>0. Chain(r) \in SUBSET Pages /\ MaxDepth \in Nat
  BY ChainHolds, KnowledgeAssumption
<1>1. CASE q = NoOne
  <2>1. parent'[r] = parent[r] /\ parent[r] \in Pages
    BY <1>1 DEF Linked
  <2>2. Chain(r)' \subseteq Chain(r) /\ Chain(parent[r])' \subseteq Chain(parent[r])
    BY <1>1, <2>1, CutChain
  <2>3. Cardinality(Chain(r)') <= Cardinality(Chain(r)) /\ Cardinality(Chain(r)') \in Nat
        /\ Cardinality(Chain(r)) \in Nat
    BY <1>0, <2>2, SmallerChain
  <2>. QED
    BY <1>0, <2>1, <2>2, <2>3 DEF NoLoop, Shallow
<1>2. CASE q # NoOne
  <2>1. /\ q \in Pages /\ q # p /\ Exists(q) /\ p \notin Chain(q)
        /\ \A s \in Below(p) \cup {p} : Cardinality(Chain(q)) + Cardinality(Chain(s) \ Chain(p)) < MaxDepth
    BY <1>2 DEF ValidParent
  <2>2. \A s \in Pages : Chain(s)' \subseteq Above(p, q, s)
    BY <2>1, MovedChain
  <2>3. Chain(q)' \subseteq Chain(q)
    BY <2>1, <2>2 DEF Above
  <2>4. p \in Chain(r) => Cardinality(Chain(r)') <= MaxDepth
    <3>. SUFFICES ASSUME p \in Chain(r)
                  PROVE  Cardinality(Chain(r)') <= MaxDepth
      OBVIOUS
    <3>1. r \in Below(p) \cup {p}
      <4>1. r # p => Exists(r)
        BY ChainUnfolds DEF NoLoop
      <4>. QED
        BY <4>1 DEF Below
    <3>2. Cardinality(Chain(q)) + Cardinality(Chain(r) \ Chain(p)) < MaxDepth
      BY <2>1, <3>1
    <3>3. Above(p, q, r) \in SUBSET Pages
      BY <2>1, ChainHolds DEF Above
    <3>4. Cardinality(Chain(r)') <= Cardinality(Above(p, q, r)) /\ Cardinality(Chain(r)') \in Nat
          /\ Cardinality(Above(p, q, r)) \in Nat
      BY <2>2, <3>3, SmallerChain
    <3>5. Cardinality(Above(p, q, r)) <= Cardinality(Chain(r) \ Chain(p)) + 1 + Cardinality(Chain(q))
      BY <2>1, AboveSize
    <3>6. Cardinality(Chain(r) \ Chain(p)) \in Nat /\ Cardinality(Chain(q)) \in Nat
      BY <2>1, ChainHolds, ChainSize
    <3>. QED
      BY <1>0, <3>2, <3>4, <3>5, <3>6
  <2>5. CASE r = p
    <3>1. parent'[r] = q
      BY <2>5 DEF Linked
    <3>2. p \in Chain(p)
      BY ChainHolds
    <3>. QED
      BY <2>1, <2>3, <2>4, <2>5, <3>1, <3>2
  <2>6. CASE r # p
    <3>1. parent'[r] = parent[r] /\ parent[r] # NoOne /\ parent[r] \in Pages
      BY <2>6 DEF Linked
    <3>2. Exists(r)' /\ Exists(parent[r])' /\ r \notin Chain(parent[r])
      BY <3>1 DEF NoLoop
    <3>3. r \notin Chain(parent[r])'
      <4>1. Chain(parent[r])' \subseteq Above(p, q, parent[r])
        BY <2>2, <3>1
      <4>2. CASE p \notin Chain(parent[r])
        BY <3>2, <4>1, <4>2 DEF Above
      <4>3. CASE p \in Chain(parent[r])
        <5>1. r \in Chain(q) => p \in Chain(q)
          <6>. SUFFICES ASSUME r \in Chain(q)
                        PROVE  p \in Chain(q)
            OBVIOUS
          <6>1. parent[r] \in Chain(q)
            BY <2>1, <3>1, ChainGoesUp
          <6>. QED
            BY <2>1, <4>3, <6>1, ChainsNest
        <5>. QED
          BY <2>1, <2>6, <3>2, <4>1, <4>3, <5>1 DEF Above
      <4>. QED
        BY <4>2, <4>3
    <3>4. p \notin Chain(r) => Cardinality(Chain(r)') <= MaxDepth
      <4>. SUFFICES ASSUME p \notin Chain(r)
                    PROVE  Cardinality(Chain(r)') <= MaxDepth
        OBVIOUS
      <4>1. Chain(r)' \subseteq Chain(r)
        BY <2>2 DEF Above
      <4>2. /\ Cardinality(Chain(r)') <= Cardinality(Chain(r)) /\ Cardinality(Chain(r)') \in Nat
            /\ Cardinality(Chain(r)) \in Nat
        BY <1>0, <4>1, SmallerChain, ChainSize
      <4>3. Cardinality(Chain(r)) <= MaxDepth
        BY <3>1 DEF Shallow
      <4>. QED
        BY <1>0, <4>2, <4>3
    <3>. QED
      BY <2>4, <3>1, <3>2, <3>3, <3>4
  <2>. QED
    BY <2>5, <2>6
<1>. QED
  BY <1>1, <1>2

(* A revision is written on the version its editor had seen.                 *)
LEMMA RevisionKeeps ==
  ASSUME WikiInv, NEW e \in Editors, NEW p \in Pages, NEW q \in Pages \cup {NoOne}, NEW publish \in BOOLEAN,
         WriteRevision(e, p, q, publish), form[e].version = Version(p)
  PROVE  WikiInv'
<1>. DEFINE w == Append(revisions[p], form[e].version)
<1>1. revisions[p] \in Seq(Nat) /\ form[e].version \in Nat /\ Version(p) \in Nat
  BY DEF WikiInv, WikiTyped, Version
<1>2. /\ w \in Seq(Nat) /\ Len(w) = Version(p) + 1
      /\ \A n \in DOMAIN w : w[n] = n - 1
  BY <1>1 DEF WikiInv, NothingOverwritten, Version
<1>3. revisions' = [revisions EXCEPT ![p] = w]
  BY DEF WriteRevision
<1>4. \A r \in Pages : revisions'[r] = IF r = p THEN w ELSE revisions[r]
  BY <1>3 DEF WikiInv, WikiTyped
<1>. HIDE DEF w
<1>5. Exists(p)' /\ \A r \in Pages : Exists(r) => Exists(r)'
  BY <1>1, <1>2, <1>4 DEF Exists, Version
<1>6. NoLoop' /\ Shallow'
  BY <1>5, MoveKeepsTrees DEF WriteRevision, WikiInv
<1>7. published' \in [Pages -> Nat] /\ \A r \in Pages : published'[r] <= Version(r)'
  <2>1. \A r \in Pages : published'[r] \in {published[r], IF r = p THEN Version(p) + 1 ELSE published[r]}
    BY DEF WriteRevision, WikiInv, WikiTyped
  <2>2. \A r \in Pages : published[r] \in Nat /\ published[r] <= Version(r) /\ Version(r) \in Nat
    BY DEF WikiInv, WikiTyped, NothingOverwritten, Version
  <2>3. \A r \in Pages : Version(r)' = IF r = p THEN Version(p) + 1 ELSE Version(r)
    BY <1>2, <1>4 DEF Version
  <2>4. published' = [r \in Pages |-> published'[r]]
    BY DEF WriteRevision, WikiInv, WikiTyped
  <2>. QED
    BY <2>1, <2>2, <2>3, <2>4
<1>8. WikiTyped'
  <2>1. NoForm \in [on : Pages \cup {Space, NewPage, NoOne}, version : Nat]
    BY DEF NoForm
  <2>. QED
    BY <1>2, <1>3, <1>7, <2>1 DEF WriteRevision, WikiInv, WikiTyped, Linked
<1>9. NothingOverwritten'
  <2>1. \A r \in Pages : \A n \in DOMAIN revisions'[r] : revisions'[r][n] = n - 1
    <3>. SUFFICES ASSUME NEW r \in Pages PROVE \A n \in DOMAIN revisions'[r] : revisions'[r][n] = n - 1
      OBVIOUS
    <3>1. CASE r = p
      BY <1>2, <1>4, <3>1
    <3>2. CASE r # p
      BY <1>4, <3>2 DEF WikiInv, NothingOverwritten
    <3>. QED
      BY <3>1, <3>2
  <2>2. saves' = saves /\ \A n \in DOMAIN saves : saves[n] = n
    BY DEF WriteRevision, WikiInv, NothingOverwritten
  <2>. QED
    BY <1>7, <2>1, <2>2 DEF NothingOverwritten
<1>. QED
  BY <1>6, <1>8, <1>9 DEF WikiInv

LEMMA TreesRest ==
  ASSUME UNCHANGED <<parent, revisions>>, NoLoop, Shallow
  PROVE  NoLoop' /\ Shallow'
<1>1. \A r : Chain(r)' = Chain(r)
  BY DEF Chain, Upward
<1>2. \A r : Exists(r)' = Exists(r)
  BY DEF Exists, Version
<1>. QED
  BY <1>1, <1>2 DEF NoLoop, Shallow

LEMMA SpaceKeeps ==
  ASSUME WikiInv, NEW e \in Editors, SaveSpace(e)
  PROVE  WikiInv'
<1>. DEFINE w == Append(saves, form[e].version)
<1>1. w \in Seq(Nat) /\ \A n \in DOMAIN w : w[n] = n
  BY DEF WikiInv, WikiTyped, NothingOverwritten, SaveSpace, Current, Of
<1>2. NoForm \in [on : Pages \cup {Space, NewPage, NoOne}, version : Nat]
  BY DEF NoForm
<1>3. saves' = w
  BY DEF SaveSpace
<1>. HIDE DEF w
<1>. QED
  BY <1>1, <1>2, <1>3, TreesRest DEF SaveSpace, WikiInv, WikiTyped, Linked, NothingOverwritten, Version

(* Opening or closing a form.                                                *)
LEMMA FormKeeps ==
  ASSUME WikiInv, UNCHANGED <<parent, revisions, published, saves>>,
         form' \in [Editors -> [on : Pages \cup {Space, NewPage, NoOne}, version : Nat]]
  PROVE  WikiInv'
  BY TreesRest DEF WikiInv, WikiTyped, Linked, NothingOverwritten, Version

LEMMA WikiKeeps ==
  ASSUME WikiInv, WikiNext
  PROVE  WikiInv'
<1>1. ASSUME NEW e \in Editors, NEW what \in Pages \cup {Space, NewPage}, Show(e, what)
      PROVE  WikiInv'
  <2>1. Of(what) \in Nat
    BY DEF Of, WikiInv, WikiTyped, Version
  <2>. QED
    BY <1>1, <2>1, FormKeeps DEF Show, WikiInv, WikiTyped
<1>2. ASSUME NEW e \in Editors, CloseForm(e)
      PROVE  WikiInv'
  BY <1>2, FormKeeps DEF CloseForm, NoForm, WikiInv, WikiTyped
<1>3. Of(NewPage) = 0 /\ \A p \in Pages : Of(p) = Version(p) /\ Version(p) \in Nat
  BY KnowledgeAssumption DEF Of, Pages, Space, NewPage, WikiInv, WikiTyped, Version
<1>4. ASSUME NEW e \in Editors, NEW p \in Pages, NEW q \in Pages \cup {NoOne}, NEW publish \in BOOLEAN,
             SavePage(e, p, q, publish)
      PROVE  WikiInv'
  <2>1. form[e].version = Version(p)
    BY <1>3, <1>4 DEF SavePage, Current, Exists
  <2>. QED
    BY <1>4, <2>1, RevisionKeeps DEF SavePage
<1>5. ASSUME NEW e \in Editors, NEW p \in Pages, NEW publish \in BOOLEAN, Rewrite(e, p, publish)
      PROVE  WikiInv'
  <2>1. form[e].version = Version(p) /\ parent[p] \in Pages \cup {NoOne}
    BY <1>3, <1>5 DEF Rewrite, Current, WikiInv, WikiTyped, Linked
  <2>. QED
    BY <1>5, <2>1, RevisionKeeps DEF Rewrite
<1>. QED
  BY <1>1, <1>2, <1>4, <1>5, SpaceKeeps DEF WikiNext, EditSpace, EditPages, OpenPage, OpenSpace,
     PublishPage, RestoreRevision

LEMMA WikiStart ==
  ASSUME WikiInit
  PROVE  WikiInv
<1>1. NoForm \in [on : Pages \cup {Space, NewPage, NoOne}, version : Nat] /\ <<>> \in Seq(Nat) /\ Len(<<>>) = 0
  BY DEF NoForm
<1>. QED
  BY <1>1 DEF WikiInit, WikiInv, WikiTyped, Linked, NoLoop, Shallow, NothingOverwritten, Version

-----------------------------------------------------------------------------
(* The contact form.                                                         *)
Forms == [phase : {"token?", "sender?", "ip?", "ip"}, token : Tokens, sender : Senders, ip : Ips]
TakenIn == [token : Tokens, sender : Senders, ip : Ips, age : Nat, by : Posts]

ContactTyped ==
  /\ post \in [Posts -> Forms \cup {NoPost}]
  /\ mails \in SUBSET TakenIn /\ IsFiniteSet(mails)

(* Two posts never have the same lock, and a post that has the lock of its   *)
(* form is the first one.                                                    *)
LocksHeld == \A r, s \in Posts : r # s => Keys(post[r]) \cap Keys(post[s]) = {}
FirstPost == \A r \in Posts : post[r].phase \in {"sender?", "ip?", "ip"} => ~Before(post[r].token)

ContactInv == ContactTyped /\ LocksHeld /\ FirstPost /\ AcceptedOnce /\ LimitsHold

LEMMA KeysOf ==
  /\ Keys(NoPost) = {}
  /\ \A p \in Forms :
       /\ p.phase = "token?" => Keys(p) = {}
       /\ p.phase = "sender?" => Keys(p) = {<<"token", p.token>>}
       /\ p.phase = "ip?" => Keys(p) = {<<"token", p.token>>, <<"sender", p.sender>>}
       /\ p.phase = "ip" => Keys(p) = {<<"token", p.token>>, <<"sender", p.sender>>, <<"ip", p.ip>>}
  BY DEF Keys, Forms, NoPost

LEMMA NoPostPhase == NoPost.phase = "none" /\ \A p \in Forms : p.phase # "none"
  BY DEF NoPost, Forms

(* A post that ends or begins has no lock.                                   *)
LEMMA PostWithout ==
  ASSUME ContactInv, NEW r \in Posts, NEW p \in Forms \cup {NoPost}, p.phase \in {"none", "token?"},
         post' = [post EXCEPT ![r] = p], UNCHANGED <<mails, old>>
  PROVE  ContactInv'
<1>1. \A s \in Posts : post'[s] = IF s = r THEN p ELSE post[s]
  BY DEF ContactInv, ContactTyped
<1>2. Keys(p) = {}
  BY KeysOf, NoPostPhase
<1>3. LocksHeld'
  BY <1>1, <1>2 DEF ContactInv, LocksHeld
<1>4. FirstPost'
  BY <1>1 DEF ContactInv, FirstPost, Before
<1>5. ContactTyped' /\ AcceptedOnce' /\ LimitsHold'
  BY DEF ContactInv, ContactTyped, AcceptedOnce, LimitsHold, OfSender, InWindow
<1>. QED
  BY <1>3, <1>4, <1>5 DEF ContactInv

(* A post takes one more lock.                                               *)
LEMMA PostLocks ==
  ASSUME ContactInv, NEW r \in Posts, NEW key, NEW phase \in {"sender?", "ip?", "ip"}, Free(r, key),
         post[r] \in Forms, Keys([post[r] EXCEPT !.phase = phase]) = Keys(post[r]) \cup {key},
         ~Before(post[r].token), To(r, phase), UNCHANGED <<mails, old>>
  PROVE  ContactInv'
<1>. DEFINE p == [post[r] EXCEPT !.phase = phase]
<1>1. p \in Forms /\ p.token = post[r].token
  BY DEF Forms
<1>2. post' = [post EXCEPT ![r] = p]
  BY DEF To, ContactInv, ContactTyped
<1>3. Keys(p) = Keys(post[r]) \cup {key}
  OBVIOUS
<1>. HIDE DEF p
<1>4. \A s \in Posts : post'[s] = IF s = r THEN p ELSE post[s]
  BY <1>2 DEF ContactInv, ContactTyped
<1>5. LocksHeld'
  BY <1>3, <1>4 DEF ContactInv, LocksHeld, Free
<1>6. FirstPost'
  BY <1>1, <1>4 DEF ContactInv, FirstPost, Before
<1>7. ContactTyped' /\ AcceptedOnce' /\ LimitsHold'
  BY <1>1, <1>2 DEF ContactInv, ContactTyped, AcceptedOnce, LimitsHold, OfSender, InWindow
<1>. QED
  BY <1>5, <1>6, <1>7 DEF ContactInv

LEMMA LockingKeeps ==
  ASSUME ContactInv, NEW r \in Posts, LockToken(r) \/ LockSender(r) \/ LockIp(r)
  PROVE  ContactInv'
<1>1. post[r] \in Forms
  BY NoPostPhase DEF ContactInv, ContactTyped, LockToken, LockSender, LockIp
<1>2. \A phase \in {"sender?", "ip?", "ip"} :
        LET p == [post[r] EXCEPT !.phase = phase]
        IN  p \in Forms /\ p.phase = phase /\ p.token = post[r].token /\ p.sender = post[r].sender /\ p.ip = post[r].ip
  BY <1>1 DEF Forms
<1>3. CASE LockToken(r)
  <2>1. Keys([post[r] EXCEPT !.phase = "sender?"]) = Keys(post[r]) \cup {<<"token", post[r].token>>}
    BY <1>1, <1>2, <1>3, KeysOf DEF LockToken
  <2>. QED
    BY <1>1, <1>3, <2>1, PostLocks DEF LockToken
<1>4. CASE LockSender(r)
  <2>1. Keys([post[r] EXCEPT !.phase = "ip?"]) = Keys(post[r]) \cup {<<"sender", post[r].sender>>}
    <3>. DEFINE p == [post[r] EXCEPT !.phase = "ip?"]
    <3>1. p \in Forms /\ p.phase = "ip?" /\ p.token = post[r].token /\ p.sender = post[r].sender
      BY <1>2
    <3>. HIDE DEF p
    <3>2. Keys(p) = {<<"token", post[r].token>>, <<"sender", post[r].sender>>}
      BY <3>1, KeysOf
    <3>3. Keys(post[r]) = {<<"token", post[r].token>>}
      BY <1>1, <1>4, KeysOf DEF LockSender
    <3>4. Keys(p) = Keys(post[r]) \cup {<<"sender", post[r].sender>>}
      BY <3>2, <3>3
    <3>. QED
      BY <3>4 DEF p
  <2>. QED
    BY <1>1, <1>4, <2>1, PostLocks DEF LockSender, ContactInv, FirstPost
<1>5. CASE LockIp(r)
  <2>1. Keys([post[r] EXCEPT !.phase = "ip"]) = Keys(post[r]) \cup {<<"ip", post[r].ip>>}
    <3>. DEFINE p == [post[r] EXCEPT !.phase = "ip"]
    <3>1. /\ p \in Forms /\ p.phase = "ip" /\ p.token = post[r].token /\ p.sender = post[r].sender
          /\ p.ip = post[r].ip
      BY <1>2
    <3>. HIDE DEF p
    <3>2. Keys(p) = {<<"token", post[r].token>>, <<"sender", post[r].sender>>, <<"ip", post[r].ip>>}
      BY <3>1, KeysOf
    <3>3. Keys(post[r]) = {<<"token", post[r].token>>, <<"sender", post[r].sender>>}
      BY <1>1, <1>5, KeysOf DEF LockIp
    <3>4. Keys(p) = Keys(post[r]) \cup {<<"ip", post[r].ip>>}
      BY <3>2, <3>3
    <3>. QED
      BY <3>4 DEF p
  <2>. QED
    BY <1>1, <1>5, <2>1, PostLocks DEF LockIp, ContactInv, FirstPost
<1>. QED
  BY <1>3, <1>4, <1>5

LEMMA SubsetSize ==
  ASSUME NEW S, IsFiniteSet(S), NEW T \in SUBSET S
  PROVE  IsFiniteSet(T) /\ Cardinality(T) \in Nat /\ Cardinality(S) \in Nat /\ Cardinality(T) <= Cardinality(S)
  BY FS_Subset, FS_CardinalityType

LEMMA OneMore ==
  ASSUME NEW S, IsFiniteSet(S), NEW x, NEW limit \in Nat, Cardinality(S) < limit
  PROVE  IsFiniteSet(S \cup {x}) /\ Cardinality(S \cup {x}) <= limit
<1>1. Cardinality(S) \in Nat
  BY FS_CardinalityType
<1>2. IsFiniteSet(S \cup {x}) /\ Cardinality(S \cup {x}) \in {Cardinality(S), Cardinality(S) + 1}
  BY FS_AddElement
<1>. QED
  BY <1>1, <1>2

(* The one post that has the locks of its form, sender and client adds a     *)
(* mail within their limits.                                                 *)
LEMMA AcceptKeeps ==
  ASSUME ContactInv, NEW r \in Posts, Accept(r)
  PROVE  ContactInv'
<1>. DEFINE p == post[r]
            m == [token |-> post[r].token, sender |-> post[r].sender, ip |-> post[r].ip, age |-> 0, by |-> r]
<1>1. p \in Forms /\ p.phase = "ip"
  BY NoPostPhase DEF ContactInv, ContactTyped, Accept
<1>2. /\ m \in TakenIn /\ m.token = p.token /\ m.sender = p.sender /\ m.ip = p.ip /\ m.age = 0
  BY <1>1 DEF TakenIn, Forms
<1>3. mails' = mails \cup {m} /\ old' = old /\ ~Before(p.token) /\ WithinLimits(p)
  BY <1>1 DEF Accept, ContactInv, FirstPost
<1>4. \A s \in Posts : post'[s] = IF s = r THEN NoPost ELSE post[s]
  BY DEF Accept, Ends, ContactInv, ContactTyped
<1>5. <<"token", p.token>> \in Keys(p)
  BY <1>1, KeysOf
<1>6. \A s \in Posts : post[s].phase \in {"sender?", "ip?", "ip"} => <<"token", post[s].token>> \in Keys(post[s])
  BY KeysOf, NoPostPhase DEF ContactInv, ContactTyped
<1>. HIDE DEF p, m
<1>7. ContactTyped'
  <2>1. IsFiniteSet(mails')
    BY <1>3, FS_AddElement DEF ContactInv, ContactTyped
  <2>. QED
    BY <1>2, <1>3, <2>1 DEF Accept, Ends, ContactInv, ContactTyped
<1>8. LocksHeld'
  BY <1>4, KeysOf DEF ContactInv, LocksHeld
<1>9. FirstPost'
  <2>. SUFFICES ASSUME NEW s \in Posts, post'[s].phase \in {"sender?", "ip?", "ip"}
                PROVE  ~Before(post[s].token)'
    BY DEF FirstPost
  <2>1. s # r /\ post'[s] = post[s]
    BY <1>4, NoPostPhase
  <2>2. ~Before(post[s].token)
    BY <2>1 DEF ContactInv, FirstPost
  <2>3. post[s].token # p.token
    BY <1>5, <1>6, <2>1 DEF ContactInv, LocksHeld, p
  <2>. QED
    BY <1>2, <1>3, <2>1, <2>2, <2>3 DEF Before
<1>10. AcceptedOnce'
  <2>1. \A n \in mails : n.token # m.token /\ (n.sender = m.sender => n.age # m.age)
    BY <1>2, <1>3 DEF Before, WithinLimits, OfSender, ContactInv, ContactTyped, TakenIn
  <2>. QED
    BY <1>3, <2>1 DEF ContactInv, AcceptedOnce
<1>11. ASSUME NEW s \in Senders PROVE Cardinality(OfSender(s)') <= HourLimit
  <2>1. IsFiniteSet(OfSender(s))
    BY SubsetSize DEF OfSender, ContactInv, ContactTyped
  <2>2. CASE s = m.sender
    <3>1. OfSender(s)' = OfSender(s) \cup {m}
      BY <1>3, <2>2 DEF OfSender
    <3>. QED
      BY <1>2, <1>3, <2>1, <2>2, <3>1, OneMore, ContactAssumption DEF WithinLimits
  <2>3. CASE s # m.sender
    <3>1. OfSender(s)' = OfSender(s)
      BY <1>3, <2>3 DEF OfSender
    <3>. QED
      BY <3>1 DEF ContactInv, LimitsHold
  <2>. QED
    BY <2>2, <2>3
<1>12. ASSUME NEW i \in Ips PROVE Cardinality(InWindow(i)') <= IpLimit
  <2>1. IsFiniteSet(InWindow(i))
    BY SubsetSize DEF InWindow, ContactInv, ContactTyped
  <2>2. CASE i = m.ip
    <3>1. InWindow(i)' \in {InWindow(i), InWindow(i) \cup {m}}
      BY <1>3, <2>2 DEF InWindow
    <3>. QED
      BY <1>2, <1>3, <2>1, <2>2, <3>1, OneMore, ContactAssumption DEF WithinLimits, ContactInv, LimitsHold
  <2>3. CASE i # m.ip
    <3>1. InWindow(i)' = InWindow(i)
      BY <1>3, <2>3 DEF InWindow
    <3>. QED
      BY <3>1 DEF ContactInv, LimitsHold
  <2>. QED
    BY <2>2, <2>3
<1>. QED
  BY <1>7, <1>8, <1>9, <1>10, <1>11, <1>12 DEF ContactInv, LimitsHold

(* A minute passes: mails get older together.                                *)
Older(m) == [m EXCEPT !.age = @ + 1]

LEMMA OlderMail ==
  ASSUME NEW m \in TakenIn
  PROVE  /\ Older(m) \in TakenIn /\ Older(m).token = m.token /\ Older(m).sender = m.sender /\ Older(m).ip = m.ip
         /\ Older(m).age = m.age + 1 /\ m.age \in Nat
<1>. DEFINE n == m.age + 1
<1>1. n \in Nat /\ m.age \in Nat
  BY DEF TakenIn
<1>2. Older(m) = [m EXCEPT !.age = n]
  BY DEF Older
<1>. HIDE DEF n
<1>3. /\ Older(m) \in TakenIn /\ Older(m).token = m.token /\ Older(m).sender = m.sender /\ Older(m).ip = m.ip
      /\ Older(m).age = n
  BY <1>1, <1>2 DEF TakenIn
<1>. QED
  BY <1>1, <1>3 DEF n

LEMMA OlderMails ==
  ASSUME NEW S, IsFiniteSet(S), NEW T, \A x \in T : \E m \in S : x = Older(m)
  PROVE  IsFiniteSet(T) /\ Cardinality(T) <= Cardinality(S)
<1>. DEFINE U == {Older(m) : m \in S}
            f == [m \in S |-> Older(m)]
<1>1. f \in Surjection(S, U)
  BY DEF Surjection
<1>2. IsFiniteSet(U) /\ Cardinality(U) <= Cardinality(S)
  BY <1>1, FS_Surjection
<1>3. T \in SUBSET U
  OBVIOUS
<1>. HIDE DEF U
<1>. QED
  BY <1>2, <1>3, SubsetSize, FS_CardinalityType

LEMMA MinuteKeeps ==
  ASSUME ContactInv, Minute
  PROVE  ContactInv'
<1>1. \A x \in mails' : \E m \in mails : x = Older(m)
  BY DEF Minute, Older
<1>2. \A m \in mails : /\ Older(m) \in TakenIn /\ Older(m).token = m.token /\ Older(m).sender = m.sender
                       /\ Older(m).ip = m.ip /\ Older(m).age = m.age + 1 /\ m.age \in Nat
  BY OlderMail DEF ContactInv, ContactTyped
<1>3. UNCHANGED post /\ \A t \in old' : t \in old \/ \E m \in mails : m.token = t
  BY DEF Minute
<1>4. ContactTyped'
  <2>1. IsFiniteSet(mails')
    BY <1>1, OlderMails DEF ContactInv, ContactTyped
  <2>. QED
    BY <1>1, <1>2, <1>3, <2>1 DEF ContactInv, ContactTyped
<1>5. LocksHeld'
  BY <1>3 DEF ContactInv, LocksHeld
<1>6. FirstPost'
  <2>1. \A t : Before(t)' => Before(t)
    BY <1>1, <1>2, <1>3 DEF Before
  <2>. QED
    BY <1>3, <2>1 DEF ContactInv, FirstPost
<1>7. AcceptedOnce'
  BY <1>1, <1>2 DEF ContactInv, AcceptedOnce
<1>8. ASSUME NEW s \in Senders PROVE Cardinality(OfSender(s)') <= HourLimit
  <2>1. \A x \in OfSender(s)' : \E m \in OfSender(s) : x = Older(m)
    BY <1>1, <1>2 DEF OfSender
  <2>2. IsFiniteSet(OfSender(s))
    BY SubsetSize DEF OfSender, ContactInv, ContactTyped
  <2>3. IsFiniteSet(OfSender(s)') /\ Cardinality(OfSender(s)') <= Cardinality(OfSender(s))
    BY <2>1, <2>2, OlderMails
  <2>. QED
    BY <2>2, <2>3, FS_CardinalityType, ContactAssumption DEF ContactInv, LimitsHold
<1>9. ASSUME NEW i \in Ips PROVE Cardinality(InWindow(i)') <= IpLimit
  <2>1. \A x \in InWindow(i)' : \E m \in InWindow(i) : x = Older(m)
    BY <1>1, <1>2, ContactAssumption DEF InWindow
  <2>2. IsFiniteSet(InWindow(i))
    BY SubsetSize DEF InWindow, ContactInv, ContactTyped
  <2>3. IsFiniteSet(InWindow(i)') /\ Cardinality(InWindow(i)') <= Cardinality(InWindow(i))
    BY <2>1, <2>2, OlderMails
  <2>. QED
    BY <2>2, <2>3, FS_CardinalityType, ContactAssumption DEF ContactInv, LimitsHold
<1>. QED
  BY <1>4, <1>5, <1>6, <1>7, <1>8, <1>9 DEF ContactInv, LimitsHold

LEMMA ContactKeeps ==
  ASSUME ContactInv, ContactNext
  PROVE  ContactInv'
<1>1. ASSUME NEW r \in Posts, NEW t \in Tokens, NEW s \in Senders, NEW i \in Ips, Submit(r, t, s, i)
      PROVE  ContactInv'
  <2>. DEFINE p == [phase |-> "token?", token |-> t, sender |-> s, ip |-> i]
  <2>1. p \in Forms /\ p.phase = "token?"
    BY DEF Forms
  <2>2. post' = [post EXCEPT ![r] = p] /\ UNCHANGED <<mails, old>>
    BY <1>1 DEF Submit
  <2>. HIDE DEF p
  <2>. QED
    BY <2>1, <2>2, PostWithout
<1>2. ASSUME NEW r \in Posts, ReturnPrevious(r) \/ Rollback(r)
      PROVE  ContactInv'
  BY <1>2, NoPostPhase, PostWithout DEF ReturnPrevious, Rollback, Ends
<1>3. CASE Switch
  BY <1>3 DEF Switch, ContactInv, ContactTyped, LocksHeld, FirstPost, AcceptedOnce, LimitsHold, OfSender, InWindow, Before
<1>. QED
  BY <1>1, <1>2, <1>3, LockingKeeps, AcceptKeeps, MinuteKeeps DEF ContactNext

(* Who waits for a lock has only such as are taken before it.                *)
LEMMA LocksInOrder ==
  ASSUME ContactTyped
  PROVE  NoCircle
<1>. SUFFICES ASSUME NEW r \in Posts, NEW s \in Posts, NEW a, NEW b,
                     a \in Wanted(post[r]), a \in Keys(post[s]), b \in Wanted(post[s]), b \in Keys(post[r])
              PROVE  FALSE
  BY DEF NoCircle
<1>1. \A p \in Forms :
        /\ p.phase = "token?" => Wanted(p) = {<<"token", p.token>>}
        /\ p.phase = "sender?" => Wanted(p) = {<<"sender", p.sender>>}
        /\ p.phase = "ip?" => Wanted(p) = {<<"ip", p.ip>>}
        /\ p.phase = "ip" => Wanted(p) = {}
  BY DEF Wanted, Forms
<1>2. Wanted(NoPost) = {}
  BY DEF Wanted, NoPost
<1>3. post[r] \in Forms /\ post[s] \in Forms
  BY <1>2 DEF ContactTyped
<1>4. a[1] \in {"token", "sender", "ip"} /\ b[1] \in {"token", "sender", "ip"}
  BY <1>1, <1>3 DEF Forms
<1>5. CASE a[1] = "token"
  BY <1>1, <1>3, <1>5, KeysOf DEF Forms
<1>6. CASE a[1] = "sender"
  BY <1>1, <1>3, <1>6, KeysOf DEF Forms
<1>7. CASE a[1] = "ip"
  BY <1>1, <1>3, <1>7, KeysOf DEF Forms
<1>. QED
  BY <1>4, <1>5, <1>6, <1>7

LEMMA ContactStart ==
  ASSUME ContactInit
  PROVE  ContactInv
<1>1. (\A s \in Senders : OfSender(s) = {}) /\ \A i \in Ips : InWindow(i) = {}
  BY DEF ContactInit, OfSender, InWindow
<1>2. ContactTyped /\ LocksHeld /\ FirstPost /\ AcceptedOnce
  BY KeysOf, NoPostPhase, FS_EmptySet DEF ContactInit, ContactTyped, LocksHeld, FirstPost, AcceptedOnce
<1>3. Cardinality({}) = 0 /\ 0 <= HourLimit /\ 0 <= IpLimit
  BY FS_EmptySet, ContactAssumption
<1>4. /\ \A s \in Senders : Cardinality(OfSender(s)) <= HourLimit
      /\ \A i \in Ips : Cardinality(InWindow(i)) <= IpLimit
  BY <1>1, <1>3
<1>. QED
  BY <1>2, <1>4 DEF ContactInv, LimitsHold

-----------------------------------------------------------------------------
(* Both in the portal, where they meet nothing but the deletion of accounts  *)
(* and bans, which leave pages and mails alone.                              *)

FormsInv == WikiInv /\ ContactInv

LEMMA FormsRest ==
  ASSUME FormsInv, UNCHANGED <<wikiVars, contactVars>>
  PROVE  FormsInv'
<1>1. WikiInv'
  BY FormKeeps DEF FormsInv, WikiInv, WikiTyped, wikiVars
<1>2. ContactInv'
  BY DEF FormsInv, contactVars, ContactInv, ContactTyped, LocksHeld, FirstPost, AcceptedOnce, LimitsHold, OfSender,
     InWindow, Before
<1>. QED
  BY <1>1, <1>2 DEF FormsInv

LEMMA FormsStep ==
  ASSUME FormsInv, NEW us, NEW ms, NEW over, [PortalNext(us, ms, over)]_portalVars
  PROVE  FormsInv'
<1>1. CASE WikiMove
  <2>1. ContactInv'
    BY <1>1 DEF WikiMove, FormsInv, contactVars, ContactInv, ContactTyped, LocksHeld, FirstPost, AcceptedOnce,
       LimitsHold, OfSender, InWindow, Before
  <2>. QED
    BY <1>1, <2>1, WikiKeeps DEF WikiMove, WikiNext, FormsInv
<1>2. CASE ContactMove
  <2>1. WikiInv'
    BY <1>2, FormKeeps DEF ContactMove, FormsInv, WikiInv, WikiTyped, wikiVars
  <2>. QED
    BY <1>2, <2>1, ContactKeeps DEF ContactMove, FormsInv
<1>3. CASE ~WikiMove /\ ~ContactMove
  <2>1. UNCHANGED <<wikiVars, contactVars>>
    BY <1>3 DEF PortalNext, AccountsMove, ClansMove, TeamsMove, PhotosMove, Moderate, DeleteOwn, AnonymizeAccount,
       DeleteAccount, portalVars
  <2>. QED
    BY <2>1, FormsRest
<1>. QED
  BY <1>1, <1>2, <1>3

(* A save in the knowledge base never lands on a version its editor had not  *)
(* seen, pages form trees of at most MaxDepth levels whatever is moved from  *)
(* which form (knowledge/services.py); a contact form is accepted once and   *)
(* within the limits however often and wherever it is posted at the same     *)
(* time, and no two posts wait for each other (contact/services.py).         *)
THEOREM LateFormsAreRefused ==
  ASSUME NEW mails0, NEW rows0, NEW e0, NEW us, NEW ms, NEW over
  PROVE  PortalSpec(mails0, rows0, e0, us, ms, over) => []StaleFormsRefused
<1>1. PortalInit(mails0, rows0, e0) => FormsInv
  BY WikiStart, ContactStart DEF PortalInit, FormsInv
<1>2. FormsInv /\ [PortalNext(us, ms, over)]_portalVars => FormsInv'
  BY FormsStep
<1>3. FormsInv => StaleFormsRefused
  <2>1. ContactInv => NoCircle
    BY LocksInOrder DEF ContactInv
  <2>2. WikiInv => PagesFormTrees
    BY DEF WikiInv, NoLoop, Shallow, PagesFormTrees
  <2>. QED
    BY <2>1, <2>2 DEF FormsInv, WikiInv, ContactInv, StaleFormsRefused
<1>. QED
  BY <1>1, <1>2, <1>3, PTL DEF PortalSpec
=============================================================================
