------------------------------ MODULE Accounts ------------------------------
(* Accounts: registration, verification codes, login, sessions, password     *)
(* links, bans, deletion (users/). Locks on the address and on the user's row *)
(* make a service call one step; what a view reads before it, and what a     *)
(* session or a link remembers, is kept apart from the row.                  *)
EXTENDS Naturals, FiniteSets

CONSTANTS
  Users,      \* ids of accounts
  Mails,      \* addresses
  Browsers,   \* browsers that log in, verify or set a password
  NoOne,      \* no user, no address, no request
  MaxGrants,  \* bound: sessions and links at a time
  MaxEra,     \* bound: bans of one account
  MaxPassword,\* bound: passwords of one account
  MaxFails,   \* failed logins that lock an account (5 in the code)
  MaxTries,   \* wrong codes that use a code up (5 in the code)
  MaxIssued   \* codes of one purpose per hour (5 in the code)

(* What a ban remembers. *)
Bans == [wasActive : BOOLEAN, mails : SUBSET Mails]

ASSUME NoOneAssumption == NoOne \notin Users \cup Mails \cup Bans

VARIABLES
  account,    \* users_user
  code,       \* the newest verification code of each user and purpose
  ban,        \* the user's active ban and its addresses
  loose,      \* addresses banned without an account
  grants,     \* sessions and password links that exist
  pending,    \* the request each browser has under way
  waiting,    \* the user a browser's session waits to verify
  era         \* history: bans of each user so far

accountVars == <<account, code, ban, loose, grants, pending, waiting, era>>

Purposes == {"activate", "change"}

(* A row that does not exist yet. *)
Unregistered ==
  [mail |-> NoOne, password |-> 0, version |-> 0, active |-> FALSE, verified |-> FALSE, banned |-> FALSE,
   deleted |-> FALSE, fails |-> 0, lock |-> "none", proven |-> {}, putBack |-> FALSE]

(* The account of a member of long standing. *)
Member(m) == [Unregistered EXCEPT !.mail = m, !.active = TRUE, !.verified = TRUE, !.proven = {m}]

NoCode == [to |-> NoOne, tries |-> 0, used |-> TRUE, age |-> "old", issued |-> 0]
Idle == [phase |-> "none", user |-> NoOne, row |-> Unregistered, era |-> 0]

AccountsInit(rows) ==
  /\ account = rows
  /\ code = [u \in Users |-> [p \in Purposes |-> NoCode]]
  /\ ban = [u \in Users |-> NoOne]
  /\ loose = {}
  /\ grants = {}
  /\ pending = [b \in Browsers |-> Idle]
  /\ waiting = [b \in Browsers |-> NoOne]
  /\ era = [u \in Users |-> 0]

Registered(u) == account[u].mail # NoOne
Owners(m) == {u \in Users : account[u].mail = m}
Live(u) == Registered(u) /\ ~account[u].deleted

(* is_email_banned: the fingerprints of the active bans. *)
MailBanned(m) == m \in loose \/ \E u \in Users : ban[u] # NoOne /\ m \in ban[u].mails

(* assert_registration_allowed *)
Allowed(m) == ~MailBanned(m) /\ \A u \in Owners(m) : ~account[u].banned

-----------------------------------------------------------------------------
(* Verification codes.                                                      *)

(* generate_for_user: cooldown and hourly limit; the older code is used up,  *)
(* so that each user has at most one open code of a purpose.                 *)
MayIssue(u, p, m) ==
  /\ ~account[u].deleted /\ ~account[u].banned
  /\ Allowed(m)
  /\ code[u][p].age # "new"
  /\ code[u][p].issued < MaxIssued

NewCode(old, m) == [to |-> m, tries |-> 0, used |-> FALSE, age |-> "new", issued |-> old.issued + 1]

(* A minute, a quarter of an hour, an hour since the newest code: what the    *)
(* limits count is forgotten, the row stays. (A change of address may also    *)
(* lapse after seven days; it can then be asked for again like any other.)    *)
CodeAges(u, p) ==
  /\ code[u][p].to # NoOne
  /\ \/ /\ code[u][p].age = "new"
        /\ code' = [code EXCEPT ![u][p].age = "old"]
     \/ /\ code[u][p].age = "old" /\ ~code[u][p].used
        /\ code' = [code EXCEPT ![u][p].age = "expired"]
     \/ /\ code[u][p].age = "expired" \/ (code[u][p].age = "old" /\ code[u][p].used)
        /\ code[u][p].issued # 0
        /\ code' = [code EXCEPT ![u][p].age = "expired", ![u][p].issued = 0]
  /\ UNCHANGED <<account, ban, loose, grants, pending, waiting, era>>

(* clean_email of the two forms that take an address.                        *)
FormTakes(m) == Allowed(m) /\ Owners(m) = {}
ProfileTakes(u, m) == Allowed(m) /\ Owners(m) \ {u} = {}

(* register_user: the form found the address free, the unique index decides. *)
RegisterUser(u, m) ==
  /\ account[u] = Unregistered
  /\ FormTakes(m)
  /\ account' = [account EXCEPT ![u].mail = m]
  /\ code' = [code EXCEPT ![u]["activate"] = NewCode(@, m)]

(* register_view: the session waits for the code.                            *)
Register(b, u, m) ==
  /\ RegisterUser(u, m)
  /\ waiting' = [waiting EXCEPT ![b] = u]
  /\ UNCHANGED <<ban, loose, grants, pending, era>>

(* resend_registration_code *)
Resend(u) ==
  /\ MayIssue(u, "activate", account[u].mail)
  /\ code' = [code EXCEPT ![u]["activate"] = NewCode(@, account[u].mail)]
  /\ UNCHANGED <<account, ban, loose, grants, pending, waiting, era>>

(* resend_verification_code_view: from the session that waits, which may be  *)
(* for an account that is active by now.                                     *)
ResendWaiting(b) ==
  /\ waiting[b] # NoOne /\ Live(waiting[b])
  /\ Resend(waiting[b])

(* request_activation_code_view: by address or name, without a session.      *)
RequestActivation(u) ==
  /\ Live(u) /\ ~account[u].active
  /\ code[u]["activate"].to # NoOne
  /\ Resend(u)

(* UserProfileForm.save keeps the address until the new one is confirmed;    *)
(* request_email_change reads unlocked whether it is taken.                  *)
NewMail(u, m) == account[u].mail # m

RequestChange(u, m) ==
  /\ account[u].active /\ NewMail(u, m) /\ ProfileTakes(u, m)
  /\ MayIssue(u, "change", m)
  /\ code' = [code EXCEPT ![u]["change"] = NewCode(@, m)]
  /\ UNCHANGED <<account, ban, loose, grants, pending, waiting, era>>

(* get_pending_email_change, and resend_email_change_code for it.            *)
PendingMail(u) == IF code[u]["change"].used THEN NoOne ELSE code[u]["change"].to

ResendChange(u) == PendingMail(u) # NoOne /\ RequestChange(u, PendingMail(u))

(* cancel_email_change *)
CancelChange(u) ==
  /\ account[u].active /\ ~code[u]["change"].used
  /\ code' = [code EXCEPT ![u]["change"].used = TRUE]
  /\ UNCHANGED <<account, ban, loose, grants, pending, waiting, era>>

(* What verify_and_consume checks under the locks of address and user.       *)
Consumable(u, p, m) ==
  /\ ~account[u].deleted /\ ~account[u].banned
  /\ Allowed(m)
  /\ ~code[u][p].used /\ code[u][p].age # "expired" /\ code[u][p].tries < MaxTries

(* A wrong code. *)
WrongCode(u, p) ==
  code' = [code EXCEPT ![u][p].tries = @ + 1, ![u][p].used = (code[u][p].tries + 1 >= MaxTries)]

(* The right code: the account is active, or has the address, from now on.   *)
Activated(row) == [row EXCEPT !.active = TRUE, !.verified = TRUE, !.proven = @ \cup {row.mail}]
Moved(row, m) == [row EXCEPT !.mail = m, !.verified = TRUE, !.proven = @ \cup {m}, !.putBack = FALSE]

(* confirm_email_change from the profile of a user who is logged in.         *)
ConfirmChange(u) ==
  LET m == code[u]["change"].to IN
  /\ account[u].active
  /\ Consumable(u, "change", m)
  /\ \/ /\ Owners(m) \ {u} = {}
        /\ account' = [account EXCEPT ![u] = Moved(@, m)]
        /\ code' = [code EXCEPT ![u]["change"].used = TRUE]
     \/ WrongCode(u, "change") /\ UNCHANGED account
  /\ UNCHANGED <<ban, loose, grants, pending, waiting, era>>

-----------------------------------------------------------------------------
(* Sessions, login, passwords.                                              *)

(* History of a grant: the bans when it began, and when what it rests on was  *)
(* saved; they differ only for a session that changed its own password.       *)
Grant(kind, u, row, began, saved) ==
  [kind |-> kind, user |-> u, version |-> row.version, password |-> row.password,
   mail |-> IF kind = "link" THEN row.mail ELSE NoOne, era |-> began, saved |-> saved]

(* A session counts while its hash is the one of the row and the user can    *)
(* authenticate; a password link while what it was made of has not changed.  *)
Usable(g) ==
  LET row == account[g.user] IN
  /\ ~row.deleted /\ ~row.banned
  /\ row.version = g.version /\ row.password = g.password
  /\ IF g.kind = "session" THEN row.active ELSE row.mail = g.mail

(* What a request keeps of the row it read: what it will compare, or all of  *)
(* it when it will save the object.                                          *)
Credentials(row) == [Unregistered EXCEPT !.password = row.password, !.version = row.version]

Request(phase, u) == [phase |-> phase, user |-> u, row |-> Credentials(account[u]), era |-> era[u]]

(* reset_lockout and reset_expired_lockout, both under the lock of the row.  *)
Unlocked(row) == [row EXCEPT !.fails = 0, !.lock = "none"]
Lapsed(row) == IF row.lock = "over" THEN Unlocked(row) ELSE row

(* authenticate: the first reading, and the password compared with it.       *)
LoginCheck(b, u) ==
  /\ pending[b] = Idle
  /\ Live(u) /\ ~account[u].banned /\ account[u].lock # "running"
  /\ pending' = [pending EXCEPT ![b] = [Request("password", u) EXCEPT !.row.version = 0, !.era = 0]]
  /\ account' = [account EXCEPT ![u] = Lapsed(@)]
  /\ UNCHANGED <<code, ban, loose, grants, waiting, era>>

(* A wrong password: register_failed_login. *)
Failed(row) ==
  LET n == Lapsed(row).fails + 1 IN
  [row EXCEPT !.fails = n, !.lock = IF n >= MaxFails THEN "running" ELSE "none"]

LoginWrong(b, u) ==
  /\ pending[b] = Idle
  /\ Live(u) /\ ~account[u].banned /\ account[u].lock # "running"
  /\ account' = [account EXCEPT ![u] = Failed(@)]
  /\ UNCHANGED <<code, ban, loose, grants, pending, waiting, era>>

LockRunsOut(u) ==
  /\ account[u].lock = "running"
  /\ account' = [account EXCEPT ![u].lock = "over"]
  /\ UNCHANGED <<code, ban, loose, grants, pending, waiting, era>>

(* action_unlock_accounts in the administration.                            *)
UnlockAccount(u) ==
  /\ Live(u) /\ ~account[u].banned
  /\ account' = [account EXCEPT ![u] = Unlocked(@)]
  /\ UNCHANGED <<code, ban, loose, grants, pending, waiting, era>>

(* The row is read again before the login counts.                            *)
StillSame(b) ==
  LET row == account[pending[b].user] IN
  /\ ~row.deleted /\ ~row.banned
  /\ row.password = pending[b].row.password

(* CustomAuthenticationForm.clean: who has not confirmed yet is sent to the  *)
(* page for the code.                                                        *)
SentToVerify(b, u) == IF ~account[u].active /\ ~code[u]["activate"].used THEN u ELSE waiting[b]

LoginRefresh(b) ==
  LET u == pending[b].user IN
  /\ pending[b].phase = "password"
  /\ IF StillSame(b) /\ account[u].lock # "running"
     THEN /\ account' = [account EXCEPT ![u] = Unlocked(@)]
          /\ pending' = [pending EXCEPT ![b] = IF account[u].active THEN Request("accepted", u) ELSE Idle]
          /\ waiting' = [waiting EXCEPT ![b] = SentToVerify(b, u)]
     ELSE pending' = [pending EXCEPT ![b] = Idle] /\ UNCHANGED <<account, waiting>>
  /\ UNCHANGED <<code, ban, loose, grants, era>>

(* verify_email_view: the user is read, the code comes with the form.        *)
VerifyRead(b) ==
  LET u == waiting[b] IN
  /\ pending[b] = Idle
  /\ u # NoOne /\ Live(u) /\ ~account[u].banned
  /\ IF account[u].active
     THEN waiting' = [waiting EXCEPT ![b] = NoOne] /\ UNCHANGED pending
     ELSE pending' = [pending EXCEPT ![b] = Request("verify", u)] /\ UNCHANGED waiting
  /\ UNCHANGED <<account, code, ban, loose, grants, era>>

(* verify_registration_code; after success the view logs in with the user    *)
(* object it had read before.                                                *)
VerifyCode(b) ==
  LET u == pending[b].user IN
  /\ pending[b].phase = "verify"
  /\ \/ /\ Consumable(u, "activate", account[u].mail)
        /\ account' = [account EXCEPT ![u] = Activated(@)]
        /\ code' = [code EXCEPT ![u]["activate"].used = TRUE]
        /\ pending' = [pending EXCEPT ![b].phase = "accepted"]
        /\ waiting' = [waiting EXCEPT ![b] = NoOne]
     \/ /\ Consumable(u, "activate", account[u].mail)
        /\ WrongCode(u, "activate")
        /\ pending' = [pending EXCEPT ![b] = Idle]
        /\ UNCHANGED <<account, waiting>>
     \/ /\ ~Consumable(u, "activate", account[u].mail)
        /\ pending' = [pending EXCEPT ![b] = Idle]
        /\ UNCHANGED <<account, code, waiting>>
  /\ UNCHANGED <<ban, loose, grants, era>>

(* login: the session gets the hash of the object at hand; last_login is     *)
(* saved with it, which a deleted row refuses.                               *)
OpenSession(b) ==
  LET u == pending[b].user IN
  /\ pending[b].phase = "accepted"
  /\ Cardinality(grants) < MaxGrants
  /\ grants' = IF account[u].deleted THEN grants
               ELSE grants \cup {Grant("session", u, pending[b].row, pending[b].era, pending[b].era)}
  /\ pending' = [pending EXCEPT ![b] = Idle]
  /\ UNCHANGED <<account, code, ban, loose, waiting, era>>

(* CustomPasswordResetForm.save *)
SendLink(u) ==
  /\ Live(u) /\ account[u].active /\ ~account[u].banned
  /\ Cardinality(grants) < MaxGrants
  /\ grants' = grants \cup {Grant("link", u, account[u], era[u], era[u])}
  /\ UNCHANGED <<account, code, ban, loose, pending, waiting, era>>

(* The pages that set a password: by a link, or in the profile.              *)
OpenPasswordPage(b, g) ==
  /\ pending[b] = Idle /\ account[g.user].password < MaxPassword
  /\ Usable(g)
  /\ pending' = [pending EXCEPT ![b] =
       IF g.kind = "link" THEN [Request("reset", g.user) EXCEPT !.era = g.era]
       ELSE [Request("own", g.user) EXCEPT !.row = account[g.user], !.era = g.era]]
  /\ UNCHANGED <<account, code, ban, loose, grants, waiting, era>>

NewPassword(row) == [Unlocked(row) EXCEPT !.password = @ + 1]

(* form_valid of the link: compared again under the lock, saved fresh.       *)
ResetPassword(b) ==
  LET u == pending[b].user IN
  /\ pending[b].phase = "reset"
  /\ IF StillSame(b) /\ account[u].version = pending[b].row.version
     THEN account' = [account EXCEPT ![u] = NewPassword(@)]
     ELSE UNCHANGED account
  /\ pending' = [pending EXCEPT ![b] = Idle]
  /\ UNCHANGED <<code, ban, loose, grants, waiting, era>>

\* Mutant: the save does not look at the moderation of the row.
SavedWhole(row, held) == [held EXCEPT !.proven = row.proven, !.putBack = row.putBack \/ row.mail # held.mail]

(* User.save writes the whole object the request holds, but takes the fields *)
(* of the moderation from the row, and refuses a deleted one.                *)
SavedOver(row, held) ==
  [held EXCEPT !.banned = row.banned, !.version = row.version, !.verified = row.verified,
               !.active = held.active /\ ~row.banned, !.proven = row.proven,
               !.putBack = row.putBack \/ row.mail # held.mail]

(* PasswordChangeForm.save in the profile; the session the request came from *)
(* is kept, whenever it began, with a hash of the row as it is now.          *)
OwnPassword(b) ==
  LET u == pending[b].user
      held == [pending[b].row EXCEPT !.password = @ + 1]
  IN
  /\ pending[b].phase = "own"
  /\ \/ account[u].deleted /\ UNCHANGED <<account, grants>>
     \/ /\ ~account[u].deleted
        /\ Owners(held.mail) \subseteq {u}
        /\ account' = [account EXCEPT ![u] = SavedOver(@, held)]
        /\ grants' = grants \cup {Grant("session", u, SavedOver(account[u], held), pending[b].era, era[u])}
     \/ ~account[u].deleted /\ ~(Owners(held.mail) \subseteq {u}) /\ UNCHANGED <<account, grants>>
  /\ pending' = [pending EXCEPT ![b] = Idle]
  /\ UNCHANGED <<code, ban, loose, waiting, era>>

-----------------------------------------------------------------------------
(* Bans and deletion.                                                       *)

(* _erase_account_sessions, after the commit; a crash may forget it.         *)
SessionsErased(u) ==
  \/ UNCHANGED <<grants, waiting>>
  \/ /\ grants' = {g \in grants : g.kind = "link" \/ g.user # u}
     /\ waiting' = [b \in Browsers |-> IF waiting[b] = u THEN NoOne ELSE waiting[b]]
     /\ <<grants, waiting>>' # <<grants, waiting>>

(* _disable_user *)
Barred(row) ==
  [row EXCEPT !.banned = TRUE, !.active = FALSE, !.verified = row.verified \/ row.active, !.version = @ + 1]

Disable(u, also) ==
  /\ era[u] < MaxEra
  /\ account' = [account EXCEPT ![u] = Barred(@)]
  /\ ban' = [ban EXCEPT ![u] =
       [wasActive |-> account[u].active,
        mails |-> also \cup IF account[u].verified \/ account[u].active THEN {account[u].mail} ELSE {}]]
  /\ code' = [code EXCEPT ![u] = [p \in Purposes |-> [code[u][p] EXCEPT !.used = TRUE]]]
  /\ SessionsErased(u)
  /\ era' = [era EXCEPT ![u] = @ + 1]

(* ban_user: the address is compared again under the locks. *)
BanUser(u) ==
  /\ Live(u) /\ ~account[u].banned
  /\ Disable(u, {})
  /\ UNCHANGED <<loose, pending>>

(* ban_email: with the account that has the address, if there is one.        *)
BanMail(m) ==
  /\ ~MailBanned(m)
  /\ \/ /\ Owners(m) = {}
        /\ loose' = loose \cup {m}
        /\ UNCHANGED <<account, code, ban, grants, waiting, era>>
     \/ \E u \in Owners(m) : /\ ~account[u].banned
                             /\ Disable(u, {m})
                             /\ UNCHANGED loose
     \/ \E u \in Owners(m) : /\ account[u].banned
                             /\ ban' = [ban EXCEPT ![u].mails = @ \cup {m}]
                             /\ UNCHANGED <<account, code, loose, grants, waiting, era>>
  /\ UNCHANGED pending

(* revoke_ban *)
Pardoned(row, wasActive) ==
  [row EXCEPT !.banned = FALSE, !.active = wasActive /\ row.verified, !.version = @ + 1]

Revoke(u) ==
  /\ ban[u] # NoOne
  /\ account' = [account EXCEPT ![u] = IF account[u].deleted THEN @ ELSE Pardoned(@, ban[u].wasActive)]
  /\ ban' = [ban EXCEPT ![u] = NoOne]
  /\ UNCHANGED <<code, loose, grants, pending, waiting, era>>

RevokeMail(m) ==
  /\ m \in loose
  /\ loose' = loose \ {m}
  /\ UNCHANGED <<account, code, ban, grants, pending, waiting, era>>

(* delete_account: the row stays, without anything personal.                 *)
Erased(row) ==
  [Unregistered EXCEPT !.deleted = TRUE, !.version = row.version, !.banned = row.banned, !.verified = row.verified]

DeleteRow(u) ==
  /\ Live(u)
  /\ account' = [account EXCEPT ![u] = Erased(@)]
  /\ code' = [code EXCEPT ![u] = [p \in Purposes |-> NoCode]]
  /\ SessionsErased(u)
  /\ UNCHANGED <<ban, loose, pending, era>>

-----------------------------------------------------------------------------

(* profile_view, as far as it concerns the address: one of its forms.        *)
ProfileForm(u, ms) ==
  \/ \E m \in ms : RequestChange(u, m)
  \/ ConfirmChange(u) \/ ResendChange(u) \/ CancelChange(u)

(* action_view of the bans: an address, or the ban of one.                   *)
BanForm(m) == BanMail(m) \/ RevokeMail(m)

(* The users in members log in and use their profile, those in applicants    *)
(* register, with the addresses in ms, all of which may be banned; a member  *)
(* may change to one of those in wished.                                     *)
AccountsNext(members, applicants, ms, wished) ==
  \/ \E u \in members : ProfileForm(u, wished) \/ LockRunsOut(u) \/ UnlockAccount(u) \/ SendLink(u)
  \/ \E b \in Browsers, u \in members : LoginCheck(b, u) \/ LoginWrong(b, u)
  \/ \E b \in Browsers, u \in applicants, m \in ms : Register(b, u, m)
  \/ \E u \in applicants : RequestActivation(u)
  \/ \E u \in members \cup applicants, p \in Purposes : CodeAges(u, p)
  \/ \E b \in Browsers : \/ ResendWaiting(b) \/ LoginRefresh(b) \/ VerifyRead(b) \/ VerifyCode(b) \/ OpenSession(b)
                         \/ ResetPassword(b) \/ OwnPassword(b)
                         \/ \E g \in grants : OpenPasswordPage(b, g)
  \/ \E m \in ms : BanForm(m)

(* moderation_view: what organizers do to accounts whatever else happens.    *)
Moderation(us) == \E u \in us : BanUser(u) \/ Revoke(u)

(* All that happens to accounts, the row of delete_account included.         *)
AccountsStep ==
  AccountsNext(Users, Users, Mails, Mails) \/ Moderation(Users) \/ \E u \in Users : DeleteRow(u)

AccountsSpec(rows) == AccountsInit(rows) /\ [][AccountsStep]_accountVars

-----------------------------------------------------------------------------

(* What a ban or a deletion closes stays closed: no session and no link that *)
(* began before a ban opens the account after it, even when it was revoked,  *)
(* except a session that a password change of its own was saved for since;   *)
(* nobody is active with a banned address; an active account has confirmed   *)
(* the address it has; a late save never brings anything back to a deleted   *)
(* row. (The exception is in users/views.py:411-414: a change under way when *)
(* the ban came and was revoked. Nor is an address counted that a late       *)
(* password change put back: see the README.)                                *)
AccountsClosed ==
  /\ \A g \in grants : Usable(g) => era[g.user] \in {g.era, g.saved}
  /\ \A u \in Users :
       /\ account[u].active => account[u].mail \in account[u].proven
       /\ account[u].active /\ MailBanned(account[u].mail) => account[u].putBack
       /\ account[u].deleted => account[u] = Erased(account[u])
       /\ account[u].banned /\ ~account[u].deleted => ban[u] # NoOne
=============================================================================
