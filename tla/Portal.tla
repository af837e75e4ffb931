------------------------------- MODULE Portal -------------------------------
(* The people of the portal: accounts, and the parts that hang on their rows *)
(* (clans, teams, guest photos, knowledge base), and the contact form, which *)
(* needs no account. These parts meet only in the rows of the users: a deletion is *)
(* one transaction over all of them, a ban is seen by each. So a behaviour   *)
(* moves one part, chosen at the start, with the accounts while the others   *)
(* rest, and the states of the parts need not be multiplied.                 *)
EXTENDS Teams, GuestPhotos, Knowledge, Contact

CONSTANTS
  Acting,      \* members that log in and use their profile, when accounts are in focus
  Registering, \* users that are not registered yet, when accounts are in focus
  Soloists,    \* users that act when teams of one player are in focus
  Barrable,    \* users that organizers may ban
  Wished       \* addresses a member may change to

ASSUME PortalAssumption ==
  Acting \cup Registering \cup Soloists \cup Barrable \subseteq Users /\ Wished \subseteq Mails

VARIABLE focus \* the part that moves

portalVars == <<accountVars, clanVars, teamVars, photoVars, wikiVars, contactVars, focus>>

Parts == {"accounts", "clans", "teams", "solo", "photos", "space", "pages", "contact"}

(* Teams are in focus for games of several players, or for games of one.     *)
OfTeams == focus \in {"teams", "solo"}
InFocus == {g \in DOMAIN Size : Size[g] = 1 <=> focus = "solo"}

(* mails0: the address of each user who is a member; rows0: a clan that      *)
(* exists when teams are in focus; e0: the active event.                     *)
PortalInit(mails0, rows0, e0) ==
  /\ focus \in Parts
  /\ AccountsInit([u \in Users |-> IF focus = "accounts" /\ u \in Registering THEN Unregistered
                                   ELSE Member(mails0[u])])
  /\ ClansInit(IF OfTeams THEN rows0 ELSE NoRows)
  /\ TeamsInit(e0, {c \in Cups : OfTeams /\ GameOf(c) \in InFocus})
  /\ PhotosInit /\ WikiInit /\ ContactInit

(* The requests of the part in focus. *)
AccountsMove(ms) ==
  /\ focus = "accounts"
  /\ AccountsNext(Acting, Registering, ms, Wished)
  /\ UNCHANGED <<clanVars, teamVars, photoVars, wikiVars, contactVars, focus>>

ClansMove ==
  /\ focus = "clans"
  /\ ClansNext(Users)
  /\ UNCHANGED <<accountVars, teamVars, photoVars, wikiVars, contactVars, focus>>

(* The events in over may end.                                               *)
TeamsMove(over) ==
  /\ OfTeams
  /\ TeamsNext(IF focus = "solo" THEN Soloists ELSE Users, InFocus, over)
  /\ UNCHANGED <<accountVars, clanVars, photoVars, wikiVars, contactVars, focus>>

PhotosMove(us) ==
  /\ focus = "photos"
  /\ PhotosNext(us)
  /\ UNCHANGED <<accountVars, clanVars, teamVars, wikiVars, contactVars, focus>>

(* A form is for the space or for a page, and neither save looks at what the *)
(* other writes.                                                             *)
WikiMove ==
  /\ \/ focus = "space" /\ EditSpace
     \/ focus = "pages" /\ EditPages
  /\ UNCHANGED <<accountVars, clanVars, teamVars, photoVars, contactVars, focus>>

ContactMove ==
  /\ focus = "contact"
  /\ ContactNext
  /\ UNCHANGED <<accountVars, clanVars, teamVars, photoVars, wikiVars, focus>>

(* ban_user and revoke_ban touch nothing but the account.                    *)
Moderate(us) ==
  /\ focus \in {"accounts", "clans", "solo"}
  /\ Moderation(us)
  /\ UNCHANGED <<clanVars, teamVars, photoVars, wikiVars, contactVars, focus>>

(* delete_account: clans, teams, photo and row in one transaction; what a    *)
(* member of staff wrote in the knowledge base stays, without its author.    *)
DeleteAccount(u) ==
  /\ focus \in {"accounts", "clans", "teams", "solo", "photos"}
  /\ MayLeaveClans(u) /\ MayLeaveTeams(u)
  /\ DeleteRow(u) /\ LeaveClans(u) /\ LeaveTeams(u) /\ AccountGone(u)
  /\ UNCHANGED <<wikiVars, contactVars, focus>>

(* account_delete_view: with the password, which a lockout refuses to check. *)
DeleteOwn(u) == account[u].lock # "running" /\ DeleteAccount(u)

(* action_anonymize_accounts in the administration, without one.             *)
AnonymizeAccount(u) == ~account[u].banned /\ DeleteAccount(u)

PortalNext(us, ms, over) ==
  \/ AccountsMove(ms) \/ ClansMove \/ TeamsMove(over) \/ PhotosMove(us) \/ WikiMove \/ ContactMove
  \/ Moderate(Barrable)
  \/ \E u \in us : DeleteOwn(u) \/ AnonymizeAccount(u)

PortalSpec(mails0, rows0, e0, us, ms, over) ==
  PortalInit(mails0, rows0, e0) /\ [][PortalNext(us, ms, over)]_portalVars

-----------------------------------------------------------------------------

(* A form that is posted late or twice changes nothing it should not: a save *)
(* in the knowledge base never lands on a version its editor had not seen    *)
(* and never bends the tree of pages (knowledge/services.py), and a contact  *)
(* form is accepted once, within the limits, with no post waiting for        *)
(* another in a circle (contact/services.py).                                *)
StaleFormsRefused ==
  NothingOverwritten /\ PagesFormTrees /\ AcceptedOnce /\ LimitsHold /\ NoCircle
=============================================================================
