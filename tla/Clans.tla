-------------------------------- MODULE Clans --------------------------------
(* Clans: memberships, administrators, requests, succession (clans/), on the *)
(* accounts. The services lock the rows of the users, then the clan's, and   *)
(* check again; only the session a request came with is older.               *)
EXTENDS Accounts, FiniteSets

CONSTANTS
  MaxClans,    \* bound: clans at a time
  MaxRequests  \* bound: requests under way at a time

ClanIds == 1..MaxClans

ASSUME ClansAssumption == IsFiniteSet(Users) /\ MaxClans \in Nat \ {0}

VARIABLES
  memberships, \* clans_clanmembership: the rows of each clan, one for a user at most
  clans,       \* clans that exist
  request,     \* what each user's request under way had read of its user
  paidClans,   \* clans with a collective payment, which must not be dissolved
  late         \* history: clans whose founder was deleted before they existed

clanVars == <<memberships, clans, request, paidClans, late>>

(* The row of a user, with the number of rows that are older.                *)
Row(role, status, place) == [role |-> role, status |-> status, place |-> place]

NoRows == [u \in {} |-> Row("member", "pending", 0)]

(* The first clan has these members, if any.                                 *)
ClansInit(rows) ==
  /\ memberships = [c \in ClanIds |-> IF c = 1 THEN rows ELSE NoRows]
  /\ clans = {c \in {1} : DOMAIN rows # {}}
  /\ paidClans = {} /\ late = {}
  /\ request = [u \in Users |-> "none"]

(* Of the rows of a clan: who is a member; those of these users; one more;   *)
(* and who of these users was there first.                                   *)
HasRow(rows, u) == u \in DOMAIN rows
Accepted(rows) == {u \in DOMAIN rows : rows[u].status = "accepted"}

Only(rows, us) ==
  LET left == DOMAIN rows \cap us IN
  [u \in left |-> [rows[u] EXCEPT !.place = Cardinality({v \in left : rows[v].place < rows[u].place})]]

Without(rows, u) == Only(rows, Users \ {u})
With(rows, u, row) == [v \in DOMAIN rows \cup {u} |-> IF v = u THEN row ELSE rows[v]]
Appended(rows, u, status) == With(rows, u, Row("member", status, Cardinality(DOMAIN rows)))
Changed(rows, u, role, status) == [rows EXCEPT ![u] = Row(role, status, @.place)]
Oldest(rows, us) == CHOOSE u \in us : \A v \in us : rows[u].place <= rows[v].place

(* active_memberships, and those of them that are administrators.            *)
Active(u) == account[u].active /\ ~account[u].deleted
ActiveMembers(rows) == {u \in Accepted(rows) : Active(u)}
Admins(rows, us) == {u \in us : rows[u].role = "admin"}
ActiveAdmins(rows) == Admins(rows, ActiveMembers(rows))

(* get_user_active_membership *)
InClan(u) == \E c \in clans : u \in Accepted(memberships[c])

AdminOf(u, c) == u \in Admins(memberships[c], Accepted(memberships[c]))

-----------------------------------------------------------------------------
(* Requests: login_required and the first reading of the view.               *)

Arrive(u) ==
  /\ request[u] = "none" /\ account[u].active
  /\ Cardinality({v \in Users : request[v] # "none"}) < MaxRequests
  /\ request' = [request EXCEPT ![u] = IF InClan(u) THEN "member" ELSE "free"]
  /\ UNCHANGED <<memberships, clans, paidClans, late>>

Handled(u) == request' = [request EXCEPT ![u] = "none"]

(* A request that is refused by a check below, or goes elsewhere.            *)
Refuse(u) ==
  /\ request[u] # "none"
  /\ Handled(u)
  /\ UNCHANGED <<memberships, clans, paidClans, late>>

(* clan_create_view: locks the own row, looks for a membership, and creates. *)
Found(u, c) ==
  /\ request[u] = "free" /\ c \notin clans
  /\ 1..(c - 1) \subseteq clans
  /\ ~InClan(u)
  /\ clans' = clans \cup {c}
  /\ memberships' = [memberships EXCEPT ![c] = With(NoRows, u, Row("admin", "accepted", 0))]
  /\ late' = IF account[u].deleted THEN late \cup {c} ELSE late
  /\ Handled(u)
  /\ UNCHANGED paidClans

(* locked_management: the actor's row, read again under the lock.            *)
MayAct(u) == request[u] # "none" /\ account[u].active /\ ~account[u].deleted
MayManage(u, c) == MayAct(u) /\ c \in clans /\ AdminOf(u, c)

(* A handler that ends with these rows in a clan that stays.                 *)
WriteRows(u, c, rows) ==
  /\ memberships' = [memberships EXCEPT ![c] = rows]
  /\ Handled(u)
  /\ UNCHANGED <<clans, paidClans, late>>

(* clan_join_password_view, with the right password.                         *)
Join(u, c) ==
  /\ request[u] = "free" /\ MayAct(u) /\ c \in clans
  /\ ~InClan(u)
  /\ WriteRows(u, c, Appended(Without(memberships[c], u), u, "accepted"))

(* clan_request_join_view: get_or_create after an unlocked reading.          *)
RequestJoin(u, c) ==
  /\ request[u] = "free" /\ c \in clans
  /\ ~HasRow(memberships[c], u)
  /\ WriteRows(u, c, Appended(memberships[c], u, "pending"))

\* Mutant: administrators that cannot log in count as well.
ProtectedByAnyAdmin(rows, v) ==
  rows[v].role = "admin" /\ Active(v) /\ Admins(rows, Accepted(rows)) \subseteq {v}

(* _protect_last_admin *)
Protected(rows, v) == rows[v].role = "admin" /\ Active(v) /\ ActiveAdmins(rows) \subseteq {v}

(* manage_request: reject, or accept unless the applicant is in a clan by now. *)
RejectRequest(u, c, v) == WriteRows(u, c, Without(memberships[c], v))

AcceptRequest(u, c, v) ==
  /\ Active(v)
  /\ IF InClan(v) THEN RejectRequest(u, c, v)
     ELSE WriteRows(u, c, Changed(memberships[c], v, "member", "accepted"))

(* clan_manage_request_view *)
Decide(u, c, v) ==
  /\ MayManage(u, c) /\ memberships[c][v].status = "pending"
  /\ RejectRequest(u, c, v) \/ AcceptRequest(u, c, v)

(* manage_member *)
Kick(u, c, v) ==
  /\ MayManage(u, c) /\ v \in Accepted(memberships[c])
  /\ v # u /\ ~Protected(memberships[c], v)
  /\ WriteRows(u, c, Without(memberships[c], v))

Promote(u, c, v) ==
  /\ MayManage(u, c) /\ v \in Accepted(memberships[c])
  /\ ~AdminOf(v, c) /\ Active(v)
  /\ WriteRows(u, c, Changed(memberships[c], v, "admin", "accepted"))

Demote(u, c, v) ==
  /\ MayManage(u, c) /\ AdminOf(v, c)
  /\ ~Protected(memberships[c], v)
  /\ WriteRows(u, c, Changed(memberships[c], v, "member", "accepted"))

(* clan_manage_member_view *)
ManageMember(u, c, v) == Kick(u, c, v) \/ Promote(u, c, v) \/ Demote(u, c, v)

(* leave_clan: the last member takes the clan along; a last administrator    *)
(* hands over to the oldest active member, and stays if there is none.       *)
Leaderless(rows, wasAdmin) == wasAdmin /\ ActiveAdmins(rows) = {}

Promoted(rows, us) == Changed(rows, Oldest(rows, us), "admin", "accepted")

HandedOver(rows, wasAdmin) ==
  IF Leaderless(rows, wasAdmin) THEN Promoted(rows, ActiveMembers(rows)) ELSE rows

Leave(u, c, rest) ==
  /\ MayAct(u) /\ c \in clans
  /\ u \in Accepted(memberships[c])
  /\ \/ /\ Accepted(rest) = {} /\ c \notin paidClans
        /\ clans' = clans \ {c} /\ late' = late \ {c}
        /\ memberships' = [memberships EXCEPT ![c] = NoRows]
        /\ Handled(u)
        /\ UNCHANGED paidClans
     \/ /\ Accepted(rest) # {}
        /\ Leaderless(rest, AdminOf(u, c)) => ActiveMembers(rest) # {}
        /\ WriteRows(u, c, HandedOver(rest, AdminOf(u, c)))

(* clan_leave_view *)
LeaveClan(u, c) == Leave(u, c, Without(memberships[c], u))

(* A collective payment is created, or removed again (seating/).             *)
PayTogether(c) ==
  /\ c \in clans
  /\ paidClans' = IF c \in paidClans THEN paidClans \ {c} ELSE paidClans \cup {c}
  /\ UNCHANGED <<memberships, clans, request, late>>

-----------------------------------------------------------------------------
(* _leave_clans of an account that is deleted.                               *)

(* The remaining members that are not deleted; the candidates are the active *)
(* ones, or all if none is active.                                           *)
Remaining(rows) == {u \in Accepted(rows) : ~account[u].deleted}
Candidates(rows) == IF ActiveMembers(rows) # {} THEN ActiveMembers(rows) ELSE Remaining(rows)

Inherited(rows) ==
  IF Remaining(rows) = {} THEN NoRows
  ELSE IF Admins(rows, Candidates(rows)) # {} THEN rows
  ELSE Promoted(rows, Candidates(rows))

ClansOf(u) == {c \in clans : HasRow(memberships[c], u)}

(* The clan's payment needs an active member left.                           *)
MayLeaveClans(u) == \A c \in ClansOf(u) \cap paidClans : ActiveMembers(Without(memberships[c], u)) # {}

LeaveClans(u) ==
  LET gone == {c \in ClansOf(u) : Remaining(Without(memberships[c], u)) = {}} IN
  /\ clans' = clans \ gone
  /\ late' = late \ gone
  /\ memberships' = [c \in ClanIds |-> IF c \in ClansOf(u) THEN Inherited(Without(memberships[c], u))
                                        ELSE memberships[c]]
  /\ UNCHANGED <<request, paidClans>>

-----------------------------------------------------------------------------

ClansNext(us) ==
  \/ \E u \in us : Arrive(u) \/ Refuse(u)
  \/ \E u \in us, c \in ClanIds : Found(u, c) \/ Join(u, c) \/ RequestJoin(u, c) \/ LeaveClan(u, c)
  \/ \E u \in us, c \in clans : \E v \in DOMAIN memberships[c] :
       Decide(u, c, v) \/ ManageMember(u, c, v)
  \/ PayTogether(1)

-----------------------------------------------------------------------------

(* Nobody is in two clans; every clan has an administrator whose account     *)
(* exists, unless it was founded after its founder's account was deleted;    *)
(* and no operation but a ban takes the last active administrator from a     *)
(* clan in which an active member remains.                                   *)
OneClanEach ==
  \A u \in Users : Cardinality({c \in clans : u \in Accepted(memberships[c])}) <= 1

Administered ==
  \A c \in clans \ late : \E u \in Users : AdminOf(u, c) /\ ~account[u].deleted

AdminsKept ==
  \A c \in clans \cap clans' :
    \/ ActiveAdmins(memberships[c]) = {}
    \/ ActiveAdmins(memberships[c])' # {}
    \/ ActiveMembers(memberships[c])' = {}
    \/ \E u \in Users : account[u].active /\ account'[u].banned

ClansAdministered == [](OneClanEach /\ Administered) /\ [][AdminsKept]_<<account, clanVars>>
=============================================================================
