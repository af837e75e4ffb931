-------------------------- MODULE MembershipProofs ---------------------------
(* Proofs about the clans and the teams of the portal, for all numbers of    *)
(* users, clans, teams, games and tournaments.                               *)
EXTENDS PortalProofs, WellFoundedInduction

USE ClansAssumption DEF ClansAssumption

(* Every set of numbers has a least one. *)
LEMMA LeastNumber ==
  ASSUME NEW T \in SUBSET Nat, T # {}
  PROVE  \E n \in T : \A m \in T : n <= m
<1>. DEFINE R == {s \in Nat \X Nat : s[1] < s[2]}
<1>1. IsWellFoundedOn(R, Nat)
  BY NatLessThanWellFounded DEF OpToRel
<1>2. \E n \in T : \A m \in T : <<m, n>> \notin R
  <2>. HIDE DEF R
  <2>. QED
    BY <1>1, WFMin
<1>3. \A m, n \in Nat : <<m, n>> \notin R => n <= m
  OBVIOUS
<1>. QED
  BY <1>2, <1>3

-----------------------------------------------------------------------------
(* Rows, of clans and of teams.                                              *)

RoleNames == {"admin", "member"}
StatusNames == {"pending", "accepted"}
Entered == [role : RoleNames, status : StatusNames, place : Nat]
Books == UNION {[us -> Entered] : us \in SUBSET Users}

LEMMA NamesOfRows == {"admin", "member"} \subseteq RoleNames /\ {"pending", "accepted"} \subseteq StatusNames
  BY DEF RoleNames, StatusNames

LEMMA BookOf ==
  ASSUME NEW rows \in Books
  PROVE  /\ DOMAIN rows \subseteq Users /\ IsFiniteSet(DOMAIN rows)
         /\ rows \in [DOMAIN rows -> Entered]
         /\ Accepted(rows) \subseteq DOMAIN rows
<1>1. PICK us \in SUBSET Users : rows \in [us -> Entered]
  BY DEF Books
<1>2. IsFiniteSet(us)
  BY FS_Subset
<1>. QED
  BY <1>1, <1>2 DEF Accepted

LEMMA NoRowsBook == NoRows \in Books /\ Accepted(NoRows) = {}
<1>1. NoRows \in [{} -> Entered]
  BY DEF NoRows
<1>. QED
  BY <1>1 DEF Books, Accepted, NoRows

(* The rows of some users say what they said.                                *)
LEMMA OnlyThose ==
  ASSUME NEW rows \in Books, NEW us
  PROVE  /\ Only(rows, us) \in Books
         /\ DOMAIN Only(rows, us) = DOMAIN rows \cap us
         /\ \A u \in DOMAIN rows \cap us :
              Only(rows, us)[u].role = rows[u].role /\ Only(rows, us)[u].status = rows[u].status
         /\ Accepted(Only(rows, us)) = Accepted(rows) \cap us
<1>. DEFINE left == DOMAIN rows \cap us
            older(u) == Cardinality({v \in left : rows[v].place < rows[u].place})
<1>1. DOMAIN rows \subseteq Users /\ IsFiniteSet(DOMAIN rows) /\ rows \in [DOMAIN rows -> Entered]
  BY BookOf
<1>2. \A u \in left : older(u) \in Nat
  <2>. SUFFICES ASSUME NEW u \in left PROVE older(u) \in Nat
    OBVIOUS
  <2>1. {v \in left : rows[v].place < rows[u].place} \in SUBSET DOMAIN rows
    OBVIOUS
  <2>2. IsFiniteSet({v \in left : rows[v].place < rows[u].place})
    BY <1>1, <2>1, FS_Subset
  <2>. QED
    BY <2>2, FS_CardinalityType
<1>3. Only(rows, us) = [u \in left |-> [rows[u] EXCEPT !.place = older(u)]]
  BY DEF Only
<1>. HIDE DEF older
<1>4. Only(rows, us) \in [left -> Entered]
  BY <1>1, <1>2, <1>3 DEF Entered
<1>5. \A u \in left : Only(rows, us)[u].role = rows[u].role /\ Only(rows, us)[u].status = rows[u].status
  BY <1>1, <1>3 DEF Entered
<1>6. left \in SUBSET Users
  BY <1>1
<1>7. Only(rows, us) \in Books
  BY <1>4, <1>6 DEF Books
<1>8. DOMAIN Only(rows, us) = left
  BY <1>3
<1>. QED
  BY <1>5, <1>7, <1>8 DEF Accepted

LEMMA WithoutOne ==
  ASSUME NEW rows \in Books, NEW u
  PROVE  /\ Without(rows, u) \in Books
         /\ DOMAIN Without(rows, u) = DOMAIN rows \ {u}
         /\ \A v \in DOMAIN rows \ {u} :
              Without(rows, u)[v].role = rows[v].role /\ Without(rows, u)[v].status = rows[v].status
         /\ Accepted(Without(rows, u)) = Accepted(rows) \ {u}
<1>1. DOMAIN rows \cap (Users \ {u}) = DOMAIN rows \ {u}
  BY BookOf
<1>2. Accepted(rows) \cap (Users \ {u}) = Accepted(rows) \ {u}
  BY BookOf
<1>. DEFINE others == Users \ {u}
            new == Only(rows, others)
<1>3. /\ new \in Books /\ DOMAIN new = DOMAIN rows \cap others
      /\ \A v \in DOMAIN rows \cap others : new[v].role = rows[v].role /\ new[v].status = rows[v].status
      /\ Accepted(new) = Accepted(rows) \cap others
  <2>. HIDE DEF others
  <2>. QED
    BY OnlyThose
<1>4. Without(rows, u) = new
  BY DEF Without
<1>. HIDE DEF new
<1>. QED
  BY <1>1, <1>2, <1>3, <1>4

LEMMA AppendedOne ==
  ASSUME NEW rows \in Books, NEW u \in Users \ DOMAIN rows, NEW status \in StatusNames
  PROVE  /\ Appended(rows, u, status) \in Books
         /\ \A v \in DOMAIN rows : Appended(rows, u, status)[v] = rows[v]
         /\ Accepted(Appended(rows, u, status)) =
              Accepted(rows) \cup (IF status = "accepted" THEN {u} ELSE {})
<1>. DEFINE row == Row("member", status, Cardinality(DOMAIN rows))
<1>1. DOMAIN rows \subseteq Users /\ rows \in [DOMAIN rows -> Entered] /\ Cardinality(DOMAIN rows) \in Nat
  BY BookOf, FS_CardinalityType
<1>2. row \in Entered /\ row.status = status
  BY <1>1 DEF Row, Entered, RoleNames
<1>3. Appended(rows, u, status) = [v \in DOMAIN rows \cup {u} |-> IF v = u THEN row ELSE rows[v]]
  BY DEF Appended, With
<1>. HIDE DEF row
<1>4. Appended(rows, u, status) \in [DOMAIN rows \cup {u} -> Entered] /\ DOMAIN rows \cup {u} \in SUBSET Users
  BY <1>1, <1>2, <1>3
<1>5. \A v \in DOMAIN rows : Appended(rows, u, status)[v] = rows[v]
  BY <1>3
<1>6. Appended(rows, u, status)[u].status = status
  BY <1>2, <1>3
<1>7. DOMAIN Appended(rows, u, status) = DOMAIN rows \cup {u}
  BY <1>3
<1>. QED
  BY <1>4, <1>5, <1>6, <1>7 DEF Books, Accepted

LEMMA ChangedOne ==
  ASSUME NEW rows \in Books, NEW u \in DOMAIN rows,
         NEW role \in RoleNames, NEW status \in StatusNames
  PROVE  /\ Changed(rows, u, role, status) \in Books
         /\ DOMAIN Changed(rows, u, role, status) = DOMAIN rows
         /\ \A v \in DOMAIN rows \ {u} : Changed(rows, u, role, status)[v] = rows[v]
         /\ Changed(rows, u, role, status)[u].role = role
         /\ Changed(rows, u, role, status)[u].status = status
<1>1. DOMAIN rows \in SUBSET Users /\ rows \in [DOMAIN rows -> Entered]
  BY BookOf
<1>2. Row(role, status, rows[u].place) \in Entered
  BY <1>1 DEF Row, Entered
<1>3. Changed(rows, u, role, status) = [rows EXCEPT ![u] = Row(role, status, rows[u].place)]
  BY <1>1 DEF Changed
<1>4. Changed(rows, u, role, status) \in [DOMAIN rows -> Entered]
  BY <1>1, <1>2, <1>3
<1>5. Changed(rows, u, role, status) \in Books
  BY <1>1, <1>4 DEF Books
<1>. QED
  BY <1>1, <1>3, <1>5 DEF Row

(* There is somebody who was first. *)
LEMMA OldestIsOne ==
  ASSUME NEW rows, NEW us, us # {}, \A u \in us : rows[u].place \in Nat
  PROVE  Oldest(rows, us) \in us
<1>. DEFINE places == {rows[u].place : u \in us}
<1>1. places \in SUBSET Nat /\ places # {}
  OBVIOUS
<1>2. \E n \in places : \A m \in places : n <= m
  <2>. HIDE DEF places
  <2>. QED
    BY <1>1, LeastNumber
<1>3. \E u \in us : \A v \in us : rows[u].place <= rows[v].place
  BY <1>2
<1>. QED
  BY <1>3 DEF Oldest

LEMMA PromotedOne ==
  ASSUME NEW rows \in Books, NEW us \in SUBSET Accepted(rows), us # {}
  PROVE  /\ Promoted(rows, us) \in Books
         /\ Accepted(Promoted(rows, us)) = Accepted(rows)
         /\ \E u \in us : /\ Promoted(rows, us)[u].role = "admin"
                          /\ \A v \in DOMAIN rows \ {u} : Promoted(rows, us)[v] = rows[v]
<1>. DEFINE first == Oldest(rows, us)
            new == Promoted(rows, us)
<1>1. us \in SUBSET DOMAIN rows /\ \A u \in us : rows[u].place \in Nat
  BY BookOf DEF Entered
<1>2. first \in us /\ first \in DOMAIN rows
  BY <1>1, OldestIsOne
<1>3. new = Changed(rows, first, "admin", "accepted")
  BY DEF Promoted
<1>. HIDE DEF first, new
<1>4. rows[first].status = "accepted"
  BY <1>2 DEF Accepted
<1>5. /\ new \in Books /\ DOMAIN new = DOMAIN rows
      /\ \A v \in DOMAIN rows \ {first} : new[v] = rows[v]
      /\ new[first].role = "admin" /\ new[first].status = "accepted"
  BY <1>2, <1>3, NamesOfRows, ChangedOne
<1>6. Accepted(new) = Accepted(rows)
  BY <1>2, <1>4, <1>5 DEF Accepted
<1>7. \E u \in us : new[u].role = "admin" /\ \A v \in DOMAIN rows \ {u} : new[v] = rows[v]
  BY <1>2, <1>5
<1>. QED
  BY <1>5, <1>6, <1>7 DEF new

-----------------------------------------------------------------------------
(* The clans.                                                                *)

(* Somebody administers these rows whose account exists.                     *)
Leads(rows, u) == u \in Accepted(rows) /\ rows[u].role = "admin" /\ ~account[u].deleted
Led(rows) == \E u \in Users : Leads(rows, u)

ClansInv ==
  /\ clans \subseteq ClanIds /\ memberships \in [ClanIds -> Books]
  /\ \A c, d \in clans : c # d => Accepted(memberships[c]) \cap Accepted(memberships[d]) = {}
  /\ \A c \in clans \ late : Led(memberships[c])
  /\ focus \notin {"clans", "teams", "solo"} => clans = {}

(* What an operation may make of the rows of a clan that stays.              *)
Proper(rows, new) ==
  /\ new \in Books
  /\ \A v \in Accepted(new) : v \in Accepted(rows) \/ ~InClan(v)
  /\ Led(rows) => Led(new)
  /\ ActiveAdmins(rows) = {} \/ ActiveAdmins(new) # {} \/ ActiveMembers(new) = {}

LEMMA WriteKeeps ==
  ASSUME ClansInv, NEW c \in clans, NEW new, Proper(memberships[c], new),
         memberships' = [memberships EXCEPT ![c] = new],
         UNCHANGED <<clans, late, account, focus>>
  PROVE  ClansInv' /\ AdminsKept
<1>1. /\ memberships' \in [ClanIds -> Books] /\ memberships'[c] = new
      /\ \A d \in clans \ {c} : memberships'[d] = memberships[d]
  BY DEF ClansInv, Proper
<1>2. \A d \in clans \ {c} : Accepted(new) \cap Accepted(memberships[d]) = {}
  BY DEF ClansInv, Proper, InClan
<1>3. \A d, e \in clans : d # e => Accepted(memberships'[d]) \cap Accepted(memberships'[e]) = {}
  <2>. SUFFICES ASSUME NEW d \in clans, NEW e \in clans, d # e
                PROVE  Accepted(memberships'[d]) \cap Accepted(memberships'[e]) = {}
    OBVIOUS
  <2>1. CASE d = c
    BY <1>1, <1>2, <2>1
  <2>2. CASE e = c
    BY <1>1, <1>2, <2>2
  <2>3. CASE d # c /\ e # c
    BY <1>1, <2>3 DEF ClansInv
  <2>. QED
    BY <2>1, <2>2, <2>3
<1>4. \A d \in clans \ late : Led(memberships'[d])
  BY <1>1 DEF ClansInv, Proper
<1>5. ClansInv'
  BY <1>1, <1>3, <1>4 DEF ClansInv, Led, Leads, Accepted
<1>6. \A d \in clans : \/ ActiveAdmins(memberships[d]) = {}
                       \/ ActiveAdmins(memberships'[d]) # {}
                       \/ ActiveMembers(memberships'[d]) = {}
  BY <1>1 DEF Proper
<1>7. AdminsKept
  BY <1>6 DEF AdminsKept, ActiveAdmins, ActiveMembers, Active, Admins, Accepted
<1>. QED
  BY <1>5, <1>7

(* An active administrator stays.                                            *)
LEMMA OneStays ==
  ASSUME NEW rows, NEW new \in Books, \A v \in Accepted(new) : v \in Accepted(rows) \/ ~InClan(v),
         NEW a \in ActiveAdmins(rows), a \in Accepted(new), new[a].role = rows[a].role
  PROVE  Proper(rows, new)
<1>1. a \in ActiveAdmins(new) /\ Leads(new, a) /\ a \in Users
  BY BookOf DEF ActiveAdmins, ActiveMembers, Admins, Active, Leads
<1>. QED
  BY <1>1 DEF Proper, Led

(* Everybody stays as they were.                                             *)
LEMMA AllStay ==
  ASSUME NEW rows, NEW new \in Books, \A v \in Accepted(new) : v \in Accepted(rows) \/ ~InClan(v),
         \A v \in Accepted(rows) : v \in Accepted(new) /\ new[v].role = rows[v].role
  PROVE  Proper(rows, new)
<1>1. Led(rows) => Led(new)
  BY DEF Led, Leads
<1>2. ActiveAdmins(rows) \subseteq ActiveAdmins(new)
  BY DEF ActiveAdmins, ActiveMembers, Admins
<1>. QED
  BY <1>1, <1>2 DEF Proper

LEMMA JoinKeeps ==
  ASSUME ClansInv, NEW u \in Users, NEW c \in ClanIds, Join(u, c), UNCHANGED <<account, focus>>
  PROVE  ClansInv' /\ AdminsKept
<1>. DEFINE rows == memberships[c]
            rest == Without(rows, u)
            new == Appended(rest, u, "accepted")
<1>1. /\ c \in clans /\ ~InClan(u) /\ memberships' = [memberships EXCEPT ![c] = new]
      /\ UNCHANGED <<clans, late>>
  BY DEF Join, WriteRows
<1>2. rows \in Books /\ u \notin Accepted(rows)
  BY <1>1 DEF ClansInv, InClan
<1>. HIDE DEF rows
<1>3. /\ rest \in Books /\ DOMAIN rest = DOMAIN rows \ {u}
      /\ \A v \in DOMAIN rows \ {u} : rest[v].role = rows[v].role /\ rest[v].status = rows[v].status
      /\ Accepted(rest) = Accepted(rows) \ {u}
  BY <1>2, WithoutOne
<1>. HIDE DEF rest
<1>4. /\ new \in Books /\ \A v \in DOMAIN rest : new[v] = rest[v]
      /\ Accepted(new) = Accepted(rest) \cup {u}
  BY <1>3, NamesOfRows, AppendedOne
<1>. HIDE DEF new
<1>5. \A v \in Accepted(rows) : v \in Accepted(new) /\ new[v].role = rows[v].role
  BY <1>2, <1>3, <1>4 DEF Accepted
<1>6. \A v \in Accepted(new) : v \in Accepted(rows) \/ ~InClan(v)
  BY <1>1, <1>3, <1>4
<1>7. Proper(rows, new)
  BY <1>4, <1>5, <1>6, AllStay
<1>. QED
  BY <1>1, <1>7, WriteKeeps DEF rows

LEMMA RequestJoinKeeps ==
  ASSUME ClansInv, NEW u \in Users, NEW c \in ClanIds, RequestJoin(u, c), UNCHANGED <<account, focus>>
  PROVE  ClansInv' /\ AdminsKept
<1>. DEFINE rows == memberships[c]
            new == Appended(rows, u, "pending")
<1>1. /\ c \in clans /\ u \notin DOMAIN rows /\ memberships' = [memberships EXCEPT ![c] = new]
      /\ UNCHANGED <<clans, late>>
  BY DEF RequestJoin, WriteRows, HasRow
<1>2. rows \in Books
  BY DEF ClansInv
<1>. HIDE DEF rows
<1>3. /\ new \in Books /\ \A v \in DOMAIN rows : new[v] = rows[v]
      /\ Accepted(new) = Accepted(rows)
  <2>. DEFINE status == "pending"
  <2>1. status \in StatusNames /\ status # "accepted" /\ new = Appended(rows, u, status)
    BY NamesOfRows
  <2>. HIDE DEF status, new
  <2>2. u \in Users \ DOMAIN rows
    BY <1>1
  <2>3. /\ Appended(rows, u, status) \in Books
        /\ \A v \in DOMAIN rows : Appended(rows, u, status)[v] = rows[v]
        /\ Accepted(Appended(rows, u, status)) = Accepted(rows) \cup (IF status = "accepted" THEN {u} ELSE {})
    BY <1>2, <2>1, <2>2, AppendedOne
  <2>. QED
    BY <2>1, <2>3
<1>. HIDE DEF new
<1>4. Proper(rows, new)
  BY <1>3, AllStay DEF Accepted
<1>. QED
  BY <1>1, <1>4, WriteKeeps DEF rows

(* Who manages a clan is one of its active administrators.                   *)
LEMMA ManagerLeads ==
  ASSUME ClansInv, NEW u \in Users, NEW c \in ClanIds, MayManage(u, c)
  PROVE  u \in ActiveAdmins(memberships[c]) /\ c \in clans /\ memberships[c] \in Books
  BY DEF MayManage, MayAct, AdminOf, ActiveAdmins, ActiveMembers, Admins, Active, ClansInv

(* The row of one member goes, or changes, while an administrator stays.     *)
LEMMA RemovalProper ==
  ASSUME NEW rows \in Books, NEW v, NEW a \in ActiveAdmins(rows), a # v
  PROVE  Proper(rows, Without(rows, v))
<1>. DEFINE new == Without(rows, v)
<1>1. a \in Accepted(rows) /\ a \in DOMAIN rows
  BY BookOf DEF ActiveAdmins, ActiveMembers, Admins
<1>2. /\ new \in Books /\ \A w \in DOMAIN rows \ {v} : new[w].role = rows[w].role
      /\ Accepted(new) = Accepted(rows) \ {v}
  BY WithoutOne
<1>. HIDE DEF new
<1>3. a \in Accepted(new) /\ new[a].role = rows[a].role
  BY <1>1, <1>2
<1>4. Proper(rows, new)
  BY <1>2, <1>3, OneStays
<1>. QED
  BY <1>4 DEF new

LEMMA ChangeProper ==
  ASSUME NEW rows \in Books, NEW v \in DOMAIN rows, v \in Accepted(rows) \/ ~InClan(v),
         NEW role \in RoleNames, NEW a \in ActiveAdmins(rows), a # v
  PROVE  Proper(rows, Changed(rows, v, role, "accepted"))
<1>. DEFINE new == Changed(rows, v, role, "accepted")
<1>1. a \in Accepted(rows) /\ a \in DOMAIN rows
  BY BookOf DEF ActiveAdmins, ActiveMembers, Admins
<1>3. /\ new \in Books /\ DOMAIN new = DOMAIN rows
      /\ \A w \in DOMAIN rows \ {v} : new[w] = rows[w]
  BY NamesOfRows, ChangedOne
<1>. HIDE DEF new
<1>4. a \in Accepted(new) /\ new[a].role = rows[a].role
  BY <1>1, <1>3 DEF Accepted
<1>5. \A w \in Accepted(new) : w \in Accepted(rows) \/ ~InClan(w)
  BY <1>3 DEF Accepted
<1>6. Proper(rows, new)
  BY <1>3, <1>4, <1>5, OneStays
<1>. QED
  BY <1>6 DEF new

LEMMA DecideKeeps ==
  ASSUME ClansInv, NEW u \in Users, NEW c \in ClanIds, NEW v \in DOMAIN memberships[c], Decide(u, c, v),
         UNCHANGED <<account, focus>>
  PROVE  ClansInv' /\ AdminsKept
<1>. DEFINE rows == memberships[c]
<1>1. u \in ActiveAdmins(rows) /\ c \in clans /\ rows \in Books /\ rows[v].status = "pending"
  BY ManagerLeads DEF Decide
<1>2. u # v
  BY <1>1 DEF ActiveAdmins, ActiveMembers, Admins, Accepted
<1>3. CASE RejectRequest(u, c, v)
  <2>1. Proper(rows, Without(rows, v))
    BY <1>1, <1>2, RemovalProper
  <2>. QED
    BY <1>1, <1>3, <2>1, WriteKeeps DEF RejectRequest, WriteRows
<1>4. CASE ~InClan(v) /\ WriteRows(u, c, Changed(rows, v, "member", "accepted"))
  <2>1. Proper(rows, Changed(rows, v, "member", "accepted"))
    BY <1>1, <1>2, <1>4, NamesOfRows, ChangeProper
  <2>. QED
    BY <1>1, <1>4, <2>1, WriteKeeps DEF WriteRows
<1>. QED
  BY <1>3, <1>4 DEF Decide, AcceptRequest

LEMMA ManageKeeps ==
  ASSUME ClansInv, NEW u \in Users, NEW c \in ClanIds, NEW v \in DOMAIN memberships[c], ManageMember(u, c, v),
         UNCHANGED <<account, focus>>
  PROVE  ClansInv' /\ AdminsKept
<1>. DEFINE rows == memberships[c]
<1>1. u \in ActiveAdmins(rows) /\ c \in clans /\ rows \in Books
  BY ManagerLeads DEF ManageMember, Kick, Promote, Demote
<1>2. CASE Kick(u, c, v)
  <2>1. Proper(rows, Without(rows, v))
    BY <1>1, <1>2, RemovalProper DEF Kick
  <2>. QED
    BY <1>1, <1>2, <2>1, WriteKeeps DEF Kick, WriteRows
<1>3. CASE Promote(u, c, v)
  <2>1. v \in Accepted(rows) /\ v # u
    BY <1>1, <1>3 DEF Promote, AdminOf, ActiveAdmins, ActiveMembers, Admins
  <2>2. Proper(rows, Changed(rows, v, "admin", "accepted"))
    BY <1>1, <2>1, NamesOfRows, ChangeProper
  <2>. QED
    BY <1>1, <1>3, <2>2, WriteKeeps DEF Promote, WriteRows
<1>4. CASE Demote(u, c, v)
  <2>1. v \in Accepted(rows) /\ rows[v].role = "admin"
    BY <1>4 DEF Demote, AdminOf, Admins
  <2>2. PICK a \in ActiveAdmins(rows) : a # v
    <3>1. CASE v = u
      <4>1. Active(v)
        BY <1>1, <3>1 DEF ActiveAdmins, ActiveMembers, Admins
      <4>2. ~(ActiveAdmins(rows) \subseteq {v})
        BY <1>4, <2>1, <4>1 DEF Demote, Protected
      <4>. QED
        BY <4>2
    <3>. QED
      BY <1>1, <3>1
  <2>3. Proper(rows, Changed(rows, v, "member", "accepted"))
    BY <1>1, <2>1, <2>2, NamesOfRows, ChangeProper
  <2>. QED
    BY <1>1, <1>4, <2>3, WriteKeeps DEF Demote, WriteRows
<1>. QED
  BY <1>2, <1>3, <1>4 DEF ManageMember

(* clan_leave_view: the clan ends, or it is handed over when it must be.     *)
LEMMA LeaveProper ==
  ASSUME NEW rows \in Books, NEW u \in Accepted(rows),
         Leaderless(Without(rows, u), u \in Admins(rows, Accepted(rows))) => ActiveMembers(Without(rows, u)) # {}
  PROVE  Proper(rows, HandedOver(Without(rows, u), u \in Admins(rows, Accepted(rows))))
<1>. DEFINE rest == Without(rows, u)
            was == u \in Admins(rows, Accepted(rows))
            new == HandedOver(rest, was)
            heirs == ActiveMembers(rest)
<1>1. /\ rest \in Books
      /\ \A v \in DOMAIN rows \ {u} : rest[v].role = rows[v].role /\ rest[v].status = rows[v].status
      /\ Accepted(rest) = Accepted(rows) \ {u}
  BY WithoutOne
<1>2. Accepted(rows) \subseteq DOMAIN rows /\ Accepted(rows) \subseteq Users
  BY BookOf
<1>. HIDE DEF rest
<1>3. CASE Leaderless(rest, was)
  <2>1. heirs # {} /\ heirs \in SUBSET Accepted(rest)
    BY <1>3 DEF ActiveMembers, rest
  <2>2. new = Promoted(rest, heirs)
    BY <1>3 DEF HandedOver
  <2>. HIDE DEF heirs, new
  <2>3. /\ new \in Books /\ Accepted(new) = Accepted(rest)
        /\ \E v \in heirs : new[v].role = "admin"
    BY <1>1, <2>1, <2>2, PromotedOne
  <2>4. PICK v \in heirs : new[v].role = "admin"
    BY <2>3
  <2>5. Leads(new, v) /\ v \in ActiveAdmins(new) /\ v \in Users
    BY <1>1, <1>2, <2>1, <2>3, <2>4 DEF heirs, Leads, ActiveAdmins, ActiveMembers, Admins, Active
  <2>6. Proper(rows, new)
    BY <1>1, <2>3, <2>5 DEF Proper, Led
  <2>. QED
    BY <2>6 DEF new, rest
<1>4. CASE ~Leaderless(rest, was)
  <2>1. new = rest
    BY <1>4 DEF HandedOver
  <2>2. Proper(rows, rest)
    <3>1. CASE was
      <4>1. PICK a \in ActiveAdmins(rest) : TRUE
        BY <1>4, <3>1 DEF Leaderless
      <4>2. Leads(rest, a) /\ a \in Users
        BY <1>1, <1>2 DEF Leads, ActiveAdmins, ActiveMembers, Admins, Active
      <4>. QED
        BY <1>1, <4>1, <4>2 DEF Proper, Led
    <3>2. CASE ~was
      <4>1. \A v \in Accepted(rows) : rows[v].role = "admin" => v \in Accepted(rest) /\ rest[v].role = "admin"
        BY <1>1, <1>2, <3>2 DEF Admins
      <4>2. Led(rows) => Led(rest)
        BY <4>1 DEF Led, Leads
      <4>3. ActiveAdmins(rows) \subseteq ActiveAdmins(rest)
        BY <4>1 DEF ActiveAdmins, ActiveMembers, Admins
      <4>. QED
        BY <1>1, <4>2, <4>3 DEF Proper
    <3>. QED
      BY <3>1, <3>2
  <2>. QED
    BY <2>1, <2>2 DEF rest
<1>. QED
  BY <1>3, <1>4

(* Nothing of the rows changes, or a clan goes as a whole.                   *)
LEMMA FewerKeep ==
  ASSUME ClansInv, clans' \subseteq clans, late \cap clans' \subseteq late',
         memberships' \in [ClanIds -> Books], \A c \in clans' : memberships'[c] = memberships[c],
         UNCHANGED <<account, focus>>
  PROVE  ClansInv' /\ AdminsKept
<1>1. \A c \in clans' : Accepted(memberships'[c]) = Accepted(memberships[c])
  OBVIOUS
<1>2. \A c \in clans' \ late' : Led(memberships'[c])
  BY DEF ClansInv
<1>3. ClansInv'
  BY <1>1, <1>2 DEF ClansInv, Led, Leads, Accepted
<1>4. AdminsKept
  BY DEF AdminsKept, ActiveAdmins, ActiveMembers, Active, Admins, Accepted
<1>. QED
  BY <1>3, <1>4

LEMMA LeaveClanKeeps ==
  ASSUME ClansInv, NEW u \in Users, NEW c \in ClanIds, LeaveClan(u, c), UNCHANGED <<account, focus>>
  PROVE  ClansInv' /\ AdminsKept
<1>. DEFINE rows == memberships[c]
            rest == Without(rows, u)
            was == u \in Admins(rows, Accepted(rows))
<1>1. c \in clans /\ rows \in Books /\ u \in Accepted(rows)
  BY DEF ClansInv, LeaveClan, Leave
<1>2. CASE /\ clans' = clans \ {c} /\ late' = late \ {c}
           /\ memberships' = [memberships EXCEPT ![c] = NoRows]
  BY <1>1, <1>2, NoRowsBook, FewerKeep DEF ClansInv
<1>3. CASE /\ Leaderless(rest, was) => ActiveMembers(rest) # {}
           /\ WriteRows(u, c, HandedOver(rest, was))
  <2>1. Proper(rows, HandedOver(rest, was))
    BY <1>1, <1>3, LeaveProper
  <2>. QED
    BY <1>1, <1>3, <2>1, WriteKeeps DEF WriteRows
<1>. QED
  BY <1>2, <1>3 DEF LeaveClan, Leave, AdminOf

LEMMA FoundKeeps ==
  ASSUME ClansInv, NEW u \in Users, NEW c \in ClanIds, Found(u, c), focus = "clans", UNCHANGED <<account, focus>>
  PROVE  ClansInv' /\ AdminsKept
<1>. DEFINE new == With(NoRows, u, Row("admin", "accepted", 0))
<1>1. /\ c \notin clans /\ ~InClan(u) /\ clans' = clans \cup {c}
      /\ memberships' = [memberships EXCEPT ![c] = new]
      /\ late' = IF account[u].deleted THEN late \cup {c} ELSE late
  BY DEF Found
<1>2. new \in Books /\ Accepted(new) = {u} /\ new[u].role = "admin"
  <2>1. new = [v \in {u} |-> Row("admin", "accepted", 0)]
    BY DEF With, NoRows
  <2>2. Row("admin", "accepted", 0) \in Entered
    BY NamesOfRows DEF Row, Entered
  <2>3. new \in [{u} -> Entered]
    BY <2>1, <2>2
  <2>. QED
    BY <2>1, <2>3 DEF Books, Accepted, Row
<1>. HIDE DEF new
<1>3. /\ memberships' \in [ClanIds -> Books] /\ memberships'[c] = new
      /\ \A d \in clans : memberships'[d] = memberships[d]
  BY <1>1, <1>2 DEF ClansInv
<1>4. \A d \in clans : u \notin Accepted(memberships[d])
  BY <1>1 DEF InClan
<1>5. \A d, e \in clans' : d # e => Accepted(memberships'[d]) \cap Accepted(memberships'[e]) = {}
  <2>. SUFFICES ASSUME NEW d \in clans', NEW e \in clans', d # e
                PROVE  Accepted(memberships'[d]) \cap Accepted(memberships'[e]) = {}
    OBVIOUS
  <2>1. CASE d = c
    BY <1>1, <1>2, <1>3, <1>4, <2>1
  <2>2. CASE e = c
    BY <1>1, <1>2, <1>3, <1>4, <2>2
  <2>3. CASE d # c /\ e # c
    BY <1>1, <1>3, <2>3 DEF ClansInv
  <2>. QED
    BY <2>1, <2>2, <2>3
<1>6. \A d \in clans' \ late' : Led(memberships'[d])
  <2>1. c \in clans' \ late' => Led(memberships'[c])
    BY <1>1, <1>2, <1>3 DEF Led, Leads
  <2>2. \A d \in clans \ late' : Led(memberships'[d])
    BY <1>1, <1>3 DEF ClansInv
  <2>. QED
    BY <1>1, <2>1, <2>2
<1>7. ClansInv'
  BY <1>1, <1>3, <1>5, <1>6 DEF ClansInv, Led, Leads, Accepted
<1>8. AdminsKept
  BY <1>1, <1>3 DEF AdminsKept, ActiveAdmins, ActiveMembers, Active, Admins, Accepted
<1>. QED
  BY <1>7, <1>8

LEMMA ClansMoveKeeps ==
  ASSUME ClansInv, ClansMove
  PROVE  ClansInv' /\ AdminsKept
<1>1. focus = "clans" /\ ClansNext(Users) /\ UNCHANGED <<account, focus>>
  BY DEF ClansMove, accountVars
<1>2. ASSUME NEW u \in Users, Arrive(u) \/ Refuse(u)
      PROVE  ClansInv' /\ AdminsKept
  BY <1>1, <1>2, FewerKeep DEF Arrive, Refuse, ClansInv
<1>3. ASSUME NEW u \in Users, NEW c \in ClanIds, Found(u, c) \/ Join(u, c) \/ RequestJoin(u, c) \/ LeaveClan(u, c)
      PROVE  ClansInv' /\ AdminsKept
  BY <1>1, <1>3, FoundKeeps, JoinKeeps, RequestJoinKeeps, LeaveClanKeeps
<1>4. ASSUME NEW u \in Users, NEW c \in clans, NEW v \in DOMAIN memberships[c],
             Decide(u, c, v) \/ ManageMember(u, c, v)
      PROVE  ClansInv' /\ AdminsKept
  <2>1. c \in ClanIds
    BY DEF ClansInv
  <2>. QED
    BY <1>1, <1>4, <2>1, DecideKeeps, ManageKeeps
<1>5. CASE PayTogether(1)
  BY <1>1, <1>5, FewerKeep DEF PayTogether, ClansInv
<1>. QED
  BY <1>1, <1>2, <1>3, <1>4, <1>5 DEF ClansNext

(* A clan that an account leaves behind has an administrator, an active one  *)
(* if any member is active.                                                  *)
LEMMA InheritedOne ==
  ASSUME NEW rows \in Books
  PROVE  /\ Inherited(rows) \in Books /\ Accepted(Inherited(rows)) \subseteq Accepted(rows)
         /\ Remaining(rows) # {} => \E a \in Candidates(rows) : Leads(Inherited(rows), a)
<1>. DEFINE heirs == Candidates(rows)
            new == Inherited(rows)
<1>1. ActiveMembers(rows) \subseteq Remaining(rows) /\ Remaining(rows) \subseteq Accepted(rows)
  BY DEF ActiveMembers, Remaining, Active
<1>2. heirs \subseteq Remaining(rows) /\ (Remaining(rows) # {} => heirs # {})
  BY <1>1 DEF Candidates
<1>3. \A a \in heirs : a \in Accepted(rows) /\ ~account[a].deleted
  BY <1>2 DEF Remaining
<1>. HIDE DEF heirs
<1>4. CASE Remaining(rows) = {}
  BY <1>4, NoRowsBook DEF Inherited
<1>5. CASE Remaining(rows) # {} /\ Admins(rows, heirs) # {}
  <2>1. new = rows
    BY <1>5 DEF Inherited, heirs
  <2>2. PICK a \in heirs : rows[a].role = "admin"
    BY <1>5 DEF Admins
  <2>. HIDE DEF new
  <2>3. Leads(new, a)
    BY <1>3, <2>1, <2>2 DEF Leads
  <2>. QED
    BY <2>1, <2>2, <2>3 DEF new, heirs
<1>6. CASE Remaining(rows) # {} /\ Admins(rows, heirs) = {}
  <2>1. new = Promoted(rows, heirs)
    BY <1>6 DEF Inherited, heirs
  <2>2. heirs \in SUBSET Accepted(rows) /\ heirs # {}
    BY <1>2, <1>3, <1>6
  <2>. HIDE DEF new
  <2>3. /\ new \in Books /\ Accepted(new) = Accepted(rows)
        /\ \E v \in heirs : new[v].role = "admin"
    BY <2>1, <2>2, PromotedOne
  <2>4. \E v \in heirs : Leads(new, v)
    BY <1>3, <2>3 DEF Leads
  <2>. QED
    BY <2>3, <2>4 DEF new, heirs
<1>. QED
  BY <1>4, <1>5, <1>6

LEMMA DeleteKeepsClans ==
  ASSUME ClansInv, AccountsInv, NEW u \in Users, DeleteAccount(u)
  PROVE  ClansInv' /\ AdminsKept
<1>. DEFINE gone == {c \in ClansOf(u) : Remaining(Without(memberships[c], u)) = {}}
            rest(c) == Without(memberships[c], u)
<1>1. /\ clans' = clans \ gone /\ late' = late \ gone
      /\ memberships' = [c \in ClanIds |-> IF c \in ClansOf(u) THEN Inherited(rest(c)) ELSE memberships[c]]
      /\ account' = [account EXCEPT ![u] = Erased(@)] /\ UNCHANGED focus
  BY DEF DeleteAccount, DeleteRow, LeaveClans
<1>2. \A v \in Users \ {u} : account'[v] = account[v]
  BY <1>1
<1>3. clans' \subseteq clans /\ clans' \subseteq ClanIds
  BY <1>1 DEF ClansInv
<1>4. ASSUME NEW c \in ClansOf(u)
      PROVE  /\ rest(c) \in Books /\ u \notin Accepted(rest(c))
             /\ Accepted(rest(c)) \subseteq Accepted(memberships[c])
             /\ memberships'[c] = Inherited(rest(c)) /\ memberships'[c] \in Books
             /\ Accepted(memberships'[c]) \subseteq Accepted(rest(c))
  <2>1. c \in ClanIds /\ memberships[c] \in Books
    BY DEF ClansInv, ClansOf
  <2>2. rest(c) \in Books /\ Accepted(rest(c)) = Accepted(memberships[c]) \ {u}
    BY <2>1, WithoutOne
  <2>3. memberships'[c] = Inherited(rest(c))
    BY <1>1, <2>1
  <2>. HIDE DEF rest
  <2>. QED
    BY <2>2, <2>3, InheritedOne
<1>5. ASSUME NEW c \in ClanIds \ ClansOf(u)
      PROVE  memberships'[c] = memberships[c]
  BY <1>1, <1>5
<1>6. memberships' \in [ClanIds -> Books]
  <2>1. \A c \in ClanIds : memberships'[c] \in Books
    BY <1>4, <1>5 DEF ClansInv
  <2>. HIDE DEF rest
  <2>. QED
    BY <1>1, <2>1
<1>7. \A c \in clans' : Accepted(memberships'[c]) \subseteq Accepted(memberships[c])
  BY <1>3, <1>4, <1>5
<1>8. \A c, d \in clans' : c # d => Accepted(memberships'[c]) \cap Accepted(memberships'[d]) = {}
  BY <1>3, <1>7 DEF ClansInv
<1>9. \A c \in clans' \cap ClansOf(u) : \E a \in Candidates(rest(c)) : Leads(memberships'[c], a)
  <2>. SUFFICES ASSUME NEW c \in clans' \cap ClansOf(u)
                PROVE  \E a \in Candidates(rest(c)) : Leads(memberships'[c], a)
    OBVIOUS
  <2>1. Remaining(rest(c)) # {}
    BY <1>1
  <2>2. rest(c) \in Books /\ memberships'[c] = Inherited(rest(c))
    BY <1>4
  <2>. HIDE DEF rest
  <2>. QED
    BY <2>1, <2>2, InheritedOne
<1>. HIDE DEF rest, gone
<1>10. ASSUME NEW c \in clans' \ late'
       PROVE  \E a \in Users : /\ a \in Accepted(memberships'[c]) /\ memberships'[c][a].role = "admin"
                               /\ ~account'[a].deleted
  <2>1. CASE c \in ClansOf(u)
    <3>1. PICK a : Leads(memberships'[c], a)
      BY <1>9, <2>1
    <3>2. a # u /\ a \in Accepted(memberships'[c])
      BY <1>4, <2>1, <3>1 DEF Leads
    <3>3. a \in Users
      BY <1>4, <2>1, <3>2, BookOf
    <3>. QED
      BY <1>2, <3>1, <3>2, <3>3 DEF Leads
  <2>2. CASE c \notin ClansOf(u)
    <3>1. c \in clans \ late /\ memberships'[c] = memberships[c] /\ memberships[c] \in Books
      BY <1>1, <1>3, <1>5, <2>2 DEF ClansInv, gone
    <3>2. PICK a \in Users : Leads(memberships[c], a)
      BY <3>1 DEF ClansInv, Led
    <3>3. a # u
      BY <2>2, <3>1, <3>2, BookOf DEF ClansOf, HasRow, Leads
    <3>. QED
      BY <1>2, <3>1, <3>2, <3>3 DEF Leads
  <2>. QED
    BY <2>1, <2>2
<1>11. ClansInv'
  BY <1>1, <1>3, <1>6, <1>8, <1>10 DEF ClansInv, Led, Leads, Accepted
<1>12. ASSUME NEW c \in clans \cap clans', ActiveAdmins(memberships[c]) # {}
       PROVE  \/ \E a \in Accepted(memberships'[c]) :
                   memberships'[c][a].role = "admin" /\ account'[a].active /\ ~account'[a].deleted
              \/ \A a \in Accepted(memberships'[c]) : ~(account'[a].active /\ ~account'[a].deleted)
  <2>1. CASE c \in ClansOf(u)
    <3>1. PICK a \in Candidates(rest(c)) : Leads(memberships'[c], a)
      BY <1>9, <2>1
    <3>2. \A v \in Accepted(memberships'[c]) : v \in Accepted(rest(c)) /\ v \in Users \ {u}
      BY <1>4, <2>1, BookOf
    <3>3. CASE ActiveMembers(rest(c)) # {}
      <4>1. Active(a)
        BY <3>1, <3>3 DEF Candidates, ActiveMembers
      <4>. QED
        BY <1>2, <3>1, <3>2, <4>1 DEF Leads, Active
    <3>4. CASE ActiveMembers(rest(c)) = {}
      BY <1>2, <3>2, <3>4 DEF ActiveMembers, Active
    <3>. QED
      BY <3>3, <3>4
  <2>2. CASE c \notin ClansOf(u)
    <3>1. memberships'[c] = memberships[c] /\ memberships[c] \in Books
      BY <1>3, <1>5, <2>2 DEF ClansInv
    <3>2. PICK a \in ActiveAdmins(memberships[c]) : TRUE
      BY <1>12
    <3>3. a # u /\ a \in Users
      BY <2>2, <3>1, <3>2, BookOf DEF ClansOf, HasRow, ActiveAdmins, ActiveMembers, Admins
    <3>. QED
      BY <1>2, <3>1, <3>2, <3>3 DEF ActiveAdmins, ActiveMembers, Admins, Active
  <2>. QED
    BY <2>1, <2>2
<1>13. AdminsKept
  BY <1>12 DEF AdminsKept, ActiveAdmins, ActiveMembers, Active, Admins, Accepted
<1>. QED
  BY <1>11, <1>13

(* A ban or its end deletes no account, and takes activity only for a ban.   *)
LEMMA ModeratedRows ==
  ASSUME AccountsInv, Moderation(Barrable)
  PROVE  \A v \in Users : /\ account'[v].deleted = account[v].deleted
                          /\ account[v].active => account'[v].active \/ account'[v].banned
<1>1. Barrable \subseteq Users
  BY PortalAssumption
<1>2. PICK u \in Users : BanUser(u) \/ Revoke(u)
  BY <1>1 DEF Moderation
<1>3. account[u] \in Rows /\ account \in [Users -> Rows]
  BY DEF AccountsInv, RowsInv
<1>4. \A v \in Users \ {u} : account'[v] = account[v]
  BY <1>2, <1>3 DEF BanUser, Disable, Revoke
<1>5. /\ account'[u].deleted = account[u].deleted
      /\ account[u].active => account'[u].active \/ account'[u].banned
  <2>1. CASE BanUser(u)
    <3>1. account'[u] = Barred(account[u])
      BY <1>3, <2>1 DEF BanUser, Disable
    <3>. QED
      BY <1>3, <3>1, BarredRow
  <2>2. CASE Revoke(u)
    <3>1. account'[u] = IF account[u].deleted THEN account[u] ELSE Pardoned(account[u], ban[u].wasActive)
      BY <1>3, <2>2 DEF Revoke
    <3>2. CASE account[u].deleted
      BY <3>1, <3>2
    <3>3. CASE ~account[u].deleted
      <4>1. ban[u] \in Bans /\ ban[u].wasActive \in BOOLEAN
        BY <2>2 DEF AccountsInv, RowsInv, Revoke, Bans
      <4>2. account'[u].deleted = account[u].deleted
        BY <1>3, <3>1, <3>3, <4>1, PardonedRow
      <4>3. ~account[u].active
        BY <2>2, <3>3 DEF AccountsInv, RowsInv, BanKept, RowOK, Revoke
      <4>. QED
        BY <4>2, <4>3
    <3>. QED
      BY <3>2, <3>3
  <2>. QED
    BY <1>2, <2>1, <2>2
<1>. QED
  BY <1>4, <1>5

(* A ban or its end changes no row of a clan.                                *)
LEMMA ModerateKeepsClans ==
  ASSUME ClansInv, AccountsInv, Moderate(Barrable)
  PROVE  ClansInv' /\ AdminsKept
<1>1. UNCHANGED <<memberships, clans, late, focus>> /\ Moderation(Barrable)
  BY DEF Moderate, clanVars
<1>2. \A v \in Users : /\ account'[v].deleted = account[v].deleted
                       /\ account[v].active => account'[v].active \/ account'[v].banned
  BY <1>1, ModeratedRows
<1>3. ClansInv'
  <2>1. \A v \in Users : account'[v].deleted = account[v].deleted
    BY <1>2
  <2>. QED
    BY <1>1, <2>1 DEF ClansInv, Led, Leads, Accepted
<1>4. AdminsKept
  <2>. SUFFICES ASSUME NEW c \in clans, NEW a \in ActiveAdmins(memberships[c])
                PROVE  ActiveAdmins(memberships[c])' # {} \/ \E v \in Users : account[v].active /\ account'[v].banned
    BY <1>1 DEF AdminsKept
  <2>1. a \in Users /\ Active(a)
    BY BookOf DEF ClansInv, ActiveAdmins, ActiveMembers, Admins
  <2>2. CASE account'[a].active
    <3>1. ~account'[a].deleted
      BY <1>2, <2>1 DEF Active
    <3>2. a \in ActiveAdmins(memberships[c])'
      BY <1>1, <2>2, <3>1 DEF ActiveAdmins, ActiveMembers, Active, Admins, Accepted
    <3>. QED
      BY <3>2
  <2>3. CASE ~account'[a].active
    BY <1>2, <2>1, <2>3 DEF Active
  <2>. QED
    BY <2>2, <2>3
<1>. QED
  BY <1>3, <1>4

(* The other parts leave the clans alone; in the accounts there is none.     *)
LEMMA OthersKeepClans ==
  ASSUME ClansInv, UNCHANGED <<memberships, clans, late, focus>>, UNCHANGED account \/ clans = {}
  PROVE  ClansInv' /\ AdminsKept
<1>1. CASE UNCHANGED account
  BY <1>1 DEF ClansInv, Led, Leads, Accepted, AdminsKept, ActiveAdmins, ActiveMembers, Active, Admins
<1>2. CASE clans = {}
  BY <1>2 DEF ClansInv, Led, Leads, Accepted, AdminsKept
<1>. QED
  BY <1>1, <1>2

LEMMA ClansStep ==
  ASSUME ClansInv, AccountsInv, NEW us \in SUBSET Users, NEW ms, NEW over, [PortalNext(us, ms, over)]_portalVars
  PROVE  ClansInv' /\ AdminsKept
<1>1. CASE ClansMove
  BY <1>1, ClansMoveKeeps
<1>2. CASE \E u \in us : DeleteOwn(u) \/ AnonymizeAccount(u)
  BY <1>2, DeleteKeepsClans DEF DeleteOwn, AnonymizeAccount
<1>3. CASE Moderate(Barrable)
  BY <1>3, ModerateKeepsClans
<1>4. CASE AccountsMove(ms)
  <2>1. clans = {} /\ UNCHANGED <<memberships, clans, late, focus>>
    BY <1>4 DEF AccountsMove, ClansInv, clanVars
  <2>. QED
    BY <2>1, OthersKeepClans
<1>5. CASE TeamsMove(over) \/ PhotosMove(us) \/ WikiMove \/ ContactMove \/ UNCHANGED portalVars
  <2>1. UNCHANGED <<memberships, clans, late, focus>> /\ UNCHANGED account
    BY <1>5 DEF TeamsMove, PhotosMove, WikiMove, ContactMove, portalVars, accountVars, clanVars
  <2>. QED
    BY <2>1, OthersKeepClans
<1>. QED
  BY <1>1, <1>2, <1>3, <1>4, <1>5 DEF PortalNext

LEMMA ClansStart ==
  ASSUME NEW mails0 \in [Users -> Mails], NEW rows0 \in Books, Admins(rows0, Accepted(rows0)) # {}, NEW e0,
         PortalInit(mails0, rows0, e0)
  PROVE  ClansInv
<1>. DEFINE rows == IF OfTeams THEN rows0 ELSE NoRows
<1>1. /\ memberships = [c \in ClanIds |-> IF c = 1 THEN rows ELSE NoRows]
      /\ clans = {c \in {1} : DOMAIN rows # {}} /\ late = {}
  BY DEF PortalInit, ClansInit
<1>2. rows \in Books /\ NoRows \in Books /\ (~OfTeams => DOMAIN rows = {})
  BY NoRowsBook DEF NoRows
<1>3. clans \subseteq ClanIds
  BY <1>1 DEF ClanIds
<1>4. memberships \in [ClanIds -> Books]
  BY <1>1, <1>2
<1>5. ASSUME OfTeams
      PROVE  Led(rows0)
  <2>1. PICK u \in Accepted(rows0) : rows0[u].role = "admin"
    BY DEF Admins
  <2>2. u \in Users
    BY BookOf
  <2>3. account[u] = Member(mails0[u])
    BY <1>5, <2>2 DEF PortalInit, AccountsInit, OfTeams
  <2>4. ~account[u].deleted
    BY <2>3 DEF Member, Unregistered
  <2>. QED
    BY <2>1, <2>2, <2>4 DEF Led, Leads
<1>6. \A c \in clans : c = 1 /\ OfTeams
  BY <1>1, <1>2
<1>7. \A c \in clans : Led(memberships[c])
  BY <1>1, <1>3, <1>5, <1>6
<1>8. focus \notin {"clans", "teams", "solo"} => clans = {}
  BY <1>6 DEF OfTeams
<1>. QED
  BY <1>3, <1>4, <1>6, <1>7, <1>8 DEF ClansInv

LEMMA OneEach ==
  ASSUME ClansInv
  PROVE  OneClanEach /\ Administered
<1>1. OneClanEach
  <2>. SUFFICES ASSUME NEW u \in Users
                PROVE  Cardinality({c \in clans : u \in Accepted(memberships[c])}) <= 1
    BY DEF OneClanEach
  <2>. DEFINE own == {c \in clans : u \in Accepted(memberships[c])}
  <2>1. CASE own = {}
    BY <2>1, FS_EmptySet
  <2>2. CASE own # {}
    <3>1. PICK c \in own : own = {c}
      BY <2>2 DEF ClansInv
    <3>. HIDE DEF own
    <3>2. Cardinality(own) = 1
      BY <3>1, FS_Singleton
    <3>. QED
      BY <3>2 DEF own
  <2>. QED
    BY <2>1, <2>2
<1>2. Administered
  <2>. SUFFICES ASSUME NEW c \in clans \ late
                PROVE  \E u \in Users : AdminOf(u, c) /\ ~account[u].deleted
    BY DEF Administered
  <2>. QED
    BY DEF ClansInv, Led, Leads, AdminOf, Admins
<1>. QED
  BY <1>1, <1>2

LEMMA AccountsStay ==
  ASSUME AccountsInv, NEW us \in SUBSET Users, NEW ms \in SUBSET Mails, NEW over, [PortalNext(us, ms, over)]_portalVars
  PROVE  AccountsInv'
<1>1. CASE PortalNext(us, ms, over)
  BY <1>1, PortalStep, AccountsStepKeeps, AccountsStutter
<1>2. CASE UNCHANGED portalVars
  BY <1>2, AccountsStutter DEF portalVars
<1>. QED
  BY <1>1, <1>2

(* Nobody is in two clans, every clan has an administrator whose account     *)
(* exists, and only a ban takes the last active one from active members,     *)
(* however joins, requests, kicks, promotions, departures, bans and          *)
(* deletions interleave (clans/services.py, users/services.py). A    *)
(* clan that exists at first has an administrator.                           *)
THEOREM ClansStayAdministered ==
  ASSUME NEW mails0 \in [Users -> Mails], \A u, v \in Users : mails0[u] = mails0[v] => u = v,
         NEW rows0 \in Books, Admins(rows0, Accepted(rows0)) # {}, NEW e0,
         NEW us \in SUBSET Users, NEW ms \in SUBSET Mails, NEW over
  PROVE  PortalSpec(mails0, rows0, e0, us, ms, over) => ClansAdministered
<1>1. PortalInit(mails0, rows0, e0) => AccountsInv /\ ClansInv
  BY PortalStart, ClansStart
<1>2. AccountsInv /\ [PortalNext(us, ms, over)]_portalVars => AccountsInv'
  BY AccountsStay
<1>3. AccountsInv /\ ClansInv /\ [PortalNext(us, ms, over)]_portalVars => ClansInv'
  BY ClansStep
<1>4. AccountsInv /\ ClansInv /\ [PortalNext(us, ms, over)]_portalVars => [AdminsKept]_<<account, clanVars>>
  BY ClansStep
<1>5. ClansInv => OneClanEach /\ Administered
  BY OneEach
<1>. QED
  BY <1>1, <1>2, <1>3, <1>4, <1>5, PTL DEF PortalSpec, ClansAdministered

-----------------------------------------------------------------------------
(* The rosters of teams.                                                     *)

USE TeamsAssumption DEF TeamsAssumption

Lines == [status : StatusNames, place : Nat]
Lists == UNION {[us -> Lines] : us \in SUBSET Users}

LEMMA ListOf ==
  ASSUME NEW rows \in Lists
  PROVE  /\ DOMAIN rows \subseteq Users /\ IsFiniteSet(DOMAIN rows)
         /\ rows \in [DOMAIN rows -> Lines]
         /\ Accepted(rows) \subseteq DOMAIN rows /\ Accepted(rows) \subseteq Users
         /\ IsFiniteSet(Accepted(rows)) /\ Cardinality(Accepted(rows)) \in Nat
<1>1. PICK us \in SUBSET Users : rows \in [us -> Lines]
  BY DEF Lists
<1>2. IsFiniteSet(us) /\ DOMAIN rows = us
  BY <1>1, FS_Subset
<1>3. Accepted(rows) \subseteq us
  BY <1>1 DEF Accepted
<1>4. IsFiniteSet(Accepted(rows)) /\ Cardinality(Accepted(rows)) \in Nat
  BY <1>2, <1>3, FS_Subset, FS_CardinalityType
<1>. QED
  BY <1>1, <1>2, <1>3, <1>4

LEMMA NobodyList == NobodyYet \in Lists /\ Accepted(NobodyYet) = {}
<1>1. NobodyYet \in [{} -> Lines]
  BY DEF NobodyYet
<1>. QED
  BY <1>1 DEF Lists, Accepted, NobodyYet

LEMMA OnlyPlayers ==
  ASSUME NEW rows \in Lists, NEW us
  PROVE  Only(rows, us) \in Lists /\ Accepted(Only(rows, us)) = Accepted(rows) \cap us
<1>. DEFINE left == DOMAIN rows \cap us
            older(u) == Cardinality({v \in left : rows[v].place < rows[u].place})
<1>1. DOMAIN rows \subseteq Users /\ IsFiniteSet(DOMAIN rows) /\ rows \in [DOMAIN rows -> Lines]
  BY ListOf
<1>2. \A u \in left : older(u) \in Nat
  <2>. SUFFICES ASSUME NEW u \in left PROVE older(u) \in Nat
    OBVIOUS
  <2>1. {v \in left : rows[v].place < rows[u].place} \in SUBSET DOMAIN rows
    OBVIOUS
  <2>2. IsFiniteSet({v \in left : rows[v].place < rows[u].place})
    BY <1>1, <2>1, FS_Subset
  <2>. QED
    BY <2>2, FS_CardinalityType
<1>3. Only(rows, us) = [u \in left |-> [rows[u] EXCEPT !.place = older(u)]]
  BY DEF Only
<1>. HIDE DEF older
<1>4. Only(rows, us) \in [left -> Lines]
  BY <1>1, <1>2, <1>3 DEF Lines
<1>5. \A u \in left : Only(rows, us)[u].status = rows[u].status
  BY <1>1, <1>3 DEF Lines
<1>6. left \in SUBSET Users
  BY <1>1
<1>7. Only(rows, us) \in Lists
  BY <1>4, <1>6 DEF Lists
<1>8. DOMAIN Only(rows, us) = left
  BY <1>3
<1>. QED
  BY <1>5, <1>7, <1>8 DEF Accepted

LEMMA WithoutPlayer ==
  ASSUME NEW rows \in Lists, NEW u
  PROVE  Without(rows, u) \in Lists /\ Accepted(Without(rows, u)) = Accepted(rows) \ {u}
<1>. DEFINE others == Users \ {u}
            new == Only(rows, others)
<1>1. new \in Lists /\ Accepted(new) = Accepted(rows) \cap others
  <2>. HIDE DEF others
  <2>. QED
    BY OnlyPlayers
<1>2. Accepted(rows) \cap others = Accepted(rows) \ {u}
  BY ListOf
<1>3. Without(rows, u) = new
  BY DEF Without
<1>. HIDE DEF new
<1>. QED
  BY <1>1, <1>2, <1>3

LEMMA AdmittedOnes ==
  ASSUME NEW rows \in Lists, NEW us \in SUBSET Users
  PROVE  Admitted(rows, us) \in Lists /\ Accepted(Admitted(rows, us)) = Accepted(rows) \cup us
<1>. DEFINE line(u) == Line(IF u \in us THEN "accepted" ELSE rows[u].status,
                            IF u \in DOMAIN rows THEN rows[u].place ELSE Cardinality(DOMAIN rows))
            all == DOMAIN rows \cup us
<1>1. /\ DOMAIN rows \subseteq Users /\ rows \in [DOMAIN rows -> Lines]
      /\ Cardinality(DOMAIN rows) \in Nat
  BY ListOf, FS_CardinalityType
<1>2. \A u \in all : line(u) \in Lines
  BY <1>1, NamesOfRows DEF Line, Lines
<1>3. Admitted(rows, us) = [u \in all |-> line(u)]
  BY DEF Admitted
<1>4. \A u \in all : line(u).status = IF u \in us THEN "accepted" ELSE rows[u].status
  BY DEF Line
<1>. HIDE DEF line
<1>5. Admitted(rows, us) \in [all -> Lines] /\ all \in SUBSET Users
  BY <1>1, <1>2, <1>3
<1>6. \A u \in all : Admitted(rows, us)[u].status = IF u \in us THEN "accepted" ELSE rows[u].status
  BY <1>3, <1>4
<1>7. DOMAIN Admitted(rows, us) = all
  BY <1>3
<1>. QED
  BY <1>5, <1>6, <1>7 DEF Lists, Accepted

LEMMA AppliedOne ==
  ASSUME NEW rows \in Lists, NEW u \in Users \ DOMAIN rows
  PROVE  LET new == With(rows, u, Line("pending", Cardinality(DOMAIN rows))) IN
         new \in Lists /\ Accepted(new) = Accepted(rows)
<1>. DEFINE line == Line("pending", Cardinality(DOMAIN rows))
            new == With(rows, u, line)
            all == DOMAIN rows \cup {u}
<1>1. /\ DOMAIN rows \subseteq Users /\ rows \in [DOMAIN rows -> Lines]
      /\ Cardinality(DOMAIN rows) \in Nat
  BY ListOf, FS_CardinalityType
<1>2. line \in Lines /\ line.status = "pending"
  BY <1>1, NamesOfRows DEF Line, Lines
<1>. HIDE DEF line
<1>3. new = [v \in all |-> IF v = u THEN line ELSE rows[v]]
  BY DEF With
<1>4. new \in [all -> Lines] /\ all \in SUBSET Users
  BY <1>1, <1>2, <1>3
<1>5. new[u].status = "pending" /\ \A v \in DOMAIN rows : new[v] = rows[v]
  BY <1>2, <1>3
<1>6. DOMAIN new = all
  BY <1>3
<1>7. new \in Lists
  BY <1>4 DEF Lists
<1>8. Accepted(new) = Accepted(rows)
  <2>. HIDE DEF new
  <2>. QED
    BY <1>5, <1>6 DEF Accepted
<1>. QED
  BY <1>7, <1>8 DEF line

-----------------------------------------------------------------------------
(* The teams.                                                                *)

CupStates == {"open", "running", "review", "over"}
CupRows == [status : CupStates, rounds : BOOLEAN, entries : SUBSET TeamIds]

TeamsTyped ==
  /\ team \in [TeamIds -> TeamRows \cup {NoOne}] /\ roster \in [TeamIds -> Lists]
  /\ cup \in [Cups -> CupRows] /\ current \in Events \cup {NoOne}
  /\ \A i \in invites : i.team \in TeamIds /\ i.user \in Users

(* A captain who does not play leads a team that was emptied.                *)
TeamOK(t) ==
  /\ ~IsTeam(t) => Players(t) = {}
  /\ IsTeam(t) =>
       /\ Plays(team[t].captain, t) \/ team[t].emptied
       /\ Strength(t) <= Size[team[t].game]

(* A team in a tournament that is not over is bound to its game and event,   *)
(* one that was emptied only while the tournament is played.                 *)
Bound(row, c) == ~row.archived /\ row.game = GameOf(c) /\ row.event = EventOf(c)

EntryOK(c, t) ==
  /\ IsTeam(t) /\ team[t].event # NoOne
  /\ InPlay(c) \/ ~team[t].emptied => Bound(team[t], c)
  /\ InPlay(c) => SizeAllowed(c, Strength(t), TRUE) /\ Plays(team[t].captain, t)

InviteOK(i) ==
  /\ IsTeam(i.team) /\ ~team[i.team].archived
  /\ ~Plays(i.user, i.team) /\ ~account[i.user].deleted
  /\ \A c \in Cups : InPlay(c) => i.team \notin cup[c].entries

TeamsInv ==
  /\ TeamsTyped
  /\ \A t \in TeamIds : TeamOK(t)
  /\ OneTeamPerGame
  /\ \A c \in Cups : cup[c].status # "over" => \A t \in cup[c].entries : EntryOK(c, t)
  /\ \A i \in invites : InviteOK(i)
  /\ ~OfTeams => (\A t \in TeamIds : ~IsTeam(t)) /\ invites = {}

(* What RostersLocked says of one step. *)
LockedStay ==
  \A c \in Cups : InPlay(c) => \A t \in cup[c].entries :
    /\ t \in cup'[c].entries
    /\ Players(t)' = Players(t) /\ team'[t].captain = team[t].captain

(* The invariant implies what the run checks.                                *)
LEMMA TeamsAreSound ==
  ASSUME TeamsInv
  PROVE  TeamsSound
<1>1. \A c \in Cups : cup[c].status # "over" => cup[c].entries \subseteq TeamIds
  BY DEF TeamsInv, TeamsTyped, CupRows
<1>2. FieldsFair
  <2>. SUFFICES ASSUME NEW c \in Cups, cup[c].status # "over",
                       NEW t \in cup[c].entries, InPlay(c) \/ ~team[t].emptied
                PROVE  /\ IsTeam(t) /\ ~team[t].archived
                       /\ \A s \in cup[c].entries \ {t} : InPlay(c) \/ ~team[s].emptied =>
                            Players(s) \cap Players(t) = {}
                       /\ InPlay(c) => SizeAllowed(c, Strength(t), TRUE) /\ Plays(team[t].captain, t)
    BY DEF FieldsFair
  <2>1. \A s \in cup[c].entries : EntryOK(c, s) /\ s \in TeamIds
    BY <1>1 DEF TeamsInv
  <2>2. \A s \in cup[c].entries \ {t} : InPlay(c) \/ ~team[s].emptied => Players(s) \cap Players(t) = {}
    BY <2>1 DEF TeamsInv, OneTeamPerGame, EntryOK, Bound
  <2>. QED
    BY <2>1, <2>2 DEF EntryOK, Bound
<1>3. TeamsLed
  BY DEF TeamsInv, TeamsLed, TeamOK
<1>4. InvitesOpen
  BY DEF TeamsInv, InvitesOpen, InviteOK
<1>. QED
  BY <1>2, <1>3, <1>4 DEF TeamsSound, TeamsInv

(* What an operation may make of one team.                                   *)
FitsIn(t, row, list) ==
  /\ row \in TeamRows /\ list \in Lists
  /\ row.captain \in Accepted(list) \/ row.emptied
  /\ Cardinality(Accepted(list)) <= Size[row.game]
  /\ ~row.archived => \A u \in Accepted(list) : ~Elsewhere(u, row.game, t)
  /\ Locked(t) => Accepted(list) = Players(t) /\ row.captain = team[t].captain
  /\ \A c \in Cups : cup[c].status # "over" /\ t \in cup[c].entries =>
       row.event # NoOne /\ (InPlay(c) \/ ~row.emptied => Bound(row, c))

(* It enters a tournament at most, and its invitations fit.                  *)
MayEnterCup(t, row) ==
  \/ UNCHANGED cup
  \/ \E c \in Cups : /\ cup[c].status = "open" /\ cup' = [cup EXCEPT ![c].entries = @ \cup {t}]
                     /\ Bound(row, c)

KeepsInvites(t, row, list) ==
  /\ invites' \subseteq invites
  /\ \A i \in invites' : i.team = t => ~row.archived /\ i.user \notin Accepted(list)

LEMMA TeamChanges ==
  ASSUME TeamsInv, OfTeams, NEW t \in TeamIds, NEW row, NEW list,
         FitsIn(t, row, list), MayEnterCup(t, row), KeepsInvites(t, row, list),
         team' = [team EXCEPT ![t] = row], roster' = [roster EXCEPT ![t] = list],
         UNCHANGED <<current, account, focus>>
  PROVE  TeamsInv' /\ LockedStay
<1>. USE DEF TeamsTyped
<1>1. /\ team' \in [TeamIds -> TeamRows \cup {NoOne}] /\ roster' \in [TeamIds -> Lists]
      /\ team'[t] = row /\ roster'[t] = list /\ row # NoOne
      /\ \A s \in TeamIds \ {t} : team'[s] = team[s] /\ roster'[s] = roster[s]
  BY DEF TeamsInv, FitsIn
<1>2. /\ cup' \in [Cups -> CupRows]
      /\ \A c \in Cups : cup'[c].status = cup[c].status /\ cup[c].entries \subseteq cup'[c].entries
      /\ \A c \in Cups : \A s \in cup'[c].entries \ cup[c].entries :
           s = t /\ cup[c].status = "open" /\ Bound(row, c)
  <2>1. CASE UNCHANGED cup
    BY <2>1 DEF TeamsInv
  <2>2. CASE \E c \in Cups : /\ cup[c].status = "open" /\ cup' = [cup EXCEPT ![c].entries = @ \cup {t}]
                             /\ Bound(row, c)
    <3>1. PICK c \in Cups : /\ cup[c].status = "open" /\ cup' = [cup EXCEPT ![c].entries = @ \cup {t}]
                            /\ Bound(row, c)
      BY <2>2
    <3>2. cup \in [Cups -> CupRows]
      BY DEF TeamsInv
    <3>3. cup' \in [Cups -> CupRows] /\ cup'[c].status = cup[c].status /\ cup'[c].entries = cup[c].entries \cup {t}
      <4>. DEFINE more == cup[c].entries \cup {t}
      <4>1. more \in SUBSET TeamIds
        BY <3>2 DEF CupRows
      <4>. HIDE DEF more
      <4>2. cup' = [cup EXCEPT ![c].entries = more]
        BY <3>1 DEF more
      <4>. QED
        BY <3>2, <4>1, <4>2 DEF CupRows, more
    <3>4. \A d \in Cups \ {c} : cup'[d] = cup[d]
      BY <3>1, <3>2
    <3>. QED
      BY <3>1, <3>3, <3>4
  <2>. QED
    BY <2>1, <2>2 DEF MayEnterCup
<1>3. /\ Players(t)' = Accepted(list) /\ \A s \in TeamIds \ {t} : Players(s)' = Players(s)
  BY <1>1 DEF Players, Accepted
<1>4. TeamsTyped'
  BY <1>1, <1>2 DEF TeamsInv, KeepsInvites
<1>5. ASSUME NEW s \in TeamIds
      PROVE  TeamOK(s)'
  <2>1. CASE s = t
    BY <1>1, <1>3, <2>1 DEF TeamOK, FitsIn, IsTeam, Plays, Strength
  <2>2. CASE s # t
    BY <1>1, <1>3, <2>2 DEF TeamsInv, TeamOK, IsTeam, Plays, Strength
  <2>. QED
    BY <2>1, <2>2
<1>6. OneTeamPerGame'
  <2>1. \A s \in TeamIds \ {t} : IsTeam(s) /\ ~team[s].archived /\ ~row.archived /\ team[s].game = row.game =>
          Players(s) \cap Accepted(list) = {}
    BY DEF FitsIn, Elsewhere, Plays
  <2>. SUFFICES ASSUME NEW s \in TeamIds, NEW r \in TeamIds, IsTeam(s)', IsTeam(r)', s # r,
                       ~team'[s].archived, ~team'[r].archived, team'[s].game = team'[r].game
                PROVE  Players(s)' \cap Players(r)' = {}
    BY DEF OneTeamPerGame
  <2>2. CASE s = t
    BY <1>1, <1>3, <2>1, <2>2 DEF IsTeam
  <2>3. CASE r = t
    BY <1>1, <1>3, <2>1, <2>3 DEF IsTeam
  <2>4. CASE s # t /\ r # t
    BY <1>1, <1>3, <2>4 DEF TeamsInv, OneTeamPerGame, IsTeam
  <2>. QED
    BY <2>2, <2>3, <2>4
<1>7. ASSUME NEW c \in Cups, cup'[c].status # "over", NEW s \in cup'[c].entries
      PROVE  EntryOK(c, s)'
  <2>1. s \in TeamIds
    BY <1>2 DEF CupRows
  <2>2. CASE s \notin cup[c].entries
    <3>1. s = t /\ ~InPlay(c)' /\ Bound(row, c) /\ row.event # NoOne
      BY <1>2, <2>2 DEF InPlay, Bound, Events
    <3>. QED
      BY <1>1, <3>1 DEF EntryOK, IsTeam, Bound
  <2>3. CASE s \in cup[c].entries /\ s = t
    <3>1. EntryOK(c, t) /\ row.event # NoOne /\ (InPlay(c) \/ ~row.emptied => Bound(row, c))
      BY <1>2, <1>7, <2>3 DEF TeamsInv, FitsIn
    <3>2. InPlay(c) => Players(t)' = Players(t) /\ row.captain = team[t].captain
      BY <1>3, <2>3 DEF FitsIn, Locked
    <3>3. InPlay(c)' = InPlay(c)
      BY <1>2 DEF InPlay
    <3>4. InPlay(c)' => SizeAllowed(c, Strength(t)', TRUE) /\ row.captain \in Players(t)'
      BY <3>1, <3>2, <3>3 DEF EntryOK, Strength, Plays
    <3>5. IsTeam(t)' /\ team'[t] = row
      BY <1>1 DEF IsTeam
    <3>. QED
      BY <2>3, <3>1, <3>3, <3>4, <3>5 DEF EntryOK, Bound, SizeAllowed, Plays
  <2>4. CASE s \in cup[c].entries /\ s # t
    <3>1. EntryOK(c, s) /\ team'[s] = team[s] /\ Players(s)' = Players(s) /\ InPlay(c)' = InPlay(c)
      BY <1>1, <1>2, <1>3, <1>7, <2>1, <2>4 DEF TeamsInv, InPlay
    <3>. QED
      BY <3>1 DEF EntryOK, Bound, IsTeam, Plays, Strength, SizeAllowed
  <2>. QED
    BY <2>2, <2>3, <2>4
<1>8. ASSUME NEW i \in invites'
      PROVE  InviteOK(i)'
  <2>1. i \in invites /\ InviteOK(i) /\ i.team \in TeamIds
    BY DEF TeamsInv, KeepsInvites
  <2>2. \A c \in Cups : InPlay(c)' => i.team \notin cup'[c].entries
    BY <1>2, <2>1 DEF InviteOK, InPlay
  <2>3. CASE i.team = t
    BY <1>1, <1>3, <2>1, <2>2, <2>3 DEF InviteOK, KeepsInvites, IsTeam, Plays
  <2>4. CASE i.team # t
    BY <1>1, <1>3, <2>1, <2>2, <2>4 DEF InviteOK, IsTeam, Plays
  <2>. QED
    BY <2>3, <2>4
<1>9. LockedStay
  <2>. SUFFICES ASSUME NEW c \in Cups, InPlay(c), NEW s \in cup[c].entries
                PROVE  /\ s \in cup'[c].entries
                       /\ Players(s)' = Players(s) /\ team'[s].captain = team[s].captain
    BY DEF LockedStay
  <2>1. s \in TeamIds /\ s \in cup'[c].entries
    BY <1>2 DEF TeamsInv, CupRows
  <2>2. s = t => Accepted(list) = Players(t) /\ row.captain = team[t].captain
    BY DEF FitsIn, Locked
  <2>. QED
    BY <1>1, <1>3, <2>1, <2>2
<1>. QED
  BY <1>4, <1>5, <1>6, <1>7, <1>8, <1>9 DEF TeamsInv, OfTeams

LEMMA TeamFacts ==
  ASSUME TeamsInv, NEW t \in TeamIds, IsTeam(t)
  PROVE  /\ team[t] \in TeamRows /\ roster[t] \in Lists /\ (team[t].captain \in Players(t) \/ team[t].emptied)
         /\ Players(t) \subseteq Users /\ IsFiniteSet(Players(t)) /\ Strength(t) \in Nat
         /\ Strength(t) <= Size[team[t].game]
         /\ ~team[t].archived => \A u \in Players(t) : ~Elsewhere(u, team[t].game, t)
         /\ \A c \in Cups : cup[c].status # "over" /\ t \in cup[c].entries =>
              team[t].event # NoOne /\ (InPlay(c) \/ ~team[t].emptied => Bound(team[t], c))
         /\ Locked(t) => team[t].captain \in Players(t)
<1>1. team[t] \in TeamRows /\ roster[t] \in Lists
  BY DEF TeamsInv, TeamsTyped, IsTeam
<1>2. Players(t) \subseteq Users /\ IsFiniteSet(Players(t)) /\ Strength(t) \in Nat
  BY <1>1, ListOf DEF Players, Strength
<1>3. TeamOK(t)
  BY DEF TeamsInv
<1>4. ~team[t].archived => \A u \in Players(t) : ~Elsewhere(u, team[t].game, t)
  BY DEF TeamsInv, OneTeamPerGame, Elsewhere, Plays
<1>5. \A c \in Cups : cup[c].status # "over" /\ t \in cup[c].entries =>
        team[t].event # NoOne /\ (InPlay(c) \/ ~team[t].emptied => Bound(team[t], c))
  BY DEF TeamsInv, EntryOK
<1>6. Locked(t) => team[t].captain \in Players(t)
  BY DEF TeamsInv, EntryOK, Locked, InPlay, Plays
<1>. QED
  BY <1>1, <1>2, <1>3, <1>4, <1>5, <1>6 DEF TeamOK, Plays

(* Every way into a team.                                                    *)
LEMMA AdmitKeeps ==
  ASSUME TeamsInv, OfTeams, NEW t \in TeamIds, NEW us \in SUBSET Users,
         OpenForPlayers(t), HasRoom(t, Cardinality(us)), \A u \in us : Able(u) /\ MayEnter(u, t),
         Admit(t, us), UNCHANGED <<account, focus>>
  PROVE  TeamsInv' /\ LockedStay
<1>. DEFINE row == team[t]
            list == Admitted(roster[t], us)
<1>1. IsTeam(t) /\ ~team[t].archived /\ ~Locked(t)
  BY DEF OpenForPlayers
<1>2. list \in Lists /\ Accepted(list) = Players(t) \cup us
  BY <1>1, TeamFacts, AdmittedOnes DEF Players
<1>. HIDE DEF list
<1>3. Cardinality(Accepted(list)) <= Size[row.game]
  <2>1. IsFiniteSet(us) /\ Cardinality(us) \in Nat
    BY FS_Subset, FS_CardinalityType
  <2>2. IsFiniteSet(Players(t)) /\ Strength(t) \in Nat /\ row \in TeamRows
    BY <1>1, TeamFacts
  <2>3. Cardinality(Players(t) \cup us) <= Cardinality(Players(t)) + Cardinality(us)
    <3>1. IsFiniteSet(Players(t) \cap us)
      BY <2>1, FS_Intersection
    <3>2. Cardinality(Players(t) \cap us) \in Nat
      BY <3>1, FS_CardinalityType
    <3>3. Cardinality(Players(t) \cup us) = Cardinality(Players(t)) + Cardinality(us) - Cardinality(Players(t) \cap us)
      BY <2>1, <2>2, FS_Union
    <3>. QED
      BY <2>1, <2>2, <3>2, <3>3 DEF Strength
  <2>4. Size[row.game] \in Nat
    BY <2>2 DEF TeamRows
  <2>5. Cardinality(Players(t) \cup us) \in Nat
    BY <2>1, <2>2, FS_Union, FS_CardinalityType
  <2>. QED
    BY <1>2, <2>1, <2>2, <2>3, <2>4, <2>5 DEF HasRoom, Strength
<1>4. FitsIn(t, row, list)
  BY <1>1, <1>2, <1>3, TeamFacts DEF FitsIn, Able, MayEnter
<1>5. KeepsInvites(t, row, list)
  <2>1. \A i \in invites' : i \in invites /\ (i.user \in us => i.team # t)
    BY DEF Admit, AfterJoin
  <2>. QED
    BY <1>2, <2>1 DEF KeepsInvites, TeamsInv, InviteOK, Plays
<1>6. /\ team' = [team EXCEPT ![t] = row] /\ roster' = [roster EXCEPT ![t] = list] /\ UNCHANGED <<current, cup>>
  BY DEF Admit, list, TeamsInv, TeamsTyped
<1>. QED
  BY <1>4, <1>5, <1>6, TeamChanges DEF MayEnterCup

LEMMA OneIsOne == \A u : Cardinality({u}) = 1
  BY FS_Singleton

LEMMA EntersKeep ==
  ASSUME TeamsInv, OfTeams, NEW t \in TeamIds, NEW u \in Users, UNCHANGED <<account, focus>>,
         JoinByCode(u, t) \/ AcceptApplication(u, t)
  PROVE  TeamsInv' /\ LockedStay
<1>. DEFINE us == {u}
<1>1. /\ OpenForPlayers(t) /\ HasRoom(t, 1) /\ Able(u) /\ MayEnter(u, t) /\ Admit(t, us)
  BY DEF JoinByCode, AcceptApplication
<1>2. us \in SUBSET Users /\ Cardinality(us) = 1 /\ \A v \in us : Able(v) /\ MayEnter(v, t)
  BY <1>1, OneIsOne
<1>. HIDE DEF us
<1>. QED
  BY <1>1, <1>2, AdmitKeeps

LEMMA AcceptInvitationKeeps ==
  ASSUME TeamsInv, OfTeams, NEW i \in invites, AcceptInvitation(i), UNCHANGED <<account, focus>>
  PROVE  TeamsInv' /\ LockedStay
<1>. DEFINE us == {i.user}
            t == i.team
<1>1. /\ OpenForPlayers(t) /\ HasRoom(t, 1) /\ Able(i.user) /\ MayEnter(i.user, t) /\ Admit(t, us)
  BY DEF AcceptInvitation, Recruits
<1>2. t \in TeamIds /\ i.user \in Users
  BY DEF TeamsInv, TeamsTyped
<1>3. us \in SUBSET Users /\ Cardinality(us) = 1 /\ \A v \in us : Able(v) /\ MayEnter(v, t)
  BY <1>1, <1>2, OneIsOne
<1>. HIDE DEF us, t
<1>. QED
  BY <1>1, <1>2, <1>3, AdmitKeeps

LEMMA AddClanMembersKeeps ==
  ASSUME TeamsInv, OfTeams, NEW t \in TeamIds, NEW us \in SUBSET Users, AddClanMembers(t, us),
         UNCHANGED <<account, focus>>
  PROVE  TeamsInv' /\ LockedStay
  BY AdmitKeeps DEF AddClanMembers, Recruits

LEMMA CreateTeamKeeps ==
  ASSUME TeamsInv, OfTeams, NEW t \in TeamIds, NEW u \in Users, NEW g \in DOMAIN Size, CreateTeam(u, t, g),
         UNCHANGED <<account, focus>>
  PROVE  TeamsInv' /\ LockedStay
<1>. DEFINE row == [game |-> g, captain |-> u, event |-> current, archived |-> FALSE, solo |-> FALSE,
                    emptied |-> FALSE]
            us == {u}
            list == Admitted(NobodyYet, us)
<1>1. /\ ~IsTeam(t) /\ Able(u) /\ ~Elsewhere(u, g, t)
      /\ team' = [team EXCEPT ![t] = row] /\ roster' = [roster EXCEPT ![t] = list]
      /\ invites' \subseteq invites /\ UNCHANGED <<current, cup>>
  BY DEF CreateTeam, AfterJoin
<1>2. us \in SUBSET Users /\ Cardinality(us) = 1 /\ us = {u}
  BY OneIsOne
<1>. HIDE DEF us
<1>3. list \in Lists /\ Accepted(list) = us
  BY <1>2, NobodyList, AdmittedOnes
<1>4. row \in TeamRows /\ Size[g] \in Nat \ {0}
  BY DEF TeamsInv, TeamsTyped, TeamRows
<1>5. \A c \in Cups : cup[c].status # "over" => t \notin cup[c].entries
  BY <1>1 DEF TeamsInv, EntryOK
<1>6. row.captain = u /\ row.game = g /\ Cardinality(Accepted(list)) <= Size[g]
  BY <1>2, <1>3, <1>4
<1>. HIDE DEF list
<1>7. FitsIn(t, row, list)
  BY <1>1, <1>2, <1>3, <1>4, <1>5, <1>6 DEF FitsIn, Able, Locked, InPlay
<1>8. KeepsInvites(t, row, list)
  BY <1>1 DEF KeepsInvites, TeamsInv, InviteOK
<1>. HIDE DEF row
<1>. QED
  BY <1>1, <1>7, <1>8, TeamChanges DEF MayEnterCup

(* The players and the row of a team stay as they are, whatever its          *)
(* applications become.                                                      *)
LEMMA SamePlayersFit ==
  ASSUME TeamsInv, NEW t \in TeamIds, IsTeam(t), NEW list \in Lists, Accepted(list) = Players(t)
  PROVE  FitsIn(t, team[t], list)
  BY TeamFacts DEF FitsIn, Strength

LEMMA SamePlayersKeep ==
  ASSUME TeamsInv, OfTeams, NEW t \in TeamIds, IsTeam(t), NEW list \in Lists, Accepted(list) = Players(t),
         roster' = [roster EXCEPT ![t] = list], UNCHANGED <<team, invites, cup, current, account, focus>>
  PROVE  TeamsInv' /\ LockedStay
<1>1. FitsIn(t, team[t], list)
  BY SamePlayersFit
<1>2. KeepsInvites(t, team[t], list)
  BY DEF KeepsInvites, TeamsInv, InviteOK, Plays
<1>3. team' = [team EXCEPT ![t] = team[t]]
  BY DEF TeamsInv, TeamsTyped
<1>. QED
  BY <1>1, <1>2, <1>3, TeamChanges DEF MayEnterCup

LEMMA ApplyKeeps ==
  ASSUME TeamsInv, OfTeams, NEW t \in TeamIds, NEW u \in Users, Apply(u, t), UNCHANGED <<account, focus>>
  PROVE  TeamsInv' /\ LockedStay
<1>. DEFINE list == With(roster[t], u, Line("pending", Cardinality(DOMAIN roster[t])))
<1>1. /\ IsTeam(t) /\ u \notin DOMAIN roster[t] /\ roster' = [roster EXCEPT ![t] = list]
      /\ UNCHANGED <<team, invites, cup, current>>
  BY DEF Apply, OpenForPlayers, HasRow, TeamsInv, TeamsTyped
<1>2. list \in Lists /\ Accepted(list) = Players(t)
  BY <1>1, TeamFacts, AppliedOne DEF Players
<1>. HIDE DEF list
<1>. QED
  BY <1>1, <1>2, SamePlayersKeep

LEMMA FewerPlayers ==
  ASSUME NEW t \in TeamIds, TeamsInv, IsTeam(t), NEW list \in Lists, Accepted(list) \subseteq Players(t)
  PROVE  Cardinality(Accepted(list)) \in Nat /\ Cardinality(Accepted(list)) <= Strength(t)
  BY TeamFacts, FS_Subset, FS_CardinalityType DEF Strength

(* One goes who is not the captain. *)
LEMMA PlayerGoes ==
  ASSUME TeamsInv, OfTeams, NEW t \in TeamIds, NEW u \in Users, IsTeam(t),
         u \notin Players(t) \/ (~Locked(t) /\ u # team[t].captain),
         roster' = [roster EXCEPT ![t] = Without(roster[t], u)],
         UNCHANGED <<team, invites, cup, current, account, focus>>
  PROVE  TeamsInv' /\ LockedStay
<1>. DEFINE list == Without(roster[t], u)
<1>1. /\ IsTeam(t) /\ roster' = [roster EXCEPT ![t] = list] /\ UNCHANGED <<team, invites, cup, current>>
      /\ u \notin Players(t) \/ (~Locked(t) /\ u # team[t].captain)
  OBVIOUS
<1>2. list \in Lists /\ Accepted(list) = Players(t) \ {u}
  BY <1>1, TeamFacts, WithoutPlayer DEF Players
<1>. HIDE DEF list
<1>3. CASE u \notin Players(t)
  BY <1>1, <1>2, <1>3, SamePlayersKeep
<1>4. CASE u \in Players(t)
  <2>1. Cardinality(Accepted(list)) <= Size[team[t].game]
    <3>1. /\ Cardinality(Accepted(list)) \in Nat /\ Cardinality(Accepted(list)) <= Strength(t)
      BY <1>1, <1>2, FewerPlayers
    <3>2. Strength(t) \in Nat /\ Strength(t) <= Size[team[t].game] /\ Size[team[t].game] \in Nat
      BY <1>1, TeamFacts DEF TeamRows
    <3>. QED
      BY <3>1, <3>2
  <2>2. FitsIn(t, team[t], list)
    <3>1. u # team[t].captain /\ ~Locked(t) /\ Accepted(list) \subseteq Players(t)
      BY <1>1, <1>2, <1>4
    <3>2. team[t].captain \in Accepted(list) \/ team[t].emptied
      BY <1>1, <1>2, <3>1, TeamFacts
    <3>. QED
      BY <1>1, <1>2, <2>1, <3>1, <3>2, TeamFacts DEF FitsIn
  <2>3. KeepsInvites(t, team[t], list)
    BY <1>1, <1>2 DEF KeepsInvites, TeamsInv, InviteOK, Plays
  <2>4. team' = [team EXCEPT ![t] = team[t]]
    BY <1>1 DEF TeamsInv, TeamsTyped
  <2>. QED
    BY <1>1, <2>2, <2>3, <2>4, TeamChanges DEF MayEnterCup
<1>. QED
  BY <1>3, <1>4

LEMMA DismissKeeps ==
  ASSUME TeamsInv, OfTeams, NEW t \in TeamIds, NEW u \in Users, Dismiss(u, t), UNCHANGED <<account, focus>>
  PROVE  TeamsInv' /\ LockedStay
<1>1. /\ IsTeam(t) /\ roster' = [roster EXCEPT ![t] = Without(roster[t], u)]
      /\ UNCHANGED <<team, invites, cup, current>>
      /\ u \notin Players(t) \/ (~Locked(t) /\ u # team[t].captain)
  BY DEF Dismiss, TeamsInv, TeamsTyped, Applied, Plays
<1>. QED
  BY <1>1, PlayerGoes

(* Team.delete: the team goes with its rows, its invitations and its         *)
(* entries.                                                                  *)
LEMMA TeamGoes ==
  ASSUME TeamsInv, OfTeams, NEW t \in TeamIds, ~Locked(t),
         team' = [team EXCEPT ![t] = NoOne], roster' = [roster EXCEPT ![t] = NobodyYet],
         invites' = {i \in invites : i.team # t},
         cup' = [c \in Cups |-> [cup[c] EXCEPT !.entries = @ \ {t}]],
         UNCHANGED <<current, account, focus>>
  PROVE  TeamsInv' /\ LockedStay
<1>. USE DEF TeamsTyped
<1>1. /\ team' \in [TeamIds -> TeamRows \cup {NoOne}] /\ roster' \in [TeamIds -> Lists] /\ team'[t] = NoOne
      /\ \A s \in TeamIds \ {t} : team'[s] = team[s] /\ roster'[s] = roster[s]
  BY NobodyList DEF TeamsInv
<1>2. /\ cup' \in [Cups -> CupRows]
      /\ \A c \in Cups : cup'[c].status = cup[c].status /\ cup'[c].entries = cup[c].entries \ {t}
  BY DEF TeamsInv, CupRows
<1>3. \A s \in TeamIds \ {t} : Players(s)' = Players(s)
  BY <1>1 DEF Players, Accepted
<1>10. roster'[t] = NobodyYet /\ Players(t)' = {}
  BY NobodyList DEF TeamsInv, Players, Accepted
<1>4. TeamsTyped'
  BY <1>1, <1>2 DEF TeamsInv
<1>5. \A s \in TeamIds : TeamOK(s)'
  BY <1>1, <1>3, <1>10 DEF TeamsInv, TeamOK, IsTeam, Plays, Strength
<1>6. OneTeamPerGame'
  BY <1>1, <1>3 DEF TeamsInv, OneTeamPerGame, IsTeam
<1>7. ASSUME NEW c \in Cups, cup'[c].status # "over", NEW s \in cup'[c].entries
      PROVE  EntryOK(c, s)'
  <2>1. s \in TeamIds \ {t} /\ EntryOK(c, s)
    BY <1>2, <1>7 DEF TeamsInv, CupRows
  <2>. QED
    BY <1>1, <1>2, <1>3, <2>1 DEF EntryOK, Bound, IsTeam, InPlay, Plays, Strength, SizeAllowed
<1>8. ASSUME NEW i \in invites'
      PROVE  InviteOK(i)'
  <2>1. i \in invites /\ InviteOK(i) /\ i.team \in TeamIds \ {t}
    BY DEF TeamsInv
  <2>2. \A c \in Cups : InPlay(c)' => i.team \notin cup'[c].entries
    BY <1>2, <2>1 DEF InviteOK, InPlay
  <2>3. team'[i.team] = team[i.team] /\ Players(i.team)' = Players(i.team)
    BY <1>1, <1>3, <2>1
  <2>. QED
    BY <2>1, <2>2, <2>3 DEF InviteOK, IsTeam, Plays
<1>9. LockedStay
  <2>. SUFFICES ASSUME NEW c \in Cups, InPlay(c), NEW s \in cup[c].entries
                PROVE  /\ s \in cup'[c].entries
                       /\ Players(s)' = Players(s) /\ team'[s].captain = team[s].captain
    BY DEF LockedStay
  <2>1. s \in TeamIds \ {t}
    BY DEF Locked, TeamsInv, CupRows
  <2>. QED
    BY <1>1, <1>2, <1>3, <2>1
<1>. QED
  BY <1>4, <1>5, <1>6, <1>7, <1>8, <1>9 DEF TeamsInv, OfTeams

(* The row is kept for the standings of a Swiss tournament.                  *)
LEMMA TeamEmptied ==
  ASSUME TeamsInv, OfTeams, NEW t \in TeamIds, IsTeam(t), ~Locked(t), NEW list \in Lists, Accepted(list) = {},
         team' = [team EXCEPT ![t].archived = TRUE, ![t].emptied = TRUE], roster' = [roster EXCEPT ![t] = list],
         \A i \in invites' : i \in invites /\ i.team # t, UNCHANGED <<cup, current, account, focus>>
  PROVE  TeamsInv' /\ LockedStay
<1>. DEFINE shelved == [team[t] EXCEPT !.archived = TRUE]
            row == [shelved EXCEPT !.emptied = TRUE]
<1>1. team[t] \in TeamRows
  BY TeamFacts
<1>2. shelved \in TeamRows /\ shelved.captain = team[t].captain /\ shelved.event = team[t].event /\ shelved.archived
  BY <1>1 DEF TeamRows
<1>3. row \in TeamRows /\ row.event = team[t].event /\ row.archived /\ row.emptied
  <2>. HIDE DEF shelved
  <2>. QED
    BY <1>2 DEF TeamRows
<1>4. team' = [team EXCEPT ![t] = row]
  BY <1>1 DEF TeamsInv, TeamsTyped, TeamRows
<1>. HIDE DEF row, shelved
<1>5. Size[row.game] \in Nat /\ Cardinality(Accepted(list)) = 0
  BY <1>3, FS_EmptySet DEF TeamRows
<1>6. FitsIn(t, row, list)
  BY <1>3, <1>5, TeamFacts DEF FitsIn, Locked
<1>7. KeepsInvites(t, row, list)
  BY DEF KeepsInvites
<1>. QED
  BY <1>4, <1>6, <1>7, TeamChanges DEF MayEnterCup

LEMMA LeaveTeamKeeps ==
  ASSUME TeamsInv, OfTeams, NEW t \in TeamIds, NEW u \in Users, LeaveTeam(u, t, Without(roster[t], u)),
         UNCHANGED <<account, focus>>
  PROVE  TeamsInv' /\ LockedStay
<1>. DEFINE rest == Without(roster[t], u)
            heir == Oldest(rest, Accepted(rest))
<1>1. IsTeam(t) /\ Able(u) /\ UNCHANGED current
  BY DEF LeaveTeam
<1>2. rest \in Lists /\ Accepted(rest) = Players(t) \ {u}
  BY <1>1, TeamFacts, WithoutPlayer DEF Players
<1>3. u \in Players(t) => ~Locked(t)
  <2>1. u \in Players(t) /\ Locked(t) => Strength(t) - 1 >= Size[team[t].game]
    BY DEF LeaveTeam, Plays
  <2>2. Strength(t) \in Nat /\ Size[team[t].game] \in Nat /\ Strength(t) <= Size[team[t].game]
    BY <1>1, TeamFacts DEF TeamRows
  <2>. QED
    BY <2>1, <2>2
<1>4. CASE Accepted(rest) = {} /\ Deleted(t, rest)
  <2>1. ~Locked(t)
    <3>1. Locked(t) => u \in Players(t)
      BY <1>1, <1>2, <1>4, TeamFacts
    <3>. QED
      BY <1>3, <3>1
  <2>2. CASE /\ team' = [team EXCEPT ![t] = NoOne] /\ roster' = [roster EXCEPT ![t] = NobodyYet]
             /\ cup' = [c \in Cups |-> [cup[c] EXCEPT !.entries = @ \ {t}]]
    BY <1>1, <1>4, <2>1, <2>2, TeamGoes DEF Deleted
  <2>3. CASE /\ team' = [team EXCEPT ![t].archived = TRUE, ![t].emptied = TRUE]
             /\ roster' = [roster EXCEPT ![t] = rest] /\ UNCHANGED cup
    <3>. HIDE DEF rest
    <3>1. Accepted(rest) = {} /\ \A i \in invites' : i \in invites /\ i.team # t
      BY <1>4 DEF Deleted
    <3>. QED
      BY <1>1, <1>2, <2>1, <2>3, <3>1, TeamEmptied
  <2>. QED
    BY <1>4, <2>2, <2>3 DEF Deleted
<1>5. CASE u # team[t].captain /\ roster' = [roster EXCEPT ![t] = rest] /\ UNCHANGED <<team, invites, cup>>
  BY <1>1, <1>3, <1>5, PlayerGoes
<1>6. CASE /\ Accepted(rest) # {} /\ u = team[t].captain /\ team' = [team EXCEPT ![t].captain = heir]
           /\ roster' = [roster EXCEPT ![t] = rest] /\ invites' = AfterHandover(invites, t, heir) /\ UNCHANGED cup
  <2>. DEFINE row == [team[t] EXCEPT !.captain = heir]
  <2>1. \A v \in Accepted(rest) : rest[v].place \in Nat
    BY <1>2, ListOf DEF Lines
  <2>2. heir \in Accepted(rest)
    <3>. HIDE DEF rest
    <3>. QED
      BY <1>6, <2>1, OldestIsOne
  <2>. HIDE DEF heir, rest
  <2>3. /\ row \in TeamRows /\ row.captain = heir /\ row.game = team[t].game /\ row.event = team[t].event
        /\ row.emptied = team[t].emptied /\ row.archived = team[t].archived /\ team' = [team EXCEPT ![t] = row]
  BY <1>1, <1>2, <1>6, <2>2, TeamFacts DEF TeamRows, TeamsInv, TeamsTyped
  <2>. HIDE DEF row
  <2>4. Cardinality(Accepted(rest)) <= Size[team[t].game]
    <3>1. /\ Cardinality(Accepted(rest)) \in Nat /\ Cardinality(Accepted(rest)) <= Strength(t)
      BY <1>1, <1>2, FewerPlayers
    <3>2. Strength(t) \in Nat /\ Strength(t) <= Size[team[t].game] /\ Size[team[t].game] \in Nat
      BY <1>1, TeamFacts DEF TeamRows
    <3>. QED
      BY <3>1, <3>2
  <2>5. ~Locked(t)
    BY <1>1, <1>3, <1>6, TeamFacts
  <2>6. FitsIn(t, row, rest)
    BY <1>1, <1>2, <2>2, <2>3, <2>4, <2>5, TeamFacts DEF FitsIn, Bound
  <2>7. KeepsInvites(t, row, rest)
    <3>1. invites' \subseteq invites
      BY <1>6 DEF AfterHandover, AfterSave, AfterJoin
    <3>2. \A i \in invites : i.team = t => ~team[t].archived /\ i.user \notin Players(t)
      BY DEF TeamsInv, InviteOK, Plays
    <3>. QED
      BY <1>2, <2>3, <3>1, <3>2 DEF KeepsInvites
  <2>. QED
    BY <1>1, <1>6, <2>3, <2>6, <2>7, TeamChanges DEF MayEnterCup
<1>. QED
  BY <1>4, <1>5, <1>6 DEF LeaveTeam

LEMMA ReactivateKeeps ==
  ASSUME TeamsInv, OfTeams, NEW t \in TeamIds, NEW g \in DOMAIN Size, NEW keep, Reactivate(t, g, keep),
         UNCHANGED <<account, focus>>
  PROVE  TeamsInv' /\ LockedStay
<1>. DEFINE row == [team[t] EXCEPT !.event = current, !.archived = FALSE, !.game = g]
            us == {team[t].captain} \cup {u \in keep : ~Elsewhere(u, g, t)}
            list == Only(roster[t], us)
<1>1. /\ IsTeam(t) /\ team[t].archived /\ ~Locked(t) /\ ~Elsewhere(team[t].captain, g, t)
      /\ Cardinality(Accepted(list)) <= Size[g] /\ roster' = [roster EXCEPT ![t] = list]
      /\ invites' = {i \in invites : i.team # t} /\ UNCHANGED <<current, cup>>
  BY DEF Reactivate, Kept
<1>2. /\ row \in TeamRows /\ row.captain = team[t].captain /\ row.game = g /\ ~row.archived
      /\ row.event # NoOne /\ row.emptied = team[t].emptied
      /\ team' = [team EXCEPT ![t] = row]
  BY <1>1, TeamFacts DEF Reactivate, TeamRows, TeamsInv, TeamsTyped
<1>3. /\ team[t].captain \in us /\ \A u \in us : ~Elsewhere(u, g, t)
  BY <1>1
<1>. HIDE DEF row, us
<1>4. list \in Lists /\ Accepted(list) = Players(t) \cap us
  BY <1>1, TeamFacts, OnlyPlayers DEF Players
<1>. HIDE DEF list
<1>5. \A c \in Cups : cup[c].status # "over" /\ t \in cup[c].entries => ~InPlay(c) /\ team[t].emptied
  BY <1>1 DEF TeamsInv, EntryOK, Bound
<1>6. FitsIn(t, row, list)
  BY <1>1, <1>2, <1>3, <1>4, <1>5, TeamFacts DEF FitsIn
<1>7. KeepsInvites(t, row, list)
  BY <1>1 DEF KeepsInvites
<1>. QED
  BY <1>1, <1>2, <1>6, <1>7, TeamChanges DEF MayEnterCup

LEMMA RegisterTeamKeeps ==
  ASSUME TeamsInv, OfTeams, NEW t \in TeamIds, NEW c \in Cups, RegisterTeam(c, t), UNCHANGED <<account, focus>>
  PROVE  TeamsInv' /\ LockedStay
<1>. DEFINE row == [team[t] EXCEPT !.event = EventOf(c)]
<1>1. /\ IsTeam(t) /\ ~team[t].archived /\ cup[c].status = "open"
      /\ team[t].game = GameOf(c) /\ team[t].event \in {NoOne, EventOf(c)}
      /\ team' = [team EXCEPT ![t] = row] /\ cup' = [cup EXCEPT ![c].entries = @ \cup {t}]
      /\ invites' \subseteq invites /\ UNCHANGED <<roster, current>>
  BY DEF RegisterTeam, CupTakes, EnterCup, AfterSave
<1>2. /\ row \in TeamRows /\ row.captain = team[t].captain /\ row.game = team[t].game /\ ~row.archived
      /\ row.event = EventOf(c) /\ EventOf(c) # NoOne /\ row.emptied = team[t].emptied
  BY <1>1, TeamFacts DEF TeamRows, Events
<1>. HIDE DEF row
<1>3. roster[t] \in Lists /\ Accepted(roster[t]) = Players(t) /\ roster' = [roster EXCEPT ![t] = roster[t]]
  BY <1>1, TeamFacts DEF Players, TeamsInv, TeamsTyped
<1>4. \A d \in Cups : cup[d].status # "over" /\ t \in cup[d].entries =>
        team[t].event = EventOf(c) /\ (InPlay(d) \/ ~row.emptied => Bound(row, d))
  BY <1>1, <1>2, TeamFacts DEF Bound
<1>5. FitsIn(t, row, roster[t])
  BY <1>1, <1>2, <1>3, <1>4, TeamFacts DEF FitsIn, Strength
<1>6. KeepsInvites(t, row, roster[t])
  BY <1>1, <1>2, <1>3 DEF KeepsInvites, TeamsInv, InviteOK, Plays
<1>7. MayEnterCup(t, row)
  BY <1>1, <1>2 DEF MayEnterCup, Bound
<1>. QED
  BY <1>1, <1>3, <1>5, <1>6, <1>7, TeamChanges

(* The team that plays for one user: it is theirs alone, or new.             *)
LEMMA SoloTeamOf ==
  ASSUME TeamsInv, NEW u \in Users, NEW c \in Cups, NEW t \in TeamIds, SoloTeam(u, c, t),
         IsTeam(t) => Movable(t, EventOf(c))
  PROVE  /\ ~Elsewhere(u, GameOf(c), t)
         /\ IsTeam(t) => /\ team[t].game = GameOf(c) /\ team[t].captain = u /\ Players(t) \subseteq {u}
                         /\ \A d \in Cups : cup[d].status # "over" /\ t \in cup[d].entries =>
                              (InPlay(d) \/ ~team[t].emptied => EventOf(d) = EventOf(c))
<1>. DEFINE active == {s \in OwnTeams(u, GameOf(c)) : ~team[s].archived}
<1>1. active \subseteq {t}
  BY DEF SoloTeam
<1>2. ~Elsewhere(u, GameOf(c), t)
  BY <1>1 DEF Elsewhere, OwnTeams
<1>3. ASSUME IsTeam(t)
      PROVE  team[t].game = GameOf(c) /\ team[t].captain = u
  <2>1. CASE active = {t} /\ team[t].captain = u
    BY <2>1 DEF OwnTeams
  <2>2. CASE t \in SoloArchive(u, c)
    BY <2>2 DEF SoloArchive, OwnTeams
  <2>. QED
    BY <1>3, <2>1, <2>2 DEF SoloTeam
<1>4. ASSUME IsTeam(t)
      PROVE  Players(t) \subseteq {u}
  BY <1>3, <1>4, TeamFacts DEF Movable
<1>5. ASSUME IsTeam(t), NEW d \in Cups, cup[d].status # "over", t \in cup[d].entries, InPlay(d) \/ ~team[t].emptied
      PROVE  EventOf(d) = EventOf(c)
  <2>1. team[t].event = EventOf(d)
    BY <1>5, TeamFacts DEF Bound
  <2>. QED
    BY <1>5, <2>1 DEF Movable
<1>. QED
  BY <1>2, <1>3, <1>4, <1>5

LEMMA RegisterSoloKeeps ==
  ASSUME TeamsInv, OfTeams, NEW t \in TeamIds, NEW c \in Cups, NEW u \in Users, RegisterSolo(u, c, t),
         UNCHANGED <<account, focus>>
  PROVE  TeamsInv' /\ LockedStay
<1>. DEFINE row == [game |-> GameOf(c), captain |-> u, event |-> EventOf(c), archived |-> FALSE,
                    solo |-> IsTeam(t) => team[t].solo, emptied |-> IsTeam(t) /\ team[t].emptied]
            us == {u}
            list == Admitted(roster[t], us)
<1>1. /\ Size[GameOf(c)] = 1 /\ Able(u) /\ cup[c].status = "open" /\ SoloTeam(u, c, t)
      /\ IsTeam(t) => Movable(t, EventOf(c))
      /\ team' = [team EXCEPT ![t] = row] /\ roster' = [roster EXCEPT ![t] = list]
      /\ cup' = [cup EXCEPT ![c].entries = @ \cup {t}] /\ UNCHANGED current
      /\ \A i \in invites' : i \in invites /\ (i.user = u => i.team # t)
  BY DEF RegisterSolo, CupTakes, EnterCup, AfterSave, AfterJoin, TeamsInv, TeamsTyped
<1>2. us \in SUBSET Users /\ us = {u} /\ Cardinality(us) = 1
  BY OneIsOne
<1>3. /\ row \in TeamRows /\ row.captain = u /\ row.game = GameOf(c) /\ row.event = EventOf(c) /\ ~row.archived
      /\ EventOf(c) # NoOne /\ (IsTeam(t) => row.emptied = team[t].emptied)
  <2>1. (IsTeam(t) => team[t].solo) \in BOOLEAN /\ (IsTeam(t) /\ team[t].emptied) \in BOOLEAN
    BY Zenon
  <2>2. row \in TeamRows /\ EventOf(c) # NoOne
    BY <2>1 DEF TeamRows, Events
  <2>3. IsTeam(t) => team[t].emptied \in BOOLEAN
    BY TeamFacts DEF TeamRows
  <2>. QED
    BY <2>2, <2>3
<1>. HIDE DEF us, row
<1>4. list \in Lists /\ Accepted(list) = Players(t) \cup us
  BY <1>2, AdmittedOnes DEF Players, TeamsInv, TeamsTyped
<1>. HIDE DEF list
<1>5. Players(t) \subseteq {u}
  BY <1>1, SoloTeamOf DEF TeamsInv, TeamOK
<1>6. Accepted(list) = {u}
  BY <1>2, <1>4, <1>5
<1>7. Locked(t) => Players(t) = {u} /\ team[t].captain = u
  <2>1. Locked(t) => IsTeam(t)
    BY DEF Locked, InPlay, TeamsInv, EntryOK
  <2>2. IsTeam(t) => Players(t) \subseteq {u} /\ team[t].captain = u
    BY <1>1, SoloTeamOf
  <2>. QED
    BY <2>1, <2>2, TeamFacts
<1>8. ASSUME NEW d \in Cups, cup[d].status # "over", t \in cup[d].entries
      PROVE  row.event # NoOne /\ (InPlay(d) \/ ~row.emptied => Bound(row, d))
  <2>1. IsTeam(t) /\ (InPlay(d) \/ ~team[t].emptied => Bound(team[t], d))
    BY <1>8 DEF TeamsInv, EntryOK
  <2>2. team[t].game = GameOf(c) /\ (InPlay(d) \/ ~team[t].emptied => EventOf(d) = EventOf(c))
    BY <1>1, <1>8, <2>1, SoloTeamOf
  <2>. QED
    BY <1>3, <2>1, <2>2 DEF Bound
<1>9. FitsIn(t, row, list)
  <2>1. Cardinality(Accepted(list)) <= Size[row.game]
    <3>1. Cardinality(Accepted(list)) = 1
      BY <1>6, OneIsOne
    <3>2. Size[row.game] = 1
      BY <1>1, <1>3
    <3>. QED
      BY <3>1, <3>2
  <2>2. \A v \in Accepted(list) : ~Elsewhere(v, row.game, t)
    BY <1>1, <1>3, <1>6, SoloTeamOf
  <2>. QED
    BY <1>3, <1>4, <1>6, <1>7, <1>8, <2>1, <2>2 DEF FitsIn
<1>10. KeepsInvites(t, row, list)
  BY <1>1, <1>3, <1>6 DEF KeepsInvites
<1>11. MayEnterCup(t, row)
  BY <1>1, <1>3 DEF MayEnterCup, Bound
<1>. QED
  BY <1>1, <1>9, <1>10, <1>11, TeamChanges

(* The teams stay as they are; tournaments go on, and invitations come and   *)
(* go.                                                                       *)
InvitesFit ==
  \A i \in invites' :
    /\ i.team \in TeamIds /\ i.user \in Users
    /\ IsTeam(i.team) /\ ~team[i.team].archived
    /\ ~Plays(i.user, i.team) /\ ~account[i.user].deleted
    /\ \A c \in Cups : InPlay(c)' => i.team \notin cup'[c].entries

LEMMA TeamsStay ==
  ASSUME TeamsInv, OfTeams, UNCHANGED <<team, roster, account, focus>>, current' \in Events \cup {NoOne},
         cup' \in [Cups -> CupRows], InvitesFit,
         \A c \in Cups : cup'[c].status # "over" =>
           /\ cup[c].status # "over" /\ cup'[c].entries \subseteq cup[c].entries
           /\ InPlay(c)' => InPlay(c) \/ \A t \in cup[c].entries : Fit(t, c),
         \A c \in Cups : InPlay(c) => cup'[c].entries = cup[c].entries
  PROVE  TeamsInv' /\ LockedStay
<1>1. TeamsTyped'
  BY DEF TeamsTyped, TeamsInv, InvitesFit
<1>2. \A t \in TeamIds : Players(t)' = Players(t)
  BY DEF Players, Accepted
<1>3. \A t \in TeamIds : TeamOK(t)'
  BY <1>2 DEF TeamsInv, TeamOK, IsTeam, Plays, Strength
<1>4. OneTeamPerGame'
  BY <1>2 DEF TeamsInv, OneTeamPerGame, IsTeam
<1>5. ASSUME NEW c \in Cups, cup'[c].status # "over", NEW t \in cup'[c].entries
      PROVE  EntryOK(c, t)'
  <2>1. /\ t \in cup[c].entries /\ EntryOK(c, t) /\ t \in TeamIds
        /\ InPlay(c)' => InPlay(c) \/ Fit(t, c)
    BY <1>5 DEF TeamsInv, TeamsTyped, CupRows
  <2>2. Fit(t, c) => Bound(team[t], c) /\ SizeAllowed(c, Strength(t), TRUE) /\ Plays(team[t].captain, t)
    BY <2>1 DEF Fit, EntryOK, Bound
  <2>3. /\ InPlay(c)' => SizeAllowed(c, Strength(t), TRUE) /\ Plays(team[t].captain, t)
        /\ InPlay(c)' \/ ~team[t].emptied => Bound(team[t], c)
    BY <2>1, <2>2 DEF EntryOK
  <2>. QED
    BY <1>2, <2>1, <2>3 DEF EntryOK, Bound, IsTeam, Plays, Strength, SizeAllowed
<1>6. \A i \in invites' : InviteOK(i)'
  BY <1>2 DEF InvitesFit, InviteOK, IsTeam, Plays
<1>7. LockedStay
  BY <1>2 DEF LockedStay, TeamsInv, TeamsTyped, CupRows
<1>. QED
  BY <1>1, <1>3, <1>4, <1>5, <1>6, <1>7 DEF TeamsInv, OfTeams

(* The invitations that were there fit, where no tournament begins.          *)
LEMMA OldInvitesFit ==
  ASSUME TeamsInv, NEW i \in invites, \A c \in Cups : InPlay(c)' => InPlay(c) /\ cup'[c].entries = cup[c].entries
  PROVE  /\ i.team \in TeamIds /\ i.user \in Users
         /\ IsTeam(i.team) /\ ~team[i.team].archived
         /\ ~Plays(i.user, i.team) /\ ~account[i.user].deleted
         /\ \A c \in Cups : InPlay(c)' => i.team \notin cup'[c].entries
  BY DEF TeamsInv, TeamsTyped, InviteOK

LEMMA InviteKeeps ==
  ASSUME TeamsInv, OfTeams, NEW t \in TeamIds, NEW u \in Users, Invite(u, t), UNCHANGED <<account, focus>>
  PROVE  TeamsInv' /\ LockedStay
<1>. DEFINE i == [team |-> t, user |-> u, event |-> current]
<1>1. /\ Recruits(t) /\ Able(u) /\ MayEnter(u, t) /\ invites' \subseteq invites \cup {i}
      /\ UNCHANGED <<team, roster, current, cup>>
  BY DEF Invite
<1>2. \A c \in Cups : InPlay(c)' = InPlay(c)
  BY <1>1 DEF InPlay
<1>3. ASSUME NEW j \in invites'
      PROVE  /\ j.team \in TeamIds /\ j.user \in Users
             /\ IsTeam(j.team) /\ ~team[j.team].archived
             /\ ~Plays(j.user, j.team) /\ ~account[j.user].deleted
             /\ \A c \in Cups : InPlay(c)' => j.team \notin cup'[c].entries
  <2>1. CASE j \in invites
    BY <1>1, <1>2, <2>1, OldInvitesFit
  <2>2. CASE j = i
    <3>1. j.team = t /\ j.user = u
      BY <2>2
    <3>. QED
      BY <1>1, <1>2, <3>1 DEF Recruits, OpenForPlayers, MayEnter, Able, Locked
  <2>. QED
    BY <1>1, <2>1, <2>2
<1>4. InvitesFit
  BY <1>3 DEF InvitesFit
<1>. QED
  BY <1>1, <1>2, <1>4, TeamsStay DEF TeamsInv, TeamsTyped

LEMMA EventsKeep ==
  ASSUME TeamsInv, OfTeams, UNCHANGED <<team, roster, cup, account, focus>>,
         invites' \subseteq invites, current' \in Events \cup {NoOne}
  PROVE  TeamsInv' /\ LockedStay
<1>1. \A c \in Cups : InPlay(c)' = InPlay(c)
  BY DEF InPlay
<1>2. InvitesFit
  BY <1>1, OldInvitesFit DEF InvitesFit
<1>. QED
  BY <1>1, <1>2, TeamsStay DEF TeamsInv, TeamsTyped

LEMMA UnregisterKeeps ==
  ASSUME TeamsInv, OfTeams, NEW t \in TeamIds, NEW c \in Cups, Unregister(c, t), UNCHANGED <<account, focus>>
  PROVE  TeamsInv' /\ LockedStay
<1>1. /\ cup[c].status = "open" /\ cup' = [cup EXCEPT ![c].entries = @ \ {t}]
      /\ UNCHANGED <<team, roster, invites, current>>
  BY DEF Unregister
<1>2. /\ cup' \in [Cups -> CupRows] /\ cup'[c].status = "open" /\ cup'[c].entries = cup[c].entries \ {t}
      /\ \A d \in Cups \ {c} : cup'[d] = cup[d]
  BY <1>1 DEF TeamsInv, TeamsTyped, CupRows
<1>3. \A d \in Cups : InPlay(d)' = InPlay(d) /\ (InPlay(d) => cup'[d].entries = cup[d].entries)
  BY <1>1, <1>2 DEF InPlay
<1>4. InvitesFit
  BY <1>1, <1>3, OldInvitesFit DEF InvitesFit
<1>5. \A d \in Cups : cup'[d].status # "over" => cup[d].status # "over" /\ cup'[d].entries \subseteq cup[d].entries
  BY <1>1, <1>2
<1>. QED
  BY <1>1, <1>2, <1>3, <1>4, <1>5, TeamsStay DEF TeamsInv, TeamsTyped

(* The row of a tournament that starts, goes on or ends.                     *)
LEMMA CupMoves ==
  ASSUME TeamsInv, NEW c \in Cups, NEW s \in CupStates, NEW rounds \in BOOLEAN,
         cup' = [cup EXCEPT ![c].status = s, ![c].rounds = rounds]
  PROVE  /\ cup' \in [Cups -> CupRows] /\ cup'[c].status = s /\ cup'[c].entries = cup[c].entries
         /\ \A d \in Cups \ {c} : cup'[d] = cup[d]
<1>. DEFINE moved == [cup[c] EXCEPT !.status = s]
            row == [moved EXCEPT !.rounds = rounds]
<1>1. cup \in [Cups -> CupRows] /\ cup[c] \in CupRows
  BY DEF TeamsInv, TeamsTyped
<1>2. moved \in CupRows /\ moved.status = s /\ moved.entries = cup[c].entries
  BY <1>1 DEF CupRows
<1>3. row \in CupRows /\ row.status = s /\ row.entries = cup[c].entries
  <2>. HIDE DEF moved
  <2>. QED
    BY <1>2 DEF CupRows
<1>4. cup' = [cup EXCEPT ![c] = row]
  BY <1>1 DEF CupRows
<1>. HIDE DEF row, moved
<1>. QED
  BY <1>1, <1>3, <1>4

LEMMA StartCupKeeps ==
  ASSUME TeamsInv, OfTeams, NEW c \in Cups, StartCup(c), UNCHANGED <<account, focus>>
  PROVE  TeamsInv' /\ LockedStay
<1>1. /\ cup[c].status = "open" /\ cup' = [cup EXCEPT ![c].status = "running", ![c].rounds = c \in SwissCups]
      /\ invites' = {i \in invites : i.team \notin cup[c].entries}
      /\ UNCHANGED <<team, roster, current>>
      /\ \A t \in cup[c].entries : Fit(t, c)
  BY DEF StartCup
<1>2. /\ cup' \in [Cups -> CupRows] /\ cup'[c].status = "running" /\ cup'[c].entries = cup[c].entries
      /\ \A d \in Cups \ {c} : cup'[d] = cup[d]
  <2>1. "running" \in CupStates /\ (c \in SwissCups) \in BOOLEAN
    BY DEF CupStates
  <2>. QED
    BY <1>1, <2>1, CupMoves
<1>3. \A d \in Cups \ {c} : InPlay(d)' = InPlay(d)
  BY <1>2 DEF InPlay
<1>4. InvitesFit
  <2>. SUFFICES ASSUME NEW i \in invites'
                PROVE  /\ i.team \in TeamIds /\ i.user \in Users
                       /\ IsTeam(i.team) /\ ~team[i.team].archived
                       /\ ~Plays(i.user, i.team) /\ ~account[i.user].deleted
                       /\ \A d \in Cups : InPlay(d)' => i.team \notin cup'[d].entries
    BY DEF InvitesFit
  <2>1. i \in invites /\ i.team \notin cup[c].entries
    BY <1>1
  <2>. QED
    BY <1>2, <1>3, <2>1 DEF TeamsInv, TeamsTyped, InviteOK
<1>5. \A d \in Cups : cup'[d].status # "over" =>
        /\ cup[d].status # "over" /\ cup'[d].entries \subseteq cup[d].entries
        /\ InPlay(d)' => InPlay(d) \/ \A t \in cup[d].entries : Fit(t, d)
  BY <1>1, <1>2, <1>3
<1>. QED
  BY <1>1, <1>2, <1>4, <1>5, TeamsStay DEF TeamsInv, TeamsTyped

LEMMA ProceedCupKeeps ==
  ASSUME TeamsInv, OfTeams, NEW c \in Cups, ProceedCup(c), UNCHANGED <<account, focus>>
  PROVE  TeamsInv' /\ LockedStay
<1>1. PICK s \in CupStates, rounds \in BOOLEAN :
           /\ cup[c].status # "over" /\ cup' = [cup EXCEPT ![c].status = s, ![c].rounds = rounds]
           /\ s = "over" \/ InPlay(c)
  <2>1. CASE InPlay(c) /\ \E s \in {"open", "running", "review"} \ {cup[c].status} :
                           cup' = [cup EXCEPT ![c].status = s, ![c].rounds = (s # "open" /\ c \in SwissCups)]
    <3>1. PICK s \in {"open", "running", "review"} :
                 cup' = [cup EXCEPT ![c].status = s, ![c].rounds = (s # "open" /\ c \in SwissCups)]
      BY <2>1
    <3>2. (s # "open" /\ c \in SwissCups) \in BOOLEAN /\ s \in CupStates /\ cup[c].status # "over"
      BY <2>1 DEF CupStates, InPlay
    <3>. QED
      BY <2>1, <3>1, <3>2
  <2>2. CASE cup[c].status # "over" /\ cup' = [cup EXCEPT ![c].status = "over"]
    <3>1. cup \in [Cups -> CupRows] /\ cup[c] \in CupRows /\ "over" \in CupStates
      BY DEF TeamsInv, TeamsTyped, CupStates
    <3>2. cup[c].rounds \in BOOLEAN
      BY <3>1 DEF CupRows
    <3>3. cup' = [cup EXCEPT ![c].status = "over", ![c].rounds = cup[c].rounds]
      BY <2>2, <3>1 DEF CupRows
    <3>. QED
      BY <2>2, <3>1, <3>2, <3>3
  <2>. QED
    BY <2>1, <2>2 DEF ProceedCup
<1>2. UNCHANGED <<team, roster, invites, current>>
  BY DEF ProceedCup
<1>3. /\ cup' \in [Cups -> CupRows] /\ cup'[c].status = s /\ cup'[c].entries = cup[c].entries
      /\ \A d \in Cups \ {c} : cup'[d] = cup[d]
  BY <1>1, CupMoves
<1>4. \A d \in Cups : cup'[d].entries = cup[d].entries /\ (InPlay(d)' => InPlay(d))
  BY <1>1, <1>3 DEF InPlay
<1>5. InvitesFit
  BY <1>2, <1>4, OldInvitesFit DEF InvitesFit
<1>6. \A d \in Cups : cup'[d].status # "over" => cup[d].status # "over"
  BY <1>1, <1>3
<1>. QED
  BY <1>2, <1>3, <1>4, <1>5, <1>6, TeamsStay DEF TeamsInv, TeamsTyped

LEMMA FinishEventKeeps ==
  ASSUME TeamsInv, OfTeams, NEW e \in Events, FinishEvent(e), UNCHANGED <<account, focus>>
  PROVE  TeamsInv' /\ LockedStay
<1>. USE DEF TeamsTyped
<1>. DEFINE gone == ArchivedWith(e)
            row(t) == IF t \in gone THEN [team[t] EXCEPT !.archived = TRUE, !.event = e] ELSE team[t]
<1>1. /\ \A c \in Cups : EventOf(c) = e => cup[c].status = "over"
      /\ team' = [t \in TeamIds |-> row(t)] /\ UNCHANGED <<roster, cup>>
      /\ current' \in {NoOne, current} /\ invites' \subseteq {i \in invites : i.team \notin gone}
  BY DEF FinishEvent
<1>2. \A t \in gone : IsTeam(t) /\ t \in TeamIds /\ team[t] \in TeamRows /\ team[t].event \in {e, NoOne}
  BY TeamFacts DEF ArchivedWith
<1>3. \A t \in TeamIds \ gone : row(t) = team[t]
  OBVIOUS
<1>4. ASSUME NEW t \in gone
      PROVE  /\ row(t) \in TeamRows /\ row(t) # NoOne /\ row(t).captain = team[t].captain
             /\ row(t).game = team[t].game /\ row(t).archived
             /\ row(t).emptied = team[t].emptied /\ row(t).event = e
  <2>1. row(t) = [team[t] EXCEPT !.archived = TRUE, !.event = e]
    OBVIOUS
  <2>. HIDE DEF row
  <2>2. team[t] \in TeamRows
    BY <1>2
  <2>3. /\ row(t) \in TeamRows /\ row(t).captain = team[t].captain
        /\ row(t).game = team[t].game /\ row(t).archived
        /\ row(t).emptied = team[t].emptied /\ row(t).event = e
    BY <2>1, <2>2 DEF TeamRows
  <2>. QED
    BY <2>3
<1>. HIDE DEF gone, row
<1>5. /\ team' \in [TeamIds -> TeamRows \cup {NoOne}]
      /\ \A t \in TeamIds \ gone : team'[t] = team[t]
      /\ \A t \in gone : /\ IsTeam(t)' /\ team'[t].captain = team[t].captain /\ team'[t].game = team[t].game
                        /\ team'[t].archived
                        /\ team'[t].emptied = team[t].emptied /\ team'[t].event = e
  BY <1>1, <1>2, <1>3, <1>4 DEF TeamsInv, IsTeam
<1>6. \A t \in TeamIds : Players(t)' = Players(t)
  BY <1>1 DEF Players, Accepted
<1>7. TeamsTyped'
  BY <1>1, <1>5 DEF TeamsInv
<1>8. \A t \in TeamIds : TeamOK(t)'
  BY <1>2, <1>5, <1>6 DEF TeamsInv, TeamOK, IsTeam, Plays, Strength
<1>9. OneTeamPerGame'
  BY <1>5, <1>6 DEF TeamsInv, OneTeamPerGame, IsTeam
<1>10. ASSUME NEW c \in Cups, cup[c].status # "over", NEW t \in cup[c].entries, InPlay(c) \/ ~team[t].emptied
       PROVE  t \in TeamIds \ gone
  <2>1. t \in TeamIds /\ team[t].event = EventOf(c) /\ EventOf(c) # NoOne /\ EventOf(c) # e
    BY <1>1, <1>10 DEF TeamsInv, CupRows, EntryOK, Bound, Events
  <2>. QED
    BY <1>2, <2>1
<1>11. ASSUME NEW c \in Cups, cup'[c].status # "over", NEW t \in cup'[c].entries
       PROVE  EntryOK(c, t)'
  <2>1. EntryOK(c, t) /\ t \in TeamIds /\ t \in cup[c].entries /\ cup[c].status # "over"
    BY <1>1, <1>11 DEF TeamsInv, CupRows
  <2>2. InPlay(c)' = InPlay(c)
    BY <1>1 DEF InPlay
  <2>3. CASE t \notin gone
    BY <1>1, <1>5, <1>6, <2>1, <2>2, <2>3 DEF EntryOK, Bound, IsTeam, Plays, Strength, SizeAllowed
  <2>4. CASE t \in gone
    <3>1. ~InPlay(c) /\ team[t].emptied
      BY <1>10, <2>1, <2>4
    <3>2. e # NoOne
      OBVIOUS
    <3>. QED
      BY <1>5, <2>2, <2>4, <3>1, <3>2 DEF EntryOK
  <2>. QED
    BY <2>3, <2>4
<1>12. ASSUME NEW i \in invites'
       PROVE  InviteOK(i)'
  <2>1. InviteOK(i) /\ i.team \in TeamIds \ gone
    BY <1>1 DEF TeamsInv
  <2>2. \A c \in Cups : InPlay(c)' => i.team \notin cup'[c].entries
    BY <1>1, <2>1 DEF InviteOK, InPlay
  <2>. QED
    BY <1>5, <1>6, <2>1, <2>2 DEF InviteOK, IsTeam, Plays
<1>13. LockedStay
  <2>. SUFFICES ASSUME NEW c \in Cups, InPlay(c), NEW t \in cup[c].entries
                PROVE  /\ t \in cup'[c].entries
                       /\ Players(t)' = Players(t) /\ team'[t].captain = team[t].captain
    BY DEF LockedStay
  <2>1. t \in TeamIds \ gone
    BY <1>10 DEF InPlay
  <2>. QED
    BY <1>1, <1>5, <1>6, <2>1
<1>. QED
  BY <1>7, <1>8, <1>9, <1>11, <1>12, <1>13 DEF TeamsInv, OfTeams

(* _leave_teams: what becomes of each team of an account that is deleted.    *)
LEMMA DeleteKeepsTeams ==
  ASSUME TeamsInv, NEW u \in Users, ~account[u].deleted, MayLeaveTeams(u), LeaveTeams(u),
         account'[u].deleted, \A v \in Users \ {u} : account'[v] = account[v], UNCHANGED focus
  PROVE  TeamsInv' /\ LockedStay
<1>. USE DEF TeamsTyped
<1>. DEFINE mine == TeamsOf(u)
            inherited == {t \in mine : Heirs(u, t) # {}}
            kept == {t \in mine \ inherited : HasHistory(t)}
            gone == mine \ (inherited \cup kept)
            thin == kept \cup {t \in inherited : Cardinality(Heirs(u, t)) < Size[team[t].game]}
            row(t) == IF t \in inherited /\ team[t].captain = u
                      THEN [team[t] EXCEPT !.captain = Oldest(roster[t], Heirs(u, t))]
                      ELSE IF t \in kept THEN [team[t] EXCEPT !.archived = TRUE]
                      ELSE team[t]
            list(t) == IF t \in gone THEN NobodyYet ELSE IF t \in kept THEN Only(roster[t], Players(t))
                       ELSE Without(roster[t], u)
<1>1. /\ team' = [t \in TeamIds |-> IF t \in gone THEN NoOne ELSE row(t)]
      /\ roster' = [t \in TeamIds |-> list(t)]
      /\ cup' = [c \in Cups |-> [cup[c] EXCEPT !.entries =
                    @ \ (IF cup[c].status = "over" THEN gone ELSE gone \cup thin)]]
      /\ invites' = {i \in invites : i.user # u /\ team[i.team].captain # u /\ i.team \notin kept \cup gone}
      /\ UNCHANGED current
  BY DEF LeaveTeams
<1>2. /\ mine \subseteq TeamIds /\ inherited \subseteq mine /\ kept \subseteq mine /\ gone \subseteq mine
      /\ thin \subseteq mine /\ kept \subseteq thin
      /\ mine = inherited \cup kept \cup gone
      /\ kept \cap inherited = {} /\ kept \cap gone = {} /\ inherited \cap gone = {}
  BY DEF TeamsOf
<1>3. \A t \in mine : IsTeam(t) /\ ~Locked(t) /\ (t \notin inherited => Heirs(u, t) = {})
  BY DEF TeamsOf, MayLeaveTeams
<1>4. \A t \in inherited : Heirs(u, t) # {}
  OBVIOUS
<1>5. /\ \A t \in TeamIds \ gone : t \notin kept => list(t) = Without(roster[t], u)
      /\ \A t \in kept : list(t) = Only(roster[t], Players(t))
      /\ \A t \in gone : list(t) = NobodyYet
  BY <1>2
<1>6. /\ \A t \in inherited : team[t].captain = u =>
              row(t) = [team[t] EXCEPT !.captain = Oldest(roster[t], Heirs(u, t))]
      /\ \A t \in kept : row(t) = [team[t] EXCEPT !.archived = TRUE]
      /\ \A t \in TeamIds \ kept : (t \in inherited => team[t].captain # u) => row(t) = team[t]
  BY <1>2
<1>. HIDE DEF mine, inherited, kept, gone, thin, row, list
<1>7. /\ \A t \in TeamIds \ gone : team'[t] = row(t)
      /\ \A t \in gone : team'[t] = NoOne
      /\ \A t \in TeamIds : roster'[t] = list(t)
  BY <1>1, <1>2
<1>8. /\ cup' \in [Cups -> CupRows]
      /\ \A c \in Cups : cup'[c].status = cup[c].status /\ cup'[c].entries \subseteq cup[c].entries
      /\ \A c \in Cups : cup[c].entries \ (gone \cup thin) \subseteq cup'[c].entries
      /\ \A c \in Cups : cup[c].status # "over" => cup'[c].entries \cap (gone \cup thin) = {}
  BY <1>1 DEF TeamsInv, CupRows
<1>9. ASSUME NEW t \in TeamIds \ mine
      PROVE  /\ team'[t] = team[t] /\ Players(t)' = Players(t) /\ list(t) \in Lists
             /\ u \notin Players(t) /\ (IsTeam(t) => team[t].captain # u)
  <2>1. t \notin gone /\ t \notin kept /\ t \notin inherited
    BY <1>2
  <2>2. u \notin Players(t) /\ (IsTeam(t) => team[t].captain # u)
    BY DEF mine, TeamsOf, Plays, TeamsInv, TeamOK
  <2>3. roster[t] \in Lists
    BY DEF TeamsInv
  <2>4. list(t) \in Lists /\ Accepted(list(t)) = Players(t) \ {u}
    BY <1>5, <2>1, <2>3, WithoutPlayer DEF Players
  <2>5. Players(t)' = Accepted(list(t))
    BY <1>7 DEF Players, Accepted
  <2>. QED
    BY <1>6, <1>7, <2>1, <2>2, <2>4, <2>5
<1>10. ASSUME NEW t \in inherited
       PROVE  /\ team'[t] \in TeamRows /\ list(t) \in Lists
              /\ Players(t)' = Players(t) \ {u}
              /\ team'[t].captain \in Players(t) \ {u} \/ team'[t].emptied
              /\ team'[t].game = team[t].game /\ team'[t].event = team[t].event
              /\ team'[t].archived = team[t].archived /\ team'[t].emptied = team[t].emptied
              /\ team[t].captain # u => team'[t].captain = team[t].captain
  <2>1. t \in TeamIds /\ t \notin gone /\ t \notin kept /\ IsTeam(t)
    BY <1>2, <1>3
  <2>2. list(t) \in Lists /\ Accepted(list(t)) = Players(t) \ {u}
    BY <1>5, <2>1, TeamFacts, WithoutPlayer DEF Players
  <2>3. Players(t)' = Accepted(list(t))
    BY <1>7, <2>1 DEF Players, Accepted
  <2>4. CASE team[t].captain # u
    BY <1>6, <1>7, <2>1, <2>2, <2>3, <2>4, TeamFacts
  <2>5. CASE team[t].captain = u
    <3>. DEFINE heir == Oldest(roster[t], Heirs(u, t))
    <3>1. \A v \in Heirs(u, t) : roster[t][v].place \in Nat
      <4>1. roster[t] \in Lists
        BY <2>1, TeamFacts
      <4>. QED
        BY <4>1, ListOf DEF Heirs, Players, Lines
    <3>2. heir \in Heirs(u, t)
      BY <1>4, <3>1, OldestIsOne
    <3>. HIDE DEF heir
    <3>3. heir \in Players(t) \ {u} /\ heir \in Users /\ team[t] \in TeamRows
      BY <2>1, <3>2, TeamFacts DEF Heirs
    <3>4. team'[t] = [team[t] EXCEPT !.captain = heir]
      BY <1>6, <1>7, <2>1, <2>5 DEF heir
    <3>. QED
      BY <2>2, <2>3, <2>5, <3>3, <3>4 DEF TeamRows
  <2>. QED
    BY <2>4, <2>5
<1>11. ASSUME NEW t \in kept
       PROVE  /\ team'[t] \in TeamRows /\ list(t) \in Lists /\ Players(t)' = Players(t)
              /\ team'[t].captain = team[t].captain /\ team'[t].game = team[t].game /\ team'[t].archived
              /\ team'[t].emptied = team[t].emptied
  <2>1. t \in TeamIds /\ t \notin gone /\ IsTeam(t) /\ Heirs(u, t) = {}
    BY <1>2, <1>3
  <2>2. list(t) \in Lists /\ Accepted(list(t)) = Players(t)
    <3>1. roster[t] \in Lists /\ list(t) = Only(roster[t], Players(t))
      BY <1>5, <2>1, TeamFacts
    <3>2. list(t) \in Lists /\ Accepted(list(t)) = Accepted(roster[t]) \cap Players(t)
      BY <3>1, OnlyPlayers
    <3>. QED
      BY <3>2 DEF Players
  <2>3. Players(t)' = Accepted(list(t))
    BY <1>7, <2>1 DEF Players, Accepted
  <2>4. team'[t] = [team[t] EXCEPT !.archived = TRUE] /\ team[t] \in TeamRows
    BY <1>6, <1>7, <2>1, TeamFacts
  <2>. QED
    BY <2>2, <2>3, <2>4 DEF TeamRows
<1>12. ASSUME NEW t \in gone
       PROVE  team'[t] = NoOne /\ list(t) \in Lists /\ Players(t)' = {}
  <2>1. t \in TeamIds
    BY <1>2
  <2>2. list(t) \in Lists /\ Accepted(list(t)) = {}
    BY <1>5, NobodyList
  <2>3. Players(t)' = Accepted(list(t))
    BY <1>7, <2>1 DEF Players, Accepted
  <2>. QED
    BY <1>7, <2>2, <2>3
<1>13. \A t \in TeamIds : /\ t \in mine \/ t \in TeamIds \ mine
                          /\ Players(t)' \subseteq Players(t)
                          /\ IsTeam(t)' => /\ IsTeam(t) /\ team'[t].game = team[t].game
                                           /\ team[t].archived => team'[t].archived
  <2>. SUFFICES ASSUME NEW t \in TeamIds
                PROVE  /\ Players(t)' \subseteq Players(t)
                       /\ IsTeam(t)' => /\ IsTeam(t) /\ team'[t].game = team[t].game
                                        /\ team[t].archived => team'[t].archived
    OBVIOUS
  <2>1. CASE t \notin mine
    BY <1>9, <2>1 DEF IsTeam
  <2>2. CASE t \in inherited
    BY <1>2, <1>3, <1>10, <2>2 DEF IsTeam
  <2>3. CASE t \in kept
    BY <1>2, <1>3, <1>11, <2>3 DEF IsTeam
  <2>4. CASE t \in gone
    BY <1>2, <1>12, <2>4 DEF IsTeam
  <2>. QED
    BY <1>2, <2>1, <2>2, <2>3, <2>4
<1>14. TeamsTyped'
  <2>1. \A t \in TeamIds : team'[t] \in TeamRows \cup {NoOne} /\ list(t) \in Lists
    BY <1>2, <1>9, <1>10, <1>11, <1>12 DEF TeamsInv
  <2>2. team' \in [TeamIds -> TeamRows \cup {NoOne}] /\ roster' \in [TeamIds -> Lists]
    BY <1>1, <1>7, <2>1
  <2>. QED
    BY <1>1, <1>8, <2>2 DEF TeamsInv
<1>15. ASSUME NEW t \in TeamIds
       PROVE  TeamOK(t)'
  <2>1. TeamOK(t)
    BY DEF TeamsInv
  <2>2. CASE t \notin mine
    BY <1>9, <2>1, <2>2 DEF TeamOK, IsTeam, Plays, Strength
  <2>3. CASE t \in inherited
    <3>1. /\ IsTeam(t) /\ IsFiniteSet(Players(t)) /\ Strength(t) \in Nat
          /\ Strength(t) <= Size[team[t].game] /\ Size[team[t].game] \in Nat
      BY <1>2, <1>3, <2>3, TeamFacts DEF TeamRows
    <3>2. Strength(t)' <= Size[team'[t].game]
      <4>1. Players(t)' \subseteq Players(t) /\ team'[t].game = team[t].game
        BY <1>10, <2>3
      <4>2. Cardinality(Players(t)') \in Nat /\ Cardinality(Players(t)') <= Strength(t)
        BY <3>1, <4>1, FS_Subset, FS_CardinalityType DEF Strength
      <4>. QED
        BY <3>1, <4>1, <4>2 DEF Strength
    <3>. QED
      BY <1>10, <2>3, <3>2 DEF TeamOK, IsTeam, Plays
  <2>4. CASE t \in kept
    BY <1>2, <1>3, <1>11, <2>1, <2>4 DEF TeamOK, IsTeam, Plays, Strength
  <2>5. CASE t \in gone
    BY <1>12, <2>5 DEF TeamOK, IsTeam
  <2>. QED
    BY <1>2, <2>2, <2>3, <2>4, <2>5
<1>16. OneTeamPerGame'
  <2>1. \A t \in TeamIds : IsTeam(t)' /\ ~team'[t].archived => IsTeam(t) /\ ~team[t].archived
    BY <1>13
  <2>. SUFFICES ASSUME NEW s \in TeamIds, NEW t \in TeamIds, IsTeam(s)', IsTeam(t)', s # t,
                       ~team'[s].archived, ~team'[t].archived, team'[s].game = team'[t].game
                PROVE  Players(s)' \cap Players(t)' = {}
    BY DEF OneTeamPerGame
  <2>2. Players(s) \cap Players(t) = {}
    BY <1>13, <2>1 DEF TeamsInv, OneTeamPerGame
  <2>. QED
    BY <1>13, <2>2
<1>17. ASSUME NEW c \in Cups, cup'[c].status # "over", NEW t \in cup'[c].entries
       PROVE  EntryOK(c, t)'
  <2>1. t \in cup[c].entries /\ t \in TeamIds /\ EntryOK(c, t) /\ t \notin gone /\ t \notin kept
    BY <1>2, <1>8, <1>17 DEF TeamsInv, CupRows
  <2>2. InPlay(c) => t \notin mine
    BY <1>3, <2>1 DEF Locked
  <2>3. InPlay(c)' = InPlay(c)
    BY <1>8 DEF InPlay
  <2>4. CASE t \notin mine
    <3>1. team'[t] = team[t] /\ Players(t)' = Players(t)
      BY <1>9, <2>1, <2>4
    <3>2. Strength(t)' = Strength(t)
      BY <3>1 DEF Strength
    <3>3. IsTeam(t)' /\ team'[t].event # NoOne /\ (InPlay(c)' \/ ~team'[t].emptied => Bound(team'[t], c))
      BY <2>1, <2>3, <3>1 DEF EntryOK, IsTeam
    <3>4. InPlay(c)' => SizeAllowed(c, Strength(t)', TRUE) /\ team'[t].captain \in Players(t)'
      BY <2>1, <2>3, <3>1, <3>2 DEF EntryOK, Plays
    <3>. QED
      BY <3>3, <3>4 DEF EntryOK, SizeAllowed, Bound, Plays
  <2>5. CASE t \in inherited
    <3>1. /\ team'[t] # NoOne /\ team'[t].event = team[t].event /\ team'[t].emptied = team[t].emptied
          /\ team'[t].archived = team[t].archived /\ team'[t].game = team[t].game
      BY <1>2, <1>10, <2>1, <2>5, TeamFacts DEF EntryOK, IsTeam, TeamRows
    <3>2. ~InPlay(c)'
      BY <1>2, <2>2, <2>3, <2>5
    <3>. QED
      BY <2>1, <2>3, <3>1, <3>2 DEF EntryOK, Bound, IsTeam
  <2>. QED
    BY <1>2, <2>1, <2>4, <2>5
<1>18. ASSUME NEW i \in invites'
       PROVE  InviteOK(i)'
  <2>1. /\ InviteOK(i) /\ i.team \in TeamIds /\ i.user \in Users \ {u}
        /\ i.team \notin gone /\ i.team \notin kept
    BY <1>1 DEF TeamsInv
  <2>2. /\ team'[i.team] # NoOne /\ ~team'[i.team].archived
        /\ Players(i.team)' \subseteq Players(i.team)
    <3>1. CASE i.team \notin mine
      BY <1>9, <2>1, <3>1 DEF InviteOK, IsTeam
    <3>2. CASE i.team \in inherited
      <4>1. team'[i.team] \in TeamRows /\ team'[i.team].archived = team[i.team].archived
            /\ Players(i.team)' = Players(i.team) \ {u}
        BY <1>10, <3>2
      <4>. QED
        BY <2>1, <4>1 DEF InviteOK
    <3>. QED
      BY <1>2, <2>1, <3>1, <3>2
  <2>3. account'[i.user] = account[i.user]
    BY <2>1
  <2>4. \A c \in Cups : InPlay(c)' => i.team \notin cup'[c].entries
    BY <1>8, <2>1 DEF InviteOK, InPlay
  <2>. QED
    BY <2>1, <2>2, <2>3, <2>4 DEF InviteOK, IsTeam, Plays
<1>19. ~OfTeams' => (\A t \in TeamIds : ~IsTeam(t)') /\ invites' = {}
  BY <1>1, <1>13 DEF TeamsInv, OfTeams
<1>20. LockedStay
  <2>. SUFFICES ASSUME NEW c \in Cups, InPlay(c), NEW t \in cup[c].entries
                PROVE  /\ t \in cup'[c].entries
                       /\ Players(t)' = Players(t) /\ team'[t].captain = team[t].captain
    BY DEF LockedStay
  <2>1. t \in TeamIds \ mine
    BY <1>3 DEF Locked, TeamsInv, CupRows
  <2>. QED
    BY <1>2, <1>8, <1>9, <2>1
<1>. QED
  BY <1>14, <1>15, <1>16, <1>17, <1>18, <1>19, <1>20 DEF TeamsInv

(* The requests of the teams, of events and of tournaments.                  *)
LEMMA TeamsMoveKeeps ==
  ASSUME TeamsInv, NEW over \in SUBSET Events, TeamsMove(over)
  PROVE  TeamsInv' /\ LockedStay
<1>. DEFINE us == IF focus = "solo" THEN Soloists ELSE Users
<1>1. OfTeams /\ TeamsNext(us, InFocus, over) /\ UNCHANGED <<account, focus>>
  BY DEF TeamsMove, accountVars
<1>0. us \subseteq Users
  BY PortalAssumption DEF PortalAssumption
<1>. HIDE DEF us
<1>2. InFocus \subseteq DOMAIN Size
  BY DEF InFocus
<1>3. ASSUME NEW u \in us, NEW t \in TeamIds, NEW g \in InFocus, CreateTeam(u, t, g)
      PROVE  TeamsInv' /\ LockedStay
  BY <1>0, <1>1, <1>2, <1>3, CreateTeamKeeps
<1>4. ASSUME NEW u \in us, NEW t \in TeamIds,
             \/ JoinByCode(u, t) \/ Apply(u, t) \/ AcceptApplication(u, t) \/ Dismiss(u, t)
             \/ LeaveTeam(u, t, Without(roster[t], u)) \/ Invite(u, t)
      PROVE  TeamsInv' /\ LockedStay
  BY <1>0, <1>1, <1>4, EntersKeep, ApplyKeeps, DismissKeeps, LeaveTeamKeeps, InviteKeeps
<1>5. ASSUME NEW t \in TeamIds, NEW vs \in SUBSET us, AddClanMembers(t, vs)
      PROVE  TeamsInv' /\ LockedStay
  BY <1>0, <1>1, <1>5, AddClanMembersKeeps
<1>6. ASSUME NEW t \in TeamIds, NEW g \in InFocus, NEW keep, Reactivate(t, g, keep)
      PROVE  TeamsInv' /\ LockedStay
  BY <1>1, <1>2, <1>6, ReactivateKeeps
<1>7. ASSUME NEW t \in TeamIds, NEW c \in Cups, EntryPage(us, c, t)
      PROVE  TeamsInv' /\ LockedStay
  BY <1>0, <1>1, <1>7, RegisterTeamKeeps, UnregisterKeeps, RegisterSoloKeeps DEF EntryPage
<1>8. ASSUME NEW i \in invites, AcceptInvitation(i) \/ CloseInvitation(i)
      PROVE  TeamsInv' /\ LockedStay
  <2>1. CASE AcceptInvitation(i)
    BY <1>1, <2>1, AcceptInvitationKeeps
  <2>2. CASE CloseInvitation(i)
    BY <1>1, <2>2, EventsKeep DEF CloseInvitation, TeamsInv, TeamsTyped
  <2>. QED
    BY <1>8, <2>1, <2>2
<1>9. ASSUME NEW c \in Cups, StartCup(c) \/ ProceedCup(c)
      PROVE  TeamsInv' /\ LockedStay
  BY <1>1, <1>9, StartCupKeeps, ProceedCupKeeps
<1>10. ASSUME NEW e \in Events, FinishEvent(e) \/ EventEnds(e) \/ ActivateEvent(e)
       PROVE  TeamsInv' /\ LockedStay
  <2>1. CASE FinishEvent(e)
    BY <1>1, <2>1, FinishEventKeeps
  <2>2. CASE EventEnds(e) \/ ActivateEvent(e)
    BY <1>1, <2>2, EventsKeep DEF EventEnds, ActivateEvent, TeamsInv, TeamsTyped
  <2>. QED
    BY <1>10, <2>1, <2>2
<1>. QED
  BY <1>1, <1>3, <1>4, <1>5, <1>6, <1>7, <1>8, <1>9, <1>10 DEF TeamsNext

(* A part that leaves the teams alone deletes no account, or there is none.  *)
LEMMA OthersKeepTeams ==
  ASSUME TeamsInv, UNCHANGED <<team, roster, invites, cup, current, focus>>,
         (\A u \in Users : account'[u].deleted = account[u].deleted) \/ ~OfTeams
  PROVE  TeamsInv' /\ LockedStay
<1>. USE DEF TeamsTyped
<1>1. \A t \in TeamIds : Players(t)' = Players(t) /\ IsTeam(t)' = IsTeam(t)
  BY DEF Players, Accepted, IsTeam
<1>2. TeamsTyped' /\ OneTeamPerGame'
  BY <1>1 DEF TeamsInv, OneTeamPerGame
<1>3. \A t \in TeamIds : TeamOK(t)'
  BY <1>1 DEF TeamsInv, TeamOK, IsTeam, Plays, Strength
<1>4. ASSUME NEW c \in Cups, cup'[c].status # "over", NEW t \in cup'[c].entries
      PROVE  EntryOK(c, t)'
  <2>1. EntryOK(c, t) /\ t \in TeamIds
    BY <1>4 DEF TeamsInv, CupRows
  <2>. QED
    BY <1>1, <2>1 DEF EntryOK, Bound, IsTeam, InPlay, Plays, Strength, SizeAllowed
<1>5. ASSUME NEW i \in invites'
      PROVE  InviteOK(i)'
  <2>1. InviteOK(i) /\ i.team \in TeamIds /\ i.user \in Users /\ OfTeams
    BY <1>5 DEF TeamsInv
  <2>2. account'[i.user].deleted = account[i.user].deleted
    BY <2>1
  <2>. QED
    BY <1>1, <2>1, <2>2 DEF InviteOK, Plays, InPlay
<1>6. LockedStay
  BY <1>1 DEF LockedStay, TeamsInv, CupRows
<1>. QED
  BY <1>1, <1>2, <1>3, <1>4, <1>5, <1>6 DEF TeamsInv, OfTeams

LEMMA TeamsStep ==
  ASSUME TeamsInv, AccountsInv, NEW us \in SUBSET Users, NEW ms, NEW over \in SUBSET Events,
         [PortalNext(us, ms, over)]_portalVars
  PROVE  TeamsInv' /\ LockedStay
<1>1. CASE TeamsMove(over)
  BY <1>1, TeamsMoveKeeps
<1>2. ASSUME NEW u \in us, DeleteAccount(u)
      PROVE  TeamsInv' /\ LockedStay
  <2>1. ~account[u].deleted /\ MayLeaveTeams(u) /\ LeaveTeams(u) /\ UNCHANGED focus
    BY <1>2 DEF DeleteAccount, DeleteRow, Live
  <2>2. account' = [account EXCEPT ![u] = Erased(@)] /\ account \in [Users -> Rows]
    BY <1>2 DEF DeleteAccount, DeleteRow, AccountsInv, RowsInv
  <2>3. Erased(account[u]).deleted
    BY <2>2 DEF Erased, Rows
  <2>4. account'[u].deleted /\ \A v \in Users \ {u} : account'[v] = account[v]
    BY <2>2, <2>3
  <2>. QED
    BY <2>1, <2>4, DeleteKeepsTeams
<1>3. CASE \E u \in us : DeleteOwn(u) \/ AnonymizeAccount(u)
  BY <1>2, <1>3 DEF DeleteOwn, AnonymizeAccount
<1>4. CASE Moderate(Barrable)
  <2>1. UNCHANGED <<team, roster, invites, cup, current, focus>> /\ Moderation(Barrable)
    BY <1>4 DEF Moderate, teamVars
  <2>. QED
    BY <2>1, ModeratedRows, OthersKeepTeams
<1>5. CASE AccountsMove(ms)
  <2>1. UNCHANGED <<team, roster, invites, cup, current, focus>> /\ ~OfTeams
    BY <1>5 DEF AccountsMove, teamVars, OfTeams
  <2>. QED
    BY <2>1, OthersKeepTeams
<1>6. CASE ClansMove \/ PhotosMove(us) \/ WikiMove \/ ContactMove \/ UNCHANGED portalVars
  <2>1. UNCHANGED <<team, roster, invites, cup, current, focus>> /\ UNCHANGED account
    BY <1>6 DEF ClansMove, PhotosMove, WikiMove, ContactMove, portalVars, accountVars, teamVars
  <2>. QED
    BY <2>1, OthersKeepTeams
<1>. QED
  BY <1>1, <1>3, <1>4, <1>5, <1>6 DEF PortalNext

LEMMA TeamsStart ==
  ASSUME NEW mails0, NEW rows0, NEW e0 \in Events \cup {NoOne}, PortalInit(mails0, rows0, e0)
  PROVE  TeamsInv
<1>1. /\ team = [t \in TeamIds |-> NoOne] /\ roster = [t \in TeamIds |-> NobodyYet]
      /\ invites = {} /\ current = e0
      /\ \A c \in Cups : cup[c] \in CupRows /\ cup[c].entries = {}
  BY DEF PortalInit, TeamsInit, CupRows, CupStates
<1>2. cup \in [Cups -> CupRows]
  BY <1>1 DEF PortalInit, TeamsInit
<1>3. TeamsTyped
  BY <1>1, <1>2, NobodyList DEF TeamsTyped
<1>4. \A t \in TeamIds : ~IsTeam(t) /\ Players(t) = {}
  BY <1>1, NobodyList DEF IsTeam, Players
<1>. QED
  BY <1>1, <1>3, <1>4 DEF TeamsInv, TeamOK, OneTeamPerGame

(* Nobody plays in two active teams for a game, every team has its captain   *)
(* among its players and no more of them than the game takes, no player is   *)
(* in a tournament twice, what is played has teams that could start, and an  *)
(* open invitation could still be accepted, however teams, recruitment,      *)
(* entries, events, bans and deletions of accounts interleave                *)
(* (tournaments/models.py, services.py and signals.py, users/services.py).   *)
(* Excepted is a team whose last player left and whose row a Swiss           *)
(* tournament keeps: until it plays, it may be without its captain.          *)
THEOREM TeamsStaySound ==
  ASSUME NEW mails0 \in [Users -> Mails], \A u, v \in Users : mails0[u] = mails0[v] => u = v,
         NEW rows0, NEW e0 \in Events \cup {NoOne},
         NEW us \in SUBSET Users, NEW ms \in SUBSET Mails, NEW over \in SUBSET Events
  PROVE  PortalSpec(mails0, rows0, e0, us, ms, over) => []TeamsSound
<1>1. PortalInit(mails0, rows0, e0) => AccountsInv /\ TeamsInv
  BY PortalStart, TeamsStart
<1>2. AccountsInv /\ [PortalNext(us, ms, over)]_portalVars => AccountsInv'
  BY AccountsStay
<1>3. AccountsInv /\ TeamsInv /\ [PortalNext(us, ms, over)]_portalVars => TeamsInv'
  BY TeamsStep
<1>4. TeamsInv => TeamsSound
  BY TeamsAreSound
<1>. QED
  BY <1>1, <1>2, <1>3, <1>4, PTL DEF PortalSpec

(* No order of requests, deletions of accounts among them, changes the       *)
(* players or the captain of a team that is in a tournament which is played  *)
(* or under review (Team.is_in_active_tournament, tournaments/models.py).    *)
THEOREM RostersStayLocked ==
  ASSUME NEW mails0 \in [Users -> Mails], \A u, v \in Users : mails0[u] = mails0[v] => u = v,
         NEW rows0, NEW e0 \in Events \cup {NoOne},
         NEW us \in SUBSET Users, NEW ms \in SUBSET Mails, NEW over \in SUBSET Events
  PROVE  PortalSpec(mails0, rows0, e0, us, ms, over) => RostersLocked
<1>1. PortalInit(mails0, rows0, e0) => AccountsInv /\ TeamsInv
  BY PortalStart, TeamsStart
<1>2. AccountsInv /\ [PortalNext(us, ms, over)]_portalVars => AccountsInv'
  BY AccountsStay
<1>3. AccountsInv /\ TeamsInv /\ [PortalNext(us, ms, over)]_portalVars
      => TeamsInv' /\ [LockedStay]_<<teamVars, account>>
  BY TeamsStep
<1>. QED
  BY <1>1, <1>2, <1>3, PTL DEF PortalSpec, RostersLocked, LockedStay
=============================================================================
