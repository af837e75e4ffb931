-------------------------------- MODULE Teams --------------------------------
(* Teams, applications, invitations and the entries of teams in tournaments  *)
(* (tournaments/), on the accounts and the clans. Every handler locks users, *)
(* events and the team and checks again, so a handler is one step; the       *)
(* dangers are in the order of the steps, over several events.               *)
EXTENDS Clans

CONSTANTS
  MaxTeams,   \* bound: teams at a time
  Size,       \* the games: the players of a team in each
  Cups,       \* tournaments: an event and a game
  SwissCups,  \* those in the Swiss mode
  Rule,       \* roster_rule of each
  Places,     \* max_teams
  MaxWaiting, \* bound: open invitations and applications at a time
  MaxEmptied  \* bound: teams that are archived without a player

TeamIds == 1..MaxTeams
EventOf(c) == c[1]
GameOf(c) == c[2]
Events == {EventOf(c) : c \in Cups}

(* A row of tournaments_team; emptied is history: once its last player left   *)
(* and it was archived without one.                                          *)
TeamRows ==
  [game : DOMAIN Size, captain : Users, event : Events \cup {NoOne}, archived : BOOLEAN, solo : BOOLEAN,
   emptied : BOOLEAN]

ASSUME TeamsAssumption ==
  /\ SwissCups \subseteq Cups
  /\ Size \in [DOMAIN Size -> Nat \ {0}] /\ \A c \in Cups : GameOf(c) \in DOMAIN Size
  /\ NoOne \notin Events \cup TeamRows

VARIABLES
  team,    \* tournaments_team
  roster,  \* the memberships of each team, one for a user at most
  invites, \* the invitations that are pending
  current, \* the active event
  closed,  \* events that are over
  cup      \* each tournament's status, whether it has Swiss rounds, and the teams in it

teamVars == <<team, roster, invites, current, closed, cup>>

(* A membership, with the number of those that are older.                    *)
Line(status, place) == [status |-> status, place |-> place]
NobodyYet == [u \in {} |-> Line("pending", 0)]

(* offered: the tournaments that open; the others were cancelled before.     *)
TeamsInit(event, offered) ==
  /\ team = [t \in TeamIds |-> NoOne]
  /\ roster = [t \in TeamIds |-> NobodyYet]
  /\ invites = {} /\ closed = {}
  /\ current = event
  /\ cup = [c \in Cups |-> [status |-> IF c \in offered THEN "open" ELSE "over", rounds |-> FALSE, entries |-> {}]]

IsTeam(t) == team[t] # NoOne
Players(t) == Accepted(roster[t])
Plays(u, t) == u \in Players(t)
Strength(t) == Cardinality(Players(t))
Applied(u, t) == HasRow(roster[t], u) /\ ~Plays(u, t)
Waiting == Cardinality(invites) + Cardinality({a \in TeamIds \X Users : Applied(a[2], a[1])})
Able(u) == account[u].active /\ ~account[u].deleted

(* is_in_active_tournament: generated, and not over.                         *)
InPlay(c) == cup[c].status \in {"running", "review"}

\* Mutant: only tournaments in progress count.
LockedWhileRunning(t) == \E c \in Cups : t \in cup[c].entries /\ cup[c].status = "running"

Locked(t) == \E c \in Cups : t \in cup[c].entries /\ InPlay(c)

(* The player is in another team for the game already.                       *)
Elsewhere(u, g, t) ==
  \E s \in TeamIds \ {t} : IsTeam(s) /\ ~team[s].archived /\ team[s].game = g /\ Plays(u, s)

HasRoom(t, n) == Strength(t) + n <= Size[team[t].game]

(* roster_action for new members, and the check of the handlers.             *)
OpenForPlayers(t) ==
  /\ IsTeam(t) /\ ~team[t].archived
  /\ current # NoOne => team[t].event \in {NoOne, current}
  /\ closed \cap {current, team[t].event} = {}
  /\ ~Locked(t)

(* validate_recruitment *)
Recruits(t) == OpenForPlayers(t) /\ Able(team[t].captain) /\ ~team[t].solo

(* The signals: what a saved membership and a saved team leave of open       *)
(* invitations.                                                              *)
AfterJoin(open, t, g, us) ==
  {i \in open : i.user \in us => i.team # t /\ team[i.team].game # g}

AfterSave(open, t, row) ==
  {i \in open : i.team = t => ~row.archived /\ row.event \in {NoOne, i.event}}

(* A new captain: both are saved.                                            *)
AfterHandover(open, t, u) ==
  AfterSave(IF team[t].archived THEN open ELSE AfterJoin(open, t, team[t].game, {u}), t, team[t])

(* get_or_create and a status: an application becomes the membership; those  *)
(* added by one request are of one age.                                      *)
Admitted(rows, us) ==
  [u \in DOMAIN rows \cup us |->
     Line(IF u \in us THEN "accepted" ELSE rows[u].status,
          IF u \in DOMAIN rows THEN rows[u].place ELSE Cardinality(DOMAIN rows))]

-----------------------------------------------------------------------------
(* Teams and their members.                                                 *)

(* team_create *)
CreateTeam(u, t, g) ==
  /\ ~IsTeam(t) /\ \A s \in 1..(t - 1) : IsTeam(s)
  /\ Able(u) /\ current \notin closed
  /\ ~Elsewhere(u, g, t)
  /\ team' = [team EXCEPT ![t] = [game |-> g, captain |-> u, event |-> current, archived |-> FALSE, solo |-> FALSE,
                                  emptied |-> FALSE]]
  /\ roster' = [roster EXCEPT ![t] = Admitted(NobodyYet, {u})]
  /\ invites' = AfterJoin(invites, t, g, {u})
  /\ UNCHANGED <<current, closed, cup>>

(* The checks and effects common to all ways into a team.                    *)
MayEnter(u, t) == ~Plays(u, t) /\ ~Elsewhere(u, team[t].game, t)

Admit(t, us) ==
  /\ roster' = [roster EXCEPT ![t] = Admitted(@, us)]
  /\ invites' = AfterJoin(invites, t, team[t].game, us)
  /\ UNCHANGED <<team, current, closed, cup>>

(* team_join_by_code *)
JoinByCode(u, t) ==
  /\ Able(u) /\ OpenForPlayers(t)
  /\ MayEnter(u, t) /\ HasRoom(t, 1)
  /\ Admit(t, {u})

(* team_apply; an invitation the page shows goes first.                      *)
Apply(u, t) ==
  /\ Able(u) /\ OpenForPlayers(t)
  /\ ~(Recruits(t) /\ [team |-> t, user |-> u, event |-> current] \in invites)
  /\ ~HasRow(roster[t], u) /\ MayEnter(u, t) /\ HasRoom(t, 1)
  /\ roster' = [roster EXCEPT ![t] = With(@, u, Line("pending", Cardinality(DOMAIN @)))]
  /\ Waiting < MaxWaiting
  /\ UNCHANGED <<team, invites, current, closed, cup>>

(* team_accept_membership, by the captain or a member of staff.              *)
AcceptApplication(u, t) ==
  /\ Applied(u, t) /\ OpenForPlayers(t)
  /\ Able(u) /\ MayEnter(u, t) /\ HasRoom(t, 1)
  /\ Admit(t, {u})

(* reject_application, even while the team is locked; team_kick_member, by   *)
(* the captain or a member of staff.                                         *)
Dismiss(u, t) ==
  /\ IsTeam(t) /\ HasRow(roster[t], u)
  /\ \/ Applied(u, t) /\ Able(team[t].captain)
     \/ ~Locked(t) /\ u # team[t].captain
  /\ roster' = [roster EXCEPT ![t] = Without(@, u)]
  /\ UNCHANGED <<team, invites, current, closed, cup>>

(* Team.delete: invitations and entries go with the row, those of the past   *)
(* as well; but the standings of a Swiss tournament that was generated need  *)
(* the row, which is archived instead, with the captain and the entries it   *)
(* has.                                                                      *)
Historic(t) == \E c \in Cups : cup[c].rounds /\ t \in cup[c].entries

Deleted(t, rest) ==
  /\ invites' = {i \in invites : i.team # t}
  /\ \/ /\ Historic(t)
        /\ Cardinality({s \in TeamIds : IsTeam(s) /\ s # t /\ team[s].emptied}) < MaxEmptied
        /\ team' = [team EXCEPT ![t].archived = TRUE, ![t].emptied = TRUE]
        /\ roster' = [roster EXCEPT ![t] = rest]
        /\ UNCHANGED cup
     \/ /\ ~Historic(t)
        /\ team' = [team EXCEPT ![t] = NoOne]
        /\ roster' = [roster EXCEPT ![t] = NobodyYet]
        /\ cup' = [c \in Cups |-> [cup[c] EXCEPT !.entries = @ \ {t}]]

(* Team.leave_team: a locked team keeps its players; without the last one    *)
(* the team is deleted; a captain hands over to the oldest member.           *)
LeaveTeam(u, t, rest) ==
  /\ Able(u) /\ IsTeam(t) /\ HasRow(roster[t], u)
  /\ Plays(u, t) /\ Locked(t) =>
       Strength(t) - 1 >= Size[team[t].game] /\ Strength(t) > 1
  /\ \/ Accepted(rest) = {} /\ Deleted(t, rest)
     \/ /\ Accepted(rest) # {} /\ u # team[t].captain
        /\ roster' = [roster EXCEPT ![t] = rest]
        /\ UNCHANGED <<team, invites, cup>>
     \/ /\ Accepted(rest) # {} /\ u = team[t].captain
        /\ team' = [team EXCEPT ![t].captain = Oldest(rest, Accepted(rest))]
        /\ roster' = [roster EXCEPT ![t] = rest]
        /\ invites' = AfterHandover(invites, t, Oldest(rest, Accepted(rest)))
        /\ UNCHANGED cup
  /\ UNCHANGED <<current, closed>>

-----------------------------------------------------------------------------
(* Recruitment.                                                             *)

SameClan(u, v) == \E c \in clans : {u, v} \subseteq Accepted(memberships[c])

(* add_clan_members, and recruit_player for a member of the captain's clan.  *)
AddClanMembers(t, us) ==
  /\ Recruits(t)
  /\ \A u \in us : Able(u) /\ MayEnter(u, t) /\ SameClan(u, team[t].captain)
  /\ HasRoom(t, Cardinality(us))
  /\ Admit(t, us)

(* recruit_player for anybody else; an invitation of an earlier event ends.  *)
Invite(u, t) ==
  LET i == [team |-> t, user |-> u, event |-> current] IN
  /\ Recruits(t)
  /\ Able(u) /\ MayEnter(u, t) /\ ~SameClan(u, team[t].captain) /\ HasRoom(t, 1)
  /\ ~Applied(u, t) /\ i \notin invites
  /\ invites' = {j \in invites : j.team # t \/ j.user # u} \cup {i}
  /\ Waiting < MaxWaiting
  /\ UNCHANGED <<team, roster, current, closed, cup>>

(* respond_to_invitation *)
AcceptInvitation(i) ==
  /\ Able(i.user) /\ Recruits(i.team) /\ i.event = current
  /\ MayEnter(i.user, i.team) /\ HasRoom(i.team, 1)
  /\ Admit(i.team, {i.user})

CloseInvitation(i) ==
  /\ Able(i.user) \/ Able(team[i.team].captain)
  /\ invites' = invites \ {i}
  /\ UNCHANGED <<team, roster, current, closed, cup>>

-----------------------------------------------------------------------------
(* Events and tournaments.                                                  *)

\* Mutant: only the captain's other teams are looked for.
KeptAsAsked(t, g, keep) == Only(roster[t], {team[t].captain} \cup keep)

(* team_reactivate, by the captain or a member of staff: who is in another   *)
(* team by now is left out.                                                  *)
Kept(t, g, keep) == Only(roster[t], {team[t].captain} \cup {u \in keep : ~Elsewhere(u, g, t)})

Reactivate(t, g, keep) ==
  /\ IsTeam(t) /\ team[t].archived /\ ~Locked(t)
  /\ current # NoOne /\ current \notin closed
  /\ ~Elsewhere(team[t].captain, g, t)
  /\ Cardinality(Accepted(Kept(t, g, keep))) <= Size[g]
  /\ team' = [team EXCEPT ![t].event = current, ![t].archived = FALSE, ![t].game = g]
  /\ roster' = [roster EXCEPT ![t] = Kept(t, g, keep)]
  /\ invites' = {i \in invites : i.team # t}
  /\ UNCHANGED <<current, closed, cup>>

(* roster_size_allowed *)
SizeAllowed(c, n, forStart) ==
  /\ n \in 1..Size[GameOf(c)]
  /\ Rule[c] = "STRICT" \/ (Rule[c] = "BY_START" /\ forStart) => n = Size[GameOf(c)]

NobodyTwice(t, entries) == \A s \in entries \ {t} : Players(s) \cap Players(t) = {}

(* can_register, and the entry that register_team makes under the locks.     *)
CupTakes(c, t) ==
  /\ cup[c].status = "open" /\ EventOf(c) \notin closed
  /\ t \notin cup[c].entries /\ Cardinality(cup[c].entries) < Places[c]

EnterCup(c, t) ==
  /\ cup' = [cup EXCEPT ![c].entries = @ \cup {t}]
  /\ UNCHANGED <<current, closed>>

(* register_team, by the captain of players who are checked in or by the     *)
(* tournament direction.                                                     *)
RegisterTeam(c, t) ==
  LET row == [team[t] EXCEPT !.event = EventOf(c)] IN
  /\ Size[GameOf(c)] > 1 /\ IsTeam(t) /\ ~team[t].archived
  /\ CupTakes(c, t)
  /\ team[t].game = GameOf(c)
  /\ team[t].event \in {NoOne, EventOf(c)}
  /\ \A u \in Players(t) : ~account[u].deleted /\ ~account[u].banned
  /\ SizeAllowed(c, Strength(t), FALSE)
  /\ NobodyTwice(t, cup[c].entries)
  /\ team' = [team EXCEPT ![t] = row]
  /\ invites' = IF team[t].event = NoOne THEN AfterSave(invites, t, row) ELSE invites
  /\ EnterCup(c, t)
  /\ UNCHANGED roster

(* _get_or_reactivate_solo_team: the player's team for a game of one, a solo *)
(* team of the archive (one of this event before the others), or a new one.  *)
OwnTeams(u, g) ==
  {t \in TeamIds : IsTeam(t) /\ team[t].game = g /\ (team[t].captain = u \/ Plays(u, t))}

SoloArchive(u, c) ==
  LET all == {t \in OwnTeams(u, GameOf(c)) : team[t].archived /\ team[t].solo /\ team[t].captain = u}
      here == {t \in all : team[t].event = EventOf(c)}
  IN IF here # {} THEN here ELSE all

SoloTeam(u, c, t) ==
  LET active == {s \in OwnTeams(u, GameOf(c)) : ~team[s].archived} IN
  \/ active = {t} /\ team[t].captain = u /\ team[t].event \in {NoOne, EventOf(c)}
  \/ active = {} /\ t \in SoloArchive(u, c)
  \/ active = {} /\ SoloArchive(u, c) = {} /\ ~IsTeam(t) /\ \A s \in 1..(t - 1) : IsTeam(s)

(* Nothing binds the team to where it was.                                   *)
Movable(t, e) ==
  /\ Players(t) # {} => Players(t) = {team[t].captain}
  /\ team[t].archived \/ team[t].event # e => ~Locked(t)
  /\ team[t].event # e => \A c \in Cups : t \in cup[c].entries => EventOf(c) = e \/ cup[c].status = "over"

(* register_team for a game of one, by the player or the direction.          *)
RegisterSolo(u, c, t) ==
  LET row == [game |-> GameOf(c), captain |-> u, event |-> EventOf(c), archived |-> FALSE,
              solo |-> IsTeam(t) => team[t].solo, emptied |-> IsTeam(t) /\ team[t].emptied]
      open == IF IsTeam(t) /\ ~team[t].archived /\ team[t].event = EventOf(c) THEN invites
              ELSE AfterSave(invites, t, row)
  IN
  /\ Size[GameOf(c)] = 1 /\ Able(u)
  /\ CupTakes(c, t)
  /\ SoloTeam(u, c, t)
  /\ IsTeam(t) => Movable(t, EventOf(c))
  /\ NobodyTwice(t, cup[c].entries)
  /\ team' = [team EXCEPT ![t] = row]
  /\ roster' = [roster EXCEPT ![t] = Admitted(@, {u})]
  /\ invites' = AfterJoin(open, t, GameOf(c), {u})
  /\ EnterCup(c, t)

(* unregister_team *)
Unregister(c, t) ==
  /\ cup[c].status = "open" /\ t \in cup[c].entries
  /\ cup' = [cup EXCEPT ![c].entries = @ \ {t}]
  /\ UNCHANGED <<team, roster, invites, current, closed>>

(* tournament_register and tournament_unregister *)
EntryPage(us, c, t) == RegisterTeam(c, t) \/ Unregister(c, t) \/ \E u \in us : RegisterSolo(u, c, t)

(* validate_start_roster *)
Fit(t, c) ==
  /\ ~team[t].archived /\ team[t].game = GameOf(c) /\ team[t].event \in {NoOne, EventOf(c)}
  /\ SizeAllowed(c, Strength(t), TRUE)
  /\ Plays(team[t].captain, t)
  /\ \A u \in Players(t) : Able(u)
  /\ NobodyTwice(t, cup[c].entries)

(* generate_bracket *)
StartCup(c) ==
  /\ cup[c].status = "open" /\ EventOf(c) \notin closed
  /\ Cardinality(cup[c].entries) >= 2
  /\ \A t \in cup[c].entries : Fit(t, c)
  /\ cup' = [cup EXCEPT ![c].status = "running", ![c].rounds = c \in SwissCups]
  /\ invites' = {i \in invites : i.team \notin cup[c].entries}
  /\ UNCHANGED <<team, roster, current, closed>>

(* The last result, and its correction; reset_bracket; the confirmation, or  *)
(* a cancellation at any time.                                               *)
ProceedCup(c) ==
  /\ \/ /\ InPlay(c) /\ EventOf(c) \notin closed
        /\ \E s \in {"open", "running", "review"} \ {cup[c].status} :
             cup' = [cup EXCEPT ![c].status = s, ![c].rounds = (s # "open" /\ c \in SwissCups)]
     \/ /\ cup[c].status # "over"
        /\ cup' = [cup EXCEPT ![c].status = "over"]
  /\ UNCHANGED <<team, roster, invites, current, closed>>

(* archive_teams_for_event *)
ArchivedWith(e) ==
  LET entered == UNION {cup[c].entries : c \in {d \in Cups : EventOf(d) = e}} IN
  {t \in TeamIds : IsTeam(t) /\ ~team[t].archived /\ (team[t].event = e \/ (team[t].event = NoOne /\ t \in entered))}

(* finish_event, also of an event that is over already.                      *)
FinishEvent(e) ==
  LET gone == ArchivedWith(e) IN
  /\ \A c \in Cups : EventOf(c) = e => cup[c].status = "over"
  /\ closed' = closed \cup {e}
  /\ current' = IF current = e THEN NoOne ELSE current
  /\ team' = [t \in TeamIds |-> IF t \in gone THEN [team[t] EXCEPT !.archived = TRUE, !.event = e] ELSE team[t]]
  /\ invites' = {i \in invites : i.team \notin gone /\ e \notin {i.event, team[i.team].event}}
  /\ UNCHANGED <<roster, cup>>

(* The end of an event passes; another one becomes the active one.           *)
EventEnds(e) ==
  /\ e \notin closed
  /\ closed' = closed \cup {e}
  /\ UNCHANGED <<team, roster, invites, current, cup>>

ActivateEvent(e) ==
  /\ e \notin closed /\ e # current
  /\ current' = e
  /\ UNCHANGED <<team, roster, invites, closed, cup>>

-----------------------------------------------------------------------------
(* _leave_teams of an account that is deleted.                               *)

TeamsOf(u) == {t \in TeamIds : IsTeam(t) /\ (team[t].captain = u \/ Plays(u, t))}
MayLeaveTeams(u) == \A t \in TeamsOf(u) : ~Locked(t)

Heirs(u, t) == {v \in Players(t) \ {u} : ~account[v].deleted}
HasHistory(t) == \E c \in Cups : t \in cup[c].entries /\ cup[c].status = "over"

LeaveTeams(u) ==
  LET inherited == {t \in TeamsOf(u) : Heirs(u, t) # {}}
      kept == {t \in TeamsOf(u) \ inherited : HasHistory(t)}
      gone == TeamsOf(u) \ (inherited \cup kept)
      thin == kept \cup {t \in inherited : Cardinality(Heirs(u, t)) < Size[team[t].game]}
      row(t) == IF t \in inherited /\ team[t].captain = u THEN [team[t] EXCEPT !.captain = Oldest(roster[t], Heirs(u, t))]
                ELSE IF t \in kept THEN [team[t] EXCEPT !.archived = TRUE]
                ELSE team[t]
  IN
  /\ team' = [t \in TeamIds |-> IF t \in gone THEN NoOne ELSE row(t)]
  /\ roster' = [t \in TeamIds |-> IF t \in gone THEN NobodyYet ELSE IF t \in kept THEN Only(roster[t], Players(t))
                                   ELSE Without(roster[t], u)]
  /\ cup' = [c \in Cups |-> [cup[c] EXCEPT !.entries =
                @ \ (IF cup[c].status = "over" THEN gone ELSE gone \cup thin)]]
  /\ invites' = {i \in invites : i.user # u /\ team[i.team].captain # u /\ i.team \notin kept \cup gone}
  /\ UNCHANGED <<current, closed>>

-----------------------------------------------------------------------------

(* Teams are for the games gs; the events in over may end.                  *)
TeamsNext(us, gs, over) ==
  \/ \E u \in us, t \in TeamIds :
       \/ \E g \in gs : CreateTeam(u, t, g)
       \/ JoinByCode(u, t) \/ Apply(u, t) \/ AcceptApplication(u, t) \/ Dismiss(u, t)
       \/ LeaveTeam(u, t, Without(roster[t], u)) \/ Invite(u, t)
  \/ \E t \in TeamIds :
       \/ \E vs \in SUBSET us \ {{}} : AddClanMembers(t, vs)
       \/ \E g \in gs, keep \in SUBSET DOMAIN roster[t] : Reactivate(t, g, keep)
       \/ \E c \in Cups : EntryPage(us, c, t)
  \/ \E i \in invites : AcceptInvitation(i) \/ CloseInvitation(i)
  \/ \E c \in Cups : StartCup(c) \/ ProceedCup(c)
  \/ \E e \in over : FinishEvent(e) \/ EventEnds(e)
  \/ \E e \in Events : ActivateEvent(e)

-----------------------------------------------------------------------------

(* Nobody plays in two active teams for one game; a team has no more players *)
(* than the game has, and its captain among them; no player is in a          *)
(* tournament twice, and what is played has teams that could start, each     *)
(* with a captain who plays; an open invitation is for somebody outside an   *)
(* active team that may still change. Excepted is a team whose last player   *)
(* left and whose row was kept for the standings of a Swiss tournament: it   *)
(* keeps its captain and its entries, and may be reactivated like that       *)
(* (tournaments/models.py:666-671, 698). What it must not do is play.        *)
OneTeamPerGame ==
  \A s, t \in TeamIds :
    /\ IsTeam(s) /\ IsTeam(t) /\ s # t
    /\ ~team[s].archived /\ ~team[t].archived /\ team[s].game = team[t].game
    => Players(s) \cap Players(t) = {}

TeamsLed ==
  \A t \in TeamIds : IsTeam(t) => /\ Plays(team[t].captain, t) \/ team[t].emptied
                                  /\ Strength(t) <= Size[team[t].game]

FieldsFair ==
  \A c \in Cups : cup[c].status # "over" =>
    LET fair == {t \in cup[c].entries : InPlay(c) \/ ~team[t].emptied} IN
    \A t \in fair :
      /\ IsTeam(t) /\ ~team[t].archived
      /\ \A s \in fair \ {t} : Players(s) \cap Players(t) = {}
      /\ InPlay(c) => SizeAllowed(c, Strength(t), TRUE) /\ Plays(team[t].captain, t)

InvitesOpen ==
  \A i \in invites :
    /\ IsTeam(i.team) /\ ~team[i.team].archived
    /\ ~Plays(i.user, i.team) /\ ~account[i.user].deleted
    /\ \A c \in Cups : InPlay(c) => i.team \notin cup[c].entries

TeamsSound == OneTeamPerGame /\ TeamsLed /\ FieldsFair /\ InvitesOpen

(* No order of requests changes the players or the captain of a team that is *)
(* in a tournament which is played or under review.                          *)
RostersLocked ==
  [][\A c \in Cups : InPlay(c) => \A t \in cup[c].entries :
       /\ t \in cup'[c].entries
       /\ Players(t)' = Players(t) /\ team'[t].captain = team[t].captain]_<<teamVars, account>>
=============================================================================
