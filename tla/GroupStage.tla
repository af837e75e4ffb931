----------------------------- MODULE GroupStage -----------------------------
(***************************************************************************)
(* A league, or two groups with playoffs, from registration to the        *)
(* confirmed result: the schedule (tournaments/services/brackets.py), the  *)
(* tables and the qualification (services/standings.py), results and       *)
(* corrections (services/matches.py, services/results.py), the release of  *)
(* the playoffs (services/lifecycle.py), withdrawals (services/forfeits.py)*)
(* and the deletion of a team (models.py).                                 *)
(*                                                                         *)
(* Every service locks Event -> Tournament and is one transaction, hence   *)
(* one action.  The playoffs are filled as soon as the groups are decided  *)
(* and stay a proposal until they are released: until then corrections and *)
(* withdrawals rebuild them, afterwards they must not change who plays.    *)
(*                                                                         *)
(* Teams are named by their place in the draw; the names of the teams sort *)
(* the other way round, so that the tiebreaks by seed and by name differ.  *)
(***************************************************************************)
EXTENDS MatchTree

CONSTANTS
  MaxTeams,     \* bound: the teams that may register
  MaxLeague,    \* bound: those of them that may register for a league
  Modes,        \* the modes explored: "LEAGUE", "GROUP_STAGE"
  Tiebreaks,    \* tournament.standings_tiebreak: "LEGACY", "SHARED", "HEAD_TO_HEAD"
  Qualifiers,   \* tournament.group_qualifiers_per_group: 0 (by size), 1, 2
  ThirdPlace,   \* tournament.play_third_place
  Results,      \* bound: the results <<score1, score2, winning slot or 0>> entered
  Starting,     \* bound: the types of the matches that are started before a result
  Moving,       \* bound: the teams that withdraw
  Deletable     \* bound: the teams that are deleted

Teams == 1..MaxTeams

\* The constants have values that make sense (assumed where they get them).
Bounds ==
  /\ MaxTeams \in Nat \ {0, 1} /\ MaxLeague \in Teams
  /\ Modes \subseteq {"LEAGUE", "GROUP_STAGE"} /\ Modes # {}
  /\ Tiebreaks \subseteq {"LEGACY", "SHARED", "HEAD_TO_HEAD"} /\ Tiebreaks # {}
  /\ Qualifiers \subseteq {0, 1, 2} /\ Qualifiers # {}
  /\ ThirdPlace \in BOOLEAN
  /\ \A r \in Results : /\ r \in Nat \X Nat \X {0, 1, 2}
                        /\ r[3] = 0 => r[1] = r[2]   \* a draw has equal scores
  /\ Starting \subseteq {"GROUP", "FINAL", "THIRD_PLACE"}
  /\ Moving \subseteq Teams /\ Deletable \subseteq Teams

VARIABLES
  mode,       \* tournament.mode
  rules,      \* tournament.standings_tiebreak and group_qualifiers_per_group
  status,     \* tournament.status; DRAFT, REGISTRATION_OPEN and _CLOSED are one
  released,   \* tournament.playoffs_released_at is set
  match,      \* the tournament's matches by <<bracket_type, round, number>>; a
              \* group match is <<"GROUP", group, number>>
  score,      \* the scores of the group matches
  group,      \* registration.group_name: 1, 2, or 0
  entered,    \* the teams with a registration
  withdrawn   \* the registrations with is_forfeited

vars == <<mode, rules, status, released, match, score, group, entered, withdrawn>>

-----------------------------------------------------------------------------
(***************************************************************************)
(* Schedule and playoffs.                                                  *)
(***************************************************************************)

\* generate_round_robin_schedule: the first place is fixed, the others rotate;
\* whoever meets nobody has no match in that round.
Rotated(c) == <<c[1], c[Len(c)]>> \o SubSeq(c, 2, Len(c) - 1)

RoundRobin(teams) ==
  LET full == IF Len(teams) % 2 = 0 THEN teams ELSE Append(teams, NoTeam)
      n == Len(full)
      circle[r \in Nat] == IF r <= 1 THEN full ELSE Rotated(circle[r - 1])
      pair(r, i) == IF r % 2 = 1 THEN <<circle[r][i], circle[r][n + 1 - i]>>
                                 ELSE <<circle[r][n + 1 - i], circle[r][i]>>
      played(r) == SelectSeq([i \in 1..(n \div 2) |-> pair(r, i)],
                             LAMBDA p : NoTeam \notin {p[1], p[2]})
      upTo[r \in Nat] == IF r = 0 THEN <<>> ELSE upTo[r - 1] \o played(r)
  IN upTo[n - 1]

\* The snake of the draw: places 1, 4, 5, 8, ... and 2, 3, 6, 7, ...
SnakeGroup(i) == IF i % 4 \in {0, 1} THEN 1 ELSE 2

Semi(n) == <<"FINAL", 2, n>>      \* without semifinals, Semi(1) is the final
FinalMatch == <<"FINAL", 3, 1>>
BronzeMatch == <<"THIRD_PLACE", 3, 1>>

PlayoffOrder(semis) ==
  IF ~semis THEN <<Semi(1)>>
  ELSE <<Semi(1), Semi(2), FinalMatch>> \o (IF ThirdPlace THEN <<BronzeMatch>> ELSE <<>>)

PlayoffTree == [semis \in BOOLEAN |->
  LET order == PlayoffOrder(semis)
      to(m, w) == IF semis /\ m[2] = 2 /\ (w = 1 \/ ThirdPlace)
                  THEN {<<IF w = 1 THEN FinalMatch ELSE BronzeMatch, m[3]>>} ELSE {}
  IN Linked(order, [m \in {order[i] : i \in DOMAIN order} |-> <<to(m, 1), to(m, 2)>>])]

\* The preview of the playoffs: group and place for the first round, then whose
\* winner (1) or loser (2) is awaited.
PreviewSeats(semis) ==
  IF semis THEN <<<<<<1, 1>>, <<2, 2>>>>, <<<<2, 1>>, <<1, 2>>>>>> ELSE <<<<<<1, 1>>, <<2, 1>>>>>>

PreviewLater(semis) ==
  [m \in {PlayoffOrder(semis)[i] : i \in 3..Len(PlayoffOrder(semis))} |->
     LET out == IF m = FinalMatch THEN 1 ELSE 2 IN <<<<Semi(1), out>>, <<Semi(2), out>>>>]

IsGroup(m) == m[1] = "GROUP"
GroupMatches(b) == {m \in DOMAIN b : IsGroup(m)}
Playoffs(b) == {m \in DOMAIN b : ~IsGroup(m)}
GroupsDecided(b) == \A m \in GroupMatches(b) : Completed(b, m)

Known(b, gone) == [tree |-> PlayoffTree[Semi(2) \in DOMAIN b], gone |-> gone]

-----------------------------------------------------------------------------
(***************************************************************************)
(* Tables (_calculate_standings_base).  A field f is what a table is made  *)
(* of: the matches b and scores sc, the groups gr, the withdrawn teams and *)
(* the tiebreak.                                                           *)
(***************************************************************************)

Field(b, sc, gr, gone) ==
  [b |-> b, sc |-> sc, gr |-> gr, gone |-> gone, tiebreak |-> rules.tiebreak]

InGroup(f, g) == {t \in Teams : f.gr[t] = g}

\* The decided meetings of teams in S, and those of team t among them.
Meetings(f, S) ==
  {m \in GroupMatches(f.b) : Completed(f.b, m) /\ {f.b[m].team[1], f.b[m].team[2]} \subseteq S}
Of(f, ms, t) == {m \in ms : t \in {f.b[m].team[1], f.b[m].team[2]}}

Total(op(_), S) == FoldSet(LAMBDA m, sum : sum + op(m), 0, S)

\* One line of a table over the matches ms of team t.
Earned(rec, t) == IF rec.winner = t THEN 3 ELSE IF rec.winner = NoTeam THEN 1 ELSE 0
SlotOfTeam(rec, t) == IF rec.team[1] = t THEN 1 ELSE 2

Row(f, ms, t) ==
  LET slot(m) == SlotOfTeam(f.b[m], t)
  IN [team   |-> t,
      gone   |-> t \in f.gone,
      points |-> Total(LAMBDA m : Earned(f.b[m], t), ms),
      diff   |-> Total(LAMBDA m : f.sc[m][slot(m)] - f.sc[m][3 - slot(m)], ms),
      made   |-> Total(LAMBDA m : f.sc[m][slot(m)], ms)]

Rows(f, ms, S) == {Row(f, Of(f, ms, t), t) : t \in S}

\* The active teams level on points with a row.
Level(rows, row) == {r.team : r \in {q \in rows : q.points = row.points /\ ~q.gone}}

\* The mini-table of level teams, once all of them have met.
NoMini == [points |-> 0, diff |-> 0, made |-> 0]

Mini(f, t, level, met) ==
  IF 2 * Cardinality(met) = Cardinality(level) * (Cardinality(level) - 1)
  THEN Row(f, Of(f, met, t), t) ELSE NoMini

MiniOf(f, row, level) ==
  IF f.tiebreak # "HEAD_TO_HEAD" \/ row.gone THEN NoMini
  ELSE Mini(f, row.team, level, Meetings(f, level))

\* Mutant: direct comparison comes after the goals of all matches.
SortKeyLate(row, mini, byName) ==
  << IF row.gone THEN 1 ELSE 0, -row.points, -row.diff, -row.made,
     -mini.points, -mini.diff, -mini.made,
     IF byName THEN MaxTeams - row.team ELSE row.team >>

\* The sort key, smallest first: in a group the seed is the last criterion,
\* except in a LEGACY tournament, and the name everywhere else.
SortKey(row, mini, byName) ==
  << IF row.gone THEN 1 ELSE 0, -row.points, -mini.points, -mini.diff, -mini.made,
     -row.diff, -row.made, IF byName THEN MaxTeams - row.team ELSE row.team >>

Before(k, l) == \E i \in DOMAIN k : k[i] < l[i] /\ \A j \in 1..(i - 1) : k[j] = l[j]

Keyed(f, rows) ==
  {[team |-> row.team, gone |-> row.gone,
    key |-> SortKey(row, MiniOf(f, row, Level(rows, row)),
                    mode = "LEAGUE" \/ f.tiebreak = "LEGACY")] : row \in rows}

\* calculate_group_standings, calculate_league_standings: the table with places.
Placed(lines) ==
  {[team |-> line.team, gone |-> line.gone,
    place |-> 1 + Cardinality({other \in lines : Before(other.key, line.key)})] : line \in lines}

Table(f, S) == Placed(Keyed(f, Rows(f, Meetings(f, S), S)))

\* The active team in place i, if there is one.
At(table, i) ==
  LET there == {line \in table : ~line.gone /\ line.place = i}
  IN IF there = {} THEN NoTeam ELSE (CHOOSE line \in there : TRUE).team

Best(table, count) == IF count = 2 THEN <<At(table, 1), At(table, 2)>> ELSE <<At(table, 1)>>

\* qualification: the teams that the groups send into the playoffs.
Qualification(f) ==
  LET count == IF Semi(2) \in DOMAIN f.b THEN 2 ELSE 1
  IN <<Best(Table(f, InGroup(f, 1)), count), Best(Table(f, InGroup(f, 2)), count)>>

-----------------------------------------------------------------------------
(***************************************************************************)
(* From the groups to the playoffs.                                        *)
(***************************************************************************)

\* The pairs of the first round: A1-B2 and B1-A2, or A1-B1.
Pairs(q, semis) ==
  IF semis THEN <<<<q[1][1], q[2][2]>>, <<q[2][1], q[1][2]>>>> ELSE <<<<q[1][1], q[2][1]>>>>

Seated(b, m, pair) ==
  [b EXCEPT ![m].team = pair,
            ![m].status = IF NoTeam \in {pair[1], pair[2]} THEN @ ELSE "READY"]

SeatedAll(b, pairs) ==
  FoldLeft(LAMBDA c, n : Seated(c, Semi(n), pairs[n]), b, [n \in DOMAIN pairs |-> n])

\* check_and_advance_group_stage fills the playoffs unless they have begun.
Advances(b, rel) ==
  /\ ~rel
  /\ GroupMatches(b) # {} /\ GroupsDecided(b)
  /\ \A m \in Playoffs(b) : m[1] = "FINAL" => b[m].status \notin {"IN_PROGRESS", "COMPLETED"}

Filled(x, b, pairs) ==
  CheckAll(x, SeatedAll(b, pairs), {Semi(n) : n \in DOMAIN pairs})

AdvancedTo(f, rel, q) ==
  IF Advances(f.b, rel)
  THEN Filled(Known(f.b, f.gone), f.b, Pairs(q, Semi(2) \in DOMAIN f.b))
  ELSE f.b

Advanced(f, rel) == AdvancedTo(f, rel, Qualification(f))

\* reset_unreleased_playoffs, which refuses to touch what was started or played.
Blankable(f) ==
  \A m \in Playoffs(f.b) :
    /\ f.b[m].status # "IN_PROGRESS"
    /\ Completed(f.b, m) => Automatic(Known(f.b, f.gone), f.b, m)

Blanked(b) == FoldSet(LAMBDA m, c : [c EXCEPT ![m] = Open], b, Playoffs(b))
RebuiltTo(f, q) == AdvancedTo([f EXCEPT !.b = Blanked(f.b)], FALSE, q)
Rebuilt(f) == RebuiltTo(f, Qualification(f))

\* playoffs_locked
PlayoffsLocked(b, rel) ==
  \/ rel
  \/ \E m \in Playoffs(b) : b[m].status \in {"IN_PROGRESS", "COMPLETED"} /\ b[m].kind # "BYE"

-----------------------------------------------------------------------------
(***************************************************************************)
(* Results.                                                                *)
(***************************************************************************)

Now(gone) == Field(match, score, group, gone)

\* update_match_score on a group match: the result r, then what it means for the
\* playoffs.  A released or begun playoff only admits results that leave the
\* qualification as it was; before that a new qualification rebuilds them.
GroupResult(f, m, r, kind) ==
  LET t == f.b[m].team
      up == IF r[3] = 0 THEN NoTeam ELSE t[r[3]]
      down == IF r[3] = 0 THEN NoTeam ELSE t[3 - r[3]]
  IN [f EXCEPT !.b[m] = Over(@, kind, up, down), !.sc[m] = <<r[1], r[2]>>]

\* was and is: the qualification before and after the result.
Acceptable(f, new, was, is, m) ==
  mode = "GROUP_STAGE" /\ is # was =>
    /\ ~PlayoffsLocked(f.b, released)
    /\ Completed(f.b, m) => Blankable(new)

AfterGroupResult(f, new, was, is, m) ==
  IF mode = "LEAGUE" \/ PlayoffsLocked(f.b, released) THEN new.b
  ELSE IF Completed(f.b, m) /\ is # was THEN RebuiltTo(new, is)
  ELSE AdvancedTo(new, released, is)

\* forfeit_team_in_active_tournaments for team t: its open group matches are
\* lost 0:1; then the unreleased playoffs are rebuilt, or the released ones
\* decided without it.
LostBy(f, new, m) ==
  [new EXCEPT !.b = AfterGroupResult(f, new, Qualification(f), Qualification(new), m)]

Lost(f, m, t) ==
  LET r == IF f.b[m].team[1] = t THEN <<0, 1, 2>> ELSE <<1, 0, 1>>
  IN LostBy(f, GroupResult(f, m, r, "WALKOVER"), m)

OpenGroupMatches(b, t) ==
  SetToSeq({m \in GroupMatches(b) : ~Completed(b, m) /\ t \in {b[m].team[1], b[m].team[2]}})

GroupsLost(f, t) ==
  FoldLeft(LAMBDA h, m : Lost(h, m, t), f, OpenGroupMatches(f.b, t))

AfterWithdrawal(f, t) ==
  IF mode = "LEAGUE" THEN f.b
  ELSE IF released THEN Forfeited(Known(f.b, f.gone), f.b, t)
  ELSE Rebuilt(f)

-----------------------------------------------------------------------------
(***************************************************************************)
(* The services.                                                           *)
(***************************************************************************)

Init ==
  /\ mode \in Modes
  /\ rules \in [tiebreak : Tiebreaks, qualifiers : IF mode = "LEAGUE" THEN {0} ELSE Qualifiers]
  /\ status = "REGISTRATION_OPEN"
  /\ released = FALSE
  /\ match = <<>>
  /\ score = <<>>
  /\ group = [t \in Teams |-> 0]
  /\ entered = {}
  /\ withdrawn = {}

Generated == DOMAIN match # {}
Running == status \in {"IN_PROGRESS", "RESULTS_REVIEW"}

Register(t) ==
  /\ status = "REGISTRATION_OPEN"
  /\ t \notin entered
  /\ mode = "LEAGUE" => t <= MaxLeague
  /\ entered' = entered \cup {t}
  /\ UNCHANGED <<mode, rules, status, released, match, score, group, withdrawn>>

Unregister(t) ==
  /\ ~Generated
  /\ t \in entered
  /\ entered' = entered \ {t}
  /\ withdrawn' = withdrawn \ {t}
  /\ group' = [group EXCEPT ![t] = 0]
  /\ UNCHANGED <<mode, rules, status, released, match, score>>

\* _generate_group_stage: at least four teams; two of a group go on when there are
\* eight, or when the tournament says so.
HasSemifinals(n) == rules.qualifiers = 2 \/ (rules.qualifiers = 0 /\ n >= 8)
EnoughTeams(n) == n >= IF mode = "LEAGUE" THEN 2 ELSE 4

\* _generate_league and _generate_group_stage
Scheduled(teams, groups, semis) ==
  LET places(g) == SelectSeq(teams, LAMBDA t : groups[t] = g)
      games(g) == IF places(g) = <<>> THEN <<>> ELSE RoundRobin(places(g))
      ready(pair) == [Open EXCEPT !.team = pair, !.status = "READY"]
      groupIds == UNION {{<<"GROUP", g, n>> : n \in DOMAIN games(g)} : g \in {1, 2}}
      finals == IF mode = "LEAGUE" THEN {}
                ELSE {PlayoffOrder(semis)[i] : i \in DOMAIN PlayoffOrder(semis)}
  IN [m \in groupIds \cup finals |-> IF IsGroup(m) THEN ready(games(m[2])[m[3]]) ELSE Open]

Generate ==
  LET eligible == entered \ withdrawn
      teams == SelectSeq([i \in Teams |-> i], LAMBDA t : t \in eligible)
      place(t) == CHOOSE i \in DOMAIN teams : teams[i] = t
      groups == [t \in Teams |-> IF t \notin eligible THEN group[t]
                                 ELSE IF mode = "LEAGUE" THEN 1 ELSE SnakeGroup(place(t))]
  IN /\ status = "REGISTRATION_OPEN"
     /\ EnoughTeams(Len(teams))
     /\ group' = groups
     /\ match' = Scheduled(teams, groups, HasSemifinals(Len(teams)))
     /\ score' = [m \in GroupMatches(match') |-> <<0, 0>>]
     /\ status' = "IN_PROGRESS"
     /\ UNCHANGED <<mode, rules, released, entered, withdrawn>>

\* require_editable
Editable(m) ==
  /\ Running
  /\ NoTeam \notin {match[m].team[1], match[m].team[2]}
  /\ ~Automatic(Known(match, withdrawn), match, m)
  /\ IsGroup(m) \/ released

StartMatch(m) ==
  /\ m[1] \in Starting
  /\ Editable(m)
  /\ match[m].status = "READY"
  /\ match' = [match EXCEPT ![m].status = "IN_PROGRESS"]
  /\ UNCHANGED <<mode, rules, status, released, score, group, entered, withdrawn>>

\* update_match_score on a group match: a first result, or a correction.
Recorded(f, new, was, is, m) ==
  /\ Acceptable(f, new, was, is, m)
  /\ match' = AfterGroupResult(f, new, was, is, m)
  /\ score' = new.sc
  /\ status' = Reviewed(match')

ScoreGroupMatch(m, r, was) ==
  LET f == Now(withdrawn)
      new == GroupResult(f, m, r, "PLAYED")
  IN /\ Editable(m)
     /\ Recorded(f, new, was, Qualification(new), m)
     /\ UNCHANGED <<mode, rules, released, group, entered, withdrawn>>

\* update_match_score on a playoff match, as in a knockout tree.
ScorePlayoff(m, s) ==
  LET x == Known(match, withdrawn)
      set == [match EXCEPT ![m] = Over(@, "PLAYED", @.team[s], @.team[3 - s])]
  IN /\ Editable(m)
     /\ Corrects(match, m, s) => Repairable(x, set, m)
     /\ match' = Scored(x, match, m, s, "PLAYED")
     /\ status' = Reviewed(match')
     /\ UNCHANGED <<mode, rules, released, score, group, entered, withdrawn>>

\* release_playoffs
ReleasePlayoffs ==
  /\ status = "IN_PROGRESS" /\ mode = "GROUP_STAGE" /\ ~released
  /\ GroupMatches(match) # {} /\ GroupsDecided(match)
  /\ match' = Advanced(Now(withdrawn), released)
  /\ released' = TRUE
  /\ UNCHANGED <<mode, rules, status, score, group, entered, withdrawn>>

\* The status after a withdrawal: every forfeited match synchronises it, the
\* end only when all is decided.
AfterSync(lost, left) ==
  IF AllCompleted(left) THEN "RESULTS_REVIEW"
  ELSE IF lost = match THEN status ELSE Reviewed(lost)

Refusing(b) == mode = "GROUP_STAGE" /\ ~released /\ ~Blankable(b)

\* forfeit_team_in_active_tournaments: lost is the field with the group matches
\* lost, left the matches in the end.
WithdrawnTo(lost, left) ==
  /\ ~Refusing(lost)
  /\ match' = left
  /\ score' = lost.sc
  /\ status' = AfterSync(lost.b, left)

WithdrawnAs(lost, t) == WithdrawnTo(lost, AfterWithdrawal(lost, t))

Withdraw(t) ==
  /\ t \in entered
  /\ status \notin {"FINISHED", "CANCELLED"}
  /\ withdrawn' = withdrawn \cup {t}
  /\ IF Generated THEN WithdrawnAs(GroupsLost(Now(withdrawn \cup {t}), t), t)
     ELSE UNCHANGED <<match, score, status>>
  /\ UNCHANGED <<mode, rules, released, group, entered>>

\* Team.delete(force=True): withdrawn from a running tournament, then every
\* reference to the team is emptied and its registration goes with it.
Without(b, t) ==
  LET un(v) == IF v = t THEN NoTeam ELSE v
  IN [m \in DOMAIN b |-> [b[m] EXCEPT !.team = <<un(@[1]), un(@[2])>>,
                                      !.winner = un(@), !.loser = un(@)]]

DeletedTo(lost, left, t) ==
  /\ ~Refusing(lost)
  /\ match' = Without(left, t)
  /\ score' = lost.sc
  /\ status' = AfterSync(lost.b, left)

DeletedAs(lost, t) == DeletedTo(lost, AfterWithdrawal(lost, t), t)

DeleteTeam(t) ==
  /\ t \in entered
  /\ IF Generated /\ Running THEN DeletedAs(GroupsLost(Now(withdrawn \cup {t}), t), t)
     ELSE match' = Without(match, t) /\ UNCHANGED <<score, status>>
  /\ entered' = entered \ {t}
  /\ withdrawn' = withdrawn \ {t}
  /\ group' = [group EXCEPT ![t] = 0]
  /\ UNCHANGED <<mode, rules, released>>

ConfirmResults ==
  /\ Running
  /\ Reviewed(match) = "RESULTS_REVIEW"
  /\ status' = "FINISHED"
  /\ UNCHANGED <<mode, rules, released, match, score, group, entered, withdrawn>>

CancelTournament ==
  /\ status \notin {"FINISHED", "CANCELLED"}
  /\ status' = "CANCELLED"
  /\ UNCHANGED <<mode, rules, released, match, score, group, entered, withdrawn>>

\* reset_bracket: nothing but byes may be decided; the registrations keep their
\* group until the next generation.
ResetBracket ==
  /\ Running
  /\ \A m \in DOMAIN match : Completed(match, m) => match[m].kind = "BYE"
  /\ match' = <<>>
  /\ score' = <<>>
  /\ released' = FALSE
  /\ status' = "REGISTRATION_OPEN"
  /\ UNCHANGED <<mode, rules, group, entered, withdrawn>>

Next ==
  \/ \E t \in Teams : Register(t) \/ Unregister(t)
  \/ \E t \in Moving : Withdraw(t)
  \/ \E t \in Deletable : DeleteTeam(t)
  \/ \E m \in DOMAIN match : StartMatch(m)
  \/ \E m \in GroupMatches(match), r \in Results :
       ScoreGroupMatch(m, r, Qualification(Now(withdrawn)))
  \/ \E m \in Playoffs(match), s \in {1, 2} : ScorePlayoff(m, s)
  \/ Generate
  \/ ReleasePlayoffs
  \/ ConfirmResults
  \/ CancelTournament
  \/ ResetBracket

Spec == Init /\ [][Next]_vars

-----------------------------------------------------------------------------
(***************************************************************************)
(* Properties.                                                             *)
(***************************************************************************)

\* The type of the state.
TypeOK ==
  /\ mode \in Modes /\ released \in BOOLEAN
  /\ status \in {"REGISTRATION_OPEN", "IN_PROGRESS", "RESULTS_REVIEW", "FINISHED", "CANCELLED"}
  /\ withdrawn \subseteq entered /\ entered \subseteq Teams
  /\ group \in [Teams -> {0, 1, 2}]
  /\ DOMAIN score = GroupMatches(match)
  /\ released => Generated /\ mode = "GROUP_STAGE"
  /\ \A m \in DOMAIN match :
       /\ match[m].team \in (Teams \cup {NoTeam}) \X (Teams \cup {NoTeam})
       /\ {match[m].winner, match[m].loser} \subseteq {match[m].team[1], match[m].team[2], NoTeam}
       /\ match[m].status \in {"PENDING", "READY", "IN_PROGRESS", "COMPLETED"}
       /\ match[m].kind \in {"PLAYED", "BYE", "WALKOVER", "DOUBLE_FORFEIT"}

\* A team of the draw was deleted: its results no longer count in the table.
Gap == \E m \in GroupMatches(match) : NoTeam \in {match[m].team[1], match[m].team[2]}

\* Until they are released the playoffs are what the present results of the
\* groups make them, whatever was corrected, withdrawn or decided by byes on the
\* way: empty while a group match is open, then the qualified teams.
PlayoffsFollowGroups ==
  Running /\ mode = "GROUP_STAGE" /\ ~released /\ ~Gap => match = Rebuilt(Now(withdrawn))

\* docs/tournament-result-management.md: the release locks the qualification.
\* Every team still in the tournament that the release put into the first round
\* of the playoffs is, by the results as they stand now, among the qualified
\* teams of its group, and no team is there twice.
Seats == {p \in {1, 2} \X {1, 2} : Semi(p[1]) \in DOMAIN match}
Seat(p) == match[Semi(p[1])].team[p[2]]
LiveSeats == {p \in Seats : Seat(p) \in entered \ withdrawn}

AllAmong(q, ps) == \A p \in ps : \E g \in {1, 2} : \E i \in DOMAIN q[g] : q[g][i] = Seat(p)

ReleasedQualified ==
  released /\ Running /\ ~Gap =>
    /\ AllAmong(Qualification(Now(withdrawn)), LiveSeats)
    /\ \A p, q \in LiveSeats : Seat(p) = Seat(q) => p = q

\* A withdrawal never blocks the playoffs: what waits, waits for an open match,
\* and what can be played has two teams to play it.
NoStuckPlayoff ==
  Running /\ released => \A m \in Playoffs(match) :
    /\ match[m].status = "PENDING" =>
         \E s \in {1, 2} : \E e \in Feeds(Known(match, withdrawn), m, s) : ~Completed(match, e[1])
    /\ match[m].status \in {"READY", "IN_PROGRESS"} =>
         {match[m].team[1], match[m].team[2]} \subseteq entered \ withdrawn

\* The tournament is in review exactly while every match is decided.
ReviewExact ==
  /\ Running => status = Reviewed(match)
  /\ status = "FINISHED" => AllCompleted(match)

\* Two active teams level on points with nobody else: when they have met and one
\* has won, direct comparison puts it in front, whatever the goals against others.
InFront(table, t, u) ==
  \A a, b \in table : a.team = t /\ b.team = u => a.place < b.place

Duels(f, rows) ==
  {m \in Meetings(f, {r.team : r \in rows}) : \E r \in rows :
     Level(rows, r) = {f.b[m].winner, f.b[m].loser} /\ NoTeam # f.b[m].winner}

DuelsDecide(f, rows) ==
  \A m \in Duels(f, rows) : InFront(Placed(Keyed(f, rows)), f.b[m].winner, f.b[m].loser)

DirectComparison ==
  Running /\ rules.tiebreak = "HEAD_TO_HEAD" =>
    \A g \in {1, 2} :
      LET f == Now(withdrawn)
      IN DuelsDecide(f, Rows(f, Meetings(f, InGroup(f, g)), InGroup(f, g)))

\* The playoffs that generation writes are the ones the preview shows.
GeneratedAsShown ==
  LET semis == Semi(2) \in DOMAIN match'
      later == PreviewLater(semis)
      named == <<<<<<1, 1>>, <<1, 2>>>>, <<<<2, 1>>, <<2, 2>>>>>>
  IN mode = "GROUP_STAGE" =>
       /\ Playoffs(match') = DOMAIN later \cup {Semi(n) : n \in DOMAIN PreviewSeats(semis)}
       /\ Pairs(named, semis) = PreviewSeats(semis)
       /\ \A m \in DOMAIN later, s \in {1, 2} : PlayoffTree[semis].feeds[m][s] = {later[m][s]}

\* Everybody who was drawn meets everybody in his group once, and nobody else.
Drawn == UNION {{match[m].team[1], match[m].team[2]} : m \in GroupMatches(match)}

EveryoneMeetsOnce ==
  Running /\ ~Gap => \A t, u \in Drawn : t # u =>
    Cardinality({m \in GroupMatches(match) : {match[m].team[1], match[m].team[2]} = {t, u}})
      = IF group[t] = group[u] THEN 1 ELSE 0

ByHand(m) ==
  \/ match[m].status = "IN_PROGRESS"
  \/ Completed(match, m) /\ ~Automatic(Known(match, withdrawn), match, m)

\* From the schedule to the final: the tables made from its results, the proposal,
\* the release, and what withdrawals and corrections may still do after it.
StageConsistent ==
  /\ EveryoneMeetsOnce /\ DirectComparison
  /\ PlayoffsFollowGroups /\ ReleasedQualified /\ NoStuckPlayoff /\ ReviewExact
=============================================================================
