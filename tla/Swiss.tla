------------------------------- MODULE Swiss -------------------------------
(***************************************************************************)
(* A tournament in the Swiss system (tournaments/services/swiss.py), with  *)
(* its results (services/matches.py, services/results.py), withdrawals     *)
(* (services/forfeits.py), reset and confirmation.                         *)
(*                                                                         *)
(* A round is drawn in two requests: a preview computes the pairs and signs*)
(* a token, the publication computes them again and compares the digest of *)
(* everything they depend on.  Between the two, results are entered or     *)
(* corrected, teams withdraw, the tournament is reset.  Every service locks*)
(* Event -> Tournament and is one transaction, hence one action.           *)
(***************************************************************************)
EXTENDS Integers, FiniteSets, Sequences, Functions, FiniteSetsExt

CONSTANTS
  MaxTeams,    \* bound: the teams that may register
  Rules,       \* tournament.swiss_rounds and tournament.swiss_allow_draws: the
               \* pairs explored
  Shuffles,    \* bound: the orders in which teams without a seed are shuffled, as
               \* the place of each
  Leaving,     \* bound: the teams that unregister
  Moving,      \* bound: the teams that withdraw
  Forfeitable  \* bound: the rounds in which results are entered as walkovers

Teams == 1..MaxTeams
NoTeam == 0

ASSUME BoundAssumption ==
  /\ MaxTeams \in Nat \ {0, 1}
  /\ Rules \subseteq (Nat \ {0}) \X BOOLEAN /\ Rules # {}
  /\ Shuffles # {} /\ Leaving \subseteq Teams /\ Moving \subseteq Teams /\ Forfeitable \subseteq Nat
  /\ \A o \in Shuffles : o \in [Teams -> Teams] /\ \A t, u \in Teams : o[t] = o[u] => t = u

VARIABLES
  rules,      \* the tournament's rules, fixed by its start
  status,     \* tournament.status; DRAFT, REGISTRATION_OPEN and _CLOSED are one
  entered,    \* the teams with a registration
  withdrawn,  \* the registrations with is_forfeited
  seed,       \* registration.seed, or 0
  rounds,     \* the published SwissRounds: their matches and standings_snapshot
  token       \* the preview an organiser holds, or NoToken

vars == <<rules, status, entered, withdrawn, seed, rounds, token>>

-----------------------------------------------------------------------------
(***************************************************************************)
(* Standings (SwissStandingService.calculate) from the rounds rs, with the *)
(* registrations gone withdrawn.                                           *)
(***************************************************************************)

SwissRounds == rules[1]
AllowDraws == rules[2]
Generated == rounds # <<>>

\* A match is named by its round and its teams: a pair, or one team with a bye.
Matches(rs) == {q \in (DOMAIN rs) \X SUBSET Teams : q[2] \in DOMAIN rs[q[1]].match}
At(rs, q) == rs[q[1]].match[q[2]]
Decided(rs, t) == {q \in Matches(rs) : t \in q[2] /\ At(rs, q).done}

Earned(m, t) == IF m.kind = "DOUBLE_FORFEIT" THEN 0
                ELSE IF m.winner = t THEN 3
                ELSE IF m.winner = NoTeam THEN 1 ELSE 0

Points(rs, t) == SumFunction([q \in Decided(rs, t) |-> Earned(At(rs, q), t)])

\* The rounds a withdrawn team misses count as draws for its opponents' strength.
Gap(a, b) == IF a < b THEN b - a ELSE a - b
Least(a, b) == IF a < b THEN a ELSE b
Missed(rs, t) == Len(rs) - Least(Len(rs), Cardinality(Decided(rs, t)))
Adjusted(rs, gone, t) == Points(rs, t) + IF t \in gone THEN Missed(rs, t) ELSE 0

\* What a match adds to the Buchholz number of team t with own points: a played
\* opponent's strength; else its own points, capped by the opponent or by the rounds.
Opponent(p, t) == CHOOSE o \in p : o # t
Strength(limit, rs, gone, q, t, own) ==
  LET cap == IF q[2] = {t} THEN limit ELSE Adjusted(rs, gone, Opponent(q[2], t))
  IN IF At(rs, q).kind = "PLAYED" THEN cap ELSE Least(own, cap)

Buchholz(limit, rs, gone, t, own) ==
  SumFunction([q \in Decided(rs, t) |-> Strength(limit, rs, gone, q, t, own)])
SonnebornBerger(limit, rs, gone, t, own) ==
  SumFunction([q \in Decided(rs, t) |->
                 Strength(limit, rs, gone, q, t, own) * Earned(At(rs, q), t)])

RowOf(limit, rs, gone, t, own) ==
  [points |-> own, buchholz |-> Buchholz(limit, rs, gone, t, own),
   berger |-> SonnebornBerger(limit, rs, gone, t, own), withdrawn |-> t \in gone]

Standings(limit, rs, gone, S) == [t \in S |-> RowOf(limit, rs, gone, t, Points(rs, t))]

Before(k, l) == \E i \in DOMAIN k : k[i] < l[i] /\ \A j \in 1..(i - 1) : k[j] = l[j]

\* The sort key of a team in the table rows, smallest first.
SortKey(rows, seeds, t) ==
  <<-rows[t].points, -rows[t].buchholz, -rows[t].berger, seeds[t], t>>
Ahead(rows, seeds, t, u) == Before(SortKey(rows, seeds, t), SortKey(rows, seeds, u))

-----------------------------------------------------------------------------
(***************************************************************************)
(* Pairing (SwissPairingService.pair) of the active teams S.  A draw d     *)
(* holds the table rows, the seeds, the pairs met so far and byes, the     *)
(* winners of a bye or walkover so far.                                    *)
(***************************************************************************)

Met(rs) == {q[2] : q \in {r \in Matches(rs) : Cardinality(r[2]) = 2}}
ByeWinners(rs) ==
  {At(rs, q).winner : q \in {r \in Matches(rs) : At(rs, r).done
                                                 /\ At(rs, r).kind \in {"BYE", "WALKOVER"}}}

\* All ways to split a set into pairs; there is none when its size is odd.
Matchings == [S \in SUBSET Teams |->
  {m \in SUBSET kSubset(2, S) : \A t \in S : \E p \in m : \A o \in m : t \in o <=> o = p}]

Apart(of, pair) == Max({Gap(of[t], of[u]) : t, u \in pair})
Distance(d, pair) == Apart([t \in pair |-> d.rows[t].points], pair)
SeedGap(d, pair, n) == Gap(Apart(d.seeds, pair), IF n < 4 THEN 1 ELSE n \div 2)

\* The weight of a matching: repeated pairs, then the differences of points, then
\* the distances of seeds; a hash of the seed of the draw decides what is left.
Weight(d, m) ==
  << Cardinality(m \cap d.met),
     SumFunction([pair \in m |-> Distance(d, pair)]),
     SumFunction([pair \in m |-> SeedGap(d, pair, 2 * Cardinality(m))]) >>

\* Where a function has its least values.
Lightest(weight) == {x \in DOMAIN weight : \A y \in DOMAIN weight : ~Before(weight[y], weight[x])}

Fresh(d, S) == {m \in Matchings[S] : m \cap d.met = {}}

\* A plan: the pairs, and the team with the bye.
Plan(bye, m) == [bye |-> bye, pairs |-> m]
PlansFor(d, S, bye) ==
  {Plan(bye, m) : m \in Lightest([f \in Fresh(d, S \ {bye}) |-> Weight(d, f)])}

\* Without repetitions: the bye for the last team that may have one and leaves
\* a field that can be paired.
Strict(d, S) ==
  LET able == {t \in S \ d.byes : Fresh(d, S \ {t}) # {}}
      last == {t \in able : \A u \in able \ {t} : Ahead(d.rows, d.seeds, u, t)}
  IN IF Cardinality(S) % 2 = 0 THEN PlansFor(d, S, NoTeam)
     ELSE UNION {PlansFor(d, S, t) : t \in last}

\* With repetitions: as few as possible, first among the byes.
Cost(d, plan) ==
  LET w == Weight(d, plan.pairs) IN <<IF plan.bye \in d.byes THEN 1 ELSE 0, w[1], w[2], w[3]>>

Relaxed(d, S) ==
  LET byes == IF Cardinality(S) % 2 = 0 THEN {NoTeam} ELSE S
      plans == UNION {{Plan(b, m) : m \in Matchings[S \ {b}]} : b \in byes}
  IN Lightest([plan \in plans |-> Cost(d, plan)])

Pair(d, S, allow) ==
  IF Cardinality(S) < 2 THEN {}
  ELSE IF allow /\ Strict(d, S) = {} THEN Relaxed(d, S) ELSE Strict(d, S)

Repeats(d, plan) == plan.bye \in d.byes \/ plan.pairs \cap d.met # {}

-----------------------------------------------------------------------------
(***************************************************************************)
(* Rounds (_plan, preview, publish).                                       *)
(***************************************************************************)

Active == entered \ withdrawn
Complete(round) == \A p \in DOMAIN round.match : round.match[p].done

\* What a plan depends on, and what of it the digest covers.
Basis == [entered |-> entered, withdrawn |-> withdrawn, seed |-> seed, rounds |-> rounds]

\* Mutant: the digest covers who met, but not with which result.
DigestWithoutResults(b) ==
  [b EXCEPT !.rounds = [n \in DOMAIN b.rounds |-> DOMAIN b.rounds[n].match]]

Digest(b) == [b EXCEPT !.rounds = [n \in DOMAIN b.rounds |-> b.rounds[n].match]]

NoToken == [held |-> FALSE]

\* The draw of the next round of a tournament with basis b, and its plans.
DrawOf(limit, b) ==
  [rows |-> Standings(limit, b.rounds, b.withdrawn, b.entered), seeds |-> b.seed,
   met |-> Met(b.rounds), byes |-> ByeWinners(b.rounds)]

PlansOf(limit, b, allow) == Pair(DrawOf(limit, b), b.entered \ b.withdrawn, allow)

\* A next round can be drawn.
NextRound ==
  /\ status = "IN_PROGRESS"
  /\ Complete(rounds[Len(rounds)])
  /\ Len(rounds) < SwissRounds

\* The matches of a new round: the pairs, and the bye.
Unplayed == [winner |-> NoTeam, loser |-> NoTeam, kind |-> "PLAYED", done |-> FALSE]
FreeWin(t) == [winner |-> t, loser |-> NoTeam, kind |-> "BYE", done |-> TRUE]

Listed(plan) ==
  [p \in plan.pairs \cup ({{plan.bye}} \ {{NoTeam}}) |->
     IF p = {plan.bye} THEN FreeWin(plan.bye) ELSE Unplayed]

RoundOf(d, plan) == [match |-> Listed(plan), table |-> d.rows]

Preview(allow) ==
  /\ ~token.held
  /\ Generated /\ NextRound
  /\ \E plan \in PlansOf(SwissRounds, Basis, allow) :
       token' = [held |-> TRUE, allow |-> allow, basis |-> Basis, plan |-> plan]
  /\ UNCHANGED <<rules, status, entered, withdrawn, seed, rounds>>

\* The token is thrown away, or older than ten minutes.
Discard ==
  /\ token.held
  /\ token' = NoToken
  /\ UNCHANGED <<rules, status, entered, withdrawn, seed, rounds>>

\* The publication computes the plan again, from the seed in the token: the same
\* plan, when nothing it depends on has changed.
Published(d, plan, approve) ==
  /\ Repeats(d, plan) => approve
  /\ rounds' = Append(rounds, RoundOf(d, plan))

Publish(approve) ==
  /\ token.held
  /\ Generated /\ NextRound
  /\ Digest(Basis) = Digest(token.basis)
  /\ \E plan \in IF Basis = token.basis THEN {token.plan}
                 ELSE PlansOf(SwissRounds, Basis, token.allow) :
       Published(DrawOf(SwissRounds, Basis), plan, approve)
  /\ token' = NoToken
  /\ UNCHANGED <<rules, status, entered, withdrawn, seed>>

\* The seeds of the first round: teams with a seed first, the others shuffled, and
\* behind them those that withdrew before the start.
Earlier(shuffle, t, u) ==
  IF seed[t] = 0 /\ seed[u] = 0 THEN shuffle[t] < shuffle[u]
  ELSE seed[t] # 0 /\ (seed[u] = 0 \/ seed[t] < seed[u])

SeedsOf(shuffle) ==
  [t \in Teams |-> IF t \in Active THEN 1 + Cardinality({u \in Active : Earlier(shuffle, u, t)})
                   ELSE IF t \in entered THEN Cardinality(entered) + t ELSE 0]

OneTeamPerSeed == \A t, u \in Active : seed[t] = seed[u] /\ seed[t] # 0 => t = u

\* The first round, with or without a preview.
Start(shuffle) ==
  LET b == [Basis EXCEPT !.seed = SeedsOf(shuffle)]
  IN /\ status = "REGISTRATION_OPEN"
     /\ Cardinality(Active) >= 2
     /\ SwissRounds <= Cardinality(Active) - (IF Cardinality(Active) % 2 = 0 THEN 1 ELSE 0)
     /\ OneTeamPerSeed
     /\ \E plan \in PlansOf(SwissRounds, b, FALSE) :
          Published(DrawOf(SwissRounds, b), plan, FALSE)
     /\ seed' = b.seed
     /\ status' = "IN_PROGRESS"
     /\ UNCHANGED <<rules, entered, withdrawn, token>>

-----------------------------------------------------------------------------
(***************************************************************************)
(* Registrations, results and withdrawals.                                 *)
(***************************************************************************)

Init ==
  /\ rules \in Rules
  /\ status = "REGISTRATION_OPEN"
  /\ entered = {}
  /\ withdrawn = {}
  /\ seed = [t \in Teams |-> 0]
  /\ rounds = <<>>
  /\ token = NoToken

Register(t) ==
  /\ status = "REGISTRATION_OPEN"
  /\ t \notin entered
  /\ entered' = entered \cup {t}
  /\ UNCHANGED <<rules, status, withdrawn, seed, rounds, token>>

Unregister(t) ==
  /\ ~Generated
  /\ t \in entered
  /\ entered' = entered \ {t}
  /\ withdrawn' = withdrawn \ {t}
  /\ seed' = [seed EXCEPT ![t] = 0]
  /\ UNCHANGED <<rules, status, rounds, token>>

Running == status \in {"IN_PROGRESS", "RESULTS_REVIEW"}

\* sync_review
ReviewOf(rs) ==
  IF Len(rs) >= SwissRounds /\ \A n \in DOMAIN rs : Complete(rs[n])
  THEN "RESULTS_REVIEW" ELSE "IN_PROGRESS"

\* is_automatic_result
Automatic(m, gone) ==
  \/ m.kind \in {"BYE", "DOUBLE_FORFEIT"}
  \/ m.kind = "WALKOVER" /\ m.loser \in gone

\* Mutant: results of earlier rounds can still be corrected.
EditableAnyRound(q) == Running /\ ~Automatic(At(rounds, q), withdrawn)

\* require_editable: a round is closed by the publication of the next one.
Editable(q) ==
  /\ Running
  /\ ~Automatic(At(rounds, q), withdrawn)
  /\ q[1] = Len(rounds)

\* update_match_score: team t wins, or nobody; a first result or a correction, played
\* or entered as a walkover.
ScoreMatch(q, t, kind) ==
  /\ Editable(q)
  /\ t = NoTeam => AllowDraws /\ kind = "PLAYED"
  /\ kind = "WALKOVER" => q[1] \in Forfeitable
  /\ rounds' = [rounds EXCEPT ![q[1]].match[q[2]] =
       [winner |-> t, loser |-> IF t = NoTeam THEN NoTeam ELSE Opponent(q[2], t),
        kind |-> kind, done |-> TRUE]]
  /\ status' = ReviewOf(rounds')
  /\ UNCHANGED <<rules, entered, withdrawn, seed, token>>

\* withdraw: an open match of team t is lost without a game, or by both teams.
Forfeited(p, m, t, gone) ==
  LET o == Opponent(p, t)
  IN IF m.done \/ t \notin p THEN m
     ELSE IF o \in gone THEN [m EXCEPT !.done = TRUE, !.kind = "DOUBLE_FORFEIT"]
     ELSE [winner |-> o, loser |-> t, kind |-> "WALKOVER", done |-> TRUE]

Synced(rs) == ReviewOf(rs)

\* A withdrawal, or the deletion of the team's account or team, which only archives
\* it.  While results are reviewed, or before the start, it is only marked.
Withdraw(t) ==
  /\ t \in entered
  /\ status \notin {"FINISHED", "CANCELLED"}
  /\ withdrawn' = withdrawn \cup {t}
  /\ IF Generated /\ status = "IN_PROGRESS"
     THEN /\ rounds' = [n \in DOMAIN rounds |-> [rounds[n] EXCEPT !.match =
                          [p \in DOMAIN @ |-> Forfeited(p, @[p], t, withdrawn)]]]
          /\ status' = Synced(rounds')
     ELSE UNCHANGED <<rounds, status>>
  /\ UNCHANGED <<rules, entered, seed, token>>

\* A final status; a token is of no use any more and forgotten.
ConfirmResults ==
  /\ Running
  /\ ReviewOf(rounds) = "RESULTS_REVIEW"
  /\ status' = "FINISHED"
  /\ token' = NoToken
  /\ UNCHANGED <<rules, entered, withdrawn, seed, rounds>>

CancelTournament ==
  /\ status \notin {"FINISHED", "CANCELLED"}
  /\ status' = "CANCELLED"
  /\ token' = NoToken
  /\ UNCHANGED <<rules, entered, withdrawn, seed, rounds>>

\* reset_bracket: nothing but byes may be decided; the seeds stay.
ResetBracket ==
  /\ Running
  /\ \A q \in Matches(rounds) : At(rounds, q).done => At(rounds, q).kind = "BYE"
  /\ rounds' = <<>>
  /\ status' = "REGISTRATION_OPEN"
  /\ UNCHANGED <<rules, entered, withdrawn, seed, token>>

Next ==
  \/ \E t \in Teams : Register(t)
  \/ \E t \in Leaving : Unregister(t)
  \/ \E t \in Moving : Withdraw(t)
  \/ \E shuffle \in Shuffles : Start(shuffle)
  \/ \E allow \in BOOLEAN : Preview(allow)
  \/ \E approve \in BOOLEAN : Publish(approve)
  \/ Discard
  \/ \E q \in Matches(rounds) : \E t \in q[2] \cup {NoTeam}, kind \in {"PLAYED", "WALKOVER"} :
       ScoreMatch(q, t, kind)
  \/ ConfirmResults
  \/ CancelTournament
  \/ ResetBracket

Spec == Init /\ [][Next]_vars

-----------------------------------------------------------------------------
(***************************************************************************)
(* Properties.                                                             *)
(***************************************************************************)

Field(n) == UNION DOMAIN rounds[n].match
Past(n) == SubSeq(rounds, 1, n - 1)
PairsOf(round) == {p \in DOMAIN round.match : Cardinality(p) = 2}
ByesOf(round) == UNION {p \in DOMAIN round.match : Cardinality(p) = 1}
FreeWins(rs) == {At(rs, q).winner : q \in {r \in Matches(rs) : At(rs, r).kind # "PLAYED"}}

\* The type of the state; in every round each team of its field plays once, and at
\* most one has a bye.
TypeOK ==
  /\ rules \in Rules
  /\ status \in {"REGISTRATION_OPEN", "IN_PROGRESS", "RESULTS_REVIEW", "FINISHED", "CANCELLED"}
  /\ withdrawn \subseteq entered /\ entered \subseteq Teams
  /\ seed \in [Teams -> Nat]
  /\ Len(rounds) <= SwissRounds
  /\ \A n \in DOMAIN rounds :
       /\ \A p, o \in DOMAIN rounds[n].match : p \cap o # {} => p = o
       /\ \A t, u \in ByesOf(rounds[n]) : t = u
       /\ \A p \in DOMAIN rounds[n].match :
            LET m == rounds[n].match[p]
            IN /\ p \subseteq entered /\ Cardinality(p) \in {1, 2}
               /\ m.winner \in p \cup {NoTeam} /\ m.loser \in p \cup {NoTeam}
               /\ m.kind \in {"PLAYED", "BYE", "WALKOVER", "DOUBLE_FORFEIT"}
               /\ m.winner # NoTeam => m.winner # m.loser

\* docs/swiss-tournaments.md: published encounters are excluded, and whoever had a bye
\* or won without a game gets no further bye.  A round that repeats one was published
\* although nothing else was possible: every way to pair its field repeats one.
Unavoidable(n, past) ==
  \A b \in IF Cardinality(Field(n)) % 2 = 0 THEN {NoTeam} ELSE Field(n) \ FreeWins(past) :
    \A m \in Matchings[Field(n) \ {b}] : m \cap Met(past) # {}

RepeatsUnavoidable ==
  \A n \in DOMAIN rounds :
    ByesOf(rounds[n]) \cap FreeWins(Past(n)) # {} \/ PairsOf(rounds[n]) \cap Met(Past(n)) # {}
      => Unavoidable(n, Past(n))

\* The bye goes to the last team of the table that may have one: nobody behind it,
\* without a bye so far, could have had it without a repetition.
ByeForTheLast ==
  \A n \in DOMAIN rounds : n > 1 => \A b \in ByesOf(rounds[n]), t \in Field(n) :
    /\ b \notin FreeWins(Past(n)) /\ t \notin FreeWins(Past(n))
    /\ Ahead(rounds[n].table, seed, b, t)
    => \A m \in Matchings[Field(n) \ {t}] : m \cap Met(Past(n)) # {}

\* The table a round was drawn from stays what the rounds before it say: no later
\* result, withdrawal or correction reaches behind a published round.
GoneIn(table) == {t \in DOMAIN table : table[t].withdrawn}
SnapshotStands ==
  \A n \in DOMAIN rounds :
    LET table == rounds[n].table
    IN table = Standings(SwissRounds, Past(n), GoneIn(table), DOMAIN table)

\* Rounds follow each other: every earlier round is complete, and the tournament is in
\* review exactly while the last round is there and all is decided.
ReviewExact ==
  /\ \A n \in DOMAIN rounds : n < Len(rounds) => Complete(rounds[n])
  /\ Running => status = ReviewOf(rounds)
  /\ status = "FINISHED" => ReviewOf(rounds) = "RESULTS_REVIEW"

\* A withdrawal leaves no match behind that waits for the team, whichever slot it is in
\* and whenever the round was drawn, published or put back.
OpenHaveTeams ==
  Running => \A q \in Matches(rounds) : ~At(rounds, q).done => q[2] \subseteq Active

\* As long as two teams are left the tournament can go on: when strict pairing fails,
\* the exceptional preview finds a round.
NeverStuck ==
  Generated /\ NextRound /\ Cardinality(Active) >= 2 => PlansOf(SwissRounds, Basis, TRUE) # {}

\* Pairing repeats as little and gives a bye as fairly as the round allows; nothing
\* reaches back behind a published round, and the tournament goes on.
RoundsConsistent ==
  /\ TypeOK /\ RepeatsUnavoidable /\ ByeForTheLast
  /\ SnapshotStands /\ ReviewExact /\ OpenHaveTeams /\ NeverStuck

\* A round after the first one is exactly what the organiser saw in the preview.
PairsShown(round, plan) ==
  PairsOf(round) = plan.pairs /\ ByesOf(round) = {plan.bye} \ {NoTeam}

PublishedAsShown ==
  [][Len(rounds') > Len(rounds) /\ Generated =>
       /\ token.held
       /\ PairsShown(rounds'[Len(rounds')], token.plan)
       /\ token.basis = Basis]_vars

=============================================================================
