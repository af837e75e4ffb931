------------------------------ MODULE Bracket ------------------------------
(***************************************************************************)
(* One knockout tournament, single or double elimination, from            *)
(* registration to the confirmed result: the generation of the tree       *)
(* (tournaments/services/brackets.py), results and their corrections      *)
(* (services/matches.py, services/results.py), withdrawals                *)
(* (services/forfeits.py), the deletion of a team (models.py) and the     *)
(* tournament's own status (services/lifecycle.py).                       *)
(*                                                                         *)
(* Every service of the code takes the row locks Event -> Tournament and   *)
(* does all its work in one transaction, so each is one action.  What is   *)
(* hard is inside the action: a result travels through the tree, decides   *)
(* byes and walkovers on its way, and has to end in the same tree whatever *)
(* the order of results, corrections and withdrawals was.                  *)
(*                                                                         *)
(* Teams are named by their place in the draw (seed, then registration).   *)
(* Scores, reasons, permissions and the result log are left out: an        *)
(* organiser may name either team the winner with a reason.                *)
(***************************************************************************)
EXTENDS MatchTree

CONSTANTS
  MaxTeams,     \* bound: the teams that may register
  Modes,        \* the modes explored: "SINGLE", "DOUBLE"
  ThirdPlace,   \* tournament.play_third_place
  Moving,       \* bound: the teams that withdraw or are deleted
  Winners,      \* bound: the slots a result may declare the winner
  NoShows       \* bound: the teams that may fail to show up for a match

Teams == 1..MaxTeams

\* The powers of two.
Power[k \in Nat] == IF k = 0 THEN 1 ELSE 2 * Power[k - 1]

\* Exponents of the bracket sizes 2^k that MaxTeams teams can need.
Sizes == {k \in 1..MaxTeams : k = 1 \/ Power[k - 1] < MaxTeams}

ASSUME BoundAssumption ==
  /\ MaxTeams \in Nat \ {0, 1}
  /\ Modes \subseteq {"SINGLE", "DOUBLE"} /\ Modes # {}
  /\ ThirdPlace \in BOOLEAN
  /\ Moving \subseteq Teams
  /\ Winners \subseteq {1, 2} /\ Winners # {}
  /\ NoShows \subseteq Teams

VARIABLES
  mode,       \* tournament.mode
  status,     \* tournament.status; DRAFT, REGISTRATION_OPEN and _CLOSED are one
  size,       \* the exponent k of the generated bracket; 0 before generation
  match,      \* the tournament's matches by <<bracket_type, round, number>>
  entered,    \* the teams with a registration
  withdrawn   \* the registrations with is_forfeited

vars == <<mode, status, size, match, entered, withdrawn>>

-----------------------------------------------------------------------------
(***************************************************************************)
(* The tree: matches, and where their winners and losers go.               *)
(***************************************************************************)

Half(n) == (n + 1) \div 2
Side(n) == IF n % 2 = 1 THEN 1 ELSE 2

Bronze(k) == <<"THIRD_PLACE", k, 1>>

\* A match of the winner bracket; the last round of a single elimination is
\* the final.
Wb(md, k, r, n) ==
  <<IF md = "SINGLE" /\ r = k THEN "FINAL" ELSE "WINNERS", r, n>>

Lb(r, n) == <<"LOSERS", r, n>>
LbRounds(k) == 2 * (k - 1)
LbCount(k, r) == Power[k - 1 - Half(r)]

\* The matches in an order in which every match follows its feeders: one
\* round of the winner bracket, then the loser round it feeds first.
Rounds(md, k) ==
  LET WbRow(r) == IF r > k THEN <<>> ELSE [n \in 1..Power[k - r] |-> Wb(md, k, r, n)]
      LbRow(r) == IF md = "SINGLE" \/ r = 0 \/ r > LbRounds(k) THEN <<>>
                  ELSE [n \in 1..LbCount(k, r) |-> Lb(r, n)]
      upTo[r \in Nat] == IF r = 0 THEN <<>>
                         ELSE upTo[r - 1] \o WbRow(r) \o LbRow(r - 1)
  IN upTo[2 * k] \o
     (IF md = "DOUBLE" THEN <<Grand, GrandReset>>
      ELSE IF ThirdPlace /\ k >= 2 THEN <<Bronze(k)>> ELSE <<>>)

\* next_match_winner and its slot, as a set: empty when there is none.
WinnerTo(md, k, m) ==
  LET type == m[1]  r == m[2]  n == m[3]
  IN CASE type = "WINNERS" /\ r < k  -> {<<Wb(md, k, r + 1, Half(n)), Side(n)>>}
       [] type = "WINNERS" /\ r = k  -> {<<Grand, 1>>}
       [] type = "LOSERS" /\ r = LbRounds(k) -> {<<Grand, 2>>}
       [] type = "LOSERS" /\ r < LbRounds(k) ->
            {IF r % 2 = 1 THEN <<Lb(r + 1, n), 1>>
                          ELSE <<Lb(r + 1, Half(n)), Side(n)>>}
       [] OTHER -> {}

\* Mutant: the losers drop straight down, into the half they come from.
LoserToUncrossed(md, k, m) ==
  CASE md = "SINGLE" -> IF ThirdPlace /\ k >= 2 /\ m[2] = k - 1
                        THEN {<<Bronze(k), m[3]>>} ELSE {}
    [] md = "DOUBLE" /\ m[1] = "WINNERS" /\ k = 1 -> {<<Grand, 2>>}
    [] md = "DOUBLE" /\ m[1] = "WINNERS" /\ k > 1 /\ m[2] = 1 ->
         {<<Lb(1, Half(m[3])), Side(m[3])>>}
    [] md = "DOUBLE" /\ m[1] = "WINNERS" /\ k > 1 /\ m[2] > 1 ->
         {<<Lb(2 * (m[2] - 1), m[3]), 2>>}
    [] OTHER -> {}

\* next_match_loser and its slot.  From the second round on the losers cross
\* into the other half of the loser bracket.
LoserTo(md, k, m) ==
  LET type == m[1]  r == m[2]  n == m[3]
  IN CASE md = "SINGLE" -> IF ThirdPlace /\ k >= 2 /\ r = k - 1
                           THEN {<<Bronze(k), n>>} ELSE {}
       [] md = "DOUBLE" /\ type = "WINNERS" /\ k = 1 -> {<<Grand, 2>>}
       [] md = "DOUBLE" /\ type = "WINNERS" /\ k > 1 /\ r = 1 ->
            {<<Lb(1, Half(n)), Side(n)>>}
       [] md = "DOUBLE" /\ type = "WINNERS" /\ k > 1 /\ r > 1 ->
            {<<Lb(2 * (r - 1), Power[k - r] + 1 - n), 2>>}
       [] OTHER -> {}

\* The trees of all modes and sizes, each computed once.
Tree == [md \in Modes |-> [k \in Sizes |->
  LET order == Rounds(md, k)
      ids == {order[i] : i \in DOMAIN order}
  IN Linked(order, [m \in ids |-> <<WinnerTo(md, k, m), LoserTo(md, k, m)>>])]]

\* What the services know of a bracket besides its matches.
Known(md, k, w) == [tree |-> Tree[md][k], gone |-> w]

-----------------------------------------------------------------------------
(***************************************************************************)
(* Generation.                                                             *)
(***************************************************************************)

\* next_power_of_two, as an exponent.
SizeFor(n) == CHOOSE k \in Sizes : Power[k] >= n /\ (k = 1 \/ Power[k - 1] < n)

\* generate_standard_seed_order: the strongest and the weakest place meet first.
SeedOrder[k \in Nat] ==
  IF k <= 1 THEN <<1, 2>>
  ELSE [i \in 1..Power[k] |-> LET s == SeedOrder[k - 1][Half(i)]
                         IN IF i % 2 = 1 THEN s ELSE Power[k] + 1 - s]

\* The first round: a place without a team leaves its opponent a bye.
FirstRound(md, k, teams) ==
  LET place(i) == LET s == SeedOrder[k][i]
                  IN IF s <= Len(teams) THEN teams[s] ELSE NoTeam
      pair(n) == [Open EXCEPT !.team = <<place(2 * n - 1), place(2 * n)>>]
      ids == {Tree[md][k].order[i] : i \in DOMAIN Tree[md][k].order} \ {GrandReset}
  IN [m \in ids |->
       IF m \notin {Wb(md, k, 1, n) : n \in 1..Power[k - 1]} THEN Open
       ELSE IF pair(m[3]).team[2] = NoTeam
            THEN Over(pair(m[3]), "BYE", pair(m[3]).team[1], NoTeam)
            ELSE [pair(m[3]) EXCEPT !.status = "READY"]]

\* The preview (preview=True) shows the pairs of the first round; for each slot
\* of a later match it names the match awaited, and whether its winner (1) or
\* its loser (2) comes.
PreviewFirst(k, teams) ==
  LET name(i) == IF SeedOrder[k][i] <= Len(teams) THEN teams[SeedOrder[k][i]] ELSE NoTeam
  IN [n \in 1..Power[k - 1] |-> <<name(2 * n - 1), name(2 * n)>>]

PreviewWinners(md, k) ==
  [m \in UNION {{Wb(md, k, r, n) : n \in 1..Power[k - r]} : r \in 2..k} |->
     <<<<Wb(md, k, m[2] - 1, 2 * m[3] - 1), 1>>, <<Wb(md, k, m[2] - 1, 2 * m[3]), 1>>>>]

PreviewBronze(k) == Bronze(k) :> <<<<Wb("SINGLE", k, k - 1, 1), 2>>, <<Wb("SINGLE", k, k - 1, 2), 2>>>>

PreviewLosers(k) ==
  LET wb(r, n) == <<Wb("DOUBLE", k, r, n), 2>>
      lb(r, n) == <<Lb(r, n), 1>>
      shown(r, n) == IF r = 1 THEN <<wb(1, 2 * n - 1), wb(1, 2 * n)>>
                     ELSE IF r % 2 = 1 THEN <<lb(r - 1, 2 * n - 1), lb(r - 1, 2 * n)>>
                     ELSE <<lb(r - 1, n), wb(r \div 2 + 1, LbCount(k, r) + 1 - n)>>
  IN [m \in UNION {{Lb(r, n) : n \in 1..LbCount(k, r)} : r \in 1..LbRounds(k)} |-> shown(m[2], m[3])]

PreviewGrand(k) ==
  Grand :> <<<<Wb("DOUBLE", k, k, 1), 1>>,
             IF k >= 2 THEN <<Lb(LbRounds(k), 1), 1>> ELSE <<Wb("DOUBLE", k, 1, 1), 2>>>>

PreviewLater(md, k) ==
  IF md = "DOUBLE" THEN PreviewWinners(md, k) @@ PreviewLosers(k) @@ PreviewGrand(k)
  ELSE IF ThirdPlace /\ k >= 2 THEN PreviewWinners(md, k) @@ PreviewBronze(k)
  ELSE PreviewWinners(md, k)

\* The byes move their teams into the second round; a double elimination makes
\* a match ready that two of them meet in.
ByesMoved(md, k, b) ==
  LET arrives(m, s) ==
        {b[f].winner : f \in {g \in DOMAIN b : /\ b[g].kind = "BYE"
                                               /\ <<m, s>> \in Tree[md][k].out[g][1]}}
      moved(m) == [s \in {1, 2} |-> IF arrives(m, s) = {} THEN b[m].team[s]
                                    ELSE CHOOSE t \in arrives(m, s) : TRUE]
  IN [m \in DOMAIN b |->
       [b[m] EXCEPT !.team = moved(m),
                    !.status = IF md = "DOUBLE" /\ @ = "PENDING"
                                  /\ NoTeam \notin {moved(m)[1], moved(m)[2]}
                               THEN "READY" ELSE @]]

\* Mutant: the first round of the loser bracket is not checked for double byes.
RecheckedSingle(md, k, m) == md = "SINGLE" /\ (m[1] = "THIRD_PLACE" \/ m[2] = 2)

\* What the generation checks once the first round stands: the bronze match and
\* the second round, or the first round of the loser bracket.
Rechecked(md, k, m) ==
  IF md = "SINGLE" THEN m[1] = "THIRD_PLACE" \/ m[2] = 2
  ELSE m[1] = "LOSERS" /\ m[2] = 1

-----------------------------------------------------------------------------
(***************************************************************************)
(* The services.                                                           *)
(***************************************************************************)

Init ==
  /\ mode \in Modes
  /\ status = "REGISTRATION_OPEN"
  /\ size = 0
  /\ match = <<>>
  /\ entered = {}
  /\ withdrawn = {}

Generated == DOMAIN match # {}
Running == status \in {"IN_PROGRESS", "RESULTS_REVIEW"}

Register(t) ==
  /\ status = "REGISTRATION_OPEN"
  /\ t \notin entered
  /\ entered' = entered \cup {t}
  /\ UNCHANGED <<mode, status, size, match, withdrawn>>

Unregister(t) ==
  /\ ~Generated
  /\ t \in entered
  /\ entered' = entered \ {t}
  /\ withdrawn' = withdrawn \ {t}
  /\ UNCHANGED <<mode, status, size, match>>

\* _generate_bracket: the registrations that count, in the order of the draw.
Lineup ==
  LET upTo[i \in 0..MaxTeams] == IF i = 0 THEN <<>>
                                 ELSE IF i \in entered \ withdrawn THEN Append(upTo[i - 1], i)
                                 ELSE upTo[i - 1]
  IN upTo[MaxTeams]

\* generate_bracket
Generate ==
  LET k == SizeFor(Len(Lineup))
      x == Known(mode, k, withdrawn)
      first == ByesMoved(mode, k, FirstRound(mode, k, Lineup))
      due == {m \in DOMAIN first : Rechecked(mode, k, m)}
  IN /\ status = "REGISTRATION_OPEN"
     /\ Len(Lineup) >= 2
     /\ size' = k
     /\ match' = CheckAll(x, first, due)
     /\ status' = "IN_PROGRESS"
     /\ UNCHANGED <<mode, entered, withdrawn>>

Now == Known(mode, size, withdrawn)

\* require_editable: both teams known, and not decided by the system.
Editable(m) ==
  /\ Running
  /\ NoTeam \notin {match[m].team[1], match[m].team[2]}
  /\ ~Automatic(Now, match, m)

\* start_match
StartMatch(m) ==
  /\ Editable(m)
  /\ match[m].status = "READY"
  /\ match' = [match EXCEPT ![m].status = "IN_PROGRESS"]
  /\ UNCHANGED <<mode, status, size, entered, withdrawn>>

\* update_match_score by hand: a first result, or a correction.
ScoreMatch(m, s, noShow) ==
  LET kind == IF noShow THEN "WALKOVER" ELSE "PLAYED"
      set == [match EXCEPT ![m] = Over(@, kind, @.team[s], @.team[3 - s])]
  IN /\ Editable(m)
     /\ noShow => match[m].team[3 - s] \in NoShows
     /\ Corrects(match, m, s) => Repairable(Now, set, m)
     /\ match' = Scored(Now, match, m, s, kind)
     /\ status' = Reviewed(match')
     /\ UNCHANGED <<mode, size, entered, withdrawn>>

\* forfeit_team_in_active_tournaments; also reaches a tournament that is not
\* generated yet, when the team is withdrawn because of another one.
Withdraw(t) ==
  /\ t \in entered
  /\ status \notin {"FINISHED", "CANCELLED"}
  /\ withdrawn' = withdrawn \cup {t}
  /\ IF Generated
     THEN /\ match' = Forfeited(Known(mode, size, withdrawn \cup {t}), match, t)
          /\ status' = Reviewed(match')
     ELSE UNCHANGED <<match, status>>
  /\ UNCHANGED <<mode, size, entered>>

\* Team.delete(force=True): withdrawn from a running tournament, then every
\* reference to the team is emptied and its registration goes with it.
Without(b, t) ==
  LET un(v) == IF v = t THEN NoTeam ELSE v
  IN [m \in DOMAIN b |-> [b[m] EXCEPT !.team = <<un(@[1]), un(@[2])>>,
                                      !.winner = un(@), !.loser = un(@)]]

DeleteTeam(t) ==
  LET left == IF Generated /\ status \notin {"FINISHED", "CANCELLED"}
              THEN Forfeited(Known(mode, size, withdrawn \cup {t}), match, t)
              ELSE match
  IN /\ t \in entered
     /\ match' = Without(left, t)
     /\ status' = IF Generated /\ Running THEN Reviewed(left) ELSE status
     /\ entered' = entered \ {t}
     /\ withdrawn' = withdrawn \ {t}
     /\ UNCHANGED <<mode, size>>

\* confirm_results
ConfirmResults ==
  /\ Running
  /\ Reviewed(match) = "RESULTS_REVIEW"
  /\ status' = "FINISHED"
  /\ UNCHANGED <<mode, size, match, entered, withdrawn>>

\* The organisers' form, or a restart that cancels the source.
CancelTournament ==
  /\ status \notin {"FINISHED", "CANCELLED"}
  /\ status' = "CANCELLED"
  /\ UNCHANGED <<mode, size, match, entered, withdrawn>>

\* reset_bracket, offered without force: nothing but byes may be decided.
ResetBracket ==
  /\ Running
  /\ \A m \in DOMAIN match : Completed(match, m) => match[m].kind = "BYE"
  /\ match' = <<>>
  /\ size' = 0
  /\ status' = "REGISTRATION_OPEN"
  /\ UNCHANGED <<mode, entered, withdrawn>>

Next ==
  \/ \E t \in Teams : Register(t) \/ Unregister(t)
  \/ \E t \in Moving : Withdraw(t) \/ DeleteTeam(t)
  \/ \E m \in DOMAIN match : StartMatch(m)
  \/ \E m \in DOMAIN match, s \in Winners, n \in BOOLEAN : ScoreMatch(m, s, n)
  \/ Generate
  \/ ConfirmResults
  \/ CancelTournament
  \/ ResetBracket

Spec == Init /\ [][Next]_vars

-----------------------------------------------------------------------------
(***************************************************************************)
(* Properties.                                                             *)
(***************************************************************************)

Matches == DOMAIN match
Active == entered \ withdrawn
Opened(m) == ~Completed(match, m)
Stands(m, t) == t \in {match[m].team[1], match[m].team[2]}

\* The type of the state.  An open match has neither winner nor loser nor a
\* result type, and only a generated tournament has matches.
TypeOK ==
  /\ mode \in Modes
  /\ status \in {"REGISTRATION_OPEN", "IN_PROGRESS", "RESULTS_REVIEW",
                 "FINISHED", "CANCELLED"}
  /\ size \in Sizes \cup {0}
  /\ withdrawn \subseteq entered /\ entered \subseteq Teams
  /\ size = 0 <=> Matches = {}
  /\ \A m \in Matches :
       /\ match[m].team \in (Teams \cup {NoTeam}) \X (Teams \cup {NoTeam})
       /\ match[m].winner \in Teams \cup {NoTeam}
       /\ match[m].loser \in Teams \cup {NoTeam}
       /\ match[m].status \in {"PENDING", "READY", "IN_PROGRESS", "COMPLETED"}
       /\ match[m].kind \in {"PLAYED", "BYE", "WALKOVER", "DOUBLE_FORFEIT"}
       /\ Opened(m) => [match[m] EXCEPT !.team = Open.team, !.status = "PENDING"] = Open

\* However results, corrections, withdrawals and deletions interleave, the tree
\* tells one story: a team stands in a fed slot only if it won (or lost) the
\* match that feeds it, the winner of a decided match stands in its next slot
\* while it is in the tournament, and so does a loser that still plays.
SlotsFollowResults ==
  LET x == Now
      sends(f) == <<match[f].winner, match[f].loser>>
  IN \A f \in Matches : \A out \in {1, 2} : \A to \in Out(x, f, out) :
       LET there == match[to[1]].team[to[2]]
       IN /\ there # NoTeam => Completed(match, f) /\ there = sends(f)[out]
          /\ sends(f)[out] \in Active => there = sends(f)[out]

\* The tree that generation writes is the one the preview shows at that moment:
\* the same pairs and byes, and behind them the same way for winners and losers.
GeneratedAsShown ==
  LET k == size'
      later == PreviewLater(mode, k)
      begins(n) == match'[Wb(mode, k, 1, n)]
  IN /\ DOMAIN match' = DOMAIN later \cup {Wb(mode, k, 1, n) : n \in 1..Power[k - 1]}
     /\ \A n \in 1..Power[k - 1] : /\ begins(n).team = PreviewFirst(k, Lineup)[n]
                               /\ begins(n).kind = "BYE" <=> begins(n).team[2] = NoTeam
     /\ \A m \in DOMAIN later, s \in {1, 2} : Tree[mode][k].feeds[m][s] = {later[m][s]}

\* No team has two matches to play at once: a loser moves to the loser bracket
\* and a corrected result takes it back before it can be scored there.
OneOpenMatch ==
  \A t \in Teams : Cardinality({m \in Matches : Opened(m) /\ Stands(m, t)}) <= 1

\* A withdrawal never blocks the tree: a match that waits, waits for a match
\* that is still open, and one that can be played has two teams to play it.
\* (The reset of the grand final is the exception: when the team that came from
\* the winner bracket withdraws in the grand final, its walkover creates the reset
\* with the withdrawn team in it, and only a second withdrawal decides it.)
NoStuckMatch ==
  Running => \A m \in Matches :
    /\ match[m].status = "PENDING" =>
         \E s \in {1, 2} : \E f \in Feeds(Now, m, s) : Opened(f[1])
    /\ match[m].status \in {"READY", "IN_PROGRESS"} /\ m # GrandReset =>
         {match[m].team[1], match[m].team[2]} \subseteq Active

\* The tournament is in review exactly while every match is decided: a
\* correction that reopens the tree takes it back, a withdrawal that decides the
\* last matches brings it there, and only such a tree is ever confirmed.
ReviewExact ==
  /\ Running => status = Reviewed(match)
  /\ status = "FINISHED" => AllCompleted(match)

\* The tree and the tournament's status agree with the results and with each other.
TreeConsistent == SlotsFollowResults /\ OneOpenMatch /\ ReviewExact

\* TournamentPodiumService.calculate: the first place of a decided tree.
Champion ==
  LET finals == IF mode = "DOUBLE"
                THEN IF GrandReset \in Matches THEN GrandReset ELSE Grand
                ELSE <<"FINAL", size, 1>>
  IN match[finals].winner

Losses(t) ==
  Cardinality({m \in Matches : match[m].loser = t /\ m[1] # "THIRD_PLACE"})

\* When all is decided, every team still in the tournament except the champion
\* has lost exactly once (single) or exactly twice (double elimination), and the
\* champion less often: no bye, walkover, withdrawal or correction on the way
\* cost a team a life or gave it one.
LossesDecide ==
  LET lives == IF mode = "SINGLE" THEN 1 ELSE 2
  IN Generated /\ AllCompleted(match) => \A t \in Active :
       IF t = Champion THEN Losses(t) < lives ELSE Losses(t) = lives

\* A match that was started, or decided by hand.
ByHand(m) ==
  \/ match[m].status = "IN_PROGRESS"
  \/ Completed(match, m) /\ ~Automatic(Now, match, m)

\* A started match keeps its teams and is not taken back, a scored one stays
\* scored.  Only the deletion of a team empties its place, and only the reset of
\* a tree without results removes a started match.
KeptAsPlayed(m) ==
  /\ m \in DOMAIN match' =>
       /\ match'[m].status \in {match[m].status, "COMPLETED"}
       /\ \A s \in {1, 2} :
            match'[m].team[s] = IF match[m].team[s] \in entered'
                                THEN match[m].team[s] ELSE NoTeam
  /\ Completed(match, m) => m \in DOMAIN match'
=============================================================================
