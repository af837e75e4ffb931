----------------------------- MODULE FreeForAll -----------------------------
(* A tournament that is a single match of all teams (_generate_ffa in        *)
(* tournaments/services/brackets.py, FFAMatchService in matches.py), from    *)
(* its start to the confirmation of its places. Several organisers enter,    *)
(* correct and confirm the results from pages they opened earlier, while     *)
(* teams withdraw or are deleted.                                            *)
EXTENDS Naturals, FiniteSets

CONSTANTS
  Racers,     \* the teams
  Stewards,   \* organisers with a page of their own
  Leavers,    \* bound: teams that unregister, withdraw or are deleted
  Sheets      \* bound: the results that organisers may enter: functions from
              \* Racers to [rank : Nat, dq : BOOLEAN], rank 0 for none

Places == [rank : Nat, dq : BOOLEAN]
NoWinner == "nobody"

ASSUME RacersAssumption == IsFiniteSet(Racers) /\ NoWinner \notin Racers /\ Leavers \subseteq Racers
ASSUME SheetsAssumption == \A sheet \in Sheets : sheet \in [Racers -> Places]

VARIABLES
  race,     \* the tournament: its status; the match (none, ready, playing, done), its
            \* winner, and the places of its participants
  enrolled, \* the teams with a registration
  quit,     \* registrations with is_forfeited
  page,     \* the match as each organiser's page shows it, or NoPage
  late      \* history: teams that withdrew or were deleted when the result was entered

raceVars == <<race, enrolled, quit, page, late>>

NoPage == [match |-> "none", winner |-> NoWinner, places |-> <<>>]

RaceInit ==
  /\ race = [status |-> "open", match |-> "none", winner |-> NoWinner, places |-> <<>>]
  /\ enrolled = Racers /\ quit = {} /\ late = {}
  /\ page = [s \in Stewards |-> NoPage]

Participants == DOMAIN race.places
Competitors == enrolled \ quit
RaceRuns == race.status \in {"running", "review"}

\* Mutant: the version covers who has won.
VersionOfWinner(r) == [match |-> r.match, winner |-> r.winner]

\* match_version, and tournament_version of the only match.
Version(r) == [match |-> r.match, winner |-> r.winner, places |-> r.places]

UpToDate(s) == page[s] # NoPage /\ Version(page[s]) = Version(race)

\* register_team, unregister_team.
Enroll(t) ==
  /\ race.status = "open"
  /\ enrolled' = IF t \in enrolled THEN enrolled \ {t} ELSE enrolled \cup {t}
  /\ UNCHANGED <<race, quit, page, late>>

\* _generate_ffa
StartRace ==
  /\ race.status = "open"
  /\ Cardinality(Competitors) >= 2
  /\ race' = [status |-> "running", match |-> "ready", winner |-> NoWinner,
              places |-> [t \in Competitors |-> [rank |-> 0, dq |-> FALSE]]]
  /\ late' = {}
  /\ UNCHANGED <<enrolled, quit, page>>

OpenPage(s) ==
  /\ RaceRuns
  /\ page' = [page EXCEPT ![s] = [match |-> race.match, winner |-> race.winner, places |-> race.places]]
  /\ UNCHANGED <<race, enrolled, quit, late>>

\* start_match
StartPlay(s) ==
  /\ RaceRuns /\ UpToDate(s)
  /\ race.match = "ready"
  /\ race' = [race EXCEPT !.match = "playing"]
  /\ UNCHANGED <<enrolled, quit, page, late>>

\* update_ffa_scores: the results of all participants, and no partial ones; those
\* that withdrew stay disqualified.
EnterPlaces(s, sheet) ==
  LET entered == [t \in Participants |-> [rank |-> sheet[t].rank, dq |-> sheet[t].dq \/ t \in quit]]
      first == {t \in Participants : entered[t].rank = 1 /\ ~entered[t].dq}
  IN
  /\ RaceRuns /\ UpToDate(s)
  /\ \A t \in Participants : entered[t].rank <= Cardinality(Participants)
  /\ \A t \in Participants : entered[t].rank = 0 => entered[t].dq
  /\ Cardinality(first) = 1
  /\ race' = [status |-> "review", match |-> "done",
              winner |-> CHOOSE t \in first : TRUE, places |-> entered]
  /\ late' = {}
  /\ UNCHANGED <<enrolled, quit, page>>

\* What a withdrawal leaves of the places: a match that is done keeps them.
AfterQuit(r, t) ==
  IF t \in DOMAIN r.places /\ r.match # "done" THEN [r EXCEPT !.places[t].dq = TRUE] ELSE r

\* action_forfeit_and_disqualify
QuitRace(t) ==
  /\ RaceRuns /\ t \in enrolled
  /\ quit' = quit \cup {t} /\ late' = late \cup {t}
  /\ race' = AfterQuit(race, t)
  /\ UNCHANGED <<enrolled, page>>

\* Team.delete(force=True): the team goes with its place, and as the winner too.
DeleteRacer(t) ==
  /\ t \in enrolled
  /\ enrolled' = enrolled \ {t}
  /\ race' = [race EXCEPT !.places = [u \in Participants \ {t} |-> race.places[u]],
                          !.winner = IF @ = t THEN NoWinner ELSE @]
  /\ late' = late \cup {t}
  /\ UNCHANGED <<quit, page>>

\* reset_bracket: not after a result; a withdrawal stays.
ResetRace ==
  /\ RaceRuns /\ race.match # "done"
  /\ race' = [status |-> "open", match |-> "none", winner |-> NoWinner, places |-> <<>>]
  /\ UNCHANGED <<enrolled, quit, page, late>>

\* confirm_results
ConfirmPlaces(s) ==
  /\ RaceRuns /\ UpToDate(s)
  /\ race.match = "done"
  /\ race' = [race EXCEPT !.status = "finished"]
  /\ UNCHANGED <<enrolled, quit, page, late>>

CancelRace ==
  /\ race.status \in {"open", "running", "review"}
  /\ race' = [race EXCEPT !.status = "cancelled"]
  /\ UNCHANGED <<enrolled, quit, page, late>>

RaceNext ==
  \/ \E t \in Leavers : Enroll(t) \/ QuitRace(t) \/ DeleteRacer(t)
  \/ \E s \in Stewards : OpenPage(s) \/ StartPlay(s) \/ ConfirmPlaces(s) \/ \E sheet \in Sheets : EnterPlaces(s, sheet)
  \/ StartRace \/ ResetRace \/ CancelRace

-----------------------------------------------------------------------------

(* TournamentPodiumService.placements *)
Placed == {t \in Participants : race.places[t].rank # 0 /\ ~race.places[t].dq}

(* Results stand in a tournament under review and after it: one team is      *)
(* first, whoever plays has a place, and a team that had withdrawn when the  *)
(* result was entered has none (update_ffa_scores). Only the teams that went *)
(* since (late) are missing in this.                                         *)
PlacesComplete ==
  race.status \in {"review", "finished"} =>
    /\ race.match = "done"
    /\ race.winner # NoWinner => race.winner \in Placed /\ race.places[race.winner].rank = 1
    /\ race.winner = NoWinner => late # {}
    /\ \A t, u \in Placed : race.places[t].rank = 1 /\ race.places[u].rank = 1 => t = u
    /\ Participants \ Placed \subseteq {t \in Participants : race.places[t].dq}
    /\ Placed \cap quit \subseteq late

(* What was entered is corrected or confirmed only by an organiser who has   *)
(* seen it, and nothing changes the places after the confirmation but the    *)
(* deletion of a team.                                                       *)
PlacesAsSeen ==
  [][/\ race.match = "done" /\ race'.match = "done" /\ Participants = DOMAIN race'.places
          => \/ race'.places = race.places
             \/ race.status # "finished" /\ \E s \in Stewards : page[s].places = race.places
     /\ race'.status = "finished" /\ race.status # "finished"
          => \E s \in Stewards : page[s].match = "done" /\ page[s].places = race.places]_raceVars

PlacesStand == []PlacesComplete /\ PlacesAsSeen
=============================================================================
