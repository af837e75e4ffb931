----------------------------- MODULE Tournament -----------------------------
(* One tournament whose matches hang together: its mode decides once and for *)
(* all whether the rules of Bracket (single and double elimination) or those *)
(* of GroupStage (leagues, groups with playoffs) move it. Both work on the   *)
(* same rows: Tournament.mode and .status, the matches, the registrations.   *)
EXTENDS Bracket

CONSTANTS
  StageModes,   \* the modes of GroupStage that are explored
  MaxLeague, Tiebreaks, Qualifiers, Results, Starting,
  StageMoving, Deletable   \* bounds of GroupStage

VARIABLES rules, released, score, group

stageVars == <<rules, released, score, group>>
tournamentVars == <<vars, stageVars>>

Stage == INSTANCE GroupStage
  WITH Modes <- StageModes, Moving <- StageMoving, ThirdPlace <- FALSE

ASSUME StageAssumption == Stage!Bounds

Knockout == mode \in Modes

TournamentInit ==
  \/ /\ Init
     /\ rules = CHOOSE r \in [tiebreak : Tiebreaks, qualifiers : Qualifiers] : TRUE
     /\ released = FALSE /\ score = <<>> /\ group = [t \in Teams |-> 0]
  \/ Stage!Init /\ size = 0

KnockoutMove == Knockout /\ Next /\ UNCHANGED stageVars
StageMove == ~Knockout /\ Stage!Next /\ UNCHANGED size

TournamentNext == KnockoutMove \/ StageMove

TournamentSpec == TournamentInit /\ [][TournamentNext]_tournamentVars

-----------------------------------------------------------------------------

(* A tree and the status of its tournament tell one story: slots follow      *)
(* results, nobody has two matches to play, and a tournament is in review    *)
(* exactly while all is decided (services/matches.py, services/results.py).  *)
TreeSound == Knockout => TypeOK /\ TreeConsistent

(* The tree, or the playoffs, that generation writes are those the preview   *)
(* showed for the same registrations: the same first round with its byes,    *)
(* and the same way on for every winner and loser (services/brackets.py).    *)
PreviewKept ==
  [][~Generated /\ Generated' => IF Knockout THEN GeneratedAsShown ELSE Stage!GeneratedAsShown]_tournamentVars

(* Byes, walkovers and withdrawals never leave a match of a tree waiting for *)
(* nothing (check_and_advance_match, services/matches.py).                   *)
TreeFlows == Knockout => NoStuckMatch

(* Whatever was corrected or withdrawn, who is out of a tree has lost as     *)
(* often as its mode asks for (services/matches.py, models.py).              *)
LivesCounted == Knockout => LossesDecide

(* Groups, tables, the proposal of the playoffs and their release agree with *)
(* the results as they stand (services/standings.py, services/lifecycle.py). *)
StageSound == ~Knockout => Stage!TypeOK /\ Stage!StageConsistent

(* What was started or played in a tree keeps its teams and its place there: *)
(* only the teams that are deleted leave it (services/results.py,            *)
(* services/forfeits.py, Team.delete in models.py).                          *)
PlayedStaysInTrees == Knockout => \A m \in Matches : ByHand(m) => KeptAsPlayed(m)

(* So does what was started or played in the playoffs of a group stage.      *)
PlayedStaysInPlayoffs ==
  ~Knockout => \A m \in Stage!Playoffs(match) : Stage!ByHand(m) => KeptAsPlayed(m)

(* What was started or played in a tree, or in the playoffs, is never undone *)
(* or given to other teams by a result, a correction, a release or a         *)
(* withdrawal elsewhere (services/results.py, services/forfeits.py).         *)
ResultsStand == [][PlayedStaysInTrees /\ PlayedStaysInPlayoffs]_tournamentVars
=============================================================================
