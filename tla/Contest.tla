------------------------------ MODULE Contest ------------------------------
(* Tournaments that are no trees: the draw of the first round and the new    *)
(* editions of any tournament, rounds in the Swiss system, and a match of    *)
(* all teams. Each locks its own tournament, so they do not meet: a          *)
(* behaviour moves one of them, chosen at the start, while the others rest.  *)
EXTENDS Swiss, Draws, FreeForAll

CONSTANTS
  DrawModes,   \* modes of the tournament that is drawn
  Starters,    \* its teams at first
  ClanChoices  \* the clans an organiser may set for a draw

VARIABLE stage \* what moves: a draw, Swiss rounds or a race of all

contestVars == <<vars, drawVars, raceVars, stage>>

ContestInit ==
  /\ stage \in {"draw", "swiss", "race"}
  /\ IF stage = "swiss" THEN Init ELSE Init /\ rules = CHOOSE r \in Rules : TRUE
  /\ DrawInit(IF stage = "draw" THEN DrawModes ELSE {"FFA"}, Starters)
  /\ RaceInit

DrawsMove == stage = "draw" /\ DrawNext(ClanChoices) /\ UNCHANGED <<vars, raceVars, stage>>
SwissMove == stage = "swiss" /\ Next /\ UNCHANGED <<drawVars, raceVars, stage>>
RaceMove  == stage = "race" /\ RaceNext /\ UNCHANGED <<vars, drawVars, stage>>

ContestNext == DrawsMove \/ SwissMove \/ RaceMove

ContestSpec == ContestInit /\ [][ContestNext]_contestVars
=============================================================================
