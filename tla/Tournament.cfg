SPECIFICATION TournamentSpec
CONSTANTS
  MaxTeams = 5
  Modes = {"SINGLE", "DOUBLE"}
  ThirdPlace = TRUE
  Moving = {1, 3}
  Winners = {1, 2}
  NoShows = {3}
  StageModes = {"LEAGUE", "GROUP_STAGE"}
  MaxLeague = 4
  Tiebreaks = {"HEAD_TO_HEAD"}
  Qualifiers = {1, 2}
  Results <- MCResults
  Starting = {"FINAL"}
  StageMoving = {2}
  Deletable = {2}
INVARIANTS
  TreeSound
  TreeFlows
  LivesCounted
  StageSound
PROPERTIES
  PreviewKept
  ResultsStand
CHECK_DEADLOCK FALSE
