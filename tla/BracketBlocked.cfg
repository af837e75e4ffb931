SPECIFICATION Spec
CONSTANTS
  MaxTeams = 9
  Modes = {"DOUBLE"}
  ThirdPlace = FALSE
  Moving = {1, 4}
  Winners = {1}
  NoShows = {}
INVARIANTS
  NoStuckMatch
CHECK_DEADLOCK FALSE
