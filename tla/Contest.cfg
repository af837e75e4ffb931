SPECIFICATION ContestSpec
CONSTANTS
  MaxTeams = 4
  Rules <- MCRules
  Shuffles <- MCShuffles
  Leaving = {4}
  Moving = {1, 3}
  Forfeitable = {2}
  Candidates = {1, 2, 3, 4}  Coming = {4}  Frail = {1}  Swaps = {{1, 3}}  MaxCopies = 2
  DrawModes = {"KNOCKOUT", "LEAGUE", "GROUP_STAGE", "SWISS", "FFA"}
  k1 = k1  Chosen = {k1}  NoClan = NoClan
  SeedPlans <- MCSeedPlans  CaptainClan <- MCCaptainClan  Explored <- MCExplored  Starters <- MCStarters
  ClanChoices <- MCClanChoices
  t1 = t1  t2 = t2  t3 = t3
  Racers = {t1, t2, t3}  Stewards = {o1, o2}  Leavers = {t1, t3}  Sheets <- MCSheets
INVARIANTS
  RoundsConsistent
PROPERTIES
  PublishedAsShown DrawsAsApproved PlacesStand
CHECK_DEADLOCK FALSE
