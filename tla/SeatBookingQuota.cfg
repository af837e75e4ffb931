SPECIFICATION RivalSpec
CONSTANTS
  Users = {m1}
  Members = {m1}
  Nobody = Nobody
  Cells = {s1, s2}
  Clans = {k1}
  NoClan = NoClan
  ClanOf <- MCClanOf
  MaxGuests = 2
  Quota = 1
  Overwrite = TRUE
  MayBan = {m1}
  MayLeave = {m1}
INVARIANT QuotaKept
