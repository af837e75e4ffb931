SPECIFICATION MCSpec
CONSTANTS
  Users = {m1, m2, o1}
  Members = {m1, m2}
  Nobody = Nobody
  Cells = {s1}
  Clans = {k1}
  NoClan = NoClan
  ClanOf <- MCClanOf
  MaxGuests = 2
  Quota = 1
  Overwrite = TRUE
  MayBan = {}
  MayLeave = {}
  Events = {e1, e2}
  NoEvent = NoEvent
  Here = e1
  Organisers = {w1, w2}
  Passing = {e1}
  Tickets = {t1}
  NoTicket = NoTicket
  MaxChanges = 2
  Few = 1
SYMMETRY MCSymmetry
INVARIANTS CapacityKept TicketsAndSeats ListCatchesUp
PROPERTIES ClanProtection WorkerSparesPaid EventsInOrder AdmittedRightly
CHECK_DEADLOCK FALSE
