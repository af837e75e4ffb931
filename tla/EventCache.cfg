SPECIFICATION Spec
CONSTANTS
  e1 = e1
  Events = {e1}
  NoEvent = NoEvent
  Organisers = {w1}
  Passing = {}
INVARIANT CacheFollows
CHECK_DEADLOCK FALSE
