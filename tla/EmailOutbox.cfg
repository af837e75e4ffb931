SPECIFICATION Spec
CONSTANTS
  Mails = {m1}
  Daemons = {d1, d2}
  Admins = {a1}
  NoWorker = NoWorker
  Sensitive = {}
  Expiring = {m1}
  MaxAttempts = 2
  LeaseTicks = 2
  PauseTicks = 1
  RetryTicks <- MCRetryTicks
  TtlTicks = 3
  MaxResets = 1
  MaxCrashes = 1
SYMMETRY MCSymmetry
INVARIANTS TypeOK NoConcurrentSend
PROPERTIES NoSendAfterConfirmation PromiseKept
