SPECIFICATION FairSpec
CONSTANTS
  Mails = {m1, m2}
  Daemons = {d1}
  Admins = {}
  NoWorker = NoWorker
  Sensitive = {m1}
  Expiring = {m1}
  MaxAttempts = 2
  LeaseTicks = 1
  PauseTicks = 1
  RetryTicks <- MCRetryTicks
  TtlTicks = 2
  MaxResets = 1
  MaxCrashes = 1
INVARIANT SecretsExactlyWhileQueued
PROPERTY EventuallySettled
