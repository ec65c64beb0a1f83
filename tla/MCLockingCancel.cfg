SPECIFICATION FairSpec
CONSTANTS
  c1 = c1
  c2 = c2
  u = u
  r1 = r1
  r2 = r2
  r3 = r3
  r4 = r4
  Cancellers <- OneCanceller
  Locking <- FirstLocks
  Updater = u
  Refreshers <- MCRefreshers
  NoTask = NoTask
  AsyncCancel = FALSE
  SavesCanceled = TRUE
  MaxSynchronizationAttempts = 2
  MaxFailures = 0
PROPERTY CancelReturns
